--------------------------- MODULE OperationsProofs ---------------------------
(***************************************************************************)
(* The operations around the traders for every value of their parameters:  *)
(* the create-only initialisation of the continuity files, the candle      *)
(* mirror, the one-minute store, the research scans, the reversal radar,   *)
(* the labels of the ML branch, the training jobs, the reference imports,  *)
(* the demo desk and the forward logger.                                   *)
(***************************************************************************)
EXTENDS MCOperations, DataLemmas

-----------------------------------------------------------------------------
(* Continuity initialisation                                                 *)

FileStates == {"absent", "torn", "whole"}
Stages ==
  {"dry", "audit", "audited", "boundary", "bounded", "recovery", "recovered", "intent", "filling",
   "final", "finalled", "check", "create", "write", "post", "posted", "last",
   "created", "unchanged", "refused", "dead"}

InvocationType ==
  [pc : Stages, approved : Continuity!Evidence, seen : Continuity!Evidence, index : {1, 2}]

DiskTyped ==
  /\ ledgers \in [Continuity!Strategies -> Nat] /\ market \in Nat /\ marker \in Nat
  /\ metadata \in [Continuity!Strategies -> [state : FileStates, by : Invocations \cup {"", "job"}]]
  /\ journal \in [state : FileStates, by : Invocations \cup {""}, audit : Continuity!Evidence]

\* The stages after the intent record was filled.
Covered == {"final", "finalled", "check", "create", "write", "post", "posted", "last", "created"}

\* A file holds what the record j says, or a strategy's job has put it there.
Settled(m, j) == m.state = "whole" /\ m.by \in {j.by, "job"}

\* What the stage of an invocation says of the record and the files.
StageInv(p, r, j, m) ==
  /\ r.pc \in Covered => j.state = "whole" /\ j.by = p /\ j.audit = r.approved
  /\ r.pc = "filling" => j.state = "torn" /\ j.by = p
  /\ r.pc \in {"intent", "filling"} => r.seen = r.approved
  /\ r.pc = "last" => Settled(m["v8_demo"], j)
  /\ r.pc \in {"created", "unchanged"} =>
       /\ j.state = "whole" /\ j.audit = r.approved
       /\ \A s \in Continuity!Strategies : Settled(m[s], j)

ContinuityInv ==
  /\ DiskTyped
  /\ run \in [Invocations -> InvocationType]
  /\ \A p \in Invocations : StageInv(p, run[p], journal, metadata)
  /\ Continuity!RecordedBeforeWritten

LEMMA BlankTyped == Continuity!Blank \in Continuity!Evidence
BY DEF Continuity!Blank, Continuity!Evidence

LEMMA InvocationMade ==
  ASSUME NEW at \in Stages, NEW a \in Continuity!Evidence, NEW b \in Continuity!Evidence,
         NEW i \in {1, 2}
  PROVE  [pc |-> at, approved |-> a, seen |-> b, index |-> i] \in InvocationType
BY DEF InvocationType

LEMMA RecordMade ==
  ASSUME NEW state \in FileStates, NEW p \in Invocations \cup {""}, NEW a \in Continuity!Evidence
  PROVE  [state |-> state, by |-> p, audit |-> a] \in
           [state : FileStates, by : Invocations \cup {""}, audit : Continuity!Evidence]
OBVIOUS

LEMMA ContinuityInit == Continuity!Init => ContinuityInv
<1> SUFFICES ASSUME Continuity!Init PROVE ContinuityInv
  OBVIOUS
<1> DEFINE fresh == [pc |-> "dry", approved |-> Continuity!Blank, seen |-> Continuity!Blank, index |-> 1]
<1>0. fresh \in InvocationType
  BY InvocationMade, BlankTyped DEF Stages
<1>1. DiskTyped
  <2>1. journal \in [state : FileStates, by : Invocations \cup {""}, audit : Continuity!Evidence]
    BY RecordMade, BlankTyped DEF Continuity!Init, Continuity!NoJournal, FileStates
  <2>2. Continuity!Absent \in [state : FileStates, by : Invocations \cup {"", "job"}]
    BY DEF Continuity!Absent, FileStates
  <2>3. metadata \in [Continuity!Strategies -> [state : FileStates, by : Invocations \cup {"", "job"}]]
    BY <2>2 DEF Continuity!Init
  <2>4. ledgers \in [Continuity!Strategies -> Nat] /\ market \in Nat /\ marker \in Nat
    BY DEF Continuity!Init
  <2> QED
    BY <2>1, <2>3, <2>4 DEF DiskTyped
<1>2. \A p \in Invocations : run[p] \in InvocationType /\ run[p].pc = "dry"
  <2>1. \A p \in Invocations : run[p] = fresh
    BY DEF Continuity!Init
  <2> HIDE DEF fresh
  <2>2. fresh.pc = "dry"
    BY DEF fresh
  <2> QED
    BY <1>0, <2>1, <2>2
<1>3. \A p \in Invocations : StageInv(p, run[p], journal, metadata)
  BY <1>2 DEF StageInv, Covered
<1>4. Continuity!RecordedBeforeWritten
  BY OperationsAssumption DEF Continuity!Init, Continuity!RecordedBeforeWritten, Continuity!Absent
<1>5. run \in [Invocations -> InvocationType]
  BY <1>2 DEF Continuity!Init
<1> QED
  BY <1>1, <1>3, <1>4, <1>5 DEF ContinuityInv

\* A step that touches no file: the stage the invocation comes to must be right.
LEMMA StageStep ==
  ASSUME ContinuityInv, NEW p \in Invocations, NEW r \in InvocationType,
         StageInv(p, r, journal, metadata),
         run' = [run EXCEPT ![p] = r], UNCHANGED Continuity!diskVars
  PROVE  ContinuityInv'
<1>1. UNCHANGED <<ledgers, market, marker, metadata, journal>>
  BY DEF Continuity!diskVars
<1>2. DiskTyped' /\ Continuity!RecordedBeforeWritten'
  BY <1>1 DEF ContinuityInv, DiskTyped, Continuity!RecordedBeforeWritten
<1>3. run' \in [Invocations -> InvocationType]
  BY DEF ContinuityInv
<1>4. \A q \in Invocations : run'[q] = IF q = p THEN r ELSE run[q]
  BY DEF ContinuityInv
<1>5. \A q \in Invocations : StageInv(q, run'[q], journal, metadata)
  BY <1>4 DEF ContinuityInv
<1> QED
  BY <1>1, <1>2, <1>3, <1>5 DEF ContinuityInv

\* What only sends an invocation to another stage.
LEMMA GotoStep ==
  ASSUME ContinuityInv, NEW p \in Invocations, NEW at \in Stages,
         StageInv(p, [run[p] EXCEPT !.pc = at], journal, metadata),
         Continuity!Goto(p, at), UNCHANGED Continuity!diskVars
  PROVE  ContinuityInv'
<1>1. run[p] \in InvocationType
  BY DEF ContinuityInv
<1>2. [run[p] EXCEPT !.pc = at] \in InvocationType
  BY <1>1 DEF InvocationType
<1>3. run' = [run EXCEPT ![p] = [run[p] EXCEPT !.pc = at]]
  BY DEF Continuity!Goto
<1> QED
  BY <1>2, <1>3, StageStep


\* An audit reads one ledger after the other into the invocation's own memory.
AuditPairs == {<<"audit", "audited">>, <<"boundary", "bounded">>, <<"final", "finalled">>,
               <<"post", "posted">>, <<"recovery", "recovered">>}

LEMMA AuditStep ==
  ASSUME ContinuityInv, NEW p \in Invocations, NEW at, NEW next, <<at, next>> \in AuditPairs,
         Continuity!Audit(p, at, next)
  PROVE  ContinuityInv'
<1> DEFINE r == run'[p]
<1>1. run[p] \in InvocationType /\ run[p].pc = at /\ StageInv(p, run[p], journal, metadata)
  BY DEF ContinuityInv, Continuity!Audit, Continuity!At
<1>2. market \in Nat /\ ledgers["v8_demo"] \in Nat /\ ledgers["uptrend_sideways"] \in Nat
  BY DEF ContinuityInv, DiskTyped, Continuity!Strategies
<1>3. run[p].seen \in Continuity!Evidence
  BY <1>1 DEF InvocationType
<1>4. \E e \in Continuity!Evidence, i \in {1, 2}, to \in {at, next} :
        /\ r = [pc |-> to, approved |-> run[p].approved, seen |-> e, index |-> i]
        /\ run' = [run EXCEPT ![p] = r]
  <2>1. CASE run' = [run EXCEPT ![p] = [@ EXCEPT !.index = 2, !.seen.market = market,
                                          !.seen.ledgers["v8_demo"] = ledgers["v8_demo"]]]
    <3> DEFINE e == [run[p].seen EXCEPT !.market = market, !.ledgers["v8_demo"] = ledgers["v8_demo"]]
    <3>1. e \in Continuity!Evidence
      BY <1>2, <1>3 DEF Continuity!Evidence
    <3>2. r = [run[p] EXCEPT !.index = 2, !.seen.market = market,
                             !.seen.ledgers["v8_demo"] = ledgers["v8_demo"]]
      BY <2>1 DEF ContinuityInv
    <3>3. r = [pc |-> at, approved |-> run[p].approved, seen |-> e, index |-> 2]
      BY <3>2, <1>1, <1>3 DEF InvocationType, Continuity!Evidence
    <3>4. run' = [run EXCEPT ![p] = r]
      BY <2>1, <3>2
    <3> QED
      BY <3>1, <3>3, <3>4
  <2>2. CASE run' = [run EXCEPT ![p] = [@ EXCEPT !.index = 1, !.pc = next,
                       !.seen.ledgers["uptrend_sideways"] = ledgers["uptrend_sideways"]]]
    <3> DEFINE e == [run[p].seen EXCEPT !.ledgers["uptrend_sideways"] = ledgers["uptrend_sideways"]]
    <3>1. e \in Continuity!Evidence
      BY <1>2, <1>3 DEF Continuity!Evidence
    <3>2. r = [run[p] EXCEPT !.index = 1, !.pc = next,
                 !.seen.ledgers["uptrend_sideways"] = ledgers["uptrend_sideways"]]
      BY <2>2 DEF ContinuityInv
    <3>3. r = [pc |-> next, approved |-> run[p].approved, seen |-> e, index |-> 1]
      BY <3>2, <1>1, <1>3 DEF InvocationType, Continuity!Evidence
    <3>4. run' = [run EXCEPT ![p] = r]
      BY <2>2, <3>2
    <3> QED
      BY <3>1, <3>3, <3>4
  <2> QED
    BY <2>1, <2>2 DEF Continuity!Audit
<1>5. PICK e \in Continuity!Evidence, i \in {1, 2}, to \in {at, next} :
        /\ r = [pc |-> to, approved |-> run[p].approved, seen |-> e, index |-> i]
        /\ run' = [run EXCEPT ![p] = r]
  BY <1>4
<1>6. r \in InvocationType
  <2>1. to \in Stages /\ run[p].approved \in Continuity!Evidence
    BY <1>1 DEF AuditPairs, Stages, InvocationType
  <2>2. [pc |-> to, approved |-> run[p].approved, seen |-> e, index |-> i] \in InvocationType
    BY <2>1, InvocationMade
  <2> QED
    BY <1>5, <2>2
<1>7. StageInv(p, r, journal, metadata)
  <2>1. r.pc = to /\ r.approved = run[p].approved
    BY <1>5
  <2>2. at \in Covered <=> to \in Covered
    BY DEF AuditPairs, Covered
  <2>3. to \notin {"filling", "intent", "last", "created", "unchanged"}
    BY DEF AuditPairs
  <2> HIDE DEF r
  <2> QED
    BY <1>1, <2>1, <2>2, <2>3 DEF StageInv
<1> QED
  BY <1>5, <1>6, <1>7, StageStep DEF Continuity!Audit

\* A decision on what is on disk, which sends the invocation on or refuses it.
LEMMA RefusedStage ==
  ASSUME ContinuityInv, NEW p \in Invocations, NEW at \in {"refused", "dead"}
  PROVE  StageInv(p, [run[p] EXCEPT !.pc = at], journal, metadata)
<1>1. [run[p] EXCEPT !.pc = at].pc = at
  BY DEF ContinuityInv, InvocationType
<1> QED
  BY <1>1 DEF StageInv, Covered

LEMMA EvidenceFields ==
  ASSUME ContinuityInv, NEW p \in Invocations, NEW at
  PROVE  LET r == [run[p] EXCEPT !.pc = at] IN
         r.pc = at /\ r.seen = run[p].seen /\ r.approved = run[p].approved
BY DEF ContinuityInv, InvocationType

LEMMA RefuseStep ==
  ASSUME ContinuityInv, NEW p \in Invocations, NEW at \in {"refused", "dead"},
         Continuity!Goto(p, at), UNCHANGED Continuity!diskVars
  PROVE  ContinuityInv'
<1>1. at \in Stages
  BY DEF Stages
<1> QED
  BY <1>1, RefusedStage, GotoStep

\* The invocation goes on to `to', where what it must know holds, or is refused.
LEMMA OnwardStep ==
  ASSUME ContinuityInv, NEW p \in Invocations, NEW to \in Stages,
         Continuity!Goto(p, to) \/ Continuity!Refuse(p),
         StageInv(p, [run[p] EXCEPT !.pc = to], journal, metadata),
         UNCHANGED Continuity!diskVars
  PROVE  ContinuityInv'
<1>1. CASE Continuity!Refuse(p)
  BY <1>1, RefuseStep DEF Continuity!Refuse
<1> QED
  BY <1>1, GotoStep

LEMMA DryRunStep ==
  ASSUME ContinuityInv, NEW p \in Invocations, Continuity!DryRun(p)
  PROVE  ContinuityInv'
<1> DEFINE audit == [ledgers |-> ledgers, market |-> market, marker |-> marker]
           seen == [Continuity!Blank EXCEPT !.marker = marker]
           r == [pc |-> "audit", approved |-> audit, seen |-> seen, index |-> 1]
<1>1. audit \in Continuity!Evidence /\ seen \in Continuity!Evidence
  BY BlankTyped DEF ContinuityInv, DiskTyped, Continuity!Evidence
<1>2. run' = [run EXCEPT ![p] = r] /\ UNCHANGED Continuity!diskVars
  BY DEF Continuity!DryRun
<1> HIDE DEF audit, seen
<1>3. r \in InvocationType
  BY <1>1, InvocationMade DEF Stages
<1>4. StageInv(p, r, journal, metadata)
  BY DEF StageInv, Covered
<1> QED
  BY <1>2, <1>3, <1>4, StageStep

\* The decisions that need nothing of what other invocations wrote.
LEMMA DecisionStep ==
  ASSUME ContinuityInv, NEW p \in Invocations,
         \/ Continuity!StartWrite(p) \/ Continuity!FinalBoundary(p) \/ Continuity!CheckAbsent(p)
         \/ Continuity!Boundary(p)
  PROVE  ContinuityInv'
<1> USE EvidenceFields DEF Stages
<1>1. StageInv(p, run[p], journal, metadata)
  BY DEF ContinuityInv
<1>2. CASE Continuity!StartWrite(p)
  <2>1. PICK to \in {"boundary", "recovery"} : Continuity!Goto(p, to) \/ Continuity!Refuse(p)
    BY <1>2 DEF Continuity!StartWrite
  <2>2. StageInv(p, [run[p] EXCEPT !.pc = to], journal, metadata)
    BY DEF StageInv, Covered
  <2> QED
    BY <1>2, <2>1, <2>2, OnwardStep DEF Continuity!StartWrite
<1>3. CASE Continuity!FinalBoundary(p)
  <2>1. StageInv(p, [run[p] EXCEPT !.pc = "check"], journal, metadata)
    BY <1>1, <1>3 DEF StageInv, Covered, Continuity!FinalBoundary, Continuity!At
  <2> QED
    BY <1>3, <2>1, OnwardStep DEF Continuity!FinalBoundary
<1>4. CASE Continuity!CheckAbsent(p)
  <2>1. StageInv(p, [run[p] EXCEPT !.pc = "create"], journal, metadata)
    BY <1>1, <1>4 DEF StageInv, Covered, Continuity!CheckAbsent, Continuity!At
  <2> QED
    BY <1>4, <2>1, OnwardStep DEF Continuity!CheckAbsent
<1>5. CASE Continuity!Boundary(p) /\ Continuity!Approved(p)
  <2>1. StageInv(p, [run[p] EXCEPT !.pc = "intent"], journal, metadata)
    BY <1>5 DEF StageInv, Covered, Continuity!Approved
  <2>2. Continuity!Goto(p, "intent") \/ Continuity!Refuse(p)
    BY <1>5 DEF Continuity!Boundary
  <2> QED
    BY <1>5, <2>1, <2>2, OnwardStep DEF Continuity!Boundary
<1>6. CASE Continuity!Boundary(p) /\ ~Continuity!Approved(p)
  BY <1>6, RefuseStep DEF Continuity!Boundary, Continuity!Refuse
<1> QED
  BY <1>2, <1>3, <1>4, <1>5, <1>6

\* The verdicts on the files.
LEMMA VerdictStep ==
  ASSUME ContinuityInv, NEW p \in Invocations,
         Continuity!Recover(p) \/ Continuity!PostWrite(p) \/ Continuity!Validate(p)
  PROVE  ContinuityInv'
<1> USE EvidenceFields DEF Stages
<1>1. StageInv(p, run[p], journal, metadata)
  BY DEF ContinuityInv
<1>2. ASSUME NEW s \in Continuity!Strategies, Continuity!Exact(s)
      PROVE  Settled(metadata[s], journal)
  BY <1>2 DEF Settled, Continuity!Exact
<1>3. UNCHANGED Continuity!diskVars
  BY DEF Continuity!Recover, Continuity!PostWrite, Continuity!Validate
<1>4. CASE Continuity!Goto(p, "refused")
  BY <1>3, <1>4, RefuseStep
<1>5. CASE Continuity!Recover(p) /\ ~Continuity!Goto(p, "refused")
  <2>1. /\ journal.state = "whole" /\ journal.audit = run[p].approved
        /\ \A s \in Continuity!Strategies : Continuity!Exact(s)
        /\ Continuity!Goto(p, "unchanged")
    BY <1>5 DEF Continuity!Recover, Continuity!Refuse
  <2>2. StageInv(p, [run[p] EXCEPT !.pc = "unchanged"], journal, metadata)
    BY <1>2, <2>1 DEF StageInv, Covered
  <2> QED
    BY <1>3, <2>1, <2>2, OnwardStep
<1>6. CASE Continuity!PostWrite(p) /\ ~Continuity!Goto(p, "refused")
  <2>1. run[p].pc = "posted" /\ Continuity!Exact("v8_demo") /\ Continuity!Goto(p, "last")
    BY <1>6 DEF Continuity!PostWrite, Continuity!Refuse, Continuity!At
  <2>2. Settled(metadata["v8_demo"], journal)
    BY <1>2, <2>1 DEF Continuity!Strategies
  <2>3. StageInv(p, [run[p] EXCEPT !.pc = "last"], journal, metadata)
    BY <1>1, <2>1, <2>2 DEF StageInv, Covered
  <2> QED
    BY <1>3, <2>1, <2>3, OnwardStep
<1>7. CASE Continuity!Validate(p) /\ ~Continuity!Goto(p, "refused")
  <2>1. /\ run[p].pc = "last" /\ Continuity!Exact("uptrend_sideways")
        /\ Continuity!Goto(p, "created")
    BY <1>7 DEF Continuity!Validate, Continuity!Refuse, Continuity!At
  <2>2. \A s \in Continuity!Strategies : Settled(metadata[s], journal)
    BY <1>1, <1>2, <2>1 DEF Continuity!Strategies, StageInv
  <2>3. StageInv(p, [run[p] EXCEPT !.pc = "created"], journal, metadata)
    BY <1>1, <2>1, <2>2 DEF StageInv, Covered
  <2> QED
    BY <1>3, <2>1, <2>3, OnwardStep
<1> QED
  BY <1>4, <1>5, <1>6, <1>7

\* The record is created by one invocation only, and filled by the same one.
LEMMA RecordStep ==
  ASSUME ContinuityInv, NEW p \in Invocations, Continuity!_create_intent_record(p)
  PROVE  ContinuityInv'
<1> USE EvidenceFields DEF Stages
<1>1. \A q \in Invocations : StageInv(q, run[q], journal, metadata)
  BY DEF ContinuityInv
<1>2. UNCHANGED <<ledgers, market, marker, metadata, changes>>
  BY DEF Continuity!_create_intent_record
<1>3. run[p] \in InvocationType
  BY DEF ContinuityInv
<1>4. CASE run[p].pc = "intent" /\ journal.state # "absent" /\ Continuity!Refuse(p) /\ UNCHANGED journal
  BY <1>2, <1>4, RefuseStep DEF Continuity!Refuse, Continuity!diskVars
<1>5. ASSUME NEW to \in {"filling", "final"}, Continuity!Goto(p, to),
             journal' \in [state : FileStates, by : Invocations \cup {""}, audit : Continuity!Evidence],
             \A q \in Invocations \ {p} : StageInv(q, run[q], journal', metadata),
             StageInv(p, [run[p] EXCEPT !.pc = to], journal', metadata),
             journal.state = "whole" => UNCHANGED journal,
             \A s \in Continuity!Strategies : metadata[s].by \in Invocations => journal.state = "whole"
      PROVE  ContinuityInv'
  <2>1. DiskTyped'
    BY <1>2, <1>5 DEF ContinuityInv, DiskTyped
  <2>2. run' = [run EXCEPT ![p] = [run[p] EXCEPT !.pc = to]]
    BY <1>5 DEF Continuity!Goto
  <2>3. [run[p] EXCEPT !.pc = to] \in InvocationType
    BY <1>3 DEF InvocationType
  <2>4. run' \in [Invocations -> InvocationType]
    BY <2>2, <2>3 DEF ContinuityInv
  <2>5. \A q \in Invocations : run'[q] = IF q = p THEN [run[p] EXCEPT !.pc = to] ELSE run[q]
    BY <2>2 DEF ContinuityInv
  <2>6. \A q \in Invocations : StageInv(q, run'[q], journal', metadata)
    BY <1>5, <2>5
  <2>7. Continuity!RecordedBeforeWritten'
    BY <1>2, <1>5 DEF ContinuityInv, Continuity!RecordedBeforeWritten
  <2> QED
    BY <1>2, <2>1, <2>4, <2>6, <2>7 DEF ContinuityInv
<1>6. CASE /\ run[p].pc = "intent" /\ journal.state = "absent" /\ Continuity!Goto(p, "filling")
           /\ journal' = [state |-> "torn", by |-> p, audit |-> Continuity!Blank]
  <2>1. \A q \in Invocations : run[q].pc \notin Covered \cup {"filling", "last", "created", "unchanged"}
    BY <1>1, <1>6 DEF StageInv, Covered
  <2>2. \A q \in Invocations \ {p} : StageInv(q, run[q], journal', metadata)
    BY <1>1, <2>1 DEF StageInv, Covered
  <2>3. journal'.state = "torn" /\ journal'.by = p
    BY <1>6
  <2>4. StageInv(p, [run[p] EXCEPT !.pc = "filling"], journal', metadata)
    BY <1>1, <1>6, <2>3 DEF StageInv, Covered
  <2>5. journal' \in [state : FileStates, by : Invocations \cup {""}, audit : Continuity!Evidence]
    BY <1>6, BlankTyped, RecordMade DEF FileStates
  <2>6. \A s \in Continuity!Strategies : metadata[s].by \notin Invocations
    BY <1>6 DEF ContinuityInv, Continuity!RecordedBeforeWritten
  <2> QED
    BY <1>5, <1>6, <2>2, <2>4, <2>5, <2>6
<1>7. CASE /\ run[p].pc = "filling" /\ Continuity!Goto(p, "final")
           /\ journal' = [state |-> "whole", by |-> p, audit |-> run[p].seen]
  <2>1. journal.state = "torn" /\ journal.by = p /\ run[p].seen = run[p].approved
    BY <1>1, <1>7 DEF StageInv
  <2>2. \A q \in Invocations \ {p} : run[q].pc \notin Covered \cup {"filling", "last", "created", "unchanged"}
    BY <1>1, <2>1 DEF StageInv, Covered
  <2>3. \A q \in Invocations \ {p} : StageInv(q, run[q], journal', metadata)
    BY <1>1, <2>2 DEF StageInv, Covered
  <2>4. journal'.state = "whole" /\ journal'.by = p /\ journal'.audit = run[p].approved
    BY <1>7, <2>1
  <2>5. StageInv(p, [run[p] EXCEPT !.pc = "final"], journal', metadata)
    BY <2>4 DEF StageInv, Covered
  <2>6. run[p].seen \in Continuity!Evidence
    BY <1>3 DEF InvocationType
  <2>7. journal' \in [state : FileStates, by : Invocations \cup {""}, audit : Continuity!Evidence]
    BY <1>7, <2>6, RecordMade DEF FileStates
  <2>8. \A s \in Continuity!Strategies : metadata[s].by \notin Invocations
    BY <2>1 DEF ContinuityInv, Continuity!RecordedBeforeWritten
  <2> QED
    BY <1>5, <1>7, <2>1, <2>3, <2>5, <2>7, <2>8
<1> QED
  BY <1>4, <1>6, <1>7 DEF Continuity!_create_intent_record, Continuity!At

\* A file that is whole stays, or a strategy's job has replaced it; the writer
\* of a file stays, or is the one of the record or a job.
FileKept(m, n, j) ==
  /\ m.state = "whole" => n = m \/ Settled(n, j)
  /\ n.by = m.by \/ n.by \in {j.by, "job"}

LEMMA FilesStep ==
  ASSUME ContinuityInv, UNCHANGED journal, DiskTyped',
         run' \in [Invocations -> InvocationType],
         \A s \in Continuity!Strategies : FileKept(metadata[s], metadata'[s], journal),
         \A s \in Continuity!Strategies : metadata'[s].by # metadata[s].by =>
           metadata'[s].by = "job" \/ journal.state = "whole",
         \A q \in Invocations :
           \/ run'[q] = run[q]
           \/ run'[q].approved = run[q].approved /\ run[q].pc \in Covered
              /\ run'[q].pc \in Covered \ {"last", "created"}
  PROVE  ContinuityInv'
<1>1. \A s \in Continuity!Strategies : Settled(metadata[s], journal) => Settled(metadata'[s], journal)
  BY DEF FileKept, Settled
<1>2. Continuity!RecordedBeforeWritten'
  BY OperationsAssumption DEF ContinuityInv, Continuity!RecordedBeforeWritten, FileKept
<1>3. ASSUME NEW q \in Invocations
      PROVE  StageInv(q, run'[q], journal, metadata')
  <2>1. StageInv(q, run[q], journal, metadata)
    BY DEF ContinuityInv
  <2>2. CASE run'[q] = run[q]
    BY <1>1, <2>1, <2>2 DEF StageInv, Continuity!Strategies
  <2>3. CASE run'[q] # run[q]
    <3>1. /\ run'[q].approved = run[q].approved /\ run[q].pc \in Covered
          /\ run'[q].pc \in Covered \ {"last", "created"}
      BY <2>3
    <3>2. run'[q].pc \notin {"filling", "intent", "last", "created", "unchanged"}
      BY <3>1 DEF Covered
    <3> QED
      BY <2>1, <3>1, <3>2 DEF StageInv
  <2> QED
    BY <2>2, <2>3
<1> QED
  BY <1>2, <1>3 DEF ContinuityInv

LEMMA StrategyIs ==
  ASSUME ContinuityInv, NEW p \in Invocations
  PROVE  Continuity!Strategy(p) \in Continuity!Strategies
<1>1. run[p].index \in {1, 2}
  BY DEF ContinuityInv, InvocationType
<1> QED
  BY <1>1 DEF Continuity!Strategy, Continuity!STRATEGY_IDS, Continuity!Strategies

\* A file is written by the invocation of the record, if it is not there.
LEMMA MetadataStep ==
  ASSUME ContinuityInv, NEW p \in Invocations, Continuity!_create_metadata(p)
  PROVE  ContinuityInv'
<1> DEFINE s == Continuity!Strategy(p)
           FileType == [state : FileStates, by : Invocations \cup {"", "job"}]
<1>1. /\ s \in Continuity!Strategies /\ UNCHANGED <<ledgers, market, marker, journal, changes>>
      /\ metadata \in [Continuity!Strategies -> FileType] /\ run[p] \in InvocationType
  BY StrategyIs DEF ContinuityInv, DiskTyped, Continuity!_create_metadata
<1>2. StageInv(p, run[p], journal, metadata)
  BY DEF ContinuityInv
<1>3. CASE run[p].pc = "create" /\ Continuity!Refuse(p) /\ UNCHANGED metadata
  BY <1>1, <1>3, RefuseStep DEF Continuity!Refuse, Continuity!diskVars
<1>4. CASE /\ run[p].pc = "create" /\ metadata[s].state = "absent" /\ Continuity!Goto(p, "write")
           /\ metadata' = [metadata EXCEPT ![s] = [state |-> "torn", by |-> p]]
  <2> HIDE DEF s
  <2>1. journal.state = "whole" /\ journal.by = p
    BY <1>2, <1>4 DEF StageInv, Covered
  <2>2. [state |-> "torn", by |-> p] \in FileType
    BY DEF FileStates
  <2>3. DiskTyped'
    BY <1>1, <1>4, <2>2 DEF ContinuityInv, DiskTyped
  <2>4. \A t \in Continuity!Strategies :
          IF t = s THEN metadata'[t].by = p ELSE metadata'[t] = metadata[t]
    BY <1>1, <1>4
  <2>5. \A t \in Continuity!Strategies : FileKept(metadata[t], metadata'[t], journal)
    BY <1>4, <2>1, <2>4 DEF FileKept
  <2>6. [run[p] EXCEPT !.pc = "write"] \in InvocationType
    BY <1>1 DEF InvocationType, Stages
  <2>7. run' = [run EXCEPT ![p] = [run[p] EXCEPT !.pc = "write"]]
    BY <1>4 DEF Continuity!Goto
  <2>8. run' \in [Invocations -> InvocationType]
    BY <2>6, <2>7 DEF ContinuityInv
  <2>9. \A q \in Invocations :
          \/ run'[q] = run[q]
          \/ run'[q].approved = run[q].approved /\ run[q].pc \in Covered
             /\ run'[q].pc \in Covered \ {"last", "created"}
    BY <1>4, <2>7, EvidenceFields DEF ContinuityInv, Covered
  <2> QED
    BY <1>1, <2>1, <2>3, <2>5, <2>8, <2>9, FilesStep
<1>5. CASE /\ run[p].pc = "write"
           /\ metadata' = [metadata EXCEPT ![s] = IF @.by = p THEN [@ EXCEPT !.state = "whole"] ELSE @]
           /\ run' = IF run[p].index = 1 THEN [run EXCEPT ![p].pc = "check", ![p].index = 2]
                     ELSE [run EXCEPT ![p].pc = "post", ![p].index = 1]
  <2> HIDE DEF s
  <2> DEFINE m == IF metadata[s].by = p THEN [metadata[s] EXCEPT !.state = "whole"] ELSE metadata[s]
  <2>1. journal.state = "whole" /\ journal.by = p
    BY <1>2, <1>5 DEF StageInv, Covered
  <2>2. m \in FileType /\ m.by = metadata[s].by /\ (metadata[s].state = "whole" => m = metadata[s])
    <3>1. metadata[s] \in FileType
      BY <1>1
    <3>2. CASE metadata[s].by = p
      <4>1. m = [metadata[s] EXCEPT !.state = "whole"]
        BY <3>2
      <4>2. m = [state |-> "whole", by |-> metadata[s].by]
        BY <3>1, <4>1
      <4>3. metadata[s] = [state |-> metadata[s].state, by |-> metadata[s].by]
        BY <3>1
      <4> QED
        BY <3>1, <4>2, <4>3 DEF FileStates
    <3> QED
      BY <3>1, <3>2
  <2>3. metadata' = [metadata EXCEPT ![s] = m]
    BY <1>5
  <2> HIDE DEF m
  <2>4. DiskTyped'
    BY <1>1, <2>2, <2>3 DEF ContinuityInv, DiskTyped
  <2>5. \A t \in Continuity!Strategies : FileKept(metadata[t], metadata'[t], journal)
    BY <1>1, <2>2, <2>3 DEF FileKept
  <2>6. PICK to \in {"check", "post"}, i \in {1, 2} :
          run' = [run EXCEPT ![p] = [run[p] EXCEPT !.pc = to, !.index = i]]
    BY <1>5
  <2>7. [run[p] EXCEPT !.pc = to, !.index = i] \in InvocationType
    BY <1>1 DEF InvocationType, Stages
  <2>8. run' \in [Invocations -> InvocationType]
    BY <2>6, <2>7 DEF ContinuityInv
  <2>9. \A q \in Invocations :
          \/ run'[q] = run[q]
          \/ run'[q].approved = run[q].approved /\ run[q].pc \in Covered
             /\ run'[q].pc \in Covered \ {"last", "created"}
    <3>1. LET r == [run[p] EXCEPT !.pc = to, !.index = i] IN
          r.approved = run[p].approved /\ r.pc = to
      BY <1>1 DEF InvocationType
    <3> QED
      BY <1>5, <2>6, <3>1 DEF ContinuityInv, Covered
  <2>10. \A t \in Continuity!Strategies : metadata'[t].by = metadata[t].by
    BY <1>1, <2>2, <2>3
  <2> QED
    BY <1>1, <2>1, <2>4, <2>5, <2>8, <2>9, <2>10, FilesStep
<1> QED
  BY <1>3, <1>4, <1>5 DEF Continuity!_create_metadata, Continuity!At

LEMMA OthersStep ==
  ASSUME ContinuityInv, Continuity!Others
  PROVE  ContinuityInv'
<1> DEFINE file == [state |-> "whole", by |-> "job"]
<1>1. UNCHANGED <<journal, run>>
  BY DEF Continuity!Others
<1>2. \/ UNCHANGED metadata
      \/ \E s \in Continuity!Strategies : metadata' = [metadata EXCEPT ![s] = file]
  BY DEF Continuity!Others, Continuity!Job
<1>0. ledgers \in [Continuity!Strategies -> Nat] /\ market \in Nat /\ marker \in Nat
  BY DEF ContinuityInv, DiskTyped
<1>3. ledgers' \in [Continuity!Strategies -> Nat] /\ market' \in Nat /\ marker' \in Nat
  <2>1. CASE UNCHANGED ledgers
    BY <1>0, <2>1 DEF Continuity!Others
  <2>2. ASSUME NEW s \in Continuity!Strategies, ledgers' = [ledgers EXCEPT ![s] = ledgers[s] + 1],
               UNCHANGED <<market, marker>>
        PROVE  ledgers' \in [Continuity!Strategies -> Nat] /\ market' \in Nat /\ marker' \in Nat
    BY <1>0, <2>2
  <2> QED
    BY <2>1, <2>2 DEF Continuity!Others
<1>4. file \in [state : FileStates, by : Invocations \cup {"", "job"}]
  BY DEF FileStates
<1>5. DiskTyped'
  <2> DEFINE FilesType == [state : FileStates, by : Invocations \cup {"", "job"}]
  <2>1. metadata \in [Continuity!Strategies -> FilesType] /\ file \in FilesType
    BY <1>4 DEF ContinuityInv, DiskTyped
  <2> HIDE DEF FilesType, file
  <2>2. metadata' \in [Continuity!Strategies -> FilesType]
    BY <1>2, <2>1
  <2> USE DEF FilesType
  <2>3. journal' \in [state : FileStates, by : Invocations \cup {""}, audit : Continuity!Evidence]
    BY <1>1 DEF ContinuityInv, DiskTyped
  <2> QED
    BY <1>3, <2>2, <2>3 DEF DiskTyped
<1>6. \A s \in Continuity!Strategies : metadata'[s] = metadata[s] \/ metadata'[s] = file
  BY <1>2 DEF ContinuityInv, DiskTyped
<1>7. file.state = "whole" /\ file.by = "job"
  OBVIOUS
<1> HIDE DEF file
<1>8. \A s \in Continuity!Strategies : FileKept(metadata[s], metadata'[s], journal)
  BY <1>6, <1>7 DEF FileKept, Settled
<1>9. run' \in [Invocations -> InvocationType]
  BY <1>1 DEF ContinuityInv
<1> QED
  BY <1>1, <1>5, <1>6, <1>7, <1>8, <1>9, FilesStep

LEMMA ContinuityStep ==
  ASSUME ContinuityInv, Continuity!Next
  PROVE  ContinuityInv'
<1>1. CASE Continuity!Others
  BY <1>1, OthersStep
<1>2. ASSUME NEW p \in Invocations, Continuity!Dies(p)
      PROVE  ContinuityInv'
  BY <1>2, RefuseStep DEF Continuity!Dies, Continuity!Goto
<1>3. ASSUME NEW p \in Invocations, Continuity!InvocationStep(p)
      PROVE  ContinuityInv'
  BY <1>3, DryRunStep, DecisionStep, VerdictStep, RecordStep, MetadataStep, AuditStep
     DEF Continuity!InvocationStep, AuditPairs
<1> QED
  BY <1>1, <1>2, <1>3 DEF Continuity!Next

\* No step of an invocation touches a record or a file that is whole, and the
\* files change hands only to the invocation of the record.
LEMMA CreateOnlyStep ==
  ASSUME ContinuityInv, changes \in Nat, Continuity!Next
  PROVE  Continuity!CreateOnly
<1>1. CASE Continuity!Others
  <2>1. changes' # changes
    BY <1>1 DEF Continuity!Others
  <2> QED
    BY <1>1, <2>1 DEF Continuity!Others, Continuity!CreateOnly
<1>2. CASE UNCHANGED <<journal, metadata>>
  BY <1>2 DEF Continuity!CreateOnly
<1>3. ASSUME NEW p \in Invocations, Continuity!_create_intent_record(p)
      PROVE  Continuity!CreateOnly
  <2>1. StageInv(p, run[p], journal, metadata)
    BY DEF ContinuityInv
  <2>2. journal.state = "whole" => journal' = journal
    BY <1>3, <2>1 DEF StageInv, Continuity!_create_intent_record, Continuity!At
  <2> QED
    BY <1>3, <2>2 DEF Continuity!CreateOnly, Continuity!_create_intent_record
<1>4. ASSUME NEW p \in Invocations, Continuity!_create_metadata(p)
      PROVE  Continuity!CreateOnly
  <2> DEFINE s == Continuity!Strategy(p)
             FileType == [state : FileStates, by : Invocations \cup {"", "job"}]
             torn == [state |-> "torn", by |-> p]
             m == IF metadata[s].by = p THEN [metadata[s] EXCEPT !.state = "whole"] ELSE metadata[s]
  <2>1. s \in Continuity!Strategies /\ metadata \in [Continuity!Strategies -> FileType]
    BY StrategyIs DEF ContinuityInv, DiskTyped
  <2>2. run[p].pc \in {"create", "write"} /\ UNCHANGED journal
    BY <1>4 DEF Continuity!_create_metadata, Continuity!At
  <2>3. journal.by = p
    BY <2>2 DEF ContinuityInv, StageInv, Covered
  <2>4. \/ UNCHANGED metadata
        \/ /\ metadata[s].state = "absent"
           /\ metadata' = [metadata EXCEPT ![s] = torn]
        \/ metadata' = [metadata EXCEPT ![s] = m]
    BY <1>4 DEF Continuity!_create_metadata
  <2> HIDE DEF s
  <2>5. m.by = metadata[s].by /\ (metadata[s].state = "whole" => m = metadata[s])
    <3>1. metadata[s] \in FileType
      BY <2>1
    <3>2. CASE metadata[s].by = p
      <4>1. m = [metadata[s] EXCEPT !.state = "whole"]
        BY <3>2
      <4>2. m = [state |-> "whole", by |-> metadata[s].by]
        BY <3>1, <4>1
      <4>3. metadata[s] = [state |-> metadata[s].state, by |-> metadata[s].by]
        BY <3>1
      <4> QED
        BY <4>2, <4>3
    <3> QED
      BY <3>2
  <2>8. torn.by = p
    OBVIOUS
  <2> HIDE DEF m, torn
  <2>6. \A t \in Continuity!Strategies : t # s => metadata'[t] = metadata[t]
    BY <2>1, <2>4
  <2>7. \/ metadata'[s] = metadata[s]
        \/ metadata[s].state = "absent" /\ metadata'[s].by = p
        \/ metadata'[s] = m
    BY <2>1, <2>4, <2>8
  <2> QED
    BY <2>2, <2>3, <2>5, <2>6, <2>7 DEF Continuity!CreateOnly
<1>5. \/ Continuity!Others \/ UNCHANGED <<journal, metadata>>
      \/ \E p \in Invocations : Continuity!_create_intent_record(p) \/ Continuity!_create_metadata(p)
  BY DEF Continuity!Next, Continuity!InvocationStep, Continuity!Dies, Continuity!diskVars,
         Continuity!DryRun, Continuity!StartWrite, Continuity!Recover, Continuity!Boundary,
         Continuity!FinalBoundary, Continuity!CheckAbsent, Continuity!PostWrite,
         Continuity!Validate, Continuity!Audit
<1> QED
  BY <1>1, <1>2, <1>3, <1>4, <1>5

\* Both files are covered by one approved record when an invocation says so.
LEMMA ContinuitySafe ==
  ContinuityInv => Continuity!RecordedBeforeWritten /\ Continuity!SuccessMeansBoth
BY DEF ContinuityInv, StageInv, Settled, Continuity!SuccessMeansBoth, Continuity!Job

\* A continuity file that an invocation has begun to write is covered by a
\* whole intent record of its own, wherever it died; success is reported only
\* of both files and of the evidence the operator approved.
THEOREM Recorded == Spec => []ContinuityRecorded
<1>1. Init => (system = "init" => ContinuityInv)
  BY ContinuityInit DEF Init
<1>2. (system = "init" => ContinuityInv) /\ [Next]_vars => (system = "init" => ContinuityInv)'
  <2> SUFFICES ASSUME system = "init" => ContinuityInv, [Next]_vars, system' = "init"
               PROVE  ContinuityInv'
    OBVIOUS
  <2>1. CASE UNCHANGED vars
    BY <2>1 DEF vars, initVars, ContinuityInv, DiskTyped, Continuity!RecordedBeforeWritten
  <2>2. CASE Next
    BY <2>2, ContinuityStep DEF Next, OthersStay
  <2> QED
    BY <2>1, <2>2
<1>3. (system = "init" => ContinuityInv) => ContinuityRecorded
  BY ContinuitySafe DEF ContinuityRecorded
<1> QED
  BY <1>1, <1>2, <1>3, PTL DEF Spec

-----------------------------------------------------------------------------
(* The candle mirror                                                         *)

RowType == [ver : Nat, at : Nat]
SyncType == [pc : {"idle", "locked", "loaded", "applied"}, replace : BOOLEAN, payload : [Rows -> RowType]]

MirrorTyped ==
  /\ clock \in Nat /\ watermark \in Nat
  /\ source \in [Rows -> RowType] /\ target \in [Rows -> RowType]
  /\ writing \in [Rows -> Nat] /\ sync \in [Syncs -> SyncType]

\* No time on record is ahead of the clock.
PastInv ==
  /\ watermark <= clock
  /\ \A r \in Rows : source[r].at <= clock /\ target[r].at <= clock /\ writing[r] <= clock
  /\ \A p \in Syncs, r \in Rows : sync[p].payload[r].at <= clock

Straddler(r, v) == [row |-> r, ver |-> v] \in straddled

\* Time t is not before anything the sync p may make the watermark of.
Late(t, p) ==
  /\ t >= watermark
  /\ \A r \in Rows : t >= sync[p].payload[r].at /\ t >= target[r].at

\* From the export to the new watermark: what p has not delivered of a row was
\* open at the export, or began after it; the same of what is being written.
OpenLate(p) ==
  \A r \in Rows : writing[r] > 0 => Straddler(r, source[r].ver + 1) \/ Late(writing[r], p)
Delivers(p) ==
  \A r \in Rows :
    \/ source[r].ver = sync[p].payload[r].ver
    \/ ~sync[p].replace /\ sync[p].payload[r].ver = 0 /\ source[r].ver <= target[r].ver
    \/ Straddler(r, source[r].ver) \/ Late(source[r].at, p)
Delivered(p) ==
  \A r \in Rows :
    source[r].ver <= target[r].ver \/ Straddler(r, source[r].ver) \/ Late(source[r].at, p)
\* What is exported is a version the primary has, not older than the mirror's.
Newer(p) ==
  \A r \in Rows :
    /\ sync[p].payload[r].ver <= source[r].ver
    /\ sync[p].payload[r].ver > 0 \/ sync[p].replace => target[r].ver <= sync[p].payload[r].ver

MirrorInv ==
  /\ MirrorTyped /\ PastInv
  /\ \A p, q \in Syncs : sync[p].pc # "idle" /\ sync[q].pc # "idle" => p = q
  /\ \A r \in Rows : target[r].ver <= source[r].ver
  /\ \A r \in Rows : writing[r] > 0 => Straddler(r, source[r].ver + 1) \/ writing[r] >= watermark
  /\ Mirror!OnlyStraddlersMissed
  /\ \A p \in Syncs : sync[p].pc \in {"loaded", "applied"} => OpenLate(p)
  /\ \A p \in Syncs : sync[p].pc = "loaded" => Delivers(p) /\ Newer(p)
  /\ \A p \in Syncs : sync[p].pc = "applied" => Delivered(p)

LEMMA MirrorInit == Mirror!Init => MirrorInv
<1> SUFFICES ASSUME Mirror!Init PROVE MirrorInv
  OBVIOUS
<1>1. \A r \in Rows : /\ source[r] = [ver |-> 0, at |-> 0] /\ target[r] = [ver |-> 0, at |-> 0]
                      /\ writing[r] = 0
  BY DEF Mirror!Init, Mirror!None
<1>2. \A p \in Syncs : /\ sync[p].pc = "idle"
                       /\ sync[p].payload = [r \in Rows |-> [ver |-> 0, at |-> 0]]
  BY DEF Mirror!Init, Mirror!Asleep, Mirror!None
<1>3. MirrorTyped
  <2> DEFINE none == [ver |-> 0, at |-> 0]
             asleep == [pc |-> "idle", replace |-> FALSE, payload |-> [r \in Rows |-> none]]
  <2>1. none \in RowType
    BY DEF RowType
  <2>2. source = [r \in Rows |-> none] /\ target = [r \in Rows |-> none] /\ sync = [p \in Syncs |-> asleep]
    BY DEF Mirror!Init, Mirror!Asleep, Mirror!None
  <2> HIDE DEF none
  <2>3. asleep \in SyncType
    BY <2>1 DEF SyncType
  <2> HIDE DEF asleep
  <2> QED
    BY <2>1, <2>2, <2>3 DEF Mirror!Init, MirrorTyped
<1>4. clock = 1 /\ watermark = 0
  BY DEF Mirror!Init
<1>5. \A p \in Syncs, r \in Rows : sync[p].payload[r] = [ver |-> 0, at |-> 0]
  BY <1>2
<1>6. PastInv
  BY <1>1, <1>4, <1>5 DEF PastInv
<1>7. Mirror!OnlyStraddlersMissed
  BY <1>1 DEF Mirror!OnlyStraddlersMissed
<1> QED
  BY <1>1, <1>2, <1>3, <1>6, <1>7 DEF MirrorInv

\* What the types say of one row and one sync.
LEMMA RowTyped ==
  ASSUME MirrorTyped, NEW r \in Rows
  PROVE  /\ source[r].ver \in Nat /\ source[r].at \in Nat
         /\ target[r].ver \in Nat /\ target[r].at \in Nat /\ writing[r] \in Nat
         /\ \A p \in Syncs : sync[p].payload[r].ver \in Nat /\ sync[p].payload[r].at \in Nat
BY DEF MirrorTyped, RowType, SyncType

\* A writer's step leaves the syncs and the mirror alone.
LEMMA WriterStep ==
  ASSUME MirrorInv, UNCHANGED <<target, watermark, sync, straddled>>, MirrorTyped', PastInv',
         \A r \in Rows : source[r].ver <= source'[r].ver,
         \A r \in Rows :
           \/ writing'[r] = writing[r] /\ source'[r] = source[r]
           \/ writing'[r] >= clock /\ source'[r] = source[r]
           \/ writing'[r] = 0 /\ source'[r].ver = source[r].ver + 1 /\ source'[r].at = writing[r]
              /\ writing[r] > 0
  PROVE  MirrorInv'
<1> USE RowTyped
<1>0. MirrorTyped /\ PastInv /\ clock \in Nat /\ watermark \in Nat
  BY DEF MirrorInv, MirrorTyped
<1>1. \A r \in Rows : target[r].ver <= source'[r].ver
  <2> SUFFICES ASSUME NEW r \in Rows PROVE target[r].ver <= source'[r].ver
    OBVIOUS
  <2>1. target[r].ver \in Nat /\ source[r].ver \in Nat /\ source'[r].ver \in Nat
    BY <1>0 DEF MirrorTyped, RowType
  <2> QED
    BY <2>1 DEF MirrorInv
<1>2. ASSUME NEW r \in Rows, writing'[r] > 0
      PROVE  [row |-> r, ver |-> source'[r].ver + 1] \in straddled \/ writing'[r] >= watermark
  <2>1. writing'[r] \in Nat
    BY DEF MirrorTyped
  <2> QED
    BY <1>0, <1>2, <2>1 DEF MirrorInv, PastInv, Straddler
<1>3. ASSUME NEW r \in Rows, source'[r].ver > target[r].ver, source'[r].at < watermark
      PROVE  [row |-> r, ver |-> source'[r].ver] \in straddled
  <2>1. CASE source'[r] = source[r]
    BY <1>3, <2>1 DEF MirrorInv, Mirror!OnlyStraddlersMissed
  <2>2. CASE source'[r].ver = source[r].ver + 1 /\ source'[r].at = writing[r] /\ writing[r] > 0
    BY <1>0, <1>3, <2>2 DEF MirrorInv, Straddler
  <2> QED
    BY <2>1, <2>2
<1>4. Mirror!OnlyStraddlersMissed'
  BY <1>3 DEF Mirror!OnlyStraddlersMissed
<1>5. ASSUME NEW p \in Syncs, NEW r \in Rows
      PROVE  Late(clock, p)
  BY <1>0 DEF PastInv, Late, MirrorTyped
<1>6. ASSUME NEW p \in Syncs, sync[p].pc \in {"loaded", "applied"}
      PROVE  OpenLate(p)'
  <2> SUFFICES ASSUME NEW r \in Rows, writing'[r] > 0
               PROVE  [row |-> r, ver |-> source'[r].ver + 1] \in straddled \/ Late(writing'[r], p)
    BY DEF OpenLate, Straddler, Late
  <2>1. CASE writing'[r] = writing[r] /\ source'[r] = source[r]
    BY <1>6, <2>1 DEF MirrorInv, OpenLate, Straddler
  <2>2. CASE writing'[r] >= clock
    <3>1. writing'[r] \in Nat
      BY DEF MirrorTyped
    <3> QED
      BY <1>0, <1>5, <2>2, <3>1 DEF Late
  <2> QED
    BY <2>1, <2>2
<1>7. ASSUME NEW p \in Syncs, sync[p].pc = "loaded"
      PROVE  Delivers(p)' /\ Newer(p)'
  <2>1. Delivers(p) /\ Newer(p) /\ OpenLate(p)
    BY <1>7 DEF MirrorInv
  <2>2. ASSUME NEW r \in Rows
        PROVE  \/ source'[r].ver = sync[p].payload[r].ver
               \/ ~sync[p].replace /\ sync[p].payload[r].ver = 0 /\ source'[r].ver <= target[r].ver
               \/ [row |-> r, ver |-> source'[r].ver] \in straddled \/ Late(source'[r].at, p)
    <3>1. CASE source'[r] = source[r]
      BY <2>1, <3>1 DEF Delivers, Straddler
    <3>2. CASE source'[r].ver = source[r].ver + 1 /\ source'[r].at = writing[r] /\ writing[r] > 0
      BY <2>1, <3>2 DEF OpenLate, Straddler
    <3> QED
      BY <3>1, <3>2
  <2>3. Delivers(p)'
    BY <2>2 DEF Delivers, Straddler, Late
  <2>4. ASSUME NEW r \in Rows PROVE sync[p].payload[r].ver <= source'[r].ver
    <3>1. sync[p].payload[r].ver \in Nat /\ source[r].ver \in Nat /\ source'[r].ver \in Nat
      BY <1>0 DEF MirrorTyped, RowType
    <3> QED
      BY <2>1, <3>1 DEF Newer
  <2> QED
    BY <2>1, <2>3, <2>4 DEF Newer
<1>8. ASSUME NEW p \in Syncs, sync[p].pc = "applied"
      PROVE  Delivered(p)'
  <2>1. Delivered(p) /\ OpenLate(p)
    BY <1>8 DEF MirrorInv
  <2>2. ASSUME NEW r \in Rows
        PROVE  \/ source'[r].ver <= target[r].ver
               \/ [row |-> r, ver |-> source'[r].ver] \in straddled \/ Late(source'[r].at, p)
    <3>1. CASE source'[r] = source[r]
      BY <2>1, <3>1 DEF Delivered, Straddler
    <3>2. CASE source'[r].ver = source[r].ver + 1 /\ source'[r].at = writing[r] /\ writing[r] > 0
      BY <2>1, <3>2 DEF OpenLate, Straddler
    <3> QED
      BY <3>1, <3>2
  <2> QED
    BY <2>2 DEF Delivered, Straddler, Late
<1>9. \A p, q \in Syncs : sync[p].pc # "idle" /\ sync[q].pc # "idle" => p = q
  BY DEF MirrorInv
<1>10. \A r \in Rows : writing'[r] > 0 => Straddler(r, source[r].ver + 1)' \/ writing'[r] >= watermark'
  BY <1>2 DEF Straddler
<1> QED
  BY <1>1, <1>4, <1>6, <1>7, <1>8, <1>9, <1>10 DEF MirrorInv

LEMMA BeginStep ==
  ASSUME MirrorInv, NEW w \in Rows, Mirror!Begin(w)
  PROVE  MirrorInv'
<1>1. /\ writing' = [writing EXCEPT ![w] = clock]
      /\ UNCHANGED <<clock, source, target, watermark, sync, straddled>>
  BY DEF Mirror!Begin
<1>2. MirrorTyped /\ PastInv
  BY DEF MirrorInv
<1>3. MirrorTyped'
  BY <1>1, <1>2 DEF MirrorTyped
<1>4. \A r \in Rows : writing'[r] = IF r = w THEN clock ELSE writing[r]
  BY <1>1, <1>2 DEF MirrorTyped
<1>5. PastInv'
  BY <1>1, <1>2, <1>4 DEF PastInv, MirrorTyped
<1>6. \A r \in Rows : source[r].ver <= source'[r].ver
  BY <1>1, <1>2, RowTyped
<1>7. \A r \in Rows : writing'[r] >= clock \/ writing'[r] = writing[r]
  BY <1>2, <1>4 DEF MirrorTyped
<1> QED
  BY <1>1, <1>3, <1>5, <1>6, <1>7, WriterStep

LEMMA CommitStep ==
  ASSUME MirrorInv, NEW w \in Rows, Mirror!Commit(w)
  PROVE  MirrorInv'
<1> DEFINE row == [ver |-> source[w].ver + 1, at |-> writing[w]]
<1>1. /\ writing[w] > 0 /\ source' = [source EXCEPT ![w] = row]
      /\ writing' = [writing EXCEPT ![w] = 0]
      /\ UNCHANGED <<clock, target, watermark, sync, straddled>>
  BY DEF Mirror!Commit
<1>2. MirrorTyped /\ PastInv
  BY DEF MirrorInv
<1>3. row \in RowType
  BY <1>2, RowTyped DEF RowType
<1>4. row.ver = source[w].ver + 1 /\ row.at = writing[w]
  OBVIOUS
<1> HIDE DEF row
<1>5. MirrorTyped'
  BY <1>1, <1>2, <1>3 DEF MirrorTyped
<1>6. \A r \in Rows : /\ writing'[r] = IF r = w THEN 0 ELSE writing[r]
                      /\ source'[r] = IF r = w THEN row ELSE source[r]
  BY <1>1, <1>2 DEF MirrorTyped
<1>7. PastInv'
  BY <1>1, <1>2, <1>4, <1>6 DEF PastInv, MirrorTyped
<1>8. \A r \in Rows : source[r].ver <= source'[r].ver
  BY <1>2, <1>4, <1>6, RowTyped
<1> QED
  BY <1>1, <1>4, <1>5, <1>6, <1>7, <1>8, WriterStep

LEMMA ElapseStep ==
  ASSUME MirrorInv, Mirror!Elapse
  PROVE  MirrorInv'
<1>1. clock' = clock + 1 /\ UNCHANGED <<source, writing, target, watermark, sync, straddled>>
  BY DEF Mirror!Elapse
<1>2. MirrorTyped /\ PastInv /\ clock \in Nat
  BY DEF MirrorInv, MirrorTyped
<1>3. MirrorTyped'
  BY <1>1, <1>2 DEF MirrorTyped
<1>4. PastInv'
  <2>1. watermark \in Nat /\ watermark <= clock
    BY <1>2 DEF MirrorTyped, PastInv
  <2>2. \A r \in Rows : source[r].at <= clock' /\ target[r].at <= clock' /\ writing[r] <= clock'
    BY <1>1, <1>2, RowTyped DEF PastInv
  <2>3. \A p \in Syncs, r \in Rows : sync[p].payload[r].at <= clock'
    BY <1>1, <1>2, RowTyped DEF PastInv
  <2> QED
    BY <1>1, <1>2, <2>1, <2>2, <2>3 DEF PastInv
<1>5. \A r \in Rows : source[r].ver <= source'[r].ver
  BY <1>1, <1>2, RowTyped
<1> QED
  BY <1>1, <1>3, <1>4, <1>5, WriterStep

\* A step of the one sync at work, which comes to record s.
LEMMA SyncStep ==
  ASSUME MirrorInv, NEW p \in Syncs, NEW s \in SyncType, sync' = [sync EXCEPT ![p] = s],
         UNCHANGED <<clock, source, writing>>, \A q \in Syncs : sync[q].pc # "idle" => q = p,
         straddled \subseteq straddled',
         target' \in [Rows -> RowType], watermark' \in Nat,
         watermark' <= clock, \A r \in Rows : target'[r].at <= clock /\ s.payload[r].at <= clock,
         \A r \in Rows : target'[r].ver <= source[r].ver,
         Mirror!OnlyStraddlersMissed',
         \A r \in Rows : writing[r] > 0 => Straddler(r, source[r].ver + 1)' \/ writing[r] >= watermark',
         s.pc \in {"loaded", "applied"} => OpenLate(p)',
         s.pc = "loaded" => Delivers(p)' /\ Newer(p)',
         s.pc = "applied" => Delivered(p)'
  PROVE  MirrorInv'
<1>1. MirrorTyped /\ PastInv
  BY DEF MirrorInv
<1>2. \A q \in Syncs : sync'[q] = IF q = p THEN s ELSE sync[q]
  BY <1>1 DEF MirrorTyped
<1>3. MirrorTyped'
  BY <1>1 DEF MirrorTyped
<1>4. PastInv'
  BY <1>1, <1>2 DEF PastInv
<1>5. \A q \in Syncs : sync'[q].pc # "idle" => q = p
  BY <1>2
<1>6. \A q \in Syncs : sync'[q].pc \in {"loaded", "applied"} => OpenLate(q)'
  BY <1>2, <1>5
<1>7. \A q \in Syncs : sync'[q].pc = "loaded" => Delivers(q)' /\ Newer(q)'
  BY <1>2, <1>5
<1>8. \A q \in Syncs : sync'[q].pc = "applied" => Delivered(q)'
  BY <1>2, <1>5
<1> QED
  BY <1>3, <1>4, <1>5, <1>6, <1>7, <1>8 DEF MirrorInv

\* An invocation that starts, fails or ends leaves everything else as it is.
LEMMA IdleStep ==
  ASSUME MirrorInv, NEW p \in Syncs, NEW s \in SyncType, sync' = [sync EXCEPT ![p] = s],
         s.pc \in {"idle", "locked"}, \A r \in Rows : s.payload[r].at = 0,
         \A q \in Syncs : sync[q].pc # "idle" => q = p,
         UNCHANGED <<clock, source, writing, target, watermark, straddled>>
  PROVE  MirrorInv'
<1>1. MirrorTyped /\ PastInv /\ clock \in Nat
  BY DEF MirrorInv, MirrorTyped
<1>2. \A r \in Rows : target'[r].at <= clock /\ s.payload[r].at <= clock
  BY <1>1 DEF PastInv
<1>3. watermark <= clock /\ target \in [Rows -> RowType] /\ watermark \in Nat
  BY <1>1 DEF PastInv, MirrorTyped
<1>4. \A r \in Rows : target'[r].ver <= source[r].ver
  BY DEF MirrorInv
<1>5. Mirror!OnlyStraddlersMissed'
  BY DEF MirrorInv, Mirror!OnlyStraddlersMissed
<1>6. \A r \in Rows : writing[r] > 0 => Straddler(r, source[r].ver + 1)' \/ writing[r] >= watermark'
  BY DEF MirrorInv, Straddler
<1> QED
  BY <1>2, <1>3, <1>4, <1>5, <1>6, SyncStep

LEMMA NoPayload ==
  ASSUME NEW at \in {"idle", "locked"}, NEW b \in BOOLEAN
  PROVE  LET s == [pc |-> at, replace |-> b, payload |-> [r \in Rows |-> Mirror!None]] IN
         s \in SyncType /\ s.pc = at /\ \A r \in Rows : s.payload[r].at = 0
<1> DEFINE none == [r \in Rows |-> Mirror!None]
<1>1. none \in [Rows -> RowType] /\ \A r \in Rows : none[r].at = 0
  BY DEF RowType, Mirror!None
<1> HIDE DEF none
<1>2. [pc |-> at, replace |-> b, payload |-> none] \in SyncType
  BY <1>1 DEF SyncType
<1> QED
  BY <1>1, <1>2 DEF none

LEMMA SyncParts ==
  ASSUME NEW x \in SyncType, NEW at, NEW y
  PROVE  /\ [x EXCEPT !.pc = at, !.payload = y] = [pc |-> at, replace |-> x.replace, payload |-> y]
         /\ [x EXCEPT !.pc = at, !.replace = y] = [pc |-> at, replace |-> y, payload |-> x.payload]
<1>1. x = [pc |-> x.pc, replace |-> x.replace, payload |-> x.payload]
  BY Zenon DEF SyncType
<1> QED
  BY <1>1, RecordParts

LEMMA LockStep ==
  ASSUME MirrorInv, NEW p \in Syncs, Mirror!Lock(p)
  PROVE  MirrorInv'
<1> DEFINE none == [r \in Rows |-> Mirror!None]
<1>0. Mirror!Asleep.payload = none
  BY DEF Mirror!Asleep
<1> HIDE DEF none
<1>1. PICK full \in BOOLEAN :
        sync' = [sync EXCEPT ![p] = [pc |-> "locked", replace |-> full \/ watermark = 0,
                                     payload |-> none]]
  BY <1>0 DEF Mirror!Lock
<1>2. PICK b \in BOOLEAN : b = (full \/ watermark = 0)
  OBVIOUS
<1> DEFINE s == [pc |-> "locked", replace |-> b, payload |-> none]
<1>3. sync' = [sync EXCEPT ![p] = s]
  BY <1>1, <1>2, Zenon
<1>4. s \in SyncType /\ s.pc = "locked" /\ \A r \in Rows : s.payload[r].at = 0
  BY NoPayload DEF none
<1>5. \A q \in Syncs : sync[q].pc = "idle"
  BY DEF Mirror!Lock, Mirror!Started
<1> HIDE DEF s
<1> QED
  BY <1>3, <1>4, <1>5, IdleStep, ZenonT(40) DEF Mirror!Lock

LEMMA FailsStep ==
  ASSUME MirrorInv, NEW p \in Syncs, Mirror!Fails(p)
  PROVE  MirrorInv'
<1> DEFINE s == [pc |-> "idle", replace |-> FALSE, payload |-> [r \in Rows |-> Mirror!None]]
<1>1. sync' = [sync EXCEPT ![p] = s]
  BY DEF Mirror!Fails, Mirror!Asleep
<1>2. s \in SyncType /\ s.pc = "idle" /\ \A r \in Rows : s.payload[r].at = 0
  BY NoPayload
<1>3. \A q \in Syncs : sync[q].pc # "idle" => q = p
  BY DEF MirrorInv, Mirror!Fails, Mirror!Started
<1> HIDE DEF s
<1> QED
  BY <1>1, <1>2, <1>3, IdleStep DEF Mirror!Fails

\* The export: rows left out were not written since the watermark, and what is
\* open at that moment is on record as a straddler.
LEMMA ExportStep ==
  ASSUME MirrorInv, NEW p \in Syncs, Mirror!Export(p)
  PROVE  MirrorInv'
<1> DEFINE In(r) == sync[p].replace \/ source[r].at >= watermark
           payload == [r \in Rows |-> IF In(r) THEN source[r] ELSE Mirror!None]
           s == [sync[p] EXCEPT !.pc = "loaded", !.payload = payload]
<1>1. MirrorTyped /\ PastInv /\ clock \in Nat /\ watermark \in Nat /\ sync[p] \in SyncType
  BY DEF MirrorInv, MirrorTyped
<1>2. /\ sync[p].pc = "locked" /\ UNCHANGED <<clock, source, writing, target, watermark>>
      /\ straddled' = straddled \cup
           {[row |-> r, ver |-> source[r].ver + 1] : r \in {q \in Rows : writing[q] > 0}}
  BY DEF Mirror!Export
<1>3. sync' = [sync EXCEPT ![p] = s]
  <2>1. sync' = [sync EXCEPT ![p] = [[@ EXCEPT !.pc = "loaded"] EXCEPT !.payload = payload]]
    BY <1>1 DEF Mirror!Export, MirrorTyped
  <2> QED
    BY <2>1
<1>4. \A r \in Rows : IF In(r) THEN payload[r] = source[r]
                      ELSE payload[r].ver = 0 /\ payload[r].at = 0
  BY DEF Mirror!None
<1>5. payload \in [Rows -> RowType]
  BY <1>1 DEF MirrorTyped, RowType, Mirror!None
<1> HIDE DEF payload
<1>6. s = [pc |-> "loaded", replace |-> sync[p].replace, payload |-> payload]
  BY <1>1, SyncParts, Zenon
<1>7. s \in SyncType
  BY <1>1, <1>5, <1>6 DEF SyncType
<1>8. s.pc = "loaded" /\ s.replace = sync[p].replace /\ s.payload = payload
  BY <1>6
<1> HIDE DEF s
<1>9. sync'[p] = s
  BY <1>1, <1>3 DEF MirrorTyped
<1>10. \A q \in Syncs : sync[q].pc # "idle" => q = p
  BY <1>2 DEF MirrorInv
<1>11. \A r \in Rows : target[r].at <= clock /\ payload[r].at <= clock
  BY <1>1, <1>4 DEF PastInv
<1>12. watermark <= clock /\ target \in [Rows -> RowType]
  BY <1>1 DEF PastInv, MirrorTyped
<1>13. \A r \in Rows : target[r].ver <= source[r].ver
  BY DEF MirrorInv
<1>14. Mirror!OnlyStraddlersMissed'
  BY <1>2 DEF MirrorInv, Mirror!OnlyStraddlersMissed
<1>15. \A r \in Rows : writing[r] > 0 => Straddler(r, source[r].ver + 1)'
  BY <1>2 DEF Straddler
<1>16. OpenLate(p)'
  BY <1>2, <1>15 DEF OpenLate
<1>17. Delivers(p)'
  <2>1. ASSUME NEW r \in Rows
        PROVE  \/ source[r].ver = payload[r].ver
               \/ ~sync[p].replace /\ payload[r].ver = 0 /\ source[r].ver <= target[r].ver
               \/ [row |-> r, ver |-> source[r].ver] \in straddled
    <3>1. CASE In(r)
      BY <1>4, <3>1
    <3>2. CASE ~In(r)
      <4>1. source[r].at < watermark
        BY <1>1, <3>2, RowTyped
      <4>2. source[r].ver <= target[r].ver \/ source[r].ver > target[r].ver
        BY <1>1, RowTyped
      <4>3. payload[r].ver = 0 /\ ~sync[p].replace
        BY <1>4, <3>2
      <4> QED
        BY <4>1, <4>2, <4>3 DEF MirrorInv, Mirror!OnlyStraddlersMissed
    <3> QED
      BY <3>1, <3>2
  <2> QED
    BY <1>2, <1>8, <1>9, <2>1 DEF Delivers, Straddler
<1>18. Newer(p)'
  <2>1. ASSUME NEW r \in Rows
        PROVE  /\ payload[r].ver <= source[r].ver
               /\ payload[r].ver > 0 \/ sync[p].replace => target[r].ver <= payload[r].ver
    <3>1. CASE In(r)
      BY <1>1, <1>4, <1>13, <3>1, RowTyped
    <3>2. CASE ~In(r)
      BY <1>1, <1>4, <3>2, RowTyped
    <3> QED
      BY <3>1, <3>2
  <2> QED
    BY <1>2, <1>8, <1>9, <2>1 DEF Newer
<1> QED
  BY <1>1, <1>2, <1>3, <1>7, <1>8, <1>10, <1>11, <1>12, <1>13, <1>14, <1>15, <1>16, <1>17, <1>18, SyncStep

LEMMA AtStage ==
  ASSUME NEW x \in SyncType, NEW at \in {"idle", "locked", "loaded", "applied"}
  PROVE  LET s == [x EXCEPT !.pc = at] IN
         s \in SyncType /\ s.pc = at /\ s.replace = x.replace /\ s.payload = x.payload
<1>1. PICK A, B, C : x \in [pc : A, replace : B, payload : C] /\ B = BOOLEAN /\ C = [Rows -> RowType]
  BY Zenon DEF SyncType
<1> DEFINE s == [x EXCEPT !.pc = at]
<1>2. s = [pc |-> at, replace |-> x.replace, payload |-> x.payload]
  BY <1>1
<1>3. s \in [pc : {at}, replace : B, payload : C]
  BY <1>1, <1>2
<1>4. s.pc = at /\ s.replace = x.replace /\ s.payload = x.payload
  BY <1>1, <1>2
<1>5. s \in [pc : {"idle", "locked", "loaded", "applied"}, replace : B, payload : C]
  BY <1>3
<1> QED
  BY <1>1, <1>4, <1>5, Zenon DEF SyncType

\* The transaction on the mirror: what it delivers is not older than what was
\* there, and what it leaves out is on record or newer than everything it has.
LEMMA ApplyStep ==
  ASSUME MirrorInv, NEW p \in Syncs, Mirror!Apply(p)
  PROVE  MirrorInv' /\ Mirror!NeverGoesBack
<1> DEFINE payload == sync[p].payload
           s == [sync[p] EXCEPT !.pc = "applied"]
<1>1. /\ MirrorTyped /\ PastInv /\ clock \in Nat /\ watermark \in Nat /\ sync[p] \in SyncType
      /\ payload \in [Rows -> RowType]
  BY DEF MirrorInv, MirrorTyped, SyncType
<1>2. /\ sync[p].pc = "loaded" /\ UNCHANGED <<clock, source, writing, watermark, straddled>>
      /\ sync' = [sync EXCEPT ![p] = s]
  BY DEF Mirror!Apply
<1>3. s \in SyncType /\ s.pc = "applied" /\ s.replace = sync[p].replace /\ s.payload = payload
  BY <1>1, AtStage
<1>4. Delivers(p) /\ Newer(p) /\ OpenLate(p)
  BY <1>2 DEF MirrorInv
<1>5. \A r \in Rows :
        target'[r] = IF payload[r].ver > 0 THEN payload[r]
                     ELSE IF sync[p].replace THEN Mirror!None ELSE target[r]
  BY DEF Mirror!Apply
<1>6. Mirror!None \in RowType /\ Mirror!None.ver = 0 /\ Mirror!None.at = 0
  BY DEF Mirror!None, RowType
<1>7. target' \in [Rows -> RowType]
  <2>1. \A r \in Rows : target'[r] \in RowType
    BY <1>1, <1>5, <1>6 DEF MirrorTyped
  <2>2. target' = [r \in Rows |-> target'[r]]
    BY DEF Mirror!Apply
  <2> QED
    BY <2>1, <2>2
<1> HIDE DEF s
<1>8. sync'[p] = s
  BY <1>1, <1>2 DEF MirrorTyped
<1>9. \A q \in Syncs : sync[q].pc # "idle" => q = p
  BY <1>2 DEF MirrorInv
<1>10. ASSUME NEW r \in Rows
       PROVE  /\ payload[r].ver \in Nat /\ payload[r].at \in Nat
              /\ source[r].ver \in Nat /\ source[r].at \in Nat /\ target[r].ver \in Nat /\ target[r].at \in Nat
              /\ target'[r].ver \in Nat /\ writing[r] \in Nat
  BY <1>1, <1>7 DEF MirrorTyped, RowType
<1>11. \A r \in Rows : target'[r].at <= clock /\ payload[r].at <= clock
  BY <1>1, <1>5, <1>6 DEF PastInv
<1>12. \A r \in Rows : target'[r].ver <= source[r].ver /\ target[r].ver <= target'[r].ver
  <2> SUFFICES ASSUME NEW r \in Rows
               PROVE  target'[r].ver <= source[r].ver /\ target[r].ver <= target'[r].ver
    OBVIOUS
  <2>1. CASE payload[r].ver > 0
    BY <1>4, <1>5, <1>10, <2>1 DEF Newer
  <2>2. CASE ~(payload[r].ver > 0) /\ sync[p].replace
    BY <1>4, <1>5, <1>6, <1>10, <2>2 DEF Newer
  <2>3. CASE ~(payload[r].ver > 0) /\ ~sync[p].replace
    BY <1>5, <1>10, <2>3 DEF MirrorInv
  <2> QED
    BY <2>1, <2>2, <2>3
<1>13. ASSUME NEW t \in Nat, Late(t, p)
       PROVE  Late(t, p)' /\ t >= watermark'
  <2>1. \A r \in Rows : t >= sync'[p].payload[r].at
    BY <1>3, <1>8, <1>13 DEF Late
  <2>2. \A r \in Rows : t >= target'[r].at
    BY <1>5, <1>6, <1>13 DEF Late
  <2>3. t >= watermark'
    BY <1>2, <1>13 DEF Late
  <2> QED
    BY <2>1, <2>2, <2>3 DEF Late
<1>14. ASSUME NEW r \in Rows
       PROVE  \/ source[r].ver <= target'[r].ver
              \/ [row |-> r, ver |-> source[r].ver] \in straddled \/ Late(source[r].at, p)
  <2>1. CASE source[r].ver = payload[r].ver
    BY <1>5, <1>10, <2>1
  <2>2. CASE ~sync[p].replace /\ payload[r].ver = 0 /\ source[r].ver <= target[r].ver
    BY <1>5, <2>2
  <2> QED
    BY <1>4, <2>1, <2>2 DEF Delivers, Straddler
<1>15. Mirror!OnlyStraddlersMissed'
  <2> SUFFICES ASSUME NEW r \in Rows, source[r].ver > target'[r].ver, source[r].at < watermark
               PROVE  [row |-> r, ver |-> source[r].ver] \in straddled
    BY <1>2 DEF Mirror!OnlyStraddlersMissed
  <2>1. ~Late(source[r].at, p)
    BY <1>1, <1>10 DEF Late
  <2>2. ~(source[r].ver <= target'[r].ver)
    BY <1>10
  <2> QED
    BY <1>14, <2>1, <2>2
<1>16. OpenLate(p)'
  BY <1>2, <1>4, <1>10, <1>13 DEF OpenLate, Straddler
<1>17. Delivered(p)'
  BY <1>2, <1>10, <1>13, <1>14 DEF Delivered, Straddler
<1>18. \A r \in Rows : writing[r] > 0 => Straddler(r, source[r].ver + 1)' \/ writing[r] >= watermark'
  BY <1>2 DEF MirrorInv, Straddler
<1>19. MirrorInv'
  <2>1. watermark' \in Nat /\ watermark' <= clock /\ straddled \subseteq straddled'
    BY <1>1, <1>2 DEF PastInv
  <2>2. \A r \in Rows : target'[r].at <= clock /\ s.payload[r].at <= clock
    BY <1>3, <1>11
  <2> QED
    BY <1>2, <1>3, <1>7, <1>9, <1>12, <1>15, <1>16, <1>17, <1>18, <2>1, <2>2, SyncStep
<1> QED
  BY <1>12, <1>10, <1>19 DEF Mirror!NeverGoesBack

\* The watermark moves to the newest time the mirror holds.
LEMMA Newest ==
  ASSUME MirrorTyped, PastInv
  PROVE  LET newest == Mirror!Max({target[r].at : r \in Rows}) IN
         newest \in Nat /\ newest <= clock /\ \E r \in Rows : newest = target[r].at
<1> DEFINE T == {target[r].at : r \in Rows}
<1>1. T \subseteq Nat /\ T # {} /\ clock \in Nat /\ \A t \in T : t <= clock
  <2>1. \A r \in Rows : target[r].at \in Nat /\ target[r].at <= clock
    BY RowTyped DEF PastInv
  <2>2. PICK r \in Rows : TRUE
    BY OperationsAssumption
  <2>3. target[r].at \in T
    OBVIOUS
  <2> QED
    BY <2>1, <2>3 DEF MirrorTyped
<1> HIDE DEF T
<1>2. PICK m \in T : \A t \in T : t <= m
  BY <1>1, GreatestNatural
<1>3. \A t \in T : m >= t
  BY <1>1, <1>2
<1>4. Mirror!Max(T) \in T
  BY <1>3 DEF Mirror!Max
<1> QED
  BY <1>1, <1>4 DEF T

LEMMA MoveStep ==
  ASSUME MirrorInv, NEW p \in Syncs, Mirror!MoveWatermark(p)
  PROVE  MirrorInv'
<1> DEFINE newest == Mirror!Max({target[r].at : r \in Rows})
           s == Mirror!Asleep
<1>1. MirrorTyped /\ PastInv /\ clock \in Nat /\ watermark \in Nat /\ watermark <= clock
  BY DEF MirrorInv, MirrorTyped, PastInv
<1>2. newest \in Nat /\ newest <= clock /\ \E r \in Rows : newest = target[r].at
  BY <1>1, Newest
<1>3. /\ sync[p].pc = "applied" /\ UNCHANGED <<clock, source, writing, target, straddled>>
      /\ watermark' = (IF newest > 0 THEN newest ELSE watermark) /\ sync' = [sync EXCEPT ![p] = s]
  BY DEF Mirror!MoveWatermark
<1>4. s \in SyncType /\ s.pc = "idle" /\ \A r \in Rows : s.payload[r].at = 0
  BY NoPayload DEF Mirror!Asleep
<1> HIDE DEF newest, s
<1>5. watermark' \in Nat /\ watermark' <= clock
  BY <1>1, <1>2, <1>3
<1>6. ASSUME NEW t \in Nat, Late(t, p)
      PROVE  t >= watermark'
  BY <1>1, <1>2, <1>3, <1>6 DEF Late
<1>7. Delivered(p) /\ OpenLate(p)
  BY <1>3 DEF MirrorInv
<1>8. Mirror!OnlyStraddlersMissed'
  <2> SUFFICES ASSUME NEW r \in Rows, source[r].ver > target[r].ver, source[r].at < watermark'
               PROVE  [row |-> r, ver |-> source[r].ver] \in straddled
    BY <1>3 DEF Mirror!OnlyStraddlersMissed
  <2>1. source[r].at \in Nat /\ source[r].ver \in Nat /\ target[r].ver \in Nat
    BY <1>1, RowTyped
  <2>2. ~Late(source[r].at, p)
    BY <1>5, <1>6, <2>1
  <2>3. ~(source[r].ver <= target[r].ver)
    BY <2>1
  <2> QED
    BY <1>7, <2>2, <2>3 DEF Delivered, Straddler
<1>9. \A r \in Rows : writing[r] > 0 => Straddler(r, source[r].ver + 1)' \/ writing[r] >= watermark'
  <2>1. \A r \in Rows : writing[r] \in Nat
    BY <1>1, RowTyped
  <2> QED
    BY <1>3, <1>6, <1>7, <2>1 DEF OpenLate, Straddler
<1>10. \A r \in Rows : target'[r].at <= clock /\ s.payload[r].at <= clock
  BY <1>1, <1>3, <1>4 DEF PastInv
<1>11. target' \in [Rows -> RowType] /\ \A r \in Rows : target'[r].ver <= source[r].ver
  BY <1>1, <1>3 DEF MirrorInv, MirrorTyped
<1>12. \A q \in Syncs : sync[q].pc # "idle" => q = p
  BY <1>3 DEF MirrorInv
<1> QED
  BY <1>3, <1>4, <1>5, <1>8, <1>9, <1>10, <1>11, <1>12, SyncStep

LEMMA MirrorStep ==
  ASSUME MirrorInv, Mirror!Next
  PROVE  MirrorInv' /\ Mirror!NeverGoesBack
<1>1. CASE \E p \in Syncs : Mirror!Apply(p)
  BY <1>1, ApplyStep
<1>2. CASE \/ Mirror!Elapse \/ \E r \in Rows : Mirror!Begin(r) \/ Mirror!Commit(r)
           \/ \E p \in Syncs : Mirror!Lock(p) \/ Mirror!Export(p) \/ Mirror!MoveWatermark(p) \/ Mirror!Fails(p)
  <2>1. MirrorInv'
    BY <1>2, ElapseStep, BeginStep, CommitStep, LockStep, ExportStep, MoveStep, FailsStep
  <2>2. UNCHANGED target
    BY <1>2 DEF Mirror!Elapse, Mirror!Begin, Mirror!Commit, Mirror!Lock, Mirror!Export,
                Mirror!MoveWatermark, Mirror!Fails
  <2>3. \A r \in Rows : target[r].ver \in Nat
    BY RowTyped DEF MirrorInv
  <2> QED
    BY <2>1, <2>2, <2>3 DEF Mirror!NeverGoesBack
<1> QED
  BY <1>1, <1>2 DEF Mirror!Next

LEMMA MirrorInvariant == Spec => [](system = "mirror" => MirrorInv)
<1>1. Init => (system = "mirror" => MirrorInv)
  BY MirrorInit DEF Init
<1>2. (system = "mirror" => MirrorInv) /\ [Next]_vars => (system = "mirror" => MirrorInv)'
  <2> SUFFICES ASSUME system = "mirror" => MirrorInv, [Next]_vars, system' = "mirror"
               PROVE  MirrorInv'
    OBVIOUS
  <2>1. CASE UNCHANGED vars
    <3>1. /\ system' = system
          /\ UNCHANGED <<clock, source, writing, target, watermark, sync, straddled>>
      BY <2>1 DEF vars, mirrorVars
    <3>2. MirrorInv
      BY <3>1
    <3> QED
      BY <3>1, <3>2 DEF MirrorInv, MirrorTyped, PastInv, Straddler, Late, OpenLate, Delivers,
                        Delivered, Newer, Mirror!OnlyStraddlersMissed
  <2>2. CASE Next
    BY <2>2, MirrorStep DEF Next, OthersStay
  <2> QED
    BY <2>1, <2>2
<1> QED
  BY <1>1, <1>2, PTL DEF Spec

\* What the continuity initialisation and the candle mirror never take back: a
\* record or a file that is whole (scripts/initialize_paper_continuity.py), a
\* version the replica has shown, whichever sync arrives late (candle sync).
THEOREM Kept ==
  Spec => [][/\ system = "init" => Continuity!CreateOnly
             /\ system = "mirror" => Mirror!NeverGoesBack]_vars
<1>1. Init => (system = "init" => ContinuityInv /\ changes \in Nat)
  BY ContinuityInit DEF Init, Continuity!Init
<1>2. (system = "init" => ContinuityInv /\ changes \in Nat) /\ [Next]_vars
        => (system = "init" => ContinuityInv /\ changes \in Nat)'
  <2> SUFFICES ASSUME system = "init" => ContinuityInv /\ changes \in Nat, [Next]_vars,
                      system' = "init"
               PROVE  ContinuityInv' /\ changes' \in Nat
    OBVIOUS
  <2>1. CASE UNCHANGED vars
    BY <2>1 DEF vars, initVars, ContinuityInv, DiskTyped, Continuity!RecordedBeforeWritten
  <2>2. CASE Next
    <3>1. Continuity!Next /\ ContinuityInv /\ changes \in Nat
      BY <2>2, SMTT(30) DEF Next, OthersStay
    <3>2. changes' = changes \/ changes' = changes + 1
      BY <3>1 DEF Continuity!Next, Continuity!Others, Continuity!InvocationStep, Continuity!Dies,
                  Continuity!diskVars, Continuity!DryRun, Continuity!StartWrite, Continuity!Recover,
                  Continuity!Boundary, Continuity!_create_intent_record, Continuity!FinalBoundary,
                  Continuity!CheckAbsent, Continuity!_create_metadata, Continuity!PostWrite,
                  Continuity!Validate, Continuity!Audit
    <3> QED
      BY <3>1, <3>2, ContinuityStep
  <2> QED
    BY <2>1, <2>2
<1>3. /\ system = "init" => ContinuityInv /\ changes \in Nat
      /\ system = "mirror" => MirrorInv
      /\ [Next]_vars
      => [/\ system = "init" => Continuity!CreateOnly
          /\ system = "mirror" => Mirror!NeverGoesBack]_vars
  <2> SUFFICES ASSUME system = "init" => ContinuityInv /\ changes \in Nat,
                      system = "mirror" => MirrorInv, Next
               PROVE  /\ system = "init" => Continuity!CreateOnly
                      /\ system = "mirror" => Mirror!NeverGoesBack
    OBVIOUS
  <2>1. ASSUME system = "init" PROVE Continuity!CreateOnly
    <3>1. Continuity!Next
      BY <2>1 DEF Next, OthersStay
    <3> QED
      BY <2>1, <3>1, CreateOnlyStep
  <2>2. ASSUME system = "mirror" PROVE Mirror!NeverGoesBack
    <3>1. Mirror!Next
      BY <2>2 DEF Next, OthersStay
    <3> QED
      BY <2>2, <3>1, MirrorStep
  <2> QED
    BY <2>1, <2>2
<1> QED
  BY <1>1, <1>2, <1>3, MirrorInvariant, PTL DEF Spec

-----------------------------------------------------------------------------
(* The one-minute store                                                      *)

\* Max and Min of such a set are its extremes.
LEMMA Extremes ==
  ASSUME NEW S \in SUBSET Nat, S # {}, IsFiniteSet(S)
  PROVE  /\ Intraday!Max(S) \in S /\ \A n \in S : n <= Intraday!Max(S)
         /\ Intraday!Min(S) \in S /\ \A n \in S : Intraday!Min(S) <= n
<1>1. PICK m \in S : \A n \in S : n <= m
  BY GreatestFinite
<1>2. PICK l \in S : \A n \in S : l <= n
  BY LeastNatural
<1>3. (\A n \in S : m >= n) /\ (\A n \in S : l <= n)
  BY <1>1, <1>2
<1>4. Intraday!Max(S) \in S /\ \A n \in S : Intraday!Max(S) >= n
  BY <1>3 DEF Intraday!Max
<1>5. Intraday!Min(S) \in S /\ \A n \in S : Intraday!Min(S) <= n
  BY <1>3 DEF Intraday!Min
<1>6. \A n \in S : n <= Intraday!Max(S)
  BY <1>4
<1> QED
  BY <1>4, <1>5, <1>6

\* Only one number bounds a set from within.
LEMMA ExtremeIs ==
  ASSUME NEW S \in SUBSET Nat, NEW x \in S
  PROVE  /\ (\A n \in S : n <= x) => Intraday!Max(S) = x
         /\ (\A n \in S : x <= n) => Intraday!Min(S) = x
<1>1. ASSUME \A n \in S : n <= x
      PROVE  Intraday!Max(S) = x
  <2>1. \A n \in S : x >= n
    BY <1>1
  <2>2. Intraday!Max(S) \in S /\ \A n \in S : Intraday!Max(S) >= n
    BY <2>1 DEF Intraday!Max
  <2>3. Intraday!Max(S) \in Nat /\ x \in Nat /\ x >= Intraday!Max(S) /\ Intraday!Max(S) >= x
    BY <2>1, <2>2
  <2> QED
    BY <2>3
<1>2. ASSUME \A n \in S : x <= n
      PROVE  Intraday!Min(S) = x
  <2>1. Intraday!Min(S) \in S /\ \A n \in S : Intraday!Min(S) <= n
    BY <1>2 DEF Intraday!Min
  <2>2. Intraday!Min(S) \in Nat /\ x \in Nat /\ x <= Intraday!Min(S) /\ Intraday!Min(S) <= x
    BY <1>2, <2>1
  <2> QED
    BY <2>2
<1> QED
  BY <1>1, <1>2

LEMMA MinutesTyped == Minutes \in Nat /\ Intervals \subseteq Nat \ {0}
BY OperationsAssumption, Zenon

\* The minutes of a bucket and the candle made of them.
In(n, b) == {m \in Intraday!Session : Intraday!Bucket(m, n) = b}
Prices(c, S) == {c[m] : m \in S}
CandleOf(c, n, b) ==
  [interval |-> n, bucket |-> b, source |-> Intraday!Cardinality(In(n, b)),
   open |-> c[Intraday!Min(In(n, b))], close |-> c[Intraday!Max(In(n, b))],
   high |-> Intraday!Max(Prices(c, In(n, b))), low |-> Intraday!Min(Prices(c, In(n, b)))]

LEMMA AggregateIs ==
  ASSUME NEW c \in [Intraday!Session -> Nat], NEW n
  PROVE  Intraday!aggregate(c, n) = {CandleOf(c, n, Intraday!Bucket(m, n)) : m \in Intraday!Session}
<1>1. DOMAIN c = Intraday!Session
  OBVIOUS
<1>2. \A b : {m \in DOMAIN c : Intraday!Bucket(m, n) = b} = In(n, b)
  BY <1>1 DEF In
<1> DEFINE Old(b) ==
      [interval |-> n, bucket |-> b, source |-> Intraday!Cardinality({m \in DOMAIN c : Intraday!Bucket(m, n) = b}),
       open |-> c[Intraday!Min({m \in DOMAIN c : Intraday!Bucket(m, n) = b})],
       close |-> c[Intraday!Max({m \in DOMAIN c : Intraday!Bucket(m, n) = b})],
       high |-> Intraday!Max({c[m] : m \in {m \in DOMAIN c : Intraday!Bucket(m, n) = b}}),
       low |-> Intraday!Min({c[m] : m \in {m \in DOMAIN c : Intraday!Bucket(m, n) = b}})]
<1>3. \A b : Old(b) = CandleOf(c, n, b)
  BY <1>2, Zenon DEF CandleOf, Prices
<1>4. Intraday!aggregate(c, n) = {Old(b) : b \in {Intraday!Bucket(m, n) : m \in DOMAIN c}}
  BY Zenon DEF Intraday!aggregate
<1> HIDE DEF Old
<1> QED
  BY <1>1, <1>3, <1>4

LEMMA CandleKey ==
  ASSUME NEW c, NEW n, NEW b
  PROVE  CandleOf(c, n, b).interval = n /\ CandleOf(c, n, b).bucket = b
BY DEF CandleOf

LEMMA CandleFields ==
  ASSUME NEW c, NEW n, NEW b
  PROVE  /\ CandleOf(c, n, b).open = c[Intraday!Min(In(n, b))]
         /\ CandleOf(c, n, b).close = c[Intraday!Max(In(n, b))]
         /\ CandleOf(c, n, b).high = Intraday!Max(Prices(c, In(n, b)))
         /\ CandleOf(c, n, b).low = Intraday!Min(Prices(c, In(n, b)))
BY DEF CandleOf

\* A bucket that holds a minute has extremes, and so have its prices.
LEMMA BucketBounds ==
  ASSUME NEW c \in [Intraday!Session -> Nat], NEW n, NEW b, In(n, b) # {}
  PROVE  /\ In(n, b) \subseteq Nat /\ IsFiniteSet(In(n, b))
         /\ Prices(c, In(n, b)) \in SUBSET Nat /\ Prices(c, In(n, b)) # {}
         /\ IsFiniteSet(Prices(c, In(n, b)))
<1>1. In(n, b) \subseteq 1 .. Minutes
  BY DEF In, Intraday!Session
<1>2. IsFiniteSet(1 .. Minutes)
  <2>1. 1 \in Int /\ Minutes \in Int
    BY MinutesTyped
  <2> QED
    BY <2>1, FS_Interval
<1>3. IsFiniteSet(In(n, b))
  BY <1>1, <1>2, FS_Subset
<1>4. IsFiniteSet(Prices(c, In(n, b)))
  <2> DEFINE S == In(n, b)
             T == {c[m] : m \in S}
             f == [m \in S |-> c[m]]
  <2>1. f \in [S -> T] /\ \A t \in T : \E s \in S : f[s] = t
    OBVIOUS
  <2> HIDE DEF f
  <2>2. IsFiniteSet(S)
    BY <1>3
  <2> HIDE DEF S, T
  <2>3. IsFiniteSet(T)
    BY <2>1, <2>2, ImageFinite
  <2> QED
    BY <2>3 DEF S, T, Prices
<1>5. \A m \in In(n, b) : c[m] \in Nat
  BY DEF In
<1> QED
  BY <1>1, <1>3, <1>4, <1>5 DEF Prices

\* Minutes of a shorter interval's bucket lie in one bucket of the longer one.
LEMMA Nested ==
  ASSUME NEW i \in Nat \ {0}, NEW j \in Nat \ {0}, j % i = 0, NEW m \in Intraday!Session
  PROVE  (Intraday!Bucket(m, i) * i) \div j = Intraday!Bucket(m, j)
<1> DEFINE a == m - 1
           q == a \div i
           b == (q * i) \div j
<1>1. a \in Nat
  BY DEF Intraday!Session
<1>2. PICK k \in Nat : j = k * i /\ k # 0
  <2>1. j = (j \div i) * i + (j % i) /\ j \div i \in Nat
    OBVIOUS
  <2>2. j = (j \div i) * i
    BY <2>1
  <2>3. j \div i # 0
    BY <2>2
  <2> QED
    BY <2>1, <2>2, <2>3
<1> HIDE DEF a
<1>3. q \in Nat /\ q * i <= a /\ a < q * i + i
  BY <1>1, Division
<1> HIDE DEF q
<1>4. q * i \in Nat
  BY <1>3
<1>5. b \in Nat /\ b * j <= q * i /\ q * i < b * j + j
  BY <1>4, Division
<1> HIDE DEF b
<1>6. a < b * j + j
  <2>1. b * j + j = (b * k + k) * i
    BY <1>2, <1>5
  <2>2. q < b * k + k
    <3> DEFINE x == b * k + k
    <3>1. x \in Nat
      BY <1>2, <1>5
    <3>2. q * i < x * i
      BY <1>5, <2>1
    <3> HIDE DEF x
    <3>3. ASSUME x <= q PROVE FALSE
      <4>1. x * i <= q * i
        BY <1>3, <3>1, <3>3
      <4>2. x * i \in Nat
        BY <3>1
      <4> QED
        BY <1>4, <3>2, <4>1, <4>2
    <3>4. q < x
      BY <1>3, <3>1, <3>3
    <3> QED
      BY <3>4 DEF x
  <2> DEFINE x == b * k + k
  <2>3. x \in Nat
    BY <1>2, <1>5
  <2>4. x * i = b * j + j
    BY <2>1
  <2>5. q < x
    BY <2>2
  <2> HIDE DEF x
  <2>6. (q + 1) * i <= x * i
    BY <1>3, <2>3, <2>5
  <2>7. (q + 1) * i = q * i + i /\ b * j + j \in Nat
    BY <1>3, <1>5
  <2> QED
    BY <1>1, <1>3, <1>4, <2>4, <2>6, <2>7
<1>7. b * j <= a
  <2>1. b * j \in Nat
    BY <1>5
  <2> QED
    BY <1>1, <1>3, <1>4, <1>5, <2>1
<1>8. a \div j = b
  BY <1>1, <1>5, <1>6, <1>7, Division
<1> QED
  BY <1>8 DEF a, b, q, Intraday!Bucket

\* What is derived of the whole minutes c.
Derived(c) == UNION {Intraday!aggregate(c, n) : n \in Intervals}

LEMMA DerivedIs ==
  ASSUME NEW c \in [Intraday!Session -> Nat], NEW i \in Intervals
  PROVE  {d \in Derived(c) : d.interval = i} = Intraday!aggregate(c, i)
<1>1. ASSUME NEW d \in Derived(c), d.interval = i PROVE d \in Intraday!aggregate(c, i)
  <2>1. PICK n \in Intervals : d \in Intraday!aggregate(c, n)
    BY DEF Derived
  <2>2. PICK m \in Intraday!Session : d = CandleOf(c, n, Intraday!Bucket(m, n))
    BY <2>1, AggregateIs
  <2>3. d.interval = n
    BY <2>2, CandleKey
  <2> QED
    BY <1>1, <2>1, <2>3
<1>2. ASSUME NEW d \in Intraday!aggregate(c, i) PROVE d \in Derived(c) /\ d.interval = i
  <2>1. PICK m \in Intraday!Session : d = CandleOf(c, i, Intraday!Bucket(m, i))
    BY AggregateIs
  <2>2. d.interval = i
    BY <2>1, CandleKey
  <2> QED
    BY <2>2 DEF Derived
<1> QED
  BY <1>1, <1>2

\* The candle b says what the candles P say.
Rolled(b, P) ==
  /\ b.high = Intraday!Max({d.high : d \in P}) /\ b.low = Intraday!Min({d.low : d \in P})
  /\ \E first, last \in P :
       /\ \A d \in P : first.bucket <= d.bucket /\ d.bucket <= last.bucket
       /\ b.open = first.open /\ b.close = last.close
\* A longer candle against the shorter candles of its bucket.
LEMMA OneRollsUp ==
  ASSUME NEW c \in [Intraday!Session -> Nat], NEW i \in Intervals, NEW j \in Intervals, j % i = 0,
         NEW x \in Intraday!Session,
         NEW P, \A d : d \in P <=> \E m \in Intraday!Session :
                  /\ d = CandleOf(c, i, Intraday!Bucket(m, i))
                  /\ Intraday!Bucket(m, j) = Intraday!Bucket(x, j)
  PROVE  Rolled(CandleOf(c, j, Intraday!Bucket(x, j)), P)
<1> DEFINE B == In(j, Intraday!Bucket(x, j))
           b == CandleOf(c, j, Intraday!Bucket(x, j))
           Part(m) == In(i, Intraday!Bucket(m, i))
           D(m) == CandleOf(c, i, Intraday!Bucket(m, i))
<1>1. i \in Nat \ {0} /\ j \in Nat \ {0}
  BY MinutesTyped
<1>2. x \in B /\ \A m \in B : m \in Intraday!Session /\ Intraday!Bucket(m, j) = Intraday!Bucket(x, j)
  BY DEF In
<1>3. \A m \in B : m \in Part(m) /\ Part(m) \subseteq B
  <2> SUFFICES ASSUME NEW m \in B PROVE m \in Part(m) /\ Part(m) \subseteq B
    OBVIOUS
  <2>1. m \in Part(m)
    BY <1>2 DEF In
  <2>2. ASSUME NEW n \in Part(m) PROVE n \in B
    <3>1. n \in Intraday!Session /\ Intraday!Bucket(n, i) = Intraday!Bucket(m, i)
      BY DEF In
    <3>2. Intraday!Bucket(n, j) = Intraday!Bucket(m, j)
      BY <1>1, <1>2, <3>1, Nested
    <3> QED
      BY <1>2, <3>1, <3>2 DEF In
  <2> QED
    BY <2>1, <2>2
<1>4. \A d : d \in P <=> \E m \in B : d = D(m)
  BY <1>2 DEF In
<1>5. /\ B \subseteq Nat /\ B # {} /\ IsFiniteSet(B)
      /\ Prices(c, B) \in SUBSET Nat /\ Prices(c, B) # {} /\ IsFiniteSet(Prices(c, B))
  BY <1>2, BucketBounds
<1>6. \A m \in B : /\ Part(m) \subseteq Nat /\ Part(m) # {} /\ IsFiniteSet(Part(m))
                   /\ Prices(c, Part(m)) \in SUBSET Nat /\ Prices(c, Part(m)) # {}
                   /\ IsFiniteSet(Prices(c, Part(m)))
  BY <1>3, BucketBounds
<1>7. /\ b.open = c[Intraday!Min(B)] /\ b.close = c[Intraday!Max(B)]
      /\ b.high = Intraday!Max(Prices(c, B)) /\ b.low = Intraday!Min(Prices(c, B))
  BY CandleFields
<1>8. \A m : /\ D(m).open = c[Intraday!Min(Part(m))] /\ D(m).close = c[Intraday!Max(Part(m))]
             /\ D(m).high = Intraday!Max(Prices(c, Part(m))) /\ D(m).low = Intraday!Min(Prices(c, Part(m)))
             /\ D(m).bucket = Intraday!Bucket(m, i)
  BY CandleFields, CandleKey
<1>9. \A m \in B : m \in Nat /\ m - 1 \in Nat /\ Intraday!Bucket(m, i) \in Nat
  <2>1. \A m \in B : m \in Nat /\ m - 1 \in Nat
    BY <1>2, MinutesTyped DEF Intraday!Session
  <2> QED
    BY <1>1, <2>1, Division DEF Intraday!Bucket
<1> HIDE DEF B, b, Part, D
<1>10. ASSUME NEW m \in B, NEW n \in B, m <= n
       PROVE  Intraday!Bucket(m, i) <= Intraday!Bucket(n, i)
  <2> DEFINE p == (m - 1) \div i
             q == (n - 1) \div i
  <2>1. p \in Nat /\ q \in Nat /\ p * i <= m - 1 /\ n - 1 < q * i + i
    BY <1>1, <1>9, Division
  <2> HIDE DEF p, q
  <2>2. ASSUME q < p PROVE FALSE
    <3>1. (q + 1) * i <= p * i
      BY <1>1, <2>1, <2>2
    <3> DEFINE u == p * i
               v == q * i
    <3>2. (q + 1) * i = v + i /\ u \in Nat /\ v \in Nat
      BY <1>1, <2>1
    <3>3. v + i <= u /\ u <= m - 1 /\ n - 1 < v + i
      BY <2>1, <3>1, <3>2
    <3> HIDE DEF u, v
    <3>4. m \in Nat /\ n \in Nat /\ i \in Nat
      BY <1>1, <1>9
    <3> QED
      BY <1>10, <3>2, <3>3, <3>4
  <2>3. p <= q
    BY <2>1, <2>2
  <2> QED
    BY <2>3 DEF p, q, Intraday!Bucket
<1>11. \A d \in P : \E m \in B : d = D(m)
  BY <1>4
<1>12. \A m \in B : D(m) \in P
  BY <1>4
\* The parts' highs, and the part that has the highest price.
<1>13. b.high = Intraday!Max({d.high : d \in P}) /\ b.low = Intraday!Min({d.low : d \in P})
  <2>0. /\ b.high \in Prices(c, B) /\ b.low \in Prices(c, B)
        /\ \A p \in Prices(c, B) : p \in Nat /\ b.low <= p /\ p <= b.high
    BY <1>5, <1>7, Extremes
  <2>1. PICK hi \in B : c[hi] = b.high
    BY <2>0 DEF Prices
  <2>2. PICK lo \in B : c[lo] = b.low
    BY <2>0 DEF Prices
  <2>3. \A m \in B : c[m] \in Nat /\ b.low <= c[m] /\ c[m] <= b.high
    BY <2>0 DEF Prices
  <2>4. ASSUME NEW m \in B
        PROVE  /\ D(m).high \in Nat /\ D(m).low \in Nat
               /\ D(m).high <= b.high /\ b.low <= D(m).low
               /\ \A n \in Part(m) : D(m).low <= c[n] /\ c[n] <= D(m).high
    <3>1. /\ D(m).high \in Prices(c, Part(m)) /\ D(m).low \in Prices(c, Part(m))
          /\ \A p \in Prices(c, Part(m)) : D(m).low <= p /\ p <= D(m).high
      BY <1>6, <1>8, Extremes
    <3>2. PICK n \in Part(m), k \in Part(m) : D(m).high = c[n] /\ D(m).low = c[k]
      BY <3>1 DEF Prices
    <3>3. n \in B /\ k \in B
      BY <1>3
    <3>4. \A l \in Part(m) : D(m).low <= c[l] /\ c[l] <= D(m).high
      BY <3>1 DEF Prices
    <3> QED
      BY <2>3, <3>2, <3>3, <3>4
  <2>5. D(hi).high = b.high
    <3>1. b.high <= D(hi).high
      BY <1>3, <2>1, <2>4
    <3>2. b.high \in Nat /\ D(hi).high \in Nat /\ D(hi).high <= b.high
      BY <2>1, <2>3, <2>4
    <3> QED
      BY <3>1, <3>2
  <2>6. D(lo).low = b.low
    <3>1. D(lo).low <= b.low
      BY <1>3, <2>2, <2>4
    <3>2. b.low \in Nat /\ D(lo).low \in Nat /\ b.low <= D(lo).low
      BY <2>2, <2>3, <2>4
    <3> QED
      BY <3>1, <3>2
  <2> DEFINE H == {d.high : d \in P}
             L == {d.low : d \in P}
  <2>7. H \in SUBSET Nat /\ b.high \in H /\ \A n \in H : n <= b.high
    BY <1>11, <1>12, <2>4, <2>5
  <2>8. L \in SUBSET Nat /\ b.low \in L /\ \A n \in L : b.low <= n
    BY <1>11, <1>12, <2>4, <2>6
  <2> HIDE DEF H, L
  <2>9. b.high = Intraday!Max(H) /\ b.low = Intraday!Min(L)
    BY <2>7, <2>8, ExtremeIs
  <2> QED
    BY <2>9 DEF H, L
\* The parts of the first and of the last minute.
<1>14. \E first, last \in P :
         /\ \A d \in P : first.bucket <= d.bucket /\ d.bucket <= last.bucket
         /\ b.open = first.open /\ b.close = last.close
  <2> DEFINE s == Intraday!Min(B)
             e == Intraday!Max(B)
  <2>1. s \in B /\ e \in B /\ \A m \in B : s <= m /\ m <= e
    BY <1>5, Extremes
  <2> HIDE DEF s, e
  <2>2. \A d \in P : D(s).bucket <= d.bucket /\ d.bucket <= D(e).bucket
    BY <1>8, <1>10, <1>11, <2>1
  <2>3. \A m \in Part(s) : s <= m
    BY <1>3, <2>1
  <2>4. \A m \in Part(e) : m <= e
    BY <1>3, <2>1
  <2>5. Intraday!Min(Part(s)) = s /\ Intraday!Max(Part(e)) = e
    BY <1>3, <1>6, <2>1, <2>3, <2>4, ExtremeIs
  <2>6. b.open = D(s).open /\ b.close = D(e).close
    BY <1>7, <1>8, <2>5 DEF s, e
  <2>7. D(s) \in P /\ D(e) \in P
    BY <1>12, <2>1
  <2> QED
    BY <2>2, <2>6, <2>7
<1> QED
  BY <1>13, <1>14 DEF b, Rolled

\* Every longer candle of the derived ones is what the shorter ones say.
LEMMA EachRollsUp ==
  ASSUME NEW c \in [Intraday!Session -> Nat], NEW i \in Intervals, NEW j \in Intervals, j % i = 0,
         NEW b \in Derived(c), b.interval = j
  PROVE  Rolled(b, Parts(Derived(c), i, j, b))
<1> DEFINE parts == Parts(Derived(c), i, j, b)
<1>1. i \in Nat \ {0} /\ j \in Nat \ {0}
  BY MinutesTyped
<1>2. b \in Intraday!aggregate(c, j)
  BY DerivedIs
<1>3. PICK x \in Intraday!Session : b = CandleOf(c, j, Intraday!Bucket(x, j))
  BY <1>2, AggregateIs
<1>4. b.bucket = Intraday!Bucket(x, j)
  BY <1>3, CandleKey
<1>5. \A d : d \in parts <=> d \in Intraday!aggregate(c, i) /\ (d.bucket * i) \div j = b.bucket
  BY DerivedIs DEF Parts
<1>6. ASSUME NEW m \in Intraday!Session, NEW d, d = CandleOf(c, i, Intraday!Bucket(m, i))
      PROVE  (d.bucket * i) \div j = Intraday!Bucket(m, j)
  <2>1. d.bucket = Intraday!Bucket(m, i)
    BY <1>6, CandleKey
  <2> QED
    BY <1>1, <2>1, Nested
<1>7. \A d : d \in Intraday!aggregate(c, i) <=>
               \E m \in Intraday!Session : d = CandleOf(c, i, Intraday!Bucket(m, i))
  BY AggregateIs
<1> HIDE DEF parts
<1>8. \A d : d \in parts <=> \E m \in Intraday!Session :
               /\ d = CandleOf(c, i, Intraday!Bucket(m, i))
               /\ Intraday!Bucket(m, j) = Intraday!Bucket(x, j)
  BY <1>4, <1>5, <1>6, <1>7
<1>9. Rolled(CandleOf(c, j, Intraday!Bucket(x, j)), parts)
  BY <1>8, OneRollsUp
<1> QED
  BY <1>3, <1>9 DEF parts

\* An accepted answer has one good candle of every minute.
LEMMA AcceptedWhole ==
  ASSUME NEW a \in Answers, Intraday!validate_payload(a) = "accepted"
  PROVE  Intraday!CandlesOf(a) \in [Intraday!Session -> Nat]
<1> DEFINE K == Intraday!OfDay(a)
           M == {Intraday!MinuteOf(a, k) : k \in K}
<1>1. ~Intraday!Defective(a) /\ Intraday!Missing(a) = {}
  BY DEF Intraday!validate_payload
<1>2. \A k \in K : k \in DOMAIN a.rows /\ Intraday!MinuteOf(a, k) # -1
  BY DEF Intraday!OfDay, Intraday!MinuteOf, Intraday!OtherDate
<1>3. \A k \in K : Intraday!MinuteOf(a, k) # 0
  BY <1>1 DEF Intraday!Defective, Intraday!OutOfSession
<1>4. \A k \in K : Intraday!MinuteOf(a, k) \in -1 .. Minutes /\ a.rows[k].price \in Nat
  BY <1>2, OperationsAssumption DEF Intraday!MinuteOf
<1>5. \A k \in K : Intraday!MinuteOf(a, k) \in Intraday!Session
  BY <1>2, <1>3, <1>4, MinutesTyped DEF Intraday!Session
<1>6. M = Intraday!Session
  BY <1>1, <1>5 DEF Intraday!Missing
<1> DEFINE Row(m) == CHOOSE k \in K : Intraday!MinuteOf(a, k) = m
<1>7. \A m \in M : Row(m) \in K
  OBVIOUS
<1>8. Intraday!CandlesOf(a) = [m \in M |-> a.rows[Row(m)].price]
  BY Zenon DEF Intraday!CandlesOf
<1> HIDE DEF K, Row, M
<1> QED
  BY <1>4, <1>6, <1>7, <1>8

\* A stored day that was accepted is whole, a command holds what is stored,
\* and what is derived is derived of it.
IntradayInv ==
  /\ symbolDay.status = "accepted" => minute \in [Intraday!Session -> Nat]
  /\ command.pc \in {"reconcile", "aggregate"} => symbolDay.status = "accepted" /\ command.loaded = minute
  /\ derived # {} => symbolDay.status = "accepted" /\ derived = Derived(minute)
  /\ Intraday!NothingRejectedStored

LEMMA IntradayInit == Intraday!Init => IntradayInv
BY DEF Intraday!Init, IntradayInv, Intraday!Idle, Intraday!NothingRejectedStored

LEMMA StoreStep ==
  ASSUME IntradayInv, NEW a \in Answers, Intraday!store_day(a)
  PROVE  IntradayInv'
<1> DEFINE status == Intraday!validate_payload(a)
<1>1. /\ symbolDay' = [status |-> status, count |-> Intraday!Cardinality(Intraday!OfDay(a))]
      /\ minute' = IF status \in {"accepted", "warning"} THEN Intraday!CandlesOf(a) ELSE Intraday!NoMinutes
      /\ derived' = {} /\ command' = command /\ command = Intraday!Idle
      /\ quarantine' = IF status = "rejected" THEN quarantine \cup {a} ELSE quarantine
  BY DEF Intraday!store_day
<1>2. symbolDay'.status = status /\ symbolDay'.count = Intraday!Cardinality(Intraday!OfDay(a))
  BY <1>1
<1>3. command'.pc = "idle"
  BY <1>1 DEF Intraday!Idle
<1>4. symbolDay'.status = "accepted" => minute' \in [Intraday!Session -> Nat]
  BY <1>1, <1>2, AcceptedWhole
<1>5. Intraday!NothingRejectedStored'
  <2>1. symbolDay'.status \in {"rejected", "unavailable"} => minute' = Intraday!NoMinutes
    BY <1>1, <1>2
  <2>2. symbolDay'.status = "rejected" => a \in quarantine'
    BY <1>1, <1>2
  <2> QED
    BY <1>2, <2>1, <2>2 DEF Intraday!NothingRejectedStored, Intraday!NoMinutes, Intraday!OfDay,
                            Intraday!OtherDate
<1> QED
  BY <1>1, <1>3, <1>4, <1>5 DEF IntradayInv

LEMMA IntradayStep ==
  ASSUME IntradayInv, Intraday!Next
  PROVE  IntradayInv'
<1>1. ASSUME NEW a \in Answers, Intraday!store_day(a) PROVE IntradayInv'
  BY <1>1, StoreStep
<1>2. CASE Intraday!StoreUnavailable
  <2>1. symbolDay'.status = "unavailable"
    BY <1>2 DEF Intraday!StoreUnavailable
  <2>2. minute' = Intraday!NoMinutes /\ derived' = {} /\ command'.pc = "idle"
    BY <1>2 DEF Intraday!StoreUnavailable, Intraday!Idle
  <2> QED
    BY <2>1, <2>2 DEF IntradayInv, Intraday!NothingRejectedStored, Intraday!NoMinutes
<1>3. ASSUME NEW pc \in {"reconcile", "aggregate"}, Intraday!load_stored_day(pc) PROVE IntradayInv'
  <2>1. command'.loaded = minute /\ symbolDay.status = "accepted"
    BY <1>3 DEF Intraday!load_stored_day
  <2> QED
    BY <1>3, <2>1 DEF IntradayInv, Intraday!load_stored_day, Intraday!NothingRejectedStored,
                      Intraday!NoMinutes
<1>4. CASE Intraday!store_reconciliation \/ Intraday!Dies
  <2>1. command'.pc = "idle" /\ UNCHANGED <<symbolDay, minute, quarantine, derived>>
    BY <1>4 DEF Intraday!store_reconciliation, Intraday!Dies, Intraday!Idle
  <2> QED
    BY <2>1 DEF IntradayInv, Intraday!NothingRejectedStored, Intraday!NoMinutes
<1>5. CASE Intraday!derive_day
  <2>1. /\ command'.pc = "idle" /\ command.pc = "aggregate"
        /\ UNCHANGED <<symbolDay, minute, quarantine>>
        /\ derived' = derived \/ derived' = Derived(command.loaded)
    BY <1>5 DEF Intraday!derive_day, Intraday!Idle, Derived
  <2>2. symbolDay.status = "accepted" /\ command.loaded = minute
    BY <2>1 DEF IntradayInv
  <2> QED
    BY <2>1, <2>2 DEF IntradayInv, Intraday!NothingRejectedStored, Intraday!NoMinutes
<1> QED
  BY <1>1, <1>2, <1>3, <1>4, <1>5 DEF Intraday!Next

LEMMA IntradaySafe ==
  IntradayInv => /\ Intraday!DerivedFromMinutes /\ Intraday!RollsUp
                 /\ Intraday!NothingRejectedStored
<1> SUFFICES ASSUME IntradayInv PROVE Intraday!DerivedFromMinutes /\ Intraday!RollsUp
  BY DEF IntradayInv
<1>1. Intraday!DerivedFromMinutes
  <2> SUFFICES ASSUME derived # {}
               PROVE  /\ symbolDay.status = "accepted" /\ DOMAIN minute = Intraday!Session
                      /\ \A i \in Intervals : {c \in derived : c.interval = i} = Intraday!aggregate(minute, i)
    BY DEF Intraday!DerivedFromMinutes
  <2>1. symbolDay.status = "accepted" /\ derived = Derived(minute) /\ minute \in [Intraday!Session -> Nat]
    BY DEF IntradayInv
  <2>2. \A i \in Intervals : {c \in derived : c.interval = i} = Intraday!aggregate(minute, i)
    BY <2>1, DerivedIs
  <2> QED
    BY <2>1, <2>2
<1>2. ASSUME NEW i \in Intervals, NEW j \in Intervals, NEW c \in derived, c.interval = j, j % i = 0
      PROVE  Rolled(c, Parts(derived, i, j, c))
  <2>1. derived = Derived(minute) /\ minute \in [Intraday!Session -> Nat]
    BY DEF IntradayInv
  <2> QED
    BY <1>2, <2>1, EachRollsUp
<1>3. Intraday!RollsUp
  <2> SUFFICES \A i, j \in Intervals : \A c \in derived :
                 c.interval = j /\ j % i = 0 => Rolled(c, Parts(derived, i, j, c))
    BY Zenon DEF Intraday!RollsUp, Rolled, Parts
  <2> QED
    BY <1>2
<1> QED
  BY <1>1, <1>3

\* Whatever was ingested, corrected, reconciled and derived in whichever order
\* and with whichever command dying, the derived candles are those of the
\* minutes now stored, every longer one says what the shorter ones say, and
\* nothing of a rejected answer is stored (scripts/matsya_intraday.py); and
\* the candle mirror misses only rows whose writer was at work during an
\* export (candle sync).
THEOREM CandlesHold == Spec => []CandlesDerived
<1>1. Init => (system = "intraday" => IntradayInv)
  BY IntradayInit DEF Init
<1>2. (system = "intraday" => IntradayInv) /\ [Next]_vars => (system = "intraday" => IntradayInv)'
  <2> SUFFICES ASSUME system = "intraday" => IntradayInv, [Next]_vars, system' = "intraday"
               PROVE  IntradayInv'
    OBVIOUS
  <2>1. CASE UNCHANGED vars
    <3>1. system' = system /\ UNCHANGED <<symbolDay, minute, quarantine, derived, command>>
      BY <2>1 DEF vars, intradayVars
    <3>2. IntradayInv
      BY <3>1
    <3> QED
      BY <3>1, <3>2 DEF IntradayInv, Intraday!NothingRejectedStored, Intraday!NoMinutes
  <2>2. CASE Next
    BY <2>2, IntradayStep DEF Next, OthersStay
  <2> QED
    BY <2>1, <2>2
<1>3. Spec => [](system = "intraday" => IntradayInv)
  BY <1>1, <1>2, PTL DEF Spec
<1>4. (system = "intraday" => IntradayInv) /\ (system = "mirror" => MirrorInv) => CandlesDerived
  BY IntradaySafe DEF CandlesDerived, MirrorInv
<1> QED
  BY <1>3, <1>4, MirrorInvariant, PTL

-----------------------------------------------------------------------------
(* Scan runs                                                                 *)

ScanType == [kind : Kinds, status : {"running", "completed", "failed"}, found : Nat, scanned : Nat]
ScanningType == [left : SUBSET Universe, found : Nat, scanned : Nat, on : BOOLEAN]

RowsOf(rows, n) == {r \in rows : r.scan = n}
StocksOf(reg, n) == {t \in Universe : reg[t] = n}

ScanTyped ==
  /\ scans \in Seq(ScanType)
  /\ scanRows \subseteq [scan : DOMAIN scans, stock : Universe] /\ IsFiniteSet(scanRows)
  /\ regimes \in [Universe -> {0} \cup DOMAIN scans]
  /\ scanning \in ScanningType

\* What the refresh at work has counted so far is what is stored of its run,
\* and nothing is stored of the stocks it has still to scan.
Counted(n, kind, rows, reg, w) ==
  /\ w.found <= w.scanned
  /\ kind # "regimes" => /\ w.found = Cardinality(RowsOf(rows, n))
                         /\ \A r \in RowsOf(rows, n) : r.stock \notin w.left
  /\ kind = "regimes" => /\ w.scanned = Cardinality(StocksOf(reg, n))
                         /\ \A t \in StocksOf(reg, n) : t \notin w.left

AtWork == /\ Len(scans) \in DOMAIN scans /\ scans[Len(scans)].status = "running"
          /\ Counted(Len(scans), scans[Len(scans)].kind, scanRows, regimes, scanning)

ScanInv == ScanTyped /\ (scanning.on => AtWork) /\ Scan!CountsAreRows /\ Scan!RegimesOfOneRun

LEMMA ScanCounts == \A S : Scan!Cardinality(S) = Cardinality(S)
BY Zenon DEF Scan!Cardinality, Cardinality

LEMMA ScanIdle ==
  /\ Scan!Idle \in ScanningType /\ ~Scan!Idle.on
  /\ Scan!Idle.found = 0 /\ Scan!Idle.scanned = 0
<1>1. Scan!Idle \in ScanningType
  BY DEF Scan!Idle, ScanningType
<1>2. ~Scan!Idle.on
  BY Zenon DEF Scan!Idle
<1> QED
  BY <1>1, <1>2 DEF Scan!Idle

LEMMA ScanStart == Scan!Init => ScanInv
<1> SUFFICES ASSUME Scan!Init PROVE ScanInv
  OBVIOUS
<1>1. scans = <<>> /\ scanRows = {} /\ scanning = Scan!Idle /\ regimes = [s \in Universe |-> 0]
  BY DEF Scan!Init
<1>2. ScanTyped
  BY <1>1, ScanIdle, FS_EmptySet DEF ScanTyped
<1>3. DOMAIN scans = {}
  BY <1>1
<1>4. Scan!CountsAreRows
  BY <1>3 DEF Scan!CountsAreRows
<1>5. Scan!RegimesOfOneRun
  BY <1>3 DEF Scan!RegimesOfOneRun, Scan!LatestScan
<1> QED
  BY <1>1, <1>2, <1>4, <1>5, ScanIdle, Zenon DEF ScanInv

LEMMA RowsFinite ==
  ASSUME ScanTyped, NEW n
  PROVE  /\ IsFiniteSet(RowsOf(scanRows, n)) /\ Cardinality(RowsOf(scanRows, n)) \in Nat
         /\ IsFiniteSet(StocksOf(regimes, n)) /\ Cardinality(StocksOf(regimes, n)) \in Nat
<1>1. RowsOf(scanRows, n) \subseteq scanRows /\ StocksOf(regimes, n) \subseteq Universe
  BY DEF RowsOf, StocksOf
<1>2. IsFiniteSet(scanRows) /\ IsFiniteSet(Universe)
  BY OperationsAssumption DEF ScanTyped
<1> QED
  BY <1>1, <1>2, FS_Subset, FS_CardinalityType

\* What the two properties say of one run.
LEMMA CountsOf ==
  Scan!CountsAreRows <=>
    \A s \in DOMAIN scans : scans[s].status = "completed" /\ scans[s].kind # "regimes" =>
      scans[s].found = Cardinality(RowsOf(scanRows, s)) /\ scans[s].found <= scans[s].scanned
BY ScanCounts DEF Scan!CountsAreRows, RowsOf

NewestRegimes(s) == /\ s \in DOMAIN scans /\ scans[s].kind = "regimes"
             /\ \A t \in DOMAIN scans : scans[t].kind = "regimes" => t <= s

LEMMA RegimesOf ==
  Scan!RegimesOfOneRun <=>
    \A s : NewestRegimes(s) /\ scans[s].status = "completed" =>
      Cardinality(StocksOf(regimes, s)) = scans[s].scanned
<1>1. \A s : s \in Scan!LatestScan("regimes") <=> NewestRegimes(s)
  BY DEF Scan!LatestScan, NewestRegimes
<1> QED
  BY <1>1, ScanCounts, Zenon DEF Scan!RegimesOfOneRun, StocksOf

LEMMA CreateScanStep ==
  ASSUME ScanInv, NEW kind \in Kinds, Scan!CreateScan(kind)
  PROVE  ScanInv' /\ Scan!EndedScansStay
<1> DEFINE n == Len(scans) + 1
           new == Scan!NewScan(kind)
<1>1. /\ scans' = Append(scans, new) /\ scanRows' = scanRows /\ regimes' = regimes
      /\ scanning' = [Scan!Idle EXCEPT !.on = TRUE, !.left = Universe]
  BY DEF Scan!CreateScan
<1>2. new \in ScanType /\ new.status = "running" /\ new.kind = kind
  BY DEF Scan!NewScan, ScanType
<1> HIDE DEF new
<1>3. /\ Len(scans) \in Nat /\ DOMAIN scans = 1 .. Len(scans)
      /\ scans' \in Seq(ScanType) /\ Len(scans') = n /\ DOMAIN scans' = DOMAIN scans \cup {n}
      /\ scans'[n] = new /\ \A s \in DOMAIN scans : scans'[s] = scans[s]
  BY <1>1, <1>2 DEF ScanInv, ScanTyped
<1>4. /\ scanning' \in ScanningType /\ scanning'.found = 0 /\ scanning'.scanned = 0
  BY <1>1, ScanIdle DEF ScanningType, Scan!Idle
<1>5. ScanTyped'
  BY <1>1, <1>3, <1>4 DEF ScanInv, ScanTyped
<1>6. RowsOf(scanRows, n) = {} /\ StocksOf(regimes, n) = {}
  BY <1>3 DEF ScanInv, ScanTyped, RowsOf, StocksOf
<1>7. AtWork'
  <2>1. Counted(n, kind, scanRows, regimes, scanning')
    <3>1. Cardinality({}) = 0
      BY FS_EmptySet
    <3>2. \A t \in {} : t \notin scanning'.left
      OBVIOUS
    <3> QED
      BY <1>4, <1>6, <3>1, <3>2 DEF Counted
  <2> QED
    BY <1>1, <1>2, <1>3, <2>1 DEF AtWork
<1>8. Scan!CountsAreRows'
  BY <1>1, <1>2, <1>3, CountsOf DEF ScanInv, Scan!CountsAreRows
<1>9. Scan!RegimesOfOneRun'
  <2>1. ASSUME NEW s, NewestRegimes(s)', scans'[s].status = "completed"
        PROVE  NewestRegimes(s) /\ scans'[s] = scans[s]
    BY <1>2, <1>3, <2>1 DEF NewestRegimes
  <2>2. \A s : NewestRegimes(s)' /\ scans'[s].status = "completed" =>
          Cardinality(StocksOf(regimes', s)) = scans'[s].scanned
    BY <1>1, <2>1, RegimesOf DEF ScanInv
  <2>3. \A s : s \in Scan!LatestScan("regimes")' <=> NewestRegimes(s)'
    BY DEF Scan!LatestScan, NewestRegimes
  <2> QED
    BY <2>2, <2>3, ScanCounts, Zenon DEF Scan!RegimesOfOneRun, StocksOf
<1>10. Scan!EndedScansStay
  BY <1>1, <1>3 DEF Scan!EndedScansStay
<1> QED
  BY <1>5, <1>7, <1>8, <1>9, <1>10 DEF ScanInv

LEMMA ScanningMade ==
  ASSUME NEW B, NEW w \in [left : SUBSET Universe, found : Nat, scanned : Nat, on : B],
         NEW l \in SUBSET Universe, NEW f \in Nat, NEW c \in Nat
  PROVE  LET v == [w EXCEPT !.left = l, !.found = f, !.scanned = c] IN
         /\ v \in [left : SUBSET Universe, found : Nat, scanned : Nat, on : B]
         /\ v.left = l /\ v.found = f /\ v.scanned = c
OBVIOUS

\* The next stock is one of those left, and is left no more.
LEMMA ScanPassed ==
  ASSUME ScanInv, NEW found \in {0, 1}, NEW enough \in BOOLEAN, Scan!Passed(found, enough)
  PROVE  /\ AtWork /\ Scan!Stock \in scanning.left /\ Scan!Stock \in Universe
         /\ scanning' \in ScanningType /\ scanning'.left = scanning.left \ {Scan!Stock}
         /\ scanning'.found = scanning.found + found
         /\ scanning'.scanned = scanning.scanned + (IF enough THEN 1 ELSE 0)
<1>1. scanning.on /\ scanning.left # {} /\ scanning \in ScanningType
  BY DEF Scan!Passed, ScanInv, ScanTyped
<1>2. AtWork
  BY <1>1, Zenon DEF ScanInv
<1>3. scanning.left \subseteq Nat /\ scanning.left \subseteq Universe
  BY <1>1, OperationsAssumption DEF ScanningType
<1>4. \E s \in scanning.left : \A t \in scanning.left : s <= t
  BY <1>1, <1>3, LeastNatural
<1>5. Scan!Stock \in scanning.left
  BY <1>4, Zenon DEF Scan!Stock
<1>6. scanning' = [scanning EXCEPT !.left = scanning.left \ {Scan!Stock},
                                   !.found = scanning.found + found,
                                   !.scanned = scanning.scanned + (IF enough THEN 1 ELSE 0)]
  BY DEF Scan!Passed
<1>7. /\ scanning'.left = scanning.left \ {Scan!Stock} /\ scanning'.found = scanning.found + found
      /\ scanning'.scanned = scanning.scanned + (IF enough THEN 1 ELSE 0)
      /\ scanning' \in ScanningType
  <2>1. scanning.found \in Nat /\ scanning.scanned \in Nat /\ scanning.left \ {Scan!Stock} \in SUBSET Universe
    BY <1>1, <1>3 DEF ScanningType
  <2>2. /\ scanning.found + found \in Nat
        /\ scanning.scanned + (IF enough THEN 1 ELSE 0) \in Nat
    BY <2>1
  <2> QED
    BY <1>1, <1>6, <2>1, <2>2, ScanningMade, Zenon DEF ScanningType
<1> QED
  BY <1>2, <1>3, <1>5, <1>7

\* A step of the run at work, which is running: what is said of the runs that
\* ended needs only that their rows and regimes stay.
LEMMA OthersCounted ==
  ASSUME ScanInv, AtWork, scans' = scans,
         \A s \in DOMAIN scans : s # Len(scans) => RowsOf(scanRows', s) = RowsOf(scanRows, s),
         \/ regimes' = regimes
         \/ scans[Len(scans)].kind = "regimes"
  PROVE  Scan!CountsAreRows' /\ Scan!RegimesOfOneRun' /\ Scan!EndedScansStay
<1>1. Len(scans) \in DOMAIN scans /\ scans[Len(scans)].status = "running"
  BY DEF AtWork
<1>2. \A s \in DOMAIN scans : scans[s].status # "running" => s # Len(scans)
  BY <1>1
<1>3. \A s \in DOMAIN scans : scans[s].status = "completed" /\ scans[s].kind # "regimes" =>
        scans[s].found = Cardinality(RowsOf(scanRows', s)) /\ scans[s].found <= scans[s].scanned
  BY <1>2, CountsOf DEF ScanInv
<1>4. Scan!CountsAreRows'
  BY <1>3, ScanCounts DEF Scan!CountsAreRows, RowsOf
<1>5. \A s : NewestRegimes(s)' <=> NewestRegimes(s)
  BY DEF NewestRegimes
<1>6. \A s : s \in Scan!LatestScan("regimes")' <=> NewestRegimes(s)
  BY <1>5 DEF Scan!LatestScan, NewestRegimes
<1>7. \A s : NewestRegimes(s) /\ scans[s].status = "completed" =>
        Cardinality(StocksOf(regimes', s)) = scans[s].scanned
  <2>1. CASE regimes' = regimes
    BY <2>1, RegimesOf DEF ScanInv
  <2>2. CASE scans[Len(scans)].kind = "regimes"
    <3>1. ASSUME NEW s, NewestRegimes(s) PROVE s = Len(scans)
      BY <1>1, <2>2, <3>1 DEF NewestRegimes, ScanInv, ScanTyped
    <3> QED
      BY <1>1, <3>1
  <2> QED
    BY <2>1, <2>2
<1>8. Scan!RegimesOfOneRun'
  BY <1>6, <1>7, ScanCounts, Zenon DEF Scan!RegimesOfOneRun, StocksOf
<1>9. Scan!EndedScansStay
  BY <1>2 DEF Scan!EndedScansStay, RowsOf
<1> QED
  BY <1>4, <1>8, <1>9

LEMMA RegimeIs == Scan!Regime <=> scans[Len(scans)].kind = "regimes"
BY DEF Scan!Regime, Scan!Latest

LEMMA NothingFoundStep ==
  ASSUME ScanInv, Scan!NothingFound
  PROVE  ScanInv' /\ Scan!EndedScansStay
<1>1. PICK enough \in BOOLEAN : Scan!Passed(0, enough) /\ (Scan!Regime => ~enough)
  BY Zenon DEF Scan!NothingFound
<1>2. scans' = scans /\ scanRows' = scanRows /\ regimes' = regimes
  BY DEF Scan!NothingFound
<1> DEFINE n == Len(scans)
<1>3. /\ AtWork /\ scanning' \in ScanningType /\ scanning'.left \subseteq scanning.left
      /\ scanning'.found = scanning.found
      /\ scanning'.scanned = scanning.scanned + (IF enough THEN 1 ELSE 0)
  BY <1>1, ScanPassed DEF ScanInv, ScanTyped, ScanningType
<1>4. ScanTyped'
  BY <1>2, <1>3 DEF ScanInv, ScanTyped
<1>5. scanning.found \in Nat /\ scanning.scanned \in Nat
  BY DEF ScanInv, ScanTyped, ScanningType
<1>6. scans[n].kind = "regimes" => scanning'.scanned = scanning.scanned
  BY <1>1, <1>3, <1>5, RegimeIs
<1>7. scanning'.found <= scanning'.scanned
  BY <1>3, <1>5 DEF AtWork, Counted
<1>8. Counted(n, scans[n].kind, scanRows, regimes, scanning')
  BY <1>3, <1>6, <1>7 DEF AtWork, Counted
<1>9. AtWork'
  BY <1>2, <1>3, <1>8 DEF AtWork
<1> QED
  BY <1>2, <1>3, <1>4, <1>9, OthersCounted DEF ScanInv

LEMMA InsertFoundStep ==
  ASSUME ScanInv, Scan!InsertFound
  PROVE  ScanInv' /\ Scan!EndedScansStay
<1> DEFINE n == Len(scans)
           row == [scan |-> n, stock |-> Scan!Stock]
<1>1. Scan!Passed(1, TRUE) /\ scans[n].kind # "regimes" /\ scans' = scans /\ regimes' = regimes
  BY RegimeIs DEF Scan!InsertFound
<1>2. scanRows' = scanRows \cup {row}
  BY DEF Scan!InsertFound, Scan!Latest
<1>3. /\ AtWork /\ Scan!Stock \in scanning.left /\ Scan!Stock \in Universe
      /\ scanning' \in ScanningType /\ scanning'.left = scanning.left \ {Scan!Stock}
      /\ scanning'.found = scanning.found + 1 /\ scanning'.scanned = scanning.scanned + 1
  BY <1>1, ScanPassed
<1>4. row.scan = n /\ row.stock = Scan!Stock /\ row \in [scan : DOMAIN scans, stock : Universe]
  BY <1>3 DEF AtWork
<1> HIDE DEF row
<1>5. RowsOf(scanRows', n) = RowsOf(scanRows, n) \cup {row} /\ row \notin RowsOf(scanRows, n)
  BY <1>1, <1>2, <1>3, <1>4 DEF RowsOf, AtWork, Counted
<1>6. ScanTyped'
  <2>1. IsFiniteSet(scanRows')
    BY <1>2, FS_AddElement DEF ScanInv, ScanTyped
  <2> QED
    BY <1>1, <1>2, <1>3, <1>4, <2>1 DEF ScanInv, ScanTyped
<1>7. Cardinality(RowsOf(scanRows', n)) = Cardinality(RowsOf(scanRows, n)) + 1
  BY <1>5, RowsFinite, FS_AddElement DEF ScanInv
<1>8. scanning.found \in Nat /\ scanning.scanned \in Nat
  BY DEF ScanInv, ScanTyped, ScanningType
<1>9. Counted(n, scans[n].kind, scanRows', regimes, scanning')
  BY <1>1, <1>3, <1>4, <1>5, <1>7, <1>8 DEF AtWork, Counted
<1>10. AtWork'
  BY <1>1, <1>3, <1>9 DEF AtWork
<1>11. \A s \in DOMAIN scans : s # n => RowsOf(scanRows', s) = RowsOf(scanRows, s)
  BY <1>2, <1>4 DEF RowsOf
<1> QED
  BY <1>1, <1>3, <1>6, <1>10, <1>11, OthersCounted DEF ScanInv

LEMMA UpsertRegimesStep ==
  ASSUME ScanInv, Scan!UpsertRegimes
  PROVE  ScanInv' /\ Scan!EndedScansStay
<1> DEFINE n == Len(scans)
<1>1. Scan!Passed(1, TRUE) /\ scans[n].kind = "regimes" /\ scans' = scans /\ scanRows' = scanRows
  BY RegimeIs DEF Scan!UpsertRegimes
<1>2. regimes' = [regimes EXCEPT ![Scan!Stock] = n]
  BY DEF Scan!UpsertRegimes, Scan!Latest
<1>3. /\ AtWork /\ Scan!Stock \in scanning.left /\ Scan!Stock \in Universe
      /\ scanning' \in ScanningType /\ scanning'.left = scanning.left \ {Scan!Stock}
      /\ scanning'.found = scanning.found + 1 /\ scanning'.scanned = scanning.scanned + 1
  BY <1>1, ScanPassed
<1>4. ScanTyped'
  BY <1>1, <1>2, <1>3 DEF ScanInv, ScanTyped, AtWork
<1>5. /\ StocksOf(regimes', n) = StocksOf(regimes, n) \cup {Scan!Stock}
      /\ Scan!Stock \notin StocksOf(regimes, n)
  BY <1>1, <1>2, <1>3 DEF StocksOf, AtWork, Counted, ScanInv, ScanTyped
<1>6. Cardinality(StocksOf(regimes', n)) = Cardinality(StocksOf(regimes, n)) + 1
  BY <1>5, RowsFinite, FS_AddElement DEF ScanInv
<1>7. scanning.found \in Nat /\ scanning.scanned \in Nat
  BY DEF ScanInv, ScanTyped, ScanningType
<1>8. Counted(n, scans[n].kind, scanRows, regimes', scanning')
  BY <1>1, <1>3, <1>5, <1>6, <1>7 DEF AtWork, Counted
<1>9. AtWork'
  BY <1>1, <1>3, <1>8 DEF AtWork
<1>10. scans[Len(scans)].kind = "regimes"
  BY <1>1
<1> QED
  BY <1>1, <1>3, <1>4, <1>9, <1>10, OthersCounted DEF ScanInv

\* A run ends with counts that, if it completed, are those of its rows.
LEMMA FinishStep ==
  ASSUME ScanInv, scanning.on, NEW status \in {"completed", "failed"}, NEW f \in Nat, NEW c \in Nat,
         Scan!Finish(status, f, c), status = "completed" => f = scanning.found /\ c = scanning.scanned
  PROVE  ScanInv' /\ Scan!EndedScansStay
<1> DEFINE n == Len(scans)
           ended == [scans[n] EXCEPT !.status = status, !.found = f, !.scanned = c]
<1>1. AtWork /\ Counted(n, scans[n].kind, scanRows, regimes, scanning) /\ n \in DOMAIN scans
  BY Zenon DEF ScanInv, AtWork
<1>2. scans \in Seq(ScanType) /\ scans[n] \in ScanType
  BY <1>1 DEF ScanInv, ScanTyped
<1>3. /\ scans' = [scans EXCEPT ![n] = ended] /\ scanning' = Scan!Idle
      /\ scanRows' = scanRows /\ regimes' = regimes
  BY DEF Scan!Finish, Scan!Latest
<1>4. /\ ended \in ScanType /\ ended.kind = scans[n].kind /\ ended.status = status
      /\ ended.found = f /\ ended.scanned = c
  BY <1>2 DEF ScanType
<1> HIDE DEF ended
<1>5. /\ scans' \in Seq(ScanType) /\ DOMAIN scans' = DOMAIN scans /\ Len(scans') = n /\ scans'[n] = ended
      /\ \A s \in DOMAIN scans : s # n => scans'[s] = scans[s]
  BY <1>1, <1>2, <1>3, <1>4
<1>6. ScanTyped'
  BY <1>3, <1>5, ScanIdle DEF ScanInv, ScanTyped
<1>7. \A s \in DOMAIN scans : scans'[s].status = "completed" /\ scans'[s].kind # "regimes" =>
        scans'[s].found = Cardinality(RowsOf(scanRows, s)) /\ scans'[s].found <= scans'[s].scanned
  BY <1>1, <1>4, <1>5, CountsOf DEF ScanInv, Counted
<1>8. Scan!CountsAreRows'
  BY <1>3, <1>5, <1>7, ScanCounts DEF Scan!CountsAreRows, RowsOf
<1>9. \A s \in DOMAIN scans : scans'[s].kind = scans[s].kind
  BY <1>4, <1>5
<1>10. \A s : s \in Scan!LatestScan("regimes")' <=> NewestRegimes(s)
  BY <1>5, <1>9 DEF Scan!LatestScan, NewestRegimes
<1>11. \A s : NewestRegimes(s) /\ scans'[s].status = "completed" =>
         Cardinality(StocksOf(regimes, s)) = scans'[s].scanned
  BY <1>1, <1>4, <1>5, RegimesOf DEF ScanInv, Counted, NewestRegimes
<1>12. Scan!RegimesOfOneRun'
  BY <1>3, <1>10, <1>11, ScanCounts, Zenon DEF Scan!RegimesOfOneRun, StocksOf
<1>13. Scan!EndedScansStay
  BY <1>1, <1>3, <1>5 DEF Scan!EndedScansStay, AtWork
<1>14. ~scanning'.on
  BY <1>3, ScanIdle, Zenon
<1> QED
  BY <1>6, <1>8, <1>12, <1>13, <1>14 DEF ScanInv

LEMMA ScanStep ==
  ASSUME ScanInv, Scan!Next
  PROVE  ScanInv' /\ Scan!EndedScansStay
<1>1. scanning.found \in Nat /\ scanning.scanned \in Nat
  BY DEF ScanInv, ScanTyped, ScanningType
<1>2. CASE Scan!FinishScan
  <2>1. scanning.on /\ Scan!Finish("completed", scanning.found, scanning.scanned)
    BY <1>2, Zenon DEF Scan!FinishScan
  <2> QED
    BY <1>1, <2>1, FinishStep
<1>3. CASE Scan!FailScan
  <2>1. scanning.on /\ \E f, c \in Nat : Scan!Finish("failed", f, c)
    BY <1>1, <1>3 DEF Scan!FailScan
  <2> QED
    BY <2>1, FinishStep
<1>4. CASE Scan!ScanDies
  <2>1. scans' = scans /\ scanRows' = scanRows /\ regimes' = regimes /\ scanning' = Scan!Idle
    BY <1>4 DEF Scan!ScanDies
  <2>2. AtWork
    BY <1>4, Zenon DEF Scan!ScanDies, ScanInv
  <2>3. ScanTyped' /\ ~scanning'.on
    BY <2>1, ScanIdle DEF ScanInv, ScanTyped
  <2> QED
    BY <2>1, <2>2, <2>3, OthersCounted DEF ScanInv
<1> QED
  BY <1>2, <1>3, <1>4, CreateScanStep, NothingFoundStep, InsertFoundStep, UpsertRegimesStep
     DEF Scan!Next

-----------------------------------------------------------------------------
(* Reversal radar                                                            *)

VerdictType == Radar!Verdicts \cup {"idle"}
RunType == [kind : RunKinds, date : Nat]
HitType == [date : Nat, run : Nat]
RadarTyped ==
  /\ sessions \in Seq(VerdictType) /\ radarRuns \in Seq(RunType) /\ radarHits \in Seq(HitType)

AllTraded == Radar!Traded = DOMAIN sessions
Eligible(d) == d \in DOMAIN sessions /\ sessions[d] = "eligible"

\* A whole horizon of sessions follows, unless the stock paused.
Followed(kind, d) == kind = "backfill" /\ AllTraded => d + Horizon <= Len(sessions)

\* What an item says of the sessions there are.
ItemFits(i) ==
  /\ i \in RadarItem /\ i.run \in DOMAIN radarRuns /\ i.date \in Radar!Traded
  /\ i.eligible => Eligible(i.date)
  /\ i.counted <= Radar!FutureCandles(i.date)
  /\ Followed(radarRuns[i.run].kind, i.date)
  /\ radarRuns[i.run].kind = "backfill" /\ AllTraded /\ i.counted # -1 => i.counted = Horizon

FoundFits(kind, found) == \A d \in found : d \in Radar!Traded /\ Followed(kind, d)

DatesFit(dates) ==
  dates # <<>> /\ \A k \in DOMAIN dates : dates[k] \in DOMAIN sessions /\ dates[k] + Horizon <= Len(sessions)

\* What the call at work holds in memory, between its transactions.
WorkFits(w) ==
  /\ w \in WorkType
  /\ w.at \in {"create", "insert"} => FoundFits(w.kind, w.found)
  /\ w.at \in {"create", "insert", "measure"} /\ w.kind = "backfill" => DatesFit(w.dates)
  /\ w.at = "create" => w.dates # <<>>
  /\ w.at = "insert" => w.run \in DOMAIN radarRuns /\ radarRuns[w.run].kind = w.kind
  /\ w.at \in {"measure", "hit"} => \A i \in w.left : ItemFits(i)
  /\ w.at = "hit" => \A i \in w.left : Eligible(i.date)
  /\ w.at = "candidate" => w.hit \in DOMAIN radarHits /\ Eligible(radarHits[w.hit].date)

PromotionFits ==
  /\ \A h, k \in DOMAIN radarHits : radarHits[h].date = radarHits[k].date => h = k
  /\ \A c \in promoted : /\ c.hit \in DOMAIN radarHits /\ c.date = radarHits[c.hit].date
                         /\ Eligible(c.date)
  /\ \A c, d \in promoted : c.date = d.date => c = d

RadarInv ==
  RadarTyped /\ (\A i \in radarItems : ItemFits(i)) /\ WorkFits(radarWork) /\ PromotionFits

\* Sessions, runs and hits are only added to.
Grows ==
  /\ RadarTyped /\ RadarTyped'
  /\ DOMAIN sessions \subseteq DOMAIN sessions' /\ \A d \in DOMAIN sessions : sessions'[d] = sessions[d]
  /\ DOMAIN radarRuns \subseteq DOMAIN radarRuns' /\ \A r \in DOMAIN radarRuns : radarRuns'[r] = radarRuns[r]
  /\ DOMAIN radarHits \subseteq DOMAIN radarHits' /\ \A h \in DOMAIN radarHits : radarHits'[h] = radarHits[h]

\* The candles counted among the traded days T.
CountedAmong(T, d) ==
  LET n == Cardinality({t \in T : t > d}) IN IF Horizon <= n THEN Horizon ELSE n

LEMMA LesserOfTwo ==
  ASSUME NEW m \in Nat, NEW n \in Nat
  PROVE  Radar!Min({m, n}) = IF m <= n THEN m ELSE n
<1>1. \E x \in {m, n} : \A y \in {m, n} : x <= y
  OBVIOUS
<1>2. Radar!Min({m, n}) \in {m, n} /\ \A y \in {m, n} : Radar!Min({m, n}) <= y
  BY <1>1, Zenon DEF Radar!Min
<1> QED
  BY <1>2

LEMMA RadarCounts == \A S : Radar!Cardinality(S) = Cardinality(S)
BY Zenon DEF Radar!Cardinality, Cardinality

LEMMA TradedFinite ==
  ASSUME NEW n \in Nat, NEW T \in SUBSET (1 .. n), NEW d
  PROVE  /\ IsFiniteSet({t \in T : t > d}) /\ Cardinality({t \in T : t > d}) \in Nat
         /\ CountedAmong(T, d) \in Nat /\ CountedAmong(T, d) <= Horizon
<1>1. IsFiniteSet(1 .. n)
  BY FS_Interval
<1>2. {t \in T : t > d} \subseteq 1 .. n
  OBVIOUS
<1>3. IsFiniteSet({t \in T : t > d}) /\ Cardinality({t \in T : t > d}) \in Nat
  BY <1>1, <1>2, FS_Subset, FS_CardinalityType
<1>4. Horizon \in Nat
  BY OperationsAssumption
<1> QED
  BY <1>3, <1>4 DEF CountedAmong

LEMMA FutureIs ==
  ASSUME NEW d
  PROVE  /\ RadarTyped => /\ Radar!FutureCandles(d) = CountedAmong(Radar!Traded, d)
                          /\ Radar!Traded \subseteq 1 .. Len(sessions)
         /\ RadarTyped' => /\ Radar!FutureCandles(d)' = CountedAmong(Radar!Traded', d)
                           /\ Radar!Traded' \subseteq 1 .. Len(sessions')
<1>1. ASSUME NEW n \in Nat, NEW T \in SUBSET (1 .. n)
      PROVE  Radar!Min({Horizon, Radar!Cardinality({t \in T : t > d})}) = CountedAmong(T, d)
  <2>1. Horizon \in Nat /\ Cardinality({t \in T : t > d}) \in Nat
    BY TradedFinite, OperationsAssumption
  <2> QED
    BY <2>1, LesserOfTwo, RadarCounts DEF CountedAmong
<1>2. ASSUME RadarTyped
      PROVE  /\ Radar!FutureCandles(d) = CountedAmong(Radar!Traded, d)
             /\ Radar!Traded \subseteq 1 .. Len(sessions)
  <2>1. Len(sessions) \in Nat /\ Radar!Traded \subseteq 1 .. Len(sessions)
    BY <1>2 DEF RadarTyped, Radar!Traded
  <2> QED
    BY <1>1, <2>1, Zenon DEF Radar!FutureCandles
<1>3. ASSUME RadarTyped'
      PROVE  /\ Radar!FutureCandles(d)' = CountedAmong(Radar!Traded', d)
             /\ Radar!Traded' \subseteq 1 .. Len(sessions')
  <2>1. Len(sessions') \in Nat /\ Radar!Traded' \subseteq 1 .. Len(sessions')
    BY <1>3 DEF RadarTyped, Radar!Traded
  <2>2. Radar!FutureCandles(d)' = Radar!Min({Horizon, Radar!Cardinality({t \in Radar!Traded' : t > d})})
    BY DEF Radar!FutureCandles
  <2> QED
    BY <1>1, <2>1, <2>2, Zenon
<1> QED
  BY <1>2, <1>3

LEMMA TradedGrows ==
  ASSUME Grows
  PROVE  /\ Radar!Traded \subseteq Radar!Traded' /\ (AllTraded' => AllTraded)
         /\ Len(sessions) \in Nat /\ Len(sessions') \in Nat /\ Len(sessions) <= Len(sessions')
         /\ \A d : Eligible(d) => Eligible(d)'
<1>1. Radar!Traded \subseteq Radar!Traded'
  BY DEF Grows, Radar!Traded
<1>2. AllTraded' => AllTraded
  <2>1. AllTraded <=> \A d \in DOMAIN sessions : sessions[d] # "idle"
    BY DEF AllTraded, Radar!Traded
  <2>2. AllTraded' <=> \A d \in DOMAIN sessions' : sessions'[d] # "idle"
    BY DEF AllTraded, Radar!Traded
  <2> QED
    BY <2>1, <2>2 DEF Grows
<1>3. /\ Len(sessions) \in Nat /\ Len(sessions') \in Nat
      /\ DOMAIN sessions = 1 .. Len(sessions) /\ DOMAIN sessions' = 1 .. Len(sessions')
  BY DEF Grows, RadarTyped
<1>4. Len(sessions) <= Len(sessions')
  BY <1>3 DEF Grows
<1>5. \A d : Eligible(d) => Eligible(d)'
  BY DEF Grows, Eligible
<1> QED
  BY <1>1, <1>2, <1>3, <1>4, <1>5

LEMMA FutureGrows ==
  ASSUME Grows, NEW d
  PROVE  /\ Radar!FutureCandles(d) \in Nat /\ Radar!FutureCandles(d)' \in Nat
         /\ Radar!FutureCandles(d) <= Radar!FutureCandles(d)' /\ Radar!FutureCandles(d)' <= Horizon
<1> DEFINE before == {t \in Radar!Traded : t > d}
           after == {t \in Radar!Traded' : t > d}
<1>1. /\ Radar!FutureCandles(d) = CountedAmong(Radar!Traded, d)
      /\ Radar!FutureCandles(d)' = CountedAmong(Radar!Traded', d)
      /\ Radar!Traded \subseteq 1 .. Len(sessions) /\ Radar!Traded' \subseteq 1 .. Len(sessions')
  BY FutureIs DEF Grows
<1>2. /\ IsFiniteSet(after) /\ Cardinality(before) \in Nat /\ Cardinality(after) \in Nat
      /\ CountedAmong(Radar!Traded, d) \in Nat /\ CountedAmong(Radar!Traded', d) \in Nat
      /\ CountedAmong(Radar!Traded', d) <= Horizon
  BY <1>1, TradedGrows, TradedFinite
<1>3. Cardinality(before) <= Cardinality(after)
  BY <1>2, TradedGrows, FS_Subset
<1>4. Horizon \in Nat
  BY OperationsAssumption
<1>5. CountedAmong(Radar!Traded, d) <= CountedAmong(Radar!Traded', d)
  BY <1>2, <1>3, <1>4 DEF CountedAmong
<1> QED
  BY <1>1, <1>2, <1>5

LEMMA FollowedStays ==
  ASSUME Grows, NEW kind, NEW d \in Nat, Followed(kind, d)
  PROVE  Followed(kind, d)'
<1>1. Horizon \in Nat
  BY OperationsAssumption
<1> QED
  BY <1>1, TradedGrows DEF Followed

LEMMA ItemStays ==
  ASSUME Grows, NEW i, ItemFits(i)
  PROVE  ItemFits(i)'
<1>1. i \in RadarItem /\ i.date \in Nat /\ i.counted \in Int
  BY DEF ItemFits, RadarItem
<1>2. i.run \in DOMAIN radarRuns /\ i.run \in DOMAIN radarRuns' /\ radarRuns'[i.run] = radarRuns[i.run]
  BY DEF ItemFits, Grows
<1>3. i.date \in Radar!Traded'
  BY TradedGrows DEF ItemFits
<1>4. i.eligible => Eligible(i.date)'
  BY TradedGrows, Zenon DEF ItemFits
<1>5. i.counted <= Radar!FutureCandles(i.date)'
  BY <1>1, FutureGrows DEF ItemFits
<1>6. Followed(radarRuns[i.run].kind, i.date)'
  BY <1>1, <1>2, FollowedStays DEF ItemFits, Followed
<1>7. radarRuns'[i.run].kind = "backfill" /\ AllTraded' /\ i.counted # -1 => i.counted = Horizon
  BY <1>2, TradedGrows DEF ItemFits
<1> QED
  BY <1>1, <1>2, <1>3, <1>4, <1>5, <1>6, <1>7 DEF ItemFits

\* What a call holds fits the grown store too.
LEMMA WorkStays ==
  ASSUME Grows, NEW w, WorkFits(w)
  PROVE  WorkFits(w)'
<1>1. w \in WorkType /\ w.found \subseteq Nat /\ w.kind \in RunKinds
  BY DEF WorkFits, WorkType
<1>2. w.at \in {"create", "insert"} => FoundFits(w.kind, w.found)'
  BY <1>1, TradedGrows, FollowedStays DEF WorkFits, FoundFits
<1>3. ASSUME DatesFit(w.dates) PROVE DatesFit(w.dates)'
  <2>1. \A k \in DOMAIN w.dates : w.dates[k] + Horizon <= Len(sessions')
    <3> SUFFICES ASSUME NEW k \in DOMAIN w.dates PROVE w.dates[k] + Horizon <= Len(sessions')
      OBVIOUS
    <3>1. w.dates[k] \in Nat /\ w.dates[k] + Horizon <= Len(sessions)
      BY <1>1, <1>3 DEF DatesFit, WorkType
    <3>2. Horizon \in Nat
      BY OperationsAssumption
    <3> QED
      BY <3>1, <3>2, TradedGrows
  <2> QED
    BY <1>3, <2>1 DEF DatesFit, Grows
<1>4. w.at = "insert" => w.run \in DOMAIN radarRuns' /\ radarRuns'[w.run].kind = w.kind
  BY DEF WorkFits, Grows
<1>5. w.at \in {"measure", "hit"} => \A i \in w.left : ItemFits(i)'
  BY ItemStays DEF WorkFits
<1>6. w.at = "hit" => \A i \in w.left : Eligible(i.date)'
  BY TradedGrows DEF WorkFits
<1>7. ASSUME w.at = "candidate"
      PROVE  w.hit \in DOMAIN radarHits' /\ Eligible(radarHits[w.hit].date)'
  <2>1. w.hit \in DOMAIN radarHits /\ Eligible(radarHits[w.hit].date)
    BY <1>7 DEF WorkFits
  <2>2. w.hit \in DOMAIN radarHits' /\ radarHits'[w.hit] = radarHits[w.hit]
    BY <2>1 DEF Grows
  <2>3. radarHits'[w.hit].date \in DOMAIN sessions' /\ sessions'[radarHits'[w.hit].date] = "eligible"
    BY <2>1, <2>2 DEF Grows, Eligible
  <2> QED
    BY <2>2, <2>3 DEF Eligible
<1> QED
  BY <1>1, <1>2, <1>3, <1>4, <1>5, <1>6, <1>7 DEF WorkFits

LEMMA RadarGrows ==
  ASSUME RadarTyped,
         sessions' = sessions \/ \E v \in VerdictType : sessions' = Append(sessions, v),
         radarRuns' = radarRuns \/ \E r \in RunType : radarRuns' = Append(radarRuns, r),
         radarHits' = radarHits \/ \E h \in HitType : radarHits' = Append(radarHits, h)
  PROVE  Grows
<1>1. ASSUME NEW S, NEW s \in Seq(S), NEW t, t = s \/ \E v \in S : t = Append(s, v)
      PROVE  t \in Seq(S) /\ DOMAIN s \subseteq DOMAIN t /\ \A d \in DOMAIN s : t[d] = s[d]
  BY <1>1
<1>2. /\ sessions' \in Seq(VerdictType) /\ DOMAIN sessions \subseteq DOMAIN sessions'
      /\ \A d \in DOMAIN sessions : sessions'[d] = sessions[d]
  BY <1>1 DEF RadarTyped
<1>3. /\ radarRuns' \in Seq(RunType) /\ DOMAIN radarRuns \subseteq DOMAIN radarRuns'
      /\ \A d \in DOMAIN radarRuns : radarRuns'[d] = radarRuns[d]
  BY <1>1 DEF RadarTyped
<1>4. /\ radarHits' \in Seq(HitType) /\ DOMAIN radarHits \subseteq DOMAIN radarHits'
      /\ \A d \in DOMAIN radarHits : radarHits'[d] = radarHits[d]
  BY <1>1 DEF RadarTyped
<1> QED
  BY <1>2, <1>3, <1>4 DEF Grows, RadarTyped

LEMMA RadarKeeps ==
  ASSUME RadarInv, Grows, NEW w, radarWork' = w, WorkFits(w)', PromotionFits',
         \A i \in radarItems' : i \in radarItems \/ ItemFits(i)'
  PROVE  RadarInv'
<1>1. \A i \in radarItems' : ItemFits(i)'
  BY ItemStays DEF RadarInv
<1>2. WorkFits(radarWork)'
  BY DEF WorkFits
<1> QED
  BY <1>1, <1>2 DEF RadarInv, Grows

LEMMA ItemsGrow ==
  ASSUME RadarInv, radarItems \subseteq radarItems'
  PROVE  Radar!OutcomesGrow
<1>1. \A i \in radarItems : i.counted \in Int
  BY DEF RadarInv, ItemFits, RadarItem
<1> QED
  BY <1>1 DEF Radar!OutcomesGrow

\* Sessions, runs, hits and candidates as they are.
LEMMA PromotionStays ==
  ASSUME RadarInv, Grows, radarHits' = radarHits, promoted' = promoted
  PROVE  PromotionFits'
<1>1. \A c \in promoted : Eligible(c.date)'
  BY TradedGrows DEF RadarInv, PromotionFits
<1> QED
  BY <1>1 DEF RadarInv, PromotionFits

\* A step of the call's memory alone.
LEMMA MemoryStep ==
  ASSUME RadarInv, UNCHANGED <<sessions, radarRuns, radarItems, radarHits, promoted>>,
         NEW w, radarWork' = w, WorkFits(w)
  PROVE  RadarInv' /\ Radar!OutcomesGrow
<1>1. Grows
  BY RadarGrows DEF RadarInv
<1>2. WorkFits(w)' /\ PromotionFits'
  BY <1>1, WorkStays, PromotionStays
<1> QED
  BY <1>1, <1>2, RadarKeeps, ItemsGrow

LEMMA IdleFits ==
  /\ Radar!Idle \in WorkType /\ Radar!Idle.at = "idle" /\ Radar!Idle.kind = "live"
  /\ Radar!Idle.dates = <<>> /\ Radar!Idle.left = {}
  /\ WorkFits(Radar!Idle) /\ WorkFits(Radar!Idle)'
<1>1. /\ Radar!Idle \in WorkType /\ Radar!Idle.at = "idle" /\ Radar!Idle.kind = "live"
      /\ Radar!Idle.dates = <<>> /\ Radar!Idle.left = {}
  BY DEF Radar!Idle, WorkType, RunKinds
<1> QED
  BY <1>1 DEF WorkFits

LEMMA RadarStart == Radar!Init => RadarInv
<1> SUFFICES ASSUME Radar!Init PROVE RadarInv
  OBVIOUS
<1>1. /\ sessions = <<>> /\ radarRuns = <<>> /\ radarItems = {} /\ radarHits = <<>> /\ promoted = {}
      /\ radarWork = Radar!Idle
  BY DEF Radar!Init
<1>2. RadarTyped /\ PromotionFits
  BY <1>1 DEF RadarTyped, PromotionFits
<1> QED
  BY <1>1, <1>2, IdleFits DEF RadarInv

\* The days to come in a longer series of whole sessions.
LEMMA FollowedHasHorizon ==
  ASSUME RadarTyped, AllTraded, NEW d \in Radar!Traded, d + Horizon <= Len(sessions)
  PROVE  Radar!FutureCandles(d) = Horizon
<1> DEFINE n == Len(sessions)
<1>1. n \in Nat /\ Radar!Traded = 1 .. n /\ d \in 1 .. n /\ Horizon \in Nat
  <2>1. n \in Nat /\ DOMAIN sessions = 1 .. n
    BY DEF RadarTyped
  <2>2. Horizon \in Nat
    BY OperationsAssumption
  <2> QED
    BY <2>1, <2>2 DEF AllTraded
<1>2. {t \in Radar!Traded : t > d} = (d + 1) .. n
  BY <1>1
<1>3. Cardinality((d + 1) .. n) = n - d
  BY <1>1, FS_Interval
<1>4. Horizon <= Cardinality({t \in Radar!Traded : t > d})
  <2>1. d + Horizon <= n
    OBVIOUS
  <2> HIDE DEF n
  <2>2. Horizon <= n - d
    BY <1>1, <2>1
  <2> QED
    BY <1>2, <1>3, <2>2
<1>5. CountedAmong(Radar!Traded, d) = Horizon
  BY <1>4 DEF CountedAmong
<1> QED
  BY <1>5, FutureIs

LEMMA ScannedFits ==
  ASSUME RadarTyped, NEW n \in DOMAIN sessions, NEW kind,
         kind = "backfill" => n + Horizon <= Len(sessions)
  PROVE  FoundFits(kind, Radar!ScanAsOf(n)) /\ Radar!ScanAsOf(n) \subseteq Nat
<1>1. /\ \A d \in Radar!ScanAsOf(n) : d \in Radar!Traded /\ d <= n /\ (n \in Radar!Traded => n <= d)
      /\ n \in Nat /\ Radar!Traded \subseteq Nat
  BY DEF Radar!ScanAsOf, Radar!Traded, RadarTyped
<1>2. ASSUME NEW d \in Radar!ScanAsOf(n), AllTraded PROVE d = n
  BY <1>1, <1>2 DEF AllTraded
<1> QED
  BY <1>1, <1>2 DEF FoundFits, Followed

LEMMA ReplayDatesFit ==
  ASSUME RadarTyped, NEW step \in 1 .. 2, Radar!select_replay_dates(step) # <<>>
  PROVE  /\ Radar!select_replay_dates(step) \in Seq(Nat) /\ DatesFit(Radar!select_replay_dates(step))
<1> DEFINE dates == Radar!select_replay_dates(step)
           m == Len(sessions) - Horizon
           n == (m + step - 1) \div step
<1>1. Len(sessions) \in Nat /\ DOMAIN sessions = 1 .. Len(sessions) /\ Horizon \in Nat
  <2>1. Horizon \in Nat
    BY OperationsAssumption
  <2> QED
    BY <2>1 DEF RadarTyped
<1>2. dates = [k \in 1 .. n |-> 1 + (k - 1) * step]
  BY DEF Radar!select_replay_dates
<1>3. m \in Int /\ n \in Int
  BY <1>1
<1>4. ASSUME NEW k \in 1 .. n PROVE 1 + (k - 1) * step \in 1 .. m
  <2>1. CASE step = 1
    BY <1>3, <1>4, <2>1
  <2>2. CASE step = 2
    BY <1>3, <1>4, <2>2
  <2> QED
    BY <2>1, <2>2
<1> HIDE DEF n
<1>5. n \in Nat
  BY <1>2, <1>3
<1>6. \A k \in 1 .. n : 1 + (k - 1) * step \in Nat
  BY <1>4
<1>7. dates \in Seq(Nat) /\ DOMAIN dates = 1 .. n
  BY <1>2, <1>5, <1>6
<1>8. \A k \in 1 .. n : dates[k] \in DOMAIN sessions /\ dates[k] + Horizon <= Len(sessions)
  BY <1>1, <1>2, <1>4
<1> QED
  BY <1>7, <1>8 DEF DatesFit

LEMMA NewSessionStep ==
  ASSUME RadarInv, Radar!NewSession
  PROVE  RadarInv' /\ Radar!OutcomesGrow
<1>1. UNCHANGED <<radarRuns, radarItems, radarHits, promoted, radarWork>>
  BY DEF Radar!NewSession
<1>2. Grows
  <2>1. \E v \in VerdictType : sessions' = Append(sessions, v)
    BY DEF Radar!NewSession, VerdictType
  <2> QED
    BY <1>1, <2>1, RadarGrows DEF RadarInv
<1>3. PICK w : w = radarWork
  OBVIOUS
<1>4. WorkFits(w) /\ radarWork' = w
  BY <1>1, <1>3 DEF RadarInv
<1>5. WorkFits(w)' /\ PromotionFits'
  BY <1>1, <1>2, <1>4, WorkStays, PromotionStays
<1> QED
  BY <1>1, <1>2, <1>4, <1>5, RadarKeeps, ItemsGrow

LEMMA RefreshStep ==
  ASSUME RadarInv, Radar!Refresh
  PROVE  RadarInv' /\ Radar!OutcomesGrow
<1>1. PICK n : n = Len(sessions)
  OBVIOUS
<1>2. PICK found : found = Radar!ScanAsOf(n)
  OBVIOUS
<1>3. PICK w : w = [Radar!Idle EXCEPT !.at = "create", !.dates = <<n>>, !.found = found]
  OBVIOUS
<1>4. n \in DOMAIN sessions /\ n \in Nat
  BY <1>1 DEF Radar!Refresh, RadarInv, RadarTyped
<1>5. FoundFits("live", found) /\ found \subseteq Nat
  <2>1. "live" = "backfill" => n + Horizon <= Len(sessions)
    OBVIOUS
  <2> QED
    BY <1>2, <1>4, <2>1, ScannedFits DEF RadarInv
<1>6. radarWork' = w /\ UNCHANGED <<sessions, radarRuns, radarItems, radarHits, promoted>>
  BY <1>1, <1>2, <1>3 DEF Radar!Refresh
<1>7. <<n>> \in Seq(Nat) /\ <<n>> # <<>>
  BY <1>4
<1>8. w \in WorkType /\ w.at = "create" /\ w.kind = "live" /\ w.dates # <<>> /\ w.found = found
  <2>1. PICK dates : dates = <<n>>
    OBVIOUS
  <2> QED
    BY <1>3, <1>5, <1>7, <2>1, IdleFits DEF WorkType
<1>9. WorkFits(w)
  BY <1>5, <1>8 DEF WorkFits
<1> QED
  BY <1>6, <1>9, MemoryStep

LEMMA BackfillStep ==
  ASSUME RadarInv, NEW step \in 1 .. 2, Radar!Backfill(step)
  PROVE  RadarInv' /\ Radar!OutcomesGrow
<1> DEFINE dates == Radar!select_replay_dates(step)
           found == Radar!ScanAsOf(dates[1])
           w == [Radar!Idle EXCEPT !.at = "create", !.kind = "backfill", !.dates = dates, !.found = found]
<1>1. dates # <<>> /\ radarWork' = w /\ UNCHANGED <<sessions, radarRuns, radarItems, radarHits, promoted>>
  BY DEF Radar!Backfill
<1>2. dates \in Seq(Nat) /\ DatesFit(dates)
  BY <1>1, ReplayDatesFit DEF RadarInv
<1> HIDE DEF dates
<1>3. dates[1] \in DOMAIN sessions /\ dates[1] + Horizon <= Len(sessions)
  BY <1>1, <1>2 DEF DatesFit
<1>4. FoundFits("backfill", found) /\ found \subseteq Nat
  BY <1>3, ScannedFits DEF RadarInv
<1> HIDE DEF found
<1>5. /\ w \in WorkType /\ w.at = "create" /\ w.kind = "backfill" /\ w.dates = dates /\ w.found = found
  BY <1>2, <1>4, IdleFits DEF WorkType, RunKinds
<1> HIDE DEF w
<1>6. WorkFits(w)
  BY <1>1, <1>2, <1>4, <1>5 DEF WorkFits
<1>7. PICK v : v = w
  OBVIOUS
<1>8. WorkFits(v) /\ radarWork' = v
  BY <1>1, <1>6, <1>7
<1> QED
  BY <1>1, <1>8, MemoryStep

LEMMA RadarCreateStep ==
  ASSUME RadarInv, Radar!CreateRun
  PROVE  RadarInv' /\ Radar!OutcomesGrow
<1>1. PICK w : w = radarWork
  OBVIOUS
<1>2. PICK r : r = [kind |-> w.kind, date |-> w.dates[1]]
  OBVIOUS
<1>3. PICK n : n = Len(radarRuns) + 1
  OBVIOUS
<1>4. PICK v : v = [w EXCEPT !.at = "insert", !.run = n]
  OBVIOUS
<1>5. /\ w.at = "create" /\ radarRuns' = Append(radarRuns, r) /\ radarWork' = v
      /\ UNCHANGED <<sessions, radarItems, radarHits, promoted>>
  BY <1>1, <1>2, <1>3, <1>4 DEF Radar!CreateRun
<1>6. WorkFits(w) /\ w \in WorkType /\ RadarTyped
  BY <1>1 DEF RadarInv, WorkFits
<1>7. w.dates \in Seq(Nat) /\ w.dates # <<>> /\ w.kind \in RunKinds
  BY <1>5, <1>6 DEF WorkFits, WorkType
<1>8. w.dates[1] \in Nat
  BY <1>7
<1>9. r \in RunType /\ r.kind = w.kind
  BY <1>2, <1>7, <1>8 DEF RunType
<1>10. Grows
  BY <1>5, <1>6, <1>9, RadarGrows
<1>11. n \in Nat /\ n \in DOMAIN radarRuns' /\ radarRuns'[n] = r
  BY <1>3, <1>5, <1>6, <1>9 DEF RadarTyped
<1>12. /\ v \in WorkType /\ v.at = "insert" /\ v.run = n /\ v.kind = w.kind /\ v.dates = w.dates
       /\ v.found = w.found
  BY <1>4, <1>6, <1>11 DEF WorkType
<1>13. WorkFits(w)' /\ PromotionFits'
  BY <1>5, <1>6, <1>10, WorkStays, PromotionStays
<1>14. WorkFits(v)'
  BY <1>5, <1>9, <1>11, <1>12, <1>13 DEF WorkFits
<1> QED
  BY <1>5, <1>10, <1>13, <1>14, RadarKeeps, ItemsGrow

LEMMA ItemMade ==
  ASSUME NEW d, NEW w, w = radarWork
  PROVE  /\ Radar!Item(d).run = w.run /\ Radar!Item(d).date = d /\ Radar!Item(d).counted = -1
         /\ Radar!Item(d).eligible = (sessions[d] = "eligible")
         /\ w.run \in Nat /\ d \in Nat => Radar!Item(d) \in RadarItem
<1>1. (sessions[d] = "eligible") \in BOOLEAN
  BY Zenon
<1>2. -1 \in Int
  OBVIOUS
<1> QED
  BY <1>1, <1>2, ItemFields, Zenon DEF Radar!Item, RadarItem

\* A new item is pending.
LEMMA NewItemFits ==
  ASSUME RadarInv, radarWork.at = "insert", NEW d \in radarWork.found
  PROVE  ItemFits(Radar!Item(d))
<1>1. PICK w : w = radarWork
  OBVIOUS
<1>2. WorkFits(w) /\ w \in WorkType /\ w.at = "insert" /\ d \in w.found /\ RadarTyped
  BY <1>1 DEF RadarInv, WorkFits
<1>3. /\ w.run \in DOMAIN radarRuns /\ radarRuns[w.run].kind = w.kind
      /\ d \in Radar!Traded /\ Followed(w.kind, d)
  BY <1>2 DEF WorkFits, FoundFits
<1>4. d \in Nat /\ d \in DOMAIN sessions /\ w.run \in Nat
  BY <1>2, <1>3 DEF WorkType, Radar!Traded
<1>5. Radar!FutureCandles(d) \in Nat
  <2>1. Radar!FutureCandles(d) = CountedAmong(Radar!Traded, d) /\ Radar!Traded \subseteq 1 .. Len(sessions)
        /\ Len(sessions) \in Nat
    BY <1>2, FutureIs DEF RadarTyped
  <2> QED
    BY <2>1, TradedFinite
<1>6. PICK i : i = Radar!Item(d)
  OBVIOUS
<1>7. i.run = w.run /\ i.date = d /\ i.counted = -1 /\ i \in RadarItem
  BY <1>1, <1>4, <1>6, ItemMade
<1>8. i.eligible => Eligible(i.date)
  BY <1>1, <1>4, <1>6, <1>7, ItemMade, Zenon DEF Eligible
<1>9. ItemFits(i)
  BY <1>3, <1>5, <1>7, <1>8 DEF ItemFits
<1> QED
  BY <1>6, <1>9

LEMMA InsertItemsStep ==
  ASSUME RadarInv, Radar!InsertItems
  PROVE  RadarInv' /\ Radar!OutcomesGrow
<1>1. PICK w : w = radarWork
  OBVIOUS
<1>2. PICK new : new = {Radar!Item(d) : d \in w.found}
  OBVIOUS
<1>3. PICK v : v = IF w.kind = "live" THEN Radar!Idle ELSE [w EXCEPT !.at = "measure", !.left = new]
  OBVIOUS
<1>4. /\ w.at = "insert" /\ radarItems' = radarItems \cup new /\ radarWork' = v
      /\ UNCHANGED <<sessions, radarRuns, radarHits, promoted>>
  BY <1>1, <1>2, <1>3 DEF Radar!InsertItems
<1>5. WorkFits(w) /\ w \in WorkType
  BY <1>1 DEF RadarInv, WorkFits
<1>6. \A i \in new : ItemFits(i)
  BY <1>1, <1>2, <1>4, NewItemFits
<1>7. Grows
  BY <1>4, RadarGrows DEF RadarInv
<1>8. PromotionFits' /\ \A i \in new : ItemFits(i)'
  BY <1>4, <1>6, <1>7, PromotionStays, ItemStays
<1>9. WorkFits(v)
  <2>1. CASE w.kind = "live"
    BY <1>3, <2>1, IdleFits
  <2>2. CASE w.kind # "live"
    <3>1. new \subseteq RadarItem
      BY <1>6 DEF ItemFits
    <3>2. v = [w EXCEPT !.at = "measure", !.left = new]
      BY <1>3, <2>2
    <3>3. v \in WorkType /\ v.at = "measure" /\ v.left = new /\ v.kind = w.kind /\ v.dates = w.dates
      BY <1>5, <3>1, <3>2 DEF WorkType
    <3> QED
      BY <1>4, <1>5, <1>6, <3>3 DEF WorkFits
  <2> QED
    BY <2>1, <2>2
<1>10. WorkFits(v)'
  BY <1>7, <1>9, WorkStays
<1> QED
  BY <1>4, <1>7, <1>8, <1>10, RadarKeeps, ItemsGrow

\* A measurement counts the candles there are, all of the horizon for a replay.
LEMMA MeasuredFits ==
  ASSUME RadarTyped, NEW i, ItemFits(i), NEW m, m = Radar!Measured(i)
  PROVE  /\ ItemFits(m) /\ m.run = i.run /\ m.date = i.date /\ m.eligible = i.eligible
         /\ i.counted \in Int /\ m.counted >= i.counted
<1>1. PICK c : c = Radar!FutureCandles(i.date)
  OBVIOUS
<1>2. c \in Nat
  <2>1. /\ c = CountedAmong(Radar!Traded, i.date) /\ Radar!Traded \subseteq 1 .. Len(sessions)
        /\ Len(sessions) \in Nat
    BY <1>1, FutureIs DEF RadarTyped
  <2> QED
    BY <2>1, TradedFinite
<1>3. i \in RadarItem /\ c \in Int
  BY <1>2 DEF ItemFits
<1>4. m = [i EXCEPT !.counted = c]
  BY <1>1 DEF Radar!Measured
<1>5. m \in RadarItem /\ m.run = i.run /\ m.date = i.date /\ m.eligible = i.eligible /\ m.counted = c
  BY <1>3, <1>4, CountedFields, Zenon DEF RadarItem
<1>6. i.counted \in Int /\ i.counted <= c
  BY <1>1, <1>3 DEF ItemFits, RadarItem
<1>7. ASSUME radarRuns[i.run].kind = "backfill", AllTraded PROVE c = Horizon
  <2>1. i.date \in Radar!Traded /\ i.date + Horizon <= Len(sessions)
    BY <1>7 DEF ItemFits, Followed
  <2> QED
    BY <1>1, <1>7, <2>1, FollowedHasHorizon
<1>8. m.eligible => Eligible(m.date)
  BY <1>5, Zenon DEF ItemFits
<1>9. m.counted <= Radar!FutureCandles(m.date)
  BY <1>1, <1>2, <1>5
<1>10. m.run \in DOMAIN radarRuns /\ m.date \in Radar!Traded /\ Followed(radarRuns[m.run].kind, m.date)
  BY <1>5 DEF ItemFits
<1>11. radarRuns[m.run].kind = "backfill" /\ AllTraded /\ m.counted # -1 => m.counted = Horizon
  BY <1>5, <1>7
<1>12. ItemFits(m)
  BY <1>5, <1>8, <1>9, <1>10, <1>11 DEF ItemFits
<1> QED
  BY <1>2, <1>5, <1>6, <1>12

LEMMA MeasureStep ==
  ASSUME RadarInv, Radar!Measure
  PROVE  RadarInv' /\ Radar!OutcomesGrow
<1>1. PICK w : w = radarWork
  OBVIOUS
<1>2. PICK i \in w.left :
        /\ w.at = "measure" /\ radarItems' = (radarItems \ {i}) \cup {Radar!Measured(i)}
        /\ radarWork' = [w EXCEPT !.left = w.left \ {i}]
        /\ UNCHANGED <<sessions, radarRuns, radarHits, promoted>>
  BY <1>1 DEF Radar!Measure
<1>3. PICK m : m = Radar!Measured(i)
  OBVIOUS
<1>4. PICK v : v = [w EXCEPT !.left = w.left \ {i}]
  OBVIOUS
<1>5. WorkFits(w) /\ w \in WorkType /\ RadarTyped /\ ItemFits(i)
  BY <1>1, <1>2 DEF RadarInv, WorkFits
<1>6. /\ ItemFits(m) /\ m.run = i.run /\ m.date = i.date /\ m.eligible = i.eligible
      /\ i.counted \in Int /\ m.counted >= i.counted
  BY <1>3, <1>5, MeasuredFits
<1>7. v \in WorkType /\ v.at = w.at /\ v.kind = w.kind /\ v.dates = w.dates /\ v.left = w.left \ {i}
  BY <1>4, <1>5 DEF WorkType
<1>8. WorkFits(v)
  BY <1>2, <1>5, <1>7 DEF WorkFits
<1>9. Grows
  BY <1>2, <1>5, RadarGrows
<1>10. WorkFits(v)' /\ PromotionFits' /\ ItemFits(m)'
  BY <1>2, <1>6, <1>8, <1>9, WorkStays, PromotionStays, ItemStays
<1>11. \A j \in radarItems' : j \in radarItems \/ ItemFits(j)'
  BY <1>2, <1>3, <1>10
<1>12. RadarInv'
  BY <1>2, <1>4, <1>9, <1>10, <1>11, RadarKeeps
<1>13. ASSUME NEW j \in radarItems
       PROVE  \E k \in radarItems' : k.run = j.run /\ k.date = j.date /\ k.eligible = j.eligible
                                     /\ k.counted >= j.counted
  <2>1. CASE j = i
    BY <1>2, <1>3, <1>6, <2>1, Zenon
  <2>2. CASE j # i
    <3>1. j \in radarItems' /\ j.counted \in Int
      BY <1>2, <2>2 DEF RadarInv, ItemFits, RadarItem
    <3>2. j.counted >= j.counted
      BY <3>1
    <3> QED
      BY <3>1, <3>2, Zenon
  <2> QED
    BY <2>1, <2>2
<1>14. Radar!OutcomesGrow
  BY <1>13, Zenon DEF Radar!OutcomesGrow
<1> QED
  BY <1>12, <1>14

LEMMA NextDateStep ==
  ASSUME RadarInv, Radar!NextDate
  PROVE  RadarInv' /\ Radar!OutcomesGrow
<1>1. PICK w : w = radarWork
  OBVIOUS
<1>2. PICK rest : rest = Tail(w.dates)
  OBVIOUS
<1>3. PICK found : found = Radar!ScanAsOf(rest[1])
  OBVIOUS
<1>4. PICK v : v = IF w.kind = "live" \/ rest = <<>> THEN Radar!Idle
                   ELSE [w EXCEPT !.at = "create", !.dates = rest, !.found = found]
  OBVIOUS
<1>5. /\ w.at = "measure" /\ radarWork' = v
      /\ UNCHANGED <<sessions, radarRuns, radarItems, radarHits, promoted>>
  BY <1>1, <1>2, <1>3, <1>4 DEF Radar!NextDate
<1>6. WorkFits(w) /\ w \in WorkType /\ RadarTyped
  BY <1>1 DEF RadarInv, WorkFits
<1>7. CASE w.kind = "live" \/ rest = <<>>
  <2>1. WorkFits(v)
    BY <1>4, <1>7, IdleFits
  <2> QED
    BY <1>5, <2>1, MemoryStep
<1>8. CASE w.kind # "live" /\ rest # <<>>
  <2>1. w.kind = "backfill" /\ w.dates \in Seq(Nat) /\ DatesFit(w.dates)
    BY <1>5, <1>6, <1>8 DEF WorkFits, WorkType, RunKinds
  <2>2. rest \in Seq(Nat) /\ \A k \in DOMAIN rest : k + 1 \in DOMAIN w.dates /\ rest[k] = w.dates[k + 1]
    BY <1>2, <2>1 DEF DatesFit
  <2>3. DatesFit(rest)
    BY <1>8, <2>1, <2>2 DEF DatesFit
  <2>4. rest[1] \in DOMAIN sessions /\ rest[1] + Horizon <= Len(sessions)
    BY <1>8, <2>2, <2>3 DEF DatesFit
  <2>5. FoundFits("backfill", found) /\ found \subseteq Nat
    BY <1>3, <1>6, <2>4, ScannedFits
  <2>6. /\ v \in WorkType /\ v.at = "create" /\ v.kind = "backfill" /\ v.dates = rest /\ v.found = found
    BY <1>4, <1>6, <1>8, <2>1, <2>2, <2>5 DEF WorkType
  <2>7. WorkFits(v)
    BY <1>8, <2>3, <2>5, <2>6 DEF WorkFits
  <2> QED
    BY <1>5, <2>7, MemoryStep
<1> QED
  BY <1>7, <1>8

LEMMA UpdateOutcomesStep ==
  ASSUME RadarInv, Radar!UpdateOutcomes
  PROVE  RadarInv' /\ Radar!OutcomesGrow
<1>1. PICK left : left = {i \in radarItems : i.counted < Horizon}
  OBVIOUS
<1>2. PICK v : v = [Radar!Idle EXCEPT !.at = "measure", !.left = left]
  OBVIOUS
<1>3. radarWork' = v /\ UNCHANGED <<sessions, radarRuns, radarItems, radarHits, promoted>>
  BY <1>1, <1>2 DEF Radar!UpdateOutcomes
<1>4. \A i \in left : ItemFits(i)
  BY <1>1 DEF RadarInv
<1>5. left \subseteq RadarItem
  BY <1>4 DEF ItemFits
<1>6. v \in WorkType /\ v.at = "measure" /\ v.kind = "live" /\ v.left = left
  BY <1>2, <1>5, IdleFits DEF WorkType
<1>7. WorkFits(v)
  BY <1>4, <1>6 DEF WorkFits
<1> QED
  BY <1>3, <1>7, MemoryStep

LEMMA PromoteStep ==
  ASSUME RadarInv, NEW r, Radar!Promote(r)
  PROVE  RadarInv' /\ Radar!OutcomesGrow
<1>1. PICK i \in radarItems : i.eligible /\ radarWork' = [Radar!Idle EXCEPT !.at = "hit", !.left = {i}]
  BY Zenon DEF Radar!Promote
<1>2. UNCHANGED <<sessions, radarRuns, radarItems, radarHits, promoted>>
  BY DEF Radar!Promote
<1>3. PICK v : v = [Radar!Idle EXCEPT !.at = "hit", !.left = {i}]
  OBVIOUS
<1>4. ItemFits(i) /\ i \in RadarItem
  BY DEF RadarInv, ItemFits
<1>5. Eligible(i.date)
  BY <1>1, <1>4, Zenon DEF ItemFits
<1>6. v \in WorkType /\ v.at = "hit" /\ v.left = {i}
  BY <1>3, <1>4, IdleFits DEF WorkType
<1>7. WorkFits(v)
  BY <1>4, <1>5, <1>6 DEF WorkFits
<1> QED
  BY <1>1, <1>2, <1>3, <1>7, MemoryStep

LEMMA EnsureHitStep ==
  ASSUME RadarInv, Radar!EnsureHit
  PROVE  RadarInv' /\ Radar!OutcomesGrow
<1>1. PICK w : w = radarWork
  OBVIOUS
<1>2. PICK i \in w.left :
        /\ w.at = "hit"
        /\ radarHits' = IF Radar!HitsOf(i.date) = {}
                        THEN Append(radarHits, [date |-> i.date, run |-> i.run]) ELSE radarHits
        /\ radarWork' = [w EXCEPT !.at = "candidate",
                                  !.hit = IF Radar!HitsOf(i.date) = {} THEN Len(radarHits) + 1
                                          ELSE Radar!Max(Radar!HitsOf(i.date))]
        /\ UNCHANGED <<sessions, radarRuns, radarItems, promoted>>
  BY <1>1, Zenon DEF Radar!EnsureHit
<1>3. WorkFits(w) /\ w \in WorkType /\ RadarTyped /\ PromotionFits /\ ItemFits(i) /\ Eligible(i.date)
  BY <1>1, <1>2 DEF RadarInv, WorkFits
<1>4. i.date \in Nat /\ i.run \in Nat
  BY <1>3 DEF ItemFits, RadarItem
<1>5. radarHits \in Seq(HitType) /\ DOMAIN radarHits = 1 .. Len(radarHits) /\ Len(radarHits) \in Nat
  BY <1>3 DEF RadarTyped
<1>6. PICK h : h = IF Radar!HitsOf(i.date) = {} THEN Len(radarHits) + 1
                   ELSE Radar!Max(Radar!HitsOf(i.date))
  OBVIOUS
<1>7. PICK new : new = [date |-> i.date, run |-> i.run]
  OBVIOUS
<1>8. new \in HitType /\ new.date = i.date
  BY <1>4, <1>7 DEF HitType
<1>9. \/ /\ \A k \in DOMAIN radarHits : radarHits[k].date # i.date
         /\ radarHits' = Append(radarHits, new) /\ h = Len(radarHits) + 1
      \/ radarHits' = radarHits /\ h \in DOMAIN radarHits /\ radarHits[h].date = i.date
  <2>1. \A k : k \in Radar!HitsOf(i.date) <=> k \in DOMAIN radarHits /\ radarHits[k].date = i.date
    BY DEF Radar!HitsOf
  <2>2. CASE Radar!HitsOf(i.date) = {}
    BY <1>2, <1>6, <1>7, <2>1, <2>2
  <2>3. CASE Radar!HitsOf(i.date) # {}
    <3>1. PICK k \in Radar!HitsOf(i.date) : \A l \in Radar!HitsOf(i.date) : l = k
      BY <1>3, <2>1, <2>3 DEF PromotionFits
    <3>2. k \in Nat
      BY <1>5, <2>1, <3>1
    <3>3. \E x \in Radar!HitsOf(i.date) : \A y \in Radar!HitsOf(i.date) : x >= y
      BY <3>1, <3>2
    <3>4. Radar!Max(Radar!HitsOf(i.date)) \in Radar!HitsOf(i.date)
      BY <3>3, Zenon DEF Radar!Max
    <3> QED
      BY <1>2, <1>6, <2>1, <2>3, <3>4
  <2> QED
    BY <2>2, <2>3
<1>10. Grows
  BY <1>2, <1>3, <1>8, <1>9, RadarGrows
<1>11. h \in DOMAIN radarHits' /\ radarHits'[h].date = i.date /\ h \in Nat
  BY <1>5, <1>8, <1>9
<1>12. Eligible(i.date)'
  BY <1>3, <1>10, TradedGrows
<1>13. PICK v : v = [w EXCEPT !.at = "candidate", !.hit = h]
  OBVIOUS
<1>14. v \in WorkType /\ v.at = "candidate" /\ v.hit = h
  BY <1>3, <1>11, <1>13 DEF WorkType
<1>15. WorkFits(v)'
  <2>1. Eligible(radarHits[v.hit].date)'
    BY <1>11, <1>12, <1>14 DEF Eligible
  <2> QED
    BY <1>11, <1>14, <2>1 DEF WorkFits
<1>16. PromotionFits'
  <2>1. \A k, l \in DOMAIN radarHits' : radarHits'[k].date = radarHits'[l].date => k = l
    <3>1. CASE radarHits' = radarHits
      BY <1>3, <3>1 DEF PromotionFits
    <3>2. CASE /\ \A k \in DOMAIN radarHits : radarHits[k].date # i.date
               /\ radarHits' = Append(radarHits, new)
      <4>1. /\ DOMAIN radarHits' = DOMAIN radarHits \cup {Len(radarHits) + 1}
            /\ radarHits'[Len(radarHits) + 1] = new
            /\ \A k \in DOMAIN radarHits : radarHits'[k] = radarHits[k]
        BY <1>5, <1>8, <3>2
      <4> QED
        BY <1>3, <1>8, <3>2, <4>1 DEF PromotionFits
    <3> QED
      BY <1>9, <3>1, <3>2
  <2>2. \A c \in promoted : /\ c.hit \in DOMAIN radarHits' /\ c.date = radarHits'[c.hit].date
                            /\ Eligible(c.date)'
    BY <1>3, <1>10, TradedGrows DEF PromotionFits, Grows
  <2> QED
    BY <1>2, <1>3, <2>1, <2>2 DEF PromotionFits
<1> QED
  BY <1>2, <1>6, <1>10, <1>13, <1>15, <1>16, RadarKeeps, ItemsGrow

LEMMA InsertCandidateStep ==
  ASSUME RadarInv, Radar!InsertCandidate
  PROVE  RadarInv' /\ Radar!OutcomesGrow
<1>1. PICK w : w = radarWork
  OBVIOUS
<1>2. PICK h : h = w.hit
  OBVIOUS
<1>3. PICK c : c = [hit |-> h, date |-> radarHits[h].date]
  OBVIOUS
<1>4. c.hit = h /\ c.date = radarHits[h].date
  BY <1>3
<1>5. /\ w.at = "candidate" /\ radarWork' = Radar!Idle
      /\ promoted' = IF \E b \in promoted : b.date = radarHits[h].date THEN promoted
                     ELSE promoted \cup {c}
      /\ UNCHANGED <<sessions, radarRuns, radarItems, radarHits>>
  BY <1>1, <1>2, <1>3 DEF Radar!InsertCandidate
<1>6. h \in DOMAIN radarHits /\ Eligible(radarHits[h].date) /\ PromotionFits
  BY <1>1, <1>2, <1>5 DEF RadarInv, WorkFits
<1>7. Grows
  BY <1>5, RadarGrows DEF RadarInv
<1>8. \A b \in promoted' : /\ b.hit \in DOMAIN radarHits /\ b.date = radarHits[b.hit].date
                           /\ Eligible(b.date)
  BY <1>4, <1>5, <1>6 DEF PromotionFits
<1>9. \A b, d \in promoted' : b.date = d.date => b = d
  BY <1>4, <1>5, <1>6 DEF PromotionFits
<1>10. \A d : Eligible(d)' <=> Eligible(d)
  BY <1>5 DEF Eligible
<1>11. PromotionFits'
  BY <1>5, <1>6, <1>8, <1>9, <1>10 DEF PromotionFits
<1>12. PICK v : v = Radar!Idle
  OBVIOUS
<1>13. WorkFits(v)'
  BY <1>12, IdleFits DEF WorkFits
<1> QED
  BY <1>5, <1>7, <1>11, <1>12, <1>13, RadarKeeps, ItemsGrow

LEMMA RadarStep ==
  ASSUME RadarInv, Radar!Next
  PROVE  RadarInv' /\ Radar!OutcomesGrow
<1>1. CASE Radar!RadarDies
  <2>1. PICK v : v = Radar!Idle
    OBVIOUS
  <2>2. WorkFits(v)
    BY <2>1, IdleFits
  <2> QED
    BY <1>1, <2>1, <2>2, MemoryStep DEF Radar!RadarDies
<1>2. CASE \E step \in 1 .. 2 : Radar!Backfill(step)
  BY <1>2, BackfillStep
<1>3. CASE \E r \in DOMAIN radarRuns : Radar!Promote(r)
  BY <1>3, PromoteStep
<1> QED
  BY <1>1, <1>2, <1>3, NewSessionStep, RefreshStep, RadarCreateStep, InsertItemsStep, MeasureStep,
     NextDateStep, UpdateOutcomesStep, EnsureHitStep, InsertCandidateStep DEF Radar!Next

LEMMA RadarSafe == RadarInv => Radar!RadarTruthful
<1> SUFFICES ASSUME RadarInv PROVE Radar!RadarTruthful
  OBVIOUS
<1>1. Radar!PromotedOnce
  BY DEF RadarInv, PromotionFits, Eligible, Radar!PromotedOnce
<1>2. Radar!OutcomesHonest
  BY DEF RadarInv, ItemFits, AllTraded, Radar!OutcomesHonest
<1> QED
  BY <1>1, <1>2 DEF Radar!RadarTruthful

-----------------------------------------------------------------------------
\* The two research stores in one behaviour.
ScansInv == (system = "scans" => ScanInv) /\ (system = "radar" => RadarInv)

LEMMA ScansInvariant ==
  Spec => []ScansInv /\ [][/\ system = "scans" => Scan!EndedScansStay
                           /\ system = "radar" => Radar!OutcomesGrow]_vars
<1>1. Init => ScansInv
  BY ScanStart, RadarStart DEF Init, ScansInv
<1>2. ScansInv /\ [Next]_vars => ScansInv'
  <2> SUFFICES ASSUME ScansInv, [Next]_vars PROVE ScansInv'
    OBVIOUS
  <2>1. ASSUME system' = "scans" PROVE ScanInv'
    <3>1. CASE UNCHANGED vars
      <4>1. system' = system /\ UNCHANGED <<scans, scanRows, regimes, scanning>>
        BY <3>1 DEF vars, scanVars
      <4>2. ScanInv
        BY <2>1, <4>1 DEF ScansInv
      <4> QED
        BY <4>1, <4>2 DEF ScanInv, ScanTyped, AtWork, Scan!CountsAreRows, Scan!RegimesOfOneRun,
                          Scan!LatestScan
    <3>2. CASE Next
      BY <2>1, <3>2, ScanStep DEF Next, OthersStay, ScansInv
    <3> QED
      BY <3>1, <3>2
  <2>2. ASSUME system' = "radar" PROVE RadarInv'
    <3>1. CASE UNCHANGED vars
      <4>1. system' = system /\ UNCHANGED <<sessions, radarRuns, radarItems, radarHits, promoted, radarWork>>
        BY <3>1 DEF vars, radarVars
      <4>2. RadarInv
        BY <2>2, <4>1 DEF ScansInv
      <4>3. PICK w : w = radarWork
        OBVIOUS
      <4>4. WorkFits(w) /\ radarWork' = w
        BY <4>1, <4>2, <4>3 DEF RadarInv
      <4> QED
        BY <4>1, <4>2, <4>4, MemoryStep
    <3>2. CASE Next
      BY <2>2, <3>2, RadarStep DEF Next, OthersStay, ScansInv
    <3> QED
      BY <3>1, <3>2
  <2> QED
    BY <2>1, <2>2 DEF ScansInv
<1>3. ScansInv /\ [Next]_vars =>
        [/\ system = "scans" => Scan!EndedScansStay
         /\ system = "radar" => Radar!OutcomesGrow]_vars
  BY ScanStep, RadarStep DEF Next, OthersStay, ScansInv
<1> QED
  BY <1>1, <1>2, <1>3, PTL DEF Spec

\* Whatever the research refreshes find, fail at or die in, a completed run
\* reports as many findings as it stored rows, and a completed newest regime
\* run has classified as many stocks as have its regimes
\* (move_events.py, regime.py, drishti.py); and however
\* snapshots, replays, measurements and promotions of the reversal radar
\* follow and interrupt each other, a date becomes one hit and one candidate
\* and an outcome counts candles that exist (reversal_opportunities.py).
THEOREM Truthful == Spec => []ScansTruthful
<1>1. ScansInv => ScansTruthful
  BY RadarSafe DEF ScansInv, ScanInv, ScansTruthful, Scan!ScansTruthful
<1> QED
  BY <1>1, ScansInvariant, PTL

\* What a run ended with stays, and its rows; a measured outcome never loses
\* candles, whatever else the stores do (same files).
THEOREM ResearchKept ==
  Spec => [][/\ system = "scans" => Scan!EndedScansStay
             /\ system = "radar" => Radar!OutcomesGrow]_vars
BY ScansInvariant, PTL

-----------------------------------------------------------------------------
(* Labels and training jobs                                                  *)

W == ML_FUTURE_WINDOW_SESSIONS

\* The days of the bars b after d that are stored.
After(b, d) == {t \in DOMAIN b : b[t] # Labels!Missing /\ t > d}

Up(b, d, t) == b[t].high * 100 >= b[d].close * (100 + ML_TARGET_PERCENT)
Down(b, d, t) == b[t].low * 100 <= b[d].close * (100 - ML_STOP_PERCENT)

\* One of two barriers was reached first, and alone.
First(b, d, A(_, _, _), B(_, _, _)) ==
  \E t \in WindowOf(After(b, d), W) :
    /\ A(b, d, t) /\ ~B(b, d, t)
    /\ \A u \in WindowOf(After(b, d), W) : u < t => ~A(b, d, u) /\ ~B(b, d, u)

\* What a label claims of the bars b after d.
Says(label, b, d) ==
  /\ Cardinality(WindowOf(After(b, d), W)) = W /\ label \in Labels!Outcomes
  /\ label = "WIN" <=> First(b, d, Up, Down)
  /\ label = "LOSS" <=> First(b, d, Down, Up)
  /\ label = "TIMEOUT" <=> \A t \in WindowOf(After(b, d), W) : ~Up(b, d, t) /\ ~Down(b, d, t)

\* None of the days T of the symbol s that changed is of the window, or before it.
Clear(T, s, b, d, n) ==
  LET window == WindowOf(After(b, d), W)
  IN  \A t \in d .. n : <<s, t>> \in T => window # {} /\ \A u \in window : u < t

LEMMA LabelCounts == \A S : Labels!Cardinality(S) = Cardinality(S)
BY Zenon DEF Labels!Cardinality, Cardinality

LEMMA WindowSize == W \in Nat
BY OperationsAssumption DEF W

LEMMA WindowMoved ==
  ASSUME NEW n \in Nat, NEW F \in SUBSET (1 .. n), NEW x \in 1 .. n, x \notin F
  PROVE  /\ (\A u \in WindowOf(F \cup {x}, W) : u < x) => WindowOf(F \cup {x}, W) = WindowOf(F, W)
         /\ (\A u \in F : u < x) => WindowOf(F, W) \subseteq WindowOf(F \cup {x}, W)
         /\ (\A u \in F : u < x) /\ Cardinality(WindowOf(F, W)) = W =>
              WindowOf(F \cup {x}, W) = WindowOf(F, W)
BY WindowSize, WindowAdded

LEMMA AfterTyped ==
  ASSUME NEW X, NEW b \in Seq(X), NEW d
  PROVE  After(b, d) \in SUBSET (1 .. Len(b)) /\ Len(b) \in Nat /\ DOMAIN b = 1 .. Len(b)
BY DEF After

\* The same bars of the window, the same claim.
LEMMA SaysSame ==
  ASSUME NEW b, NEW c, NEW d, NEW label, WindowOf(After(c, d), W) = WindowOf(After(b, d), W), c[d] = b[d],
         \A t \in WindowOf(After(b, d), W) : c[t] = b[t], Says(label, b, d)
  PROVE  Says(label, c, d)
<1>1. \A t \in WindowOf(After(b, d), W) : (Up(c, d, t) <=> Up(b, d, t)) /\ (Down(c, d, t) <=> Down(b, d, t))
  BY Zenon DEF Up, Down
<1>2. First(c, d, Up, Down) <=> First(b, d, Up, Down)
  BY <1>1, Zenon DEF First
<1>3. First(c, d, Down, Up) <=> First(b, d, Down, Up)
  BY <1>1, Zenon DEF First
<1> QED
  BY <1>1, <1>2, <1>3, Zenon DEF Says

\* A day that comes changes no full window, and clears nothing.
LEMMA DayCame ==
  ASSUME NEW X, NEW b \in Seq(X), NEW x \in X, NEW c, c = Append(b, x), NEW d \in DOMAIN b,
         NEW T, NEW s, NEW label
  PROVE  /\ Says(label, b, d) => Says(label, c, d)
         /\ Clear(T, s, c, d, Len(c)) => Clear(T, s, b, d, Len(b))
<1> DEFINE n == Len(b)
           F == After(b, d)
<1>1. /\ n \in Nat /\ DOMAIN b = 1 .. n /\ F \in SUBSET (1 .. n) /\ d \in 1 .. n /\ F \in SUBSET (1 .. (n + 1))
  BY AfterTyped
<1>2. /\ Len(c) = n + 1 /\ DOMAIN c = 1 .. (n + 1) /\ c[n + 1] = x
      /\ \A t \in 1 .. n : c[t] = b[t]
  OBVIOUS
<1>3. \/ After(c, d) = F
      \/ After(c, d) = F \cup {n + 1}
  BY <1>1, <1>2 DEF After
<1>4. /\ WindowOf(F, W) \subseteq F /\ WindowOf(F, W) \subseteq 1 .. n /\ n + 1 \in 1 .. (n + 1) /\ n + 1 \notin F
      /\ (\A u \in F : u < n + 1) /\ n + 1 \in Nat
  BY <1>1 DEF WindowOf
<1> HIDE DEF n, F
<1>5. ASSUME Says(label, b, d) PROVE Says(label, c, d)
  <2>1. Cardinality(WindowOf(F, W)) = W
    BY <1>5 DEF Says, F
  <2>2. WindowOf(F \cup {n + 1}, W) = WindowOf(F, W)
    BY <1>1, <1>4, <2>1, WindowMoved
  <2>3. WindowOf(After(c, d), W) = WindowOf(F, W)
    BY <1>3, <2>2
  <2> QED
    BY <1>1, <1>2, <1>4, <1>5, <2>3, SaysSame DEF F
<1>6. ASSUME Clear(T, s, c, d, n + 1), NEW t \in d .. n, <<s, t>> \in T
      PROVE  WindowOf(F, W) # {} /\ \A u \in WindowOf(F, W) : u < t
  <2>1. t \in d .. (n + 1) /\ t \in Nat /\ t < n + 1
    BY <1>1, <1>6
  <2>2. WindowOf(After(c, d), W) # {} /\ \A u \in WindowOf(After(c, d), W) : u < t
    BY <1>6, <2>1 DEF Clear
  <2>3. CASE After(c, d) = F
    BY <2>2, <2>3
  <2>4. CASE After(c, d) = F \cup {n + 1}
    <3>1. WindowOf(F \cup {n + 1}, W) \subseteq F \cup {n + 1}
      BY DEF WindowOf
    <3>2. ASSUME NEW u \in WindowOf(F \cup {n + 1}, W) PROVE u < n + 1
      <4>1. u \in Nat
        <5>1. u \in F \/ u = n + 1
          BY <3>1
        <5>2. \A v \in F : v \in Nat
          BY <1>1
        <5> QED
          BY <1>4, <5>1, <5>2
      <4>2. u < t
        BY <2>2, <2>4
      <4> QED
        BY <1>1, <2>1, <4>1, <4>2
    <3>3. WindowOf(F \cup {n + 1}, W) = WindowOf(F, W)
      <4>1. \A m \in Nat : F \in SUBSET (1 .. m) /\ n + 1 \in 1 .. m =>
              WindowOf(F \cup {n + 1}, W) = WindowOf(F, W)
        BY <1>4, <3>2, WindowMoved
      <4> QED
        BY <1>1, <1>4, <4>1
    <3> QED
      BY <2>2, <2>4, <3>3
  <2> QED
    BY <1>3, <2>3, <2>4
<1>7. ASSUME Clear(T, s, c, d, n + 1) PROVE Clear(T, s, b, d, n)
  BY <1>6, <1>7 DEF Clear, F
<1> QED
  BY <1>2, <1>5, <1>7 DEF n

\* A day that changed leaves every label it does not reach.
LEMMA DayChanged ==
  ASSUME NEW X, NEW b \in Seq(X), NEW x \in X, x # Labels!Missing, NEW e \in DOMAIN b,
         NEW c, c = [b EXCEPT ![e] = x], NEW d \in DOMAIN b,
         NEW T, NEW V, V \subseteq T, NEW s, <<s, e>> \in T, NEW label, Clear(T, s, c, d, Len(c))
  PROVE  Clear(V, s, b, d, Len(b)) /\ (Says(label, b, d) => Says(label, c, d))
<1> DEFINE n == Len(b)
           F == After(b, d)
<1>1. /\ n \in Nat /\ DOMAIN b = 1 .. n /\ F \in SUBSET (1 .. n) /\ d \in 1 .. n /\ e \in 1 .. n
      /\ WindowOf(F, W) \subseteq F
  BY AfterTyped DEF WindowOf
<1>2. /\ Len(c) = n /\ DOMAIN c = 1 .. n /\ c[e] = x /\ \A t \in 1 .. n : t # e => c[t] = b[t]
  OBVIOUS
<1>3. After(c, d) = IF e > d THEN F \cup {e} ELSE F
  BY <1>1, <1>2 DEF After
<1>4. WindowOf(After(c, d), W) \subseteq After(c, d) /\ \A u \in After(c, d) : u > d /\ u \in Nat
  BY <1>1, <1>2 DEF WindowOf, After
<1>5. e < d \/ (e > d /\ \A u \in WindowOf(After(c, d), W) : u < e)
  <2>1. CASE e < d
    BY <2>1
  <2>2. CASE ~(e < d)
    <3>1. e \in d .. n
      BY <1>1, <2>2
    <3>2. WindowOf(After(c, d), W) # {} /\ \A u \in WindowOf(After(c, d), W) : u < e
      BY <1>2, <3>1 DEF Clear
    <3>3. PICK u \in WindowOf(After(c, d), W) : u > d /\ u \in Nat /\ u < e
      BY <1>4, <3>2
    <3>4. d < e
      <4>1. d \in Nat /\ e \in Nat
        BY <1>1
      <4> QED
        BY <3>3, <4>1
    <3> QED
      BY <3>2, <3>4
  <2> QED
    BY <2>1, <2>2
<1> HIDE DEF n, F
<1>6. WindowOf(After(c, d), W) = WindowOf(F, W) /\ e \notin WindowOf(F, W) /\ e # d
  <2>1. CASE e < d
    <3>1. d \in Nat /\ e \in Nat /\ ~(e > d) /\ e # d
      BY <1>1, <2>1
    <3>2. After(c, d) = F
      BY <1>3, <3>1
    <3>3. e \notin F
      BY <1>4, <3>1, <3>2
    <3> QED
      BY <1>1, <3>1, <3>2, <3>3
  <2>2. CASE e > d /\ \A u \in WindowOf(After(c, d), W) : u < e
    <3>1. After(c, d) = F \cup {e}
      BY <1>3, <2>2
    <3>2. WindowOf(F \cup {e}, W) = WindowOf(F, W)
      <4>1. CASE e \in F
        <5>1. F \cup {e} = F
          BY <4>1
        <5> QED
          BY <5>1
      <4>2. CASE e \notin F
        BY <1>1, <2>2, <3>1, <4>2, WindowMoved
      <4> QED
        BY <4>1, <4>2
    <3>3. e \in Nat /\ d \in Nat /\ ~(e < e) /\ e # d
      BY <1>1, <2>2
    <3>4. \A u \in WindowOf(F, W) : u < e
      BY <2>2, <3>1, <3>2, Zenon
    <3>5. e \notin WindowOf(F, W)
      BY <3>3, <3>4, Zenon
    <3> QED
      BY <3>1, <3>2, <3>3, <3>5, Zenon
  <2> QED
    BY <1>5, <2>1, <2>2
<1>7. Clear(V, s, b, d, n)
  BY <1>2, <1>6 DEF Clear, F
<1>8. ASSUME Says(label, b, d) PROVE Says(label, c, d)
  <2>1. \A t \in WindowOf(F, W) : c[t] = b[t]
    BY <1>1, <1>2, <1>6
  <2>2. c[d] = b[d]
    BY <1>1, <1>2, <1>6
  <2> QED
    BY <1>6, <1>8, <2>1, <2>2, SaysSame DEF F
<1> QED
  BY <1>7, <1>8 DEF n

\* The labels of the code in these terms.
LEMMA FutureWindow ==
  ASSUME NEW s, NEW d
  PROVE  /\ Labels!Future(s, d) = WindowOf(After(book[s], d), W)
         /\ Labels!Future(s, d)' = WindowOf(After(book'[s], d), W)
<1>1. \A F : {t \in F : Labels!Cardinality({u \in F : u <= t}) <= W} = WindowOf(F, W)
  BY LabelCounts DEF WindowOf, Rank, UpTo
<1>2. Labels!FutureDays(s, d) = After(book[s], d)
  BY DEF Labels!FutureDays, Labels!StoredDays, After
<1>3. Labels!FutureDays(s, d)' = After(book'[s], d)
  BY DEF Labels!FutureDays, Labels!StoredDays, After
<1>4. Labels!Future(s, d) = {t \in Labels!FutureDays(s, d) :
                               Labels!Cardinality({u \in Labels!FutureDays(s, d) : u <= t}) <= W}
  BY Zenon DEF Labels!Future, W
<1>5. Labels!Future(s, d)' = {t \in Labels!FutureDays(s, d)' :
                                Labels!Cardinality({u \in Labels!FutureDays(s, d)' : u <= t}) <= W}
  BY Zenon DEF Labels!Future, W
<1> QED
  BY <1>1, <1>2, <1>3, <1>4, <1>5, Zenon

\* The claim with the window and the bars as parameters.
ClaimsOf(label, b, d, window) ==
  /\ Cardinality(window) = W /\ label \in Labels!Outcomes
  /\ label = "WIN" <=> \E t \in window :
       /\ Up(b, d, t) /\ ~Down(b, d, t)
       /\ \A u \in {v \in window : v < t} : ~Up(b, d, u) /\ ~Down(b, d, u)
  /\ label = "LOSS" <=> \E t \in window :
       /\ Down(b, d, t) /\ ~Up(b, d, t)
       /\ \A u \in {v \in window : v < t} : ~Down(b, d, u) /\ ~Up(b, d, u)
  /\ label = "TIMEOUT" <=> \A t \in window : ~Up(b, d, t) /\ ~Down(b, d, t)

LEMMA ClaimsOfWindow ==
  ASSUME NEW label, NEW b, NEW d
  PROVE  ClaimsOf(label, b, d, WindowOf(After(b, d), W)) <=> Says(label, b, d)
<1>1. PICK window : window = WindowOf(After(b, d), W)
  OBVIOUS
<1>2. \A t, u : u \in {v \in window : v < t} <=> u \in window /\ u < t
  OBVIOUS
<1>3. First(b, d, Up, Down) <=>
        \E t \in window : /\ Up(b, d, t) /\ ~Down(b, d, t)
                          /\ \A u \in {v \in window : v < t} : ~Up(b, d, u) /\ ~Down(b, d, u)
  BY <1>1, <1>2 DEF First
<1>4. First(b, d, Down, Up) <=>
        \E t \in window : /\ Down(b, d, t) /\ ~Up(b, d, t)
                          /\ \A u \in {v \in window : v < t} : ~Down(b, d, u) /\ ~Up(b, d, u)
  BY <1>1, <1>2 DEF First
<1> QED
  BY <1>1, <1>3, <1>4 DEF ClaimsOf, Says

LEMMA ClaimsSays ==
  ASSUME NEW label, NEW s, NEW d
  PROVE  /\ Labels!Claims(label, s, d) <=> Says(label, book[s], d)
         /\ Labels!Claims(label, s, d)' <=> Says(label, book'[s], d)
<1>1. Labels!Claims(label, s, d) <=> ClaimsOf(label, book[s], d, Labels!Future(s, d))
  BY LabelCounts DEF Labels!Claims, ClaimsOf, Up, Down, W
<1>2. Labels!Claims(label, s, d)' <=> ClaimsOf(label, book'[s], d, Labels!Future(s, d)')
  BY LabelCounts DEF Labels!Claims, ClaimsOf, Up, Down, W
<1> QED
  BY <1>1, <1>2, FutureWindow, ClaimsOfWindow

\* Verdict on the first day that reached a barrier.
LEMMA ClassifySays ==
  ASSUME NEW X, NEW s, book[s] \in Seq(X), NEW d,
         Labels!classify_outcome(s, d) # Labels!Insufficient
  PROVE  Says(Labels!classify_outcome(s, d), book[s], d)
<1>1. PICK b : b = book[s]
  OBVIOUS
<1>2. PICK window : window = WindowOf(After(b, d), W)
  OBVIOUS
<1>3. PICK reached : reached = {t \in window : Up(b, d, t) \/ Down(b, d, t)}
  OBVIOUS
<1>4. PICK hit : hit = Labels!FirstOf(reached)
  OBVIOUS
<1>5. PICK label : label = Labels!classify_outcome(s, d)
  OBVIOUS
<1>6. /\ Cardinality(window) \in Nat /\ Cardinality(window) <= W /\ window \subseteq Nat
  <2>1. After(b, d) \in SUBSET (1 .. Len(b)) /\ Len(b) \in Nat
    BY <1>1, AfterTyped
  <2>2. Cardinality(window) \in Nat /\ Cardinality(window) <= W
    BY <1>2, <2>1, RankTyped, WindowSmall, WindowSize
  <2>3. window \subseteq Nat
    BY <1>2, <2>1 DEF WindowOf
  <2> QED
    BY <2>2, <2>3
<1>7. label = CASE Cardinality(window) < W -> Labels!Insufficient
                [] Cardinality(window) = W /\ reached = {} -> "TIMEOUT"
                [] OTHER -> CASE Up(b, d, hit) /\ Down(b, d, hit) -> "AMBIGUOUS"
                              [] Up(b, d, hit) /\ ~Down(b, d, hit) -> "WIN"
                              [] OTHER -> "LOSS"
  <2>1. Labels!Future(s, d) = window
    BY <1>1, <1>2, FutureWindow
  <2> QED
    BY <1>1, <1>3, <1>4, <1>5, <2>1, LabelCounts, Zenon DEF Labels!classify_outcome, Up, Down, W
<1>8. Cardinality(window) = W
  <2>1. W \in Nat
    BY OperationsAssumption DEF W
  <2>2. ~(Cardinality(window) < W)
    BY <1>5, <1>6, <1>7, <2>1
  <2> QED
    BY <1>6, <2>1, <2>2
<1>9. CASE reached = {}
  <2>1. label = "TIMEOUT"
    <3>1. ~(Cardinality(window) < W)
      BY <1>6, <1>8
    <3> QED
      BY <1>7, <1>8, <1>9, <3>1
  <2>2. \A t \in window : ~Up(b, d, t) /\ ~Down(b, d, t)
    BY <1>3, <1>9
  <2>3. ~First(b, d, Up, Down) /\ ~First(b, d, Down, Up)
    BY <1>2, <2>2 DEF First
  <2> QED
    BY <1>1, <1>2, <1>5, <1>8, <2>1, <2>2, <2>3 DEF Says, Labels!Outcomes
<1>10. CASE reached # {}
  <2>1. reached \in SUBSET Nat /\ \A t : t \in reached <=> t \in window /\ (Up(b, d, t) \/ Down(b, d, t))
    BY <1>3, <1>6
  <2>2. \E m \in reached : \A t \in reached : m <= t
    BY <1>10, <2>1, LeastNatural
  <2>3. hit \in reached /\ \A t \in reached : hit <= t
    BY <1>4, <2>2, Zenon DEF Labels!FirstOf
  <2>4. hit \in window /\ (Up(b, d, hit) \/ Down(b, d, hit))
    BY <2>1, <2>3
  <2>5. ASSUME NEW t \in window, t < hit PROVE ~Up(b, d, t) /\ ~Down(b, d, t)
    BY <1>6, <2>1, <2>3, <2>4, <2>5
  <2>6. ASSUME NEW t \in window, Up(b, d, t) \/ Down(b, d, t), t # hit PROVE hit < t
    BY <1>6, <2>1, <2>3, <2>4, <2>6
  <2>7. First(b, d, Up, Down) <=> Up(b, d, hit) /\ ~Down(b, d, hit)
    BY <1>2, <2>4, <2>5, <2>6, Zenon DEF First
  <2>8. First(b, d, Down, Up) <=> Down(b, d, hit) /\ ~Up(b, d, hit)
    BY <1>2, <2>4, <2>5, <2>6, Zenon DEF First
  <2>9. label = IF Up(b, d, hit) /\ Down(b, d, hit) THEN "AMBIGUOUS"
                ELSE IF Up(b, d, hit) THEN "WIN" ELSE "LOSS"
    BY <1>5, <1>7, <1>10
  <2>10. ~ \A t \in window : ~Up(b, d, t) /\ ~Down(b, d, t)
    BY <2>4
  <2>11. label \in Labels!Outcomes
    BY <2>9 DEF Labels!Outcomes
  <2>12. /\ label = "WIN" <=> Up(b, d, hit) /\ ~Down(b, d, hit)
         /\ label = "LOSS" <=> Down(b, d, hit) /\ ~Up(b, d, hit)
         /\ label # "TIMEOUT"
    BY <2>4, <2>9
  <2> QED
    BY <1>1, <1>2, <1>5, <1>8, <2>7, <2>8, <2>10, <2>11, <2>12 DEF Says
<1> QED
  BY <1>9, <1>10

BarType == UNION {Bars(s) : s \in Symbols} \cup {Labels!Missing}

BookTyped ==
  /\ book \in [Symbols -> Seq(BarType)]
  /\ \A s, t \in Symbols : Len(book[s]) = Len(book[t])

KeyFits(s, d) == s \in Symbols /\ d \in DOMAIN book[s]

\* A label of the day d claims what the bars b say, unless they changed.
HonestIn(label, b, s, d, T) == Clear(T, s, b, d, Len(b)) => Says(label, b, d)

SamplesHonest ==
  \A k \in DOMAIN samples :
    /\ k = <<k[1], k[2]>> /\ KeyFits(k[1], k[2])
    /\ samples[k] # Labels!Insufficient => HonestIn(samples[k], book[k[1]], k[1], k[2], touched)

ShadowHonest ==
  \A r \in DOMAIN shadow :
    /\ KeyFits(r[3], r[2])
    /\ shadow[r] # "OBSERVING" => HonestIn(shadow[r], book[r[3]], r[3], r[2], touched)

ResolvingHonest ==
  \A r \in DOMAIN resolving :
    /\ r \in DOMAIN shadow /\ shadow[r] = "OBSERVING"
    /\ HonestIn(resolving[r], book[r[3]], r[3], r[2], touched)

\* Every row is of a stored day of a symbol, and what it says, or is about to
\* say, holds of the bars as long as they are what was read.
LabelInv == BookTyped /\ SamplesHonest /\ ShadowHonest /\ ResolvingHonest

LEMMA LabelInit == Labels!Init => LabelInv
<1> SUFFICES ASSUME Labels!Init PROVE LabelInv
  OBVIOUS
<1>1. /\ book = [s \in Symbols |-> <<>>]
      /\ DOMAIN samples = {} /\ DOMAIN shadow = {} /\ DOMAIN resolving = {}
  BY DEF Labels!Init
<1>2. BookTyped
  BY <1>1 DEF BookTyped
<1> QED
  BY <1>1, <1>2, Zenon DEF LabelInv, SamplesHonest, ShadowHonest, ResolvingHonest

\* The bars change so that the labels given remain true of them, or of none.
BookGrows ==
  \A s, d : KeyFits(s, d) =>
    /\ KeyFits(s, d)'
    /\ \A label : HonestIn(label, book[s], s, d, touched) =>
                  HonestIn(label, book'[s], s, d, touched')

LEMMA BarsChange ==
  ASSUME LabelInv, BookTyped', BookGrows, UNCHANGED <<samples, shadow, resolving>>
  PROVE  LabelInv'
<1>0. samples' = samples /\ shadow' = shadow /\ resolving' = resolving
  OBVIOUS
<1>1. SamplesHonest'
  <2>1. SUFFICES ASSUME NEW k \in DOMAIN samples
        PROVE  /\ k = <<k[1], k[2]>> /\ KeyFits(k[1], k[2])'
               /\ samples[k] # Labels!Insufficient =>
                    HonestIn(samples[k], book'[k[1]], k[1], k[2], touched')
    BY <1>0, Zenon DEF SamplesHonest
  <2> QED
    BY <2>1, Zenon DEF LabelInv, SamplesHonest, BookGrows
<1>2. ShadowHonest'
  <2>1. SUFFICES ASSUME NEW r \in DOMAIN shadow
        PROVE  /\ KeyFits(r[3], r[2])'
               /\ shadow[r] # "OBSERVING" =>
                    HonestIn(shadow[r], book'[r[3]], r[3], r[2], touched')
    BY <1>0, Zenon DEF ShadowHonest
  <2> QED
    BY <2>1, Zenon DEF LabelInv, ShadowHonest, BookGrows
<1>3. ResolvingHonest'
  <2>1. SUFFICES ASSUME NEW r \in DOMAIN resolving
        PROVE  /\ r \in DOMAIN shadow /\ shadow[r] = "OBSERVING"
               /\ HonestIn(resolving[r], book'[r[3]], r[3], r[2], touched')
    BY <1>0, Zenon DEF ResolvingHonest
  <2>2. r \in DOMAIN shadow /\ shadow[r] = "OBSERVING" /\ KeyFits(r[3], r[2])
        /\ HonestIn(resolving[r], book[r[3]], r[3], r[2], touched)
    BY <2>1, Zenon DEF LabelInv, ResolvingHonest, ShadowHonest
  <2> QED
    BY <2>2, Zenon DEF BookGrows
<1> QED
  BY <1>1, <1>2, <1>3 DEF LabelInv

LEMMA NextDayStep ==
  ASSUME LabelInv, Labels!NextDay
  PROVE  LabelInv'
<1>1. PICK bar \in [Symbols -> BarType] :
        book' = [s \in Symbols |-> Append(book[s], bar[s])]
  BY Zenon DEF Labels!NextDay, BarType
<1>2. UNCHANGED <<samples, shadow, resolving>> /\ touched' = touched
  BY DEF Labels!NextDay
<1>3. BookTyped
  BY DEF LabelInv
<1>4. \A s \in Symbols : /\ book[s] \in Seq(BarType) /\ bar[s] \in BarType
                         /\ book'[s] = Append(book[s], bar[s])
  BY <1>1, <1>3 DEF BookTyped
<1> HIDE DEF BarType
<1>5. BookTyped'
  <2>1. \A s \in Symbols : book'[s] \in Seq(BarType) /\ Len(book'[s]) = Len(book[s]) + 1
    BY <1>4, SMTT(30)
  <2>2. book' \in [Symbols -> Seq(BarType)]
    BY <1>1, <2>1
  <2>3. \A s, t \in Symbols : Len(book'[s]) = Len(book'[t])
    BY <1>3, <2>1 DEF BookTyped
  <2> QED
    BY <2>2, <2>3 DEF BookTyped
<1>6. BookGrows
  <2> SUFFICES ASSUME NEW s, NEW d, KeyFits(s, d)
      PROVE  /\ KeyFits(s, d)'
             /\ \A label : HonestIn(label, book[s], s, d, touched) =>
                           HonestIn(label, book'[s], s, d, touched')
    BY Zenon DEF BookGrows
  <2>1. s \in Symbols /\ d \in DOMAIN book[s]
    BY DEF KeyFits
  <2>2. PICK b, c, x : b = book[s] /\ c = book'[s] /\ x = bar[s]
    OBVIOUS
  <2>3. b \in Seq(BarType) /\ x \in BarType /\ c = Append(b, x) /\ d \in DOMAIN b
    BY <1>4, <2>1, <2>2
  <2>4. d \in DOMAIN c
    BY <2>3
  <2>5. \A label : /\ Says(label, b, d) => Says(label, c, d)
                   /\ Clear(touched, s, c, d, Len(c)) => Clear(touched, s, b, d, Len(b))
    BY <2>3, DayCame
  <2>6. \A label : HonestIn(label, b, s, d, touched) => HonestIn(label, c, s, d, touched)
    BY <2>5, Zenon DEF HonestIn
  <2>7. KeyFits(s, d)'
    BY <2>1, <2>2, <2>4 DEF KeyFits
  <2> QED
    BY <1>2, <2>2, <2>6, <2>7
<1> QED
  BY <1>2, <1>5, <1>6, BarsChange

LEMMA RetouchStep ==
  ASSUME LabelInv, NEW s \in Symbols, Labels!Retouch(s)
  PROVE  LabelInv'
<1>1. PICK e \in DOMAIN book[s], bar \in Bars(s) :
        book' = [book EXCEPT ![s][e] = bar] /\ touched' = touched \cup {<<s, e>>}
  BY Zenon DEF Labels!Retouch
<1>2. UNCHANGED <<samples, shadow, resolving>>
  BY DEF Labels!Retouch
<1>3. BookTyped
  BY DEF LabelInv
<1>4. bar \in BarType /\ bar # Labels!Missing
  <2>1. bar.volume >= 0
    BY OperationsAssumption
  <2>2. Labels!Missing.volume = -1
    BY DEF Labels!Missing
  <2>3. bar # Labels!Missing
    BY <2>1, <2>2
  <2> QED
    BY <2>3 DEF BarType
<1> HIDE DEF BarType
<1>5. PICK b, c : b = book[s] /\ c = book'[s]
  OBVIOUS
<1>6. /\ b \in Seq(BarType) /\ c = [b EXCEPT ![e] = bar] /\ e \in DOMAIN b
      /\ \A t \in Symbols : t # s => book'[t] = book[t]
      /\ book' = [book EXCEPT ![s] = c]
  BY <1>1, <1>3, <1>5 DEF BookTyped
<1>7. c \in Seq(BarType) /\ Len(c) = Len(b) /\ DOMAIN c = DOMAIN b
  BY <1>4, <1>6
<1>8. BookTyped'
  <2>1. book' \in [Symbols -> Seq(BarType)]
    BY <1>3, <1>6, <1>7 DEF BookTyped
  <2>2. \A t \in Symbols : Len(book'[t]) = Len(book[t])
    BY <1>5, <1>6, <1>7
  <2> QED
    BY <1>3, <2>1, <2>2 DEF BookTyped
<1>9. BookGrows
  <2> SUFFICES ASSUME NEW u, NEW d, KeyFits(u, d)
      PROVE  /\ KeyFits(u, d)'
             /\ \A label : HonestIn(label, book[u], u, d, touched) =>
                           HonestIn(label, book'[u], u, d, touched')
    BY Zenon DEF BookGrows
  <2>1. u \in Symbols /\ d \in DOMAIN book[u]
    BY DEF KeyFits
  <2>2. touched \subseteq touched' /\ <<s, e>> \in touched'
    BY <1>1
  <2>3. CASE u = s
    <3>1. d \in DOMAIN b /\ d \in DOMAIN c
      BY <1>5, <1>7, <2>1, <2>3
    <3>2. ASSUME NEW label, Clear(touched', s, c, d, Len(c)) 
          PROVE  Clear(touched, s, b, d, Len(b)) /\ (Says(label, b, d) => Says(label, c, d))
      BY <1>4, <1>6, <2>2, <3>1, <3>2, DayChanged
    <3>3. \A label : HonestIn(label, b, s, d, touched) => HonestIn(label, c, s, d, touched')
      BY <3>2, Zenon DEF HonestIn
    <3>4. KeyFits(u, d)'
      BY <1>5, <2>1, <2>3, <3>1 DEF KeyFits
    <3> QED
      BY <1>5, <2>3, <3>3, <3>4
  <2>4. CASE u # s
    <3>1. book'[u] = book[u]
      BY <1>6, <2>1, <2>4
    <3>2. Clear(touched', u, book[u], d, Len(book[u])) => Clear(touched, u, book[u], d, Len(book[u]))
      BY <2>2 DEF Clear
    <3>3. \A label : HonestIn(label, book[u], u, d, touched) => HonestIn(label, book[u], u, d, touched')
      BY <3>2, Zenon DEF HonestIn
    <3>4. KeyFits(u, d)'
      BY <2>1, <3>1 DEF KeyFits
    <3> QED
      BY <3>1, <3>3, <3>4
  <2> QED
    BY <2>3, <2>4
<1> QED
  BY <1>2, <1>8, <1>9, BarsChange

LEMMA GenerateStep ==
  ASSUME LabelInv, NEW s \in Symbols, Labels!Generate(s)
  PROVE  LabelInv' /\ Labels!LabelsStay
<1>1. PICK open : open = {t \in Labels!SampledDays(s) : ~Labels!Locked(s, t)}
  OBVIOUS
<1>2. samples' = [k \in DOMAIN samples \cup {<<s, t>> : t \in open} |->
                    IF k[1] = s /\ k[2] \in open THEN Labels!classify_outcome(s, k[2]) ELSE samples[k]]
  BY <1>1, Zenon DEF Labels!Generate
<1>3. UNCHANGED <<book, shadow, resolving, touched>>
  BY DEF Labels!Generate
<1>4. \A t \in open : KeyFits(s, t)
  <2>1. \A t \in open : t \in DOMAIN book[s]
    BY <1>1 DEF Labels!SampledDays, Labels!StoredDays
  <2> QED
    BY <2>1 DEF KeyFits
<1>5. book[s] \in Seq(BarType)
  BY DEF LabelInv, BookTyped
<1>6. SamplesHonest'
  <2>1. SUFFICES ASSUME NEW k \in DOMAIN samples'
        PROVE  /\ k = <<k[1], k[2]>> /\ KeyFits(k[1], k[2])
               /\ samples'[k] # Labels!Insufficient =>
                    HonestIn(samples'[k], book[k[1]], k[1], k[2], touched)
    BY <1>3, Zenon DEF SamplesHonest, KeyFits
  <2>2. \/ k = <<s, k[2]>> /\ k[2] \in open /\ samples'[k] = Labels!classify_outcome(s, k[2])
        \/ k \in DOMAIN samples /\ samples'[k] = samples[k]
    <3>1. k \in DOMAIN samples \/ \E t \in open : k = <<s, t>>
      BY <1>2, <2>1
    <3>2. samples'[k] = IF k[1] = s /\ k[2] \in open THEN Labels!classify_outcome(s, k[2]) ELSE samples[k]
      BY <1>2, <2>1
    <3>3. CASE k \in DOMAIN samples
      <4>1. k = <<k[1], k[2]>>
        BY <3>3 DEF LabelInv, SamplesHonest
      <4> QED
        BY <3>2, <3>3, <4>1
    <3>4. CASE \E t \in open : k = <<s, t>>
      BY <3>2, <3>4
    <3> QED
      BY <3>1, <3>3, <3>4
  <2>3. CASE k \in DOMAIN samples /\ samples'[k] = samples[k]
    BY <2>3, Zenon DEF LabelInv, SamplesHonest
  <2>4. CASE k = <<s, k[2]>> /\ k[2] \in open /\ samples'[k] = Labels!classify_outcome(s, k[2])
    <3>1. KeyFits(k[1], k[2]) /\ k[1] = s /\ k = <<k[1], k[2]>>
      BY <1>4, <2>4
    <3>2. Labels!classify_outcome(s, k[2]) # Labels!Insufficient =>
            Says(Labels!classify_outcome(s, k[2]), book[s], k[2])
      BY <1>5, ClassifySays
    <3> QED
      BY <2>4, <3>1, <3>2 DEF HonestIn
  <2> QED
    BY <2>2, <2>3, <2>4
<1>7. BookTyped' /\ ShadowHonest' /\ ResolvingHonest'
  BY <1>3 DEF LabelInv, BookTyped, ShadowHonest, ResolvingHonest, KeyFits
<1>8. ASSUME NEW k \in DOMAIN samples, samples[k] # Labels!Insufficient
      PROVE  k \in DOMAIN samples' /\ samples'[k] = samples[k]
  <2>1. k \in DOMAIN samples'
    BY <1>2
  <2>2. ~(k[1] = s /\ k[2] \in open)
    <3>1. SUFFICES ASSUME k[1] = s, k[2] \in open PROVE FALSE
      OBVIOUS
    <3>2. ~Labels!Locked(s, k[2])
      BY <1>1, <3>1
    <3>3. k = <<s, k[2]>>
      BY <3>1 DEF LabelInv, SamplesHonest
    <3> QED
      BY <1>8, <3>2, <3>3, Zenon DEF Labels!Locked
  <2> QED
    BY <1>2, <2>1, <2>2
<1> QED
  BY <1>3, <1>6, <1>7, <1>8 DEF LabelInv, Labels!LabelsStay

LEMMA TrackStep ==
  ASSUME LabelInv, NEW m \in Models, Labels!Track(m)
  PROVE  LabelInv' /\ Labels!LabelsStay
<1>1. PICK day \in 1 .. Labels!Days, picked \in Symbols :
        /\ <<picked, day>> \in DOMAIN samples
        /\ shadow' = [r \in DOMAIN shadow \cup {<<m, day, picked>>} |->
                        IF r \in DOMAIN shadow THEN shadow[r] ELSE "OBSERVING"]
  BY Zenon DEF Labels!Track
<1>2. UNCHANGED <<book, samples, resolving, touched>>
  BY DEF Labels!Track
<1>3. \A r \in DOMAIN shadow : r \in DOMAIN shadow' /\ shadow'[r] = shadow[r]
  BY <1>1
<1>4. KeyFits(picked, day)
  BY <1>1 DEF LabelInv, SamplesHonest
<1>5. ShadowHonest'
  <2>1. SUFFICES ASSUME NEW r \in DOMAIN shadow'
        PROVE  /\ KeyFits(r[3], r[2])
               /\ shadow'[r] # "OBSERVING" => HonestIn(shadow'[r], book[r[3]], r[3], r[2], touched)
    BY <1>2, Zenon DEF ShadowHonest, KeyFits
  <2>2. CASE r \in DOMAIN shadow
    BY <1>3, <2>2, Zenon DEF LabelInv, ShadowHonest
  <2>3. CASE r \notin DOMAIN shadow
    <3>1. r = <<m, day, picked>> /\ shadow'[r] = "OBSERVING"
      BY <1>1, <2>1, <2>3
    <3> QED
      BY <1>4, <3>1
  <2> QED
    BY <2>2, <2>3
<1>6. ResolvingHonest'
  BY <1>2, <1>3 DEF LabelInv, ResolvingHonest
<1>7. BookTyped' /\ SamplesHonest'
  BY <1>2 DEF LabelInv, BookTyped, SamplesHonest, KeyFits
<1> QED
  BY <1>2, <1>3, <1>5, <1>6, <1>7 DEF LabelInv, Labels!LabelsStay

LEMMA ClassifyStep ==
  ASSUME LabelInv, Labels!Classify
  PROVE  LabelInv' /\ Labels!LabelsStay
<1>1. PICK models, days :
        resolving' = [r \in {q \in Labels!Observing(models, days) : Labels!Ready(q)} |->
                        Labels!classify_outcome(r[3], r[2])]
  BY Zenon DEF Labels!Classify
<1>2. UNCHANGED <<book, samples, shadow, touched>>
  BY DEF Labels!Classify
<1>3. ASSUME NEW r \in DOMAIN resolving'
      PROVE  /\ r \in DOMAIN shadow /\ shadow[r] = "OBSERVING"
             /\ HonestIn(resolving'[r], book[r[3]], r[3], r[2], touched)
  <2>1. /\ r \in DOMAIN shadow /\ shadow[r] = "OBSERVING"
        /\ Labels!classify_outcome(r[3], r[2]) # Labels!Insufficient
    BY <1>1, <1>3 DEF Labels!Observing, Labels!Ready
  <2>2. resolving'[r] = Labels!classify_outcome(r[3], r[2])
    BY <1>1, <1>3
  <2>3. KeyFits(r[3], r[2]) /\ BookTyped
    BY <2>1 DEF LabelInv, ShadowHonest
  <2>4. book[r[3]] \in Seq(BarType)
    BY <2>3 DEF KeyFits, BookTyped
  <2>5. Says(resolving'[r], book[r[3]], r[2])
    BY <2>1, <2>2, <2>4, ClassifySays
  <2> QED
    BY <2>1, <2>5 DEF HonestIn
<1>4. ResolvingHonest'
  BY <1>2, <1>3 DEF ResolvingHonest
<1>5. BookTyped' /\ SamplesHonest' /\ ShadowHonest'
  BY <1>2 DEF LabelInv, BookTyped, SamplesHonest, ShadowHonest, KeyFits
<1> QED
  BY <1>2, <1>4, <1>5 DEF LabelInv, Labels!LabelsStay

LEMMA WriteOutcomeStep ==
  ASSUME LabelInv, Labels!WriteOutcome
  PROVE  LabelInv' /\ Labels!LabelsStay
<1>1. PICK r \in DOMAIN resolving :
        /\ shadow' = [shadow EXCEPT ![r] = resolving[r]]
        /\ resolving' = [q \in DOMAIN resolving \ {r} |-> resolving[q]]
        /\ UNCHANGED <<book, samples, touched>>
  BY Zenon DEF Labels!WriteOutcome
<1>2. /\ r \in DOMAIN shadow /\ shadow[r] = "OBSERVING"
      /\ HonestIn(resolving[r], book[r[3]], r[3], r[2], touched)
  BY <1>1 DEF LabelInv, ResolvingHonest
<1>3. /\ DOMAIN shadow' = DOMAIN shadow /\ shadow'[r] = resolving[r]
      /\ \A q \in DOMAIN shadow : q # r => shadow'[q] = shadow[q]
  BY <1>1, <1>2
<1>4. /\ DOMAIN resolving' = DOMAIN resolving \ {r}
      /\ \A q \in DOMAIN resolving' : resolving'[q] = resolving[q]
  BY <1>1
<1>5. ShadowHonest'
  <2>1. \A q \in DOMAIN shadow : KeyFits(q[3], q[2])'
    BY <1>1 DEF LabelInv, ShadowHonest, KeyFits
  <2>2. \A q \in DOMAIN shadow : shadow'[q] # "OBSERVING" =>
          HonestIn(shadow'[q], book[q[3]], q[3], q[2], touched)
    BY <1>2, <1>3, Zenon DEF LabelInv, ShadowHonest
  <2> QED
    BY <1>1, <1>3, <2>1, <2>2 DEF ShadowHonest
<1>6. ResolvingHonest'
  <2>1. \A q \in DOMAIN resolving' :
          /\ q \in DOMAIN shadow' /\ shadow'[q] = "OBSERVING"
          /\ HonestIn(resolving'[q], book[q[3]], q[3], q[2], touched)
    BY <1>3, <1>4 DEF LabelInv, ResolvingHonest
  <2> QED
    BY <1>1, <2>1 DEF ResolvingHonest
<1>7. BookTyped' /\ SamplesHonest'
  BY <1>1 DEF LabelInv, BookTyped, SamplesHonest, KeyFits
<1> QED
  BY <1>1, <1>2, <1>3, <1>5, <1>6, <1>7 DEF LabelInv, Labels!LabelsStay

LEMMA ResolverDiesStep ==
  ASSUME LabelInv, Labels!ResolverDies
  PROVE  LabelInv' /\ Labels!LabelsStay
<1>1. UNCHANGED <<book, samples, shadow, touched>> /\ DOMAIN resolving' = {}
  BY DEF Labels!ResolverDies
<1>2. ResolvingHonest'
  BY <1>1 DEF ResolvingHonest
<1>3. BookTyped' /\ SamplesHonest' /\ ShadowHonest'
  BY <1>1 DEF LabelInv, BookTyped, SamplesHonest, ShadowHonest, KeyFits
<1> QED
  BY <1>1, <1>2, <1>3 DEF LabelInv, Labels!LabelsStay

LEMMA LabelStep ==
  ASSUME LabelInv, Labels!Next
  PROVE  LabelInv' /\ Labels!LabelsStay
<1>1. ASSUME UNCHANGED <<samples, shadow>> PROVE Labels!LabelsStay
  BY <1>1 DEF Labels!LabelsStay
<1>2. CASE Labels!NextDay
  <2>1. UNCHANGED <<samples, shadow>>
    BY <1>2 DEF Labels!NextDay
  <2> QED
    BY <1>1, <1>2, <2>1, NextDayStep
<1>3. ASSUME NEW s \in Symbols, Labels!Retouch(s) PROVE LabelInv' /\ Labels!LabelsStay
  <2>1. UNCHANGED <<samples, shadow>>
    BY <1>3 DEF Labels!Retouch
  <2> QED
    BY <1>1, <1>3, <2>1, RetouchStep
<1> QED
  BY <1>2, <1>3, GenerateStep, TrackStep, ClassifyStep, WriteOutcomeStep, ResolverDiesStep
     DEF Labels!Next

\* A day after the last one of a window is after all of it.
LEMMA UntouchedClear ==
  ASSUME LabelInv, NEW s, NEW d, KeyFits(s, d)
  PROVE  Labels!Untouched(s, d) => Clear(touched, s, book[s], d, Len(book[s]))
<1>1. PICK b : b = book[s]
  OBVIOUS
<1>2. PICK window : window = WindowOf(After(b, d), W)
  OBVIOUS
<1>3. b \in Seq(BarType) /\ Labels!Days = Len(b)
  <2>1. s \in Symbols /\ Symbols # {}
    BY DEF KeyFits
  <2>2. (CHOOSE t \in Symbols : TRUE) \in Symbols
    BY <2>1
  <2>3. Labels!Days = Len(book[CHOOSE t \in Symbols : TRUE])
    BY <2>1 DEF Labels!Days
  <2> QED
    BY <1>1, <2>1, <2>2, <2>3 DEF LabelInv, BookTyped
<1>4. window \in SUBSET Nat /\ IsFiniteSet(window)
  <2>1. After(b, d) \in SUBSET (1 .. Len(b)) /\ Len(b) \in Nat
    BY <1>3, AfterTyped
  <2>2. IsFiniteSet(window)
    BY <1>2, <2>1, RankTyped
  <2> QED
    BY <1>2, <2>1, <2>2 DEF WindowOf
<1>5. Labels!Untouched(s, d) <=>
        \A t \in d .. Len(b) : <<s, t>> \in touched => window # {} /\ t > Labels!LastOf(window)
  BY <1>1, <1>2, <1>3, FutureWindow, Zenon DEF Labels!Untouched
<1>6. ASSUME window # {} PROVE Labels!LastOf(window) \in window /\ \A u \in window : u <= Labels!LastOf(window)
  <2>1. \E m \in window : \A u \in window : u <= m
    BY <1>4, <1>6, GreatestFinite
  <2> QED
    BY <2>1, Zenon DEF Labels!LastOf
<1>7. ASSUME Labels!Untouched(s, d), NEW t \in d .. Len(b), <<s, t>> \in touched
      PROVE  window # {} /\ \A u \in window : u < t
  <2>1. window # {} /\ t > Labels!LastOf(window)
    BY <1>5, <1>7
  <2>2. PICK z : z = Labels!LastOf(window)
    OBVIOUS
  <2>3. z \in Nat /\ z < t /\ \A u \in window : u <= z
    BY <1>4, <1>6, <2>1, <2>2
  <2>4. t \in Int
    OBVIOUS
  <2> QED
    BY <1>4, <2>1, <2>3, <2>4
<1> QED
  BY <1>1, <1>2, <1>7 DEF Clear

LEMMA LabelSafe == LabelInv => Labels!LabelsHonest
<1> SUFFICES ASSUME LabelInv PROVE Labels!LabelsHonest
  OBVIOUS
<1>1. ASSUME NEW label, NEW s, NEW d, KeyFits(s, d), HonestIn(label, book[s], s, d, touched),
             Labels!Untouched(s, d)
      PROVE  Labels!Claims(label, s, d)
  <2>1. Says(label, book[s], d)
    BY <1>1, UntouchedClear DEF HonestIn
  <2> QED
    BY <2>1, ClaimsSays
<1> QED
  BY <1>1, Zenon DEF Labels!LabelsHonest, LabelInv, SamplesHonest, ShadowHonest

\* Every job but the newest has been cancelled.
JobInv ==
  /\ jobs \in Seq({"running", "paused", "cancelled"})
  /\ Jobs!ShownJobIsActive

LEMMA JobStep ==
  ASSUME JobInv, Jobs!Next
  PROVE  JobInv' /\ Jobs!CancelledStays
<1> DEFINE Status == {"running", "paused", "cancelled"}
           n == Len(jobs)
<1>1. jobs \in Seq(Status) /\ n \in Nat /\ DOMAIN jobs = 1 .. n
  BY DEF JobInv
<1>2. \A j \in DOMAIN jobs : j # n => jobs[j] = "cancelled"
  BY <1>1 DEF JobInv, Jobs!ShownJobIsActive, Jobs!Active
<1>3. CASE Jobs!start_training
  <2>1. Jobs!Active = {} /\ jobs' = Append(jobs, "running")
    BY <1>3 DEF Jobs!start_training
  <2>2. \A j \in DOMAIN jobs : jobs[j] = "cancelled"
    BY <1>1, <2>1 DEF Jobs!Active
  <2>3. /\ jobs' \in Seq(Status) /\ Len(jobs') = n + 1 /\ DOMAIN jobs' = 1 .. (n + 1)
        /\ \A j \in DOMAIN jobs : j \in DOMAIN jobs' /\ jobs'[j] = jobs[j]
    BY <1>1, <2>1
  <2>4. Jobs!ShownJobIsActive'
    BY <1>1, <2>2, <2>3 DEF Jobs!ShownJobIsActive, Jobs!Active
  <2> QED
    BY <2>3, <2>4 DEF JobInv, Jobs!CancelledStays
<1>4. ASSUME NEW allowed \in SUBSET {"running", "paused"}, NEW status \in Status,
             Jobs!Update(allowed, status)
      PROVE  JobInv' /\ Jobs!CancelledStays
  <2>1. PICK a : a = Jobs!active_job
    OBVIOUS
  <2>2. Jobs!Active # {} /\ jobs[a] \in allowed /\ jobs' = [jobs EXCEPT ![a] = status]
    BY <1>4, <2>1 DEF Jobs!Update
  <2>3. Jobs!Active = {n} /\ n \in 1 .. n
    BY <1>1, <2>2 DEF JobInv, Jobs!ShownJobIsActive, Jobs!Active
  <2>4. \E j \in Jobs!Active : \A k \in Jobs!Active : k <= j
    BY <1>1, <2>3
  <2>5. a \in Jobs!Active
    BY <2>1, <2>4, Zenon DEF Jobs!active_job
  <2>6. a = n /\ jobs[n] # "cancelled"
    BY <2>2, <2>3, <2>5
  <2>7. /\ jobs' \in Seq(Status) /\ Len(jobs') = n /\ DOMAIN jobs' = 1 .. n
        /\ \A j \in 1 .. n : j # n => jobs'[j] = jobs[j]
    <3>1. PICK S, m : S = Status /\ m = n
      OBVIOUS
    <3>2. jobs \in Seq(S) /\ status \in S /\ m \in 1 .. m /\ m \in Nat /\ Len(jobs) = m
      BY <1>1, <1>4, <2>3, <3>1
    <3>3. jobs' = [jobs EXCEPT ![m] = status]
      BY <2>2, <2>6, <3>1
    <3> HIDE DEF Status, n
    <3>4. /\ jobs' \in Seq(S) /\ Len(jobs') = m /\ DOMAIN jobs' = 1 .. m
          /\ \A j \in 1 .. m : j # m => jobs'[j] = jobs[j]
      BY <3>2, <3>3
    <3> QED
      BY <3>1, <3>4
  <2>8. Jobs!ShownJobIsActive'
    BY <1>1, <1>2, <2>7 DEF Jobs!ShownJobIsActive, Jobs!Active
  <2>9. Jobs!CancelledStays
    BY <1>1, <2>6, <2>7 DEF Jobs!CancelledStays
  <2> QED
    BY <2>7, <2>8, <2>9 DEF JobInv
<1> QED
  BY <1>3, <1>4 DEF Jobs!Next, Jobs!pause_training, Jobs!resume_training, Jobs!cancel_training

LEMMA JobInit == Jobs!Init => JobInv
BY DEF Jobs!Init, JobInv, Jobs!ShownJobIsActive, Jobs!Active

LabelsInv == (system = "labels" => LabelInv) /\ (system = "jobs" => JobInv)

LEMMA LabelsInvariant ==
  Spec => []LabelsInv /\ [][/\ system = "labels" => Labels!LabelsStay
                            /\ system = "jobs" => Jobs!CancelledStays]_vars
<1>1. Init => LabelsInv
  BY LabelInit, JobInit DEF Init, LabelsInv
<1>2. LabelsInv /\ [Next]_vars => LabelsInv'
  <2> SUFFICES ASSUME LabelsInv, [Next]_vars PROVE LabelsInv'
    OBVIOUS
  <2>1. ASSUME system' = "labels" PROVE LabelInv'
    <3>1. CASE UNCHANGED vars
      <4>1. system' = system /\ UNCHANGED <<book, samples, shadow, resolving, touched>>
        BY <3>1 DEF vars, labelVars
      <4>2. LabelInv
        BY <2>1, <4>1 DEF LabelsInv
      <4> QED
        BY <4>1, <4>2 DEF LabelInv, BookTyped, SamplesHonest, ShadowHonest, ResolvingHonest, KeyFits
    <3>2. CASE Next
      BY <2>1, <3>2, LabelStep DEF Next, OthersStay, LabelsInv
    <3> QED
      BY <3>1, <3>2
  <2>2. ASSUME system' = "jobs" PROVE JobInv'
    <3>1. CASE UNCHANGED vars
      BY <2>2, <3>1 DEF vars, LabelsInv, JobInv, Jobs!ShownJobIsActive, Jobs!Active
    <3>2. CASE Next
      BY <2>2, <3>2, JobStep DEF Next, OthersStay, LabelsInv
    <3> QED
      BY <3>1, <3>2
  <2> QED
    BY <2>1, <2>2 DEF LabelsInv
<1>3. LabelsInv /\ [Next]_vars =>
        [/\ system = "labels" => Labels!LabelsStay
         /\ system = "jobs" => Jobs!CancelledStays]_vars
  BY LabelStep, JobStep DEF Next, OthersStay, LabelsInv
<1> QED
  BY <1>1, <1>2, <1>3, PTL DEF Spec

\* Whatever candles come, are filled in late or corrected, and wherever the
\* resolver dies, a locked sample and a resolved shadow row claim the outcome
\* of the full window of the stored candles, unless one of it came or changed
\* after its day had gone by (ml_samples.py, resolve_shadow_outcomes.py); and
\* the training job the status page shows is the one the buttons act on
\* (ml_foundation.py).
THEOREM Honest == Spec => []LabelsHonest
<1>1. LabelsInv => LabelsHonest
  BY LabelSafe DEF LabelsInv, LabelsHonest, JobInv
<1> QED
  BY <1>1, LabelsInvariant, PTL

\* A label once given stays, and a cancelled job is never run again (same
\* files).
THEOREM LabelsKept ==
  Spec => [][/\ system = "labels" => Labels!LabelsStay
             /\ system = "jobs" => Jobs!CancelledStays]_vars
BY LabelsInvariant, PTL

-----------------------------------------------------------------------------
(* Reference data                                                            *)

Hashes ==
  {1} \cup UNION {{f[j].hash : j \in DOMAIN f} : f \in InstrumentFiles \cup ConstituentFiles}
ListingRow == [hash : Hashes, active : BOOLEAN, first : Nat, last : Nat]
CountType == [seen : Nat, inserted : Nat, updated : Nat, unchanged : Nat, deactivated : Nat]
ImportType == [table : Reference!Tables, done : BOOLEAN, error : BOOLEAN, stats : CountType]

TableTyped(rows) ==
  IsFiniteSet(DOMAIN rows) /\ \A k \in DOMAIN rows : rows[k] \in ListingRow

FileFits(table, file) ==
  \/ table = "instruments" /\ file \in InstrumentFiles
  \/ table = "constituents" /\ file \in ConstituentFiles

FirstSeen(rows, r) == {k \in DOMAIN rows : rows[k].first = r}
SeenBy(rows, n) == \A k \in DOMAIN rows : rows[k].first <= n /\ rows[k].last <= n

\* The active rows are those of the newest import that had rows.
NewestActive(rows) ==
  /\ \A k, l \in DOMAIN rows : rows[k].active => rows[l].last <= rows[k].last
  /\ \A k \in DOMAIN rows :
       rows[k].last > 0 /\ (\A l \in DOMAIN rows : rows[l].last <= rows[k].last) => rows[k].active

\* Of another segment nothing was seen by an import.
ForeignUnseen(table, rows) ==
  \A k \in DOMAIN rows : ~Reference!Own(table, k) => rows[k].last = 0

SumsUp(s) == s.seen = s.inserted + s.updated + s.unchanged

LEMMA RefCounts == \A S : Reference!Cardinality(S) = Cardinality(S)
BY Zenon DEF Reference!Cardinality, Cardinality

LEMMA NoStatsTyped == Reference!NoStats \in CountType /\ SumsUp(Reference!NoStats) /\ Reference!NoStats.inserted = 0
BY DEF Reference!NoStats, CountType, SumsUp

LEMMA RowOff ==
  ASSUME NEW row \in ListingRow
  PROVE  /\ [row EXCEPT !.active = FALSE] \in ListingRow /\ ~[row EXCEPT !.active = FALSE].active
         /\ [row EXCEPT !.active = FALSE].first = row.first
         /\ [row EXCEPT !.active = FALSE].last = row.last
<1>1. FALSE \in BOOLEAN
  OBVIOUS
<1>2. /\ [row EXCEPT !.active = FALSE] \in ListingRow
      /\ [row EXCEPT !.active = FALSE].active = FALSE
      /\ [row EXCEPT !.active = FALSE].first = row.first
      /\ [row EXCEPT !.active = FALSE].last = row.last
  BY <1>1, RowOffIn, Zenon DEF ListingRow
<1> QED
  BY <1>2, Zenon

LEMMA OffTyped ==
  ASSUME NEW rows, TableTyped(rows), NEW off
  PROVE  LET new == Reference!SwitchedOff(rows, off)
         IN  /\ TableTyped(new) /\ DOMAIN new = DOMAIN rows
             /\ \A k \in DOMAIN rows : /\ new[k].first = rows[k].first /\ new[k].last = rows[k].last
                                       /\ new[k].active <=> rows[k].active /\ k \notin off
<1> DEFINE new == Reference!SwitchedOff(rows, off)
<1>1. DOMAIN new = DOMAIN rows
  BY DEF Reference!SwitchedOff
<1>2. \A k \in DOMAIN rows : new[k] = IF k \in off THEN [rows[k] EXCEPT !.active = FALSE] ELSE rows[k]
  BY Zenon DEF Reference!SwitchedOff
<1> HIDE DEF new
<1>3. ASSUME NEW k \in DOMAIN rows
      PROVE  /\ new[k] \in ListingRow /\ new[k].first = rows[k].first /\ new[k].last = rows[k].last
             /\ new[k].active <=> rows[k].active /\ k \notin off
  <2>1. rows[k] \in ListingRow
    BY DEF TableTyped
  <2>2. CASE k \in off
    <3>1. new[k] = [rows[k] EXCEPT !.active = FALSE]
      BY <1>2, <2>2, Zenon
    <3> QED
      BY <2>1, <2>2, <3>1, RowOff, Zenon
  <2>3. CASE k \notin off
    <3>1. new[k] = rows[k]
      BY <1>2, <2>3, Zenon
    <3> QED
      BY <2>1, <2>3, <3>1, Zenon
  <2> QED
    BY <2>2, <2>3
<1>4. TableTyped(new)
  BY <1>1, <1>3 DEF TableTyped
<1> QED
  BY <1>1, <1>3, <1>4 DEF new

\* Insert, update or touch.
LEMMA UpsertTyped ==
  ASSUME NEW rows, TableTyped(rows), NEW line, line.hash \in Hashes, NEW n \in Nat,
         NEW key, key = line.key, NEW new, new = Reference!UpsertRow(rows, line, n)
  PROVE  /\ TableTyped(new) /\ DOMAIN new = DOMAIN rows \cup {key}
         /\ \A k \in DOMAIN rows : k # key => new[k] = rows[k]
         /\ new[key].active /\ new[key].last = n
         /\ new[key].first = IF key \in DOMAIN rows THEN rows[key].first ELSE n
<1> DEFINE first == IF key \in DOMAIN rows THEN rows[key].first ELSE n
           row == [hash |-> line.hash, active |-> TRUE, last |-> n, first |-> first]
<1>1. DOMAIN new = DOMAIN rows \cup {key}
  BY DEF Reference!UpsertRow
<1>2. (\A k \in DOMAIN rows : k # key => new[k] = rows[k]) /\ new[key] = row
  BY DEF Reference!UpsertRow
<1>3. first \in Nat
  <2>1. key \in DOMAIN rows => rows[key].first \in Nat
    BY DEF TableTyped, ListingRow
  <2> QED
    BY <2>1
<1> HIDE DEF first
<1>4. row \in ListingRow /\ row.active /\ row.last = n /\ row.first = first
  BY <1>3 DEF ListingRow
<1>5. IsFiniteSet(DOMAIN new)
  BY <1>1, FS_AddElement DEF TableTyped
<1> HIDE DEF row
<1>6. TableTyped(new)
  BY <1>1, <1>2, <1>4, <1>5 DEF TableTyped
<1> QED
  BY <1>1, <1>2, <1>4, <1>6, Zenon DEF first

LEMMA CountedLine ==
  ASSUME NEW s \in CountType, SumsUp(s), NEW rows, NEW line, NEW key, key = line.key,
         NEW new, new = Reference!Counted(s, rows, line)
  PROVE  /\ new \in CountType /\ SumsUp(new)
         /\ new.inserted = IF key \in DOMAIN rows THEN s.inserted ELSE s.inserted + 1
<1>0. /\ s.seen \in Nat /\ s.inserted \in Nat /\ s.updated \in Nat /\ s.unchanged \in Nat
      /\ s.deactivated \in Nat /\ s.seen = s.inserted + s.updated + s.unchanged
  BY DEF CountType, SumsUp
<1>9. s.seen + 1 \in Nat /\ s.inserted + 1 \in Nat /\ s.updated + 1 \in Nat /\ s.unchanged + 1 \in Nat
  BY <1>0
<1>1. CASE key \notin DOMAIN rows
  <2>1. PICK c : c = [s EXCEPT !.seen = s.seen + 1, !.inserted = s.inserted + 1]
    OBVIOUS
  <2>0. new = c
    BY <1>1, <2>1 DEF Reference!Counted
  <2>2. /\ c \in CountType /\ c.seen = s.seen + 1 /\ c.inserted = s.inserted + 1
        /\ c.updated = s.updated /\ c.unchanged = s.unchanged
    BY <2>1, <1>0, <1>9, CountsEdited, Zenon DEF CountType
  <2>3. SumsUp(c)
    BY <2>2, <1>0 DEF SumsUp
  <2> QED
    BY <1>1, <2>0, <2>2, <2>3
<1>2. CASE key \in DOMAIN rows /\ rows[key].hash # line.hash
  <2>1. PICK c : c = [s EXCEPT !.seen = s.seen + 1, !.updated = s.updated + 1]
    OBVIOUS
  <2>0. new = c
    BY <1>2, <2>1 DEF Reference!Counted
  <2>2. /\ c \in CountType /\ c.seen = s.seen + 1 /\ c.inserted = s.inserted
        /\ c.updated = s.updated + 1 /\ c.unchanged = s.unchanged
    BY <2>1, <1>0, <1>9, CountsEdited, Zenon DEF CountType
  <2>3. SumsUp(c)
    BY <2>2, <1>0 DEF SumsUp
  <2> QED
    BY <1>2, <2>0, <2>2, <2>3
<1>3. CASE key \in DOMAIN rows /\ rows[key].hash = line.hash
  <2>1. PICK c : c = [s EXCEPT !.seen = s.seen + 1, !.unchanged = s.unchanged + 1]
    OBVIOUS
  <2>0. new = c
    BY <1>3, <2>1 DEF Reference!Counted
  <2>2. /\ c \in CountType /\ c.seen = s.seen + 1 /\ c.inserted = s.inserted
        /\ c.updated = s.updated /\ c.unchanged = s.unchanged + 1
    BY <2>1, <1>0, <1>9, CountsEdited, Zenon DEF CountType
  <2>3. SumsUp(c)
    BY <2>2, <1>0 DEF SumsUp
  <2> QED
    BY <1>3, <2>0, <2>2, <2>3
<1> QED
  BY <1>1, <1>2, <1>3, Zenon

\* The property in the terms of the invariant.
LEMMA NewestIsActive ==
  ASSUME NEW rows, TableTyped(rows), NewestActive(rows)
  PROVE  Reference!ActiveIsNewest(rows)
<1> DEFINE S == {0} \cup {rows[k].last : k \in DOMAIN rows}
<1>1. PICK newest : newest = Reference!Max(S)
  OBVIOUS
<1>2. \A k \in DOMAIN rows : rows[k].last \in Nat
  BY DEF TableTyped, ListingRow
<1>3. \E m \in S : \A x \in S : m >= x
  <2>1. CASE \E k \in DOMAIN rows : rows[k].active
    <3>1. PICK k \in DOMAIN rows : rows[k].active
      BY <2>1
    <3>2. rows[k].last \in S /\ \A x \in S : rows[k].last >= x
      BY <1>2, <3>1 DEF NewestActive
    <3> QED
      BY <3>2
  <2>2. CASE \A k \in DOMAIN rows : ~rows[k].active
    <3>1. S \in SUBSET Nat /\ S # {} /\ IsFiniteSet(S)
      <4>1. IsFiniteSet({rows[k].last : k \in DOMAIN rows})
        <5> DEFINE f == [k \in DOMAIN rows |-> rows[k].last]
                   T == {rows[k].last : k \in DOMAIN rows}
        <5>1. f \in [DOMAIN rows -> T] /\ \A t \in T : \E k \in DOMAIN rows : f[k] = t
          OBVIOUS
        <5>2. IsFiniteSet(DOMAIN rows)
          BY DEF TableTyped
        <5> HIDE DEF f, T
        <5>3. IsFiniteSet(T)
          BY <5>1, <5>2, ImageFinite
        <5> QED
          BY <5>3 DEF T
      <4>2. IsFiniteSet({0} \cup {rows[k].last : k \in DOMAIN rows})
        BY <4>1, FS_Singleton, FS_Union
      <4> QED
        BY <1>2, <4>2
    <3>2. \E m \in S : \A x \in S : x <= m
      <4> HIDE DEF S
      <4> QED
        BY <3>1, GreatestFinite
    <3>3. \A x, m \in S : x <= m => m >= x
      BY <1>2
    <3> QED
      BY <3>2, <3>3
  <2> QED
    BY <2>1, <2>2
<1>4. newest \in S /\ \A x \in S : newest >= x
  <2> HIDE DEF S
  <2> QED
    BY <1>1, <1>3, Zenon DEF Reference!Max
<1>5. newest \in Nat /\ \A k \in DOMAIN rows : rows[k].last <= newest
  BY <1>2, <1>4
<1>6. ASSUME NEW k \in DOMAIN rows, rows[k].active PROVE rows[k].last = newest
  <2>1. \A x \in S : x <= rows[k].last
    BY <1>2, <1>6 DEF NewestActive
  <2> QED
    BY <1>2, <1>4, <1>5, <2>1
<1>7. ASSUME NEW k \in DOMAIN rows, newest > 0, rows[k].last = newest PROVE rows[k].active
  BY <1>5, <1>7 DEF NewestActive
<1> QED
  BY <1>1, <1>6, <1>7, Zenon DEF Reference!ActiveIsNewest

\* The rows `now' the transaction of a run sees, over those it began with: the
\* keys met so far are active and seen by it, the others are as they were, but
\* that those of another segment are off.
Opened(table, base, now, keys, r) ==
  /\ TableTyped(now)
  /\ DOMAIN base \subseteq DOMAIN now
  /\ \A k \in DOMAIN base : now[k].first = base[k].first
  /\ \A k \in DOMAIN now : k \notin DOMAIN base => k \in keys /\ now[k].first = r
  /\ \A k \in keys : /\ k \in DOMAIN now /\ Reference!Own(table, k)
                     /\ now[k].last = r /\ now[k].active
  /\ \A k \in DOMAIN now : k \notin keys =>
       /\ now[k].last = base[k].last
       /\ now[k].active <=> base[k].active /\ Reference!Own(table, k)

TableFits(table, rows, n) ==
  TableTyped(rows) /\ NewestActive(rows) /\ ForeignUnseen(table, rows) /\ SeenBy(rows, n)

\* Other segments switched off: the transaction has begun.
LEMMA Begins ==
  ASSUME NEW table, NEW base, NEW n \in Nat, TableFits(table, base, n),
         NEW off, off = {k \in DOMAIN base : ~Reference!Own(table, k) /\ base[k].active},
         NEW r, r = n + 1, NEW now, now = Reference!SwitchedOff(base, off)
  PROVE  Opened(table, base, now, {}, r) /\ FirstSeen(now, r) = {}
<1>2. /\ TableTyped(now) /\ DOMAIN now = DOMAIN base
      /\ \A k \in DOMAIN base : /\ now[k].first = base[k].first /\ now[k].last = base[k].last
                                /\ now[k].active <=> base[k].active /\ k \notin off
  BY OffTyped DEF TableFits
<1>3. Opened(table, base, now, {}, r)
  BY <1>2, Zenon DEF Opened
<1>4. \A k \in DOMAIN base : base[k].first \in Nat /\ base[k].first <= n
  BY DEF TableFits, TableTyped, ListingRow, SeenBy
<1>5. \A k \in DOMAIN now : now[k].first # r
  BY <1>2, <1>4
<1> QED
  BY <1>3, <1>5 DEF FirstSeen

\* A run is the first to see a key that was not there.
FirstsGrow(now, new, key, r) ==
  /\ key \in DOMAIN now => Cardinality(FirstSeen(new, r)) = Cardinality(FirstSeen(now, r))
  /\ key \notin DOMAIN now => Cardinality(FirstSeen(new, r)) = Cardinality(FirstSeen(now, r)) + 1

\* A line taken.
LEMMA TakesLine ==
  ASSUME NEW table, NEW base, NEW r, r - 1 \in Nat, r \in Nat, TableFits(table, base, r - 1),
         NEW now, NEW keys, Opened(table, base, now, keys, r),
         NEW line, line.hash \in Hashes, NEW key, key = line.key, Reference!Own(table, key),
         NEW new, new = Reference!UpsertRow(now, line, r)
  PROVE  /\ Opened(table, base, new, keys \cup {key}, r)
         /\ Cardinality(FirstSeen(now, r)) \in Nat
         /\ FirstsGrow(now, new, key, r)
<1>1. PICK n : n = r - 1
  OBVIOUS
<1>0. n \in Nat /\ r = n + 1 /\ TableFits(table, base, n)
  BY <1>1
<1>2. TableTyped(now) /\ r \in Nat
  BY DEF Opened
<1>3. /\ TableTyped(new) /\ DOMAIN new = DOMAIN now \cup {key}
      /\ \A k \in DOMAIN now : k # key => new[k] = now[k]
      /\ new[key].active /\ new[key].last = r
      /\ new[key].first = IF key \in DOMAIN now THEN now[key].first ELSE r
  BY <1>2, UpsertTyped
<1>4. Opened(table, base, new, keys \cup {key}, r)
  <2>1. TableTyped(new) /\ DOMAIN base \subseteq DOMAIN new
    BY <1>3 DEF Opened
  <2>2. \A k \in DOMAIN base : new[k].first = base[k].first
    <3>1. \A k \in DOMAIN base : k \in DOMAIN now /\ now[k].first = base[k].first
      BY DEF Opened
    <3> QED
      BY <1>3, <3>1
  <2>3. \A k \in DOMAIN new : k \notin DOMAIN base => k \in keys \cup {key} /\ new[k].first = r
    <3>1. \A k \in DOMAIN now : k \notin DOMAIN base => k \in keys /\ now[k].first = r
      BY DEF Opened
    <3> QED
      BY <1>3, <3>1
  <2>4. \A k \in keys \cup {key} : /\ k \in DOMAIN new /\ Reference!Own(table, k)
                                   /\ new[k].last = r /\ new[k].active
    <3>1. \A k \in keys : k \in DOMAIN now /\ Reference!Own(table, k) /\ now[k].last = r /\ now[k].active
      BY DEF Opened
    <3> QED
      BY <1>3, <3>1, Zenon
  <2>5. \A k \in DOMAIN new : k \notin keys \cup {key} =>
          /\ new[k].last = base[k].last
          /\ new[k].active <=> base[k].active /\ Reference!Own(table, k)
    <3>1. \A k \in DOMAIN now : k \notin keys =>
            /\ now[k].last = base[k].last
            /\ now[k].active <=> base[k].active /\ Reference!Own(table, k)
      BY DEF Opened
    <3>2. \A k : k \notin keys \cup {key} => k \notin keys /\ k # key
      OBVIOUS
    <3>3. \A k \in DOMAIN new : k # key => k \in DOMAIN now /\ new[k] = now[k]
      BY <1>3
    <3> QED
      BY <3>1, <3>2, <3>3, Zenon
  <2> QED
    BY <2>1, <2>2, <2>3, <2>4, <2>5, Zenon DEF Opened
<1>5. IsFiniteSet(FirstSeen(now, r)) /\ Cardinality(FirstSeen(now, r)) \in Nat
  BY <1>2, FS_Subset, FS_CardinalityType DEF TableTyped, FirstSeen
<1>6. Cardinality(FirstSeen(new, r)) =
        IF key \in DOMAIN now THEN Cardinality(FirstSeen(now, r))
        ELSE Cardinality(FirstSeen(now, r)) + 1
  <2>1. CASE key \in DOMAIN now
    <3>1. FirstSeen(new, r) = FirstSeen(now, r)
      BY <1>3, <2>1 DEF FirstSeen
    <3> QED
      BY <2>1, <3>1
  <2>2. CASE key \notin DOMAIN now
    <3>1. FirstSeen(new, r) = FirstSeen(now, r) \cup {key} /\ key \notin FirstSeen(now, r)
      BY <1>3, <2>2 DEF FirstSeen
    <3> QED
      BY <1>5, <2>2, <3>1, FS_AddElement
  <2> QED
    BY <2>1, <2>2
<1> QED
  BY <1>4, <1>5, <1>6 DEF FirstsGrow

\* What the file did not hold, unless it held nothing.
Gone(table, rows, keys) ==
  IF keys = {} THEN {} ELSE {k \in DOMAIN rows : Reference!Own(table, k) /\ k \notin keys}

\* The rows `new' after the commit of run r, over those before it and those its
\* transaction saw: no first sight has changed.
Committed(base, now, new, r) ==
  /\ \A s : s # r => FirstSeen(new, s) = FirstSeen(base, s)
  /\ FirstSeen(new, r) = FirstSeen(now, r)
  /\ \A k \in DOMAIN base : k \in DOMAIN new /\ new[k].first = base[k].first

LEMMA Commits ==
  ASSUME NEW table, NEW base, NEW r, r - 1 \in Nat, r \in Nat, TableFits(table, base, r - 1),
         NEW now, NEW keys, Opened(table, base, now, keys, r),
         NEW new, new = Reference!SwitchedOff(now, Gone(table, now, keys))
  PROVE  TableFits(table, new, r) /\ Committed(base, now, new, r)
<1>14. PICK gone : gone = Gone(table, now, keys)
  OBVIOUS
<1>15. new = Reference!SwitchedOff(now, gone)
  BY <1>14
<1>16. gone = IF keys = {} THEN {} ELSE {k \in DOMAIN now : Reference!Own(table, k) /\ k \notin keys}
  BY <1>14 DEF Gone
<1>1. PICK n : n = r - 1
  OBVIOUS
<1>0. n \in Nat /\ r = n + 1 /\ TableFits(table, base, n)
  BY <1>1
<1> USE <1>0
<1>2. TableTyped(now) /\ r \in Nat
  BY DEF Opened
<1>3. /\ TableTyped(new) /\ DOMAIN new = DOMAIN now
      /\ \A k \in DOMAIN now : /\ new[k].first = now[k].first /\ new[k].last = now[k].last
                               /\ new[k].active <=> now[k].active /\ k \notin gone
  BY <1>2, <1>15, OffTyped
<1>4. \A k \in DOMAIN base : /\ base[k].first \in Nat /\ base[k].last \in Nat
                             /\ base[k].first <= n /\ base[k].last <= n
  BY DEF TableFits, TableTyped, ListingRow, SeenBy
<1>5. \A k \in DOMAIN base : k \in DOMAIN new /\ new[k].first = base[k].first
  BY <1>3 DEF Opened
<1>6. \A k \in DOMAIN new : k \notin DOMAIN base => k \in keys /\ new[k].first = r
  BY <1>3 DEF Opened
<1>7. \A k \in keys : k \in DOMAIN new /\ Reference!Own(table, k) /\ new[k].last = r /\ new[k].active
  <2>1. \A k \in keys : k \in DOMAIN now /\ Reference!Own(table, k) /\ now[k].last = r /\ now[k].active
    BY DEF Opened
  <2>2. \A k \in keys : k \notin gone
    BY <1>16
  <2> QED
    BY <1>3, <2>1, <2>2, Zenon
<1>8. \A k \in DOMAIN new : k \notin keys =>
        /\ k \in DOMAIN base /\ new[k].last = base[k].last
        /\ new[k].active => base[k].active /\ Reference!Own(table, k)
        /\ keys = {} => (new[k].active <=> base[k].active /\ Reference!Own(table, k))
        /\ keys # {} => ~new[k].active
  <2> SUFFICES ASSUME NEW k \in DOMAIN new, k \notin keys
               PROVE  /\ k \in DOMAIN base /\ new[k].last = base[k].last
                      /\ new[k].active => base[k].active /\ Reference!Own(table, k)
                      /\ keys = {} => (new[k].active <=> base[k].active /\ Reference!Own(table, k))
                      /\ keys # {} => ~new[k].active
    OBVIOUS
  <2>1. /\ k \in DOMAIN now /\ now[k].last = base[k].last
        /\ now[k].active <=> base[k].active /\ Reference!Own(table, k)
    BY <1>3, Zenon DEF Opened
  <2>2. k \in DOMAIN base
    BY <1>6
  <2>3. keys = {} => k \notin gone
    BY <1>16
  <2>4. keys # {} /\ Reference!Own(table, k) => k \in gone
    BY <1>16, <2>1
  <2> QED
    BY <1>3, <2>1, <2>2, <2>3, <2>4, Zenon
<1>9. SeenBy(new, r)
  <2>1. ASSUME NEW k \in DOMAIN new PROVE new[k].first <= r /\ new[k].last <= r
    <3>1. new[k].first <= r
      <4>1. CASE k \in DOMAIN base
        <5>1. new[k].first = base[k].first
          BY <1>5, <4>1
        <5>2. base[k].first \in Nat /\ base[k].first <= n
          BY <1>4, <4>1
        <5> QED
          BY <5>1, <5>2
      <4>2. CASE k \notin DOMAIN base
        <5>1. new[k].first = r
          BY <1>6, <2>1, <4>2
        <5> QED
          BY <1>2, <5>1
      <4> QED
        BY <4>1, <4>2
    <3>2. new[k].last <= r
      <4>1. CASE k \in keys
        BY <1>2, <1>7, <4>1
      <4>2. CASE k \notin keys
        <5>1. k \in DOMAIN base /\ new[k].last = base[k].last
          BY <1>8, <2>1, <4>2
        <5>2. base[k].last \in Nat /\ base[k].last <= n
          BY <1>4, <5>1
        <5> QED
          BY <5>1, <5>2
      <4> QED
        BY <4>1, <4>2
    <3> QED
      BY <3>1, <3>2
  <2> QED
    BY <2>1 DEF SeenBy
<1>10. ForeignUnseen(table, new)
  BY <1>7, <1>8, <1>0, Zenon DEF ForeignUnseen, TableFits
<1>11. NewestActive(new)
  <2>1. CASE keys = {}
    <3>1. \A k \in DOMAIN new : /\ k \in DOMAIN base /\ new[k].last = base[k].last
                                /\ new[k].active <=> base[k].active /\ Reference!Own(table, k)
      BY <1>8, <2>1
    <3>2. DOMAIN base = DOMAIN new
      BY <1>5, <3>1
    <3>3. \A k \in DOMAIN base : ~Reference!Own(table, k) => base[k].last = 0
      BY DEF TableFits, ForeignUnseen
    <3>4. NewestActive(base)
      BY DEF TableFits
    <3>5. \A k, l \in DOMAIN new : new[k].active => new[l].last <= new[k].last
      BY <3>1, <3>2, <3>4 DEF NewestActive
    <3>6. ASSUME NEW k \in DOMAIN new, new[k].last > 0, \A l \in DOMAIN new : new[l].last <= new[k].last
          PROVE  new[k].active
      <4>1. base[k].active
        BY <3>1, <3>2, <3>4, <3>6 DEF NewestActive
      <4>2. Reference!Own(table, k)
        BY <3>1, <3>3, <3>6, <1>4
      <4> QED
        BY <3>1, <4>1, <4>2
    <3> QED
      BY <3>5, <3>6, Zenon DEF NewestActive
  <2>2. CASE keys # {}
    <3>1. PICK m \in keys : TRUE
      BY <2>2
    <3>2. m \in DOMAIN new /\ new[m].last = r
      BY <1>7, <3>1
    <3>3. \A k \in DOMAIN new : new[k].active => k \in keys
      BY <1>8, <2>2
    <3>4. ASSUME NEW k \in DOMAIN new, NEW l \in DOMAIN new, new[k].active
          PROVE  new[l].last <= new[k].last
      <4>1. new[k].last = r
        BY <1>7, <3>3, <3>4
      <4> QED
        BY <1>9, <4>1, <3>4 DEF SeenBy
    <3>5. ASSUME NEW k \in DOMAIN new, \A l \in DOMAIN new : new[l].last <= new[k].last
          PROVE  new[k].active
      <4>1. r <= new[k].last
        BY <3>2, <3>5
      <4>2. k \in keys
        <5> SUFFICES ASSUME k \notin keys PROVE FALSE
          OBVIOUS
        <5>1. k \in DOMAIN base /\ new[k].last = base[k].last
          BY <1>8
        <5> QED
          BY <1>4, <4>1, <5>1
      <4> QED
        BY <1>7, <4>2
    <3> QED
      BY <3>4, <3>5 DEF NewestActive
  <2> QED
    BY <2>1, <2>2
<1>12. ASSUME NEW s, s # r PROVE FirstSeen(new, s) = FirstSeen(base, s)
  BY <1>5, <1>6, <1>12 DEF FirstSeen
<1>13. FirstSeen(new, r) = FirstSeen(now, r)
  BY <1>3 DEF FirstSeen
<1> QED
  BY <1>3, <1>5, <1>9, <1>10, <1>11, <1>12, <1>13, Zenon DEF TableFits, Committed

\* The tables by name.
TableMap == [t \in Reference!Tables |-> Reference!RowsOf(t)]

TablesFit(tables, n) == \A t \in Reference!Tables : TableFits(t, tables[t], n)

\* What a run that ended well counted as inserted it was the first to see.
RunsHonest(runs, tables) ==
  /\ runs \in Seq(ImportType)
  /\ \A r \in DOMAIN runs :
       /\ SumsUp(runs[r].stats)
       /\ runs[r].done /\ ~runs[r].error =>
            runs[r].stats.inserted = Cardinality(FirstSeen(tables[runs[r].table], r))

RefDownloads == \A d \in downloads : FileFits(d.table, d.file)

\* The import at work: its run is the newest one and not done, what it counted
\* adds up, and its transaction sees the table with the lines taken so far.
CountsFit(s, rows, r) ==
  s \in CountType /\ SumsUp(s) /\ s.inserted = Cardinality(FirstSeen(rows, r))

ImportFits(w, tables, runs) ==
  /\ Fielded(w) /\ w.at \in {"idle", "begin", "upsert", "finish"} /\ w.table \in Reference!Tables
  /\ w.at # "idle" => /\ w.run = Len(runs) /\ w.run \in DOMAIN runs
                      /\ ~runs[w.run].done /\ runs[w.run].table = w.table
                      /\ w.stats \in CountType /\ SumsUp(w.stats)
  /\ w.at \in {"begin", "upsert"} => /\ FileFits(w.table, w.file)
                                     /\ w.left \subseteq Reference!Parsed(w.table, w.file)
                                     /\ TableFits(w.table, tables[w.table], w.run - 1)
  /\ w.at = "begin" => w.stats.inserted = 0 /\ w.keys = {}
  /\ w.at = "upsert" => /\ Opened(w.table, tables[w.table], w.rows, w.keys, w.run)
                        /\ CountsFit(w.stats, w.rows, w.run)
  /\ w.at = "finish" => CountsFit(w.stats, tables[w.table], w.run)

RefInv ==
  /\ TablesFit(TableMap, Len(imports)) /\ RunsHonest(imports, TableMap) /\ RefDownloads
  /\ ImportFits(importing, TableMap, imports)

LEMMA MapStays ==
  ASSUME UNCHANGED <<instruments, constituents>>
  PROVE  TableMap' = TableMap
BY DEF TableMap, Reference!RowsOf

LEMMA MapReads == \A t \in Reference!Tables : /\ TableMap[t] = Reference!RowsOf(t)
                                             /\ TableMap'[t] = Reference!RowsOf(t)'
BY DEF TableMap

\* What KeysStay says, of the tables before and after.
LEMMA KeysKept ==
  ASSUME \A t \in Reference!Tables : \A k \in DOMAIN TableMap[t] :
           k \in DOMAIN TableMap'[t] /\ TableMap'[t][k].first = TableMap[t][k].first
  PROVE  Reference!KeysStay
BY MapReads DEF Reference!KeysStay

LEMMA TablesSeen ==
  ASSUME NEW t, NEW rows, NEW n \in Nat, TableFits(t, rows, n), NEW m \in Nat, n <= m
  PROVE  TableFits(t, rows, m)
<1>1. \A k \in DOMAIN rows : rows[k].first \in Nat /\ rows[k].last \in Nat
  BY DEF TableFits, TableTyped, ListingRow
<1> QED
  BY <1>1 DEF TableFits, SeenBy

LEMMA IdleImport == ASSUME NEW tables, NEW runs PROVE ImportFits(Reference!Idle, tables, runs)
BY DEF ImportFits, Reference!Idle, Fielded, Reference!Tables

IsStart(new, b, c, d, e) ==
  /\ Fielded(new) /\ new.at = "begin" /\ new.table = b /\ new.file = c /\ new.left = d
  /\ new.run = e /\ new.keys = {} /\ new.stats = Reference!NoStats

LEMMA WorkBegun ==
  ASSUME NEW b, NEW c, NEW d, NEW e,
         NEW new, new = [Reference!Idle EXCEPT !.at = "begin", !.table = b, !.file = c, !.left = d, !.run = e]
  PROVE  IsStart(new, b, c, d, e)
<1>1. Reference!Idle = [at |-> "idle", table |-> "instruments", file |-> <<>>, left |-> {}, run |-> 0,
                       rows |-> <<>>, keys |-> {}, stats |-> Reference!NoStats]
  BY DEF Reference!Idle
<1>2. PICK U : U = {"idle", "instruments", <<>>, {}, 0, Reference!NoStats, "begin", b, c, d, e}
  OBVIOUS
<1>3. Reference!Idle \in [at : U, table : U, file : U, left : U, run : U, rows : U, keys : U, stats : U]
  BY <1>1, <1>2
<1>4. "begin" \in U /\ b \in U /\ c \in U /\ d \in U /\ e \in U
  BY <1>2
<1>5. /\ new \in [at : U, table : U, file : U, left : U, run : U, rows : U, keys : U, stats : U]
      /\ new.at = "begin" /\ new.table = b /\ new.file = c /\ new.left = d
      /\ new.run = e /\ new.rows = Reference!Idle.rows /\ new.keys = Reference!Idle.keys
      /\ new.stats = Reference!Idle.stats
  BY <1>3, <1>4, WorkStartedIn, Zenon
<1>6. Reference!Idle.keys = {} /\ Reference!Idle.stats = Reference!NoStats
  BY DEF Reference!Idle
<1>7. Fielded(new)
  BY <1>5, FieldedIn, Zenon
<1> QED
  BY <1>5, <1>6, <1>7 DEF IsStart

\* The count of what was switched off does not enter the sum.
LEMMA OffCounted ==
  ASSUME NEW s \in CountType, SumsUp(s), NEW c \in Nat, NEW new, new = [s EXCEPT !.deactivated = c]
  PROVE  new \in CountType /\ SumsUp(new) /\ new.inserted = s.inserted
<1>1. /\ new \in CountType
      /\ new.seen = s.seen /\ new.unchanged = s.unchanged
      /\ new.inserted = s.inserted /\ new.updated = s.updated
  BY CountsEdited, Zenon DEF CountType
<1> QED
  BY <1>1 DEF SumsUp

IsEnd(old, new, error, stats) ==
  new \in ImportType /\ new.table = old.table /\ new.done = TRUE /\ new.error = error /\ new.stats = stats

LEMMA RunEnded ==
  ASSUME NEW row \in ImportType, NEW error \in BOOLEAN, NEW stats \in CountType,
         NEW new, new = [row EXCEPT !.done = TRUE, !.error = error, !.stats = stats]
  PROVE  IsEnd(row, new, error, stats)
<1>1. TRUE \in BOOLEAN
  OBVIOUS
<1>2. /\ new \in ImportType
      /\ new.table = row.table /\ new.done = TRUE /\ new.error = error /\ new.stats = stats
  BY <1>1, RunEndedIn, Zenon DEF ImportType
<1> QED
  BY <1>2, Zenon DEF IsEnd

RecordedAs(runs, more, tables, table) ==
  /\ RunsHonest(more, tables) /\ Len(more) = Len(runs) + 1 /\ Len(more) \in DOMAIN more
  /\ ~more[Len(more)].done /\ more[Len(more)].table = table

\* A run recorded.
LEMMA RunRecorded ==
  ASSUME NEW runs, NEW tables, RunsHonest(runs, tables), NEW table \in Reference!Tables,
         NEW new, new = [table |-> table, done |-> FALSE, error |-> FALSE, stats |-> Reference!NoStats],
         NEW more, more = Append(runs, new)
  PROVE  RecordedAs(runs, more, tables, table)
<1> DEFINE n == Len(runs)
           r == n + 1
<1>1. /\ runs \in Seq(ImportType) /\ n \in Nat /\ DOMAIN runs = 1 .. n
  BY DEF RunsHonest
<1>3. new \in ImportType /\ ~new.done /\ new.table = table /\ new.stats = Reference!NoStats
  BY NoStatsTyped DEF ImportType
<1>5. /\ more \in Seq(ImportType) /\ Len(more) = r /\ DOMAIN more = 1 .. r
      /\ more[r] = new /\ \A i \in 1 .. n : more[i] = runs[i]
  <2>1. PICK x : x = new
    OBVIOUS
  <2> QED
    BY <1>1, <1>3
<1>8. ASSUME NEW i \in DOMAIN more
      PROVE  /\ SumsUp(more[i].stats)
             /\ more[i].done /\ ~more[i].error =>
                  more[i].stats.inserted = Cardinality(FirstSeen(tables[more[i].table], i))
  <2>1. CASE i = r
    BY <1>3, <1>5, <2>1, NoStatsTyped
  <2>2. CASE i # r
    <3>1. i \in DOMAIN runs /\ more[i] = runs[i]
      BY <1>1, <1>5, <1>8, <2>2
    <3> QED
      BY <3>1 DEF RunsHonest
  <2> QED
    BY <2>1, <2>2
<1>9. RunsHonest(more, tables)
  BY <1>5, <1>8 DEF RunsHonest
<1>10. r \in 1 .. r /\ r = n + 1
  BY <1>1
<1> QED
  BY <1>3, <1>5, <1>9, <1>10 DEF RecordedAs

LEMMA StartFits ==
  ASSUME NEW tables, NEW runs, NEW n \in Nat, TablesFit(tables, n), Len(runs) = n + 1, n + 1 \in DOMAIN runs,
         ~runs[n + 1].done, NEW table \in Reference!Tables, runs[n + 1].table = table,
         NEW file, FileFits(table, file), NEW w, IsStart(w, table, file, Reference!Parsed(table, file), n + 1)
  PROVE  ImportFits(w, tables, runs)
<1>5. /\ Fielded(w) /\ w.at = "begin" /\ w.table = table /\ w.file = file
      /\ w.left = Reference!Parsed(table, file) /\ w.run = n + 1 /\ w.keys = {} /\ w.stats = Reference!NoStats
  BY DEF IsStart
<1>6. w.stats \in CountType /\ SumsUp(w.stats) /\ w.stats.inserted = 0
  BY <1>5, NoStatsTyped
<1>7. TableFits(w.table, tables[w.table], w.run - 1)
  <2>1. w.run - 1 = n
    BY <1>5
  <2> QED
    BY <1>5, <2>1 DEF TablesFit
<1> QED
  BY <1>5, <1>6, <1>7 DEF ImportFits

LEMMA BeginFits ==
  ASSUME NEW tables, NEW runs, runs \in Seq(ImportType), NEW w, ImportFits(w, tables, runs), w.at = "begin",
         NEW base, base = tables[w.table],
         NEW off, off = {k \in DOMAIN base : ~Reference!Own(w.table, k) /\ base[k].active},
         NEW now, now = Reference!SwitchedOff(base, off),
         NEW stats \in CountType, SumsUp(stats), stats.inserted = w.stats.inserted,
         NEW new, IsBegin(w, new, now, stats)
  PROVE  ImportFits(new, tables, runs)
<1>0. /\ Fielded(new) /\ new.at = "upsert" /\ new.rows = now /\ new.stats = stats
      /\ new.table = w.table /\ new.file = w.file /\ new.left = w.left /\ new.run = w.run
      /\ new.keys = w.keys
  BY DEF IsBegin
<1>1. /\ Fielded(w) /\ w.run = Len(runs) /\ w.run \in DOMAIN runs /\ w.table \in Reference!Tables
      /\ ~runs[w.run].done /\ runs[w.run].table = w.table
      /\ w.stats.inserted = 0 /\ w.keys = {}
      /\ FileFits(w.table, w.file) /\ w.left \subseteq Reference!Parsed(w.table, w.file)
      /\ TableFits(w.table, base, w.run - 1)
  BY DEF ImportFits
<1>2. w.run \in Nat /\ w.run - 1 \in Nat /\ w.run = (w.run - 1) + 1
  BY <1>1
<1>4. Opened(w.table, base, now, {}, w.run) /\ FirstSeen(now, w.run) = {}
  <2>1. PICK m : m = w.run - 1
    OBVIOUS
  <2>2. m \in Nat /\ w.run = m + 1 /\ TableFits(w.table, base, m)
    BY <1>1, <1>2, <2>1
  <2> QED
    BY <2>2, Begins
<1>7. CountsFit(new.stats, now, w.run)
  <2>1. Cardinality(FirstSeen(now, w.run)) = 0
    BY <1>4, FS_EmptySet
  <2> QED
    BY <1>0, <1>1, <2>1 DEF CountsFit
<1> QED
  BY <1>0, <1>1, <1>4, <1>7 DEF ImportFits

LEMMA LineOpens ==
  ASSUME NEW tables, NEW runs, runs \in Seq(ImportType), NEW w, ImportFits(w, tables, runs), w.at = "upsert",
         NEW j \in w.left, NEW line, line = w.file[j]
  PROVE  /\ w.run \in Nat /\ w.run - 1 \in Nat /\ Reference!Own(w.table, line.key) /\ line.hash \in Hashes
         /\ TableFits(w.table, tables[w.table], w.run - 1)
         /\ Opened(w.table, tables[w.table], w.rows, w.keys, w.run)
<1>1. /\ w.run = Len(runs) /\ w.run \in DOMAIN runs
      /\ FileFits(w.table, w.file) /\ w.left \subseteq Reference!Parsed(w.table, w.file)
      /\ TableFits(w.table, tables[w.table], w.run - 1)
      /\ Opened(w.table, tables[w.table], w.rows, w.keys, w.run)
  BY DEF ImportFits
<1>2. w.run \in Nat /\ w.run - 1 \in Nat
  BY <1>1
<1>3. j \in DOMAIN w.file /\ Reference!Own(w.table, line.key)
  BY <1>1 DEF Reference!Parsed
<1>4. line.hash \in Hashes
  BY <1>1, <1>3 DEF FileFits, Hashes
<1> QED
  BY <1>1, <1>2, <1>3, <1>4

\* The next line of the file, taken into the rows and counted.
LEMMA LineCounted ==
  ASSUME NEW table, NEW base, NEW r, r - 1 \in Nat, r \in Nat, TableFits(table, base, r - 1),
         NEW now, NEW keys, Opened(table, base, now, keys, r),
         NEW line, line.hash \in Hashes, NEW key, key = line.key, Reference!Own(table, key),
         NEW new, new = Reference!UpsertRow(now, line, r),
         NEW s, CountsFit(s, now, r), NEW more, more = Reference!Counted(s, now, line)
  PROVE  CountsFit(more, new, r)
<1>1. Cardinality(FirstSeen(now, r)) \in Nat
  BY TakesLine
<1>2. FirstsGrow(now, new, key, r)
  BY TakesLine
<1>4. s \in CountType /\ SumsUp(s) /\ s.inserted = Cardinality(FirstSeen(now, r))
  BY DEF CountsFit
<1>5. /\ more \in CountType /\ SumsUp(more)
      /\ more.inserted = IF key \in DOMAIN now THEN s.inserted ELSE s.inserted + 1
  BY <1>4, CountedLine
<1> QED
  BY <1>1, <1>2, <1>4, <1>5 DEF CountsFit, FirstsGrow

LEMMA LineTaken ==
  ASSUME NEW table, NEW base, NEW r, r \in Nat, r - 1 \in Nat, TableFits(table, base, r - 1),
         NEW rows, NEW keys, Opened(table, base, rows, keys, r),
         NEW line, line.hash \in Hashes, Reference!Own(table, line.key),
         NEW s, CountsFit(s, rows, r)
  PROVE  /\ Opened(table, base, Reference!UpsertRow(rows, line, r), keys \cup {line.key}, r)
         /\ CountsFit(Reference!Counted(s, rows, line), Reference!UpsertRow(rows, line, r), r)
<1>1. Opened(table, base, Reference!UpsertRow(rows, line, r), keys \cup {line.key}, r)
  BY TakesLine, Zenon
<1>2. CountsFit(Reference!Counted(s, rows, line), Reference!UpsertRow(rows, line, r), r)
  BY LineCounted, Zenon
<1> QED
  BY <1>1, <1>2

LEMMA LineFits ==
  ASSUME NEW tables, NEW runs, runs \in Seq(ImportType), NEW w, ImportFits(w, tables, runs), w.at = "upsert",
         NEW j \in w.left, NEW line, line = w.file[j],
         NEW left \in SUBSET w.left,
         NEW new, IsTake(w, new, left, Reference!UpsertRow(w.rows, line, w.run),
                         Reference!Counted(w.stats, w.rows, line), w.keys \cup {line.key})
  PROVE  ImportFits(new, tables, runs)
<1>0. /\ Fielded(new) /\ new.at = "upsert" /\ new.rows = Reference!UpsertRow(w.rows, line, w.run)
      /\ new.stats = Reference!Counted(w.stats, w.rows, line)
      /\ new.table = w.table /\ new.file = w.file /\ new.left \subseteq w.left /\ new.run = w.run
      /\ new.keys = w.keys \cup {line.key}
  BY DEF IsTake
<1>1. /\ w.run \in Nat /\ w.run - 1 \in Nat /\ Reference!Own(w.table, line.key) /\ line.hash \in Hashes
      /\ TableFits(w.table, tables[w.table], w.run - 1)
      /\ Opened(w.table, tables[w.table], w.rows, w.keys, w.run)
  BY LineOpens
<1>2. /\ w.run = Len(runs) /\ w.run \in DOMAIN runs /\ w.table \in Reference!Tables
      /\ ~runs[w.run].done /\ runs[w.run].table = w.table
      /\ CountsFit(w.stats, w.rows, w.run)
      /\ FileFits(w.table, w.file) /\ w.left \subseteq Reference!Parsed(w.table, w.file)
  BY DEF ImportFits
<1>3. /\ Opened(w.table, tables[w.table], Reference!UpsertRow(w.rows, line, w.run),
                w.keys \cup {line.key}, w.run)
      /\ CountsFit(Reference!Counted(w.stats, w.rows, line),
                   Reference!UpsertRow(w.rows, line, w.run), w.run)
  BY <1>1, <1>2, LineTaken, Zenon
<1>4. /\ Opened(new.table, tables[new.table], new.rows, new.keys, new.run)
      /\ CountsFit(new.stats, new.rows, new.run)
  BY <1>0, <1>3
<1>5. new.stats \in CountType /\ SumsUp(new.stats)
  BY <1>4 DEF CountsFit
<1> QED
  BY <1>0, <1>1, <1>2, <1>4, <1>5 DEF ImportFits

FirstsKept(before, after) ==
  \A t \in Reference!Tables : \A k \in DOMAIN before[t] :
    k \in DOMAIN after[t] /\ after[t][k].first = before[t][k].first

LEMMA CommitFits ==
  ASSUME NEW tables, NEW runs, RunsHonest(runs, tables), NEW w, ImportFits(w, tables, runs), w.at = "upsert",
         TablesFit(tables, Len(runs)),
         NEW rows, rows = Reference!SwitchedOff(w.rows, Gone(w.table, w.rows, w.keys)),
         NEW after, DOMAIN after = Reference!Tables, after[w.table] = rows,
         \A t \in Reference!Tables : t # w.table => after[t] = tables[t],
         NEW stats \in CountType, SumsUp(stats), stats.inserted = w.stats.inserted,
         NEW new, IsCommit(w, new, stats)
  PROVE  /\ TablesFit(after, Len(runs)) /\ RunsHonest(runs, after) /\ ImportFits(new, after, runs)
         /\ FirstsKept(tables, after)
<1>0. /\ Fielded(new) /\ new.at = "finish" /\ new.stats = stats /\ new.table = w.table
      /\ new.run = w.run
  BY DEF IsCommit
<1>1. /\ w.run = Len(runs) /\ w.run \in DOMAIN runs /\ w.table \in Reference!Tables
      /\ ~runs[w.run].done /\ runs[w.run].table = w.table
      /\ CountsFit(w.stats, w.rows, w.run)
      /\ TableFits(w.table, tables[w.table], w.run - 1)
      /\ Opened(w.table, tables[w.table], w.rows, w.keys, w.run)
  BY DEF ImportFits
<1>2. runs \in Seq(ImportType) /\ w.run \in Nat /\ w.run - 1 \in Nat
  BY <1>1 DEF RunsHonest
<1>3. PICK base, r, now : base = tables[w.table] /\ r = w.run /\ now = w.rows
  OBVIOUS
<1>4. /\ TableFits(w.table, rows, r)
      /\ \A s : s # r => FirstSeen(rows, s) = FirstSeen(base, s)
      /\ FirstSeen(rows, r) = FirstSeen(now, r)
      /\ \A k \in DOMAIN base : k \in DOMAIN rows /\ rows[k].first = base[k].first
  <2>1. TableFits(w.table, rows, w.run) /\ Committed(tables[w.table], w.rows, rows, w.run)
    BY <1>1, <1>2, Commits
  <2> QED
    BY <1>3, <2>1 DEF Committed
<1>5. TablesFit(after, Len(runs))
  BY <1>1, <1>3, <1>4 DEF TablesFit
<1>6. RunsHonest(runs, after)
  <2>1. ASSUME NEW i \in DOMAIN runs, runs[i].done, ~runs[i].error
        PROVE  runs[i].stats.inserted = Cardinality(FirstSeen(after[runs[i].table], i))
    <3>1. runs[i].stats.inserted = Cardinality(FirstSeen(tables[runs[i].table], i))
      BY <2>1 DEF RunsHonest
    <3>2. i # r
      BY <1>1, <1>3, <2>1
    <3>4. runs[i].table \in Reference!Tables
      <4>1. runs[i] \in ImportType
        BY <1>2, <2>1
      <4> QED
        BY <4>1 DEF ImportType
    <3>3. FirstSeen(after[runs[i].table], i) = FirstSeen(tables[runs[i].table], i)
      BY <1>3, <1>4, <3>2, <3>4
    <3> QED
      BY <3>1, <3>3
  <2> QED
    BY <2>1 DEF RunsHonest
<1>7. ImportFits(new, after, runs)
  <2>1. CountsFit(new.stats, after[new.table], new.run)
    <3>1. w.stats.inserted = Cardinality(FirstSeen(now, r))
      BY <1>1, <1>3 DEF CountsFit
    <3> QED
      BY <1>0, <1>3, <1>4, <3>1 DEF CountsFit
  <2> QED
    BY <1>0, <1>1, <2>1 DEF ImportFits
<1>8. \A t \in Reference!Tables : \A k \in DOMAIN tables[t] :
        k \in DOMAIN after[t] /\ after[t][k].first = tables[t][k].first
  BY <1>3, <1>4
<1> QED
  BY <1>5, <1>6, <1>7, <1>8 DEF FirstsKept

\* A run is finished, well or not.
LEMMA FinishFits ==
  ASSUME NEW tables, NEW runs, RunsHonest(runs, tables), NEW r \in DOMAIN runs,
         NEW row \in ImportType, row.table = runs[r].table, SumsUp(row.stats),
         ~row.error => row.stats.inserted = Cardinality(FirstSeen(tables[row.table], r)),
         NEW after, after = [runs EXCEPT ![r] = row]
  PROVE  RunsHonest(after, tables)
<1>1. runs \in Seq(ImportType)
  BY DEF RunsHonest
<1>3. /\ after \in Seq(ImportType) /\ Len(after) = Len(runs) /\ DOMAIN after = DOMAIN runs
      /\ after[r] = row /\ \A i \in DOMAIN runs : i # r => after[i] = runs[i]
  <2>1. PICK S : S = ImportType
    OBVIOUS
  <2>2. runs \in Seq(S) /\ row \in S
    BY <1>1, <2>1
  <2>3. /\ after \in Seq(S) /\ Len(after) = Len(runs) /\ DOMAIN after = DOMAIN runs
        /\ after[r] = row /\ \A i \in DOMAIN runs : i # r => after[i] = runs[i]
    BY <2>2
  <2> QED
    BY <2>1, <2>3
<1>4. ASSUME NEW i \in DOMAIN after
      PROVE  /\ SumsUp(after[i].stats)
             /\ after[i].done /\ ~after[i].error =>
                  after[i].stats.inserted = Cardinality(FirstSeen(tables[after[i].table], i))
  <2>1. CASE i = r
    BY <1>3, <2>1
  <2>2. CASE i # r
    BY <1>3, <1>4, <2>2 DEF RunsHonest
  <2> QED
    BY <2>1, <2>2
<1> QED
  BY <1>3, <1>4 DEF RunsHonest

\* The tables are kept by steps that leave them alone.
LEMMA RefStays ==
  ASSUME RefInv, UNCHANGED <<instruments, constituents, imports>>, RefDownloads',
         ImportFits(importing', TableMap, imports)
  PROVE  RefInv' /\ Reference!KeysStay
<1>1. TableMap' = TableMap
  BY MapStays
<1>2. Reference!KeysStay
  BY <1>1, KeysKept
<1> QED
  BY <1>1, <1>2 DEF RefInv

LEMMA DownloadStep ==
  ASSUME RefInv, NEW table \in Reference!Tables, NEW file, FileFits(table, file),
         Reference!Download(table, file)
  PROVE  RefInv' /\ Reference!KeysStay
<1>1. /\ downloads' = downloads \cup {[table |-> table, file |-> file]}
      /\ UNCHANGED <<instruments, constituents, imports, importing>>
  BY DEF Reference!Download
<1>2. RefDownloads'
  BY <1>1 DEF RefInv, RefDownloads
<1> QED
  BY <1>1, <1>2, RefStays DEF RefInv

LEMMA DownloadFailsStep ==
  ASSUME RefInv, NEW d, Reference!DownloadFails(d)
  PROVE  RefInv' /\ Reference!KeysStay
<1>1. downloads' = downloads \ {d} /\ UNCHANGED <<instruments, constituents, imports, importing>>
  BY DEF Reference!DownloadFails
<1>2. RefDownloads'
  BY <1>1 DEF RefInv, RefDownloads
<1> QED
  BY <1>1, <1>2, RefStays DEF RefInv

LEMMA StartStep ==
  ASSUME RefInv, NEW d \in downloads, Reference!StartImport(d)
  PROVE  RefInv' /\ Reference!KeysStay
<1>1. d.table \in Reference!Tables /\ FileFits(d.table, d.file)
  BY DEF RefInv, RefDownloads, FileFits, Reference!Tables
<1>2. PICK n, row, table, file :
        /\ n = Len(imports) /\ table = d.table /\ file = d.file
        /\ row = [table |-> table, done |-> FALSE, error |-> FALSE, stats |-> Reference!NoStats]
  OBVIOUS
<1>3. imports' = Append(imports, row) /\ UNCHANGED <<instruments, constituents>>
  BY <1>2 DEF Reference!StartImport
<1>4. TableMap' = TableMap
  BY <1>3, MapStays
<1>5. n \in Nat
  BY <1>2 DEF RefInv, RunsHonest
<1>6. /\ RunsHonest(imports', TableMap) /\ Len(imports') = n + 1 /\ n + 1 \in DOMAIN imports'
      /\ ~imports'[n + 1].done /\ imports'[n + 1].table = table
  <2>1. PICK runs, more, tables : runs = imports /\ more = imports' /\ tables = TableMap
    OBVIOUS
  <2>2. RunsHonest(runs, tables) /\ table \in Reference!Tables /\ more = Append(runs, row)
    BY <1>1, <1>2, <1>3, <2>1 DEF RefInv
  <2>3. RecordedAs(runs, more, tables, table)
    BY <1>2, <2>2, RunRecorded, Zenon
  <2> QED
    BY <1>2, <2>1, <2>3 DEF RecordedAs
<1>7. TablesFit(TableMap, n) /\ TablesFit(TableMap, n + 1)
  <2>1. n + 1 \in Nat /\ n <= n + 1
    BY <1>5
  <2>2. TablesFit(TableMap, n)
    BY <1>2 DEF RefInv
  <2>3. TablesFit(TableMap, n + 1)
    BY <1>5, <2>1, <2>2, TablesSeen, Zenon DEF TablesFit
  <2> QED
    BY <2>2, <2>3
<1>8. importing' = [Reference!Idle EXCEPT !.at = "begin", !.table = d.table, !.file = d.file,
                           !.left = Reference!Parsed(d.table, d.file), !.run = Len(imports) + 1]
  BY DEF Reference!StartImport
<1>9. ImportFits(importing', TableMap, imports')
  <2>1. PICK w : w = importing'
    OBVIOUS
  <2>2. PICK left, r : left = Reference!Parsed(table, file) /\ r = n + 1
    OBVIOUS
  <2>3. w = [Reference!Idle EXCEPT !.at = "begin", !.table = table, !.file = file, !.left = left, !.run = r]
    BY <1>2, <1>8, <2>1, <2>2
  <2>4. IsStart(w, table, file, left, r)
    BY <2>3, WorkBegun, Zenon
  <2>5. table \in Reference!Tables /\ FileFits(table, file)
    BY <1>1, <1>2
  <2>6. PICK runs, tables : runs = imports' /\ tables = TableMap
    OBVIOUS
  <2>7. ImportFits(w, tables, runs)
    BY <1>5, <1>6, <1>7, <2>2, <2>4, <2>5, <2>6, StartFits
  <2> QED
    BY <2>1, <2>6, <2>7
<1>10. RefDownloads'
  BY DEF RefInv, RefDownloads, Reference!StartImport
<1>11. Reference!KeysStay
  BY <1>4, KeysKept
<1> QED
  BY <1>4, <1>6, <1>7, <1>9, <1>10, <1>11 DEF RefInv

LEMMA ImportBeginStep ==
  ASSUME RefInv, Reference!BeginUpsert
  PROVE  RefInv' /\ Reference!KeysStay
<1>1. PICK w, tables, new : w = importing /\ tables = TableMap /\ new = importing'
  OBVIOUS
<1>2. ImportFits(w, tables, imports) /\ imports \in Seq(ImportType) /\ w.at = "begin"
  BY <1>1 DEF RefInv, RunsHonest, Reference!BeginUpsert
<1>3. PICK base, off, now, n, stats :
        /\ base = tables[w.table] /\ off = {k \in DOMAIN base : ~Reference!Own(w.table, k) /\ base[k].active}
        /\ now = Reference!SwitchedOff(base, off) /\ n = Cardinality(off)
        /\ stats = [w.stats EXCEPT !.deactivated = n]
  OBVIOUS
<1>4. base = Reference!RowsOf(w.table)
  BY <1>1, <1>2, <1>3, MapReads DEF ImportFits
<1>5. new = [w EXCEPT !.at = "upsert", !.rows = now, !.stats = stats]
  BY <1>1, <1>3, <1>4, RefCounts DEF Reference!BeginUpsert
<1>6. Fielded(w) /\ w.stats \in CountType /\ SumsUp(w.stats) /\ TableFits(w.table, base, w.run - 1)
  BY <1>2, <1>3 DEF ImportFits
<1>7. IsBegin(w, new, now, stats)
  BY <1>5, <1>6, WorkBegins, Zenon
<1>8. stats \in CountType /\ SumsUp(stats) /\ stats.inserted = w.stats.inserted
  <2>1. IsFiniteSet(off)
    BY <1>3, <1>6, FS_Subset DEF TableFits, TableTyped
  <2>2. n \in Nat
    BY <1>3, <2>1, FS_CardinalityType
  <2>3. PICK s : s = w.stats
    OBVIOUS
  <2>4. s \in CountType /\ SumsUp(s) /\ stats = [s EXCEPT !.deactivated = n]
    BY <1>3, <1>6, <2>3
  <2>5. stats \in CountType /\ SumsUp(stats) /\ stats.inserted = s.inserted
    BY <2>2, <2>4, OffCounted
  <2> QED
    BY <2>3, <2>5
<1>9. ImportFits(new, tables, imports)
  BY <1>2, <1>3, <1>7, <1>8, BeginFits
<1>10. UNCHANGED <<instruments, constituents, imports, downloads>>
  BY DEF Reference!BeginUpsert
<1>11. RefDownloads'
  BY <1>10 DEF RefInv, RefDownloads
<1> QED
  BY <1>1, <1>9, <1>10, <1>11, RefStays

LEMMA LineStep ==
  ASSUME RefInv, Reference!UpsertLine
  PROVE  RefInv' /\ Reference!KeysStay
<1>1. PICK w, tables, new : w = importing /\ tables = TableMap /\ new = importing'
  OBVIOUS
<1>2. /\ ImportFits(w, tables, imports) /\ imports \in Seq(ImportType) /\ w.at = "upsert"
      /\ w.left # {}
  BY <1>1 DEF RefInv, RunsHonest, Reference!UpsertLine
<1>3. PICK j, line, left, rows, keys, stats :
        /\ j = (CHOOSE m \in w.left : \A i \in w.left : m <= i) /\ line = w.file[j]
        /\ left = {h \in w.left : \E i \in w.left : i < h}
        /\ rows = Reference!UpsertRow(w.rows, line, w.run) /\ keys = w.keys \cup {line.key}
        /\ stats = Reference!Counted(w.stats, w.rows, line)
  OBVIOUS
<1>4. new = [w EXCEPT !.left = left, !.rows = rows, !.keys = keys, !.stats = stats]
  BY <1>1, <1>3 DEF Reference!UpsertLine
<1>5. Fielded(w) /\ FileFits(w.table, w.file) /\ w.left \subseteq Reference!Parsed(w.table, w.file)
  BY <1>2 DEF ImportFits
<1>6. j \in w.left
  <2>1. w.left \subseteq Nat
    BY <1>5, OperationsAssumption DEF FileFits, Reference!Parsed
  <2>2. \E m \in w.left : \A i \in w.left : m <= i
    BY <1>2, <2>1, LeastNatural
  <2> QED
    BY <1>3, <2>2, Zenon
<1>7. IsTake(w, new, left, rows, stats, keys)
  BY <1>4, <1>5, WorkTaken, Zenon
<1>8. left \in SUBSET w.left
  BY <1>3
<1>9. ImportFits(new, tables, imports)
  <2>1. IsTake(w, new, left, Reference!UpsertRow(w.rows, line, w.run),
               Reference!Counted(w.stats, w.rows, line), w.keys \cup {line.key})
    BY <1>3, <1>7
  <2>2. line = w.file[j]
    BY <1>3
  <2> QED
    BY <1>2, <1>6, <1>8, <2>1, <2>2, LineFits
<1>10. UNCHANGED <<instruments, constituents, imports, downloads>>
  BY DEF Reference!UpsertLine
<1>11. RefDownloads'
  BY <1>10 DEF RefInv, RefDownloads
<1> QED
  BY <1>1, <1>9, <1>10, <1>11, RefStays

LEMMA CommitRowsStep ==
  ASSUME RefInv, Reference!CommitRows
  PROVE  RefInv' /\ Reference!KeysStay
<1>1. PICK w, tables, new, after, runs : /\ w = importing /\ tables = TableMap /\ new = importing'
                                         /\ after = TableMap' /\ runs = imports
  OBVIOUS
<1>2. /\ ImportFits(w, tables, runs) /\ RunsHonest(runs, tables) /\ w.at = "upsert"
      /\ TablesFit(tables, Len(runs)) /\ UNCHANGED <<imports, downloads>>
  BY <1>1 DEF RefInv, Reference!CommitRows
<1>3. PICK gone, rows : gone = Gone(w.table, w.rows, w.keys) /\ rows = Reference!SwitchedOff(w.rows, gone)
  OBVIOUS
<1>4. PICK off : off = IF w.table = "instruments" THEN gone ELSE {k \in gone : w.rows[k].active}
  OBVIOUS
<1>5. PICK n, stats : n = w.stats.deactivated + Cardinality(off) /\ stats = [w.stats EXCEPT !.deactivated = n]
  OBVIOUS
<1>6. /\ new = [w EXCEPT !.at = "finish", !.rows = <<>>, !.stats = stats]
      /\ w.table = "instruments" => instruments' = rows /\ UNCHANGED constituents
      /\ w.table # "instruments" => constituents' = rows /\ UNCHANGED instruments
  BY <1>1, <1>3, <1>4, <1>5, RefCounts DEF Reference!CommitRows, Gone
<1>7. /\ Fielded(w) /\ CountsFit(w.stats, w.rows, w.run) /\ w.table \in Reference!Tables
      /\ Opened(w.table, tables[w.table], w.rows, w.keys, w.run)
  BY <1>2 DEF ImportFits
<1>8. IsCommit(w, new, stats)
  BY <1>6, <1>7, WorkCommits, Zenon
<1>9. stats \in CountType /\ SumsUp(stats) /\ stats.inserted = w.stats.inserted
  <2>1. off \subseteq DOMAIN w.rows
    BY <1>3, <1>4 DEF Gone
  <2>2. IsFiniteSet(off) /\ Cardinality(off) \in Nat
    BY <1>7, <2>1, FS_Subset, FS_CardinalityType DEF Opened, TableTyped
  <2>3. PICK s : s = w.stats
    OBVIOUS
  <2>4. s \in CountType /\ SumsUp(s) /\ stats = [s EXCEPT !.deactivated = n]
    BY <1>5, <1>7, <2>3 DEF CountsFit
  <2>5. s.deactivated \in Nat
    BY <2>4 DEF CountType
  <2>6. n \in Nat
    BY <1>5, <2>2, <2>3, <2>5
  <2>7. stats \in CountType /\ SumsUp(stats) /\ stats.inserted = s.inserted
    BY <2>4, <2>6, OffCounted
  <2> QED
    BY <2>3, <2>7
<1>10. /\ DOMAIN after = Reference!Tables /\ after[w.table] = rows
       /\ \A t \in Reference!Tables : t # w.table => after[t] = tables[t]
  <2>2. after["instruments"] = instruments' /\ after["constituents"] = constituents'
    BY <1>1 DEF TableMap, Reference!Tables, Reference!RowsOf
  <2>3. tables["instruments"] = instruments /\ tables["constituents"] = constituents
    BY <1>1 DEF TableMap, Reference!Tables, Reference!RowsOf
  <2>4. DOMAIN after = Reference!Tables
    BY <1>1 DEF TableMap
  <2> QED
    BY <1>6, <1>7, <2>2, <2>3, <2>4 DEF Reference!Tables
<1>11. /\ TablesFit(after, Len(runs)) /\ RunsHonest(runs, after) /\ ImportFits(new, after, runs)
       /\ FirstsKept(tables, after)
  <2>1. rows = Reference!SwitchedOff(w.rows, Gone(w.table, w.rows, w.keys))
    BY <1>3
  <2> QED
    BY <1>2, <1>8, <1>9, <1>10, <2>1, CommitFits
<1>12. RefDownloads'
  BY <1>2 DEF RefInv, RefDownloads
<1>13. Reference!KeysStay
  BY <1>1, <1>11, KeysKept DEF FirstsKept
<1> QED
  BY <1>1, <1>2, <1>11, <1>12, <1>13 DEF RefInv

LEMMA FinishRun ==
  ASSUME RefInv, importing.at # "idle", NEW error \in BOOLEAN, NEW stats \in CountType, SumsUp(stats),
         error \/ CountsFit(stats, TableMap[importing.table], importing.run),
         Reference!Finish(error, stats)
  PROVE  RefInv' /\ Reference!KeysStay
<1>1. PICK r, old, row : /\ r = importing.run /\ old = imports[r]
                         /\ row = [old EXCEPT !.done = TRUE, !.error = error, !.stats = stats]
  OBVIOUS
<1>2. /\ imports' = [imports EXCEPT ![r] = row] /\ importing' = Reference!Idle
      /\ UNCHANGED <<instruments, constituents, downloads>>
  BY <1>1 DEF Reference!Finish
<1>3. /\ r \in DOMAIN imports /\ old \in ImportType /\ old.table = importing.table
      /\ RunsHonest(imports, TableMap)
  BY <1>1 DEF RefInv, ImportFits, RunsHonest
<1>4. /\ row \in ImportType
      /\ row.table = old.table /\ row.done = TRUE /\ row.error = error /\ row.stats = stats
  <2>1. IsEnd(old, row, error, stats)
    BY <1>1, <1>3, RunEnded, Zenon
  <2> QED
    BY <2>1, Zenon DEF IsEnd
<1>5. ~row.error => row.stats.inserted = Cardinality(FirstSeen(TableMap[row.table], r))
  BY <1>1, <1>3, <1>4 DEF CountsFit
<1>6. RunsHonest(imports', TableMap) /\ Len(imports') = Len(imports)
  <2>1. PICK tables, runs, after : tables = TableMap /\ runs = imports /\ after = imports'
    OBVIOUS
  <2>2. row.table = runs[r].table /\ SumsUp(row.stats) /\ after = [runs EXCEPT ![r] = row]
    BY <1>1, <1>2, <1>4, <2>1
  <2>3. RunsHonest(runs, tables) /\ r \in DOMAIN runs
    BY <1>3, <2>1
  <2>4. ~row.error => row.stats.inserted = Cardinality(FirstSeen(tables[row.table], r))
    BY <1>5, <2>1
  <2>5. RunsHonest(after, tables)
    BY <1>4, <2>2, <2>3, <2>4, FinishFits
  <2>6. Len(after) = Len(runs)
    BY <2>2, <2>3, <2>5 DEF RunsHonest
  <2> QED
    BY <2>1, <2>5, <2>6
<1>7. TableMap' = TableMap
  BY <1>2, MapStays
<1>8. RefDownloads'
  BY <1>2 DEF RefInv, RefDownloads
<1>9. Reference!KeysStay
  BY <1>7, KeysKept
<1>10. ImportFits(importing', TableMap', imports')
  BY <1>2, IdleImport
<1> QED
  BY <1>6, <1>7, <1>8, <1>9, <1>10 DEF RefInv

LEMMA RefStep ==
  ASSUME RefInv, Reference!Next
  PROVE  RefInv' /\ Reference!KeysStay
<1>1. ASSUME NEW f \in InstrumentFiles, Reference!Download("instruments", f)
      PROVE  RefInv' /\ Reference!KeysStay
  <2>1. "instruments" \in Reference!Tables /\ FileFits("instruments", f)
    BY <1>1 DEF Reference!Tables, FileFits
  <2> QED
    BY <1>1, <2>1, DownloadStep
<1>2. ASSUME NEW f \in ConstituentFiles, Reference!Download("constituents", f)
      PROVE  RefInv' /\ Reference!KeysStay
  <2>1. "constituents" \in Reference!Tables /\ FileFits("constituents", f)
    BY <1>2 DEF Reference!Tables, FileFits
  <2> QED
    BY <1>2, <2>1, DownloadStep
<1>3. CASE Reference!FinishImport
  <2>1. importing.at = "finish" /\ Reference!Finish(FALSE, importing.stats)
    BY <1>3 DEF Reference!FinishImport
  <2>2. CountsFit(importing.stats, TableMap[importing.table], importing.run)
    BY <2>1 DEF RefInv, ImportFits
  <2>3. importing.stats \in CountType /\ SumsUp(importing.stats)
    BY <2>2 DEF CountsFit
  <2> QED
    BY <2>1, <2>2, <2>3, FinishRun
<1>4. CASE Reference!FailImport
  <2>1. CASE importing.at \in {"begin", "upsert"} /\ Reference!Finish(TRUE, Reference!NoStats)
    BY <2>1, NoStatsTyped, FinishRun
  <2>2. CASE importing.at = "finish" /\ Reference!Finish(TRUE, importing.stats)
    <3>1. CountsFit(importing.stats, TableMap[importing.table], importing.run)
      BY <2>2 DEF RefInv, ImportFits
    <3>2. importing.stats \in CountType /\ SumsUp(importing.stats)
      BY <3>1 DEF CountsFit
    <3> QED
      BY <2>2, <3>2, FinishRun
  <2> QED
    BY <1>4, <2>1, <2>2 DEF Reference!FailImport
<1>5. CASE Reference!ProcessDies
  <2>1. /\ downloads' = {} /\ importing' = Reference!Idle
        /\ UNCHANGED <<instruments, constituents, imports>>
    BY <1>5 DEF Reference!ProcessDies
  <2>2. RefDownloads'
    BY <2>1 DEF RefDownloads
  <2> QED
    BY <2>1, <2>2, IdleImport, RefStays
<1> QED
  BY <1>1, <1>2, <1>3, <1>4, <1>5, DownloadFailsStep, StartStep, ImportBeginStep, LineStep, CommitRowsStep
     DEF Reference!Next

LEMMA RefInit == Reference!Init => RefInv
<1> SUFFICES ASSUME Reference!Init PROVE RefInv
  OBVIOUS
<1>1. /\ constituents = <<>> /\ imports = <<>> /\ downloads = {} /\ importing = Reference!Idle
      /\ \/ instruments = <<>>
         \/ instruments = [k \in OldListings |-> [hash |-> 1, active |-> TRUE, first |-> 0, last |-> 0]]
  BY Zenon DEF Reference!Init
<1>2. ASSUME NEW t, NEW rows, rows = <<>> PROVE TableFits(t, rows, 0)
  <2>1. DOMAIN rows = {} /\ IsFiniteSet({})
    BY <1>2, FS_EmptySet
  <2> QED
    BY <2>1 DEF TableFits, TableTyped, NewestActive, ForeignUnseen, SeenBy
<1>3. ASSUME NEW t, NEW rows,
             rows = [k \in OldListings |-> [hash |-> 1, active |-> TRUE, first |-> 0, last |-> 0]]
      PROVE  TableFits(t, rows, 0)
  <2>1. DOMAIN rows = OldListings /\ IsFiniteSet(OldListings)
    BY <1>3, OperationsAssumption
  <2>2. \A k \in DOMAIN rows : /\ rows[k].first = 0 /\ rows[k].last = 0 /\ rows[k].active
                               /\ rows[k] \in ListingRow
    BY <1>3 DEF ListingRow, Hashes
  <2> QED
    BY <2>1, <2>2 DEF TableFits, TableTyped, NewestActive, ForeignUnseen, SeenBy
<1>4. TableMap["instruments"] = instruments /\ TableMap["constituents"] = constituents
  BY DEF TableMap, Reference!Tables, Reference!RowsOf
<1>5. TablesFit(TableMap, Len(imports))
  <2>1. Len(imports) = 0
    BY <1>1
  <2>2. TableFits("instruments", instruments, 0) /\ TableFits("constituents", constituents, 0)
    BY <1>1, <1>2, <1>3
  <2> QED
    BY <1>4, <2>1, <2>2 DEF TablesFit, Reference!Tables
<1>6. RunsHonest(imports, TableMap)
  BY <1>1 DEF RunsHonest
<1>7. ImportFits(importing, TableMap, imports)
  BY <1>1, IdleImport
<1> QED
  BY <1>1, <1>5, <1>6, <1>7 DEF RefInv, RefDownloads

LEMMA RefSafe == RefInv => Reference!ReferenceTruthful
<1> SUFFICES ASSUME RefInv PROVE Reference!ReferenceTruthful
  OBVIOUS
<1>1. TableMap["instruments"] = instruments /\ TableMap["constituents"] = constituents
  BY DEF TableMap, Reference!Tables, Reference!RowsOf
<1>2. TableFits("instruments", instruments, Len(imports)) /\ TableFits("constituents", constituents, Len(imports))
  BY <1>1 DEF RefInv, TablesFit, Reference!Tables
<1>3. Reference!ActiveIsNewest(instruments) /\ Reference!ActiveIsNewest(constituents)
  BY <1>2, NewestIsActive DEF TableFits
<1>4. Reference!CountsAddUp
  <2>1. ASSUME NEW r \in DOMAIN imports
        PROVE  /\ SumsUp(imports[r].stats)
               /\ imports[r].done /\ ~imports[r].error =>
                    imports[r].stats.inserted =
                      Reference!Cardinality({k \in DOMAIN Reference!RowsOf(imports[r].table) :
                                               Reference!RowsOf(imports[r].table)[k].first = r})
    <3>1. imports[r] \in ImportType
      BY <2>1 DEF RefInv, RunsHonest
    <3>2. TableMap[imports[r].table] = Reference!RowsOf(imports[r].table)
      BY <3>1, MapReads DEF ImportType
    <3>3. /\ SumsUp(imports[r].stats)
          /\ imports[r].done /\ ~imports[r].error =>
               imports[r].stats.inserted = Cardinality(FirstSeen(Reference!RowsOf(imports[r].table), r))
      BY <3>2, <2>1 DEF RefInv, RunsHonest
    <3> QED
      BY <3>3, RefCounts DEF FirstSeen
  <2> QED
    BY <2>1 DEF Reference!CountsAddUp, SumsUp
<1>5. \A k \in Reference!Studied : k.segment = SegmentFilter \/ instruments[k].last = 0
  BY <1>2 DEF TableFits, ForeignUnseen, Reference!Studied, Reference!Own
<1> QED
  BY <1>3, <1>4, <1>5 DEF Reference!ReferenceTruthful

LEMMA ReferenceInvariant ==
  Spec => [](system = "reference" => RefInv) /\ [][system = "reference" => Reference!KeysStay]_vars
<1>1. Init => (system = "reference" => RefInv)
  BY RefInit DEF Init
<1>2. (system = "reference" => RefInv) /\ [Next]_vars => (system = "reference" => RefInv)'
  <2> SUFFICES ASSUME system = "reference" => RefInv, [Next]_vars, system' = "reference" PROVE RefInv'
    OBVIOUS
  <2>1. CASE UNCHANGED vars
    <3>1. system' = system /\ UNCHANGED <<instruments, constituents, imports, downloads, importing>>
      BY <2>1 DEF vars, refVars
    <3>2. RefInv /\ ImportFits(importing', TableMap, imports)
      BY <3>1 DEF RefInv
    <3>3. RefDownloads'
      BY <3>1, <3>2 DEF RefInv, RefDownloads
    <3> QED
      BY <3>1, <3>2, <3>3, RefStays
  <2>2. CASE Next
    BY <2>2, RefStep DEF Next, OthersStay
  <2> QED
    BY <2>1, <2>2
<1>3. (system = "reference" => RefInv) /\ [Next]_vars => [system = "reference" => Reference!KeysStay]_vars
  BY RefStep DEF Next, OthersStay
<1> QED
  BY <1>1, <1>2, <1>3, PTL DEF Spec

\* Whatever the files hold and wherever an import fails or the process dies, in
\* each table exactly the rows last seen by the newest import that committed
\* rows are active, a finished import's counts add up and count the keys it was
\* the first to see, and nothing of another segment is studied once an import
\* saw it (instrument_master.py, index_universe.py).
THEOREM ReferenceTrue == Spec => []ReferenceTruthful
<1>1. (system = "reference" => RefInv) => ReferenceTruthful
  BY RefSafe DEF ReferenceTruthful
<1> QED
  BY <1>1, ReferenceInvariant, PTL

\* So whatever run or import reports an end, its report is what it left in the
\* store (the files of Truthful and ReferenceTrue).
THEOREM RunsTrue == Spec => []RunsTruthful
<1>1. ScansTruthful /\ ReferenceTruthful => RunsTruthful
  BY DEF RunsTruthful
<1> QED
  BY <1>1, Truthful, ReferenceTrue, PTL

\* A listing once stored stays and keeps the run that first saw it (same files).
THEOREM ReferenceKept == Spec => [][system = "reference" => Reference!KeysStay]_vars
BY ReferenceInvariant, PTL

-----------------------------------------------------------------------------
(* The demo desk                                                             *)

CandidateType ==
  [date : Nat, status : {"active", "ignored"} \cup Shown, review : Reviews, expires : Int,
   checked : Nat, order : Nat]
HitsFit(hs) == (\E n \in Nat : DOMAIN hs = 1 .. n) /\ \A h \in DOMAIN hs : hs[h] \in Nat

\* A candidate is of its hit's session, alone of it, and shows an order of it.
CandidateFits(c, h, hs, os, n) ==
  /\ c \in CandidateType /\ h \in DOMAIN hs /\ c.date = hs[h] /\ c.checked >= c.date
  /\ c.order < n /\ (c.order \in DOMAIN os => os[c.order].date = c.date)
CandidatesFit(cs, hs, os, n) ==
  /\ \A h \in DOMAIN cs : CandidateFits(cs[h], h, hs, os, n)
  /\ \A g, h \in DOMAIN cs : cs[g].date = cs[h].date => g = h

OrderFits(o, hs) ==
  /\ o \in DeskOrder /\ o.hit \in DOMAIN hs /\ o.date = hs[o.hit] /\ o.plan.after >= o.date
OrdersFit(os, hs, n) ==
  /\ n \in Nat \ {0} /\ DOMAIN os \subseteq 1 .. n - 1
  /\ \A i \in DOMAIN os : OrderFits(os[i], hs)
  /\ \A i, j \in DOMAIN os : os[i].date = os[j].date => i = j

\* What a position has counted are the candles since its entry.
Counts(p, cds) ==
  /\ p.latest <= Len(cds)
  /\ p.latest = 0 => p.holding = 0
  /\ p.latest # 0 => p.entry <= p.latest /\ p.holding = p.latest - p.entry + 1
  /\ p.holding <= MaxHolding /\ (p.status = "open" => p.holding < MaxHolding)
  /\ p.status = "closed" <=> p.reason # ""
  /\ p.status = "open" /\ p.latest # 0 =>
       \A k \in p.entry .. p.latest : cds[k].low > p.stop /\ cds[k].high < p.target
PositionFits(p, o, cds) ==
  p \in DeskPosition /\ o.status = "filled" /\ p.entry > o.date /\ Counts(p, cds)
PositionsFit(ps, os, cds) ==
  DOMAIN ps \subseteq DOMAIN os /\ \A i \in DOMAIN ps : PositionFits(ps[i], os[i], cds)

\* A label says nothing that the reason of the close excludes.
LabelFits(label, reason) ==
  /\ label = "winner" => reason \in {"TARGET", "TIME_EXIT"}
  /\ label = "failure" => reason \in {"STOP_LOSS", "TIME_EXIT"}
OutcomeFits(oc, i, ps, os, n) ==
  /\ i \in Nat /\ i < n /\ (i \in DOMAIN os => i \in DOMAIN ps)
  /\ i \in DOMAIN ps => oc.entry = ps[i].entry /\ LabelFits(oc.label, ps[i].reason)
OutcomesFit(ocs, ps, os, n, missed) ==
  /\ \A i \in DOMAIN ocs : OutcomeFits(ocs[i], i, ps, os, n)
  /\ \A i \in DOMAIN ps : ps[i].status = "closed" /\ i \notin missed =>
       i \in DOMAIN ocs /\ ocs[i].status = "closed"

SnapshotsFit(sn, hs) == \A h \in DOMAIN sn : h \in DOMAIN hs /\ sn[h] <= hs[h]

AccountFits(ac, ps) ==
  /\ ac \in [cash : Int, realized : Int] /\ ac.realized = DeskGain(ps)
  /\ ac.cash = InitialCash + ac.realized - DeskCost(ps)

TaskFits(a, hs, cs, os, ps) ==
  /\ a.do \in {"candidate", "enter"} => a.id \in DOMAIN cs /\ cs[a.id].status = "active"
  /\ a.do = "enter" => a.session \in Nat /\ a.session >= hs[a.id]
  /\ a.do = "place" => a.id \in DOMAIN hs /\ a.plan \in DeskPlan /\ a.plan.after >= hs[a.id]
  /\ a.do = "fill" => a.id \in DOMAIN os /\ os[a.id].status = "pending_entry"
  /\ a.do = "position" => a.id \in DOMAIN ps /\ ps[a.id].status = "open"
  /\ a.do = "outcome" => a.id \in DOMAIN ps
WorkSuits(w, hs, cs, os, ps) ==
  Agenda(w) /\ \A a \in ItemsOf(w) : TaskFits(a, hs, cs, os, ps)

DeskInv ==
  /\ candles \in Seq(Candles) /\ HitsFit(hits)
  /\ CandidatesFit(candidates, hits, orders, nextOrder)
  /\ OrdersFit(orders, hits, nextOrder)
  /\ PositionsFit(positions, orders, candles)
  /\ OutcomesFit(outcomes, positions, orders, nextOrder, unlearned)
  /\ SnapshotsFit(snapshots, hits)
  /\ AccountFits(account, positions)
  /\ WorkSuits(work, hits, candidates, orders, positions)

LEMMA NoWork ==
  ASSUME NEW hs, NEW cs, NEW os, NEW ps
  PROVE  WorkSuits(<<>>, hs, cs, os, ps)
<1>1. DOMAIN <<>> = {} /\ ItemsOf(<<>>) = {}
  BY DEF ItemsOf
<1>2. <<>> \in Seq({})
  OBVIOUS
<1> QED
  BY <1>1, <1>2 DEF WorkSuits, Agenda

LEMMA DeskCounts == \A S : Desk!Cardinality(S) = Cardinality(S)
BY Zenon DEF Desk!Cardinality, Cardinality

LEMMA FillList ==
  ASSUME OrdersFit(orders, hits, nextOrder)
  PROVE  ListFits(Desk!InOrder(Desk!pending_orders), Desk!pending_orders)
<1> DEFINE S == Desk!pending_orders
           R == {t \in Nat \X Nat : t[1] < t[2]}
<1>1. S \subseteq 1 .. nextOrder - 1 /\ nextOrder \in Nat
  BY DEF Desk!pending_orders, OrdersFit
<1>2. IsFiniteSet(S) /\ Cardinality(S) \in Nat
  <2>1. IsFiniteSet(1 .. nextOrder - 1)
    BY <1>1, FS_Interval
  <2> HIDE DEF S
  <2> QED
    BY <1>1, <2>1, FS_Subset, FS_CardinalityType
<1>3. (\A x \in S : x \in Nat) /\ \A x, y \in S : <<x, y>> \in R <=> x < y
  BY <1>1
<1> HIDE DEF S, R
<1>4. StrictOrder(R, S)
  <2>1. \A x, y \in S : x # y => x < y \/ y < x
    BY <1>3
  <2>2. \A x, y, z \in S : x < y /\ y < z => x < z
    BY <1>3
  <2>3. \A x \in S : ~(x < x)
    BY <1>3
  <2> QED
    BY <1>3, <2>1, <2>2, <2>3, Zenon DEF StrictOrder
<1>5. \E s \in [1 .. Cardinality(S) -> S] :
         \A j, k \in 1 .. Cardinality(S) : j < k => s[j] # s[k] /\ <<s[j], s[k]>> \in R
  BY <1>2, <1>4, ListOfFinite DEF Lists
<1>6. PICK n : n = Cardinality(S)
  OBVIOUS
<1>7. \E s \in [1 .. n -> S] : \A j, k \in DOMAIN s : j < k => s[j] # s[k] /\ s[j] <= s[k]
  <2>1. PICK s \in [1 .. n -> S] :
          \A j, k \in 1 .. n : j < k => s[j] # s[k] /\ <<s[j], s[k]>> \in R
    BY <1>5, <1>6
  <2>2. \A j \in DOMAIN s : j \in 1 .. n /\ s[j] \in S /\ s[j] \in Nat
    BY <1>3, <2>1
  <2>3. \A x, y \in S : <<x, y>> \in R => x <= y
    BY <1>3
  <2>4. \A j, k \in DOMAIN s : j < k => s[j] # s[k] /\ s[j] <= s[k]
    BY <2>1, <2>2, <2>3
  <2> QED
    BY <2>4
<1>8. Desk!InOrder(S) =
        (CHOOSE s \in [1 .. n -> S] : \A j, k \in DOMAIN s : j < k => s[j] # s[k] /\ s[j] <= s[k])
  BY <1>6, DeskCounts DEF Desk!InOrder, Desk!Sorted
<1>9. PICK s : s = Desk!InOrder(S)
  OBVIOUS
<1>10. s \in [1 .. n -> S] /\ \A j, k \in DOMAIN s : j < k => s[j] # s[k] /\ s[j] <= s[k]
  <2> DEFINE Fine(q) == \A j, k \in DOMAIN q : j < k => q[j] # q[k] /\ q[j] <= q[k]
  <2>1. (\E q \in [1 .. n -> S] : Fine(q)) /\ s = (CHOOSE q \in [1 .. n -> S] : Fine(q))
    BY <1>7, <1>8, <1>9
  <2> HIDE DEF Fine
  <2>2. s \in [1 .. n -> S] /\ Fine(s)
    BY <2>1
  <2> QED
    BY <2>2 DEF Fine
<1> QED
  BY <1>2, <1>6, <1>9, <1>10 DEF ListFits, S

LEMMA PositionList ==
  ASSUME OrdersFit(orders, hits, nextOrder), PositionsFit(positions, orders, candles)
  PROVE  ListFits(Desk!Sorted(Desk!open_positions, Desk!Earliest), Desk!open_positions)
<1> DEFINE S == Desk!open_positions
           R == {t \in Nat \X Nat : Desk!Earliest(t[1], t[2])}
<1>1. S \subseteq 1 .. nextOrder - 1 /\ nextOrder \in Nat /\ S \subseteq DOMAIN positions
  BY DEF Desk!open_positions, OrdersFit, PositionsFit
<1>2. IsFiniteSet(S) /\ Cardinality(S) \in Nat
  <2>1. IsFiniteSet(1 .. nextOrder - 1)
    BY <1>1, FS_Interval
  <2> HIDE DEF S
  <2> QED
    BY <1>1, <2>1, FS_Subset, FS_CardinalityType
<1>3. \A x, y \in S : x \in Nat /\ (<<x, y>> \in R <=> Desk!Earliest(x, y))
  BY <1>1
<1>4. \A x \in S : x \in Nat /\ positions[x].entry \in Nat
  <2> HIDE DEF S
  <2>1. \A x \in S : positions[x] \in DeskPosition
    BY <1>1, Zenon DEF PositionsFit, PositionFits
  <2>2. \A x \in S : x \in Nat
    BY <1>1
  <2> QED
    BY <2>1, <2>2 DEF DeskPosition
<1> HIDE DEF S, R
<1>5. StrictOrder(R, S)
  BY <1>3, <1>4 DEF StrictOrder, Desk!Earliest
<1>6. \E s \in [1 .. Cardinality(S) -> S] :
         \A j, k \in 1 .. Cardinality(S) : j < k => s[j] # s[k] /\ <<s[j], s[k]>> \in R
  BY <1>2, <1>5, ListOfFinite DEF Lists
<1>7. PICK n : n = Cardinality(S)
  OBVIOUS
<1>8. \E s \in [1 .. n -> S] :
         \A j, k \in DOMAIN s : j < k => s[j] # s[k] /\ Desk!Earliest(s[j], s[k])
  BY <1>3, <1>6, <1>7
<1>9. Desk!Sorted(S, Desk!Earliest) =
        (CHOOSE s \in [1 .. n -> S] :
           \A j, k \in DOMAIN s : j < k => s[j] # s[k] /\ Desk!Earliest(s[j], s[k]))
  BY <1>7, DeskCounts DEF Desk!Sorted
<1>10. PICK s : s = Desk!Sorted(S, Desk!Earliest)
  OBVIOUS
<1>11. s \in [1 .. n -> S] /\ \A j, k \in DOMAIN s : j < k => s[j] # s[k] /\ Desk!Earliest(s[j], s[k])
  <2> DEFINE Fine(q) == \A j, k \in DOMAIN q : j < k => q[j] # q[k] /\ Desk!Earliest(q[j], q[k])
  <2>1. (\E q \in [1 .. n -> S] : Fine(q)) /\ s = (CHOOSE q \in [1 .. n -> S] : Fine(q))
    BY <1>8, <1>9, <1>10
  <2> HIDE DEF Fine
  <2>2. s \in [1 .. n -> S] /\ Fine(s)
    BY <2>1
  <2> QED
    BY <2>2 DEF Fine
<1> QED
  BY <1>2, <1>7, <1>10, <1>11 DEF ListFits, S

LEMMA CandidateList ==
  ASSUME HitsFit(hits), CandidatesFit(candidates, hits, orders, nextOrder)
  PROVE  ListFits(Desk!Sorted(Desk!active, Desk!Earlier), Desk!active)
<1> DEFINE S == Desk!active
           R == {t \in Nat \X Nat : Desk!Earlier(t[1], t[2])}
<1>0. PICK m \in Nat : DOMAIN hits = 1 .. m
  BY DEF HitsFit
<1>1. S \subseteq 1 .. m /\ S \subseteq DOMAIN candidates
  BY <1>0 DEF Desk!active, CandidatesFit, CandidateFits
<1>2. IsFiniteSet(S) /\ Cardinality(S) \in Nat
  <2>1. IsFiniteSet(1 .. m)
    BY <1>1, FS_Interval
  <2> HIDE DEF S
  <2> QED
    BY <1>1, <2>1, FS_Subset, FS_CardinalityType
<1>3. \A x, y \in S : x \in Nat /\ (<<x, y>> \in R <=> Desk!Earlier(x, y))
  BY <1>1
<1>4. \A x \in S : x \in Nat /\ candidates[x].date \in Nat
  <2> HIDE DEF S
  <2>1. \A x \in S : candidates[x] \in CandidateType
    BY <1>1, Zenon DEF CandidatesFit, CandidateFits
  <2>2. \A x \in S : x \in Nat
    BY <1>1
  <2> QED
    BY <2>1, <2>2 DEF CandidateType
<1> HIDE DEF S, R
<1>5. StrictOrder(R, S)
  BY <1>3, <1>4 DEF StrictOrder, Desk!Earlier
<1>6. \E s \in [1 .. Cardinality(S) -> S] :
         \A j, k \in 1 .. Cardinality(S) : j < k => s[j] # s[k] /\ <<s[j], s[k]>> \in R
  BY <1>2, <1>5, ListOfFinite DEF Lists
<1>7. PICK n : n = Cardinality(S)
  OBVIOUS
<1>8. \E s \in [1 .. n -> S] :
         \A j, k \in DOMAIN s : j < k => s[j] # s[k] /\ Desk!Earlier(s[j], s[k])
  BY <1>3, <1>6, <1>7
<1>9. Desk!Sorted(S, Desk!Earlier) =
        (CHOOSE s \in [1 .. n -> S] :
           \A j, k \in DOMAIN s : j < k => s[j] # s[k] /\ Desk!Earlier(s[j], s[k]))
  BY <1>7, DeskCounts DEF Desk!Sorted
<1>10. PICK s : s = Desk!Sorted(S, Desk!Earlier)
  OBVIOUS
<1>11. s \in [1 .. n -> S] /\ \A j, k \in DOMAIN s : j < k => s[j] # s[k] /\ Desk!Earlier(s[j], s[k])
  <2> DEFINE Fine(q) == \A j, k \in DOMAIN q : j < k => q[j] # q[k] /\ Desk!Earlier(q[j], q[k])
  <2>1. (\E q \in [1 .. n -> S] : Fine(q)) /\ s = (CHOOSE q \in [1 .. n -> S] : Fine(q))
    BY <1>8, <1>9, <1>10
  <2> HIDE DEF Fine
  <2>2. s \in [1 .. n -> S] /\ Fine(s)
    BY <2>1
  <2> QED
    BY <2>2 DEF Fine
<1> QED
  BY <1>2, <1>7, <1>10, <1>11 DEF ListFits, S

LEMMA ListAgenda ==
  ASSUME NEW S, NEW s, ListFits(s, S), NEW what \in {"candidate", "fill", "position"}
  PROVE  /\ Agenda(Desk!Calls(what, s))
         /\ \A a \in ItemsOf(Desk!Calls(what, s)) : a.do = what /\ a.id \in S
<1> DEFINE w == Desk!Calls(what, s)
<1>1. PICK n \in Nat : s \in [1 .. n -> S] /\ \A j, k \in 1 .. n : j < k => s[j] # s[k]
  BY DEF ListFits
<1>2. DOMAIN w = 1 .. n /\ \A k \in 1 .. n : w[k] = [do |-> what, id |-> s[k]]
  BY <1>1 DEF Desk!Calls
<1>3. w = [k \in 1 .. n |-> w[k]]
  BY <1>1 DEF Desk!Calls
<1> HIDE DEF w
<1>4. \A k \in 1 .. n : w[k].do = what /\ w[k].id = s[k] /\ s[k] \in S
  BY <1>1, <1>2
<1>5. w \in Seq(ItemsOf(w))
  <2>1. \A k \in 1 .. n : w[k] \in ItemsOf(w)
    BY <1>2 DEF ItemsOf
  <2> QED
    BY <1>3, <2>1
<1>6. \A j, k \in DOMAIN w : j < k => Behind(w[j], w[k])
  BY <1>1, <1>2, <1>4 DEF Behind
<1> QED
  BY <1>2, <1>4, <1>5, <1>6 DEF Agenda, ItemsOf, w

\* A fill, a mark and a close.
LEMMA FillMoves ==
  ASSUME NEW ps, NEW i, i \notin DOMAIN ps, NEW p, NEW qs, qs = Desk!Put(ps, i, p),
         p.status = "open", PricesTyped(ps), PricesTyped(qs)
  PROVE  Moves(ps, qs, p.price, 0)
<1>1. /\ DOMAIN qs = DOMAIN ps \cup {i} /\ qs[i] = p /\ \A j \in DOMAIN ps : qs[j] = ps[j]
  BY DEF Desk!Put
<1>2. CostsMore(ps, qs, i)
  <2>1. OpenIds(qs) = OpenIds(ps) \cup {i} /\ i \notin OpenIds(ps)
    BY <1>1 DEF OpenIds
  <2>2. \A j \in OpenIds(ps) : qs[j].price = ps[j].price
    BY <1>1 DEF OpenIds
  <2> QED
    BY <2>1, <2>2, MoreCost, Zenon
<1>3. DeskGain(qs) = DeskGain(ps)
  <2>1. ClosedIds(qs) = ClosedIds(ps)
    BY <1>1 DEF ClosedIds
  <2>2. \A j \in ClosedIds(ps) : qs[j].price = ps[j].price /\ qs[j].exit = ps[j].exit
    BY <1>1 DEF ClosedIds
  <2> QED
    BY <2>1, <2>2, SameGain
<1> QED
  BY <1>1, <1>2, <1>3, SumsTyped DEF Moves, CostsMore, GainsMore

LEMMA DeskSums == \A f, S : Desk!SumFunctionOnSet(f, S) = SumFunctionOnSet(f, S)
BY Zenon DEF Desk!SumFunctionOnSet, SumFunctionOnSet, Desk!FoldFunctionOnSet, FoldFunctionOnSet,
             Desk!MapThenFoldSet, MapThenFoldSet

LEMMA PositionsTyped ==
  ASSUME NEW ps, NEW os, NEW cds, NEW hs, NEW n, OrdersFit(os, hs, n), PositionsFit(ps, os, cds)
  PROVE  PricesTyped(ps) /\ \A i \in DOMAIN ps : ps[i] \in DeskPosition
<1>1. DOMAIN ps \subseteq 1 .. n - 1 /\ n \in Nat
  BY DEF OrdersFit, PositionsFit
<1>2. IsFiniteSet(DOMAIN ps)
  <2>1. IsFiniteSet(1 .. n - 1)
    BY <1>1, FS_Interval
  <2> QED
    BY <1>1, <2>1, FS_Subset
<1>3. \A i \in DOMAIN ps : ps[i] \in DeskPosition
  BY Zenon DEF PositionsFit, PositionFits
<1>4. \A i \in DOMAIN ps : ps[i].price \in Int /\ ps[i].exit \in Int
  BY <1>3 DEF DeskPosition
<1> QED
  BY <1>2, <1>3, <1>4 DEF PricesTyped

\* Each order has one row of the journal.
JournalRow(t) ==
  /\ t[1] \in DOMAIN orders
  /\ \/ t[2] = 0 /\ \A h \in DOMAIN candidates : candidates[h].order # t[1]
     \/ t[2] \in DOMAIN candidates /\ candidates[t[2]].order = t[1]

LEMMA JournalRows ==
  ASSUME DeskInv
  PROVE  /\ \A t \in Desk!journal : t = <<t[1], t[2]>> /\ JournalRow(t)
         /\ \A i \in DOMAIN orders : \E t \in Desk!journal : t[1] = i
         /\ IsFiniteSet(Desk!journal)
<1>1. \A t \in Desk!journal : t = <<t[1], t[2]>> /\ JournalRow(t)
  <2> SUFFICES ASSUME NEW t \in Desk!journal PROVE t = <<t[1], t[2]>> /\ JournalRow(t)
    OBVIOUS
  <2>1. PICK i \in DOMAIN orders, h \in DOMAIN candidates \cup {0} : t = <<i, h>>
    BY DEF Desk!journal
  <2>2. PICK j \in DOMAIN orders :
          t \in IF {g \in DOMAIN candidates : candidates[g].order = j} = {} THEN {<<j, 0>>}
                ELSE {j} \X {g \in DOMAIN candidates : candidates[g].order = j}
    BY DEF Desk!journal
  <2>3. CASE {g \in DOMAIN candidates : candidates[g].order = j} = {}
    BY <2>2, <2>3 DEF JournalRow
  <2>4. CASE {g \in DOMAIN candidates : candidates[g].order = j} # {}
    BY <2>2, <2>4 DEF JournalRow
  <2> QED
    BY <2>3, <2>4
<1>2. \A i \in DOMAIN orders : \E t \in Desk!journal : t[1] = i
  <2> SUFFICES ASSUME NEW i \in DOMAIN orders PROVE \E t \in Desk!journal : t[1] = i
    OBVIOUS
  <2> DEFINE E == {g \in DOMAIN candidates : candidates[g].order = i}
  <2>1. \E h \in DOMAIN candidates \cup {0} : <<i, h>> \in IF E = {} THEN {<<i, 0>>} ELSE {i} \X E
    <3>1. CASE E = {}
      BY <3>1
    <3>2. CASE E # {}
      BY <3>2
    <3> QED
      BY <3>1, <3>2
  <2>2. PICK h \in DOMAIN candidates \cup {0} : <<i, h>> \in IF E = {} THEN {<<i, 0>>} ELSE {i} \X E
    BY <2>1
  <2>3. <<i, h>> \in Desk!journal
    BY <2>2 DEF Desk!journal
  <2> QED
    BY <2>3
<1>3. IsFiniteSet(Desk!journal)
  <2>1. Desk!journal \subseteq (DOMAIN orders) \X (DOMAIN candidates \cup {0})
    BY DEF Desk!journal
  <2>2. PICK m \in Nat : DOMAIN hits = 1 .. m
    BY DEF DeskInv, HitsFit
  <2>3. DOMAIN orders \subseteq 1 .. nextOrder - 1 /\ nextOrder \in Nat
    BY DEF DeskInv, OrdersFit
  <2>4. DOMAIN candidates \cup {0} \subseteq 0 .. m
    BY <2>2 DEF DeskInv, CandidatesFit, CandidateFits
  <2>5. IsFiniteSet(1 .. nextOrder - 1) /\ IsFiniteSet(0 .. m)
    BY <2>3, FS_Interval
  <2>6. IsFiniteSet(DOMAIN orders) /\ IsFiniteSet(DOMAIN candidates \cup {0})
    BY <2>3, <2>4, <2>5, FS_Subset
  <2> QED
    BY <2>1, <2>6, FS_Product, FS_Subset
<1> QED
  BY <1>1, <1>2, <1>3

LEMMA RealizedIsGain ==
  ASSUME DeskInv
  PROVE  Desk!Realized(Desk!journal) = DeskGain(positions)
<1> DEFINE S == Desk!Closed(Desk!journal)
           g == [t \in S |-> t[1]]
           f == [i \in ClosedIds(positions) |-> positions[i].exit - positions[i].price]
           h == [t \in S |-> positions[t[1]].exit - positions[t[1]].price]
<1>1. IsFiniteSet(S)
  <2>1. S \subseteq Desk!journal
    BY DEF Desk!Closed
  <2> QED
    BY <2>1, JournalRows, FS_Subset
<1>2. PricesTyped(positions) /\ DOMAIN positions \subseteq DOMAIN orders
  BY PositionsTyped DEF DeskInv, PositionsFit
<1>3. \A t \in S : /\ t \in Desk!journal /\ t = <<t[1], t[2]>> /\ JournalRow(t)
                   /\ t[1] \in ClosedIds(positions)
  BY JournalRows DEF Desk!Closed, ClosedIds
<1>4. \A i \in ClosedIds(positions) : \E t \in S : t[1] = i
  <2> SUFFICES ASSUME NEW i \in ClosedIds(positions) PROVE \E t \in S : t[1] = i
    OBVIOUS
  <2>1. i \in DOMAIN positions /\ positions[i].status = "closed"
    BY DEF ClosedIds
  <2>2. PICK t \in Desk!journal : t[1] = i
    BY <1>2, <2>1, JournalRows
  <2> QED
    BY <2>1, <2>2 DEF Desk!Closed
<1>5. \A t, u \in S : t[1] = u[1] => t = u
  <2> SUFFICES ASSUME NEW t \in S, NEW u \in S, t[1] = u[1] PROVE t = u
    OBVIOUS
  <2>1. JournalRow(t) /\ JournalRow(u) /\ t = <<t[1], t[2]>> /\ u = <<u[1], u[2]>>
    BY <1>3
  <2>2. \A a \in DOMAIN candidates : candidates[a].order \in DOMAIN orders =>
          orders[candidates[a].order].date = candidates[a].date
    BY DEF DeskInv, CandidatesFit, CandidateFits
  <2>3. \A a, b \in DOMAIN candidates : candidates[a].date = candidates[b].date => a = b
    BY DEF DeskInv, CandidatesFit
  <2>4. t[2] = u[2]
    BY <2>1, <2>2, <2>3 DEF JournalRow
  <2> QED
    BY <2>1, <2>4
<1>6. \A t \in S : h[t] = f[g[t]] /\ h[t] \in Int
  BY <1>2, <1>3 DEF PricesTyped, ClosedIds
<1>7. \A t, u \in S : g[t] = g[u] => t = u
  BY <1>5
<1>8. {g[t] : t \in S} = ClosedIds(positions)
  BY <1>3, <1>4
<1> HIDE DEF g, f, h
<1>9. SumFunctionOnSet(f, {g[t] : t \in S}) = SumFunctionOnSet(h, S)
  <2> HIDE DEF S
  <2> QED
    BY <1>1, <1>6, <1>7, SumImage
<1>10. Desk!Realized(Desk!journal) = SumFunctionOnSet(h, S)
  BY DeskSums DEF Desk!Realized, h
<1> QED
  BY <1>8, <1>9, <1>10 DEF DeskGain, f

LEMMA WinnersAreNotFailures ==
  ASSUME DeskInv
  PROVE  Desk!Winners \cap Desk!Failures = {}
<1> SUFFICES ASSUME NEW t \in Desk!Winners \cap Desk!Failures PROVE FALSE
  OBVIOUS
<1>1. /\ t[1] \in DOMAIN positions
      /\ Desk!Label(t[1]) = "winner" \/ positions[t[1]].reason = "TARGET"
      /\ Desk!Label(t[1]) = "failure" \/ positions[t[1]].reason = "STOP_LOSS"
  BY DEF Desk!Winners, Desk!Failures, Desk!Closed
<1>2. t[1] \in DOMAIN outcomes => LabelFits(outcomes[t[1]].label, positions[t[1]].reason)
  BY <1>1 DEF DeskInv, OutcomesFit, OutcomeFits
<1>3. LabelFits(Desk!Label(t[1]), positions[t[1]].reason)
  BY <1>2 DEF Desk!Label, LabelFits
<1> QED
  BY <1>1, <1>3 DEF LabelFits

LEMMA DeskSafe ==
  ASSUME DeskInv
  PROVE  /\ Desk!JournalAddsUp /\ Desk!OneOrderPerSignal
         /\ Desk!SessionsCountedOnce /\ Desk!LearnsWhatHappened
<1>1. Desk!JournalAddsUp
  <2>1. account.cash = InitialCash + account.realized
          - Desk!SumFunctionOnSet([i \in Desk!open_positions |-> positions[i].price], Desk!open_positions)
    <3>1. Desk!open_positions = OpenIds(positions)
      BY DEF Desk!open_positions, OpenIds
    <3>2. account.cash = InitialCash + account.realized - DeskCost(positions)
      BY DEF DeskInv, AccountFits
    <3>3. DeskCost(positions) =
            Desk!SumFunctionOnSet([i \in Desk!open_positions |-> positions[i].price], Desk!open_positions)
      BY <3>1, DeskSums DEF DeskCost
    <3> QED
      BY <3>2, <3>3
  <2>2. Desk!Realized(Desk!journal) = account.realized
    <3>1. account.realized = DeskGain(positions)
      BY DEF DeskInv, AccountFits
    <3> QED
      BY <3>1, RealizedIsGain
  <2> QED
    BY <2>1, <2>2, WinnersAreNotFailures DEF Desk!JournalAddsUp
<1>2. Desk!OneOrderPerSignal
  <2>1. \A i, j \in DOMAIN orders : orders[i].date = orders[j].date => i = j
    BY DEF DeskInv, OrdersFit
  <2>2. \A i \in DOMAIN positions : positions[i].entry > orders[i].date
    BY DEF DeskInv, PositionsFit, PositionFits
  <2> QED
    BY <2>1, <2>2 DEF Desk!OneOrderPerSignal
<1>3. Desk!SessionsCountedOnce
  BY Zenon DEF DeskInv, PositionsFit, PositionFits, Counts, Desk!SessionsCountedOnce
<1>4. Desk!LearnsWhatHappened
  <2>1. \A i \in DOMAIN positions \cap DOMAIN outcomes : outcomes[i].entry = positions[i].entry
    BY DEF DeskInv, OutcomesFit, OutcomeFits
  <2>2. \A i \in DOMAIN positions : positions[i].status = "closed" /\ i \notin unlearned =>
          i \in DOMAIN outcomes /\ outcomes[i].status = "closed"
    BY DEF DeskInv, OutcomesFit
  <2> QED
    BY <2>1, <2>2 DEF Desk!LearnsWhatHappened
<1> QED
  BY <1>1, <1>2, <1>3, <1>4

-----------------------------------------------------------------------------
(* The steps of the demo desk                                                *)

LEMMA DeskConstants ==
  /\ \A c \in Candles : c.open \in Int /\ c.high \in Int /\ c.low \in Int /\ c.close \in Int
  /\ \A r \in Reviews : r.low \in Int /\ r.high \in Int /\ r.breakout \in Int /\ r.stop \in Int /\ r.target \in Int
  /\ AnchorLow \in Int /\ InitialCash \in Int /\ ExpirySessions \in Int /\ MaxHolding \in Nat \ {0}
BY OperationsAssumption DEF OperationsAssumption

LEMMA DeskInit == ASSUME Init PROVE DeskInv
<1>1. /\ candles \in Seq(Candles) /\ hits = Desk!Empty /\ candidates = Desk!Empty /\ orders = Desk!Empty
      /\ nextOrder = 1 /\ positions = Desk!Empty /\ account = Desk!NewAccount
      /\ snapshots = Desk!Empty /\ outcomes = Desk!Empty /\ work = <<>> /\ unlearned = {}
  <2>1. Desk!Init
    BY Zenon DEF Init
  <2>2. PICK c \in Candles : candles = <<c>>
    BY <2>1 DEF Desk!Init
  <2> QED
    BY <2>1, <2>2 DEF Desk!Init
<1>2. PICK none : none = Desk!Empty
  OBVIOUS
<1>3. DOMAIN none = {}
  BY <1>2 DEF Desk!Empty
<1>4. HitsFit(none) /\ CandidatesFit(none, none, none, 1) /\ OrdersFit(none, none, 1)
      /\ PositionsFit(none, none, candles) /\ OutcomesFit(none, none, none, 1, {}) /\ SnapshotsFit(none, none)
  <2>1. DOMAIN none = 1 .. 0
    BY <1>3
  <2> QED
    BY <1>3, <2>1 DEF HitsFit, CandidatesFit, OrdersFit, PositionsFit, OutcomesFit, SnapshotsFit
<1>5. AccountFits(Desk!NewAccount, none)
  <2>1. OpenIds(none) = {} /\ ClosedIds(none) = {}
    BY <1>3 DEF OpenIds, ClosedIds
  <2>2. DeskCost(none) = 0 /\ DeskGain(none) = 0
    BY <2>1, SumEmpty DEF DeskCost, DeskGain
  <2> QED
    BY <2>2, DeskConstants DEF AccountFits, Desk!NewAccount
<1> QED
  BY <1>1, <1>2, <1>4, <1>5, NoWork DEF DeskInv

LEMMA WorkTail ==
  ASSUME NEW w, NEW hs, NEW cs, NEW os, NEW ps, WorkSuits(w, hs, cs, os, ps), w # <<>>
  PROVE  /\ WorkSuits(Tail(w), hs, cs, os, ps) /\ TaskFits(Head(w), hs, cs, os, ps)
         /\ \A b \in ItemsOf(Tail(w)) : Behind(Head(w), b) /\ TaskFits(b, hs, cs, os, ps)
<1>1. /\ Agenda(Tail(w)) /\ ItemsOf(Tail(w)) \subseteq ItemsOf(w) /\ Head(w) \in ItemsOf(w)
      /\ \A b \in ItemsOf(Tail(w)) : Behind(Head(w), b)
  BY AgendaTail DEF WorkSuits
<1>2. \A a \in ItemsOf(w) : TaskFits(a, hs, cs, os, ps)
  BY DEF WorkSuits
<1> QED
  BY <1>1, <1>2 DEF WorkSuits

LEMMA WorkJoin ==
  ASSUME NEW u, NEW w, NEW hs, NEW cs, NEW os, NEW ps,
         WorkSuits(u, hs, cs, os, ps), WorkSuits(w, hs, cs, os, ps),
         \A a \in ItemsOf(u), b \in ItemsOf(w) : Behind(a, b)
  PROVE  WorkSuits(u \o w, hs, cs, os, ps)
<1>1. Agenda(u \o w) /\ ItemsOf(u \o w) \subseteq ItemsOf(u) \cup ItemsOf(w)
  BY AgendaJoin DEF WorkSuits
<1>2. \A a \in ItemsOf(u) \cup ItemsOf(w) : TaskFits(a, hs, cs, os, ps)
  BY DEF WorkSuits
<1> QED
  BY <1>1, <1>2 DEF WorkSuits

LEMMA WorkOne ==
  ASSUME NEW a, NEW hs, NEW cs, NEW os, NEW ps, TaskFits(a, hs, cs, os, ps)
  PROVE  WorkSuits(<<a>>, hs, cs, os, ps) /\ ItemsOf(<<a>>) = {a}
BY AgendaOne DEF WorkSuits

LEMMA WorkHead ==
  ASSUME NEW a, NEW w, NEW hs, NEW cs, NEW os, NEW ps,
         WorkSuits(w, hs, cs, os, ps), TaskFits(a, hs, cs, os, ps),
         \A b \in ItemsOf(w) : Behind(a, b)
  PROVE  WorkSuits(<<a>> \o w, hs, cs, os, ps)
<1>1. WorkSuits(<<a>>, hs, cs, os, ps) /\ ItemsOf(<<a>>) = {a}
  BY WorkOne
<1>2. \A x \in ItemsOf(<<a>>), b \in ItemsOf(w) : Behind(x, b)
  BY <1>1
<1> QED
  BY <1>1, <1>2, WorkJoin

LEMMA WorkMoves ==
  ASSUME NEW w, NEW hs, NEW cs, NEW os, NEW ps, NEW hs2, NEW cs2, NEW os2, NEW ps2,
         WorkSuits(w, hs, cs, os, ps), \A b \in ItemsOf(w) : TaskFits(b, hs2, cs2, os2, ps2)
  PROVE  WorkSuits(w, hs2, cs2, os2, ps2)
BY DEF WorkSuits

LEMMA ListWork ==
  ASSUME NEW S, NEW s, ListFits(s, S), NEW what \in {"candidate", "fill", "position"},
         NEW hs, NEW cs, NEW os, NEW ps,
         \A a : a.do = what /\ a.id \in S => TaskFits(a, hs, cs, os, ps)
  PROVE  /\ WorkSuits(Desk!Calls(what, s), hs, cs, os, ps)
         /\ \A a \in ItemsOf(Desk!Calls(what, s)) : a.do = what
BY ListAgenda DEF WorkSuits

LEMMA CandleStep == ASSUME DeskInv, NEW c \in Candles, Desk!NewCandle(c) PROVE DeskInv' /\ Desk!CandidatesFinal
<1>1. /\ candles' = Append(candles, c) /\ candles \in Seq(Candles) /\ work' = <<>>
      /\ UNCHANGED <<hits, candidates, orders, nextOrder, positions, account, snapshots, outcomes, unlearned>>
  BY DEF Desk!NewCandle, Desk!ledger, Desk!learning, DeskInv
<1>2. /\ candles' \in Seq(Candles) /\ Len(candles) \in Nat /\ Len(candles') = Len(candles) + 1
      /\ \A k \in 1 .. Len(candles) : candles'[k] = candles[k]
  BY <1>1
<1>3. ASSUME NEW i \in DOMAIN positions PROVE PositionFits(positions[i], orders[i], candles')
  <2>1. PICK p, o : p = positions[i] /\ o = orders[i]
    OBVIOUS
  <2>2. PositionFits(p, o, candles) /\ p \in DeskPosition /\ i \in DOMAIN orders
    BY <1>3, <2>1 DEF DeskInv, PositionsFit, PositionFits
  <2>3. o.date \in Nat
    <3>1. o \in DeskOrder
      BY <2>1, <2>2 DEF DeskInv, OrdersFit, OrderFits
    <3> QED
      BY <3>1 DEF DeskOrder
  <2>4. p.entry \in Nat /\ p.entry > o.date /\ p.latest \in Nat
    BY <2>2 DEF PositionFits, DeskPosition
  <2>5. Counts(p, candles)
    BY <2>2 DEF PositionFits
  <2>6. p.latest <= Len(candles)
    BY <2>5 DEF Counts
  <2>7. \A k \in p.entry .. p.latest : k \in 1 .. Len(candles)
    BY <1>2, <2>3, <2>4, <2>6
  <2>8. Counts(p, candles')
    <3>1. p.latest <= Len(candles')
      BY <1>2, <2>4, <2>6
    <3>2. \A k \in p.entry .. p.latest : candles'[k] = candles[k]
      BY <1>2, <2>7
    <3> QED
      BY <2>5, <3>1, <3>2 DEF Counts
  <2> QED
    BY <2>1, <2>2, <2>8 DEF PositionFits
<1>4. PositionsFit(positions, orders, candles')
  BY <1>3 DEF DeskInv, PositionsFit
<1> QED
  BY <1>1, <1>2, <1>4, NoWork DEF DeskInv, Desk!CandidatesFinal

LEMMA HitStep == ASSUME DeskInv, NEW k \in DOMAIN candles, Desk!InsertHit(k) PROVE DeskInv' /\ Desk!CandidatesFinal
<1>1. /\ hits' = Desk!Put(hits, Cardinality(DOMAIN hits) + 1, k) /\ work' = <<>> /\ k \in Nat
      /\ UNCHANGED <<candles, candidates, orders, nextOrder, positions, account, snapshots, outcomes, unlearned>>
  BY DeskCounts DEF Desk!InsertHit, Desk!ledger, Desk!learning, DeskInv
<1>2. PICK m \in Nat : DOMAIN hits = 1 .. m
  BY DEF DeskInv, HitsFit
<1>3. Cardinality(DOMAIN hits) = m
  BY <1>2, FS_Interval
<1>4. /\ DOMAIN hits' = 1 .. m + 1 /\ hits'[m + 1] = k
      /\ \A h \in DOMAIN hits : h \in DOMAIN hits' /\ hits'[h] = hits[h]
  BY <1>1, <1>2, <1>3 DEF Desk!Put
<1>5. HitsFit(hits')
  <2>1. \A h \in DOMAIN hits : hits[h] \in Nat
    BY DEF DeskInv, HitsFit
  <2>2. \A h \in DOMAIN hits' : h \in DOMAIN hits \/ h = m + 1
    BY <1>2, <1>4
  <2>3. \A h \in DOMAIN hits' : hits'[h] \in Nat
    BY <1>1, <1>4, <2>1, <2>2
  <2>4. m + 1 \in Nat
    OBVIOUS
  <2> QED
    BY <1>4, <2>3, <2>4 DEF HitsFit
<1>6. CandidatesFit(candidates, hits', orders, nextOrder)
  BY <1>4 DEF DeskInv, CandidatesFit, CandidateFits
<1>7. OrdersFit(orders, hits', nextOrder)
  BY <1>4 DEF DeskInv, OrdersFit, OrderFits
<1>8. SnapshotsFit(snapshots, hits')
  BY <1>4 DEF DeskInv, SnapshotsFit
<1> QED
  BY <1>1, <1>5, <1>6, <1>7, <1>8, NoWork DEF DeskInv, Desk!CandidatesFinal

CandidateLike(new, c, s, k, o) == SameBut(new, c, s, k, o, CandidateType)
LEMMA CandidateReviewed ==
  ASSUME NEW c \in CandidateType, NEW r \in Reviews, NEW s \in DeskStatuses, NEW new, new = [c EXCEPT !.review = r, !.status = s]
  PROVE  CandidateLike(new, c, s, c.checked, c.order)
BY CandidateReviewedIn, Zenon DEF CandidateLike, CandidateType, DeskStatuses

LEMMA CandidateClosed ==
  ASSUME NEW c \in CandidateType, NEW s \in DeskStatuses, NEW k \in Nat, NEW new, new = [c EXCEPT !.status = s, !.checked = k]
  PROVE  CandidateLike(new, c, s, k, c.order)
BY CandidateClosedIn, Zenon DEF CandidateLike, CandidateType, DeskStatuses

LEMMA CandidateChecked ==
  ASSUME NEW c \in CandidateType, NEW k \in Nat, NEW new, new = [c EXCEPT !.checked = k]
  PROVE  CandidateLike(new, c, c.status, k, c.order)
BY CandidateCheckedIn, Zenon DEF CandidateLike, CandidateType, DeskStatuses

LEMMA CandidateLinked ==
  ASSUME NEW c \in CandidateType, NEW o \in Nat, NEW new, new = [c EXCEPT !.order = o]
  PROVE  CandidateLike(new, c, c.status, c.checked, o)
BY CandidateLinkedIn, Zenon DEF CandidateLike, CandidateType, DeskStatuses

\* One candidate is put in; the others stay.
LEMMA CandidatePut ==
  ASSUME NEW cs, NEW hs, NEW os, NEW n, CandidatesFit(cs, hs, os, n), NEW h, NEW c, NEW new,
         DOMAIN new = DOMAIN cs \cup {h}, new[h] = c, \A g \in DOMAIN cs : g # h => new[g] = cs[g],
         CandidateFits(c, h, hs, os, n), \A g \in DOMAIN cs : cs[g].date = c.date => g = h
  PROVE  CandidatesFit(new, hs, os, n)
<1>1. \A g \in DOMAIN new : CandidateFits(new[g], g, hs, os, n)
  BY DEF CandidatesFit
<1>2. \A f, g \in DOMAIN new : new[f].date = new[g].date => f = g
  BY DEF CandidatesFit
<1> QED
  BY <1>1, <1>2 DEF CandidatesFit

LEMMA ReviewStep ==
  ASSUME DeskInv, NEW h \in DOMAIN hits, NEW r \in Reviews, Desk!upsert_from_review(h, r)
  PROVE  DeskInv' /\ Desk!CandidatesFinal
<1> DEFINE status == IF r.decision = "IGNORE" THEN "ignored" ELSE "active"
<1>1. /\ {g \in DOMAIN candidates : candidates[g].date = hits[h]} \subseteq {h}
      /\ candidates' = Desk!Put(candidates, h,
           IF h \notin DOMAIN candidates THEN [Desk!NewCandidate(h, r) EXCEPT !.status = status]
           ELSE [candidates[h] EXCEPT !.review = r,
                   !.status = IF candidates[h].status \in Shown THEN candidates[h].status ELSE status])
      /\ work' = <<>>
      /\ UNCHANGED <<candles, hits, orders, nextOrder, positions, account, snapshots, outcomes, unlearned>>
  BY DEF Desk!upsert_from_review, Desk!ledger, Desk!learning, Desk!market, Shown
<1>2. /\ CandidatesFit(candidates, hits, orders, nextOrder) /\ nextOrder \in Nat \ {0} /\ 0 \notin DOMAIN orders
      /\ hits[h] \in Nat
  BY DEF DeskInv, OrdersFit, HitsFit
<1>3. PICK c : c = candidates'[h]
  OBVIOUS
<1>4. /\ DOMAIN candidates' = DOMAIN candidates \cup {h}
      /\ \A g \in DOMAIN candidates : g # h => candidates'[g] = candidates[g]
  BY <1>1 DEF Desk!Put
<1>5. CandidateFits(c, h, hits, orders, nextOrder) /\ (h \in DOMAIN candidates /\
        candidates[h].status \in Shown => c.status = candidates[h].status)
  <2>1. CASE h \notin DOMAIN candidates
    <3>1. c = [Desk!NewCandidate(h, r) EXCEPT !.status = status]
      BY <1>1, <1>3, <2>1 DEF Desk!Put
    <3>2. hits[h] + ExpirySessions \in Int
      BY <1>2, DeskConstants
    <3>3. c \in CandidateType /\ c.date = hits[h] /\ c.checked = hits[h] /\ c.order = 0
      BY <1>2, <3>1, <3>2 DEF CandidateType, Desk!NewCandidate
    <3> QED
      BY <1>2, <2>1, <3>3 DEF CandidateFits
  <2>2. CASE h \in DOMAIN candidates
    <3>1. PICK old, s : old = candidates[h] /\ s = IF old.status \in Shown THEN old.status ELSE status
      OBVIOUS
    <3>2. c = [old EXCEPT !.review = r, !.status = s]
      BY <1>1, <1>3, <2>2, <3>1 DEF Desk!Put
    <3>3. CandidateFits(old, h, hits, orders, nextOrder)
      BY <1>2, <2>2, <3>1 DEF CandidatesFit
    <3>4. old \in CandidateType /\ s \in DeskStatuses
      BY <3>1, <3>3 DEF CandidateFits, DeskStatuses
    <3>6. PICK reviewed : reviewed = [old EXCEPT !.review = r, !.status = s]
      OBVIOUS
    <3>7. CandidateLike(reviewed, old, s, old.checked, old.order)
      BY <3>4, <3>6, CandidateReviewed, Zenon
    <3>8. CandidateFits(reviewed, h, hits, orders, nextOrder) /\ reviewed.status = s
      BY <3>3, <3>7 DEF CandidateFits, CandidateLike, SameBut
    <3> QED
      BY <3>1, <3>2, <3>6, <3>7, <3>8
  <2> QED
    BY <2>1, <2>2
<1>6. CandidatesFit(candidates', hits, orders, nextOrder)
  <2>1. c.date = hits[h]
    BY <1>5 DEF CandidateFits
  <2>2. \A g \in DOMAIN candidates : candidates[g].date = c.date => g = h
    BY <1>1, <2>1
  <2> QED
    BY <1>2, <1>3, <1>4, <1>5, <2>2, CandidatePut
<1>7. Desk!CandidatesFinal
  BY <1>3, <1>4, <1>5 DEF Desk!CandidatesFinal, Shown
<1> QED
  BY <1>1, <1>6, <1>7, NoWork DEF DeskInv

LEMMA MonitorStep == ASSUME DeskInv, Desk!monitor_entries PROVE DeskInv' /\ Desk!CandidatesFinal
<1>1. /\ work' = Desk!Calls("candidate", Desk!Sorted(Desk!active, Desk!Earlier))
      /\ UNCHANGED <<candles, hits, candidates, orders, nextOrder, positions, account, snapshots, outcomes, unlearned>>
  BY DEF Desk!monitor_entries, Desk!ledger, Desk!learning, Desk!market
<1>2. ListFits(Desk!Sorted(Desk!active, Desk!Earlier), Desk!active)
  BY CandidateList DEF DeskInv
<1>3. \A a : a.do = "candidate" /\ a.id \in Desk!active => TaskFits(a, hits, candidates, orders, positions)
  BY DEF Desk!active, TaskFits
<1>4. WorkSuits(work', hits, candidates, orders, positions)
  BY <1>1, <1>2, <1>3, ListWork
<1> QED
  BY <1>1, <1>4 DEF DeskInv, Desk!CandidatesFinal

LEMMA CandidateReplaced ==
  ASSUME NEW cs, NEW hs, NEW os, NEW n, CandidatesFit(cs, hs, os, n), NEW h \in DOMAIN cs,
         NEW new, NEW s, NEW k, NEW o, CandidateLike(new, cs[h], s, k, o), k >= cs[h].date,
         o < n, o \in DOMAIN os => os[o].date = cs[h].date
  PROVE  CandidatesFit([cs EXCEPT ![h] = new], hs, os, n)
<1> DEFINE cs2 == [cs EXCEPT ![h] = new]
<1>1. DOMAIN cs2 = DOMAIN cs \cup {h} /\ cs2[h] = new /\ \A g \in DOMAIN cs : g # h => cs2[g] = cs[g]
  OBVIOUS
<1> HIDE DEF cs2
<1>2. CandidateFits(cs[h], h, hs, os, n)
  BY DEF CandidatesFit
<1>3. CandidateFits(new, h, hs, os, n) /\ new.date = cs[h].date
  BY <1>2 DEF CandidateFits, CandidateLike, SameBut
<1>4. \A g \in DOMAIN cs : cs[g].date = new.date => g = h
  BY <1>3 DEF CandidatesFit
<1>5. CandidatesFit(cs2, hs, os, n)
  BY <1>1, <1>3, <1>4, CandidatePut
<1> QED
  BY <1>5 DEF cs2

LEMMA GreatestOfThree ==
  ASSUME NEW a \in Int, NEW b \in Int, NEW c \in Int
  PROVE  Desk!Max({a, b, c}) \in Int
<1>1. \E x \in {a, b, c} : \A y \in {a, b, c} : x >= y
  <2>1. (a >= b /\ a >= c) \/ (b >= a /\ b >= c) \/ (c >= a /\ c >= b)
    OBVIOUS
  <2> QED
    BY <2>1
<1>2. Desk!Max({a, b, c}) \in {a, b, c}
  BY <1>1 DEF Desk!Max
<1> QED
  BY <1>2

LEMMA PlanTyped ==
  ASSUME NEW r \in Reviews, candles \in Seq(Candles), NEW k \in DOMAIN candles
  PROVE  Desk!OrderPlan(r, k) \in DeskPlan /\ Desk!OrderPlan(r, k).after = k
<1>1. candles[k].close \in Int /\ k \in Nat
  <2>1. candles[k] \in Candles /\ k \in Nat
    OBVIOUS
  <2> QED
    BY <2>1, DeskConstants
<1>2. r.low \in Int /\ r.high \in Int /\ r.breakout \in Int /\ r.stop \in Int /\ r.target \in Int
  BY DeskConstants
<1>3. Desk!Max({100 * r.high, 102 * candles[k].close, 102 * r.breakout}) \in Int
  <2>1. 100 * r.high \in Int /\ 102 * candles[k].close \in Int /\ 102 * r.breakout \in Int
    BY <1>1, <1>2
  <2> QED
    BY <2>1, GreatestOfThree, Zenon
<1>4. AnchorLow \in Int
  BY DeskConstants
<1> QED
  BY <1>1, <1>2, <1>3, <1>4 DEF Desk!OrderPlan, DeskPlan

\* What the head of the work is about, and what is behind it.
LEMMA CandidateAtHand ==
  ASSUME DeskInv, work # <<>>, Head(work).do \in {"candidate", "enter"}
  PROVE  /\ Head(work).id \in DOMAIN candidates /\ candidates[Head(work).id].status = "active"
         /\ WorkSuits(Tail(work), hits, candidates, orders, positions)
         /\ \A b \in ItemsOf(Tail(work)) :
              /\ Behind(Head(work), b) /\ TaskFits(b, hits, candidates, orders, positions)
              /\ b.do = "candidate" /\ b.id # Head(work).id
<1>1. /\ WorkSuits(Tail(work), hits, candidates, orders, positions)
      /\ TaskFits(Head(work), hits, candidates, orders, positions)
      /\ \A b \in ItemsOf(Tail(work)) :
           Behind(Head(work), b) /\ TaskFits(b, hits, candidates, orders, positions)
  BY WorkTail DEF DeskInv
<1>2. \A b \in ItemsOf(Tail(work)) : b.do = "candidate" /\ b.id # Head(work).id
  BY <1>1 DEF Behind
<1> QED
  BY <1>1, <1>2 DEF TaskFits

\* The candidate at hand is written and its item done.
LEMMA CandidateDone ==
  ASSUME DeskInv, work # <<>>, Head(work).do \in {"candidate", "enter"}, NEW h, h = Head(work).id,
         NEW new, NEW s, NEW k, NEW o, CandidateLike(new, candidates[h], s, k, o),
         k >= candidates[h].date, o < nextOrder, o \in DOMAIN orders => orders[o].date = candidates[h].date,
         candidates' = [candidates EXCEPT ![h] = new], work' = Tail(work),
         UNCHANGED <<candles, hits, orders, nextOrder, positions, account, snapshots, outcomes, unlearned>>
  PROVE  DeskInv' /\ Desk!CandidatesFinal
<1>1. /\ h \in DOMAIN candidates /\ candidates[h].status = "active"
      /\ WorkSuits(Tail(work), hits, candidates, orders, positions)
      /\ \A b \in ItemsOf(Tail(work)) :
           /\ TaskFits(b, hits, candidates, orders, positions)
           /\ b.do = "candidate" /\ b.id # h
  BY CandidateAtHand
<1>2. CandidatesFit(candidates', hits, orders, nextOrder)
  <2>1. CandidatesFit(candidates, hits, orders, nextOrder)
    BY DEF DeskInv
  <2> QED
    BY <1>1, <2>1, CandidateReplaced
<1>3. DOMAIN candidates' = DOMAIN candidates /\ \A g \in DOMAIN candidates : g # h => candidates'[g] = candidates[g]
  OBVIOUS
<1>4. \A b \in ItemsOf(Tail(work)) : TaskFits(b, hits, candidates', orders, positions)
  BY <1>1, <1>3 DEF TaskFits
<1>5. WorkSuits(work', hits, candidates', orders, positions)
  BY <1>1, <1>4, WorkMoves
<1>6. Desk!CandidatesFinal
  BY <1>1, <1>3 DEF Desk!CandidatesFinal
<1> QED
  BY <1>2, <1>5, <1>6 DEF DeskInv

LEMMA CandidateStep == ASSUME DeskInv, Desk!CandidateStep PROVE DeskInv' /\ Desk!CandidatesFinal
<1>1. PICK h, c, k, r : h = Head(work).id /\ c = candidates[h] /\ k = c.checked + 1 /\ r = c.review
  OBVIOUS
<1>2. /\ work # <<>> /\ Head(work).do = "candidate"
      /\ UNCHANGED <<candles, hits, orders, nextOrder, positions, account, snapshots, outcomes, unlearned>>
  BY ZenonT(30) DEF Desk!CandidateStep, Desk!Doing, Desk!market, Desk!ledger, Desk!learning
<1>3. \/ work' = Tail(work) /\ UNCHANGED candidates
      \/ /\ \E s \in {"expired", "invalidated"} : candidates' = Desk!Close(h, s, k)
         /\ work' = Tail(work)
      \/ /\ candidates' = [candidates EXCEPT ![h] = [@ EXCEPT !.checked = k]] /\ work' = Tail(work)
      \/ /\ k <= Len(candles) /\ UNCHANGED candidates
         /\ work' = Desk!place(h, Desk!OrderPlan(r, k), <<[do |-> "enter", id |-> h, session |-> k]>>) \o Tail(work)
  BY <1>1 DEF Desk!CandidateStep
<1>4. /\ h \in DOMAIN candidates /\ c.status = "active"
      /\ WorkSuits(Tail(work), hits, candidates, orders, positions)
      /\ \A b \in ItemsOf(Tail(work)) :
           /\ Behind(Head(work), b) /\ TaskFits(b, hits, candidates, orders, positions)
           /\ b.do = "candidate" /\ b.id # h
  BY <1>1, <1>2, CandidateAtHand
<1>5. CandidateFits(c, h, hits, orders, nextOrder)
  BY <1>1, <1>4 DEF DeskInv, CandidatesFit
<1>6. /\ c \in CandidateType /\ c.checked \in Nat /\ c.date \in Nat /\ k \in Nat \ {0} /\ k >= c.date
      /\ r \in Reviews /\ h \in DOMAIN hits /\ c.date = hits[h]
  <2>1. c \in CandidateType /\ c.checked >= c.date /\ h \in DOMAIN hits /\ c.date = hits[h]
    BY <1>5 DEF CandidateFits
  <2>2. c.checked \in Nat /\ c.date \in Nat /\ c.review \in Reviews
    BY <2>1 DEF CandidateType
  <2> QED
    BY <1>1, <2>1, <2>2
<1>7. CASE work' = Tail(work) /\ UNCHANGED candidates
  BY <1>2, <1>4, <1>7, SMTT(30) DEF DeskInv, Desk!CandidatesFinal
<1>8. CASE (\E s \in {"expired", "invalidated"} : candidates' = Desk!Close(h, s, k)) /\ work' = Tail(work)
  <2>1. PICK s \in {"expired", "invalidated"} : candidates' = Desk!Close(h, s, k)
    BY <1>8
  <2>2. PICK new : new = [c EXCEPT !.status = s, !.checked = k]
    OBVIOUS
  <2>3. CandidateLike(new, c, s, k, c.order)
    <3>1. s \in DeskStatuses /\ k \in Nat
      BY <1>6 DEF DeskStatuses, Shown
    <3> QED
      BY <1>6, <2>2, <3>1, CandidateClosed, Zenon
  <2>4. candidates' = [candidates EXCEPT ![h] = new]
    BY <1>1, <1>4, <2>1, <2>2 DEF Desk!Close
  <2>5. c.order < nextOrder /\ (c.order \in DOMAIN orders => orders[c.order].date = c.date)
    BY <1>5 DEF CandidateFits
  <2> QED
    BY <1>1, <1>2, <1>6, <1>8, <2>3, <2>4, <2>5, CandidateDone
<1>9. CASE candidates' = [candidates EXCEPT ![h] = [@ EXCEPT !.checked = k]] /\ work' = Tail(work)
  <2>2. PICK new : new = [c EXCEPT !.checked = k]
    OBVIOUS
  <2>3. CandidateLike(new, c, c.status, k, c.order)
    <3>1. k \in Nat
      BY <1>6
    <3> QED
      BY <1>6, <2>2, <3>1, CandidateChecked, Zenon
  <2>4. candidates' = [candidates EXCEPT ![h] = new]
    BY <1>1, <1>4, <1>9, <2>2
  <2>5. c.order < nextOrder /\ (c.order \in DOMAIN orders => orders[c.order].date = c.date)
    BY <1>5 DEF CandidateFits
  <2> QED
    BY <1>1, <1>2, <1>6, <1>9, <2>3, <2>4, <2>5, CandidateDone
<1>10. CASE /\ k <= Len(candles) /\ UNCHANGED candidates
            /\ work' = Desk!place(h, Desk!OrderPlan(r, k), <<[do |-> "enter", id |-> h, session |-> k]>>) \o Tail(work)
  <2>1. PICK plan, enter, placing :
          /\ plan = Desk!OrderPlan(r, k) /\ enter = [do |-> "enter", id |-> h, session |-> k]
          /\ placing = [do |-> "place", id |-> h, plan |-> plan, session |-> plan.after]
    OBVIOUS
  <2>2. plan \in DeskPlan /\ plan.after = k
    <3>1. candles \in Seq(Candles) /\ k \in DOMAIN candles
      BY <1>6, <1>10 DEF DeskInv
    <3> QED
      BY <1>6, <2>1, <3>1, PlanTyped
  <2>3. /\ enter.do = "enter" /\ enter.id = h /\ enter.session = k
        /\ placing.do = "place" /\ placing.id = h /\ placing.plan = plan
    BY <2>1
  <2>4. TaskFits(enter, hits, candidates, orders, positions) /\ TaskFits(placing, hits, candidates, orders, positions)
    BY <1>1, <1>4, <1>6, <2>2, <2>3 DEF TaskFits
  <2>5. \A b \in ItemsOf(Tail(work)) : Behind(enter, b) /\ Behind(placing, b)
    BY <1>4, <2>3 DEF Behind
  <2>6. WorkSuits(<<enter>>, hits, candidates, orders, positions) /\ ItemsOf(<<enter>>) = {enter}
        /\ WorkSuits(<<placing>>, hits, candidates, orders, positions) /\ ItemsOf(<<placing>>) = {placing}
    BY <2>4, WorkOne
  <2>7. Behind(placing, enter)
    BY <2>3 DEF Behind
  <2>8. \A a \in ItemsOf(<<placing>>), b \in ItemsOf(<<enter>>) : Behind(a, b)
    BY <2>6, <2>7
  <2>9. WorkSuits(<<placing>> \o <<enter>>, hits, candidates, orders, positions)
    BY <2>6, <2>8, WorkJoin
  <2>10. ItemsOf(<<placing>> \o <<enter>>) \subseteq {placing, enter}
    BY <2>6, <2>8, AgendaJoin DEF WorkSuits
  <2>11. \A a \in ItemsOf(<<placing>> \o <<enter>>), b \in ItemsOf(Tail(work)) : Behind(a, b)
    BY <2>5, <2>10
  <2>12. WorkSuits((<<placing>> \o <<enter>>) \o Tail(work), hits, candidates, orders, positions)
    BY <1>4, <2>9, <2>11, WorkJoin
  <2>13. work' = (<<placing>> \o <<enter>>) \o Tail(work)
    BY <1>10, <2>1 DEF Desk!place
  <2> QED
    BY <1>2, <1>10, <2>12, <2>13 DEF DeskInv, Desk!CandidatesFinal
<1> QED
  BY <1>3, <1>7, <1>8, <1>9, <1>10

LEMMA OrdersShown ==
  ASSUME DeskInv, NEW h \in DOMAIN hits, NEW o, o = Desk!Max(Desk!OrdersOf(h) \cup {0})
  PROVE  /\ o \in Nat /\ o < nextOrder /\ (o \in DOMAIN orders => orders[o].date = hits[h])
<1> DEFINE S == Desk!OrdersOf(h) \cup {0}
<1>1. nextOrder \in Nat \ {0} /\ DOMAIN orders \subseteq 1 .. nextOrder - 1
  BY DEF DeskInv, OrdersFit
<1>2. \A i \in Desk!OrdersOf(h) : i \in DOMAIN orders /\ orders[i].date = hits[h]
  BY DEF Desk!OrdersOf, DeskInv, OrdersFit, OrderFits
<1>3. S \subseteq 0 .. nextOrder - 1 /\ S # {}
  BY <1>1, <1>2
<1>4. S \in SUBSET Nat /\ IsFiniteSet(S)
  <2>1. IsFiniteSet(0 .. nextOrder - 1)
    BY <1>1, FS_Interval
  <2> HIDE DEF S
  <2>2. S \subseteq Nat
    BY <1>1, <1>3
  <2>3. IsFiniteSet(S)
    BY <1>3, <2>1, FS_Subset, Zenon
  <2> QED
    BY <2>2, <2>3
<1> HIDE DEF S
<1>5. PICK m \in S : \A n \in S : n <= m
  BY <1>3, <1>4, GreatestFinite
<1>6. \E x \in S : \A y \in S : x >= y
  BY <1>4, <1>5
<1>7. Desk!Max(S) \in S
  BY <1>6 DEF Desk!Max
<1>8. o \in S
  BY <1>7 DEF S
<1> QED
  BY <1>1, <1>2, <1>3, <1>8 DEF S

LEMMA EnteredStep == ASSUME DeskInv, Desk!mark_entered PROVE DeskInv' /\ Desk!CandidatesFinal
<1>1. PICK h, c, k, o : /\ h = Head(work).id /\ c = candidates[h] /\ k = Head(work).session
                        /\ o = Desk!Max(Desk!OrdersOf(h) \cup {0})
  OBVIOUS
<1>2. /\ work # <<>> /\ Head(work).do = "enter" /\ work' = Tail(work)
      /\ candidates' = [Desk!Close(h, "entered", k) EXCEPT ![h] = [@ EXCEPT !.order = o]]
      /\ UNCHANGED <<candles, hits, orders, nextOrder, positions, account, snapshots, outcomes, unlearned>>
  BY <1>1 DEF Desk!mark_entered, Desk!Doing, Desk!market, Desk!ledger, Desk!learning
<1>3. h \in DOMAIN candidates
  BY <1>1, <1>2, CandidateAtHand
<1>4. CandidateFits(c, h, hits, orders, nextOrder)
  BY <1>1, <1>3 DEF DeskInv, CandidatesFit
<1>5. c \in CandidateType /\ h \in DOMAIN hits /\ c.date = hits[h]
  BY <1>4 DEF CandidateFits
<1>6. k \in Nat /\ k >= c.date
  <2>1. TaskFits(Head(work), hits, candidates, orders, positions)
    BY <1>2, WorkTail DEF DeskInv
  <2> QED
    BY <1>1, <1>2, <1>5, <2>1 DEF TaskFits
<1>7. o \in Nat /\ o < nextOrder /\ (o \in DOMAIN orders => orders[o].date = c.date)
  BY <1>1, <1>5, OrdersShown
<1>8. PICK closed : closed = [c EXCEPT !.status = "entered", !.checked = k]
  OBVIOUS
<1>9. CandidateLike(closed, c, "entered", k, c.order)
  <2>1. "entered" \in DeskStatuses
    BY DEF DeskStatuses, Shown
  <2> QED
    BY <1>5, <1>6, <1>8, <2>1, CandidateClosed, Zenon
<1>10. PICK new : new = [closed EXCEPT !.order = o]
  OBVIOUS
<1>11. CandidateLike(new, closed, closed.status, closed.checked, o)
  <2>1. closed \in CandidateType
    BY <1>9 DEF CandidateLike, SameBut
  <2> QED
    BY <1>7, <1>10, <2>1, CandidateLinked, Zenon
<1>12. CandidateLike(new, candidates[h], "entered", k, o)
  BY <1>1, <1>9, <1>11 DEF CandidateLike, SameBut
<1>13. candidates' = [candidates EXCEPT ![h] = new]
  <2>1. PICK cs : cs = [candidates EXCEPT ![h] = closed]
    OBVIOUS
  <2>2. Desk!Close(h, "entered", k) = cs
    BY <1>1, <1>3, <1>8, <2>1 DEF Desk!Close
  <2>3. cs[h] = closed
    BY <1>3, <2>1
  <2>4. candidates' = [cs EXCEPT ![h] = new]
    BY <1>2, <1>10, <2>2, <2>3
  <2> QED
    BY <2>1, <2>4
<1> QED
  BY <1>1, <1>2, <1>6, <1>7, <1>12, <1>13, CandidateDone

\* Only the work changes.
LEMMA WorkOnly ==
  ASSUME DeskInv, WorkSuits(work', hits, candidates, orders, positions),
         UNCHANGED <<candles, hits, candidates, orders, nextOrder, positions, account, snapshots, outcomes, unlearned>>
  PROVE  DeskInv' /\ Desk!CandidatesFinal
BY DEF DeskInv, Desk!CandidatesFinal

LEMMA PlaceCall == ASSUME DeskInv, NEW h \in DOMAIN hits, Desk!place_order(h) PROVE DeskInv' /\ Desk!CandidatesFinal
<1>1. PICK plan, placing :
        /\ plan = Desk!ClientPlan(h)
        /\ placing = [do |-> "place", id |-> h, plan |-> plan, session |-> plan.after]
  OBVIOUS
<1>2. /\ work' = <<placing>> \o <<>>
      /\ UNCHANGED <<candles, hits, candidates, orders, nextOrder, positions, account, snapshots, outcomes, unlearned>>
  BY <1>1 DEF Desk!place_order, Desk!place, Desk!market, Desk!ledger, Desk!learning
<1>3. plan \in DeskPlan /\ plan.after = hits[h] /\ hits[h] \in Nat
  BY <1>1, DeskConstants DEF DeskInv, HitsFit, Desk!ClientPlan, DeskPlan
<1>4. TaskFits(placing, hits, candidates, orders, positions)
  <2>1. placing.do = "place" /\ placing.id = h /\ placing.plan = plan
    BY <1>1
  <2> QED
    BY <1>3, <2>1 DEF TaskFits
<1>5. WorkSuits(<<>>, hits, candidates, orders, positions) /\ ItemsOf(<<>>) = {}
  BY NoWork DEF ItemsOf
<1>6. WorkSuits(work', hits, candidates, orders, positions)
  BY <1>2, <1>4, <1>5, WorkHead
<1> QED
  BY <1>2, <1>6, WorkOnly

LEMMA RefreshCall == ASSUME DeskInv, Desk!refresh PROVE DeskInv' /\ Desk!CandidatesFinal
<1>1. PICK item : item = [do |-> "refresh"]
  OBVIOUS
<1>2. /\ work' = <<item>> /\ item.do = "refresh"
      /\ UNCHANGED <<candles, hits, candidates, orders, nextOrder, positions, account, snapshots, outcomes, unlearned>>
  BY <1>1 DEF Desk!refresh, Desk!market, Desk!ledger, Desk!learning
<1>3. TaskFits(item, hits, candidates, orders, positions)
  BY <1>2 DEF TaskFits
<1>4. WorkSuits(work', hits, candidates, orders, positions)
  BY <1>2, <1>3, WorkOne
<1> QED
  BY <1>2, <1>4, WorkOnly

LEMMA RefreshedStep == ASSUME DeskInv, Desk!RefreshStep PROVE DeskInv' /\ Desk!CandidatesFinal
<1>1. PICK fills, item : /\ fills = Desk!Calls("fill", Desk!InOrder(Desk!pending_orders))
                         /\ item = [do |-> "positions"]
  OBVIOUS
<1>2. /\ work # <<>> /\ Head(work).do = "refresh" /\ item.do = "positions"
      /\ work' = fills \o <<item>> \o Tail(work)
      /\ UNCHANGED <<candles, hits, candidates, orders, nextOrder, positions, account, snapshots, outcomes, unlearned>>
  BY <1>1 DEF Desk!RefreshStep, Desk!Doing, Desk!market, Desk!ledger, Desk!learning
<1>3. /\ WorkSuits(Tail(work), hits, candidates, orders, positions)
      /\ \A b \in ItemsOf(Tail(work)) : Behind(Head(work), b)
  BY <1>2, WorkTail DEF DeskInv
<1>4. \A b \in ItemsOf(Tail(work)) : b.do \in {"candidate", "enter"}
  BY <1>2, <1>3 DEF Behind
<1>5. /\ WorkSuits(fills, hits, candidates, orders, positions)
      /\ \A a \in ItemsOf(fills) : a.do = "fill"
  <2>1. ListFits(Desk!InOrder(Desk!pending_orders), Desk!pending_orders)
    BY FillList DEF DeskInv
  <2>2. \A a : a.do = "fill" /\ a.id \in Desk!pending_orders => TaskFits(a, hits, candidates, orders, positions)
    BY DEF Desk!pending_orders, TaskFits
  <2> QED
    BY <1>1, <2>1, <2>2, ListWork
<1>6. /\ WorkSuits(<<item>>, hits, candidates, orders, positions) /\ ItemsOf(<<item>>) = {item}
  <2>1. TaskFits(item, hits, candidates, orders, positions)
    BY <1>2 DEF TaskFits
  <2> QED
    BY <2>1, WorkOne
<1>7. \A a \in ItemsOf(fills), b \in ItemsOf(<<item>>) : Behind(a, b)
  BY <1>2, <1>5, <1>6 DEF Behind
<1>8. WorkSuits(fills \o <<item>>, hits, candidates, orders, positions)
  BY <1>5, <1>6, <1>7, WorkJoin
<1>9. ItemsOf(fills \o <<item>>) \subseteq ItemsOf(fills) \cup {item}
  BY <1>5, <1>6, <1>7, AgendaJoin DEF WorkSuits
<1>10. \A a \in ItemsOf(fills \o <<item>>), b \in ItemsOf(Tail(work)) : Behind(a, b)
  BY <1>2, <1>4, <1>5, <1>9 DEF Behind
<1>11. WorkSuits(work', hits, candidates, orders, positions)
  BY <1>2, <1>3, <1>8, <1>10, WorkJoin
<1> QED
  BY <1>2, <1>11, WorkOnly

LEMMA PositionsStep == ASSUME DeskInv, Desk!PositionsStep PROVE DeskInv' /\ Desk!CandidatesFinal
<1>1. PICK marks : marks = Desk!Calls("position", Desk!Sorted(Desk!open_positions, Desk!Earliest))
  OBVIOUS
<1>2. /\ work # <<>> /\ Head(work).do = "positions" /\ work' = marks \o Tail(work)
      /\ UNCHANGED <<candles, hits, candidates, orders, nextOrder, positions, account, snapshots, outcomes, unlearned>>
  BY <1>1 DEF Desk!PositionsStep, Desk!Doing, Desk!market, Desk!ledger, Desk!learning
<1>3. /\ WorkSuits(Tail(work), hits, candidates, orders, positions)
      /\ \A b \in ItemsOf(Tail(work)) : Behind(Head(work), b)
  BY <1>2, WorkTail DEF DeskInv
<1>4. \A b \in ItemsOf(Tail(work)) : b.do \in {"candidate", "enter"}
  BY <1>2, <1>3 DEF Behind
<1>5. /\ WorkSuits(marks, hits, candidates, orders, positions)
      /\ \A a \in ItemsOf(marks) : a.do = "position"
  <2>1. ListFits(Desk!Sorted(Desk!open_positions, Desk!Earliest), Desk!open_positions)
    BY PositionList DEF DeskInv
  <2>2. \A a : a.do = "position" /\ a.id \in Desk!open_positions => TaskFits(a, hits, candidates, orders, positions)
    BY DEF Desk!open_positions, TaskFits
  <2> QED
    BY <1>1, <2>1, <2>2, ListWork
<1>6. \A a \in ItemsOf(marks), b \in ItemsOf(Tail(work)) : Behind(a, b)
  BY <1>4, <1>5 DEF Behind
<1>7. WorkSuits(work', hits, candidates, orders, positions)
  BY <1>2, <1>3, <1>5, <1>6, WorkJoin
<1> QED
  BY <1>2, <1>7, WorkOnly

LEMMA DiesStep == ASSUME DeskInv, Desk!Dies PROVE DeskInv' /\ Desk!CandidatesFinal
BY NoWork, WorkOnly DEF Desk!Dies, Desk!market, Desk!ledger, Desk!learning

LEMMA SessionsBefore ==
  ASSUME NEW n \in Nat, candles \in Seq(Candles)
  PROVE  Cardinality({k \in DOMAIN candles : k <= n}) <= n
<1> DEFINE S == {k \in DOMAIN candles : k <= n}
<1>1. S \subseteq 1 .. n
  OBVIOUS
<1>2. IsFiniteSet(1 .. n) /\ Cardinality(1 .. n) = n
  BY FS_Interval
<1> HIDE DEF S
<1>3. Cardinality(S) <= Cardinality(1 .. n)
  BY <1>1, <1>2, FS_Subset, Zenon
<1> QED
  BY <1>2, <1>3 DEF S

\* A new order is the only one of its session.
LEMMA OrderAdded ==
  ASSUME DeskInv, NEW h \in DOMAIN hits, NEW plan \in DeskPlan, plan.after >= hits[h],
         Desk!OrdersOf(h) = {}, orders' = Desk!Put(orders, nextOrder, Desk!NewOrder(h, plan)),
         nextOrder' = nextOrder + 1, WorkSuits(work', hits, candidates, orders, positions),
         UNCHANGED <<candles, hits, candidates, positions, account, snapshots, outcomes, unlearned>>
  PROVE  DeskInv' /\ Desk!CandidatesFinal
<1>1. /\ OrdersFit(orders, hits, nextOrder) /\ nextOrder \in Nat \ {0}
      /\ DOMAIN orders \subseteq 1 .. nextOrder - 1 /\ nextOrder \notin DOMAIN orders
  BY DEF DeskInv, OrdersFit
<1>2. PICK o : o = Desk!NewOrder(h, plan)
  OBVIOUS
<1>3. o \in DeskOrder /\ o.hit = h /\ o.date = hits[h] /\ o.plan = plan /\ o.status = "pending_entry"
  <2>1. h \in Nat /\ hits[h] \in Nat
    BY DEF DeskInv, HitsFit
  <2> QED
    BY <1>2, <2>1 DEF Desk!NewOrder, DeskOrder
<1>4. OrderFits(o, hits)
  BY <1>3 DEF OrderFits
<1>5. /\ DOMAIN orders' = DOMAIN orders \cup {nextOrder} /\ orders'[nextOrder] = o
      /\ \A i \in DOMAIN orders : orders'[i] = orders[i] /\ i # nextOrder
  BY <1>1, <1>2 DEF Desk!Put
<1>6. \A i \in DOMAIN orders : orders[i].date # hits[h]
  BY DEF Desk!OrdersOf
<1>7. OrdersFit(orders', hits, nextOrder')
  <2>1. DOMAIN orders' \subseteq 1 .. nextOrder' - 1 /\ nextOrder' \in Nat \ {0}
    BY <1>1, <1>5
  <2>2. \A i \in DOMAIN orders' : OrderFits(orders'[i], hits)
    BY <1>1, <1>4, <1>5 DEF OrdersFit
  <2>3. \A i, j \in DOMAIN orders' : orders'[i].date = orders'[j].date => i = j
    BY <1>1, <1>3, <1>5, <1>6 DEF OrdersFit
  <2> QED
    BY <2>1, <2>2, <2>3 DEF OrdersFit
<1>8. CandidatesFit(candidates, hits, orders', nextOrder')
  <2>1. \A h2 \in DOMAIN candidates : CandidateFits(candidates[h2], h2, hits, orders', nextOrder')
    <3> SUFFICES ASSUME NEW h2 \in DOMAIN candidates
                 PROVE  CandidateFits(candidates[h2], h2, hits, orders', nextOrder')
      OBVIOUS
    <3>1. PICK c : c = candidates[h2]
      OBVIOUS
    <3>2. CandidateFits(c, h2, hits, orders, nextOrder)
      BY <3>1 DEF DeskInv, CandidatesFit
    <3>3. c.order \in Nat
      BY <3>2 DEF CandidateFits, CandidateType
    <3>4. c.order < nextOrder' /\ (c.order \in DOMAIN orders' => c.order \in DOMAIN orders)
      BY <1>1, <1>5, <3>2, <3>3 DEF CandidateFits
    <3>5. CandidateFits(c, h2, hits, orders', nextOrder')
      BY <1>5, <3>2, <3>4 DEF CandidateFits
    <3> QED
      BY <3>1, <3>5
  <2> QED
    BY <2>1 DEF DeskInv, CandidatesFit
<1>9. PositionsFit(positions, orders', candles)
  BY <1>5 DEF DeskInv, PositionsFit
<1>10. OutcomesFit(outcomes, positions, orders', nextOrder', unlearned)
  <2>1. \A i \in DOMAIN outcomes : OutcomeFits(outcomes[i], i, positions, orders', nextOrder')
    BY <1>1, <1>5 DEF DeskInv, OutcomesFit, OutcomeFits
  <2> QED
    BY <2>1 DEF DeskInv, OutcomesFit
<1>11. WorkSuits(work', hits, candidates, orders', positions)
  <2>1. \A b \in ItemsOf(work') : TaskFits(b, hits, candidates, orders', positions)
    BY <1>5 DEF WorkSuits, TaskFits
  <2> QED
    BY <2>1, WorkMoves
<1> QED
  BY <1>7, <1>8, <1>9, <1>10, <1>11 DEF DeskInv, Desk!CandidatesFinal

LEMMA PlaceStep == ASSUME DeskInv, Desk!PlaceStep PROVE DeskInv' /\ Desk!CandidatesFinal
<1>1. PICK h, plan, item : h = Head(work).id /\ plan = Head(work).plan /\ item = [do |-> "refresh"]
  OBVIOUS
<1>2. /\ work # <<>> /\ Head(work).do = "place" /\ item.do = "refresh"
      /\ UNCHANGED <<candles, hits, candidates, positions, account, outcomes, unlearned>>
      /\ \/ work' = <<item>> \o Tail(work) /\ UNCHANGED <<orders, nextOrder, snapshots>>
         \/ /\ snapshots' = Desk!Put(snapshots, h, Cardinality({k \in DOMAIN candles : k <= hits[h]}))
            /\ UNCHANGED <<orders, nextOrder, work>>
         \/ /\ Desk!OrdersOf(h) = {}
            /\ orders' = Desk!Put(orders, nextOrder, Desk!NewOrder(h, plan))
            /\ nextOrder' = nextOrder + 1 /\ work' = <<item>> \o Tail(work) /\ UNCHANGED snapshots
  BY <1>1, DeskCounts DEF Desk!PlaceStep, Desk!Doing, Desk!market
<1>3. /\ WorkSuits(Tail(work), hits, candidates, orders, positions)
      /\ TaskFits(Head(work), hits, candidates, orders, positions)
      /\ \A b \in ItemsOf(Tail(work)) : Behind(Head(work), b)
  BY <1>2, WorkTail DEF DeskInv
<1>4. h \in DOMAIN hits /\ plan \in DeskPlan /\ plan.after >= hits[h]
  BY <1>1, <1>2, <1>3 DEF TaskFits
<1>5. WorkSuits(<<item>> \o Tail(work), hits, candidates, orders, positions)
  <2>1. \A b \in ItemsOf(Tail(work)) : Behind(item, b)
    BY <1>2, <1>3 DEF Behind
  <2>2. TaskFits(item, hits, candidates, orders, positions)
    BY <1>2 DEF TaskFits
  <2> QED
    BY <1>3, <2>1, <2>2, WorkHead
<1>6. CASE work' = <<item>> \o Tail(work) /\ UNCHANGED <<orders, nextOrder, snapshots>>
  BY <1>2, <1>5, <1>6, WorkOnly
<1>7. CASE /\ snapshots' = Desk!Put(snapshots, h, Cardinality({k \in DOMAIN candles : k <= hits[h]}))
           /\ UNCHANGED <<orders, nextOrder, work>>
  <2>1. Cardinality({k \in DOMAIN candles : k <= hits[h]}) <= hits[h]
    BY <1>4, SessionsBefore DEF DeskInv, HitsFit
  <2>2. SnapshotsFit(snapshots', hits)
    BY <1>4, <1>7, <2>1 DEF DeskInv, SnapshotsFit, Desk!Put
  <2> QED
    BY <1>2, <1>7, <2>2 DEF DeskInv, Desk!CandidatesFinal
<1>8. CASE /\ Desk!OrdersOf(h) = {}
           /\ orders' = Desk!Put(orders, nextOrder, Desk!NewOrder(h, plan))
           /\ nextOrder' = nextOrder + 1 /\ work' = <<item>> \o Tail(work) /\ UNCHANGED snapshots
  BY <1>2, <1>4, <1>5, <1>8, OrderAdded
<1> QED
  BY <1>2, <1>6, <1>7, <1>8

LEMMA ResetStep == ASSUME DeskInv, Desk!reset_ledger PROVE DeskInv' /\ Desk!CandidatesFinal
<1>1. PICK none : none = Desk!Empty
  OBVIOUS
<1>2. /\ work' = <<>> /\ orders' = none /\ positions' = none /\ account' = Desk!NewAccount
      /\ UNCHANGED <<candles, hits, candidates, nextOrder, snapshots, outcomes, unlearned>>
  BY <1>1 DEF Desk!reset_ledger, Desk!market, Desk!learning
<1>3. DOMAIN none = {}
  BY <1>1 DEF Desk!Empty
<1>4. AccountFits(Desk!NewAccount, none)
  <2>1. OpenIds(none) = {} /\ ClosedIds(none) = {}
    BY <1>3 DEF OpenIds, ClosedIds
  <2>2. DeskCost(none) = 0 /\ DeskGain(none) = 0
    BY <2>1, SumEmpty DEF DeskCost, DeskGain
  <2> QED
    BY <2>2, DeskConstants DEF AccountFits, Desk!NewAccount
<1>5. CandidatesFit(candidates, hits, none, nextOrder)
  BY <1>3 DEF DeskInv, CandidatesFit, CandidateFits
<1>6. OrdersFit(none, hits, nextOrder) /\ PositionsFit(none, none, candles)
  BY <1>3 DEF DeskInv, OrdersFit, PositionsFit
<1>7. OutcomesFit(outcomes, none, none, nextOrder, unlearned)
  BY <1>3 DEF DeskInv, OutcomesFit, OutcomeFits
<1> QED
  BY <1>2, <1>4, <1>5, <1>6, <1>7, NoWork DEF DeskInv, Desk!CandidatesFinal

LEMMA LabelSays == ASSUME NEW p PROVE LabelFits(Desk!label_outcome(p), p.reason)
<1> DEFINE path == {candles[k] : k \in p.entry .. p.latest}
           hit == \E c \in path : c.high >= p.target
           stopped == \E c \in path : c.low <= p.stop
<1>1. Desk!label_outcome(p) =
        CASE p.status # "closed" -> "open"
          [] p.reason = "TARGET" \/ (p.reason = "TIME_EXIT" /\ hit /\ ~stopped) -> "winner"
          [] p.reason = "STOP_LOSS" \/ (p.reason = "TIME_EXIT" /\ stopped /\ ~hit) -> "failure"
          [] OTHER -> IF p.exit > p.price THEN "neutral_positive"
                      ELSE IF p.exit < p.price THEN "neutral_negative" ELSE "neutral"
  BY Zenon DEF Desk!label_outcome
<1> HIDE DEF hit, stopped
<1> QED
  BY <1>1 DEF LabelFits

LEMMA OutcomeStep == ASSUME DeskInv, Desk!upsert_trade_outcome PROVE DeskInv' /\ Desk!CandidatesFinal
<1>1. PICK i, p, oc : /\ i = Head(work).id /\ p = positions[i]
                      /\ oc = [entry |-> IF i \in DOMAIN outcomes THEN outcomes[i].entry ELSE p.entry,
                               status |-> p.status, label |-> Desk!label_outcome(p)]
  OBVIOUS
<1>2. /\ work # <<>> /\ Head(work).do = "outcome" /\ work' = Tail(work)
      /\ outcomes' = Desk!Put(outcomes, i, oc) /\ unlearned' = unlearned \ {i}
      /\ UNCHANGED <<candles, hits, candidates, orders, nextOrder, positions, account, snapshots>>
  BY <1>1 DEF Desk!upsert_trade_outcome, Desk!Doing, Desk!market, Desk!ledger
<1>3. /\ WorkSuits(work', hits, candidates, orders, positions)
      /\ TaskFits(Head(work), hits, candidates, orders, positions)
  BY <1>2, WorkTail DEF DeskInv
<1>4. i \in DOMAIN positions
  BY <1>1, <1>2, <1>3 DEF TaskFits
<1>5. OutcomesFit(outcomes, positions, orders, nextOrder, unlearned)
  BY DEF DeskInv
<1>6. oc.entry = p.entry /\ oc.status = p.status /\ LabelFits(oc.label, p.reason)
  <2>1. LabelFits(Desk!label_outcome(p), p.reason)
    BY LabelSays
  <2>2. i \in DOMAIN outcomes => outcomes[i].entry = p.entry
    BY <1>1, <1>4, <1>5 DEF OutcomesFit, OutcomeFits
  <2>3. oc.label = Desk!label_outcome(p) /\ oc.status = p.status
        /\ oc.entry = IF i \in DOMAIN outcomes THEN outcomes[i].entry ELSE p.entry
    BY <1>1
  <2> QED
    BY <2>1, <2>2, <2>3
<1>7. OutcomeFits(oc, i, positions, orders, nextOrder)
  <2>1. i \in Nat /\ i < nextOrder
    BY <1>4 DEF DeskInv, OrdersFit, PositionsFit
  <2> QED
    BY <1>1, <1>4, <1>6, <2>1 DEF OutcomeFits
<1>8. /\ DOMAIN outcomes' = DOMAIN outcomes \cup {i} /\ outcomes'[i] = oc
      /\ \A j \in DOMAIN outcomes : j # i => outcomes'[j] = outcomes[j]
  BY <1>2 DEF Desk!Put
<1>9. OutcomesFit(outcomes', positions, orders, nextOrder, unlearned')
  <2>1. \A j \in DOMAIN outcomes' : OutcomeFits(outcomes'[j], j, positions, orders, nextOrder)
    BY <1>5, <1>7, <1>8, SMTT(20) DEF OutcomesFit
  <2>2. \A j \in DOMAIN positions : positions[j].status = "closed" /\ j \notin unlearned' =>
          j \in DOMAIN outcomes' /\ outcomes'[j].status = "closed"
    BY <1>1, <1>2, <1>5, <1>6, <1>8 DEF OutcomesFit
  <2> QED
    BY <2>1, <2>2 DEF OutcomesFit
<1> QED
  BY <1>2, <1>3, <1>9 DEF DeskInv, Desk!CandidatesFinal

\* A pending order is decided on: the tables of orders and candidates stay what they are.
LEMMA OrderWritten ==
  ASSUME DeskInv, NEW i \in DOMAIN orders, NEW new, NEW s, SameDeskOrder(new, orders[i], s, DeskOrder),
         NEW os, os = [orders EXCEPT ![i] = new]
  PROVE  /\ OrdersFit(os, hits, nextOrder) /\ CandidatesFit(candidates, hits, os, nextOrder)
         /\ DOMAIN os = DOMAIN orders /\ os[i] = new /\ \A j \in DOMAIN orders : j # i => os[j] = orders[j]
<1>1. DOMAIN os = DOMAIN orders /\ os[i] = new /\ \A j \in DOMAIN orders : j # i => os[j] = orders[j]
  OBVIOUS
<1>2. /\ OrdersFit(orders, hits, nextOrder) /\ OrderFits(orders[i], hits)
  BY DEF DeskInv, OrdersFit
<1>3. OrderFits(new, hits) /\ new.date = orders[i].date
  BY <1>2 DEF OrderFits, SameDeskOrder
<1>4. \A j \in DOMAIN orders : os[j].date = orders[j].date /\ OrderFits(os[j], hits)
  BY <1>1, <1>2, <1>3 DEF OrdersFit
<1>5. OrdersFit(os, hits, nextOrder)
  BY <1>1, <1>2, <1>4 DEF OrdersFit
<1>6. CandidatesFit(candidates, hits, os, nextOrder)
  BY <1>1, <1>4 DEF DeskInv, CandidatesFit, CandidateFits
<1> QED
  BY <1>1, <1>5, <1>6

LEMMA OrderAtHand ==
  ASSUME DeskInv, work # <<>>, Head(work).do = "fill", NEW i, i = Head(work).id
  PROVE  /\ i \in DOMAIN orders /\ orders[i].status = "pending_entry" /\ i \notin DOMAIN positions
         /\ i \notin DOMAIN outcomes /\ orders[i] \in DeskOrder
         /\ WorkSuits(Tail(work), hits, candidates, orders, positions)
         /\ \A b \in ItemsOf(Tail(work)) :
              TaskFits(b, hits, candidates, orders, positions) /\ (b.do = "fill" => b.id # i)
<1>1. /\ WorkSuits(Tail(work), hits, candidates, orders, positions)
      /\ TaskFits(Head(work), hits, candidates, orders, positions)
      /\ \A b \in ItemsOf(Tail(work)) :
           Behind(Head(work), b) /\ TaskFits(b, hits, candidates, orders, positions)
  BY WorkTail DEF DeskInv
<1>2. i \in DOMAIN orders /\ orders[i].status = "pending_entry"
  BY <1>1 DEF TaskFits
<1>3. i \notin DOMAIN positions
  BY <1>2 DEF DeskInv, PositionsFit, PositionFits
<1>4. i \notin DOMAIN outcomes
  BY <1>2, <1>3 DEF DeskInv, OutcomesFit, OutcomeFits
<1>5. orders[i] \in DeskOrder
  BY <1>2 DEF DeskInv, OrdersFit, OrderFits
<1>6. \A b \in ItemsOf(Tail(work)) : b.do = "fill" => b.id # i
  BY <1>1 DEF Behind
<1> QED
  BY <1>1, <1>2, <1>3, <1>4, <1>5, <1>6

LEMMA RejectStep ==
  ASSUME DeskInv, work # <<>>, Head(work).do = "fill", NEW i, i = Head(work).id,
         orders' = [orders EXCEPT ![i] = [@ EXCEPT !.status = "rejected"]], work' = Tail(work),
         UNCHANGED <<candles, hits, candidates, nextOrder, positions, account, snapshots, outcomes, unlearned>>
  PROVE  DeskInv' /\ Desk!CandidatesFinal
<1>1. /\ i \in DOMAIN orders /\ i \notin DOMAIN positions /\ orders[i] \in DeskOrder
      /\ WorkSuits(Tail(work), hits, candidates, orders, positions)
      /\ \A b \in ItemsOf(Tail(work)) :
           TaskFits(b, hits, candidates, orders, positions) /\ (b.do = "fill" => b.id # i)
  BY OrderAtHand
<1>2. PICK o, new, os : /\ o = orders[i] /\ new = [o EXCEPT !.status = "rejected"]
                        /\ os = [orders EXCEPT ![i] = new]
  OBVIOUS
<1>3. SameDeskOrder(new, o, "rejected", DeskOrder)
  <2>1. "rejected" \in {"pending_entry", "filled", "rejected"}
    OBVIOUS
  <2>2. o \in DeskOrder /\ new = [o EXCEPT !.status = "rejected"]
    BY <1>1, <1>2
  <2> QED
    BY <2>1, <2>2, OrderRejected, Zenon
<1>4. /\ OrdersFit(os, hits, nextOrder) /\ CandidatesFit(candidates, hits, os, nextOrder)
      /\ DOMAIN os = DOMAIN orders /\ os[i] = new /\ \A j \in DOMAIN orders : j # i => os[j] = orders[j]
  BY <1>1, <1>2, <1>3, OrderWritten
<1>5. orders' = os
  BY <1>1, <1>2
<1>6. PositionsFit(positions, os, candles)
  BY <1>1, <1>4 DEF DeskInv, PositionsFit
<1>7. OutcomesFit(outcomes, positions, os, nextOrder, unlearned)
  BY <1>4 DEF DeskInv, OutcomesFit, OutcomeFits
<1>8. WorkSuits(work', hits, candidates, os, positions)
  <2>1. \A b \in ItemsOf(Tail(work)) : TaskFits(b, hits, candidates, os, positions)
    BY <1>1, <1>4 DEF TaskFits
  <2> QED
    BY <1>1, <2>1, WorkMoves
<1> QED
  BY <1>4, <1>5, <1>6, <1>7, <1>8 DEF DeskInv, Desk!CandidatesFinal


LEMMA NewPositionOpened ==
  ASSUME NEW o, o.date \in Nat, o.plan.after \in Nat, o.plan.stop \in Int,
         NEW price \in Int, NEW goal \in Int, NEW k, k = o.plan.after + 1,
         NEW p, p = Desk!NewPosition(o, price, goal)
  PROVE  JustOpened(p, k, price)
<1>1. PICK d, s : d = o.date /\ s = o.plan.stop
  OBVIOUS
<1>2. p = [entry |-> k, price |-> price, stop |-> s, target |-> goal,
           status |-> "open", latest |-> 0, holding |-> 0, exit |-> 0, reason |-> "", date |-> d]
  BY <1>1 DEF Desk!NewPosition
<1>3. d \in Nat /\ s \in Int /\ k \in Nat
  BY <1>1
<1> QED
  BY <1>2, <1>3, DeskOpenedTyped, Zenon

LEMMA OpenedFits ==
  ASSUME NEW m \in Nat, m = Len(candles), NEW p, NEW k, NEW price, JustOpened(p, k, price),
         NEW o, o.status = "filled", k > o.date
  PROVE  PositionFits(p, o, candles)
<1>1. MaxHolding \in Nat /\ 0 < MaxHolding
  BY DeskConstants
<1>2. /\ p \in DeskPosition /\ p.entry = k /\ p.status = "open" /\ p.latest = 0
      /\ p.holding = 0 /\ p.reason = ""
  BY DEF JustOpened
<1>3. p.latest <= Len(candles)
  <2>1. 0 <= m
    OBVIOUS
  <2> QED
    BY <1>2, <2>1
<1>6. p.holding <= MaxHolding /\ p.holding < MaxHolding
  <2>1. PICK most : most = MaxHolding
    OBVIOUS
  <2>2. 0 <= most /\ 0 < most
    BY <1>1, <2>1
  <2> QED
    BY <1>2, <2>1, <2>2
<1>4. p.status # "closed"
  BY <1>2
<1>5. Counts(p, candles)
  BY <1>2, <1>3, <1>4, <1>6 DEF Counts
<1> QED
  BY <1>2, <1>5 DEF PositionFits

\* What the ledger moves, the account follows.
LEMMA AccountMoves ==
  ASSUME NEW ac, NEW ps, AccountFits(ac, ps), PricesTyped(ps), NEW qs, PricesTyped(qs),
         NEW cost \in Int, NEW gain \in Int, Moves(ps, qs, cost, gain),
         NEW new, new = [cash |-> ac.cash + gain - cost, realized |-> ac.realized + gain]
  PROVE  AccountFits(new, qs)
<1>1. /\ DeskCost(ps) \in Int /\ DeskGain(ps) \in Int
  BY SumsTyped
<1>2. /\ ac.cash \in Int /\ ac.realized \in Int /\ ac.realized = DeskGain(ps)
      /\ ac.cash = InitialCash + ac.realized - DeskCost(ps)
  BY DEF AccountFits
<1>3. /\ DeskCost(qs) = DeskCost(ps) + cost /\ DeskGain(qs) = DeskGain(ps) + gain /\ InitialCash \in Int
  BY DeskConstants DEF Moves
<1>4. new.cash = ac.cash + gain - cost /\ new.realized = ac.realized + gain
  OBVIOUS
<1>5. new \in [cash : Int, realized : Int]
  BY <1>2
<1>6. new.realized = DeskGain(qs)
  BY <1>2, <1>3, <1>4
<1>7. new.cash = InitialCash + new.realized - DeskCost(qs)
  BY <1>1, <1>2, <1>3, <1>4
<1> QED
  BY <1>5, <1>6, <1>7 DEF AccountFits

\* An order is filled by a position opened at price.
LEMMA OpenStep ==
  ASSUME DeskInv, work # <<>>, Head(work).do = "fill", NEW i, i = Head(work).id,
         NEW o, o = orders[i], NEW k, k = o.plan.after + 1, NEW price \in Int, NEW goal \in Int,
         NEW p, p = Desk!NewPosition(o, price, goal),
         orders' = [orders EXCEPT ![i] = [@ EXCEPT !.status = "filled", !.filled = k]],
         positions' = Desk!Put(positions, i, p), account' = [account EXCEPT !.cash = @ - price],
         work' = Tail(work),
         UNCHANGED <<candles, hits, candidates, nextOrder, snapshots, outcomes, unlearned>>
  PROVE  DeskInv' /\ Desk!CandidatesFinal
<1>1. /\ i \in DOMAIN orders /\ i \notin DOMAIN positions /\ i \notin DOMAIN outcomes /\ o \in DeskOrder
      /\ WorkSuits(Tail(work), hits, candidates, orders, positions)
      /\ \A b \in ItemsOf(Tail(work)) :
           TaskFits(b, hits, candidates, orders, positions) /\ (b.do = "fill" => b.id # i)
  BY OrderAtHand
<1>2. PICK new, os, ps : /\ new = [o EXCEPT !.status = "filled", !.filled = k]
                         /\ os = [orders EXCEPT ![i] = new] /\ ps = Desk!Put(positions, i, p)
  OBVIOUS
<1>3. /\ o.date \in Nat /\ o.plan \in DeskPlan /\ o.plan.after \in Nat /\ o.plan.stop \in Int
      /\ k \in Nat /\ k > o.date
  <2>1. OrderFits(o, hits)
    BY <1>1 DEF DeskInv, OrdersFit
  <2>2. o.date \in Nat /\ o.plan \in DeskPlan
    BY <1>1 DEF DeskOrder
  <2>3. o.plan.after \in Nat /\ o.plan.stop \in Int
    BY <2>2 DEF DeskPlan
  <2> QED
    BY <2>1, <2>2, <2>3, SMTT(20) DEF OrderFits
<1>4. SameDeskOrder(new, o, "filled", DeskOrder)
  <2>1. "filled" \in {"pending_entry", "filled", "rejected"}
    OBVIOUS
  <2>2. o \in DeskOrder /\ k \in Nat
    BY <1>1, <1>3
  <2> QED
    BY <1>2, <2>1, <2>2, OrderFilled, Zenon
<1>5. /\ OrdersFit(os, hits, nextOrder) /\ CandidatesFit(candidates, hits, os, nextOrder)
      /\ DOMAIN os = DOMAIN orders /\ os[i] = new /\ \A j \in DOMAIN orders : j # i => os[j] = orders[j]
  BY <1>1, <1>2, <1>4, OrderWritten
<1>6. orders' = os /\ positions' = ps
  BY <1>1, <1>2
<1>7. JustOpened(p, k, price)
  BY <1>3, NewPositionOpened
<1>8. PositionFits(p, new, candles)
  <2>1. new.status = "filled" /\ k > new.date
    BY <1>3, <1>4 DEF SameDeskOrder
  <2> QED
    <3>1. PICK m \in Nat : m = Len(candles)
      BY DEF DeskInv
    <3> QED
      BY <1>7, <2>1, <3>1, OpenedFits, Zenon
<1>9. DOMAIN ps = DOMAIN positions \cup {i} /\ ps[i] = p /\ \A j \in DOMAIN positions : ps[j] = positions[j] /\ j # i
  BY <1>1, <1>2 DEF Desk!Put
<1>10. PositionsFit(ps, os, candles)
  BY <1>1, <1>5, <1>8, <1>9 DEF DeskInv, PositionsFit
<1>11. OutcomesFit(outcomes, ps, os, nextOrder, unlearned)
  <2>1. \A j \in DOMAIN outcomes : OutcomeFits(outcomes[j], j, ps, os, nextOrder)
    BY <1>1, <1>5, <1>9 DEF DeskInv, OutcomesFit, OutcomeFits
  <2>2. \A j \in DOMAIN ps : ps[j].status = "closed" /\ j \notin unlearned =>
          j \in DOMAIN outcomes /\ outcomes[j].status = "closed"
    BY <1>7, <1>9 DEF DeskInv, OutcomesFit, JustOpened
  <2> QED
    BY <2>1, <2>2 DEF OutcomesFit
<1>12. AccountFits(account', ps)
  <2>1. PricesTyped(positions) /\ PricesTyped(ps)
    BY <1>5, <1>10, PositionsTyped DEF DeskInv
  <2>2. Moves(positions, ps, price, 0)
    <3>1. p.price = price /\ p.status = "open"
      BY <1>7 DEF JustOpened
    <3>2. Moves(positions, ps, p.price, 0)
      BY <1>1, <1>2, <2>1, <3>1, FillMoves
    <3> QED
      BY <3>1, <3>2
  <2>3. AccountFits(account, positions)
    BY DEF DeskInv
  <2>4. account' = [cash |-> account.cash + 0 - price, realized |-> account.realized + 0]
    <3>1. account \in [cash : Int, realized : Int]
      BY <2>3 DEF AccountFits
    <3>2. account' = [account EXCEPT !.cash = account.cash - price]
      OBVIOUS
    <3>3. account' = [cash |-> account.cash - price, realized |-> account.realized]
      BY <3>1, <3>2
    <3>4. account.cash - price = account.cash + 0 - price /\ account.realized + 0 = account.realized
      BY <3>1
    <3> QED
      BY <3>3, <3>4
  <2>5. PICK ac : ac = account'
    OBVIOUS
  <2>6. 0 \in Int /\ ac = [cash |-> account.cash + 0 - price, realized |-> account.realized + 0]
    BY <2>4, <2>5
  <2>7. AccountFits(ac, ps)
    BY <2>1, <2>2, <2>3, <2>6, AccountMoves, Zenon
  <2> QED
    BY <2>5, <2>7
<1>13. WorkSuits(work', hits, candidates, os, ps)
  <2>1. \A b \in ItemsOf(Tail(work)) : TaskFits(b, hits, candidates, os, ps)
    BY <1>1, <1>5, <1>9 DEF TaskFits
  <2> QED
    BY <1>1, <2>1, WorkMoves
<1> QED
  BY <1>5, <1>6, <1>10, <1>11, <1>12, <1>13 DEF DeskInv, Desk!CandidatesFinal

LEMMA FillStep == ASSUME DeskInv, Desk!FillStep PROVE DeskInv' /\ Desk!CandidatesFinal
<1>1. PICK i, o, k, open, goal :
        /\ i = Head(work).id /\ o = orders[i] /\ k = o.plan.after + 1 /\ open = candles[k].open
        /\ goal = IF o.plan.target # 0 THEN o.plan.target ELSE open + 2 * (open - o.plan.stop)
  BY SMTT(30)
<1>2. /\ work # <<>> /\ Head(work).do = "fill" /\ work' = Tail(work)
      /\ UNCHANGED <<candles, hits, candidates, nextOrder, snapshots, outcomes, unlearned>>
      /\ \/ UNCHANGED <<orders, positions, account>>
         \/ /\ orders' = [orders EXCEPT ![i] = [@ EXCEPT !.status = "rejected"]]
            /\ UNCHANGED <<positions, account>>
         \/ /\ ~(k > Len(candles))
            /\ orders' = [orders EXCEPT ![i] = [@ EXCEPT !.status = "filled", !.filled = k]]
            /\ positions' = Desk!Put(positions, i, Desk!NewPosition(o, open, goal))
            /\ account' = [account EXCEPT !.cash = @ - open]
  BY <1>1 DEF Desk!FillStep, Desk!Doing, Desk!market, Desk!ledger, Desk!learning
<1>3. CASE UNCHANGED <<orders, positions, account>>
  <2>1. WorkSuits(Tail(work), hits, candidates, orders, positions)
    BY <1>2, WorkTail DEF DeskInv
  <2> QED
    BY <1>2, <1>3, <2>1, WorkOnly
<1>4. CASE /\ orders' = [orders EXCEPT ![i] = [@ EXCEPT !.status = "rejected"]]
           /\ UNCHANGED <<positions, account>>
  BY <1>1, <1>2, <1>4, RejectStep
<1>5. CASE /\ ~(k > Len(candles))
           /\ orders' = [orders EXCEPT ![i] = [@ EXCEPT !.status = "filled", !.filled = k]]
           /\ positions' = Desk!Put(positions, i, Desk!NewPosition(o, open, goal))
           /\ account' = [account EXCEPT !.cash = @ - open]
  <2>1. o \in DeskOrder
    BY <1>1, <1>2, OrderAtHand
  <2>2. o.plan.after \in Nat /\ o.plan.stop \in Int /\ o.plan.target \in Int
    <3>1. o.plan \in DeskPlan
      BY <2>1 DEF DeskOrder
    <3> QED
      BY <3>1 DEF DeskPlan
  <2>3. candles[k] \in Candles
    <3>1. candles \in Seq(Candles) /\ Len(candles) \in Nat
      BY DEF DeskInv
    <3>2. k \in Nat /\ k >= 1
      BY <1>1, <2>2
    <3>3. k <= Len(candles)
      BY <1>5, <3>1, <3>2
    <3>4. k \in 1 .. Len(candles)
      BY <3>1, <3>2, <3>3
    <3> QED
      BY <3>1, <3>4
  <2>4. open \in Int
    BY <1>1, <2>3, DeskConstants
  <2>5. goal \in Int
    <3>1. open + 2 * (open - o.plan.stop) \in Int
      BY <2>2, <2>4
    <3> QED
      BY <1>1, <2>2, <3>1
  <2>6. PICK p : p = Desk!NewPosition(o, open, goal)
    OBVIOUS
  <2> QED
    BY <1>1, <1>2, <1>5, <2>4, <2>5, <2>6, OpenStep, ZenonT(40)
<1> QED
  BY <1>2, <1>3, <1>4, <1>5

-----------------------------------------------------------------------------
(* A candle of a position                                                    *)

\* What the exit rule says of a candle.
ExitFits(x, p, c, held) ==
  /\ x.reason \in {"", "STOP_LOSS", "TARGET", "TIME_EXIT"} /\ x.price \in Int
  /\ x.reason = "" => c.low > p.stop /\ c.high < p.target /\ held < MaxHolding

LEMMA ExitSays ==
  ASSUME NEW p \in DeskPosition, NEW c \in Candles, NEW held \in Nat
  PROVE  ExitFits(Desk!Exit(p, c, held), p, c, held)
<1>1. /\ p.stop \in Int /\ p.target \in Int
  BY DEF DeskPosition
<1>2. /\ c.low \in Int /\ c.high \in Int /\ c.close \in Int /\ MaxHolding \in Int
  BY DeskConstants
<1>3. CASE c.low <= p.stop
  <2>1. Desk!Exit(p, c, held) = [price |-> p.stop, reason |-> "STOP_LOSS"]
    <3>1. c.low <= p.stop /\ ~(c.low > p.stop)
      BY <1>1, <1>2, <1>3
    <3> QED
      BY <3>1, Zenon DEF Desk!Exit
  <2>2. ExitFits([price |-> p.stop, reason |-> "STOP_LOSS"], p, c, held)
    BY <1>1 DEF ExitFits
  <2> QED
    BY <2>1, <2>2, Zenon
<1>4. CASE ~(c.low <= p.stop) /\ c.high >= p.target
  <2>1. Desk!Exit(p, c, held) = [price |-> p.target, reason |-> "TARGET"]
    <3>1. ~(c.low <= p.stop) /\ c.low > p.stop /\ c.high >= p.target /\ ~(c.high < p.target)
      BY <1>1, <1>2, <1>4
    <3> QED
      BY <3>1, Zenon DEF Desk!Exit
  <2>2. ExitFits([price |-> p.target, reason |-> "TARGET"], p, c, held)
    BY <1>1 DEF ExitFits
  <2> QED
    BY <2>1, <2>2, Zenon
<1>5. CASE ~(c.low <= p.stop) /\ ~(c.high >= p.target) /\ held >= MaxHolding
  <2>1. Desk!Exit(p, c, held) = [price |-> c.close, reason |-> "TIME_EXIT"]
    <3>1. ~(c.low <= p.stop) /\ c.low > p.stop /\ ~(c.high >= p.target) /\ c.high < p.target /\ held >= MaxHolding
      BY <1>1, <1>2, <1>5
    <3> QED
      BY <3>1, Zenon DEF Desk!Exit
  <2>2. ExitFits([price |-> c.close, reason |-> "TIME_EXIT"], p, c, held)
    BY <1>2 DEF ExitFits
  <2> QED
    BY <2>1, <2>2, Zenon
<1>6. CASE ~(c.low <= p.stop) /\ ~(c.high >= p.target) /\ ~(held >= MaxHolding)
  <2>1. c.low > p.stop /\ c.high < p.target /\ held < MaxHolding
    BY <1>1, <1>2, <1>6
  <2>2. Desk!Exit(p, c, held) = [price |-> 0, reason |-> ""]
    BY <1>1, <1>2, <1>6 DEF Desk!Exit
  <2>3. ExitFits([price |-> 0, reason |-> ""], p, c, held)
    BY <2>1 DEF ExitFits
  <2> QED
    BY <2>2, <2>3, Zenon
<1> QED
  BY <1>3, <1>4, <1>5, <1>6

\* The next candle of an open position is the one after those it has counted.
LEMMA NextCounts ==
  ASSUME NEW o, o.date \in Nat, NEW p, PositionFits(p, o, candles), p.status = "open",
         NEW k, k = Desk!NextSession(p), NEW held, held = p.holding + 1
  PROVE  /\ k \in Nat \ {0} /\ held \in Nat /\ p.entry \in Nat /\ p.entry <= k
         /\ held = k - p.entry + 1 /\ held <= MaxHolding
         /\ \A j \in p.entry .. k - 1 : candles[j].low > p.stop /\ candles[j].high < p.target
<1>1. Counts(p, candles) /\ p \in DeskPosition /\ p.entry > o.date
  BY DEF PositionFits
<1>2. p.entry \in Nat /\ p.latest \in Nat /\ p.holding \in Nat
  BY <1>1 DEF DeskPosition
<1>3. PICK e, l, n, most : e = p.entry /\ l = p.latest /\ n = p.holding /\ most = MaxHolding
  OBVIOUS
<1>4. /\ e \in Nat /\ l \in Nat /\ n \in Nat /\ most \in Nat /\ e > 0
  BY <1>1, <1>2, <1>3, DeskConstants
<1>5. /\ l = 0 => n = 0
      /\ l # 0 => e <= l /\ n = l - e + 1
      /\ n < most
      /\ l # 0 => \A j \in e .. l : candles[j].low > p.stop /\ candles[j].high < p.target
  BY <1>1, <1>3 DEF Counts
<1>6. k = IF l = 0 THEN e ELSE l + 1
  BY <1>3 DEF Desk!NextSession
<1>7. held = n + 1
  BY <1>3
<1>8. /\ k \in Nat \ {0} /\ held \in Nat /\ e <= k /\ held = k - e + 1 /\ held <= most
  BY <1>4, <1>5, <1>6, <1>7
<1>9. \A j \in e .. k - 1 : candles[j].low > p.stop /\ candles[j].high < p.target
  BY <1>4, <1>5, <1>6
<1> QED
  BY <1>3, <1>4, <1>8, <1>9

\* The marked and the closed position fit the candles they have counted.
LEMMA MarkFits ==
  ASSUME NEW o, o.date \in Nat, NEW p, PositionFits(p, o, candles), p.status = "open",
         NEW k, k = Desk!NextSession(p), NEW held, held = p.holding + 1,
         NEW m \in Nat, m = Len(candles), k <= m,
         candles[k].low > p.stop, candles[k].high < p.target, held < MaxHolding,
         NEW q, OnTo(q, p, k, held, p.status, p.reason, DeskPosition)
  PROVE  PositionFits(q, o, candles)
<1>1. /\ k \in Nat \ {0} /\ held \in Nat /\ p.entry \in Nat /\ p.entry <= k
      /\ held = k - p.entry + 1 /\ held <= MaxHolding
      /\ \A j \in p.entry .. k - 1 : candles[j].low > p.stop /\ candles[j].high < p.target
  BY NextCounts
<1>2. /\ q \in DeskPosition /\ q.entry = p.entry /\ q.stop = p.stop /\ q.target = p.target
      /\ q.latest = k /\ q.holding = held /\ q.status = "open" /\ q.reason = p.reason
  BY DEF OnTo
<1>3. /\ p.reason = "" /\ o.status = "filled" /\ p.entry > o.date
  BY DEF PositionFits, Counts
<1>4. \A j \in p.entry .. k : candles[j].low > p.stop /\ candles[j].high < p.target
  BY <1>1
<1>5. \A j \in q.entry .. q.latest : candles[j].low > q.stop /\ candles[j].high < q.target
  BY <1>2, <1>4
<1>6. /\ q.latest <= Len(candles) /\ q.latest # 0 /\ q.entry <= q.latest
      /\ q.holding = q.latest - q.entry + 1 /\ q.holding <= MaxHolding /\ q.holding < MaxHolding
  BY <1>1, <1>2
<1>7. Counts(q, candles)
  BY <1>2, <1>3, <1>5, <1>6 DEF Counts
<1> QED
  BY <1>2, <1>3, <1>7 DEF PositionFits

LEMMA CloseFits ==
  ASSUME NEW o, o.date \in Nat, NEW p, PositionFits(p, o, candles), p.status = "open",
         NEW k, k = Desk!NextSession(p), NEW held, held = p.holding + 1,
         NEW m \in Nat, m = Len(candles), k <= m, NEW reason, reason # "",
         NEW q, OnTo(q, p, k, held, "closed", reason, DeskPosition)
  PROVE  PositionFits(q, o, candles)
<1>1. /\ k \in Nat \ {0} /\ held \in Nat /\ p.entry \in Nat /\ p.entry <= k
      /\ held = k - p.entry + 1 /\ held <= MaxHolding
  BY NextCounts
<1>2. /\ q \in DeskPosition /\ q.entry = p.entry
      /\ q.latest = k /\ q.holding = held /\ q.status = "closed" /\ q.reason = reason
  BY DEF OnTo
<1>3. /\ o.status = "filled" /\ p.entry > o.date
  BY DEF PositionFits
<1>4. /\ q.latest <= Len(candles) /\ q.latest # 0 /\ q.entry <= q.latest
      /\ q.holding = q.latest - q.entry + 1 /\ q.holding <= MaxHolding
  BY <1>1, <1>2
<1>5. q.status # "open" /\ q.reason # ""
  BY <1>2
<1>6. Counts(q, candles)
  BY <1>2, <1>4, <1>5 DEF Counts
<1> QED
  BY <1>2, <1>3, <1>6 DEF PositionFits

LEMMA PositionAtHand ==
  ASSUME DeskInv, work # <<>>, Head(work).do = "position", NEW i, i = Head(work).id
  PROVE  /\ i \in DOMAIN positions /\ positions[i].status = "open" /\ positions[i] \in DeskPosition
         /\ i \in DOMAIN orders /\ orders[i].date \in Nat /\ PositionFits(positions[i], orders[i], candles)
         /\ WorkSuits(Tail(work), hits, candidates, orders, positions)
         /\ \A b \in ItemsOf(Tail(work)) :
              /\ Behind(Head(work), b) /\ TaskFits(b, hits, candidates, orders, positions)
              /\ b.do = "position" => b.id # i
<1>1. /\ WorkSuits(Tail(work), hits, candidates, orders, positions)
      /\ TaskFits(Head(work), hits, candidates, orders, positions)
      /\ \A b \in ItemsOf(Tail(work)) :
           Behind(Head(work), b) /\ TaskFits(b, hits, candidates, orders, positions)
  BY WorkTail DEF DeskInv
<1>2. i \in DOMAIN positions /\ positions[i].status = "open"
  BY <1>1 DEF TaskFits
<1>3. i \in DOMAIN orders /\ PositionFits(positions[i], orders[i], candles)
  BY <1>2 DEF DeskInv, PositionsFit
<1>4. positions[i] \in DeskPosition
  BY <1>3 DEF PositionFits
<1>5. orders[i].date \in Nat
  <2>1. orders[i] \in DeskOrder
    BY <1>3 DEF DeskInv, OrdersFit, OrderFits
  <2> QED
    BY <2>1 DEF DeskOrder
<1>6. \A b \in ItemsOf(Tail(work)) : b.do = "position" => b.id # i
  BY <1>1 DEF Behind
<1> QED
  BY <1>1, <1>2, <1>3, <1>4, <1>5, <1>6

\* An open position is written: the tables that refer to it stay what they are.
LEMMA PositionWritten ==
  ASSUME DeskInv, NEW i \in DOMAIN positions, NEW q, PositionFits(q, orders[i], candles),
         positions[i].status = "open", q.entry = positions[i].entry,
         NEW missed, unlearned \subseteq missed, q.status = "closed" => i \in missed,
         NEW ps, ps = [positions EXCEPT ![i] = q]
  PROVE  /\ PositionsFit(ps, orders, candles)
         /\ OutcomesFit(outcomes, ps, orders, nextOrder, missed)
         /\ DOMAIN ps = DOMAIN positions /\ ps[i] = q
         /\ \A j \in DOMAIN positions : j # i => ps[j] = positions[j]
<1>1. /\ DOMAIN ps = DOMAIN positions /\ ps[i] = q
      /\ \A j \in DOMAIN positions : j # i => ps[j] = positions[j]
  OBVIOUS
<1>2. PositionsFit(ps, orders, candles)
  BY <1>1 DEF DeskInv, PositionsFit
<1>3. positions[i].reason = ""
  <2>1. Counts(positions[i], candles)
    BY DEF DeskInv, PositionsFit, PositionFits
  <2> QED
    BY <2>1 DEF Counts
<1>4. q.reason \in {"", "STOP_LOSS", "TARGET", "TIME_EXIT"}
  <2>1. q \in DeskPosition
    BY DEF PositionFits
  <2> QED
    BY <2>1 DEF DeskPosition
<1>5. \A j \in DOMAIN outcomes : OutcomeFits(outcomes[j], j, ps, orders, nextOrder)
  <2> SUFFICES ASSUME NEW j \in DOMAIN outcomes PROVE OutcomeFits(outcomes[j], j, ps, orders, nextOrder)
    OBVIOUS
  <2>1. OutcomeFits(outcomes[j], j, positions, orders, nextOrder)
    BY DEF DeskInv, OutcomesFit
  <2>2. CASE j = i
    <3>1. LabelFits(outcomes[j].label, "") /\ outcomes[j].entry = q.entry
      BY <1>3, <2>1, <2>2 DEF OutcomeFits
    <3>2. LabelFits(outcomes[j].label, q.reason)
      BY <3>1 DEF LabelFits
    <3> QED
      BY <1>1, <2>1, <2>2, <3>1, <3>2 DEF OutcomeFits
  <2>3. CASE j # i
    BY <1>1, <2>1, <2>3 DEF OutcomeFits
  <2> QED
    BY <2>2, <2>3
<1>6. \A j \in DOMAIN ps : ps[j].status = "closed" /\ j \notin missed =>
        j \in DOMAIN outcomes /\ outcomes[j].status = "closed"
  BY <1>1 DEF DeskInv, OutcomesFit
<1>7. OutcomesFit(outcomes, ps, orders, nextOrder, missed)
  BY <1>5, <1>6 DEF OutcomesFit
<1> QED
  BY <1>1, <1>2, <1>7

\* What follows a position in the agenda may follow its outcome.
LEMMA OutcomeNext ==
  ASSUME NEW a, NEW b, a.do = "position", Behind(a, b), NEW oc, oc.do = "outcome"
  PROVE  Behind(oc, b)
BY DEF Behind

\* Position i rewritten, the tables still agree.
Rewritten(ps, i, ac, missed) ==
  /\ PositionsFit(ps, orders, candles)
  /\ OutcomesFit(outcomes, ps, orders, nextOrder, missed) /\ AccountFits(ac, ps)
  /\ DOMAIN ps = DOMAIN positions
  /\ \A j \in DOMAIN positions : j # i => ps[j] = positions[j]

StillOpen(ps, i) == Rewritten(ps, i, account, unlearned) /\ ps[i].status = "open"

\* What a closed position paid, the account has received.
LEMMA CloseAccount ==
  ASSUME NEW ac0, NEW ps, NEW i \in DOMAIN ps, NEW q, NEW qs, qs = [ps EXCEPT ![i] = q],
         ps[i].status = "open", q.status = "closed", q.price = ps[i].price,
         PricesTyped(ps), PricesTyped(qs), AccountFits(ac0, ps),
         NEW ac, ac = [cash |-> ac0.cash + q.exit, realized |-> ac0.realized + q.exit - q.price]
  PROVE  AccountFits(ac, qs)
<1>1. Moves(ps, qs, 0 - q.price, q.exit - q.price)
  BY CloseMoves
<1>2. q.price \in Int /\ q.exit \in Int
  <2>1. qs[i] = q /\ i \in DOMAIN qs
    OBVIOUS
  <2> QED
    BY <2>1 DEF PricesTyped
<1>3. ac0.cash \in Int /\ ac0.realized \in Int
  BY DEF AccountFits
<1>4. PICK c0, r0, a, b : c0 = ac0.cash /\ r0 = ac0.realized /\ a = q.exit /\ b = q.price
  OBVIOUS
<1>5. ac = [cash |-> c0 + a, realized |-> r0 + a - b]
  BY <1>4
<1>6. c0 \in Int /\ r0 \in Int /\ a \in Int /\ b \in Int
  BY <1>2, <1>3, <1>4
<1>7. 0 - b \in Int /\ a - b \in Int /\ c0 + a = c0 + (a - b) - (0 - b) /\ r0 + a - b = r0 + (a - b)
  BY <1>6
<1>8. Moves(ps, qs, 0 - b, a - b)
  BY <1>1, <1>4
<1>9. ac = [cash |-> ac0.cash + (a - b) - (0 - b), realized |-> ac0.realized + (a - b)]
  BY <1>4, <1>5, <1>7, Zenon
<1> QED
  BY <1>7, <1>8, <1>9, AccountMoves, Zenon

\* The candle looked at, and what the exit rule says of it.
LEMMA NextCandle ==
  ASSUME DeskInv, NEW o, o.date \in Nat, NEW p \in DeskPosition, PositionFits(p, o, candles), p.status = "open",
         NEW k, k = Desk!NextSession(p), NEW held, held = p.holding + 1, ~(k > Len(candles))
  PROVE  /\ k \in Nat /\ held \in Nat /\ k <= Len(candles)
         /\ ExitFits(Desk!Exit(p, candles[k], held), p, candles[k], held)
<1>1. PICK m \in Nat : m = Len(candles)
  BY DEF DeskInv
<1>2. k \in Nat \ {0} /\ held \in Nat
  BY NextCounts
<1>3. k <= m
  BY <1>1, <1>2
<1>4. k \in 1 .. Len(candles)
  <2>1. k \in 1 .. m
    BY <1>2, <1>3
  <2> QED
    BY <1>1, <2>1, Zenon
<1>5. candles[k] \in Candles
  <2>1. candles \in Seq(Candles)
    BY DEF DeskInv
  <2> QED
    BY <1>4, <2>1
<1> QED
  BY <1>1, <1>2, <1>3, <1>5, ExitSays, Zenon

LEMMA CandlesCounted == ASSUME DeskInv PROVE Len(candles) \in Nat
<1>1. candles \in Seq(Candles)
  BY DEF DeskInv
<1> QED
  BY <1>1

LEMMA MarkedPosition ==
  ASSUME DeskInv, NEW o, o.date \in Nat, NEW p \in DeskPosition, PositionFits(p, o, candles), p.status = "open",
         NEW k \in Nat, k = Desk!NextSession(p), NEW held \in Nat, held = p.holding + 1, k <= Len(candles),
         NEW x, ExitFits(x, p, candles[k], held), x.reason = "",
         NEW q, OnTo(q, p, k, held, p.status, p.reason, DeskPosition)
  PROVE  PositionFits(q, o, candles)
<1>1. candles[k].low > p.stop /\ candles[k].high < p.target /\ held < MaxHolding
  BY DEF ExitFits
<1>2. PICK m \in Nat : m = Len(candles)
  BY CandlesCounted, Zenon
<1>3. k <= m
  BY <1>2
<1> QED
  BY <1>1, <1>2, <1>3, MarkFits, ZenonT(60)

LEMMA ClosedPosition ==
  ASSUME DeskInv, NEW o, o.date \in Nat, NEW p \in DeskPosition, PositionFits(p, o, candles), p.status = "open",
         NEW k \in Nat, k = Desk!NextSession(p), NEW held \in Nat, held = p.holding + 1, k <= Len(candles),
         NEW reason, reason # "", NEW q, OnTo(q, p, k, held, "closed", reason, DeskPosition)
  PROVE  PositionFits(q, o, candles)
<1>1. PICK m \in Nat : m = Len(candles)
  BY CandlesCounted, Zenon
<1>2. k <= m
  BY <1>1
<1> QED
  BY <1>1, <1>2, CloseFits, ZenonT(60)

LEMMA CandleMarks ==
  ASSUME DeskInv, NEW i \in DOMAIN positions, positions[i].status = "open", NEW k, NEW held, NEW reason,
         NEW q, OnTo(q, positions[i], k, held, "open", reason, DeskPosition), PositionFits(q, orders[i], candles),
         NEW ps, ps = [positions EXCEPT ![i] = q]
  PROVE  StillOpen(ps, i)
<1>1. q.entry = positions[i].entry /\ q.price = positions[i].price /\ q.status = "open"
  BY DEF OnTo
<1>2. /\ PositionsFit(ps, orders, candles)
      /\ OutcomesFit(outcomes, ps, orders, nextOrder, unlearned)
      /\ DOMAIN ps = DOMAIN positions /\ ps[i] = q
      /\ \A j \in DOMAIN positions : j # i => ps[j] = positions[j]
  BY <1>1, PositionWritten
<1>3. PricesTyped(positions) /\ PricesTyped(ps)
  BY <1>2, PositionsTyped DEF DeskInv
<1>4. Moves(positions, ps, 0, 0)
  BY <1>1, <1>3, MarkMoves
<1>5. AccountFits(account, positions)
  BY DEF DeskInv
<1>6. account = [cash |-> account.cash + 0 - 0, realized |-> account.realized + 0]
  <2>1. account \in [cash : Int, realized : Int]
    BY <1>5 DEF AccountFits
  <2> QED
    BY <2>1
<1>7. AccountFits(account, ps)
  BY <1>3, <1>4, <1>5, <1>6, ZeroTyped, AccountMoves, Zenon
<1> QED
  BY <1>1, <1>2, <1>7 DEF Rewritten, StillOpen

LEMMA CandleCloses ==
  ASSUME DeskInv, NEW i \in DOMAIN positions, positions[i].status = "open", NEW k, NEW held, NEW reason, NEW price,
         NEW q, ShutAt(q, positions[i], k, held, reason, price, DeskPosition), PositionFits(q, orders[i], candles),
         NEW ps, ps = [positions EXCEPT ![i] = q],
         NEW ac, ac = [cash |-> account.cash + price, realized |-> account.realized + price - positions[i].price]
  PROVE  Rewritten(ps, i, ac, unlearned \cup {i})
<1>1. /\ q.entry = positions[i].entry /\ q.price = positions[i].price /\ q.status = "closed" /\ q.exit = price
  BY DEF ShutAt, OnTo
<1>2. /\ PositionsFit(ps, orders, candles)
      /\ OutcomesFit(outcomes, ps, orders, nextOrder, unlearned \cup {i})
      /\ DOMAIN ps = DOMAIN positions /\ ps[i] = q
      /\ \A j \in DOMAIN positions : j # i => ps[j] = positions[j]
  <2>1. unlearned \subseteq unlearned \cup {i} /\ i \in unlearned \cup {i}
    OBVIOUS
  <2> QED
    BY <1>1, <2>1, PositionWritten
<1>3. PricesTyped(positions) /\ PricesTyped(ps)
  BY <1>2, PositionsTyped DEF DeskInv
<1>4. AccountFits(account, positions)
  BY DEF DeskInv
<1>5. ac = [cash |-> account.cash + q.exit, realized |-> account.realized + q.exit - q.price]
  BY <1>1, Zenon
<1>6. AccountFits(ac, ps)
  BY <1>1, <1>3, <1>4, <1>5, CloseAccount, ZenonT(60)
<1> QED
  BY <1>2, <1>6 DEF Rewritten

\* The position's next item stands at the head of what is left.
LEMMA NextItem ==
  ASSUME DeskInv, work # <<>>, Head(work).do = "position", NEW i, i = Head(work).id,
         NEW ps, DOMAIN ps = DOMAIN positions, \A j \in DOMAIN positions : j # i => ps[j] = positions[j],
         NEW a, \/ a = Head(work) /\ ps[i].status = "open"
                \/ a.do = "outcome" /\ a.id = i
  PROVE  WorkSuits(<<a>> \o Tail(work), hits, candidates, orders, ps)
<1>1. /\ i \in DOMAIN positions
      /\ WorkSuits(Tail(work), hits, candidates, orders, positions)
      /\ \A b \in ItemsOf(Tail(work)) :
           /\ Behind(Head(work), b) /\ TaskFits(b, hits, candidates, orders, positions)
           /\ b.do = "position" => b.id # i
  BY PositionAtHand
<1>2. WorkSuits(Tail(work), hits, candidates, orders, ps)
  <2>1. \A b \in ItemsOf(Tail(work)) : TaskFits(b, hits, candidates, orders, ps)
    BY <1>1 DEF TaskFits
  <2> QED
    BY <1>1, <2>1, WorkMoves
<1>3. TaskFits(a, hits, candidates, orders, ps) /\ \A b \in ItemsOf(Tail(work)) : Behind(a, b)
  <2>1. CASE a = Head(work) /\ ps[i].status = "open"
    <3>1. TaskFits(a, hits, candidates, orders, ps)
      <4>1. a.do = "position" /\ a.id \in DOMAIN ps /\ ps[a.id].status = "open"
        BY <1>1, <2>1
      <4> QED
        BY <4>1 DEF TaskFits
    <3> QED
      BY <1>1, <2>1, <3>1
  <2>2. CASE a.do = "outcome" /\ a.id = i
    <3>1. TaskFits(a, hits, candidates, orders, ps)
      BY <1>1, <2>2 DEF TaskFits
    <3> QED
      BY <1>1, <2>2, <3>1, OutcomeNext
  <2> QED
    BY <2>1, <2>2
<1> QED
  BY <1>2, <1>3, WorkHead

LEMMA PositionStep == ASSUME DeskInv, Desk!PositionStep PROVE DeskInv' /\ Desk!CandidatesFinal
<1>1. PICK i, p, k, held, x, oc :
        /\ i = Head(work).id /\ p = positions[i] /\ k = Desk!NextSession(p) /\ held = p.holding + 1
        /\ x = Desk!Exit(p, candles[k], held) /\ oc = [do |-> "outcome", id |-> i]
  OBVIOUS
<1>2. PICK qm, qc, ac :
        /\ qm = [p EXCEPT !.latest = k, !.holding = held]
        /\ qc = [p EXCEPT !.latest = k, !.holding = held, !.status = "closed", !.exit = x.price, !.reason = x.reason]
        /\ ac = [cash |-> account.cash + x.price, realized |-> account.realized + x.price - p.price]
  OBVIOUS
<1>3. PICK pm, pc : pm = [positions EXCEPT ![i] = qm] /\ pc = [positions EXCEPT ![i] = qc]
  OBVIOUS
<1>4. /\ work # <<>> /\ Head(work).do = "position"
      /\ UNCHANGED <<candles, hits, candidates, orders, nextOrder, snapshots, outcomes>>
      /\ \/ k > Len(candles) /\ work' = Tail(work) /\ UNCHANGED <<positions, account, unlearned>>
         \/ /\ ~(k > Len(candles)) /\ x.reason = "" /\ positions' = pm
            /\ (work' = <<Head(work)>> \o Tail(work) \/ work' = <<oc>> \o Tail(work))
            /\ UNCHANGED <<account, unlearned>>
         \/ /\ ~(k > Len(candles)) /\ x.reason # "" /\ positions' = pc /\ account' = ac
            /\ work' = <<oc>> \o Tail(work) /\ unlearned' = unlearned \cup {i}
  BY <1>1, <1>2, <1>3 DEF Desk!PositionStep, Desk!Doing, Desk!market, Desk!ledger, Desk!learning
<1>5. oc.do = "outcome" /\ oc.id = i
  BY <1>1
<1>9. /\ i \in DOMAIN positions /\ p.status = "open" /\ positions[i].status = "open" /\ p \in DeskPosition
      /\ orders[i].date \in Nat /\ PositionFits(p, orders[i], candles)
  BY <1>1, <1>4, PositionAtHand
<1>6. CASE k > Len(candles) /\ work' = Tail(work) /\ UNCHANGED <<positions, account, unlearned>>
  <2>1. WorkSuits(Tail(work), hits, candidates, orders, positions)
    BY <1>4, WorkTail DEF DeskInv
  <2> QED
    BY <1>4, <1>6, <2>1, WorkOnly
<1>7. CASE /\ ~(k > Len(candles)) /\ x.reason = "" /\ positions' = pm
           /\ (work' = <<Head(work)>> \o Tail(work) \/ work' = <<oc>> \o Tail(work))
           /\ UNCHANGED <<account, unlearned>>
  <2>1. StillOpen(pm, i)
    <3>1. /\ k \in Nat /\ held \in Nat /\ k <= Len(candles) /\ ExitFits(x, p, candles[k], held)
      BY <1>1, <1>7, <1>9, NextCandle, Zenon
    <3>2. OnTo(qm, p, k, held, p.status, p.reason, DeskPosition)
      BY <1>2, <1>9, <3>1, Marked, Zenon
    <3>3. PositionFits(qm, orders[i], candles)
      BY <1>1, <1>7, <1>9, <3>1, <3>2, MarkedPosition, ZenonT(60)
    <3>4. OnTo(qm, positions[i], k, held, "open", p.reason, DeskPosition)
      BY <1>1, <1>9, <3>2
    <3> QED
      BY <1>1, <1>3, <1>9, <3>3, <3>4, CandleMarks, ZenonT(60)
  <2>2. /\ WorkSuits(<<Head(work)>> \o Tail(work), hits, candidates, orders, pm)
        /\ WorkSuits(<<oc>> \o Tail(work), hits, candidates, orders, pm)
    BY <1>1, <1>4, <1>5, <2>1, NextItem DEF Rewritten, StillOpen
  <2>3. WorkSuits(work', hits, candidates, orders, pm)
    BY <1>7, <2>2
  <2> QED
    BY <1>4, <1>7, <2>1, <2>3 DEF DeskInv, Rewritten, StillOpen, Desk!CandidatesFinal
<1>8. CASE /\ ~(k > Len(candles)) /\ x.reason # "" /\ positions' = pc /\ account' = ac
           /\ work' = <<oc>> \o Tail(work) /\ unlearned' = unlearned \cup {i}
  <2>1. Rewritten(pc, i, ac, unlearned \cup {i})
    <3>1. /\ k \in Nat /\ held \in Nat /\ k <= Len(candles) /\ ExitFits(x, p, candles[k], held)
      BY <1>1, <1>8, <1>9, NextCandle, Zenon
    <3>2. PICK r, price : r = x.reason /\ price = x.price
      OBVIOUS
    <3>3. r \in {"", "STOP_LOSS", "TARGET", "TIME_EXIT"} /\ price \in Int /\ r # ""
      BY <1>8, <3>1, <3>2 DEF ExitFits
    <3>4. qc = [p EXCEPT !.latest = k, !.holding = held, !.status = "closed", !.exit = price, !.reason = r]
      BY <1>2, <3>2, Zenon
    <3>5. ShutAt(qc, p, k, held, r, price, DeskPosition)
      BY <1>9, <3>1, <3>3, <3>4, ShutDown, ZenonT(60)
    <3>6. PositionFits(qc, orders[i], candles)
      <4>1. OnTo(qc, p, k, held, "closed", r, DeskPosition)
        BY <3>5 DEF ShutAt
      <4> QED
        BY <1>1, <1>9, <3>1, <3>3, <4>1, ClosedPosition, ZenonT(60)
    <3>7. /\ ac = [cash |-> account.cash + price, realized |-> account.realized + price - positions[i].price]
          /\ ShutAt(qc, positions[i], k, held, r, price, DeskPosition)
      BY <1>1, <1>2, <3>2, <3>5, Zenon
    <3> QED
      BY <1>1, <1>3, <1>9, <3>6, <3>7, CandleCloses, ZenonT(60)
  <2>2. WorkSuits(<<oc>> \o Tail(work), hits, candidates, orders, pc)
    BY <1>1, <1>4, <1>5, <2>1, NextItem DEF Rewritten
  <2> QED
    BY <1>4, <1>8, <2>1, <2>2 DEF DeskInv, Rewritten, Desk!CandidatesFinal
<1> QED
  BY <1>4, <1>6, <1>7, <1>8

LEMMA DeskStep == ASSUME DeskInv, Desk!Next PROVE DeskInv' /\ Desk!CandidatesFinal
<1>1. CASE \E c \in Candles : Desk!NewCandle(c)
  BY <1>1, CandleStep
<1>2. CASE \E k \in DOMAIN candles : Desk!InsertHit(k)
  BY <1>2, HitStep
<1>3. CASE \E h \in DOMAIN hits : Desk!place_order(h) \/ (\E r \in Reviews : Desk!upsert_from_review(h, r))
  BY <1>3, PlaceCall, ReviewStep
<1>4. CASE Desk!monitor_entries
  BY <1>4, MonitorStep
<1>5. CASE Desk!CandidateStep
  BY <1>5, CandidateStep
<1>6. CASE Desk!mark_entered
  BY <1>6, EnteredStep
<1>7. CASE Desk!PlaceStep
  BY <1>7, PlaceStep
<1>8. CASE Desk!refresh
  BY <1>8, RefreshCall
<1>9. CASE Desk!RefreshStep
  BY <1>9, RefreshedStep
<1>10. CASE Desk!PositionsStep
  BY <1>10, PositionsStep
<1>11. CASE Desk!FillStep
  BY <1>11, FillStep
<1>12. CASE Desk!PositionStep
  BY <1>12, PositionStep
<1>13. CASE Desk!upsert_trade_outcome
  BY <1>13, OutcomeStep
<1>14. CASE Desk!reset_ledger
  BY <1>14, ResetStep
<1>15. CASE Desk!Dies
  BY <1>15, DiesStep
<1> QED
  BY <1>1, <1>2, <1>3, <1>4, <1>5, <1>6, <1>7, <1>8, <1>9, <1>10, <1>11, <1>12, <1>13, <1>14, <1>15
     DEF Desk!Next

LEMMA DeskInvariant ==
  Spec => [](system = "desk" => DeskInv) /\ [][system = "desk" => Desk!CandidatesFinal]_vars
<1>1. Init => (system = "desk" => DeskInv)
  BY DeskInit DEF Init
<1>2. (system = "desk" => DeskInv) /\ [Next]_vars => (system = "desk" => DeskInv)'
  <2> SUFFICES ASSUME system = "desk" => DeskInv, [Next]_vars, system' = "desk" PROVE DeskInv'
    OBVIOUS
  <2>1. CASE UNCHANGED vars
    <3>1. system' = system /\ UNCHANGED deskVars
      BY <2>1 DEF vars
    <3> QED
      BY <3>1 DEF deskVars, DeskInv
  <2>2. CASE Next
    BY <2>2, DeskStep DEF Next, OthersStay
  <2> QED
    BY <2>1, <2>2
<1>3. (system = "desk" => DeskInv) /\ [Next]_vars => [system = "desk" => Desk!CandidatesFinal]_vars
  BY DeskStep DEF Next, OthersStay
<1> QED
  BY <1>1, <1>2, <1>3, PTL DEF Spec

\* Whatever the candles and reviews are, however often a scan, a review, a
\* monitor or a refresh is repeated and wherever the process dies: the account is
\* the starting cash with the open positions paid and the closed ones' results
\* booked, which the journal's summary shows too; a signal session is ordered
\* once and filled after its trigger; each session of a position is counted once,
\* none past its limit; and learning keeps what happened (demo_trading.py,
\* watchlist.py, learning.py, journal.py).
THEOREM DeskTrue == Spec => []DeskAddsUp
<1>1. (system = "desk" => DeskInv) => DeskAddsUp
  BY DeskSafe DEF DeskAddsUp
<1> QED
  BY <1>1, DeskInvariant, PTL

\* A candidate once entered, expired or invalidated stays that (watchlist.py).
THEOREM DeskKept == Spec => [][system = "desk" => Desk!CandidatesFinal]_vars
BY DeskInvariant, PTL

-----------------------------------------------------------------------------
(* The forward logger                                                        *)

\* What a run of date d may be at before its save: the book, what it has yet to
\* look at and what it has closed, with the closes rs saved before.
BookWorks(pc, b, todo, closed, d, rs, st, f) ==
  /\ IsFiniteSet(closed) /\ rs \cap closed = {}
  /\ BookFits(b, rs \cup closed, d, MAX_SLOTS, StartingEquity)
  /\ pc = "orders" => /\ closed = {} /\ todo \subseteq b.pending
                      /\ \A o \in b.pending : o.sig < d
                      /\ \A p \in b.open : MayAge(st, f, p, d)
  /\ pc = "positions" => /\ todo \subseteq b.open
                         /\ \A p \in b.open : /\ CountedBars(st, f, p, d)
                                              /\ p \in todo => MayAge(st, f, p, d)
  /\ pc = "signals" => \A p \in b.open : CountedBars(st, f, p, d)

Phases == {"orders", "positions", "signals"}
RunInv ==
  /\ logger.pc \in Phases \cup {"idle", "append"}
  /\ logger.pc # "idle" => /\ logger.row.date \in 1 .. Len(stored)
                           /\ \A k \in DOMAIN dailyLog : dailyLog[k].date <= logger.row.date
  /\ logger.pc \in Phases => BookWorks(logger.pc, logger.book, logger.todo, logger.closed,
                                     logger.row.date, Logger!Closes, stored, forced)
  /\ logger.pc = "append" /\ portfolio # Logger!Torn => portfolio.last = logger.row.date

LedgerInv ==
  /\ EachOnce(tradeLedger) /\ IsFiniteSet(lost) /\ IsFiniteSet(Logger!Unwritten)
  /\ RowsIn(tradeLedger) \cap Logger!Unwritten = {}
  /\ RowsIn(tradeLedger) \cap lost = {} /\ Logger!Unwritten \cap lost = {}

DailyInv ==
  /\ dailyLog \in Seq({dailyLog[k] : k \in DOMAIN dailyLog})
  /\ \A k \in DOMAIN dailyLog : dailyLog[k].date \in Nat
  /\ \A j, k \in DOMAIN dailyLog : j < k => dailyLog[j].date <= dailyLog[k].date
  /\ portfolio # Logger!Torn => \A k \in DOMAIN dailyLog : dailyLog[k].date <= portfolio.last

PortfolioInv ==
  portfolio # Logger!Torn =>
    /\ portfolio.last \in 0 .. Len(stored)
    /\ BookFits(portfolio, Logger!Closes, portfolio.last, MAX_SLOTS, StartingEquity)
    /\ \A p \in portfolio.open : CountedBars(stored, forced, p, portfolio.last)

LoggerInv ==
  /\ stored \in Seq(LoggerSessions) /\ forced \in Nat
  /\ RunInv /\ LedgerInv /\ DailyInv /\ PortfolioInv

LEMMA LoggerConstants ==
  /\ MAX_SLOTS \in Nat \ {0} /\ StartingEquity \in Nat
  /\ \A s \in LoggerSessions : \A x \in DOMAIN s.bars : s.bars[x].close \in Nat /\ s.bars[x].open \in Nat \ {0}
BY OperationsAssumption

LEMMA LoggerSums == \A f, S : Logger!SumFunctionOnSet(f, S) = SumFunctionOnSet(f, S)
BY Zenon DEF Logger!SumFunctionOnSet, SumFunctionOnSet, Logger!FoldFunctionOnSet, FoldFunctionOnSet,
             Logger!MapThenFoldSet, MapThenFoldSet

LEMMA LoggerCounts == \A S : Logger!Cardinality(S) = Cardinality(S)
BY Zenon DEF Logger!Cardinality, Cardinality

LEMMA ClosesAre == Logger!Closes = RowsIn(tradeLedger) \cup Logger!Unwritten \cup lost
BY DEF Logger!Closes, Logger!Range, RowsIn

LEMMA ClosesAreNext == Logger!Closes' = RowsIn(tradeLedger') \cup Logger!Unwritten' \cup lost'
BY DEF Logger!Closes, Logger!Range, RowsIn

LEMMA LoggerSafe == LoggerInv => Logger!LoggerAddsUp
<1> SUFFICES ASSUME LoggerInv PROVE Logger!LoggerAddsUp
  OBVIOUS
<1>1. ASSUME portfolio # Logger!Torn
      PROVE  /\ portfolio.cash + Logger!Invested(portfolio.open) = StartingEquity + Logger!Profit(Logger!Closes)
             /\ portfolio.cash >= 0
  <2>1. Balanced(portfolio, Logger!Closes, StartingEquity)
    BY <1>1 DEF LoggerInv, PortfolioInv, BookFits
  <2>2. Logger!Invested(portfolio.open) = CostOfAll(portfolio.open)
    BY LoggerSums DEF Logger!Invested, CostOfAll
  <2>3. Logger!Profit(Logger!Closes) = GainOfAll(Logger!Closes)
    BY LoggerSums DEF Logger!Profit, GainOfAll
  <2> QED
    BY <2>1, <2>2, <2>3 DEF Balanced
<1>2. ASSUME portfolio # Logger!Torn
      PROVE  /\ Cardinality(portfolio.open) + Cardinality(portfolio.pending) <= MAX_SLOTS
             /\ \A x, y \in portfolio.open \cup portfolio.pending : x.sym = y.sym => x = y
  BY <1>2, LoggerCounts DEF LoggerInv, PortfolioInv, BookFits, OneEach
<1>3. ASSUME portfolio # Logger!Torn, NEW p \in portfolio.open
      PROVE  p.sig < p.entered /\ p.bars <= Logger!SessionsHeld(p, portfolio.last) + forced
  <2>1. Logger!SessionsHeld(p, portfolio.last) = HeldIn(stored, p, portfolio.last)
    BY LoggerCounts DEF HeldIn, Logger!SessionsHeld
  <2> QED
    BY <1>3, <2>1 DEF LoggerInv, PortfolioInv, BookFits, ClaimsFit, CountedBars
<1>4. ASSUME portfolio # Logger!Torn
      PROVE  Cardinality({<<r.sym, r.entered>> : r \in Logger!Closes})
               = Len(tradeLedger) + Cardinality(Logger!Unwritten) + Cardinality(lost)
  <2>1. RowsFit(Logger!Closes, portfolio.last)
    BY <1>4 DEF LoggerInv, PortfolioInv, BookFits
  <2>2. Cardinality({<<r.sym, r.entered>> : r \in Logger!Closes}) = Cardinality(Logger!Closes)
    BY <2>1, KeyCount
  <2>3. Cardinality(RowsIn(tradeLedger) \cup Logger!Unwritten \cup lost)
          = Cardinality(RowsIn(tradeLedger)) + Cardinality(Logger!Unwritten) + Cardinality(lost)
    BY ThreeParts DEF LoggerInv, LedgerInv, EachOnce
  <2>4. Cardinality(RowsIn(tradeLedger)) = Len(tradeLedger)
    BY DEF LoggerInv, LedgerInv, EachOnce
  <2> QED
    BY <2>2, <2>3, <2>4, ClosesAre
<1>5. Logger!LogFollowsPortfolio
  <2>1. ASSUME dailyLog # <<>>, portfolio # Logger!Torn
        PROVE  dailyLog[Len(dailyLog)].date <= portfolio.last
    <3>1. Len(dailyLog) \in DOMAIN dailyLog
      BY <2>1 DEF LoggerInv, DailyInv
    <3> QED
      BY <2>1, <3>1 DEF LoggerInv, DailyInv
  <2> QED
    BY <2>1 DEF LoggerInv, DailyInv, Logger!LogFollowsPortfolio
<1> QED
  BY <1>1, <1>2, <1>3, <1>4, <1>5, LoggerCounts
     DEF Logger!LoggerAddsUp, Logger!PortfolioAddsUp, Logger!ClaimsHeld

LEMMA LoggerStarts == Logger!Init => LoggerInv
<1> SUFFICES ASSUME Logger!Init PROVE LoggerInv
  OBVIOUS
<1>1. /\ stored = <<>> /\ tradeLedger = <<>> /\ dailyLog = <<>> /\ lost = {} /\ forced = 0
      /\ logger.pc = "idle" /\ portfolio.last = 0 /\ portfolio.cash = StartingEquity
      /\ portfolio.pending = {} /\ portfolio.open = {}
  BY DEF Logger!Init, Logger!NoRun, Logger!load_state, Logger!Book
<1>2. Logger!Unwritten = {} /\ RowsIn(tradeLedger) = {} /\ Logger!Closes = {}
  BY <1>1, ClosesAre DEF Logger!Unwritten, RowsIn
<1>3. IsFiniteSet({}) /\ Cardinality({}) = 0
  BY FS_EmptySet
<1>4. LedgerInv
  <2>1. tradeLedger \in Seq(RowsIn(tradeLedger)) /\ Len(tradeLedger) = 0
    BY <1>1
  <2>2. EachOnce(tradeLedger)
    BY <1>2, <1>3, <2>1 DEF EachOnce
  <2> QED
    BY <1>1, <1>2, <1>3, <2>2 DEF LedgerInv
<1>5. DailyInv
  BY <1>1 DEF DailyInv
<1>6. BookFits(portfolio, Logger!Closes, 0, MAX_SLOTS, StartingEquity)
  <2>1. OneEach(portfolio, MAX_SLOTS)
    BY <1>1, <1>3, LoggerConstants DEF OneEach
  <2>2. ClaimsFit(portfolio, Logger!Closes, 0) /\ RowsFit(Logger!Closes, 0)
    BY <1>1, <1>2, <1>3 DEF ClaimsFit, RowsFit
  <2>3. CostOfAll({}) = 0 /\ GainOfAll({}) = 0
    BY SumEmpty DEF CostOfAll, GainOfAll
  <2>4. Balanced(portfolio, Logger!Closes, StartingEquity)
    BY <1>1, <1>2, <2>3, LoggerConstants DEF Balanced
  <2> QED
    BY <2>1, <2>2, <2>4 DEF BookFits
<1>7. PortfolioInv
  BY <1>1, <1>6 DEF PortfolioInv
<1>8. RunInv
  BY <1>1 DEF RunInv, Phases
<1> QED
  BY <1>1, <1>4, <1>5, <1>7, <1>8 DEF LoggerInv

LEMMA WorksStep ==
  ASSUME LoggerInv, logger.pc \in Phases, NEW pc \in Phases, NEW b, NEW todo, NEW closed,
         Logger!Works(pc, b, todo, closed),
         BookWorks(pc, b, todo, closed, logger.row.date, Logger!Closes, stored, forced)
  PROVE  LoggerInv'
<1>1. /\ logger'.pc = pc /\ logger'.book = b /\ logger'.todo = todo /\ logger'.closed = closed
      /\ logger'.row = logger.row
      /\ UNCHANGED <<stored, portfolio, tradeLedger, dailyLog, lost, forced>>
  BY Zenon DEF Logger!Works, Logger!Working
<1>2. pc # "append" /\ logger.pc # "append" /\ logger.pc # "idle"
  BY DEF Phases
<1>3. Logger!Unwritten = {} /\ Logger!Unwritten' = {}
  BY <1>1, <1>2 DEF Logger!Unwritten
<1>4. Logger!Closes' = Logger!Closes
  BY <1>1, <1>3, ClosesAre, ClosesAreNext
<1>5. RunInv'
  BY <1>1, <1>2, <1>4 DEF LoggerInv, RunInv
<1>6. LedgerInv' /\ DailyInv' /\ PortfolioInv'
  BY <1>1, <1>3, <1>4 DEF LoggerInv, LedgerInv, DailyInv, PortfolioInv
<1> QED
  BY <1>1, <1>5, <1>6 DEF LoggerInv

LEMMA SessionStep == LoggerInv /\ Logger!NewSession => LoggerInv'
<1> SUFFICES ASSUME LoggerInv, Logger!NewSession PROVE LoggerInv'
  OBVIOUS
<1>1. PICK s \in LoggerSessions :
        /\ stored' = Append(stored, s)
        /\ UNCHANGED <<portfolio, tradeLedger, dailyLog, logger, lost, forced>>
  BY DEF Logger!NewSession
<1>2. /\ stored' \in Seq(LoggerSessions) /\ Len(stored') = Len(stored) + 1 /\ Len(stored) \in Nat
      /\ \A t \in 1 .. Len(stored) : stored'[t] = stored[t]
  BY <1>1 DEF LoggerInv
<1>3. Logger!Unwritten' = Logger!Unwritten /\ Logger!Closes' = Logger!Closes
  <2>1. Logger!Unwritten' = Logger!Unwritten
    BY <1>1 DEF Logger!Unwritten
  <2> QED
    BY <1>1, <2>1, ClosesAre, ClosesAreNext
<1>4. ASSUME NEW b, NEW rs, NEW d \in 0 .. Len(stored), BookFits(b, rs, d, MAX_SLOTS, StartingEquity),
             NEW p \in b.open
      PROVE  /\ CountedBars(stored, forced, p, d) => CountedBars(stored', forced, p, d)
             /\ MayAge(stored, forced, p, d) => MayAge(stored', forced, p, d)
  <2>1. p.entered \in Nat /\ p.entered <= d /\ p.sig \in Nat /\ p.sig < p.entered /\ d \in Nat
    BY <1>4 DEF BookFits, ClaimsFit
  <2>2. \A t \in p.entered .. d : stored'[t] = stored[t]
    BY <1>2, <1>4, <2>1
  <2> QED
    BY <2>1, <2>2, CountedSame
<1>5. RunInv'
  <2>1. ASSUME logger.pc \in Phases
        PROVE  BookWorks(logger.pc, logger.book, logger.todo, logger.closed,
                        logger.row.date, Logger!Closes, stored', forced)
    <3>1. BookWorks(logger.pc, logger.book, logger.todo, logger.closed,
                   logger.row.date, Logger!Closes, stored, forced)
      BY <2>1 DEF LoggerInv, RunInv
    <3>2. logger.row.date \in 0 .. Len(stored)
      BY <2>1, <1>2 DEF LoggerInv, RunInv, Phases
    <3> QED
      BY <1>4, <3>1, <3>2 DEF BookWorks
  <2>2. logger.pc # "idle" => logger.row.date \in 1 .. Len(stored')
    BY <1>2 DEF LoggerInv, RunInv
  <2> QED
    BY <1>1, <1>3, <2>1, <2>2 DEF LoggerInv, RunInv
<1>6. PortfolioInv'
  <2> SUFFICES ASSUME portfolio # Logger!Torn
               PROVE  /\ portfolio.last \in 0 .. Len(stored')
                      /\ BookFits(portfolio, Logger!Closes, portfolio.last, MAX_SLOTS, StartingEquity)
                      /\ \A p \in portfolio.open : CountedBars(stored', forced, p, portfolio.last)
    BY <1>1, <1>3 DEF PortfolioInv, Logger!Torn
  <2>1. /\ portfolio.last \in 0 .. Len(stored)
        /\ BookFits(portfolio, Logger!Closes, portfolio.last, MAX_SLOTS, StartingEquity)
        /\ \A p \in portfolio.open : CountedBars(stored, forced, p, portfolio.last)
    BY DEF LoggerInv, PortfolioInv
  <2> QED
    BY <1>2, <1>4, <2>1
<1>7. LedgerInv' /\ DailyInv'
  BY <1>1, <1>3 DEF LoggerInv, LedgerInv, DailyInv
<1> QED
  BY <1>1, <1>2, <1>5, <1>6, <1>7 DEF LoggerInv

LEMMA DayStep ==
  ASSUME LoggerInv, NEW d, NEW force \in BOOLEAN, NEW failed, Logger!process_day(d, force, failed)
  PROVE  LoggerInv'
<1>1. PICK b : b = Logger!Replaced(portfolio, d)
  OBVIOUS
<1>2. /\ logger = Logger!NoRun /\ portfolio # Logger!Torn /\ d \in DOMAIN stored /\ d >= portfolio.last
      /\ portfolio.last = d <=> force
      /\ forced' = IF force THEN forced + 1 ELSE forced
      /\ logger' = Logger!Working("orders", b, b.pending, {},
                                  [date |-> d, latest |-> Len(stored), failures |-> failed])
      /\ UNCHANGED <<stored, portfolio, tradeLedger, dailyLog, lost>>
  BY <1>1 DEF Logger!process_day
<1>3. /\ logger.pc = "idle" /\ logger'.pc = "orders" /\ logger'.book = b /\ logger'.todo = b.pending
      /\ logger'.closed = {} /\ logger'.row.date = d
  BY <1>2 DEF Logger!NoRun, Logger!Working
<1>4. Logger!Unwritten = {} /\ Logger!Unwritten' = {}
  BY <1>3 DEF Logger!Unwritten
<1>5. Logger!Closes' = Logger!Closes
  BY <1>2, <1>4, ClosesAre, ClosesAreNext
<1>6. /\ portfolio.last \in 0 .. Len(stored) /\ Len(stored) \in Nat /\ forced \in Nat /\ d \in Nat
      /\ BookFits(portfolio, Logger!Closes, portfolio.last, MAX_SLOTS, StartingEquity)
      /\ \A p \in portfolio.open : CountedBars(stored, forced, p, portfolio.last)
      /\ d \in 1 .. Len(stored) /\ portfolio.last \in Nat
  BY <1>2 DEF LoggerInv, PortfolioInv
<1>7. /\ b.cash = portfolio.cash /\ b.open = portfolio.open
      /\ b.pending = IF portfolio.last = d THEN {o \in portfolio.pending : o.sig # d} ELSE portfolio.pending
  BY <1>1 DEF Logger!Replaced, Logger!Book
<1>8. BookFits(b, Logger!Closes, d, MAX_SLOTS, StartingEquity)
  <2>1. BookFits(portfolio, Logger!Closes, d, MAX_SLOTS, StartingEquity)
    BY <1>2, <1>6, SameBook
  <2> QED
    BY <1>7, <2>1, FewerOrders, LoggerConstants
<1>9. \A o \in b.pending : o.sig < d
  <2>1. \A o \in portfolio.pending : o.sig \in Nat /\ o.sig <= portfolio.last
    BY <1>6 DEF BookFits, ClaimsFit
  <2> QED
    BY <1>2, <1>6, <1>7, <2>1
<1>10. \A p \in b.open : MayAge(stored, forced', p, d)
  <2> SUFFICES ASSUME NEW p \in portfolio.open PROVE MayAge(stored, forced', p, d)
    BY <1>7
  <2>1. p.entered \in Nat /\ p.bars \in Nat /\ p.entered <= portfolio.last
    BY <1>6 DEF BookFits, ClaimsFit
  <2>2. CountedBars(stored, forced, p, portfolio.last)
    BY <1>6
  <2>3. forced' \in Nat /\ ((portfolio.last < d /\ forced' = forced) \/ (portfolio.last = d /\ forced' = forced + 1))
    BY <1>2, <1>6
  <2>4. PICK g, l : g = forced' /\ l = portfolio.last
    OBVIOUS
  <2>5. MayAge(stored, g, p, d)
    <3>1. g \in Nat /\ l \in Nat /\ l <= d /\ ((l < d /\ g = forced) \/ (l = d /\ g = forced + 1)) /\ p.entered <= l
          /\ CountedBars(stored, forced, p, l)
      BY <1>2, <1>6, <2>1, <2>2, <2>3, <2>4
    <3> QED
      BY <1>6, <2>1, <3>1, DayAges
  <2> QED
    BY <2>4, <2>5
<1>11. BookWorks("orders", b, b.pending, {}, d, Logger!Closes, stored, forced')
  <2>1. IsFiniteSet({})
    BY FS_EmptySet
  <2>2. Logger!Closes \cup {} = Logger!Closes /\ Logger!Closes \cap {} = {}
    OBVIOUS
  <2> QED
    BY <1>8, <1>9, <1>10, <2>1, <2>2 DEF BookWorks
<1>12. RunInv'
  <2>1. \A k \in DOMAIN dailyLog : dailyLog[k].date <= d
    BY <1>2, <1>6 DEF LoggerInv, DailyInv
  <2> QED
    BY <1>2, <1>3, <1>5, <1>6, <1>11, <2>1 DEF RunInv, Phases
<1>13. PortfolioInv'
  <2>1. \A p \in portfolio.open : CountedBars(stored, forced', p, portfolio.last)
    <3> SUFFICES ASSUME NEW p \in portfolio.open PROVE CountedBars(stored, forced', p, portfolio.last)
      OBVIOUS
    <3>1. p.entered \in Nat /\ p.bars \in Nat /\ CountedBars(stored, forced, p, portfolio.last)
      BY <1>6 DEF BookFits, ClaimsFit
    <3>2. HeldIn(stored, p, portfolio.last) \in Nat
      BY <1>6, <3>1, HeldFinite
    <3> QED
      BY <1>2, <1>6, <3>1, <3>2 DEF CountedBars
  <2> QED
    BY <1>2, <1>5, <1>6, <2>1 DEF PortfolioInv
<1>14. LedgerInv' /\ DailyInv'
  BY <1>2, <1>4 DEF LoggerInv, LedgerInv, DailyInv
<1> QED
  BY <1>2, <1>6, <1>12, <1>13, <1>14 DEF LoggerInv

\* What the assumptions say of a candle.
LEMMA CandlePrices ==
  ASSUME LoggerInv, logger.pc \in Phases, NEW sym, Logger!HasCandle(logger.row, sym)
  PROVE  /\ sym \in DOMAIN stored[logger.row.date].bars
         /\ Logger!Bar(logger.row, sym).close \in Nat /\ Logger!Bar(logger.row, sym).open \in Nat \ {0}
<1>1. logger.row.date \in 1 .. Len(stored) /\ stored \in Seq(LoggerSessions)
  BY DEF LoggerInv, RunInv, Phases
<1>2. stored[logger.row.date] \in LoggerSessions
  BY <1>1
<1>3. sym \in DOMAIN stored[logger.row.date].bars
  BY DEF Logger!HasCandle
<1> QED
  BY <1>2, <1>3, LoggerConstants DEF Logger!Bar

LEMMA Quotient == \A a \in Int, n \in Nat \ {0} : a \div n \in Int
OBVIOUS

LEMMA OrdersStep == LoggerInv /\ Logger!process_pending_orders => LoggerInv'
<1> SUFFICES ASSUME LoggerInv, Logger!process_pending_orders PROVE LoggerInv'
  OBVIOUS
<1>1. PICK b, d, todo, rs :
        b = logger.book /\ d = logger.row.date /\ todo = logger.todo /\ rs = Logger!Closes
  OBVIOUS
<1>2. logger.pc = "orders" /\ logger.pc \in Phases
  BY DEF Logger!process_pending_orders, Phases
<1>3. /\ rs \cap {} = {} /\ rs \cup {} = rs /\ BookFits(b, rs, d, MAX_SLOTS, StartingEquity)
      /\ todo \subseteq b.pending /\ (\A o \in b.pending : o.sig < d)
      /\ \A p \in b.open : MayAge(stored, forced, p, d)
  <2>1. BookWorks("orders", b, todo, logger.closed, d, rs, stored, forced)
    BY <1>1, <1>2 DEF LoggerInv, RunInv
  <2> QED
    BY <2>1 DEF BookWorks
<1>4. PICK o \in todo : \E price, shares :
        /\ price = Logger!Bar(logger.row, o.sym).open /\ shares = o.allocation \div price
        /\ \/ /\ Logger!HasCandle(logger.row, o.sym) /\ shares > 0 /\ shares * price <= b.cash
              /\ Logger!Works("orders",
                   Logger!Book(b.last, b.cash - shares * price, b.pending \ {o},
                               b.open \cup {Logger!Position(o, d, shares, price, 0)}), todo \ {o}, {})
           \/ Logger!Works("orders", b, todo \ {o}, {})
  BY <1>1 DEF Logger!process_pending_orders
<1>5. CASE Logger!Works("orders", b, todo \ {o}, {})
  <2>1. BookWorks("orders", b, todo \ {o}, {}, d, rs, stored, forced)
    BY <1>3, FS_EmptySet DEF BookWorks
  <2> QED
    BY <1>1, <1>2, <1>5, <2>1, WorksStep, Zenon DEF Phases
<1>6. ASSUME NEW price, NEW shares,
             price = Logger!Bar(logger.row, o.sym).open, shares = o.allocation \div price,
             Logger!HasCandle(logger.row, o.sym), shares > 0, shares * price <= b.cash,
             NEW p, p = Logger!Position(o, d, shares, price, 0),
             NEW c, c = Logger!Book(b.last, b.cash - shares * price, b.pending \ {o}, b.open \cup {p}),
             Logger!Works("orders", c, todo \ {o}, {})
      PROVE  LoggerInv'
  <2>1. price \in Nat \ {0} /\ o.sym \in DOMAIN stored[d].bars
    BY <1>1, <1>2, <1>6, CandlePrices
  <2>2. shares \in Nat
    <3>1. o.allocation \in Int
      BY <1>3 DEF BookFits, ClaimsFit
    <3>2. shares \in Int
      BY <1>6, <2>1, <3>1, Quotient
    <3> QED
      BY <1>6, <3>2
  <2>3. /\ p.sym = o.sym /\ p.sig = o.sig /\ p.entered = d /\ p.shares = shares /\ p.entry = price
        /\ p.bars = 0
    BY <1>6 DEF Logger!Position
  <2>4. c.cash = b.cash - shares * price /\ c.pending = b.pending \ {o} /\ c.open = b.open \cup {p}
    BY <1>6 DEF Logger!Book
  <2>5. d \in Nat
    BY <1>1, <1>2 DEF LoggerInv, RunInv, Phases
  <2>6. BookFits(c, rs, d, MAX_SLOTS, StartingEquity)
    <3>1. o \in b.pending /\ o.sig < d /\ MAX_SLOTS \in Nat /\ StartingEquity \in Nat
      BY <1>3, <1>4, LoggerConstants, SMTT(30)
    <3>2. /\ p.shares \in Nat /\ p.entry \in Nat /\ p.shares * p.entry <= b.cash
          /\ c.cash = b.cash - p.shares * p.entry
      BY <1>6, <2>1, <2>2, <2>3, <2>4
    <3> QED
      BY <1>3, <2>3, <2>4, <2>5, <3>1, <3>2, BookFilled, Zenon
  <2>7. MayAge(stored, forced, p, d)
    BY <2>1, <2>3, <2>5, NewMayAge DEF LoggerInv
  <2>8. BookWorks("orders", c, todo \ {o}, {}, d, rs, stored, forced)
    BY <1>3, <2>4, <2>6, <2>7, FS_EmptySet DEF BookWorks
  <2> QED
    BY <1>1, <1>2, <1>6, <2>8, WorksStep, Zenon DEF Phases
<1> QED
  BY <1>4, <1>5, <1>6, Zenon

LEMMA OrdersDone == LoggerInv /\ Logger!orders_processed => LoggerInv'
<1> SUFFICES ASSUME LoggerInv, Logger!orders_processed PROVE LoggerInv'
  OBVIOUS
<1>1. PICK b : b = logger.book
  OBVIOUS
<1>2. logger.pc = "orders" /\ logger.pc \in Phases /\ Logger!Works("positions", b, b.open, {})
  BY <1>1 DEF Logger!orders_processed, Phases
<1>3. BookWorks("orders", b, logger.todo, logger.closed, logger.row.date, Logger!Closes, stored, forced)
  BY <1>1, <1>2 DEF LoggerInv, RunInv
<1>4. BookWorks("positions", b, b.open, {}, logger.row.date, Logger!Closes, stored, forced)
  BY <1>3 DEF BookWorks, MayAge
<1> QED
  BY <1>2, <1>4, WorksStep, Zenon DEF Phases

LEMMA ExitPrice ==
  ASSUME NEW p, NEW q, q = Logger!Aged(p), p.entry \in Nat, NEW bar, bar.close \in Nat,
         NEW price \in Logger!Exit(q, bar)
  PROVE  price \in Nat
<1>1. q.entry = p.entry
  BY Zenon DEF Logger!Aged, Logger!Position
<1>2. Logger!Stop(q) \in Nat /\ Logger!Target(q) \in Nat
  BY <1>1 DEF Logger!Stop, Logger!Target
<1>3. Logger!Exit(q, bar) \subseteq {Logger!Stop(q), Logger!Target(q), bar.close}
  BY DEF Logger!Exit
<1> QED
  BY <1>2, <1>3

LEMMA LoggerPositionsStep == LoggerInv /\ Logger!process_open_positions => LoggerInv'
<1> SUFFICES ASSUME LoggerInv, Logger!process_open_positions PROVE LoggerInv'
  OBVIOUS
<1>1. PICK b, d, todo, rs, closed :
        /\ b = logger.book /\ d = logger.row.date /\ todo = logger.todo /\ rs = Logger!Closes
        /\ closed = logger.closed
  OBVIOUS
<1>2. logger.pc = "positions" /\ logger.pc \in Phases
  BY DEF Logger!process_open_positions, Phases
<1>3. /\ rs \cap closed = {} /\ IsFiniteSet(closed)
      /\ BookFits(b, rs \cup closed, d, MAX_SLOTS, StartingEquity) /\ todo \subseteq b.open
      /\ \A p \in b.open : CountedBars(stored, forced, p, d) /\ (p \in todo => MayAge(stored, forced, p, d))
  <2>1. BookWorks("positions", b, todo, closed, d, rs, stored, forced)
    BY <1>1, <1>2 DEF LoggerInv, RunInv
  <2> QED
    BY <2>1 DEF BookWorks
<1>4. PICK p \in todo :
        \/ /\ Logger!HasCandle(logger.row, p.sym)
           /\ \E price \in Logger!Exit(Logger!Aged(p), Logger!Bar(logger.row, p.sym)) :
                Logger!Works("positions",
                  Logger!Book(b.last, b.cash + p.shares * price, b.pending, b.open \ {p}), todo \ {p},
                  closed \cup {Logger!Trade(Logger!Aged(p), d, price)})
        \/ /\ Logger!HasCandle(logger.row, p.sym)
           /\ Logger!Works("positions",
                Logger!Book(b.last, b.cash, b.pending, (b.open \ {p}) \cup {Logger!Aged(p)}),
                todo \ {p}, closed)
        \/ Logger!Works("positions", b, todo \ {p}, closed)
  BY <1>1 DEF Logger!process_open_positions
<1>5. PICK q : q = Logger!Aged(p)
  OBVIOUS
<1>6. /\ q.sym = p.sym /\ q.sig = p.sig /\ q.entered = p.entered /\ q.shares = p.shares
      /\ q.entry = p.entry /\ q.bars = p.bars + 1
  BY <1>5, Zenon DEF Logger!Aged, Logger!Position
<1>7. /\ p \in b.open /\ p.entered \in Nat /\ p.bars \in Nat /\ p.shares \in Nat /\ p.entry \in Nat
      /\ d \in Nat /\ forced \in Nat /\ MAX_SLOTS \in Nat /\ StartingEquity \in Nat
  BY <1>1, <1>2, <1>3, LoggerConstants DEF BookFits, ClaimsFit, LoggerInv, RunInv, Phases
<1>8. CASE Logger!Works("positions", b, todo \ {p}, closed)
  <2>1. BookWorks("positions", b, todo \ {p}, closed, d, rs, stored, forced)
    BY <1>3 DEF BookWorks
  <2> QED
    BY <1>1, <1>2, <1>8, <2>1, WorksStep, Zenon DEF Phases
<1>9. ASSUME Logger!HasCandle(logger.row, p.sym),
             NEW c, c = Logger!Book(b.last, b.cash, b.pending, (b.open \ {p}) \cup {q}),
             Logger!Works("positions", c, todo \ {p}, closed)
      PROVE  LoggerInv'
  <2>1. c.cash = b.cash /\ c.pending = b.pending /\ c.open = (b.open \ {p}) \cup {q}
    BY <1>9, Zenon DEF Logger!Book
  <2>2. BookFits(c, rs \cup closed, d, MAX_SLOTS, StartingEquity)
    BY <1>3, <1>6, <1>7, <2>1, BookAged, Zenon
  <2>3. CountedBars(stored, forced, q, d)
    <3>1. p.sym \in DOMAIN stored[d].bars
      BY <1>1, <1>2, <1>9, CandlePrices
    <3>2. MayAge(stored, forced, p, d)
      BY <1>3
    <3> QED
      BY <1>6, <1>7, <3>1, <3>2, AgedCounted, Zenon
  <2>4. q \notin todo \ {p}
    <3>1. \A x \in b.open : x.sym = p.sym => x = p
      BY <1>3, <1>7 DEF BookFits, OneEach
    <3> QED
      BY <1>3, <1>6, <3>1
  <2>5. BookWorks("positions", c, todo \ {p}, closed, d, rs, stored, forced)
    BY <1>3, <2>1, <2>2, <2>3, <2>4 DEF BookWorks
  <2> QED
    BY <1>1, <1>2, <1>9, <2>5, WorksStep, Zenon DEF Phases
<1>10. ASSUME Logger!HasCandle(logger.row, p.sym),
              NEW price \in Logger!Exit(q, Logger!Bar(logger.row, p.sym)),
              NEW t, t = Logger!Trade(q, d, price),
              NEW c, c = Logger!Book(b.last, b.cash + p.shares * price, b.pending, b.open \ {p}),
              Logger!Works("positions", c, todo \ {p}, closed \cup {t})
       PROVE  LoggerInv'
  <2>1. c.cash = b.cash + p.shares * price /\ c.pending = b.pending /\ c.open = b.open \ {p}
    BY <1>10, Zenon DEF Logger!Book
  <2>2. t.sym = p.sym /\ t.entered = p.entered /\ t.pnl = (price - p.entry) * p.shares
    <3>1. t.sym = q.sym /\ t.entered = q.entered /\ t.pnl = (price - q.entry) * q.shares
      BY <1>10, Zenon DEF Logger!Trade
    <3> QED
      BY <1>6, <3>1, Zenon
  <2>3. price \in Nat
    <3>1. Logger!Bar(logger.row, p.sym).close \in Nat
      BY <1>2, <1>10, CandlePrices
    <3> QED
      BY <1>5, <1>7, <1>10, <3>1, ExitPrice
  <2>4. BookFits(c, (rs \cup closed) \cup {t}, d, MAX_SLOTS, StartingEquity) /\ t \notin rs \cup closed
    BY <1>3, <1>7, <2>1, <2>2, <2>3, BookClosed, ZenonT(40)
  <2>5. /\ (rs \cup closed) \cup {t} = rs \cup (closed \cup {t}) /\ rs \cap (closed \cup {t}) = {}
        /\ IsFiniteSet(closed \cup {t})
    BY <1>3, <2>4, FS_AddElement
  <2>6. BookWorks("positions", c, todo \ {p}, closed \cup {t}, d, rs, stored, forced)
    BY <1>3, <2>1, <2>4, <2>5 DEF BookWorks
  <2> QED
    BY <1>1, <1>2, <1>10, <2>6, WorksStep, Zenon DEF Phases
<1> QED
  BY <1>4, <1>5, <1>8, <1>9, <1>10, Zenon

LEMMA PositionsDone == LoggerInv /\ Logger!positions_processed => LoggerInv'
<1> SUFFICES ASSUME LoggerInv, Logger!positions_processed PROVE LoggerInv'
  OBVIOUS
<1>1. PICK b, todo, closed :
        b = logger.book /\ closed = logger.closed /\ todo = DOMAIN stored[logger.row.date].signals
  OBVIOUS
<1>2. logger.pc = "positions" /\ logger.pc \in Phases /\ Logger!Works("signals", b, todo, closed)
  BY <1>1 DEF Logger!positions_processed, Phases
<1>3. BookWorks("positions", b, logger.todo, closed, logger.row.date, Logger!Closes, stored, forced)
  BY <1>1, <1>2 DEF LoggerInv, RunInv
<1>4. BookWorks("signals", b, todo, closed, logger.row.date, Logger!Closes, stored, forced)
  BY <1>3 DEF BookWorks
<1> QED
  BY <1>2, <1>4, WorksStep, Zenon DEF Phases

LEMMA OpenValue ==
  ASSUME LoggerInv, logger.pc \in Phases, NEW b, PricedAll(b.open)
  PROVE  Logger!current_open_value(b, logger.row) \in Int
<1> DEFINE f == [p \in b.open |-> p.shares * (IF Logger!HasCandle(logger.row, p.sym)
                                              THEN Logger!Bar(logger.row, p.sym).close ELSE p.entry)]
<1>1. ASSUME NEW p \in b.open PROVE f[p] \in Int
  <2>1. PICK x : x = IF Logger!HasCandle(logger.row, p.sym)
                     THEN Logger!Bar(logger.row, p.sym).close ELSE p.entry
    OBVIOUS
  <2>2. x \in Nat /\ p.shares \in Nat
    BY <2>1, CandlePrices DEF PricedAll
  <2>3. f[p] = p.shares * x
    BY <2>1
  <2> QED
    BY <2>2, <2>3, ProductNatural
<1>2. SumFunctionOnSet(f, b.open) \in Int
  <2> HIDE DEF f
  <2> QED
    BY <1>1, SumTyped DEF PricedAll
<1> QED
  BY <1>2, LoggerSums DEF Logger!current_open_value

LEMMA SignalsStep == LoggerInv /\ Logger!place_orders => LoggerInv'
<1> SUFFICES ASSUME LoggerInv, Logger!place_orders PROVE LoggerInv'
  OBVIOUS
<1>1. PICK b, d, todo, rs, closed, value :
        /\ b = logger.book /\ d = logger.row.date /\ todo = logger.todo /\ rs = Logger!Closes
        /\ closed = logger.closed /\ value = Logger!current_open_value(b, logger.row)
  OBVIOUS
<1>2. logger.pc = "signals" /\ logger.pc \in Phases
  BY DEF Logger!place_orders, Phases
<1>3. /\ rs \cap closed = {} /\ IsFiniteSet(closed)
      /\ BookFits(b, rs \cup closed, d, MAX_SLOTS, StartingEquity)
      /\ \A p \in b.open : CountedBars(stored, forced, p, d)
  <2>1. BookWorks("signals", b, todo, closed, d, rs, stored, forced)
    BY <1>1, <1>2 DEF LoggerInv, RunInv
  <2> QED
    BY <2>1 DEF BookWorks
<1>4. PICK k, sym, allocation :
        /\ allocation = (b.cash + value) \div MAX_SLOTS
        /\ \/ /\ \A x \in b.open \cup b.pending : x.sym # sym
              /\ Cardinality(b.open) + Cardinality(b.pending) < MAX_SLOTS
              /\ Logger!Works("signals",
                   Logger!Book(b.last, b.cash,
                     b.pending \cup {[sym |-> sym, sig |-> d, rank |-> k, allocation |-> allocation]}, b.open),
                   todo \ {k}, closed)
           \/ Logger!Works("signals", b, todo \ {k}, closed)
  BY <1>1, LoggerCounts DEF Logger!place_orders
<1>5. CASE Logger!Works("signals", b, todo \ {k}, closed)
  <2>1. BookWorks("signals", b, todo \ {k}, closed, d, rs, stored, forced)
    BY <1>3 DEF BookWorks
  <2> QED
    BY <1>1, <1>2, <1>5, <2>1, WorksStep, Zenon DEF Phases
<1>6. ASSUME \A x \in b.open \cup b.pending : x.sym # sym,
             Cardinality(b.open) + Cardinality(b.pending) < MAX_SLOTS,
             NEW o, o = [sym |-> sym, sig |-> d, rank |-> k, allocation |-> allocation],
             NEW c, c = Logger!Book(b.last, b.cash, b.pending \cup {o}, b.open),
             Logger!Works("signals", c, todo \ {k}, closed)
      PROVE  LoggerInv'
  <2>1. c.cash = b.cash /\ c.pending = b.pending \cup {o} /\ c.open = b.open
    BY <1>6, Zenon DEF Logger!Book
  <2>2. o.sym = sym /\ o.sig = d /\ o.allocation = allocation
    BY <1>6, Zenon
  <2>3. allocation \in Int
    <3>1. value \in Int
      BY <1>1, <1>2, <1>3, BookPriced, OpenValue
    <3>2. b.cash \in Nat
      BY <1>3 DEF BookFits, Balanced
    <3>3. b.cash + value \in Int
      BY <3>1, <3>2
    <3> QED
      BY <1>4, <3>3, Quotient, LoggerConstants
  <2>4. d \in Nat /\ MAX_SLOTS \in Nat
    BY <1>1, <1>2, LoggerConstants DEF LoggerInv, RunInv, Phases
  <2>5. \A x \in b.open \cup b.pending : x.sym # o.sym
    BY <1>6, <2>2, Zenon
  <2>6. BookFits(c, rs \cup closed, d, MAX_SLOTS, StartingEquity)
    <3>1. o.allocation \in Int
      BY <2>2, <2>3, Zenon
    <3> QED
      BY <1>3, <1>6, <2>1, <2>2, <2>4, <2>5, <3>1, BookOrdered, Zenon
  <2>7. BookWorks("signals", c, todo \ {k}, closed, d, rs, stored, forced)
    BY <1>3, <2>1, <2>6 DEF BookWorks
  <2> QED
    BY <1>1, <1>2, <1>6, <2>7, WorksStep, Zenon DEF Phases
<1> QED
  BY <1>4, <1>5, <1>6, Zenon

LEMMA SaveStep == LoggerInv /\ Logger!save_state => LoggerInv'
<1> SUFFICES ASSUME LoggerInv, Logger!save_state PROVE LoggerInv'
  OBVIOUS
<1>1. PICK b, d, closed : b = logger.book /\ d = logger.row.date /\ closed = logger.closed
  OBVIOUS
<1>2. /\ logger.pc = "signals" /\ logger'.pc = "append" /\ logger'.closed = closed
      /\ logger'.row = logger.row
      /\ portfolio'.last = d /\ portfolio'.cash = b.cash /\ portfolio'.pending = b.pending
      /\ portfolio'.open = b.open
      /\ UNCHANGED <<stored, tradeLedger, dailyLog, lost, forced>>
  BY <1>1 DEF Logger!save_state, Logger!Working, Logger!Book
<1>3. BookWorks("signals", b, logger.todo, closed, d, Logger!Closes, stored, forced)
  BY <1>1, <1>2 DEF LoggerInv, RunInv, Phases
<1>4. /\ d \in 1 .. Len(stored) /\ Len(stored) \in Nat /\ d \in Nat
      /\ \A k \in DOMAIN dailyLog : dailyLog[k].date <= d
  BY <1>1, <1>2 DEF LoggerInv, RunInv
<1>5. Logger!Unwritten = {} /\ Logger!Unwritten' = closed
  BY <1>2 DEF Logger!Unwritten
<1>6. Logger!Closes' = Logger!Closes \cup closed
  BY <1>2, <1>5, ClosesAre, ClosesAreNext
<1>7. /\ IsFiniteSet(closed) /\ Logger!Closes \cap closed = {}
      /\ BookFits(b, Logger!Closes', d, MAX_SLOTS, StartingEquity)
      /\ \A p \in b.open : CountedBars(stored, forced, p, d)
  BY <1>3, <1>6 DEF BookWorks
<1>8. PortfolioInv'
  <2>1. BookFits(portfolio', Logger!Closes', d, MAX_SLOTS, StartingEquity)
    BY <1>2, <1>4, <1>7, SameBook
  <2> QED
    BY <1>2, <1>4, <1>7, <2>1 DEF PortfolioInv
<1>9. LedgerInv'
  BY <1>2, <1>5, <1>7, ClosesAre DEF LoggerInv, LedgerInv
<1>10. DailyInv'
  BY <1>2, <1>4 DEF LoggerInv, DailyInv
<1>11. RunInv'
  BY <1>1, <1>2, <1>4 DEF RunInv, Phases
<1> QED
  BY <1>2, <1>8, <1>9, <1>10, <1>11 DEF LoggerInv

\* A step after the save that leaves the portfolio and what was closed.
LEMMA AppendedStep ==
  ASSUME LoggerInv, logger.pc = "append", UNCHANGED <<stored, portfolio, forced>>,
         logger'.pc = "append" => UNCHANGED dailyLog,
         logger'.pc \in {"idle", "append"}, logger'.pc = "append" => logger'.row = logger.row,
         Logger!Closes' = Logger!Closes, LedgerInv', DailyInv'
  PROVE  LoggerInv'
<1>1. PortfolioInv'
  BY DEF LoggerInv, PortfolioInv, Logger!Torn
<1>2. RunInv'
  <2>1. CASE logger'.pc = "idle"
    BY <2>1 DEF RunInv, Phases
  <2>2. CASE logger'.pc = "append"
    BY <2>2 DEF LoggerInv, RunInv, Phases, Logger!Torn
  <2> QED
    BY <2>1, <2>2
<1> QED
  BY <1>1, <1>2 DEF LoggerInv

LEMMA TradeStep == LoggerInv /\ Logger!append_trade => LoggerInv'
<1> SUFFICES ASSUME LoggerInv, Logger!append_trade PROVE LoggerInv'
  OBVIOUS
<1>1. PICK t \in logger.closed :
        /\ logger.pc = "append" /\ tradeLedger' = Append(tradeLedger, t)
        /\ logger'.pc = "append" /\ logger'.closed = logger.closed \ {t} /\ logger'.row = logger.row
        /\ UNCHANGED <<stored, portfolio, dailyLog, lost, forced>>
  BY DEF Logger!append_trade, Logger!Working
<1>2. Logger!Unwritten = logger.closed /\ Logger!Unwritten' = logger.closed \ {t}
  BY <1>1 DEF Logger!Unwritten
<1>3. /\ EachOnce(tradeLedger) /\ t \notin RowsIn(tradeLedger) /\ t \notin lost
      /\ IsFiniteSet(logger.closed)
  BY <1>1, <1>2 DEF LoggerInv, LedgerInv
<1>4. EachOnce(tradeLedger') /\ RowsIn(tradeLedger') = RowsIn(tradeLedger) \cup {t}
  BY <1>1, <1>3, RowAppended, Zenon
<1>5. Logger!Closes' = Logger!Closes
  BY <1>1, <1>2, <1>4, ClosesAre, ClosesAreNext
<1>6. LedgerInv'
  <2>1. IsFiniteSet(logger.closed \ {t})
    BY <1>3, FS_Subset
  <2> QED
    BY <1>1, <1>2, <1>3, <1>4, <2>1 DEF LoggerInv, LedgerInv
<1>7. DailyInv'
  BY <1>1 DEF LoggerInv, DailyInv, Logger!Torn
<1> QED
  BY <1>1, <1>5, <1>6, <1>7, AppendedStep

LEMMA LogStep == LoggerInv /\ Logger!append_log => LoggerInv'
<1> SUFFICES ASSUME LoggerInv, Logger!append_log PROVE LoggerInv'
  OBVIOUS
<1>1. PICK row : row = logger.row
  OBVIOUS
<1>2. /\ logger.pc = "append" /\ logger.closed = {} /\ dailyLog' = Append(dailyLog, row)
      /\ logger'.pc = "idle" /\ UNCHANGED <<stored, portfolio, tradeLedger, lost, forced>>
  BY <1>1 DEF Logger!append_log, Logger!NoRun
<1>3. Logger!Unwritten = {} /\ Logger!Unwritten' = {}
  BY <1>2 DEF Logger!Unwritten
<1>4. Logger!Closes' = Logger!Closes
  BY <1>2, <1>3, ClosesAre, ClosesAreNext
<1>5. LedgerInv'
  BY <1>2, <1>3 DEF LoggerInv, LedgerInv
<1>6. DailyInv'
  <2> DEFINE V == {dailyLog[k] : k \in DOMAIN dailyLog} \cup {row}
             n == Len(dailyLog)
  <2>1. dailyLog \in Seq(V) /\ row \in V
    BY DEF LoggerInv, DailyInv
  <2> HIDE DEF V
  <2>2. /\ dailyLog' \in Seq(V) /\ DOMAIN dailyLog' = 1 .. n + 1 /\ dailyLog'[n + 1] = row
        /\ DOMAIN dailyLog = 1 .. n /\ n \in Nat /\ \A k \in 1 .. n : dailyLog'[k] = dailyLog[k]
    BY <1>2, <2>1
  <2> HIDE DEF n
  <2>3. /\ row.date \in Nat /\ \A k \in 1 .. n : dailyLog[k].date <= row.date
    BY <1>1, <1>2, <2>2 DEF LoggerInv, RunInv
  <2>4. portfolio # Logger!Torn => portfolio.last = row.date
    BY <1>1, <1>2 DEF LoggerInv, RunInv
  <2>5. dailyLog' \in Seq({dailyLog'[k] : k \in DOMAIN dailyLog'})
    BY <2>2
  <2>6. \A k \in 1 .. n + 1 : k \in 1 .. n \/ k = n + 1
    BY <2>2
  <2>7. \A k \in DOMAIN dailyLog' : dailyLog'[k].date \in Nat /\ dailyLog'[k].date <= row.date
    BY <2>2, <2>3, <2>6 DEF LoggerInv, DailyInv
  <2>8. \A j, k \in DOMAIN dailyLog' : j < k => dailyLog'[j].date <= dailyLog'[k].date
    <3> SUFFICES ASSUME NEW j \in 1 .. n + 1, NEW k \in 1 .. n + 1, j < k
                 PROVE  dailyLog'[j].date <= dailyLog'[k].date
      BY <2>2
    <3>1. CASE k \in 1 .. n
      <4>1. j \in 1 .. n /\ dailyLog'[j] = dailyLog[j] /\ dailyLog'[k] = dailyLog[k]
        BY <2>2, <3>1
      <4>2. j \in DOMAIN dailyLog /\ k \in DOMAIN dailyLog
        BY <2>2, <3>1, <4>1
      <4> QED
        BY <4>1, <4>2 DEF LoggerInv, DailyInv
    <3>2. CASE k = n + 1
      BY <2>2, <2>7, <3>2
    <3> QED
      BY <2>6, <3>1, <3>2
  <2> QED
    BY <1>2, <2>4, <2>5, <2>7, <2>8 DEF DailyInv, Logger!Torn
<1> QED
  BY <1>2, <1>4, <1>5, <1>6, AppendedStep

\* What a run had closed before its save is not closed; what it had saved is.
LEMMA LoggerDiesStep == LoggerInv /\ Logger!LoggerDies => LoggerInv'
<1> SUFFICES ASSUME LoggerInv, Logger!LoggerDies PROVE LoggerInv'
  OBVIOUS
<1>1. /\ logger'.pc = "idle" /\ UNCHANGED <<stored, tradeLedger, dailyLog, forced>>
      /\ lost' = IF logger.pc = "append" THEN lost \cup logger.closed ELSE lost
      /\ UNCHANGED portfolio \/ portfolio' = Logger!Torn
  BY DEF Logger!LoggerDies, Logger!NoRun
<1>2. Logger!Unwritten' = {} /\ lost' = lost \cup Logger!Unwritten
  BY <1>1 DEF Logger!Unwritten
<1>3. Logger!Closes' = Logger!Closes
  BY <1>1, <1>2, ClosesAre, ClosesAreNext
<1>4. LedgerInv'
  <2>1. IsFiniteSet(lost \cup Logger!Unwritten)
    BY FS_Union DEF LoggerInv, LedgerInv
  <2>2. IsFiniteSet({})
    BY FS_EmptySet
  <2> QED
    BY <1>1, <1>2, <2>1, <2>2 DEF LoggerInv, LedgerInv
<1>5. DailyInv' /\ PortfolioInv'
  BY <1>1, <1>3 DEF LoggerInv, DailyInv, PortfolioInv, Logger!Torn
<1>6. RunInv'
  BY <1>1 DEF RunInv, Phases
<1> QED
  BY <1>1, <1>4, <1>5, <1>6 DEF LoggerInv

LEMMA LoggerStep == LoggerInv /\ Logger!Next => LoggerInv'
<1> SUFFICES ASSUME LoggerInv, Logger!Next PROVE LoggerInv'
  OBVIOUS
<1>1. ASSUME NEW d, NEW force \in BOOLEAN, NEW failed, Logger!process_day(d, force, failed) PROVE LoggerInv'
  BY <1>1, DayStep
<1> QED
  BY <1>1, OrdersStep, OrdersDone, LoggerPositionsStep, PositionsDone, SignalsStep, SaveStep, TradeStep,
     LogStep, SessionStep, LoggerDiesStep DEF Logger!Next

LEMMA LoggerInvariant == Spec => [](system = "logger" => LoggerInv)
<1>1. Init => (system = "logger" => LoggerInv)
  BY LoggerStarts DEF Init
<1>2. (system = "logger" => LoggerInv) /\ [Next]_vars => (system = "logger" => LoggerInv)'
  <2> SUFFICES ASSUME system = "logger" => LoggerInv, [Next]_vars, system' = "logger" PROVE LoggerInv'
    OBVIOUS
  <2>1. CASE UNCHANGED vars
    <3>1. /\ LoggerInv
          /\ UNCHANGED <<stored, portfolio, tradeLedger, dailyLog, logger, lost, forced>>
      BY <2>1 DEF vars, loggerVars
    <3>2. Logger!Unwritten' = Logger!Unwritten
      BY <3>1 DEF Logger!Unwritten
    <3>3. Logger!Closes' = Logger!Closes
      BY <3>1, <3>2, ClosesAre, ClosesAreNext
    <3>4. RunInv' /\ LedgerInv'
      BY <3>1, <3>2, <3>3 DEF LoggerInv, RunInv, LedgerInv
    <3>5. DailyInv' /\ PortfolioInv'
      BY <3>1, <3>3 DEF LoggerInv, DailyInv, PortfolioInv
    <3> QED
      BY <3>1, <3>4, <3>5 DEF LoggerInv
  <2>2. CASE Next
    BY <2>2, LoggerStep DEF Next, OthersStay
  <2> QED
    BY <2>1, <2>2
<1> QED
  BY <1>1, <1>2, PTL DEF Spec

\* Wherever runs of the forward logger die or are repeated, the saved portfolio
\* accounts for the starting equity and every close, it holds one claim per
\* symbol within the slots, a close is recorded once or was lost by a run that
\* died after its save, bars are sessions but for forced repeats, and the daily
\* log is in order and never ahead (v7b_matsya_forward_paper_logger.py).
THEOREM LoggerTrue == Spec => []LoggerAddsUp
<1>1. (system = "logger" => LoggerInv) => LoggerAddsUp
  BY LoggerSafe DEF LoggerAddsUp
<1> QED
  BY <1>1, LoggerInvariant, PTL

-----------------------------------------------------------------------------
(* The candle series                                                         *)

Candle == [open : Int, high : Int, low : Int, close : Int, volume : Int]
SeriesInv == history \in Seq(Candle) /\ Len(history) \in Nat \ {0}

\* d is c and one session more.
OneMore(c, d) ==
  /\ c \in Seq(Candle) /\ d \in Seq(Candle) /\ Len(c) \in Nat \ {0} /\ Len(d) = Len(c) + 1
  /\ DOMAIN c = 1 .. Len(c) /\ DOMAIN d = 1 .. Len(c) + 1
  /\ \A k \in 1 .. Len(c) : d[k] = c[k]

LEMMA SeriesConstants ==
  /\ \A s \in Shapes : s.open \in Int /\ s.high \in Int /\ s.low \in Int /\ s.close \in Int /\ s.volume \in Int
  /\ SMA_WINDOW \in Nat /\ SLOPE_LOOKBACK \in Nat /\ LookbackSessions \in Nat /\ VolumeSmaSessions \in Nat
  /\ DEFAULT_PIVOT_LEFT \in Nat /\ DEFAULT_PIVOT_RIGHT \in Nat
  /\ RANGE_WINDOW \in 1 .. SMA_WINDOW + SLOPE_LOOKBACK /\ REVERSAL_TREND_LOOKBACK \in Nat \ {0}
BY OperationsAssumption

LEMMA SeriesStarts == Series!Init => SeriesInv
BY DEF Series!Init, Series!C, SeriesInv, Candle

LEMMA SeriesStep == SeriesInv /\ Series!Next => SeriesInv' /\ OneMore(history, history')
<1> SUFFICES ASSUME SeriesInv, Series!Next PROVE SeriesInv' /\ OneMore(history, history')
  OBVIOUS
<1>0. PICK last : last = history[Len(history)].close
  OBVIOUS
<1>1. PICK s \in Shapes :
        history' = Append(history, Series!C(last + s.open, last + s.high, last + s.low, last + s.close, s.volume))
  BY <1>0 DEF Series!Next
<1>2. PICK x : x = Series!C(last + s.open, last + s.high, last + s.low, last + s.close, s.volume)
  OBVIOUS
<1>3. last \in Int
  <2>1. history[Len(history)] \in Candle
    <3> HIDE DEF Candle
    <3> QED
      BY DEF SeriesInv
  <2> QED
    BY <1>0, <2>1 DEF Candle
<1>4. x \in Candle
  BY <1>2, <1>3, SeriesConstants DEF Series!C, Candle
<1>5. history' = Append(history, x) /\ history \in Seq(Candle) /\ Len(history) \in Nat \ {0}
  BY <1>1, <1>2 DEF SeriesInv
<1> HIDE DEF Candle
<1> QED
  BY <1>4, <1>5 DEF SeriesInv, OneMore

\* A window that ends by k lies in the series.
LEMMA WindowInside ==
  ASSUME NEW n \in Nat, NEW k \in 1 .. n, NEW w \in Nat, w <= k
  PROVE  Series!Window(k, w) \subseteq 1 .. n
BY DEF Series!Window

LEMMA RegimeSame ==
  ASSUME NEW c, NEW d, OneMore(c, d), NEW k \in SMA_WINDOW + SLOPE_LOOKBACK .. Len(c)
  PROVE  Series!classify_regime(d, k) = Series!classify_regime(c, k)
<1>1. k \in 1 .. Len(c) /\ d[k] = c[k] /\ SMA_WINDOW <= k /\ RANGE_WINDOW <= k /\ Len(c) \in Nat
  BY SeriesConstants DEF OneMore
<1>2. \A j \in Series!Window(k, RANGE_WINDOW) : d[j] = c[j]
  BY <1>1, SeriesConstants, WindowInside DEF OneMore
<1>3. Series!SumOfCloses(d, k) = Series!SumOfCloses(c, k)
  <2>1. \A j \in Series!Window(k, SMA_WINDOW) : d[j] = c[j]
    BY <1>1, SeriesConstants, WindowInside DEF OneMore
  <2>2. [j \in Series!Window(k, SMA_WINDOW) |-> d[j].close] = [j \in Series!Window(k, SMA_WINDOW) |-> c[j].close]
    BY <2>1
  <2> QED
    BY <2>2, Zenon DEF Series!SumOfCloses
<1>4. Series!SumOfCloses(d, k - SLOPE_LOOKBACK) = Series!SumOfCloses(c, k - SLOPE_LOOKBACK)
  <2>1. PICK m : m = k - SLOPE_LOOKBACK
    OBVIOUS
  <2>2. \A j \in Series!Window(m, SMA_WINDOW) : j \in 1 .. Len(c)
    BY <2>1, SeriesConstants DEF Series!Window, OneMore
  <2>3. \A j \in Series!Window(m, SMA_WINDOW) : d[j] = c[j]
    BY <2>2 DEF OneMore
  <2>4. [j \in Series!Window(m, SMA_WINDOW) |-> d[j].close] = [j \in Series!Window(m, SMA_WINDOW) |-> c[j].close]
    BY <2>3
  <2> QED
    BY <2>1, <2>4, Zenon DEF Series!SumOfCloses
<1>5. /\ {d[j].low : j \in Series!Window(k, RANGE_WINDOW)} = {c[j].low : j \in Series!Window(k, RANGE_WINDOW)}
      /\ {d[j].high : j \in Series!Window(k, RANGE_WINDOW)} = {c[j].high : j \in Series!Window(k, RANGE_WINDOW)}
  BY <1>2
<1> QED
  BY <1>1, <1>3, <1>4, <1>5, Zenon DEF Series!classify_regime

LEMMA GreaterOfTwo ==
  ASSUME NEW a \in Int, NEW b \in Int
  PROVE  Series!Max({a, b}) \in {a, b} /\ Series!Max({a, b}) >= a /\ Series!Max({a, b}) >= b
<1>1. \E x : x = Series!Max({a, b}) /\ x = (CHOOSE y \in {a, b} : \A z \in {a, b} : y >= z)
  BY Zenon DEF Series!Max
<1>2. \E y \in {a, b} : \A z \in {a, b} : y >= z
  OBVIOUS
<1>3. PICK x : x = Series!Max({a, b}) /\ x = (CHOOSE y \in {a, b} : \A z \in {a, b} : y >= z)
  BY <1>1
<1>4. x \in {a, b} /\ \A z \in {a, b} : x >= z
  BY <1>2, <1>3
<1> QED
  BY <1>3, <1>4

LEMMA SignalWindows ==
  ASSUME NEW c, NEW d, OneMore(c, d), NEW n, n = Len(c)
  PROVE  /\ \A k \in 1 .. n, w \in Nat : w <= k => \A j \in Series!Window(k, w) : j \in 1 .. n /\ d[j] = c[j]
         /\ \A k \in DOMAIN Series!classify_regime_series(c) :
              /\ k \in DOMAIN Series!classify_regime_series(d)
              /\ Series!classify_regime_series(d)[k] = Series!classify_regime_series(c)[k]
         /\ \A k \in 1 .. n : k \in DOMAIN Series!classify_regime_series(d)
                                <=> k \in DOMAIN Series!classify_regime_series(c)
<1>1. /\ n \in Nat /\ Len(d) = n + 1 /\ \A k \in 1 .. n : d[k] = c[k]
      /\ SMA_WINDOW + SLOPE_LOOKBACK \in Nat
  BY SeriesConstants DEF OneMore
<1>2. \A k \in 1 .. n, w \in Nat : w <= k => \A j \in Series!Window(k, w) : j \in 1 .. n /\ d[j] = c[j]
  BY <1>1 DEF Series!Window
<1>3. \A k \in SMA_WINDOW + SLOPE_LOOKBACK .. n : Series!classify_regime(d, k) = Series!classify_regime(c, k)
  BY RegimeSame
<1>4. /\ DOMAIN Series!classify_regime_series(c) = SMA_WINDOW + SLOPE_LOOKBACK .. n
      /\ DOMAIN Series!classify_regime_series(d) = SMA_WINDOW + SLOPE_LOOKBACK .. n + 1
      /\ \A k \in SMA_WINDOW + SLOPE_LOOKBACK .. n : Series!classify_regime_series(c)[k] = Series!classify_regime(c, k)
      /\ \A k \in SMA_WINDOW + SLOPE_LOOKBACK .. n + 1 : Series!classify_regime_series(d)[k] = Series!classify_regime(d, k)
  BY <1>1 DEF Series!classify_regime_series
<1> QED
  BY <1>1, <1>2, <1>3, <1>4

\* A hit is read from the sessions up to its trigger.
LEMMA HitsSame ==
  ASSUME NEW c, NEW d, OneMore(c, d)
  PROVE  Series!detect_signal_01_local_low_reversal(c)
           = {k \in Series!detect_signal_01_local_low_reversal(d) : k <= Len(c)}
<1> DEFINE n == Len(c)
           Q == LookbackSessions  V == VolumeSmaSessions
           R(e) == Series!classify_regime_series(e)
           Anchor(e, k) == /\ e[k].low = Series!Min({e[j].low : j \in Series!Window(k, Q)})
                           /\ e[k].close < e[k].open
                           /\ k \in DOMAIN R(e) /\ R(e)[k] = "DOWNTREND" /\ e[k].volume > 0
           Trigger(e, k) ==
             /\ e[k].close > e[k].open /\ e[k].close > e[k - 1].high
             /\ 10 * e[k].volume >= 12 * e[k - 1].volume
             /\ e[k].volume * V >= Series!SumOver([j \in Series!Window(k - 1, V) |-> e[j].volume])
           Hit(e, k) == /\ k - 1 >= Q /\ k > V /\ Anchor(e, k - 1) /\ Trigger(e, k)
           Enough(e) == Len(e) >= Series!Max({Q, V}) + 1
<1>1. \A e : Series!detect_signal_01_local_low_reversal(e) = {k \in 2 .. Len(e) : Enough(e) /\ Hit(e, k)}
  BY Zenon DEF Series!detect_signal_01_local_low_reversal
<1>2. /\ n \in Nat \ {0} /\ Len(d) = n + 1 /\ Q \in Nat /\ V \in Nat /\ \A k \in 1 .. n : d[k] = c[k]
  BY SeriesConstants DEF OneMore
<1>3. Series!Max({Q, V}) \in {Q, V} /\ Series!Max({Q, V}) >= Q /\ Series!Max({Q, V}) >= V
  <2>1. Q \in Int /\ V \in Int
    BY <1>2
  <2> HIDE DEF Q, V
  <2> QED
    BY <2>1, GreaterOfTwo, Zenon
<1>4. ASSUME NEW k \in 2 .. n PROVE Hit(d, k) <=> Hit(c, k)
  <2> SUFFICES ASSUME k - 1 >= Q, k > V
               PROVE  (Anchor(d, k - 1) <=> Anchor(c, k - 1)) /\ (Trigger(d, k) <=> Trigger(c, k))
    BY DEF Hit
  <2>1. k \in 1 .. n /\ k - 1 \in 1 .. n /\ d[k] = c[k] /\ d[k - 1] = c[k - 1] /\ V <= k - 1 /\ Q <= k - 1
    BY <1>2
  <2>2. \A j \in Series!Window(k - 1, Q) : d[j] = c[j]
    BY <1>2, <2>1, SignalWindows
  <2>3. \A j \in Series!Window(k - 1, V) : d[j] = c[j]
    BY <1>2, <2>1, SignalWindows
  <2>4. {d[j].low : j \in Series!Window(k - 1, Q)} = {c[j].low : j \in Series!Window(k - 1, Q)}
    BY <2>2
  <2>5. [j \in Series!Window(k - 1, V) |-> d[j].volume] = [j \in Series!Window(k - 1, V) |-> c[j].volume]
    BY <2>3
  <2>6. /\ k - 1 \in DOMAIN R(d) <=> k - 1 \in DOMAIN R(c)
        /\ k - 1 \in DOMAIN R(c) => R(d)[k - 1] = R(c)[k - 1]
    BY <2>1, SignalWindows DEF R
  <2>7. Anchor(d, k - 1) <=> Anchor(c, k - 1)
    <3> HIDE DEF R
    <3> QED
      BY <2>1, <2>4, <2>6, Zenon DEF Anchor
  <2>8. Trigger(d, k) <=> Trigger(c, k)
    BY <2>1, <2>5, Zenon DEF Trigger
  <2> QED
    BY <2>7, <2>8
<1>5. ASSUME NEW k \in 2 .. n, Hit(d, k) PROVE Enough(c)
  BY <1>2, <1>3, <1>5 DEF Hit, Enough
<1>6. Enough(c) => Enough(d)
  BY <1>2, <1>3 DEF Enough
<1>7. \A k : k \in 2 .. n <=> k \in 2 .. Len(d) /\ k <= n
  BY <1>2
<1> HIDE DEF n, Hit, Enough
<1> QED
  BY <1>1, <1>4, <1>5, <1>6, <1>7 DEF n

LEMMA BestHighHere ==
  ASSUME NEW c \in Seq(Candle), NEW k \in 1 .. Len(c)
  PROVE  /\ Series!max_future_high(c, k) \in k .. Len(c)
         /\ \A i \in k .. Len(c) : c[Series!max_future_high(c, k)].high >= c[i].high
<1> DEFINE H == {c[j].high : j \in k .. Len(c)}
           B == {j \in k .. Len(c) : \A i \in k .. Len(c) : c[j].high >= c[i].high}
<1>1. Len(c) \in Nat /\ \A j \in k .. Len(c) : c[j].high \in Int
  <2>1. \A j \in 1 .. Len(c) : c[j] \in Candle
    <3> HIDE DEF Candle
    <3> QED
      OBVIOUS
  <2> QED
    BY <2>1, SMTT(30) DEF Candle
<1>2. H \in SUBSET Int /\ H # {} /\ IsFiniteSet(H)
  <2>1. IsFiniteSet(k .. Len(c))
    BY <1>1, FS_Interval
  <2>2. IsFiniteSet(H)
    <3>1. PICK S : S = k .. Len(c)
      OBVIOUS
    <3>2. PICK f : f = [j \in S |-> c[j].high]
      OBVIOUS
    <3>3. f \in [S -> H] /\ \A x \in H : \E j \in S : f[j] = x
      BY <3>1, <3>2
    <3> HIDE DEF H
    <3> QED
      BY <2>1, <3>1, <3>3, ImageFinite
  <2> QED
    BY <1>1, <2>2
<1>3. \E m \in H : \A x \in H : x <= m
  <2> HIDE DEF H
  <2> QED
    BY <1>2, GreatestFinite
<1>4. B \in SUBSET Nat /\ B # {}
  <2>1. PICK j \in k .. Len(c) : \A i \in k .. Len(c) : c[i].high <= c[j].high
    BY <1>3
  <2>2. j \in B
    BY <1>1, <2>1
  <2> QED
    BY <1>1, <2>2
<1>5. PICK m \in B : \A x \in B : m <= x
  <2> HIDE DEF B
  <2> QED
    BY <1>4, LeastNatural
<1>6. Series!max_future_high(c, k) = Series!Min(B)
  BY Zenon DEF Series!max_future_high
<1>7. Series!Min(B) \in B
  <2> HIDE DEF B
  <2>1. \E x : x = Series!Min(B) /\ x = (CHOOSE y \in B : \A z \in B : y <= z)
    BY Zenon DEF Series!Min
  <2> QED
    BY <1>5, <2>1
<1> QED
  BY <1>6, <1>7

LEMMA RegimesKept ==
  ASSUME NEW c \in Seq(Candle), NEW d \in Seq(Candle), OneMore(c, d)
  PROVE  Series!RegimesStay(c, d)
<1>1. \A k \in DOMAIN Series!classify_regime_series(c) :
        Series!classify_regime_series(d)[k] = Series!classify_regime_series(c)[k]
  <2>1. PICK n : n = Len(c)
    OBVIOUS
  <2> QED
    BY <2>1, SignalWindows
<1>2. Series!detect_signal_01_local_low_reversal(c)
        = {k \in Series!detect_signal_01_local_low_reversal(d) : k <= Len(c)}
  BY HitsSame
<1>3. ASSUME NEW k \in Series!detect_signal_01_local_low_reversal(c)
      PROVE  d[Series!max_future_high(d, k)].high >= c[Series!max_future_high(c, k)].high
  <2>1. k \in 2 .. Len(c)
    BY <1>3, Zenon DEF Series!detect_signal_01_local_low_reversal
  <2>2. Len(c) \in Nat /\ k \in 1 .. Len(c) /\ Len(d) = Len(c) + 1
    BY <2>1 DEF OneMore
  <2>3. k \in 1 .. Len(d)
    BY <2>2
  <2>4. PICK a : a = Series!max_future_high(c, k)
    OBVIOUS
  <2>5. PICK b : b = Series!max_future_high(d, k)
    OBVIOUS
  <2>6. a \in k .. Len(c)
    BY <2>2, <2>4, BestHighHere
  <2>7. \A i \in k .. Len(d) : d[b].high >= d[i].high
    BY <2>3, <2>5, BestHighHere
  <2>8. a \in k .. Len(d) /\ d[a] = c[a]
    BY <2>2, <2>6 DEF OneMore
  <2> QED
    BY <2>4, <2>5, <2>7, <2>8
<1> QED
  BY <1>1, <1>2, <1>3, Zenon DEF Series!RegimesStay

LEMMA PivotsKept ==
  ASSUME NEW c, NEW d, OneMore(c, d)
  PROVE  Series!PivotsStay(c, d)
<1> DEFINE L == DEFAULT_PIVOT_LEFT  R == DEFAULT_PIVOT_RIGHT
           Around(k) == (k - L .. k + R) \ {k}
           Inner(e) == L + 1 .. Len(e) - R
           Lows(e) == {i \in Inner(e) : \A j \in Around(i) : e[i].low <= e[j].low}
           Highs(e) == {i \in Inner(e) : \A j \in Around(i) : e[i].high >= e[j].high}
           Low(e, k) == Series!Pivot(e, k, e[k].low, "swing_low", 0)
           High(e, k) == Series!Pivot(e, k, e[k].high, "swing_high", 0)
<1>1. \A e : Series!find_price_pivots(e) = {Low(e, k) : k \in Lows(e)} \cup {High(e, k) : k \in Highs(e)}
  BY Zenon DEF Series!find_price_pivots
<1>2. \A i \in Inner(c) : /\ i \in Inner(d) /\ d[i] = c[i]
                          /\ \A j \in Around(i) : d[j] = c[j]
  BY SeriesConstants DEF OneMore
<1>3. \A i \in Lows(c) : i \in Lows(d) /\ d[i] = c[i]
  <2> HIDE DEF Inner, Around
  <2> QED
    BY <1>2
<1>4. \A i \in Highs(c) : i \in Highs(d) /\ d[i] = c[i]
  <2> HIDE DEF Inner, Around
  <2> QED
    BY <1>2
<1>5. \A i : d[i] = c[i] => Low(d, i) = Low(c, i) /\ High(d, i) = High(c, i)
  BY Zenon DEF Series!Pivot
<1> HIDE DEF Low, High, Lows, Highs
<1> QED
  BY <1>1, <1>3, <1>4, <1>5, Zenon DEF Series!PivotsStay

LEMMA SetupSame ==
  ASSUME NEW c, NEW d, OneMore(c, d), NEW i \in 1 .. Len(c)
  PROVE  Series!setup_trend(d, i) = Series!setup_trend(c, i)
<1>1. Len(c) \in Nat /\ \A k \in 1 .. Len(c) : d[k] = c[k]
  BY DEF OneMore
<1>2. CASE i <= 3
  <2>1. ~(i > 3)
    BY <1>2
  <2> QED
    BY <1>2, <2>1, Zenon DEF Series!setup_trend
<1>3. CASE i > 3
  <2>1. PICK first : first = Series!Max({1, i - REVERSAL_TREND_LOOKBACK})
    OBVIOUS
  <2>2. 1 \in Int /\ i - REVERSAL_TREND_LOOKBACK \in Int
    BY SeriesConstants
  <2>3. Series!Max({1, i - REVERSAL_TREND_LOOKBACK}) \in {1, i - REVERSAL_TREND_LOOKBACK}
        /\ Series!Max({1, i - REVERSAL_TREND_LOOKBACK}) >= 1
    BY <2>2, GreaterOfTwo, Zenon
  <2>4. first \in 1 .. i - 1
    BY <1>3, <2>1, <2>3, SeriesConstants
  <2>5. \A j \in first + 1 .. i - 1 : d[j] = c[j] /\ d[j - 1] = c[j - 1]
    BY <1>1, <2>4
  <2>6. d[first] = c[first] /\ d[i - 1] = c[i - 1]
    BY <1>1, <2>4
  <2>7. /\ {j \in first + 1 .. i - 1 : d[j].close > d[j - 1].close}
             = {j \in first + 1 .. i - 1 : c[j].close > c[j - 1].close}
        /\ {j \in first + 1 .. i - 1 : d[j].close < d[j - 1].close}
             = {j \in first + 1 .. i - 1 : c[j].close < c[j - 1].close}
    BY <2>5
  <2> QED
    BY <2>1, <2>6, <2>7, Zenon DEF Series!setup_trend
<1> QED
  BY <1>1, <1>2, <1>3

LEMMA TriplesSame ==
  ASSUME NEW c, NEW d, NEW i \in Int, NEW s, d[i] = c[i], d[i - 1] = c[i - 1], d[i - 2] = c[i - 2]
  PROVE  Series!three_candle_reversal_patterns(d, i, s) = Series!three_candle_reversal_patterns(c, i, s)
<1>1. \A j \in i - 2 .. i : d[j] = c[j]
  <2>1. \A j \in i - 2 .. i : j = i - 2 \/ j = i - 1 \/ j = i
    OBVIOUS
  <2> QED
    BY <2>1
<1>2. /\ (\A j \in i - 2 .. i : Series!Green(d[j]) /\ Series!AtLeast(Series!Body(d[j]), d[j], 45))
          <=> (\A j \in i - 2 .. i : Series!Green(c[j]) /\ Series!AtLeast(Series!Body(c[j]), c[j], 45))
      /\ (\A j \in i - 2 .. i : Series!Red(d[j]) /\ Series!AtLeast(Series!Body(d[j]), d[j], 45))
          <=> (\A j \in i - 2 .. i : Series!Red(c[j]) /\ Series!AtLeast(Series!Body(c[j]), c[j], 45))
  BY <1>1, Zenon
<1> QED
  BY <1>2, ZenonT(40) DEF Series!three_candle_reversal_patterns

LEMMA CandleSame ==
  ASSUME NEW c, NEW d, OneMore(c, d), NEW i \in 1 .. Len(c)
  PROVE  Series!classify_candle(d, i) = Series!classify_candle(c, i)
<1>1. Len(c) \in Nat /\ \A k \in 1 .. Len(c) : d[k] = c[k]
  BY DEF OneMore
<1>2. d[i] = c[i] /\ Series!setup_trend(d, i) = Series!setup_trend(c, i)
  BY <1>1, SetupSame
<1>3. i > 1 => d[i - 1] = c[i - 1]
  BY <1>1
<1>4. ASSUME i > 2, NEW s
      PROVE  Series!three_candle_reversal_patterns(d, i, s) = Series!three_candle_reversal_patterns(c, i, s)
  <2>1. i \in Int /\ d[i - 1] = c[i - 1] /\ d[i - 2] = c[i - 2]
    BY <1>1, <1>4
  <2> QED
    BY <1>2, <2>1, TriplesSame
<1> QED
  BY <1>2, <1>3, <1>4, Zenon DEF Series!classify_candle

\* A candle's report is that of its place.
LEMMA ReportsOf ==
  ASSUME NEW c, NEW n \in Nat, DOMAIN c = 1 .. n
  PROVE  /\ Len(Series!classify_candles(c)) = n /\ DOMAIN Series!classify_candles(c) = 1 .. n
         /\ \A k \in 1 .. n : Series!classify_candles(c)[k] = Series!classify_candle(c, k)
<1>1. PICK f : f = [k \in 1 .. n |-> Series!classify_candle(c, k)]
  OBVIOUS
<1>2. PICK V : V = {f[k] : k \in 1 .. n}
  OBVIOUS
<1>3. f \in Seq(V) /\ Len(f) = n
  BY <1>1, <1>2
<1>4. <<>> \o f = f
  BY <1>3
<1>5. Series!classify_candles(c) = f
  BY <1>1, <1>4, Zenon DEF Series!classify_candles
<1> QED
  BY <1>1, <1>3, <1>5

LEMMA ReportsKept ==
  ASSUME NEW c, NEW d, OneMore(c, d)
  PROVE  Series!IsPrefix(Series!classify_candles(c), Series!classify_candles(d))
<1> DEFINE n == Len(c)
           u == Series!classify_candles(c)
           v == Series!classify_candles(d)
<1>1. n \in Nat /\ DOMAIN c = 1 .. n /\ n + 1 \in Nat /\ DOMAIN d = 1 .. n + 1
  BY DEF OneMore
<1>2. Len(u) = n /\ DOMAIN u = 1 .. n /\ \A k \in 1 .. n : u[k] = Series!classify_candle(c, k)
  BY <1>1, ReportsOf
<1>3. Len(v) = n + 1 /\ DOMAIN v = 1 .. n + 1 /\ \A k \in 1 .. n + 1 : v[k] = Series!classify_candle(d, k)
  BY <1>1, ReportsOf
<1>4. \A k \in 1 .. n : v[k] = u[k]
  BY <1>1, <1>2, <1>3, CandleSame
<1> HIDE DEF u, v
<1>5. SubSeq(u, 1, n) = SubSeq(v, 1, n)
  BY <1>1, <1>4
<1> QED
  BY <1>1, <1>2, <1>3, <1>5 DEF Series!IsPrefix, u, v

\* What the detectors say of the sessions of c they say of them in d.
SaidStays(c, d) ==
  /\ Series!RegimesStay(c, d) /\ Series!PivotsStay(c, d)
  /\ Series!IsPrefix(Series!classify_candles(c), Series!classify_candles(d))

LEMMA SaidKept ==
  ASSUME NEW c, NEW d, OneMore(c, d)
  PROVE  SaidStays(c, d)
<1>1. c \in Seq(Candle) /\ d \in Seq(Candle)
  BY DEF OneMore
<1> QED
  BY <1>1, RegimesKept, PivotsKept, ReportsKept DEF SaidStays

LEMMA SeriesInvariant ==
  Spec => [](system = "series" => SeriesInv) /\ [][system = "series" => SaidStays(history, history')]_vars
<1>1. Init => (system = "series" => SeriesInv)
  BY SeriesStarts DEF Init
<1>2. (system = "series" => SeriesInv) /\ [Next]_vars => (system = "series" => SeriesInv)'
  BY SeriesStep DEF Next, OthersStay, SeriesInv, vars
<1>3. (system = "series" => SeriesInv) /\ [Next]_vars => [system = "series" => SaidStays(history, history')]_vars
  <2> SUFFICES ASSUME system = "series" => SeriesInv, Next, system = "series" PROVE SaidStays(history, history')
    OBVIOUS
  <2>1. SeriesInv /\ Series!Next
    BY DEF Next, OthersStay
  <2> QED
    BY <2>1, SeriesStep, SaidKept
<1> QED
  BY <1>1, <1>2, <1>3, PTL DEF Spec

\* No detector looks ahead: a session more leaves every regime, Drishti hit,
\* support and resistance pivot and candle report of the sessions before as it
\* was, and a hit's best high can only rise (regime.py, drishti.py,
\* support_resistance.py, candlesticks.py).
THEOREM NoLookAhead ==
  Spec => [][system = "series" => /\ Series!RegimesStay(history, history')
                                  /\ Series!PivotsStay(history, history')
                                  /\ Series!IsPrefix(Series!classify_candles(history),
                                                     Series!classify_candles(history'))]_vars
BY SeriesInvariant, PTL DEF SaidStays
=============================================================================
