---------------------------- MODULE ContinuityInit ----------------------------
(***************************************************************************)
(* The create-only initialisation of the two continuity files: dry run,    *)
(* approval, intent record, one file after the other, final audit.  Two    *)
(* invocations may overlap or follow each other, one may die at any point, *)
(* in the middle of a write too, and all the while the strategies' own     *)
(* jobs change ledgers and write continuity files, sessions are published  *)
(* and releases deployed.                                                  *)
(***************************************************************************)
EXTENDS Integers, FiniteSets

CONSTANTS Invocations, MaxChanges   \* MaxChanges: bound on what others do

STRATEGY_IDS == <<"v8_demo", "uptrend_sideways">>
Strategies == {"v8_demo", "uptrend_sideways"}
Job == "job"   \* the strategies' own writers of continuity files

VARIABLES
  ledgers,    \* version of each ledger directory
  market,     \* version of the stored trading dates
  marker,     \* version of the release marker
  metadata,   \* continuity file of each strategy: [state, by]
  journal,    \* the intent record: [state, by, audit]
  run,        \* per invocation: [pc, approved, seen, index]
  changes     \* what others have done

continuityInitVars == <<ledgers, market, marker, metadata, journal, run, changes>>
diskVars == <<ledgers, market, marker, metadata, journal, changes>>

Evidence == [ledgers : [Strategies -> Nat], market : Nat, marker : Nat]
Blank == [ledgers |-> [s \in Strategies |-> 0], market |-> 0, marker |-> 0]
Absent == [state |-> "absent", by |-> ""]
NoJournal == [state |-> "absent", by |-> "", audit |-> Blank]

At(p, pc) == run[p].pc = pc
Goto(p, pc) == run' = [run EXCEPT ![p].pc = pc]
Refuse(p) == Goto(p, "refused")

(* audit_strategy for one ledger after the other, with the market's dates. *)
Audit(p, pc, next) ==
  /\ \/ /\ At(p, pc) /\ run[p].index = 1
        /\ run' = [run EXCEPT ![p] = [@ EXCEPT !.index = 2, !.seen.market = market,
                                        !.seen.ledgers["v8_demo"] = ledgers["v8_demo"]]]
     \/ /\ At(p, pc) /\ run[p].index = 2
        /\ run' = [run EXCEPT ![p] = [@ EXCEPT !.index = 1, !.pc = next,
                              !.seen.ledgers["uptrend_sideways"] = ledgers["uptrend_sideways"]]]
  /\ UNCHANGED diskVars

Approved(p) == run[p].seen = run[p].approved
verify_release_marker(p) == run[p].seen.marker = marker
_assert_bundle_current(p) == run[p].seen.ledgers = ledgers

(* A dry run whose audit the operator approves, then the run with --write. *)
DryRun(p) ==
  /\ At(p, "dry")
  /\ LET audit == [ledgers |-> ledgers, market |-> market, marker |-> marker] IN
     run' = [run EXCEPT ![p] = [pc |-> "audit", approved |-> audit,
                                seen |-> [Blank EXCEPT !.marker = marker], index |-> 1]]
  /\ UNCHANGED diskVars

StartWrite(p) ==
  /\ At(p, "audited")
  /\ IF Approved(p) /\ verify_release_marker(p)
     THEN Goto(p, IF journal.state = "absent" THEN "boundary" ELSE "recovery") ELSE Refuse(p)
  /\ UNCHANGED diskVars

(* An intent record is there: nothing is written any more.                 *)
Exact(s) == metadata[s].state = "whole" /\ metadata[s].by = journal.by
Recover(p) ==
  /\ At(p, "recovered")
  /\ IF /\ journal.state = "whole" /\ journal.audit = run[p].approved
        /\ Approved(p) /\ \A s \in Strategies : Exact(s)
     THEN Goto(p, "unchanged") ELSE Refuse(p)
  /\ UNCHANGED diskVars

\* Mutant of Boundary: files are created on an audit alone, without an intent record.
BoundaryUnrecorded(p) ==
  /\ At(p, "bounded")
  /\ IF /\ Approved(p) /\ verify_release_marker(p) /\ _assert_bundle_current(p)
        /\ \A s \in Strategies : metadata[s].state = "absent"
     THEN Goto(p, "final") ELSE Refuse(p)
  /\ UNCHANGED diskVars

Boundary(p) ==
  /\ At(p, "bounded")
  /\ IF /\ Approved(p) /\ verify_release_marker(p) /\ _assert_bundle_current(p)
        /\ \A s \in Strategies : metadata[s].state = "absent"
     THEN Goto(p, "intent") ELSE Refuse(p)
  /\ UNCHANGED diskVars

(* Exclusive creation, then the content and its fsync.                     *)
_create_intent_record(p) ==
  /\ \/ /\ At(p, "intent") /\ journal.state = "absent"
        /\ journal' = [state |-> "torn", by |-> p, audit |-> Blank]
        /\ Goto(p, "filling")
     \/ At(p, "intent") /\ journal.state # "absent" /\ Refuse(p) /\ UNCHANGED journal
     \/ /\ At(p, "filling") /\ Goto(p, "final")
        /\ journal' = [state |-> "whole", by |-> p, audit |-> run[p].seen]
  /\ UNCHANGED <<ledgers, market, marker, metadata, changes>>

FinalBoundary(p) ==
  /\ At(p, "finalled")
  /\ IF Approved(p) /\ verify_release_marker(p) /\ _assert_bundle_current(p)
     THEN Goto(p, "check") ELSE Refuse(p)
  /\ UNCHANGED diskVars

Strategy(p) == STRATEGY_IDS[run[p].index]

CheckAbsent(p) ==
  /\ At(p, "check")
  /\ IF metadata[Strategy(p)].state = "absent" THEN Goto(p, "create") ELSE Refuse(p)
  /\ UNCHANGED diskVars

_create_metadata(p) ==
  /\ \/ /\ At(p, "create") /\ metadata[Strategy(p)].state = "absent"
        /\ metadata' = [metadata EXCEPT ![Strategy(p)] = [state |-> "torn", by |-> p]]
        /\ Goto(p, "write")
     \/ At(p, "create") /\ metadata[Strategy(p)].state # "absent" /\ Refuse(p) /\ UNCHANGED metadata
     \/ /\ At(p, "write")
        /\ metadata' = [metadata EXCEPT ![Strategy(p)] =
             IF @.by = p THEN [@ EXCEPT !.state = "whole"] ELSE @]   \* an unlinked file else
        /\ run' = IF run[p].index = 1 THEN [run EXCEPT ![p].pc = "check", ![p].index = 2]
                  ELSE [run EXCEPT ![p].pc = "post", ![p].index = 1]
  /\ UNCHANGED <<ledgers, market, marker, journal, changes>>

PostWrite(p) ==
  /\ At(p, "posted")
  /\ IF /\ verify_release_marker(p) /\ Approved(p) /\ _assert_bundle_current(p)
        /\ journal.state = "whole" /\ Exact("v8_demo")
     THEN Goto(p, "last") ELSE Refuse(p)
  /\ UNCHANGED diskVars

Validate(p) ==
  /\ At(p, "last")
  /\ IF Exact("uptrend_sideways") THEN Goto(p, "created") ELSE Refuse(p)
  /\ UNCHANGED diskVars

InvocationStep(p) ==
  \/ DryRun(p) \/ StartWrite(p) \/ Recover(p) \/ Boundary(p) \/ _create_intent_record(p)
  \/ FinalBoundary(p) \/ CheckAbsent(p) \/ _create_metadata(p) \/ PostWrite(p) \/ Validate(p)
  \/ Audit(p, "audit", "audited") \/ Audit(p, "boundary", "bounded")
  \/ Audit(p, "final", "finalled") \/ Audit(p, "post", "posted")
  \/ Audit(p, "recovery", "recovered")

Ended == {"refused", "unchanged", "created", "dead"}
Dies(p) == /\ run[p].pc \notin Ended /\ run' = [run EXCEPT ![p].pc = "dead"]
           /\ UNCHANGED diskVars

(* What the strategies' jobs, the candle fetch and a deployment do.        *)
Others ==
  /\ changes < MaxChanges /\ changes' = changes + 1
  /\ \/ /\ \E s \in Strategies : ledgers' = [ledgers EXCEPT ![s] = @ + 1]
        /\ UNCHANGED <<market, marker, metadata>>
     \/ market' = market + 1 /\ UNCHANGED <<ledgers, marker, metadata>>
     \/ marker' = marker + 1 /\ UNCHANGED <<ledgers, market, metadata>>
     \/ /\ \E s \in Strategies :
             metadata' = [metadata EXCEPT ![s] = [state |-> "whole", by |-> Job]]
        /\ UNCHANGED <<ledgers, market, marker>>
  /\ UNCHANGED <<journal, run>>

Init == /\ ledgers = [s \in Strategies |-> 0] /\ market = 0 /\ marker = 0 /\ changes = 0
        /\ metadata = [s \in Strategies |-> Absent] /\ journal = NoJournal
        /\ run = [p \in Invocations |-> [pc |-> "dry", approved |-> Blank, seen |-> Blank, index |-> 1]]

Next == Others \/ \E p \in Invocations : InvocationStep(p) \/ Dies(p)
Spec == Init /\ [][Next]_continuityInitVars
------------------------------------------------------------------------------
TypeOK ==
  /\ ledgers \in [Strategies -> Nat] /\ market \in Nat /\ marker \in Nat
  /\ changes \in 0 .. MaxChanges
  /\ metadata \in [Strategies -> [state : {"absent", "torn", "whole"},
                                  by : Invocations \cup {"", Job}]]
  /\ journal \in [state : {"absent", "torn", "whole"}, by : Invocations \cup {""}, audit : Evidence]
  /\ \A p \in Invocations : run[p].approved \in Evidence /\ run[p].seen \in Evidence

(* A continuity file that an invocation has begun to write is covered by a *)
(* whole intent record of the same invocation, wherever it died.           *)
RecordedBeforeWritten ==
  \A s \in Strategies : metadata[s].by \in Invocations =>
    journal.state = "whole" /\ journal.by = metadata[s].by

(* Only the invocation that wrote the intent record writes files, and none *)
(* touches a file that is already there, whoever put it there meanwhile.   *)
CreateOnly ==
  changes' = changes =>
    /\ journal.state = "whole" => journal' = journal
    /\ \A s \in Strategies :
         /\ metadata[s].state = "whole" => metadata'[s] = metadata[s]
         /\ metadata'[s].by = metadata[s].by \/ metadata'[s].by = journal.by

(* Success is reported only when both files hold what one intent record    *)
(* says, or what a strategy's job has put in their place since, and the    *)
(* record was made from the evidence that the operator approved.           *)
SuccessMeansBoth ==
  \A p \in Invocations : run[p].pc \in {"created", "unchanged"} =>
    /\ journal.state = "whole" /\ journal.audit = run[p].approved
    /\ \A s \in Strategies : metadata[s].state = "whole" /\ metadata[s].by \in {journal.by, Job}
==============================================================================
