------------------------------ MODULE SwingToken ------------------------------
(***************************************************************************)
(* The one Dhan token the swing application stores, and who writes it: the *)
(* renewal loop and the maintenance loop (both call renew_if_needed), and  *)
(* the user who saves a token, refreshes its profile or forces a renewal.  *)
(* They share one event loop: what lies between two awaits is one step, a  *)
(* call to Dhan is two.  Time is what is left of a token, in steps longer  *)
(* than a call's timeout.                                                  *)
(***************************************************************************)
EXTENDS Integers, FiniteSets

CONSTANTS Life,         \* what a fresh token is good for
          Before,       \* dhan_renew_before_minutes
          Every,        \* interval of each loop
          MaxFailures   \* bound of the check: calls that fail

Loops == {"renewal", "maintenance"}
User == "user"
Procs == Loops \cup {User}
NoExpiry == -1

VARIABLES
  row,       \* dhan_token: left (recorded), real (true), plan, err, tried
  call,      \* per process: the call in flight and the row it was read from
  due,       \* steps until each loop must look again
  failures

swingVars == <<row, call, due, failures>>

Rows == [left : NoExpiry .. Life, real : 0 .. Life, plan : BOOLEAN,
         err : BOOLEAN, tried : BOOLEAN]

State(r) == CASE r.left = 0 -> "expired"
              [] r.left # 0 /\ r.err /\ r.tried -> "renew_failed"
              [] r.left \in 1 .. Before /\ ~(r.err /\ r.tried) -> "expiring_soon"
              [] OTHER -> "active"

HistoricalFetchAllowed(r) == State(r) \in {"active", "expiring_soon"} /\ r.plan

\* Mutant of NeedsRenewal: a token saved without expiry is left alone.
NeedsRenewalDated(r) == r.left \in 0 .. Before

NeedsRenewal(r) == r.left <= Before   \* NoExpiry included

Idle(p) == call[p].to = "none"
Ask(p, what, r) == call' = [call EXCEPT ![p] = [to |-> what, saw |-> r]]
Fresh == [left |-> Life, real |-> Life, plan |-> TRUE, err |-> FALSE, tried |-> FALSE]
NoCall == [to |-> "none", saw |-> Fresh]
Return(p) == /\ call' = [call EXCEPT ![p] = NoCall]
             /\ due' = IF p \in Loops THEN [due EXCEPT ![p] = Every[p]] ELSE due

(* renew_if_needed up to the call: an expired token is left to the user.   *)
RenewIfNeeded(p, force) ==
  /\ Idle(p)
  /\ IF force \/ (State(row) # "expired" /\ NeedsRenewal(row))
     THEN /\ row' = [row EXCEPT !.tried = TRUE, !.err = FALSE]
          /\ Ask(p, "renew", row') /\ UNCHANGED due
     ELSE Return(p) /\ UNCHANGED row
  /\ UNCHANGED failures

(* Neither Dhan's answer to a renewal nor a profile need name an expiry.   *)
Renewed(p) ==
  /\ call[p].to = "renew" /\ call[p].saw.real > 0
  /\ \E left \in {Life, NoExpiry} :
       row' = [row EXCEPT !.left = left, !.real = Life, !.plan = call[p].saw.plan, !.err = FALSE]
  /\ Ask(p, "profile", row')
  /\ UNCHANGED <<due, failures>>

RenewalFails(p) ==
  /\ call[p].to = "renew"
  /\ failures < MaxFailures
  /\ row' = [row EXCEPT !.err = TRUE]
  /\ Return(p) /\ failures' = failures + 1

RefreshProfile == /\ Idle(User) /\ Ask(User, "profile", row)
                  /\ UNCHANGED <<row, due, failures>>

(* update_profile writes what the answer is about into whatever row is     *)
(* there by now; a failed call writes back the row it had read.            *)
ProfileArrives(p) ==
  /\ call[p].to = "profile" /\ call[p].saw.real > 0
  /\ \E plan \in BOOLEAN, left \in {call[p].saw.real, row.left} :
       row' = [row EXCEPT !.left = left, !.plan = plan, !.err = FALSE]
  /\ Return(p) /\ UNCHANGED failures

ProfileFails(p) ==
  /\ call[p].to = "profile" /\ failures < MaxFailures
  /\ row' = [row EXCEPT !.left = IF call[p].saw.left = NoExpiry THEN @ ELSE call[p].saw.left,
                        !.plan = call[p].saw.plan, !.err = TRUE]
  /\ Return(p) /\ failures' = failures + 1

(* A fresh token, with its expiry (given, or told by the profile) or none. *)
SaveManualToken ==
  /\ Idle(User)
  /\ \E left \in {Life, NoExpiry}, plan \in BOOLEAN :
       row' = [row EXCEPT !.left = left, !.real = Life, !.plan = plan, !.err = FALSE]
  /\ UNCHANGED <<call, due, failures>>

(* The loops keep their intervals and a call is shorter than a step.       *)
Pass(n) == IF n > 0 THEN n - 1 ELSE n
Tick == /\ \A p \in Procs : Idle(p)
        /\ \A l \in Loops : due[l] > 0
        /\ due' = [l \in Loops |-> due[l] - 1]
        /\ row' = [row EXCEPT !.left = Pass(@), !.real = Pass(@)]
        /\ UNCHANGED <<call, failures>>

Init == /\ row = Fresh /\ call = [p \in Procs |-> NoCall]
        /\ due = Every /\ failures = 0

Answer(p) == Renewed(p) \/ RenewalFails(p) \/ ProfileArrives(p) \/ ProfileFails(p)

Next == \/ \E l \in Loops : RenewIfNeeded(l, FALSE)
        \/ \E p \in Procs : Answer(p)
        \/ RenewIfNeeded(User, TRUE) \/ RefreshProfile \/ SaveManualToken \/ Tick

Fairness == /\ WF_swingVars(Tick)
            /\ \A l \in Loops : WF_swingVars(due[l] = 0 /\ RenewIfNeeded(l, FALSE))
            /\ \A p \in Procs : WF_swingVars(Answer(p))

Spec == Init /\ [][Next]_swingVars /\ Fairness
------------------------------------------------------------------------------
TypeOK == /\ row \in Rows /\ due \in [Loops -> Nat] /\ failures \in 0 .. MaxFailures
          /\ call \in [Procs -> [to : {"none", "renew", "profile"}, saw : Rows]]

(* README.md:18, "an automatic renewal loop before expiry": whatever the   *)
(* two loops and the user write over each other, and although calls fail,  *)
(* no token is left to run out, in truth or on record.                     *)
NeverRunsOut == row.left # 0 /\ row.real # 0

(* A failed call does not block the candle fetch for good.                 *)
BlockEnds ==
  State(row) = "renew_failed" ~> State(row) # "renew_failed"
==============================================================================
