------------------------------ MODULE MCTokens ------------------------------
(***************************************************************************)
(* The two Dhan tokens of the repository under one run: the one of the     *)
(* swing application (SwingToken) and the one of Matsya (MatsyaToken).     *)
(* They share nothing, so a behaviour is of one of them: `token' says      *)
(* which, and the variables of the other stay as they start.               *)
(***************************************************************************)
EXTENDS Integers, FiniteSets, TLC

CONSTANTS Life, Before, Every, MaxFailures,             \* SwingToken
          Requests, TokenLife, RenewBefore, MaxDeaths   \* MatsyaToken

VARIABLES token,
          row, call, due, failures,
          state, txn, looked, died, mayFail

Swing == INSTANCE SwingToken
Matsya == INSTANCE MatsyaToken

(* Lives and intervals are steps of time, and what the check bounds is     *)
(* bounded; the worker is none of the requests.                            *)
ASSUME TokensAssumption ==
  /\ {Life, Before, MaxFailures} \subseteq Nat /\ Every \in [Swing!Loops -> Nat \ {0}]
  /\ {TokenLife, RenewBefore, MaxDeaths} \subseteq Nat /\ Matsya!Worker \notin Requests

\* For TLC: the maintenance loop looks half as often as the renewal loop.
Intervals == "renewal" :> 1 @@ "maintenance" :> 2

vars == <<token, row, call, due, failures, state, txn, looked, died, mayFail>>

Init == /\ token \in {"swing", "matsya"}
        /\ Swing!Init /\ Matsya!Init
        /\ token = "swing" => mayFail = FALSE

Next == /\ UNCHANGED token
        /\ \/ token = "swing" /\ Swing!Next /\ UNCHANGED <<state, txn, looked, died, mayFail>>
           \/ token = "matsya" /\ Matsya!Next /\ UNCHANGED <<row, call, due, failures>>

Spec == /\ Init /\ [][Next]_vars
        /\ token = "swing" => Swing!Fairness
        /\ token = "matsya" => Matsya!Fairness

(* The types of both (the proofs rest on them).                            *)
TokensStored == Swing!TypeOK /\ Matsya!TypeOK

(* Neither token runs out while its application is up: whatever the loops, *)
(* the worker and the user write over each other (SwingToken), and of      *)
(* Matsya one whose expiry is known, while Dhan answers (MatsyaToken).     *)
NeverRunsOut == /\ token = "swing" => Swing!NeverRunsOut
                /\ token = "matsya" => Matsya!NeverRunsOut

(* Matsya hands out no token that has run out for live market data.        *)
OnlyLiveTokens == token = "matsya" => Matsya!OnlyLiveTokens

(* A failed renewal does not block the swing fetch for good, and a request *)
(* of Matsya that waits for the token's row gets it.                       *)
WaitsEnd == /\ token = "swing" => Swing!BlockEnds
            /\ token = "matsya" => Matsya!WaitEnds
=============================================================================
