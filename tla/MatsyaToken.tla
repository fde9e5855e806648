------------------------------ MODULE MatsyaToken ------------------------------
(***************************************************************************)
(* Matsya's Dhan token, a row of PostgreSQL written by the renewal worker  *)
(* and by the API.  A renewal is one transaction across the awaited call:  *)
(* its first UPDATE locks the row until the commit.  A refresh awaits      *)
(* first and writes back what it had read if the call fails.  Statements   *)
(* block the thread of their process, and with it every other request of   *)
(* the same process.  A process may die in between: nothing of its         *)
(* transaction stays, whatever Dhan has done.  A token may be stored       *)
(* without its expiry: the user need not give it nor Dhan's answer name    *)
(* it, and the worker never renews such a token.                           *)
(***************************************************************************)
EXTENDS Integers, FiniteSets

CONSTANTS Requests,                 \* requests the API works on at a time
          TokenLife, RenewBefore,   \* in steps of the worker's interval
          MaxDeaths                 \* bound: processes that die in a call

Worker == "worker"
Writers == {Worker} \cup Requests
NoExpiry == -1

VARIABLES
  state,      \* dhan_token_state: left (recorded), real (true), err, tried; and
              \* dated, of the check: all the row was made from had an expiry
  txn,        \* per writer: where its transaction is and the row it read
  looked,     \* the worker has looked in this step
  died,
  mayFail     \* whether Dhan refuses or times out at all, for a whole behaviour

matsyaTokenVars == <<state, txn, looked, died, mayFail>>

States == [left : NoExpiry .. TokenLife, real : 0 .. TokenLife, err : BOOLEAN,
           tried : BOOLEAN, dated : BOOLEAN]
New == [left |-> TokenLife, real |-> TokenLife, err |-> FALSE, tried |-> FALSE, dated |-> TRUE]
NoTxn == [at |-> "none", read |-> New]

\* Mutant of TokenState: a token without an expiry counts as good.
TokenStateTrusting(s) == CASE s.err /\ s.tried -> "renew_failed"
                           [] ~(s.err /\ s.tried) /\ s.left = 0 -> "expired"
                           [] ~(s.err /\ s.tried) /\ s.left \in 1 .. RenewBefore -> "expiring_soon"
                           [] OTHER -> "active"

TokenState(s) == CASE s.err /\ s.tried -> "renew_failed"
                   [] ~(s.err /\ s.tried) /\ s.left = NoExpiry -> "unknown"
                   [] ~(s.err /\ s.tried) /\ s.left = 0 -> "expired"
                   [] ~(s.err /\ s.tried) /\ s.left \in 1 .. RenewBefore -> "expiring_soon"
                   [] OTHER -> "active"

\* What the market-data worker is given the token in.
LiveMarketCredentials(s) == TokenState(s) \in {"active", "expiring_soon"}

Waiting == {"wait_renew", "wait_refresh", "wait_save"}
Unlocked == \A w \in Writers : txn[w].at # "renew"
Stuck(w) == w \in Requests /\ \E r \in Requests \ {w} : txn[r].at \in Waiting
\* Mutant of End: what a failed renewal has written is not committed, and
\* its transaction stays open.
EndUnlessFailed(w) == txn' = IF txn[w].at = "renew" /\ state'.err
                             THEN [txn EXCEPT ![w].read.real = 0] ELSE [txn EXCEPT ![w] = NoTxn]

End(w) == txn' = [txn EXCEPT ![w] = NoTxn]
At(w, step) == txn[w].at = step /\ ~Stuck(w)
Go(w, step, s) == txn' = [txn EXCEPT ![w] = [at |-> step, read |-> s]]

(* renew reads, then its UPDATE takes the lock or waits for it.            *)
BeginRenew(w) == /\ At(w, "none")
                 /\ Go(w, IF Unlocked THEN "renew" ELSE "wait_renew", state)
TakeLock(w) == /\ At(w, "wait_renew") /\ Unlocked /\ Go(w, "renew", txn[w].read)
               /\ UNCHANGED <<state, looked, died, mayFail>>

(* _check_and_renew: only a token about to expire is renewed; what failed  *)
(* once waits for someone.                                                 *)
CheckAndRenew ==
  /\ txn[Worker] = NoTxn /\ ~looked
  /\ looked' = TRUE
  /\ IF TokenState(state) = "expiring_soon" THEN BeginRenew(Worker) ELSE UNCHANGED txn
  /\ UNCHANGED <<state, died, mayFail>>

RenewByApi(r) == BeginRenew(r) /\ UNCHANGED <<state, looked, died, mayFail>>

(* _upsert: a whole new token, with its expiry if that is known.           *)
Upsert(left, attempted) ==
  state' = [left |-> left, real |-> TokenLife, err |-> FALSE, tried |-> attempted,
            dated |-> left # NoExpiry]

RenewCommits(w) ==
  /\ At(w, "renew")
  /\ \/ txn[w].read.real > 0 /\ \E left \in {TokenLife, NoExpiry} : Upsert(left, TRUE)
     \/ /\ mayFail \/ txn[w].read.real = 0
        /\ state' = [state EXCEPT !.tried = TRUE, !.err = TRUE, !.dated = @ /\ txn[w].read.dated]
  /\ End(w) /\ UNCHANGED <<looked, died, mayFail>>

RefreshProfile(r) == /\ At(r, "none") /\ Go(r, "refresh", state)
                     /\ UNCHANGED <<state, looked, died, mayFail>>

(* _update_profile: the profile may name no expiry, and a failed call      *)
(* writes back the one it had read; without one the row keeps its own.     *)
UpdateProfile(r) ==
  \E expiry \in {txn[r].read.real, txn[r].read.left, NoExpiry}, failed \in BOOLEAN :
    /\ IF failed THEN (mayFail \/ txn[r].read.real = 0) /\ expiry = txn[r].read.left
       ELSE txn[r].read.real > 0 /\ expiry \in {txn[r].read.real, NoExpiry}
    /\ state' = [state EXCEPT !.left = IF expiry = NoExpiry THEN @ ELSE expiry,
                              !.err = failed, !.dated = @ /\ txn[r].read.dated]

RefreshCommits(r) ==
  /\ At(r, "refresh") \/ At(r, "wait_refresh")
  /\ IF Unlocked THEN UpdateProfile(r) /\ End(r)
     ELSE At(r, "refresh") /\ Go(r, "wait_refresh", txn[r].read) /\ UNCHANGED state
  /\ UNCHANGED <<looked, died, mayFail>>

(* A fresh token, with its expiry (given, or told by the profile) or none. *)
SaveManualToken(r) ==
  /\ At(r, "none") \/ At(r, "wait_save")
  /\ IF Unlocked
     THEN (\E left \in {TokenLife, NoExpiry} : Upsert(left, state.tried)) /\ End(r)
     ELSE At(r, "none") /\ Go(r, "wait_save", state) /\ UNCHANGED state
  /\ UNCHANGED <<looked, died, mayFail>>

(* The transaction is rolled back; a restarted worker looks again.         *)
Dies(w) == /\ txn[w] # NoTxn /\ died < MaxDeaths
           /\ died' = died + 1 /\ UNCHANGED <<state, mayFail>>
           /\ IF w = Worker THEN End(w) /\ looked' = FALSE
              ELSE /\ txn' = [v \in Writers |-> IF v \in Requests THEN NoTxn ELSE txn[v]]
                   /\ UNCHANGED looked

(* A step of time is longer than any call.                                 *)
Less(n) == IF n > 0 THEN n - 1 ELSE n
Elapse == /\ looked /\ looked' = FALSE
          /\ \A w \in Writers : txn[w] = NoTxn
          /\ state' = [state EXCEPT !.left = Less(@), !.real = Less(@)]
          /\ UNCHANGED <<txn, died, mayFail>>

Init == state = New /\ txn = [w \in Writers |-> NoTxn] /\ looked = FALSE /\ died = 0
        /\ mayFail \in BOOLEAN

WriterStep(w) == RenewCommits(w) \/ TakeLock(w)
RequestStep(r) == RefreshCommits(r) \/ (txn[r].at = "wait_save" /\ SaveManualToken(r))

Next == \/ CheckAndRenew \/ Elapse
        \/ \E w \in Writers : WriterStep(w) \/ Dies(w)
        \/ \E r \in Requests : \/ RenewByApi(r) \/ RefreshProfile(r)
                               \/ RefreshCommits(r) \/ SaveManualToken(r)

Fairness == /\ WF_matsyaTokenVars(CheckAndRenew) /\ WF_matsyaTokenVars(Elapse)
            /\ \A w \in Writers : SF_matsyaTokenVars(WriterStep(w))
            /\ \A r \in Requests : SF_matsyaTokenVars(RequestStep(r))

Spec == Init /\ [][Next]_matsyaTokenVars /\ Fairness
------------------------------------------------------------------------------
TypeOK == /\ state \in States /\ died \in 0 .. MaxDeaths /\ looked \in BOOLEAN /\ mayFail \in BOOLEAN
          /\ txn \in [Writers -> [at : {"none", "renew", "refresh"} \cup Waiting, read : States]]

(* As long as Dhan answers, a token stored with its expiry never runs out, *)
(* although the worker dies while the answer is on its way and a refresh   *)
(* writes back what it read before a renewal; nor does one that replaces a *)
(* token without expiry, unless an answer about that one is written into   *)
(* its row.                                                                *)
NeverRunsOut == ~mayFail /\ state.dated => state.left # 0 /\ state.real # 0

(* The market-data worker is never given a token that has run out          *)
(* (live_market_credentials), whoever failed, died or left an expiry out.  *)
OnlyLiveTokens == LiveMarketCredentials(state) => state.real # 0

(* A request that waits for the row gets it: the renewal that holds it is  *)
(* bounded by its timeout, unless it is a request of the same process.     *)
WaitEnds == \A w \in Writers : txn[w].at \in Waiting ~> txn[w].at \notin Waiting
==============================================================================
