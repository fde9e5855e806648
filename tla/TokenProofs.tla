------------------------------ MODULE TokenProofs ------------------------------
(***************************************************************************)
(* Theorems about the two Dhan tokens: what is stored is a token, none     *)
(* that has run out is handed out, and none runs out while its application *)
(* is up (Matsya's: one whose expiry is known), for every length of life,  *)
(* of the renewal window and of the loops' intervals, any number of API    *)
(* requests at a time and any number of deaths.                            *)
(***************************************************************************)
EXTENDS MCTokens, TLAPS

\* The constants of the two modules, one by one.
LEMMA Constants ==
  /\ Life \in Nat /\ Before \in Nat /\ MaxFailures \in Nat
  /\ TokenLife \in Nat /\ RenewBefore \in Nat /\ MaxDeaths \in Nat
  /\ Every \in [Swing!Loops -> Nat \ {0}] /\ Matsya!Worker \notin Requests
BY TokensAssumption

------------------------------------------------------------------------------
(* What is stored.                                                           *)

LEMMA FreshToken == Swing!Fresh \in Swing!Rows
<1>1. Life \in Swing!NoExpiry .. Life /\ Life \in 0 .. Life
  BY Constants DEF Swing!NoExpiry
<1> QED
  BY <1>1 DEF Swing!Fresh, Swing!Rows

LEMMA NewToken == Matsya!New \in Matsya!States
<1>1. TokenLife \in Matsya!NoExpiry .. TokenLife /\ TokenLife \in 0 .. TokenLife
  BY Constants DEF Matsya!NoExpiry
<1> QED
  BY <1>1 DEF Matsya!New, Matsya!States

\* A token stored anew, with or without its expiry.
LEMMA UpsertTyped ==
  ASSUME NEW left \in {TokenLife, Matsya!NoExpiry}, NEW attempted \in BOOLEAN,
         Matsya!Upsert(left, attempted)
  PROVE  /\ state' \in Matsya!States /\ state'.real = TokenLife /\ ~state'.err
         /\ state'.left = left /\ state'.dated = (left # Matsya!NoExpiry)
<1>1. /\ left \in Matsya!NoExpiry .. TokenLife /\ TokenLife \in 0 .. TokenLife
      /\ (left # Matsya!NoExpiry) \in BOOLEAN
  BY Constants DEF Matsya!NoExpiry
<1> QED
  BY <1>1 DEF Matsya!Upsert, Matsya!States

\* What a transaction writes back of the profile is typed as what it read.
LEMMA UpdateTyped ==
  ASSUME NEW r \in Requests, Matsya!UpdateProfile(r), state \in Matsya!States,
         txn[r].read \in Matsya!States
  PROVE  /\ state' \in Matsya!States /\ state'.real = state.real
         /\ state'.left \in {state.left, txn[r].read.real, txn[r].read.left}
         /\ state'.dated = (state.dated /\ txn[r].read.dated)
         /\ ~mayFail /\ txn[r].read.real # 0
               => state'.left \in {state.left, txn[r].read.real} /\ ~state'.err
<1>1. PICK expiry \in {txn[r].read.real, txn[r].read.left, Matsya!NoExpiry}, failed \in BOOLEAN :
        /\ IF failed THEN (mayFail \/ txn[r].read.real = 0) /\ expiry = txn[r].read.left
           ELSE txn[r].read.real > 0 /\ expiry \in {txn[r].read.real, Matsya!NoExpiry}
        /\ state' = [state EXCEPT !.left = IF expiry = Matsya!NoExpiry THEN @ ELSE expiry,
                                  !.err = failed, !.dated = @ /\ txn[r].read.dated]
  BY DEF Matsya!UpdateProfile
<1>2. /\ txn[r].read.real \in Matsya!NoExpiry .. TokenLife
      /\ txn[r].read.left \in Matsya!NoExpiry .. TokenLife
      /\ state.left \in Matsya!NoExpiry .. TokenLife
      /\ txn[r].read.dated \in BOOLEAN /\ state.dated \in BOOLEAN
  BY Constants DEF Matsya!States, Matsya!NoExpiry
<1> DEFINE left == IF expiry = Matsya!NoExpiry THEN state.left ELSE expiry
           dated == state.dated /\ txn[r].read.dated
<1>3. state' = [state EXCEPT !.left = left, !.err = failed, !.dated = dated]
  BY <1>1
<1>4. /\ left \in Matsya!NoExpiry .. TokenLife /\ dated \in BOOLEAN
      /\ left \in {state.left, txn[r].read.real, txn[r].read.left}
  BY <1>1, <1>2
<1>5. ~mayFail /\ txn[r].read.real # 0 => left \in {state.left, txn[r].read.real} /\ ~failed
  BY <1>1
<1> HIDE DEF left, dated
<1>6. /\ state' \in Matsya!States /\ state'.real = state.real
      /\ state'.left = left /\ state'.err = failed /\ state'.dated = dated
  BY <1>3, <1>4 DEF Matsya!States
<1> QED
  BY <1>4, <1>5, <1>6 DEF dated

\* What a call carries is a row.
LEMMA CallTyped ==
  ASSUME NEW p \in Swing!Procs, Swing!TypeOK
  PROVE  /\ call[p].to \in {"none", "renew", "profile"} /\ call[p].saw \in Swing!Rows
         /\ call[p].saw.real \in 0 .. Life /\ call[p].saw.left \in -1 .. Life
         /\ call[p].saw.plan \in BOOLEAN
BY DEF Swing!TypeOK, Swing!Rows, Swing!NoExpiry

LEMMA SwingReturnTyped ==
  ASSUME NEW p \in Swing!Procs, Swing!TypeOK, Swing!Return(p)
  PROVE  /\ call' \in [Swing!Procs -> [to : {"none", "renew", "profile"}, saw : Swing!Rows]]
         /\ due' \in [Swing!Loops -> Nat]
<1>1. Swing!NoCall \in [to : {"none", "renew", "profile"}, saw : Swing!Rows]
  BY FreshToken DEF Swing!NoCall
<1>2. Every \in [Swing!Loops -> Nat]
  BY Constants
<1> QED
  BY <1>1, <1>2 DEF Swing!Return, Swing!TypeOK

LEMMA SwingAskTyped ==
  ASSUME NEW p \in Swing!Procs, NEW r \in Swing!Rows, NEW what \in {"renew", "profile"},
         Swing!TypeOK, Swing!Ask(p, what, r)
  PROVE  call' \in [Swing!Procs -> [to : {"none", "renew", "profile"}, saw : Swing!Rows]]
<1>1. [to |-> what, saw |-> r] \in [to : {"none", "renew", "profile"}, saw : Swing!Rows]
  OBVIOUS
<1> QED
  BY <1>1 DEF Swing!Ask, Swing!TypeOK

\* The steps of the swing token's row keep it a row.
LEMMA SwingRowTyped ==
  ASSUME Swing!TypeOK, Swing!Next
  PROVE  row' \in Swing!Rows
<1> USE Constants
<1>0. row \in Swing!Rows
  BY DEF Swing!TypeOK
<1>1. Life \in Swing!NoExpiry .. Life /\ Life \in 0 .. Life
      /\ Swing!NoExpiry \in Swing!NoExpiry .. Life
  BY DEF Swing!NoExpiry
<1>2. ASSUME NEW p \in Swing!Procs, NEW force \in BOOLEAN, Swing!RenewIfNeeded(p, force)
      PROVE  row' \in Swing!Rows
  BY <1>0, <1>2 DEF Swing!RenewIfNeeded, Swing!Rows
<1>3. ASSUME NEW p \in Swing!Procs, Swing!Answer(p)
      PROVE  row' \in Swing!Rows
  <2>1. call[p].saw.real \in Swing!NoExpiry .. Life /\ call[p].saw.left \in Swing!NoExpiry .. Life
        /\ call[p].saw.plan \in BOOLEAN
    BY CallTyped DEF Swing!NoExpiry
  <2>2. CASE Swing!Renewed(p)
    BY <1>0, <1>1, <2>1, <2>2 DEF Swing!Renewed, Swing!Rows
  <2>3. CASE Swing!RenewalFails(p)
    BY <1>0, <2>3 DEF Swing!RenewalFails, Swing!Rows
  <2>4. CASE Swing!ProfileArrives(p)
    BY <1>0, <2>1, <2>4 DEF Swing!ProfileArrives, Swing!Rows
  <2>5. CASE Swing!ProfileFails(p)
    BY <1>0, <2>1, <2>5 DEF Swing!ProfileFails, Swing!Rows
  <2> QED
    BY <1>3, <2>2, <2>3, <2>4, <2>5 DEF Swing!Answer
<1>4. ASSUME Swing!SaveManualToken PROVE row' \in Swing!Rows
  BY <1>0, <1>1, <1>4 DEF Swing!SaveManualToken, Swing!Rows
<1>5. ASSUME Swing!Tick PROVE row' \in Swing!Rows
  <2>1. /\ row.left \in Swing!NoExpiry .. Life /\ row.real \in 0 .. Life
    BY <1>0 DEF Swing!Rows
  <2>2. /\ Swing!Pass(row.left) \in Swing!NoExpiry .. Life /\ Swing!Pass(row.real) \in 0 .. Life
    BY <2>1 DEF Swing!Pass, Swing!NoExpiry
  <2> QED
    BY <1>0, <1>5, <2>2 DEF Swing!Tick, Swing!Rows
<1>6. ASSUME Swing!RefreshProfile PROVE row' \in Swing!Rows
  BY <1>0, <1>6 DEF Swing!RefreshProfile
<1> QED
  BY <1>2, <1>3, <1>4, <1>5, <1>6 DEF Swing!Next, Swing!Procs, Swing!Loops

\* The swing application's token, its calls and its loops stay well typed.
LEMMA SwingStepTyped ==
  ASSUME Swing!TypeOK, Swing!Next
  PROVE  Swing!TypeOK'
<1> USE Constants
<1>1. row \in Swing!Rows /\ row' \in Swing!Rows /\ failures \in 0 .. MaxFailures
      /\ due \in [Swing!Loops -> Nat]
      /\ call \in [Swing!Procs -> [to : {"none", "renew", "profile"}, saw : Swing!Rows]]
  BY SwingRowTyped DEF Swing!TypeOK
<1>2. ASSUME NEW p \in Swing!Procs, NEW force \in BOOLEAN, Swing!RenewIfNeeded(p, force)
      PROVE  Swing!TypeOK'
  <2>1. CASE Swing!Return(p)
    BY <1>1, <1>2, <2>1, SwingReturnTyped DEF Swing!RenewIfNeeded, Swing!TypeOK
  <2>2. CASE Swing!Ask(p, "renew", row') /\ UNCHANGED due
    BY <1>1, <1>2, <2>2, SwingAskTyped DEF Swing!RenewIfNeeded, Swing!TypeOK
  <2> QED
    BY <1>2, <2>1, <2>2 DEF Swing!RenewIfNeeded
<1>3. ASSUME NEW p \in Swing!Procs, Swing!Renewed(p) PROVE Swing!TypeOK'
  BY <1>1, <1>3, SwingAskTyped DEF Swing!Renewed, Swing!TypeOK
<1>4. ASSUME NEW p \in Swing!Procs, Swing!RenewalFails(p) \/ Swing!ProfileFails(p)
      PROVE  Swing!TypeOK'
  <2>1. Swing!Return(p) /\ failures < MaxFailures /\ failures' = failures + 1
    BY <1>4 DEF Swing!RenewalFails, Swing!ProfileFails
  <2> QED
    BY <1>1, <2>1, SwingReturnTyped DEF Swing!TypeOK
<1>5. ASSUME NEW p \in Swing!Procs, Swing!ProfileArrives(p) PROVE Swing!TypeOK'
  BY <1>1, <1>5, SwingReturnTyped DEF Swing!ProfileArrives, Swing!TypeOK
<1>6. ASSUME Swing!RefreshProfile PROVE Swing!TypeOK'
  BY <1>1, <1>6, SwingAskTyped DEF Swing!RefreshProfile, Swing!Procs, Swing!TypeOK
<1>7. ASSUME Swing!SaveManualToken PROVE Swing!TypeOK'
  BY <1>1, <1>7 DEF Swing!SaveManualToken, Swing!TypeOK
<1>8. ASSUME Swing!Tick PROVE Swing!TypeOK'
  BY <1>1, <1>8 DEF Swing!Tick, Swing!TypeOK
<1> QED
  BY <1>2, <1>3, <1>4, <1>5, <1>6, <1>7, <1>8
  DEF Swing!Next, Swing!Answer, Swing!Procs, Swing!Loops

\* Where a transaction of Matsya stands.
Steps == {"none", "renew", "refresh"} \cup Matsya!Waiting
Txns == [at : Steps, read : Matsya!States]

LEMMA NoTxnTyped == Matsya!NoTxn \in Txns
BY NewToken DEF Matsya!NoTxn, Txns, Steps

LEMMA MatsyaMovesTyped ==
  ASSUME NEW w \in Matsya!Writers, NEW s \in Matsya!States, NEW step \in Steps,
         txn \in [Matsya!Writers -> Txns]
  PROVE  /\ Matsya!Go(w, step, s) => txn' \in [Matsya!Writers -> Txns]
         /\ Matsya!End(w) => txn' \in [Matsya!Writers -> Txns]
<1>1. [at |-> step, read |-> s] \in Txns
  BY DEF Txns
<1> QED
  BY <1>1, NoTxnTyped DEF Matsya!Go, Matsya!End

\* Every step of a writer leaves a token in the row and a transaction for each.
LEMMA MatsyaStepTyped ==
  ASSUME Matsya!TypeOK, Matsya!Next
  PROVE  Matsya!TypeOK'
<1> USE Constants
<1>1. /\ state \in Matsya!States /\ died \in 0 .. MaxDeaths
      /\ looked \in BOOLEAN /\ mayFail \in BOOLEAN /\ txn \in [Matsya!Writers -> Txns]
  BY DEF Matsya!TypeOK, Txns, Steps
<1>2. SUFFICES /\ state' \in Matsya!States /\ died' \in 0 .. MaxDeaths
               /\ looked' \in BOOLEAN /\ mayFail' \in BOOLEAN /\ txn' \in [Matsya!Writers -> Txns]
  BY DEF Matsya!TypeOK, Txns, Steps
<1>3. /\ {"renew", "wait_renew", "wait_refresh", "wait_save", "refresh", "none"} \subseteq Steps
      /\ Matsya!Worker \in Matsya!Writers /\ Requests \subseteq Matsya!Writers
  BY DEF Steps, Matsya!Waiting, Matsya!Writers
<1>4. ASSUME NEW w \in Matsya!Writers
      PROVE  txn[w].read \in Matsya!States /\ txn[w].read.dated \in BOOLEAN
  BY <1>1 DEF Txns, Matsya!States
<1>5. ASSUME NEW w \in Matsya!Writers, Matsya!BeginRenew(w)
      PROVE  txn' \in [Matsya!Writers -> Txns]
  BY <1>1, <1>3, <1>5, MatsyaMovesTyped DEF Matsya!BeginRenew
<1>6. CASE Matsya!CheckAndRenew
  BY <1>1, <1>3, <1>5, <1>6 DEF Matsya!CheckAndRenew
<1>7. ASSUME NEW w \in Matsya!Writers, Matsya!TakeLock(w)
      PROVE  <1>2!1
  BY <1>1, <1>3, <1>4, <1>7, MatsyaMovesTyped DEF Matsya!TakeLock
<1>8. ASSUME NEW w \in Matsya!Writers, Matsya!RenewCommits(w)
      PROVE  <1>2!1
  <2>1. state' \in Matsya!States
    <3>1. CASE \E left \in {TokenLife, Matsya!NoExpiry} : Matsya!Upsert(left, TRUE)
      BY <3>1, UpsertTyped
    <3>2. CASE state' = [state EXCEPT !.tried = TRUE, !.err = TRUE, !.dated = @ /\ txn[w].read.dated]
      <4>1. (state.dated /\ txn[w].read.dated) \in BOOLEAN
        BY <1>1, <1>4 DEF Matsya!States
      <4> QED
        BY <1>1, <3>2, <4>1 DEF Matsya!States
    <3> QED
      BY <1>8, <3>1, <3>2 DEF Matsya!RenewCommits
  <2>2. Matsya!End(w) /\ UNCHANGED <<looked, died, mayFail>>
    BY <1>8 DEF Matsya!RenewCommits
  <2> QED
    BY <1>1, <1>3, <2>1, <2>2, NewToken, MatsyaMovesTyped
<1>9. ASSUME NEW w \in Matsya!Writers, Matsya!Dies(w)
      PROVE  <1>2!1
  <2>1. txn' \in [Matsya!Writers -> Txns]
    BY <1>1, <1>3, <1>9, NewToken, NoTxnTyped, MatsyaMovesTyped DEF Matsya!Dies
  <2>2. died < MaxDeaths /\ died' = died + 1
    BY <1>9 DEF Matsya!Dies
  <2>3. died' \in 0 .. MaxDeaths
    BY <1>1, <2>2
  <2>4. looked' \in BOOLEAN /\ mayFail' \in BOOLEAN /\ state' = state
    BY <1>1, <1>9, Zenon DEF Matsya!Dies
  <2> QED
    BY <1>1, <2>1, <2>3, <2>4
<1>10. ASSUME NEW r \in Requests, Matsya!RenewByApi(r) \/ Matsya!RefreshProfile(r)
       PROVE  <1>2!1
  BY <1>1, <1>3, <1>5, <1>10, MatsyaMovesTyped DEF Matsya!RenewByApi, Matsya!RefreshProfile
<1>11. ASSUME NEW r \in Requests, Matsya!RefreshCommits(r)
       PROVE  <1>2!1
  <2>2. state' \in Matsya!States
    BY <1>1, <1>3, <1>4, <1>11, UpdateTyped DEF Matsya!RefreshCommits
  <2>3. txn' \in [Matsya!Writers -> Txns]
    BY <1>1, <1>3, <1>4, <1>11, NewToken, MatsyaMovesTyped DEF Matsya!RefreshCommits
  <2> QED
    BY <1>1, <1>11, <2>2, <2>3 DEF Matsya!RefreshCommits
<1>12. ASSUME NEW r \in Requests, Matsya!SaveManualToken(r)
       PROVE  <1>2!1
  <2>1. state' \in Matsya!States
    <3>1. state.tried \in BOOLEAN
      BY <1>1 DEF Matsya!States
    <3> QED
      BY <1>1, <1>12, <3>1, UpsertTyped DEF Matsya!SaveManualToken
  <2>2. txn' \in [Matsya!Writers -> Txns]
    BY <1>1, <1>3, <1>12, MatsyaMovesTyped DEF Matsya!SaveManualToken
  <2> QED
    BY <1>1, <1>12, <2>1, <2>2 DEF Matsya!SaveManualToken
<1>13. CASE Matsya!Elapse
  <2>1. state.left \in Matsya!NoExpiry .. TokenLife /\ state.real \in 0 .. TokenLife
    BY <1>1 DEF Matsya!States
  <2>2. /\ Matsya!Less(state.left) \in Matsya!NoExpiry .. TokenLife
        /\ Matsya!Less(state.real) \in 0 .. TokenLife
    BY <2>1 DEF Matsya!Less, Matsya!NoExpiry
  <2> QED
    BY <1>1, <1>13, <2>2 DEF Matsya!Elapse, Matsya!States
<1> QED
  BY <1>3, <1>6, <1>7, <1>8, <1>9, <1>10, <1>11, <1>12, <1>13
  DEF Matsya!Next, Matsya!WriterStep

LEMMA StoredFirst == Init => TokensStored
<1> SUFFICES ASSUME Init PROVE TokensStored
  OBVIOUS
<1> USE Constants
<1>1. Swing!TypeOK
  <2>1. Swing!NoCall \in [to : {"none", "renew", "profile"}, saw : Swing!Rows]
    BY FreshToken DEF Swing!NoCall
  <2>2. Every \in [Swing!Loops -> Nat]
    OBVIOUS
  <2> QED
    BY <2>1, <2>2, FreshToken DEF Init, Swing!Init, Swing!TypeOK
<1>2. Matsya!TypeOK
  <2>1. txn \in [Matsya!Writers -> Txns] /\ state \in Matsya!States
    BY NewToken, NoTxnTyped DEF Init, Matsya!Init
  <2>2. died \in 0 .. MaxDeaths
    BY DEF Init, Matsya!Init
  <2>4. looked \in BOOLEAN
    BY DEF Init, Matsya!Init
  <2>3. mayFail \in BOOLEAN
    BY DEF Init, Matsya!Init
  <2> QED
    BY <2>1, <2>2, <2>3, <2>4, Zenon DEF Matsya!TypeOK, Txns, Steps
<1> QED
  BY <1>1, <1>2 DEF TokensStored

LEMMA StoredStep == TokensStored /\ [Next]_vars => TokensStored'
<1> SUFFICES ASSUME TokensStored, [Next]_vars PROVE TokensStored'
  OBVIOUS
<1>1. Swing!TypeOK /\ Matsya!TypeOK
  BY DEF TokensStored
<1>2. UNCHANGED <<row, call, due, failures>> => Swing!TypeOK'
  BY <1>1 DEF Swing!TypeOK
<1>3. UNCHANGED <<state, txn, looked, died, mayFail>> => Matsya!TypeOK'
  BY <1>1 DEF Matsya!TypeOK
<1> QED
  BY <1>1, <1>2, <1>3, SwingStepTyped, MatsyaStepTyped DEF Next, vars, TokensStored

\* What is stored of either token is a token with at most a life left, and
\* every call and transaction carries one, whoever writes over whom.
THEOREM Stored == Spec => []TokensStored
BY StoredFirst, StoredStep, PTL DEF Spec

------------------------------------------------------------------------------
(* Matsya's token does not run out while Dhan answers.                       *)

\* Between two steps of time the worker renews a token that is about to
\* expire, so none is older than one step into the window.  A refresh may
\* write back what it read before the renewal, which costs one step more of
\* the recorded life, never of the true one.  Nothing is said of a row into
\* which a token without expiry has found its way.
ReadKept(s, t) == t.at # "none" /\ t.read.dated => RenewBefore <= t.read.real /\ t.read.real <= s.real
LifeKept(s) ==
  s.dated => /\ ~s.err /\ s.left <= s.real
             /\ RenewBefore - 1 <= s.left /\ RenewBefore <= s.real
Renewable(s) == s.dated => RenewBefore < s.real /\ RenewBefore <= s.left

MatsyaKept ==
  ~mayFail => /\ LifeKept(state)
              /\ \A w \in Matsya!Writers : ReadKept(state, txn[w])
              /\ looked /\ txn[Matsya!Worker].at = "none" => Renewable(state)

LEMMA MatsyaStepKept ==
  ASSUME 2 <= RenewBefore, RenewBefore < TokenLife,
         Matsya!TypeOK, Matsya!TypeOK', MatsyaKept, Matsya!Next
  PROVE  MatsyaKept'
<1> USE Constants
<1>0. UNCHANGED mayFail
  BY DEF Matsya!Next, Matsya!WriterStep, Matsya!CheckAndRenew, Matsya!Elapse, Matsya!RenewCommits,
     Matsya!TakeLock, Matsya!Dies, Matsya!RenewByApi, Matsya!RefreshProfile,
     Matsya!RefreshCommits, Matsya!SaveManualToken
<1> SUFFICES ASSUME ~mayFail
             PROVE  /\ LifeKept(state')
                    /\ \A v \in Matsya!Writers : ReadKept(state', txn'[v])
                    /\ looked' /\ txn'[Matsya!Worker].at = "none" => Renewable(state')
  BY <1>0 DEF MatsyaKept
<1> DEFINE Kept == /\ LifeKept(state')
                   /\ \A v \in Matsya!Writers : ReadKept(state', txn'[v])
                   /\ looked' /\ txn'[Matsya!Worker].at = "none" => Renewable(state')
<1>1. /\ LifeKept(state) /\ \A v \in Matsya!Writers : ReadKept(state, txn[v])
      /\ looked /\ txn[Matsya!Worker].at = "none" => Renewable(state)
  BY DEF MatsyaKept
<1>2. /\ state \in Matsya!States /\ txn \in [Matsya!Writers -> Txns]
      /\ state' \in Matsya!States /\ txn' \in [Matsya!Writers -> Txns]
  BY DEF Matsya!TypeOK, Txns, Steps
<1>3. /\ state.left \in -1 .. TokenLife /\ state.real \in 0 .. TokenLife
      /\ state.err \in BOOLEAN /\ state.tried \in BOOLEAN /\ state.dated \in BOOLEAN
      /\ \A v \in Matsya!Writers : txn[v].read.real \in 0 .. TokenLife
  BY <1>2 DEF Txns, Matsya!States, Matsya!NoExpiry
<1>4. /\ Matsya!Worker \in Matsya!Writers /\ Requests \subseteq Matsya!Writers
      /\ Matsya!Worker \notin Requests
  BY DEF Matsya!Writers
<1>5. Matsya!NoTxn.at = "none"
  BY DEF Matsya!NoTxn
\* A writer that begins has read the row as it is.
<1>6. ASSUME NEW w \in Matsya!Writers, NEW step, Matsya!Go(w, step, state), UNCHANGED state
      PROVE  \A v \in Matsya!Writers : ReadKept(state', txn'[v])
  <2>1. state.dated => RenewBefore <= state.real
    BY <1>1 DEF LifeKept
  <2>2. ASSUME NEW v \in Matsya!Writers PROVE ReadKept(state', txn'[v])
    <3>1. txn'[v] = IF v = w THEN [at |-> step, read |-> state] ELSE txn[v]
      BY <1>2, <1>6 DEF Matsya!Go
    <3> QED
      BY <1>1, <1>3, <1>6, <2>1, <3>1 DEF ReadKept
  <2> QED
    BY <2>2
<1>7. ASSUME NEW w \in Matsya!Writers, Matsya!End(w), state'.real >= state.real
      PROVE  \A v \in Matsya!Writers : ReadKept(state', txn'[v])
  <2>1. ASSUME NEW v \in Matsya!Writers PROVE ReadKept(state', txn'[v])
    <3>1. txn'[v] = IF v = w THEN Matsya!NoTxn ELSE txn[v]
      BY <1>2, <1>7 DEF Matsya!End
    <3>2. state'.real \in Nat
      BY <1>2 DEF Matsya!States
    <3> QED
      BY <1>1, <1>3, <1>5, <1>7, <3>1, <3>2 DEF ReadKept
  <2> QED
    BY <2>1
<1>8. ASSUME NEW w \in Requests, \/ Matsya!End(w)
                                 \/ \E step \in Steps : Matsya!Go(w, step, state)
                                 \/ \E step \in Steps : Matsya!Go(w, step, txn[w].read)
      PROVE  txn'[Matsya!Worker] = txn[Matsya!Worker]
  BY <1>2, <1>4, <1>8 DEF Matsya!End, Matsya!Go
\* A fresh token, unless its expiry is not known.
<1>9. ASSUME state'.dated => state'.left = TokenLife, state'.real = TokenLife, ~state'.err
      PROVE  LifeKept(state') /\ Renewable(state') /\ state'.real >= state.real
  BY <1>3, <1>9 DEF LifeKept, Renewable
<1>10. CASE Matsya!CheckAndRenew
  <2>1. CASE Matsya!TokenState(state) = "expiring_soon"
    <3>1. Matsya!BeginRenew(Matsya!Worker) /\ UNCHANGED state
      BY <1>10, <2>1 DEF Matsya!CheckAndRenew
    <3>2. PICK step \in {"renew", "wait_renew"} : Matsya!Go(Matsya!Worker, step, state)
      BY <3>1 DEF Matsya!BeginRenew
    <3>3. txn'[Matsya!Worker].at # "none"
      BY <1>2, <1>4, <3>2 DEF Matsya!Go
    <3> QED
      BY <1>1, <1>4, <1>6, <3>1, <3>2, <3>3
  <2>2. CASE Matsya!TokenState(state) # "expiring_soon"
    <3>1. UNCHANGED <<state, txn>>
      BY <1>10, <2>2 DEF Matsya!CheckAndRenew
    <3>2. state.dated => ~state.err /\ 1 <= state.left /\ state.left <= state.real
      BY <1>1, <1>3 DEF LifeKept
    <3>3. state.dated => ~(state.left \in 1 .. RenewBefore)
      BY <1>3, <2>2, <3>2 DEF Matsya!TokenState, Matsya!NoExpiry
    <3>4. Renewable(state)
      BY <1>3, <3>2, <3>3 DEF Renewable
    <3> QED
      BY <1>1, <3>1, <3>4
  <2> QED
    BY <2>1, <2>2
<1>11. ASSUME NEW w \in Matsya!Writers, Matsya!TakeLock(w) PROVE Kept
  <2>1. /\ Matsya!Go(w, "renew", txn[w].read) /\ txn[w].at = "wait_renew"
        /\ UNCHANGED <<state, looked>>
    BY <1>11 DEF Matsya!TakeLock, Matsya!At
  <2>2. ASSUME NEW v \in Matsya!Writers
        PROVE  ReadKept(state', txn'[v]) /\ (txn'[v].at = "none" => txn[v].at = "none")
    <3>1. txn'[v] = IF v = w THEN [at |-> "renew", read |-> txn[w].read] ELSE txn[v]
      BY <1>2, <2>1 DEF Matsya!Go
    <3> QED
      BY <1>1, <2>1, <3>1 DEF ReadKept
  <2> QED
    BY <1>1, <1>4, <2>1, <2>2
<1>12. ASSUME NEW w \in Matsya!Writers, Matsya!RenewCommits(w) PROVE Kept
  <2>1. txn[w].at = "renew" /\ Matsya!End(w)
    BY <1>12 DEF Matsya!RenewCommits, Matsya!At
  <2>2. CASE \E left \in {TokenLife, Matsya!NoExpiry} : Matsya!Upsert(left, TRUE)
    <3>1. (state'.dated => state'.left = TokenLife) /\ state'.real = TokenLife /\ ~state'.err
      BY <2>2, UpsertTyped
    <3> QED
      BY <1>7, <1>9, <2>1, <3>1
\* A renewal that fails although Dhan answers was of a token that had run out.
  <2>3. CASE /\ txn[w].read.real = 0
             /\ state' = [state EXCEPT !.tried = TRUE, !.err = TRUE, !.dated = @ /\ txn[w].read.dated]
    <3>1. ~txn[w].read.dated
      BY <1>1, <2>1, <2>3 DEF ReadKept
    <3>2. ~state'.dated /\ state'.real = state.real
      BY <1>2, <2>3, <3>1 DEF Matsya!States
    <3> QED
      BY <1>3, <1>7, <2>1, <3>2 DEF LifeKept, Renewable
  <2> QED
    BY <1>12, <2>2, <2>3 DEF Matsya!RenewCommits
<1>13. ASSUME NEW w \in Matsya!Writers, Matsya!Dies(w) PROVE Kept
  <2>1. UNCHANGED state
    BY <1>13 DEF Matsya!Dies
  <2>2. ASSUME NEW v \in Matsya!Writers PROVE txn'[v] = txn[v] \/ txn'[v] = Matsya!NoTxn
    BY <1>2, <1>13, <2>2 DEF Matsya!Dies, Matsya!End
  <2>3. ASSUME NEW v \in Matsya!Writers PROVE ReadKept(state', txn'[v])
    BY <1>1, <1>5, <2>1, <2>2 DEF ReadKept
  <2>4. looked' => looked /\ txn'[Matsya!Worker] = txn[Matsya!Worker]
    BY <1>4, <1>13 DEF Matsya!Dies
  <2> QED
    BY <1>1, <2>1, <2>3, <2>4
<1>14. ASSUME NEW r \in Requests, Matsya!RenewByApi(r) \/ Matsya!RefreshProfile(r) PROVE Kept
  <2>1. UNCHANGED <<state, looked>>
    BY <1>14 DEF Matsya!RenewByApi, Matsya!RefreshProfile
  <2>2. PICK step \in {"renew", "wait_renew", "refresh"} : Matsya!Go(r, step, state)
    BY <1>14 DEF Matsya!RenewByApi, Matsya!RefreshProfile, Matsya!BeginRenew
  <2>3. txn'[Matsya!Worker] = txn[Matsya!Worker]
    BY <1>8, <2>2 DEF Steps, Matsya!Waiting
  <2> QED
    BY <1>1, <1>4, <1>6, <2>1, <2>2, <2>3
<1>15. ASSUME NEW r \in Requests, Matsya!RefreshCommits(r) PROVE Kept
  <2>0. r \in Matsya!Writers
    BY <1>4
  <2>1. txn[r].at # "none" /\ UNCHANGED looked
    BY <1>15 DEF Matsya!RefreshCommits, Matsya!At
  <2>2. /\ txn[r].read \in Matsya!States
        /\ txn[r].read.dated => /\ RenewBefore <= txn[r].read.real
                                /\ txn[r].read.real <= state.real /\ txn[r].read.real # 0
    BY <1>1, <1>2, <1>3, <2>0, <2>1 DEF ReadKept, Txns
  <2>3. CASE Matsya!Unlocked
    <3>1. Matsya!UpdateProfile(r) /\ Matsya!End(r)
      BY <1>15, <2>3 DEF Matsya!RefreshCommits
    <3>2. /\ state'.real = state.real /\ state'.dated = (state.dated /\ txn[r].read.dated)
          /\ state'.dated => state'.left \in {state.left, txn[r].read.real} /\ ~state'.err
      BY <1>2, <2>2, <3>1, UpdateTyped
    <3>3. LifeKept(state') /\ (Renewable(state) => Renewable(state'))
      <4>1. CASE ~state'.dated
        BY <4>1 DEF LifeKept, Renewable
      <4>2. CASE state'.dated
        <5>1. state.dated /\ txn[r].read.dated /\ state'.left \in {state.left, txn[r].read.real}
              /\ ~state'.err
          BY <1>2, <1>3, <3>2, <4>2 DEF Matsya!States
        <5> QED
          BY <1>1, <1>3, <2>0, <2>2, <3>2, <5>1 DEF LifeKept, Renewable
      <4> QED
        BY <4>1, <4>2
    <3>4. \A v \in Matsya!Writers : ReadKept(state', txn'[v])
      BY <1>3, <1>7, <2>0, <3>1, <3>2
    <3> QED
      BY <1>1, <1>8, <2>1, <3>1, <3>3, <3>4
  <2>4. CASE ~Matsya!Unlocked
    <3>1. UNCHANGED state /\ Matsya!Go(r, "wait_refresh", txn[r].read)
      BY <1>15, <2>4 DEF Matsya!RefreshCommits
    <3>2. ASSUME NEW v \in Matsya!Writers PROVE ReadKept(state', txn'[v])
      <4>1. txn'[v] = IF v = r THEN [at |-> "wait_refresh", read |-> txn[r].read] ELSE txn[v]
        BY <1>2, <3>1 DEF Matsya!Go
      <4> QED
        BY <1>1, <2>2, <3>1, <4>1 DEF ReadKept
    <3>3. txn'[Matsya!Worker] = txn[Matsya!Worker]
      BY <1>8, <3>1 DEF Steps, Matsya!Waiting
    <3> QED
      BY <1>1, <2>1, <3>1, <3>2, <3>3
  <2> QED
    BY <2>3, <2>4
<1>16. ASSUME NEW r \in Requests, Matsya!SaveManualToken(r) PROVE Kept
  <2>0. r \in Matsya!Writers /\ UNCHANGED looked
    BY <1>4, <1>16 DEF Matsya!SaveManualToken
  <2>1. CASE Matsya!Unlocked
    <3>1. /\ \E left \in {TokenLife, Matsya!NoExpiry} : Matsya!Upsert(left, state.tried)
          /\ Matsya!End(r)
      BY <1>16, <2>1 DEF Matsya!SaveManualToken
    <3>2. (state'.dated => state'.left = TokenLife) /\ state'.real = TokenLife /\ ~state'.err
      BY <1>3, <3>1, UpsertTyped
    <3> QED
      BY <1>7, <1>9, <2>0, <3>1, <3>2
  <2>2. CASE ~Matsya!Unlocked
    <3>1. UNCHANGED state /\ Matsya!Go(r, "wait_save", state)
      BY <1>16, <2>2 DEF Matsya!SaveManualToken
    <3>2. txn'[Matsya!Worker] = txn[Matsya!Worker]
      BY <1>8, <3>1 DEF Steps, Matsya!Waiting
    <3> QED
      BY <1>1, <1>6, <2>0, <3>1, <3>2
  <2> QED
    BY <2>1, <2>2
<1>17. CASE Matsya!Elapse
  <2>1. looked /\ ~looked' /\ txn' = txn /\ \A v \in Matsya!Writers : txn[v] = Matsya!NoTxn
    BY <1>17 DEF Matsya!Elapse
  <2>2. state.dated => /\ RenewBefore < state.real /\ RenewBefore <= state.left
                       /\ state.left <= state.real /\ ~state.err
    BY <1>1, <1>4, <1>5, <2>1 DEF LifeKept, Renewable
  <2>3. /\ state'.left = Matsya!Less(state.left) /\ state'.real = Matsya!Less(state.real)
        /\ state'.err = state.err /\ state'.dated = state.dated
    BY <1>2, <1>17 DEF Matsya!Elapse, Matsya!States
  <2>4. state.dated => state'.left = state.left - 1 /\ state'.real = state.real - 1
    BY <1>3, <2>2, <2>3 DEF Matsya!Less
  <2>5. LifeKept(state')
    BY <1>3, <2>2, <2>3, <2>4 DEF LifeKept
  <2> QED
    BY <1>5, <2>1, <2>5 DEF ReadKept
<1> QED
  BY <1>4, <1>10, <1>11, <1>12, <1>13, <1>14, <1>15, <1>16, <1>17
  DEF Matsya!Next, Matsya!WriterStep

------------------------------------------------------------------------------
(* No token that has run out is handed out.                                  *)

\* Nothing recorded, nor read to be written back, outlasts the stored token:
\* whoever replaces it stores a fresh one.
LifeTold ==
  /\ state.left <= state.real
  /\ \A w \in Matsya!Writers :
       txn[w].at # "none" => txn[w].read.left <= state.real /\ txn[w].read.real <= state.real

LEMMA LifeToldStep ==
  ASSUME Matsya!TypeOK, Matsya!TypeOK', LifeTold, Matsya!Next
  PROVE  LifeTold'
<1> USE Constants
<1>1. /\ state \in Matsya!States /\ txn \in [Matsya!Writers -> Txns]
      /\ state' \in Matsya!States /\ txn' \in [Matsya!Writers -> Txns]
  BY DEF Matsya!TypeOK, Txns, Steps
<1>2. /\ state.left \in -1 .. TokenLife /\ state.real \in 0 .. TokenLife
      /\ state'.left \in -1 .. TokenLife /\ state'.real \in 0 .. TokenLife
      /\ \A w \in Matsya!Writers : /\ txn[w].read \in Matsya!States
                                   /\ txn[w].read.left \in -1 .. TokenLife
                                   /\ txn[w].read.real \in 0 .. TokenLife
  BY <1>1 DEF Txns, Matsya!States, Matsya!NoExpiry
<1>3. Matsya!Worker \in Matsya!Writers /\ Requests \subseteq Matsya!Writers
  BY DEF Matsya!Writers
<1>4. Matsya!NoTxn.at = "none"
  BY DEF Matsya!NoTxn
\* The row stays or is replaced by a fresh token, and each transaction ends,
\* goes on with what it had read, or begins with the row.
<1>5. ASSUME state'.left <= state'.real, state.real <= state'.real,
             NEW w \in Matsya!Writers,
             \/ txn' = txn
             \/ Matsya!End(w)
             \/ txn' = [u \in Matsya!Writers |-> IF u \in Requests THEN Matsya!NoTxn ELSE txn[u]]
             \/ state' = state /\ \E step \in Steps : Matsya!Go(w, step, state)
             \/ txn[w].at # "none" /\ \E step \in Steps : Matsya!Go(w, step, txn[w].read)
      PROVE  LifeTold'
  <2> SUFFICES ASSUME NEW v \in Matsya!Writers, txn'[v].at # "none"
               PROVE  txn'[v].read.left <= state'.real /\ txn'[v].read.real <= state'.real
    BY <1>5 DEF LifeTold
  <2>1. \/ txn'[v] = Matsya!NoTxn
        \/ txn'[v] = txn[v]
        \/ v = w /\ txn[w].at # "none" /\ txn'[v].read = txn[w].read
        \/ state' = state /\ txn'[v].read = state
    BY <1>1, <1>5 DEF Matsya!End, Matsya!Go
  <2> QED
    BY <1>2, <1>4, <1>5, <2>1 DEF LifeTold
<1>6. state.left <= state.real
  BY DEF LifeTold
<1>7. {"renew", "wait_renew", "wait_refresh", "wait_save", "refresh"} \subseteq Steps
  BY DEF Steps, Matsya!Waiting
<1>8. ASSUME NEW left \in {TokenLife, Matsya!NoExpiry}, NEW attempted \in BOOLEAN,
             Matsya!Upsert(left, attempted)
      PROVE  state'.left <= state'.real /\ state.real <= state'.real
  BY <1>2, <1>8, UpsertTyped DEF Matsya!NoExpiry
<1>9. ASSUME NEW w \in Matsya!Writers, Matsya!BeginRenew(w), UNCHANGED state PROVE LifeTold'
  BY <1>2, <1>5, <1>6, <1>7, <1>9 DEF Matsya!BeginRenew
<1>10. CASE Matsya!CheckAndRenew
  <2>1. UNCHANGED state /\ (UNCHANGED txn \/ Matsya!BeginRenew(Matsya!Worker))
    BY <1>10 DEF Matsya!CheckAndRenew
  <2> QED
    BY <1>2, <1>3, <1>5, <1>6, <1>9, <2>1
<1>11. ASSUME NEW w \in Matsya!Writers, Matsya!TakeLock(w) PROVE LifeTold'
  BY <1>2, <1>5, <1>6, <1>7, <1>11 DEF Matsya!TakeLock, Matsya!At
<1>12. ASSUME NEW w \in Matsya!Writers, Matsya!RenewCommits(w) PROVE LifeTold'
  <2>1. Matsya!End(w)
    BY <1>12 DEF Matsya!RenewCommits
  <2>2. state'.left <= state'.real /\ state.real <= state'.real
    <3>1. CASE \E left \in {TokenLife, Matsya!NoExpiry} : Matsya!Upsert(left, TRUE)
      BY <1>8, <3>1
    <3>2. CASE state' = [state EXCEPT !.tried = TRUE, !.err = TRUE, !.dated = @ /\ txn[w].read.dated]
      BY <1>1, <1>2, <1>6, <3>2 DEF Matsya!States
    <3> QED
      BY <1>12, <3>1, <3>2 DEF Matsya!RenewCommits
  <2> QED
    BY <1>5, <2>1, <2>2
<1>13. ASSUME NEW w \in Matsya!Writers, Matsya!Dies(w) PROVE LifeTold'
  BY <1>2, <1>5, <1>6, <1>13 DEF Matsya!Dies
<1>14. ASSUME NEW r \in Requests, Matsya!RenewByApi(r) \/ Matsya!RefreshProfile(r) PROVE LifeTold'
  BY <1>2, <1>3, <1>5, <1>6, <1>7, <1>9, <1>14 DEF Matsya!RenewByApi, Matsya!RefreshProfile
<1>15. ASSUME NEW r \in Requests, Matsya!RefreshCommits(r) PROVE LifeTold'
  <2>1. txn[r].at # "none" /\ r \in Matsya!Writers
    BY <1>3, <1>15 DEF Matsya!RefreshCommits, Matsya!At
  <2>2. CASE Matsya!UpdateProfile(r) /\ Matsya!End(r)
    <3>1. state'.real = state.real /\ state'.left \in {state.left, txn[r].read.real, txn[r].read.left}
      BY <1>1, <1>2, <2>1, <2>2, UpdateTyped
    <3>2. state'.left <= state'.real /\ state.real <= state'.real
      BY <1>2, <1>6, <2>1, <3>1 DEF LifeTold
    <3> QED
      BY <1>5, <2>1, <2>2, <3>2
  <2>3. CASE UNCHANGED state /\ Matsya!Go(r, "wait_refresh", txn[r].read)
    BY <1>2, <1>5, <1>6, <1>7, <2>1, <2>3
  <2> QED
    BY <1>15, <2>2, <2>3 DEF Matsya!RefreshCommits
<1>16. ASSUME NEW r \in Requests, Matsya!SaveManualToken(r) PROVE LifeTold'
  <2>1. r \in Matsya!Writers /\ state.tried \in BOOLEAN
    BY <1>1, <1>3 DEF Matsya!States
  <2>2. \/ /\ Matsya!End(r)
           /\ \E left \in {TokenLife, Matsya!NoExpiry} : Matsya!Upsert(left, state.tried)
        \/ UNCHANGED state /\ Matsya!Go(r, "wait_save", state)
    BY <1>16 DEF Matsya!SaveManualToken
  <2> QED
    BY <1>2, <1>5, <1>6, <1>7, <1>8, <2>1, <2>2
<1>17. CASE Matsya!Elapse
  <2>1. txn' = txn /\ \A w \in Matsya!Writers : txn[w] = Matsya!NoTxn
    BY <1>17 DEF Matsya!Elapse
  <2>2. state'.left = Matsya!Less(state.left) /\ state'.real = Matsya!Less(state.real)
    BY <1>1, <1>17 DEF Matsya!Elapse, Matsya!States
  <2>3. state'.left <= state'.real
    BY <1>2, <1>6, <2>2 DEF Matsya!Less
  <2> QED
    BY <1>4, <2>1, <2>3 DEF LifeTold
<1> QED
  BY <1>3, <1>10, <1>11, <1>12, <1>13, <1>14, <1>15, <1>16, <1>17
  DEF Matsya!Next, Matsya!WriterStep

\* Whatever fails, dies or leaves an expiry out, the market-data worker is
\* never given a token of Matsya that has run out: for every life, window and
\* number of requests.
THEOREM OnlyLive == Spec => []OnlyLiveTokens
<1> USE Constants
<1>1. Init => TokensStored /\ LifeTold
  <2> SUFFICES ASSUME Init PROVE TokensStored /\ LifeTold
    OBVIOUS
  <2>1. state = Matsya!New /\ \A w \in Matsya!Writers : txn[w].at = "none"
    BY DEF Init, Matsya!Init, Matsya!NoTxn
  <2> QED
    BY <2>1, StoredFirst DEF LifeTold, Matsya!New
<1>2. TokensStored /\ LifeTold /\ [Next]_vars => (TokensStored /\ LifeTold)'
  <2> SUFFICES ASSUME TokensStored, LifeTold, [Next]_vars PROVE TokensStored' /\ LifeTold'
    OBVIOUS
  <2>1. TokensStored' /\ Matsya!TypeOK /\ Matsya!TypeOK'
    BY StoredStep DEF TokensStored
  <2>2. UNCHANGED <<state, txn, looked, died, mayFail>> => LifeTold'
    BY DEF LifeTold
  <2> QED
    BY <2>1, <2>2, LifeToldStep DEF Next, vars
<1>3. TokensStored /\ LifeTold => OnlyLiveTokens
  <2> SUFFICES ASSUME TokensStored, LifeTold PROVE Matsya!OnlyLiveTokens
    BY DEF OnlyLiveTokens
  <2>1. /\ state.left \in -1 .. TokenLife /\ state.real \in 0 .. TokenLife
        /\ state.left <= state.real
    BY DEF TokensStored, Matsya!TypeOK, Matsya!States, Matsya!NoExpiry, LifeTold
  <2>2. Matsya!LiveMarketCredentials(state) => state.left # 0 /\ state.left # -1
    BY DEF Matsya!LiveMarketCredentials, Matsya!TokenState, Matsya!NoExpiry
  <2> QED
    BY <2>1, <2>2 DEF Matsya!OnlyLiveTokens
<1> QED
  BY <1>1, <1>2, <1>3, PTL DEF Spec

------------------------------------------------------------------------------
(* The swing token does not run out while the window has room for the calls *)
(* that fail: one look of a loop for each, one for a row that comes back    *)
(* out of date, and one that renews.                                        *)

Roomy(l) == Every[l] * (MaxFailures + 2) <= Before /\ Before < Life

\* What the failures still to come may cost, in steps.
Spare(l) == Every[l] * (MaxFailures - failures)

LEMMA SpareFacts ==
  ASSUME NEW l \in Swing!Loops, Roomy(l), Swing!TypeOK, Swing!TypeOK'
  PROVE  /\ Spare(l) \in Nat /\ Spare(l)' \in Nat /\ Every[l] \in Nat \ {0}
         /\ Spare(l) + Every[l] + Every[l] <= Before
         /\ Spare(l)' + Every[l] + Every[l] <= Before
         /\ failures' = failures => Spare(l)' = Spare(l)
         /\ failures' = failures + 1 => Spare(l)' + Every[l] = Spare(l)
<1> USE Constants
<1>1. /\ Every[l] \in Nat \ {0} /\ failures \in 0 .. MaxFailures /\ failures' \in 0 .. MaxFailures
  BY DEF Swing!TypeOK
<1> DEFINE e == Every[l]
<1>2. \A n \in 0 .. MaxFailures : /\ e * (MaxFailures - n) \in Nat
                                  /\ e * (MaxFailures - n) + e + e <= e * (MaxFailures + 2)
  <2> SUFFICES ASSUME NEW n \in 0 .. MaxFailures
               PROVE  /\ e * (MaxFailures - n) \in Nat
                      /\ e * (MaxFailures - n) + e + e <= e * (MaxFailures + 2)
    OBVIOUS
  <2>1. e \in Nat /\ n \in Nat /\ MaxFailures - n \in Nat
    BY <1>1
  <2>2. e * n \in Nat /\ e * (MaxFailures - n) \in Nat
    BY <2>1
  <2>3. e * (MaxFailures + 2) = e * (MaxFailures - n) + e * n + e + e
    BY <2>1
  <2> QED
    BY <2>1, <2>2, <2>3
<1>3. failures + 1 <= MaxFailures => e * (MaxFailures - (failures + 1)) + e = e * (MaxFailures - failures)
  BY <1>1
<1>4. e * (MaxFailures + 2) <= Before /\ e * (MaxFailures + 2) \in Nat
  BY <1>1 DEF Roomy
<1>5. ASSUME NEW n \in 0 .. MaxFailures
      PROVE  e * (MaxFailures - n) \in Nat /\ e * (MaxFailures - n) + e + e <= Before
  <2>1. e * (MaxFailures - n) \in Nat /\ e * (MaxFailures - n) + e + e <= e * (MaxFailures + 2)
    BY <1>2
  <2> QED
    BY <1>1, <1>4, <2>1
<1>6. Spare(l) = e * (MaxFailures - failures) /\ Spare(l)' = e * (MaxFailures - failures')
  BY DEF Spare
<1>7. /\ Spare(l) \in Nat /\ Spare(l) + e + e <= Before
      /\ Spare(l)' \in Nat /\ Spare(l)' + e + e <= Before
  BY <1>1, <1>5, <1>6
<1>8. failures' = failures => Spare(l)' = Spare(l)
  BY <1>6
<1>9. ASSUME failures' = failures + 1 PROVE Spare(l)' + e = Spare(l)
  <2>1. failures + 1 <= MaxFailures
    BY <1>1, <1>9
  <2> QED
    BY <1>3, <1>6, <1>9, <2>1
<1> QED
  BY <1>1, <1>7, <1>8, <1>9

\* The recorded life is at most the true one; inside the window both outlast
\* the next look of the loop l and the failures still to come, the true one
\* by an interval more, since a row written late may hide a renewal from it.
RowKept(r, d, s, e) ==
  /\ r.left <= r.real
  /\ r.left \in 0 .. Before => d + s < r.left
  /\ r.left <= Before => d + s + e < r.real
\* What a loop asks the profile of is the token it has just renewed; the row
\* is that token's, though its recorded life may be older.
LoopKept(r, c, s, e) ==
  c.to = "profile" => /\ c.saw.left \in {Life, Swing!NoExpiry} /\ c.saw.real = Life
                      /\ r.real = Life /\ (r.left \in 0 .. Before => s + e < r.left)
\* What the user asks the profile of is the row, or a token was issued since.
UserKept(r, c, s, e) ==
  c.to = "profile" => /\ r.real = Life \/ (r.left = c.saw.left /\ r.real = c.saw.real)
                      /\ c.saw.left <= c.saw.real /\ s + e < c.saw.real
                      /\ c.saw.left # Swing!NoExpiry => s < c.saw.left

SwingKept(l) ==
  /\ due[l] <= Every[l] /\ RowKept(row, due[l], Spare(l), Every[l])
  /\ \A p \in Swing!Loops : LoopKept(row, call[p], Spare(l), Every[l])
  /\ UserKept(row, call[Swing!User], Spare(l), Every[l])

\* A fresh token, or one saved without its expiry, is far from running out.
LEMMA FreshKept ==
  ASSUME NEW l \in Swing!Loops, Roomy(l), Swing!TypeOK, Swing!TypeOK', NEW d \in 0 .. Every[l],
         NEW r \in Swing!Rows, r.real = Life, r.left \in {Life, Swing!NoExpiry}
  PROVE  RowKept(r, d, Spare(l)', Every[l])
<1> USE Constants
<1>1. Spare(l)' \in Nat /\ Every[l] \in Nat /\ Spare(l)' + Every[l] + Every[l] <= Before
      /\ Before < Life
  BY SpareFacts DEF Roomy
<1> HIDE DEF Spare
<1> QED
  BY <1>1 DEF RowKept, Swing!NoExpiry

\* Who else calls stays as he was.
LEMMA OthersCall ==
  ASSUME NEW p \in Swing!Procs, NEW q \in Swing!Procs, p # q, Swing!TypeOK,
         \/ Swing!Return(p)
         \/ \E what \in {"renew", "profile"} : \E r \in Swing!Rows : Swing!Ask(p, what, r)
  PROVE  call'[q] = call[q]
BY DEF Swing!Return, Swing!Ask, Swing!TypeOK

\* A loop that returns looks again one interval later, another does not count.
LEMMA ReturnDue ==
  ASSUME NEW l \in Swing!Loops, NEW p \in Swing!Procs, Swing!TypeOK, Swing!Return(p)
  PROVE  /\ call'[p].to = "none" /\ due'[l] \in {due[l], Every[l]}
         /\ p # l => due'[l] = due[l]
BY Constants DEF Swing!Return, Swing!TypeOK, Swing!NoCall

------------------------------------------------------------------------------
\* Each process has its calls looked at after its own step.
LEMMA CallsKept ==
  ASSUME NEW l \in Swing!Loops, NEW p \in Swing!Procs, NEW s, NEW e, NEW r,
         \A q \in Swing!Procs \ {p} : call'[q] = call[q],
         \A q \in Swing!Loops \ {p} : LoopKept(r, call[q], s, e),
         p # Swing!User => UserKept(r, call[Swing!User], s, e),
         p \in Swing!Loops => LoopKept(r, call'[p], s, e),
         p = Swing!User => UserKept(r, call'[p], s, e)
  PROVE  /\ \A q \in Swing!Loops : LoopKept(r, call'[q], s, e)
         /\ UserKept(r, call'[Swing!User], s, e)
<1>1. ASSUME NEW q \in Swing!Loops PROVE LoopKept(r, call'[q], s, e)
  <2>1. CASE q = p
    BY <2>1
  <2>2. CASE q # p
    BY <2>2 DEF Swing!Procs
  <2> QED
    BY <2>1, <2>2
<1>2. UserKept(r, call'[Swing!User], s, e)
  <2>1. CASE p = Swing!User
    BY <2>1
  <2>2. CASE p # Swing!User
    BY <2>2 DEF Swing!Procs
  <2> QED
    BY <2>1, <2>2
<1> QED
  BY <1>1, <1>2

\* A row renewed in this step of time, or one unchanged, breaks no call's tie
\* to it; a failure leaves less to come.
LEMMA TiesKept ==
  ASSUME NEW l \in Swing!Loops, Roomy(l), Swing!TypeOK, Swing!TypeOK',
         failures' \in {failures, failures + 1},
         \/ row'.real = Life /\ row'.left \in {Life, Swing!NoExpiry, row.left}
         \/ row'.left = row.left /\ row'.real = row.real
  PROVE  /\ \A q \in Swing!Loops : LoopKept(row, call[q], Spare(l), Every[l])
                                 => LoopKept(row', call[q], Spare(l)', Every[l])
         /\ UserKept(row, call[Swing!User], Spare(l), Every[l])
              => UserKept(row', call[Swing!User], Spare(l)', Every[l])
<1>1. /\ Spare(l)' \in Nat /\ Spare(l) \in Nat /\ Every[l] \in Nat /\ Spare(l)' <= Spare(l)
      /\ Before < Life /\ row.left \in Int
  BY SpareFacts DEF Roomy, Swing!TypeOK, Swing!Rows, Swing!NoExpiry
<1>2. /\ call[Swing!User].saw.real \in Nat /\ call[Swing!User].saw.left \in Int
  BY CallTyped DEF Swing!Procs
<1> HIDE DEF Spare
<1>3. \A q \in Swing!Loops : LoopKept(row, call[q], Spare(l), Every[l])
                          => LoopKept(row', call[q], Spare(l)', Every[l])
  BY Constants, <1>1 DEF LoopKept, Swing!NoExpiry
<1>4. UserKept(row, call[Swing!User], Spare(l), Every[l])
        => UserKept(row', call[Swing!User], Spare(l)', Every[l])
  BY <1>1, <1>2 DEF UserKept
<1> QED
  BY <1>3, <1>4

LEMMA SwingLooks ==
  ASSUME NEW l \in Swing!Loops, Roomy(l), Swing!TypeOK, Swing!TypeOK', SwingKept(l),
         NEW p \in Swing!Procs, NEW force \in BOOLEAN,
         force \/ p \in Swing!Loops, ~force \/ p = Swing!User,
         Swing!RenewIfNeeded(p, force)
  PROVE  SwingKept(l)'
<1> USE Constants
<1>1. /\ due[l] <= Every[l] /\ RowKept(row, due[l], Spare(l), Every[l])
      /\ \A q \in Swing!Loops : LoopKept(row, call[q], Spare(l), Every[l])
      /\ UserKept(row, call[Swing!User], Spare(l), Every[l])
  BY DEF SwingKept
<1>2. /\ row \in Swing!Rows /\ row' \in Swing!Rows /\ row'.left = row.left /\ row'.real = row.real
      /\ failures' = failures
  BY DEF Swing!RenewIfNeeded, Swing!TypeOK, Swing!Rows
<1>3. Spare(l)' = Spare(l) /\ Spare(l) \in Nat /\ Every[l] \in Nat /\ due[l] \in Nat
  BY <1>2, SpareFacts DEF Swing!TypeOK
<1> HIDE DEF Spare
<1>4. row.left # 0 /\ row.left \in Swing!NoExpiry .. Life
  BY <1>1, <1>2, <1>3 DEF RowKept, Swing!Rows
<1>5. call'[p].to # "profile" /\ \A q \in Swing!Procs \ {p} : call'[q] = call[q]
  <2>1. Swing!Return(p) \/ Swing!Ask(p, "renew", row')
    BY DEF Swing!RenewIfNeeded
  <2>2. call'[p].to # "profile"
    BY <2>1 DEF Swing!Return, Swing!Ask, Swing!NoCall, Swing!TypeOK
  <2> QED
    BY <1>2, <2>1, <2>2, OthersCall
<1>6. /\ \A q \in Swing!Loops : LoopKept(row', call'[q], Spare(l)', Every[l])
      /\ UserKept(row', call'[Swing!User], Spare(l)', Every[l])
  <2>1. /\ \A q \in Swing!Loops : LoopKept(row', call[q], Spare(l)', Every[l])
        /\ UserKept(row', call[Swing!User], Spare(l)', Every[l])
    BY <1>1, <1>2, TiesKept
  <2>2. LoopKept(row', call'[p], Spare(l)', Every[l]) /\ UserKept(row', call'[p], Spare(l)', Every[l])
    BY <1>5 DEF LoopKept, UserKept
  <2> QED
    BY <1>5, <2>1, <2>2, CallsKept
<1>7. CASE UNCHANGED due
  BY <1>1, <1>2, <1>3, <1>6, <1>7 DEF SwingKept, RowKept
<1>8. CASE Swing!Return(p) /\ ~force
  <2>1. ~Swing!NeedsRenewal(row)
    <3>1. ~(Swing!State(row) # "expired" /\ Swing!NeedsRenewal(row)) \/ UNCHANGED due
      BY <1>8 DEF Swing!RenewIfNeeded
    <3>2. Swing!State(row) # "expired"
      BY <1>4 DEF Swing!State
    <3>3. CASE UNCHANGED due /\ Swing!State(row) # "expired" /\ Swing!NeedsRenewal(row)
      <4>1. Swing!Ask(p, "renew", row')
        BY <3>3 DEF Swing!RenewIfNeeded
      <4> QED
        BY <1>8, <4>1 DEF Swing!Ask, Swing!Return, Swing!NoCall, Swing!TypeOK
    <3> QED
      BY <1>8, <3>1, <3>2, <3>3 DEF Swing!RenewIfNeeded
  <2>2. Before < row.left
    BY <1>4, <2>1 DEF Swing!NeedsRenewal, Swing!NoExpiry
  <2>3. due'[l] <= Every[l]
    BY <1>1, <1>3, <1>8, ReturnDue
  <2>4. RowKept(row', due'[l], Spare(l)', Every[l])
    BY <1>1, <1>2, <1>4, <2>2 DEF RowKept, Swing!NoExpiry
  <2> QED
    BY <1>6, <2>3, <2>4 DEF SwingKept
<1> QED
  BY <1>7, <1>8 DEF Swing!RenewIfNeeded

LEMMA SwingRenews ==
  ASSUME NEW l \in Swing!Loops, Roomy(l), Swing!TypeOK, Swing!TypeOK', SwingKept(l),
         NEW p \in Swing!Procs, Swing!Renewed(p)
  PROVE  SwingKept(l)'
<1> USE Constants
<1>1. /\ due[l] <= Every[l]
      /\ \A q \in Swing!Loops : LoopKept(row, call[q], Spare(l), Every[l])
      /\ UserKept(row, call[Swing!User], Spare(l), Every[l])
  BY DEF SwingKept
<1>2. /\ row' \in Swing!Rows /\ row'.left \in {Life, Swing!NoExpiry} /\ row'.real = Life
      /\ failures' = failures /\ UNCHANGED due /\ Swing!Ask(p, "profile", row')
  BY DEF Swing!Renewed, Swing!TypeOK, Swing!Rows
<1>3. /\ Spare(l)' \in Nat /\ Spare(l)' + Every[l] + Every[l] <= Before /\ Before < Life
      /\ Every[l] \in Nat /\ due[l] \in 0 .. Every[l]
  BY <1>1, SpareFacts DEF Roomy, Swing!TypeOK
<1> HIDE DEF Spare
<1>4. RowKept(row', due'[l], Spare(l)', Every[l])
  BY <1>2, <1>3, FreshKept
<1>5. /\ call'[p] = [to |-> "profile", saw |-> row']
      /\ \A q \in Swing!Procs \ {p} : call'[q] = call[q]
  BY <1>2, OthersCall DEF Swing!Ask, Swing!TypeOK
<1>6. LoopKept(row', call'[p], Spare(l)', Every[l]) /\ UserKept(row', call'[p], Spare(l)', Every[l])
  BY <1>2, <1>3, <1>5 DEF LoopKept, UserKept, Swing!NoExpiry
<1>7. /\ \A q \in Swing!Loops : LoopKept(row', call'[q], Spare(l)', Every[l])
      /\ UserKept(row', call'[Swing!User], Spare(l)', Every[l])
  BY <1>1, <1>2, <1>5, <1>6, TiesKept, CallsKept
<1> QED
  BY <1>1, <1>2, <1>4, <1>7 DEF SwingKept

\* A call that fails has used up one of the failures to come: it pays for the
\* interval until the loop looks again.
LEMMA SwingRenewalFails ==
  ASSUME NEW l \in Swing!Loops, Roomy(l), Swing!TypeOK, Swing!TypeOK', SwingKept(l),
         NEW p \in Swing!Procs, Swing!RenewalFails(p)
  PROVE  SwingKept(l)'
<1> USE Constants
<1>1. /\ due[l] <= Every[l] /\ RowKept(row, due[l], Spare(l), Every[l])
      /\ \A q \in Swing!Loops : LoopKept(row, call[q], Spare(l), Every[l])
      /\ UserKept(row, call[Swing!User], Spare(l), Every[l])
  BY DEF SwingKept
<1>2. /\ row \in Swing!Rows /\ row'.left = row.left /\ row'.real = row.real
      /\ failures' = failures + 1 /\ Swing!Return(p)
  BY DEF Swing!RenewalFails, Swing!TypeOK, Swing!Rows
<1>3. /\ Spare(l)' + Every[l] = Spare(l) /\ Spare(l)' \in Nat /\ Spare(l) \in Nat
      /\ Every[l] \in Nat /\ due[l] \in Nat
  BY <1>2, SpareFacts DEF Swing!TypeOK
<1> HIDE DEF Spare
<1>4. /\ call'[p].to = "none" /\ due'[l] \in {due[l], Every[l]}
      /\ \A q \in Swing!Procs \ {p} : call'[q] = call[q]
  BY <1>2, ReturnDue, OthersCall
<1>5. RowKept(row', due'[l], Spare(l)', Every[l])
  <2>1. row.left \in Swing!NoExpiry .. Life /\ row.real \in Nat
    BY <1>2 DEF Swing!Rows
  <2>2. row.left \in Int
    BY <2>1 DEF Swing!NoExpiry
  <2> QED
    BY <1>1, <1>2, <1>3, <1>4, <2>1, <2>2 DEF RowKept
<1>6. LoopKept(row', call'[p], Spare(l)', Every[l]) /\ UserKept(row', call'[p], Spare(l)', Every[l])
  BY <1>4 DEF LoopKept, UserKept
<1>7. /\ \A q \in Swing!Loops : LoopKept(row', call'[q], Spare(l)', Every[l])
      /\ UserKept(row', call'[Swing!User], Spare(l)', Every[l])
  BY <1>1, <1>2, <1>4, <1>6, TiesKept, CallsKept
<1>8. due'[l] <= Every[l]
  BY <1>1, <1>3, <1>4
<1> QED
  BY <1>5, <1>7, <1>8 DEF SwingKept

\* What a profile call brings back: of a loop a fresh token; of the user the
\* row as it is, or what it was earlier in this step of time.
LEMMA SwingProfile ==
  ASSUME NEW l \in Swing!Loops, Roomy(l), Swing!TypeOK, Swing!TypeOK', SwingKept(l),
         NEW p \in Swing!Procs, Swing!ProfileArrives(p) \/ Swing!ProfileFails(p)
  PROVE  SwingKept(l)'
<1> USE Constants
<1> DEFINE c == call[p]
<1>1. /\ due[l] <= Every[l] /\ RowKept(row, due[l], Spare(l), Every[l])
      /\ \A q \in Swing!Loops : LoopKept(row, call[q], Spare(l), Every[l])
      /\ UserKept(row, call[Swing!User], Spare(l), Every[l])
  BY DEF SwingKept
<1>2. /\ row \in Swing!Rows /\ row' \in Swing!Rows /\ row'.real = row.real
      /\ Swing!Return(p) /\ c.to = "profile"
  BY DEF Swing!ProfileArrives, Swing!ProfileFails, Swing!TypeOK, Swing!Rows
<1>3. \/ row'.left \in {c.saw.real, row.left} /\ failures' = failures
      \/ /\ row'.left = IF c.saw.left = Swing!NoExpiry THEN row.left ELSE c.saw.left
         /\ failures' = failures + 1
  <2>1. CASE Swing!ProfileArrives(p)
    <3>1. PICK plan \in BOOLEAN, left \in {c.saw.real, row.left} :
            row' = [row EXCEPT !.left = left, !.plan = plan, !.err = FALSE]
      BY <2>1 DEF Swing!ProfileArrives
    <3> QED
      BY <1>2, <2>1, <3>1 DEF Swing!ProfileArrives, Swing!Rows
  <2>2. CASE Swing!ProfileFails(p)
    <3>1. row' = [row EXCEPT !.left = IF c.saw.left = Swing!NoExpiry THEN row.left ELSE c.saw.left,
                             !.plan = c.saw.plan, !.err = TRUE]
      BY <2>2 DEF Swing!ProfileFails
    <3> QED
      BY <1>2, <2>2, <3>1 DEF Swing!ProfileFails, Swing!Rows
  <2> QED
    BY <2>1, <2>2
<1>4. /\ Spare(l)' \in Nat /\ Spare(l) \in Nat /\ Every[l] \in Nat \ {0} /\ due[l] \in Nat
      /\ Spare(l)' + Every[l] + Every[l] <= Before /\ Before < Life
      /\ failures' = failures => Spare(l)' = Spare(l)
      /\ failures' = failures + 1 => Spare(l)' + Every[l] = Spare(l)
  BY SpareFacts DEF Roomy, Swing!TypeOK
<1> HIDE DEF Spare
<1>5. /\ row.left \in -1 .. Life /\ row.real \in 0 .. Life
      /\ c.saw.left \in -1 .. Life /\ c.saw.real \in 0 .. Life
  BY <1>2, CallTyped DEF Swing!Rows, Swing!NoExpiry
<1>6. /\ call'[p].to = "none" /\ due'[l] \in {due[l], Every[l]}
      /\ p # l => due'[l] = due[l]
      /\ \A q \in Swing!Procs \ {p} : call'[q] = call[q]
  BY <1>2, ReturnDue, OthersCall
<1>7. due'[l] <= Every[l] /\ due'[l] \in Nat
  BY <1>1, <1>4, <1>6
\* Whoever still calls is tied to a fresh token, or it is the user who returns.
<1>8. /\ \A q \in Swing!Loops \ {p} : LoopKept(row', call[q], Spare(l)', Every[l])
      /\ p # Swing!User => UserKept(row', call[Swing!User], Spare(l)', Every[l])
      /\ RowKept(row', due'[l], Spare(l)', Every[l])
  <2>1. CASE p \in Swing!Loops
    <3>1. /\ c.saw.left \in {Life, Swing!NoExpiry} /\ c.saw.real = Life /\ row.real = Life
          /\ row.left \in 0 .. Before => Spare(l) + Every[l] < row.left
      BY <1>1, <1>2, <2>1 DEF LoopKept
    <3>2. row'.left \in {Life, Swing!NoExpiry, row.left} /\ row'.real = Life
      BY <1>2, <1>3, <3>1
    <3>3. Spare(l)' <= Spare(l)
      BY <1>3, <1>4
    <3>4. RowKept(row', due'[l], Spare(l)', Every[l])
      BY <1>4, <1>5, <1>7, <3>1, <3>2, <3>3 DEF RowKept, Swing!NoExpiry
    <3>5. p # Swing!User
      BY <2>1 DEF Swing!User, Swing!Loops
    <3> QED
      BY <1>1, <1>3, <3>2, <3>4, <3>5, TiesKept
  <2>2. CASE p = Swing!User
    <3>1. /\ row.real = Life \/ (row.left = c.saw.left /\ row.real = c.saw.real)
          /\ c.saw.left <= c.saw.real /\ Spare(l) + Every[l] < c.saw.real
          /\ c.saw.left # Swing!NoExpiry => Spare(l) < c.saw.left
      BY <1>1, <1>2, <2>2 DEF UserKept
    <3>2. \A q \in Swing!Loops : LoopKept(row', call[q], Spare(l)', Every[l])
      BY <1>1, <1>2, <1>3, <1>4, <1>5, <3>1 DEF LoopKept, Swing!NoExpiry
    <3>3. due'[l] = due[l]
      BY <1>6, <2>2 DEF Swing!User, Swing!Loops
    <3>4. /\ row.left <= row.real
          /\ row.left \in 0 .. Before => due[l] + Spare(l) < row.left
          /\ row.left <= Before => due[l] + Spare(l) + Every[l] < row.real
      BY <1>1 DEF RowKept
    <3>5. /\ row'.left <= row.real
          /\ row'.left \in 0 .. Before => due[l] + Spare(l)' < row'.left
          /\ row'.left <= Before => due[l] + Spare(l)' + Every[l] < row.real
      <4>1. CASE row'.left \in {c.saw.real, row.left} /\ failures' = failures
        <5>1. Spare(l)' = Spare(l)
          BY <1>4, <4>1
        <5>2. CASE row'.left = row.left
          BY <1>4, <1>5, <3>4, <5>1, <5>2
        <5>3. CASE row'.left = c.saw.real /\ row.real = Life
          BY <1>1, <1>4, <1>5, <3>1, <5>1, <5>3
        <5>4. CASE row'.left = c.saw.real /\ row.left = c.saw.left /\ row.real = c.saw.real
          BY <1>1, <1>4, <1>5, <3>1, <3>4, <5>1, <5>4
        <5> QED
          BY <3>1, <4>1, <5>2, <5>3, <5>4
      <4>2. CASE /\ row'.left = IF c.saw.left = Swing!NoExpiry THEN row.left ELSE c.saw.left
                 /\ failures' = failures + 1
        <5>1. Spare(l)' + Every[l] = Spare(l)
          BY <1>4, <4>2
        <5>2. CASE row'.left = row.left
          BY <1>4, <1>5, <3>4, <5>1, <5>2
        <5>3. CASE row'.left = c.saw.left /\ c.saw.left # Swing!NoExpiry /\ row.real = Life
          BY <1>1, <1>4, <1>5, <3>1, <5>1, <5>3
        <5> QED
          BY <3>1, <4>2, <5>2, <5>3
      <4> QED
        BY <1>3, <4>1, <4>2
    <3>6. RowKept(row', due'[l], Spare(l)', Every[l])
      BY <1>2, <3>3, <3>5 DEF RowKept
    <3> QED
      BY <2>2, <3>2, <3>6
  <2> QED
    BY <2>1, <2>2 DEF Swing!Procs
<1>9. LoopKept(row', call'[p], Spare(l)', Every[l]) /\ UserKept(row', call'[p], Spare(l)', Every[l])
  BY <1>6 DEF LoopKept, UserKept
<1>10. /\ \A q \in Swing!Loops : LoopKept(row', call'[q], Spare(l)', Every[l])
       /\ UserKept(row', call'[Swing!User], Spare(l)', Every[l])
  BY <1>6, <1>8, <1>9, CallsKept
<1> QED
  BY <1>7, <1>8, <1>10 DEF SwingKept

LEMMA SwingUser ==
  ASSUME NEW l \in Swing!Loops, Roomy(l), Swing!TypeOK, Swing!TypeOK', SwingKept(l),
         Swing!SaveManualToken \/ Swing!RefreshProfile
  PROVE  SwingKept(l)'
<1> USE Constants
<1>1. /\ due[l] <= Every[l] /\ RowKept(row, due[l], Spare(l), Every[l])
      /\ \A q \in Swing!Loops : LoopKept(row, call[q], Spare(l), Every[l])
      /\ UserKept(row, call[Swing!User], Spare(l), Every[l])
  BY DEF SwingKept
<1>2. /\ row \in Swing!Rows /\ row' \in Swing!Rows
      /\ UNCHANGED due /\ failures' = failures
  BY DEF Swing!SaveManualToken, Swing!RefreshProfile, Swing!TypeOK
<1>3. /\ Spare(l)' = Spare(l) /\ Spare(l) \in Nat /\ Every[l] \in Nat \ {0} /\ due[l] \in Nat
      /\ Spare(l) + Every[l] + Every[l] <= Before /\ Before < Life
  BY <1>2, SpareFacts DEF Roomy, Swing!TypeOK
<1> HIDE DEF Spare
<1>4. CASE Swing!SaveManualToken
  <2>1. PICK left \in {Life, Swing!NoExpiry}, plan \in BOOLEAN :
          row' = [row EXCEPT !.left = left, !.real = Life, !.plan = plan, !.err = FALSE]
    BY <1>4 DEF Swing!SaveManualToken
  <2>2. row'.real = Life /\ row'.left \in {Life, Swing!NoExpiry} /\ call' = call
    BY <1>2, <1>4, <2>1 DEF Swing!SaveManualToken, Swing!Rows
  <2>3. RowKept(row', due'[l], Spare(l)', Every[l])
    BY <1>1, <1>2, <1>3, <2>2, FreshKept
  <2>4. /\ \A q \in Swing!Loops : LoopKept(row', call'[q], Spare(l)', Every[l])
        /\ UserKept(row', call'[Swing!User], Spare(l)', Every[l])
    BY <1>1, <1>2, <2>2, TiesKept
  <2> QED
    BY <1>1, <1>2, <2>3, <2>4 DEF SwingKept
<1>5. CASE Swing!RefreshProfile
  <2>1. UNCHANGED row /\ Swing!Ask(Swing!User, "profile", row) /\ Swing!User \in Swing!Procs
    BY <1>5 DEF Swing!RefreshProfile, Swing!Procs
  <2>2. /\ call'[Swing!User] = [to |-> "profile", saw |-> row]
        /\ \A q \in Swing!Procs \ {Swing!User} : call'[q] = call[q]
    BY <1>2, <2>1, OthersCall DEF Swing!Ask, Swing!TypeOK
  <2>3. /\ row.left \in -1 .. Life /\ row.real \in 0 .. Life
    BY <1>2 DEF Swing!Rows, Swing!NoExpiry
  <2>4. /\ row.left <= row.real /\ Spare(l) + Every[l] < row.real
        /\ row.left # Swing!NoExpiry => Spare(l) < row.left
    BY <1>1, <1>3, <2>3 DEF RowKept, Swing!NoExpiry
  <2>5. UserKept(row', call'[Swing!User], Spare(l)', Every[l])
    BY <1>3, <2>1, <2>2, <2>4 DEF UserKept
  <2>6. \A q \in Swing!Loops : LoopKept(row', call'[q], Spare(l)', Every[l])
    BY <1>1, <1>3, <2>1, <2>2 DEF Swing!Procs, Swing!User, Swing!Loops
  <2> QED
    BY <1>1, <1>2, <1>3, <2>1, <2>5, <2>6 DEF SwingKept
<1> QED
  BY <1>4, <1>5

\* A step of time shortens the wait as much as the life; a token that comes
\* into the window with it has the whole window left.
LEMMA SwingTicks ==
  ASSUME NEW l \in Swing!Loops, Roomy(l), Swing!TypeOK, Swing!TypeOK', SwingKept(l), Swing!Tick
  PROVE  SwingKept(l)'
<1> USE Constants
<1>1. due[l] <= Every[l] /\ RowKept(row, due[l], Spare(l), Every[l])
  BY DEF SwingKept
<1>2. /\ row \in Swing!Rows /\ failures' = failures /\ call' = call
      /\ due[l] > 0 /\ due'[l] = due[l] - 1
      /\ \A p \in Swing!Procs : call[p].to = "none"
  BY DEF Swing!Tick, Swing!TypeOK, Swing!Idle
<1>3. row'.left = Swing!Pass(row.left) /\ row'.real = Swing!Pass(row.real)
  BY <1>2 DEF Swing!Tick, Swing!Rows
<1>4. /\ Spare(l)' = Spare(l) /\ Spare(l) \in Nat /\ Every[l] \in Nat \ {0} /\ due[l] \in Nat
      /\ Spare(l) + Every[l] + Every[l] <= Before
  BY <1>2, SpareFacts DEF Swing!TypeOK
<1> HIDE DEF Spare
<1>5. row.left \in -1 .. Life /\ row.real \in 0 .. Life
  BY <1>2 DEF Swing!Rows, Swing!NoExpiry
<1>6. RowKept(row', due'[l], Spare(l)', Every[l])
  <2>1. /\ row.left <= row.real
        /\ row.left \in 0 .. Before => due[l] + Spare(l) < row.left
        /\ row.left <= Before => due[l] + Spare(l) + Every[l] < row.real
    BY <1>1 DEF RowKept
  <2>2. CASE row.left = -1
    <3>1. row'.left = -1 /\ row'.real = row.real - 1
      BY <1>2, <1>3, <1>4, <1>5, <2>1, <2>2 DEF Swing!Pass
    <3> QED
      BY <1>2, <1>4, <1>5, <2>1, <2>2, <3>1 DEF RowKept
  <2>3. CASE row.left \in 0 .. Life
    <3>1. 0 < row.left
      BY <1>2, <1>4, <2>1, <2>3
    <3>2. row'.left = row.left - 1 /\ row'.real = row.real - 1
      BY <1>3, <1>5, <2>1, <3>1 DEF Swing!Pass
    <3> QED
      BY <1>1, <1>2, <1>4, <1>5, <2>1, <2>3, <3>1, <3>2 DEF RowKept
  <2> QED
    BY <1>5, <2>2, <2>3
<1>7. /\ \A q \in Swing!Loops : LoopKept(row', call'[q], Spare(l)', Every[l])
      /\ UserKept(row', call'[Swing!User], Spare(l)', Every[l])
  BY <1>2 DEF LoopKept, UserKept, Swing!Procs
<1>8. due'[l] <= Every[l]
  BY <1>1, <1>2, <1>4
<1> QED
  BY <1>6, <1>7, <1>8 DEF SwingKept

LEMMA SwingStepKept ==
  ASSUME NEW l \in Swing!Loops, Roomy(l), Swing!TypeOK, Swing!TypeOK', SwingKept(l), Swing!Next
  PROVE  SwingKept(l)'
<1>1. ASSUME NEW p \in Swing!Procs, Swing!Answer(p) PROVE SwingKept(l)'
  BY <1>1, SwingRenews, SwingRenewalFails, SwingProfile DEF Swing!Answer
<1>2. ASSUME NEW p \in Swing!Loops, Swing!RenewIfNeeded(p, FALSE) PROVE SwingKept(l)'
  BY <1>2, SwingLooks DEF Swing!Procs
<1>3. ASSUME Swing!RenewIfNeeded(Swing!User, TRUE) PROVE SwingKept(l)'
  BY <1>3, SwingLooks DEF Swing!Procs
<1> QED
  BY <1>1, <1>2, <1>3, SwingUser, SwingTicks DEF Swing!Next

------------------------------------------------------------------------------
(* Both tokens.                                                             *)

TokensKept(l) == TokensStored /\ SwingKept(l) /\ MatsyaKept

LEMMA KeptFirst ==
  ASSUME NEW l \in Swing!Loops, Roomy(l), 2 <= RenewBefore, RenewBefore < TokenLife, Init
  PROVE  TokensKept(l)
<1> USE Constants
<1>1. TokensStored
  BY StoredFirst
<1>2. SwingKept(l)
  <2>1. /\ row = Swing!Fresh /\ due = Every
        /\ \A p \in Swing!Procs : call[p].to = "none"
    BY DEF Init, Swing!Init, Swing!NoCall
  <2>2. row.left = Life /\ row.real = Life /\ Every[l] \in Nat
    BY <2>1 DEF Swing!Fresh
  <2>3. RowKept(row, due[l], Spare(l), Every[l]) /\ due[l] <= Every[l]
    BY <2>1, <2>2 DEF RowKept, Roomy
  <2> QED
    BY <2>1, <2>3 DEF SwingKept, LoopKept, UserKept, Swing!Procs
<1>3. MatsyaKept
  <2>1. /\ state = Matsya!New /\ looked = FALSE
        /\ \A w \in Matsya!Writers : txn[w].at = "none"
    BY DEF Init, Matsya!Init, Matsya!NoTxn
  <2> QED
    BY <2>1 DEF MatsyaKept, LifeKept, ReadKept, Matsya!New
<1> QED
  BY <1>1, <1>2, <1>3 DEF TokensKept

LEMMA KeptStep ==
  ASSUME NEW l \in Swing!Loops, Roomy(l), 2 <= RenewBefore, RenewBefore < TokenLife,
         TokensKept(l), [Next]_vars
  PROVE  TokensKept(l)'
<1>1. /\ TokensStored /\ TokensStored' /\ SwingKept(l) /\ MatsyaKept
      /\ Swing!TypeOK /\ Swing!TypeOK' /\ Matsya!TypeOK /\ Matsya!TypeOK'
  BY StoredStep DEF TokensKept, TokensStored
<1>2. UNCHANGED <<row, call, due, failures>> => SwingKept(l)'
  BY <1>1 DEF SwingKept, Spare
<1>3. UNCHANGED <<state, txn, looked, died, mayFail>> => MatsyaKept'
  BY <1>1 DEF MatsyaKept
<1>4. SwingKept(l)' /\ MatsyaKept'
  BY <1>1, <1>2, <1>3, SwingStepKept, MatsyaStepKept DEF Next, vars
<1> QED
  BY <1>1, <1>4 DEF TokensKept

\* Neither token runs out while its application is up: the swing one, with or
\* without a recorded expiry, if, of some loop, the window
\* dhan_renew_before_minutes has room for two looks and one more for every
\* call that fails; Matsya's if the window has two looks of the worker, Dhan
\* answers and the row was made of tokens with their expiry (dated; of others
\* OnlyLive says what holds).  A fresh token outlives the window of each.
THEOREM NeverOut ==
  ASSUME NEW l \in Swing!Loops, Every[l] * (MaxFailures + 2) <= Before, Before < Life,
         2 <= RenewBefore, RenewBefore < TokenLife
  PROVE  Spec => []NeverRunsOut
<1>1. Roomy(l)
  BY DEF Roomy
<1>2. Init => TokensKept(l)
  BY <1>1, KeptFirst
<1>3. TokensKept(l) /\ [Next]_vars => TokensKept(l)'
  BY <1>1, KeptStep
<1>4. TokensKept(l) => NeverRunsOut
  <2> SUFFICES ASSUME TokensKept(l) PROVE NeverRunsOut
    OBVIOUS
  <2> USE Constants
  <2>1. Swing!NeverRunsOut
    <3>1. /\ row.left \in -1 .. Life /\ row.real \in 0 .. Life
          /\ RowKept(row, due[l], Spare(l), Every[l])
      BY DEF TokensKept, TokensStored, SwingKept, Swing!TypeOK, Swing!Rows, Swing!NoExpiry
    <3>2. Spare(l) \in Nat /\ due[l] \in Nat /\ Every[l] \in Nat
      <4>1. failures \in 0 .. MaxFailures /\ due[l] \in Nat /\ Every[l] \in Nat
        BY DEF TokensKept, TokensStored, Swing!TypeOK
      <4> QED
        BY <4>1 DEF Spare
    <3> HIDE DEF Spare
    <3>3. row.left # 0 /\ row.real # 0
      BY <3>1, <3>2 DEF RowKept
    <3> QED
      BY <3>3 DEF Swing!NeverRunsOut
  <2>2. Matsya!NeverRunsOut
    <3>1. state.left \in -1 .. TokenLife /\ state.real \in 0 .. TokenLife
      BY DEF TokensKept, TokensStored, Matsya!TypeOK, Matsya!States, Matsya!NoExpiry
    <3> QED
      BY <3>1 DEF TokensKept, MatsyaKept, LifeKept, Matsya!NeverRunsOut
  <2> QED
    BY <2>1, <2>2 DEF NeverRunsOut
<1> QED
  BY <1>2, <1>3, <1>4, PTL DEF Spec
=============================================================================
