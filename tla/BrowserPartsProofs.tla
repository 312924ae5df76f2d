-------------------------- MODULE BrowserPartsProofs --------------------------
(***************************************************************************)
(* The components that the run of the browser's parts checks side by side  *)
(* keep their promises for any number of apps, wallets, runs, tabs, tiers  *)
(* and providers, and for all budgets and amounts: the recovery of apps    *)
(* reads and prompts in measure, the setup of an account pays twice only   *)
(* blindly, a saved tab shows the registry as it is, and what is deployed  *)
(* is what the card showed and the summary tells.                          *)
(*                                                                         *)
(* Each has an invariant that is inductive by itself: RecoveryInv,         *)
(* SetupInv, ShownInv and RegistryInv, DeployInv.  Their theorems are      *)
(* stated of the component's own specification and, by the lemma that only *)
(* the chosen part moves, of PartsSpec, which the run explores.  PartsInv  *)
(* puts them together with the invariants of the chat: every part stays of *)
(* its type, and nothing that was settled is taken back.                   *)
(***************************************************************************)
EXTENDS MCBrowserParts, ChatStoreProofs, FiniteSetTheorems

-----------------------------------------------------------------------------
(* The recovery of apps *)

\* The rounds under way.
Rounds == [step : {"auth", "reads", "written", "failed"}, lease : RecoveryLeases, signer : 1..MaxSigners,
           same : BOOLEAN, aborted : BOOLEAN, mine : BOOLEAN, complete : BOOLEAN]

\* The wait of an attempt is left open: nothing below depends on it.
IsAttempt(a) ==
  /\ DOMAIN a = {"tries", "max", "wait", "known", "retired"}
  /\ a.tries \in Int /\ a.max \in Nat
  /\ a.known \in BOOLEAN /\ a.retired \in BOOLEAN

\* The types that the argument needs; those of RecoveryTypeOK bound the attempts besides.
RecoveryTypes ==
  /\ needs \in [RecoveryLeases -> Needs]
  /\ DOMAIN attempts = RecoveryLeases
  /\ \A l \in RecoveryLeases : IsAttempt(attempts[l])
  /\ round \in Rounds \union {NoRound}
  /\ poll \in [on : BOOLEAN, hidden : BOOLEAN, timer : BOOLEAN, ticking : BOOLEAN]
  /\ busy \in BOOLEAN /\ recoverySigner \in 1..MaxSigners /\ mints \in [1..MaxSigners -> Nat]
  /\ spent \in [RecoveryLeases -> Int] /\ allowed \in [RecoveryLeases -> Nat]
  /\ overwritten \in BOOLEAN

\* The rounds of an app that ran to their end are fewer than its attempts, of which one may
\* be under way, unless the app has changed and its budget begins anew with the next attempt.
Counted(l) ==
  /\ spent[l] <= allowed[l]
  /\ ~On(l) /\ ~attempts[l].known => spent[l] <= 0
  /\ attempts[l].known => spent[l] <= attempts[l].tries /\ attempts[l].tries <= allowed[l]
  /\ On(l) /\ attempts[l].known => round.same /\ spent[l] < attempts[l].tries
  /\ On(l) /\ ~attempts[l].known /\ ~round.aborted /\ round.same =>
       round.step = "written" /\ spent[l] < attempts[l].tries /\ attempts[l].tries <= allowed[l]
  /\ On(l) /\ ~attempts[l].known /\ ~round.aborted /\ ~round.same => spent[l] <= -1
  /\ needs[l] = "gone" => ~attempts[l].known /\ (On(l) => ~round.same)

\* Whose tick it is: the polling that is on waits for the round that is its own.
Ticking ==
  /\ ~poll.on => ~poll.ticking /\ ~poll.timer
  /\ round # NoRound /\ round.mine => poll.on /\ poll.ticking
  /\ round # NoRound /\ ~round.aborted => round.mine

\* RecoveryIsPaced, made inductive.
RecoveryInv ==
  /\ RecoveryTypes
  /\ \A l \in RecoveryLeases : Counted(l)
  /\ ~overwritten
  /\ OnePrompt
  /\ PollingLives /\ Ticking

-----------------------------------------------------------------------------
\* A round under way is a record, no round is none.
LEMMA RoundKinds ==
  /\ NoRound.step = "idle" /\ NoRound \notin Rounds
  /\ \A r \in Rounds : r # NoRound /\ r.step # "idle"
BY DEF NoRound, Rounds

LEMMA RoundUnderWay ==
  ASSUME RecoveryTypes
  PROVE  /\ round # NoRound <=> round \in Rounds
         /\ round = NoRound <=> round.step = "idle"
BY RoundKinds DEF RecoveryTypes

LEMMA RecoveryBounds ==
  /\ MaxSigners \in Nat /\ 1 <= MaxSigners
  /\ \A need : Allowance(need) \in Nat
BY RecoveryAssumption DEF Allowance

\* An attempt that is dropped, and one that is begun.
LEMMA NewAttempts ==
  /\ NoAttempt.tries = -1 /\ NoAttempt.max = 0 /\ ~NoAttempt.known /\ ~NoAttempt.retired
  /\ IsAttempt(NoAttempt)
BY DEF NoAttempt, IsAttempt

LEMMA FirstAttempts ==
  ASSUME NEW l
  PROVE  /\ FirstAttempt(l).tries = 0 /\ FirstAttempt(l).max \in Nat
         /\ FirstAttempt(l).known /\ ~FirstAttempt(l).retired
         /\ IsAttempt(FirstAttempt(l))
<1>1. \A need : Allowance(need) \in Nat
  BY RecoveryBounds
<1>2. QED
  BY <1>1 DEF FirstAttempt, IsAttempt

\* The scan begins a budget or lets one grow, and drops those of leases that left.
LEMMA ScannedAttempts ==
  ASSUME RecoveryTypes, NEW l \in RecoveryLeases
  PROVE  /\ DOMAIN Scanned = RecoveryLeases
         /\ IsAttempt(Scanned[l])
         /\ \/ Scanned[l].known = attempts[l].known /\ Scanned[l].tries = attempts[l].tries
            \/ Scanned[l].tries = 0 /\ Scanned[l].known /\ ~attempts[l].known
            \/ ~Scanned[l].known /\ needs[l] = "gone"
         /\ Eligible(l) => Scanned[l].known
         /\ needs[l] = "gone" => ~Scanned[l].known
<1>1. \A need : Allowance(need) \in Nat
  BY RecoveryBounds
<1>2. needs[l] \in Needs
  BY DEF RecoveryTypes
<1>3. CASE needs[l] = "gone"
  <2>1. Scanned[l] = NoAttempt /\ DOMAIN Scanned = RecoveryLeases
    BY <1>3 DEF Scanned, Eligible
  <2>2. ~Eligible(l)
    BY <1>3 DEF Eligible
  <2>3. QED
    BY <1>3, <2>1, <2>2, NewAttempts
<1>4. CASE needs[l] = "nothing"
  BY <1>4 DEF Scanned, Eligible, RecoveryTypes
<1>5. CASE Eligible(l) /\ ~attempts[l].known
  <2>1. Scanned[l] = FirstAttempt(l) /\ DOMAIN Scanned = RecoveryLeases
    BY <1>5 DEF Scanned, Eligible
  <2>2. QED
    BY <2>1, <1>5, FirstAttempts DEF Eligible
<1>6. CASE Eligible(l) /\ attempts[l].known
  <2> DEFINE max == IF Allowance(needs[l]) > attempts[l].max THEN Allowance(needs[l]) ELSE attempts[l].max
  <2>1. Scanned[l] = [attempts[l] EXCEPT !.max = max] /\ DOMAIN Scanned = RecoveryLeases
    BY <1>6 DEF Scanned, Eligible
  <2>2. max \in Nat
    BY <1>1 DEF RecoveryTypes, IsAttempt
  <2> HIDE DEF max
  <2>3. QED
    BY <2>1, <2>2, <1>6 DEF RecoveryTypes, Eligible, IsAttempt
<1>7. QED
  BY <1>2, <1>3, <1>4, <1>5, <1>6 DEF Needs, Eligible

LEMMA InitRecovery == RecoveryInit => RecoveryInv
<1> SUFFICES ASSUME RecoveryInit PROVE RecoveryInv
  OBVIOUS
<1>1. RecoveryTypes
  <2>1. needs \in [RecoveryLeases -> Needs]
    BY RecoveryAssumption DEF RecoveryInit, Needs
  <2>2. /\ DOMAIN attempts = RecoveryLeases
        /\ \A l \in RecoveryLeases : attempts[l] = NoAttempt
    BY DEF RecoveryInit
  <2>3. \A l \in RecoveryLeases : IsAttempt(attempts[l])
    BY <2>2, NewAttempts
  <2>4. round \in Rounds \union {NoRound} /\ overwritten \in BOOLEAN /\ busy \in BOOLEAN
    BY DEF RecoveryInit
  <2>5. poll \in [on : BOOLEAN, hidden : BOOLEAN, timer : BOOLEAN, ticking : BOOLEAN]
    BY DEF RecoveryInit
  <2>6. /\ recoverySigner \in 1..MaxSigners /\ mints \in [1..MaxSigners -> Nat]
        /\ spent \in [RecoveryLeases -> Int] /\ allowed \in [RecoveryLeases -> Nat]
    BY RecoveryBounds DEF RecoveryInit
  <2>7. QED
    BY <2>1, <2>2, <2>3, <2>4, <2>5, <2>6 DEF RecoveryTypes
<1>2. \A l \in RecoveryLeases : Counted(l)
  BY NewAttempts DEF RecoveryInit, Counted, On
<1>3. OnePrompt /\ PollingLives /\ Ticking
  BY RoundKinds DEF RecoveryInit, OnePrompt, PollingLives, Ticking, RoundAt
<1>4. QED
  BY <1>1, <1>2, <1>3 DEF RecoveryInv, RecoveryInit

-----------------------------------------------------------------------------
LEMMA RoundBeginsSafely ==
  ASSUME RecoveryInv, NEW l \in RecoveryLeases, RoundBegins(l)
  PROVE  RecoveryInv'
<1>1. RecoveryTypes /\ (\A k \in RecoveryLeases : Counted(k)) /\ ~overwritten /\ OnePrompt /\ PollingLives /\ Ticking
  BY DEF RecoveryInv
<1>2. round = NoRound /\ poll.timer /\ poll.on /\ ~poll.hidden
  BY <1>1 DEF RoundBegins, MayScan, PollingLives
<1>3. /\ UNCHANGED <<needs, busy, recoverySigner, spent, overwritten>>
      /\ poll' = [poll EXCEPT !.timer = FALSE, !.ticking = TRUE]
      /\ mints' = [mints EXCEPT ![recoverySigner] = @ + 1]
      /\ mints[recoverySigner] = 0
  BY <1>1 DEF RoundBegins, MayScan, Minted, Pending, RecoveryTypes
<1>4. /\ Scanned[l].tries \in Int /\ Scanned[l].max \in Nat /\ Scanned[l].known
      /\ Scanned[l].tries < Scanned[l].max
  BY <1>1, ScannedAttempts DEF RoundBegins, RecoveryCandidate, IsAttempt
<1>5. \A k \in RecoveryLeases : allowed'[k] \in Nat /\ Scanned[k].max <= allowed'[k] /\ allowed[k] <= allowed'[k]
  <2> SUFFICES ASSUME NEW k \in RecoveryLeases
               PROVE  allowed'[k] \in Nat /\ Scanned[k].max <= allowed'[k] /\ allowed[k] <= allowed'[k]
    OBVIOUS
  <2>1. Scanned[k].max \in Nat /\ allowed[k] \in Nat
    BY <1>1, ScannedAttempts DEF RecoveryTypes, IsAttempt
  <2>2. allowed'[k] = IF Scanned[k].max > allowed[k] THEN Scanned[k].max ELSE allowed[k]
    BY DEF RoundBegins
  <2>3. QED
    BY <2>1, <2>2
<1>6. /\ DOMAIN attempts' = RecoveryLeases
      /\ \A k \in RecoveryLeases \ {l} : attempts'[k] = Scanned[k]
      /\ attempts'[l] = [Scanned[l] EXCEPT !.tries = @ + 1]
  BY <1>1, ScannedAttempts DEF RoundBegins
<1>7. /\ IsAttempt(attempts'[l])
      /\ attempts'[l].tries = Scanned[l].tries + 1 /\ attempts'[l].max = Scanned[l].max
      /\ attempts'[l].known = Scanned[l].known /\ attempts'[l].retired = Scanned[l].retired
  BY <1>1, <1>6, ScannedAttempts DEF IsAttempt
<1>8. /\ round' = NewRound(l) /\ NewRound(l) \in Rounds
      /\ round'.lease = l /\ round'.same /\ ~round'.aborted /\ round'.mine /\ round'.signer = recoverySigner
  BY <1>1 DEF RoundBegins, NewRound, Rounds, RecoveryTypes
<1>9. \A k \in RecoveryLeases : IsAttempt(attempts'[k])
  BY <1>1, <1>6, <1>7, ScannedAttempts
<1>10. RecoveryTypes'
  <2>1. mints' \in [1..MaxSigners -> Nat]
    BY <1>1, <1>3 DEF RecoveryTypes
  <2>2. poll' \in [on : BOOLEAN, hidden : BOOLEAN, timer : BOOLEAN, ticking : BOOLEAN]
    BY <1>1, <1>3 DEF RecoveryTypes
  <2>3. allowed' \in [RecoveryLeases -> Nat]
    BY <1>5 DEF RoundBegins
  <2>4. QED
    BY <1>1, <1>3, <1>6, <1>8, <1>9, <2>1, <2>2, <2>3 DEF RecoveryTypes
<1>11. Counted(l)'
  <2>1. spent[l] <= Scanned[l].tries /\ spent[l] \in Int
    BY <1>1, <1>2, <1>4, RoundKinds, ScannedAttempts DEF Counted, On, RecoveryTypes
  <2>2. Eligible(l)
    BY DEF RoundBegins, RecoveryCandidate
  <2>3. QED
    BY <1>3, <1>4, <1>5, <1>7, <1>8, <2>1, <2>2, RoundKinds DEF Counted, On, Eligible
<1>12. ASSUME NEW k \in RecoveryLeases \ {l} PROVE Counted(k)'
  <2>1. ~On(k)' /\ ~On(k)
    BY <1>2, <1>8 DEF On
  <2>2. spent[k] \in Int /\ allowed[k] \in Nat /\ attempts[k].tries \in Int
    BY <1>1 DEF RecoveryTypes, IsAttempt
  <2>3. Counted(k)
    BY <1>1
  <2>4. QED
    BY <1>1, <1>3, <1>5, <1>6, <2>1, <2>2, <2>3, ScannedAttempts DEF Counted
<1>13. OnePrompt'
  BY <1>1, <1>3, <1>8 DEF OnePrompt, RecoveryTypes
<1>14. PollingLives' /\ Ticking'
  BY <1>1, <1>2, <1>3, <1>8 DEF PollingLives, Ticking, RecoveryTypes
<1>15. QED
  BY <1>1, <1>3, <1>10, <1>11, <1>12, <1>13, <1>14 DEF RecoveryInv

LEMMA TickFindsNothingSafely ==
  ASSUME RecoveryInv, TickFindsNothing
  PROVE  RecoveryInv'
<1>1. RecoveryTypes /\ (\A k \in RecoveryLeases : Counted(k)) /\ ~overwritten /\ OnePrompt /\ PollingLives /\ Ticking
  BY DEF RecoveryInv
<1>2. /\ round = NoRound /\ attempts' = Scanned
      /\ UNCHANGED <<needs, round, poll, busy, recoverySigner, mints, spent, allowed, overwritten>>
  BY DEF TickFindsNothing, MayScan, observers
<1>3. RecoveryTypes'
  <2>1. DOMAIN attempts' = RecoveryLeases /\ \A k \in RecoveryLeases : IsAttempt(attempts'[k])
    BY <1>1, <1>2, ScannedAttempts DEF Scanned
  <2>2. QED
    BY <1>1, <1>2, <2>1 DEF RecoveryTypes
<1>4. ASSUME NEW k \in RecoveryLeases PROVE Counted(k)'
  <2>1. ~On(k)' /\ ~On(k)
    BY <1>2 DEF On
  <2>2. spent[k] \in Int /\ allowed[k] \in Nat /\ attempts[k].tries \in Int
    BY <1>1 DEF RecoveryTypes, IsAttempt
  <2>3. Counted(k)
    BY <1>1
  <2>4. QED
    BY <1>1, <1>2, <2>1, <2>2, <2>3, ScannedAttempts DEF Counted
<1>5. OnePrompt' /\ PollingLives' /\ Ticking'
  BY <1>1, <1>2 DEF OnePrompt, PollingLives, Ticking, RoundAt
<1>6. QED
  BY <1>1, <1>2, <1>3, <1>4, <1>5 DEF RecoveryInv

\* The end of a round, however it ends, is the end of the tick that waits for it.
LEMMA ReleasedSafely ==
  ASSUME RecoveryTypes, OnePrompt, PollingLives, Ticking, round # NoRound, Released, UNCHANGED mints
  PROVE  /\ round' = NoRound /\ OnePrompt' /\ PollingLives' /\ Ticking'
         /\ poll' \in [on : BOOLEAN, hidden : BOOLEAN, timer : BOOLEAN, ticking : BOOLEAN]
<1>1. round' = NoRound /\ round \in Rounds /\ round.mine \in BOOLEAN
  BY RoundUnderWay DEF Released, Rounds
<1>2. poll' \in [on : BOOLEAN, hidden : BOOLEAN, timer : BOOLEAN, ticking : BOOLEAN]
  BY DEF Released, RecoveryTypes
<1>3. OnePrompt'
  BY <1>1, RoundKinds DEF OnePrompt, RoundAt
<1>4. PollingLives' /\ Ticking'
  BY <1>1 DEF PollingLives, Ticking, Released, RecoveryTypes
<1>5. QED
  BY <1>1, <1>2, <1>3, <1>4

LEMMA RoundReturnsSafely ==
  ASSUME RecoveryInv, RoundReturns
  PROVE  RecoveryInv'
<1>1. RecoveryTypes /\ (\A k \in RecoveryLeases : Counted(k)) /\ ~overwritten /\ OnePrompt /\ PollingLives /\ Ticking
  BY DEF RecoveryInv
<1>2. round # NoRound /\ ~round.aborted /\ (round.step = "written" \/ round.step = "failed")
  BY RoundKinds DEF RoundReturns, RoundAt
<1>3. PICK l \in RecoveryLeases : l = round.lease
  BY <1>1, <1>2, RoundUnderWay DEF Rounds
<1>4. round \in Rounds /\ On(l) /\ Counted(l)
  BY <1>1, <1>2, <1>3, RoundUnderWay DEF On
<1>5. /\ spent[l] \in Int /\ allowed[l] \in Nat /\ attempts[l].tries \in Int
      /\ attempts[l].known \in BOOLEAN /\ round.same \in BOOLEAN /\ round.aborted \in BOOLEAN
  BY <1>1, <1>4 DEF RecoveryTypes, IsAttempt, Rounds
<1> DEFINE kept == round.step = "written" /\ round.same
           waits == [attempts[l] EXCEPT !.wait = Delay(attempts[l].tries)]
           stands == [waits EXCEPT !.known = TRUE]
           told == [stands EXCEPT !.retired = IF kept THEN round.complete ELSE @]
<1>6. /\ Released /\ UNCHANGED <<needs, busy, recoverySigner, mints, allowed, overwritten>>
      /\ spent' = [spent EXCEPT ![l] = @ + 1]
      /\ attempts' = IF attempts[l].known \/ kept THEN [attempts EXCEPT ![l] = told]
                     ELSE [attempts EXCEPT ![l] = NoAttempt]
  BY <1>1, <1>3, ZenonT(60) DEF RoundReturns, RecoveryTypes, IsAttempt
<1>7. IsAttempt(told) /\ told.known /\ told.tries = attempts[l].tries
  BY <1>1, <1>4 DEF RecoveryTypes, IsAttempt, Rounds
<1> HIDE DEF told, kept
<1>8. /\ round' = NoRound /\ OnePrompt' /\ PollingLives' /\ Ticking'
      /\ poll' \in [on : BOOLEAN, hidden : BOOLEAN, timer : BOOLEAN, ticking : BOOLEAN]
  BY <1>1, <1>2, <1>6, ReleasedSafely
<1>9. RecoveryTypes'
  BY <1>1, <1>3, <1>6, <1>7, <1>8, NewAttempts DEF RecoveryTypes
<1>10. ~On(l)' /\ spent'[l] = spent[l] + 1 /\ allowed' = allowed /\ needs' = needs
  BY <1>1, <1>6, <1>8 DEF On, RecoveryTypes
<1>11. attempts'[l] = IF attempts[l].known \/ kept THEN told ELSE NoAttempt
  BY <1>1, <1>6 DEF RecoveryTypes
<1>12. Counted(l)'
  BY <1>2, <1>7, <1>4, <1>5, <1>10, <1>11, NewAttempts DEF Counted, kept
<1>13. ASSUME NEW k \in RecoveryLeases \ {l} PROVE Counted(k)'
  BY <1>1, <1>2, <1>3, <1>6, <1>8 DEF Counted, On, RecoveryTypes
<1>14. QED
  BY <1>1, <1>3, <1>6, <1>8, <1>9, <1>12, <1>13 DEF RecoveryInv

LEMMA RoundUnwindsSafely ==
  ASSUME RecoveryInv, RoundUnwinds
  PROVE  RecoveryInv'
<1>1. RecoveryTypes /\ (\A k \in RecoveryLeases : Counted(k)) /\ ~overwritten /\ OnePrompt /\ PollingLives /\ Ticking
  BY DEF RecoveryInv
<1>2. round # NoRound /\ round.aborted
  BY DEF RoundUnwinds
<1>3. PICK l \in RecoveryLeases : l = round.lease
  BY <1>1, <1>2, RoundUnderWay DEF Rounds
<1>4. round \in Rounds /\ On(l) /\ Counted(l)
  BY <1>1, <1>2, <1>3, RoundUnderWay DEF On
<1>5. /\ spent[l] \in Int /\ allowed[l] \in Nat /\ attempts[l].tries \in Int
      /\ attempts[l].known \in BOOLEAN /\ round.same \in BOOLEAN /\ round.aborted \in BOOLEAN
  BY <1>1, <1>4 DEF RecoveryTypes, IsAttempt, Rounds
<1> DEFINE back == [attempts[l] EXCEPT !.tries = @ - 1]
           again == [back EXCEPT !.wait = 0]
<1>6. /\ Released /\ UNCHANGED <<needs, busy, recoverySigner, mints, allowed, overwritten>>
      /\ spent' = [spent EXCEPT ![l] = IF attempts[l].known THEN @ ELSE 0]
      /\ attempts' = IF attempts[l].known THEN [attempts EXCEPT ![l] = again]
                     ELSE [attempts EXCEPT ![l] = NoAttempt]
  BY <1>1, <1>3 DEF RoundUnwinds, RecoveryTypes, IsAttempt
<1>7. IsAttempt(again) /\ again.known = attempts[l].known /\ again.tries = attempts[l].tries - 1
  BY <1>1, <1>3 DEF RecoveryTypes, IsAttempt
<1> HIDE DEF again
<1>8. /\ round' = NoRound /\ OnePrompt' /\ PollingLives' /\ Ticking'
      /\ poll' \in [on : BOOLEAN, hidden : BOOLEAN, timer : BOOLEAN, ticking : BOOLEAN]
  BY <1>1, <1>2, <1>6, ReleasedSafely
<1>9. RecoveryTypes'
  BY <1>1, <1>3, <1>6, <1>7, <1>8, NewAttempts DEF RecoveryTypes
<1>10. ~On(l)' /\ spent'[l] = (IF attempts[l].known THEN spent[l] ELSE 0) /\ allowed' = allowed /\ needs' = needs
  BY <1>1, <1>6, <1>8 DEF On, RecoveryTypes
<1>11. attempts'[l] = IF attempts[l].known THEN again ELSE NoAttempt
  BY <1>1, <1>6 DEF RecoveryTypes
<1>12. Counted(l)'
  BY <1>2, <1>7, <1>4, <1>5, <1>10, <1>11, NewAttempts DEF Counted
<1>13. ASSUME NEW k \in RecoveryLeases \ {l} PROVE Counted(k)'
  BY <1>1, <1>2, <1>3, <1>6, <1>8 DEF Counted, On, RecoveryTypes
<1>14. QED
  BY <1>1, <1>3, <1>6, <1>8, <1>9, <1>12, <1>13 DEF RecoveryInv

\* A round that goes on to read, or fails, is still about the same app.
LEMMA StepSafely ==
  ASSUME RecoveryTypes, \A k \in RecoveryLeases : Counted(k), Ticking, round # NoRound,
         NEW step \in {"reads", "failed"}, round' = [round EXCEPT !.step = step],
         round.step # "written", UNCHANGED <<needs, attempts, poll, spent, allowed>>
  PROVE  /\ round' \in Rounds /\ \A k \in RecoveryLeases : Counted(k)'
         /\ Ticking'
         /\ round'.step = step /\ round'.signer = round.signer /\ round'.aborted = round.aborted
<1>1. round \in Rounds
  BY RoundUnderWay
<1>2. /\ round' \in Rounds /\ round'.step = step /\ round'.lease = round.lease /\ round'.signer = round.signer
      /\ round'.aborted = round.aborted /\ round'.same = round.same /\ round'.mine = round.mine
  BY <1>1 DEF Rounds
<1>3. round' # NoRound
  BY <1>2, RoundKinds
<1>4. \A k \in RecoveryLeases : Counted(k)'
  BY <1>2, <1>3 DEF Counted, On
<1>5. Ticking'
  BY <1>2, <1>3 DEF Ticking
<1>6. QED
  BY <1>2, <1>4, <1>5

LEMMA MintSettlesSafely ==
  ASSUME RecoveryInv, NEW s \in 1..MaxSigners, MintSettles(s)
  PROVE  RecoveryInv'
<1>1. RecoveryTypes /\ (\A k \in RecoveryLeases : Counted(k)) /\ ~overwritten /\ OnePrompt /\ PollingLives /\ Ticking
  BY DEF RecoveryInv
<1>2. /\ mints[s] \in Nat /\ mints[s] > 0
      /\ UNCHANGED <<needs, attempts, poll, busy, recoverySigner, spent, allowed, overwritten>>
  BY <1>1 DEF MintSettles, RecoveryTypes, observers
<1>3. PollingLives'
  BY <1>1, <1>2 DEF PollingLives
<1>4. ASSUME NEW step \in {"reads", "failed"}, RoundAt("auth"), round.signer = s, Step(step),
             mints' = mints \/ mints' = [mints EXCEPT ![s] = @ - 1]
      PROVE  RecoveryInv'
  <2>1. round # NoRound /\ round.step = "auth"
    BY <1>4, RoundKinds DEF RoundAt
  <2>2. round' = [round EXCEPT !.step = step]
    BY <1>4 DEF Step
  <2>3. /\ round' \in Rounds /\ (\A k \in RecoveryLeases : Counted(k)') /\ Ticking' /\ round'.step = step
    BY <1>1, <1>2, <2>1, <2>2, StepSafely
  <2>4. mints' \in [1..MaxSigners -> Nat] /\ \A x \in 1..MaxSigners : mints'[x] <= 1
    <3>1. mints[s] - 1 \in Nat /\ mints[s] - 1 <= 1
      BY <1>1, <1>2 DEF OnePrompt
    <3>2. CASE mints' = mints
      BY <1>1, <3>2 DEF OnePrompt, RecoveryTypes
    <3>3. CASE mints' = [mints EXCEPT ![s] = @ - 1]
      BY <1>1, <3>1, <3>3 DEF OnePrompt, RecoveryTypes
    <3>4. QED
      BY <1>4, <3>2, <3>3
  <2>5. RecoveryTypes'
    BY <1>1, <1>2, <2>3, <2>4 DEF RecoveryTypes
  <2>6. OnePrompt'
    BY <2>3, <2>4 DEF OnePrompt, RoundAt
  <2>7. QED
    BY <1>1, <1>2, <1>3, <2>3, <2>5, <2>6 DEF RecoveryInv
<1>5. ASSUME ~(RoundAt("auth") /\ round.signer = s), mints' = [mints EXCEPT ![s] = @ - 1], UNCHANGED round
      PROVE  RecoveryInv'
  <2>1. mints' \in [1..MaxSigners -> Nat] /\ \A x \in 1..MaxSigners : mints'[x] <= 1
    BY <1>1, <1>2, <1>5 DEF OnePrompt, RecoveryTypes
  <2>2. RecoveryTypes'
    BY <1>1, <1>2, <1>5, <2>1 DEF RecoveryTypes
  <2>3. OnePrompt'
    <3>1. ASSUME RoundAt("auth") PROVE mints'[round.signer] = 1
      <4>1. round.signer \in 1..MaxSigners
        BY <1>1, <3>1, RoundUnderWay, RoundKinds DEF RoundAt, Rounds
      <4>2. QED
        BY <1>1, <1>5, <3>1, <4>1 DEF OnePrompt, RecoveryTypes
    <3>2. QED
      BY <1>5, <2>1, <3>1 DEF OnePrompt, RoundAt
  <2>4. \A k \in RecoveryLeases : Counted(k)'
    BY <1>1, <1>2, <1>5 DEF Counted, On
  <2>5. Ticking'
    BY <1>1, <1>2, <1>5 DEF Ticking
  <2>6. QED
    BY <1>1, <1>2, <1>3, <2>2, <2>3, <2>4, <2>5 DEF RecoveryInv
<1>6. QED
  BY <1>4, <1>5 DEF MintSettles

LEMMA AuthTimesOutSafely ==
  ASSUME RecoveryInv, AuthTimesOut
  PROVE  RecoveryInv'
<1>1. RecoveryTypes /\ (\A k \in RecoveryLeases : Counted(k)) /\ ~overwritten /\ OnePrompt /\ PollingLives /\ Ticking
  BY DEF RecoveryInv
<1>2. /\ round # NoRound /\ round.step = "auth" /\ round' = [round EXCEPT !.step = "failed"]
      /\ UNCHANGED <<needs, attempts, poll, busy, recoverySigner, mints, spent, allowed, overwritten>>
  BY RoundKinds DEF AuthTimesOut, RoundAt, Step, observers
<1>3. /\ round' \in Rounds /\ (\A k \in RecoveryLeases : Counted(k)') /\ Ticking' /\ round'.step = "failed"
  BY <1>1, <1>2, StepSafely
<1>4. RecoveryTypes'
  BY <1>1, <1>2, <1>3 DEF RecoveryTypes
<1>5. OnePrompt' /\ PollingLives'
  BY <1>1, <1>2, <1>3 DEF OnePrompt, RoundAt, PollingLives
<1>6. QED
  BY <1>1, <1>2, <1>3, <1>4, <1>5 DEF RecoveryInv

LEMMA ReadsSettleSafely ==
  ASSUME RecoveryInv, ReadsSettle
  PROVE  RecoveryInv'
<1>1. RecoveryTypes /\ (\A k \in RecoveryLeases : Counted(k)) /\ ~overwritten /\ OnePrompt /\ PollingLives /\ Ticking
  BY DEF RecoveryInv
<1>2. /\ round # NoRound /\ round.step = "reads" /\ ~round.aborted
      /\ UNCHANGED <<poll, busy, recoverySigner, mints, spent, allowed>>
  BY RoundKinds DEF ReadsSettle, RoundAt
<1>3. round \in Rounds
  BY <1>1, <1>2, RoundUnderWay
<1>4. PollingLives'
  BY <1>1, <1>2 DEF PollingLives
<1>5. CASE Step("failed") /\ UNCHANGED <<needs, attempts, overwritten>>
  <2>1. /\ round' \in Rounds /\ (\A k \in RecoveryLeases : Counted(k)') /\ Ticking' /\ round'.step = "failed"
    BY <1>1, <1>2, <1>5, StepSafely DEF Step
  <2>2. RecoveryTypes' /\ OnePrompt'
    BY <1>1, <1>2, <1>5, <2>1 DEF RecoveryTypes, OnePrompt, RoundAt
  <2>3. QED
    BY <1>1, <1>4, <1>5, <2>1, <2>2 DEF RecoveryInv
<1>6. ASSUME round.same, NEW need \in Needs \ {"gone"}, NEW complete \in BOOLEAN, NEW changed \in BOOLEAN,
             overwritten' = (overwritten \/ ~round.same),
             needs' = [needs EXCEPT ![round.lease] = need],
             attempts' = [attempts EXCEPT ![round.lease].known = @ /\ ~changed],
             round' = [round EXCEPT !.step = "written", !.complete = complete]
      PROVE  RecoveryInv'
  <2>1. PICK l \in RecoveryLeases : l = round.lease
    BY <1>3 DEF Rounds
  <2> DEFINE told == [attempts[l] EXCEPT !.known = @ /\ ~changed]
  <2>2. /\ round' \in Rounds /\ round'.step = "written" /\ round'.lease = l /\ round'.same /\ ~round'.aborted
        /\ round'.mine = round.mine
    BY <1>2, <1>3, <1>6, <2>1 DEF Rounds
  <2>3. On(l)' /\ On(l) /\ \A k \in RecoveryLeases \ {l} : ~On(k)' /\ ~On(k)
    BY <1>2, <2>1, <2>2, RoundKinds DEF On
  <2>4. IsAttempt(told) /\ told.tries = attempts[l].tries /\ (told.known => attempts[l].known)
    BY <1>1 DEF RecoveryTypes, IsAttempt
  <2> HIDE DEF told
  <2>5. attempts' = [attempts EXCEPT ![l] = told]
    BY <1>1, <1>6, <2>1 DEF RecoveryTypes, told
  <2>6. needs' \in [RecoveryLeases -> Needs] /\ needs'[l] # "gone" /\ \A k \in RecoveryLeases \ {l} : needs'[k] = needs[k]
    BY <1>1, <1>6, <2>1 DEF RecoveryTypes
  <2>7. /\ DOMAIN attempts' = RecoveryLeases /\ attempts'[l] = told
        /\ \A k \in RecoveryLeases \ {l} : attempts'[k] = attempts[k]
    BY <1>1, <2>5 DEF RecoveryTypes
  <2>8. \A k \in RecoveryLeases : IsAttempt(attempts'[k])
    BY <1>1, <2>4, <2>7 DEF RecoveryTypes
  <2>9. RecoveryTypes'
    BY <1>1, <1>2, <1>6, <2>2, <2>6, <2>7, <2>8 DEF RecoveryTypes
  <2>10. Counted(l)'
    <3>1. Counted(l) /\ attempts[l].known
      BY <1>1, <1>2, <1>6, <2>3 DEF Counted
    <3>2. QED
      BY <1>2, <1>6, <2>2, <2>3, <2>4, <2>6, <2>7, <3>1 DEF Counted
  <2>11. ASSUME NEW k \in RecoveryLeases \ {l} PROVE Counted(k)'
    BY <1>1, <1>2, <2>3, <2>6, <2>7 DEF Counted
  <2>12. OnePrompt' /\ Ticking'
    BY <1>1, <1>2, <2>2, RoundKinds DEF OnePrompt, RoundAt, Ticking
  <2>13. ~overwritten'
    BY <1>1, <1>6
  <2>14. \A k \in RecoveryLeases : Counted(k)'
    BY <2>10, <2>11
  <2>15. QED
    BY <1>4, <2>9, <2>12, <2>13, <2>14 DEF RecoveryInv
<1>7. QED
  BY <1>1, <1>5, <1>6 DEF ReadsSettle, StillTheSame

LEMMA AppChangesSafely ==
  ASSUME RecoveryInv, NEW l \in RecoveryLeases, NEW need \in Needs, AppChanges(l, need)
  PROVE  RecoveryInv'
<1>1. RecoveryTypes /\ (\A k \in RecoveryLeases : Counted(k)) /\ ~overwritten /\ OnePrompt /\ PollingLives /\ Ticking
  BY DEF RecoveryInv
<1> DEFINE told == [attempts[l] EXCEPT !.known = FALSE]
<1>2. /\ needs' = [needs EXCEPT ![l] = need] /\ UNCHANGED <<poll, busy, recoverySigner, mints, overwritten>>
      /\ spent' = [spent EXCEPT ![l] = IF On(l) THEN -1 ELSE 0] /\ allowed' = [allowed EXCEPT ![l] = 0]
      /\ round' = IF On(l) THEN [round EXCEPT !.same = FALSE] ELSE round
      /\ attempts' = [attempts EXCEPT ![l] = IF On(l) THEN told ELSE NoAttempt]
  BY <1>1 DEF AppChanges, RecoveryTypes
<1>3. IsAttempt(told) /\ ~told.known
  BY <1>1 DEF RecoveryTypes, IsAttempt
<1> HIDE DEF told
<1>4. /\ DOMAIN attempts' = RecoveryLeases /\ \A k \in RecoveryLeases \ {l} : attempts'[k] = attempts[k]
      /\ IsAttempt(attempts'[l]) /\ ~attempts'[l].known
  BY <1>1, <1>2, <1>3, NewAttempts DEF RecoveryTypes
<1>5. /\ round' \in Rounds \union {NoRound} /\ (round = NoRound <=> round' = NoRound)
      /\ round # NoRound => /\ round'.step = round.step /\ round'.lease = round.lease /\ round'.mine = round.mine
                            /\ round'.signer = round.signer /\ round'.aborted = round.aborted
                            /\ round.lease = l => ~round'.same
                            /\ round.lease # l => round'.same = round.same
  BY <1>1, <1>2, RoundUnderWay, RoundKinds DEF Rounds, On
<1>6. RecoveryTypes'
  <2>1. \A k \in RecoveryLeases : IsAttempt(attempts'[k])
    BY <1>1, <1>4 DEF RecoveryTypes
  <2>2. needs' \in [RecoveryLeases -> Needs]
    BY <1>1, <1>2 DEF RecoveryTypes
  <2>3. spent' \in [RecoveryLeases -> Int] /\ allowed' \in [RecoveryLeases -> Nat]
    BY <1>1, <1>2 DEF RecoveryTypes
  <2>4. QED
    BY <1>1, <1>2, <1>4, <1>5, <2>1, <2>2, <2>3 DEF RecoveryTypes
<1>7. Counted(l)'
  <2>1. allowed'[l] = 0 /\ spent'[l] = (IF On(l) THEN -1 ELSE 0) /\ (On(l)' <=> On(l))
    BY <1>1, <1>2, <1>5 DEF RecoveryTypes, On
  <2>2. On(l) => ~round'.same
    BY <1>5 DEF On
  <2>3. QED
    BY <1>4, <2>1, <2>2 DEF Counted
<1>8. ASSUME NEW k \in RecoveryLeases \ {l} PROVE Counted(k)'
  <2>1. /\ needs'[k] = needs[k] /\ spent'[k] = spent[k] /\ allowed'[k] = allowed[k] /\ attempts'[k] = attempts[k]
    BY <1>1, <1>2, <1>4 DEF RecoveryTypes
  <2>2. QED
    BY <1>1, <1>5, <2>1 DEF Counted, On
<1>9. OnePrompt' /\ PollingLives' /\ Ticking'
  BY <1>1, <1>2, <1>5, RoundKinds DEF OnePrompt, RoundAt, PollingLives, Ticking
<1>10. \A k \in RecoveryLeases : Counted(k)'
  BY <1>7, <1>8
<1>11. QED
  BY <1>1, <1>2, <1>6, <1>9, <1>10 DEF RecoveryInv

\* A round that is aborted goes on until it notices.
LEMMA AbortSafely ==
  ASSUME RecoveryTypes
  PROVE  /\ RoundAborted \in Rounds \union {NoRound} /\ (round = NoRound <=> RoundAborted = NoRound)
         /\ round # NoRound =>
              /\ RoundAborted.aborted /\ RoundAborted.lease = round.lease /\ RoundAborted.same = round.same
              /\ RoundAborted.mine = round.mine
BY RoundUnderWay, RoundKinds DEF RoundAborted, Rounds

LEMMA ForegroundSafely ==
  ASSUME RecoveryInv, ForegroundBegins \/ ForegroundEnds
  PROVE  RecoveryInv'
<1>1. RecoveryTypes /\ (\A k \in RecoveryLeases : Counted(k)) /\ ~overwritten /\ OnePrompt /\ PollingLives /\ Ticking
  BY DEF RecoveryInv
<1>2. /\ UNCHANGED <<needs, attempts, poll, recoverySigner, mints, spent, allowed, overwritten>>
      /\ busy' \in BOOLEAN /\ (round' = RoundAborted \/ round' = round)
  BY DEF ForegroundBegins, ForegroundEnds, observers
<1>3. CASE round' = RoundAborted
  <2>1. RecoveryTypes'
    BY <1>1, <1>2, <1>3, AbortSafely DEF RecoveryTypes
  <2>2. \A k \in RecoveryLeases : Counted(k)'
    BY <1>1, <1>2, <1>3, AbortSafely DEF Counted, On
  <2>3. OnePrompt' /\ PollingLives' /\ Ticking'
    BY <1>1, <1>2, <1>3, AbortSafely, RoundKinds DEF OnePrompt, RoundAt, PollingLives, Ticking
  <2>4. QED
    BY <1>1, <1>2, <2>1, <2>2, <2>3 DEF RecoveryInv
<1>4. CASE round' = round
  <2>1. RecoveryTypes'
    BY <1>1, <1>2, <1>4 DEF RecoveryTypes
  <2>2. \A k \in RecoveryLeases : Counted(k)'
    BY <1>1, <1>2, <1>4 DEF Counted, On
  <2>3. OnePrompt' /\ PollingLives' /\ Ticking'
    BY <1>1, <1>2, <1>4 DEF OnePrompt, RoundAt, PollingLives, Ticking
  <2>4. QED
    BY <1>1, <1>2, <2>1, <2>2, <2>3 DEF RecoveryInv
<1>5. QED
  BY <1>2, <1>3, <1>4

\* A new epoch finds the round, if one is under way, aborted.
LEMMA EpochSafely ==
  ASSUME RecoveryInv, SignerRenewed \/ Disconnect \/ Reconnect
  PROVE  RecoveryInv'
<1>1. RecoveryTypes /\ (\A k \in RecoveryLeases : Counted(k)) /\ ~overwritten /\ OnePrompt /\ PollingLives /\ Ticking
  BY DEF RecoveryInv
<1>2. NewEpoch
  BY DEF SignerRenewed, Disconnect, Reconnect
<1>3. /\ UNCHANGED <<needs, busy, mints, overwritten>>
      /\ DOMAIN attempts' = RecoveryLeases /\ \A k \in RecoveryLeases : attempts'[k] = NoAttempt
      /\ spent' \in [RecoveryLeases -> Int] /\ allowed' \in [RecoveryLeases -> Nat]
      /\ \A k \in RecoveryLeases : spent'[k] = 0 /\ allowed'[k] = 0
  BY <1>2 DEF NewEpoch
<1>4. /\ round' \in Rounds \union {NoRound} /\ (round = NoRound <=> round' = NoRound)
      /\ round # NoRound =>
           /\ round'.aborted /\ round'.lease = round.lease /\ round'.same = round.same
           /\ round'.mine => round.mine /\ poll' = poll
  <2>1. CASE SignerRenewed
    BY <1>1, <2>1, AbortSafely DEF SignerRenewed
  <2>2. CASE Disconnect
    BY <1>1, <2>2, RoundUnderWay, RoundKinds DEF Disconnect, Rounds
  <2>3. CASE Reconnect
    BY <1>1, <2>3, RoundUnderWay DEF Reconnect, Ticking, RecoveryTypes
  <2>4. QED
    BY <2>1, <2>2, <2>3
<1>5. recoverySigner' \in 1..MaxSigners
  BY <1>1, RecoveryBounds DEF SignerRenewed, Disconnect, Reconnect, NewSigner, RecoveryTypes
<1>6. /\ poll' \in [on : BOOLEAN, hidden : BOOLEAN, timer : BOOLEAN, ticking : BOOLEAN]
      /\ PollingLives' /\ (~poll'.on => ~poll'.ticking /\ ~poll'.timer)
  BY <1>1 DEF SignerRenewed, Disconnect, Reconnect, PollingLives, Ticking, RecoveryTypes
<1>7. RecoveryTypes'
  BY <1>1, <1>3, <1>4, <1>5, <1>6, NewAttempts DEF RecoveryTypes
<1>8. ASSUME NEW k \in RecoveryLeases PROVE Counted(k)'
  BY <1>1, <1>3, <1>4, NewAttempts DEF Counted, On
<1>9. OnePrompt' /\ Ticking'
  BY <1>1, <1>3, <1>4, <1>6, RoundKinds DEF OnePrompt, RoundAt, Ticking
<1>10. QED
  BY <1>1, <1>3, <1>6, <1>7, <1>8, <1>9 DEF RecoveryInv

LEMMA PageSafely ==
  ASSUME RecoveryInv, HidePage \/ ShowPage
  PROVE  RecoveryInv'
<1>1. RecoveryTypes /\ (\A k \in RecoveryLeases : Counted(k)) /\ ~overwritten /\ OnePrompt /\ PollingLives /\ Ticking
  BY DEF RecoveryInv
<1>2. UNCHANGED <<needs, attempts, round, busy, recoverySigner, mints, spent, allowed, overwritten>>
  BY DEF HidePage, ShowPage, observers
<1>3. /\ poll' \in [on : BOOLEAN, hidden : BOOLEAN, timer : BOOLEAN, ticking : BOOLEAN]
      /\ poll'.on = poll.on /\ poll'.ticking = poll.ticking /\ (poll'.timer => poll.on)
      /\ PollingLives'
  BY <1>1 DEF HidePage, ShowPage, PollingLives, Ticking, RecoveryTypes
<1>4. RecoveryTypes'
  BY <1>1, <1>2, <1>3 DEF RecoveryTypes
<1>5. \A k \in RecoveryLeases : Counted(k)'
  BY <1>1, <1>2 DEF Counted, On
<1>6. OnePrompt' /\ Ticking'
  BY <1>1, <1>2, <1>3 DEF OnePrompt, RoundAt, Ticking
<1>7. QED
  BY <1>1, <1>2, <1>3, <1>4, <1>5, <1>6 DEF RecoveryInv

LEMMA TimePassesSafely ==
  ASSUME RecoveryInv, TimePasses
  PROVE  RecoveryInv'
<1>1. RecoveryTypes /\ (\A k \in RecoveryLeases : Counted(k)) /\ ~overwritten /\ OnePrompt /\ PollingLives /\ Ticking
  BY DEF RecoveryInv
<1>2. UNCHANGED <<needs, round, poll, busy, recoverySigner, mints, spent, allowed, overwritten>>
  BY DEF TimePasses, observers
<1>3. ASSUME NEW k \in RecoveryLeases
      PROVE  IsAttempt(attempts'[k]) /\ attempts'[k].tries = attempts[k].tries /\ attempts'[k].known = attempts[k].known
  <2>1. attempts'[k] = [attempts[k] EXCEPT !.wait = IF @ > Overdue THEN @ - 1 ELSE @]
    BY DEF TimePasses
  <2>2. QED
    BY <1>1, <2>1 DEF RecoveryTypes, IsAttempt
<1>4. RecoveryTypes'
  <2>1. DOMAIN attempts' = RecoveryLeases
    BY DEF TimePasses
  <2>2. QED
    BY <1>1, <1>2, <1>3, <2>1 DEF RecoveryTypes
<1>5. \A k \in RecoveryLeases : Counted(k)'
  BY <1>1, <1>2, <1>3 DEF Counted, On
<1>6. OnePrompt' /\ PollingLives' /\ Ticking'
  BY <1>1, <1>2 DEF OnePrompt, RoundAt, PollingLives, Ticking
<1>7. QED
  BY <1>1, <1>2, <1>4, <1>5, <1>6 DEF RecoveryInv

\* Every step of recovery keeps it paced.
LEMMA RecoveryStep ==
  ASSUME RecoveryInv, [RecoveryNext]_recoveryVars
  PROVE  RecoveryInv'
<1>1. CASE UNCHANGED recoveryVars
  BY <1>1 DEF RecoveryInv, recoveryVars, RecoveryTypes, Counted, On, OnePrompt, RoundAt, PollingLives, Ticking
<1>2. CASE RecoveryNext
  BY <1>2, RoundBeginsSafely, AppChangesSafely, TickFindsNothingSafely, RoundReturnsSafely, RoundUnwindsSafely,
     AuthTimesOutSafely, ReadsSettleSafely, MintSettlesSafely, ForegroundSafely, EpochSafely, PageSafely,
     TimePassesSafely
  DEF RecoveryNext
<1>3. QED
  BY <1>1, <1>2

-----------------------------------------------------------------------------
(* The setup of an account *)

\* The runs of the setup, and what is known of the chain and the overlay.
SetupRecords == [wallet : SetupWallets \union {Nobody}, step : Steps, new : BOOLEAN, pwr : Nat, before : Nat,
                 tries : Nat, alive : BOOLEAN]

SetupTypes ==
  /\ accounts \in [SetupWallets -> [pwr : Nat, credits : Nat]]
  /\ connected \in SetupWallets \union {Nobody}
  /\ setups \in [SetupRuns -> SetupRecords]
  /\ \A r \in SetupRuns : setups[r].step # "unborn" => setups[r].wallet \in SetupWallets
  /\ fundings \union landed \subseteq SetupRuns \X {1, 2}
  /\ DOMAIN overlay = {"shown", "run"} /\ overlay.shown \in BOOLEAN
  /\ dismissal \in BOOLEAN

\* The steps of a run that has not paid yet.
Early == {"balance", "early", "preDrip", "drip", "poll", "pause", "fresh"}

\* A funding was asked for, and may have landed.
Asked(r, n) == <<r, n>> \in fundings \union landed

\* A run asks for its first funding after its early steps.  Until it has looked again the
\* account holds the credits that it read, and more as soon as that funding has landed: a
\* look that sees no more of them was blind, or the funding is not there.
Paying(r) ==
  /\ setups[r].step \in Early \union {"unborn"} => ~Asked(r, 1) /\ ~Asked(r, 2)
  /\ setups[r].step \in {"funding", "wait", "recheck"} =>
       /\ ~Asked(r, 2)
       /\ setups[r].before <= Account(r).credits
       /\ <<r, 1>> \in landed => setups[r].before < Account(r).credits
  /\ Asked(r, 1) /\ Asked(r, 2) => r \in blind

\* One run at most is not aborted, and it is of the connected wallet; a timer to hide the
\* overlay is set by a run that is over.
Alone ==
  /\ \A r \in SetupRuns : setups[r].alive => connected \in SetupWallets /\ setups[r].wallet = connected
  /\ \A r, q \in SetupRuns : setups[r].alive /\ setups[q].alive => r = q
  /\ \A r \in SetupRuns : setups[r].alive => setups[r].step # "unborn"
  /\ dismissal => \A r \in SetupRuns : setups[r].alive => setups[r].step = "over"

\* The overlay is shown by the run that is not aborted, which has begun.
Covering ==
  /\ overlay.shown => overlay.run \in SetupRuns /\ setups[overlay.run].alive
  /\ dismissal => overlay.shown

\* SetupIsCareful, made inductive.
SetupInv == SetupTypes /\ (\A r \in SetupRuns : Paying(r)) /\ Alone /\ Covering

LEMMA SetupBounds ==
  /\ CreditAmount \in Nat /\ CreditAmount > 0 /\ GasReserve \in Nat /\ DripAmount \in Nat /\ MaxRuns \in Nat
  /\ Nobody \notin SetupWallets
BY SetupAssumption

LEMMA NewSetup ==
  /\ NoSetup \in SetupRecords
  /\ NoSetup.step = "unborn" /\ ~NoSetup.alive /\ NoSetup.wallet = Nobody
BY DEF NoSetup, SetupRecords, Steps

LEMMA InitSetup == SetupInit => SetupInv
<1> SUFFICES ASSUME SetupInit PROVE SetupInv
  OBVIOUS
<1>1. accounts \in [SetupWallets -> [pwr : Nat, credits : Nat]]
  <2>1. PICK opening \in Openings :
          accounts = [w \in SetupWallets |-> [pwr |-> opening[w].pwr, credits |-> opening[w].credits]]
    BY DEF SetupInit
  <2>2. opening \in [SetupWallets -> [pwr : Nat, credits : Nat, stored : SUBSET SetupFacts]]
    BY SetupAssumption
  <2>3. QED
    BY <2>1, <2>2
<1>2. /\ connected = Nobody /\ fundings = {} /\ landed = {} /\ ~overlay.shown /\ DOMAIN overlay = {"shown", "run"}
      /\ dismissal = FALSE /\ overlay.shown \in BOOLEAN
      /\ setups \in [SetupRuns -> SetupRecords] /\ \A r \in SetupRuns : setups[r] = NoSetup
  BY NewSetup DEF SetupInit
<1>3. SetupTypes
  BY <1>1, <1>2, NewSetup DEF SetupTypes
<1>4. QED
  BY <1>2, <1>3, NewSetup DEF SetupInv, Paying, Asked, Alone, Covering, Early

-----------------------------------------------------------------------------
\* What a resumption may do to the overlay: nothing, show it, show it with a timer at the
\* end of the run, or hide it.
OverlayMoves(r) ==
  \/ UNCHANGED <<overlay, dismissal>>
  \/ Shows(r) /\ UNCHANGED dismissal
  \/ Shows(r) /\ dismissal' = TRUE /\ setups'[r].step = "over"
  \/ Hides(r) /\ UNCHANGED dismissal

\* The run r, and no other, goes on to one of the steps S.
RunGoes(r, S) ==
  /\ setups' \in [SetupRuns -> SetupRecords] /\ \A q \in SetupRuns \ {r} : setups'[q] = setups[q]
  /\ setups'[r].wallet = setups[r].wallet /\ setups'[r].alive = setups[r].alive
  /\ setups'[r].step \in S

LEMMA TurnGoes ==
  ASSUME SetupTypes, NEW r \in SetupRuns, NEW s \in SetupRecords, Turn(r, s),
         s.wallet = setups[r].wallet, s.alive = setups[r].alive
  PROVE  RunGoes(r, {s.step}) /\ setups'[r] = s
BY DEF SetupTypes, Turn, RunGoes

LEMMA GotoGoes ==
  ASSUME SetupTypes, NEW r \in SetupRuns, NEW step \in Steps, Goto(r, step)
  PROVE  RunGoes(r, {step}) /\ setups'[r].before = setups[r].before
<1> DEFINE s == [setups[r] EXCEPT !.step = step]
<1>1. /\ s \in SetupRecords /\ s.wallet = setups[r].wallet /\ s.alive = setups[r].alive
      /\ s.step = step /\ s.before = setups[r].before
  BY DEF SetupTypes, SetupRecords
<1>2. Turn(r, s)
  BY DEF Goto
<1> HIDE DEF s
<1>3. QED
  BY <1>1, <1>2, TurnGoes

LEMMA ReturnsGoes ==
  ASSUME SetupTypes, NEW r \in SetupRuns, Returns(r)
  PROVE  RunGoes(r, {"over"})
<1> DEFINE s == [NoSetup EXCEPT !.wallet = setups[r].wallet, !.step = "over", !.alive = setups[r].alive]
<1>1. setups[r].wallet \in SetupWallets \union {Nobody} /\ setups[r].alive \in BOOLEAN
  BY DEF SetupTypes, SetupRecords
<1>2. /\ s \in SetupRecords /\ s.wallet = setups[r].wallet /\ s.alive = setups[r].alive /\ s.step = "over"
  BY <1>1 DEF NoSetup, SetupRecords, Steps
<1>3. Turn(r, s)
  BY DEF Returns
<1> HIDE DEF s
<1>4. QED
  BY <1>2, <1>3, TurnGoes

LEMMA EndingsMove ==
  ASSUME SetupTypes, NEW r \in SetupRuns, FinishWithError(r) \/ LeaveAsIs(r) \/ Complete(r) \/ FailOrLeave(r)
  PROVE  RunGoes(r, {"over"}) /\ OverlayMoves(r)
<1>1. RunGoes(r, {"over"})
  BY ReturnsGoes DEF FinishWithError, LeaveAsIs, Complete, FailOrLeave
<1>2. setups'[r].step = "over"
  BY <1>1 DEF RunGoes
<1>3. QED
  BY <1>1, <1>2 DEF FinishWithError, LeaveAsIs, Complete, FailOrLeave, OverlayMoves, NoVerdict

LEMMA DripFailedMoves ==
  ASSUME SetupTypes, NEW r \in SetupRuns, DripFailed(r)
  PROVE  RunGoes(r, {"pause", "over"}) /\ OverlayMoves(r)
<1> DEFINE s == [setups[r] EXCEPT !.step = "pause", !.tries = 1]
<1>1. CASE Turn(r, s) /\ Shows(r) /\ NoVerdict
  <2>1. s \in SetupRecords /\ s.wallet = setups[r].wallet /\ s.alive = setups[r].alive /\ s.step = "pause"
    BY ZenonT(60) DEF SetupTypes, SetupRecords, Steps
  <2> HIDE DEF s
  <2>2. RunGoes(r, {"pause"})
    BY <1>1, <2>1, TurnGoes
  <2>3. QED
    BY <1>1, <2>2 DEF RunGoes, OverlayMoves, NoVerdict
<1>2. CASE FinishWithError(r)
  BY <1>2, EndingsMove DEF RunGoes
<1>3. QED
  BY <1>1, <1>2 DEF DripFailed

\* What a resumption of r must respect; its own payments are considered apart.
LEMMA ResumeSafely ==
  ASSUME SetupInv, NEW r \in SetupRuns, setups[r].step # "unborn", RunGoes(r, Steps \ {"unborn"}),
         UNCHANGED <<accounts, connected, landed>>,
         fundings' \subseteq fundings \union {<<r, 1>>, <<r, 2>>}, blind \subseteq blind',
         Paying(r)',
         \/ setups[r].alive /\ setups[r].step # "over" /\ OverlayMoves(r)
         \/ UNCHANGED <<overlay, dismissal>> /\ ~setups[r].alive
  PROVE  SetupInv'
<1>1. SetupTypes /\ (\A q \in SetupRuns : Paying(q)) /\ Alone /\ Covering
  BY DEF SetupInv
<1>2. /\ setups' \in [SetupRuns -> SetupRecords] /\ \A q \in SetupRuns \ {r} : setups'[q] = setups[q]
      /\ setups'[r].wallet = setups[r].wallet /\ setups'[r].alive = setups[r].alive
      /\ setups'[r].step # "unborn" /\ setups[r].wallet \in SetupWallets
  BY <1>1 DEF RunGoes, SetupTypes
<1>3. setups[r].alive => setups[r].step = "over" \/ ~dismissal
  BY <1>1 DEF Alone
<1>4. DOMAIN overlay' = {"shown", "run"} /\ overlay'.shown \in BOOLEAN /\ dismissal' \in BOOLEAN
  <2>1. dismissal' \in BOOLEAN
    BY <1>1 DEF SetupTypes, OverlayMoves
  <2>2. CASE overlay' = overlay
    BY <1>1, <2>1, <2>2 DEF SetupTypes
  <2>3. CASE Shows(r)
    BY <2>1, <2>3 DEF Shows
  <2>4. CASE Hides(r)
    BY <2>1, <2>4 DEF Hides
  <2>5. QED
    BY <2>1, <2>2, <2>3, <2>4 DEF OverlayMoves
<1>5. SetupTypes'
  BY <1>1, <1>2, <1>4 DEF SetupTypes
<1>6. ASSUME NEW q \in SetupRuns \ {r} PROVE Paying(q)'
  <2>1. /\ Asked(q, 1)' => Asked(q, 1)
        /\ Asked(q, 2)' => Asked(q, 2)
        /\ <<q, 1>> \in landed' <=> <<q, 1>> \in landed
        /\ q \in blind => q \in blind'
        /\ Account(q)' = Account(q)
    BY <1>2 DEF Asked, Account
  <2>2. QED
    BY <1>1, <1>2, <2>1 DEF Paying
<1>7. Alone'
  BY <1>1, <1>2, <1>3 DEF Alone, OverlayMoves
<1>8. Covering'
  BY <1>1, <1>2, <1>3 DEF Covering, OverlayMoves, Shows, Hides
<1>9. QED
  BY <1>5, <1>6, <1>7, <1>8 DEF SetupInv

\* A resumption that asks for no funding, of a run that has not asked for one.
LEMMA EarlyResumeSafely ==
  ASSUME SetupInv, NEW r \in SetupRuns, setups[r].step \in Early, setups[r].alive,
         RunGoes(r, Early \union {"over"}), OverlayMoves(r),
         UNCHANGED <<accounts, connected, landed, fundings, blind>>
  PROVE  SetupInv'
<1>1. setups'[r].step \in Early \union {"over"}
  BY DEF RunGoes
<1>2. ~Asked(r, 1)' /\ ~Asked(r, 2)'
  BY DEF SetupInv, Paying, Asked
<1>3. Paying(r)'
  BY <1>1, <1>2 DEF Paying, Early
<1>4. RunGoes(r, Steps \ {"unborn"})
  BY DEF RunGoes, Early, Steps
<1>5. QED
  BY <1>3, <1>4, ResumeSafely DEF Early

LEMMA EarlyActionsSafely ==
  ASSUME SetupInv, NEW r \in SetupRuns,
         BalanceRead(r) \/ EarlyCreditRead(r) \/ PreDripRead(r) \/ DripAnswered(r) \/ PollEnds(r) \/ PauseEnds(r)
  PROVE  SetupInv'
<1>1. SetupTypes
  BY DEF SetupInv
<1>2. setups[r].alive /\ setups[r].step \in Early
  BY DEF BalanceRead, EarlyCreditRead, PreDripRead, DripAnswered, PollEnds, PauseEnds, SetupAt, Early
<1>3. UNCHANGED <<accounts, connected, landed, fundings, blind>>
  BY DEF BalanceRead, EarlyCreditRead, PreDripRead, DripAnswered, PollEnds, PauseEnds, ChainStays, SameWallet
<1>4. setups[r] \in SetupRecords /\ accounts \in [SetupWallets -> [pwr : Nat, credits : Nat]]
      /\ setups[r].wallet \in SetupWallets
  BY <1>1, <1>2 DEF SetupTypes, Early
<1>5. Account(r) \in [pwr : Nat, credits : Nat]
  BY <1>4 DEF Account
<1>6. ASSUME NEW s \in SetupRecords, Turn(r, s), s.wallet = setups[r].wallet, s.alive = setups[r].alive,
             s.step \in Early, OverlayMoves(r)
      PROVE  SetupInv'
  <2>1. RunGoes(r, Early \union {"over"})
    BY <1>1, <1>6, TurnGoes DEF RunGoes
  <2>2. QED
    BY <1>2, <1>3, <1>6, <2>1, EarlyResumeSafely
<1>7. ASSUME RunGoes(r, {"pause", "over"}), OverlayMoves(r) PROVE SetupInv'
  <2>1. RunGoes(r, Early \union {"over"})
    BY <1>7 DEF RunGoes, Early
  <2>2. QED
    BY <1>2, <1>3, <1>7, <2>1, EarlyResumeSafely
<1>8. ASSUME FinishWithError(r) \/ LeaveAsIs(r) \/ Complete(r) \/ FailOrLeave(r) PROVE SetupInv'
  <2>1. RunGoes(r, {"pause", "over"}) /\ OverlayMoves(r)
    BY <1>1, <1>8, EndingsMove DEF RunGoes
  <2>2. QED
    BY <1>7, <2>1
<1>9. ASSUME DripFailed(r) PROVE SetupInv'
  BY <1>1, <1>7, <1>9, DripFailedMoves
<1>10. ASSUME NEW step \in Early, Goto(r, step), OverlayMoves(r) PROVE SetupInv'
  <2>1. step \in Steps
    BY DEF Early, Steps
  <2>2. RunGoes(r, Early \union {"over"})
    BY <1>1, <1>10, <2>1, GotoGoes DEF RunGoes
  <2>3. QED
    BY <1>2, <1>3, <1>10, <2>2, EarlyResumeSafely
<1>11. CASE BalanceRead(r)
  <2>1. CASE Turn(r, [setups[r] EXCEPT !.step = "early", !.pwr = Account(r).pwr]) /\ UNCHANGED <<overlay, dismissal>>
    <3> DEFINE s == [setups[r] EXCEPT !.step = "early", !.pwr = Account(r).pwr]
    <3>1. s \in SetupRecords /\ s.wallet = setups[r].wallet /\ s.alive = setups[r].alive /\ s.step \in Early
      BY <1>4, <1>5 DEF SetupRecords, Steps, Early
    <3> HIDE DEF s
    <3>2. QED
      BY <1>6, <2>1, <3>1 DEF OverlayMoves, s
  <2>2. CASE Turn(r, [setups[r] EXCEPT !.step = "early", !.new = TRUE, !.pwr = 0]) /\ Shows(r) /\ UNCHANGED dismissal
    <3> DEFINE s == [setups[r] EXCEPT !.step = "early", !.new = TRUE, !.pwr = 0]
    <3>1. s \in SetupRecords /\ s.wallet = setups[r].wallet /\ s.alive = setups[r].alive /\ s.step \in Early
      BY <1>4 DEF SetupRecords, Steps, Early
    <3> HIDE DEF s
    <3>2. QED
      BY <1>6, <2>2, <3>1 DEF OverlayMoves, s
  <2>3. QED
    BY <1>8, <1>11, <2>1, <2>2 DEF BalanceRead
<1>12. CASE EarlyCreditRead(r)
  <2>1. CASE Returns(r) /\ Hides(r) /\ UNCHANGED dismissal
    <3>1. RunGoes(r, {"pause", "over"}) /\ OverlayMoves(r)
      BY <1>1, <2>1, ReturnsGoes DEF RunGoes, OverlayMoves
    <3>2. QED
      BY <1>7, <3>1
  <2>2. CASE /\ Goto(r, IF Faucets(r, setups[r].pwr) THEN "preDrip" ELSE "fresh")
             /\ Shows(r) /\ NoVerdict
    <3>1. PICK step \in Early : Goto(r, step)
      BY <2>2 DEF Early
    <3>2. QED
      BY <1>10, <2>2, <3>1 DEF OverlayMoves, NoVerdict
  <2>3. QED
    BY <1>12, <2>1, <2>2 DEF EarlyCreditRead
<1>13. CASE PreDripRead(r)
  <2>1. CASE Turn(r, [setups[r] EXCEPT !.step = "drip", !.before = Account(r).pwr]) /\ UNCHANGED <<overlay, dismissal>>
    <3> DEFINE s == [setups[r] EXCEPT !.step = "drip", !.before = Account(r).pwr]
    <3>1. s \in SetupRecords /\ s.wallet = setups[r].wallet /\ s.alive = setups[r].alive /\ s.step \in Early
      BY <1>4, <1>5 DEF SetupRecords, Steps, Early
    <3> HIDE DEF s
    <3>2. QED
      BY <1>6, <2>1, <3>1 DEF OverlayMoves, s
  <2>2. QED
    BY <1>9, <1>13, <2>1 DEF PreDripRead
<1>14. CASE DripAnswered(r)
  <2>1. CASE Goto(r, "poll") /\ NoVerdict /\ UNCHANGED overlay
    BY <1>10, <2>1 DEF OverlayMoves, NoVerdict, Early
  <2>2. QED
    BY <1>9, <1>14, <2>1 DEF DripAnswered
<1>15. CASE PollEnds(r)
  <2>1. CASE Goto(r, "fresh") /\ NoVerdict /\ UNCHANGED overlay
    BY <1>10, <2>1 DEF OverlayMoves, NoVerdict, Early
  <2>2. QED
    BY <1>9, <1>15, <2>1 DEF PollEnds
<1>16. CASE PauseEnds(r)
  BY <1>10, <1>16 DEF PauseEnds, OverlayMoves, NoVerdict, Early
<1>17. QED
  BY <1>11, <1>12, <1>13, <1>14, <1>15, <1>16

\* An aborted run changes nothing but itself, and asks for nothing.
LEMMA AbortedReturnsSafely ==
  ASSUME SetupInv, NEW r \in SetupRuns, AbortedReturns(r)
  PROVE  SetupInv'
<1>1. SetupTypes /\ Paying(r)
  BY DEF SetupInv
<1>2. /\ setups[r].step # "unborn" /\ ~setups[r].alive
      /\ UNCHANGED <<accounts, connected, landed, fundings, blind, overlay, dismissal>>
  BY DEF AbortedReturns, ChainStays, SameWallet
<1>3. RunGoes(r, {"over"})
  BY <1>1, ReturnsGoes DEF AbortedReturns
<1>4. RunGoes(r, Steps \ {"unborn"})
  BY <1>3 DEF RunGoes, Steps
<1>5. Paying(r)'
  BY <1>1, <1>2, <1>3 DEF Paying, Asked, RunGoes, Early
<1>6. QED
  BY <1>2, <1>4, <1>5, ResumeSafely

-----------------------------------------------------------------------------
\* The run pays for the first time if the funds are there and the credits are not.
LEMMA FreshReadSafely ==
  ASSUME SetupInv, NEW r \in SetupRuns, FreshRead(r)
  PROVE  SetupInv'
<1>1. SetupTypes /\ Paying(r) /\ setups[r].alive /\ setups[r].step = "fresh"
  BY DEF SetupInv, FreshRead, SetupAt
<1>2. UNCHANGED <<accounts, connected, landed, blind>>
  BY DEF FreshRead, SameWallet
<1>3. setups[r] \in SetupRecords /\ Account(r) \in [pwr : Nat, credits : Nat] /\ setups[r].wallet \in SetupWallets
  BY <1>1 DEF SetupTypes, Account
<1>4. ~Asked(r, 1) /\ ~Asked(r, 2)
  BY <1>1 DEF Paying, Early
<1>5. ASSUME FinishWithError(r) \/ LeaveAsIs(r) \/ Complete(r) \/ FailOrLeave(r), UNCHANGED fundings
      PROVE  SetupInv'
  <2>1. RunGoes(r, Early \union {"over"}) /\ OverlayMoves(r)
    BY <1>1, <1>5, EndingsMove DEF RunGoes
  <2>2. QED
    BY <1>1, <1>2, <1>5, <2>1, EarlyResumeSafely DEF Early
<1>6. ASSUME Turn(r, [setups[r] EXCEPT !.step = "funding", !.before = Account(r).credits]),
             SubmitFunding(r, 1), Shows(r), NoVerdict
      PROVE  SetupInv'
  <2> DEFINE s == [setups[r] EXCEPT !.step = "funding", !.before = Account(r).credits]
  <2>1. /\ s \in SetupRecords /\ s.wallet = setups[r].wallet /\ s.alive = setups[r].alive /\ s.step = "funding"
        /\ s.before = Account(r).credits
    BY <1>3 DEF SetupRecords, Steps
  <2>2. Turn(r, s)
    BY <1>6
  <2> HIDE DEF s
  <2>3. RunGoes(r, {"funding"}) /\ setups'[r] = s
    BY <1>1, <2>1, <2>2, TurnGoes
  <2>4. fundings' \subseteq fundings \union {<<r, 1>>}
    BY <1>6 DEF SubmitFunding
  <2>5. Account(r)' = Account(r) /\ Account(r).credits \in Nat
    BY <1>2, <1>3, <2>1, <2>3 DEF Account
  <2>6. Paying(r)'
    BY <1>2, <1>4, <2>1, <2>3, <2>4, <2>5 DEF Paying, Asked, Early
  <2>7. RunGoes(r, Steps \ {"unborn"}) /\ OverlayMoves(r)
    BY <1>6, <2>3 DEF RunGoes, Steps, OverlayMoves, NoVerdict
  <2>8. QED
    BY <1>1, <1>2, <2>4, <2>6, <2>7, ResumeSafely
<1>7. QED
  BY <1>5, <1>6 DEF FreshRead

\* A run that has paid may end whatever the chain says.
LEMMA EndsSafely ==
  ASSUME SetupInv, NEW r \in SetupRuns, setups[r].alive, setups[r].step \notin {"unborn", "over"},
         FinishWithError(r) \/ Complete(r),
         UNCHANGED <<accounts, connected, landed, blind>>, fundings' \subseteq fundings
  PROVE  SetupInv'
<1>1. SetupTypes /\ Paying(r)
  BY DEF SetupInv
<1>2. RunGoes(r, {"over"}) /\ OverlayMoves(r)
  BY <1>1, EndingsMove
<1>3. Paying(r)'
  BY <1>1, <1>2 DEF Paying, Asked, RunGoes, Early
<1>4. RunGoes(r, Steps \ {"unborn"})
  BY <1>2 DEF RunGoes, Steps
<1>5. QED
  BY <1>2, <1>3, <1>4, ResumeSafely

\* ... and goes on to wait and to look without asking for more.
LEMMA LooksSafely ==
  ASSUME SetupInv, NEW r \in SetupRuns, setups[r].alive, setups[r].step \in {"funding", "wait"},
         NEW step \in {"wait", "recheck"}, Goto(r, step), OverlayMoves(r),
         UNCHANGED <<accounts, connected, landed, blind>>, fundings' \subseteq fundings
  PROVE  SetupInv'
<1>1. SetupTypes /\ Paying(r)
  BY DEF SetupInv
<1>2. RunGoes(r, {step}) /\ setups'[r].before = setups[r].before
  BY <1>1, GotoGoes DEF Steps
<1>3. Account(r)' = Account(r) /\ setups'[r].step = step
  BY <1>2 DEF Account, RunGoes
<1>4. Paying(r)'
  BY <1>1, <1>2, <1>3 DEF Paying, Asked, Early
<1>5. RunGoes(r, Steps \ {"unborn"})
  BY <1>2 DEF RunGoes, Steps
<1>6. QED
  BY <1>4, <1>5, ResumeSafely

\* The run pays again only if its look sees no credits: then the first funding has not
\* landed, or the look was blind.
LEMMA CreditRecheckSafely ==
  ASSUME SetupInv, NEW r \in SetupRuns, CreditRecheck(r)
  PROVE  SetupInv'
<1>1. SetupTypes /\ Paying(r) /\ setups[r].alive /\ setups[r].step = "recheck"
  BY DEF SetupInv, CreditRecheck, SetupAt
<1>2. UNCHANGED <<accounts, connected, landed>>
  BY DEF CreditRecheck, SameWallet
<1>3. CASE Complete(r) /\ UNCHANGED <<fundings, blind>>
  BY <1>1, <1>2, <1>3, EndsSafely
<1>4. ASSUME \/ /\ ~HasRisen(setups[r].before, Account(r).credits)
                /\ blind' = IF <<r, 1>> \in fundings THEN blind \union {r} ELSE blind
             \/ blind' = blind \union {r},
             Goto(r, "refunding"), SubmitFunding(r, 2), Shows(r), NoVerdict
      PROVE  SetupInv'
  <2>1. RunGoes(r, {"refunding"})
    BY <1>1, <1>4, GotoGoes DEF Steps
  <2>2. setups[r].before \in Nat /\ Account(r).credits \in Nat
    BY <1>1 DEF SetupTypes, SetupRecords, Account
  <2>3. r \in blind' \/ ~Asked(r, 1)
    BY <1>1, <1>4, <2>2 DEF Paying, HasRisen, Asked
  <2>4. fundings' \subseteq fundings \union {<<r, 2>>} /\ blind \subseteq blind'
    BY <1>4 DEF SubmitFunding
  <2>5. Asked(r, 1)' => Asked(r, 1)
    BY <1>2, <2>4 DEF Asked
  <2>6. Paying(r)'
    BY <2>1, <2>3, <2>5 DEF Paying, RunGoes, Early
  <2>7. RunGoes(r, Steps \ {"unborn"}) /\ OverlayMoves(r)
    BY <1>4, <2>1 DEF RunGoes, Steps, OverlayMoves, NoVerdict
  <2>8. QED
    BY <1>1, <1>2, <2>4, <2>6, <2>7, ResumeSafely
<1>5. QED
  BY <1>3, <1>4 DEF CreditRecheck

LEMMA FundingActionsSafely ==
  ASSUME SetupInv, NEW r \in SetupRuns, FundingAnswered(r) \/ RetryDelayEnds(r) \/ RefundingAnswered(r)
  PROVE  SetupInv'
<1>1. UNCHANGED <<accounts, connected, landed, blind>> /\ fundings' \subseteq fundings /\ setups[r].alive
  BY DEF FundingAnswered, RetryDelayEnds, RefundingAnswered, ChainStays, SameWallet, SetupAt
<1>2. CASE FundingAnswered(r)
  <2>1. setups[r].step = "funding"
    BY <1>2 DEF FundingAnswered, SetupAt
  <2>2. CASE Complete(r)
    BY <1>1, <2>1, <2>2, EndsSafely
  <2>3. CASE Goto(r, "wait") /\ Shows(r) /\ NoVerdict
    BY <1>1, <2>1, <2>3, LooksSafely DEF OverlayMoves, NoVerdict
  <2>4. QED
    BY <1>2, <2>2, <2>3 DEF FundingAnswered
<1>3. CASE RetryDelayEnds(r)
  BY <1>1, <1>3, LooksSafely DEF RetryDelayEnds, SetupAt, OverlayMoves, NoVerdict
<1>4. CASE RefundingAnswered(r)
  BY <1>1, <1>4, EndsSafely DEF RefundingAnswered, SetupAt
<1>5. QED
  BY <1>2, <1>3, <1>4

-----------------------------------------------------------------------------
\* Credits only grow.
LEMMA CreditsGrowSafely ==
  ASSUME SetupInv, UNCHANGED <<connected, setups, overlay, dismissal, blind>>,
         accounts' \in [SetupWallets -> [pwr : Nat, credits : Nat]],
         \A w \in SetupWallets : accounts[w].credits <= accounts'[w].credits,
         fundings' \subseteq fundings, landed' \subseteq landed \union fundings,
         \A r \in SetupRuns : <<r, 1>> \in landed' \ landed =>
            accounts[setups[r].wallet].credits < accounts'[setups[r].wallet].credits
  PROVE  SetupInv'
<1>1. SetupTypes /\ (\A q \in SetupRuns : Paying(q)) /\ Alone /\ Covering
  BY DEF SetupInv
<1>2. SetupTypes'
  BY <1>1 DEF SetupTypes
<1>3. ASSUME NEW q \in SetupRuns PROVE Paying(q)'
  <2>1. /\ Asked(q, 1)' => Asked(q, 1)
        /\ Asked(q, 2)' => Asked(q, 2)
    BY DEF Asked
  <2>2. Paying(q)
    BY <1>1
  <2>3. ASSUME setups[q].step \in {"funding", "wait", "recheck"}
        PROVE  /\ setups[q].before <= Account(q)'.credits
               /\ <<q, 1>> \in landed' => setups[q].before < Account(q)'.credits
    <3>1. setups[q].wallet \in SetupWallets /\ setups[q].before \in Nat
      BY <1>1, <2>3 DEF SetupTypes, SetupRecords
    <3>2. /\ Account(q).credits \in Nat /\ Account(q)'.credits \in Nat
          /\ Account(q).credits <= Account(q)'.credits
          /\ <<q, 1>> \in landed' => \/ <<q, 1>> \in landed
                                     \/ Account(q).credits < Account(q)'.credits
      BY <1>1, <3>1 DEF SetupTypes, Account
    <3>3. QED
      BY <2>2, <2>3, <3>1, <3>2 DEF Paying
  <2>4. QED
    BY <2>1, <2>2, <2>3 DEF Paying
<1>4. Alone' /\ Covering'
  BY <1>1 DEF Alone, Covering
<1>5. QED
  BY <1>2, <1>3, <1>4 DEF SetupInv

LEMMA ChainActsSafely ==
  ASSUME SetupInv,
         \/ \E w \in SetupWallets : DripLands(w)
         \/ \E r \in SetupRuns, n \in {1, 2} : FundingLands(r, n)
  PROVE  SetupInv'
<1>1. SetupTypes /\ (\A q \in SetupRuns : Paying(q))
  BY DEF SetupInv
<1>2. CASE \E w \in SetupWallets : DripLands(w)
  <2>1. PICK w \in SetupWallets : DripLands(w)
    BY <1>2
  <2>2. UNCHANGED <<connected, setups, overlay, dismissal, blind, fundings, landed>>
    BY <2>1 DEF DripLands, SameWallet
  <2>3. accounts' = [accounts EXCEPT ![w].pwr = @ + DripAmount] \/ accounts' = accounts
    BY <2>1 DEF DripLands
  <2>4. accounts' \in [SetupWallets -> [pwr : Nat, credits : Nat]]
    BY <1>1, <2>3, SetupBounds DEF SetupTypes
  <2>5. \A x \in SetupWallets : accounts[x].credits <= accounts'[x].credits
    BY <1>1, <2>3 DEF SetupTypes
  <2>6. QED
    BY <2>2, <2>4, <2>5, CreditsGrowSafely
<1>3. ASSUME NEW r \in SetupRuns, NEW n \in {1, 2}, FundingLands(r, n) PROVE SetupInv'
  <2>1. /\ UNCHANGED <<connected, setups, overlay, dismissal, blind>>
        /\ <<r, n>> \in fundings /\ fundings' \subseteq fundings
    BY <1>3 DEF FundingLands, SameWallet
  <2>2. setups[r].wallet \in SetupWallets
    <3>1. Asked(r, 1) \/ Asked(r, 2)
      BY <2>1 DEF Asked
    <3>2. setups[r].step # "unborn"
      BY <1>1, <3>1 DEF Paying
    <3>3. QED
      BY <1>1, <3>2 DEF SetupTypes
  <2>3. CASE UNCHANGED <<accounts, landed>>
    <3>1. accounts' \in [SetupWallets -> [pwr : Nat, credits : Nat]]
          /\ \A x \in SetupWallets : accounts[x].credits <= accounts'[x].credits
      BY <1>1, <2>3 DEF SetupTypes
    <3>2. QED
      BY <2>1, <2>3, <3>1, CreditsGrowSafely
  <2>4. CASE /\ accounts[setups[r].wallet].pwr >= CreditAmount + GasReserve
             /\ accounts' = [accounts EXCEPT ![setups[r].wallet] = [pwr |-> @.pwr - CreditAmount - GasReserve,
                                                                    credits |-> @.credits + CreditAmount]]
             /\ landed' = landed \union {<<r, n>>}
    <3> DEFINE w == setups[r].wallet
    <3>1. accounts[w].pwr \in Nat /\ accounts[w].credits \in Nat
      BY <1>1, <2>2 DEF SetupTypes
    <3> DEFINE paid == [pwr |-> accounts[w].pwr - CreditAmount - GasReserve,
                        credits |-> accounts[w].credits + CreditAmount]
    <3>2. paid \in [pwr : Nat, credits : Nat] /\ accounts[w].credits < paid.credits
      BY <2>4, <3>1, SetupBounds
    <3>3. accounts' = [accounts EXCEPT ![w] = paid]
      BY <1>1, <2>2, <2>4 DEF SetupTypes
    <3> HIDE DEF paid
    <3>4. accounts' \in [SetupWallets -> [pwr : Nat, credits : Nat]] /\ accounts[w].credits < accounts'[w].credits
      BY <1>1, <2>2, <3>2, <3>3 DEF SetupTypes
    <3>5. \A x \in SetupWallets : accounts[x].credits <= accounts'[x].credits
      BY <1>1, <2>2, <3>1, <3>2, <3>3 DEF SetupTypes
    <3>6. \A q \in SetupRuns : <<q, 1>> \in landed' \ landed => q = r
      BY <2>4
    <3>7. landed' \subseteq landed \union fundings
      BY <2>1, <2>4
    <3>8. QED
      BY <2>1, <3>4, <3>5, <3>6, <3>7, CreditsGrowSafely
  <2>5. QED
    BY <1>3, <2>3, <2>4 DEF FundingLands
<1>4. QED
  BY <1>2, <1>3

-----------------------------------------------------------------------------
\* The run that begins is one that has not begun.
LEMMA NextRunIsUnborn ==
  ASSUME setups[MaxRuns].step = "unborn", SetupRuns # {}
  PROVE  NextRun \in SetupRuns /\ setups[NextRun].step = "unborn"
<1> DEFINE R == {p \in Nat \X Nat : p[1] < p[2]}
           free == {r \in SetupRuns : setups[r].step = "unborn"}
<1>1. free \in SUBSET Nat /\ free # {}
  BY SetupBounds DEF SetupRuns
<1>2. \A i, j \in Nat : <<j, i>> \in R <=> j < i
  OBVIOUS
<1>3. IsWellFoundedOn(R, Nat)
  BY LessIsWellFounded
<1> HIDE DEF R
<1>4. PICK r \in free : \A q \in free : <<q, r>> \notin R
  BY <1>1, <1>3, WFMin
<1>5. r \in SetupRuns /\ setups[r].step = "unborn" /\ \A q \in SetupRuns : q < r => setups[q].step # "unborn"
  BY <1>1, <1>2, <1>4
<1>6. QED
  BY <1>5 DEF NextRun

LEMMA ConnectWalletSafely ==
  ASSUME SetupInv, NEW w \in SetupWallets, ConnectWallet(w)
  PROVE  SetupInv'
<1> DEFINE born == [NoSetup EXCEPT !.wallet = w, !.step = "balance", !.alive = TRUE, !.new = ~KnownAsSetUp(w)]
<1>1. SetupTypes /\ (\A q \in SetupRuns : Paying(q)) /\ Alone /\ Covering
  BY DEF SetupInv
<1>2. /\ UNCHANGED <<accounts, fundings, landed, blind>>
      /\ connected' = w /\ ~overlay'.shown /\ overlay'.shown \in BOOLEAN /\ DOMAIN overlay' = {"shown", "run"}
      /\ dismissal' = FALSE
      /\ setups' = [NoneAlive EXCEPT ![NextRun] = born]
      /\ setups[MaxRuns].step = "unborn"
  BY DEF ConnectWallet, ChainStays, Hides
<1>3. born \in SetupRecords /\ born.alive /\ born.wallet = w /\ born.step = "balance"
  BY DEF NoSetup, SetupRecords, Steps, KnownAsSetUp
<1> HIDE DEF born
<1>4. NextRun \in SetupRuns => setups[NextRun].step = "unborn"
  BY <1>2, NextRunIsUnborn
<1>5. ASSUME NEW r \in SetupRuns
      PROVE  /\ NoneAlive[r] \in SetupRecords /\ ~NoneAlive[r].alive
             /\ NoneAlive[r].step = setups[r].step /\ NoneAlive[r].wallet = setups[r].wallet
             /\ NoneAlive[r].before = setups[r].before
  BY <1>1 DEF NoneAlive, SetupTypes, SetupRecords
<1>6. /\ setups' \in [SetupRuns -> SetupRecords]
      /\ \A r \in SetupRuns : setups'[r] = IF r = NextRun THEN born ELSE NoneAlive[r]
  BY <1>2, <1>3, <1>5 DEF NoneAlive
<1>7. SetupTypes'
  BY <1>1, <1>2, <1>3, <1>5, <1>6 DEF SetupTypes
<1>8. ASSUME NEW q \in SetupRuns PROVE Paying(q)'
  <2>1. /\ Asked(q, 1)' <=> Asked(q, 1)
        /\ Asked(q, 2)' <=> Asked(q, 2)
    BY <1>2 DEF Asked
  <2>2. CASE q = NextRun
    <3>1. ~Asked(q, 1) /\ ~Asked(q, 2)
      BY <1>1, <1>4, <2>2 DEF Paying
    <3>2. QED
      BY <1>3, <1>6, <2>1, <2>2, <3>1 DEF Paying
  <2>3. CASE q # NextRun
    BY <1>1, <1>2, <1>5, <1>6, <2>1, <2>3 DEF Paying, Account
  <2>4. QED
    BY <2>2, <2>3
<1>9. Alone'
  BY <1>1, <1>2, <1>3, <1>5, <1>6 DEF Alone
<1>10. Covering'
  BY <1>2 DEF Covering
<1>11. QED
  BY <1>7, <1>8, <1>9, <1>10 DEF SetupInv

LEMMA DisconnectWalletSafely ==
  ASSUME SetupInv, DisconnectWallet
  PROVE  SetupInv'
<1>1. SetupTypes /\ (\A q \in SetupRuns : Paying(q)) /\ Alone /\ Covering
  BY DEF SetupInv
<1>2. /\ UNCHANGED <<accounts, fundings, landed, blind>>
      /\ connected' = Nobody /\ ~overlay'.shown /\ overlay'.shown \in BOOLEAN /\ DOMAIN overlay' = {"shown", "run"}
      /\ dismissal' = FALSE /\ setups' = NoneAlive
  BY <1>1 DEF DisconnectWallet, ChainStays, SetupTypes
<1>3. ASSUME NEW r \in SetupRuns
      PROVE  /\ setups'[r] \in SetupRecords /\ ~setups'[r].alive
             /\ setups'[r].step = setups[r].step /\ setups'[r].wallet = setups[r].wallet
             /\ setups'[r].before = setups[r].before
  BY <1>1, <1>2 DEF NoneAlive, SetupTypes, SetupRecords
<1>4. SetupTypes'
  <2>1. setups' \in [SetupRuns -> SetupRecords]
    BY <1>2, <1>3 DEF NoneAlive
  <2>2. QED
    BY <1>1, <1>2, <1>3, <2>1 DEF SetupTypes
<1>5. ASSUME NEW q \in SetupRuns PROVE Paying(q)'
  BY <1>1, <1>2, <1>3 DEF Paying, Asked, Account
<1>6. Alone' /\ Covering'
  BY <1>2, <1>3 DEF Alone, Covering
<1>7. QED
  BY <1>4, <1>5, <1>6 DEF SetupInv

LEMMA SetupRestSafely ==
  ASSUME SetupInv, SignerReady \/ DismissalFires \/ UNCHANGED setupVars
  PROVE  SetupInv'
<1>1. SetupTypes /\ (\A q \in SetupRuns : Paying(q)) /\ Alone /\ Covering
  BY DEF SetupInv
<1>2. UNCHANGED <<accounts, fundings, landed, blind, connected, setups>>
  BY DEF SignerReady, DismissalFires, setupVars, ChainStays, SameWallet
<1>3. \/ UNCHANGED <<overlay, dismissal>>
      \/ overlay' = [overlay EXCEPT !.shown = FALSE] /\ dismissal' = FALSE
  BY DEF SignerReady, DismissalFires, setupVars
<1>4. DOMAIN overlay' = {"shown", "run"} /\ overlay'.shown \in BOOLEAN /\ dismissal' \in BOOLEAN
  BY <1>1, <1>3 DEF SetupTypes
<1>5. SetupTypes'
  BY <1>1, <1>2, <1>4 DEF SetupTypes
<1>6. ASSUME NEW q \in SetupRuns PROVE Paying(q)'
  BY <1>1, <1>2 DEF Paying, Asked, Account
<1>7. Alone'
  BY <1>1, <1>2, <1>3 DEF Alone
<1>8. Covering'
  BY <1>1, <1>2, <1>3 DEF Covering, SetupTypes
<1>9. QED
  BY <1>5, <1>6, <1>7, <1>8 DEF SetupInv

\* Every step of the setups keeps what they paid for known.
LEMMA SetupStep ==
  ASSUME SetupInv, [SetupNext]_setupVars
  PROVE  SetupInv'
<1>1. CASE UNCHANGED setupVars
  BY <1>1, SetupRestSafely
<1>2. CASE SetupNext
  BY <1>2, ConnectWalletSafely, ChainActsSafely, DisconnectWalletSafely, SetupRestSafely, AbortedReturnsSafely,
     EarlyActionsSafely, FreshReadSafely, FundingActionsSafely, CreditRecheckSafely
  DEF SetupNext, Resumes
<1>3. QED
  BY <1>1, <1>2

\* What the invariant means: no second payment but a blind one, and no overlay but of the
\* connected wallet.
LEMMA SetupIsSafe == SetupInv => PaysOnce /\ OverlayIsCurrent
<1>1. ASSUME SetupInv, NEW r \in SetupRuns, {<<r, 1>>, <<r, 2>>} \subseteq landed
      PROVE  r \in blind
  BY <1>1 DEF SetupInv, Paying, Asked
<1>2. SetupInv => OverlayIsCurrent
  BY SetupBounds DEF SetupInv, Covering, Alone, OverlayIsCurrent
<1>3. QED
  BY <1>1, <1>2 DEF PaysOnce

-----------------------------------------------------------------------------
(* The registry *)

\* RegistryIsShown, made inductive: a tab that works on a copy of its own had a write
\* refused, so that the others all show what is stored or are about to be told.
ShownInv ==
  /\ DOMAIN copy = Tabs /\ DOMAIN rendered = Tabs /\ due \in [Tabs -> BOOLEAN]
  /\ \A t \in Tabs : copy[t] # None => t \in unsavedOnce
  /\ RenderedIsCurrent

LEMMA InitShown == RegistryInit => ShownInv
BY DEF RegistryInit, ShownInv, RenderedIsCurrent, View

\* A write that is told, or that shows nothing new, leaves every tab current or with an event
\* on its way.
LEMMA WrittenSafely ==
  ASSUME ShownInv, NEW t \in Tabs, NEW apps, NEW told \in BOOLEAN,
         Saved(t, apps) \/ Refused(t, apps), Told(t, apps, told),
         told \/ Displayed(apps) = Displayed(View(t))
  PROVE  ShownInv'
<1>1. /\ DOMAIN copy = Tabs /\ DOMAIN rendered = Tabs /\ due \in [Tabs -> BOOLEAN]
      /\ \A u \in Tabs : copy[u] # None => u \in unsavedOnce
      /\ \A u \in Tabs \ unsavedOnce : ~due[u] => rendered[u] = Displayed(View(u))
  BY DEF ShownInv, RenderedIsCurrent
<1>2. \A u \in Tabs \ unsavedOnce : View(u) = stored
  BY <1>1 DEF View
<1>3. /\ DOMAIN rendered' = Tabs /\ \A u \in Tabs \ {t} : rendered'[u] = rendered[u]
      /\ rendered'[t] = IF told THEN Displayed(apps) ELSE rendered[t]
  BY <1>1 DEF Told
<1>4. CASE Saved(t, apps)
  <2>1. /\ stored' = apps /\ unsavedOnce' = unsavedOnce /\ due' \in [Tabs -> BOOLEAN]
        /\ \A u \in Tabs : due'[u] = (due[u] \/ (u # t /\ Displayed(apps) # Displayed(stored)))
        /\ DOMAIN copy' = Tabs /\ copy'[t] = None /\ \A u \in Tabs \ {t} : copy'[u] = copy[u]
    BY <1>1, <1>4 DEF Saved
  <2>2. \A u \in Tabs \ unsavedOnce : View(u)' = apps
    BY <1>1, <2>1 DEF View
  <2>3. ASSUME NEW u \in Tabs \ unsavedOnce', ~due'[u]
        PROVE  rendered'[u] = Displayed(View(u)')
    BY <1>1, <1>2, <1>3, <2>1, <2>2, <2>3
  <2>4. RenderedIsCurrent'
    BY <2>3 DEF RenderedIsCurrent, Displayed
  <2>5. QED
    BY <1>1, <1>3, <2>1, <2>4 DEF ShownInv
<1>5. CASE Refused(t, apps)
  <2>1. /\ stored' = stored /\ due' = due /\ unsavedOnce' = unsavedOnce \union {t}
        /\ DOMAIN copy' = Tabs /\ \A u \in Tabs \ {t} : copy'[u] = copy[u]
    BY <1>1, <1>5 DEF Refused
  <2>2. \A u \in Tabs \ unsavedOnce' : View(u)' = View(u)
    BY <2>1 DEF View
  <2>3. ASSUME NEW u \in Tabs \ unsavedOnce', ~due'[u]
        PROVE  rendered'[u] = Displayed(View(u)')
    BY <1>1, <1>3, <2>1, <2>2, <2>3
  <2>4. RenderedIsCurrent'
    BY <2>3 DEF RenderedIsCurrent, Displayed
  <2>5. QED
    BY <1>1, <1>3, <2>1, <2>4 DEF ShownInv
<1>6. QED
  BY <1>4, <1>5

LEMMA UnwrittenSafely ==
  ASSUME ShownInv, UNCHANGED registryVars
  PROVE  ShownInv'
BY DEF ShownInv, registryVars, RenderedIsCurrent, View, Displayed

LEMMA UpdateAppSafely ==
  ASSUME ShownInv, NEW t \in Tabs, NEW l, NEW e, UpdateApp(t, l, e)
  PROVE  ShownInv'
<1> DEFINE apps == [View(t) EXCEPT ![l] = Summed(e)]
           told == Displayed(apps) # Displayed(View(t))
<1>1. CASE Unwritten
  BY <1>1, UnwrittenSafely DEF Unwritten
<1>2. CASE Write(t, apps, told)
  <2>1. (Saved(t, apps) \/ Refused(t, apps)) /\ Told(t, apps, told)
    BY <1>2 DEF Write
  <2>2. told \in BOOLEAN /\ (told \/ Displayed(apps) = Displayed(View(t)))
    OBVIOUS
  <2> HIDE DEF apps, told
  <2>3. QED
    BY <2>1, <2>2, WrittenSafely
<1>3. QED
  BY <1>1, <1>2 DEF UpdateApp

LEMMA CommandsSafely ==
  ASSUME ShownInv, NEW t \in Tabs,
         DeploySucceeds(t) \/ DeployThrows(t) \/ StopRecords(t) \/ DomainRecords(t) \/ StatusRecords(t)
  PROVE  ShownInv'
<1>1. \/ Unwritten
      \/ \E l, e : UpdateApp(t, l, e)
  BY DEF DeploySucceeds, DeployThrows, StopRecords, DomainRecords, StatusRecords
<1>2. QED
  BY <1>1, UpdateAppSafely, UnwrittenSafely DEF Unwritten

LEMMA LeaseCreatedSafely ==
  ASSUME ShownInv, NEW t \in Tabs, LeaseCreated(t)
  PROVE  ShownInv'
<1>1. PICK apps : Write(t, apps, TRUE)
  BY DEF LeaseCreated, AddApp
<1>2. QED
  BY <1>1, WrittenSafely DEF Write

LEMMA PassesSafely ==
  ASSUME ShownInv, NEW t \in Tabs, PassReconciles(t) \/ PassDiscovers(t)
  PROVE  ShownInv'
<1>1. \/ Unwritten
      \/ \E apps : Write(t, apps, Displayed(apps) # Displayed(View(t)))
      \/ \E apps : Write(t, apps, TRUE)
      \/ \E apps : Saved(t, apps) /\ Told(t, apps, TRUE)
  BY DEF PassReconciles, PassDiscovers
<1>2. CASE Unwritten
  BY <1>2, UnwrittenSafely DEF Unwritten
<1>3. ASSUME NEW apps, Write(t, apps, Displayed(apps) # Displayed(View(t))) PROVE ShownInv'
  <2>1. PICK told \in BOOLEAN : told = (Displayed(apps) # Displayed(View(t)))
    OBVIOUS
  <2>2. QED
    BY <1>3, <2>1, WrittenSafely DEF Write
<1>4. ASSUME NEW apps, (Saved(t, apps) \/ Refused(t, apps)) /\ Told(t, apps, TRUE) PROVE ShownInv'
  BY <1>4, WrittenSafely
<1>5. QED
  BY <1>1, <1>2, <1>3, <1>4 DEF Write

LEMMA TabsSafely ==
  ASSUME ShownInv, NEW t \in Tabs, StorageEvent(t) \/ Reload(t)
  PROVE  ShownInv'
<1>1. /\ DOMAIN copy = Tabs /\ DOMAIN rendered = Tabs /\ due \in [Tabs -> BOOLEAN]
      /\ \A u \in Tabs : copy[u] # None => u \in unsavedOnce
      /\ \A u \in Tabs \ unsavedOnce : ~due[u] => rendered[u] = Displayed(View(u))
  BY DEF ShownInv, RenderedIsCurrent
<1>2. stored' = stored /\ due' = [due EXCEPT ![t] = FALSE]
  BY DEF StorageEvent, Reload
<1>3. /\ DOMAIN copy' = Tabs /\ DOMAIN rendered' = Tabs
      /\ \A u \in Tabs \ {t} : /\ copy'[u] = copy[u] /\ rendered'[u] = rendered[u]
                               /\ u \in unsavedOnce' <=> u \in unsavedOnce
      /\ \/ copy'[t] # None /\ t \in unsavedOnce'
         \/ copy'[t] = None /\ rendered'[t] = Displayed(stored)
  BY <1>1 DEF StorageEvent, Reload
<1>4. ASSUME NEW u \in Tabs \ unsavedOnce', ~due'[u]
      PROVE  rendered'[u] = Displayed(View(u)')
  BY <1>1, <1>2, <1>3, <1>4 DEF View
<1>5. RenderedIsCurrent'
  BY <1>4 DEF RenderedIsCurrent, Displayed
<1>6. QED
  BY <1>1, <1>2, <1>3, <1>5 DEF ShownInv

LEMMA ShownStep ==
  ASSUME ShownInv, [RegistryNext]_appVars
  PROVE  ShownInv'
<1>1. CASE UNCHANGED appVars
  BY <1>1, UnwrittenSafely DEF appVars
<1>2. CASE RegistryNext
  <2>1. \/ \E t \in Tabs :
             \/ DeploySucceeds(t) \/ DeployThrows(t) \/ StopRecords(t) \/ DomainRecords(t) \/ StatusRecords(t)
             \/ LeaseCreated(t) \/ PassReconciles(t) \/ PassDiscovers(t) \/ StorageEvent(t) \/ Reload(t)
        \/ UNCHANGED registryVars
    BY <1>2 DEF RegistryNext, PlanDeploy, DeployRefused, StopSubmits, DomainLands, AnswerLost, StatusReads,
       PassBegins, ListApps, PassFails, CreateLease, PlanStop, StatusStarts, AttachInDeploy, PlanDomain, PassReads,
       ForeignLease, Acknowledge, LeaseEnds, CloseExecutes, UnchangedButChain
  <2>2. QED
    BY <2>1, CommandsSafely, LeaseCreatedSafely, PassesSafely, TabsSafely, UnwrittenSafely
<1>3. QED
  BY <1>1, <1>2

-----------------------------------------------------------------------------
(* The registry: its types, and what stays as it was recorded *)

\* What a command carries has its type, at each of its steps.
OpIsTyped(o) ==
  /\ o.pc \in {"deploy", "created"} => o.name \in Names
  /\ o.pc \in {"created", "added", "attached", "stop", "bulk", "stopped", "landed", "status", "answered"} =>
        o.l \in Leases
  /\ o.pc = "domain" => o \in [pc : {"domain"}, l : Leases, d : Domains \cup {None}]
  /\ o.pc = "landed" => o.d \in Domains \cup {None}
  /\ o.pc \in {"status", "answered"} => o.snap \in Entry
  /\ o.pc = "answered" => o.state \in {"pending", "active", "gone"} /\ o.dom \in Domains \cup {None}

Sighting == [state : {"active", "pending"}, dom : Domains \cup {None}]

\* What a pass has read has its type, at both of its steps.
PassIsTyped(p) ==
  /\ p.pc = "reading" =>
        p \in [pc : {"reading"}, domains : BOOLEAN, left : SUBSET {"active", "pending"},
               seen : [Leases -> Sighting \cup {None}],
               base : [Leases -> [chain : ChainState \cup {None}, dom : Domains \cup {None}] \cup {None}]]
  /\ p.pc = "discovering" => p.seen \in [Leases -> Sighting \cup {None}]
                             /\ p.known \in [Leases -> [entry : Entry \cup {None}] \cup {None}]
                             /\ \A l \in Leases : p.known[l] # None /\ p.known[l].entry = None => p.seen[l] # None

\* A registry is kept as such, with the summaries that its observations give.
Summarised(apps) ==
  /\ apps \in Registry
  /\ \A l \in Leases : apps[l] # None => apps[l] = Summed(apps[l])

BooksAreKept ==
  /\ Summarised(stored)
  /\ DOMAIN copy = Tabs /\ \A t \in Tabs : copy[t] # None => Summarised(copy[t])

\* RegistryTypeOK, made inductive.
RegistryInv ==
  /\ BooksAreKept
  /\ DOMAIN op = Tabs /\ \A t \in Tabs : OpIsTyped(op[t])
  /\ DOMAIN pass = Tabs /\ \A t \in Tabs : PassIsTyped(pass[t])
  /\ lease \in [Leases -> {"none", "pending", "active", "gone"}]
  /\ dom \in [Leases -> Domains \cup {None}]

LEMMA DerivedCases ==
  ASSUME NEW e \in Entry
  PROVE  /\ e.prov = "failed" => Derived(e) = "failed"
         /\ e.prov # "failed" /\ e.chain = "absent" =>
              Derived(e) = IF e.prov = None /\ e.status = "failed" THEN "failed" ELSE "stopped"
         /\ e.chain # "absent" /\ e.prov = "unconfirmed" => Derived(e) = "deploying"
         /\ e.chain # "absent" /\ e.prov = "confirmed" =>
              Derived(e) = IF e.chain = "pending" THEN "deploying" ELSE "running"
         /\ e.prov = None /\ e.chain = "active" => Derived(e) = "running"
         /\ e.prov = None /\ e.chain = "pending" => Derived(e) = "deploying"
         /\ e.prov = None /\ e.chain = None => Derived(e) = e.status
<1>1. None \notin {"failed", "absent", "unconfirmed", "confirmed", "active", "pending"}
  BY RegistryAssumption DEF ChainState, ProvisionState
<1>2. e.prov \in {"confirmed", "unconfirmed", "failed", None} /\ e.chain \in {"active", "pending", "absent", None}
  BY DEF Entry, ChainState, ProvisionState
<1>3. QED
  BY <1>1, <1>2 DEF Derived

LEMMA SummedIsEntry ==
  ASSUME NEW e \in Entry
  PROVE  /\ Summed(e) \in Entry
         /\ Summed(Summed(e)) = Summed(e)
         /\ Summed(e).chain = e.chain /\ Summed(e).dom = e.dom
<1>1. e.prov \in {"confirmed", "unconfirmed", "failed", None} /\ e.chain \in {"active", "pending", "absent", None}
      /\ e.status \in Status
  BY DEF Entry, ChainState, ProvisionState
<1>2. Derived(e) \in Status
  BY <1>1, DerivedCases DEF Status
<1>3. PICK s \in Status : s = Derived(e)
  BY <1>2
<1>4. PICK x : x = [e EXCEPT !.status = s]
  OBVIOUS
<1>5. x \in Entry /\ x.chain = e.chain /\ x.prov = e.prov /\ x.dom = e.dom /\ x.status = s
  BY <1>4 DEF Entry
<1>6. Summed(e) = x
  BY <1>3, <1>4 DEF Summed
<1>7. Derived(x) = s
  BY <1>1, <1>3, <1>5, DerivedCases
<1>8. [x EXCEPT !.status = s] = x
  BY <1>5 DEF Entry
<1>9. Summed(x) = x
  BY <1>7, <1>8 DEF Summed
<1>10. QED
  BY <1>5, <1>6, <1>9

LEMMA ViewIsKept ==
  ASSUME BooksAreKept, NEW t \in Tabs
  PROVE  /\ Summarised(View(t))
         /\ \A l \in Leases : View(t)[l] # None => View(t)[l] \in Entry
<1>1. Summarised(View(t))
  BY DEF BooksAreKept, View
<1>2. QED
  BY <1>1 DEF Summarised, Registry

\* A registry is no None, so that a refused write is what the tab reads afterwards.
LEMMA WritesAreRead ==
  ASSUME BooksAreKept, NEW t \in Tabs, NEW apps, Summarised(apps), Saved(t, apps) \/ Refused(t, apps)
  PROVE  BooksAreKept' /\ View(t)' = apps
<1>1. apps # None
  BY RegistryAssumption DEF Summarised, Registry
<1>2. /\ DOMAIN copy' = Tabs /\ \A u \in Tabs \ {t} : copy'[u] = copy[u]
      /\ \/ stored' = apps /\ copy'[t] = None
         \/ stored' = stored /\ copy'[t] = apps
  <2>1. DOMAIN copy = Tabs
    BY DEF BooksAreKept
  <2>2. CASE Saved(t, apps)
    <3>1. stored' = apps /\ copy' = [copy EXCEPT ![t] = None]
      BY <2>2 DEF Saved
    <3>2. QED
      BY <2>1, <3>1
  <2>3. CASE Refused(t, apps)
    <3>1. stored' = stored /\ copy' = [copy EXCEPT ![t] = apps]
      BY <2>3 DEF Refused
    <3>2. QED
      BY <2>1, <3>1
  <2>4. QED
    BY <2>2, <2>3
<1>3. BooksAreKept'
  BY <1>2 DEF BooksAreKept, Summarised
<1>4. QED
  BY <1>1, <1>2, <1>3 DEF View

LEMMA UpdatesAreKept ==
  ASSUME NEW apps, Summarised(apps), NEW l \in Leases, NEW e \in Entry
  PROVE  Summarised([apps EXCEPT ![l] = Summed(e)])
<1>1. PICK x : x = Summed(e)
  OBVIOUS
<1>2. x \in Entry /\ Summed(x) = x
  BY <1>1, SummedIsEntry
<1>3. Summarised([apps EXCEPT ![l] = x])
  BY <1>2 DEF Summarised, Registry
<1>4. QED
  BY <1>1, <1>3

LEMMA UpdateAppKeeps ==
  ASSUME BooksAreKept, NEW t \in Tabs, NEW l \in Leases, NEW e \in Entry, UpdateApp(t, l, e)
  PROVE  BooksAreKept'
<1>1. PICK apps : apps = [View(t) EXCEPT ![l] = Summed(e)]
  OBVIOUS
<1>2. Summarised(apps)
  BY <1>1, ViewIsKept, UpdatesAreKept
<1>3. Unwritten \/ Saved(t, apps) \/ Refused(t, apps)
  BY <1>1 DEF UpdateApp, Write
<1>4. CASE Unwritten
  BY <1>4 DEF Unwritten, registryVars, BooksAreKept, Summarised
<1>5. QED
  BY <1>2, <1>3, <1>4, WritesAreRead

\* The observations a command may record.
LEMMA EntriesChange ==
  ASSUME NEW e \in Entry
  PROVE  /\ \A c \in ChainState \cup {None} : [e EXCEPT !.chain = c] \in Entry
         /\ \A p \in ProvisionState \cup {None} : [e EXCEPT !.prov = p] \in Entry
         /\ \A d \in Domains \cup {None} : [e EXCEPT !.dom = d] \in Entry
         /\ \A s \in Status : [e EXCEPT !.status = s] \in Entry
         /\ \A c \in ChainState, p \in ProvisionState \cup {None} :
              [e EXCEPT !.chain = c, !.prov = p] \in Entry
         /\ \A c \in ChainState, p \in ProvisionState, d \in Domains \cup {None} :
              [e EXCEPT !.chain = c, !.prov = p, !.dom = d] \in Entry
BY DEF Entry

LEMMA CommandsKeep ==
  ASSUME RegistryInv, NEW t \in Tabs,
         DeploySucceeds(t) \/ DeployThrows(t) \/ StopRecords(t) \/ DomainRecords(t) \/ StatusRecords(t)
  PROVE  BooksAreKept'
<1> DEFINE l == op[t].l
           e == View(t)[l]
<1>1. BooksAreKept /\ OpIsTyped(op[t]) /\ dom \in [Leases -> Domains \cup {None}]
  BY DEF RegistryInv
<1>2. l \in Leases
  BY <1>1 DEF OpIsTyped, DeploySucceeds, DeployThrows, StopRecords, DomainRecords, StatusRecords
<1>3. e # None => e \in Entry
  BY <1>1, <1>2, ViewIsKept
<1>4. {"absent", "active", "pending"} = ChainState /\ {"confirmed", "unconfirmed", "failed"} = ProvisionState
      /\ {"deploying", "failed"} \subseteq Status
  BY DEF ChainState, ProvisionState, Status
<1>5. CASE Unwritten
  BY <1>1, <1>5 DEF Unwritten, registryVars, BooksAreKept, Summarised
<1> SUFFICES ASSUME e # None PROVE Unwritten \/ \E new \in Entry : UpdateApp(t, l, new)
  BY <1>1, <1>2, <1>5, UpdateAppKeeps
  DEF DeploySucceeds, DeployThrows, StopRecords, DomainRecords, StatusRecords
<1>6. e \in Entry
  BY <1>3
<1>7. CASE DeploySucceeds(t)
  <2>1. PICK d \in Domains \cup {None} : d = IF op[t].pc = "attached" THEN dom[l] ELSE e.dom
    BY <1>1, <1>2, <1>6 DEF Entry
  <2>2. PICK new \in Entry : new = [e EXCEPT !.chain = "active", !.prov = "confirmed", !.dom = d]
    BY <1>4, <1>6, EntriesChange
  <2>3. UpdateApp(t, l, new)
    BY <1>7, <2>1, <2>2 DEF DeploySucceeds
  <2>4. QED
    BY <2>3
<1>8. CASE DeployThrows(t)
  <2>1. PICK new \in AfterThrow(e, l) : UpdateApp(t, l, new)
    BY <1>8 DEF DeployThrows
  <2>2. \/ \E p \in {"unconfirmed", "failed"} : new = [e EXCEPT !.prov = p]
        \/ new = [e EXCEPT !.chain = "absent", !.prov = "failed"]
        \/ new = [e EXCEPT !.chain = "active"]
        \/ \E s \in {"deploying", "failed"} : new = [e EXCEPT !.status = s]
    BY <2>1 DEF AfterThrow
  <2>3. /\ "absent" \in ChainState /\ "active" \in ChainState
        /\ "unconfirmed" \in ProvisionState /\ "failed" \in ProvisionState
        /\ {"deploying", "failed"} \subseteq Status
    BY <1>4
  <2>4. CASE \E p \in {"unconfirmed", "failed"} : new = [e EXCEPT !.prov = p]
    BY <1>6, <2>1, <2>3, <2>4, EntriesChange
  <2>5. CASE new = [e EXCEPT !.chain = "absent", !.prov = "failed"]
    BY <1>6, <2>1, <2>3, <2>5, EntriesChange
  <2>6. CASE new = [e EXCEPT !.chain = "active"]
    BY <1>6, <2>1, <2>3, <2>6, EntriesChange
  <2>7. CASE \E s \in {"deploying", "failed"} : new = [e EXCEPT !.status = s]
    BY <1>6, <2>1, <2>3, <2>7, EntriesChange
  <2>8. QED
    BY <2>2, <2>4, <2>5, <2>6, <2>7
<1>9. CASE StopRecords(t)
  BY <1>4, <1>6, <1>9, EntriesChange DEF StopRecords
<1>10. CASE DomainRecords(t)
  BY <1>1, <1>6, <1>10, EntriesChange DEF DomainRecords, OpIsTyped
<1>11. CASE StatusRecords(t)
  <2>1. PICK moved \in BOOLEAN, reading \in Readings(op[t].snap.prov) :
          UpdateApp(t, l, [AfterStatus(e, op[t].snap, op[t].state, moved, reading) EXCEPT !.dom = op[t].dom])
    BY <1>11 DEF StatusRecords
  <2>2. op[t].snap \in Entry /\ op[t].state \in {"pending", "active", "gone"} /\ op[t].dom \in Domains \cup {None}
    BY <1>1, <1>11 DEF OpIsTyped, StatusRecords
  <2>3. reading \in ProvisionState \cup {None}
    BY <1>4, <2>2 DEF Readings, Entry
  <2>4. PICK x : x = AfterStatus(e, op[t].snap, op[t].state, moved, reading)
    OBVIOUS
  <2>5. PICK p \in ProvisionState \cup {None} : p = IF reading = op[t].snap.prov THEN e.prov ELSE reading
    BY <1>6, <2>3 DEF Entry
  <2>6. x \in Entry
    BY <1>4, <1>6, <2>2, <2>4, <2>5, EntriesChange DEF AfterStatus
  <2>7. [x EXCEPT !.dom = op[t].dom] \in Entry
    BY <2>2, <2>6, EntriesChange
  <2>8. QED
    BY <2>1, <2>4, <2>7
<1>12. QED
  BY <1>7, <1>8, <1>9, <1>10, <1>11
LEMMA LeaseCreatedKeeps ==
  ASSUME RegistryInv, NEW t \in Tabs, LeaseCreated(t)
  PROVE  BooksAreKept'
<1> DEFINE l == op[t].l
           name == op[t].name
           old == View(t)[l]
           fresh == [name |-> name, full |-> TRUE, status |-> "deploying",
                     chain |-> IF old = None THEN None ELSE old.chain,
                     prov |-> IF old = None THEN None ELSE old.prov,
                     dom |-> IF old = None THEN None ELSE old.dom]
           Yields(j) == View(t)[j] # None /\ View(t)[j].name = name /\ ~HoldsName(View(t)[j])
           apps == [j \in Leases |-> IF j = l THEN Summed(fresh) ELSE IF Yields(j) THEN None ELSE View(t)[j]]
<1>1. BooksAreKept /\ OpIsTyped(op[t]) /\ op[t].pc = "created"
  BY DEF RegistryInv, LeaseCreated
<1>2. l \in Leases /\ name \in Names
  BY <1>1 DEF OpIsTyped
<1>3. Summarised(View(t)) /\ (old # None => old \in Entry)
  BY <1>1, <1>2, ViewIsKept
<1>4. Saved(t, apps) \/ Refused(t, apps)
  BY DEF LeaseCreated, AddApp, Write
<1>5. fresh \in Entry
  BY <1>2, <1>3 DEF Entry, Status
<1>6. PICK new : new = Summed(fresh)
  OBVIOUS
<1> HIDE DEF fresh
<1>7. new \in Entry /\ Summed(new) = new
  BY <1>5, <1>6, SummedIsEntry
<1>8. \A j \in Leases : apps[j] = new \/ apps[j] = None \/ apps[j] = View(t)[j]
  BY <1>6
<1>9. apps = [j \in Leases |-> apps[j]]
  OBVIOUS
<1> HIDE DEF apps
<1>10. Summarised(apps)
  BY <1>3, <1>7, <1>8, <1>9 DEF Summarised, Registry
<1>11. QED
  BY <1>1, <1>4, <1>10, WritesAreRead

\* An entry with the same observations and status as one that is summed up is summed up too.
LEMMA SummaryStays ==
  ASSUME NEW e \in Entry, Summed(e) = e,
         NEW x \in Entry, x.prov = e.prov, x.chain = e.chain, x.status = e.status
  PROVE  Summed(x) = x
<1>1. Derived(e) = e.status
  <2>1. PICK s : s = Derived(e)
    OBVIOUS
  <2>2. [e EXCEPT !.status = s] = e
    BY <2>1 DEF Summed
  <2>3. [e EXCEPT !.status = s].status = s
    BY DEF Entry
  <2>4. QED
    BY <2>1, <2>2, <2>3
<1>2. e.prov \in {"confirmed", "unconfirmed", "failed", None} /\ e.chain \in {"active", "pending", "absent", None}
  BY DEF Entry, ChainState, ProvisionState
<1>3. Derived(x) = x.status
  BY <1>1, <1>2, DerivedCases
<1>4. [x EXCEPT !.status = x.status] = x
  BY DEF Entry
<1>5. QED
  BY <1>3, <1>4 DEF Summed

\* The entry that a pass leaves of e.
AfterPass(e, base, seen, domains) ==
  IF domains THEN DomainReconciled(Reconciled(e, base, seen), base, seen) ELSE Reconciled(e, base, seen)

\* What a pass makes of an entry is one again, and keeps what was recorded meanwhile.
LEMMA EntriesReconciled ==
  ASSUME NEW e \in Entry, Summed(e) = e, NEW base, NEW seen \in Sighting \cup {None}, NEW domains \in BOOLEAN
  PROVE  /\ AfterPass(e, base, seen, domains) \in Entry
         /\ Summed(AfterPass(e, base, seen, domains)) = AfterPass(e, base, seen, domains)
         /\ base # None /\ e.chain # base.chain => AfterPass(e, base, seen, domains).chain = e.chain
         /\ base # None /\ e.dom # base.dom => AfterPass(e, base, seen, domains).dom = e.dom
<1>1. PICK x : x = Reconciled(e, base, seen)
  OBVIOUS
<1>2. x \in Entry /\ Summed(x) = x /\ x.dom = e.dom /\ (base # None /\ e.chain # base.chain => x.chain = e.chain)
  <2>1. CASE base = None \/ e.chain # base.chain
    BY <1>1, <2>1 DEF Reconciled
  <2>2. CASE base # None /\ e.chain = base.chain
    <3>1. PICK c : c = IF seen = None THEN "absent" ELSE seen.state
      OBVIOUS
    <3>2. c \in ChainState
      BY <3>1 DEF Sighting, ChainState
    <3>3. PICK y : y = [e EXCEPT !.chain = c]
      OBVIOUS
    <3>4. y \in Entry /\ y.dom = e.dom
      BY <3>2, <3>3 DEF Entry
    <3>5. e # None => x = Summed(y)
      BY <1>1, <2>2, <3>1, <3>3 DEF Reconciled
    <3>6. e = None => x = e
      BY <1>1 DEF Reconciled
    <3>7. QED
      BY <2>2, <3>4, <3>5, <3>6, SummedIsEntry
  <2>3. QED
    BY <2>1, <2>2
<1>3. PICK z : z = DomainReconciled(x, base, seen)
  OBVIOUS
<1>4. z \in Entry /\ Summed(z) = z /\ z.chain = x.chain /\ (base # None /\ x.dom # base.dom => z.dom = x.dom)
  <2>1. CASE z = x
    BY <1>2, <2>1
  <2>2. CASE seen # None /\ z = [x EXCEPT !.dom = seen.dom] /\ ~(base # None /\ x.dom # base.dom)
    <3>1. seen.dom \in Domains \cup {None}
      BY <2>2 DEF Sighting
    <3>2. z \in Entry /\ z.prov = x.prov /\ z.chain = x.chain /\ z.status = x.status
      BY <1>2, <2>2, <3>1 DEF Entry
    <3>3. QED
      BY <1>2, <2>2, <3>2, SummaryStays
  <2>3. QED
    BY <1>3, <2>1, <2>2 DEF DomainReconciled
<1>5. QED
  BY <1>1, <1>2, <1>3, <1>4 DEF AfterPass
\* What a pass writes.
Passed(t) ==
  [l \in Leases |-> AfterPass(View(t)[l], pass[t].base[l], pass[t].seen[l], pass[t].domains)]

LEMMA PassWrites ==
  ASSUME RegistryInv, NEW t \in Tabs, PassReconciles(t)
  PROVE  /\ BooksAreKept' /\ View(t)' = Passed(t) /\ Summarised(Passed(t))
         /\ \A l \in Leases : View(t)[l] # None =>
               View(t)[l] \in Entry /\ Summed(View(t)[l]) = View(t)[l] /\ pass[t].seen[l] \in Sighting \cup {None}
         /\ pass[t].domains \in BOOLEAN
<1>1. BooksAreKept /\ PassIsTyped(pass[t]) /\ pass[t].pc = "reading"
  BY DEF RegistryInv, PassReconciles
<1>2. /\ pass[t].seen \in [Leases -> Sighting \cup {None}]
      /\ pass[t].domains \in BOOLEAN
  BY <1>1 DEF PassIsTyped
<1>3. /\ Summarised(View(t))
      /\ \A l \in Leases : View(t)[l] # None => View(t)[l] \in Entry /\ Summed(View(t)[l]) = View(t)[l]
  BY <1>1, ViewIsKept DEF Summarised
<1>4. \A base, seen, domains : AfterPass(None, base, seen, domains) = None
  BY DEF AfterPass, Reconciled, DomainReconciled
<1>5. ASSUME NEW l \in Leases
      PROVE  /\ Passed(t)[l] \in Entry \cup {None}
             /\ Passed(t)[l] # None => Summed(Passed(t)[l]) = Passed(t)[l]
  <2>1. Passed(t)[l] = AfterPass(View(t)[l], pass[t].base[l], pass[t].seen[l], pass[t].domains)
    BY DEF Passed
  <2>2. CASE View(t)[l] = None
    BY <1>4, <2>1, <2>2
  <2>3. CASE View(t)[l] # None
    <3>1. pass[t].seen[l] \in Sighting \cup {None}
      BY <1>2
    <3>2. View(t)[l] \in Entry /\ Summed(View(t)[l]) = View(t)[l] /\ pass[t].domains \in BOOLEAN
      BY <1>2, <1>3, <2>3
    <3>3. PICK x : x = AfterPass(View(t)[l], pass[t].base[l], pass[t].seen[l], pass[t].domains)
      OBVIOUS
    <3>4. x \in Entry /\ Summed(x) = x
      BY <3>1, <3>2, <3>3, EntriesReconciled
    <3>5. QED
      BY <2>1, <3>3, <3>4
  <2>4. QED
    BY <2>2, <2>3
<1>6. PICK apps : apps = Passed(t)
  OBVIOUS
<1>7. Summarised(apps)
  <2>1. apps = [l \in Leases |-> apps[l]]
    BY <1>6 DEF Passed
  <2>2. QED
    BY <1>5, <1>6, <2>1 DEF Summarised, Registry
<1>8. \/ View(t) = apps /\ Unwritten
      \/ Saved(t, apps) \/ Refused(t, apps)
  <2>1. apps = [l \in Leases |->
                  IF pass[t].domains
                  THEN DomainReconciled([j \in Leases |-> Reconciled(View(t)[j], pass[t].base[j], pass[t].seen[j])][l],
                                        pass[t].base[l], pass[t].seen[l])
                  ELSE [j \in Leases |-> Reconciled(View(t)[j], pass[t].base[j], pass[t].seen[j])][l]]
    BY <1>6 DEF Passed, AfterPass
  <2>2. QED
    BY <2>1 DEF PassReconciles, Write
<1>9. BooksAreKept' /\ View(t)' = apps
  <2>1. CASE View(t) = apps /\ Unwritten
    <3>1. BooksAreKept' /\ View(t)' = View(t)
      BY <1>1, <2>1 DEF Unwritten, registryVars, BooksAreKept, Summarised, View
    <3>2. QED
      BY <2>1, <3>1
  <2>2. QED
    BY <1>1, <1>7, <1>8, <2>1, WritesAreRead
<1>10. QED
  BY <1>2, <1>3, <1>6, <1>7, <1>9

\* What was recorded during a pass stays.
LEMMA RecordedStays == RegistryInv => KeepsNewer
<1> SUFFICES ASSUME RegistryInv, NEW t \in Tabs, NEW l \in Leases, PassReconciles(t),
                    View(t)[l] # None, pass[t].base[l] # None
             PROVE  /\ View(t)[l].chain # pass[t].base[l].chain => View(t)'[l].chain = View(t)[l].chain
                    /\ View(t)[l].dom # pass[t].base[l].dom => View(t)'[l].dom = View(t)[l].dom
  BY DEF KeepsNewer
<1>1. View(t)'[l] = AfterPass(View(t)[l], pass[t].base[l], pass[t].seen[l], pass[t].domains)
  BY PassWrites DEF Passed
<1>2. /\ View(t)[l] \in Entry /\ Summed(View(t)[l]) = View(t)[l]
      /\ pass[t].seen[l] \in Sighting \cup {None} /\ pass[t].domains \in BOOLEAN
  BY PassWrites
<1>3. PICK x : x = AfterPass(View(t)[l], pass[t].base[l], pass[t].seen[l], pass[t].domains)
  OBVIOUS
<1>4. /\ View(t)[l].chain # pass[t].base[l].chain => x.chain = View(t)[l].chain
      /\ View(t)[l].dom # pass[t].base[l].dom => x.dom = View(t)[l].dom
  BY <1>2, <1>3, EntriesReconciled
<1>5. QED
  BY <1>1, <1>3, <1>4

LEMMA DiscoveriesKeep ==
  ASSUME RegistryInv, NEW t \in Tabs, PassDiscovers(t)
  PROVE  BooksAreKept'
<1>1. BooksAreKept /\ PassIsTyped(pass[t]) /\ pass[t].pc = "discovering"
  BY DEF RegistryInv, PassDiscovers
<1>2. /\ pass[t].seen \in [Leases -> Sighting \cup {None}]
      /\ \A l \in Leases : pass[t].known[l] # None /\ pass[t].known[l].entry = None => pass[t].seen[l] # None
  BY <1>1 DEF PassIsTyped
<1>3. /\ Summarised(View(t))
      /\ \A l \in Leases : View(t)[l] # None => View(t)[l] \in Entry /\ Summed(View(t)[l]) = View(t)[l]
  BY <1>1, ViewIsKept DEF Summarised
<1>4. PICK full, apps :
        /\ full \in BOOLEAN /\ apps = [l \in Leases |-> Discovered(t, l, full)]
        /\ Unwritten \/ Saved(t, apps) \/ Refused(t, apps)
  <2>1. \/ LET apps == [l \in Leases |-> Discovered(t, l, TRUE)] IN Unwritten \/ Saved(t, apps) \/ Refused(t, apps)
        \/ LET apps == [l \in Leases |-> Discovered(t, l, FALSE)] IN Saved(t, apps)
    BY DEF PassDiscovers, Write
  <2>2. QED
    BY <2>1
<1>5. ASSUME NEW l \in Leases
      PROVE  /\ apps[l] \in Entry \cup {None}
             /\ apps[l] # None => Summed(apps[l]) = apps[l]
  <2>1. apps[l] = Discovered(t, l, full)
    BY <1>4
  <2>2. \/ apps[l] = View(t)[l]
        \/ apps[l] = None
        \/ pass[t].seen[l] \in Sighting /\ apps[l] = Imported(l, pass[t].seen[l], full)
        \/ View(t)[l] # None /\ apps[l] = [View(t)[l] EXCEPT !.full = TRUE]
    <3>1. pass[t].known[l] # None /\ pass[t].known[l].entry = None => pass[t].seen[l] \in Sighting
      BY <1>2
    <3>2. QED
      BY <2>1, <3>1 DEF Discovered
  <2>3. CASE apps[l] = View(t)[l] \/ apps[l] = None
    BY <1>3, <2>3 DEF Summarised, Registry
  <2>4. CASE pass[t].seen[l] \in Sighting /\ apps[l] = Imported(l, pass[t].seen[l], full)
    <3>1. PICK e : e = [name |-> l, chain |-> pass[t].seen[l].state, prov |-> "unconfirmed",
                        status |-> "deploying", dom |-> pass[t].seen[l].dom, full |-> full]
      OBVIOUS
    <3>2. pass[t].seen[l].state \in ChainState /\ pass[t].seen[l].dom \in Domains \cup {None}
      BY <2>4 DEF Sighting, ChainState
    <3>3. "unconfirmed" \in ProvisionState /\ "deploying" \in Status
      BY DEF ProvisionState, Status
    <3>4. e \in Entry
      BY <1>4, <3>1, <3>2, <3>3 DEF Entry
    <3>5. apps[l] = Summed(e)
      BY <2>4, <3>1 DEF Imported
    <3>6. QED
      BY <3>4, <3>5, SummedIsEntry
  <2>5. CASE View(t)[l] # None /\ apps[l] = [View(t)[l] EXCEPT !.full = TRUE]
    <3>1. PICK e \in Entry : e = View(t)[l] /\ Summed(e) = e
      BY <1>3, <2>5
    <3>2. PICK x : x = [e EXCEPT !.full = TRUE]
      OBVIOUS
    <3>3. x \in Entry /\ x.prov = e.prov /\ x.chain = e.chain /\ x.status = e.status
      BY <3>2 DEF Entry
    <3>4. QED
      BY <2>5, <3>1, <3>2, <3>3, SummaryStays
  <2>6. QED
    BY <2>2, <2>3, <2>4, <2>5
<1>6. Summarised(apps)
  <2>1. apps = [l \in Leases |-> apps[l]]
    BY <1>4
  <2>2. QED
    BY <1>5, <2>1 DEF Summarised, Registry
<1>7. CASE Unwritten
  BY <1>1, <1>7 DEF Unwritten, registryVars, BooksAreKept, Summarised
<1>8. QED
  BY <1>1, <1>4, <1>6, <1>7, WritesAreRead
LEMMA OpsAreTyped ==
  ASSUME RegistryInv, RegistryNext
  PROVE  DOMAIN op' = Tabs /\ \A t \in Tabs : OpIsTyped(op'[t])
<1>1. /\ BooksAreKept /\ DOMAIN op = Tabs /\ \A t \in Tabs : OpIsTyped(op[t])
      /\ lease \in [Leases -> {"none", "pending", "active", "gone"}] /\ dom \in [Leases -> Domains \cup {None}]
  BY DEF RegistryInv
<1>2. OpIsTyped(NoOp)
  BY DEF OpIsTyped, NoOp
<1> SUFFICES \/ op' = op
             \/ \E t \in Tabs : \E new : OpIsTyped(new) /\ op' = [op EXCEPT ![t] = new]
  BY <1>1
<1>3. ASSUME NEW t \in Tabs,
             \/ DeployRefused(t) \/ DeploySucceeds(t) \/ DeployThrows(t) \/ StopRecords(t)
             \/ DomainRecords(t) \/ AnswerLost(t) \/ StatusRecords(t) \/ Reload(t)
      PROVE  op' = [op EXCEPT ![t] = NoOp]
  BY <1>3 DEF DeployRefused, DeploySucceeds, DeployThrows, StopRecords, DomainRecords, AnswerLost,
     StatusRecords, Reload, Ends
<1>4. ASSUME NEW t \in Tabs, PlanDeploy(t)
      PROVE  \E new : OpIsTyped(new) /\ op' = [op EXCEPT ![t] = new]
  <2>1. PICK n \in Names : op' = [op EXCEPT ![t] = [pc |-> "deploy", name |-> n]]
    BY <1>4 DEF PlanDeploy, Begins
  <2>2. OpIsTyped([pc |-> "deploy", name |-> n])
    BY DEF OpIsTyped
  <2>3. QED
    BY <2>1, <2>2
<1>5. ASSUME NEW t \in Tabs, NEW l \in Leases, CreateLease(t, l)
      PROVE  \E new : OpIsTyped(new) /\ op' = [op EXCEPT ![t] = new]
  <2>1. op' = [op EXCEPT ![t] = [pc |-> "created", name |-> op[t].name, l |-> l]]
    BY <1>5 DEF CreateLease
  <2>2. op[t].name \in Names
    BY <1>1, <1>5 DEF CreateLease, OpIsTyped
  <2>3. OpIsTyped([pc |-> "created", name |-> op[t].name, l |-> l])
    BY <2>2 DEF OpIsTyped
  <2>4. QED
    BY <2>1, <2>3
<1>6. ASSUME NEW l \in Leases
      PROVE  /\ OpIsTyped([pc |-> "added", l |-> l]) /\ OpIsTyped([pc |-> "attached", l |-> l])
             /\ OpIsTyped([pc |-> "stop", l |-> l]) /\ OpIsTyped([pc |-> "bulk", l |-> l])
             /\ OpIsTyped([pc |-> "stopped", l |-> l])
  BY DEF OpIsTyped
<1>7. ASSUME NEW t \in Tabs,
             LeaseCreated(t) \/ StopSubmits(t) \/ \E d \in Domains : AttachInDeploy(t, d)
      PROVE  \E new : OpIsTyped(new) /\ op' = [op EXCEPT ![t] = new]
  <2>1. op[t].l \in Leases
    BY <1>1, <1>7 DEF LeaseCreated, StopSubmits, AttachInDeploy, OpIsTyped
  <2>2. \/ op' = [op EXCEPT ![t] = [pc |-> "added", l |-> op[t].l]]
        \/ op' = [op EXCEPT ![t] = [pc |-> "stopped", l |-> op[t].l]]
        \/ op' = [op EXCEPT ![t] = [pc |-> "attached", l |-> op[t].l]]
    BY <1>7 DEF LeaseCreated, StopSubmits, AttachInDeploy
  <2>3. QED
    BY <1>6, <2>1, <2>2
<1>8. ASSUME NEW t \in Tabs, NEW l \in Leases, PlanStop(t, l)
      PROVE  \E new : OpIsTyped(new) /\ op' = [op EXCEPT ![t] = new]
  BY <1>6, <1>8 DEF PlanStop, Begins
<1>9. ASSUME NEW t \in Tabs, NEW l \in Leases, NEW d \in Domains \cup {None}, PlanDomain(t, l, d)
      PROVE  \E new : OpIsTyped(new) /\ op' = [op EXCEPT ![t] = new]
  <2>1. op' = [op EXCEPT ![t] = [pc |-> "domain", l |-> l, d |-> d]]
    BY <1>9 DEF PlanDomain, Begins
  <2>2. OpIsTyped([pc |-> "domain", l |-> l, d |-> d])
    BY DEF OpIsTyped
  <2>3. QED
    BY <2>1, <2>2
<1>10. ASSUME NEW t \in Tabs, DomainLands(t)
      PROVE  \E new : OpIsTyped(new) /\ op' = [op EXCEPT ![t] = new]
  <2>1. op[t] \in [pc : {"domain"}, l : Leases, d : Domains \cup {None}]
    BY <1>1, <1>10 DEF DomainLands, OpIsTyped
  <2>2. PICK new : new = [op[t] EXCEPT !.pc = "landed"]
    OBVIOUS
  <2>3. new.pc = "landed" /\ new.l \in Leases /\ new.d \in Domains \cup {None}
    BY <2>1, <2>2
  <2>4. OpIsTyped(new)
    BY <2>3 DEF OpIsTyped
  <2>5. op' = [op EXCEPT ![t] = new]
    BY <1>10, <2>2 DEF DomainLands
  <2>6. QED
    BY <2>4, <2>5
<1>11. ASSUME NEW t \in Tabs, NEW l \in Leases, StatusStarts(t, l)
      PROVE  \E new : OpIsTyped(new) /\ op' = [op EXCEPT ![t] = new]
  <2>1. op' = [op EXCEPT ![t] = [pc |-> "status", l |-> l, snap |-> View(t)[l]]]
    BY <1>11 DEF StatusStarts, Begins
  <2>2. View(t)[l] \in Entry
    BY <1>1, <1>11, ViewIsKept DEF StatusStarts
  <2>3. OpIsTyped([pc |-> "status", l |-> l, snap |-> View(t)[l]])
    BY <2>2 DEF OpIsTyped
  <2>4. QED
    BY <2>1, <2>3
<1>12. ASSUME NEW t \in Tabs, StatusReads(t)
      PROVE  \E new : OpIsTyped(new) /\ op' = [op EXCEPT ![t] = new]
  <2>1. PICK new : new = [pc |-> "answered", l |-> op[t].l, snap |-> op[t].snap,
                          state |-> lease[op[t].l], dom |-> dom[op[t].l]]
    OBVIOUS
  <2>2. op' = [op EXCEPT ![t] = new]
    BY <1>12, <2>1 DEF StatusReads
  <2>3. op[t].l \in Leases /\ op[t].snap \in Entry /\ lease[op[t].l] # "none"
    BY <1>1, <1>12 DEF StatusReads, OpIsTyped
  <2>4. lease[op[t].l] \in {"pending", "active", "gone"} /\ dom[op[t].l] \in Domains \cup {None}
    BY <1>1, <2>3
  <2>5. OpIsTyped(new)
    BY <2>1, <2>3, <2>4 DEF OpIsTyped
  <2>6. QED
    BY <2>2, <2>5
<1>13. ASSUME NEW t \in Tabs,
             \/ PassBegins(t) \/ ListApps(t) \/ PassReconciles(t) \/ PassDiscovers(t) \/ PassFails(t) \/ StorageEvent(t)
             \/ \E state \in {"active", "pending"} : PassReads(t, state)
      PROVE  op' = op
  BY <1>13 DEF PassBegins, ListApps, PassReconciles, PassDiscovers, PassFails, StorageEvent, PassReads
<1>14. ASSUME NEW l \in Leases, ForeignLease(l) \/ Acknowledge(l) \/ LeaseEnds(l) \/ CloseExecutes(l)
      PROVE  op' = op
  BY <1>14 DEF ForeignLease, Acknowledge, LeaseEnds, CloseExecutes, UnchangedButChain
<1>15. QED
  BY <1>2, <1>3, <1>4, <1>5, <1>7, <1>8, <1>9, <1>10, <1>11, <1>12, <1>13, <1>14 DEF RegistryNext

LEMMA PassesAreTyped ==
  ASSUME RegistryInv, RegistryNext
  PROVE  DOMAIN pass' = Tabs /\ \A t \in Tabs : PassIsTyped(pass'[t])
<1>1. /\ BooksAreKept /\ DOMAIN pass = Tabs /\ \A t \in Tabs : PassIsTyped(pass[t])
      /\ dom \in [Leases -> Domains \cup {None}]
  BY DEF RegistryInv
<1>2. PassIsTyped(NoPass)
  BY DEF PassIsTyped, NoPass
<1> SUFFICES \/ pass' = pass
             \/ \E t \in Tabs : \E new : PassIsTyped(new) /\ pass' = [pass EXCEPT ![t] = new]
  BY <1>1
<1>3. ASSUME NEW t \in Tabs, PassDiscovers(t) \/ PassFails(t) \/ Reload(t)
      PROVE  pass' = [pass EXCEPT ![t] = NoPass]
  BY <1>3 DEF PassDiscovers, PassFails, Reload
<1>4. ASSUME NEW t \in Tabs, PassBegins(t) \/ ListApps(t)
      PROVE  \E new : PassIsTyped(new) /\ pass' = [pass EXCEPT ![t] = new]
  <2>1. PICK domains \in BOOLEAN : pass' = [pass EXCEPT ![t] = Baselined(t, domains)]
    BY <1>4 DEF PassBegins, ListApps
  <2>2. PICK base : base = [l \in Leases |-> IF View(t)[l] = None THEN None
                                             ELSE [chain |-> View(t)[l].chain, dom |-> View(t)[l].dom]]
    OBVIOUS
  <2>3. \A l \in Leases : View(t)[l] # None =>
           View(t)[l].chain \in ChainState \cup {None} /\ View(t)[l].dom \in Domains \cup {None}
    BY <1>1, ViewIsKept DEF Entry
  <2>4. base \in [Leases -> [chain : ChainState \cup {None}, dom : Domains \cup {None}] \cup {None}]
    BY <2>2, <2>3
  <2>5. Unread \in [Leases -> Sighting \cup {None}]
    BY DEF Unread
  <2>6. PICK new : new = Baselined(t, domains)
    OBVIOUS
  <2>7. new = [pc |-> "reading", domains |-> domains, left |-> {"active", "pending"}, seen |-> Unread, base |-> base]
    BY <2>2, <2>6 DEF Baselined
  <2>8. PassIsTyped(new)
    BY <2>4, <2>5, <2>7 DEF PassIsTyped
  <2>9. QED
    BY <2>1, <2>6, <2>8
<1>5. ASSUME NEW t \in Tabs, NEW state \in {"active", "pending"}, PassReads(t, state)
      PROVE  \E new : PassIsTyped(new) /\ pass' = [pass EXCEPT ![t] = new]
  <2>1. PICK p : p = pass[t]
    OBVIOUS
  <2>2. p \in [pc : {"reading"}, domains : BOOLEAN, left : SUBSET {"active", "pending"},
               seen : [Leases -> Sighting \cup {None}],
               base : [Leases -> [chain : ChainState \cup {None}, dom : Domains \cup {None}] \cup {None}]]
    BY <1>1, <1>5, <2>1 DEF PassReads, PassIsTyped
  <2>3. PICK seen : seen = [l \in Leases |->
                              IF lease[l] = state /\ (state = "active" \/ p.seen[l] = None)
                              THEN [state |-> state, dom |-> dom[l]] ELSE p.seen[l]]
    OBVIOUS
  <2>4. seen \in [Leases -> Sighting \cup {None}]
    <3>1. \A l \in Leases : p.seen[l] \in Sighting \cup {None}
      BY <2>2
    <3>2. \A l \in Leases : [state |-> state, dom |-> dom[l]] \in Sighting
      BY <1>1 DEF Sighting
    <3>3. QED
      BY <2>3, <3>1, <3>2
  <2>5. PICK left : left = p.left \ {state}
    OBVIOUS
  <2>6. PICK new : new = [p EXCEPT !.left = left, !.seen = seen]
    OBVIOUS
  <2>7. PassIsTyped(new)
    BY <2>2, <2>4, <2>5, <2>6 DEF PassIsTyped
  <2>8. pass' = [pass EXCEPT ![t] = new]
    <3>1. pass' = [pass EXCEPT ![t].left = @ \ {state},
                               ![t].seen = [l \in Leases |->
                                 IF lease[l] = state /\ (state = "active" \/ pass[t].seen[l] = None)
                                 THEN [state |-> state, dom |-> dom[l]] ELSE @[l]]]
      BY <1>5 DEF PassReads
    <3>2. QED
      BY <1>1, <2>1, <2>2, <2>3, <2>5, <2>6, <3>1
  <2>9. QED
    BY <2>7, <2>8
<1>6. ASSUME NEW t \in Tabs, PassReconciles(t)
      PROVE  \E new : PassIsTyped(new) /\ pass' = [pass EXCEPT ![t] = new]
  <2>1. PICK apps : apps = Passed(t)
    OBVIOUS
  <2>2. apps = [l \in Leases |->
                  IF pass[t].domains
                  THEN DomainReconciled([j \in Leases |-> Reconciled(View(t)[j], pass[t].base[j], pass[t].seen[j])][l],
                                        pass[t].base[l], pass[t].seen[l])
                  ELSE [j \in Leases |-> Reconciled(View(t)[j], pass[t].base[j], pass[t].seen[j])][l]]
    BY <2>1 DEF Passed, AfterPass
  <2>3. PICK known : known = [l \in Leases |-> IF Candidate(t, apps, l) \/ Payloadless(t, apps, l)
                                                THEN [entry |-> apps[l]] ELSE None]
    OBVIOUS
  <2>4. \/ pass' = [pass EXCEPT ![t] = NoPass]
        \/ pass' = [pass EXCEPT ![t] = [pc |-> "discovering", seen |-> pass[t].seen, known |-> known]]
    BY <1>6, <2>2, <2>3 DEF PassReconciles
  <2>5. apps \in [Leases -> Entry \cup {None}]
    BY <1>6, <2>1, PassWrites DEF Summarised, Registry
  <2>6. pass[t].seen \in [Leases -> Sighting \cup {None}]
    BY <1>1, <1>6 DEF PassReconciles, PassIsTyped
  <2>7. known \in [Leases -> [entry : Entry \cup {None}] \cup {None}]
    BY <2>3, <2>5
  <2>8. \A l \in Leases : known[l] # None => pass[t].seen[l] # None
    BY <2>3 DEF Candidate, Payloadless
  <2>9. PICK new : new = [pc |-> "discovering", seen |-> pass[t].seen, known |-> known]
    OBVIOUS
  <2>10. PassIsTyped(new)
    BY <2>6, <2>7, <2>8, <2>9 DEF PassIsTyped
  <2>11. QED
    BY <1>2, <2>4, <2>9, <2>10
<1>7. ASSUME NEW t \in Tabs,
             \/ PlanDeploy(t) \/ DeployRefused(t) \/ LeaseCreated(t) \/ DeploySucceeds(t) \/ DeployThrows(t)
             \/ StopSubmits(t) \/ StopRecords(t) \/ DomainLands(t) \/ DomainRecords(t) \/ AnswerLost(t)
             \/ StatusReads(t) \/ StatusRecords(t) \/ StorageEvent(t)
             \/ \E d \in Domains : AttachInDeploy(t, d)
      PROVE  pass' = pass
  BY <1>7 DEF PlanDeploy, DeployRefused, LeaseCreated, DeploySucceeds, DeployThrows, StopSubmits, StopRecords,
     DomainLands, DomainRecords, AnswerLost, StatusReads, StatusRecords, StorageEvent, AttachInDeploy
<1>8. ASSUME NEW t \in Tabs, NEW l \in Leases,
             \/ CreateLease(t, l) \/ PlanStop(t, l) \/ StatusStarts(t, l)
             \/ \E d \in Domains \cup {None} : PlanDomain(t, l, d)
      PROVE  pass' = pass
  BY <1>8 DEF CreateLease, PlanStop, StatusStarts, PlanDomain
<1>9. ASSUME NEW l \in Leases, ForeignLease(l) \/ Acknowledge(l) \/ LeaseEnds(l) \/ CloseExecutes(l)
      PROVE  pass' = pass
  BY <1>9 DEF ForeignLease, Acknowledge, LeaseEnds, CloseExecutes, UnchangedButChain
<1>10. QED
  BY <1>2, <1>3, <1>4, <1>5, <1>6, <1>7, <1>8, <1>9 DEF RegistryNext
LEMMA ChainIsTyped ==
  ASSUME RegistryInv, RegistryNext
  PROVE  /\ lease' \in [Leases -> {"none", "pending", "active", "gone"}]
         /\ dom' \in [Leases -> Domains \cup {None}]
<1>1. /\ \A t \in Tabs : OpIsTyped(op[t])
      /\ lease \in [Leases -> {"none", "pending", "active", "gone"}] /\ dom \in [Leases -> Domains \cup {None}]
  BY DEF RegistryInv
<1>2. ASSUME NEW t \in Tabs, StopSubmits(t)
      PROVE  dom' = dom /\ (lease' = lease \/ \E l \in Leases : lease' = [lease EXCEPT ![l] = "gone"])
  BY <1>1, <1>2 DEF StopSubmits, OpIsTyped
<1>3. ASSUME NEW t \in Tabs, DomainLands(t)
      PROVE  lease' = lease /\ \E l \in Leases, d \in Domains \cup {None} : dom' = [dom EXCEPT ![l] = d]
  <2>1. op[t] \in [pc : {"domain"}, l : Leases, d : Domains \cup {None}]
    BY <1>1, <1>3 DEF DomainLands, OpIsTyped
  <2>2. QED
    BY <1>3, <2>1 DEF DomainLands
<1>4. ASSUME NEW t \in Tabs, NEW d \in Domains, AttachInDeploy(t, d)
      PROVE  lease' = lease /\ \E l \in Leases : dom' = [dom EXCEPT ![l] = d]
  BY <1>1, <1>4 DEF AttachInDeploy, OpIsTyped
<1>5. ASSUME NEW t \in Tabs, NEW l \in Leases, CreateLease(t, l)
      PROVE  dom' = dom /\ lease' = [lease EXCEPT ![l] = "pending"]
  BY <1>5 DEF CreateLease
<1>6. ASSUME NEW l \in Leases, ForeignLease(l) \/ Acknowledge(l) \/ LeaseEnds(l) \/ CloseExecutes(l)
      PROVE  dom' = dom /\ (lease' = lease \/ \E x \in {"pending", "active", "gone"} : lease' = [lease EXCEPT ![l] = x])
  BY <1>6 DEF ForeignLease, Acknowledge, LeaseEnds, CloseExecutes
<1>7. ASSUME NEW t \in Tabs,
             \/ PlanDeploy(t) \/ DeployRefused(t) \/ LeaseCreated(t) \/ DeploySucceeds(t) \/ DeployThrows(t)
             \/ StopRecords(t) \/ DomainRecords(t) \/ AnswerLost(t) \/ StatusReads(t) \/ StatusRecords(t)
             \/ PassBegins(t) \/ ListApps(t) \/ PassReconciles(t) \/ PassDiscovers(t) \/ PassFails(t)
             \/ StorageEvent(t) \/ Reload(t)
             \/ \E state \in {"active", "pending"} : PassReads(t, state)
      PROVE  dom' = dom /\ lease' = lease
  BY <1>7 DEF PlanDeploy, DeployRefused, LeaseCreated, DeploySucceeds, DeployThrows, StopRecords, DomainRecords,
     AnswerLost, StatusReads, StatusRecords, PassBegins, ListApps, PassReconciles, PassDiscovers, PassFails,
     StorageEvent, Reload, PassReads, chainVars
<1>8. ASSUME NEW t \in Tabs, NEW l \in Leases,
             \/ PlanStop(t, l) \/ StatusStarts(t, l)
             \/ \E d \in Domains \cup {None} : PlanDomain(t, l, d)
      PROVE  dom' = dom /\ lease' = lease
  BY <1>8 DEF PlanStop, StatusStarts, PlanDomain, chainVars
<1>9. /\ dom' = dom \/ \E l \in Leases, d \in Domains \cup {None} : dom' = [dom EXCEPT ![l] = d]
      /\ lease' = lease \/ \E l \in Leases, x \in {"pending", "active", "gone"} : lease' = [lease EXCEPT ![l] = x]
  BY <1>2, <1>3, <1>4, <1>5, <1>6, <1>7, <1>8 DEF RegistryNext
<1>10. QED
  BY <1>1, <1>9

LEMMA BooksStay ==
  ASSUME BooksAreKept, UNCHANGED <<stored, copy>>
  PROVE  BooksAreKept'
BY DEF BooksAreKept, Summarised

LEMMA TabsKeep ==
  ASSUME BooksAreKept, NEW t \in Tabs, StorageEvent(t) \/ Reload(t)
  PROVE  BooksAreKept'
<1>1. stored' = stored /\ (copy' = copy \/ copy' = [copy EXCEPT ![t] = None])
  BY DEF StorageEvent, Reload
<1>2. DOMAIN copy' = Tabs /\ \A u \in Tabs : copy'[u] # None => copy'[u] = copy[u]
  BY <1>1 DEF BooksAreKept
<1>3. QED
  BY <1>1, <1>2 DEF BooksAreKept, Summarised

LEMMA RegistryStarts == RegistryInit => RegistryInv
<1> SUFFICES ASSUME RegistryInit PROVE RegistryInv
  OBVIOUS
<1>1. PICK old \in SUBSET Leases :
        /\ stored = [l \in Leases |-> IF l \in old THEN Legacy(l) ELSE None]
        /\ lease = [l \in Leases |-> IF l \in old THEN "active" ELSE "none"]
  BY DEF RegistryInit
<1>2. ASSUME NEW l \in Leases PROVE Legacy(l) \in Entry /\ Summed(Legacy(l)) = Legacy(l)
  <2>1. PICK e : e = Legacy(l)
    OBVIOUS
  <2>2. e \in Entry /\ e.chain = "active" /\ e.prov = "unconfirmed" /\ e.status = "deploying"
    BY <2>1 DEF Legacy, Entry, ChainState, ProvisionState, Status
  <2>3. Derived(e) = e.status
    BY <2>2, DerivedCases
  <2>4. [e EXCEPT !.status = e.status] = e
    BY <2>2 DEF Entry
  <2>5. QED
    BY <2>1, <2>2, <2>3, <2>4 DEF Summed
<1>3. Summarised(stored)
  <2>1. \A l \in Leases : stored[l] = IF l \in old THEN Legacy(l) ELSE None
    BY <1>1
  <2>2. stored = [l \in Leases |-> stored[l]]
    BY <1>1
  <2>3. QED
    BY <1>2, <2>1, <2>2 DEF Summarised, Registry
<1>4. BooksAreKept
  BY <1>3 DEF BooksAreKept, RegistryInit
<1>5. OpIsTyped(NoOp) /\ PassIsTyped(NoPass)
  BY DEF OpIsTyped, PassIsTyped, NoOp, NoPass
<1>6. /\ op = [t \in Tabs |-> NoOp] /\ pass = [t \in Tabs |-> NoPass] /\ dom = [l \in Leases |-> None]
  BY DEF RegistryInit
<1>7. QED
  BY <1>1, <1>4, <1>5, <1>6 DEF RegistryInv

LEMMA RegistrySteps ==
  ASSUME RegistryInv, [RegistryNext]_appVars
  PROVE  RegistryInv'
<1>1. CASE UNCHANGED appVars
  <2>1. UNCHANGED <<stored, copy, op, pass, lease, dom>>
    BY <1>1 DEF appVars, registryVars, chainVars
  <2>2. BooksAreKept'
    BY <2>1, BooksStay DEF RegistryInv
  <2>3. QED
    BY <2>1, <2>2 DEF RegistryInv, OpIsTyped, PassIsTyped
<1>2. CASE RegistryNext
  <2>1. \/ \E t \in Tabs :
             \/ DeploySucceeds(t) \/ DeployThrows(t) \/ StopRecords(t) \/ DomainRecords(t) \/ StatusRecords(t)
             \/ LeaseCreated(t) \/ PassReconciles(t) \/ PassDiscovers(t) \/ StorageEvent(t) \/ Reload(t)
        \/ UNCHANGED registryVars
    BY <1>2 DEF RegistryNext, PlanDeploy, DeployRefused, StopSubmits, DomainLands, AnswerLost, StatusReads,
       PassBegins, ListApps, PassFails, CreateLease, PlanStop, StatusStarts, AttachInDeploy, PlanDomain, PassReads,
       ForeignLease, Acknowledge, LeaseEnds, CloseExecutes, UnchangedButChain
  <2>2. UNCHANGED registryVars => UNCHANGED <<stored, copy>>
    BY DEF registryVars
  <2>3. BooksAreKept
    BY DEF RegistryInv
  <2>4. BooksAreKept'
    BY <2>1, <2>2, <2>3, BooksStay, CommandsKeep, LeaseCreatedKeeps, PassWrites, DiscoveriesKeep, TabsKeep
  <2>5. /\ DOMAIN op' = Tabs /\ \A t \in Tabs : OpIsTyped(op[t])'
        /\ DOMAIN pass' = Tabs /\ \A t \in Tabs : PassIsTyped(pass[t])'
    BY <1>2, OpsAreTyped, PassesAreTyped DEF OpIsTyped, PassIsTyped
  <2>6. QED
    BY <1>2, <2>4, <2>5, ChainIsTyped DEF RegistryInv
<1>3. QED
  BY <1>1, <1>2

LEMMA RegistryIsTyped == RegistryInv => RegistryTypeOK
<1>1. RegistryInv => BooksAreKept
  BY DEF RegistryInv
<1>2. BooksAreKept => stored \in Registry /\ \A t \in Tabs : copy[t] \in Registry \cup {None}
  BY DEF BooksAreKept, Summarised
<1>3. QED
  BY <1>1, <1>2, ViewIsKept DEF RegistryTypeOK, Summarised

\* The step of another tab leaves a tab's copy alone, and each step that writes a registry
\* is one of the command or the pass that writes it.
LEMMA UnsavedStays == RegistryInv /\ [RegistryNext]_appVars => KeepsUnsaved
<1> SUFFICES ASSUME RegistryInv, [RegistryNext]_appVars,
                    NEW t \in Tabs, copy[t] # None, op'[t] = op[t], pass'[t] = pass[t], ~Reload(t)
             PROVE  View(t)' = View(t)
  BY DEF KeepsUnsaved
<1>1. DOMAIN copy = Tabs /\ DOMAIN op = Tabs /\ DOMAIN pass = Tabs
  BY DEF RegistryInv, BooksAreKept
<1> SUFFICES copy'[t] = copy[t]
  BY DEF View
<1>2. \A u \in Tabs : \A apps, told : Saved(u, apps) \/ Refused(u, apps) \/ Write(u, apps, told) \/ Unwritten =>
         u = t \/ copy'[t] = copy[t]
  BY <1>1 DEF Saved, Refused, Write, Unwritten, registryVars
<1>3. ASSUME NEW u \in Tabs, NEW l, NEW e, UpdateApp(u, l, e)
      PROVE  u = t \/ copy'[t] = copy[t]
  BY <1>2, <1>3 DEF UpdateApp
<1>4. ASSUME NEW u \in Tabs,
             DeploySucceeds(u) \/ DeployThrows(u) \/ StopRecords(u) \/ DomainRecords(u) \/ StatusRecords(u)
      PROVE  copy'[t] = copy[t]
  <2>1. op'[u] = NoOp /\ op[u].pc # "idle"
    BY <1>1, <1>4 DEF Ends, DeploySucceeds, DeployThrows, StopRecords, DomainRecords, StatusRecords
  <2>2. u # t
    BY <2>1 DEF NoOp
  <2>3. Unwritten \/ \E l, e : UpdateApp(u, l, e)
    BY <1>4 DEF DeploySucceeds, DeployThrows, StopRecords, DomainRecords, StatusRecords
  <2>4. QED
    BY <1>2, <1>3, <2>2, <2>3
<1>5. ASSUME NEW u \in Tabs, LeaseCreated(u)
      PROVE  copy'[t] = copy[t]
  <2>1. op[u].pc = "created" /\ op'[u].pc = "added"
    BY <1>1, <1>5 DEF LeaseCreated
  <2>2. \E apps : Write(u, apps, TRUE)
    BY <1>5 DEF LeaseCreated, AddApp
  <2>3. QED
    BY <1>2, <2>1, <2>2
<1>6. ASSUME NEW u \in Tabs, PassReconciles(u)
      PROVE  copy'[t] = copy[t]
  <2>1. pass[u].pc = "reading" /\ pass'[u].pc # "reading"
    BY <1>1, <1>6 DEF PassReconciles, NoPass
  <2>2. Unwritten \/ \E apps, told : Write(u, apps, told)
    BY <1>6 DEF PassReconciles
  <2>3. QED
    BY <1>2, <2>1, <2>2
<1>7. ASSUME NEW u \in Tabs, PassDiscovers(u)
      PROVE  copy'[t] = copy[t]
  <2>1. pass[u].pc = "discovering" /\ pass'[u].pc = "idle"
    BY <1>1, <1>7 DEF PassDiscovers, NoPass
  <2>2. Unwritten \/ (\E apps : Write(u, apps, TRUE)) \/ \E apps : Saved(u, apps)
    BY <1>7 DEF PassDiscovers
  <2>3. QED
    BY <1>2, <2>1, <2>2
<1>8. ASSUME NEW u \in Tabs, StorageEvent(u) \/ Reload(u)
      PROVE  copy'[t] = copy[t]
  BY <1>1, <1>8 DEF StorageEvent, Reload
<1>9. CASE UNCHANGED appVars
  BY <1>9 DEF appVars, registryVars
<1>10. CASE RegistryNext
  <2>1. \/ \E u \in Tabs :
             \/ DeploySucceeds(u) \/ DeployThrows(u) \/ StopRecords(u) \/ DomainRecords(u) \/ StatusRecords(u)
             \/ LeaseCreated(u) \/ PassReconciles(u) \/ PassDiscovers(u) \/ StorageEvent(u) \/ Reload(u)
        \/ UNCHANGED registryVars
    BY <1>10 DEF RegistryNext, PlanDeploy, DeployRefused, StopSubmits, DomainLands, AnswerLost, StatusReads,
       PassBegins, ListApps, PassFails, CreateLease, PlanStop, StatusStarts, AttachInDeploy, PlanDomain, PassReads,
       ForeignLease, Acknowledge, LeaseEnds, CloseExecutes, UnchangedButChain
  <2>2. UNCHANGED registryVars => copy' = copy
    BY DEF registryVars
  <2>3. QED
    BY <1>4, <1>5, <1>6, <1>7, <1>8, <2>1, <2>2
<1>11. QED
  BY <1>9, <1>10

-----------------------------------------------------------------------------
(* Deployments: the list of tiers *)

\* The lists of tiers there are.
IsTierList(tiers) ==
  /\ DOMAIN tiers \subseteq TierNames
  /\ tiers = [t \in DOMAIN tiers |-> tiers[t]]
  /\ \A t \in DOMAIN tiers : tiers[t] \in [provider : ToSet(Providers), price : Prices]

TierLists == UNION {[S -> [provider : ToSet(Providers), price : Prices]] : S \in SUBSET TierNames}

Offers == [TierNames -> [ToSet(Providers) -> Prices \union {NoOffer}]]

LEMMA ListsOfTiers ==
  /\ <<>> \in TierLists
  /\ \A tiers \in TierLists : IsTierList(tiers)
  /\ \A tiers : IsTierList(tiers) => tiers \in TierLists
<1>1. <<>> \in [{} -> [provider : ToSet(Providers), price : Prices]] /\ {} \in SUBSET TierNames
  OBVIOUS
<1>2. <<>> \in TierLists
  BY <1>1 DEF TierLists
<1>3. QED
  BY <1>2 DEF TierLists, IsTierList

\* Of numbered things with prices there is a cheapest, and the first of those.
LEMMA HasCheapest ==
  ASSUME NEW I \in SUBSET Nat, I # {}, NEW price \in [I -> Nat]
  PROVE  \E i \in I : \A j \in I : price[i] < price[j] \/ (price[i] = price[j] /\ i <= j)
<1> DEFINE paid == {price[i] : i \in I}
<1>1. PICK p \in paid : \A q \in paid : p <= q
  <2>1. paid \in SUBSET Nat /\ paid # {}
    OBVIOUS
  <2> HIDE DEF paid
  <2>2. QED
    BY <2>1, HasLeast
<1> DEFINE best == {i \in I : price[i] = p}
<1>2. PICK i \in best : \A j \in best : i <= j
  <2>1. best \in SUBSET Nat /\ best # {}
    BY <1>1
  <2> HIDE DEF best
  <2>2. QED
    BY <2>1, HasLeast
<1>3. \A j \in I : price[j] \in Nat /\ p <= price[j]
  BY <1>1
<1>4. i \in I /\ price[i] = p
  BY <1>2
<1>5. \A j \in I : price[j] = p => i <= j
  BY <1>2
<1>6. QED
  BY <1>3, <1>4, <1>5

LEMMA PlacesAreNumbers ==
  /\ DOMAIN Tiers = 1..Len(Tiers) /\ Len(Tiers) \in Nat /\ DOMAIN Tiers \subseteq Nat
  /\ DOMAIN Providers = 1..Len(Providers) /\ Len(Providers) \in Nat /\ DOMAIN Providers \subseteq Nat
  /\ \A i \in DOMAIN Tiers : Tiers[i] \in TierNames
  /\ \A i \in DOMAIN Providers : Providers[i] \in ToSet(Providers)
BY DeployAssumption DEF TierNames, ToSet

LEMMA BestIsPriced ==
  ASSUME NEW offers \in Offers, NEW t \in TierNames, Priced(offers, t) # {}
  PROVE  BestOffer(offers, t) \in Priced(offers, t)
<1> DEFINE I == Priced(offers, t)
           price == [i \in I |-> offers[t][Providers[i]]]
           Best(i) == \A j \in I : price[i] < price[j] \/ (price[i] = price[j] /\ i <= j)
<1>1. I \in SUBSET Nat /\ I # {}
  BY PlacesAreNumbers DEF Priced
<1>2. ASSUME NEW i \in I PROVE price[i] \in Nat
  <2>1. Providers[i] \in ToSet(Providers) /\ offers[t][Providers[i]] # NoOffer
    BY PlacesAreNumbers DEF Priced
  <2>2. offers[t][Providers[i]] \in Prices \union {NoOffer}
    BY <2>1 DEF Offers
  <2>3. QED
    BY <2>1, <2>2, DeployAssumption
<1>3. price \in [I -> Nat]
  BY <1>2
<1>4. \E i \in I : Best(i)
  <2> HIDE DEF I, price
  <2>1. QED
    BY <1>1, <1>3, HasCheapest
<1>5. BestOffer(offers, t) = CHOOSE i \in I : Best(i)
  BY DEF BestOffer
<1> HIDE DEF Best
<1>6. QED
  BY <1>4, <1>5

\* What the chain's catalog resolves to is a list of tiers.
LEMMA ResolvedIsList ==
  ASSUME NEW offers \in Offers, NEW specs \in SUBSET TierNames
  PROVE  IsTierList(Resolved(offers, specs))
<1> DEFINE R == Resolved(offers, specs)
<1>1. DOMAIN R = {s \in specs : Priced(offers, s) # {}} /\ R = [t \in DOMAIN R |-> R[t]]
  BY DEF Resolved
<1>2. ASSUME NEW t \in DOMAIN R PROVE R[t] \in [provider : ToSet(Providers), price : Prices]
  <2>1. t \in TierNames /\ BestOffer(offers, t) \in Priced(offers, t)
    BY <1>1, BestIsPriced
  <2> DEFINE p == Providers[BestOffer(offers, t)]
  <2>2. p \in ToSet(Providers) /\ offers[t][p] # NoOffer /\ offers[t][p] \in Prices \union {NoOffer}
    BY <2>1, PlacesAreNumbers DEF Priced, Offers
  <2>3. R[t] = [provider |-> p, price |-> offers[t][p]]
    BY <1>1 DEF Resolved
  <2>4. QED
    BY <2>2, <2>3
<1>3. QED
  BY <1>1, <1>2 DEF IsTierList

LEMMA CheapestIsThere ==
  ASSUME NEW tiers, IsTierList(tiers), DOMAIN tiers # {}
  PROVE  CheapestTier(tiers) \in DOMAIN tiers
<1> DEFINE I == {i \in DOMAIN Tiers : Tiers[i] \in DOMAIN tiers}
           price == [i \in I |-> tiers[Tiers[i]].price]
           Best(i) == /\ Tiers[i] \in DOMAIN tiers
                      /\ \A j \in DOMAIN Tiers : Tiers[j] \in DOMAIN tiers =>
                           \/ tiers[Tiers[i]].price < tiers[Tiers[j]].price
                           \/ tiers[Tiers[i]].price = tiers[Tiers[j]].price /\ i <= j
<1>1. I \in SUBSET Nat /\ I # {}
  <2>1. PICK t \in DOMAIN tiers : t \in TierNames
    BY DEF IsTierList
  <2>2. PICK i \in DOMAIN Tiers : Tiers[i] = t
    BY <2>1 DEF TierNames, ToSet
  <2>3. QED
    BY <2>1, <2>2, PlacesAreNumbers
<1>2. price \in [I -> Nat]
  BY DeployAssumption DEF IsTierList
<1>3. \E i \in I : \A j \in I : price[i] < price[j] \/ (price[i] = price[j] /\ i <= j)
  <2> HIDE DEF I, price
  <2>1. QED
    BY <1>1, <1>2, HasCheapest
<1>4. \E i \in DOMAIN Tiers : Best(i)
  BY <1>3
<1>5. CheapestTier(tiers) = Tiers[CHOOSE i \in DOMAIN Tiers : Best(i)]
  BY DEF CheapestTier
<1> HIDE DEF Best
<1>6. PICK i : i = CHOOSE k \in DOMAIN Tiers : Best(k)
  OBVIOUS
<1>7. Best(i)
  BY <1>4, <1>6
<1>8. QED
  BY <1>5, <1>6, <1>7 DEF Best

\* The first element that is in a set is, and comes before any other.
LEMMA FirstInIsIn ==
  ASSUME NEW s, NEW n \in Nat, DOMAIN s = 1..n, NEW S, ToSet(s) \cap S # {}
  PROVE  /\ FirstIn(s, S) \in S /\ FirstIn(s, S) \in ToSet(s)
         /\ n > 0 /\ (s[1] \in S => FirstIn(s, S) = s[1])
<1> DEFINE I == {i \in DOMAIN s : s[i] \in S}
<1>1. I \in SUBSET Nat /\ I # {} /\ I \subseteq 1..n
  BY DEF ToSet
<1>2. PICK i \in I : \A j \in I : i <= j
  <2> HIDE DEF I
  <2>1. QED
    BY <1>1, HasLeast
<1>3. Min(I) \in I /\ \A j \in I : Min(I) <= j
  <2> HIDE DEF I
  <2>1. QED
    BY <1>2 DEF Min
<1>4. FirstIn(s, S) = s[Min(I)]
  BY DEF FirstIn
<1> DEFINE m == Min(I)
<1>5. m \in DOMAIN s /\ s[m] \in S /\ m \in 1..n
  BY <1>1, <1>3
<1>6. s[1] \in S => m = 1
  <2>1. s[1] \in S => 1 \in I
    BY <1>5
  <2>2. 1 \in I => m <= 1
    BY <1>3
  <2> HIDE DEF m, I
  <2>3. QED
    BY <1>5, <2>1, <2>2
<1> HIDE DEF m
<1>7. FirstIn(s, S) = s[m]
  BY <1>4 DEF m
<1>8. QED
  BY <1>5, <1>6, <1>7 DEF ToSet

\* A size stands for a tier that is offered, and the size of the entry for that same tier.
LEMMA SizeStays ==
  ASSUME NEW tiers, IsTierList(tiers), DOMAIN tiers # {},
         NEW size \in DOMAIN Matches \union {NoSize}, NEW r, r = SizeOrCheapest(size, tiers)
  PROVE  /\ r \in [tier : DOMAIN tiers, requested : DOMAIN Matches \union {NoSize}]
         /\ SizeOrCheapest(IF r.requested # NoSize THEN r.requested ELSE r.tier, tiers) = r
<1> DEFINE lists(s) == \E n \in Nat : DOMAIN Matches[s] = 1..n
<1>1. CheapestTier(tiers) \in DOMAIN tiers
  BY CheapestIsThere
<1>2. \A s \in DOMAIN Matches : lists(s)
  BY DeployAssumption
<1>3. \A t \in DOMAIN tiers : t \in DOMAIN Matches /\ t # NoSize /\ Matches[t] # <<>> /\ Matches[t][1] = t /\ Matches[t] \in Seq(TierNames)
  BY DeployAssumption DEF IsTierList
<1>4. \A t \in DOMAIN tiers : SizeOrCheapest(t, tiers) = [tier |-> t, requested |-> NoSize]
  <2> SUFFICES ASSUME NEW t \in DOMAIN tiers PROVE SizeOrCheapest(t, tiers) = [tier |-> t, requested |-> NoSize]
    OBVIOUS
  <2>1. Matches[t] \in Seq(TierNames) /\ Matches[t] # <<>>
    BY <1>3
  <2>2. Len(Matches[t]) \in Nat /\ DOMAIN Matches[t] = 1..Len(Matches[t]) /\ 1 \in DOMAIN Matches[t]
    BY <2>1
  <2>3. t \in Named(t, tiers)
    BY <1>3, <2>2 DEF Named, ToSet
  <2>4. FirstIn(Matches[t], Named(t, tiers)) = t
    <3>1. ToSet(Matches[t]) \cap Named(t, tiers) # {}
      BY <2>3 DEF Named
    <3>2. QED
      BY <1>3, <2>2, <2>3, <3>1, FirstInIsIn
  <2>5. QED
    BY <1>3, <2>3, <2>4 DEF SizeOrCheapest
<1>5. CASE size = NoSize
  BY <1>1, <1>4, <1>5 DEF SizeOrCheapest
<1>6. CASE size # NoSize /\ Named(size, tiers) # {}
  <2>1. FirstIn(Matches[size], Named(size, tiers)) \in Named(size, tiers)
    <3>1. ToSet(Matches[size]) \cap Named(size, tiers) # {}
      BY <1>6 DEF Named
    <3>2. PICK n \in Nat : DOMAIN Matches[size] = 1..n
      BY <1>2, <1>6
    <3>3. QED
      BY <3>1, <3>2, FirstInIsIn
  <2>2. r = [tier |-> FirstIn(Matches[size], Named(size, tiers)), requested |-> NoSize]
    BY <1>6 DEF SizeOrCheapest
  <2>3. r.tier \in DOMAIN tiers /\ r.requested = NoSize
    BY <2>1, <2>2 DEF Named
  <2>4. QED
    BY <1>4, <2>2, <2>3
<1>7. CASE size # NoSize /\ Named(size, tiers) = {}
  <2>1. r = [tier |-> CheapestTier(tiers), requested |-> size]
    BY <1>7 DEF SizeOrCheapest
  <2>2. r.tier = CheapestTier(tiers) /\ r.requested = size
    BY <2>1
  <2>3. r \in [tier : DOMAIN tiers, requested : DOMAIN Matches \union {NoSize}]
    BY <1>1, <2>1
  <2>4. QED
    BY <1>7, <2>2, <2>3
<1>8. QED
  BY <1>5, <1>6, <1>7

LEMMA EveryNameCanBeAsked == AppNames = DOMAIN Candidates
<1>1. ASSUME NEW n \in DOMAIN Candidates PROVE ToSet(Candidates[n]) \subseteq DOMAIN Candidates /\ n \in ToSet(Candidates[n])
  <2>1. Candidates[n] \in Seq(DOMAIN Candidates) /\ Candidates[n] # <<>> /\ Candidates[n][1] = n
    BY DeployAssumption
  <2>2. DOMAIN Candidates[n] = 1..Len(Candidates[n]) /\ 1 \in DOMAIN Candidates[n]
    BY <2>1
  <2>3. QED
    BY <2>1, <2>2 DEF ToSet
<1>2. QED
  BY <1>1 DEF AppNames

\* A name that is found is free, and a free name is found for itself.
LEMMA NameIsFree ==
  ASSUME NEW requested \in DOMAIN Candidates, NEW used, NEW n, n = NextName(requested, used)
  PROVE  /\ n # NoName => n \in AppNames /\ n \notin takenNames /\ n \notin used
         /\ requested \notin takenNames \union used => n = requested
<1> DEFINE free == ToSet(Candidates[requested]) \ (takenNames \union used)
<1>1. Candidates[requested] \in Seq(DOMAIN Candidates) /\ Candidates[requested] # <<>> /\ Candidates[requested][1] = requested
  BY DeployAssumption
<1>2. DOMAIN Candidates[requested] = 1..Len(Candidates[requested]) /\ 1 \in DOMAIN Candidates[requested] /\ Len(Candidates[requested]) \in Nat
  BY <1>1
<1>3. n = IF free = {} THEN NoName ELSE FirstIn(Candidates[requested], free)
  BY DEF NextName
<1>4. requested \notin takenNames \union used => requested \in free
  BY <1>1, <1>2 DEF ToSet
<1>5. free # {} => ToSet(Candidates[requested]) \cap free # {}
  OBVIOUS
<1>6. free \subseteq AppNames /\ free \cap (takenNames \union used) = {}
  BY DEF AppNames
<1> HIDE DEF free
<1>7. free # {} => n \in free /\ (requested \in free => n = requested)
  BY <1>1, <1>2, <1>3, <1>5, FirstInIsIn
<1>8. QED
  BY <1>3, <1>4, <1>6, <1>7

-----------------------------------------------------------------------------
(* Deployments: the entries of a plan *)

NothingReserved == [entries |-> <<>>, rejected |-> FALSE]
Reservations == [entries : Seq(PlanEntry), rejected : BOOLEAN]

\* An entry as planning it again would make it.
Fits(e, tiers) ==
  /\ SizeOrCheapest(SizeAgain(e), tiers) = [tier |-> e.size, requested |-> e.requested]
  /\ e.size \in DOMAIN tiers
  /\ e.provider = tiers[e.size].provider /\ e.price = tiers[e.size].price
  /\ e.name \notin takenNames

\* No two entries share a name or the domain.
Distinct(entries) ==
  \A i, j \in DOMAIN entries : i # j =>
    entries[i].name # entries[j].name /\ ~(entries[i].domain /\ entries[j].domain)

AllFit(entries, tiers) == Distinct(entries) /\ \A i \in DOMAIN entries : Fits(entries[i], tiers)

\* A set with zero that goes on to the next number, up to n, has them all.
LEMMA CountsUpTo ==
  ASSUME NEW n \in Nat, NEW S, 0 \in S, \A i \in 1..n : i - 1 \in S => i \in S
  PROVE  n \in S
<1> DEFINE bad == (0..n) \ S
<1>1. ASSUME bad # {} PROVE FALSE
  <2>1. PICK i \in bad : \A j \in bad : i <= j
    <3>1. bad \in SUBSET Nat /\ bad # {}
      BY <1>1
    <3> HIDE DEF bad
    <3>2. QED
      BY <3>1, HasLeast
  <2>2. i \in 1..n /\ i - 1 \in 0..n /\ i - 1 \notin bad
    BY <2>1
  <2>3. QED
    BY <2>1, <2>2
<1>2. QED
  BY <1>1

\* g[k] is what is reserved after k drafts.
ReservesUpTo(drafts, inUse, n, g) ==
  g = [k \in 0..n |-> IF k = 0 THEN NothingReserved ELSE Reserve(g[k - 1], drafts[k], inUse)]

LEMMA ReservingExists ==
  ASSUME NEW drafts, NEW inUse, NEW n \in Nat
  PROVE  \E g : ReservesUpTo(drafts, inUse, n, g)
<1> DEFINE S == {m \in 0..n : \E g : ReservesUpTo(drafts, inUse, m, g)}
<1>1. 0 \in S
  <2>1. ReservesUpTo(drafts, inUse, 0, [k \in 0..0 |-> NothingReserved])
    BY DEF ReservesUpTo
  <2>2. QED
    BY <2>1
<1>2. ASSUME NEW m \in 1..n, m - 1 \in S PROVE m \in S
  <2>1. PICK g : ReservesUpTo(drafts, inUse, m - 1, g)
    BY <1>2
  <2> DEFINE h == [k \in 0..m |-> IF k = m THEN Reserve(g[m - 1], drafts[m], inUse) ELSE g[k]]
  <2>2. g = [k \in 0..m-1 |-> IF k = 0 THEN NothingReserved ELSE Reserve(g[k - 1], drafts[k], inUse)]
    BY <2>1 DEF ReservesUpTo
  <2>3. ASSUME NEW k \in 0..m PROVE h[k] = IF k = 0 THEN NothingReserved ELSE Reserve(h[k - 1], drafts[k], inUse)
    <3>1. CASE k = m
      <4>1. h[k - 1] = g[m - 1] /\ k # 0
        BY <3>1
      <4>2. QED
        BY <3>1, <4>1
    <3>2. CASE k # m
      <4>1. k \in 0..m-1 /\ h[k] = g[k] /\ (k # 0 => h[k - 1] = g[k - 1])
        BY <3>2
      <4>2. QED
        BY <2>2, <4>1
    <3>3. QED
      BY <3>1, <3>2
  <2>4. ReservesUpTo(drafts, inUse, m, h)
    BY <2>3 DEF ReservesUpTo
  <2>5. QED
    BY <2>4
<1>3. n \in S
  <2> HIDE DEF S
  <2>1. QED
    BY <1>1, <1>2, CountsUpTo
<1>4. QED
  BY <1>3

\* What holds of no draft, and goes on to the next, holds of the reservation.
LEMMA ReservedInSteps ==
  ASSUME NEW drafts, Len(drafts) \in Nat, NEW inUse, NEW S, <<0, NothingReserved>> \in S,
         \A m \in 1..Len(drafts) : \A acc : <<m - 1, acc>> \in S => <<m, Reserve(acc, drafts[m], inUse)>> \in S
  PROVE  <<Len(drafts), Reserved(drafts, inUse)>> \in S
<1> DEFINE n == Len(drafts)
           g == CHOOSE h : ReservesUpTo(drafts, inUse, n, h)
           M == {m \in 0..n : <<m, g[m]>> \in S}
<1>1. ReservesUpTo(drafts, inUse, n, g)
  BY ReservingExists
<1>2. Reserved(drafts, inUse) = g[n]
  BY DEF Reserved, ReservesUpTo, NothingReserved
<1> HIDE DEF g
<1>3. \A m \in 0..n : g[m] = IF m = 0 THEN NothingReserved ELSE Reserve(g[m - 1], drafts[m], inUse)
  BY <1>1 DEF ReservesUpTo
<1>4. 0 \in M
  <2>1. g[0] = NothingReserved
    BY <1>3
  <2>2. QED
    BY <2>1
<1>5. \A m \in 1..n : m - 1 \in M => m \in M
  <2> SUFFICES ASSUME NEW m \in 1..n, m - 1 \in M PROVE m \in M
    OBVIOUS
  <2>1. g[m] = Reserve(g[m - 1], drafts[m], inUse) /\ <<m - 1, g[m - 1]>> \in S
    BY <1>3
  <2>2. QED
    BY <2>1
<1>6. n \in M
  <2> HIDE DEF M
  <2>1. QED
    BY <1>4, <1>5, CountsUpTo
<1>7. QED
  BY <1>2, <1>6

\* The entry that a draft becomes.
EntryOf(draft, name, size) ==
  [name |-> name, size |-> size.tier, requested |-> size.requested, provider |-> plan.tiers[size.tier].provider,
   price |-> plan.tiers[size.tier].price, domain |-> draft.domain]

NamesOf(entries) == {entries[i].name : i \in DOMAIN entries}

\* A draft is rejected or becomes an entry that fits, whose name and domain are its own.
LEMMA ReserveOne ==
  ASSUME IsTierList(plan.tiers), DOMAIN plan.tiers # {}, NEW acc \in Reservations, NEW draft \in Draft,
         NEW inUse, NEW new, new = Reserve(acc, draft, inUse)
  PROVE  \/ new = [acc EXCEPT !.rejected = TRUE]
         \/ \E e \in PlanEntry :
              /\ new = [acc EXCEPT !.entries = Append(acc.entries, e)]
              /\ Fits(e, plan.tiers)
              /\ e = EntryOf(draft, NextName(draft.name, NamesOf(acc.entries)), SizeOrCheapest(draft.size, plan.tiers))
              /\ \A i \in DOMAIN acc.entries : acc.entries[i].name # e.name /\ ~(acc.entries[i].domain /\ e.domain)
<1> DEFINE size == SizeOrCheapest(draft.size, plan.tiers)
           name == NextName(draft.name, NamesOf(acc.entries))
           e == EntryOf(draft, name, size)
           bad == \/ ~draft.acceptable
                  \/ draft.domain /\ inUse
                  \/ name = NoName
                  \/ draft.domain /\ \E i \in DOMAIN acc.entries : acc.entries[i].domain
<1>1. new = IF bad THEN [acc EXCEPT !.rejected = TRUE] ELSE [acc EXCEPT !.entries = Append(acc.entries, e)]
  BY DEF Reserve, EntryOf, NamesOf
<1>2. CASE bad
  BY <1>1, <1>2
<1>3. CASE ~bad
  <2>1. draft.name \in DOMAIN Candidates /\ draft.size \in DOMAIN Matches \union {NoSize} /\ draft.domain \in BOOLEAN
    BY DEF Draft
  <2>2. size \in [tier : DOMAIN plan.tiers, requested : DOMAIN Matches \union {NoSize}]
        /\ SizeOrCheapest(IF size.requested # NoSize THEN size.requested ELSE size.tier, plan.tiers) = size
    BY <2>1, SizeStays
  <2>3. name \in AppNames /\ name \notin takenNames /\ name \notin NamesOf(acc.entries)
    <3>1. name # NoName
      BY <1>3
    <3>2. QED
      BY <2>1, <3>1, NameIsFree
  <2>4. size.tier \in TierNames /\ plan.tiers[size.tier] \in [provider : ToSet(Providers), price : Prices]
    BY <2>2 DEF IsTierList
  <2> HIDE DEF size, name
  <2>5. e \in PlanEntry
    BY <2>1, <2>2, <2>3, <2>4 DEF PlanEntry, EntryOf
  <2>6. SizeAgain(e) = IF size.requested # NoSize THEN size.requested ELSE size.tier
    BY DEF SizeAgain, EntryOf
  <2>7. /\ e.size = size.tier /\ e.requested = size.requested /\ e.name = name /\ e.domain = draft.domain
        /\ e.provider = plan.tiers[size.tier].provider /\ e.price = plan.tiers[size.tier].price
    BY DEF EntryOf
  <2>8. size = [tier |-> e.size, requested |-> e.requested]
    BY <2>2, <2>7
  <2>9. Fits(e, plan.tiers)
    BY <2>2, <2>3, <2>6, <2>7, <2>8 DEF Fits
  <2>10. \A i \in DOMAIN acc.entries : acc.entries[i].name # e.name /\ ~(acc.entries[i].domain /\ e.domain)
    BY <1>3, <2>3, <2>7 DEF NamesOf
  <2>11. new = [acc EXCEPT !.entries = Append(acc.entries, e)]
    BY <1>1, <1>3
  <2>12. e = EntryOf(draft, NextName(draft.name, NamesOf(acc.entries)), SizeOrCheapest(draft.size, plan.tiers))
    BY DEF size, name
  <2> HIDE DEF e
  <2>13. QED
    BY <2>5, <2>9, <2>10, <2>11, <2>12
<1>4. QED
  BY <1>2, <1>3

LEMMA OneMoreFits ==
  ASSUME NEW entries \in Seq(PlanEntry), NEW tiers, AllFit(entries, tiers), NEW e \in PlanEntry, Fits(e, tiers),
         \A i \in DOMAIN entries : entries[i].name # e.name /\ ~(entries[i].domain /\ e.domain)
  PROVE  AllFit(Append(entries, e), tiers)
<1> DEFINE new == Append(entries, e)
<1>1. DOMAIN entries = 1..Len(entries) /\ DOMAIN new = 1..Len(entries)+1 /\ Len(entries) \in Nat
  OBVIOUS
<1>7. (\A i \in 1..Len(entries) : new[i] = entries[i]) /\ new[Len(entries) + 1] = e
  OBVIOUS
<1> HIDE DEF new
<1>2. \A i \in DOMAIN new : \/ i \in DOMAIN entries /\ new[i] = entries[i]
                            \/ i = Len(entries) + 1 /\ new[i] = e
  <2>1. \A i \in DOMAIN new : i = Len(entries) + 1 \/ i \in 1..Len(entries)
    BY <1>1
  <2>2. QED
    BY <1>1, <1>7, <2>1
<1>3. \A i \in DOMAIN new : Fits(new[i], tiers)
  BY <1>2 DEF AllFit
<1>4. Distinct(new)
  <2> SUFFICES ASSUME NEW i \in DOMAIN new, NEW j \in DOMAIN new, i # j
               PROVE  new[i].name # new[j].name /\ ~(new[i].domain /\ new[j].domain)
    BY DEF Distinct
  <2>1. CASE i \in DOMAIN entries /\ j \in DOMAIN entries /\ new[i] = entries[i] /\ new[j] = entries[j]
    BY <2>1 DEF AllFit, Distinct
  <2>2. CASE i \in DOMAIN entries /\ new[i] = entries[i] /\ new[j] = e
    BY <2>2
  <2>3. CASE j \in DOMAIN entries /\ new[j] = entries[j] /\ new[i] = e
    BY <2>3
  <2>4. QED
    BY <1>2, <2>1, <2>2, <2>3
<1>5. QED
  BY <1>3, <1>4 DEF AllFit, new

\* The entries of a plan fit.
LEMMA PlannedFits ==
  ASSUME IsTierList(plan.tiers), DOMAIN plan.tiers # {}, NEW drafts \in Seq(Draft), NEW inUse, NEW result,
         result = Reserved(drafts, inUse)
  PROVE  result \in Reservations /\ AllFit(result.entries, plan.tiers)
<1> DEFINE n == Len(drafts)
           S == {p \in (0..n) \X Reservations : AllFit(p[2].entries, plan.tiers)}
<1>0. \A m, acc : <<m, acc>> \in S <=> m \in 0..n /\ acc \in Reservations /\ AllFit(acc.entries, plan.tiers)
  OBVIOUS
<1> HIDE DEF S
<1>1. n \in Nat /\ \A m \in 1..n : drafts[m] \in Draft
  OBVIOUS
<1>2. <<0, NothingReserved>> \in S
  <2>1. NothingReserved \in Reservations /\ NothingReserved.entries = <<>> /\ DOMAIN <<>> = {}
    BY DEF NothingReserved, Reservations
  <2>2. AllFit(<<>>, plan.tiers)
    BY <2>1 DEF AllFit, Distinct
  <2>3. QED
    BY <1>0, <1>1, <2>1, <2>2
<1>3. ASSUME NEW m \in 1..n, NEW acc, <<m - 1, acc>> \in S PROVE <<m, Reserve(acc, drafts[m], inUse)>> \in S
  <2>1. acc \in Reservations /\ AllFit(acc.entries, plan.tiers) /\ acc.entries \in Seq(PlanEntry)
    BY <1>0, <1>3 DEF Reservations
  <2>0. m \in 0..n
    BY <1>1
  <2>7. PICK new : new = Reserve(acc, drafts[m], inUse)
    OBVIOUS
  <2>2. CASE new = [acc EXCEPT !.rejected = TRUE]
    <3>1. new \in Reservations /\ new.entries = acc.entries
      BY <2>1, <2>2 DEF Reservations
    <3>2. QED
      BY <1>0, <2>0, <2>1, <2>7, <3>1
  <2>3. ASSUME NEW e \in PlanEntry, new = [acc EXCEPT !.entries = Append(acc.entries, e)], Fits(e, plan.tiers),
               \A i \in DOMAIN acc.entries : acc.entries[i].name # e.name /\ ~(acc.entries[i].domain /\ e.domain)
        PROVE  <<m, new>> \in S
    <3>1. AllFit(Append(acc.entries, e), plan.tiers)
      BY <2>1, <2>3, OneMoreFits
    <3>2. new \in Reservations /\ new.entries = Append(acc.entries, e)
      <4>1. Append(acc.entries, e) \in Seq(PlanEntry)
        BY <2>1, <2>3
      <4>2. QED
        BY <2>1, <2>3, <4>1 DEF Reservations
    <3>3. QED
      BY <1>0, <2>0, <2>7, <3>1, <3>2
  <2>4. drafts[m] \in Draft
    BY <1>1
  <2>5. \/ new = [acc EXCEPT !.rejected = TRUE]
        \/ \E e \in PlanEntry :
             /\ new = [acc EXCEPT !.entries = Append(acc.entries, e)]
             /\ Fits(e, plan.tiers)
             /\ \A i \in DOMAIN acc.entries : acc.entries[i].name # e.name /\ ~(acc.entries[i].domain /\ e.domain)
    <3>1. PICK d \in Draft : d = drafts[m]
      BY <2>4
    <3>2. new = Reserve(acc, d, inUse)
      BY <2>7, <3>1
    <3>3. QED
      BY <2>1, <3>2, ReserveOne
  <2>6. <<m, new>> \in S
    BY <2>2, <2>3, <2>5, <2>7
  <2>8. QED
    BY <2>6, <2>7
<1>4. <<n, result>> \in S
  BY <1>1, <1>2, <1>3, ReservedInSteps
<1>5. QED
  BY <1>0, <1>4

\* Planning the entries of a plan that fits gives them again, or rejects one.
LEMMA PlannedAgain ==
  ASSUME IsTierList(plan.tiers), DOMAIN plan.tiers # {}, NEW entries \in Seq(PlanEntry), AllFit(entries, plan.tiers),
         NEW inUse, NEW result, result = Reserved(DraftsOf(entries), inUse), ~result.rejected
  PROVE  result.entries = entries
<1> DEFINE n == Len(entries)
           drafts == DraftsOf(entries)
           Repeats(acc, m) == Len(acc.entries) = m /\ \A k \in 1..m : acc.entries[k] = entries[k]
           S == {p \in (0..n) \X Reservations : ~p[2].rejected => Repeats(p[2], p[1])}
<1>0. \A m, acc : <<m, acc>> \in S <=> m \in 0..n /\ acc \in Reservations /\ (~acc.rejected => Repeats(acc, m))
  OBVIOUS
<1> HIDE DEF S
<1>1. n \in Nat /\ DOMAIN entries = 1..n /\ \A m \in 1..n : entries[m] \in PlanEntry
  OBVIOUS
<1>2. Len(drafts) = n /\ \A m \in 1..n : drafts[m] = [name |-> entries[m].name, size |-> SizeAgain(entries[m]),
                                                      domain |-> entries[m].domain, acceptable |-> TRUE]
  BY <1>1 DEF DraftsOf
<1> HIDE DEF drafts
<1>3. <<0, NothingReserved>> \in S
  <2>1. NothingReserved \in Reservations /\ Repeats(NothingReserved, 0)
    BY DEF NothingReserved, Reservations
  <2>2. 0 \in 0..n
    BY <1>1
  <2> HIDE DEF Repeats
  <2>3. QED
    BY <1>0, <2>1, <2>2
<1>4. ASSUME NEW m \in 1..n, NEW acc, <<m - 1, acc>> \in S PROVE <<m, Reserve(acc, drafts[m], inUse)>> \in S
  <2>1. acc \in Reservations /\ acc.entries \in Seq(PlanEntry) /\ (~acc.rejected => Repeats(acc, m - 1))
    <3>1. acc \in Reservations /\ (~acc.rejected => Repeats(acc, m - 1))
      BY <1>0, <1>4
    <3>2. acc.entries \in Seq(PlanEntry)
      BY <3>1 DEF Reservations
    <3>3. QED
      BY <3>1, <3>2
  <2> DEFINE e == entries[m]
  <2>8. PICK new : new = Reserve(acc, drafts[m], inUse)
    OBVIOUS
  <2>2. e \in PlanEntry /\ Fits(e, plan.tiers) /\ m \in DOMAIN entries
    BY <1>1 DEF AllFit
  <2>0. /\ m \in 0..n
        /\ drafts[m] = [name |-> e.name, size |-> SizeAgain(e), domain |-> e.domain, acceptable |-> TRUE]
        /\ drafts[m].name = e.name /\ drafts[m].size = SizeAgain(e) /\ drafts[m].domain = e.domain
    <3>1. drafts[m] = [name |-> e.name, size |-> SizeAgain(e), domain |-> e.domain, acceptable |-> TRUE]
      BY <1>2
    <3>2. QED
      BY <1>1, <3>1
  <2>3. drafts[m] \in Draft
    <3>1. e.name \in DOMAIN Candidates /\ e.domain \in BOOLEAN /\ SizeAgain(e) \in DOMAIN Matches \union {NoSize}
      BY <2>2, EveryNameCanBeAsked, DeployAssumption DEF PlanEntry, SizeAgain
    <3>2. QED
      BY <2>0, <3>1 DEF Draft
  <2>4. CASE new = [acc EXCEPT !.rejected = TRUE]
    <3>1. new \in Reservations /\ new.rejected
      BY <2>1, <2>4 DEF Reservations
    <3> HIDE DEF Repeats
    <3>2. QED
      BY <1>0, <2>0, <2>8, <3>1
  <2>5. ASSUME NEW f \in PlanEntry, new = [acc EXCEPT !.entries = Append(acc.entries, f)],
               f = EntryOf(drafts[m], NextName(drafts[m].name, NamesOf(acc.entries)), SizeOrCheapest(drafts[m].size, plan.tiers))
        PROVE  <<m, new>> \in S
    <3>1. new \in Reservations /\ new.entries = Append(acc.entries, f) /\ new.rejected = acc.rejected
      <4>1. Append(acc.entries, f) \in Seq(PlanEntry)
        BY <2>1, <2>5
      <4>2. QED
        BY <2>1, <2>5, <4>1 DEF Reservations
    <3>2. ASSUME ~acc.rejected PROVE f = e
      <4>1. Repeats(acc, m - 1)
        BY <2>1, <3>2
      <4>2. e.name \notin NamesOf(acc.entries)
        <5>1. DOMAIN acc.entries = 1..m-1
          BY <2>1, <4>1
        <5>2. \A k \in 1..m-1 : entries[k].name # e.name
          BY <1>1, <2>2 DEF AllFit, Distinct
        <5>3. QED
          BY <4>1, <5>1, <5>2 DEF NamesOf
      <4>3. NextName(drafts[m].name, NamesOf(acc.entries)) = e.name
        <5>1. drafts[m].name = e.name /\ e.name \in DOMAIN Candidates
          BY <2>0, <2>3 DEF Draft
        <5>2. e.name \notin takenNames \union NamesOf(acc.entries)
          BY <2>2, <4>2 DEF Fits
        <5>3. QED
          BY <5>1, <5>2, NameIsFree
      <4>4. SizeOrCheapest(drafts[m].size, plan.tiers) = [tier |-> e.size, requested |-> e.requested]
        BY <2>0, <2>2 DEF Fits
      <4>5. f = [name |-> e.name, size |-> e.size, requested |-> e.requested, provider |-> plan.tiers[e.size].provider,
                 price |-> plan.tiers[e.size].price, domain |-> e.domain]
        BY <2>0, <2>5, <4>3, <4>4 DEF EntryOf
      <4>6. QED
        BY <2>2, <4>5 DEF Fits, PlanEntry
    <3>3. ASSUME ~acc.rejected PROVE Repeats(new, m)
      <4>1. Repeats(acc, m - 1) /\ f = e
        BY <2>1, <3>2, <3>3
      <4>2. QED
        BY <1>1, <2>1, <3>1, <4>1
    <3> HIDE DEF Repeats
    <3>4. QED
      BY <1>0, <2>0, <2>8, <3>1, <3>3
  <2>6. \/ new = [acc EXCEPT !.rejected = TRUE]
        \/ \E f \in PlanEntry :
             /\ new = [acc EXCEPT !.entries = Append(acc.entries, f)]
             /\ f = EntryOf(drafts[m], NextName(drafts[m].name, NamesOf(acc.entries)), SizeOrCheapest(drafts[m].size, plan.tiers))
    <3>1. PICK d \in Draft : d = drafts[m]
      BY <2>3
    <3>2. new = Reserve(acc, d, inUse)
      BY <2>8, <3>1
    <3>3. \/ new = [acc EXCEPT !.rejected = TRUE]
          \/ \E f \in PlanEntry :
               /\ new = [acc EXCEPT !.entries = Append(acc.entries, f)]
               /\ f = EntryOf(d, NextName(d.name, NamesOf(acc.entries)), SizeOrCheapest(d.size, plan.tiers))
      BY <2>1, <3>2, ReserveOne
    <3>4. QED
      BY <3>1, <3>3
  <2>7. <<m, new>> \in S
    BY <2>4, <2>5, <2>6, <2>8
  <2>9. QED
    BY <2>7, <2>8
<1>5. <<n, result>> \in S
  BY <1>1, <1>2, <1>3, <1>4, ReservedInSteps DEF drafts
<1>6. result \in Reservations /\ Repeats(result, n)
  BY <1>0, <1>5
<1>7. QED
  BY <1>1, <1>6 DEF Reservations

-----------------------------------------------------------------------------
(* Deployments: the invariant *)

PlanSteps == {"idle", "catalog", "domains", "credits", "card", "running", "refused", "changed"}
DeploymentPlans ==
  [step : PlanSteps, batch : BOOLEAN, partial : BOOLEAN, known : SUBSET TierNames, drafts : Seq(Draft),
   tiers : TierLists, entries : Seq(PlanEntry)]
DeploymentRuns ==
  [entries : Seq(PlanEntry), queued : Nat, leased : SUBSET Nat, signed : SUBSET Nat, succeeded : SUBSET Nat,
   unconfirmed : SUBSET Nat, failed : SUBSET Nat, cancelled : SUBSET Nat, over : BOOLEAN]

DeployTypes ==
  /\ chain \in [offers : Offers, held : BOOLEAN, credits : 0..MaxCredits]
  /\ takenNames \subseteq AppNames
  /\ tierList \in [phase : {"idle", "loading", "ready", "error"}, tiers : TierLists, fetches : {0, 1}]
  /\ plan \in DeploymentPlans /\ card \in Seq(PlanEntry) /\ run \in DeploymentRuns
  /\ signLock \in Seq(Nat)
  /\ stopped \in BOOLEAN /\ authorized \in BOOLEAN /\ shifted \in BOOLEAN

\* A list that is there is not fetched any more.
ListStands ==
  /\ DOMAIN tierList.tiers # {} => tierList.phase = "ready"
  /\ tierList.phase = "ready" => tierList.fetches = 0

Drafting == plan.step \in {"catalog", "domains", "credits"}

\* Where a plan, its card and its run come from.
PlanStands ==
  /\ plan.step # "idle" => DOMAIN tierList.tiers # {}
  /\ plan.step = "idle" => card = <<>> /\ ~shifted
  /\ plan.step \in {"card", "running"} => card # <<>>
  /\ IF plan.step = "running" THEN run.entries = card ELSE run = NoRun
  /\ Distinct(card)
  /\ plan.step \in {"catalog", "domains"} => plan.batch
  /\ Drafting /\ plan.batch => plan.known = DOMAIN tierList.tiers
  /\ Drafting /\ card # <<>> => plan.batch /\ ~plan.partial
  /\ plan.step \in {"catalog", "domains"} /\ card # <<>> => plan.drafts = DraftsOf(card)
  /\ plan.step = "domains" => DOMAIN plan.tiers # {}
  /\ plan.step = "credits" => plan.entries # <<>> /\ Distinct(plan.entries)
  /\ plan.step = "changed" => shifted

\* The tiers of the session as the chain has them.
TiersNow == Resolved(chain.offers, DOMAIN tierList.tiers)

\* While nothing changes, planning again gives the same.
PlanRepeats ==
  ~shifted =>
    /\ plan.step = "domains" => plan.tiers = TiersNow
    /\ plan.step = "credits" /\ plan.batch => AllFit(plan.entries, TiersNow)
    /\ card # <<>> /\ plan.batch /\ (Drafting \/ plan.step = "card") => AllFit(card, TiersNow)
    /\ card # <<>> /\ plan.step = "credits" => plan.entries = card

\* The books of a run: who may be in which.
RunFits(r, lock, halted) ==
  /\ r.queued <= Len(r.entries)
  /\ r.leased \subseteq 1..r.queued /\ r.signed \subseteq r.leased /\ r.failed \subseteq 1..r.queued
  /\ r.succeeded \union r.unconfirmed \subseteq r.leased
  /\ r.cancelled \cap (r.leased \union r.failed) = {}
  /\ r.cancelled \subseteq 1..Len(r.entries) /\ (~r.over => r.cancelled \subseteq 1..r.queued)
  /\ r.succeeded \cap r.unconfirmed = {} /\ (r.succeeded \union r.unconfirmed) \cap r.failed = {}
  /\ r.over => /\ 1..Len(r.entries) \subseteq r.succeeded \union r.unconfirmed \union r.failed \union r.cancelled
               /\ halted \/ r.queued = Len(r.entries)
  /\ \A i \in DOMAIN lock : lock[i] # Other => lock[i] \in r.leased

\* DeploysAreTold, made inductive.
DeployInv ==
  /\ DeployTypes /\ ListStands
  /\ PlanStands /\ PlanRepeats
  /\ RunFits(run, signLock, stopped)

LEMMA NothingYet ==
  /\ NoPlan \in DeploymentPlans /\ NoPlan.step = "idle" /\ ~NoPlan.batch
  /\ NoRun \in DeploymentRuns /\ NoRun.entries = <<>> /\ NoRun.leased = {}
  /\ \A entries \in Seq(PlanEntry) : /\ [NoRun EXCEPT !.entries = entries] \in DeploymentRuns
                                     /\ [NoRun EXCEPT !.entries = entries].entries = entries
<1>1. <<>> \in Seq(PlanEntry) /\ <<>> \in Seq(Draft) /\ <<>> \in TierLists
  BY ListsOfTiers
<1>2. NoPlan \in DeploymentPlans /\ NoPlan.step = "idle" /\ ~NoPlan.batch
  BY <1>1 DEF NoPlan, DeploymentPlans, PlanSteps
<1>3. NoRun \in DeploymentRuns /\ NoRun.entries = <<>> /\ NoRun.leased = {}
  BY <1>1 DEF NoRun, DeploymentRuns
<1>4. ASSUME NEW entries \in Seq(PlanEntry)
      PROVE  [NoRun EXCEPT !.entries = entries] \in DeploymentRuns /\ [NoRun EXCEPT !.entries = entries].entries = entries
  BY DEF NoRun, DeploymentRuns
<1>5. QED
  BY <1>2, <1>3, <1>4

\* A run that begins has nothing in its books, and what the wallet was asked for is not its.
LEMMA RunBegins ==
  ASSUME NEW lock, NEW halted, RunFits(NoRun, lock, halted), NEW entries \in Seq(PlanEntry)
  PROVE  RunFits([NoRun EXCEPT !.entries = entries], lock, halted)
<1> DEFINE r == [NoRun EXCEPT !.entries = entries]
<1>1. /\ r.entries = entries /\ r.queued = 0 /\ r.leased = {} /\ r.signed = {} /\ r.succeeded = {}
      /\ r.unconfirmed = {} /\ r.failed = {} /\ r.cancelled = {} /\ ~r.over /\ Len(entries) \in Nat
  BY DEF NoRun
<1>2. \A i \in DOMAIN lock : lock[i] = Other
  BY NothingYet DEF RunFits
<1> HIDE DEF r
<1>3. QED
  BY <1>1, <1>2 DEF RunFits, r

LEMMA DeployStartsSafely == DeployInit => DeployInv
<1> SUFFICES ASSUME DeployInit PROVE DeployInv
  OBVIOUS
<1>1. /\ plan = NoPlan /\ card = <<>> /\ run = NoRun /\ signLock = <<>> /\ takenNames = {}
      /\ stopped = FALSE /\ authorized = TRUE /\ shifted = FALSE
  BY DEF DeployInit
<1>2. chain \in [offers : Offers, held : BOOLEAN, credits : 0..MaxCredits]
  BY DeployAssumption DEF DeployInit, Offers
<1>3. tierList \in [phase : {"idle", "loading", "ready", "error"}, tiers : TierLists, fetches : {0, 1}] /\ tierList.phase = "idle"
      /\ tierList.tiers = <<>>
  BY ListsOfTiers DEF DeployInit
<1>4. DOMAIN <<>> = {} /\ <<>> \in Seq(PlanEntry) /\ <<>> \in Seq(Nat)
  OBVIOUS
<1>5. DeployTypes /\ ListStands
  BY <1>1, <1>2, <1>3, <1>4, NothingYet DEF DeployTypes, ListStands
<1>6. PlanStands /\ PlanRepeats
  BY <1>1, <1>4, NothingYet DEF PlanStands, PlanRepeats, Drafting, Distinct
<1>7. RunFits(run, signLock, stopped)
  BY <1>1, <1>4 DEF RunFits, NoRun
<1>8. QED
  BY <1>5, <1>6, <1>7 DEF DeployInv

-----------------------------------------------------------------------------
(* Deployments: the run *)

\* What a step of the run must show.
LEMMA RunGoesOn ==
  ASSUME DeployInv, OnlyRuns, run' \in DeploymentRuns, signLock' \in Seq(Nat), run'.entries = run.entries,
         run.entries = <<>> => run' = run, RunFits(run', signLock', stopped)
  PROVE  DeployInv'
<1>1. DeployTypes' /\ ListStands'
  BY DEF DeployInv, DeployTypes, ListStands, OnlyRuns
<1>2. PlanStands'
  <2>1. (IF plan.step = "running" THEN run.entries = card ELSE run = NoRun)'
    BY NothingYet DEF DeployInv, PlanStands, OnlyRuns
  <2>2. QED
    BY <2>1 DEF DeployInv, PlanStands, Drafting, Distinct, OnlyRuns
<1>3. PlanRepeats'
  BY DEF DeployInv, PlanRepeats, Drafting, TiersNow, AllFit, Distinct, Fits, OnlyRuns
<1>4. RunFits(run, signLock, stopped)'
  BY DEF RunFits, OnlyRuns
<1>5. QED
  BY <1>1, <1>2, <1>3, <1>4 DEF DeployInv

\* What the books of a run say of its entries.
LEMMA RunBooks ==
  ASSUME DeployInv
  PROVE  /\ run \in DeploymentRuns /\ signLock \in Seq(Nat) /\ RunFits(run, signLock, stopped)
         /\ Len(run.entries) \in Nat /\ DOMAIN run.entries = 1..Len(run.entries) /\ run.queued \in Nat
         /\ run.entries = <<>> => Len(run.entries) = 0 /\ run.queued = 0 /\ run.leased = {}
         /\ Active \subseteq 1..run.queued
         /\ \A i \in Active : i \notin run.succeeded /\ i \notin run.unconfirmed /\ i \notin run.failed /\ i \notin run.cancelled
         /\ Active # {} => ~run.over /\ run.entries # <<>>
<1>1. run \in DeploymentRuns /\ signLock \in Seq(Nat) /\ RunFits(run, signLock, stopped)
  BY DEF DeployInv, DeployTypes
<1>2. run.entries \in Seq(PlanEntry) /\ run.queued \in Nat
  BY <1>1 DEF DeploymentRuns
<1>3. Len(run.entries) \in Nat /\ DOMAIN run.entries = 1..Len(run.entries)
  BY <1>2
<1>4. run.entries = <<>> => Len(run.entries) = 0 /\ run.queued = 0 /\ run.leased = {}
  BY <1>1, <1>2 DEF RunFits
<1>5. /\ Active \subseteq 1..run.queued
      /\ \A i \in Active : i \notin run.succeeded /\ i \notin run.unconfirmed /\ i \notin run.failed /\ i \notin run.cancelled
  BY DEF Active, Ended
<1>6. Active # {} => ~run.over /\ run.entries # <<>>
  <2>1. run.queued <= Len(run.entries)
    BY <1>1 DEF RunFits
  <2>2. 1..run.queued \subseteq 1..Len(run.entries)
    BY <1>2, <1>3, <2>1
  <2>3. \A i \in Active : i \in 1..Len(run.entries)
    BY <1>5, <2>2
  <2>4. run.over => \A i \in 1..Len(run.entries) : i \in run.succeeded \union run.unconfirmed \union run.failed \union run.cancelled
    BY <1>1 DEF RunFits
  <2>5. run.entries = <<>> => 1..run.queued = {}
    BY <1>4
  <2>6. QED
    BY <1>5, <2>3, <2>4, <2>5
<1>7. QED
  BY <1>1, <1>2, <1>3, <1>4, <1>5, <1>6

LEMMA StartEntrySafely == ASSUME DeployInv, StartEntry PROVE DeployInv'
<1> PICK r : r = run
  OBVIOUS
<1> PICK q : q = run'
  OBVIOUS
<1>1. /\ r \in DeploymentRuns /\ RunFits(r, signLock, stopped) /\ r.queued \in Nat /\ Len(r.entries) \in Nat
      /\ OnlyRuns /\ signLock' = signLock /\ ~stopped /\ r.queued < Len(r.entries)
      /\ r.entries = <<>> => Len(r.entries) = 0
  BY RunBooks DEF StartEntry, Goes
<1>2. \/ q = [r EXCEPT !.queued = r.queued + 1, !.cancelled = r.cancelled]
      \/ q = [r EXCEPT !.queued = r.queued + 1, !.cancelled = r.cancelled \union {r.queued + 1}]
  BY DEF StartEntry, Goes
<1>3. /\ q \in DeploymentRuns /\ q.queued = r.queued + 1
      /\ q.entries = r.entries /\ q.leased = r.leased /\ q.signed = r.signed /\ q.succeeded = r.succeeded
      /\ q.unconfirmed = r.unconfirmed /\ q.failed = r.failed /\ q.over = r.over
      /\ q.cancelled \in {r.cancelled, r.cancelled \union {r.queued + 1}}
  <2>1. r.cancelled \in SUBSET Nat /\ r.queued + 1 \in Nat
    BY <1>1 DEF DeploymentRuns
  <2>2. PICK c \in SUBSET Nat : /\ q = [r EXCEPT !.queued = r.queued + 1, !.cancelled = c]
                               /\ c \in {r.cancelled, r.cancelled \union {r.queued + 1}}
    <3>1. r.cancelled \union {r.queued + 1} \in SUBSET Nat
      BY <2>1
    <3>2. QED
      BY <1>2, <2>1, <3>1
  <2>3. QED
    BY <1>1, <2>1, <2>2 DEF DeploymentRuns
<1>4. RunFits(q, signLock, stopped)
  BY <1>1, <1>3 DEF RunFits, DeploymentRuns
<1>5. QED
  BY <1>1, <1>3, <1>4, RunGoesOn, RunBooks

LEMMA LeaseSafely ==
  ASSUME DeployInv, NEW i, LeaseLands(i) \/ LeaseRefused(i)
  PROVE  DeployInv'
<1> PICK r : r = run
  OBVIOUS
<1> PICK q : q = run'
  OBVIOUS
<1>1. /\ r \in DeploymentRuns /\ RunFits(r, signLock, stopped) /\ r.queued \in Nat /\ Len(r.entries) \in Nat
      /\ OnlyRuns /\ signLock' = signLock /\ r.entries # <<>> /\ ~r.over
      /\ i \in 1..r.queued /\ i \notin r.leased /\ i \notin r.cancelled /\ i \notin r.failed
  BY RunBooks DEF LeaseLands, LeaseRefused, Goes
<1>2. \/ \E lost \in BOOLEAN : q = [r EXCEPT !.leased = r.leased \union {i}, !.failed = IF lost THEN r.failed \union {i} ELSE r.failed]
      \/ q = [r EXCEPT !.failed = r.failed \union {i}]
  BY DEF LeaseLands, LeaseRefused, Goes
<1>3. /\ q \in DeploymentRuns /\ q.queued = r.queued
      /\ q.entries = r.entries /\ q.leased \in {r.leased, r.leased \union {i}} /\ q.signed = r.signed /\ q.succeeded = r.succeeded
      /\ q.unconfirmed = r.unconfirmed /\ q.failed \in {r.failed, r.failed \union {i}} /\ q.over = r.over
      /\ q.cancelled = r.cancelled
  <2>1. {r.leased, r.failed, r.leased \union {i}, r.failed \union {i}} \subseteq SUBSET Nat
    BY <1>1 DEF DeploymentRuns
  <2>2. PICK m \in SUBSET Nat, f \in SUBSET Nat :
          /\ q = [r EXCEPT !.leased = m, !.failed = f]
          /\ m \in {r.leased, r.leased \union {i}} /\ f \in {r.failed, r.failed \union {i}}
    <3>1. q = [r EXCEPT !.failed = r.failed \union {i}] => q = [r EXCEPT !.leased = r.leased, !.failed = r.failed \union {i}]
      BY <1>1 DEF DeploymentRuns
    <3>2. QED
      BY <1>2, <2>1, <3>1
  <2>3. QED
    BY <1>1, <2>2 DEF DeploymentRuns
<1>4. RunFits(q, signLock, stopped)
  BY <1>1, <1>3 DEF RunFits
<1>5. QED
  BY <1>1, <1>3, <1>4, RunGoesOn, RunBooks

LEMMA AskSafely ==
  ASSUME DeployInv, (\E i : AskSignature(i)) \/ OtherAsks
  PROVE  DeployInv'
<1>1. PICK i \in Nat : signLock' = Append(signLock, i) /\ (i # Other => i \in run.leased)
  BY RunBooks DEF AskSignature, OtherAsks, Other, DeploymentRuns
<1>2. OnlyRuns /\ run' = run
  BY DEF AskSignature, OtherAsks
<1>3. signLock \in Seq(Nat) /\ RunFits(run, signLock, stopped) /\ run \in DeploymentRuns
  BY RunBooks
<1>4. signLock' \in Seq(Nat) /\ \A k \in DOMAIN signLock' : signLock'[k] = i \/ (k \in DOMAIN signLock /\ signLock'[k] = signLock[k])
  <2> PICK lock : lock = signLock
    OBVIOUS
  <2> PICK new : new = Append(lock, i)
    OBVIOUS
  <2>1. lock \in Seq(Nat) /\ new \in Seq(Nat) /\ DOMAIN new = 1..Len(lock) + 1 /\ DOMAIN lock = 1..Len(lock) /\ Len(lock) \in Nat
    BY <1>3
  <2>2. (\A k \in 1..Len(lock) : new[k] = lock[k]) /\ new[Len(lock) + 1] = i
    BY <2>1
  <2>3. \A k \in DOMAIN new : k = Len(lock) + 1 \/ k \in 1..Len(lock)
    BY <2>1
  <2>4. signLock' = new
    BY <1>1
  <2>5. QED
    BY <2>1, <2>2, <2>3, <2>4
<1>5. RunFits(run, signLock', stopped)
  BY <1>1, <1>3, <1>4 DEF RunFits
<1>6. QED
  BY <1>2, <1>3, <1>4, <1>5, RunGoesOn

LEMMA WalletAnswersSafely == ASSUME DeployInv, WalletAnswers PROVE DeployInv'
<1> PICK r : r = run
  OBVIOUS
<1> PICK q : q = run'
  OBVIOUS
<1> PICK i : i = Head(signLock)
  OBVIOUS
<1>1. /\ r \in DeploymentRuns /\ RunFits(r, signLock, stopped) /\ r.queued \in Nat /\ Len(r.entries) \in Nat
      /\ OnlyRuns /\ signLock \in Seq(Nat) /\ signLock # <<>> /\ signLock' = Tail(signLock)
  BY RunBooks DEF WalletAnswers, Unlocked
<1>2. /\ i \notin r.succeeded /\ i \notin r.unconfirmed /\ i \notin r.failed /\ i \notin r.cancelled
      /\ \/ q = r
         \/ i # Other /\ q = [r EXCEPT !.signed = r.signed \union {i}]
         \/ i # Other /\ q = [r EXCEPT !.failed = r.failed \union {i}]
  BY DEF WalletAnswers, Ended
<1>3. i = signLock[1] /\ 1 \in DOMAIN signLock
  BY <1>1
<1>4. i # Other => i \in r.leased /\ i \in Nat /\ i \in 1..r.queued
  BY <1>1, <1>3 DEF RunFits, DeploymentRuns
<1>5. /\ q \in DeploymentRuns /\ q.queued = r.queued /\ q.entries = r.entries /\ q.leased = r.leased
      /\ q.succeeded = r.succeeded /\ q.unconfirmed = r.unconfirmed /\ q.over = r.over /\ q.cancelled = r.cancelled
      /\ \/ q = r
         \/ i # Other /\ q.signed = r.signed \union {i} /\ q.failed = r.failed
         \/ i # Other /\ q.failed = r.failed \union {i} /\ q.signed = r.signed
  BY <1>1, <1>2, <1>4 DEF DeploymentRuns
<1>6. signLock' \in Seq(Nat) /\ \A k \in DOMAIN signLock' : k + 1 \in DOMAIN signLock /\ signLock'[k] = signLock[k + 1]
  BY <1>1
<1>7. RunFits(q, signLock', stopped)
  <2>1. \A k \in DOMAIN signLock' : signLock'[k] # Other => signLock'[k] \in q.leased
    BY <1>1, <1>5, <1>6 DEF RunFits
  <2>2. CASE q = r
    BY <1>1, <2>1, <2>2 DEF RunFits
  <2>3. CASE q # r
    BY <1>1, <1>2, <1>4, <1>5, <2>1, <2>3 DEF RunFits
  <2>4. QED
    BY <2>2, <2>3
<1>8. run.entries = <<>> => run' = run
  BY <1>2, <1>4, RunBooks
<1>9. QED
  BY <1>1, <1>5, <1>6, <1>7, <1>8, RunGoesOn

LEMMA EntryEndsSafely ==
  ASSUME DeployInv, NEW i, EntryEnds(i)
  PROVE  DeployInv'
<1> PICK r : r = run
  OBVIOUS
<1> PICK q : q = run'
  OBVIOUS
<1>1. /\ r \in DeploymentRuns /\ RunFits(r, signLock, stopped) /\ r.queued \in Nat /\ Len(r.entries) \in Nat
      /\ OnlyRuns /\ signLock' = signLock /\ r.entries # <<>> /\ ~r.over
      /\ i \in 1..r.queued /\ i \in r.leased /\ i \notin r.cancelled /\ i \notin r.failed /\ i \notin r.succeeded /\ i \notin r.unconfirmed
  BY RunBooks DEF EntryEnds, Goes
<1>2. \/ q = [r EXCEPT !.succeeded = r.succeeded \union {i}]
      \/ q = [r EXCEPT !.unconfirmed = r.unconfirmed \union {i}]
      \/ q = [r EXCEPT !.failed = r.failed \union {i}]
  BY DEF EntryEnds, Goes
<1>3. /\ q \in DeploymentRuns /\ q.queued = r.queued /\ q.entries = r.entries /\ q.leased = r.leased /\ q.signed = r.signed
      /\ q.over = r.over /\ q.cancelled = r.cancelled
      /\ \/ q.succeeded = r.succeeded \union {i} /\ q.unconfirmed = r.unconfirmed /\ q.failed = r.failed
         \/ q.unconfirmed = r.unconfirmed \union {i} /\ q.succeeded = r.succeeded /\ q.failed = r.failed
         \/ q.failed = r.failed \union {i} /\ q.succeeded = r.succeeded /\ q.unconfirmed = r.unconfirmed
  BY <1>1, <1>2 DEF DeploymentRuns
<1>4. RunFits(q, signLock, stopped)
  BY <1>1, <1>3 DEF RunFits
<1>5. QED
  BY <1>1, <1>3, <1>4, RunGoesOn, RunBooks

LEMMA RunEndsSafely == ASSUME DeployInv, RunEnds PROVE DeployInv'
<1> PICK r : r = run
  OBVIOUS
<1> PICK q : q = run'
  OBVIOUS
<1>1. /\ r \in DeploymentRuns /\ RunFits(r, signLock, stopped) /\ r.queued \in Nat /\ Len(r.entries) \in Nat
      /\ OnlyRuns /\ signLock' = signLock /\ r.entries # <<>> /\ ~r.over
      /\ 1..r.queued \subseteq r.succeeded \union r.unconfirmed \union r.failed \union r.cancelled
      /\ stopped \/ (r.queued + 1)..Len(r.entries) = {}
  BY RunBooks DEF RunEnds, Goes, Active, Ended, NeverQueued
<1>2. q = [r EXCEPT !.cancelled = r.cancelled \union ((r.queued + 1)..Len(r.entries)), !.over = TRUE]
  BY DEF RunEnds, Goes, NeverQueued
<1>3. /\ q \in DeploymentRuns /\ q.queued = r.queued /\ q.entries = r.entries /\ q.leased = r.leased /\ q.signed = r.signed
      /\ q.over /\ q.cancelled = r.cancelled \union ((r.queued + 1)..Len(r.entries))
      /\ q.succeeded = r.succeeded /\ q.unconfirmed = r.unconfirmed /\ q.failed = r.failed
  <2>1. r.cancelled \union ((r.queued + 1)..Len(r.entries)) \in SUBSET Nat
    BY <1>1 DEF DeploymentRuns
  <2>2. QED
    BY <1>1, <1>2, <2>1 DEF DeploymentRuns
<1>4. 1..Len(r.entries) \subseteq q.succeeded \union q.unconfirmed \union q.failed \union q.cancelled
  BY <1>1, <1>3
<1>5. stopped \/ r.queued = Len(r.entries)
  <2>1. r.queued <= Len(r.entries)
    BY <1>1 DEF RunFits
  <2>2. r.queued < Len(r.entries) => r.queued + 1 \in (r.queued + 1)..Len(r.entries)
    BY <1>1
  <2>3. QED
    BY <1>1, <2>1, <2>2
<1>6. RunFits(q, signLock, stopped)
  BY <1>1, <1>3, <1>4, <1>5 DEF RunFits
<1>7. QED
  BY <1>1, <1>3, <1>6, RunGoesOn, RunBooks

-----------------------------------------------------------------------------
(* Deployments: the plan *)

LEMMA TiersSafely ==
  ASSUME DeployInv, LoadTiers \/ RetryTiers \/ FetchEnds
  PROVE  DeployInv' /\ KeepsTiers
<1>1. DeployTypes /\ ListStands /\ PlanStands /\ RunFits(run, signLock, stopped)
  BY DEF DeployInv
<1>2. tierList.phase # "ready" /\ UNCHANGED <<chain, takenNames, plan, card, run, signLock, stopped, authorized, shifts, shifted>>
  BY <1>1 DEF LoadTiers, RetryTiers, FetchEnds, ListStands
<1>3. plan.step = "idle" /\ card = <<>> /\ ~shifted /\ run = NoRun
  BY <1>1, <1>2 DEF ListStands, PlanStands
<1>4. /\ tierList' \in [phase : {"idle", "loading", "ready", "error"}, tiers : TierLists, fetches : {0, 1}]
      /\ ListStands'
  <2>1. CASE LoadTiers \/ RetryTiers
    BY <1>1, <2>1 DEF LoadTiers, RetryTiers, DeployTypes, ListStands
  <2>2. CASE FetchEnds
    <3>1. PICK tiers \in {Resolved(chain.offers, TierNames), <<>>} :
            tierList' = [phase |-> IF DOMAIN tiers = {} THEN "error" ELSE "ready", tiers |-> tiers, fetches |-> tierList.fetches - 1]
      BY <2>2 DEF FetchEnds
    <3>2. tiers \in TierLists
      BY <1>1, <3>1, ListsOfTiers, ResolvedIsList DEF DeployTypes
    <3>3. tierList.fetches = 1
      BY <1>1, <2>2 DEF FetchEnds, DeployTypes
    <3>4. QED
      BY <3>1, <3>2, <3>3 DEF ListStands
  <2>3. QED
    BY <2>1, <2>2
<1>5. DeployTypes'
  BY <1>1, <1>2, <1>4 DEF DeployTypes
<1>6. (PlanStands /\ PlanRepeats)'
  <2>1. Distinct(card)
    BY <1>1 DEF PlanStands
  <2>2. QED
    BY <1>2, <1>3, <2>1 DEF PlanStands, PlanRepeats, Drafting, Distinct
<1>7. RunFits(run, signLock, stopped)'
  BY <1>1, <1>2
<1>8. QED
  BY <1>2, <1>4, <1>5, <1>6, <1>7 DEF DeployInv, KeepsTiers

\* What a step of the plan leaves alone.
PlanMoves == UNCHANGED <<chain, takenNames, tierList, signLock, stopped, authorized, shifts>>

\* What such a step must show.
LEMMA PlanGoesOn ==
  ASSUME DeployInv, PlanMoves, plan' \in DeploymentPlans, card' \in Seq(PlanEntry), shifted' = shifted,
         \/ run' = run
         \/ run = NoRun /\ \E entries \in Seq(PlanEntry) : run' = [NoRun EXCEPT !.entries = entries],
         PlanStands', PlanRepeats'
  PROVE  DeployInv'
<1>1. run \in DeploymentRuns /\ RunFits(run, signLock, stopped)
  BY DEF DeployInv, DeployTypes
<1>2. run' \in DeploymentRuns /\ RunFits(run', signLock, stopped)
  BY <1>1, NothingYet, RunBegins
<1>3. DeployTypes'
  BY <1>2 DEF DeployInv, DeployTypes, PlanMoves
<1>4. ListStands'
  BY DEF DeployInv, ListStands, PlanMoves
<1>5. RunFits(run, signLock, stopped)'
  BY <1>2 DEF PlanMoves
<1>6. QED
  BY <1>3, <1>4, <1>5 DEF DeployInv

\* The invariant read for the state that a plan is in.
LEMMA PlanBooks ==
  ASSUME DeployInv
  PROVE  /\ plan \in DeploymentPlans /\ card \in Seq(PlanEntry) /\ chain.offers \in Offers /\ tierList.tiers \in TierLists
         /\ PlanStands /\ PlanRepeats /\ Distinct(card) /\ DOMAIN tierList.tiers \in SUBSET TierNames
         /\ TiersNow \in TierLists
<1>1. /\ plan \in DeploymentPlans /\ card \in Seq(PlanEntry) /\ chain.offers \in Offers /\ tierList.tiers \in TierLists
      /\ PlanStands /\ PlanRepeats /\ Distinct(card)
  BY DEF DeployInv, DeployTypes, PlanStands
<1>2. DOMAIN tierList.tiers \in SUBSET TierNames
  BY <1>1 DEF TierLists
<1>3. TiersNow \in TierLists
  BY <1>1, <1>2, ResolvedIsList, ListsOfTiers DEF TiersNow
<1>4. QED
  BY <1>1, <1>2, <1>3

LEMMA RefuseSafely ==
  ASSUME DeployInv, PlanMoves, NEW why \in {"refused", "changed"}, Refuse(why), Drafting, why = "changed" => shifted
  PROVE  DeployInv'
<1>1. plan' = [NoPlan EXCEPT !.step = why] /\ UNCHANGED <<card, run, shifted>>
  BY DEF Refuse
<1>2. plan' \in DeploymentPlans /\ plan'.step = why /\ ~plan'.batch
  BY <1>1, NothingYet DEF DeploymentPlans, PlanSteps, NoPlan
<1>3. PlanStands /\ run = NoRun /\ DOMAIN tierList.tiers # {} /\ Distinct(card)
  BY PlanBooks DEF PlanStands, Drafting
<1>4. PlanStands'
  BY <1>1, <1>2, <1>3 DEF PlanStands, Drafting, PlanMoves, Distinct
<1>5. PlanRepeats'
  BY <1>2 DEF PlanRepeats, Drafting
<1>6. QED
  BY <1>1, <1>2, <1>4, <1>5, PlanGoesOn, PlanBooks

LEMMA PlanBatchSafely ==
  ASSUME DeployInv, NEW drafts \in Requests, NEW partial \in BOOLEAN, PlanBatch(drafts, partial)
  PROVE  DeployInv'
<1>1. /\ plan.step = "idle" /\ DOMAIN tierList.tiers # {} /\ PlanMoves /\ UNCHANGED <<card, run, shifted>>
      /\ plan' = [NoPlan EXCEPT !.step = "catalog", !.batch = TRUE, !.partial = partial,
                                !.known = DOMAIN tierList.tiers, !.drafts = drafts]
  BY DEF PlanBatch, PlanMoves
<1>2. card = <<>> /\ ~shifted /\ run = NoRun /\ Distinct(card)
  BY <1>1, PlanBooks DEF PlanStands
<1>3. drafts \in Seq(Draft) /\ DOMAIN tierList.tiers \in SUBSET TierNames
  BY DeployAssumption, PlanBooks
<1>4. plan' \in DeploymentPlans /\ plan'.step = "catalog" /\ plan'.batch /\ plan'.known = DOMAIN tierList.tiers
  <2>1. plan' = [step |-> "catalog", batch |-> TRUE, partial |-> partial, known |-> DOMAIN tierList.tiers, drafts |-> drafts,
                 tiers |-> <<>>, entries |-> <<>>]
    BY <1>1 DEF NoPlan
  <2>2. <<>> \in Seq(PlanEntry) /\ <<>> \in TierLists
    BY ListsOfTiers
  <2>3. QED
    BY <1>3, <2>1, <2>2 DEF DeploymentPlans, PlanSteps
<1>5. PlanStands'
  BY <1>1, <1>2, <1>4 DEF PlanStands, Drafting, Distinct, PlanMoves
<1>6. PlanRepeats'
  BY <1>1, <1>2, <1>4 DEF PlanRepeats, Drafting
<1>7. QED
  BY <1>1, <1>2, <1>4, <1>5, <1>6, PlanGoesOn, PlanBooks

LEMMA ReadCatalogSafely == ASSUME DeployInv, ReadCatalog PROVE DeployInv'
<1>1. plan.step = "catalog" /\ PlanMoves /\ Drafting
  BY DEF ReadCatalog, PlanMoves, Drafting
<1>2. CASE Refuse("refused")
  BY <1>1, <1>2, RefuseSafely
<1>3. CASE ~Refuse("refused")
  <2>1. /\ DOMAIN CurrentTiers # {} /\ UNCHANGED <<card, run, shifted>>
        /\ plan' = [plan EXCEPT !.step = "domains", !.tiers = CurrentTiers]
    BY <1>3 DEF ReadCatalog
  <2>2. /\ plan \in DeploymentPlans /\ plan.batch /\ plan.known = DOMAIN tierList.tiers /\ DOMAIN tierList.tiers # {}
        /\ run = NoRun /\ Distinct(card)
        /\ card # <<>> => ~plan.partial /\ plan.drafts = DraftsOf(card)
    BY <1>1, PlanBooks DEF PlanStands
  <2>3. CurrentTiers = TiersNow /\ TiersNow \in TierLists
    BY <2>2, PlanBooks DEF CurrentTiers, TiersNow
  <2>4. /\ plan' \in DeploymentPlans /\ plan'.step = "domains" /\ plan'.batch = plan.batch /\ plan'.known = plan.known
        /\ plan'.tiers = TiersNow /\ plan'.partial = plan.partial /\ plan'.drafts = plan.drafts
    BY <2>1, <2>2, <2>3 DEF DeploymentPlans, PlanSteps
  <2>5. PlanStands'
    BY <1>1, <2>1, <2>2, <2>3, <2>4 DEF PlanStands, Drafting, Distinct, PlanMoves
  <2>6. ~shifted /\ card # <<>> => AllFit(card, TiersNow)
    BY <1>1, <2>2, PlanBooks DEF PlanRepeats
  <2>7. PlanRepeats'
    BY <1>1, <2>1, <2>4, <2>6 DEF PlanRepeats, Drafting, AllFit, Distinct, Fits, TiersNow, PlanMoves
  <2>8. QED
    BY <1>1, <2>1, <2>4, <2>5, <2>7, PlanGoesOn, PlanBooks
<1>4. QED
  BY <1>2, <1>3

LEMMA ReadDomainsSafely == ASSUME DeployInv, ReadDomains PROVE DeployInv'
<1>1. plan.step = "domains" /\ PlanMoves /\ Drafting
  BY DEF ReadDomains, PlanMoves, Drafting
<1>2. PICK inUse \in {chain.held, FALSE} :
        LET result == Reserved(plan.drafts, inUse)
        IN  IF MayPlan /\ result.entries # <<>> /\ (plan.partial \/ ~result.rejected)
            THEN plan' = [plan EXCEPT !.step = "credits", !.entries = result.entries] /\ UNCHANGED <<card, run, shifted>>
            ELSE Refuse("refused")
  BY DEF ReadDomains
<1> PICK result : result = Reserved(plan.drafts, inUse)
  OBVIOUS
<1>3. CASE Refuse("refused")
  BY <1>1, <1>3, RefuseSafely
<1>4. CASE ~Refuse("refused")
  <2>1. /\ plan' = [plan EXCEPT !.step = "credits", !.entries = result.entries] /\ UNCHANGED <<card, run, shifted>>
        /\ result.entries # <<>> /\ (plan.partial \/ ~result.rejected)
    BY <1>2, <1>4
  <2>2. /\ plan \in DeploymentPlans /\ plan.drafts \in Seq(Draft) /\ plan.tiers \in TierLists
        /\ plan.batch /\ plan.known = DOMAIN tierList.tiers /\ DOMAIN tierList.tiers # {}
        /\ DOMAIN plan.tiers # {} /\ run = NoRun /\ Distinct(card)
        /\ card # <<>> => ~plan.partial /\ plan.drafts = DraftsOf(card)
    BY <1>1, PlanBooks DEF PlanStands, Drafting, DeploymentPlans
  <2>3. IsTierList(plan.tiers)
    BY <2>2, ListsOfTiers
  <2>4. result.entries \in Seq(PlanEntry) /\ AllFit(result.entries, plan.tiers) /\ Distinct(result.entries)
    BY <2>2, <2>3, PlannedFits DEF Reservations, AllFit
  <2>5. /\ plan' \in DeploymentPlans /\ plan'.step = "credits" /\ plan'.batch = plan.batch /\ plan'.known = plan.known
        /\ plan'.tiers = plan.tiers /\ plan'.partial = plan.partial /\ plan'.entries = result.entries
    BY <2>1, <2>2, <2>4 DEF DeploymentPlans, PlanSteps
  <2>6. PlanStands'
    BY <1>1, <2>1, <2>2, <2>4, <2>5 DEF PlanStands, Drafting, Distinct, PlanMoves
  <2>7. ~shifted => plan.tiers = TiersNow /\ (card # <<>> => AllFit(card, TiersNow))
    BY <1>1, <2>2, PlanBooks DEF PlanRepeats
  <2>8. ASSUME ~shifted, card # <<>> PROVE result.entries = card
    <3>1. card \in Seq(PlanEntry) /\ AllFit(card, plan.tiers) /\ result = Reserved(DraftsOf(card), inUse) /\ ~result.rejected
      BY <2>1, <2>2, <2>7, <2>8, PlanBooks
    <3>2. QED
      BY <2>2, <2>3, <3>1, PlannedAgain
  <2>9. PlanRepeats'
    <3>1. TiersNow' = TiersNow /\ takenNames' = takenNames
      BY <1>1 DEF TiersNow, PlanMoves
    <3>2. card' = card /\ shifted' = shifted
      BY <2>1
    <3>3. ~shifted' => AllFit(result.entries, TiersNow)
      BY <2>4, <2>7, <3>2
    <3>4. ASSUME ~shifted' PROVE AllFit(plan.entries, TiersNow)'
      <4>1. Distinct(result.entries) /\ \A i \in DOMAIN result.entries : Fits(result.entries[i], TiersNow)
        BY <3>3, <3>4 DEF AllFit
      <4>2. Distinct(plan.entries)'
        BY <2>5, <4>1 DEF Distinct
      <4>3. \A i \in DOMAIN plan'.entries : Fits(plan.entries[i], TiersNow)'
        BY <2>5, <3>1, <4>1 DEF Fits
      <4>4. QED
        BY <4>2, <4>3 DEF AllFit
    <3>5. ASSUME ~shifted', card' # <<>> PROVE AllFit(card, TiersNow)'
      <4>1. Distinct(card) /\ \A i \in DOMAIN card : Fits(card[i], TiersNow)
        BY <2>7, <3>2, <3>5 DEF AllFit
      <4>2. Distinct(card)'
        BY <3>2, <4>1 DEF Distinct
      <4>3. \A i \in DOMAIN card' : Fits(card[i], TiersNow)'
        BY <3>1, <3>2, <4>1 DEF Fits
      <4>4. QED
        BY <4>2, <4>3 DEF AllFit
    <3>6. ~shifted' /\ card' # <<>> => plan'.entries = card'
      BY <2>5, <2>8, <3>2
    <3>7. QED
      BY <2>5, <3>4, <3>5, <3>6 DEF PlanRepeats
  <2>10. QED
    BY <1>1, <2>1, <2>5, <2>6, <2>9, PlanGoesOn, PlanBooks
<1>5. QED
  BY <1>3, <1>4

\* Two plans of one hash are the same.
LEMMA SameHashSamePlan ==
  ASSUME NEW a \in Seq(PlanEntry), NEW b \in Seq(PlanEntry)
  PROVE  SamePlan(a, b) <=> a = b
<1>1. DOMAIN a = 1..Len(a) /\ DOMAIN b = 1..Len(b) /\ Len(a) \in Nat /\ Len(b) \in Nat
  OBVIOUS
<1>2. SamePlan(a, a)
  BY DEF SamePlan
<1>3. ASSUME SamePlan(a, b) PROVE a = b
  <2>1. Len(a) = Len(b) /\ \A i \in DOMAIN a : \A field \in DOMAIN a[i] : a[i][field] = b[i][field]
    BY <1>3 DEF SamePlan
  <2>2. ASSUME NEW i \in 1..Len(a) PROVE a[i] = b[i]
    <3>1. a[i] \in PlanEntry /\ b[i] \in PlanEntry
      BY <2>1
    <3>2. DOMAIN a[i] = {"name", "size", "requested", "provider", "price", "domain"}
      BY <3>1 DEF PlanEntry
    <3>3. \A field \in DOMAIN a[i] : a[i][field] = b[i][field]
      BY <1>1, <2>1
    <3>4. /\ a[i].name = b[i].name /\ a[i].size = b[i].size /\ a[i].requested = b[i].requested
          /\ a[i].provider = b[i].provider /\ a[i].price = b[i].price /\ a[i].domain = b[i].domain
      BY <3>2, <3>3
    <3>5. \A e \in PlanEntry : e = [name |-> e.name, size |-> e.size, requested |-> e.requested, provider |-> e.provider,
                                   price |-> e.price, domain |-> e.domain]
      BY DEF PlanEntry
    <3>6. QED
      BY <3>1, <3>4, <3>5
  <2>3. QED
    BY <1>1, <2>1, <2>2
<1>4. QED
  BY <1>2, <1>3

LEMMA ReadCreditsSafely == ASSUME DeployInv, ReadCredits PROVE DeployInv'
<1>1. plan.step = "credits" /\ plan.batch /\ PlanMoves /\ Drafting
  BY DEF ReadCredits, PlanMoves, Drafting
<1>2. /\ plan \in DeploymentPlans /\ plan.entries \in Seq(PlanEntry) /\ card \in Seq(PlanEntry)
      /\ DOMAIN tierList.tiers # {} /\ run = NoRun /\ Distinct(card) /\ Distinct(plan.entries) /\ plan.entries # <<>>
      /\ ~shifted => AllFit(plan.entries, TiersNow) /\ (card # <<>> => plan.entries = card)
  BY <1>1, PlanBooks DEF PlanStands, PlanRepeats, DeploymentPlans
<1>3. CASE Refuse("refused")
  BY <1>1, <1>3, RefuseSafely
<1>4. CASE card # <<>> /\ ~SamePlan(plan.entries, card) /\ Refuse("changed")
  <2>1. shifted
    BY <1>2, <1>4, SameHashSamePlan
  <2>2. QED
    BY <1>1, <1>4, <2>1, RefuseSafely
<1>5. CASE /\ card = <<>> /\ card' = plan.entries /\ plan' = [NoPlan EXCEPT !.step = "card", !.batch = TRUE]
           /\ UNCHANGED <<run, shifted>>
  <2>1. plan' \in DeploymentPlans /\ plan'.step = "card" /\ plan'.batch
    BY <1>5, NothingYet DEF DeploymentPlans, PlanSteps, NoPlan
  <2>2. PlanStands'
    BY <1>1, <1>2, <1>5, <2>1 DEF PlanStands, Drafting, Distinct, PlanMoves
  <2>3. PlanRepeats'
    BY <1>1, <1>2, <1>5, <2>1 DEF PlanRepeats, Drafting, AllFit, Distinct, Fits, TiersNow, PlanMoves
  <2>4. QED
    BY <1>1, <1>2, <1>5, <2>1, <2>2, <2>3, PlanGoesOn
<1>6. CASE /\ card # <<>> /\ SamePlan(plan.entries, card) /\ run' = [NoRun EXCEPT !.entries = plan.entries]
           /\ plan' = [NoPlan EXCEPT !.step = "running"] /\ UNCHANGED <<card, shifted>>
  <2>1. plan' \in DeploymentPlans /\ plan'.step = "running" /\ ~plan'.batch
    BY <1>6, NothingYet DEF DeploymentPlans, PlanSteps, NoPlan
  <2>2. plan.entries = card /\ run'.entries = card
    BY <1>2, <1>6, SameHashSamePlan, NothingYet
  <2>3. PlanStands'
    BY <1>1, <1>2, <1>6, <2>1, <2>2 DEF PlanStands, Drafting, Distinct, PlanMoves
  <2>4. PlanRepeats'
    BY <2>1 DEF PlanRepeats, Drafting
  <2>5. QED
    BY <1>1, <1>2, <1>6, <2>1, <2>3, <2>4, PlanGoesOn
<1>7. QED
  BY <1>3, <1>4, <1>5, <1>6 DEF ReadCredits

LEMMA PlanSingleSafely ==
  ASSUME DeployInv, NEW draft \in Draft, PlanSingle(draft)
  PROVE  DeployInv'
<1> DEFINE size == SizeOrCheapest(draft.size, tierList.tiers)
           name == NextName(draft.name, {})
           e == [name |-> name, size |-> size.tier, requested |-> NoSize, provider |-> tierList.tiers[size.tier].provider,
                 price |-> tierList.tiers[size.tier].price, domain |-> draft.domain]
<1>1. /\ plan.step = "idle" /\ DOMAIN tierList.tiers # {} /\ name # NoName /\ PlanMoves /\ UNCHANGED <<card, run, shifted>>
      /\ plan' = [NoPlan EXCEPT !.step = "credits", !.entries = <<e>>]
  BY DEF PlanSingle, PlanMoves
<1>2. card = <<>> /\ ~shifted /\ run = NoRun /\ Distinct(card)
  BY <1>1, PlanBooks DEF PlanStands
<1>3. draft.name \in DOMAIN Candidates /\ draft.size \in DOMAIN Matches \union {NoSize} /\ draft.domain \in BOOLEAN
  BY DEF Draft
<1>4. IsTierList(tierList.tiers)
  BY PlanBooks, ListsOfTiers
<1>5. size.tier \in DOMAIN tierList.tiers
  BY <1>1, <1>3, <1>4, SizeStays
<1>6. size.tier \in TierNames /\ tierList.tiers[size.tier] \in [provider : ToSet(Providers), price : Prices]
  BY <1>4, <1>5 DEF IsTierList
<1>7. name \in AppNames
  BY <1>1, <1>3, NameIsFree
<1> HIDE DEF size, name
<1>8. e \in PlanEntry
  BY <1>3, <1>6, <1>7 DEF PlanEntry
<1> HIDE DEF e
<1>9. <<e>> \in Seq(PlanEntry) /\ <<e>> # <<>> /\ Distinct(<<e>>)
  BY <1>8 DEF Distinct
<1>10. plan' \in DeploymentPlans /\ plan'.step = "credits" /\ ~plan'.batch /\ plan'.entries = <<e>>
  BY <1>1, <1>9, NothingYet DEF DeploymentPlans, PlanSteps, NoPlan
<1>11. PlanStands'
  BY <1>1, <1>2, <1>9, <1>10 DEF PlanStands, Drafting, Distinct, PlanMoves
<1>12. PlanRepeats'
  BY <1>1, <1>2, <1>10 DEF PlanRepeats, Drafting
<1>13. QED
  BY <1>1, <1>10, <1>11, <1>12, PlanGoesOn, PlanBooks

LEMMA CheckDeploySafely == ASSUME DeployInv, CheckDeploy PROVE DeployInv'
<1>1. plan.step = "credits" /\ ~plan.batch /\ PlanMoves /\ Drafting
  BY DEF CheckDeploy, PlanMoves, Drafting
<1>2. /\ plan \in DeploymentPlans /\ plan.entries \in Seq(PlanEntry) /\ DOMAIN tierList.tiers # {} /\ run = NoRun
      /\ Distinct(plan.entries) /\ plan.entries # <<>>
  BY <1>1, PlanBooks DEF PlanStands, DeploymentPlans
<1>3. CASE Refuse("refused")
  BY <1>1, <1>3, RefuseSafely
<1>4. CASE card' = plan.entries /\ plan' = [NoPlan EXCEPT !.step = "card"] /\ UNCHANGED <<run, shifted>>
  <2>1. plan' \in DeploymentPlans /\ plan'.step = "card" /\ ~plan'.batch
    BY <1>4, NothingYet DEF DeploymentPlans, PlanSteps, NoPlan
  <2>2. PlanStands'
    BY <1>1, <1>2, <1>4, <2>1 DEF PlanStands, Drafting, Distinct, PlanMoves
  <2>3. PlanRepeats'
    BY <2>1 DEF PlanRepeats, Drafting
  <2>4. QED
    BY <1>1, <1>2, <1>4, <2>1, <2>2, <2>3, PlanGoesOn
<1>5. QED
  BY <1>3, <1>4 DEF CheckDeploy

LEMMA ConfirmSafely == ASSUME DeployInv, Confirm PROVE DeployInv'
<1>1. plan.step = "card" /\ PlanMoves /\ UNCHANGED <<card, shifted>>
  BY DEF Confirm, PlanMoves
<1>2. /\ plan \in DeploymentPlans /\ card \in Seq(PlanEntry) /\ card # <<>> /\ Distinct(card)
      /\ DOMAIN tierList.tiers # {} /\ run = NoRun /\ DOMAIN tierList.tiers \in SUBSET TierNames
  BY <1>1, PlanBooks DEF PlanStands
<1>3. CASE plan.batch
  <2>1. /\ run' = run
        /\ plan' = [NoPlan EXCEPT !.step = "catalog", !.batch = TRUE, !.known = DOMAIN tierList.tiers, !.drafts = DraftsOf(card)]
    BY <1>3 DEF Confirm
  <2>2. DraftsOf(card) \in Seq(Draft)
    <3>1. ASSUME NEW i \in 1..Len(card) PROVE DraftsOf(card)[i] \in Draft
      <4>1. card[i] \in PlanEntry /\ i \in DOMAIN card
        BY <1>2
      <4>2. card[i].name \in DOMAIN Candidates /\ card[i].domain \in BOOLEAN /\ SizeAgain(card[i]) \in DOMAIN Matches \union {NoSize}
        BY <4>1, EveryNameCanBeAsked, DeployAssumption DEF PlanEntry, SizeAgain
      <4>3. DraftsOf(card)[i] = [name |-> card[i].name, size |-> SizeAgain(card[i]), domain |-> card[i].domain, acceptable |-> TRUE]
        BY <4>1 DEF DraftsOf
      <4>4. QED
        BY <4>2, <4>3 DEF Draft
    <3>2. Len(card) \in Nat /\ DraftsOf(card) = [i \in 1..Len(card) |-> DraftsOf(card)[i]]
      BY <1>2 DEF DraftsOf
    <3>3. QED
      BY <3>1, <3>2
  <2>3. plan' = [step |-> "catalog", batch |-> TRUE, partial |-> FALSE, known |-> DOMAIN tierList.tiers, drafts |-> DraftsOf(card),
                 tiers |-> <<>>, entries |-> <<>>]
    BY <2>1 DEF NoPlan
  <2>4. <<>> \in Seq(PlanEntry) /\ <<>> \in TierLists
    BY ListsOfTiers
  <2>5. /\ plan' \in DeploymentPlans /\ plan'.step = "catalog" /\ plan'.batch /\ ~plan'.partial
        /\ plan'.known = DOMAIN tierList.tiers /\ plan'.drafts = DraftsOf(card)
    BY <1>2, <2>2, <2>3, <2>4 DEF DeploymentPlans, PlanSteps
  <2>6. PlanStands'
    BY <1>1, <1>2, <2>1, <2>5 DEF PlanStands, Drafting, Distinct, PlanMoves
  <2>7. ~shifted => AllFit(card, TiersNow)
    BY <1>1, <1>2, <1>3, PlanBooks DEF PlanRepeats
  <2>8. PlanRepeats'
    BY <1>1, <2>5, <2>7 DEF PlanRepeats, Drafting, AllFit, Distinct, Fits, TiersNow, PlanMoves
  <2>9. QED
    BY <1>1, <1>2, <2>1, <2>5, <2>6, <2>8, PlanGoesOn
<1>4. CASE ~plan.batch
  <2>1. run' = [NoRun EXCEPT !.entries = card] /\ plan' = [NoPlan EXCEPT !.step = "running"]
    BY <1>4 DEF Confirm
  <2>2. plan' \in DeploymentPlans /\ plan'.step = "running" /\ ~plan'.batch
    BY <2>1, NothingYet DEF DeploymentPlans, PlanSteps, NoPlan
  <2>3. run'.entries = card
    BY <1>2, <2>1, NothingYet
  <2>4. PlanStands'
    BY <1>1, <1>2, <2>2, <2>3 DEF PlanStands, Drafting, Distinct, PlanMoves
  <2>5. PlanRepeats'
    BY <2>2 DEF PlanRepeats, Drafting
  <2>6. QED
    BY <1>1, <1>2, <2>1, <2>2, <2>4, <2>5, PlanGoesOn
<1>5. QED
  BY <1>3, <1>4

-----------------------------------------------------------------------------
(* Deployments: the world *)

LEMMA ShiftSafely == ASSUME DeployInv, Shift PROVE DeployInv'
<1>1. /\ UNCHANGED <<tierList, plan, card, run, signLock, stopped, authorized>>
      /\ shifted' = (shifted \/ plan.step # "idle")
  BY DEF Shift
<1>2. DeployTypes /\ ListStands /\ PlanStands /\ RunFits(run, signLock, stopped)
  BY DEF DeployInv
<1>3. chain' \in [offers : Offers, held : BOOLEAN, credits : 0..MaxCredits] /\ takenNames' \subseteq AppNames
  <2>1. ASSUME NEW t \in TierNames, NEW p \in ToSet(Providers), NEW v \in Prices \union {NoOffer},
               chain' = [chain EXCEPT !.offers[t][p] = v]
        PROVE  chain' \in [offers : Offers, held : BOOLEAN, credits : 0..MaxCredits]
    <3>1. chain.offers \in Offers
      BY <1>2 DEF DeployTypes
    <3>2. [chain.offers EXCEPT ![t] = [chain.offers[t] EXCEPT ![p] = v]] \in Offers
      BY <3>1 DEF Offers
    <3>3. chain' = [chain EXCEPT !.offers = [chain.offers EXCEPT ![t] = [chain.offers[t] EXCEPT ![p] = v]]]
      BY <1>2, <2>1 DEF DeployTypes
    <3>4. QED
      BY <1>2, <3>2, <3>3 DEF DeployTypes
  <2>2. QED
    BY <1>2, <2>1 DEF Shift, DeployTypes
<1>4. DeployTypes' /\ ListStands'
  BY <1>1, <1>2, <1>3 DEF DeployTypes, ListStands
<1>5. PlanStands'
  BY <1>1, <1>2 DEF PlanStands, Drafting, Distinct
<1>6. PlanRepeats'
  <2>1. ASSUME ~shifted' PROVE plan.step = "idle" /\ card = <<>>
    BY <1>1, <1>2, <2>1 DEF PlanStands
  <2>2. QED
    BY <1>1, <2>1 DEF PlanRepeats, Drafting
<1>7. RunFits(run, signLock, stopped)'
  BY <1>1, <1>2
<1>8. QED
  BY <1>4, <1>5, <1>6, <1>7 DEF DeployInv

LEMMA UserSafely ==
  ASSUME DeployInv, StopDeploy \/ AuthorizationEnds
  PROVE  DeployInv'
<1>1. /\ UNCHANGED <<chain, takenNames, tierList, plan, card, run, signLock, shifts, shifted>>
      /\ stopped' \in BOOLEAN /\ authorized' \in BOOLEAN /\ (stopped => stopped')
  BY DEF StopDeploy, AuthorizationEnds, DeployInv, DeployTypes
<1>2. DeployTypes' /\ ListStands'
  BY <1>1 DEF DeployInv, DeployTypes, ListStands
<1>3. PlanStands' /\ PlanRepeats'
  BY <1>1 DEF DeployInv, PlanStands, PlanRepeats, Drafting, Distinct, AllFit, Fits, TiersNow
<1>4. RunFits(run, signLock, stopped)'
  BY <1>1 DEF DeployInv, RunFits
<1>5. QED
  BY <1>2, <1>3, <1>4 DEF DeployInv

\* No step but those of the tiers changes their list.
LEMMA DeployStepsSafely ==
  ASSUME DeployInv, [DeployNext]_deployVars
  PROVE  DeployInv' /\ KeepsTiers
<1>1. CASE UNCHANGED deployVars
  <2>1. UNCHANGED <<chain, takenNames, tierList, plan, card, run, signLock, stopped, authorized, shifted>>
    BY <1>1 DEF deployVars
  <2>2. DeployTypes' /\ ListStands' /\ KeepsTiers
    BY <2>1 DEF DeployInv, DeployTypes, ListStands, KeepsTiers
  <2>3. PlanStands'
    BY <2>1 DEF DeployInv, PlanStands, Drafting, Distinct
  <2>4. PlanRepeats'
    BY <2>1 DEF DeployInv, PlanRepeats, Drafting, Distinct, AllFit, Fits, TiersNow
  <2>5. RunFits(run, signLock, stopped)'
    BY <2>1 DEF DeployInv, RunFits
  <2>6. QED
    BY <2>2, <2>3, <2>4, <2>5 DEF DeployInv
<1>2. CASE LoadTiers \/ RetryTiers \/ FetchEnds
  BY <1>2, TiersSafely
<1>3. ASSUME NEW drafts \in Requests, NEW partial \in BOOLEAN, PlanBatch(drafts, partial) PROVE DeployInv' /\ tierList' = tierList
  BY <1>3, PlanBatchSafely DEF PlanBatch
<1>4. ASSUME NEW drafts \in Requests, PlanSingle(drafts[1]) PROVE DeployInv' /\ tierList' = tierList
  <2>1. drafts \in Seq(Draft) /\ drafts # <<>>
    BY DeployAssumption
  <2>2. drafts[1] \in Draft
    BY <2>1
  <2>3. QED
    BY <1>4, <2>2, PlanSingleSafely DEF PlanSingle
<1>5. CASE ReadCatalog \/ ReadDomains \/ ReadCredits \/ CheckDeploy \/ Confirm
  <2>1. DeployInv'
    BY <1>5, ReadCatalogSafely, ReadDomainsSafely, ReadCreditsSafely, CheckDeploySafely, ConfirmSafely
  <2>2. tierList' = tierList
    BY <1>5 DEF ReadCatalog, ReadDomains, ReadCredits, CheckDeploy, Confirm
  <2>3. QED
    BY <2>1, <2>2 DEF KeepsTiers
<1>6. CASE StartEntry \/ RunEnds \/ OtherAsks \/ WalletAnswers
  <2>1. DeployInv'
    BY <1>6, StartEntrySafely, RunEndsSafely, AskSafely, WalletAnswersSafely
  <2>2. tierList' = tierList
    BY <1>6 DEF StartEntry, RunEnds, OtherAsks, WalletAnswers, Goes, OnlyRuns
  <2>3. QED
    BY <2>1, <2>2 DEF KeepsTiers
<1>7. ASSUME NEW i \in DOMAIN run.entries, LeaseLands(i) \/ LeaseRefused(i) \/ AskSignature(i) \/ EntryEnds(i)
      PROVE  DeployInv' /\ tierList' = tierList
  <2>1. DeployInv'
    BY <1>7, LeaseSafely, AskSafely, EntryEndsSafely
  <2>2. tierList' = tierList
    BY <1>7 DEF LeaseLands, LeaseRefused, AskSignature, EntryEnds, Goes, OnlyRuns
  <2>3. QED
    BY <2>1, <2>2
<1>8. CASE StopDeploy \/ AuthorizationEnds \/ Shift
  <2>1. DeployInv'
    BY <1>8, UserSafely, ShiftSafely
  <2>2. tierList' = tierList
    BY <1>8 DEF StopDeploy, AuthorizationEnds, Shift
  <2>3. QED
    BY <2>1, <2>2 DEF KeepsTiers
<1>9. QED
  BY <1>1, <1>2, <1>3, <1>4, <1>5, <1>6, <1>7, <1>8 DEF DeployNext, KeepsTiers

-----------------------------------------------------------------------------
(* Deployments: what is told *)

LEMMA ShownIsDeployed == DeployInv => DeploysAsShown
<1> SUFFICES ASSUME DeployInv, NEW i \in run.leased
             PROVE  /\ run.entries[i] = card[i]
                    /\ \A j \in DOMAIN run.entries \ {i} :
                         /\ run.entries[j].name # run.entries[i].name
                         /\ ~(run.entries[j].domain /\ run.entries[i].domain)
  BY DEF DeploysAsShown
<1>1. run # NoRun
  BY NothingYet
<1>2. run.entries = card /\ Distinct(card)
  BY <1>1, PlanBooks DEF PlanStands
<1>3. i \in DOMAIN run.entries
  <2>1. run.leased \subseteq 1..run.queued /\ run.queued <= Len(run.entries)
    BY RunBooks DEF RunFits
  <2>2. QED
    BY <2>1, RunBooks
<1>4. QED
  BY <1>2, <1>3 DEF Distinct

LEMMA EndedAreEntries ==
  ASSUME DeployInv
  PROVE  Ended \subseteq DOMAIN run.entries /\ (run.over => Ended = DOMAIN run.entries) /\ Landed \subseteq run.leased
<1>1. /\ run.leased \subseteq 1..run.queued /\ run.failed \subseteq 1..run.queued /\ run.cancelled \subseteq 1..Len(run.entries)
      /\ Landed \subseteq run.leased /\ run.queued <= Len(run.entries)
      /\ run.over => 1..Len(run.entries) \subseteq run.succeeded \union run.unconfirmed \union run.failed \union run.cancelled
  BY RunBooks DEF RunFits, Landed
<1>2. 1..run.queued \subseteq 1..Len(run.entries)
  BY <1>1, RunBooks
<1>3. QED
  BY <1>1, <1>2, RunBooks DEF Ended, Landed

LEMMA SummaryTells == DeployInv /\ run.over => Summary.told = DOMAIN run.entries
<1> SUFFICES ASSUME DeployInv, run.over PROVE Summary.told = DOMAIN run.entries
  OBVIOUS
<1>1. Summary.told = Landed \union run.failed \union run.cancelled
  BY DEF Summary
<1>2. Summary.told = Ended
  BY <1>1 DEF Landed, Ended
<1>3. QED
  BY <1>2, EndedAreEntries

LEMMA CardIsHonest ==
  ASSUME DeployInv, run.entries # <<>>, OverallPhase \in {"ready", "failed"}
  PROVE  Ended = DOMAIN run.entries /\ (OverallPhase = "ready" => Summary.success /\ Summary.phase = "ready")
<1> DEFINE phases == {RowPhase(i) : i \in DOMAIN run.entries}
           atWork == {"provisioning", "uploading", "creating_lease"}
<1>1. \A i \in DOMAIN run.entries :
        /\ RowPhase(i) \in {"ready", "failed"} \union atWork
        /\ RowPhase(i) \in {"ready", "failed"} => i \in Ended
        /\ RowPhase(i) = "ready" => i \in run.succeeded
  BY DEF RowPhase, Ended
<1>2. ToSet(Pipeline) = atWork /\ DOMAIN Pipeline = 1..3
  BY DEF Pipeline, ToSet
<1>3. phases \subseteq {"ready", "failed"}
  <2>1. SUFFICES ASSUME ~(phases \subseteq {"ready", "failed"}) PROVE FALSE
    OBVIOUS
  <2>2. ToSet(Pipeline) \cap phases # {}
    BY <1>1, <1>2, <2>1
  <2>3. FirstIn(Pipeline, phases) \in atWork
    <3> HIDE DEF phases
    <3>1. FirstIn(Pipeline, phases) \in ToSet(Pipeline)
      BY <1>2, <2>2, FirstInIsIn
    <3>2. QED
      BY <1>2, <3>1
  <2>4. OverallPhase = FirstIn(Pipeline, phases)
    BY <2>1 DEF OverallPhase
  <2>5. QED
    BY <2>3, <2>4
<1>4. Ended = DOMAIN run.entries
  BY <1>1, <1>3, EndedAreEntries
<1>5. ASSUME OverallPhase = "ready" PROVE Summary.success /\ Summary.phase = "ready"
  <2>1. "ready" \in phases
    BY <1>3, <1>5 DEF OverallPhase
  <2>2. Landed # {}
    BY <1>1, <2>1 DEF Landed
  <2>3. QED
    BY <2>2 DEF Summary
<1>6. QED
  BY <1>4, <1>5

LEMMA OneBucket ==
  ASSUME DeployInv, NEW i \in Ended
  PROVE  Cardinality({b \in {"succeeded", "unconfirmed", "failed", "cancelled"} : i \in run[b]}) = 1
<1> DEFINE B == {b \in {"succeeded", "unconfirmed", "failed", "cancelled"} : i \in run[b]}
<1>1. /\ run.succeeded \union run.unconfirmed \subseteq run.leased
      /\ run.cancelled \cap (run.leased \union run.failed) = {}
      /\ run.succeeded \cap run.unconfirmed = {} /\ (run.succeeded \union run.unconfirmed) \cap run.failed = {}
  BY RunBooks DEF RunFits
<1>2. i \in run.succeeded => B = {"succeeded"}
  BY <1>1
<1>3. i \in run.unconfirmed => B = {"unconfirmed"}
  BY <1>1
<1>4. i \in run.failed => B = {"failed"}
  BY <1>1
<1>5. i \in run.cancelled => B = {"cancelled"}
  BY <1>1
<1>6. \E b : B = {b}
  BY <1>2, <1>3, <1>4, <1>5 DEF Ended
<1> HIDE DEF B
<1>7. Cardinality(B) = 1
  BY <1>6, FS_Singleton
<1>8. QED
  BY <1>7 DEF B

LEMMA DeployAnswers == DeployInv => DeploysAsShown /\ EntriesAccounted /\ UnchangedPlanStands
<1> SUFFICES ASSUME DeployInv PROVE DeploysAsShown /\ EntriesAccounted /\ UnchangedPlanStands
  OBVIOUS
<1>1. run.cancelled \cap run.leased = {}
  BY RunBooks DEF RunFits
<1>2. EntriesAccounted
  BY <1>1, SummaryTells, CardIsHonest, OneBucket, EndedAreEntries DEF EntriesAccounted
<1>3. UnchangedPlanStands
  BY PlanBooks DEF PlanStands, UnchangedPlanStands
<1>4. QED
  BY <1>2, <1>3, ShownIsDeployed

-----------------------------------------------------------------------------
(* The types that the run checks, and the other parts of them *)

\* An attempt is paid before a round reads, and given back at most once.
AttemptsAreBounded ==
  \A l \in RecoveryLeases :
    /\ -1 <= spent[l]
    /\ -1 <= attempts[l].tries /\ attempts[l].tries <= LongBudget /\ attempts[l].max <= LongBudget

LEMMA AttemptsBegin == RecoveryInit => AttemptsAreBounded
BY RecoveryAssumption DEF RecoveryInit, AttemptsAreBounded, NoAttempt

LEMMA ScannedIsBounded ==
  ASSUME RecoveryTypes, AttemptsAreBounded, NEW l \in RecoveryLeases
  PROVE  -1 <= Scanned[l].tries /\ Scanned[l].tries <= LongBudget /\ Scanned[l].max <= LongBudget
<1>1. LongBudget \in Nat /\ \A need : Allowance(need) \in Nat /\ Allowance(need) <= LongBudget
  BY RecoveryAssumption DEF Allowance
<1>2. /\ IsAttempt(attempts[l]) /\ needs[l] \in Needs
      /\ -1 <= attempts[l].tries /\ attempts[l].tries <= LongBudget /\ attempts[l].max <= LongBudget
  BY DEF RecoveryTypes, AttemptsAreBounded
<1>3. /\ NoAttempt.tries = -1 /\ NoAttempt.max = 0
      /\ FirstAttempt(l).tries = 0 /\ FirstAttempt(l).max = Allowance(needs[l])
  BY DEF NoAttempt, FirstAttempt
<1>4. \/ Scanned[l] = NoAttempt \/ Scanned[l] = attempts[l] \/ Scanned[l] = FirstAttempt(l)
      \/ Scanned[l] = [attempts[l] EXCEPT !.max = IF Allowance(needs[l]) > @ THEN Allowance(needs[l]) ELSE @]
  BY <1>2 DEF Scanned, Eligible, Needs, IsAttempt
<1>5. CASE Scanned[l] = [attempts[l] EXCEPT !.max = IF Allowance(needs[l]) > @ THEN Allowance(needs[l]) ELSE @]
  BY <1>1, <1>2, <1>5 DEF IsAttempt
<1>6. QED
  BY <1>1, <1>2, <1>3, <1>4, <1>5

LEMMA AttemptsStayBounded ==
  ASSUME RecoveryInv, AttemptsAreBounded, [RecoveryNext]_recoveryVars
  PROVE  AttemptsAreBounded'
<1>1. /\ RecoveryTypes /\ LongBudget \in Nat
      /\ \A l \in RecoveryLeases : IsAttempt(attempts[l]) /\ spent[l] \in Int
      /\ DOMAIN attempts = RecoveryLeases /\ DOMAIN spent = RecoveryLeases
  BY RecoveryAssumption DEF RecoveryInv, RecoveryTypes
<1>2. NoAttempt.tries = -1 /\ NoAttempt.max = 0
  BY DEF NoAttempt
<1>3. CASE UNCHANGED <<attempts, spent>>
  BY <1>3 DEF AttemptsAreBounded
<1>4. ASSUME NEW l \in RecoveryLeases, RoundBegins(l)
      PROVE  AttemptsAreBounded'
  <2>1. DOMAIN Scanned = RecoveryLeases /\ \A k \in RecoveryLeases : IsAttempt(Scanned[k])
    BY <1>1, ScannedAttempts
  <2>2. spent' = spent /\ attempts' = [Scanned EXCEPT ![l].tries = @ + 1] /\ Scanned[l].tries < Scanned[l].max
    BY <1>4 DEF RoundBegins, RecoveryCandidate
  <2>3. \A k \in RecoveryLeases \ {l} : attempts'[k] = Scanned[k]
    BY <2>1, <2>2
  <2>4. attempts'[l].tries = Scanned[l].tries + 1 /\ attempts'[l].max = Scanned[l].max
    BY <2>1, <2>2 DEF IsAttempt
  <2>5. ASSUME NEW k \in RecoveryLeases
        PROVE  -1 <= attempts'[k].tries /\ attempts'[k].tries <= LongBudget /\ attempts'[k].max <= LongBudget
    BY <1>1, <2>1, <2>2, <2>3, <2>4, ScannedIsBounded DEF IsAttempt
  <2>6. QED
    BY <2>2, <2>5 DEF AttemptsAreBounded
<1>5. CASE TickFindsNothing
  BY <1>1, <1>5, ScannedIsBounded DEF TickFindsNothing, AttemptsAreBounded, observers
<1>6. CASE RoundReturns
  <2>1. PICK l : l = round.lease
    OBVIOUS
  <2>2. spent' = [spent EXCEPT ![l] = @ + 1]
    BY <1>6, <2>1 DEF RoundReturns
  <2>3. PICK kept : kept = (round.step = "written" /\ round.same)
    OBVIOUS
  <2>4. PICK r : r = IF kept THEN round.complete ELSE attempts[l].retired
    OBVIOUS
  <2>5. \/ attempts' = [attempts EXCEPT ![l].wait = Delay(attempts[l].tries), ![l].known = TRUE, ![l].retired = r]
        \/ attempts' = [attempts EXCEPT ![l] = NoAttempt]
    <3>1. attempts' = IF attempts[l].known \/ (round.step = "written" /\ round.same)
                      THEN [attempts EXCEPT ![l].wait = Delay(attempts[l].tries), ![l].known = TRUE,
                              ![l].retired = IF round.step = "written" /\ round.same THEN round.complete ELSE @]
                      ELSE [attempts EXCEPT ![l] = NoAttempt]
      BY <1>6, <2>1 DEF RoundReturns
    <3>2. \/ attempts' = [attempts EXCEPT ![l].wait = Delay(attempts[l].tries), ![l].known = TRUE,
                            ![l].retired = IF kept THEN round.complete ELSE @]
          \/ attempts' = [attempts EXCEPT ![l] = NoAttempt]
      BY <2>3, <3>1
    <3>3. CASE attempts' = [attempts EXCEPT ![l].wait = Delay(attempts[l].tries), ![l].known = TRUE,
                             ![l].retired = IF kept THEN round.complete ELSE @]
      BY <1>1, <2>4, <3>3 DEF IsAttempt
    <3>4. QED
      BY <3>2, <3>3
  <2>6. ASSUME NEW k \in RecoveryLeases
        PROVE  \/ attempts'[k].tries = attempts[k].tries /\ attempts'[k].max = attempts[k].max
               \/ attempts'[k] = NoAttempt
    BY <1>1, <2>5 DEF IsAttempt
  <2>7. ASSUME NEW k \in RecoveryLeases PROVE -1 <= spent'[k]
    <3>1. spent'[k] = spent[k] \/ spent'[k] = spent[k] + 1
      BY <1>1, <2>2
    <3>2. QED
      BY <1>1, <3>1 DEF AttemptsAreBounded
  <2>8. QED
    BY <1>1, <1>2, <2>6, <2>7 DEF AttemptsAreBounded
<1>7. CASE RoundUnwinds
  <2>1. PICK l : l = round.lease
    OBVIOUS
  <2>2. /\ \/ spent' = [spent EXCEPT ![l] = spent[l]]
           \/ spent' = [spent EXCEPT ![l] = 0]
        /\ \/ attempts[l].known /\ attempts' = [attempts EXCEPT ![l].tries = @ - 1, ![l].wait = 0]
           \/ attempts' = [attempts EXCEPT ![l] = NoAttempt]
    BY <1>7, <2>1 DEF RoundUnwinds
  <2>3. l \in RecoveryLeases /\ (attempts[l].known => 0 <= attempts[l].tries)
    <3>1. l \in RecoveryLeases /\ On(l)
      BY <1>1, <1>7, <2>1, RoundKinds DEF RoundUnwinds, RecoveryTypes, Rounds, On
    <3>2. attempts[l].known => spent[l] < attempts[l].tries
      BY <3>1 DEF RecoveryInv, Counted
    <3>3. QED
      BY <1>1, <3>1, <3>2 DEF AttemptsAreBounded, IsAttempt
  <2>4. ASSUME NEW k \in RecoveryLeases
        PROVE  \/ attempts'[k].tries = attempts[k].tries /\ attempts'[k].max = attempts[k].max
               \/ /\ k = l /\ attempts[k].known
                  /\ attempts'[k].tries = attempts[k].tries - 1 /\ attempts'[k].max = attempts[k].max
               \/ attempts'[k] = NoAttempt
    BY <1>1, <2>2, <2>3 DEF IsAttempt
  <2>5. \A k \in RecoveryLeases : spent'[k] >= -1
    BY <1>1, <2>2, <2>3 DEF AttemptsAreBounded
  <2>6. QED
    BY <1>1, <1>2, <2>3, <2>4, <2>5 DEF AttemptsAreBounded, IsAttempt
<1>8. CASE ReadsSettle
  <2>1. /\ spent' = spent
        /\ \/ attempts' = attempts
           \/ \E changed \in BOOLEAN : attempts' = [attempts EXCEPT ![round.lease].known = @ /\ ~changed]
    <3>1. CASE ~StillTheSame
      <4>1. UNCHANGED <<needs, attempts, overwritten>> /\ UNCHANGED <<poll, busy, recoverySigner, mints, stirs, spent, allowed>>
        BY <1>8, <3>1, Zenon DEF ReadsSettle
      <4>2. QED
        BY <4>1
    <3>2. CASE StillTheSame
      <4>1. PICK changed \in BOOLEAN : attempts' = [attempts EXCEPT ![round.lease].known = @ /\ ~changed]
        BY <1>8, <3>2, Zenon DEF ReadsSettle
      <4>2. QED
        BY <1>8, <4>1, Zenon DEF ReadsSettle
    <3>3. QED
      BY <3>1, <3>2
  <2>2. ASSUME NEW k \in RecoveryLeases
        PROVE  attempts'[k].tries = attempts[k].tries /\ attempts'[k].max = attempts[k].max
    <3>1. CASE attempts' = attempts
      BY <3>1
    <3>2. ASSUME NEW changed \in BOOLEAN, attempts' = [attempts EXCEPT ![round.lease].known = @ /\ ~changed]
          PROVE  attempts'[k].tries = attempts[k].tries /\ attempts'[k].max = attempts[k].max
      BY <1>1, <3>2 DEF IsAttempt
    <3>3. QED
      BY <2>1, <3>1, <3>2
  <2>3. QED
    BY <2>1, <2>2 DEF AttemptsAreBounded
<1>9. ASSUME NEW l \in RecoveryLeases, NEW need \in Needs, AppChanges(l, need)
      PROVE  AttemptsAreBounded'
  <2>1. /\ spent' = [spent EXCEPT ![l] = IF On(l) THEN -1 ELSE 0]
        /\ \/ attempts' = [attempts EXCEPT ![l].known = FALSE]
           \/ attempts' = [attempts EXCEPT ![l] = NoAttempt]
    BY <1>9 DEF AppChanges
  <2>2. ASSUME NEW k \in RecoveryLeases
        PROVE  \/ attempts'[k].tries = attempts[k].tries /\ attempts'[k].max = attempts[k].max
               \/ attempts'[k] = NoAttempt
    BY <1>1, <2>1 DEF IsAttempt
  <2>3. QED
    BY <1>1, <1>2, <2>1, <2>2 DEF AttemptsAreBounded
<1>10. CASE NewEpoch
  BY <1>1, <1>2, <1>10 DEF NewEpoch, AttemptsAreBounded
<1>11. CASE TimePasses
  <2>1. /\ spent' = spent
        /\ attempts' = [l \in RecoveryLeases |->
                          [attempts[l] EXCEPT !.wait = IF @ > Overdue THEN @ - 1 ELSE @]]
    BY <1>11 DEF TimePasses, observers
  <2>2. \A k \in RecoveryLeases : attempts'[k].tries = attempts[k].tries /\ attempts'[k].max = attempts[k].max
    BY <1>1, <2>1 DEF IsAttempt
  <2>3. QED
    BY <2>1, <2>2 DEF AttemptsAreBounded
<1>12. QED
  BY <1>3, <1>4, <1>5, <1>6, <1>7, <1>8, <1>9, <1>10, <1>11
  DEF RecoveryNext, recoveryVars, observers, AuthTimesOut, MintSettles, ForegroundBegins, ForegroundEnds,
      SignerRenewed, Disconnect, Reconnect, HidePage, ShowPage

LEMMA RecoveryIsTyped == RecoveryInv /\ AttemptsAreBounded => RecoveryTypeOK
<1> SUFFICES ASSUME RecoveryInv, AttemptsAreBounded PROVE RecoveryTypeOK
  OBVIOUS
<1>1. RecoveryTypes /\ LongBudget \in Nat
  BY RecoveryAssumption DEF RecoveryInv
<1>2. ASSUME NEW l \in RecoveryLeases
      PROVE  attempts[l].tries \in -1..LongBudget /\ attempts[l].max \in 0..LongBudget
  BY <1>1 DEF RecoveryTypes, IsAttempt, AttemptsAreBounded
<1>3. round # NoRound => round.lease \in RecoveryLeases /\ round.step \in {"auth", "reads", "written", "failed"}
  BY <1>1 DEF RecoveryTypes, Rounds
<1>4. QED
  BY <1>1, <1>2, <1>3 DEF RecoveryTypes, RecoveryTypeOK

\* What a setup stores, and what is on its way, is of its type.
StoresAreTyped ==
  /\ setupStored \in [SetupWallets -> SUBSET SetupFacts] /\ signable \in BOOLEAN
  /\ drips \subseteq SetupWallets /\ blind \subseteq SetupRuns

LEMMA StoresBegin == SetupInit => StoresAreTyped
<1> SUFFICES ASSUME SetupInit PROVE StoresAreTyped
  OBVIOUS
<1>1. PICK opening \in Openings : setupStored = [w \in SetupWallets |-> opening[w].stored]
  BY DEF SetupInit
<1>2. \A w \in SetupWallets : opening[w].stored \in SUBSET SetupFacts
  BY SetupAssumption
<1>3. QED
  BY <1>1, <1>2 DEF SetupInit, StoresAreTyped

LEMMA StoresStayTyped ==
  ASSUME SetupInv, StoresAreTyped, [SetupNext]_setupVars
  PROVE  StoresAreTyped'
<1>1. /\ \A r \in SetupRuns : setups[r].step # "unborn" => setups[r].wallet \in SetupWallets
      /\ setupStored \in [SetupWallets -> SUBSET SetupFacts] /\ signable \in BOOLEAN
      /\ drips \subseteq SetupWallets /\ blind \subseteq SetupRuns
  BY DEF SetupInv, SetupTypes, StoresAreTyped
<1>2. \A x : x \in {{}, {"setupOpen"}, {"setupCompleted"}} => x \subseteq SetupFacts
  BY DEF SetupFacts
<1>3. ASSUME NEW r, FinishWithError(r) \/ LeaveAsIs(r) \/ FailOrLeave(r) \/ Complete(r) \/ DripFailed(r)
      PROVE  \/ setupStored' = setupStored
             \/ \E w, x : x \subseteq SetupFacts /\ setupStored' = [setupStored EXCEPT ![w] = x]
  BY <1>2, <1>3 DEF FinishWithError, LeaveAsIs, FailOrLeave, Complete, DripFailed, NoVerdict
<1>4. ASSUME NEW r \in SetupRuns, Resumes(r)
      PROVE  /\ \/ setupStored' = setupStored
                \/ \E w, x : x \subseteq SetupFacts /\ setupStored' = [setupStored EXCEPT ![w] = x]
             /\ signable' = signable
             /\ drips' = drips \/ (drips' = drips \union {setups[r].wallet} /\ setups[r].step = "drip")
             /\ blind' = blind \/ blind' = blind \union {r}
  <2>1. CASE AbortedReturns(r) \/ RetryDelayEnds(r) \/ PauseEnds(r)
    BY <2>1 DEF AbortedReturns, RetryDelayEnds, PauseEnds, SameWallet, ChainStays, NoVerdict
  <2>2. CASE BalanceRead(r)
    BY <1>2, <1>3, <2>2 DEF BalanceRead, SameWallet, ChainStays
  <2>3. CASE EarlyCreditRead(r)
    BY <1>2, <2>3 DEF EarlyCreditRead, SameWallet, ChainStays, NoVerdict
  <2>4. CASE PreDripRead(r) \/ PollEnds(r)
    BY <1>3, <2>4 DEF PreDripRead, PollEnds, SameWallet, ChainStays, NoVerdict
  <2>5. CASE DripAnswered(r)
    BY <1>3, <2>5 DEF DripAnswered, SetupAt, SameWallet, NoVerdict
  <2>6. CASE FreshRead(r)
    BY <1>3, <2>6 DEF FreshRead, SameWallet, NoVerdict
  <2>7. CASE FundingAnswered(r) \/ RefundingAnswered(r)
    BY <1>3, <2>7 DEF FundingAnswered, RefundingAnswered, SameWallet, NoVerdict
  <2>8. CASE CreditRecheck(r)
    BY <1>3, <2>8 DEF CreditRecheck, SameWallet, NoVerdict
  <2>9. QED
    BY <1>4, <2>1, <2>2, <2>3, <2>4, <2>5, <2>6, <2>7, <2>8 DEF Resumes
<1>5. ASSUME NEW r \in SetupRuns, Resumes(r) PROVE StoresAreTyped'
  <2>1. setupStored' \in [SetupWallets -> SUBSET SetupFacts]
    <3>1. CASE setupStored' = setupStored
      BY <1>1, <3>1
    <3>2. ASSUME NEW w, NEW x, x \subseteq SetupFacts, setupStored' = [setupStored EXCEPT ![w] = x]
          PROVE  setupStored' \in [SetupWallets -> SUBSET SetupFacts]
      BY <1>1, <3>2
    <3>3. QED
      BY <1>4, <1>5, <3>1, <3>2
  <2>2. drips' \subseteq SetupWallets
    BY <1>1, <1>4, <1>5
  <2>3. blind' \subseteq SetupRuns /\ signable' \in BOOLEAN
    BY <1>1, <1>4, <1>5
  <2>4. QED
    BY <2>1, <2>2, <2>3 DEF StoresAreTyped
<1>6. ASSUME NEW w \in SetupWallets, ConnectWallet(w) \/ DripLands(w) PROVE StoresAreTyped'
  BY <1>1, <1>6 DEF ConnectWallet, DripLands, ChainStays, SameWallet, StoresAreTyped
<1>7. ASSUME NEW r \in SetupRuns, NEW n, FundingLands(r, n) PROVE StoresAreTyped'
  BY <1>1, <1>7 DEF FundingLands, SameWallet, StoresAreTyped
<1>8. CASE DisconnectWallet \/ SignerReady \/ DismissalFires
  BY <1>1, <1>8 DEF DisconnectWallet, SignerReady, DismissalFires, ChainStays, SameWallet, StoresAreTyped
<1>9. CASE UNCHANGED setupVars
  BY <1>1, <1>9 DEF setupVars, StoresAreTyped
<1>10. QED
  BY <1>5, <1>6, <1>7, <1>8, <1>9 DEF SetupNext

LEMMA SetupIsTyped == SetupInv /\ StoresAreTyped => SetupTypeOK
<1> SUFFICES ASSUME SetupInv, StoresAreTyped PROVE SetupTypeOK
  OBVIOUS
<1>1. SetupTypes
  BY DEF SetupInv
<1>2. \A r \in SetupRuns : setups[r].step \in Steps /\ setups[r].wallet \in SetupWallets \union {Nobody}
  BY <1>1 DEF SetupTypes, SetupRecords
<1>3. QED
  BY <1>1, <1>2 DEF SetupTypes, StoresAreTyped, SetupTypeOK

LEMMA DeployIsTyped == DeployInv => DeployTypeOK
<1> SUFFICES ASSUME DeployInv PROVE DeployTypeOK
  OBVIOUS
<1>1. DeployTypes
  BY DEF DeployInv
<1>2. /\ chain.offers \in Offers /\ chain.held \in BOOLEAN /\ chain.credits \in 0..MaxCredits
      /\ takenNames \subseteq AppNames
      /\ tierList.phase \in {"idle", "loading", "ready", "error"} /\ tierList.fetches \in Nat /\ tierList.tiers \in TierLists
      /\ {stopped, authorized, shifted} \subseteq BOOLEAN
  BY <1>1 DEF DeployTypes
<1>3. \A t \in DOMAIN tierList.tiers : tierList.tiers[t] \in [provider : ToSet(Providers), price : Prices]
  BY <1>2 DEF TierLists
<1>4. plan.step \in PlanSteps /\ card \in Seq(PlanEntry) /\ plan.entries \in Seq(PlanEntry) /\ run.entries \in Seq(PlanEntry)
  BY <1>1 DEF DeployTypes, DeploymentPlans, DeploymentRuns
<1>5. \A entries \in {card, plan.entries, run.entries} : \A i \in DOMAIN entries : entries[i] \in PlanEntry
  BY <1>4
<1>6. QED
  BY <1>2, <1>3, <1>4, <1>5 DEF DeployTypeOK, Offers, PlanSteps

\* The chat's part, whose cache is never of a later dispatch than the last.
LEMMA ChatIsTyped == ChatInv /\ Cached => TypeOK
<1> SUFFICES ASSUME ChatInv, Cached PROVE TypeOK
  OBVIOUS
<1>1. StoreTyped
  BY DEF ChatInv
<1>2. cache \in {NotCached} \union 0..dispatches
  BY <1>1 DEF StoreTyped, Cached
<1>3. ASSUME NEW w \in Ids PROVE work[w] \in Items
  BY <1>1 DEF StoreTyped, Ids
<1>4. ASSUME NEW a \in Wallets \union {NoWallet}, NEW r \in DOMAIN transcript[a]
      PROVE  transcript[a][r].st \in {"streaming", "waiting", "inflight", "closed"}
  <2>1. transcript[a][r] \in Entries
    BY <1>1 DEF StoreTyped, Addresses
  <2>2. QED
    BY <2>1 DEF Entries, States
<1>5. ASSUME NEW w \in Ids
      PROVE  /\ work[w].kind \in {"chat", "status", "batch", "stop", "replan", "confirm"}
             /\ work[w].pc \in {"model", "tool", "merge", "query", "plan", "replan", "execute", "sent", "followup", "done"}
  BY <1>3 DEF Items, Kinds, Stages
<1>6. QED
  BY <1>1, <1>2, <1>4, <1>5 DEF StoreTyped, TypeOK, Addresses

-----------------------------------------------------------------------------
(* The theorems *)

LEMMA RecoveryIsSafe == RecoveryInv => RecoveryIsMeasured /\ OnePrompt /\ PollingLives
BY DEF RecoveryInv, Counted, RecoveryIsMeasured

\* A recovery reads no app more often than its budget, overwrites nothing newer, keeps one
\* prompt of a signer open at a time, and never stops polling (hooks/useAppRecovery.ts).
THEOREM RecoveryStaysPaced == RecoverySpec => [](RecoveryIsMeasured /\ OnePrompt /\ PollingLives)
<1>1. RecoveryInit => RecoveryInv
  BY InitRecovery
<1>2. RecoveryInv /\ [RecoveryNext]_recoveryVars => RecoveryInv'
  BY RecoveryStep
<1>3. RecoveryInv => RecoveryIsMeasured /\ OnePrompt /\ PollingLives
  BY RecoveryIsSafe
<1>4. QED
  BY <1>1, <1>2, <1>3, PTL DEF RecoverySpec

\* A setup pays a second time only if it could not know that it had paid, and its overlay is
\* about the connected wallet (hooks/useAccountSetup.ts).
THEOREM SetupsPayOnce == SetupSpec => [](PaysOnce /\ OverlayIsCurrent)
<1>1. SetupInit => SetupInv
  BY InitSetup
<1>2. SetupInv /\ [SetupNext]_setupVars => SetupInv'
  BY SetupStep
<1>3. SetupInv => PaysOnce /\ OverlayIsCurrent
  BY SetupIsSafe
<1>4. QED
  BY <1>1, <1>2, <1>3, PTL DEF SetupSpec

\* A tab whose writes are all saved shows the registry as it is, unless the event that will
\* tell it is on its way (registry/appRegistry.ts).
THEOREM TabsShowTheRegistry == RegistrySpec => []RenderedIsCurrent
<1>1. RegistryInit => ShownInv
  BY InitShown
<1>2. ShownInv /\ [RegistryNext]_appVars => ShownInv'
  BY ShownStep
<1>3. ShownInv => RenderedIsCurrent
  BY DEF ShownInv
<1>4. QED
  BY <1>1, <1>2, <1>3, PTL DEF RegistrySpec

\* What is deployed is what the card showed, the summary tells of every app in one way, and
\* a confirmed plan is refused as changed only if something did change (planBatchDeploy, twice,
\* computePlanHash, runBatchWithConcurrency and summarizeBatchResult).
THEOREM DeploysKeepTheirWord == DeploySpec => [](DeploysAsShown /\ EntriesAccounted /\ UnchangedPlanStands)
<1>1. DeployInit => DeployInv
  BY DeployStartsSafely
<1>2. DeployInv /\ [DeployNext]_deployVars => DeployInv'
  BY DeployStepsSafely
<1>3. DeployInv => DeploysAsShown /\ EntriesAccounted /\ UnchangedPlanStands
  BY DeployAnswers
<1>4. QED
  BY <1>1, <1>2, <1>3, PTL DEF DeploySpec

-----------------------------------------------------------------------------
\* Of the components that are put side by side only the chosen one moves.
LEMMA PartStays ==
  ASSUME PartsNext
  PROVE  /\ part' = part
         /\ part = "registry" => RegistryActs
         /\ part = "deploys" => DeployActs
         /\ part = "setup" => SetupActs
         /\ part = "recovery" => RecoveryActs
<1>1. ChatActs => part = "chat" /\ part' = part
  BY DEF ChatActs, ChatPart, ChatAlone
<1>2. RegistryActs => part = "registry" /\ part' = part
  BY DEF RegistryActs, RegistryPart, RegistryAlone
<1>3. DeployActs => part = "deploys" /\ part' = part
  BY DEF DeployActs, DeploysPart, DeploysAlone
<1>4. SetupActs => part = "setup" /\ part' = part
  BY DEF SetupActs, SetupPart, SetupAlone
<1>5. RecoveryActs => part = "recovery" /\ part' = part
  BY DEF RecoveryActs, RecoveryPart, RecoveryAlone
<1>6. QED
  BY <1>1, <1>2, <1>3, <1>4, <1>5 DEF PartsNext

LEMMA PartMoves ==
  ASSUME [PartsNext]_partsVars
  PROVE  /\ part' = part
         /\ part = "registry" => [RegistryNext]_appVars
         /\ part = "deploys" => [DeployNext]_deployVars
         /\ part = "setup" => [SetupNext]_setupVars
         /\ part = "recovery" => [RecoveryNext]_recoveryVars
<1>1. RegistryActs => RegistryNext
  BY DEF RegistryActs, RegistryNext
<1>2. SetupActs => SetupNext
  BY DEF SetupActs, SetupNext, Resumes
<1>3. RecoveryActs => RecoveryNext
  BY DEF RecoveryActs, RecoveryNext
<1>4. part = "deploys" /\ DeployActs => DeployNext
  BY DEF DeployActs, DeployNext
<1>5. CASE UNCHANGED partsVars
  BY <1>5 DEF partsVars
<1>6. CASE PartsNext
  BY <1>1, <1>2, <1>3, <1>4, <1>6, PartStays
<1>7. QED
  BY <1>5, <1>6

\* The chat store moves in its own part, and keeps its initial state in the others.
LEMMA ChatMoves == [PartsNext]_partsVars => [Next]_vars
<1>1. ChatActs => Next
  BY DEF ChatActs, Next, UserActs, Continues
<1>2. RegistryActs => vars' = vars
  BY DEF RegistryActs, RegistryAlone
<1>3. DeployActs => vars' = vars
  BY DEF DeployActs, DeploysAlone
<1>4. SetupActs => vars' = vars
  BY DEF SetupActs, SetupAlone
<1>5. RecoveryActs => vars' = vars
  BY DEF RecoveryActs, RecoveryAlone
<1>6. partsVars' = partsVars => vars' = vars
  BY DEF partsVars
<1>7. QED
  BY <1>1, <1>2, <1>3, <1>4, <1>5, <1>6 DEF PartsNext

\* RecoveryIsPaced, as the run of all the parts checks it.
THEOREM RecoveryHoldsAside == PartsSpec => []RecoveryIsPaced
<1> DEFINE Inv == part = "recovery" => RecoveryInv
<1>1. PartsInit => Inv
  BY InitRecovery DEF PartsInit
<1>2. Inv /\ [PartsNext]_partsVars => Inv'
  BY PartMoves, RecoveryStep
<1>3. Inv => RecoveryIsPaced
  BY RecoveryIsSafe DEF RecoveryIsPaced
<1>4. QED
  BY <1>1, <1>2, <1>3, PTL DEF PartsSpec

\* SetupIsCareful, as the run of all the parts checks it.
THEOREM SetupHoldsAside == PartsSpec => []SetupIsCareful
<1> DEFINE Inv == part = "setup" => SetupInv
<1>1. PartsInit => Inv
  BY InitSetup DEF PartsInit
<1>2. Inv /\ [PartsNext]_partsVars => Inv'
  BY PartMoves, SetupStep
<1>3. Inv => SetupIsCareful
  BY SetupIsSafe DEF SetupIsCareful
<1>4. QED
  BY <1>1, <1>2, <1>3, PTL DEF PartsSpec

\* RegistryIsShown, as the run of all the parts checks it.
THEOREM RegistryHoldsAside == PartsSpec => []RegistryIsShown
<1> DEFINE Inv == part = "registry" => ShownInv
<1>1. PartsInit => Inv
  BY InitShown DEF PartsInit
<1>2. Inv /\ [PartsNext]_partsVars => Inv'
  BY PartMoves, ShownStep
<1>3. Inv => RegistryIsShown
  BY DEF RegistryIsShown, ShownInv
<1>4. QED
  BY <1>1, <1>2, <1>3, PTL DEF PartsSpec

\* DeploysAreTold, as the run of all the parts checks it.
THEOREM DeploysHoldAside == PartsSpec => []DeploysAreTold
<1> DEFINE Inv == part = "deploys" => DeployInv
<1>1. PartsInit => Inv
  BY DeployStartsSafely DEF PartsInit
<1>2. Inv /\ [PartsNext]_partsVars => Inv'
  BY PartMoves, DeployStepsSafely
<1>3. Inv => DeploysAreTold
  BY DeployAnswers DEF DeploysAreTold
<1>4. QED
  BY <1>1, <1>2, <1>3, PTL DEF PartsSpec

\* What each part keeps about its state, all of it inductive.
PartsInv ==
  /\ ChatInv /\ Files /\ Cached /\ RowsToCome
  /\ part = "registry" => RegistryInv
  /\ part = "deploys" => DeployInv
  /\ part = "setup" => SetupInv /\ StoresAreTyped
  /\ part = "recovery" => RecoveryInv /\ AttemptsAreBounded

LEMMA PartsBegin == PartsInit => PartsInv
<1>1. Init => ChatInv /\ Files /\ Cached
  BY ChatInit, FilesInit
<1>2. Init => RowsToCome
  BY DEF Init, RowsToCome
<1>3. QED
  BY <1>1, <1>2, RegistryStarts, DeployStartsSafely, InitSetup, StoresBegin, InitRecovery, AttemptsBegin
  DEF PartsInit, PartsInv

LEMMA PartsKeep == PartsInv /\ [PartsNext]_partsVars => PartsInv'
<1> SUFFICES ASSUME PartsInv, [PartsNext]_partsVars PROVE PartsInv'
  OBVIOUS
<1>1. ChatInv' /\ Files' /\ Cached' /\ RowsToCome'
  BY ChatMoves, ChatNext, FilesNext, StepsKeep DEF PartsInv
<1>2. part = "registry" => RegistryInv'
  BY PartMoves, RegistrySteps DEF PartsInv
<1>3. part = "deploys" => DeployInv'
  BY PartMoves, DeployStepsSafely DEF PartsInv
<1>4. part = "setup" => SetupInv' /\ StoresAreTyped'
  BY PartMoves, SetupStep, StoresStayTyped DEF PartsInv
<1>5. part = "recovery" => RecoveryInv' /\ AttemptsAreBounded'
  BY PartMoves, RecoveryStep, AttemptsStayBounded DEF PartsInv
<1>6. part' = part
  BY PartMoves
<1>7. QED
  BY <1>1, <1>2, <1>3, <1>4, <1>5, <1>6 DEF PartsInv

\* OneLiveCard, as the run of all the parts checks it (setSingleConfirmation, sendMessage).
THEOREM CardsHoldAside == PartsSpec => []OneLiveCard
<1>1. PartsInv => OneLiveCard
  BY CardsAnswer DEF PartsInv
<1>2. QED
  BY <1>1, PartsBegin, PartsKeep, PTL DEF PartsSpec

\* PartsTypeOK, as the run of all the parts checks it: whatever moves stays of its type, and
\* every status that the registry lists is the one its observations give.
THEOREM PartsStayTyped == PartsSpec => []PartsTypeOK
<1>1. PartsInit => PartsInv
  BY PartsBegin
<1>2. PartsInv /\ [PartsNext]_partsVars => PartsInv'
  BY PartsKeep
<1>3. PartsInv => PartsTypeOK
  BY ChatIsTyped, RegistryIsTyped, DeployIsTyped, SetupIsTyped, RecoveryIsTyped DEF PartsInv, PartsTypeOK
<1>4. QED
  BY <1>1, <1>2, <1>3, PTL DEF PartsSpec

\* NothingIsTakenBack, as the run of all the parts checks it: a row of the chat that is closed
\* stays as it is (stores/aiStore.ts), a tab's unsaved registry changes by its own command and
\* pass only, a pass leaves what was recorded while it read the chain (registry/appRegistry.ts),
\* and a list of tiers that was loaded stays (stores/aiActions/skuTiers.ts).
THEOREM SettledStays == PartsSpec => NothingIsTakenBack
<1> DEFINE Untaken == /\ KeepsClosed
                      /\ part = "registry" => KeepsUnsaved /\ KeepsNewer
                      /\ part = "deploys" => KeepsTiers
<1>1. PartsInit => PartsInv
  BY PartsBegin
<1>2. PartsInv /\ [PartsNext]_partsVars => PartsInv'
  BY PartsKeep
<1>3. PartsInv /\ [PartsNext]_partsVars => [Untaken]_partsVars
  <2> SUFFICES ASSUME PartsInv, [PartsNext]_partsVars PROVE Untaken
    OBVIOUS
  <2>1. KeepsClosed
    BY ChatMoves, StepsKeep DEF PartsInv
  <2>2. part = "registry" => KeepsUnsaved /\ KeepsNewer
    BY PartMoves, UnsavedStays, RecordedStays DEF PartsInv
  <2>3. part = "deploys" => KeepsTiers
    BY PartMoves, DeployStepsSafely DEF PartsInv
  <2>4. QED
    BY <2>1, <2>2, <2>3
<1>4. QED
  BY <1>1, <1>2, <1>3, PTL DEF PartsSpec, NothingIsTakenBack

=============================================================================
