---------------------------- MODULE AppRecovery ----------------------------
(***************************************************************************)
(* The background reads that find out how a wallet's apps are doing:       *)
(* hooks/useAppRecovery.ts and hooks/useVisibilityPolling.ts, which decide *)
(* when which app is read, and hydrateDiscoveredApp of api/appDiscovery.ts,*)
(* which reads it.                                                         *)
(*                                                                         *)
(* One round runs at a time.  It signs for two credentials and reads two   *)
(* endpoints, and a signature that was asked for cannot be called back.    *)
(* What an app is known to be is reduced to what is left to find out; a    *)
(* snapshot is reduced to whether the app still is as it was.              *)
(***************************************************************************)
EXTENDS Integers

CONSTANTS
  RecoveryLeases,
  FirstNeeds,          \* what is left to find out of each to begin with
  ShortBudget,         \* APP_RECOVERY_MAX_ATTEMPTS
  LongBudget,          \* APP_CONNECTION_RECOVERY_MAX_ATTEMPTS
  Pause,               \* AUTO_REFRESH_INTERVAL_MS
  LongPause,           \* APP_CONNECTION_RECOVERY_INTERVAL_MS
  \* bounds of the exploration
  MaxStirs,            \* what users and other writers of the registry do
  MaxSigners

ASSUME RecoveryAssumption ==
  /\ FirstNeeds \in [RecoveryLeases -> {"short", "long"}]
  /\ {ShortBudget, LongBudget, Pause, LongPause, MaxSigners} \subseteq Nat \ {0}
  /\ ShortBudget <= LongBudget /\ MaxStirs \in Nat

VARIABLES
  needs,       \* needs[l]: what is left to find out of l; "gone" when it is not in the registry
  attempts,    \* attempts[l]: the retry budget of l
  round,       \* the round under way
  poll,        \* [on, hidden, timer, ticking]: the polling of the page
  busy,        \* a turn, a transaction or an open card holds the foreground
  recoverySigner, \* the signing context, counted by authorization epochs
  mints,       \* mints[s]: signatures asked of s that are outstanding
  stirs,
  \* observers
  spent,       \* spent[l]: rounds of l that ran to their end since its budget began
  allowed,     \* allowed[l]: what that budget is
  overwritten  \* an observation replaced something newer

recoveryVars == <<needs, attempts, round, poll, busy, recoverySigner, mints, stirs, spent, allowed, overwritten>>
observers == <<spent, allowed, overwritten>>

(* "short" and "long": eligible, the latter for a readiness or a           *)
(* connection that is known to be stale, which may take longer.            *)
Needs == {"nothing", "short", "long", "gone"}
Eligible(l) == needs[l] \in {"short", "long"}
Allowance(need) == IF need = "long" THEN LongBudget ELSE ShortBudget

(* known: the attempt is about the app as it is.  wait: the time until the *)
(* next attempt; Never for an app not yet attempted, which comes first.    *)
Never == -2
Overdue == -1
NoAttempt == [tries |-> -1, max |-> 0, wait |-> Never, known |-> FALSE, retired |-> FALSE]
FirstAttempt(l) == [tries |-> 0, max |-> Allowance(needs[l]), wait |-> Never, known |-> TRUE, retired |-> FALSE]

(* same: the app is as it was when the round began, or as the round wrote  *)
(* it; mine: the tick that waits for the round is of the polling that is   *)
(* on.                                                                     *)
NoRound == [step |-> "idle"]
NewRound(l) == [step |-> "auth", lease |-> l, signer |-> recoverySigner, same |-> TRUE, aborted |-> FALSE, mine |-> TRUE,
                complete |-> FALSE]
On(l) == round # NoRound /\ round.lease = l
RoundAt(step) == round.step = step /\ ~round.aborted

----------------------------------------------------------------------------
(* The driver.                                                             *)

(* The map after the scan: leases that left are forgotten, an app that     *)
(* changed begins anew, and a budget only grows.                           *)
Scanned ==
  [l \in RecoveryLeases |->
     CASE needs[l] = "gone" -> NoAttempt
       [] needs[l] = "nothing" -> attempts[l]
       [] Eligible(l) /\ ~attempts[l].known -> FirstAttempt(l)
       [] Eligible(l) /\ attempts[l].known ->
            [attempts[l] EXCEPT !.max = IF Allowance(needs[l]) > @ THEN Allowance(needs[l]) ELSE @]]

RecoveryCandidate(l, a) == Eligible(l) /\ ~a[l].retired /\ a[l].tries < a[l].max /\ a[l].wait <= 0

(* hasPendingRecoveryAuthentication *)
Pending(s) == mints[s] > 0
MayScan == poll.on /\ ~busy /\ round = NoRound /\ ~Pending(recoverySigner)

(* recoveryAuthToken: never a second signature behind one of the same      *)
(* signer.                                                                 *)
Minted == IF Pending(recoverySigner) THEN mints ELSE [mints EXCEPT ![recoverySigner] = @ + 1]

(* A tick reads the app that waits longest, if one is due ...              *)
RoundBegins(l) ==
  /\ poll.timer /\ MayScan
  /\ RecoveryCandidate(l, Scanned)
  /\ \A k \in RecoveryLeases : RecoveryCandidate(k, Scanned) => Scanned[l].wait <= Scanned[k].wait
  /\ attempts' = [Scanned EXCEPT ![l].tries = @ + 1]
  /\ round' = NewRound(l)
  /\ mints' = Minted
  /\ poll' = [poll EXCEPT !.timer = FALSE, !.ticking = TRUE]
  /\ allowed' = [k \in RecoveryLeases |-> IF Scanned[k].max > allowed[k] THEN Scanned[k].max ELSE allowed[k]]
  /\ UNCHANGED <<needs, busy, recoverySigner, stirs, spent, overwritten>>

(* ... and has nothing to do otherwise, but has looked.                    *)
TickFindsNothing ==
  /\ poll.timer /\ MayScan
  /\ \A l \in RecoveryLeases : ~RecoveryCandidate(l, Scanned)
  /\ attempts' = Scanned
  /\ UNCHANGED <<needs, round, poll, busy, recoverySigner, mints, stirs>> /\ UNCHANGED observers

(* The end of a round is the end of its tick: the next one is due, unless  *)
(* the page is hidden or polls for another wallet by now.                  *)
Released ==
  /\ round' = NoRound
  /\ poll' = IF round.mine THEN [poll EXCEPT !.ticking = FALSE, !.timer = ~poll.hidden] ELSE poll

Delay(tries) == IF tries >= ShortBudget THEN LongPause ELSE Pause * 2 ^ (tries - 1)

(* An observation that still describes the app keeps the budget going.  An *)
(* attempt about the app as it was is dropped here, where the code drops   *)
(* it at the next scan, before it is read again.                           *)
RoundReturns ==
  /\ RoundAt("written") \/ RoundAt("failed")
  /\ LET l == round.lease
         kept == round.step = "written" /\ round.same
     IN  /\ attempts' =
              IF attempts[l].known \/ kept
              THEN [attempts EXCEPT ![l].wait = Delay(attempts[l].tries), ![l].known = TRUE,
                                    ![l].retired = IF kept THEN round.complete ELSE @]
              ELSE [attempts EXCEPT ![l] = NoAttempt]
         /\ spent' = [spent EXCEPT ![l] = @ + 1]
  /\ Released
  /\ UNCHANGED <<needs, busy, recoverySigner, mints, stirs, allowed, overwritten>>

(* A round that was aborted costs no attempt, but its app goes behind      *)
(* those that waited.  What it wrote is a change like any other.           *)
RoundUnwinds ==
  /\ round # NoRound /\ round.aborted
  /\ LET l == round.lease
     IN  /\ attempts' = IF attempts[l].known THEN [attempts EXCEPT ![l].tries = @ - 1, ![l].wait = 0]
                        ELSE [attempts EXCEPT ![l] = NoAttempt]
         /\ spent' = [spent EXCEPT ![l] = IF attempts[l].known THEN @ ELSE 0]
  /\ Released
  /\ UNCHANGED <<needs, busy, recoverySigner, mints, stirs, allowed, overwritten>>

----------------------------------------------------------------------------
(* hydrateDiscoveredApp.                                                   *)

Step(step) == round' = [round EXCEPT !.step = step]

(* A signature arrives or is refused.  The round that waits for its first  *)
(* one goes on to read, and asks for the second.                           *)
MintSettles(s) ==
  /\ mints[s] > 0
  /\ \/ /\ RoundAt("auth") /\ round.signer = s
        /\ \/ Step("reads") /\ UNCHANGED mints
           \/ Step("failed") /\ mints' = [mints EXCEPT ![s] = @ - 1]
     \/ /\ ~(RoundAt("auth") /\ round.signer = s)
        /\ mints' = [mints EXCEPT ![s] = @ - 1] /\ UNCHANGED round
  /\ UNCHANGED <<needs, attempts, poll, busy, recoverySigner, stirs>> /\ UNCHANGED observers

(* The deadline passes before the first signature; the wallet's prompt may *)
(* still be open.                                                          *)
AuthTimesOut ==
  /\ RoundAt("auth")
  /\ Step("failed")
  /\ UNCHANGED <<needs, attempts, poll, busy, recoverySigner, mints, stirs>> /\ UNCHANGED observers

\* Faulty variant of StillTheSame: what changed meanwhile is overwritten.
WritesAnyway == TRUE

(* Both reads have settled, with whatever they found: it is written unless *)
(* the app has changed meanwhile.  An app that serves no endpoints is      *)
(* complete although it would still be eligible.                           *)
StillTheSame == round.same
ReadsSettle ==
  /\ RoundAt("reads")
  /\ LET l == round.lease
     IN  \/ /\ ~StillTheSame
            /\ Step("failed")
            /\ UNCHANGED <<needs, attempts, overwritten>>
         \/ /\ StillTheSame
            /\ overwritten' = (overwritten \/ ~round.same)
            /\ \E need \in Needs \ {"gone"}, complete, changed \in BOOLEAN :
                 /\ complete => need = "short"
                 /\ changed \/ need = needs[l]
                 /\ needs' = [needs EXCEPT ![l] = need]
                 /\ attempts' = [attempts EXCEPT ![l].known = @ /\ ~changed]
                 /\ round' = [round EXCEPT !.step = "written", !.complete = complete]
  /\ UNCHANGED <<poll, busy, recoverySigner, mints, stirs, spent, allowed>>

----------------------------------------------------------------------------
(* What happens around it.                                                 *)

Stir == stirs < MaxStirs /\ stirs' = stirs + 1
RoundAborted == IF round = NoRound THEN round ELSE [round EXCEPT !.aborted = TRUE]

(* A transaction, another tab or the reconciliation writes the app, or     *)
(* removes it.  Its budget begins anew.                                    *)
AppChanges(l, need) ==
  /\ Stir
  /\ needs' = [needs EXCEPT ![l] = need]
  /\ attempts' = IF On(l) THEN [attempts EXCEPT ![l].known = FALSE] ELSE [attempts EXCEPT ![l] = NoAttempt]
  /\ round' = IF On(l) THEN [round EXCEPT !.same = FALSE] ELSE round
  /\ spent' = [spent EXCEPT ![l] = IF On(l) THEN -1 ELSE 0]
  /\ allowed' = [allowed EXCEPT ![l] = 0]
  /\ UNCHANGED <<poll, busy, recoverySigner, mints, overwritten>>

ForegroundBegins ==
  /\ Stir /\ ~busy
  /\ busy' = TRUE /\ round' = RoundAborted
  /\ UNCHANGED <<needs, attempts, poll, recoverySigner, mints>> /\ UNCHANGED observers

ForegroundEnds ==
  /\ busy /\ busy' = FALSE
  /\ UNCHANGED <<needs, attempts, round, poll, recoverySigner, mints, stirs>> /\ UNCHANGED observers

(* A new authorization epoch drops every budget and aborts the round.  The *)
(* epochs are counted where a signer begins one.                           *)
NewEpoch ==
  /\ attempts' = [l \in RecoveryLeases |-> NoAttempt]
  /\ spent' = [l \in RecoveryLeases |-> 0] /\ allowed' = [l \in RecoveryLeases |-> 0]
  /\ UNCHANGED <<needs, busy, mints, stirs, overwritten>>
NewSigner == recoverySigner < MaxSigners /\ recoverySigner' = recoverySigner + 1

SignerRenewed == poll.on /\ NewSigner /\ NewEpoch /\ round' = RoundAborted /\ UNCHANGED poll

(* The polling of a wallet ends with its connection; a tick under way ends *)
(* on its own and schedules nothing.                                       *)
Disconnect ==
  /\ poll.on /\ NewEpoch
  /\ poll' = [poll EXCEPT !.on = FALSE, !.timer = FALSE, !.ticking = FALSE]
  /\ round' = IF round = NoRound THEN NoRound ELSE [round EXCEPT !.aborted = TRUE, !.mine = FALSE]
  /\ UNCHANGED recoverySigner

Reconnect ==
  /\ ~poll.on /\ NewSigner /\ NewEpoch
  /\ poll' = [poll EXCEPT !.on = TRUE, !.timer = ~poll.hidden]
  /\ UNCHANGED round

(* A hidden page does not poll, and a page that is shown again does so at  *)
(* once, unless a tick is still under way.                                 *)
HidePage ==
  /\ Stir /\ ~poll.hidden
  /\ poll' = [poll EXCEPT !.hidden = TRUE, !.timer = FALSE]
  /\ UNCHANGED <<needs, attempts, round, busy, recoverySigner, mints>> /\ UNCHANGED observers

ShowPage ==
  /\ poll.hidden
  /\ poll' = [poll EXCEPT !.hidden = FALSE, !.timer = poll.on /\ ~poll.ticking]
  /\ UNCHANGED <<needs, attempts, round, busy, recoverySigner, mints, stirs>> /\ UNCHANGED observers

TimePasses ==
  /\ \E l \in RecoveryLeases : attempts[l].wait > Overdue
  /\ attempts' = [l \in RecoveryLeases |-> [attempts[l] EXCEPT !.wait = IF @ > Overdue THEN @ - 1 ELSE @]]
  /\ UNCHANGED <<needs, round, poll, busy, recoverySigner, mints, stirs>> /\ UNCHANGED observers

----------------------------------------------------------------------------
RecoveryInit ==
  /\ needs = FirstNeeds
  /\ attempts = [l \in RecoveryLeases |-> NoAttempt]
  /\ round = NoRound
  /\ poll = [on |-> TRUE, hidden |-> FALSE, timer |-> TRUE, ticking |-> FALSE]
  /\ busy = FALSE /\ recoverySigner = 1 /\ stirs = 0
  /\ mints = [s \in 1..MaxSigners |-> 0]
  /\ spent = [l \in RecoveryLeases |-> 0] /\ allowed = [l \in RecoveryLeases |-> 0]
  /\ overwritten = FALSE

RoundSteps == RoundReturns \/ RoundUnwinds \/ AuthTimesOut \/ ReadsSettle
Ticks == TickFindsNothing \/ \E l \in RecoveryLeases : RoundBegins(l)

RecoveryNext ==
  \/ \E l \in RecoveryLeases : RoundBegins(l) \/ \E need \in Needs : AppChanges(l, need)
  \/ TickFindsNothing \/ RoundReturns \/ RoundUnwinds \/ AuthTimesOut \/ ReadsSettle
  \/ \E s \in 1..MaxSigners : MintSettles(s)
  \/ ForegroundBegins \/ ForegroundEnds
  \/ SignerRenewed \/ Disconnect \/ Reconnect \/ HidePage \/ ShowPage \/ TimePasses

(* Timers fire, reads end by their deadlines, and wallets answer or close  *)
(* their prompts.                                                          *)
RecoveryFairness ==
  /\ WF_recoveryVars(RoundSteps) /\ WF_recoveryVars(Ticks) /\ WF_recoveryVars(TimePasses)
  /\ \A s \in 1..MaxSigners : WF_recoveryVars(MintSettles(s))

RecoverySpec == RecoveryInit /\ [][RecoveryNext]_recoveryVars /\ RecoveryFairness

----------------------------------------------------------------------------
RecoveryTypeOK ==
  /\ needs \in [RecoveryLeases -> Needs]
  /\ \A l \in RecoveryLeases : attempts[l].tries \in -1..LongBudget /\ attempts[l].max \in 0..LongBudget
  /\ round # NoRound => round.lease \in RecoveryLeases /\ round.step \in {"auth", "reads", "written", "failed"}
  /\ poll \in [on : BOOLEAN, hidden : BOOLEAN, timer : BOOLEAN, ticking : BOOLEAN]
  /\ busy \in BOOLEAN /\ recoverySigner \in 1..MaxSigners /\ mints \in [1..MaxSigners -> Nat]

(* An app that nobody else changes is read no more often than its budget   *)
(* allows, whatever the reads themselves write; an observation never       *)
(* replaces something newer than what it observed.                         *)
RecoveryIsMeasured ==
  /\ \A l \in RecoveryLeases : spent[l] <= allowed[l]
  /\ ~overwritten

(* No signature is ever queued behind another of the same signer, and no   *)
(* app pays an attempt for a signature asked on behalf of another: a round *)
(* that has not read yet has its own prompt open.                          *)
OnePrompt ==
  /\ \A s \in 1..MaxSigners : mints[s] <= 1
  /\ RoundAt("auth") => mints[round.signer] = 1

(* A page that is connected and shown polls: one tick is due or under way, *)
(* never both.                                                             *)
PollingLives == IF poll.on /\ ~poll.hidden THEN poll.timer # poll.ticking ELSE ~poll.timer

(* An app with something left to find out is read until it is known, or    *)
(* its budget is used up, while the page is shown and its foreground idle. *)
Wanted(l) ==
  /\ Eligible(l) /\ ~(attempts[l].known /\ (attempts[l].retired \/ attempts[l].tries >= attempts[l].max))
  /\ poll.on /\ ~poll.hidden /\ ~busy
RecoveryWaits == \E l \in RecoveryLeases : Wanted(l)
=============================================================================
