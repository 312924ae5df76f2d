---------------------------- MODULE AccountSetup ----------------------------
(***************************************************************************)
(* The setup of an account when its wallet connects: starter funds from    *)
(* the faucet, then a transaction that turns part of them into credits     *)
(* (hooks/useAccountSetup.ts, api/faucet.ts, utils/versionedStorage.ts).   *)
(*                                                                         *)
(* A run is a chain of awaits.  Each action is what one of them does when  *)
(* it resolves, up to the next; a run of a wallet that is no longer        *)
(* connected returns at its next resumption.  Funds asked for, by either   *)
(* kind of run, may arrive at any later time or never.                     *)
(***************************************************************************)
EXTENDS Integers, FiniteSets

(* What storage can hold for a wallet, as the facts a record states:       *)
(* setupCompleted or not (version 2), or what earlier versions noted of    *)
(* the faucet and of the funding.  No fact: no readable record.            *)
SetupFacts == {"setupCompleted", "setupOpen", "faucetTried", "faucetSucceeded", "faucetFailed", "funded"}

CONSTANTS
  SetupWallets, Nobody,
  PwrThreshold,        \* ACCOUNT_SETUP_PWR_THRESHOLD
  CreditThreshold,     \* ACCOUNT_SETUP_CREDIT_THRESHOLD
  CreditAmount,        \* ACCOUNT_SETUP_CREDIT_AMOUNT
  GasReserve,          \* ACCOUNT_SETUP_GAS_RESERVE
  DripAmount,          \* what the faucet sends
  Openings,            \* what the wallets may begin with: [pwr, credits, stored] of each
  \* bounds of the exploration
  MaxRuns, MaxUnread

ASSUME SetupAssumption ==
  /\ {PwrThreshold, CreditThreshold, CreditAmount, GasReserve, DripAmount} \subseteq Nat \ {0}
  /\ Openings \subseteq [SetupWallets -> [pwr : Nat, credits : Nat, stored : SUBSET SetupFacts]]
  /\ {MaxRuns, MaxUnread} \subseteq Nat
  /\ Nobody \notin SetupWallets

VARIABLES
  accounts,    \* accounts[w]: [pwr, credits] on the chain
  setupStored, \* setupStored[w]: the facts stored under the wallet's key
  connected,   \* the connected wallet, or Nobody
  signable,    \* its signing client is ready
  setups,      \* setups[r]: the run r
  overlay,     \* [shown, run]: the overlay, and the run that set it last
  dismissal,   \* a timer to hide the overlay is set
  drips,       \* faucet drips on their way: wallets
  fundings,    \* funding transactions on their way: <<run, try>>
  unreadable,  \* counts reads that failed
  \* observers
  landed,      \* fundings the chain executed
  blind        \* runs whose second look could not see the first funding

setupVars == <<accounts, setupStored, connected, signable, setups, overlay, dismissal, drips, fundings, unreadable, landed, blind>>

----------------------------------------------------------------------------
(* The record.  A record of version 0 may not say whether the faucet       *)
(* succeeded: having been tried counts.  Success or a funding counts as    *)
(* completed in version 2.                                                 *)
MigrateV0toV1(facts) ==
  IF facts \cap {"faucetSucceeded", "faucetFailed"} # {} THEN facts
  ELSE facts \cup {IF "faucetTried" \in facts THEN "faucetSucceeded" ELSE "faucetFailed"}
MigrateV1toV2(facts) ==
  IF facts \cap {"faucetSucceeded", "funded"} # {} THEN {"setupCompleted"} ELSE {"setupOpen"}

(* loadSetupData: the record of a wallet, brought up to date.              *)
Loaded(facts) ==
  IF facts = {} \/ facts \cap {"setupCompleted", "setupOpen"} # {} THEN facts
  ELSE MigrateV1toV2(MigrateV0toV1(facts))
KnownAsSetUp(w) == "setupCompleted" \in Loaded(setupStored[w])

SetupRuns == 1..MaxRuns
Steps == {"unborn", "balance", "early", "preDrip", "drip", "poll", "pause", "fresh", "funding", "wait", "recheck",
          "refunding", "over"}

(* wallet; new: not known as set up; pwr and before: what was read of its  *)
(* funds and credits; tries: drips asked for; alive: not aborted.          *)
NoSetup == [wallet |-> Nobody, step |-> "unborn", new |-> FALSE, pwr |-> 0, before |-> 0, tries |-> 0, alive |-> FALSE]

SetupAt(r, step) == setups[r].step = step /\ setups[r].alive
Turn(r, new) == setups' = [setups EXCEPT ![r] = new]
Goto(r, step) == Turn(r, [setups[r] EXCEPT !.step = step])

(* A run that is over needs nothing of what it read.                       *)
Returns(r) == Turn(r, [NoSetup EXCEPT !.wallet = setups[r].wallet, !.step = "over", !.alive = setups[r].alive])

Shows(r) == overlay' = [shown |-> TRUE, run |-> r]
Hides(r) == overlay' = [shown |-> FALSE, run |-> r]

ChainStays == UNCHANGED <<accounts, drips, fundings, landed>>
NoVerdict == UNCHANGED <<setupStored, dismissal>>
SameWallet == UNCHANGED <<connected, signable>>

(* A read fails.                                                           *)
ReadFailed == unreadable < MaxUnread /\ unreadable' = unreadable + 1

(* finishWithError: tried and not done; the overlay stays for a while.     *)
FinishWithError(r) ==
  /\ Returns(r) /\ Shows(r)
  /\ setupStored' = [setupStored EXCEPT ![setups[r].wallet] = {"setupOpen"}]
  /\ dismissal' = TRUE

(* A returning wallet is left as it was.                                   *)
LeaveAsIs(r) == Returns(r) /\ Hides(r) /\ NoVerdict

FailOrLeave(r) == IF setups[r].new THEN FinishWithError(r) ELSE LeaveAsIs(r)

Complete(r) ==
  /\ Returns(r) /\ Shows(r)
  /\ setupStored' = [setupStored EXCEPT ![setups[r].wallet] = {"setupCompleted"}]
  /\ dismissal' = TRUE

----------------------------------------------------------------------------
(* The wallet.                                                             *)

NoneAlive == [r \in SetupRuns |-> [setups[r] EXCEPT !.alive = FALSE]]
NextRun == CHOOSE r \in SetupRuns : setups[r].step = "unborn" /\ \A q \in SetupRuns : q < r => setups[q].step # "unborn"

(* The effect for another wallet: the old run is aborted, its timer        *)
(* cleared, and a run for the new wallet begins with the overlay hidden.   *)
ConnectWallet(w) ==
  /\ connected # w
  /\ setups[MaxRuns].step = "unborn"
  /\ connected' = w /\ signable' = FALSE
  /\ setups' = [NoneAlive EXCEPT ![NextRun] = [NoSetup EXCEPT !.wallet = w, !.step = "balance", !.alive = TRUE,
                                                            !.new = ~KnownAsSetUp(w)]]
  /\ Hides(NextRun) /\ dismissal' = FALSE
  /\ UNCHANGED <<setupStored, unreadable, blind>> /\ ChainStays

DisconnectWallet ==
  /\ connected # Nobody
  /\ connected' = Nobody /\ signable' = FALSE
  /\ setups' = NoneAlive
  /\ overlay' = [overlay EXCEPT !.shown = FALSE] /\ dismissal' = FALSE
  /\ UNCHANGED <<setupStored, unreadable, blind>> /\ ChainStays

SignerReady ==
  /\ connected # Nobody /\ ~signable
  /\ signable' = TRUE
  /\ UNCHANGED <<setupStored, connected, setups, overlay, dismissal, unreadable, blind>> /\ ChainStays

(* An aborted run returns at its next resumption and changes nothing.      *)
AbortedReturns(r) ==
  /\ setups[r].step \notin {"unborn", "over"} /\ ~setups[r].alive
  /\ Returns(r)
  /\ UNCHANGED <<setupStored, overlay, dismissal, unreadable, blind>> /\ ChainStays /\ SameWallet

DismissalFires ==
  /\ dismissal
  /\ dismissal' = FALSE /\ overlay' = [overlay EXCEPT !.shown = FALSE]
  /\ UNCHANGED <<setupStored, setups, unreadable, blind>> /\ ChainStays /\ SameWallet

----------------------------------------------------------------------------
(* The run.                                                                *)

Account(r) == accounts[setups[r].wallet]
Faucets(r, pwr) == pwr < PwrThreshold

(* The first balance: a wallet known as set up with funds is left alone,   *)
(* one without any is set up again.                                        *)
BalanceRead(r) ==
  /\ SetupAt(r, "balance")
  /\ \/ /\ setups[r].new
        /\ Turn(r, [setups[r] EXCEPT !.step = "early", !.pwr = Account(r).pwr])
        /\ UNCHANGED <<setupStored, overlay, dismissal, unreadable>>
     \/ /\ ~setups[r].new /\ Account(r).pwr = 0
        /\ Turn(r, [setups[r] EXCEPT !.step = "early", !.new = TRUE, !.pwr = 0])
        /\ setupStored' = [setupStored EXCEPT ![setups[r].wallet] = {}]
        /\ Shows(r) /\ UNCHANGED <<dismissal, unreadable>>
     \/ ~setups[r].new /\ Account(r).pwr > 0 /\ LeaveAsIs(r) /\ UNCHANGED unreadable
     \/ ReadFailed /\ FailOrLeave(r)
  /\ UNCHANGED blind /\ ChainStays /\ SameWallet

(* Any credit means that the account was set up elsewhere; a read that     *)
(* fails does not.                                                         *)
EarlyCreditRead(r) ==
  /\ SetupAt(r, "early")
  /\ \/ /\ Account(r).credits > 0
        /\ Returns(r) /\ Hides(r)
        /\ setupStored' = [setupStored EXCEPT ![setups[r].wallet] = {"setupCompleted"}]
        /\ UNCHANGED <<dismissal, unreadable>>
     \/ /\ (Account(r).credits = 0 /\ UNCHANGED unreadable) \/ ReadFailed
        /\ Goto(r, IF Faucets(r, setups[r].pwr) THEN "preDrip" ELSE "fresh")
        /\ Shows(r) /\ NoVerdict
  /\ UNCHANGED blind /\ ChainStays /\ SameWallet

(* A drip that failed is tried once more after a pause.                    *)
DripFailed(r) ==
  IF setups[r].tries = 0
  THEN Turn(r, [setups[r] EXCEPT !.step = "pause", !.tries = 1]) /\ Shows(r) /\ NoVerdict
  ELSE FinishWithError(r)

(* faucetDripAndVerify: the balance before the drip, ...                   *)
PreDripRead(r) ==
  /\ SetupAt(r, "preDrip")
  /\ \/ /\ Turn(r, [setups[r] EXCEPT !.step = "drip", !.before = Account(r).pwr])
        /\ UNCHANGED <<setupStored, overlay, dismissal, unreadable>>
     \/ ReadFailed /\ DripFailed(r)
  /\ UNCHANGED blind /\ ChainStays /\ SameWallet

(* ... the faucet's answer, which may be a refusal, ...                    *)
DripAnswered(r) ==
  /\ SetupAt(r, "drip")
  /\ \/ /\ drips' = drips \cup {setups[r].wallet}
        /\ Goto(r, "poll") /\ NoVerdict /\ UNCHANGED overlay
     \/ DripFailed(r) /\ UNCHANGED drips
  /\ UNCHANGED <<accounts, fundings, landed, unreadable, blind>> /\ SameWallet

(* ... and polls until the balance has risen or time is up.                *)
PollEnds(r) ==
  /\ SetupAt(r, "poll")
  /\ \/ Account(r).pwr > setups[r].before /\ Goto(r, "fresh") /\ NoVerdict /\ UNCHANGED <<overlay, unreadable>>
     \/ Account(r).pwr <= setups[r].before /\ DripFailed(r) /\ UNCHANGED unreadable
     \/ ReadFailed /\ DripFailed(r)
  /\ UNCHANGED blind /\ ChainStays /\ SameWallet

PauseEnds(r) ==
  /\ SetupAt(r, "pause")
  /\ Goto(r, "preDrip") /\ Shows(r) /\ NoVerdict
  /\ UNCHANGED <<unreadable, blind>> /\ ChainStays /\ SameWallet

(* fundCredits: without a signing client it throws at once, which counts   *)
(* as a failed funding.                                                    *)
SubmitFunding(r, n) ==
  IF signable THEN fundings' = fundings \cup {<<r, n>>} ELSE UNCHANGED fundings

(* Funds and credits are read together, once the funds should be there.    *)
(* Too few credits are topped up if the funds pay for them and the gas.    *)
FreshRead(r) ==
  /\ SetupAt(r, "fresh")
  /\ \/ /\ Account(r).credits >= CreditThreshold
        /\ Complete(r) /\ UNCHANGED <<fundings, unreadable>>
     \/ /\ Account(r).credits < CreditThreshold /\ Account(r).pwr < CreditAmount + GasReserve
        /\ FinishWithError(r) /\ UNCHANGED <<fundings, unreadable>>
     \/ /\ Account(r).credits < CreditThreshold /\ Account(r).pwr >= CreditAmount + GasReserve
        /\ Turn(r, [setups[r] EXCEPT !.step = "funding", !.before = Account(r).credits])
        /\ SubmitFunding(r, 1) /\ Shows(r) /\ NoVerdict /\ UNCHANGED unreadable
     \/ ReadFailed /\ FailOrLeave(r) /\ UNCHANGED fundings
  /\ UNCHANGED <<accounts, drips, landed, blind>> /\ SameWallet

(* The answer of a funding: executed, refused (it will never land), or     *)
(* lost, whatever became of it.                                            *)
FundingAnswered(r) ==
  /\ SetupAt(r, "funding")
  /\ \/ <<r, 1>> \in landed /\ Complete(r) /\ UNCHANGED fundings
     \/ /\ fundings' = fundings \ {<<r, 1>>}
        /\ <<r, 1>> \in fundings
        /\ Goto(r, "wait") /\ Shows(r) /\ NoVerdict
     \/ Goto(r, "wait") /\ Shows(r) /\ NoVerdict /\ UNCHANGED fundings
  /\ UNCHANGED <<accounts, drips, landed, unreadable, blind>> /\ SameWallet

RetryDelayEnds(r) ==
  /\ SetupAt(r, "wait")
  /\ Goto(r, "recheck") /\ NoVerdict
  /\ UNCHANGED <<overlay, unreadable, blind>> /\ ChainStays /\ SameWallet

\* Faulty variant of HasRisen: the amount of the funding itself does not count.
HasRisenBeyond(before, credits) == credits > before + CreditAmount

(* Before it pays again the run looks whether the first funding landed:    *)
(* the credits have risen since they were read.  A look that fails stops   *)
(* nothing.                                                                *)
HasRisen(before, credits) == credits > before
CreditRecheck(r) ==
  /\ SetupAt(r, "recheck")
  /\ \/ /\ HasRisen(setups[r].before, Account(r).credits)
        /\ Complete(r) /\ UNCHANGED <<fundings, unreadable, blind>>
     \/ /\ \/ ~HasRisen(setups[r].before, Account(r).credits) /\ UNCHANGED unreadable
              /\ blind' = IF <<r, 1>> \in fundings THEN blind \cup {r} ELSE blind
           \/ ReadFailed /\ blind' = blind \cup {r}
        /\ Goto(r, "refunding") /\ SubmitFunding(r, 2) /\ Shows(r) /\ NoVerdict
  /\ UNCHANGED <<accounts, drips, landed>> /\ SameWallet

RefundingAnswered(r) ==
  /\ SetupAt(r, "refunding")
  /\ \/ <<r, 2>> \in landed /\ Complete(r) /\ UNCHANGED fundings
     \/ fundings' = fundings \ {<<r, 2>>} /\ FinishWithError(r)
     \/ FinishWithError(r) /\ UNCHANGED fundings
  /\ UNCHANGED <<accounts, drips, landed, unreadable, blind>> /\ SameWallet

----------------------------------------------------------------------------
(* The chain.                                                              *)

DripLands(w) ==
  /\ w \in drips
  /\ drips' = drips \ {w}
  /\ \E arrives \in BOOLEAN :
       accounts' = IF arrives THEN [accounts EXCEPT ![w].pwr = @ + DripAmount] ELSE accounts
  /\ UNCHANGED <<setupStored, setups, overlay, dismissal, fundings, unreadable, landed, blind>> /\ SameWallet

(* A transaction that cannot be paid for is dropped.                       *)
FundingLands(r, n) ==
  /\ <<r, n>> \in fundings
  /\ fundings' = fundings \ {<<r, n>>}
  /\ LET w == setups[r].wallet
     IN  IF accounts[w].pwr >= CreditAmount + GasReserve
         THEN /\ accounts' = [accounts EXCEPT ![w] = [pwr |-> @.pwr - CreditAmount - GasReserve,
                                                      credits |-> @.credits + CreditAmount]]
              /\ landed' = landed \cup {<<r, n>>}
         ELSE UNCHANGED <<accounts, landed>>
  /\ UNCHANGED <<setupStored, setups, overlay, dismissal, drips, unreadable, blind>> /\ SameWallet

----------------------------------------------------------------------------
SetupInit ==
  /\ \E opening \in Openings :
       /\ accounts = [w \in SetupWallets |-> [pwr |-> opening[w].pwr, credits |-> opening[w].credits]]
       /\ setupStored = [w \in SetupWallets |-> opening[w].stored]
  /\ connected = Nobody /\ signable = FALSE
  /\ setups = [r \in SetupRuns |-> NoSetup]
  /\ overlay = [shown |-> FALSE, run |-> 0] /\ dismissal = FALSE
  /\ drips = {} /\ fundings = {} /\ unreadable = 0
  /\ landed = {} /\ blind = {}

Resumes(r) ==
  \/ AbortedReturns(r) \/ BalanceRead(r) \/ EarlyCreditRead(r) \/ PreDripRead(r) \/ DripAnswered(r) \/ PollEnds(r)
  \/ PauseEnds(r) \/ FreshRead(r) \/ FundingAnswered(r) \/ RetryDelayEnds(r) \/ CreditRecheck(r)
  \/ RefundingAnswered(r)

SetupNext ==
  \/ \E w \in SetupWallets : ConnectWallet(w) \/ DripLands(w)
  \/ DisconnectWallet \/ SignerReady \/ DismissalFires
  \/ \E r \in SetupRuns : Resumes(r) \/ FundingLands(r, 1) \/ FundingLands(r, 2)

(* Reads and answers end, by an answer or by the time limits of the        *)
(* clients below, and timers fire.                                         *)
SetupFairness ==
  /\ \A r \in SetupRuns : WF_setupVars(Resumes(r))
  /\ WF_setupVars(DismissalFires)

SetupSpec == SetupInit /\ [][SetupNext]_setupVars /\ SetupFairness

----------------------------------------------------------------------------
SetupTypeOK ==
  /\ accounts \in [SetupWallets -> [pwr : Nat, credits : Nat]]
  /\ setupStored \in [SetupWallets -> SUBSET SetupFacts]
  /\ connected \in SetupWallets \cup {Nobody} /\ {signable, dismissal} \subseteq BOOLEAN
  /\ \A r \in SetupRuns : setups[r].step \in Steps /\ setups[r].wallet \in SetupWallets \cup {Nobody}
  /\ drips \subseteq SetupWallets /\ fundings \cup landed \subseteq SetupRuns \X {1, 2}
  /\ blind \subseteq SetupRuns

(* A run pays twice only if it could not know that it had paid: its second *)
(* look failed, or came before the first funding landed.  A lost answer    *)
(* alone costs no second payment.                                          *)
PaysOnce == \A r \in SetupRuns : {<<r, 1>>, <<r, 2>>} \subseteq landed => r \in blind

(* The overlay tells of the connected wallet: a run of a wallet that has   *)
(* been switched away from neither shows it nor hides it, and a timer to   *)
(* hide it is set only while it is shown.                                  *)
OverlayIsCurrent ==
  /\ overlay.shown => /\ connected # Nobody
                      /\ setups[overlay.run].wallet = connected /\ setups[overlay.run].alive
  /\ dismissal => overlay.shown

(* What must not last: an overlay, which covers the whole page.            *)
SetupWaits == overlay.shown
=============================================================================
