---------------------------- MODULE MCBrowserParts ----------------------------
(***************************************************************************)
(* Finite instances of five components of the browser that are modelled    *)
(* apart from each other: the transactions of the chat store, the app      *)
(* registry, the plans of deployments, the account setup and the recovery  *)
(* of apps.  One run explores them one at a time: part says which one      *)
(* moves in this behaviour, the others stay in their initial states.       *)
(*                                                                         *)
(* One wallet and a turn that plans one transaction, which may be          *)
(* overtaken by two more pieces of work and two changes of the wallet; two *)
(* tabs that share the record of one lease, one command and one mishap;    *)
(* batches of two and three apps whose names collide, on two tiers and two *)
(* providers, while one thing changes on the chain; two wallets, of which  *)
(* one is set up and one is not, two runs and one read that fails; two     *)
(* apps to recover, one with the short and one with the long budget, and   *)
(* two signers.                                                            *)
(***************************************************************************)
EXTENDS ChatStore, AppRegistry, DeployPlans, AccountSetup, AppRecovery, TLC

CONSTANTS small, gpuSmall, p1, p2, s1, s2, r1, r2

CallsOther == {<<"query", "other">>}

MCLimit == [commands |-> 1, mishaps |-> 1]

MCTiers == <<small, gpuSmall>>
MCProviders == <<p1, p2>>
\* "small" names the CPU tier first, but the GPU tier too; "large" names none.
MCMatches == [small |-> <<small, gpuSmall>>, large |-> <<>>] @@ (small :> <<small>> @@ gpuSmall :> <<gpuSmall>>)
MCCandidates == [web |-> <<"web", "web2">>, web2 |-> <<"web2", "web22">>, web22 |-> <<"web22">>]
DraftOf(name, size, domain, acceptable) == [name |-> name, size |-> size, domain |-> domain, acceptable |-> acceptable]
MCRequests ==
  { <<DraftOf("web", "small", TRUE, TRUE), DraftOf("web", "large", TRUE, TRUE)>>,
    <<DraftOf("web", NoSize, FALSE, FALSE), DraftOf("web2", "large", FALSE, TRUE), DraftOf("web", "small", TRUE, TRUE)>> }
MCCatalogs == {(small :> (p1 :> 1 @@ p2 :> 1)) @@ (gpuSmall :> (p1 :> NoOffer @@ p2 :> 0))}

MCSetupWallets == {s1, s2}
Opening(pwr, credits, stored_) == [pwr |-> pwr, credits |-> credits, stored |-> stored_]
MCOpenings ==
  { (s1 :> Opening(6, 0, {"faucetTried", "faucetFailed"}) @@ s2 :> Opening(2, 2, {"faucetTried"})),
    (s1 :> Opening(2, 2, {"setupCompleted"}) @@ s2 :> Opening(0, 0, {})),
    (s1 :> Opening(2, 2, {"setupCompleted"}) @@ s2 :> Opening(0, 0, {"faucetTried"})) }

MCRecoveryLeases == {r1, r2}
MCNeeds == r1 :> "short" @@ r2 :> "long"

VARIABLE part

partsVars == <<part, vars, appVars, deployVars, setupVars, recoveryVars>>

\* A component that is left out of a behaviour has no state; the first one, some of
\* whose properties are checked as they stand, keeps its initial state.
NoRegistry ==
  /\ stored = 0 /\ copy = 0 /\ rendered = 0 /\ due = 0
  /\ unsavedOnce = 0 /\ op = 0 /\ pass = 0 /\ lease = 0
  /\ dom = 0 /\ hasDeployment = 0 /\ mempool = 0 /\ events = 0
NoDeploys ==
  /\ chain = 0 /\ takenNames = 0 /\ tierList = 0 /\ plan = 0
  /\ card = 0 /\ run = 0 /\ signLock = 0 /\ stopped = 0
  /\ authorized = 0 /\ shifts = 0 /\ shifted = 0
NoSetups ==
  /\ accounts = 0 /\ setupStored = 0 /\ connected = 0 /\ signable = 0
  /\ setups = 0 /\ overlay = 0 /\ dismissal = 0 /\ drips = 0
  /\ fundings = 0 /\ unreadable = 0 /\ landed = 0 /\ blind = 0
NoRecovery ==
  /\ needs = 0 /\ attempts = 0 /\ round = 0 /\ poll = 0
  /\ busy = 0 /\ recoverySigner = 0 /\ mints = 0 /\ stirs = 0
  /\ spent = 0 /\ allowed = 0 /\ overwritten = 0

PartsInit ==
  /\ part \in {"chat", "registry", "deploys", "setup", "recovery"}
  /\ Init
  /\ IF part = "registry" THEN RegistryInit ELSE NoRegistry
  /\ IF part = "deploys" THEN DeployInit ELSE NoDeploys
  /\ IF part = "setup" THEN SetupInit ELSE NoSetups
  /\ IF part = "recovery" THEN RecoveryInit ELSE NoRecovery

ChatPart == part = "chat"
ChatAlone == UNCHANGED <<part, appVars, deployVars, setupVars, recoveryVars>>
RegistryPart == part = "registry"
RegistryAlone == UNCHANGED <<part, vars, deployVars, setupVars, recoveryVars>>
DeploysPart == part = "deploys"
DeploysAlone == UNCHANGED <<part, vars, appVars, setupVars, recoveryVars>>
SetupPart == part = "setup"
SetupAlone == UNCHANGED <<part, vars, appVars, deployVars, recoveryVars>>
RecoveryPart == part = "recovery"
RecoveryAlone == UNCHANGED <<part, vars, appVars, deployVars, setupVars>>

\* Next of ChatStore, RegistryNext, DeployNext, SetupNext and RecoveryNext, action by action.
ChatActs ==
  \/ \E address \in Wallets \cup {NoWallet}, client \in BOOLEAN : ChatPart /\ SetWalletContext(address, client) /\ ChatAlone
  \/ ChatPart /\ SendMessage /\ ChatAlone
  \/ ChatPart /\ RequestAppStatus /\ ChatAlone
  \/ ChatPart /\ RequestBatchDeploy /\ ChatAlone
  \/ ChatPart /\ RequestStopApp /\ ChatAlone
  \/ ChatPart /\ ReplanEditedBatch /\ ChatAlone
  \/ ChatPart /\ ConfirmAction /\ ChatAlone
  \/ ChatPart /\ CancelAction /\ ChatAlone
  \/ ChatPart /\ Stop /\ ChatAlone
  \/ ChatPart /\ ClearHistory /\ ChatAlone
  \/ ChatPart /\ ConfirmationTimeout /\ ChatAlone
  \/ \E w \in Ids :
       \/ ChatPart /\ Abandon(w) /\ ChatAlone
       \/ ChatPart /\ ModelFails(w) /\ ChatAlone
       \/ ChatPart /\ ModelAnswers(w) /\ ChatAlone
       \/ \E calls \in Calls : ChatPart /\ ModelCalls(w, calls) /\ ChatAlone
       \/ ChatPart /\ ToolStopped(w) /\ ChatAlone
       \/ ChatPart /\ ToolReports(w) /\ ChatAlone
       \/ ChatPart /\ ToolAsks(w) /\ ChatAlone
       \/ ChatPart /\ MergePlanned(w) /\ ChatAlone
       \/ ChatPart /\ MergeFails(w) /\ ChatAlone
       \/ ChatPart /\ MergeStopped(w) /\ ChatAlone
       \/ ChatPart /\ AppStatusReturns(w) /\ ChatAlone
       \/ ChatPart /\ BatchPlanned(w) /\ ChatAlone
       \/ ChatPart /\ BatchRefused(w) /\ ChatAlone
       \/ ChatPart /\ BatchReplanned(w) /\ ChatAlone
       \/ ChatPart /\ ReplanRefused(w) /\ ChatAlone
       \/ ChatPart /\ Submit(w) /\ ChatAlone
       \/ ChatPart /\ TransactionReturns(w) /\ ChatAlone
       \/ ChatPart /\ TransactionThrows(w) /\ ChatAlone
       \/ ChatPart /\ LateResult(w) /\ ChatAlone
       \/ ChatPart /\ FollowUpReturns(w) /\ ChatAlone

RegistryActs ==
  \/ \E t \in Tabs :
       \/ RegistryPart /\ PlanDeploy(t) /\ RegistryAlone
       \/ RegistryPart /\ DeployRefused(t) /\ RegistryAlone
       \/ RegistryPart /\ LeaseCreated(t) /\ RegistryAlone
       \/ RegistryPart /\ DeploySucceeds(t) /\ RegistryAlone
       \/ RegistryPart /\ DeployThrows(t) /\ RegistryAlone
       \/ RegistryPart /\ StopSubmits(t) /\ RegistryAlone
       \/ RegistryPart /\ StopRecords(t) /\ RegistryAlone
       \/ RegistryPart /\ DomainLands(t) /\ RegistryAlone
       \/ RegistryPart /\ DomainRecords(t) /\ RegistryAlone
       \/ RegistryPart /\ AnswerLost(t) /\ RegistryAlone
       \/ RegistryPart /\ StatusReads(t) /\ RegistryAlone
       \/ RegistryPart /\ StatusRecords(t) /\ RegistryAlone
       \/ RegistryPart /\ PassBegins(t) /\ RegistryAlone
       \/ RegistryPart /\ ListApps(t) /\ RegistryAlone
       \/ RegistryPart /\ PassReconciles(t) /\ RegistryAlone
       \/ RegistryPart /\ PassDiscovers(t) /\ RegistryAlone
       \/ RegistryPart /\ PassFails(t) /\ RegistryAlone
       \/ RegistryPart /\ StorageEvent(t) /\ RegistryAlone
       \/ RegistryPart /\ Reload(t) /\ RegistryAlone
       \/ \E l \in Leases :
            \/ RegistryPart /\ CreateLease(t, l) /\ RegistryAlone
            \/ RegistryPart /\ PlanStop(t, l) /\ RegistryAlone
            \/ RegistryPart /\ StatusStarts(t, l) /\ RegistryAlone
            \/ \E d \in Domains \cup {None} : RegistryPart /\ PlanDomain(t, l, d) /\ RegistryAlone
       \/ \E d \in Domains : RegistryPart /\ AttachInDeploy(t, d) /\ RegistryAlone
       \/ \E state \in {"active", "pending"} : RegistryPart /\ PassReads(t, state) /\ RegistryAlone
  \/ \E l \in Leases :
       \/ RegistryPart /\ ForeignLease(l) /\ RegistryAlone
       \/ RegistryPart /\ Acknowledge(l) /\ RegistryAlone
       \/ RegistryPart /\ LeaseEnds(l) /\ RegistryAlone
       \/ RegistryPart /\ CloseExecutes(l) /\ RegistryAlone

DeployActs ==
  \/ DeploysPart /\ LoadTiers /\ DeploysAlone
  \/ DeploysPart /\ RetryTiers /\ DeploysAlone
  \/ DeploysPart /\ FetchEnds /\ DeploysAlone
  \/ \E drafts \in Requests :
       \/ \E partial \in BOOLEAN : DeploysPart /\ PlanBatch(drafts, partial) /\ DeploysAlone
       \/ DeploysPart /\ PlanSingle(drafts[1]) /\ DeploysAlone
  \/ DeploysPart /\ ReadCatalog /\ DeploysAlone
  \/ DeploysPart /\ ReadDomains /\ DeploysAlone
  \/ DeploysPart /\ ReadCredits /\ DeploysAlone
  \/ DeploysPart /\ CheckDeploy /\ DeploysAlone
  \/ DeploysPart /\ Confirm /\ DeploysAlone
  \/ DeploysPart /\ StartEntry /\ DeploysAlone
  \/ DeploysPart /\ RunEnds /\ DeploysAlone
  \/ DeploysPart /\ OtherAsks /\ DeploysAlone
  \/ DeploysPart /\ WalletAnswers /\ DeploysAlone
  \/ \E i \in IF part = "deploys" THEN DOMAIN run.entries ELSE {} :
       \/ DeploysPart /\ LeaseLands(i) /\ DeploysAlone
       \/ DeploysPart /\ LeaseRefused(i) /\ DeploysAlone
       \/ DeploysPart /\ AskSignature(i) /\ DeploysAlone
       \/ DeploysPart /\ EntryEnds(i) /\ DeploysAlone
  \/ DeploysPart /\ StopDeploy /\ DeploysAlone
  \/ DeploysPart /\ AuthorizationEnds /\ DeploysAlone
  \/ DeploysPart /\ Shift /\ DeploysAlone

SetupActs ==
  \/ \E w \in SetupWallets :
       \/ SetupPart /\ ConnectWallet(w) /\ SetupAlone
       \/ SetupPart /\ DripLands(w) /\ SetupAlone
  \/ SetupPart /\ DisconnectWallet /\ SetupAlone
  \/ SetupPart /\ SignerReady /\ SetupAlone
  \/ SetupPart /\ DismissalFires /\ SetupAlone
  \/ \E r \in SetupRuns :
       \/ SetupPart /\ AbortedReturns(r) /\ SetupAlone
       \/ SetupPart /\ BalanceRead(r) /\ SetupAlone
       \/ SetupPart /\ EarlyCreditRead(r) /\ SetupAlone
       \/ SetupPart /\ PreDripRead(r) /\ SetupAlone
       \/ SetupPart /\ DripAnswered(r) /\ SetupAlone
       \/ SetupPart /\ PollEnds(r) /\ SetupAlone
       \/ SetupPart /\ PauseEnds(r) /\ SetupAlone
       \/ SetupPart /\ FreshRead(r) /\ SetupAlone
       \/ SetupPart /\ FundingAnswered(r) /\ SetupAlone
       \/ SetupPart /\ RetryDelayEnds(r) /\ SetupAlone
       \/ SetupPart /\ CreditRecheck(r) /\ SetupAlone
       \/ SetupPart /\ RefundingAnswered(r) /\ SetupAlone
       \/ \E n \in {1, 2} : SetupPart /\ FundingLands(r, n) /\ SetupAlone

RecoveryActs ==
  \/ \E l \in RecoveryLeases :
       \/ RecoveryPart /\ RoundBegins(l) /\ RecoveryAlone
       \/ \E need \in Needs : RecoveryPart /\ AppChanges(l, need) /\ RecoveryAlone
  \/ RecoveryPart /\ TickFindsNothing /\ RecoveryAlone
  \/ RecoveryPart /\ RoundReturns /\ RecoveryAlone
  \/ RecoveryPart /\ RoundUnwinds /\ RecoveryAlone
  \/ RecoveryPart /\ AuthTimesOut /\ RecoveryAlone
  \/ RecoveryPart /\ ReadsSettle /\ RecoveryAlone
  \/ \E s \in 1..MaxSigners : RecoveryPart /\ MintSettles(s) /\ RecoveryAlone
  \/ RecoveryPart /\ ForegroundBegins /\ RecoveryAlone
  \/ RecoveryPart /\ ForegroundEnds /\ RecoveryAlone
  \/ RecoveryPart /\ SignerRenewed /\ RecoveryAlone
  \/ RecoveryPart /\ Disconnect /\ RecoveryAlone
  \/ RecoveryPart /\ Reconnect /\ RecoveryAlone
  \/ RecoveryPart /\ HidePage /\ RecoveryAlone
  \/ RecoveryPart /\ ShowPage /\ RecoveryAlone
  \/ RecoveryPart /\ TimePasses /\ RecoveryAlone

PartsNext == ChatActs \/ RegistryActs \/ DeployActs \/ SetupActs \/ RecoveryActs

\* One step of the recurring pass of a tab.
PassSteps(t) ==
  \/ PassBegins(t) \/ PassReconciles(t) \/ PassDiscovers(t)
  \/ \E state \in {"active", "pending"} : PassReads(t, state)

\* The fairness of FairSpec, DeploySpec, SetupSpec and RecoverySpec, and less than that of
\* RegistrySpec: a pass goes on, in whatever order its reads are answered.  That the other
\* parts stay as they are is PartsNext's to say.
PartsSpec ==
  /\ PartsInit /\ [][PartsNext]_partsVars
  /\ WF_vars(ChatPart /\ ConfirmationTimeout)
  /\ \A w \in 1..MaxWork : WF_vars(ChatPart /\ w \in Ids /\ Continues(w))
  /\ \A t \in Shown : WF_pass(RegistryPart /\ PassSteps(t))
  /\ WF_deployVars(DeploysPart /\ FetchEnds)
  /\ WF_deployVars(DeploysPart /\ (ReadCatalog \/ ReadDomains \/ ReadCredits \/ CheckDeploy))
  /\ WF_deployVars(DeploysPart /\ (StartEntry \/ RunEnds))
  /\ WF_deployVars(DeploysPart /\ WalletAnswers)
  /\ WF_deployVars(/\ DeploysPart
                   /\ \E i \in DOMAIN run.entries :
                        LeaseLands(i) \/ LeaseRefused(i) \/ AskSignature(i) \/ EntryEnds(i))
  /\ \A r \in SetupRuns : WF_setups(SetupPart /\ Resumes(r))
  /\ WF_dismissal(SetupPart /\ DismissalFires)
  /\ WF_round(RecoveryPart /\ RoundSteps)
  /\ WF_recoveryVars(RecoveryPart /\ Ticks)
  /\ WF_attempts(RecoveryPart /\ TimePasses)
  /\ \A s \in 1..MaxSigners : WF_<<round, mints>>(RecoveryPart /\ MintSettles(s))

\* The state of the component that moves is of its type.
PartsTypeOK ==
  /\ TypeOK
  /\ part = "registry" => RegistryTypeOK
  /\ part = "deploys" => DeployTypeOK
  /\ part = "setup" => SetupTypeOK
  /\ part = "recovery" => RecoveryTypeOK

\* What a saved tab shows of the registry is what it would read.
RegistryIsShown == part = "registry" => RenderedIsCurrent

\* What is deployed is what the card showed and what the summary tells, and a confirmed
\* plan is refused as changed only for a reason.
DeploysAreTold == part = "deploys" => DeploysAsShown /\ EntriesAccounted /\ UnchangedPlanStands

\* A setup pays once as far as it can know, and its overlay is about the connected wallet.
SetupIsCareful == part = "setup" => PaysOnce /\ OverlayIsCurrent

\* Recovery neither reads nor prompts too often, overwrites nothing newer, and polls.
RecoveryIsPaced == part = "recovery" => RecoveryIsMeasured /\ OnePrompt /\ PollingLives

\* Nothing that was settled is unsettled again: not a closed row of the chat, not an
\* unsaved or a newer record of the registry, not a loaded list of tiers.
NothingIsTakenBack ==
  [][/\ KeepsClosed
     /\ part = "registry" => KeepsUnsaved /\ KeepsNewer
     /\ part = "deploys" => KeepsTiers]_partsVars

\* What somebody waits for: the chat that is busy, a list of tiers, a plan or a run of
\* deployments, the overlay of the setup, an app to recover.
Waiting ==
  \/ part = "chat" /\ streaming
  \/ part = "deploys" /\ DeploysWait
  \/ part = "setup" /\ SetupWaits
  \/ part = "recovery" /\ RecoveryWaits

\* Every wait ends, and the registry comes to agree with the chain.
EveryWaitEnds ==
  /\ []<>~Waiting
  /\ <>[](part = "registry" => Converged)
=============================================================================
