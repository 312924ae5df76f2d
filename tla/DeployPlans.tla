----------------------------- MODULE DeployPlans -----------------------------
(***************************************************************************)
(* From a request to deploy to the leases it creates: the session's list   *)
(* of SKU tiers (stores/aiActions/skuTiers.ts, api/skuTiers.ts), the plan  *)
(* of one app (executeDeployApp) or of a batch (batchDeployPlan.ts), the   *)
(* card, the second plan a confirmed batch makes, and the batch runner     *)
(* (batchRunner.ts) that carries the plan out.                             *)
(*                                                                         *)
(* One request is followed from its draft to its end.  Manifests, DNS      *)
(* rules and validators are functions of a draft's text: a draft is        *)
(* acceptable or not.  A planner's reads between two awaits are one step.  *)
(* What the reads return may change between any two steps.                 *)
(***************************************************************************)
EXTENDS Integers, FiniteSets, SequencesExt

CONSTANTS
  Tiers, Providers,    \* in the order of PUBLIC_SKU_SPECS, and of the chain's answer
  Prices,              \* per hour and service
  Matches,             \* Matches[s]: the tiers a size can name, the best match first
  Candidates,          \* Candidates[n]: n and the suffixed names tried after it
  Requests,            \* requests to deploy: sequences of drafts
  Catalogs,            \* offers the chain may start with
  NoOffer, NoSize, NoName,
  Concurrency,         \* AI_BATCH_DEPLOY_CONCURRENCY
  \* bounds of the exploration
  MaxCredits, MaxShifts

VARIABLES
  chain,         \* [offers, held, credits]: catalog, whether the domain is in use, balance
  takenNames,    \* names of the registry's active apps
  tierList,      \* skuTiers: [phase, tiers, fetches]
  plan,          \* the planner at work
  card,          \* the entries the user was shown
  run,           \* the batch runner
  signLock,      \* createSigningMutex: whose turn it is to be signed for, and who waits
  stopped,       \* the signal is aborted
  authorized,    \* the wallet and signer the request began with are current
  shifts,
  shifted        \* observer: a read may differ from those the card rests on

deployVars == <<chain, takenNames, tierList, plan, card, run, signLock, stopped, authorized, shifts, shifted>>

AppNames == UNION {ToSet(Candidates[n]) : n \in DOMAIN Candidates}
TierNames == ToSet(Tiers)
Draft == [name : DOMAIN Candidates, size : DOMAIN Matches \cup {NoSize}, domain : BOOLEAN,
          acceptable : BOOLEAN]
PlanEntry == [name : AppNames, size : TierNames, requested : DOMAIN Matches \cup {NoSize},
              provider : ToSet(Providers), price : Prices, domain : BOOLEAN]

ASSUME DeployAssumption ==
  /\ Concurrency \in Nat \ {0}
  /\ {MaxCredits, MaxShifts} \subseteq Nat
  /\ Prices \subseteq Nat
  /\ NoOffer \notin Prices
  /\ Tiers # <<>> /\ Tiers \in Seq(TierNames) /\ Providers \in Seq(ToSet(Providers))
  /\ Catalogs \subseteq [TierNames -> [ToSet(Providers) -> Prices \cup {NoOffer}]]
  \* resolveSizeName prefers the tier of that very name, nextAvailableName the name itself.
  /\ \A s \in DOMAIN Matches : Matches[s] \in Seq(TierNames)
  /\ \A t \in TierNames : t \in DOMAIN Matches /\ Matches[t] # <<>> /\ Matches[t][1] = t
  /\ \A n \in DOMAIN Candidates :
       /\ Candidates[n] \in Seq(DOMAIN Candidates)
       /\ Candidates[n] # <<>> /\ Candidates[n][1] = n
  /\ NoSize \notin DOMAIN Matches /\ NoName \notin DOMAIN Candidates
  /\ Requests \subseteq Seq(Draft) \ {<<>>}

----------------------------------------------------------------------------
(* Tiers.                                                                  *)

(* A tier's cheapest priced offer, the first of equals: a SKU without base *)
(* price is no offer, a price of zero is.                                  *)
Priced(offers, t) == {i \in DOMAIN Providers : offers[t][Providers[i]] # NoOffer}
BestOffer(offers, t) ==
  CHOOSE i \in Priced(offers, t) : \A j \in Priced(offers, t) :
    LET a == offers[t][Providers[i]]
        b == offers[t][Providers[j]]
    IN  a < b \/ (a = b /\ i <= j)

(* resolveSkuTiers over the names of a spec map. *)
Resolved(offers, specs) ==
  [t \in {s \in specs : Priced(offers, s) # {}} |->
     LET p == Providers[BestOffer(offers, t)] IN [provider |-> p, price |-> offers[t][p]]]

(* getCheapestTier: the first of equals in the list's order. *)
CheapestTier(tiers) ==
  Tiers[CHOOSE i \in DOMAIN Tiers :
          /\ Tiers[i] \in DOMAIN tiers
          /\ \A j \in DOMAIN Tiers : Tiers[j] \in DOMAIN tiers =>
               \/ tiers[Tiers[i]].price < tiers[Tiers[j]].price
               \/ tiers[Tiers[i]].price = tiers[Tiers[j]].price /\ i <= j]

(* The first element of a sequence that is in a set.                       *)
FirstIn(s, S) == s[Min({i \in DOMAIN s : s[i] \in S})]

(* resolveSizeOrCheapest: the tier a size stands for, and the size again   *)
(* when it named none and the cheapest takes its place.                    *)
Named(size, tiers) == ToSet(Matches[size]) \cap DOMAIN tiers
SizeOrCheapest(size, tiers) ==
  IF size = NoSize THEN [tier |-> CheapestTier(tiers), requested |-> NoSize]
  ELSE IF Named(size, tiers) # {} THEN [tier |-> FirstIn(Matches[size], Named(size, tiers)), requested |-> NoSize]
  ELSE [tier |-> CheapestTier(tiers), requested |-> size]

(* loadSkuTiers at boot: a fetch under way is shared, a loaded list stays. *)
LoadTiers ==
  /\ tierList.phase = "idle"
  /\ tierList.fetches = 0
  /\ tierList' = [tierList EXCEPT !.phase = "loading", !.fetches = 1]
  /\ UNCHANGED <<chain, takenNames, plan, card, run, signLock, stopped, authorized, shifts, shifted>>

(* retrySkuTiers: nothing once the list is there; else "idle" until the    *)
(* fetch it joins, or starts, ends.                                        *)
RetryTiers ==
  /\ tierList.phase # "ready"
  /\ tierList' = IF tierList.fetches > 0 THEN [tierList EXCEPT !.phase = "idle"]
                 ELSE [tierList EXCEPT !.phase = "loading", !.fetches = 1]
  /\ UNCHANGED <<chain, takenNames, plan, card, run, signLock, stopped, authorized, shifts, shifted>>

(* A fetch ends with a list, with no tier to offer, or with an error or a  *)
(* timeout.                                                                *)
FetchEnds ==
  /\ tierList.fetches > 0
  /\ \E tiers \in {Resolved(chain.offers, TierNames), <<>>} :
       tierList' = [phase |-> IF DOMAIN tiers = {} THEN "error" ELSE "ready", tiers |-> tiers,
                    fetches |-> tierList.fetches - 1]
  /\ UNCHANGED <<chain, takenNames, plan, card, run, signLock, stopped, authorized, shifts, shifted>>

----------------------------------------------------------------------------
(* Plans.                                                                  *)

(* nextAvailableName: the name or its first suffix that no active app and  *)
(* no sibling has.                                                         *)
NextName(requested, used) ==
  LET free == ToSet(Candidates[requested]) \ (takenNames \cup used)
  IN  IF free = {} THEN NoName ELSE FirstIn(Candidates[requested], free)

(* One draft of a batch, after the drafts in acc, the domain being found   *)
(* in use or not: names and the domain are reserved for the entries that   *)
(* survive only.                                                           *)
Reserve(acc, draft, inUse) ==
  LET size == SizeOrCheapest(draft.size, plan.tiers)
      name == NextName(draft.name, {acc.entries[i].name : i \in DOMAIN acc.entries})
  IN  IF \/ ~draft.acceptable
         \/ draft.domain /\ inUse
         \/ name = NoName
         \/ draft.domain /\ \E i \in DOMAIN acc.entries : acc.entries[i].domain
      THEN [acc EXCEPT !.rejected = TRUE]
      ELSE [acc EXCEPT !.entries = Append(@,
              [name |-> name, size |-> size.tier, requested |-> size.requested,
               provider |-> plan.tiers[size.tier].provider, price |-> plan.tiers[size.tier].price,
               domain |-> draft.domain])]

Reserved(drafts, inUse) ==
  LET after[n \in 0..Len(drafts)] == IF n = 0 THEN [entries |-> <<>>, rejected |-> FALSE]
                                     ELSE Reserve(after[n - 1], drafts[n], inUse)
  IN  after[Len(drafts)]

Cost(entries) == FoldLeft(LAMBDA sum, e : sum + e.price, 0, entries)

\* Faulty variant of SizeAgain: a plan is made again from what the first one resolved.
ResolvedSizeAgain(e) == e.size

(* batchPlanToEntries: a plan as drafts again.  An entry whose size was    *)
(* replaced asks for the size the user asked for.                          *)
SizeAgain(e) == IF e.requested # NoSize THEN e.requested ELSE e.size
DraftsOf(entries) ==
  [i \in DOMAIN entries |->
     [name |-> entries[i].name, size |-> SizeAgain(entries[i]), domain |-> entries[i].domain,
      acceptable |-> TRUE]]

NoPlan == [step |-> "idle", batch |-> FALSE, partial |-> FALSE, known |-> {}, drafts |-> <<>>,
           tiers |-> <<>>, entries |-> <<>>]
NoRun == [entries |-> <<>>, queued |-> 0, leased |-> {}, signed |-> {}, succeeded |-> {}, unconfirmed |-> {},
          failed |-> {}, cancelled |-> {}, over |-> FALSE]

Refuse(why) == plan' = [NoPlan EXCEPT !.step = why] /\ UNCHANGED <<card, run, shifted>>

MayPlan == ~stopped /\ authorized

(* planBatchDeploy for new drafts, with the session's tiers at hand; drafts *)
(* of one model turn may be rejected one by one, a batch of the user not.  *)
PlanBatch(drafts, partial) ==
  /\ plan.step = "idle" /\ MayPlan
  /\ DOMAIN tierList.tiers # {}
  /\ plan' = [NoPlan EXCEPT !.step = "catalog", !.batch = TRUE, !.partial = partial,
                            !.known = DOMAIN tierList.tiers, !.drafts = drafts]
  /\ UNCHANGED <<chain, takenNames, tierList, card, run, signLock, stopped, authorized, shifts, shifted>>

(* currentTiers: the session's tiers as the chain's catalog has them now.  *)
CurrentTiers == Resolved(chain.offers, plan.known)

(* A catalog without any of them, or a read that fails, ends the plan.     *)
ReadCatalog ==
  /\ plan.step = "catalog"
  /\ \/ /\ MayPlan /\ DOMAIN CurrentTiers # {}
        /\ plan' = [plan EXCEPT !.step = "domains", !.tiers = CurrentTiers]
        /\ UNCHANGED <<card, run, shifted>>
     \/ Refuse("refused")
  /\ UNCHANGED <<chain, takenNames, tierList, signLock, stopped, authorized, shifts>>

(* The domains are looked up, where a failing lookup finds nothing, then   *)
(* names and domains are reserved.  A plan that may not be partial ends    *)
(* with a rejected entry.                                                  *)
ReadDomains ==
  /\ plan.step = "domains"
  /\ \E inUse \in {chain.held, FALSE} :
       LET result == Reserved(plan.drafts, inUse)
       IN  IF MayPlan /\ result.entries # <<>> /\ (plan.partial \/ ~result.rejected)
           THEN /\ plan' = [plan EXCEPT !.step = "credits", !.entries = result.entries]
                /\ UNCHANGED <<card, run, shifted>>
           ELSE Refuse("refused")
  /\ UNCHANGED <<chain, takenNames, tierList, signLock, stopped, authorized, shifts>>

\* Faulty variant of SamePlan: the prices are not part of what is hashed.
SameApps(a, b) ==
  /\ Len(a) = Len(b)
  /\ \A i \in DOMAIN a : [a[i] EXCEPT !.price = b[i].price] = b[i]

(* computePlanHash: two plans have one hash if their entries agree in      *)
(* every field the card shows or the deployment uses, and in their order.  *)
SamePlan(a, b) ==
  /\ Len(a) = Len(b)
  /\ \A i \in DOMAIN a : \A field \in DOMAIN a[i] : a[i][field] = b[i][field]

(* The plan stands when the balance pays one hour of it.  A new one goes   *)
(* to the card; the one a confirmation made must be what the card showed.  *)
ReadCredits ==
  /\ plan.step = "credits" /\ plan.batch
  /\ \/ Refuse("refused")
     \/ /\ MayPlan /\ chain.credits >= Cost(plan.entries)
        /\ IF card = <<>>
           THEN /\ card' = plan.entries
                /\ plan' = [NoPlan EXCEPT !.step = "card", !.batch = TRUE]
                /\ UNCHANGED <<run, shifted>>
           ELSE IF ~SamePlan(plan.entries, card) THEN Refuse("changed")
           ELSE /\ run' = [NoRun EXCEPT !.entries = plan.entries]
                /\ plan' = [NoPlan EXCEPT !.step = "running"]
                /\ UNCHANGED <<card, shifted>>
  /\ UNCHANGED <<chain, takenNames, tierList, signLock, stopped, authorized, shifts>>

(* executeDeployApp: name and tier from what the browser has, the tier's   *)
(* price being the one the session loaded.                                 *)
PlanSingle(draft) ==
  /\ plan.step = "idle"
  /\ draft.acceptable
  /\ DOMAIN tierList.tiers # {}
  /\ NextName(draft.name, {}) # NoName
  /\ LET size == SizeOrCheapest(draft.size, tierList.tiers)
     IN  plan' = [NoPlan EXCEPT !.step = "credits", !.entries =
                   <<[name |-> NextName(draft.name, {}), size |-> size.tier,
                      requested |-> NoSize, provider |-> tierList.tiers[size.tier].provider,
                      price |-> tierList.tiers[size.tier].price, domain |-> draft.domain]>>]
  /\ UNCHANGED <<chain, takenNames, tierList, card, run, signLock, stopped, authorized, shifts, shifted>>

(* Its remaining reads: a balance that cannot be read adds a warning, a    *)
(* domain that cannot be looked up is left to the chain.                   *)
CheckDeploy ==
  /\ plan.step = "credits" /\ ~plan.batch
  /\ \E unread \in BOOLEAN :
       IF \/ ~unread /\ chain.credits < Cost(plan.entries)
          \/ ~unread /\ plan.entries[1].domain /\ chain.held
       THEN Refuse("refused")
       ELSE /\ card' = plan.entries
            /\ plan' = [NoPlan EXCEPT !.step = "card"]
            /\ UNCHANGED <<run, shifted>>
  /\ UNCHANGED <<chain, takenNames, tierList, signLock, stopped, authorized, shifts>>

(* The user confirms.  A batch is planned again from its own entries, one  *)
(* app is deployed as planned.                                             *)
Confirm ==
  /\ plan.step = "card" /\ MayPlan
  /\ IF plan.batch
     THEN /\ plan' = [NoPlan EXCEPT !.step = "catalog", !.batch = TRUE,
                                    !.known = DOMAIN tierList.tiers, !.drafts = DraftsOf(card)]
          /\ UNCHANGED run
     ELSE /\ run' = [NoRun EXCEPT !.entries = card]
          /\ plan' = [NoPlan EXCEPT !.step = "running"]
  /\ UNCHANGED <<chain, takenNames, tierList, card, signLock, stopped, authorized, shifts, shifted>>

----------------------------------------------------------------------------
(* The run.                                                                *)

Ended == run.succeeded \cup run.unconfirmed \cup run.failed \cup run.cancelled
Active == (1..run.queued) \ Ended
OnlyRuns == UNCHANGED <<chain, takenNames, tierList, plan, card, stopped, authorized, shifts, shifted>>
Goes(new) == run' = new /\ UNCHANGED signLock /\ OnlyRuns

(* The next entry starts, when the signal is not aborted and a place is    *)
(* free; its guard cancels it when the authorization is gone.              *)
StartEntry ==
  /\ ~stopped
  /\ run.queued < Len(run.entries)
  /\ Cardinality(Active) < Concurrency
  /\ LET i == run.queued + 1
     IN  Goes([run EXCEPT !.queued = i,
                          !.cancelled = IF authorized THEN @ ELSE @ \cup {i}])

(* The SDK creates the lease; its answer may be lost on the way.           *)
LeaseLands(i) ==
  /\ i \in Active \ run.leased
  /\ \E lost \in BOOLEAN :
       Goes([run EXCEPT !.leased = @ \cup {i}, !.failed = IF lost THEN @ \cup {i} ELSE @])

(* It throws before there is a lease: refused, or stopped in time.         *)
LeaseRefused(i) ==
  /\ i \in Active \ run.leased
  /\ Goes([run EXCEPT !.failed = @ \cup {i}])

(* The upload needs a token, and the wallet signs for one at a time: a     *)
(* caller chains itself to the one before.  The turn at the wallet is      *)
(* Other's when the chat logs in or a query asks for a token.              *)
Other == 0
AskSignature(i) ==
  /\ i \in (Active \cap run.leased) \ (run.signed \cup ToSet(signLock))
  /\ signLock' = Append(signLock, i)
  /\ UNCHANGED run /\ OnlyRuns

OtherAsks ==
  /\ run.entries # <<>> /\ ~run.over
  /\ Other \notin ToSet(signLock)
  /\ signLock' = Append(signLock, Other)
  /\ UNCHANGED run /\ OnlyRuns

(* The wallet answers the one whose turn it is, once; signed or refused,   *)
(* the lock is released.  A refused upload leaves the lease without its    *)
(* manifest.                                                               *)
Unlocked(lock, signed) == Tail(lock)
WalletAnswers ==
  /\ signLock # <<>> /\ Head(signLock) \notin Ended
  /\ \E signed \in BOOLEAN :
       /\ signLock' = Unlocked(signLock, signed)
       /\ run' = IF Head(signLock) = Other THEN run
                 ELSE IF signed THEN [run EXCEPT !.signed = @ \cup {Head(signLock)}]
                 ELSE [run EXCEPT !.failed = @ \cup {Head(signLock)}]
  /\ OnlyRuns

(* What became of a lease: running, failed, or no verdict.  It can fail    *)
(* before its turn to upload, when its domain is not accepted.             *)
EntryEnds(i) ==
  /\ i \in (Active \cap run.leased) \ ToSet(signLock)
  /\ \/ i \in run.signed /\ Goes([run EXCEPT !.succeeded = @ \cup {i}])
     \/ i \in run.signed /\ Goes([run EXCEPT !.unconfirmed = @ \cup {i}])
     \/ Goes([run EXCEPT !.failed = @ \cup {i}])

(* When the active entries have ended, those never queued are cancelled    *)
(* and the buckets are summed up.                                          *)
NeverQueued == (run.queued + 1)..Len(run.entries)
RunEnds ==
  /\ run.entries # <<>> /\ ~run.over
  /\ Active = {}
  /\ stopped \/ NeverQueued = {}
  /\ Goes([run EXCEPT !.cancelled = @ \cup NeverQueued, !.over = TRUE])

(* The progress card: a row per entry, whose phase a deployment without a   *)
(* verdict leaves as failed ...                                            *)
RowPhase(i) ==
  CASE i \in run.succeeded -> "ready"
    [] i \in Ended \ run.succeeded -> "failed"
    [] i \in run.signed \ Ended -> "provisioning"
    [] i \in run.leased \ (Ended \cup run.signed) -> "uploading"
    [] OTHER -> "creating_lease"

(* ... and computeOverallPhase: ready or failed when every row is, else the *)
(* most advanced phase an entry is at work in.                             *)
Pipeline == <<"provisioning", "uploading", "creating_lease">>
OverallPhase ==
  LET phases == {RowPhase(i) : i \in DOMAIN run.entries}
  IN  IF phases \subseteq {"ready", "failed"}
      THEN IF "ready" \in phases THEN "ready" ELSE "failed"
      ELSE FirstIn(Pipeline, phases)

(* summarizeBatchResult: what is told of the run, and the last phase of    *)
(* the card.  Without an app that landed it is an error, which names the   *)
(* failed and the cancelled apps.                                          *)
Landed == run.succeeded \cup run.unconfirmed
Summary ==
  IF Landed = {}
  THEN [success |-> FALSE, phase |-> "failed", told |-> run.failed \cup run.cancelled]
  ELSE [success |-> TRUE, phase |-> "ready", told |-> Landed \cup run.failed \cup run.cancelled]

----------------------------------------------------------------------------
(* The user stops, the wallet's authorization ends.                        *)
StopDeploy ==
  /\ ~stopped /\ plan.step \notin {"idle", "refused", "changed"}
  /\ stopped' = TRUE
  /\ UNCHANGED <<chain, takenNames, tierList, plan, card, run, signLock, authorized, shifts, shifted>>

AuthorizationEnds ==
  /\ authorized /\ plan.step \notin {"idle", "refused", "changed"}
  /\ authorized' = FALSE
  /\ UNCHANGED <<chain, takenNames, tierList, plan, card, run, signLock, stopped, shifts, shifted>>

(* A provider changes an offer, someone takes or frees the domain or a     *)
(* name, the balance is spent or topped up.                                *)
Shift ==
  /\ shifts < MaxShifts
  /\ plan.step \in {"idle", "catalog", "domains", "credits", "card"}
  /\ \/ /\ \E t \in TierNames, p \in ToSet(Providers), v \in Prices \cup {NoOffer} :
             chain' = [chain EXCEPT !.offers[t][p] = v]
        /\ UNCHANGED takenNames
     \/ chain' = [chain EXCEPT !.held = ~@] /\ UNCHANGED takenNames
     \/ \E c \in 0..MaxCredits : chain' = [chain EXCEPT !.credits = c] /\ UNCHANGED takenNames
     \/ \E n \in AppNames : takenNames' = (takenNames \ {n}) \cup ({n} \ takenNames) /\ UNCHANGED chain
  /\ shifts' = shifts + 1
  /\ shifted' = (shifted \/ plan.step # "idle")
  /\ UNCHANGED <<tierList, plan, card, run, signLock, stopped, authorized>>

DeployInit ==
  /\ \E o \in Catalogs : chain = [offers |-> o, held |-> FALSE, credits |-> MaxCredits]
  /\ takenNames = {}
  /\ tierList = [phase |-> "idle", tiers |-> <<>>, fetches |-> 0]
  /\ plan = NoPlan /\ card = <<>> /\ run = NoRun /\ signLock = <<>>
  /\ stopped = FALSE /\ authorized = TRUE /\ shifts = 0 /\ shifted = FALSE

DeployNext ==
  \/ LoadTiers \/ RetryTiers \/ FetchEnds
  \/ \E drafts \in Requests, partial \in BOOLEAN : PlanBatch(drafts, partial)
  \/ \E drafts \in Requests : PlanSingle(drafts[1])
  \/ ReadCatalog \/ ReadDomains \/ ReadCredits \/ CheckDeploy \/ Confirm
  \/ StartEntry \/ RunEnds \/ OtherAsks \/ WalletAnswers
  \/ \E i \in DOMAIN run.entries : LeaseLands(i) \/ LeaseRefused(i) \/ AskSignature(i) \/ EntryEnds(i)
  \/ StopDeploy \/ AuthorizationEnds \/ Shift

(* Reads and deployments have time limits, and the wallet answers a prompt *)
(* sooner or later: one that never does blocks every caller behind it.     *)
DeployFairness ==
  /\ WF_deployVars(FetchEnds)
  /\ WF_deployVars(ReadCatalog \/ ReadDomains \/ ReadCredits \/ CheckDeploy)
  /\ WF_deployVars(StartEntry \/ RunEnds)
  /\ WF_deployVars(WalletAnswers)
  /\ WF_deployVars(\E i \in DOMAIN run.entries :
                     LeaseLands(i) \/ LeaseRefused(i) \/ AskSignature(i) \/ EntryEnds(i))

DeploySpec == DeployInit /\ [][DeployNext]_deployVars /\ DeployFairness

----------------------------------------------------------------------------
DeployTypeOK ==
  /\ chain.offers \in [TierNames -> [ToSet(Providers) -> Prices \cup {NoOffer}]]
  /\ chain.held \in BOOLEAN /\ chain.credits \in 0..MaxCredits
  /\ takenNames \subseteq AppNames
  /\ tierList.phase \in {"idle", "loading", "ready", "error"} /\ tierList.fetches \in Nat
  /\ \A t \in DOMAIN tierList.tiers : tierList.tiers[t] \in [provider : ToSet(Providers), price : Prices]
  /\ plan.step \in {"idle", "catalog", "domains", "credits", "card", "running", "refused", "changed"}
  /\ \A entries \in {card, plan.entries, run.entries} : \A i \in DOMAIN entries : entries[i] \in PlanEntry
  /\ {stopped, authorized, shifted} \subseteq BOOLEAN

(* What is deployed is what the card showed: the same apps at the same     *)
(* sizes, providers and prices, although a batch is planned anew from what *)
(* the chain says after the click.  No two of its apps share a name, and   *)
(* one of them at most the domain.                                         *)
DeploysAsShown ==
  \A i \in run.leased :
    /\ run.entries[i] = card[i]
    /\ \A j \in DOMAIN run.entries \ {i} :
         /\ run.entries[j].name # run.entries[i].name
         /\ ~(run.entries[j].domain /\ run.entries[i].domain)

(* The summary of a run tells of every app, and of each in one way.  What  *)
(* it calls cancelled was never submitted ("they can be deployed again"),  *)
(* what it calls deployed or still deploying has its lease.  The card      *)
(* looks finished only when nothing is at work any more, and then a card   *)
(* that says ready is not followed by a summary that says failed.          *)
EntriesAccounted ==
  /\ run.over => Summary.told = DOMAIN run.entries
  /\ run.entries # <<>> /\ OverallPhase \in {"ready", "failed"} =>
       /\ Ended = DOMAIN run.entries
       /\ OverallPhase = "ready" => Summary.success /\ Summary.phase = "ready"
  /\ \A i \in Ended :
       Cardinality({b \in {"succeeded", "unconfirmed", "failed", "cancelled"} : i \in run[b]}) = 1
  /\ run.cancelled \cap run.leased = {}
  /\ Landed \subseteq run.leased

(* A confirmed plan is refused as changed only if something did change     *)
(* since it was drafted: planning a plan's own entries gives that plan.    *)
UnchangedPlanStands == plan.step = "changed" => shifted

(* What must not last: a list of tiers that is being loaded, a plan that   *)
(* is being made, and a run without its summary, although its entries wait *)
(* for each other's turn at the wallet.                                    *)
DeploysWait ==
  \/ tierList.phase = "loading"
  \/ plan.step \in {"catalog", "domains", "credits"}
  \/ plan.step = "running" /\ ~run.over

(* A loaded list of tiers stays for the session: no retry and no fetch     *)
(* that ends late takes it away from what is using it.                     *)
KeepsTiers == tierList.phase = "ready" => tierList' = tierList
=============================================================================
