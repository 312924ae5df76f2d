----------------------------- MODULE Maintenance -----------------------------
(***************************************************************************)
(* Restart and update commands of one lease: src/src/ai/toolExecutor/      *)
(* maintenance*.ts and the planning half of restart_app and update_app in  *)
(* compositeTransactions.ts.                                               *)
(*                                                                         *)
(* A command is an idempotency key.  The browser's tabs share one record   *)
(* per lease in localStorage (slot), read and written under a Web Lock, so *)
(* one step of a tab below is one synchronous stretch of its code between  *)
(* two awaits, and a locked section is one step.  Operation, payload hash  *)
(* and manifest of a command are functions of its key, so "the record      *)
(* matches" is "the key and the baseline match".                           *)
(*                                                                         *)
(* External: the provider (Fred).  It runs one command at a time, answers  *)
(* a known key by replaying its admission, creates at most one release per *)
(* admitted key and may create it after the answer; a refusal it persists  *)
(* is final.  Requests may be delayed, lost or delivered after the tab     *)
(* that sent them has gone.                                                *)
(***************************************************************************)
EXTENDS Integers, FiniteSets, Sequences

CONSTANTS
    Tabs,          \* browser tabs of one wallet
    Keys,          \* idempotency keys
    MaxResults,    \* MAX_COMPLETED_MAINTENANCE, per tab
    MaxMishaps,    \* bound: failing writes, reloads and cleared sessions, together
    None           \* no key, no record

VARIABLES
    slot,          \* the shared record of the lease
    results,       \* results[t][k]: the settled result this tab remembers
    places,        \* places[t][k]: reservation of a result slot
    att,           \* att[t]: the tab's confirmation and its execution, or its status read
    provider,      \* provider[k]: what the provider has done with k
    releases,      \* the lease's release history: the key of each release
    wire,          \* POSTs on their way
    leaseOpen,
    posted,        \* history: keys that were handed to HTTP
    minted, mishaps

tabVars == <<results, places, att>>
providerVars == <<provider, releases, wire, leaseOpen>>
boundVars == <<minted, mishaps>>
vars == <<slot, tabVars, providerVars, posted, boundVars>>

Verdicts == {"succeeded", "failed"}
Final == {"active", "failed", "refused"}

Pending == [key : Keys, base : Nat, dispatched : BOOLEAN, accepted : BOOLEAN]
Receipt == [key : Keys, outcome : Verdicts]

(* One record holds the pending command with the receipt it would restore, *)
(* or that receipt alone, and the proofs that a command was never sent.    *)
Slot == [pend : Pending \cup {None}, receipt : Receipt \cup {None}, never : SUBSET Keys]
EmptySlot == [pend |-> None, receipt |-> None, never |-> {}]

Plan == [key : Keys, expect : BOOLEAN, prev : Keys \cup {None}]

ASSUME MaintenanceAssumption ==
    /\ MaxResults \in Nat /\ MaxMishaps \in Nat
    /\ None \notin Keys \cup Verdicts \cup Pending \cup Receipt \cup Plan

FreePlace == [held |-> FALSE, kept |-> FALSE]
Taken(t) == {k \in Keys : places[t][k] # FreePlace}
Remembered(t) == {k \in Keys : results[t][k] # None}

NoAttempt == [pc |-> "idle", plan |-> None, base |-> 0, was |-> FALSE, made |-> FALSE,
              verdict |-> "unconfirmed", epoch |-> FALSE]

Init ==
    /\ slot = EmptySlot
    /\ results = [t \in Tabs |-> [k \in Keys |-> None]]
    /\ places = [t \in Tabs |-> [k \in Keys |-> FreePlace]]
    /\ att = [t \in Tabs |-> NoAttempt]
    /\ provider = [k \in Keys |-> "unknown"]
    /\ releases = <<>>
    /\ wire = {}
    /\ leaseOpen = TRUE
    /\ posted = {}
    /\ minted = {}
    /\ mishaps = 0

-----------------------------------------------------------------------------
(* The shared record.                                                      *)

IsPending(k) == slot.pend # None /\ slot.pend.key = k

(* matches: another tab may have completed the command and prepared its    *)
(* successor, or the same key again on another baseline.                   *)
Matches(k, base) == IsPending(k) /\ slot.pend.base = base

(* getSettledMaintenanceOperation: the receipt counts only while nothing   *)
(* is pending.                                                             *)
ReceiptKey == IF slot.pend = None /\ slot.receipt # None THEN slot.receipt.key ELSE None

\* Faulty variant of Settled: the caller's outcome is lost and the default is recorded.
SettledUnnamed(outcome) ==
    [slot EXCEPT !.pend = None, !.receipt = [key |-> slot.pend.key, outcome |-> "settled"]]

(* settledMetadataFor, persistSettled *)
Settled(outcome) ==
    [slot EXCEPT !.pend = None, !.receipt = [key |-> slot.pend.key, outcome |-> outcome]]

-----------------------------------------------------------------------------
(* Result slots of a tab.                                                  *)

CanPlan(t, n) == Cardinality(Remembered(t)) + Cardinality(Taken(t)) + n <= MaxResults

(* reserveMaintenanceCompletions for one command: a new key must fit; a    *)
(* recovered one takes a place when there is one left.                     *)
MayReserve(t, k, recovery) ==
    \/ recovery
    \/ k \in Remembered(t) \cup Taken(t)
    \/ CanPlan(t, 1)

Reserved(t, k) ==
    IF k \in Remembered(t) \/ (k \notin Taken(t) /\ ~CanPlan(t, 1)) THEN places[t]
    ELSE [places[t] EXCEPT ![k].held = TRUE]

(* releaseMaintenanceCompletionReservation in the finally of an attempt:   *)
(* a sent command that is still saved keeps its place.                     *)
Released(t, k, saved) ==
    LET kept == saved.pend # None /\ saved.pend.key = k /\ saved.pend.dispatched IN
    IF ~att[t].epoch \/ ~places[t][k].held THEN places[t]
    ELSE [places[t] EXCEPT ![k] = [held |-> FALSE, kept |-> @.kept \/ kept]]

\* Faulty variant of Admits: a recovered command that found no place is remembered all the same.
AdmitsAny(t, k) == results[t][k] = None

(* rememberMaintenanceCompletion: no eviction, and the first result stays. *)
Admits(t, k) ==
    /\ results[t][k] = None
    /\ IF k \in Taken(t) THEN Cardinality(Remembered(t)) < MaxResults ELSE CanPlan(t, 1)

Completed(t, k, outcome, current) ==
    IF current /\ Admits(t, k) THEN [results EXCEPT ![t][k] = outcome] ELSE results

FreedBy(t, k, current) ==
    IF current /\ Admits(t, k) THEN [places EXCEPT ![t][k] = FreePlace] ELSE places

-----------------------------------------------------------------------------
(* Planning.                                                               *)

Idle(t) == att[t].pc \in {"idle", "planned"}
Key(t) == att[t].plan.key

PlanAs(t, plan) == att' = [att EXCEPT ![t] = [NoAttempt EXCEPT !.pc = "planned", !.plan = plan]]

(* executeRestartApp / executeUpdateApp over a saved command: offer it     *)
(* again under its own key.                                                *)
PlanRecovery(t) ==
    /\ Idle(t) /\ leaseOpen /\ slot.pend # None
    /\ PlanAs(t, [key |-> slot.pend.key, expect |-> TRUE, prev |-> None])
    /\ UNCHANGED <<slot, results, places, providerVars, posted, boundVars>>

(* Nothing is pending: a settled receipt frees its place, and the new      *)
(* command's plan names the receipt it was made over.                      *)
PlanCommand(t, k) ==
    /\ Idle(t) /\ leaseOpen /\ slot.pend = None
    /\ k \notin minted
    /\ LET freed == IF ReceiptKey = None THEN places[t]
                    ELSE [places[t] EXCEPT ![ReceiptKey] = FreePlace]
       IN /\ places' = [places EXCEPT ![t] = freed]
          /\ Cardinality(Remembered(t)) + Cardinality({j \in Keys : freed[j] # FreePlace}) + 1 <= MaxResults
    /\ PlanAs(t, [key |-> k, expect |-> FALSE, prev |-> ReceiptKey])
    /\ minted' = minted \cup {k}
    /\ UNCHANGED <<slot, results, providerVars, posted, mishaps>>

-----------------------------------------------------------------------------
(* Execution of a confirmed plan: executeMaintenance.                      *)

(* assertNewMaintenanceOperation: the receipt is the one the plan saw.     *)
AssertNew(t) ==
    att[t].plan.prev = ReceiptKey /\ Key(t) # ReceiptKey

(* assertCurrent: the session is the one that began the attempt.  An aborted *)
(* signal fails the same checks: cancelling is choosing, wherever the code  *)
(* looks, the action that fails.                                           *)
Current(t) == att[t].epoch

Goto(t, pc) == att' = [att EXCEPT ![t].pc = pc]
(* The confirmation may be run again, with the same key. *)
Ended(t) == [NoAttempt EXCEPT !.pc = "planned", !.plan = att[t].plan]
Finish(t) == /\ att' = [att EXCEPT ![t] = Ended(t)]
             /\ places' = [places EXCEPT ![t] = Released(t, Key(t), slot')]

(* A storage write fails. *)
Fault == mishaps < MaxMishaps /\ mishaps' = mishaps + 1

(* The result of this key is known: never send it again, only complete     *)
(* what is left of its record.                                             *)
BeginReplay(t) ==
    /\ att[t].pc = "planned" /\ results[t][Key(t)] # None
    /\ \/ IsPending(Key(t)) /\ slot' = Settled(results[t][Key(t)]) /\ UNCHANGED mishaps
       \/ IsPending(Key(t)) /\ Fault /\ UNCHANGED slot
       \/ ~IsPending(Key(t)) /\ UNCHANGED <<slot, mishaps>>
    /\ UNCHANGED <<results, places, att, providerVars, posted, minted>>

(* Admission of the attempt: what is saved must be what the plan expects,  *)
(* and a result slot is taken before anything is sent.                     *)
MayBegin(t) ==
    IF slot.pend # None THEN IsPending(Key(t)) ELSE ~att[t].plan.expect /\ AssertNew(t)

Begin(t) ==
    LET recovery == slot.pend # None IN
    /\ att[t].pc = "planned" /\ results[t][Key(t)] = None
    /\ leaseOpen   \* bound: what runs goes on, nothing begins for a closed lease
    /\ MayBegin(t) /\ MayReserve(t, Key(t), recovery)
    /\ places' = [places EXCEPT ![t] = Reserved(t, Key(t))]
    /\ att' = [att EXCEPT ![t] = [@ EXCEPT
            !.pc = IF recovery THEN "retain" ELSE "baseline",
            !.was = recovery,
            !.base = IF recovery THEN slot.pend.base ELSE 0,
            !.epoch = TRUE]]
    /\ UNCHANGED <<slot, results, providerVars, posted, boundVars>>

(* Another command is saved, the expected one is gone, the receipt is      *)
(* another, or the cache is full.                                          *)
BeginRefused(t) ==
    /\ att[t].pc = "planned" /\ results[t][Key(t)] = None
    /\ ~MayBegin(t) \/ ~MayReserve(t, Key(t), slot.pend # None)
    /\ att' = [att EXCEPT ![t] = Ended(t)]
    /\ UNCHANGED <<slot, results, places, providerVars, posted, boundVars>>

(* captureMaintenanceBaseline, then the first look of                      *)
(* prepareMaintenanceOperation at the record, before it hashes.            *)
Baseline(t) ==
    /\ att[t].pc = "baseline" /\ Current(t)
    /\ \A i \in DOMAIN releases : provider[releases[i]] # "running"
    /\ IF slot.pend # None THEN IsPending(Key(t)) ELSE AssertNew(t)
    /\ att' = [att EXCEPT ![t] = [@ EXCEPT !.pc = "retain", !.base = Len(releases),
                                           !.was = slot.pend # None]]
    /\ UNCHANGED <<slot, results, places, providerVars, posted, boundVars>>

(* The history could not be read or shows another command in progress, or  *)
(* the record changed meanwhile.                                           *)
BaselineFails(t) ==
    /\ att[t].pc = "baseline"
    /\ UNCHANGED slot
    /\ Finish(t)
    /\ UNCHANGED <<results, providerVars, posted, boundVars>>

(* retain, the locked section of prepareMaintenanceOperation: re-read after *)
(* the hash, then save the command before any mutation.  A proof that this *)
(* key was never sent is revoked with it.                                  *)
MayRetain(t) ==
    IF slot.pend = None THEN ~att[t].was /\ ~att[t].plan.expect /\ AssertNew(t)
    ELSE IsPending(Key(t)) /\ (att[t].was => slot.pend.base = att[t].base)

\* Faulty variant of Retain: the proof of an earlier cancellation survives the next attempt.
RetainKeepsProof(t) ==
    LET fresh == slot.pend = None IN
    /\ att[t].pc = "retain" /\ MayRetain(t)
    /\ slot' = [slot EXCEPT !.pend = IF fresh THEN [key |-> Key(t), base |-> att[t].base,
                                                    dispatched |-> FALSE, accepted |-> FALSE]
                                     ELSE @]
    /\ att' = [att EXCEPT ![t] = [@ EXCEPT !.pc = "retained", !.made = fresh, !.was = FALSE,
                                           !.base = IF fresh THEN att[t].base ELSE slot.pend.base]]
    /\ UNCHANGED <<results, places, providerVars, posted, boundVars>>

Retain(t) ==
    LET fresh == slot.pend = None IN
    /\ att[t].pc = "retain" /\ MayRetain(t)
    /\ slot' = [slot EXCEPT
            !.pend = IF fresh THEN [key |-> Key(t), base |-> att[t].base, dispatched |-> FALSE,
                                    accepted |-> FALSE]
                     ELSE @,
            !.never = @ \ {Key(t)}]
    /\ att' = [att EXCEPT ![t] = [@ EXCEPT !.pc = "retained", !.made = fresh, !.was = FALSE,
                                           !.base = IF fresh THEN att[t].base ELSE slot.pend.base]]
    /\ UNCHANGED <<results, places, providerVars, posted, boundVars>>

(* Superseded, refused, or not saved: nothing is sent. *)
RetainFails(t) ==
    /\ att[t].pc = "retain"
    /\ \/ ~MayRetain(t) /\ UNCHANGED mishaps
       \/ MayRetain(t) /\ Fault
    /\ UNCHANGED slot
    /\ Finish(t)
    /\ UNCHANGED <<results, providerVars, posted, minted>>

(* markMaintenanceOperationDispatched, under the lock and before HTTP. *)
MarkDispatched(t) ==
    /\ att[t].pc = "retained" /\ Current(t) /\ Matches(Key(t), att[t].base)
    /\ slot' = [slot EXCEPT !.pend.dispatched = TRUE]
    /\ Goto(t, "marked")
    /\ UNCHANGED <<results, places, providerVars, posted, boundVars>>

(* The record is another one by now: observe only. *)
DispatchSuperseded(t) ==
    /\ att[t].pc = "retained" /\ Current(t) /\ ~Matches(Key(t), att[t].base)
    /\ UNCHANGED slot
    /\ Finish(t)
    /\ UNCHANGED <<results, providerVars, posted, boundVars>>

(* Cancelled, a context or token that could not be made, or a mark that    *)
(* could not be written: only the command this attempt created may go.     *)
DispatchFails(t) ==
    /\ att[t].pc \in {"retained", "marked"} /\ UNCHANGED slot
    /\ IF att[t].made THEN Goto(t, "discard") /\ UNCHANGED places ELSE Finish(t)
    /\ UNCHANGED <<results, providerVars, posted, boundVars>>

Post(t) ==
    /\ att[t].pc = "marked" /\ Current(t)
    /\ wire' = wire \cup {Key(t)}
    /\ posted' = posted \cup {Key(t)}
    /\ att' = [att EXCEPT ![t] = [@ EXCEPT !.pc = "posted"]]
    /\ UNCHANGED <<slot, results, places, provider, releases, leaseOpen, boundVars>>

\* Faulty variant of Discard: a concurrent caller's dispatch is not looked at.
DiscardsDispatched(t) ==
    /\ att[t].pc = "discard" /\ Matches(Key(t), att[t].base)
    /\ slot' = [slot EXCEPT !.pend = None, !.never = @ \cup {Key(t)}]
    /\ Finish(t)
    /\ UNCHANGED <<results, providerVars, posted, boundVars>>

(* discardUnsubmittedMaintenanceOperation: no concurrent caller dispatched *)
(* it.  The receipt before it stays, with the proof.                       *)
Discard(t) ==
    /\ att[t].pc = "discard"
    /\ Matches(Key(t), att[t].base) /\ ~slot.pend.dispatched /\ ~slot.pend.accepted
    /\ slot' = [slot EXCEPT !.pend = None, !.never = @ \cup {Key(t)}]
    /\ Finish(t)
    /\ UNCHANGED <<results, providerVars, posted, boundVars>>

(* Another caller sent it, or the proof could not be written: the outcome   *)
(* is unconfirmed.                                                         *)
DiscardFails(t) ==
    /\ att[t].pc = "discard" /\ UNCHANGED slot
    /\ IF Matches(Key(t), att[t].base) /\ ~slot.pend.dispatched /\ ~slot.pend.accepted
       THEN Fault ELSE UNCHANGED mishaps
    /\ Finish(t)
    /\ UNCHANGED <<results, providerVars, posted, minted>>

-----------------------------------------------------------------------------
(* The answer.                                                             *)

Admitted(k) == provider[k] \in {"pending", "running", "active", "failed"}

(* The provider acknowledged the key, now or when it first saw it. *)
Answered(t) ==
    /\ att[t].pc = "posted" /\ Key(t) \notin wire
    /\ \/ Admitted(Key(t)) /\ Goto(t, "admitted")
       \/ provider[Key(t)] = "refused" /\ Goto(t, "refused")
    /\ UNCHANGED <<slot, results, places, providerVars, posted, boundVars>>

(* unconfirmed / observationOnly: no answer, a conflict, an abort while     *)
(* waiting, or no verdict.  The saved command stays to be recovered.       *)
GiveUp(t) ==
    /\ att[t].pc \in {"posted", "waiting", "judged"} /\ UNCHANGED slot
    /\ Finish(t)
    /\ UNCHANGED <<results, providerVars, posted, boundVars>>

(* markMaintenanceOperationAccepted: a record that changed is left alone.  *)
MarkAccepted(t) ==
    /\ att[t].pc = "admitted"
    /\ \/ /\ slot' = IF Matches(Key(t), att[t].base)
                     THEN [slot EXCEPT !.pend.dispatched = TRUE, !.pend.accepted = TRUE] ELSE slot
          /\ Goto(t, "waiting")
          /\ UNCHANGED <<places, mishaps>>
       \/ Matches(Key(t), att[t].base) /\ Fault /\ UNCHANGED slot /\ Finish(t)
    /\ UNCHANGED <<results, providerVars, posted, minted>>

\* Faulty variant of VerdictsFrom: the newest release after the baseline names the outcome, however many there are.
VerdictsFromNewest(base) ==
    {v \in Verdicts : /\ Len(releases) > base
                      /\ provider[releases[Len(releases)]] = IF v = "succeeded" THEN "active" ELSE "failed"}

(* evaluateMaintenanceOutcome on a history read now: exactly one release    *)
(* after the baseline names the outcome.  (A read that failed, or a runtime *)
(* that is not ready yet, gives no verdict.)                               *)
VerdictsFrom(base) ==
    {v \in Verdicts : /\ Len(releases) = base + 1
                      /\ provider[releases[base + 1]] = IF v = "succeeded" THEN "active" ELSE "failed"}

Observe(t) ==
    /\ att[t].pc = "waiting"
    /\ \E v \in VerdictsFrom(att[t].base) :
          att' = [att EXCEPT ![t] = [@ EXCEPT !.pc = "judged", !.verdict = v]]
    /\ UNCHANGED <<slot, results, places, providerVars, posted, boundVars>>

(* commitMaintenanceObservation for a settled verdict of this attempt.  The *)
(* verdict stands and is remembered even when the record is another one by *)
(* now or cannot be retired.                                               *)
Commit(t) ==
    LET k == Key(t) IN
    /\ att[t].pc = "judged" /\ Current(t)
    /\ \/ Matches(k, att[t].base) /\ slot' = Settled(att[t].verdict) /\ UNCHANGED mishaps
       \/ ~Matches(k, att[t].base) /\ UNCHANGED <<slot, mishaps>>
       \/ Matches(k, att[t].base) /\ Fault /\ UNCHANGED slot
    /\ results' = Completed(t, k, att[t].verdict, TRUE)
    /\ places' = IF results' = results THEN [places EXCEPT ![t] = Released(t, k, slot')]
                 ELSE FreedBy(t, k, TRUE)
    /\ att' = [att EXCEPT ![t] = Ended(t)]
    /\ UNCHANGED <<providerVars, posted, minted>>

(* The provider's durable refusal settles the command, cancelled or not. *)
Refuse(t) ==
    LET k == Key(t) IN
    /\ att[t].pc = "refused"
    /\ \/ Matches(k, att[t].base) /\ slot' = Settled("failed") /\ UNCHANGED mishaps
       \/ ~Matches(k, att[t].base) /\ UNCHANGED <<slot, mishaps>>
       \/ Matches(k, att[t].base) /\ Fault /\ UNCHANGED slot
    /\ results' = Completed(t, k, "failed", att[t].epoch)
    /\ places' = IF results' = results THEN [places EXCEPT ![t] = Released(t, k, slot')]
                 ELSE FreedBy(t, k, att[t].epoch)
    /\ att' = [att EXCEPT ![t] = Ended(t)]
    /\ UNCHANGED <<providerVars, posted, minted>>

-----------------------------------------------------------------------------
(* Reconciliation by a status read.                                        *)

(* reconcilePendingMaintenance: without a recorded admission the history   *)
(* cannot name the command, so nothing is read.  A tab that reads status   *)
(* runs no confirmation meanwhile: the other tab may.                      *)
ReadStarts(t) ==
    /\ att[t].pc = "idle" /\ leaseOpen
    /\ slot.pend # None /\ slot.pend.accepted
    /\ att' = [att EXCEPT ![t] = [NoAttempt EXCEPT !.pc = "reading", !.base = slot.pend.base, !.epoch = TRUE,
           !.plan = [key |-> slot.pend.key, expect |-> TRUE, prev |-> None]]]
    /\ UNCHANGED <<slot, results, places, providerVars, posted, boundVars>>

ReadObserves(t) ==
    /\ att[t].pc = "reading"
    /\ \E v \in VerdictsFrom(att[t].base) :
          att' = [att EXCEPT ![t] = [@ EXCEPT !.pc = "read", !.verdict = v]]
    /\ UNCHANGED <<slot, results, places, providerVars, posted, boundVars>>

(* The observation commits only over the command it read, in the session   *)
(* that read it; a registry entry that changed meanwhile stops it as well. *)
(* The result is remembered in the commit, even when the write fails.      *)
ReadCommits(t) ==
    /\ att[t].pc = "read"
    /\ Matches(Key(t), att[t].base) /\ Current(t)
    /\ \/ slot' = Settled(att[t].verdict) /\ UNCHANGED mishaps
       \/ Fault /\ UNCHANGED slot
    /\ results' = Completed(t, Key(t), att[t].verdict, TRUE)
    /\ places' = FreedBy(t, Key(t), TRUE)
    /\ att' = [att EXCEPT ![t] = NoAttempt]
    /\ UNCHANGED <<providerVars, posted, minted>>

ReadDropped(t) ==
    /\ att[t].pc \in {"reading", "read"}
    /\ att' = [att EXCEPT ![t] = NoAttempt]
    /\ UNCHANGED <<slot, results, places, providerVars, posted, boundVars>>

-----------------------------------------------------------------------------
(* Sessions, reloads and the end of the lease.                             *)

(* clearCompletedMaintenance: the history is cleared or the wallet changes. *)
ClearSession(t) ==
    /\ Fault
    /\ results' = [results EXCEPT ![t] = [k \in Keys |-> None]]
    /\ places' = [places EXCEPT ![t] = [k \in Keys |-> FreePlace]]
    /\ att' = [att EXCEPT ![t] = IF Idle(t) THEN NoAttempt ELSE [@ EXCEPT !.epoch = FALSE]]
    /\ UNCHANGED <<slot, providerVars, posted, minted>>

(* The tab dies wherever it is and comes back; what it sent travels on. *)
Reload(t) ==
    /\ Fault
    /\ results' = [results EXCEPT ![t] = [k \in Keys |-> None]]
    /\ places' = [places EXCEPT ![t] = [k \in Keys |-> FreePlace]]
    /\ att' = [att EXCEPT ![t] = NoAttempt]
    /\ UNCHANGED <<slot, providerVars, posted, minted>>

(* A stop succeeds, or a status read finds the lease closed:               *)
(* retireAbsentMaintenanceOperation drops what is saved for it.            *)
Retire(t) ==
    /\ leaseOpen \/ slot # EmptySlot
    /\ leaseOpen' = FALSE
    /\ slot' = EmptySlot
    /\ places' = [places EXCEPT ![t] = [k \in Keys |-> FreePlace]]
    /\ UNCHANGED <<results, att, provider, releases, wire, posted, boundVars>>

-----------------------------------------------------------------------------
(* The provider.                                                           *)

Busy(k) == \E j \in Keys \ {k} : provider[j] \in {"pending", "running"}

Deliver(k) ==
    /\ k \in wire
    /\ wire' = wire \ {k}
    /\ \/ provider[k] # "unknown" /\ UNCHANGED provider
       \/ provider[k] = "unknown" /\ provider' = [provider EXCEPT ![k] = "refused"]
       \/ provider[k] = "unknown" /\ ~Busy(k) /\ leaseOpen /\ provider' = [provider EXCEPT ![k] = "pending"]
       \/ provider[k] = "unknown" /\ UNCHANGED provider
    /\ UNCHANGED <<slot, tabVars, releases, leaseOpen, posted, boundVars>>

StartRelease(k) ==
    /\ provider[k] = "pending" /\ leaseOpen
    /\ provider' = [provider EXCEPT ![k] = "running"]
    /\ releases' = Append(releases, k)
    /\ UNCHANGED <<slot, tabVars, wire, leaseOpen, posted, boundVars>>

FinishRelease(k) ==
    /\ provider[k] = "running"
    /\ \E end \in {"active", "failed"} : provider' = [provider EXCEPT ![k] = end]
    /\ UNCHANGED <<slot, tabVars, releases, wire, leaseOpen, posted, boundVars>>

-----------------------------------------------------------------------------
Next ==
    \/ \E t \in Tabs :
          \/ PlanRecovery(t) \/ BeginReplay(t) \/ Begin(t) \/ BeginRefused(t)
          \/ Baseline(t) \/ BaselineFails(t) \/ Retain(t) \/ RetainFails(t)
          \/ MarkDispatched(t) \/ DispatchSuperseded(t) \/ DispatchFails(t) \/ Post(t)
          \/ Discard(t) \/ DiscardFails(t) \/ Answered(t) \/ MarkAccepted(t)
          \/ Observe(t) \/ Commit(t) \/ Refuse(t) \/ GiveUp(t)
          \/ ReadStarts(t) \/ ReadObserves(t) \/ ReadCommits(t) \/ ReadDropped(t)
          \/ ClearSession(t) \/ Reload(t) \/ Retire(t)
    \/ \E t \in Tabs, k \in Keys : PlanCommand(t, k)
    \/ \E k \in Keys : Deliver(k) \/ StartRelease(k) \/ FinishRelease(k)

Spec == Init /\ [][Next]_vars

-----------------------------------------------------------------------------
(* The state has its type.                                                 *)
TypeOK ==
    /\ slot \in Slot
    /\ \A t \in Tabs :
          /\ results[t] \in [Keys -> Verdicts \cup {None}]
          /\ places[t] \in [Keys -> [held : BOOLEAN, kept : BOOLEAN]]
          /\ att[t].plan \in Plan \cup {None}
          /\ ~Idle(t) => att[t].plan # None
    /\ wire \subseteq posted /\ posted \subseteq minted
    /\ \A i \in DOMAIN releases : releases[i] \in posted

(* A command that was sent and may still run is always recorded as the one *)
(* pending command of its lease, whatever tabs, reloads, cancellations and *)
(* failed writes do: so no second command is ever sent beside it.          *)
UnsettledHasItsHandle ==
    leaseOpen => \A k \in posted : provider[k] \notin Final => IsPending(k) /\ slot.pend.dispatched

(* What a receipt or a remembered result says of a command is what the     *)
(* provider did with that command, and never a neighbour's release.        *)
VerdictsAreTheProviders ==
    LET Told(k, outcome) == provider[k] \in (IF outcome = "succeeded" THEN {"active"} ELSE {"failed", "refused"})
    IN /\ slot.receipt # None => Told(slot.receipt.key, slot.receipt.outcome)
       /\ \A t \in Tabs : \A k \in Remembered(t) : Told(k, results[t][k])

(* A proof that a command never reached HTTP names no command that did, or *)
(* that a tab is about to send.                                            *)
NeverSentIsTrue ==
    leaseOpen =>
        /\ slot.never \cap posted = {}
        /\ \A t \in Tabs : att[t].pc = "marked" => Key(t) \notin slot.never

(* The cache never exceeds its limit, and the result of every command that *)
(* was started here and is still awaited has its place in it.              *)
ResultsHaveRoom ==
    \A t \in Tabs :
        /\ Cardinality(Remembered(t)) + Cardinality(Taken(t)) <= MaxResults
        /\ att[t].made /\ att[t].epoch /\ leaseOpen
              => Key(t) \in Taken(t) \cup Remembered(t)

(* The records of a lease are true: its receipt and the results remembered *)
(* of it, and its proofs that a command was never sent.                    *)
RecordsAreTrue == VerdictsAreTheProviders /\ NeverSentIsTrue
=============================================================================
