------------------------- MODULE MaintenanceProofs -------------------------
(***************************************************************************)
(* A command that was sent and may still run is the pending command of its *)
(* lease, and what a receipt, a remembered result or a proof of "never     *)
(* sent" says of a command is so, for any number of tabs and commands and  *)
(* for all failing writes, reloads and cancellations.                      *)
(*                                                                         *)
(* The argument has two halves.  Receipts are version stamps: a key that   *)
(* was sent and is no longer pending (Spent) is never made pending again,  *)
(* because its plan names a receipt that has been overtaken.  And a        *)
(* baseline is honest: only the pending command can add a release after    *)
(* the baseline it was saved with, so the one release found there is its   *)
(* own.                                                                    *)
(***************************************************************************)
EXTENDS Maintenance, FiniteSetTheorems, TLAPS

Steps == {"idle", "planned", "baseline", "retain", "retained", "marked", "posted", "discard",
          "admitted", "refused", "waiting", "judged", "reading", "read"}
Attempts == [pc : Steps, plan : Plan \cup {None}, base : Nat, was : BOOLEAN, made : BOOLEAN,
             verdict : Verdicts \cup {"unconfirmed"}, epoch : BOOLEAN]

TabsTyped ==
    /\ results \in [Tabs -> [Keys -> Verdicts \cup {None}]]
    /\ places \in [Tabs -> [Keys -> [held : BOOLEAN, kept : BOOLEAN]]]
    /\ att \in [Tabs -> Attempts]

RecordTyped == slot \in Slot /\ (slot.pend # None => slot.pend.key \in minted)

ProviderTyped ==
    /\ provider \in [Keys -> {"unknown", "pending", "running"} \cup Final]
    /\ releases \in Seq(Keys) /\ \A i \in DOMAIN releases : releases[i] \in posted
    /\ wire \subseteq posted /\ posted \subseteq minted /\ minted \subseteq Keys
    /\ leaseOpen \in BOOLEAN
    /\ \A k \in Keys : provider[k] # "unknown" => k \in posted

(* What the receipt says, also while a command is pending over it.         *)
ReceiptOf == IF slot.receipt = None THEN None ELSE slot.receipt.key

(* Sent, and not pending.                                                  *)
Spent == {k \in posted : ~IsPending(k)}

CameTo(k, outcome) == provider[k] \in (IF outcome = "succeeded" THEN {"active"} ELSE {"failed", "refused"})

(* Nothing was released since base, or k was first.                        *)
Owns(k, base) ==
    \/ Len(releases) = base /\ provider[k] \in {"unknown", "pending"}
    \/ Len(releases) > base /\ releases[base + 1] = k

(* ... unless k can have no release.                                       *)
WellBased(k, base) ==
    \/ provider[k] = "refused"
    \/ ~leaseOpen /\ provider[k] = "unknown"
    \/ Owns(k, base)

-----------------------------------------------------------------------------
(* The shared record: of the commands sent over an open lease one may still *)
(* run, the pending one, and it is marked as sent; what the record says is  *)
(* so; its proofs name no command that was sent.                            *)
RecordFits ==
    /\ slot.pend # None => /\ WellBased(slot.pend.key, slot.pend.base)
                           /\ slot.pend.accepted => Admitted(slot.pend.key)
    /\ slot.receipt # None => CameTo(slot.receipt.key, slot.receipt.outcome)
    /\ leaseOpen =>
         /\ \A k \in posted : IsPending(k) => slot.pend.dispatched
         /\ \A k \in Spent : provider[k] \in Final
         /\ slot.receipt # None => slot.receipt.key \in Spent
         /\ slot.never \cap posted = {}
         /\ slot.pend # None => slot.pend.key \notin slot.never

ResultsKnow == \A t \in Tabs, k \in Keys : results[t][k] # None => CameTo(k, results[t][k])

(* What an attempt knows: the provider admitted or refused its command, its *)
(* baseline is honest, its verdict is so.                                   *)
AttemptKnows(t) ==
    /\ att[t].pc \in {"marked", "posted", "admitted", "waiting", "reading"} => WellBased(Key(t), att[t].base)
    /\ att[t].pc = "posted" => Key(t) \in posted
    /\ att[t].pc \in {"admitted", "waiting", "reading"} => Admitted(Key(t))
    /\ att[t].pc = "refused" => provider[Key(t)] = "refused"
    /\ att[t].pc \in {"judged", "read"} => att[t].verdict \in Verdicts /\ CameTo(Key(t), att[t].verdict)

(* What is about to be sent is on record as sent.                           *)
MarkedIsSaved(t) ==
    leaseOpen /\ att[t].pc = "marked" =>
        /\ Key(t) \in posted \/ (IsPending(Key(t)) /\ slot.pend.dispatched)
        /\ Key(t) \notin slot.never

(* A plan for a new command; the plan of a spent key is overtaken.          *)
NewPlan(t) == att[t].plan # None /\ ~att[t].plan.expect

PlanIsStamped(t) ==
    leaseOpen /\ NewPlan(t) =>
        /\ att[t].plan.prev # None => att[t].plan.prev \in Spent
        /\ Key(t) \in Spent => att[t].plan.prev # ReceiptOf \/ Key(t) = ReceiptOf

(* An attempt that found nothing saved and has saved nothing is new, and    *)
(* its baseline is the present one unless something was settled since.      *)
Unsaved(t) == att[t].pc = "baseline" \/ (att[t].pc = "retain" /\ ~att[t].was)

UnsavedIsNew(t) ==
    Unsaved(t) => /\ NewPlan(t) /\ ~Admitted(Key(t))
                  /\ leaseOpen => Key(t) \notin posted /\ ~IsPending(Key(t))

BaselineHolds(t) ==
    leaseOpen /\ att[t].pc = "retain" /\ ~att[t].was /\ att[t].plan.prev = ReceiptOf
        => IF slot.pend = None THEN Len(releases) = att[t].base ELSE slot.pend.base = att[t].base

TabFits(t) ==
    /\ att[t].pc # "idle" => att[t].plan # None
    /\ att[t].plan # None => Key(t) \in minted
    /\ AttemptKnows(t) /\ MarkedIsSaved(t) /\ PlanIsStamped(t) /\ UnsavedIsNew(t) /\ BaselineHolds(t)

(* A new command is planned in one tab; the others can only recover it.     *)
OwnPlans == \A t, u \in Tabs : NewPlan(t) /\ NewPlan(u) /\ t # u => Key(t) # Key(u)

CommandInv ==
    /\ TabsTyped /\ RecordTyped /\ ProviderTyped
    /\ RecordFits /\ ResultsKnow
    /\ \A t \in Tabs : TabFits(t)
    /\ OwnPlans

(* The result cache of a tab, and the places of what it awaits.             *)
CacheFits(t) ==
    /\ IsFiniteSet(Remembered(t)) /\ IsFiniteSet(Taken(t))
    /\ Cardinality(Remembered(t)) + Cardinality(Taken(t)) <= MaxResults

Awaits(t) == (Unsaved(t) \/ att[t].made) /\ att[t].epoch

AwaitedHasPlace(t) ==
    /\ Idle(t) => ~att[t].made
    /\ leaseOpen /\ Awaits(t) => Key(t) \in Taken(t) \cup Remembered(t)

CacheInv == \A t \in Tabs : CacheFits(t) /\ AwaitedHasPlace(t)

-----------------------------------------------------------------------------
Environment == <<slot, provider, releases, wire, leaseOpen, posted>>

LEMMA RecordShape ==
    ASSUME RecordTyped
    PROVE  /\ slot.pend \in Pending \cup {None} /\ slot.receipt \in Receipt \cup {None} /\ slot.never \in SUBSET Keys
           /\ slot.pend # None => /\ slot.pend.key \in Keys /\ slot.pend.base \in Nat
                                  /\ slot.pend.dispatched \in BOOLEAN /\ slot.pend.accepted \in BOOLEAN
           /\ slot.receipt # None => slot.receipt.key \in Keys /\ slot.receipt.outcome \in Verdicts
BY DEF RecordTyped, Slot, Pending, Receipt

LEMMA AttemptShape ==
    ASSUME TabsTyped, NEW t \in Tabs
    PROVE  /\ att[t] \in Attempts /\ att[t].pc \in Steps /\ att[t].plan \in Plan \cup {None}
           /\ att[t].base \in Nat /\ att[t].was \in BOOLEAN /\ att[t].made \in BOOLEAN /\ att[t].epoch \in BOOLEAN
           /\ att[t].verdict \in Verdicts \cup {"unconfirmed"}
           /\ att[t].plan # None => Key(t) \in Keys /\ att[t].plan.expect \in BOOLEAN
                                    /\ att[t].plan.prev \in Keys \cup {None}
BY DEF TabsTyped, Attempts, Plan, Key

(* A tab that stops, or does not move.                                      *)
Keeps(u) ==
    \/ att'[u] = att[u]
    \/ att'[u].pc = "idle" /\ att'[u].plan = None
    \/ att'[u].pc \in {"planned", "retained", "discard"} /\ att'[u].plan = att[u].plan /\ att[u].plan # None

(* Where the record, the provider and what was sent stay, so does what is   *)
(* known of them.                                                           *)
LEMMA TabStep ==
    ASSUME CommandInv, UNCHANGED Environment,
           minted \subseteq minted', minted' \subseteq Keys,
           TabsTyped', ResultsKnow', OwnPlans',
           \A u \in Tabs : Keeps(u) \/ TabFits(u)'
    PROVE  CommandInv'
<1>1. RecordTyped'
    BY DEF CommandInv, RecordTyped, Environment
<1>2. ProviderTyped'
    BY DEF CommandInv, ProviderTyped, Environment
<1>3. RecordFits'
    BY DEF CommandInv, RecordFits, Environment, WellBased, Owns, Admitted, CameTo, Spent, IsPending
<1>4. ASSUME NEW u \in Tabs, Keeps(u)
      PROVE  TabFits(u)'
    <2>1. TabFits(u)
        BY DEF CommandInv
    <2>2. CASE att'[u] = att[u]
        BY <2>1, <2>2 DEF TabFits, AttemptKnows, MarkedIsSaved, PlanIsStamped, UnsavedIsNew, BaselineHolds, Unsaved, NewPlan, Key,
              Environment, WellBased, Owns, Admitted, CameTo, Spent, IsPending, ReceiptOf
    <2>3. CASE att'[u].pc = "idle" /\ att'[u].plan = None
        BY <2>3 DEF TabFits, AttemptKnows, MarkedIsSaved, PlanIsStamped, UnsavedIsNew, BaselineHolds, Unsaved, NewPlan
    <2>4. CASE att'[u].pc \in {"planned", "retained", "discard"} /\ att'[u].plan = att[u].plan /\ att[u].plan # None
        BY <2>1, <2>4 DEF TabFits, AttemptKnows, MarkedIsSaved, PlanIsStamped, UnsavedIsNew, BaselineHolds, Unsaved, NewPlan, Key,
              Environment, Spent, IsPending, ReceiptOf
    <2>5. QED
        BY <1>4, <2>2, <2>3, <2>4 DEF Keeps
<1>5. QED
    BY <1>1, <1>2, <1>3, <1>4 DEF CommandInv

LEMMA KeptPlans ==
    ASSUME OwnPlans,
           \A u \in Tabs : \/ att'[u].plan = att[u].plan \/ att'[u].plan = None
                           \/ att'[u].plan # None /\ att'[u].plan.expect
    PROVE  OwnPlans'
BY DEF OwnPlans, NewPlan, Key

LEMMA SpentAreSent ==
    ASSUME CommandInv, leaseOpen
    PROVE  /\ \A k \in Spent : k \in posted /\ k \in Keys
           /\ slot.receipt # None => ReceiptOf \in Spent
           /\ slot.receipt = None => ReceiptOf = None
BY DEF CommandInv, RecordFits, ProviderTyped, Spent, ReceiptOf

(* settledMetadataFor: the pending command becomes the receipt.  It is      *)
(* spent, and every plan that was made before is overtaken.                 *)
LEMMA SettleStep ==
    ASSUME CommandInv, slot.pend # None, NEW v \in Verdicts, CameTo(slot.pend.key, v), slot' = Settled(v),
           UNCHANGED <<provider, releases, wire, leaseOpen, posted, minted>>,
           TabsTyped', ResultsKnow', \A u \in Tabs : Keeps(u)
    PROVE  CommandInv'
<1> DEFINE k == slot.pend.key
<1>1. RecordTyped /\ k \in Keys /\ k # None
    BY RecordShape, MaintenanceAssumption DEF CommandInv
<1>2. [key |-> k, outcome |-> v] \in Receipt
    BY <1>1 DEF Receipt
<1>3. /\ slot'.pend = None /\ slot'.receipt = [key |-> k, outcome |-> v] /\ slot'.never = slot.never
      /\ slot' \in Slot /\ slot'.receipt # None
    BY <1>1, <1>2, MaintenanceAssumption DEF Settled, RecordTyped, Slot
<1>4. provider[k] \in Final /\ k \in posted
    BY <1>1 DEF CameTo, Final, CommandInv, ProviderTyped, Verdicts
<1>5. Spent' = Spent \cup {k} /\ k \notin Spent /\ ReceiptOf' = k
    BY <1>1, <1>3, <1>4 DEF Spent, IsPending, ReceiptOf
<1>6. RecordTyped' /\ ProviderTyped'
    BY <1>3 DEF RecordTyped, CommandInv, ProviderTyped
<1>7. RecordFits'
    BY <1>3, <1>4, <1>5 DEF CommandInv, RecordFits, CameTo, IsPending
<1>8. ASSUME NEW u \in Tabs PROVE TabFits(u)'
    <2>1. TabFits(u)
        BY DEF CommandInv
    <2>2. CASE att'[u] = att[u]
        <3>1. AttemptKnows(u)'
            BY <2>1, <2>2 DEF TabFits, AttemptKnows, Key, WellBased, Owns, Admitted, CameTo
        <3>2. MarkedIsSaved(u)'
            BY <1>3, <1>4, <2>1, <2>2 DEF TabFits, MarkedIsSaved, Key, IsPending
        <3>3. PlanIsStamped(u)'
            BY <1>1, <1>5, <2>1, <2>2, SpentAreSent DEF TabFits, PlanIsStamped, NewPlan, Key
        <3>4. UnsavedIsNew(u)'
            BY <1>3, <2>1, <2>2 DEF TabFits, UnsavedIsNew, Unsaved, NewPlan, Key, Admitted, IsPending
        <3>5. BaselineHolds(u)'
            BY <1>1, <1>5, <2>1, <2>2 DEF TabFits, PlanIsStamped, UnsavedIsNew, Unsaved, BaselineHolds
        <3>6. QED
            BY <2>1, <2>2, <3>1, <3>2, <3>3, <3>4, <3>5 DEF TabFits, Key
    <2>3. CASE att'[u].pc = "idle" /\ att'[u].plan = None
        BY <2>3 DEF TabFits, AttemptKnows, MarkedIsSaved, PlanIsStamped, UnsavedIsNew, BaselineHolds, Unsaved, NewPlan
    <2>4. CASE att'[u].pc \in {"planned", "retained", "discard"} /\ att'[u].plan = att[u].plan /\ att[u].plan # None
        <3>1. PlanIsStamped(u)'
            BY <1>1, <1>5, <2>1, <2>4, SpentAreSent DEF TabFits, PlanIsStamped, NewPlan, Key
        <3>2. QED
            BY <2>1, <2>4, <3>1 DEF TabFits, AttemptKnows, MarkedIsSaved, UnsavedIsNew, BaselineHolds, Unsaved, Key
    <2>5. Keeps(u)
        OBVIOUS
    <2>6. QED
        BY <2>2, <2>3, <2>4, <2>5 DEF Keeps
<1>9. OwnPlans'
    BY KeptPlans DEF CommandInv, Keeps
<1>10. QED
    BY <1>6, <1>7, <1>8, <1>9 DEF CommandInv

(* retain over an empty record: the saved command is new and was never sent. *)
LEMMA SaveStep ==
    ASSUME CommandInv, NEW t \in Tabs, att[t].pc = "retain", slot.pend = None, MayRetain(t),
           slot' = [slot EXCEPT !.pend = [key |-> Key(t), base |-> att[t].base, dispatched |-> FALSE,
                                          accepted |-> FALSE],
                                !.never = @ \ {Key(t)}],
           UNCHANGED <<provider, releases, wire, leaseOpen, posted, minted>>,
           TabsTyped', ResultsKnow', \A u \in Tabs : Keeps(u), att'[t].pc = "retained",
           \A u \in Tabs \ {t} : att'[u] = att[u]
    PROVE  CommandInv'
<1> DEFINE k == Key(t)
           p == [key |-> k, base |-> att[t].base, dispatched |-> FALSE, accepted |-> FALSE]
<1>1. TabsTyped /\ RecordTyped /\ TabFits(t) /\ att[t].plan # None
    BY DEF CommandInv, TabFits
<1>2. k \in Keys /\ att[t].base \in Nat /\ k \in minted
    BY <1>1, AttemptShape DEF TabFits
<1>3. p \in Pending /\ p # None
    <2>1. p \in Pending
        BY <1>2 DEF Pending
    <2>2. QED
        BY <2>1, MaintenanceAssumption
<1>4. /\ slot'.pend = p /\ slot'.receipt = slot.receipt /\ slot'.never = slot.never \ {k}
      /\ slot' \in Slot
    BY <1>1, <1>3 DEF RecordTyped, Slot
<1>5. Unsaved(t) /\ NewPlan(t) /\ att[t].plan.prev = ReceiptOf
    BY <1>1 DEF MayRetain, AssertNew, ReceiptKey, ReceiptOf, Unsaved, NewPlan
<1>6. ~Admitted(k) /\ (leaseOpen => k \notin posted /\ Len(releases) = att[t].base)
    BY <1>1, <1>5 DEF TabFits, UnsavedIsNew, BaselineHolds, Unsaved
<1>7. ReceiptOf' = ReceiptOf /\ (leaseOpen => Spent' = Spent)
    BY <1>4, <1>6 DEF ReceiptOf, Spent, IsPending
<1>8. WellBased(k, att[t].base)
    BY <1>2, <1>6 DEF WellBased, Owns, Admitted, CommandInv, ProviderTyped, Final
<1>9. RecordTyped' /\ ProviderTyped'
    BY <1>2, <1>4 DEF RecordTyped, CommandInv, ProviderTyped
<1>10. RecordFits'
    <2>2. slot'.pend.key = k /\ slot'.pend.base = att[t].base /\ ~slot'.pend.accepted
        BY <1>4
    <2>3. (slot.pend # None => WellBased(slot.pend.key, slot.pend.base))'
        BY <1>8, <2>2 DEF WellBased, Owns
    <2>4. leaseOpen => \A q \in posted : ~IsPending(q)'
        BY <1>6, <2>2 DEF IsPending
    <2>5. QED
        BY <1>4, <1>7, <2>2, <2>3, <2>4 DEF CommandInv, RecordFits, CameTo, Admitted
<1>11. ASSUME NEW u \in Tabs PROVE TabFits(u)'
    <2>1. TabFits(u)
        BY DEF CommandInv
    <2>2. CASE u # t
        <3>0. att'[u] = att[u]
            BY <2>2
        <3>1. AttemptKnows(u)'
            BY <2>1, <3>0 DEF TabFits, AttemptKnows, Key, WellBased, Owns, Admitted, CameTo
        <3>2. MarkedIsSaved(u)'
            BY <1>4, <2>1, <3>0 DEF TabFits, MarkedIsSaved, Key, IsPending
        <3>3. PlanIsStamped(u)'
            BY <1>7, <2>1, <3>0 DEF TabFits, PlanIsStamped, NewPlan, Key
        <3>4. UnsavedIsNew(u)'
            BY <1>4, <1>5, <2>1, <2>2, <3>0 DEF TabFits, UnsavedIsNew, Unsaved, NewPlan, Key, Admitted, IsPending,
                  CommandInv, OwnPlans
        <3>5. BaselineHolds(u)'
            BY <1>3, <1>4, <1>6, <1>7, <2>1, <3>0 DEF TabFits, BaselineHolds
        <3>6. QED
            BY <2>1, <3>0, <3>1, <3>2, <3>3, <3>4, <3>5 DEF TabFits, Key
    <2>3. CASE u = t
        <3>1. att'[t].plan = att[t].plan /\ att'[t].pc = "retained"
            BY <1>1 DEF Keeps
        <3>2. PlanIsStamped(t)'
            BY <1>1, <1>7, <3>1 DEF TabFits, PlanIsStamped, NewPlan, Key
        <3>3. QED
            BY <1>1, <2>3, <3>1, <3>2 DEF TabFits, AttemptKnows, MarkedIsSaved, UnsavedIsNew, BaselineHolds, Unsaved, Key
    <2>4. QED
        BY <2>2, <2>3
<1>12. OwnPlans'
    BY KeptPlans DEF CommandInv, Keeps
<1>13. QED
    BY <1>9, <1>10, <1>11, <1>12 DEF CommandInv

(* The provider moves: what it has said stands, and no release but the      *)
(* pending command's appears over an open lease.                            *)
LEMMA ProviderStep ==
    ASSUME CommandInv, UNCHANGED <<slot, tabVars, leaseOpen, posted, minted>>, ProviderTyped',
           \A k \in Keys : /\ Admitted(k) => Admitted(k)'
                           /\ provider[k] \in Final => provider'[k] = provider[k]
                           /\ ~leaseOpen /\ ~Admitted(k) => ~Admitted(k)',
           leaseOpen /\ slot.pend = None => Len(releases') = Len(releases),
           slot.pend # None => WellBased(slot.pend.key, slot.pend.base)',
           \A u \in Tabs : att[u].pc \in {"marked", "posted", "admitted", "waiting", "reading"}
                              => WellBased(Key(u), att[u].base)'
    PROVE  CommandInv'
<1>1. TabsTyped' /\ RecordTyped'
    BY DEF CommandInv, TabsTyped, RecordTyped, tabVars
<1>2. \A k \in Keys, v \in Verdicts : CameTo(k, v) => CameTo(k, v)'
    BY DEF CameTo, Final
<1>3. ResultsKnow'
    BY <1>2 DEF CommandInv, ResultsKnow, TabsTyped, tabVars
<1>4. RecordFits'
    <2>1. (slot.pend # None => (slot.pend.accepted => Admitted(slot.pend.key)))'
        BY RecordShape DEF CommandInv, RecordFits
    <2>2. (slot.receipt # None => CameTo(slot.receipt.key, slot.receipt.outcome))'
        BY <1>2, RecordShape DEF CommandInv, RecordFits
    <2>3. Spent' = Spent /\ \A k \in Spent : k \in Keys
        BY DEF Spent, IsPending, CommandInv, ProviderTyped
    <2>4. (leaseOpen =>
             /\ \A k \in posted : IsPending(k) => slot.pend.dispatched
             /\ \A k \in Spent : provider[k] \in Final
             /\ slot.receipt # None => slot.receipt.key \in Spent
             /\ slot.never \cap posted = {}
             /\ slot.pend # None => slot.pend.key \notin slot.never)'
        BY <2>3 DEF CommandInv, RecordFits, IsPending
    <2>5. QED
        BY <2>1, <2>2, <2>4 DEF RecordFits
<1>5. ASSUME NEW u \in Tabs PROVE TabFits(u)'
    <2>1. TabFits(u) /\ att'[u] = att[u] /\ (att[u].plan # None => Key(u) \in Keys)
        BY AttemptShape DEF CommandInv, tabVars
    <2>2. AttemptKnows(u)'
        <3>1. att[u].pc # "idle" => Key(u) \in Keys
            BY <2>1 DEF TabFits
        <3>2. att[u].pc \in {"judged", "read"} => att[u].verdict \in Verdicts
            BY <2>1 DEF TabFits, AttemptKnows
        <3>3. (att[u].pc = "refused" => provider[Key(u)] = "refused")'
            BY <2>1, <3>1 DEF TabFits, AttemptKnows, Final, Key
        <3>4. (att[u].pc \in {"judged", "read"} => att[u].verdict \in Verdicts /\ CameTo(Key(u), att[u].verdict))'
            BY <2>1, <3>1, <3>2 DEF TabFits, AttemptKnows, Key, CameTo, Final
        <3>5. (att[u].pc \in {"admitted", "waiting", "reading"} => Admitted(Key(u)))'
            BY <2>1, <3>1 DEF TabFits, AttemptKnows, Key, Admitted
        <3>6. (att[u].pc = "posted" => Key(u) \in posted)'
            BY <2>1 DEF TabFits, AttemptKnows, Key
        <3>7. QED
            BY <2>1, <3>3, <3>4, <3>5, <3>6 DEF AttemptKnows, Key, WellBased, Owns
    <2>3. MarkedIsSaved(u)' /\ PlanIsStamped(u)'
        BY <2>1 DEF TabFits, MarkedIsSaved, PlanIsStamped, NewPlan, Key, IsPending, Spent, ReceiptOf
    <2>4. UnsavedIsNew(u)'
        <3>1. Unsaved(u) /\ leaseOpen => ~Admitted(Key(u))'
            BY <2>1 DEF TabFits, UnsavedIsNew, NewPlan, Admitted, ProviderTyped, Key
        <3>2. Unsaved(u) /\ ~leaseOpen => ~Admitted(Key(u))'
            BY <2>1 DEF TabFits, UnsavedIsNew, NewPlan, Key
        <3>3. QED
            BY <2>1, <3>1, <3>2 DEF TabFits, UnsavedIsNew, Unsaved, NewPlan, Key, IsPending, Admitted
    <2>5. BaselineHolds(u)'
        BY <2>1 DEF TabFits, BaselineHolds, ReceiptOf
    <2>6. QED
        BY <2>1, <2>2, <2>3, <2>4, <2>5 DEF TabFits, Key
<1>6. OwnPlans'
    BY DEF CommandInv, OwnPlans, NewPlan, Key, tabVars
<1>7. QED
    BY <1>1, <1>3, <1>4, <1>5, <1>6 DEF CommandInv

-----------------------------------------------------------------------------
(* The provider's actions.                                                  *)
LEMMA DeliverStep ==
    ASSUME CommandInv, NEW k \in Keys, Deliver(k)
    PROVE  CommandInv'
<1>1. /\ UNCHANGED <<slot, tabVars, releases, leaseOpen, posted, minted>> /\ wire' \subseteq wire
      /\ k \in wire /\ provider \in [Keys -> {"unknown", "pending", "running"} \cup Final]
      /\ k \in posted
    BY DEF Deliver, boundVars, CommandInv, ProviderTyped
<1>2. \/ UNCHANGED provider
      \/ provider[k] = "unknown" /\ provider' = [provider EXCEPT ![k] = "refused"]
      \/ provider[k] = "unknown" /\ leaseOpen /\ provider' = [provider EXCEPT ![k] = "pending"]
    BY DEF Deliver
<1>3. ProviderTyped'
    <2>1. provider' \in [Keys -> {"unknown", "pending", "running"} \cup Final]
        BY <1>1, <1>2 DEF Final
    <2>2. \A j \in Keys : provider'[j] # "unknown" => j \in posted'
        BY <1>1, <1>2 DEF CommandInv, ProviderTyped
    <2>3. QED
        BY <1>1, <2>1, <2>2 DEF CommandInv, ProviderTyped
<1>4. \A j \in Keys : /\ Admitted(j) => Admitted(j)'
                      /\ provider[j] \in Final => provider'[j] = provider[j]
                      /\ ~leaseOpen /\ ~Admitted(j) => ~Admitted(j)'
    BY <1>1, <1>2 DEF Admitted, Final
<1>5. \A j \in Keys : \A b : WellBased(j, b) => WellBased(j, b)'
    BY <1>1, <1>2 DEF WellBased, Owns
<1>6. slot.pend # None => WellBased(slot.pend.key, slot.pend.base)'
    BY <1>1, <1>5, RecordShape DEF CommandInv, RecordFits
<1>7. \A u \in Tabs : att[u].pc \in {"marked", "posted", "admitted", "waiting", "reading"}
                         => WellBased(Key(u), att[u].base)'
    <2>1. \A u \in Tabs : att[u].pc # "idle" => Key(u) \in Keys
        BY AttemptShape DEF CommandInv, TabFits
    <2>2. QED
        BY <1>1, <1>5, <2>1 DEF CommandInv, TabFits, AttemptKnows, Key, tabVars
<1>8. QED
    BY <1>1, <1>3, <1>4, <1>6, <1>7, ProviderStep

LEMMA FinishReleaseStep ==
    ASSUME CommandInv, NEW k \in Keys, FinishRelease(k)
    PROVE  CommandInv'
<1>1. /\ UNCHANGED <<slot, tabVars, releases, wire, leaseOpen, posted, minted>>
      /\ provider \in [Keys -> {"unknown", "pending", "running"} \cup Final]
      /\ provider[k] = "running"
    BY DEF FinishRelease, boundVars, CommandInv, ProviderTyped
<1>2. PICK end \in {"active", "failed"} : provider' = [provider EXCEPT ![k] = end]
    BY DEF FinishRelease
<1>3. ProviderTyped'
    <2>1. provider' \in [Keys -> {"unknown", "pending", "running"} \cup Final]
        BY <1>1, <1>2 DEF Final
    <2>2. \A j \in Keys : provider'[j] # "unknown" => j \in posted'
        BY <1>1, <1>2 DEF CommandInv, ProviderTyped
    <2>3. QED
        BY <1>1, <2>1, <2>2 DEF CommandInv, ProviderTyped
<1>4. \A j \in Keys : /\ Admitted(j) => Admitted(j)'
                      /\ provider[j] \in Final => provider'[j] = provider[j]
                      /\ ~leaseOpen /\ ~Admitted(j) => ~Admitted(j)'
    BY <1>1, <1>2 DEF Admitted, Final
<1>5. \A j \in Keys : \A b : WellBased(j, b) => WellBased(j, b)'
    BY <1>1, <1>2 DEF WellBased, Owns
<1>6. slot.pend # None => WellBased(slot.pend.key, slot.pend.base)'
    BY <1>1, <1>5, RecordShape DEF CommandInv, RecordFits
<1>7. \A u \in Tabs : att[u].pc \in {"marked", "posted", "admitted", "waiting", "reading"}
                         => WellBased(Key(u), att[u].base)'
    <2>1. \A u \in Tabs : att[u].pc # "idle" => Key(u) \in Keys
        BY AttemptShape DEF CommandInv, TabFits
    <2>2. QED
        BY <1>1, <1>5, <2>1 DEF CommandInv, TabFits, AttemptKnows, Key, tabVars
<1>8. QED
    BY <1>1, <1>3, <1>4, <1>6, <1>7, ProviderStep

(* Only the pending command can be released, so every baseline stays honest. *)
LEMMA StartReleaseStep ==
    ASSUME CommandInv, NEW k \in Keys, StartRelease(k)
    PROVE  CommandInv'
<1>1. /\ UNCHANGED <<slot, tabVars, wire, leaseOpen, posted, minted>> /\ leaseOpen
      /\ provider \in [Keys -> {"unknown", "pending", "running"} \cup Final]
      /\ provider[k] = "pending" /\ provider' = [provider EXCEPT ![k] = "running"]
      /\ releases \in Seq(Keys) /\ releases' = Append(releases, k)
    BY DEF StartRelease, boundVars, CommandInv, ProviderTyped
<1>2. k \in posted /\ IsPending(k)
    BY <1>1 DEF CommandInv, ProviderTyped, RecordFits, Spent, Final
<1>3. /\ releases' \in Seq(Keys) /\ Len(releases') = Len(releases) + 1 /\ releases'[Len(releases) + 1] = k
      /\ Len(releases) \in Nat
      /\ \A i \in 1..Len(releases) : releases'[i] = releases[i]
    BY <1>1
<1>4. ProviderTyped'
    <2>1. provider' \in [Keys -> {"unknown", "pending", "running"} \cup Final]
        BY <1>1 DEF Final
    <2>2. \A j \in Keys : provider'[j] # "unknown" => j \in posted'
        BY <1>1 DEF CommandInv, ProviderTyped
    <2>3. \A i \in DOMAIN releases' : releases'[i] \in posted'
        BY <1>1, <1>2, <1>3 DEF CommandInv, ProviderTyped
    <2>4. QED
        BY <1>1, <1>3, <2>1, <2>2, <2>3 DEF CommandInv, ProviderTyped
<1>5. \A j \in Keys : /\ Admitted(j) => Admitted(j)'
                      /\ provider[j] \in Final => provider'[j] = provider[j]
                      /\ ~leaseOpen /\ ~Admitted(j) => ~Admitted(j)'
    BY <1>1 DEF Admitted, Final
<1>6. \A j \in Keys, b \in Nat :
        WellBased(j, b) /\ (j = k \/ provider[j] \notin {"unknown", "pending"}) => WellBased(j, b)'
    <2>1. SUFFICES ASSUME NEW j \in Keys, NEW b \in Nat, WellBased(j, b),
                          j = k \/ provider[j] \notin {"unknown", "pending"}
                   PROVE  WellBased(j, b)'
        OBVIOUS
    <2>2. CASE provider[j] = "refused"
        BY <1>1, <2>2 DEF WellBased
    <2>3. CASE Len(releases) = b /\ provider[j] \in {"unknown", "pending"}
        BY <1>3, <2>1, <2>3 DEF WellBased, Owns
    <2>4. CASE Len(releases) > b /\ releases[b + 1] = j
        BY <1>3, <2>4 DEF WellBased, Owns
    <2>5. QED
        BY <1>1, <2>1, <2>2, <2>3, <2>4 DEF WellBased, Owns
<1>7. slot.pend # None => WellBased(slot.pend.key, slot.pend.base)'
    BY <1>1, <1>2, <1>6, RecordShape DEF CommandInv, RecordFits, IsPending
<1>8. ASSUME NEW u \in Tabs, att[u].pc \in {"marked", "posted", "admitted", "waiting", "reading"}
      PROVE  WellBased(Key(u), att[u].base)'
    <2>1. TabFits(u) /\ Key(u) \in Keys /\ att[u].base \in Nat
        BY <1>8, AttemptShape DEF CommandInv, TabFits
    <2>2. WellBased(Key(u), att[u].base)
        BY <1>8, <2>1 DEF TabFits, AttemptKnows
    <2>3. Key(u) \in posted \/ IsPending(Key(u))
        BY <1>1, <1>8, <2>1 DEF TabFits, AttemptKnows, MarkedIsSaved, Admitted, CommandInv, ProviderTyped
    <2>4. Key(u) = k \/ provider[Key(u)] \notin {"unknown", "pending"}
        BY <1>1, <1>2, <2>3 DEF CommandInv, RecordFits, Spent, IsPending, Final
    <2>5. att'[u] = att[u]
        BY <1>1 DEF tabVars
    <2>6. QED
        BY <1>6, <2>1, <2>2, <2>4, <2>5 DEF Key
<1>9. QED
    BY <1>1, <1>2, <1>4, <1>5, <1>7, <1>8, ProviderStep DEF IsPending

-----------------------------------------------------------------------------
(* The record's flags.                                                      *)
LEMMA FlagStep ==
    ASSUME CommandInv, NEW t \in Tabs, slot.pend # None,
           slot'.pend \in Pending, slot'.pend.key = slot.pend.key, slot'.pend.base = slot.pend.base,
           slot'.pend.dispatched, slot'.pend.accepted => Admitted(slot.pend.key),
           slot'.receipt = slot.receipt, slot'.never = slot.never, slot' \in Slot,
           UNCHANGED <<provider, releases, wire, leaseOpen, posted, minted, results>>,
           TabsTyped', \A u \in Tabs \ {t} : att'[u] = att[u], att'[t].plan = att[t].plan, TabFits(t)'
    PROVE  CommandInv'
<1>1. slot'.pend # None
    BY MaintenanceAssumption
<1>2. Spent' = Spent /\ ReceiptOf' = ReceiptOf /\ \A k : IsPending(k)' = IsPending(k)
    BY <1>1 DEF Spent, IsPending, ReceiptOf
<1>3. RecordTyped' /\ ProviderTyped'
    BY DEF RecordTyped, CommandInv, ProviderTyped
<1>4. RecordFits'
    <2>1. (slot.pend # None => /\ WellBased(slot.pend.key, slot.pend.base)
                               /\ slot.pend.accepted => Admitted(slot.pend.key))'
        BY DEF CommandInv, RecordFits, WellBased, Owns, Admitted
    <2>2. QED
        BY <1>1, <1>2, <2>1 DEF CommandInv, RecordFits, CameTo
<1>5. ResultsKnow'
    BY DEF CommandInv, ResultsKnow, CameTo
<1>6. ASSUME NEW u \in Tabs \ {t} PROVE TabFits(u)'
    <2>1. TabFits(u) /\ att'[u] = att[u]
        BY DEF CommandInv
    <2>2. AttemptKnows(u)' /\ UnsavedIsNew(u)' /\ PlanIsStamped(u)'
        BY <1>2, <2>1 DEF TabFits, AttemptKnows, UnsavedIsNew, PlanIsStamped, Unsaved, NewPlan, Key, WellBased, Owns,
              Admitted, CameTo
    <2>3. MarkedIsSaved(u)' /\ BaselineHolds(u)'
        BY <1>1, <1>2, <2>1 DEF TabFits, MarkedIsSaved, BaselineHolds, Key
    <2>4. QED
        BY <2>1, <2>2, <2>3 DEF TabFits, Key
<1>7. OwnPlans'
    BY KeptPlans DEF CommandInv
<1>8. QED
    BY <1>3, <1>4, <1>5, <1>6, <1>7 DEF CommandInv

LEMMA MarkDispatchedStep ==
    ASSUME CommandInv, NEW t \in Tabs, MarkDispatched(t)
    PROVE  CommandInv'
<1>1. /\ att[t].pc = "retained" /\ Matches(Key(t), att[t].base)
      /\ slot' = [slot EXCEPT !.pend.dispatched = TRUE]
      /\ att' = [att EXCEPT ![t].pc = "marked"]
      /\ UNCHANGED <<results, places, providerVars, posted, boundVars>>
    BY DEF MarkDispatched, Goto
<1>2. /\ TabFits(t) /\ TabsTyped /\ RecordTyped
      /\ slot.pend # None /\ slot.pend.key = Key(t) /\ slot.pend.base = att[t].base /\ slot.pend \in Pending
    BY <1>1, RecordShape DEF CommandInv, Matches, IsPending
<1>3. /\ slot'.pend = [slot.pend EXCEPT !.dispatched = TRUE] /\ slot'.receipt = slot.receipt
      /\ slot'.never = slot.never
    BY <1>1, <1>2 DEF RecordTyped, Slot
<1>4. /\ slot'.pend \in Pending /\ slot'.pend.key = slot.pend.key /\ slot'.pend.base = slot.pend.base
      /\ slot'.pend.dispatched /\ slot'.pend.accepted = slot.pend.accepted
    BY <1>2, <1>3 DEF Pending
<1>5. slot' \in Slot
    BY <1>1, <1>2, <1>4 DEF RecordTyped, Slot
<1>6. /\ att' \in [Tabs -> Attempts] /\ att'[t].pc = "marked" /\ att'[t].plan = att[t].plan
      /\ att'[t].base = att[t].base /\ \A u \in Tabs \ {t} : att'[u] = att[u]
    BY ZenonT(40), <1>1, <1>2 DEF TabsTyped, Attempts, Steps
<1>7. TabsTyped' /\ UNCHANGED <<provider, releases, wire, leaseOpen, posted, minted, results>>
    BY <1>1, <1>2, <1>6 DEF TabsTyped, providerVars, boundVars
<1>8. slot'.pend # None
    BY <1>4, MaintenanceAssumption
<1>9. TabFits(t)'
    <2>1. WellBased(Key(t), att[t].base)
        BY <1>2 DEF CommandInv, RecordFits
    <2>2. AttemptKnows(t)'
        BY <1>6, <1>7, <2>1 DEF AttemptKnows, Key, WellBased, Owns
    <2>3. MarkedIsSaved(t)'
        BY <1>2, <1>3, <1>4, <1>6, <1>7, <1>8 DEF MarkedIsSaved, Key, IsPending, CommandInv, RecordFits
    <2>4. PlanIsStamped(t)'
        BY <1>2, <1>3, <1>4, <1>6, <1>7, <1>8 DEF TabFits, PlanIsStamped, NewPlan, Key, Spent, IsPending, ReceiptOf
    <2>5. UnsavedIsNew(t)' /\ BaselineHolds(t)'
        BY <1>6 DEF UnsavedIsNew, BaselineHolds, Unsaved
    <2>6. QED
        BY <1>1, <1>2, <1>6, <1>7, <2>2, <2>3, <2>4, <2>5 DEF TabFits, Key
<1>10. slot.pend.accepted => Admitted(slot.pend.key)
    BY <1>2 DEF CommandInv, RecordFits
<1>11. QED
    BY <1>2, <1>3, <1>4, <1>5, <1>6, <1>7, <1>9, <1>10, FlagStep

(* discardUnsubmittedMaintenanceOperation: what it proves was never sent was *)
(* not, and the lease is as it was before the command.                      *)
LEMMA DiscardStep ==
    ASSUME CommandInv, NEW t \in Tabs, Discard(t)
    PROVE  CommandInv'
<1> DEFINE k == Key(t)
<1>1. /\ att[t].pc = "discard" /\ Matches(k, att[t].base) /\ ~slot.pend.dispatched
      /\ slot' = [slot EXCEPT !.pend = None, !.never = @ \cup {k}]
      /\ att' = [att EXCEPT ![t] = Ended(t)] /\ places' = [places EXCEPT ![t] = Released(t, k, slot')]
      /\ UNCHANGED <<results, providerVars, posted, boundVars>>
    BY DEF Discard, Finish
<1>2. /\ TabFits(t) /\ TabsTyped /\ RecordTyped /\ att[t].plan # None
      /\ slot.pend # None /\ slot.pend.key = k /\ k \in Keys
    BY <1>1, RecordShape DEF CommandInv, Matches, IsPending, TabFits
<1>3. /\ slot'.pend = None /\ slot'.receipt = slot.receipt /\ slot'.never = slot.never \cup {k}
      /\ slot' \in Slot
    BY <1>1, <1>2 DEF RecordTyped, Slot
<1>4. leaseOpen => k \notin posted
    BY <1>1, <1>2 DEF CommandInv, RecordFits, IsPending
<1>5. ReceiptOf' = ReceiptOf /\ (leaseOpen => Spent' = Spent)
    BY <1>1, <1>2, <1>3, <1>4 DEF ReceiptOf, Spent, IsPending
<1>6. leaseOpen => Len(releases) = slot.pend.base
    <2>1. leaseOpen => WellBased(k, slot.pend.base) /\ provider[k] = "unknown"
        BY <1>2, <1>4 DEF CommandInv, RecordFits, ProviderTyped
    <2>2. slot.pend.base \in Nat /\ releases \in Seq(Keys)
        BY <1>2, RecordShape DEF CommandInv, ProviderTyped
    <2>3. \A b \in Nat : leaseOpen /\ Len(releases) > b => releases[b + 1] \in posted
        BY <2>2 DEF CommandInv, ProviderTyped
    <2>4. QED
        BY <1>4, <2>1, <2>2, <2>3 DEF WellBased, Owns
<1>7. UNCHANGED <<provider, releases, wire, leaseOpen, posted, minted>>
    BY <1>1 DEF providerVars, boundVars
<1>8. Ended(t) \in Attempts /\ Ended(t).pc = "planned" /\ Ended(t).plan = att[t].plan
    BY <1>2, AttemptShape DEF Ended, NoAttempt, Attempts, Steps
<1>9. /\ att' \in [Tabs -> Attempts] /\ att'[t].pc = "planned" /\ att'[t].plan = att[t].plan
      /\ \A u \in Tabs \ {t} : att'[u] = att[u]
    BY <1>1, <1>2, <1>8 DEF TabsTyped
<1>10. TabsTyped'
    <2>1. Released(t, k, slot') \in [Keys -> [held : BOOLEAN, kept : BOOLEAN]]
        <3>1. places[t] \in [Keys -> [held : BOOLEAN, kept : BOOLEAN]]
            BY <1>2 DEF TabsTyped
        <3>2. QED
            BY <1>2, <3>1, <1>3 DEF Released
    <2>2. QED
        BY <1>1, <1>2, <1>9, <2>1 DEF TabsTyped
<1>11. RecordTyped' /\ ProviderTyped' /\ ResultsKnow'
    BY <1>1, <1>3, <1>7 DEF RecordTyped, CommandInv, ProviderTyped, ResultsKnow, CameTo
<1>12. RecordFits'
    BY <1>3, <1>4, <1>5, <1>7 DEF CommandInv, RecordFits, CameTo, IsPending
<1>13. ASSUME NEW u \in Tabs PROVE TabFits(u)'
    <2>1. TabFits(u)
        BY DEF CommandInv
    <2>2. CASE u # t
        <3>0. att'[u] = att[u]
            BY <1>9, <2>2
        <3>1. AttemptKnows(u)'
            BY <1>7, <2>1, <3>0 DEF TabFits, AttemptKnows, Key, WellBased, Owns, Admitted, CameTo
        <3>2. MarkedIsSaved(u)'
            BY <1>1, <1>3, <1>4, <1>7, <2>1, <3>0 DEF TabFits, MarkedIsSaved, Key, IsPending
        <3>3. PlanIsStamped(u)'
            BY <1>5, <1>7, <2>1, <3>0 DEF TabFits, PlanIsStamped, NewPlan, Key
        <3>4. UnsavedIsNew(u)'
            BY <1>3, <1>7, <2>1, <3>0 DEF TabFits, UnsavedIsNew, Unsaved, NewPlan, Key, Admitted, IsPending
        <3>5. BaselineHolds(u)'
            BY <1>2, <1>3, <1>5, <1>6, <1>7, <2>1, <3>0 DEF TabFits, BaselineHolds
        <3>6. QED
            BY <1>7, <2>1, <3>0, <3>1, <3>2, <3>3, <3>4, <3>5 DEF TabFits, Key
    <2>3. CASE u = t
        <3>1. PlanIsStamped(t)'
            BY <1>2, <1>5, <1>7, <1>9 DEF TabFits, PlanIsStamped, NewPlan, Key
        <3>2. QED
            BY <1>2, <1>7, <1>9, <2>3, <3>1 DEF TabFits, AttemptKnows, MarkedIsSaved, UnsavedIsNew, BaselineHolds,
                  Unsaved, Key
    <2>4. QED
        BY <2>2, <2>3
<1>14. OwnPlans'
    BY <1>9, KeptPlans DEF CommandInv
<1>15. QED
    BY <1>10, <1>11, <1>12, <1>13, <1>14 DEF CommandInv

-----------------------------------------------------------------------------
(* The steps of a tab that leave the record and the provider alone.         *)
Places == [Keys -> [held : BOOLEAN, kept : BOOLEAN]]

LEMMA PlaceShapes ==
    ASSUME TabsTyped, NEW t \in Tabs, NEW k \in Keys
    PROVE  /\ [j \in Keys |-> FreePlace] \in Places /\ Reserved(t, k) \in Places
           /\ \A saved : Released(t, k, saved) \in Places
           /\ \A q \in Places : [places EXCEPT ![t] = q] \in [Tabs -> Places]
           /\ \A current : FreedBy(t, k, current) \in [Tabs -> Places]
<1>1. places \in [Tabs -> Places] /\ places[t] \in Places
    BY DEF TabsTyped, Places
<1>2. FreePlace \in [held : BOOLEAN, kept : BOOLEAN]
    BY DEF FreePlace
<1>3. [j \in Keys |-> FreePlace] \in Places
    BY <1>2 DEF Places
<1>4. Reserved(t, k) \in Places
    BY <1>1 DEF Places, Reserved
<1>5. ASSUME NEW saved PROVE Released(t, k, saved) \in Places
    BY <1>1 DEF Places, Released
<1>6. ASSUME NEW current PROVE FreedBy(t, k, current) \in [Tabs -> Places]
    BY <1>1, <1>2 DEF Places, FreedBy
<1>7. QED
    BY <1>1, <1>3, <1>4, <1>5, <1>6

LEMMA EndedShape ==
    ASSUME TabsTyped, NEW t \in Tabs
    PROVE  /\ NoAttempt \in Attempts /\ NoAttempt.pc = "idle" /\ NoAttempt.plan = None
           /\ Ended(t) \in Attempts /\ Ended(t).pc = "planned" /\ Ended(t).plan = att[t].plan
<1>1. NoAttempt \in Attempts /\ NoAttempt.pc = "idle" /\ NoAttempt.plan = None
    BY DEF NoAttempt, Attempts, Steps
<1>2. Ended(t) \in Attempts /\ Ended(t).pc = "planned" /\ Ended(t).plan = att[t].plan
    BY AttemptShape DEF Ended, NoAttempt, Attempts, Steps
<1>3. QED
    BY <1>1, <1>2

LEMMA MoveStep ==
    ASSUME CommandInv, NEW t \in Tabs, NEW a \in Attempts, att' = [att EXCEPT ![t] = a],
           UNCHANGED Environment, UNCHANGED <<minted, results>>, places' \in [Tabs -> Places],
           a.plan \in {att[t].plan, None} \/ (a.plan # None /\ a.plan.expect),
           Keeps(t) \/ TabFits(t)'
    PROVE  CommandInv'
<1>1. /\ att' \in [Tabs -> Attempts] /\ att'[t] = a /\ \A u \in Tabs \ {t} : att'[u] = att[u]
    BY DEF CommandInv, TabsTyped
<1>2. TabsTyped' /\ ResultsKnow'
    BY <1>1 DEF CommandInv, TabsTyped, Places, ResultsKnow, CameTo, Environment
<1>3. OwnPlans'
    BY <1>1, KeptPlans DEF CommandInv
<1>4. \A u \in Tabs : Keeps(u) \/ TabFits(u)'
    BY <1>1 DEF Keeps
<1>5. minted \subseteq minted' /\ minted' \subseteq Keys
    BY DEF CommandInv, ProviderTyped
<1>6. QED
    BY <1>2, <1>3, <1>4, <1>5, TabStep

LEMMA FinishStep ==
    ASSUME CommandInv, NEW t \in Tabs, att[t].pc # "idle", Finish(t), UNCHANGED Environment,
           UNCHANGED <<minted, results>>
    PROVE  CommandInv'
<1>1. TabsTyped /\ att[t].plan # None /\ Key(t) \in Keys
    BY AttemptShape DEF CommandInv, TabFits
<1>2. places' \in [Tabs -> Places]
    BY <1>1, PlaceShapes DEF Finish
<1>3. att'[t] = Ended(t)
    BY <1>1 DEF Finish, TabsTyped
<1>4. Keeps(t)
    BY <1>1, <1>3, EndedShape DEF Keeps
<1>5. QED
    BY <1>1, <1>2, <1>4, EndedShape, MoveStep DEF Finish

(* The steps that end or refuse an attempt, or go on to discard.            *)
LEMMA EndingSteps ==
    ASSUME CommandInv, NEW t \in Tabs,
           \/ BaselineFails(t) \/ RetainFails(t) \/ DispatchSuperseded(t) \/ DispatchFails(t)
           \/ DiscardFails(t) \/ GiveUp(t) \/ BeginRefused(t) \/ ReadDropped(t)
    PROVE  CommandInv'
<1>1. UNCHANGED Environment /\ UNCHANGED <<minted, results>> /\ att[t].pc # "idle"
    BY DEF BaselineFails, RetainFails, DispatchSuperseded, DispatchFails, DiscardFails, GiveUp, BeginRefused,
           ReadDropped, Environment, providerVars, boundVars, Fault
<1>2. CASE Finish(t)
    BY <1>1, <1>2, FinishStep
<1>3. TabsTyped /\ att[t].plan # None /\ places \in [Tabs -> Places] /\ att[t] \in Attempts
    BY <1>1, AttemptShape DEF CommandInv, TabFits, TabsTyped, Places
<1>4. CASE DispatchFails(t) /\ att[t].made
    <2> DEFINE a == [att[t] EXCEPT !.pc = "discard"]
    <2>1. a \in Attempts /\ a.pc = "discard" /\ a.plan = att[t].plan
        BY <1>3 DEF Attempts, Steps
    <2>2. att' = [att EXCEPT ![t] = a] /\ places' = places
        BY <1>4 DEF DispatchFails, Goto
    <2>3. Keeps(t)
        BY <1>3, <2>1, <2>2 DEF Keeps, TabsTyped
    <2>4. QED
        BY <1>1, <1>3, <2>1, <2>2, <2>3, MoveStep
<1>5. CASE BeginRefused(t)
    <2>1. att' = [att EXCEPT ![t] = Ended(t)] /\ places' = places
        BY <1>5 DEF BeginRefused
    <2>2. Keeps(t)
        BY <1>3, <2>1, EndedShape DEF Keeps, TabsTyped
    <2>3. QED
        BY <1>1, <1>3, <2>1, <2>2, EndedShape, MoveStep
<1>6. CASE ReadDropped(t)
    <2>1. att' = [att EXCEPT ![t] = NoAttempt] /\ places' = places
        BY <1>6 DEF ReadDropped
    <2>2. Keeps(t)
        BY <1>3, <2>1, EndedShape DEF Keeps, TabsTyped
    <2>3. QED
        BY <1>1, <1>3, <2>1, <2>2, EndedShape, MoveStep
<1>7. QED
    BY <1>2, <1>4, <1>5, <1>6 DEF BaselineFails, RetainFails, DispatchSuperseded, DispatchFails, DiscardFails, GiveUp

(* A plan over the saved command is stamped by nothing, and needs nothing.  *)
LEMMA PlanRecoveryStep ==
    ASSUME CommandInv, NEW t \in Tabs, PlanRecovery(t) \/ ReadStarts(t)
    PROVE  CommandInv'
<1> DEFINE plan == [key |-> slot.pend.key, expect |-> TRUE, prev |-> None]
<1>1. /\ UNCHANGED Environment /\ UNCHANGED <<minted, results, places>> /\ slot.pend # None
    BY DEF PlanRecovery, ReadStarts, Environment, providerVars, boundVars
<1>2. /\ TabsTyped /\ RecordTyped /\ places \in [Tabs -> Places]
      /\ slot.pend.key \in minted /\ slot.pend.key \in Keys /\ slot.pend.base \in Nat
    BY <1>1, RecordShape DEF CommandInv, RecordTyped, TabsTyped, Places
<1>3. plan \in Plan
    BY <1>2 DEF Plan
<1>4. plan # None /\ plan.key = slot.pend.key /\ plan.expect
    BY <1>3, MaintenanceAssumption
<1>5. CASE PlanRecovery(t)
    <2> DEFINE a == [NoAttempt EXCEPT !.pc = "planned", !.plan = plan]
    <2>1. a \in Attempts /\ a.pc = "planned" /\ a.plan = plan
        BY <1>2, <1>3 DEF NoAttempt, Attempts, Steps
    <2>2. att' = [att EXCEPT ![t] = a] /\ att'[t] = a
        BY <1>2, <1>5 DEF PlanRecovery, PlanAs, TabsTyped
    <2>3. /\ att'[t].pc = "planned" /\ att'[t].plan # None /\ att'[t].plan.expect
          /\ att'[t].plan.key = slot.pend.key /\ slot.pend.key \in minted'
        BY <1>1, <1>2, <1>4, <2>1, <2>2
    <2>4. TabFits(t)'
        BY ONLY <2>3 DEF TabFits, AttemptKnows, MarkedIsSaved, PlanIsStamped, UnsavedIsNew, BaselineHolds, Unsaved,
              NewPlan, Key
    <2>5. QED
        BY <1>1, <1>2, <1>4, <2>1, <2>2, <2>4, MoveStep
<1>6. CASE ReadStarts(t)
    <2> DEFINE a == [NoAttempt EXCEPT !.pc = "reading", !.base = slot.pend.base, !.epoch = TRUE, !.plan = plan]
    <2>1. a \in Attempts /\ a.pc = "reading" /\ a.plan = plan /\ a.base = slot.pend.base
        BY <1>2, <1>3 DEF NoAttempt, Attempts, Steps
    <2>2. att' = [att EXCEPT ![t] = a] /\ att'[t] = a
        BY <1>2, <1>6 DEF ReadStarts, TabsTyped
    <2>3. WellBased(slot.pend.key, slot.pend.base) /\ Admitted(slot.pend.key)
        BY <1>1, <1>6 DEF ReadStarts, CommandInv, RecordFits
    <2>4. /\ att'[t].pc = "reading" /\ att'[t].plan # None /\ att'[t].plan.expect
          /\ att'[t].plan.key = slot.pend.key /\ att'[t].base = slot.pend.base /\ slot.pend.key \in minted'
        BY <1>1, <1>2, <1>4, <2>1, <2>2
    <2>5. WellBased(slot.pend.key, slot.pend.base)' /\ Admitted(slot.pend.key)'
        BY <1>1, <2>3 DEF WellBased, Owns, Admitted, Environment
    <2>6. slot' = slot
        BY <1>1 DEF Environment
    <2>7. TabFits(t)'
        BY ONLY <2>4, <2>5, <2>6 DEF TabFits, AttemptKnows, MarkedIsSaved, PlanIsStamped, UnsavedIsNew, BaselineHolds,
              Unsaved, NewPlan, Key
    <2>8. QED
        BY <1>1, <1>2, <1>4, <2>1, <2>2, <2>7, MoveStep
<1>7. QED
    BY <1>5, <1>6

(* What an attempt begins with, or looks at before it saves: a plan whose   *)
(* receipt still stands is of a command that was never sent.                *)
LEMMA NewIsUnsent ==
    ASSUME CommandInv, NEW t \in Tabs, att[t].plan # None, ~att[t].plan.expect, slot.pend = None, AssertNew(t)
    PROVE  /\ att[t].plan.prev = ReceiptOf
           /\ leaseOpen => Key(t) \notin posted /\ ~Admitted(Key(t))
<1>1. att[t].plan.prev = ReceiptOf /\ Key(t) # ReceiptOf /\ NewPlan(t) /\ Key(t) \in Keys
    BY AttemptShape DEF AssertNew, ReceiptKey, ReceiptOf, NewPlan, CommandInv
<1>2. leaseOpen => Key(t) \notin Spent
    BY <1>1 DEF CommandInv, TabFits, PlanIsStamped
<1>3. QED
    BY <1>1, <1>2 DEF Spent, IsPending, CommandInv, ProviderTyped, Admitted

LEMMA BeginStep ==
    ASSUME CommandInv, NEW t \in Tabs, Begin(t)
    PROVE  CommandInv'
<1> DEFINE recovery == slot.pend # None
           a == [att[t] EXCEPT !.pc = IF recovery THEN "retain" ELSE "baseline", !.was = recovery,
                               !.base = IF recovery THEN slot.pend.base ELSE 0, !.epoch = TRUE]
<1>1. /\ UNCHANGED Environment /\ UNCHANGED <<minted, results>> /\ att[t].pc = "planned" /\ leaseOpen /\ MayBegin(t)
      /\ att' = [att EXCEPT ![t] = a] /\ places' = [places EXCEPT ![t] = Reserved(t, Key(t))]
    BY DEF Begin, Environment, providerVars, boundVars
<1>2. TabsTyped /\ TabFits(t) /\ RecordTyped /\ att[t].plan # None /\ att[t] \in Attempts /\ Key(t) \in Keys
    BY <1>1, AttemptShape DEF CommandInv, TabFits
<1>3. recovery => slot.pend.base \in Nat
    BY <1>2, RecordShape
<1>4. /\ a \in Attempts /\ a.plan = att[t].plan /\ a.was = recovery
      /\ a.pc = IF recovery THEN "retain" ELSE "baseline"
    BY <1>2, <1>3 DEF Attempts, Steps
<1>5. places' \in [Tabs -> Places] /\ att'[t] = a
    BY <1>1, <1>2, PlaceShapes DEF TabsTyped
<1>6. ~recovery => NewPlan(t) /\ Key(t) \notin posted /\ ~Admitted(Key(t)) /\ ~IsPending(Key(t))
    BY <1>1, <1>2, NewIsUnsent DEF MayBegin, NewPlan, IsPending
<1>7. UnsavedIsNew(t)'
    <2>1. CASE recovery
        <3>1. att'[t].pc = "retain" /\ att'[t].was
            BY <1>4, <1>5, <2>1
        <3>2. QED
            BY ONLY <3>1 DEF UnsavedIsNew, Unsaved
    <2>2. CASE ~recovery
        <3>1. att'[t].plan = att[t].plan /\ UNCHANGED <<slot, provider, posted>>
            BY <1>1, <1>4, <1>5 DEF Environment
        <3>2. QED
            BY ONLY <1>6, <2>2, <3>1 DEF UnsavedIsNew, NewPlan, Key, Admitted, IsPending
    <2>3. QED
        BY <2>1, <2>2
<1>8. TabFits(t)'
    BY <1>1, <1>2, <1>4, <1>5, <1>7 DEF TabFits, AttemptKnows, MarkedIsSaved, PlanIsStamped, BaselineHolds, NewPlan, Key,
          Environment, Spent, IsPending, ReceiptOf
<1>9. QED
    BY <1>1, <1>4, <1>5, <1>8, MoveStep

(* captureMaintenanceBaseline: the release count is taken over the receipt  *)
(* of the plan.                                                             *)
LEMMA BaselineStep ==
    ASSUME CommandInv, NEW t \in Tabs, Baseline(t)
    PROVE  CommandInv'
<1> DEFINE a == [att[t] EXCEPT !.pc = "retain", !.base = Len(releases), !.was = slot.pend # None]
<1>1. /\ UNCHANGED Environment /\ UNCHANGED <<minted, results, places>> /\ att[t].pc = "baseline"
      /\ att' = [att EXCEPT ![t] = a]
    BY DEF Baseline, Environment, providerVars, boundVars
<1>2. TabsTyped /\ TabFits(t) /\ att[t].plan # None /\ att[t] \in Attempts /\ Key(t) \in Keys
    BY <1>1, AttemptShape DEF CommandInv, TabFits
<1>3. /\ a \in Attempts /\ a.plan = att[t].plan /\ a.was = (slot.pend # None) /\ a.pc = "retain"
      /\ a.base = Len(releases)
    <2>1. Len(releases) \in Nat /\ (slot.pend # None) \in BOOLEAN
        BY DEF CommandInv, ProviderTyped
    <2>2. QED
        BY <1>2, <2>1 DEF Attempts, Steps
<1>4. places' \in [Tabs -> Places] /\ att'[t] = a
    BY <1>1, <1>2 DEF TabsTyped, Places
<1>5. UnsavedIsNew(t)'
    BY <1>1, <1>2, <1>3, <1>4 DEF TabFits, UnsavedIsNew, Unsaved, NewPlan, Key, Admitted, IsPending, Environment
<1>6. BaselineHolds(t)'
    BY <1>1, <1>3, <1>4 DEF BaselineHolds, Environment
<1>7. TabFits(t)'
    BY <1>1, <1>2, <1>3, <1>4, <1>5, <1>6 DEF TabFits, AttemptKnows, MarkedIsSaved, PlanIsStamped, NewPlan, Key,
          Environment, Spent, IsPending, ReceiptOf
<1>8. QED
    BY <1>1, <1>3, <1>4, <1>7, MoveStep

(* The answer to a command, and the verdict on it: of an admitted command   *)
(* with an honest baseline, the one release after the baseline is its own.  *)
LEMMA VerdictIsOwn ==
    ASSUME CommandInv, NEW t \in Tabs, att[t].pc \in {"waiting", "reading"}, NEW v \in VerdictsFrom(att[t].base)
    PROVE  v \in Verdicts /\ CameTo(Key(t), v)
<1>1. TabFits(t) /\ Key(t) \in Keys
    BY AttemptShape DEF CommandInv, TabFits
<1>2. /\ v \in Verdicts /\ Len(releases) = att[t].base + 1 /\ att[t].base \in Nat
      /\ provider[releases[att[t].base + 1]] = IF v = "succeeded" THEN "active" ELSE "failed"
    BY AttemptShape DEF VerdictsFrom, CommandInv
<1>3. Owns(Key(t), att[t].base)
    BY <1>1 DEF TabFits, AttemptKnows, WellBased, Admitted
<1>4. releases[att[t].base + 1] = Key(t)
    BY <1>2, <1>3 DEF Owns
<1>5. QED
    BY <1>2, <1>4 DEF CameTo

LEMMA AnswerSteps ==
    ASSUME CommandInv, NEW t \in Tabs, Answered(t) \/ Observe(t) \/ ReadObserves(t)
    PROVE  CommandInv'
<1>1. /\ UNCHANGED Environment /\ UNCHANGED <<minted, results, places>> /\ att[t].pc \in {"posted", "waiting", "reading"}
    BY DEF Answered, Observe, ReadObserves, Environment, providerVars, boundVars
<1>2. /\ TabsTyped /\ TabFits(t) /\ att[t].plan # None /\ att[t] \in Attempts /\ Key(t) \in Keys
      /\ places' \in [Tabs -> Places]
    BY <1>1, AttemptShape DEF CommandInv, TabFits, TabsTyped, Places
<1>3. ASSUME NEW a \in Attempts, a.plan = att[t].plan, a.base = att[t].base, att' = [att EXCEPT ![t] = a],
             a.pc \in {"admitted", "refused", "judged", "read"},
             a.pc = "admitted" => att[t].pc = "posted" /\ Admitted(Key(t)),
             a.pc = "refused" => provider[Key(t)] = "refused",
             a.pc \in {"judged", "read"} => a.verdict \in Verdicts /\ CameTo(Key(t), a.verdict)
      PROVE  CommandInv'
    <2>1. att'[t] = a
        BY <1>2, <1>3 DEF TabsTyped
    <2>2. AttemptKnows(t)'
        BY <1>1, <1>2, <1>3, <2>1 DEF TabFits, AttemptKnows, Key, WellBased, Owns, Admitted, CameTo, Environment
    <2>3. TabFits(t)'
        BY <1>1, <1>2, <1>3, <2>1, <2>2 DEF TabFits, MarkedIsSaved, PlanIsStamped, UnsavedIsNew, Unsaved, BaselineHolds,
              NewPlan, Key, Environment, Spent, IsPending, ReceiptOf
    <2>4. QED
        BY <1>1, <1>2, <1>3, <2>3, MoveStep
<1>4. CASE Answered(t)
    <2>1. CASE Admitted(Key(t)) /\ Goto(t, "admitted")
        <3> DEFINE a == [att[t] EXCEPT !.pc = "admitted"]
        <3>1. a \in Attempts /\ a.plan = att[t].plan /\ a.base = att[t].base /\ a.pc = "admitted"
            BY <1>2 DEF Attempts, Steps
        <3>2. att' = [att EXCEPT ![t] = a] /\ att[t].pc = "posted"
            BY <1>4, <2>1 DEF Goto, Answered
        <3>3. QED
            BY <1>3, <2>1, <3>1, <3>2
    <2>2. CASE provider[Key(t)] = "refused" /\ Goto(t, "refused")
        <3> DEFINE a == [att[t] EXCEPT !.pc = "refused"]
        <3>1. a \in Attempts /\ a.plan = att[t].plan /\ a.base = att[t].base /\ a.pc = "refused"
            BY <1>2 DEF Attempts, Steps
        <3>2. att' = [att EXCEPT ![t] = a]
            BY <2>2 DEF Goto
        <3>3. QED
            BY <1>3, <2>2, <3>1, <3>2
    <2>3. QED
        BY <1>4, <2>1, <2>2 DEF Answered
<1>5. CASE Observe(t) \/ ReadObserves(t)
    <2>1. PICK v \in VerdictsFrom(att[t].base), pc \in {"judged", "read"} :
             att' = [att EXCEPT ![t] = [@ EXCEPT !.pc = pc, !.verdict = v]] /\ att[t].pc \in {"waiting", "reading"}
        BY <1>5 DEF Observe, ReadObserves
    <2> DEFINE a == [att[t] EXCEPT !.pc = pc, !.verdict = v]
    <2>2. v \in Verdicts /\ CameTo(Key(t), v)
        BY <2>1, VerdictIsOwn
    <2>3. a \in Attempts /\ a.plan = att[t].plan /\ a.base = att[t].base /\ a.pc = pc /\ a.verdict = v
        BY <1>2, <2>2 DEF Attempts, Steps
    <2>4. att' = [att EXCEPT ![t] = a]
        BY <2>1
    <2>5. QED
        BY <1>3, <2>1, <2>2, <2>3, <2>4
<1>6. QED
    BY <1>4, <1>5

-----------------------------------------------------------------------------
(* The steps of a tab that plan, save, send or settle, and the ends of a    *)
(* session, a tab and the lease.                                            *)
LEMMA PlanCommandStep ==
    ASSUME CommandInv, NEW t \in Tabs, NEW k \in Keys, PlanCommand(t, k)
    PROVE  CommandInv'
<1> DEFINE plan == [key |-> k, expect |-> FALSE, prev |-> ReceiptKey]
           a == [NoAttempt EXCEPT !.pc = "planned", !.plan = plan]
<1>1. /\ UNCHANGED Environment /\ UNCHANGED results /\ k \notin minted /\ minted' = minted \cup {k}
      /\ slot.pend = None /\ leaseOpen /\ att' = [att EXCEPT ![t] = a]
      /\ places' = [places EXCEPT ![t] = IF ReceiptKey = None THEN places[t]
                                         ELSE [places[t] EXCEPT ![ReceiptKey] = FreePlace]]
    BY DEF PlanCommand, PlanAs, Environment, providerVars, boundVars
<1>2. /\ TabsTyped /\ RecordTyped /\ places \in [Tabs -> Places] /\ places[t] \in Places
      /\ ReceiptKey \in Keys \cup {None} /\ ReceiptKey = ReceiptOf
    BY <1>1, RecordShape DEF CommandInv, TabsTyped, Places, ReceiptKey, ReceiptOf
<1>3. plan \in Plan
    BY <1>2 DEF Plan
<1>4. plan # None /\ plan.key = k /\ ~plan.expect /\ plan.prev = ReceiptKey
    BY <1>3, MaintenanceAssumption
<1>5. a \in Attempts /\ a.pc = "planned" /\ a.plan = plan
    BY <1>3 DEF NoAttempt, Attempts, Steps
<1>6. att' \in [Tabs -> Attempts] /\ att'[t] = a /\ \A u \in Tabs \ {t} : att'[u] = att[u]
    BY <1>1, <1>2, <1>5 DEF TabsTyped
<1>7. places' \in [Tabs -> Places]
    BY <1>1, <1>2 DEF Places, FreePlace
<1>8. TabsTyped' /\ ResultsKnow'
    BY <1>1, <1>2, <1>6, <1>7 DEF CommandInv, TabsTyped, Places, ResultsKnow, CameTo, Environment
<1>9. minted \subseteq minted' /\ minted' \subseteq Keys /\ k \notin posted
    BY <1>1 DEF CommandInv, ProviderTyped
<1>10. \A u \in Tabs : NewPlan(u) => Key(u) # k
    BY <1>1 DEF CommandInv, TabFits, NewPlan
<1>11. OwnPlans'
    <2>1. Key(t)' = k
        BY <1>4, <1>5, <1>6 DEF Key
    <2>2. \A u \in Tabs \ {t} : (NewPlan(u)' => NewPlan(u)) /\ Key(u)' = Key(u)
        BY <1>6 DEF NewPlan, Key
    <2>3. QED
        BY <1>10, <2>1, <2>2 DEF CommandInv, OwnPlans
<1>12. /\ att'[t].pc = "planned" /\ att'[t].plan # None /\ Key(t)' = k /\ att'[t].plan.prev = ReceiptKey
       /\ k \in minted'
    BY <1>1, <1>4, <1>5, <1>6 DEF Key
<1>13. PlanIsStamped(t)'
    <2>1. Spent' = Spent /\ k \notin Spent /\ leaseOpen' = leaseOpen
        BY <1>1, <1>9 DEF Spent, IsPending, Environment
    <2>2. ReceiptKey # None => ReceiptKey \in Spent
        BY <1>1, <1>2, SpentAreSent DEF ReceiptOf
    <2>3. QED
        BY ONLY <1>12, <2>1, <2>2 DEF PlanIsStamped
<1>14. TabFits(t)'
    BY ONLY <1>12, <1>13 DEF TabFits, AttemptKnows, MarkedIsSaved, UnsavedIsNew, BaselineHolds, Unsaved
<1>15. \A u \in Tabs : Keeps(u) \/ TabFits(u)'
    BY <1>6, <1>14 DEF Keeps
<1>16. QED
    BY <1>1, <1>8, <1>9, <1>11, <1>15, TabStep

(* clearCompletedMaintenance and a reload: what the tab knew is gone.       *)
LEMMA ForgetSteps ==
    ASSUME CommandInv, NEW t \in Tabs, ClearSession(t) \/ Reload(t)
    PROVE  CommandInv'
<1>1. /\ UNCHANGED Environment /\ UNCHANGED minted
      /\ results' = [results EXCEPT ![t] = [j \in Keys |-> None]]
      /\ places' = [places EXCEPT ![t] = [j \in Keys |-> FreePlace]]
    BY DEF ClearSession, Reload, Environment, providerVars
<1>2. PICK a : att' = [att EXCEPT ![t] = a] /\ a \in {NoAttempt, [att[t] EXCEPT !.epoch = FALSE]}
    BY DEF ClearSession, Reload
<1>3. TabsTyped /\ TabFits(t) /\ att[t] \in Attempts /\ NoAttempt \in Attempts
    BY AttemptShape, EndedShape DEF CommandInv
<1>4. a \in Attempts
    BY <1>2, <1>3 DEF Attempts
<1>5. att' \in [Tabs -> Attempts] /\ att'[t] = a /\ \A u \in Tabs \ {t} : att'[u] = att[u]
    BY <1>2, <1>3, <1>4 DEF TabsTyped
<1>6. TabsTyped'
    BY <1>1, <1>3, <1>5 DEF TabsTyped, FreePlace
<1>7. ResultsKnow'
    <2>1. \A u \in Tabs, j \in Keys : results'[u][j] \in {None, results[u][j]}
        BY <1>1, <1>3 DEF TabsTyped
    <2>2. QED
        BY <1>1, <2>1 DEF CommandInv, ResultsKnow, CameTo, Environment
<1>8. a.plan \in {att[t].plan, None}
    BY <1>2, <1>3, EndedShape DEF Attempts
<1>9. OwnPlans'
    BY <1>5, <1>8, KeptPlans DEF CommandInv
<1>10. Keeps(t) \/ TabFits(t)'
    <2>1. CASE a = NoAttempt
        BY <1>3, <1>5, <2>1, EndedShape DEF Keeps
    <2>2. CASE a = [att[t] EXCEPT !.epoch = FALSE]
        <3>1. /\ att'[t].pc = att[t].pc /\ att'[t].plan = att[t].plan /\ att'[t].base = att[t].base
              /\ att'[t].was = att[t].was /\ att'[t].verdict = att[t].verdict
            BY <1>3, <1>5, <2>2 DEF Attempts
        <3>2. TabFits(t)'
            BY ONLY <1>1, <1>3, <3>1 DEF TabFits, AttemptKnows, MarkedIsSaved, PlanIsStamped, UnsavedIsNew, Unsaved,
                  BaselineHolds, NewPlan, Key, Environment, WellBased, Owns, Admitted, CameTo, Spent, IsPending, ReceiptOf
        <3>3. QED
            BY <3>2
    <2>3. QED
        BY <1>2, <2>1, <2>2
<1>11. \A u \in Tabs : Keeps(u) \/ TabFits(u)'
    BY <1>5, <1>10 DEF Keeps
<1>12. minted \subseteq minted' /\ minted' \subseteq Keys
    BY <1>1 DEF CommandInv, ProviderTyped
<1>13. QED
    BY <1>1, <1>6, <1>7, <1>9, <1>11, <1>12, TabStep

(* retireAbsentMaintenanceOperation: with the lease closed nothing new is   *)
(* released, and the record holds nothing.                                  *)
LEMMA RetireStep ==
    ASSUME CommandInv, NEW t \in Tabs, Retire(t)
    PROVE  CommandInv'
<1>1. /\ leaseOpen' = FALSE /\ slot' = EmptySlot
      /\ places' = [places EXCEPT ![t] = [j \in Keys |-> FreePlace]]
      /\ UNCHANGED <<results, att, provider, releases, wire, posted, minted>>
    BY DEF Retire, boundVars
<1>2. slot'.pend = None /\ slot'.receipt = None /\ slot'.never = {} /\ slot' \in Slot
    BY <1>1 DEF EmptySlot, Slot
<1>3. TabsTyped' /\ RecordTyped' /\ ProviderTyped' /\ ResultsKnow' /\ OwnPlans'
    BY <1>1, <1>2 DEF CommandInv, TabsTyped, RecordTyped, ProviderTyped, ResultsKnow, CameTo, OwnPlans, NewPlan, Key, FreePlace
<1>4. RecordFits'
    BY <1>1, <1>2 DEF RecordFits
<1>5. ASSUME NEW u \in Tabs PROVE TabFits(u)'
    <2>1. TabFits(u)
        BY DEF CommandInv
    <2>2. AttemptKnows(u)'
        BY <1>1, <2>1 DEF TabFits, AttemptKnows, Key, WellBased, Owns, Admitted, CameTo
    <2>3. UnsavedIsNew(u)'
        BY <1>1, <2>1 DEF TabFits, UnsavedIsNew, Unsaved, NewPlan, Key, Admitted
    <2>4. QED
        BY <1>1, <2>1, <2>2, <2>3 DEF TabFits, MarkedIsSaved, PlanIsStamped, BaselineHolds, Key
<1>6. QED
    BY <1>3, <1>4, <1>5 DEF CommandInv

(* retain over a saved command: it is recovered, whatever became of the     *)
(* proofs of its key.                                                       *)
LEMMA RecoverStep ==
    ASSUME CommandInv, NEW t \in Tabs, Retain(t), slot.pend # None
    PROVE  CommandInv'
<1> DEFINE a == [att[t] EXCEPT !.pc = "retained", !.made = FALSE, !.was = FALSE, !.base = slot.pend.base]
<1>1. /\ att[t].pc = "retain" /\ slot' = [slot EXCEPT !.pend = @, !.never = @ \ {Key(t)}]
      /\ att' = [att EXCEPT ![t] = a]
      /\ UNCHANGED <<results, places, providerVars, posted, boundVars>>
    BY DEF Retain
<1>2. /\ TabsTyped /\ RecordTyped /\ TabFits(t) /\ att[t] \in Attempts /\ att[t].plan # None
      /\ slot.pend.base \in Nat
    BY <1>1, AttemptShape, RecordShape DEF CommandInv, TabFits
<1>3. slot'.pend = slot.pend /\ slot'.receipt = slot.receipt /\ slot'.never = slot.never \ {Key(t)} /\ slot' \in Slot
    BY <1>1, <1>2 DEF RecordTyped, Slot
<1>4. a \in Attempts /\ a.pc = "retained" /\ a.plan = att[t].plan
    BY <1>2 DEF Attempts, Steps
<1>5. /\ att' \in [Tabs -> Attempts] /\ att'[t].pc = "retained" /\ att'[t].plan = att[t].plan
      /\ \A u \in Tabs \ {t} : att'[u] = att[u]
    BY <1>1, <1>2, <1>4 DEF TabsTyped
<1>6. UNCHANGED <<provider, releases, wire, leaseOpen, posted, minted, results, places>>
    BY <1>1 DEF providerVars, boundVars
<1>7. TabsTyped' /\ RecordTyped' /\ ProviderTyped' /\ ResultsKnow'
    BY <1>3, <1>5, <1>6 DEF CommandInv, TabsTyped, RecordTyped, ProviderTyped, ResultsKnow, CameTo
<1>8. Spent' = Spent /\ ReceiptOf' = ReceiptOf /\ \A k : IsPending(k)' = IsPending(k)
    BY <1>3, <1>6 DEF Spent, IsPending, ReceiptOf
<1>9. RecordFits'
    <2>1. \A k, b : WellBased(k, b)' = WellBased(k, b)
        BY <1>6 DEF WellBased, Owns
    <2>2. QED
        BY <1>3, <1>6, <1>8, <2>1 DEF CommandInv, RecordFits, CameTo, Admitted
<1>10. ASSUME NEW u \in Tabs PROVE TabFits(u)'
    <2>1. TabFits(u)
        BY DEF CommandInv
    <2>2. CASE u # t
        <3>0. att'[u] = att[u]
            BY <1>5, <2>2
        <3>1. AttemptKnows(u)'
            BY <1>6, <2>1, <3>0 DEF TabFits, AttemptKnows, Key, WellBased, Owns, Admitted, CameTo
        <3>2. MarkedIsSaved(u)' /\ PlanIsStamped(u)' /\ UnsavedIsNew(u)'
            BY <1>3, <1>6, <1>8, <2>1, <3>0 DEF TabFits, MarkedIsSaved, PlanIsStamped, UnsavedIsNew, Unsaved, NewPlan, Key,
                  Admitted
        <3>3. BaselineHolds(u)'
            BY <1>3, <1>6, <1>8, <2>1, <3>0 DEF TabFits, BaselineHolds
        <3>4. QED
            BY <1>6, <2>1, <3>0, <3>1, <3>2, <3>3 DEF TabFits, Key
    <2>3. CASE u = t
        <3>1. PlanIsStamped(t)' /\ (att[t].plan # None => Key(t) \in minted)'
            BY <1>2, <1>5, <1>6, <1>8 DEF TabFits, PlanIsStamped, NewPlan, Key
        <3>2. QED
            BY <1>2, <1>5, <2>3, <3>1 DEF TabFits, AttemptKnows, MarkedIsSaved, UnsavedIsNew, BaselineHolds, Unsaved
    <2>4. QED
        BY <2>2, <2>3
<1>11. OwnPlans'
    BY <1>5, KeptPlans DEF CommandInv
<1>12. QED
    BY <1>7, <1>9, <1>10, <1>11 DEF CommandInv

LEMMA RetainStep ==
    ASSUME CommandInv, NEW t \in Tabs, Retain(t)
    PROVE  CommandInv'
<1>1. CASE slot.pend = None
    <2> DEFINE a == [att[t] EXCEPT !.pc = "retained", !.made = (slot.pend = None), !.was = FALSE,
                                   !.base = IF slot.pend = None THEN @ ELSE slot.pend.base]
    <2>1. /\ att[t].pc = "retain" /\ MayRetain(t)
          /\ slot' = [slot EXCEPT !.pend = [key |-> Key(t), base |-> att[t].base, dispatched |-> FALSE,
                                            accepted |-> FALSE],
                                  !.never = @ \ {Key(t)}]
          /\ att' = [att EXCEPT ![t] = a]
          /\ UNCHANGED <<results, places, providerVars, posted, boundVars>>
        BY <1>1 DEF Retain
    <2>2. TabsTyped /\ att[t] \in Attempts /\ att[t].plan # None
        BY <2>1, AttemptShape DEF CommandInv, TabFits
    <2>3. a \in Attempts /\ a.pc = "retained" /\ a.plan = att[t].plan
        BY <1>1, <2>2 DEF Attempts, Steps
    <2>4. /\ att' \in [Tabs -> Attempts] /\ att'[t] = a /\ \A u \in Tabs \ {t} : att'[u] = att[u]
        BY <2>1, <2>2, <2>3 DEF TabsTyped
    <2>5. UNCHANGED <<provider, releases, wire, leaseOpen, posted, minted, results, places>>
        BY <2>1 DEF providerVars, boundVars
    <2>6. TabsTyped' /\ ResultsKnow'
        BY <2>4, <2>5 DEF CommandInv, TabsTyped, ResultsKnow, CameTo
    <2>7. \A u \in Tabs : Keeps(u)
        BY <2>2, <2>3, <2>4 DEF Keeps
    <2>8. QED
        BY <1>1, <2>1, <2>3, <2>4, <2>5, <2>6, <2>7, SaveStep
<1>2. QED
    BY <1>1, RecoverStep

(* markMaintenanceOperationAccepted *)
LEMMA MarkAcceptedStep ==
    ASSUME CommandInv, NEW t \in Tabs, MarkAccepted(t)
    PROVE  CommandInv'
<1> DEFINE a == [att[t] EXCEPT !.pc = "waiting"]
<1>1. att[t].pc = "admitted" /\ UNCHANGED <<provider, releases, wire, leaseOpen, posted, minted, results>>
    BY DEF MarkAccepted, providerVars
<1>2. TabFits(t) /\ TabsTyped /\ RecordTyped /\ att[t] \in Attempts /\ att[t].plan # None /\ Key(t) \in Keys
    BY <1>1, AttemptShape DEF CommandInv, TabFits
<1>3. a \in Attempts /\ a.pc = "waiting" /\ a.plan = att[t].plan /\ a.base = att[t].base
    BY <1>2 DEF Attempts, Steps
<1>4. Admitted(Key(t)) /\ WellBased(Key(t), att[t].base)
    BY <1>1, <1>2 DEF TabFits, AttemptKnows
<1>5. CASE Goto(t, "waiting") /\ UNCHANGED places
    <2>1. /\ att' = [att EXCEPT ![t] = a] /\ att' \in [Tabs -> Attempts] /\ att'[t] = a
          /\ \A u \in Tabs \ {t} : att'[u] = att[u]
        BY <1>2, <1>3, <1>5 DEF Goto, TabsTyped
    <2>2. TabsTyped' /\ places' \in [Tabs -> Places]
        BY <1>1, <1>2, <1>5, <2>1 DEF TabsTyped, Places
    <2>3. AttemptKnows(t)'
        BY <1>1, <1>3, <1>4, <2>1 DEF AttemptKnows, Key, WellBased, Owns, Admitted
    <2>4. ASSUME ReceiptOf' = ReceiptOf, Spent' = Spent
          PROVE  TabFits(t)'
        BY <1>1, <1>2, <1>3, <2>1, <2>3, <2>4 DEF TabFits, MarkedIsSaved, PlanIsStamped, UnsavedIsNew, Unsaved, BaselineHolds,
              NewPlan, Key
    <2>5. CASE UNCHANGED slot
        <3>1. ReceiptOf' = ReceiptOf /\ Spent' = Spent
            BY <1>1, <2>5 DEF ReceiptOf, Spent, IsPending
        <3>2. QED
            BY <1>1, <1>3, <2>1, <2>2, <2>4, <2>5, <3>1, MoveStep DEF Environment
    <2>6. CASE /\ Matches(Key(t), att[t].base)
               /\ slot' = [slot EXCEPT !.pend.dispatched = TRUE, !.pend.accepted = TRUE]
        <3>1. slot.pend # None /\ slot.pend.key = Key(t) /\ slot.pend \in Pending
            BY <1>2, <2>6, RecordShape DEF Matches, IsPending
        <3>2. /\ slot'.pend = [slot.pend EXCEPT !.dispatched = TRUE, !.accepted = TRUE]
              /\ slot'.receipt = slot.receipt /\ slot'.never = slot.never
            BY <1>2, <2>6 DEF RecordTyped, Slot
        <3>3. /\ slot'.pend \in Pending /\ slot'.pend.key = slot.pend.key /\ slot'.pend.base = slot.pend.base
              /\ slot'.pend.dispatched
            BY <3>1, <3>2 DEF Pending
        <3>4. slot' \in Slot
            BY <1>2, <2>6, <3>1, <3>2, <3>3 DEF RecordTyped, Slot
        <3>5. slot'.pend # None
            BY <3>3, MaintenanceAssumption
        <3>6. ReceiptOf' = ReceiptOf /\ Spent' = Spent
            BY <1>1, <3>1, <3>2, <3>3, <3>5 DEF ReceiptOf, Spent, IsPending
        <3>7. QED
            BY <1>1, <1>3, <1>4, <2>1, <2>2, <2>4, <3>1, <3>2, <3>3, <3>4, <3>6, FlagStep
    <2>7. QED
        BY <2>5, <2>6, <1>5 DEF MarkAccepted, Goto
<1>6. CASE UNCHANGED slot /\ Finish(t)
    BY <1>1, <1>6, FinishStep DEF Environment
<1>7. QED
    BY <1>5, <1>6 DEF MarkAccepted

(* Handing the command to HTTP: it is on record as sent, or was sent before. *)
LEMMA PostStep ==
    ASSUME CommandInv, NEW t \in Tabs, Post(t)
    PROVE  CommandInv'
<1> DEFINE k == Key(t)
           a == [att[t] EXCEPT !.pc = "posted"]
<1>1. /\ att[t].pc = "marked" /\ wire' = wire \cup {k} /\ posted' = posted \cup {k}
      /\ att' = [att EXCEPT ![t] = a]
      /\ UNCHANGED <<slot, results, places, provider, releases, leaseOpen, minted>>
    BY DEF Post, boundVars
<1>2. /\ TabFits(t) /\ TabsTyped /\ att[t] \in Attempts /\ att[t].plan # None /\ k \in Keys /\ k \in minted
      /\ WellBased(k, att[t].base)
    BY <1>1, AttemptShape DEF CommandInv, TabFits, AttemptKnows
<1>3. a \in Attempts /\ a.pc = "posted" /\ a.plan = att[t].plan /\ a.base = att[t].base
    BY <1>2 DEF Attempts, Steps
<1>4. /\ att' \in [Tabs -> Attempts] /\ att'[t] = a /\ \A u \in Tabs \ {t} : att'[u] = att[u]
    BY <1>1, <1>2, <1>3 DEF TabsTyped
<1>5. TabsTyped' /\ ResultsKnow' /\ RecordTyped' /\ ProviderTyped'
    BY <1>1, <1>2, <1>4 DEF CommandInv, TabsTyped, ResultsKnow, CameTo, RecordTyped, ProviderTyped
<1>6. leaseOpen => (k \in posted \/ (IsPending(k) /\ slot.pend.dispatched)) /\ k \notin slot.never
    BY <1>1, <1>2 DEF TabFits, MarkedIsSaved
<1>7. ReceiptOf' = ReceiptOf /\ (leaseOpen => Spent' = Spent) /\ \A j : IsPending(j)' = IsPending(j)
    BY <1>1, <1>6 DEF ReceiptOf, Spent, IsPending
<1>8. RecordFits'
    <2>1. \A j, b : WellBased(j, b)' = WellBased(j, b)
        BY <1>1 DEF WellBased, Owns
    <2>2. leaseOpen => \A j \in posted' : IsPending(j) => slot.pend.dispatched
        BY <1>1, <1>6 DEF CommandInv, RecordFits
    <2>3. leaseOpen => slot.never \cap posted' = {}
        BY <1>1, <1>6 DEF CommandInv, RecordFits
    <2>4. QED
        BY <1>1, <1>7, <2>1, <2>2, <2>3 DEF CommandInv, RecordFits, CameTo, Admitted
<1>9. ASSUME NEW u \in Tabs PROVE TabFits(u)'
    <2>1. TabFits(u)
        BY DEF CommandInv
    <2>2. CASE u # t
        <3>0. att'[u] = att[u]
            BY <1>4, <2>2
        <3>1. AttemptKnows(u)'
            BY <1>1, <2>1, <3>0 DEF TabFits, AttemptKnows, Key, WellBased, Owns, Admitted, CameTo
        <3>2. MarkedIsSaved(u)' /\ PlanIsStamped(u)' /\ BaselineHolds(u)'
            BY <1>1, <1>7, <2>1, <3>0 DEF TabFits, MarkedIsSaved, PlanIsStamped, BaselineHolds, NewPlan, Key
        <3>3. UnsavedIsNew(u)'
            BY <1>1, <1>6, <1>7, <2>1, <3>0 DEF TabFits, UnsavedIsNew, Unsaved, NewPlan, Key, Admitted
        <3>4. QED
            BY <1>1, <2>1, <3>0, <3>1, <3>2, <3>3 DEF TabFits, Key
    <2>3. CASE u = t
        <3>1. /\ att'[t].pc = "posted" /\ att'[t].plan = att[t].plan /\ att'[t].base = att[t].base
            BY <1>3, <1>4
        <3>2. AttemptKnows(t)'
            BY <1>1, <1>2, <3>1 DEF AttemptKnows, Key, WellBased, Owns
        <3>3. PlanIsStamped(t)'
            BY <1>1, <1>2, <1>7, <3>1 DEF TabFits, PlanIsStamped, NewPlan, Key
        <3>4. QED
            BY <1>1, <1>2, <2>3, <3>1, <3>2, <3>3 DEF TabFits, MarkedIsSaved, UnsavedIsNew, Unsaved, BaselineHolds, Key
    <2>4. QED
        BY <2>2, <2>3
<1>10. OwnPlans'
    BY <1>3, <1>4, KeptPlans DEF CommandInv
<1>11. QED
    BY <1>5, <1>8, <1>9, <1>10 DEF CommandInv

-----------------------------------------------------------------------------
(* What settles a command.                                                  *)
LEMMA CompletedKnows ==
    ASSUME CommandInv, NEW t \in Tabs, NEW k \in Keys, NEW v \in Verdicts, CameTo(k, v), NEW current,
           results' = Completed(t, k, v, current), UNCHANGED provider
    PROVE  results' \in [Tabs -> [Keys -> Verdicts \cup {None}]] /\ ResultsKnow'
<1>1. results \in [Tabs -> [Keys -> Verdicts \cup {None}]]
    BY DEF CommandInv, TabsTyped
<1>2. results' \in {results, [results EXCEPT ![t][k] = v]}
    BY DEF Completed
<1>3. results' \in [Tabs -> [Keys -> Verdicts \cup {None}]]
    BY <1>1, <1>2
<1>4. \A u \in Tabs, j \in Keys : results'[u][j] = results[u][j] \/ (j = k /\ results'[u][j] = v)
    BY <1>1, <1>2
<1>5. ResultsKnow'
    BY <1>4 DEF CommandInv, ResultsKnow, CameTo
<1>6. QED
    BY <1>3, <1>5

LEMMA RecordStep ==
    ASSUME CommandInv, NEW k \in Keys, NEW v \in Verdicts, CameTo(k, v),
           (IsPending(k) /\ slot' = Settled(v)) \/ UNCHANGED slot,
           UNCHANGED <<provider, releases, wire, leaseOpen, posted, minted>>,
           TabsTyped', ResultsKnow', \A u \in Tabs : Keeps(u)
    PROVE  CommandInv'
<1>1. CASE IsPending(k) /\ slot' = Settled(v)
    BY <1>1, SettleStep DEF IsPending
<1>2. CASE UNCHANGED slot
    <2>1. OwnPlans'
        BY KeptPlans DEF CommandInv, Keeps
    <2>2. UNCHANGED Environment /\ minted \subseteq minted' /\ minted' \subseteq Keys
        BY <1>2 DEF Environment, CommandInv, ProviderTyped
    <2>3. QED
        BY <2>1, <2>2, TabStep
<1>3. QED
    BY <1>1, <1>2

(* commitMaintenanceObservation of an attempt or a read, a refusal, and a   *)
(* result that is already known.                                            *)
LEMMA CommitSteps ==
    ASSUME CommandInv, NEW t \in Tabs, Commit(t) \/ Refuse(t) \/ ReadCommits(t)
    PROVE  CommandInv'
<1>1. PICK v \in Verdicts, current \in BOOLEAN, a \in {Ended(t), NoAttempt} :
        /\ CameTo(Key(t), v) /\ results' = Completed(t, Key(t), v, current) /\ att' = [att EXCEPT ![t] = a]
        /\ (Matches(Key(t), att[t].base) /\ slot' = Settled(v)) \/ UNCHANGED slot
        /\ \/ places' = [places EXCEPT ![t] = Released(t, Key(t), slot')]
           \/ places' = FreedBy(t, Key(t), current)
    <2>1. CASE Commit(t) \/ ReadCommits(t)
        <3>1. att[t].verdict \in Verdicts /\ CameTo(Key(t), att[t].verdict)
            BY <2>1 DEF Commit, ReadCommits, CommandInv, TabFits, AttemptKnows
        <3>2. QED
            BY <2>1, <3>1 DEF Commit, ReadCommits
    <2>2. CASE Refuse(t)
        <3>1. CameTo(Key(t), "failed") /\ "failed" \in Verdicts
            BY <2>2 DEF Refuse, CommandInv, TabFits, AttemptKnows, CameTo, Verdicts
        <3>2. att[t].epoch \in BOOLEAN
            BY AttemptShape DEF CommandInv
        <3>3. QED
            BY <2>2, <3>1, <3>2 DEF Refuse
    <2>3. QED
        BY <2>1, <2>2
<1>2. UNCHANGED <<provider, releases, wire, leaseOpen, posted, minted>> /\ att[t].pc # "idle"
    BY DEF Commit, Refuse, ReadCommits, providerVars
<1>3. TabsTyped /\ att[t].plan # None /\ Key(t) \in Keys
    BY <1>2, AttemptShape DEF CommandInv, TabFits
<1>4. /\ a \in Attempts
      /\ (a.pc = "idle" /\ a.plan = None) \/ (a.pc = "planned" /\ a.plan = att[t].plan)
    BY <1>1, <1>3, EndedShape
<1>5. /\ att' \in [Tabs -> Attempts] /\ att'[t] = a /\ \A u \in Tabs \ {t} : att'[u] = att[u]
    BY <1>1, <1>3, <1>4 DEF TabsTyped
<1>6. results' \in [Tabs -> [Keys -> Verdicts \cup {None}]] /\ ResultsKnow'
    BY <1>1, <1>2, <1>3, CompletedKnows
<1>7. places' \in [Tabs -> Places]
    BY <1>1, <1>3, PlaceShapes
<1>8. TabsTyped'
    BY <1>5, <1>6, <1>7 DEF TabsTyped, Places
<1>9. \A u \in Tabs : Keeps(u)
    BY <1>3, <1>4, <1>5 DEF Keeps
<1>10. QED
    BY <1>1, <1>2, <1>3, <1>6, <1>8, <1>9, RecordStep DEF Matches

LEMMA BeginReplayStep ==
    ASSUME CommandInv, NEW t \in Tabs, BeginReplay(t)
    PROVE  CommandInv'
<1> DEFINE v == results[t][Key(t)]
<1>1. /\ UNCHANGED <<provider, releases, wire, leaseOpen, posted, minted, results, places, att>>
      /\ (IsPending(Key(t)) /\ slot' = Settled(v)) \/ UNCHANGED slot
      /\ att[t].pc = "planned" /\ v # None
    BY DEF BeginReplay, providerVars
<1>2. TabsTyped /\ Key(t) \in Keys
    BY <1>1, AttemptShape DEF CommandInv, TabFits
<1>3. v \in Verdicts /\ CameTo(Key(t), v)
    BY <1>1, <1>2 DEF TabsTyped, CommandInv, ResultsKnow
<1>4. TabsTyped' /\ ResultsKnow' /\ \A u \in Tabs : Keeps(u)
    BY <1>1 DEF CommandInv, TabsTyped, ResultsKnow, CameTo, Keeps
<1>5. QED
    BY <1>1, <1>2, <1>3, <1>4, RecordStep

-----------------------------------------------------------------------------
LEMMA CommandInit == Init => CommandInv
<1> SUFFICES ASSUME Init PROVE CommandInv
    OBVIOUS
<1>1. TabsTyped
    BY DEF Init, TabsTyped, FreePlace, NoAttempt, Attempts, Steps
<1>2. RecordTyped /\ RecordFits
    BY DEF Init, EmptySlot, RecordTyped, Slot, RecordFits, Spent, IsPending
<1>3. ProviderTyped
    BY DEF Init, ProviderTyped
<1>4. ResultsKnow /\ OwnPlans
    BY DEF Init, ResultsKnow, OwnPlans, NewPlan, NoAttempt
<1>5. \A t \in Tabs : TabFits(t)
    BY DEF Init, NoAttempt, TabFits, AttemptKnows, MarkedIsSaved, PlanIsStamped, UnsavedIsNew, Unsaved, BaselineHolds,
           NewPlan
<1>6. QED
    BY <1>1, <1>2, <1>3, <1>4, <1>5 DEF CommandInv

LEMMA CommandNext ==
    ASSUME CommandInv, [Next]_vars
    PROVE  CommandInv'
<1>1. CASE \E t \in Tabs, k \in Keys : PlanCommand(t, k)
    BY <1>1, PlanCommandStep
<1>2. CASE \E k \in Keys : Deliver(k) \/ StartRelease(k) \/ FinishRelease(k)
    BY <1>2, DeliverStep, StartReleaseStep, FinishReleaseStep
<1>3. ASSUME NEW t \in Tabs, PlanRecovery(t) \/ ReadStarts(t)
      PROVE  CommandInv'
    BY <1>3, PlanRecoveryStep
<1>4. ASSUME NEW t \in Tabs, Begin(t) \/ Baseline(t) \/ Retain(t) \/ MarkDispatched(t) \/ Post(t) \/ Discard(t)
      PROVE  CommandInv'
    BY <1>4, BeginStep, BaselineStep, RetainStep, MarkDispatchedStep, PostStep, DiscardStep
<1>5. ASSUME NEW t \in Tabs,
             \/ BaselineFails(t) \/ RetainFails(t) \/ DispatchSuperseded(t) \/ DispatchFails(t)
             \/ DiscardFails(t) \/ GiveUp(t) \/ BeginRefused(t) \/ ReadDropped(t)
      PROVE  CommandInv'
    BY <1>5, EndingSteps
<1>6. ASSUME NEW t \in Tabs, Answered(t) \/ Observe(t) \/ ReadObserves(t)
      PROVE  CommandInv'
    BY <1>6, AnswerSteps
<1>7. ASSUME NEW t \in Tabs, MarkAccepted(t) \/ BeginReplay(t) \/ Retire(t)
      PROVE  CommandInv'
    BY <1>7, MarkAcceptedStep, BeginReplayStep, RetireStep
<1>8. ASSUME NEW t \in Tabs, Commit(t) \/ Refuse(t) \/ ReadCommits(t)
      PROVE  CommandInv'
    BY <1>8, CommitSteps
<1>9. ASSUME NEW t \in Tabs, ClearSession(t) \/ Reload(t)
      PROVE  CommandInv'
    BY <1>9, ForgetSteps
<1>10. CASE UNCHANGED vars
    <2>1. UNCHANGED <<Environment, results, places, att, minted>>
        BY <1>10 DEF vars, tabVars, providerVars, boundVars, Environment
    <2>2. TabsTyped' /\ ResultsKnow' /\ OwnPlans' /\ minted \subseteq minted' /\ minted' \subseteq Keys
        BY <2>1 DEF CommandInv, TabsTyped, ResultsKnow, CameTo, OwnPlans, NewPlan, Key, Environment, ProviderTyped
    <2>3. QED
        BY <2>1, <2>2, TabStep DEF Keeps
<1>11. QED
    BY <1>1, <1>2, <1>3, <1>4, <1>5, <1>6, <1>7, <1>8, <1>9, <1>10 DEF Next

LEMMA CommandsHold == Spec => []CommandInv
BY CommandInit, CommandNext, PTL DEF Spec

(* The types the runs check.                                                *)
LEMMA CommandsTyped ==
    ASSUME CommandInv
    PROVE  TypeOK
<1>1. ASSUME NEW t \in Tabs
      PROVE  /\ results[t] \in [Keys -> Verdicts \cup {None}]
             /\ places[t] \in [Keys -> [held : BOOLEAN, kept : BOOLEAN]]
             /\ att[t].plan \in Plan \cup {None}
             /\ ~Idle(t) => att[t].plan # None
    <2>1. att[t].plan \in Plan \cup {None}
        BY AttemptShape DEF CommandInv
    <2>2. ~Idle(t) => att[t].plan # None
        BY DEF CommandInv, TabFits, Idle
    <2>3. QED
        BY <2>1, <2>2 DEF CommandInv, TabsTyped
<1>2. QED
    BY <1>1 DEF CommandInv, RecordTyped, ProviderTyped, TypeOK

\* What the invariant says of the records.
LEMMA CommandsAnswer == CommandInv => UnsettledHasItsHandle /\ RecordsAreTrue
<1>1. CommandInv => UnsettledHasItsHandle
    BY DEF CommandInv, RecordFits, Spent, UnsettledHasItsHandle
<1>2. CommandInv => VerdictsAreTheProviders
    BY DEF CommandInv, RecordFits, ResultsKnow, VerdictsAreTheProviders, CameTo, Remembered
<1>3. CommandInv => NeverSentIsTrue
    BY DEF CommandInv, RecordFits, TabFits, MarkedIsSaved, NeverSentIsTrue
<1>4. QED
    BY <1>1, <1>2, <1>3 DEF RecordsAreTrue

(* A command that was sent and may still run is the pending command of its  *)
(* lease, marked as sent: prepareMaintenanceOperation always finds it and   *)
(* sends nothing beside it.                                                 *)
THEOREM SentStaysOnRecord == Spec => []UnsettledHasItsHandle
<1>1. QED
    BY CommandsAnswer, CommandsHold, PTL

(* Receipts and remembered results say what the provider did with their     *)
(* command, although a status read only sees the newest release, and a key  *)
(* proved never sent was not sent and is not about to be.                   *)
THEOREM RecordsStayTrue == Spec => []RecordsAreTrue
<1>1. QED
    BY CommandsAnswer, CommandsHold, PTL

-----------------------------------------------------------------------------
(* The result caches.                                                       *)
LEMMA CacheStep ==
    ASSUME CacheInv, NEW t \in Tabs, leaseOpen' => leaseOpen,
           \A u \in Tabs \ {t} : /\ att'[u] = att[u] /\ places'[u] = places[u] /\ results'[u] = results[u],
           CacheFits(t)', AwaitedHasPlace(t)'
    PROVE  CacheInv'
<1>1. SUFFICES ASSUME NEW u \in Tabs \ {t} PROVE CacheFits(u)' /\ AwaitedHasPlace(u)'
    BY DEF CacheInv
<1>2. CacheFits(u) /\ AwaitedHasPlace(u) /\ Taken(u)' = Taken(u) /\ Remembered(u)' = Remembered(u)
    BY DEF CacheInv, Taken, Remembered
<1>3. QED
    BY <1>2 DEF CacheFits, AwaitedHasPlace, Awaits, Unsaved, Idle, Key

LEMMA SmallerCache ==
    ASSUME NEW t \in Tabs, CacheFits(t), Remembered(t)' \subseteq Remembered(t), Taken(t)' \subseteq Taken(t)
    PROVE  CacheFits(t)'
<1>1. /\ IsFiniteSet(Remembered(t)') /\ Cardinality(Remembered(t)') <= Cardinality(Remembered(t))
      /\ IsFiniteSet(Taken(t)') /\ Cardinality(Taken(t)') <= Cardinality(Taken(t))
    BY FS_Subset DEF CacheFits
<1>2. /\ Cardinality(Remembered(t)') \in Nat /\ Cardinality(Remembered(t)) \in Nat
      /\ Cardinality(Taken(t)') \in Nat /\ Cardinality(Taken(t)) \in Nat /\ MaxResults \in Nat
    BY <1>1, FS_CardinalityType, MaintenanceAssumption DEF CacheFits
<1>3. QED
    BY <1>1, <1>2 DEF CacheFits

(* Places and results stay, and the attempt awaits nothing it did not       *)
(* await.                                                                   *)
Carries(t) ==
    /\ Idle(t)' => ~att'[t].made
    /\ Awaits(t)' => Awaits(t) /\ Key(t)' = Key(t)

LEMMA QuietStep ==
    ASSUME CacheInv, NEW t \in Tabs, UNCHANGED <<results, places, leaseOpen>>,
           \A u \in Tabs \ {t} : att'[u] = att[u], Carries(t)
    PROVE  CacheInv'
<1>1. CacheFits(t) /\ AwaitedHasPlace(t) /\ Taken(t)' = Taken(t) /\ Remembered(t)' = Remembered(t)
    BY DEF CacheInv, Taken, Remembered
<1>2. CacheFits(t)' /\ AwaitedHasPlace(t)'
    BY <1>1 DEF CacheFits, AwaitedHasPlace, Carries
<1>3. QED
    BY <1>2, CacheStep

(* No attempt of the tab awaits anything after the step.                    *)
LEMMA Rested ==
    ASSUME TabsTyped, NEW t \in Tabs, NEW a \in {NoAttempt, Ended(t)}, att' = [att EXCEPT ![t] = a]
    PROVE  /\ ~Awaits(t)' /\ AwaitedHasPlace(t)' /\ Carries(t) /\ \A u \in Tabs \ {t} : att'[u] = att[u]
<1>1. /\ a \in Attempts /\ a.pc \in {"idle", "planned"} /\ ~a.made /\ ~a.epoch
    <2>1. NoAttempt \in Attempts /\ NoAttempt.pc = "idle" /\ ~NoAttempt.made /\ ~NoAttempt.epoch
        BY DEF NoAttempt, Attempts, Steps
    <2>2. Ended(t) \in Attempts /\ Ended(t).pc = "planned" /\ ~Ended(t).made /\ ~Ended(t).epoch
        BY AttemptShape DEF Ended, NoAttempt, Attempts, Steps
    <2>3. QED
        BY <2>1, <2>2
<1>2. att'[t] = a /\ \A u \in Tabs \ {t} : att'[u] = att[u]
    BY <1>1 DEF TabsTyped
<1>3. QED
    BY <1>1, <1>2 DEF Awaits, Unsaved, AwaitedHasPlace, Carries, Idle

(* releaseMaintenanceCompletionReservation *)
LEMMA ReleaseStep ==
    ASSUME CacheInv, TabsTyped, NEW t \in Tabs, NEW k \in Keys, NEW saved,
           places' = [places EXCEPT ![t] = Released(t, k, saved)], att' = [att EXCEPT ![t] = Ended(t)],
           UNCHANGED <<results, leaseOpen>>
    PROVE  CacheInv'
<1>1. places \in [Tabs -> Places] /\ places[t] \in Places
    BY DEF TabsTyped, Places
<1>2. \A j \in Keys : places'[t][j] # places[t][j] => places[t][j].held
    BY <1>1 DEF Released, Places
<1>3. Taken(t)' \subseteq Taken(t) /\ Remembered(t)' = Remembered(t)
    BY <1>2 DEF Taken, Remembered, FreePlace
<1>4. CacheFits(t)'
    BY <1>3, SmallerCache DEF CacheInv
<1>5. \A u \in Tabs \ {t} : places'[u] = places[u]
    BY <1>1
<1>6. QED
    BY <1>4, <1>5, Rested, CacheStep

(* rememberMaintenanceCompletion: the result takes the place that was kept   *)
(* for it, or a free one.                                                   *)
LEMMA RememberStep ==
    ASSUME CacheInv, TabsTyped, NEW t \in Tabs, NEW k \in Keys, NEW v \in Verdicts, Admits(t, k),
           results' = [results EXCEPT ![t][k] = v], places' = [places EXCEPT ![t][k] = FreePlace],
           NEW a \in {NoAttempt, Ended(t)}, att' = [att EXCEPT ![t] = a], UNCHANGED leaseOpen
    PROVE  CacheInv'
<1>1. /\ results[t] \in [Keys -> Verdicts \cup {None}] /\ places[t] \in Places
      /\ \A u \in Tabs \ {t} : results'[u] = results[u] /\ places'[u] = places[u]
      /\ results'[t] = [results[t] EXCEPT ![k] = v] /\ places'[t] = [places[t] EXCEPT ![k] = FreePlace]
    BY DEF TabsTyped, Places
<1>2. v # None /\ results[t][k] = None
    BY MaintenanceAssumption DEF Admits
<1>3. Remembered(t)' = Remembered(t) \cup {k} /\ k \notin Remembered(t) /\ Taken(t)' = Taken(t) \ {k}
    BY <1>1, <1>2 DEF Remembered, Taken, Places
<1>4. CacheFits(t)
    BY DEF CacheInv
<1>5. /\ IsFiniteSet(Remembered(t)') /\ Cardinality(Remembered(t)') = Cardinality(Remembered(t)) + 1
      /\ IsFiniteSet(Taken(t)')
      /\ Cardinality(Taken(t)') = IF k \in Taken(t) THEN Cardinality(Taken(t)) - 1 ELSE Cardinality(Taken(t))
    BY <1>3, <1>4, FS_AddElement, FS_RemoveElement DEF CacheFits
<1>6. Cardinality(Remembered(t)) \in Nat /\ Cardinality(Taken(t)) \in Nat /\ MaxResults \in Nat
    BY <1>4, FS_CardinalityType, MaintenanceAssumption DEF CacheFits
<1>7. CacheFits(t)'
    BY <1>4, <1>5, <1>6 DEF CacheFits, Admits, CanPlan
<1>8. QED
    BY <1>1, <1>7, Rested, CacheStep

LEMMA CommitCache ==
    ASSUME CacheInv, CommandInv, NEW t \in Tabs, Commit(t) \/ Refuse(t) \/ ReadCommits(t)
    PROVE  CacheInv'
<1>1. PICK v \in Verdicts, current \in BOOLEAN, a \in {Ended(t), NoAttempt} :
        /\ results' = Completed(t, Key(t), v, current) /\ att' = [att EXCEPT ![t] = a]
        /\ \/ /\ results' = results /\ a = Ended(t)
              /\ places' = [places EXCEPT ![t] = Released(t, Key(t), slot')]
           \/ results' # results /\ places' = FreedBy(t, Key(t), current)
           \/ a = NoAttempt /\ places' = FreedBy(t, Key(t), current)
    <2>1. CASE Commit(t) \/ ReadCommits(t)
        <3>1. att[t].verdict \in Verdicts
            BY <2>1 DEF Commit, ReadCommits, CommandInv, TabFits, AttemptKnows
        <3>2. QED
            BY <2>1, <3>1 DEF Commit, ReadCommits
    <2>2. CASE Refuse(t)
        <3>1. "failed" \in Verdicts /\ att[t].epoch \in BOOLEAN
            BY AttemptShape DEF Verdicts, CommandInv
        <3>2. QED
            BY <2>2, <3>1 DEF Refuse
    <2>3. QED
        BY <2>1, <2>2
<1>2. UNCHANGED leaseOpen /\ att[t].pc # "idle"
    BY DEF Commit, Refuse, ReadCommits, providerVars
<1>3. TabsTyped /\ Key(t) \in Keys /\ v # None
    BY <1>2, AttemptShape, MaintenanceAssumption DEF CommandInv, TabFits
<1>4. CASE current /\ Admits(t, Key(t))
    <2>1. results' = [results EXCEPT ![t][Key(t)] = v]
        BY <1>1, <1>4 DEF Completed
    <2>2. results' # results
        BY <1>3, <1>4, <2>1 DEF Admits, TabsTyped
    <2>3. places' = [places EXCEPT ![t][Key(t)] = FreePlace]
        BY <1>1, <1>4, <2>2 DEF FreedBy
    <2>4. QED
        BY <1>1, <1>2, <1>3, <1>4, <2>1, <2>3, RememberStep
<1>5. CASE ~(current /\ Admits(t, Key(t)))
    <2>1. results' = results
        BY <1>1, <1>5 DEF Completed
    <2>2. CASE a = Ended(t) /\ places' = [places EXCEPT ![t] = Released(t, Key(t), slot')]
        BY <1>1, <1>2, <1>3, <2>1, <2>2, ReleaseStep
    <2>3. CASE places' = FreedBy(t, Key(t), current)
        <3>1. places' = places
            BY <1>5, <2>3 DEF FreedBy
        <3>2. QED
            BY <1>1, <1>2, <1>3, <2>1, <3>1, Rested, QuietStep
    <2>4. QED
        BY <1>1, <2>1, <2>2, <2>3
<1>6. QED
    BY <1>4, <1>5

(* reserveMaintenanceCompletions: a new command has its place before its     *)
(* baseline is read.                                                        *)
LEMMA BeginCache ==
    ASSUME CacheInv, CommandInv, NEW t \in Tabs, Begin(t)
    PROVE  CacheInv'
<1> DEFINE recovery == slot.pend # None
           k == Key(t)
           a == [att[t] EXCEPT !.pc = IF recovery THEN "retain" ELSE "baseline", !.was = recovery,
                               !.base = IF recovery THEN slot.pend.base ELSE 0, !.epoch = TRUE]
<1>1. /\ UNCHANGED <<results, leaseOpen>> /\ att[t].pc = "planned" /\ results[t][k] = None
      /\ MayReserve(t, k, recovery)
      /\ att' = [att EXCEPT ![t] = a] /\ places' = [places EXCEPT ![t] = Reserved(t, k)]
    BY DEF Begin, providerVars
<1>2. /\ TabsTyped /\ att[t] \in Attempts /\ k \in Keys /\ CacheFits(t) /\ ~att[t].made /\ k \notin Remembered(t)
      /\ places \in [Tabs -> Places] /\ places[t] \in Places
    BY <1>1, AttemptShape DEF CommandInv, TabFits, CacheInv, AwaitedHasPlace, Idle, Remembered, TabsTyped, Places
<1>3. /\ a.plan = att[t].plan /\ a.was = recovery /\ ~a.made
      /\ a.pc = IF recovery THEN "retain" ELSE "baseline"
    BY <1>2 DEF Attempts
<1>4. /\ att'[t] = a /\ \A u \in Tabs \ {t} : att'[u] = att[u] /\ places'[u] = places[u]
      /\ places'[t] = Reserved(t, k)
    BY <1>1, <1>2 DEF TabsTyped
<1>5. /\ Remembered(t)' = Remembered(t)
      /\ \/ Taken(t)' = Taken(t) /\ k \notin Taken(t) /\ ~CanPlan(t, 1)
         \/ Taken(t)' = Taken(t) \cup {k} /\ (k \in Taken(t) \/ CanPlan(t, 1))
    <2>1. Remembered(t)' = Remembered(t)
        BY <1>1 DEF Remembered
    <2>2. CASE k \notin Taken(t) /\ ~CanPlan(t, 1)
        <3>1. places'[t] = places[t]
            BY <1>4, <2>2 DEF Reserved
        <3>2. QED
            BY <2>1, <2>2, <3>1 DEF Taken
    <2>3. CASE ~(k \notin Taken(t) /\ ~CanPlan(t, 1))
        <3>1. places'[t] = [places[t] EXCEPT ![k].held = TRUE]
            BY <1>2, <1>4, <2>3 DEF Reserved
        <3>2. places'[t][k].held /\ \A j \in Keys \ {k} : places'[t][j] = places[t][j]
            BY <1>2, <3>1 DEF Places
        <3>3. Taken(t)' = Taken(t) \cup {k}
            BY <1>2, <3>2 DEF Taken, FreePlace
        <3>4. QED
            BY <2>1, <2>3, <3>3
    <2>4. QED
        BY <2>2, <2>3
<1>6. Cardinality(Remembered(t)) \in Nat /\ Cardinality(Taken(t)) \in Nat /\ MaxResults \in Nat
    BY <1>2, FS_CardinalityType, MaintenanceAssumption DEF CacheFits
<1>7. CacheFits(t)'
    <2>1. CASE Taken(t)' = Taken(t)
        BY <1>2, <1>5, <2>1 DEF CacheFits
    <2>2. CASE Taken(t)' = Taken(t) \cup {k} /\ (k \in Taken(t) \/ CanPlan(t, 1))
        <3>1. /\ IsFiniteSet(Taken(t)')
              /\ Cardinality(Taken(t)') = IF k \in Taken(t) THEN Cardinality(Taken(t)) ELSE Cardinality(Taken(t)) + 1
            BY <1>2, <2>2, FS_AddElement DEF CacheFits
        <3>2. QED
            BY <1>2, <1>5, <1>6, <2>2, <3>1 DEF CacheFits, CanPlan
    <2>3. QED
        BY <1>5, <2>1, <2>2
<1>8. AwaitedHasPlace(t)'
    <2>1. Key(t)' = k /\ ~att'[t].made /\ att'[t].pc \in {"retain", "baseline"}
        BY <1>3, <1>4 DEF Key
    <2>2. recovery => ~Unsaved(t)'
        <3>1. recovery => att'[t].pc = "retain" /\ att'[t].was
            BY <1>3, <1>4
        <3>2. QED
            BY ONLY <3>1 DEF Unsaved
    <2>3. ~recovery => k \in Taken(t)'
        BY <1>1, <1>2, <1>5 DEF MayReserve
    <2>4. QED
        BY <2>1, <2>2, <2>3 DEF AwaitedHasPlace, Awaits, Idle
<1>9. QED
    BY <1>1, <1>4, <1>7, <1>8, CacheStep

(* Planning frees the place of the settled command; clearing the session,   *)
(* reloading and retiring free all.                                         *)
LEMMA FreeingSteps ==
    ASSUME CacheInv, TabsTyped, NEW t \in Tabs,
           (\E k \in Keys : PlanCommand(t, k)) \/ ClearSession(t) \/ Reload(t) \/ Retire(t)
    PROVE  CacheInv'
<1>1. /\ leaseOpen' => leaseOpen
      /\ results' = results \/ results' = [results EXCEPT ![t] = [k \in Keys |-> None]]
    <2>1. CASE \E k \in Keys : PlanCommand(t, k)
        BY <2>1 DEF PlanCommand, providerVars
    <2>2. CASE ClearSession(t) \/ Reload(t)
        BY <2>2 DEF ClearSession, Reload, providerVars
    <2>3. CASE Retire(t)
        BY <2>3 DEF Retire
    <2>4. QED
        BY <2>1, <2>2, <2>3
<1>2. PICK q : places' = [places EXCEPT ![t] = q] /\ \A k \in Keys : q[k] \in {places[t][k], FreePlace}
    <2>1. CASE \E k \in Keys : PlanCommand(t, k)
        BY <2>1 DEF PlanCommand, TabsTyped
    <2>2. CASE ClearSession(t) \/ Reload(t) \/ Retire(t)
        BY <2>2 DEF ClearSession, Reload, Retire
    <2>3. QED
        BY <2>1, <2>2
<1>3. /\ \A u \in Tabs \ {t} : results'[u] = results[u] /\ places'[u] = places[u]
      /\ \A k \in Keys : results'[t][k] \in {results[t][k], None} /\ places'[t][k] \in {places[t][k], FreePlace}
    BY <1>1, <1>2 DEF TabsTyped
<1>4. Remembered(t)' \subseteq Remembered(t) /\ Taken(t)' \subseteq Taken(t)
    BY <1>3 DEF Remembered, Taken
<1>5. CacheFits(t)'
    BY <1>4, SmallerCache DEF CacheInv
<1>6. AwaitedHasPlace(t) /\ att \in [Tabs -> Attempts] /\ att[t] \in Attempts /\ NoAttempt \in Attempts
    BY AttemptShape, EndedShape DEF CacheInv, TabsTyped
<1>7. AwaitedHasPlace(t)' /\ \A u \in Tabs \ {t} : att'[u] = att[u]
    <2>1. CASE \E k \in Keys : PlanCommand(t, k)
        <3>1. PICK plan : att' = [att EXCEPT ![t] = [NoAttempt EXCEPT !.pc = "planned", !.plan = plan]]
            BY <2>1 DEF PlanCommand, PlanAs
        <3>2. /\ [NoAttempt EXCEPT !.pc = "planned", !.plan = plan].pc = "planned"
              /\ ~[NoAttempt EXCEPT !.pc = "planned", !.plan = plan].made
              /\ ~[NoAttempt EXCEPT !.pc = "planned", !.plan = plan].epoch
            BY DEF NoAttempt
        <3>3. /\ att'[t].pc = "planned" /\ ~att'[t].made /\ \A u \in Tabs \ {t} : att'[u] = att[u]
              /\ ~att'[t].epoch
            BY <1>6, <3>1, <3>2
        <3>4. QED
            BY <3>3 DEF AwaitedHasPlace, Awaits
    <2>2. CASE Retire(t)
        BY <1>6, <2>2 DEF Retire, AwaitedHasPlace, Idle
    <2>3. CASE ClearSession(t) \/ Reload(t)
        <3>1. PICK a : /\ att' = [att EXCEPT ![t] = a]
                       /\ a = NoAttempt \/ (a = [att[t] EXCEPT !.epoch = FALSE] /\ ~Idle(t))
            BY <2>3 DEF ClearSession, Reload
        <3>2. ~NoAttempt.made /\ ~NoAttempt.epoch
            BY DEF NoAttempt
        <3>3. ~a.epoch /\ (~a.made \/ a.pc \notin {"idle", "planned"})
            BY <1>6, <3>1, <3>2 DEF Attempts, Idle
        <3>4. att'[t] = a /\ \A u \in Tabs \ {t} : att'[u] = att[u]
            BY <1>6, <3>1
        <3>5. QED
            BY <3>3, <3>4 DEF AwaitedHasPlace, Awaits, Idle
    <2>4. QED
        BY <2>1, <2>2, <2>3
<1>8. QED
    BY <1>1, <1>3, <1>5, <1>7, CacheStep

(* The steps that leave the cache alone.                                    *)
LEMMA QuietSteps ==
    ASSUME CacheInv, TabsTyped, NEW t \in Tabs,
           \/ PlanRecovery(t) \/ BeginReplay(t) \/ BeginRefused(t) \/ Baseline(t) \/ Retain(t) \/ MarkDispatched(t)
           \/ Post(t) \/ Answered(t) \/ Observe(t) \/ ReadStarts(t) \/ ReadObserves(t) \/ ReadDropped(t)
           \/ (DispatchFails(t) /\ att[t].made) \/ (MarkAccepted(t) /\ Goto(t, "waiting") /\ UNCHANGED places)
    PROVE  CacheInv'
<1>1. UNCHANGED <<results, places, leaseOpen>>
    BY DEF PlanRecovery, BeginReplay, BeginRefused, Baseline, Retain, MarkDispatched, Post, Answered, Observe,
           ReadStarts, ReadObserves, ReadDropped, DispatchFails, MarkAccepted, providerVars
<1>2. att \in [Tabs -> Attempts] /\ att[t] \in Attempts
    BY DEF TabsTyped
<1>3. SUFFICES (\A u \in Tabs \ {t} : att'[u] = att[u]) /\ Carries(t)
    BY <1>1, QuietStep
<1>4. CASE BeginReplay(t)
    BY <1>4 DEF BeginReplay, Carries, CacheInv, AwaitedHasPlace, Awaits, Unsaved, Idle, Key
<1>5. CASE BeginRefused(t) \/ ReadDropped(t)
    <2>1. PICK a \in {NoAttempt, Ended(t)} : att' = [att EXCEPT ![t] = a]
        BY <1>5 DEF BeginRefused, ReadDropped
    <2>2. QED
        BY <2>1, Rested
<1>6. CASE PlanRecovery(t) \/ ReadStarts(t)
    <2>1. PICK a : att' = [att EXCEPT ![t] = a] /\ a.pc \in {"planned", "reading"} /\ ~a.made
        <3>1. CASE PlanRecovery(t)
            <4>1. PICK plan : att' = [att EXCEPT ![t] = [NoAttempt EXCEPT !.pc = "planned", !.plan = plan]]
                BY <3>1 DEF PlanRecovery, PlanAs
            <4> DEFINE a == [NoAttempt EXCEPT !.pc = "planned", !.plan = plan]
            <4>2. a.pc = "planned" /\ ~a.made
                BY DEF NoAttempt
            <4>3. QED
                BY <4>1, <4>2
        <3>2. CASE ReadStarts(t)
            <4>1. PICK plan : att' = [att EXCEPT ![t] = [NoAttempt EXCEPT !.pc = "reading", !.base = slot.pend.base,
                                                                         !.epoch = TRUE, !.plan = plan]]
                BY <3>2 DEF ReadStarts
            <4> DEFINE a == [NoAttempt EXCEPT !.pc = "reading", !.base = slot.pend.base, !.epoch = TRUE, !.plan = plan]
            <4>2. a.pc = "reading" /\ ~a.made
                BY DEF NoAttempt
            <4>3. QED
                BY <4>1, <4>2
        <3>3. QED
            BY <1>6, <3>1, <3>2
    <2>2. att'[t].pc \in {"planned", "reading"} /\ ~att'[t].made /\ \A u \in Tabs \ {t} : att'[u] = att[u]
        BY <1>2, <2>1
    <2>3. QED
        BY ONLY <2>2 DEF Carries, Idle, Awaits, Unsaved
<1>7. CASE Baseline(t)
    <2> DEFINE a == [att[t] EXCEPT !.pc = "retain", !.base = Len(releases), !.was = slot.pend # None]
    <2>1. att[t].pc = "baseline" /\ att' = [att EXCEPT ![t] = a]
        BY <1>7 DEF Baseline
    <2>2. a.pc = "retain" /\ a.plan = att[t].plan /\ a.epoch = att[t].epoch
        BY <1>2 DEF Attempts
    <2>3. /\ att'[t].pc = "retain" /\ att'[t].plan = att[t].plan /\ att'[t].epoch = att[t].epoch
          /\ \A u \in Tabs \ {t} : att'[u] = att[u]
        BY <1>2, <2>1, <2>2
    <2>4. QED
        BY ONLY <2>1, <2>3 DEF Carries, Idle, Awaits, Unsaved, Key
<1>8. CASE Retain(t)
    <2> DEFINE a == [att[t] EXCEPT !.pc = "retained", !.made = (slot.pend = None), !.was = FALSE,
                                   !.base = IF slot.pend = None THEN @ ELSE slot.pend.base]
    <2>1. att[t].pc = "retain" /\ MayRetain(t) /\ att' = [att EXCEPT ![t] = a]
        BY <1>8 DEF Retain
    <2>2. a.pc = "retained" /\ a.plan = att[t].plan /\ a.epoch = att[t].epoch /\ (a.made => slot.pend = None)
        BY <1>2 DEF Attempts
    <2>3. /\ att'[t].pc = "retained" /\ att'[t].plan = att[t].plan /\ att'[t].epoch = att[t].epoch
          /\ att'[t].made => slot.pend = None
          /\ \A u \in Tabs \ {t} : att'[u] = att[u]
        BY <1>2, <2>1, <2>2
    <2>4. slot.pend = None => ~att[t].was
        BY <2>1 DEF MayRetain
    <2>5. QED
        BY ONLY <2>1, <2>3, <2>4 DEF Carries, Idle, Awaits, Unsaved, Key
<1>9. ASSUME NEW pc \in {"marked", "discard", "posted", "admitted", "refused", "waiting", "judged", "read"},
             NEW v, att' = [att EXCEPT ![t] = [@ EXCEPT !.pc = pc, !.verdict = v]]
      PROVE  (\A u \in Tabs \ {t} : att'[u] = att[u]) /\ Carries(t)
    <2> DEFINE a == [att[t] EXCEPT !.pc = pc, !.verdict = v]
    <2>1. a.pc = pc /\ a.plan = att[t].plan /\ a.epoch = att[t].epoch /\ a.made = att[t].made
        BY <1>2 DEF Attempts
    <2>2. /\ att'[t].pc = pc /\ att'[t].plan = att[t].plan /\ att'[t].epoch = att[t].epoch
          /\ att'[t].made = att[t].made
          /\ \A u \in Tabs \ {t} : att'[u] = att[u]
        BY <1>2, <1>9, <2>1
    <2>3. QED
        BY ONLY <2>2, <1>9 DEF Carries, Idle, Awaits, Unsaved, Key
<1>10. CASE Observe(t) \/ ReadObserves(t)
    BY <1>9, <1>10 DEF Observe, ReadObserves
<1>11. CASE \/ MarkDispatched(t) \/ Post(t) \/ Answered(t) \/ (DispatchFails(t) /\ att[t].made)
            \/ (MarkAccepted(t) /\ Goto(t, "waiting") /\ UNCHANGED places)
    <2>1. PICK pc \in {"marked", "discard", "posted", "admitted", "refused", "waiting"} :
             att' = [att EXCEPT ![t] = [@ EXCEPT !.pc = pc]]
        BY <1>11 DEF MarkDispatched, Post, Answered, DispatchFails, Goto
    <2>2. [att[t] EXCEPT !.pc = pc] = [att[t] EXCEPT !.pc = pc, !.verdict = att[t].verdict]
        BY <1>2 DEF Attempts
    <2>3. QED
        BY <1>9, <2>1, <2>2
<1>12. QED
    BY <1>4, <1>5, <1>6, <1>7, <1>8, <1>10, <1>11

LEMMA FinishCache ==
    ASSUME CacheInv, CommandInv, NEW t \in Tabs, att[t].pc # "idle", Finish(t), UNCHANGED <<results, leaseOpen>>
    PROVE  CacheInv'
<1>1. TabsTyped /\ Key(t) \in Keys
    BY AttemptShape DEF CommandInv, TabFits
<1>2. QED
    BY <1>1, ReleaseStep DEF Finish

LEMMA CacheInit == Init => CacheInv
<1> SUFFICES ASSUME Init, NEW t \in Tabs PROVE CacheFits(t) /\ AwaitedHasPlace(t)
    BY DEF CacheInv
<1>1. Taken(t) = {} /\ Remembered(t) = {}
    BY DEF Init, Taken, Remembered
<1>2. CacheFits(t)
    BY <1>1, FS_EmptySet, MaintenanceAssumption DEF CacheFits
<1>3. AwaitedHasPlace(t)
    BY DEF Init, NoAttempt, AwaitedHasPlace, Awaits
<1>4. QED
    BY <1>2, <1>3

LEMMA CacheNext ==
    ASSUME CacheInv, CommandInv, [Next]_vars
    PROVE  CacheInv'
<1>1. TabsTyped
    BY DEF CommandInv
<1>2. ASSUME UNCHANGED <<results, places, att, leaseOpen>>
      PROVE  CacheInv'
    BY <1>2 DEF CacheInv, CacheFits, AwaitedHasPlace, Awaits, Unsaved, Idle, Key, Taken, Remembered
<1>3. CASE \E k \in Keys : Deliver(k) \/ StartRelease(k) \/ FinishRelease(k)
    BY <1>2, <1>3 DEF Deliver, StartRelease, FinishRelease, tabVars
<1>4. CASE UNCHANGED vars
    BY <1>2, <1>4 DEF vars, tabVars, providerVars
<1>5. CASE \E t \in Tabs, k \in Keys : PlanCommand(t, k)
    BY <1>1, <1>5, FreeingSteps
<1>6. ASSUME NEW t \in Tabs, ClearSession(t) \/ Reload(t) \/ Retire(t)
      PROVE  CacheInv'
    BY <1>1, <1>6, FreeingSteps
<1>7. ASSUME NEW t \in Tabs, Commit(t) \/ Refuse(t) \/ ReadCommits(t)
      PROVE  CacheInv'
    BY <1>7, CommitCache
<1>8. ASSUME NEW t \in Tabs, Begin(t)
      PROVE  CacheInv'
    BY <1>8, BeginCache
<1>9. ASSUME NEW t \in Tabs,
             \/ BaselineFails(t) \/ RetainFails(t) \/ DispatchSuperseded(t) \/ (DispatchFails(t) /\ ~att[t].made)
             \/ Discard(t) \/ DiscardFails(t) \/ GiveUp(t) \/ (MarkAccepted(t) /\ Finish(t))
      PROVE  CacheInv'
    <2>1. Finish(t) /\ UNCHANGED <<results, leaseOpen>> /\ att[t].pc # "idle"
        BY <1>9 DEF BaselineFails, RetainFails, DispatchSuperseded, DispatchFails, Discard, DiscardFails, GiveUp,
              MarkAccepted, providerVars
    <2>2. QED
        BY <2>1, FinishCache
<1>10. ASSUME NEW t \in Tabs,
             \/ PlanRecovery(t) \/ BeginReplay(t) \/ BeginRefused(t) \/ Baseline(t) \/ Retain(t) \/ MarkDispatched(t)
             \/ Post(t) \/ Answered(t) \/ Observe(t) \/ ReadStarts(t) \/ ReadObserves(t) \/ ReadDropped(t)
             \/ (DispatchFails(t) /\ att[t].made) \/ (MarkAccepted(t) /\ Goto(t, "waiting") /\ UNCHANGED places)
      PROVE  CacheInv'
    BY <1>1, <1>10, QuietSteps
<1>11. ASSUME NEW t \in Tabs, MarkAccepted(t)
       PROVE  Finish(t) \/ (Goto(t, "waiting") /\ UNCHANGED places)
    BY <1>11 DEF MarkAccepted
<1>12. QED
    BY <1>3, <1>4, <1>5, <1>6, <1>7, <1>8, <1>9, <1>10, <1>11 DEF Next

LEMMA CacheAnswers == CacheInv => ResultsHaveRoom
BY DEF CacheInv, CacheFits, AwaitedHasPlace, Awaits, ResultsHaveRoom

(* The result cache of a tab keeps its limit without evicting, and the      *)
(* result of every command the tab created and still awaits has its place   *)
(* in it.                                                                   *)
THEOREM ResultsKeepTheirRoom == Spec => []ResultsHaveRoom
<1>1. Spec => []CacheInv
    BY CacheInit, CacheNext, CommandsHold, PTL DEF Spec
<1>2. QED
    BY <1>1, CacheAnswers, PTL
=============================================================================
