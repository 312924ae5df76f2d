----------------------------- MODULE AppRegistry -----------------------------
(***************************************************************************)
(* The registry of a wallet's apps, the transactions that write it, and    *)
(* the recurring pass that brings it back to the chain:                    *)
(* registry/appRegistry.ts, hooks/useRegistryReconciliation.ts,            *)
(* api/appDiscovery.ts, and deploy, stop, domain and status commands of    *)
(* ai/toolExecutor.                                                        *)
(*                                                                         *)
(* localStorage holds one list of entries for all tabs (stored); a tab     *)
(* whose last write was refused works on a copy of its own (copy).  A step *)
(* is one synchronous stretch of a tab's code between two awaits.          *)
(*                                                                         *)
(* External: the chain (lease, dom, mempool), which anybody may write.     *)
(***************************************************************************)
EXTENDS Naturals, FiniteSets

CONSTANTS
    Tabs, Leases,
    Shown,         \* the visible tabs: a hidden one does not poll
    Names,         \* names a user gives; an imported lease is named after itself
    Domains,       \* custom domains
    Limit,         \* bounds: Limit.commands of the chat; Limit.mishaps: refused writes,
                   \* failed reads and reloads, together
    None

VARIABLES
    stored,        \* localStorage: stored[l] is the entry of lease l
    copy,          \* copy[t]: a tab's unsaved registry, None when its writes are saved
    rendered,      \* rendered[t]: what the subscribers of the tab last read
    due,           \* due[t]: a storage event with a visible change is on its way
    op,            \* op[t]: the command the tab's chat executes
    pass,          \* pass[t]: the tab's reconciliation pass
    lease, dom,    \* chain: state and custom domain of each lease
    hasDeployment, \* chain: leases created with a manifest hash
    mempool,       \* chain: leases with a close transaction not yet executed
    unsavedOnce,   \* history: tabs that had a write refused
    events         \* how much of Limit is used

registryVars == <<stored, copy, rendered, due, unsavedOnce>>
chainVars == <<lease, dom, hasDeployment, mempool>>
appVars == <<registryVars, op, pass, chainVars, events>>

Status == {"deploying", "running", "stopped", "failed"}
ChainState == {"active", "pending", "absent"}
ProvisionState == {"confirmed", "unconfirmed", "failed"}

Entry == [name : Names \cup Leases, chain : ChainState \cup {None},
          prov : ProvisionState \cup {None}, status : Status,
          dom : Domains \cup {None}, full : BOOLEAN]

(* Nothing is neither an observation nor a registry. *)
ASSUME RegistryAssumption == None \notin ChainState \cup ProvisionState \cup [Leases -> Entry \cup {None}]

(* What a subscriber renders: observations show only through the status.   *)
Displayed(apps) ==
    [l \in Leases |-> IF apps[l] = None THEN None
                      ELSE [name |-> apps[l].name, status |-> apps[l].status,
                            dom |-> apps[l].dom, full |-> apps[l].full]]

NoOp == [pc |-> "idle"]
NoPass == [pc |-> "idle"]

(* An earlier build imported leases that carry no deployment. *)
Legacy(l) == [name |-> l, chain |-> "active", prov |-> "unconfirmed", status |-> "deploying",
              dom |-> None, full |-> TRUE]

RegistryInit ==
    /\ \E old \in SUBSET Leases :
          /\ stored = [l \in Leases |-> IF l \in old THEN Legacy(l) ELSE None]
          /\ lease = [l \in Leases |-> IF l \in old THEN "active" ELSE "none"]
    /\ copy = [t \in Tabs |-> None]
    /\ rendered = [t \in Tabs |-> Displayed(stored)]
    /\ due = [t \in Tabs |-> FALSE]
    /\ op = [t \in Tabs |-> NoOp]
    /\ pass = [t \in Tabs |-> NoPass]
    /\ dom = [l \in Leases |-> None]
    /\ hasDeployment = [l \in Leases |-> FALSE]
    /\ mempool = {}
    /\ unsavedOnce = {}
    /\ events = [commands |-> 0, mishaps |-> 0]

-----------------------------------------------------------------------------
(* The registry.                                                           *)

Live(l) == lease[l] \in {"pending", "active"}

(* deriveAppStatus: precedence by authority, not by recency.               *)
Derived(e) ==
    CASE e.prov = "failed" -> "failed"
      [] e.prov # "failed" /\ e.chain = "absent" ->
            IF e.prov = None /\ e.status = "failed" THEN "failed" ELSE "stopped"
      [] e.chain # "absent" /\ e.prov = "unconfirmed" -> "deploying"
      [] e.chain # "absent" /\ e.prov = "confirmed" ->
            IF e.chain = "pending" THEN "deploying" ELSE "running"
      [] e.prov = None /\ e.chain = "active" -> "running"
      [] e.prov = None /\ e.chain = "pending" -> "deploying"
      [] OTHER -> e.status

Summed(e) == [e EXCEPT !.status = Derived(e)]

(* loadApps: an unsaved copy outranks what other tabs saved. *)
View(t) == IF copy[t] # None THEN copy[t] ELSE stored

(* Only running and deploying apps hold their name. *)
HoldsName(e) == e # None /\ e.status \in {"running", "deploying"}
NameTaken(apps, n) == \E l \in Leases : HoldsName(apps[l]) /\ apps[l].name = n

(* A command begins, or something fails. *)
Happens(kind) == events[kind] < Limit[kind] /\ events' = [events EXCEPT ![kind] = @ + 1]
Command == Happens("commands")
Mishap == Happens("mishaps")

(* saveApps and notify: a refused write leaves the tab the only copy.      *)
Saved(t, apps) ==
    /\ stored' = apps
    /\ copy' = [copy EXCEPT ![t] = None]
    /\ due' = [u \in Tabs |-> due[u] \/ (u # t /\ Displayed(apps) # Displayed(stored))]
    /\ UNCHANGED unsavedOnce

Refused(t, apps) ==
    /\ copy' = [copy EXCEPT ![t] = apps]
    /\ unsavedOnce' = unsavedOnce \cup {t}
    /\ UNCHANGED <<stored, due>>

Told(t, apps, told) ==
    rendered' = IF told THEN [rendered EXCEPT ![t] = Displayed(apps)] ELSE rendered

Write(t, apps, told) ==
    /\ \/ Saved(t, apps) /\ UNCHANGED events
       \/ Refused(t, apps) /\ Mishap
    /\ Told(t, apps, told)

Unwritten == UNCHANGED <<registryVars, events>>

\* Faulty variant of UpdateApp: only a change of status is told.
FaultyUpdateApp(t, l, e) ==
    LET apps == [View(t) EXCEPT ![l] = Summed(e)] IN
    IF View(t)[l] = None \/ apps = View(t) THEN Unwritten
    ELSE Write(t, apps, apps[l].status # View(t)[l].status)

(* updateApp: the merged entry is summed up again; a write that moves      *)
(* nothing is skipped, one that moves nothing visible is not told.         *)
UpdateApp(t, l, e) ==
    LET apps == [View(t) EXCEPT ![l] = Summed(e)] IN
    IF View(t)[l] = None \/ apps = View(t) THEN Unwritten
    ELSE Write(t, apps, Displayed(apps) # Displayed(View(t)))

(* addApp: an entry discovered first keeps the observations the caller     *)
(* omits; stopped and failed apps lose their entry to a new one of their   *)
(* name.                                                                   *)
AddApp(t, l, name) ==
    LET old == View(t)[l]
        new == Summed([name |-> name, full |-> TRUE, status |-> "deploying",
                       chain |-> IF old = None THEN None ELSE old.chain,
                       prov |-> IF old = None THEN None ELSE old.prov,
                       dom |-> IF old = None THEN None ELSE old.dom])
        Replaced(j) == View(t)[j] # None /\ View(t)[j].name = name /\ ~HoldsName(View(t)[j])
    IN Write(t, [j \in Leases |-> IF j = l THEN new ELSE IF Replaced(j) THEN None ELSE View(t)[j]], TRUE)

\* Faulty variant of StorageEvent: an event of another tab discards the unsaved registry.
FaultyStorageEvent(t) ==
    /\ due[t]
    /\ due' = [due EXCEPT ![t] = FALSE]
    /\ copy' = [copy EXCEPT ![t] = None]
    /\ rendered' = [rendered EXCEPT ![t] = Displayed(stored)]
    /\ UNCHANGED <<stored, unsavedOnce, op, pass, chainVars, events>>

(* handleStorageEvent.  Other tabs' observations need no event: a tab that *)
(* is saved reads the storage itself.                                      *)
StorageEvent(t) ==
    /\ due[t]
    /\ due' = [due EXCEPT ![t] = FALSE]
    /\ IF copy[t] # None THEN UNCHANGED <<copy, rendered>>
       ELSE rendered' = [rendered EXCEPT ![t] = Displayed(stored)] /\ UNCHANGED copy
    /\ UNCHANGED <<stored, unsavedOnce, op, pass, chainVars, events>>

-----------------------------------------------------------------------------
(* Commands.  The chat of a tab runs one at a time.                        *)

Begins(t, new) ==
    /\ op[t] = NoOp /\ Command
    /\ op' = [op EXCEPT ![t] = new]

Ends(t) == op' = [op EXCEPT ![t] = NoOp]

(* executeDeployApp: a name nobody holds, suffixed until there is one.     *)
PlanDeploy(t) ==
    /\ \E n \in Names : ~NameTaken(View(t), n) /\ Begins(t, [pc |-> "deploy", name |-> n])
    /\ UNCHANGED <<registryVars, pass, chainVars>>

(* The confirmed plan creates the lease; its name is not checked again.    *)
CreateLease(t, l) ==
    /\ op[t].pc = "deploy" /\ lease[l] = "none"
    /\ lease' = [lease EXCEPT ![l] = "pending"]
    /\ hasDeployment' = [hasDeployment EXCEPT ![l] = TRUE]
    /\ op' = [op EXCEPT ![t] = [pc |-> "created", name |-> op[t].name, l |-> l]]
    /\ UNCHANGED <<registryVars, pass, dom, mempool, events>>

(* Case 1: create-lease was rejected, or the approval is gone.             *)
DeployRefused(t) ==
    /\ op[t].pc = "deploy" /\ Ends(t)
    /\ UNCHANGED <<registryVars, pass, chainVars, events>>

(* onLeaseCreated *)
LeaseCreated(t) ==
    /\ op[t].pc = "created"
    /\ AddApp(t, op[t].l, op[t].name)
    /\ op' = [op EXCEPT ![t] = [pc |-> "added", l |-> op[t].l]]
    /\ UNCHANGED <<pass, chainVars>>

(* deployManifest resolves once the lease is active and the provider ready;*)
(* a domain of the plan was attached on the way.                           *)
AttachInDeploy(t, d) ==
    /\ op[t].pc = "added" /\ Live(op[t].l) /\ \A l \in Leases : dom[l] # d
    /\ dom' = [dom EXCEPT ![op[t].l] = d]
    /\ op' = [op EXCEPT ![t] = [pc |-> "attached", l |-> op[t].l]]
    /\ UNCHANGED <<registryVars, pass, lease, hasDeployment, mempool, events>>

DeploySucceeds(t) ==
    LET l == op[t].l  e == View(t)[l] IN
    /\ op[t].pc \in {"added", "attached"} /\ lease[l] = "active"
    /\ \/ e = None /\ Unwritten
       \/ e # None /\ UpdateApp(t, l, [e EXCEPT !.chain = "active", !.prov = "confirmed",
              !.dom = IF op[t].pc = "attached" THEN dom[l] ELSE @])
    /\ Ends(t)
    /\ UNCHANGED <<pass, chainVars>>

(* handleDeployManifestError once the lease exists: which observation the  *)
(* failure carries.  2a unconfirmed, 2b and 2c failed, case 3 terminal,    *)
(* 2d what a look at the chain says.                                       *)
AfterThrow(e, l) ==
    {[e EXCEPT !.prov = p] : p \in {"unconfirmed", "failed"}}
    \cup {x \in {[e EXCEPT !.chain = "absent", !.prov = "failed"]} : lease[l] = "gone"}
    \cup {x \in {[e EXCEPT !.chain = "active"]} : lease[l] = "active"}
    \cup {x \in {[e EXCEPT !.status = "deploying"]} : lease[l] = "pending"}
    \cup {[e EXCEPT !.status = "failed"]}

DeployThrows(t) ==
    LET l == op[t].l  e == View(t)[l] IN
    /\ op[t].pc \in {"added", "attached"}
    /\ \/ e = None /\ Unwritten
       \/ e # None /\ \E new \in AfterThrow(e, l) : UpdateApp(t, l, new)
    /\ Ends(t)
    /\ UNCHANGED <<pass, chainVars>>

(* executeStopApp: one app is waited for, several are only broadcast.      *)
PlanStop(t, l) ==
    /\ View(t)[l] # None
    /\ \/ View(t)[l].status # "stopped" /\ Begins(t, [pc |-> "stop", l |-> l])
       \/ HoldsName(View(t)[l]) /\ Begins(t, [pc |-> "bulk", l |-> l])
    /\ UNCHANGED <<registryVars, pass, chainVars>>

StopSubmits(t) ==
    LET l == op[t].l IN
    /\ op[t].pc \in {"stop", "bulk"}
    /\ IF op[t].pc = "stop" /\ Live(l) THEN lease' = [lease EXCEPT ![l] = "gone"] ELSE UNCHANGED lease
    /\ IF op[t].pc = "bulk" /\ Live(l) THEN mempool' = mempool \cup {l} ELSE UNCHANGED mempool
    /\ op' = [op EXCEPT ![t] = [pc |-> "stopped", l |-> l]]
    /\ UNCHANGED <<registryVars, pass, dom, hasDeployment, events>>

StopRecords(t) ==
    LET l == op[t].l  e == View(t)[l] IN
    /\ op[t].pc = "stopped"
    /\ \/ e = None /\ Unwritten
       \/ e # None /\ UpdateApp(t, l, [e EXCEPT !.chain = "absent"])
    /\ Ends(t)
    /\ UNCHANGED <<pass, chainVars>>

(* executeSetCustomDomain; the chain refuses a domain another lease holds. *)
PlanDomain(t, l, d) ==
    /\ View(t)[l] # None /\ Live(l) /\ dom[l] # d
    /\ Begins(t, [pc |-> "domain", l |-> l, d |-> d])
    /\ UNCHANGED <<registryVars, pass, chainVars>>

DomainLands(t) ==
    LET l == op[t].l  d == op[t].d IN
    /\ op[t].pc = "domain" /\ Live(l)
    /\ d = None \/ \A j \in Leases : dom[j] # d
    /\ dom' = [dom EXCEPT ![l] = d]
    /\ op' = [op EXCEPT ![t].pc = "landed"]
    /\ UNCHANGED <<registryVars, pass, lease, hasDeployment, mempool, events>>

DomainRecords(t) ==
    LET l == op[t].l  e == View(t)[l] IN
    /\ op[t].pc = "landed"
    /\ \/ e = None /\ Unwritten
       \/ e # None /\ UpdateApp(t, l, [e EXCEPT !.dom = op[t].d])
    /\ Ends(t)
    /\ UNCHANGED <<pass, chainVars>>

(* A refused or cancelled transaction, or one whose answer was lost after  *)
(* it landed: nothing is recorded.                                         *)
AnswerLost(t) ==
    /\ op[t].pc \in {"stop", "bulk", "stopped", "domain", "landed"}
    /\ Ends(t)
    /\ UNCHANGED <<registryVars, pass, chainVars, events>>

(* executeAppStatus: it decides what is new by the entry it started from,  *)
(* and writes over the entry of that moment.                               *)
StatusStarts(t, l) ==
    /\ View(t)[l] # None
    /\ Begins(t, [pc |-> "status", l |-> l, snap |-> View(t)[l]])
    /\ UNCHANGED <<registryVars, pass, chainVars>>

StatusReads(t) ==
    LET l == op[t].l IN
    /\ op[t].pc = "status" /\ lease[l] # "none"
    /\ op' = [op EXCEPT ![t] = [pc |-> "answered", l |-> l, snap |-> op[t].snap,
                                state |-> lease[l], dom |-> dom[l]]]
    /\ UNCHANGED <<registryVars, pass, chainVars, events>>

(* provisionObservationPatch: progress does not retract a verdict, and a   *)
(* missing answer is none.                                                 *)
Readings(prov) ==
    {prov, "confirmed", "failed"} \cup (IF prov \in {"confirmed", "failed"} THEN {} ELSE {"unconfirmed"})

(* Endpoints may have moved (moved), which is written with the rest.       *)
AfterStatus(e, snap, state, moved, reading) ==
    CASE state = "gone" -> IF snap.chain = "absent" THEN e ELSE [e EXCEPT !.chain = "absent"]
      [] state = "pending" -> IF snap.chain = "pending" THEN e ELSE [e EXCEPT !.chain = "pending"]
      [] state = "active" ->
            IF snap.chain = "active" /\ snap.prov = reading /\ ~moved THEN e
            ELSE [e EXCEPT !.chain = "active", !.prov = IF reading = snap.prov THEN @ ELSE reading]

StatusRecords(t) ==
    LET l == op[t].l  e == View(t)[l] IN
    /\ op[t].pc = "answered"
    /\ \/ e = None /\ Unwritten
       \/ /\ e # None
          /\ \E moved \in BOOLEAN, reading \in Readings(op[t].snap.prov) :
                UpdateApp(t, l, [AfterStatus(e, op[t].snap, op[t].state, moved, reading)
                                    EXCEPT !.dom = op[t].dom])
    /\ Ends(t)
    /\ UNCHANGED <<pass, chainVars>>

-----------------------------------------------------------------------------
(* The pass: useRegistryReconciliation, and list_apps, which runs the same *)
(* steps without the domains.                                              *)

Unread == [l \in Leases |-> None]

(* Both baselines are read before the chain is. *)
Baselined(t, domains) ==
    [pc |-> "reading", domains |-> domains, left |-> {"active", "pending"}, seen |-> Unread,
     base |-> [l \in Leases |-> IF View(t)[l] = None THEN None
                                ELSE [chain |-> View(t)[l].chain, dom |-> View(t)[l].dom]]]

PassBegins(t) ==
    /\ t \in Shown /\ pass[t] = NoPass
    /\ pass' = [pass EXCEPT ![t] = Baselined(t, TRUE)]
    /\ UNCHANGED <<registryVars, op, chainVars, events>>

(* executeListApps, between two ticks. *)
ListApps(t) ==
    /\ op[t] = NoOp /\ pass[t] = NoPass /\ Command
    /\ pass' = [pass EXCEPT ![t] = Baselined(t, FALSE)]
    /\ UNCHANGED <<registryVars, op, chainVars>>

(* The leases of each state are asked for separately, and answered at      *)
(* separate moments; active wins.                                          *)
PassReads(t, state) ==
    LET Sees(l) == lease[l] = state /\ (state = "active" \/ pass[t].seen[l] = None) IN
    /\ pass[t].pc = "reading" /\ state \in pass[t].left
    /\ pass' = [pass EXCEPT ![t].left = @ \ {state},
                            ![t].seen = [l \in Leases |->
                                IF Sees(l) THEN [state |-> state, dom |-> dom[l]] ELSE @[l]]]
    /\ UNCHANGED <<registryVars, op, chainVars, events>>

\* Faulty variant of Reconciled: the status is not derived again from the new observation.
FaultyReconciled(e, base, seen) ==
    IF e = None \/ base = None \/ e.chain # base.chain THEN e
    ELSE [e EXCEPT !.chain = IF seen = None THEN "absent" ELSE seen.state]

(* reconcileWithChain: a lease in neither list is gone.  An entry that is  *)
(* new or whose chain state changed during the read is newer.              *)
Reconciled(e, base, seen) ==
    IF e = None \/ base = None \/ e.chain # base.chain THEN e
    ELSE Summed([e EXCEPT !.chain = IF seen = None THEN "absent" ELSE seen.state])

\* Faulty variant of DomainReconciled: the domains recorded during the read are not compared with the baseline.
FaultyDomainReconciled(e, base, seen) ==
    IF e = None \/ base = None \/ seen = None THEN e
    ELSE [e EXCEPT !.dom = seen.dom]

(* reconcileCustomDomainsWithChain *)
DomainReconciled(e, base, seen) ==
    IF e = None \/ base = None \/ seen = None THEN e
    ELSE IF e.dom # base.dom THEN e ELSE [e EXCEPT !.dom = seen.dom]

(* discoverTenantApps: leases to import, and entries without provider or   *)
(* size; a live lease without a deployment is no app.                      *)
Candidate(t, apps, l) == pass[t].seen[l] # None /\ hasDeployment[l] /\ (apps[l] = None \/ ~apps[l].full)
Payloadless(t, apps, l) == pass[t].seen[l] # None /\ ~hasDeployment[l] /\ apps[l] # None

(* Both reconciliations and the baseline of the discovery, in one stretch. *)
PassReconciles(t) ==
    LET view == View(t)
        chained == [l \in Leases |-> Reconciled(view[l], pass[t].base[l], pass[t].seen[l])]
        apps == [l \in Leases |-> IF pass[t].domains
                                  THEN DomainReconciled(chained[l], pass[t].base[l], pass[t].seen[l])
                                  ELSE chained[l]]
    IN /\ pass[t].pc = "reading" /\ pass[t].left = {}
       /\ IF apps = view THEN Unwritten ELSE Write(t, apps, Displayed(apps) # Displayed(view))
       /\ pass' = [pass EXCEPT ![t] =
              IF \E l \in Leases : Candidate(t, apps, l) \/ Payloadless(t, apps, l)
              THEN [pc |-> "discovering", seen |-> pass[t].seen,
                    known |-> [l \in Leases |-> IF Candidate(t, apps, l) \/ Payloadless(t, apps, l)
                                                THEN [entry |-> apps[l]] ELSE None]]
              ELSE NoPass]
       /\ UNCHANGED <<op, chainVars>>

Imported(l, seen, full) ==
    Summed([name |-> l, chain |-> seen.state, prov |-> "unconfirmed", status |-> "deploying",
            dom |-> seen.dom, full |-> full])

\* Faulty variant of Discovered: entries of leases without a deployment are never dropped.
FaultyDiscovered(t, l, full) ==
    LET p == pass[t]  e == View(t)[l] IN
    IF p.known[l] = None THEN e
    ELSE IF e = None THEN IF hasDeployment[l] THEN Imported(l, p.seen[l], full) ELSE None
    ELSE IF e = p.known[l].entry /\ full THEN [e EXCEPT !.full = TRUE] ELSE e

(* discoverAppsFromChain after the catalog answered, or did not (full): what is *)
(* missing is imported, what is incomplete is completed if nobody touched  *)
(* it, what carries no deployment is dropped.                              *)
Discovered(t, l, full) ==
    LET p == pass[t]  e == View(t)[l] IN
    IF p.known[l] = None THEN e
    ELSE IF ~hasDeployment[l] THEN None
    ELSE IF p.known[l].entry = None THEN IF e = None THEN Imported(l, p.seen[l], full) ELSE e
    ELSE IF e = p.known[l].entry /\ full THEN [e EXCEPT !.full = TRUE] ELSE e

PassDiscovers(t) ==
    /\ pass[t].pc = "discovering"
    /\ \/ LET apps == [l \in Leases |-> Discovered(t, l, TRUE)] IN
          IF apps = View(t) THEN Unwritten ELSE Write(t, apps, TRUE)
       \/ LET apps == [l \in Leases |-> Discovered(t, l, FALSE)] IN
          /\ Mishap /\ apps # View(t)
          /\ Saved(t, apps) /\ Told(t, apps, TRUE)
    /\ pass' = [pass EXCEPT ![t] = NoPass]
    /\ UNCHANGED <<op, chainVars>>

(* A read failed or timed out, or the authorization changed. *)
PassFails(t) ==
    /\ pass[t] # NoPass /\ Mishap
    /\ pass' = [pass EXCEPT ![t] = NoPass]
    /\ UNCHANGED <<registryVars, op, chainVars>>

(* The tab dies with what it did not save, and comes back. *)
Reload(t) ==
    /\ Mishap
    /\ op' = [op EXCEPT ![t] = NoOp]
    /\ pass' = [pass EXCEPT ![t] = NoPass]
    /\ copy' = [copy EXCEPT ![t] = None]
    /\ due' = [due EXCEPT ![t] = FALSE]
    /\ rendered' = [rendered EXCEPT ![t] = Displayed(stored)]
    /\ unsavedOnce' = unsavedOnce \ {t}
    /\ UNCHANGED <<stored, chainVars>>

-----------------------------------------------------------------------------
(* The chain.                                                              *)

UnchangedButChain == UNCHANGED <<registryVars, op, pass, events>>

ForeignLease(l) ==
    /\ lease[l] = "none"
    /\ lease' = [lease EXCEPT ![l] = "pending"]
    /\ \E deployed \in BOOLEAN : hasDeployment' = [hasDeployment EXCEPT ![l] = deployed]
    /\ UNCHANGED <<dom, mempool>> /\ UnchangedButChain

Acknowledge(l) ==
    /\ lease[l] = "pending"
    /\ lease' = [lease EXCEPT ![l] = "active"]
    /\ UNCHANGED <<dom, hasDeployment, mempool>> /\ UnchangedButChain

(* Rejected, expired, or closed by another device.                         *)
LeaseEnds(l) ==
    /\ Live(l)
    /\ lease' = [lease EXCEPT ![l] = "gone"]
    /\ UNCHANGED <<dom, hasDeployment, mempool>> /\ UnchangedButChain

(* A broadcast stop is executed, or fails when it is. *)
CloseExecutes(l) ==
    /\ l \in mempool
    /\ mempool' = mempool \ {l}
    /\ \E works \in BOOLEAN :
          lease' = IF works /\ Live(l) THEN [lease EXCEPT ![l] = "gone"] ELSE lease
    /\ UNCHANGED <<dom, hasDeployment>> /\ UnchangedButChain

-----------------------------------------------------------------------------
RegistryNext ==
    \/ \E t \in Tabs :
          \/ PlanDeploy(t) \/ DeployRefused(t) \/ LeaseCreated(t) \/ DeploySucceeds(t) \/ DeployThrows(t)
          \/ StopSubmits(t) \/ StopRecords(t) \/ DomainLands(t) \/ DomainRecords(t) \/ AnswerLost(t)
          \/ StatusReads(t) \/ StatusRecords(t)
          \/ PassBegins(t) \/ ListApps(t) \/ PassReconciles(t) \/ PassDiscovers(t) \/ PassFails(t)
          \/ StorageEvent(t) \/ Reload(t)
    \/ \E t \in Tabs, l \in Leases : CreateLease(t, l) \/ PlanStop(t, l) \/ StatusStarts(t, l)
    \/ \E t \in Tabs, d \in Domains : AttachInDeploy(t, d)
    \/ \E t \in Tabs, l \in Leases, d \in Domains \cup {None} : PlanDomain(t, l, d)
    \/ \E t \in Tabs, state \in {"active", "pending"} : PassReads(t, state)
    \/ \E l \in Leases : ForeignLease(l) \/ Acknowledge(l) \/ LeaseEnds(l) \/ CloseExecutes(l)

(* A visible tab polls for ever, and every read is answered or times out.  *)
Fairness ==
    \A t \in Shown :
        /\ WF_appVars(PassBegins(t)) /\ WF_appVars(PassReconciles(t)) /\ WF_appVars(PassDiscovers(t))
        /\ \A state \in {"active", "pending"} : WF_appVars(PassReads(t, state))

RegistrySpec == RegistryInit /\ [][RegistryNext]_appVars /\ Fairness

-----------------------------------------------------------------------------
(* Every registry has its type, and every status in it is the one that the *)
(* entry's observations give: no write leaves a summary behind.            *)
Registry == [Leases -> Entry \cup {None}]
RegistryTypeOK ==
    /\ stored \in Registry
    /\ \A t \in Tabs : copy[t] \in Registry \cup {None}
    /\ \A t \in Tabs, l \in Leases : View(t)[l] # None => View(t)[l] = Summed(View(t)[l])

(* What a saved tab shows is what it would read, unless another tab's      *)
(* event is still on its way: no write that shows goes untold.             *)
RenderedIsCurrent ==
    \A t \in Tabs \ unsavedOnce : ~due[t] => rendered[t] = Displayed(View(t))

(* The only copy of what storage refused changes by the tab's own command  *)
(* and pass, or is lost with the tab, whatever the other tabs write.       *)
KeepsUnsaved ==
    \A t \in Tabs :
       copy[t] # None /\ op'[t] = op[t] /\ pass'[t] = pass[t] /\ ~Reload(t) => View(t)' = View(t)

(* A pass reads the chain for seconds.  What was recorded meanwhile, by a  *)
(* command of this tab or of another, and still holds on the chain, is not *)
(* overwritten with the older answer.                                      *)
Holds(e, l) == e.chain = IF Live(l) THEN lease[l] ELSE "absent"
KeepsNewer ==
    \A t \in Tabs, l \in Leases :
       LET e == View(t)[l]  base == pass[t].base[l] IN
       PassReconciles(t) /\ e # None /\ base # None =>
          /\ e.chain # base.chain /\ Holds(e, l) => View(t)'[l].chain = e.chain
          /\ e.dom # base.dom /\ e.dom = dom[l] => View(t)'[l].dom = e.dom

(* registry/appRegistry.ts says that "absent" is recorded of a lease that  *)
(* was observed to be gone: no pass records it of a lease that still lives.*)
AbsentWasGone ==
    [][\A t \in Tabs, l \in Leases :
         PassReconciles(t) /\ View(t)'[l] # View(t)[l] /\ View(t)'[l].chain = "absent" => ~Live(l)]_appVars

(* Whatever tabs, commands, lost answers and stale reads did, every shown  *)
(* tab comes to list each live app with the chain's state and domain, and *)
(* no app as live that is gone.                                            *)
Converged ==
    \A t \in Shown, l \in Leases :
        LET e == View(t)[l] IN
        /\ Live(l) /\ hasDeployment[l] => e # None /\ e.chain = lease[l] /\ e.dom = dom[l]
        /\ e # None => IF Live(l) THEN hasDeployment[l] ELSE e.chain = "absent"
=============================================================================
