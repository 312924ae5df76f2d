-------------------------- MODULE LegacyMaintenance --------------------------
(***************************************************************************)
(* Restarts and updates of one app whose provider cannot tell a repeated   *)
(* command from a new one (ai/toolExecutor/compositeTransactions.ts and    *)
(* provisionStatus.ts): nothing is saved before the request goes out, so   *)
(* what became of it is told from what the provider reports afterwards.    *)
(* A page that dies in between, tells nothing and marks nothing.           *)
(*                                                                         *)
(* Commands of two tabs may meet at the provider.  The entries of a batch  *)
(* restart are such commands, each of another app; they share the signal   *)
(* alone.  A manifest is known by the command that brought it.             *)
(***************************************************************************)
EXTENDS Integers, FiniteSets

CONSTANTS
  Unknown,     \* the manifest of a recovered app
  Flights,     \* tabs, of which each executes one command at a time
  \* bounds of the exploration
  MaxCommands,
  MaxDeaths    \* containers that die on their own

ASSUME LegacyAssumption == {MaxCommands, Flights} \subseteq Nat \ {0} /\ MaxDeaths \in Nat

VARIABLES
  fred,        \* the provider: [status, reason, serves, job]
  entry,       \* the registry: [manifest, prov, stale]
  commands,    \* commands[c]: the command c
  late,        \* requests given up on that may still arrive
  deaths,
  \* observers
  became,      \* became[c]: what the provider made of c
  excused      \* something happened that no answer has told of

legacyVars == <<fred, entry, commands, late, deaths, became, excused>>

Commands == 1..MaxCommands
First == 0
Ends == {"applied", "rolledBack", "rollbackFailed", "preflight"}

NoCommand == [kind |-> "none", step |-> "unborn", base |-> First, previous |-> First, aborted |-> FALSE, told |-> "nothing",
              sighted |-> FALSE, read |-> FALSE, alone |-> TRUE]
Unfinished(c) == commands[c].step \notin {"unborn", "done"}
Accepted(c) == commands[c].step \in {"posted", "wait", "provision", "url"}
CommandAt(c, step) == commands[c].step = step
TellsOf(cs, c, told) ==
  [cs EXCEPT ![c] = [NoCommand EXCEPT !.kind = cs[c].kind, !.step = "done", !.told = told, !.read = cs[c].read, !.alone = cs[c].alone]]
Told(c, told) == commands' = TellsOf(commands, c, told)

----------------------------------------------------------------------------
(* The provider, as far as the comments in the code describe it.           *)

(* The status is written before the request is acknowledged; the reason of *)
(* an earlier failure stays until a command succeeds.                      *)
Takes(c) ==
  /\ fred.status # "busy"
  /\ fred' = [fred EXCEPT !.status = "busy", !.job = c]
  /\ became' = [became EXCEPT ![c] = "busy"]

(* A restart whose containers are restored reports a clean ready, like one *)
(* that succeeded.                                                         *)
FredEnds(end) ==
  /\ fred.status = "busy"
  /\ commands[fred.job].kind = "restart" => end \in {"applied", "rollbackFailed"}
  /\ fred' = [fred EXCEPT
       !.status = IF end \in {"applied", "rolledBack"} THEN "ready" ELSE "failed",
       !.reason = CASE end = "applied" -> "none" [] end = "preflight" -> "ImagePullFailed" [] OTHER -> "UpdateFailed",
       !.serves = IF end = "applied" /\ commands[fred.job].kind = "update" THEN fred.job ELSE @]
  /\ became' = [became EXCEPT ![fred.job] = end]
  /\ UNCHANGED <<entry, commands, late, deaths, excused>>

FredDies ==
  /\ fred.status = "ready" /\ deaths < MaxDeaths
  /\ fred' = [fred EXCEPT !.status = "failed", !.reason = "ContainerExited"]
  /\ deaths' = deaths + 1 /\ excused' = TRUE
  /\ UNCHANGED <<entry, commands, late, became>>

(* What a degraded provider reports of the provision is nothing.           *)
Reports == {fred.status, "absent"}

----------------------------------------------------------------------------
(* What an observation makes of the record (provisionStatus.ts).           *)

isUnsettledProvisionStatus(status) == status \in {"absent", "busy"}
classifyProvisionStatus(status) == IF status = "ready" THEN "confirmed" ELSE "failed"

(* Progress and silence take back no verdict, but are looked into again.   *)
provisionObservationPatch(status, previous) ==
  IF isUnsettledProvisionStatus(status)
  THEN [previous EXCEPT !.stale = TRUE]
  ELSE [previous EXCEPT !.prov = classifyProvisionStatus(status), !.stale = FALSE]

Verdict(prov) == [entry EXCEPT !.prov = prov, !.stale = FALSE]
NoVerdictYet == [entry EXCEPT !.stale = TRUE]

(* app_status, or a round of the recovery.                                 *)
Observes(status) ==
  /\ status \in Reports
  /\ entry' = provisionObservationPatch(status, entry)
  /\ excused' = (excused /\ (isUnsettledProvisionStatus(status) \/ \E c \in Commands : Accepted(c)))
  /\ UNCHANGED <<fred, commands, late, deaths, became>>

----------------------------------------------------------------------------
(* The plan.  Only running apps restart; an update is merged with the      *)
(* manifest on record, unless it names all services itself.                *)

MayPlanLegacy(c) ==
  /\ commands[c].step = "unborn" /\ \A d \in Commands : d < c => commands[d].step # "unborn"
  /\ Cardinality({d \in Commands : Unfinished(d)}) < Flights

PlanRestart(c) ==
  /\ MayPlanLegacy(c) /\ entry.prov = "confirmed"
  /\ commands' = [commands EXCEPT ![c].kind = "restart", ![c].step = "post"]
  /\ UNCHANGED <<fred, entry, late, deaths, became, excused>>

Merged(c, stack) == IF stack \/ entry.manifest = Unknown THEN c ELSE entry.manifest
PlanUpdate(c, stack) ==
  /\ MayPlanLegacy(c) /\ entry.prov \in {"confirmed", "failed"}
  /\ commands' = [commands EXCEPT ![c].kind = "update", ![c].step = "post", ![c].base = Merged(c, stack)]
  /\ UNCHANGED <<fred, entry, late, deaths, became, excused>>

(* Once the request is sent, an abort is but one of the ways in which a    *)
(* wait ends without a verdict (WaitRejects).                              *)
AbortCommand(c) ==
  /\ CommandAt(c, "post") /\ ~commands[c].aborted
  /\ commands' = [commands EXCEPT ![c].aborted = TRUE]
  /\ UNCHANGED <<fred, entry, late, deaths, became, excused>>

----------------------------------------------------------------------------
(* The request.                                                            *)

(* The signal is consulted for the last time before the request is sent:   *)
(* the app is unchanged.                                                   *)
PostAborted(c) ==
  /\ CommandAt(c, "post") /\ commands[c].aborted
  /\ Told(c, "unasked")
  /\ UNCHANGED <<fred, entry, late, deaths, became, excused>>

(* A conflict, or another refusal, is no verdict on the app.               *)
PostRefused(c) ==
  /\ CommandAt(c, "post")
  /\ \/ fred.status = "busy" /\ Told(c, "conflict")
     \/ Told(c, "refused")
  /\ UNCHANGED <<fred, entry, late, deaths, became, excused>>

(* The provider takes the request; the page does not know yet, and does    *)
(* not consult the signal any more.                                        *)
Meets(c) == {d \in Commands \ {c} : Accepted(d)}
Met(cs, c) == [d \in Commands |-> [cs[d] EXCEPT !.alone = @ /\ d \notin Meets(c)]]
PostAccepted(c) ==
  /\ CommandAt(c, "post") /\ Takes(c)
  /\ commands' = Met([commands EXCEPT ![c].step = "posted", ![c].base = First, ![c].aborted = FALSE,
                                      ![c].alone = Meets(c) = {}], c)
  /\ excused' = (excused \/ Meets(c) # {})
  /\ UNCHANGED <<entry, late, deaths>>

(* The manifest on record is replaced before the outcome is known.         *)
PostAcknowledged(c) ==
  /\ CommandAt(c, "posted")
  /\ commands' = [commands EXCEPT ![c].step = "wait", ![c].previous = entry.manifest]
  /\ entry' = IF commands[c].kind = "update" THEN [entry EXCEPT !.manifest = c] ELSE entry
  /\ UNCHANGED <<fred, late, deaths, became, excused>>

(* What becomes of a request that was given up before the provider took    *)
(* it: it never arrives, or is still on its way.                           *)
GivesUp(c) == late' = late \/ (CommandAt(c, "post") /\ late' = late \cup {c})

(* No answer: only the record tells that there was a request.              *)
PostLost(c) ==
  /\ commands[c].step \in {"post", "posted"}
  /\ Told(c, "unknown") /\ GivesUp(c)
  /\ entry' = NoVerdictYet
  /\ UNCHANGED <<fred, deaths, became, excused>>

(* The page is closed or reloaded, at any await of the command.  Nothing   *)
(* marked the record before the request was sent: unless it was stale      *)
(* anyway, it goes on telling what was so before.                          *)
PageDies(c) ==
  /\ Unfinished(c)
  /\ Told(c, "nothing") /\ GivesUp(c)
  /\ excused' = (excused \/ (Accepted(c) /\ ~entry.stale))
  /\ UNCHANGED <<fred, entry, deaths, became>>

(* A request that arrives after the record was settled, or among others.   *)
LateArrives(c) ==
  /\ c \in late /\ late' = late \ {c}
  /\ IF fred.status = "busy" THEN UNCHANGED <<fred, became, commands, excused>>
     ELSE /\ Takes(c) /\ commands' = Met(commands, c)
          /\ excused' = (excused \/ Meets(c) # {} \/ ~entry.stale)
  /\ UNCHANGED <<entry, deaths>>

----------------------------------------------------------------------------
(* The wait, and what is read after it.                                    *)

(* Without a provision status the wait takes an active lease for ready.    *)
WaitResolves(c, status) ==
  /\ CommandAt(c, "wait")
  /\ status \in Reports \ {"busy", "failed"}
  /\ commands' = [commands EXCEPT ![c].step = IF commands[c].kind = "update" THEN "provision" ELSE "url",
                                  ![c].sighted = status = "ready"]
  /\ UNCHANGED <<fred, entry, late, deaths, became, excused>>

WaitFails(c) ==
  /\ CommandAt(c, "wait") /\ fred.status = "failed"
  /\ entry' = Verdict("failed")
  /\ Told(c, "failed")
  /\ UNCHANGED <<fred, late, deaths, became, excused>>

\* Faulty variant of WaitSilent: a wait that ends without a verdict leaves the record as it is.
SilenceIgnored == entry

(* A timeout or an abort is silence, and no verdict.                       *)
WaitSilent == NoVerdictYet
WaitRejects(c) ==
  /\ CommandAt(c, "wait")
  /\ Told(c, "unknown")
  /\ entry' = WaitSilent
  /\ UNCHANGED <<fred, late, deaths, became, excused>>

\* Faulty variant of UPDATE_ATTRIBUTABLE_REASONS: a failed pull is not attributed to the update.
OnlyUpdateFailed == {"UpdateFailed"}

UPDATE_ATTRIBUTABLE_REASONS == {"UpdateFailed", "ImagePullFailed"}
AppliedThenFailed == fred.reason \notin UPDATE_ATTRIBUTABLE_REASONS

(* Only a settled provision speaks of this update: while it is under way,  *)
(* the reason is that of an earlier one.                                   *)
HasVerdict(status) == ~isUnsettledProvisionStatus(status) /\ fred.reason # "none"

ProvisionClean(c, status) ==
  /\ CommandAt(c, "provision") /\ status \in Reports \cup {"unread"}
  /\ status = "unread" \/ ~HasVerdict(status)
  /\ commands' = [commands EXCEPT ![c].step = "url", ![c].read = status # "unread" /\ ~isUnsettledProvisionStatus(status)]
  /\ UNCHANGED <<fred, entry, late, deaths, became, excused>>

ProvisionFailed(c, status) ==
  /\ CommandAt(c, "provision") /\ status \in Reports /\ HasVerdict(status)
  /\ LET told == IF AppliedThenFailed THEN "outlived" ELSE IF status = "ready" THEN "restored" ELSE "notApplied"
         read == [commands EXCEPT ![c].read = TRUE]
     IN  /\ commands' = TellsOf(read, c, told)
         /\ entry' = IF told = "outlived" THEN Verdict("failed")
                     ELSE [Verdict(classifyProvisionStatus(status)) EXCEPT !.manifest = commands[c].previous]
  /\ UNCHANGED <<fred, late, deaths, became, excused>>

(* The connection is read, and the command reported a success.             *)
UrlResolved(c) ==
  /\ CommandAt(c, "url")
  /\ entry' = Verdict("confirmed")
  /\ Told(c, "done")
  /\ excused' = (excused \/ ~(commands[c].sighted \/ commands[c].read))
  /\ UNCHANGED <<fred, late, deaths, became>>

----------------------------------------------------------------------------
LegacyInit ==
  /\ fred = [status |-> "ready", reason |-> "none", serves |-> First, job |-> First]
  /\ entry \in {[manifest |-> m, prov |-> "confirmed", stale |-> FALSE] : m \in {First, Unknown}}
  /\ commands = [c \in Commands |-> NoCommand]
  /\ late = {} /\ deaths = 0
  /\ became = [c \in Commands |-> "nothing"] /\ excused = FALSE

Statuses == {"ready", "busy", "failed", "absent"}

LegacyNext ==
  \/ \E end \in Ends : FredEnds(end)
  \/ FredDies
  \/ \E status \in Statuses : Observes(status)
  \/ \E c \in Commands :
       \/ PlanRestart(c) \/ \E stack \in BOOLEAN : PlanUpdate(c, stack)
       \/ AbortCommand(c) \/ PostAborted(c) \/ PostRefused(c) \/ PostAccepted(c) \/ PostAcknowledged(c) \/ PostLost(c)
       \/ PageDies(c) \/ LateArrives(c)
       \/ WaitFails(c) \/ WaitRejects(c) \/ UrlResolved(c)
       \/ \E status \in Statuses \cup {"unread"} :
            WaitResolves(c, status) \/ ProvisionClean(c, status) \/ ProvisionFailed(c, status)

LegacySpec == LegacyInit /\ [][LegacyNext]_legacyVars

----------------------------------------------------------------------------
LegacyTypeOK ==
  /\ fred \in [status : Statuses \ {"absent"}, reason : {"none", "UpdateFailed", "ImagePullFailed", "ContainerExited"},
               serves : 0..MaxCommands, job : 0..MaxCommands]
  /\ entry \in [manifest : 0..MaxCommands \cup {Unknown}, prov : {"confirmed", "failed"}, stale : BOOLEAN]
  /\ late \subseteq Commands /\ deaths \in 0..MaxDeaths

(* When nothing is under way, the record of an app says how the app is, or *)
(* says that it has to be looked into: an answer that stays out, and a     *)
(* wait that ends without a verdict, leave it stale.  Excused, until       *)
(* somebody looks, is a record that nothing could mark: its container died *)
(* by itself; its page died between the request and the end of the wait,   *)
(* which leaves the record as it was before the request; a request came    *)
(* through after the record was settled; two tabs commanded at once; or    *)
(* a degraded provider was believed.                                       *)
QuietApp == fred.status # "busy" /\ late = {} /\ \A c \in Commands : ~Accepted(c)
RecordsTellOrAsk == QuietApp /\ ~excused => entry.stale \/ entry.prov = classifyProvisionStatus(fred.status)

(* What the user is told of an update was so, if it met no other command   *)
(* and its container did not die meanwhile; and then the manifest on       *)
(* record is the one that is served, if no other command was executed.     *)
ToldIsTrue ==
  deaths = 0 => \A c \in Commands : commands[c].kind = "update" /\ commands[c].alone /\ commands[c].read =>
    /\ commands[c].told \in {"done", "outlived"} => became[c] = "applied"
    /\ commands[c].told = "restored" => became[c] = "rolledBack"
    /\ commands[c].told = "notApplied" => became[c] \in {"preflight", "rollbackFailed"}
    /\ commands[c].step = "done" /\ (\A d \in Commands \ {c} : became[d] = "nothing") =>
         entry.manifest \in {fred.serves, Unknown}

(* "the attempted manifest cannot supply its defaults": no update is       *)
(* merged with the manifest of one that the user was told has failed.      *)
AttemptsSupplyNoDefaults ==
  [][\A c, d \in Commands :
       commands[c].step = "unborn" /\ commands'[c].base = d /\ c # d => ~(commands[d].step = "done" /\ commands[d].told = "failed"
                                                                       /\ became[d] # "applied")]_legacyVars
=============================================================================
