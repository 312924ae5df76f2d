---------------------------- MODULE RecoveryAdvice ----------------------------
(***************************************************************************)
(* What a tab remembers of its advice to recover a command                 *)
(* (ai/toolExecutor/maintenanceRecoveryIntent.ts): a user who was told to  *)
(* observe or to repeat a command must not start another one by saying     *)
(* "try again".  The advice is kept in memory, in sessionStorage and in    *)
(* the rows of the transcript, and stands until the user asks for a new    *)
(* command deliberately or the command is proved never to have been sent.  *)
(*                                                                         *)
(* One lease and one tab.  The record the tabs share (Maintenance) is seen *)
(* from here as a slot that other tabs may change at any time.  Commands   *)
(* are numbered in the order of their keys.                                *)
(***************************************************************************)
EXTENDS Integers, SequencesExt

CONSTANTS
  \* bounds of the exploration; the 128 entries of the lists are not reached
  MaxAdvised,    \* commands
  MaxTroubles    \* reloads and changes of the storage's mood

ASSUME AdviceAssumption == {MaxAdvised, MaxTroubles} \subseteq Nat

VARIABLES
  shared,        \* localStorage: [pend, sent, receipt, proofs], and whether the lease is open
  lastKey,
  tab,           \* the module's maps, and the entry in sessionStorage
  mood,          \* sessionStorage: "works", "full" or "denied"
  rows,          \* the advice in the transcript
  told,          \* the command whose advice is being recorded
  order,         \* the confirmation this tab holds
  troubles,
  \* observers
  everSent,      \* commands that were handed to HTTP
  advised,       \* advice that is on a row and neither acknowledged nor disproved
  settledFor,    \* advice this tab has acknowledged
  blind,         \* an acknowledgement covered advice its plan had not seen
  rash           \* a command was sent over standing advice, unasked

adviceVars == <<shared, lastKey, tab, mood, rows, told, order, troubles, everSent, advised, settledFor, blind, rash>>

NoKey == 0
AdviceKeys == 1..MaxAdvised
NoEntry == [active |-> NoKey, used |-> {}, seen |-> <<>>]
NoMemory == [key |-> NoKey, persisted |-> FALSE]
FreshTab(entry) == [memory |-> NoMemory, consumed |-> {}, volatile |-> {}, observed |-> <<>>, never |-> {}, entry |-> entry]
NoOrder == [key |-> NoKey, intent |-> NoKey, previous |-> NoKey, step |-> "none", seen |-> {}]

----------------------------------------------------------------------------
(* The tab's store.                                                        *)

\* The keys that are not in S, in their order.
Omitting(keys, S) ==
  LET left[i \in 0..Len(keys)] ==
        IF i = 0 THEN <<>> ELSE IF keys[i] \in S THEN left[i - 1] ELSE Append(left[i - 1], keys[i])
  IN  left[Len(keys)]

suppressed(t, k) == k \in t.never \cup t.consumed
Without(t, keys) == Omitting(keys, t.never \cup t.consumed)
observe(t, k) == IF suppressed(t, k) \/ k \in ToSet(t.observed) THEN t ELSE [t EXCEPT !.observed = Append(@, k)]
fallbackIntent(t) == IF Without(t, t.observed) = <<>> THEN NoKey ELSE Without(t, t.observed)[1]
actionable(t, k) == IF k # NoKey /\ ~suppressed(t, k) THEN k ELSE fallbackIntent(t)

(* The entry's acknowledgements replace those in memory, except for the    *)
(* ones that could not be written; what it observed is added.              *)
EntryKeys(e) == IF e.active = NoKey THEN e.seen ELSE Append(e.seen, e.active)
Hear(t) ==
  LET kept == Without(t, t.observed)
  IN  [t EXCEPT !.observed = kept \o Omitting(Without(t, EntryKeys(t.entry)), ToSet(kept))]
readStored(t) ==
  IF t.entry = NoEntry THEN [t EXCEPT !.consumed = t.volatile]
  ELSE Hear([t EXCEPT !.consumed = t.entry.used \cup t.volatile])

serialized(t, active) ==
  [active |-> active, used |-> t.consumed, seen |-> Omitting(Without(t, t.observed), {active})]

Unwritten(t) == t.memory.key # NoKey /\ ~t.memory.persisted /\ ~suppressed(t, t.memory.key)
Throws(t) == mood = "denied" /\ (t.memory.key = NoKey \/ suppressed(t, t.memory.key))

(* getMaintenanceRecoveryIntent: the store after it, and its answer.       *)
Memory(k, persisted) == IF k = NoKey THEN NoMemory ELSE [key |-> k, persisted |-> persisted]
Adopt(r, k) == [r EXCEPT !.memory = Memory(k, k = r.entry.active)]
AdoptActive(r) == Adopt(r, actionable(r, r.entry.active))
Looked(t) == IF Unwritten(t) \/ mood = "denied" THEN t ELSE AdoptActive(readStored(t))
getMaintenanceRecoveryIntent(t) == Looked(t).memory.key

(* A write may fail when the storage is full.                              *)
Writes == IF mood = "works" THEN {TRUE} ELSE BOOLEAN

Existing(r) == IF Unwritten(r) THEN r.memory.key ELSE actionable(r, r.entry.active)
Foremost(existing, k, preserve) == IF preserve /\ existing # NoKey THEN existing ELSE k
Hold(heard, active, written) ==
  [heard EXCEPT !.memory = [key |-> active, persisted |-> written],
                !.entry = IF written THEN serialized(heard, active) ELSE @]
Remember(r, k, preserve, written) ==
  IF suppressed(r, k) THEN r ELSE Hold(observe(r, k), Foremost(Existing(r), k, preserve), written)

rememberMaintenanceRecoveryIntent(t, k, preserve, written) ==
  IF mood = "denied"
  THEN IF suppressed(t, k) \/ (preserve /\ t.memory.key # NoKey /\ ~suppressed(t, t.memory.key)) THEN observe(t, k)
       ELSE [observe(t, k) EXCEPT !.memory = [key |-> k, persisted |-> FALSE]]
  ELSE Remember(readStored(t), k, preserve, written)

\* Faulty variant of Acknowledged: what other tabs were advised of is not acknowledged with it.
AcknowledgedInMemory(t) == {t.memory.key} \ t.never

(* A deliberate command acknowledges all that was observed so far, unless  *)
(* the entry holds newer advice.  An entry that cannot be replaced is      *)
(* removed, and the acknowledgement is this page's alone.                  *)
Acknowledged(t) == (ToSet(t.observed) \cup {t.memory.key}) \ t.never
Forget(r, used, written) ==
  [r EXCEPT !.memory = NoMemory, !.observed = <<>>, !.consumed = used,
            !.volatile = IF written THEN {} ELSE used,
            !.entry = IF written THEN [NoEntry EXCEPT !.used = used] ELSE NoEntry]
Consume(r, k, written) ==
  IF r.entry.active \notin {NoKey, k} /\ ~suppressed(r, r.entry.active) THEN r
  ELSE Forget(r, r.consumed \cup Acknowledged(r), written)
ConsumeLooked(l, k, written) ==
  IF l.memory.key # k \/ mood = "denied" THEN l ELSE Consume(readStored(l), k, written)
consumeMaintenanceRecoveryIntent(t, k, written) ==
  IF k = NoKey \/ Throws(t) THEN t ELSE ConsumeLooked(Looked(t), k, written)

(* Proof that a command was never sent takes its advice back, and the next *)
(* advice takes its place.                                                 *)
Succeed(r, next, written) ==
  IF next = NoKey /\ r.consumed = {} THEN [r EXCEPT !.memory = NoMemory, !.entry = NoEntry]
  ELSE [r EXCEPT !.memory = Memory(next, written), !.entry = IF written THEN serialized(r, next) ELSE @]
TakeBack(r, k, written) ==
  IF {r.memory.key, r.entry.active} \ {NoKey} # {k} THEN r ELSE Succeed(r, fallbackIntent(r), written)
Disprove(t, k) == [t EXCEPT !.never = @ \cup {k}]
retireUnsentMaintenanceRecoveryIntent(t, k, written) ==
  IF mood = "denied" THEN Disprove(t, k) ELSE TakeBack(readStored(Disprove(t, k)), k, written)

syncMaintenanceNeverSentProofs(t, keys, written) ==
  LET synced[i \in 0..Len(keys)] ==
        IF i = 0 THEN [t EXCEPT !.never = ToSet(keys)]
        ELSE retireUnsentMaintenanceRecoveryIntent(synced[i - 1], keys[i], written)
  IN  synced[Len(keys)]

(* The rows of a loaded transcript: the first that still counts replaces   *)
(* what is held, the others stay behind it.                                *)
RestoreRow(acc, k, written) ==
  IF suppressed(acc.t, k) THEN acc
  ELSE [t |-> rememberMaintenanceRecoveryIntent(acc.t, k, acc.restored, written), restored |-> TRUE]
restoreMessageMaintenanceAdvice(t, written) ==
  LET synced == syncMaintenanceNeverSentProofs(t, shared.proofs, written)
      after[i \in 0..Len(rows)] ==
        IF i = 0 THEN [t |-> Looked(synced), restored |-> FALSE] ELSE RestoreRow(after[i - 1], rows[i], written)
  IN  IF rows = <<>> THEN t ELSE after[Len(rows)].t

----------------------------------------------------------------------------
(* The record the tabs share.  Every look at it brings its proofs along.   *)

LeaveOrder == UNCHANGED <<lastKey, mood, rows, told, troubles, blind, rash>>
LeaveTab == UNCHANGED <<tab, advised, settledFor>>

(* Another tab saves a command or takes it back unsent; it, or this one in *)
(* a recovery, sends it; a tab learns its outcome.                         *)
ElsewhereSaves ==
  /\ shared.open /\ shared.pend = NoKey /\ lastKey < MaxAdvised
  /\ shared' = [shared EXCEPT !.pend = lastKey + 1, !.sent = FALSE]
  /\ lastKey' = lastKey + 1
  /\ UNCHANGED <<tab, mood, rows, told, order, troubles, everSent, advised, settledFor, blind, rash>>

ElsewhereSends ==
  /\ shared.pend \notin {NoKey, order.key} /\ ~shared.sent
  /\ shared' = [shared EXCEPT !.sent = TRUE]
  /\ everSent' = everSent \cup {shared.pend}
  /\ LeaveOrder /\ LeaveTab /\ UNCHANGED order

Settles ==
  /\ shared.pend # NoKey /\ shared.sent
  /\ shared' = [shared EXCEPT !.pend = NoKey, !.receipt = shared.pend]
  /\ LeaveOrder /\ LeaveTab /\ UNCHANGED <<order, everSent>>

Discards(written) ==
  /\ shared.pend # NoKey /\ ~shared.sent
  /\ order.key = shared.pend => told = NoKey
  /\ LET proofs == Append(shared.proofs, shared.pend)
     IN  /\ shared' = [shared EXCEPT !.pend = NoKey, !.proofs = proofs]
         /\ tab' = IF order.key = shared.pend THEN syncMaintenanceNeverSentProofs(tab, proofs, written) ELSE tab
         /\ advised' = advised \ {shared.pend}
  /\ order' = IF order.key = shared.pend THEN [order EXCEPT !.step = "planned"] ELSE order
  /\ LeaveOrder /\ UNCHANGED <<everSent, settledFor>>

(* The browser, or its user, clears localStorage: the record and the       *)
(* receipt are gone, what the provider has is not.                         *)
RecordLost ==
  /\ troubles < MaxTroubles /\ troubles' = troubles + 1
  /\ shared' = [shared EXCEPT !.pend = NoKey, !.sent = FALSE, !.receipt = NoKey, !.proofs = <<>>]
  /\ UNCHANGED <<lastKey, tab, mood, rows, told, order, everSent, advised, settledFor, blind, rash>>

(* The lease has ended: nothing can execute any more.                      *)
LeaseRetired ==
  /\ shared.open
  /\ shared' = [shared EXCEPT !.open = FALSE, !.pend = NoKey, !.sent = FALSE, !.receipt = NoKey, !.proofs = <<>>]
  /\ tab' = [FreshTab(IF mood = "denied" THEN tab.entry ELSE NoEntry) EXCEPT !.never = tab.never]
  /\ advised' = {} /\ settledFor' = {} /\ order' = NoOrder
  /\ LeaveOrder /\ UNCHANGED everSent

----------------------------------------------------------------------------
(* This tab.                                                               *)

(* markMaintenanceRecoveryAdvised for the saved command, or at the end of  *)
(* this tab's own: first in memory, for the advice must stand when the     *)
(* lock or the shared record fails; the collector notes it a second time.  *)
Advise(k, written) ==
  /\ told = NoKey
  /\ \/ k = shared.pend /\ k # NoKey /\ order.step # "saved"
     \/ k = order.key /\ order.step \in {"saved", "sent"}
  /\ order' = IF k = order.key THEN NoOrder ELSE order
  /\ told' = k
  /\ LET once == rememberMaintenanceRecoveryIntent(syncMaintenanceNeverSentProofs(tab, shared.proofs, written), k, TRUE, written)
     IN  tab' = rememberMaintenanceRecoveryIntent(once, k, TRUE, written)
  /\ UNCHANGED <<shared, lastKey, mood, rows, troubles, everSent, advised, settledFor, blind, rash>>

(* Then under the lock: advice for a sent command comes first.  The result *)
(* brings it to a row, unless the user has stopped the tool meanwhile.     *)
AdviceRecorded(written, stopped) ==
  /\ told # NoKey
  /\ LET t == syncMaintenanceNeverSentProofs(tab, shared.proofs, written)
     IN  tab' = IF shared.pend = told /\ shared.sent THEN rememberMaintenanceRecoveryIntent(t, told, FALSE, written) ELSE t
  /\ rows' = IF stopped \/ told \in ToSet(rows) THEN rows ELSE Append(rows, told)
  /\ advised' = IF stopped THEN advised ELSE IF shared.open THEN advised \cup ({told} \ (settledFor \cup ToSet(shared.proofs))) ELSE {}
  /\ told' = NoKey
  /\ UNCHANGED <<shared, lastKey, mood, order, troubles, everSent, settledFor, blind, rash>>

(* A plan: with advice standing, only when the user asks for a new command *)
(* and the earlier one has its receipt.                                    *)
PlanNew(deliberate, written) ==
  /\ shared.open /\ shared.pend = NoKey /\ lastKey < MaxAdvised /\ told = NoKey
  /\ order.step \in {"none", "sent"}
  /\ LET t == syncMaintenanceNeverSentProofs(tab, shared.proofs, written)
     IN  ~Throws(t) /\ tab' = Looked(t)
  /\ tab'.memory.key # NoKey => deliberate /\ shared.receipt # NoKey
  /\ order' = [key |-> lastKey + 1, intent |-> tab'.memory.key, previous |-> shared.receipt, step |-> "planned", seen |-> advised]
  /\ lastKey' = lastKey + 1
  /\ UNCHANGED <<shared, mood, rows, told, troubles, everSent, advised, settledFor, blind, rash>>

(* assertNewMaintenanceOperation, then the command is saved; its own proof *)
(* is revoked.                                                             *)
Prepare(written) ==
  /\ told = NoKey /\ order.step = "planned" /\ shared.open /\ shared.pend = NoKey
  /\ shared.receipt = order.previous
  /\ shared' = [shared EXCEPT !.pend = order.key, !.sent = FALSE,
                              !.proofs = Omitting(@, {order.key})]
  /\ LET t == syncMaintenanceNeverSentProofs(tab, shared.proofs, written)
         looked == Looked(t)
     IN  /\ ~Throws(t)
         /\ looked.memory.key # NoKey => order.intent = looked.memory.key /\ shared.receipt # NoKey
         /\ tab' = syncMaintenanceNeverSentProofs(looked, shared'.proofs, written)
  /\ order' = [order EXCEPT !.step = "saved"]
  /\ LeaveOrder /\ UNCHANGED <<everSent, advised, settledFor>>

(* What the tab acknowledges now, and had not before, is settled.          *)
Settle(fresh) ==
  /\ settledFor' = settledFor \cup fresh
  /\ advised' = advised \ fresh
  /\ blind' = (blind \/ ~((fresh \cap advised \cap everSent) \subseteq order.seen))
  /\ rash' = (rash \/ (order.intent = NoKey /\ advised \cap everSent # {}))
Acknowledge(before, used) == tab' = used /\ Settle(used.consumed \ before)

(* The request goes out, and the advice its plan has shown is settled.     *)
Dispatch(written) ==
  /\ told = NoKey /\ order.step = "saved" /\ shared.pend = order.key
  /\ shared' = [shared EXCEPT !.sent = TRUE]
  /\ everSent' = everSent \cup {order.key}
  /\ LET t == syncMaintenanceNeverSentProofs(tab, shared.proofs, written)
     IN  Acknowledge(t.consumed, consumeMaintenanceRecoveryIntent(t, order.intent, written))
  /\ order' = [order EXCEPT !.step = "sent"]
  /\ UNCHANGED <<lastKey, mood, rows, told, troubles>>

(* The history is loaded: by a new page, which knows what was written, or  *)
(* again by this one.                                                      *)
LoadRows(reload, written) ==
  /\ troubles < MaxTroubles /\ troubles' = troubles + 1
  /\ tab' = restoreMessageMaintenanceAdvice(IF reload THEN FreshTab(tab.entry) ELSE tab, written)
  /\ IF reload THEN /\ told' = NoKey /\ order' = NoOrder
                    /\ settledFor' = IF mood = "denied" THEN {} ELSE settledFor \ tab.volatile
                    /\ advised' = IF shared.open THEN advised \cup ((ToSet(rows) \cap tab.volatile) \ tab.entry.used) ELSE {}
     ELSE UNCHANGED <<told, order, settledFor, advised>>
  /\ UNCHANGED <<shared, lastKey, mood, rows, everSent, blind, rash>>

MoodChanges ==
  /\ troubles < MaxTroubles /\ troubles' = troubles + 1
  /\ \E m \in {"works", "full", "denied"} \ {mood} : mood' = m
  /\ UNCHANGED <<shared, lastKey, tab, rows, told, order, everSent, advised, settledFor, blind, rash>>

----------------------------------------------------------------------------
AdviceInit ==
  /\ shared = [pend |-> NoKey, sent |-> FALSE, receipt |-> NoKey, proofs |-> <<>>, open |-> TRUE]
  /\ lastKey = 0 /\ tab = FreshTab(NoEntry) /\ mood = "works"
  /\ rows = <<>> /\ told = NoKey /\ order = NoOrder /\ troubles = 0
  /\ everSent = {} /\ advised = {} /\ settledFor = {} /\ blind = FALSE /\ rash = FALSE

AdviceNext ==
  \/ ElsewhereSaves \/ ElsewhereSends \/ Settles \/ RecordLost \/ LeaseRetired \/ MoodChanges
  \/ \E written \in Writes :
       \/ \E k \in AdviceKeys : Advise(k, written)
       \/ Discards(written) \/ \E stopped \in BOOLEAN : AdviceRecorded(written, stopped)
       \/ Prepare(written) \/ Dispatch(written)
       \/ \E deliberate \in BOOLEAN : PlanNew(deliberate, written)
       \/ \E reload \in BOOLEAN : LoadRows(reload, written)

AdviceSpec == AdviceInit /\ [][AdviceNext]_adviceVars

----------------------------------------------------------------------------
AdviceTypeOK ==
  /\ shared.pend \in 0..lastKey /\ shared.receipt \in 0..lastKey /\ ToSet(shared.proofs) \subseteq 1..lastKey
  /\ tab.memory.key \in 0..lastKey /\ tab.entry.active \in 0..lastKey
  /\ tab.consumed \cup tab.volatile \cup tab.never \cup ToSet(tab.observed) \cup ToSet(rows) \subseteq 1..lastKey
  /\ mood \in {"works", "full", "denied"} /\ told \in 0..lastKey
  /\ order.step \in {"none", "planned", "saved", "sent"} /\ troubles \in 0..MaxTroubles

(* Advice that reached the transcript and is about a command that was sent *)
(* keeps its tab from planning the next one, through reloads and a storage *)
(* that fails, until it is acknowledged: some advice stands, or the plan   *)
(* is refused because none can be read.                                    *)
AdviceStands ==
  advised \cap everSent # {} =>
    \A written \in Writes :
      LET t == syncMaintenanceNeverSentProofs(tab, shared.proofs, written)
      IN  getMaintenanceRecoveryIntent(t) # NoKey \/ Throws(t)

(* What was acknowledged does not come back as an answer.                  *)
AcknowledgedIsQuiet == Throws(tab) \/ getMaintenanceRecoveryIntent(tab) \notin settledFor

(* A deliberate command acknowledges nothing that came after its plan, and *)
(* one that was planned while no advice stood is not sent over advice that *)
(* came before it was saved.                                               *)
AcknowledgedWasShown == ~blind /\ ~rash
=============================================================================
