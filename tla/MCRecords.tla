------------------------------ MODULE MCRecords ------------------------------
(***************************************************************************)
(* Finite instances of what tabs keep of commands and conversations, in    *)
(* storage that they share: the maintenance protocol with idempotency      *)
(* keys, the commands of providers without it, the advice to recover a     *)
(* command, and the transcripts.  One run explores them one at a time:     *)
(* part says which one moves in this behaviour, the others stay in their   *)
(* initial states.                                                         *)
(*                                                                         *)
(* Two tabs, two commands and one mishap; two commands without keys, pages *)
(* and a container that die; three commands to be advised of, and two      *)
(* troubles of the storage or reloads; two tabs and two wallets, a window  *)
(* of two rows, three moves and one fault.                                 *)
(***************************************************************************)
EXTENDS Maintenance, LegacyMaintenance, RecoveryAdvice, Transcripts, TLC

CONSTANTS tab1, tab2, first, second, alice, bob

MCTabs == {tab1, tab2}
MCKeys == {first, second}
MCOwners == {alice, bob}
\* Tabs, and keys, differ in nothing but their names.
NameSymmetry == Permutations(MCTabs) \cup Permutations(MCKeys)

VARIABLE part

recordsVars == <<part, vars, legacyVars, adviceVars, transcriptVars>>

\* A component that is left out of a behaviour has no state; the first one, whose
\* properties are checked as they stand, keeps its initial state.
NoLegacy ==
  /\ fred = 0 /\ entry = 0 /\ commands = 0 /\ late = 0
  /\ deaths = 0 /\ became = 0 /\ excused = 0
NoAdvice ==
  /\ shared = 0 /\ lastKey = 0 /\ tab = 0 /\ mood = 0 /\ rows = 0
  /\ told = 0 /\ order = 0 /\ troubles = 0 /\ everSent = 0
  /\ advised = 0 /\ settledFor = 0 /\ blind = 0 /\ rash = 0
NoTranscripts ==
  /\ disk = 0 /\ tabs = 0 /\ events = 0 /\ setting = 0
  /\ rowsMade = 0 /\ moves = 0 /\ faults = 0 /\ lastWriter = 0
  /\ overtaken = 0 /\ unsaved = 0 /\ clears = 0

RecordsInit ==
  /\ part \in {"protocol", "legacy", "advice", "transcripts"}
  /\ Init
  /\ IF part = "legacy" THEN LegacyInit ELSE NoLegacy
  /\ IF part = "advice" THEN AdviceInit ELSE NoAdvice
  /\ IF part = "transcripts" THEN TranscriptInit ELSE NoTranscripts

ProtocolPart == part = "protocol"
ProtocolAlone == UNCHANGED <<part, legacyVars, adviceVars, transcriptVars>>
LegacyPart == part = "legacy"
LegacyAlone == UNCHANGED <<part, vars, adviceVars, transcriptVars>>
AdvicePart == part = "advice"
AdviceAlone == UNCHANGED <<part, vars, legacyVars, transcriptVars>>
TranscriptsPart == part = "transcripts"
TranscriptsAlone == UNCHANGED <<part, vars, legacyVars, adviceVars>>

\* Next of Maintenance, LegacyNext, AdviceNext and TranscriptNext, action by action.
ProtocolActs ==
  \/ \E t \in Tabs :
       \/ ProtocolPart /\ PlanRecovery(t) /\ ProtocolAlone
       \/ ProtocolPart /\ BeginReplay(t) /\ ProtocolAlone
       \/ ProtocolPart /\ Begin(t) /\ ProtocolAlone
       \/ ProtocolPart /\ BeginRefused(t) /\ ProtocolAlone
       \/ ProtocolPart /\ Baseline(t) /\ ProtocolAlone
       \/ ProtocolPart /\ BaselineFails(t) /\ ProtocolAlone
       \/ ProtocolPart /\ Retain(t) /\ ProtocolAlone
       \/ ProtocolPart /\ RetainFails(t) /\ ProtocolAlone
       \/ ProtocolPart /\ MarkDispatched(t) /\ ProtocolAlone
       \/ ProtocolPart /\ DispatchSuperseded(t) /\ ProtocolAlone
       \/ ProtocolPart /\ DispatchFails(t) /\ ProtocolAlone
       \/ ProtocolPart /\ Post(t) /\ ProtocolAlone
       \/ ProtocolPart /\ Discard(t) /\ ProtocolAlone
       \/ ProtocolPart /\ DiscardFails(t) /\ ProtocolAlone
       \/ ProtocolPart /\ Answered(t) /\ ProtocolAlone
       \/ ProtocolPart /\ MarkAccepted(t) /\ ProtocolAlone
       \/ ProtocolPart /\ Observe(t) /\ ProtocolAlone
       \/ ProtocolPart /\ Commit(t) /\ ProtocolAlone
       \/ ProtocolPart /\ Refuse(t) /\ ProtocolAlone
       \/ ProtocolPart /\ GiveUp(t) /\ ProtocolAlone
       \/ ProtocolPart /\ ReadStarts(t) /\ ProtocolAlone
       \/ ProtocolPart /\ ReadObserves(t) /\ ProtocolAlone
       \/ ProtocolPart /\ ReadCommits(t) /\ ProtocolAlone
       \/ ProtocolPart /\ ReadDropped(t) /\ ProtocolAlone
       \/ ProtocolPart /\ ClearSession(t) /\ ProtocolAlone
       \/ ProtocolPart /\ Reload(t) /\ ProtocolAlone
       \/ ProtocolPart /\ Retire(t) /\ ProtocolAlone
       \/ \E k \in Keys : ProtocolPart /\ PlanCommand(t, k) /\ ProtocolAlone
  \/ \E k \in Keys :
       \/ ProtocolPart /\ Deliver(k) /\ ProtocolAlone
       \/ ProtocolPart /\ StartRelease(k) /\ ProtocolAlone
       \/ ProtocolPart /\ FinishRelease(k) /\ ProtocolAlone

LegacyActs ==
  \/ \E end \in Ends : LegacyPart /\ FredEnds(end) /\ LegacyAlone
  \/ LegacyPart /\ FredDies /\ LegacyAlone
  \/ \E status \in Statuses : LegacyPart /\ Observes(status) /\ LegacyAlone
  \/ \E c \in Commands :
       \/ LegacyPart /\ PlanRestart(c) /\ LegacyAlone
       \/ \E stack \in BOOLEAN : LegacyPart /\ PlanUpdate(c, stack) /\ LegacyAlone
       \/ LegacyPart /\ AbortCommand(c) /\ LegacyAlone
       \/ LegacyPart /\ PostAborted(c) /\ LegacyAlone
       \/ LegacyPart /\ PostRefused(c) /\ LegacyAlone
       \/ LegacyPart /\ PostAccepted(c) /\ LegacyAlone
       \/ LegacyPart /\ PostAcknowledged(c) /\ LegacyAlone
       \/ LegacyPart /\ PageDies(c) /\ LegacyAlone
       \/ LegacyPart /\ PostLost(c) /\ LegacyAlone
       \/ LegacyPart /\ LateArrives(c) /\ LegacyAlone
       \/ LegacyPart /\ WaitFails(c) /\ LegacyAlone
       \/ LegacyPart /\ WaitRejects(c) /\ LegacyAlone
       \/ LegacyPart /\ UrlResolved(c) /\ LegacyAlone
       \/ \E status \in Statuses \cup {"unread"} :
            \/ LegacyPart /\ WaitResolves(c, status) /\ LegacyAlone
            \/ LegacyPart /\ ProvisionClean(c, status) /\ LegacyAlone
            \/ LegacyPart /\ ProvisionFailed(c, status) /\ LegacyAlone

AdviceActs ==
  \/ AdvicePart /\ ElsewhereSaves /\ AdviceAlone
  \/ AdvicePart /\ ElsewhereSends /\ AdviceAlone
  \/ AdvicePart /\ Settles /\ AdviceAlone
  \/ AdvicePart /\ RecordLost /\ AdviceAlone
  \/ AdvicePart /\ LeaseRetired /\ AdviceAlone
  \/ AdvicePart /\ MoodChanges /\ AdviceAlone
  \/ \E written \in IF part = "advice" THEN Writes ELSE {} :
       \/ \E k \in AdviceKeys : AdvicePart /\ Advise(k, written) /\ AdviceAlone
       \/ AdvicePart /\ Discards(written) /\ AdviceAlone
       \/ \E stopped \in BOOLEAN : AdvicePart /\ AdviceRecorded(written, stopped) /\ AdviceAlone
       \/ AdvicePart /\ Prepare(written) /\ AdviceAlone
       \/ AdvicePart /\ Dispatch(written) /\ AdviceAlone
       \/ \E deliberate \in BOOLEAN : AdvicePart /\ PlanNew(deliberate, written) /\ AdviceAlone
       \/ \E reload \in BOOLEAN : AdvicePart /\ LoadRows(reload, written) /\ AdviceAlone

TranscriptActs ==
  \/ \E t \in HistoryTabs :
       \/ TranscriptsPart /\ SendRows(t) /\ TranscriptsAlone
       \/ TranscriptsPart /\ TurnAnswered(t) /\ TranscriptsAlone
       \/ TranscriptsPart /\ ConfirmRow(t) /\ TranscriptsAlone
       \/ TranscriptsPart /\ TransactionEnds(t) /\ TranscriptsAlone
       \/ TranscriptsPart /\ AdriftEnds(t) /\ TranscriptsAlone
       \/ TranscriptsPart /\ RefreshSigner(t) /\ TranscriptsAlone
       \/ TranscriptsPart /\ ClearTranscript(t) /\ TranscriptsAlone
       \/ TranscriptsPart /\ ToggleSaving(t) /\ TranscriptsAlone
       \/ TranscriptsPart /\ ReloadPage(t) /\ TranscriptsAlone
       \/ \E w \in Owners \cup {NoOwner} : TranscriptsPart /\ SwitchOwner(t, w) /\ TranscriptsAlone
       \/ \E w \in Owners : TranscriptsPart /\ TranscriptWritten(t, w) /\ TranscriptsAlone
  \/ \E w \in Owners : TranscriptsPart /\ NewerBuildWrites(w) /\ TranscriptsAlone

RecordsNext == ProtocolActs \/ LegacyActs \/ AdviceActs \/ TranscriptActs

RecordsSpec == RecordsInit /\ [][RecordsNext]_recordsVars

\* The state of the component that moves is of its type.
RecordsTypeOK ==
  /\ TypeOK
  /\ part = "legacy" => LegacyTypeOK
  /\ part = "advice" => AdviceTypeOK
  /\ part = "transcripts" => TranscriptTypeOK

\* Neither the record of an app nor the answer to a command tells what is not so; but a record
\* may, until somebody looks, that nothing could mark: of an app whose container or page died.
AnswersAreTrue == part = "legacy" => RecordsTellOrAsk /\ ToldIsTrue

\* Advice stands until it is acknowledged, and is acknowledged knowingly.
AdviceIsHeeded == part = "advice" => AdviceStands /\ AcknowledgedIsQuiet /\ AcknowledgedWasShown

\* No transcript holds another wallet's row or claims work that nobody does.
RowsAreOwn == part = "transcripts" => TranscriptsAreOwn

\* What a tab shows as under way or keeps in its cache agrees with the disk.
RowsAreOnDisk == part = "transcripts" => TransactionsAreOnDisk /\ CachedIsOnDisk

\* Only a user who clears a transcript removes what a newer build wrote.
NewerBuildsStand == [][part = "transcripts" => KeepsNewerBuilds]_recordsVars
=============================================================================
