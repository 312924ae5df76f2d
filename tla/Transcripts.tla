---------------------------- MODULE Transcripts ----------------------------
(***************************************************************************)
(* The chat transcripts of a browser's wallets in memory and on disk:      *)
(* stores/aiActions/persistence.ts, utils/versionedStorage.ts, and the     *)
(* parts of the chat store that replace, close, trim or clear a            *)
(* transcript.                                                             *)
(*                                                                         *)
(* A tab shows one wallet's transcript and keeps those it left in its      *)
(* session cache; the tabs share one localStorage key per wallet.  A row   *)
(* is known by its state: what a turn does is reduced to the states its    *)
(* rows go through.  The store's subscriber runs within the update it is   *)
(* told of, so an update and the write it causes are one step.             *)
(***************************************************************************)
EXTENDS Integers, SequencesExt

CONSTANTS
  HistoryTabs, Owners,
  NoOwner,
  Window,              \* AI_MAX_MESSAGES
  \* bounds of the exploration
  MaxRows, MaxMoves, MaxFaults

ASSUME TranscriptAssumption ==
  /\ Window \in Nat \ {0}
  /\ {MaxRows, MaxMoves, MaxFaults} \subseteq Nat
  /\ NoOwner \notin Owners \cup HistoryTabs

VARIABLES
  disk,        \* disk[w]: the value under w's key
  tabs,        \* tabs[t]: the chat store of a tab
  events,      \* storage events on their way: <<tab, wallet>>
  setting,     \* saveHistory as the settings on disk have it
  rowsMade, moves, faults,
  \* observers
  lastWriter,  \* lastWriter[w]: the tab whose write stands, or NoOwner
  overtaken,   \* <<t, w>>: t held on to its copy of w when another tab wrote
  unsaved,     \* tabs that skipped a write: not saving, storage full, or a newer build's key
  clears       \* counts the transcripts a user cleared

transcriptVars == <<disk, tabs, events, setting, rowsMade, moves, faults, lastWriter, overtaken, unsaved, clears>>

RowStates == {"plain", "streaming", "awaiting", "inflight", "closed"}
Row == [id : 1..MaxRows, owner : Owners, state : RowStates]

Absent == [kind |-> "absent", rows |-> <<>>]
Corrupt == [kind |-> "corrupt", rows |-> <<>>]
Future == [kind |-> "future", rows |-> <<>>]
Stored(rows) == [kind |-> "rows", rows |-> rows]

(* A store as a page starts: nobody's transcript, an empty session cache.  *)
FreshPage(saving) ==
  [owner |-> NoOwner, messages |-> <<>>, cache |-> [w \in Owners |-> Absent], saving |-> saving, busy |-> FALSE,
   card |-> 0, tx |-> 0, adrift |-> {}]

(* trimMessages *)
Trimmed(rows) == IF Len(rows) <= Window THEN rows ELSE SubSeq(rows, Len(rows) - Window + 1, Len(rows))

(* The rows that are written: all but the streaming ones, in their order.  *)
Lasting(rows) ==
  LET kept[i \in 0..Len(rows)] == IF i = 0 THEN <<>>
                                  ELSE IF rows[i].state = "streaming" THEN kept[i - 1]
                                  ELSE Append(kept[i - 1], rows[i])
  IN  kept[Len(rows)]
SetRow(rows, id, state) == [i \in DOMAIN rows |-> IF rows[i].id = id THEN [rows[i] EXCEPT !.state = state] ELSE rows[i]]
HasRow(rows, id) == \E i \in DOMAIN rows : rows[i].id = id

\* Faulty variant of Rehydrated: a transaction is loaded as still under way.
RehydratedInflight(rows) ==
  [i \in DOMAIN rows |->
     IF rows[i].state \in {"streaming", "awaiting"} THEN [rows[i] EXCEPT !.state = "closed"]
     ELSE rows[i]]

(* rehydrateChatHistory: whatever was under way when the page died is      *)
(* closed, a transaction as one whose outcome is unknown.                  *)
Rehydrated(rows) ==
  [i \in DOMAIN rows |->
     IF rows[i].state \in {"streaming", "awaiting", "inflight"} THEN [rows[i] EXCEPT !.state = "closed"]
     ELSE rows[i]]

----------------------------------------------------------------------------
(* The disk.                                                               *)

\* Faulty variant of MayOverwrite: the envelope of a newer build is not looked at.
OverwritesNewer(w) == TRUE

(* saveHistory: an older build never touches a newer build's envelope, and *)
(* a transcript without lasting rows leaves no key.                        *)
MayOverwrite(w) == disk[w].kind # "future"
Image(rows) == IF Lasting(rows) = <<>> THEN Absent ELSE Stored(Lasting(rows))

(* The other tabs are told of every key that changed.                      *)
Noticed(t, ws) == events \cup (HistoryTabs \ {t}) \X ws

(* new: the keys written, each with its value.                             *)
Write(t, new) ==
  /\ disk' = [w \in Owners |-> IF w \in DOMAIN new THEN new[w] ELSE disk[w]]
  /\ events' = Noticed(t, {w \in DOMAIN new : new[w] # disk[w]})
  /\ lastWriter' = [w \in Owners |-> IF w \in DOMAIN new THEN t ELSE lastWriter[w]]
  /\ overtaken' = overtaken \ ({t} \X DOMAIN new)

(* The keys a load removes.                                                *)
Removed(ws) == [w \in ws |-> Absent]

(* saveHistory, next to the keys a load clears in the same step; storage   *)
(* may refuse the write.                                                   *)
SaveAnd(t, saving, w, rows, cleared) ==
  \/ /\ saving /\ MayOverwrite(w)
     /\ Write(t, [x \in {w} \cup cleared |-> IF x = w THEN Image(rows) ELSE Absent])
     /\ UNCHANGED <<faults, unsaved>>
  \/ /\ ~saving \/ ~MayOverwrite(w)
     /\ unsaved' = unsaved \cup {t}
     /\ Write(t, Removed(cleared)) /\ UNCHANGED faults
  \/ /\ saving /\ MayOverwrite(w) /\ faults < MaxFaults
     /\ faults' = faults + 1
     /\ unsaved' = unsaved \cup {t}
     /\ Write(t, Removed(cleared))

Save(t, w, rows) == SaveAnd(t, tabs[t].saving, w, rows, {})
NoSave == UNCHANGED <<disk, events, lastWriter, overtaken, unsaved, faults>>

\* Faulty variant of MustSave: nothing is written while the chat is busy.
SavesWhenIdle(old, new) == ~new.busy /\ old.messages # new.messages

(* The subscriber on a change of the shown transcript: nothing while only  *)
(* a streaming row grows; every change of another row, the end of a        *)
(* stream, and any change outside one is written.                          *)
RowsChanged(old, new) == Lasting(old) # Lasting(new)
MustSave(old, new) ==
  \/ old.busy /\ ~new.busy
  \/ old.messages # new.messages /\ (~new.busy \/ RowsChanged(old.messages, new.messages))

Publish(t, new) ==
  /\ tabs' = [tabs EXCEPT ![t] = new]
  /\ IF MustSave(tabs[t], new) THEN Save(t, new.owner, new.messages) ELSE NoSave

----------------------------------------------------------------------------
(* A turn, as far as its rows are concerned.                               *)

(* sendMessage: the user's row and a streaming one.                        *)
SendRows(t) ==
  /\ tabs[t].owner # NoOwner /\ ~tabs[t].busy
  /\ rowsMade + 2 <= MaxRows
  /\ rowsMade' = rowsMade + 2
  /\ LET row(i, state) == [id |-> rowsMade + i, owner |-> tabs[t].owner, state |-> state]
         closed == SetRow(tabs[t].messages, tabs[t].card, "closed")
     IN  Publish(t, [tabs[t] EXCEPT !.busy = TRUE, !.card = 0,
                       !.messages = Trimmed(closed \o <<row(1, "plain"), row(2, "streaming")>>)])
  /\ UNCHANGED <<setting, moves, clears>>

StreamingId(t) == LET streaming == {r \in ToSet(tabs[t].messages) : r.state = "streaming"}
                  IN  IF streaming = {} THEN 0 ELSE (CHOOSE r \in streaming : TRUE).id

(* The turn ends with an answer, or with a card that asks for consent.     *)
TurnAnswered(t) ==
  /\ StreamingId(t) # 0
  /\ \E asks \in BOOLEAN :
       Publish(t, [tabs[t] EXCEPT !.busy = FALSE, !.card = IF asks THEN StreamingId(t) ELSE 0,
                     !.messages = SetRow(@, StreamingId(t), IF asks THEN "awaiting" ELSE "plain")])
  /\ UNCHANGED <<setting, rowsMade, moves, clears>>

(* confirmAction: the row is in flight from the click on.                  *)
ConfirmRow(t) ==
  /\ tabs[t].card # 0 /\ ~tabs[t].busy
  /\ Publish(t, [tabs[t] EXCEPT !.busy = TRUE, !.card = 0, !.tx = tabs[t].card,
                   !.messages = SetRow(@, tabs[t].card, "inflight")])
  /\ UNCHANGED <<setting, rowsMade, moves, clears>>

TransactionEnds(t) ==
  /\ tabs[t].tx # 0
  /\ Publish(t, [tabs[t] EXCEPT !.busy = FALSE, !.tx = 0, !.messages = SetRow(@, tabs[t].tx, "plain")])
  /\ UNCHANGED <<setting, rowsMade, moves, clears>>

(* updateOriginatingTranscript: the result of a transaction whose wallet,  *)
(* or signer, has changed goes to its row in the transcript it began in,   *)
(* shown, cached or on disk.  A success adds a notice; a row that is gone  *)
(* takes the result with it.                                               *)
Loaded(w) == IF disk[w].kind = "rows" THEN Rehydrated(disk[w].rows) ELSE <<>>
CachedOr(t, w) == IF tabs[t].cache[w] # Absent THEN tabs[t].cache[w].rows ELSE Loaded(w)
(* loadHistory clears a value it cannot read.                              *)
Unreadable(t, w) == tabs[t].cache[w] = Absent /\ disk[w].kind = "corrupt"

AdriftEnds(t) ==
  \E x \in tabs[t].adrift, notices \in 0..1 :
    LET shown == tabs[t].owner = x.owner
        source == IF shown THEN tabs[t].messages ELSE CachedOr(t, x.owner)
        notice == [id |-> rowsMade + 1, owner |-> x.owner, state |-> "plain"]
        resolved == SetRow(source, x.id, "plain")
        updated == Trimmed(IF notices = 1 THEN Append(resolved, notice) ELSE resolved)
        home == [tabs[t] EXCEPT !.adrift = @ \ {x}]
        found == HasRow(source, x.id)
    IN  /\ IF found /\ shown THEN Publish(t, [home EXCEPT !.messages = updated])
           ELSE IF found
           THEN /\ tabs' = [tabs EXCEPT ![t] = [home EXCEPT !.cache[x.owner] = Stored(updated)]]
                /\ Save(t, x.owner, updated)
           ELSE /\ tabs' = [tabs EXCEPT ![t] = home]
                /\ Write(t, Removed(IF ~shown /\ Unreadable(t, x.owner) THEN {x.owner} ELSE {}))
                /\ UNCHANGED <<faults, unsaved>>
        /\ notices = 1 => found
        /\ rowsMade' = rowsMade + notices /\ rowsMade' <= MaxRows
        /\ UNCHANGED <<setting, moves, clears>>

----------------------------------------------------------------------------
(* The user moves between wallets, settings and pages.                     *)

(* messagesAfterAuthorizationChange: the card's row, the transaction's row *)
(* and a streaming row are closed; work without a row of its own leaves a  *)
(* notice.                                                                 *)
NeedsNotice(t) == tabs[t].busy /\ tabs[t].card = 0 /\ tabs[t].tx = 0
Closed(t) ==
  LET m == tabs[t].messages
      closed == [i \in DOMAIN m |-> IF m[i].id \in {tabs[t].card, tabs[t].tx} \/ m[i].state = "streaming"
                                    THEN [m[i] EXCEPT !.state = "closed"] ELSE m[i]]
      notice == [id |-> rowsMade + 1, owner |-> tabs[t].owner, state |-> "closed"]
  IN  IF NeedsNotice(t) THEN Trimmed(Append(closed, notice)) ELSE closed

(* What closes with the authorization; a transaction under way goes on.    *)
LetGo(t) ==
  [tabs[t] EXCEPT !.busy = FALSE, !.card = 0, !.tx = 0,
     !.adrift = IF tabs[t].tx = 0 THEN @ ELSE @ \cup {[owner |-> tabs[t].owner, id |-> tabs[t].tx]}]

Moves == moves < MaxMoves /\ moves' = moves + 1 /\ UNCHANGED clears

(* setWalletContext for another wallet: the old transcript is closed,      *)
(* cached, and written if closing changed it; the new one comes from the   *)
(* cache or from disk, where an unreadable value is removed unless a newer *)
(* build wrote it.                                                         *)
SwitchOwner(t, w) ==
  /\ w # tabs[t].owner
  /\ rowsMade' = IF NeedsNotice(t) THEN rowsMade + 1 ELSE rowsMade
  /\ rowsMade' <= MaxRows
  /\ LET old == tabs[t].owner
         left == IF old = NoOwner THEN LetGo(t) ELSE [LetGo(t) EXCEPT !.cache[old] = Stored(Closed(t))]
         arrived == IF w = NoOwner THEN [left EXCEPT !.owner = w, !.messages = <<>>]
                    ELSE [left EXCEPT !.owner = w, !.messages = CachedOr(t, w),
                                      !.cache[w] = Stored(CachedOr(t, w))]
         cleared == IF w # NoOwner /\ Unreadable(t, w) THEN {w} ELSE {}
     IN  /\ tabs' = [tabs EXCEPT ![t] = arrived]
         /\ IF old # NoOwner /\ Closed(t) # tabs[t].messages THEN SaveAnd(t, tabs[t].saving, old, Closed(t), cleared)
            ELSE Write(t, Removed(cleared)) /\ UNCHANGED <<faults, unsaved>>
  /\ Moves /\ UNCHANGED setting

(* setWalletContext for a new signer of the same wallet.                   *)
RefreshSigner(t) ==
  /\ tabs[t].owner # NoOwner
  /\ rowsMade' = IF NeedsNotice(t) THEN rowsMade + 1 ELSE rowsMade
  /\ rowsMade' <= MaxRows
  /\ Publish(t, [LetGo(t) EXCEPT !.messages = Closed(t)])
  /\ Moves /\ UNCHANGED setting

(* clearHistory: the one deletion that a newer build's envelope does not   *)
(* survive; refused while a transaction runs.                              *)
ClearTranscript(t) ==
  /\ tabs[t].owner # NoOwner /\ tabs[t].tx = 0
  /\ tabs' = [tabs EXCEPT ![t] = [@ EXCEPT !.messages = <<>>, !.cache[tabs[t].owner] = Stored(<<>>),
                                           !.busy = FALSE, !.card = 0]]
  /\ Write(t, Removed({tabs[t].owner}))
  /\ moves < MaxMoves /\ moves' = moves + 1 /\ clears' = clears + 1
  /\ UNCHANGED <<setting, rowsMade, faults, unsaved>>

(* updateSettings: saving again writes the shown transcript at once, and   *)
(* neither direction deletes one.                                          *)
ToggleSaving(t) ==
  /\ tabs' = [tabs EXCEPT ![t].saving = ~@]
  /\ setting' = ~tabs[t].saving
  /\ IF ~tabs[t].saving /\ tabs[t].owner # NoOwner /\ tabs[t].messages # <<>>
     THEN SaveAnd(t, TRUE, tabs[t].owner, tabs[t].messages, {})
     ELSE NoSave
  /\ Moves /\ UNCHANGED rowsMade

(* A cached transcript another tab has written is dropped; the shown one   *)
(* is left alone, and the last writer wins.                                *)
Drops(t, w) == tabs[t].owner # w
TranscriptWritten(t, w) ==
  /\ <<t, w>> \in events
  /\ events' = events \ {<<t, w>>}
  /\ IF Drops(t, w)
     THEN tabs' = [tabs EXCEPT ![t].cache[w] = Absent] /\ overtaken' = overtaken \ {<<t, w>>}
     ELSE overtaken' = overtaken \cup {<<t, w>>} /\ UNCHANGED tabs
  /\ UNCHANGED <<disk, setting, rowsMade, moves, faults, lastWriter, unsaved, clears>>

(* The page is reloaded or dies; its settings are read again.              *)
ReloadPage(t) ==
  /\ tabs' = [tabs EXCEPT ![t] = FreshPage(setting)]
  /\ events' = {e \in events : e[1] # t}
  /\ overtaken' = {o \in overtaken : o[1] # t}
  /\ Moves /\ UNCHANGED <<disk, setting, rowsMade, faults, lastWriter, unsaved>>

(* A tab that runs a newer build writes the key.                           *)
NewerBuildWrites(w) ==
  /\ faults < MaxFaults /\ faults' = faults + 1
  /\ disk' = [disk EXCEPT ![w] = Future]
  /\ lastWriter' = [lastWriter EXCEPT ![w] = NoOwner]
  /\ events' = events \cup {<<t, w>> : t \in HistoryTabs}
  /\ UNCHANGED <<tabs, setting, rowsMade, moves, overtaken, unsaved, clears>>

TranscriptInit ==
  /\ disk \in [Owners -> {Absent, Corrupt}]
  /\ tabs = [t \in HistoryTabs |-> FreshPage(TRUE)]
  /\ events = {} /\ setting = TRUE /\ rowsMade = 0 /\ moves = 0 /\ faults = 0
  /\ lastWriter = [w \in Owners |-> NoOwner]
  /\ overtaken = {} /\ unsaved = {} /\ clears = 0

TranscriptNext ==
  \/ \E t \in HistoryTabs :
       \/ SendRows(t) \/ TurnAnswered(t) \/ ConfirmRow(t) \/ TransactionEnds(t) \/ AdriftEnds(t)
       \/ \E w \in Owners \cup {NoOwner} : SwitchOwner(t, w)
       \/ RefreshSigner(t) \/ ClearTranscript(t) \/ ToggleSaving(t) \/ ReloadPage(t)
       \/ \E w \in Owners : TranscriptWritten(t, w)
  \/ \E w \in Owners : NewerBuildWrites(w)

TranscriptSpec == TranscriptInit /\ [][TranscriptNext]_transcriptVars

----------------------------------------------------------------------------
Copies(t) == {tabs[t].cache[w].rows : w \in Owners} \cup {tabs[t].messages}

TranscriptTypeOK ==
  /\ \A w \in Owners : disk[w].kind \in {"absent", "corrupt", "future", "rows"} /\ ToSet(disk[w].rows) \subseteq Row
  /\ \A t \in HistoryTabs :
       /\ tabs[t].owner \in Owners \cup {NoOwner}
       /\ \A rows \in Copies(t) : ToSet(rows) \subseteq Row /\ Len(rows) <= Window
       /\ {tabs[t].card, tabs[t].tx} \subseteq 0..MaxRows
  /\ events \cup overtaken \subseteq HistoryTabs \X Owners
  /\ lastWriter \in [Owners -> HistoryTabs \cup {NoOwner}]
  /\ unsaved \subseteq HistoryTabs

(* No transcript, shown, cached or on disk, holds a row of another wallet, *)
(* and no row claims work that nobody does: a row waits for consent only   *)
(* while its card is open, is in flight only while its transaction runs in *)
(* this wallet's context, and streams only during a turn.  A reload or a   *)
(* switch leaves nothing that looks as if it were still going on.          *)
TranscriptsAreOwn ==
  /\ \A w \in Owners : \A r \in ToSet(disk[w].rows) : r.owner = w
  /\ \A t \in HistoryTabs :
       /\ \A r \in ToSet(tabs[t].messages) :
            /\ r.owner = tabs[t].owner
            /\ r.state = "awaiting" => r.id = tabs[t].card
            /\ r.state = "inflight" => r.id = tabs[t].tx
            /\ r.state = "streaming" => tabs[t].busy
       /\ \A w \in Owners \ {tabs[t].owner} : \A r \in ToSet(tabs[t].cache[w].rows) :
            r.owner = w /\ r.state \in {"plain", "closed"}

(* While a transaction runs its row is in the transcript, and the key on   *)
(* disk says it is in flight, so that a page that dies can tell the user   *)
(* that the outcome is unknown -- as long as this tab writes and no other  *)
(* tab has written the key since.                                          *)
TransactionsAreOnDisk ==
  \A t \in HistoryTabs : tabs[t].tx # 0 =>
    /\ HasRow(tabs[t].messages, tabs[t].tx)
    /\ (t \notin unsaved /\ lastWriter[tabs[t].owner] = t) =>
         \E r \in ToSet(disk[tabs[t].owner].rows) : r.id = tabs[t].tx /\ r.state = "inflight"

(* A transcript a tab left in its cache is what a load would give: no      *)
(* switch back shows an older copy, whose next change would overwrite what *)
(* another tab wrote in between.  Not so when the tab could not write, or  *)
(* showed its own copy while the other tab wrote, where the last writer    *)
(* wins.                                                                   *)
CachedIsOnDisk ==
  \A t \in HistoryTabs, w \in Owners :
    (/\ tabs[t].owner # w /\ tabs[t].cache[w] # Absent
     /\ <<t, w>> \notin events \cup overtaken
     /\ t \notin unsaved)
      => tabs[t].cache[w].rows = Loaded(w)

(* What a newer build wrote stays until a user clears that transcript: no  *)
(* load, save, switch or settings change of this build removes it.         *)
KeepsNewerBuilds == \A w \in Owners : (disk[w] = Future /\ disk'[w] # Future) => clears' # clears
=============================================================================
