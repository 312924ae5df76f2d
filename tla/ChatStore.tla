------------------------------ MODULE ChatStore ------------------------------
(***************************************************************************)
(* The browser's chat store: model turns with their tool calls, the one    *)
(* confirmation card, the transactions a user approved, and the wallet     *)
(* under which all of that happens.                                        *)
(*                                                                         *)
(* JavaScript runs one handler at a time, so an action is what happens     *)
(* between two awaits.  A piece of asynchronous work is a record of        *)
(* `work`; it owns the chat while the authorization epoch it started in is *)
(* current and the store's abort controller is its own, and everything it  *)
(* does after an await depends on that.  A message row is identified by    *)
(* the work, the model turn and the call it belongs to; call 0 is the      *)
(* assistant's message that advertises the calls.  User messages, local    *)
(* notices, wording, progress and rows lost to the 200-message window are  *)
(* left out.                                                               *)
(***************************************************************************)
EXTENDS Integers, Sequences, FiniteSets

CONSTANTS
    Wallets,      \* wallet identities: an address on a chain
    NoWallet,     \* disconnected
    Calls,        \* the groups of tool calls the model may ask for: sequences of tool kinds
    MaxTurns,     \* AI_MAX_TOOL_ITERATIONS
    MaxWork,      \* bound: pieces of work started
    MaxContexts,  \* bound: changes of the wallet context
    MaxAttached   \* bound: files attached

Tools == {"query", "deploy", "other"}    \* read-only; deploy_app; any other transaction

ASSUME ChatAssumption ==
    /\ NoWallet \notin Wallets
    /\ Calls \subseteq Seq(Tools) /\ <<>> \notin Calls
    /\ MaxTurns \in Nat \ {0} /\ MaxWork \in Nat \ {0}
    /\ MaxContexts \in Nat /\ MaxAttached \in Nat

VARIABLES
    wallet,       \* [address, client, gen]: the connected wallet and its client/signer generation
    epoch,        \* authorizationEpoch
    streaming,    \* isStreaming
    controller,   \* abortController: the work that created it, 0 for null
    pending,      \* pendingConfirmation: NoCard or the card
    active,       \* activeTransactionMessageId, or NoRow
    payload,      \* pendingPayload: the number of the attached file, 0 for null
    attaching,    \* attachPayload reading a file: the epoch it began in, or Idle
    attached,     \* files attached so far: file n was chosen by wallet attached[n]
    cache,        \* the tool cache: NotCached or the dispatches its result has seen
    transcript,   \* the rows of each wallet's transcript; the connected wallet's is the visible one
    work,         \* the pieces of work, in the order they started
    submitted,    \* approvals that reached the chain: [row, address, gen]
    dispatches    \* confirmed transactions handed to the executor
vars == <<wallet, epoch, streaming, controller, pending, active, payload,
          attaching, attached, cache, transcript, work, submitted, dispatches>>

NoRow == <<0, 0, 0>>
NoCard == [row |-> NoRow]
Idle == -1
NotCached == -1

Ids == 1..Len(work)
Row(w, i) == <<w, work[w].turn, i>>

(***************************************************************************)
(* Rows.  `Close` resolves rows with a final text; `Add` appends one.      *)
(***************************************************************************)
Visible == transcript[wallet.address]
Show(rows) == transcript' = [transcript EXCEPT ![wallet.address] = rows]

Spinning(calls) == [st |-> "streaming", text |-> "", calls |-> calls]

Add(rows, r, row) == [x \in DOMAIN rows \cup {r} |-> IF x = r THEN row ELSE rows[x]]

Close(rows, closing, text) ==
    [x \in DOMAIN rows |-> IF x \in closing
                             THEN [rows[x] EXCEPT !.st = "closed", !.text = text]
                             ELSE rows[x]]

Await(rows, r) ==
    [x \in DOMAIN rows |-> IF x = r THEN [rows[x] EXCEPT !.st = "waiting"] ELSE rows[x]]

(***************************************************************************)
(* Authorization: who may still act, and under which approval.             *)
(***************************************************************************)
\* Both checks every continuation makes after an await.
Owns(w) == work[w].epoch = epoch /\ controller = w

\* isTransactionAuthorizationCurrent
Current(a) == wallet.client /\ a.wallet = wallet.address /\ a.gen = wallet.gen

Done(w) == work[w].pc = "done"

\* A new piece of work, started under the store's present authorization.
Started(kind, pc) ==
    [kind |-> kind, pc |-> pc, epoch |-> epoch, aborted |-> FALSE,
     wallet |-> wallet.address, gen |-> wallet.gen, turn |-> 1,
     calls |-> <<>>, at |-> 0, collected |-> {}, row |-> NoRow,
     payload |-> 0, seen |-> dispatches, said |-> ""]

\* A card carries the authorization it was proposed under.
Card(item, r, file, batch) ==
    [row |-> r, wallet |-> item.wallet, gen |-> item.gen, payload |-> file, batch |-> batch]

\* Faulty variant of Interrupted: rows that stream are left spinning.
InterruptedCardsOnly(rows) ==
    Close(Close(rows, {active} \ {pending.row}, "interrupted"), {pending.row}, "unsubmitted")

\* messagesAfterAuthorizationChange: every row the old context left open is closed.
Interrupted(rows) ==
    [r \in DOMAIN rows |->
        CASE r = pending.row -> [rows[r] EXCEPT !.st = "closed", !.text = "unsubmitted"]
          [] r = active /\ r # pending.row -> [rows[r] EXCEPT !.st = "closed", !.text = "interrupted"]
          [] rows[r].st = "streaming" /\ r \notin {pending.row, active}
               -> [rows[r] EXCEPT !.st = "closed", !.text = "notice"]
          [] OTHER -> rows[r]]

Init ==
    /\ wallet = [address |-> NoWallet, client |-> FALSE, gen |-> 0]
    /\ epoch = 0
    /\ streaming = FALSE
    /\ controller = 0
    /\ pending = NoCard
    /\ active = NoRow
    /\ payload = 0
    /\ attaching = Idle
    /\ attached = <<>>
    /\ cache = NotCached
    /\ transcript = [w \in Wallets \cup {NoWallet} |-> <<>>]
    /\ work = <<>>
    /\ submitted = {}
    /\ dispatches = 0

\* abort() on the store's controller
Aborted == [w \in Ids |-> IF w = controller THEN [work[w] EXCEPT !.aborted = TRUE] ELSE work[w]]

(***************************************************************************)
(* The wallet context.  Every change is a new epoch; a client or signer    *)
(* that comes, goes or is replaced is a new generation.                    *)
(***************************************************************************)
SetWalletContext(address, client) ==
    /\ epoch < MaxContexts
    /\ address = NoWallet => ~client
    /\ address # wallet.address \/ client \/ wallet.client    \* something changes
    /\ wallet' = [address |-> address, client |-> client,
                  gen |-> wallet.gen + IF client \/ wallet.client THEN 1 ELSE 0]
    /\ epoch' = epoch + 1
    /\ streaming' = FALSE
    /\ controller' = 0
    /\ pending' = NoCard
    /\ active' = NoRow
    /\ payload' = 0
    /\ cache' = NotCached
    /\ Show(Interrupted(Visible))
    /\ work' = Aborted
    /\ UNCHANGED <<attaching, attached, submitted, dispatches>>

\* Refused while a confirmed transaction owns the transcript.
ClearHistory ==
    /\ epoch < MaxContexts
    /\ active = NoRow
    /\ epoch' = epoch + 1
    /\ streaming' = FALSE
    /\ controller' = 0
    /\ pending' = NoCard
    /\ payload' = 0
    /\ cache' = NotCached
    /\ Show(<<>>)
    /\ work' = Aborted
    /\ UNCHANGED <<wallet, active, attaching, attached, submitted, dispatches>>

(***************************************************************************)
(* Attachments.  Reading the file takes time; the file is dropped when the *)
(* epoch has changed meanwhile.                                            *)
(***************************************************************************)
BeginAttach ==
    /\ attaching = Idle /\ Len(attached) < MaxAttached
    /\ attaching' = epoch
    /\ attached' = Append(attached, wallet.address)
    /\ UNCHANGED <<wallet, epoch, streaming, controller, pending, active, payload,
                   cache, transcript, work, submitted, dispatches>>

\* Faulty variant of EndAttach: the epoch is not compared after the file was read.
EndAttachAnyway ==
    /\ attaching # Idle
    /\ payload' = Len(attached)
    /\ attaching' = Idle
    /\ UNCHANGED <<wallet, epoch, streaming, controller, pending, active, attached,
                   cache, transcript, work, submitted, dispatches>>

EndAttach ==
    /\ attaching # Idle
    /\ payload' = IF attaching = epoch THEN Len(attached) ELSE payload
    /\ attaching' = Idle
    /\ UNCHANGED <<wallet, epoch, streaming, controller, pending, active, attached,
                   cache, transcript, work, submitted, dispatches>>

(***************************************************************************)
(* Starting and ending work.                                               *)
(***************************************************************************)
\* The store is handed to a new piece of work, which shows `rows`.
Begin(item, rows) ==
    /\ streaming' = TRUE
    /\ controller' = Len(work) + 1
    /\ work' = Append(work, item)
    /\ Show(rows)

\* Work that is over: only what the properties look at is kept of it.
Over(item) ==
    [item EXCEPT !.pc = "done", !.epoch = 0, !.aborted = FALSE, !.calls = <<>>, !.at = 0,
                 !.collected = {}, !.seen = 0]

\* Faulty variant of Release: the controller is left behind.
ReleaseFlagOnly(w, item, rows) ==
    /\ streaming' = FALSE
    /\ controller' = controller
    /\ work' = [work EXCEPT ![w] = Over(item)]
    /\ Show(rows)

\* The finally block of work that still owns the chat.
Release(w, item, rows) ==
    /\ streaming' = FALSE
    /\ controller' = 0
    /\ work' = [work EXCEPT ![w] = Over(item)]
    /\ Show(rows)

\* What a turn, and an approved transaction, leaves behind besides.
EndTurn(w, item, rows) == Release(w, item, rows) /\ payload' = 0

Proceed(w, item, rows) ==
    /\ work' = [work EXCEPT ![w] = item]
    /\ Show(rows)
    /\ UNCHANGED <<streaming, controller, payload>>

\* Work that lost the chat returns from its await and stops; a batch being
\* merged still marks the deploys it was collecting, where they are shown.
Abandon(w) ==
    /\ work[w].pc \in {"model", "tool", "merge", "query", "plan", "replan", "followup"}
    /\ ~Owns(w)
    /\ work' = [work EXCEPT ![w] = Over(@)]
    /\ Show(IF work[w].pc = "merge"
              THEN Close(Visible, {Row(w, i) : i \in {j \in work[w].collected : work[w].calls[j] = "deploy"}}, "unsubmitted")
              ELSE Visible)
    /\ UNCHANGED <<wallet, epoch, streaming, controller, pending, active, payload,
                   attaching, attached, cache, submitted, dispatches>>

Stop ==
    /\ controller # 0 /\ ~work[controller].aborted
    /\ work' = Aborted
    /\ UNCHANGED <<wallet, epoch, streaming, controller, pending, active, payload,
                   attaching, attached, cache, transcript, submitted, dispatches>>

\* Faulty variant of SendMessage: an open card is not superseded.
SendBesideCard ==
    /\ Len(work) < MaxWork
    /\ ~streaming
    /\ wallet.address # NoWallet
    /\ LET w == Len(work) + 1
           item == [Started("chat", "model") EXCEPT !.payload = payload]
       IN  Begin(item, Add(Visible, <<w, 1, 0>>, Spinning(0)))
    /\ UNCHANGED <<wallet, epoch, pending, active, payload, attaching, attached, cache, submitted, dispatches>>

(***************************************************************************)
(* A chat turn: the user's message, the model's answer, its tool calls.    *)
(***************************************************************************)
\* A confirmation still open is superseded.  (A controller to abort there is
\* none: only work in progress holds one, and that is refused above.)
SendMessage ==
    /\ Len(work) < MaxWork
    /\ ~streaming
    /\ wallet.address # NoWallet
    /\ LET w == Len(work) + 1
           item == [Started("chat", "model") EXCEPT !.payload = payload]
       IN  Begin(item, Add(Close(Visible, {pending.row}, "unsubmitted"), <<w, 1, 0>>, Spinning(0)))
    /\ pending' = NoCard
    /\ UNCHANGED <<wallet, epoch, active, payload, attaching, attached, cache, submitted, dispatches>>

\* The loop goes round, until its limit: then the new message says so.
NextTurn(w, rows) ==
    LET next == [work[w] EXCEPT !.pc = "model", !.turn = @ + 1, !.calls = <<>>,
                                !.at = 0, !.collected = {}, !.said = ""]
        r == <<w, next.turn, 0>>
        shown == Add(rows, r, Spinning(0))
    IN  IF work[w].turn < MaxTurns
          THEN Proceed(w, next, shown)
          ELSE EndTurn(w, next, Close(shown, {r}, "maxed"))

\* setSingleConfirmation for call i; the other calls collected are skipped.
AskOne(w, item, rows, i) ==
    LET file == IF item.calls[i] = "deploy" THEN payload ELSE 0
        skipped == {Row(w, j) : j \in item.collected \ {i}}
        skipping == [x \in DOMAIN rows |-> IF x \in skipped /\ rows[x].st = "streaming"
                                             THEN [rows[x] EXCEPT !.st = "closed", !.text = "notice"]
                                             ELSE rows[x]]
    IN  /\ pending' = Card(item, Row(w, i), file, FALSE)
        /\ EndTurn(w, item, Await(skipping, Row(w, i)))

First(s) == CHOOSE i \in s : \A j \in s : i <= j
Newest(s) == CHOOSE i \in s : \A j \in s : j <= i
Deploys(item, s) == {i \in s : item.calls[i] = "deploy"}

\* After a call: the next one, or what its group comes to.  Two deploys in one
\* group are drafts of a batch: the file is taken now, the planning is asynchronous.
AfterCall(w, item, rows) ==
    LET i == item.at + 1 IN
    \/ /\ i <= Len(item.calls)
       /\ Proceed(w, [item EXCEPT !.at = i, !.seen = dispatches], Add(rows, Row(w, i), Spinning(0)))
       /\ UNCHANGED pending
    \/ /\ i > Len(item.calls) /\ item.collected = {}
       /\ IF item.said = "card" THEN EndTurn(w, item, rows) ELSE NextTurn(w, rows)
       /\ UNCHANGED pending
    \/ /\ i > Len(item.calls) /\ item.collected # {}
       /\ IF /\ Deploys(item, item.collected) # {}
             /\ Cardinality(Deploys(item, DOMAIN item.calls)) >= 2
            THEN Proceed(w, [item EXCEPT !.pc = "merge", !.payload = payload], rows) /\ UNCHANGED pending
            ELSE AskOne(w, item, rows, First(item.collected))

\* Cancelling a group resolves every call it advertised, started or not.
CancelGroup(w, calls, rows) ==
    LET replies == {Row(w, i) : i \in DOMAIN calls}
        all == [x \in DOMAIN rows \cup replies |-> IF x \in DOMAIN rows THEN rows[x] ELSE Spinning(0)]
    IN  [x \in DOMAIN all |-> IF x \in replies /\ all[x].st = "streaming"
                                THEN [all[x] EXCEPT !.st = "closed", !.text = "notice"] ELSE all[x]]

ModelFails(w) ==
    /\ work[w].pc = "model" /\ Owns(w)
    /\ EndTurn(w, work[w], Close(Visible, {Row(w, 0)}, "notice"))
    /\ UNCHANGED <<wallet, epoch, pending, active, attaching, attached, cache, submitted, dispatches>>

\* An answer without tool calls; a stopped stream ends here with what it has.
\* On the loop's last round the limit's notice is written over the answer.
ModelAnswers(w) ==
    /\ work[w].pc = "model" /\ Owns(w)
    /\ wallet.client
    /\ LET text == IF work[w].turn >= MaxTurns THEN "maxed" ELSE "answer"
           said == IF work[w].aborted THEN "" ELSE "answer"
       IN  EndTurn(w, [work[w] EXCEPT !.said = said], Close(Visible, {Row(w, 0)}, text))
    /\ UNCHANGED <<wallet, epoch, pending, active, attaching, attached, cache, submitted, dispatches>>

ModelCalls(w, calls) ==
    /\ work[w].pc = "model" /\ Owns(w)
    /\ wallet.client
    /\ LET advertised == [x \in DOMAIN Visible |->
                            IF x = Row(w, 0) THEN [st |-> "closed", text |-> "calls", calls |-> Len(calls)]
                            ELSE Visible[x]]
       IN  IF work[w].aborted
             THEN EndTurn(w, work[w], CancelGroup(w, calls, advertised))
             ELSE Proceed(w, [work[w] EXCEPT !.pc = "tool", !.calls = calls, !.at = 1, !.seen = dispatches],
                          Add(advertised, Row(w, 1), Spinning(0)))
    /\ UNCHANGED <<wallet, epoch, pending, active, attaching, attached, cache, submitted, dispatches>>

\* handleToolCall.  A stopped call is resolved with its whole group; otherwise
\* a query reports (its result may be cached, and its card may end the turn)
\* and a transaction tool fails or asks for confirmation.
ToolStopped(w) ==
    /\ work[w].pc = "tool" /\ Owns(w)
    /\ work[w].aborted
    /\ EndTurn(w, work[w], CancelGroup(w, work[w].calls, Visible))
    /\ UNCHANGED <<wallet, epoch, pending, active, attaching, attached, cache, submitted, dispatches>>

ToolReports(w) ==
    /\ work[w].pc = "tool" /\ Owns(w)
    /\ ~work[w].aborted
    /\ \E said \in IF work[w].calls[work[w].at] = "query" THEN {work[w].said, "card"} ELSE {work[w].said} :
         AfterCall(w, [work[w] EXCEPT !.said = said], Close(Visible, {Row(w, work[w].at)}, "notice"))
    /\ cache' \in IF work[w].calls[work[w].at] = "query" THEN {cache, work[w].seen} ELSE {cache}
    /\ UNCHANGED <<wallet, epoch, active, attaching, attached, submitted, dispatches>>

ToolAsks(w) ==
    /\ work[w].pc = "tool" /\ Owns(w)
    /\ ~work[w].aborted
    /\ work[w].calls[work[w].at] # "query" /\ Current(work[w])
    /\ AfterCall(w, [work[w] EXCEPT !.collected = @ \cup {work[w].at}], Visible)
    /\ UNCHANGED <<wallet, epoch, active, attaching, attached, cache, submitted, dispatches>>

(***************************************************************************)
(* Merging the deploys of a group into one batch.  The entries `kept` by   *)
(* the planner share one card on the last of them; the rest are resolved.  *)
(***************************************************************************)
MergePlanned(w) ==
    /\ work[w].pc = "merge" /\ Owns(w)
    /\ ~work[w].aborted /\ Current(work[w])
    /\ LET drafts == Deploys(work[w], work[w].collected)
           others == work[w].collected \ drafts
       IN  \E kept \in (SUBSET drafts) \ {{}} :
             /\ pending' = Card(work[w], Row(w, Newest(kept)), work[w].payload, TRUE)
             /\ EndTurn(w, work[w],
                        Await(Close(Visible, {Row(w, i) : i \in (drafts \cup others) \ {Newest(kept)}}, "notice"),
                              Row(w, Newest(kept))))
    /\ UNCHANGED <<wallet, epoch, active, attaching, attached, cache, submitted, dispatches>>

\* Faulty variant of MergeFails: the drafts that could not be planned are not resolved.
MergeFailsSilently(w) ==
    /\ work[w].pc = "merge" /\ Owns(w)
    /\ ~work[w].aborted
    /\ LET others == work[w].collected \ Deploys(work[w], work[w].collected)
       IN  IF others = {}
             THEN NextTurn(w, Visible) /\ UNCHANGED pending
             ELSE AskOne(w, [work[w] EXCEPT !.collected = others], Visible, First(others))
    /\ UNCHANGED <<wallet, epoch, active, attaching, attached, cache, submitted, dispatches>>

MergeFails(w) ==
    /\ work[w].pc = "merge" /\ Owns(w)
    /\ ~work[w].aborted
    /\ LET drafts == Deploys(work[w], work[w].collected)
           others == work[w].collected \ drafts
           rows == Close(Visible, {Row(w, i) : i \in drafts}, "notice")
       IN  IF others = {}
             THEN NextTurn(w, rows) /\ UNCHANGED pending
             ELSE AskOne(w, [work[w] EXCEPT !.collected = others], rows, First(others))
    /\ UNCHANGED <<wallet, epoch, active, attaching, attached, cache, submitted, dispatches>>

\* The planner throws when it is stopped, past everything that resolves the
\* group: the assistant's message is rewritten, the drafts read as planned.
MergeStopped(w) ==
    /\ work[w].pc = "merge" /\ Owns(w)
    /\ work[w].aborted
    /\ EndTurn(w, [work[w] EXCEPT !.said = "stranded"],
               Close(Visible, {Row(w, 0)} \cup {Row(w, i) : i \in Deploys(work[w], work[w].collected)}, "notice"))
    /\ UNCHANGED <<wallet, epoch, pending, active, attaching, attached, cache, submitted, dispatches>>

(***************************************************************************)
(* Requests that bypass the model: the status of an app, a batch of        *)
(* examples to deploy, an app to stop.  Each shows a call of its own.      *)
(***************************************************************************)
Synthetic(w, reply) ==
    Add(Add(Visible, <<w, 1, 0>>, [st |-> "closed", text |-> "calls", calls |-> 1]), <<w, 1, 1>>, reply)

RequestAppStatus ==
    /\ Len(work) < MaxWork
    /\ wallet.address # NoWallet /\ ~streaming /\ pending = NoCard
    /\ Begin(Started("status", "query"), Synthetic(Len(work) + 1, Spinning(0)))
    /\ UNCHANGED <<wallet, epoch, pending, active, payload, attaching, attached, cache, submitted, dispatches>>

\* Unlike a turn it leaves a pending attachment alone.
AppStatusReturns(w) ==
    /\ work[w].pc = "query" /\ Owns(w)
    /\ Release(w, work[w], Close(Visible, {Row(w, 1)}, "notice"))
    /\ cache' \in IF work[w].aborted THEN {cache} ELSE {cache, work[w].seen}
    /\ UNCHANGED <<wallet, epoch, pending, active, payload, attaching, attached, submitted, dispatches>>

RequestBatchDeploy ==
    /\ Len(work) < MaxWork
    /\ ~streaming /\ pending = NoCard /\ wallet.client
    /\ Begin(Started("batch", "plan"), Synthetic(Len(work) + 1, Spinning(0)))
    /\ UNCHANGED <<wallet, epoch, pending, active, payload, attaching, attached, cache, submitted, dispatches>>

BatchPlanned(w) ==
    /\ work[w].pc = "plan" /\ Owns(w)
    /\ ~work[w].aborted /\ Current(work[w])
    /\ pending' = Card(work[w], Row(w, 1), 0, TRUE)
    /\ Release(w, work[w], Await(Visible, Row(w, 1)))
    /\ UNCHANGED <<wallet, epoch, active, payload, attaching, attached, cache, submitted, dispatches>>

\* Faulty variant of BatchRefused: a refused plan does not free the chat.
BatchRefusedStays(w) ==
    /\ work[w].pc = "plan" /\ Owns(w)
    /\ work' = [work EXCEPT ![w] = Over(@)]
    /\ Show(Close(Visible, {Row(w, 1)}, "notice"))
    /\ UNCHANGED <<wallet, epoch, streaming, controller, pending, active, payload, attaching,
                   attached, cache, submitted, dispatches>>

BatchRefused(w) ==
    /\ work[w].pc = "plan" /\ Owns(w)
    /\ Release(w, work[w], Close(Visible, {Row(w, 1)}, "notice"))
    /\ UNCHANGED <<wallet, epoch, pending, active, payload, attaching, attached, cache, submitted, dispatches>>

RequestStopApp ==
    /\ Len(work) < MaxWork
    /\ ~streaming /\ pending = NoCard /\ wallet.client
    /\ LET w == Len(work) + 1
           item == Over(Started("stop", "done"))
       IN  /\ work' = Append(work, item)
           /\ Show(Synthetic(w, [Spinning(0) EXCEPT !.st = "waiting"]))
           /\ pending' = Card(item, <<w, 1, 1>>, 0, FALSE)
    /\ UNCHANGED <<wallet, epoch, streaming, controller, active, payload, attaching, attached,
                   cache, submitted, dispatches>>

(***************************************************************************)
(* The confirmation card.                                                  *)
(***************************************************************************)
\* Cancelled by the user, or timed out: both say that nothing was submitted.
CloseCard ==
    /\ pending' = NoCard
    /\ payload' = 0
    /\ Show(Close(Visible, {pending.row}, "unsubmitted"))

CancelAction ==
    /\ pending # NoCard
    /\ CloseCard
    /\ UNCHANGED <<wallet, epoch, streaming, controller, active, attaching, attached, cache,
                   work, submitted, dispatches>>

ConfirmationTimeout ==
    /\ pending # NoCard
    /\ CloseCard
    /\ UNCHANGED <<wallet, epoch, streaming, controller, active, attaching, attached, cache,
                   work, submitted, dispatches>>

\* Confirming the edited entries of a batch plans it again, behind its card.
ReplanEditedBatch ==
    /\ Len(work) < MaxWork
    /\ pending # NoCard /\ ~streaming
    /\ pending.batch /\ Current(pending)
    /\ Begin([Started("replan", "replan") EXCEPT !.row = pending.row], Visible)
    /\ UNCHANGED <<wallet, epoch, pending, active, payload, attaching, attached, cache, submitted, dispatches>>

\* Faulty variant of SameCard: the card may have been closed while it was planned again.
AnyCard(w) == work[w].kind = "replan"

\* The card that is being planned again is still the one on display.
SameCard(w) == pending.row = work[w].row

BatchReplanned(w) ==
    /\ work[w].pc = "replan" /\ Owns(w)
    /\ ~work[w].aborted
    /\ IF SameCard(w)
         THEN /\ pending' = Card(work[w], work[w].row, 0, TRUE)
              /\ payload' = 0
              /\ Release(w, work[w], Await(Visible, work[w].row))
         ELSE /\ Release(w, work[w], Visible)
              /\ UNCHANGED <<pending, payload>>
    /\ UNCHANGED <<wallet, epoch, active, attaching, attached, cache, submitted, dispatches>>

\* Refused or stopped: the card stays as it was, for another try.
ReplanRefused(w) ==
    /\ work[w].pc = "replan" /\ Owns(w)
    /\ Release(w, work[w], Visible)
    /\ UNCHANGED <<wallet, epoch, pending, active, payload, attaching, attached, cache, submitted, dispatches>>

\* Faulty variant of Dispatch: the tool cache survives a dispatch.
DispatchKeepsCache ==
    /\ Len(work) < MaxWork
    /\ LET item == [Started("confirm", "execute") EXCEPT !.wallet = pending.wallet, !.gen = pending.gen,
                                                         !.row = pending.row, !.payload = pending.payload]
       IN  Begin(item, [Visible EXCEPT ![pending.row].st = "inflight"])
    /\ pending' = NoCard
    /\ active' = pending.row
    /\ dispatches' = dispatches + 1
    /\ UNCHANGED <<wallet, epoch, payload, attaching, attached, cache, submitted>>

(***************************************************************************)
(* An approved transaction.  The executor checks the approval once more    *)
(* before its chain call; its result belongs to the transcript it came     *)
(* from, whoever is connected by then.                                     *)
(***************************************************************************)
Dispatch ==
    /\ Len(work) < MaxWork
    /\ LET item == [Started("confirm", "execute") EXCEPT !.wallet = pending.wallet, !.gen = pending.gen,
                                                         !.row = pending.row, !.payload = pending.payload]
       IN  Begin(item, [Visible EXCEPT ![pending.row].st = "inflight"])
    /\ pending' = NoCard
    /\ active' = pending.row
    /\ cache' = NotCached
    /\ dispatches' = dispatches + 1
    /\ UNCHANGED <<wallet, epoch, payload, attaching, attached, submitted>>

RefuseStaleCard ==
    /\ CloseCard
    /\ UNCHANGED <<wallet, epoch, streaming, controller, active, attaching, attached, cache,
                   work, submitted, dispatches>>

ConfirmAction ==
    /\ pending # NoCard /\ ~streaming
    /\ IF Current(pending) THEN Dispatch ELSE RefuseStaleCard

\* Faulty variant of Submit: the executor does not look at the approval again before its chain call.
SubmitUnchecked(w) ==
    /\ work[w].pc = "execute"
    /\ submitted' = submitted \cup {[row |-> work[w].row, address |-> wallet.address, gen |-> wallet.gen]}
    /\ work' = [work EXCEPT ![w].pc = "sent"]
    /\ UNCHANGED <<wallet, epoch, streaming, controller, pending, active, payload,
                   attaching, attached, cache, transcript, dispatches>>

Submit(w) ==
    /\ work[w].pc = "execute"
    /\ Current(work[w]) /\ ~work[w].aborted
    /\ submitted' = submitted \cup {[row |-> work[w].row, address |-> wallet.address, gen |-> wallet.gen]}
    /\ work' = [work EXCEPT ![w].pc = "sent"]
    /\ UNCHANGED <<wallet, epoch, streaming, controller, pending, active, payload,
                   attaching, attached, cache, transcript, dispatches>>

ContextIsCurrent(w) == Owns(w) /\ Current(work[w])

\* Faulty variant of TransactionReturns: the row stays the active transaction during the follow-up.
ReturnsStillActive(w) ==
    /\ work[w].pc \in {"execute", "sent"} /\ ContextIsCurrent(w)
    /\ LET rows == Close(Visible, {work[w].row}, "outcome")
           over == [work[w] EXCEPT !.said = "outcome"]
       IN  IF work[w].aborted
             THEN EndTurn(w, over, rows)
             ELSE Proceed(w, [over EXCEPT !.pc = "followup"], Add(rows, Row(w, 0), Spinning(0)))
    /\ UNCHANGED <<wallet, epoch, pending, active, attaching, attached, cache, submitted, dispatches>>

\* The result, with the context it was approved in still there: the row is
\* resolved, and unless the user stopped it the model is asked to comment.
TransactionReturns(w) ==
    /\ work[w].pc \in {"execute", "sent"} /\ ContextIsCurrent(w)
    /\ LET rows == Close(Visible, {work[w].row}, "outcome")
           over == [work[w] EXCEPT !.said = "outcome"]
       IN  IF work[w].aborted
             THEN EndTurn(w, over, rows)
             ELSE Proceed(w, [over EXCEPT !.pc = "followup"], Add(rows, Row(w, 0), Spinning(0)))
    /\ active' = NoRow
    /\ UNCHANGED <<wallet, epoch, pending, attaching, attached, cache, submitted, dispatches>>

TransactionThrows(w) ==
    /\ work[w].pc \in {"execute", "sent"} /\ ContextIsCurrent(w)
    /\ EndTurn(w, work[w], Close(Visible, {work[w].row}, "notice"))
    /\ active' = NoRow
    /\ UNCHANGED <<wallet, epoch, pending, attaching, attached, cache, submitted, dispatches>>

\* finalizeStaleToolResult, finalizeStaleToolError
LateResult(w) ==
    /\ work[w].pc \in {"execute", "sent"} /\ ~ContextIsCurrent(w)
    /\ \E text \in {"outcome", "interrupted"} :
         /\ transcript' = [transcript EXCEPT ![work[w].wallet] = Close(@, {work[w].row}, text)]
         /\ work' = [work EXCEPT ![w] = Over([@ EXCEPT !.said = IF text = "outcome" THEN text ELSE ""])]
    /\ UNCHANGED <<wallet, epoch, streaming, controller, pending, active, payload,
                   attaching, attached, cache, submitted, dispatches>>

FollowUpReturns(w) ==
    /\ work[w].pc = "followup" /\ Owns(w)
    /\ EndTurn(w, work[w], Close(Visible, {Row(w, 0)}, "notice"))
    /\ active' = NoRow
    /\ UNCHANGED <<wallet, epoch, pending, attaching, attached, cache, submitted, dispatches>>

(***************************************************************************)
(* The specification.  Work under way gets on: streams and planning have   *)
(* time limits, and the executors' provider and chain calls have theirs.   *)
(***************************************************************************)
Continues(w) ==
    \/ Abandon(w)
    \/ ModelFails(w)
    \/ ModelAnswers(w)
    \/ \E calls \in Calls : ModelCalls(w, calls)
    \/ ToolStopped(w)
    \/ ToolReports(w)
    \/ ToolAsks(w)
    \/ MergePlanned(w)
    \/ MergeFails(w)
    \/ MergeStopped(w)
    \/ AppStatusReturns(w)
    \/ BatchPlanned(w)
    \/ BatchRefused(w)
    \/ BatchReplanned(w)
    \/ ReplanRefused(w)
    \/ Submit(w)
    \/ TransactionReturns(w)
    \/ TransactionThrows(w)
    \/ LateResult(w)
    \/ FollowUpReturns(w)

UserActs ==
    \/ SendMessage
    \/ RequestAppStatus
    \/ RequestBatchDeploy
    \/ RequestStopApp
    \/ ReplanEditedBatch
    \/ ConfirmAction
    \/ CancelAction
    \/ Stop
    \/ ClearHistory
    \/ BeginAttach
    \/ EndAttach

Next ==
    \/ \E address \in Wallets \cup {NoWallet}, client \in BOOLEAN : SetWalletContext(address, client)
    \/ UserActs
    \/ ConfirmationTimeout
    \/ \E w \in Ids : Continues(w)

Spec == Init /\ [][Next]_vars

FairSpec ==
    /\ Spec
    /\ WF_vars(ConfirmationTimeout)
    /\ \A w \in 1..MaxWork : WF_vars(w \in Ids /\ Continues(w))

(***************************************************************************)
(* Properties.                                                             *)
(***************************************************************************)
TypeOK ==
    /\ wallet \in [address : Wallets \cup {NoWallet}, client : BOOLEAN, gen : Nat]
    /\ epoch \in Nat /\ streaming \in BOOLEAN /\ controller \in 0..Len(work)
    /\ payload \in 0..Len(attached) /\ attaching \in {Idle} \cup Nat
    /\ cache \in {NotCached} \cup 0..dispatches
    /\ \A w \in Ids :
         /\ work[w].kind \in {"chat", "status", "batch", "stop", "replan", "confirm"}
         /\ work[w].pc \in {"model", "tool", "merge", "query", "plan", "replan", "execute", "sent", "followup", "done"}
    /\ \A a \in Wallets \cup {NoWallet} : \A r \in DOMAIN transcript[a] :
         transcript[a][r].st \in {"streaming", "waiting", "inflight", "closed"}

\* No row asks for a confirmation that nobody can give or refuse, in any
\* wallet's transcript: the rows that wait are the row of the one card, and
\* the card can still be confirmed by the wallet that sees it.  (The comments
\* of sendMessage, requestBatchDeploy and setSingleConfirmation each tell of a
\* card that was overwritten and left its row waiting.)
OneLiveCard ==
    /\ pending # NoCard => Current(pending)
    /\ \A a \in Wallets \cup {NoWallet} :
         {r \in DOMAIN transcript[a] : transcript[a][r].st = "waiting"}
           = IF a = wallet.address /\ pending # NoCard THEN {pending.row} ELSE {}

\* The chat is busy exactly while some live work owns it, so there is always a
\* finally block to come that frees it.
BusyMeansOwned ==
    /\ streaming <=> controller # 0
    /\ streaming => Owns(controller) /\ ~Done(controller)

\* A row shows progress only while the work behind it has the chat: a row that
\* spins belongs to the owner, a transaction shown in flight is the one that
\* runs.  (The rows MergeStopped strands are the exception, see EveryCallAnswered.)
ProgressIsReal ==
    \A a \in Wallets \cup {NoWallet} : \A r \in DOMAIN transcript[a] :
      /\ transcript[a][r].st = "streaming" =>
           \/ a = wallet.address /\ r[1] = controller
           \/ work[r[1]].said = "stranded"
      /\ transcript[a][r].st = "inflight" =>
           /\ a = wallet.address /\ r = active /\ controller # 0
           /\ work[controller].row = r /\ work[controller].pc \in {"execute", "sent"}

\* What looks busy is at work, and what is at work has the chat.
SlotsAreReal == BusyMeansOwned /\ ProgressIsReal

\* A submission happens under the very wallet and generation its card was
\* proposed under, a card is consumed by one submission, and no row that says
\* nothing was submitted was submitted.
ApprovalsHonoured ==
    /\ \A s \in submitted : \E w \in Ids :
         work[w].kind = "confirm" /\ work[w].row = s.row
         /\ work[s.row[1]].wallet = s.address /\ work[s.row[1]].gen = s.gen
    /\ \A v, w \in Ids : v # w /\ work[v].kind = "confirm" /\ work[w].kind = "confirm"
                          => work[v].row # work[w].row
    /\ \A a \in Wallets : \A r \in DOMAIN transcript[a] :
         transcript[a][r].text = "unsubmitted" => \A s \in submitted : s.row # r

\* The outcome of a transaction stays on its row, whatever closes, supersedes
\* or interrupts rows before and after it arrives.
OutcomeStays ==
    \A w \in Ids : work[w].kind = "confirm" /\ work[w].said = "outcome" =>
      \A r \in DOMAIN transcript[work[w].wallet] :
        r = work[w].row => transcript[work[w].wallet][r].text = "outcome"

\* A row that was resolved stays resolved: no late plan, merge or result asks
\* again or shows progress again.
KeepsClosed ==
    \A a \in Wallets : \A r \in DOMAIN transcript[a] \cap DOMAIN transcript'[a] :
       transcript[a][r].st = "closed" => transcript'[a][r].st = "closed"

\* A file is used, and kept, only for the wallet that attached it.
FilesOfTheirWallet ==
    /\ payload # 0 => attached[payload] = wallet.address
    /\ pending # NoCard /\ pending.payload # 0 => attached[pending.payload] = pending.wallet
    /\ \A w \in Ids : work[w].payload # 0 => attached[work[w].payload] = work[w].wallet

\* Nothing cached was asked before the last transaction was dispatched.
CacheFollowsDispatch == cache # NotCached => cache = dispatches

(***************************************************************************)
(* What the model is sent.  Every call an assistant message advertises has *)
(* its reply; a row that spins or is in flight is not sent.                *)
(***************************************************************************)
AsksModel(w) ==
    /\ w \in DOMAIN work' /\ work'[w].pc \in {"model", "followup"}
    /\ w \in Ids => work[w].pc # work'[w].pc \/ work[w].turn # work'[w].turn

Answered(rows, g) ==
    \A i \in 1..rows[g].calls :
      /\ <<g[1], g[2], i>> \in DOMAIN rows
      /\ rows[<<g[1], g[2], i>>].st \in {"closed", "waiting"}

\* Within a turn: the calls it made are all answered when it asks again.
OwnCallsAnswered ==
    [][\A w \in DOMAIN work' : AsksModel(w) =>
         \A g \in DOMAIN Visible' : g[1] = w => Answered(Visible', g)]_vars

\* "Every advertised tool_call needs a reply, including calls we never started
\* and confirmations collected before cancellation", across turns.
EveryCallAnswered ==
    [][\A w \in DOMAIN work' : AsksModel(w) => \A g \in DOMAIN Visible' : Answered(Visible', g)]_vars

\* Clearing a transcript never detaches a transaction that still runs.
ClearKeepsTransactions ==
    [][ClearHistory => \A w \in Ids : work[w].pc \in {"execute", "sent"} =>
                         work[w].row \notin DOMAIN Visible]_vars

=============================================================================
