# Barney, specified

Barney is a chat application that deploys and manages containers on the
Manifest network. Two programs matter here:

- **the relay** (`server/`), a Node process that authenticates wallets, keeps a
  daily quota per wallet and a daily budget for the provider, and streams chat
  completions from the inference provider;
- **the browser application** (`src/`), which logs the wallet in at the relay,
  runs model turns with tool calls, asks the user to confirm transactions,
  executes them on the chain and at compute providers, and keeps a registry of
  the user's apps.

The modules in this directory model the parts where concurrency, crashes and
time make the code hard to test. `PROJECT.json` gives, for every definition,
the lines of source it stands for.

## The system

### Relay

| Part | State | Operations | What is hard | What makes it correct |
|---|---|---|---|---|
| Quota ledger (`server/ledger.mjs`) | the day's counters in memory, the same on disk, admission symbols, one promise queue | `init`, `rotateIfNeeded`, `reserve`, `settle` | durable writes that fail before or after the rename, crashes, midnight, eviction while a request runs | the budget is never exceeded, no grant is forgotten, a late settlement touches only what its request was charged to |
| Wallet login (`server/auth.mjs`) | challenges and sessions, each a Map with an index by address | `/auth/challenge`, `/auth/session`, `/auth/status`, `/auth/logout` | replays, stale cookies, full stores, expiry | one session per signed challenge; a live session ends for a reason |
| Chat requests (`server/relay.mjs`) | the concurrency gate, `activeBySession`, local state of every handler | `handleChat`, revocation, shutdown | eight awaits, each racing a logout, a departure, a timer and the upstream | slots are returned once; revocation aborts; every request ends |
| Upstream readiness (`server/relay.mjs`) | cached verdict, probe in flight, generation | `/readyz`, `probeUpstream`, `invalidateReadiness` | a probe overtaken by a refusal of payment | no verdict from before the refusal is served after it |
| Validation, usage parsing, metrics, configuration | none that outlives a request | | bounds and parsing | sequential, one input at a time |

A chat request passes through the session store, the gate, the ledger
(`reserve`), the upstream and the ledger again (`settle`); a 402 of the upstream
invalidates readiness. A login that displaces a session aborts its requests.

### Browser

| Part | State | Operations | What is hard | What makes it correct |
|---|---|---|---|---|
| Relay session client (`api/morpheusSession.ts`, wallet effect of `AppShell.tsx`) | cached session, handshake in flight, epoch | ensure, invalidate, retry after 401, logout | a wallet switch during a handshake, late replies that change the cookie | a cached session belongs to the present wallet and epoch; one retry suffices |
| Chat store (`stores/aiStore.ts`, `stores/aiActions/`) | wallet context, epoch, controller, card, active transaction, payload, transcripts, tool cache | send, stop, confirm, cancel, attach, clear, direct requests, wallet change | every await of a turn, a plan or a transaction races all of them | see the properties of `ChatStore` |
| Persistence (`stores/aiActions/persistence.ts`) | transcripts and settings in `localStorage` | save, load, migrate | two tabs, a page that dies with a transaction in flight | an interrupted row says so; nothing is confirmed after a reload |
| Transactions (`ai/toolExecutor/compositeTransactions.ts` and others) | plans, progress | deploy, stop, fund, custom domain, batches | cancellation at each await of chain and provider | a lease that was created is either registered or reported |
| Signing (`hooks/useManifestMCP.ts`, `batchRunner.ts`) | a promise chain | `withSignLock`, batch queue | a signature that never settles; a batch cancelled while it waits | one signature at a time, every entry reported once |
| Maintenance (`ai/toolExecutor/maintenance*.ts`) | durable commands and receipts per lease | prepare, mark, send, complete, discard, retire, reconcile | two tabs, crash between the record and the request | a command is sent at most once, its verdict settles no other |
| App registry (`registry/appRegistry.ts`, `api/appDiscovery.ts`) | entries in `localStorage` with an overlay for refused writes | add, update, reconcile, discover | slow observations overtaken by newer ones | the older never overwrites the newer; one entry per lease |
| Upkeep hooks (`useVisibilityPolling`, `useAppRecovery`, `useDnsStatusPolling`, `useRegistryReconciliation`) | timers, retry budgets | tick, hide, show, cancel | overlap and cancellation | one chain of ticks; verdicts for present targets only |
| Account setup (`useAccountSetup`) | step, retry counters | fund, wait, retry | a lost answer of a payment | never paid twice |
| Pure functions (stream parsing, compaction, status derivation, SKU tiers, phases, validation) | none | | boundaries | equal to a reference definition |

The chat store asks the session client for a session before each model turn,
hands confirmed transactions to an executor, and empties the tool cache when
it does. Registry, upkeep and maintenance share `localStorage` across tabs.

## Modules

| Module | Models | Extends or uses |
|---|---|---|
| `DailyBudget` | what the ledger promises, without disk, lock or process | |
| `QuotaLedger` | the ledger | implements `DailyBudget` (proved) |
| `ExpiringStore` | the Map-with-index of `auth.mjs` | |
| `WalletLogin` | challenges, sessions, the four routes | `ExpiringStore` |
| `RelayChat` | the life of a chat request | `ExpiringStore` |
| `RelayReadiness` | the readiness probe and its cache | |
| `MorpheusSession` | the browser's session client, with cookie jar and relay | |
| `ChatStore` | turns, tool groups, cards, transactions, wallet context | |
| `Transcripts` | the transcripts of two tabs and the storage they share | |
| `AppRegistry` | the registry, the commands that write it, the recurring pass | |
| `AppRecovery` | the background reads of apps, their budgets and prompts | |
| `DeployPlans` | tiers, plans, the card, the batch runner, the lock of signatures | |
| `AccountSetup` | starter funds and first credits of a wallet | |
| `Maintenance` | restart and update commands with idempotency keys | |
| `LegacyMaintenance` | the same commands at providers without keys | |
| `RecoveryAdvice` | what a tab remembers of its advice to recover a command | |
| `QuotaLedgerProofs`, `RelayChatProofs`, `MaintenanceProofs`, `ChatStoreProofs`, `TranscriptsProofs` | theorems about the module in their name | that module, `TLAPS` |
| `RelayPartsProofs`, `RecordsProofs`, `BrowserPartsProofs` | theorems about the components that a *parts* module puts side by side, and about all of them | that parts module, the proofs of its components |
| `MCRelayParts`, `MCRecords`, `MCBrowserParts` | several components that share no state, one at a time | those components |
| the other `MC…` modules | one module with finite constants | that module |

A *parts* module has a variable `part` that never changes: it names the component
that moves in this behaviour. The components left out have no state at all (their
variables are 0), except for the first, which stays as it began. So the state
space is the sum of the components' state spaces, never their product, and each
property is about the component that moves.

A definition that says *Faulty variant of X* is a bug the code does not have;
replacing `X` by it breaks the property that guards against it, and that is its
only use.

### QuotaLedger

`mem` is `this.state`, `disk` what a reading of the state file returns,
`admissions` the symbols of `identityAdmissions`, `op` the operation that holds
the promise queue and awaits its write. `withLock` lets one operation run, so an
operation is three steps: the computation up to `writeState` (`ReserveBegin`,
`SettleBegin`, `RotateBegin`, `NormalizeBegin`), the rename (`Rename`), and the
publication after the directory's `fsync` (`Publish…`). `WriteFails`, `Crash`,
`StartFails` and `Midnight` may come at any point between them. Refusals
(`QuotaError`), underflows, settlements of another day and requests without
usage are actions or branches of their own. Symbols are numbered in order of
creation; the map of entries has an arbitrary order among equally used ones
where the code takes the oldest. `resv` observes what each request was granted,
and no guard of the ledger reads its field `held`.

### WalletLogin and ExpiringStore

The handlers have no await after the body is read, so each is one action. Which
challenge and cookie arrives with which signer is arbitrary: any identifier ever
issued, again and again. Pruning stops at the first live entry, as in the code;
so does capacity eviction remove the oldest entries first.

### RelayChat

The phases of a record of `chat` are the awaits of `handleChat`: `reading` the
body, `reserving`, `connecting` (the fetch), `cancelling` (the body of a refused
answer), `streaming`, `draining` (`waitForDrain`), `settling`. The JavaScript
rule that a rejected promise runs its handler before the next macrotask is
`AbortPending`. `Finally` is the `finally` block; `Reserved` registers the
handler with `activeBySession`. `activeBySession` names Set objects rather than
contents, because a handler keeps the object it was added to after its map
entry is gone. Sessions are those of `WalletLogin` with the login reduced to
its effect; a prune forgets a session without revoking it, as in the code.

### RelayReadiness

Probes are numbered and carry the generation they started in; `ProbeReads` and
`ProbeEnds` are the answer of the provider and the continuation after it.
`accountingHealthy` stands for the ledger's health and the room left in the
budget. Only a probe of the present generation may write the cache.

### MorpheusSession

A handshake is status, challenge, signature, submission and reply; `aborted` is
its signal. The relay has one session per wallet (`live`), and the browser one
cookie. A logout that was not awaited arrives at the relay and its reply reaches
the cookie jar in two separate steps, each at any later time. A second tab that
shares the cookie jar is not modelled.

### ChatStore

Asynchronous work is a record in `work`; its `pc` names the await it is in. It
*owns* the chat while the epoch is the one it started in and the store's
controller is its own, the two tests that every continuation in the code makes.
`SetWalletContext`, `ClearHistory`, `Stop`, `CancelAction` and the timeout of a
card may run between any two steps. A transcript maps row identifiers to a
status (`streaming`, `waiting`, `inflight`, `closed`) and, when closed, to
what it tells the user. Tools are of three kinds: a query, a deploy (which
takes the attached file and merges with a second deploy into one plan) and any
other transaction. `Submit` is the executor's last check of the approval before
its chain call; `LateResult` is a result that finds its context gone.

### Transcripts

`disk[w]` is the value under a wallet's key: nothing, rows, something unreadable, or
an envelope of a newer build. `tabs[t]` is a tab's store with its session cache
of the wallets it left. A row is its identifier and a state; a turn is reduced to
the states its rows go through. The store's subscriber runs inside the update that
triggers it, so an update and its write are one step (`Write`); `Rehydrated` is
what loading makes of rows whose work died with the page. Storage events arrive at
any later time. The result of a transaction that outlived its wallet's turn looks
for its row by identifier: if the window of messages has dropped the row, the
result is lost. A wallet that is visible in two tabs belongs to the last writer.
The unmounting of the store (`destroy`) is not modelled.

### AppRegistry

`stored` is `localStorage`, `copy[t]` the registry of a tab whose last write was
refused, `rendered[t]` what its subscribers read last. `op[t]` is the command a
tab's chat executes (deploy, stop, domain, status), `pass[t]` the recurring pass
with its two list reads, the baseline and the discovery. A step is one synchronous
stretch between two awaits. The chain (`lease`, `dom`, `mempool`) may be changed by
others at any time. `Derived` is `deriveAppStatus`, `Reconciled` what a pass writes
for an entry that is as its baseline saw it. Left out: apps hidden by the provider
allowlist, reads of storage that throw, connection details, the two writes of one
stretch of which only the second is refused, more than one service per lease, the
suffix of colliding names; `list_apps` runs between passes.

### AppRecovery

`round` is the one round of reads under way, `attempts[l]` the retry budget of an
app, `poll` the page's polling (`useVisibilityPolling`), `mints[s]` the signatures
asked of a signing context that have not been answered. `RoundAt` is a round that
nothing has aborted; foreground work, a hidden page, a new signer and a change of
the app abort it, and it unwinds in a later step.

### DeployPlans

From a request to leases. `tierList` is the session's list with the fetches in
flight. `plan` is the planner between its awaits (catalog, domains, credits), `card`
what the user was shown, `run` the batch runner with an entry in one bucket when it
ended, `signLock` the chain of promises around the wallet's signature. `Shift` is
what the chain, the providers and the other tabs change meanwhile. `SamePlan` is the
comparison of plan hashes, `OverallPhase` and `Summary` are what the card and the
chat are told. A draft's manifest, domain syntax and environment are one bit
(`acceptable`). Left out: the warning about a domain whose DNS does not point here
yet, denominations, the provider list, the budget for diagnostics, and the
second lock that a reconnect makes. Stop at the card is the same as cancel.

### AccountSetup

`setups[r]` is the run `r` of `runSetup`; its `step` names the await it is in. The
chain executes what was sent at any later time or never, and answers are lost
separately from what they answer. `setupStored` holds the facts a record states, and
`Loaded` is the migration from the two older versions. Two runs of one wallet (away
and back) may each pay: `PaysOnce` is about one run.

### Maintenance

A command is its key. `slot` is the record per lease that all tabs share, `att[t]` a
tab's confirmation with the await it is in, `results[t]` and `places[t]` the result
memory with its reservations, `provider`, `releases` and `wire` the provider and the
requests on their way to it. Sections under the Web Lock are one step. A
request may arrive after its tab has gone; a page may die between the record and
the request (`Reload`), a write may be refused.

### LegacyMaintenance

Without keys nothing is recorded before the request. `commands[c]` is the command
with the await it is in and, at the end, what the user was told; `fred` is the
provider's status, the reason of its last failure and the manifest it serves.
That the provider takes a request (`PostAccepted`) and that the page hears of it and
replaces the manifest on record (`PostAcknowledged`) are two steps: the answer may
stay out in between (`PostLost`), and the page may die at any await (`PageDies`),
with its request on the way, taken or waited for. A request that was given up before
it was taken may arrive later (`LateArrives`).

`became` observes what really happened to a command, `excused` that something
happened which nothing could mark in the record: it is set by `FredDies`, by a
`PageDies` that leaves the record of an accepted command unmarked, by a
`LateArrives` over a settled record, by commands of two tabs at once, and by a wait
that believed a degraded provider. It is lifted when somebody looks while nothing is
under way (`Observes`). The entries of a batch write the same; an aborted wait is told
there as cancelled, for which the model's word is `unknown` as for the single command.

### RecoveryAdvice

`tab` holds the maps of `maintenanceRecoveryIntent.ts` and the entry in
`sessionStorage`, `rows` the advice in the transcript, `shared` the slot other tabs
change. `mood` is what `sessionStorage` does with a call. One tab and one lease; the
lists' bound of 128 is not reached, entries are readable.

## Runs

| Run | Instance | Question |
|---|---|---|
| `ledger` | 3 requests, 3 wallets, capacity 1 or 2, 2 days, 1 crash, 1 failed write (faults among 2 requests) | Are the counters exactly the grants of the day, does every reservation keep its own entry, is the budget kept wherever a fault falls? Does the ledger implement `DailyBudget`? |
| `relay_parts` | login: 3 wallets, 4 challenges, stores of 2; readiness: 2 callers, 3 probes, 2 refusals; session client: 2 wallets, 2 handshakes, 2 switches, 1 lapse | Is a challenge used once, does a live session end only for a reason the code knows, is a verdict from before a refusal served after it, is the cached session the present one, is one retry enough, is every waiter answered? |
| `relay_chat` | 2 wallets, 2 requests, 2 logins, store of 1 | Are slots given back once, does a revocation reach every registered request, does the upstream call end with its session? |
| `relay_chat_liveness` | one login and one slot, a shorter stream timeout, `ReadingSpec` | Does every request end? |
| `relay_chat_logout` | as `relay_chat`, one login | refutes that a logout aborts every active stream |
| `chat_turns` | 2 wallets, 2 pieces of work, 2 context changes, 1 file, groups of a query and a deploy and of two deploys with another transaction | Do the busy flag, the progress shown, transcripts, cache, approvals, outcomes, files and replies stay right through stops and wallet changes? |
| `chat_replies` | 1 wallet, groups of queries | refutes that every advertised call is answered in the next request |
| `chat_clear` | 1 wallet, one transaction | refutes that a running transaction's row cannot be cleared |
| `browser_parts` | chat: 1 wallet, 3 pieces of work, 2 context changes; registry: 2 tabs, one visible, 1 lease, 1 command, 1 mishap; deployments: batches of 2 and 3 on 2 tiers and 2 providers, 2 at a time, 1 shift; setup: 2 wallets, 2 runs, 1 failed read; recovery: 2 apps, 2 signers, 1 stir | Is what is shown so, is what was settled never taken back, is what was confirmed what is deployed, is a setup paid once, is recovery paced, and does everything that waits end? |
| `registry_absent` | as the registry above | refutes that an app recorded as absent was gone |
| `records` | protocol: 2 tabs, 2 commands, 1 mishap, 1 result; legacy: 2 tabs, 2 commands, 1 death; advice: 3 commands, 2 troubles; transcripts: 2 tabs, 2 wallets, a window of 2, 3 moves, 1 fault | Does a sent command keep its handle until its verdict, is what the user is told so, is advice heeded until it is acknowledged, are rows their wallet's and on disk? |
| `legacy_defaults` | 1 tab, 2 commands | refutes that a failed update's manifest supplies no defaults |

### What the parts' properties say

- `UnsettledHasItsHandle`: while the lease is open, a command that was handed to HTTP
  and that the provider has not ended is the pending command of the shared record,
  marked as dispatched. Losing it is what the slot, the lock and the refusal to start
  without a saved record are for.
- `RecordsAreTrue`: no command is told a verdict of another, nor one that the provider
  did not give; with the exceptions the code cannot know of.
- `AnswersAreTrue`: `RecordsTellOrAsk` (while nothing is under way, the record of an app
  at a provider without keys says how the app is, or is stale and asks to be looked
  into) and `ToldIsTrue` (the verdict told of an update is what became of it, and the
  manifest on record is then the one that is served). The first excuses, until somebody
  looks, the records that nothing could mark (`excused`, above), among them that of an
  app whose page died between the accepted request and the end of the wait: the code
  writes `readinessStale` only where a wait or a request ends.
- `AdviceIsHeeded`: no command is sent over standing advice unless its plan had seen
  the advice or the user asked for a new one.
- `RowsAreOwn`, `RowsAreOnDisk`, `NewerBuildsStand`: the rows of a store, a cache and a
  key are of their wallet and none claims work nobody does; what a tab shows and may
  save is on disk; an envelope of a newer build is not overwritten.
- `RegistryIsShown`, `NothingIsTakenBack`: see `RenderedIsCurrent`, `KeepsUnsaved`,
  `KeepsNewer`, `KeepsTiers` and `KeepsClosed` in the components.
- `DeploysAreTold`: `DeploysAsShown` (what is leased is what the card showed, although
  the plan is made anew after the click), `EntriesAccounted` (every entry is told in
  one way, a cancelled one was never submitted, the card does not look finished
  early), `UnchangedPlanStands` (a plan is refused as changed only for a reason).
- `SetupIsCareful`: `PaysOnce` and `OverlayIsCurrent`.
- `RecoveryIsPaced`: budgets are kept, prompts never pile up, polling goes on.
- `EveryWaitEnds`: whoever waits is answered; the registry comes to agree with the
  chain and stays so when nothing changes any more (`Converged`).

### Bounds

- *Ledger.* Prices 1 and 3 per 2 tokens make `ceilCost` round. The shapes have a
  worst case above and equal to the estimate; the reports are below the
  reservation, unbilled, and above it. A budget of 6 refuses a second large
  request, one of 9 a third. Eviction by a third wallet with re-admission of the
  first needs three requests, and a fault between rename and publication needs
  two, so faults strike only while at most two of the requests have been made
  (`FaultyRequests`).
- *Login.* With stores of two, a third wallet evicts; four challenges let each
  wallet replay and one come back; a lifetime of one lets a challenge expire
  while another is live.
- *Chat requests.* Two requests share a session, share a wallet or share only the
  gate. Two logins replace (one wallet) or evict (two wallets, store of one).
  Logins and requests may start until a session of the first moment has expired
  (`LastStart` equals `SessionTtl`), so that expired sessions are refused, pruned
  and replaced. In `relay_chat` the stream timeout is the longest of the limits
  and the session ends first; in the liveness run the stream timer does.
  `LastTime` is late enough for every timer to fire.
- *Readiness.* Two generations let a probe be overtaken twice; three probes
  are one per generation.
- *Session client.* The bound on switches counts those that leave a wallet, so two
  leave it and come back to it; two handshakes put one before and one after.
- *Chat store.* Two pieces of work are one that finishes late and one that is
  affected; three add a replan of a card to the work that showed it and the
  transaction that follows. `MaxTurns` 2 reaches a second model turn and the
  iteration limit (10 in the code). Two context changes leave a wallet and come
  back.
- *Registry.* One command and one mishap are enough for each hazard: a pass whose
  reads span the command, in the same tab or in the other; a refused write before or
  after the other tab's; a reload that forgets an unsaved copy. Entries of different
  leases do not interact except by name.
- *Deployments.* Names of the drafts collide with each other and with suffixes; one
  batch has two drafts for one domain, the other an unacceptable one; a size that names
  two tiers and one that names none; an offer at price 0. One shift is enough to make
  the second plan differ; three entries and two places queue one.
- *Setup.* The openings: one wallet with funds and an old record that says the faucet
  failed, one without funds whose older record counts as set up; and the converse with
  present records. Two runs are before and after a switch.
- *Recovery.* One app with the short budget (1), one with the long one (2); two signers
  are before and after a reconnect, one stir is one change of the registry.
- *Maintenance.* Two commands are one that is unsettled and one that would replace it;
  the mishap is a crash between record and request, a refused write or a cleared
  session. One result makes the memory full.
- *Legacy commands.* Two commands in two tabs meet at the provider; one death of a
  container comes after either. Pages die as often as there are commands, at each await.
- *Advice.* Three commands: advised, acknowledged, and one started over it. Two troubles
  close and open storage or reload on either side of it.
- *Transcripts.* A window of two rows trims the third; three moves leave a wallet,
  return, and clear.

Every instance stops at its bounds, so runs do not look for deadlocks there
(`CHECK_DEADLOCK FALSE`); that nothing stays stuck is what the liveness
properties say. Wallets, requests, tabs and keys differ by name only, hence the
symmetry; no liveness property is checked under symmetry.

### Fairness

- `RelayChat!FairSpec`: timers fire and continuations of settled promises run,
  which is the event loop. The upstream owes nothing: a fetch or a stream that
  does not answer ends by its timer. `ReadingSpec` adds that a connected client
  reads; without it the handler waits in `waitForDrain` as described below.
- `RelayReadiness!FairSpec`: probes end because each of their two requests has a
  deadline; the rotation ends because file writes do.
- `MorpheusSession!FairSpec`: requests of the handshake have deadlines, the
  signature has one in the code, and promises continue.
- `ChatStore!FairSpec`: streams and plans have time limits, executors' provider
  and chain calls have theirs, and the card has a timeout. Nothing is assumed of
  the user.
- `RegistrySpec`: a visible tab polls for ever, and the reads of its passes end.
  Nothing is assumed of a hidden tab, of commands, of storage events.
- `DeploySpec`: reads and deployments have time limits, and the wallet answers or
  closes its prompt: a prompt that stays open for ever blocks everybody behind it in
  the chain (`batchRunner.ts:41`), since the code sets it no limit. No property here
  would catch that hazard.
- `SetupSpec`: reads, the faucet and transactions have time limits, timers fire.
- `RecoverySpec`: a round's steps, ticks and the clock go on; `MintSettles` is fair
  because a prompt is answered or closed.
- `PartsSpec` of `MCBrowserParts` states these again for the part that moves. It
  names the variables that a step always changes instead of all of them, which
  changes nothing, and asks of the registry only that a pass goes on (`PassSteps`),
  which is less than `RegistrySpec` asks.

## Proofs

`QuotaLedgerProofs` proves for every set of wallets, requests, request shapes,
reports, prices, quotas, capacities and every number of days, crashes and failed
writes, from the assumptions in `QuotaLedger` (configuration values are positive
integers, as `config.mjs` enforces; the estimate of a request does not exceed its
byte bound, as `validation.mjs` computes it; the set of wallets is finite and not
empty):

- `LedgerTypes`: the ledger is always well typed. The point is that counters
  are naturals: an adjustment that would make one negative is refused by
  `safeSubtract`. One lemma per operator that builds a ledger, one per action.
- `HardBudget`: `BudgetHolds`. It is not inductive by itself, since what is on
  disk comes from `op.next`; `BudgetInv` adds the ledger being written.
  A reservation is admitted only with room for its worst case; a settlement
  that does not overrun lowers the sum; `OverranStays` shows that an overrun
  report is never forgotten, so that the premise of the property carries over.
- `LateSettlement`: `SettlesOwnEntryOnly`. `EntryInv` strengthens it by: one
  operation holds the lock and one request is in it; the ledger's window never
  goes back nor ahead of the clock; symbols in use are below the next; the
  symbol of a request that reserves is that of its wallet's entry or a new one;
  an entry and a reservation that share wallet, window and symbol have been
  together since the reservation was published.
- `GrantsStayCounted`: `GrantsAreCounted`, `EntriesStayCovered`: `EntriesCoverReservations`.
  What is written is ahead of what is published, so the invariants speak of
  `Expected`, the reservations as they will be once the write under way is published:
  `CountInv` says that the ledgers in memory and on the disk cover the grants and that
  `op.next` covers `Expected`, exactly so while nothing failed; `EntriesInv` says the
  same of each wallet's entry. They rest on `OpenInv` (finitely many requests were
  ever granted; one report at most waits for a write; no write takes the ledger
  back a day; no grant is ahead of the ledgers) and `HeldInv` (a charge is in the
  entry of its wallet, in today's ledger). Each action is one of eight kinds of step
  (`EveryStep`): quiet, renew, load, rename, publish, give up, reserve, settle.
- `LedgerKeepsDailyBudget`: `KeepsDailyBudget`, that the ledger implements
  `DailyBudget`. A grant shows when its reservation is published, a report when it
  is asked for, or, if it overran, when its write has ended, well or badly. The
  budget that `reserve` checks is on its own counters; `CountInv` makes it a bound on
  the true cost of the day's grants.
- The sums are the library's folds. What is needed of them (a sum with one element
  changed, moved or removed, monotonicity) is proved from the recursive function that
  the fold is defined by; `LeastSubset`, that a set of finite sets has a least one,
  stands in for induction over finite sets.

The other proof modules take each the invariant that its protocol rests on:

- `RelayPartsProofs`, the login: `OneLogin`. Identifiers in the stores and in the
  record of logins are below their counters (`IdsIssued`), so that a challenge found
  in the store was never used. The lemmas say what `DeleteAll`, `Put` and the two
  `create` methods do to the entries of a store of any size.
  `SessionsEndForAReason` needs the order of the store (`StoreInv`): older sessions
  expire first, so that pruning, which stops at the first live entry, leaves no
  expired one behind it, and the one a full store gives up is the least of live
  ones; `CreateMakesRoom` counts that one is enough.
  The readiness verdict: `FreshVerdicts` and `TimelyProbes`. The probe in flight is
  always of the present generation, and every waiter's probe exists.
  The browser's session: `PresentSession` and `SharedHandshake`. No handshake is
  ahead of the epoch, one level with it was started for the connected wallet, and
  the one in flight is level with it: one that cannot be joined is not there.
  `OneRetryIsEnough` adds `RetryInv`: the first refusal leaves no session and no live
  handshake, so that what a retry sends with was obtained during the retry, and is
  still what the relay and the jar hold unless something interfered.
  All three side by side: `RelayPartsHold` restates these of the specification
  that the run explores, and `PartsStayTyped` proves its type invariant, whose
  login part is a count: a session is issued against a challenge that leaves its store, so
  that sessions issued and challenges held never exceed the challenges issued.
- `RelayChatProofs`: `GateIsExact` and `NoOrphanedStreams`. The gate's counters are
  the cardinalities of the sets of requests that hold a slot, one lemma per way in
  and out. For the second, `Registered`: a request that calls the upstream for a
  session still stored is a member of the Set that the map holds for that session,
  so that a revocation finds it; and `Coherent`: its timers end with the session.
- `MaintenanceProofs`: `SentStaysOnRecord`, `RecordsStayTrue`, `ResultsKeepTheirRoom`.
  `CommandInv` rests on two facts. Receipts are version stamps: a command that
  was sent and is no longer pending never becomes pending again, because its plan
  names a receipt that was overtaken. And baselines are honest: only the pending
  command adds a release after the one it was saved with, so the release found
  there is its own. The result cache has its own invariant (`CacheInv`): a tab
  holds as many places as it has commands that may still answer.
  Its types (`CommandsTyped`) and what both invariants say to a reader
  (`CommandsAnswer`, `CacheAnswers`) are lemmas, from which `RecordsProofs` carries them over to the run of the records.
- `ChatStoreProofs`: `ChatIsSound`, from which `SlotsStayReal`, `CardsAreLive`,
  `ApprovalsAreHonoured` and `OutcomesStay` follow, `FilesStayHome` and
  `CacheStaysFresh`. The centre is that one piece of work at most owns the chat: it
  is the one alive in the present epoch, the controller names it, and its wallet
  and generation are the present ones (`OwnerActs`). A card and an approval
  point back to work that is over (`CardStands`, `UsedOnce`); the rows that stream
  are the owner's open rows, the rows that wait or are in flight those of the card
  and of the running transaction (`RowsFit`, `OnDisplay`). Every action is one of
  few shapes: the owner goes on (`OwnerGoesOn`), the owner ends (`OwnerEnds`), new work
  begins, the context changes, or an overtaken piece of work notices that it
  is. The merge of several planned deployments picks the first row, which exists
  because the naturals are well founded (`HasLeast`).
  `ResolvedStays`, that a closed row stays closed, needs besides that the rows the
  owner is going to show are not there yet (`RowsToCome`): a step that adds a row would
  otherwise be free to reopen one. `CallsGetReplies` (`OwnCallsAnswered`) needs
  `RepliesToCome`, which names the calls of the turn at hand that have no reply yet:
  the one being run, those after it, and those collected for a confirmation. When a
  turn asks the model again that set is empty.
- `TranscriptsProofs`: `RowsStayOwn`, `CopiesAgree`, `NewerBuildsStay`. `TranscriptInv`
  speaks first of one page: its rows are in the order of their ids, and the row of a
  transaction left behind is older than any that is under way, so that trimming to
  the window, which drops the oldest, never loses the row of a running transaction
  first. Then of pages and the disk: unless another tab or a refused write came in between,
  what a page shows is on disk up to what a load closes (`ShownOnDisk`), and a copy in
  its cache is what a load would give (`CacheOnDisk`).
- `RecordsProofs`, the legacy commands: `AnswersHold` and `AnswersHoldAside`
  (`AnswersAreTrue`). What a user is told is read off the provider's last job, so `LegacyInv`
  says which command that job is (`TellsTruth`); the registry's entry can only be
  trusted while nothing is under way, so it says what commands under way have seen
  (`RecordInv`); and which manifest is served and recorded while no other command was
  executed (`ManifestInv`), where a command the page does not know to be accepted
  (`posted`) has not replaced it yet. A command whose page died has told nothing and is
  in none of these; its record is stale or excused.
  The advice: `AdviceHeeded` and `AdviceHeededAside` (`AdviceIsHeeded`). `AdviceInv`
  relates what a tab holds, what its entry lists as used up and the commands concerned: a
  command that may have been executed is not proved unsent (`UnsentIsDead`), what is used
  up is of no further use (`UsedIsDead`), advice that still counts is held by the tab
  (`StandingIsHeld`), a plan saw the advice there was, unless a command has ended since
  (`PlanIsInformed`), and what was acknowledged is written down or kept by the page
  (`Quieted`). The attempt to prove it corrected the model twice: what a page knew
  to be acknowledged while `sessionStorage` was denied is lost with the page, and one
  that cannot read its entry answers with an error, which is not advice that came back.
  All records side by side: `CommandsHoldAside`, `RowsStayOwnAside`, `CopiesAgreeAside`,
  `NewerBuildsStayAside`, and `RecordsStayTyped` for the type invariant.
- `BrowserPartsProofs`: what its run checks of the browser's components, each from an
  invariant of the component's own specification and the lemma that only the chosen
  part moves (`PartMoves`).
  Recovery (`RecoveryHoldsAside`): `RecoveryInv` counts. The rounds of an app that ran to
  their end are fewer than its attempts, one of which may be under way, unless the
  app changed and its budget begins anew; and a round under way that was not aborted
  is that of the polling that is on. `AttemptsAreBounded` adds that no attempt count passes
  its limit.
  Setup (`SetupHoldsAside`): `SetupInv` says what a run knows. Until it has
  looked again, the account holds the credits that it read before it paid, and more
  once the payment landed, so that a look which sees no more was blind; and one run
  at most is not aborted, that of the connected wallet.
  Registry (`RegistryHoldsAside`): `ShownInv` adds that a tab with a copy of its own had
  a write refused. `RegistryInv` adds that every registry, stored, copied or in the hands of a
  command or a pass, carries the statuses that its observations give.
  Deployments (`DeploysKeepTheirWord`, `DeploysHoldAside`: `DeploysAreTold`). `DeployInv`
  has three ideas. A tier list that is there is not fetched any more (`ListStands`), so a
  plan and the plan made again on approval start from the same tiers. While nothing
  shifts, every entry of a card plans to itself (`PlanRepeats`, by `AllFit`: names are free
  and distinct, tiers and providers are what the chain offers), so that a plan found
  changed means that something did change. And the books of a run are disjoint and, at
  its end, complete (`RunFits`).
  The chat next to them (`CardsHoldAside`), all types (`PartsStayTyped`), and what no step may
  take back (`SettledStays`: `NothingIsTakenBack`), from the conjunction of all of these
  (`PartsInv`).

They assume what `LimitsAssumption`, `ReadinessAssumption`, `ConfigAssumption`,
`MorpheusAssumption`, `MaintenanceAssumption`, `ChatAssumption`, `SetupAssumption`,
`RecoveryAssumption`, `RegistryAssumption`, `DeployAssumption`, `LegacyAssumption`,
`AdviceAssumption` and `TranscriptAssumption` say: limits, budgets and amounts are
positive integers, bounds are natural numbers, the name of no wallet is not a wallet's,
the value that stands for "nothing" is none of those it is compared with, a catalog
offers each tier at a price or not at all, and a size or a name that is there is the
first one found when it is asked for. TLC evaluates them in every run.

Operators over sequences that a proof speaks of (`Omitting` of `RecoveryAdvice`, the
restored rows, the plans of a batch) are written as recursive functions over positions
or as sets. Where the library's induction theorems cannot be instantiated, the
proofs use that a set of naturals that is closed under successor is the naturals, or
that a non-empty one has a least element. What a fold computes in the end, such as `Cost` of a
plan, is only used as a value that two equal plans share.

Every safety invariant and action property that a passing run checks is stated by a
theorem. Only model-checked, because liveness and `ENABLED` are out of the prover's reach:
`EveryWaitEnds` (twice), `RequestsEnd`, and what they say of each component, among it that
the registry comes to agree with the chain. `SettlesOwnEntryOnly` and `ChatInv` are
proved and checked by no run of their own.

## Findings

Where code and documentation disagree, and a run shows it:

1. `relay_chat_logout`. `handleChat` checks the session before it awaits the body
   and the ledger and registers for revocation only afterwards. A logout or a
   replacement in between aborts nothing and the request streams on until its
   own timers end it; `docs/dev/security.md:41` says active streams are aborted.
2. `chat_replies`. When the epoch changes during a group of tool calls, the calls
   not started get no reply, and the transcript keeps the group; the comment at
   `toolExecution.ts:583` says every advertised call needs one.
3. `chat_clear`. `setWalletContext` forgets `activeTransactionMessageId` while
   the executor runs, so a signer refresh lets `clearHistory` delete the row; the
   comment at `aiStore.ts:472` calls that a hard boundary.
4. `registry_absent`. The lists of active and of pending leases are two requests. A
   lease acknowledged between their answers is in neither, and the pass records a
   live app as observed to be gone until the next one; the comments at
   `appRegistry.ts:15` and `:710` say an absence was observed.
5. `legacy_defaults`. An update whose wait ends with the provider's failure leaves
   the attempted manifest in the registry, from which the next update takes its
   defaults; the comment at `compositeTransactions.ts:2361` says it cannot.

Seen while modelling, without a run of their own:

- The stream timer aborts the upstream fetch only. A handler in `waitForDrain`
  holds its slot until its client reads or leaves
  (`docs/user/troubleshooting.md:190` and `server/relay.test.mjs:906` speak of a
  limit on the whole answer). `RequestsEnd` therefore assumes clients that read,
  and excepts the client that left before its close was listened for.
- `AppShell.tsx:75` does not await the logout of the previous wallet. Its
  answer may clear the cookie of the next wallet's session; the retry after the
  401 repairs that, which is what `RetrySuffices` says.
- Stop during the planning of a batch leaves the row of a confirmation that is
  not part of the plan open (`toolExecution.ts:478`; `ARCHITECTURE.md:140`).
  `ProgressIsReal` excepts it by name.
- A turn that answers on its last allowed round is told that it reached the
  limit (`sendMessage.ts:214`; `docs/user/troubleshooting.md:234`).
- A file attached during a turn is taken by that turn's card
  (`toolExecution.ts:144`, against the comment at `sendMessage.ts:82`).
- `ARCHITECTURE.md:295` says a new message aborts streams in flight; the code
  refuses a new message while one streams.
- Names are checked when a deployment is planned, not when it is confirmed: two tabs
  can confirm two apps of one name (`appRegistry.ts:379` says names stay unambiguous).
- `app_status` and the end of a deploy may undo another tab's confirmed stop until the
  next pass. A tab whose write was refused ignores the storage event that was on its
  way, and shows what it has until the next change.
- The comment at `useManifestMCP.ts:157` says the wallet is never asked twice at once;
  a reconnect makes a new lock while a prompt of the old one may be open.
- An update that was rolled back, and whose container dies before `/provision` is
  read, is told as one that was applied and failed since
  (`compositeTransactions.ts:2129`). A provider in degraded state may let an update
  be told as done while it is under way, a `/provision` read that fails lets a
  rolled back one be told as applied, and with commands in two tabs one may be told
  the other's verdict. The exceptions of `AnswersAreTrue` name these.
- Nothing marks the record of an app before a request to a provider without keys is
  sent. A page that is closed or reloaded after the provider took it
  (`compositeTransactions.ts:1575`, `:2217`) leaves the app `confirmed` and not stale,
  with the manifest of before if the answer was still out; the recovery passes a
  confirmed app with a connection over (`useAppRecovery.ts:67`), so it stays so until
  `app_status`. The comment at
  `compositeTransactions.ts:1668` gives the reason for which a cancelled wait is
  marked, and it holds here too. `RecordsTellOrAsk` excuses it by name.
- `confirmed`, written after the connection has been read, may replace a newer
  failure another tab wrote; a planned manifest is stale if another tab updates first.
- Advice that was restored while `sessionStorage` was denied stays until something
  reads the entry again.
- A card for a batch shows `failed` for an app without a verdict while the summary
  counts it as still deploying; when no app is ready the card changes from failed to
  ready with the summary (`deployError.ts:259`, `batchRunner.ts:331`).

## Not modelled

Left out of the modelled parts: the content of messages and files, progress
texts, a state file the relay did not write, clocks that step back, signature
verification (right or wrong), cookies' attributes, and what each module's section
above names. Not modelled at all, because they are formatting, rendering, static
data, parsing of one input, single-request wrappers or the build: see
`not_modelled` in `PROJECT.json`, with the reason for each. Hazards without a
property carry a note there that says why.

## What is left

1. An abstract specification of a command at most sent once, and `Maintenance` shown
   to implement it; the same for an approval used at most once and `ChatStore`.
2. `findApp` with several names and leases; the DNS probes with their cancellation.
3. The hazards that have no property yet; their notes in `PROJECT.json` say why.
