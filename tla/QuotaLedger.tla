----------------------------- MODULE QuotaLedger -----------------------------
(***************************************************************************)
(* The relay's durable quota ledger (server/ledger.mjs).  Operations run   *)
(* one at a time behind a promise queue (withLock).  Each one computes the *)
(* next ledger state from the one in memory, awaits a durable write of it  *)
(* (temporary file, fsync, rename, fsync of the directory) and only then   *)
(* publishes it in memory.  The write may fail before or after the rename, *)
(* the process may crash at any point, and the UTC day may change at any   *)
(* point.  A crash also stands for a deliberate stop.                      *)
(*                                                                         *)
(* resv observes the callers: what the relay knows of the reservation of   *)
(* each chat request.  Its field held says that the identity entry the     *)
(* request was charged to has stayed in the ledger ever since; no step     *)
(* reads it.                                                               *)
(***************************************************************************)
EXTENDS Integers, FiniteSets, FiniteSetsExt

CONSTANTS
  Identities,       \* pseudonymous wallet keys
  Requests,         \* chat requests; each asks for at most one reservation
  Shapes,           \* validated requests: [input, output, worst] tokens
  Usages,           \* upstream reports: [input, output, spend]
  NoSpend,          \* the spend of a report without a billed amount
  InputPrice,       \* config.inputMicroUsdPerMillionTokens
  OutputPrice,      \* config.outputMicroUsdPerMillionTokens
  Million,          \* the number of tokens a price is for
  IdentityDailyRequests,
  IdentityDailyTokens,
  IdentityDailySpend,
  ProviderDailyBudget,
  Capacities,       \* the values of config.maxDailyIdentities restarts may bring
  MaxDay,           \* bound: the last UTC day
  MaxCrashes,       \* bound: how often the process dies
  MaxWriteFailures, \* bound: how many durable writes fail
  FaultyRequests    \* bound: how many requests are made in a history with a fault

\* validateChatRequest never estimates above its byte bound (validation.mjs:197-205).
ASSUME ShapesAssumption ==
  Shapes \subseteq {s \in [input : Nat, output : Nat, worst : Nat] : s.input <= s.worst}
ASSUME UsagesAssumption ==
  /\ NoSpend \notin Nat
  /\ Usages \subseteq [input : Nat, output : Nat, spend : Nat \union {NoSpend}]
\* config.mjs accepts positive integers only.
ASSUME ConfigAssumption ==
  /\ InputPrice \in Nat \ {0} /\ OutputPrice \in Nat \ {0} /\ Million \in Nat \ {0}
  /\ IdentityDailyRequests \in Nat \ {0}
  /\ IdentityDailyTokens \in Nat \ {0}
  /\ IdentityDailySpend \in Nat \ {0}
  /\ ProviderDailyBudget \in Nat \ {0}
  /\ Capacities \subseteq Nat \ {0} /\ Capacities # {}
ASSUME BoundsAssumption ==
  /\ IsFiniteSet(Identities) /\ Identities # {}
  /\ MaxDay \in Nat /\ MaxCrashes \in Nat /\ MaxWriteFailures \in Nat /\ FaultyRequests \in Nat

VARIABLES
  clock,            \* utcWindow(now()): today's UTC day, from 1
  phase,            \* "down", "loading" (init) or "serving"
  capacity,         \* config.maxDailyIdentities of this process
  mem,              \* this.state
  admissions,       \* this.identityAdmissions: identity -> symbol or NoAdmission
  fresh,            \* the next symbol that Symbol() returns
  op,               \* the operation that holds the lock and awaits its write
  disk,             \* what reading config.stateFile returns
  resv,             \* observation: request -> its reservation
  crashes, writeFailures

process == <<phase, capacity>>
symbols == <<admissions, fresh>>
faults == <<crashes, writeFailures>>
vars == <<clock, process, mem, symbols, op, disk, resv, faults>>

-----------------------------------------------------------------------------
(* Values *)

Counters == [requests : Nat, tokens : Nat, spend : Nat]

counters == [requests |-> 0, tokens |-> 0, spend |-> 0]

\* tracked is the key set of state.identities; an untracked identity counts zero.
LedgerStates ==
  [window : Nat, provider : Counters, tracked : SUBSET Identities, use : [Identities -> Counters]]

emptyState(day) ==
  [window |-> day, provider |-> counters, tracked |-> {}, use |-> [k \in Identities |-> counters]]

\* No file yet, and no state in memory: days start at 1.
NoState == emptyState(0)

NoAdmission == 0

OpKinds == {"idle", "create", "normalize", "rotate", "reserve", "settle"}
Ops == [kind : OpKinds, next : LedgerStates, renamed : BOOLEAN]
Idle == [kind |-> "idle", next |-> NoState, renamed |-> FALSE]
Write(kind, next) == [kind |-> kind, next |-> next, renamed |-> FALSE]

Statuses == {"new", "refused", "reserving", "live", "settling", "settled", "kept", "uncertain"}
Reservations ==
  [status : Statuses, key : Identities, window : Nat, tokens : Nat, idSpend : Nat, spend : Nat,
   admission : Nat, actualTokens : Nat, actualSpend : Nat, held : BOOLEAN]

-----------------------------------------------------------------------------
(* Accounting *)

ceilCost(tokens, price) == (tokens * price + (Million - 1)) \div Million

estimateSpendMicroUsd(input, output) ==
  ceilCost(input, InputPrice) + ceilCost(output, OutputPrice)

UsedLess(a, b) ==
  \/ a.spend < b.spend
  \/ a.spend = b.spend /\ a.tokens < b.tokens
  \/ a.spend = b.spend /\ a.tokens = b.tokens /\ a.requests < b.requests

\* The entries that leastUsedIdentity may return.  The code takes the oldest of them.
LeastUsed(state) ==
  {k \in state.tracked : \A j \in state.tracked : ~UsedLess(state.use[j], state.use[k])}

Drop(state, gone) ==
  [window   |-> state.window,
   provider |-> state.provider,
   tracked  |-> state.tracked \ gone,
   use      |-> [k \in Identities |-> IF k \in gone THEN counters ELSE state.use[k]]]

\* What trimLeastUsedIdentities may leave: capacity entries, none used less than one dropped.
Trimmed(state) ==
  {Drop(state, gone) : gone \in
     {g \in SUBSET state.tracked :
        /\ Cardinality(state.tracked \ g) = capacity
        /\ \A k \in g, j \in state.tracked \ g : ~UsedLess(state.use[j], state.use[k])}}

\* Faulty variant of SourceState: every reservation starts from an empty day.
AlwaysEmptySource == emptyState(clock)

SourceState == IF mem.window # clock THEN emptyState(clock) ELSE mem

\* Faulty variant of QuotaExceeded: the budget is checked against the estimate, not the worst case.
BudgetByEstimate(state, k, res) ==   state.provider.spend + res.idSpend > ProviderDailyBudget

QuotaExceeded(state, k, res) ==
  \/ state.use[k].requests + 1 > IdentityDailyRequests
  \/ state.use[k].tokens + res.tokens > IdentityDailyTokens
  \/ state.use[k].spend + res.idSpend > IdentityDailySpend
  \/ state.provider.spend + res.spend > ProviderDailyBudget

\* Faulty variant of Charge: tokens are taken off.
ChargeBackwards(entry, tokens, spend) ==
  [requests |-> entry.requests + 1, tokens |-> entry.tokens - tokens, spend |-> entry.spend + spend]

Charge(entry, tokens, spend) ==
  [requests |-> entry.requests + 1, tokens |-> entry.tokens + tokens, spend |-> entry.spend + spend]

\* The entries evicted to make room for k: none, or one least used.
Victims(state, k) ==
  IF k \notin state.tracked /\ Cardinality(state.tracked) >= capacity
  THEN {{v} : v \in LeastUsed(state)}
  ELSE {{}}

Charged(state, k, res) ==
  [window   |-> state.window,
   provider |-> Charge(state.provider, res.tokens, res.spend),
   tracked  |-> state.tracked \union {k},
   use      |-> [state.use EXCEPT ![k] = Charge(state.use[k], res.tokens, res.idSpend)]]

\* safeSubtract throws when an entry holds less than is given back.
Underflows(entry, res, reservedSpend) ==
  \/ entry.tokens + res.actualTokens < res.tokens
  \/ entry.spend + res.actualSpend < reservedSpend

Adjust(entry, res, reservedSpend) ==
  [requests |-> entry.requests,
   tokens   |-> entry.tokens + res.actualTokens - res.tokens,
   spend    |-> entry.spend + res.actualSpend - reservedSpend]

\* Faulty variant of AdjustsIdentity: the admission symbol is not compared.
AdjustsAnyEntry(res) == res.key \in mem.tracked

AdjustsIdentity(res) ==
  /\ res.key \in mem.tracked
  /\ admissions[res.key] = res.admission

SettleUnderflows(res) ==
  \/ AdjustsIdentity(res) /\ Underflows(mem.use[res.key], res, res.idSpend)
  \/ Underflows(mem.provider, res, res.spend)

\* Faulty variant of SettledState: the provider is given back the identity's estimate.
SettlesProviderByEstimate(res) ==
  [window   |-> mem.window,
   provider |-> Adjust(mem.provider, res, res.idSpend),
   tracked  |-> mem.tracked,
   use      |-> mem.use]

SettledState(res) ==
  [window   |-> mem.window,
   provider |-> Adjust(mem.provider, res, res.spend),
   tracked  |-> mem.tracked,
   use      |-> [k \in Identities |->
                   IF k = res.key /\ AdjustsIdentity(res)
                   THEN Adjust(mem.use[k], res, res.idSpend) ELSE mem.use[k]]]

-----------------------------------------------------------------------------
(* What the callers observe *)

\* The process is gone: a grant without a report keeps its charge, a write under way is unknown.
AfterCrash(res) ==
  LET status == CASE res.status = "reserving" -> "refused"
                  [] res.status = "live" -> "kept"
                  [] res.status = "settling" -> "uncertain"
                  [] OTHER -> res.status
  IN [res EXCEPT !.status = status, !.held = FALSE]

\* Reservations keep their entry unless the new state drops it.
HeldIn(next, reservations) ==
  [r \in Requests |->
     [reservations[r] EXCEPT !.held = @ /\ next.window = mem.window
                                        /\ reservations[r].key \in next.tracked]]

-----------------------------------------------------------------------------
NewReservation ==
  [status |-> "new", key |-> CHOOSE k \in Identities : TRUE, window |-> 0, tokens |-> 0,
   idSpend |-> 0, spend |-> 0, admission |-> NoAdmission, actualTokens |-> 0,
   actualSpend |-> 0, held |-> FALSE]

Init ==
  /\ clock = 1
  /\ phase = "down" /\ capacity \in Capacities
  /\ mem = NoState /\ disk = NoState
  /\ admissions = [k \in Identities |-> NoAdmission] /\ fresh = 1
  /\ op = Idle
  /\ resv = [r \in Requests |-> NewReservation]
  /\ crashes = 0 /\ writeFailures = 0

\* What reserve is about to charge wallet k for a request of shape s.
Reserving(k, s, symbol) ==
  [status |-> "reserving", key |-> k, window |-> clock,
   tokens |-> s.input + s.output,
   idSpend |-> estimateSpendMicroUsd(s.input, s.output),
   spend |-> estimateSpendMicroUsd(s.worst, s.output),
   admission |-> symbol, actualTokens |-> 0, actualSpend |-> 0, held |-> FALSE]

\* usage.spendMicroUsd ?? estimateSpendMicroUsd(...)
ReportedSpend(u) ==
  IF u.spend = NoSpend THEN estimateSpendMicroUsd(u.input, u.output) ELSE u.spend

Reported(res, u) ==
  [res EXCEPT !.actualTokens = u.input + u.output, !.actualSpend = ReportedSpend(u)]

Serving == phase = "serving" /\ op = Idle

\* The bound on histories with faults: few requests before the first and after it.
Begun == {r \in Requests : resv[r].status # "new"}
MayFail == Cardinality(Begun) <= FaultyRequests
MayBegin == crashes + writeFailures = 0 \/ Cardinality(Begun) < FaultyRequests

\* A chat request reserves.  The next state is computed and its write begins.
ReserveBegin(r, k, s) ==
  LET state == SourceState
      res == Reserving(k, s, IF k \in state.tracked THEN admissions[k] ELSE fresh)
  IN /\ Serving /\ MayBegin
     /\ resv[r].status = "new"
     /\ ~QuotaExceeded(state, k, res)
     /\ \E victims \in Victims(state, k) :
          op' = Write("reserve", Charged(Drop(state, victims), k, res))
     /\ resv' = [resv EXCEPT ![r] = res]
     /\ fresh' = IF k \in state.tracked THEN fresh ELSE fresh + 1
     /\ UNCHANGED <<clock, process, mem, admissions, disk, faults>>

\* A chat request is refused with a QuotaError: nothing is written.
ReserveRefused(r, k, s) ==
  /\ Serving /\ MayBegin
  /\ resv[r].status = "new"
  /\ QuotaExceeded(SourceState, k, Reserving(k, s, NoAdmission))
  /\ resv' = [resv EXCEPT ![r].status = "refused"]
  /\ UNCHANGED <<clock, process, mem, symbols, op, disk, faults>>

\* The report of the upstream is settled: the write of the adjusted state begins.
SettleBegin(r, u) ==
  LET res == Reported(resv[r], u)
      throws == SettleUnderflows(res)
  IN /\ Serving
     /\ resv[r].status = "live"
     /\ mem.window = resv[r].window
     /\ resv' = [resv EXCEPT ![r] = [res EXCEPT !.status = IF throws THEN "uncertain"
                                                           ELSE "settling"]]
     /\ op' = IF throws THEN op ELSE Write("settle", SettledState(res))
     /\ UNCHANGED <<clock, process, mem, symbols, disk, faults>>

\* The report comes after the ledger moved to another day: it is dropped.
SettleLate(r, u) ==
  /\ Serving
  /\ resv[r].status = "live"
  /\ mem.window # resv[r].window
  /\ resv' = [resv EXCEPT ![r].status = "kept"]
  /\ UNCHANGED <<clock, process, mem, symbols, op, disk, faults>>

\* The request ends without a report: settle is never called or returns at once.
EndsWithoutUsage(r) ==
  /\ phase = "serving"
  /\ resv[r].status = "live"
  /\ resv' = [resv EXCEPT ![r].status = "kept"]
  /\ UNCHANGED <<clock, process, mem, symbols, op, disk, faults>>

\* rotateIfNeeded, called by the readiness handler.
RotateBegin ==
  /\ Serving
  /\ mem.window # clock
  /\ op' = Write("rotate", emptyState(clock))
  /\ UNCHANGED <<clock, process, mem, symbols, disk, resv, faults>>

-----------------------------------------------------------------------------
(* The durable write *)

\* rename() has replaced the state file; fsync of the directory is still to come.
Rename ==
  /\ op # Idle /\ ~op.renamed
  /\ disk' = op.next
  /\ op' = [op EXCEPT !.renamed = TRUE]
  /\ UNCHANGED <<clock, process, mem, symbols, resv, faults>>

\* Faulty variant of Published: the write is not awaited.
PublishedEarly(kind) ==
  /\ op.kind = kind
  /\ mem' = op.next
  /\ op' = Idle
  /\ UNCHANGED <<clock, disk, faults>>

Published(kind) ==
  /\ op.kind = kind /\ op.renamed
  /\ mem' = op.next
  /\ op' = Idle
  /\ UNCHANGED <<clock, disk, faults>>

PublishReserve(r) ==
  LET rotated == op.next.window # mem.window
      evicted == mem.tracked \ op.next.tracked
  IN /\ Published("reserve")
     /\ resv[r].status = "reserving"
     /\ admissions' = [k \in Identities |->
                         CASE k = resv[r].key -> resv[r].admission
                           [] k # resv[r].key /\ (rotated \/ k \in evicted) -> NoAdmission
                           [] OTHER -> admissions[k]]
     /\ resv' = [HeldIn(op.next, resv) EXCEPT ![r].status = "live", ![r].held = TRUE]
     /\ UNCHANGED <<process, fresh>>

PublishSettle(r) ==
  /\ Published("settle")
  /\ resv[r].status = "settling"
  /\ resv' = [resv EXCEPT ![r].status = "settled"]
  /\ UNCHANGED <<process, symbols>>

PublishRotate ==
  /\ Published("rotate")
  /\ admissions' = [k \in Identities |-> NoAdmission]
  /\ resv' = HeldIn(op.next, resv)
  /\ UNCHANGED <<process, fresh>>

\* The write throws.  The lock is released and the state in memory stays.
WriteFails ==
  /\ op # Idle
  /\ writeFailures < MaxWriteFailures /\ MayFail
  /\ phase = "serving"
  /\ op' = Idle
  /\ resv' = [r \in Requests |->
                CASE resv[r].status = "reserving" -> [resv[r] EXCEPT !.status = "refused"]
                  [] resv[r].status = "settling" -> [resv[r] EXCEPT !.status = "uncertain"]
                  [] OTHER -> resv[r]]
  /\ writeFailures' = writeFailures + 1
  /\ UNCHANGED <<clock, process, mem, symbols, disk, crashes>>

-----------------------------------------------------------------------------
(* The process *)

Admitted(state) == [k \in Identities |-> IF k \in state.tracked THEN fresh ELSE NoAdmission]

\* init reads the file, or begins to write an empty state if there is none.
Start(c) ==
  /\ phase = "down"
  /\ phase' = "loading" /\ capacity' = c
  /\ mem' = disk
  /\ op' = IF disk = NoState THEN Write("create", emptyState(clock)) ELSE Idle
  /\ UNCHANGED <<clock, symbols, disk, resv, faults>>

PublishCreate ==
  /\ Published("create")
  /\ UNCHANGED <<process, symbols, resv>>

NeedsNormalizing == mem.window # clock \/ Cardinality(mem.tracked) > capacity

\* normalizeLoadedState: another day's ledger is reset, a too large one is trimmed.
NormalizeBegin ==
  /\ phase = "loading" /\ op = Idle /\ NeedsNormalizing
  /\ \E next \in IF mem.window # clock THEN {emptyState(clock)} ELSE Trimmed(mem) :
       op' = Write("normalize", next)
  /\ UNCHANGED <<clock, process, mem, symbols, disk, resv, faults>>

\* init ends: every loaded identity gets a symbol of its own.
StartServing(state) ==
  /\ phase' = "serving"
  /\ admissions' = Admitted(state) /\ fresh' = fresh + 1
  /\ UNCHANGED <<capacity, resv>>

PublishNormalize == Published("normalize") /\ StartServing(op.next)

NothingToNormalize ==
  /\ phase = "loading" /\ op = Idle /\ ~NeedsNormalizing
  /\ StartServing(mem)
  /\ UNCHANGED <<clock, mem, op, disk, faults>>

Stopped ==
  /\ phase' = "down"
  /\ mem' = NoState
  /\ op' = Idle
  /\ admissions' = [k \in Identities |-> NoAdmission]
  /\ resv' = [r \in Requests |-> AfterCrash(resv[r])]
  /\ UNCHANGED <<clock, capacity, fresh, disk>>

\* The process dies, between a write's rename and its publication too.
Crash ==
  /\ phase # "down" /\ crashes < MaxCrashes /\ MayFail
  /\ Stopped
  /\ crashes' = crashes + 1 /\ UNCHANGED writeFailures

\* init throws on a failed write: there is no relay until the process is started again.
StartFails ==
  /\ phase = "loading" /\ op # Idle /\ writeFailures < MaxWriteFailures /\ MayFail
  /\ Stopped
  /\ writeFailures' = writeFailures + 1 /\ UNCHANGED crashes

Midnight ==
  /\ clock < MaxDay
  /\ clock' = clock + 1
  /\ UNCHANGED <<process, mem, symbols, op, disk, resv, faults>>

Next ==
  \/ \E r \in Requests :
       \/ \E k \in Identities, s \in Shapes : ReserveBegin(r, k, s) \/ ReserveRefused(r, k, s)
       \/ \E u \in Usages : SettleBegin(r, u) \/ SettleLate(r, u)
       \/ EndsWithoutUsage(r)
       \/ PublishReserve(r)
       \/ PublishSettle(r)
  \/ RotateBegin \/ PublishRotate
  \/ Rename \/ WriteFails
  \/ \E c \in Capacities : Start(c)
  \/ PublishCreate \/ NormalizeBegin \/ PublishNormalize \/ NothingToNormalize
  \/ Crash \/ StartFails \/ Midnight

Spec == Init /\ [][Next]_vars

-----------------------------------------------------------------------------
(* Properties *)

\* Every variable holds a value of its kind, and a ledger counts only tracked identities.
TypeOK ==
  /\ clock \in Nat \ {0} /\ phase \in {"down", "loading", "serving"} /\ capacity \in Capacities
  /\ mem \in LedgerStates /\ disk \in LedgerStates
  /\ admissions \in [Identities -> Nat] /\ fresh \in Nat \ {0}
  /\ op \in Ops
  /\ resv \in [Requests -> Reservations]
  /\ crashes \in Nat /\ writeFailures \in Nat

GrantedStatuses == {"live", "settling", "settled", "kept", "uncertain"}

Granted == {r \in Requests : resv[r].status \in GrantedStatuses}

\* The upstream reported more than was reserved for the request.
Overran(res) ==
  /\ res.status \in {"settling", "settled", "uncertain"}
  /\ res.actualSpend > res.spend

\* What a ledger must at least hold for a grant: the reservation, the settled amount, or the
\* smaller of both while it is open which of the two is on the disk.
CostOf(res) ==
  CASE res.status \in {"live", "kept"} -> res.spend
    [] res.status = "settled" -> res.actualSpend
    [] OTHER -> IF res.actualSpend < res.spend THEN res.actualSpend ELSE res.spend

GrantedOn(reservations, day) ==
  {r \in Requests : reservations[r].status \in GrantedStatuses /\ reservations[r].window = day}

\* The ledger holds at least what the requests granted on its day cost.
Covers(ledger, reservations) ==
  LET granted == GrantedOn(reservations, ledger.window)
  IN /\ ledger.provider.spend >=
          SumFunctionOnSet([r \in Requests |-> CostOf(reservations[r])], granted)
     /\ ledger.provider.requests >= Cardinality(granted)

TokensOf(res) == IF res.status = "settled" THEN res.actualTokens ELSE res.tokens

SpendOf(res) == IF res.status = "settled" THEN res.actualSpend ELSE res.spend

\* The ledger holds exactly the requests granted on its day, settled or at their reservation.
Matches(ledger, reservations) ==
  LET granted == GrantedOn(reservations, ledger.window)
  IN /\ ledger.provider.requests = Cardinality(granted)
     /\ ledger.provider.tokens =
          SumFunctionOnSet([r \in Requests |-> TokensOf(reservations[r])], granted)
     /\ ledger.provider.spend =
          SumFunctionOnSet([r \in Requests |-> SpendOf(reservations[r])], granted)

ChargedTo(reservations, k) == {r \in Requests : reservations[r].held /\ reservations[r].key = k}

\* What a wallet's entry must at least hold for a reservation charged to it.
EntryCostOf(res) ==
  CASE res.status \in {"live", "kept"} -> res.idSpend
    [] res.status = "settled" -> res.actualSpend
    [] OTHER -> 0

EntryCovers(ledger, reservations, k) ==
  LET charged == ChargedTo(reservations, k)
  IN /\ ledger.use[k].spend >=
          SumFunctionOnSet([r \in Requests |-> EntryCostOf(reservations[r])], charged)
     /\ ledger.use[k].requests >= Cardinality(charged)

\* The hard budget (docs/deployment.md:149-158): unless the upstream overran a reservation,
\* neither the ledger in memory nor the one a restart would load ever exceeds the provider's
\* daily budget, whatever writes fail and whenever the process dies.
BudgetHolds ==
  (\A r \in Requests : ~Overran(resv[r]))
  => mem.provider.spend <= ProviderDailyBudget /\ disk.provider.spend <= ProviderDailyBudget

\* Durable before granted (reserve awaits writeState before it publishes): the ledger in memory
\* and the ledger on disk each cover the cost of every request granted on their day, so that a
\* crash at any point forgets no grant.
LedgersCoverGrants == \A ledger \in {mem, disk} : Covers(ledger, resv)

\* While no write failed and the process did not die, the provider's counters are exactly the
\* requests granted today, at their settled cost or at their reservation: no charge is lost,
\* doubled or left behind by a refused request, an eviction or a late settlement.
ProviderExactWithoutFaults ==
  crashes + writeFailures = 0 /\ mem # NoState => Matches(mem, resv)

\* The provider's counters never fall behind the grants, and agree with them without faults.
GrantsAreCounted == LedgersCoverGrants /\ ProviderExactWithoutFaults

\* The admission symbols do what their comment says (ledger.mjs:139-141): settle adjusts an
\* identity's entry exactly when that entry is the one the reservation was charged to, never
\* one that was evicted, reset or reloaded since.
SettlesOwnEntryOnly ==
  \A r \in Requests :
    resv[r].status = "live" =>
      (resv[r].held <=> mem.window = resv[r].window /\ AdjustsIdentity(resv[r]))

\* An entry covers every reservation charged to it, settled or not, so that giving a reservation
\* back never takes what another request of the same wallet is charged.
EntriesCoverReservations ==
  \A k \in Identities :
    /\ EntryCovers(mem, resv, k)
    /\ ChargedTo(resv, k) # {} => k \in mem.tracked

-----------------------------------------------------------------------------
(* The ledger implements the promise of DailyBudget. *)

GrantOf(res) ==
  [day  |-> IF res.status \in GrantedStatuses THEN res.window ELSE 0,
   cost |-> IF res.status \in GrantedStatuses THEN CostOf(res) ELSE 0,
   reported |-> \/ res.status \in {"settled", "uncertain"}
                \/ res.status = "settling" /\ ~Overran(res)]

Promise == INSTANCE DailyBudget
             WITH day <- clock, grants <- [r \in Requests |-> GrantOf(resv[r])],
                  Budget <- ProviderDailyBudget

\* Every step of the ledger, its crashes and failed writes included, is a step of the promise.
KeepsDailyBudget == Promise!Spec
=============================================================================
