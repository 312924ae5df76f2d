--------------------------- MODULE RelayReadiness ---------------------------
(***************************************************************************)
(* The readiness verdict of the relay (probeUpstream, invalidateReadiness  *)
(* and the /readyz route of server/relay.mjs).  A probe reads the          *)
(* provider's catalogue and balance; its verdict is cached for a while and *)
(* concurrent callers share one probe.  A chat request answered 402        *)
(* (module RelayChat) discards the cached verdict and the running probe,   *)
(* which goes on and answers those who already wait for it.                *)
(*                                                                         *)
(* Probes are numbered; readinessInFlight is the one new callers join.     *)
(* Whether the account can pay changes at any time.  The generation in     *)
(* which the cached verdict was read, and that in which a caller asked,    *)
(* are observed.                                                           *)
(***************************************************************************)
EXTENDS Integers, Sequences

CONSTANTS
  Callers,
  CacheTime,       \* config.readinessCacheMs
  ProbeTime,       \* config.upstreamConnectTimeoutMs
  \* bounds of the exploration
  Probes, Generations, LastReadinessTime

ASSUME ReadinessAssumption ==
  /\ {CacheTime, ProbeTime, Probes, Generations} \subseteq Nat \ {0}
  /\ LastReadinessTime \in Nat

VARIABLES
  readinessNow,
  accountingHealthy,   \* and the day's budget covers one more default request
  payable,             \* the account answers and covers one default request
  generation,          \* readinessGeneration
  readiness,           \* [at, ready, by]: readinessCheckedAt and readinessResult
  readinessInFlight,   \* a probe, or 0
  probes,              \* the probes started
  caller               \* the requests for /readyz

readinessVars == <<readinessNow, accountingHealthy, payable, generation, readiness,
                   readinessInFlight, probes, caller>>

NeverChecked == -1

\* A probe runs, has read its verdict, or has delivered it.
ProbeStates == [state : {"running", "read", "over"}, ready : BOOLEAN, generation : 0..Generations, since : 0..LastReadinessTime]

Rotating == [phase |-> "rotating", probe |-> 0, asked |-> 0]
NotAsking == [phase |-> "idle", probe |-> 0, asked |-> 0]

ReadinessInit ==
  /\ readinessNow = 0
  /\ accountingHealthy = TRUE
  /\ payable \in BOOLEAN
  /\ generation = 0
  /\ readiness = [at |-> NeverChecked, ready |-> FALSE, by |-> 0]
  /\ readinessInFlight = 0
  /\ probes = <<>>
  /\ caller = [c \in Callers |-> NotAsking]
-----------------------------------------------------------------------------
\* /readyz awaits the ledger's rotation first.
Readyz(c) ==
  /\ caller[c].phase = "idle"
  /\ caller' = [caller EXCEPT ![c] = Rotating]
  /\ UNCHANGED <<readinessNow, accountingHealthy, payable, generation, readiness, readinessInFlight, probes>>

Answered(c) == [caller EXCEPT ![c] = NotAsking]

\* The rotation fails, or accounting is unhealthy or the budget spent: 503 without a probe.
NotAccounted(c, rotated) ==
  /\ caller[c].phase = "rotating"
  /\ accountingHealthy' = (accountingHealthy /\ rotated)
  /\ ~accountingHealthy'
  /\ caller' = Answered(c)
  /\ UNCHANGED <<readinessNow, payable, generation, readiness, readinessInFlight, probes>>

CacheFresh == readiness.at # NeverChecked /\ readinessNow - readiness.at < CacheTime

FromCache(c) ==
  /\ caller[c].phase = "rotating"
  /\ accountingHealthy
  /\ CacheFresh
  /\ caller' = Answered(c)
  /\ UNCHANGED <<readinessNow, accountingHealthy, payable, generation, readiness, readinessInFlight, probes>>

Joins(c, probe) ==
  caller' = [caller EXCEPT ![c] = [phase |-> "waiting", probe |-> probe, asked |-> generation]]

JoinProbe(c) ==
  /\ caller[c].phase = "rotating"
  /\ accountingHealthy
  /\ ~CacheFresh
  /\ readinessInFlight # 0
  /\ Joins(c, readinessInFlight)
  /\ UNCHANGED <<readinessNow, accountingHealthy, payable, generation, readiness, readinessInFlight, probes>>

StartProbe(c) ==
  /\ caller[c].phase = "rotating"
  /\ accountingHealthy
  /\ ~CacheFresh
  /\ readinessInFlight = 0
  /\ Len(probes) < Probes
  /\ probes' = Append(probes, [state |-> "running", ready |-> FALSE, generation |-> generation, since |-> readinessNow])
  /\ readinessInFlight' = Len(probes')
  /\ Joins(c, readinessInFlight')
  /\ UNCHANGED <<readinessNow, accountingHealthy, payable, generation, readiness>>

\* The balance is read at some point of the probe, or its deadline passes.
ProbeReads(p) ==
  /\ probes[p].state = "running"
  /\ \E ready \in {payable, FALSE} : probes' = [probes EXCEPT ![p].state = "read", ![p].ready = ready]
  /\ UNCHANGED <<readinessNow, accountingHealthy, payable, generation, readiness, readinessInFlight, caller>>

\* Faulty variant of MayCache: the generation is not compared.
AlwaysCaches(p) == TRUE

\* Only a probe of the present generation may write the cache and make room for another.
MayCache(p) == probes[p].generation = generation

Verdict(p) == [at |-> readinessNow, ready |-> probes[p].ready, by |-> probes[p].generation]

\* Faulty variant of AnsweredBy: a discarded probe answers nobody.
AnsweredByCached(p) ==
  [c \in Callers |-> IF caller[c].probe = p /\ probes[p].generation = generation THEN NotAsking ELSE caller[c]]

\* Everyone who waits for a probe gets its verdict, cached or not.
AnsweredBy(p) == [c \in Callers |-> IF caller[c].probe = p THEN NotAsking ELSE caller[c]]

ProbeEnds(p) ==
  /\ probes[p].state = "read"
  /\ probes' = [probes EXCEPT ![p].state = "over"]
  /\ IF MayCache(p)
     THEN /\ readiness' = Verdict(p)
          /\ readinessInFlight' = 0
     ELSE UNCHANGED <<readiness, readinessInFlight>>
  /\ caller' = AnsweredBy(p)
  /\ UNCHANGED <<readinessNow, accountingHealthy, payable, generation>>

\* Faulty variant of InvalidateReadiness: the running probe is not discarded.
InvalidateReadinessKeepsProbe ==
  /\ generation < Generations
  /\ generation' = generation + 1
  /\ readiness' = [readiness EXCEPT !.at = NeverChecked]
  /\ UNCHANGED <<readinessNow, accountingHealthy, payable, readinessInFlight, probes, caller>>

\* invalidateReadiness(), on a 402.
InvalidateReadiness ==
  /\ generation < Generations
  /\ generation' = generation + 1
  /\ readiness' = [readiness EXCEPT !.at = NeverChecked]
  /\ readinessInFlight' = 0
  /\ UNCHANGED <<readinessNow, accountingHealthy, payable, probes, caller>>

\* A chat request reserves: accounting works again, or fails.
ChatReserves(healthy) ==
  /\ accountingHealthy' = healthy
  /\ UNCHANGED <<readinessNow, payable, generation, readiness, readinessInFlight, probes, caller>>

AccountChanges ==
  /\ payable' = ~payable
  /\ UNCHANGED <<readinessNow, accountingHealthy, generation, readiness, readinessInFlight, probes, caller>>

\* A probe ends at its deadline at the latest.
ReadinessTick ==
  /\ readinessNow < LastReadinessTime
  /\ \A p \in DOMAIN probes : probes[p].state = "over" \/ readinessNow < probes[p].since + ProbeTime
  /\ readinessNow' = readinessNow + 1
  /\ UNCHANGED <<accountingHealthy, payable, generation, readiness, readinessInFlight, probes, caller>>

ReadinessNext ==
  \/ ReadinessTick \/ AccountChanges \/ InvalidateReadiness
  \/ \E healthy \in BOOLEAN : ChatReserves(healthy)
  \/ \E c \in Callers : \/ Readyz(c) \/ FromCache(c) \/ JoinProbe(c) \/ StartProbe(c)
                        \/ \E rotated \in BOOLEAN : NotAccounted(c, rotated)
  \/ \E p \in DOMAIN probes : ProbeReads(p) \/ ProbeEnds(p)

ReadinessSpec == ReadinessInit /\ [][ReadinessNext]_readinessVars

\* A probe is over by its deadline.
FairReadinessSpec == ReadinessSpec /\ \A p \in 1..Probes :
  WF_readinessVars(p \in DOMAIN probes /\ (ProbeReads(p) \/ ProbeEnds(p)))
-----------------------------------------------------------------------------
\* Probes, callers and the cached verdict.
ReadinessTypeOK ==
  /\ readinessNow \in 0..LastReadinessTime
  /\ accountingHealthy \in BOOLEAN /\ payable \in BOOLEAN
  /\ generation \in 0..Generations
  /\ readiness \in [at : {NeverChecked} \cup 0..LastReadinessTime, ready : BOOLEAN, by : 0..Generations]
  /\ readinessInFlight \in {0} \cup DOMAIN probes
  /\ Len(probes) <= Probes /\ \A p \in DOMAIN probes : probes[p] \in ProbeStates
  /\ caller \in [Callers -> [phase : {"idle", "rotating", "waiting"}, probe : 0..Probes, asked : 0..Generations]]

\* A verdict read before the provider refused payment is never served from the cache
\* afterwards, even by a probe that was already running ("it must not cache a
\* verdict read before the invalidation").
CacheIsOfThisGeneration == readiness.at # NeverChecked => readiness.by = generation

\* Nobody who asks after a refusal waits for a probe that started before it.
WaitsForProbeOfItsTime ==
  \A c \in Callers : caller[c].phase = "waiting" => probes[caller[c].probe].generation = caller[c].asked

\* No caller is left waiting: whoever joined a probe is answered, also when the probe
\* was discarded meanwhile.
WaitersAnswered == \A c \in Callers : caller[c].phase = "waiting" ~> caller[c].phase = "idle"
=============================================================================
