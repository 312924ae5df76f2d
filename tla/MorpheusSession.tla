-------------------------- MODULE MorpheusSession --------------------------
(***************************************************************************)
(* The browser's side of the relay session (src/api/morpheusSession.ts and *)
(* the wallet effect of AppShell.tsx), with the cookie jar and the         *)
(* sessions of the relay it races against: a handshake that is overtaken   *)
(* by a switch of wallet, a logout whose reply clears the cookie of the    *)
(* next session, a relay that forgets.                                     *)
(*                                                                         *)
(* One chat turn runs at a time; a turn that is stopped leaves its         *)
(* handshake behind, which the next turn may join.  The relay keeps one    *)
(* session per wallet (module WalletLogin).  disturbed observes whether    *)
(* the cookie or the wallet's session changed by anything but its own      *)
(* handshake since the turn started its retry.                             *)
(***************************************************************************)
EXTENDS Integers, Sequences

CONSTANTS
  Accounts,
  NoAccount,
  \* bounds of the exploration
  Handshakes, Switches, Lapses

ASSUME MorpheusAssumption ==
  /\ Handshakes \in Nat \ {0}
  /\ {Switches, Lapses} \subseteq Nat
  /\ NoAccount \notin Accounts

VARIABLES
  wallet,      \* the connected wallet, or NoAccount
  sessionEpoch,       \* counts the invalidations
  cachedSession,      \* [address, epoch] while it is fresh
  inFlightSession,    \* a handshake, or 0
  handshakes,  \* the handshakes started, each an establishMorpheusSession()
  turn,        \* the chat request: fetchWithMorpheusSession()
  cookie,      \* the session cookie of the browser, or 0
  live,        \* the relay's session of each wallet, or 0
  logouts,     \* DELETE requests under way: [cookie, stage]
  lapses,      \* counts the times the relay forgot a session
  disturbed

sessionVars == <<wallet, sessionEpoch, cachedSession, inFlightSession, handshakes, turn, cookie,
                 live, logouts, lapses, disturbed>>
relay == <<live, lapses>>

Stages == {"status", "challenge", "signing", "submitting", "created", "established", "over"}
TurnPhases == {"idle", "ensuring", "waiting", "sending"}

NoSession == [address |-> NoAccount, epoch |-> 0]
NoTurn == [phase |-> "idle", on |-> 0, attempt |-> 0, outcome |-> "none"]

SessionInit ==
  /\ wallet = NoAccount
  /\ sessionEpoch = 0
  /\ cachedSession = NoSession
  /\ inFlightSession = 0
  /\ handshakes = <<>>
  /\ turn = NoTurn
  /\ cookie = 0
  /\ live = [w \in Accounts |-> 0]
  /\ logouts = <<>>
  /\ lapses = 0
  /\ disturbed = FALSE
-----------------------------------------------------------------------------
\* invalidateMorpheusSession()
AbortedInFlight == IF inFlightSession = 0 THEN handshakes ELSE [handshakes EXCEPT ![inFlightSession].aborted = TRUE]

InvalidateSession(times) ==
  /\ cachedSession' = NoSession
  /\ sessionEpoch' = sessionEpoch + times
  /\ handshakes' = AbortedInFlight
  /\ inFlightSession' = 0

\* The wallet effect: the turn of the previous wallet is aborted, the session is
\* invalidated, and the previous wallet's relay session is logged out without
\* waiting for it.
SwitchWallet(w) ==
  /\ w # wallet
  /\ Len(logouts) < Switches
  /\ wallet' = w
  /\ turn' = NoTurn
  /\ IF wallet = NoAccount
     THEN InvalidateSession(1) /\ UNCHANGED logouts
     ELSE /\ InvalidateSession(2)
          /\ logouts' = Append(logouts, [cookie |-> cookie, stage |-> "sent"])
  /\ UNCHANGED <<cookie, relay, disturbed>>

\* The relay revokes the session of the cookie the request was sent with.
LogoutArrives(l) ==
  /\ logouts[l].stage = "sent"
  /\ logouts' = [logouts EXCEPT ![l].stage = "answered"]
  /\ live' = [w \in Accounts |-> IF live[w] = logouts[l].cookie THEN 0 ELSE live[w]]
  /\ disturbed' = TRUE
  /\ UNCHANGED <<wallet, sessionEpoch, cachedSession, inFlightSession, handshakes, turn, cookie, lapses>>

\* Its reply clears the cookie, whichever the jar holds by then.
LogoutReplies(l) ==
  /\ logouts[l].stage = "answered"
  /\ logouts' = [logouts EXCEPT ![l].stage = "over"]
  /\ cookie' = 0
  /\ disturbed' = TRUE
  /\ UNCHANGED <<wallet, sessionEpoch, cachedSession, inFlightSession, handshakes, turn, relay>>

\* The session expires, or the relay restarts.
RelayForgets(w) ==
  /\ live[w] # 0
  /\ lapses < Lapses
  /\ lapses' = lapses + 1
  /\ live' = [live EXCEPT ![w] = 0]
  /\ disturbed' = TRUE
  /\ UNCHANGED <<wallet, sessionEpoch, cachedSession, inFlightSession, handshakes, turn, cookie, logouts>>

\* The safety margin before the expiry is reached.
CachedExpires ==
  /\ cachedSession # NoSession
  /\ lapses < Lapses
  /\ lapses' = lapses + 1
  /\ cachedSession' = NoSession
  /\ UNCHANGED <<wallet, sessionEpoch, inFlightSession, handshakes, turn, cookie, live, logouts, disturbed>>
-----------------------------------------------------------------------------
At(h, stage) == handshakes[h].stage = stage

Advance(h, stage) == handshakes' = [handshakes EXCEPT ![h].stage = stage]

\* Faulty variant of Settles: a rejection does not reach the waiter.
SettlesSuccesses(h, phase) ==
  /\ inFlightSession' = IF inFlightSession = h THEN 0 ELSE inFlightSession
  /\ turn' = IF turn.phase = "waiting" /\ turn.on = h /\ phase = "sending"
             THEN [turn EXCEPT !.phase = phase] ELSE turn

\* The promise of a handshake settles: it is no longer in flight and its waiter goes on.
Settles(h, phase) ==
  /\ inFlightSession' = IF inFlightSession = h THEN 0 ELSE inFlightSession
  /\ turn' = CASE turn.phase = "waiting" /\ turn.on = h /\ phase = "sending" -> [turn EXCEPT !.phase = phase]
               [] turn.phase = "waiting" /\ turn.on = h /\ phase # "sending" -> [NoTurn EXCEPT !.outcome = phase]
               [] OTHER -> turn

\* /auth/status: the relay finds the session of the cookie, or asks for a proof.
StatusChecked(h) ==
  /\ At(h, "status")
  /\ ~handshakes[h].aborted
  /\ Advance(h, IF cookie # 0 /\ live[handshakes[h].address] = cookie THEN "established" ELSE "challenge")
  /\ UNCHANGED <<wallet, sessionEpoch, cachedSession, inFlightSession, turn, cookie, relay, logouts, disturbed>>

Challenged(h) ==
  /\ At(h, "challenge")
  /\ ~handshakes[h].aborted
  /\ Advance(h, "signing")
  /\ UNCHANGED <<wallet, sessionEpoch, cachedSession, inFlightSession, turn, cookie, relay, logouts, disturbed>>

\* The wallet signs, unaware of an abort, which is noticed afterwards.
Signed(h) ==
  /\ At(h, "signing")
  /\ ~handshakes[h].aborted
  /\ Advance(h, "submitting")
  /\ UNCHANGED <<wallet, sessionEpoch, cachedSession, inFlightSession, turn, cookie, relay, logouts, disturbed>>

\* The relay exchanges the challenge for a session, which replaces the wallet's prior one.
Submitted(h) ==
  /\ At(h, "submitting")
  /\ ~handshakes[h].aborted
  /\ Advance(h, "created")
  /\ live' = [live EXCEPT ![handshakes[h].address] = h]
  /\ UNCHANGED <<wallet, sessionEpoch, cachedSession, inFlightSession, turn, cookie, lapses, logouts, disturbed>>

\* The reply sets the cookie.
SessionReplied(h) ==
  /\ At(h, "created")
  /\ ~handshakes[h].aborted
  /\ Advance(h, "established")
  /\ cookie' = h
  /\ UNCHANGED <<wallet, sessionEpoch, cachedSession, inFlightSession, turn, relay, logouts, disturbed>>

\* The reply to an aborted handshake may still reach the cookie jar.
LateReply(h) ==
  /\ At(h, "created")
  /\ handshakes[h].aborted
  /\ Advance(h, "over")
  /\ cookie' = h
  /\ disturbed' = TRUE
  /\ UNCHANGED <<wallet, sessionEpoch, cachedSession, inFlightSession, turn, relay, logouts>>

\* Faulty variant of SameEpoch: the epoch is not compared.
AnyEpoch(h) == handshakes[h].epoch <= sessionEpoch

SameEpoch(h) == handshakes[h].epoch = sessionEpoch

Established(h) ==
  /\ At(h, "established")
  /\ Advance(h, "over")
  /\ IF SameEpoch(h)
     THEN /\ cachedSession' = [address |-> handshakes[h].address, epoch |-> handshakes[h].epoch]
          /\ Settles(h, "sending")
     ELSE /\ Settles(h, "failed")
          /\ UNCHANGED cachedSession
  /\ UNCHANGED <<wallet, sessionEpoch, cookie, relay, logouts, disturbed>>

\* A request fails, the signature is refused or comes too late, or an abort is noticed.
HandshakeFails(h) ==
  /\ handshakes[h].stage \notin {"established", "over"}
  /\ Advance(h, "over")
  /\ Settles(h, "failed")
  /\ UNCHANGED <<wallet, sessionEpoch, cachedSession, cookie, relay, logouts, disturbed>>
-----------------------------------------------------------------------------
BeginTurn ==
  /\ wallet # NoAccount
  /\ turn.phase = "idle"
  /\ turn' = [NoTurn EXCEPT !.phase = "ensuring", !.attempt = 1]
  /\ UNCHANGED <<wallet, sessionEpoch, cachedSession, inFlightSession, handshakes, cookie, relay, logouts, disturbed>>

\* The user stops the turn; a handshake it waits for goes on.
StopTurn ==
  /\ turn.phase # "idle"
  /\ turn' = NoTurn
  /\ UNCHANGED <<wallet, sessionEpoch, cachedSession, inFlightSession, handshakes, cookie, relay, logouts, disturbed>>

SessionFresh == cachedSession.address = wallet

\* Faulty variant of Joinable: handshakes are not shared.
NeverJoinable == inFlightSession = -1

Joinable ==
  inFlightSession # 0 /\ handshakes[inFlightSession].address = wallet /\ handshakes[inFlightSession].epoch = sessionEpoch

\* ensureMorpheusSession()
EnsureCached ==
  /\ turn.phase = "ensuring"
  /\ SessionFresh
  /\ turn' = [turn EXCEPT !.phase = "sending"]
  /\ UNCHANGED <<wallet, sessionEpoch, cachedSession, inFlightSession, handshakes, cookie, relay, logouts, disturbed>>

EnsureJoins ==
  /\ turn.phase = "ensuring"
  /\ ~SessionFresh
  /\ Joinable
  /\ turn' = [turn EXCEPT !.phase = "waiting", !.on = inFlightSession]
  /\ UNCHANGED <<wallet, sessionEpoch, cachedSession, inFlightSession, handshakes, cookie, relay, logouts, disturbed>>

EnsureStarts ==
  /\ turn.phase = "ensuring"
  /\ ~SessionFresh
  /\ ~Joinable
  /\ Len(handshakes) < Handshakes
  /\ handshakes' = Append(handshakes,
       [address |-> wallet, epoch |-> sessionEpoch, stage |-> "status", aborted |-> FALSE])
  /\ inFlightSession' = Len(handshakes')
  /\ turn' = [turn EXCEPT !.phase = "waiting", !.on = inFlightSession']
  /\ UNCHANGED <<wallet, sessionEpoch, cachedSession, cookie, relay, logouts, disturbed>>

Accepted == cookie # 0 /\ live[wallet] = cookie

Sent(outcome) ==
  /\ turn' = [NoTurn EXCEPT !.outcome = outcome]
  /\ UNCHANGED <<wallet, sessionEpoch, cachedSession, inFlightSession, handshakes, cookie, relay, logouts, disturbed>>

SendAccepted == turn.phase = "sending" /\ Accepted /\ Sent("accepted")

\* Faulty variant of SendRefusedOnce: the retry trusts the cached session.
RetryKeepsSession ==
  /\ turn.phase = "sending"
  /\ ~Accepted
  /\ turn.attempt = 1
  /\ turn' = [turn EXCEPT !.phase = "ensuring", !.attempt = 2]
  /\ disturbed' = FALSE
  /\ UNCHANGED <<wallet, sessionEpoch, cachedSession, inFlightSession, handshakes, cookie, relay, logouts>>

\* A first refusal invalidates the session and tries once more.
SendRefusedOnce ==
  /\ turn.phase = "sending"
  /\ ~Accepted
  /\ turn.attempt = 1
  /\ InvalidateSession(1)
  /\ turn' = [turn EXCEPT !.phase = "ensuring", !.attempt = 2]
  /\ disturbed' = FALSE
  /\ UNCHANGED <<wallet, cookie, relay, logouts>>

SendRefused == turn.phase = "sending" /\ ~Accepted /\ turn.attempt = 2 /\ Sent("refused")

HandshakeSteps(h) ==
  \/ StatusChecked(h) \/ Challenged(h) \/ Signed(h) \/ Submitted(h) \/ SessionReplied(h)
  \/ LateReply(h) \/ Established(h) \/ HandshakeFails(h)

TurnSteps ==
  \/ EnsureCached \/ EnsureJoins \/ EnsureStarts
  \/ SendAccepted \/ SendRefusedOnce \/ SendRefused

SessionNext ==
  \/ \E w \in Accounts \cup {NoAccount} : SwitchWallet(w)
  \/ \E l \in DOMAIN logouts : LogoutArrives(l) \/ LogoutReplies(l)
  \/ \E w \in Accounts : RelayForgets(w)
  \/ CachedExpires
  \/ \E h \in DOMAIN handshakes : HandshakeSteps(h)
  \/ BeginTurn \/ StopTurn \/ TurnSteps

SessionSpec == SessionInit /\ [][SessionNext]_sessionVars

\* Requests are answered or fail, the signature has a deadline, and promises continue.
FairSessionSpec ==
  /\ SessionSpec
  /\ WF_sessionVars(TurnSteps)
  /\ \A h \in 1..Handshakes : WF_sessionVars(h \in DOMAIN handshakes /\ HandshakeSteps(h))
-----------------------------------------------------------------------------
\* The session cache, the handshakes and the turn.
SessionTypeOK ==
  /\ wallet \in Accounts \cup {NoAccount}
  /\ sessionEpoch \in Nat
  /\ cachedSession \in [address : Accounts \cup {NoAccount}, epoch : Nat]
  /\ inFlightSession \in {0} \cup DOMAIN handshakes
  /\ \A h \in DOMAIN handshakes :
       handshakes[h] \in [address : Accounts, epoch : Nat, stage : Stages, aborted : BOOLEAN]
  /\ turn \in [phase : TurnPhases, on : {0} \cup DOMAIN handshakes, attempt : 0..2,
               outcome : {"none", "failed", "accepted", "refused"}]
  /\ cookie \in 0..Handshakes
  /\ live \in [Accounts -> 0..Handshakes]
  /\ disturbed \in BOOLEAN

\* A session is trusted only for the wallet that is connected, and only if it was
\* established since the last invalidation: a handshake that outlives a switch of
\* wallet (also away and back), a logout or a refused request never fills the cache.
CachedIsCurrent == cachedSession # NoSession => cachedSession.address = wallet /\ cachedSession.epoch = sessionEpoch

Alive(h) == handshakes[h].stage # "over" /\ ~handshakes[h].aborted

\* The wallet is not asked for two signatures at once on behalf of the page: at most
\* one handshake is under way that nothing has cancelled, and it is the one a further
\* turn joins.
OneHandshake == \A h \in DOMAIN handshakes : Alive(h) => inFlightSession = h

\* One retry is enough: a turn is refused for good only if the relay forgot the session,
\* or a logout or a cancelled handshake reached the relay or the cookie jar, while it retried.
RetrySuffices == turn.outcome = "refused" => disturbed

\* A turn never waits for ever: not for a handshake that was cancelled, replaced or refused.
TurnsGoOn == turn.phase = "waiting" ~> turn.phase # "waiting"

=============================================================================
