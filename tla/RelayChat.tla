----------------------------- MODULE RelayChat -----------------------------
(***************************************************************************)
(* The life of a chat request at the relay (handleChat of                  *)
(* server/relay.mjs), with everything that can happen while it awaits:     *)
(* its wallet logs out or logs in again, its client goes away, its session *)
(* expires, a deadline passes, the upstream answers, fails or stalls.      *)
(* One step is one run of the event loop between two awaits.               *)
(*                                                                         *)
(* The session store is the one of WalletLogin; the exchange of a          *)
(* challenge for a session is reduced to its effect on it.  The ledger     *)
(* (module QuotaLedger) is seen through the outcomes of reserve and        *)
(* settle.  activeBySession maps a session to a Set object, and a request  *)
(* keeps the object it was added to: Sets are named here by the request    *)
(* that created them.                                                      *)
(***************************************************************************)
EXTENDS ExpiringStore

CONSTANTS
  Wallets,
  Requests,
  None,
  SessionTtl, MaxSessions,           \* config.sessionTtlMs, config.maxSessions
  ConnectTimeout, StreamTimeout,     \* config.upstreamConnectTimeoutMs, config.streamTimeoutMs
  MaxIdentity, MaxProvider,          \* config.maxIdentityConcurrent, config.maxProviderConcurrent
  \* bounds of the exploration: logins, and the last moment of a login or a new request
  Logins, LastStart

ASSUME ConfigAssumption ==
  /\ {SessionTtl, MaxSessions, ConnectTimeout, StreamTimeout, MaxIdentity, MaxProvider, Logins}
       \subseteq Nat \ {0}
  /\ LastStart \in Nat
  /\ None \notin Requests \cup Wallets

VARIABLES
  now,
  sessions,           \* SessionStore
  lastSession,        \* the newest session identifier
  chat,               \* the local state of each handler, and whether its client is gone
  gate,               \* ConcurrencyGate: [provider, identity]
  activeBySession,    \* session |-> the Set of its running requests
  accountingHealthy,
  readinessDiscarded  \* a 402 has discarded the cached readiness verdict (module RelayReadiness)

vars == <<now, sessions, lastSession, chat, gate, activeBySession,
          accountingHealthy, readinessDiscarded>>
auth == <<sessions, lastSession>>
health == <<accountingHealthy, readinessDiscarded>>

\* Bounds: by LastReserve every started request has left the ledger, and nothing
\* is due after LastTime.
LastReserve == LastStart + 1
LastTime == LastReserve + ConnectTimeout + StreamTimeout

Least(a, b) == IF a <= b THEN a ELSE b
Greatest(a, b) == IF a >= b THEN a ELSE b

Upstream == {"connecting", "cancelling", "streaming", "draining"}
Holding == {"reserving"} \cup Upstream

Fresh ==
  [phase |-> "idle", session |-> 0, wallet |-> None, expiresAt |-> 0,
   set |-> None, listening |-> FALSE, aborted |-> FALSE, reason |-> "upstream_error",
   deadline |-> 0, connectReason |-> "none", received |-> FALSE, gone |-> FALSE]

Init ==
  /\ now = 0
  /\ sessions = EmptyStore
  /\ lastSession = 0
  /\ chat = [r \in Requests |-> Fresh]
  /\ gate = [provider |-> 0, identity |-> [w \in Wallets |-> 0]]
  /\ activeBySession = [s \in 1..Logins |-> None]
  /\ accountingHealthy = TRUE
  /\ readinessDiscarded = FALSE
-----------------------------------------------------------------------------
\* Faulty variant of Reached: only the first request of the Set is aborted.
ReachesFirst(ids) ==
  {r \in Requests : \E s \in ids : activeBySession[s] = r /\ chat[r].set = r}

\* The requests that revoking the sessions ids aborts.
Reached(ids) == {r \in Requests : \E s \in ids : /\ activeBySession[s] # None
                                                  /\ chat[r].set = activeBySession[s]}

Abort(c, reason) == [c EXCEPT !.aborted = TRUE, !.reason = reason]

\* revokeSession() of every session in ids.
Revoke(ids, reason) ==
  /\ chat' = [r \in Requests |-> IF r \in Reached(ids) THEN Abort(chat[r], reason) ELSE chat[r]]
  /\ activeBySession' = [s \in DOMAIN activeBySession |->
                           IF s \in ids THEN None ELSE activeBySession[s]]

\* sessions.create() for a wallet that has signed its challenge: prunes without
\* revoking, and revokes what the new session displaces.
Login(w) ==
  LET live == Prune(sessions, now)
      out == Displaced(live, w, MaxSessions)
      id == lastSession + 1
  IN  /\ lastSession < Logins
      /\ now <= LastStart
      /\ sessions' = Put(DeleteAll(live, out), id, [address |-> w, expiresAt |-> now + SessionTtl])
      /\ lastSession' = id
      /\ Revoke(out, "session_replaced")
      /\ UNCHANGED <<now, gate, health>>

Logout(s) ==
  /\ sessions' = Delete(sessions, s)
  /\ Revoke({s}, "session_logout")
  /\ UNCHANGED <<now, lastSession, gate, health>>

\* relay.close() revokes every session that has a registered request.
Shutdown ==
  LET ids == {s \in DOMAIN activeBySession : activeBySession[s] # None}
  IN  /\ ids # {}
      /\ sessions' = DeleteAll(sessions, ids)
      /\ Revoke(ids, "server_shutdown")
      /\ UNCHANGED <<now, lastSession, gate, health>>

\* The handler returns; what it held locally is gone.
Ends(r) == [chat EXCEPT ![r] = [Fresh EXCEPT !.phase = "done"]]

\* requireSession() succeeds and the handler starts to read the body.
StartChat(r, s) ==
  /\ chat[r].phase = "idle"
  /\ now <= LastStart
  /\ s \in Ids(sessions)
  /\ ~Expired(sessions.entries[s], now)
  /\ chat' = [chat EXCEPT ![r] = [Fresh EXCEPT
       !.phase = "reading", !.session = s,
       !.wallet = sessions.entries[s].address, !.expiresAt = sessions.entries[s].expiresAt]]
  /\ UNCHANGED <<now, auth, gate, activeBySession, health>>

\* requireSession() finds the session expired and forgets it.
StartRefused(r, s) ==
  /\ chat[r].phase = "idle"
  /\ now <= LastStart
  /\ s \in Ids(sessions)
  /\ Expired(sessions.entries[s], now)
  /\ sessions' = Delete(sessions, s)
  /\ chat' = Ends(r)
  /\ UNCHANGED <<now, lastSession, gate, activeBySession, health>>
-----------------------------------------------------------------------------
ReadFails(r) ==
  /\ chat[r].phase = "reading"
  /\ chat' = Ends(r)
  /\ UNCHANGED <<now, auth, gate, activeBySession, health>>

AtCapacity(w) == gate.identity[w] >= MaxIdentity \/ gate.provider >= MaxProvider

Acquired(w) == [provider |-> gate.provider + 1, identity |-> [gate.identity EXCEPT ![w] = @ + 1]]

\* Faulty variant of Released: the wallet's count is not given back.
ReleasesProviderOnly(w) == [gate EXCEPT !.provider = Greatest(0, @ - 1)]

Released(w) ==
  [provider |-> Greatest(0, gate.provider - 1),
   identity |-> [gate.identity EXCEPT ![w] = Greatest(0, @ - 1)]]

\* The body is read and valid: take a slot and ask the ledger.
BodyRead(r) ==
  /\ chat[r].phase = "reading"
  /\ ~AtCapacity(chat[r].wallet)
  /\ gate' = Acquired(chat[r].wallet)
  /\ chat' = [chat EXCEPT ![r].phase = "reserving"]
  /\ UNCHANGED <<now, auth, activeBySession, health>>

GateRefuses(r) ==
  /\ chat[r].phase = "reading"
  /\ AtCapacity(chat[r].wallet)
  /\ chat' = Ends(r)
  /\ UNCHANGED <<now, auth, gate, activeBySession, health>>

\* reserve() rejects: a quota is exhausted, or the write has failed.
ReserveFails(r, healthy) ==
  /\ chat[r].phase = "reserving"
  /\ accountingHealthy' = healthy
  /\ healthy \in {accountingHealthy, FALSE}
  /\ gate' = Released(chat[r].wallet)
  /\ chat' = Ends(r)
  /\ UNCHANGED <<now, auth, activeBySession, readinessDiscarded>>

\* What is left of the session, never less than one.
UntilExpiry(r) == Greatest(1, chat[r].expiresAt - now)

\* Faulty variant of ConnectDeadline: no connect timer is started.
NoConnectDeadline(r) == 0

ConnectDeadline(r) == now + Least(ConnectTimeout, UntilExpiry(r))

\* Whether the connect timer stands for the end of the session is decided when it is set.
ConnectReason(r) ==
  IF UntilExpiry(r) <= ConnectTimeout THEN "session_expired" ELSE "upstream_connect_timeout"

\* Faulty variant of StreamDeadline: the remaining life of the session is not considered.
StreamDeadlineFixed(r) == now + StreamTimeout

StreamDeadline(r) == now + Least(StreamTimeout, UntilExpiry(r))

\* reserve() has resolved: the handler becomes reachable for revocations and for
\* its client's close, starts the connect timer and calls the upstream.
Reserved(r) ==
  LET s == chat[r].session
      set == IF activeBySession[s] = None THEN r ELSE activeBySession[s]
  IN  /\ chat[r].phase = "reserving"
      /\ accountingHealthy' = TRUE
      /\ activeBySession' = [activeBySession EXCEPT ![s] = set]
      /\ chat' = [chat EXCEPT ![r].phase = "connecting", ![r].set = set,
                              ![r].listening = TRUE, ![r].deadline = ConnectDeadline(r),
                              ![r].connectReason = ConnectReason(r)]
      /\ UNCHANGED <<now, auth, gate, readinessDiscarded>>
-----------------------------------------------------------------------------
\* unregisterActive(): the entry of the map goes with the last request of the Set.
Unregistered(r) ==
  LET others == {q \in Requests \ {r} : chat[q].set = chat[r].set}
  IN  IF chat[r].set # None /\ others = {}
      THEN [activeBySession EXCEPT ![chat[r].session] = None]
      ELSE activeBySession

\* The end of the try block or the catch block, which answers the client if it is
\* still there, and the finally block up to the settlement, which is due when the
\* upstream has reported its usage.
Finally(r, usage) ==
  /\ chat' = IF usage THEN [chat EXCEPT ![r] = [Fresh EXCEPT !.phase = "settling"]] ELSE Ends(r)
  /\ activeBySession' = Unregistered(r)
  /\ gate' = Released(chat[r].wallet)

Throws(r) ==
  /\ Finally(r, FALSE)
  /\ UNCHANGED <<now, auth, health>>

\* fetch() or the iteration of the body rejects once the signal is aborted.
AbortNoticed(r) ==
  /\ chat[r].phase \in {"connecting", "streaming"}
  /\ chat[r].aborted
  /\ Throws(r)

UpstreamFails(r) ==
  /\ chat[r].phase \in {"connecting", "streaming"}
  /\ ~chat[r].aborted
  /\ Throws(r)

\* The upstream refuses; a 402 discards the readiness verdict.  The body is
\* cancelled before the answer is sent.
UpstreamRefuses(r) ==
  /\ chat[r].phase = "connecting"
  /\ ~chat[r].aborted
  /\ chat' = [chat EXCEPT ![r].phase = "cancelling", ![r].deadline = 0]
  /\ UNCHANGED <<now, auth, gate, activeBySession, health>>

Cancelled(r, unpaid) ==
  /\ chat[r].phase = "cancelling"
  /\ Finally(r, FALSE)
  /\ readinessDiscarded' = (readinessDiscarded \/ unpaid)
  /\ UNCHANGED <<now, auth, accountingHealthy>>

UpstreamAnswers(r) ==
  /\ chat[r].phase = "connecting"
  /\ ~chat[r].aborted
  /\ chat' = [chat EXCEPT ![r].phase = "streaming", ![r].deadline = StreamDeadline(r)]
  /\ UNCHANGED <<now, auth, gate, activeBySession, health>>

\* A chunk that the client's socket does not take at once.  A response whose
\* client is gone never takes one.
WriteBlocks(r) ==
  /\ chat[r].phase = "streaming"
  /\ ~chat[r].aborted
  /\ chat' = [chat EXCEPT ![r].phase = "draining"]
  /\ UNCHANGED <<now, auth, gate, activeBySession, health>>

TooLarge(r) ==
  /\ chat[r].phase = "streaming"
  /\ ~chat[r].aborted
  /\ Finally(r, FALSE)
  /\ UNCHANGED <<now, auth, health>>

Drained(r) ==
  /\ chat[r].phase = "draining"
  /\ ~chat[r].gone
  /\ chat' = [chat EXCEPT ![r].phase = "streaming"]
  /\ UNCHANGED <<now, auth, gate, activeBySession, health>>

\* The whole body has arrived: an abort cannot fail its iteration any more.
BodyReceived(r) ==
  /\ chat[r].phase \in {"streaming", "draining"}
  /\ ~chat[r].aborted
  /\ ~chat[r].received
  /\ chat' = [chat EXCEPT ![r].received = TRUE]
  /\ UNCHANGED <<now, auth, gate, activeBySession, health>>

BodyEnds(r, usage) ==
  /\ chat[r].phase = "streaming"
  /\ chat[r].received
  /\ Finally(r, usage)
  /\ UNCHANGED <<now, auth, health>>

Settled(r, healthy) ==
  /\ chat[r].phase = "settling"
  /\ healthy \in {accountingHealthy, FALSE}
  /\ accountingHealthy' = healthy
  /\ chat' = Ends(r)
  /\ UNCHANGED <<now, auth, gate, activeBySession, readinessDiscarded>>
-----------------------------------------------------------------------------
\* The client goes away.  A handler that awaits a drain is woken by it; one that
\* listens aborts its upstream call; one that does neither yet learns nothing.
ClientCloses(r) ==
  /\ chat[r].phase \in {"reading"} \cup Holding
  /\ ~chat[r].gone
  /\ IF chat[r].phase = "draining"
     THEN Finally(r, FALSE)
     ELSE /\ chat' = [chat EXCEPT ![r] =
                        [IF chat[r].listening THEN Abort(@, "client_abort") ELSE @ EXCEPT !.gone = TRUE]]
          /\ UNCHANGED <<gate, activeBySession>>
  /\ UNCHANGED <<now, auth, health>>

Due(r) == chat[r].deadline # 0 /\ now >= chat[r].deadline

StreamReason(r) == IF chat[r].expiresAt <= now THEN "session_expired" ELSE "stream_timeout"

\* connectTimer or streamTimer fires.
DeadlinePasses(r) ==
  /\ Due(r)
  /\ chat' = [chat EXCEPT ![r] = [Abort(@, IF chat[r].phase = "connecting"
                                           THEN chat[r].connectReason ELSE StreamReason(r))
                                  EXCEPT !.deadline = 0]]
  /\ UNCHANGED <<now, auth, gate, activeBySession, health>>

\* Timers that are due run within the unit of time.
Tick ==
  /\ now < LastTime
  /\ now < LastReserve \/ \A r \in Requests : chat[r].phase \notin {"reading", "reserving"}
  /\ \A r \in Requests : ~Due(r)
  /\ now' = now + 1
  /\ UNCHANGED <<auth, chat, gate, activeBySession, health>>

\* An abort rejects the promise its handler awaits at once: the handler runs before
\* any other event.
AbortPending == \E r \in Requests : chat[r].phase \in {"connecting", "streaming"} /\ chat[r].aborted

\* The steps the relay itself owes: continuations of settled promises and timers.
Continues(r) ==
  \/ AbortNoticed(r)
  \/ /\ ~AbortPending
     /\ \/ ReadFails(r) \/ BodyRead(r) \/ GateRefuses(r)
        \/ \E h \in BOOLEAN : ReserveFails(r, h) \/ Settled(r, h)
        \/ Reserved(r)
        \/ \E unpaid \in BOOLEAN : Cancelled(r, unpaid)
        \/ DeadlinePasses(r)

\* The steps others may or may not take.
Environment(r) ==
  /\ ~AbortPending
  /\ \/ \E s \in 1..lastSession : StartChat(r, s) \/ StartRefused(r, s)
     \/ UpstreamFails(r) \/ UpstreamRefuses(r) \/ UpstreamAnswers(r)
     \/ WriteBlocks(r) \/ TooLarge(r) \/ BodyReceived(r)
     \/ ClientCloses(r)
     \/ Drained(r)

Sessions ==
  /\ ~AbortPending
  /\ \/ Shutdown
     \/ \E w \in Wallets : Login(w)
     \/ \E s \in 1..lastSession : Logout(s)

Next ==
  \/ ~AbortPending /\ Tick
  \/ Sessions
  \/ \E r \in Requests :
       Continues(r) \/ Environment(r) \/ \E usage \in BOOLEAN : BodyEnds(r, usage)

Spec == Init /\ [][Next]_vars

\* Timers and promise continuations run; the clock advances.
FairSpec == Spec /\ WF_vars(~AbortPending /\ Tick) /\ \A r \in Requests : WF_vars(Continues(r))

\* ... and a client that stays connected reads what it is sent.
ReadingSpec == FairSpec /\ \A r \in Requests : WF_vars(~AbortPending /\ Drained(r))
-----------------------------------------------------------------------------
Phases == {"idle", "reading", "settling", "done"} \cup Holding

Reasons == {"upstream_error", "client_abort", "session_expired", "upstream_connect_timeout",
            "stream_timeout", "session_replaced", "session_logout", "server_shutdown"}

ChatRecord ==
  [phase : Phases, session : 0..Logins, wallet : Wallets \cup {None}, expiresAt : Nat,
   set : Requests \cup {None}, listening : BOOLEAN, aborted : BOOLEAN, reason : Reasons,
   deadline : Nat, connectReason : Reasons \cup {"none"}, received : BOOLEAN, gone : BOOLEAN]

\* The state of the relay's sessions, handlers, gate and registrations.
TypeOK ==
  /\ now \in 0..LastTime
  /\ lastSession \in 0..Logins
  /\ Ids(sessions) \subseteq 1..lastSession
  /\ \A s \in Ids(sessions) : sessions.entries[s] \in [address : Wallets, expiresAt : Nat]
  /\ chat \in [Requests -> ChatRecord]
  /\ gate \in [provider : Nat, identity : [Wallets -> Nat]]
  /\ activeBySession \in [1..Logins -> Requests \cup {None}]
  /\ accountingHealthy \in BOOLEAN
  /\ readinessDiscarded \in BOOLEAN

\* Whatever way a request ends (answered, refused, aborted, timed out, cut off while
\* it waits for a drain), its slot is given back exactly once and nothing else takes
\* or returns one: the gate counts the requests between acquire() and finally, per
\* wallet and in all, and stays within both limits.
GateCountsRunning ==
  LET running(S) == Cardinality({r \in Requests : chat[r].phase \in Holding /\ chat[r].wallet \in S})
  IN  /\ TypeOK
      /\ gate.provider = running(Wallets)
      /\ gate.provider <= MaxProvider
      /\ \A w \in Wallets : gate.identity[w] = running({w}) /\ gate.identity[w] <= MaxIdentity

\* A step that removes a live session (logout, replacement, capacity, shutdown)
\* aborts every upstream call that runs for it.
RevocationAborts ==
  [][\A s \in Ids(sessions) \ Ids(sessions') :
       ~Expired(sessions.entries[s], now) =>
         \A r \in Requests :
           (chat[r].phase \in Upstream /\ chat[r].session = s) => chat'[r].aborted]_vars

\* An upstream call runs under a timer that is not overdue, and a timer never lasts
\* beyond the expiry of the session, or one unit when the session expired while the
\* request was in the ledger or connecting.
UpstreamEndsWithSession ==
  /\ [](\A r \in Requests :
          (chat[r].phase \in {"connecting", "streaming"} /\ ~chat[r].aborted) => now <= chat[r].deadline)
  /\ [][\A r \in Requests :
          chat'[r].deadline <= Greatest(chat[r].deadline, Greatest(chat[r].expiresAt, now + 1))]_vars

\* No upstream call outlives the session it runs for: a removal aborts it, an expiry
\* ends it.
StreamsEndWithSession == RevocationAborts /\ UpstreamEndsWithSession

Stranded(r) == chat[r].phase = "draining" /\ chat[r].gone

\* If clients read what they are sent, every request ends, whatever the upstream does,
\* except one whose client left before the relay listened for its close and which then
\* waits for a drain.
RequestsEnd ==
  \A r \in Requests : chat[r].phase = "reading" ~> (chat[r].phase = "done" \/ Stranded(r))

\* Stated by the documentation: active streams are aborted on logout and replacement.
ActiveStreamsAborted ==
  \A r \in Requests :
    /\ chat[r].phase \in {"connecting", "streaming"}
    /\ chat[r].session \notin Ids(sessions)
    /\ now < chat[r].expiresAt
    => chat[r].aborted

=============================================================================
