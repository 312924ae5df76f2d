-------------------------- MODULE RelayChatProofs --------------------------
(***************************************************************************)
(* The gate counts the running requests, and no upstream call outlives its *)
(* session, for any number of wallets, requests and sessions and for all   *)
(* timeouts and limits.  The reason for the second is the registration: a  *)
(* handler that calls the upstream for a session that is still stored is   *)
(* a member of the Set that the map holds for that session.                *)
(***************************************************************************)
EXTENDS RelayChat, FiniteSetTheorems, TLAPS

Running(S) == {r \in Requests : chat[r].phase \in Holding /\ chat[r].wallet \in S}

\* What the local variables of a handler in state c are worth in each phase: who
\* called, that the upstream is called from within a Set, and under a timer.
Coherent(c) ==
  /\ c.phase \in {"reading"} \cup Holding => c.wallet \in Wallets /\ c.session \in 1..lastSession
  /\ c.phase \in Upstream <=> c.set # None
  /\ c.phase = "connecting" => c.connectReason # "none"
  /\ c.phase \in {"connecting", "streaming", "draining"} /\ ~c.aborted
       => c.deadline # 0 /\ now <= c.deadline

HandlersCoherent == \A r \in Requests : Coherent(chat[r])

\* A revocation of a stored session reaches all the requests that run for it.
Registered ==
  \A r \in Requests : chat[r].set # None /\ chat[r].session \in Ids(sessions)
                        => activeBySession[chat[r].session] = chat[r].set

GateCounts ==
  /\ IsFiniteSet(Running(Wallets))
  /\ gate.provider = Cardinality(Running(Wallets)) /\ gate.provider <= MaxProvider
  /\ \A w \in Wallets : gate.identity[w] = Cardinality(Running({w})) /\ gate.identity[w] <= MaxIdentity

HandlersTyped == TypeOK /\ HandlersCoherent

ChatInv == HandlersTyped /\ Registered /\ GateCounts

HealthTyped == accountingHealthy \in BOOLEAN /\ readinessDiscarded \in BOOLEAN

-----------------------------------------------------------------------------
\* A record of a handler in its first and last phase.
LEMMA FreshTypes ==
  ASSUME NEW p \in {"idle", "settling", "done"}
  PROVE  /\ Fresh \in ChatRecord /\ [Fresh EXCEPT !.phase = p] \in ChatRecord
         /\ [Fresh EXCEPT !.phase = p].phase = p /\ [Fresh EXCEPT !.phase = p].set = None
         /\ Coherent([Fresh EXCEPT !.phase = p]) /\ Coherent(Fresh)
<1>1. Fresh \in ChatRecord
  BY ConfigAssumption DEF Fresh, ChatRecord, Phases, Reasons
<1>2. p \in Phases /\ p \notin Holding /\ p \notin Upstream /\ p # "reading"
  BY DEF Phases, Holding, Upstream
<1>3. [Fresh EXCEPT !.phase = p] \in ChatRecord
  BY <1>1, <1>2 DEF ChatRecord
<1>4. /\ Fresh.phase = "idle" /\ Fresh.set = None
      /\ [Fresh EXCEPT !.phase = p].phase = p /\ [Fresh EXCEPT !.phase = p].set = None
  BY DEF Fresh
<1>5. Coherent([Fresh EXCEPT !.phase = p]) /\ Coherent(Fresh)
  BY <1>2, <1>4 DEF Coherent, Holding, Upstream
<1>6. QED
  BY <1>1, <1>3, <1>4, <1>5

LEMMA Recorded ==
  ASSUME HandlersTyped, NEW r \in Requests
  PROVE  chat[r] \in ChatRecord /\ Coherent(chat[r])
BY DEF HandlersTyped, TypeOK, HandlersCoherent

\* One handler moves to a coherent state while the clock and the sessions stand still.
LEMMA MoveTyped ==
  ASSUME HandlersTyped, NEW r \in Requests, NEW new \in ChatRecord, Coherent(new),
         chat' = [chat EXCEPT ![r] = new], UNCHANGED <<now, lastSession>>,
         Ids(sessions') \subseteq Ids(sessions),
         \A s \in Ids(sessions') : sessions'.entries[s] = sessions.entries[s],
         gate' \in [provider : Nat, identity : [Wallets -> Nat]],
         activeBySession' \in [1..Logins -> Requests \cup {None}], HealthTyped'
  PROVE  HandlersTyped' /\ chat'[r] = new /\ \A q \in Requests \ {r} : chat'[q] = chat[q]
<1>1. chat'[r] = new /\ \A q \in Requests \ {r} : chat'[q] = chat[q]
  BY DEF HandlersTyped, TypeOK
<1>2. TypeOK'
  <2>1. chat' \in [Requests -> ChatRecord]
    BY DEF HandlersTyped, TypeOK
  <2>2. now' \in 0..LastTime /\ lastSession' \in 0..Logins
    BY DEF HandlersTyped, TypeOK, LastTime, LastReserve
  <2>3. /\ Ids(sessions') \subseteq 1..lastSession'
        /\ \A s \in Ids(sessions') : sessions'.entries[s] \in [address : Wallets, expiresAt : Nat]
    BY DEF HandlersTyped, TypeOK
  <2>4. QED
    BY <2>1, <2>2, <2>3 DEF TypeOK, HealthTyped
<1>3. HandlersCoherent'
  BY <1>1 DEF HandlersTyped, HandlersCoherent, Coherent
<1>4. QED
  BY <1>1, <1>2, <1>3 DEF HandlersTyped

-----------------------------------------------------------------------------
LEMMA GateTyped ==
  ASSUME HandlersTyped, NEW w \in Wallets
  PROVE  /\ Acquired(w) \in [provider : Nat, identity : [Wallets -> Nat]]
         /\ Released(w) \in [provider : Nat, identity : [Wallets -> Nat]]
<1>1. gate.provider \in Nat /\ gate.identity \in [Wallets -> Nat]
  BY DEF HandlersTyped, TypeOK
<1>2. \A n \in Nat : Greatest(0, n - 1) \in Nat
  BY DEF Greatest
<1>3. /\ [gate.identity EXCEPT ![w] = gate.identity[w] + 1] \in [Wallets -> Nat]
      /\ [gate.identity EXCEPT ![w] = Greatest(0, @ - 1)] \in [Wallets -> Nat]
  BY <1>1, <1>2
<1>4. QED
  BY <1>1, <1>2, <1>3 DEF Acquired, Released

\* The gate, counted.
LEMMA RunningIn ==
  ASSUME GateCounts, NEW S \in SUBSET Wallets
  PROVE  /\ IsFiniteSet(Running(S)) /\ Cardinality(Running(S)) \in Nat
         /\ Cardinality(Running(S)) <= Cardinality(Running(Wallets))
<1>1. Running(S) \subseteq Running(Wallets)
  BY DEF Running
<1>2. QED
  BY <1>1, FS_Subset, FS_CardinalityType DEF GateCounts

\* A step that neither starts nor ends a running request leaves the count.
LEMMA GateKept ==
  ASSUME GateCounts, UNCHANGED gate,
         \A r \in Requests : /\ chat'[r].phase \in Holding <=> chat[r].phase \in Holding
                             /\ chat[r].phase \in Holding => chat'[r].wallet = chat[r].wallet
  PROVE  GateCounts'
<1>1. \A S : Running(S)' = Running(S)
  BY DEF Running
<1>2. QED
  BY <1>1 DEF GateCounts

\* acquire() adds the request that starts, for its wallet and in all.
LEMMA GateTaken ==
  ASSUME HandlersTyped, GateCounts, NEW r \in Requests,
         chat[r].phase \notin Holding, chat[r].wallet \in Wallets, ~AtCapacity(chat[r].wallet),
         chat'[r].phase \in Holding, chat'[r].wallet = chat[r].wallet,
         \A q \in Requests \ {r} : chat'[q] = chat[q],
         gate' = Acquired(chat[r].wallet)
  PROVE  GateCounts'
<1> DEFINE v == chat[r].wallet
<1>1. \A S : Running(S)' = IF v \in S THEN Running(S) \cup {r} ELSE Running(S)
  BY DEF Running
<1>2. \A S : r \notin Running(S)
  BY DEF Running
<1>3. \A w \in Wallets : IsFiniteSet(Running({w})) /\ Cardinality(Running({w})) \in Nat
  BY RunningIn
<1>4. /\ IsFiniteSet(Running(Wallets)')
      /\ Cardinality(Running(Wallets)') = Cardinality(Running(Wallets)) + 1
  BY <1>1, <1>2, FS_AddElement DEF GateCounts
<1>5. \A w \in Wallets :
        Cardinality(Running({w})') = IF w = v THEN Cardinality(Running({w})) + 1 ELSE Cardinality(Running({w}))
  BY <1>1, <1>2, <1>3, FS_AddElement
<1>6. gate \in [provider : Nat, identity : [Wallets -> Nat]]
  BY DEF HandlersTyped, TypeOK
<1>7. /\ gate'.provider = gate.provider + 1 /\ gate.provider < MaxProvider
      /\ gate.identity[v] < MaxIdentity
      /\ \A w \in Wallets : gate'.identity[w] = IF w = v THEN gate.identity[w] + 1 ELSE gate.identity[w]
  BY <1>6, ConfigAssumption DEF Acquired, AtCapacity
<1> HIDE DEF v
<1>8. QED
  BY <1>3, <1>4, <1>5, <1>6, <1>7, ConfigAssumption DEF GateCounts

\* The release in the finally block takes the request that ends away; neither
\* count is at its floor then.
LEMMA GateGiven ==
  ASSUME HandlersTyped, GateCounts, NEW r \in Requests,
         chat[r].phase \in Holding, chat[r].wallet \in Wallets, chat'[r].phase \notin Holding,
         \A q \in Requests \ {r} : chat'[q] = chat[q],
         gate' = Released(chat[r].wallet)
  PROVE  GateCounts'
<1> DEFINE v == chat[r].wallet
<1>1. \A S : Running(S)' = IF v \in S THEN Running(S) \ {r} ELSE Running(S)
  BY DEF Running
<1>2. \A S : v \in S => r \in Running(S)
  BY DEF Running
<1>3. \A w \in Wallets : IsFiniteSet(Running({w})) /\ Cardinality(Running({w})) \in Nat
  BY RunningIn
<1>4. /\ IsFiniteSet(Running(Wallets)')
      /\ Cardinality(Running(Wallets)') = Cardinality(Running(Wallets)) - 1
  BY <1>1, <1>2, FS_RemoveElement DEF GateCounts
<1>5. \A w \in Wallets :
        Cardinality(Running({w})') = IF w = v THEN Cardinality(Running({w})) - 1 ELSE Cardinality(Running({w}))
  BY <1>1, <1>2, <1>3, FS_RemoveElement
<1>6. Cardinality(Running({v})) # 0 /\ Cardinality(Running(Wallets)) # 0
  BY <1>2, <1>3, FS_EmptySet DEF GateCounts
<1>7. gate \in [provider : Nat, identity : [Wallets -> Nat]]
  BY DEF HandlersTyped, TypeOK
<1>8. gate.provider # 0 /\ gate.identity[v] # 0
  BY <1>6 DEF GateCounts
<1>9. /\ gate'.provider = gate.provider - 1
      /\ \A w \in Wallets : gate'.identity[w] = IF w = v THEN gate.identity[w] - 1 ELSE gate.identity[w]
  BY <1>7, <1>8 DEF Released, Greatest
<1> HIDE DEF v
<1>10. QED
  BY <1>3, <1>4, <1>5, <1>7, <1>9, ConfigAssumption DEF GateCounts

-----------------------------------------------------------------------------
\* A step that keeps gate and map, and moves a handler within its Set or within none.
LEMMA QuietStep ==
  ASSUME ChatInv, NEW r \in Requests, NEW new \in ChatRecord, Coherent(new),
         chat' = [chat EXCEPT ![r] = new], UNCHANGED <<now, lastSession, gate, activeBySession>>,
         Ids(sessions') \subseteq Ids(sessions),
         \A s \in Ids(sessions') : sessions'.entries[s] = sessions.entries[s],
         HealthTyped',
         new.phase \in Holding <=> chat[r].phase \in Holding,
         chat[r].phase \in Holding => new.wallet = chat[r].wallet,
         new.set = chat[r].set, new.session = chat[r].session \/ new.set = None
  PROVE  ChatInv'
<1>1. /\ HandlersTyped' /\ chat'[r] = new
      /\ \A q \in Requests \ {r} : chat'[q] = chat[q]
  BY MoveTyped DEF ChatInv, HandlersTyped, TypeOK
<1>2. Registered'
  BY <1>1 DEF ChatInv, Registered
<1>3. GateCounts'
  BY <1>1, GateKept DEF ChatInv
<1>4. QED
  BY <1>1, <1>2, <1>3 DEF ChatInv

\* Revoking the sessions that a step removes: their requests are aborted, and the
\* sessions that stay keep their Sets.
LEMMA RevokeStep ==
  ASSUME ChatInv, NEW ids, NEW reason \in Reasons, Revoke(ids, reason),
         UNCHANGED <<now, gate, health>>,
         lastSession' \in 0..Logins, lastSession <= lastSession', Ids(sessions') \subseteq 1..lastSession',
         \A s \in Ids(sessions') : /\ s \in Ids(sessions) \ ids \/ s > lastSession
                                  /\ sessions'.entries[s] \in [address : Wallets, expiresAt : Nat]
  PROVE  ChatInv'
<1>1. \A r \in Requests : chat[r] \in ChatRecord /\ Coherent(chat[r])
  BY Recorded DEF ChatInv
<1>2. /\ chat' = [r \in Requests |-> IF r \in Reached(ids) THEN Abort(chat[r], reason) ELSE chat[r]]
      /\ activeBySession' = [s \in 1..Logins |-> IF s \in ids THEN None ELSE activeBySession[s]]
  BY DEF Revoke, ChatInv, HandlersTyped, TypeOK
<1>3. \A r \in Requests :
        /\ Abort(chat[r], reason) \in ChatRecord
        /\ Abort(chat[r], reason).phase = chat[r].phase /\ Abort(chat[r], reason).wallet = chat[r].wallet
        /\ Abort(chat[r], reason).session = chat[r].session /\ Abort(chat[r], reason).set = chat[r].set
        /\ Abort(chat[r], reason).connectReason = chat[r].connectReason
        /\ Abort(chat[r], reason).aborted
  BY ZenonT(40), <1>1 DEF Abort, ChatRecord
<1>4. \A r \in Requests :
        /\ chat'[r] \in ChatRecord
        /\ chat'[r].phase = chat[r].phase /\ chat'[r].wallet = chat[r].wallet
        /\ chat'[r].session = chat[r].session /\ chat'[r].set = chat[r].set
        /\ chat'[r].connectReason = chat[r].connectReason
        /\ chat'[r].aborted \/ chat'[r] = chat[r]
  BY <1>1, <1>2, <1>3
<1>5. lastSession \in 0..Logins /\ lastSession' \in 0..Logins
  BY DEF ChatInv, HandlersTyped, TypeOK
<1>6. TypeOK'
  <2>1. chat' \in [Requests -> ChatRecord]
    BY <1>2, <1>4
  <2>2. activeBySession' \in [1..Logins -> Requests \cup {None}]
    BY <1>2 DEF ChatInv, HandlersTyped, TypeOK
  <2>3. now' \in 0..LastTime
    BY DEF ChatInv, HandlersTyped, TypeOK, LastTime, LastReserve
  <2>4. QED
    BY <1>5, <2>1, <2>2, <2>3 DEF ChatInv, HandlersTyped, TypeOK, health
<1>7. HandlersCoherent'
  <2>1. SUFFICES ASSUME NEW r \in Requests PROVE Coherent(chat[r])'
    BY DEF HandlersCoherent
  <2>2. chat[r].session \in 1..lastSession => chat'[r].session \in 1..lastSession'
    BY <1>4, <1>5
  <2>3. QED
    BY <1>1, <1>4, <2>2 DEF Coherent
<1>8. Registered'
  <2>1. SUFFICES ASSUME NEW r \in Requests, chat'[r].set # None, chat'[r].session \in Ids(sessions')
                 PROVE  activeBySession'[chat'[r].session] = chat'[r].set
    BY DEF Registered
  <2>2. chat[r].session \in 1..lastSession
    BY <1>1, <1>4, <2>1 DEF Coherent, Holding
  <2>3. chat[r].session \in Ids(sessions) \ ids /\ chat[r].session \in 1..Logins
    BY <1>4, <1>5, <2>1, <2>2, ConfigAssumption
  <2>4. QED
    BY <1>2, <1>4, <2>1, <2>3 DEF ChatInv, Registered
<1>9. GateCounts'
  BY <1>4, GateKept DEF ChatInv
<1>10. QED
  BY <1>6, <1>7, <1>8, <1>9 DEF ChatInv, HandlersTyped

\* The finally block of a handler that calls the upstream: the map loses its Set
\* only with the last member.
LEMMA FinallyStep ==
  ASSUME ChatInv, NEW r \in Requests, NEW usage \in BOOLEAN, chat[r].phase \in Upstream,
         Finally(r, usage), UNCHANGED <<now, auth>>, HealthTyped'
  PROVE  ChatInv'
<1> DEFINE new == IF usage THEN [Fresh EXCEPT !.phase = "settling"] ELSE [Fresh EXCEPT !.phase = "done"]
<1>1. chat[r] \in ChatRecord /\ Coherent(chat[r])
  BY Recorded DEF ChatInv
<1>2. /\ new \in ChatRecord /\ Coherent(new) /\ new.set = None
      /\ new.phase \in {"settling", "done"}
  BY FreshTypes
<1>3. chat' = [chat EXCEPT ![r] = new]
  BY DEF Finally, Ends
<1> HIDE DEF new
<1>4. chat[r].wallet \in Wallets /\ chat[r].session \in 1..lastSession /\ chat[r].set # None
  BY <1>1 DEF Coherent, Holding
<1>5. chat[r].phase \in Holding /\ new.phase \notin Holding
  BY <1>2 DEF Holding, Upstream
<1>6. gate' = Released(chat[r].wallet) /\ activeBySession' = Unregistered(r)
  BY DEF Finally
<1>7. gate' \in [provider : Nat, identity : [Wallets -> Nat]]
  BY <1>4, <1>6, GateTyped DEF ChatInv
<1>8. activeBySession' \in [1..Logins -> Requests \cup {None}]
  BY <1>6 DEF Unregistered, ChatInv, HandlersTyped, TypeOK
<1>9. /\ HandlersTyped' /\ chat'[r] = new
      /\ \A q \in Requests \ {r} : chat'[q] = chat[q]
  BY <1>2, <1>3, <1>7, <1>8, MoveTyped DEF ChatInv, auth
<1>10. GateCounts'
  BY <1>4, <1>5, <1>6, <1>9, GateGiven DEF ChatInv
<1>11. Registered'
  <2>1. SUFFICES ASSUME NEW q \in Requests, chat'[q].set # None, chat'[q].session \in Ids(sessions)
                 PROVE  activeBySession'[chat'[q].session] = chat'[q].set
    BY DEF Registered, auth
  <2>2. q # r /\ chat'[q] = chat[q]
    BY <1>2, <1>9, <2>1
  <2>3. activeBySession[chat[q].session] = chat[q].set
    BY <2>1, <2>2 DEF ChatInv, Registered
  <2>4. chat[q].session = chat[r].session => chat[q].set = chat[r].set
    BY <1>4, <2>1, <2>2, <2>3 DEF ChatInv, Registered
  <2>5. Unregistered(r)[chat[q].session] = activeBySession[chat[q].session]
    BY <2>2, <2>4 DEF Unregistered, ChatInv, HandlersTyped, TypeOK
  <2>6. QED
    BY <1>6, <2>2, <2>3, <2>5
<1>12. QED
  BY <1>9, <1>10, <1>11 DEF ChatInv

\* A handler that holds no slot returns.
LEMMA EndsStep ==
  ASSUME ChatInv, NEW r \in Requests, chat[r].phase \in {"idle", "reading", "settling"},
         chat' = Ends(r), UNCHANGED <<now, lastSession, gate, activeBySession>>,
         Ids(sessions') \subseteq Ids(sessions),
         \A s \in Ids(sessions') : sessions'.entries[s] = sessions.entries[s],
         HealthTyped'
  PROVE  ChatInv'
<1> DEFINE new == [Fresh EXCEPT !.phase = "done"]
<1>1. new \in ChatRecord /\ Coherent(new) /\ new.set = None /\ new.phase = "done"
  BY FreshTypes
<1>2. chat' = [chat EXCEPT ![r] = new]
  BY DEF Ends
<1> HIDE DEF new
<1>3. chat[r].set = None /\ chat[r].phase \notin Holding /\ new.phase \notin Holding
  BY <1>1, Recorded DEF ChatInv, Coherent, Upstream, Holding
<1>4. QED
  BY <1>1, <1>2, <1>3, QuietStep

LEMMA Starts ==
  ASSUME ChatInv, NEW r \in Requests, NEW s \in 1..lastSession, StartChat(r, s) \/ StartRefused(r, s)
  PROVE  ChatInv'
<1>1. CASE StartChat(r, s)
  <2> DEFINE e == sessions.entries[s]
             new == [Fresh EXCEPT !.phase = "reading", !.session = s,
                                  !.wallet = e.address, !.expiresAt = e.expiresAt]
  <2>1. /\ Fresh \in ChatRecord /\ Fresh.set = None /\ s \in 0..Logins
        /\ e.address \in Wallets /\ e.expiresAt \in Nat
    <3>1. s \in Ids(sessions) /\ lastSession \in 0..Logins
      BY <1>1 DEF StartChat, ChatInv, HandlersTyped, TypeOK
    <3>2. e \in [address : Wallets, expiresAt : Nat]
      BY <3>1 DEF ChatInv, HandlersTyped, TypeOK
    <3>3. QED
      BY <3>1, <3>2, FreshTypes, ConfigAssumption DEF Fresh
  <2>2. /\ new \in ChatRecord /\ new.phase = "reading" /\ new.session = s /\ new.wallet = e.address
        /\ new.set = None
    BY <2>1 DEF ChatRecord, Phases
  <2>3. Coherent(new)
    BY <2>1, <2>2 DEF Coherent, Holding, Upstream
  <2>4. chat' = [chat EXCEPT ![r] = new] /\ UNCHANGED <<now, auth, gate, activeBySession, health>>
    BY <1>1 DEF StartChat
  <2> HIDE DEF new
  <2>5. chat[r].set = None /\ chat[r].phase \notin Holding /\ new.phase \notin Holding
    BY <1>1, <2>2, Recorded DEF StartChat, ChatInv, Coherent, Upstream, Holding
  <2>6. HealthTyped'
    BY <2>4 DEF HealthTyped, health, ChatInv, HandlersTyped, TypeOK
  <2>7. QED
    BY <2>2, <2>3, <2>4, <2>5, <2>6, QuietStep DEF auth
<1>2. CASE StartRefused(r, s)
  <2>1. HealthTyped'
    BY <1>2 DEF StartRefused, HealthTyped, health, ChatInv, HandlersTyped, TypeOK
  <2>2. /\ Ids(sessions') \subseteq Ids(sessions)
        /\ \A t \in Ids(sessions') : sessions'.entries[t] = sessions.entries[t]
    BY <1>2 DEF StartRefused, Delete, DeleteAll, Without, Ids
  <2>3. QED
    BY <1>2, <2>1, <2>2, EndsStep DEF StartRefused
<1>3. QED
  BY <1>1, <1>2

\* The ways to return without a slot.
LEMMA Returns ==
  ASSUME ChatInv, NEW r \in Requests, NEW healthy \in BOOLEAN,
         ReadFails(r) \/ GateRefuses(r) \/ Settled(r, healthy)
  PROVE  ChatInv'
<1>1. HealthTyped'
  BY DEF ReadFails, GateRefuses, Settled, HealthTyped, health, ChatInv, HandlersTyped, TypeOK
<1>2. /\ chat[r].phase \in {"idle", "reading", "settling"} /\ chat' = Ends(r)
      /\ UNCHANGED <<now, auth, gate, activeBySession>>
  BY DEF ReadFails, GateRefuses, Settled
<1>3. QED
  BY <1>1, <1>2, EndsStep DEF auth

LEMMA TakesSlot ==
  ASSUME ChatInv, NEW r \in Requests, BodyRead(r)
  PROVE  ChatInv'
<1> DEFINE new == [chat[r] EXCEPT !.phase = "reserving"]
<1>1. chat[r] \in ChatRecord /\ Coherent(chat[r]) /\ chat[r].phase = "reading"
  BY Recorded DEF ChatInv, BodyRead
<1>2. /\ new \in ChatRecord /\ new.phase = "reserving" /\ new.wallet = chat[r].wallet
      /\ new.session = chat[r].session /\ new.set = chat[r].set
  BY <1>1 DEF ChatRecord, Phases, Holding
<1>3. chat[r].wallet \in Wallets /\ chat[r].set = None /\ Coherent(new)
  BY <1>1, <1>2 DEF Coherent, Holding, Upstream
<1>4. /\ chat' = [chat EXCEPT ![r] = new] /\ gate' = Acquired(chat[r].wallet)
      /\ UNCHANGED <<now, auth, activeBySession, health>>
  BY DEF BodyRead
<1> HIDE DEF new
<1>5. gate' \in [provider : Nat, identity : [Wallets -> Nat]]
  BY <1>3, <1>4, GateTyped DEF ChatInv
<1>6. HealthTyped' /\ activeBySession' \in [1..Logins -> Requests \cup {None}]
  BY <1>4 DEF HealthTyped, health, ChatInv, HandlersTyped, TypeOK
<1>7. /\ HandlersTyped' /\ chat'[r] = new
      /\ \A q \in Requests \ {r} : chat'[q] = chat[q]
  BY <1>2, <1>3, <1>4, <1>5, <1>6, MoveTyped DEF ChatInv, auth
<1>8. GateCounts'
  <2>1. chat[r].phase \notin Holding /\ chat'[r].phase \in Holding
    BY <1>1, <1>2, <1>7 DEF Holding, Upstream
  <2>2. ~AtCapacity(chat[r].wallet) /\ chat'[r].wallet = chat[r].wallet
    BY <1>2, <1>7 DEF BodyRead
  <2>3. QED
    BY <1>3, <1>4, <1>7, <2>1, <2>2, GateTaken DEF ChatInv
<1>9. Registered'
  BY <1>2, <1>4, <1>7 DEF ChatInv, Registered, auth
<1>10. QED
  BY <1>7, <1>8, <1>9 DEF ChatInv

\* The ledger refuses: the slot goes back.
LEMMA GivesBack ==
  ASSUME ChatInv, NEW r \in Requests, NEW healthy \in BOOLEAN, ReserveFails(r, healthy)
  PROVE  ChatInv'
<1> DEFINE new == [Fresh EXCEPT !.phase = "done"]
<1>1. new \in ChatRecord /\ Coherent(new) /\ new.set = None /\ new.phase = "done"
  BY FreshTypes
<1>2. /\ chat' = [chat EXCEPT ![r] = new] /\ gate' = Released(chat[r].wallet)
      /\ UNCHANGED <<now, auth, activeBySession, readinessDiscarded>>
  BY DEF ReserveFails, Ends
<1> HIDE DEF new
<1>3. chat[r] \in ChatRecord /\ Coherent(chat[r]) /\ chat[r].phase = "reserving"
  BY Recorded DEF ChatInv, ReserveFails
<1>4. chat[r].phase \in Holding /\ new.phase \notin Holding /\ chat[r].wallet \in Wallets
  BY <1>1, <1>3 DEF Coherent, Holding, Upstream
<1>5. gate' \in [provider : Nat, identity : [Wallets -> Nat]]
  BY <1>2, <1>4, GateTyped DEF ChatInv
<1>6. HealthTyped' /\ activeBySession' \in [1..Logins -> Requests \cup {None}]
  BY <1>2 DEF ReserveFails, HealthTyped, ChatInv, HandlersTyped, TypeOK
<1>7. /\ HandlersTyped' /\ chat'[r] = new
      /\ \A q \in Requests \ {r} : chat'[q] = chat[q]
  BY <1>1, <1>2, <1>5, <1>6, MoveTyped DEF ChatInv, auth
<1>8. GateCounts'
  BY <1>2, <1>4, <1>7, GateGiven DEF ChatInv
<1>9. Registered'
  BY <1>1, <1>2, <1>7 DEF ChatInv, Registered, auth
<1>10. QED
  BY <1>7, <1>8, <1>9 DEF ChatInv

\* Timers are set in the future, and not beyond the expiry of the session or one unit.
LEMMA Deadlines ==
  ASSUME HandlersTyped, NEW r \in Requests
  PROVE  /\ ConnectDeadline(r) \in Nat /\ now < ConnectDeadline(r)
         /\ StreamDeadline(r) \in Nat /\ now < StreamDeadline(r)
         /\ ConnectDeadline(r) <= Greatest(chat[r].expiresAt, now + 1)
         /\ StreamDeadline(r) <= Greatest(chat[r].expiresAt, now + 1)
<1>1. now \in Nat /\ chat[r].expiresAt \in Nat
  <2>1. chat[r] \in ChatRecord
    BY Recorded
  <2>2. QED
    BY <2>1 DEF HandlersTyped, TypeOK, LastTime, LastReserve, ChatRecord
<1>2. ConnectTimeout \in Nat \ {0} /\ StreamTimeout \in Nat \ {0}
  BY ConfigAssumption
<1>3. QED
  BY <1>1, <1>2 DEF ConnectDeadline, StreamDeadline, UntilExpiry, Least, Greatest

\* reserve() has resolved: the handler joins the Set of its session, or opens one.
LEMMA Registers ==
  ASSUME ChatInv, NEW r \in Requests, Reserved(r)
  PROVE  ChatInv'
<1> DEFINE s == chat[r].session
           set == IF activeBySession[s] = None THEN r ELSE activeBySession[s]
           new == [chat[r] EXCEPT !.phase = "connecting", !.set = set, !.listening = TRUE,
                                  !.deadline = ConnectDeadline(r), !.connectReason = ConnectReason(r)]
<1>1. chat[r] \in ChatRecord /\ Coherent(chat[r]) /\ chat[r].phase = "reserving"
  BY Recorded DEF ChatInv, Reserved
<1>2. s \in 1..Logins /\ s \in 1..lastSession /\ chat[r].wallet \in Wallets /\ chat[r].set = None
  <2>1. s \in 1..lastSession /\ chat[r].wallet \in Wallets /\ chat[r].set = None
    BY <1>1 DEF Coherent, Holding, Upstream
  <2>2. QED
    BY <2>1, ConfigAssumption DEF ChatInv, HandlersTyped, TypeOK
<1>3. set \in Requests /\ set # None
  BY <1>2, ConfigAssumption DEF ChatInv, HandlersTyped, TypeOK
<1>4. /\ ConnectDeadline(r) \in Nat /\ now < ConnectDeadline(r)
      /\ ConnectReason(r) \in Reasons /\ ConnectReason(r) # "none"
      /\ now \in Nat
  BY Deadlines DEF ConnectReason, Reasons, ChatInv, HandlersTyped, TypeOK
<1>5. chat' = [chat EXCEPT ![r] = new] /\ activeBySession' = [activeBySession EXCEPT ![s] = set]
  BY DEF Reserved
<1> HIDE DEF set
<1>6. /\ new \in ChatRecord /\ new.phase = "connecting" /\ new.set = set /\ new.session = s
      /\ new.wallet = chat[r].wallet /\ new.deadline = ConnectDeadline(r)
      /\ new.connectReason = ConnectReason(r)
  BY <1>1, <1>3, <1>4 DEF ChatRecord, Phases, Holding, Upstream
<1> HIDE DEF new
<1>7. Coherent(new)
  BY <1>2, <1>3, <1>4, <1>6 DEF Coherent, Upstream
<1>8. /\ activeBySession' \in [1..Logins -> Requests \cup {None}]
      /\ activeBySession'[s] = set
      /\ \A t \in 1..Logins : t # s => activeBySession'[t] = activeBySession[t]
  BY <1>2, <1>3, <1>5 DEF ChatInv, HandlersTyped, TypeOK
<1>9. UNCHANGED <<now, auth, gate>> /\ HealthTyped'
  BY DEF Reserved, HealthTyped, ChatInv, HandlersTyped, TypeOK
<1>10. /\ HandlersTyped' /\ chat'[r] = new
       /\ \A q \in Requests \ {r} : chat'[q] = chat[q]
  BY <1>5, <1>6, <1>7, <1>8, <1>9, MoveTyped DEF ChatInv, HandlersTyped, TypeOK, auth
<1>11. GateCounts'
  BY <1>1, <1>6, <1>9, <1>10, GateKept DEF ChatInv, Holding, Upstream
<1>12. Registered'
  <2>1. SUFFICES ASSUME NEW q \in Requests, chat'[q].set # None, chat'[q].session \in Ids(sessions)
                 PROVE  activeBySession'[chat'[q].session] = chat'[q].set
    BY <1>9 DEF Registered, auth
  <2>2. CASE q = r
    BY <1>6, <1>8, <1>10, <2>2
  <2>3. CASE q # r
    <3>1. activeBySession[chat[q].session] = chat[q].set /\ chat[q].set # None /\ chat'[q] = chat[q]
      BY <1>10, <2>1, <2>3 DEF ChatInv, Registered
    <3>2. activeBySession'[chat[q].session] = activeBySession[chat[q].session]
      BY <1>5, <3>1 DEF set, ChatInv, HandlersTyped, TypeOK
    <3>3. QED
      BY <3>1, <3>2
  <2>4. QED
    BY <2>2, <2>3
<1>13. QED
  BY <1>10, <1>11, <1>12 DEF ChatInv
-----------------------------------------------------------------------------
\* A handler that calls the upstream goes on: what it is registered under stays.
LEMMA UpstreamStep ==
  ASSUME ChatInv, NEW r \in Requests, NEW new \in ChatRecord,
         chat[r].phase \in Upstream, new.phase \in Upstream,
         new.phase = "connecting" => new.connectReason # "none",
         new.phase \in {"connecting", "streaming", "draining"} /\ ~new.aborted
           => new.deadline # 0 /\ now <= new.deadline,
         new.wallet = chat[r].wallet, new.set = chat[r].set, new.session = chat[r].session,
         chat' = [chat EXCEPT ![r] = new], UNCHANGED <<now, auth, gate, activeBySession, health>>
  PROVE  ChatInv'
<1>1. Coherent(chat[r])
  BY Recorded DEF ChatInv
<1>2. Coherent(new)
  BY <1>1 DEF Coherent, Holding
<1>3. HealthTyped'
  BY DEF HealthTyped, health, ChatInv, HandlersTyped, TypeOK
<1>4. QED
  BY <1>2, <1>3, QuietStep DEF auth, Holding

LEMMA Streams ==
  ASSUME ChatInv, NEW r \in Requests,
         \/ UpstreamRefuses(r) \/ UpstreamAnswers(r) \/ WriteBlocks(r)
         \/ Drained(r) \/ BodyReceived(r) \/ DeadlinePasses(r)
  PROVE  ChatInv'
<1>1. chat[r] \in ChatRecord /\ Coherent(chat[r]) /\ now \in Nat
  BY Recorded DEF ChatInv, HandlersTyped, TypeOK, LastTime, LastReserve
<1>2. CASE UpstreamRefuses(r)
  <2> DEFINE new == [chat[r] EXCEPT !.phase = "cancelling", !.deadline = 0]
  <2>1. /\ new \in ChatRecord /\ new.phase = "cancelling" /\ new.wallet = chat[r].wallet
        /\ new.set = chat[r].set /\ new.session = chat[r].session
    BY <1>1 DEF ChatRecord, Phases, Holding, Upstream
  <2>2. /\ chat' = [chat EXCEPT ![r] = new] /\ UNCHANGED <<now, auth, gate, activeBySession, health>>
        /\ chat[r].phase \in Upstream
    BY <1>2 DEF UpstreamRefuses, Upstream
  <2> HIDE DEF new
  <2>3. QED
    BY <2>1, <2>2, UpstreamStep DEF Upstream
<1>3. CASE UpstreamAnswers(r)
  <2> DEFINE new == [chat[r] EXCEPT !.phase = "streaming", !.deadline = StreamDeadline(r)]
  <2>1. StreamDeadline(r) \in Nat /\ now < StreamDeadline(r)
    BY Deadlines DEF ChatInv
  <2>2. /\ new \in ChatRecord /\ new.phase = "streaming" /\ new.wallet = chat[r].wallet
        /\ new.set = chat[r].set /\ new.session = chat[r].session
        /\ new.deadline = StreamDeadline(r)
    <3>1. "streaming" \in Phases
      BY DEF Phases, Holding, Upstream
    <3>2. QED
      BY <1>1, <2>1, <3>1 DEF ChatRecord
  <2>3. /\ chat' = [chat EXCEPT ![r] = new] /\ UNCHANGED <<now, auth, gate, activeBySession, health>>
        /\ chat[r].phase \in Upstream
    BY <1>3 DEF UpstreamAnswers, Upstream
  <2> HIDE DEF new
  <2>4. new.deadline # 0 /\ now <= new.deadline
    BY <1>1, <2>1, <2>2
  <2>5. QED
    BY <2>2, <2>3, <2>4, UpstreamStep DEF Upstream
<1>4. CASE WriteBlocks(r) \/ Drained(r)
  <2>1. PICK phase \in {"draining", "streaming"} : chat' = [chat EXCEPT ![r].phase = phase]
    BY <1>4 DEF WriteBlocks, Drained
  <2> DEFINE new == [chat[r] EXCEPT !.phase = phase]
  <2>2. /\ new \in ChatRecord /\ new.phase = phase /\ new.wallet = chat[r].wallet
        /\ new.set = chat[r].set /\ new.session = chat[r].session
        /\ new.deadline = chat[r].deadline /\ new.aborted = chat[r].aborted
    <3>1. phase \in Phases
      BY DEF Phases, Holding, Upstream
    <3>2. QED
      BY <1>1, <3>1 DEF ChatRecord
  <2>3. /\ chat' = [chat EXCEPT ![r] = new] /\ UNCHANGED <<now, auth, gate, activeBySession, health>>
        /\ chat[r].phase \in {"draining", "streaming"}
    BY <1>4, <2>1 DEF WriteBlocks, Drained
  <2> HIDE DEF new
  <2>4. /\ chat[r].phase \in Upstream /\ new.phase \in Upstream
        /\ ~new.aborted => new.deadline # 0 /\ now <= new.deadline
    BY <1>1, <2>2, <2>3 DEF Upstream, Coherent
  <2>5. QED
    BY <2>2, <2>3, <2>4, UpstreamStep
<1>5. CASE BodyReceived(r)
  <2> DEFINE new == [chat[r] EXCEPT !.received = TRUE]
  <2>1. /\ new \in ChatRecord /\ new.phase = chat[r].phase /\ new.wallet = chat[r].wallet
        /\ new.set = chat[r].set /\ new.session = chat[r].session
        /\ new.deadline = chat[r].deadline /\ new.aborted = chat[r].aborted
    BY <1>1 DEF ChatRecord
  <2>2. /\ chat' = [chat EXCEPT ![r] = new] /\ UNCHANGED <<now, auth, gate, activeBySession, health>>
        /\ chat[r].phase \in {"draining", "streaming"}
    BY <1>5 DEF BodyReceived
  <2> HIDE DEF new
  <2>3. /\ chat[r].phase \in Upstream
        /\ ~new.aborted => new.deadline # 0 /\ now <= new.deadline
    BY <1>1, <2>1, <2>2 DEF Upstream, Coherent
  <2>4. QED
    BY <2>1, <2>2, <2>3, UpstreamStep
<1>6. CASE DeadlinePasses(r)
  <2> DEFINE reason == IF chat[r].phase = "connecting" THEN chat[r].connectReason ELSE StreamReason(r)
             new == [Abort(chat[r], reason) EXCEPT !.deadline = 0]
  <2>1. reason \in Reasons
    BY <1>1 DEF ChatRecord, Coherent, StreamReason, Reasons
  <2>2. /\ chat' = [chat EXCEPT ![r] = new] /\ UNCHANGED <<now, auth, gate, activeBySession, health>>
    BY <1>6 DEF DeadlinePasses
  <2> HIDE DEF reason
  <2>3. /\ new \in ChatRecord /\ new.phase = chat[r].phase /\ new.wallet = chat[r].wallet
        /\ new.set = chat[r].set /\ new.session = chat[r].session
        /\ new.aborted /\ new.connectReason = chat[r].connectReason
    BY <1>1, <2>1 DEF ChatRecord, Abort
  <2> HIDE DEF new
  <2>4. Coherent(new)
    BY <1>1, <2>3 DEF Coherent
  <2>5. HealthTyped'
    BY <2>2 DEF HealthTyped, health, ChatInv, HandlersTyped, TypeOK
  <2>6. QED
    BY <2>2, <2>3, <2>4, <2>5, QuietStep DEF auth
<1>7. QED
  BY <1>2, <1>3, <1>4, <1>5, <1>6

\* The ways out of an upstream call.
LEMMA LeavesUpstream ==
  ASSUME ChatInv, NEW r \in Requests, NEW flag \in BOOLEAN,
         \/ AbortNoticed(r) \/ UpstreamFails(r) \/ TooLarge(r)
         \/ Cancelled(r, flag) \/ BodyEnds(r, flag)
  PROVE  ChatInv'
<1>1. /\ \E usage \in BOOLEAN : Finally(r, usage)
      /\ chat[r].phase \in Upstream /\ UNCHANGED <<now, auth>>
  BY DEF AbortNoticed, UpstreamFails, Throws, TooLarge, Cancelled, BodyEnds, Upstream
<1>2. HealthTyped'
  BY DEF AbortNoticed, UpstreamFails, Throws, TooLarge, Cancelled, BodyEnds, health, HealthTyped,
         ChatInv, HandlersTyped, TypeOK
<1>3. QED
  BY <1>1, <1>2, FinallyStep

LEMMA Closes ==
  ASSUME ChatInv, NEW r \in Requests, ClientCloses(r)
  PROVE  ChatInv'
<1>1. chat[r] \in ChatRecord /\ Coherent(chat[r]) /\ HealthTyped'
  BY Recorded DEF ChatInv, HandlersTyped, TypeOK, ClientCloses, health, HealthTyped
<1>2. CASE chat[r].phase = "draining"
  BY <1>1, <1>2, FinallyStep DEF ClientCloses, Upstream
<1>3. CASE chat[r].phase # "draining"
  <2> DEFINE base == IF chat[r].listening THEN Abort(chat[r], "client_abort") ELSE chat[r]
             new == [base EXCEPT !.gone = TRUE]
  <2>1. /\ base \in ChatRecord /\ base.phase = chat[r].phase /\ base.wallet = chat[r].wallet
        /\ base.set = chat[r].set /\ base.session = chat[r].session
        /\ base.connectReason = chat[r].connectReason
        /\ base.aborted \/ base = chat[r]
    <3> DEFINE stopped == [chat[r] EXCEPT !.aborted = TRUE]
               told == [stopped EXCEPT !.reason = "client_abort"]
    <3>1. /\ stopped \in ChatRecord /\ stopped.phase = chat[r].phase /\ stopped.wallet = chat[r].wallet
          /\ stopped.set = chat[r].set /\ stopped.session = chat[r].session
          /\ stopped.connectReason = chat[r].connectReason /\ stopped.aborted
      BY <1>1 DEF ChatRecord
    <3>2. Abort(chat[r], "client_abort") = told
      BY DEF Abort
    <3> HIDE DEF stopped
    <3>3. /\ told \in ChatRecord /\ told.phase = chat[r].phase /\ told.wallet = chat[r].wallet
          /\ told.set = chat[r].set /\ told.session = chat[r].session
          /\ told.connectReason = chat[r].connectReason /\ told.aborted
      BY <3>1 DEF ChatRecord, Reasons
    <3> HIDE DEF told
    <3>4. QED
      BY <1>1, <3>2, <3>3
  <2>2. chat' = [chat EXCEPT ![r] = new] /\ UNCHANGED <<now, auth, gate, activeBySession, health>>
    BY <1>3 DEF ClientCloses
  <2> HIDE DEF base
  <2>3. /\ new \in ChatRecord /\ new.phase = base.phase /\ new.wallet = base.wallet
        /\ new.set = base.set /\ new.session = base.session
        /\ new.connectReason = base.connectReason
        /\ new.aborted = base.aborted /\ new.deadline = base.deadline
    BY <2>1 DEF ChatRecord
  <2> HIDE DEF new
  <2>4. Coherent(new)
    BY <1>1, <2>1, <2>3 DEF Coherent
  <2>5. QED
    BY <1>1, <2>1, <2>2, <2>3, <2>4, QuietStep DEF auth
<1>4. QED
  BY <1>2, <1>3

\* The clock waits for the timers that are due, so no timer is ever overdue.
LEMMA Ticks ==
  ASSUME ChatInv, Tick
  PROVE  ChatInv'
<1>1. now' = now + 1 /\ now' \in 0..LastTime /\ UNCHANGED <<auth, chat, gate, activeBySession, health>>
  BY ConfigAssumption DEF Tick, ChatInv, HandlersTyped, TypeOK, LastTime, LastReserve
<1>2. TypeOK'
  BY <1>1 DEF ChatInv, HandlersTyped, TypeOK, auth, health
<1>3. HandlersCoherent'
  <2>1. SUFFICES ASSUME NEW r \in Requests PROVE Coherent(chat[r])'
    BY DEF HandlersCoherent
  <2>2. Coherent(chat[r]) /\ chat[r] \in ChatRecord /\ ~Due(r)
    BY Recorded DEF ChatInv, Tick
  <2>3. chat[r].deadline # 0 => now' <= chat[r].deadline
    BY <1>1, <2>2 DEF Due, ChatRecord, ChatInv, HandlersTyped, TypeOK
  <2>4. QED
    BY <1>1, <2>2, <2>3 DEF Coherent, auth
<1>4. Registered' /\ GateCounts'
  BY <1>1, GateKept DEF ChatInv, Registered, auth
<1>5. QED
  BY <1>2, <1>3, <1>4 DEF ChatInv, HandlersTyped
-----------------------------------------------------------------------------
\* What a login removes from the store, and what it adds.
LEMMA LoginStore ==
  ASSUME NEW w, Login(w)
  PROVE  LET out == Displaced(Prune(sessions, now), w, MaxSessions)
         IN  /\ Ids(sessions') = (Ids(Prune(sessions, now)) \ out) \cup {lastSession + 1}
             /\ Ids(Prune(sessions, now)) = Ids(sessions) \ Prunable(sessions, now)
             /\ sessions'.entries[lastSession + 1] = [address |-> w, expiresAt |-> now + SessionTtl]
             /\ \A s \in Ids(sessions') :
                  s # lastSession + 1 => sessions'.entries[s] = sessions.entries[s]
<1> DEFINE live == Prune(sessions, now)
           out == Displaced(live, w, MaxSessions)
           id == lastSession + 1
           kept == DeleteAll(live, out)
<1>1. sessions' = Put(kept, id, [address |-> w, expiresAt |-> now + SessionTtl])
  BY DEF Login
<1>2. /\ Ids(live) = Ids(sessions) \ Prunable(sessions, now)
      /\ \A s \in Ids(live) : live.entries[s] = sessions.entries[s]
  BY DEF Prune, DeleteAll, Without, Ids
<1> HIDE DEF live, out
<1>3. Ids(kept) = Ids(live) \ out /\ \A s \in Ids(kept) : kept.entries[s] = live.entries[s]
  BY DEF DeleteAll, Without, Ids
<1> HIDE DEF kept, id
<1>4. /\ Ids(sessions') = Ids(kept) \cup {id}
      /\ sessions'.entries[id] = [address |-> w, expiresAt |-> now + SessionTtl]
      /\ \A s \in Ids(kept) : s # id => sessions'.entries[s] = kept.entries[s]
  BY <1>1 DEF Put, Ids
<1>5. QED
  BY <1>2, <1>3, <1>4 DEF live, out, id

LEMMA LogsIn ==
  ASSUME ChatInv, NEW w \in Wallets, Login(w)
  PROVE  ChatInv'
<1> DEFINE out == Displaced(Prune(sessions, now), w, MaxSessions)
<1>1. /\ Revoke(out, "session_replaced") /\ lastSession' = lastSession + 1
      /\ lastSession < Logins /\ UNCHANGED <<now, gate, health>>
  BY DEF Login
<1>2. /\ lastSession \in 0..Logins /\ Ids(sessions) \subseteq 1..lastSession /\ now \in Nat
      /\ \A s \in Ids(sessions) : sessions.entries[s] \in [address : Wallets, expiresAt : Nat]
  BY DEF ChatInv, HandlersTyped, TypeOK, LastTime, LastReserve
<1>3. [address |-> w, expiresAt |-> now + SessionTtl] \in [address : Wallets, expiresAt : Nat]
  BY <1>2, ConfigAssumption
<1>4. \A s \in Ids(sessions') : /\ s \in Ids(sessions) \ out \/ s = lastSession + 1
                               /\ sessions'.entries[s] \in [address : Wallets, expiresAt : Nat]
  BY <1>2, <1>3, LoginStore
<1> HIDE DEF out
<1>5. lastSession' \in 0..Logins /\ lastSession <= lastSession' /\ lastSession + 1 > lastSession
  BY <1>1, <1>2, ConfigAssumption
<1>6. Ids(sessions') \subseteq 1..lastSession'
  BY <1>1, <1>2, <1>4
<1>7. "session_replaced" \in Reasons
  BY DEF Reasons
<1>8. QED
  BY <1>1, <1>4, <1>5, <1>6, <1>7, RevokeStep

LEMMA Removes ==
  ASSUME ChatInv, NEW ids, NEW reason \in Reasons, sessions' = DeleteAll(sessions, ids),
         Revoke(ids, reason), UNCHANGED <<now, lastSession, gate, health>>
  PROVE  ChatInv'
<1>1. /\ Ids(sessions') = Ids(sessions) \ ids
      /\ \A s \in Ids(sessions') : sessions'.entries[s] = sessions.entries[s]
  BY DEF DeleteAll, Without, Ids
<1>2. /\ lastSession \in 0..Logins /\ Ids(sessions) \subseteq 1..lastSession
      /\ \A s \in Ids(sessions) : sessions.entries[s] \in [address : Wallets, expiresAt : Nat]
  BY DEF ChatInv, HandlersTyped, TypeOK
<1>3. lastSession' \in 0..Logins /\ lastSession <= lastSession'
  BY <1>2
<1>4. QED
  BY <1>1, <1>2, <1>3, RevokeStep

LEMMA SessionsStep ==
  ASSUME ChatInv, Sessions
  PROVE  ChatInv'
<1>1. CASE \E w \in Wallets : Login(w)
  BY <1>1, LogsIn
<1>2. CASE \E s \in 1..lastSession : Logout(s)
  <2>1. PICK s \in 1..lastSession : Logout(s)
    BY <1>2
  <2>2. "session_logout" \in Reasons /\ sessions' = DeleteAll(sessions, {s})
    BY <2>1 DEF Reasons, Logout, Delete
  <2>3. QED
    BY <2>1, <2>2, Removes DEF Logout
<1>3. CASE Shutdown
  <2>1. "server_shutdown" \in Reasons
    BY DEF Reasons
  <2>2. QED
    BY <1>3, <2>1, Removes DEF Shutdown
<1>4. QED
  BY <1>1, <1>2, <1>3 DEF Sessions

LEMMA HandlerStep ==
  ASSUME ChatInv, NEW r \in Requests,
         Continues(r) \/ Environment(r) \/ \E usage \in BOOLEAN : BodyEnds(r, usage)
  PROVE  ChatInv'
<1>1. CASE Continues(r)
  BY <1>1, Returns, TakesSlot, GivesBack, Registers, LeavesUpstream, Streams DEF Continues
<1>2. CASE Environment(r)
  BY <1>2, Starts, LeavesUpstream, Streams, Closes DEF Environment
<1>3. CASE \E usage \in BOOLEAN : BodyEnds(r, usage)
  BY <1>3, LeavesUpstream
<1>4. QED
  BY <1>1, <1>2, <1>3

LEMMA InitChat == Init => ChatInv
<1> SUFFICES ASSUME Init PROVE ChatInv
  OBVIOUS
<1>1. /\ Fresh \in ChatRecord /\ Coherent(Fresh) /\ Fresh.set = None /\ Fresh.phase = "idle"
      /\ \A r \in Requests : chat[r] = Fresh
  BY FreshTypes DEF Init, Fresh
<1>2. Ids(sessions) = {}
  BY DEF Init, EmptyStore, Ids
<1>3. TypeOK
  <2>1. now \in 0..LastTime /\ lastSession \in 0..Logins
    BY ConfigAssumption DEF Init, LastTime, LastReserve
  <2>2. chat \in [Requests -> ChatRecord]
    BY <1>1 DEF Init
  <2>3. gate \in [provider : Nat, identity : [Wallets -> Nat]]
    BY DEF Init
  <2>4. activeBySession \in [1..Logins -> Requests \cup {None}]
    BY DEF Init
  <2>5. QED
    BY <1>2, <2>1, <2>2, <2>3, <2>4 DEF Init, TypeOK
<1>4. HandlersCoherent /\ Registered
  BY <1>1 DEF HandlersCoherent, Registered
<1>5. \A S : Running(S) = {}
  BY <1>1 DEF Running, Holding, Upstream
<1>6. GateCounts
  <2>1. \A S : IsFiniteSet(Running(S)) /\ Cardinality(Running(S)) = 0
    BY <1>5, FS_EmptySet
  <2>2. gate.provider = 0 /\ \A w \in Wallets : gate.identity[w] = 0
    BY DEF Init
  <2>3. QED
    BY <2>1, <2>2, ConfigAssumption DEF GateCounts
<1>7. QED
  BY <1>3, <1>4, <1>6 DEF ChatInv, HandlersTyped

LEMMA NextChat == ChatInv /\ [Next]_vars => ChatInv'
<1> SUFFICES ASSUME ChatInv, [Next]_vars PROVE ChatInv'
  OBVIOUS
<1>1. CASE UNCHANGED vars
  <2>1. GateCounts' /\ Registered'
    BY <1>1, GateKept DEF vars, ChatInv, Registered
  <2>2. TypeOK' /\ HandlersCoherent'
    BY <1>1 DEF vars, ChatInv, HandlersTyped, TypeOK, HandlersCoherent, Coherent
  <2>3. QED
    BY <2>1, <2>2 DEF ChatInv, HandlersTyped
<1>2. QED
  BY <1>1, Ticks, SessionsStep, HandlerStep DEF Next

-----------------------------------------------------------------------------
\* Every way out of handleChat gives its slot back exactly once: the gate counts the
\* requests between acquire() and the finally block, and stays within both limits.
THEOREM GateIsExact == Spec => []GateCountsRunning
<1>1. ChatInv => GateCountsRunning
  BY DEF ChatInv, HandlersTyped, GateCounts, GateCountsRunning, Running
<1>2. QED
  BY <1>1, InitChat, NextChat, PTL DEF Spec

-----------------------------------------------------------------------------
\* Where a step removes a live session, it revokes it.
LEMMA RemovalRevokes ==
  ASSUME ChatInv, [Next]_vars, NEW s \in Ids(sessions) \ Ids(sessions'), ~Expired(sessions.entries[s], now)
  PROVE  \E ids, reason : Revoke(ids, reason) /\ s \in ids
<1>1. sessions' # sessions
  OBVIOUS
<1>2. CASE \E w \in Wallets : Login(w)
  <2>1. PICK w \in Wallets : Login(w)
    BY <1>2
  <2>2. s \notin Prunable(sessions, now)
    BY DEF Prunable, ChatInv, HandlersTyped, TypeOK
  <2>3. s \in Displaced(Prune(sessions, now), w, MaxSessions)
    BY <2>1, <2>2, LoginStore
  <2>4. QED
    BY <2>1, <2>3 DEF Login
<1>3. CASE \E q \in 1..lastSession : Logout(q)
  <2>1. PICK q \in 1..lastSession : Logout(q)
    BY <1>3
  <2>2. s = q
    BY <2>1 DEF Logout, Delete, DeleteAll, Without, Ids
  <2>3. QED
    BY <2>1, <2>2 DEF Logout
<1>4. CASE Shutdown
  BY <1>4 DEF Shutdown, DeleteAll, Without, Ids
<1>5. ASSUME NEW r \in Requests, NEW q \in 1..lastSession, StartRefused(r, q)
      PROVE  FALSE
  <2>1. s = q
    BY <1>5 DEF StartRefused, Delete, DeleteAll, Without, Ids
  <2>2. QED
    BY <1>5, <2>1 DEF StartRefused
<1>6. UNCHANGED sessions \/ Sessions \/ \E r \in Requests, q \in 1..lastSession : StartRefused(r, q)
  <2>1. ASSUME NEW r \in Requests, Continues(r) PROVE UNCHANGED sessions
    BY <2>1 DEF Continues, AbortNoticed, Throws, ReadFails, BodyRead, GateRefuses, ReserveFails, Settled,
                Reserved, Cancelled, DeadlinePasses, auth
  <2>2. ASSUME NEW r \in Requests, NEW usage, BodyEnds(r, usage) PROVE UNCHANGED sessions
    BY <2>2 DEF BodyEnds, auth
  <2>3. ASSUME NEW r \in Requests, Environment(r)
        PROVE  UNCHANGED sessions \/ \E q \in 1..lastSession : StartRefused(r, q)
    BY <2>3 DEF Environment, StartChat, UpstreamFails, Throws, UpstreamRefuses, UpstreamAnswers, WriteBlocks,
                TooLarge, BodyReceived, ClientCloses, Drained, auth
  <2>4. QED
    BY <2>1, <2>2, <2>3 DEF Next, Tick, vars, auth
<1>7. QED
  BY <1>1, <1>2, <1>3, <1>4, <1>5, <1>6 DEF Sessions

\* ... and the requests that call the upstream for it are in its Set.
LEMMA RemovalAborts ==
  ChatInv /\ [Next]_vars =>
    [\A s \in Ids(sessions) \ Ids(sessions') :
       ~Expired(sessions.entries[s], now) =>
         \A r \in Requests :
           (chat[r].phase \in Upstream /\ chat[r].session = s) => chat'[r].aborted]_vars
<1> SUFFICES ASSUME ChatInv, [Next]_vars,
                    NEW s \in Ids(sessions) \ Ids(sessions'), ~Expired(sessions.entries[s], now),
                    NEW r \in Requests, chat[r].phase \in Upstream, chat[r].session = s
             PROVE  chat'[r].aborted
  OBVIOUS
<1>1. PICK ids, reason : Revoke(ids, reason) /\ s \in ids
  BY RemovalRevokes
<1>2. chat[r] \in ChatRecord /\ chat[r].set # None
  BY Recorded DEF ChatInv, Coherent
<1>3. activeBySession[s] = chat[r].set
  BY <1>2 DEF ChatInv, Registered
<1>4. r \in Reached(ids)
  BY <1>1, <1>2, <1>3 DEF Reached
<1>5. QED
  BY <1>1, <1>2, <1>4 DEF Revoke, Abort, ChatRecord

\* A handler's step clears its timer, leaves it, or starts one of the two.
LEMMA TimerSet ==
  ASSUME ChatInv, NEW r \in Requests,
         Continues(r) \/ Environment(r) \/ \E usage \in BOOLEAN : BodyEnds(r, usage)
  PROVE  \E c : /\ chat' = [chat EXCEPT ![r] = c]
               /\ c.deadline \in {0, chat[r].deadline, ConnectDeadline(r), StreamDeadline(r)}
<1>1. chat[r] \in ChatRecord
  BY Recorded DEF ChatInv
<1>2. [Fresh EXCEPT !.phase = "done"].deadline = 0 /\ [Fresh EXCEPT !.phase = "settling"].deadline = 0
  BY DEF Fresh
<1>3. ASSUME NEW usage \in BOOLEAN, chat' = Ends(r) \/ Finally(r, usage)
      PROVE  \E c : chat' = [chat EXCEPT ![r] = c] /\ c.deadline = 0
  BY <1>2, <1>3 DEF Finally, Ends
<1>4. CASE \E flag \in BOOLEAN :
             \/ AbortNoticed(r) \/ ReadFails(r) \/ GateRefuses(r) \/ ReserveFails(r, flag) \/ Settled(r, flag)
             \/ Cancelled(r, flag) \/ UpstreamFails(r) \/ TooLarge(r) \/ BodyEnds(r, flag)
             \/ \E s \in 1..lastSession : StartRefused(r, s)
  BY <1>3, <1>4 DEF AbortNoticed, Throws, ReadFails, GateRefuses, ReserveFails, Settled, Cancelled, UpstreamFails,
                    TooLarge, BodyEnds, StartRefused
<1>5. CASE \E phase : chat' = [chat EXCEPT ![r] = [chat[r] EXCEPT !.phase = phase]]
  <2>1. PICK phase : chat' = [chat EXCEPT ![r] = [chat[r] EXCEPT !.phase = phase]]
    BY <1>5
  <2>2. [chat[r] EXCEPT !.phase = phase].deadline = chat[r].deadline
    BY <1>1 DEF ChatRecord
  <2>3. QED
    BY <2>1, <2>2
<1>6. CASE BodyRead(r) \/ WriteBlocks(r) \/ Drained(r)
  BY <1>5, <1>6 DEF BodyRead, WriteBlocks, Drained
<1>7. CASE \E s \in 1..lastSession : StartChat(r, s)
  <2>1. PICK s \in 1..lastSession : StartChat(r, s)
    BY <1>7
  <2> DEFINE c == [Fresh EXCEPT !.phase = "reading", !.session = s,
                                !.wallet = sessions.entries[s].address, !.expiresAt = sessions.entries[s].expiresAt]
  <2>2. c.deadline = 0
    BY DEF Fresh
  <2>3. QED
    BY <2>1, <2>2 DEF StartChat
<1>8. CASE Reserved(r)
  <2> DEFINE set == IF activeBySession[chat[r].session] = None THEN r ELSE activeBySession[chat[r].session]
             c == [chat[r] EXCEPT !.phase = "connecting", !.set = set, !.listening = TRUE,
                                  !.deadline = ConnectDeadline(r), !.connectReason = ConnectReason(r)]
  <2>1. chat' = [chat EXCEPT ![r] = c]
    BY <1>8 DEF Reserved
  <2>2. c.deadline = ConnectDeadline(r)
    BY <1>1 DEF ChatRecord
  <2>3. QED
    BY <2>1, <2>2
<1>9. CASE UpstreamRefuses(r) \/ UpstreamAnswers(r)
  <2>1. ASSUME NEW phase, NEW d \in {0, StreamDeadline(r)},
               chat' = [chat EXCEPT ![r].phase = phase, ![r].deadline = d]
        PROVE  \E c : chat' = [chat EXCEPT ![r] = c] /\ c.deadline \in {0, StreamDeadline(r)}
    <3> DEFINE c == [chat[r] EXCEPT !.phase = phase, !.deadline = d]
    <3>1. chat' = [chat EXCEPT ![r] = c] /\ c.deadline = d
      BY <1>1, <2>1 DEF ChatRecord
    <3>2. QED
      BY <3>1
  <2>2. CASE UpstreamRefuses(r)
    BY <2>1, <2>2 DEF UpstreamRefuses
  <2>3. CASE UpstreamAnswers(r)
    BY <2>1, <2>3 DEF UpstreamAnswers
  <2>4. QED
    BY <1>9, <2>2, <2>3
<1>10. CASE BodyReceived(r)
  <2> DEFINE c == [chat[r] EXCEPT !.received = TRUE]
  <2>1. chat' = [chat EXCEPT ![r] = c] /\ c.deadline = chat[r].deadline
    BY <1>1, <1>10 DEF BodyReceived, ChatRecord
  <2>2. QED
    BY <2>1
<1>11. \A reason : Abort(chat[r], reason).deadline = chat[r].deadline /\ Abort(chat[r], reason).phase = chat[r].phase
  BY <1>1 DEF Abort, ChatRecord
<1>12. CASE DeadlinePasses(r)
  <2>1. PICK reason : chat' = [chat EXCEPT ![r] = [Abort(chat[r], reason) EXCEPT !.deadline = 0]]
    BY <1>12 DEF DeadlinePasses
  <2>2. [Abort(chat[r], reason) EXCEPT !.deadline = 0].deadline = 0
    BY <1>1 DEF Abort, ChatRecord
  <2>3. QED
    BY <2>1, <2>2
<1>13. CASE ClientCloses(r)
  <2>1. CASE chat[r].phase = "draining"
    BY <1>3, <1>13, <2>1 DEF ClientCloses
  <2>2. CASE chat[r].phase # "draining"
    <3> DEFINE base == IF chat[r].listening THEN Abort(chat[r], "client_abort") ELSE chat[r]
    <3>1. chat' = [chat EXCEPT ![r] = [base EXCEPT !.gone = TRUE]]
      BY <1>13, <2>2 DEF ClientCloses
    <3>2. [base EXCEPT !.gone = TRUE].deadline = chat[r].deadline
      BY <1>1 DEF Abort, ChatRecord
    <3>3. QED
      BY <3>1, <3>2
  <2>3. QED
    BY <2>1, <2>2
<1>14. QED
  BY <1>4, <1>6, <1>7, <1>8, <1>9, <1>10, <1>12, <1>13 DEF Continues, Environment

\* A timer that a step sets ends with the session, or within one unit.
LEMMA TimersEnd ==
  ChatInv /\ [Next]_vars =>
    [\A r \in Requests :
       chat'[r].deadline <= Greatest(chat[r].deadline, Greatest(chat[r].expiresAt, now + 1))]_vars
<1> SUFFICES ASSUME ChatInv, [Next]_vars, NEW r \in Requests
             PROVE  chat'[r].deadline <= Greatest(chat[r].deadline, Greatest(chat[r].expiresAt, now + 1))
  OBVIOUS
<1>1. chat[r] \in ChatRecord /\ chat \in [Requests -> ChatRecord] /\ now \in Nat
      /\ chat[r].deadline \in Nat /\ chat[r].expiresAt \in Nat
  BY Recorded DEF ChatInv, HandlersTyped, TypeOK, LastTime, LastReserve, ChatRecord
<1>2. \A n \in {0, chat[r].deadline} : n <= Greatest(chat[r].deadline, Greatest(chat[r].expiresAt, now + 1))
  BY <1>1 DEF Greatest
<1>3. \A n \in Nat : n <= Greatest(chat[r].expiresAt, now + 1)
                       => n <= Greatest(chat[r].deadline, Greatest(chat[r].expiresAt, now + 1))
  BY <1>1 DEF Greatest
<1>4. CASE UNCHANGED chat
  BY <1>2, <1>4
<1>5. ASSUME NEW ids, NEW reason, Revoke(ids, reason) PROVE chat'[r].deadline = chat[r].deadline
  BY <1>1, <1>5 DEF Revoke, Abort, ChatRecord
<1>6. CASE Sessions
  BY <1>2, <1>5, <1>6 DEF Sessions, Shutdown, Login, Logout
<1>7. ASSUME NEW q \in Requests,
             Continues(q) \/ Environment(q) \/ \E usage \in BOOLEAN : BodyEnds(q, usage)
      PROVE  chat'[r].deadline <= Greatest(chat[r].deadline, Greatest(chat[r].expiresAt, now + 1))
  <2>1. PICK c : /\ chat' = [chat EXCEPT ![q] = c]
                 /\ c.deadline \in {0, chat[q].deadline, ConnectDeadline(q), StreamDeadline(q)}
    BY <1>7, TimerSet
  <2>2. q # r => chat'[r].deadline = chat[r].deadline
    BY <1>1, <2>1
  <2>3. q = r => chat'[r].deadline = c.deadline
    BY <1>1, <2>1
  <2>4. QED
    BY <1>2, <1>3, <2>1, <2>2, <2>3, Deadlines DEF ChatInv
<1>8. CASE Tick
  BY <1>4, <1>8 DEF Tick
<1>9. QED
  BY <1>4, <1>6, <1>7, <1>8 DEF Next, vars

\* No upstream call outlives the session it runs for: revokeSession() aborts the calls
\* of a session that a logout, a login, a full store or the shutdown removes, and the
\* connect and stream timers end with its expiry.
THEOREM NoOrphanedStreams == Spec => StreamsEndWithSession
<1>1. ChatInv => \A r \in Requests :
        (chat[r].phase \in {"connecting", "streaming"} /\ ~chat[r].aborted) => now <= chat[r].deadline
  BY DEF ChatInv, HandlersTyped, HandlersCoherent, Coherent
<1>2. QED
  BY <1>1, InitChat, NextChat, RemovalAborts, TimersEnd, PTL
     DEF Spec, StreamsEndWithSession, RevocationAborts, UpstreamEndsWithSession
=============================================================================
