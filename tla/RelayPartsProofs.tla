------------------------- MODULE RelayPartsProofs --------------------------
(***************************************************************************)
(* The three components that MCRelayParts instantiates, proved each for    *)
(* any constants of its own: the login of wallets, the readiness verdict   *)
(* and the browser's session client; and then all of them next to each     *)
(* other, as the run explores them.                                        *)
(***************************************************************************)
EXTENDS MCRelayParts, FiniteSetTheorems, NaturalsInduction, WellFoundedInduction, TLAPS

-----------------------------------------------------------------------------
(***************************************************************************)
(* A challenge yields one session at most, and a live session ends for one *)
(* of few reasons, for any wallets, lifetimes and capacities.  The first   *)
(* needs where the identifiers of both kinds stand: below their counters,  *)
(* so that a new one was never used before.  The second needs the order of *)
(* the store: an older session expires first, so that the one that leaves  *)
(* a full store, pruned, is the oldest of live ones.                       *)
(***************************************************************************)

\* The stores only hold identifiers that were issued, and so does the record of logins.
IdsIssued ==
  /\ issued \in [challenge : Nat, session : Nat]
  /\ Ids(challenges) \subseteq 1..issued.challenge
  /\ Ids(sessions) \subseteq 1..issued.session
  /\ logins \subseteq [challenge : 1..issued.challenge, session : 1..issued.session, signer : Wallets]

LoginInv == IdsIssued /\ OneLoginPerChallenge

-----------------------------------------------------------------------------
(* The store of auth.mjs *)

\* Deleting entries leaves the others as they were.
LEMMA DeleteAllEntries ==
  ASSUME NEW st, NEW S
  PROVE  /\ Ids(DeleteAll(st, S)) = Ids(st) \ S
         /\ \A id \in Ids(st) \ S : DeleteAll(st, S).entries[id] = st.entries[id]
BY DEF DeleteAll, Without, Ids

LEMMA DeleteEntries ==
  ASSUME NEW st, NEW id
  PROVE  /\ Ids(Delete(st, id)) = Ids(st) \ {id}
         /\ \A x \in Ids(st) \ {id} : Delete(st, id).entries[x] = st.entries[x]
BY DeleteAllEntries DEF Delete

\* Putting an entry adds its identifier and leaves the others as they were.
LEMMA PutEntries ==
  ASSUME NEW st, NEW id, NEW entry
  PROVE  /\ Ids(Put(st, id, entry)) = Ids(st) \union {id}
         /\ Put(st, id, entry).entries[id] = entry
         /\ \A x \in Ids(st) \ {id} : Put(st, id, entry).entries[x] = st.entries[x]
BY DEF Put, Ids

\* What create() does to a store: an entry of its own, and fewer or the same others.
LEMMA ChallengeCreateEntries ==
  ASSUME NEW st, NEW id, NEW who, NEW time
  PROVE  Ids(ChallengeCreate(st, id, who, time)) \subseteq Ids(st) \union {id}
<1> DEFINE liveIds == Prune(st, time)
           room == DeleteAll(liveIds, Displaced(liveIds, who, MaxChallenges))
<1>1. Ids(liveIds) \subseteq Ids(st)
  BY DeleteAllEntries DEF Prune
<1>2. Ids(room) \subseteq Ids(liveIds)
  BY DeleteAllEntries
<1>3. ChallengeCreate(st, id, who, time)
        = Put(room, id, [address |-> who, expiresAt |-> time + ChallengeTtl])
  BY DEF ChallengeCreate
<1> HIDE DEF liveIds, room
<1>4. QED
  BY <1>1, <1>2, <1>3, PutEntries

LEMMA SessionCreateEntries ==
  ASSUME NEW st, NEW id, NEW who, NEW time, id \notin Ids(st)
  PROVE  LET new == SessionCreate(st, id, who, time)
         IN  /\ Ids(new) \subseteq Ids(st) \union {id}
             /\ id \in Ids(new) /\ new.entries[id].address = who
             /\ \A x \in Ids(new) \ {id} : new.entries[x] = st.entries[x]
<1> DEFINE liveIds == Prune(st, time)
           room == DeleteAll(liveIds, Displaced(liveIds, who, MaxSessions))
           entry == [address |-> who, expiresAt |-> time + SessionTtl]
<1>1. Ids(liveIds) \subseteq Ids(st) /\ \A x \in Ids(liveIds) : liveIds.entries[x] = st.entries[x]
  BY DeleteAllEntries DEF Prune
<1>2. Ids(room) \subseteq Ids(liveIds) /\ \A x \in Ids(room) : room.entries[x] = liveIds.entries[x]
  BY DeleteAllEntries
<1>3. SessionCreate(st, id, who, time) = Put(room, id, entry)
  BY DEF SessionCreate
<1>4. entry.address = who
  OBVIOUS
<1> HIDE DEF liveIds, room, entry
<1>5. QED
  BY <1>1, <1>2, <1>3, <1>4, PutEntries

LEMMA AfterPeekEntries ==
  ASSUME NEW st, NEW presented, NEW who, NEW time
  PROVE  /\ Ids(AfterPeek(st, presented, who, time)) \subseteq Ids(st)
         /\ \A x \in Ids(AfterPeek(st, presented, who, time)) :
              AfterPeek(st, presented, who, time).entries[x] = st.entries[x]
BY DeleteEntries DEF AfterPeek

-----------------------------------------------------------------------------
LEMMA InitLogin == LoginInit => LoginInv
BY DEF LoginInit, LoginInv, IdsIssued, OneLoginPerChallenge, EmptyStore, Ids

\* Entries that only leave the stores disturb nothing.
LEMMA FewerEntries ==
  ASSUME LoginInv, UNCHANGED <<issued, logins>>,
         Ids(challenges') \subseteq Ids(challenges),
         Ids(sessions') \subseteq Ids(sessions),
         \A x \in Ids(sessions') : sessions'.entries[x] = sessions.entries[x]
  PROVE  LoginInv'
BY DEF LoginInv, IdsIssued, OneLoginPerChallenge

LEMMA ChallengeLogin ==
  ASSUME LoginInv, NEW w \in Wallets, HandleChallenge(w)
  PROVE  LoginInv'
<1> DEFINE id == issued.challenge + 1
<1>1. /\ issued.challenge \in Nat /\ issued.session \in Nat
      /\ issued'.challenge = id /\ issued'.session = issued.session /\ issued' \in [challenge : Nat, session : Nat]
  BY DEF LoginInv, IdsIssued, HandleChallenge
<1>2. Ids(challenges') \subseteq Ids(challenges) \union {id}
  BY ChallengeCreateEntries DEF HandleChallenge
<1>3. UNCHANGED <<sessions, logins>>
  BY DEF HandleChallenge
<1>4. \A l \in logins : l.challenge # id
  BY <1>1 DEF LoginInv, IdsIssued
<1> HIDE DEF id
<1>5. IdsIssued'
  BY <1>1, <1>2, <1>3 DEF LoginInv, IdsIssued, id
<1>6. OneLoginPerChallenge'
  BY <1>2, <1>3, <1>4 DEF LoginInv, OneLoginPerChallenge
<1>7. QED
  BY <1>5, <1>6 DEF LoginInv

\* The challenge is gone afterwards, and no earlier login had it: it was in the store.
LEMMA SessionCreateLogin ==
  ASSUME LoginInv, NEW id, NEW signer \in Wallets, NEW presented,
         HandleSessionCreate(id, signer, presented)
  PROVE  LoginInv'
<1> DEFINE fresh == issued.session + 1
           peeked == AfterPeek(sessions, presented, signer, loginNow)
           login == [challenge |-> id, session |-> fresh, signer |-> signer]
<1>1. /\ issued.challenge \in Nat /\ issued.session \in Nat
      /\ issued'.session = fresh /\ issued'.challenge = issued.challenge /\ issued' \in [challenge : Nat, session : Nat]
      /\ logins' = logins \union {login}
  BY DEF LoginInv, IdsIssued, HandleSessionCreate
<1>2. id \in Ids(challenges) /\ id \in 1..issued.challenge
  BY DEF HandleSessionCreate, ChallengeUsable, LoginInv, IdsIssued
<1>3. Ids(challenges') = Ids(challenges) \ {id}
  BY DeleteEntries DEF HandleSessionCreate, ConsumeChallenge
<1>4. fresh \notin Ids(sessions) /\ \A l \in logins : l.session # fresh /\ l.challenge # id
  BY <1>1, <1>2 DEF LoginInv, IdsIssued, OneLoginPerChallenge
<1>5. Ids(peeked) \subseteq Ids(sessions) /\ \A x \in Ids(peeked) : peeked.entries[x] = sessions.entries[x]
  BY AfterPeekEntries
<1>6. sessions' = SessionCreate(peeked, fresh, signer, loginNow)
  BY DEF HandleSessionCreate
<1> HIDE DEF fresh, peeked
<1>7. /\ Ids(sessions') \subseteq Ids(sessions) \union {fresh}
      /\ sessions'.entries[fresh].address = signer
      /\ \A x \in Ids(sessions') \ {fresh} : sessions'.entries[x] = sessions.entries[x]
  BY <1>4, <1>5, <1>6, SessionCreateEntries
<1>8. IdsIssued'
  <2>1. login \in [challenge : 1..issued'.challenge, session : 1..issued'.session, signer : Wallets]
    BY <1>1, <1>2 DEF fresh
  <2>2. QED
    BY <1>1, <1>3, <1>7, <2>1 DEF LoginInv, IdsIssued, fresh
<1>9. OneLoginPerChallenge'
  <2>1. ASSUME NEW l \in logins' PROVE l.challenge \notin Ids(challenges')
    BY <1>1, <1>3 DEF LoginInv, OneLoginPerChallenge
  <2>2. ASSUME NEW l \in logins', NEW k \in logins', k.challenge = l.challenge PROVE k = l
    BY <1>1, <1>4, <2>2 DEF LoginInv, OneLoginPerChallenge
  <2>3. ASSUME NEW l \in logins', l.session \in Ids(sessions')
        PROVE  sessions'.entries[l.session].address = l.signer
    BY <1>1, <1>4, <1>7, <2>3 DEF LoginInv, OneLoginPerChallenge
  <2>4. QED
    BY <2>1, <2>2, <2>3 DEF OneLoginPerChallenge
<1>10. QED
  BY <1>8, <1>9 DEF LoginInv

LEMMA NextLogin == LoginInv /\ [LoginNext]_loginVars => LoginInv'
<1> SUFFICES ASSUME LoginInv, [LoginNext]_loginVars PROVE LoginInv'
  OBVIOUS
<1>1. CASE LoginTick \/ UNCHANGED loginVars
  BY <1>1, FewerEntries DEF LoginTick, loginVars
<1>2. ASSUME NEW w \in Wallets, HandleChallenge(w) PROVE LoginInv'
  BY <1>2, ChallengeLogin
<1>3. ASSUME NEW id, NEW w \in Wallets, NEW presented, HandleSessionCreate(id, w, presented) PROVE LoginInv'
  BY <1>3, SessionCreateLogin
<1>4. ASSUME NEW id, NEW w \in Wallets, HandleSessionRefused(id, w) PROVE LoginInv'
  BY <1>4, DeleteEntries, FewerEntries DEF HandleSessionRefused, ConsumeChallenge
<1>5. ASSUME NEW presented, HandleStatus(presented) \/ HandleLogout(presented) PROVE LoginInv'
  BY <1>5, DeleteEntries, FewerEntries DEF HandleStatus, HandleLogout
<1>6. QED
  BY <1>1, <1>2, <1>3, <1>4, <1>5 DEF LoginNext

-----------------------------------------------------------------------------
(* Why a session leaves the store *)

\* A store of sessions by identifiers up to n at some time: in the order of creation the entries
\* expire, none later than a lifetime from now, and an address is indexed by an entry of its own.
SessionStore(st, n, time) ==
  /\ Ids(st) \subseteq 1..n
  /\ \A id \in Ids(st) : st.entries[id].expiresAt \in Nat /\ st.entries[id].expiresAt <= time + SessionTtl
  /\ \A i, j \in Ids(st) : i < j => st.entries[i].expiresAt <= st.entries[j].expiresAt
  /\ \A a \in DOMAIN st.byAddress :
       /\ st.byAddress[a] \in 1..n
       /\ st.byAddress[a] \in Ids(st) => st.entries[st.byAddress[a]].address = a

HasRoom(st) == IsFiniteSet(Ids(st)) /\ Cardinality(Ids(st)) <= MaxSessions

StoreInv ==
  /\ loginNow \in Nat /\ issued \in [challenge : Nat, session : Nat]
  /\ SessionStore(sessions, issued.session, loginNow)
  /\ HasRoom(sessions)

LEMMA LimitTypes == MaxSessions \in Nat \ {0} /\ SessionTtl \in Nat \ {0}
BY LimitsAssumption

LEMMA LessIsWellFounded == IsWellFoundedOn({p \in Nat \X Nat : p[1] < p[2]}, Nat)
<1>1. OpToRel(<, Nat) = {p \in Nat \X Nat : p[1] < p[2]}
  BY DEF OpToRel
<1>2. QED
  BY <1>1, NatLessThanWellFounded

LEMMA HasLeast ==
  ASSUME NEW s \in SUBSET Nat, s # {}
  PROVE  \E i \in s : \A j \in s : i <= j
<1> DEFINE R == {p \in Nat \X Nat : p[1] < p[2]}
<1>1. \A i, j \in Nat : <<j, i>> \in R <=> j < i
  OBVIOUS
<1>2. IsWellFoundedOn(R, Nat)
  BY LessIsWellFounded
<1> HIDE DEF R
<1>3. PICK i \in s : \A j \in s : <<j, i>> \notin R
  BY <1>2, WFMin
<1>4. \A j \in s : ~(j < i)
  BY <1>1, <1>3
<1>5. QED
  BY <1>4

\* Deleting loses entries and index entries, and makes room.
LEMMA DeletingKeeps ==
  ASSUME NEW st, NEW n \in Nat, NEW time \in Nat, SessionStore(st, n, time), HasRoom(st), NEW S
  PROVE  /\ SessionStore(DeleteAll(st, S), n, time) /\ HasRoom(DeleteAll(st, S))
         /\ Cardinality(Ids(DeleteAll(st, S))) \in Nat
         /\ Cardinality(Ids(DeleteAll(st, S))) <= Cardinality(Ids(st))
         /\ Cardinality(Ids(DeleteAll(st, S))) = Cardinality(Ids(st)) => Ids(DeleteAll(st, S)) = Ids(st)
<1> DEFINE less == DeleteAll(st, S)
<1>1. /\ Ids(less) = Ids(st) \ S
      /\ \A id \in Ids(less) : less.entries[id] = st.entries[id]
  BY DeleteAllEntries
<1>2. /\ DOMAIN less.byAddress \subseteq DOMAIN st.byAddress
      /\ \A a \in DOMAIN less.byAddress : less.byAddress[a] = st.byAddress[a]
  BY DEF DeleteAll, Without
<1>3. IsFiniteSet(Ids(st)) /\ Cardinality(Ids(st)) \in Nat /\ Cardinality(Ids(st)) <= MaxSessions
  BY FS_CardinalityType DEF HasRoom
<1> HIDE DEF less
<1>4. /\ IsFiniteSet(Ids(less)) /\ Cardinality(Ids(less)) \in Nat /\ Cardinality(Ids(less)) <= Cardinality(Ids(st))
      /\ Cardinality(Ids(less)) = Cardinality(Ids(st)) => Ids(less) = Ids(st)
  BY <1>1, <1>3, FS_Subset, FS_CardinalityType
<1>5. HasRoom(less)
  BY <1>3, <1>4, LimitTypes DEF HasRoom
<1>6. SessionStore(less, n, time)
  BY <1>1, <1>2 DEF SessionStore
<1>7. QED
  BY <1>4, <1>5, <1>6 DEF less

\* After create() has pruned and displaced there is room for the new entry.
LEMMA CreateMakesRoom ==
  ASSUME NEW st, NEW n \in Nat, NEW time \in Nat, SessionStore(st, n, time), HasRoom(st), NEW address
  PROVE  LET room == DeleteAll(st, Displaced(st, address, MaxSessions))
         IN  /\ SessionStore(room, n, time) /\ IsFiniteSet(Ids(room))
             /\ Cardinality(Ids(room)) \in Nat /\ Cardinality(Ids(room)) < MaxSessions
<1> DEFINE prior == Prior(st, address)
           rest == DeleteAll(st, prior)
           old == Oldest(rest, MaxSessions)
           room == DeleteAll(st, Displaced(st, address, MaxSessions))
<1>1. /\ SessionStore(rest, n, time) /\ IsFiniteSet(Ids(rest)) /\ Cardinality(Ids(rest)) \in Nat
      /\ Cardinality(Ids(rest)) <= MaxSessions
  BY DeletingKeeps DEF HasRoom
<1>2. SessionStore(room, n, time) /\ IsFiniteSet(Ids(room)) /\ Cardinality(Ids(room)) \in Nat
  BY DeletingKeeps DEF HasRoom
<1>3. Ids(rest) = Ids(st) \ prior /\ Ids(room) = Ids(st) \ (prior \cup old)
  BY DeleteAllEntries DEF Displaced
<1>4. old = {id \in Ids(rest) : Cardinality({j \in Ids(rest) : j < id}) <= Cardinality(Ids(rest)) - MaxSessions}
  BY DEF Oldest
<1>5. Ids(rest) \subseteq Nat
  BY <1>1 DEF SessionStore
<1> HIDE DEF rest, prior, room, old
<1>6. Ids(room) = Ids(rest) \ old
  BY <1>3
<1>7. CASE Cardinality(Ids(rest)) < MaxSessions
  <2>1. Cardinality(Ids(room)) <= Cardinality(Ids(rest))
    BY <1>1, <1>6, FS_Subset
  <2>2. QED
    BY <1>1, <1>2, <1>7, <2>1, LimitTypes DEF room
<1>8. CASE Cardinality(Ids(rest)) = MaxSessions
  <2>1. Ids(rest) # {}
    BY <1>8, FS_EmptySet, LimitTypes
  <2>2. PICK least \in Ids(rest) : \A j \in Ids(rest) : least <= j
    BY <1>5, <2>1, HasLeast
  <2>3. {j \in Ids(rest) : j < least} = {}
    BY <1>5, <2>2
  <2>4. least \in old
    BY <1>4, <1>8, <2>3, FS_EmptySet, LimitTypes
  <2>5. Ids(room) \subseteq Ids(rest) /\ Ids(room) # Ids(rest)
    BY <1>6, <2>4
  <2>6. Cardinality(Ids(room)) < Cardinality(Ids(rest))
    BY <1>1, <1>2, <2>5, FS_Subset
  <2>7. QED
    BY <1>2, <1>8, <2>6 DEF room
<1>9. QED
  BY <1>1, <1>7, <1>8, LimitTypes

LEMMA CreateKeeps ==
  ASSUME NEW st, NEW n \in Nat, NEW time \in Nat, SessionStore(st, n, time), HasRoom(st), NEW address
  PROVE  LET new == SessionCreate(st, n + 1, address, time)
         IN  SessionStore(new, n + 1, time) /\ HasRoom(new)
<1> DEFINE liveIds == Prune(st, time)
           room == DeleteAll(liveIds, Displaced(liveIds, address, MaxSessions))
           entry == [address |-> address, expiresAt |-> time + SessionTtl]
           id == n + 1
           new == Put(room, id, entry)
<1>1. SessionCreate(st, n + 1, address, time) = new
  BY DEF SessionCreate
<1>2. SessionStore(liveIds, n, time) /\ HasRoom(liveIds)
  BY DeletingKeeps DEF Prune
<1> HIDE DEF liveIds
<1>3. /\ SessionStore(room, n, time) /\ IsFiniteSet(Ids(room))
      /\ Cardinality(Ids(room)) \in Nat /\ Cardinality(Ids(room)) < MaxSessions
  BY <1>2, CreateMakesRoom
<1>4. entry.address = address /\ entry.expiresAt = time + SessionTtl
  OBVIOUS
<1> HIDE DEF room, entry
<1>5. /\ Ids(new) = Ids(room) \cup {id} /\ new.entries[id] = entry
      /\ \A x \in Ids(room) \ {id} : new.entries[x] = room.entries[x]
  BY PutEntries
<1>6. /\ DOMAIN new.byAddress = DOMAIN room.byAddress \cup {address}
      /\ new.byAddress[address] = id
      /\ \A a \in DOMAIN room.byAddress \ {address} : new.byAddress[a] = room.byAddress[a]
  BY <1>4 DEF Put
<1>7. Ids(room) \subseteq 1..n /\ id \notin Ids(room)
  BY <1>3 DEF SessionStore
<1> HIDE DEF new
<1>8. HasRoom(new)
  <2>1. IsFiniteSet(Ids(new)) /\ Cardinality(Ids(new)) = Cardinality(Ids(room)) + 1
    BY <1>3, <1>5, <1>7, FS_AddElement
  <2>2. QED
    BY <1>3, <2>1, LimitTypes DEF HasRoom
<1>9. SessionStore(new, id, time)
  <2>1. Ids(new) \subseteq 1..id
    BY <1>5, <1>7
  <2>2. \A x \in Ids(new) : new.entries[x].expiresAt \in Nat /\ new.entries[x].expiresAt <= time + SessionTtl
    BY <1>3, <1>4, <1>5, <1>7, LimitTypes DEF SessionStore
  <2>3. \A i, j \in Ids(new) : i < j => new.entries[i].expiresAt <= new.entries[j].expiresAt
    <3> SUFFICES ASSUME NEW i \in Ids(new), NEW j \in Ids(new), i < j
                 PROVE  new.entries[i].expiresAt <= new.entries[j].expiresAt
      OBVIOUS
    <3>1. i \in Ids(room)
      BY <1>5, <1>7, <2>1
    <3>2. CASE j = id
      BY <1>4, <1>5, <2>2, <3>2
    <3>3. CASE j # id
      BY <1>3, <1>5, <1>7, <3>1, <3>3 DEF SessionStore
    <3>4. QED
      BY <3>2, <3>3
  <2>4. ASSUME NEW a \in DOMAIN new.byAddress
        PROVE  /\ new.byAddress[a] \in 1..id
               /\ new.byAddress[a] \in Ids(new) => new.entries[new.byAddress[a]].address = a
    <3>1. CASE a = address
      BY <1>4, <1>5, <1>6, <3>1
    <3>2. CASE a # address
      <4>1. a \in DOMAIN room.byAddress /\ new.byAddress[a] = room.byAddress[a]
        BY <1>6, <2>4, <3>2
      <4>2. room.byAddress[a] \in 1..n /\ (room.byAddress[a] \in Ids(room) => room.entries[room.byAddress[a]].address = a)
        BY <1>3, <4>1 DEF SessionStore
      <4>3. room.byAddress[a] # id
        BY <4>2
      <4>4. QED
        BY <1>5, <1>7, <4>1, <4>2, <4>3
    <3>3. QED
      BY <3>1, <3>2
  <2>5. QED
    BY <2>1, <2>2, <2>3, <2>4 DEF SessionStore
<1>10. QED
  BY <1>1, <1>8, <1>9 DEF id

\* What create() removes had expired, was the wallet's own, or was the oldest of a store full
\* of live sessions.
LEMMA CreateRemoves ==
  ASSUME NEW st, NEW n \in Nat, NEW time \in Nat, SessionStore(st, n, time), HasRoom(st), NEW address,
         NEW id \in Ids(st), id \notin Ids(SessionCreate(st, n + 1, address, time))
  PROVE  \/ Expired(st.entries[id], time)
         \/ st.entries[id].address = address
         \/ /\ \A j \in Ids(st) : ~Expired(st.entries[j], time) /\ id <= j
            /\ Cardinality(Ids(st)) = MaxSessions
<1> SUFFICES ASSUME ~Expired(st.entries[id], time), st.entries[id].address # address
             PROVE  /\ \A j \in Ids(st) : ~Expired(st.entries[j], time) /\ id <= j
                    /\ Cardinality(Ids(st)) = MaxSessions
  OBVIOUS
<1> DEFINE liveIds == Prune(st, time)
           prior == Prior(liveIds, address)
           rest == DeleteAll(liveIds, prior)
           out == Displaced(liveIds, address, MaxSessions)
           room == DeleteAll(liveIds, out)
<1>1. Ids(SessionCreate(st, n + 1, address, time)) = Ids(room) \cup {n + 1}
  BY PutEntries DEF SessionCreate
<1>2. /\ Ids(liveIds) = Ids(st) \ Prunable(st, time) /\ \A x \in Ids(liveIds) : liveIds.entries[x] = st.entries[x]
      /\ Ids(rest) = Ids(liveIds) \ prior
      /\ Ids(room) = Ids(liveIds) \ out
  BY DeleteAllEntries DEF Prune
<1>3. /\ SessionStore(liveIds, n, time) /\ HasRoom(liveIds)
      /\ Cardinality(Ids(liveIds)) \in Nat /\ Cardinality(Ids(liveIds)) <= Cardinality(Ids(st))
      /\ Cardinality(Ids(liveIds)) = Cardinality(Ids(st)) => Ids(liveIds) = Ids(st)
  BY DeletingKeeps DEF Prune
<1>4. /\ HasRoom(rest) /\ IsFiniteSet(Ids(rest)) /\ Cardinality(Ids(rest)) \in Nat
      /\ Cardinality(Ids(rest)) <= Cardinality(Ids(liveIds))
      /\ Cardinality(Ids(rest)) = Cardinality(Ids(liveIds)) => Ids(rest) = Ids(liveIds)
  BY <1>3, DeletingKeeps DEF HasRoom
<1>5. out = prior \cup Oldest(rest, MaxSessions)
  BY DEF Displaced
<1>6. id \in Ids(liveIds)
  <2>1. Ids(st) \subseteq Nat
    BY DEF SessionStore
  <2>2. id \notin Prunable(st, time)
    BY <2>1 DEF Prunable
  <2>3. QED
    BY <1>2, <2>2
<1>7. id \notin prior
  BY <1>2, <1>3, <1>6 DEF Prior, SessionStore
<1>8. Cardinality(Ids(st)) \in Nat /\ Cardinality(Ids(st)) <= MaxSessions
  BY FS_CardinalityType DEF HasRoom
<1> HIDE DEF liveIds, prior, rest, out, room
<1>9. id \in Oldest(rest, MaxSessions)
  BY <1>1, <1>2, <1>5, <1>6, <1>7
<1> DEFINE younger == {j \in Ids(rest) : j < id}
<1>10. Cardinality(younger) <= Cardinality(Ids(rest)) - MaxSessions
  BY <1>9 DEF Oldest
<1>11. IsFiniteSet(younger) /\ Cardinality(younger) \in Nat
  BY <1>4, FS_Subset, FS_CardinalityType
<1>12. /\ Cardinality(Ids(rest)) = MaxSessions /\ Cardinality(younger) = 0
       /\ Cardinality(Ids(liveIds)) = MaxSessions /\ Cardinality(Ids(st)) = MaxSessions
  BY <1>3, <1>4, <1>8, <1>10, <1>11, LimitTypes
<1>13. Ids(rest) = Ids(st) /\ younger = {}
  BY <1>3, <1>4, <1>11, <1>12, FS_EmptySet
<1>14. \A j \in Ids(st) : id <= j
  BY <1>13 DEF SessionStore
<1>15. \A j \in Ids(st) : ~Expired(st.entries[j], time)
  <2> SUFFICES ASSUME NEW j \in Ids(st) PROVE ~Expired(st.entries[j], time)
    OBVIOUS
  <2>1. id = j \/ id < j
    BY <1>14 DEF SessionStore
  <2>2. st.entries[id].expiresAt <= st.entries[j].expiresAt
    BY <2>1 DEF SessionStore
  <2>3. st.entries[id].expiresAt \in Nat /\ st.entries[j].expiresAt \in Nat
    BY DEF SessionStore
  <2>4. QED
    BY <2>2, <2>3 DEF Expired
<1>16. QED
  BY <1>12, <1>14, <1>15

\* peek() and the route delete the session of the cookie at most.
LEMMA AfterPeekDeletes ==
  ASSUME NEW st, NEW presented, NEW address, NEW time
  PROVE  \/ AfterPeek(st, presented, address, time) = st
         \/ /\ AfterPeek(st, presented, address, time) = DeleteAll(st, {presented})
            /\ presented \in Ids(st) /\ (Expired(st.entries[presented], time) \/ st.entries[presented].address = address)
BY DEF AfterPeek, Delete

LEMMA AfterPeekKeeps ==
  ASSUME StoreInv, NEW presented, NEW address
  PROVE  LET peeked == AfterPeek(sessions, presented, address, loginNow)
         IN  /\ SessionStore(peeked, issued.session, loginNow) /\ HasRoom(peeked)
             /\ Cardinality(Ids(peeked)) <= Cardinality(Ids(sessions))
             /\ Cardinality(Ids(peeked)) = Cardinality(Ids(sessions)) => Ids(peeked) = Ids(sessions)
<1> DEFINE peeked == AfterPeek(sessions, presented, address, loginNow)
<1>1. /\ issued.session \in Nat /\ loginNow \in Nat /\ SessionStore(sessions, issued.session, loginNow)
      /\ HasRoom(sessions) /\ Cardinality(Ids(sessions)) \in Nat
  BY FS_CardinalityType DEF StoreInv, HasRoom
<1>2. CASE peeked = sessions
  BY <1>1, <1>2
<1>3. CASE peeked = DeleteAll(sessions, {presented})
  BY <1>1, <1>3, DeletingKeeps
<1>4. QED
  BY <1>2, <1>3, AfterPeekDeletes

LEMMA InitStore == LoginInit => StoreInv
<1> SUFFICES ASSUME LoginInit PROVE StoreInv
  OBVIOUS
<1>1. loginNow = 0 /\ issued = [challenge |-> 0, session |-> 0] /\ Ids(sessions) = {} /\ DOMAIN sessions.byAddress = {}
  BY DEF LoginInit, EmptyStore, Ids
<1>2. HasRoom(sessions)
  BY <1>1, FS_EmptySet, LimitTypes DEF HasRoom
<1>3. QED
  BY <1>1, <1>2 DEF StoreInv, SessionStore

LEMMA NextStore == StoreInv /\ [LoginNext]_loginVars => StoreInv'
<1> SUFFICES ASSUME StoreInv, [LoginNext]_loginVars PROVE StoreInv'
  OBVIOUS
<1>1. /\ issued \in [challenge : Nat, session : Nat] /\ issued.session \in Nat /\ loginNow \in Nat
      /\ SessionStore(sessions, issued.session, loginNow) /\ HasRoom(sessions)
  BY DEF StoreInv
<1>2. CASE LoginTick
  <2>1. loginNow' = loginNow + 1 /\ UNCHANGED <<sessions, issued>>
    BY <1>2 DEF LoginTick
  <2>2. SessionStore(sessions, issued.session, loginNow + 1)
    <3>1. \A id \in Ids(sessions) : sessions.entries[id].expiresAt <= loginNow + 1 + SessionTtl
      BY <1>1, LimitTypes DEF SessionStore
    <3>2. QED
      BY <1>1, <3>1 DEF SessionStore
  <2>3. QED
    BY <1>1, <2>1, <2>2 DEF StoreInv
<1>3. ASSUME NEW id, NEW w \in Wallets, NEW presented, HandleSessionCreate(id, w, presented) PROVE StoreInv'
  <2> DEFINE peeked == AfterPeek(sessions, presented, w, loginNow)
             fresh == issued.session + 1
  <2>1. sessions' = SessionCreate(peeked, fresh, w, loginNow) /\ loginNow' = loginNow
    BY <1>3 DEF HandleSessionCreate
  <2>2. issued' \in [challenge : Nat, session : Nat] /\ issued'.session = fresh
    BY <1>1, <1>3 DEF HandleSessionCreate
  <2>3. SessionStore(peeked, issued.session, loginNow) /\ HasRoom(peeked)
    BY AfterPeekKeeps
  <2> HIDE DEF peeked
  <2>4. SessionStore(sessions', fresh, loginNow) /\ HasRoom(sessions')
    BY <1>1, <2>1, <2>3, CreateKeeps
  <2>5. QED
    BY <1>1, <2>1, <2>2, <2>4 DEF StoreInv
<1>4. ASSUME NEW presented, HandleStatus(presented) \/ HandleLogout(presented) PROVE StoreInv'
  <2>1. sessions' = DeleteAll(sessions, {presented}) /\ UNCHANGED <<loginNow, issued>>
    BY <1>4 DEF HandleStatus, HandleLogout, Delete
  <2>2. SessionStore(sessions', issued.session, loginNow) /\ HasRoom(sessions')
    BY <1>1, <2>1, DeletingKeeps
  <2>3. QED
    BY <1>1, <2>1, <2>2 DEF StoreInv
<1>5. ASSUME UNCHANGED <<sessions, loginNow>>, issued' \in [challenge : Nat, session : Nat],
             issued'.session = issued.session
      PROVE  StoreInv'
  BY <1>1, <1>5 DEF StoreInv
<1>6. ASSUME NEW w, HandleChallenge(w) PROVE StoreInv'
  BY <1>1, <1>5, <1>6 DEF HandleChallenge
<1>7. ASSUME NEW id, NEW w, HandleSessionRefused(id, w) PROVE StoreInv'
  BY <1>1, <1>5, <1>7 DEF HandleSessionRefused
<1>8. CASE UNCHANGED loginVars
  BY <1>1, <1>5, <1>8 DEF loginVars
<1>9. QED
  BY <1>2, <1>3, <1>4, <1>6, <1>7, <1>8 DEF LoginNext

\* What LiveSessionsEndForAReason says of one session that leaves the store.
EndsForAReason(id) ==
  \/ Expired(sessions.entries[id], loginNow)
  \/ issued' = issued /\ Ids(sessions) \ Ids(sessions') = {id}
  \/ \E new \in Ids(sessions') \ Ids(sessions) : sessions'.entries[new].address = sessions.entries[id].address
  \/ /\ Cardinality({j \in Ids(sessions) : ~Expired(sessions.entries[j], loginNow)}) = MaxSessions
     /\ \A j \in Ids(sessions) : j < id => Expired(sessions.entries[j], loginNow)

LEMMA LoginEnds ==
  ASSUME StoreInv, NEW challenge, NEW w \in Wallets, NEW presented, HandleSessionCreate(challenge, w, presented),
         NEW id \in Ids(sessions) \ Ids(sessions')
  PROVE  EndsForAReason(id)
<1> DEFINE peeked == AfterPeek(sessions, presented, w, loginNow)
           fresh == issued.session + 1
<1>1. /\ issued.session \in Nat /\ loginNow \in Nat /\ SessionStore(sessions, issued.session, loginNow)
      /\ HasRoom(sessions) /\ Cardinality(Ids(sessions)) \in Nat
  BY FS_CardinalityType DEF StoreInv, HasRoom
<1>2. sessions' = SessionCreate(peeked, fresh, w, loginNow)
  BY DEF HandleSessionCreate
<1>3. /\ SessionStore(peeked, issued.session, loginNow) /\ HasRoom(peeked)
      /\ Cardinality(Ids(peeked)) <= Cardinality(Ids(sessions))
      /\ Cardinality(Ids(peeked)) = Cardinality(Ids(sessions)) => Ids(peeked) = Ids(sessions)
  BY AfterPeekKeeps
<1>4. /\ Ids(peeked) \subseteq Ids(sessions)
      /\ \A x \in Ids(peeked) : peeked.entries[x] = sessions.entries[x]
  BY AfterPeekEntries
<1>5. fresh \notin Ids(sessions) /\ fresh \notin Ids(peeked)
  BY <1>1, <1>4 DEF SessionStore
<1>6. id \notin Ids(peeked) =>
        Expired(sessions.entries[id], loginNow) \/ sessions.entries[id].address = w
  <2>1. CASE peeked = sessions
    BY <2>1
  <2>2. CASE peeked = DeleteAll(sessions, {presented}) /\ (Expired(sessions.entries[presented], loginNow)
                                                        \/ sessions.entries[presented].address = w)
    <3>1. Ids(peeked) = Ids(sessions) \ {presented}
      BY <2>2, DeleteAllEntries
    <3>2. QED
      BY <2>2, <3>1
  <2>3. QED
    BY ZenonT(40), <2>1, <2>2, AfterPeekDeletes
<1> HIDE DEF peeked
<1>7. fresh \in Ids(sessions') /\ sessions'.entries[fresh].address = w
  BY <1>2, <1>5, SessionCreateEntries
<1>8. CASE Expired(sessions.entries[id], loginNow)
  BY <1>8 DEF EndsForAReason
<1>9. CASE sessions.entries[id].address = w
  BY <1>5, <1>7, <1>9 DEF EndsForAReason
<1>10. CASE ~Expired(sessions.entries[id], loginNow) /\ sessions.entries[id].address # w
  <2>1. id \in Ids(peeked) /\ peeked.entries[id] = sessions.entries[id]
    BY <1>4, <1>6, <1>10
  <2>2. /\ \A j \in Ids(peeked) : ~Expired(peeked.entries[j], loginNow) /\ id <= j
        /\ Cardinality(Ids(peeked)) = MaxSessions
    BY <1>1, <1>2, <1>3, <1>10, <2>1, CreateRemoves
  <2>3. Cardinality(Ids(sessions)) = MaxSessions /\ Ids(peeked) = Ids(sessions)
    BY <1>1, <1>3, <2>2, LimitTypes DEF HasRoom
  <2>4. {j \in Ids(sessions) : ~Expired(sessions.entries[j], loginNow)} = Ids(sessions)
    BY <1>4, <2>2, <2>3
  <2>5. \A j \in Ids(sessions) : ~(j < id)
    BY <1>1, <2>2, <2>3 DEF SessionStore
  <2>6. QED
    BY <2>3, <2>4, <2>5 DEF EndsForAReason
<1>11. QED
  BY <1>8, <1>9, <1>10

LEMMA StepEnds ==
  StoreInv /\ [LoginNext]_loginVars => [\A id \in Ids(sessions) \ Ids(sessions') : EndsForAReason(id)]_loginVars
<1> SUFFICES ASSUME StoreInv, [LoginNext]_loginVars, NEW id \in Ids(sessions) \ Ids(sessions')
             PROVE  EndsForAReason(id)
  OBVIOUS
<1>1. sessions' # sessions
  OBVIOUS
<1>2. ASSUME NEW challenge, NEW w \in Wallets, NEW presented, HandleSessionCreate(challenge, w, presented)
      PROVE  EndsForAReason(id)
  BY <1>2, LoginEnds
<1>3. ASSUME NEW presented, HandleStatus(presented) \/ HandleLogout(presented) PROVE EndsForAReason(id)
  <2>1. Ids(sessions') = Ids(sessions) \ {presented} /\ issued' = issued
    BY <1>3, DeleteEntries DEF HandleStatus, HandleLogout
  <2>2. QED
    BY <2>1 DEF EndsForAReason
<1>4. ~LoginTick /\ ~UNCHANGED loginVars
  BY <1>1 DEF LoginTick, loginVars
<1>5. \A w : ~HandleChallenge(w)
  BY <1>1 DEF HandleChallenge
<1>6. \A challenge, w : ~HandleSessionRefused(challenge, w)
  BY <1>1 DEF HandleSessionRefused
<1>7. QED
  BY <1>2, <1>3, <1>4, <1>5, <1>6 DEF LoginNext

-----------------------------------------------------------------------------
\* A signed challenge buys one session, for the wallet it was issued to, however often and in
\* whatever order it is submitted (SessionStore and the /auth/session route).
THEOREM OneLogin == LoginSpec => []OneLoginPerChallenge
<1>1. LoginInv => OneLoginPerChallenge
  BY DEF LoginInv
<1>2. QED
  BY <1>1, InitLogin, NextLogin, PTL DEF LoginSpec

\* A live session ends by its own logout, by a newer login of its wallet, or as the oldest when
\* the store is full of live sessions, and never because of another wallet's cookie
\* (SessionStore.create, peek and the /auth routes).
THEOREM SessionsEndForAReason == LoginSpec => LiveSessionsEndForAReason
<1>1. [][\A id \in Ids(sessions) \ Ids(sessions') : EndsForAReason(id)]_loginVars => LiveSessionsEndForAReason
  BY DEF EndsForAReason, LiveSessionsEndForAReason
<1>2. QED
  BY <1>1, InitStore, NextStore, StepEnds, PTL DEF LoginSpec

-----------------------------------------------------------------------------
(***************************************************************************)
(* A verdict from before a refusal of payment is never served after it,    *)
(* and nobody waits for a probe that started before, for any number of     *)
(* callers, probes and refusals.  The reason is the probe in flight: it is *)
(* always one of the present generation.                                   *)
(***************************************************************************)

\* The probes are a sequence of records; the rest is typed by ReadinessTypeOK.
ProbesStarted == ReadinessTypeOK /\ probes \in Seq(ProbeStates)

\* New callers join a probe that reads the account as it is since the last refusal.
ProbeIsPresent ==
  readinessInFlight # 0 => readinessInFlight \in DOMAIN probes /\ probes[readinessInFlight].generation = generation

WaitersHaveProbes ==
  \A c \in Callers : caller[c].phase = "waiting" => caller[c].probe \in DOMAIN probes

GenerationInv ==
  /\ ProbesStarted /\ ProbeIsPresent /\ WaitersHaveProbes
  /\ CacheIsOfThisGeneration /\ WaitsForProbeOfItsTime

CallerRecords ==
  [phase : {"idle", "rotating", "waiting"}, probe : 0..Probes, asked : 0..Generations]

-----------------------------------------------------------------------------
LEMMA CallerTypes ==
  /\ Rotating \in CallerRecords /\ NotAsking \in CallerRecords
  /\ Rotating.phase = "rotating" /\ NotAsking.phase = "idle"
BY ReadinessAssumption DEF Rotating, NotAsking, CallerRecords

LEMMA InitGeneration == ReadinessInit => GenerationInv
<1> SUFFICES ASSUME ReadinessInit PROVE GenerationInv
  OBVIOUS
<1>1. ProbesStarted
  <2>1. readiness \in [at : {NeverChecked} \cup 0..LastReadinessTime, ready : BOOLEAN, by : 0..Generations]
    BY ReadinessAssumption DEF ReadinessInit
  <2>2. QED
    BY <2>1, CallerTypes, ReadinessAssumption DEF ReadinessInit, ProbesStarted, ReadinessTypeOK, CallerRecords
<1>2. ProbeIsPresent /\ CacheIsOfThisGeneration
  BY DEF ReadinessInit, ProbeIsPresent, CacheIsOfThisGeneration, NeverChecked
<1>3. WaitersHaveProbes /\ WaitsForProbeOfItsTime
  BY CallerTypes DEF ReadinessInit, WaitersHaveProbes, WaitsForProbeOfItsTime
<1>4. QED
  BY <1>1, <1>2, <1>3 DEF GenerationInv

\* Callers come or are answered, time passes, the account changes; the probes stay.
LEMMA CallersOnly ==
  ASSUME GenerationInv, UNCHANGED <<generation, readiness, readinessInFlight, probes>>, readinessNow' \in 0..LastReadinessTime,
         accountingHealthy' \in BOOLEAN, payable' \in BOOLEAN,
         caller' \in [Callers -> CallerRecords],
         \A c \in Callers : caller'[c].phase = "waiting" => caller'[c] = caller[c]
  PROVE  GenerationInv'
BY DEF GenerationInv, ProbesStarted, ReadinessTypeOK, CallerRecords, ProbeIsPresent, WaitersHaveProbes,
       CacheIsOfThisGeneration, WaitsForProbeOfItsTime

\* A caller joins a probe of the present generation.
LEMMA JoinsGeneration ==
  ASSUME GenerationInv, NEW c \in Callers, JoinProbe(c)
  PROVE  GenerationInv'
<1>1. /\ readinessInFlight \in DOMAIN probes /\ probes[readinessInFlight].generation = generation
      /\ probes \in Seq(ProbeStates) /\ Len(probes) <= Probes /\ generation \in 0..Generations
  BY DEF GenerationInv, ProbeIsPresent, JoinProbe, ProbesStarted, ReadinessTypeOK
<1>2. [phase |-> "waiting", probe |-> readinessInFlight, asked |-> generation] \in CallerRecords
  BY <1>1, ReadinessAssumption DEF CallerRecords
<1>3. /\ caller' = [caller EXCEPT ![c] = [phase |-> "waiting", probe |-> readinessInFlight, asked |-> generation]]
      /\ UNCHANGED <<readinessNow, accountingHealthy, payable, generation, readiness, readinessInFlight, probes>>
  BY DEF JoinProbe, Joins
<1>4. ProbesStarted'
  BY <1>2, <1>3 DEF GenerationInv, ProbesStarted, ReadinessTypeOK, CallerRecords
<1>5. WaitersHaveProbes' /\ WaitsForProbeOfItsTime'
  BY <1>1, <1>3 DEF GenerationInv, ProbesStarted, ReadinessTypeOK, WaitersHaveProbes, WaitsForProbeOfItsTime
<1>6. ProbeIsPresent' /\ CacheIsOfThisGeneration'
  BY <1>3 DEF GenerationInv, ProbeIsPresent, CacheIsOfThisGeneration
<1>7. QED
  BY <1>4, <1>5, <1>6 DEF GenerationInv

LEMMA StartGeneration ==
  ASSUME GenerationInv, NEW c \in Callers, StartProbe(c)
  PROVE  GenerationInv'
<1> DEFINE new == [state |-> "running", ready |-> FALSE, generation |-> generation, since |-> readinessNow]
           p == Len(probes) + 1
<1>1. /\ probes \in Seq(ProbeStates) /\ Len(probes) \in Nat /\ Len(probes) < Probes
      /\ generation \in 0..Generations /\ readinessNow \in 0..LastReadinessTime
  BY DEF GenerationInv, ProbesStarted, ReadinessTypeOK, StartProbe
<1>2. new \in ProbeStates
  BY <1>1 DEF ProbeStates
<1>3. probes' = Append(probes, new) /\ UNCHANGED <<readinessNow, accountingHealthy, payable, generation, readiness>>
  BY DEF StartProbe
<1> HIDE DEF new
<1>4. /\ probes' \in Seq(ProbeStates) /\ Len(probes') = p /\ probes'[p] = new
      /\ \A q \in DOMAIN probes : q \in DOMAIN probes' /\ probes'[q] = probes[q]
      /\ p \in DOMAIN probes'
  BY <1>1, <1>2, <1>3
<1>5. readinessInFlight' = p
  BY <1>4 DEF StartProbe
<1>6. caller' = [caller EXCEPT ![c] = [phase |-> "waiting", probe |-> p, asked |-> generation]]
  BY <1>5 DEF StartProbe, Joins
<1>7. new.generation = generation
  BY DEF new
<1>8. ProbesStarted'
  <2>1. [phase |-> "waiting", probe |-> p, asked |-> generation] \in CallerRecords
    BY <1>1, ReadinessAssumption DEF CallerRecords
  <2>2. \A q \in DOMAIN probes' : probes'[q] \in ProbeStates
    BY <1>4
  <2>3. QED
    BY <1>1, <1>3, <1>4, <1>5, <1>6, <2>1, <2>2, ReadinessAssumption
       DEF GenerationInv, ProbesStarted, ReadinessTypeOK, CallerRecords
<1>9. ProbeIsPresent'
  BY <1>3, <1>4, <1>5, <1>7 DEF ProbeIsPresent
<1>10. \A d \in Callers : caller'[d].phase = "waiting" =>
         \/ caller'[d].probe = p /\ caller'[d].asked = generation
         \/ caller'[d] = caller[d] /\ caller[d].phase = "waiting"
  BY <1>6 DEF GenerationInv, ProbesStarted, ReadinessTypeOK
<1>11. WaitersHaveProbes' /\ WaitsForProbeOfItsTime'
  BY <1>4, <1>7, <1>10 DEF GenerationInv, WaitersHaveProbes, WaitsForProbeOfItsTime
<1>12. CacheIsOfThisGeneration'
  BY <1>3 DEF GenerationInv, CacheIsOfThisGeneration
<1>13. QED
  BY <1>8, <1>9, <1>11, <1>12 DEF GenerationInv

\* A probe that moves on keeps its generation.
LEMMA ProbeMoves ==
  ASSUME ProbesStarted, NEW p \in DOMAIN probes, NEW q \in ProbeStates,
         q.generation = probes[p].generation, probes' = [probes EXCEPT ![p] = q]
  PROVE  /\ probes' \in Seq(ProbeStates) /\ Len(probes') = Len(probes) /\ DOMAIN probes' = DOMAIN probes
         /\ \A r \in DOMAIN probes : probes'[r] \in ProbeStates /\ probes'[r].generation = probes[r].generation
BY DEF ProbesStarted

LEMMA ReadsGeneration ==
  ASSUME GenerationInv, NEW p \in DOMAIN probes, ProbeReads(p)
  PROVE  GenerationInv'
<1>1. PICK ready \in {payable, FALSE} : probes' = [probes EXCEPT ![p].state = "read", ![p].ready = ready]
  BY DEF ProbeReads
<1> DEFINE q == [probes[p] EXCEPT !.state = "read", !.ready = ready]
<1>2. probes[p] \in ProbeStates /\ ready \in BOOLEAN
  BY DEF GenerationInv, ProbesStarted, ReadinessTypeOK
<1>3. q \in ProbeStates /\ q.generation = probes[p].generation
  BY <1>2 DEF ProbeStates
<1>4. probes' = [probes EXCEPT ![p] = q]
  BY <1>1, <1>2 DEF ProbeStates
<1> HIDE DEF q
<1>5. /\ probes' \in Seq(ProbeStates) /\ Len(probes') = Len(probes) /\ DOMAIN probes' = DOMAIN probes
      /\ \A r \in DOMAIN probes : probes'[r] \in ProbeStates /\ probes'[r].generation = probes[r].generation
  BY <1>3, <1>4, ProbeMoves DEF GenerationInv
<1>6. ProbesStarted'
  BY <1>5 DEF GenerationInv, ProbesStarted, ReadinessTypeOK, ProbeReads
<1>7. QED
  BY <1>5, <1>6 DEF GenerationInv, ProbeIsPresent, WaitersHaveProbes, CacheIsOfThisGeneration,
                    WaitsForProbeOfItsTime, ProbeReads

\* The verdict is cached only if it is of the present generation.
LEMMA EndsGeneration ==
  ASSUME GenerationInv, NEW p \in DOMAIN probes, ProbeEnds(p)
  PROVE  GenerationInv'
<1> DEFINE q == [probes[p] EXCEPT !.state = "over"]
<1>1. /\ probes[p] \in ProbeStates
      /\ probes' = [probes EXCEPT ![p].state = "over"]
      /\ UNCHANGED <<readinessNow, accountingHealthy, payable, generation>>
  BY DEF GenerationInv, ProbesStarted, ReadinessTypeOK, ProbeEnds
<1>2. q \in ProbeStates /\ q.generation = probes[p].generation
  BY <1>1 DEF ProbeStates
<1>3. probes' = [probes EXCEPT ![p] = q]
  BY <1>1
<1> HIDE DEF q
<1>4. /\ probes' \in Seq(ProbeStates) /\ Len(probes') = Len(probes) /\ DOMAIN probes' = DOMAIN probes
      /\ \A r \in DOMAIN probes : probes'[r] \in ProbeStates /\ probes'[r].generation = probes[r].generation
  BY <1>2, <1>3, ProbeMoves DEF GenerationInv
<1>5. \A c \in Callers : caller'[c] = NotAsking \/ caller'[c] = caller[c]
  BY DEF ProbeEnds, AnsweredBy
<1>6. caller' \in [Callers -> CallerRecords]
  BY CallerTypes DEF ProbeEnds, AnsweredBy, GenerationInv, ProbesStarted, ReadinessTypeOK, CallerRecords
<1>7. Verdict(p) \in [at : {NeverChecked} \cup 0..LastReadinessTime, ready : BOOLEAN, by : 0..Generations]
  BY <1>1 DEF Verdict, ProbeStates, GenerationInv, ProbesStarted, ReadinessTypeOK
<1>8. Verdict(p).by = probes[p].generation
  BY DEF Verdict
<1>9. \/ readiness' = Verdict(p) /\ readinessInFlight' = 0 /\ probes[p].generation = generation
      \/ UNCHANGED <<readiness, readinessInFlight>>
  BY DEF ProbeEnds, MayCache
<1>10. ProbesStarted'
  BY <1>1, <1>4, <1>6, <1>7, <1>9 DEF GenerationInv, ProbesStarted, ReadinessTypeOK, CallerRecords
<1>11. CacheIsOfThisGeneration' /\ ProbeIsPresent'
  BY <1>1, <1>4, <1>8, <1>9 DEF GenerationInv, CacheIsOfThisGeneration, ProbeIsPresent
<1>12. WaitersHaveProbes' /\ WaitsForProbeOfItsTime'
  BY <1>4, <1>5, CallerTypes DEF GenerationInv, WaitersHaveProbes, WaitsForProbeOfItsTime
<1>13. QED
  BY <1>10, <1>11, <1>12 DEF GenerationInv

\* A refusal discards the cached verdict and the probe, and nobody's wait.
LEMMA InvalidateGeneration ==
  ASSUME GenerationInv, InvalidateReadiness
  PROVE  GenerationInv'
<1>1. readiness' \in [at : {NeverChecked} \cup 0..LastReadinessTime, ready : BOOLEAN, by : 0..Generations]
  BY DEF InvalidateReadiness, GenerationInv, ProbesStarted, ReadinessTypeOK
<1>2. readiness'.at = NeverChecked
  BY DEF InvalidateReadiness, GenerationInv, ProbesStarted, ReadinessTypeOK
<1>3. ProbesStarted'
  BY <1>1, ReadinessAssumption DEF InvalidateReadiness, GenerationInv, ProbesStarted, ReadinessTypeOK
<1>4. QED
  BY <1>2, <1>3 DEF InvalidateReadiness, GenerationInv, ProbeIsPresent, WaitersHaveProbes,
                    CacheIsOfThisGeneration, WaitsForProbeOfItsTime

LEMMA NextGeneration == GenerationInv /\ [ReadinessNext]_readinessVars => GenerationInv'
<1> SUFFICES ASSUME GenerationInv, [ReadinessNext]_readinessVars PROVE GenerationInv'
  OBVIOUS
<1>0. /\ readinessNow \in 0..LastReadinessTime /\ accountingHealthy \in BOOLEAN /\ payable \in BOOLEAN
      /\ caller \in [Callers -> CallerRecords]
  BY DEF GenerationInv, ProbesStarted, ReadinessTypeOK, CallerRecords
<1>1. CASE UNCHANGED readinessVars
  BY <1>0, <1>1, CallersOnly DEF readinessVars
<1>2. CASE ReadinessTick
  <2>1. readinessNow' \in 0..LastReadinessTime
    BY <1>0, <1>2, ReadinessAssumption DEF ReadinessTick
  <2>2. QED
    BY <1>0, <1>2, <2>1, CallersOnly DEF ReadinessTick
<1>3. CASE AccountChanges
  BY <1>0, <1>3, CallersOnly DEF AccountChanges
<1>4. CASE InvalidateReadiness
  BY <1>4, InvalidateGeneration
<1>5. ASSUME NEW healthy \in BOOLEAN, ChatReserves(healthy) PROVE GenerationInv'
  BY <1>0, <1>5, CallersOnly DEF ChatReserves
<1>6. ASSUME NEW c \in Callers, NEW rotated \in BOOLEAN,
             Readyz(c) \/ FromCache(c) \/ NotAccounted(c, rotated)
      PROVE  GenerationInv'
  <2>1. PICK answer \in {Rotating, NotAsking} : caller' = [caller EXCEPT ![c] = answer]
    BY <1>6 DEF Readyz, FromCache, NotAccounted, Answered
  <2>2. caller' \in [Callers -> CallerRecords]
    BY <1>0, <2>1, CallerTypes
  <2>3. \A d \in Callers : caller'[d].phase = "waiting" => caller'[d] = caller[d]
    BY <1>0, <2>1, CallerTypes
  <2>4. accountingHealthy' \in BOOLEAN /\ UNCHANGED <<readinessNow, payable, generation, readiness, readinessInFlight, probes>>
    BY <1>0, <1>6 DEF Readyz, FromCache, NotAccounted
  <2>5. QED
    BY <1>0, <2>2, <2>3, <2>4, CallersOnly
<1>7. ASSUME NEW c \in Callers, JoinProbe(c) \/ StartProbe(c) PROVE GenerationInv'
  BY <1>7, JoinsGeneration, StartGeneration
<1>8. ASSUME NEW p \in DOMAIN probes, ProbeReads(p) \/ ProbeEnds(p) PROVE GenerationInv'
  BY <1>8, ReadsGeneration, EndsGeneration
<1>9. QED
  BY <1>1, <1>2, <1>3, <1>4, <1>5, <1>6, <1>7, <1>8 DEF ReadinessNext

-----------------------------------------------------------------------------
\* A verdict read before the provider refused payment is never served from the cache
\* (probeUpstream compares the generation before it caches).
THEOREM FreshVerdicts == ReadinessSpec => []CacheIsOfThisGeneration
<1>1. GenerationInv => CacheIsOfThisGeneration
  BY DEF GenerationInv
<1>2. QED
  BY <1>1, InitGeneration, NextGeneration, PTL DEF ReadinessSpec

\* Nobody waits for a probe that started before the last refusal they could know of
\* (invalidateReadiness discards the probe in flight).
THEOREM TimelyProbes == ReadinessSpec => []WaitsForProbeOfItsTime
<1>1. GenerationInv => WaitsForProbeOfItsTime
  BY DEF GenerationInv
<1>2. QED
  BY <1>1, InitGeneration, NextGeneration, PTL DEF ReadinessSpec

-----------------------------------------------------------------------------
(***************************************************************************)
(* The cached session is the one of the present wallet and epoch, and one  *)
(* handshake at a time is alive, for any wallets and any number of         *)
(* handshakes, switches and lapses.  Both rest on the epoch: no handshake  *)
(* is ahead of it, one that is level with it was started for the present   *)
(* wallet, and the one in flight is level with it.  That one retry is      *)
(* enough rests on them in turn: what the handshake of a retry obtains is  *)
(* still there when the retry sends, unless something else interfered.     *)
(***************************************************************************)

HandshakeRecords == [address : Accounts, epoch : Nat, stage : Stages, aborted : BOOLEAN]

\* Every invalidation is a new epoch, and a wallet is only switched with one.
HandshakesOfTheirEpoch ==
  /\ sessionEpoch \in Nat
  /\ handshakes \in Seq(HandshakeRecords)
  /\ \A h \in DOMAIN handshakes :
       /\ handshakes[h].epoch <= sessionEpoch
       /\ handshakes[h].epoch = sessionEpoch => handshakes[h].address = wallet

\* What a further turn finds in flight it can join.
InFlightIsPresent ==
  inFlightSession # 0 => inFlightSession \in DOMAIN handshakes /\ handshakes[inFlightSession].epoch = sessionEpoch

EpochInv == HandshakesOfTheirEpoch /\ InFlightIsPresent /\ CachedIsCurrent /\ OneHandshake

-----------------------------------------------------------------------------
LEMMA InitEpoch == SessionInit => EpochInv
<1> SUFFICES ASSUME SessionInit PROVE EpochInv
  OBVIOUS
<1>1. handshakes = <<>> /\ sessionEpoch = 0 /\ inFlightSession = 0 /\ cachedSession = NoSession
  BY DEF SessionInit
<1>2. handshakes \in Seq(HandshakeRecords) /\ DOMAIN handshakes = {}
  BY <1>1
<1>3. QED
  BY <1>1, <1>2 DEF EpochInv, HandshakesOfTheirEpoch, InFlightIsPresent, CachedIsCurrent, OneHandshake

\* A step that leaves the handshakes alone, and at most forgets the cached session.
LEMMA NoHandshake ==
  ASSUME EpochInv, UNCHANGED <<wallet, sessionEpoch, inFlightSession, handshakes>>,
         cachedSession' = cachedSession \/ cachedSession' = NoSession
  PROVE  EpochInv'
BY DEF EpochInv, HandshakesOfTheirEpoch, InFlightIsPresent, CachedIsCurrent, OneHandshake, Alive

\* After an invalidation nothing is cached, in flight or alive, and no handshake is level with
\* the epoch, whatever wallet is connected.
LEMMA InvalidateEpoch ==
  ASSUME EpochInv, NEW times \in Nat \ {0}, InvalidateSession(times)
  PROVE  EpochInv'
<1>1. /\ handshakes \in Seq(HandshakeRecords) /\ sessionEpoch \in Nat
      /\ \A h \in DOMAIN handshakes : handshakes[h] \in HandshakeRecords /\ handshakes[h].epoch <= sessionEpoch
      /\ inFlightSession # 0 => inFlightSession \in DOMAIN handshakes
  BY DEF EpochInv, HandshakesOfTheirEpoch, InFlightIsPresent
<1>2. sessionEpoch' = sessionEpoch + times /\ inFlightSession' = 0 /\ cachedSession' = NoSession /\ handshakes' = AbortedInFlight
  BY DEF InvalidateSession
<1>3. /\ handshakes' \in Seq(HandshakeRecords) /\ DOMAIN handshakes' = DOMAIN handshakes
      /\ \A h \in DOMAIN handshakes : /\ handshakes'[h].epoch = handshakes[h].epoch
                                      /\ handshakes'[h].stage = handshakes[h].stage
                                      /\ IF h = inFlightSession THEN handshakes'[h].aborted
                                         ELSE handshakes'[h] = handshakes[h]
  <2>1. CASE inFlightSession = 0
    BY <1>1, <1>2, <2>1 DEF AbortedInFlight
  <2>2. CASE inFlightSession # 0
    <3> DEFINE old == handshakes[inFlightSession]
               new == [old EXCEPT !.aborted = TRUE]
    <3>1. old \in HandshakeRecords
      BY <1>1, <2>2
    <3>2. new \in HandshakeRecords /\ new.epoch = old.epoch /\ new.stage = old.stage /\ new.aborted
      BY <3>1 DEF HandshakeRecords
    <3>3. handshakes' = [handshakes EXCEPT ![inFlightSession] = new]
      BY <1>2, <2>2 DEF AbortedInFlight
    <3> HIDE DEF new
    <3>4. QED
      BY <1>1, <2>2, <3>2, <3>3
  <2>3. QED
    BY <2>1, <2>2
<1>4. HandshakesOfTheirEpoch'
  <2>1. sessionEpoch' \in Nat /\ sessionEpoch' > sessionEpoch
    BY <1>1, <1>2
  <2>2. \A h \in DOMAIN handshakes : handshakes[h].epoch \in Nat /\ handshakes'[h].epoch < sessionEpoch'
    BY <1>1, <1>3, <2>1 DEF HandshakeRecords
  <2>3. QED
    BY <1>3, <2>1, <2>2 DEF HandshakesOfTheirEpoch
<1>5. InFlightIsPresent' /\ CachedIsCurrent'
  BY <1>2 DEF InFlightIsPresent, CachedIsCurrent
<1>6. OneHandshake'
  BY <1>3 DEF EpochInv, OneHandshake, Alive
<1>7. QED
  BY <1>4, <1>5, <1>6 DEF EpochInv

\* A handshake that moves on: it leaves the flight only when it is over, and fills the cache
\* only when it is level with the epoch.
LEMMA HandshakeMoves ==
  ASSUME EpochInv, NEW h \in DOMAIN handshakes, NEW stage \in Stages, handshakes[h].stage # "over",
         Advance(h, stage), UNCHANGED <<wallet, sessionEpoch>>,
         inFlightSession' = inFlightSession \/ (stage = "over" /\ inFlightSession = h /\ inFlightSession' = 0),
         \/ cachedSession' = cachedSession
         \/ SameEpoch(h) /\ cachedSession' = [address |-> handshakes[h].address, epoch |-> handshakes[h].epoch]
  PROVE  EpochInv'
<1> DEFINE old == handshakes[h]
           new == [old EXCEPT !.stage = stage]
<1>1. /\ handshakes \in Seq(HandshakeRecords) /\ old \in HandshakeRecords
      /\ sessionEpoch \in Nat /\ h \in 1..Len(handshakes)
  BY DEF EpochInv, HandshakesOfTheirEpoch
<1>2. /\ new \in HandshakeRecords /\ new.epoch = old.epoch /\ new.address = old.address
      /\ new.stage = stage /\ new.aborted = old.aborted
  BY <1>1 DEF HandshakeRecords
<1>3. handshakes' = [handshakes EXCEPT ![h] = new]
  BY DEF Advance
<1> HIDE DEF new
<1>4. /\ handshakes' \in Seq(HandshakeRecords) /\ DOMAIN handshakes' = DOMAIN handshakes
      /\ handshakes'[h] = new
      /\ \A g \in DOMAIN handshakes : g # h => handshakes'[g] = handshakes[g]
  BY <1>1, <1>2, <1>3
<1>5. HandshakesOfTheirEpoch' /\ InFlightIsPresent'
  BY <1>2, <1>4 DEF EpochInv, HandshakesOfTheirEpoch, InFlightIsPresent
<1>6. OneHandshake'
  <2>1. SUFFICES ASSUME NEW g \in DOMAIN handshakes, Alive(g)' PROVE inFlightSession' = g
    BY <1>4 DEF OneHandshake
  <2>2. Alive(g)
    BY <1>2, <1>4, <2>1 DEF Alive
  <2>3. inFlightSession = g
    BY <2>2 DEF EpochInv, OneHandshake
  <2>4. ~(stage = "over" /\ g = h)
    BY <1>2, <1>4, <2>1 DEF Alive
  <2>5. QED
    BY <2>3, <2>4
<1>7. CachedIsCurrent'
  BY <1>1 DEF EpochInv, HandshakesOfTheirEpoch, CachedIsCurrent, SameEpoch
<1>8. QED
  BY <1>5, <1>6, <1>7 DEF EpochInv

LEMMA SwitchEpoch ==
  ASSUME EpochInv, NEW w, SwitchWallet(w)
  PROVE  EpochInv'
<1>1. \E times \in {1, 2} : InvalidateSession(times)
  BY DEF SwitchWallet
<1>2. QED
  BY <1>1, InvalidateEpoch

\* A new handshake starts only when none is in flight: one that is not joinable is not there.
LEMMA StartEpoch ==
  ASSUME EpochInv, EnsureStarts, wallet \in Accounts
  PROVE  EpochInv'
<1> DEFINE new == [address |-> wallet, epoch |-> sessionEpoch, stage |-> "status", aborted |-> FALSE]
           n == Len(handshakes) + 1
<1>1. handshakes \in Seq(HandshakeRecords) /\ sessionEpoch \in Nat /\ Len(handshakes) \in Nat
  BY DEF EpochInv, HandshakesOfTheirEpoch
<1>2. inFlightSession = 0
  BY DEF EnsureStarts, Joinable, EpochInv, HandshakesOfTheirEpoch, InFlightIsPresent
<1>3. new \in HandshakeRecords /\ new.epoch = sessionEpoch /\ new.address = wallet
  BY <1>1 DEF HandshakeRecords, Stages
<1>4. handshakes' = Append(handshakes, new) /\ UNCHANGED <<wallet, sessionEpoch, cachedSession>>
  BY DEF EnsureStarts
<1> HIDE DEF new
<1>5. /\ handshakes' \in Seq(HandshakeRecords) /\ Len(handshakes') = n /\ handshakes'[n] = new
      /\ DOMAIN handshakes' = DOMAIN handshakes \union {n}
      /\ \A h \in DOMAIN handshakes : handshakes'[h] = handshakes[h]
  BY <1>1, <1>3, <1>4
<1>6. inFlightSession' = n
  BY <1>5 DEF EnsureStarts
<1>7. HandshakesOfTheirEpoch' /\ InFlightIsPresent' /\ CachedIsCurrent'
  BY <1>3, <1>4, <1>5, <1>6 DEF EpochInv, HandshakesOfTheirEpoch, InFlightIsPresent, CachedIsCurrent
<1>8. OneHandshake'
  <2>1. \A h \in DOMAIN handshakes : h # 0 /\ ~Alive(h)
    BY <1>1, <1>2 DEF EpochInv, OneHandshake
  <2>2. QED
    BY <1>5, <1>6, <2>1 DEF OneHandshake, Alive
<1>9. QED
  BY <1>7, <1>8 DEF EpochInv

LEMMA HandshakeEpoch ==
  ASSUME EpochInv, NEW h \in DOMAIN handshakes, HandshakeSteps(h)
  PROVE  EpochInv'
<1>1. CASE StatusChecked(h) \/ Challenged(h) \/ Signed(h) \/ Submitted(h) \/ SessionReplied(h) \/ LateReply(h)
  <2>1. PICK stage \in Stages : Advance(h, stage)
    BY <1>1 DEF StatusChecked, Challenged, Signed, Submitted, SessionReplied, LateReply, Stages
  <2>2. handshakes[h].stage # "over" /\ UNCHANGED <<wallet, sessionEpoch, cachedSession, inFlightSession>>
    BY <1>1 DEF StatusChecked, Challenged, Signed, Submitted, SessionReplied, LateReply, At
  <2>3. QED
    BY <2>1, <2>2, HandshakeMoves
<1>2. CASE Established(h) \/ HandshakeFails(h)
  <2>1. handshakes[h].stage # "over" /\ Advance(h, "over") /\ UNCHANGED <<wallet, sessionEpoch>>
    BY <1>2 DEF Established, HandshakeFails, At
  <2>2. inFlightSession' = inFlightSession \/ (inFlightSession = h /\ inFlightSession' = 0)
    BY <1>2 DEF Established, HandshakeFails, Settles
  <2>3. \/ cachedSession' = cachedSession
        \/ SameEpoch(h) /\ cachedSession' = [address |-> handshakes[h].address, epoch |-> handshakes[h].epoch]
    BY <1>2 DEF Established, HandshakeFails
  <2>4. "over" \in Stages
    BY DEF Stages
  <2>5. QED
    BY <2>1, <2>2, <2>3, <2>4, HandshakeMoves
<1>3. QED
  BY <1>1, <1>2 DEF HandshakeSteps

\* A turn that asks for a session belongs to a connected wallet.
TurnsHaveWallets ==
  /\ wallet \in Accounts \union {NoAccount}
  /\ turn.phase # "idle" => wallet # NoAccount

LEMMA InitTurns == SessionInit => TurnsHaveWallets
BY DEF SessionInit, TurnsHaveWallets, NoTurn

LEMMA NextTurns == TurnsHaveWallets /\ [SessionNext]_sessionVars => TurnsHaveWallets'
<1> SUFFICES ASSUME TurnsHaveWallets, [SessionNext]_sessionVars PROVE TurnsHaveWallets'
  OBVIOUS
<1>1. ASSUME NEW w \in Accounts \union {NoAccount}, SwitchWallet(w) PROVE TurnsHaveWallets'
  BY <1>1 DEF SwitchWallet, TurnsHaveWallets, NoTurn
<1>2. CASE BeginTurn
  BY <1>2 DEF BeginTurn, TurnsHaveWallets
<1>3. CASE UNCHANGED sessionVars \/ StopTurn \/ CachedExpires
  BY <1>3 DEF sessionVars, StopTurn, CachedExpires, TurnsHaveWallets, NoTurn
<1>4. ASSUME NEW l, LogoutArrives(l) \/ LogoutReplies(l) PROVE TurnsHaveWallets'
  BY <1>4 DEF LogoutArrives, LogoutReplies, TurnsHaveWallets
<1>5. ASSUME NEW w, RelayForgets(w) PROVE TurnsHaveWallets'
  BY <1>5 DEF RelayForgets, TurnsHaveWallets
<1>6. ASSUME NEW h, HandshakeSteps(h) PROVE TurnsHaveWallets'
  <2>1. wallet' = wallet
    BY <1>6 DEF HandshakeSteps, StatusChecked, Challenged, Signed, Submitted, SessionReplied, LateReply,
                Established, HandshakeFails
  <2>2. CASE turn' = turn
    BY <2>1, <2>2 DEF TurnsHaveWallets
  <2>3. CASE turn' # turn
    <3>1. PICK phase : Settles(h, phase)
      BY <1>6, <2>3 DEF HandshakeSteps, StatusChecked, Challenged, Signed, Submitted, SessionReplied,
                        LateReply, Established, HandshakeFails
    <3>2. turn.phase = "waiting"
      BY <2>3, <3>1 DEF Settles
    <3>3. QED
      BY <2>1, <3>2 DEF TurnsHaveWallets
  <2>4. QED
    BY <2>2, <2>3
<1>7. CASE TurnSteps
  <2>1. wallet' = wallet /\ turn.phase # "idle"
    BY <1>7 DEF TurnSteps, EnsureCached, EnsureJoins, EnsureStarts, SendAccepted, SendRefusedOnce,
                SendRefused, Sent
  <2>2. QED
    BY <2>1 DEF TurnsHaveWallets
<1>8. QED
  BY <1>1, <1>2, <1>3, <1>4, <1>5, <1>6, <1>7 DEF SessionNext

LEMMA NextEpoch == EpochInv /\ TurnsHaveWallets /\ [SessionNext]_sessionVars => EpochInv'
<1> SUFFICES ASSUME EpochInv, TurnsHaveWallets, [SessionNext]_sessionVars PROVE EpochInv'
  OBVIOUS
<1>1. ASSUME NEW w, SwitchWallet(w) PROVE EpochInv'
  BY <1>1, SwitchEpoch
<1>2. CASE UNCHANGED sessionVars \/ BeginTurn \/ StopTurn \/ CachedExpires
  BY <1>2, NoHandshake DEF sessionVars, BeginTurn, StopTurn, CachedExpires
<1>3. ASSUME NEW l, LogoutArrives(l) \/ LogoutReplies(l) PROVE EpochInv'
  BY <1>3, NoHandshake DEF LogoutArrives, LogoutReplies
<1>4. ASSUME NEW w, RelayForgets(w) PROVE EpochInv'
  BY <1>4, NoHandshake DEF RelayForgets
<1>5. ASSUME NEW h \in DOMAIN handshakes, HandshakeSteps(h) PROVE EpochInv'
  BY <1>5, HandshakeEpoch
<1>6. CASE EnsureCached \/ EnsureJoins \/ SendAccepted \/ SendRefused
  BY <1>6, NoHandshake DEF EnsureCached, EnsureJoins, SendAccepted, SendRefused, Sent
<1>7. CASE EnsureStarts
  <2>1. wallet \in Accounts
    BY <1>7 DEF EnsureStarts, TurnsHaveWallets
  <2>2. QED
    BY <1>7, <2>1, StartEpoch
<1>8. CASE SendRefusedOnce
  BY <1>8, InvalidateEpoch DEF SendRefusedOnce
<1>9. QED
  BY <1>1, <1>2, <1>3, <1>4, <1>5, <1>6, <1>7, <1>8 DEF SessionNext, TurnSteps

-----------------------------------------------------------------------------
(* The retry of a refused turn *)

\* While a turn retries and nothing interferes, what its handshake has obtained from the relay
\* is still there.
RetryHolds ==
  turn.attempt = 2 /\ ~disturbed =>
    /\ \A h \in DOMAIN handshakes : Alive(h) =>
         /\ handshakes[h].stage = "created" => live[wallet] = h
         /\ handshakes[h].stage = "established" => Accepted
    /\ cachedSession # NoSession \/ turn.phase = "sending" => Accepted

\* A handshake is under way only while there is nothing to send with.
NothingToSendYet ==
  cachedSession # NoSession \/ turn.phase = "sending" => \A h \in DOMAIN handshakes : ~Alive(h)

TurnRecords == [phase : TurnPhases, on : Nat, attempt : 0..2, outcome : {"none", "failed", "accepted", "refused"}]

RetryInv ==
  /\ DOMAIN live = Accounts
  /\ turn \in TurnRecords
  /\ turn.phase = "idle" => turn.attempt = 0
  /\ turn.phase # "idle" => turn.outcome = "none"
  /\ \A h \in DOMAIN handshakes : handshakes[h].aborted => handshakes[h].epoch < sessionEpoch
  /\ NothingToSendYet
  /\ RetryHolds
  /\ RetrySuffices

LEMMA InitRetry == SessionInit => RetryInv
<1> SUFFICES ASSUME SessionInit PROVE RetryInv
  OBVIOUS
<1>1. /\ DOMAIN live = Accounts /\ turn = NoTurn /\ DOMAIN handshakes = {}
  BY DEF SessionInit
<1>2. NoTurn.phase = "idle" /\ NoTurn.attempt = 0 /\ NoTurn.outcome = "none" /\ NoTurn \in TurnRecords
  BY DEF NoTurn, TurnRecords, TurnPhases
<1>3. QED
  BY <1>1, <1>2 DEF RetryInv, NothingToSendYet, RetryHolds, RetrySuffices

\* What is known of a handshake that is under way: it is the one in flight, and of the present wallet.
LEMMA AliveIsPresent ==
  ASSUME EpochInv, NEW h \in DOMAIN handshakes, Alive(h)
  PROVE  /\ inFlightSession = h /\ h # 0 /\ handshakes[h].epoch = sessionEpoch /\ handshakes[h].address = wallet
         /\ \A g \in DOMAIN handshakes : Alive(g) => g = h
<1>1. handshakes \in Seq(HandshakeRecords) /\ DOMAIN handshakes = 1..Len(handshakes)
  BY DEF EpochInv, HandshakesOfTheirEpoch
<1>2. inFlightSession = h /\ h # 0 /\ \A g \in DOMAIN handshakes : Alive(g) => g = h
  BY <1>1 DEF EpochInv, OneHandshake
<1>3. handshakes[h].epoch = sessionEpoch /\ handshakes[h].address = wallet
  BY <1>2 DEF EpochInv, InFlightIsPresent, HandshakesOfTheirEpoch
<1>4. QED
  BY <1>2, <1>3

\* An invalidation leaves nothing to send with, and nothing under way.
LEMMA InvalidateRetry ==
  ASSUME EpochInv, RetryInv, NEW times \in Nat \ {0}, InvalidateSession(times)
  PROVE  /\ cachedSession' = NoSession
         /\ \A h \in DOMAIN handshakes' : ~Alive(h)' /\ (handshakes'[h].aborted => handshakes'[h].epoch < sessionEpoch')
<1>1. EpochInv'
  BY InvalidateEpoch
<1>2. /\ cachedSession' = NoSession /\ inFlightSession' = 0 /\ sessionEpoch' = sessionEpoch + times
      /\ handshakes' = AbortedInFlight
  BY DEF InvalidateSession
<1>3. /\ handshakes \in Seq(HandshakeRecords) /\ sessionEpoch \in Nat /\ DOMAIN handshakes = 1..Len(handshakes)
      /\ \A h \in DOMAIN handshakes : handshakes[h] \in HandshakeRecords /\ handshakes[h].epoch <= sessionEpoch
      /\ inFlightSession # 0 => inFlightSession \in DOMAIN handshakes
      /\ handshakes' \in Seq(HandshakeRecords) /\ DOMAIN handshakes' = 1..Len(handshakes')
  BY <1>1 DEF EpochInv, HandshakesOfTheirEpoch, InFlightIsPresent
<1>4. \A h \in DOMAIN handshakes' : ~Alive(h)'
  BY <1>1, <1>2, <1>3 DEF EpochInv, OneHandshake
<1>5. ASSUME NEW h \in DOMAIN handshakes' PROVE handshakes'[h].epoch < sessionEpoch'
  <2>1. h \in DOMAIN handshakes /\ handshakes'[h].epoch = handshakes[h].epoch
    <3>1. CASE inFlightSession = 0
      BY <1>2, <1>5, <3>1 DEF AbortedInFlight
    <3>2. CASE inFlightSession # 0
      <4>1. handshakes' = [handshakes EXCEPT ![inFlightSession].aborted = TRUE]
        BY <1>2, <3>2 DEF AbortedInFlight
      <4>2. h \in DOMAIN handshakes
        BY <1>5, <4>1
      <4>3. handshakes[h] \in HandshakeRecords
        BY <1>3, <4>2
      <4>4. CASE h = inFlightSession
        <5>1. handshakes'[h] = [handshakes[h] EXCEPT !.aborted = TRUE]
          BY <4>1, <4>2, <4>4
        <5>2. QED
          BY <4>2, <4>3, <5>1 DEF HandshakeRecords
      <4>5. CASE h # inFlightSession
        BY <4>1, <4>2, <4>5
      <4>6. QED
        BY <4>4, <4>5
    <3>3. QED
      BY <3>1, <3>2
  <2>2. handshakes[h].epoch \in Nat
    BY <1>3, <2>1 DEF HandshakeRecords
  <2>3. QED
    BY <1>2, <1>3, <2>1, <2>2
<1>6. QED
  BY <1>2, <1>4, <1>5

\* A step that neither moves a handshake nor brings a session, and interferes if it takes one away.
LEMMA QuietRetry ==
  ASSUME RetryInv, UNCHANGED <<wallet, sessionEpoch, handshakes, turn>>,
         cachedSession' = cachedSession \/ cachedSession' = NoSession,
         DOMAIN live' = Accounts,
         UNCHANGED <<cookie, live, disturbed>> \/ disturbed'
  PROVE  RetryInv'
BY DEF RetryInv, NothingToSendYet, RetryHolds, RetrySuffices, Alive, Accepted

\* A step of the turn alone, that sends only with a session.
LEMMA TurnRetry ==
  ASSUME RetryInv, UNCHANGED <<wallet, sessionEpoch, cachedSession, handshakes, cookie, live, disturbed>>,
         turn' \in TurnRecords, turn'.attempt # 2 \/ turn'.attempt = turn.attempt,
         turn'.phase = "idle" => turn'.attempt = 0,
         turn'.phase # "idle" => turn'.outcome = "none",
         turn'.phase = "sending" => cachedSession # NoSession,
         turn'.outcome = "refused" => disturbed
  PROVE  RetryInv'
BY DEF RetryInv, NothingToSendYet, RetryHolds, RetrySuffices, Alive, Accepted

\* A handshake that moves on, or is given up, without an answer that counts.
LEMMA MovesRetry ==
  ASSUME EpochInv, RetryInv, NEW h \in DOMAIN handshakes, NEW stage \in Stages, Advance(h, stage),
         ~handshakes[h].aborted, handshakes[h].stage # "over",
         UNCHANGED <<wallet, sessionEpoch, cachedSession, turn, disturbed>>,
         DOMAIN live' = Accounts, wallet \in Accounts,
         \/ UNCHANGED <<cookie, live>> /\ stage # "created" /\ (stage = "established" => Accepted)
         \/ UNCHANGED cookie /\ stage = "created" /\ live' = [live EXCEPT ![handshakes[h].address] = h]
         \/ UNCHANGED live /\ stage = "established" /\ handshakes[h].stage = "created" /\ cookie' = h
  PROVE  RetryInv'
<1> DEFINE old == handshakes[h]
           new == [old EXCEPT !.stage = stage]
<1>1. /\ handshakes \in Seq(HandshakeRecords) /\ DOMAIN handshakes = 1..Len(handshakes)
      /\ \A g \in DOMAIN handshakes : handshakes[g] \in HandshakeRecords
  BY DEF EpochInv, HandshakesOfTheirEpoch
<1>2. Alive(h)
  BY DEF Alive
<1>3. /\ h # 0 /\ old.address = wallet
      /\ \A g \in DOMAIN handshakes : Alive(g) => g = h
  BY <1>2, AliveIsPresent
<1>4. new.epoch = old.epoch /\ new.stage = stage /\ new.aborted = old.aborted
  BY <1>1 DEF HandshakeRecords
<1>5. handshakes' = [handshakes EXCEPT ![h] = new]
  BY DEF Advance
<1> HIDE DEF new
<1>6. /\ DOMAIN handshakes' = DOMAIN handshakes /\ handshakes'[h] = new
      /\ \A g \in DOMAIN handshakes : g # h => handshakes'[g] = handshakes[g]
  BY <1>5
<1>7. \A g \in DOMAIN handshakes' : Alive(g)' => g = h
  BY <1>3, <1>6 DEF Alive
<1>8. cachedSession = NoSession /\ turn.phase # "sending"
  BY <1>2 DEF RetryInv, NothingToSendYet
<1>9. \A g \in DOMAIN handshakes' : handshakes'[g].aborted => handshakes'[g].epoch < sessionEpoch'
  BY <1>4, <1>6 DEF RetryInv
<1>10. RetryHolds'
  <2> SUFFICES ASSUME turn.attempt = 2, ~disturbed
               PROVE  /\ stage = "created" => live'[wallet] = h
                      /\ stage = "established" => cookie' # 0 /\ live'[wallet] = cookie'
    BY <1>4, <1>6, <1>7, <1>8 DEF RetryHolds, Accepted
  <2>1. old.stage = "created" => live[wallet] = h
    BY <1>2 DEF RetryInv, RetryHolds
  <2>2. QED
    BY <1>3, <2>1 DEF RetryInv, Accepted
<1>11. QED
  BY <1>8, <1>9, <1>10 DEF RetryInv, NothingToSendYet, RetrySuffices

\* A handshake that is over, whatever is made of its answer.
LEMMA OverRetry ==
  ASSUME EpochInv, RetryInv, NEW h \in DOMAIN handshakes, Advance(h, "over"),
         UNCHANGED <<wallet, sessionEpoch, live>>,
         UNCHANGED <<cookie, disturbed>> \/ disturbed',
         \/ cachedSession' = cachedSession /\ (turn'.phase = "sending" => turn' = turn)
         \/ SameEpoch(h) /\ handshakes[h].stage = "established",
         turn' \in TurnRecords, turn'.attempt # 2 \/ turn'.attempt = turn.attempt,
         turn'.phase = "idle" => turn'.attempt = 0,
         turn'.phase # "idle" => turn'.outcome = "none",
         turn'.outcome = "refused" => turn' = turn
  PROVE  RetryInv'
<1> DEFINE old == handshakes[h]
           new == [old EXCEPT !.stage = "over"]
<1>1. handshakes \in Seq(HandshakeRecords) /\ old \in HandshakeRecords
  BY DEF EpochInv, HandshakesOfTheirEpoch
<1>2. new.epoch = old.epoch /\ new.stage = "over" /\ new.aborted = old.aborted
  BY <1>1 DEF HandshakeRecords
<1>3. handshakes' = [handshakes EXCEPT ![h] = new]
  BY DEF Advance
<1> HIDE DEF new
<1>4. /\ DOMAIN handshakes' = DOMAIN handshakes /\ handshakes'[h] = new
      /\ \A g \in DOMAIN handshakes : g # h => handshakes'[g] = handshakes[g]
  BY <1>3
<1>5. \A g \in DOMAIN handshakes' : handshakes'[g].aborted => handshakes'[g].epoch < sessionEpoch'
  BY <1>2, <1>4 DEF RetryInv
<1>6. \A g \in DOMAIN handshakes' : Alive(g)' => Alive(g) /\ g # h /\ handshakes'[g] = handshakes[g]
  BY <1>2, <1>4 DEF Alive
<1>7. SameEpoch(h) /\ old.stage = "established" => Alive(h) /\ \A g \in DOMAIN handshakes' : ~Alive(g)'
  <2> SUFFICES ASSUME SameEpoch(h), old.stage = "established" PROVE Alive(h) /\ \A g \in DOMAIN handshakes' : ~Alive(g)'
    OBVIOUS
  <2>1. ~old.aborted
    BY <1>1 DEF RetryInv, SameEpoch, HandshakeRecords
  <2>2. Alive(h)
    BY <2>1 DEF Alive
  <2>3. QED
    BY <1>4, <1>6, <2>2, AliveIsPresent
<1>8. NothingToSendYet'
  BY <1>4, <1>6, <1>7 DEF RetryInv, NothingToSendYet
<1>9. RetryHolds'
  <2> SUFFICES ASSUME turn'.attempt = 2, ~disturbed' PROVE RetryHolds'
    BY DEF RetryHolds
  <2>1. turn.attempt = 2 /\ ~disturbed /\ UNCHANGED <<wallet, cookie, live>>
    OBVIOUS
  <2>2. \A g \in DOMAIN handshakes' : Alive(g)' =>
          /\ handshakes'[g].stage = "created" => live'[wallet'] = g
          /\ handshakes'[g].stage = "established" => Accepted'
    BY <1>4, <1>6, <2>1 DEF RetryInv, RetryHolds, Accepted
  <2>3. cachedSession' # NoSession \/ turn'.phase = "sending" => Accepted'
    BY <1>7, <2>1 DEF RetryInv, RetryHolds, Accepted
  <2>4. QED
    BY <2>2, <2>3 DEF RetryHolds
<1>10. RetrySuffices'
  BY DEF RetryInv, RetrySuffices
<1>11. QED
  BY <1>5, <1>8, <1>9, <1>10 DEF RetryInv

\* What the turn that waits for a handshake makes of its end.
LEMMA SettlesTurn ==
  ASSUME RetryInv, NEW h, NEW phase \in {"sending", "failed"}, Settles(h, phase)
  PROVE  /\ turn' \in TurnRecords
         /\ turn'.attempt # 2 \/ turn'.attempt = turn.attempt
         /\ turn'.phase = "idle" => turn'.attempt = 0
         /\ turn'.phase # "idle" => turn'.outcome = "none"
         /\ turn'.outcome = "refused" => turn' = turn
         /\ turn'.phase = "sending" => turn' = turn \/ phase = "sending"
<1>1. turn \in TurnRecords
  BY DEF RetryInv
<1>2. CASE turn.phase = "waiting" /\ turn.on = h /\ phase = "sending"
  <2>1. turn' = [turn EXCEPT !.phase = "sending"]
    BY <1>2 DEF Settles
  <2>2. /\ turn' \in TurnRecords /\ turn'.phase = "sending" /\ turn'.attempt = turn.attempt
        /\ turn'.outcome = turn.outcome
    BY <1>1, <2>1 DEF TurnRecords, TurnPhases
  <2>3. turn'.outcome = "none"
    BY <1>2, <2>2 DEF RetryInv
  <2>4. QED
    BY <1>2, <2>2, <2>3
<1>3. CASE turn.phase = "waiting" /\ turn.on = h /\ phase = "failed"
  <2>1. turn' = [NoTurn EXCEPT !.outcome = "failed"]
    BY <1>3 DEF Settles
  <2>2. turn' \in TurnRecords /\ turn'.phase = "idle" /\ turn'.attempt = 0 /\ turn'.outcome = "failed"
    BY <2>1 DEF NoTurn, TurnRecords, TurnPhases
  <2>3. QED
    BY <2>2
<1>4. CASE ~(turn.phase = "waiting" /\ turn.on = h)
  <2>1. turn' = turn
    BY <1>4 DEF Settles
  <2>2. QED
    BY <1>1, <2>1 DEF RetryInv
<1>5. QED
  BY <1>2, <1>3, <1>4

LEMMA HandshakeRetry ==
  ASSUME EpochInv, RetryInv, NEW h \in DOMAIN handshakes, HandshakeSteps(h)
  PROVE  RetryInv'
<1>1. /\ handshakes \in Seq(HandshakeRecords) /\ handshakes[h] \in HandshakeRecords
  BY DEF EpochInv, HandshakesOfTheirEpoch
<1>2. Alive(h) => handshakes[h].address = wallet /\ wallet \in Accounts
  BY <1>1, AliveIsPresent DEF HandshakeRecords
<1>3. CASE StatusChecked(h)
  <2> DEFINE stage == IF cookie # 0 /\ live[handshakes[h].address] = cookie THEN "established" ELSE "challenge"
  <2>1. /\ Advance(h, stage) /\ ~handshakes[h].aborted /\ handshakes[h].stage # "over"
        /\ UNCHANGED <<wallet, sessionEpoch, cachedSession, turn, disturbed, cookie, live>>
    BY <1>3 DEF StatusChecked, At, relay
  <2>2. wallet \in Accounts /\ handshakes[h].address = wallet
    BY <1>2, <2>1 DEF Alive
  <2>3. stage \in Stages /\ stage # "created" /\ (stage = "established" => Accepted) /\ DOMAIN live' = Accounts
    BY <2>1, <2>2 DEF Stages, Accepted, RetryInv
  <2> HIDE DEF stage
  <2>4. QED
    BY <2>1, <2>2, <2>3, MovesRetry
<1>4. CASE Challenged(h) \/ Signed(h) \/ Submitted(h) \/ SessionReplied(h)
  <2>1. PICK stage \in {"signing", "submitting", "created", "established"} :
          /\ Advance(h, stage)
          /\ \/ UNCHANGED <<cookie, live>> /\ stage \in {"signing", "submitting"}
             \/ UNCHANGED cookie /\ stage = "created" /\ live' = [live EXCEPT ![handshakes[h].address] = h]
             \/ UNCHANGED live /\ stage = "established" /\ handshakes[h].stage = "created" /\ cookie' = h
    BY <1>4 DEF Challenged, Signed, Submitted, SessionReplied, At, relay
  <2>2. /\ ~handshakes[h].aborted /\ handshakes[h].stage # "over"
        /\ UNCHANGED <<wallet, sessionEpoch, cachedSession, turn, disturbed>>
    BY <1>4 DEF Challenged, Signed, Submitted, SessionReplied, At
  <2>3. wallet \in Accounts
    BY <1>2, <2>2 DEF Alive
  <2>4. DOMAIN live' = Accounts /\ stage \in Stages
    BY <2>1 DEF RetryInv, Stages
  <2>5. QED
    BY <2>1, <2>2, <2>3, <2>4, MovesRetry
<1>5. CASE LateReply(h)
  <2>1. /\ Advance(h, "over") /\ disturbed'
        /\ UNCHANGED <<wallet, sessionEpoch, cachedSession, turn, live>>
    BY <1>5 DEF LateReply, relay
  <2>2. QED
    BY <2>1, OverRetry DEF RetryInv
<1>6. CASE HandshakeFails(h)
  <2>1. /\ Advance(h, "over") /\ Settles(h, "failed")
        /\ UNCHANGED <<wallet, sessionEpoch, cachedSession, cookie, live, disturbed>>
    BY <1>6 DEF HandshakeFails, relay
  <2>2. /\ turn' \in TurnRecords
        /\ turn'.attempt # 2 \/ turn'.attempt = turn.attempt
        /\ turn'.phase = "idle" => turn'.attempt = 0
        /\ turn'.phase # "idle" => turn'.outcome = "none"
        /\ turn'.outcome = "refused" => turn' = turn
        /\ turn'.phase = "sending" => turn' = turn
    BY <2>1, SettlesTurn
  <2>3. QED
    BY <2>1, <2>2, OverRetry
<1>7. CASE Established(h) /\ SameEpoch(h)
  <2>1. /\ Advance(h, "over") /\ Settles(h, "sending") /\ handshakes[h].stage = "established"
        /\ UNCHANGED <<wallet, sessionEpoch, cookie, live, disturbed>>
    BY <1>7 DEF Established, At, relay
  <2>2. /\ turn' \in TurnRecords
        /\ turn'.attempt # 2 \/ turn'.attempt = turn.attempt
        /\ turn'.phase = "idle" => turn'.attempt = 0
        /\ turn'.phase # "idle" => turn'.outcome = "none"
        /\ turn'.outcome = "refused" => turn' = turn
    BY <2>1, SettlesTurn
  <2>3. QED
    BY <1>7, <2>1, <2>2, OverRetry
<1>8. CASE Established(h) /\ ~SameEpoch(h)
  <2>1. /\ Advance(h, "over") /\ Settles(h, "failed")
        /\ UNCHANGED <<wallet, sessionEpoch, cachedSession, cookie, live, disturbed>>
    BY <1>8 DEF Established, relay
  <2>2. /\ turn' \in TurnRecords
        /\ turn'.attempt # 2 \/ turn'.attempt = turn.attempt
        /\ turn'.phase = "idle" => turn'.attempt = 0
        /\ turn'.phase # "idle" => turn'.outcome = "none"
        /\ turn'.outcome = "refused" => turn' = turn
        /\ turn'.phase = "sending" => turn' = turn
    BY <2>1, SettlesTurn
  <2>3. QED
    BY <2>1, <2>2, OverRetry
<1>9. QED
  BY <1>3, <1>4, <1>5, <1>6, <1>7, <1>8 DEF HandshakeSteps

\* A turn asks for a session only without one, so nothing can be sent with while it starts.
LEMMA StartRetry ==
  ASSUME EpochInv, RetryInv, EnsureStarts
  PROVE  RetryInv'
<1> DEFINE new == [address |-> wallet, epoch |-> sessionEpoch, stage |-> "status", aborted |-> FALSE]
           n == Len(handshakes) + 1
<1>1. handshakes \in Seq(HandshakeRecords) /\ Len(handshakes) \in Nat /\ turn \in TurnRecords
  BY DEF EpochInv, HandshakesOfTheirEpoch, RetryInv
<1>2. /\ handshakes' = Append(handshakes, new) /\ turn.phase = "ensuring"
      /\ UNCHANGED <<wallet, sessionEpoch, cachedSession, cookie, live, disturbed>>
  BY DEF EnsureStarts, relay
<1>3. cachedSession = NoSession
  BY DEF EnsureStarts, SessionFresh, EpochInv, CachedIsCurrent
<1>4. inFlightSession = 0
  BY DEF EnsureStarts, Joinable, EpochInv, HandshakesOfTheirEpoch, InFlightIsPresent
<1>5. new.stage = "status" /\ ~new.aborted
  OBVIOUS
<1> HIDE DEF new
<1>6. /\ DOMAIN handshakes' = DOMAIN handshakes \union {n} /\ handshakes'[n] = new /\ Len(handshakes') = n
      /\ \A h \in DOMAIN handshakes : h # 0 /\ handshakes'[h] = handshakes[h]
  BY <1>1, <1>2
<1>7. \A h \in DOMAIN handshakes : ~Alive(h)
  BY <1>4, <1>6 DEF EpochInv, OneHandshake
<1>8. \A h \in DOMAIN handshakes' : Alive(h)' => handshakes'[h].stage = "status"
  BY <1>5, <1>6, <1>7 DEF Alive
<1>9. turn' = [turn EXCEPT !.phase = "waiting", !.on = n]
  BY <1>6 DEF EnsureStarts
<1>10. /\ turn' \in TurnRecords /\ turn'.phase = "waiting" /\ turn'.outcome = turn.outcome
  <2> DEFINE once == [turn EXCEPT !.phase = "waiting"]
  <2>1. once \in TurnRecords /\ once.phase = "waiting" /\ once.attempt = turn.attempt /\ once.outcome = turn.outcome
    BY <1>1 DEF TurnRecords, TurnPhases
  <2>2. turn' = [once EXCEPT !.on = n]
    BY <1>9
  <2> HIDE DEF once
  <2>3. QED
    BY <1>1, <2>1, <2>2 DEF TurnRecords
<1>11. /\ turn.outcome = "none"
  BY <1>2 DEF RetryInv
<1>12. \A h \in DOMAIN handshakes' : handshakes'[h].aborted => handshakes'[h].epoch < sessionEpoch'
  BY <1>2, <1>5, <1>6 DEF RetryInv
<1>13. NothingToSendYet' /\ RetryHolds' /\ RetrySuffices'
  BY <1>2, <1>3, <1>8, <1>10, <1>11 DEF NothingToSendYet, RetryHolds, RetrySuffices
<1>14. QED
  BY <1>2, <1>10, <1>11, <1>12, <1>13 DEF RetryInv

LEMMA NextRetry == EpochInv /\ TurnsHaveWallets /\ RetryInv /\ [SessionNext]_sessionVars => RetryInv'
<1> SUFFICES ASSUME EpochInv, TurnsHaveWallets, RetryInv, [SessionNext]_sessionVars PROVE RetryInv'
  OBVIOUS
<1>1. turn \in TurnRecords /\ DOMAIN live = Accounts
  BY DEF RetryInv
<1>2. NoTurn \in TurnRecords /\ NoTurn.phase = "idle" /\ NoTurn.attempt = 0 /\ NoTurn.outcome = "none"
  BY DEF NoTurn, TurnRecords, TurnPhases
<1>3. ASSUME NEW w, SwitchWallet(w) PROVE RetryInv'
  <2>1. PICK times \in {1, 2} : InvalidateSession(times)
    BY <1>3 DEF SwitchWallet
  <2>2. turn' = NoTurn /\ UNCHANGED live
    BY <1>3 DEF SwitchWallet, relay
  <2>3. /\ cachedSession' = NoSession
        /\ \A h \in DOMAIN handshakes' : ~Alive(h)' /\ (handshakes'[h].aborted => handshakes'[h].epoch < sessionEpoch')
    BY <2>1, InvalidateRetry
  <2>4. QED
    BY <1>1, <1>2, <2>2, <2>3 DEF RetryInv, NothingToSendYet, RetryHolds, RetrySuffices
<1>4. CASE SendRefusedOnce
  <2>1. InvalidateSession(1) /\ turn' = [turn EXCEPT !.phase = "ensuring", !.attempt = 2] /\ UNCHANGED live
    BY <1>4 DEF SendRefusedOnce, relay
  <2>2. /\ cachedSession' = NoSession
        /\ \A h \in DOMAIN handshakes' : ~Alive(h)' /\ (handshakes'[h].aborted => handshakes'[h].epoch < sessionEpoch')
    BY <2>1, InvalidateRetry
  <2>3. turn' \in TurnRecords /\ turn'.phase = "ensuring" /\ turn'.outcome = turn.outcome
    <3> DEFINE once == [turn EXCEPT !.phase = "ensuring"]
    <3>1. once \in TurnRecords /\ once.phase = "ensuring" /\ once.outcome = turn.outcome
      BY <1>1 DEF TurnRecords, TurnPhases
    <3>2. turn' = [once EXCEPT !.attempt = 2]
      BY <2>1
    <3> HIDE DEF once
    <3>3. QED
      BY <3>1, <3>2 DEF TurnRecords
  <2>4. turn.outcome = "none"
    BY <1>4 DEF RetryInv, SendRefusedOnce
  <2>5. QED
    BY <1>1, <2>1, <2>2, <2>3, <2>4 DEF RetryInv, NothingToSendYet, RetryHolds, RetrySuffices
<1>5. CASE UNCHANGED sessionVars \/ CachedExpires
  BY <1>1, <1>5, QuietRetry DEF sessionVars, CachedExpires
<1>6. ASSUME NEW l, LogoutArrives(l) \/ LogoutReplies(l) PROVE RetryInv'
  BY <1>1, <1>6, QuietRetry DEF LogoutArrives, LogoutReplies, relay
<1>7. ASSUME NEW w \in Accounts, RelayForgets(w) PROVE RetryInv'
  BY <1>1, <1>7, QuietRetry DEF RelayForgets
<1>8. ASSUME NEW h \in DOMAIN handshakes, HandshakeSteps(h) PROVE RetryInv'
  BY <1>8, HandshakeRetry
<1>9. CASE BeginTurn
  <2>1. turn' = [NoTurn EXCEPT !.phase = "ensuring", !.attempt = 1]
    BY <1>9 DEF BeginTurn
  <2>2. turn' \in TurnRecords /\ turn'.phase = "ensuring" /\ turn'.attempt = 1 /\ turn'.outcome = "none"
    <3> DEFINE once == [NoTurn EXCEPT !.phase = "ensuring"]
    <3>1. once \in TurnRecords /\ once.phase = "ensuring" /\ once.outcome = NoTurn.outcome
      BY <1>2 DEF TurnRecords, TurnPhases
    <3>2. turn' = [once EXCEPT !.attempt = 1]
      BY <2>1
    <3> HIDE DEF once
    <3>3. QED
      BY <1>2, <3>1, <3>2 DEF TurnRecords
  <2>3. QED
    BY <1>9, <2>2, TurnRetry DEF BeginTurn, relay
<1>10. CASE StopTurn
  BY <1>2, <1>10, TurnRetry DEF StopTurn, relay
<1>11. CASE EnsureCached
  <2>1. turn' = [turn EXCEPT !.phase = "sending"] /\ turn.phase = "ensuring"
    BY <1>11 DEF EnsureCached
  <2>2. /\ turn' \in TurnRecords /\ turn'.phase = "sending" /\ turn'.attempt = turn.attempt /\ turn'.outcome = turn.outcome
    BY <1>1, <2>1 DEF TurnRecords, TurnPhases
  <2>3. turn.outcome = "none"
    BY <2>1 DEF RetryInv
  <2>4. cachedSession # NoSession
    BY <1>11, <2>1 DEF EnsureCached, SessionFresh, NoSession, TurnsHaveWallets
  <2>5. QED
    BY <1>11, <2>2, <2>3, <2>4, TurnRetry DEF EnsureCached, relay
<1>12. CASE EnsureJoins
  <2>1. turn' = [turn EXCEPT !.phase = "waiting", !.on = inFlightSession] /\ turn.phase = "ensuring"
    BY <1>12 DEF EnsureJoins
  <2>2. inFlightSession \in Nat
    <3>1. inFlightSession \in DOMAIN handshakes /\ handshakes \in Seq(HandshakeRecords)
      BY <1>12 DEF EnsureJoins, Joinable, EpochInv, InFlightIsPresent, HandshakesOfTheirEpoch
    <3>2. QED
      BY <3>1
  <2>3. /\ turn' \in TurnRecords /\ turn'.phase = "waiting" /\ turn'.attempt = turn.attempt /\ turn'.outcome = turn.outcome
    <3> DEFINE once == [turn EXCEPT !.phase = "waiting"]
    <3>1. once \in TurnRecords /\ once.phase = "waiting" /\ once.attempt = turn.attempt /\ once.outcome = turn.outcome
      BY <1>1 DEF TurnRecords, TurnPhases
    <3>2. turn' = [once EXCEPT !.on = inFlightSession]
      BY <2>1
    <3> HIDE DEF once
    <3>3. QED
      BY <2>2, <3>1, <3>2 DEF TurnRecords
  <2>4. turn.outcome = "none"
    BY <2>1 DEF RetryInv
  <2>5. QED
    BY <1>12, <2>3, <2>4, TurnRetry DEF EnsureJoins, relay
<1>13. CASE EnsureStarts
  BY <1>13, StartRetry
<1>14. CASE SendAccepted \/ SendRefused
  <2>1. PICK outcome \in {"accepted", "refused"} :
          Sent(outcome) /\ (outcome = "refused" => turn.phase = "sending" /\ turn.attempt = 2 /\ ~Accepted)
    BY <1>14 DEF SendAccepted, SendRefused
  <2>2. turn' = [NoTurn EXCEPT !.outcome = outcome]
    BY <2>1 DEF Sent
  <2>3. turn' \in TurnRecords /\ turn'.phase = "idle" /\ turn'.attempt = 0 /\ turn'.outcome = outcome
    BY <2>2 DEF NoTurn, TurnRecords, TurnPhases
  <2>4. outcome = "refused" => disturbed
    BY <2>1 DEF RetryInv, RetryHolds
  <2>5. QED
    BY <2>1, <2>3, <2>4, TurnRetry DEF Sent, relay
<1>15. QED
  BY <1>3, <1>4, <1>5, <1>6, <1>7, <1>8, <1>9, <1>10, <1>11, <1>12, <1>13, <1>14 DEF SessionNext, TurnSteps

-----------------------------------------------------------------------------
\* Nothing established before an invalidation is trusted after it, for the wallet that is
\* connected now or any other (establishMorpheusSession compares the epoch before it caches).
THEOREM PresentSession == SessionSpec => []CachedIsCurrent
<1>1. EpochInv => CachedIsCurrent
  BY DEF EpochInv
<1>2. QED
  BY <1>1, InitEpoch, InitTurns, NextEpoch, NextTurns, PTL DEF SessionSpec

\* The page has one handshake under way at most, the one further turns join
\* (ensureMorpheusSession shares the promise in flight).
THEOREM SharedHandshake == SessionSpec => []OneHandshake
<1>1. EpochInv => OneHandshake
  BY DEF EpochInv
<1>2. QED
  BY <1>1, InitEpoch, InitTurns, NextEpoch, NextTurns, PTL DEF SessionSpec

\* A turn is refused for good only if something outside it took its session away while it
\* retried (fetchWithMorpheusSession tries once more after a 401, with a session of its own).
THEOREM OneRetryIsEnough == SessionSpec => []RetrySuffices
<1>1. RetryInv => RetrySuffices
  BY DEF RetryInv
<1>2. QED
  BY <1>1, InitEpoch, InitTurns, InitRetry, NextEpoch, NextTurns, NextRetry, PTL DEF SessionSpec
-----------------------------------------------------------------------------
(***************************************************************************)
(* The types that the run checks, of the three components for any          *)
(* constants, and then of all of them next to each other.  That sessions   *)
(* need no bound of their own takes counting: every session was bought     *)
(* with a challenge, so the sessions issued and the challenges still held  *)
(* are together no more than the challenges issued.                        *)
(***************************************************************************)

ChallengesPay == issued.session + Cardinality(Ids(challenges)) <= issued.challenge

LoginTyped == LoginTypeOK /\ ChallengesPay

\* A store keeps its type when entries leave it, when more identifiers are issued, and when an
\* entry is put.
LEMMA DeletingIsTyped ==
  ASSUME NEW st, NEW ids, StoreType(st, ids), NEW S
  PROVE  StoreType(DeleteAll(st, S), ids)
<1>1. /\ Ids(DeleteAll(st, S)) = Ids(st) \ S
      /\ \A id \in Ids(st) \ S : DeleteAll(st, S).entries[id] = st.entries[id]
  BY DeleteAllEntries
<1>2. PICK gone : gone = UNION {Unindexed(st, id) : id \in S}
  OBVIOUS
<1>3. DeleteAll(st, S) = [entries |-> Without(st.entries, S), byAddress |-> Without(st.byAddress, gone)]
  BY <1>2 DEF DeleteAll
<1>4. DOMAIN DeleteAll(st, S) = {"entries", "byAddress"} /\ DeleteAll(st, S).byAddress = Without(st.byAddress, gone)
  BY <1>3
<1>5. /\ DOMAIN Without(st.byAddress, gone) \subseteq DOMAIN st.byAddress
      /\ \A a \in DOMAIN Without(st.byAddress, gone) : Without(st.byAddress, gone)[a] = st.byAddress[a]
  BY DEF Without
<1>6. QED
  BY <1>1, <1>4, <1>5 DEF StoreType

LEMMA MoreIdsAreTyped ==
  ASSUME NEW st, NEW ids, NEW more, ids \subseteq more, StoreType(st, ids)
  PROVE  StoreType(st, more)
BY DEF StoreType

LEMMA PuttingIsTyped ==
  ASSUME NEW st, NEW ids, StoreType(st, ids), NEW id \in ids, NEW entry \in Entry
  PROVE  StoreType(Put(st, id, entry), ids)
<1>1. /\ Ids(Put(st, id, entry)) = Ids(st) \union {id} /\ Put(st, id, entry).entries[id] = entry
      /\ \A x \in Ids(st) \ {id} : Put(st, id, entry).entries[x] = st.entries[x]
  BY PutEntries
<1>2. entry.address \in Wallets
  BY DEF Entry
<1>3. PICK index : index = [a \in DOMAIN st.byAddress \union {entry.address} |->
                              IF a = entry.address THEN id ELSE st.byAddress[a]]
  OBVIOUS
<1>4. DOMAIN Put(st, id, entry) = {"entries", "byAddress"} /\ Put(st, id, entry).byAddress = index
  BY <1>3 DEF Put
<1>5. /\ DOMAIN index = DOMAIN st.byAddress \union {entry.address}
      /\ \A a \in DOMAIN index : index[a] = id \/ (a \in DOMAIN st.byAddress /\ index[a] = st.byAddress[a])
  BY <1>3
<1>6. QED
  BY <1>1, <1>2, <1>4, <1>5 DEF StoreType

\* What create() makes of a store that was typed, with the identifier it is given.
LEMMA CreatingIsTyped ==
  ASSUME NEW st, NEW n \in Nat, StoreType(st, 1..n), NEW w \in Wallets, NEW time \in Nat
  PROVE  /\ StoreType(ChallengeCreate(st, n + 1, w, time), 1..(n + 1))
         /\ StoreType(SessionCreate(st, n + 1, w, time), 1..(n + 1))
<1>1. PICK pruned : pruned = Prune(st, time)
  OBVIOUS
<1>2. StoreType(pruned, 1..(n + 1))
  <2>1. StoreType(pruned, 1..n)
    BY <1>1, DeletingIsTyped DEF Prune
  <2>2. 1..n \subseteq 1..(n + 1)
    OBVIOUS
  <2>3. QED
    BY <2>1, <2>2, MoreIdsAreTyped
<1>3. n + 1 \in 1..(n + 1)
  OBVIOUS
<1>4. ASSUME NEW ttl \in Nat, NEW capacity
      PROVE  StoreType(Put(DeleteAll(pruned, Displaced(pruned, w, capacity)), n + 1,
                           [address |-> w, expiresAt |-> time + ttl]), 1..(n + 1))
  <2>1. StoreType(DeleteAll(pruned, Displaced(pruned, w, capacity)), 1..(n + 1))
    BY <1>2, DeletingIsTyped
  <2>2. time + ttl \in Nat
    OBVIOUS
  <2>3. [address |-> w, expiresAt |-> time + ttl] \in Entry
    BY <2>2 DEF Entry
  <2>4. QED
    BY <1>3, <2>1, <2>3, PuttingIsTyped
<1>5. ChallengeTtl \in Nat /\ SessionTtl \in Nat
  BY LimitsAssumption
<1>6. StoreType(ChallengeCreate(st, n + 1, w, time), 1..(n + 1))
  BY <1>1, <1>4, <1>5 DEF ChallengeCreate
<1>7. StoreType(SessionCreate(st, n + 1, w, time), 1..(n + 1))
  BY <1>1, <1>4, <1>5 DEF SessionCreate
<1>8. QED
  BY <1>6, <1>7

-----------------------------------------------------------------------------
LEMMA InitLoginTypes == LoginInit => LoginTyped
<1> SUFFICES ASSUME LoginInit PROVE LoginTyped
  OBVIOUS
<1>1. /\ loginNow = 0 /\ issued = [challenge |-> 0, session |-> 0] /\ logins = {}
      /\ challenges = EmptyStore /\ sessions = EmptyStore
  BY DEF LoginInit
<1>2. Ids(EmptyStore) = {} /\ DOMAIN EmptyStore = {"entries", "byAddress"} /\ DOMAIN EmptyStore.byAddress = {}
  BY DEF EmptyStore, Ids
<1>3. StoreType(EmptyStore, 1..0)
  BY <1>2 DEF StoreType
<1>4. LastChallenge \in Nat /\ LastLoginTime \in Nat
  BY LimitsAssumption
<1>5. Cardinality(Ids(challenges)) = 0
  BY <1>1, <1>2, FS_EmptySet
<1>6. LoginTypeOK
  BY <1>1, <1>3, <1>4 DEF LoginTypeOK
<1>7. QED
  BY <1>1, <1>5, <1>6 DEF LoginTyped, ChallengesPay

\* Entries that only leave the stores disturb no type, and make room for the count.
LEMMA LeavingIsTyped ==
  ASSUME LoginTyped, UNCHANGED <<issued, logins>>, loginNow' \in 0..LastLoginTime,
         NEW S, challenges' = DeleteAll(challenges, S) \/ challenges' = challenges,
         NEW T, sessions' = DeleteAll(sessions, T) \/ sessions' = sessions
  PROVE  LoginTyped'
<1>1. /\ StoreType(challenges, 1..issued.challenge) /\ StoreType(sessions, 1..issued.session)
      /\ issued \in [challenge : 0..LastChallenge, session : 0..LastChallenge] /\ LastChallenge \in Nat
  BY LimitsAssumption DEF LoginTyped, LoginTypeOK
<1>2. StoreType(challenges', 1..issued.challenge) /\ StoreType(sessions', 1..issued.session)
  BY <1>1, DeletingIsTyped
<1>3. LoginTypeOK'
  BY <1>2 DEF LoginTyped, LoginTypeOK
<1>4. issued.challenge \in Nat /\ issued.session \in Nat
  BY <1>1
<1>5. Ids(challenges') \subseteq Ids(challenges) /\ Ids(challenges) \subseteq 1..issued.challenge
  BY <1>1, DeleteAllEntries DEF StoreType
<1>6. IsFiniteSet(Ids(challenges))
  <2>1. \A n \in Nat : IsFiniteSet(1..n)
    BY FS_Interval
  <2>2. QED
    BY <1>4, <1>5, <2>1, FS_Subset
<1>7. /\ Cardinality(Ids(challenges')) \in Nat /\ Cardinality(Ids(challenges)) \in Nat
      /\ Cardinality(Ids(challenges')) <= Cardinality(Ids(challenges))
  BY <1>5, <1>6, FS_CardinalityType, FS_Subset
<1>8. ChallengesPay'
  BY <1>4, <1>7 DEF LoginTyped, ChallengesPay
<1>9. QED
  BY <1>3, <1>8 DEF LoginTyped

LEMMA ChallengeIsTyped ==
  ASSUME LoginTyped, NEW w \in Wallets, HandleChallenge(w)
  PROVE  LoginTyped'
<1>1. /\ loginNow \in 0..LastLoginTime /\ LastLoginTime \in Nat /\ LastChallenge \in Nat
      /\ StoreType(challenges, 1..issued.challenge) /\ StoreType(sessions, 1..issued.session)
      /\ issued \in [challenge : 0..LastChallenge, session : 0..LastChallenge]
  BY LimitsAssumption DEF LoginTyped, LoginTypeOK
<1>2. PICK n \in Nat : n = issued.challenge
  BY <1>1
<1>3. issued.session \in Nat /\ loginNow \in Nat /\ n < LastChallenge
  BY <1>1, <1>2 DEF HandleChallenge
<1>4. /\ challenges' = ChallengeCreate(challenges, n + 1, w, loginNow)
      /\ issued'.challenge = n + 1 /\ issued'.session = issued.session
      /\ issued' \in [challenge : 0..LastChallenge, session : 0..LastChallenge]
      /\ UNCHANGED <<loginNow, sessions, logins>>
  BY <1>1, <1>2, <1>3 DEF HandleChallenge
<1>5. StoreType(challenges', 1..(n + 1))
  BY <1>1, <1>2, <1>3, <1>4, CreatingIsTyped
<1>6. LoginTypeOK'
  BY <1>1, <1>4, <1>5 DEF LoginTyped, LoginTypeOK
<1>7. Ids(challenges') \subseteq Ids(challenges) \union {n + 1} /\ Ids(challenges) \subseteq 1..n
  BY <1>1, <1>2, <1>4, ChallengeCreateEntries DEF StoreType
<1>8. IsFiniteSet(Ids(challenges)) /\ n + 1 \notin Ids(challenges)
  <2>1. IsFiniteSet(1..n)
    BY <1>2, FS_Interval
  <2>2. QED
    BY <1>7, <2>1, FS_Subset
<1>9. /\ IsFiniteSet(Ids(challenges) \union {n + 1})
      /\ Cardinality(Ids(challenges) \union {n + 1}) = Cardinality(Ids(challenges)) + 1
  BY <1>8, FS_AddElement
<1>10. /\ Cardinality(Ids(challenges)) \in Nat /\ Cardinality(Ids(challenges')) \in Nat
       /\ Cardinality(Ids(challenges')) <= Cardinality(Ids(challenges)) + 1
  BY <1>7, <1>8, <1>9, FS_CardinalityType, FS_Subset
<1>11. ChallengesPay'
  BY <1>2, <1>3, <1>4, <1>10 DEF LoginTyped, ChallengesPay
<1>12. QED
  BY <1>6, <1>11 DEF LoginTyped

\* The challenge that pays for the session leaves the store.
LEMMA SessionIsTyped ==
  ASSUME LoginTyped, NEW id, NEW signer \in Wallets, NEW presented, HandleSessionCreate(id, signer, presented)
  PROVE  LoginTyped'
<1>1. /\ loginNow \in 0..LastLoginTime /\ LastLoginTime \in Nat /\ LastChallenge \in Nat
      /\ StoreType(challenges, 1..issued.challenge) /\ StoreType(sessions, 1..issued.session)
      /\ issued \in [challenge : 0..LastChallenge, session : 0..LastChallenge]
      /\ logins \subseteq [challenge : ChallengeIds, session : SessionIds, signer : Wallets]
  BY LimitsAssumption DEF LoginTyped, LoginTypeOK
<1>2. PICK n \in Nat : n = issued.session
  BY <1>1
<1>3. issued.challenge \in Nat /\ issued.challenge <= LastChallenge /\ loginNow \in Nat
  BY <1>1
<1>4. id \in Ids(challenges) /\ Ids(challenges) \subseteq 1..issued.challenge
  BY <1>1 DEF HandleSessionCreate, ChallengeUsable, StoreType
<1>5. IsFiniteSet(Ids(challenges))
  <2>1. IsFiniteSet(1..issued.challenge)
    BY <1>3, FS_Interval
  <2>2. QED
    BY <1>4, <2>1, FS_Subset
<1>6. /\ Ids(challenges') = Ids(challenges) \ {id}
      /\ Cardinality(Ids(challenges')) = Cardinality(Ids(challenges)) - 1
  BY <1>4, <1>5, DeleteEntries, FS_RemoveElement DEF HandleSessionCreate, ConsumeChallenge
<1>7. Cardinality(Ids(challenges)) \in Nat /\ Cardinality(Ids(challenges')) \in Nat
  BY <1>4, <1>5, <1>6, FS_CardinalityType, FS_RemoveElement
<1>8. n + Cardinality(Ids(challenges)) <= issued.challenge
  BY <1>2 DEF LoginTyped, ChallengesPay
<1>9. n + 1 <= issued.challenge
  BY <1>3, <1>6, <1>7, <1>8
<1>10. /\ issued'.challenge = issued.challenge /\ issued'.session = n + 1
       /\ issued' = [issued EXCEPT !.session = n + 1] /\ UNCHANGED loginNow
       /\ logins' = logins \union {[challenge |-> id, session |-> n + 1, signer |-> signer]}
       /\ sessions' = SessionCreate(AfterPeek(sessions, presented, signer, loginNow), n + 1, signer, loginNow)
  BY <1>1, <1>2 DEF HandleSessionCreate
<1>11. issued' \in [challenge : 0..LastChallenge, session : 0..LastChallenge]
  <2>1. n + 1 \in 0..LastChallenge
    BY <1>1, <1>3, <1>9
  <2>2. QED
    BY <1>1, <1>10, <2>1
<1>12. logins' \subseteq [challenge : ChallengeIds, session : SessionIds, signer : Wallets]
  <2>1. id \in ChallengeIds /\ n + 1 \in SessionIds
    BY <1>1, <1>3, <1>4, <1>9 DEF ChallengeIds, SessionIds
  <2>2. [challenge |-> id, session |-> n + 1, signer |-> signer]
          \in [challenge : ChallengeIds, session : SessionIds, signer : Wallets]
    BY <2>1
  <2>3. QED
    BY <1>1, <1>10, <2>2
<1>13. StoreType(challenges', 1..issued.challenge)
  BY <1>1, DeletingIsTyped DEF HandleSessionCreate, ConsumeChallenge, Delete
<1>14. PICK peeked : peeked = AfterPeek(sessions, presented, signer, loginNow)
  OBVIOUS
<1>15. StoreType(peeked, 1..n)
  BY <1>1, <1>2, <1>14, DeletingIsTyped DEF AfterPeek, Delete
<1>16. StoreType(sessions', 1..(n + 1))
  BY <1>3, <1>10, <1>14, <1>15, CreatingIsTyped
<1>17. LoginTypeOK'
  BY <1>1, <1>10, <1>11, <1>12, <1>13, <1>16 DEF LoginTypeOK
<1>18. ChallengesPay'
  BY <1>3, <1>6, <1>7, <1>8, <1>10 DEF ChallengesPay
<1>19. QED
  BY <1>17, <1>18 DEF LoginTyped

LEMMA NextLoginTypes == LoginTyped /\ [LoginNext]_loginVars => LoginTyped'
<1> SUFFICES ASSUME LoginTyped, [LoginNext]_loginVars PROVE LoginTyped'
  OBVIOUS
<1>1. loginNow \in 0..LastLoginTime /\ LastLoginTime \in Nat
  BY LimitsAssumption DEF LoginTyped, LoginTypeOK
<1>2. CASE LoginTick \/ UNCHANGED loginVars
  <2>1. loginNow' \in 0..LastLoginTime /\ UNCHANGED <<challenges, sessions, issued, logins>>
    BY <1>1, <1>2 DEF LoginTick, loginVars
  <2>2. QED
    BY <2>1, LeavingIsTyped
<1>3. ASSUME NEW w \in Wallets, HandleChallenge(w) PROVE LoginTyped'
  BY <1>3, ChallengeIsTyped
<1>4. ASSUME NEW id, NEW w \in Wallets, NEW presented, HandleSessionCreate(id, w, presented) PROVE LoginTyped'
  BY <1>4, SessionIsTyped
<1>5. ASSUME NEW id, NEW w \in Wallets, HandleSessionRefused(id, w) PROVE LoginTyped'
  <2>1. challenges' = DeleteAll(challenges, {id}) /\ UNCHANGED <<loginNow, sessions, issued, logins>>
    BY <1>5 DEF HandleSessionRefused, ConsumeChallenge, Delete
  <2>2. QED
    BY <1>1, <2>1, LeavingIsTyped
<1>6. ASSUME NEW presented, HandleStatus(presented) \/ HandleLogout(presented) PROVE LoginTyped'
  <2>1. sessions' = DeleteAll(sessions, {presented}) /\ UNCHANGED <<loginNow, challenges, issued, logins>>
    BY <1>6 DEF HandleStatus, HandleLogout, Delete
  <2>2. QED
    BY <1>1, <2>1, LeavingIsTyped
<1>7. QED
  BY <1>2, <1>3, <1>4, <1>5, <1>6 DEF LoginNext

-----------------------------------------------------------------------------
\* What EpochInv and RetryInv leave open of the types: the turn waits for a handshake that was
\* started, and the relay's sessions and the cookie are named after handshakes within the bound.
NamesInBounds ==
  /\ cachedSession \in [address : Accounts \union {NoAccount}, epoch : Nat]
  /\ Len(handshakes) <= Handshakes
  /\ turn.on \in 0..Len(handshakes)
  /\ cookie \in 0..Handshakes
  /\ live \in [Accounts -> 0..Handshakes]
  /\ disturbed \in BOOLEAN

LEMMA ClientIsTyped ==
  ASSUME EpochInv, TurnsHaveWallets, RetryInv, NamesInBounds
  PROVE  SessionTypeOK
<1>1. /\ sessionEpoch \in Nat /\ handshakes \in Seq(HandshakeRecords)
      /\ inFlightSession \in {0} \union DOMAIN handshakes
  BY DEF EpochInv, HandshakesOfTheirEpoch, InFlightIsPresent
<1>2. \A h \in DOMAIN handshakes : handshakes[h] \in HandshakeRecords
  BY <1>1
<1>3. turn.on \in {0} \union DOMAIN handshakes
  BY <1>1 DEF NamesInBounds
<1>4. turn \in [phase : TurnPhases, on : {0} \union DOMAIN handshakes, attempt : 0..2,
                outcome : {"none", "failed", "accepted", "refused"}]
  BY <1>3 DEF RetryInv, TurnRecords
<1>5. QED
  BY <1>1, <1>2, <1>4 DEF SessionTypeOK, HandshakeRecords, TurnsHaveWallets, NamesInBounds

LEMMA InitNames == SessionInit => NamesInBounds
<1> SUFFICES ASSUME SessionInit PROVE NamesInBounds
  OBVIOUS
<1>1. 0 \in 0..Handshakes /\ 0 <= Handshakes /\ Len(handshakes) = 0
  BY MorpheusAssumption DEF SessionInit
<1>2. turn.on = 0 /\ live = [w \in Accounts |-> 0] /\ cookie = 0 /\ disturbed = FALSE
  BY DEF SessionInit, NoTurn
<1>3. cachedSession \in [address : Accounts \union {NoAccount}, epoch : Nat]
  BY DEF SessionInit, NoSession
<1>4. live \in [Accounts -> 0..Handshakes]
  BY <1>1, <1>2
<1>5. turn.on \in 0..Len(handshakes)
  BY <1>1, <1>2
<1>6. disturbed \in BOOLEAN /\ cookie \in 0..Handshakes /\ Len(handshakes) <= Handshakes
  BY <1>1, <1>2
<1>7. QED
  BY <1>3, <1>4, <1>5, <1>6 DEF NamesInBounds

\* The handshakes stay as many when one of them moves, or when the one in flight is aborted.
LEMMA AsManyHandshakes ==
  ASSUME EpochInv
  PROVE  /\ Len(handshakes) \in Nat /\ DOMAIN handshakes = 1..Len(handshakes)
         /\ \A h, stage : Advance(h, stage) => Len(handshakes') = Len(handshakes)
         /\ \A times : InvalidateSession(times) => Len(handshakes') = Len(handshakes)
<1>1. handshakes \in Seq(HandshakeRecords)
  BY DEF EpochInv, HandshakesOfTheirEpoch
<1>2. Len(AbortedInFlight) = Len(handshakes)
  BY <1>1 DEF AbortedInFlight
<1>3. QED
  BY <1>1, <1>2 DEF Advance, InvalidateSession

LEMMA SettledNames ==
  ASSUME EpochInv, RetryInv, NamesInBounds, NEW h, NEW phase, Settles(h, phase)
  PROVE  turn'.on \in 0..Len(handshakes)
<1>1. turn \in TurnRecords /\ turn.on \in 0..Len(handshakes) /\ 0 \in 0..Len(handshakes)
  BY AsManyHandshakes DEF RetryInv, NamesInBounds
<1>2. [turn EXCEPT !.phase = phase].on = turn.on
  BY <1>1 DEF TurnRecords
<1>3. [NoTurn EXCEPT !.outcome = phase].on = 0
  BY DEF NoTurn
<1>4. turn' = turn \/ turn' = [turn EXCEPT !.phase = phase] \/ turn' = [NoTurn EXCEPT !.outcome = phase]
  BY DEF Settles
<1>5. QED
  BY <1>1, <1>2, <1>3, <1>4

LEMMA HandshakeNames ==
  ASSUME EpochInv, RetryInv, NamesInBounds, NEW h \in DOMAIN handshakes, HandshakeSteps(h)
  PROVE  NamesInBounds'
<1>1. /\ handshakes \in Seq(HandshakeRecords) /\ h \in 1..Len(handshakes) /\ Len(handshakes) \in Nat
      /\ handshakes[h] \in HandshakeRecords /\ Handshakes \in Nat /\ sessionEpoch \in Nat
  BY MorpheusAssumption DEF EpochInv, HandshakesOfTheirEpoch
<1>2. /\ Len(handshakes) <= Handshakes /\ turn.on \in 0..Len(handshakes) /\ cookie \in 0..Handshakes
      /\ live \in [Accounts -> 0..Handshakes] /\ disturbed \in BOOLEAN
      /\ cachedSession \in [address : Accounts \union {NoAccount}, epoch : Nat]
  BY DEF NamesInBounds
<1>3. h \in 0..Handshakes
  BY <1>1, <1>2
<1>4. Len(handshakes') = Len(handshakes)
  BY AsManyHandshakes DEF HandshakeSteps, StatusChecked, Challenged, Signed, Submitted, SessionReplied,
                          LateReply, Established, HandshakeFails
<1>5. turn'.on \in 0..Len(handshakes)
  <2>1. turn' = turn \/ \E phase : Settles(h, phase)
    BY DEF HandshakeSteps, StatusChecked, Challenged, Signed, Submitted, SessionReplied, LateReply,
           Established, HandshakeFails
  <2>2. QED
    BY <1>2, <2>1, SettledNames
<1>6. cookie' \in 0..Handshakes /\ disturbed' \in BOOLEAN
  BY <1>2, <1>3 DEF HandshakeSteps, StatusChecked, Challenged, Signed, Submitted, SessionReplied, LateReply,
                    Established, HandshakeFails
<1>7. live' \in [Accounts -> 0..Handshakes]
  <2>1. live' = live \/ live' = [live EXCEPT ![handshakes[h].address] = h]
    BY DEF HandshakeSteps, StatusChecked, Challenged, Signed, Submitted, SessionReplied, LateReply,
           Established, HandshakeFails, relay
  <2>2. QED
    BY <1>2, <1>3, <2>1
<1>8. cachedSession' \in [address : Accounts \union {NoAccount}, epoch : Nat]
  <2>1. \/ cachedSession' = cachedSession
        \/ cachedSession' = [address |-> handshakes[h].address, epoch |-> handshakes[h].epoch]
    BY DEF HandshakeSteps, StatusChecked, Challenged, Signed, Submitted, SessionReplied, LateReply,
           Established, HandshakeFails
  <2>2. handshakes[h].address \in Accounts /\ handshakes[h].epoch \in Nat
    BY <1>1 DEF HandshakeRecords
  <2>3. QED
    BY <1>2, <2>1, <2>2
<1>9. QED
  BY <1>2, <1>4, <1>5, <1>6, <1>7, <1>8 DEF NamesInBounds

\* The other steps of the turn and of the session: they start no handshake.
LEMMA NoNewNames ==
  ASSUME EpochInv, NamesInBounds, Len(handshakes') = Len(handshakes),
         turn'.on \in 0..Len(handshakes), cookie' = cookie \/ cookie' = 0,
         live' \in [Accounts -> 0..Handshakes], disturbed' \in BOOLEAN,
         cachedSession' = cachedSession \/ cachedSession' = NoSession
  PROVE  NamesInBounds'
<1>1. Handshakes \in Nat /\ NoSession \in [address : Accounts \union {NoAccount}, epoch : Nat]
  BY MorpheusAssumption DEF NoSession
<1>2. QED
  BY <1>1 DEF NamesInBounds

LEMMA StartNames ==
  ASSUME EpochInv, RetryInv, NamesInBounds, EnsureStarts
  PROVE  NamesInBounds'
<1>1. /\ handshakes \in Seq(HandshakeRecords) /\ Len(handshakes) \in Nat
      /\ Len(handshakes) < Handshakes /\ Handshakes \in Nat
  BY MorpheusAssumption DEF EpochInv, HandshakesOfTheirEpoch, EnsureStarts
<1>2. Len(handshakes') = Len(handshakes) + 1
  BY <1>1 DEF EnsureStarts
<1>3. turn'.on = Len(handshakes) + 1
  <2>1. turn \in TurnRecords
    BY DEF RetryInv
  <2>2. PICK once : once = [turn EXCEPT !.phase = "waiting"]
    OBVIOUS
  <2>3. DOMAIN once = DOMAIN turn /\ "on" \in DOMAIN turn
    BY <2>1, <2>2 DEF TurnRecords
  <2>4. turn' = [once EXCEPT !.on = Len(handshakes) + 1]
    BY <1>2, <2>2 DEF EnsureStarts
  <2>5. QED
    BY <2>3, <2>4
<1>4. UNCHANGED <<cachedSession, cookie, live, disturbed>>
  BY DEF EnsureStarts, relay
<1>5. QED
  BY <1>1, <1>2, <1>3, <1>4 DEF NamesInBounds

LEMMA NextNames ==
  ASSUME EpochInv, TurnsHaveWallets, RetryInv, NamesInBounds, [SessionNext]_sessionVars
  PROVE  NamesInBounds'
<1>1. /\ turn \in TurnRecords /\ turn.on \in 0..Len(handshakes) /\ Len(handshakes) \in Nat
      /\ live \in [Accounts -> 0..Handshakes] /\ disturbed \in BOOLEAN /\ Handshakes \in Nat
  BY AsManyHandshakes, MorpheusAssumption DEF RetryInv, NamesInBounds
<1>2. NoTurn.on = 0 /\ 0 \in 0..Len(handshakes)
  BY <1>1 DEF NoTurn
<1>3. ASSUME NEW w, SwitchWallet(w) PROVE NamesInBounds'
  <2>1. PICK times : InvalidateSession(times)
    BY <1>3 DEF SwitchWallet
  <2>2. Len(handshakes') = Len(handshakes) /\ cachedSession' = NoSession
    BY <2>1, AsManyHandshakes DEF InvalidateSession
  <2>3. turn' = NoTurn /\ UNCHANGED <<cookie, live, disturbed>>
    BY <1>3 DEF SwitchWallet, relay
  <2>4. QED
    BY <1>1, <1>2, <2>2, <2>3, NoNewNames
<1>4. CASE SendRefusedOnce
  <2>1. Len(handshakes') = Len(handshakes) /\ cachedSession' = NoSession
    BY <1>4, AsManyHandshakes DEF SendRefusedOnce, InvalidateSession
  <2>2. UNCHANGED <<cookie, live>> /\ disturbed' = FALSE
    BY <1>4 DEF SendRefusedOnce, relay
  <2>3. turn'.on = turn.on
    <3>1. PICK once : once = [turn EXCEPT !.phase = "ensuring"]
      OBVIOUS
    <3>2. once.on = turn.on /\ DOMAIN once = DOMAIN turn /\ "on" \in DOMAIN turn
      BY <1>1, <3>1 DEF TurnRecords
    <3>3. turn' = [once EXCEPT !.attempt = 2]
      BY <1>4, <3>1 DEF SendRefusedOnce
    <3>4. QED
      BY <3>2, <3>3
  <2>4. QED
    BY <1>1, <2>1, <2>2, <2>3, NoNewNames
<1>5. CASE UNCHANGED sessionVars \/ CachedExpires
  BY <1>1, <1>5, NoNewNames DEF sessionVars, CachedExpires
<1>6. ASSUME NEW l, LogoutArrives(l) \/ LogoutReplies(l) PROVE NamesInBounds'
  <2>1. live' \in [Accounts -> 0..Handshakes]
    BY <1>1, <1>6 DEF LogoutArrives, LogoutReplies, relay
  <2>2. UNCHANGED <<handshakes, turn, cachedSession>> /\ disturbed' = TRUE /\ (cookie' = cookie \/ cookie' = 0)
    BY <1>6 DEF LogoutArrives, LogoutReplies
  <2>3. QED
    BY <1>1, <2>1, <2>2, NoNewNames
<1>7. ASSUME NEW w \in Accounts, RelayForgets(w) PROVE NamesInBounds'
  <2>1. live' \in [Accounts -> 0..Handshakes]
    BY <1>1, <1>7 DEF RelayForgets
  <2>2. UNCHANGED <<handshakes, turn, cachedSession, cookie>> /\ disturbed' = TRUE
    BY <1>7 DEF RelayForgets
  <2>3. QED
    BY <1>1, <2>1, <2>2, NoNewNames
<1>8. ASSUME NEW h \in DOMAIN handshakes, HandshakeSteps(h) PROVE NamesInBounds'
  BY <1>8, HandshakeNames
<1>9. CASE BeginTurn
  <2>1. turn'.on = 0
    BY <1>9 DEF BeginTurn, NoTurn
  <2>2. QED
    BY <1>1, <1>2, <1>9, <2>1, NoNewNames DEF BeginTurn, relay
<1>10. CASE StopTurn
  BY <1>1, <1>2, <1>10, NoNewNames DEF StopTurn, relay
<1>11. CASE EnsureCached
  <2>1. turn'.on = turn.on
    BY <1>1, <1>11 DEF EnsureCached, TurnRecords
  <2>2. QED
    BY <1>1, <1>11, <2>1, NoNewNames DEF EnsureCached, relay
<1>12. CASE EnsureJoins
  <2>1. inFlightSession \in 0..Len(handshakes)
    BY <1>12, AsManyHandshakes DEF EnsureJoins, Joinable, EpochInv, InFlightIsPresent
  <2>2. turn'.on = inFlightSession
    <3>1. PICK once : once = [turn EXCEPT !.phase = "waiting"]
      OBVIOUS
    <3>2. DOMAIN once = DOMAIN turn /\ "on" \in DOMAIN turn
      BY <1>1, <3>1 DEF TurnRecords
    <3>3. turn' = [once EXCEPT !.on = inFlightSession]
      BY <1>12, <3>1 DEF EnsureJoins
    <3>4. QED
      BY <3>2, <3>3
  <2>3. QED
    BY <1>1, <1>12, <2>1, <2>2, NoNewNames DEF EnsureJoins, relay
<1>13. CASE EnsureStarts
  BY <1>13, StartNames
<1>14. CASE SendAccepted \/ SendRefused
  <2>1. PICK outcome : Sent(outcome)
    BY <1>14 DEF SendAccepted, SendRefused
  <2>2. turn'.on = 0
    BY <2>1 DEF Sent, NoTurn
  <2>3. QED
    BY <1>1, <1>2, <2>1, <2>2, NoNewNames DEF Sent, relay
<1>15. QED
  BY <1>3, <1>4, <1>5, <1>6, <1>7, <1>8, <1>9, <1>10, <1>11, <1>12, <1>13, <1>14 DEF SessionNext, TurnSteps

-----------------------------------------------------------------------------
(* The three components, as the run explores them *)

\* All that is proved of the three together.
PartsInv ==
  /\ LoginInv /\ StoreInv /\ LoginTyped
  /\ GenerationInv
  /\ EpochInv /\ TurnsHaveWallets /\ RetryInv /\ NamesInBounds

LEMMA PartsBegin == Init => PartsInv
BY InitLogin, InitStore, InitLoginTypes, InitGeneration, InitEpoch, InitTurns, InitRetry, InitNames
   DEF Init, PartsInv

\* A step of the whole is a step of each component, or leaves it as it is.
LEMMA PartsMove ==
  ASSUME [Next]_partsVars
  PROVE  [LoginNext]_loginVars /\ [ReadinessNext]_readinessVars /\ [SessionNext]_sessionVars
<1>1. CASE UNCHANGED partsVars
  BY <1>1 DEF partsVars
<1>2. CASE Next /\ LoginMoves
  BY <1>2 DEF Next, LoginMoves, ReadinessMoves, SessionMoves, LoginNext
<1>3. CASE Next /\ ReadinessMoves
  BY <1>3 DEF Next, LoginMoves, ReadinessMoves, SessionMoves, ReadinessNext
<1>4. CASE Next /\ SessionMoves
  BY <1>4 DEF Next, LoginMoves, ReadinessMoves, SessionMoves, SessionNext, HandshakeSteps, TurnSteps
<1>5. Next => LoginMoves \/ ReadinessMoves \/ SessionMoves
  BY DEF Next
<1>6. QED
  BY <1>1, <1>2, <1>3, <1>4, <1>5

LEMMA PartsKeep == PartsInv /\ [Next]_partsVars => PartsInv'
<1> SUFFICES ASSUME PartsInv, [Next]_partsVars PROVE PartsInv'
  OBVIOUS
<1>1. [LoginNext]_loginVars /\ [ReadinessNext]_readinessVars /\ [SessionNext]_sessionVars
  BY PartsMove
<1>2. LoginInv' /\ StoreInv' /\ LoginTyped'
  BY <1>1, NextLogin, NextStore, NextLoginTypes DEF PartsInv
<1>3. GenerationInv'
  BY <1>1, NextGeneration DEF PartsInv
<1>4. EpochInv' /\ TurnsHaveWallets' /\ RetryInv' /\ NamesInBounds'
  BY <1>1, NextEpoch, NextTurns, NextRetry, NextNames DEF PartsInv
<1>5. QED
  BY <1>2, <1>3, <1>4 DEF PartsInv

\* The stores of the relay's authentication, its verdict and the browser's session are of their
\* types in every behaviour of the run, whose three components share no state: in particular
\* no more sessions are ever issued than challenges (server/auth.mjs, probeUpstream,
\* morpheusSession.ts).
THEOREM PartsStayTyped == Spec => []PartsTypeOK
<1>1. PartsInv => PartsTypeOK
  <2> SUFFICES ASSUME PartsInv PROVE PartsTypeOK
    OBVIOUS
  <2>1. LoginTypeOK /\ ReadinessTypeOK
    BY DEF PartsInv, LoginTyped, GenerationInv, ProbesStarted
  <2>2. SessionTypeOK
    BY ClientIsTyped DEF PartsInv
  <2>3. QED
    BY <2>1, <2>2 DEF PartsTypeOK
<1>2. QED
  BY <1>1, PartsBegin, PartsKeep, PTL DEF Spec

\* What was proved of each component holds of the three side by side, which is what the run
\* explores (server/auth.mjs, probeUpstream, morpheusSession.ts).
THEOREM RelayPartsHold ==
  Spec => /\ [](/\ OneLoginPerChallenge /\ CacheIsOfThisGeneration /\ WaitsForProbeOfItsTime
                /\ CachedIsCurrent /\ OneHandshake /\ RetrySuffices)
          /\ LiveSessionsEndForAReason
<1> DEFINE Holds == /\ OneLoginPerChallenge /\ CacheIsOfThisGeneration /\ WaitsForProbeOfItsTime
                    /\ CachedIsCurrent /\ OneHandshake /\ RetrySuffices
<1>1. PartsInv => Holds
  BY DEF PartsInv, LoginInv, GenerationInv, EpochInv, RetryInv
<1>2. PartsInv /\ [Next]_partsVars => [\A id \in Ids(sessions) \ Ids(sessions') : EndsForAReason(id)]_loginVars
  BY PartsMove, StepEnds DEF PartsInv
<1>3. [][\A id \in Ids(sessions) \ Ids(sessions') : EndsForAReason(id)]_loginVars => LiveSessionsEndForAReason
  BY DEF EndsForAReason, LiveSessionsEndForAReason
<1>4. QED
  BY <1>1, <1>2, <1>3, PartsBegin, PartsKeep, PTL DEF Spec
=============================================================================
