---------------------------- MODULE WalletLogin ----------------------------
(***************************************************************************)
(* Wallet authentication at the relay: one-time challenges, the sessions   *)
(* they are exchanged for, and the handlers of /auth/challenge,            *)
(* /auth/session, /auth/status and /auth/logout (server/auth.mjs and       *)
(* server/relay.mjs).  Every handler runs to its end without an await once *)
(* its body is read, so each is one step.  What a request carries was      *)
(* fixed when the browser sent it, which may be long before: any challenge *)
(* and any session cookie ever issued may arrive, in any order and more    *)
(* than once.                                                              *)
(*                                                                         *)
(* The verification of a signature is external: a submission names the     *)
(* wallet that signed it and verifies when the challenge was issued to     *)
(* that wallet.  logins records the sessions created, for the properties.  *)
(***************************************************************************)
EXTENDS ExpiringStore

CONSTANTS
  Wallets,
  ChallengeTtl, SessionTtl,        \* config.challengeTtlMs, config.sessionTtlMs
  MaxChallenges, MaxSessions,      \* config.maxChallenges, config.maxSessions
  \* bounds of the exploration
  LastChallenge, LastLoginTime

ASSUME LimitsAssumption ==
  /\ {ChallengeTtl, SessionTtl, MaxChallenges, MaxSessions} \subseteq Nat \ {0}
  /\ LastChallenge \in Nat
  /\ LastLoginTime \in Nat

VARIABLES
  loginNow,            \* Date.now()
  challenges,     \* ChallengeStore
  sessions,       \* SessionStore
  issued,         \* [challenge, session]: the last identifier of each kind
  logins          \* observer: {[challenge, session, signer]}

loginVars == <<loginNow, challenges, sessions, issued, logins>>

ChallengeIds == 1..LastChallenge

\* A challenge yields at most one session, so sessions need no bound of their own.
SessionIds == 1..LastChallenge

LoginInit ==
  /\ loginNow = 0
  /\ challenges = EmptyStore
  /\ sessions = EmptyStore
  /\ issued = [challenge |-> 0, session |-> 0]
  /\ logins = {}

LoginTick ==
  /\ loginNow < LastLoginTime
  /\ loginNow' = loginNow + 1
  /\ UNCHANGED <<challenges, sessions, issued, logins>>
-----------------------------------------------------------------------------
\* Faulty variant of ChallengeCreate: the lifetime is subtracted.
ChallengeBackdated(st, id, wallet, time) ==
  LET live == Prune(st, time)
      room == DeleteAll(live, Displaced(live, wallet, MaxChallenges))
  IN  Put(room, id, [address |-> wallet, expiresAt |-> time - ChallengeTtl])

ChallengeCreate(st, id, wallet, time) ==
  LET live == Prune(st, time)
      room == DeleteAll(live, Displaced(live, wallet, MaxChallenges))
  IN  Put(room, id, [address |-> wallet, expiresAt |-> time + ChallengeTtl])

HandleChallenge(wallet) ==
  /\ issued.challenge < LastChallenge
  /\ challenges' = ChallengeCreate(challenges, issued.challenge + 1, wallet, loginNow)
  /\ issued' = [issued EXCEPT !.challenge = @ + 1]
  /\ UNCHANGED <<loginNow, sessions, logins>>

ChallengeUsable(id) == id \in Ids(challenges) /\ ~Expired(challenges.entries[id], loginNow)

\* Faulty variant of AfterPeek: the prior session is revoked whoever it belongs to.
AnyCookieRevoked(st, cookie, wallet, time) ==
  IF cookie \in Ids(st) THEN Delete(st, cookie) ELSE st

\* peek() forgets an expired session; the relay revokes a live one of the same wallet.
AfterPeek(st, cookie, wallet, time) ==
  IF /\ cookie \in Ids(st)
     /\ Expired(st.entries[cookie], time) \/ st.entries[cookie].address = wallet
  THEN Delete(st, cookie)
  ELSE st

SessionCreate(st, id, wallet, time) ==
  LET live == Prune(st, time)
      room == DeleteAll(live, Displaced(live, wallet, MaxSessions))
  IN  Put(room, id, [address |-> wallet, expiresAt |-> time + SessionTtl])

\* Faulty variant of ConsumeChallenge: the challenge is not deleted before verification.
ChallengeKept(id) == challenges' = challenges

\* The challenge is consumed before the signature is looked at.
ConsumeChallenge(id) == challenges' = Delete(challenges, id)

HandleSessionCreate(id, signer, cookie) ==
  /\ ConsumeChallenge(id)
  /\ ChallengeUsable(id)
  /\ challenges.entries[id].address = signer
  /\ LET fresh == issued.session + 1
     IN  /\ sessions' = SessionCreate(AfterPeek(sessions, cookie, signer, loginNow), fresh, signer, loginNow)
         /\ issued' = [issued EXCEPT !.session = fresh]
         /\ logins' = logins \cup {[challenge |-> id, session |-> fresh, signer |-> signer]}
  /\ UNCHANGED loginNow

HandleSessionRefused(id, signer) ==
  /\ ConsumeChallenge(id)
  /\ ~(ChallengeUsable(id) /\ challenges.entries[id].address = signer)
  /\ UNCHANGED <<loginNow, sessions, issued, logins>>

\* requireBound() under /auth/status: it changes something only when the session has expired.
HandleStatus(cookie) ==
  /\ cookie \in Ids(sessions)
  /\ Expired(sessions.entries[cookie], loginNow)
  /\ sessions' = Delete(sessions, cookie)
  /\ UNCHANGED <<loginNow, challenges, issued, logins>>

HandleLogout(cookie) ==
  /\ cookie \in Ids(sessions)
  /\ sessions' = Delete(sessions, cookie)
  /\ UNCHANGED <<loginNow, challenges, issued, logins>>

LoginNext ==
  \/ LoginTick
  \/ \E w \in Wallets : HandleChallenge(w)
  \/ \E id \in 1..issued.challenge, w \in Wallets :
       \/ \E cookie \in 0..issued.session : HandleSessionCreate(id, w, cookie)
       \/ HandleSessionRefused(id, w)
  \/ \E cookie \in 1..issued.session : HandleStatus(cookie) \/ HandleLogout(cookie)

LoginSpec == LoginInit /\ [][LoginNext]_loginVars
-----------------------------------------------------------------------------
Entry == [address : Wallets, expiresAt : Nat]

StoreType(st, ids) ==
  /\ DOMAIN st = {"entries", "byAddress"}
  /\ Ids(st) \subseteq ids
  /\ \A id \in Ids(st) : st.entries[id] \in Entry
  /\ DOMAIN st.byAddress \subseteq Wallets
  /\ \A a \in DOMAIN st.byAddress : st.byAddress[a] \in ids

\* The stores of the relay's authentication hold entries of wallets.
LoginTypeOK ==
  /\ loginNow \in 0..LastLoginTime
  /\ StoreType(challenges, 1..issued.challenge)
  /\ StoreType(sessions, 1..issued.session)
  /\ issued \in [challenge : 0..LastChallenge, session : 0..LastChallenge]
  /\ logins \subseteq [challenge : ChallengeIds, session : SessionIds, signer : Wallets]

\* A signed challenge buys one session and only for the wallet it was issued to,
\* however often it is submitted, with whatever signature first ("Delete before
\* signature verification so concurrent/replayed submissions cannot race").
OneLoginPerChallenge ==
  \A l \in logins :
    /\ l.challenge \notin Ids(challenges)
    /\ \A k \in logins : k.challenge = l.challenge => k = l
    /\ l.session \in Ids(sessions) => sessions.entries[l.session].address = l.signer

\* A live session ends only by its own logout, by a newer login of the same wallet
\* or, when the store is full of live sessions, as the oldest of them.  In
\* particular a login in a browser that holds another wallet's cookie leaves that
\* wallet's session alone.
LiveSessionsEndForAReason ==
  [][\A id \in Ids(sessions) \ Ids(sessions') :
       \/ Expired(sessions.entries[id], loginNow)
       \/ issued' = issued /\ Ids(sessions) \ Ids(sessions') = {id}
       \/ \E new \in Ids(sessions') \ Ids(sessions) :
            sessions'.entries[new].address = sessions.entries[id].address
       \/ /\ Cardinality({j \in Ids(sessions) : ~Expired(sessions.entries[j], loginNow)}) = MaxSessions
          /\ \A j \in Ids(sessions) :
               j < id => Expired(sessions.entries[j], loginNow)]_loginVars
=============================================================================
