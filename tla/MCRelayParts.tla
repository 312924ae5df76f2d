---------------------------- MODULE MCRelayParts ----------------------------
(***************************************************************************)
(* Finite instances of three components that share no state: the login of  *)
(* wallets, the readiness verdict, and the browser's session client.  One  *)
(* run explores them one at a time: part says which one moves in this      *)
(* behaviour, the others stay in their initial states.                     *)
(*                                                                         *)
(* Three wallets, four challenges and stores of two entries, whose         *)
(* lifetimes are short enough that entries expire, are replaced and are    *)
(* evicted within a few steps of each other; two callers, three probes and *)
(* two refusals of payment; two accounts, two handshakes and two switches, *)
(* enough to leave an account and come back while its handshake and its    *)
(* logout are under way.                                                   *)
(***************************************************************************)
EXTENDS WalletLogin, RelayReadiness, MorpheusSession, TLC

CONSTANTS w1, w2, w3, c1, c2, a1, a2

MCWallets == {w1, w2, w3}
MCCallers == {c1, c2}
MCAccounts == {a1, a2}

VARIABLE part

partsVars == <<part, loginVars, readinessVars, sessionVars>>

Init ==
  /\ part \in {"login", "readiness", "session"}
  /\ LoginInit
  /\ ReadinessInit
  /\ SessionInit
  \* what stands still stands in one initial state only
  /\ part # "readiness" => payable

LoginMoves == part = "login" /\ UNCHANGED <<part, readinessVars, sessionVars>>
ReadinessMoves == part = "readiness" /\ UNCHANGED <<part, loginVars, sessionVars>>
SessionMoves == part = "session" /\ UNCHANGED <<part, loginVars, readinessVars>>

\* LoginNext, ReadinessNext and SessionNext, action by action.
Next ==
  \/ LoginMoves /\ LoginTick
  \/ \E w \in Wallets : LoginMoves /\ HandleChallenge(w)
  \/ \E id \in 1..issued.challenge, w \in Wallets :
       \/ \E presented \in 0..issued.session : LoginMoves /\ HandleSessionCreate(id, w, presented)
       \/ LoginMoves /\ HandleSessionRefused(id, w)
  \/ \E presented \in 1..issued.session :
       \/ LoginMoves /\ HandleStatus(presented)
       \/ LoginMoves /\ HandleLogout(presented)
  \/ ReadinessMoves /\ ReadinessTick
  \/ ReadinessMoves /\ AccountChanges
  \/ ReadinessMoves /\ InvalidateReadiness
  \/ \E healthy \in BOOLEAN : ReadinessMoves /\ ChatReserves(healthy)
  \/ \E c \in Callers :
       \/ ReadinessMoves /\ Readyz(c)
       \/ ReadinessMoves /\ FromCache(c)
       \/ ReadinessMoves /\ JoinProbe(c)
       \/ ReadinessMoves /\ StartProbe(c)
       \/ \E rotated \in BOOLEAN : ReadinessMoves /\ NotAccounted(c, rotated)
  \/ \E p \in DOMAIN probes :
       \/ ReadinessMoves /\ ProbeReads(p)
       \/ ReadinessMoves /\ ProbeEnds(p)
  \/ \E w \in Accounts \cup {NoAccount} : SessionMoves /\ SwitchWallet(w)
  \/ \E l \in DOMAIN logouts :
       \/ SessionMoves /\ LogoutArrives(l)
       \/ SessionMoves /\ LogoutReplies(l)
  \/ \E w \in Accounts : SessionMoves /\ RelayForgets(w)
  \/ SessionMoves /\ CachedExpires
  \/ \E h \in DOMAIN handshakes :
       \/ SessionMoves /\ StatusChecked(h)
       \/ SessionMoves /\ Challenged(h)
       \/ SessionMoves /\ Signed(h)
       \/ SessionMoves /\ Submitted(h)
       \/ SessionMoves /\ SessionReplied(h)
       \/ SessionMoves /\ LateReply(h)
       \/ SessionMoves /\ Established(h)
       \/ SessionMoves /\ HandshakeFails(h)
  \/ SessionMoves /\ BeginTurn
  \/ SessionMoves /\ StopTurn
  \/ SessionMoves /\ EnsureCached
  \/ SessionMoves /\ EnsureJoins
  \/ SessionMoves /\ EnsureStarts
  \/ SessionMoves /\ SendAccepted
  \/ SessionMoves /\ SendRefusedOnce
  \/ SessionMoves /\ SendRefused

\* The fairness of FairReadinessSpec and FairSessionSpec.
Spec ==
  /\ Init /\ [][Next]_partsVars
  /\ \A p \in 1..Probes :
       WF_partsVars(p \in DOMAIN probes /\ (ProbeReads(p) \/ ProbeEnds(p)) /\ ReadinessMoves)
  /\ WF_partsVars(TurnSteps /\ SessionMoves)
  /\ \A h \in 1..Handshakes : WF_partsVars(h \in DOMAIN handshakes /\ HandshakeSteps(h) /\ SessionMoves)

\* The state of each of the three components is of its type.
PartsTypeOK == LoginTypeOK /\ ReadinessTypeOK /\ SessionTypeOK

\* Nobody waits for ever: neither a caller for a probe, also when the probe was discarded
\* meanwhile, nor a turn for a handshake that was cancelled, replaced or refused.
EveryWaitEnds == WaitersAnswered /\ TurnsGoOn
=============================================================================
