---------------------------- MODULE MCRelayChat ----------------------------
(***************************************************************************)
(* Instances of RelayChat for TLC.  Two wallets and two or three sessions  *)
(* make replacement and eviction possible; two requests of one wallet, or  *)
(* of two, meet at the gate and share a session.                           *)
(***************************************************************************)
EXTENDS RelayChat, TLC

CONSTANTS w1, w2, r1, r2

MCWallets == {w1, w2}
MCRequests == {r1, r2}
Symmetry == Permutations(MCWallets) \cup Permutations(MCRequests)
=============================================================================
