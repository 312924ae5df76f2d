---------------------------- MODULE MCQuotaLedger ----------------------------
(* Finite instances of QuotaLedger. *)
EXTENDS QuotaLedger, TLC

CONSTANTS alice, bob, carol, noSpend, r1, r2, r3

\* A long request whose byte bound is above its estimate, and a short one.
MCShapes == {[input |-> 2, output |-> 1, worst |-> 4], [input |-> 0, output |-> 1, worst |-> 0]}

\* A billed report below every reservation, an unbilled one, and one that overruns.
MCUsages == {[input |-> 1, output |-> 0, spend |-> 1],
             [input |-> 1, output |-> 1, spend |-> noSpend],
             [input |-> 2, output |-> 3, spend |-> 6]}

MCIdentities == {alice, bob, carol}

\* Requests differ in nothing but their name, and so do wallets.
Interchangeable == Permutations(Requests) \union Permutations(Identities)
=============================================================================
