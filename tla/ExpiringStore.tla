---------------------------- MODULE ExpiringStore ----------------------------
(***************************************************************************)
(* The data structure that ChallengeStore and SessionStore of              *)
(* server/auth.mjs share: a Map of entries in insertion order and an index *)
(* from a wallet address to its newest entry.  Identifiers are issued in   *)
(* increasing order, so the insertion order of the Map is the order of the *)
(* identifiers.  (In the code they are random tokens; what matters here is *)
(* that none is issued twice.)                                             *)
(***************************************************************************)
EXTENDS Integers, FiniteSets

EmptyStore == [entries |-> <<>>, byAddress |-> <<>>]

Ids(st) == DOMAIN st.entries

Without(f, S) == [x \in DOMAIN f \ S |-> f[x]]

Expired(entry, time) == entry.expiresAt <= time

\* The addresses whose index entry goes away with the entry id.
Unindexed(st, id) ==
  {a \in DOMAIN st.byAddress :
     /\ id \in Ids(st)
     /\ st.entries[id].address = a
     /\ st.byAddress[a] = id}

DeleteAll(st, ids) ==
  [entries   |-> Without(st.entries, ids),
   byAddress |-> Without(st.byAddress, UNION {Unindexed(st, id) : id \in ids})]

Delete(st, id) == DeleteAll(st, {id})

\* prune() walks the Map and stops at the first entry that is still live.
Prunable(st, time) ==
  {id \in Ids(st) : \A older \in {j \in Ids(st) : j <= id} : Expired(st.entries[older], time)}

Prune(st, time) == DeleteAll(st, Prunable(st, time))

\* The entry the address is replacing, if it has one.
Prior(st, address) == {id \in Ids(st) : address \in DOMAIN st.byAddress /\ st.byAddress[address] = id}

\* The oldest entries, which leave a store at its capacity to make room for one.
Oldest(st, capacity) ==
  {id \in Ids(st) : Cardinality({j \in Ids(st) : j < id}) <= Cardinality(Ids(st)) - capacity}

\* What create() removes after pruning: the wallet's prior entry, then the oldest.
Displaced(st, address, capacity) ==
  LET prior == Prior(st, address)
  IN  prior \cup Oldest(DeleteAll(st, prior), capacity)

Put(st, id, entry) ==
  [entries   |-> [x \in Ids(st) \cup {id} |-> IF x = id THEN entry ELSE st.entries[x]],
   byAddress |-> [a \in DOMAIN st.byAddress \cup {entry.address} |->
                    IF a = entry.address THEN id ELSE st.byAddress[a]]]
==============================================================================
