-------------------------- MODULE TranscriptsProofs --------------------------
(***************************************************************************)
(* No transcript holds another wallet's rows or claims work that nobody    *)
(* does, a transaction under way is on disk, a copy kept in a cache is     *)
(* what a load would give, and what a newer build wrote stays, for any     *)
(* tabs, wallets, windows and numbers of rows.                             *)
(*                                                                         *)
(* TranscriptInv is inductive by itself.  Its first part is about a page   *)
(* alone: rows are in the order of their ids, and the row of a transaction *)
(* that was left behind is older than any that is under way, so that       *)
(* trimming to the window never loses one.  Its second part is about pages *)
(* and the disk: unless another tab or a refused write came in between,    *)
(* what a page shows is on disk up to what a load closes.                  *)
(***************************************************************************)
EXTENDS Transcripts, NaturalsInduction, WellFoundedInduction, TLAPS

Values == [kind : {"absent", "corrupt", "future", "rows"}, rows : Seq(Row)]
Pages == [owner : Owners \union {NoOwner}, messages : Seq(Row), cache : [Owners -> Values], saving : BOOLEAN,
          busy : BOOLEAN, card : 0..MaxRows, tx : 0..MaxRows, adrift : SUBSET [owner : Owners, id : 1..MaxRows]]

\* Rows by their ids, of which n were given.
Ordered(rows, n) ==
  /\ \A i, j \in DOMAIN rows : i < j => rows[i].id < rows[j].id
  /\ \A i \in DOMAIN rows : rows[i].id <= n

OfOwner(rows, w) == \A i \in DOMAIN rows : rows[i].owner = w
Unstreamed(rows) == \A i \in DOMAIN rows : rows[i].state # "streaming"
AtRest(rows) == \A i \in DOMAIN rows : rows[i].state \in {"plain", "closed"}

\* A transcript of w, wherever it is kept.
IsTranscript(rows, w, n) ==
  /\ rows \in Seq(Row) /\ Len(rows) <= Window
  /\ Ordered(rows, n) /\ OfOwner(rows, w)

StorageTypes ==
  /\ disk \in [Owners -> Values]
  /\ events \subseteq HistoryTabs \X Owners /\ overtaken \subseteq HistoryTabs \X Owners
  /\ lastWriter \in [Owners -> HistoryTabs \union {NoOwner}]
  /\ unsaved \subseteq HistoryTabs

TranscriptTypes ==
  /\ rowsMade \in 0..MaxRows
  /\ tabs \in [HistoryTabs -> Pages]
  /\ setting \in BOOLEAN
  /\ StorageTypes

\* What is under way, and its row: m are the rows, b tells of a turn or a transaction,
\* c and x are the rows of the card and of the transaction.
RowsAreLive(m, b, c, x) ==
  /\ \A i \in DOMAIN m : /\ m[i].state = "awaiting" => m[i].id = c
                         /\ m[i].state = "inflight" => m[i].id = x
                         /\ m[i].state = "streaming" => b /\ c = 0 /\ x = 0
  /\ \A i, j \in DOMAIN m : m[i].state = "streaming" /\ m[j].state = "streaming" => i = j
  /\ c # 0 => ~b /\ x = 0 /\ HasRow(m, c)
  /\ x # 0 => b /\ \E i \in DOMAIN m : m[i].id = x /\ m[i].state = "inflight"

\* What was left behind is older than what is under way.
AdriftIsOlder(a, m, c, x, n) ==
  \A y \in a : /\ y.id <= n
               /\ c # 0 => y.id < c
               /\ x # 0 => y.id < x
               /\ \A i \in DOMAIN m : m[i].state = "streaming" => y.id < m[i].id

\* Nobody's page shows nothing.
NobodyShown(p) == p.owner = NoOwner => p.messages = <<>> /\ p.card = 0 /\ p.tx = 0 /\ ~p.busy

PageInv(p, n) ==
  /\ p \in Pages
  /\ IsTranscript(p.messages, p.owner, n)
  /\ \A w \in Owners : IsTranscript(p.cache[w].rows, w, n) /\ AtRest(p.cache[w].rows)
  /\ NobodyShown(p) /\ RowsAreLive(p.messages, p.busy, p.card, p.tx)
  /\ AdriftIsOlder(p.adrift, p.messages, p.card, p.tx, n)

DiskInv(w) == IsTranscript(disk[w].rows, w, rowsMade) /\ Unstreamed(disk[w].rows)

\* t has written w itself and nobody has since.
Undisturbed(t, w) == <<t, w>> \notin events /\ <<t, w>> \notin overtaken /\ t \notin unsaved

TxOnDisk(t) ==
  tabs[t].tx # 0 /\ t \notin unsaved /\ lastWriter[tabs[t].owner] = t =>
    \E i \in DOMAIN disk[tabs[t].owner].rows :
      disk[tabs[t].owner].rows[i].id = tabs[t].tx /\ disk[tabs[t].owner].rows[i].state = "inflight"
CacheOnDisk(t, w) ==
  tabs[t].owner # w /\ tabs[t].cache[w] # Absent /\ Undisturbed(t, w) => tabs[t].cache[w].rows = Loaded(w)
ShownOnDisk(t) ==
  tabs[t].owner # NoOwner /\ Undisturbed(t, tabs[t].owner) =>
    Loaded(tabs[t].owner) = Rehydrated(Lasting(tabs[t].messages))

PageOnDisk(t) == TxOnDisk(t) /\ ShownOnDisk(t) /\ \A w \in Owners : CacheOnDisk(t, w)

TranscriptInv ==
  /\ TranscriptTypes
  /\ \A t \in HistoryTabs : PageInv(tabs[t], rowsMade)
  /\ \A w \in Owners : DiskInv(w)
  /\ \A t \in HistoryTabs : PageOnDisk(t)

-----------------------------------------------------------------------------
(* Induction over the positions of a sequence, by way of a set of numbers *)

LEMMA LessIsWellFounded == IsWellFoundedOn({p \in Nat \X Nat : p[1] < p[2]}, Nat)
<1>1. OpToRel(<, Nat) = {p \in Nat \X Nat : p[1] < p[2]}
  BY DEF OpToRel
<1>2. QED
  BY <1>1, NatLessThanWellFounded

LEMMA HasLeast ==
  ASSUME NEW S \in SUBSET Nat, S # {}
  PROVE  \E i \in S : \A j \in S : i <= j
<1> DEFINE R == {p \in Nat \X Nat : p[1] < p[2]}
<1>1. \A i, j \in Nat : <<j, i>> \in R <=> j < i
  OBVIOUS
<1>2. IsWellFoundedOn(R, Nat)
  BY LessIsWellFounded
<1> HIDE DEF R
<1>3. PICK i \in S : \A j \in S : <<j, i>> \notin R
  BY <1>2, WFMin
<1>4. \A j \in S : ~(j < i) /\ i \in Nat /\ j \in Nat
  BY <1>1, <1>3
<1>5. QED
  BY <1>4

\* A set with zero that goes on to the next number, up to n, has them all.
LEMMA UpTo ==
  ASSUME NEW n \in Nat, NEW S, 0 \in S, \A i \in 1..n : i - 1 \in S => i \in S
  PROVE  0..n \subseteq S
<1> DEFINE bad == (0..n) \ S
<1>1. ASSUME bad # {} PROVE FALSE
  <2>1. PICK i \in bad : \A j \in bad : i <= j
    <3>1. bad \in SUBSET Nat /\ bad # {}
      BY <1>1
    <3> HIDE DEF bad
    <3>2. QED
      BY <3>1, HasLeast
  <2>2. i \in 1..n /\ i - 1 \in 0..n /\ i - 1 \notin bad
    BY <2>1
  <2>3. QED
    BY <2>1, <2>2
<1>2. QED
  BY <1>1

-----------------------------------------------------------------------------
(* The rows that last *)

\* g[i] is what lasts of the first i rows.
KeepsUpTo(rows, n, g) ==
  g = [i \in 0..n |-> IF i = 0 THEN <<>>
                      ELSE IF rows[i].state = "streaming" THEN g[i - 1]
                      ELSE Append(g[i - 1], rows[i])]

LEMMA KeepingExists ==
  ASSUME NEW rows, NEW n \in Nat
  PROVE  \E g : KeepsUpTo(rows, n, g)
<1> DEFINE S == {m \in 0..n : \E g : KeepsUpTo(rows, m, g)}
<1>1. 0 \in S
  <2>1. KeepsUpTo(rows, 0, [i \in 0..0 |-> <<>>])
    BY DEF KeepsUpTo
  <2>2. QED
    BY <2>1
<1>2. ASSUME NEW m \in 1..n, m - 1 \in S PROVE m \in S
  <2>1. PICK g : KeepsUpTo(rows, m - 1, g)
    BY <1>2
  <2> DEFINE next == IF rows[m].state = "streaming" THEN g[m - 1] ELSE Append(g[m - 1], rows[m])
             h == [i \in 0..m |-> IF i = m THEN next ELSE g[i]]
  <2>2. \A i \in 0..m : i # m => i \in 0..m-1 /\ (i # 0 => i - 1 \in 0..m-1 /\ h[i - 1] = g[i - 1])
    OBVIOUS
  <2>3. h[m - 1] = g[m - 1] /\ m # 0
    OBVIOUS
  <2>4. \A i \in 0..m-1 : g[i] = IF i = 0 THEN <<>>
                               ELSE IF rows[i].state = "streaming" THEN g[i - 1] ELSE Append(g[i - 1], rows[i])
    BY <2>1 DEF KeepsUpTo
  <2>5. \A i \in 0..m : h[i] = IF i = 0 THEN <<>>
                             ELSE IF rows[i].state = "streaming" THEN h[i - 1] ELSE Append(h[i - 1], rows[i])
    BY <2>2, <2>3, <2>4
  <2>6. KeepsUpTo(rows, m, h)
    BY <2>5 DEF KeepsUpTo
  <2>7. QED
    BY <2>6
<1>3. 0..n \subseteq S
  <2> HIDE DEF S
  <2>1. QED
    BY <1>1, <1>2, UpTo
<1>4. QED
  BY <1>3

\* kept holds what lasts of the first m rows, in their order.
Holds(kept, rows, m) ==
  /\ kept \in Seq(Row) /\ Len(kept) <= m
  /\ \A j \in DOMAIN kept : \E k \in 1..m : kept[j] = rows[k] /\ rows[k].state # "streaming"
  /\ \A k \in 1..m : rows[k].state # "streaming" => \E j \in DOMAIN kept : kept[j] = rows[k]
  /\ \A i, j \in DOMAIN kept : i < j => kept[i].id < kept[j].id
  /\ (\A k \in 1..m : rows[k].state # "streaming") => Len(kept) = m /\ \A k \in 1..m : kept[k] = rows[k]

LEMMA HoldsOneMore ==
  ASSUME NEW rows \in Seq(Row), NEW n, Ordered(rows, n), NEW m \in 1..Len(rows), NEW kept, Holds(kept, rows, m - 1)
  PROVE  Holds(IF rows[m].state = "streaming" THEN kept ELSE Append(kept, rows[m]), rows, m)
<1>1. /\ kept \in Seq(Row) /\ Len(kept) <= m - 1 /\ rows[m] \in Row /\ Len(kept) \in Nat
      /\ \A k \in 1..m : k # m => k \in 1..m-1 /\ k \in DOMAIN rows
      /\ m \in DOMAIN rows
  BY DEF Holds
<1>2. CASE rows[m].state = "streaming"
  BY <1>1, <1>2 DEF Holds
<1>3. CASE rows[m].state # "streaming"
  <2> DEFINE new == Append(kept, rows[m])
  <2>1. /\ new \in Seq(Row) /\ Len(new) = Len(kept) + 1 /\ DOMAIN new = 1..(Len(kept) + 1)
        /\ new[Len(kept) + 1] = rows[m]
        /\ \A j \in 1..Len(kept) : new[j] = kept[j] /\ j \in DOMAIN kept
    BY <1>1
  <2> HIDE DEF new
  <2>2. \A j \in DOMAIN new : \E k \in 1..m : new[j] = rows[k] /\ rows[k].state # "streaming"
    <3> SUFFICES ASSUME NEW j \in DOMAIN new PROVE \E k \in 1..m : new[j] = rows[k] /\ rows[k].state # "streaming"
      OBVIOUS
    <3>1. CASE j = Len(kept) + 1
      BY <1>1, <1>3, <2>1, <3>1
    <3>2. CASE j # Len(kept) + 1
      <4>1. j \in DOMAIN kept /\ new[j] = kept[j]
        BY <1>1, <2>1, <3>2
      <4>2. PICK k \in 1..m-1 : kept[j] = rows[k] /\ rows[k].state # "streaming"
        BY <4>1 DEF Holds
      <4>3. QED
        BY <1>1, <4>1, <4>2
    <3>3. QED
      BY <3>1, <3>2
  <2>3. \A k \in 1..m : rows[k].state # "streaming" => \E j \in DOMAIN new : new[j] = rows[k]
    <3> SUFFICES ASSUME NEW k \in 1..m, rows[k].state # "streaming" PROVE \E j \in DOMAIN new : new[j] = rows[k]
      OBVIOUS
    <3>1. CASE k = m
      BY <1>1, <2>1, <3>1
    <3>2. CASE k # m
      <4>1. PICK j \in DOMAIN kept : kept[j] = rows[k]
        BY <1>1, <3>2 DEF Holds
      <4>2. j \in 1..Len(kept)
        BY <1>1
      <4>3. j \in DOMAIN new /\ new[j] = rows[k]
        BY <2>1, <4>1, <4>2
      <4>4. QED
        BY <4>3
    <3>3. QED
      BY <3>1, <3>2
  <2>4. \A i \in 1..Len(kept) : kept[i].id < rows[m].id
    <3> SUFFICES ASSUME NEW i \in 1..Len(kept) PROVE kept[i].id < rows[m].id
      OBVIOUS
    <3>1. PICK k \in 1..m-1 : kept[i] = rows[k]
      <4>1. i \in DOMAIN kept
        BY <1>1
      <4>2. QED
        BY <4>1 DEF Holds
    <3>2. QED
      BY <1>1, <3>1 DEF Ordered
  <2>5. \A i, j \in DOMAIN new : i < j => new[i].id < new[j].id
    <3>1. \A i, j \in 1..Len(kept) : i < j => kept[i].id < kept[j].id
      <4>1. DOMAIN kept = 1..Len(kept)
        BY <1>1
      <4>2. QED
        BY <4>1 DEF Holds
    <3>2. \A i \in DOMAIN new : i = Len(kept) + 1 \/ i \in 1..Len(kept)
      BY <1>1, <2>1
    <3>3. SUFFICES ASSUME NEW i \in DOMAIN new, NEW j \in DOMAIN new, i < j PROVE new[i].id < new[j].id
      OBVIOUS
    <3>4. i \in 1..Len(kept) /\ new[i] = kept[i]
      BY <1>1, <2>1, <3>2, <3>3
    <3>5. CASE j \in 1..Len(kept)
      BY <2>1, <3>1, <3>3, <3>4, <3>5
    <3>6. CASE j = Len(kept) + 1
      BY <2>1, <2>4, <3>4, <3>6
    <3>7. QED
      BY <3>2, <3>5, <3>6
  <2>6. (\A k \in 1..m : rows[k].state # "streaming") => Len(new) = m /\ \A k \in 1..m : new[k] = rows[k]
    <3> SUFFICES ASSUME \A k \in 1..m : rows[k].state # "streaming"
                 PROVE  Len(new) = m /\ \A k \in 1..m : new[k] = rows[k]
      OBVIOUS
    <3>1. Len(kept) = m - 1 /\ \A k \in 1..m-1 : kept[k] = rows[k]
      BY <1>1 DEF Holds
    <3>2. QED
      BY <1>1, <2>1, <3>1
  <2>7. Len(new) <= m
    BY <1>1, <2>1
  <2>8. Holds(new, rows, m)
    BY <2>1, <2>2, <2>3, <2>5, <2>6, <2>7 DEF Holds
  <2>9. QED
    BY <1>3, <2>8 DEF new
<1>4. QED
  BY <1>2, <1>3

\* What lasts of a transcript is its rows but the streaming ones, in their order.
LEMMA LastingRows ==
  ASSUME NEW rows \in Seq(Row), NEW n, Ordered(rows, n)
  PROVE  Holds(Lasting(rows), rows, Len(rows))
<1> DEFINE g == CHOOSE h : KeepsUpTo(rows, Len(rows), h)
           S == {m \in 0..Len(rows) : Holds(g[m], rows, m)}
<1>1. KeepsUpTo(rows, Len(rows), g)
  BY KeepingExists
<1>2. Lasting(rows) = g[Len(rows)]
  BY DEF Lasting, KeepsUpTo
<1> HIDE DEF g
<1>3. \A m \in 0..Len(rows) : g[m] = IF m = 0 THEN <<>>
                                    ELSE IF rows[m].state = "streaming" THEN g[m - 1] ELSE Append(g[m - 1], rows[m])
  BY <1>1 DEF KeepsUpTo
<1>4. 0 \in S
  <2>1. g[0] = <<>>
    BY <1>3
  <2>2. <<>> \in Seq(Row) /\ Len(<<>>) = 0 /\ DOMAIN <<>> = {} /\ 1..0 = {}
    OBVIOUS
  <2>3. Holds(<<>>, rows, 0)
    BY <2>2 DEF Holds
  <2>4. QED
    BY <2>1, <2>3
<1>5. ASSUME NEW m \in 1..Len(rows), m - 1 \in S PROVE m \in S
  <2>1. Holds(g[m - 1], rows, m - 1)
    BY <1>5
  <2>2. g[m] = IF rows[m].state = "streaming" THEN g[m - 1] ELSE Append(g[m - 1], rows[m])
    BY <1>3
  <2>3. QED
    BY <2>1, <2>2, HoldsOneMore
<1>6. Len(rows) \in Nat
  OBVIOUS
<1>7. 0..Len(rows) \subseteq S
  <2> HIDE DEF S
  <2>1. QED
    BY <1>4, <1>5, <1>6, UpTo
<1>8. QED
  BY <1>2, <1>6, <1>7

LEMMA LastingTranscript ==
  ASSUME NEW rows, NEW w, NEW n, IsTranscript(rows, w, n)
  PROVE  /\ IsTranscript(Lasting(rows), w, n) /\ Unstreamed(Lasting(rows))
         /\ Unstreamed(rows) => Lasting(rows) = rows
         /\ \A i \in DOMAIN rows : rows[i].state # "streaming" => \E j \in DOMAIN Lasting(rows) : Lasting(rows)[j] = rows[i]
<1> DEFINE kept == Lasting(rows)
<1>1. rows \in Seq(Row) /\ Len(rows) <= Window /\ Len(rows) \in Nat /\ DOMAIN rows = 1..Len(rows)
  BY DEF IsTranscript
<1>2. Holds(kept, rows, Len(rows))
  BY LastingRows DEF IsTranscript
<1> HIDE DEF kept
<1>3. /\ kept \in Seq(Row) /\ Len(kept) <= Len(rows) /\ Len(kept) \in Nat
      /\ \A i, j \in DOMAIN kept : i < j => kept[i].id < kept[j].id
  BY <1>2 DEF Holds
<1>4. \A j \in DOMAIN kept : \E k \in DOMAIN rows : kept[j] = rows[k] /\ rows[k].state # "streaming"
  BY <1>1, <1>2 DEF Holds
<1>5. IsTranscript(kept, w, n)
  <2>1. Len(kept) <= Window
    BY <1>1, <1>3, TranscriptAssumption
  <2>2. \A j \in DOMAIN kept : kept[j].id <= n /\ kept[j].owner = w
    BY <1>4 DEF IsTranscript, Ordered, OfOwner
  <2>3. QED
    BY <1>3, <2>1, <2>2 DEF IsTranscript, Ordered, OfOwner
<1>6. Unstreamed(kept)
  BY <1>4 DEF Unstreamed
<1>7. ASSUME Unstreamed(rows) PROVE kept = rows
  <2>1. \A k \in 1..Len(rows) : rows[k].state # "streaming"
    BY <1>1, <1>7 DEF Unstreamed
  <2>2. Len(kept) = Len(rows) /\ \A k \in 1..Len(rows) : kept[k] = rows[k]
    BY <1>2, <2>1 DEF Holds
  <2>3. QED
    BY <1>1, <1>3, <2>2
<1>8. \A i \in DOMAIN rows : rows[i].state # "streaming" => \E j \in DOMAIN kept : kept[j] = rows[i]
  BY <1>1, <1>2 DEF Holds
<1>9. QED
  BY <1>5, <1>6, <1>7, <1>8 DEF kept

-----------------------------------------------------------------------------
(* Rows that change, are added and fall out of the window *)

LEMMA IsSequence ==
  ASSUME NEW n \in Nat, NEW S, NEW s \in [1..n -> S]
  PROVE  s \in Seq(S) /\ Len(s) = n
OBVIOUS

\* The same rows in other states.
Rewrites(new, old) ==
  /\ new \in Seq(Row) /\ Len(new) = Len(old)
  /\ \A i \in DOMAIN old : new[i].id = old[i].id /\ new[i].owner = old[i].owner

\* A transcript that may be longer than the window.
IsGrown(rows, w, n) == rows \in Seq(Row) /\ Ordered(rows, n) /\ OfOwner(rows, w)

LEMMA RewrittenRows ==
  ASSUME NEW new, NEW old \in Seq(Row), Rewrites(new, old)
  PROVE  /\ DOMAIN new = DOMAIN old
         /\ \A w, n : IsTranscript(old, w, n) => IsTranscript(new, w, n)
         /\ \A id : HasRow(new, id) <=> HasRow(old, id)
<1>1. new \in Seq(Row) /\ Len(new) = Len(old) /\ DOMAIN new = DOMAIN old
  BY DEF Rewrites
<1>2. \A i \in DOMAIN old : new[i].id = old[i].id /\ new[i].owner = old[i].owner
  BY DEF Rewrites
<1>3. ASSUME NEW w, NEW n, IsTranscript(old, w, n) PROVE IsTranscript(new, w, n)
  BY <1>1, <1>2, <1>3 DEF IsTranscript, Ordered, OfOwner
<1>4. QED
  BY <1>1, <1>2, <1>3 DEF HasRow

LEMMA SetRowRewrites ==
  ASSUME NEW rows \in Seq(Row), NEW id, NEW state \in RowStates
  PROVE  /\ Rewrites(SetRow(rows, id, state), rows)
         /\ DOMAIN SetRow(rows, id, state) = DOMAIN rows
         /\ \A i \in DOMAIN rows : /\ rows[i].id = id => SetRow(rows, id, state)[i].state = state
                                   /\ rows[i].id # id => SetRow(rows, id, state)[i] = rows[i]
<1> DEFINE new == SetRow(rows, id, state)
<1>1. DOMAIN new = DOMAIN rows /\ DOMAIN rows = 1..Len(rows) /\ Len(rows) \in Nat
  BY DEF SetRow
<1>2. \A i \in DOMAIN rows : new[i] = IF rows[i].id = id THEN [rows[i] EXCEPT !.state = state] ELSE rows[i]
  BY DEF SetRow
<1>3. \A i \in DOMAIN rows : /\ rows[i] \in Row /\ new[i] \in Row
                             /\ new[i].id = rows[i].id /\ new[i].owner = rows[i].owner
                             /\ rows[i].id = id => new[i].state = state
                             /\ rows[i].id # id => new[i] = rows[i]
  <2> SUFFICES ASSUME NEW i \in DOMAIN rows
               PROVE  /\ rows[i] \in Row /\ new[i] \in Row
                      /\ new[i].id = rows[i].id /\ new[i].owner = rows[i].owner
                      /\ rows[i].id = id => new[i].state = state
                      /\ rows[i].id # id => new[i] = rows[i]
    OBVIOUS
  <2>1. rows[i] \in Row
    OBVIOUS
  <2>2. QED
    BY <1>2, <2>1 DEF Row
<1>4. new = [i \in 1..Len(rows) |-> new[i]]
  BY <1>1 DEF SetRow
<1> HIDE DEF new
<1>5. new \in [1..Len(rows) -> Row]
  <2>1. \A i \in 1..Len(rows) : new[i] \in Row
    BY <1>1, <1>3
  <2>2. QED
    BY <2>1, <1>4
<1>55. new \in Seq(Row) /\ Len(new) = Len(rows)
  BY <1>1, <1>5, IsSequence
<1>6. Rewrites(new, rows)
  BY <1>3, <1>5 DEF Rewrites
<1>7. QED
  BY <1>1, <1>3, <1>6 DEF new

LEMMA RehydratedRewrites ==
  ASSUME NEW rows \in Seq(Row)
  PROVE  /\ Rewrites(Rehydrated(rows), rows) /\ AtRest(Rehydrated(rows))
         /\ AtRest(rows) => Rehydrated(rows) = rows
<1> DEFINE new == Rehydrated(rows)
<1>1. DOMAIN new = DOMAIN rows /\ DOMAIN rows = 1..Len(rows) /\ Len(rows) \in Nat
  BY DEF Rehydrated
<1>2. \A i \in DOMAIN rows : new[i] = IF rows[i].state \in {"streaming", "awaiting", "inflight"}
                                    THEN [rows[i] EXCEPT !.state = "closed"] ELSE rows[i]
  BY DEF Rehydrated
<1>3. \A i \in DOMAIN rows : /\ rows[i] \in Row /\ new[i] \in Row
                             /\ new[i].id = rows[i].id /\ new[i].owner = rows[i].owner
                             /\ new[i].state \in {"plain", "closed"}
                             /\ rows[i].state \in {"plain", "closed"} => new[i] = rows[i]
  <2> SUFFICES ASSUME NEW i \in DOMAIN rows
               PROVE  /\ rows[i] \in Row /\ new[i] \in Row
                      /\ new[i].id = rows[i].id /\ new[i].owner = rows[i].owner
                      /\ new[i].state \in {"plain", "closed"}
                      /\ rows[i].state \in {"plain", "closed"} => new[i] = rows[i]
    OBVIOUS
  <2>1. rows[i] \in Row
    OBVIOUS
  <2>2. QED
    BY <1>2, <2>1 DEF Row, RowStates
<1>4. new = [i \in 1..Len(rows) |-> new[i]]
  BY <1>1 DEF Rehydrated
<1> HIDE DEF new
<1>5. new \in Seq(Row) /\ Len(new) = Len(rows)
  BY <1>1, <1>3, <1>4
<1>6. Rewrites(new, rows) /\ AtRest(new)
  BY <1>1, <1>3, <1>5 DEF Rewrites, AtRest
<1>7. AtRest(rows) => new = rows
  BY <1>1, <1>3, <1>5 DEF AtRest
<1>8. QED
  BY <1>6, <1>7 DEF new

LEMMA TrimmedRows ==
  ASSUME NEW rows, NEW w, NEW n, IsGrown(rows, w, n)
  PROVE  /\ IsTranscript(Trimmed(rows), w, n)
         /\ \E k \in Nat : /\ Len(Trimmed(rows)) = Len(rows) - k
                           /\ k = 0 \/ Len(rows) - k = Window
                           /\ \A i \in DOMAIN Trimmed(rows) : i + k \in DOMAIN rows /\ Trimmed(rows)[i] = rows[i + k]
<1>1. rows \in Seq(Row) /\ Len(rows) \in Nat /\ DOMAIN rows = 1..Len(rows) /\ Window \in Nat \ {0}
  BY TranscriptAssumption DEF IsGrown
<1>2. CASE Len(rows) <= Window
  <2>1. Trimmed(rows) = rows
    BY <1>2 DEF Trimmed
  <2>2. QED
    <3>1. IsTranscript(rows, w, n)
      BY <1>2 DEF IsTranscript, IsGrown
    <3>2. /\ 0 \in Nat /\ Len(rows) = Len(rows) - 0
          /\ \A i \in DOMAIN rows : i + 0 \in DOMAIN rows /\ rows[i] = rows[i + 0]
      BY <1>1
    <3>3. QED
      BY <2>1, <3>1, <3>2
<1>3. CASE ~(Len(rows) <= Window)
  <2> DEFINE new == SubSeq(rows, Len(rows) - Window + 1, Len(rows))
             k == Len(rows) - Window
  <2>1. Trimmed(rows) = new
    BY <1>3 DEF Trimmed
  <2>2. k \in Nat /\ Len(rows) - k = Window
    BY <1>1, <1>3
  <2>3. /\ new \in Seq(Row) /\ Len(new) = Window /\ DOMAIN new = 1..Window
        /\ \A i \in 1..Window : i + k \in DOMAIN rows /\ new[i] = rows[i + k]
    BY <1>1, <1>3
  <2> HIDE DEF new, k
  <2>4. Ordered(new, n)
    <3>1. \A i, j \in DOMAIN rows : i < j => rows[i].id < rows[j].id
      BY DEF IsGrown, Ordered
    <3>2. \A i \in DOMAIN rows : rows[i].id <= n
      BY DEF IsGrown, Ordered
    <3>3. \A i, j \in DOMAIN new : i < j => i + k < j + k
      BY <2>2, <2>3
    <3>4. QED
      BY <2>3, <3>1, <3>2, <3>3 DEF Ordered
  <2>5. OfOwner(new, w)
    BY <2>3 DEF IsGrown, OfOwner
  <2>6. QED
    <3>1. IsTranscript(new, w, n)
      BY <1>1, <2>3, <2>4, <2>5 DEF IsTranscript
    <3>2. Len(new) = Len(rows) - k
      BY <1>1, <2>2, <2>3
    <3>3. QED
      BY <2>1, <2>2, <2>3, <3>1, <3>2
<1>4. QED
  BY <1>2, <1>3

LEMMA AddedRow ==
  ASSUME NEW rows, NEW w, NEW n \in Nat, IsGrown(rows, w, n), NEW row \in Row, row.id = n + 1, row.owner = w
  PROVE  /\ IsGrown(Append(rows, row), w, n + 1)
         /\ Len(Append(rows, row)) = Len(rows) + 1
         /\ Append(rows, row)[Len(rows) + 1] = row
         /\ \A i \in DOMAIN rows : Append(rows, row)[i] = rows[i]
<1>1. rows \in Seq(Row) /\ Len(rows) \in Nat /\ DOMAIN rows = 1..Len(rows)
  BY DEF IsGrown
<1> DEFINE new == Append(rows, row)
<1>2. /\ new \in Seq(Row) /\ Len(new) = Len(rows) + 1 /\ DOMAIN new = 1..Len(rows) + 1
      /\ new[Len(rows) + 1] = row
      /\ \A i \in 1..Len(rows) : new[i] = rows[i]
  BY <1>1
<1> HIDE DEF new
<1>3. \A i \in DOMAIN rows : rows[i].id <= n /\ rows[i].owner = w /\ rows[i] \in Row
  BY <1>1 DEF IsGrown, Ordered, OfOwner
<1>4. \A i \in DOMAIN new : new[i].id <= n + 1 /\ new[i].owner = w
  <2>1. \A i \in DOMAIN rows : rows[i].id \in Nat
    BY <1>3 DEF Row
  <2>2. QED
    BY <1>1, <1>2, <1>3, <2>1
<1>5. \A i, j \in DOMAIN new : i < j => new[i].id < new[j].id
  <2>1. \A i, j \in DOMAIN rows : i < j => rows[i].id < rows[j].id
    BY DEF IsGrown, Ordered
  <2>2. \A i \in DOMAIN rows : rows[i].id \in Nat
    BY <1>3 DEF Row
  <2>3. QED
    BY <1>1, <1>2, <1>3, <2>1, <2>2
<1>6. QED
  BY <1>1, <1>2, <1>4, <1>5 DEF IsGrown, Ordered, OfOwner, new

LEMMA GrownTranscript == \A rows, w, n : IsTranscript(rows, w, n) => IsGrown(rows, w, n)
BY DEF IsTranscript, IsGrown

-----------------------------------------------------------------------------
(* What a step does to the storage *)

LEMMA Literals ==
  /\ Absent \in Values /\ Corrupt \in Values /\ Future \in Values
  /\ Absent.rows = <<>> /\ Corrupt.rows = <<>> /\ Future.rows = <<>>
  /\ Absent.kind = "absent" /\ Corrupt.kind = "corrupt" /\ Future.kind = "future"
  /\ \A rows \in Seq(Row) : Stored(rows) \in Values /\ Stored(rows).rows = rows /\ Stored(rows).kind = "rows"
BY DEF Absent, Corrupt, Future, Stored, Values

LEMMA EmptyTranscript ==
  /\ \A w, n : IsTranscript(<<>>, w, n)
  /\ AtRest(<<>>) /\ Unstreamed(<<>>)
  /\ Rehydrated(<<>>) = <<>> /\ Lasting(<<>>) = <<>>
<1>1. \A w, n : IsTranscript(<<>>, w, n)
  BY TranscriptAssumption DEF IsTranscript, Ordered, OfOwner
<1>2. AtRest(<<>>) /\ Unstreamed(<<>>)
  BY DEF AtRest, Unstreamed
<1>3. Rehydrated(<<>>) = <<>>
  <2>1. <<>> \in Seq(Row)
    OBVIOUS
  <2>2. QED
    BY <1>2, <2>1, RehydratedRewrites
<1>4. Lasting(<<>>) = <<>>
  BY <1>1, <1>2, LastingTranscript
<1>5. QED
  BY <1>1, <1>2, <1>3, <1>4

\* Of the keys, t wrote those in W; every other tab is told of what changed.
Touches(t, W) ==
  /\ StorageTypes'
  /\ \A w \in Owners \ W : disk'[w] = disk[w] /\ lastWriter'[w] = lastWriter[w]
  /\ \A w \in W : lastWriter'[w] = t
  /\ \A u \in HistoryTabs \ {t}, w \in Owners :
       /\ <<u, w>> \in events => <<u, w>> \in events'
       /\ <<u, w>> \in overtaken => <<u, w>> \in overtaken'
       /\ disk'[w] # disk[w] => <<u, w>> \in events'
  /\ unsaved \subseteq unsaved'

\* t forgets no event of its own, and of being overtaken only where it wrote.
Recalls(t, W) ==
  \A w \in Owners : /\ <<t, w>> \in events => <<t, w>> \in events'
                    /\ <<t, w>> \in overtaken /\ w \notin W => <<t, w>> \in overtaken'

LEMMA WriteTouches ==
  ASSUME StorageTypes, NEW t \in HistoryTabs, NEW W \in SUBSET Owners, NEW new \in [W -> Values], Write(t, new),
         unsaved' \subseteq HistoryTabs, unsaved \subseteq unsaved'
  PROVE  Touches(t, W) /\ Recalls(t, W) /\ \A w \in W : disk'[w] = new[w]
<1>1. DOMAIN new = W
  OBVIOUS
<1>2. disk' = [w \in Owners |-> IF w \in W THEN new[w] ELSE disk[w]]
  BY <1>1 DEF Write
<1>3. disk' \in [Owners -> Values]
  BY <1>2 DEF StorageTypes
<1>4. lastWriter' = [w \in Owners |-> IF w \in W THEN t ELSE lastWriter[w]]
  BY <1>1 DEF Write
<1>5. lastWriter' \in [Owners -> HistoryTabs \union {NoOwner}]
  BY <1>4 DEF StorageTypes
<1>6. events' = events \union (HistoryTabs \ {t}) \X {w \in W : new[w] # disk[w]}
  BY <1>1 DEF Write, Noticed
<1>7. overtaken' = overtaken \ ({t} \X W)
  BY <1>1 DEF Write
<1>8. events' \subseteq HistoryTabs \X Owners /\ overtaken' \subseteq HistoryTabs \X Owners
  BY <1>6, <1>7 DEF StorageTypes
<1>9. \A w \in Owners \ W : disk'[w] = disk[w] /\ lastWriter'[w] = lastWriter[w]
  BY <1>2, <1>4
<1>10. \A w \in W : disk'[w] = new[w] /\ lastWriter'[w] = t
  BY <1>2, <1>4
<1>11. ASSUME NEW u \in HistoryTabs \ {t}, NEW w \in Owners
       PROVE  /\ <<u, w>> \in events => <<u, w>> \in events'
              /\ <<u, w>> \in overtaken => <<u, w>> \in overtaken'
              /\ disk'[w] # disk[w] => <<u, w>> \in events'
  BY <1>6, <1>7, <1>9, <1>10
<1>12. Recalls(t, W)
  BY <1>6, <1>7 DEF Recalls
<1>13. QED
  BY <1>3, <1>5, <1>8, <1>9, <1>10, <1>11, <1>12 DEF Touches, StorageTypes

\* Older ids are still below a higher bound.
LEMMA BoundGrows ==
  ASSUME NEW n \in Nat, NEW m \in Nat, n <= m
  PROVE  /\ \A rows, w : IsTranscript(rows, w, n) => IsTranscript(rows, w, m)
         /\ \A p : PageInv(p, n) => PageInv(p, m)
<1>1. \A rows \in Seq(Row) : Ordered(rows, n) => Ordered(rows, m)
  <2> SUFFICES ASSUME NEW rows \in Seq(Row), Ordered(rows, n) PROVE Ordered(rows, m)
    OBVIOUS
  <2>1. \A i \in DOMAIN rows : rows[i] \in Row /\ rows[i].id <= n
    BY DEF Ordered
  <2>2. \A i \in DOMAIN rows : rows[i].id \in Nat
    BY <2>1 DEF Row
  <2>3. \A i \in DOMAIN rows : rows[i].id <= m
    BY <2>1, <2>2
  <2>4. QED
    BY <2>3 DEF Ordered
<1>2. \A rows, w : IsTranscript(rows, w, n) => IsTranscript(rows, w, m)
  BY <1>1 DEF IsTranscript
<1>3. ASSUME NEW p, PageInv(p, n) PROVE PageInv(p, m)
  <2>1. \A x \in p.adrift : x.id \in Nat
    BY <1>3 DEF PageInv, Pages
  <2>2. AdriftIsOlder(p.adrift, p.messages, p.card, p.tx, m)
    BY <1>3, <2>1 DEF PageInv, AdriftIsOlder
  <2>3. QED
    BY <1>2, <1>3, <2>2 DEF PageInv
<1>4. QED
  BY <1>2, <1>3

\* What a value on disk may be.
LEMMA DiskValues ==
  ASSUME NEW rows, NEW w, NEW n, IsTranscript(rows, w, n)
  PROVE  /\ Image(rows) \in Values /\ IsTranscript(Image(rows).rows, w, n) /\ Unstreamed(Image(rows).rows)
         /\ (IF Image(rows).kind = "rows" THEN Rehydrated(Image(rows).rows) ELSE <<>>) = Rehydrated(Lasting(rows))
         /\ Image(rows).rows = Lasting(rows)
<1>1. IsTranscript(Lasting(rows), w, n) /\ Unstreamed(Lasting(rows)) /\ Lasting(rows) \in Seq(Row)
  BY LastingTranscript DEF IsTranscript
<1>2. CASE Lasting(rows) = <<>>
  BY <1>1, <1>2, Literals, EmptyTranscript DEF Image
<1>3. CASE Lasting(rows) # <<>>
  BY <1>1, <1>3, Literals DEF Image
<1>4. QED
  BY <1>2, <1>3

\* The keys are transcripts after the step as well.
DisksGood == \A w \in Owners : DiskInv(w)

LEMMA RemovedTouches ==
  ASSUME TranscriptTypes, DisksGood, NEW t \in HistoryTabs, NEW W \in SUBSET Owners, Write(t, Removed(W)),
         rowsMade' \in Nat, rowsMade <= rowsMade', unsaved' \subseteq HistoryTabs, unsaved \subseteq unsaved'
  PROVE  Touches(t, W) /\ Recalls(t, W) /\ DisksGood' /\ \A w \in W : disk'[w] = Absent
<1>1. Removed(W) \in [W -> Values] /\ \A w \in W : Removed(W)[w] = Absent
  BY Literals DEF Removed
<1>2. Touches(t, W) /\ Recalls(t, W) /\ \A w \in W : disk'[w] = Absent
  BY <1>1, WriteTouches DEF TranscriptTypes
<1>3. ASSUME NEW w \in Owners PROVE DiskInv(w)'
  <2>1. IsTranscript(disk[w].rows, w, rowsMade) /\ Unstreamed(disk[w].rows) /\ rowsMade \in Nat
    BY DEF DisksGood, DiskInv, TranscriptTypes
  <2>2. IsTranscript(disk[w].rows, w, rowsMade')
    BY <2>1, BoundGrows
  <2>3. CASE w \in W
    BY <1>2, <2>3, Literals, EmptyTranscript DEF DiskInv
  <2>4. CASE w \notin W
    <3>1. disk'[w] = disk[w]
      BY <1>2, <2>4 DEF Touches
    <3>2. QED
      BY <2>1, <2>2, <3>1 DEF DiskInv
  <2>5. QED
    BY <2>3, <2>4
<1>4. QED
  BY <1>2, <1>3 DEF DisksGood

\* The outcome of a save: the key of w holds what lasts of rows, or t has missed a write.
HasSaved(t, w, rows, cleared, W) ==
  /\ Touches(t, W) /\ Recalls(t, W) /\ DisksGood'
  /\ cleared \subseteq W /\ W \subseteq cleared \union {w}
  /\ \A x \in cleared : disk'[x] = Absent
  /\ w \in W => disk'[w] = Image(rows)
  /\ w \notin W => t \in unsaved'

LEMMA SaveTouches ==
  ASSUME TranscriptTypes, DisksGood, NEW t \in HistoryTabs, NEW saving, NEW w \in Owners, NEW rows,
         NEW cleared \in SUBSET Owners, w \notin cleared, SaveAnd(t, saving, w, rows, cleared),
         IsTranscript(rows, w, rowsMade'), rowsMade' \in Nat, rowsMade <= rowsMade'
  PROVE  \E W \in SUBSET Owners : HasSaved(t, w, rows, cleared, W)
<1>1. unsaved \subseteq HistoryTabs
  BY DEF TranscriptTypes, StorageTypes
<1>2. ASSUME Write(t, Removed(cleared)), unsaved' = unsaved \union {t}
      PROVE  HasSaved(t, w, rows, cleared, cleared)
  <2>1. unsaved' \subseteq HistoryTabs /\ unsaved \subseteq unsaved' /\ t \in unsaved'
    BY <1>1, <1>2
  <2>2. QED
    BY <1>2, <2>1, RemovedTouches DEF HasSaved
<1>3. ASSUME Write(t, [x \in {w} \union cleared |-> IF x = w THEN Image(rows) ELSE Absent]), UNCHANGED unsaved
      PROVE  HasSaved(t, w, rows, cleared, {w} \union cleared)
  <2> DEFINE W == {w} \union cleared
             new == [x \in W |-> IF x = w THEN Image(rows) ELSE Absent]
  <2>1. /\ Image(rows) \in Values /\ IsTranscript(Image(rows).rows, w, rowsMade')
        /\ Unstreamed(Image(rows).rows)
    BY DiskValues
  <2>2. W \in SUBSET Owners /\ new \in [W -> Values] /\ new[w] = Image(rows) /\ \A x \in cleared : new[x] = Absent
    BY <2>1, Literals
  <2>3. Write(t, new) /\ unsaved' \subseteq HistoryTabs /\ unsaved \subseteq unsaved' /\ w \in W /\ cleared \subseteq W
    BY <1>1, <1>3
  <2> HIDE DEF new
  <2>4. Touches(t, W) /\ Recalls(t, W) /\ \A x \in W : disk'[x] = new[x]
    BY <2>2, <2>3, WriteTouches DEF TranscriptTypes
  <2>5. disk'[w] = Image(rows) /\ \A x \in cleared : disk'[x] = Absent
    BY <2>2, <2>3, <2>4
  <2>6. ASSUME NEW x \in Owners PROVE DiskInv(x)'
    <3>1. IsTranscript(disk[x].rows, x, rowsMade) /\ Unstreamed(disk[x].rows) /\ rowsMade \in Nat
      BY DEF DisksGood, DiskInv, TranscriptTypes
    <3>2. IsTranscript(disk[x].rows, x, rowsMade')
      BY <3>1, BoundGrows
    <3>3. CASE x = w
      BY <2>1, <2>5, <3>3 DEF DiskInv
    <3>4. CASE x \in cleared
      BY <2>5, <3>4, Literals, EmptyTranscript DEF DiskInv
    <3>5. CASE x \notin W
      <4>1. disk'[x] = disk[x]
        BY <2>4, <3>5 DEF Touches
      <4>2. QED
        BY <3>1, <3>2, <4>1 DEF DiskInv
    <3>6. QED
      BY <3>3, <3>4, <3>5
  <2>7. QED
    BY <2>3, <2>4, <2>5, <2>6 DEF HasSaved, DisksGood
<1>4. QED
  BY <1>2, <1>3 DEF SaveAnd

-----------------------------------------------------------------------------
(* One page moves *)

\* What other tabs keep agrees with the disk as before, or they will be told.
LEMMA OthersOnDisk ==
  ASSUME TranscriptTypes, NEW t, NEW W \in SUBSET Owners, Touches(t, W),
         NEW u \in HistoryTabs \ {t}, tabs'[u] = tabs[u], PageInv(tabs[u], rowsMade), PageOnDisk(u)
  PROVE  PageOnDisk(u)'
<1> DEFINE o == tabs[u].owner
<1>1. tabs[u] \in Pages /\ o \in Owners \union {NoOwner}
  BY DEF TranscriptTypes, Pages
<1>2. ASSUME NEW w \in Owners, Undisturbed(u, w)' PROVE Undisturbed(u, w) /\ Loaded(w)' = Loaded(w)
  BY <1>2 DEF Undisturbed, Touches, Loaded
<1>3. ASSUME NEW w \in Owners PROVE CacheOnDisk(u, w)'
  BY <1>2 DEF PageOnDisk, CacheOnDisk
<1>4. ShownOnDisk(u)'
  BY <1>1, <1>2 DEF PageOnDisk, ShownOnDisk
<1>5. TxOnDisk(u)'
  <2> SUFFICES ASSUME tabs[u].tx # 0, u \notin unsaved', lastWriter'[o] = u
               PROVE  \E i \in DOMAIN disk'[o].rows : disk'[o].rows[i].id = tabs[u].tx /\ disk'[o].rows[i].state = "inflight"
    BY DEF TxOnDisk
  <2>1. u \notin unsaved
    BY DEF Touches
  <2>2. o \in Owners => o \notin W /\ disk'[o] = disk[o] /\ lastWriter[o] = u
    BY DEF Touches
  <2>3. o \in Owners
    BY <1>1 DEF PageInv, NobodyShown
  <2>4. QED
    BY <2>1, <2>2, <2>3 DEF PageOnDisk, TxOnDisk
<1>6. QED
  BY <1>3, <1>4, <1>5 DEF PageOnDisk

\* A step of one page keeps the invariant when the page and what it keeps are right afterwards.
LEMMA OnePageMoves ==
  ASSUME TranscriptInv, NEW t \in HistoryTabs, NEW W \in SUBSET Owners, Touches(t, W), DisksGood',
         NEW p, tabs' = [tabs EXCEPT ![t] = p], PageInv(p, rowsMade'), PageOnDisk(t)',
         rowsMade' \in 0..MaxRows, rowsMade <= rowsMade', setting' \in BOOLEAN
  PROVE  TranscriptInv'
<1>1. rowsMade \in Nat /\ rowsMade' \in Nat
  BY TranscriptAssumption DEF TranscriptInv, TranscriptTypes
<1>2. tabs'[t] = p /\ \A u \in HistoryTabs \ {t} : tabs'[u] = tabs[u]
  BY DEF TranscriptInv, TranscriptTypes
<1>3. TranscriptTypes'
  <2>1. p \in Pages
    BY DEF PageInv
  <2>2. tabs' \in [HistoryTabs -> Pages]
    BY <2>1 DEF TranscriptInv, TranscriptTypes
  <2>3. QED
    BY <2>2 DEF Touches, TranscriptTypes
<1>4. ASSUME NEW u \in HistoryTabs PROVE PageInv(tabs'[u], rowsMade')
  <2>1. PageInv(tabs[u], rowsMade)
    BY DEF TranscriptInv
  <2>2. QED
    BY <1>1, <1>2, <2>1, BoundGrows
<1>5. ASSUME NEW u \in HistoryTabs PROVE PageOnDisk(u)'
  <2>1. TranscriptTypes /\ PageInv(tabs[u], rowsMade) /\ PageOnDisk(u)
    BY DEF TranscriptInv
  <2>2. QED
    BY <1>2, <2>1, OthersOnDisk
<1>6. QED
  BY <1>3, <1>4, <1>5 DEF TranscriptInv, DisksGood

\* The caches of wallets that are not shown and whose keys t did not write.
LEMMA CacheStays ==
  ASSUME TranscriptInv, NEW t \in HistoryTabs, NEW W \in SUBSET Owners, Touches(t, W), Recalls(t, W),
         NEW w \in Owners \ W, tabs[t].owner # w, tabs'[t].cache[w] = tabs[t].cache[w]
  PROVE  CacheOnDisk(t, w)'
<1>1. CacheOnDisk(t, w)
  BY DEF TranscriptInv, PageOnDisk
<1>2. Undisturbed(t, w)' => Undisturbed(t, w)
  BY DEF Undisturbed, Touches, Recalls
<1>3. disk'[w] = disk[w]
  BY DEF Touches
<1>4. QED
  BY <1>1, <1>2, <1>3 DEF CacheOnDisk, Loaded

\* An update of the shown transcript, which its subscriber writes when it must.
LEMMA PublishSafely ==
  ASSUME TranscriptInv, NEW t \in HistoryTabs, NEW p, Publish(t, p), PageInv(p, rowsMade'),
         p.owner = tabs[t].owner, p.owner # NoOwner, p.cache = tabs[t].cache,
         p.tx # 0 => tabs[t].tx = p.tx \/ (tabs[t].messages # p.messages /\ RowsChanged(tabs[t].messages, p.messages)),
         rowsMade' \in 0..MaxRows, rowsMade <= rowsMade', setting' = setting
  PROVE  TranscriptInv'
<1>0. PICK o : o = tabs[t].owner
  OBVIOUS
<1>1. /\ TranscriptTypes /\ DisksGood /\ o \in Owners /\ p \in Pages /\ PageOnDisk(t)
      /\ rowsMade \in Nat /\ rowsMade' \in Nat /\ setting' \in BOOLEAN
  BY <1>0, TranscriptAssumption DEF TranscriptInv, DisksGood, TranscriptTypes, PageInv, Pages
<1>2. IsTranscript(p.messages, o, rowsMade') /\ p.messages \in Seq(Row)
  BY <1>0 DEF PageInv, IsTranscript
<1>3. tabs' = [tabs EXCEPT ![t] = p] /\ tabs'[t] = p
  BY <1>0, <1>1 DEF Publish, TranscriptTypes
<1>4. CASE MustSave(tabs[t], p)
  <2>1. SaveAnd(t, tabs[t].saving, o, p.messages, {})
    BY <1>0, <1>4 DEF Publish, Save
  <2>2. PICK W \in SUBSET Owners : HasSaved(t, o, p.messages, {}, W)
    <3>1. {} \in SUBSET Owners /\ o \notin {}
      OBVIOUS
    <3>2. QED
      BY <1>0, <1>1, <1>2, <2>1, <3>1, SaveTouches
  <2>3. Touches(t, W) /\ Recalls(t, W) /\ DisksGood' /\ W \subseteq {o}
    BY <2>2 DEF HasSaved
  <2>4. ASSUME NEW w \in Owners PROVE CacheOnDisk(t, w)'
    <3>1. CASE w = o
      BY <1>0, <1>3, <3>1 DEF CacheOnDisk
    <3>2. CASE w # o
      BY <1>0, <1>1, <1>3, <2>3, <3>2, CacheStays
    <3>3. QED
      BY <3>1, <3>2
  <2>5. CASE o \in W
    <3>1. disk'[o] = Image(p.messages)
      BY <2>2, <2>5 DEF HasSaved
    <3>2. Loaded(o)' = Rehydrated(Lasting(p.messages)) /\ disk'[o].rows = Lasting(p.messages)
      BY <1>0, <1>2, <3>1, DiskValues DEF Loaded
    <3>3. ShownOnDisk(t)'
      BY <1>0, <1>3, <3>2 DEF ShownOnDisk
    <3>4. TxOnDisk(t)'
      <4> SUFFICES ASSUME p.tx # 0
                   PROVE  \E i \in DOMAIN disk'[o].rows : disk'[o].rows[i].id = p.tx /\ disk'[o].rows[i].state = "inflight"
        BY <1>0, <1>3 DEF TxOnDisk
      <4>1. PICK i \in DOMAIN p.messages : p.messages[i].id = p.tx /\ p.messages[i].state = "inflight"
        BY DEF PageInv, RowsAreLive
      <4>2. PICK j \in DOMAIN Lasting(p.messages) : Lasting(p.messages)[j] = p.messages[i]
        <5>1. \A k \in DOMAIN p.messages : p.messages[k].state # "streaming" =>
                \E j \in DOMAIN Lasting(p.messages) : Lasting(p.messages)[j] = p.messages[k]
          BY <1>2, LastingTranscript
        <5>2. QED
          BY <4>1, <5>1
      <4>3. QED
        BY <3>2, <4>1, <4>2
    <3>5. PageOnDisk(t)'
      BY <2>4, <3>3, <3>4 DEF PageOnDisk
    <3>6. QED
      BY <1>0, <1>1, <1>3, <2>3, <3>5, OnePageMoves
  <2>6. CASE o \notin W
    <3>1. t \in unsaved'
      BY <2>2, <2>6 DEF HasSaved
    <3>2. PageOnDisk(t)'
      BY <2>4, <3>1 DEF PageOnDisk, ShownOnDisk, TxOnDisk, Undisturbed
    <3>3. QED
      BY <1>0, <1>1, <1>3, <2>3, <3>2, OnePageMoves
  <2>7. QED
    BY <2>5, <2>6
<1>5. CASE ~MustSave(tabs[t], p)
  <2>1. NoSave
    BY <1>0, <1>5 DEF Publish
  <2>2. Touches(t, {}) /\ Recalls(t, {})
    BY <1>0, <1>1, <2>1 DEF NoSave, Touches, Recalls, StorageTypes, TranscriptTypes
  <2>3. DisksGood'
    <3>1. \A w \in Owners : IsTranscript(disk[w].rows, w, rowsMade')
      BY <1>0, <1>1, BoundGrows DEF DisksGood, DiskInv
    <3>2. QED
      BY <1>0, <1>1, <2>1, <3>1 DEF DisksGood, DiskInv, NoSave
  <2>4. ASSUME NEW w \in Owners PROVE CacheOnDisk(t, w)'
    <3>1. CASE w = o
      BY <1>0, <1>3, <3>1 DEF CacheOnDisk
    <3>2. CASE w # o
      BY <1>0, <1>1, <1>3, <2>2, <3>2, CacheStays
    <3>3. QED
      BY <3>1, <3>2
  <2>5. Lasting(p.messages) = Lasting(tabs[t].messages)
    BY <1>0, <1>5 DEF MustSave, RowsChanged
  <2>6. ShownOnDisk(t)'
    BY <1>0, <1>1, <1>3, <2>1, <2>5 DEF ShownOnDisk, PageOnDisk, Undisturbed, NoSave, Loaded
  <2>7. TxOnDisk(t)'
    <3>1. p.tx # 0 => tabs[t].tx = p.tx
      BY <1>0, <1>5 DEF MustSave
    <3>2. QED
      BY <1>0, <1>1, <1>3, <2>1, <3>1 DEF TxOnDisk, PageOnDisk, NoSave
  <2>8. PageOnDisk(t)'
    BY <2>4, <2>6, <2>7 DEF PageOnDisk
  <2>9. {} \in SUBSET Owners
    OBVIOUS
  <2>10. QED
    BY <1>0, <1>1, <1>3, <2>2, <2>3, <2>8, <2>9, OnePageMoves
<1>6. QED
  BY <1>0, <1>4, <1>5

-----------------------------------------------------------------------------
(* The steps of a turn *)

\* q with other rows and other work under way.
Moved(q, b, c, x, m, a) == [q EXCEPT !.busy = b, !.card = c, !.tx = x, !.messages = m, !.adrift = a]

LEMMA MovedFields ==
  ASSUME NEW q \in Pages, NEW b \in BOOLEAN, NEW c \in 0..MaxRows, NEW x \in 0..MaxRows, NEW m \in Seq(Row),
         NEW a \in SUBSET [owner : Owners, id : 1..MaxRows]
  PROVE  /\ Moved(q, b, c, x, m, a) \in Pages
         /\ Moved(q, b, c, x, m, a).owner = q.owner
         /\ Moved(q, b, c, x, m, a).cache = q.cache
         /\ Moved(q, b, c, x, m, a).busy = b
         /\ Moved(q, b, c, x, m, a).card = c
         /\ Moved(q, b, c, x, m, a).tx = x
         /\ Moved(q, b, c, x, m, a).messages = m
         /\ Moved(q, b, c, x, m, a).adrift = a
BY DEF Moved, Pages

\* The page of a tab, and the bounds, as the invariant has them.
LEMMA PageOf ==
  ASSUME TranscriptInv, NEW t \in HistoryTabs
  PROVE  /\ PageInv(tabs[t], rowsMade) /\ tabs[t] \in Pages /\ tabs[t].messages \in Seq(Row)
         /\ IsTranscript(tabs[t].messages, tabs[t].owner, rowsMade)
         /\ NobodyShown(tabs[t]) /\ RowsAreLive(tabs[t].messages, tabs[t].busy, tabs[t].card, tabs[t].tx)
         /\ AdriftIsOlder(tabs[t].adrift, tabs[t].messages, tabs[t].card, tabs[t].tx, rowsMade)
         /\ rowsMade \in Nat /\ rowsMade \in 0..MaxRows /\ MaxRows \in Nat
         /\ tabs[t].owner \in Owners \union {NoOwner} /\ tabs[t].busy \in BOOLEAN /\ tabs[t].saving \in BOOLEAN
         /\ tabs[t].card \in 0..MaxRows /\ tabs[t].tx \in 0..MaxRows
         /\ tabs[t].adrift \in SUBSET [owner : Owners, id : 1..MaxRows]
         /\ tabs[t].cache \in [Owners -> Values]
<1>1. PageInv(tabs[t], rowsMade) /\ tabs[t] \in Pages /\ rowsMade \in 0..MaxRows /\ MaxRows \in Nat
  BY TranscriptAssumption DEF TranscriptInv, PageInv, TranscriptTypes
<1>2. QED
  BY <1>1 DEF PageInv, Pages, IsTranscript

\* An update of rows and work that leaves both in order.
LEMMA MovesSafely ==
  ASSUME TranscriptInv, NEW t \in HistoryTabs, tabs[t].owner \in Owners,
         NEW b \in BOOLEAN, NEW c \in 0..MaxRows, NEW x \in 0..MaxRows, NEW m,
         NEW a \in SUBSET [owner : Owners, id : 1..MaxRows],
         Publish(t, Moved(tabs[t], b, c, x, m, a)),
         IsTranscript(m, tabs[t].owner, rowsMade'), RowsAreLive(m, b, c, x), AdriftIsOlder(a, m, c, x, rowsMade'),
         x # 0 => tabs[t].tx = x \/ (tabs[t].messages # m /\ RowsChanged(tabs[t].messages, m)),
         rowsMade' \in 0..MaxRows, rowsMade <= rowsMade', setting' = setting
  PROVE  TranscriptInv'
<1>1. PICK q : q = tabs[t]
  OBVIOUS
<1>2. PICK p : p = Moved(q, b, c, x, m, a)
  OBVIOUS
<1>3. m \in Seq(Row) /\ q \in Pages /\ PageInv(q, rowsMade) /\ rowsMade \in Nat /\ rowsMade' \in Nat
  BY <1>1, PageOf, TranscriptAssumption DEF IsTranscript
<1>4. /\ p \in Pages /\ p.owner = q.owner /\ p.cache = q.cache /\ p.messages = m
      /\ p.card = c /\ p.tx = x /\ p.adrift = a
  BY <1>2, <1>3, MovedFields
<1>5. p.busy = b
  BY <1>2, <1>3, MovedFields
<1>6. ASSUME NEW w \in Owners PROVE IsTranscript(p.cache[w].rows, w, rowsMade') /\ AtRest(p.cache[w].rows)
  BY <1>3, <1>4, BoundGrows DEF PageInv
<1>7. p.owner # NoOwner
  BY <1>1, <1>4, TranscriptAssumption
<1>8. RowsAreLive(p.messages, p.busy, p.card, p.tx) /\ AdriftIsOlder(p.adrift, p.messages, p.card, p.tx, rowsMade')
  BY <1>4, <1>5
<1>9. PageInv(p, rowsMade')
  BY <1>1, <1>4, <1>6, <1>7, <1>8 DEF PageInv, NobodyShown
<1>10. Publish(t, p)
  BY <1>1, <1>2
<1>11. QED
  BY <1>1, <1>4, <1>7, <1>9, <1>10, PublishSafely

LEMMA RowTypes ==
  ASSUME NEW rows \in Seq(Row)
  PROVE  \A i \in DOMAIN rows : /\ rows[i] \in Row /\ rows[i].id \in 1..MaxRows /\ rows[i].id \in Nat /\ rows[i].id # 0
                                /\ rows[i].owner \in Owners /\ rows[i].state \in RowStates
<1>1. \A i \in DOMAIN rows : rows[i] \in Row
  OBVIOUS
<1>2. QED
  BY <1>1 DEF Row

\* One row is set and stays in the transcript.
LEMMA SetRowTranscript ==
  ASSUME NEW m, NEW w, NEW n, IsTranscript(m, w, n), NEW id, NEW state \in RowStates
  PROVE  /\ IsTranscript(SetRow(m, id, state), w, n)
         /\ DOMAIN SetRow(m, id, state) = DOMAIN m
         /\ \A j \in DOMAIN m : /\ SetRow(m, id, state)[j].id = m[j].id
                                /\ m[j].id = id => SetRow(m, id, state)[j].state = state
                                /\ m[j].id # id => SetRow(m, id, state)[j] = m[j]
         /\ \A y : HasRow(SetRow(m, id, state), y) <=> HasRow(m, y)
<1>1. m \in Seq(Row)
  BY DEF IsTranscript
<1> DEFINE new == SetRow(m, id, state)
<1>2. /\ Rewrites(new, m) /\ DOMAIN new = DOMAIN m
      /\ \A j \in DOMAIN m : (m[j].id = id => new[j].state = state) /\ (m[j].id # id => new[j] = m[j])
  BY <1>1, SetRowRewrites
<1> HIDE DEF new
<1>3. /\ IsTranscript(new, w, n) /\ \A y : HasRow(new, y) <=> HasRow(m, y)
      /\ \A j \in DOMAIN m : new[j].id = m[j].id
  BY <1>1, <1>2, RewrittenRows DEF Rewrites
<1>4. QED
  BY <1>2, <1>3 DEF new

LEMMA TurnAnsweredSafely ==
  ASSUME TranscriptInv, NEW t \in HistoryTabs, TurnAnswered(t)
  PROVE  TranscriptInv'
<1>1. PICK q : q = tabs[t]
  OBVIOUS
<1>2. PICK m : m = q.messages
  OBVIOUS
<1>3. PICK i \in DOMAIN m : m[i].state = "streaming" /\ StreamingId(t) = m[i].id
  BY <1>1, <1>2 DEF TurnAnswered, StreamingId, ToSet
<1>4. PICK s : s = StreamingId(t)
  OBVIOUS
<1>5. /\ q \in Pages /\ m \in Seq(Row) /\ IsTranscript(m, q.owner, rowsMade)
      /\ NobodyShown(q) /\ RowsAreLive(m, q.busy, q.card, q.tx) /\ AdriftIsOlder(q.adrift, m, q.card, q.tx, rowsMade)
      /\ rowsMade \in 0..MaxRows /\ q.adrift \in SUBSET [owner : Owners, id : 1..MaxRows]
      /\ q.owner \in Owners \union {NoOwner}
  BY <1>1, <1>2, PageOf
<1>6. s \in 1..MaxRows /\ s # 0 /\ q.busy /\ q.card = 0 /\ q.tx = 0
  BY <1>3, <1>4, <1>5, RowTypes DEF RowsAreLive
<1>7. q.owner \in Owners
  BY <1>5, <1>6 DEF NobodyShown
<1>8. PICK asks \in BOOLEAN :
        Publish(t, [q EXCEPT !.busy = FALSE, !.card = IF asks THEN s ELSE 0,
                             !.messages = SetRow(@, s, IF asks THEN "awaiting" ELSE "plain")])
  BY <1>1, <1>4 DEF TurnAnswered
<1>9. PICK state \in {"awaiting", "plain"}, card \in 0..MaxRows :
        /\ state = IF asks THEN "awaiting" ELSE "plain"
        /\ card = IF asks THEN s ELSE 0
  BY <1>6, TranscriptAssumption
<1>10. PICK new : new = SetRow(m, s, state)
  OBVIOUS
<1>11. Publish(t, Moved(q, FALSE, card, 0, new, q.adrift)) /\ rowsMade' = rowsMade /\ setting' = setting
  <2>1. Moved(q, FALSE, card, 0, new, q.adrift) = [q EXCEPT !.busy = FALSE, !.card = card, !.messages = new]
    BY <1>5, <1>6 DEF Moved, Pages
  <2>2. QED
    BY <1>2, <1>8, <1>9, <1>10, <2>1 DEF TurnAnswered
<1>12. /\ IsTranscript(new, q.owner, rowsMade) /\ DOMAIN new = DOMAIN m /\ \A y : HasRow(new, y) <=> HasRow(m, y)
       /\ \A j \in DOMAIN m : new[j].id = m[j].id /\ (m[j].id = s => new[j].state = state) /\ (m[j].id # s => new[j] = m[j])
  BY <1>5, <1>10, SetRowTranscript DEF RowStates
<1>13. \A j \in DOMAIN m : m[j].id # s => m[j].state \in {"plain", "closed"}
  <2> SUFFICES ASSUME NEW j \in DOMAIN m, m[j].id # s PROVE m[j].state \in {"plain", "closed"}
    OBVIOUS
  <2>1. m[j].state \in RowStates /\ m[j].id # 0
    BY <1>5, RowTypes
  <2>2. m[j].state # "streaming"
    BY <1>3, <1>4, <1>5 DEF RowsAreLive
  <2>3. m[j].state # "awaiting" /\ m[j].state # "inflight"
    BY <1>5, <1>6, <2>1 DEF RowsAreLive
  <2>4. QED
    BY <2>1, <2>2, <2>3 DEF RowStates
<1>14. RowsAreLive(new, FALSE, card, 0)
  <2>1. \A j \in DOMAIN new : /\ new[j].state # "streaming" /\ new[j].state # "inflight"
                              /\ new[j].state = "awaiting" => new[j].id = card
    BY <1>9, <1>12, <1>13
  <2>2. card # 0 => HasRow(new, card)
    BY <1>3, <1>4, <1>9, <1>12 DEF HasRow
  <2>3. QED
    BY <2>1, <2>2 DEF RowsAreLive
<1>15. AdriftIsOlder(q.adrift, new, card, 0, rowsMade)
  <2>1. \A y \in q.adrift : y.id <= rowsMade /\ y.id < s
    BY <1>3, <1>4, <1>5 DEF AdriftIsOlder
  <2>2. \A j \in DOMAIN new : new[j].state # "streaming"
    BY <1>9, <1>12, <1>13
  <2>3. QED
    BY <1>9, <2>1, <2>2 DEF AdriftIsOlder
<1>16. rowsMade <= rowsMade /\ 0 \in 0..MaxRows
  BY <1>5, TranscriptAssumption
<1>17. QED
  BY <1>1, <1>5, <1>7, <1>9, <1>11, <1>12, <1>14, <1>15, <1>16, MovesSafely

LEMMA ConfirmRowSafely ==
  ASSUME TranscriptInv, NEW t \in HistoryTabs, ConfirmRow(t)
  PROVE  TranscriptInv'
<1>1. PICK q : q = tabs[t]
  OBVIOUS
<1>2. PICK m : m = q.messages
  OBVIOUS
<1>3. PICK c : c = q.card
  OBVIOUS
<1>4. /\ q \in Pages /\ m \in Seq(Row) /\ IsTranscript(m, q.owner, rowsMade)
      /\ NobodyShown(q) /\ RowsAreLive(m, q.busy, q.card, q.tx) /\ AdriftIsOlder(q.adrift, m, q.card, q.tx, rowsMade)
      /\ rowsMade \in 0..MaxRows /\ q.adrift \in SUBSET [owner : Owners, id : 1..MaxRows]
      /\ q.owner \in Owners \union {NoOwner} /\ q.card \in 0..MaxRows
  BY <1>1, <1>2, PageOf
<1>5. c \in 0..MaxRows /\ c # 0 /\ ~q.busy /\ q.tx = 0 /\ HasRow(m, c)
  BY <1>1, <1>3, <1>4 DEF ConfirmRow, RowsAreLive
<1>6. q.owner \in Owners
  BY <1>3, <1>4, <1>5 DEF NobodyShown
<1>7. PICK new : new = SetRow(m, c, "inflight")
  OBVIOUS
<1>8. Publish(t, Moved(q, TRUE, 0, c, new, q.adrift)) /\ rowsMade' = rowsMade /\ setting' = setting
  <2>1. Moved(q, TRUE, 0, c, new, q.adrift) = [q EXCEPT !.busy = TRUE, !.card = 0, !.tx = c, !.messages = new]
    BY <1>4 DEF Moved, Pages
  <2>2. QED
    BY <1>1, <1>2, <1>3, <1>7, <2>1 DEF ConfirmRow
<1>9. /\ IsTranscript(new, q.owner, rowsMade) /\ DOMAIN new = DOMAIN m
      /\ \A j \in DOMAIN m : new[j].id = m[j].id /\ (m[j].id = c => new[j].state = "inflight") /\ (m[j].id # c => new[j] = m[j])
  BY <1>4, <1>7, SetRowTranscript DEF RowStates
<1>10. \A j \in DOMAIN m : /\ m[j].state # "streaming" /\ m[j].state # "inflight"
                           /\ m[j].id # c => m[j].state # "awaiting"
  BY <1>3, <1>4, <1>5, RowTypes DEF RowsAreLive
<1>11. PICK i \in DOMAIN m : m[i].id = c
  BY <1>5 DEF HasRow
<1>12. RowsAreLive(new, TRUE, 0, c)
  <2>1. \A j \in DOMAIN new : /\ new[j].state # "streaming" /\ new[j].state # "awaiting"
                              /\ new[j].state = "inflight" => new[j].id = c
    BY <1>9, <1>10
  <2>2. new[i].id = c /\ new[i].state = "inflight"
    BY <1>9, <1>11
  <2>3. QED
    BY <1>9, <1>11, <2>1, <2>2 DEF RowsAreLive
<1>13. AdriftIsOlder(q.adrift, new, 0, c, rowsMade)
  <2>1. \A y \in q.adrift : y.id <= rowsMade /\ y.id < c
    BY <1>3, <1>4, <1>5 DEF AdriftIsOlder
  <2>2. \A j \in DOMAIN new : new[j].state # "streaming"
    BY <1>9, <1>10
  <2>3. QED
    BY <2>1, <2>2 DEF AdriftIsOlder
<1>14. m # new /\ RowsChanged(m, new)
  <2>1. new # m
    BY <1>9, <1>10, <1>11
  <2>2. Unstreamed(m) /\ Unstreamed(new)
    BY <1>9, <1>10 DEF Unstreamed
  <2>3. Lasting(m) = m /\ Lasting(new) = new
    BY <1>4, <1>9, <2>2, LastingTranscript
  <2>4. QED
    BY <2>1, <2>3 DEF RowsChanged
<1>15. rowsMade <= rowsMade /\ 0 \in 0..MaxRows
  BY <1>4, TranscriptAssumption
<1>16. QED
  BY <1>1, <1>2, <1>4, <1>5, <1>6, <1>8, <1>9, <1>12, <1>13, <1>14, <1>15, MovesSafely

LEMMA TransactionEndsSafely ==
  ASSUME TranscriptInv, NEW t \in HistoryTabs, TransactionEnds(t)
  PROVE  TranscriptInv'
<1>1. PICK q : q = tabs[t]
  OBVIOUS
<1>2. PICK m : m = q.messages
  OBVIOUS
<1>3. PICK x : x = q.tx
  OBVIOUS
<1>4. /\ q \in Pages /\ m \in Seq(Row) /\ IsTranscript(m, q.owner, rowsMade)
      /\ NobodyShown(q) /\ RowsAreLive(m, q.busy, q.card, q.tx) /\ AdriftIsOlder(q.adrift, m, q.card, q.tx, rowsMade)
      /\ rowsMade \in 0..MaxRows /\ q.adrift \in SUBSET [owner : Owners, id : 1..MaxRows]
      /\ q.owner \in Owners \union {NoOwner}
  BY <1>1, <1>2, PageOf
<1>5. x # 0 /\ q.card = 0
  BY <1>1, <1>3, <1>4 DEF TransactionEnds, RowsAreLive
<1>6. q.owner \in Owners
  BY <1>3, <1>4, <1>5 DEF NobodyShown
<1>7. PICK new : new = SetRow(m, x, "plain")
  OBVIOUS
<1>8. Publish(t, Moved(q, FALSE, 0, 0, new, q.adrift)) /\ rowsMade' = rowsMade /\ setting' = setting
  <2>1. Moved(q, FALSE, 0, 0, new, q.adrift) = [q EXCEPT !.busy = FALSE, !.tx = 0, !.messages = new]
    BY <1>4, <1>5 DEF Moved, Pages
  <2>2. QED
    BY <1>1, <1>2, <1>3, <1>7, <2>1 DEF TransactionEnds
<1>9. /\ IsTranscript(new, q.owner, rowsMade) /\ DOMAIN new = DOMAIN m
      /\ \A j \in DOMAIN m : new[j].id = m[j].id /\ (m[j].id = x => new[j].state = "plain") /\ (m[j].id # x => new[j] = m[j])
  BY <1>4, <1>7, SetRowTranscript DEF RowStates
<1>10. \A j \in DOMAIN new : new[j].state \notin {"streaming", "awaiting", "inflight"}
  <2>1. \A j \in DOMAIN m : m[j].id # x => m[j].state \notin {"streaming", "awaiting", "inflight"}
    BY <1>3, <1>4, <1>5, RowTypes DEF RowsAreLive
  <2>2. QED
    BY <1>9, <2>1
<1>11. RowsAreLive(new, FALSE, 0, 0)
  BY <1>10 DEF RowsAreLive
<1>12. AdriftIsOlder(q.adrift, new, 0, 0, rowsMade)
  BY <1>4, <1>10 DEF AdriftIsOlder
<1>13. rowsMade <= rowsMade /\ 0 \in 0..MaxRows
  BY <1>4, TranscriptAssumption
<1>14. QED
  BY <1>1, <1>4, <1>6, <1>8, <1>9, <1>11, <1>12, <1>13, MovesSafely

LEMMA SendRowsSafely ==
  ASSUME TranscriptInv, NEW t \in HistoryTabs, SendRows(t)
  PROVE  TranscriptInv'
<1>1. PICK q : q = tabs[t]
  OBVIOUS
<1>2. PICK m : m = q.messages
  OBVIOUS
<1>3. PICK n : n = rowsMade
  OBVIOUS
<1>4. /\ q \in Pages /\ m \in Seq(Row) /\ IsTranscript(m, q.owner, n)
      /\ RowsAreLive(m, q.busy, q.card, q.tx) /\ AdriftIsOlder(q.adrift, m, q.card, q.tx, n)
      /\ n \in Nat /\ q.adrift \in SUBSET [owner : Owners, id : 1..MaxRows]
      /\ q.owner \in Owners \union {NoOwner} /\ MaxRows \in Nat
  BY <1>1, <1>2, <1>3, PageOf
<1>5. q.owner \in Owners /\ ~q.busy /\ q.tx = 0 /\ n + 2 <= MaxRows /\ rowsMade' = n + 2 /\ setting' = setting
  BY <1>1, <1>3, <1>4 DEF SendRows, RowsAreLive
<1>6. PICK row1, row2 : /\ row1 = [id |-> n + 1, owner |-> q.owner, state |-> "plain"]
                        /\ row2 = [id |-> n + 2, owner |-> q.owner, state |-> "streaming"]
  OBVIOUS
<1>7. /\ row1 \in Row /\ row1.id = n + 1 /\ row1.owner = q.owner /\ row1.state = "plain"
      /\ row2 \in Row /\ row2.id = (n + 1) + 1 /\ row2.owner = q.owner /\ row2.state = "streaming"
  BY <1>4, <1>5, <1>6 DEF Row, RowStates
<1>8. PICK closed : closed = SetRow(m, q.card, "closed")
  OBVIOUS
<1>9. PICK longer : longer = Append(Append(closed, row1), row2)
  OBVIOUS
<1>10. /\ IsTranscript(closed, q.owner, n) /\ DOMAIN closed = DOMAIN m /\ closed \in Seq(Row)
       /\ \A j \in DOMAIN m : /\ closed[j].id = m[j].id
                              /\ m[j].id = q.card => closed[j].state = "closed"
                              /\ m[j].id # q.card => closed[j] = m[j]
  BY <1>4, <1>8, SetRowTranscript DEF RowStates, IsTranscript
<1>11. closed \o <<row1, row2>> = longer
  BY <1>7, <1>9, <1>10
<1>12. \A j \in DOMAIN closed : closed[j].state \notin {"streaming", "awaiting", "inflight"}
  <2>1. \A j \in DOMAIN m : m[j].id # q.card => m[j].state \notin {"streaming", "awaiting", "inflight"}
    BY <1>4, <1>5, RowTypes DEF RowsAreLive
  <2>2. QED
    BY <1>10, <2>1
<1>13. /\ IsGrown(longer, q.owner, n + 2) /\ Len(longer) = Len(closed) + 2
       /\ longer[Len(closed) + 2] = row2 /\ longer[Len(closed) + 1] = row1
       /\ \A j \in DOMAIN closed : longer[j] = closed[j]
  <2> DEFINE once == Append(closed, row1)
  <2>1. /\ IsGrown(once, q.owner, n + 1) /\ Len(once) = Len(closed) + 1 /\ once[Len(closed) + 1] = row1
        /\ \A j \in DOMAIN closed : once[j] = closed[j]
    BY <1>4, <1>7, <1>10, GrownTranscript, AddedRow
  <2>2. n + 1 \in Nat /\ (n + 1) + 1 = n + 2 /\ once \in Seq(Row) /\ Len(closed) \in Nat /\ DOMAIN closed = 1..Len(closed)
    BY <1>4, <1>10, <2>1 DEF IsGrown
  <2> HIDE DEF once
  <2>3. /\ IsGrown(Append(once, row2), q.owner, (n + 1) + 1) /\ Len(Append(once, row2)) = Len(once) + 1
        /\ Append(once, row2)[Len(once) + 1] = row2
        /\ \A j \in DOMAIN once : Append(once, row2)[j] = once[j]
    BY <1>7, <2>1, <2>2, AddedRow
  <2>4. longer = Append(once, row2)
    BY <1>9 DEF once
  <2>5. DOMAIN once = 1..Len(closed) + 1 /\ (Len(closed) + 1) + 1 = Len(closed) + 2
    BY <2>1, <2>2
  <2>6. QED
    BY <2>1, <2>2, <2>3, <2>4, <2>5
<1>14. PICK new : new = Trimmed(longer)
  OBVIOUS
<1>15. IsTranscript(new, q.owner, n + 2)
  BY <1>13, <1>14, TrimmedRows
<1>16. PICK k \in Nat : /\ Len(new) = Len(longer) - k
                        /\ \A i \in DOMAIN new : i + k \in DOMAIN longer /\ new[i] = longer[i + k]
  BY <1>13, <1>14, TrimmedRows
<1>17. \A i \in DOMAIN new : /\ new[i].state \notin {"awaiting", "inflight"}
                             /\ new[i].state = "streaming" => i + k = Len(longer) /\ new[i].id = n + 2
  <2> SUFFICES ASSUME NEW i \in DOMAIN new
               PROVE  /\ new[i].state \notin {"awaiting", "inflight"}
                      /\ new[i].state = "streaming" => i + k = Len(longer) /\ new[i].id = n + 2
    OBVIOUS
  <2>1. i + k \in DOMAIN longer /\ new[i] = longer[i + k]
    BY <1>16
  <2>2. DOMAIN longer = 1..Len(closed) + 2 /\ DOMAIN closed = 1..Len(closed) /\ Len(closed) \in Nat
    BY <1>10, <1>13 DEF IsGrown
  <2>3. CASE i + k \in DOMAIN closed
    BY <1>12, <1>13, <2>1, <2>3
  <2>4. CASE i + k = Len(closed) + 1
    BY <1>7, <1>13, <2>1, <2>4
  <2>5. CASE i + k = Len(closed) + 2
    BY <1>7, <1>13, <2>1, <2>5, <1>4
  <2>6. QED
    BY <2>1, <2>2, <2>3, <2>4, <2>5
<1>18. RowsAreLive(new, TRUE, 0, 0)
  <2>1. \A i, j \in DOMAIN new : new[i].state = "streaming" /\ new[j].state = "streaming" => i = j
    <3>1. new \in Seq(Row) /\ \A i \in DOMAIN new : i \in Nat
      BY <1>15 DEF IsTranscript
    <3>2. QED
      BY <1>16, <1>17, <3>1
  <2>2. QED
    BY <1>17, <2>1 DEF RowsAreLive
<1>19. AdriftIsOlder(q.adrift, new, 0, 0, n + 2)
  <2>1. \A y \in q.adrift : y.id \in Nat /\ y.id <= n
    BY <1>4 DEF AdriftIsOlder
  <2>2. \A y \in q.adrift : y.id <= n + 2 /\ y.id < n + 2
    BY <1>4, <2>1
  <2>3. QED
    BY <1>17, <2>2 DEF AdriftIsOlder
<1>20. Publish(t, Moved(q, TRUE, 0, 0, new, q.adrift))
  <2>1. Moved(q, TRUE, 0, 0, new, q.adrift) = [q EXCEPT !.busy = TRUE, !.card = 0, !.messages = new]
    BY <1>4, <1>5 DEF Moved, Pages
  <2>2. QED
    BY <1>1, <1>2, <1>3, <1>6, <1>8, <1>11, <1>14, <2>1 DEF SendRows
<1>21. rowsMade' \in 0..MaxRows /\ rowsMade <= rowsMade' /\ 0 \in 0..MaxRows
  BY <1>3, <1>4, <1>5
<1>22. QED
  BY <1>1, <1>4, <1>5, <1>15, <1>18, <1>19, <1>20, <1>21, MovesSafely

-----------------------------------------------------------------------------
(* The user moves on *)

\* What closing leaves of the shown transcript is settled.
LEMMA ClosedIsAtRest ==
  ASSUME TranscriptInv, NEW t \in HistoryTabs, tabs[t].owner \in Owners,
         rowsMade' = IF NeedsNotice(t) THEN rowsMade + 1 ELSE rowsMade, rowsMade' <= MaxRows
  PROVE  IsTranscript(Closed(t), tabs[t].owner, rowsMade') /\ AtRest(Closed(t))
<1>1. PICK q : q = tabs[t]
  OBVIOUS
<1>2. PICK m : m = q.messages
  OBVIOUS
<1>3. PICK n : n = rowsMade
  OBVIOUS
<1>4. /\ q \in Pages /\ m \in Seq(Row) /\ IsTranscript(m, q.owner, n) /\ RowsAreLive(m, q.busy, q.card, q.tx)
      /\ n \in Nat /\ q.owner \in Owners /\ MaxRows \in Nat
  BY <1>1, <1>2, <1>3, PageOf
<1>5. PICK closed : closed = [i \in DOMAIN m |-> IF m[i].id \in {q.card, q.tx} \/ m[i].state = "streaming"
                                                 THEN [m[i] EXCEPT !.state = "closed"] ELSE m[i]]
  OBVIOUS
<1>6. DOMAIN m = 1..Len(m) /\ Len(m) \in Nat
  BY <1>4
<1>7. \A i \in DOMAIN m : /\ closed[i] \in Row /\ closed[i].id = m[i].id /\ closed[i].owner = m[i].owner
                          /\ closed[i].state \in {"plain", "closed"}
  <2> SUFFICES ASSUME NEW i \in DOMAIN m
               PROVE  /\ closed[i] \in Row /\ closed[i].id = m[i].id /\ closed[i].owner = m[i].owner
                      /\ closed[i].state \in {"plain", "closed"}
    OBVIOUS
  <2>1. m[i] \in Row
    BY <1>4
  <2>2. CASE m[i].id \in {q.card, q.tx} \/ m[i].state = "streaming"
    <3>1. closed[i] = [m[i] EXCEPT !.state = "closed"]
      BY <1>5, <2>2
    <3>2. QED
      BY <2>1, <3>1 DEF Row, RowStates
  <2>3. CASE ~(m[i].id \in {q.card, q.tx} \/ m[i].state = "streaming")
    <3>1. closed[i] = m[i] /\ m[i].state \in RowStates
      BY <1>4, <1>5, <2>3, RowTypes
    <3>2. m[i].state \notin {"streaming", "awaiting", "inflight"}
      BY <1>4, <2>3 DEF RowsAreLive
    <3>3. QED
      BY <2>1, <3>1, <3>2 DEF RowStates
  <2>4. QED
    BY <2>2, <2>3
<1>8. closed \in [1..Len(m) -> Row]
  BY <1>5, <1>6, <1>7
<1>9. closed \in Seq(Row) /\ Len(closed) = Len(m) /\ DOMAIN closed = DOMAIN m
  BY <1>6, <1>8, IsSequence
<1>10. Rewrites(closed, m) /\ AtRest(closed)
  BY <1>7, <1>9 DEF Rewrites, AtRest
<1>11. IsTranscript(closed, q.owner, n)
  BY <1>4, <1>10, RewrittenRows
<1>12. CASE ~NeedsNotice(t)
  <2>1. Closed(t) = closed /\ rowsMade' = n
    BY <1>1, <1>2, <1>3, <1>5, <1>12 DEF Closed
  <2>2. QED
    BY <1>1, <1>10, <1>11, <2>1
<1>13. CASE NeedsNotice(t)
  <2>1. PICK notice : notice = [id |-> n + 1, owner |-> q.owner, state |-> "closed"]
    OBVIOUS
  <2>2. PICK longer : longer = Append(closed, notice)
    OBVIOUS
  <2>3. Closed(t) = Trimmed(longer) /\ rowsMade' = n + 1
    BY <1>1, <1>2, <1>3, <1>5, <1>13, <2>1, <2>2 DEF Closed
  <2>4. notice \in Row /\ notice.id = n + 1 /\ notice.owner = q.owner /\ notice.state = "closed"
    BY <1>3, <1>4, <2>1, <2>3 DEF Row, RowStates
  <2>5. /\ IsGrown(longer, q.owner, n + 1) /\ Len(longer) = Len(closed) + 1 /\ longer[Len(closed) + 1] = notice
        /\ \A i \in DOMAIN closed : longer[i] = closed[i]
    BY <1>4, <1>11, <2>2, <2>4, GrownTranscript, AddedRow
  <2>6. AtRest(longer)
    <3>1. DOMAIN longer = 1..Len(closed) + 1 /\ DOMAIN closed = 1..Len(closed) /\ Len(closed) \in Nat
      BY <1>9, <2>5 DEF IsGrown
    <3>2. QED
      BY <1>10, <2>4, <2>5, <3>1 DEF AtRest
  <2>7. IsTranscript(Trimmed(longer), q.owner, n + 1)
    BY <2>5, TrimmedRows
  <2>8. PICK k \in Nat : \A i \in DOMAIN Trimmed(longer) : i + k \in DOMAIN longer /\ Trimmed(longer)[i] = longer[i + k]
    BY <2>5, TrimmedRows
  <2>9. AtRest(Trimmed(longer))
    BY <2>6, <2>8 DEF AtRest
  <2>10. QED
    BY <1>1, <2>3, <2>7, <2>9
<1>14. QED
  BY <1>12, <1>13

\* A settled transcript loads as it is, and is written as it is.
LEMMA AtRestLoads ==
  ASSUME NEW rows, NEW w, NEW n, IsTranscript(rows, w, n), AtRest(rows)
  PROVE  Lasting(rows) = rows /\ Rehydrated(Lasting(rows)) = rows
<1>1. rows \in Seq(Row) /\ Unstreamed(rows)
  BY DEF IsTranscript, AtRest, Unstreamed
<1>2. QED
  BY <1>1, LastingTranscript, RehydratedRewrites

\* What is left behind when the authorization ends.
LEMMA LetGoPage ==
  ASSUME TranscriptInv, NEW t \in HistoryTabs
  PROVE  \E a \in SUBSET [owner : Owners, id : 1..MaxRows] :
           /\ LetGo(t) = Moved(tabs[t], FALSE, 0, 0, tabs[t].messages, a)
           /\ \A y \in a : y.id <= rowsMade
<1>1. PICK q : q = tabs[t]
  OBVIOUS
<1>2. PICK a : a = IF q.tx = 0 THEN q.adrift ELSE q.adrift \union {[owner |-> q.owner, id |-> q.tx]}
  OBVIOUS
<1>3. /\ q \in Pages /\ q.messages \in Seq(Row) /\ IsTranscript(q.messages, q.owner, rowsMade) /\ NobodyShown(q)
      /\ RowsAreLive(q.messages, q.busy, q.card, q.tx) /\ q.adrift \in SUBSET [owner : Owners, id : 1..MaxRows]
      /\ AdriftIsOlder(q.adrift, q.messages, q.card, q.tx, rowsMade)
      /\ q.owner \in Owners \union {NoOwner} /\ q.tx \in 0..MaxRows
  BY <1>1, PageOf
<1>4. ASSUME q.tx # 0 PROVE q.owner \in Owners /\ q.tx \in 1..MaxRows /\ q.tx <= rowsMade
  <2>1. q.owner \in Owners
    BY <1>3, <1>4 DEF NobodyShown
  <2>2. PICK i \in DOMAIN q.messages : q.messages[i].id = q.tx
    BY <1>3, <1>4 DEF RowsAreLive
  <2>3. QED
    BY <1>3, <2>1, <2>2, RowTypes DEF IsTranscript, Ordered
<1>5. a \in SUBSET [owner : Owners, id : 1..MaxRows]
  BY <1>2, <1>3, <1>4
<1>6. \A y \in a : y.id <= rowsMade
  BY <1>2, <1>3, <1>4 DEF AdriftIsOlder
<1>7. LetGo(t) = Moved(q, FALSE, 0, 0, q.messages, a)
  BY <1>1, <1>2, <1>3 DEF LetGo, Moved, Pages
<1>8. QED
  BY <1>1, <1>5, <1>6, <1>7

LEMMA RefreshSignerSafely ==
  ASSUME TranscriptInv, NEW t \in HistoryTabs, RefreshSigner(t)
  PROVE  TranscriptInv'
<1>1. PICK q : q = tabs[t]
  OBVIOUS
<1>2. PICK new : new = Closed(t)
  OBVIOUS
<1>3. q \in Pages /\ q.owner \in Owners /\ rowsMade \in Nat /\ MaxRows \in Nat
  BY <1>1, PageOf DEF RefreshSigner
<1>4. /\ rowsMade' = IF NeedsNotice(t) THEN rowsMade + 1 ELSE rowsMade
      /\ rowsMade' <= MaxRows /\ setting' = setting
  BY DEF RefreshSigner
<1>5. rowsMade' \in 0..MaxRows /\ rowsMade <= rowsMade' /\ rowsMade' \in Nat /\ 0 \in 0..MaxRows
  BY <1>3, <1>4
<1>6. IsTranscript(new, q.owner, rowsMade') /\ AtRest(new)
  BY <1>1, <1>2, <1>3, <1>4, ClosedIsAtRest
<1>7. PICK a \in SUBSET [owner : Owners, id : 1..MaxRows] :
        /\ LetGo(t) = Moved(tabs[t], FALSE, 0, 0, tabs[t].messages, a)
        /\ \A y \in a : y.id <= rowsMade
  BY LetGoPage
<1>8. Publish(t, Moved(q, FALSE, 0, 0, new, a))
  <2>1. Moved(q, FALSE, 0, 0, new, a) = [LetGo(t) EXCEPT !.messages = new]
    BY <1>1, <1>3, <1>7 DEF Moved, Pages
  <2>2. QED
    BY <1>2, <2>1 DEF RefreshSigner
<1>9. RowsAreLive(new, FALSE, 0, 0)
  BY <1>6 DEF RowsAreLive, AtRest
<1>10. AdriftIsOlder(a, new, 0, 0, rowsMade')
  <2>1. \A y \in a : y.id \in Nat /\ y.id <= rowsMade
    BY <1>7
  <2>2. \A i \in DOMAIN new : new[i].state # "streaming"
    BY <1>6 DEF AtRest
  <2>3. \A y \in a : y.id <= rowsMade'
    BY <1>3, <1>5, <2>1
  <2>4. QED
    BY <2>2, <2>3 DEF AdriftIsOlder
<1>11. QED
  BY <1>1, <1>3, <1>4, <1>5, <1>6, <1>8, <1>9, <1>10, MovesSafely

\* A switch or a late result finds a settled transcript of the wallet.
LEMMA CachedOrAtRest ==
  ASSUME TranscriptInv, NEW t \in HistoryTabs, NEW w \in Owners
  PROVE  /\ IsTranscript(CachedOr(t, w), w, rowsMade) /\ AtRest(CachedOr(t, w))
         /\ IsTranscript(Loaded(w), w, rowsMade) /\ AtRest(Loaded(w))
<1>1. IsTranscript(tabs[t].cache[w].rows, w, rowsMade) /\ AtRest(tabs[t].cache[w].rows)
  BY DEF TranscriptInv, PageInv
<1>2. IsTranscript(disk[w].rows, w, rowsMade) /\ disk[w].rows \in Seq(Row)
  BY DEF TranscriptInv, DiskInv, IsTranscript
<1>3. IsTranscript(Rehydrated(disk[w].rows), w, rowsMade) /\ AtRest(Rehydrated(disk[w].rows))
  BY <1>2, RehydratedRewrites, RewrittenRows
<1>4. IsTranscript(Loaded(w), w, rowsMade) /\ AtRest(Loaded(w))
  BY <1>3, EmptyTranscript DEF Loaded
<1>5. QED
  BY <1>1, <1>4 DEF CachedOr

\* What a page shows, on a step that leaves its rows, its transaction and its key alone.
LEMMA ShownStays ==
  ASSUME TranscriptInv, NEW t \in HistoryTabs, NEW W \in SUBSET Owners, Touches(t, W), Recalls(t, W),
         tabs[t].owner \notin W, tabs'[t].owner = tabs[t].owner, tabs'[t].messages = tabs[t].messages,
         tabs'[t].tx = tabs[t].tx
  PROVE  TxOnDisk(t)' /\ ShownOnDisk(t)'
<1>1. PICK o : o = tabs[t].owner
  OBVIOUS
<1>2. o \in Owners \union {NoOwner} /\ NobodyShown(tabs[t]) /\ PageOnDisk(t)
  BY <1>1, PageOf DEF TranscriptInv
<1>3. CASE o \in Owners
  <2>1. disk'[o] = disk[o] /\ lastWriter'[o] = lastWriter[o] /\ (Undisturbed(t, o)' => Undisturbed(t, o))
    BY <1>1, <1>3 DEF Touches, Recalls, Undisturbed
  <2>2. ShownOnDisk(t)'
    BY <1>1, <1>2, <2>1 DEF PageOnDisk, ShownOnDisk, Loaded
  <2>3. t \notin unsaved' => t \notin unsaved
    BY DEF Touches
  <2>4. TxOnDisk(t)'
    BY <1>1, <1>2, <2>1, <2>3 DEF PageOnDisk, TxOnDisk
  <2>5. QED
    BY <2>2, <2>4
<1>4. CASE o = NoOwner
  BY <1>1, <1>2, <1>4 DEF NobodyShown, TxOnDisk, ShownOnDisk
<1>5. QED
  BY <1>2, <1>3, <1>4

\* The rows of a late result: the row of the transaction is closed, perhaps with a notice.
LateRows(source, id, owner, n, notices) ==
  LET resolved == SetRow(source, id, "plain")
  IN  Trimmed(IF notices = 1 THEN Append(resolved, [id |-> n + 1, owner |-> owner, state |-> "plain"]) ELSE resolved)

\* Of source at most one row has left, not a younger one than that of id.
YoungerStay(new, source, id) ==
  \E k \in 0..1 :
    /\ \A i \in DOMAIN new, j \in DOMAIN source : source[j].id # id /\ i + k = j => new[i] = source[j]
    /\ \A j \in DOMAIN source : source[j].id > id => j - k \in DOMAIN new

LEMMA LateRowsAre ==
  ASSUME NEW source, NEW w \in Owners, NEW n \in Nat, IsTranscript(source, w, n), NEW id, HasRow(source, id),
         NEW notices \in 0..1, n + notices <= MaxRows
  PROVE  LET new == LateRows(source, id, w, n, notices)
         IN  /\ IsTranscript(new, w, n + notices)
             /\ \A i \in DOMAIN new :
                  \/ new[i].state = "plain"
                  \/ \E j \in DOMAIN source : source[j].id # id /\ new[i] = source[j]
             /\ YoungerStay(new, source, id)
<1> DEFINE resolved == SetRow(source, id, "plain")
           notice == [id |-> n + 1, owner |-> w, state |-> "plain"]
           longer == IF notices = 1 THEN Append(resolved, notice) ELSE resolved
           new == LateRows(source, id, w, n, notices)
<1>1. new = Trimmed(longer)
  BY DEF LateRows
<1>2. /\ IsTranscript(resolved, w, n) /\ DOMAIN resolved = DOMAIN source
      /\ \A j \in DOMAIN source : /\ source[j].id = id => resolved[j].state = "plain"
                                  /\ source[j].id # id => resolved[j] = source[j]
  BY SetRowTranscript DEF RowStates
<1>3. /\ source \in Seq(Row) /\ Len(source) \in Nat /\ DOMAIN source = 1..Len(source) /\ Len(source) <= Window
      /\ Window \in Nat
  BY TranscriptAssumption DEF IsTranscript
<1>4. resolved \in Seq(Row) /\ Len(resolved) = Len(source)
  BY <1>2, <1>3 DEF IsTranscript
<1>5. notices = 1 => notice \in Row /\ notice.id = n + 1 /\ notice.owner = w /\ notice.state = "plain"
  BY TranscriptAssumption DEF Row, RowStates
<1> HIDE DEF resolved, notice
<1>6. /\ IsGrown(longer, w, n + notices) /\ Len(longer) = Len(source) + notices
      /\ \A j \in DOMAIN source : longer[j] = resolved[j]
      /\ notices = 1 => longer[Len(source) + 1] = notice
  <2>1. CASE notices = 1
    <3>1. IsGrown(resolved, w, n) /\ notice \in Row /\ notice.id = n + 1 /\ notice.owner = w
      BY <1>2, <1>5, <2>1, GrownTranscript
    <3>2. /\ IsGrown(Append(resolved, notice), w, n + 1) /\ Len(Append(resolved, notice)) = Len(resolved) + 1
          /\ Append(resolved, notice)[Len(resolved) + 1] = notice
          /\ \A i \in DOMAIN resolved : Append(resolved, notice)[i] = resolved[i]
      BY <3>1, AddedRow
    <3>3. longer = Append(resolved, notice)
      BY <2>1
    <3> HIDE DEF longer
    <3>4. QED
      BY <1>2, <1>4, <2>1, <3>2, <3>3
  <2>2. CASE notices = 0
    BY <1>2, <1>3, <1>4, <2>2, GrownTranscript
  <2>3. QED
    BY <2>1, <2>2
<1> HIDE DEF longer, new
<1>7. IsTranscript(new, w, n + notices)
  BY <1>1, <1>6, TrimmedRows
<1>8. PICK k \in Nat : /\ Len(new) = Len(longer) - k /\ (k = 0 \/ Len(longer) - k = Window)
                       /\ \A i \in DOMAIN new : i + k \in DOMAIN longer /\ new[i] = longer[i + k]
  BY <1>1, <1>6, TrimmedRows
<1>9. longer \in Seq(Row) /\ new \in Seq(Row) /\ DOMAIN longer = 1..Len(source) + notices
  BY <1>3, <1>6, <1>7 DEF IsGrown, IsTranscript
<1>10. k \in 0..1 /\ DOMAIN new = 1..(Len(source) + notices - k)
  BY <1>3, <1>6, <1>8, <1>9
<1>11. ASSUME NEW i \in DOMAIN new
       PROVE  new[i].state = "plain" \/ \E j \in DOMAIN source : source[j].id # id /\ new[i] = source[j]
  <2>1. i + k \in DOMAIN longer /\ new[i] = longer[i + k]
    BY <1>8
  <2>2. CASE i + k \in DOMAIN source
    BY <1>2, <1>6, <2>1, <2>2
  <2>3. CASE i + k \notin DOMAIN source
    <3>1. i + k \in 1..Len(source) + notices /\ i + k \notin 1..Len(source)
      BY <1>3, <1>9, <2>1, <2>3
    <3>2. notices = 1 /\ i + k = Len(source) + 1
      BY <1>3, <3>1
    <3>3. QED
      BY <1>5, <1>6, <2>1, <3>2
  <2>4. QED
    BY <2>2, <2>3
<1>12. ASSUME NEW i \in DOMAIN new, NEW j \in DOMAIN source, source[j].id # id, i + k = j PROVE new[i] = source[j]
  BY <1>2, <1>6, <1>8, <1>12
<1>13. ASSUME NEW j \in DOMAIN source, source[j].id > id PROVE j - k \in DOMAIN new
  <2>1. PICK i \in DOMAIN source : source[i].id = id
    BY DEF HasRow
  <2>2. \A a, b \in DOMAIN source : a < b => source[a].id < source[b].id
    BY DEF IsTranscript, Ordered
  <2>3. source[i].id \in Nat /\ source[j].id \in Nat
    BY <1>3, RowTypes
  <2>4. i < j
    <3>1. CASE i = j
      BY <1>13, <2>1, <2>3, <3>1
    <3>2. CASE j < i
      BY <1>13, <2>1, <2>2, <2>3, <3>2
    <3>3. QED
      BY <1>3, <3>1, <3>2
  <2>5. QED
    BY <1>3, <1>10, <2>4
<1>14. QED
  BY <1>7, <1>10, <1>11, <1>12, <1>13 DEF new, YoungerStay

\* A late result whose row is shown.
LEMMA LateShownSafely ==
  ASSUME TranscriptInv, NEW t \in HistoryTabs, NEW x \in tabs[t].adrift, NEW notices \in 0..1,
         tabs[t].owner = x.owner, HasRow(tabs[t].messages, x.id),
         Publish(t, [[tabs[t] EXCEPT !.adrift = @ \ {x}] EXCEPT
                       !.messages = LateRows(tabs[t].messages, x.id, x.owner, rowsMade, notices)]),
         rowsMade' = rowsMade + notices, rowsMade' <= MaxRows, setting' = setting
  PROVE  TranscriptInv'
<1>1. PICK q : q = tabs[t]
  OBVIOUS
<1>2. PICK m : m = q.messages
  OBVIOUS
<1>3. PICK n : n = rowsMade
  OBVIOUS
<1>4. /\ q \in Pages /\ m \in Seq(Row) /\ IsTranscript(m, q.owner, n) /\ RowsAreLive(m, q.busy, q.card, q.tx)
      /\ n \in Nat /\ MaxRows \in Nat /\ q.adrift \in SUBSET [owner : Owners, id : 1..MaxRows]
      /\ AdriftIsOlder(q.adrift, m, q.card, q.tx, n)
      /\ q.busy \in BOOLEAN /\ q.card \in 0..MaxRows /\ q.tx \in 0..MaxRows
  BY <1>1, <1>2, <1>3, PageOf
<1>5. /\ x \in q.adrift /\ x.owner \in Owners /\ x.id \in Nat /\ q.owner = x.owner /\ n + notices <= MaxRows
      /\ HasRow(m, x.id)
  BY <1>1, <1>2, <1>3, <1>4
<1>6. PICK new : new = LateRows(m, x.id, q.owner, n, notices)
  OBVIOUS
<1>7. /\ IsTranscript(new, q.owner, n + notices)
      /\ \A i \in DOMAIN new :
           new[i].state = "plain" \/ \E j \in DOMAIN m : m[j].id # x.id /\ new[i] = m[j]
  BY <1>4, <1>5, <1>6, LateRowsAre
<1>8. PICK k \in 0..1 :
        /\ \A i \in DOMAIN new, j \in DOMAIN m : m[j].id # x.id /\ i + k = j => new[i] = m[j]
        /\ \A j \in DOMAIN m : m[j].id > x.id => j - k \in DOMAIN new
  <2>1. YoungerStay(new, m, x.id)
    BY <1>4, <1>5, <1>6, LateRowsAre
  <2>2. QED
    BY <2>1 DEF YoungerStay
<1>9. \A j \in DOMAIN m : m[j].id \in Nat /\ j \in Nat
  BY <1>4, RowTypes
\* A younger row is still there.
<1>10. ASSUME NEW j \in DOMAIN m, m[j].id > x.id PROVE \E i \in DOMAIN new : new[i] = m[j]
  <2>1. j - k \in DOMAIN new /\ (j - k) + k = j /\ m[j].id # x.id
    BY <1>5, <1>8, <1>9, <1>10
  <2>2. QED
    BY <1>8, <2>1
<1>11. RowsAreLive(new, q.busy, q.card, q.tx)
  <2>1. ASSUME NEW i \in DOMAIN new
        PROVE  /\ new[i].state = "awaiting" => new[i].id = q.card
               /\ new[i].state = "inflight" => new[i].id = q.tx
               /\ new[i].state = "streaming" => q.busy /\ q.card = 0 /\ q.tx = 0
    BY <1>4, <1>7 DEF RowsAreLive
  <2>2. ASSUME NEW i \in DOMAIN new, NEW j \in DOMAIN new, new[i].state = "streaming", new[j].state = "streaming"
        PROVE  i = j
    <3>1. PICK a \in DOMAIN m : new[i] = m[a]
      BY <1>7, <2>2
    <3>2. PICK b \in DOMAIN m : new[j] = m[b]
      BY <1>7, <2>2
    <3>3. new[i].id = new[j].id
      BY <1>4, <2>2, <3>1, <3>2 DEF RowsAreLive
    <3>4. /\ \A c, d \in DOMAIN new : c < d => new[c].id < new[d].id
          /\ new \in Seq(Row)
      BY <1>7 DEF IsTranscript, Ordered
    <3>5. new[i].id \in Nat /\ new[j].id \in Nat /\ i \in Nat /\ j \in Nat
      BY <3>4, RowTypes
    <3>6. QED
      BY <2>2, <3>3, <3>4, <3>5
  <2>3. ASSUME q.card # 0 PROVE ~q.busy /\ q.tx = 0 /\ HasRow(new, q.card)
    <3>1. ~q.busy /\ q.tx = 0 /\ x.id < q.card
      BY <1>4, <1>5, <2>3 DEF RowsAreLive, AdriftIsOlder
    <3>2. PICK j \in DOMAIN m : m[j].id = q.card
      BY <1>4, <2>3 DEF RowsAreLive, HasRow
    <3>3. QED
      BY <1>4, <1>5, <1>10, <3>1, <3>2 DEF HasRow
  <2>4. ASSUME q.tx # 0 PROVE q.busy /\ \E i \in DOMAIN new : new[i].id = q.tx /\ new[i].state = "inflight"
    <3>1. q.busy /\ x.id < q.tx
      BY <1>4, <1>5, <2>4 DEF RowsAreLive, AdriftIsOlder
    <3>2. PICK j \in DOMAIN m : m[j].id = q.tx /\ m[j].state = "inflight"
      BY <1>4, <2>4 DEF RowsAreLive
    <3>3. QED
      BY <1>4, <1>5, <1>10, <3>1, <3>2
  <2>5. QED
    BY <2>1, <2>2, <2>3, <2>4 DEF RowsAreLive
<1>12. PICK a \in SUBSET [owner : Owners, id : 1..MaxRows] : a = q.adrift \ {x}
  BY <1>4
<1>13. AdriftIsOlder(a, new, q.card, q.tx, n + notices)
  <2>1. ASSUME NEW y \in a, NEW i \in DOMAIN new, new[i].state = "streaming" PROVE y.id < new[i].id
    BY <1>4, <1>7, <1>12, <2>1 DEF AdriftIsOlder
  <2>2. ASSUME NEW y \in a PROVE y.id <= n + notices /\ (q.card # 0 => y.id < q.card) /\ (q.tx # 0 => y.id < q.tx)
    <3>1. y \in q.adrift /\ y.id \in Nat
      BY <1>4, <1>12
    <3>2. y.id <= n /\ (q.card # 0 => y.id < q.card) /\ (q.tx # 0 => y.id < q.tx)
      BY <1>4, <3>1 DEF AdriftIsOlder
    <3>3. QED
      BY <1>4, <3>1, <3>2
  <2>3. QED
    BY <2>1, <2>2 DEF AdriftIsOlder
<1>14. Publish(t, Moved(q, q.busy, q.card, q.tx, new, a))
  <2>1. Moved(q, q.busy, q.card, q.tx, new, a) = [[q EXCEPT !.adrift = @ \ {x}] EXCEPT !.messages = new]
    BY <1>4, <1>12 DEF Moved, Pages
  <2>2. QED
    BY <1>1, <1>2, <1>3, <1>5, <1>6, <2>1
<1>15. rowsMade' = n + notices /\ rowsMade' \in 0..MaxRows /\ rowsMade <= rowsMade'
  BY <1>3, <1>4
<1>16. QED
  BY <1>1, <1>4, <1>5, <1>7, <1>11, <1>13, <1>14, <1>15, MovesSafely

\* A late result whose row is in the cache, or on disk, of a wallet that is not shown.
LEMMA LateCachedSafely ==
  ASSUME TranscriptInv, NEW t \in HistoryTabs, NEW x \in tabs[t].adrift, NEW notices \in 0..1,
         tabs[t].owner # x.owner, HasRow(CachedOr(t, x.owner), x.id),
         NEW new, new = LateRows(CachedOr(t, x.owner), x.id, x.owner, rowsMade, notices),
         tabs' = [tabs EXCEPT ![t] = [[tabs[t] EXCEPT !.adrift = @ \ {x}] EXCEPT !.cache[x.owner] = Stored(new)]],
         Save(t, x.owner, new),
         rowsMade' = rowsMade + notices, rowsMade' <= MaxRows, setting' = setting
  PROVE  TranscriptInv'
<1>1. PICK q : q = tabs[t]
  OBVIOUS
<1>2. PICK w : w = x.owner
  OBVIOUS
<1>3. PICK n : n = rowsMade
  OBVIOUS
<1>4. /\ q \in Pages /\ PageInv(q, n) /\ n \in Nat /\ MaxRows \in Nat
      /\ q.adrift \in SUBSET [owner : Owners, id : 1..MaxRows]
      /\ AdriftIsOlder(q.adrift, q.messages, q.card, q.tx, n) /\ q.cache \in [Owners -> Values]
  BY <1>1, <1>3, PageOf
<1>5. /\ x \in q.adrift /\ w \in Owners /\ n + notices <= MaxRows /\ w # q.owner
      /\ rowsMade' = n + notices /\ rowsMade' \in 0..MaxRows /\ rowsMade <= rowsMade' /\ rowsMade' \in Nat
  BY <1>1, <1>2, <1>3, <1>4
<1>6. IsTranscript(CachedOr(t, w), w, n) /\ AtRest(CachedOr(t, w))
  BY <1>3, <1>5, CachedOrAtRest
<1>7. /\ IsTranscript(new, w, rowsMade')
      /\ \A i \in DOMAIN new :
           new[i].state = "plain" \/ \E j \in DOMAIN CachedOr(t, w) : new[i] = CachedOr(t, w)[j]
  BY <1>2, <1>3, <1>4, <1>5, <1>6, LateRowsAre
<1>8. AtRest(new) /\ new \in Seq(Row)
  BY <1>6, <1>7 DEF AtRest, IsTranscript
<1>9. PICK p : p = [[q EXCEPT !.adrift = @ \ {x}] EXCEPT !.cache[w] = Stored(new)]
  OBVIOUS
<1>10. /\ p \in Pages /\ p.owner = q.owner /\ p.messages = q.messages /\ p.card = q.card /\ p.tx = q.tx
       /\ p.adrift = q.adrift \ {x} /\ p.cache = [q.cache EXCEPT ![w] = Stored(new)]
  BY <1>4, <1>5, <1>8, <1>9, Literals DEF Pages
<1>11. p.busy = q.busy
  BY <1>4, <1>9 DEF Pages
<1>12. PageInv(q, rowsMade')
  BY <1>3, <1>4, <1>5, BoundGrows
<1>13. PageInv(p, rowsMade')
  <2>1. ASSUME NEW v \in Owners PROVE IsTranscript(p.cache[v].rows, v, rowsMade') /\ AtRest(p.cache[v].rows)
    <3>1. CASE v = w
      <4>1. p.cache[v] = Stored(new) /\ Stored(new).rows = new
        BY <1>4, <1>5, <1>8, <1>10, <3>1, Literals
      <4>2. QED
        BY <1>7, <1>8, <3>1, <4>1
    <3>2. CASE v # w
      <4>1. p.cache[v] = q.cache[v]
        BY <1>4, <1>10, <3>2
      <4>2. QED
        BY <1>12, <4>1 DEF PageInv
    <3>3. QED
      BY <3>1, <3>2
  <2>2. AdriftIsOlder(p.adrift, p.messages, p.card, p.tx, rowsMade')
    BY <1>10, <1>12 DEF PageInv, AdriftIsOlder
  <2>3. NobodyShown(p) /\ RowsAreLive(p.messages, p.busy, p.card, p.tx) /\ IsTranscript(p.messages, p.owner, rowsMade')
    BY <1>10, <1>11, <1>12 DEF PageInv, NobodyShown
  <2>4. QED
    BY <1>10, <2>1, <2>2, <2>3 DEF PageInv
<1>14. tabs' = [tabs EXCEPT ![t] = p] /\ tabs'[t] = p
  BY <1>1, <1>2, <1>9 DEF TranscriptInv, TranscriptTypes
<1>15. PICK W \in SUBSET Owners : HasSaved(t, w, new, {}, W)
  <2>1. SaveAnd(t, tabs[t].saving, w, new, {}) /\ {} \in SUBSET Owners /\ w \notin {}
    BY <1>2 DEF Save
  <2>2. TranscriptTypes /\ DisksGood
    BY DEF TranscriptInv, DisksGood
  <2>3. QED
    BY <1>5, <1>7, <2>1, <2>2, SaveTouches
<1>16. /\ Touches(t, W) /\ Recalls(t, W) /\ DisksGood' /\ W \subseteq {w}
       /\ w \in W => disk'[w] = Image(new)
       /\ w \notin W => t \in unsaved'
  BY <1>15 DEF HasSaved
<1>17. TxOnDisk(t)' /\ ShownOnDisk(t)'
  BY <1>1, <1>5, <1>10, <1>14, <1>16, ShownStays
<1>18. ASSUME NEW v \in Owners PROVE CacheOnDisk(t, v)'
  <2>1. CASE v = w
    <3>1. w \in W => Loaded(w)' = new
      <4>1. Rehydrated(Lasting(new)) = new
        BY <1>7, <1>8, AtRestLoads
      <4>2. QED
        BY <1>7, <1>16, <4>1, DiskValues DEF Loaded
    <3>2. p.cache[w].rows = new
      BY <1>4, <1>5, <1>8, <1>10, Literals
    <3>3. QED
      BY <1>14, <1>16, <2>1, <3>1, <3>2 DEF CacheOnDisk, Undisturbed
  <2>2. CASE v # w
    <3>1. CASE v = q.owner
      BY <1>10, <1>14, <3>1 DEF CacheOnDisk
    <3>2. CASE v # q.owner
      <4>1. tabs'[t].cache[v] = tabs[t].cache[v]
        BY <1>1, <1>4, <1>10, <1>14, <2>2
      <4>2. QED
        BY <1>1, <1>16, <2>2, <3>2, <4>1, CacheStays
    <3>3. QED
      BY <3>1, <3>2
  <2>3. QED
    BY <2>1, <2>2
<1>19. PageOnDisk(t)'
  BY <1>17, <1>18 DEF PageOnDisk
<1>20. setting' \in BOOLEAN
  BY DEF TranscriptInv, TranscriptTypes
<1>21. QED
  BY <1>5, <1>13, <1>14, <1>16, <1>19, <1>20, OnePageMoves

\* A late result whose row is gone; what cannot be read there is removed.
LEMMA LateLostSafely ==
  ASSUME TranscriptInv, NEW t \in HistoryTabs, NEW x \in tabs[t].adrift,
         tabs' = [tabs EXCEPT ![t] = [tabs[t] EXCEPT !.adrift = @ \ {x}]],
         Write(t, Removed(IF tabs[t].owner # x.owner /\ Unreadable(t, x.owner) THEN {x.owner} ELSE {})),
         unsaved' = unsaved, rowsMade' = rowsMade, setting' = setting
  PROVE  TranscriptInv'
<1>1. PICK q : q = tabs[t]
  OBVIOUS
<1>2. PICK W : W = IF q.owner # x.owner /\ Unreadable(t, x.owner) THEN {x.owner} ELSE {}
  OBVIOUS
<1>3. PICK p : p = [q EXCEPT !.adrift = @ \ {x}]
  OBVIOUS
<1>4. /\ q \in Pages /\ PageInv(q, rowsMade) /\ q.adrift \in SUBSET [owner : Owners, id : 1..MaxRows]
      /\ rowsMade \in Nat /\ rowsMade \in 0..MaxRows
  BY <1>1, PageOf
<1>5. W \in SUBSET Owners /\ q.owner \notin W /\ \A w \in W : q.cache[w] = Absent
  BY <1>1, <1>2, <1>4 DEF Unreadable
<1>6. /\ p \in Pages /\ p.owner = q.owner /\ p.messages = q.messages /\ p.card = q.card /\ p.tx = q.tx
      /\ p.adrift = q.adrift \ {x} /\ p.cache = q.cache
  BY <1>3, <1>4 DEF Pages
<1>7. p.busy = q.busy
  BY <1>3, <1>4 DEF Pages
<1>8. PageInv(p, rowsMade')
  <2>1. AdriftIsOlder(p.adrift, p.messages, p.card, p.tx, rowsMade)
    BY <1>4, <1>6 DEF PageInv, AdriftIsOlder
  <2>2. QED
    BY <1>4, <1>6, <1>7, <2>1 DEF PageInv, NobodyShown
<1>9. tabs' = [tabs EXCEPT ![t] = p] /\ tabs'[t] = p
  BY <1>1, <1>3 DEF TranscriptInv, TranscriptTypes
<1>10. Touches(t, W) /\ Recalls(t, W) /\ DisksGood'
  <2>1. TranscriptTypes /\ DisksGood /\ unsaved' \subseteq HistoryTabs /\ unsaved \subseteq unsaved'
    BY DEF TranscriptInv, DisksGood, TranscriptTypes, StorageTypes
  <2>2. Write(t, Removed(W)) /\ rowsMade' \in Nat /\ rowsMade <= rowsMade'
    BY <1>1, <1>2, <1>4
  <2>3. QED
    BY <1>5, <2>1, <2>2, RemovedTouches
<1>11. TxOnDisk(t)' /\ ShownOnDisk(t)'
  BY <1>1, <1>5, <1>6, <1>9, <1>10, ShownStays
<1>12. ASSUME NEW v \in Owners PROVE CacheOnDisk(t, v)'
  <2>1. CASE v \in W \/ v = q.owner
    BY <1>5, <1>6, <1>9, <2>1 DEF CacheOnDisk
  <2>2. CASE v \notin W /\ v # q.owner
    BY <1>1, <1>5, <1>6, <1>9, <1>10, <2>2, CacheStays
  <2>3. QED
    BY <2>1, <2>2
<1>13. PageOnDisk(t)'
  BY <1>11, <1>12 DEF PageOnDisk
<1>14. setting' \in BOOLEAN /\ rowsMade' \in 0..MaxRows /\ rowsMade <= rowsMade'
  BY <1>4 DEF TranscriptInv, TranscriptTypes
<1>15. QED
  BY <1>5, <1>8, <1>9, <1>10, <1>13, <1>14, OnePageMoves

LEMMA AdriftEndsSafely ==
  ASSUME TranscriptInv, NEW t \in HistoryTabs, AdriftEnds(t)
  PROVE  TranscriptInv'
<1>1. PICK x \in tabs[t].adrift, notices \in 0..1 :
        LET shown == tabs[t].owner = x.owner
            source == IF shown THEN tabs[t].messages ELSE CachedOr(t, x.owner)
            notice == [id |-> rowsMade + 1, owner |-> x.owner, state |-> "plain"]
            resolved == SetRow(source, x.id, "plain")
            updated == Trimmed(IF notices = 1 THEN Append(resolved, notice) ELSE resolved)
            home == [tabs[t] EXCEPT !.adrift = @ \ {x}]
            found == HasRow(source, x.id)
        IN  /\ IF found /\ shown THEN Publish(t, [home EXCEPT !.messages = updated])
               ELSE IF found
               THEN /\ tabs' = [tabs EXCEPT ![t] = [home EXCEPT !.cache[x.owner] = Stored(updated)]]
                    /\ Save(t, x.owner, updated)
               ELSE /\ tabs' = [tabs EXCEPT ![t] = home]
                    /\ Write(t, Removed(IF ~shown /\ Unreadable(t, x.owner) THEN {x.owner} ELSE {}))
                    /\ UNCHANGED <<faults, unsaved>>
            /\ notices = 1 => found
            /\ rowsMade' = rowsMade + notices /\ rowsMade' <= MaxRows
            /\ UNCHANGED <<setting, moves, clears>>
  BY DEF AdriftEnds
<1> DEFINE shown == tabs[t].owner = x.owner
           source == IF shown THEN tabs[t].messages ELSE CachedOr(t, x.owner)
           updated == LateRows(source, x.id, x.owner, rowsMade, notices)
           home == [tabs[t] EXCEPT !.adrift = @ \ {x}]
           found == HasRow(source, x.id)
<1>2. /\ rowsMade' = rowsMade + notices /\ rowsMade' <= MaxRows /\ setting' = setting
      /\ notices = 1 => found
  BY <1>1
<1>3. found /\ shown => Publish(t, [home EXCEPT !.messages = updated])
  BY <1>1 DEF LateRows
<1>4. found /\ ~shown => /\ tabs' = [tabs EXCEPT ![t] = [home EXCEPT !.cache[x.owner] = Stored(updated)]]
                         /\ Save(t, x.owner, updated)
  BY <1>1 DEF LateRows
<1>5. ~found => /\ tabs' = [tabs EXCEPT ![t] = home]
                /\ Write(t, Removed(IF ~shown /\ Unreadable(t, x.owner) THEN {x.owner} ELSE {}))
                /\ unsaved' = unsaved
  BY <1>1
<1>6. CASE found /\ shown
  BY <1>2, <1>3, <1>6, LateShownSafely
<1>7. CASE found /\ ~shown
  BY <1>2, <1>4, <1>7, LateCachedSafely
<1>8. CASE ~found
  <2>1. rowsMade' = rowsMade
    BY <1>2, <1>8, PageOf
  <2>2. QED
    BY <1>2, <1>5, <1>8, <2>1, LateLostSafely
<1>9. QED
  BY <1>6, <1>7, <1>8

LEMMA ClearTranscriptSafely ==
  ASSUME TranscriptInv, NEW t \in HistoryTabs, ClearTranscript(t)
  PROVE  TranscriptInv'
<1>1. PICK q : q = tabs[t]
  OBVIOUS
<1>2. PICK o : o = q.owner
  OBVIOUS
<1>3. /\ q \in Pages /\ PageInv(q, rowsMade) /\ q.cache \in [Owners -> Values] /\ rowsMade \in Nat /\ rowsMade \in 0..MaxRows
      /\ o \in Owners /\ q.tx = 0 /\ <<>> \in Seq(Row) /\ q.owner = o
  BY <1>1, <1>2, PageOf DEF ClearTranscript
<1>4. PICK p : p = [q EXCEPT !.messages = <<>>, !.cache[o] = Stored(<<>>), !.busy = FALSE, !.card = 0]
  OBVIOUS
<1>5. 0 \in 0..MaxRows /\ Stored(<<>>) \in Values /\ Stored(<<>>).rows = <<>>
  <2>1. Stored(<<>>) \in Values /\ Stored(<<>>).rows = <<>>
    BY <1>3, Literals
  <2>2. 0 \in 0..MaxRows
    BY TranscriptAssumption
  <2>3. QED
    BY <2>1, <2>2
<1>6. /\ p \in Pages /\ p.owner = o /\ p.messages = <<>> /\ p.card = 0 /\ p.tx = 0
      /\ p.adrift = q.adrift /\ p.cache = [q.cache EXCEPT ![o] = Stored(<<>>)]
  BY <1>3, <1>4, <1>5 DEF Pages
<1>7. ~p.busy
  BY <1>3, <1>4 DEF Pages
<1>8. PageInv(p, rowsMade)
  <2>1. ASSUME NEW v \in Owners PROVE IsTranscript(p.cache[v].rows, v, rowsMade) /\ AtRest(p.cache[v].rows)
    <3>1. CASE v = o
      BY <1>3, <1>5, <1>6, <3>1, EmptyTranscript
    <3>2. CASE v # o
      BY <1>3, <1>6, <3>2 DEF PageInv
    <3>3. QED
      BY <3>1, <3>2
  <2>2. AdriftIsOlder(p.adrift, p.messages, p.card, p.tx, rowsMade)
    BY <1>3, <1>6 DEF PageInv, AdriftIsOlder
  <2>3. RowsAreLive(p.messages, p.busy, p.card, p.tx)
    BY <1>6 DEF RowsAreLive
  <2>4. IsTranscript(p.messages, p.owner, rowsMade)
    BY <1>6, EmptyTranscript
  <2>5. QED
    BY <1>6, <1>7, <2>1, <2>2, <2>3, <2>4 DEF PageInv, NobodyShown
<1>9. tabs' = [tabs EXCEPT ![t] = p] /\ tabs'[t] = p
  BY <1>1, <1>2, <1>4 DEF ClearTranscript, TranscriptInv, TranscriptTypes
<1>10. rowsMade' = rowsMade /\ setting' = setting /\ unsaved' = unsaved /\ Write(t, Removed({o}))
  BY <1>1, <1>2 DEF ClearTranscript
<1>11. Touches(t, {o}) /\ Recalls(t, {o}) /\ DisksGood' /\ disk'[o] = Absent
  <2>1. TranscriptTypes /\ DisksGood /\ unsaved' \subseteq HistoryTabs /\ unsaved \subseteq unsaved'
    BY <1>10 DEF TranscriptInv, DisksGood, TranscriptTypes, StorageTypes
  <2>2. rowsMade' \in Nat /\ rowsMade <= rowsMade' /\ {o} \in SUBSET Owners
    BY <1>3, <1>10
  <2>3. QED
    BY <1>10, <2>1, <2>2, RemovedTouches
<1>12. ShownOnDisk(t)' /\ TxOnDisk(t)'
  <2>1. Loaded(o)' = <<>>
    BY <1>11, Literals DEF Loaded
  <2>2. Rehydrated(Lasting(<<>>)) = <<>>
    BY EmptyTranscript
  <2>3. QED
    BY <1>6, <1>9, <2>1, <2>2 DEF ShownOnDisk, TxOnDisk
<1>13. ASSUME NEW v \in Owners PROVE CacheOnDisk(t, v)'
  <2>1. CASE v = o
    BY <1>6, <1>9, <2>1 DEF CacheOnDisk
  <2>2. CASE v # o
    <3>1. tabs'[t].cache[v] = tabs[t].cache[v]
      BY <1>1, <1>3, <1>6, <1>9, <2>2
    <3>2. {o} \in SUBSET Owners /\ v \in Owners \ {o} /\ tabs[t].owner # v
      BY <1>1, <1>3, <2>2
    <3>3. QED
      BY <1>11, <3>1, <3>2, CacheStays
  <2>3. QED
    BY <2>1, <2>2
<1>14. PageOnDisk(t)'
  BY <1>12, <1>13 DEF PageOnDisk
<1>15. setting' \in BOOLEAN /\ rowsMade' \in 0..MaxRows /\ rowsMade <= rowsMade' /\ {o} \in SUBSET Owners
  BY <1>3, <1>10 DEF TranscriptInv, TranscriptTypes
<1>16. PageInv(p, rowsMade')
  BY <1>8, <1>10
<1>17. QED
  BY <1>9, <1>11, <1>14, <1>15, <1>16, OnePageMoves

\* The caches of a page that switches to w.
CachesAfter(t, w) ==
  LET o == tabs[t].owner
      left == IF o = NoOwner THEN tabs[t].cache ELSE [tabs[t].cache EXCEPT ![o] = Stored(Closed(t))]
  IN  IF w = NoOwner THEN left ELSE [left EXCEPT ![w] = Stored(CachedOr(t, w))]
ShownAfter(t, w) == IF w = NoOwner THEN <<>> ELSE CachedOr(t, w)

\* The page after a switch.
LEMMA SwitchedPage ==
  ASSUME TranscriptInv, NEW t \in HistoryTabs, NEW w \in Owners \union {NoOwner}, SwitchOwner(t, w)
  PROVE  \E p : /\ tabs' = [tabs EXCEPT ![t] = p] /\ PageInv(p, rowsMade')
                /\ p.owner = w /\ p.messages = ShownAfter(t, w) /\ p.tx = 0 /\ p.cache = CachesAfter(t, w)
<1>1. PICK q : q = tabs[t]
  OBVIOUS
<1>2. PICK o : o = q.owner
  OBVIOUS
<1>3. PICK n : n = rowsMade
  OBVIOUS
<1>4. PICK c : c = CachesAfter(t, w)
  OBVIOUS
<1>5. PICK m : m = ShownAfter(t, w)
  OBVIOUS
<1>6. /\ q \in Pages /\ PageInv(q, n) /\ q.messages \in Seq(Row) /\ n \in Nat /\ MaxRows \in Nat
      /\ o \in Owners \union {NoOwner} /\ q.cache \in [Owners -> Values]
  BY <1>1, <1>2, <1>3, PageOf
<1>7. /\ rowsMade' = IF NeedsNotice(t) THEN n + 1 ELSE n
      /\ rowsMade' <= MaxRows /\ n <= rowsMade' /\ rowsMade' \in Nat
  BY <1>3, <1>6 DEF SwitchOwner
<1>8. PICK a \in SUBSET [owner : Owners, id : 1..MaxRows] :
        /\ LetGo(t) = Moved(q, FALSE, 0, 0, q.messages, a)
        /\ \A y \in a : y.id <= n
  BY <1>1, <1>3, LetGoPage
<1>9. PICK p : p = [q EXCEPT !.busy = FALSE, !.card = 0, !.tx = 0, !.adrift = a, !.owner = w, !.messages = m, !.cache = c]
  OBVIOUS
<1>10. ASSUME o \in Owners
       PROVE  IsTranscript(Closed(t), o, rowsMade') /\ AtRest(Closed(t)) /\ Stored(Closed(t)) \in Values
              /\ Stored(Closed(t)).rows = Closed(t)
  <2>1. IsTranscript(Closed(t), o, rowsMade') /\ AtRest(Closed(t))
    BY <1>1, <1>2, <1>3, <1>7, <1>10, ClosedIsAtRest
  <2>2. QED
    BY <2>1, Literals DEF IsTranscript
<1>11. ASSUME w \in Owners
       PROVE  IsTranscript(CachedOr(t, w), w, rowsMade') /\ AtRest(CachedOr(t, w)) /\ Stored(CachedOr(t, w)) \in Values
              /\ Stored(CachedOr(t, w)).rows = CachedOr(t, w)
  <2>1. IsTranscript(CachedOr(t, w), w, n) /\ AtRest(CachedOr(t, w))
    BY <1>3, <1>11, CachedOrAtRest
  <2>2. IsTranscript(CachedOr(t, w), w, rowsMade')
    BY <1>6, <1>7, <2>1, BoundGrows
  <2>3. QED
    BY <2>1, <2>2, Literals DEF IsTranscript
<1>12. NoOwner \notin Owners
  BY TranscriptAssumption
<1>13. PICK left : left = IF o = NoOwner THEN q.cache ELSE [q.cache EXCEPT ![o] = Stored(Closed(t))]
  OBVIOUS
<1>14. c = IF w = NoOwner THEN left ELSE [left EXCEPT ![w] = Stored(CachedOr(t, w))]
  BY <1>1, <1>2, <1>4, <1>13 DEF CachesAfter
<1>15. /\ left \in [Owners -> Values]
       /\ \A v \in Owners : IsTranscript(left[v].rows, v, rowsMade') /\ AtRest(left[v].rows)
  <2>1. \A v \in Owners : IsTranscript(q.cache[v].rows, v, rowsMade') /\ AtRest(q.cache[v].rows)
    BY <1>6, <1>7, BoundGrows DEF PageInv
  <2>2. CASE o = NoOwner
    BY <1>6, <1>13, <2>1, <2>2
  <2>3. CASE o \in Owners
    <3>1. left = [q.cache EXCEPT ![o] = Stored(Closed(t))]
      BY <1>12, <1>13, <2>3
    <3>2. left \in [Owners -> Values] /\ left[o] = Stored(Closed(t)) /\ \A v \in Owners : v # o => left[v] = q.cache[v]
      BY <1>6, <1>10, <2>3, <3>1
    <3>3. QED
      BY <1>10, <2>1, <2>3, <3>2
  <2>4. QED
    BY <1>6, <2>2, <2>3
<1>16. /\ c \in [Owners -> Values]
       /\ \A v \in Owners : IsTranscript(c[v].rows, v, rowsMade') /\ AtRest(c[v].rows)
  <2>1. CASE w = NoOwner
    BY <1>14, <1>15, <2>1
  <2>2. CASE w \in Owners
    <3>1. c = [left EXCEPT ![w] = Stored(CachedOr(t, w))]
      BY <1>12, <1>14, <2>2
    <3>2. c \in [Owners -> Values] /\ c[w] = Stored(CachedOr(t, w)) /\ \A v \in Owners : v # w => c[v] = left[v]
      BY <1>11, <1>15, <2>2, <3>1
    <3>3. QED
      BY <1>11, <1>15, <2>2, <3>2
  <2>3. QED
    BY <2>1, <2>2
<1>17. IsTranscript(m, w, rowsMade') /\ AtRest(m) /\ m \in Seq(Row) /\ (w = NoOwner => m = <<>>)
  <2>1. CASE w = NoOwner
    BY <1>5, <2>1, EmptyTranscript DEF ShownAfter, IsTranscript
  <2>2. CASE w \in Owners
    BY <1>5, <1>11, <1>12, <2>2 DEF ShownAfter, IsTranscript
  <2>3. QED
    BY <2>1, <2>2
<1>18. 0 \in 0..MaxRows
  BY <1>6
<1>19. /\ p \in Pages /\ p.owner = w /\ p.messages = m /\ p.card = 0 /\ p.tx = 0 /\ p.adrift = a /\ p.cache = c
  BY <1>6, <1>8, <1>9, <1>16, <1>17, <1>18 DEF Pages
<1>20. ~p.busy
  BY <1>6, <1>9 DEF Pages
<1>21. PageInv(p, rowsMade')
  <2>1. RowsAreLive(m, FALSE, 0, 0)
    BY <1>17 DEF RowsAreLive, AtRest
  <2>2. \A y \in a : y.id \in Nat /\ y.id <= n
    BY <1>8
  <2>3. \A y \in a : y.id <= rowsMade'
    BY <1>6, <1>7, <2>2
  <2>4. AdriftIsOlder(a, m, 0, 0, rowsMade')
    BY <1>17, <2>3 DEF AdriftIsOlder, AtRest
  <2>5. p.busy = FALSE
    BY <1>19, <1>20 DEF Pages
  <2>6. QED
    BY <1>16, <1>17, <1>19, <1>20, <2>1, <2>4, <2>5 DEF PageInv, NobodyShown
<1>22. tabs' = [tabs EXCEPT ![t] = p]
  <2> DEFINE goes == LetGo(t)
             l == IF o = NoOwner THEN goes ELSE [goes EXCEPT !.cache[o] = Stored(Closed(t))]
             arrived == IF w = NoOwner THEN [l EXCEPT !.owner = w, !.messages = <<>>]
                        ELSE [l EXCEPT !.owner = w, !.messages = CachedOr(t, w), !.cache[w] = Stored(CachedOr(t, w))]
  <2>1. tabs' = [tabs EXCEPT ![t] = arrived]
    BY <1>1, <1>2 DEF SwitchOwner
  <2>2. goes = [q EXCEPT !.busy = FALSE, !.card = 0, !.tx = 0, !.adrift = a]
    BY <1>6, <1>8 DEF Moved, Pages
  <2> HIDE DEF goes
  <2>3. l = [q EXCEPT !.busy = FALSE, !.card = 0, !.tx = 0, !.adrift = a, !.cache = left]
    BY <1>6, <1>13, <2>2 DEF Pages
  <2> HIDE DEF l
  <2>4. arrived = p
    BY <1>5, <1>6, <1>9, <1>14, <2>3 DEF Pages, ShownAfter
  <2>5. QED
    BY <2>1, <2>4
<1>23. QED
  BY <1>4, <1>5, <1>19, <1>21, <1>22

\* The keys after a switch: the old one written if closing changed its rows, an unreadable one removed.
Cleared(t, w) == IF w # NoOwner /\ Unreadable(t, w) THEN {w} ELSE {}
KeysAfter(t, w, W) ==
  /\ Touches(t, W) /\ Recalls(t, W) /\ DisksGood'
  /\ Cleared(t, w) \subseteq W /\ W \subseteq Cleared(t, w) \union {tabs[t].owner}
  /\ \A v \in Cleared(t, w) : disk'[v] = Absent
  /\ tabs[t].owner \in W => disk'[tabs[t].owner] = Image(Closed(t))
  /\ tabs[t].owner \notin W => t \in unsaved' \/ Closed(t) = tabs[t].messages \/ tabs[t].owner = NoOwner

LEMMA SwitchedKeys ==
  ASSUME TranscriptInv, NEW t \in HistoryTabs, NEW w \in Owners \union {NoOwner}, SwitchOwner(t, w)
  PROVE  \E W \in SUBSET Owners : KeysAfter(t, w, W)
<1>1. PICK q : q = tabs[t]
  OBVIOUS
<1>2. PICK o : o = q.owner
  OBVIOUS
<1>3. PICK cleared : cleared = Cleared(t, w)
  OBVIOUS
<1>4. /\ o \in Owners \union {NoOwner} /\ w # o /\ cleared \in SUBSET Owners /\ o \notin cleared
      /\ TranscriptTypes /\ DisksGood /\ rowsMade \in Nat
  BY <1>1, <1>2, <1>3, PageOf DEF SwitchOwner, Cleared, TranscriptInv, DisksGood
<1>5. /\ rowsMade' = IF NeedsNotice(t) THEN rowsMade + 1 ELSE rowsMade
      /\ rowsMade' <= MaxRows /\ rowsMade <= rowsMade' /\ rowsMade' \in Nat
  BY <1>4 DEF SwitchOwner
<1>6. IF o # NoOwner /\ Closed(t) # q.messages THEN SaveAnd(t, q.saving, o, Closed(t), cleared)
      ELSE Write(t, Removed(cleared)) /\ UNCHANGED unsaved
  BY <1>1, <1>2, <1>3 DEF SwitchOwner, Cleared
<1>7. CASE o # NoOwner /\ Closed(t) # q.messages
  <2>1. SaveAnd(t, q.saving, o, Closed(t), cleared)
    BY <1>6, <1>7
  <2>2. IsTranscript(Closed(t), o, rowsMade') /\ o \in Owners
    BY <1>1, <1>2, <1>4, <1>5, <1>7, ClosedIsAtRest
  <2>3. PICK W \in SUBSET Owners : HasSaved(t, o, Closed(t), cleared, W)
    BY <1>4, <1>5, <2>1, <2>2, SaveTouches
  <2>4. KeysAfter(t, w, W)
    BY <1>1, <1>2, <1>3, <2>3 DEF HasSaved, KeysAfter
  <2>5. QED
    BY <2>4
<1>8. CASE ~(o # NoOwner /\ Closed(t) # q.messages)
  <2>1. Write(t, Removed(cleared)) /\ unsaved' = unsaved
    BY <1>6, <1>8
  <2>2. unsaved' \subseteq HistoryTabs /\ unsaved \subseteq unsaved'
    BY <1>4, <2>1 DEF TranscriptTypes, StorageTypes
  <2>3. Touches(t, cleared) /\ Recalls(t, cleared) /\ DisksGood' /\ \A v \in cleared : disk'[v] = Absent
    BY <1>4, <1>5, <2>1, <2>2, RemovedTouches
  <2>4. KeysAfter(t, w, cleared)
    BY <1>1, <1>2, <1>3, <1>4, <1>8, <2>3 DEF KeysAfter
  <2>5. QED
    BY <1>4, <2>4
<1>9. QED
  BY <1>7, <1>8

LEMMA SwitchOwnerSafely ==
  ASSUME TranscriptInv, NEW t \in HistoryTabs, NEW w \in Owners \union {NoOwner}, SwitchOwner(t, w)
  PROVE  TranscriptInv'
<1>1. PICK q : q = tabs[t]
  OBVIOUS
<1>2. PICK o : o = q.owner
  OBVIOUS
<1>3. PICK p : /\ tabs' = [tabs EXCEPT ![t] = p] /\ PageInv(p, rowsMade')
               /\ p.owner = w /\ p.messages = ShownAfter(t, w) /\ p.tx = 0 /\ p.cache = CachesAfter(t, w)
  BY SwitchedPage
<1>4. PICK W \in SUBSET Owners : KeysAfter(t, w, W)
  BY SwitchedKeys
<1>5. /\ q.cache \in [Owners -> Values] /\ q.messages \in Seq(Row) /\ IsTranscript(q.messages, o, rowsMade)
      /\ o \in Owners \union {NoOwner} /\ rowsMade \in Nat /\ MaxRows \in Nat /\ NobodyShown(q) /\ w # o
      /\ NoOwner \notin Owners /\ PageOnDisk(t)
  BY <1>1, <1>2, PageOf, TranscriptAssumption DEF SwitchOwner, TranscriptInv
<1>6. tabs'[t] = p
  BY <1>3 DEF TranscriptInv, TranscriptTypes
<1>7. /\ rowsMade' = IF NeedsNotice(t) THEN rowsMade + 1 ELSE rowsMade
      /\ rowsMade' <= MaxRows /\ rowsMade <= rowsMade' /\ rowsMade' \in 0..MaxRows /\ setting' \in BOOLEAN
  BY <1>5 DEF SwitchOwner, TranscriptInv, TranscriptTypes
<1>8. /\ Touches(t, W) /\ Recalls(t, W) /\ DisksGood' /\ W \subseteq Cleared(t, w) \union {o}
      /\ \A v \in Cleared(t, w) : disk'[v] = Absent /\ v = w /\ Unreadable(t, w)
      /\ o \in W => disk'[o] = Image(Closed(t))
      /\ o \notin W => t \in unsaved' \/ Closed(t) = q.messages \/ o = NoOwner
  BY <1>1, <1>2, <1>4 DEF KeysAfter, Cleared
<1>9. ShownOnDisk(t)'
  <2> SUFFICES ASSUME w \in Owners, Undisturbed(t, w)' PROVE Loaded(w)' = Rehydrated(Lasting(p.messages))
    BY <1>3, <1>5, <1>6 DEF ShownOnDisk, PageInv, Pages
  <2>1. p.messages = CachedOr(t, w)
    BY <1>3, <1>5 DEF ShownAfter
  <2>2. Rehydrated(Lasting(p.messages)) = p.messages
    BY <2>1, CachedOrAtRest, AtRestLoads
  <2>3. CASE w \in W
    <3>1. disk'[w] = Absent /\ Unreadable(t, w)
      BY <1>5, <1>8, <2>3
    <3>2. CachedOr(t, w) = <<>> /\ Loaded(w)' = <<>>
      BY <3>1, Literals DEF CachedOr, Loaded, Unreadable
    <3>3. QED
      BY <2>1, <2>2, <3>2
  <2>4. CASE w \notin W
    <3>1. disk'[w] = disk[w] /\ Undisturbed(t, w)
      BY <1>8, <2>4 DEF Touches, Recalls, Undisturbed
    <3>2. CachedOr(t, w) = Loaded(w)
      BY <1>1, <1>2, <1>5, <3>1 DEF PageOnDisk, CacheOnDisk, CachedOr
    <3>3. QED
      BY <2>1, <2>2, <3>1, <3>2 DEF Loaded
  <2>5. QED
    BY <2>3, <2>4
<1>10. TxOnDisk(t)'
  BY <1>3, <1>6 DEF TxOnDisk
<1>11. ASSUME NEW v \in Owners, v # w, v # o PROVE CacheOnDisk(t, v)'
  <2>1. p.cache[v] = q.cache[v]
    BY <1>1, <1>2, <1>3, <1>5, <1>11 DEF CachesAfter
  <2>2. v \in Owners \ W /\ tabs[t].owner # v
    BY <1>1, <1>2, <1>8, <1>11
  <2>3. QED
    BY <1>1, <1>6, <1>8, <2>1, <2>2, CacheStays
<1>12. ASSUME o \in Owners PROVE CacheOnDisk(t, o)'
  <2>1. IsTranscript(Closed(t), o, rowsMade') /\ AtRest(Closed(t)) /\ Closed(t) \in Seq(Row)
    BY <1>1, <1>2, <1>7, <1>12, ClosedIsAtRest DEF IsTranscript
  <2>2. p.cache[o].rows = Closed(t)
    <3>1. p.cache[o] = Stored(Closed(t))
      BY <1>1, <1>2, <1>3, <1>5, <1>12 DEF CachesAfter
    <3>2. QED
      BY <2>1, <3>1, Literals
  <2>3. Rehydrated(Lasting(Closed(t))) = Closed(t)
    BY <2>1, AtRestLoads
  <2>4. CASE o \in W
    <3>1. Loaded(o)' = Closed(t)
      BY <1>8, <2>1, <2>3, <2>4, DiskValues DEF Loaded
    <3>2. QED
      BY <1>6, <2>2, <3>1 DEF CacheOnDisk
  <2>5. CASE o \notin W /\ t \in unsaved'
    BY <2>5 DEF CacheOnDisk, Undisturbed
  <2>6. CASE o \notin W /\ Closed(t) = q.messages
    <3>1. disk'[o] = disk[o] /\ (Undisturbed(t, o)' => Undisturbed(t, o))
      BY <1>8, <1>12, <2>6 DEF Touches, Recalls, Undisturbed
    <3>2. Undisturbed(t, o) => Loaded(o) = Closed(t)
      BY <1>1, <1>2, <1>5, <1>12, <2>3, <2>6 DEF PageOnDisk, ShownOnDisk
    <3>3. QED
      BY <1>6, <2>2, <3>1, <3>2 DEF CacheOnDisk, Loaded
  <2>7. QED
    BY <1>5, <1>8, <1>12, <2>4, <2>5, <2>6
<1>13. ASSUME NEW v \in Owners PROVE CacheOnDisk(t, v)'
  <2>1. CASE v = w
    BY <1>3, <1>6, <2>1 DEF CacheOnDisk
  <2>2. CASE v # w
    BY <1>11, <1>12, <2>2
  <2>3. QED
    BY <2>1, <2>2
<1>14. PageOnDisk(t)'
  BY <1>9, <1>10, <1>13 DEF PageOnDisk
<1>15. QED
  BY <1>3, <1>7, <1>8, <1>14, OnePageMoves

LEMMA ToggleSavingSafely ==
  ASSUME TranscriptInv, NEW t \in HistoryTabs, ToggleSaving(t)
  PROVE  TranscriptInv'
<1>1. PICK q : q = tabs[t]
  OBVIOUS
<1>2. PICK o : o = q.owner
  OBVIOUS
<1>3. PICK p : p = [q EXCEPT !.saving = ~@]
  OBVIOUS
<1>4. /\ q \in Pages /\ PageInv(q, rowsMade) /\ IsTranscript(q.messages, o, rowsMade)
      /\ RowsAreLive(q.messages, q.busy, q.card, q.tx) /\ o \in Owners \union {NoOwner}
      /\ rowsMade \in 0..MaxRows /\ rowsMade \in Nat /\ TranscriptTypes /\ DisksGood
  BY <1>1, <1>2, PageOf DEF TranscriptInv, DisksGood
<1>5. /\ p \in Pages /\ p.owner = o /\ p.messages = q.messages /\ p.cache = q.cache /\ p.card = q.card /\ p.tx = q.tx
      /\ p.adrift = q.adrift
  BY <1>2, <1>3, <1>4 DEF Pages
<1>6. p.busy = q.busy
  BY <1>3, <1>4 DEF Pages
<1>7. rowsMade' = rowsMade /\ setting' \in BOOLEAN
  BY DEF ToggleSaving
<1>8. PageInv(p, rowsMade')
  BY <1>2, <1>4, <1>5, <1>6, <1>7 DEF PageInv, NobodyShown
<1>9. tabs' = [tabs EXCEPT ![t] = p] /\ tabs'[t] = p
  BY <1>1, <1>3, <1>4 DEF ToggleSaving, TranscriptTypes
<1>10. \/ o \in Owners /\ SaveAnd(t, TRUE, o, q.messages, {})
       \/ NoSave
  BY <1>1, <1>2, <1>4 DEF ToggleSaving
<1>11. rowsMade' \in 0..MaxRows /\ rowsMade <= rowsMade' /\ {} \in SUBSET Owners
  BY <1>4, <1>7
<1>12. CASE o \in Owners /\ SaveAnd(t, TRUE, o, q.messages, {})
  <2>1. PICK W \in SUBSET Owners : HasSaved(t, o, q.messages, {}, W)
    BY <1>4, <1>7, <1>11, <1>12, SaveTouches
  <2>2. /\ Touches(t, W) /\ Recalls(t, W) /\ DisksGood' /\ W \subseteq {o}
        /\ o \in W => disk'[o] = Image(q.messages)
        /\ o \notin W => t \in unsaved'
    BY <2>1 DEF HasSaved
  <2>3. ASSUME NEW v \in Owners PROVE CacheOnDisk(t, v)'
    <3>1. CASE v = o
      BY <1>5, <1>9, <3>1 DEF CacheOnDisk
    <3>2. CASE v # o
      BY <1>1, <1>2, <1>5, <1>9, <2>2, <3>2, CacheStays
    <3>3. QED
      BY <3>1, <3>2
  <2>4. ShownOnDisk(t)' /\ TxOnDisk(t)'
    <3>1. CASE o \in W
      <4>1. Loaded(o)' = Rehydrated(Lasting(q.messages)) /\ disk'[o].rows = Lasting(q.messages)
        BY <1>4, <2>2, <3>1, DiskValues DEF Loaded
      <4>2. \A i \in DOMAIN q.messages : q.messages[i].state # "streaming" =>
              \E j \in DOMAIN disk'[o].rows : disk'[o].rows[j] = q.messages[i]
        <5>1. \A i \in DOMAIN q.messages : q.messages[i].state # "streaming" =>
                \E j \in DOMAIN Lasting(q.messages) : Lasting(q.messages)[j] = q.messages[i]
          BY <1>4, LastingTranscript
        <5>2. QED
          BY <4>1, <5>1
      <4>3. q.tx # 0 => \E i \in DOMAIN q.messages : q.messages[i].id = q.tx /\ q.messages[i].state = "inflight"
        BY <1>4 DEF RowsAreLive
      <4>4. TxOnDisk(t)'
        BY <1>5, <1>9, <4>2, <4>3 DEF TxOnDisk
      <4>5. QED
        BY <1>5, <1>9, <4>1, <4>4 DEF ShownOnDisk
    <3>2. CASE o \notin W
      BY <1>5, <1>9, <2>2, <3>2 DEF ShownOnDisk, TxOnDisk, Undisturbed
    <3>3. QED
      BY <3>1, <3>2
  <2>5. PageOnDisk(t)'
    BY <2>3, <2>4 DEF PageOnDisk
  <2>6. QED
    BY <1>7, <1>8, <1>9, <1>11, <2>2, <2>5, OnePageMoves
<1>13. CASE NoSave
  <2>1. Touches(t, {}) /\ Recalls(t, {})
    BY <1>4, <1>13 DEF NoSave, Touches, Recalls, StorageTypes, TranscriptTypes
  <2>2. DisksGood'
    BY <1>4, <1>7, <1>13 DEF NoSave, DisksGood, DiskInv
  <2>3. ShownOnDisk(t)' /\ TxOnDisk(t)'
    BY <1>1, <1>2, <1>5, <1>9, <1>11, <2>1, ShownStays
  <2>4. ASSUME NEW v \in Owners PROVE CacheOnDisk(t, v)'
    <3>1. CASE v = o
      BY <1>5, <1>9, <3>1 DEF CacheOnDisk
    <3>2. CASE v # o
      BY <1>1, <1>2, <1>5, <1>9, <1>11, <2>1, <3>2, CacheStays
    <3>3. QED
      BY <3>1, <3>2
  <2>5. PageOnDisk(t)'
    BY <2>3, <2>4 DEF PageOnDisk
  <2>6. QED
    BY <1>7, <1>8, <1>9, <1>11, <2>1, <2>2, <2>5, OnePageMoves
<1>14. QED
  BY <1>10, <1>12, <1>13

LEMMA TranscriptWrittenSafely ==
  ASSUME TranscriptInv, NEW t \in HistoryTabs, NEW w \in Owners, TranscriptWritten(t, w)
  PROVE  TranscriptInv'
<1>1. PICK q : q = tabs[t]
  OBVIOUS
<1>2. /\ q \in Pages /\ PageInv(q, rowsMade) /\ q.cache \in [Owners -> Values] /\ q.owner \in Owners \union {NoOwner}
      /\ NobodyShown(q) /\ rowsMade \in 0..MaxRows /\ rowsMade \in Nat /\ TranscriptTypes /\ DisksGood /\ PageOnDisk(t)
  BY <1>1, PageOf DEF TranscriptInv, DisksGood
<1>3. /\ rowsMade' = rowsMade /\ disk' = disk /\ lastWriter' = lastWriter /\ unsaved' = unsaved
      /\ setting' = setting /\ events' = events \ {<<t, w>>}
  BY DEF TranscriptWritten
<1>4. PICK p : p = IF q.owner # w THEN [q EXCEPT !.cache[w] = Absent] ELSE q
  OBVIOUS
<1>5. /\ p \in Pages /\ p.owner = q.owner /\ p.messages = q.messages /\ p.card = q.card /\ p.tx = q.tx
      /\ p.adrift = q.adrift /\ \A v \in Owners : v # w => p.cache[v] = q.cache[v]
      /\ \A v \in Owners : p.cache[v] = q.cache[v] \/ p.cache[v] = Absent
      /\ p.cache[w] = Absent \/ p.owner = w
  BY <1>2, <1>4, Literals DEF Pages
<1>6. p.busy = q.busy
  BY <1>2, <1>4 DEF Pages
<1>7. PageInv(p, rowsMade')
  <2>1. \A v \in Owners : IsTranscript(p.cache[v].rows, v, rowsMade) /\ AtRest(p.cache[v].rows)
    BY <1>2, <1>5, Literals, EmptyTranscript DEF PageInv
  <2>2. QED
    BY <1>2, <1>3, <1>5, <1>6, <2>1 DEF PageInv, NobodyShown
<1>8. tabs' = [tabs EXCEPT ![t] = p] /\ tabs'[t] = p
  BY <1>1, <1>2, <1>4 DEF TranscriptWritten, Drops, TranscriptTypes
<1>9. /\ overtaken' \subseteq HistoryTabs \X Owners
      /\ \A e : e # <<t, w>> => (e \in overtaken' <=> e \in overtaken)
      /\ q.owner = w => <<t, w>> \in overtaken'
  BY <1>1, <1>2 DEF TranscriptWritten, Drops, TranscriptTypes, StorageTypes
<1>10. Touches(t, {})
  <2>1. StorageTypes'
    BY <1>2, <1>3, <1>9 DEF TranscriptTypes, StorageTypes
  <2>2. QED
    BY <1>3, <1>9, <2>1 DEF Touches
<1>11. DisksGood'
  BY <1>2, <1>3 DEF DisksGood, DiskInv
<1>12. ASSUME NEW v \in Owners, v # w PROVE Undisturbed(t, v)' <=> Undisturbed(t, v)
  BY <1>3, <1>9, <1>12 DEF Undisturbed
<1>13. TxOnDisk(t)'
  BY <1>1, <1>2, <1>3, <1>5, <1>8 DEF TxOnDisk, PageOnDisk
<1>14. ShownOnDisk(t)'
  <2>1. CASE q.owner = w
    BY <1>5, <1>8, <1>9, <2>1 DEF ShownOnDisk, Undisturbed
  <2>2. CASE q.owner = NoOwner
    BY <1>5, <1>8, <2>2 DEF ShownOnDisk
  <2>3. CASE q.owner \in Owners /\ q.owner # w
    BY <1>1, <1>2, <1>3, <1>5, <1>8, <1>12, <2>3 DEF ShownOnDisk, PageOnDisk, Loaded
  <2>4. QED
    BY <1>2, <2>1, <2>2, <2>3
<1>15. ASSUME NEW v \in Owners PROVE CacheOnDisk(t, v)'
  <2>1. CASE v = w
    BY <1>5, <1>8, <2>1 DEF CacheOnDisk
  <2>2. CASE v # w
    BY <1>1, <1>2, <1>3, <1>5, <1>8, <1>12, <2>2 DEF CacheOnDisk, PageOnDisk, Loaded
  <2>3. QED
    BY <2>1, <2>2
<1>16. PageOnDisk(t)'
  BY <1>13, <1>14, <1>15 DEF PageOnDisk
<1>17. rowsMade' \in 0..MaxRows /\ rowsMade <= rowsMade' /\ {} \in SUBSET Owners /\ setting' \in BOOLEAN
  BY <1>2, <1>3 DEF TranscriptTypes
<1>18. QED
  BY <1>7, <1>8, <1>10, <1>11, <1>16, <1>17, OnePageMoves

LEMMA ReloadPageSafely ==
  ASSUME TranscriptInv, NEW t \in HistoryTabs, ReloadPage(t)
  PROVE  TranscriptInv'
<1>1. PICK p : p = FreshPage(setting)
  OBVIOUS
<1>2. rowsMade \in 0..MaxRows /\ rowsMade \in Nat /\ setting \in BOOLEAN /\ TranscriptTypes /\ DisksGood
  BY PageOf DEF TranscriptInv, DisksGood, TranscriptTypes
<1>3. /\ rowsMade' = rowsMade /\ disk' = disk /\ lastWriter' = lastWriter /\ unsaved' = unsaved /\ setting' = setting
      /\ events' = {e \in events : e[1] # t} /\ overtaken' = {e \in overtaken : e[1] # t}
  BY DEF ReloadPage
<1>4. /\ p \in Pages /\ p.owner = NoOwner /\ p.messages = <<>> /\ p.card = 0 /\ p.tx = 0 /\ p.adrift = {}
      /\ \A v \in Owners : p.cache[v] = Absent
  <2>1. [v \in Owners |-> Absent] \in [Owners -> Values] /\ <<>> \in Seq(Row) /\ 0 \in 0..MaxRows
    BY Literals, TranscriptAssumption
  <2>2. QED
    BY <1>1, <1>2, <2>1 DEF FreshPage, Pages
<1>5. ~p.busy
  BY <1>1 DEF FreshPage
<1>6. PageInv(p, rowsMade')
  <2>1. \A v \in Owners : IsTranscript(p.cache[v].rows, v, rowsMade') /\ AtRest(p.cache[v].rows)
    BY <1>4, Literals, EmptyTranscript
  <2>2. RowsAreLive(p.messages, p.busy, p.card, p.tx) /\ AdriftIsOlder(p.adrift, p.messages, p.card, p.tx, rowsMade')
    BY <1>4, <1>5 DEF RowsAreLive, AdriftIsOlder
  <2>3. QED
    BY <1>4, <1>5, <2>1, <2>2, EmptyTranscript DEF PageInv, NobodyShown
<1>7. tabs' = [tabs EXCEPT ![t] = p] /\ tabs'[t] = p
  BY <1>1, <1>2 DEF ReloadPage, TranscriptTypes
<1>8. Touches(t, {})
  <2>1. StorageTypes'
    BY <1>2, <1>3 DEF TranscriptTypes, StorageTypes
  <2>2. QED
    BY <1>3, <2>1 DEF Touches
<1>9. DisksGood'
  BY <1>2, <1>3 DEF DisksGood, DiskInv
<1>10. PageOnDisk(t)'
  BY <1>4, <1>7 DEF PageOnDisk, TxOnDisk, ShownOnDisk, CacheOnDisk
<1>11. rowsMade' \in 0..MaxRows /\ rowsMade <= rowsMade' /\ {} \in SUBSET Owners /\ setting' \in BOOLEAN
  BY <1>2, <1>3
<1>12. QED
  BY <1>6, <1>7, <1>8, <1>9, <1>10, <1>11, OnePageMoves

LEMMA NewerBuildWritesSafely ==
  ASSUME TranscriptInv, NEW w \in Owners, NewerBuildWrites(w)
  PROVE  TranscriptInv'
<1>1. /\ tabs' = tabs /\ rowsMade' = rowsMade /\ setting' = setting /\ overtaken' = overtaken /\ unsaved' = unsaved
      /\ disk' = [disk EXCEPT ![w] = Future] /\ lastWriter' = [lastWriter EXCEPT ![w] = NoOwner]
      /\ events' = events \union {<<t, w>> : t \in HistoryTabs}
  BY DEF NewerBuildWrites
<1>2. TranscriptTypes /\ DisksGood
  BY DEF TranscriptInv, DisksGood
<1>3. StorageTypes'
  BY <1>1, <1>2, Literals DEF TranscriptTypes, StorageTypes
<1>4. disk'[w] = Future /\ lastWriter'[w] = NoOwner
      /\ \A v \in Owners : v # w => disk'[v] = disk[v] /\ lastWriter'[v] = lastWriter[v]
  BY <1>1, <1>2 DEF TranscriptTypes, StorageTypes
<1>5. Touches(NoOwner, {w})
  BY <1>1, <1>3, <1>4 DEF Touches
<1>6. ASSUME NEW u \in HistoryTabs PROVE PageOnDisk(u)'
  <2>1. u \in HistoryTabs \ {NoOwner}
    BY TranscriptAssumption
  <2>2. tabs'[u] = tabs[u] /\ PageInv(tabs[u], rowsMade) /\ PageOnDisk(u) /\ {w} \in SUBSET Owners
    BY <1>1 DEF TranscriptInv
  <2>3. QED
    BY <1>2, <1>5, <2>1, <2>2, OthersOnDisk
<1>7. ASSUME NEW v \in Owners PROVE DiskInv(v)'
  <2>1. CASE v = w
    BY <1>4, <2>1, Literals, EmptyTranscript DEF DiskInv
  <2>2. CASE v # w
    BY <1>1, <1>2, <1>4, <2>2 DEF DiskInv, DisksGood
  <2>3. QED
    BY <2>1, <2>2
<1>8. TranscriptTypes'
  BY <1>1, <1>2, <1>3 DEF TranscriptTypes
<1>9. QED
  BY <1>1, <1>6, <1>7, <1>8 DEF TranscriptInv

-----------------------------------------------------------------------------
(* The transcripts as a whole *)

LEMMA TranscriptsStartSafely ==
  ASSUME TranscriptInit
  PROVE  TranscriptInv
<1>1. PICK p : p = FreshPage(TRUE)
  OBVIOUS
<1>2. /\ \A w \in Owners : disk[w] \in {Absent, Corrupt}
      /\ \A t \in HistoryTabs : tabs[t] = p
      /\ rowsMade = 0 /\ setting = TRUE /\ events = {} /\ overtaken = {} /\ unsaved = {}
      /\ lastWriter = [w \in Owners |-> NoOwner] /\ tabs = [t \in HistoryTabs |-> p] /\ disk \in [Owners -> {Absent, Corrupt}]
  BY <1>1 DEF TranscriptInit
<1>3. /\ p \in Pages /\ p.owner = NoOwner /\ p.messages = <<>> /\ p.card = 0 /\ p.tx = 0 /\ p.adrift = {}
      /\ \A v \in Owners : p.cache[v] = Absent
  <2>1. [v \in Owners |-> Absent] \in [Owners -> Values] /\ <<>> \in Seq(Row) /\ 0 \in 0..MaxRows
    BY Literals, TranscriptAssumption
  <2>2. QED
    BY <1>1, <2>1 DEF FreshPage, Pages
<1>4. ~p.busy
  BY <1>1 DEF FreshPage
<1>5. PageInv(p, rowsMade)
  <2>1. \A v \in Owners : IsTranscript(p.cache[v].rows, v, rowsMade) /\ AtRest(p.cache[v].rows)
    BY <1>3, Literals, EmptyTranscript
  <2>2. RowsAreLive(p.messages, p.busy, p.card, p.tx) /\ AdriftIsOlder(p.adrift, p.messages, p.card, p.tx, rowsMade)
    BY <1>3, <1>4 DEF RowsAreLive, AdriftIsOlder
  <2>3. QED
    BY <1>3, <1>4, <2>1, <2>2, EmptyTranscript DEF PageInv, NobodyShown
<1>6. TranscriptTypes
  <2>1. 0 \in 0..MaxRows
    BY TranscriptAssumption
  <2>2. disk \in [Owners -> Values]
    BY <1>2, Literals
  <2>3. QED
    BY <1>2, <1>3, <2>1, <2>2 DEF TranscriptTypes, StorageTypes
<1>7. \A w \in Owners : DiskInv(w)
  BY <1>2, Literals, EmptyTranscript DEF DiskInv
<1>8. \A t \in HistoryTabs : PageOnDisk(t)
  BY <1>2, <1>3 DEF PageOnDisk, TxOnDisk, ShownOnDisk, CacheOnDisk
<1>9. QED
  BY <1>2, <1>5, <1>6, <1>7, <1>8 DEF TranscriptInv

LEMMA TranscriptsStepSafely ==
  ASSUME TranscriptInv, [TranscriptNext]_transcriptVars
  PROVE  TranscriptInv'
<1>1. ASSUME NEW t \in HistoryTabs,
             \/ SendRows(t) \/ TurnAnswered(t) \/ ConfirmRow(t) \/ TransactionEnds(t) \/ AdriftEnds(t)
             \/ \E w \in Owners \union {NoOwner} : SwitchOwner(t, w)
             \/ RefreshSigner(t) \/ ClearTranscript(t) \/ ToggleSaving(t) \/ ReloadPage(t)
             \/ \E w \in Owners : TranscriptWritten(t, w)
      PROVE  TranscriptInv'
  BY <1>1, SendRowsSafely, TurnAnsweredSafely, ConfirmRowSafely, TransactionEndsSafely, AdriftEndsSafely,
     SwitchOwnerSafely, RefreshSignerSafely, ClearTranscriptSafely, ToggleSavingSafely, ReloadPageSafely,
     TranscriptWrittenSafely
<1>2. ASSUME NEW w \in Owners, NewerBuildWrites(w) PROVE TranscriptInv'
  BY <1>2, NewerBuildWritesSafely
<1>3. CASE UNCHANGED transcriptVars
  BY <1>3 DEF transcriptVars, TranscriptInv, TranscriptTypes, StorageTypes, DiskInv, PageOnDisk, TxOnDisk, ShownOnDisk,
              CacheOnDisk, Undisturbed, Loaded
<1>4. QED
  BY <1>1, <1>2, <1>3 DEF TranscriptNext

-----------------------------------------------------------------------------
(* What the invariant says of the checked properties *)

LEMMA TranscriptsTyped ==
  ASSUME TranscriptInv
  PROVE  TranscriptTypeOK
<1>1. \A rows \in Seq(Row) : ToSet(rows) \subseteq Row
  BY DEF ToSet
<1>2. ASSUME NEW w \in Owners
      PROVE  disk[w].kind \in {"absent", "corrupt", "future", "rows"} /\ ToSet(disk[w].rows) \subseteq Row
  <2>1. disk[w] \in Values
    BY DEF TranscriptInv, TranscriptTypes, StorageTypes
  <2>2. disk[w].kind \in {"absent", "corrupt", "future", "rows"} /\ disk[w].rows \in Seq(Row)
    BY <2>1 DEF Values
  <2>3. QED
    BY <1>1, <2>2
<1>3. ASSUME NEW t \in HistoryTabs
      PROVE  /\ tabs[t].owner \in Owners \union {NoOwner}
             /\ \A rows \in Copies(t) : ToSet(rows) \subseteq Row /\ Len(rows) <= Window
             /\ {tabs[t].card, tabs[t].tx} \subseteq 0..MaxRows
  <2>1. \A rows \in Copies(t) : rows \in Seq(Row) /\ Len(rows) <= Window
    BY DEF Copies, TranscriptInv, PageInv, IsTranscript
  <2>2. QED
    BY <1>1, <2>1, PageOf
<1>4. QED
  BY <1>2, <1>3 DEF TranscriptTypeOK, TranscriptInv, TranscriptTypes, StorageTypes

LEMMA TranscriptsOwned ==
  ASSUME TranscriptInv
  PROVE  TranscriptsAreOwn
<1>1. ASSUME NEW w \in Owners, NEW r \in ToSet(disk[w].rows) PROVE r.owner = w
  BY <1>1 DEF TranscriptInv, DiskInv, IsTranscript, OfOwner, ToSet
<1>2. ASSUME NEW t \in HistoryTabs, NEW r \in ToSet(tabs[t].messages)
      PROVE  /\ r.owner = tabs[t].owner
             /\ r.state = "awaiting" => r.id = tabs[t].card
             /\ r.state = "inflight" => r.id = tabs[t].tx
             /\ r.state = "streaming" => tabs[t].busy
  BY <1>2, PageOf DEF ToSet, IsTranscript, OfOwner, RowsAreLive
<1>3. ASSUME NEW t \in HistoryTabs, NEW w \in Owners, NEW r \in ToSet(tabs[t].cache[w].rows)
      PROVE  r.owner = w /\ r.state \in {"plain", "closed"}
  BY <1>3, PageOf DEF PageInv, ToSet, IsTranscript, OfOwner, AtRest
<1>4. QED
  BY <1>1, <1>2, <1>3 DEF TranscriptsAreOwn

LEMMA TranscriptsOnDisk ==
  ASSUME TranscriptInv
  PROVE  TransactionsAreOnDisk /\ CachedIsOnDisk
<1>1. ASSUME NEW t \in HistoryTabs, tabs[t].tx # 0
      PROVE  /\ HasRow(tabs[t].messages, tabs[t].tx)
             /\ (t \notin unsaved /\ lastWriter[tabs[t].owner] = t) =>
                  \E r \in ToSet(disk[tabs[t].owner].rows) : r.id = tabs[t].tx /\ r.state = "inflight"
  <2>1. HasRow(tabs[t].messages, tabs[t].tx)
    BY <1>1, PageOf DEF RowsAreLive, HasRow
  <2>2. TxOnDisk(t)
    BY DEF TranscriptInv, PageOnDisk
  <2>3. QED
    BY <1>1, <2>1, <2>2 DEF TxOnDisk, ToSet
<1>2. CachedIsOnDisk
  BY DEF CachedIsOnDisk, TranscriptInv, PageOnDisk, CacheOnDisk, Undisturbed
<1>3. QED
  BY <1>1, <1>2 DEF TransactionsAreOnDisk

\* A write leaves a newer build's key alone unless it is among the written ones.
LEMMA WriteKeeps ==
  ASSUME NEW t, NEW new, Write(t, new), NEW w \in Owners, w \notin DOMAIN new
  PROVE  disk'[w] = disk[w]
BY DEF Write

LEMMA SaveKeeps ==
  ASSUME NEW t, NEW saving, NEW v, NEW rows, NEW cleared, SaveAnd(t, saving, v, rows, cleared),
         NEW w \in Owners, disk[w] = Future, w \notin cleared
  PROVE  disk'[w] = Future
<1>1. disk[w].kind = "future"
  BY Literals
<1>2. CASE MayOverwrite(v) /\ Write(t, [x \in {v} \union cleared |-> IF x = v THEN Image(rows) ELSE Absent])
  <2>1. w # v
    BY <1>1, <1>2 DEF MayOverwrite
  <2>2. QED
    BY <1>2, <2>1, WriteKeeps
<1>3. CASE Write(t, Removed(cleared))
  BY <1>3, WriteKeeps DEF Removed
<1>4. QED
  BY <1>2, <1>3 DEF SaveAnd

LEMMA PublishKeeps ==
  ASSUME NEW t, NEW p, Publish(t, p), NEW w \in Owners, disk[w] = Future
  PROVE  disk'[w] = Future
BY SaveKeeps DEF Publish, Save, NoSave

\* A load removes no newer build's value.
LEMMA LoadKeeps ==
  ASSUME NEW t, NEW w \in Owners, disk[w] = Future, NEW v, Unreadable(t, v)
  PROVE  w \notin {v}
BY Literals DEF Unreadable

LEMMA AdriftKeeps ==
  ASSUME NEW t \in HistoryTabs, AdriftEnds(t), NEW w \in Owners, disk[w] = Future
  PROVE  disk'[w] = Future
<1>1. \/ \E p : Publish(t, p)
      \/ \E v, rows : Save(t, v, rows)
      \/ \E v, shown : Write(t, Removed(IF ~shown /\ Unreadable(t, v) THEN {v} ELSE {}))
  BY DEF AdriftEnds
<1>2. ASSUME NEW v, NEW rows, Save(t, v, rows) PROVE disk'[w] = Future
  BY <1>2, SaveKeeps DEF Save
<1>3. ASSUME NEW v, NEW shown, Write(t, Removed(IF ~shown /\ Unreadable(t, v) THEN {v} ELSE {}))
      PROVE  disk'[w] = Future
  <2> DEFINE W == IF ~shown /\ Unreadable(t, v) THEN {v} ELSE {}
  <2>1. w \notin W /\ DOMAIN Removed(W) = W
    BY LoadKeeps DEF Removed
  <2>2. QED
    BY <1>3, <2>1, WriteKeeps
<1>4. QED
  BY <1>1, <1>2, <1>3, PublishKeeps

LEMMA SwitchKeeps ==
  ASSUME NEW t \in HistoryTabs, NEW v \in Owners \union {NoOwner}, SwitchOwner(t, v), NEW w \in Owners, disk[w] = Future
  PROVE  disk'[w] = Future
<1> DEFINE W == IF v # NoOwner /\ Unreadable(t, v) THEN {v} ELSE {}
<1>1. \/ SaveAnd(t, tabs[t].saving, tabs[t].owner, Closed(t), W)
      \/ Write(t, Removed(W))
  BY DEF SwitchOwner
<1>2. w \notin W /\ DOMAIN Removed(W) = W
  BY LoadKeeps DEF Removed
<1> HIDE DEF W
<1>3. QED
  BY <1>1, <1>2, SaveKeeps, WriteKeeps

\* Only the user's clearing of a transcript removes what a newer build wrote.
LEMMA NewerStays ==
  ASSUME clears \in Nat, [TranscriptNext]_transcriptVars
  PROVE  KeepsNewerBuilds /\ clears' \in Nat
<1>1. ASSUME NEW t \in HistoryTabs, NEW w \in Owners, disk[w] = Future,
             \/ SendRows(t) \/ TurnAnswered(t) \/ ConfirmRow(t) \/ TransactionEnds(t) \/ RefreshSigner(t)
      PROVE  disk'[w] = Future
  BY <1>1, PublishKeeps DEF SendRows, TurnAnswered, ConfirmRow, TransactionEnds, RefreshSigner
<1>2. ASSUME NEW t \in HistoryTabs, NEW w \in Owners, disk[w] = Future, ToggleSaving(t) PROVE disk'[w] = Future
  <2>1. SaveAnd(t, TRUE, tabs[t].owner, tabs[t].messages, {}) \/ disk' = disk
    BY <1>2 DEF ToggleSaving, NoSave
  <2>2. w \notin {}
    OBVIOUS
  <2>3. QED
    BY <1>2, <2>1, <2>2, SaveKeeps
<1>3. ASSUME NEW t \in HistoryTabs, ClearTranscript(t) PROVE clears' # clears /\ clears' \in Nat
  BY <1>3 DEF ClearTranscript
<1>4. ASSUME NEW t \in HistoryTabs, NEW w \in Owners, disk[w] = Future,
             ReloadPage(t) \/ \E v \in Owners : TranscriptWritten(t, v)
      PROVE  disk'[w] = Future
  BY <1>4 DEF ReloadPage, TranscriptWritten
<1>5. ASSUME NEW v \in Owners, NewerBuildWrites(v), NEW w \in Owners, disk[w] = Future PROVE disk'[w] = Future
  BY <1>5 DEF NewerBuildWrites
<1>6. CASE \E t \in HistoryTabs : ClearTranscript(t)
  BY <1>3, <1>6 DEF KeepsNewerBuilds
<1>7. CASE ~\E t \in HistoryTabs : ClearTranscript(t)
  <2>1. KeepsNewerBuilds
    BY <1>1, <1>2, <1>4, <1>5, <1>7, AdriftKeeps, SwitchKeeps DEF TranscriptNext, KeepsNewerBuilds, transcriptVars
  <2>2. ASSUME NEW t \in HistoryTabs,
               \/ SendRows(t) \/ TurnAnswered(t) \/ ConfirmRow(t) \/ TransactionEnds(t)
               \/ \E w \in Owners : TranscriptWritten(t, w)
        PROVE  clears' = clears
    BY <2>2 DEF SendRows, TurnAnswered, ConfirmRow, TransactionEnds, TranscriptWritten
  <2>3. ASSUME NEW t \in HistoryTabs, AdriftEnds(t) PROVE clears' = clears
    BY <2>3 DEF AdriftEnds
  <2>4. ASSUME NEW t \in HistoryTabs,
               \/ \E w \in Owners \union {NoOwner} : SwitchOwner(t, w)
               \/ RefreshSigner(t) \/ ToggleSaving(t) \/ ReloadPage(t)
        PROVE  clears' = clears
    BY <2>4 DEF SwitchOwner, RefreshSigner, ToggleSaving, ReloadPage, Moves
  <2>5. ASSUME NEW w \in Owners, NewerBuildWrites(w) PROVE clears' = clears
    BY <2>5 DEF NewerBuildWrites
  <2>6. clears' = clears
    BY <1>7, <2>2, <2>3, <2>4, <2>5 DEF TranscriptNext, transcriptVars
  <2>7. QED
    BY <2>1, <2>6
<1>8. QED
  BY <1>6, <1>7

-----------------------------------------------------------------------------
(* The theorems *)

LEMMA TranscriptsAreSound == TranscriptSpec => []TranscriptInv
<1>1. TranscriptInit => TranscriptInv
  BY TranscriptsStartSafely
<1>2. TranscriptInv /\ [TranscriptNext]_transcriptVars => TranscriptInv'
  BY TranscriptsStepSafely
<1>3. QED
  BY <1>1, <1>2, PTL DEF TranscriptSpec

\* No transcript, shown, cached or on disk, holds another wallet's row, and no row
\* claims work that nobody does (messagesAfterAuthorizationChange, rehydrateChatHistory).
THEOREM RowsStayOwn == TranscriptSpec => []TranscriptsAreOwn
<1>1. TranscriptInv => TranscriptsAreOwn
  BY TranscriptsOwned
<1>2. QED
  BY <1>1, TranscriptsAreSound, PTL

\* A transaction under way is on disk as such, and a cached transcript is what a load
\* would give, unless a write was refused or another tab came in between.
THEOREM CopiesAgree == TranscriptSpec => [](TransactionsAreOnDisk /\ CachedIsOnDisk)
<1>1. TranscriptInv => TransactionsAreOnDisk /\ CachedIsOnDisk
  BY TranscriptsOnDisk
<1>2. QED
  BY <1>1, TranscriptsAreSound, PTL

\* What a newer build wrote stays until a user clears that transcript (saveHistory,
\* loadHistory, the settings).
THEOREM NewerBuildsStay == TranscriptSpec => [][KeepsNewerBuilds]_transcriptVars
<1> DEFINE Counted == clears \in Nat
<1>1. TranscriptInit => Counted
  BY DEF TranscriptInit
<1>2. Counted /\ [TranscriptNext]_transcriptVars => Counted' /\ KeepsNewerBuilds
  BY NewerStays
<1>3. QED
  BY <1>1, <1>2, PTL DEF TranscriptSpec
=============================================================================
