---------------------------- MODULE ChatStoreProofs ----------------------------
(***************************************************************************)
(* Who has the chat, what its rows show and what an approval was used for, *)
(* for any number of wallets, pieces of work and changes of context.       *)
(*                                                                         *)
(* The invariant has three parts.  Authority: of all the work that was     *)
(* started one piece at most is alive in the present epoch, it is the one  *)
(* the controller names, and it acts in the present wallet context; a card *)
(* and an approval point back to work that is over.  Transcripts: the rows *)
(* that stream are the open rows of that one piece, the rows in flight and *)
(* waiting are the active transaction's and the card's.  Files: a file     *)
(* stays with the wallet that attached it.  That a resolved row stays so   *)
(* needs besides that the rows the owner shows next are not there yet      *)
(* (RowsToCome), and that calls get their replies, which calls of the turn *)
(* at hand have none yet (RepliesToCome).                                  *)
(***************************************************************************)
EXTENDS ChatStore, WellFoundedInduction, TLAPS

Addresses == Wallets \cup {NoWallet}
RowIds == Nat \X Nat \X Nat
States == {"streaming", "waiting", "inflight", "closed"}
Texts == {"", "interrupted", "unsubmitted", "notice", "maxed", "answer", "calls", "outcome"}
Entries == [st : States, text : Texts, calls : Nat]
Kinds == {"chat", "status", "batch", "stop", "replan", "confirm"}
Stages == {"model", "tool", "merge", "query", "plan", "replan", "execute", "sent", "followup", "done"}
Items == [kind : Kinds, pc : Stages, epoch : Nat, aborted : BOOLEAN, wallet : Addresses, gen : Nat,
          turn : Nat, calls : Seq(Tools), at : Nat, collected : SUBSET Nat, row : RowIds,
          payload : Nat, seen : Nat, said : {"", "card", "answer", "stranded", "outcome"}]
Cards == [row : RowIds, wallet : Addresses, gen : Nat, payload : Nat, batch : BOOLEAN]

StoreTyped ==
    /\ wallet \in [address : Addresses, client : BOOLEAN, gen : Nat]
    /\ epoch \in Nat /\ streaming \in BOOLEAN /\ controller \in 0..Len(work)
    /\ pending = NoCard \/ pending \in Cards
    /\ active \in RowIds
    /\ attached \in Seq(Addresses) /\ payload \in 0..Len(attached) /\ attaching \in {Idle} \cup Nat
    /\ dispatches \in Nat
    /\ work \in Seq(Items)
    /\ DOMAIN transcript = Addresses
    /\ \A a \in Addresses : \A r \in DOMAIN transcript[a] : r \in RowIds /\ transcript[a][r] \in Entries

Runs(i) == i.pc \in {"execute", "sent"}

(* What one piece of work goes through.                                     *)
Stage(i) ==
    /\ i.kind = "chat" => i.pc \in {"model", "tool", "merge", "done"}
    /\ i.kind = "status" => i.pc \in {"query", "done"}
    /\ i.kind = "batch" => i.pc \in {"plan", "done"}
    /\ i.kind = "stop" => i.pc = "done"
    /\ i.kind = "replan" => i.pc \in {"replan", "done"}
    /\ i.kind = "confirm" => i.pc \in {"execute", "sent", "followup", "done"}
    /\ i.pc = "tool" => i.at \in DOMAIN i.calls /\ i.collected \subseteq 1..(i.at - 1)
    /\ i.pc = "merge" => i.collected \subseteq DOMAIN i.calls
    /\ i.pc \notin {"tool", "merge"} => i.collected = {}
    /\ i.pc # "done" => i.said # "stranded"
    /\ Runs(i) => i.said # "outcome"

Approved(i) == Runs(i) \/ i.pc = "replan" \/ i.collected # {}
OfContext(i) == i.wallet = wallet.address /\ i.gen = wallet.gen

(* A card, and what is done with it, comes from work that is over.          *)
OfDone(c) ==
    /\ c.row[1] \in Ids /\ Done(c.row[1])
    /\ work[c.row[1]].wallet = c.wallet /\ work[c.row[1]].gen = c.gen

OwnerActs ==
    /\ streaming <=> controller # 0
    /\ \A w \in Ids : work[w].epoch <= epoch /\ Stage(work[w])
    /\ \A w \in Ids : (~Done(w) /\ work[w].epoch = epoch) <=> w = controller
    /\ controller # 0 => /\ OfContext(work[controller])
                         /\ Approved(work[controller]) => wallet.client

CardStands ==
    /\ pending # NoCard => /\ Current(pending) /\ OfDone(pending)
                           /\ controller # 0 => work[controller].pc = "replan"
    /\ active # NoRow => controller # 0 /\ Runs(work[controller]) /\ active = work[controller].row

(* A card is consumed once.                                                 *)
UsedOnce ==
    /\ \A w \in Ids : work[w].kind \in {"confirm", "replan"} => OfDone(work[w])
    /\ \A w \in Ids : work[w].kind = "confirm" =>
         /\ pending # NoCard => work[w].row # pending.row
         /\ \A v \in Ids : work[v].kind = "confirm" /\ work[v].row = work[w].row => v = w
    /\ \A s \in submitted : \E w \in Ids :
         /\ work[w].kind = "confirm" /\ work[w].row = s.row
         /\ work[s.row[1]].wallet = s.address /\ work[s.row[1]].gen = s.gen

Authority == OwnerActs /\ CardStands /\ UsedOnce

(* The rows the owner still has to resolve.                                 *)
OpenAt(i) ==
    CASE i.pc = "model" \/ i.pc = "followup" -> {0}
      [] i.pc = "query" \/ i.pc = "plan" -> {1}
      [] i.pc = "tool" -> i.collected \cup {i.at}
      [] i.pc = "merge" -> i.collected
      [] OTHER -> {}

Open == IF controller = 0 THEN {} ELSE {Row(controller, n) : n \in OpenAt(work[controller])}

RowFits(a, r) ==
    LET row == transcript[a][r] IN
    /\ r[1] \in Ids /\ work[r[1]].wallet = a
    /\ row.st = "streaming" => work[r[1]].said = "stranded" \/ (a = wallet.address /\ r \in Open)
    /\ row.st = "inflight" => a = wallet.address /\ r = active
    /\ row.st = "waiting" => a = wallet.address /\ r = pending.row
    /\ row.st # "closed" => row.text = ""

RowsFit == \A a \in Addresses : \A r \in DOMAIN transcript[a] : RowFits(a, r)

(* What is open, and what the card asks for, is on display.                 *)
OnDisplay ==
    /\ \A r \in Open : r \in DOMAIN Visible /\ Visible[r].st = "streaming"
    /\ pending # NoCard => pending.row \in DOMAIN Visible /\ Visible[pending.row].st = "waiting"

(* What the row of an approved transaction says.                            *)
RowsAreTold ==
    \A w \in Ids, a \in Addresses : work[w].kind = "confirm" /\ work[w].row \in DOMAIN transcript[a] =>
        /\ transcript[a][work[w].row].text # "unsubmitted"
        /\ work[w].said = "outcome" => transcript[a][work[w].row].text = "outcome"
                                       /\ transcript[a][work[w].row].st = "closed"

Display == RowsFit /\ OnDisplay /\ RowsAreTold

ChatInv == StoreTyped /\ Authority /\ Display

Files ==
    /\ payload # 0 => attached[payload] = wallet.address
    /\ attaching # Idle => attaching <= epoch /\ Len(attached) > 0
    /\ attaching = epoch => attached[Len(attached)] = wallet.address
    /\ pending # NoCard => pending.payload \in 0..Len(attached)
    /\ pending # NoCard /\ pending.payload # 0 => attached[pending.payload] = pending.wallet
    /\ \A w \in Ids : /\ work[w].payload \in 0..Len(attached)
                      /\ work[w].payload # 0 => attached[work[w].payload] = work[w].wallet

Cached ==
    /\ cache # NotCached => cache = dispatches
    /\ controller # 0 /\ work[controller].pc \in {"tool", "query"} => work[controller].seen = dispatches

-----------------------------------------------------------------------------
(* First and Newest.                                                        *)
LEMMA LessIsWellFounded == IsWellFoundedOn({p \in Nat \X Nat : p[1] < p[2]}, Nat)
<1>1. OpToRel(<, Nat) = {p \in Nat \X Nat : p[1] < p[2]}
    BY DEF OpToRel
<1>2. QED
    BY <1>1, NatLessThanWellFounded

LEMMA HasLeast ==
    ASSUME NEW s \in SUBSET Nat, s # {}
    PROVE  \E i \in s : \A j \in s : i <= j
<1> DEFINE R == {p \in Nat \X Nat : p[1] < p[2]}
<1>1. \A i, j \in Nat : <<j, i>> \in R <=> j < i
    OBVIOUS
<1>2. IsWellFoundedOn(R, Nat)
    BY LessIsWellFounded
<1> HIDE DEF R
<1>3. PICK i \in s : \A j \in s : <<j, i>> \notin R
    BY <1>2, WFMin
<1>4. \A j \in s : ~(j < i) /\ i \in Nat /\ j \in Nat
    BY <1>1, <1>3
<1>5. \A j \in s : i <= j
    BY <1>4
<1>6. QED
    BY <1>5

LEMMA FirstIsIn ==
    ASSUME NEW s \in SUBSET Nat, s # {}
    PROVE  First(s) \in s
BY HasLeast DEF First

LEMMA NewestIsIn ==
    ASSUME NEW n \in Nat, NEW s \in SUBSET (1..n), s # {}
    PROVE  Newest(s) \in s
<1> DEFINE mirrored == {k \in 0..n : n - k \in s}
<1>1. mirrored \in SUBSET Nat /\ mirrored # {}
    <2>1. PICK i \in s : TRUE
        OBVIOUS
    <2>2. i \in 1..n
        OBVIOUS
    <2>3. n - i \in 0..n /\ n - (n - i) = i
        BY <2>2
    <2>4. n - i \in mirrored
        BY <2>1, <2>3
    <2>5. mirrored \subseteq Nat
        BY SMT
    <2>6. QED
        BY <2>4, <2>5
<1>2. PICK k \in mirrored : \A l \in mirrored : k <= l
    BY <1>1, HasLeast
<1>3. n - k \in s /\ k \in 0..n
    BY <1>2
<1>4. ASSUME NEW j \in s PROVE j <= n - k
    <2>1. j \in 1..n /\ n - j \in 0..n /\ n - (n - j) = j
        OBVIOUS
    <2>2. n - j \in mirrored
        BY <2>1
    <2>3. k <= n - j
        BY <1>2, <2>2
    <2>4. QED
        BY ONLY <1>3, <2>1, <2>3, n \in Nat
<1>5. QED
    BY <1>3, <1>4 DEF Newest

-----------------------------------------------------------------------------
(* Rows and pieces of work.                                                 *)
RowsTyped(rows) == \A r \in DOMAIN rows : r \in RowIds /\ rows[r] \in Entries

LEMMA CloseShape ==
    ASSUME NEW rows, RowsTyped(rows), NEW S, NEW text \in Texts
    PROVE  /\ RowsTyped(Close(rows, S, text)) /\ DOMAIN Close(rows, S, text) = DOMAIN rows
           /\ \A r \in DOMAIN rows :
                /\ r \in S => Close(rows, S, text)[r].st = "closed" /\ Close(rows, S, text)[r].text = text
                              /\ Close(rows, S, text)[r].calls = rows[r].calls
                /\ r \notin S => Close(rows, S, text)[r] = rows[r]
BY DEF RowsTyped, Close, Entries, States

LEMMA AddShape ==
    ASSUME NEW rows, RowsTyped(rows), NEW r \in RowIds, NEW row \in Entries
    PROVE  /\ RowsTyped(Add(rows, r, row)) /\ DOMAIN Add(rows, r, row) = DOMAIN rows \cup {r}
           /\ Add(rows, r, row)[r] = row
           /\ \A x \in DOMAIN rows \ {r} : Add(rows, r, row)[x] = rows[x]
BY DEF RowsTyped, Add

LEMMA AwaitShape ==
    ASSUME NEW rows, RowsTyped(rows), NEW r
    PROVE  /\ RowsTyped(Await(rows, r)) /\ DOMAIN Await(rows, r) = DOMAIN rows
           /\ r \in DOMAIN rows => Await(rows, r)[r].st = "waiting" /\ Await(rows, r)[r].text = rows[r].text
           /\ \A x \in DOMAIN rows \ {r} : Await(rows, r)[x] = rows[x]
BY DEF RowsTyped, Await, Entries, States

LEMMA SpinningShape ==
    ASSUME NEW n \in Nat
    PROVE  Spinning(n) \in Entries /\ Spinning(n).st = "streaming" /\ Spinning(n).text = ""
BY DEF Spinning, Entries, States, Texts

LEMMA RowShape ==
    ASSUME StoreTyped, NEW w \in Ids, NEW n \in Nat
    PROVE  Row(w, n) \in RowIds /\ Row(w, n)[1] = w /\ Row(w, n)[3] = n
<1>1. work[w] \in Items /\ w \in Nat
    BY DEF StoreTyped, Ids
<1>2. work[w].turn \in Nat
    BY <1>1 DEF Items
<1>3. QED
    BY <1>1, <1>2 DEF Row, RowIds

LEMMA RowOfWork ==
    ASSUME NEW r, r[1] \in Ids
    PROVE  r # NoRow
BY DEF NoRow, Ids

LEMMA VisibleTyped ==
    ASSUME StoreTyped
    PROVE  wallet.address \in Addresses /\ wallet.gen \in Nat /\ wallet.client \in BOOLEAN /\ RowsTyped(Visible)
BY DEF StoreTyped, Visible, RowsTyped

LEMMA ItemShape ==
    ASSUME NEW i \in Items
    PROVE  /\ i.kind \in Kinds /\ i.pc \in Stages /\ i.epoch \in Nat /\ i.aborted \in BOOLEAN /\ i.wallet \in Addresses
           /\ i.gen \in Nat /\ i.turn \in Nat /\ i.calls \in Seq(Tools) /\ i.at \in Nat /\ i.collected \in SUBSET Nat
           /\ i.row \in RowIds /\ i.payload \in Nat /\ i.seen \in Nat
           /\ i.said \in {"", "card", "answer", "stranded", "outcome"}
BY DEF Items

LEMMA OverShape ==
    ASSUME NEW i \in Items
    PROVE  /\ Over(i) \in Items /\ Over(i).pc = "done" /\ Over(i).epoch = 0 /\ Over(i).collected = {}
           /\ Over(i).kind = i.kind /\ Over(i).wallet = i.wallet /\ Over(i).gen = i.gen /\ Over(i).row = i.row
           /\ Over(i).payload = i.payload /\ Over(i).said = i.said /\ Over(i).turn = i.turn
<1> DEFINE ended == [i EXCEPT !.pc = "done", !.epoch = 0]
           emptied == [ended EXCEPT !.aborted = FALSE, !.calls = <<>>]
           reset == [emptied EXCEPT !.at = 0, !.collected = {}, !.seen = 0]
<1>1. Over(i) = reset
    BY DEF Over
<1>2. <<>> \in Seq(Tools) /\ {} \in SUBSET Nat
    OBVIOUS
<1>3. ended \in Items
    BY DEF Items, Stages
<1> HIDE DEF ended
<1>4. emptied \in Items
    BY <1>2, <1>3 DEF Items
<1> HIDE DEF emptied
<1>5. reset \in Items
    BY <1>2, <1>4 DEF Items
<1>6. QED
    BY <1>1, <1>5 DEF Over, Items

LEMMA StartedShape ==
    ASSUME StoreTyped, NEW kind \in Kinds, NEW pc \in Stages
    PROVE  /\ Started(kind, pc) \in Items /\ Started(kind, pc).kind = kind /\ Started(kind, pc).pc = pc
           /\ Started(kind, pc).epoch = epoch /\ Started(kind, pc).wallet = wallet.address
           /\ Started(kind, pc).gen = wallet.gen /\ Started(kind, pc).turn = 1
           /\ Started(kind, pc).collected = {} /\ Started(kind, pc).row = NoRow /\ Started(kind, pc).payload = 0
           /\ Started(kind, pc).seen = dispatches /\ Started(kind, pc).said = "" /\ ~Started(kind, pc).aborted
<1>1. <<>> \in Seq(Tools) /\ {} \in SUBSET Nat /\ NoRow \in RowIds
    BY DEF NoRow, RowIds
<1>2. wallet.address \in Addresses /\ wallet.gen \in Nat /\ epoch \in Nat /\ dispatches \in Nat
    BY DEF StoreTyped
<1>3. Started(kind, pc) \in Items
    BY <1>1, <1>2 DEF Started, Items
<1>4. QED
    BY <1>3 DEF Started

LEMMA WorkShape ==
    ASSUME StoreTyped
    PROVE  /\ Len(work) \in Nat /\ \A w \in Ids : work[w] \in Items /\ w \in Nat \ {0}
           /\ controller # 0 => controller \in Ids
BY DEF StoreTyped, Ids

LEMMA Replaced ==
    ASSUME StoreTyped, NEW w \in Ids, NEW item \in Items, work' = [work EXCEPT ![w] = item]
    PROVE  /\ work' \in Seq(Items) /\ Len(work') = Len(work) /\ Ids' = Ids
           /\ work'[w] = item /\ \A v \in Ids \ {w} : work'[v] = work[v]
<1>1. work \in Seq(Items) /\ w \in 1..Len(work)
    BY DEF StoreTyped, Ids
<1>2. QED
    BY <1>1 DEF Ids

LEMMA Appended ==
    ASSUME StoreTyped, NEW item \in Items, work' = Append(work, item)
    PROVE  /\ work' \in Seq(Items) /\ Len(work') = Len(work) + 1 /\ Ids' = Ids \cup {Len(work) + 1}
           /\ Len(work) + 1 \notin Ids /\ Len(work) + 1 # 0
           /\ work'[Len(work) + 1] = item /\ \A v \in Ids : work'[v] = work[v]
<1>1. work \in Seq(Items) /\ Len(work) \in Nat
    BY DEF StoreTyped
<1>2. QED
    BY <1>1 DEF Ids

(* The owner: the one piece of work of this epoch.                          *)
LEMMA Owner ==
    ASSUME ChatInv, NEW w \in Ids, Owns(w)
    PROVE  /\ controller = w /\ controller # 0 /\ ~Done(w) /\ work[w].epoch = epoch /\ work[w] \in Items
           /\ OfContext(work[w]) /\ Stage(work[w]) /\ (Approved(work[w]) => wallet.client)
           /\ work[w].pc # "replan" => pending = NoCard
           /\ ~Runs(work[w]) => active = NoRow
           /\ work[w].said # "stranded"
<1>1. controller = w /\ controller # 0 /\ ~Done(w) /\ work[w].epoch = epoch /\ work[w] \in Items
    BY WorkShape DEF ChatInv, Authority, OwnerActs, Owns
<1>2. QED
    BY <1>1 DEF ChatInv, Authority, OwnerActs, CardStands, Stage, Done

-----------------------------------------------------------------------------
(* What every step but a change of wallet does to what is there already:    *)
(* work keeps its identity, and once it is over it stays over.              *)
Kept ==
    \A v \in Ids : /\ v \in Ids' /\ work'[v].kind = work[v].kind /\ work'[v].wallet = work[v].wallet
                   /\ work'[v].gen = work[v].gen /\ work'[v].row = work[v].row
                   /\ Done(v) => work'[v].pc = "done" /\ work'[v].said = work[v].said

(* A row of the visible transcript after a step: as it was, or accounted    *)
(* for by the work, the transaction or the card there is now.               *)
Explained(rows, r) ==
    \/ /\ r \in DOMAIN Visible /\ rows[r] = Visible[r]
       /\ r \in Open => r \in Open'
       /\ r = active => r = active'
       /\ r = pending.row => r = pending'.row
    \/ /\ r \in DOMAIN Visible \/ (r[1] \in Ids' /\ work'[r[1]].wallet = wallet.address)
       /\ rows[r].st = "streaming" => r \in Open' \/ work'[r[1]].said = "stranded"
       /\ rows[r].st = "inflight" => r = active'
       /\ rows[r].st = "waiting" => r = pending'.row
       /\ rows[r].st # "closed" => rows[r].text = ""

LEMMA ShowShape ==
    ASSUME StoreTyped, wallet' = wallet, NEW rows, Show(rows)
    PROVE  /\ DOMAIN transcript' = Addresses /\ transcript'[wallet.address] = rows /\ Visible' = rows
           /\ \A a \in Addresses \ {wallet.address} : transcript'[a] = transcript[a]
BY VisibleTyped DEF StoreTyped, Show, Visible

LEMMA Redrawn ==
    ASSUME ChatInv, Kept, wallet' = wallet, NEW rows, Show(rows), \A r \in DOMAIN rows : Explained(rows, r)
    PROVE  RowsFit'
<1>1. /\ DOMAIN transcript' = Addresses /\ transcript'[wallet.address] = rows
      /\ \A a \in Addresses \ {wallet.address} : transcript'[a] = transcript[a]
    BY ShowShape DEF ChatInv
<1>2. \A v \in Ids : work[v].said = "stranded" => Done(v)
    BY DEF ChatInv, Authority, OwnerActs, Stage, Done
<1>3. ASSUME NEW a \in Addresses, a # wallet.address, NEW r \in DOMAIN transcript[a]
      PROVE  RowFits(a, r)'
    <2>1. RowFits(a, r)
        BY DEF ChatInv, Display, RowsFit
    <2>2. transcript'[a] = transcript[a]
        BY <1>1, <1>3
    <2>3. QED
        BY <1>2, <1>3, <2>1, <2>2 DEF RowFits, Kept
<1>4. ASSUME NEW r \in DOMAIN rows
      PROVE  RowFits(wallet.address, r)'
    <2>1. CASE r \in DOMAIN Visible /\ RowFits(wallet.address, r)
        BY <1>1, <1>2, <1>4, <2>1 DEF RowFits, Kept, Explained, Visible
    <2>2. r \in DOMAIN Visible => RowFits(wallet.address, r)
        BY VisibleTyped DEF ChatInv, Display, RowsFit, Visible
    <2>3. CASE r \notin DOMAIN Visible
        BY <1>1, <1>4, <2>3 DEF RowFits, Explained
    <2>4. QED
        BY <2>1, <2>2, <2>3
<1>5. QED
    BY <1>1, <1>3, <1>4, VisibleTyped DEF RowsFit, ChatInv

LEMMA Retold ==
    ASSUME ChatInv, Kept, wallet' = wallet, NEW rows, Show(rows),
           \A v \in Ids : work'[v].said = work[v].said \/ work[v].wallet = wallet.address,
           \A v \in Ids' \ Ids : work'[v].kind = "confirm" =>
               \A a \in Addresses \ {wallet.address} : work'[v].row \notin DOMAIN transcript[a],
           \A v \in Ids' : work'[v].kind = "confirm" /\ work'[v].row \in DOMAIN rows =>
               \/ /\ v \in Ids /\ work'[v].said = work[v].said
                  /\ work'[v].row \in DOMAIN Visible /\ rows[work'[v].row] = Visible[work'[v].row]
               \/ /\ rows[work'[v].row].text # "unsubmitted"
                  /\ work'[v].said = "outcome" => rows[work'[v].row].text = "outcome"
                                                  /\ rows[work'[v].row].st = "closed"
    PROVE  RowsAreTold'
<1>1. /\ transcript'[wallet.address] = rows
      /\ \A a \in Addresses \ {wallet.address} : transcript'[a] = transcript[a]
    BY ShowShape DEF ChatInv
<1>2. \A v \in Ids : work[v].kind = "confirm" => work[work[v].row[1]].wallet = work[v].wallet
    BY DEF ChatInv, Authority, UsedOnce, OfDone
<1>3. ASSUME NEW a \in Addresses, NEW r \in DOMAIN transcript[a]
      PROVE  work[r[1]].wallet = a
    <2>1. RowFits(a, r)
        BY DEF ChatInv, Display, RowsFit
    <2>2. QED
        BY <2>1 DEF RowFits
<1>4. SUFFICES ASSUME NEW w \in Ids', NEW a \in Addresses, work'[w].kind = "confirm",
                      work'[w].row \in DOMAIN transcript'[a]
               PROVE  /\ transcript'[a][work'[w].row].text # "unsubmitted"
                      /\ work'[w].said = "outcome" => transcript'[a][work'[w].row].text = "outcome"
                                                      /\ transcript'[a][work'[w].row].st = "closed"
    BY DEF RowsAreTold
<1>5. w \in Ids => /\ work[w].kind = "confirm" /\ work[w].row = work'[w].row
    BY <1>4 DEF Kept
<1>6. RowsAreTold
    BY DEF ChatInv, Display
<1>7. CASE a = wallet.address /\ w \in Ids
    BY <1>1, <1>4, <1>5, <1>6, <1>7 DEF RowsAreTold, Visible
<1>8. CASE a = wallet.address /\ w \notin Ids
    BY <1>1, <1>4, <1>8
<1>9. CASE a # wallet.address
    <2>1. w \in Ids /\ transcript'[a] = transcript[a]
        BY <1>1, <1>4, <1>9
    <2>2. work'[w].said = work[w].said
        BY <1>2, <1>3, <1>4, <1>5, <1>9, <2>1
    <2>3. QED
        BY <1>4, <1>5, <1>6, <2>1, <2>2 DEF RowsAreTold
<1>10. QED
    BY <1>7, <1>8, <1>9

LEMMA StillUsedOnce ==
    ASSUME ChatInv, Kept, submitted' = submitted,
           \A v \in Ids' \ Ids : work'[v].kind \notin {"confirm", "replan"},
           \/ pending' = NoCard
           \/ pending # NoCard /\ pending'.row = pending.row
           \/ pending'.row[1] \notin Ids
           \/ pending'.row[1] \in Ids /\ ~Done(pending'.row[1])
    PROVE  UsedOnce'
<1>1. UsedOnce
    BY DEF ChatInv, Authority
<1>2. ASSUME NEW w \in Ids', work'[w].kind \in {"confirm", "replan"}
      PROVE  OfDone(work[w])' /\ w \in Ids /\ work[w].kind = work'[w].kind /\ work[w].row = work'[w].row
             /\ Done(work[w].row[1]) /\ work[w].row[1] \in Ids
    <2>1. w \in Ids
        BY <1>2
    <2>2. work[w].kind = work'[w].kind /\ work[w].row = work'[w].row /\ work[w].wallet = work'[w].wallet
          /\ work[w].gen = work'[w].gen
        BY <2>1 DEF Kept
    <2>3. OfDone(work[w])
        BY <1>1, <1>2, <2>1, <2>2 DEF UsedOnce
    <2>4. QED
        BY <2>1, <2>2, <2>3 DEF OfDone, Kept, Done
<1>3. ASSUME NEW w \in Ids', work'[w].kind = "confirm"
      PROVE  pending' # NoCard => work'[w].row # pending'.row
    BY <1>1, <1>2, <1>3 DEF UsedOnce
<1>4. ASSUME NEW w \in Ids', work'[w].kind = "confirm"
      PROVE  \A v \in Ids' : work'[v].kind = "confirm" /\ work'[v].row = work'[w].row => v = w
    BY <1>1, <1>2, <1>4 DEF UsedOnce
<1>5. ASSUME NEW s \in submitted
      PROVE  \E w \in Ids' : /\ work'[w].kind = "confirm" /\ work'[w].row = s.row
                             /\ work'[s.row[1]].wallet = s.address /\ work'[s.row[1]].gen = s.gen
    <2>1. PICK w \in Ids : /\ work[w].kind = "confirm" /\ work[w].row = s.row
                           /\ work[s.row[1]].wallet = s.address /\ work[s.row[1]].gen = s.gen
        BY <1>1 DEF UsedOnce
    <2>2. s.row[1] \in Ids
        BY <1>1, <2>1 DEF UsedOnce, OfDone
    <2>3. QED
        BY <2>1, <2>2 DEF Kept
<1>6. QED
    BY <1>2, <1>3, <1>4, <1>5 DEF UsedOnce

-----------------------------------------------------------------------------
(* The owner of the chat, when it is neither running a transaction nor      *)
(* planning behind a card: there is no card and no active transaction, and  *)
(* what it shows and resolves are its own rows.                             *)
Same(i, j) == i.kind = j.kind /\ i.wallet = j.wallet /\ i.gen = j.gen /\ i.row = j.row

OnlyOf(w, rows) == \A r \in DOMAIN rows : r[1] # w => r \in DOMAIN Visible /\ rows[r] = Visible[r]

Settled(w, rows, open, card) ==
    \A r \in DOMAIN rows : r[1] = w =>
        \/ rows[r].st = "closed"
        \/ rows[r].text = "" /\ rows[r].st = "streaming" /\ r \in open
        \/ rows[r].text = "" /\ rows[r].st = "waiting" /\ r = card

CardOn(w, rows) ==
    /\ pending' \in Cards /\ wallet.client
    /\ pending'.row[1] = w /\ pending'.wallet = work[w].wallet /\ pending'.gen = work[w].gen
    /\ pending'.row \in DOMAIN rows /\ rows[pending'.row].st = "waiting"

LEMMA OpenOfOwner ==
    ASSUME ChatInv, NEW r \in Open
    PROVE  controller # 0 /\ r[1] = controller /\ r[2] = work[controller].turn
           /\ r[3] \in OpenAt(work[controller]) /\ r = Row(controller, r[3])
BY DEF Open, Row

LEMMA Bystander ==
    ASSUME ChatInv, NEW w \in Ids, Owns(w), ~Runs(work[w]), work[w].pc # "replan", NEW r \in DOMAIN Visible
    PROVE  /\ r \in RowIds /\ r[1] \in Ids /\ r # NoRow /\ r # active /\ r # pending.row
           /\ work[r[1]].wallet = wallet.address
           /\ r[1] # w => r \notin Open
           /\ r[1] = w /\ r \notin Open => Visible[r].st = "closed"
<1>1. RowFits(wallet.address, r) /\ r \in DOMAIN transcript[wallet.address]
    BY VisibleTyped DEF ChatInv, Display, RowsFit, Visible
<1>2. r \in RowIds /\ Visible[r] \in Entries
    BY VisibleTyped DEF ChatInv, RowsTyped
<1>3. controller = w /\ pending = NoCard /\ active = NoRow /\ work[w].said # "stranded"
    BY Owner
<1>4. r[1] \in Ids /\ work[r[1]].wallet = wallet.address
    BY <1>1 DEF RowFits
<1>5. r # NoRow
    BY <1>4 DEF NoRow, Ids
<1>6. r[1] # w => r \notin Open
    BY <1>3, OpenOfOwner
<1>7. ASSUME r[1] = w, r \notin Open
      PROVE  Visible[r].st = "closed"
    <2>1. Visible[r].st # "streaming" /\ Visible[r].st # "waiting" /\ Visible[r].st # "inflight"
        BY <1>1, <1>3, <1>5, <1>7 DEF RowFits, Visible, NoCard
    <2>2. QED
        BY <1>2, <2>1 DEF Entries, States
<1>8. QED
    BY <1>2, <1>3, <1>4, <1>5, <1>6, <1>7 DEF NoCard

(* Whatever the owner does, short of a transaction, keeps the transcripts.  *)
LEMMA OwnerDraws ==
    ASSUME ChatInv, NEW w \in Ids, Owns(w), ~Runs(work[w]), work[w].pc # "replan",
           Kept, Ids' = Ids, \A v \in Ids \ {w} : work'[v].said = work[v].said,
           work'[w].kind = "confirm" => work'[w].said = work[w].said,
           NEW rows, Show(rows), wallet' = wallet, OnlyOf(w, rows),
           NEW open, Settled(w, rows, open, pending'.row), open \subseteq Open' \/ work'[w].said = "stranded",
           \A r \in Open' : r \in DOMAIN rows /\ rows[r].st = "streaming",
           pending' # NoCard => pending'.row \in DOMAIN rows /\ rows[pending'.row].st = "waiting"
    PROVE  Display'
<1>1. OfContext(work[w]) /\ ~Done(w)
    BY Owner
<1>2. ASSUME NEW r \in DOMAIN rows
      PROVE  Explained(rows, r)
    <2>1. CASE r[1] # w
        <3>1. r \in DOMAIN Visible /\ rows[r] = Visible[r]
            BY <1>2, <2>1 DEF OnlyOf
        <3>2. r \notin Open /\ r # active /\ r # pending.row
            BY <2>1, <3>1, Bystander
        <3>3. QED
            BY <3>1, <3>2 DEF Explained
    <2>2. CASE r[1] = w
        <3>1. r[1] \in Ids' /\ work'[r[1]].wallet = wallet.address
            BY <1>1, <2>2 DEF Kept, OfContext
        <3>2. \/ rows[r].st = "closed"
              \/ rows[r].text = "" /\ rows[r].st = "streaming" /\ r \in open
              \/ rows[r].text = "" /\ rows[r].st = "waiting" /\ r = pending'.row
            BY <1>2, <2>2 DEF Settled
        <3>3. QED
            BY <2>2, <3>1, <3>2 DEF Explained
    <2>3. QED
        BY <2>1, <2>2
<1>3. RowsFit'
    BY <1>2, Redrawn
<1>4. RowsAreTold'
    <2>1. \A v \in Ids : work'[v].said = work[v].said \/ work[v].wallet = wallet.address
        BY <1>1 DEF OfContext
    <2>2. ASSUME NEW v \in Ids', work'[v].kind = "confirm", work'[v].row \in DOMAIN rows
          PROVE  v \in Ids /\ work'[v].said = work[v].said
                 /\ work'[v].row \in DOMAIN Visible /\ rows[work'[v].row] = Visible[work'[v].row]
        <3>1. v \in Ids /\ work[v].kind = "confirm" /\ work'[v].row = work[v].row
            BY <2>2 DEF Kept
        <3>2. OfDone(work[v])
            BY <3>1 DEF ChatInv, Authority, UsedOnce
        <3>3. work'[v].row[1] # w
            BY <1>1, <3>1, <3>2 DEF OfDone
        <3>4. QED
            BY <2>2, <3>1, <3>3 DEF OnlyOf
    <2>3. QED
        BY <2>1, <2>2, Retold
<1>5. Visible' = rows
    BY ShowShape DEF ChatInv
<1>6. OnDisplay'
    BY <1>5 DEF OnDisplay
<1>7. QED
    BY <1>3, <1>4, <1>6 DEF Display

(* When work leaves the chat nobody has it, and the work is over.           *)
LEMMA Freed ==
    ASSUME ChatInv, NEW w \in Ids, Owns(w), NEW item \in Items, Same(item, work[w]), NEW rows, Release(w, item, rows),
           UNCHANGED <<wallet, epoch>>
    PROVE  /\ work' \in Seq(Items) /\ Len(work') = Len(work) /\ Ids' = Ids
           /\ work'[w] = Over(item) /\ work'[w].pc = "done" /\ work'[w].said = item.said
           /\ \A v \in Ids \ {w} : work'[v] = work[v]
           /\ Kept /\ OwnerActs' /\ Open' = {}
<1>1. controller = w /\ ~Done(w)
    BY Owner
<1>2. /\ Over(item) \in Items /\ Over(item).pc = "done" /\ Over(item).epoch = 0 /\ Over(item).collected = {}
      /\ Over(item).kind = item.kind /\ Over(item).wallet = item.wallet /\ Over(item).gen = item.gen
      /\ Over(item).row = item.row /\ Over(item).said = item.said
    BY OverShape
<1>3. /\ work' \in Seq(Items) /\ Len(work') = Len(work) /\ Ids' = Ids
      /\ work'[w] = Over(item) /\ \A v \in Ids \ {w} : work'[v] = work[v]
    BY <1>2, Replaced DEF Release, ChatInv
<1>4. Kept
    BY <1>1, <1>2, <1>3 DEF Kept, Same, Done
<1>5. OwnerActs'
    <2>1. ASSUME NEW v \in Ids
          PROVE  work'[v].epoch <= epoch /\ Stage(work'[v]) /\ (work'[v].pc = "done" \/ work'[v].epoch # epoch)
        <3>1. CASE v = w
            <4>1. work'[v] = Over(item) /\ epoch \in Nat
                BY <1>3, <3>1 DEF ChatInv, StoreTyped
            <4>2. Stage(Over(item))
                BY <1>2 DEF Stage, Runs
            <4>3. QED
                BY <1>2, <4>1, <4>2
        <3>2. CASE v # w
            BY <1>1, <1>3, <3>2 DEF ChatInv, Authority, OwnerActs, Done
        <3>3. QED
            BY <3>1, <3>2
    <2>2. \A v \in Ids : v # 0
        BY DEF Ids
    <2>3. QED
        BY <1>3, <2>1, <2>2 DEF OwnerActs, Release, Done
<1>6. Open' = {}
    BY DEF Open, Release
<1>7. QED
    BY <1>2, <1>3, <1>4, <1>5, <1>6

(* The owner leaves the chat: its work is over, with or without a card.     *)
LEMMA OwnerEnds ==
    ASSUME ChatInv, NEW w \in Ids, Owns(w), ~Runs(work[w]), work[w].pc # "replan",
           NEW item \in Items, Same(item, work[w]), item.kind = "confirm" => item.said = work[w].said,
           NEW rows, RowsTyped(rows), Release(w, item, rows), OnlyOf(w, rows),
           NEW open, Settled(w, rows, open, pending'.row), open = {} \/ item.said = "stranded",
           pending' = NoCard \/ CardOn(w, rows), active' = NoRow, payload' \in {payload, 0},
           UNCHANGED <<wallet, epoch, attaching, attached, submitted, dispatches>>
    PROVE  ChatInv'
<1>1. controller = w /\ ~Done(w) /\ OfContext(work[w]) /\ pending = NoCard /\ active = NoRow
    BY Owner
<1>2. /\ work' \in Seq(Items) /\ Len(work') = Len(work) /\ Ids' = Ids
      /\ work'[w].pc = "done" /\ work'[w].said = item.said /\ \A v \in Ids \ {w} : work'[v] = work[v]
      /\ Kept /\ OwnerActs' /\ Open' = {}
    BY Freed
<1>3. pending' = NoCard \/ pending' \in Cards
    BY DEF CardOn
<1>4. StoreTyped'
    <2>1. DOMAIN transcript' = Addresses /\ \A a \in Addresses : RowsTyped(transcript'[a])
        BY ShowShape DEF ChatInv, Release, StoreTyped, RowsTyped
    <2>2. NoRow \in RowIds
        BY DEF NoRow, RowIds
    <2>3. StoreTyped
        BY DEF ChatInv
    <2>4. payload' \in 0..Len(attached) /\ streaming' = FALSE /\ controller' \in 0..Len(work)
        BY <2>3 DEF StoreTyped, Release
    <2>5. QED
        BY <1>2, <1>3, <2>1, <2>2, <2>3, <2>4 DEF StoreTyped, RowsTyped
<1>5. Authority'
    <2>1. CardStands'
        BY <1>1, <1>2 DEF CardStands, CardOn, Current, OfDone, OfContext, Release, Done, Kept
    <2>2. UsedOnce'
        BY <1>1, <1>2, StillUsedOnce DEF CardOn
    <2>3. QED
        BY <1>2, <2>1, <2>2 DEF Authority
<1>6. Display'
    <2>1. Show(rows)
        BY DEF Release
    <2>2. work'[w].kind = "confirm" => work'[w].said = work[w].said
        BY <1>2 DEF Same, Kept
    <2>3. QED
        BY <1>2, <2>1, <2>2, OwnerDraws DEF CardOn
<1>7. QED
    BY <1>4, <1>5, <1>6 DEF ChatInv

(* The owner goes on: it still has the chat, and what it waits for next is  *)
(* on display.                                                              *)
LEMMA OwnerGoesOn ==
    ASSUME ChatInv, NEW w \in Ids, Owns(w), ~Runs(work[w]), work[w].pc # "replan",
           NEW item \in Items, Same(item, work[w]), item.epoch = epoch, item.kind # "confirm",
           Stage(item), item.pc \notin {"done", "replan", "execute", "sent"}, Approved(item) => wallet.client,
           NEW rows, RowsTyped(rows), Proceed(w, item, rows), OnlyOf(w, rows),
           Settled(w, rows, Open', NoRow), \A r \in Open' : r \in DOMAIN rows /\ rows[r].st = "streaming",
           UNCHANGED <<pending, active, wallet, epoch, attaching, attached, submitted, dispatches>>
    PROVE  ChatInv'
<1>1. controller = w /\ ~Done(w) /\ OfContext(work[w]) /\ pending = NoCard /\ active = NoRow
    BY Owner
<1>2. /\ work' \in Seq(Items) /\ Len(work') = Len(work) /\ Ids' = Ids
      /\ work'[w] = item /\ \A v \in Ids \ {w} : work'[v] = work[v]
    BY Replaced DEF Proceed, ChatInv
<1>3. Kept
    BY <1>1, <1>2 DEF Kept, Same, Done
<1>4. StoreTyped'
    <2>1. DOMAIN transcript' = Addresses /\ \A a \in Addresses : RowsTyped(transcript'[a])
        BY ShowShape DEF ChatInv, Proceed, StoreTyped, RowsTyped
    <2>2. QED
        BY <1>2, <2>1 DEF ChatInv, StoreTyped, RowsTyped, Proceed
<1>5. Authority'
    <2>1. OwnerActs'
        <3>1. ASSUME NEW v \in Ids
              PROVE  work'[v].epoch <= epoch /\ Stage(work'[v])
                     /\ ((work'[v].pc # "done" /\ work'[v].epoch = epoch) <=> v = w)
            <4>1. CASE v = w
                BY <1>2, <4>1 DEF ChatInv, StoreTyped
            <4>2. CASE v # w
                BY <1>1, <1>2, <4>2 DEF ChatInv, Authority, OwnerActs, Done
            <4>3. QED
                BY <4>1, <4>2
        <3>2. streaming <=> controller # 0
            BY DEF ChatInv, Authority, OwnerActs
        <3>3. QED
            BY <1>1, <1>2, <3>1, <3>2 DEF OwnerActs, Proceed, Done, Same, OfContext, Approved, Runs
    <2>2. CardStands'
        BY <1>1 DEF CardStands
    <2>3. UsedOnce'
        BY <1>1, <1>2, <1>3, StillUsedOnce
    <2>4. QED
        BY <2>1, <2>2, <2>3 DEF Authority
<1>6. Display'
    <2>1. Show(rows) /\ pending'.row = NoRow
        BY <1>1 DEF Proceed, NoCard
    <2>2. QED
        BY <1>1, <1>2, <1>3, <2>1, OwnerDraws DEF Same
<1>7. QED
    BY <1>4, <1>5, <1>6 DEF ChatInv

-----------------------------------------------------------------------------
(* What the owner's rows look like when it closes, cancels or adds some.    *)
LEMMA OwnerOpen ==
    ASSUME ChatInv, NEW w \in Ids, Owns(w)
    PROVE  /\ Open = {Row(w, n) : n \in OpenAt(work[w])}
           /\ \A r \in Open : r[1] = w /\ r \in DOMAIN Visible /\ Visible[r].st = "streaming"
<1>1. controller = w /\ controller # 0
    BY Owner
<1>2. QED
    BY <1>1, OpenOfOwner DEF Open, ChatInv, Display, OnDisplay

LEMMA ClosingSettles ==
    ASSUME ChatInv, NEW w \in Ids, Owns(w), ~Runs(work[w]), work[w].pc # "replan",
           NEW S, \A r \in S : r[1] = w, NEW text \in Texts, NEW card
    PROVE  /\ RowsTyped(Close(Visible, S, text)) /\ OnlyOf(w, Close(Visible, S, text))
           /\ Settled(w, Close(Visible, S, text), Open \ S, card)
<1> DEFINE rows == Close(Visible, S, text)
<1>1. RowsTyped(Visible)
    BY VisibleTyped DEF ChatInv
<1>2. /\ RowsTyped(rows) /\ DOMAIN rows = DOMAIN Visible
      /\ \A r \in DOMAIN Visible : /\ r \in S => rows[r].st = "closed"
                                   /\ r \notin S => rows[r] = Visible[r]
    BY <1>1, CloseShape
<1>3. ASSUME NEW r \in DOMAIN Visible, Visible[r].st = "streaming"
      PROVE  Visible[r].text = ""
    <2>1. RowFits(wallet.address, r)
        BY <1>3, VisibleTyped DEF ChatInv, Display, RowsFit, Visible
    <2>2. QED
        BY <1>3, <2>1 DEF RowFits, Visible
<1> HIDE DEF rows
<1>4. ASSUME NEW r \in DOMAIN rows, r[1] = w
      PROVE  rows[r].st = "closed" \/ (rows[r].text = "" /\ rows[r].st = "streaming" /\ r \in Open \ S)
    <2>1. CASE r \in S
        BY <1>2, <1>4, <2>1
    <2>2. CASE r \notin S /\ r \in Open
        BY <1>2, <1>3, <1>4, <2>2, OwnerOpen
    <2>3. CASE r \notin S /\ r \notin Open
        <3>1. r \in DOMAIN Visible /\ rows[r] = Visible[r]
            BY <1>2, <1>4, <2>3
        <3>2. Visible[r].st = "closed"
            BY <1>4, <2>3, <3>1, Bystander
        <3>3. QED
            BY <3>1, <3>2
    <2>4. QED
        BY <2>1, <2>2, <2>3
<1>5. OnlyOf(w, rows)
    BY <1>2 DEF OnlyOf
<1>6. Settled(w, rows, Open \ S, card)
    BY <1>4 DEF Settled
<1>7. QED
    BY <1>2, <1>5, <1>6 DEF rows

LEMMA OwnerCloses ==
    ASSUME ChatInv, NEW w \in Ids, Owns(w), ~Runs(work[w]), work[w].pc # "replan",
           NEW item \in Items, Same(item, work[w]), item.kind = "confirm" => item.said = work[w].said,
           NEW S, \A r \in S : r[1] = w, Open \subseteq S \/ item.said = "stranded",
           NEW text \in Texts, Release(w, item, Close(Visible, S, text)), payload' \in {payload, 0},
           pending' = pending, active' = active \/ active' = NoRow,
           UNCHANGED <<wallet, epoch, attaching, attached, submitted, dispatches>>
    PROVE  ChatInv'
<1>1. pending' = NoCard /\ active' = NoRow
    BY Owner
<1>2. /\ RowsTyped(Close(Visible, S, text)) /\ OnlyOf(w, Close(Visible, S, text))
      /\ Settled(w, Close(Visible, S, text), Open \ S, pending'.row)
    BY ClosingSettles
<1>3. Open \ S = {} \/ item.said = "stranded"
    OBVIOUS
<1>4. QED
    BY <1>1, <1>2, <1>3, OwnerEnds

LEMMA CancelShape ==
    ASSUME StoreTyped, NEW w \in Ids, NEW calls \in Seq(Tools), NEW rows, RowsTyped(rows)
    PROVE  /\ RowsTyped(CancelGroup(w, calls, rows))
           /\ DOMAIN CancelGroup(w, calls, rows) = DOMAIN rows \cup {Row(w, i) : i \in DOMAIN calls}
           /\ \A r \in DOMAIN CancelGroup(w, calls, rows) :
                \/ CancelGroup(w, calls, rows)[r].st = "closed" /\ r[1] = w
                \/ /\ r \in DOMAIN rows /\ CancelGroup(w, calls, rows)[r] = rows[r]
                   /\ rows[r].st # "streaming" \/ r \notin {Row(w, i) : i \in DOMAIN calls}
<1> DEFINE replies == {Row(w, i) : i \in DOMAIN calls}
           all == [x \in DOMAIN rows \cup replies |-> IF x \in DOMAIN rows THEN rows[x] ELSE Spinning(0)]
           out == [x \in DOMAIN all |-> IF x \in replies /\ all[x].st = "streaming"
                                          THEN [all[x] EXCEPT !.st = "closed", !.text = "notice"] ELSE all[x]]
<1>1. CancelGroup(w, calls, rows) = out
    BY DEF CancelGroup
<1>2. DOMAIN calls \subseteq Nat
    OBVIOUS
<1>3. \A r \in replies : r \in RowIds /\ r[1] = w
    BY <1>2, RowShape
<1> HIDE DEF replies
<1>4. /\ RowsTyped(all) /\ DOMAIN all = DOMAIN rows \cup replies
      /\ \A r \in DOMAIN all : r \in DOMAIN rows => all[r] = rows[r]
      /\ \A r \in DOMAIN all : r \notin DOMAIN rows => all[r].st = "streaming"
    BY <1>3, SpinningShape DEF RowsTyped
<1> HIDE DEF all
<1>5. /\ RowsTyped(out) /\ DOMAIN out = DOMAIN all
      /\ \A r \in DOMAIN all : IF r \in replies /\ all[r].st = "streaming" THEN out[r].st = "closed" ELSE out[r] = all[r]
    BY ZenonT(40), <1>4 DEF RowsTyped, Entries, States, Texts
<1> HIDE DEF out
<1>6. \A r \in DOMAIN out :
        \/ out[r].st = "closed" /\ r[1] = w
        \/ r \in DOMAIN rows /\ out[r] = rows[r] /\ (rows[r].st # "streaming" \/ r \notin replies)
    BY <1>3, <1>4, <1>5
<1>7. QED
    BY <1>1, <1>4, <1>5, <1>6 DEF replies

-----------------------------------------------------------------------------
(* The owner's steps.                                                       *)
LEMMA SaidTyped ==
    ASSUME NEW i \in Items, NEW said \in {"", "card", "answer", "stranded", "outcome"}
    PROVE  /\ [i EXCEPT !.said = said] \in Items /\ [i EXCEPT !.said = said].said = said
           /\ Same([i EXCEPT !.said = said], i) /\ [i EXCEPT !.said = said].epoch = i.epoch
           /\ [i EXCEPT !.said = said].pc = i.pc /\ [i EXCEPT !.said = said].collected = i.collected
           /\ [i EXCEPT !.said = said].calls = i.calls /\ [i EXCEPT !.said = said].at = i.at
           /\ [i EXCEPT !.said = said].turn = i.turn /\ [i EXCEPT !.said = said].payload = i.payload
BY DEF Items, Same

LEMMA ModelFailsStep ==
    ASSUME ChatInv, NEW w \in Ids, ModelFails(w)
    PROVE  ChatInv'
<1>1. Owns(w) /\ work[w].pc = "model" /\ work[w] \in Items /\ Same(work[w], work[w]) /\ "notice" \in Texts
    BY Owner DEF ModelFails, Same, Texts
<1>2. Open = {Row(w, 0)} /\ \A r \in {Row(w, 0)} : r[1] = w
    BY <1>1, OwnerOpen, RowShape DEF OpenAt, ChatInv
<1>3. Release(w, work[w], Close(Visible, {Row(w, 0)}, "notice")) /\ payload' \in {payload, 0}
    BY DEF ModelFails, EndTurn
<1>4. QED
    BY <1>1, <1>2, <1>3, OwnerCloses DEF ModelFails, Runs

LEMMA ModelAnswersStep ==
    ASSUME ChatInv, NEW w \in Ids, ModelAnswers(w)
    PROVE  ChatInv'
<1>1. /\ Owns(w) /\ work[w].pc = "model" /\ work[w] \in Items /\ Stage(work[w])
      /\ work[w].kind = "chat" \/ work[w].kind # "confirm"
    BY Owner DEF ModelAnswers, Stage
<1>2. work[w].kind # "confirm"
    BY <1>1 DEF Stage
<1>3. Open = {Row(w, 0)} /\ \A r \in {Row(w, 0)} : r[1] = w
    BY <1>1, OwnerOpen, RowShape DEF OpenAt, ChatInv
<1>4. PICK text \in Texts, said \in {"", "answer"} :
        /\ Release(w, [work[w] EXCEPT !.said = said], Close(Visible, {Row(w, 0)}, text))
        /\ payload' \in {payload, 0}
    BY DEF ModelAnswers, EndTurn, Texts
<1>5. [work[w] EXCEPT !.said = said] \in Items /\ Same([work[w] EXCEPT !.said = said], work[w])
    BY <1>1, SaidTyped
<1>6. QED
    BY <1>1, <1>2, <1>3, <1>4, <1>5, OwnerCloses DEF ModelAnswers, Runs, Same

LEMMA ToolStoppedStep ==
    ASSUME ChatInv, NEW w \in Ids, ToolStopped(w)
    PROVE  ChatInv'
<1> DEFINE rows == CancelGroup(w, work[w].calls, Visible)
<1>1. /\ Owns(w) /\ work[w].pc = "tool" /\ work[w] \in Items /\ Same(work[w], work[w]) /\ Stage(work[w])
      /\ pending = NoCard
    BY Owner DEF ToolStopped, Same
<1>2. work[w].calls \in Seq(Tools)
    BY <1>1, ItemShape
<1>3. /\ RowsTyped(rows)
      /\ \A r \in DOMAIN rows :
           \/ rows[r].st = "closed" /\ r[1] = w
           \/ /\ r \in DOMAIN Visible /\ rows[r] = Visible[r]
              /\ Visible[r].st # "streaming" \/ r \notin {Row(w, i) : i \in DOMAIN work[w].calls}
    <2>1. StoreTyped /\ RowsTyped(Visible)
        BY VisibleTyped DEF ChatInv
    <2>2. QED
        BY ONLY <1>2, <2>1, w \in Ids, CancelShape
<1>4. Open \subseteq {Row(w, i) : i \in DOMAIN work[w].calls}
    <2>1. OpenAt(work[w]) \subseteq DOMAIN work[w].calls
        BY <1>1, <1>2 DEF Stage, OpenAt
    <2>2. QED
        BY <1>1, <2>1, OwnerOpen
<1>5. \A r \in Open : Visible[r].st = "streaming"
    BY <1>1, OwnerOpen
<1> HIDE DEF rows
<1>6. OnlyOf(w, rows)
    BY <1>3 DEF OnlyOf
<1>7. Settled(w, rows, {}, pending'.row)
    <2>1. ASSUME NEW r \in DOMAIN rows, r[1] = w PROVE rows[r].st = "closed"
        BY <1>1, <1>3, <1>4, <1>5, <2>1, Bystander DEF Runs
    <2>2. QED
        BY <2>1 DEF Settled
<1>8. Release(w, work[w], rows) /\ payload' \in {payload, 0}
    BY DEF ToolStopped, EndTurn, rows
<1>9. active' = NoRow /\ pending' = NoCard
    BY <1>1, Owner DEF ToolStopped, Runs
<1>10. QED
    BY <1>1, <1>3, <1>6, <1>7, <1>8, <1>9, OwnerEnds DEF ToolStopped, Runs

LEMMA MergeStoppedStep ==
    ASSUME ChatInv, NEW w \in Ids, MergeStopped(w)
    PROVE  ChatInv'
<1> DEFINE drafts == Deploys(work[w], work[w].collected)
           closing == {Row(w, 0)} \cup {Row(w, i) : i \in drafts}
<1>1. Owns(w) /\ work[w].pc = "merge" /\ work[w] \in Items /\ Stage(work[w]) /\ "notice" \in Texts
    BY Owner DEF MergeStopped, Texts
<1>2. work[w].kind # "confirm"
    BY <1>1 DEF Stage
<1>3. \A r \in closing : r[1] = w
    <2>1. drafts \subseteq Nat
        BY <1>1, ItemShape DEF Deploys
    <2>2. QED
        BY <2>1, RowShape DEF ChatInv
<1>4. /\ [work[w] EXCEPT !.said = "stranded"] \in Items /\ Same([work[w] EXCEPT !.said = "stranded"], work[w])
      /\ [work[w] EXCEPT !.said = "stranded"].said = "stranded"
    BY <1>1, SaidTyped
<1>5. Release(w, [work[w] EXCEPT !.said = "stranded"], Close(Visible, closing, "notice")) /\ payload' \in {payload, 0}
    BY DEF MergeStopped, EndTurn
<1> HIDE DEF closing
<1>6. QED
    BY <1>1, <1>2, <1>3, <1>4, <1>5, OwnerCloses DEF MergeStopped, Runs, Same

LEMMA AppStatusReturnsStep ==
    ASSUME ChatInv, NEW w \in Ids, AppStatusReturns(w)
    PROVE  ChatInv'
<1>1. Owns(w) /\ work[w].pc = "query" /\ work[w] \in Items /\ Same(work[w], work[w]) /\ "notice" \in Texts
    BY Owner DEF AppStatusReturns, Same, Texts
<1>2. Open = {Row(w, 1)} /\ \A r \in {Row(w, 1)} : r[1] = w
    BY <1>1, OwnerOpen, RowShape DEF OpenAt, ChatInv
<1>3. QED
    BY <1>1, <1>2, OwnerCloses DEF AppStatusReturns, Runs

LEMMA BatchRefusedStep ==
    ASSUME ChatInv, NEW w \in Ids, BatchRefused(w)
    PROVE  ChatInv'
<1>1. Owns(w) /\ work[w].pc = "plan" /\ work[w] \in Items /\ Same(work[w], work[w]) /\ "notice" \in Texts
    BY Owner DEF BatchRefused, Same, Texts
<1>2. Open = {Row(w, 1)} /\ \A r \in {Row(w, 1)} : r[1] = w
    BY <1>1, OwnerOpen, RowShape DEF OpenAt, ChatInv
<1>3. QED
    BY <1>1, <1>2, OwnerCloses DEF BatchRefused, Runs

LEMMA FollowUpReturnsStep ==
    ASSUME ChatInv, NEW w \in Ids, FollowUpReturns(w)
    PROVE  ChatInv'
<1>1. Owns(w) /\ work[w].pc = "followup" /\ work[w] \in Items /\ Same(work[w], work[w]) /\ "notice" \in Texts
    BY Owner DEF FollowUpReturns, Same, Texts
<1>2. Open = {Row(w, 0)} /\ \A r \in {Row(w, 0)} : r[1] = w
    BY <1>1, OwnerOpen, RowShape DEF OpenAt, ChatInv
<1>3. Release(w, work[w], Close(Visible, {Row(w, 0)}, "notice")) /\ payload' \in {payload, 0}
    BY DEF FollowUpReturns, EndTurn
<1>4. QED
    BY <1>1, <1>2, <1>3, OwnerCloses DEF FollowUpReturns, Runs

(* A turn in progress is a chat turn.                                       *)
LEMMA TurnIsChat ==
    ASSUME ChatInv, NEW w \in Ids, Owns(w), work[w].pc \in {"model", "tool", "merge"}
    PROVE  /\ work[w] \in Items /\ work[w].kind = "chat" /\ ~Runs(work[w]) /\ work[w].pc # "replan"
           /\ work[w].calls \in Seq(Tools) /\ work[w].collected \in SUBSET Nat /\ work[w].turn \in Nat
           /\ pending = NoCard /\ active = NoRow /\ work[w].epoch = epoch /\ controller = w
           /\ Stage(work[w]) /\ (work[w].collected # {} => wallet.client)
<1>1. work[w] \in Items /\ Stage(work[w]) /\ controller = w /\ work[w].epoch = epoch
    BY Owner
<1>2. work[w].kind = "chat"
    BY <1>1 DEF Stage, Items, Kinds
<1>3. QED
    BY <1>1, <1>2, Owner, ItemShape DEF Runs, Approved

LEMMA OpenNext ==
    ASSUME ChatInv, NEW w \in Ids, Owns(w), NEW item \in Items, NEW rows, Proceed(w, item, rows)
    PROVE  Open' = {<<w, item.turn, n>> : n \in OpenAt(item)}
<1>1. controller' = w /\ w # 0 /\ work'[w] = item
    BY Owner, Replaced DEF Proceed, ChatInv
<1>2. QED
    BY <1>1 DEF Open, Row

LEMMA NextTurnStep ==
    ASSUME ChatInv, NEW w \in Ids, Owns(w), work[w].pc \in {"tool", "merge"},
           NEW rows, RowsTyped(rows), OnlyOf(w, rows), Settled(w, rows, {}, NoRow), NextTurn(w, rows),
           UNCHANGED <<pending, active, wallet, epoch, attaching, attached, submitted, dispatches>>
    PROVE  ChatInv'
<1> DEFINE went == [work[w] EXCEPT !.pc = "model", !.turn = @ + 1, !.calls = <<>>]
           next == [work[w] EXCEPT !.pc = "model", !.turn = @ + 1, !.calls = <<>>,
                                   !.at = 0, !.collected = {}, !.said = ""]
           r == <<w, next.turn, 0>>
           shown == Add(rows, r, Spinning(0))
<1>1. /\ work[w] \in Items /\ work[w].kind = "chat" /\ ~Runs(work[w]) /\ work[w].pc # "replan"
      /\ work[w].turn \in Nat /\ pending = NoCard /\ active = NoRow /\ work[w].epoch = epoch /\ w \in Nat
    BY TurnIsChat DEF Ids
<1>2. went \in Items
    <2>1. <<>> \in Seq(Tools) /\ work[w].turn + 1 \in Nat
        BY <1>1
    <2>2. QED
        BY <1>1, <2>1 DEF Items, Stages
<1>3. next = [went EXCEPT !.at = 0, !.collected = {}, !.said = ""]
    OBVIOUS
<1>4. /\ next.pc = "model" /\ next.epoch = epoch /\ next.collected = {} /\ next.said = ""
      /\ Same(next, work[w]) /\ next.kind = "chat"
    BY <1>1 DEF Items, Same
<1> HIDE DEF went
<1>5. next \in Items
    <2>1. {} \in SUBSET Nat
        OBVIOUS
    <2>2. QED
        BY ZenonT(40), <1>2, <1>3, <2>1 DEF Items
<1>6. IF work[w].turn < MaxTurns THEN Proceed(w, next, shown) ELSE EndTurn(w, next, Close(shown, {r}, "maxed"))
    BY DEF NextTurn
<1> HIDE DEF next
<1>7. /\ r \in RowIds /\ r[1] = w /\ r = <<w, next.turn, 0>>
      /\ Spinning(0) \in Entries /\ Spinning(0).st = "streaming" /\ Spinning(0).text = ""
    BY <1>1, <1>5, ItemShape, SpinningShape DEF RowIds
<1> HIDE DEF r
<1>8. /\ RowsTyped(shown) /\ r \in DOMAIN shown /\ shown[r] = Spinning(0)
      /\ \A x \in DOMAIN shown : x # r => x \in DOMAIN rows /\ shown[x] = rows[x]
    <2>1. /\ RowsTyped(shown) /\ DOMAIN shown = DOMAIN rows \cup {r} /\ shown[r] = Spinning(0)
          /\ \A x \in DOMAIN rows \ {r} : shown[x] = rows[x]
        <3>1. ASSUME NEW x \in RowIds, NEW row \in Entries
              PROVE  /\ RowsTyped(Add(rows, x, row)) /\ DOMAIN Add(rows, x, row) = DOMAIN rows \cup {x}
                     /\ Add(rows, x, row)[x] = row
                     /\ \A y \in DOMAIN rows \ {x} : Add(rows, x, row)[y] = rows[y]
            BY AddShape
        <3>2. r \in RowIds /\ Spinning(0) \in Entries
            BY <1>7
        <3>3. QED
            BY <3>1, <3>2
    <2> HIDE DEF shown
    <2>2. QED
        BY <2>1
<1> HIDE DEF shown
<1>9. OnlyOf(w, shown) /\ Settled(w, shown, {r}, NoRow)
    <2>1. OnlyOf(w, shown)
        BY <1>7, <1>8 DEF OnlyOf
    <2>2. QED
        BY <1>7, <1>8, <2>1 DEF Settled
<1>10. CASE work[w].turn < MaxTurns
    <2>1. Proceed(w, next, shown)
        BY <1>6, <1>10
    <2>2. Open' = {r}
        <3>1. OpenAt(next) = {0}
            BY <1>4 DEF OpenAt
        <3>2. Open' = {<<w, next.turn, n>> : n \in OpenAt(next)}
            BY <1>5, <2>1, OpenNext
        <3>3. QED
            BY <1>7, <3>1, <3>2
    <2>3. Stage(next) /\ ~Approved(next)
        BY <1>4 DEF Stage, Approved, Runs
    <2>4. \A x \in Open' : x \in DOMAIN shown /\ shown[x].st = "streaming"
        BY <1>7, <1>8, <2>2
    <2>5. QED
        BY <1>1, <1>4, <1>5, <1>8, <1>9, <2>1, <2>2, <2>3, <2>4, OwnerGoesOn
<1>11. CASE ~(work[w].turn < MaxTurns)
    <2>1. Release(w, next, Close(shown, {r}, "maxed")) /\ payload' \in {payload, 0} /\ "maxed" \in Texts
        BY <1>6, <1>11 DEF EndTurn, Texts
    <2>2. /\ RowsTyped(Close(shown, {r}, "maxed")) /\ DOMAIN Close(shown, {r}, "maxed") = DOMAIN shown
          /\ \A x \in DOMAIN shown : /\ x = r => Close(shown, {r}, "maxed")[x].st = "closed"
                                     /\ x # r => Close(shown, {r}, "maxed")[x] = shown[x]
        BY <1>8, <2>1, CloseShape
    <2>3. OnlyOf(w, Close(shown, {r}, "maxed"))
        BY <1>7, <1>9, <2>2 DEF OnlyOf
    <2>4. pending' = NoCard /\ pending'.row = NoRow /\ active' = NoRow
        BY <1>1 DEF NoCard
    <2>5. Settled(w, Close(shown, {r}, "maxed"), {}, pending'.row)
        <3>1. ASSUME NEW x \in DOMAIN shown, x # r, x[1] = w
              PROVE  shown[x].st = "closed" \/ (shown[x].text = "" /\ shown[x].st = "waiting" /\ x = NoRow)
            BY <1>9, <3>1 DEF Settled
        <3>2. QED
            BY ZenonT(40), <2>2, <2>4, <3>1 DEF Settled
    <2>6. QED
        BY <1>1, <1>4, <1>5, <2>1, <2>2, <2>3, <2>4, <2>5, OwnerEnds
<1>12. QED
    BY <1>10, <1>11

LEMMA AskOneStep ==
    ASSUME ChatInv, NEW w \in Ids, Owns(w), work[w].pc \in {"tool", "merge"}, wallet.client,
           NEW item \in Items, Same(item, work[w]), NEW i \in item.collected,
           NEW rows, RowsTyped(rows), OnlyOf(w, rows), Settled(w, rows, {Row(w, n) : n \in item.collected}, NoRow),
           \A n \in item.collected : Row(w, n) \in DOMAIN rows /\ rows[Row(w, n)].st = "streaming",
           AskOne(w, item, rows, i),
           UNCHANGED <<active, wallet, epoch, attaching, attached, submitted, dispatches>>
    PROVE  ChatInv'
<1> DEFINE file == IF item.calls[i] = "deploy" THEN payload ELSE 0
           skipped == {Row(w, j) : j \in item.collected \ {i}}
           skipping == [x \in DOMAIN rows |-> IF x \in skipped /\ rows[x].st = "streaming"
                                                THEN [rows[x] EXCEPT !.st = "closed", !.text = "notice"]
                                                ELSE rows[x]]
           shown == Await(skipping, Row(w, i))
<1>1. /\ work[w] \in Items /\ work[w].kind = "chat" /\ ~Runs(work[w]) /\ work[w].pc # "replan"
      /\ pending = NoCard /\ active = NoRow
    BY TurnIsChat
<1>2. pending' = Card(item, Row(w, i), file, FALSE) /\ Release(w, item, shown) /\ payload' \in {payload, 0}
    BY DEF AskOne, EndTurn
<1> item.collected \in SUBSET Nat /\ StoreTyped
    BY ItemShape DEF ChatInv
<1>3. Row(w, i) \in RowIds /\ Row(w, i)[1] = w /\ Row(w, i) # NoRow
    <2>1. i \in Nat /\ w # 0
        BY DEF Ids
    <2>2. QED
        BY <2>1, RowShape DEF NoRow
<1>4. file \in Nat /\ item.wallet \in Addresses /\ item.gen \in Nat
    <2>1. payload \in Nat
        BY DEF StoreTyped
    <2>2. QED
        BY <2>1, ItemShape
<1> HIDE DEF file
<1>5. \A x : x \in skipped => x \in {Row(w, n) : n \in item.collected}
    OBVIOUS
<1>6. \A x : x \in {Row(w, n) : n \in item.collected} => x = Row(w, i) \/ x \in skipped
    OBVIOUS
<1> HIDE DEF skipped
<1>7. /\ RowsTyped(skipping) /\ DOMAIN skipping = DOMAIN rows
      /\ \A x \in DOMAIN rows : IF x \in skipped /\ rows[x].st = "streaming"
                                  THEN skipping[x].st = "closed" ELSE skipping[x] = rows[x]
    BY DEF RowsTyped, Entries, States, Texts
<1> HIDE DEF skipping
<1>8. /\ RowsTyped(shown) /\ DOMAIN shown = DOMAIN rows
      /\ Row(w, i) \in DOMAIN rows => shown[Row(w, i)].st = "waiting" /\ shown[Row(w, i)].text = skipping[Row(w, i)].text
      /\ \A x \in DOMAIN rows : x # Row(w, i) => shown[x] = skipping[x]
    BY <1>7, AwaitShape
<1> HIDE DEF shown
<1>9. Row(w, i) \notin skipped
    BY DEF Row, skipped
<1>10. pending' \in Cards /\ pending'.row = Row(w, i) /\ pending'.wallet = item.wallet /\ pending'.gen = item.gen
    BY <1>2, <1>3, <1>4 DEF Card, Cards
<1>11. OnlyOf(w, shown)
    <2>1. \A x \in skipped : x[1] = w
        BY DEF Row, skipped
    <2>2. QED
        BY <1>3, <1>7, <1>8, <2>1 DEF OnlyOf
<1>12. Settled(w, shown, {}, pending'.row)
    <2>1. ASSUME NEW x \in DOMAIN shown, x[1] = w
          PROVE  shown[x].st = "closed" \/ (shown[x].text = "" /\ shown[x].st = "waiting" /\ x = pending'.row)
        <3>1. x \in DOMAIN rows
            BY <1>8, <2>1
        <3>2. rows[x].st = "closed" \/ (rows[x].text = "" /\ rows[x].st = "streaming")
              \/ (rows[x].text = "" /\ rows[x].st = "waiting" /\ x = NoRow)
            BY <2>1, <3>1 DEF Settled
        <3>3. x # NoRow
            BY <2>1 DEF NoRow, Ids
        <3>4. CASE x = Row(w, i)
            BY <1>7, <1>8, <1>9, <1>10, <3>1, <3>2, <3>3, <3>4, i \in item.collected
        <3>5. CASE x # Row(w, i) /\ rows[x].st = "streaming"
            <4>1. x \in skipped
                BY <1>6, <2>1, <3>1, <3>5 DEF Settled
            <4>2. QED
                BY <1>7, <1>8, <3>1, <3>5, <4>1
        <3>6. CASE x # Row(w, i) /\ rows[x].st = "closed"
            BY <1>7, <1>8, <3>1, <3>6
        <3>7. QED
            BY <3>2, <3>3, <3>4, <3>5, <3>6
    <2>2. QED
        BY <2>1 DEF Settled
<1>13. CardOn(w, shown)
    <2>1. Row(w, i) \in DOMAIN rows
        OBVIOUS
    <2>2. QED
        BY <1>3, <1>8, <1>10, <2>1 DEF CardOn, Same
<1>14. QED
    BY <1>1, <1>2, <1>8, <1>11, <1>12, <1>13, OwnerEnds DEF Same

LEMMA VisibleSettles ==
    ASSUME ChatInv, NEW w \in Ids, Owns(w), ~Runs(work[w]), work[w].pc # "replan", NEW card
    PROVE  RowsTyped(Visible) /\ OnlyOf(w, Visible) /\ Settled(w, Visible, Open, card)
<1>1. RowsTyped(Visible) /\ OnlyOf(w, Visible)
    BY VisibleTyped DEF ChatInv, OnlyOf
<1>2. ASSUME NEW r \in DOMAIN Visible, r[1] = w
      PROVE  Visible[r].st = "closed" \/ (Visible[r].text = "" /\ Visible[r].st = "streaming" /\ r \in Open)
    <2>1. RowFits(wallet.address, r)
        BY <1>2, VisibleTyped DEF ChatInv, Display, RowsFit, Visible
    <2>2. r \in Open => Visible[r].st = "streaming" /\ Visible[r].text = ""
        BY <2>1, OwnerOpen DEF RowFits, Visible
    <2>3. r \notin Open => Visible[r].st = "closed"
        BY <1>2, Bystander
    <2>4. QED
        BY <2>2, <2>3
<1>3. QED
    BY <1>1, <1>2 DEF Settled

(* A new row that spins, after the owner's others.                          *)
LEMMA AddingSettles ==
    ASSUME ChatInv, NEW w \in Ids, NEW rows, RowsTyped(rows), OnlyOf(w, rows), NEW open, Settled(w, rows, open, NoRow),
           NEW n \in Nat
    PROVE  LET shown == Add(rows, Row(w, n), Spinning(0)) IN
           /\ RowsTyped(shown) /\ OnlyOf(w, shown) /\ Settled(w, shown, open \cup {Row(w, n)}, NoRow)
           /\ Row(w, n) \in DOMAIN shown /\ shown[Row(w, n)].st = "streaming"
           /\ \A r \in DOMAIN rows : r \in DOMAIN shown /\ (rows[r].st = "streaming" => shown[r].st = "streaming")
<1> DEFINE shown == Add(rows, Row(w, n), Spinning(0))
<1>1. Row(w, n) \in RowIds /\ Row(w, n)[1] = w
    BY RowShape DEF ChatInv
<1>2. Spinning(0) \in Entries /\ Spinning(0).st = "streaming" /\ Spinning(0).text = ""
    BY SpinningShape
<1>3. /\ RowsTyped(shown) /\ DOMAIN shown = DOMAIN rows \cup {Row(w, n)} /\ shown[Row(w, n)] = Spinning(0)
      /\ \A x \in DOMAIN rows \ {Row(w, n)} : shown[x] = rows[x]
    <2>1. ASSUME NEW x \in RowIds, NEW row \in Entries
          PROVE  /\ RowsTyped(Add(rows, x, row)) /\ DOMAIN Add(rows, x, row) = DOMAIN rows \cup {x}
                 /\ Add(rows, x, row)[x] = row
                 /\ \A y \in DOMAIN rows \ {x} : Add(rows, x, row)[y] = rows[y]
        BY AddShape
    <2>2. QED
        BY <1>1, <1>2, <2>1
<1> HIDE DEF shown
<1>4. OnlyOf(w, shown)
    BY <1>1, <1>3 DEF OnlyOf
<1>5. ASSUME NEW r \in DOMAIN shown, r[1] = w
      PROVE  \/ shown[r].st = "closed"
             \/ shown[r].text = "" /\ shown[r].st = "streaming" /\ r \in open \cup {Row(w, n)}
             \/ shown[r].text = "" /\ shown[r].st = "waiting" /\ r = NoRow
    <2>1. CASE r = Row(w, n)
        BY <1>2, <1>3, <2>1
    <2>2. CASE r # Row(w, n)
        <3>1. r \in DOMAIN rows /\ shown[r] = rows[r]
            BY <1>3, <1>5, <2>2
        <3>2. QED
            BY <1>5, <3>1 DEF Settled
    <2>3. QED
        BY <2>1, <2>2
<1>6. Settled(w, shown, open \cup {Row(w, n)}, NoRow)
    BY <1>5 DEF Settled
<1>7. \A r \in DOMAIN rows : r \in DOMAIN shown /\ (rows[r].st = "streaming" => shown[r].st = "streaming")
    BY <1>2, <1>3
<1>8. QED
    BY <1>1, <1>2, <1>3, <1>4, <1>6, <1>7 DEF shown

LEMMA AfterCallStep ==
    ASSUME ChatInv, NEW w \in Ids, Owns(w), work[w].pc = "tool",
           NEW item \in Items, Same(item, work[w]), item.pc = "tool", item.epoch = epoch, item.turn = work[w].turn,
           item.calls = work[w].calls, item.at = work[w].at, item.collected \subseteq 1..item.at,
           item.collected # {} => wallet.client, item.said # "stranded",
           NEW rows, RowsTyped(rows), OnlyOf(w, rows), Settled(w, rows, {Row(w, n) : n \in item.collected}, NoRow),
           \A n \in item.collected : Row(w, n) \in DOMAIN rows /\ rows[Row(w, n)].st = "streaming",
           AfterCall(w, item, rows),
           UNCHANGED <<active, wallet, epoch, attaching, attached, submitted, dispatches>>
    PROVE  ChatInv'
<1> DEFINE i == item.at + 1
<1>1. /\ work[w] \in Items /\ work[w].kind = "chat" /\ ~Runs(work[w]) /\ work[w].pc # "replan"
      /\ pending = NoCard /\ active = NoRow /\ Stage(work[w]) /\ work[w].calls \in Seq(Tools)
    BY TurnIsChat
<1>2. /\ i \in Nat \ {0} /\ item.at \in Nat /\ item.calls \in Seq(Tools) /\ item.at \in DOMAIN item.calls
      /\ item.kind = "chat" /\ item.collected \in SUBSET Nat
    <2>1. item.at \in Nat /\ item.collected \in SUBSET Nat /\ item.kind = "chat" /\ item.calls \in Seq(Tools)
        BY <1>1, ItemShape DEF Same
    <2>2. item.at \in DOMAIN item.calls
        BY <1>1 DEF Stage
    <2>3. QED
        BY <2>1, <2>2
<1>3. CASE i <= Len(item.calls)
    <2> DEFINE next == [item EXCEPT !.at = i, !.seen = dispatches]
               shown == Add(rows, Row(w, i), Spinning(0))
    <2>1. Proceed(w, next, shown) /\ UNCHANGED pending
        BY <1>2, <1>3 DEF AfterCall
    <2>2. dispatches \in Nat
        BY DEF ChatInv, StoreTyped
    <2>3. next \in Items
        BY <1>2, <2>2 DEF Items
    <2>4. /\ Same(next, work[w]) /\ next.epoch = epoch /\ next.kind = "chat" /\ next.pc = "tool" /\ next.at = i
          /\ next.calls = item.calls /\ next.collected = item.collected /\ next.turn = work[w].turn
          /\ next.said = item.said
        BY <1>2 DEF Items, Same
    <2> HIDE DEF next
    <2>5. Stage(next) /\ (Approved(next) => wallet.client)
        BY <1>2, <1>3, <2>4 DEF Stage, Approved, Runs
    <2>6. OpenAt(next) = item.collected \cup {i}
        BY <2>4 DEF OpenAt
    <2>7. Open' = {Row(w, n) : n \in item.collected} \cup {Row(w, i)}
        <3>1. Open' = {<<w, next.turn, n>> : n \in OpenAt(next)}
            BY <2>1, <2>3, OpenNext
        <3>2. QED
            BY <2>4, <2>6, <3>1 DEF Row
    <2>8. /\ RowsTyped(shown) /\ OnlyOf(w, shown) /\ Settled(w, shown, Open', NoRow)
          /\ \A r \in Open' : r \in DOMAIN shown /\ shown[r].st = "streaming"
        <3>1. i \in Nat
            BY <1>2
        <3>2. /\ RowsTyped(shown) /\ OnlyOf(w, shown)
              /\ Settled(w, shown, {Row(w, n) : n \in item.collected} \cup {Row(w, i)}, NoRow)
              /\ Row(w, i) \in DOMAIN shown /\ shown[Row(w, i)].st = "streaming"
              /\ \A r \in DOMAIN rows : r \in DOMAIN shown /\ (rows[r].st = "streaming" => shown[r].st = "streaming")
            BY <3>1, AddingSettles
        <3> HIDE DEF shown
        <3>3. QED
            BY <2>7, <3>2
    <2>9. QED
        BY <1>1, <2>1, <2>3, <2>4, <2>5, <2>8, OwnerGoesOn DEF Same
<1>4. CASE i > Len(item.calls) /\ item.collected = {}
    <2>1. /\ IF item.said = "card" THEN EndTurn(w, item, rows) ELSE NextTurn(w, rows)
          /\ UNCHANGED pending
        BY <1>2, <1>4 DEF AfterCall
    <2>2. Settled(w, rows, {}, NoRow)
        BY <1>4 DEF Settled
    <2>3. CASE item.said = "card"
        <3>1. Release(w, item, rows) /\ payload' \in {payload, 0} /\ pending' = NoCard /\ pending'.row = NoRow
            BY <1>1, <2>1, <2>3 DEF EndTurn, NoCard
        <3>2. QED
            BY <1>1, <1>2, <2>2, <3>1, OwnerEnds
    <2>4. CASE item.said # "card"
        BY <2>1, <2>2, <2>4, NextTurnStep
    <2>5. QED
        BY <2>3, <2>4
<1>5. CASE i > Len(item.calls) /\ item.collected # {}
    <2> DEFINE next == [item EXCEPT !.pc = "merge", !.payload = payload]
    <2>1. \/ Proceed(w, next, rows) /\ UNCHANGED pending
          \/ AskOne(w, item, rows, First(item.collected))
        BY <1>2, <1>5 DEF AfterCall
    <2>2. CASE AskOne(w, item, rows, First(item.collected))
        BY <1>2, <1>5, <2>2, FirstIsIn, AskOneStep
    <2>3. CASE Proceed(w, next, rows) /\ UNCHANGED pending
        <3>1. payload \in Nat
            BY DEF ChatInv, StoreTyped
        <3>2. next \in Items
            BY <3>1 DEF Items, Stages
        <3>3. /\ Same(next, work[w]) /\ next.epoch = epoch /\ next.kind = "chat" /\ next.pc = "merge"
              /\ next.calls = item.calls /\ next.collected = item.collected /\ next.turn = work[w].turn
              /\ next.said = item.said
            BY <1>2 DEF Items, Same
        <3> HIDE DEF next
        <3>4. Stage(next) /\ (Approved(next) => wallet.client)
            <4>1. DOMAIN item.calls = 1..Len(item.calls) /\ Len(item.calls) \in Nat
                BY <1>2
            <4>2. item.collected \subseteq DOMAIN item.calls
                BY <1>2, <4>1
            <4>3. QED
                BY <1>5, <3>3, <4>2 DEF Stage, Approved, Runs
        <3>5. Open' = {Row(w, n) : n \in item.collected}
            <4>1. Open' = {<<w, next.turn, n>> : n \in OpenAt(next)}
                BY <2>3, <3>2, OpenNext
            <4>2. OpenAt(next) = item.collected
                BY <3>3 DEF OpenAt
            <4>3. QED
                BY <3>3, <4>1, <4>2 DEF Row
        <3>6. QED
            BY <1>1, <2>3, <3>2, <3>3, <3>4, <3>5, OwnerGoesOn DEF Same
    <2>4. QED
        BY <2>1, <2>2, <2>3
<1>6. QED
    BY <1>2, <1>3, <1>4, <1>5

LEMMA UpTo ==
    ASSUME NEW k \in Nat
    PROVE  1..(k - 1) \subseteq 1..k
OBVIOUS

LEMMA ToolReportsStep ==
    ASSUME ChatInv, NEW w \in Ids, ToolReports(w)
    PROVE  ChatInv'
<1> DEFINE r == Row(w, work[w].at)
           rows == Close(Visible, {r}, "notice")
<1>1. Owns(w) /\ work[w].pc = "tool"
    BY DEF ToolReports
<1>2. /\ work[w] \in Items /\ work[w].kind = "chat" /\ ~Runs(work[w]) /\ work[w].pc # "replan" /\ Stage(work[w])
      /\ work[w].epoch = epoch /\ (work[w].collected # {} => wallet.client)
    BY <1>1, TurnIsChat
<1>3. work[w].at \in Nat /\ work[w].collected \subseteq 1..(work[w].at - 1) /\ work[w].said # "stranded"
    BY <1>1, <1>2, ItemShape DEF Stage
<1>4. r[1] = w /\ "notice" \in Texts
    BY <1>3, RowShape DEF ChatInv, Texts
<1>5. Open = {Row(w, n) : n \in work[w].collected} \cup {r}
    BY <1>1, OwnerOpen DEF OpenAt
<1>6. r \notin {Row(w, n) : n \in work[w].collected}
    BY <1>3 DEF Row
<1>7. RowsTyped(rows) /\ OnlyOf(w, rows) /\ Settled(w, rows, Open \ {r}, NoRow)
    BY <1>1, <1>2, <1>4, ClosingSettles
<1>8. Settled(w, rows, {Row(w, n) : n \in work[w].collected}, NoRow)
    BY <1>5, <1>6, <1>7 DEF Settled
<1>9. \A n \in work[w].collected : Row(w, n) \in DOMAIN rows /\ rows[Row(w, n)].st = "streaming"
    <2>1. \A n \in work[w].collected : Row(w, n) \in DOMAIN Visible /\ Visible[Row(w, n)].st = "streaming"
        BY <1>1, <1>5, OwnerOpen
    <2>2. QED
        BY <1>6, <2>1 DEF Close
<1>10. PICK said \in {"", "card", "answer", "stranded", "outcome"} :
         /\ said = work[w].said \/ said = "card"
         /\ AfterCall(w, [work[w] EXCEPT !.said = said], rows)
    BY <1>2, ItemShape DEF ToolReports
<1> DEFINE item == [work[w] EXCEPT !.said = said]
<1>11. /\ item \in Items /\ item.said = said /\ Same(item, work[w]) /\ item.epoch = work[w].epoch
       /\ item.pc = work[w].pc /\ item.collected = work[w].collected /\ item.calls = work[w].calls
       /\ item.at = work[w].at /\ item.turn = work[w].turn
    BY ZenonT(40), <1>2, SaidTyped
<1>12. AfterCall(w, item, rows)
    BY <1>10
<1>13. UNCHANGED <<active, wallet, epoch, attaching, attached, submitted, dispatches>>
    BY DEF ToolReports
<1> HIDE DEF item, rows
<1>14. item.collected \subseteq 1..item.at
    <2>1. 1..(work[w].at - 1) \subseteq 1..work[w].at
        BY ONLY <1>3, UpTo
    <2>2. QED
        BY <1>3, <1>11, <2>1
<1>15. QED
    BY <1>1, <1>2, <1>3, <1>7, <1>8, <1>9, <1>10, <1>11, <1>12, <1>13, <1>14, AfterCallStep

LEMMA ToolAsksStep ==
    ASSUME ChatInv, NEW w \in Ids, ToolAsks(w)
    PROVE  ChatInv'
<1> DEFINE item == [work[w] EXCEPT !.collected = @ \cup {work[w].at}]
<1>1. Owns(w) /\ work[w].pc = "tool" /\ wallet.client
    BY DEF ToolAsks, Current
<1>2. /\ work[w] \in Items /\ work[w].kind = "chat" /\ ~Runs(work[w]) /\ work[w].pc # "replan" /\ Stage(work[w])
      /\ work[w].epoch = epoch
    BY <1>1, TurnIsChat
<1>3. /\ work[w].at \in Nat /\ work[w].collected \in SUBSET Nat /\ work[w].calls \in Seq(Tools)
      /\ work[w].at \in DOMAIN work[w].calls
      /\ work[w].collected \subseteq 1..(work[w].at - 1) /\ work[w].said # "stranded"
    BY <1>1, <1>2, ItemShape DEF Stage
<1>4. item \in Items
    BY <1>2, <1>3 DEF Items
<1>5. /\ item.said = work[w].said /\ Same(item, work[w]) /\ item.epoch = work[w].epoch
      /\ item.pc = work[w].pc /\ item.collected = work[w].collected \cup {work[w].at} /\ item.calls = work[w].calls
      /\ item.at = work[w].at /\ item.turn = work[w].turn
    BY <1>2 DEF Items, Same
<1>6. AfterCall(w, item, Visible) /\ UNCHANGED <<active, wallet, epoch, attaching, attached, submitted, dispatches>>
    BY DEF ToolAsks
<1> HIDE DEF item
<1>7. Open = {Row(w, n) : n \in item.collected}
    BY <1>1, <1>5, OwnerOpen DEF OpenAt
<1>8. RowsTyped(Visible) /\ OnlyOf(w, Visible) /\ Settled(w, Visible, {Row(w, n) : n \in item.collected}, NoRow)
    BY <1>1, <1>2, <1>7, VisibleSettles
<1>9. \A n \in item.collected : Row(w, n) \in DOMAIN Visible /\ Visible[Row(w, n)].st = "streaming"
    BY <1>1, <1>7, OwnerOpen
<1>10. item.collected \subseteq 1..item.at
    BY <1>3, <1>5
<1>11. QED
    BY <1>1, <1>2, <1>3, <1>4, <1>5, <1>6, <1>8, <1>9, <1>10, AfterCallStep

(* The owner leaves a card on one of the rows it had open.                  *)
LEMMA OwnerAsks ==
    ASSUME ChatInv, NEW w \in Ids, Owns(w), ~Runs(work[w]), work[w].pc # "replan", wallet.client,
           NEW rows, RowsTyped(rows), OnlyOf(w, rows), NEW x \in RowIds, x[1] = w, Settled(w, rows, {x}, NoRow),
           x \in DOMAIN rows, rows[x].st = "streaming",
           NEW item \in Items, Same(item, work[w]), item.kind # "confirm",
           NEW file \in Nat, NEW batch \in BOOLEAN, pending' = Card(item, x, file, batch),
           Release(w, item, Await(rows, x)), payload' \in {payload, 0},
           UNCHANGED <<active, wallet, epoch, attaching, attached, submitted, dispatches>>
    PROVE  ChatInv'
<1> DEFINE shown == Await(rows, x)
<1>1. /\ RowsTyped(shown) /\ DOMAIN shown = DOMAIN rows
      /\ shown[x].st = "waiting" /\ shown[x].text = rows[x].text
      /\ \A r \in DOMAIN rows \ {x} : shown[r] = rows[r]
    BY AwaitShape
<1>2. Release(w, item, shown)
    OBVIOUS
<1> HIDE DEF shown
<1>3. pending' \in Cards /\ pending'.row = x /\ pending'.wallet = item.wallet /\ pending'.gen = item.gen
    BY ItemShape DEF Card, Cards
<1>4. active' = NoRow
    BY Owner
<1>5. OnlyOf(w, shown)
    BY <1>1 DEF OnlyOf
<1>6. ASSUME NEW r \in DOMAIN shown, r[1] = w
      PROVE  shown[r].st = "closed" \/ (shown[r].text = "" /\ shown[r].st = "waiting" /\ r = x)
    <2>1. r # NoRow
        BY <1>6 DEF NoRow, Ids
    <2>2. CASE r = x
        BY <1>1, <1>6, <2>2 DEF Settled
    <2>3. CASE r # x
        BY <1>1, <1>6, <2>1, <2>3 DEF Settled
    <2>4. QED
        BY <2>2, <2>3
<1>7. Settled(w, shown, {}, pending'.row)
    BY <1>3, <1>6 DEF Settled
<1>8. CardOn(w, shown)
    BY <1>1, <1>3 DEF CardOn, Same
<1>9. QED
    BY <1>1, <1>2, <1>4, <1>5, <1>7, <1>8, OwnerEnds

LEMMA BatchPlannedStep ==
    ASSUME ChatInv, NEW w \in Ids, BatchPlanned(w)
    PROVE  ChatInv'
<1>1. /\ Owns(w) /\ work[w].pc = "plan" /\ work[w] \in Items /\ Same(work[w], work[w]) /\ Stage(work[w])
      /\ ~Runs(work[w]) /\ work[w].pc # "replan" /\ wallet.client
    BY Owner DEF BatchPlanned, Same, Runs, Current
<1>2. Open = {Row(w, 1)} /\ Row(w, 1) \in RowIds /\ Row(w, 1)[1] = w
    BY <1>1, OwnerOpen, RowShape DEF OpenAt, ChatInv
<1>3. RowsTyped(Visible) /\ OnlyOf(w, Visible) /\ Settled(w, Visible, {Row(w, 1)}, NoRow)
    BY <1>1, <1>2, VisibleSettles
<1>4. Row(w, 1) \in DOMAIN Visible /\ Visible[Row(w, 1)].st = "streaming"
    BY <1>1, <1>2, OwnerOpen
<1>5. work[w].kind # "confirm"
    BY <1>1 DEF Stage
<1>6. /\ pending' = Card(work[w], Row(w, 1), 0, TRUE) /\ Release(w, work[w], Await(Visible, Row(w, 1)))
      /\ payload' \in {payload, 0}
      /\ UNCHANGED <<active, wallet, epoch, attaching, attached, submitted, dispatches>>
    BY DEF BatchPlanned
<1>7. QED
    BY <1>1, <1>2, <1>3, <1>4, <1>5, <1>6, OwnerAsks

LEMMA MergePlannedStep ==
    ASSUME ChatInv, NEW w \in Ids, MergePlanned(w)
    PROVE  ChatInv'
<1>1. Owns(w) /\ work[w].pc = "merge" /\ wallet.client
    BY DEF MergePlanned, Current
<1>2. /\ work[w] \in Items /\ work[w].kind = "chat" /\ ~Runs(work[w]) /\ work[w].pc # "replan" /\ Stage(work[w])
      /\ work[w].calls \in Seq(Tools) /\ work[w].collected \in SUBSET Nat
    BY <1>1, TurnIsChat
<1>3. Open = {Row(w, n) : n \in work[w].collected} /\ "notice" \in Texts /\ Same(work[w], work[w])
    BY <1>1, OwnerOpen DEF OpenAt, Texts, Same
<1> DEFINE drafts == Deploys(work[w], work[w].collected)
           others == work[w].collected \ drafts
<1>4. PICK kept \in (SUBSET drafts) \ {{}} :
        /\ pending' = Card(work[w], Row(w, Newest(kept)), work[w].payload, TRUE)
        /\ EndTurn(w, work[w],
                   Await(Close(Visible, {Row(w, i) : i \in (drafts \cup others) \ {Newest(kept)}}, "notice"),
                         Row(w, Newest(kept))))
    BY DEF MergePlanned
<1> DEFINE m == Newest(kept)
           S == {Row(w, i) : i \in (drafts \cup others) \ {m}}
           rows == Close(Visible, S, "notice")
<1>5. m \in work[w].collected /\ m \in Nat
    <2>1. drafts \subseteq work[w].collected
        BY DEF Deploys
    <2>2. work[w].collected \subseteq 1..Len(work[w].calls) /\ Len(work[w].calls) \in Nat
        BY <1>1, <1>2 DEF Stage
    <2> HIDE DEF drafts
    <2>3. kept \in SUBSET (1..Len(work[w].calls)) /\ kept # {}
        <3>1. kept \in SUBSET drafts /\ kept # {}
            OBVIOUS
        <3>2. QED
            BY ONLY <2>1, <2>2, <3>1
    <2>4. m \in kept
        BY <2>2, <2>3, NewestIsIn
    <2>5. QED
        BY <1>2, <2>1, <2>4
<1>6. drafts \cup others = work[w].collected
    BY DEF Deploys
<1>7. pending' = Card(work[w], Row(w, m), work[w].payload, TRUE)
      /\ Release(w, work[w], Await(rows, Row(w, m))) /\ payload' \in {payload, 0}
    BY <1>4 DEF EndTurn
<1> HIDE DEF drafts, others, m
<1>8. \A r \in S : r[1] = w
    BY DEF Row
<1>9. Open \ S = {Row(w, m)} /\ Row(w, m) \in Open
    BY <1>3, <1>5, <1>6 DEF Row
<1>10. Row(w, m) \in RowIds /\ Row(w, m)[1] = w
    BY <1>5, RowShape DEF ChatInv
<1>11. RowsTyped(rows) /\ OnlyOf(w, rows) /\ Settled(w, rows, {Row(w, m)}, NoRow)
    <2> HIDE DEF S
    <2>1. RowsTyped(rows) /\ OnlyOf(w, rows) /\ Settled(w, rows, Open \ S, NoRow)
        BY <1>1, <1>2, <1>3, <1>8, ClosingSettles
    <2>2. QED
        BY <1>9, <2>1
<1>12. Row(w, m) \in DOMAIN rows /\ rows[Row(w, m)].st = "streaming"
    <2>1. Row(w, m) \in DOMAIN Visible /\ Visible[Row(w, m)].st = "streaming" /\ Row(w, m) \notin S
        BY <1>1, <1>9, OwnerOpen
    <2>2. QED
        BY <2>1 DEF Close
<1> HIDE DEF rows
<1>13. UNCHANGED <<active, wallet, epoch, attaching, attached, submitted, dispatches>>
    BY DEF MergePlanned
<1>14. work[w].payload \in Nat
    BY <1>2, ItemShape
<1>15. QED
    BY <1>1, <1>2, <1>3, <1>7, <1>10, <1>11, <1>12, <1>13, <1>14, OwnerAsks

LEMMA MergeFailsStep ==
    ASSUME ChatInv, NEW w \in Ids, MergeFails(w)
    PROVE  ChatInv'
<1>1. Owns(w) /\ work[w].pc = "merge"
    BY DEF MergeFails
<1>2. /\ work[w] \in Items /\ work[w].kind = "chat" /\ ~Runs(work[w]) /\ work[w].pc # "replan" /\ Stage(work[w])
      /\ work[w].collected \in SUBSET Nat /\ (work[w].collected # {} => wallet.client)
    BY <1>1, TurnIsChat
<1>3. Open = {Row(w, n) : n \in work[w].collected} /\ "notice" \in Texts
    BY <1>1, OwnerOpen DEF OpenAt, Texts
<1> DEFINE drafts == Deploys(work[w], work[w].collected)
           others == work[w].collected \ drafts
           S == {Row(w, i) : i \in drafts}
           rows == Close(Visible, S, "notice")
           item == [work[w] EXCEPT !.collected = others]
<1>4. /\ IF others = {} THEN NextTurn(w, rows) /\ UNCHANGED pending
                        ELSE AskOne(w, item, rows, First(others))
      /\ UNCHANGED <<active, wallet, epoch, attaching, attached, submitted, dispatches>>
    BY DEF MergeFails
<1>5. others \in SUBSET Nat /\ drafts \subseteq work[w].collected
    BY <1>2 DEF Deploys
<1>6. /\ item \in Items /\ Same(item, work[w]) /\ item.collected = others
    BY <1>2, <1>5 DEF Items, Same
<1> HIDE DEF item
<1>7. (\A r \in S : r[1] = w) /\ Open \ S = {Row(w, n) : n \in others}
    BY <1>3, <1>5 DEF Row
<1> HIDE DEF S
<1>8. RowsTyped(rows) /\ OnlyOf(w, rows) /\ Settled(w, rows, {Row(w, n) : n \in others}, NoRow)
    <2>1. RowsTyped(rows) /\ OnlyOf(w, rows) /\ Settled(w, rows, Open \ S, NoRow)
        BY <1>1, <1>2, <1>3, <1>7, ClosingSettles
    <2>2. QED
        BY <1>7, <2>1
<1>9. \A n \in others : Row(w, n) \in DOMAIN rows /\ rows[Row(w, n)].st = "streaming"
    <2>1. \A r \in Open : r \in DOMAIN Visible /\ Visible[r].st = "streaming"
        BY <1>1, OwnerOpen
    <2>2. \A n \in others : Row(w, n) \in Open /\ Row(w, n) \notin S
        BY <1>7
    <2>3. QED
        BY <2>1, <2>2 DEF Close
<1> HIDE DEF rows
<1>10. CASE others = {}
    <2>1. {Row(w, n) : n \in others} = {}
        BY <1>10
    <2>2. QED
        BY <1>1, <1>4, <1>8, <1>10, <2>1, NextTurnStep
<1>11. CASE others # {}
    <2>1. First(others) \in others
        BY <1>5, <1>11, FirstIsIn
    <2>2. wallet.client
        BY <1>2, <1>11
    <2>3. QED
        BY <1>1, <1>4, <1>6, <1>8, <1>9, <1>11, <2>1, <2>2, AskOneStep
<1>12. QED
    BY <1>10, <1>11

LEMMA ModelCallsStep ==
    ASSUME ChatInv, NEW w \in Ids, NEW calls \in Calls, ModelCalls(w, calls)
    PROVE  ChatInv'
<1> DEFINE r0 == Row(w, 0)
           advertised == [x \in DOMAIN Visible |->
                            IF x = r0 THEN [st |-> "closed", text |-> "calls", calls |-> Len(calls)] ELSE Visible[x]]
           item == [work[w] EXCEPT !.pc = "tool", !.calls = calls, !.at = 1, !.seen = dispatches]
           shown == Add(advertised, Row(w, 1), Spinning(0))
           cancelled == CancelGroup(w, calls, advertised)
<1>1. Owns(w) /\ work[w].pc = "model" /\ wallet.client
    BY DEF ModelCalls
<1>2. /\ work[w] \in Items /\ work[w].kind = "chat" /\ ~Runs(work[w]) /\ work[w].pc # "replan" /\ Stage(work[w])
      /\ work[w].collected = {} /\ work[w].said # "stranded" /\ work[w].epoch = epoch
      /\ pending = NoCard /\ active = NoRow
    BY <1>1, TurnIsChat DEF Stage
<1>3. calls \in Seq(Tools) /\ Len(calls) \in Nat /\ 1 \in DOMAIN calls
    <2>1. calls \in Seq(Tools) /\ calls # <<>>
        BY ChatAssumption
    <2>2. QED
        BY <2>1
<1>4. Open = {r0} /\ r0[1] = w /\ r0 \in RowIds
    BY <1>1, OwnerOpen, RowShape DEF OpenAt, ChatInv
<1>5. /\ IF work[w].aborted THEN EndTurn(w, work[w], cancelled) ELSE Proceed(w, item, shown)
      /\ UNCHANGED <<pending, active, wallet, epoch, attaching, attached, submitted, dispatches>>
    BY DEF ModelCalls
<1>6. RowsTyped(Visible) /\ OnlyOf(w, Visible) /\ Settled(w, Visible, {r0}, NoRow)
    BY <1>1, <1>2, <1>4, VisibleSettles
<1> HIDE DEF r0
<1>7. /\ RowsTyped(advertised) /\ DOMAIN advertised = DOMAIN Visible
      /\ \A x \in DOMAIN Visible : /\ x = r0 => advertised[x].st = "closed"
                                   /\ x # r0 => advertised[x] = Visible[x]
    BY <1>3, <1>6 DEF RowsTyped, Entries, States, Texts
<1> HIDE DEF advertised
<1>8. OnlyOf(w, advertised) /\ \A x \in DOMAIN advertised : x[1] = w => advertised[x].st = "closed"
    <2>1. OnlyOf(w, advertised)
        BY <1>4, <1>6, <1>7 DEF OnlyOf
    <2>2. ASSUME NEW x \in DOMAIN advertised, x[1] = w PROVE advertised[x].st = "closed"
        <3>1. x # NoRow
            BY <2>2 DEF NoRow, Ids
        <3>2. QED
            BY <1>6, <1>7, <2>2, <3>1 DEF Settled
    <2>3. QED
        BY <2>1, <2>2
<1>9. CASE work[w].aborted
    <2>1. Release(w, work[w], cancelled) /\ payload' \in {payload, 0}
        BY <1>5, <1>9 DEF EndTurn
    <2>2. /\ RowsTyped(cancelled)
          /\ \A r \in DOMAIN cancelled :
               (cancelled[r].st = "closed" /\ r[1] = w) \/ (r \in DOMAIN advertised /\ cancelled[r] = advertised[r])
        <3>1. StoreTyped
            BY DEF ChatInv
        <3>2. QED
            <4>1. /\ RowsTyped(cancelled)
                  /\ \A r \in DOMAIN cancelled :
                       \/ cancelled[r].st = "closed" /\ r[1] = w
                       \/ /\ r \in DOMAIN advertised /\ cancelled[r] = advertised[r]
                          /\ advertised[r].st # "streaming" \/ r \notin {Row(w, i) : i \in DOMAIN calls}
                BY ONLY <1>3, <1>7, <3>1, w \in Ids, CancelShape
            <4> HIDE DEF cancelled
            <4>2. QED
                BY <4>1
    <2> HIDE DEF cancelled
    <2>3. OnlyOf(w, cancelled)
        BY <1>8, <2>2 DEF OnlyOf
    <2>4. Settled(w, cancelled, {}, pending'.row)
        <3>1. ASSUME NEW r \in DOMAIN cancelled, r[1] = w PROVE cancelled[r].st = "closed"
            BY <1>8, <2>2, <3>1
        <3>2. QED
            BY <3>1 DEF Settled
    <2>5. Same(work[w], work[w])
        BY DEF Same
    <2>6. pending' = NoCard /\ active' = NoRow
        BY <1>2, <1>5
    <2>7. QED
        BY <1>1, <1>2, <1>5, <2>1, <2>2, <2>3, <2>4, <2>5, <2>6, OwnerEnds
<1>10. CASE ~work[w].aborted
    <2>1. Proceed(w, item, shown)
        BY <1>5, <1>10
    <2>2. item \in Items
        <3>1. dispatches \in Nat
            BY DEF ChatInv, StoreTyped
        <3>2. QED
            BY <1>2, <1>3, <3>1 DEF Items, Stages
    <2>3. /\ Same(item, work[w]) /\ item.epoch = epoch /\ item.kind = "chat" /\ item.pc = "tool" /\ item.at = 1
          /\ item.calls = calls /\ item.collected = {} /\ item.turn = work[w].turn /\ item.said = work[w].said
        BY <1>2 DEF Items, Same
    <2> HIDE DEF item
    <2>4. Stage(item) /\ ~Approved(item)
        BY <1>2, <1>3, <2>3 DEF Stage, Approved, Runs
    <2>5. Open' = {Row(w, 1)}
        <3> HIDE DEF shown
        <3>1. Open' = {<<w, item.turn, n>> : n \in OpenAt(item)}
            BY <1>1, <2>1, <2>2, OpenNext
        <3>2. OpenAt(item) = {1}
            BY <2>3 DEF OpenAt
        <3>3. QED
            BY <2>3, <3>1, <3>2 DEF Row
    <2>6. Settled(w, advertised, {}, NoRow)
        BY <1>8 DEF Settled
    <2>7. /\ RowsTyped(shown) /\ OnlyOf(w, shown) /\ Settled(w, shown, {} \cup {Row(w, 1)}, NoRow)
          /\ Row(w, 1) \in DOMAIN shown /\ shown[Row(w, 1)].st = "streaming"
        BY ONLY ChatInv, w \in Ids, <1>7, <1>8, <2>6, AddingSettles
    <2> HIDE DEF shown
    <2>8. Settled(w, shown, Open', NoRow) /\ \A r \in Open' : r \in DOMAIN shown /\ shown[r].st = "streaming"
        BY <2>5, <2>7
    <2>9. QED
        BY <1>1, <1>2, <1>5, <2>1, <2>2, <2>3, <2>4, <2>7, <2>8, OwnerGoesOn DEF Same
<1>11. QED
    BY <1>9, <1>10

-----------------------------------------------------------------------------
(* Planning again behind the card, and the transactions.                    *)
LEMMA Replanning ==
    ASSUME ChatInv, NEW w \in Ids, Owns(w), work[w].pc = "replan"
    PROVE  /\ controller = w /\ ~Done(w) /\ work[w] \in Items /\ OfContext(work[w]) /\ wallet.client
           /\ work[w].kind = "replan" /\ OfDone(work[w]) /\ work[w].row # NoRow
           /\ active = NoRow /\ Open = {}
<1>1. /\ controller = w /\ controller # 0 /\ ~Done(w) /\ work[w] \in Items /\ OfContext(work[w]) /\ Stage(work[w])
      /\ wallet.client /\ active = NoRow
    BY Owner DEF Approved, Runs
<1>2. work[w].kind = "replan"
    BY <1>1 DEF Stage, Items, Kinds
<1>3. OfDone(work[w])
    BY <1>2 DEF ChatInv, Authority, UsedOnce
<1>4. work[w].row # NoRow
    BY <1>3 DEF OfDone, NoRow, Ids
<1>5. Open = {}
    BY <1>1 DEF Open, OpenAt
<1>6. QED
    BY <1>1, <1>2, <1>3, <1>4, <1>5

(* The chat is free again; the card stays, or is the one planned anew.      *)
LEMMA ReplanEnds ==
    ASSUME ChatInv, NEW w \in Ids, Owns(w), work[w].pc = "replan", NEW rows, RowsTyped(rows),
           Release(w, work[w], rows), DOMAIN rows = DOMAIN Visible,
           \A r \in DOMAIN rows : \/ rows[r] = Visible[r]
                                  \/ /\ pending # NoCard /\ r = pending.row
                                     /\ rows[r].st = "waiting" /\ rows[r].text = Visible[r].text,
           \/ pending' = pending
           \/ /\ pending # NoCard /\ pending' \in Cards /\ pending'.row = pending.row
              /\ pending'.wallet = work[w].wallet /\ pending'.gen = work[w].gen
              /\ OfDone(pending'),
           payload' \in {payload, 0},
           UNCHANGED <<active, wallet, epoch, attaching, attached, submitted, dispatches>>
    PROVE  ChatInv'
<1>1. /\ controller = w /\ ~Done(w) /\ work[w] \in Items /\ OfContext(work[w]) /\ wallet.client
      /\ work[w].kind = "replan" /\ OfDone(work[w]) /\ work[w].row # NoRow
      /\ active = NoRow /\ Open = {}
    BY Replanning
<1>2. Same(work[w], work[w])
    BY DEF Same
<1>3. /\ work' \in Seq(Items) /\ Len(work') = Len(work) /\ Ids' = Ids
      /\ work'[w].said = work[w].said /\ \A v \in Ids \ {w} : work'[v] = work[v]
      /\ OwnerActs' /\ Open' = {}
    BY <1>1, <1>2, Freed
<1>4. Kept
    BY <1>1, <1>2, Freed
<1>5. pending' = NoCard \/ pending' \in Cards
    BY DEF ChatInv, StoreTyped
<1>6. StoreTyped'
    <2>1. DOMAIN transcript' = Addresses /\ \A a \in Addresses : RowsTyped(transcript'[a])
        BY ShowShape DEF ChatInv, Release, StoreTyped, RowsTyped
    <2>2. StoreTyped
        BY DEF ChatInv
    <2>3. payload' \in 0..Len(attached) /\ streaming' = FALSE /\ controller' \in 0..Len(work)
        BY <2>2 DEF StoreTyped, Release
    <2>4. QED
        BY <1>3, <1>5, <2>1, <2>2, <2>3 DEF StoreTyped, RowsTyped
<1>7. Authority'
    <2>1. CardStands'
        <3>1. ASSUME pending' # NoCard
              PROVE  Current(pending)' /\ OfDone(pending)' /\ controller' = 0
            <4>1. OfDone(pending') /\ wallet.client /\ pending'.wallet = wallet.address /\ pending'.gen = wallet.gen
                BY <1>1, <3>1 DEF ChatInv, Authority, CardStands, Current, OfContext
            <4>2. OfDone(pending)'
                BY <1>3, <1>4, <4>1 DEF OfDone, Kept, Done
            <4>3. QED
                BY <4>1, <4>2 DEF Current, Release
        <3>2. QED
            BY <1>1, <3>1 DEF CardStands
    <2>2. UsedOnce'
        <3>1. \/ pending' = NoCard
              \/ pending # NoCard /\ pending'.row = pending.row
            OBVIOUS
        <3>2. QED
            BY <1>3, <1>4, <3>1, StillUsedOnce
    <2>3. QED
        BY <1>3, <2>1, <2>2 DEF Authority
<1>8. Display'
    <2>1. Open' = {} /\ Show(rows)
        BY <1>3 DEF Release
    <2>2. pending'.row = pending.row
        OBVIOUS
    <2>3. pending # NoCard => /\ pending.row \in DOMAIN Visible /\ Visible[pending.row].st = "waiting"
                              /\ Visible[pending.row].text = ""
        <3>1. pending # NoCard => pending.row \in DOMAIN Visible /\ Visible[pending.row].st = "waiting"
            BY DEF ChatInv, Display, OnDisplay
        <3>2. \A r \in DOMAIN Visible : RowFits(wallet.address, r)
            BY VisibleTyped DEF ChatInv, Display, RowsFit, Visible
        <3>3. QED
            BY <3>1, <3>2 DEF RowFits, Visible
    <2>4. ASSUME NEW r \in DOMAIN rows PROVE Explained(rows, r)
        BY <1>1, <2>1, <2>2, <2>3, <2>4 DEF Explained
    <2>5. RowsFit'
        BY <1>4, <2>1, <2>4, Redrawn
    <2>6. RowsAreTold'
        <3>1. \A v \in Ids : work'[v].said = work[v].said
            BY <1>3
        <3>2. ASSUME NEW v \in Ids', work'[v].kind = "confirm", work'[v].row \in DOMAIN rows
              PROVE  work'[v].row \in DOMAIN Visible /\ rows[work'[v].row] = Visible[work'[v].row]
            <4>1. v \in Ids /\ work[v].kind = "confirm" /\ work'[v].row = work[v].row
                BY <1>3, <1>4, <3>2 DEF Kept
            <4>2. pending # NoCard => work[v].row # pending.row
                BY <4>1 DEF ChatInv, Authority, UsedOnce
            <4>3. QED
                BY <3>2, <4>1, <4>2
        <3>3. QED
            BY <1>3, <1>4, <2>1, <3>1, <3>2, Retold
    <2>7. OnDisplay'
        <3>1. Visible' = rows
            BY <2>1, ShowShape DEF ChatInv
        <3>2. pending' # NoCard => pending # NoCard
            OBVIOUS
        <3>3. pending # NoCard => rows[pending.row].st = "waiting"
            BY <2>3
        <3>4. QED
            BY <2>1, <2>2, <2>3, <3>1, <3>2, <3>3 DEF OnDisplay
    <2>8. QED
        BY <2>5, <2>6, <2>7 DEF Display
<1>9. QED
    BY <1>6, <1>7, <1>8 DEF ChatInv

LEMMA ReplanRefusedStep ==
    ASSUME ChatInv, NEW w \in Ids, ReplanRefused(w)
    PROVE  ChatInv'
<1>1. Owns(w) /\ work[w].pc = "replan" /\ RowsTyped(Visible)
    BY VisibleTyped DEF ReplanRefused, ChatInv
<1>2. QED
    BY <1>1, ReplanEnds DEF ReplanRefused

LEMMA BatchReplannedStep ==
    ASSUME ChatInv, NEW w \in Ids, BatchReplanned(w)
    PROVE  ChatInv'
<1>1. Owns(w) /\ work[w].pc = "replan" /\ RowsTyped(Visible)
    BY VisibleTyped DEF BatchReplanned, ChatInv
<1>2. OfDone(work[w]) /\ work[w].row # NoRow /\ work[w] \in Items
    BY <1>1, Replanning
<1>3. CASE SameCard(w)
    <2> DEFINE rows == Await(Visible, work[w].row)
    <2>1. pending' = Card(work[w], work[w].row, 0, TRUE) /\ Release(w, work[w], rows) /\ payload' = 0
          /\ UNCHANGED <<active, wallet, epoch, attaching, attached, submitted, dispatches>>
        BY <1>3 DEF BatchReplanned
    <2>2. pending # NoCard /\ work[w].row = pending.row
        BY <1>2, <1>3 DEF SameCard, NoCard
    <2>3. /\ RowsTyped(rows) /\ DOMAIN rows = DOMAIN Visible
          /\ \A r \in DOMAIN rows : \/ rows[r] = Visible[r]
                                    \/ r = pending.row /\ rows[r].st = "waiting" /\ rows[r].text = Visible[r].text
        BY <1>1, <2>2, AwaitShape
    <2>4. /\ pending' \in Cards /\ pending'.row = pending.row
          /\ pending'.wallet = work[w].wallet /\ pending'.gen = work[w].gen /\ OfDone(pending')
        BY <1>2, <2>1, <2>2, ItemShape DEF Card, Cards, OfDone
    <2> HIDE DEF rows
    <2>5. QED
        BY <1>1, <2>1, <2>2, <2>3, <2>4, ReplanEnds
<1>4. CASE ~SameCard(w)
    <2>1. Release(w, work[w], Visible) /\ pending' = pending /\ payload' = payload
          /\ UNCHANGED <<active, wallet, epoch, attaching, attached, submitted, dispatches>>
        BY <1>4 DEF BatchReplanned
    <2>2. QED
        BY <1>1, <2>1, ReplanEnds
<1>5. QED
    BY <1>3, <1>4

LEMMA StaysTyped ==
    ASSUME ChatInv, NEW rows, RowsTyped(rows), Show(rows), work' \in Seq(Items), controller' \in 0..Len(work'),
           streaming' \in BOOLEAN, pending' = NoCard \/ pending' \in Cards, active' \in RowIds,
           payload' \in {payload, 0}, dispatches' \in Nat,
           UNCHANGED <<wallet, epoch, attaching, attached>>
    PROVE  StoreTyped'
<1>1. StoreTyped
    BY DEF ChatInv
<1>2. DOMAIN transcript' = Addresses /\ \A a \in Addresses : RowsTyped(transcript'[a])
    BY <1>1, ShowShape DEF StoreTyped, RowsTyped
<1>3. payload' \in 0..Len(attached)
    BY <1>1 DEF StoreTyped
<1>4. QED
    BY <1>1, <1>2, <1>3 DEF StoreTyped, RowsTyped

LEMMA Transacting ==
    ASSUME ChatInv, NEW w \in Ids, Owns(w), Runs(work[w])
    PROVE  /\ controller = w /\ controller # 0 /\ ~Done(w) /\ work[w] \in Items /\ OfContext(work[w]) /\ wallet.client
           /\ work[w].kind = "confirm" /\ OfDone(work[w]) /\ work[w].row[1] # w /\ work[w].row # NoRow
           /\ work[w].collected = {} /\ work[w].said # "outcome" /\ work[w].said # "stranded" /\ work[w].epoch = epoch
           /\ pending = NoCard /\ (active = NoRow \/ active = work[w].row) /\ Open = {}
<1>1. /\ controller = w /\ controller # 0 /\ ~Done(w) /\ work[w] \in Items /\ OfContext(work[w]) /\ Stage(work[w])
      /\ wallet.client /\ pending = NoCard /\ work[w].said # "stranded" /\ work[w].epoch = epoch
    BY Owner DEF Approved, Runs
<1>2. work[w].kind = "confirm"
    BY <1>1 DEF Stage, Items, Kinds, Runs
<1>3. OfDone(work[w])
    BY <1>2 DEF ChatInv, Authority, UsedOnce
<1>4. work[w].row # NoRow /\ work[w].row[1] # w
    BY <1>1, <1>3 DEF OfDone, NoRow, Ids
<1>5. Open = {}
    BY <1>1 DEF Open, OpenAt, Runs
<1>6. active = NoRow \/ active = work[w].row
    BY <1>1 DEF ChatInv, Authority, CardStands
<1>7. work[w].collected = {} /\ work[w].said # "outcome"
    BY <1>1 DEF Stage, Runs
<1>8. QED
    BY <1>1, <1>2, <1>3, <1>4, <1>5, <1>6, <1>7

(* The row of the transaction is resolved; nothing else changes but that    *)
(* the comment on it may begin to stream.                                   *)
LEMMA TransactionDraws ==
    ASSUME ChatInv, NEW w \in Ids, Owns(w), Runs(work[w]),
           Kept, Ids' = Ids, \A v \in Ids \ {w} : work'[v].said = work[v].said,
           NEW text \in {"outcome", "notice"}, work'[w].said = "outcome" => text = "outcome",
           pending' = NoCard, wallet' = wallet, NEW rows, Show(rows),
           \A r \in DOMAIN rows :
             \/ r \in DOMAIN Visible /\ r # work[w].row /\ rows[r] = Visible[r]
             \/ r \in DOMAIN Visible /\ r = work[w].row /\ rows[r].st = "closed" /\ rows[r].text = text
             \/ r[1] = w /\ r \in Open' /\ rows[r].st = "streaming" /\ rows[r].text = "",
           \A r \in Open' : r \in DOMAIN rows /\ rows[r].st = "streaming"
    PROVE  Display'
<1>1. /\ controller = w /\ ~Done(w) /\ OfContext(work[w]) /\ work[w].kind = "confirm" /\ OfDone(work[w])
      /\ work[w].row[1] # w /\ pending = NoCard /\ (active = NoRow \/ active = work[w].row) /\ Open = {}
    BY Transacting
<1>2. ASSUME NEW r \in DOMAIN rows
      PROVE  Explained(rows, r)
    <2>1. CASE r \in DOMAIN Visible /\ r # work[w].row /\ rows[r] = Visible[r]
        <3>1. RowFits(wallet.address, r)
            BY <2>1, VisibleTyped DEF ChatInv, Display, RowsFit, Visible
        <3>2. r # NoRow
            <4>1. r[1] \in Ids
                BY <3>1 DEF RowFits
            <4>2. QED
                BY <4>1, RowOfWork
        <3>3. QED
            BY <1>1, <2>1, <3>2 DEF Explained, NoCard
    <2>2. CASE r \in DOMAIN Visible /\ rows[r].st = "closed"
        BY <2>2 DEF Explained
    <2>3. CASE r[1] = w /\ r \in Open' /\ rows[r].st = "streaming" /\ rows[r].text = ""
        <3>1. r[1] \in Ids' /\ work'[r[1]].wallet = wallet.address
            BY <1>1, <2>3 DEF Kept, OfContext
        <3>2. QED
            BY <2>3, <3>1 DEF Explained
    <2>4. QED
        BY <2>1, <2>2, <2>3
<1>3. RowsFit'
    BY <1>2, Redrawn
<1>4. RowsAreTold'
    <2>1. \A v \in Ids : work'[v].said = work[v].said \/ work[v].wallet = wallet.address
        BY <1>1 DEF OfContext
    <2>2. ASSUME NEW v \in Ids', work'[v].kind = "confirm", work'[v].row \in DOMAIN rows
          PROVE  \/ /\ v \in Ids /\ work'[v].said = work[v].said
                    /\ work'[v].row \in DOMAIN Visible /\ rows[work'[v].row] = Visible[work'[v].row]
                 \/ /\ rows[work'[v].row].text # "unsubmitted"
                    /\ work'[v].said = "outcome" => rows[work'[v].row].text = "outcome"
                                                    /\ rows[work'[v].row].st = "closed"
        <3>1. v \in Ids /\ work[v].kind = "confirm" /\ work'[v].row = work[v].row
            BY <2>2 DEF Kept
        <3>2. work[v].row[1] # w
            BY <1>1, <3>1 DEF ChatInv, Authority, UsedOnce, OfDone
        <3>3. CASE v = w
            BY <1>1, <2>2, <3>1, <3>2, <3>3
        <3>4. CASE v # w
            <4>1. work[v].row # work[w].row
                BY <1>1, <3>1, <3>4 DEF ChatInv, Authority, UsedOnce
            <4>2. QED
                BY <2>2, <3>1, <3>2, <3>4, <4>1
        <3>5. QED
            BY <3>3, <3>4
    <2>3. QED
        BY <2>1, <2>2, Retold
<1>5. Visible' = rows
    BY ShowShape DEF ChatInv
<1>6. OnDisplay'
    BY <1>5 DEF OnDisplay
<1>7. QED
    BY <1>3, <1>4, <1>6 DEF Display

LEMMA TransactionEnds ==
    ASSUME ChatInv, NEW w \in Ids, Owns(w), Runs(work[w]), NEW item \in Items, Same(item, work[w]),
           NEW text \in {"outcome", "notice"}, item.said = "outcome" => text = "outcome",
           Release(w, item, Close(Visible, {work[w].row}, text)), payload' \in {payload, 0}, active' = NoRow,
           UNCHANGED <<pending, wallet, epoch, attaching, attached, submitted, dispatches>>
    PROVE  ChatInv'
<1> DEFINE rows == Close(Visible, {work[w].row}, text)
<1>1. pending' = NoCard /\ NoRow \in RowIds /\ Show(rows) /\ streaming' \in BOOLEAN /\ controller' = 0
    BY Transacting DEF Release, NoRow, RowIds
<1>2. /\ work' \in Seq(Items) /\ Len(work') = Len(work) /\ Ids' = Ids
      /\ work'[w].said = item.said /\ \A v \in Ids \ {w} : work'[v] = work[v]
      /\ Kept /\ OwnerActs' /\ Open' = {}
    BY Freed
<1>3. /\ RowsTyped(rows) /\ DOMAIN rows = DOMAIN Visible
      /\ \A r \in DOMAIN Visible : /\ r = work[w].row => rows[r].st = "closed" /\ rows[r].text = text
                                   /\ r # work[w].row => rows[r] = Visible[r]
    <2>1. RowsTyped(Visible) /\ text \in Texts
        BY VisibleTyped DEF ChatInv, Texts
    <2>2. QED
        BY <2>1, CloseShape
<1> HIDE DEF rows
<1>4. StoreTyped'
    <2>1. dispatches' \in Nat /\ controller' \in 0..Len(work') /\ active' \in RowIds
        BY <1>1, <1>2 DEF ChatInv, StoreTyped
    <2>2. QED
        BY <1>1, <1>2, <1>3, <2>1, StaysTyped
<1>5. Authority'
    <2>1. CardStands'
        BY <1>1 DEF CardStands
    <2>2. UsedOnce'
        BY <1>1, <1>2, StillUsedOnce
    <2>3. QED
        BY <1>2, <2>1, <2>2 DEF Authority
<1>6. Display'
    BY <1>1, <1>2, <1>3, TransactionDraws
<1>7. QED
    BY <1>4, <1>5, <1>6 DEF ChatInv

LEMMA TransactionThrowsStep ==
    ASSUME ChatInv, NEW w \in Ids, TransactionThrows(w)
    PROVE  ChatInv'
<1>1. Owns(w) /\ Runs(work[w]) /\ Same(work[w], work[w])
    BY DEF TransactionThrows, ContextIsCurrent, Runs, Same
<1>2. work[w] \in Items /\ work[w].said # "outcome"
    BY <1>1, Transacting
<1>3. Release(w, work[w], Close(Visible, {work[w].row}, "notice")) /\ payload' \in {payload, 0}
    BY DEF TransactionThrows, EndTurn
<1>4. QED
    BY <1>1, <1>2, <1>3, TransactionEnds DEF TransactionThrows

LEMMA TransactionReturnsStep ==
    ASSUME ChatInv, NEW w \in Ids, TransactionReturns(w)
    PROVE  ChatInv'
<1> DEFINE rows == Close(Visible, {work[w].row}, "outcome")
           over == [work[w] EXCEPT !.said = "outcome"]
           item == [over EXCEPT !.pc = "followup"]
           shown == Add(rows, Row(w, 0), Spinning(0))
<1>1. Owns(w) /\ Runs(work[w])
    BY DEF TransactionReturns, ContextIsCurrent, Runs
<1>2. /\ controller = w /\ controller # 0 /\ ~Done(w) /\ work[w] \in Items /\ OfContext(work[w]) /\ wallet.client
      /\ work[w].kind = "confirm" /\ OfDone(work[w]) /\ work[w].row[1] # w
      /\ work[w].collected = {} /\ work[w].epoch = epoch /\ pending = NoCard /\ Open = {}
    BY <1>1, Transacting
<1>3. /\ IF work[w].aborted THEN EndTurn(w, over, rows) ELSE Proceed(w, item, shown)
      /\ active' = NoRow
      /\ UNCHANGED <<pending, wallet, epoch, attaching, attached, submitted, dispatches>>
    BY DEF TransactionReturns
<1>4. /\ over \in Items /\ over.said = "outcome" /\ Same(over, work[w]) /\ over.epoch = work[w].epoch
      /\ over.collected = work[w].collected /\ over.turn = work[w].turn
    BY <1>2, SaidTyped
<1> HIDE DEF over
<1>5. CASE work[w].aborted
    <2>1. Release(w, over, rows) /\ payload' \in {payload, 0}
        BY <1>3, <1>5 DEF EndTurn
    <2>2. QED
        BY <1>1, <1>3, <1>4, <2>1, TransactionEnds
<1>6. CASE ~work[w].aborted
    <2>1. Proceed(w, item, shown)
        BY <1>3, <1>6
    <2>2. /\ item \in Items /\ Same(item, work[w]) /\ item.epoch = epoch /\ item.pc = "followup" /\ item.said = "outcome"
          /\ item.kind = "confirm" /\ item.collected = {} /\ item.turn = work[w].turn
        BY <1>2, <1>4 DEF Items, Same, Stages
    <2> HIDE DEF item
    <2>3. /\ work' \in Seq(Items) /\ Len(work') = Len(work) /\ Ids' = Ids
          /\ work'[w] = item /\ \A v \in Ids \ {w} : work'[v] = work[v]
        BY <2>1, <2>2, Replaced DEF Proceed, ChatInv
    <2>4. Kept
        BY <1>2, <2>2, <2>3 DEF Kept, Same, Done
    <2>5. /\ RowsTyped(rows) /\ DOMAIN rows = DOMAIN Visible
          /\ \A r \in DOMAIN Visible : /\ r = work[w].row => rows[r].st = "closed" /\ rows[r].text = "outcome"
                                       /\ r # work[w].row => rows[r] = Visible[r]
        <3>1. RowsTyped(Visible) /\ "outcome" \in Texts
            BY VisibleTyped DEF ChatInv, Texts
        <3>2. QED
            BY <3>1, CloseShape
    <2> HIDE DEF rows
    <2>6. Row(w, 0) \in RowIds /\ Row(w, 0)[1] = w /\ Row(w, 0) # work[w].row
        BY <1>2, RowShape DEF ChatInv
    <2>7. Spinning(0) \in Entries /\ Spinning(0).st = "streaming" /\ Spinning(0).text = ""
        BY SpinningShape
    <2>8. /\ RowsTyped(shown) /\ DOMAIN shown = DOMAIN rows \cup {Row(w, 0)} /\ shown[Row(w, 0)] = Spinning(0)
          /\ \A x \in DOMAIN rows \ {Row(w, 0)} : shown[x] = rows[x]
        <3>1. ASSUME NEW x \in RowIds, NEW row \in Entries
              PROVE  /\ RowsTyped(Add(rows, x, row)) /\ DOMAIN Add(rows, x, row) = DOMAIN rows \cup {x}
                     /\ Add(rows, x, row)[x] = row
                     /\ \A y \in DOMAIN rows \ {x} : Add(rows, x, row)[y] = rows[y]
            <4>1. RowsTyped(rows)
                BY <2>5
            <4>2. QED
                BY ONLY <4>1, x \in RowIds, row \in Entries, AddShape
        <3>2. QED
            BY <2>6, <2>7, <3>1
    <2> HIDE DEF shown
    <2>9. Open' = {Row(w, 0)}
        <3>1. Open' = {<<w, item.turn, n>> : n \in OpenAt(item)}
            BY <1>1, <2>1, <2>2, OpenNext
        <3>2. OpenAt(item) = {0}
            BY <2>2 DEF OpenAt
        <3>3. QED
            BY <2>2, <3>1, <3>2 DEF Row
    <2>10. pending' = NoCard /\ Show(shown) /\ UNCHANGED <<streaming, controller, payload>>
        BY <1>2, <1>3, <2>1 DEF Proceed
    <2>11. StoreTyped'
        <3>1. /\ dispatches' \in Nat /\ controller' \in 0..Len(work') /\ active' \in RowIds /\ streaming' \in BOOLEAN
              /\ payload' \in {payload, 0}
            BY <1>3, <2>3, <2>10 DEF ChatInv, StoreTyped, NoRow, RowIds
        <3>2. QED
            BY <1>3, <2>3, <2>8, <2>10, <3>1, StaysTyped
    <2>12. Authority'
        <3>1. OwnerActs'
            <4>1. Stage(item) /\ epoch <= epoch
                BY <2>2 DEF Stage, Runs, ChatInv, StoreTyped
            <4>2. ASSUME NEW v \in Ids
                  PROVE  work'[v].epoch <= epoch /\ Stage(work'[v])
                         /\ ((work'[v].pc # "done" /\ work'[v].epoch = epoch) <=> v = w)
                <5>1. CASE v = w
                    BY <2>2, <2>3, <4>1, <5>1
                <5>2. CASE v # w
                    BY <1>2, <2>3, <5>2 DEF ChatInv, Authority, OwnerActs, Done
                <5>3. QED
                    BY <5>1, <5>2
            <4>3. streaming <=> controller # 0
                BY DEF ChatInv, Authority, OwnerActs
            <4>4. QED
                BY <1>2, <1>3, <2>2, <2>3, <2>10, <4>2, <4>3 DEF OwnerActs, Done, Same, OfContext
        <3>2. CardStands'
            BY <1>3, <2>10 DEF CardStands
        <3>3. UsedOnce'
            BY <1>3, <2>3, <2>4, <2>10, StillUsedOnce
        <3>4. QED
            BY <3>1, <3>2, <3>3 DEF Authority
    <2>13. Display'
        <3>1. ASSUME NEW r \in DOMAIN shown
              PROVE  \/ r \in DOMAIN Visible /\ r # work[w].row /\ shown[r] = Visible[r]
                     \/ r \in DOMAIN Visible /\ r = work[w].row /\ shown[r].st = "closed" /\ shown[r].text = "outcome"
                     \/ r[1] = w /\ r \in Open' /\ shown[r].st = "streaming" /\ shown[r].text = ""
            BY ZenonT(40), <2>5, <2>6, <2>7, <2>8, <2>9, <3>1
        <3>2. \A r \in Open' : r \in DOMAIN shown /\ shown[r].st = "streaming"
            BY <2>7, <2>8, <2>9
        <3>3. QED
            BY <1>1, <1>3, <2>3, <2>4, <2>10, <3>1, <3>2, TransactionDraws
    <2>14. QED
        BY <2>11, <2>12, <2>13 DEF ChatInv
<1>7. QED
    BY <1>5, <1>6

-----------------------------------------------------------------------------
(* Steps that leave the rows alone.                                         *)
LEMMA Untouched ==
    ASSUME ChatInv, Kept, Ids' = Ids, \A v \in Ids : work'[v].said = work[v].said,
           UNCHANGED <<wallet, pending, active, transcript>>, Open' = Open
    PROVE  Display'
<1>1. RowsFit'
    <2>1. ASSUME NEW a \in Addresses, NEW r \in DOMAIN transcript[a]
          PROVE  RowFits(a, r)'
        <3>1. RowFits(a, r)
            BY DEF ChatInv, Display, RowsFit
        <3>2. QED
            BY <3>1 DEF RowFits, Kept
    <2>2. QED
        BY <2>1 DEF RowsFit
<1>2. OnDisplay'
    BY DEF ChatInv, Display, OnDisplay, Visible
<1>3. RowsAreTold'
    BY DEF ChatInv, Display, RowsAreTold, Kept
<1>4. QED
    BY <1>1, <1>2, <1>3 DEF Display

LEMMA AttachmentStep ==
    ASSUME ChatInv, BeginAttach \/ EndAttach
    PROVE  ChatInv'
<1>1. UNCHANGED <<wallet, epoch, streaming, controller, pending, active, transcript, work, submitted, dispatches>>
    BY DEF BeginAttach, EndAttach
<1>2. Kept /\ Ids' = Ids /\ Open' = Open
    BY <1>1 DEF Kept, Ids, Open, Row, Done
<1>3. StoreTyped'
    <2>1. StoreTyped /\ wallet.address \in Addresses
        BY VisibleTyped DEF ChatInv
    <2>2. attached' \in Seq(Addresses) /\ payload' \in 0..Len(attached') /\ attaching' \in {Idle} \cup Nat
        <3>1. /\ attached \in Seq(Addresses) /\ Len(attached) \in Nat /\ payload \in 0..Len(attached)
              /\ attaching \in {Idle} \cup Nat /\ epoch \in Nat
            BY <2>1 DEF StoreTyped
        <3>2. CASE BeginAttach
            <4>1. attached' = Append(attached, wallet.address) /\ payload' = payload /\ attaching' = epoch
                BY <3>2 DEF BeginAttach
            <4>2. attached' \in Seq(Addresses) /\ Len(attached') = Len(attached) + 1
                BY <2>1, <3>1, <4>1
            <4>3. QED
                BY <3>1, <4>1, <4>2
        <3>3. CASE EndAttach
            BY <3>1, <3>3 DEF EndAttach
        <3>4. QED
            BY <3>2, <3>3
    <2>3. QED
        BY <1>1, <2>1, <2>2 DEF StoreTyped
<1>4. Authority'
    BY <1>1 DEF ChatInv, Authority, OwnerActs, CardStands, UsedOnce, OfDone, Current, OfContext, Done, Ids
<1>5. Display'
    BY <1>1, <1>2, Untouched
<1>6. QED
    BY <1>3, <1>4, <1>5 DEF ChatInv

LEMMA AbortedShape ==
    ASSUME StoreTyped, work' = Aborted
    PROVE  /\ work' \in Seq(Items) /\ Len(work') = Len(work) /\ Ids' = Ids
           /\ \A v \in Ids : /\ work'[v].kind = work[v].kind /\ work'[v].pc = work[v].pc
                             /\ work'[v].epoch = work[v].epoch /\ work'[v].wallet = work[v].wallet
                             /\ work'[v].gen = work[v].gen /\ work'[v].turn = work[v].turn
                             /\ work'[v].calls = work[v].calls /\ work'[v].at = work[v].at
                             /\ work'[v].collected = work[v].collected /\ work'[v].row = work[v].row
                             /\ work'[v].payload = work[v].payload /\ work'[v].seen = work[v].seen
                             /\ work'[v].said = work[v].said
<1>1. work \in Seq(Items) /\ Len(work) \in Nat /\ Ids = 1..Len(work)
    BY DEF StoreTyped, Ids
<1>2. ASSUME NEW i \in Items, NEW b \in BOOLEAN
      PROVE  /\ [i EXCEPT !.aborted = b] \in Items
             /\ [i EXCEPT !.aborted = b].kind = i.kind /\ [i EXCEPT !.aborted = b].pc = i.pc
             /\ [i EXCEPT !.aborted = b].epoch = i.epoch /\ [i EXCEPT !.aborted = b].wallet = i.wallet
             /\ [i EXCEPT !.aborted = b].gen = i.gen /\ [i EXCEPT !.aborted = b].turn = i.turn
             /\ [i EXCEPT !.aborted = b].calls = i.calls /\ [i EXCEPT !.aborted = b].at = i.at
             /\ [i EXCEPT !.aborted = b].collected = i.collected /\ [i EXCEPT !.aborted = b].row = i.row
             /\ [i EXCEPT !.aborted = b].payload = i.payload /\ [i EXCEPT !.aborted = b].seen = i.seen
             /\ [i EXCEPT !.aborted = b].said = i.said
    BY DEF Items
<1>3. ASSUME NEW i \in Items
      PROVE  [i EXCEPT !.aborted = i.aborted] = i
    BY DEF Items
<1>4. DOMAIN work' = Ids
    BY DEF Aborted
<1>5. ASSUME NEW v \in Ids
      PROVE  \E b \in BOOLEAN : work'[v] = [work[v] EXCEPT !.aborted = b]
    <2>1. work[v] \in Items
        BY <1>1
    <2>2. work[v].aborted \in BOOLEAN
        BY <2>1, ItemShape
    <2>3. work'[v] = IF v = controller THEN [work[v] EXCEPT !.aborted = TRUE] ELSE work[v]
        BY DEF Aborted
    <2>4. CASE v = controller
        BY <2>3, <2>4
    <2>5. CASE v # controller
        BY <1>3, <2>1, <2>2, <2>3, <2>5
    <2>6. QED
        BY <2>4, <2>5
<1>6. ASSUME NEW v \in Ids
      PROVE  /\ work'[v] \in Items
             /\ work'[v].kind = work[v].kind /\ work'[v].pc = work[v].pc
             /\ work'[v].epoch = work[v].epoch /\ work'[v].wallet = work[v].wallet
             /\ work'[v].gen = work[v].gen /\ work'[v].turn = work[v].turn
             /\ work'[v].calls = work[v].calls /\ work'[v].at = work[v].at
             /\ work'[v].collected = work[v].collected /\ work'[v].row = work[v].row
             /\ work'[v].payload = work[v].payload /\ work'[v].seen = work[v].seen
             /\ work'[v].said = work[v].said
    <2>1. PICK b \in BOOLEAN : work'[v] = [work[v] EXCEPT !.aborted = b]
        BY <1>5
    <2>2. work[v] \in Items
        BY <1>1
    <2>3. QED
        BY <1>2, <2>1, <2>2
<1>7. work' \in [1..Len(work) -> Items]
    <2>1. work' = [v \in Ids |-> IF v = controller THEN [work[v] EXCEPT !.aborted = TRUE] ELSE work[v]]
        BY DEF Aborted
    <2>2. QED
        BY <1>1, <1>6, <2>1
<1>8. work' \in Seq(Items) /\ Len(work') = Len(work)
    BY <1>1, <1>7
<1>9. Ids' = Ids
    BY <1>8 DEF Ids
<1>10. QED
    BY <1>6, <1>8, <1>9

LEMMA StopStep ==
    ASSUME ChatInv, Stop
    PROVE  ChatInv'
<1>1. /\ UNCHANGED <<wallet, epoch, streaming, controller, pending, active, payload,
                     attaching, attached, cache, transcript, submitted, dispatches>>
      /\ work' = Aborted /\ controller # 0 /\ StoreTyped
    BY DEF Stop, ChatInv
<1>2. /\ work' \in Seq(Items) /\ Len(work') = Len(work) /\ Ids' = Ids
      /\ \A v \in Ids : /\ work'[v].kind = work[v].kind /\ work'[v].pc = work[v].pc
                        /\ work'[v].epoch = work[v].epoch /\ work'[v].wallet = work[v].wallet
                        /\ work'[v].gen = work[v].gen /\ work'[v].turn = work[v].turn
                        /\ work'[v].calls = work[v].calls /\ work'[v].at = work[v].at
                        /\ work'[v].collected = work[v].collected /\ work'[v].row = work[v].row
                        /\ work'[v].said = work[v].said
    BY <1>1, AbortedShape
<1>3. Kept
    BY <1>2 DEF Kept, Done
<1>4. Open' = Open
    <2>1. controller \in Ids
        BY <1>1, WorkShape
    <2>2. OpenAt(work'[controller]) = OpenAt(work[controller])
        BY <1>2, <2>1 DEF OpenAt
    <2>3. work'[controller].turn = work[controller].turn
        BY <1>2, <2>1
    <2>4. QED
        BY <1>1, <2>2, <2>3 DEF Open, Row
<1>5. StoreTyped'
    BY <1>1, <1>2 DEF StoreTyped
<1>6. Authority'
    <2>1. OwnerActs'
        <3>1. ASSUME NEW v \in Ids PROVE Stage(work[v])' /\ (Approved(work[v]) <=> Approved(work[v])')
            <4>1. Stage(work[v])
                BY DEF ChatInv, Authority, OwnerActs
            <4>2. /\ work'[v].kind = work[v].kind /\ work'[v].pc = work[v].pc /\ work'[v].calls = work[v].calls
                  /\ work'[v].at = work[v].at /\ work'[v].collected = work[v].collected
                  /\ work'[v].said = work[v].said
                BY <1>2
            <4>3. QED
                BY <4>1, <4>2 DEF Stage, Runs, Approved
        <3>2. controller \in Ids
            BY <1>1, WorkShape
        <3>3. QED
            BY <1>1, <1>2, <3>1, <3>2 DEF ChatInv, Authority, OwnerActs, OfContext, Done
    <2>2. CardStands'
        <3>1. controller \in Ids
            BY <1>1, WorkShape
        <3>2. pending # NoCard => OfDone(pending)'
            BY <1>1, <1>2 DEF ChatInv, Authority, CardStands, OfDone, Done
        <3>3. QED
            BY <1>1, <1>2, <3>1, <3>2 DEF ChatInv, Authority, CardStands, Current, Runs
    <2>3. UsedOnce'
        BY <1>1, <1>2, <1>3, StillUsedOnce
    <2>4. QED
        BY <2>1, <2>2, <2>3 DEF Authority
<1>7. Display'
    BY <1>1, <1>2, <1>3, <1>4, Untouched
<1>8. QED
    BY <1>5, <1>6, <1>7 DEF ChatInv

LEMMA SubmitStep ==
    ASSUME ChatInv, NEW w \in Ids, Submit(w)
    PROVE  ChatInv'
<1> DEFINE item == [work[w] EXCEPT !.pc = "sent"]
<1>1. /\ work[w].pc = "execute" /\ Current(work[w]) /\ work[w] \in Items /\ StoreTyped /\ Stage(work[w])
      /\ UNCHANGED <<wallet, epoch, streaming, controller, pending, active, payload,
                     attaching, attached, cache, transcript, dispatches>>
    BY WorkShape DEF Submit, ChatInv, Authority, OwnerActs
<1>2. work' = [work EXCEPT ![w] = item]
    BY DEF Submit
<1>3. /\ item \in Items /\ item.pc = "sent" /\ item.kind = work[w].kind /\ item.epoch = work[w].epoch
      /\ item.wallet = work[w].wallet /\ item.gen = work[w].gen /\ item.row = work[w].row
      /\ item.collected = work[w].collected /\ item.said = work[w].said /\ item.turn = work[w].turn
    BY <1>1 DEF Items, Stages
<1> HIDE DEF item
<1>4. /\ work' \in Seq(Items) /\ Len(work') = Len(work) /\ Ids' = Ids
      /\ work'[w] = item /\ \A v \in Ids \ {w} : work'[v] = work[v]
    BY <1>1, <1>2, <1>3, Replaced
<1>5. Kept
    BY <1>1, <1>3, <1>4 DEF Kept, Done
<1>6. work[w].kind = "confirm" /\ OfDone(work[w])
    <2>1. work[w].kind = "confirm"
        BY <1>1 DEF Stage, Items, Kinds
    <2>2. QED
        BY <2>1 DEF ChatInv, Authority, UsedOnce
<1>7. Open' = Open
    <2>1. CASE controller = w
        <3>1. OpenAt(work'[w]) = {} /\ OpenAt(work[w]) = {}
            BY <1>1, <1>3, <1>4 DEF OpenAt
        <3>2. QED
            BY <1>1, <2>1, <3>1 DEF Open
    <2>2. CASE controller # w /\ controller # 0
        <3>1. controller \in Ids
            BY <1>1, <2>2, WorkShape
        <3>2. work'[controller] = work[controller]
            BY <1>4, <2>2, <3>1
        <3>3. QED
            BY <1>1, <2>2, <3>2 DEF Open, Row
    <2>3. CASE controller = 0
        BY <1>1, <2>3 DEF Open
    <2>4. QED
        BY <2>1, <2>2, <2>3
<1>8. StoreTyped'
    BY <1>1, <1>4 DEF StoreTyped
<1>9. Authority'
    <2>1. OwnerActs'
        <3>1. Stage(item) /\ (Approved(item) <=> Approved(work[w]))
            BY <1>1, <1>3 DEF Stage, Runs, Approved
        <3>2. ASSUME NEW v \in Ids
              PROVE  /\ work'[v].epoch = work[v].epoch /\ Stage(work'[v]) /\ (work'[v].pc = "done" <=> work[v].pc = "done")
                     /\ work'[v].wallet = work[v].wallet /\ work'[v].gen = work[v].gen
                     /\ Approved(work'[v]) <=> Approved(work[v])
            <4>1. CASE v = w
                BY <1>1, <1>3, <1>4, <3>1, <4>1
            <4>2. CASE v # w
                BY <1>4, <4>2 DEF ChatInv, Authority, OwnerActs
            <4>3. QED
                BY <4>1, <4>2
        <3>3. controller # 0 => controller \in Ids
            BY <1>1, WorkShape
        <3>4. OwnerActs
            BY DEF ChatInv, Authority
        <3>5. QED
            BY <1>1, <1>4, <3>2, <3>3, <3>4 DEF OwnerActs, OfContext, Done
    <2>2. CardStands'
        <3>1. controller # 0 => controller \in Ids
            BY <1>1, WorkShape
        <3>2. CardStands
            BY DEF ChatInv, Authority
        <3>3. ASSUME controller # 0
              PROVE  /\ work'[controller].pc = "replan" <=> work[controller].pc = "replan"
                     /\ Runs(work'[controller]) <=> Runs(work[controller])
                     /\ work'[controller].row = work[controller].row
            BY <1>1, <1>3, <1>4, <3>1, <3>3 DEF Runs
        <3>4. pending # NoCard => OfDone(pending)'
            BY <1>1, <1>4, <1>5, <3>2 DEF CardStands, OfDone, Done, Kept
        <3>5. QED
            BY <1>1, <3>2, <3>3, <3>4 DEF CardStands, Current
    <2>3. UsedOnce'
        <3>1. UsedOnce
            BY DEF ChatInv, Authority
        <3>2. ASSUME NEW s \in submitted'
              PROVE  \E v \in Ids : /\ work'[v].kind = "confirm" /\ work'[v].row = s.row
                                    /\ work'[s.row[1]].wallet = s.address /\ work'[s.row[1]].gen = s.gen
            <4>1. CASE s \in submitted
                <5>1. PICK v \in Ids : /\ work[v].kind = "confirm" /\ work[v].row = s.row
                                       /\ work[s.row[1]].wallet = s.address /\ work[s.row[1]].gen = s.gen
                    BY <3>1, <4>1 DEF UsedOnce
                <5>2. s.row[1] \in Ids
                    BY <3>1, <5>1 DEF UsedOnce, OfDone
                <5>3. QED
                    BY <5>1, <5>2, <1>5 DEF Kept
            <4>2. CASE s = [row |-> work[w].row, address |-> wallet.address, gen |-> wallet.gen]
                BY <1>1, <1>5, <1>6, <4>2 DEF Kept, OfDone, Current
            <4>3. QED
                BY <4>1, <4>2 DEF Submit
        <3>3. \A v \in Ids : work'[v].kind = work[v].kind /\ work'[v].row = work[v].row
            BY <1>5 DEF Kept
        <3>4. \A v \in Ids : work'[v].kind \in {"confirm", "replan"} => OfDone(work[v])'
            BY SMTT(30), <1>4, <1>5, <3>1 DEF UsedOnce, OfDone, Kept, Done
        <3>5. QED
            BY <1>1, <1>4, <3>1, <3>2, <3>3, <3>4 DEF UsedOnce
    <2>4. QED
        BY <2>1, <2>2, <2>3 DEF Authority
<1>10. Display'
    <2>1. \A v \in Ids : work'[v].said = work[v].said
        BY <1>3, <1>4
    <2>2. QED
        BY <1>1, <1>4, <1>5, <1>7, <2>1, Untouched
<1>11. QED
    BY <1>8, <1>9, <1>10 DEF ChatInv

-----------------------------------------------------------------------------
(* Work that lost the chat comes to its end.                                *)
LEMMA Lapsed ==
    ASSUME ChatInv, NEW w \in Ids, ~Done(w), controller # w, NEW item \in Items, Same(item, work[w]),
           work' = [work EXCEPT ![w] = Over(item)],
           UNCHANGED <<wallet, epoch, streaming, controller, pending, active, submitted>>
    PROVE  /\ work' \in Seq(Items) /\ Len(work') = Len(work) /\ Ids' = Ids
           /\ work'[w].said = item.said /\ \A v \in Ids \ {w} : work'[v] = work[v]
           /\ Kept /\ Authority' /\ Open' = Open
<1>1. /\ Over(item) \in Items /\ Over(item).pc = "done" /\ Over(item).epoch = 0 /\ Over(item).collected = {}
      /\ Over(item).kind = item.kind /\ Over(item).wallet = item.wallet /\ Over(item).gen = item.gen
      /\ Over(item).row = item.row /\ Over(item).said = item.said
    BY OverShape
<1>2. /\ work' \in Seq(Items) /\ Len(work') = Len(work) /\ Ids' = Ids
      /\ work'[w] = Over(item) /\ \A v \in Ids \ {w} : work'[v] = work[v]
    BY <1>1, Replaced DEF ChatInv
<1>3. Kept
    BY <1>1, <1>2 DEF Kept, Same, Done
<1>4. controller # 0 => controller \in Ids /\ work'[controller] = work[controller]
    BY <1>2, WorkShape DEF ChatInv
<1>5. Open' = Open
    BY <1>4 DEF Open, Row
<1>6. OwnerActs'
    <2>1. OwnerActs
        BY DEF ChatInv, Authority
    <2>2. ASSUME NEW v \in Ids
          PROVE  work'[v].epoch <= epoch /\ Stage(work'[v])
                 /\ ((work'[v].pc # "done" /\ work'[v].epoch = epoch) <=> v = controller)
        <3>1. CASE v = w
            <4>1. epoch \in Nat
                BY DEF ChatInv, StoreTyped
            <4>2. Stage(Over(item))
                BY <1>1 DEF Stage, Runs
            <4>3. QED
                BY <1>1, <1>2, <3>1, <4>1, <4>2
        <3>2. CASE v # w
            BY <1>2, <2>1, <3>2 DEF OwnerActs, Done
        <3>3. QED
            BY <3>1, <3>2
    <2>3. QED
        BY <1>2, <1>4, <2>1, <2>2 DEF OwnerActs, Done, OfContext
<1>7. CardStands'
    <2>1. CardStands
        BY DEF ChatInv, Authority
    <2>2. pending # NoCard => OfDone(pending)'
        BY <1>2, <1>3, <2>1 DEF CardStands, OfDone, Done, Kept
    <2>3. QED
        BY <1>4, <2>1, <2>2 DEF CardStands, Current
<1>8. UsedOnce'
    BY <1>2, <1>3, StillUsedOnce
<1>9. QED
    BY <1>1, <1>2, <1>3, <1>5, <1>6, <1>7, <1>8 DEF Authority

LEMMA AbandonStep ==
    ASSUME ChatInv, NEW w \in Ids, Abandon(w)
    PROVE  ChatInv'
<1>1. /\ ~Done(w) /\ controller # w /\ work[w] \in Items /\ Same(work[w], work[w])
      /\ work' = [work EXCEPT ![w] = Over(work[w])]
      /\ UNCHANGED <<wallet, epoch, streaming, controller, pending, active, payload,
                     attaching, attached, submitted, dispatches>>
    <2>1. controller = w => work[w].epoch = epoch
        BY WorkShape DEF ChatInv, Authority, OwnerActs
    <2>2. QED
        BY <2>1, WorkShape DEF Abandon, ChatInv, Owns, Done, Same
<1>2. /\ work' \in Seq(Items) /\ Len(work') = Len(work) /\ Ids' = Ids
      /\ \A v \in Ids : work'[v].said = work[v].said
      /\ Kept /\ Authority' /\ Open' = Open
    BY <1>1, Lapsed
<1>3. RowsTyped(Visible)
    BY VisibleTyped DEF ChatInv
<1>4. PICK rows :
        /\ RowsTyped(rows) /\ Show(rows) /\ DOMAIN rows = DOMAIN Visible
        /\ \A r \in DOMAIN rows : rows[r] = Visible[r] \/ (r[1] = w /\ rows[r].st = "closed")
    <2>1. CASE work[w].pc # "merge"
        <3>1. Show(Visible)
            BY <2>1 DEF Abandon
        <3>2. QED
            BY <1>3, <3>1
    <2>2. CASE work[w].pc = "merge"
        <3> DEFINE S == {Row(w, i) : i \in {j \in work[w].collected : work[w].calls[j] = "deploy"}}
                   rows == Close(Visible, S, "unsubmitted")
        <3>1. Show(rows)
            BY <2>2 DEF Abandon
        <3>2. \A r \in S : r[1] = w
            BY DEF Row
        <3> HIDE DEF S
        <3>3. /\ RowsTyped(rows) /\ DOMAIN rows = DOMAIN Visible
              /\ \A r \in DOMAIN Visible : /\ r \in S => rows[r].st = "closed"
                                           /\ r \notin S => rows[r] = Visible[r]
            <4>1. "unsubmitted" \in Texts
                BY DEF Texts
            <4>2. QED
                BY <1>3, <4>1, CloseShape
        <3> HIDE DEF rows
        <3>4. QED
            BY <3>1, <3>2, <3>3
    <2>3. QED
        BY <2>1, <2>2
<1>5. StoreTyped'
    <2>1. /\ controller' \in 0..Len(work') /\ streaming' \in BOOLEAN /\ active' \in RowIds /\ dispatches' \in Nat
          /\ pending' = NoCard \/ pending' \in Cards
        BY <1>1, <1>2 DEF ChatInv, StoreTyped
    <2>2. QED
        BY <1>1, <1>2, <1>4, <2>1, StaysTyped
<1>6. \A r \in Open : r[1] # w
    BY <1>1, OpenOfOwner
<1>7. pending # NoCard => pending.row[1] # w
    BY <1>1 DEF ChatInv, Authority, CardStands, OfDone
<1>8. Display'
    <2>1. \A r \in DOMAIN rows : Explained(rows, r)
        BY <1>1, <1>2, <1>4 DEF Explained
    <2>2. RowsFit'
        BY <1>1, <1>2, <1>4, <2>1, Redrawn
    <2>3. ASSUME NEW v \in Ids', work'[v].kind = "confirm", work'[v].row \in DOMAIN rows
          PROVE  /\ v \in Ids /\ work'[v].said = work[v].said
                 /\ work'[v].row \in DOMAIN Visible /\ rows[work'[v].row] = Visible[work'[v].row]
        <3>1. v \in Ids /\ work[v].kind = "confirm" /\ work'[v].row = work[v].row
            BY <1>2, <2>3 DEF Kept
        <3>2. work[v].row[1] # w
            BY <1>1, <3>1 DEF ChatInv, Authority, UsedOnce, OfDone
        <3>3. QED
            BY <1>2, <1>4, <2>3, <3>1, <3>2
    <2>4. RowsAreTold'
        BY <1>1, <1>2, <1>4, <2>3, Retold
    <2>5. OnDisplay'
        <3>1. Visible' = rows
            BY <1>1, <1>4, ShowShape DEF ChatInv
        <3>2. /\ \A r \in Open : r \in DOMAIN Visible /\ Visible[r].st = "streaming"
              /\ pending # NoCard => pending.row \in DOMAIN Visible /\ Visible[pending.row].st = "waiting"
            BY DEF ChatInv, Display, OnDisplay
        <3>3. QED
            BY <1>1, <1>2, <1>4, <1>6, <1>7, <3>1, <3>2 DEF OnDisplay
    <2>6. QED
        BY <2>2, <2>4, <2>5 DEF Display
<1>9. QED
    BY <1>2, <1>5, <1>8 DEF ChatInv

LEMMA LateResultStep ==
    ASSUME ChatInv, NEW w \in Ids, LateResult(w)
    PROVE  ChatInv'
<1>1. /\ Runs(work[w]) /\ work[w] \in Items /\ ~Done(w) /\ work[w].kind = "confirm" /\ OfDone(work[w])
      /\ controller # w
      /\ UNCHANGED <<wallet, epoch, streaming, controller, pending, active, payload,
                     attaching, attached, submitted, dispatches>>
    <2>1. Runs(work[w]) /\ work[w] \in Items /\ Stage(work[w]) /\ ~ContextIsCurrent(w)
          /\ UNCHANGED <<wallet, epoch, streaming, controller, pending, active, payload,
                         attaching, attached, submitted, dispatches>>
        BY WorkShape DEF LateResult, Runs, ChatInv, Authority, OwnerActs
    <2>2. ~Done(w) /\ work[w].kind = "confirm"
        BY <2>1 DEF Stage, Items, Kinds, Runs, Done
    <2>3. OfDone(work[w])
        BY <2>2 DEF ChatInv, Authority, UsedOnce
    <2>4. ASSUME controller = w PROVE FALSE
        <3>1. Owns(w)
            BY <2>4 DEF ChatInv, Authority, OwnerActs, Owns
        <3>2. QED
            BY <2>1, <3>1, Transacting DEF ContextIsCurrent, Current, OfContext
    <2>5. QED
        BY <2>1, <2>2, <2>3, <2>4
<1>2. PICK text \in {"outcome", "interrupted"} :
         /\ transcript' = [transcript EXCEPT ![work[w].wallet] = Close(@, {work[w].row}, text)]
         /\ work' = [work EXCEPT ![w] = Over([@ EXCEPT !.said = IF text = "outcome" THEN text ELSE ""])]
    BY DEF LateResult
<1> DEFINE said == IF text = "outcome" THEN text ELSE ""
           item == [work[w] EXCEPT !.said = said]
           home == work[w].wallet
           told == work[w].row
           rows == Close(transcript[home], {told}, text)
<1>3. item \in Items /\ item.said = said /\ Same(item, work[w]) /\ work' = [work EXCEPT ![w] = Over(item)]
    <2>1. said \in {"", "card", "answer", "stranded", "outcome"}
        OBVIOUS
    <2>2. work' = [work EXCEPT ![w] = Over(item)]
        BY <1>2
    <2> HIDE DEF said
    <2>3. item \in Items /\ item.said = said /\ Same(item, work[w])
        BY <1>1, <2>1, SaidTyped
    <2>4. QED
        BY <2>2, <2>3
<1> HIDE DEF item
<1>4. /\ work' \in Seq(Items) /\ Len(work') = Len(work) /\ Ids' = Ids
      /\ work'[w].said = said /\ \A v \in Ids \ {w} : work'[v] = work[v]
      /\ Kept /\ Authority' /\ Open' = Open
    BY <1>1, <1>3, Lapsed
<1>5. home \in Addresses /\ RowsTyped(transcript[home])
    BY <1>1, ItemShape DEF ChatInv, StoreTyped, RowsTyped
<1>6. /\ RowsTyped(rows) /\ DOMAIN rows = DOMAIN transcript[home]
      /\ \A r \in DOMAIN rows : /\ r = told => rows[r].st = "closed" /\ rows[r].text = text
                                /\ r # told => rows[r] = transcript[home][r]
    <2>1. text \in Texts
        BY DEF Texts
    <2>2. QED
        BY <1>5, <2>1, CloseShape
<1>7. /\ DOMAIN transcript' = Addresses /\ transcript'[home] = rows
      /\ \A a \in Addresses \ {home} : transcript'[a] = transcript[a]
    BY <1>2, <1>5 DEF ChatInv, StoreTyped
<1> HIDE DEF rows
<1>8. StoreTyped'
    BY ZenonT(40), <1>1, <1>4, <1>6, <1>7 DEF ChatInv, StoreTyped, RowsTyped
<1>9. /\ told[1] \in Ids /\ Done(told[1]) /\ told[1] # w /\ work[told[1]].wallet = home
      /\ told \notin Open /\ told # active /\ (pending # NoCard => told # pending.row)
    <2>1. told[1] \in Ids /\ Done(told[1]) /\ told[1] # w /\ work[told[1]].wallet = home
        BY <1>1 DEF OfDone
    <2>2. told \notin Open
        <3>1. ASSUME told \in Open PROVE FALSE
            <4>1. controller # 0 /\ told[1] = controller
                BY <3>1, OpenOfOwner
            <4>2. ~Done(controller)
                BY <4>1, WorkShape DEF ChatInv, Authority, OwnerActs
            <4>3. QED
                BY <2>1, <4>1, <4>2
        <3>2. QED
            BY <3>1
    <2>3. told # active
        <3>1. ASSUME told = active PROVE FALSE
            <4>1. told # NoRow
                BY <2>1, RowOfWork
            <4>2. controller # 0 /\ Runs(work[controller]) /\ active = work[controller].row
                BY <3>1, <4>1 DEF ChatInv, Authority, CardStands
            <4>3. controller \in Ids
                BY <4>2, WorkShape DEF ChatInv
            <4>4. Stage(work[controller]) /\ work[controller] \in Items
                BY <4>3, WorkShape DEF ChatInv, Authority, OwnerActs
            <4>5. work[controller].kind = "confirm"
                BY <4>2, <4>4 DEF Stage, Runs, Items, Kinds
            <4>6. QED
                BY <1>1, <3>1, <4>2, <4>3, <4>5 DEF ChatInv, Authority, UsedOnce
        <3>2. QED
            BY <3>1
    <2>4. pending # NoCard => told # pending.row
        BY <1>1 DEF ChatInv, Authority, UsedOnce
    <2>5. QED
        BY <2>1, <2>2, <2>3, <2>4
<1>10. \A v \in Ids : work[v].said = "stranded" => work'[v].said = "stranded"
    <2>1. \A v \in Ids : work[v].said = "stranded" => Done(v)
        BY DEF ChatInv, Authority, OwnerActs, Stage, Done
    <2>2. QED
        BY <1>1, <1>4, <2>1
<1>11. RowsFit'
    <2>1. ASSUME NEW a \in Addresses, NEW r \in DOMAIN transcript[a], transcript'[a][r] = transcript[a][r]
          PROVE  RowFits(a, r)'
        <3>1. RowFits(a, r)
            BY DEF ChatInv, Display, RowsFit
        <3>2. QED
            BY <1>1, <1>4, <1>10, <2>1, <3>1 DEF RowFits, Kept
    <2>2. ASSUME NEW a \in Addresses, NEW r \in DOMAIN transcript[a], a = home, r = told
          PROVE  RowFits(a, r)'
        <3>1. transcript'[a][r].st = "closed"
            BY <1>6, <1>7, <2>2
        <3>2. r[1] \in Ids' /\ work'[r[1]].wallet = a
            BY <1>4, <1>9, <2>2 DEF Kept
        <3>3. QED
            BY <3>1, <3>2 DEF RowFits
    <2> HIDE DEF home, told
    <2>3. ASSUME NEW a \in Addresses, NEW r \in DOMAIN transcript'[a]
          PROVE  RowFits(a, r)'
        <3>1. r \in DOMAIN transcript[a]
            BY <1>6, <1>7, <2>3
        <3>2. (a = home /\ r = told) \/ transcript'[a][r] = transcript[a][r]
            BY <1>6, <1>7, <2>3
        <3>3. QED
            BY <2>1, <2>2, <3>1, <3>2
    <2>4. QED
        BY <2>3 DEF RowsFit
<1>12. OnDisplay'
    <2>1. /\ \A r \in Open : r \in DOMAIN Visible /\ Visible[r].st = "streaming"
          /\ pending # NoCard => pending.row \in DOMAIN Visible /\ Visible[pending.row].st = "waiting"
        BY DEF ChatInv, Display, OnDisplay
    <2>2. \A r \in DOMAIN Visible : r # told => r \in DOMAIN Visible' /\ Visible'[r] = Visible[r]
        BY <1>1, <1>6, <1>7, VisibleTyped DEF Visible, ChatInv
    <2>3. QED
        BY <1>1, <1>4, <1>9, <2>1, <2>2 DEF OnDisplay
<1>13. RowsAreTold'
    <2>1. SUFFICES ASSUME NEW v \in Ids, NEW a \in Addresses, work[v].kind = "confirm", work[v].row \in DOMAIN transcript'[a]
                   PROVE  /\ transcript'[a][work[v].row].text # "unsubmitted"
                          /\ work'[v].said = "outcome" => transcript'[a][work[v].row].text = "outcome"
                                                          /\ transcript'[a][work[v].row].st = "closed"
        <3>1. \A v \in Ids' : v \in Ids /\ work'[v].kind = work[v].kind /\ work'[v].row = work[v].row
            BY <1>4 DEF Kept
        <3>2. QED
            BY <3>1 DEF RowsAreTold
    <2>2. work[v].row \in DOMAIN transcript[a]
        BY <1>6, <1>7, <2>1
    <2>3. v = w => a = home
        <3>1. RowFits(a, work[v].row)
            BY <2>2 DEF ChatInv, Display, RowsFit
        <3>2. QED
            BY <1>9, <3>1 DEF RowFits
    <2>4. CASE v = w
        BY ZenonT(40), <1>4, <1>6, <1>7, <2>1, <2>2, <2>3, <2>4
    <2>5. CASE v # w
        <3>1. work[v].row # told
            BY <1>1, <2>1, <2>5 DEF ChatInv, Authority, UsedOnce
        <3>2. transcript'[a][work[v].row] = transcript[a][work[v].row]
            BY <1>6, <1>7, <2>2, <3>1
        <3>3. QED
            BY ZenonT(40), <1>4, <2>1, <2>2, <2>5, <3>2 DEF ChatInv, Display, RowsAreTold
    <2>6. QED
        BY <2>4, <2>5
<1>14. QED
    BY <1>4, <1>8, <1>11, <1>12, <1>13 DEF ChatInv, Display

-----------------------------------------------------------------------------
(* A change of context: nobody has the chat, and every row it leaves is     *)
(* resolved.                                                                *)
LEMMA InterruptedShape ==
    ASSUME ChatInv
    PROVE  /\ RowsTyped(Interrupted(Visible)) /\ DOMAIN Interrupted(Visible) = DOMAIN Visible
           /\ \A r \in DOMAIN Visible :
                /\ Interrupted(Visible)[r].st = "closed"
                /\ Visible[r].st = "closed" /\ r # pending.row /\ r # active => Interrupted(Visible)[r] = Visible[r]
                /\ r # pending.row /\ (Visible[r].st # "closed" \/ r = active)
                      => Interrupted(Visible)[r].text \in {"interrupted", "notice"}
<1> DEFINE new(r) == CASE r = pending.row -> [Visible[r] EXCEPT !.st = "closed", !.text = "unsubmitted"]
                       [] r = active /\ r # pending.row -> [Visible[r] EXCEPT !.st = "closed", !.text = "interrupted"]
                       [] Visible[r].st = "streaming" /\ r \notin {pending.row, active}
                            -> [Visible[r] EXCEPT !.st = "closed", !.text = "notice"]
                       [] OTHER -> Visible[r]
<1>1. DOMAIN Interrupted(Visible) = DOMAIN Visible /\ \A r \in DOMAIN Visible : Interrupted(Visible)[r] = new(r)
    BY DEF Interrupted
<1>2. RowsTyped(Visible)
    BY VisibleTyped DEF ChatInv
<1>3. ASSUME NEW r \in DOMAIN Visible
      PROVE  /\ new(r) \in Entries /\ new(r).st = "closed"
             /\ Visible[r].st = "closed" /\ r # pending.row /\ r # active => new(r) = Visible[r]
             /\ r # pending.row /\ (Visible[r].st # "closed" \/ r = active) => new(r).text \in {"interrupted", "notice"}
    <2>1. /\ Visible[r] \in Entries
          /\ \A text \in Texts : /\ [Visible[r] EXCEPT !.st = "closed", !.text = text] \in Entries
                                 /\ [Visible[r] EXCEPT !.st = "closed", !.text = text].st = "closed"
                                 /\ [Visible[r] EXCEPT !.st = "closed", !.text = text].text = text
        BY <1>2 DEF RowsTyped, Entries, States
    <2>2. "unsubmitted" \in Texts /\ "interrupted" \in Texts /\ "notice" \in Texts
        BY DEF Texts
    <2>3. RowFits(wallet.address, r)
        BY VisibleTyped DEF ChatInv, Display, RowsFit, Visible
    <2>4. CASE r = pending.row
        BY <2>1, <2>2, <2>4
    <2>5. CASE r # pending.row /\ r = active
        BY <2>1, <2>2, <2>5
    <2>6. CASE r # pending.row /\ r # active /\ Visible[r].st = "streaming"
        BY <2>1, <2>2, <2>6
    <2>7. CASE r # pending.row /\ r # active /\ Visible[r].st # "streaming"
        <3>1. Visible[r].st # "waiting" /\ Visible[r].st # "inflight"
            BY <2>3, <2>7 DEF RowFits, Visible
        <3>2. Visible[r].st = "closed"
            BY <2>1, <2>7, <3>1 DEF Entries, States
        <3>3. new(r) = Visible[r]
            BY <2>7
        <3>4. QED
            BY <2>1, <2>7, <3>2, <3>3
    <2>8. QED
        BY <2>4, <2>5, <2>6, <2>7
<1> HIDE DEF new
<1>4. QED
    BY <1>1, <1>2, <1>3 DEF RowsTyped

LEMMA ContextGone ==
    ASSUME ChatInv, work' = Aborted, epoch' = epoch + 1, streaming' = FALSE, controller' = 0, pending' = NoCard,
           active' = NoRow, submitted' = submitted
    PROVE  /\ work' \in Seq(Items) /\ Len(work') = Len(work) /\ Ids' = Ids
           /\ \A v \in Ids : work'[v].said = work[v].said
           /\ Kept /\ Authority' /\ Open' = {}
<1>1. /\ work' \in Seq(Items) /\ Len(work') = Len(work) /\ Ids' = Ids
      /\ \A v \in Ids : /\ work'[v].kind = work[v].kind /\ work'[v].pc = work[v].pc
                        /\ work'[v].epoch = work[v].epoch /\ work'[v].wallet = work[v].wallet
                        /\ work'[v].gen = work[v].gen
                        /\ work'[v].calls = work[v].calls /\ work'[v].at = work[v].at
                        /\ work'[v].collected = work[v].collected /\ work'[v].row = work[v].row
                        /\ work'[v].said = work[v].said
    BY AbortedShape DEF ChatInv
<1>2. Kept
    BY <1>1 DEF Kept, Done
<1>3. OwnerActs'
    <2>1. ASSUME NEW v \in Ids
          PROVE  work'[v].epoch <= epoch' /\ work'[v].epoch # epoch' /\ Stage(work[v])' /\ v # 0
        <3>1. work[v].epoch \in Nat /\ epoch \in Nat /\ work[v].epoch <= epoch /\ Stage(work[v])
            BY WorkShape, ItemShape DEF ChatInv, Authority, OwnerActs, StoreTyped
        <3>2. v # 0
            BY DEF Ids
        <3>3. /\ work'[v].kind = work[v].kind /\ work'[v].pc = work[v].pc /\ work'[v].epoch = work[v].epoch
              /\ work'[v].calls = work[v].calls /\ work'[v].at = work[v].at
              /\ work'[v].collected = work[v].collected /\ work'[v].said = work[v].said
            BY <1>1
        <3>4. QED
            BY <3>1, <3>2, <3>3 DEF Stage, Runs
    <2>2. QED
        BY <1>1, <2>1 DEF OwnerActs
<1>4. CardStands'
    BY DEF CardStands
<1>5. UsedOnce'
    BY <1>1, <1>2, StillUsedOnce
<1>6. Open' = {}
    BY DEF Open
<1>7. QED
    BY <1>1, <1>2, <1>3, <1>4, <1>5, <1>6 DEF Authority

LEMMA ContextDraws ==
    ASSUME ChatInv, Kept, Ids' = Ids, \A v \in Ids : work'[v].said = work[v].said, Open' = {},
           pending' = NoCard, active' = NoRow, NEW rows, Show(rows), DOMAIN rows \subseteq DOMAIN Visible,
           \A r \in DOMAIN rows :
             /\ rows[r].st = "closed"
             /\ \/ rows[r] = Visible[r]
                \/ r = pending.row
                \/ /\ Visible[r].st # "closed" \/ r = active
                   /\ rows[r].text # "unsubmitted"
    PROVE  Display'
<1>1. /\ DOMAIN transcript' = Addresses /\ transcript'[wallet.address] = rows
      /\ \A a \in Addresses \ {wallet.address} : transcript'[a] = transcript[a]
    BY VisibleTyped DEF ChatInv, StoreTyped, Show
<1>2. \A a \in Addresses : \A r \in DOMAIN transcript'[a] : r \in DOMAIN transcript[a]
    BY <1>1 DEF Visible
<1>3. RowsFit'
    <2>1. ASSUME NEW a \in Addresses, NEW r \in DOMAIN transcript'[a]
          PROVE  RowFits(a, r)'
        <3>1. RowFits(a, r)
            BY <1>2, <2>1 DEF ChatInv, Display, RowsFit
        <3>2. r[1] \in Ids' /\ work'[r[1]].wallet = a
            BY <3>1 DEF RowFits, Kept
        <3>3. CASE a = wallet.address
            <4>1. transcript'[a][r].st = "closed"
                BY <1>1, <2>1, <3>3
            <4>2. QED
                BY <3>2, <4>1 DEF RowFits
        <3>4. CASE a # wallet.address
            <4>1. transcript'[a] = transcript[a]
                BY <1>1, <3>4
            <4>2. r[1] \in Ids
                BY <3>1 DEF RowFits
            <4>3. QED
                BY <3>1, <3>2, <3>4, <4>1, <4>2 DEF RowFits
        <3>5. QED
            BY <3>3, <3>4
    <2>2. QED
        BY <2>1 DEF RowsFit
<1>4. OnDisplay'
    BY DEF OnDisplay
<1>5. RowsAreTold'
    <2>1. \A v \in Ids' : v \in Ids /\ work'[v].kind = work[v].kind /\ work'[v].row = work[v].row
                          /\ work'[v].said = work[v].said
        BY DEF Kept
    <2>2. SUFFICES ASSUME NEW v \in Ids, NEW a \in Addresses, work[v].kind = "confirm", work[v].row \in DOMAIN transcript'[a]
                   PROVE  /\ transcript'[a][work[v].row].text # "unsubmitted"
                          /\ work[v].said = "outcome" => transcript'[a][work[v].row].text = "outcome"
                                                         /\ transcript'[a][work[v].row].st = "closed"
        BY <2>1 DEF RowsAreTold
    <2>3. /\ transcript[a][work[v].row].text # "unsubmitted"
          /\ work[v].said = "outcome" => transcript[a][work[v].row].text = "outcome"
                                         /\ transcript[a][work[v].row].st = "closed"
        BY <1>2, <2>2 DEF ChatInv, Display, RowsAreTold
    <2>4. CASE a # wallet.address
        BY <1>1, <2>2, <2>3, <2>4
    <2>5. CASE a = wallet.address
        <3>1. work[v].row # pending.row
            <4>1. work[v].row # NoRow
                BY <2>2, RowOfWork DEF ChatInv, Authority, UsedOnce, OfDone
            <4>2. QED
                BY <2>2, <4>1 DEF ChatInv, Authority, UsedOnce, NoCard
        <3>2. work[v].said = "outcome" => work[v].row # active
            <4>1. ASSUME work[v].row = active PROVE work[v].said # "outcome"
                <5>1. work[v].row # NoRow
                    BY <2>2, RowOfWork DEF ChatInv, Authority, UsedOnce, OfDone
                <5>2. controller # 0 /\ Runs(work[controller]) /\ active = work[controller].row
                    BY <4>1, <5>1 DEF ChatInv, Authority, CardStands
                <5>3. controller \in Ids
                    BY <5>2, WorkShape DEF ChatInv
                <5>4. Stage(work[controller]) /\ work[controller] \in Items
                    BY <5>3, WorkShape DEF ChatInv, Authority, OwnerActs
                <5>5. work[controller].kind = "confirm" /\ work[controller].said # "outcome"
                    BY <5>2, <5>4 DEF Stage, Runs, Items, Kinds
                <5>6. v = controller
                    BY <2>2, <4>1, <5>2, <5>3, <5>5 DEF ChatInv, Authority, UsedOnce
                <5>7. QED
                    BY <5>5, <5>6
            <4>2. QED
                BY <4>1
        <3>3. work[v].row \in DOMAIN rows /\ transcript'[a][work[v].row] = rows[work[v].row]
            BY <1>1, <2>2, <2>5
        <3>4. Visible = transcript[a]
            BY <2>5 DEF Visible
        <3>5. QED
            BY <2>3, <3>1, <3>2, <3>3, <3>4
    <2>6. QED
        BY <2>4, <2>5
<1>6. QED
    BY <1>3, <1>4, <1>5 DEF Display

LEMMA SetWalletContextStep ==
    ASSUME ChatInv, NEW address \in Addresses, NEW client \in BOOLEAN, SetWalletContext(address, client)
    PROVE  ChatInv'
<1> DEFINE rows == Interrupted(Visible)
<1>1. /\ work' = Aborted /\ epoch' = epoch + 1 /\ streaming' = FALSE /\ controller' = 0 /\ pending' = NoCard
      /\ active' = NoRow /\ payload' = 0 /\ Show(rows) /\ UNCHANGED <<attaching, attached, submitted, dispatches>>
      /\ wallet' = [address |-> address, client |-> client, gen |-> wallet.gen + IF client \/ wallet.client THEN 1 ELSE 0]
    BY DEF SetWalletContext
<1>2. /\ work' \in Seq(Items) /\ Len(work') = Len(work) /\ Ids' = Ids
      /\ \A v \in Ids : work'[v].said = work[v].said
      /\ Kept /\ Authority' /\ Open' = {}
    BY <1>1, ContextGone
<1>3. /\ RowsTyped(rows) /\ DOMAIN rows = DOMAIN Visible
      /\ \A r \in DOMAIN Visible :
           /\ rows[r].st = "closed"
           /\ Visible[r].st = "closed" /\ r # pending.row /\ r # active => rows[r] = Visible[r]
           /\ r # pending.row /\ (Visible[r].st # "closed" \/ r = active) => rows[r].text \in {"interrupted", "notice"}
    BY InterruptedShape
<1> HIDE DEF rows
<1>4. Display'
    <2>1. ASSUME NEW r \in DOMAIN rows
          PROVE  /\ rows[r].st = "closed"
                 /\ \/ rows[r] = Visible[r]
                    \/ r = pending.row
                    \/ /\ Visible[r].st # "closed" \/ r = active
                       /\ rows[r].text # "unsubmitted"
        BY <1>3, <2>1
    <2>2. DOMAIN rows \subseteq DOMAIN Visible
        BY <1>3
    <2>3. QED
        BY <1>1, <1>2, <2>1, <2>2, ContextDraws
<1>5. StoreTyped'
    <2>1. StoreTyped /\ wallet.address \in Addresses /\ wallet.gen \in Nat
        BY VisibleTyped DEF ChatInv
    <2>2. wallet' \in [address : Addresses, client : BOOLEAN, gen : Nat]
        <3>1. wallet.gen + (IF client \/ wallet.client THEN 1 ELSE 0) \in Nat
            BY <2>1
        <3>2. QED
            BY <1>1, <3>1
    <2>3. DOMAIN transcript' = Addresses /\ \A a \in Addresses : RowsTyped(transcript'[a])
        BY <1>1, <1>3, <2>1 DEF StoreTyped, Show, RowsTyped
    <2>4. epoch' \in Nat /\ payload' \in 0..Len(attached) /\ controller' \in 0..Len(work) /\ NoRow \in RowIds
        BY <1>1, <2>1 DEF StoreTyped, NoRow, RowIds
    <2>5. QED
        BY <1>1, <1>2, <2>1, <2>2, <2>3, <2>4 DEF StoreTyped, RowsTyped
<1>6. QED
    BY <1>2, <1>4, <1>5 DEF ChatInv

LEMMA ClearHistoryStep ==
    ASSUME ChatInv, ClearHistory
    PROVE  ChatInv'
<1>1. /\ work' = Aborted /\ epoch' = epoch + 1 /\ streaming' = FALSE /\ controller' = 0 /\ pending' = NoCard
      /\ active' = NoRow /\ payload' = 0 /\ Show(<<>>) /\ UNCHANGED <<wallet, attaching, attached, submitted, dispatches>>
    BY DEF ClearHistory
<1>2. /\ work' \in Seq(Items) /\ Len(work') = Len(work) /\ Ids' = Ids
      /\ \A v \in Ids : work'[v].said = work[v].said
      /\ Kept /\ Authority' /\ Open' = {}
    BY <1>1, ContextGone
<1>3. DOMAIN <<>> = {} /\ RowsTyped(<<>>)
    BY DEF RowsTyped
<1>4. Display'
    BY <1>1, <1>2, <1>3, ContextDraws
<1>5. StoreTyped'
    <2>1. StoreTyped /\ wallet.address \in Addresses
        BY VisibleTyped DEF ChatInv
    <2>2. DOMAIN transcript' = Addresses /\ \A a \in Addresses : RowsTyped(transcript'[a])
        BY <1>1, <1>3, <2>1 DEF StoreTyped, Show, RowsTyped
    <2>3. epoch' \in Nat /\ payload' \in 0..Len(attached) /\ controller' \in 0..Len(work) /\ NoRow \in RowIds
        BY <1>1, <2>1 DEF StoreTyped, NoRow, RowIds
    <2>4. QED
        BY <1>1, <1>2, <2>1, <2>2, <2>3 DEF StoreTyped, RowsTyped
<1>6. QED
    BY <1>2, <1>4, <1>5 DEF ChatInv

-----------------------------------------------------------------------------
(* The card is closed: cancelled, timed out, or refused as stale.           *)
LEMMA CardClosed ==
    ASSUME ChatInv, pending # NoCard, CloseCard,
           UNCHANGED <<wallet, epoch, streaming, controller, active, attaching, attached, work, submitted, dispatches>>
    PROVE  ChatInv'
<1> DEFINE rows == Close(Visible, {pending.row}, "unsubmitted")
<1>1. pending' = NoCard /\ payload' = 0 /\ Show(rows)
    BY DEF CloseCard
<1>2. Kept /\ Ids' = Ids /\ Open' = Open
    BY DEF Kept, Ids, Open, Row, Done
<1>3. controller # 0 => work[controller].pc = "replan"
    BY DEF ChatInv, Authority, CardStands
<1>4. Open = {} /\ active = NoRow
    <2>1. controller # 0 => ~Runs(work[controller]) /\ OpenAt(work[controller]) = {}
        BY <1>3 DEF Runs, OpenAt
    <2>2. QED
        BY <2>1 DEF Open, ChatInv, Authority, CardStands
<1>5. RowsTyped(Visible) /\ StoreTyped
    BY VisibleTyped DEF ChatInv
<1>6. /\ RowsTyped(rows) /\ DOMAIN rows = DOMAIN Visible
      /\ \A r \in DOMAIN Visible : /\ r = pending.row => rows[r].st = "closed"
                                   /\ r # pending.row => rows[r] = Visible[r]
    <2>1. "unsubmitted" \in Texts
        BY DEF Texts
    <2>2. QED
        BY <1>5, <2>1, CloseShape
<1> HIDE DEF rows
<1>7. StoreTyped'
    <2>1. /\ controller' \in 0..Len(work') /\ streaming' \in BOOLEAN /\ active' \in RowIds /\ dispatches' \in Nat
          /\ work' \in Seq(Items)
        BY <1>5 DEF StoreTyped
    <2>2. QED
        BY <1>1, <1>6, <2>1, StaysTyped
<1>8. Authority'
    <2>1. OwnerActs'
        BY DEF ChatInv, Authority, OwnerActs, OfContext, Done, Ids
    <2>2. CardStands'
        BY <1>1, <1>4 DEF CardStands
    <2>3. UsedOnce'
        BY <1>1, <1>2, StillUsedOnce
    <2>4. QED
        BY <2>1, <2>2, <2>3 DEF Authority
<1>9. Display'
    <2>1. ASSUME NEW r \in DOMAIN rows PROVE Explained(rows, r)
        <3>1. r[1] \in Ids
            BY <1>6, <2>1, VisibleTyped DEF ChatInv, Display, RowsFit, RowFits, Visible
        <3>2. r # NoRow
            BY <3>1, RowOfWork
        <3>3. QED
            BY <1>2, <1>4, <1>6, <2>1, <3>2 DEF Explained
    <2>2. RowsFit'
        BY <1>1, <1>2, <2>1, Redrawn
    <2>3. ASSUME NEW v \in Ids', work'[v].kind = "confirm", work'[v].row \in DOMAIN rows
          PROVE  work'[v].row \in DOMAIN Visible /\ rows[work'[v].row] = Visible[work'[v].row]
        <3>1. work[v].row # pending.row
            BY <1>2, <2>3 DEF ChatInv, Authority, UsedOnce
        <3>2. QED
            BY <1>6, <2>3, <3>1
    <2>4. RowsAreTold'
        BY <1>1, <1>2, <2>3, Retold
    <2>5. OnDisplay'
        BY <1>1, <1>2, <1>4 DEF OnDisplay
    <2>6. QED
        BY <2>2, <2>4, <2>5 DEF Display
<1>10. QED
    BY <1>7, <1>8, <1>9 DEF ChatInv

LEMMA CardClosedStep ==
    ASSUME ChatInv, CancelAction \/ ConfirmationTimeout \/ (pending # NoCard /\ RefuseStaleCard)
    PROVE  ChatInv'
BY CardClosed DEF CancelAction, ConfirmationTimeout, RefuseStaleCard

(* New work takes the chat: every row is as it was, or the new work's own.  *)
NewWork == Len(work) + 1

LEMMA Begun ==
    ASSUME ChatInv, controller = 0, NEW item \in Items, NEW rows, Begin(item, rows),
           item.epoch = epoch, OfContext(item), Stage(item), item.pc # "done", Approved(item) => wallet.client,
           UNCHANGED <<wallet, epoch>>
    PROVE  /\ work' \in Seq(Items) /\ Len(work') = Len(work) + 1 /\ Ids' = Ids \cup {NewWork}
           /\ NewWork \in Nat /\ NewWork \notin Ids /\ NewWork # 0 /\ controller' = NewWork
           /\ work'[NewWork] = item /\ \A v \in Ids : work'[v] = work[v]
           /\ Kept /\ OwnerActs' /\ Open = {} /\ Open' = {<<NewWork, item.turn, n>> : n \in OpenAt(item)}
<1>1. StoreTyped /\ Len(work) \in Nat /\ epoch \in Nat
    BY WorkShape DEF ChatInv, StoreTyped
<1>2. streaming' = TRUE /\ controller' = NewWork /\ work' = Append(work, item)
    BY DEF Begin, NewWork
<1>3. /\ work' \in Seq(Items) /\ Len(work') = Len(work) + 1 /\ Ids' = Ids \cup {NewWork}
      /\ NewWork \notin Ids /\ NewWork # 0
      /\ work'[NewWork] = item /\ \A v \in Ids : work'[v] = work[v]
    BY <1>1, <1>2, Appended DEF NewWork
<1>4. NewWork \in Nat
    BY <1>1 DEF NewWork
<1> HIDE DEF NewWork
<1>5. Kept
    BY <1>3 DEF Kept, Done
<1>6. OwnerActs'
    <2>1. OwnerActs
        BY DEF ChatInv, Authority
    <2>2. \A v \in Ids : v # 0
        BY DEF Ids
    <2>3. ASSUME NEW v \in Ids'
          PROVE  work'[v].epoch <= epoch /\ Stage(work'[v])
                 /\ ((work'[v].pc # "done" /\ work'[v].epoch = epoch) <=> v = NewWork)
        <3>1. CASE v = NewWork
            BY <1>1, <1>3, <3>1
        <3>2. CASE v \in Ids
            BY <1>3, <2>1, <2>2, <3>2 DEF OwnerActs, Done
        <3>3. QED
            BY <1>3, <3>1, <3>2
    <2>4. OfContext(work'[NewWork]) /\ (Approved(work'[NewWork]) => wallet.client)
        BY <1>3
    <2>5. QED
        BY <1>2, <1>3, <2>3, <2>4 DEF OwnerActs, Done, OfContext, Approved, Runs
<1>7. Open = {}
    BY DEF Open
<1>8. Open' = {<<NewWork, item.turn, n>> : n \in OpenAt(item)}
    BY <1>2, <1>3 DEF Open, Row, OpenAt
<1>9. QED
    BY <1>2, <1>3, <1>4, <1>5, <1>6, <1>7, <1>8

LEMMA NewWorkStep ==
    ASSUME ChatInv, controller = 0, NEW item \in Items, NEW rows, RowsTyped(rows), Begin(item, rows),
           item.epoch = epoch, OfContext(item), Stage(item), item.pc # "done", Approved(item) => wallet.client,
           item.kind # "confirm", item.kind = "replan" => OfDone(item), ~Runs(item),
           pending' = NoCard \/ (pending' = pending /\ item.pc = "replan"),
           \A r \in DOMAIN Visible : r # pending.row \/ pending' = pending => r \in DOMAIN rows /\ rows[r] = Visible[r],
           \A r \in DOMAIN rows : \/ r \in DOMAIN Visible /\ (r # pending.row \/ pending' = pending)
                                  \/ pending # NoCard /\ r = pending.row /\ rows[r].st = "closed"
                                  \/ /\ r[1] = NewWork
                                     /\ \/ rows[r].st = "closed"
                                        \/ rows[r].st = "streaming" /\ rows[r].text = "" /\ r \in Open',
           \A n \in OpenAt(item) : /\ <<NewWork, item.turn, n>> \in DOMAIN rows
                                   /\ rows[<<NewWork, item.turn, n>>].st = "streaming",
           UNCHANGED <<wallet, epoch, active, payload, attaching, attached, submitted, dispatches>>
    PROVE  ChatInv'
<1>1. /\ work' \in Seq(Items) /\ Len(work') = Len(work) + 1 /\ Ids' = Ids \cup {NewWork}
      /\ NewWork \in Nat /\ NewWork \notin Ids /\ NewWork # 0 /\ controller' = NewWork
      /\ work'[NewWork] = item /\ \A v \in Ids : work'[v] = work[v]
      /\ Kept /\ OwnerActs' /\ Open = {} /\ Open' = {<<NewWork, item.turn, n>> : n \in OpenAt(item)}
    BY Begun
<1>2. active = NoRow /\ Show(rows) /\ streaming' = TRUE /\ StoreTyped
    BY DEF ChatInv, Authority, CardStands, Begin
<1>3. StoreTyped'
    <2>1. streaming' \in BOOLEAN /\ active' \in RowIds /\ dispatches' \in Nat /\ (pending' = NoCard \/ pending' \in Cards)
        BY <1>2 DEF StoreTyped
    <2>2. controller' \in 0..Len(work')
        <3>1. Len(work) \in Nat /\ controller' = Len(work) + 1 /\ Len(work') = Len(work) + 1
            BY <1>1, <1>2, WorkShape DEF NewWork
        <3>2. QED
            BY ONLY <3>1
    <2>3. QED
        BY <1>1, <1>2, <2>1, <2>2, StaysTyped
<1> HIDE DEF NewWork
<1>4. Authority'
    <2>1. CardStands'
        <3>1. pending # NoCard => Current(pending) /\ OfDone(pending)
            BY DEF ChatInv, Authority, CardStands
        <3>2. ASSUME OfDone(pending), pending' = pending PROVE OfDone(pending)'
            <4>1. pending.row[1] \in Ids' /\ work'[pending.row[1]] = work[pending.row[1]]
                BY <1>1, <3>2 DEF OfDone
            <4>2. QED
                BY ONLY <3>2, <4>1 DEF OfDone, Done
        <3>3. ASSUME Current(pending), pending' = pending PROVE Current(pending)'
            BY <3>3 DEF Current
        <3>4. controller' # 0 /\ pending' # NoCard => work'[controller'].pc = "replan"
            BY <1>1
        <3>5. pending' # NoCard => Current(pending)' /\ OfDone(pending)'
            BY <3>1, <3>2, <3>3
        <3>6. QED
            BY <1>2, <3>4, <3>5 DEF CardStands
    <2>2. UsedOnce'
        <3>1. UsedOnce
            BY DEF ChatInv, Authority
        <3>2. ASSUME NEW v \in Ids', work'[v].kind \in {"confirm", "replan"}
              PROVE  OfDone(work[v])'
            <4>1. OfDone(work'[v])
                BY <1>1, <3>1, <3>2 DEF UsedOnce
            <4>2. QED
                BY <1>1, <4>1 DEF OfDone, Kept, Done
        <3>3. ASSUME NEW v \in Ids', work'[v].kind = "confirm"
              PROVE  /\ v \in Ids /\ work[v].kind = "confirm" /\ work'[v] = work[v]
                     /\ pending' # NoCard => work'[v].row # pending'.row
            <4>1. v \in Ids /\ work[v].kind = "confirm" /\ work'[v] = work[v]
                BY <1>1, <3>3
            <4>2. pending # NoCard => work[v].row # pending.row
                BY <3>1, <4>1 DEF UsedOnce
            <4>3. QED
                BY <4>1, <4>2
        <3>4. ASSUME NEW s \in submitted
              PROVE  \E v \in Ids' : /\ work'[v].kind = "confirm" /\ work'[v].row = s.row
                                     /\ work'[s.row[1]].wallet = s.address /\ work'[s.row[1]].gen = s.gen
            <4>1. PICK v \in Ids : /\ work[v].kind = "confirm" /\ work[v].row = s.row
                                   /\ work[s.row[1]].wallet = s.address /\ work[s.row[1]].gen = s.gen
                BY <3>1 DEF UsedOnce
            <4>2. s.row[1] \in Ids
                BY <3>1, <4>1 DEF UsedOnce, OfDone
            <4>3. QED
                BY ZenonT(40), <1>1, <4>1, <4>2
        <3>5. \A v \in Ids' : work'[v].kind = "confirm" =>
                 \A u \in Ids' : work'[u].kind = "confirm" /\ work'[u].row = work'[v].row => u = v
            <4>1. \A v, u \in Ids : work[v].kind = "confirm" /\ work[u].kind = "confirm" /\ work[u].row = work[v].row
                                   => u = v
                BY <3>1 DEF UsedOnce
            <4>2. QED
                BY ONLY <3>3, <4>1
        <3>6. QED
            BY <3>2, <3>3, <3>4, <3>5 DEF UsedOnce
    <2>3. QED
        BY <1>1, <2>1, <2>2 DEF Authority
<1>5. Display'
    <2>1. ASSUME NEW r \in DOMAIN Visible
          PROVE  r[1] \in Ids /\ r # NoRow
        <3>1. r[1] \in Ids
            BY <2>1, VisibleTyped DEF ChatInv, Display, RowsFit, RowFits, Visible
        <3>2. QED
            BY <3>1, RowOfWork
    <2>2. ASSUME NEW r \in DOMAIN rows PROVE Explained(rows, r)
        <3>1. CASE r \in DOMAIN Visible /\ (r # pending.row \/ pending' = pending)
            BY <1>1, <1>2, <2>1, <3>1 DEF Explained
        <3>2. CASE pending # NoCard /\ r = pending.row /\ rows[r].st = "closed"
            <4>1. r \in DOMAIN Visible
                BY <3>2 DEF ChatInv, Display, OnDisplay
            <4>2. QED
                BY <3>2, <4>1 DEF Explained
        <3>3. CASE /\ r[1] = NewWork
                   /\ \/ rows[r].st = "closed"
                      \/ rows[r].st = "streaming" /\ rows[r].text = "" /\ r \in Open'
            BY <1>1, <3>3 DEF Explained, OfContext
        <3>4. QED
            BY <2>2, <3>1, <3>2, <3>3
    <2>3. RowsFit'
        BY <1>1, <1>2, <2>2, Redrawn
    <2>4. ASSUME NEW v \in Ids', work'[v].kind = "confirm", work'[v].row \in DOMAIN rows
          PROVE  /\ v \in Ids /\ work'[v].said = work[v].said
                 /\ work'[v].row \in DOMAIN Visible /\ rows[work'[v].row] = Visible[work'[v].row]
        <3>1. v \in Ids /\ work[v].kind = "confirm" /\ work'[v] = work[v]
            BY <1>1, <2>4
        <3>2. work[v].row[1] \in Ids /\ (pending # NoCard => work[v].row # pending.row)
            BY <3>1 DEF ChatInv, Authority, UsedOnce, OfDone
        <3>3. work[v].row # NoRow
            BY <3>2, RowOfWork
        <3>4. work[v].row # pending.row
            BY ONLY <3>2, <3>3 DEF NoCard
        <3>5. work[v].row[1] # NewWork /\ work'[v].row = work[v].row /\ work'[v].said = work[v].said
            BY ONLY <1>1, <3>1, <3>2
        <3>6. work'[v].row \in DOMAIN Visible
            BY <2>4, <3>4, <3>5
        <3>7. QED
            BY <3>1, <3>4, <3>5, <3>6
    <2>5. RowsAreTold'
        <3>1. \A v \in Ids : work'[v].said = work[v].said
            BY <1>1
        <3>2. \A v \in Ids' \ Ids : work'[v].kind # "confirm"
            BY <1>1
        <3>3. QED
            BY <1>1, <1>2, <2>4, <3>1, <3>2, Retold
    <2>6. OnDisplay'
        <3>1. Visible' = rows
            BY <1>2, ShowShape DEF ChatInv
        <3>2. pending' # NoCard => pending'.row \in DOMAIN rows /\ rows[pending'.row].st = "waiting"
            BY DEF ChatInv, Display, OnDisplay
        <3>3. \A r \in Open' : r \in DOMAIN rows /\ rows[r].st = "streaming"
            <4>1. \A r \in Open' : \E n \in OpenAt(item) : r = <<NewWork, item.turn, n>>
                BY ONLY <1>1
            <4>2. \A n \in OpenAt(item) : /\ <<NewWork, item.turn, n>> \in DOMAIN rows
                                          /\ rows[<<NewWork, item.turn, n>>].st = "streaming"
                OBVIOUS
            <4>3. QED
                BY ONLY <4>1, <4>2
        <3>4. QED
            BY <3>1, <3>2, <3>3 DEF OnDisplay
    <2>7. QED
        BY <2>3, <2>5, <2>6 DEF Display
<1>6. QED
    BY <1>3, <1>4, <1>5 DEF ChatInv

LEMMA FreshRows ==
    ASSUME ChatInv
    PROVE  /\ NewWork \in Nat /\ \A n \in Nat : <<NewWork, 1, n>> \in RowIds
           /\ \A r \in DOMAIN Visible : r \in RowIds /\ r[1] \in Ids /\ r[1] # NewWork /\ r # NoRow
<1>1. Len(work) \in Nat
    BY WorkShape DEF ChatInv
<1>2. NewWork \in Nat /\ NewWork \notin Ids
    BY <1>1 DEF NewWork, Ids
<1>3. \A r \in DOMAIN Visible : r \in RowIds /\ r[1] \in Ids
    BY VisibleTyped DEF ChatInv, Display, RowsFit, RowFits, Visible, RowsTyped
<1>4. \A r \in DOMAIN Visible : r # NoRow
    BY <1>3, RowOfWork
<1>5. QED
    BY <1>2, <1>3, <1>4 DEF RowIds

LEMMA SyntheticShape ==
    ASSUME ChatInv, NEW reply \in Entries
    PROVE  /\ RowsTyped(Synthetic(NewWork, reply))
           /\ DOMAIN Synthetic(NewWork, reply) = DOMAIN Visible \cup {<<NewWork, 1, 0>>, <<NewWork, 1, 1>>}
           /\ Synthetic(NewWork, reply)[<<NewWork, 1, 0>>].st = "closed"
           /\ Synthetic(NewWork, reply)[<<NewWork, 1, 1>>] = reply
           /\ \A r \in DOMAIN Visible : Synthetic(NewWork, reply)[r] = Visible[r]
<1> DEFINE call == [st |-> "closed", text |-> "calls", calls |-> 1]
           r0 == <<NewWork, 1, 0>>
           r1 == <<NewWork, 1, 1>>
           called == Add(Visible, r0, call)
           rows == Add(called, r1, reply)
<1>1. RowsTyped(Visible) /\ r0 \in RowIds /\ r1 \in RowIds /\ call \in Entries /\ r0 # r1
    <2>1. RowsTyped(Visible)
        BY VisibleTyped DEF ChatInv
    <2>2. r0 \in RowIds /\ r1 \in RowIds
        BY FreshRows
    <2>3. call \in Entries
        BY DEF Entries, States, Texts
    <2>4. r0 # r1
        BY SMT
    <2>5. QED
        BY <2>1, <2>2, <2>3, <2>4
<1>2. \A r \in DOMAIN Visible : r # r0 /\ r # r1
    BY FreshRows
<1>3. Synthetic(NewWork, reply) = rows
    BY DEF Synthetic
<1>4. call.st = "closed"
    OBVIOUS
<1> HIDE DEF r0, r1, call
<1>5. /\ RowsTyped(called) /\ DOMAIN called = DOMAIN Visible \cup {r0} /\ called[r0] = call
      /\ \A x \in DOMAIN Visible \ {r0} : called[x] = Visible[x]
    <2>1. ASSUME NEW x \in RowIds, NEW row \in Entries
          PROVE  /\ RowsTyped(Add(Visible, x, row)) /\ DOMAIN Add(Visible, x, row) = DOMAIN Visible \cup {x}
                 /\ Add(Visible, x, row)[x] = row
                 /\ \A y \in DOMAIN Visible \ {x} : Add(Visible, x, row)[y] = Visible[y]
        BY ZenonT(40), <1>1, AddShape
    <2>2. QED
        BY <1>1, <2>1
<1> HIDE DEF called
<1>6. /\ RowsTyped(rows) /\ DOMAIN rows = DOMAIN called \cup {r1} /\ rows[r1] = reply
      /\ \A x \in DOMAIN called \ {r1} : rows[x] = called[x]
    BY ZenonT(40), <1>1, <1>5, AddShape
<1> HIDE DEF rows
<1>7. /\ RowsTyped(rows) /\ DOMAIN rows = DOMAIN Visible \cup {r0, r1} /\ rows[r0].st = "closed" /\ rows[r1] = reply
      /\ \A r \in DOMAIN Visible : rows[r] = Visible[r]
    BY <1>1, <1>2, <1>4, <1>5, <1>6
<1>8. QED
    BY <1>3, <1>7 DEF r0, r1

LEMMA SendMessageStep ==
    ASSUME ChatInv, SendMessage
    PROVE  ChatInv'
<1> DEFINE start == Started("chat", "model")
           item == [start EXCEPT !.payload = payload]
           kept == Close(Visible, {pending.row}, "unsubmitted")
           r0 == <<NewWork, 1, 0>>
           rows == Add(kept, r0, Spinning(0))
<1>1. /\ Begin(item, rows) /\ pending' = NoCard
      /\ UNCHANGED <<wallet, epoch, active, payload, attaching, attached, submitted, dispatches>>
    BY DEF SendMessage, NewWork
<1>2. ~streaming /\ controller = 0 /\ StoreTyped
    BY DEF SendMessage, ChatInv, Authority, OwnerActs
<1>3. /\ start \in Items /\ start.kind = "chat" /\ start.pc = "model" /\ start.epoch = epoch
      /\ start.wallet = wallet.address /\ start.gen = wallet.gen /\ start.turn = 1
      /\ start.collected = {} /\ start.said = "" /\ payload \in Nat
    <2>1. "chat" \in Kinds /\ "model" \in Stages
        BY DEF Kinds, Stages
    <2>2. payload \in Nat
        BY <1>2 DEF StoreTyped
    <2>3. QED
        BY <1>2, <2>1, <2>2, StartedShape
<1> HIDE DEF start
<1>4. /\ item \in Items /\ item.kind = "chat" /\ item.pc = "model" /\ item.epoch = epoch
      /\ item.wallet = wallet.address /\ item.gen = wallet.gen /\ item.turn = 1
      /\ item.collected = {} /\ item.said = ""
    BY <1>3 DEF Items
<1> HIDE DEF item
<1>5. Stage(item) /\ OfContext(item) /\ ~Approved(item) /\ ~Runs(item) /\ OpenAt(item) = {0}
    BY <1>4 DEF Stage, OfContext, Approved, Runs, OpenAt
<1>6. /\ RowsTyped(kept) /\ DOMAIN kept = DOMAIN Visible
      /\ \A r \in DOMAIN Visible : /\ r = pending.row => kept[r].st = "closed"
                                   /\ r # pending.row => kept[r] = Visible[r]
    <2>1. RowsTyped(Visible) /\ "unsubmitted" \in Texts
        BY VisibleTyped DEF ChatInv, Texts
    <2>2. QED
        BY <2>1, CloseShape
<1> HIDE DEF kept
<1>7. /\ r0 \in RowIds /\ r0[1] = NewWork /\ \A r \in DOMAIN Visible : r # r0 /\ r # NoRow
    BY FreshRows
<1>8. /\ Spinning(0) \in Entries /\ Spinning(0).st = "streaming" /\ Spinning(0).text = ""
    BY SpinningShape
<1> HIDE DEF r0
<1>9. /\ RowsTyped(rows) /\ DOMAIN rows = DOMAIN kept \cup {r0} /\ rows[r0] = Spinning(0)
      /\ \A x \in DOMAIN kept \ {r0} : rows[x] = kept[x]
    <2>1. ASSUME NEW x \in RowIds, NEW row \in Entries
          PROVE  /\ RowsTyped(Add(kept, x, row)) /\ DOMAIN Add(kept, x, row) = DOMAIN kept \cup {x}
                 /\ Add(kept, x, row)[x] = row
                 /\ \A y \in DOMAIN kept \ {x} : Add(kept, x, row)[y] = kept[y]
        BY <1>6, AddShape
    <2>2. QED
        BY <1>7, <1>8, <2>1
<1> HIDE DEF rows
<1>10. r0 \in Open'
    <2>1. Open' = {<<NewWork, item.turn, n>> : n \in OpenAt(item)}
        BY <1>1, <1>2, <1>4, <1>5, Begun
    <2>2. QED
        BY <1>4, <1>5, <2>1 DEF r0
<1>11. \A r \in DOMAIN Visible : r # pending.row \/ pending' = pending => r \in DOMAIN rows /\ rows[r] = Visible[r]
    BY <1>1, <1>6, <1>7, <1>9 DEF NoCard
<1>12. \A r \in DOMAIN rows : \/ r \in DOMAIN Visible /\ (r # pending.row \/ pending' = pending)
                              \/ pending # NoCard /\ r = pending.row /\ rows[r].st = "closed"
                              \/ /\ r[1] = NewWork
                                 /\ \/ rows[r].st = "closed"
                                    \/ rows[r].st = "streaming" /\ rows[r].text = "" /\ r \in Open'
    BY <1>1, <1>6, <1>7, <1>8, <1>9, <1>10 DEF NoCard
<1>13. \A n \in OpenAt(item) : /\ <<NewWork, item.turn, n>> \in DOMAIN rows
                               /\ rows[<<NewWork, item.turn, n>>].st = "streaming"
    BY <1>4, <1>5, <1>8, <1>9 DEF r0
<1>14. QED
    BY <1>1, <1>2, <1>4, <1>5, <1>9, <1>11, <1>12, <1>13, NewWorkStep

(* Requests that bypass the model.                                          *)
LEMMA RequestStep ==
    ASSUME ChatInv, controller = 0, pending = NoCard, NEW kind \in {"status", "batch"}, NEW pc,
           pc = (IF kind = "status" THEN "query" ELSE "plan"),
           Begin(Started(kind, pc), Synthetic(NewWork, Spinning(0))),
           UNCHANGED <<wallet, epoch, pending, active, payload, attaching, attached, submitted, dispatches>>
    PROVE  ChatInv'
<1> DEFINE item == Started(kind, pc)
           rows == Synthetic(NewWork, Spinning(0))
           r0 == <<NewWork, 1, 0>>
           r1 == <<NewWork, 1, 1>>
<1>1. /\ item \in Items /\ item.kind = kind /\ item.pc = pc /\ item.epoch = epoch
      /\ item.wallet = wallet.address /\ item.gen = wallet.gen /\ item.turn = 1
      /\ item.collected = {} /\ item.said = ""
    <2>1. StoreTyped /\ kind \in Kinds /\ pc \in Stages
        BY DEF ChatInv, Kinds, Stages
    <2>2. QED
        BY ZenonT(40), <2>1, StartedShape
<1>2. Begin(item, rows)
    OBVIOUS
<1> HIDE DEF item
<1>3. Stage(item) /\ OfContext(item) /\ ~Approved(item) /\ ~Runs(item) /\ OpenAt(item) = {1}
    BY <1>1 DEF Stage, OfContext, Approved, Runs, OpenAt
<1>4. Spinning(0) \in Entries /\ Spinning(0).st = "streaming" /\ Spinning(0).text = ""
    BY SpinningShape
<1>5. /\ RowsTyped(rows) /\ DOMAIN rows = DOMAIN Visible \cup {r0, r1}
      /\ rows[r0].st = "closed" /\ rows[r1] = Spinning(0)
      /\ \A r \in DOMAIN Visible : rows[r] = Visible[r]
    BY <1>4, SyntheticShape
<1> HIDE DEF rows
<1>6. r1 \in Open'
    <2>1. Open' = {<<NewWork, item.turn, n>> : n \in OpenAt(item)}
        BY <1>1, <1>2, <1>3, Begun
    <2>2. QED
        BY <1>1, <1>3, <2>1
<1>7. r0[1] = NewWork /\ r1[1] = NewWork
    OBVIOUS
<1>8. \A r \in DOMAIN rows : \/ r \in DOMAIN Visible /\ (r # pending.row \/ pending' = pending)
                             \/ pending # NoCard /\ r = pending.row /\ rows[r].st = "closed"
                             \/ /\ r[1] = NewWork
                                /\ \/ rows[r].st = "closed"
                                   \/ rows[r].st = "streaming" /\ rows[r].text = "" /\ r \in Open'
    BY <1>4, <1>5, <1>6, <1>7
<1>9. \A n \in OpenAt(item) : /\ <<NewWork, item.turn, n>> \in DOMAIN rows
                              /\ rows[<<NewWork, item.turn, n>>].st = "streaming"
    BY <1>1, <1>3, <1>4, <1>5
<1>10. QED
    BY <1>1, <1>2, <1>3, <1>5, <1>8, <1>9, NewWorkStep

LEMMA RequestsStep ==
    ASSUME ChatInv, RequestAppStatus \/ RequestBatchDeploy
    PROVE  ChatInv'
<1>1. controller = 0 /\ pending = NoCard
    BY DEF RequestAppStatus, RequestBatchDeploy, ChatInv, Authority, OwnerActs
<1>2. CASE RequestAppStatus
    BY <1>1, <1>2, RequestStep DEF RequestAppStatus, NewWork
<1>3. CASE RequestBatchDeploy
    BY <1>1, <1>3, RequestStep DEF RequestBatchDeploy, NewWork
<1>4. QED
    BY <1>2, <1>3

LEMMA ReplanEditedBatchStep ==
    ASSUME ChatInv, ReplanEditedBatch
    PROVE  ChatInv'
<1> DEFINE start == Started("replan", "replan")
           item == [start EXCEPT !.row = pending.row]
<1>1. /\ Begin(item, Visible) /\ pending # NoCard /\ Current(pending)
      /\ UNCHANGED <<wallet, epoch, pending, active, payload, attaching, attached, submitted, dispatches>>
    BY DEF ReplanEditedBatch
<1>2. controller = 0 /\ StoreTyped /\ OfDone(pending) /\ pending.row \in RowIds /\ RowsTyped(Visible)
    <2>1. controller = 0
        BY DEF ReplanEditedBatch, ChatInv, Authority, OwnerActs
    <2>2. StoreTyped /\ OfDone(pending) /\ pending \in Cards
        BY <1>1 DEF ChatInv, Authority, CardStands, StoreTyped
    <2>3. QED
        BY <2>1, <2>2, VisibleTyped DEF Cards
<1>3. /\ start \in Items /\ start.kind = "replan" /\ start.pc = "replan" /\ start.epoch = epoch
      /\ start.wallet = wallet.address /\ start.gen = wallet.gen /\ start.turn = 1
      /\ start.collected = {} /\ start.said = ""
    <2>1. "replan" \in Kinds /\ "replan" \in Stages
        BY DEF Kinds, Stages
    <2>2. QED
        BY <1>2, <2>1, StartedShape
<1> HIDE DEF start
<1>4. /\ item \in Items /\ item.kind = "replan" /\ item.pc = "replan" /\ item.epoch = epoch
      /\ item.wallet = wallet.address /\ item.gen = wallet.gen /\ item.turn = 1
      /\ item.collected = {} /\ item.said = "" /\ item.row = pending.row
    BY <1>2, <1>3 DEF Items
<1> HIDE DEF item
<1>5. /\ Stage(item) /\ OfContext(item) /\ wallet.client /\ ~Runs(item) /\ OpenAt(item) = {}
      /\ OfDone(item)
    BY <1>1, <1>2, <1>4 DEF Stage, OfContext, Runs, OpenAt, OfDone, Current
<1>6. QED
    BY <1>1, <1>2, <1>4, <1>5, NewWorkStep

LEMMA RequestStopAppStep ==
    ASSUME ChatInv, RequestStopApp
    PROVE  ChatInv'
<1> DEFINE item == Over(Started("stop", "done"))
           r0 == <<NewWork, 1, 0>>
           r1 == <<NewWork, 1, 1>>
           asks == [Spinning(0) EXCEPT !.st = "waiting"]
           rows == Synthetic(NewWork, asks)
<1>1. /\ work' = Append(work, item) /\ Show(rows) /\ pending' = Card(item, r1, 0, FALSE)
      /\ UNCHANGED <<wallet, epoch, streaming, controller, active, payload, attaching, attached, submitted, dispatches>>
      /\ ~streaming /\ pending = NoCard /\ wallet.client
    BY DEF RequestStopApp, NewWork
<1>2. controller = 0 /\ StoreTyped /\ active = NoRow
    BY <1>1 DEF ChatInv, Authority, OwnerActs, CardStands
<1>3. /\ item \in Items /\ item.kind = "stop" /\ item.pc = "done" /\ item.epoch = 0
      /\ item.wallet = wallet.address /\ item.gen = wallet.gen /\ item.collected = {} /\ item.said = ""
    <2>1. "stop" \in Kinds /\ "done" \in Stages
        BY DEF Kinds, Stages
    <2>2. /\ Started("stop", "done") \in Items /\ Started("stop", "done").kind = "stop"
          /\ Started("stop", "done").wallet = wallet.address /\ Started("stop", "done").gen = wallet.gen
          /\ Started("stop", "done").said = ""
        BY <1>2, <2>1, StartedShape
    <2>3. QED
        BY <2>2, OverShape
<1> HIDE DEF item
<1>4. /\ work' \in Seq(Items) /\ Len(work') = Len(work) + 1 /\ Ids' = Ids \cup {NewWork}
      /\ NewWork \notin Ids /\ NewWork # 0
      /\ work'[NewWork] = item /\ \A v \in Ids : work'[v] = work[v]
    BY <1>1, <1>2, <1>3, Appended DEF NewWork
<1>5. asks \in Entries /\ asks.st = "waiting" /\ asks.text = ""
    BY DEF Spinning, Entries, States, Texts
<1> HIDE DEF asks
<1>6. /\ RowsTyped(rows) /\ DOMAIN rows = DOMAIN Visible \cup {r0, r1}
      /\ rows[r0].st = "closed" /\ rows[r1] = asks
      /\ \A r \in DOMAIN Visible : rows[r] = Visible[r]
    BY <1>5, SyntheticShape
<1> HIDE DEF rows
<1>7. r0[1] = NewWork /\ r1[1] = NewWork /\ r1 \in RowIds
    BY FreshRows
<1>8. Kept /\ Open = {} /\ Open' = {}
    BY <1>1, <1>2, <1>4 DEF Kept, Done, Open
<1>9. /\ pending' \in Cards /\ pending'.row = r1 /\ pending'.wallet = wallet.address /\ pending'.gen = wallet.gen
    BY <1>1, <1>2, <1>3, <1>7, VisibleTyped DEF Card, Cards
<1>10. StoreTyped'
    <2>1. streaming' \in BOOLEAN /\ active' \in RowIds /\ dispatches' \in Nat /\ controller' = 0
        BY <1>1, <1>2 DEF StoreTyped
    <2>2. controller' \in 0..Len(work')
        BY <1>2, <1>4, <2>1, WorkShape
    <2>3. QED
        BY <1>1, <1>4, <1>6, <1>9, <2>1, <2>2, StaysTyped
<1> HIDE DEF NewWork
<1>11. Authority'
    <2>1. OwnerActs'
        <3>1. OwnerActs /\ epoch \in Nat
            BY <1>2 DEF ChatInv, Authority, StoreTyped
        <3>2. Stage(item)
            BY <1>3 DEF Stage, Runs
        <3>3. ASSUME NEW v \in Ids'
              PROVE  work'[v].epoch <= epoch /\ Stage(work'[v]) /\ ~(work'[v].pc # "done" /\ work'[v].epoch = epoch) /\ v # 0
            <4>1. CASE v = NewWork
                <5>1. work'[v] = item /\ item.epoch = 0 /\ item.pc = "done" /\ v # 0
                    BY <1>3, <1>4, <4>1
                <5>2. item.epoch <= epoch
                    BY <3>1, <5>1
                <5>3. QED
                    BY <3>2, <5>1, <5>2
            <4>2. CASE v \in Ids
                BY <1>2, <1>4, <3>1, <4>2 DEF OwnerActs, Done, Ids
            <4>3. QED
                BY <1>4, <4>1, <4>2
        <3>4. QED
            BY <1>1, <1>2, <3>3 DEF OwnerActs, Done
    <2>2. CardStands'
        <3>1. OfDone(pending)'
            BY <1>3, <1>4, <1>7, <1>9 DEF OfDone, Done
        <3>2. Current(pending)'
            BY <1>1, <1>9 DEF Current
        <3>3. QED
            BY <1>1, <1>2, <3>1, <3>2 DEF CardStands
    <2>3. UsedOnce'
        <3>1. \A v \in Ids' \ Ids : work'[v].kind \notin {"confirm", "replan"}
            BY <1>3, <1>4
        <3>2. pending'.row[1] \notin Ids
            BY <1>4, <1>7, <1>9
        <3>3. QED
            BY <1>1, <1>8, <3>1, <3>2, StillUsedOnce
    <2>4. QED
        BY <2>1, <2>2, <2>3 DEF Authority
<1>12. Display'
    <2>1. \A r \in DOMAIN Visible : r # NoRow
        BY FreshRows
    <2>2. ASSUME NEW r \in DOMAIN rows PROVE Explained(rows, r)
        <3>1. CASE r \in DOMAIN Visible
            BY <1>1, <1>2, <1>6, <1>8, <2>1, <3>1 DEF Explained, NoCard
        <3>2. CASE r = r0 \/ r = r1
            <4>1. r[1] \in Ids' /\ work'[r[1]].wallet = wallet.address
                BY <1>3, <1>4, <1>7, <3>2
            <4>2. rows[r].st = "closed" \/ (r = r1 /\ rows[r].st = "waiting" /\ rows[r].text = "")
                BY <1>5, <1>6, <3>2
            <4>3. QED
                BY <1>9, <4>1, <4>2 DEF Explained
        <3>3. QED
            BY <1>6, <2>2, <3>1, <3>2
    <2>3. RowsFit'
        BY <1>1, <1>8, <2>2, Redrawn
    <2>4. ASSUME NEW v \in Ids', work'[v].kind = "confirm", work'[v].row \in DOMAIN rows
          PROVE  /\ v \in Ids /\ work'[v].said = work[v].said
                 /\ work'[v].row \in DOMAIN Visible /\ rows[work'[v].row] = Visible[work'[v].row]
        <3>1. v \in Ids /\ work[v].kind = "confirm" /\ work'[v] = work[v]
            BY <1>3, <1>4, <2>4
        <3>2. work[v].row[1] \in Ids
            BY <3>1 DEF ChatInv, Authority, UsedOnce, OfDone
        <3>3. work[v].row \in DOMAIN Visible
            BY <1>4, <1>6, <1>7, <2>4, <3>1, <3>2
        <3>4. QED
            BY <1>6, <3>1, <3>3
    <2>5. RowsAreTold'
        <3>1. \A v \in Ids : work'[v].said = work[v].said
            BY <1>4
        <3>2. \A v \in Ids' \ Ids : work'[v].kind # "confirm"
            BY <1>3, <1>4
        <3>3. QED
            BY <1>1, <1>8, <2>4, <3>1, <3>2, Retold
    <2>6. OnDisplay'
        <3>1. Visible' = rows
            BY <1>1, ShowShape DEF ChatInv
        <3>2. QED
            BY <1>5, <1>6, <1>8, <1>9, <3>1 DEF OnDisplay
    <2>7. QED
        BY <2>3, <2>5, <2>6 DEF Display
<1>13. QED
    BY <1>10, <1>11, <1>12 DEF ChatInv

LEMMA DispatchStep ==
    ASSUME ChatInv, pending # NoCard, ~streaming, Current(pending), Dispatch
    PROVE  ChatInv'
<1> DEFINE start == Started("confirm", "execute")
           approved == [start EXCEPT !.wallet = pending.wallet, !.gen = pending.gen]
           item == [approved EXCEPT !.row = pending.row, !.payload = pending.payload]
           r == pending.row
           rows == [Visible EXCEPT ![r].st = "inflight"]
<1>1. /\ Begin(item, rows) /\ pending' = NoCard /\ active' = r /\ dispatches' = dispatches + 1
      /\ UNCHANGED <<wallet, epoch, payload, attaching, attached, submitted>>
    BY DEF Dispatch
<1>2. /\ controller = 0 /\ StoreTyped /\ OfDone(pending) /\ active = NoRow
      /\ pending.row \in RowIds /\ pending.wallet = wallet.address /\ pending.gen = wallet.gen
      /\ pending.wallet \in Addresses /\ pending.gen \in Nat /\ pending.payload \in Nat /\ wallet.client
    <2>1. controller = 0
        BY DEF ChatInv, Authority, OwnerActs
    <2>2. StoreTyped /\ OfDone(pending) /\ pending \in Cards /\ active = NoRow
        BY <2>1 DEF ChatInv, Authority, CardStands, StoreTyped
    <2>3. QED
        BY <2>1, <2>2 DEF Cards, Current
<1>3. /\ start \in Items /\ start.kind = "confirm" /\ start.pc = "execute" /\ start.epoch = epoch
      /\ start.collected = {} /\ start.said = ""
    <2>1. "confirm" \in Kinds /\ "execute" \in Stages
        BY DEF Kinds, Stages
    <2>2. QED
        BY <1>2, <2>1, StartedShape
<1> HIDE DEF start
<1>4. /\ approved \in Items /\ approved.kind = "confirm" /\ approved.pc = "execute" /\ approved.epoch = epoch
      /\ approved.collected = {} /\ approved.said = "" /\ approved.wallet = pending.wallet /\ approved.gen = pending.gen
    BY <1>2, <1>3 DEF Items
<1> HIDE DEF approved
<1>5. /\ item \in Items /\ item.kind = "confirm" /\ item.pc = "execute" /\ item.epoch = epoch
      /\ item.collected = {} /\ item.said = "" /\ item.wallet = pending.wallet /\ item.gen = pending.gen
      /\ item.row = r
    BY <1>2, <1>4 DEF Items
<1> HIDE DEF item
<1>6. Stage(item) /\ OfContext(item) /\ Runs(item) /\ OpenAt(item) = {} /\ OfDone(item)
    BY <1>2, <1>5 DEF Stage, OfContext, Runs, OpenAt, OfDone
<1>7. /\ work' \in Seq(Items) /\ Len(work') = Len(work) + 1 /\ Ids' = Ids \cup {NewWork}
      /\ NewWork \in Nat /\ NewWork \notin Ids /\ NewWork # 0 /\ controller' = NewWork
      /\ work'[NewWork] = item /\ \A v \in Ids : work'[v] = work[v]
      /\ Kept /\ OwnerActs' /\ Open = {}
    BY <1>1, <1>2, <1>5, <1>6, Begun
<1>8. Open' = {}
    <2>1. Open' = {<<NewWork, item.turn, n>> : n \in OpenAt(item)}
        BY <1>1, <1>2, <1>5, <1>6, Begun
    <2>2. QED
        BY <1>6, <2>1
<1>9. /\ r \in DOMAIN Visible /\ Visible[r].text = "" /\ r # NoRow
      /\ RowsTyped(Visible) /\ \A x \in DOMAIN Visible : x # NoRow
    <2>1. r \in DOMAIN Visible /\ Visible[r].st = "waiting"
        BY DEF ChatInv, Display, OnDisplay
    <2>2. RowFits(wallet.address, r)
        BY <2>1, VisibleTyped DEF ChatInv, Display, RowsFit, Visible
    <2>3. Visible[r].text = ""
        BY <2>1, <2>2 DEF RowFits, Visible
    <2>4. QED
        BY <2>1, <2>3, FreshRows, VisibleTyped DEF ChatInv
<1>10. /\ RowsTyped(rows) /\ DOMAIN rows = DOMAIN Visible /\ rows[r].st = "inflight" /\ rows[r].text = ""
       /\ \A x \in DOMAIN Visible \ {r} : rows[x] = Visible[x]
    BY <1>9 DEF RowsTyped, Entries, States
<1>11. Show(rows)
    BY <1>1 DEF Begin
<1> HIDE DEF rows
<1>12. StoreTyped'
    <2>1. streaming' \in BOOLEAN /\ active' \in RowIds /\ dispatches' \in Nat
        BY <1>1, <1>2 DEF StoreTyped, Begin
    <2>2. controller' \in 0..Len(work')
        <3>1. Len(work) \in Nat /\ controller' = Len(work) + 1 /\ Len(work') = Len(work) + 1
            BY <1>2, <1>7, WorkShape DEF NewWork
        <3>2. QED
            BY ONLY <3>1
    <2>3. QED
        BY <1>1, <1>7, <1>10, <1>11, <2>1, <2>2, StaysTyped
<1> HIDE DEF NewWork
<1>13. Authority'
    <2>1. CardStands'
        BY <1>1, <1>5, <1>6, <1>7 DEF CardStands
    <2>2. UsedOnce'
        <3>1. UsedOnce
            BY DEF ChatInv, Authority
        <3>2. ASSUME NEW v \in Ids', work'[v].kind \in {"confirm", "replan"}
              PROVE  OfDone(work[v])'
            <4>1. OfDone(work'[v])
                BY <1>6, <1>7, <3>1, <3>2 DEF UsedOnce
            <4>2. QED
                BY <1>7, <4>1 DEF OfDone, Kept, Done
        <3>3. \A v \in Ids : work[v].kind = "confirm" =>
                 /\ work[v].row # r
                 /\ \A u \in Ids : work[u].kind = "confirm" /\ work[u].row = work[v].row => u = v
            BY <3>1 DEF UsedOnce
        <3>4. \A v \in Ids' : work'[v].kind = "confirm" =>
                 \A u \in Ids' : work'[u].kind = "confirm" /\ work'[u].row = work'[v].row => u = v
            <4>1. work'[NewWork].row = r
                BY <1>5, <1>7
            <4>2. \A v \in Ids' : v = NewWork \/ (v \in Ids /\ work'[v] = work[v])
                BY <1>7
            <4>3. ASSUME NEW v \in Ids', work'[v].kind = "confirm", NEW u \in Ids', work'[u].kind = "confirm",
                         work'[u].row = work'[v].row
                  PROVE  u = v
                <5>1. CASE v = NewWork
                    BY <3>3, <4>1, <4>2, <4>3, <5>1
                <5>2. CASE u = NewWork
                    BY <3>3, <4>1, <4>2, <4>3, <5>2
                <5>3. CASE v # NewWork /\ u # NewWork
                    BY <3>3, <4>2, <4>3, <5>3
                <5>4. QED
                    BY <5>1, <5>2, <5>3
            <4>4. QED
                BY <4>3
        <3>5. ASSUME NEW s \in submitted
              PROVE  \E v \in Ids' : /\ work'[v].kind = "confirm" /\ work'[v].row = s.row
                                     /\ work'[s.row[1]].wallet = s.address /\ work'[s.row[1]].gen = s.gen
            <4>1. PICK v \in Ids : /\ work[v].kind = "confirm" /\ work[v].row = s.row
                                   /\ work[s.row[1]].wallet = s.address /\ work[s.row[1]].gen = s.gen
                BY <3>1 DEF UsedOnce
            <4>2. s.row[1] \in Ids
                BY <3>1, <4>1 DEF UsedOnce, OfDone
            <4>3. QED
                BY <1>7, <4>1, <4>2
        <3>6. QED
            BY <1>1, <3>2, <3>4, <3>5 DEF UsedOnce
    <2>3. QED
        BY <1>7, <2>1, <2>2 DEF Authority
<1>14. Display'
    <2>1. ASSUME NEW x \in DOMAIN rows PROVE Explained(rows, x)
        BY <1>1, <1>2, <1>7, <1>9, <1>10, <2>1 DEF Explained
    <2>2. RowsFit'
        BY <1>1, <1>7, <1>11, <2>1, Redrawn
    <2>3. ASSUME NEW a \in Addresses \ {wallet.address} PROVE r \notin DOMAIN transcript[a]
        BY <1>2, <2>3 DEF ChatInv, Display, RowsFit, RowFits, OfDone
    <2>4. ASSUME NEW v \in Ids', work'[v].kind = "confirm", work'[v].row \in DOMAIN rows
          PROVE  \/ /\ v \in Ids /\ work'[v].said = work[v].said
                    /\ work'[v].row \in DOMAIN Visible /\ rows[work'[v].row] = Visible[work'[v].row]
                 \/ /\ rows[work'[v].row].text # "unsubmitted" /\ work'[v].said # "outcome"
        <3>1. CASE v = NewWork
            BY <1>5, <1>7, <1>10, <3>1
        <3>2. CASE v \in Ids
            <4>1. work'[v] = work[v] /\ work[v].row # r
                BY <1>7, <2>4, <3>2 DEF ChatInv, Authority, UsedOnce
            <4>2. QED
                BY <1>10, <2>4, <3>2, <4>1
        <3>3. QED
            BY <1>7, <2>4, <3>1, <3>2
    <2>5. RowsAreTold'
        <3>1. \A v \in Ids : work'[v].said = work[v].said
            BY <1>7
        <3>2. \A v \in Ids' \ Ids : work'[v].row = r
            BY <1>5, <1>7
        <3>3. QED
            BY <1>1, <1>7, <1>11, <2>3, <2>4, <3>1, <3>2, Retold
    <2>6. OnDisplay'
        BY <1>1, <1>8 DEF OnDisplay
    <2>7. QED
        BY <2>2, <2>5, <2>6 DEF Display
<1>15. QED
    BY <1>12, <1>13, <1>14 DEF ChatInv

LEMMA ConfirmActionStep ==
    ASSUME ChatInv, ConfirmAction
    PROVE  ChatInv'
BY DispatchStep, CardClosedStep DEF ConfirmAction

-----------------------------------------------------------------------------
(* The invariant holds of every reachable state.                            *)
LEMMA ChatInit == Init => ChatInv
<1> SUFFICES ASSUME Init PROVE ChatInv
    OBVIOUS
<1>1. /\ wallet = [address |-> NoWallet, client |-> FALSE, gen |-> 0] /\ epoch = 0 /\ streaming = FALSE
      /\ controller = 0 /\ pending = NoCard /\ active = NoRow /\ payload = 0 /\ attaching = Idle
      /\ attached = <<>> /\ work = <<>> /\ submitted = {} /\ dispatches = 0
      /\ DOMAIN transcript = Addresses /\ \A a \in Addresses : DOMAIN transcript[a] = {}
    BY DEF Init, Addresses
<1>2. Ids = {} /\ Len(work) = 0
    BY <1>1 DEF Ids
<1>3. StoreTyped
    <2>1. NoWallet \in Addresses /\ NoRow \in RowIds
        BY DEF Addresses, NoRow, RowIds
    <2>2. attached \in Seq(Addresses) /\ Len(attached) = 0 /\ work \in Seq(Items)
        BY <1>1
    <2>3. wallet \in [address : Addresses, client : BOOLEAN, gen : Nat]
        BY <1>1, <2>1
    <2>4. epoch \in Nat /\ streaming \in BOOLEAN /\ controller \in 0..Len(work) /\ payload \in 0..Len(attached)
          /\ attaching \in {Idle} \cup Nat /\ dispatches \in Nat
        <3>1. 0 \in Nat /\ FALSE \in BOOLEAN /\ 0 \in 0..0
            OBVIOUS
        <3>2. QED
            BY ONLY <1>1, <1>2, <2>2, <3>1
    <2>5. QED
        BY <1>1, <2>1, <2>2, <2>3, <2>4 DEF StoreTyped
<1>4. Authority
    BY <1>1, <1>2 DEF Authority, OwnerActs, CardStands, UsedOnce
<1>5. Display
    BY <1>1, <1>2 DEF Display, RowsFit, OnDisplay, RowsAreTold, Open
<1>6. QED
    BY <1>3, <1>4, <1>5 DEF ChatInv

LEMMA ContinuesStep ==
    ASSUME ChatInv, NEW w \in Ids, Continues(w)
    PROVE  ChatInv'
<1>1. CASE Abandon(w)
    BY <1>1, AbandonStep
<1>2. CASE ModelFails(w)
    BY <1>2, ModelFailsStep
<1>3. CASE ModelAnswers(w)
    BY <1>3, ModelAnswersStep
<1>4. CASE \E calls \in Calls : ModelCalls(w, calls)
    BY <1>4, ModelCallsStep
<1>5. CASE ToolStopped(w)
    BY <1>5, ToolStoppedStep
<1>6. CASE ToolReports(w)
    BY <1>6, ToolReportsStep
<1>7. CASE ToolAsks(w)
    BY <1>7, ToolAsksStep
<1>8. CASE MergePlanned(w)
    BY <1>8, MergePlannedStep
<1>9. CASE MergeFails(w)
    BY <1>9, MergeFailsStep
<1>10. CASE MergeStopped(w)
    BY <1>10, MergeStoppedStep
<1>11. CASE AppStatusReturns(w)
    BY <1>11, AppStatusReturnsStep
<1>12. CASE BatchPlanned(w)
    BY <1>12, BatchPlannedStep
<1>13. CASE BatchRefused(w)
    BY <1>13, BatchRefusedStep
<1>14. CASE BatchReplanned(w)
    BY <1>14, BatchReplannedStep
<1>15. CASE ReplanRefused(w)
    BY <1>15, ReplanRefusedStep
<1>16. CASE Submit(w)
    BY <1>16, SubmitStep
<1>17. CASE TransactionReturns(w)
    BY <1>17, TransactionReturnsStep
<1>18. CASE TransactionThrows(w)
    BY <1>18, TransactionThrowsStep
<1>19. CASE LateResult(w)
    BY <1>19, LateResultStep
<1>20. CASE FollowUpReturns(w)
    BY <1>20, FollowUpReturnsStep
<1>21. QED
    BY <1>1, <1>2, <1>3, <1>4, <1>5, <1>6, <1>7, <1>8, <1>9, <1>10, <1>11, <1>12, <1>13, <1>14, <1>15,
       <1>16, <1>17, <1>18, <1>19, <1>20 DEF Continues

LEMMA UserActsStep ==
    ASSUME ChatInv, UserActs
    PROVE  ChatInv'
<1>1. CASE SendMessage
    BY <1>1, SendMessageStep
<1>2. CASE RequestAppStatus \/ RequestBatchDeploy
    BY <1>2, RequestsStep
<1>3. CASE RequestStopApp
    BY <1>3, RequestStopAppStep
<1>4. CASE ReplanEditedBatch
    BY <1>4, ReplanEditedBatchStep
<1>5. CASE ConfirmAction
    BY <1>5, ConfirmActionStep
<1>6. CASE CancelAction
    BY <1>6, CardClosedStep
<1>7. CASE Stop
    BY <1>7, StopStep
<1>8. CASE ClearHistory
    BY <1>8, ClearHistoryStep
<1>9. CASE BeginAttach \/ EndAttach
    BY <1>9, AttachmentStep
<1>10. QED
    BY <1>1, <1>2, <1>3, <1>4, <1>5, <1>6, <1>7, <1>8, <1>9 DEF UserActs

LEMMA NothingHappens ==
    ASSUME ChatInv, UNCHANGED vars
    PROVE  ChatInv'
<1>1. UNCHANGED <<wallet, epoch, streaming, controller, pending, active, payload, attaching, attached, transcript,
                  work, submitted, dispatches>>
    BY DEF vars
<1>2. Kept /\ Ids' = Ids /\ Open' = Open
    BY <1>1 DEF Kept, Ids, Open, Row, Done
<1>3. StoreTyped'
    BY <1>1 DEF ChatInv, StoreTyped
<1>4. Authority'
    BY <1>1 DEF ChatInv, Authority, OwnerActs, CardStands, UsedOnce, OfDone, Current, OfContext, Done, Ids
<1>5. Display'
    BY <1>1, <1>2, Untouched
<1>6. QED
    BY <1>3, <1>4, <1>5 DEF ChatInv

LEMMA ChatNext == ChatInv /\ [Next]_vars => ChatInv'
<1> SUFFICES ASSUME ChatInv, [Next]_vars PROVE ChatInv'
    OBVIOUS
<1>1. CASE \E address \in Wallets \cup {NoWallet}, client \in BOOLEAN : SetWalletContext(address, client)
    BY <1>1, SetWalletContextStep DEF Addresses
<1>2. CASE UserActs
    BY <1>2, UserActsStep
<1>3. CASE ConfirmationTimeout
    BY <1>3, CardClosedStep
<1>4. CASE \E w \in Ids : Continues(w)
    BY <1>4, ContinuesStep
<1>5. CASE UNCHANGED vars
    BY <1>5, NothingHappens
<1>6. QED
    BY <1>1, <1>2, <1>3, <1>4, <1>5 DEF Next

(* The three parts of the invariant hold in every reachable state.          *)
THEOREM ChatIsSound == Spec => []ChatInv
<1>1. QED
    BY ChatInit, ChatNext, PTL DEF Spec

(* Whoever the wallet, however many turns and changes of context: the chat  *)
(* is busy only for live work that will free it, and a row shows progress   *)
(* only for the work that has the chat (isStreaming, abortController).      *)
THEOREM SlotsStayReal == Spec => []SlotsAreReal
<1>1. ChatInv => SlotsAreReal
    <2> SUFFICES ASSUME ChatInv PROVE SlotsAreReal
        OBVIOUS
    <2>1. BusyMeansOwned
        BY WorkShape DEF BusyMeansOwned, ChatInv, Authority, OwnerActs, Owns
    <2>2. ASSUME NEW a \in Addresses, NEW r \in DOMAIN transcript[a]
          PROVE  RowFits(a, r) /\ r[1] \in Ids /\ r # NoRow
        <3>1. RowFits(a, r)
            BY DEF ChatInv, Display, RowsFit
        <3>2. QED
            BY <3>1, RowOfWork DEF RowFits
    <2>3. ASSUME NEW a \in Addresses, NEW r \in DOMAIN transcript[a], transcript[a][r].st = "streaming"
          PROVE  (a = wallet.address /\ r[1] = controller) \/ work[r[1]].said = "stranded"
        <3>1. work[r[1]].said = "stranded" \/ (a = wallet.address /\ r \in Open)
            BY <2>2, <2>3 DEF RowFits
        <3>2. QED
            BY <3>1, OpenOfOwner
    <2>4. ASSUME NEW a \in Addresses, NEW r \in DOMAIN transcript[a], transcript[a][r].st = "inflight"
          PROVE  /\ a = wallet.address /\ r = active /\ controller # 0
                 /\ work[controller].row = r /\ work[controller].pc \in {"execute", "sent"}
        <3>1. a = wallet.address /\ r = active /\ active # NoRow
            BY <2>2, <2>4 DEF RowFits
        <3>2. QED
            BY <3>1 DEF ChatInv, Authority, CardStands, Runs
    <2>5. ProgressIsReal
        BY <2>3, <2>4 DEF ProgressIsReal, Addresses
    <2>6. QED
        BY <2>1, <2>5 DEF SlotsAreReal
<1>2. QED
    BY <1>1, ChatIsSound, PTL

\* The rows that wait are the row of the card.
LEMMA CardsAnswer == ChatInv => OneLiveCard
<1> SUFFICES ASSUME ChatInv PROVE OneLiveCard
    OBVIOUS
<1>1. pending # NoCard => Current(pending)
    BY DEF ChatInv, Authority, CardStands
<1>2. ASSUME NEW a \in Addresses, NEW r \in DOMAIN transcript[a], transcript[a][r].st = "waiting"
      PROVE  a = wallet.address /\ r = pending.row /\ pending # NoCard
    <2>1. RowFits(a, r)
        BY DEF ChatInv, Display, RowsFit
    <2>2. r # NoRow
        BY <2>1, RowOfWork DEF RowFits
    <2>3. a = wallet.address /\ r = pending.row
        BY <1>2, <2>1 DEF RowFits
    <2>4. NoCard.row = NoRow
        BY DEF NoCard
    <2>5. QED
        BY ONLY <2>2, <2>3, <2>4
<1>3. pending # NoCard => /\ pending.row \in DOMAIN transcript[wallet.address]
                          /\ transcript[wallet.address][pending.row].st = "waiting"
    BY DEF ChatInv, Display, OnDisplay, Visible
<1>4. ASSUME NEW a \in Addresses
      PROVE  {r \in DOMAIN transcript[a] : transcript[a][r].st = "waiting"}
               = IF a = wallet.address /\ pending # NoCard THEN {pending.row} ELSE {}
    BY <1>2, <1>3
<1>5. QED
    BY <1>1, <1>4 DEF OneLiveCard, Addresses

(* No row waits for a confirmation nobody can give: in all transcripts the  *)
(* rows that wait are the row of the one card, and the wallet that sees it  *)
(* can still confirm it (setSingleConfirmation, sendMessage).               *)
THEOREM CardsAreLive == Spec => []OneLiveCard
<1>1. QED
    BY CardsAnswer, ChatIsSound, PTL

(* Everything submitted was approved: under the wallet and the generation   *)
(* its card was proposed under, once per card, and never under a row that   *)
(* says nothing was submitted (isTransactionAuthorizationCurrent).          *)
THEOREM ApprovalsAreHonoured == Spec => []ApprovalsHonoured
<1>1. ChatInv => ApprovalsHonoured
    <2> SUFFICES ASSUME ChatInv PROVE ApprovalsHonoured
        OBVIOUS
    <2>1. UsedOnce
        BY DEF ChatInv, Authority
    <2>2. \A v, w \in Ids : v # w /\ work[v].kind = "confirm" /\ work[w].kind = "confirm" => work[v].row # work[w].row
        BY <2>1 DEF UsedOnce
    <2>3. ASSUME NEW a \in Wallets, NEW r \in DOMAIN transcript[a], transcript[a][r].text = "unsubmitted",
                 NEW s \in submitted, s.row = r
          PROVE  FALSE
        <3>1. PICK w \in Ids : work[w].kind = "confirm" /\ work[w].row = s.row
            BY <2>1 DEF UsedOnce
        <3>2. a \in Addresses
            BY DEF Addresses
        <3>3. QED
            BY <2>3, <3>1, <3>2 DEF ChatInv, Display, RowsAreTold
    <2>4. QED
        BY <2>1, <2>2, <2>3 DEF ApprovalsHonoured, UsedOnce
<1>2. QED
    BY <1>1, ChatIsSound, PTL

(* The outcome of a transaction stays on its row, in whichever transcript   *)
(* that is by then (finalizeStaleToolResult, messagesAfterAuthorizationChange). *)
THEOREM OutcomesStay == Spec => []OutcomeStays
<1>1. ChatInv => OutcomeStays
    <2> SUFFICES ASSUME ChatInv PROVE OutcomeStays
        OBVIOUS
    <2>1. \A w \in Ids : work[w].wallet \in Addresses
        BY WorkShape, ItemShape DEF ChatInv
    <2>2. QED
        BY <2>1 DEF OutcomeStays, ChatInv, Display, RowsAreTold
<1>2. QED
    BY <1>1, ChatIsSound, PTL

-----------------------------------------------------------------------------
(* Files and the tool cache.  What a continuation may do to them: it keeps  *)
(* its wallet and its file, or takes the file attached now; what it asks    *)
(* for next it asks after the dispatches there are.                         *)
Carries(item, w) ==
    /\ item.wallet = work[w].wallet
    /\ item.payload = work[w].payload \/ (item.payload = payload /\ Owns(w))
    /\ item.pc \in {"tool", "query"} =>
         item.seen = dispatches \/ (item.pc = work[w].pc /\ item.seen = work[w].seen)

CardCarries(w) ==
    \/ pending' = pending
    \/ /\ pending'.wallet = work[w].wallet
       /\ pending'.payload \in {0, work[w].payload} \/ (pending'.payload = payload /\ Owns(w))

GoesOn(w) ==
    /\ UNCHANGED <<wallet, epoch, attaching, attached, dispatches>>
    /\ controller' \in {controller, 0} /\ payload' \in {payload, 0}
    /\ \E item : work' = [work EXCEPT ![w] = item] /\ Carries(item, w)
    /\ cache' = cache \/ (Owns(w) /\ work[w].pc \in {"tool", "query"} /\ cache' = work[w].seen)
    /\ CardCarries(w)

(* What a new piece of work may do: it brings the file attached now, or the *)
(* one of the card it consumes.                                             *)
Arrives ==
    /\ UNCHANGED <<wallet, epoch, attaching, attached, payload>>
    /\ controller' \in {NewWork, 0}
    /\ \E item \in Items :
         /\ work' = Append(work, item) /\ item.wallet = wallet.address
         /\ \/ item.payload \in {0, payload}
            \/ pending # NoCard /\ item.payload = pending.payload /\ item.wallet = pending.wallet
         /\ item.pc \in {"tool", "query"} => item.seen = dispatches
         /\ (cache' = NotCached /\ item.pc = "execute") \/ UNCHANGED <<cache, dispatches>>
    /\ pending' \in {pending, NoCard} \/ pending'.payload = 0

LEMMA GoesOnKeeps ==
    ASSUME ChatInv, ChatInv', Files, Cached, NEW w \in Ids, GoesOn(w)
    PROVE  Files' /\ Cached'
<1>1. /\ UNCHANGED <<wallet, epoch, attaching, attached, dispatches>>
      /\ controller' \in {controller, 0} /\ payload' \in {payload, 0}
      /\ cache' = cache \/ (Owns(w) /\ work[w].pc \in {"tool", "query"} /\ cache' = work[w].seen)
      /\ CardCarries(w)
    BY DEF GoesOn
<1>2. PICK item : work' = [work EXCEPT ![w] = item] /\ Carries(item, w)
    BY DEF GoesOn
<1>3. /\ DOMAIN work = Ids /\ DOMAIN work' = Ids' /\ payload \in 0..Len(attached)
      /\ pending' = NoCard \/ pending' \in Cards
    <2>1. /\ work \in Seq(Items) /\ work' \in Seq(Items) /\ payload \in 0..Len(attached)
          /\ pending' = NoCard \/ pending' \in Cards
        BY DEF ChatInv, StoreTyped
    <2>2. DOMAIN work = 1..Len(work) /\ DOMAIN work' = 1..Len(work')
        BY ONLY <2>1
    <2>3. QED
        BY <2>1, <2>2 DEF Ids
<1>4. Ids' = Ids /\ work'[w] = item /\ \A v \in Ids \ {w} : work'[v] = work[v]
    BY <1>2, <1>3
<1>5. Owns(w) => controller = w /\ controller # 0 /\ work[w].wallet = wallet.address
    BY Owner DEF OfContext
<1>6. /\ item.payload \in 0..Len(attached)
      /\ item.payload # 0 => attached[item.payload] = item.wallet
    BY <1>2, <1>3, <1>5 DEF Carries, Files
<1>7. Files'
    <2>1. pending' # NoCard => /\ pending'.payload \in 0..Len(attached)
                               /\ pending'.payload # 0 => attached[pending'.payload] = pending'.wallet
        <3>1. CASE pending' = pending
            BY <3>1 DEF Files
        <3>2. CASE pending'.wallet = work[w].wallet /\ pending'.payload \in {0, work[w].payload}
            BY <1>3, <3>2 DEF Files
        <3>3. CASE pending'.wallet = work[w].wallet /\ pending'.payload = payload /\ Owns(w)
            BY <1>3, <1>5, <3>3 DEF Files
        <3>4. QED
            BY <1>1, <3>1, <3>2, <3>3 DEF CardCarries
    <2>2. \A v \in Ids : /\ work'[v].payload \in 0..Len(attached)
                         /\ work'[v].payload # 0 => attached[work'[v].payload] = work'[v].wallet
        <3>1. \A v \in Ids : /\ work[v].payload \in 0..Len(attached)
                             /\ work[v].payload # 0 => attached[work[v].payload] = work[v].wallet
            BY DEF Files
        <3>2. QED
            BY ONLY <1>4, <1>6, <3>1
    <2>3. payload' # 0 => attached[payload'] = wallet.address
        BY <1>1 DEF Files
    <2>4. QED
        BY <1>1, <1>4, <2>1, <2>2, <2>3 DEF Files
<1>8. Cached'
    <2>1. cache' = cache \/ cache' = dispatches
        BY <1>1, <1>5 DEF Cached
    <2>2. controller' # 0 /\ work'[controller'].pc \in {"tool", "query"} => work'[controller'].seen = dispatches
        <3>1. SUFFICES ASSUME controller # 0, work'[controller].pc \in {"tool", "query"}
                       PROVE  work'[controller].seen = dispatches
            BY <1>1
        <3>2. controller \in Ids
            BY <3>1, WorkShape DEF ChatInv
        <3>3. CASE controller = w
            BY <1>2, <1>4, <3>1, <3>3 DEF Carries, Cached
        <3>4. CASE controller # w
            BY <1>4, <3>1, <3>2, <3>4 DEF Cached
        <3>5. QED
            BY <3>3, <3>4
    <2>3. QED
        BY <1>1, <2>1, <2>2 DEF Cached
<1>9. QED
    BY <1>7, <1>8

LEMMA ArrivesKeeps ==
    ASSUME ChatInv, Files, Cached, Arrives
    PROVE  Files' /\ Cached'
<1>1. /\ UNCHANGED <<wallet, epoch, attaching, attached, payload>>
      /\ controller' \in {NewWork, 0}
      /\ pending' \in {pending, NoCard} \/ pending'.payload = 0
    BY DEF Arrives
<1>2. PICK item \in Items :
         /\ work' = Append(work, item) /\ item.wallet = wallet.address
         /\ \/ item.payload \in {0, payload}
            \/ pending # NoCard /\ item.payload = pending.payload /\ item.wallet = pending.wallet
         /\ item.pc \in {"tool", "query"} => item.seen = dispatches
         /\ (cache' = NotCached /\ item.pc = "execute") \/ UNCHANGED <<cache, dispatches>>
    BY DEF Arrives
<1>3. /\ Ids' = Ids \cup {NewWork} /\ NewWork # 0 /\ work'[NewWork] = item /\ \A v \in Ids : work'[v] = work[v]
      /\ payload \in 0..Len(attached)
    <2>1. StoreTyped /\ payload \in 0..Len(attached)
        BY DEF ChatInv, StoreTyped
    <2>2. QED
        BY <1>2, <2>1, Appended DEF NewWork
<1>4. /\ item.payload \in 0..Len(attached)
      /\ item.payload # 0 => attached[item.payload] = item.wallet
    BY <1>2, <1>3 DEF Files
<1>5. Files'
    <2>1. pending' # NoCard => /\ pending'.payload \in 0..Len(attached)
                               /\ pending'.payload # 0 => attached[pending'.payload] = pending'.wallet
        BY <1>1, <1>3 DEF Files
    <2>2. \A v \in Ids' : /\ work'[v].payload \in 0..Len(attached)
                          /\ work'[v].payload # 0 => attached[work'[v].payload] = work'[v].wallet
        <3>1. \A v \in Ids : /\ work[v].payload \in 0..Len(attached)
                             /\ work[v].payload # 0 => attached[work[v].payload] = work[v].wallet
            BY DEF Files
        <3>2. QED
            BY ONLY <1>3, <1>4, <3>1
    <2>3. QED
        BY <1>1, <2>1, <2>2 DEF Files
<1>6. Cached'
    BY <1>1, <1>2, <1>3 DEF Cached
<1>7. QED
    BY <1>5, <1>6

LEMMA TurnIsReleased ==
    ASSUME NEW w, NEW item \in Items, item.wallet = work[w].wallet,
           item.payload = work[w].payload, NEW rows, Release(w, item, rows)
    PROVE  controller' = 0 /\ \E left : work' = [work EXCEPT ![w] = left] /\ Carries(left, w)
<1>1. Over(item).wallet = item.wallet /\ Over(item).payload = item.payload /\ Over(item).pc = "done"
    BY OverShape
<1>2. Carries(Over(item), w)
    BY <1>1 DEF Carries
<1>3. QED
    BY <1>2 DEF Release

LEMMA TurnGoesRound ==
    ASSUME NEW w, work[w] \in Items, NEW rows, NextTurn(w, rows)
    PROVE  /\ controller' \in {controller, 0} /\ payload' \in {payload, 0}
           /\ \E item : work' = [work EXCEPT ![w] = item] /\ Carries(item, w)
<1> DEFINE next == [work[w] EXCEPT !.pc = "model", !.turn = @ + 1, !.calls = <<>>,
                                   !.at = 0, !.collected = {}, !.said = ""]
           part == [work[w] EXCEPT !.pc = "model", !.turn = @ + 1, !.calls = <<>>]
           rest == [part EXCEPT !.at = 0, !.collected = {}, !.said = ""]
<1>1. next \in Items /\ next.pc = "model" /\ next.wallet = work[w].wallet /\ next.payload = work[w].payload
    <2>1. <<>> \in Seq(Tools) /\ {} \in SUBSET Nat
        OBVIOUS
    <2>2. part \in Items /\ part.pc = "model" /\ part.wallet = work[w].wallet /\ part.payload = work[w].payload
        <3>1. work[w].turn + 1 \in Nat
            <4>1. work[w].turn \in Nat
                BY DEF Items
            <4>2. QED
                BY <4>1
        <3>2. QED
            BY <2>1, <3>1 DEF Items, Stages
    <2>3. next = rest
        OBVIOUS
    <2> HIDE DEF part
    <2>4. rest \in Items /\ rest.pc = part.pc /\ rest.wallet = part.wallet /\ rest.payload = part.payload
        BY <2>1, <2>2 DEF Items
    <2>5. QED
        BY <2>2, <2>3, <2>4
<1>2. \/ \E shown : Proceed(w, next, shown)
      \/ \E shown : EndTurn(w, next, shown)
    BY DEF NextTurn
<1> HIDE DEF next
<1>3. CASE \E shown : Proceed(w, next, shown)
    BY <1>1, <1>3 DEF Proceed, Carries
<1>4. CASE \E shown : EndTurn(w, next, shown)
    <2>1. PICK shown : EndTurn(w, next, shown)
        BY <1>4
    <2>2. QED
        BY <1>1, <2>1, TurnIsReleased DEF EndTurn
<1>5. QED
    BY <1>2, <1>3, <1>4

LEMMA AsksForOne ==
    ASSUME NEW w, Owns(w), NEW item \in Items, item.wallet = work[w].wallet, item.payload = work[w].payload,
           NEW rows, NEW i, AskOne(w, item, rows, i)
    PROVE  /\ controller' = 0 /\ payload' = 0 /\ CardCarries(w)
           /\ \E left : work' = [work EXCEPT ![w] = left] /\ Carries(left, w)
<1>1. \E shown : EndTurn(w, item, shown)
    BY DEF AskOne
<1>2. PICK shown : EndTurn(w, item, shown)
    BY <1>1
<1>3. pending' = Card(item, Row(w, i), IF item.calls[i] = "deploy" THEN payload ELSE 0, FALSE)
    BY DEF AskOne
<1>4. CardCarries(w)
    BY <1>3 DEF Card, CardCarries
<1>5. QED
    BY <1>2, <1>4, TurnIsReleased DEF EndTurn

LEMMA CallIsOver ==
    ASSUME NEW w, Owns(w), work[w] \in Items, NEW item \in Items, item.wallet = work[w].wallet,
           item.payload = work[w].payload, NEW rows, AfterCall(w, item, rows)
    PROVE  /\ controller' \in {controller, 0} /\ payload' \in {payload, 0} /\ CardCarries(w)
           /\ \E left : work' = [work EXCEPT ![w] = left] /\ Carries(left, w)
<1> DEFINE i == item.at + 1
           next == [item EXCEPT !.at = i, !.seen = dispatches]
           merging == [item EXCEPT !.pc = "merge", !.payload = payload]
<1>1. /\ next.wallet = item.wallet /\ next.payload = item.payload /\ next.seen = dispatches
      /\ merging.wallet = item.wallet /\ merging.payload = payload /\ merging.pc = "merge"
    BY DEF Items
<1>2. \/ (\E shown : Proceed(w, next, shown)) /\ UNCHANGED pending
      \/ EndTurn(w, item, rows) /\ UNCHANGED pending
      \/ NextTurn(w, rows) /\ UNCHANGED pending
      \/ Proceed(w, merging, rows) /\ UNCHANGED pending
      \/ AskOne(w, item, rows, First(item.collected))
    BY DEF AfterCall
<1> HIDE DEF next, merging
<1>3. CASE (\E shown : Proceed(w, next, shown)) /\ UNCHANGED pending
    BY <1>1, <1>3 DEF Proceed, Carries, CardCarries
<1>4. CASE EndTurn(w, item, rows) /\ UNCHANGED pending
    BY <1>4, TurnIsReleased DEF EndTurn, CardCarries
<1>5. CASE NextTurn(w, rows) /\ UNCHANGED pending
    BY <1>5, TurnGoesRound DEF CardCarries
<1>6. CASE Proceed(w, merging, rows) /\ UNCHANGED pending
    BY <1>1, <1>6 DEF Proceed, Carries, CardCarries
<1>7. CASE AskOne(w, item, rows, First(item.collected))
    BY <1>7, AsksForOne
<1>8. QED
    BY <1>2, <1>3, <1>4, <1>5, <1>6, <1>7

LEMMA ContinuesCarries ==
    ASSUME ChatInv, NEW w \in Ids, Continues(w)
    PROVE  GoesOn(w)
<1>1. work[w] \in Items
    BY WorkShape DEF ChatInv
<1>2. ASSUME NEW rows, Release(w, work[w], rows)
      PROVE  controller' = 0 /\ \E item : work' = [work EXCEPT ![w] = item] /\ Carries(item, w)
    BY <1>1, <1>2, TurnIsReleased
<1>3. ASSUME NEW said \in {"", "card", "answer", "stranded", "outcome"}
      PROVE  /\ [work[w] EXCEPT !.said = said] \in Items
             /\ [work[w] EXCEPT !.said = said].wallet = work[w].wallet
             /\ [work[w] EXCEPT !.said = said].payload = work[w].payload
             /\ [work[w] EXCEPT !.said = said].pc = work[w].pc
    BY ZenonT(40), <1>1, SaidTyped DEF Same
<1>4. CASE Abandon(w)
    <2>1. work' = [work EXCEPT ![w] = Over(work[w])]
        BY <1>4 DEF Abandon
    <2>2. Carries(Over(work[w]), w)
        BY <1>1, OverShape DEF Carries
    <2>3. QED
        BY <1>4, <2>1, <2>2 DEF Abandon, GoesOn, CardCarries
<1>5. CASE ModelFails(w)
    BY <1>2, <1>5 DEF ModelFails, EndTurn, GoesOn, CardCarries
<1>6. CASE ModelAnswers(w)
    <2> DEFINE said == IF work[w].aborted THEN "" ELSE "answer"
               item == [work[w] EXCEPT !.said = said]
    <2>1. item \in Items /\ item.wallet = work[w].wallet /\ item.payload = work[w].payload
        BY <1>3
    <2>2. \E rows : EndTurn(w, item, rows)
        BY <1>6 DEF ModelAnswers
    <2> HIDE DEF item
    <2>3. PICK rows : Release(w, item, rows) /\ payload' = 0
        BY <2>2 DEF EndTurn
    <2>4. controller' = 0 /\ \E left : work' = [work EXCEPT ![w] = left] /\ Carries(left, w)
        BY <2>1, <2>3, TurnIsReleased
    <2>5. QED
        BY <1>6, <2>3, <2>4 DEF ModelAnswers, GoesOn, CardCarries
<1>7. CASE \E calls \in Calls : ModelCalls(w, calls)
    <2>1. PICK calls \in Calls : ModelCalls(w, calls)
        BY <1>7
    <2> DEFINE item == [work[w] EXCEPT !.pc = "tool", !.calls = calls, !.at = 1, !.seen = dispatches]
    <2>2. /\ UNCHANGED <<wallet, epoch, pending, attaching, attached, cache, dispatches>>
          /\ (\E rows : EndTurn(w, work[w], rows)) \/ (\E rows : Proceed(w, item, rows))
        BY <2>1 DEF ModelCalls
    <2>3. item.wallet = work[w].wallet /\ item.payload = work[w].payload /\ item.seen = dispatches
        BY <1>1 DEF Items
    <2> HIDE DEF item
    <2>4. CASE \E rows : EndTurn(w, work[w], rows)
        BY <1>2, <2>2, <2>4 DEF EndTurn, GoesOn, CardCarries
    <2>5. CASE \E rows : Proceed(w, item, rows)
        <3>1. Carries(item, w)
            BY <2>3 DEF Carries
        <3>2. QED
            BY <2>2, <2>5, <3>1 DEF Proceed, GoesOn, CardCarries
    <2>6. QED
        BY <2>2, <2>4, <2>5
<1>8. CASE ToolStopped(w)
    BY <1>2, <1>8 DEF ToolStopped, EndTurn, GoesOn, CardCarries
<1>9. CASE ToolReports(w)
    <2>1. PICK said \in {work[w].said, "card"} : \E rows : AfterCall(w, [work[w] EXCEPT !.said = said], rows)
        BY <1>9 DEF ToolReports
    <2> DEFINE item == [work[w] EXCEPT !.said = said]
    <2>2. item \in Items /\ item.wallet = work[w].wallet /\ item.payload = work[w].payload
        BY <1>1, <1>3, ItemShape
    <2>3. PICK rows : AfterCall(w, item, rows)
        BY <2>1
    <2> HIDE DEF item
    <2>4. /\ Owns(w) /\ work[w].pc = "tool" /\ cache' \in {cache, work[w].seen}
          /\ UNCHANGED <<wallet, epoch, attaching, attached, dispatches>>
        BY <1>9 DEF ToolReports
    <2>5. /\ controller' \in {controller, 0} /\ payload' \in {payload, 0} /\ CardCarries(w)
          /\ \E left : work' = [work EXCEPT ![w] = left] /\ Carries(left, w)
        BY <1>1, <2>2, <2>3, <2>4, CallIsOver
    <2>6. QED
        BY <2>4, <2>5 DEF GoesOn
<1>10. CASE ToolAsks(w)
    <2> DEFINE item == [work[w] EXCEPT !.collected = @ \cup {work[w].at}]
    <2>1. item \in Items /\ item.wallet = work[w].wallet /\ item.payload = work[w].payload
        <3>1. work[w].collected \cup {work[w].at} \in SUBSET Nat
            BY <1>1 DEF Items
        <3>2. QED
            BY <1>1, <3>1 DEF Items
    <2>2. /\ AfterCall(w, item, Visible) /\ Owns(w)
          /\ UNCHANGED <<wallet, epoch, attaching, attached, cache, dispatches>>
        BY <1>10 DEF ToolAsks
    <2> HIDE DEF item
    <2>3. /\ controller' \in {controller, 0} /\ payload' \in {payload, 0} /\ CardCarries(w)
          /\ \E left : work' = [work EXCEPT ![w] = left] /\ Carries(left, w)
        BY <1>1, <2>1, <2>2, CallIsOver
    <2>4. QED
        BY <2>2, <2>3 DEF GoesOn
<1>11. CASE MergePlanned(w)
    <2>1. /\ UNCHANGED <<wallet, epoch, attaching, attached, cache, dispatches>>
          /\ \E kept : /\ pending' = Card(work[w], Row(w, Newest(kept)), work[w].payload, TRUE)
                       /\ \E rows : EndTurn(w, work[w], rows)
        BY <1>11 DEF MergePlanned
    <2>2. CardCarries(w)
        BY <2>1 DEF Card, CardCarries
    <2>3. QED
        BY <1>2, <2>1, <2>2 DEF EndTurn, GoesOn
<1>12. CASE MergeFails(w)
    <2> DEFINE others == work[w].collected \ Deploys(work[w], work[w].collected)
               item == [work[w] EXCEPT !.collected = others]
    <2>1. item \in Items /\ item.wallet = work[w].wallet /\ item.payload = work[w].payload
        <3>1. others \in SUBSET Nat
            BY <1>1 DEF Items
        <3> HIDE DEF others
        <3>2. QED
            BY <1>1, <3>1 DEF Items
    <2>2. /\ Owns(w) /\ UNCHANGED <<wallet, epoch, attaching, attached, cache, dispatches>>
          /\ \/ (\E rows : NextTurn(w, rows)) /\ UNCHANGED pending
             \/ \E rows : AskOne(w, item, rows, First(others))
        BY <1>12 DEF MergeFails
    <2> HIDE DEF item
    <2>3. CASE (\E rows : NextTurn(w, rows)) /\ UNCHANGED pending
        BY <1>1, <2>2, <2>3, TurnGoesRound DEF GoesOn, CardCarries
    <2>4. CASE \E rows : AskOne(w, item, rows, First(others))
        <3>1. /\ controller' = 0 /\ payload' = 0 /\ CardCarries(w)
              /\ \E left : work' = [work EXCEPT ![w] = left] /\ Carries(left, w)
            BY <2>1, <2>2, <2>4, AsksForOne
        <3>2. QED
            BY <2>2, <3>1 DEF GoesOn
    <2>5. QED
        BY <2>2, <2>3, <2>4
<1>13. CASE MergeStopped(w)
    <2> DEFINE item == [work[w] EXCEPT !.said = "stranded"]
    <2>1. item \in Items /\ item.wallet = work[w].wallet /\ item.payload = work[w].payload
        BY <1>3
    <2>2. \E rows : EndTurn(w, item, rows)
        BY <1>13 DEF MergeStopped
    <2> HIDE DEF item
    <2>3. PICK rows : Release(w, item, rows) /\ payload' = 0
        BY <2>2 DEF EndTurn
    <2>4. controller' = 0 /\ \E left : work' = [work EXCEPT ![w] = left] /\ Carries(left, w)
        BY <2>1, <2>3, TurnIsReleased
    <2>5. QED
        BY <1>13, <2>3, <2>4 DEF MergeStopped, GoesOn, CardCarries
<1>14. CASE AppStatusReturns(w)
    <2>1. /\ Owns(w) /\ work[w].pc = "query" /\ cache' \in {cache, work[w].seen} /\ \E rows : Release(w, work[w], rows)
          /\ UNCHANGED <<wallet, epoch, pending, payload, attaching, attached, dispatches>>
        BY <1>14 DEF AppStatusReturns
    <2>2. QED
        BY <1>2, <2>1 DEF GoesOn, CardCarries
<1>15. CASE BatchPlanned(w)
    <2>1. CardCarries(w)
        BY <1>15 DEF BatchPlanned, Card, CardCarries
    <2>2. QED
        BY <1>2, <1>15, <2>1 DEF BatchPlanned, GoesOn
<1>16. CASE BatchRefused(w)
    BY <1>2, <1>16 DEF BatchRefused, GoesOn, CardCarries
<1>17. CASE BatchReplanned(w)
    <2>1. /\ UNCHANGED <<wallet, epoch, attaching, attached, cache, dispatches>> /\ payload' \in {payload, 0}
          /\ \E rows : Release(w, work[w], rows)
          /\ pending' = pending \/ pending' = Card(work[w], work[w].row, 0, TRUE)
        BY <1>17 DEF BatchReplanned
    <2>2. CardCarries(w)
        BY <2>1 DEF Card, CardCarries
    <2>3. QED
        BY <1>2, <2>1, <2>2 DEF GoesOn
<1>18. CASE ReplanRefused(w)
    BY <1>2, <1>18 DEF ReplanRefused, GoesOn, CardCarries
<1>19. CASE Submit(w)
    <2> DEFINE item == [work[w] EXCEPT !.pc = "sent"]
    <2>1. work' = [work EXCEPT ![w] = item]
        BY <1>19 DEF Submit
    <2>2. Carries(item, w)
        BY <1>1 DEF Carries, Items
    <2> HIDE DEF item
    <2>3. QED
        BY <1>19, <2>1, <2>2 DEF Submit, GoesOn, CardCarries
<1>20. CASE TransactionReturns(w)
    <2> DEFINE over == [work[w] EXCEPT !.said = "outcome"]
               item == [over EXCEPT !.pc = "followup"]
    <2>1. over \in Items /\ over.wallet = work[w].wallet /\ over.payload = work[w].payload
        BY <1>3
    <2>2. \/ \E rows : EndTurn(w, over, rows)
          \/ \E rows : Proceed(w, item, rows)
        BY <1>20 DEF TransactionReturns
    <2> HIDE DEF over
    <2>3. item.wallet = over.wallet /\ item.payload = over.payload /\ item.pc = "followup"
        BY <2>1 DEF Items
    <2> HIDE DEF item
    <2>4. CASE \E rows : EndTurn(w, over, rows)
        <3>1. PICK rows : Release(w, over, rows) /\ payload' = 0
            BY <2>4 DEF EndTurn
        <3>2. controller' = 0 /\ \E left : work' = [work EXCEPT ![w] = left] /\ Carries(left, w)
            BY <2>1, <3>1, TurnIsReleased
        <3>3. QED
            BY <1>20, <3>1, <3>2 DEF TransactionReturns, GoesOn, CardCarries
    <2>5. CASE \E rows : Proceed(w, item, rows)
        <3>1. Carries(item, w)
            BY <2>1, <2>3 DEF Carries
        <3>2. QED
            BY <1>20, <2>5, <3>1 DEF TransactionReturns, Proceed, GoesOn, CardCarries
    <2>6. QED
        BY <2>2, <2>4, <2>5
<1>21. CASE TransactionThrows(w)
    BY <1>2, <1>21 DEF TransactionThrows, EndTurn, GoesOn, CardCarries
<1>22. CASE LateResult(w)
    <2>1. PICK text \in {"outcome", "interrupted"} :
            work' = [work EXCEPT ![w] = Over([@ EXCEPT !.said = IF text = "outcome" THEN text ELSE ""])]
        BY <1>22 DEF LateResult
    <2> DEFINE said == IF text = "outcome" THEN text ELSE ""
               item == [work[w] EXCEPT !.said = said]
    <2>2. work' = [work EXCEPT ![w] = Over(item)]
        BY <2>1
    <2>3. item \in Items /\ item.wallet = work[w].wallet /\ item.payload = work[w].payload
        BY <1>3
    <2> HIDE DEF item
    <2>4. Carries(Over(item), w)
        BY <2>3, OverShape DEF Carries
    <2>5. QED
        BY <1>22, <2>2, <2>4 DEF LateResult, GoesOn, CardCarries
<1>23. CASE FollowUpReturns(w)
    BY <1>2, <1>23 DEF FollowUpReturns, EndTurn, GoesOn, CardCarries
<1>24. QED
    BY <1>4, <1>5, <1>6, <1>7, <1>8, <1>9, <1>10, <1>11, <1>12, <1>13, <1>14, <1>15, <1>16, <1>17, <1>18, <1>19,
       <1>20, <1>21, <1>22, <1>23 DEF Continues

LEMMA RequestsArrive ==
    ASSUME ChatInv, \/ SendMessage \/ RequestAppStatus \/ RequestBatchDeploy \/ RequestStopApp
                    \/ ReplanEditedBatch \/ (pending # NoCard /\ Current(pending) /\ Dispatch)
    PROVE  Arrives
<1>1. StoreTyped /\ payload \in Nat /\ (pending # NoCard => pending \in Cards)
    BY DEF ChatInv, StoreTyped
<1>2. ASSUME NEW kind \in Kinds, NEW pc \in Stages
      PROVE  /\ Started(kind, pc) \in Items /\ Started(kind, pc).pc = pc /\ Started(kind, pc).wallet = wallet.address
             /\ Started(kind, pc).payload = 0 /\ Started(kind, pc).seen = dispatches
    BY <1>1, StartedShape
<1>3. /\ {"chat", "status", "batch", "stop", "replan", "confirm"} \subseteq Kinds
      /\ {"model", "query", "plan", "done", "replan", "execute"} \subseteq Stages
    BY DEF Kinds, Stages
<1>4. CASE SendMessage
    <2> DEFINE start == Started("chat", "model")
               item == [start EXCEPT !.payload = payload]
    <2>1. \E rows : Begin(item, rows)
        BY <1>4 DEF SendMessage
    <2>2. start \in Items /\ start.pc = "model" /\ start.wallet = wallet.address
        BY <1>2, <1>3
    <2> HIDE DEF start
    <2>3. item \in Items /\ item.pc = "model" /\ item.wallet = wallet.address /\ item.payload = payload
        BY <1>1, <2>2 DEF Items
    <2> HIDE DEF item
    <2>4. QED
        BY <1>4, <2>1, <2>3 DEF SendMessage, Begin, Arrives, NewWork
<1>5. CASE RequestAppStatus
    <2> DEFINE item == Started("status", "query")
    <2>1. \E rows : Begin(item, rows)
        BY <1>5 DEF RequestAppStatus
    <2>2. item \in Items /\ item.wallet = wallet.address /\ item.payload = 0 /\ item.seen = dispatches
        BY <1>2, <1>3
    <2> HIDE DEF item
    <2>3. QED
        BY <1>5, <2>1, <2>2 DEF RequestAppStatus, Begin, Arrives, NewWork
<1>6. CASE RequestBatchDeploy
    <2> DEFINE item == Started("batch", "plan")
    <2>1. \E rows : Begin(item, rows)
        BY <1>6 DEF RequestBatchDeploy
    <2>2. item \in Items /\ item.wallet = wallet.address /\ item.payload = 0 /\ item.seen = dispatches
        BY <1>2, <1>3
    <2> HIDE DEF item
    <2>3. QED
        BY <1>6, <2>1, <2>2 DEF RequestBatchDeploy, Begin, Arrives, NewWork
<1>7. CASE RequestStopApp
    <2> DEFINE item == Over(Started("stop", "done"))
    <2>1. /\ work' = Append(work, item) /\ controller' = controller /\ ~streaming
          /\ \E r : pending' = Card(item, r, 0, FALSE)
        BY <1>7 DEF RequestStopApp
    <2>2. item \in Items /\ item.pc = "done" /\ item.wallet = wallet.address /\ item.payload = 0
        BY <1>2, <1>3, OverShape
    <2> HIDE DEF item
    <2>3. controller' = 0
        BY <2>1 DEF ChatInv, Authority, OwnerActs
    <2>4. pending'.payload = 0
        BY <2>1 DEF Card
    <2>5. QED
        BY <1>7, <2>1, <2>2, <2>3, <2>4 DEF RequestStopApp, Arrives
<1>8. CASE ReplanEditedBatch
    <2> DEFINE start == Started("replan", "replan")
               item == [start EXCEPT !.row = pending.row]
    <2>1. Begin(item, Visible) /\ pending # NoCard
        BY <1>8 DEF ReplanEditedBatch
    <2>2. start \in Items /\ start.pc = "replan" /\ start.wallet = wallet.address /\ start.payload = 0
        BY <1>2, <1>3
    <2> HIDE DEF start
    <2>3. item \in Items /\ item.pc = "replan" /\ item.wallet = wallet.address /\ item.payload = 0
        <3>1. pending.row \in RowIds
            BY <1>1, <2>1 DEF Cards
        <3>2. QED
            BY <2>2, <3>1 DEF Items
    <2> HIDE DEF item
    <2>4. QED
        BY <1>8, <2>1, <2>3 DEF ReplanEditedBatch, Begin, Arrives, NewWork
<1>9. CASE pending # NoCard /\ Current(pending) /\ Dispatch
    <2> DEFINE start == Started("confirm", "execute")
               approved == [start EXCEPT !.wallet = pending.wallet, !.gen = pending.gen]
               item == [approved EXCEPT !.row = pending.row, !.payload = pending.payload]
    <2>1. \E rows : Begin(item, rows)
        BY <1>9 DEF Dispatch
    <2>2. /\ pending.wallet = wallet.address /\ pending.wallet \in Addresses /\ pending.gen \in Nat
          /\ pending.row \in RowIds /\ pending.payload \in Nat
        BY <1>1, <1>9 DEF Cards, Current
    <2>3. start \in Items /\ start.pc = "execute"
        BY <1>2, <1>3
    <2> HIDE DEF start
    <2>4. approved \in Items /\ approved.pc = "execute" /\ approved.wallet = pending.wallet
        BY <2>2, <2>3 DEF Items
    <2> HIDE DEF approved
    <2>5. /\ item \in Items /\ item.pc = "execute" /\ item.wallet = pending.wallet
          /\ item.payload = pending.payload
        BY <2>2, <2>4 DEF Items
    <2> HIDE DEF item
    <2>6. /\ UNCHANGED <<wallet, epoch, attaching, attached, payload>> /\ controller' = NewWork
          /\ work' = Append(work, item) /\ pending' = NoCard /\ cache' = NotCached
        BY <1>9, <2>1 DEF Dispatch, Begin, NewWork
    <2>7. QED
        BY <1>9, <2>2, <2>5, <2>6 DEF Arrives
<1>10. QED
    BY <1>4, <1>5, <1>6, <1>7, <1>8, <1>9

LEMMA CloseCardKeeps ==
    ASSUME Files, Cached, CloseCard, UNCHANGED <<wallet, epoch, controller, attaching, attached, cache, work, dispatches>>
    PROVE  Files' /\ Cached'
BY DEF CloseCard, Files, Cached, Ids

LEMMA AttachmentKeeps ==
    ASSUME ChatInv, Files, Cached, BeginAttach \/ EndAttach
    PROVE  Files' /\ Cached'
<1>1. /\ attached \in Seq(Addresses) /\ wallet.address \in Addresses /\ payload \in 0..Len(attached) /\ epoch \in Nat
      /\ attaching \in {Idle} \cup Nat
    BY VisibleTyped DEF ChatInv, StoreTyped
<1>2. Cached'
    BY DEF BeginAttach, EndAttach, Cached
<1>3. CASE BeginAttach
    <2>1. /\ attached' = Append(attached, wallet.address) /\ attaching' = epoch
          /\ UNCHANGED <<wallet, epoch, pending, payload, work>>
        BY <1>3 DEF BeginAttach
    <2>2. /\ Len(attached) \in Nat /\ Len(attached') = Len(attached) + 1 /\ attached'[Len(attached')] = wallet.address
          /\ \A n \in 1..Len(attached) : attached'[n] = attached[n]
        BY <1>1, <2>1
    <2>3. \A n \in 0..Len(attached) : n \in 0..Len(attached') /\ (n # 0 => attached'[n] = attached[n])
        BY <2>2
    <2>4. Ids' = Ids
        BY <2>1 DEF Ids
    <2>5. /\ payload' # 0 => attached'[payload'] = wallet'.address
          /\ pending' # NoCard => pending'.payload \in 0..Len(attached')
          /\ pending' # NoCard /\ pending'.payload # 0 => attached'[pending'.payload] = pending'.wallet
        BY <1>1, <2>1, <2>3 DEF Files
    <2>6. \A w \in Ids : /\ work[w].payload \in 0..Len(attached')
                         /\ work[w].payload # 0 => attached'[work[w].payload] = work[w].wallet
        BY <2>3 DEF Files
    <2>7. /\ attaching' # Idle => attaching' <= epoch' /\ Len(attached') > 0
          /\ attaching' = epoch' => attached'[Len(attached')] = wallet'.address
        BY <1>1, <2>1, <2>2
    <2>8. Files'
        BY <2>1, <2>4, <2>5, <2>6, <2>7 DEF Files
    <2>9. QED
        BY <1>2, <2>8
<1>4. CASE EndAttach
    <2>1. /\ UNCHANGED <<wallet, epoch, pending, attached, work>> /\ attaching' = Idle
          /\ payload' = payload \/ (attaching = epoch /\ payload' = Len(attached))
        BY <1>4 DEF EndAttach
    <2>2. Ids' = Ids /\ Idle # epoch
        BY <1>1, <2>1 DEF Ids, Idle
    <2>3. payload' # 0 => attached[payload'] = wallet.address
        BY <2>1 DEF Files
    <2>4. Files'
        BY <2>1, <2>2, <2>3 DEF Files
    <2>5. QED
        BY <1>2, <2>4
<1>5. QED
    BY <1>3, <1>4

(* Stopping, and a change of context: the work there is keeps its files.    *)
LEMMA AbortedKeeps ==
    ASSUME ChatInv, Files, Cached, work' = Aborted, attached' = attached, attaching' = attaching,
           \/ UNCHANGED <<wallet, epoch, controller, pending, payload, cache, dispatches>>
           \/ epoch' = epoch + 1 /\ controller' = 0 /\ pending' = NoCard /\ payload' = 0 /\ cache' = NotCached
    PROVE  Files' /\ Cached'
<1>1. /\ Ids' = Ids
      /\ \A v \in Ids : /\ work'[v].pc = work[v].pc /\ work'[v].wallet = work[v].wallet
                        /\ work'[v].payload = work[v].payload /\ work'[v].seen = work[v].seen
    BY AbortedShape DEF ChatInv
<1>2. epoch \in Nat /\ attaching \in {Idle} \cup Nat /\ (controller # 0 => controller \in Ids)
    BY WorkShape DEF ChatInv, StoreTyped
<1>3. CASE UNCHANGED <<wallet, epoch, controller, pending, payload, cache, dispatches>>
    <2>1. Files'
        BY <1>1, <1>3 DEF Files
    <2>2. Cached'
        BY <1>1, <1>2, <1>3 DEF Cached
    <2>3. QED
        BY <2>1, <2>2
<1>4. CASE epoch' = epoch + 1 /\ controller' = 0 /\ pending' = NoCard /\ payload' = 0 /\ cache' = NotCached
    <2>1. attaching' # epoch' /\ (attaching' # Idle => attaching' <= epoch' /\ Len(attached') > 0)
        BY <1>2, <1>4 DEF Files, Idle
    <2>2. Files'
        BY <1>1, <1>4, <2>1 DEF Files
    <2>3. Cached'
        BY <1>4 DEF Cached
    <2>4. QED
        BY <2>2, <2>3
<1>5. QED
    BY <1>3, <1>4

LEMMA FilesInit == Init => Files /\ Cached
BY DEF Init, Files, Cached, Ids, Idle, NoCard

LEMMA FilesNext == ChatInv /\ Files /\ Cached /\ [Next]_vars => Files' /\ Cached'
<1> SUFFICES ASSUME ChatInv, Files, Cached, [Next]_vars PROVE Files' /\ Cached'
    OBVIOUS
<1>1. ChatInv'
    BY ChatNext
<1>2. CASE \E address \in Wallets \cup {NoWallet}, client \in BOOLEAN : SetWalletContext(address, client)
    BY <1>2, AbortedKeeps DEF SetWalletContext
<1>3. CASE \/ SendMessage \/ RequestAppStatus \/ RequestBatchDeploy \/ RequestStopApp \/ ReplanEditedBatch
           \/ (pending # NoCard /\ Current(pending) /\ Dispatch)
    BY <1>3, RequestsArrive, ArrivesKeeps
<1>4. CASE CancelAction \/ ConfirmationTimeout \/ RefuseStaleCard
    BY <1>4, CloseCardKeeps DEF CancelAction, ConfirmationTimeout, RefuseStaleCard
<1>5. CASE Stop \/ ClearHistory
    BY <1>5, AbortedKeeps DEF Stop, ClearHistory
<1>6. CASE BeginAttach \/ EndAttach
    BY <1>6, AttachmentKeeps
<1>7. CASE \E w \in Ids : Continues(w)
    BY <1>1, <1>7, ContinuesCarries, GoesOnKeeps
<1>8. CASE UNCHANGED vars
    BY <1>8 DEF vars, Files, Cached, Ids
<1>9. UserActs => \/ SendMessage \/ RequestAppStatus \/ RequestBatchDeploy \/ RequestStopApp \/ ReplanEditedBatch
                  \/ (pending # NoCard /\ Current(pending) /\ Dispatch) \/ CancelAction \/ RefuseStaleCard
                  \/ Stop \/ ClearHistory \/ BeginAttach \/ EndAttach
    BY DEF UserActs, ConfirmAction
<1>10. QED
    BY <1>2, <1>3, <1>4, <1>5, <1>6, <1>7, <1>8, <1>9 DEF Next

LEMMA FilesAndCache == Spec => [](Files /\ Cached)
<1>1. Init => Files /\ Cached
    BY FilesInit
<1>2. ChatInv /\ Files /\ Cached /\ [Next]_vars => Files' /\ Cached'
    BY FilesNext
<1>3. QED
    BY <1>1, <1>2, ChatIsSound, PTL DEF Spec

(* A file is used, and kept, only for the wallet that attached it, however  *)
(* late it was read and whatever happened to the card it was taken for      *)
(* (attachPayload, pendingPayload).                                         *)
THEOREM FilesStayHome == Spec => []FilesOfTheirWallet
<1>1. Files => FilesOfTheirWallet
    BY DEF Files, FilesOfTheirWallet
<1>2. QED
    BY <1>1, FilesAndCache, PTL

(* A query that was asked before a transaction was dispatched is not cached *)
(* after it, however late it answers (invalidateToolCache).                 *)
THEOREM CacheStaysFresh == Spec => []CacheFollowsDispatch
<1>1. Cached => CacheFollowsDispatch
    BY DEF Cached, CacheFollowsDispatch
<1>2. QED
    BY <1>1, FilesAndCache, PTL

-----------------------------------------------------------------------------
(* Rows that were resolved.  What shows a call again, or asks for one,      *)
(* finds it open or does not find it: the rows that the owner of the chat   *)
(* shows next are not there yet.                                            *)
Closed(rows, r) == r \in DOMAIN rows /\ rows[r].st = "closed"
Keeps(rows, new) == \A r \in DOMAIN new : Closed(rows, r) => Closed(new, r)

\* The rows of w that are there while it does what item says.
Within(rows, w, item) ==
    \A r \in DOMAIN rows : r[1] = w =>
        /\ ~Runs(item) /\ r[2] <= item.turn
        /\ item.pc = "model" /\ r[2] = item.turn => r[3] = 0
        /\ item.pc = "tool" /\ r[2] = item.turn => r[3] <= item.at

RowsToCome == controller # 0 => Within(Visible, controller, work[controller])

LEMMA CloseKeeps ==
    ASSUME NEW rows, RowsTyped(rows), NEW S, NEW text \in Texts, NEW old, Keeps(old, rows)
    PROVE  Keeps(old, Close(rows, S, text)) /\ RowsTyped(Close(rows, S, text)) /\ DOMAIN Close(rows, S, text) = DOMAIN rows
<1>1. /\ RowsTyped(Close(rows, S, text)) /\ DOMAIN Close(rows, S, text) = DOMAIN rows
      /\ \A r \in DOMAIN rows : /\ r \in S => Close(rows, S, text)[r].st = "closed"
                                /\ r \notin S => Close(rows, S, text)[r] = rows[r]
    BY CloseShape
<1>2. QED
    BY <1>1 DEF Keeps, Closed

LEMMA AddKeeps ==
    ASSUME NEW rows, NEW r, NEW row, NEW old, Keeps(old, rows), ~Closed(old, r)
    PROVE  Keeps(old, Add(rows, r, row)) /\ DOMAIN Add(rows, r, row) = DOMAIN rows \cup {r}
BY DEF Keeps, Closed, Add

LEMMA AwaitKeeps ==
    ASSUME NEW rows, NEW r, NEW old, Keeps(old, rows), ~Closed(old, r)
    PROVE  Keeps(old, Await(rows, r)) /\ DOMAIN Await(rows, r) = DOMAIN rows
BY DEF Keeps, Closed, Await

LEMMA CancelKeeps ==
    ASSUME NEW rows, RowsTyped(rows), NEW w, NEW calls, NEW old, Keeps(old, rows)
    PROVE  Keeps(old, CancelGroup(w, calls, rows))
<1> DEFINE replies == {Row(w, i) : i \in DOMAIN calls}
           all == [x \in DOMAIN rows \cup replies |-> IF x \in DOMAIN rows THEN rows[x] ELSE Spinning(0)]
           new == CancelGroup(w, calls, rows)
<1>1. /\ DOMAIN new = DOMAIN rows \cup replies
      /\ \A x \in DOMAIN new : new[x] = IF x \in replies /\ all[x].st = "streaming"
                                          THEN [all[x] EXCEPT !.st = "closed", !.text = "notice"] ELSE all[x]
    BY DEF CancelGroup
<1>2. ASSUME NEW x \in DOMAIN new, Closed(old, x) PROVE Closed(new, x)
    <2>1. CASE x \in DOMAIN rows
        <3>1. all[x] = rows[x] /\ rows[x].st = "closed"
            BY <1>2, <2>1 DEF Keeps, Closed
        <3>2. new[x] = rows[x]
            BY <1>1, <1>2, <3>1
        <3>3. QED
            BY <1>2, <3>1, <3>2 DEF Closed
    <2>2. CASE x \notin DOMAIN rows
        <3>1. x \in replies /\ all[x] = Spinning(0)
            BY <1>1, <1>2, <2>2
        <3>2. all[x] \in Entries /\ all[x].st = "streaming"
            BY <3>1, SpinningShape
        <3>3. new[x] = [all[x] EXCEPT !.st = "closed", !.text = "notice"]
            BY <1>1, <1>2, <3>1, <3>2
        <3> HIDE DEF all, new
        <3>4. new[x].st = "closed"
            BY <3>2, <3>3 DEF Entries
        <3>5. QED
            BY <1>2, <3>4 DEF Closed
    <2>3. QED
        BY <2>1, <2>2
<1> HIDE DEF new
<1>3. QED
    BY <1>2 DEF Keeps, new

LEMMA KeepsItself == \A rows : Keeps(rows, rows)
BY DEF Keeps

LEMMA ShownKeeps ==
    ASSUME StoreTyped, NEW rows, Show(rows), Keeps(Visible, rows)
    PROVE  KeepsClosed
<1>1. /\ DOMAIN transcript = Addresses /\ wallet.address \in Addresses
      /\ transcript' = [transcript EXCEPT ![wallet.address] = rows]
    BY VisibleTyped DEF Show, StoreTyped
<1>2. \A a \in Addresses : transcript'[a] = IF a = wallet.address THEN rows ELSE transcript[a]
    BY <1>1
<1>3. Wallets \subseteq Addresses
    BY DEF Addresses
<1>4. QED
    BY <1>2, <1>3 DEF KeepsClosed, Keeps, Closed, Visible

LEMMA NothingShown == transcript' = transcript => KeepsClosed
BY DEF KeepsClosed

LEMMA ReleaseKeeps ==
    ASSUME StoreTyped, NEW w, NEW item, NEW rows, Release(w, item, rows), Keeps(Visible, rows)
    PROVE  KeepsClosed /\ RowsToCome'
<1>1. KeepsClosed
    BY ShownKeeps DEF Release
<1>2. controller' = 0
    BY DEF Release
<1>3. QED
    BY <1>1, <1>2 DEF RowsToCome

LEMMA ProceedKeeps ==
    ASSUME ChatInv, NEW w \in Ids, Owns(w), NEW item \in Items, NEW rows, Proceed(w, item, rows), wallet' = wallet,
           Keeps(Visible, rows), Within(rows, w, item)
    PROVE  KeepsClosed /\ RowsToCome'
<1>1. KeepsClosed
    BY ShownKeeps DEF Proceed, ChatInv
<1>2. controller' = w /\ work'[w] = item
    BY Replaced DEF Proceed, ChatInv, Owns
<1>3. Visible' = rows
    BY VisibleTyped DEF Proceed, Show, Visible, ChatInv, StoreTyped
<1>4. QED
    BY <1>1, <1>2, <1>3 DEF RowsToCome

\* A step beside the owner.
LEMMA BesideKeeps ==
    ASSUME ChatInv, RowsToCome, controller' = controller, DOMAIN Visible' \subseteq DOMAIN Visible,
           controller # 0 => /\ work'[controller].turn = work[controller].turn
                             /\ work'[controller].at = work[controller].at
                             /\ \/ work'[controller].pc = work[controller].pc
                                \/ Runs(work[controller]) /\ Runs(work'[controller])
    PROVE  RowsToCome'
BY DEF RowsToCome, Within, Runs

\* Every row that is shown carries the number of a piece of work there is.
LEMMA OwnRows ==
    ASSUME ChatInv, RowsToCome, NEW w \in Ids, Owns(w)
    PROVE  /\ controller = w /\ Within(Visible, w, work[w]) /\ w \in Nat
           /\ RowsTyped(Visible) /\ \A r \in DOMAIN Visible : r \in RowIds
<1>1. controller = w /\ controller # 0
    BY Owner
<1>2. RowsTyped(Visible)
    BY VisibleTyped DEF ChatInv
<1>3. QED
    BY <1>1, <1>2 DEF RowsToCome, RowsTyped, Ids

LEMMA NextTurnKeeps ==
    ASSUME ChatInv, RowsToCome, NEW w \in Ids, Owns(w), work[w].pc \in {"tool", "merge"}, wallet' = wallet,
           NEW rows, RowsTyped(rows), DOMAIN rows = DOMAIN Visible, Keeps(Visible, rows), NextTurn(w, rows)
    PROVE  KeepsClosed /\ RowsToCome'
<1> DEFINE went == [work[w] EXCEPT !.pc = "model", !.turn = @ + 1, !.calls = <<>>]
           next == [work[w] EXCEPT !.pc = "model", !.turn = @ + 1, !.calls = <<>>,
                                   !.at = 0, !.collected = {}, !.said = ""]
           r == <<w, next.turn, 0>>
           shown == Add(rows, r, Spinning(0))
<1>1. work[w] \in Items /\ work[w].turn \in Nat
    BY TurnIsChat
<1>2. went \in Items /\ went.turn = work[w].turn + 1 /\ went.pc = "model"
    <2>1. <<>> \in Seq(Tools) /\ work[w].turn + 1 \in Nat
        BY <1>1
    <2>2. QED
        BY <1>1, <2>1 DEF Items, Stages
<1>3. next = [went EXCEPT !.at = 0, !.collected = {}, !.said = ""]
    OBVIOUS
<1> HIDE DEF went
<1>4. next \in Items /\ next.turn = work[w].turn + 1 /\ next.pc = "model"
    <2>1. {} \in SUBSET Nat
        OBVIOUS
    <2>2. next \in Items
        BY ZenonT(40), <1>2, <1>3, <2>1 DEF Items
    <2>3. QED
        BY <1>2, <1>3, <2>2 DEF Items
<1>5. IF work[w].turn < MaxTurns THEN Proceed(w, next, shown) ELSE EndTurn(w, next, Close(shown, {r}, "maxed"))
    BY DEF NextTurn
<1> HIDE DEF next
<1>6. r = <<w, work[w].turn + 1, 0>> /\ r \in RowIds /\ ~Runs(next)
    BY <1>1, <1>4, OwnRows DEF RowIds, Runs
<1>7. \A x \in DOMAIN Visible : x \in RowIds /\ (x[1] = w => x[2] <= work[w].turn)
    BY OwnRows DEF Within
<1>8. r \notin DOMAIN Visible
    BY <1>1, <1>6, <1>7
<1> HIDE DEF r
<1>9. Keeps(Visible, shown) /\ DOMAIN shown = DOMAIN Visible \cup {r}
    <2>1. ~Closed(Visible, r)
        BY <1>8 DEF Closed
    <2>2. Keeps(Visible, shown) /\ DOMAIN shown = DOMAIN rows \cup {r}
        BY <2>1, AddKeeps
    <2>3. QED
        BY <2>2
<1>10. RowsTyped(shown)
    BY <1>6, SpinningShape, AddShape
<1> HIDE DEF shown
<1>11. Within(shown, w, next)
    <2>1. \A x \in DOMAIN shown : x[1] = w => x[2] <= next.turn /\ (x[2] = next.turn => x[3] = 0)
        <3>1. r[2] = work[w].turn + 1 /\ r[3] = 0
            BY <1>6
        <3>2. \A x \in DOMAIN Visible : x[1] = w => x[2] \in Nat /\ x[2] <= work[w].turn
            BY <1>7 DEF RowIds
        <3>3. QED
            BY <1>1, <1>4, <1>9, <3>1, <3>2
    <2>2. QED
        BY <1>4, <1>6, <2>1 DEF Within
<1>12. CASE work[w].turn < MaxTurns
    BY <1>4, <1>5, <1>9, <1>11, <1>12, ProceedKeeps
<1>13. CASE ~(work[w].turn < MaxTurns)
    <2>1. Keeps(Visible, Close(shown, {r}, "maxed"))
        BY <1>9, <1>10, CloseKeeps DEF Texts
    <2>2. EndTurn(w, next, Close(shown, {r}, "maxed"))
        BY <1>5, <1>13
    <2>3. QED
        BY <2>1, <2>2, ReleaseKeeps DEF EndTurn, ChatInv
<1>14. QED
    BY <1>12, <1>13

LEMMA AskOneKeeps ==
    ASSUME StoreTyped, NEW w, NEW item, NEW rows, RowsTyped(rows), Keeps(Visible, rows), NEW i,
           ~Closed(Visible, Row(w, i)), AskOne(w, item, rows, i)
    PROVE  KeepsClosed /\ RowsToCome'
<1> DEFINE skipped == {Row(w, j) : j \in item.collected \ {i}}
           skipping == [x \in DOMAIN rows |-> IF x \in skipped /\ rows[x].st = "streaming"
                                                THEN [rows[x] EXCEPT !.st = "closed", !.text = "notice"]
                                                ELSE rows[x]]
<1>1. Release(w, item, Await(skipping, Row(w, i)))
    BY DEF AskOne, EndTurn
<1>2. Keeps(Visible, skipping)
    <2>1. \A e \in Entries : [e EXCEPT !.st = "closed", !.text = "notice"].st = "closed"
        BY DEF Entries
    <2>2. DOMAIN skipping = DOMAIN rows /\ \A x \in DOMAIN rows : rows[x].st = "closed" => skipping[x].st = "closed"
        BY <2>1 DEF RowsTyped
    <2> HIDE DEF skipping
    <2>3. QED
        BY <2>2 DEF Keeps, Closed
<1> HIDE DEF skipping
<1>3. Keeps(Visible, Await(skipping, Row(w, i)))
    BY <1>2, AwaitKeeps
<1>4. QED
    BY <1>1, <1>3, ReleaseKeeps

LEMMA AfterCallKeeps ==
    ASSUME ChatInv, RowsToCome, NEW w \in Ids, Owns(w), work[w].pc = "tool", wallet' = wallet,
           NEW item \in Items, item.pc = "tool", item.turn = work[w].turn, item.at = work[w].at,
           NEW rows, RowsTyped(rows), DOMAIN rows = DOMAIN Visible, Keeps(Visible, rows),
           \A n \in item.collected : ~Closed(Visible, Row(w, n)), AfterCall(w, item, rows)
    PROVE  KeepsClosed /\ RowsToCome'
<1> DEFINE i == item.at + 1
           next == [item EXCEPT !.at = i, !.seen = dispatches]
           merging == [item EXCEPT !.pc = "merge", !.payload = payload]
           shown == Add(rows, Row(w, i), Spinning(0))
<1>1. item.at \in Nat /\ item.collected \in SUBSET Nat /\ item.turn \in Nat /\ dispatches \in Nat /\ payload \in Nat
    <2>1. dispatches \in Nat /\ payload \in Nat
        BY DEF ChatInv, StoreTyped
    <2>2. QED
        BY <2>1, ItemShape
<1>2. next \in Items /\ next.pc = "tool" /\ next.at = i /\ next.turn = work[w].turn
    <2>1. i \in Nat
        BY <1>1
    <2>2. next \in Items
        BY <1>1, <2>1 DEF Items
    <2>3. next.pc = item.pc /\ next.at = i /\ next.turn = item.turn
        BY <1>1, <2>1 DEF Items
    <2>4. QED
        BY <2>2, <2>3
<1>3. merging \in Items /\ merging.pc = "merge" /\ merging.turn = work[w].turn
    BY <1>1 DEF Items, Stages
<1>4. \/ Proceed(w, next, shown)
      \/ EndTurn(w, item, rows)
      \/ NextTurn(w, rows)
      \/ Proceed(w, merging, rows)
      \/ item.collected # {} /\ AskOne(w, item, rows, First(item.collected))
    BY DEF AfterCall
<1> HIDE DEF next, merging
<1>5. \A x \in DOMAIN Visible :
         /\ x \in RowIds
         /\ x[1] = w => x[2] <= work[w].turn
         /\ x[1] = w /\ x[2] = work[w].turn => x[3] <= work[w].at
    BY OwnRows DEF Within
<1>6. CASE Proceed(w, next, shown)
    <2>1. Row(w, i) = <<w, work[w].turn, i>>
        BY DEF Row
    <2>2. Row(w, i) \notin DOMAIN Visible
        BY <1>1, <1>5, <2>1
    <2>3. Keeps(Visible, shown) /\ DOMAIN shown = DOMAIN Visible \cup {Row(w, i)}
        <3>1. ~Closed(Visible, Row(w, i))
            BY <2>2 DEF Closed
        <3>2. Keeps(Visible, shown) /\ DOMAIN shown = DOMAIN rows \cup {Row(w, i)}
            BY <3>1, AddKeeps
        <3>3. QED
            BY <3>2
    <2> HIDE DEF shown
    <2>4. Within(shown, w, next)
        <3>1. \A x \in DOMAIN shown : x[1] = w => x[2] <= next.turn /\ (x[2] = next.turn => x[3] <= next.at)
            <4>1. \A x \in DOMAIN Visible : x[1] = w => x[2] <= next.turn /\ (x[2] = next.turn => x[3] <= next.at)
                BY <1>1, <1>2, <1>5 DEF RowIds
            <4>2. Row(w, i)[2] = next.turn /\ Row(w, i)[3] = next.at
                BY <1>2, <2>1
            <4>3. QED
                BY <1>1, <1>2, <2>3, <4>1, <4>2
        <3>2. ~Runs(next) /\ next.pc # "model"
            BY <1>2 DEF Runs
        <3>3. QED
            BY <3>1, <3>2 DEF Within
    <2>5. QED
        BY <1>2, <1>6, <2>3, <2>4, ProceedKeeps DEF shown
<1>7. CASE EndTurn(w, item, rows)
    BY <1>7, ReleaseKeeps DEF EndTurn, ChatInv
<1>8. CASE NextTurn(w, rows)
    BY <1>8, NextTurnKeeps
<1>9. CASE Proceed(w, merging, rows)
    <2>1. ~Runs(merging) /\ merging.pc # "model" /\ merging.pc # "tool"
        BY <1>3 DEF Runs
    <2>2. Within(rows, w, merging)
        BY <1>3, <1>5, <2>1 DEF Within
    <2>3. QED
        BY <1>3, <1>9, <2>2, ProceedKeeps
<1>10. CASE item.collected # {} /\ AskOne(w, item, rows, First(item.collected))
    BY <1>1, <1>10, FirstIsIn, AskOneKeeps DEF ChatInv
<1>11. QED
    BY <1>4, <1>6, <1>7, <1>8, <1>9, <1>10

LEMMA ClosingKeeps ==
    ASSUME ChatInv, NEW S, NEW text \in Texts
    PROVE  /\ Keeps(Visible, Close(Visible, S, text)) /\ RowsTyped(Close(Visible, S, text))
           /\ DOMAIN Close(Visible, S, text) = DOMAIN Visible
           /\ \A w, item : Release(w, item, Close(Visible, S, text)) => KeepsClosed /\ RowsToCome'
<1>1. RowsTyped(Visible) /\ StoreTyped
    BY VisibleTyped DEF ChatInv
<1>2. Keeps(Visible, Close(Visible, S, text)) /\ RowsTyped(Close(Visible, S, text))
      /\ DOMAIN Close(Visible, S, text) = DOMAIN Visible
    BY <1>1, CloseKeeps, KeepsItself
<1>3. QED
    BY <1>1, <1>2, ReleaseKeeps

LEMMA OpenIsOpen ==
    ASSUME ChatInv, NEW w \in Ids, Owns(w), NEW n \in OpenAt(work[w])
    PROVE  ~Closed(Visible, Row(w, n))
BY OwnerOpen DEF Closed

LEMMA EndingsKeep ==
    ASSUME ChatInv, NEW w \in Ids,
           \/ ModelFails(w) \/ ModelAnswers(w) \/ ToolStopped(w) \/ MergeStopped(w) \/ AppStatusReturns(w)
           \/ BatchRefused(w) \/ ReplanRefused(w) \/ TransactionThrows(w) \/ FollowUpReturns(w)
    PROVE  KeepsClosed /\ RowsToCome'
<1>1. {"notice", "maxed", "answer", "outcome"} \subseteq Texts /\ StoreTyped
    BY DEF Texts, ChatInv
<1>2. CASE \/ ModelFails(w) \/ AppStatusReturns(w) \/ BatchRefused(w) \/ MergeStopped(w)
           \/ TransactionThrows(w) \/ FollowUpReturns(w)
    <2>1. \E item, S : Release(w, item, Close(Visible, S, "notice"))
        BY <1>2 DEF ModelFails, AppStatusReturns, BatchRefused, MergeStopped, TransactionThrows, FollowUpReturns, EndTurn
    <2>2. QED
        BY <1>1, <2>1, ClosingKeeps
<1>3. CASE ModelAnswers(w)
    <2>1. \E item : \E text \in {"maxed", "answer"} : Release(w, item, Close(Visible, {Row(w, 0)}, text))
        BY <1>3 DEF ModelAnswers, EndTurn
    <2>2. QED
        BY <1>1, <2>1, ClosingKeeps
<1>4. CASE ToolStopped(w)
    <2>1. Release(w, work[w], CancelGroup(w, work[w].calls, Visible))
        BY <1>4 DEF ToolStopped, EndTurn
    <2>2. Keeps(Visible, CancelGroup(w, work[w].calls, Visible))
        BY <1>1, VisibleTyped, CancelKeeps, KeepsItself
    <2>3. QED
        BY <1>1, <2>1, <2>2, ReleaseKeeps
<1>5. CASE ReplanRefused(w)
    BY <1>1, <1>5, ReleaseKeeps, KeepsItself DEF ReplanRefused
<1>6. QED
    BY <1>2, <1>3, <1>4, <1>5

\* A call ends, or asks for a confirmation.
LEMMA CallsKeep ==
    ASSUME ChatInv, RowsToCome, NEW w \in Ids, ToolReports(w) \/ ToolAsks(w)
    PROVE  KeepsClosed /\ RowsToCome'
<1>1. Owns(w) /\ work[w].pc = "tool" /\ wallet' = wallet
    BY DEF ToolReports, ToolAsks
<1>2. /\ work[w] \in Items /\ OpenAt(work[w]) = work[w].collected \cup {work[w].at}
      /\ RowsTyped(Visible) /\ work[w].at \in Nat /\ work[w].collected \in SUBSET Nat
    BY <1>1, Owner, ItemShape, VisibleTyped DEF OpenAt, ChatInv
<1>3. \A n \in work[w].collected \cup {work[w].at} : ~Closed(Visible, Row(w, n))
    BY <1>1, <1>2, OpenIsOpen
<1>4. CASE ToolReports(w)
    <2> DEFINE rows == Close(Visible, {Row(w, work[w].at)}, "notice")
    <2>1. PICK said \in {"", "card", "answer", "stranded", "outcome"} : AfterCall(w, [work[w] EXCEPT !.said = said], rows)
        BY <1>2, <1>4, ItemShape DEF ToolReports
    <2> DEFINE item == [work[w] EXCEPT !.said = said]
    <2>2. /\ item \in Items /\ item.pc = work[w].pc /\ item.collected = work[w].collected
          /\ item.at = work[w].at /\ item.turn = work[w].turn
        BY ZenonT(40), <1>2, SaidTyped
    <2>3. AfterCall(w, item, rows)
        BY <2>1
    <2> HIDE DEF item
    <2>4. Keeps(Visible, rows) /\ RowsTyped(rows) /\ DOMAIN rows = DOMAIN Visible
        BY ClosingKeeps DEF Texts
    <2> HIDE DEF rows
    <2>5. QED
        BY <1>1, <1>3, <2>2, <2>3, <2>4, AfterCallKeeps
<1>5. CASE ToolAsks(w)
    <2> DEFINE item == [work[w] EXCEPT !.collected = @ \cup {work[w].at}]
    <2>1. item \in Items
        BY <1>2 DEF Items
    <2>2. /\ item.pc = work[w].pc /\ item.collected = work[w].collected \cup {work[w].at}
          /\ item.at = work[w].at /\ item.turn = work[w].turn
        BY <1>2 DEF Items
    <2>3. AfterCall(w, item, Visible)
        BY <1>5 DEF ToolAsks
    <2> HIDE DEF item
    <2>4. QED
        BY <1>1, <1>2, <1>3, <2>1, <2>2, <2>3, KeepsItself, AfterCallKeeps
<1>6. QED
    BY <1>4, <1>5

LEMMA ModelCallsKeeps ==
    ASSUME ChatInv, RowsToCome, NEW w \in Ids, NEW calls \in Calls, ModelCalls(w, calls)
    PROVE  KeepsClosed /\ RowsToCome'
<1> DEFINE call == [st |-> "closed", text |-> "calls", calls |-> Len(calls)]
           advertised == [x \in DOMAIN Visible |-> IF x = Row(w, 0) THEN call ELSE Visible[x]]
           went == [work[w] EXCEPT !.pc = "tool", !.calls = calls]
           item == [work[w] EXCEPT !.pc = "tool", !.calls = calls, !.at = 1, !.seen = dispatches]
           shown == Add(advertised, Row(w, 1), Spinning(0))
<1>1. Owns(w) /\ work[w].pc = "model" /\ wallet' = wallet /\ StoreTyped
    BY DEF ModelCalls, ChatInv
<1>2. IF work[w].aborted THEN EndTurn(w, work[w], CancelGroup(w, calls, advertised)) ELSE Proceed(w, item, shown)
    BY DEF ModelCalls
<1>3. work[w] \in Items /\ work[w].turn \in Nat /\ dispatches \in Nat /\ calls \in Seq(Tools) /\ Len(calls) \in Nat
    <2>1. calls \in Seq(Tools) /\ dispatches \in Nat
        BY <1>1, ChatAssumption DEF StoreTyped
    <2>2. QED
        BY <1>1, <2>1, TurnIsChat
<1>4. went \in Items /\ went.pc = "tool" /\ went.turn = work[w].turn
    BY <1>3 DEF Items, Stages
<1>5. item = [went EXCEPT !.at = 1, !.seen = dispatches]
    OBVIOUS
<1> HIDE DEF went
<1>6. item \in Items /\ item.pc = "tool" /\ item.turn = work[w].turn /\ item.at = 1
    <2> HIDE DEF item
    <2>1. item \in Items
        BY <1>3, <1>4, <1>5 DEF Items
    <2>2. QED
        BY <1>3, <1>4, <1>5, <2>1 DEF Items
<1> HIDE DEF item
<1>7. RowsTyped(advertised) /\ DOMAIN advertised = DOMAIN Visible /\ Keeps(Visible, advertised)
    <2>1. call \in Entries /\ call.st = "closed"
        BY <1>3 DEF Entries, States, Texts
    <2> HIDE DEF call
    <2>2. RowsTyped(Visible)
        BY <1>1, VisibleTyped
    <2>3. QED
        BY <2>1, <2>2 DEF RowsTyped, Keeps, Closed
<1> HIDE DEF advertised
<1>8. \A x \in DOMAIN Visible :
         /\ x \in RowIds
         /\ x[1] = w => x[2] <= work[w].turn
         /\ x[1] = w /\ x[2] = work[w].turn => x[3] = 0
    BY <1>1, OwnRows DEF Within
<1>9. CASE work[w].aborted
    <2>1. Release(w, work[w], CancelGroup(w, calls, advertised))
        BY <1>2, <1>9 DEF EndTurn
    <2>2. Keeps(Visible, CancelGroup(w, calls, advertised))
        BY <1>7, CancelKeeps
    <2>3. QED
        BY <1>1, <2>1, <2>2, ReleaseKeeps
<1>10. CASE ~work[w].aborted
    <2>1. Row(w, 1) = <<w, work[w].turn, 1>>
        BY DEF Row
    <2>2. ~Closed(Visible, Row(w, 1))
        BY <1>8, <2>1 DEF Closed
    <2>3. Keeps(Visible, shown) /\ DOMAIN shown = DOMAIN Visible \cup {Row(w, 1)}
        <3>1. Keeps(Visible, shown) /\ DOMAIN shown = DOMAIN advertised \cup {Row(w, 1)}
            BY <1>7, <2>2, AddKeeps
        <3>2. QED
            BY <1>7, <3>1
    <2>4. Proceed(w, item, shown)
        BY <1>2, <1>10
    <2> HIDE DEF shown
    <2>5. Within(shown, w, item)
        <3>1. \A x \in DOMAIN shown : x[1] = w => x[2] <= item.turn /\ (x[2] = item.turn => x[3] <= item.at)
            <4>1. \A x \in DOMAIN Visible : x[1] = w => x[2] <= item.turn /\ (x[2] = item.turn => x[3] <= item.at)
                BY <1>6, <1>8
            <4>2. Row(w, 1)[2] = item.turn /\ Row(w, 1)[3] = item.at
                BY <1>6, <2>1
            <4>3. QED
                BY <1>3, <1>6, <2>3, <4>1, <4>2
        <3>2. ~Runs(item) /\ item.pc # "model"
            BY <1>6 DEF Runs
        <3>3. QED
            BY <3>1, <3>2 DEF Within
    <2>6. QED
        BY <1>1, <1>6, <2>3, <2>4, <2>5, ProceedKeeps
<1>11. QED
    BY <1>9, <1>10

\* A group of deploys becomes a batch, or cannot be planned as one.
LEMMA MergesKeep ==
    ASSUME ChatInv, RowsToCome, NEW w \in Ids, MergePlanned(w) \/ MergeFails(w)
    PROVE  KeepsClosed /\ RowsToCome'
<1> DEFINE drafts == Deploys(work[w], work[w].collected)
           others == work[w].collected \ drafts
<1>1. Owns(w) /\ work[w].pc = "merge" /\ wallet' = wallet /\ StoreTyped /\ "notice" \in Texts
    BY DEF MergePlanned, MergeFails, ChatInv, Texts
<1>2. /\ work[w] \in Items /\ work[w].calls \in Seq(Tools) /\ work[w].collected \in SUBSET Nat
      /\ work[w].collected \subseteq DOMAIN work[w].calls
    BY <1>1, TurnIsChat DEF Stage
<1>3. drafts \subseteq work[w].collected /\ others \subseteq work[w].collected
    BY DEF Deploys
<1>4. \A n \in work[w].collected : ~Closed(Visible, Row(w, n))
    BY <1>1, OpenIsOpen DEF OpenAt
<1>5. CASE MergePlanned(w)
    <2>1. PICK kept \in (SUBSET drafts) \ {{}} : \E S :
             Release(w, work[w], Await(Close(Visible, S, "notice"), Row(w, Newest(kept))))
        BY <1>5 DEF MergePlanned, EndTurn
    <2>2. Newest(kept) \in kept
        <3>1. DOMAIN work[w].calls = 1..Len(work[w].calls) /\ Len(work[w].calls) \in Nat
            BY <1>2
        <3>2. kept \in SUBSET (1..Len(work[w].calls)) /\ kept # {}
            BY <1>2, <1>3, <3>1
        <3>3. QED
            BY <3>1, <3>2, NewestIsIn
    <2>3. ~Closed(Visible, Row(w, Newest(kept)))
        BY <1>3, <1>4, <2>2
    <2>4. PICK S : Release(w, work[w], Await(Close(Visible, S, "notice"), Row(w, Newest(kept))))
        BY <2>1
    <2>5. Keeps(Visible, Close(Visible, S, "notice"))
        BY <1>1, ClosingKeeps
    <2>6. Keeps(Visible, Await(Close(Visible, S, "notice"), Row(w, Newest(kept))))
        BY <2>3, <2>5, AwaitKeeps
    <2>7. QED
        BY <1>1, <2>4, <2>6, ReleaseKeeps
<1>6. CASE MergeFails(w)
    <2> DEFINE rows == Close(Visible, {Row(w, i) : i \in drafts}, "notice")
    <2>1. Keeps(Visible, rows) /\ RowsTyped(rows) /\ DOMAIN rows = DOMAIN Visible
        BY <1>1, ClosingKeeps
    <2>2. \/ NextTurn(w, rows)
          \/ others # {} /\ \E item : AskOne(w, item, rows, First(others))
        BY <1>6 DEF MergeFails
    <2> HIDE DEF rows, drafts
    <2>3. CASE NextTurn(w, rows)
        BY <1>1, <2>1, <2>3, NextTurnKeeps
    <2>4. CASE others # {} /\ \E item : AskOne(w, item, rows, First(others))
        <3>1. First(others) \in others
            BY <1>2, <2>4, FirstIsIn
        <3>2. ~Closed(Visible, Row(w, First(others)))
            BY <1>4, <3>1
        <3>3. QED
            BY <1>1, <2>1, <2>4, <3>2, AskOneKeeps
    <2>5. QED
        BY <2>2, <2>3, <2>4
<1>7. QED
    BY <1>5, <1>6

\* A card is put on the row that was planned, which is open or has the card already.
LEMMA PlansKeep ==
    ASSUME ChatInv, NEW w \in Ids, BatchPlanned(w) \/ BatchReplanned(w)
    PROVE  KeepsClosed /\ RowsToCome'
<1>1. Owns(w) /\ StoreTyped
    BY DEF BatchPlanned, BatchReplanned, ChatInv
<1>2. CASE BatchPlanned(w)
    <2>1. Release(w, work[w], Await(Visible, Row(w, 1))) /\ OpenAt(work[w]) = {1}
        BY <1>2 DEF BatchPlanned, OpenAt
    <2>2. Keeps(Visible, Await(Visible, Row(w, 1)))
        BY <1>1, <2>1, OpenIsOpen, KeepsItself, AwaitKeeps
    <2>3. QED
        BY <1>1, <2>1, <2>2, ReleaseKeeps
<1>3. CASE BatchReplanned(w)
    <2>1. \/ Release(w, work[w], Visible)
          \/ pending.row = work[w].row /\ Release(w, work[w], Await(Visible, work[w].row))
        BY <1>3 DEF BatchReplanned, SameCard
    <2>2. ASSUME pending.row = work[w].row PROVE ~Closed(Visible, work[w].row)
        <3>1. work[w].kind = "replan"
            BY <1>1, <1>3, Owner DEF BatchReplanned, Stage, Items, Kinds
        <3>2. work[w].row[1] \in Ids
            BY <3>1 DEF ChatInv, Authority, UsedOnce, OfDone
        <3>3. work[w].row # NoRow
            BY <3>2, RowOfWork
        <3>4. pending # NoCard
            BY <2>2, <3>3 DEF NoCard
        <3>5. QED
            BY <2>2, <3>4 DEF ChatInv, Display, OnDisplay, Closed
    <2>3. CASE Release(w, work[w], Visible)
        BY <1>1, <2>3, KeepsItself, ReleaseKeeps
    <2>4. CASE pending.row = work[w].row /\ Release(w, work[w], Await(Visible, work[w].row))
        <3>1. Keeps(Visible, Await(Visible, work[w].row))
            BY <2>2, <2>4, KeepsItself, AwaitKeeps
        <3>2. QED
            BY <1>1, <2>4, <3>1, ReleaseKeeps
    <2>5. QED
        BY <2>1, <2>3, <2>4
<1>4. QED
    BY <1>2, <1>3

\* A transaction returns: the comment on it is a row of its own.
LEMMA ReturnsKeep ==
    ASSUME ChatInv, RowsToCome, NEW w \in Ids, TransactionReturns(w)
    PROVE  KeepsClosed /\ RowsToCome'
<1> DEFINE rows == Close(Visible, {work[w].row}, "outcome")
           over == [work[w] EXCEPT !.said = "outcome"]
           item == [over EXCEPT !.pc = "followup"]
           shown == Add(rows, Row(w, 0), Spinning(0))
<1>1. Owns(w) /\ Runs(work[w]) /\ wallet' = wallet
    BY DEF TransactionReturns, ContextIsCurrent, Runs
<1>2. IF work[w].aborted THEN EndTurn(w, over, rows) ELSE Proceed(w, item, shown)
    BY DEF TransactionReturns
<1>3. over \in Items /\ over.turn = work[w].turn /\ work[w].turn \in Nat
    BY <1>1, Owner, SaidTyped, ItemShape
<1> HIDE DEF over
<1>4. item \in Items /\ item.pc = "followup" /\ item.turn = work[w].turn
    BY <1>3 DEF Items, Stages
<1> HIDE DEF item
<1>5. Keeps(Visible, rows) /\ RowsTyped(rows) /\ DOMAIN rows = DOMAIN Visible /\ (\A i : Release(w, i, rows) => KeepsClosed /\ RowsToCome')
    BY ClosingKeeps DEF Texts
<1> HIDE DEF rows
<1>6. \A x \in DOMAIN Visible : x[1] # w
    BY <1>1, OwnRows DEF Within
<1>7. CASE work[w].aborted
    BY <1>2, <1>5, <1>7 DEF EndTurn
<1>8. CASE ~work[w].aborted
    <2>1. Row(w, 0) = <<w, work[w].turn, 0>>
        BY DEF Row
    <2>2. ~Closed(Visible, Row(w, 0))
        BY <1>6, <2>1 DEF Closed
    <2>3. Keeps(Visible, shown) /\ DOMAIN shown = DOMAIN Visible \cup {Row(w, 0)}
        <3>1. Keeps(Visible, shown) /\ DOMAIN shown = DOMAIN rows \cup {Row(w, 0)}
            BY <1>5, <2>2, AddKeeps
        <3>2. QED
            BY <1>5, <3>1
    <2>4. Proceed(w, item, shown)
        BY <1>2, <1>8
    <2> HIDE DEF shown
    <2>5. Within(shown, w, item)
        <3>1. \A x \in DOMAIN shown : x[1] = w => x[2] <= item.turn
            BY <1>3, <1>4, <1>6, <2>1, <2>3
        <3>2. ~Runs(item) /\ item.pc # "model" /\ item.pc # "tool"
            BY <1>4 DEF Runs
        <3>3. QED
            BY <3>1, <3>2 DEF Within
    <2>6. QED
        BY <1>1, <1>4, <2>3, <2>4, <2>5, ProceedKeeps
<1>9. QED
    BY <1>7, <1>8

\* Work beside the owner ends, or a transaction reaches the chain.
LEMMA AsidesKeep ==
    ASSUME ChatInv, RowsToCome, NEW w \in Ids, Abandon(w) \/ Submit(w) \/ LateResult(w)
    PROVE  KeepsClosed /\ RowsToCome'
<1>1. /\ StoreTyped /\ controller' = controller /\ wallet' = wallet /\ DOMAIN work = Ids
      /\ controller # 0 => controller \in Ids
    <2>1. StoreTyped /\ DOMAIN work = Ids
        BY DEF ChatInv, StoreTyped, Ids
    <2>2. controller' = controller /\ wallet' = wallet
        BY DEF Abandon, Submit, LateResult
    <2>3. QED
        BY <2>1, <2>2, WorkShape
<1>2. CASE Abandon(w)
    <2>1. \/ Show(Visible)
          \/ \E S : Show(Close(Visible, S, "unsubmitted"))
        BY <1>2 DEF Abandon
    <2>2. PICK rows : Show(rows) /\ Keeps(Visible, rows) /\ DOMAIN rows = DOMAIN Visible
        BY <2>1, ClosingKeeps, KeepsItself DEF Texts
    <2>3. Visible' = rows
        BY <1>1, <2>2, VisibleTyped DEF Show, Visible, StoreTyped
    <2>4. controller # w
        BY <1>2 DEF Abandon, Owns, ChatInv, Authority, OwnerActs, Done
    <2>5. controller # 0 => work'[controller] = work[controller]
        BY <1>1, <1>2, <2>4 DEF Abandon
    <2>6. QED
        BY <1>1, <2>2, <2>3, <2>5, ShownKeeps, BesideKeeps
<1>3. CASE Submit(w)
    <2>1. transcript' = transcript /\ Visible' = Visible
        BY <1>1, <1>3 DEF Submit, Visible
    <2>2. /\ \A v \in Ids : v # w => work'[v] = work[v]
          /\ work'[w].turn = work[w].turn /\ work'[w].at = work[w].at /\ Runs(work[w]) /\ Runs(work'[w])
        <3>1. work[w] \in Items /\ work[w].pc = "execute" /\ work' = [work EXCEPT ![w].pc = "sent"]
            BY <1>1, <1>3, WorkShape DEF Submit
        <3>2. work'[w] = [work[w] EXCEPT !.pc = "sent"] /\ \A v \in Ids : v # w => work'[v] = work[v]
            BY <1>1, <3>1
        <3>3. ASSUME NEW i \in Items
              PROVE  [i EXCEPT !.pc = "sent"].turn = i.turn /\ [i EXCEPT !.pc = "sent"].at = i.at
                     /\ [i EXCEPT !.pc = "sent"].pc = "sent"
            BY DEF Items
        <3>4. QED
            BY <3>1, <3>2, <3>3 DEF Runs
    <2>3. QED
        BY <1>1, <2>1, <2>2, NothingShown, BesideKeeps
<1>4. CASE LateResult(w)
    <2>1. PICK text \in {"outcome", "interrupted"} :
             transcript' = [transcript EXCEPT ![work[w].wallet] = Close(@, {work[w].row}, text)]
        BY <1>4 DEF LateResult
    <2>2. /\ DOMAIN transcript = Addresses /\ work[w].wallet \in Addresses /\ text \in Texts
          /\ \A a \in Addresses : RowsTyped(transcript[a])
        BY <1>1, WorkShape, ItemShape DEF StoreTyped, RowsTyped, Texts
    <2>3. \A a \in Addresses : Keeps(transcript[a], transcript'[a]) /\ DOMAIN transcript'[a] = DOMAIN transcript[a]
        <3>1. ASSUME NEW a \in Addresses
              PROVE  transcript'[a] = transcript[a] \/ transcript'[a] = Close(transcript[a], {work[w].row}, text)
            BY <2>1, <2>2
        <3>2. QED
            BY <2>2, <3>1, CloseKeeps, KeepsItself
    <2>4. KeepsClosed
        <3>1. Wallets \subseteq Addresses
            BY DEF Addresses
        <3>2. QED
            BY <2>3, <3>1 DEF KeepsClosed, Keeps, Closed
    <2>5. DOMAIN Visible' = DOMAIN Visible
        BY <1>1, <2>3, VisibleTyped DEF Visible
    <2>6. controller # w
        <3>1. ASSUME controller = w PROVE FALSE
            <4>1. Owns(w) /\ Runs(work[w])
                BY <1>4, <3>1, WorkShape DEF LateResult, Runs, ChatInv, Authority, OwnerActs, Owns
            <4>2. QED
                BY <1>4, <4>1, Transacting DEF LateResult, ContextIsCurrent, Current, OfContext
        <3>2. QED
            BY <3>1
    <2>7. controller # 0 => work'[controller] = work[controller]
        BY <1>1, <1>4, <2>6 DEF LateResult
    <2>8. QED
        BY <1>1, <2>4, <2>5, <2>7, BesideKeeps
<1>5. QED
    BY <1>2, <1>3, <1>4

\* A new piece of work: its rows are new.
LEMMA BeginKeeps ==
    ASSUME ChatInv, NEW item \in Items, NEW rows, Begin(item, rows), wallet' = wallet,
           Keeps(Visible, rows), Within(rows, NewWork, item)
    PROVE  KeepsClosed /\ RowsToCome'
<1>1. StoreTyped
    BY DEF ChatInv
<1>2. KeepsClosed
    BY <1>1, ShownKeeps DEF Begin
<1>3. controller' = NewWork /\ work'[NewWork] = item
    BY <1>1, Appended DEF Begin, NewWork
<1>4. Visible' = rows
    BY <1>1, VisibleTyped DEF Begin, Show, Visible, StoreTyped
<1>5. QED
    BY <1>2, <1>3, <1>4 DEF RowsToCome

LEMMA SyntheticKeeps ==
    ASSUME ChatInv, NEW reply \in Entries
    PROVE  /\ Keeps(Visible, Synthetic(NewWork, reply))
           /\ \A r \in DOMAIN Synthetic(NewWork, reply) : r[1] = NewWork => r[2] = 1
<1>1. /\ DOMAIN Synthetic(NewWork, reply) = DOMAIN Visible \cup {<<NewWork, 1, 0>>, <<NewWork, 1, 1>>}
      /\ \A r \in DOMAIN Visible : Synthetic(NewWork, reply)[r] = Visible[r]
    BY SyntheticShape
<1>2. Keeps(Visible, Synthetic(NewWork, reply))
    BY <1>1 DEF Keeps, Closed
<1>3. \A r \in DOMAIN Visible : r[1] # NewWork
    BY FreshRows
<1>4. QED
    BY <1>1, <1>2, <1>3

LEMMA RequestsKeep ==
    ASSUME ChatInv, RowsToCome, \/ SendMessage \/ RequestAppStatus \/ RequestBatchDeploy \/ RequestStopApp
                                \/ ReplanEditedBatch \/ (pending # NoCard /\ Dispatch)
    PROVE  KeepsClosed /\ RowsToCome'
<1>1. StoreTyped /\ RowsTyped(Visible) /\ Spinning(0) \in Entries
    BY VisibleTyped, SpinningShape DEF ChatInv
<1>2. ASSUME NEW kind \in Kinds, NEW pc \in Stages
      PROVE  Started(kind, pc) \in Items /\ Started(kind, pc).pc = pc /\ Started(kind, pc).turn = 1
    BY <1>1, StartedShape
<1>3. /\ {"chat", "status", "batch", "stop", "replan", "confirm"} \subseteq Kinds
      /\ {"model", "query", "plan", "done", "replan", "execute"} \subseteq Stages
    BY DEF Kinds, Stages
<1>4. \A r \in DOMAIN Visible : r[1] # NewWork
    BY FreshRows
<1>5. CASE SendMessage
    <2> DEFINE start == Started("chat", "model")
               item == [start EXCEPT !.payload = payload]
               rows == Close(Visible, {pending.row}, "unsubmitted")
               r == <<NewWork, 1, 0>>
               shown == Add(rows, r, Spinning(0))
    <2>1. Begin(item, shown) /\ wallet' = wallet
        BY <1>5 DEF SendMessage, NewWork
    <2>2. start \in Items /\ start.pc = "model" /\ start.turn = 1 /\ payload \in Nat
        BY <1>1, <1>2, <1>3 DEF StoreTyped
    <2> HIDE DEF start
    <2>3. item \in Items /\ item.pc = "model" /\ item.turn = 1
        BY <2>2 DEF Items
    <2> HIDE DEF item
    <2>4. Keeps(Visible, rows) /\ DOMAIN rows = DOMAIN Visible
        BY ClosingKeeps DEF Texts
    <2> HIDE DEF rows
    <2>5. r \notin DOMAIN Visible /\ r[1] = NewWork /\ r[2] = 1 /\ r[3] = 0
        BY <1>4
    <2> HIDE DEF r
    <2>6. ~Closed(Visible, r)
        BY <2>5 DEF Closed
    <2>7. Keeps(Visible, shown) /\ DOMAIN shown = DOMAIN rows \cup {r}
        BY <2>4, <2>6, AddKeeps
    <2> HIDE DEF shown
    <2>8. \A x \in DOMAIN shown : x[1] = NewWork => x = r
        BY <1>4, <2>4, <2>7
    <2>9. Within(shown, NewWork, item)
        BY <2>3, <2>5, <2>8 DEF Within, Runs
    <2>10. QED
        BY <2>1, <2>3, <2>7, <2>9, BeginKeeps
<1>6. CASE RequestAppStatus \/ RequestBatchDeploy
    <2>1. PICK item \in Items :
             /\ Begin(item, Synthetic(NewWork, Spinning(0))) /\ item.pc \in {"query", "plan"} /\ item.turn = 1
        BY <1>2, <1>3, <1>6 DEF RequestAppStatus, RequestBatchDeploy, NewWork
    <2>2. wallet' = wallet
        BY <1>6 DEF RequestAppStatus, RequestBatchDeploy
    <2>3. Keeps(Visible, Synthetic(NewWork, Spinning(0))) /\ Within(Synthetic(NewWork, Spinning(0)), NewWork, item)
        BY <1>1, <2>1, SyntheticKeeps DEF Within, Runs
    <2>4. QED
        BY <2>1, <2>2, <2>3, BeginKeeps
<1>7. CASE RequestStopApp
    <2> DEFINE reply == [Spinning(0) EXCEPT !.st = "waiting"]
    <2>1. Show(Synthetic(NewWork, reply)) /\ controller' = controller /\ ~streaming
        BY <1>7 DEF RequestStopApp, NewWork
    <2>2. reply \in Entries
        BY <1>1 DEF Entries, States
    <2> HIDE DEF reply
    <2>3. KeepsClosed
        BY <1>1, <2>1, <2>2, SyntheticKeeps, ShownKeeps
    <2>4. controller' = 0
        BY <2>1 DEF ChatInv, Authority, OwnerActs
    <2>5. QED
        BY <2>3, <2>4 DEF RowsToCome
<1>8. CASE ReplanEditedBatch
    <2> DEFINE start == Started("replan", "replan")
               item == [start EXCEPT !.row = pending.row]
    <2>1. Begin(item, Visible) /\ pending # NoCard /\ wallet' = wallet
        BY <1>8 DEF ReplanEditedBatch
    <2>2. start \in Items /\ pending.row \in RowIds
        BY <1>1, <1>2, <1>3, <2>1 DEF StoreTyped, Cards
    <2> HIDE DEF start
    <2>3. item \in Items
        BY <2>2 DEF Items
    <2> HIDE DEF item
    <2>4. Within(Visible, NewWork, item)
        BY <1>4 DEF Within
    <2>5. QED
        BY <2>1, <2>3, <2>4, KeepsItself, BeginKeeps
<1>9. CASE pending # NoCard /\ Dispatch
    <2> DEFINE start == Started("confirm", "execute")
               approved == [start EXCEPT !.wallet = pending.wallet, !.gen = pending.gen]
               item == [approved EXCEPT !.row = pending.row, !.payload = pending.payload]
               rows == [Visible EXCEPT ![pending.row].st = "inflight"]
    <2>1. Begin(item, rows) /\ wallet' = wallet
        BY <1>9 DEF Dispatch
    <2>2. /\ pending.wallet \in Addresses /\ pending.gen \in Nat /\ pending.row \in RowIds /\ pending.payload \in Nat
        BY <1>1, <1>9 DEF StoreTyped, Cards
    <2>3. start \in Items
        BY <1>2, <1>3
    <2> HIDE DEF start
    <2>4. approved \in Items
        BY <2>2, <2>3 DEF Items
    <2> HIDE DEF approved
    <2>5. item \in Items
        BY <2>2, <2>4 DEF Items
    <2> HIDE DEF item
    <2>6. Visible[pending.row].st = "waiting"
        BY <1>9 DEF ChatInv, Display, OnDisplay
    <2>7. DOMAIN rows = DOMAIN Visible /\ \A r \in DOMAIN Visible : r # pending.row => rows[r] = Visible[r]
        OBVIOUS
    <2> HIDE DEF rows
    <2>8. Keeps(Visible, rows) /\ Within(rows, NewWork, item)
        BY <1>4, <2>6, <2>7 DEF Keeps, Closed, Within
    <2>9. QED
        BY <2>1, <2>5, <2>8, BeginKeeps
<1>10. QED
    BY <1>5, <1>6, <1>7, <1>8, <1>9

\* Cards that are closed, a change of wallet, and what shows nothing.
LEMMA OthersKeep ==
    ASSUME ChatInv, RowsToCome,
           \/ CancelAction \/ ConfirmationTimeout \/ RefuseStaleCard \/ Stop \/ ClearHistory \/ BeginAttach \/ EndAttach
           \/ UNCHANGED vars
           \/ \E address \in Wallets \cup {NoWallet}, client \in BOOLEAN : SetWalletContext(address, client)
    PROVE  KeepsClosed /\ RowsToCome'
<1>1. StoreTyped
    BY DEF ChatInv
<1>2. CASE CancelAction \/ ConfirmationTimeout \/ RefuseStaleCard
    <2> DEFINE rows == Close(Visible, {pending.row}, "unsubmitted")
    <2>1. Show(rows) /\ UNCHANGED <<wallet, controller, work>>
        BY <1>2 DEF CancelAction, ConfirmationTimeout, RefuseStaleCard, CloseCard
    <2>2. Keeps(Visible, rows) /\ DOMAIN rows = DOMAIN Visible
        BY ClosingKeeps DEF Texts
    <2> HIDE DEF rows
    <2>3. Visible' = rows
        BY <1>1, <2>1, VisibleTyped DEF Show, Visible, StoreTyped
    <2>4. QED
        BY <1>1, <2>1, <2>2, <2>3, ShownKeeps, BesideKeeps
<1>3. CASE Stop
    <2>1. work' = Aborted /\ UNCHANGED <<wallet, controller, transcript>>
        BY <1>3 DEF Stop
    <2>2. \A v \in Ids : /\ work'[v].pc = work[v].pc /\ work'[v].turn = work[v].turn /\ work'[v].at = work[v].at
        BY <1>1, <2>1, AbortedShape
    <2>3. QED
        BY <1>1, <2>1, <2>2, WorkShape, NothingShown, BesideKeeps DEF Visible
<1>4. CASE ClearHistory
    <2>1. Show(<<>>) /\ controller' = 0
        BY <1>4 DEF ClearHistory
    <2>2. Keeps(Visible, <<>>)
        BY DEF Keeps
    <2>3. QED
        BY <1>1, <2>1, <2>2, ShownKeeps DEF RowsToCome
<1>5. CASE \E address \in Wallets \cup {NoWallet}, client \in BOOLEAN : SetWalletContext(address, client)
    <2>1. Show(Interrupted(Visible)) /\ controller' = 0
        BY <1>5 DEF SetWalletContext
    <2>2. Keeps(Visible, Interrupted(Visible))
        BY InterruptedShape DEF Keeps, Closed
    <2>3. QED
        BY <1>1, <2>1, <2>2, ShownKeeps DEF RowsToCome
<1>6. CASE BeginAttach \/ EndAttach \/ UNCHANGED vars
    <2>1. UNCHANGED <<wallet, controller, work, transcript>>
        BY <1>6 DEF BeginAttach, EndAttach, vars
    <2>2. QED
        BY <2>1, NothingShown, BesideKeeps DEF Visible
<1>7. QED
    BY <1>2, <1>3, <1>4, <1>5, <1>6

LEMMA StepsKeep == ChatInv /\ RowsToCome /\ [Next]_vars => KeepsClosed /\ RowsToCome'
<1> SUFFICES ASSUME ChatInv, RowsToCome, [Next]_vars PROVE KeepsClosed /\ RowsToCome'
    OBVIOUS
<1>1. ASSUME NEW w \in Ids, Continues(w) PROVE KeepsClosed /\ RowsToCome'
    BY <1>1, EndingsKeep, CallsKeep, ModelCallsKeeps, MergesKeep, PlansKeep, ReturnsKeep, AsidesKeep DEF Continues
<1>2. CASE UserActs
    BY <1>2, RequestsKeep, OthersKeep DEF UserActs, ConfirmAction
<1>3. QED
    BY <1>1, <1>2, OthersKeep DEF Next

(* A row that was resolved stays resolved: no late plan, merge or result    *)
(* asks again or shows progress again (coalesceConfirmations,               *)
(* mergeBatchDeployConfirmations, replanEditedBatch,                        *)
(* finalizeStaleToolResult).                                                *)
THEOREM ResolvedStays == Spec => [][KeepsClosed]_vars
<1>1. Init => RowsToCome
    BY DEF Init, RowsToCome
<1>2. ChatInv /\ RowsToCome /\ [Next]_vars => KeepsClosed /\ RowsToCome'
    BY StepsKeep
<1>3. QED
    BY <1>1, <1>2, ChatIsSound, PTL DEF Spec

-----------------------------------------------------------------------------
(* Replies to calls.  The owner of the chat has replied to every call that  *)
(* it advertised, but for those of the turn at hand that it has not come to *)
(* or that ask for a confirmation.                                          *)
RepliedBut(rows, w, turn, S) ==
    \A g \in DOMAIN rows : g[1] = w =>
      \A n \in 1..rows[g].calls : Closed(rows, <<w, g[2], n>>) \/ (g[2] = turn /\ n \in S)

\* The turn at hand has no more calls than its item.
AsMany(rows, w, item) ==
    \A g \in DOMAIN rows : g[1] = w /\ g[2] = item.turn => rows[g].calls \in 0..Len(item.calls)

Later(n) == {m \in Nat : m > n}
Unreplied(item) ==
    CASE item.pc = "tool" -> {item.at} \cup Later(item.at) \cup item.collected
      [] item.pc = "merge" -> item.collected
      [] OTHER -> {}

Turning(i) == i.pc \in {"model", "tool", "merge"}
Replying(rows, w, item) ==
    /\ RepliedBut(rows, w, item.turn, Unreplied(item))
    /\ item.pc # "model" => AsMany(rows, w, item)

RepliesToCome ==
    controller # 0 /\ Turning(work[controller]) => Replying(Visible, controller, work[controller])

\* What a step has to do for it: what asks the model has its replies.
AsksWithReplies ==
    \A w \in DOMAIN work' : AsksModel(w) =>
      \A g \in DOMAIN Visible' : g[1] = w => Answered(Visible', g)

LEMMA RepliedIsAnswered ==
    ASSUME NEW rows, NEW w, NEW turn, NEW S, S = {}, RepliedBut(rows, w, turn, S)
    PROVE  \A g \in DOMAIN rows : g[1] = w => Answered(rows, g)
BY DEF RepliedBut, Answered, Closed

\* Rows that stay closed, and new ones that advertise nothing.
LEMMA RepliedStays ==
    ASSUME NEW rows, NEW new, NEW w, NEW turn, NEW S, RepliedBut(rows, w, turn, S),
           Keeps(rows, new), DOMAIN rows \subseteq DOMAIN new,
           \A g \in DOMAIN new : \/ g \in DOMAIN rows /\ new[g].calls = rows[g].calls
                                 \/ g[1] = w => new[g].calls = 0
    PROVE  RepliedBut(new, w, turn, S)
<1>1. ASSUME NEW g \in DOMAIN new, g[1] = w, NEW n \in 1..new[g].calls
      PROVE  Closed(new, <<w, g[2], n>>) \/ (g[2] = turn /\ n \in S)
    <2>1. new[g].calls # 0
        OBVIOUS
    <2>2. g \in DOMAIN rows /\ new[g].calls = rows[g].calls
        BY <1>1, <2>1
    <2>3. Closed(rows, <<w, g[2], n>>) \/ (g[2] = turn /\ n \in S)
        BY <1>1, <2>2 DEF RepliedBut
    <2>4. Closed(rows, <<w, g[2], n>>) => Closed(new, <<w, g[2], n>>)
        BY DEF Keeps, Closed
    <2>5. QED
        BY <2>3, <2>4
<1>2. QED
    BY <1>1 DEF RepliedBut

\* Work that ends asks nothing.
LEMMA ReleaseReplies ==
    ASSUME StoreTyped, NEW w \in Ids, NEW item \in Items, NEW rows, Release(w, item, rows)
    PROVE  RepliesToCome' /\ AsksWithReplies
<1>1. controller' = 0 /\ work' = [work EXCEPT ![w] = Over(item)] /\ Over(item) \in Items /\ Over(item).pc = "done"
    BY OverShape DEF Release
<1>2. DOMAIN work' = Ids /\ work'[w].pc = "done" /\ \A v \in Ids \ {w} : work'[v] = work[v]
    <2>1. DOMAIN work = Ids
        BY DEF StoreTyped, Ids
    <2>2. QED
        BY <1>1, <2>1
<1>3. \A v \in DOMAIN work' : ~AsksModel(v)
    BY <1>2 DEF AsksModel
<1>4. QED
    BY <1>1, <1>3 DEF RepliesToCome, AsksWithReplies

\* The owner goes on.
LEMMA ProceedReplies ==
    ASSUME ChatInv, NEW w \in Ids, Owns(w), NEW item \in Items, NEW rows, Proceed(w, item, rows), wallet' = wallet,
           Turning(item) => Replying(rows, w, item),
           item.pc = "followup" => \A g \in DOMAIN rows : g[1] = w => rows[g].calls = 0
    PROVE  RepliesToCome' /\ AsksWithReplies
<1>1. controller' = w /\ work'[w] = item /\ DOMAIN work' = Ids /\ \A v \in Ids \ {w} : work'[v] = work[v]
    <2>1. work' \in Seq(Items) /\ Len(work') = Len(work) /\ work'[w] = item /\ \A v \in Ids \ {w} : work'[v] = work[v]
        BY Replaced DEF Proceed, ChatInv
    <2>2. QED
        BY <2>1 DEF Ids, Proceed, Owns
<1>2. Visible' = rows
    BY VisibleTyped DEF Proceed, Show, Visible, ChatInv, StoreTyped
<1>3. RepliesToCome'
    BY <1>1, <1>2 DEF RepliesToCome
<1>4. \A v \in DOMAIN work' : AsksModel(v) => v = w /\ item.pc \in {"model", "followup"}
    BY <1>1 DEF AsksModel
<1>5. ASSUME item.pc = "model" PROVE \A g \in DOMAIN rows : g[1] = w => Answered(rows, g)
    <2>1. RepliedBut(rows, w, item.turn, Unreplied(item)) /\ Unreplied(item) = {}
        BY <1>5 DEF Turning, Replying, Unreplied
    <2>2. QED
        BY <2>1, RepliedIsAnswered
<1>6. ASSUME item.pc = "followup" PROVE \A g \in DOMAIN rows : g[1] = w => Answered(rows, g)
    BY <1>6 DEF Answered
<1>7. AsksWithReplies
    BY <1>2, <1>4, <1>5, <1>6 DEF AsksWithReplies
<1>8. QED
    BY <1>3, <1>7

\* A step beside the owner.
LEMMA BesideReplies ==
    ASSUME ChatInv, RepliesToCome, controller' = controller,
           DOMAIN Visible' = DOMAIN Visible, Keeps(Visible, Visible'),
           \A r \in DOMAIN Visible : Visible'[r].calls = Visible[r].calls,
           DOMAIN work' = Ids,
           \A v \in Ids : \/ work'[v].pc = work[v].pc /\ work'[v].turn = work[v].turn
                          \/ work'[v].pc \notin {"model", "followup"},
           controller # 0 => \/ /\ work'[controller].pc = work[controller].pc
                                /\ work'[controller].turn = work[controller].turn
                                /\ work'[controller].at = work[controller].at
                                /\ work'[controller].calls = work[controller].calls
                                /\ work'[controller].collected = work[controller].collected
                             \/ ~Turning(work'[controller])
    PROVE  RepliesToCome' /\ AsksWithReplies
<1>1. \A v \in DOMAIN work' : ~AsksModel(v)
    BY DEF AsksModel
<1>2. ASSUME controller # 0, Turning(work'[controller])
      PROVE  Replying(Visible', controller, work'[controller])
    <2> DEFINE item == work[controller]
               new == work'[controller]
    <2>1. /\ new.pc = item.pc /\ new.turn = item.turn /\ new.at = item.at /\ new.calls = item.calls
          /\ new.collected = item.collected
        BY <1>2
    <2>2. Turning(item) /\ Unreplied(new) = Unreplied(item)
        BY <1>2, <2>1 DEF Turning, Unreplied
    <2>3. Replying(Visible, controller, item)
        BY <1>2, <2>2 DEF RepliesToCome
    <2> HIDE DEF item, new
    <2>4. RepliedBut(Visible', controller, new.turn, Unreplied(new))
        <3>1. RepliedBut(Visible, controller, new.turn, Unreplied(new))
            BY <2>1, <2>2, <2>3 DEF Replying
        <3>2. QED
            BY <3>1, RepliedStays
    <2>5. new.pc # "model" => AsMany(Visible', controller, new)
        BY <2>1, <2>3 DEF Replying, AsMany
    <2>6. QED
        BY <2>4, <2>5 DEF Replying, new
<1>3. QED
    BY <1>1, <1>2 DEF RepliesToCome, AsksWithReplies

\* A new piece of work.
LEMMA BeginReplies ==
    ASSUME ChatInv, NEW item \in Items, NEW rows, Begin(item, rows), wallet' = wallet,
           item.pc # "followup", Turning(item) => item.pc = "model",
           item.pc = "model" => \A g \in DOMAIN rows : g[1] = NewWork => rows[g].calls = 0
    PROVE  RepliesToCome' /\ AsksWithReplies
<1>1. StoreTyped
    BY DEF ChatInv
<1>2. /\ controller' = NewWork /\ work'[NewWork] = item /\ DOMAIN work' = Ids \cup {NewWork} /\ NewWork \notin Ids
      /\ \A v \in Ids : work'[v] = work[v]
    <2>1. /\ work' \in Seq(Items) /\ Len(work') = Len(work) + 1 /\ Ids' = Ids \cup {NewWork} /\ NewWork \notin Ids
          /\ work'[NewWork] = item /\ \A v \in Ids : work'[v] = work[v]
        BY <1>1, Appended DEF Begin, NewWork
    <2>2. QED
        BY <2>1 DEF Begin, NewWork, Ids
<1>3. Visible' = rows
    BY <1>1, VisibleTyped DEF Begin, Show, Visible, StoreTyped
<1>4. Turning(item) => Replying(rows, NewWork, item)
    BY DEF Replying, RepliedBut
<1>5. RepliesToCome'
    BY <1>2, <1>3, <1>4 DEF RepliesToCome
<1>6. \A v \in DOMAIN work' : AsksModel(v) => v = NewWork /\ item.pc = "model"
    BY <1>2 DEF AsksModel
<1>7. AsksWithReplies
    BY <1>3, <1>6 DEF AsksWithReplies, Answered
<1>8. QED
    BY <1>5, <1>7

\* A row is appended that advertises nothing, and rows are closed.
Appends(rows, r, new) ==
    /\ DOMAIN new = DOMAIN rows \cup {r} /\ new[r].calls = 0
    /\ \A x \in DOMAIN rows : new[x] = rows[x]

LEMMA AddAppends ==
    ASSUME NEW rows, RowsTyped(rows), NEW r, r \notin DOMAIN rows
    PROVE  Appends(rows, r, Add(rows, r, Spinning(0)))
BY DEF Appends, Add, Spinning

LEMMA AppendedStays ==
    ASSUME NEW rows, NEW new, NEW r, Appends(rows, r, new), NEW w, NEW turn, NEW S, RepliedBut(rows, w, turn, S)
    PROVE  RepliedBut(new, w, turn, S)
<1>1. DOMAIN rows \subseteq DOMAIN new
    BY DEF Appends
<1>2. \A g \in DOMAIN new : (g \in DOMAIN rows /\ new[g].calls = rows[g].calls) \/ new[g].calls = 0
    BY DEF Appends
<1>3. Keeps(rows, new)
    BY DEF Keeps, Closed, Appends
<1>4. QED
    BY <1>1, <1>2, <1>3, RepliedStays

Closes(rows, S, new) ==
    /\ DOMAIN new = DOMAIN rows
    /\ \A r \in DOMAIN rows : /\ r \in S => new[r].st = "closed"
                              /\ r \notin S => new[r] = rows[r]
                              /\ new[r].calls = rows[r].calls

LEMMA CloseCloses ==
    ASSUME NEW rows, RowsTyped(rows), NEW S, NEW text \in Texts
    PROVE  Closes(rows, S, Close(rows, S, text)) /\ RowsTyped(Close(rows, S, text))
BY CloseShape DEF Closes

LEMMA OpenIsThere ==
    ASSUME ChatInv, NEW w \in Ids, Owns(w), NEW n \in OpenAt(work[w])
    PROVE  Row(w, n) \in DOMAIN Visible
BY OwnerOpen

\* The next turn starts with a row that is not there yet.
LEMMA NextTurnIs ==
    ASSUME ChatInv, RowsToCome, NEW w \in Ids, Owns(w), work[w].pc \in {"tool", "merge"}, NEW rows, RowsTyped(rows),
           NextTurn(w, rows)
    PROVE  \E next \in Items, r \in RowIds :
             /\ next.pc = "model" /\ next.turn = work[w].turn + 1 /\ r[1] = w /\ r[2] = next.turn /\ r[3] = 0
             /\ r \notin DOMAIN Visible
             /\ \/ Proceed(w, next, Add(rows, r, Spinning(0)))
                \/ Release(w, next, Close(Add(rows, r, Spinning(0)), {r}, "maxed"))
<1> DEFINE went == [work[w] EXCEPT !.pc = "model", !.turn = @ + 1, !.calls = <<>>]
           next == [work[w] EXCEPT !.pc = "model", !.turn = @ + 1, !.calls = <<>>,
                                   !.at = 0, !.collected = {}, !.said = ""]
           r == <<w, next.turn, 0>>
<1>1. work[w] \in Items /\ work[w].turn \in Nat
    BY TurnIsChat
<1>2. went \in Items /\ went.turn = work[w].turn + 1 /\ went.pc = "model"
    <2>1. <<>> \in Seq(Tools) /\ work[w].turn + 1 \in Nat
        BY <1>1
    <2>2. QED
        BY <1>1, <2>1 DEF Items, Stages
<1>3. next = [went EXCEPT !.at = 0, !.collected = {}, !.said = ""]
    OBVIOUS
<1> HIDE DEF went
<1>4. next \in Items /\ next.turn = work[w].turn + 1 /\ next.pc = "model"
    <2>1. {} \in SUBSET Nat
        OBVIOUS
    <2>2. next \in Items
        BY ZenonT(40), <1>2, <1>3, <2>1 DEF Items
    <2>3. QED
        BY <1>2, <1>3, <2>2 DEF Items
<1>5. \/ Proceed(w, next, Add(rows, r, Spinning(0)))
      \/ Release(w, next, Close(Add(rows, r, Spinning(0)), {r}, "maxed"))
    BY DEF NextTurn, EndTurn
<1> HIDE DEF next
<1>6. r = <<w, work[w].turn + 1, 0>> /\ r \in RowIds
    BY <1>1, <1>4, OwnRows DEF RowIds
<1>7. \A x \in DOMAIN Visible : x \in RowIds /\ (x[1] = w => x[2] <= work[w].turn)
    BY OwnRows DEF Within
<1>8. r \notin DOMAIN Visible /\ r[1] = w /\ r[2] = next.turn /\ r[3] = 0
    BY <1>1, <1>4, <1>6, <1>7
<1> HIDE DEF r
<1>9. QED
    BY <1>4, <1>5, <1>6, <1>8

\* It starts when every call has its reply.
LEMMA NextTurnReplies ==
    ASSUME ChatInv, RowsToCome, NEW w \in Ids, Owns(w), work[w].pc \in {"tool", "merge"}, wallet' = wallet,
           NEW rows, RowsTyped(rows), DOMAIN rows = DOMAIN Visible,
           NEW S, S = {}, RepliedBut(rows, w, work[w].turn, S), NextTurn(w, rows)
    PROVE  RepliesToCome' /\ AsksWithReplies
<1>1. PICK next \in Items, r \in RowIds :
         /\ next.pc = "model" /\ next.turn = work[w].turn + 1 /\ r[1] = w /\ r[2] = next.turn /\ r[3] = 0
         /\ r \notin DOMAIN Visible
         /\ \/ Proceed(w, next, Add(rows, r, Spinning(0)))
            \/ Release(w, next, Close(Add(rows, r, Spinning(0)), {r}, "maxed"))
    BY NextTurnIs
<1>2. CASE Release(w, next, Close(Add(rows, r, Spinning(0)), {r}, "maxed"))
    BY <1>2, ReleaseReplies DEF ChatInv
<1>3. CASE Proceed(w, next, Add(rows, r, Spinning(0)))
    <2> DEFINE shown == Add(rows, r, Spinning(0))
    <2>1. r \notin DOMAIN rows
        BY <1>1
    <2>2. Appends(rows, r, shown)
        BY <2>1, AddAppends
    <2>3. Proceed(w, next, shown)
        BY <1>3
    <2> HIDE DEF shown
    <2>4. RepliedBut(shown, w, work[w].turn, S)
        BY <2>2, AppendedStays
    <2>5. Replying(shown, w, next)
        <3>1. Unreplied(next) = {}
            BY <1>1 DEF Unreplied
        <3>2. RepliedBut(shown, w, next.turn, Unreplied(next))
            BY <2>4, <3>1 DEF RepliedBut
        <3>3. QED
            BY <1>1, <3>2 DEF Replying
    <2>6. QED
        BY <1>1, <2>3, <2>5, ProceedReplies
<1>4. QED
    BY <1>1, <1>2, <1>3

\* After a call: what its group comes to.
LEMMA AfterCallIs ==
    ASSUME StoreTyped, NEW w \in Ids, NEW item \in Items, item.pc = "tool", NEW rows, RowsTyped(rows), AfterCall(w, item, rows)
    PROVE  \/ \E next \in Items :
                /\ next.pc = "tool" /\ next.at = item.at + 1 /\ next.turn = item.turn /\ next.calls = item.calls
                /\ next.collected = item.collected
                /\ Proceed(w, next, Add(rows, Row(w, item.at + 1), Spinning(0)))
           \/ EndTurn(w, item, rows)
           \/ item.at >= Len(item.calls) /\ item.collected = {} /\ NextTurn(w, rows)
           \/ item.at >= Len(item.calls) /\ \E merging \in Items :
                /\ merging.pc = "merge" /\ merging.turn = item.turn /\ merging.calls = item.calls
                /\ merging.collected = item.collected
                /\ Proceed(w, merging, rows)
           \/ AskOne(w, item, rows, First(item.collected))
<1> DEFINE next == [item EXCEPT !.at = item.at + 1, !.seen = dispatches]
           merging == [item EXCEPT !.pc = "merge", !.payload = payload]
<1>1. item.at \in Nat /\ Len(item.calls) \in Nat /\ dispatches \in Nat /\ payload \in Nat
    <2>1. dispatches \in Nat /\ payload \in Nat
        BY DEF StoreTyped
    <2>2. item.calls \in Seq(Tools) /\ item.at \in Nat
        BY ItemShape
    <2>3. QED
        BY <2>1, <2>2
<1>2. /\ next \in Items /\ next.pc = item.pc /\ next.at = item.at + 1 /\ next.turn = item.turn
      /\ next.calls = item.calls /\ next.collected = item.collected
    <2>1. item.at + 1 \in Nat
        BY <1>1
    <2>2. next \in Items
        BY <1>1, <2>1 DEF Items
    <2>3. QED
        BY <1>1, <2>1, <2>2 DEF Items
<1>3. /\ merging \in Items /\ merging.pc = "merge" /\ merging.turn = item.turn /\ merging.calls = item.calls
      /\ merging.collected = item.collected
    BY <1>1 DEF Items, Stages
<1>4. \/ Proceed(w, next, Add(rows, Row(w, item.at + 1), Spinning(0)))
      \/ EndTurn(w, item, rows)
      \/ item.at + 1 > Len(item.calls) /\ item.collected = {} /\ NextTurn(w, rows)
      \/ item.at + 1 > Len(item.calls) /\ Proceed(w, merging, rows)
      \/ AskOne(w, item, rows, First(item.collected))
    BY DEF AfterCall
<1>5. item.at + 1 > Len(item.calls) => item.at >= Len(item.calls)
    BY <1>1
<1> HIDE DEF next, merging
<1>6. QED
    BY <1>2, <1>3, <1>4, <1>5

\* What is left to reply after a call.
LEMMA AfterCallReplies ==
    ASSUME ChatInv, RowsToCome, NEW w \in Ids, Owns(w), work[w].pc = "tool", wallet' = wallet,
           NEW item \in Items, item.pc = "tool", item.turn = work[w].turn, item.at = work[w].at,
           NEW rows, RowsTyped(rows), DOMAIN rows = DOMAIN Visible,
           RepliedBut(rows, w, item.turn, Later(item.at) \cup item.collected), AsMany(rows, w, item),
           AfterCall(w, item, rows)
    PROVE  RepliesToCome' /\ AsksWithReplies
<1>1. /\ item.at \in Nat /\ item.collected \in SUBSET Nat /\ item.turn \in Nat /\ Len(item.calls) \in Nat
      /\ StoreTyped /\ w \in Nat
    <2>1. StoreTyped
        BY DEF ChatInv
    <2>2. item.calls \in Seq(Tools)
        BY ItemShape
    <2>3. QED
        <3>1. Len(item.calls) \in Nat
            BY <2>2
        <3>2. item.at \in Nat /\ item.collected \in SUBSET Nat /\ item.turn \in Nat
            BY ItemShape
        <3>3. w \in Nat
            BY <2>1, WorkShape
        <3>4. QED
            BY <2>1, <3>1, <3>2, <3>3
<1>2. CASE \E next \in Items :
             /\ next.pc = "tool" /\ next.at = item.at + 1 /\ next.turn = item.turn /\ next.calls = item.calls
             /\ next.collected = item.collected
             /\ Proceed(w, next, Add(rows, Row(w, item.at + 1), Spinning(0)))
    <2> DEFINE shown == Add(rows, Row(w, item.at + 1), Spinning(0))
    <2>1. PICK next \in Items :
             /\ next.pc = "tool" /\ next.at = item.at + 1 /\ next.turn = item.turn /\ next.calls = item.calls
             /\ next.collected = item.collected
             /\ Proceed(w, next, shown)
        BY <1>2
    <2>2. Row(w, item.at + 1) = <<w, work[w].turn, item.at + 1>> /\ Row(w, item.at + 1) \in RowIds
        BY <1>1 DEF Row, RowIds
    <2>3. Row(w, item.at + 1) \notin DOMAIN Visible
        <3>1. \A x \in DOMAIN Visible : x[1] = w /\ x[2] = work[w].turn => x[3] \in Nat /\ x[3] <= work[w].at
            BY OwnRows DEF Within, RowIds
        <3>2. QED
            BY <1>1, <2>2, <3>1
    <2>4. Row(w, item.at + 1) \notin DOMAIN rows
        BY <2>3
    <2>5. Appends(rows, Row(w, item.at + 1), shown)
        BY <2>4, AddAppends
    <2> HIDE DEF shown
    <2>6. PICK S : S = Later(item.at) \cup item.collected
        OBVIOUS
    <2>7. RepliedBut(shown, w, item.turn, S)
        <3>1. RepliedBut(rows, w, item.turn, S)
            BY <2>6
        <3>2. QED
            BY <2>5, <3>1, AppendedStays
    <2>8. S \subseteq Unreplied(next)
        BY <1>1, <2>1, <2>6 DEF Unreplied, Later
    <2>9. AsMany(shown, w, next)
        BY <1>1, <2>1, <2>5 DEF AsMany, Appends
    <2>10. Replying(shown, w, next)
        BY <2>1, <2>7, <2>8, <2>9 DEF Replying, RepliedBut
    <2>11. QED
        BY <2>1, <2>10, ProceedReplies
<1>3. CASE EndTurn(w, item, rows)
    BY <1>1, <1>3, ReleaseReplies DEF EndTurn
<1>4. CASE item.at >= Len(item.calls) /\ item.collected = {} /\ NextTurn(w, rows)
    <2>1. RepliedBut(rows, w, work[w].turn, {})
        <3>1. ASSUME NEW g \in DOMAIN rows, g[1] = w, NEW n \in 1..rows[g].calls
              PROVE  Closed(rows, <<w, g[2], n>>)
            <4>1. Closed(rows, <<w, g[2], n>>) \/ (g[2] = item.turn /\ n \in Later(item.at) \cup item.collected)
                BY <3>1 DEF RepliedBut
            <4>2. g[2] = item.turn => n <= item.at
                BY <1>1, <1>4, <3>1 DEF AsMany
            <4>3. n \in Later(item.at) \cup item.collected => n > item.at
                BY <1>4 DEF Later
            <4>4. n \in Int
                OBVIOUS
            <4>5. QED
                BY <1>1, <4>1, <4>2, <4>3, <4>4
        <3>2. QED
            BY <3>1 DEF RepliedBut
    <2>2. PICK S : S = {}
        OBVIOUS
    <2>3. RepliedBut(rows, w, work[w].turn, S) /\ NextTurn(w, rows)
        BY <1>4, <2>1, <2>2
    <2>4. QED
        BY <2>2, <2>3, NextTurnReplies
<1>5. CASE item.at >= Len(item.calls) /\ \E merging \in Items :
             /\ merging.pc = "merge" /\ merging.turn = item.turn /\ merging.calls = item.calls
             /\ merging.collected = item.collected
             /\ Proceed(w, merging, rows)
    <2>1. PICK merging \in Items :
             /\ merging.pc = "merge" /\ merging.turn = item.turn /\ merging.calls = item.calls
             /\ merging.collected = item.collected
             /\ Proceed(w, merging, rows)
        BY <1>5
    <2>2. AsMany(rows, w, merging)
        BY <2>1 DEF AsMany
    <2>3. ASSUME NEW g \in DOMAIN rows, g[1] = w, NEW n \in 1..rows[g].calls
          PROVE  Closed(rows, <<w, g[2], n>>) \/ (g[2] = merging.turn /\ n \in merging.collected)
        <3>1. Closed(rows, <<w, g[2], n>>) \/ (g[2] = item.turn /\ n \in Later(item.at) \cup item.collected)
            BY <2>3 DEF RepliedBut
        <3>2. g[2] = item.turn => n <= item.at
            BY <1>1, <1>5, <2>3 DEF AsMany
        <3>3. n \in Later(item.at) => n > item.at
            BY DEF Later
        <3>4. n \in Int
            OBVIOUS
        <3>5. QED
            BY <1>1, <2>1, <3>1, <3>2, <3>3, <3>4
    <2>4. Unreplied(merging) = merging.collected
        BY <2>1 DEF Unreplied
    <2>5. Replying(rows, w, merging)
        BY <2>2, <2>3, <2>4 DEF Replying, RepliedBut
    <2>6. QED
        BY <2>1, <2>5, ProceedReplies
<1>6. CASE AskOne(w, item, rows, First(item.collected))
    <2>1. PICK shown : Release(w, item, shown)
        BY <1>6 DEF AskOne, EndTurn
    <2>2. QED
        BY <1>1, <2>1, ReleaseReplies
<1>7. QED
    BY <1>1, <1>2, <1>3, <1>4, <1>5, <1>6, AfterCallIs

\* A call ends, or asks for a confirmation.
LEMMA CallsReply ==
    ASSUME ChatInv, RowsToCome, RepliesToCome, NEW w \in Ids, ToolReports(w) \/ ToolAsks(w)
    PROVE  RepliesToCome' /\ AsksWithReplies
<1>1. Owns(w) /\ work[w].pc = "tool" /\ wallet' = wallet /\ StoreTyped
    BY DEF ToolReports, ToolAsks, ChatInv
<1>2. /\ work[w] \in Items /\ OpenAt(work[w]) = work[w].collected \cup {work[w].at}
      /\ RowsTyped(Visible) /\ work[w].at \in Nat /\ work[w].collected \in SUBSET Nat
      /\ controller = w /\ controller # 0
    BY <1>1, Owner, ItemShape, VisibleTyped DEF OpenAt
<1>3. /\ RepliedBut(Visible, w, work[w].turn, {work[w].at} \cup Later(work[w].at) \cup work[w].collected)
      /\ AsMany(Visible, w, work[w])
    BY <1>1, <1>2 DEF RepliesToCome, Replying, Turning, Unreplied
<1>4. CASE ToolReports(w)
    <2> DEFINE rows == Close(Visible, {Row(w, work[w].at)}, "notice")
    <2>1. PICK said \in {"", "card", "answer", "stranded", "outcome"} : AfterCall(w, [work[w] EXCEPT !.said = said], rows)
        BY <1>2, <1>4, ItemShape DEF ToolReports
    <2> DEFINE item == [work[w] EXCEPT !.said = said]
    <2>2. /\ item \in Items /\ item.pc = work[w].pc /\ item.collected = work[w].collected
          /\ item.at = work[w].at /\ item.turn = work[w].turn /\ item.calls = work[w].calls
        BY ZenonT(40), <1>2, SaidTyped
    <2>3. AfterCall(w, item, rows)
        BY <2>1
    <2> HIDE DEF item
    <2>4. Closes(Visible, {Row(w, work[w].at)}, rows) /\ RowsTyped(rows)
        BY <1>2, CloseCloses DEF Texts
    <2> HIDE DEF rows
    <2>5. Row(w, work[w].at) \in DOMAIN Visible /\ Row(w, work[w].at) = <<w, work[w].turn, work[w].at>>
        <3>1. work[w].at \in OpenAt(work[w])
            BY <1>2
        <3>2. Row(w, work[w].at) \in DOMAIN Visible
            BY <1>1, <3>1, OpenIsThere
        <3>3. QED
            BY <3>2 DEF Row
    <2>6. AsMany(rows, w, item)
        BY <1>3, <2>2, <2>4 DEF AsMany, Closes
    <2>7. RepliedBut(rows, w, item.turn, Later(item.at) \cup item.collected)
        <3>1. ASSUME NEW g \in DOMAIN rows, g[1] = w, NEW n \in 1..rows[g].calls
              PROVE  Closed(rows, <<w, g[2], n>>) \/ (g[2] = item.turn /\ n \in Later(item.at) \cup item.collected)
            <4>1. g \in DOMAIN Visible /\ rows[g].calls = Visible[g].calls
                BY <2>4, <3>1 DEF Closes
            <4>2. \/ Closed(Visible, <<w, g[2], n>>)
                  \/ g[2] = work[w].turn /\ n \in {work[w].at} \cup Later(work[w].at) \cup work[w].collected
                BY <1>3, <3>1, <4>1 DEF RepliedBut
            <4>3. Closed(Visible, <<w, g[2], n>>) => Closed(rows, <<w, g[2], n>>)
                BY <2>4 DEF Closed, Closes
            <4>4. g[2] = work[w].turn /\ n = work[w].at => Closed(rows, <<w, g[2], n>>)
                BY <2>4, <2>5 DEF Closed, Closes
            <4>5. QED
                BY <2>2, <4>2, <4>3, <4>4
        <3>2. QED
            BY <3>1 DEF RepliedBut
    <2>8. QED
        <3>1. DOMAIN rows = DOMAIN Visible
            BY <2>4 DEF Closes
        <3>2. QED
            BY <1>1, <2>2, <2>3, <2>4, <2>6, <2>7, <3>1, AfterCallReplies
<1>5. CASE ToolAsks(w)
    <2> DEFINE item == [work[w] EXCEPT !.collected = @ \cup {work[w].at}]
    <2>1. item \in Items
        BY <1>2 DEF Items
    <2>2. /\ item.pc = work[w].pc /\ item.collected = work[w].collected \cup {work[w].at}
          /\ item.at = work[w].at /\ item.turn = work[w].turn /\ item.calls = work[w].calls
        BY <1>2 DEF Items
    <2>3. AfterCall(w, item, Visible)
        BY <1>5 DEF ToolAsks
    <2> HIDE DEF item
    <2>4. AsMany(Visible, w, item)
        BY <1>3, <2>2 DEF AsMany
    <2>5. RepliedBut(Visible, w, item.turn, Later(item.at) \cup item.collected)
        <3>1. Later(item.at) \cup item.collected = {work[w].at} \cup Later(work[w].at) \cup work[w].collected
            BY <2>2
        <3>2. QED
            BY <1>3, <2>2, <3>1
    <2>6. QED
        BY <1>1, <1>2, <2>1, <2>2, <2>3, <2>4, <2>5, AfterCallReplies
<1>6. QED
    BY <1>4, <1>5

\* Work that ends.
LEMMA EndingsReply ==
    ASSUME ChatInv, NEW w \in Ids,
           \/ ModelFails(w) \/ ModelAnswers(w) \/ ToolStopped(w) \/ MergeStopped(w) \/ AppStatusReturns(w)
           \/ BatchRefused(w) \/ ReplanRefused(w) \/ TransactionThrows(w) \/ FollowUpReturns(w)
           \/ MergePlanned(w) \/ BatchPlanned(w) \/ BatchReplanned(w)
    PROVE  RepliesToCome' /\ AsksWithReplies
<1>1. StoreTyped /\ work[w] \in Items
    BY WorkShape DEF ChatInv
<1>2. \A said \in {"", "answer", "stranded"} : [work[w] EXCEPT !.said = said] \in Items
    BY <1>1, SaidTyped
<1>3. CASE \/ ModelFails(w) \/ ToolStopped(w) \/ AppStatusReturns(w) \/ BatchRefused(w) \/ ReplanRefused(w)
           \/ TransactionThrows(w) \/ FollowUpReturns(w) \/ BatchPlanned(w)
    <2>1. \E rows : Release(w, work[w], rows)
        BY <1>3 DEF ModelFails, ToolStopped, AppStatusReturns, BatchRefused, ReplanRefused, TransactionThrows,
                    FollowUpReturns, BatchPlanned, EndTurn
    <2>2. QED
        BY <1>1, <2>1, ReleaseReplies
<1>4. CASE BatchReplanned(w)
    <2>1. \E rows : Release(w, work[w], rows)
        BY <1>4 DEF BatchReplanned
    <2>2. QED
        BY <1>1, <2>1, ReleaseReplies
<1>5. CASE MergePlanned(w)
    <2>1. \E rows : Release(w, work[w], rows)
        BY <1>5 DEF MergePlanned, EndTurn
    <2>2. QED
        BY <1>1, <2>1, ReleaseReplies
<1>6. CASE ModelAnswers(w)
    <2>1. \E said \in {"", "answer"} : \E rows : Release(w, [work[w] EXCEPT !.said = said], rows)
        BY <1>6 DEF ModelAnswers, EndTurn
    <2>2. \E item \in Items : \E rows : Release(w, item, rows)
        BY <1>2, <2>1
    <2>3. QED
        BY <1>1, <2>2, ReleaseReplies
<1>7. CASE MergeStopped(w)
    <2>1. \E rows : Release(w, [work[w] EXCEPT !.said = "stranded"], rows)
        BY <1>7 DEF MergeStopped, EndTurn
    <2>2. \E item \in Items : \E rows : Release(w, item, rows)
        BY <1>2, <2>1
    <2>3. QED
        BY <1>1, <2>2, ReleaseReplies
<1>8. QED
    BY <1>3, <1>4, <1>5, <1>6, <1>7

\* The model calls tools: nothing of the turn is replied to yet but the calls before it.
LEMMA ModelCallsReply ==
    ASSUME ChatInv, RowsToCome, RepliesToCome, NEW w \in Ids, NEW calls \in Calls, ModelCalls(w, calls)
    PROVE  RepliesToCome' /\ AsksWithReplies
<1> DEFINE call == [st |-> "closed", text |-> "calls", calls |-> Len(calls)]
           advertised == [x \in DOMAIN Visible |-> IF x = Row(w, 0) THEN call ELSE Visible[x]]
           went == [work[w] EXCEPT !.pc = "tool", !.calls = calls]
           item == [work[w] EXCEPT !.pc = "tool", !.calls = calls, !.at = 1, !.seen = dispatches]
           shown == Add(advertised, Row(w, 1), Spinning(0))
<1>1. Owns(w) /\ work[w].pc = "model" /\ wallet' = wallet /\ StoreTyped /\ controller = w /\ controller # 0
    <2>1. Owns(w) /\ work[w].pc = "model" /\ wallet' = wallet /\ StoreTyped
        BY DEF ModelCalls, ChatInv
    <2>2. QED
        BY <2>1, Owner
<1>2. IF work[w].aborted THEN \E rows : Release(w, work[w], rows) ELSE Proceed(w, item, shown)
    BY DEF ModelCalls, EndTurn
<1>3. work[w] \in Items /\ work[w].turn \in Nat /\ dispatches \in Nat /\ calls \in Seq(Tools) /\ Len(calls) \in Nat
    <2>1. calls \in Seq(Tools) /\ dispatches \in Nat
        BY <1>1, ChatAssumption DEF StoreTyped
    <2>2. QED
        BY <1>1, <2>1, TurnIsChat
<1>4. went \in Items /\ went.pc = "tool" /\ went.turn = work[w].turn /\ went.calls = calls
    BY <1>3 DEF Items, Stages
<1>5. item = [went EXCEPT !.at = 1, !.seen = dispatches]
    OBVIOUS
<1> HIDE DEF went
<1>6. item \in Items /\ item.pc = "tool" /\ item.turn = work[w].turn /\ item.at = 1 /\ item.calls = calls
    <2> HIDE DEF item
    <2>1. item \in Items
        BY <1>3, <1>4, <1>5 DEF Items
    <2>2. QED
        BY <1>3, <1>4, <1>5, <2>1 DEF Items
<1> HIDE DEF item
<1>7. CASE work[w].aborted
    BY <1>1, <1>2, <1>3, <1>7, ReleaseReplies
<1>8. CASE ~work[w].aborted
    <2>1. RowsTyped(Visible) /\ Row(w, 1) = <<w, work[w].turn, 1>> /\ Row(w, 0) = <<w, work[w].turn, 0>>
        BY <1>1, VisibleTyped DEF Row
    <2>2. /\ DOMAIN advertised = DOMAIN Visible
          /\ \A x \in DOMAIN Visible : /\ x # Row(w, 0) => advertised[x] = Visible[x]
                                       /\ x = Row(w, 0) => advertised[x].st = "closed" /\ advertised[x].calls = Len(calls)
        OBVIOUS
    <2>3. RowsTyped(advertised)
        <3>1. call \in Entries
            BY <1>3 DEF Entries, States, Texts
        <3> HIDE DEF call
        <3>2. QED
            BY <2>1, <3>1 DEF RowsTyped
    <2> HIDE DEF advertised
    <2>4. \A x \in DOMAIN Visible : x[1] = w /\ x[2] = work[w].turn => x = Row(w, 0)
        <3>1. ASSUME NEW x \in DOMAIN Visible, x[1] = w, x[2] = work[w].turn PROVE x = Row(w, 0)
            <4>1. x \in RowIds /\ x[3] = 0
                BY <1>1, <3>1, OwnRows DEF Within
            <4>2. QED
                BY <2>1, <3>1, <4>1 DEF RowIds
        <3>2. QED
            BY <3>1
    <2>5. Row(w, 1) \notin DOMAIN advertised
        BY <2>1, <2>2, <2>4
    <2>6. Appends(advertised, Row(w, 1), shown)
        BY <2>3, <2>5, AddAppends
    <2>7. Proceed(w, item, shown)
        BY <1>2, <1>8
    <2> HIDE DEF shown
    <2>8. RepliedBut(Visible, w, work[w].turn, {})
        BY <1>1 DEF RepliesToCome, Replying, Turning, Unreplied
    <2>9. RepliedBut(advertised, w, item.turn, Unreplied(item))
        <3>1. ASSUME NEW g \in DOMAIN advertised, g[1] = w, NEW n \in 1..advertised[g].calls
              PROVE  Closed(advertised, <<w, g[2], n>>) \/ (g[2] = item.turn /\ n \in Unreplied(item))
            <4>1. CASE g = Row(w, 0)
                <5>1. n \in Nat /\ n >= 1
                    BY <2>2, <3>1, <1>3, <4>1
                <5>2. n \in Unreplied(item)
                    BY <1>6, <5>1 DEF Unreplied, Later
                <5>3. QED
                    BY <1>6, <2>1, <4>1, <5>2
            <4>2. CASE g # Row(w, 0)
                <5>1. g \in DOMAIN Visible /\ advertised[g] = Visible[g]
                    BY <2>2, <3>1, <4>2
                <5>2. Closed(Visible, <<w, g[2], n>>)
                    BY <2>8, <3>1, <5>1 DEF RepliedBut
                <5>3. QED
                    BY <2>2, <5>2 DEF Closed
            <4>3. QED
                BY <4>1, <4>2
        <3>2. QED
            BY <3>1 DEF RepliedBut
    <2>10. AsMany(shown, w, item)
        <3>1. ASSUME NEW g \in DOMAIN shown, g[1] = w, g[2] = item.turn PROVE shown[g].calls \in 0..Len(item.calls)
            <4>1. CASE g = Row(w, 1)
                BY <1>3, <1>6, <2>6, <4>1 DEF Appends
            <4>2. CASE g # Row(w, 1)
                <5>1. g = Row(w, 0) /\ g \in DOMAIN Visible /\ shown[g] = advertised[g]
                    BY <1>6, <2>2, <2>4, <2>6, <3>1, <4>2 DEF Appends
                <5>2. QED
                    BY <1>3, <1>6, <2>2, <5>1
            <4>3. QED
                BY <4>1, <4>2
        <3>2. QED
            BY <3>1 DEF AsMany
    <2>11. Replying(shown, w, item)
        BY <2>6, <2>9, <2>10, AppendedStays DEF Replying
    <2>12. QED
        BY <1>1, <1>6, <2>7, <2>11, ProceedReplies
<1>9. QED
    BY <1>7, <1>8

\* Drafts that could not be planned are resolved; what else was collected is asked for.
LEMMA MergeFailsReplies ==
    ASSUME ChatInv, RowsToCome, RepliesToCome, NEW w \in Ids, MergeFails(w)
    PROVE  RepliesToCome' /\ AsksWithReplies
<1> DEFINE drafts == Deploys(work[w], work[w].collected)
           others == work[w].collected \ drafts
           S == {Row(w, i) : i \in drafts}
           rows == Close(Visible, S, "notice")
<1>1. Owns(w) /\ work[w].pc = "merge" /\ wallet' = wallet /\ StoreTyped /\ "notice" \in Texts
    BY DEF MergeFails, ChatInv, Texts
<1>2. work[w] \in Items /\ work[w].collected \in SUBSET Nat /\ controller = w /\ controller # 0 /\ RowsTyped(Visible)
    BY <1>1, TurnIsChat, Owner, VisibleTyped
<1>3. CASE others = {}
    <2>1. NextTurn(w, rows)
        BY <1>3 DEF MergeFails
    <2>2. \A n \in work[w].collected : Row(w, n) \in S /\ Row(w, n) \in DOMAIN Visible /\ Row(w, n) = <<w, work[w].turn, n>>
        <3>1. \A n \in work[w].collected : Row(w, n) \in S
            BY <1>3
        <3>2. \A n \in work[w].collected : Row(w, n) \in DOMAIN Visible
            BY <1>1, OpenIsThere DEF OpenAt
        <3>3. QED
            BY <3>1, <3>2 DEF Row
    <2> HIDE DEF S, drafts
    <2>3. Closes(Visible, S, rows) /\ RowsTyped(rows)
        BY <1>1, <1>2, CloseCloses
    <2> HIDE DEF rows
    <2>4. RepliedBut(Visible, w, work[w].turn, work[w].collected)
        BY <1>1, <1>2 DEF RepliesToCome, Replying, Turning, Unreplied
    <2>5. PICK none : none = {}
        OBVIOUS
    <2>6. RepliedBut(rows, w, work[w].turn, none)
        <3>1. ASSUME NEW g \in DOMAIN rows, g[1] = w, NEW n \in 1..rows[g].calls
              PROVE  Closed(rows, <<w, g[2], n>>)
            <4>1. g \in DOMAIN Visible /\ rows[g].calls = Visible[g].calls
                BY <2>3, <3>1 DEF Closes
            <4>2. \/ Closed(Visible, <<w, g[2], n>>)
                  \/ g[2] = work[w].turn /\ n \in work[w].collected
                BY <2>4, <3>1, <4>1 DEF RepliedBut
            <4>3. Closed(Visible, <<w, g[2], n>>) => Closed(rows, <<w, g[2], n>>)
                BY <2>3 DEF Closed, Closes
            <4>4. g[2] = work[w].turn /\ n \in work[w].collected => Closed(rows, <<w, g[2], n>>)
                BY <2>2, <2>3 DEF Closed, Closes
            <4>5. QED
                BY <4>2, <4>3, <4>4
        <3>2. QED
            BY <3>1 DEF RepliedBut
    <2>7. DOMAIN rows = DOMAIN Visible
        BY <2>3 DEF Closes
    <2>8. QED
        BY <1>1, <2>1, <2>3, <2>5, <2>6, <2>7, NextTurnReplies
<1>4. CASE others # {}
    <2>1. \E item, shown : item = [work[w] EXCEPT !.collected = others] /\ Release(w, item, shown)
        BY <1>4 DEF MergeFails, AskOne, EndTurn
    <2>2. others \in SUBSET Nat
        BY <1>2
    <2> HIDE DEF others, drafts
    <2>3. [work[w] EXCEPT !.collected = others] \in Items
        BY <1>2, <2>2 DEF Items
    <2>4. QED
        BY <1>1, <2>1, <2>3, ReleaseReplies
<1>5. QED
    BY <1>3, <1>4

\* A transaction returns: before the comment on it, its work has called nothing.
LEMMA ReturnsReply ==
    ASSUME ChatInv, RowsToCome, NEW w \in Ids, TransactionReturns(w)
    PROVE  RepliesToCome' /\ AsksWithReplies
<1> DEFINE rows == Close(Visible, {work[w].row}, "outcome")
           over == [work[w] EXCEPT !.said = "outcome"]
           item == [over EXCEPT !.pc = "followup"]
           shown == Add(rows, Row(w, 0), Spinning(0))
<1>1. Owns(w) /\ Runs(work[w]) /\ wallet' = wallet /\ StoreTyped /\ work[w] \in Items
    BY WorkShape DEF TransactionReturns, ContextIsCurrent, Runs, ChatInv
<1>2. IF work[w].aborted THEN Release(w, over, rows) ELSE Proceed(w, item, shown)
    BY DEF TransactionReturns, EndTurn
<1>3. over \in Items
    BY <1>1, SaidTyped
<1> HIDE DEF over
<1>4. item \in Items /\ item.pc = "followup"
    BY <1>3 DEF Items, Stages
<1> HIDE DEF item
<1>5. RowsTyped(rows) /\ DOMAIN rows = DOMAIN Visible
    BY ClosingKeeps DEF Texts
<1> HIDE DEF rows
<1>6. \A x \in DOMAIN Visible : x[1] # w
    BY <1>1, OwnRows DEF Within
<1>7. CASE work[w].aborted
    BY <1>1, <1>2, <1>3, <1>7, ReleaseReplies
<1>8. CASE ~work[w].aborted
    <2>1. Row(w, 0) \notin DOMAIN rows
        BY <1>5, <1>6 DEF Row
    <2>2. Appends(rows, Row(w, 0), shown)
        BY <1>5, <2>1, AddAppends
    <2>3. Proceed(w, item, shown)
        BY <1>2, <1>8
    <2> HIDE DEF shown
    <2>4. \A g \in DOMAIN shown : g[1] = w => shown[g].calls = 0
        BY <1>5, <1>6, <2>2 DEF Appends
    <2>5. ~Turning(item)
        BY <1>4 DEF Turning
    <2>6. QED
        BY <1>1, <1>4, <2>3, <2>4, <2>5, ProceedReplies
<1>9. QED
    BY <1>7, <1>8

\* What a step beside the owner leaves alone.
Besides(S) ==
    /\ controller' = controller /\ DOMAIN Visible' = DOMAIN Visible /\ DOMAIN work' = Ids
    /\ \A v \in Ids : v \notin S => work'[v] = work[v]
    /\ \A v \in S : work'[v].pc \notin {"model", "tool", "merge", "followup"}

LEMMA BesidesReply ==
    ASSUME ChatInv, RepliesToCome, NEW S, S \subseteq Ids, Besides(S), Keeps(Visible, Visible'),
           \A r \in DOMAIN Visible : Visible'[r].calls = Visible[r].calls
    PROVE  RepliesToCome' /\ AsksWithReplies
<1>1. controller # 0 => controller \in Ids
    BY WorkShape DEF ChatInv
<1>2. \A v \in Ids : \/ work'[v].pc = work[v].pc /\ work'[v].turn = work[v].turn
                     \/ work'[v].pc \notin {"model", "followup"}
    BY DEF Besides
<1>3. controller # 0 => \/ /\ work'[controller].pc = work[controller].pc
                           /\ work'[controller].turn = work[controller].turn
                           /\ work'[controller].at = work[controller].at
                           /\ work'[controller].calls = work[controller].calls
                           /\ work'[controller].collected = work[controller].collected
                        \/ ~Turning(work'[controller])
    BY <1>1 DEF Besides, Turning
<1>4. QED
    BY <1>2, <1>3, BesideReplies DEF Besides

\* Work beside the owner ends, or a transaction reaches the chain.
LEMMA AsidesReply ==
    ASSUME ChatInv, RepliesToCome, NEW w \in Ids, Abandon(w) \/ Submit(w) \/ LateResult(w)
    PROVE  RepliesToCome' /\ AsksWithReplies
<1>1. /\ StoreTyped /\ controller' = controller /\ wallet' = wallet /\ DOMAIN work = Ids
      /\ work[w] \in Items /\ RowsTyped(Visible)
    <2>1. StoreTyped /\ DOMAIN work = Ids
        BY DEF ChatInv, StoreTyped, Ids
    <2>2. controller' = controller /\ wallet' = wallet
        BY DEF Abandon, Submit, LateResult
    <2>3. QED
        BY <2>1, <2>2, WorkShape, VisibleTyped
<1>2. CASE Abandon(w)
    <2>1. \/ Show(Visible)
          \/ \E S : Show(Close(Visible, S, "unsubmitted"))
        BY <1>2 DEF Abandon
    <2>2. PICK rows : /\ Show(rows) /\ Keeps(Visible, rows) /\ DOMAIN rows = DOMAIN Visible
                      /\ \A r \in DOMAIN Visible : rows[r].calls = Visible[r].calls
        <3>1. CASE Show(Visible)
            BY <3>1, KeepsItself
        <3>2. CASE \E S : Show(Close(Visible, S, "unsubmitted"))
            <4>1. PICK S : Show(Close(Visible, S, "unsubmitted"))
                BY <3>2
            <4>2. PICK rows : rows = Close(Visible, S, "unsubmitted")
                OBVIOUS
            <4>3. Keeps(Visible, rows) /\ Closes(Visible, S, rows)
                BY <1>1, <4>2, ClosingKeeps, CloseCloses DEF Texts
            <4>4. QED
                BY <4>1, <4>2, <4>3 DEF Closes
        <3>3. QED
            BY <2>1, <3>1, <3>2
    <2>3. Visible' = rows
        BY <1>1, <2>2, VisibleTyped DEF Show, Visible, StoreTyped
    <2>4. /\ DOMAIN work' = Ids /\ work'[w] = Over(work[w]) /\ \A v \in Ids \ {w} : work'[v] = work[v]
        BY <1>1, <1>2 DEF Abandon
    <2>5. work'[w].pc = "done"
        BY <1>1, <2>4, OverShape
    <2>6. Besides({w})
        BY <1>1, <2>2, <2>3, <2>4, <2>5 DEF Besides
    <2>7. QED
        BY <2>2, <2>3, <2>6, BesidesReply
<1>3. CASE Submit(w)
    <2>1. Visible' = Visible
        BY <1>1, <1>3 DEF Submit, Visible
    <2>2. DOMAIN work' = Ids /\ work'[w] = [work[w] EXCEPT !.pc = "sent"] /\ \A v \in Ids \ {w} : work'[v] = work[v]
        BY <1>1, <1>3 DEF Submit
    <2>3. work'[w].pc = "sent"
        BY <1>1, <2>2 DEF Items
    <2>4. Besides({w})
        BY <1>1, <2>1, <2>2, <2>3 DEF Besides
    <2>5. QED
        BY <2>1, <2>4, KeepsItself, BesidesReply
<1>4. CASE LateResult(w)
    <2>1. PICK text \in {"outcome", "interrupted"} :
             /\ transcript' = [transcript EXCEPT ![work[w].wallet] = Close(@, {work[w].row}, text)]
             /\ work' = [work EXCEPT ![w] = Over([@ EXCEPT !.said = IF text = "outcome" THEN text ELSE ""])]
        BY <1>4 DEF LateResult
    <2>2. DOMAIN transcript = Addresses /\ work[w].wallet \in Addresses /\ wallet.address \in Addresses /\ text \in Texts
        BY <1>1, ItemShape, VisibleTyped DEF StoreTyped, Texts
    <2>3. Visible' = Visible \/ Visible' = Close(Visible, {work[w].row}, text)
        BY <1>1, <2>1, <2>2 DEF Visible
    <2>4. /\ Keeps(Visible, Visible') /\ DOMAIN Visible' = DOMAIN Visible
          /\ \A r \in DOMAIN Visible : Visible'[r].calls = Visible[r].calls
        <3>1. Keeps(Visible, Close(Visible, {work[w].row}, text)) /\ Closes(Visible, {work[w].row}, Close(Visible, {work[w].row}, text))
            BY <1>1, <2>2, ClosingKeeps, CloseCloses
        <3>2. QED
            BY <2>3, <3>1, KeepsItself DEF Closes
    <2>5. PICK said \in {"", "outcome"} : work' = [work EXCEPT ![w] = Over([work[w] EXCEPT !.said = said])]
        BY <1>1, <2>1
    <2>6. [work[w] EXCEPT !.said = said] \in Items
        BY <1>1, SaidTyped
    <2>7. PICK over \in Items : work' = [work EXCEPT ![w] = over] /\ over.pc = "done"
        BY <2>5, <2>6, OverShape
    <2>8. DOMAIN work' = Ids /\ work'[w].pc = "done" /\ \A v \in Ids \ {w} : work'[v] = work[v]
        BY <1>1, <2>7
    <2>9. Besides({w})
        BY <1>1, <2>4, <2>8 DEF Besides
    <2>10. QED
        BY <2>4, <2>9, BesidesReply
<1>5. QED
    BY <1>2, <1>3, <1>4

\* The chat is let go of: nothing asks the model.
LEMMA NobodyAsks ==
    ASSUME controller' = 0, \A v \in DOMAIN work' : \/ v \in Ids /\ work'[v].pc = work[v].pc /\ work'[v].turn = work[v].turn
                                                   \/ work'[v].pc \notin {"model", "followup"}
    PROVE  RepliesToCome' /\ AsksWithReplies
<1>1. \A v \in DOMAIN work' : ~AsksModel(v)
    BY DEF AsksModel
<1>2. QED
    BY <1>1 DEF RepliesToCome, AsksWithReplies

\* Requests: a new piece of work has called nothing.
LEMMA RequestsReply ==
    ASSUME ChatInv, \/ SendMessage \/ RequestAppStatus \/ RequestBatchDeploy \/ RequestStopApp
                    \/ ReplanEditedBatch \/ (pending # NoCard /\ Dispatch)
    PROVE  RepliesToCome' /\ AsksWithReplies
<1>1. StoreTyped /\ RowsTyped(Visible) /\ \A r \in DOMAIN Visible : r[1] # NewWork
    BY VisibleTyped, FreshRows DEF ChatInv
<1>2. ASSUME NEW kind \in Kinds, NEW pc \in Stages
      PROVE  Started(kind, pc) \in Items /\ Started(kind, pc).pc = pc
    BY <1>1, StartedShape
<1>3. /\ {"chat", "status", "batch", "stop", "replan", "confirm"} \subseteq Kinds
      /\ {"model", "query", "plan", "done", "replan", "execute"} \subseteq Stages
    BY DEF Kinds, Stages
<1>4. CASE SendMessage
    <2> DEFINE start == Started("chat", "model")
               item == [start EXCEPT !.payload = payload]
               rows == Close(Visible, {pending.row}, "unsubmitted")
               r == <<NewWork, 1, 0>>
               shown == Add(rows, r, Spinning(0))
    <2>1. Begin(item, shown) /\ wallet' = wallet
        BY <1>4 DEF SendMessage, NewWork
    <2>2. start \in Items /\ start.pc = "model" /\ payload \in Nat
        BY <1>1, <1>2, <1>3 DEF StoreTyped
    <2> HIDE DEF start
    <2>3. item \in Items /\ item.pc = "model"
        BY <2>2 DEF Items
    <2> HIDE DEF item
    <2>4. RowsTyped(rows) /\ DOMAIN rows = DOMAIN Visible
        BY ClosingKeeps DEF Texts
    <2> HIDE DEF rows
    <2>5. r \notin DOMAIN rows
        BY <1>1, <2>4
    <2> HIDE DEF r
    <2>6. Appends(rows, r, shown)
        BY <2>4, <2>5, AddAppends
    <2> HIDE DEF shown
    <2>7. \A g \in DOMAIN shown : g[1] = NewWork => shown[g].calls = 0
        BY <1>1, <2>4, <2>6 DEF Appends
    <2>8. QED
        BY <2>1, <2>3, <2>7, BeginReplies
<1>5. CASE RequestAppStatus \/ RequestBatchDeploy
    <2>1. PICK item \in Items : item.pc \in {"query", "plan"} /\ \E rows : Begin(item, rows)
        BY <1>2, <1>3, <1>5 DEF RequestAppStatus, RequestBatchDeploy
    <2>2. wallet' = wallet /\ ~Turning(item)
        BY <1>5, <2>1 DEF RequestAppStatus, RequestBatchDeploy, Turning
    <2>3. QED
        BY <2>1, <2>2, BeginReplies
<1>6. CASE RequestStopApp
    <2> DEFINE item == Over(Started("stop", "done"))
    <2>1. work' = Append(work, item) /\ controller' = controller /\ ~streaming
        BY <1>6 DEF RequestStopApp
    <2>2. item \in Items /\ item.pc = "done"
        BY <1>2, <1>3, OverShape
    <2> HIDE DEF item
    <2>3. controller' = 0
        BY <2>1 DEF ChatInv, Authority, OwnerActs
    <2>4. /\ DOMAIN work' = Ids \cup {NewWork} /\ work'[NewWork].pc = "done"
          /\ \A v \in Ids : work'[v] = work[v]
        <3>1. /\ work' \in Seq(Items) /\ Len(work') = Len(work) + 1 /\ Ids' = Ids \cup {NewWork}
              /\ work'[NewWork] = item /\ \A v \in Ids : work'[v] = work[v]
            BY <1>1, <2>1, <2>2, Appended DEF NewWork
        <3>2. QED
            BY <2>2, <3>1 DEF Ids
    <2>5. QED
        BY <2>3, <2>4, NobodyAsks
<1>7. CASE ReplanEditedBatch
    <2> DEFINE start == Started("replan", "replan")
               item == [start EXCEPT !.row = pending.row]
    <2>1. Begin(item, Visible) /\ pending # NoCard /\ wallet' = wallet
        BY <1>7 DEF ReplanEditedBatch
    <2>2. start \in Items /\ start.pc = "replan" /\ pending.row \in RowIds
        BY <1>1, <1>2, <1>3, <2>1 DEF StoreTyped, Cards
    <2> HIDE DEF start
    <2>3. item \in Items /\ item.pc = "replan"
        BY <2>2 DEF Items
    <2> HIDE DEF item
    <2>4. ~Turning(item)
        BY <2>3 DEF Turning
    <2>5. QED
        BY <2>1, <2>3, <2>4, BeginReplies
<1>8. CASE pending # NoCard /\ Dispatch
    <2> DEFINE start == Started("confirm", "execute")
               approved == [start EXCEPT !.wallet = pending.wallet, !.gen = pending.gen]
               item == [approved EXCEPT !.row = pending.row, !.payload = pending.payload]
               rows == [Visible EXCEPT ![pending.row].st = "inflight"]
    <2>1. Begin(item, rows) /\ wallet' = wallet
        BY <1>8 DEF Dispatch
    <2> HIDE DEF rows
    <2>2. /\ pending.wallet \in Addresses /\ pending.gen \in Nat /\ pending.row \in RowIds /\ pending.payload \in Nat
        BY <1>1, <1>8 DEF StoreTyped, Cards
    <2>3. start \in Items /\ start.pc = "execute"
        BY <1>2, <1>3
    <2> HIDE DEF start
    <2>4. approved \in Items /\ approved.pc = "execute"
        BY <2>2, <2>3 DEF Items
    <2> HIDE DEF approved
    <2>5. item \in Items /\ item.pc = "execute"
        BY <2>2, <2>4 DEF Items
    <2> HIDE DEF item
    <2>6. ~Turning(item)
        BY <2>5 DEF Turning
    <2>7. QED
        BY <2>1, <2>5, <2>6, BeginReplies
<1>9. QED
    BY <1>4, <1>5, <1>6, <1>7, <1>8

\* Cards that are closed, a change of wallet, and what shows nothing.
LEMMA OthersReply ==
    ASSUME ChatInv, RepliesToCome,
           \/ CancelAction \/ ConfirmationTimeout \/ RefuseStaleCard \/ Stop \/ ClearHistory \/ BeginAttach \/ EndAttach
           \/ UNCHANGED vars
           \/ \E address \in Wallets \cup {NoWallet}, client \in BOOLEAN : SetWalletContext(address, client)
    PROVE  RepliesToCome' /\ AsksWithReplies
<1>1. StoreTyped /\ DOMAIN work = Ids /\ RowsTyped(Visible)
    BY VisibleTyped DEF ChatInv, StoreTyped, Ids
<1>2. CASE CancelAction \/ ConfirmationTimeout \/ RefuseStaleCard
    <2> DEFINE rows == Close(Visible, {pending.row}, "unsubmitted")
    <2>1. Show(rows) /\ UNCHANGED <<wallet, controller, work>>
        BY <1>2 DEF CancelAction, ConfirmationTimeout, RefuseStaleCard, CloseCard
    <2>2. Keeps(Visible, rows) /\ Closes(Visible, {pending.row}, rows)
        BY <1>1, ClosingKeeps, CloseCloses DEF Texts
    <2> HIDE DEF rows
    <2>3. Visible' = rows
        BY <1>1, <2>1, VisibleTyped DEF Show, Visible, StoreTyped
    <2>4. PICK none : none = {}
        OBVIOUS
    <2>5. Besides(none)
        BY <1>1, <2>1, <2>2, <2>3, <2>4 DEF Besides, Closes
    <2>6. \A r \in DOMAIN Visible : Visible'[r].calls = Visible[r].calls
        BY <2>2, <2>3 DEF Closes
    <2>7. QED
        BY <2>2, <2>3, <2>4, <2>5, <2>6, BesidesReply
<1>3. CASE Stop
    <2>1. work' = Aborted /\ UNCHANGED <<wallet, controller, transcript>>
        BY <1>3 DEF Stop
    <2>2. /\ Len(work') = Len(work) /\ work' \in Seq(Items)
          /\ \A v \in Ids : /\ work'[v].pc = work[v].pc /\ work'[v].turn = work[v].turn /\ work'[v].at = work[v].at
                            /\ work'[v].calls = work[v].calls /\ work'[v].collected = work[v].collected
        BY <1>1, <2>1, AbortedShape
    <2>3. DOMAIN work' = Ids
        BY <2>2 DEF Ids
    <2>4. Visible' = Visible
        BY <2>1 DEF Visible
    <2>5. QED
        BY <1>1, <2>1, <2>2, <2>3, <2>4, WorkShape, KeepsItself, BesideReplies
<1>4. CASE ClearHistory \/ \E address \in Wallets \cup {NoWallet}, client \in BOOLEAN : SetWalletContext(address, client)
    <2>1. work' = Aborted /\ controller' = 0
        BY <1>4 DEF ClearHistory, SetWalletContext
    <2>2. /\ Len(work') = Len(work) /\ work' \in Seq(Items)
          /\ \A v \in Ids : work'[v].pc = work[v].pc /\ work'[v].turn = work[v].turn
        BY <1>1, <2>1, AbortedShape
    <2>3. DOMAIN work' = Ids
        BY <2>2 DEF Ids
    <2>4. QED
        BY <2>1, <2>2, <2>3, NobodyAsks
<1>5. CASE BeginAttach \/ EndAttach \/ UNCHANGED vars
    <2>1. UNCHANGED <<wallet, controller, work, transcript>>
        BY <1>5 DEF BeginAttach, EndAttach, vars
    <2>2. Visible' = Visible /\ DOMAIN work' = Ids
        BY <1>1, <2>1 DEF Visible
    <2>3. QED
        BY <2>1, <2>2, KeepsItself, BesideReplies
<1>6. QED
    BY <1>2, <1>3, <1>4, <1>5

LEMMA StepsReply == ChatInv /\ RowsToCome /\ RepliesToCome /\ [Next]_vars => RepliesToCome' /\ AsksWithReplies
<1> SUFFICES ASSUME ChatInv, RowsToCome, RepliesToCome, [Next]_vars PROVE RepliesToCome' /\ AsksWithReplies
    OBVIOUS
<1>1. ASSUME NEW w \in Ids, Continues(w) PROVE RepliesToCome' /\ AsksWithReplies
    BY <1>1, EndingsReply, CallsReply, ModelCallsReply, MergeFailsReplies, ReturnsReply, AsidesReply DEF Continues
<1>2. CASE UserActs
    BY <1>2, RequestsReply, OthersReply DEF UserActs, ConfirmAction
<1>3. QED
    BY <1>1, <1>2, OthersReply DEF Next

(* Within a turn the calls it made all have their reply when the model is   *)
(* asked again: calls that reported, calls that were collected for a        *)
(* confirmation, and drafts of a batch that could not be planned            *)
(* (processToolCallsFn, coalesceConfirmations,                              *)
(* mergeBatchDeployConfirmations).                                          *)
THEOREM CallsGetReplies == Spec => OwnCallsAnswered
<1>1. Init => RowsToCome /\ RepliesToCome
    BY DEF Init, RowsToCome, RepliesToCome
<1>2. ChatInv /\ RowsToCome /\ RepliesToCome /\ [Next]_vars => AsksWithReplies /\ RowsToCome' /\ RepliesToCome'
    BY StepsKeep, StepsReply
<1>3. AsksWithReplies <=> \A w \in DOMAIN work' : AsksModel(w) =>
                            \A g \in DOMAIN Visible' : g[1] = w => Answered(Visible', g)
    BY DEF AsksWithReplies
<1>4. QED
    BY <1>1, <1>2, <1>3, ChatIsSound, PTL DEF Spec, OwnCallsAnswered
=============================================================================
