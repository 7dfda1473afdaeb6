------------------------- MODULE AuctionHouseProofs -------------------------
(***************************************************************************)
(* Proofs about AuctionHouse, for any number of players, teams, picks,     *)
(* auctions, bids and ticks: the types and the releases first, then who    *)
(* can pay for what he leads or has won, with a pick and with cap room,    *)
(* and that the pool is released fairly.                                   *)
(***************************************************************************)
EXTENDS AuctionHouse, SumProofs, FiniteSetTheorems, SequenceTheorems, TLAPS

\* Ticks come one after the other, as the scheduler's schedule means them to.
TicksInTurn == \A s \in Settings : ~s.overlap

-----------------------------------------------------------------------------
(* The rows of the contract table *)

LEMMA MaxOfTwo ==
  ASSUME NEW m \in Int, NEW n \in Int
  PROVE  Max({m, n}) \in {m, n} /\ Max({m, n}) >= m /\ Max({m, n}) >= n
<1> DEFINE Tops(x) == x \in {m, n} /\ \A y \in {m, n} : x >= y
<1>1. \E x : Tops(x)
  BY m >= n \/ n >= m
<1>2. Max({m, n}) = CHOOSE x : Tops(x)
  BY DEF Max
<1> HIDE DEF Tops
<1>3. Tops(Max({m, n}))
  BY <1>1, <1>2
<1> QED BY <1>3 DEF Tops

LEMMA MinIn ==
  ASSUME NEW m \in Int, NEW n \in Int
  PROVE  Min({m, n}) \in {m, n}
<1> DEFINE Bottom(x) == x \in {m, n} /\ \A y \in {m, n} : x <= y
<1>1. \E x : Bottom(x)
  BY m <= n \/ n <= m
<1>2. Min({m, n}) = CHOOSE x : Bottom(x)
  BY DEF Min
<1> HIDE DEF Bottom
<1>3. Bottom(Min({m, n}))
  BY <1>1, <1>2
<1> QED BY <1>3 DEF Bottom

LEMMA DiscountIsPaid ==
  ASSUME NEW bid \in Nat, NEW percent \in {10, 20}, NEW cap \in Nat
  PROVE  Discounted(bid, percent, cap) \in Nat \ {0}
<1> DEFINE share == Percent(bid, percent)
           off == Min({share, cap})
<1>1. share \in Int
  BY DEF Percent
<1> HIDE DEF share
<1>2. off \in Int
  BY <1>1, MinIn
<1> HIDE DEF off
<1>3. Max({bid - off, 1}) \in Nat \ {0}
  BY <1>2, MaxOfTwo
<1> QED BY <1>3 DEF Discounted, off, share

\* The rows that may come after a row in its chain.
RowsAfter(c) == {next \in Row : next.prev = c.id}

LEMMA NextRow ==
  ASSUME NEW c \in Row
  PROVE  After(c) \in RowsAfter(c)
BY DEF After, Row, RowsAfter

\* Its columns may be set.
LEMMA ColumnsSet ==
  ASSUME NEW c, NEW next \in RowsAfter(c), NEW kind \in Kinds, NEW year \in Nat, NEW salary \in Nat \ {0},
         NEW team \in Teams \cup {Unset}, NEW ir \in BOOLEAN, NEW status \in Statuses
  PROVE  /\ [next EXCEPT !.kind = kind, !.year = year, !.salary = salary, !.team = team] \in RowsAfter(c)
         /\ [next EXCEPT !.kind = kind, !.year = year, !.ir = ir, !.salary = salary, !.team = team]
              \in RowsAfter(c)
         /\ [next EXCEPT !.kind = kind, !.year = year, !.ir = ir, !.salary = salary, !.status = status,
                         !.team = team] \in RowsAfter(c)
<1>1. next \in Row /\ next.prev = c.id
  BY DEF RowsAfter
<1>2. [next EXCEPT !.kind = kind, !.year = year, !.salary = salary, !.team = team] \in RowsAfter(c)
  BY <1>1 DEF Row, RowsAfter
<1>3. [next EXCEPT !.kind = kind, !.year = year, !.ir = ir, !.salary = salary, !.team = team]
        \in RowsAfter(c)
  BY <1>1 DEF Row, RowsAfter
<1>4. [next EXCEPT !.kind = kind, !.year = year, !.ir = ir, !.salary = salary, !.status = status,
                   !.team = team] \in RowsAfter(c)
  BY <1>1 DEF Row, RowsAfter
<1> QED BY <1>2, <1>3, <1>4

\* A signing makes a row of a row.
LEMMA SigningMakesRows ==
  ASSUME NEW c \in Row, NEW team \in Teams, NEW amount \in Nat \ {0}, NEW exception
  PROVE  /\ SignedFreeAgent(c, team, amount, exception) \subseteq RowsAfter(c)
         /\ SignedAtAuction(c, team, amount, exception) \subseteq RowsAfter(c)
<1> DEFINE next == After(c)
           as(kind, year, salary) ==
             {[next EXCEPT !.kind = kind, !.year = year, !.salary = salary, !.team = team]}
           off10 == Discounted(amount, 10, NoCap)
<1>1. next \in RowsAfter(c)
  BY NextRow
<1> HIDE DEF next
<1>2. ASSUME NEW kind \in {"Veteran", "RookieExtension"}, NEW year \in {1, 4}, NEW salary \in Nat \ {0}
      PROVE  as(kind, year, salary) \subseteq RowsAfter(c)
  <2>1. kind \in Kinds /\ year \in Nat /\ team \in Teams \cup {Unset}
    BY DEF Kinds, CountedKinds
  <2>2. [next EXCEPT !.kind = kind, !.year = year, !.salary = salary, !.team = team] \in RowsAfter(c)
    BY <1>1, <2>1, ColumnsSet, "Active" \in Statuses DEF Statuses
  <2> QED BY <2>2
<1>3. /\ off10 \in Nat \ {0}
      /\ Discounted(amount, 20, 8) \in Nat \ {0} /\ Discounted(amount, 10, 5) \in Nat \ {0}
  <2>1. NoCap \in Nat /\ 8 \in Nat /\ 5 \in Nat /\ amount \in Nat
    BY DEF NoCap
  <2> QED BY <2>1, DiscountIsPaid, Zenon
<1>4. c.salary \in Nat \ {0}
  BY DEF Row
<1>5. (IF exception = "Held" THEN Max({off10, c.salary}) ELSE off10) \in Nat \ {0}
  <2> DEFINE before == c.salary
  <2> HIDE DEF off10, before
  <2>1. off10 \in Int /\ before \in Int
    BY <1>3, <1>4 DEF before
  <2>2. Max({off10, before}) \in {off10, before}
    BY <2>1, MaxOfTwo
  <2> QED BY <2>2, <1>3, <1>4 DEF before
<1> HIDE DEF as, off10
<1>6. SignedFreeAgent(c, team, amount, exception) \subseteq RowsAfter(c)
  <2>1. SignedFreeAgent(c, team, amount, exception) \in
          {as("Veteran", 1, amount), {}, as("Veteran", 1, Discounted(amount, 20, 8)),
           as("RookieExtension", 4, IF exception = "Held" THEN Max({off10, c.salary}) ELSE off10),
           as("Veteran", 1, Discounted(amount, 10, 5))}
    BY DEF SignedFreeAgent, ExpiringKinds, as, off10, next
  <2> QED BY <2>1, <1>2, <1>3, <1>5
<1>7. SignedVeteran(c, team, amount) \subseteq RowsAfter(c)
  <2>1. "Veteran" \in Kinds
    BY DEF Kinds, CountedKinds
  <2>2. [next EXCEPT !.kind = "Veteran", !.year = 1, !.ir = FALSE, !.salary = amount, !.team = team]
          \in RowsAfter(c)
    BY <1>1, <2>1, ColumnsSet, "Active" \in Statuses DEF Statuses
  <2> QED BY <2>2 DEF SignedVeteran, Provided, next
<1> QED BY <1>6, <1>7 DEF SignedAtAuction

LEMMA ExpiryMakesRows ==
  ASSUME NEW c \in Row
  PROVE  ExpiredRow(c) \subseteq RowsAfter(c)
<1> DEFINE next == After(c)
<1>1. next \in RowsAfter(c) /\ "FreeAgent" \in Kinds /\ "Expired" \in Statuses
  BY NextRow DEF Kinds, Statuses
<1> HIDE DEF next
<1>2. [next EXCEPT !.kind = "FreeAgent", !.year = 1, !.ir = FALSE, !.salary = 1,
                   !.status = "Expired", !.team = Unset] \in RowsAfter(c)
  <2>1. 1 \in Nat /\ 1 \in Nat \ {0} /\ FALSE \in BOOLEAN /\ Unset \in Teams \cup {Unset}
    OBVIOUS
  <2> QED BY <1>1, <2>1, ColumnsSet, Zenon
<1> QED BY <1>2 DEF ExpiredRow, Provided, next

\* The ids of rows are their places, and the row before one is there.
Ordered(tbl) ==
  /\ tbl \in Seq(Row)
  /\ \A i \in DOMAIN tbl : tbl[i].id = i /\ tbl[i].prev \in DOMAIN tbl \cup {Unset}

\* The table grows by rows and no row changes its player.
Grows(tbl, next) ==
  /\ Ordered(next)
  /\ \A i \in DOMAIN tbl : i \in DOMAIN next /\ next[i].player = tbl[i].player

LEMMA ReplaceGrows ==
  ASSUME NEW tbl, Ordered(tbl), NEW i \in DOMAIN tbl, NEW new \in RowsAfter(tbl[i])
  PROVE  Grows(tbl, Replace(tbl, tbl[i], new))
<1> DEFINE marked == [tbl EXCEPT ![i].status = "Replaced"]
           last == [new EXCEPT !.id = Len(tbl) + 1]
<1>0. tbl \in Seq(Row)
  BY DEF Ordered
<1>1. tbl[i].id = i /\ tbl[i] \in Row
  BY <1>0 DEF Ordered
<1>a. [tbl[i] EXCEPT !.status = "Replaced"] \in Row
  BY <1>1 DEF Row, Statuses
<1>2. marked \in Seq(Row) /\ Len(marked) = Len(tbl)
  BY <1>0, <1>a
<1>3. \A k \in DOMAIN tbl : /\ marked[k].id = k /\ marked[k].player = tbl[k].player
                           /\ marked[k].prev \in DOMAIN tbl \cup {Unset}
  <2> TAKE k \in DOMAIN tbl
  <2>1. tbl[k] \in Row /\ tbl[k].id = k /\ tbl[k].prev \in DOMAIN tbl \cup {Unset}
    BY <1>0 DEF Ordered
  <2> QED BY <1>0, <2>1 DEF Row
<1>4. last \in Row /\ last.id = Len(tbl) + 1 /\ last.prev \in DOMAIN tbl
  <2>1. Len(tbl) + 1 \in Nat /\ new \in Row /\ new.prev = i
    BY <1>0, <1>1 DEF RowsAfter
  <2> QED BY <2>1 DEF Row
<1>5. Replace(tbl, tbl[i], new) = Append(marked, last)
  BY <1>1 DEF Replace
<1> HIDE DEF marked, last
<1>6. Append(marked, last) \in Seq(Row) /\ DOMAIN Append(marked, last) = 1..Len(tbl) + 1
  BY <1>2, <1>4
<1>7. DOMAIN tbl = 1..Len(tbl) /\ Len(tbl) \in Nat
  BY <1>0
<1>8. \A k \in 1..Len(tbl) : Append(marked, last)[k] = marked[k]
  BY <1>2, <1>4, <1>7
<1>9. Append(marked, last)[Len(tbl) + 1] = last
  BY <1>2, <1>4
<1>10. ASSUME NEW k \in 1..Len(tbl) + 1
       PROVE  /\ Append(marked, last)[k].id = k
              /\ Append(marked, last)[k].prev \in (1..Len(tbl) + 1) \cup {Unset}
  <2>1. CASE k \in 1..Len(tbl)
    <3>1. marked[k].id = k /\ marked[k].prev \in (1..Len(tbl)) \cup {Unset}
      BY <2>1, <1>3, <1>7
    <3>2. Append(marked, last)[k] = marked[k]
      BY <2>1, <1>8
    <3>3. 1..Len(tbl) \subseteq 1..Len(tbl) + 1
      BY <1>7
    <3> QED BY <3>1, <3>2, <3>3
  <2>2. CASE k = Len(tbl) + 1
    <3>1. last.prev \in 1..Len(tbl)
      BY <1>4, <1>7
    <3> QED BY <2>2, <3>1, <1>4, <1>7, <1>9
  <2>3. k \in 1..Len(tbl) \/ k = Len(tbl) + 1
    BY <1>7
  <2> QED BY <2>1, <2>2, <2>3
<1> QED BY <1>3, <1>5, <1>6, <1>7, <1>8, <1>10 DEF Grows, Ordered

LEMMA CreatedGrows ==
  ASSUME Ordered(table), NEW players \in SUBSET Players
  PROVE  /\ Grows(table, Created(players))
         /\ \A i \in DOMAIN table : Created(players)[i] = table[i]
         /\ \A i \in DOMAIN Created(players) : i \in DOMAIN table \/ Created(players)[i].team = Unset
<1> DEFINE fresh == {p \in players : LiveOf(p) = {}}
           new == SetToSeq(fresh)
           added == [i \in DOMAIN new |-> UpForAuction(Len(table) + i, new[i], Season)]
<1>0. table \in Seq(Row) /\ Len(table) \in Nat /\ DOMAIN table = 1..Len(table)
  BY DEF Ordered
<1>1. IsFiniteSet(fresh)
  BY PoolConstants, FS_Subset
<1>2. Cardinality(fresh) \in Nat /\ ExistsBijection(1..Cardinality(fresh), fresh)
  BY <1>1, FS_CardinalityType
<1>3. \E f \in [1..Cardinality(fresh) -> fresh] : IsInjective(f)
  BY <1>2 DEF ExistsBijection, Bijection, Injection, Surjection, IsInjective
<1>4. new \in [1..Cardinality(fresh) -> fresh]
  <2> HIDE DEF fresh
  <2> QED BY <1>3 DEF SetToSeq
<1>5. added \in Seq(Row) /\ Len(added) = Cardinality(fresh)
  <2>1. ASSUME NEW id \in Nat, NEW p \in Players
        PROVE  UpForAuction(id, p, Season) \in Row
    BY HouseConstants DEF UpForAuction, FirstRow, Row, People, Kinds, Statuses
  <2>2. fresh \subseteq Players
    OBVIOUS
  <2> HIDE DEF fresh, new
  <2>3. \A i \in 1..Cardinality(fresh) : UpForAuction(Len(table) + i, new[i], Season) \in Row
    BY <2>1, <2>2, <1>0, <1>2, <1>4
  <2>4. added \in [1..Cardinality(fresh) -> Row]
    BY <2>3, <1>4
  <2> HIDE DEF added
  <2> QED BY <2>4, <1>2
<1>6. \A i \in DOMAIN added : added[i].id = Len(table) + i /\ added[i].prev = Unset /\ added[i].team = Unset
  BY DEF UpForAuction, FirstRow
<1> HIDE DEF fresh, new, added
<1>7. DOMAIN (table \o added) = 1..Len(table) + Len(added) /\ table \o added \in Seq(Row)
  BY <1>0, <1>2, <1>5
<1>8. \A i \in DOMAIN table : i \in DOMAIN (table \o added) /\ (table \o added)[i] = table[i]
  BY <1>0, <1>2, <1>5
<1>9. ASSUME NEW i \in DOMAIN (table \o added)
      PROVE  /\ (table \o added)[i].id = i
             /\ (table \o added)[i].prev \in DOMAIN (table \o added) \cup {Unset}
  <2>1. CASE i <= Len(table)
    <3>1. i \in DOMAIN table
      BY <2>1, <1>0, <1>2, <1>5, <1>7
    <3> QED BY <3>1, <1>8 DEF Ordered
  <2>2. CASE i > Len(table)
    BY <2>2, <1>0, <1>2, <1>5, <1>6, <1>7
  <2> QED BY <2>1, <2>2, <1>7, <1>0, <1>2, <1>5
<1>10. \A i \in DOMAIN (table \o added) : i \in DOMAIN table \/ (table \o added)[i].team = Unset
  BY <1>0, <1>2, <1>5, <1>6, <1>7
<1>11. Created(players) = table \o added
  BY DEF Created, fresh, new, added
<1>12. Grows(table, table \o added)
  BY <1>7, <1>8, <1>9 DEF Grows, Ordered
<1> QED BY <1>8, <1>10, <1>11, <1>12

-----------------------------------------------------------------------------
(* The inductive invariant, part by part *)

Naming == [pick : Picks, from : Teams, round : 1..5]
BidRequest ==
  [at : {"writing"}, auction : Nat, team : Teams, amount : Nat \ {0}, pick : Picks \cup {Unset}]

ConfigTyped ==
  /\ setting \in Settings
  /\ tiers \in Seq(Nat \ {0}) /\ ranking \in Seq(Players)
  /\ config.at \in {"idle", "checked"}
  /\ config.at = "checked" => config.entry \in Entry /\ edits < setting.edits
  /\ day \in 0..LastDay /\ edits \in 0..setting.edits /\ deaths \in 0..setting.deaths
ScheduleTyped ==
  /\ schedule \in Seq(Slot)
  /\ \A i, j \in DOMAIN schedule : schedule[i].player = schedule[j].player => i = j
AuctionsTyped ==
  /\ auctions \in Seq(Auction)
  /\ \A a \in DOMAIN auctions : auctions[a].contract \in DOMAIN table
ToInsert(new) == new \in Auction /\ new.lead = NoLead /\ new.contract \in DOMAIN table
TicksTyped ==
  /\ DOMAIN tick = Ticks
  /\ \A t \in Ticks :
       /\ tick[t].at \in {"idle", "opening", "inserting"}
       /\ tick[t].at # "idle" => tick[t].slots \subseteq DOMAIN schedule
       /\ tick[t].at = "inserting" => ToInsert(tick[t].auction)
RfaTyped ==
  /\ DOMAIN resolutions \subseteq DOMAIN table
  /\ \A id \in DOMAIN resolutions : resolutions[id] \in Resolution
  /\ DOMAIN naming \subseteq DOMAIN resolutions
  /\ \A id \in DOMAIN naming : naming[id] \in Naming
  /\ holder \in [Picks -> Teams]
RequestsTyped ==
  /\ DOMAIN request = Requests
  /\ \A r \in Requests :
       request[r] # Idle =>
         /\ request[r] \in BidRequest /\ request[r].auction \in DOMAIN auctions
         /\ request[r].pick # Unset => auctions[request[r].auction].contract \in DOMAIN resolutions
Typed ==
  /\ ConfigTyped /\ Ordered(table) /\ ScheduleTyped
  /\ AuctionsTyped /\ TicksTyped /\ RfaTyped /\ RequestsTyped

\* Whatever has left its auction has had one, with a winner and his price.
Won(id) ==
  /\ resolutions[id].winner \in Teams /\ resolutions[id].final > 0
  /\ \E a \in DOMAIN auctions : auctions[a].contract = id
Auctioned == \A id \in DOMAIN resolutions : resolutions[id].status # "AwaitingAuction" => Won(id)

\* One tick runs at a time, and what it is about to insert is for a player without an auction.
OneTick == \A t, u \in Ticks : tick[t].at # "idle" /\ tick[u].at # "idle" => t = u
Looked ==
  \A t \in Ticks : tick[t].at = "inserting" => ~Opened(table[tick[t].auction.contract].player)
Apart == OneTick /\ Looked /\ PutUpOnce

Safe == Typed /\ Auctioned /\ (TicksInTurn => Apart)

LEMMA SafeInit ==
  Init => Safe
<1> SUFFICES ASSUME Init
             PROVE  Safe
  OBVIOUS
<1> USE DEF Init, PoolInit
<1>1. setting \in Settings
  OBVIOUS
<1>2. Ordered(table)
  BY <1>1, PoolConstants, HouseConstants DEF Ordered
<1>3. AuctionsTyped
  BY <1>1, HouseConstants DEF AuctionsTyped
<1>4. ConfigTyped
  BY <1>1, PoolConstants DEF ConfigTyped, Idle
<1>5. RfaTyped
  BY <1>1, HouseConstants DEF RfaTyped
<1>6. RequestsTyped
  BY DEF RequestsTyped
<1>7. ScheduleTyped /\ TicksTyped /\ OneTick /\ Looked
  BY DEF ScheduleTyped, TicksTyped, OneTick, Looked, Idle
<1>8. Auctioned
  BY <1>1, HouseConstants DEF Auctioned
<1>9. PutUpOnce
  BY <1>1, HouseConstants DEF PutUpOnce
<1> QED BY <1>2, <1>3, <1>4, <1>5, <1>6, <1>7, <1>8, <1>9 DEF Safe, Typed, Apart

-----------------------------------------------------------------------------
(* What a step does to the table, the auctions and the ticks *)

SameAuctions ==
  /\ DOMAIN auctions' = DOMAIN auctions
  /\ \A a \in DOMAIN auctions : auctions'[a].contract = auctions[a].contract

LEMMA Unchanging ==
  /\ Ordered(table) /\ UNCHANGED table => Grows(table, table')
  /\ UNCHANGED auctions => SameAuctions
BY DEF Grows, SameAuctions

\* Rows may be added as long as auctions stay for the contracts they are for.
LEMMA StaysUpOnce ==
  ASSUME Typed, Grows(table, table'), SameAuctions
  PROVE  /\ Ordered(table)'
         /\ \A a \in DOMAIN auctions' : auctions'[a].contract \in DOMAIN table'
         /\ PutUpOnce => PutUpOnce'
         /\ \A p : Opened(p)' <=> Opened(p)
<1>1. \A a \in DOMAIN auctions : auctions[a].contract \in DOMAIN table
  BY DEF Typed, AuctionsTyped
<1>2. \A a \in DOMAIN auctions :
        table'[auctions'[a].contract].player = table[auctions[a].contract].player
  BY <1>1 DEF Grows, SameAuctions
<1>3. Ordered(table)'
  BY DEF Grows, Ordered
<1>4. PutUpOnce => PutUpOnce'
  BY <1>2 DEF PutUpOnce, SameAuctions
<1>5. \A p : Opened(p)' <=> Opened(p)
  BY <1>2 DEF Opened, SameAuctions
<1>6. \A a \in DOMAIN auctions' : auctions'[a].contract \in DOMAIN table'
  BY <1>1 DEF Grows, SameAuctions
<1> QED BY <1>3, <1>4, <1>5, <1>6

\* And the ticks stay as they are, as long as none of them moves.
LEMMA TicksKept ==
  ASSUME Typed, Grows(table, table'), SameAuctions, UNCHANGED tick,
         DOMAIN schedule \subseteq DOMAIN schedule'
  PROVE  TicksTyped' /\ (OneTick => OneTick') /\ (Looked => Looked')
<1>1. OneTick => OneTick'
  BY DEF OneTick
<1>2. ASSUME NEW t \in Ticks, tick[t].at = "inserting", NEW new, new = tick[t].auction
      PROVE  /\ ToInsert(new)'
             /\ table'[new.contract].player = table[new.contract].player
  BY <1>2 DEF Typed, TicksTyped, ToInsert, Grows
<1>3. TicksTyped'
  <2>1. \A t \in Ticks : tick[t].at # "idle" => tick[t].slots \subseteq DOMAIN schedule'
    BY DEF Typed, TicksTyped
  <2>2. \A t \in Ticks : tick[t].at = "inserting" => ToInsert(tick[t].auction)'
    BY <1>2
  <2> QED BY <2>1, <2>2 DEF Typed, TicksTyped
<1>4. ASSUME Looked, NEW t \in Ticks, tick[t].at = "inserting"
      PROVE  ~Opened(table[tick[t].auction.contract].player)'
  <2>1. ~Opened(table[tick[t].auction.contract].player)
    BY <1>4 DEF Looked
  <2> QED BY <2>1, <1>2, <1>4, StaysUpOnce
<1> QED BY <1>1, <1>3, <1>4 DEF Looked

LEMMA ApartKept ==
  ASSUME Safe, Grows(table, table'), SameAuctions, UNCHANGED tick,
         DOMAIN schedule \subseteq DOMAIN schedule'
  PROVE  TicksTyped' /\ (TicksInTurn => Apart')
BY TicksKept, StaysUpOnce DEF Safe, Apart

LEMMA AuctionedKept ==
  ASSUME Safe, SameAuctions, UNCHANGED resolutions
  PROVE  Auctioned'
BY DEF Safe, Auctioned, SameAuctions, Won

LEMMA SettleKeeps ==
  ASSUME Typed, NEW a \in DOMAIN auctions, NEW status \in {"Expired", "Completed"},
         NEW row, row \subseteq RowsAfter(table[auctions[a].contract]), Settle(a, status, row)
  PROVE  Grows(table, table') /\ SameAuctions /\ auctions' \in Seq(Auction)
<1>1. Ordered(table) /\ auctions[a].contract \in DOMAIN table
  BY DEF Typed, AuctionsTyped
<1>2. PICK new \in row : table' = Replace(table, table[auctions[a].contract], new)
  BY DEF Settle
<1>3. Grows(table, table')
  BY <1>1, <1>2, ReplaceGrows
<1>4. auctions' = [auctions EXCEPT ![a].status = status] /\ auctions \in Seq(Auction)
  BY DEF Settle, Typed, AuctionsTyped
<1>5. \A b \in DOMAIN auctions : auctions[b] \in Auction
  BY <1>4
<1>6. [auctions[a] EXCEPT !.status = status] \in Auction
  BY <1>5 DEF Auction
<1>7. auctions' \in Seq(Auction)
  BY <1>4, <1>6
<1>8. SameAuctions
  BY <1>4, <1>5 DEF SameAuctions, Auction
<1> QED BY <1>3, <1>7, <1>8

-----------------------------------------------------------------------------
(* The schedule *)

LEMMA QuotientInNat ==
  ASSUME NEW x \in Nat, NEW d \in Nat \ {0}
  PROVE  x \div d \in Nat
OBVIOUS

LEMMA ProductInNat ==
  ASSUME NEW x \in Nat, NEW y \in Nat
  PROVE  x * y \in Nat
OBVIOUS

LEMMA RankInNat ==
  ASSUME ranking \in Seq(Players), NEW p
  PROVE  Rank(p) \in Nat
BY DEF Rank, Ranked

LEMMA TierSlotInNat ==
  ASSUME tiers \in Seq(Nat \ {0}), tiers # <<>>, NEW position \in Nat, NEW count \in Nat \ {0}
  PROVE  TierSlot(position, count) \in Nat
<1> DEFINE share == (position * Len(tiers)) \div count
           bottom == Len(tiers) - 1
<1>1. share \in Nat
  BY ProductInNat, QuotientInNat
<1>2. bottom \in Nat
  OBVIOUS
<1> HIDE DEF share, bottom
<1>3. Min({share, bottom}) \in {share, bottom}
  BY <1>1, <1>2, MinIn
<1> QED BY <1>1, <1>2, <1>3 DEF TierSlot, share, bottom

LEMMA FiniteOrders ==
  ASSUME NEW S \in SUBSET Players, NEW order \in SetToSeqs(S)
  PROVE  /\ order \in Seq(S) /\ Len(order) \in Nat
         /\ \A i, j \in DOMAIN order : order[i] = order[j] => i = j
<1>1. Cardinality(S) \in Nat
  BY PoolConstants, FS_Subset, FS_CardinalityType
<1>2. order \in [1..Cardinality(S) -> S]
      /\ \A i, j \in 1..Cardinality(S) : i # j => order[i] # order[j]
  BY DEF SetToSeqs
<1> QED BY <1>1, <1>2

\* Slots one after the other, for other players.
NoneTwice(slots) == \A i, j \in DOMAIN slots : slots[i].player = slots[j].player => i = j

LEMMA TwoParts ==
  ASSUME NEW A \in Seq(Slot), NEW B \in Seq(Slot), NoneTwice(A), NoneTwice(B),
         \A i \in DOMAIN A, j \in DOMAIN B : A[i].player # B[j].player
  PROVE  A \o B \in Seq(Slot) /\ NoneTwice(A \o B)
<1>1. /\ A \o B \in Seq(Slot) /\ Len(A \o B) = Len(A) + Len(B)
      /\ \A i \in 1..Len(A) + Len(B) : (A \o B)[i] = IF i <= Len(A) THEN A[i] ELSE B[i - Len(A)]
  BY ConcatProperties
<1>2. DOMAIN A = 1..Len(A) /\ DOMAIN B = 1..Len(B) /\ DOMAIN (A \o B) = 1..Len(A) + Len(B)
      /\ Len(A) \in Nat /\ Len(B) \in Nat
  BY <1>1
<1>3. ASSUME NEW i \in 1..Len(A) + Len(B)
      PROVE  \/ i \in DOMAIN A /\ (A \o B)[i] = A[i]
             \/ i - Len(A) \in DOMAIN B /\ (A \o B)[i] = B[i - Len(A)]
  BY <1>1, <1>2
<1>4. ASSUME NEW i \in 1..Len(A) + Len(B), NEW j \in 1..Len(A) + Len(B),
             (A \o B)[i].player = (A \o B)[j].player
      PROVE  i = j
  <2>1. CASE i \in DOMAIN A /\ (A \o B)[i] = A[i] /\ j \in DOMAIN A /\ (A \o B)[j] = A[j]
    BY <1>4, <2>1 DEF NoneTwice
  <2>2. CASE /\ i - Len(A) \in DOMAIN B /\ (A \o B)[i] = B[i - Len(A)]
             /\ j - Len(A) \in DOMAIN B /\ (A \o B)[j] = B[j - Len(A)]
    <3>1. i - Len(A) = j - Len(A)
      BY <1>4, <2>2 DEF NoneTwice
    <3> QED BY <3>1, <1>2
  <2> QED BY <1>3, <1>4, <2>1, <2>2
<1> QED BY <1>1, <1>2, <1>4 DEF NoneTwice

\* The assembled schedule has slots, and no player twice.
LEMMA ScheduleAssembled ==
  ASSUME ConfigTyped, tiers # <<>>, NEW order \in ReleaseOrders, NEW rfas \in SetToSeqs(Restricted),
         schedule' = [i \in DOMAIN rfas |-> RfaSlot(rfas[i])] \o OtherSlots(order)
  PROVE  ScheduleTyped'
<1> DEFINE first == [i \in DOMAIN rfas |-> RfaSlot(rfas[i])]
           count == Cardinality({p \in Others : Rank(p) # 0})
           rest == OtherSlots(order)
<1>1. Restricted \subseteq Players /\ Others \subseteq Players /\ Restricted \cap Others = {}
  BY DEF Restricted, Others, Pooled
<1>2. order \in SetToSeqs(Others)
  BY DEF ReleaseOrders
<1>3. /\ rfas \in Seq(Restricted) /\ Len(rfas) \in Nat
      /\ \A i, j \in DOMAIN rfas : rfas[i] = rfas[j] => i = j
  BY <1>1, FiniteOrders
<1>4. /\ order \in Seq(Others) /\ Len(order) \in Nat
      /\ \A i, j \in DOMAIN order : order[i] = order[j] => i = j
  BY <1>1, <1>2, FiniteOrders
<1>5. \A p : Rank(p) \in Nat
  BY RankInNat DEF ConfigTyped
<1>6. Len(tiers) \in Nat \ {0}
  BY DEF ConfigTyped
<1>7. first \in Seq(Slot) /\ Len(first) = Len(rfas) /\ \A i \in DOMAIN first : first[i].player = rfas[i]
  <2>1. \A p \in Restricted : RfaSlot(p) \in Slot /\ RfaSlot(p).player = p
    BY <1>1, <1>5, <1>6 DEF RfaSlot, Slot
  <2>2. \A i \in 1..Len(rfas) : rfas[i] \in Restricted
    BY <1>3
  <2> QED BY <2>1, <2>2, <1>3
<1>8. rest \in Seq(Slot) /\ Len(rest) = Len(order) /\ \A i \in DOMAIN rest : rest[i].player = order[i]
  <2> DEFINE base == IF Restricted = {} THEN 0 ELSE RfaWeek
             slot(i) == [player |-> order[i], day |-> base + ((i - 1) \div PerDay), rank |-> Rank(order[i]),
                         tier |-> IF i <= count THEN TierSlot(i - 1, count) + 1 ELSE Len(tiers),
                         rfa |-> FALSE]
  <2>1. base \in Nat
    BY PoolConstants
  <2>2. count \in Nat
    <3>1. IsFiniteSet({p \in Others : Rank(p) # 0})
      BY <1>1, PoolConstants, FS_Subset
    <3> QED BY <3>1, FS_CardinalityType
  <2>3. rest = [i \in DOMAIN order |-> slot(i)]
    BY DEF OtherSlots
  <2> HIDE DEF base, count
  <2>4. ASSUME NEW i \in DOMAIN order
        PROVE  slot(i) \in Slot
    <3>1. i - 1 \in Nat /\ order[i] \in Players /\ i \in Nat
      BY <1>1, <1>4
    <3>2. (i - 1) \div PerDay \in Nat
      BY <3>1, PoolConstants, QuotientInNat
    <3>3. ASSUME i <= count
          PROVE  TierSlot(i - 1, count) \in Nat
      <4>1. count \in Nat \ {0} /\ tiers \in Seq(Nat \ {0})
        BY <3>1, <3>3, <2>2 DEF ConfigTyped
      <4> QED BY <3>1, <4>1, TierSlotInNat
    <3>4. (IF i <= count THEN TierSlot(i - 1, count) + 1 ELSE Len(tiers)) \in Nat \ {0}
      BY <3>3, <1>6
    <3>5. base + ((i - 1) \div PerDay) \in Nat
      BY <3>2, <2>1
    <3> DEFINE d == base + ((i - 1) \div PerDay)
               n == IF i <= count THEN TierSlot(i - 1, count) + 1 ELSE Len(tiers)
               p == order[i]
               k == Rank(p)
    <3>6. d \in Nat /\ n \in Nat \ {0} /\ p \in Players /\ k \in Nat
      BY <3>1, <3>4, <3>5, <1>5
    <3> HIDE DEF d, n, p, k
    <3>7. [player |-> p, day |-> d, rank |-> k, tier |-> n, rfa |-> FALSE] \in Slot
      BY <3>6 DEF Slot
    <3> QED BY <3>7 DEF d, n, p, k
  <2>5. \A i \in DOMAIN order : slot(i).player = order[i]
    OBVIOUS
  <2> HIDE DEF slot, rest
  <2>6. rest \in [1..Len(order) -> Slot]
    BY <2>3, <2>4, <1>4
  <2>7. \A i \in 1..Len(order) : rest[i].player = order[i]
    BY <2>3, <2>5, <1>4
  <2>8. Len(order) \in Nat
    BY <1>4
  <2>9. rest \in Seq(Slot) /\ Len(rest) = Len(order) /\ DOMAIN rest = 1..Len(order)
    BY <2>6, <2>8
  <2> QED BY <2>7, <2>9
<1> HIDE DEF first, rest
<1>9. NoneTwice(first) /\ NoneTwice(rest)
  <2>1. DOMAIN first = DOMAIN rfas /\ DOMAIN rest = DOMAIN order
    BY <1>3, <1>4, <1>7, <1>8
  <2> QED BY <2>1, <1>3, <1>4, <1>7, <1>8 DEF NoneTwice
<1>10. \A i \in DOMAIN first, j \in DOMAIN rest : first[i].player # rest[j].player
  <2>1. (\A i \in DOMAIN rfas : rfas[i] \in Restricted) /\ (\A j \in DOMAIN order : order[j] \in Others)
    BY <1>3, <1>4
  <2>2. DOMAIN first = DOMAIN rfas /\ DOMAIN rest = DOMAIN order
    BY <1>3, <1>4, <1>7, <1>8
  <2> QED BY <2>1, <2>2, <1>1, <1>7, <1>8
<1>11. schedule' \in Seq(Slot) /\ NoneTwice(schedule')
  BY <1>7, <1>8, <1>9, <1>10, TwoParts DEF first, rest
<1> QED BY <1>11 DEF ScheduleTyped, NoneTwice

-----------------------------------------------------------------------------
(* The steps of the pool *)

LEMMA TierValues ==
  ASSUME NEW amounts \in TierLists, TiersAllowed(amounts)
  PROVE  amounts \in Seq(Nat \ {0})
<1>1. amounts \in Seq(Nat) /\ Len(amounts) \in Nat
  BY PoolConstants
<1>2. amounts[Len(amounts)] >= 1 /\ Len(amounts) \in 1..Len(amounts)
  BY <1>1 DEF TiersAllowed, Last
<1>3. \A i \in 1..Len(amounts) : amounts[i] \in Nat \ {0}
  <2> TAKE i \in 1..Len(amounts)
  <2>1. CASE i = Len(amounts)
    BY <2>1, <1>1, <1>2
  <2>2. CASE i # Len(amounts)
    <3>1. i \in 1..Len(amounts) - 1 /\ i + 1 \in 1..Len(amounts)
      BY <2>2, <1>1
    <3>2. amounts[i] \in Nat /\ amounts[i + 1] \in Nat
      BY <3>1, <1>1
    <3>3. amounts[i] > amounts[i + 1]
      BY <3>1 DEF TiersAllowed
    <3> QED BY <3>2, <3>3
  <2> QED BY <2>1, <2>2
<1> QED BY <1>1, <1>3

LEMMA ConfigStep ==
  ASSUME Safe, UNCHANGED bidVars, (\E entry \in Entry : BeginConfig(entry)) \/ CommitConfig
  PROVE  Safe'
<1>1. UNCHANGED <<setting, table, schedule, auctions, day, tick, deaths, bidVars>>
  BY DEF BeginConfig, CommitConfig
<1>2. ConfigTyped'
  <2>0. ConfigTyped /\ setting.edits \in Nat
    BY PoolConstants DEF Safe, Typed, ConfigTyped
  <2>1. CASE \E entry \in Entry : BeginConfig(entry)
    BY <2>0, <2>1 DEF BeginConfig, ConfigTyped
  <2>2. CASE CommitConfig
    <3>1. config.entry \in Entry /\ edits < setting.edits
      BY <2>0, <2>2 DEF CommitConfig, ConfigTyped
    <3>2. config.entry.what = "tiers" => config.entry.value \in Seq(Nat \ {0})
      BY <3>1, TierValues DEF Entry
    <3>3. config.entry.what = "ranking" => config.entry.value \in Seq(Players)
      BY <3>1, PoolConstants DEF Entry
    <3>4. tiers' \in Seq(Nat \ {0}) /\ ranking' \in Seq(Players)
      BY <2>0, <2>2, <3>2, <3>3 DEF CommitConfig, ConfigTyped
    <3>5. config' = Idle /\ edits' = edits + 1
      BY <2>2 DEF CommitConfig
    <3> QED BY <1>1, <2>0, <3>1, <3>4, <3>5 DEF ConfigTyped, Idle
  <2> QED BY <2>1, <2>2
<1>3. Grows(table, table') /\ SameAuctions
  BY <1>1, Unchanging DEF Safe, Typed
<1>4. TicksTyped' /\ (TicksInTurn => Apart') /\ Auctioned'
  BY <1>1, <1>3, ApartKept, AuctionedKept DEF bidVars
<1>5. Typed'
  BY <1>1, <1>2, <1>4
     DEF Safe, Typed, Ordered, ScheduleTyped, AuctionsTyped, RfaTyped, RequestsTyped, bidVars
<1> QED BY <1>4, <1>5 DEF Safe

\* Steps that add rows at most.
LEMMA AddingStep ==
  ASSUME Safe, Grows(table, table'), UNCHANGED <<auctions, bidVars>>,
         ConfigTyped', ScheduleTyped', TicksTyped', TicksInTurn => OneTick' /\ Looked'
  PROVE  Safe'
<1>1. SameAuctions
  BY Unchanging
<1>2. Ordered(table)' /\ (PutUpOnce => PutUpOnce') /\ AuctionsTyped'
  BY <1>1, StaysUpOnce DEF Safe, Typed, AuctionsTyped
<1>3. Auctioned'
  BY <1>1, AuctionedKept DEF bidVars
<1>4. RfaTyped' /\ RequestsTyped'
  BY DEF Safe, Typed, RfaTyped, RequestsTyped, bidVars, Grows
<1> QED BY <1>2, <1>3, <1>4 DEF Safe, Typed, Apart

LEMMA AssembleStep ==
  ASSUME Safe, UNCHANGED bidVars, Assemble
  PROVE  Safe'
<1>1. Grows(table, table')
  BY CreatedGrows DEF Assemble, Persist, Pooled, Safe, Typed
<1>2. UNCHANGED <<setting, tiers, ranking, auctions, day, config, edits, tick, deaths>>
      /\ schedule = <<>>
  BY DEF Assemble
<1>3. ScheduleTyped'
  <2>1. PICK order \in ReleaseOrders, rfas \in SetToSeqs(Restricted) :
               Persist([i \in DOMAIN rfas |-> RfaSlot(rfas[i])] \o OtherSlots(order))
    BY DEF Assemble
  <2> QED BY <2>1, ScheduleAssembled DEF Assemble, Persist, Safe, Typed
<1>4. ConfigTyped'
  BY <1>2 DEF Safe, Typed, ConfigTyped
<1>5. DOMAIN schedule \subseteq DOMAIN schedule'
  BY <1>2
<1>6. TicksTyped' /\ (TicksInTurn => OneTick' /\ Looked')
  BY <1>1, <1>2, <1>5, Unchanging, TicksKept DEF Safe, Apart
<1> QED BY <1>1, <1>2, <1>3, <1>4, <1>6, AddingStep

LEMMA DayStep ==
  ASSUME Safe, UNCHANGED bidVars, DayPasses
  PROVE  Safe'
<1>1. UNCHANGED <<setting, tiers, ranking, table, schedule, auctions, config, edits, tick, deaths>>
  BY DEF DayPasses
<1>2. Grows(table, table') /\ SameAuctions
  BY <1>1, Unchanging DEF Safe, Typed
<1>3. ConfigTyped'
  BY <1>1, PoolConstants DEF DayPasses, Safe, Typed, ConfigTyped
<1>4. ScheduleTyped'
  BY <1>1 DEF Safe, Typed, ScheduleTyped
<1>5. TicksTyped' /\ (TicksInTurn => OneTick' /\ Looked')
  BY <1>1, <1>2, TicksKept DEF Safe, Apart
<1> QED BY <1>1, <1>2, <1>3, <1>4, <1>5, AddingStep

\* A tick moves on by itself; at most the one tick that may run does.
LEMMA TickStep ==
  ASSUME Safe, NEW t \in Ticks, tick' = [tick EXCEPT ![t] = tick'[t]],
         UNCHANGED <<setting, tiers, ranking, schedule, auctions, day, config, edits, bidVars>>,
         Grows(table, table'), deaths' \in 0..setting.deaths,
         tick'[t].at \in {"idle", "opening", "inserting"},
         tick'[t].at # "idle" => tick'[t].slots \subseteq DOMAIN schedule,
         tick'[t].at = "inserting" =>
            ToInsert(tick[t].auction)' /\ ~Opened(table[tick[t].auction.contract].player)',
         TicksInTurn /\ tick'[t].at # "idle" => \A u \in Ticks : tick[u].at # "idle" => u = t
  PROVE  Safe'
<1>1. SameAuctions
  BY Unchanging
<1>2. DOMAIN tick' = Ticks /\ \A u \in Ticks \ {t} : tick'[u] = tick[u]
  BY DEF Safe, Typed, TicksTyped
<1>3. \A p : Opened(p)' <=> Opened(p)
  BY <1>1, StaysUpOnce DEF Safe
<1>4. TicksTyped'
  <2> DEFINE Good(u) ==
        /\ tick'[u].at \in {"idle", "opening", "inserting"}
        /\ tick'[u].at # "idle" => tick'[u].slots \subseteq DOMAIN schedule
        /\ tick'[u].at = "inserting" => ToInsert(tick[u].auction)'
  <2>1. Good(t)
    OBVIOUS
  <2>2. ASSUME NEW u \in Ticks, u # t
        PROVE  Good(u)
    BY <1>2, <2>2 DEF Safe, Typed, TicksTyped, ToInsert, Grows
  <2>3. \A u \in Ticks : Good(u)
    BY <2>1, <2>2
  <2> QED BY <1>2, <2>3 DEF TicksTyped
<1>5. TicksInTurn => OneTick'
  BY <1>2 DEF OneTick, Safe, Apart
<1>6. TicksInTurn => Looked'
  <2> SUFFICES ASSUME TicksInTurn, NEW u \in Ticks, tick'[u].at = "inserting"
               PROVE  ~Opened(table[tick[u].auction.contract].player)'
    BY DEF Looked
  <2>1. CASE u = t
    BY <2>1, <1>3
  <2>2. CASE u # t
    <3>1. tick'[u] = tick[u] /\ ToInsert(tick[u].auction)
      BY <2>2, <1>2 DEF Safe, Typed, TicksTyped
    <3>2. table'[tick[u].auction.contract].player = table[tick[u].auction.contract].player
      BY <3>1 DEF Grows, ToInsert
    <3>3. ~Opened(table[tick[u].auction.contract].player)
      BY <3>1 DEF Safe, Apart, Looked
    <3> QED BY <3>1, <3>2, <3>3, <1>3
  <2> QED BY <2>1, <2>2
<1>7. ConfigTyped' /\ ScheduleTyped'
  BY DEF Safe, Typed, ConfigTyped, ScheduleTyped
<1> QED BY <1>4, <1>5, <1>6, <1>7, AddingStep

LEMMA StartStep ==
  ASSUME Safe, UNCHANGED bidVars, NEW t \in Ticks, StartTick(t)
  PROVE  Safe'
<1>1. UNCHANGED <<setting, tiers, ranking, table, schedule, auctions, day, config, edits, deaths>>
  BY DEF StartTick
<1>2. tick' = [tick EXCEPT ![t] = tick'[t]] /\ tick'[t] = [at |-> "opening", slots |-> Due]
  BY DEF StartTick, Safe, Typed, TicksTyped
<1>3. Grows(table, table') /\ deaths' \in 0..setting.deaths
  BY <1>1, Unchanging DEF Safe, Typed, ConfigTyped
<1>4. TicksInTurn => \A u \in Ticks : tick[u].at # "idle" => u = t
  BY DEF StartTick, TicksInTurn, Safe, Typed, ConfigTyped, Idle
<1>5. Due \subseteq DOMAIN schedule
  BY DEF Due
<1> QED BY <1>1, <1>2, <1>3, <1>4, <1>5, TickStep

LEMMA LookUpStep ==
  ASSUME Safe, UNCHANGED bidVars, NEW t \in Ticks, LookUp(t)
  PROVE  Safe'
<1>1. PICK i \in tick[t].slots :
        LET slot == schedule[i]  found == Opened(slot.player)  left == tick[t].slots \ {i} IN
        /\ table' = IF found THEN table ELSE Created({slot.player})
        /\ IF found \/ Opening(slot, table') = {}
           THEN tick' = [tick EXCEPT ![t] = GoOn(left)]
           ELSE \E auction \in Opening(slot, table') :
                  tick' = [tick EXCEPT ![t] = [at |-> "inserting", slots |-> left, auction |-> auction]]
  BY DEF LookUp
<1> DEFINE slot == schedule[i]
           left == tick[t].slots \ {i}
<1>2. /\ tick[t].at = "opening"
      /\ UNCHANGED <<setting, tiers, ranking, schedule, auctions, day, config, edits, deaths>>
  BY DEF LookUp
<1>3. left \subseteq DOMAIN schedule /\ i \in DOMAIN schedule /\ DOMAIN tick = Ticks
  BY <1>2 DEF Safe, Typed, TicksTyped
<1>4. slot \in Slot
  BY <1>3 DEF Safe, Typed, ScheduleTyped
<1>5. Grows(table, table')
  <2>1. slot.player \in Players
    BY <1>4 DEF Slot
  <2>2. Grows(table, Created({slot.player}))
    BY <2>1, CreatedGrows DEF Safe, Typed
  <2> QED BY <1>1, <2>2, Unchanging DEF Safe, Typed
<1>6. deaths' \in 0..setting.deaths
  BY <1>2 DEF Safe, Typed, ConfigTyped
<1>7. TicksInTurn => \A u \in Ticks : tick[u].at # "idle" => u = t
  BY <1>2 DEF Safe, Apart, OneTick
<1>8. CASE Opened(slot.player) \/ Opening(slot, table') = {}
  <2>1. tick' = [tick EXCEPT ![t] = GoOn(left)]
    BY <1>1, <1>8
  <2>2. tick' = [tick EXCEPT ![t] = tick'[t]] /\ tick'[t] = GoOn(left)
    BY <1>3, <2>1
  <2>3. GoOn(left).at \in {"idle", "opening"} /\ (GoOn(left).at # "idle" => GoOn(left).slots = left)
    BY DEF GoOn, Idle
  <2> HIDE DEF left
  <2> QED BY <1>2, <1>3, <1>5, <1>6, <1>7, <2>2, <2>3, TickStep
<1>9. CASE ~Opened(slot.player) /\ Opening(slot, table') # {}
  <2>1. PICK auction \in Opening(slot, table') :
          tick' = [tick EXCEPT ![t] = [at |-> "inserting", slots |-> left, auction |-> auction]]
    BY <1>1, <1>9
  <2>2. PICK k \in DOMAIN table' :
          LET c == table'[k] IN
          /\ c.player = slot.player
          /\ c.kind \in ExpiringKinds \/ TierKnown(slot.tier)
          /\ auction =
               [contract |-> c.id,
                minimum |-> IF c.kind \in ExpiringKinds THEN c.salary ELSE tiers[slot.tier],
                owner |-> IF c.kind \in ExpiringKinds /\ c.prev # Unset THEN table'[c.prev].team ELSE Unset,
                status |-> "Open", lead |-> NoLead]
    BY DEF Opening, LiveIn
  <2> DEFINE c == table'[k]
  <2>3. c \in Row /\ c.id = k /\ c.prev \in DOMAIN table' \cup {Unset}
    BY <1>5 DEF Grows, Ordered
  <2>4. c.kind \notin ExpiringKinds => tiers[slot.tier] \in Nat \ {0}
    BY <2>2 DEF TierKnown, Safe, Typed, ConfigTyped
  <2>5. c.salary \in Nat \ {0} /\ k \in Nat
    BY <2>3, <1>5 DEF Row, Grows, Ordered
  <2>6. c.prev # Unset => table'[c.prev].team \in Teams \cup {Unset}
    <3>1. \A j \in DOMAIN table' : table'[j] \in Row
      BY <1>5 DEF Grows, Ordered
    <3> QED BY <3>1, <2>3 DEF Row
  <2>7. ToInsert(auction)' /\ table'[auction.contract].player = slot.player
    <3> DEFINE m == IF c.kind \in ExpiringKinds THEN c.salary ELSE tiers[slot.tier]
               o == IF c.kind \in ExpiringKinds /\ c.prev # Unset THEN table'[c.prev].team ELSE Unset
    <3>1. m \in Nat \ {0} /\ o \in Teams \cup {Unset}
      BY <2>4, <2>5, <2>6
    <3>2. auction = [contract |-> k, minimum |-> m, owner |-> o, status |-> "Open", lead |-> NoLead]
      BY <2>2, <2>3
    <3> HIDE DEF m, o
    <3>3. auction \in Auction /\ auction.lead = NoLead /\ auction.contract = k
      BY <2>5, <3>1, <3>2 DEF Auction, Lead
    <3> QED BY <2>2, <3>3 DEF ToInsert
  <2>8. tick' = [tick EXCEPT ![t] = tick'[t]]
        /\ tick'[t] = [at |-> "inserting", slots |-> left, auction |-> auction]
    BY <1>3, <2>1
  <2>9. ~Opened(table[tick[t].auction.contract].player)'
    <3>1. SameAuctions
      BY <1>2, Unchanging
    <3>2. ~Opened(slot.player) => ~Opened(slot.player)'
      <4>1. \A p : Opened(p)' <=> Opened(p)
        BY <1>5, <3>1, StaysUpOnce DEF Safe
      <4>2. slot' = slot
        BY <1>2
      <4> HIDE DEF slot
      <4> QED BY <4>1, <4>2
    <3>3. tick'[t].auction = auction
      BY <2>8
    <3>4. (table[tick[t].auction.contract].player)' = slot.player
      BY <2>7, <3>3
    <3>5. slot' = slot
      BY <1>2
    <3> HIDE DEF slot
    <3> QED BY <1>9, <3>2, <3>4, <3>5 DEF Opened
  <2> HIDE DEF left, slot
  <2> QED BY <1>2, <1>3, <1>5, <1>6, <1>7, <2>7, <2>8, <2>9, TickStep
<1> QED BY <1>8, <1>9

LEMMA DeathStep ==
  ASSUME Safe, UNCHANGED bidVars, NEW t \in Ticks, TickDies(t)
  PROVE  Safe'
<1>1. UNCHANGED <<setting, tiers, ranking, table, schedule, auctions, day, config, edits>>
  BY DEF TickDies
<1>2. tick' = [tick EXCEPT ![t] = tick'[t]] /\ tick'[t] = Idle /\ tick[t] # Idle
  BY DEF TickDies, Safe, Typed, TicksTyped
<1>3. Grows(table, table')
  BY <1>1, Unchanging DEF Safe, Typed
<1>4. deaths' \in 0..setting.deaths
  BY PoolConstants DEF TickDies, Safe, Typed, ConfigTyped
<1>5. tick'[t].at = "idle"
  BY <1>2 DEF Idle
<1> QED BY <1>1, <1>2, <1>3, <1>4, <1>5, TickStep

\* What is inserted is for a player nobody has an auction for.
LEMMA InsertStep ==
  ASSUME Safe, UNCHANGED bidVars, NEW t \in Ticks, Insert(t)
  PROVE  Safe'
<1> DEFINE new == tick[t].auction
<1>1. UNCHANGED <<setting, tiers, ranking, table, schedule, day, config, edits, deaths>>
      /\ tick[t].at = "inserting"
  BY DEF Insert
<1>2. ToInsert(new) /\ tick[t].slots \subseteq DOMAIN schedule
  BY <1>1 DEF Safe, Typed, TicksTyped
<1>3. auctions \in Seq(Auction) /\ auctions' = Append(auctions, new)
  BY DEF Insert, Safe, Typed, AuctionsTyped
<1>4. /\ auctions' \in Seq(Auction)
      /\ DOMAIN auctions' = DOMAIN auctions \cup {Len(auctions) + 1}
      /\ \A a \in DOMAIN auctions : auctions'[a] = auctions[a]
      /\ auctions'[Len(auctions) + 1] = new
  <2> HIDE DEF new
  <2> QED BY <1>2, <1>3 DEF ToInsert
<1>5. AuctionsTyped'
  BY <1>1, <1>2, <1>4 DEF AuctionsTyped, ToInsert, Safe, Typed
<1>6. /\ DOMAIN tick' = Ticks /\ \A u \in Ticks \ {t} : tick'[u] = tick[u]
      /\ tick'[t] = GoOn(tick[t].slots)
  BY DEF Insert, Safe, Typed, TicksTyped
<1>7. tick'[t].at \in {"idle", "opening"} /\ (tick'[t].at # "idle" => tick'[t].slots = tick[t].slots)
  BY <1>6 DEF GoOn, Idle
<1>8. TicksTyped'
  <2>1. \A a : ToInsert(a)' <=> ToInsert(a)
    BY <1>1 DEF ToInsert
  <2>2. ASSUME NEW u \in Ticks
        PROVE  /\ tick'[u].at \in {"idle", "opening", "inserting"}
               /\ tick'[u].at # "idle" => tick'[u].slots \subseteq DOMAIN schedule
               /\ tick'[u].at = "inserting" => ToInsert(tick[u].auction)'
    <3>1. CASE u = t
      BY <3>1, <1>2, <1>7
    <3>2. CASE u # t
      BY <3>2, <1>6, <2>1 DEF Safe, Typed, TicksTyped
    <3> QED BY <3>1, <3>2
  <2> QED BY <1>1, <1>6, <2>2 DEF TicksTyped
<1>9. TicksInTurn => Apart'
  <2> SUFFICES ASSUME TicksInTurn
               PROVE  Apart'
    OBVIOUS
  <2>1. OneTick /\ Looked /\ PutUpOnce
    BY DEF Safe, Apart
  <2>2. \A u \in Ticks \ {t} : tick[u].at = "idle"
    BY <1>1, <2>1 DEF OneTick
  <2>3. OneTick'
    BY <1>6, <2>2 DEF OneTick
  <2>4. Looked'
    BY <1>6, <1>7, <2>2 DEF Looked
  <2>5. \A a \in DOMAIN auctions : table[auctions[a].contract].player # table[new.contract].player
    BY <1>1, <2>1 DEF Looked, Opened
  <2>6. PutUpOnce'
    <3> HIDE DEF new
    <3> QED BY <1>1, <1>4, <2>1, <2>5 DEF PutUpOnce
  <2> QED BY <2>3, <2>4, <2>6 DEF Apart
<1>10. Auctioned'
  <2>1. \A a \in DOMAIN auctions : a \in DOMAIN auctions' /\ auctions'[a].contract = auctions[a].contract
    BY <1>4
  <2> QED BY <2>1 DEF Safe, Auctioned, Won, bidVars
<1>11. ConfigTyped' /\ Ordered(table)' /\ ScheduleTyped' /\ RfaTyped'
  BY <1>1 DEF Safe, Typed, ConfigTyped, Ordered, ScheduleTyped, RfaTyped, bidVars
<1>12. RequestsTyped'
  BY <1>4 DEF Safe, Typed, RequestsTyped, bidVars
<1> QED BY <1>5, <1>8, <1>9, <1>10, <1>11, <1>12 DEF Safe, Typed

-----------------------------------------------------------------------------
(* The steps of bids, closes, raises and matches *)

LEMMA BidStep ==
  ASSUME Safe, Grows(table, table'), SameAuctions, auctions' \in Seq(Auction),
         UNCHANGED <<setting, tiers, ranking, schedule, day, config, edits, tick, deaths>>,
         RfaTyped', RequestsTyped', Auctioned'
  PROVE  Safe'
<1>1. TicksTyped' /\ (TicksInTurn => Apart')
  BY ApartKept
<1>2. AuctionsTyped' /\ Ordered(table)'
  BY StaysUpOnce DEF Safe, AuctionsTyped
<1>3. ConfigTyped' /\ ScheduleTyped'
  BY DEF Safe, Typed, ConfigTyped, ScheduleTyped
<1> QED BY <1>1, <1>2, <1>3 DEF Safe, Typed

LEMMA RequestsKept ==
  ASSUME Safe, SameAuctions, UNCHANGED request, DOMAIN resolutions \subseteq DOMAIN resolutions'
  PROVE  RequestsTyped'
BY DEF Safe, Typed, RequestsTyped, SameAuctions

LEMMA BeginStep ==
  ASSUME Safe, NEW r \in Requests, NEW team \in Teams, NEW a \in DOMAIN auctions,
         NEW amount \in Amounts, NEW pick \in Picks \cup {Unset}, BeginBid(r, team, a, amount, pick)
  PROVE  Safe'
<1> DEFINE new == [at |-> "writing", auction |-> a, team |-> team, amount |-> amount, pick |-> pick]
<1>1. UNCHANGED <<poolVars, resolutions, naming, holder>>
  BY DEF BeginBid
<1>2. Grows(table, table') /\ SameAuctions /\ auctions' \in Seq(Auction)
  BY <1>1, Unchanging DEF Safe, Typed, AuctionsTyped, poolVars
<1>3. new \in BidRequest
  <2>1. a \in Nat /\ amount \in Nat \ {0}
    BY HouseConstants DEF Safe, Typed, AuctionsTyped
  <2> QED BY <2>1 DEF BidRequest
<1>4. pick # Unset => auctions[a].contract \in DOMAIN resolutions
  BY DEF BeginBid, PickSettles, AwaitsAuction
<1>5. request' = [request EXCEPT ![r] = new]
  BY DEF BeginBid
<1>6. RequestsTyped'
  <2>1. new.auction = a /\ new.pick = pick
    OBVIOUS
  <2>2. UNCHANGED <<auctions, resolutions>>
    BY <1>1 DEF poolVars
  <2> HIDE DEF new
  <2> QED BY <2>1, <2>2, <1>3, <1>4, <1>5 DEF Safe, Typed, RequestsTyped
<1>7. RfaTyped' /\ Auctioned'
  BY <1>1, <1>2, AuctionedKept DEF Safe, Typed, RfaTyped, poolVars
<1> QED BY <1>1, <1>2, <1>6, <1>7, BidStep DEF poolVars

LEMMA RoundIn ==
  ASSUME NEW amount \in Nat
  PROVE  CompensationRound(amount) \in 1..5
BY DEF CompensationRound

LEMMA CommitStep ==
  ASSUME Safe, NEW r \in Requests, CommitBid(r)
  PROVE  Safe'
<1> DEFINE q == request[r]
           id == auctions[q.auction].contract
           lead == [team |-> q.team, amount |-> q.amount]
           named == [pick |-> q.pick, from |-> q.team, round |-> CompensationRound(q.amount)]
<1>1. q \in BidRequest /\ q.auction \in DOMAIN auctions /\ (q.pick # Unset => id \in DOMAIN resolutions)
  BY DEF CommitBid, Safe, Typed, RequestsTyped
<1>2. q.team \in Teams /\ q.amount \in Nat \ {0} /\ q.pick \in Picks \cup {Unset}
  BY <1>1 DEF BidRequest
<1>3. lead \in Lead
  BY <1>2 DEF Lead
<1>4. named.pick # Unset => named \in Naming
  BY <1>2, RoundIn DEF Naming
<1>5. /\ auctions' = [auctions EXCEPT ![q.auction].lead = lead]
      /\ naming' = IF q.pick = Unset THEN naming
                   ELSE [n \in {id} \cup DOMAIN naming |-> IF n # id THEN naming[n] ELSE named]
      /\ request' = [request EXCEPT ![r] = Idle]
      /\ UNCHANGED <<setting, tiers, ranking, table, schedule, day, config, edits, tick, deaths,
                     resolutions, holder>>
  BY DEF CommitBid
<1>6. auctions \in Seq(Auction) /\ \A a \in DOMAIN auctions : auctions[a] \in Auction
  BY DEF Safe, Typed, AuctionsTyped
<1>7. SameAuctions /\ auctions' \in Seq(Auction)
  <2> HIDE DEF lead, q, id, named
  <2>1. [auctions[q.auction] EXCEPT !.lead = lead] \in Auction
    BY <1>1, <1>3, <1>6 DEF Auction
  <2>2. auctions' \in Seq(Auction)
    BY <1>1, <1>5, <1>6, <2>1
  <2>3. SameAuctions
    BY <1>5, <1>6 DEF SameAuctions, Auction
  <2> QED BY <2>2, <2>3
<1>8. RfaTyped'
  <2>1. CASE q.pick = Unset
    BY <2>1, <1>5 DEF Safe, Typed, RfaTyped
  <2>2. CASE q.pick # Unset
    <3>1. naming' = [n \in {id} \cup DOMAIN naming |-> IF n # id THEN naming[n] ELSE named]
      BY <2>2, <1>5
    <3>2. named \in Naming /\ id \in DOMAIN resolutions
      BY <2>2, <1>1, <1>4
    <3> HIDE DEF id, named, q
    <3> QED BY <3>1, <3>2, <1>5 DEF Safe, Typed, RfaTyped
  <2> QED BY <2>1, <2>2
<1>9. RequestsTyped'
  <2> HIDE DEF q, lead
  <2> QED BY <1>5, <1>7 DEF Safe, Typed, RequestsTyped, SameAuctions
<1>10. Grows(table, table') /\ Auctioned'
  BY <1>5, <1>7, Unchanging, AuctionedKept DEF Safe, Typed
<1> QED BY <1>5, <1>7, <1>8, <1>9, <1>10, BidStep

LEMMA AbortStep ==
  ASSUME Safe, NEW r \in Requests, AbortBid(r)
  PROVE  Safe'
<1>1. UNCHANGED <<poolVars, resolutions, naming, holder>> /\ request' = [request EXCEPT ![r] = Idle]
  BY DEF AbortBid
<1>2. Grows(table, table') /\ SameAuctions /\ auctions' \in Seq(Auction)
  BY <1>1, Unchanging DEF Safe, Typed, AuctionsTyped, poolVars
<1>3. RequestsTyped'
  BY <1>1 DEF Safe, Typed, RequestsTyped, poolVars
<1>4. RfaTyped' /\ Auctioned'
  BY <1>1, <1>2, AuctionedKept DEF Safe, Typed, RfaTyped, poolVars
<1> QED BY <1>1, <1>2, <1>3, <1>4, BidStep DEF poolVars

\* A resolution is moved on by one step, which keeps it what it is.
LEMMA MovedOn ==
  ASSUME Safe, NEW id \in DOMAIN resolutions, NEW new \in Resolution,
         resolutions' = [resolutions EXCEPT ![id] = new],
         new.winner \in Teams, new.final > 0, \E a \in DOMAIN auctions : auctions[a].contract = id,
         SameAuctions, Grows(table, table'), holder' \in [Picks -> Teams],
         DOMAIN naming' = DOMAIN naming, \A i \in DOMAIN naming : naming'[i] \in Naming
  PROVE  Auctioned' /\ RfaTyped'
<1>1. DOMAIN resolutions' = DOMAIN resolutions /\ resolutions'[id] = new
      /\ \A i \in DOMAIN resolutions \ {id} : resolutions'[i] = resolutions[i]
  OBVIOUS
<1>2. RfaTyped'
  <2>1. \A i \in DOMAIN resolutions : resolutions'[i] \in Resolution
    BY <1>1 DEF Safe, Typed, RfaTyped
  <2>2. DOMAIN resolutions \subseteq DOMAIN table'
    BY DEF Grows, Safe, Typed, RfaTyped
  <2> QED BY <1>1, <2>1, <2>2 DEF Safe, Typed, RfaTyped
<1>3. Auctioned'
  <2> SUFFICES ASSUME NEW i \in DOMAIN resolutions, resolutions'[i].status # "AwaitingAuction"
               PROVE  Won(i)'
    BY <1>1 DEF Auctioned
  <2>1. \A j : (\E a \in DOMAIN auctions : auctions[a].contract = j)
                 => \E a \in DOMAIN auctions' : auctions'[a].contract = j
    BY DEF SameAuctions
  <2>2. CASE i = id
    BY <2>1, <2>2, <1>1 DEF Won
  <2>3. CASE i # id
    BY <2>1, <2>3, <1>1 DEF Won, Safe, Auctioned
  <2> QED BY <2>2, <2>3
<1> QED BY <1>2, <1>3

LEMMA RestrictedStep ==
  ASSUME Safe, NEW a \in DOMAIN auctions, CloseRestricted(a)
  PROVE  Safe'
<1> DEFINE id == auctions[a].contract
           lead == auctions[a].lead
<1>1. /\ auctions' = [auctions EXCEPT ![a].status = "Closed"]
      /\ UNCHANGED <<setting, tiers, ranking, table, schedule, day, config, edits, tick, deaths,
                     naming, holder, request>>
      /\ resolutions' = IF lead = NoLead \/ ~AwaitsAuction(id) THEN resolutions
                        ELSE [resolutions EXCEPT ![id].status = "AwaitingRaise", ![id].winner = lead.team,
                                                 ![id].final = lead.amount]
  BY DEF CloseRestricted
<1>2. auctions \in Seq(Auction) /\ \A b \in DOMAIN auctions : auctions[b] \in Auction
  BY DEF Safe, Typed, AuctionsTyped
<1>3. SameAuctions /\ auctions' \in Seq(Auction)
  <2>1. [auctions[a] EXCEPT !.status = "Closed"] \in Auction
    BY <1>2 DEF Auction
  <2>2. auctions' \in Seq(Auction)
    BY <1>1, <1>2, <2>1
  <2>3. SameAuctions
    BY <1>1, <1>2 DEF SameAuctions, Auction
  <2> QED BY <2>2, <2>3
<1>4. Grows(table, table')
  BY <1>1, Unchanging DEF Safe, Typed
<1>5. Auctioned' /\ RfaTyped' /\ DOMAIN resolutions \subseteq DOMAIN resolutions'
  <2>1. CASE lead = NoLead \/ ~AwaitsAuction(id)
    BY <2>1, <1>1, <1>3, AuctionedKept DEF Safe, Typed, RfaTyped
  <2>2. CASE lead # NoLead /\ AwaitsAuction(id)
    <3> DEFINE new == [resolutions[id] EXCEPT !.status = "AwaitingRaise", !.winner = lead.team,
                                              !.final = lead.amount]
    <3>1. id \in DOMAIN resolutions /\ resolutions[id] \in Resolution
      BY <2>2 DEF AwaitsAuction, Safe, Typed, RfaTyped
    <3>2. lead.team \in Teams /\ lead.amount \in Nat \ {0}
      BY <2>2, <1>2 DEF Auction, Lead
    <3>3. new \in Resolution /\ new.winner \in Teams /\ new.final > 0
      <4> DEFINE old == resolutions[id]
                 team == lead.team
                 amount == lead.amount
      <4>1. old \in Resolution /\ team \in Teams /\ amount \in Nat /\ amount > 0
        BY <3>1, <3>2
      <4>2. new = [old EXCEPT !.status = "AwaitingRaise", !.winner = team, !.final = amount]
        OBVIOUS
      <4> HIDE DEF old, team, amount, new
      <4>3. new \in Resolution
        BY <4>1, <4>2 DEF Resolution, InFlight
      <4>4. new.winner = team /\ new.final = amount
        BY <4>1, <4>2 DEF Resolution
      <4> QED BY <4>1, <4>3, <4>4
    <3>4. resolutions' = [resolutions EXCEPT ![id] = new]
      BY <2>2, <3>1, <1>1
    <3>5. holder' \in [Picks -> Teams] /\ DOMAIN naming' = DOMAIN naming
          /\ \A i \in DOMAIN naming : naming'[i] \in Naming
      BY <1>1 DEF Safe, Typed, RfaTyped
    <3>6. \E b \in DOMAIN auctions : auctions[b].contract = id
      OBVIOUS
    <3> HIDE DEF new, lead, id
    <3>7. Auctioned' /\ RfaTyped'
      BY <1>3, <1>4, <3>1, <3>3, <3>4, <3>5, <3>6, MovedOn, Zenon
    <3> QED BY <3>4, <3>7
  <2> QED BY <2>1, <2>2
<1>6. RequestsTyped'
  BY <1>1, <1>3, <1>5, RequestsKept
<1> QED BY <1>1, <1>3, <1>4, <1>5, <1>6, BidStep

LEMMA UnbidStep ==
  ASSUME Safe, NEW a \in DOMAIN auctions, CloseUnbid(a)
  PROVE  Safe'
<1> DEFINE c == table[auctions[a].contract]
<1>1. /\ Settle(a, "Expired", ExpiredRow(c))
      /\ UNCHANGED <<setting, tiers, ranking, schedule, day, config, edits, tick, deaths,
                     resolutions, naming, holder, request>>
  BY DEF CloseUnbid, Settle
<1>2. c \in Row
  BY DEF Safe, Typed, AuctionsTyped, Ordered
<1>3. ExpiredRow(c) \subseteq RowsAfter(c)
  BY <1>2, ExpiryMakesRows
<1>4. Grows(table, table') /\ SameAuctions /\ auctions' \in Seq(Auction)
  BY <1>1, <1>3, SettleKeeps DEF Safe
<1>5. RfaTyped' /\ Auctioned' /\ RequestsTyped'
  BY <1>1, <1>4, AuctionedKept, RequestsKept DEF Safe, Typed, RfaTyped, Grows
<1> QED BY <1>1, <1>4, <1>5, BidStep

LEMMA SoldStep ==
  ASSUME Safe, NEW a \in DOMAIN auctions, CloseSold(a)
  PROVE  Safe'
<1> DEFINE c == table[auctions[a].contract]
           lead == auctions[a].lead
           row == SignedAtAuction(c, lead.team, lead.amount, ExceptionOf(c, lead.team))
<1>1. /\ Settle(a, "Completed", row)
      /\ UNCHANGED <<setting, tiers, ranking, schedule, day, config, edits, tick, deaths,
                     resolutions, naming, holder, request>>
  BY DEF CloseSold, Settle
<1>2. c \in Row /\ lead.team \in Teams /\ lead.amount \in Nat \ {0}
  <2>1. lead # NoLead /\ auctions[a] \in Auction
    BY DEF CloseSold, Safe, Typed, AuctionsTyped
  <2> QED BY <2>1 DEF Auction, Lead, Safe, Typed, AuctionsTyped, Ordered
<1>3. row \subseteq RowsAfter(c)
  BY <1>2, SigningMakesRows
<1> HIDE DEF row
<1>4. Grows(table, table') /\ SameAuctions /\ auctions' \in Seq(Auction)
  BY <1>1, <1>3, SettleKeeps DEF Safe
<1>5. RfaTyped' /\ Auctioned' /\ RequestsTyped'
  BY <1>1, <1>4, AuctionedKept, RequestsKept DEF Safe, Typed, RfaTyped, Grows
<1> QED BY <1>1, <1>4, <1>5, BidStep

\* The raise and the match of what has been won.
LEMMA AfterAuction ==
  ASSUME Safe, NEW id \in DOMAIN resolutions, resolutions[id].status # "AwaitingAuction"
  PROVE  /\ resolutions[id] \in Resolution /\ resolutions[id].winner \in Teams
         /\ resolutions[id].final > 0 /\ EffectiveBid(resolutions[id]) \in Nat \ {0}
         /\ AuctionOf(id) \in DOMAIN auctions /\ auctions[AuctionOf(id)].contract = id
<1>1. resolutions[id] \in Resolution /\ Won(id)
  BY DEF Safe, Typed, RfaTyped, Auctioned
<1>2. resolutions[id].final \in Nat /\ resolutions[id].raised \in Nat
  BY <1>1 DEF Resolution
<1>3. EffectiveBid(resolutions[id]) \in Nat \ {0}
  BY <1>1, <1>2 DEF EffectiveBid, Won
<1>4. AuctionOf(id) \in DOMAIN auctions /\ auctions[AuctionOf(id)].contract = id
  BY <1>1 DEF AuctionOf, Won
<1> QED BY <1>1, <1>3, <1>4 DEF Won

LEMMA RaiseStep ==
  ASSUME Safe, NEW id \in DOMAIN resolutions, NEW amount \in Amounts, NEW pick \in Picks,
         Raise(id, amount, pick)
  PROVE  Safe'
<1> DEFINE old == resolutions[id]
           new == [old EXCEPT !.status = "AwaitingMatch", !.raised = amount]
           named == [pick |-> pick, from |-> old.winner, round |-> CompensationRound(amount)]
<1>1. /\ old.status = "AwaitingRaise"
      /\ naming' = [naming EXCEPT ![id] = named]
      /\ resolutions' = [resolutions EXCEPT ![id].status = "AwaitingMatch", ![id].raised = amount]
      /\ UNCHANGED <<poolVars, holder, request>>
  BY DEF Raise
<1>2. /\ old \in Resolution /\ old.winner \in Teams /\ old.final > 0
      /\ AuctionOf(id) \in DOMAIN auctions /\ auctions[AuctionOf(id)].contract = id
  BY <1>1, AfterAuction
<1>3. amount \in Nat
  BY HouseConstants
<1>4. named \in Naming
  BY <1>2, <1>3, RoundIn DEF Naming
<1>5. resolutions' = [resolutions EXCEPT ![id] = new]
  BY <1>1
<1>6. Grows(table, table') /\ SameAuctions /\ auctions' \in Seq(Auction)
  BY <1>1, Unchanging DEF Safe, Typed, AuctionsTyped, poolVars
<1>7. new \in Resolution /\ new.winner \in Teams /\ new.final > 0
  <2> HIDE DEF old
  <2> QED BY <1>2, <1>3 DEF Resolution, InFlight
<1>8. /\ holder' \in [Picks -> Teams] /\ DOMAIN naming' = DOMAIN naming
      /\ \A i \in DOMAIN naming : naming'[i] \in Naming
  <2> HIDE DEF named
  <2> QED BY <1>1, <1>4 DEF Safe, Typed, RfaTyped
<1>9. \E a \in DOMAIN auctions : auctions[a].contract = id
  BY <1>2
<1> HIDE DEF old, new, named
<1>10. Auctioned' /\ RfaTyped'
  BY <1>5, <1>6, <1>7, <1>8, <1>9, MovedOn, Zenon
<1>11. RequestsTyped'
  BY <1>1, <1>5, <1>6, RequestsKept
<1> QED BY <1>1, <1>6, <1>10, <1>11, BidStep DEF poolVars

\* The other three steps move the status on.
LEMMA StatusMoved ==
  ASSUME Safe, NEW id \in DOMAIN resolutions, NEW status \in {"AwaitingMatch", "Resolved", "Declined"},
         To(id, status), resolutions[id].status # "AwaitingAuction",
         SameAuctions, Grows(table, table'), auctions' \in Seq(Auction), holder' \in [Picks -> Teams],
         UNCHANGED <<setting, tiers, ranking, schedule, day, config, edits, tick, deaths, naming, request>>
  PROVE  Safe'
<1> DEFINE old == resolutions[id]
           new == [old EXCEPT !.status = status]
<1>1. old \in Resolution /\ old.winner \in Teams /\ old.final > 0
      /\ \E a \in DOMAIN auctions : auctions[a].contract = id
  BY AfterAuction
<1>2. resolutions' = [resolutions EXCEPT ![id] = new]
  BY DEF To
<1>3. new \in Resolution /\ new.winner \in Teams /\ new.final > 0
  <2> HIDE DEF old
  <2> QED BY <1>1 DEF Resolution, InFlight
<1>4. DOMAIN naming' = DOMAIN naming /\ \A i \in DOMAIN naming : naming'[i] \in Naming
  BY DEF Safe, Typed, RfaTyped
<1> HIDE DEF old, new
<1>5. Auctioned' /\ RfaTyped'
  BY <1>1, <1>2, <1>3, <1>4, MovedOn, Zenon
<1>6. RequestsTyped'
  BY <1>2, RequestsKept
<1> QED BY <1>5, <1>6, BidStep

LEMMA StandPatStep ==
  ASSUME Safe, NEW id \in DOMAIN resolutions, StandPat(id)
  PROVE  Safe'
<1>1. To(id, "AwaitingMatch") /\ resolutions[id].status # "AwaitingAuction"
      /\ UNCHANGED <<poolVars, naming, holder, request>>
  BY DEF StandPat
<1>2. Grows(table, table') /\ SameAuctions /\ auctions' \in Seq(Auction) /\ holder' \in [Picks -> Teams]
  BY <1>1, Unchanging DEF Safe, Typed, AuctionsTyped, RfaTyped, poolVars
<1> QED BY <1>1, <1>2, StatusMoved DEF poolVars

LEMMA MatchStep ==
  ASSUME Safe, NEW id \in DOMAIN resolutions, Match(id)
  PROVE  Safe'
<1> DEFINE r == resolutions[id]
           a == AuctionOf(id)
           row == SignedFreeAgent(table[id], r.owner, EffectiveBid(r), "Held")
<1>1. /\ r.status = "AwaitingMatch" /\ To(id, "Resolved") /\ Settle(a, "Completed", row)
      /\ UNCHANGED <<setting, tiers, ranking, schedule, day, config, edits, tick, deaths,
                     naming, holder, request>>
  BY DEF Match, Settle
<1>2. /\ r \in Resolution /\ EffectiveBid(r) \in Nat \ {0}
      /\ a \in DOMAIN auctions /\ auctions[a].contract = id
  BY <1>1, AfterAuction
<1>3. table[id] \in Row /\ r.owner \in Teams
  BY <1>2 DEF Safe, Typed, RfaTyped, Ordered, Resolution
<1>4. row \subseteq RowsAfter(table[auctions[a].contract])
  BY <1>2, <1>3, SigningMakesRows
<1> HIDE DEF row, a
<1>5. Grows(table, table') /\ SameAuctions /\ auctions' \in Seq(Auction)
  BY <1>1, <1>2, <1>4, SettleKeeps DEF Safe
<1>6. holder' \in [Picks -> Teams]
  BY <1>1 DEF Safe, Typed, RfaTyped
<1> QED BY <1>1, <1>5, <1>6, StatusMoved

LEMMA DeclineStep ==
  ASSUME Safe, NEW id \in DOMAIN resolutions, Decline(id)
  PROVE  Safe'
<1> DEFINE r == resolutions[id]
           a == AuctionOf(id)
           row == SignedFreeAgent(table[id], r.winner, EffectiveBid(r), ExceptionOf(table[id], r.winner))
<1>1. /\ r.status = "AwaitingMatch" /\ To(id, "Declined") /\ Settle(a, "Completed", row)
      /\ holder' = [holder EXCEPT ![naming[id].pick] = r.owner]
      /\ UNCHANGED <<setting, tiers, ranking, schedule, day, config, edits, tick, deaths,
                     naming, request>>
  BY DEF Decline, Settle
<1>2. /\ r \in Resolution /\ EffectiveBid(r) \in Nat \ {0} /\ r.winner \in Teams
      /\ a \in DOMAIN auctions /\ auctions[a].contract = id
  BY <1>1, AfterAuction
<1>3. table[id] \in Row /\ r.owner \in Teams
  BY <1>2 DEF Safe, Typed, RfaTyped, Ordered, Resolution
<1>4. row \subseteq RowsAfter(table[auctions[a].contract])
  BY <1>2, <1>3, SigningMakesRows
<1> HIDE DEF row, a
<1>5. Grows(table, table') /\ SameAuctions /\ auctions' \in Seq(Auction)
  BY <1>1, <1>2, <1>4, SettleKeeps DEF Safe
<1>6. holder' \in [Picks -> Teams]
  BY <1>1, <1>3 DEF Safe, Typed, RfaTyped
<1> QED BY <1>1, <1>5, <1>6, StatusMoved

-----------------------------------------------------------------------------
(* Every step keeps the invariant *)

LEMMA SafeStep ==
  Safe /\ [Next]_vars => Safe'
<1> SUFFICES ASSUME Safe, [Next]_vars
             PROVE  Safe'
  OBVIOUS
<1>1. CASE PoolNext /\ UNCHANGED bidVars
  <2>1. CASE (\E entry \in Entry : BeginConfig(entry)) \/ CommitConfig
    BY <1>1, <2>1, ConfigStep
  <2>2. CASE Assemble
    BY <1>1, <2>2, AssembleStep
  <2>3. CASE DayPasses
    BY <1>1, <2>3, DayStep
  <2>4. ASSUME NEW t \in Ticks, StartTick(t) \/ LookUp(t) \/ Insert(t) \/ TickDies(t)
        PROVE  Safe'
    BY <1>1, <2>4, StartStep, LookUpStep, InsertStep, DeathStep
  <2> QED BY <1>1, <2>1, <2>2, <2>3, <2>4 DEF PoolNext
<1>2. ASSUME NEW r \in Requests, NEW team \in Teams, NEW a \in DOMAIN auctions,
             NEW amount \in Amounts, NEW pick \in Picks \cup {Unset}, BeginBid(r, team, a, amount, pick)
      PROVE  Safe'
  BY <1>2, BeginStep
<1>3. ASSUME NEW r \in Requests, CommitBid(r) \/ AbortBid(r)
      PROVE  Safe'
  BY <1>3, CommitStep, AbortStep
<1>4. ASSUME NEW a \in DOMAIN auctions, CloseRestricted(a) \/ CloseUnbid(a) \/ CloseSold(a)
      PROVE  Safe'
  BY <1>4, RestrictedStep, UnbidStep, SoldStep
<1>5. ASSUME NEW id \in DOMAIN resolutions, NEW amount \in Amounts, NEW pick \in Picks,
             Raise(id, amount, pick)
      PROVE  Safe'
  BY <1>5, RaiseStep
<1>6. ASSUME NEW id \in DOMAIN resolutions, StandPat(id) \/ Match(id) \/ Decline(id)
      PROVE  Safe'
  BY <1>6, StandPatStep, MatchStep, DeclineStep
<1>7. CASE UNCHANGED vars
  <2>1. UNCHANGED <<poolVars, resolutions, naming, holder, request>>
    BY <1>7 DEF vars, bidVars
  <2>2. Grows(table, table') /\ SameAuctions /\ auctions' \in Seq(Auction)
    BY <2>1, Unchanging DEF Safe, Typed, AuctionsTyped, poolVars
  <2>3. RfaTyped' /\ RequestsTyped' /\ Auctioned'
    BY <2>1, <2>2, AuctionedKept, RequestsKept DEF Safe, Typed, RfaTyped, poolVars
  <2> QED BY <2>1, <2>2, <2>3, BidStep DEF poolVars
<1> QED BY <1>1, <1>2, <1>3, <1>4, <1>5, <1>6, <1>7 DEF Next, BidNext

LEMMA SafeIsTyped ==
  Safe => TypeOK
<1> SUFFICES ASSUME Safe
             PROVE  TypeOK
  OBVIOUS
<1>1. IsInjective([i \in DOMAIN schedule |-> schedule[i].player])
  BY DEF Safe, Typed, ScheduleTyped, IsInjective
<1>2. PoolTypeOK
  BY <1>1 DEF Safe, Typed, ConfigTyped, ScheduleTyped, AuctionsTyped, TicksTyped, Ordered, PoolTypeOK
<1>3. table \in Seq(Row) /\ auctions \in Seq(Auction)
  BY DEF Safe, Typed, Ordered, AuctionsTyped
<1>4. RfaTyped /\ RequestsTyped
  BY DEF Safe, Typed
<1>5. /\ \A id \in DOMAIN resolutions : id \in DOMAIN table /\ resolutions[id] \in Resolution
      /\ \A id \in DOMAIN naming : id \in DOMAIN resolutions /\ naming[id] \in Naming
      /\ holder \in [Picks -> Teams]
  BY <1>4 DEF RfaTyped
<1>6. \A r \in Requests : request[r] # Idle => request[r].auction \in DOMAIN auctions
  BY <1>4 DEF RequestsTyped
<1> QED BY <1>2, <1>3, <1>5, <1>6 DEF TypeOK, Naming

-----------------------------------------------------------------------------
(* Theorems *)

\* The state stays well formed, bids, ticks and rewrites racing as they may: rows keep the places
\* their ids name, no schedule has a player twice, every auction, resolution, naming and bid is for
\* something there is, and no price sinks below a dollar, whatever discount a signing takes.
THEOREM TypeCorrect == Spec => []TypeOK
BY SafeInit, SafeStep, SafeIsTyped, PTL DEF Spec

\* No player is put up for auction twice, dead ticks and ended auctions notwithstanding, as long as
\* the ticks do not overlap (open_scheduled_auction, run_preseason_auction_tick).
THEOREM NobodyUpTwice == TicksInTurn => (Spec => []PutUpOnce)
<1>1. TicksInTurn /\ Safe => PutUpOnce
  BY DEF Safe, Apart
<1>2. TicksInTurn => []TicksInTurn
  OBVIOUS
<1> QED BY <1>1, <1>2, SafeInit, SafeStep, PTL DEF Spec

-----------------------------------------------------------------------------
(***************************************************************************)
(* Proof that the leaders and winners of restricted free agents can pay    *)
(* for them (DebtsPayable), for any number of players, teams, picks,       *)
(* auctions and bids, as long as no team has two bids under way at once    *)
(* and ticks come one after the other.                                     *)
(*                                                                         *)
(* A bid checks its pick in one step and names it in another, so the       *)
(* invariant also says that meanwhile no step of somebody else touches     *)
(* what the bid has read.                                                  *)
(***************************************************************************)

\* A team bids or raises when it has no other bid under way.
OneBidEach == \A s \in Settings : ~s.racing

-----------------------------------------------------------------------------
(* The inductive invariant, part by part *)

InPlay(id) == resolutions[id].status \in InFlight
Contract(r) == auctions[request[r].auction].contract

\* What is owed for a player is backed by a pick named for him.
Backs(id, debt) ==
  /\ id \in DOMAIN naming /\ naming[id].from = debt.team
  /\ PickRound[naming[id].pick] <= CompensationRound(debt.amount)
BackedAt(id) == InPlay(id) => \A debt \in Debts(id) : Backs(id, debt)
Backed == \A id \in DOMAIN resolutions : BackedAt(id)

\* Who named a pick still holds it, and named it for one player.
StillHeld == \A id \in DOMAIN naming : InPlay(id) => holder[naming[id].pick] = naming[id].from
NamedOnce ==
  \A id, other \in DOMAIN naming :
    InPlay(id) /\ InPlay(other) /\ naming[id].pick = naming[other].pick => id = other

\* A resolution without a winner awaits its auction, one with a winner has seen it end.
Waits ==
  \A id \in DOMAIN resolutions :
    IF resolutions[id].status = "AwaitingAuction"
    THEN resolutions[id].winner = Unset /\ resolutions[id].raised = 0
    ELSE \A a \in DOMAIN auctions : auctions[a].contract = id => auctions[a].status # "Open"

\* What a bid under way has read is still so when it writes.
PendingAt(r) ==
  request[r] # Idle =>
    /\ auctions[request[r].auction].status = "Open"
    /\ Contract(r) \notin DOMAIN resolutions => request[r].pick = Unset
    /\ Contract(r) \in DOMAIN resolutions =>
         /\ request[r].pick \in Picks
         /\ EligiblePick(request[r].pick, request[r].team, CompensationRound(request[r].amount), Contract(r))
Pending == \A r \in Requests : PendingAt(r)
OneEach ==
  \A r, s \in Requests :
    request[r] # Idle /\ request[s] # Idle /\ r # s =>
      request[r].auction # request[s].auction /\ request[r].team # request[s].team

Payable == Backed /\ StillHeld /\ NamedOnce /\ Waits /\ Pending /\ OneEach
Solvent == Safe /\ Payable

LEMMA OneAuctionEach ==
  ASSUME Safe, TicksInTurn, NEW a \in DOMAIN auctions, NEW b \in DOMAIN auctions,
         auctions[a].contract = auctions[b].contract
  PROVE  a = b
BY DEF Safe, Apart, PutUpOnce

LEMMA DebtsOf ==
  ASSUME Safe, TicksInTurn, NEW a \in DOMAIN auctions, NEW id, auctions[a].contract = id
  PROVE  Debts(id) = IF resolutions[id].winner # Unset
                     THEN {[team |-> resolutions[id].winner, amount |-> EffectiveBid(resolutions[id])]}
                     ELSE {auctions[a].lead} \ {NoLead}
<1>1. {b \in DOMAIN auctions : auctions[b].contract = id} = {a}
  BY OneAuctionEach
<1> QED BY <1>1 DEF Debts

LEMMA PayableInit ==
  Init => Payable
<1> SUFFICES ASSUME Init
             PROVE  Payable
  OBVIOUS
<1> USE DEF Init, PoolInit
<1>1. /\ setting \in Settings
      /\ \A a \in DOMAIN auctions : auctions[a].lead = NoLead
      /\ \A id \in DOMAIN resolutions :
           /\ resolutions[id].status = "AwaitingAuction" /\ resolutions[id].winner = Unset
           /\ resolutions[id].raised = 0
  BY HouseConstants
<1>2. \A id \in DOMAIN resolutions : Debts(id) = {}
  BY <1>1 DEF Debts
<1>3. Backed
  BY <1>2 DEF Backed, BackedAt
<1>4. StillHeld /\ NamedOnce /\ Pending /\ OneEach
  BY DEF StillHeld, NamedOnce, Pending, PendingAt, OneEach
<1>5. Waits
  BY <1>1 DEF Waits
<1> QED BY <1>3, <1>4, <1>5 DEF Payable

-----------------------------------------------------------------------------
(* What keeps each part *)

LEMMA BackedStays ==
  ASSUME NEW id \in DOMAIN resolutions, BackedAt(id),
         InPlay(id)' => InPlay(id),
         resolutions'[id].winner = resolutions[id].winner,
         EffectiveBid(resolutions[id])' = EffectiveBid(resolutions[id]),
         id \in DOMAIN naming => id \in DOMAIN naming' /\ naming'[id] = naming[id],
         \A a \in DOMAIN auctions' :
           auctions'[a].contract = id /\ auctions'[a].lead # NoLead =>
             a \in DOMAIN auctions /\ auctions[a].contract = id /\ auctions'[a].lead = auctions[a].lead
  PROVE  BackedAt(id)'
<1>1. Debts(id)' \subseteq Debts(id)
  BY DEF Debts
<1>2. \A debt : Backs(id, debt) => Backs(id, debt)'
  BY DEF Backs
<1> QED BY <1>1, <1>2 DEF BackedAt

\* Pick and holder stay as long as nothing new is in play.
LEMMA NamesStay ==
  ASSUME StillHeld, NamedOnce,
         \A i \in DOMAIN naming' : InPlay(i)' =>
           /\ i \in DOMAIN naming /\ InPlay(i) /\ naming'[i] = naming[i]
           /\ holder'[naming[i].pick] = holder[naming[i].pick]
  PROVE  StillHeld' /\ NamedOnce'
BY DEF StillHeld, NamedOnce

\* A pick that was eligible may be named.
LEMMA PickNamed ==
  ASSUME StillHeld, NamedOnce, UNCHANGED holder,
         NEW id, NEW pick, NEW team, NEW round, EligiblePick(pick, team, round, id),
         DOMAIN naming' = DOMAIN naming \cup {id},
         naming'[id].pick = pick, naming'[id].from = team,
         \A i \in DOMAIN naming \ {id} : naming'[i] = naming[i] /\ (InPlay(i)' => InPlay(i))
  PROVE  StillHeld' /\ NamedOnce'
<1>1. holder[pick] = team
  BY DEF EligiblePick
<1>2. ASSUME NEW i \in DOMAIN naming \ {id}, InPlay(i)
      PROVE  naming[i].pick # pick
  <2> SUFFICES ASSUME naming[i].pick = pick
               PROVE  FALSE
    OBVIOUS
  <2>1. naming[i].from = team
    BY <1>1, <1>2 DEF StillHeld
  <2>2. pick \in Reserved(team, id)
    BY <1>2, <2>1 DEF Reserved, InPlay
  <2> QED BY <2>2 DEF EligiblePick
<1>3. StillHeld'
  BY <1>1 DEF StillHeld
<1>4. NamedOnce'
  BY <1>2 DEF NamedOnce
<1> QED BY <1>3, <1>4

LEMMA EligibleStays ==
  ASSUME NEW pick, NEW team, NEW round, NEW id, EligiblePick(pick, team, round, id),
         holder'[pick] = holder[pick],
         \A i \in DOMAIN naming' \ {id} :
           naming'[i].from = team /\ InPlay(i)' =>
             i \in DOMAIN naming /\ naming[i] = naming'[i] /\ InPlay(i)
  PROVE  EligiblePick(pick, team, round, id)'
<1>1. Reserved(team, id)' \subseteq Reserved(team, id)
  BY DEF Reserved, InPlay
<1> QED BY <1>1 DEF EligiblePick

\* The other bids under way.
LEMMA PendingStays ==
  ASSUME NEW r \in Requests, PendingAt(r), request'[r] = request[r], request[r] # Idle,
         auctions'[request[r].auction].status = auctions[request[r].auction].status,
         auctions'[request[r].auction].contract = auctions[request[r].auction].contract,
         DOMAIN resolutions' = DOMAIN resolutions,
         Contract(r) \in DOMAIN resolutions =>
           (EligiblePick(request[r].pick, request[r].team, CompensationRound(request[r].amount), Contract(r))
              => holder'[request[r].pick] = holder[request[r].pick]),
         \A i \in DOMAIN naming' \ {Contract(r)} :
           naming'[i].from = request[r].team /\ InPlay(i)' =>
             i \in DOMAIN naming /\ naming[i] = naming'[i] /\ InPlay(i)
  PROVE  PendingAt(r)'
<1> DEFINE q == request[r]
           round == CompensationRound(q.amount)
<1>1. Contract(r)' = Contract(r) /\ q' = q /\ auctions'[q.auction].status = "Open"
  BY DEF Contract, PendingAt
<1>2. ASSUME NEW id, id = Contract(r), id \in DOMAIN resolutions,
             EligiblePick(q.pick, q.team, round, id)
      PROVE  EligiblePick(q.pick, q.team, round, id)'
  <2>1. ASSUME NEW pick, NEW team, NEW amount, pick = q.pick, team = q.team, amount = q.amount
        PROVE  EligiblePick(pick, team, CompensationRound(amount), id)'
    BY <1>2, <2>1, EligibleStays
  <2> QED BY <1>1, <2>1
<1> QED BY <1>1, <1>2 DEF PendingAt

-----------------------------------------------------------------------------
(* The steps of the pool *)

LEMMA PoolKeeps ==
  ASSUME Payable, UNCHANGED <<auctions, bidVars>>
  PROVE  Payable'
<1> USE DEF bidVars, InPlay
<1>1. UNCHANGED <<auctions, resolutions, naming, holder, request>>
  OBVIOUS
<1>2. Backed'
  BY <1>1 DEF Payable, Backed, BackedAt, Backs, Debts, EffectiveBid
<1>3. StillHeld' /\ NamedOnce' /\ Waits'
  BY <1>1 DEF Payable, StillHeld, NamedOnce, Waits
<1>4. Pending' /\ OneEach'
  BY <1>1 DEF Payable, Pending, PendingAt, OneEach, Contract, EligiblePick, Reserved
<1> QED BY <1>2, <1>3, <1>4 DEF Payable

LEMMA InsertKeeps ==
  ASSUME Solvent, TicksInTurn, UNCHANGED bidVars, NEW t \in Ticks, Insert(t)
  PROVE  Payable'
<1> DEFINE new == tick[t].auction
           last == Len(auctions) + 1
<1>1. tick[t].at = "inserting" /\ auctions' = Append(auctions, new)
  BY DEF Insert
<1>2. auctions \in Seq(Auction) /\ new \in Auction /\ new.lead = NoLead
  BY <1>1 DEF Solvent, Safe, Typed, AuctionsTyped, TicksTyped, ToInsert
<1>3. \A a \in DOMAIN auctions : auctions[a].contract # new.contract
  BY <1>1 DEF Solvent, Safe, Apart, Looked, Opened
<1> HIDE DEF new
<1>4. /\ DOMAIN auctions' = DOMAIN auctions \cup {last} /\ last \notin DOMAIN auctions
      /\ auctions'[last] = new /\ \A a \in DOMAIN auctions : auctions'[a] = auctions[a]
  BY <1>1, <1>2
<1> HIDE DEF last
<1>5. UNCHANGED <<resolutions, naming, holder, request>>
  BY DEF bidVars
<1>6. Backed'
  <2> SUFFICES ASSUME NEW id \in DOMAIN resolutions
               PROVE  BackedAt(id)'
    BY <1>5 DEF Backed
  <2>1. BackedAt(id)
    BY DEF Solvent, Payable, Backed
  <2>2. (InPlay(id)' => InPlay(id)) /\ EffectiveBid(resolutions[id])' = EffectiveBid(resolutions[id])
    BY <1>5 DEF InPlay, EffectiveBid
  <2> QED BY <1>2, <1>4, <1>5, <2>1, <2>2, BackedStays
<1>7. StillHeld' /\ NamedOnce'
  BY <1>5 DEF Solvent, Payable, StillHeld, NamedOnce, InPlay
<1>8. Waits'
  <2> SUFFICES ASSUME NEW id \in DOMAIN resolutions, resolutions[id].status # "AwaitingAuction",
                      NEW a \in DOMAIN auctions', auctions'[a].contract = id
               PROVE  auctions'[a].status # "Open"
    BY <1>5 DEF Waits, Solvent, Payable
  <2>1. \E b \in DOMAIN auctions : auctions[b].contract = id
    BY DEF Solvent, Safe, Auctioned, Won
  <2>2. a # last
    BY <1>3, <1>4, <2>1
  <2> QED BY <1>4, <2>2 DEF Waits, Solvent, Payable
<1>9. Pending'
  <2> SUFFICES ASSUME NEW r \in Requests, request[r] # Idle
               PROVE  PendingAt(r)'
    BY <1>5 DEF Pending, PendingAt
  <2>1. request[r].auction \in DOMAIN auctions /\ PendingAt(r)
    BY DEF Solvent, Safe, Typed, RequestsTyped, Payable, Pending
  <2> QED BY <1>4, <1>5, <2>1 DEF PendingAt, Contract, EligiblePick, Reserved
<1>10. OneEach'
  BY <1>5 DEF Solvent, Payable, OneEach
<1> QED BY <1>6, <1>7, <1>8, <1>9, <1>10 DEF Payable

-----------------------------------------------------------------------------
(* Bids *)

LEMMA BeginKeeps ==
  ASSUME Solvent, OneBidEach,
         NEW r \in Requests, NEW team \in Teams, NEW a \in DOMAIN auctions,
         NEW amount \in Amounts, NEW pick \in Picks \cup {Unset}, BeginBid(r, team, a, amount, pick)
  PROVE  Payable'
<1> DEFINE new == [at |-> "writing", auction |-> a, team |-> team, amount |-> amount, pick |-> pick]
           id == auctions[a].contract
<1>1. /\ UNCHANGED <<auctions, resolutions, naming, holder>> /\ request' = [request EXCEPT ![r] = new]
      /\ RowFree(a) /\ Quiet(team) /\ auctions[a].status = "Open" /\ PickSettles(pick, team, id, amount)
  BY DEF BeginBid, poolVars
<1>2. request'[r] = new /\ \A s \in Requests \ {r} : request'[s] = request[s]
  BY <1>1 DEF Solvent, Safe, Typed, RequestsTyped
<1>3. Backed'
  BY <1>1 DEF Solvent, Payable, Backed, BackedAt, Backs, Debts, EffectiveBid, InPlay
<1>4. StillHeld' /\ NamedOnce' /\ Waits'
  BY <1>1 DEF Solvent, Payable, StillHeld, NamedOnce, Waits, InPlay
<1>5. new.auction = a /\ new.team = team /\ new.amount = amount /\ new.pick = pick
  OBVIOUS
<1> HIDE DEF new
<1>6. id \in DOMAIN resolutions =>
        pick \in Picks /\ EligiblePick(pick, team, CompensationRound(amount), id)
  BY <1>1 DEF Solvent, Payable, Waits, PickSettles, AwaitsAuction
<1>7. id \notin DOMAIN resolutions => pick = Unset
  BY <1>1 DEF PickSettles, AwaitsAuction
<1>8. PendingAt(r)'
  BY <1>1, <1>2, <1>5, <1>6, <1>7 DEF PendingAt, Contract, EligiblePick, Reserved
<1>9. ASSUME NEW s \in Requests \ {r}
      PROVE  PendingAt(s)'
  BY <1>1, <1>2 DEF Solvent, Payable, Pending, PendingAt, Contract, EligiblePick, Reserved
<1>10. OneEach'
  <2>1. ASSUME NEW s \in Requests \ {r}, request[s] # Idle
        PROVE  request[s].auction # a /\ request[s].team # team
    BY <1>1, <2>1 DEF RowFree, Quiet, OneBidEach, Solvent, Safe, Typed, ConfigTyped
  <2> QED BY <1>2, <1>5, <2>1 DEF Solvent, Payable, OneEach
<1> QED BY <1>3, <1>4, <1>8, <1>9, <1>10 DEF Payable, Pending

LEMMA AbortKeeps ==
  ASSUME Solvent, NEW r \in Requests, AbortBid(r)
  PROVE  Payable'
<1>1. UNCHANGED <<auctions, resolutions, naming, holder>> /\ request' = [request EXCEPT ![r] = Idle]
  BY DEF AbortBid, poolVars
<1>2. request'[r] = Idle /\ \A s \in Requests \ {r} : request'[s] = request[s]
  BY <1>1 DEF Solvent, Safe, Typed, RequestsTyped
<1>3. Backed'
  BY <1>1 DEF Solvent, Payable, Backed, BackedAt, Backs, Debts, EffectiveBid, InPlay
<1>4. StillHeld' /\ NamedOnce' /\ Waits'
  BY <1>1 DEF Solvent, Payable, StillHeld, NamedOnce, Waits, InPlay
<1>5. ASSUME NEW s \in Requests \ {r}
      PROVE  PendingAt(s)'
  BY <1>1, <1>2 DEF Solvent, Payable, Pending, PendingAt, Contract, EligiblePick, Reserved
<1>6. PendingAt(r)' /\ OneEach'
  BY <1>2 DEF PendingAt, Solvent, Payable, OneEach
<1> QED BY <1>3, <1>4, <1>5, <1>6 DEF Payable, Pending

\* A bid that writes names the pick it has checked, and nobody has named it since.
LEMMA CommitKeeps ==
  ASSUME Solvent, TicksInTurn, NEW r \in Requests, CommitBid(r)
  PROVE  Payable'
<1> DEFINE q == request[r]
           a == q.auction
           id == auctions[a].contract
           lead == [team |-> q.team, amount |-> q.amount]
           round == CompensationRound(q.amount)
           named == [pick |-> q.pick, from |-> q.team, round |-> round]
<1>1. /\ q # Idle /\ auctions' = [auctions EXCEPT ![a].lead = lead]
      /\ naming' = IF q.pick = Unset THEN naming
                   ELSE [n \in {id} \cup DOMAIN naming |-> IF n # id THEN naming[n] ELSE named]
      /\ request' = [request EXCEPT ![r] = Idle]
      /\ UNCHANGED <<resolutions, holder>>
  BY DEF CommitBid
<1>2. /\ a \in DOMAIN auctions /\ auctions \in Seq(Auction)
      /\ auctions[a] \in Auction
  BY <1>1 DEF Solvent, Safe, Typed, AuctionsTyped, RequestsTyped
<1>3. /\ auctions[a].status = "Open" /\ (id \in DOMAIN resolutions <=> q.pick # Unset)
      /\ id \in DOMAIN resolutions => EligiblePick(q.pick, q.team, round, id)
  BY <1>1, HouseConstants DEF Solvent, Payable, Pending, PendingAt, Contract
<1>4. /\ DOMAIN auctions' = DOMAIN auctions /\ auctions'[a].lead = lead
      /\ \A b \in DOMAIN auctions :
           auctions'[b].contract = auctions[b].contract /\ auctions'[b].status = auctions[b].status
      /\ \A b \in DOMAIN auctions \ {a} : auctions'[b] = auctions[b]
  <2> HIDE DEF q, a, lead
  <2> QED BY <1>1, <1>2 DEF Auction
<1>5. request'[r] = Idle /\ \A s \in Requests \ {r} : request'[s] = request[s]
  BY <1>1 DEF Solvent, Safe, Typed, RequestsTyped
<1>6. /\ id \in DOMAIN resolutions => id \in DOMAIN naming' /\ naming'[id] = named
      /\ \A n \in DOMAIN naming \ {id} : n \in DOMAIN naming' /\ naming'[n] = naming[n]
      /\ id \notin DOMAIN resolutions => naming' = naming
      /\ id \in DOMAIN resolutions => DOMAIN naming' = DOMAIN naming \cup {id}
  <2> HIDE DEF id, named, q
  <2> QED BY <1>1, <1>3
<1>7. named.pick = q.pick /\ named.from = q.team /\ lead.team = q.team /\ lead.amount = q.amount
  OBVIOUS
<1>8. Backed'
  <2> SUFFICES ASSUME NEW i \in DOMAIN resolutions
               PROVE  BackedAt(i)'
    BY <1>1 DEF Backed
  <2>1. CASE i # id
    <3>1. BackedAt(i) /\ (InPlay(i)' => InPlay(i))
          /\ EffectiveBid(resolutions[i])' = EffectiveBid(resolutions[i])
      BY <1>1 DEF Solvent, Payable, Backed, InPlay, EffectiveBid
    <3>2. i \in DOMAIN naming => i \in DOMAIN naming' /\ naming'[i] = naming[i]
      BY <1>6, <2>1
    <3>3. \A b \in DOMAIN auctions' :
            auctions'[b].contract = i => b \in DOMAIN auctions /\ auctions'[b] = auctions[b]
      BY <1>4, <2>1
    <3> HIDE DEF q, a, id, lead, named
    <3> QED BY <1>1, <3>1, <3>2, <3>3, BackedStays
  <2>2. CASE i = id
    <3>1. resolutions[id].winner = Unset
      BY <1>2, <1>3, <2>2 DEF Solvent, Payable, Waits
    <3>2. {b \in DOMAIN auctions' : auctions'[b].contract = i} = {a}
      BY <1>2, <1>4, <2>2, OneAuctionEach DEF Solvent
    <3>3. Debts(i)' \subseteq {lead}
      <4>1. resolutions'[i].winner = Unset
        BY <1>1, <2>2, <3>1
      <4> HIDE DEF q, a, id, lead, named
      <4> QED BY <1>4, <3>2, <4>1 DEF Debts
    <3>4. PickRound[q.pick] <= round
      BY <1>3, <2>2 DEF EligiblePick
    <3>5. ASSUME NEW debt, debt = lead
          PROVE  Backs(i, debt)'
      <4>1. debt.team = q.team /\ debt.amount = q.amount
        BY <3>5
      <4> HIDE DEF q, named
      <4> QED BY <1>6, <1>7, <2>2, <3>4, <4>1 DEF Backs
    <3> QED BY <3>3, <3>5 DEF BackedAt
  <2> QED BY <2>1, <2>2
<1>9. StillHeld' /\ NamedOnce'
  <2>0. StillHeld /\ NamedOnce /\ \A i : InPlay(i)' <=> InPlay(i)
    BY <1>1 DEF Solvent, Payable, InPlay
  <2> HIDE DEF q, a, id, lead, named, round
  <2>1. CASE id \notin DOMAIN resolutions
    BY <2>0, <2>1, <1>1, <1>6, NamesStay
  <2>2. CASE id \in DOMAIN resolutions
    <3> DEFINE pick == q.pick
               team == q.team
    <3>1. /\ EligiblePick(pick, team, round, id) /\ naming'[id].pick = pick /\ naming'[id].from = team
          /\ DOMAIN naming' = DOMAIN naming \cup {id}
          /\ \A i \in DOMAIN naming \ {id} : naming'[i] = naming[i]
      BY <2>2, <1>3, <1>6, <1>7
    <3> HIDE DEF pick, team
    <3> QED BY <1>1, <2>0, <3>1, PickNamed
  <2> QED BY <2>1, <2>2
<1>10. Waits'
  <2> HIDE DEF q, a, id, lead, named
  <2> QED BY <1>1, <1>4 DEF Solvent, Payable, Waits
<1>11. ASSUME NEW s \in Requests \ {r}, request[s] # Idle
       PROVE  PendingAt(s)'
  <2>1. /\ request[s].auction # a /\ request[s].team # q.team
        /\ request[s].auction \in DOMAIN auctions /\ PendingAt(s)
    BY <1>1, <1>11 DEF Solvent, Payable, OneEach, Pending, Safe, Typed, RequestsTyped
  <2>2. \A i \in DOMAIN naming' \ {Contract(s)} :
          naming'[i].from = request[s].team /\ InPlay(i)' =>
            i \in DOMAIN naming /\ naming[i] = naming'[i] /\ InPlay(i)
    <3>1. \A i : InPlay(i)' <=> InPlay(i)
      BY <1>1 DEF InPlay
    <3> HIDE DEF q, a, id, lead, named
    <3> QED BY <1>6, <1>7, <2>1, <3>1
  <2> HIDE DEF q, a, id, lead, named
  <2> QED BY <1>1, <1>4, <1>5, <1>11, <2>1, <2>2, PendingStays
<1>12. Pending' /\ OneEach'
  BY <1>5, <1>11 DEF Solvent, Payable, Pending, PendingAt, OneEach
<1> QED BY <1>8, <1>9, <1>10, <1>12 DEF Payable

-----------------------------------------------------------------------------
(* Closes *)

\* The bids under way are on other auctions.
LEMMA RowFreed ==
  ASSUME Solvent, NEW a \in DOMAIN auctions, RowFree(a), NEW r \in Requests, request[r] # Idle
  PROVE  request[r].auction \in DOMAIN auctions \ {a} /\ PendingAt(r)
BY DEF Solvent, Safe, Typed, RequestsTyped, RowFree, Payable, Pending

LEMMA StatusSet ==
  ASSUME Solvent, NEW a \in DOMAIN auctions, NEW status,
         auctions' = [auctions EXCEPT ![a].status = status]
  PROVE  /\ DOMAIN auctions' = DOMAIN auctions /\ auctions'[a].status = status
         /\ \A b \in DOMAIN auctions :
              auctions'[b].contract = auctions[b].contract /\ auctions'[b].lead = auctions[b].lead
         /\ \A b \in DOMAIN auctions \ {a} : auctions'[b] = auctions[b]
<1>1. auctions \in Seq(Auction) /\ auctions[a] \in Auction
  BY DEF Solvent, Safe, Typed, AuctionsTyped
<1> QED BY <1>1 DEF Auction

\* An auction that ends takes no bid and no resolution with it.
LEMMA EndKeeps ==
  ASSUME Solvent, NEW a \in DOMAIN auctions, NEW status, status # "Open", RowFree(a),
         auctions' = [auctions EXCEPT ![a].status = status],
         UNCHANGED <<resolutions, naming, holder, request>>
  PROVE  Payable'
<1>1. /\ DOMAIN auctions' = DOMAIN auctions /\ auctions'[a].status = status
      /\ \A b \in DOMAIN auctions :
           auctions'[b].contract = auctions[b].contract /\ auctions'[b].lead = auctions[b].lead
      /\ \A b \in DOMAIN auctions \ {a} : auctions'[b] = auctions[b]
  BY StatusSet
<1>2. Backed'
  <2> SUFFICES ASSUME NEW i \in DOMAIN resolutions
               PROVE  BackedAt(i)'
    BY DEF Backed
  <2>1. BackedAt(i) /\ (InPlay(i)' => InPlay(i))
        /\ EffectiveBid(resolutions[i])' = EffectiveBid(resolutions[i])
    BY DEF Solvent, Payable, Backed, InPlay, EffectiveBid
  <2> QED BY <1>1, <2>1, BackedStays
<1>3. StillHeld' /\ NamedOnce' /\ OneEach'
  BY DEF Solvent, Payable, StillHeld, NamedOnce, OneEach, InPlay
<1>4. Waits'
  BY <1>1 DEF Solvent, Payable, Waits
<1>5. ASSUME NEW r \in Requests, request[r] # Idle
      PROVE  PendingAt(r)'
  <2>1. request[r].auction \in DOMAIN auctions \ {a} /\ PendingAt(r)
    BY <1>5, RowFreed
  <2> QED BY <1>1, <1>5, <2>1 DEF PendingAt, Contract, EligiblePick, Reserved
<1>6. Pending'
  BY <1>5 DEF Pending, PendingAt
<1> QED BY <1>2, <1>3, <1>4, <1>6 DEF Payable

\* The leader of an auction becomes the winner: what backed his bid backs what he has won.
LEMMA RestrictedKeeps ==
  ASSUME Solvent, TicksInTurn, NEW a \in DOMAIN auctions, CloseRestricted(a)
  PROVE  Payable'
<1> DEFINE id == auctions[a].contract
           lead == auctions[a].lead
<1>1. /\ RowFree(a) /\ auctions[a].status = "Open" /\ auctions' = [auctions EXCEPT ![a].status = "Closed"]
      /\ UNCHANGED <<naming, holder, request>>
      /\ resolutions' = IF lead = NoLead \/ ~AwaitsAuction(id) THEN resolutions
                        ELSE [resolutions EXCEPT ![id].status = "AwaitingRaise", ![id].winner = lead.team,
                                                 ![id].final = lead.amount]
  BY DEF CloseRestricted, Closable
<1>2. CASE resolutions' = resolutions
  BY <1>1, <1>2, EndKeeps
<1>3. CASE lead # NoLead /\ AwaitsAuction(id)
  <2>1. /\ DOMAIN auctions' = DOMAIN auctions /\ auctions'[a].status = "Closed"
        /\ \A b \in DOMAIN auctions :
             auctions'[b].contract = auctions[b].contract /\ auctions'[b].lead = auctions[b].lead
        /\ \A b \in DOMAIN auctions \ {a} : auctions'[b] = auctions[b]
    BY <1>1, StatusSet
  <2>2. /\ id \in DOMAIN resolutions /\ resolutions[id] \in Resolution /\ InPlay(id)
        /\ resolutions[id].status = "AwaitingAuction"
        /\ resolutions[id].winner = Unset /\ resolutions[id].raised = 0
    BY <1>3 DEF AwaitsAuction, InPlay, InFlight, Solvent, Payable, Waits, Safe, Typed, RfaTyped
  <2>3. lead.team \in Teams /\ lead.team # Unset
    <3>1. lead \in Lead \ {NoLead}
      <4>1. auctions \in Seq(Auction)
        BY DEF Solvent, Safe, Typed, AuctionsTyped
      <4>2. auctions[a] \in Auction
        BY <4>1
      <4>3. lead \in Lead
        BY <4>2 DEF Auction
      <4> QED BY <1>3, <4>3
    <3> HIDE DEF lead
    <3> QED BY <3>1, HouseConstants DEF Lead
  <2>4. /\ DOMAIN resolutions' = DOMAIN resolutions
        /\ \A i \in DOMAIN resolutions \ {id} : resolutions'[i] = resolutions[i]
        /\ resolutions'[id].status = "AwaitingRaise" /\ resolutions'[id].winner = lead.team
        /\ resolutions'[id].final = lead.amount /\ resolutions'[id].raised = 0
    <3> DEFINE old == resolutions[id]
    <3>1. resolutions' = [resolutions EXCEPT ![id] =
                            [old EXCEPT !.status = "AwaitingRaise", !.winner = lead.team,
                                        !.final = lead.amount]]
      BY <1>1, <1>3
    <3>2. old \in Resolution /\ old.raised = 0
      BY <2>2
    <3> HIDE DEF old, lead, id
    <3> QED BY <2>2, <3>1, <3>2 DEF Resolution
  <2>5. Backed'
    <3> SUFFICES ASSUME NEW i \in DOMAIN resolutions
                 PROVE  BackedAt(i)'
      BY <2>4 DEF Backed
    <3>1. BackedAt(i)
      BY DEF Solvent, Payable, Backed
    <3>2. CASE i # id
      <4>1. (InPlay(i)' => InPlay(i)) /\ EffectiveBid(resolutions[i])' = EffectiveBid(resolutions[i])
            /\ resolutions'[i].winner = resolutions[i].winner
        BY <2>4, <3>2 DEF InPlay, EffectiveBid
      <4> HIDE DEF id, lead
      <4> QED BY <1>1, <2>1, <3>1, <4>1, BackedStays
    <3>3. CASE i = id
      <4>1. Debts(id) = {lead} \ {NoLead}
        BY <2>2, DebtsOf DEF Solvent
      <4>2. Backs(id, lead)
        BY <1>3, <2>2, <3>1, <3>3, <4>1 DEF BackedAt
      <4>3. resolutions'[i].winner = lead.team /\ EffectiveBid(resolutions'[i]) = lead.amount
        BY <2>4, <3>3 DEF EffectiveBid
      <4>4. Debts(i)' = {[team |-> lead.team, amount |-> lead.amount]}
        <5> HIDE DEF id, lead
        <5> QED BY <2>3, <4>3 DEF Debts
      <4>5. ASSUME NEW debt, debt.team = lead.team, debt.amount = lead.amount
            PROVE  Backs(i, debt)'
        BY <1>1, <3>3, <4>2, <4>5 DEF Backs
      <4>6. \A debt \in Debts(i)' : debt.team = lead.team /\ debt.amount = lead.amount
        <5> HIDE DEF lead
        <5> QED BY <4>4
      <4> HIDE DEF id, lead
      <4> QED BY <4>5, <4>6 DEF BackedAt
    <3> QED BY <3>2, <3>3
  <2>6. \A i \in DOMAIN resolutions : InPlay(i)' => InPlay(i)
    BY <2>2, <2>4 DEF InPlay
  <2>7. StillHeld' /\ NamedOnce'
    <3>1. DOMAIN naming \subseteq DOMAIN resolutions
      BY DEF Solvent, Safe, Typed, RfaTyped
    <3> QED BY <1>1, <2>6, <3>1, NamesStay DEF Solvent, Payable
  <2>8. Waits'
    <3> SUFFICES ASSUME NEW i \in DOMAIN resolutions
                 PROVE  IF resolutions'[i].status = "AwaitingAuction"
                        THEN resolutions'[i].winner = Unset /\ resolutions'[i].raised = 0
                        ELSE \A b \in DOMAIN auctions' :
                               auctions'[b].contract = i => auctions'[b].status # "Open"
      BY <2>4 DEF Waits
    <3>1. CASE i # id
      BY <2>1, <2>4, <3>1 DEF Solvent, Payable, Waits
    <3>2. CASE i = id
      <4>1. \A b \in DOMAIN auctions : auctions[b].contract = id => b = a
        BY OneAuctionEach DEF Solvent
      <4> QED BY <2>1, <2>4, <3>2, <4>1
    <3> QED BY <3>1, <3>2
  <2>9. ASSUME NEW r \in Requests, request[r] # Idle
        PROVE  PendingAt(r)'
    <3>1. request[r].auction \in DOMAIN auctions \ {a} /\ PendingAt(r)
      BY <1>1, <2>9, RowFreed
    <3>2. \A i \in DOMAIN naming' : i \in DOMAIN naming /\ naming[i] = naming'[i] /\ (InPlay(i)' => InPlay(i))
      BY <1>1, <2>6 DEF Solvent, Safe, Typed, RfaTyped
    <3> HIDE DEF id, lead
    <3> QED BY <1>1, <2>1, <2>4, <2>9, <3>1, <3>2, PendingStays
  <2>10. Pending' /\ OneEach'
    BY <1>1, <2>9 DEF Pending, PendingAt, Solvent, Payable, OneEach
  <2> QED BY <2>5, <2>7, <2>8, <2>10 DEF Payable
<1> QED BY <1>1, <1>2, <1>3

-----------------------------------------------------------------------------
(* Raise and match *)

\* Who has won a player has named a pick for him.
LEMMA WonIsBacked ==
  ASSUME Solvent, NEW id \in DOMAIN resolutions, resolutions[id].status \in {"AwaitingRaise", "AwaitingMatch"}
  PROVE  /\ InPlay(id) /\ resolutions[id] \in Resolution
         /\ resolutions[id].winner \in Teams /\ resolutions[id].winner # Unset
         /\ id \in DOMAIN naming /\ naming[id].from = resolutions[id].winner
         /\ \A a \in DOMAIN auctions : auctions[a].contract = id => auctions[a].status # "Open"
<1> DEFINE debt == [team |-> resolutions[id].winner, amount |-> EffectiveBid(resolutions[id])]
<1>1. InPlay(id)
  BY DEF InPlay, InFlight
<1>2. resolutions[id] \in Resolution /\ resolutions[id].winner \in Teams /\ resolutions[id].winner # Unset
  BY AfterAuction, HouseConstants DEF Solvent
<1>3. debt \in Debts(id)
  BY <1>2 DEF Debts
<1>4. Backs(id, debt) /\ debt.team = resolutions[id].winner
  BY <1>1, <1>3 DEF Solvent, Payable, Backed, BackedAt
<1>5. \A a \in DOMAIN auctions : auctions[a].contract = id => auctions[a].status # "Open"
  BY DEF Solvent, Payable, Waits
<1> HIDE DEF debt
<1> QED BY <1>1, <1>2, <1>4, <1>5 DEF Backs

\* A bid under way is for another player than those past their auction.
LEMMA PendingElsewhere ==
  ASSUME Solvent, NEW id \in DOMAIN resolutions, resolutions[id].status # "AwaitingAuction",
         NEW r \in Requests, request[r] # Idle
  PROVE  Contract(r) # id /\ PendingAt(r) /\ request[r].auction \in DOMAIN auctions
BY DEF Solvent, Safe, Typed, RequestsTyped, Payable, Waits, Pending, PendingAt, Contract

LEMMA RaiseKeeps ==
  ASSUME Solvent, OneBidEach, NEW id \in DOMAIN resolutions, NEW amount \in Amounts, NEW pick \in Picks,
         Raise(id, amount, pick)
  PROVE  Payable'
<1> DEFINE winner == resolutions[id].winner
           round == CompensationRound(amount)
           named == [pick |-> pick, from |-> winner, round |-> round]
<1>1. /\ resolutions[id].status = "AwaitingRaise" /\ Quiet(winner)
      /\ EligiblePick(pick, winner, round, id)
      /\ naming' = [naming EXCEPT ![id] = named]
      /\ resolutions' = [resolutions EXCEPT ![id].status = "AwaitingMatch", ![id].raised = amount]
      /\ UNCHANGED <<auctions, holder, request>>
  BY DEF Raise, poolVars
<1>2. /\ InPlay(id) /\ resolutions[id] \in Resolution /\ winner # Unset /\ id \in DOMAIN naming
      /\ amount \in Nat \ {0}
  BY <1>1, WonIsBacked, HouseConstants
<1>3. /\ DOMAIN resolutions' = DOMAIN resolutions
      /\ \A i \in DOMAIN resolutions \ {id} : resolutions'[i] = resolutions[i]
      /\ resolutions'[id].status = "AwaitingMatch" /\ resolutions'[id].winner = winner
      /\ resolutions'[id].raised = amount
  <2> DEFINE old == resolutions[id]
  <2>1. resolutions' = [resolutions EXCEPT ![id] =
                          [old EXCEPT !.status = "AwaitingMatch", !.raised = amount]]
    BY <1>1
  <2>2. old \in Resolution /\ old.winner = winner
    BY <1>2
  <2> HIDE DEF old, winner
  <2> QED BY <2>1, <2>2 DEF Resolution
<1>4. /\ DOMAIN naming' = DOMAIN naming /\ naming'[id].pick = pick /\ naming'[id].from = winner
      /\ \A i \in DOMAIN naming \ {id} : naming'[i] = naming[i]
  <2>1. named.pick = pick /\ named.from = winner
    OBVIOUS
  <2> HIDE DEF named
  <2> QED BY <1>1, <1>2, <2>1
<1>5. \A i \in DOMAIN resolutions : InPlay(i)' => InPlay(i)
  BY <1>2, <1>3 DEF InPlay
<1>6. Backed'
  <2> SUFFICES ASSUME NEW i \in DOMAIN resolutions
               PROVE  BackedAt(i)'
    BY <1>3 DEF Backed
  <2>1. CASE i # id
    <3>1. BackedAt(i) /\ (InPlay(i)' => InPlay(i)) /\ resolutions'[i].winner = resolutions[i].winner
          /\ EffectiveBid(resolutions[i])' = EffectiveBid(resolutions[i])
      BY <1>3, <2>1 DEF Solvent, Payable, Backed, InPlay, EffectiveBid
    <3>2. i \in DOMAIN naming => i \in DOMAIN naming' /\ naming'[i] = naming[i]
      BY <1>4, <2>1
    <3> HIDE DEF winner, named
    <3> QED BY <1>1, <3>1, <3>2, BackedStays
  <2>2. CASE i = id
    <3>1. resolutions'[i].winner = winner /\ EffectiveBid(resolutions'[i]) = amount
      BY <1>2, <1>3, <2>2 DEF EffectiveBid
    <3>2. \A debt \in Debts(i)' : debt.team = winner /\ debt.amount = amount
      <4>1. Debts(i)' = {[team |-> winner, amount |-> amount]}
        <5> HIDE DEF winner
        <5> QED BY <1>2, <3>1 DEF Debts
      <4> HIDE DEF winner
      <4> QED BY <4>1
    <3>3. PickRound[pick] <= round
      BY <1>1 DEF EligiblePick
    <3> HIDE DEF winner, named
    <3> QED BY <1>2, <1>4, <2>2, <3>2, <3>3 DEF BackedAt, Backs
  <2> QED BY <2>1, <2>2
<1>7. StillHeld' /\ NamedOnce'
  <2>1. \A i \in DOMAIN naming \ {id} : naming'[i] = naming[i] /\ (InPlay(i)' => InPlay(i))
    BY <1>4, <1>5 DEF Solvent, Safe, Typed, RfaTyped
  <2>2. DOMAIN naming' = DOMAIN naming \cup {id}
    BY <1>2, <1>4
  <2>3. ASSUME NEW team, team = winner
        PROVE  EligiblePick(pick, team, round, id) /\ naming'[id].from = team
    BY <1>1, <1>4, <2>3
  <2>4. StillHeld /\ NamedOnce
    BY DEF Solvent, Payable
  <2> HIDE DEF winner, round, named
  <2> QED BY <1>1, <1>4, <2>1, <2>2, <2>3, <2>4, PickNamed
<1>8. Waits'
  BY <1>1, <1>3 DEF Solvent, Payable, Waits
<1>9. ASSUME NEW r \in Requests, request[r] # Idle
      PROVE  PendingAt(r)'
  <2>1. Contract(r) # id /\ PendingAt(r) /\ request[r].auction \in DOMAIN auctions
    BY <1>1, <1>9, PendingElsewhere
  <2>2. request[r].team # winner
    BY <1>1, <1>9 DEF Quiet, OneBidEach, Solvent, Safe, Typed, ConfigTyped
  <2>3. \A i \in DOMAIN naming' \ {Contract(r)} :
          naming'[i].from = request[r].team /\ InPlay(i)' =>
            i \in DOMAIN naming /\ naming[i] = naming'[i] /\ InPlay(i)
    BY <1>4, <1>5, <2>2 DEF Solvent, Safe, Typed, RfaTyped
  <2> HIDE DEF winner, named, round
  <2> QED BY <1>1, <1>3, <1>9, <2>1, <2>3, PendingStays
<1>10. Pending' /\ OneEach'
  BY <1>1, <1>9 DEF Pending, PendingAt, Solvent, Payable, OneEach
<1> QED BY <1>6, <1>7, <1>8, <1>10 DEF Payable

\* The other steps move a resolution on, end its auction or move its pick.
LEMMA MoveKeeps ==
  ASSUME Solvent, NEW id \in DOMAIN resolutions,
         resolutions[id].status \in {"AwaitingRaise", "AwaitingMatch"},
         NEW status \in {"AwaitingMatch", "Resolved", "Declined"}, To(id, status),
         UNCHANGED <<naming, request>>,
         DOMAIN auctions' = DOMAIN auctions,
         \A b \in DOMAIN auctions :
           /\ auctions'[b].contract = auctions[b].contract /\ auctions'[b].lead = auctions[b].lead
           /\ auctions'[b].status = auctions[b].status
                \/ (auctions[b].contract = id /\ auctions'[b].status # "Open"),
         \A pick \in Picks : holder'[pick] # holder[pick] => status = "Declined" /\ pick = naming[id].pick
  PROVE  Payable'
<1>1. /\ InPlay(id) /\ resolutions[id] \in Resolution
      /\ id \in DOMAIN naming /\ naming[id].from = resolutions[id].winner
      /\ \A a \in DOMAIN auctions : auctions[a].contract = id => auctions[a].status # "Open"
  BY WonIsBacked
<1>2. /\ DOMAIN resolutions' = DOMAIN resolutions /\ resolutions'[id].status = status
      /\ \A i \in DOMAIN resolutions \ {id} : resolutions'[i] = resolutions[i]
      /\ \A i \in DOMAIN resolutions : /\ resolutions'[i].winner = resolutions[i].winner
                                       /\ resolutions'[i].final = resolutions[i].final
                                       /\ resolutions'[i].raised = resolutions[i].raised
  BY <1>1 DEF To, Resolution
<1>3. \A i \in DOMAIN resolutions : InPlay(i)' => InPlay(i)
  BY <1>1, <1>2 DEF InPlay
<1>4. status = "Declined" => ~InPlay(id)'
  BY <1>2 DEF InPlay, InFlight
<1>5. /\ StillHeld /\ NamedOnce /\ DOMAIN naming \subseteq DOMAIN resolutions
      /\ \A i \in DOMAIN naming : naming[i].pick \in Picks
  BY DEF Solvent, Payable, Safe, Typed, RfaTyped, Naming
<1>6. Backed'
  <2> SUFFICES ASSUME NEW i \in DOMAIN resolutions
               PROVE  BackedAt(i)'
    BY <1>2 DEF Backed
  <2>1. BackedAt(i) /\ EffectiveBid(resolutions[i])' = EffectiveBid(resolutions[i])
    BY <1>2 DEF Solvent, Payable, Backed, EffectiveBid
  <2> QED BY <1>2, <1>3, <2>1, BackedStays
<1>7. StillHeld' /\ NamedOnce'
  <2>1. ASSUME NEW i \in DOMAIN naming, InPlay(i)'
        PROVE  InPlay(i) /\ holder'[naming[i].pick] = holder[naming[i].pick]
    BY <1>1, <1>3, <1>4, <1>5, <2>1 DEF NamedOnce
  <2> QED BY <1>5, <2>1, NamesStay
<1>8. Waits'
  BY <1>1, <1>2 DEF Solvent, Payable, Waits
<1>9. ASSUME NEW r \in Requests, request[r] # Idle
      PROVE  PendingAt(r)'
  <2>1. Contract(r) # id /\ PendingAt(r) /\ request[r].auction \in DOMAIN auctions
    BY <1>9, PendingElsewhere
  <2>2. ASSUME Contract(r) \in DOMAIN resolutions,
               EligiblePick(request[r].pick, request[r].team, CompensationRound(request[r].amount),
                            Contract(r))
        PROVE  holder'[request[r].pick] = holder[request[r].pick]
    <3>1. request[r].pick \in Picks
      BY <1>9, <2>1, <2>2 DEF PendingAt
    <3>2. request[r].pick # naming[id].pick
      <4> SUFFICES ASSUME request[r].pick = naming[id].pick
                   PROVE  FALSE
        OBVIOUS
      <4>1. naming[id].from = request[r].team
        BY <1>1, <1>5, <2>2 DEF StillHeld, EligiblePick
      <4>2. request[r].pick \in Reserved(request[r].team, Contract(r))
        BY <1>1, <2>1, <4>1 DEF Reserved, InPlay
      <4> QED BY <2>2, <4>2 DEF EligiblePick
    <3> QED BY <3>1, <3>2
  <2>3. auctions'[request[r].auction].status = auctions[request[r].auction].status
    BY <2>1 DEF Contract
  <2>4. \A i \in DOMAIN naming' : i \in DOMAIN naming /\ naming[i] = naming'[i] /\ (InPlay(i)' => InPlay(i))
    BY <1>3, <1>5
  <2> QED BY <1>2, <1>9, <2>1, <2>2, <2>3, <2>4, PendingStays
<1>10. Pending' /\ OneEach'
  BY <1>9 DEF Pending, PendingAt, Solvent, Payable, OneEach
<1> QED BY <1>6, <1>7, <1>8, <1>10 DEF Payable

LEMMA StandPatKeeps ==
  ASSUME Solvent, NEW id \in DOMAIN resolutions, StandPat(id)
  PROVE  Payable'
<1>1. To(id, "AwaitingMatch") /\ resolutions[id].status = "AwaitingRaise"
      /\ UNCHANGED <<auctions, naming, holder, request>>
  BY DEF StandPat, poolVars
<1> QED BY <1>1, MoveKeeps

LEMMA AuctionSettled ==
  ASSUME Solvent, NEW id \in DOMAIN resolutions, resolutions[id].status = "AwaitingMatch",
         NEW row, Settle(AuctionOf(id), "Completed", row)
  PROVE  /\ DOMAIN auctions' = DOMAIN auctions
         /\ \A b \in DOMAIN auctions :
              /\ auctions'[b].contract = auctions[b].contract /\ auctions'[b].lead = auctions[b].lead
              /\ auctions'[b].status = auctions[b].status
                   \/ (auctions[b].contract = id /\ auctions'[b].status # "Open")
<1> DEFINE a == AuctionOf(id)
<1>1. a \in DOMAIN auctions /\ auctions[a].contract = id
  BY AfterAuction DEF Solvent
<1>2. auctions' = [auctions EXCEPT ![a].status = "Completed"]
  BY DEF Settle
<1> HIDE DEF a
<1> QED BY <1>1, <1>2, StatusSet

LEMMA MatchKeeps ==
  ASSUME Solvent, NEW id \in DOMAIN resolutions, Match(id)
  PROVE  Payable'
<1> DEFINE row == SignedFreeAgent(table[id], resolutions[id].owner, EffectiveBid(resolutions[id]), "Held")
<1>1. /\ resolutions[id].status = "AwaitingMatch" /\ To(id, "Resolved")
      /\ Settle(AuctionOf(id), "Completed", row) /\ UNCHANGED <<naming, holder, request>>
  BY DEF Match, Settle
<1> HIDE DEF row
<1> QED BY <1>1, AuctionSettled, MoveKeeps

LEMMA DeclineKeeps ==
  ASSUME Solvent, NEW id \in DOMAIN resolutions, Decline(id)
  PROVE  Payable'
<1> DEFINE r == resolutions[id]
           row == SignedFreeAgent(table[id], r.winner, EffectiveBid(r), ExceptionOf(table[id], r.winner))
<1>1. /\ r.status = "AwaitingMatch" /\ To(id, "Declined")
      /\ Settle(AuctionOf(id), "Completed", row) /\ UNCHANGED <<naming, request>>
      /\ holder' = [holder EXCEPT ![naming[id].pick] = r.owner]
  BY DEF Decline, Settle
<1> HIDE DEF row
<1>2. \A pick \in Picks : holder'[pick] # holder[pick] => pick = naming[id].pick
  BY <1>1 DEF Solvent, Safe, Typed, RfaTyped
<1> QED BY <1>1, <1>2, AuctionSettled, MoveKeeps

-----------------------------------------------------------------------------
(* Every step keeps the invariant *)

LEMMA PayableStep ==
  ASSUME TicksInTurn, OneBidEach
  PROVE  Solvent /\ [Next]_vars => Solvent'
<1> SUFFICES ASSUME Solvent, [Next]_vars
             PROVE  Payable'
  BY SafeStep DEF Solvent
<1>1. CASE PoolNext /\ UNCHANGED bidVars
  <2>1. CASE \E t \in Ticks : Insert(t)
    BY <1>1, <2>1, InsertKeeps
  <2>2. CASE ~\E t \in Ticks : Insert(t)
    <3>1. UNCHANGED auctions
      BY <1>1, <2>2
         DEF PoolNext, BeginConfig, CommitConfig, Assemble, DayPasses, StartTick, LookUp, TickDies
    <3> QED BY <1>1, <3>1, PoolKeeps DEF Solvent
  <2> QED BY <2>1, <2>2
<1>2. ASSUME NEW r \in Requests, NEW team \in Teams, NEW a \in DOMAIN auctions,
             NEW amount \in Amounts, NEW pick \in Picks \cup {Unset}, BeginBid(r, team, a, amount, pick)
      PROVE  Payable'
  BY <1>2, BeginKeeps
<1>3. ASSUME NEW r \in Requests, CommitBid(r) \/ AbortBid(r)
      PROVE  Payable'
  BY <1>3, CommitKeeps, AbortKeeps
<1>4. ASSUME NEW a \in DOMAIN auctions, CloseRestricted(a)
      PROVE  Payable'
  BY <1>4, RestrictedKeeps
<1>5. ASSUME NEW a \in DOMAIN auctions, CloseUnbid(a) \/ CloseSold(a)
      PROVE  Payable'
  <2>1. /\ RowFree(a) /\ UNCHANGED <<resolutions, naming, holder, request>>
        /\ \E status \in {"Expired", "Completed"} : auctions' = [auctions EXCEPT ![a].status = status]
    BY <1>5 DEF CloseUnbid, CloseSold, Closable, Settle
  <2> QED BY <2>1, EndKeeps
<1>6. ASSUME NEW id \in DOMAIN resolutions, NEW amount \in Amounts, NEW pick \in Picks,
             Raise(id, amount, pick)
      PROVE  Payable'
  BY <1>6, RaiseKeeps
<1>7. ASSUME NEW id \in DOMAIN resolutions, StandPat(id) \/ Match(id) \/ Decline(id)
      PROVE  Payable'
  BY <1>7, StandPatKeeps, MatchKeeps, DeclineKeeps
<1>8. CASE UNCHANGED vars
  BY <1>8, PoolKeeps DEF vars, poolVars, Solvent
<1> QED BY <1>1, <1>2, <1>3, <1>4, <1>5, <1>6, <1>7, <1>8 DEF Next, BidNext

-----------------------------------------------------------------------------
(* Theorem *)

\* Whoever leads or has won a restricted free agent holds the pick that pays for him, of a round good
\* enough for the price, and it pays for nobody else (name_bid_compensation_pick, raise_bid,
\* eligible_compensation_picks) - as long as no team has two bids under way at once, which no lock of
\* the code sees to, and ticks come one after the other.
THEOREM PicksPay == TicksInTurn /\ OneBidEach => (Spec => []DebtsPayable)
<1> SUFFICES ASSUME TicksInTurn, OneBidEach
             PROVE  Spec => []DebtsPayable
  OBVIOUS
<1>1. Solvent => DebtsPayable
  <2> SUFFICES ASSUME Solvent, NEW id \in DOMAIN resolutions, InPlay(id), NEW debt \in Debts(id)
               PROVE  /\ id \in DOMAIN naming
                      /\ naming[id].from = debt.team /\ holder[naming[id].pick] = debt.team
                      /\ PickRound[naming[id].pick] <= CompensationRound(debt.amount)
                      /\ \A other \in DOMAIN naming \ {id} :
                           InPlay(other) => naming[other].pick # naming[id].pick
    BY DEF DebtsPayable, InPlay
  <2>1. Backs(id, debt)
    BY DEF Solvent, Payable, Backed, BackedAt
  <2> QED BY <2>1 DEF Solvent, Payable, Backs, StillHeld, NamedOnce
<1>2. Solvent /\ [Next]_vars => Solvent'
  BY PayableStep
<1>3. Init => Solvent
  BY SafeInit, PayableInit DEF Solvent
<1> QED BY <1>1, <1>2, <1>3, PTL DEF Spec

-----------------------------------------------------------------------------
(***************************************************************************)
(* Proof that every team can bear what it leads and has won (Affordable),  *)
(* as long as no team has two bids under way at once.                      *)
(*                                                                         *)
(* What a team has at stake is a sum of three: the salaries it pays, the   *)
(* auctions it leads and the restricted free agents it has won.  A bid     *)
(* adds to the second what it has checked; every later step only moves a   *)
(* player from one to the next, at no higher price.  That needs prices to  *)
(* be at least what the signing will pay: an RFA's own team, should it be  *)
(* his winner, pays him no less than he earned.                            *)
(***************************************************************************)

\* Every team that bids is within the cap and its roster before the auctions, and a restricted free
\* agent who is up already opened at his salary or above.
StartsWithinMeans ==
  \A s \in Settings : \A team \in s.bidders :
    /\ SalaryOf(Counted(Rostered(s.rows, team))) <= Cap
    /\ Cardinality(Rostered(s.rows, team)) <= PreseasonLimit
Covers(amount, c) == c.kind = "RFA" => amount >= c.salary
OpensAtSalary ==
  \A s \in Settings : \A a \in DOMAIN s.auctions :
    Covers(s.auctions[a].minimum, s.rows[s.auctions[a].contract])

-----------------------------------------------------------------------------
(* The inductive invariant, part by part *)

\* Nobody has won what awaits its auction, and a raise raises.
Unwon ==
  \A id \in DOMAIN resolutions :
    resolutions[id].status = "AwaitingAuction" => resolutions[id].winner = Unset /\ resolutions[id].raised = 0

\* Whatever is asked, bid or owed for a restricted free agent is no less than he earns.
AuctionPriced(a) ==
  /\ Covers(auctions[a].minimum, table[auctions[a].contract])
  /\ auctions[a].lead # NoLead => auctions[a].lead.amount >= auctions[a].minimum
TickPriced(t) ==
  tick[t].at = "inserting" => Covers(tick[t].auction.minimum, table[tick[t].auction.contract])
BidPriced(r) ==
  request[r] # Idle => request[r].amount >= auctions[request[r].auction].minimum
WinPriced(id) ==
  resolutions[id].status # "AwaitingAuction" =>
    /\ Covers(resolutions[id].final, table[id])
    /\ resolutions[id].raised > 0 => resolutions[id].raised > resolutions[id].final
Priced ==
  /\ \A a \in DOMAIN auctions : AuctionPriced(a)
  /\ \A t \in Ticks : TickPriced(t)
  /\ \A r \in Requests : BidPriced(r)
  /\ \A id \in DOMAIN resolutions : WinPriced(id)

\* A team bound by its bids has room for all of them and for so much more.
Room(team, but, amount, spots) ==
  Bound(team) =>
    CommittedSalary(team, but) + amount <= Cap /\ SpotsUsed(team, but) + spots <= PreseasonLimit
BidFits(r) ==
  request[r] # Idle =>
    /\ request[r].team \in setting.bidders
    /\ Room(request[r].team, request[r].auction, request[r].amount, 1)
BiddersApart ==
  \A r, s \in Requests : request[r] # Idle /\ request[s] # Idle /\ r # s => request[r].team # request[s].team
Able ==
  /\ \A team \in setting.bidders : Room(team, 0, 0, 0)
  /\ \A r \in Requests : BidFits(r)
  /\ BiddersApart

Thrifty == Safe /\ Unwon /\ Priced /\ Able

-----------------------------------------------------------------------------
(* What a team has at stake, in parts *)

Payroll(tbl, team) == SalaryOf(Counted(Rostered(tbl, team)))
LeadPay(team, but) == [a \in Leads(team) \ {but} |-> auctions[a].lead.amount]
HoldPay(team) == [id \in Holds(team) |-> EffectiveBid(resolutions[id])]

LEMMA AtStake ==
  ASSUME NEW team, NEW but
  PROVE  /\ CommittedSalary(team, but)
              = Payroll(table, team) + (SumFunction(LeadPay(team, but)) + SumFunction(HoldPay(team)))
         /\ SpotsUsed(team, but)
              = Cardinality(Rostered(table, team)) + Cardinality(Leads(team) \ {but})
                + Cardinality(Holds(team))
<1>1. CommittedSalary(team, but)
        = Payroll(table, team) + (SumFunction(LeadPay(team, but)) + SumFunction(HoldPay(team)))
  BY Zenon DEF CommittedSalary, Promised, Payroll, LeadPay, HoldPay
<1>2. SpotsUsed(team, but)
        = Cardinality(Rostered(table, team)) + Cardinality(Leads(team) \ {but}) + Cardinality(Holds(team))
  BY Zenon DEF SpotsUsed
<1> QED BY <1>1, <1>2

\* The rows of a roster are finitely many, each of a salary.
RowsPaid(rows) == IsFiniteSet(rows) /\ \A c \in rows : c \in Row

LEMMA RosterPaid ==
  ASSUME NEW tbl, Ordered(tbl), NEW team
  PROVE  RowsPaid(Rostered(tbl, team))
<1> DEFINE ids == {i \in DOMAIN tbl : Live(tbl[i]) /\ tbl[i].team = team}
           at == [i \in ids |-> tbl[i]]
<1>1. tbl \in Seq(Row) /\ Len(tbl) \in Nat /\ DOMAIN tbl = 1..Len(tbl)
  BY DEF Ordered
<1>2. IsFiniteSet(ids)
  <2>1. IsFiniteSet(1..Len(tbl)) /\ ids \in SUBSET (1..Len(tbl))
    BY <1>1, FS_Interval
  <2> HIDE DEF ids
  <2> QED BY <2>1, FS_Subset
<1>3. Rostered(tbl, team) = {at[i] : i \in ids}
  BY DEF Rostered
<1>4. at \in Surjection(ids, Rostered(tbl, team))
  BY <1>3 DEF Surjection
<1>5. IsFiniteSet(Rostered(tbl, team))
  BY <1>2, <1>4, FS_Surjection
<1> QED BY <1>1, <1>5 DEF RowsPaid, Rostered

Pay(rows) == [c \in Counted(rows) |-> c.salary]

LEMMA PaySummable ==
  ASSUME NEW rows, RowsPaid(rows)
  PROVE  /\ Summable(Pay(rows)) /\ DOMAIN Pay(rows) = Counted(rows) /\ Counted(rows) \subseteq rows
         /\ SalaryOf(Counted(rows)) = SumFunction(Pay(rows)) /\ SalaryOf(Counted(rows)) \in Nat
         /\ Cardinality(rows) \in Nat
<1>1. Counted(rows) \subseteq rows /\ IsFiniteSet(Counted(rows))
  BY FS_Subset DEF Counted, RowsPaid
<1>2. \A c \in rows : c.salary \in Nat
  BY DEF RowsPaid, Row
<1>3. Summable(Pay(rows))
  BY <1>1, <1>2 DEF Summable, Pay
<1>4. SalaryOf(Counted(rows)) = SumFunction(Pay(rows))
  BY DEF SalaryOf, Pay
<1> QED BY <1>1, <1>3, <1>4, SumInNat, FS_CardinalityType DEF Pay, RowsPaid

\* A roster that has lost rows costs no more; one that has got a row costs no more than its salary.
LEMMA RosterShrinks ==
  ASSUME NEW rows, NEW less, RowsPaid(rows), RowsPaid(less), less \subseteq rows
  PROVE  SalaryOf(Counted(less)) <= SalaryOf(Counted(rows)) /\ Cardinality(less) <= Cardinality(rows)
<1>1. Counted(less) \subseteq Counted(rows) /\ \A c \in Counted(less) : Pay(less)[c] = Pay(rows)[c]
  BY DEF Counted, Pay
<1>2. /\ DOMAIN Pay(less) = Counted(less) /\ DOMAIN Pay(rows) = Counted(rows)
      /\ Summable(Pay(less)) /\ Summable(Pay(rows))
  BY PaySummable
<1>3. \A c \in Counted(less) : Pay(less)[c] <= Pay(rows)[c]
  BY <1>1, <1>2 DEF Summable
<1>4. SumFunction(Pay(less)) <= SumFunction(Pay(rows))
  BY <1>1, <1>2, <1>3, SumOfFewer
<1>5. Cardinality(less) <= Cardinality(rows)
  BY FS_Subset DEF RowsPaid
<1> QED BY <1>4, <1>5, PaySummable

LEMMA RosterGains ==
  ASSUME NEW rows, NEW more, RowsPaid(rows), RowsPaid(more), NEW new, NEW n \in Nat,
         more \subseteq rows \cup {new}, new.salary <= n
  PROVE  SalaryOf(Counted(more)) <= SalaryOf(Counted(rows)) + n /\ Cardinality(more) <= Cardinality(rows) + 1
<1>1. Counted(more) \subseteq Counted(rows) \cup {new}
  BY DEF Counted
<1>2. \A c \in Counted(more) \ {new} : Pay(more)[c] = Pay(rows)[c] /\ Pay(more)[c] \in Nat
  BY <1>1, PaySummable DEF Pay, Summable
<1>3. new \in Counted(more) => Pay(more)[new] <= n
  BY DEF Pay
<1>4. SumFunction(Pay(more)) <= SumFunction(Pay(rows)) + n
  <2>1. /\ DOMAIN Pay(more) = Counted(more) /\ DOMAIN Pay(rows) = Counted(rows)
        /\ Summable(Pay(more)) /\ Summable(Pay(rows))
    BY PaySummable
  <2>2. \A c \in Counted(more) \ {new} : Pay(more)[c] <= Pay(rows)[c]
    BY <1>2
  <2> QED BY <1>1, <1>3, <2>1, <2>2, SumOfOneMore
<1>5. Cardinality(more) <= Cardinality(rows \cup {new})
      /\ Cardinality(rows \cup {new}) <= Cardinality(rows) + 1
  BY FS_AddElement, FS_Subset, FS_CardinalityType DEF RowsPaid
<1>6. Cardinality(more) \in Nat /\ Cardinality(rows) \in Nat /\ Cardinality(rows \cup {new}) \in Nat
  BY FS_AddElement, FS_CardinalityType DEF RowsPaid
<1> QED BY <1>4, <1>5, <1>6, PaySummable

\* What the parts come to, and that they can be counted.
LeadSum(team, but) == SumFunction(LeadPay(team, but))
HoldSum(team) == SumFunction(HoldPay(team))
Stakes(team, but) ==
  /\ RowsPaid(Rostered(table, team))
  /\ Summable(LeadPay(team, but)) /\ IsFiniteSet(Leads(team) \ {but})
  /\ Summable(HoldPay(team)) /\ IsFiniteSet(Holds(team))
  /\ CommittedSalary(team, but) = Payroll(table, team) + (LeadSum(team, but) + HoldSum(team))
  /\ SpotsUsed(team, but)
       = Cardinality(Rostered(table, team)) + Cardinality(Leads(team) \ {but}) + Cardinality(Holds(team))

LEMMA StakesCounted ==
  Typed => \A team \in Teams : \A but : Stakes(team, but)
<1> SUFFICES ASSUME Typed, NEW team \in Teams, NEW but
             PROVE  Stakes(team, but)
  OBVIOUS
<1>1. RowsPaid(Rostered(table, team))
  BY RosterPaid DEF Typed
<1>2. auctions \in Seq(Auction) /\ DOMAIN auctions = 1..Len(auctions) /\ Len(auctions) \in Nat
  BY DEF Typed, AuctionsTyped
<1>3. IsFiniteSet(Leads(team) \ {but})
  <2>1. IsFiniteSet(1..Len(auctions)) /\ Leads(team) \ {but} \in SUBSET (1..Len(auctions))
    BY <1>2, FS_Interval DEF Leads
  <2> QED BY <2>1, FS_Subset
<1>4. \A a \in Leads(team) \ {but} : auctions[a].lead.amount \in Nat
  <2> TAKE a \in Leads(team) \ {but}
  <2>1. auctions[a] \in Auction
    BY <1>2 DEF Leads
  <2>2. auctions[a].lead \in Lead
    BY <2>1 DEF Auction
  <2> QED BY <2>2 DEF Lead, NoLead
<1>5. Summable(LeadPay(team, but))
  BY <1>3, <1>4 DEF Summable, LeadPay
<1>6. IsFiniteSet(Holds(team))
  <2>1. DOMAIN resolutions \subseteq DOMAIN table /\ table \in Seq(Row)
    BY DEF Typed, RfaTyped, Ordered
  <2>2. IsFiniteSet(1..Len(table)) /\ Holds(team) \in SUBSET (1..Len(table))
    BY <2>1, FS_Interval DEF Holds
  <2> QED BY <2>2, FS_Subset
<1>7. \A id \in Holds(team) : EffectiveBid(resolutions[id]) \in Nat
  <2> TAKE id \in Holds(team)
  <2>1. resolutions[id] \in Resolution
    BY DEF Holds, Typed, RfaTyped
  <2> QED BY <2>1 DEF Resolution, EffectiveBid
<1>8. Summable(HoldPay(team))
  BY <1>6, <1>7 DEF Summable, HoldPay
<1> QED BY <1>1, <1>3, <1>5, <1>6, <1>8, AtStake DEF Stakes, LeadSum, HoldSum

LEMMA StakesNext ==
  Typed' => (\A team \in Teams : \A but : Stakes(team, but))'
BY StakesCounted, PTL

LEMMA StakesInNat ==
  (\A team \in Teams : \A but : Stakes(team, but))
    => \A team \in Teams : \A but :
         /\ Payroll(table, team) \in Nat /\ LeadSum(team, but) \in Nat /\ HoldSum(team) \in Nat
         /\ Cardinality(Rostered(table, team)) \in Nat /\ Cardinality(Leads(team) \ {but}) \in Nat
         /\ Cardinality(Holds(team)) \in Nat
BY PaySummable, SumInNat, FS_CardinalityType DEF Stakes, Payroll, LeadSum, HoldSum

LEMMA StakesInNatNext ==
  (\A team \in Teams : \A but : Stakes(team, but))'
    => (\A team \in Teams : \A but :
         /\ Payroll(table, team) \in Nat /\ LeadSum(team, but) \in Nat /\ HoldSum(team) \in Nat
         /\ Cardinality(Rostered(table, team)) \in Nat /\ Cardinality(Leads(team) \ {but}) \in Nat
         /\ Cardinality(Holds(team)) \in Nat)'
BY StakesInNat, PTL

-----------------------------------------------------------------------------
(* How the parts change *)

LEMMA LeadsShrink ==
  ASSUME NEW team, NEW but, Stakes(team, but), Stakes(team, but)',
         \A a \in Leads(team)' \ {but} :
           a \in Leads(team) \ {but} /\ auctions'[a].lead.amount = auctions[a].lead.amount
  PROVE  /\ LeadSum(team, but)' <= LeadSum(team, but)
         /\ Cardinality(Leads(team)' \ {but}) <= Cardinality(Leads(team) \ {but})
<1> DEFINE f == LeadPay(team, but)
           g == LeadPay(team, but)'
<1>1. /\ DOMAIN f = Leads(team) \ {but} /\ DOMAIN g = Leads(team)' \ {but}
      /\ \A a \in DOMAIN g : g[a] = f[a]
  BY DEF LeadPay
<1>2. Summable(f) /\ Summable(g)
  BY DEF Stakes
<1>3. Cardinality(Leads(team)' \ {but}) <= Cardinality(Leads(team) \ {but})
  BY FS_Subset DEF Stakes
<1>4. LeadSum(team, but) = SumFunction(f) /\ LeadSum(team, but)' = SumFunction(g)
  BY DEF LeadSum
<1> HIDE DEF f, g
<1>5. DOMAIN g \subseteq DOMAIN f /\ \A a \in DOMAIN g : g[a] <= f[a]
  BY <1>1, <1>2 DEF Summable
<1> QED BY <1>2, <1>3, <1>4, <1>5, SumOfFewer

\* A lead is lost.
LEMMA LeadLost ==
  ASSUME NEW team, NEW but, Stakes(team, but), Stakes(team, but)',
         NEW x \in Leads(team) \ {but}, x \notin Leads(team)',
         \A a \in Leads(team)' \ {but} :
           a \in Leads(team) \ {but} /\ auctions'[a].lead.amount = auctions[a].lead.amount
  PROVE  /\ LeadSum(team, but)' + auctions[x].lead.amount <= LeadSum(team, but)
         /\ Cardinality(Leads(team)' \ {but}) + 1 <= Cardinality(Leads(team) \ {but})
<1> DEFINE f == LeadPay(team, but)
           g == LeadPay(team, but)'
<1>1. /\ DOMAIN f = Leads(team) \ {but} /\ DOMAIN g = Leads(team)' \ {but}
      /\ \A a \in DOMAIN g : g[a] = f[a]
      /\ f[x] = auctions[x].lead.amount
  BY DEF LeadPay
<1>2. Summable(f) /\ Summable(g)
  BY DEF Stakes
<1>3. Cardinality(Leads(team)' \ {but}) + 1 <= Cardinality(Leads(team) \ {but})
  <2>1. IsFiniteSet(Leads(team) \ {but}) /\ Leads(team)' \ {but} \subseteq (Leads(team) \ {but}) \ {x}
    BY DEF Stakes
  <2> QED BY <2>1, OneFewerAtLeast
<1>4. LeadSum(team, but) = SumFunction(f) /\ LeadSum(team, but)' = SumFunction(g)
  BY DEF LeadSum
<1> HIDE DEF f, g
<1>5. x \in DOMAIN f /\ DOMAIN g \subseteq DOMAIN f \ {x} /\ \A a \in DOMAIN g : g[a] <= f[a]
  BY <1>1, <1>2 DEF Summable
<1> QED BY <1>1, <1>2, <1>3, <1>4, <1>5, SumOfOneLess

\* A lead is taken.
LEMMA LeadTaken ==
  ASSUME NEW team, NEW but, Stakes(team, but), NEW n \in Nat, NEW y, Stakes(team, y)',
         \A a \in Leads(team)' \ {y} :
           IF a = but THEN auctions'[a].lead.amount <= n
           ELSE a \in Leads(team) /\ auctions'[a].lead.amount = auctions[a].lead.amount
  PROVE  /\ LeadSum(team, y)' <= LeadSum(team, but) + n
         /\ Cardinality(Leads(team)' \ {y}) <= Cardinality(Leads(team) \ {but}) + 1
<1> DEFINE f == LeadPay(team, but)
           g == LeadPay(team, y)'
<1>1. /\ DOMAIN f = Leads(team) \ {but} /\ DOMAIN g = Leads(team)' \ {y}
      /\ \A a \in DOMAIN g \ {but} : g[a] = f[a]
      /\ but \in DOMAIN g => g[but] <= n
      /\ DOMAIN g \subseteq DOMAIN f \cup {but}
  BY DEF LeadPay
<1>2. Summable(f) /\ Summable(g)
  BY DEF Stakes
<1>3. Cardinality(Leads(team)' \ {y}) <= Cardinality(Leads(team) \ {but}) + 1
  <2>1. IsFiniteSet(Leads(team) \ {but}) /\ Leads(team)' \ {y} \subseteq (Leads(team) \ {but}) \cup {but}
    BY DEF Stakes
  <2> QED BY <2>1, OneMoreAtMost
<1>4. LeadSum(team, but) = SumFunction(f) /\ LeadSum(team, y)' = SumFunction(g)
  BY DEF LeadSum
<1> HIDE DEF f, g
<1>5. \A a \in DOMAIN g \ {but} : g[a] <= f[a]
  <2>1. \A a \in DOMAIN f : f[a] \in Nat
    BY <1>2 DEF Summable
  <2> QED BY <1>1, <2>1
<1>6. SumFunction(g) <= SumFunction(f) + n
  BY <1>1, <1>2, <1>5, SumOfOneMore
<1> QED BY <1>3, <1>4, <1>6

LEMMA HoldsShrink ==
  ASSUME NEW team, NEW but, Stakes(team, but), Stakes(team, but)',
         \A id \in Holds(team)' :
           id \in Holds(team) /\ EffectiveBid(resolutions'[id]) = EffectiveBid(resolutions[id])
  PROVE  /\ HoldSum(team)' <= HoldSum(team)
         /\ Cardinality(Holds(team)') <= Cardinality(Holds(team))
<1> DEFINE f == HoldPay(team)
           g == HoldPay(team)'
<1>1. /\ DOMAIN f = Holds(team) /\ DOMAIN g = Holds(team)'
      /\ \A id \in DOMAIN g : g[id] = f[id]
  BY DEF HoldPay
<1>2. Summable(f) /\ Summable(g)
  BY DEF Stakes
<1>3. Cardinality(Holds(team)') <= Cardinality(Holds(team))
  BY FS_Subset DEF Stakes
<1>4. HoldSum(team) = SumFunction(f) /\ HoldSum(team)' = SumFunction(g)
  BY DEF HoldSum
<1> HIDE DEF f, g
<1>5. DOMAIN g \subseteq DOMAIN f /\ \A id \in DOMAIN g : g[id] <= f[id]
  BY <1>1, <1>2 DEF Summable
<1> QED BY <1>2, <1>3, <1>4, <1>5, SumOfFewer

\* A player who was won is signed.
LEMMA HoldLost ==
  ASSUME NEW team, NEW but, Stakes(team, but), Stakes(team, but)',
         NEW x \in Holds(team), x \notin Holds(team)',
         \A id \in Holds(team)' :
           id \in Holds(team) /\ EffectiveBid(resolutions'[id]) = EffectiveBid(resolutions[id])
  PROVE  /\ HoldSum(team)' + EffectiveBid(resolutions[x]) <= HoldSum(team)
         /\ Cardinality(Holds(team)') + 1 <= Cardinality(Holds(team))
<1> DEFINE f == HoldPay(team)
           g == HoldPay(team)'
<1>1. /\ DOMAIN f = Holds(team) /\ DOMAIN g = Holds(team)'
      /\ \A id \in DOMAIN g : g[id] = f[id]
      /\ f[x] = EffectiveBid(resolutions[x])
  BY DEF HoldPay
<1>2. Summable(f) /\ Summable(g)
  BY DEF Stakes
<1>3. Cardinality(Holds(team)') + 1 <= Cardinality(Holds(team))
  <2>1. IsFiniteSet(Holds(team)) /\ Holds(team)' \subseteq (Holds(team)) \ {x}
    BY DEF Stakes
  <2> QED BY <2>1, OneFewerAtLeast
<1>4. HoldSum(team) = SumFunction(f) /\ HoldSum(team)' = SumFunction(g)
  BY DEF HoldSum
<1> HIDE DEF f, g
<1>5. x \in DOMAIN f /\ DOMAIN g \subseteq DOMAIN f \ {x} /\ \A id \in DOMAIN g : g[id] <= f[id]
  BY <1>1, <1>2 DEF Summable
<1> QED BY <1>1, <1>2, <1>3, <1>4, <1>5, SumOfOneLess

\* A player is won.
LEMMA HoldWon ==
  ASSUME NEW team, NEW but, Stakes(team, but), Stakes(team, but)', NEW x, NEW n \in Nat,
         \A id \in Holds(team)' :
           IF id = x THEN EffectiveBid(resolutions'[id]) <= n
           ELSE id \in Holds(team) /\ EffectiveBid(resolutions'[id]) = EffectiveBid(resolutions[id])
  PROVE  /\ HoldSum(team)' <= HoldSum(team) + n
         /\ Cardinality(Holds(team)') <= Cardinality(Holds(team)) + 1
<1> DEFINE f == HoldPay(team)
           g == HoldPay(team)'
<1>1. /\ DOMAIN f = Holds(team) /\ DOMAIN g = Holds(team)'
      /\ \A id \in DOMAIN g \ {x} : g[id] = f[id]
      /\ x \in DOMAIN g => g[x] <= n
      /\ DOMAIN g \subseteq DOMAIN f \cup {x}
  BY DEF HoldPay
<1>2. Summable(f) /\ Summable(g)
  BY DEF Stakes
<1>3. Cardinality(Holds(team)') <= Cardinality(Holds(team)) + 1
  <2>1. IsFiniteSet(Holds(team)) /\ Holds(team)' \subseteq (Holds(team)) \cup {x}
    BY DEF Stakes
  <2> QED BY <2>1, OneMoreAtMost
<1>4. HoldSum(team) = SumFunction(f) /\ HoldSum(team)' = SumFunction(g)
  BY DEF HoldSum
<1> HIDE DEF f, g
<1>5. \A id \in DOMAIN g \ {x} : g[id] <= f[id]
  BY <1>1, <1>2 DEF Summable
<1> QED BY <1>1, <1>2, <1>3, <1>4, <1>5, SumOfOneMore

-----------------------------------------------------------------------------
(* What a signing costs, and what the table makes of it *)

LEMMA DiscountIsNoMarkup ==
  ASSUME NEW bid \in Nat \ {0}, NEW percent \in {10, 20}, NEW cap \in Nat
  PROVE  Discounted(bid, percent, cap) \in Nat /\ Discounted(bid, percent, cap) <= bid
<1> DEFINE share == Percent(bid, percent)
           off == Min({share, cap})
<1>1. share \in Nat
  <2>1. bid * percent + 99 \in Nat
    OBVIOUS
  <2> HIDE DEF share
  <2> QED BY <2>1, QuotientInNat DEF Percent, share
<1> HIDE DEF share
<1>2. off \in Nat
  BY <1>1, MinIn
<1> HIDE DEF off
<1>3. Max({bid - off, 1}) \in {bid - off, 1} /\ Max({bid - off, 1}) >= 1
  BY <1>2, MaxOfTwo
<1> DEFINE paid == Max({bid - off, 1})
<1> HIDE DEF paid
<1>4. paid \in Nat /\ paid <= bid
  BY <1>2, <1>3 DEF paid
<1> QED BY <1>4 DEF Discounted, off, share, paid

\* Nobody is signed for more than was bid, unless an RFA's own team has to keep up his salary.
LEMMA SigningCosts ==
  ASSUME NEW c \in Row, NEW team, NEW amount \in Nat \ {0}, NEW exception,
         exception = "Held" => Covers(amount, c)
  PROVE  /\ \A new \in SignedFreeAgent(c, team, amount, exception) : new.team = team /\ new.salary <= amount
         /\ \A new \in SignedAtAuction(c, team, amount, exception) : new.team = team /\ new.salary <= amount
<1> DEFINE next == After(c)
           as(kind, year, salary) ==
             {[next EXCEPT !.kind = kind, !.year = year, !.salary = salary, !.team = team]}
           off10 == Discounted(amount, 10, NoCap)
           least == IF exception = "Held" THEN Max({off10, c.salary}) ELSE off10
           Costs(rows) == \A new \in rows : new.team = team /\ new.salary <= amount
<1>1. next \in Row
  BY NextRow DEF RowsAfter
<1> HIDE DEF next
<1>2. ASSUME NEW kind, NEW year, NEW salary, salary <= amount
      PROVE  Costs(as(kind, year, salary))
  <2>1. [next EXCEPT !.kind = kind, !.year = year, !.salary = salary, !.team = team].team = team
        /\ [next EXCEPT !.kind = kind, !.year = year, !.salary = salary, !.team = team].salary = salary
    BY <1>1 DEF Row
  <2> QED BY <1>2, <2>1
<1>3. /\ off10 \in Nat /\ off10 <= amount
      /\ Discounted(amount, 20, 8) <= amount /\ Discounted(amount, 10, 5) <= amount
  <2>1. NoCap \in Nat /\ 8 \in Nat /\ 5 \in Nat
    BY DEF NoCap
  <2> QED BY <2>1, DiscountIsNoMarkup
<1>4. c.kind = "RFA" => least <= amount
  <2> DEFINE before == c.salary
  <2>1. before \in Nat
    BY DEF Row
  <2>2. CASE exception = "Held" /\ c.kind = "RFA"
    <3>1. before <= amount
      BY <2>2 DEF Covers
    <3> HIDE DEF off10, before
    <3>2. off10 \in Int /\ before \in Int
      BY <1>3, <2>1
    <3>3. Max({off10, before}) \in {off10, before}
      BY <3>2, MaxOfTwo
    <3>4. Max({off10, before}) <= amount
      BY <1>3, <3>1, <3>3
    <3>5. least = Max({off10, before})
      BY <2>2 DEF before
    <3> QED BY <3>4, <3>5
  <2>3. CASE exception # "Held"
    BY <1>3, <2>3
  <2> QED BY <2>2, <2>3
<1>5. amount <= amount /\ Costs({})
  OBVIOUS
<1>6. \/ SignedFreeAgent(c, team, amount, exception) = as("RookieExtension", 4, least) /\ c.kind = "RFA"
      \/ SignedFreeAgent(c, team, amount, exception) \in
          {as("Veteran", 1, amount), {}, as("Veteran", 1, Discounted(amount, 20, 8)),
           as("Veteran", 1, Discounted(amount, 10, 5))}
  <2> HIDE DEF Costs
  <2> QED BY DEF SignedFreeAgent, ExpiringKinds, as, off10, next, least
<1> HIDE DEF as, off10, least
<1>7. Costs(SignedFreeAgent(c, team, amount, exception))
  <2> HIDE DEF Costs
  <2> QED BY <1>2, <1>3, <1>4, <1>5, <1>6
<1>8. Costs(SignedVeteran(c, team, amount))
  <2>1. [next EXCEPT !.kind = "Veteran", !.year = 1, !.ir = FALSE, !.salary = amount, !.team
           = team].team
           = team
        /\ [next EXCEPT !.kind = "Veteran", !.year = 1, !.ir = FALSE, !.salary = amount, !.team = team].salary
             = amount
    BY <1>1 DEF Row
  <2> QED BY <1>5, <2>1 DEF SignedVeteran, Provided, next
<1> QED BY <1>7, <1>8 DEF SignedAtAuction

\* A row that takes another's place is the only one that may come to a roster.
LEMMA RosterAfter ==
  ASSUME NEW tbl, Ordered(tbl), NEW i \in DOMAIN tbl, NEW new \in RowsAfter(tbl[i]), NEW team,
         NEW next, next = Replace(tbl, tbl[i], new)
  PROVE  /\ Ordered(next)
         /\ \A k \in DOMAIN tbl : /\ k \in DOMAIN next
                                  /\ next[k].kind = tbl[k].kind /\ next[k].salary = tbl[k].salary
         /\ \E last : /\ last.salary = new.salary /\ last.team = new.team /\ last.status = new.status
                      /\ Rostered(next, team) \subseteq
                           Rostered(tbl, team) \cup (IF new.team = team /\ Live(new) THEN {last} ELSE {})
<1> DEFINE marked == [tbl EXCEPT ![i].status = "Replaced"]
           last == [new EXCEPT !.id = Len(tbl) + 1]
<1>0. tbl \in Seq(Row) /\ Len(tbl) \in Nat /\ DOMAIN tbl = 1..Len(tbl)
  BY DEF Ordered
<1>1. tbl[i].id = i /\ tbl[i] \in Row /\ new \in Row
  BY <1>0 DEF Ordered, RowsAfter
<1>2. marked \in Seq(Row) /\ Len(marked) = Len(tbl)
  <2>1. [tbl[i] EXCEPT !.status = "Replaced"] \in Row
    BY <1>1 DEF Row, Statuses
  <2> QED BY <1>0, <2>1
<1>3. /\ \A k \in DOMAIN tbl \ {i} : marked[k] = tbl[k]
      /\ \A k \in DOMAIN tbl : marked[k].kind = tbl[k].kind /\ marked[k].salary = tbl[k].salary
      /\ marked[i].status = "Replaced"
  <2>1. marked[i] = [tbl[i] EXCEPT !.status = "Replaced"]
    BY <1>0
  <2> QED BY <1>0, <1>1, <2>1 DEF Row
<1>4. last \in Row /\ last.salary = new.salary /\ last.team = new.team /\ last.status = new.status
  <2>1. Len(tbl) + 1 \in Nat
    BY <1>0
  <2> QED BY <1>1, <2>1 DEF Row
<1>5. next = Append(marked, last)
  BY <1>1 DEF Replace
<1> HIDE DEF marked, last
<1>6. DOMAIN next = 1..Len(tbl) + 1 /\ next[Len(tbl) + 1] = last /\ \A k \in 1..Len(tbl) : next[k] = marked[k]
  BY <1>0, <1>2, <1>4, <1>5
<1>7. \A k \in DOMAIN tbl : /\ k \in DOMAIN next
                            /\ next[k].kind = tbl[k].kind /\ next[k].salary = tbl[k].salary
  BY <1>0, <1>3, <1>6
<1>8. Rostered(next, team) \subseteq
        Rostered(tbl, team) \cup (IF new.team = team /\ Live(new) THEN {last} ELSE {})
  <2> SUFFICES ASSUME NEW k \in DOMAIN next, Live(next[k]), next[k].team = team
               PROVE  \/ next[k] \in Rostered(tbl, team)
                      \/ new.team = team /\ Live(new) /\ next[k] = last
    BY DEF Rostered
  <2>1. CASE k = Len(tbl) + 1
    BY <1>4, <1>6, <2>1 DEF Live
  <2>2. CASE k \in 1..Len(tbl)
    <3>1. next[k] = marked[k] /\ k # i
      BY <1>3, <1>6, <2>2 DEF Live
    <3>2. next[k] = tbl[k] /\ k \in DOMAIN tbl
      BY <1>0, <1>3, <2>2, <3>1
    <3> QED BY <3>2 DEF Rostered
  <2> QED BY <1>0, <1>6, <2>1, <2>2
<1>9. Ordered(next)
  BY ReplaceGrows DEF Grows
<1> QED BY <1>4, <1>7, <1>8, <1>9

\* Rows for players without one are on no roster.
LEMMA RosterCreated ==
  ASSUME Ordered(table), NEW players \in SUBSET Players, NEW team \in Teams, NEW next, next = Created(players)
  PROVE  /\ Ordered(next)
         /\ \A k \in DOMAIN table : k \in DOMAIN next /\ next[k] = table[k]
         /\ Rostered(next, team) \subseteq Rostered(table, team)
BY CreatedGrows, HouseConstants DEF Rostered, Grows

-----------------------------------------------------------------------------
(* What keeps each part *)

AllStakes == \A team \in Teams : \A but : Stakes(team, but)
NoDearer(team, but) ==
  CommittedSalary(team, but)' <= CommittedSalary(team, but) /\ SpotsUsed(team, but)' <= SpotsUsed(team, but)

LEMMA StakesHere ==
  ASSUME Safe, Safe'
  PROVE  AllStakes /\ AllStakes'
BY StakesCounted, StakesNext DEF AllStakes, Safe

\* What one part loses another may gain.
LEMMA PartsBalance ==
  ASSUME Safe, Safe', NEW team \in Teams, NEW but,
         NEW p \in Int, NEW l \in Int, NEW h \in Int, NEW i \in Int, NEW j \in Int, NEW k \in Int,
         Payroll(table', team) <= Payroll(table, team) + p,
         LeadSum(team, but)' <= LeadSum(team, but) + l, HoldSum(team)' <= HoldSum(team) + h,
         Cardinality(Rostered(table', team)) <= Cardinality(Rostered(table, team)) + i,
         Cardinality(Leads(team)' \ {but}) <= Cardinality(Leads(team) \ {but}) + j,
         Cardinality(Holds(team)') <= Cardinality(Holds(team)) + k,
         p + l + h <= 0, i + j + k <= 0
  PROVE  NoDearer(team, but)
<1>1. AllStakes /\ AllStakes'
  BY StakesHere
<1>2. /\ CommittedSalary(team, but) = Payroll(table, team) + (LeadSum(team, but) + HoldSum(team))
      /\ SpotsUsed(team, but)
           = Cardinality(Rostered(table, team)) + Cardinality(Leads(team) \ {but}) + Cardinality(Holds(team))
  BY <1>1 DEF AllStakes, Stakes
<1>3. /\ CommittedSalary(team, but)'
           = Payroll(table', team) + (LeadSum(team, but)' + HoldSum(team)')
      /\ SpotsUsed(team, but)'
           = Cardinality(Rostered(table', team)) + Cardinality(Leads(team)' \ {but})
             + Cardinality(Holds(team)')
  BY <1>1 DEF AllStakes, Stakes
<1>4. /\ Payroll(table, team) \in Nat /\ LeadSum(team, but) \in Nat /\ HoldSum(team) \in Nat
      /\ Cardinality(Rostered(table, team)) \in Nat /\ Cardinality(Leads(team) \ {but}) \in Nat
      /\ Cardinality(Holds(team)) \in Nat
  BY <1>1, StakesInNat DEF AllStakes
<1>5. /\ Payroll(table', team) \in Nat /\ LeadSum(team, but)' \in Nat /\ HoldSum(team)' \in Nat
      /\ Cardinality(Rostered(table', team)) \in Nat /\ Cardinality(Leads(team)' \ {but}) \in Nat
      /\ Cardinality(Holds(team)') \in Nat
  BY <1>1, StakesInNatNext DEF AllStakes
<1>6. CommittedSalary(team, but)' <= CommittedSalary(team, but)
  BY <1>2, <1>3, <1>4, <1>5
<1>7. SpotsUsed(team, but)' <= SpotsUsed(team, but)
  BY <1>2, <1>3, <1>4, <1>5
<1> QED BY <1>6, <1>7 DEF NoDearer

LeadsKept(team, but) ==
  \A a \in Leads(team)' \ {but} :
    a \in Leads(team) \ {but} /\ auctions'[a].lead.amount = auctions[a].lead.amount
HoldsKept(team) ==
  \A id \in Holds(team)' :
    id \in Holds(team) /\ EffectiveBid(resolutions'[id]) = EffectiveBid(resolutions[id])
RosterKept(team) == Rostered(table', team) \subseteq Rostered(table, team)

LEMMA RosterNoDearer ==
  ASSUME Safe, Safe', NEW team \in Teams, RosterKept(team)
  PROVE  /\ Payroll(table', team) <= Payroll(table, team)
         /\ Cardinality(Rostered(table', team)) <= Cardinality(Rostered(table, team))
<1>1. RowsPaid(Rostered(table, team)) /\ RowsPaid(Rostered(table', team))
  BY RosterPaid DEF Safe, Typed
<1> QED BY <1>1, RosterShrinks DEF Payroll, RosterKept

LEMMA PartsInNat ==
  ASSUME Safe, NEW team \in Teams, NEW but
  PROVE  /\ Payroll(table, team) \in Nat /\ LeadSum(team, but) \in Nat /\ HoldSum(team) \in Nat
         /\ Cardinality(Rostered(table, team)) \in Nat /\ Cardinality(Leads(team) \ {but}) \in Nat
         /\ Cardinality(Holds(team)) \in Nat
BY StakesCounted, StakesInNat DEF Safe

LEMMA NothingDearer ==
  ASSUME Safe, Safe', NEW team \in Teams, NEW but, RosterKept(team), LeadsKept(team, but), HoldsKept(team)
  PROVE  NoDearer(team, but)
<1>1. Stakes(team, but) /\ Stakes(team, but)'
  BY StakesHere DEF AllStakes
<1>2. /\ LeadSum(team, but)' <= LeadSum(team, but)
      /\ Cardinality(Leads(team)' \ {but}) <= Cardinality(Leads(team) \ {but})
  BY <1>1, LeadsShrink DEF LeadsKept
<1>3. HoldSum(team)' <= HoldSum(team) /\ Cardinality(Holds(team)') <= Cardinality(Holds(team))
  BY <1>1, HoldsShrink DEF HoldsKept
<1>4. /\ Payroll(table', team) <= Payroll(table, team)
      /\ Cardinality(Rostered(table', team)) <= Cardinality(Rostered(table, team))
  BY RosterNoDearer
<1>5. /\ Payroll(table, team) \in Nat /\ LeadSum(team, but) \in Nat /\ HoldSum(team) \in Nat
      /\ Cardinality(Rostered(table, team)) \in Nat /\ Cardinality(Leads(team) \ {but}) \in Nat
      /\ Cardinality(Holds(team)) \in Nat
  BY PartsInNat
<1>6. /\ Payroll(table', team) <= Payroll(table, team) + 0
      /\ LeadSum(team, but)' <= LeadSum(team, but) + 0 /\ HoldSum(team)' <= HoldSum(team) + 0
      /\ Cardinality(Rostered(table', team)) <= Cardinality(Rostered(table, team)) + 0
      /\ Cardinality(Leads(team)' \ {but}) <= Cardinality(Leads(team) \ {but}) + 0
      /\ Cardinality(Holds(team)') <= Cardinality(Holds(team)) + 0
  BY <1>2, <1>3, <1>4, <1>5
<1>7. 0 \in Int /\ 0 + 0 + 0 <= 0
  OBVIOUS
<1> QED BY <1>6, <1>7, PartsBalance

LEMMA StakeInNat ==
  Safe => \A team \in Teams : \A but : CommittedSalary(team, but) \in Nat /\ SpotsUsed(team, but) \in Nat
<1> SUFFICES ASSUME Safe, NEW team \in Teams, NEW but
             PROVE  CommittedSalary(team, but) \in Nat /\ SpotsUsed(team, but) \in Nat
  OBVIOUS
<1>1. Stakes(team, but)
  BY StakesCounted DEF Safe
<1>2. /\ Payroll(table, team) \in Nat /\ LeadSum(team, but) \in Nat /\ HoldSum(team) \in Nat
      /\ Cardinality(Rostered(table, team)) \in Nat /\ Cardinality(Leads(team) \ {but}) \in Nat
      /\ Cardinality(Holds(team)) \in Nat
  BY PartsInNat
<1> QED BY <1>1, <1>2 DEF Stakes

LEMMA StakeInNatNext ==
  Safe' => (\A team \in Teams : \A but : CommittedSalary(team, but) \in Nat /\ SpotsUsed(team, but) \in Nat)'
BY StakeInNat, PTL

LEMMA BoundStays ==
  ASSUME Safe, NEW team, DOMAIN resolutions' = DOMAIN resolutions,
         \A id \in DOMAIN resolutions :
           /\ resolutions'[id].owner = resolutions[id].owner
           /\ resolutions[id].status = "Resolved" => resolutions'[id].status = "Resolved"
           /\ resolutions[id].raised > 0 =>
                resolutions'[id].raised > 0 /\ resolutions'[id].winner = resolutions[id].winner
  PROVE  Bound(team)' => Bound(team)
BY DEF Bound

LEMMA RoomStays ==
  ASSUME Safe, Safe', NEW team \in Teams, NEW but, NEW amount \in Nat, NEW spots \in Nat,
         Room(team, but, amount, spots), Bound(team)' => Bound(team) /\ NoDearer(team, but)
  PROVE  Room(team, but, amount, spots)'
<1> SUFFICES ASSUME Bound(team)'
             PROVE  CommittedSalary(team, but)' + amount <= Cap
                    /\ SpotsUsed(team, but)' + spots <= PreseasonLimit
  BY DEF Room
<1>1. CommittedSalary(team, but) + amount <= Cap /\ SpotsUsed(team, but) + spots <= PreseasonLimit
  BY DEF Room
<1>2. CommittedSalary(team, but)' <= CommittedSalary(team, but)
      /\ SpotsUsed(team, but)' <= SpotsUsed(team, but)
  BY DEF NoDearer
<1>3. CommittedSalary(team, but) \in Nat /\ SpotsUsed(team, but) \in Nat
  BY StakeInNat
<1>4. CommittedSalary(team, but)' \in Nat /\ SpotsUsed(team, but)' \in Nat
  BY StakeInNatNext
<1>5. Cap \in Nat /\ PreseasonLimit \in Nat
  BY HouseConstants, LimitConstants
<1> QED BY <1>1, <1>2, <1>3, <1>4, <1>5

\* As long as nobody's stakes get dearer, and no bid starts.
LEMMA AbleStays ==
  ASSUME Thrifty, Safe', UNCHANGED setting, NEW B, 0 \in B,
         \A r \in Requests : request'[r] # Idle => request'[r] = request[r] /\ request[r].auction \in B,
         \A team \in Teams : Bound(team)' => Bound(team) /\ \A but \in B : NoDearer(team, but)
  PROVE  Able'
<1>1. Safe /\ setting.bidders \subseteq Teams
  BY HouseConstants DEF Thrifty, Safe, Typed, ConfigTyped
<1>2. \A team \in setting.bidders : Room(team, 0, 0, 0)'
  BY <1>1, RoomStays, 0 \in Nat DEF Thrifty, Able
<1>3. ASSUME NEW r \in Requests, request'[r] # Idle
      PROVE  /\ request'[r].team \in setting.bidders
             /\ Room(request[r].team, request[r].auction, request[r].amount, 1)'
  <2>1. request'[r] = request[r] /\ request[r] # Idle /\ request[r].auction \in B
    BY <1>3
  <2>2. /\ request[r].team \in setting.bidders /\ request[r].amount \in Nat
        /\ Room(request[r].team, request[r].auction, request[r].amount, 1)
    BY <2>1 DEF Thrifty, Able, BidFits, Safe, Typed, RequestsTyped, BidRequest
  <2>3. ASSUME NEW team, NEW but, NEW amount,
               team = request[r].team, but = request[r].auction, amount = request[r].amount
        PROVE  Room(team, but, amount, 1)'
    BY <1>1, <2>1, <2>2, <2>3, RoomStays, 1 \in Nat
  <2> QED BY <2>1, <2>2, <2>3
<1>4. ASSUME NEW r \in Requests, NEW s \in Requests, request'[r] # Idle, request'[s] # Idle, r # s
      PROVE  request'[r].team # request'[s].team
  BY <1>4 DEF Thrifty, Able, BiddersApart
<1> QED BY <1>2, <1>3, <1>4 DEF Able, BidFits, BiddersApart

KeepsRows ==
  \A k \in DOMAIN table :
    k \in DOMAIN table' /\ table'[k].kind = table[k].kind /\ table'[k].salary = table[k].salary
SameTerms ==
  /\ DOMAIN auctions' = DOMAIN auctions
  /\ \A a \in DOMAIN auctions : /\ auctions'[a].contract = auctions[a].contract
                                /\ auctions'[a].minimum = auctions[a].minimum
                                /\ auctions'[a].lead = auctions[a].lead

LEMMA TickPriceStays ==
  ASSUME Safe, KeepsRows, NEW t \in Ticks, TickPriced(t),
         tick'[t].at = "inserting" => tick[t].at = "inserting" /\ tick'[t].auction = tick[t].auction
  PROVE  TickPriced(t)'
<1>1. tick[t].at = "inserting" => tick[t].auction.contract \in DOMAIN table
  BY DEF Safe, Typed, TicksTyped, ToInsert
<1> QED BY <1>1 DEF TickPriced, Covers, KeepsRows

LEMMA PricesStay ==
  ASSUME Thrifty, KeepsRows, SameTerms, UNCHANGED tick,
         \A r \in Requests : request'[r] # Idle => request'[r] = request[r],
         DOMAIN resolutions' = DOMAIN resolutions,
         \A id \in DOMAIN resolutions : resolutions'[id] # resolutions[id] => WinPriced(id)'
  PROVE  Priced'
<1>1. Safe /\ Priced
  BY DEF Thrifty
<1>2. ASSUME NEW a \in DOMAIN auctions
      PROVE  AuctionPriced(a)'
  <2>1. AuctionPriced(a) /\ auctions[a].contract \in DOMAIN table
    BY <1>1 DEF Priced, Safe, Typed, AuctionsTyped
  <2> QED BY <2>1 DEF AuctionPriced, Covers, KeepsRows, SameTerms
<1>3. ASSUME NEW t \in Ticks
      PROVE  TickPriced(t)'
  BY <1>1, TickPriceStays DEF Priced
<1>4. ASSUME NEW r \in Requests
      PROVE  BidPriced(r)'
  <2>1. BidPriced(r) /\ (request[r] # Idle => request[r].auction \in DOMAIN auctions)
    BY <1>1 DEF Priced, Safe, Typed, RequestsTyped
  <2> QED BY <2>1 DEF BidPriced, SameTerms
<1>5. ASSUME NEW id \in DOMAIN resolutions
      PROVE  WinPriced(id)'
  <2>1. WinPriced(id) /\ id \in DOMAIN table
    BY <1>1 DEF Priced, Safe, Typed, RfaTyped
  <2> QED BY <2>1 DEF WinPriced, Covers, KeepsRows
<1> QED BY <1>2, <1>3, <1>4, <1>5 DEF Priced, SameTerms

-----------------------------------------------------------------------------
(* The steps of the pool *)

LEMMA ThriftyInit ==
  ASSUME StartsWithinMeans, OpensAtSalary
  PROVE  Init => Unwon /\ Priced /\ Able
<1> SUFFICES ASSUME Init
             PROVE  Unwon /\ Priced /\ Able
  OBVIOUS
<1> USE DEF Init, PoolInit
<1>1. /\ setting \in Settings /\ setting.bidders \subseteq Teams
      /\ \A a \in DOMAIN auctions : auctions[a].lead = NoLead
      /\ \A id \in DOMAIN resolutions :
           /\ resolutions[id].status = "AwaitingAuction" /\ resolutions[id].winner = Unset
           /\ resolutions[id].raised = 0
  BY HouseConstants
<1>2. Unwon
  BY <1>1 DEF Unwon
<1>3. Priced
  <2>1. \A a \in DOMAIN auctions : AuctionPriced(a)
    BY <1>1 DEF OpensAtSalary, AuctionPriced
  <2>2. \A t \in Ticks : TickPriced(t)
    BY DEF TickPriced, Idle
  <2>3. \A id \in DOMAIN resolutions : WinPriced(id)
    BY <1>1 DEF WinPriced
  <2> QED BY <2>1, <2>2, <2>3 DEF Priced, BidPriced
<1>4. ASSUME NEW team \in setting.bidders
      PROVE  Room(team, 0, 0, 0)
  <2>1. team \in Teams /\ team # Unset
    BY <1>1, HouseConstants
  <2>2. Leads(team) \ {0} = {} /\ Holds(team) = {}
    BY <1>1, <2>1 DEF Leads, Holds, NoLead
  <2>3. LeadSum(team, 0) = 0 /\ HoldSum(team) = 0
    <3>1. DOMAIN LeadPay(team, 0) = {} /\ DOMAIN HoldPay(team) = {}
      BY <2>2 DEF LeadPay, HoldPay
    <3> QED BY <3>1, SumOfNone DEF LeadSum, HoldSum, SumFunction
  <2>4. Cardinality(Leads(team) \ {0}) = 0 /\ Cardinality(Holds(team)) = 0
    BY <2>2, FS_EmptySet
  <2>5. Safe
    BY SafeInit
  <2>6. Payroll(table, team) \in Nat /\ Cardinality(Rostered(table, team)) \in Nat
    BY <2>1, <2>5, PartsInNat
  <2>7. Stakes(team, 0)
    BY <2>1, <2>5, StakesCounted DEF Safe
  <2>8. Payroll(table, team) <= Cap /\ Cardinality(Rostered(table, team)) <= PreseasonLimit
    BY <1>1 DEF StartsWithinMeans, Payroll
  <2>9. Cap \in Nat /\ PreseasonLimit \in Nat
    BY HouseConstants, LimitConstants
  <2>10. CommittedSalary(team, 0) = Payroll(table, team) + (0 + 0)
         /\ SpotsUsed(team, 0) = Cardinality(Rostered(table, team)) + 0 + 0
    BY <2>3, <2>4, <2>7 DEF Stakes
  <2> QED BY <2>6, <2>8, <2>9, <2>10 DEF Room
<1>5. Able
  BY <1>4 DEF Able, BidFits, BiddersApart
<1> QED BY <1>2, <1>3, <1>5

\* Rows may be added and auctions opened, but nobody leads or wins any.
LEMMA PoolIsFree ==
  ASSUME Thrifty, Safe', UNCHANGED <<setting, bidVars>>, \A team \in Teams : RosterKept(team),
         \A a \in DOMAIN auctions' :
           IF a \in DOMAIN auctions THEN auctions'[a] = auctions[a] ELSE auctions'[a].lead = NoLead
  PROVE  Unwon' /\ Able'
<1>1. UNCHANGED <<resolutions, naming, holder, request>>
  BY DEF bidVars
<1>2. Unwon'
  BY <1>1 DEF Thrifty, Unwon
<1>3. Safe
  BY DEF Thrifty
<1>4. ASSUME NEW team \in Teams, Bound(team)'
      PROVE  Bound(team) /\ \A but \in Nat : NoDearer(team, but)
  <2>1. Bound(team)
    BY <1>1, <1>4 DEF Bound
  <2>2. Leads(team)' \subseteq Leads(team)
        /\ \A a \in Leads(team)' : auctions'[a].lead.amount = auctions[a].lead.amount
    BY HouseConstants DEF Leads, NoLead
  <2>3. HoldsKept(team)
    BY <1>1 DEF HoldsKept, Holds
  <2>4. \A but \in Nat : LeadsKept(team, but)
    BY <2>2 DEF LeadsKept
  <2> QED BY <1>3, <2>1, <2>3, <2>4, NothingDearer
<1>5. \A r \in Requests : request'[r] # Idle => request'[r] = request[r] /\ request[r].auction \in Nat
  <2>1. \A r \in Requests : request[r] # Idle => request[r] \in BidRequest
    BY <1>3 DEF Safe, Typed, RequestsTyped
  <2> QED BY <1>1, <2>1 DEF BidRequest
<1>6. Able'
  BY <1>4, <1>5, AbleStays, 0 \in Nat
<1> QED BY <1>2, <1>6

LEMMA PoolThrifty ==
  ASSUME Thrifty, Safe', UNCHANGED <<setting, auctions, bidVars>>,
         UNCHANGED table \/ (\E players \in SUBSET Players : table' = Created(players)),
         \A t \in Ticks : tick'[t].at = "inserting" =>
           \/ tick[t].at = "inserting" /\ tick'[t].auction = tick[t].auction
           \/ TickPriced(t)'
  PROVE  Thrifty'
<1>1. Safe /\ Priced /\ Ordered(table) /\ UNCHANGED <<resolutions, request>>
  BY DEF Thrifty, Safe, Typed, bidVars
<1>2. KeepsRows /\ \A team \in Teams : RosterKept(team)
  <2>1. CASE UNCHANGED table
    BY <2>1 DEF KeepsRows, RosterKept
  <2>2. ASSUME NEW players \in SUBSET Players, table' = Created(players)
        PROVE  KeepsRows /\ \A team \in Teams : RosterKept(team)
    <3>1. \A k \in DOMAIN table : k \in DOMAIN table' /\ table'[k] = table[k]
      <4>1. \A k \in DOMAIN table : k \in DOMAIN table'
        BY <1>1, <2>2, CreatedGrows DEF Grows
      <4> QED BY <1>1, <2>2, <4>1, CreatedGrows
    <3>2. \A team \in Teams : Rostered(table', team) \subseteq Rostered(table, team)
      BY <1>1, <2>2, RosterCreated
    <3> QED BY <3>1, <3>2 DEF KeepsRows, RosterKept
  <2> QED BY <2>1, <2>2
<1>3. Unwon' /\ Able'
  BY <1>2, PoolIsFree
<1>4. Priced'
  <2>1. ASSUME NEW a \in DOMAIN auctions
        PROVE  AuctionPriced(a)'
    <3>1. AuctionPriced(a) /\ auctions[a].contract \in DOMAIN table
      BY <1>1 DEF Priced, Safe, Typed, AuctionsTyped
    <3> QED BY <1>2, <3>1 DEF AuctionPriced, Covers, KeepsRows
  <2>2. ASSUME NEW t \in Ticks
        PROVE  TickPriced(t)'
    <3>1. TickPriced(t)
      BY <1>1 DEF Priced
    <3>2. CASE tick'[t].at = "inserting" => tick[t].at = "inserting" /\ tick'[t].auction = tick[t].auction
      BY <1>1, <1>2, <3>1, <3>2, TickPriceStays
    <3> QED BY <3>2
  <2>3. ASSUME NEW id \in DOMAIN resolutions
        PROVE  WinPriced(id)'
    <3>1. WinPriced(id) /\ id \in DOMAIN table
      BY <1>1 DEF Priced, Safe, Typed, RfaTyped
    <3> QED BY <1>1, <1>2, <3>1 DEF WinPriced, Covers, KeepsRows
  <2>4. \A r \in Requests : BidPriced(r)'
    BY <1>1 DEF Priced, BidPriced
  <2> QED BY <1>1, <2>1, <2>2, <2>3, <2>4 DEF Priced
<1> QED BY <1>3, <1>4 DEF Thrifty

\* A restricted free agent opens at his salary.
LEMMA OpensPriced ==
  ASSUME Ordered(table)', NEW slot, NEW new \in Opening(slot, table')
  PROVE  Covers(new.minimum, table'[new.contract])
<1>1. PICK c \in LiveIn(table', slot.player) :
        /\ new.contract = c.id
        /\ new.minimum = IF c.kind \in ExpiringKinds THEN c.salary ELSE tiers[slot.tier]
  BY DEF Opening
<1>2. PICK i \in DOMAIN table' : c = table'[i]
  BY DEF LiveIn
<1>3. table'[new.contract] = c /\ c \in Row
  BY <1>1, <1>2 DEF Ordered
<1> QED BY <1>1, <1>3 DEF Covers, ExpiringKinds, Row

LEMMA LookUpThrifty ==
  ASSUME Thrifty, Safe', UNCHANGED bidVars, NEW t \in Ticks, LookUp(t)
  PROVE  Thrifty'
<1>1. PICK i \in tick[t].slots :
        LET slot == schedule[i]  found == Opened(slot.player)  left == tick[t].slots \ {i} IN
        /\ table' = IF found THEN table ELSE Created({slot.player})
        /\ IF found \/ Opening(slot, table') = {}
           THEN tick' = [tick EXCEPT ![t] = GoOn(left)]
           ELSE \E auction \in Opening(slot, table') :
                  tick' = [tick EXCEPT ![t] = [at |-> "inserting", slots |-> left, auction |-> auction]]
  BY DEF LookUp
<1>2. tick[t].at = "opening" /\ UNCHANGED <<setting, auctions>>
  BY DEF LookUp
<1>3. DOMAIN tick = Ticks /\ Ordered(table)'
  BY DEF Thrifty, Safe, Typed, TicksTyped
<1>4. UNCHANGED table \/ \E players \in SUBSET Players : table' = Created(players)
  <2>1. schedule[i] \in Slot
    BY <1>1, <1>2 DEF Thrifty, Safe, Typed, TicksTyped, ScheduleTyped
  <2>2. {schedule[i].player} \in SUBSET Players
    BY <2>1 DEF Slot
  <2> QED BY <1>1, <2>2
<1>5. ASSUME NEW u \in Ticks, tick'[u].at = "inserting"
      PROVE  \/ tick[u].at = "inserting" /\ tick'[u].auction = tick[u].auction
             \/ TickPriced(u)'
  <2>1. CASE u # t
    <3>1. tick'[u] = tick[u]
      BY <1>1, <1>3, <2>1
    <3> QED BY <1>5, <3>1
  <2>2. CASE u = t
    <3>1. PICK new \in Opening(schedule[i], table') : tick'[t].auction = new
      <4>1. tick'[t].at = "inserting"
        BY <1>5, <2>2
      <4>2. ASSUME tick' = [tick EXCEPT ![t] = GoOn(tick[t].slots \ {i})]
            PROVE  FALSE
        BY <1>3, <4>1, <4>2 DEF GoOn, Idle
      <4> QED BY <1>1, <1>3, <4>2
    <3>2. Covers(new.minimum, table'[new.contract])
      BY <1>3, OpensPriced
    <3> QED BY <2>2, <3>1, <3>2 DEF TickPriced
  <2> QED BY <2>1, <2>2
<1> QED BY <1>2, <1>4, <1>5, PoolThrifty

LEMMA InsertThrifty ==
  ASSUME Thrifty, Safe', UNCHANGED bidVars, NEW t \in Ticks, Insert(t)
  PROVE  Thrifty'
<1> DEFINE new == tick[t].auction
           last == Len(auctions) + 1
<1>1. /\ tick[t].at = "inserting" /\ auctions' = Append(auctions, new) /\ UNCHANGED <<setting, table>>
      /\ tick' = [tick EXCEPT ![t] = GoOn(tick[t].slots)]
  BY DEF Insert
<1>2. auctions \in Seq(Auction) /\ new \in Auction /\ new.lead = NoLead /\ DOMAIN tick = Ticks
      /\ Covers(new.minimum, table[new.contract])
  BY <1>1 DEF Thrifty, Safe, Typed, AuctionsTyped, TicksTyped, ToInsert, Priced, TickPriced
<1> HIDE DEF new
<1>3. /\ DOMAIN auctions' = DOMAIN auctions \cup {last} /\ last \notin DOMAIN auctions
      /\ auctions'[last] = new /\ \A a \in DOMAIN auctions : auctions'[a] = auctions[a]
  BY <1>1, <1>2
<1> HIDE DEF last
<1>4. Unwon' /\ Able'
  <2>1. \A team \in Teams : RosterKept(team)
    BY <1>1 DEF RosterKept
  <2> QED BY <1>1, <1>2, <1>3, <2>1, PoolIsFree
<1>5. Priced'
  <2>1. Safe /\ Priced /\ KeepsRows /\ UNCHANGED <<resolutions, request>>
    BY <1>1 DEF Thrifty, KeepsRows, bidVars
  <2>2. \A a \in DOMAIN auctions' : AuctionPriced(a)'
    BY <1>1, <1>2, <1>3, <2>1 DEF Priced, AuctionPriced
  <2>3. ASSUME NEW u \in Ticks
        PROVE  TickPriced(u)'
    <3>1. tick'[u].at = "inserting" => tick[u].at = "inserting" /\ tick'[u].auction = tick[u].auction
      BY <1>1, <1>2 DEF GoOn, Idle
    <3>2. TickPriced(u)
      BY <2>1 DEF Priced
    <3> QED BY <2>1, <3>1, <3>2, TickPriceStays
  <2>4. ASSUME NEW r \in Requests
        PROVE  BidPriced(r)'
    <3>1. BidPriced(r) /\ (request[r] # Idle => request[r].auction \in DOMAIN auctions)
      BY <2>1 DEF Priced, Safe, Typed, RequestsTyped
    <3> QED BY <1>3, <2>1, <3>1 DEF BidPriced
  <2>5. \A id \in DOMAIN resolutions' : WinPriced(id)'
    BY <1>1, <2>1 DEF Priced, WinPriced
  <2> QED BY <2>2, <2>3, <2>4, <2>5 DEF Priced
<1> QED BY <1>4, <1>5 DEF Thrifty

-----------------------------------------------------------------------------
(* Bids *)

LEMMA BeginThrifty ==
  ASSUME Thrifty, OneBidEach, NEW r \in Requests, NEW team \in Teams, NEW a \in DOMAIN auctions,
         NEW amount \in Amounts, NEW pick \in Picks \cup {Unset}, BeginBid(r, team, a, amount, pick)
  PROVE  Unwon' /\ Priced' /\ Able'
<1> DEFINE q == [at |-> "writing", auction |-> a, team |-> team, amount |-> amount, pick |-> pick]
<1>1. /\ team \in setting.bidders /\ Quiet(team) /\ BigEnough(amount, auctions[a])
      /\ WithinMeans(team, a, amount)
      /\ request' = [request EXCEPT ![r] = q]
      /\ UNCHANGED <<setting, tick, table, auctions, resolutions>>
  BY DEF BeginBid, poolVars
<1>2. DOMAIN request = Requests /\ amount \in Nat /\ Safe /\ Priced /\ Able
  BY HouseConstants DEF Thrifty, Safe, Typed, RequestsTyped
<1>3. request'[r] = q /\ \A s \in Requests \ {r} : request'[s] = request[s]
  BY <1>1, <1>2
<1>4. q.team = team /\ q.auction = a /\ q.amount = amount
  OBVIOUS
<1> HIDE DEF q
<1>5. Unwon'
  BY <1>1 DEF Thrifty, Unwon
<1>6. amount >= auctions[a].minimum
  <2>1. auctions[a] \in Auction /\ AuctionPriced(a)
    BY <1>2 DEF Safe, Typed, AuctionsTyped, Priced
  <2>2. auctions[a].minimum \in Nat /\ auctions[a].lead \in Lead
    BY <2>1 DEF Auction
  <2>3. auctions[a].lead.amount \in Nat
    BY <2>2 DEF Lead, NoLead
  <2> QED BY <1>1, <1>2, <2>1, <2>2, <2>3 DEF BigEnough, AuctionPriced
<1>7. Priced'
  <2>1. BidPriced(r)'
    BY <1>1, <1>3, <1>4, <1>6 DEF BidPriced
  <2>2. \A s \in Requests \ {r} : BidPriced(s)'
    BY <1>1, <1>2, <1>3 DEF Priced, BidPriced
  <2>3. \A b \in DOMAIN auctions' : AuctionPriced(b)'
    BY <1>1, <1>2 DEF Priced, AuctionPriced
  <2>4. \A t \in Ticks : TickPriced(t)'
    BY <1>1, <1>2 DEF Priced, TickPriced
  <2>5. \A id \in DOMAIN resolutions' : WinPriced(id)'
    BY <1>1, <1>2 DEF Priced, WinPriced
  <2> QED BY <2>1, <2>2, <2>3, <2>4, <2>5 DEF Priced
<1>8. \A u, but, n, k : Room(u, but, n, k)' <=> Room(u, but, n, k)
  BY <1>1 DEF Room, Bound, CommittedSalary, SpotsUsed, Promised, Leads, Holds, EffectiveBid
<1>9. BidFits(r)'
  <2>1. Room(team, a, amount, 1)
    BY <1>1 DEF WithinMeans, Room
  <2> QED BY <1>1, <1>3, <1>4, <1>8, <2>1 DEF BidFits
<1>10. \A s \in Requests \ {r} : BidFits(s)'
  BY <1>1, <1>2, <1>3, <1>8 DEF Able, BidFits
<1>11. BiddersApart'
  <2>1. \A s \in Requests : request[s] # Idle => request[s].team # team
    BY <1>1, <1>2 DEF Quiet, OneBidEach, Safe, Typed, ConfigTyped
  <2> QED BY <1>2, <1>3, <1>4, <2>1 DEF Able, BiddersApart
<1>12. \A u \in setting'.bidders : Room(u, 0, 0, 0)'
  BY <1>1, <1>2, <1>8 DEF Able
<1> QED BY <1>5, <1>7, <1>9, <1>10, <1>11, <1>12 DEF Able

LEMMA AbortThrifty ==
  ASSUME Thrifty, Safe', NEW r \in Requests, AbortBid(r)
  PROVE  Unwon' /\ Priced' /\ Able'
<1>1. request' = [request EXCEPT ![r] = Idle] /\ UNCHANGED <<setting, tick, table, auctions, resolutions>>
  BY DEF AbortBid, poolVars
<1>2. DOMAIN request = Requests
  BY DEF Thrifty, Safe, Typed, RequestsTyped
<1>3. \A s \in Requests : request'[s] # Idle => request'[s] = request[s]
  BY <1>1, <1>2
<1>4. KeepsRows /\ SameTerms
  BY <1>1 DEF KeepsRows, SameTerms
<1>5. Priced'
  BY <1>1, <1>3, <1>4, PricesStay
<1>6. ASSUME NEW team \in Teams, Bound(team)'
      PROVE  Bound(team) /\ \A but \in Nat : NoDearer(team, but)
  <2>1. Bound(team)
    BY <1>1, <1>6 DEF Bound
  <2>2. RosterKept(team) /\ HoldsKept(team) /\ \A but \in Nat : LeadsKept(team, but)
    BY <1>1 DEF RosterKept, HoldsKept, LeadsKept, Holds, Leads
  <2> QED BY <2>1, <2>2, NothingDearer DEF Thrifty
<1>7. \A s \in Requests : request'[s] # Idle => request'[s] = request[s] /\ request[s].auction \in Nat
  BY <1>3 DEF Thrifty, Safe, Typed, RequestsTyped, BidRequest
<1>8. Able'
  BY <1>1, <1>6, <1>7, AbleStays, 0 \in Nat
<1> QED BY <1>1, <1>5, <1>8 DEF Thrifty, Unwon

\* The new lead is what its bid has made room for; whoever led before has one lead less.
LEMMA CommitThrifty ==
  ASSUME Thrifty, Safe', NEW r \in Requests, CommitBid(r)
  PROVE  Unwon' /\ Priced' /\ Able'
<1> DEFINE q == request[r]
<1>1. /\ q # Idle /\ request' = [request EXCEPT ![r] = Idle]
      /\ auctions' = [auctions EXCEPT ![q.auction].lead = [team |-> q.team, amount |-> q.amount]]
      /\ UNCHANGED <<setting, tick, table, resolutions>>
  BY DEF CommitBid
<1>2. /\ Safe /\ Priced /\ Able /\ DOMAIN request = Requests /\ auctions \in Seq(Auction)
      /\ q \in BidRequest /\ q.auction \in DOMAIN auctions
  BY <1>1 DEF Thrifty, Safe, Typed, RequestsTyped, AuctionsTyped
<1>3. request'[r] = Idle /\ \A s \in Requests \ {r} : request'[s] = request[s]
  BY <1>1, <1>2
<1>4. PICK x, team, amount : x = q.auction /\ team = q.team /\ amount = q.amount
  OBVIOUS
<1>5. /\ x \in DOMAIN auctions /\ team \in Teams /\ amount \in Nat /\ team \in setting.bidders
      /\ Room(team, x, amount, 1)
  BY <1>1, <1>2, <1>4 DEF BidRequest, Able, BidFits
<1>6. /\ DOMAIN auctions' = DOMAIN auctions
      /\ \A b \in DOMAIN auctions : /\ auctions'[b].contract = auctions[b].contract
                                    /\ auctions'[b].minimum = auctions[b].minimum
                                    /\ auctions'[b].status = auctions[b].status
      /\ \A b \in DOMAIN auctions \ {x} : auctions'[b] = auctions[b]
      /\ auctions'[x].lead.team = team /\ auctions'[x].lead.amount = amount
  <2>1. \A b \in DOMAIN auctions : auctions[b] \in Auction
    BY <1>2
  <2> HIDE DEF q
  <2> QED BY <1>1, <1>2, <1>4, <2>1 DEF Auction
<1> HIDE DEF q
<1>7. Unwon'
  BY <1>1 DEF Thrifty, Unwon
<1>8. Priced'
  <2>1. \A b \in DOMAIN auctions' : AuctionPriced(b)'
    <3>1. amount >= auctions[x].minimum
      BY <1>1, <1>2, <1>4 DEF Priced, BidPriced, q
    <3> QED BY <1>1, <1>2, <1>5, <1>6, <3>1 DEF Priced, AuctionPriced
  <2>2. \A t \in Ticks : TickPriced(t)'
    BY <1>1, <1>2 DEF Priced, TickPriced
  <2>3. ASSUME NEW s \in Requests
        PROVE  BidPriced(s)'
    <3>1. BidPriced(s) /\ (request[s] # Idle => request[s].auction \in DOMAIN auctions)
      BY <1>2 DEF Priced, Safe, Typed, RequestsTyped
    <3> QED BY <1>3, <1>6, <3>1 DEF BidPriced
  <2>4. \A id \in DOMAIN resolutions' : WinPriced(id)'
    BY <1>1, <1>2 DEF Priced, WinPriced
  <2> QED BY <2>1, <2>2, <2>3, <2>4 DEF Priced
<1>9. \A u : Bound(u)' <=> Bound(u)
  BY <1>1 DEF Bound
<1>10. \A u \in Teams : RosterKept(u) /\ HoldsKept(u)
  BY <1>1 DEF RosterKept, HoldsKept, Holds
<1>11. ASSUME NEW u \in Teams, u # team, NEW but
       PROVE  NoDearer(u, but)
  <2>1. LeadsKept(u, but)
    BY <1>6, <1>11 DEF LeadsKept, Leads
  <2> QED BY <1>2, <1>10, <2>1, NothingDearer
<1>12. Room(team, 0, 0, 0)'
  <2> SUFFICES ASSUME Bound(team)'
               PROVE  CommittedSalary(team, 0)' <= Cap /\ SpotsUsed(team, 0)' <= PreseasonLimit
    <3>1. CommittedSalary(team, 0)' \in Nat /\ SpotsUsed(team, 0)' \in Nat
      BY <1>5, StakeInNatNext
    <3> QED BY <3>1 DEF Room
  <2>1. CommittedSalary(team, x) + amount <= Cap /\ SpotsUsed(team, x) + 1 <= PreseasonLimit
    BY <1>5, <1>9 DEF Room
  <2>2. Stakes(team, x) /\ Stakes(team, 0)'
    BY <1>2, <1>5, StakesHere DEF AllStakes
  <2>3. /\ LeadSum(team, 0)' <= LeadSum(team, x) + amount
        /\ Cardinality(Leads(team)' \ {0}) <= Cardinality(Leads(team) \ {x}) + 1
    <3>1. \A a \in Leads(team)' \ {0} :
            IF a = x THEN auctions'[a].lead.amount <= amount
            ELSE a \in Leads(team) /\ auctions'[a].lead.amount = auctions[a].lead.amount
      BY <1>5, <1>6 DEF Leads
    <3> QED BY <1>5, <2>2, <3>1, LeadTaken
  <2>4. UNCHANGED HoldSum(team) /\ UNCHANGED Cardinality(Holds(team))
    BY <1>1 DEF HoldSum, HoldPay, Holds
  <2>5. /\ Payroll(table, team) \in Nat /\ LeadSum(team, x) \in Nat /\ HoldSum(team) \in Nat
        /\ Cardinality(Rostered(table, team)) \in Nat /\ Cardinality(Leads(team) \ {x}) \in Nat
        /\ Cardinality(Holds(team)) \in Nat
    BY <1>2, <1>5, PartsInNat
  <2>6. LeadSum(team, 0)' \in Nat /\ Cardinality(Leads(team)' \ {0}) \in Nat
    BY <1>2, <1>5, StakesHere, StakesInNatNext DEF AllStakes
  <2>7. /\ CommittedSalary(team, x) = Payroll(table, team) + (LeadSum(team, x) + HoldSum(team))
        /\ SpotsUsed(team, x) = Cardinality(Rostered(table, team)) + Cardinality(Leads(team) \ {x})
                                  + Cardinality(Holds(team))
    BY <2>2 DEF Stakes
  <2>8. /\ CommittedSalary(team, 0)' = Payroll(table, team) + (LeadSum(team, 0)' + HoldSum(team))
        /\ SpotsUsed(team, 0)' = Cardinality(Rostered(table, team)) + Cardinality(Leads(team)' \ {0})
                                   + Cardinality(Holds(team))
    BY <1>1, <2>2, <2>4 DEF Stakes
  <2>9. Cap \in Nat /\ PreseasonLimit \in Nat
    BY HouseConstants, LimitConstants
  <2>10. CommittedSalary(team, 0)' <= Cap
    BY <1>5, <2>1, <2>3, <2>5, <2>6, <2>7, <2>8, <2>9
  <2>11. SpotsUsed(team, 0)' <= PreseasonLimit
    BY <2>1, <2>3, <2>5, <2>6, <2>7, <2>8, <2>9
  <2> QED BY <2>10, <2>11
<1>13. ASSUME NEW u \in setting'.bidders
       PROVE  Room(u, 0, 0, 0)'
  <2>1. u \in Teams /\ u \in setting.bidders
    BY <1>1, <1>2, HouseConstants DEF Safe, Typed, ConfigTyped
  <2>2. CASE u # team
    BY <1>2, <1>9, <1>11, <2>1, <2>2, RoomStays, 0 \in Nat DEF Able
  <2> QED BY <1>12, <2>2
<1>14. ASSUME NEW s \in Requests
       PROVE  BidFits(s)'
  <2> SUFFICES ASSUME request'[s] # Idle
               PROVE  BidFits(s)'
    BY DEF BidFits
  <2>1. s # r /\ request'[s] = request[s]
    BY <1>3
  <2>2. PICK u, but, n : u = request[s].team /\ but = request[s].auction /\ n = request[s].amount
    OBVIOUS
  <2>3. u \in Teams /\ n \in Nat /\ u \in setting.bidders /\ Room(u, but, n, 1)
    BY <1>2, <2>1, <2>2 DEF Able, BidFits, Safe, Typed, RequestsTyped, BidRequest
  <2>4. u # team
    BY <1>1, <1>2, <1>4, <2>1, <2>2 DEF Able, BiddersApart, q
  <2>5. Room(u, but, n, 1)'
    BY <1>2, <1>9, <1>11, <2>3, <2>4, RoomStays, 1 \in Nat
  <2> QED BY <1>1, <2>1, <2>2, <2>3, <2>5 DEF BidFits
<1>15. BiddersApart'
  BY <1>2, <1>3 DEF Able, BiddersApart
<1> QED BY <1>7, <1>8, <1>13, <1>14, <1>15 DEF Able

-----------------------------------------------------------------------------
(* Closes, raise and match *)

LEMMA EndedTerms ==
  ASSUME Safe, NEW a \in DOMAIN auctions, NEW status, status # "Open",
         auctions' = [auctions EXCEPT ![a].status = status]
  PROVE  /\ SameTerms
         /\ \A team : a \notin Leads(team)' /\ \A but : LeadsKept(team, but)
<1>1. auctions \in Seq(Auction) /\ \A b \in DOMAIN auctions : auctions[b] \in Auction
  BY DEF Safe, Typed, AuctionsTyped
<1>2. /\ DOMAIN auctions' = DOMAIN auctions /\ auctions'[a].status = status
      /\ \A b \in DOMAIN auctions \ {a} : auctions'[b] = auctions[b]
      /\ \A b \in DOMAIN auctions : /\ auctions'[b].contract = auctions[b].contract
                                    /\ auctions'[b].minimum = auctions[b].minimum
                                    /\ auctions'[b].lead = auctions[b].lead
  BY <1>1 DEF Auction
<1> QED BY <1>2 DEF SameTerms, LeadsKept, Leads

\* A signing costs one team what it pays, at most, and nobody else anything.
LEMMA SettleSigns ==
  ASSUME Safe, Safe', NEW a \in DOMAIN auctions, NEW status, NEW row, Settle(a, status, row),
         row \subseteq RowsAfter(table[auctions[a].contract]),
         NEW team \in Teams, NEW n \in Nat, \A new \in row : new.team = team /\ new.salary <= n
  PROVE  /\ KeepsRows /\ \A other \in Teams \ {team} : RosterKept(other)
         /\ Payroll(table', team) <= Payroll(table, team) + n
         /\ Cardinality(Rostered(table', team)) <= Cardinality(Rostered(table, team)) + 1
<1>1. Ordered(table) /\ auctions[a].contract \in DOMAIN table
  BY DEF Safe, Typed, AuctionsTyped
<1>2. PICK new \in row : table' = Replace(table, table[auctions[a].contract], new)
  BY DEF Settle
<1>3. KeepsRows
  BY <1>1, <1>2, RosterAfter DEF KeepsRows
<1>4. \A other \in Teams \ {team} : RosterKept(other)
  <2> TAKE other \in Teams \ {team}
  <2>1. new.team # other
    BY <1>2
  <2> QED BY <1>1, <1>2, <2>1, RosterAfter DEF RosterKept
<1>5. PICK last : /\ last.salary = new.salary
                  /\ Rostered(table', team) \subseteq Rostered(table, team) \cup {last}
  <2>1. PICK last : /\ last.salary = new.salary
                    /\ Rostered(table', team) \subseteq
                         Rostered(table, team) \cup (IF new.team = team /\ Live(new) THEN {last} ELSE {})
    BY <1>1, <1>2, RosterAfter
  <2> QED BY <2>1
<1>6. RowsPaid(Rostered(table, team)) /\ RowsPaid(Rostered(table', team)) /\ last.salary <= n
  BY <1>2, <1>5, RosterPaid DEF Safe, Typed
<1> QED BY <1>3, <1>4, <1>5, <1>6, RosterGains DEF Payroll

\* An expiry costs nobody anything.
LEMMA SettleFrees ==
  ASSUME Safe, NEW a \in DOMAIN auctions, NEW status,
         Settle(a, status, ExpiredRow(table[auctions[a].contract]))
  PROVE  KeepsRows /\ \A team \in Teams : RosterKept(team)
<1> DEFINE c == table[auctions[a].contract]
<1>1. Ordered(table) /\ auctions[a].contract \in DOMAIN table /\ c \in Row
  BY DEF Safe, Typed, AuctionsTyped, Ordered
<1>2. PICK new \in ExpiredRow(c) : table' = Replace(table, c, new)
  BY DEF Settle
<1>3. new \in RowsAfter(c)
  BY <1>1, <1>2, ExpiryMakesRows
<1>4. ~Live(new)
  <2>1. After(c) \in Row
    BY <1>1, NextRow DEF RowsAfter
  <2> HIDE DEF c
  <2> QED BY <1>2, <2>1 DEF ExpiredRow, Provided, Live, Row
<1> QED BY <1>1, <1>2, <1>3, <1>4, RosterAfter DEF KeepsRows, RosterKept

LEMMA UnbidThrifty ==
  ASSUME Thrifty, Safe', NEW a \in DOMAIN auctions, CloseUnbid(a)
  PROVE  Unwon' /\ Priced' /\ Able'
<1>1. /\ Settle(a, "Expired", ExpiredRow(table[auctions[a].contract]))
      /\ auctions' = [auctions EXCEPT ![a].status = "Expired"]
      /\ UNCHANGED <<setting, tick, request, resolutions>>
  BY DEF CloseUnbid, Settle
<1>2. Safe
  BY DEF Thrifty
<1>3. SameTerms /\ \A team, but : LeadsKept(team, but)
  BY <1>1, <1>2, EndedTerms
<1>4. KeepsRows /\ \A team \in Teams : RosterKept(team)
  BY <1>1, <1>2, SettleFrees
<1>5. Priced'
  BY <1>1, <1>3, <1>4, PricesStay
<1>6. ASSUME NEW team \in Teams, Bound(team)'
      PROVE  Bound(team) /\ \A but \in Nat : NoDearer(team, but)
  <2>1. Bound(team) /\ HoldsKept(team)
    BY <1>1, <1>6 DEF Bound, HoldsKept, Holds
  <2> QED BY <1>2, <1>3, <1>4, <2>1, NothingDearer
<1>7. \A r \in Requests : request'[r] # Idle => request'[r] = request[r] /\ request[r].auction \in Nat
  BY <1>1, <1>2 DEF Safe, Typed, RequestsTyped, BidRequest
<1>8. Able'
  BY <1>1, <1>6, <1>7, AbleStays, 0 \in Nat
<1> QED BY <1>1, <1>5, <1>8 DEF Thrifty, Unwon

\* What a bid under way does not count is another auction than the one that closes.
LEMMA OtherAuctions ==
  ASSUME Safe, NEW a \in DOMAIN auctions, RowFree(a)
  PROVE  /\ 0 \in Nat \ {a}
         /\ \A r \in Requests : request[r] # Idle => request[r].auction \in Nat \ {a}
         /\ auctions[a] \in Auction
<1>1. auctions \in Seq(Auction)
  BY DEF Safe, Typed, AuctionsTyped
<1>2. \A r \in Requests : request[r] # Idle => request[r] \in BidRequest
  BY DEF Safe, Typed, RequestsTyped
<1> QED BY <1>1, <1>2 DEF RowFree, BidRequest

LEMMA LeaderIs ==
  ASSUME Safe, NEW a \in DOMAIN auctions, auctions[a].status = "Open", auctions[a].lead # NoLead
  PROVE  /\ auctions[a].lead.team \in Teams /\ auctions[a].lead.amount \in Nat \ {0}
         /\ a \in Leads(auctions[a].lead.team)
<1>1. auctions \in Seq(Auction)
  BY DEF Safe, Typed, AuctionsTyped
<1>2. auctions[a] \in Auction
  BY <1>1
<1>3. auctions[a].lead \in Lead
  BY <1>2 DEF Auction
<1> QED BY <1>3 DEF Lead, Leads

LEMMA SoldThrifty ==
  ASSUME Thrifty, Safe', NEW a \in DOMAIN auctions, CloseSold(a)
  PROVE  Unwon' /\ Priced' /\ Able'
<1>1. PICK c, buyer, n, exception :
        /\ c = table[auctions[a].contract] /\ buyer = auctions[a].lead.team /\ n = auctions[a].lead.amount
        /\ exception = ExceptionOf(c, buyer)
  OBVIOUS
<1>2. /\ c.kind # "RFA" /\ auctions[a].status = "Open" /\ auctions[a].lead # NoLead /\ RowFree(a)
      /\ Settle(a, "Completed", SignedAtAuction(c, buyer, n, exception))
      /\ auctions' = [auctions EXCEPT ![a].status = "Completed"]
      /\ UNCHANGED <<setting, tick, request, resolutions>>
  BY <1>1 DEF CloseSold, Settle, Closable
<1>3. Safe /\ buyer \in Teams /\ n \in Nat \ {0} /\ a \in Leads(buyer)
  BY <1>1, <1>2, LeaderIs DEF Thrifty
<1>4. c \in Row
  BY <1>1, <1>3 DEF Safe, Typed, AuctionsTyped, Ordered
<1>5. SameTerms /\ \A team : a \notin Leads(team)' /\ \A but : LeadsKept(team, but)
  BY <1>2, <1>3, EndedTerms
<1>6. /\ KeepsRows /\ \A other \in Teams \ {buyer} : RosterKept(other)
      /\ Payroll(table', buyer) <= Payroll(table, buyer) + n
      /\ Cardinality(Rostered(table', buyer)) <= Cardinality(Rostered(table, buyer)) + 1
  <2>1. \A new \in SignedAtAuction(c, buyer, n, exception) : new.team = buyer /\ new.salary <= n
    BY <1>2, <1>3, <1>4, SigningCosts DEF Covers
  <2>2. SignedAtAuction(c, buyer, n, exception) \subseteq RowsAfter(table[auctions[a].contract])
    BY <1>1, <1>3, <1>4, SigningMakesRows
  <2>3. n \in Nat
    BY <1>3
  <2> QED BY <1>2, <1>3, <2>1, <2>2, <2>3, SettleSigns
<1>7. Priced'
  BY <1>2, <1>5, <1>6, PricesStay
<1>8. ASSUME NEW team \in Teams, Bound(team)'
      PROVE  Bound(team) /\ \A but \in Nat \ {a} : NoDearer(team, but)
  <2>1. Bound(team) /\ HoldsKept(team)
    BY <1>2, <1>8 DEF Bound, HoldsKept, Holds
  <2>2. CASE team # buyer
    BY <1>3, <1>5, <1>6, <2>1, <2>2, NothingDearer
  <2>3. CASE team = buyer
    <3> SUFFICES ASSUME NEW but \in Nat \ {a}
                 PROVE  NoDearer(team, but)
      BY <2>1
    <3>1. Stakes(team, but) /\ Stakes(team, but)'
      BY <1>3, StakesHere DEF AllStakes
    <3>2. /\ LeadSum(team, but)' + n <= LeadSum(team, but)
          /\ Cardinality(Leads(team)' \ {but}) + 1 <= Cardinality(Leads(team) \ {but})
      BY <1>1, <1>3, <1>5, <2>3, <3>1, LeadLost DEF LeadsKept
    <3>3. HoldSum(team)' <= HoldSum(team) /\ Cardinality(Holds(team)') <= Cardinality(Holds(team))
      BY <2>1, <3>1, HoldsShrink DEF HoldsKept
    <3>4. /\ LeadSum(team, but) \in Nat /\ HoldSum(team) \in Nat
          /\ Cardinality(Leads(team) \ {but}) \in Nat /\ Cardinality(Holds(team)) \in Nat
      BY <1>3, PartsInNat
    <3>5. /\ LeadSum(team, but)' \in Nat /\ Cardinality(Leads(team)' \ {but}) \in Nat
      BY StakesHere, StakesInNatNext, <1>3 DEF AllStakes
    <3>6. /\ LeadSum(team, but)' <= LeadSum(team, but) + (-n) /\ HoldSum(team)' <= HoldSum(team) + 0
          /\ Cardinality(Leads(team)' \ {but}) <= Cardinality(Leads(team) \ {but}) + (-1)
          /\ Cardinality(Holds(team)') <= Cardinality(Holds(team)) + 0
      BY <1>3, <3>2, <3>3, <3>4, <3>5
    <3>7. /\ n \in Int /\ -n \in Int /\ 0 \in Int /\ 1 \in Int /\ -1 \in Int
          /\ n + (-n) + 0 <= 0 /\ 1 + (-1) + 0 <= 0
      BY <1>3
    <3> QED BY <1>3, <1>6, <2>3, <3>6, <3>7, PartsBalance
  <2> QED BY <2>2, <2>3
<1>9. Able'
  BY <1>2, <1>3, <1>8, OtherAuctions, AbleStays
<1> QED BY <1>2, <1>7, <1>9 DEF Thrifty, Unwon

\* The winner of a restricted free agent holds him instead of leading his auction.
LEMMA RestrictedThrifty ==
  ASSUME Thrifty, Safe', NEW a \in DOMAIN auctions, CloseRestricted(a)
  PROVE  Unwon' /\ Priced' /\ Able'
<1>1. PICK id, lead : id = auctions[a].contract /\ lead = auctions[a].lead
  OBVIOUS
<1>2. /\ auctions[a].status = "Open" /\ RowFree(a)
      /\ auctions' = [auctions EXCEPT ![a].status = "Closed"]
      /\ UNCHANGED <<setting, tick, table, request>>
      /\ resolutions' = IF lead = NoLead \/ ~AwaitsAuction(id) THEN resolutions
                        ELSE [resolutions EXCEPT ![id].status = "AwaitingRaise", ![id].winner = lead.team,
                                                 ![id].final = lead.amount]
  BY <1>1 DEF CloseRestricted, Closable
<1>3. Safe /\ Unwon /\ Priced
  BY DEF Thrifty
<1>4. SameTerms /\ \A team : a \notin Leads(team)' /\ \A but : LeadsKept(team, but)
  BY <1>2, <1>3, EndedTerms
<1>5. KeepsRows /\ \A team \in Teams : RosterKept(team)
  BY <1>2 DEF KeepsRows, RosterKept
<1>6. \A r \in Requests : request'[r] # Idle => request'[r] = request[r]
  BY <1>2
<1>7. CASE UNCHANGED resolutions
  <2>1. Priced'
    BY <1>2, <1>4, <1>5, <1>6, <1>7, PricesStay
  <2>2. ASSUME NEW team \in Teams, Bound(team)'
        PROVE  Bound(team) /\ \A but \in Nat \ {a} : NoDearer(team, but)
    <3>1. Bound(team) /\ HoldsKept(team)
      BY <1>7, <2>2 DEF Bound, HoldsKept, Holds
    <3> QED BY <1>3, <1>4, <1>5, <3>1, NothingDearer
  <2>3. Able'
    BY <1>2, <1>3, <2>2, OtherAuctions, AbleStays
  <2> QED BY <1>3, <1>7, <2>1, <2>3 DEF Unwon
<1>8. CASE lead # NoLead /\ AwaitsAuction(id)
  <2>1. PICK winner, n : winner = lead.team /\ n = lead.amount
    OBVIOUS
  <2>2. winner \in Teams /\ n \in Nat \ {0} /\ a \in Leads(winner)
    BY <1>1, <1>2, <1>3, <1>8, <2>1, LeaderIs
  <2>3. /\ id \in DOMAIN resolutions /\ resolutions[id] \in Resolution
        /\ resolutions[id].status = "AwaitingAuction" /\ resolutions[id].raised = 0
    BY <1>3, <1>8 DEF AwaitsAuction, Safe, Typed, RfaTyped, Unwon
  <2>4. /\ DOMAIN resolutions' = DOMAIN resolutions
        /\ \A i \in DOMAIN resolutions \ {id} : resolutions'[i] = resolutions[i]
        /\ resolutions'[id].status = "AwaitingRaise" /\ resolutions'[id].winner = winner
        /\ resolutions'[id].final = n /\ resolutions'[id].raised = 0
        /\ resolutions'[id].owner = resolutions[id].owner
    BY <1>2, <1>8, <2>1, <2>3 DEF Resolution
  <2>5. Unwon'
    BY <1>3, <2>4 DEF Unwon
  <2>6. WinPriced(id)'
    <3>1. auctions[a] \in Auction /\ AuctionPriced(a) /\ auctions[a].contract = id
      BY <1>1, <1>3 DEF Safe, Typed, AuctionsTyped, Priced
    <3>2. n >= auctions[a].minimum /\ Covers(auctions[a].minimum, table[id])
      BY <1>1, <1>8, <2>1, <3>1 DEF AuctionPriced
    <3>3. table[id] \in Row /\ auctions[a].minimum \in Nat
      BY <1>3, <2>3, <3>1 DEF Safe, Typed, RfaTyped, Ordered, Auction
    <3>4. table[id].salary \in Nat /\ n \in Nat
      BY <2>2, <3>3 DEF Row
    <3>5. Covers(n, table[id])
      BY <3>2, <3>3, <3>4 DEF Covers
    <3> QED BY <1>2, <2>4, <3>5 DEF WinPriced
  <2>7. Priced'
    BY <1>2, <1>4, <1>5, <1>6, <2>4, <2>6, PricesStay
  <2>8. ASSUME NEW team \in Teams, Bound(team)'
        PROVE  Bound(team) /\ \A but \in Nat \ {a} : NoDearer(team, but)
    <3>1. Bound(team)
      BY <1>3, <2>3, <2>4, <2>8, BoundStays
    <3>2. CASE team # winner
      <4>1. HoldsKept(team)
        BY <2>4, <3>2 DEF HoldsKept, Holds
      <4> QED BY <1>3, <1>4, <1>5, <3>1, <4>1, NothingDearer
    <3>3. CASE team = winner
      <4> SUFFICES ASSUME NEW but \in Nat \ {a}
                   PROVE  NoDearer(team, but)
        BY <3>1
      <4>1. Stakes(team, but) /\ Stakes(team, but)'
        BY <1>3, StakesHere DEF AllStakes
      <4>2. /\ LeadSum(team, but)' + n <= LeadSum(team, but)
            /\ Cardinality(Leads(team)' \ {but}) + 1 <= Cardinality(Leads(team) \ {but})
        BY <1>1, <1>4, <2>1, <2>2, <3>3, <4>1, LeadLost DEF LeadsKept
      <4>3. /\ HoldSum(team)' <= HoldSum(team) + n
            /\ Cardinality(Holds(team)') <= Cardinality(Holds(team)) + 1
        <5>1. n \in Nat
          BY <2>2
        <5>2. \A i \in Holds(team)' :
                IF i = id THEN EffectiveBid(resolutions'[i]) <= n
                ELSE i \in Holds(team) /\ EffectiveBid(resolutions'[i]) = EffectiveBid(resolutions[i])
          BY <2>4, <5>1 DEF Holds, EffectiveBid
        <5> QED BY <4>1, <5>1, <5>2, HoldWon
      <4>4. /\ LeadSum(team, but) \in Nat /\ HoldSum(team) \in Nat
            /\ Cardinality(Leads(team) \ {but}) \in Nat /\ Cardinality(Holds(team)) \in Nat
        BY <1>3, PartsInNat
      <4>5. /\ LeadSum(team, but)' \in Nat /\ Cardinality(Leads(team)' \ {but}) \in Nat
        BY StakesHere, StakesInNatNext, <1>3 DEF AllStakes
      <4>6. /\ Payroll(table', team) <= Payroll(table, team) + 0
            /\ Cardinality(Rostered(table', team)) <= Cardinality(Rostered(table, team)) + 0
        <5>1. /\ Payroll(table, team) \in Nat /\ Cardinality(Rostered(table, team)) \in Nat
          BY <1>3, PartsInNat
        <5> QED BY <1>2, <5>1
      <4>7. /\ LeadSum(team, but)' <= LeadSum(team, but) + (-n)
            /\ Cardinality(Leads(team)' \ {but}) <= Cardinality(Leads(team) \ {but}) + (-1)
        BY <2>2, <4>2, <4>4, <4>5
      <4>8. /\ n \in Int /\ -n \in Int /\ 0 \in Int /\ 1 \in Int /\ -1 \in Int
            /\ 0 + (-n) + n <= 0 /\ 0 + (-1) + 1 <= 0
        BY <2>2
      <4> QED BY <1>3, <4>3, <4>6, <4>7, <4>8, PartsBalance
    <3> QED BY <3>2, <3>3
  <2>9. Able'
    BY <1>2, <1>3, <2>8, OtherAuctions, AbleStays
  <2> QED BY <2>5, <2>7, <2>9
<1> QED BY <1>2, <1>7, <1>8

\* Nobody holds a player but the team that has raised, which is bound no longer.
LEMMA RaiseThrifty ==
  ASSUME Thrifty, Safe', NEW id \in DOMAIN resolutions, NEW amount \in Amounts, NEW pick \in Picks,
         Raise(id, amount, pick)
  PROVE  Unwon' /\ Priced' /\ Able'
<1>1. /\ resolutions[id].status = "AwaitingRaise" /\ amount > resolutions[id].final
      /\ resolutions' = [resolutions EXCEPT ![id].status = "AwaitingMatch", ![id].raised = amount]
      /\ UNCHANGED <<setting, tick, table, auctions, request>>
  BY DEF Raise, poolVars
<1>2. /\ Safe /\ Unwon /\ Priced /\ resolutions[id] \in Resolution /\ amount \in Nat \ {0}
  BY HouseConstants DEF Thrifty, Safe, Typed, RfaTyped
<1>3. /\ DOMAIN resolutions' = DOMAIN resolutions
      /\ \A i \in DOMAIN resolutions \ {id} : resolutions'[i] = resolutions[i]
      /\ resolutions'[id].status = "AwaitingMatch" /\ resolutions'[id].winner = resolutions[id].winner
      /\ resolutions'[id].final = resolutions[id].final /\ resolutions'[id].raised = amount
      /\ resolutions'[id].owner = resolutions[id].owner
  BY <1>1, <1>2 DEF Resolution
<1>4. Unwon'
  BY <1>2, <1>3 DEF Unwon
<1>5. KeepsRows /\ SameTerms
  BY <1>1 DEF KeepsRows, SameTerms
<1>6. WinPriced(id)'
  BY <1>1, <1>2, <1>3 DEF Priced, WinPriced
<1>7. Priced'
  BY <1>1, <1>3, <1>5, <1>6, PricesStay
<1>8. ASSUME NEW team \in Teams, Bound(team)'
      PROVE  Bound(team) /\ \A but \in Nat : NoDearer(team, but)
  <2>1. Bound(team)
    BY <1>1, <1>2, <1>3, <1>8, BoundStays
  <2>2. team # resolutions[id].winner
    BY <1>2, <1>3, <1>8 DEF Bound
  <2>3. RosterKept(team) /\ HoldsKept(team) /\ \A but \in Nat : LeadsKept(team, but)
    BY <1>1, <1>3, <2>2 DEF RosterKept, HoldsKept, LeadsKept, Holds, Leads
  <2> QED BY <1>2, <2>1, <2>3, NothingDearer
<1>9. \A r \in Requests : request'[r] # Idle => request'[r] = request[r] /\ request[r].auction \in Nat
  BY <1>1, <1>2 DEF Safe, Typed, RequestsTyped, BidRequest
<1>10. Able'
  BY <1>1, <1>8, <1>9, AbleStays, 0 \in Nat
<1> QED BY <1>4, <1>7, <1>10

LEMMA StandPatThrifty ==
  ASSUME Thrifty, Safe', NEW id \in DOMAIN resolutions, StandPat(id)
  PROVE  Unwon' /\ Priced' /\ Able'
<1>1. /\ resolutions[id].status = "AwaitingRaise"
      /\ resolutions' = [resolutions EXCEPT ![id].status = "AwaitingMatch"]
      /\ UNCHANGED <<setting, tick, table, auctions, request>>
  BY DEF StandPat, To, poolVars
<1>2. /\ Safe /\ Unwon /\ Priced /\ resolutions[id] \in Resolution
  BY DEF Thrifty, Safe, Typed, RfaTyped
<1>3. /\ DOMAIN resolutions' = DOMAIN resolutions
      /\ \A i \in DOMAIN resolutions \ {id} : resolutions'[i] = resolutions[i]
      /\ resolutions'[id].status = "AwaitingMatch" /\ resolutions'[id].winner = resolutions[id].winner
      /\ resolutions'[id].final = resolutions[id].final /\ resolutions'[id].raised = resolutions[id].raised
      /\ resolutions'[id].owner = resolutions[id].owner
  BY <1>1, <1>2 DEF Resolution
<1>4. Unwon'
  BY <1>2, <1>3 DEF Unwon
<1>5. KeepsRows /\ SameTerms
  BY <1>1 DEF KeepsRows, SameTerms
<1>6. WinPriced(id)'
  BY <1>1, <1>2, <1>3 DEF Priced, WinPriced
<1>7. Priced'
  BY <1>1, <1>3, <1>5, <1>6, PricesStay
<1>8. ASSUME NEW team \in Teams, Bound(team)'
      PROVE  Bound(team) /\ \A but \in Nat : NoDearer(team, but)
  <2>1. Bound(team)
    BY <1>1, <1>2, <1>3, <1>8, BoundStays
  <2>2. HoldsKept(team)
    BY <1>1, <1>3 DEF HoldsKept, Holds, EffectiveBid
  <2>3. RosterKept(team) /\ \A but \in Nat : LeadsKept(team, but)
    BY <1>1 DEF RosterKept, LeadsKept, Leads
  <2> QED BY <1>2, <2>1, <2>2, <2>3, NothingDearer
<1>9. \A r \in Requests : request'[r] # Idle => request'[r] = request[r] /\ request[r].auction \in Nat
  BY <1>1, <1>2 DEF Safe, Typed, RequestsTyped, BidRequest
<1>10. Able'
  BY <1>1, <1>8, <1>9, AbleStays, 0 \in Nat
<1> QED BY <1>4, <1>7, <1>10

\* What is owed for a restricted free agent covers his salary.
LEMMA OwedCovers ==
  ASSUME Safe, Priced, NEW id \in DOMAIN resolutions, resolutions[id].status # "AwaitingAuction"
  PROVE  Covers(EffectiveBid(resolutions[id]), table[id])
<1>1. /\ resolutions[id] \in Resolution /\ WinPriced(id) /\ table[id] \in Row
  BY DEF Safe, Typed, RfaTyped, Ordered, Priced
<1>2. resolutions[id].final \in Nat /\ resolutions[id].raised \in Nat /\ table[id].salary \in Nat
  BY <1>1 DEF Resolution, Row
<1> QED BY <1>1, <1>2 DEF WinPriced, Covers, EffectiveBid

\* The end of match_or_decline, whoever signs.
LEMMA OutcomeThrifty ==
  ASSUME Thrifty, Safe', NEW id \in DOMAIN resolutions, NEW status \in {"Resolved", "Declined"},
         resolutions[id].status = "AwaitingMatch", To(id, status), UNCHANGED request,
         NEW team \in Teams, NEW exception,
         Settle(AuctionOf(id), "Completed",
                SignedFreeAgent(table[id], team, EffectiveBid(resolutions[id]), exception)),
         IF status = "Resolved" THEN team = resolutions[id].owner ELSE team = resolutions[id].winner
  PROVE  Unwon' /\ Priced' /\ Able'
<1>1. PICK a, n : a = AuctionOf(id) /\ n = EffectiveBid(resolutions[id])
  OBVIOUS
<1>2. /\ Safe /\ Unwon /\ Priced /\ a \in DOMAIN auctions /\ auctions[a].contract = id
      /\ n \in Nat \ {0} /\ resolutions[id] \in Resolution /\ resolutions[id].winner \in Teams
      /\ Covers(n, table[id])
  BY <1>1, AfterAuction, OwedCovers DEF Thrifty
<1>3. table[id] \in Row
  BY <1>2 DEF Safe, Typed, RfaTyped, Ordered
<1>4. PICK row : row = SignedFreeAgent(table[id], team, n, exception)
  OBVIOUS
<1>5. Settle(a, "Completed", row) /\ \A new \in row : new.team = team /\ new.salary <= n
  <2>1. Settle(a, "Completed", row)
    BY <1>1, <1>4
  <2>2. n \in Nat \ {0} /\ Covers(n, table[id])
    BY <1>2
  <2>3. \A new \in SignedFreeAgent(table[id], team, n, exception) : new.team = team /\ new.salary <= n
    BY <1>3, <2>2, SigningCosts
  <2> QED BY <1>4, <2>1, <2>3
<1>6. row \subseteq RowsAfter(table[auctions[a].contract])
  BY <1>2, <1>3, <1>4, SigningMakesRows
<1>7. /\ KeepsRows /\ \A other \in Teams \ {team} : RosterKept(other)
      /\ Payroll(table', team) <= Payroll(table, team) + n
      /\ Cardinality(Rostered(table', team)) <= Cardinality(Rostered(table, team)) + 1
  <2>1. n \in Nat /\ Safe
    BY <1>2
  <2> QED BY <1>2, <1>5, <1>6, <2>1, SettleSigns
<1>8. /\ auctions' = [auctions EXCEPT ![a].status = "Completed"] /\ UNCHANGED <<setting, tick>>
  BY <1>5 DEF Settle
<1>9. SameTerms /\ \A other, but : LeadsKept(other, but)
  BY <1>2, <1>8, EndedTerms
<1>10. /\ DOMAIN resolutions' = DOMAIN resolutions
       /\ \A i \in DOMAIN resolutions \ {id} : resolutions'[i] = resolutions[i]
       /\ resolutions'[id].status = status /\ resolutions'[id].winner = resolutions[id].winner
       /\ resolutions'[id].final = resolutions[id].final /\ resolutions'[id].raised = resolutions[id].raised
       /\ resolutions'[id].owner = resolutions[id].owner
  BY <1>2 DEF To, Resolution
<1>11. Unwon'
  BY <1>2, <1>10 DEF Unwon
<1>12. Priced'
  <2>1. WinPriced(id)'
    BY <1>2, <1>3, <1>7, <1>10 DEF Priced, WinPriced, Covers, KeepsRows, Safe, Typed, RfaTyped
  <2> QED BY <1>7, <1>8, <1>9, <1>10, <2>1, PricesStay
<1>13. \A other : HoldsKept(other)
  BY <1>10 DEF HoldsKept, Holds
<1>14. ASSUME NEW other \in Teams, Bound(other)'
       PROVE  Bound(other) /\ \A but \in Nat : NoDearer(other, but)
  <2>1. Bound(other)
    BY <1>2, <1>10, <1>14, BoundStays
  <2>2. CASE other # team
    BY <1>2, <1>7, <1>9, <1>13, <2>1, <2>2, NothingDearer
  <2>3. CASE other = team
    <3>1. status = "Declined" /\ id \in Holds(team) /\ id \notin Holds(team)'
      BY <1>10, <1>14, <2>3 DEF Bound, Holds
    <3> SUFFICES ASSUME NEW but \in Nat
                 PROVE  NoDearer(team, but)
      BY <2>1, <2>3
    <3>2. Stakes(team, but) /\ Stakes(team, but)'
      BY <1>2, StakesHere DEF AllStakes
    <3>3. /\ HoldSum(team)' + n <= HoldSum(team)
          /\ Cardinality(Holds(team)') + 1 <= Cardinality(Holds(team))
      BY <1>1, <1>13, <3>1, <3>2, HoldLost DEF HoldsKept
    <3>4. /\ LeadSum(team, but)' <= LeadSum(team, but)
          /\ Cardinality(Leads(team)' \ {but}) <= Cardinality(Leads(team) \ {but})
      BY <1>9, <3>2, LeadsShrink DEF LeadsKept
    <3>5. /\ LeadSum(team, but) \in Nat /\ HoldSum(team) \in Nat
          /\ Cardinality(Leads(team) \ {but}) \in Nat /\ Cardinality(Holds(team)) \in Nat
      BY <1>2, PartsInNat
    <3>6. HoldSum(team)' \in Nat /\ Cardinality(Holds(team)') \in Nat
      BY <1>2, StakesHere, StakesInNatNext DEF AllStakes
    <3>7. /\ LeadSum(team, but)' <= LeadSum(team, but) + 0 /\ HoldSum(team)' <= HoldSum(team) + (-n)
          /\ Cardinality(Leads(team)' \ {but}) <= Cardinality(Leads(team) \ {but}) + 0
          /\ Cardinality(Holds(team)') <= Cardinality(Holds(team)) + (-1)
      BY <1>2, <3>3, <3>4, <3>5, <3>6
    <3>8. /\ n \in Int /\ -n \in Int /\ 0 \in Int /\ 1 \in Int /\ -1 \in Int
          /\ n + 0 + (-n) <= 0 /\ 1 + 0 + (-1) <= 0
      BY <1>2
    <3> QED BY <1>2, <1>7, <3>7, <3>8, PartsBalance
  <2> QED BY <2>2, <2>3
<1>15. \A r \in Requests : request'[r] # Idle => request'[r] = request[r] /\ request[r].auction \in Nat
  BY <1>2 DEF Safe, Typed, RequestsTyped, BidRequest
<1>16. Able'
  BY <1>8, <1>14, <1>15, AbleStays, 0 \in Nat
<1> QED BY <1>11, <1>12, <1>16

LEMMA MatchThrifty ==
  ASSUME Thrifty, Safe', NEW id \in DOMAIN resolutions, Match(id)
  PROVE  Unwon' /\ Priced' /\ Able'
<1>1. /\ resolutions[id].status = "AwaitingMatch" /\ To(id, "Resolved") /\ UNCHANGED request
      /\ Settle(AuctionOf(id), "Completed",
                SignedFreeAgent(table[id], resolutions[id].owner, EffectiveBid(resolutions[id]), "Held"))
  BY DEF Match, Settle
<1>2. PICK team : team = resolutions[id].owner
  OBVIOUS
<1>3. team \in Teams
  BY <1>2 DEF Thrifty, Safe, Typed, RfaTyped, Resolution
<1> QED BY <1>1, <1>2, <1>3, OutcomeThrifty

LEMMA DeclineThrifty ==
  ASSUME Thrifty, Safe', NEW id \in DOMAIN resolutions, Decline(id)
  PROVE  Unwon' /\ Priced' /\ Able'
<1>1. PICK team, exception : /\ team = resolutions[id].winner
                             /\ exception = ExceptionOf(table[id], resolutions[id].winner)
  OBVIOUS
<1>2. /\ resolutions[id].status = "AwaitingMatch" /\ To(id, "Declined") /\ UNCHANGED request
      /\ Settle(AuctionOf(id), "Completed",
                SignedFreeAgent(table[id], team, EffectiveBid(resolutions[id]), exception))
  BY <1>1 DEF Decline, Settle
<1>3. team \in Teams
  BY <1>1, <1>2, AfterAuction DEF Thrifty
<1> QED BY <1>1, <1>2, <1>3, OutcomeThrifty

-----------------------------------------------------------------------------
(* Every step keeps the invariant *)

LEMMA ThriftyStep ==
  ASSUME OneBidEach
  PROVE  Thrifty /\ [Next]_vars => Thrifty'
<1> SUFFICES ASSUME Thrifty, [Next]_vars
             PROVE  Thrifty'
  OBVIOUS
<1>1. Safe'
  BY SafeStep DEF Thrifty
<1>2. CASE PoolNext /\ UNCHANGED bidVars
  <2>1. ASSUME NEW t \in Ticks, LookUp(t) \/ Insert(t)
        PROVE  Thrifty'
    BY <1>1, <1>2, <2>1, LookUpThrifty, InsertThrifty
  <2>2. ASSUME UNCHANGED <<setting, auctions>>,
               UNCHANGED table \/ (\E players \in SUBSET Players : table' = Created(players)),
               \A t \in Ticks : tick'[t].at = "inserting" =>
                 tick[t].at = "inserting" /\ tick'[t].auction = tick[t].auction
        PROVE  Thrifty'
    BY <1>1, <1>2, <2>2, PoolThrifty
  <2>3. CASE (\E entry \in Entry : BeginConfig(entry)) \/ CommitConfig \/ DayPasses
    BY <2>2, <2>3 DEF BeginConfig, CommitConfig, DayPasses
  <2>4. CASE Assemble
    <3>1. UNCHANGED <<setting, auctions, tick>> /\ table' = Created(Pooled)
      BY <2>4 DEF Assemble, Persist
    <3>2. Pooled \in SUBSET Players
      BY DEF Pooled
    <3> QED BY <2>2, <3>1, <3>2
  <2>5. ASSUME NEW t \in Ticks, StartTick(t) \/ TickDies(t)
        PROVE  Thrifty'
    <3>1. /\ UNCHANGED <<setting, auctions, table>>
          /\ \E new \in {Idle, [at |-> "opening", slots |-> Due]} : tick' = [tick EXCEPT ![t] = new]
      BY <2>5 DEF StartTick, TickDies
    <3>2. \A u \in Ticks : tick'[u].at = "inserting" => u # t
      BY <3>1 DEF Thrifty, Safe, Typed, TicksTyped, Idle
    <3>3. \A u \in Ticks \ {t} : tick'[u] = tick[u]
      BY <3>1 DEF Thrifty, Safe, Typed, TicksTyped
    <3> QED BY <2>2, <3>1, <3>2, <3>3
  <2> QED BY <1>2, <2>1, <2>3, <2>4, <2>5 DEF PoolNext
<1>3. ASSUME NEW r \in Requests, NEW team \in Teams, NEW a \in DOMAIN auctions,
             NEW amount \in Amounts, NEW pick \in Picks \cup {Unset}, BeginBid(r, team, a, amount, pick)
      PROVE  Thrifty'
  BY <1>1, <1>3, BeginThrifty DEF Thrifty
<1>4. ASSUME NEW r \in Requests, CommitBid(r) \/ AbortBid(r)
      PROVE  Thrifty'
  BY <1>1, <1>4, CommitThrifty, AbortThrifty DEF Thrifty
<1>5. ASSUME NEW a \in DOMAIN auctions, CloseRestricted(a) \/ CloseUnbid(a) \/ CloseSold(a)
      PROVE  Thrifty'
  BY <1>1, <1>5, RestrictedThrifty, UnbidThrifty, SoldThrifty DEF Thrifty
<1>6. ASSUME NEW id \in DOMAIN resolutions, NEW amount \in Amounts, NEW pick \in Picks,
             Raise(id, amount, pick)
      PROVE  Thrifty'
  BY <1>1, <1>6, RaiseThrifty DEF Thrifty
<1>7. ASSUME NEW id \in DOMAIN resolutions, StandPat(id) \/ Match(id) \/ Decline(id)
      PROVE  Thrifty'
  BY <1>1, <1>7, StandPatThrifty, MatchThrifty, DeclineThrifty DEF Thrifty
<1>8. CASE UNCHANGED vars
  <2>1. UNCHANGED <<setting, auctions, bidVars, table, tick>>
    BY <1>8 DEF vars, poolVars
  <2> QED BY <1>1, <2>1, PoolThrifty
<1> QED BY <1>2, <1>3, <1>4, <1>5, <1>6, <1>7, <1>8 DEF Next, BidNext

-----------------------------------------------------------------------------
(* Theorem *)

\* Whichever of its auctions close, a team's salaries stay within the cap and its contracts within the
\* roster (validate_bid_cap_and_roster, find_winning_bids_for_team, find_in_flight_rfa_holds_for_team)
\* - as long as no team has two bids under way at once, which no lock of the code sees to, and every
\* team was within its means, and every RFA up at his salary or above, before the first bid.
THEOREM MeansKept == StartsWithinMeans /\ OpensAtSalary /\ OneBidEach => (Spec => []Affordable)
<1> SUFFICES ASSUME StartsWithinMeans, OpensAtSalary, OneBidEach
             PROVE  Spec => []Affordable
  OBVIOUS
<1>1. Thrifty => Affordable
  <2> SUFFICES ASSUME Thrifty, NEW team \in setting.bidders, Bound(team)
               PROVE  CommittedSalary(team, 0) <= Cap /\ SpotsUsed(team, 0) <= PreseasonLimit
    BY DEF Affordable
  <2>1. Safe /\ team \in Teams
    BY HouseConstants DEF Thrifty, Safe, Typed, ConfigTyped
  <2>2. CommittedSalary(team, 0) \in Nat /\ SpotsUsed(team, 0) \in Nat
    BY <2>1, StakeInNat
  <2>3. CommittedSalary(team, 0) + 0 <= Cap /\ SpotsUsed(team, 0) + 0 <= PreseasonLimit
    BY DEF Thrifty, Able, Room
  <2> QED BY <2>2, <2>3
<1>2. Thrifty /\ [Next]_vars => Thrifty'
  BY ThriftyStep
<1>3. Init => Thrifty
  BY SafeInit, ThriftyInit DEF Thrifty
<1> QED BY <1>1, <1>2, <1>3, PTL DEF Spec

-----------------------------------------------------------------------------
(***************************************************************************)
(* Proof that the release of the pool is fair (ScheduleFair), for any      *)
(* number of players, any tiers and any ranking, as long as no rewrite of  *)
(* the configuration races the assembly.                                   *)
(*                                                                         *)
(* Days and tiers are quotients of a player's place among the others.      *)
(***************************************************************************)

\* Tiers and ranking have been entered when the auction starts: no rewrite is under way by then.
ConfigFirst == \A s \in Settings : ~s.rewrites

-----------------------------------------------------------------------------
(* Quotients *)

LEMMA TimesMore ==
  ASSUME NEW d \in Nat, NEW i \in Int, NEW j \in Int, i <= j
  PROVE  i * d \in Int /\ j * d \in Int /\ i * d <= j * d
<1>1. \A k \in Nat : k * d >= 0
  OBVIOUS
<1>2. (j - i) * d >= 0
  BY <1>1
<1>3. (j - i) * d = j * d - i * d
  OBVIOUS
<1>4. i * d \in Int /\ j * d \in Int
  OBVIOUS
<1> QED BY <1>2, <1>3, <1>4

LEMMA Quotient ==
  ASSUME NEW a \in Int, NEW d \in Nat \ {0}
  PROVE  a \div d \in Int /\ (a \div d) * d <= a /\ a < (a \div d) * d + d
OBVIOUS

\* What a quotient is at least.
LEMMA AtMostQuotient ==
  ASSUME NEW a \in Int, NEW d \in Nat \ {0}, NEW q \in Int
  PROVE  q <= a \div d <=> q * d <= a
<1> DEFINE r == a \div d
<1>1. r \in Int /\ r * d <= a /\ a < r * d + d
  BY Quotient
<1>2. (r + 1) * d = r * d + d /\ r * d \in Int /\ q * d \in Int
  BY <1>1
<1> HIDE DEF r
<1>3. q <= r => q * d <= r * d
  BY <1>1, TimesMore
<1>4. r + 1 <= q => (r + 1) * d <= q * d
  BY <1>1, TimesMore
<1>5. q <= r \/ r + 1 <= q
  BY <1>1
<1>6. q <= r => q * d <= a
  BY <1>1, <1>2, <1>3
<1>7. r + 1 <= q => ~(q * d <= a) /\ ~(q <= r)
  BY <1>1, <1>2, <1>4
<1> QED BY <1>5, <1>6, <1>7 DEF r

LEMMA QuotientGrows ==
  ASSUME NEW a \in Int, NEW b \in Int, a <= b, NEW d \in Nat \ {0}
  PROVE  a \div d \in Int /\ b \div d \in Int /\ a \div d <= b \div d
<1> DEFINE q == a \div d
<1>1. q \in Int /\ q * d <= a /\ b \div d \in Int
  BY Quotient
<1>2. q * d \in Int
  BY <1>1
<1> HIDE DEF q
<1>3. q * d <= b
  BY <1>1, <1>2
<1>4. q <= b \div d
  BY <1>1, <1>3, AtMostQuotient
<1> QED BY <1>1, <1>4 DEF q

-----------------------------------------------------------------------------
\* The first of the positions that the tiers from k on share, of c positions and n tiers.
Cutoff(k, c, n) == (k * c + n - 1) \div n

LEMMA CutInInt ==
  ASSUME NEW c \in Nat, NEW n \in Nat \ {0}, NEW k \in Nat
  PROVE  Cutoff(k, c, n) \in Int
<1>1. k * c + n - 1 \in Int
  OBVIOUS
<1> QED BY <1>1, Quotient DEF Cutoff

LEMMA Cut ==
  ASSUME NEW c \in Nat, NEW n \in Nat \ {0}, NEW k \in Nat, NEW p \in Int
  PROVE  Cutoff(k, c, n) \in Int /\ (Cutoff(k, c, n) <= p <=> k * c <= p * n)
<1> DEFINE top == k * c + n - 1
<1>1. k * c \in Int /\ top \in Int /\ p * n \in Int /\ (p + 1) * n = p * n + n
  OBVIOUS
<1>2. Cutoff(k, c, n) = top \div n
  BY DEF Cutoff
<1>3. top \div n \in Int
  BY <1>1, Quotient
<1>4. p + 1 <= top \div n <=> (p + 1) * n <= top
  BY <1>1, AtMostQuotient
<1>5. (p + 1) * n <= top <=> ~(k * c <= p * n)
  BY <1>1
<1> DEFINE q == top \div n
<1>6. q \in Int
  BY <1>3
<1> HIDE DEF q
<1>7. q <= p <=> ~(p + 1 <= q)
  BY <1>6
<1> QED BY <1>2, <1>3, <1>4, <1>5, <1>7 DEF q

\* A tier has as many positions as another, give or take one.
LEMMA CutsEven ==
  ASSUME NEW c \in Nat \ {0}, NEW n \in Nat \ {0}, NEW k \in Nat, NEW m \in Nat
  PROVE  LET size(x) == Cutoff(x + 1, c, n) - Cutoff(x, c, n) IN
         size(k) \in Nat /\ size(k) <= size(m) + 1
<1>1. \A x \in Nat : /\ Cutoff(x, c, n) \in Int
                     /\ x * c <= Cutoff(x, c, n) * n /\ Cutoff(x, c, n) * n < x * c + n
  <2> TAKE x \in Nat
  <2> DEFINE top == x * c + n - 1
             q == top \div n
  <2>1. x * c \in Int /\ top \in Int
    OBVIOUS
  <2>2. q \in Int /\ q * n <= top /\ top < q * n + n
    BY <2>1, Quotient
  <2>3. q * n \in Int
    BY <2>2
  <2>4. Cutoff(x, c, n) = q
    BY DEF Cutoff
  <2> HIDE DEF q
  <2>5. x * c <= q * n /\ q * n < x * c + n
    BY <2>1, <2>2, <2>3
  <2> QED BY <2>2, <2>4, <2>5
<1> DEFINE cut(x) == Cutoff(x, c, n)
           size(x) == cut(x + 1) - cut(x)
<1>2. \A x \in Nat : /\ size(x) \in Int /\ size(x) * n \in Int
                     /\ c - n < size(x) * n /\ size(x) * n < c + n
  <2> TAKE x \in Nat
  <2> DEFINE a == cut(x)
             b == cut(x + 1)
  <2>1. /\ a \in Int /\ b \in Int /\ x * c <= a * n /\ a * n < x * c + n
        /\ (x + 1) * c <= b * n /\ b * n < (x + 1) * c + n
    BY <1>1
  <2>2. (x + 1) * c = x * c + c /\ x * c \in Int
    OBVIOUS
  <2> HIDE DEF a, b
  <2>3. (b - a) * n = b * n - a * n /\ a * n \in Int /\ b * n \in Int
    BY <2>1
  <2>4. c - n < (b - a) * n /\ (b - a) * n < c + n
    BY <2>1, <2>2, <2>3
  <2>5. (b - a) * n \in Int /\ b - a \in Int
    BY <2>1
  <2> QED BY <2>4, <2>5 DEF a, b
<1> HIDE DEF size
<1>3. size(k) >= 0
  <2>1. size(k) \in Int /\ c - n < size(k) * n
    BY <1>2
  <2>2. size(k) <= -1 => size(k) * n <= (-1) * n
    BY <2>1, TimesMore
  <2>3. (-1) * n = -n /\ size(k) * n \in Int
    BY <2>1
  <2> DEFINE t == size(k) * n
  <2> HIDE DEF t
  <2>4. ~(t <= -n)
    BY <2>1, <2>3 DEF t
  <2> QED BY <2>1, <2>2, <2>3, <2>4 DEF t
<1>4. size(k) <= size(m) + 1
  <2> DEFINE x == size(k)
             y == size(m)
  <2>1. /\ x \in Int /\ y \in Int /\ x * n \in Int /\ y * n \in Int
        /\ x * n < c + n /\ c - n < y * n
    BY <1>2
  <2> HIDE DEF x, y
  <2>2. y + 2 <= x => (y + 2) * n <= x * n
    BY <2>1, TimesMore
  <2>3. (y + 2) * n = y * n + 2 * n
    BY <2>1
  <2>4. ~(y * n + 2 * n <= x * n)
    BY <2>1
  <2> QED BY <2>1, <2>2, <2>3, <2>4 DEF x, y
<1>5. size(k) \in Nat
  BY <1>2, <1>3
<1> QED BY <1>4, <1>5 DEF size

-----------------------------------------------------------------------------
(* The order of release *)

LEMMA MinOfTwo ==
  ASSUME NEW m \in Int, NEW n \in Int, m <= n
  PROVE  Min({m, n}) = m
<1> DEFINE Bottom(x) == x \in {m, n} /\ \A y \in {m, n} : x <= y
<1>1. Bottom(m)
  OBVIOUS
<1>2. Min({m, n}) = CHOOSE x : Bottom(x)
  BY DEF Min
<1>3. \A x : Bottom(x) => x = m
  OBVIOUS
<1> HIDE DEF Bottom
<1> QED BY <1>1, <1>2, <1>3

LEMMA SameSize ==
  ASSUME NEW I, IsFiniteSet(I), NEW f, \A i, j \in I : f[i] = f[j] => i = j
  PROVE  IsFiniteSet({f[i] : i \in I}) /\ Cardinality({f[i] : i \in I}) = Cardinality(I)
<1> DEFINE T == {f[i] : i \in I}
           g == [i \in I |-> f[i]]
<1>1. g \in [I -> T] /\ \A i \in I : g[i] = f[i]
  OBVIOUS
<1>2. \A t \in T : \E i \in I : g[i] = t
  OBVIOUS
<1> HIDE DEF g, T
<1>3. g \in Bijection(I, T)
  BY <1>1, <1>2 DEF Bijection, Injection, Surjection, IsInjective
<1>4. ExistsBijection(I, T)
  BY <1>3 DEF ExistsBijection
<1>5. IsFiniteSet(T) /\ Cardinality(T) = Cardinality(I)
  BY <1>4, FS_Bijection
<1> QED BY <1>5 DEF T

\* A part of 1..n that has, with each, those before it.
LEMMA FirstOnes ==
  ASSUME NEW n \in Nat, NEW D \in SUBSET (1..n), \A i \in D, j \in 1..n : j < i => j \in D
  PROVE  IsFiniteSet(D) /\ Cardinality(D) \in 0..n /\ \A i \in 1..n : i \in D <=> i <= Cardinality(D)
<1> DEFINE k == Cardinality(D)
<1>1. IsFiniteSet(1..n) /\ Cardinality(1..n) = n
  BY FS_Interval
<1>2. IsFiniteSet(D) /\ k \in Nat /\ k <= n
  BY <1>1, FS_Subset, FS_CardinalityType
<1> HIDE DEF k
<1>3. ASSUME NEW i \in D
      PROVE  i <= k
  <2>1. 1..i \in SUBSET D
    OBVIOUS
  <2>2. Cardinality(1..i) = i
    BY FS_Interval
  <2>3. Cardinality(1..i) <= k
    BY <1>2, <2>1, FS_Subset DEF k
  <2> QED BY <2>2, <2>3
<1>4. ASSUME NEW i \in 1..n, i \notin D
      PROVE  ~(i <= k)
  <2>1. D \in SUBSET (1..i - 1)
    BY <1>4
  <2>2. IsFiniteSet(1..i - 1) /\ Cardinality(1..i - 1) = i - 1
    BY FS_Interval
  <2>3. k <= i - 1
    BY <2>1, <2>2, FS_Subset DEF k
  <2> QED BY <1>2, <2>3
<1> QED BY <1>2, <1>3, <1>4 DEF k

RankedCount == Cardinality({p \in Others : Rank(p) # 0})

LEMMA RankedFirst ==
  ASSUME ranking \in Seq(Players), NEW order \in ReleaseOrders
  PROVE  /\ order \in Seq(Others) /\ Len(order) \in Nat
         /\ \A i, j \in 1..Len(order) : order[i] = order[j] => i = j
         /\ RankedCount \in 0..Len(order)
         /\ \A i \in 1..Len(order) : Rank(order[i]) # 0 <=> i <= RankedCount
         /\ \A i, j \in 1..Len(order) : i < j /\ Rank(order[j]) # 0 => Rank(order[i]) <= Rank(order[j])
<1> DEFINE n == Len(order)
           D == {i \in 1..n : Rank(order[i]) # 0}
<1>1. order \in SetToSeqs(Others) /\ Others \in SUBSET Players
  BY DEF ReleaseOrders, Others, Pooled
<1>2. /\ order \in Seq(Others) /\ n \in Nat
      /\ \A i, j \in 1..n : order[i] = order[j] => i = j
      /\ DOMAIN order = 1..n
  <2>1. /\ order \in Seq(Others) /\ n \in Nat
        /\ \A i, j \in DOMAIN order : order[i] = order[j] => i = j
    BY <1>1, FiniteOrders
  <2> QED BY <2>1
<1>3. \A p : Rank(p) \in Nat
  BY RankInNat
<1>4. \A i, j \in 1..n : i < j => ~RankedBefore(order[j], order[i])
  BY <1>2 DEF ReleaseOrders
<1>5. \A i, j \in 1..n : i < j /\ Rank(order[j]) # 0 => Rank(order[i]) # 0 /\ Rank(order[i]) <= Rank(order[j])
  BY <1>3, <1>4 DEF RankedBefore
<1> HIDE DEF n
<1>6. D \in SUBSET (1..n) /\ \A i \in D, j \in 1..n : j < i => j \in D
  BY <1>5
<1>7. IsFiniteSet(D) /\ Cardinality(D) \in 0..n /\ \A i \in 1..n : i \in D <=> i <= Cardinality(D)
  <2> HIDE DEF D
  <2> QED BY <1>2, <1>6, FirstOnes
<1>8. Cardinality(D) = RankedCount
  <2>1. \A p \in Others : \E i \in 1..n : order[i] = p
    <3>1. IsFiniteSet(Others) /\ Cardinality(Others) \in Nat
      BY <1>1, PoolConstants, FS_Subset, FS_CardinalityType
    <3>2. order \in [1..Cardinality(Others) -> Others]
      BY <1>1 DEF SetToSeqs
    <3>3. n = Cardinality(Others)
      BY <3>1, <3>2, <1>2 DEF n
    <3>4. order \in Injection(1..n, Others)
      BY <1>2, <3>2, <3>3 DEF Injection, IsInjective
    <3>5. IsFiniteSet(1..n) /\ Cardinality(1..n) = n
      BY <1>2, FS_Interval
    <3>6. order \in Surjection(1..n, Others)
      BY <3>1, <3>3, <3>4, <3>5, FS_Injection
    <3> QED BY <3>6 DEF Surjection
  <2>2. \A i \in 1..n : order[i] \in Others
    BY <1>2 DEF n
  <2>3. {order[i] : i \in D} = {p \in Others : Rank(p) # 0}
    BY <2>1, <2>2
  <2>4. \A i, j \in D : order[i] = order[j] => i = j
    BY <1>2
  <2> HIDE DEF D
  <2>5. Cardinality({order[i] : i \in D}) = Cardinality(D)
    BY <1>7, <2>4, SameSize
  <2> QED BY <2>3, <2>5 DEF RankedCount
<1>9. \A i \in 1..n : Rank(order[i]) # 0 <=> i <= RankedCount
  BY <1>7, <1>8
<1> QED BY <1>2, <1>5, <1>7, <1>8, <1>9 DEF n

-----------------------------------------------------------------------------
(* The schedule is fair, part by part *)

OthersIn(slots) == {s \in slots : ~s.rfa}
RankedIn(slots) == {s \in OthersIn(slots) : s.rank # 0}
InTier(slots, n) == {s \in RankedIn(slots) : s.tier = n}

RfasAhead(slots) == \A s \in slots \ OthersIn(slots) : s.day = 0
AfterWeek(slots) == \A s \in OthersIn(slots) : s.day >= (IF OthersIn(slots) = slots THEN 0 ELSE RfaWeek)
FewADay(slots) ==
  \A s \in OthersIn(slots) : Cardinality({u \in OthersIn(slots) : u.day = s.day}) <= PerDay
RestAtBottom(slots, low) == \A s \in OthersIn(slots) : s.rank = 0 => s.tier = low
BetterFirst(slots) ==
  \A s \in RankedIn(slots), u \in OthersIn(slots) :
    u.rank = 0 \/ s.rank < u.rank => s.day <= u.day /\ s.tier <= u.tier
TiersEven(slots, low) ==
  \A m, n \in 1..low : Cardinality(InTier(slots, m)) <= Cardinality(InTier(slots, n)) + 1

LEMMA FairInParts ==
  ASSUME tiers \in Seq(Nat \ {0}),
         RfasAhead(Range(schedule)), AfterWeek(Range(schedule)), FewADay(Range(schedule)),
         RestAtBottom(Range(schedule), Len(tiers)), BetterFirst(Range(schedule)),
         TiersEven(Range(schedule), Len(tiers))
  PROVE  ScheduleFair
<1>1. DOMAIN tiers = 1..Len(tiers)
  OBVIOUS
<1> QED
  BY <1>1 DEF ScheduleFair, RfasAhead, AfterWeek, FewADay, RestAtBottom, BetterFirst, TiersEven,
              InTier, RankedIn, OthersIn

\* The slots of the players who are not restricted: place after place, the count ranked ones first.
Lined(line, n, count, first) ==
  /\ \A i \in 1..n :
       /\ ~line[i].rfa /\ line[i].rank \in Nat /\ (line[i].rank # 0 <=> i <= count)
       /\ line[i].day = first + ((i - 1) \div PerDay)
       /\ line[i].tier = IF i <= count THEN TierSlot(i - 1, count) + 1 ELSE Len(tiers)
  /\ \A i, j \in 1..n : i < j /\ line[j].rank # 0 => line[i].rank <= line[j].rank
  /\ \A i, j \in 1..n : line[i] = line[j] => i = j

\* Restricted free agents, and those who are not.
Halves(slots, rfas, line, n) ==
  /\ slots = rfas \cup {line[i] : i \in 1..n}
  /\ \A s \in rfas : s.rfa /\ s.day = 0

LEMMA OthersLined ==
  ASSUME NEW slots, NEW rfas, NEW line, NEW n, NEW count, NEW first,
         Lined(line, n, count, first), Halves(slots, rfas, line, n)
  PROVE  /\ OthersIn(slots) = {line[i] : i \in 1..n} /\ slots \ OthersIn(slots) = rfas
         /\ RfasAhead(slots)
<1>1. \A i \in 1..n : ~line[i].rfa
  BY DEF Lined
<1>2. OthersIn(slots) = {line[i] : i \in 1..n} /\ slots \ OthersIn(slots) = rfas
  BY <1>1 DEF OthersIn, Halves
<1> QED BY <1>2 DEF RfasAhead, Halves

LEMMA DaysFair ==
  ASSUME NEW slots, NEW rfas, NEW line, NEW n \in Nat, NEW count, NEW first \in Nat,
         Lined(line, n, count, first), Halves(slots, rfas, line, n),
         rfas # {} => first = RfaWeek
  PROVE  AfterWeek(slots) /\ FewADay(slots)
<1> DEFINE D(i) == (i - 1) \div PerDay
<1>1. OthersIn(slots) = {line[i] : i \in 1..n} /\ slots \ OthersIn(slots) = rfas
  BY OthersLined
<1>2. PerDay \in Nat \ {0} /\ RfaWeek \in Nat
  BY PoolConstants
<1>3. \A i \in 1..n : line[i].day = first + D(i) /\ D(i) \in Nat
  <2> TAKE i \in 1..n
  <2>1. i - 1 \in Int /\ 0 <= i - 1
    OBVIOUS
  <2>2. D(i) \in Int /\ 0 <= D(i)
    <3>1. 0 * PerDay <= i - 1
      BY <1>2, <2>1
    <3> QED BY <1>2, <2>1, <3>1, AtMostQuotient, Quotient
  <2> QED BY <2>2 DEF Lined
<1> HIDE DEF D
<1>4. AfterWeek(slots)
  <2>1. \A i \in 1..n : line[i].day \in Nat /\ line[i].day >= first
    BY <1>3
  <2>2. OthersIn(slots) # slots => first = RfaWeek
    BY <1>1, Zenon DEF OthersIn
  <2> QED BY <1>1, <2>1, <2>2 DEF AfterWeek
<1>5. FewADay(slots)
  <2> SUFFICES ASSUME NEW k \in 1..n
               PROVE  Cardinality({u \in OthersIn(slots) : u.day = line[k].day}) <= PerDay
    BY <1>1 DEF FewADay
  <2> DEFINE I == {i \in 1..n : D(i) = D(k)}
             q == D(k)
             low == q * PerDay
  <2>1. q \in Nat /\ low \in Int
    BY <1>2, <1>3
  <2>2. I \in SUBSET (low + 1 .. low + PerDay)
    <3> SUFFICES ASSUME NEW i \in 1..n, D(i) = q
                 PROVE  i \in low + 1 .. low + PerDay
      OBVIOUS
    <3>1. i - 1 \in Int
      OBVIOUS
    <3>2. q * PerDay <= i - 1 /\ i - 1 < q * PerDay + PerDay
      BY <1>2, <3>1, Quotient DEF D
    <3> HIDE DEF q
    <3> QED BY <1>2, <2>1, <3>1, <3>2
  <2> HIDE DEF low, q
  <2>3. IsFiniteSet(low + 1 .. low + PerDay) /\ Cardinality(low + 1 .. low + PerDay) = PerDay
    BY <1>2, <2>1, FS_Interval
  <2>4. {u \in OthersIn(slots) : u.day = line[k].day} = {line[i] : i \in I}
    <3>1. \A i \in 1..n : line[i].day = line[k].day <=> D(i) = D(k)
      BY <1>3
    <3> QED BY <1>1, <3>1
  <2>5. \A i, j \in I : line[i] = line[j] => i = j
    BY DEF Lined
  <2> HIDE DEF I
  <2>6. IsFiniteSet(I) /\ Cardinality(I) <= PerDay
    BY <2>2, <2>3, FS_Subset
  <2>7. Cardinality({line[i] : i \in I}) = Cardinality(I)
    BY <2>5, <2>6, SameSize
  <2> QED BY <2>4, <2>6, <2>7
<1> QED BY <1>4, <1>5

\* Within the ranked players, a position's tier is the quotient: the least of it and the bottom.
LEMMA TierSlotIs ==
  ASSUME tiers \in Seq(Nat \ {0}), tiers # <<>>, NEW count \in Nat, NEW i \in 1..count
  PROVE  /\ TierSlot(i - 1, count) = ((i - 1) * Len(tiers)) \div count
         /\ TierSlot(i - 1, count) \in 0..Len(tiers) - 1
<1> DEFINE n == Len(tiers)
           top == (i - 1) * n
           share == top \div count
<1>1. n \in Nat \ {0} /\ count \in Nat \ {0}
  OBVIOUS
<1> HIDE DEF n
<1>2. top \in Int /\ 0 <= top /\ top < n * count /\ n * count \in Int
  <2>1. i * n <= count * n /\ 0 * n <= (i - 1) * n
    BY <1>1, TimesMore
  <2>2. i * n = (i - 1) * n + n /\ 0 * n = 0 /\ count * n = n * count
    BY <1>1
  <2>3. (i - 1) * n \in Int /\ count * n \in Int
    BY <1>1
  <2> QED BY <1>1, <2>1, <2>2, <2>3
<1> HIDE DEF top
<1>3. share \in Int
  BY <1>1, <1>2, Quotient
<1>4. 0 <= share
  <2>1. 0 * count <= top
    BY <1>1, <1>2
  <2> QED BY <1>1, <1>2, <2>1, AtMostQuotient
<1>5. ~(n <= share)
  BY <1>1, <1>2, AtMostQuotient
<1> HIDE DEF share
<1>6. share <= n - 1 /\ n - 1 \in Int
  BY <1>1, <1>3, <1>5
<1>7. Min({share, n - 1}) = share
  BY <1>3, <1>6, MinOfTwo
<1>8. TierSlot(i - 1, count) = share
  BY <1>7 DEF TierSlot, share, top, n
<1> QED BY <1>3, <1>4, <1>6, <1>8 DEF share, top, n

LEMMA OrderFair ==
  ASSUME tiers \in Seq(Nat \ {0}), tiers # <<>>,
         NEW slots, NEW rfas, NEW line, NEW n \in Nat, NEW count \in 0..n, NEW first \in Nat,
         Lined(line, n, count, first), Halves(slots, rfas, line, n)
  PROVE  RestAtBottom(slots, Len(tiers)) /\ BetterFirst(slots)
<1>1. OthersIn(slots) = {line[i] : i \in 1..n}
  BY OthersLined
<1>2. PerDay \in Nat \ {0} /\ Len(tiers) \in Nat \ {0}
  BY PoolConstants
<1>3. RestAtBottom(slots, Len(tiers))
  BY <1>1 DEF RestAtBottom, Lined
<1>4. ASSUME NEW i \in 1..n, NEW j \in 1..n, line[i].rank # 0, line[j].rank = 0 \/ line[i].rank < line[j].rank
      PROVE  line[i].day <= line[j].day /\ line[i].tier <= line[j].tier
  <2>1. /\ \A k \in 1..n : line[k].rank \in Nat /\ (line[k].rank # 0 <=> k <= count)
        /\ \A k, l \in 1..n : k < l /\ line[l].rank # 0 => line[k].rank <= line[l].rank
    BY DEF Lined
  <2>2. i <= count /\ i < j
    <3>1. i <= count
      BY <1>4, <2>1
    <3>2. line[j].rank = 0 => ~(j <= count)
      BY <2>1
    <3>3. line[i].rank < line[j].rank => i # j /\ ~(j < i)
      <4>1. line[i].rank \in Nat /\ line[j].rank \in Nat
        BY <2>1
      <4>2. j < i => line[j].rank <= line[i].rank
        BY <1>4, <2>1
      <4> QED BY <4>1, <4>2
    <3> QED BY <1>4, <3>1, <3>2, <3>3
  <2>3. line[i].day <= line[j].day
    <3>1. /\ (i - 1) \div PerDay \in Int /\ (j - 1) \div PerDay \in Int
          /\ (i - 1) \div PerDay <= (j - 1) \div PerDay
      <4>1. i - 1 \in Int /\ j - 1 \in Int /\ i - 1 <= j - 1
        BY <2>2
      <4> QED BY <1>2, <4>1, QuotientGrows
    <3>2. line[i].day = first + ((i - 1) \div PerDay) /\ line[j].day = first + ((j - 1) \div PerDay)
      BY DEF Lined
    <3> DEFINE d == (i - 1) \div PerDay
               e == (j - 1) \div PerDay
    <3> HIDE DEF d, e
    <3>3. line[i].day = first + d /\ line[j].day = first + e
      BY <3>2 DEF d, e
    <3>4. d \in Int /\ e \in Int /\ d <= e
      BY <3>1 DEF d, e
    <3> QED BY <3>3, <3>4
  <2>4. /\ TierSlot(i - 1, count) = ((i - 1) * Len(tiers)) \div count
        /\ TierSlot(i - 1, count) \in 0..Len(tiers) - 1
    BY <2>2, TierSlotIs
  <2>5. line[i].tier = TierSlot(i - 1, count) + 1
    BY <2>2 DEF Lined
  <2>6. line[i].tier <= line[j].tier
    <3>1. CASE j <= count
      <4>1. /\ TierSlot(j - 1, count) = ((j - 1) * Len(tiers)) \div count
            /\ TierSlot(j - 1, count) \in 0..Len(tiers) - 1
        BY <3>1, TierSlotIs
      <4>2. line[j].tier = TierSlot(j - 1, count) + 1
        BY <3>1 DEF Lined
      <4>3. /\ (i - 1) * Len(tiers) \in Int /\ (j - 1) * Len(tiers) \in Int
            /\ (i - 1) * Len(tiers) <= (j - 1) * Len(tiers)
        <5>1. i - 1 \in Int /\ j - 1 \in Int /\ i - 1 <= j - 1
          BY <2>2
        <5> QED BY <1>2, <5>1, TimesMore
      <4>4. count \in Nat \ {0}
        BY <2>2
      <4>5. ((i - 1) * Len(tiers)) \div count <= ((j - 1) * Len(tiers)) \div count
        BY <4>3, <4>4, QuotientGrows
      <4>6. TierSlot(i - 1, count) <= TierSlot(j - 1, count)
        BY <2>4, <4>1, <4>5
      <4> QED BY <2>4, <2>5, <4>1, <4>2, <4>6
    <3>2. CASE ~(j <= count)
      <4>1. line[j].tier = Len(tiers)
        BY <3>2 DEF Lined
      <4> QED BY <1>2, <2>4, <2>5, <4>1
    <3> QED BY <3>1, <3>2
  <2> QED BY <2>3, <2>6
<1>5. BetterFirst(slots)
  BY <1>1, <1>4 DEF BetterFirst, RankedIn
<1> QED BY <1>3, <1>5

LEMMA TiersFair ==
  ASSUME tiers \in Seq(Nat \ {0}), tiers # <<>>,
         NEW slots, NEW rfas, NEW line, NEW n \in Nat, NEW count \in 0..n, NEW first \in Nat,
         Lined(line, n, count, first), Halves(slots, rfas, line, n)
  PROVE  TiersEven(slots, Len(tiers))
<1> DEFINE low == Len(tiers)
           At(m) == {i \in 1..count : TierSlot(i - 1, count) = m - 1}
<1>1. OthersIn(slots) = {line[i] : i \in 1..n}
  BY OthersLined
<1>2. low \in Nat \ {0} /\ count \in Nat
  OBVIOUS
<1> HIDE DEF low
<1>3. \A i \in 1..count : TierSlot(i - 1, count) \in 0..low - 1
  BY TierSlotIs DEF low
<1>4. ASSUME NEW m \in 1..low
      PROVE  InTier(slots, m) = {line[i] : i \in At(m)}
  <2>1. \A i \in 1..n : line[i].rank # 0 <=> i \in 1..count
    BY DEF Lined
  <2>2. \A i \in 1..count : line[i].tier = TierSlot(i - 1, count) + 1
    BY DEF Lined
  <2>3. \A i \in 1..count : line[i].tier = m <=> TierSlot(i - 1, count) = m - 1
    <3> TAKE i \in 1..count
    <3> DEFINE x == TierSlot(i - 1, count)
    <3>1. x \in Int /\ line[i].tier = x + 1
      BY <1>3, <2>2
    <3> HIDE DEF x
    <3>2. line[i].tier = m <=> x = m - 1
      BY <3>1
    <3> QED BY <3>2 DEF x
  <2> QED BY <1>1, <2>1, <2>3 DEF InTier, RankedIn
<1>5. \A m : \A i, j \in At(m) : line[i] = line[j] => i = j
  BY DEF Lined
<1>6. \A m : IsFiniteSet(At(m))
  <2>1. IsFiniteSet(1..count)
    BY <1>2, FS_Interval
  <2>2. \A m : At(m) \in SUBSET (1..count)
    OBVIOUS
  <2> HIDE DEF At
  <2> QED BY <2>1, <2>2, FS_Subset
<1>7. \A m \in 1..low : Cardinality(InTier(slots, m)) = Cardinality(At(m))
  <2> TAKE m \in 1..low
  <2> HIDE DEF At
  <2> QED BY <1>4, <1>5, <1>6, SameSize
<1>8. CASE count = 0
  <2>1. \A m : At(m) = {}
    BY <1>8
  <2>2. \A m : Cardinality(At(m)) = 0
    BY <2>1, FS_EmptySet
  <2> HIDE DEF At
  <2> QED BY <1>7, <2>2 DEF TiersEven, low
<1>9. CASE count # 0
  <2> DEFINE cut(k) == Cutoff(k, count, low)
             size(k) == cut(k + 1) - cut(k)
  <2>1. count \in Nat \ {0}
    BY <1>2, <1>9
  <2>2. ASSUME NEW m \in 1..low
        PROVE  Cardinality(At(m)) = size(m - 1) /\ size(m - 1) \in Nat
    <3> DEFINE k == m - 1
    <3>1. k \in Nat /\ k + 1 \in Nat /\ k \in Int /\ k + 1 \in Int /\ k + 1 <= low
      BY <1>2
    <3>2. cut(k) \in Int /\ cut(k + 1) \in Int
      BY <1>2, <2>1, <3>1, CutInInt
    <3>3. ASSUME NEW i \in Int
          PROVE  i \in At(m) <=> i \in cut(k) + 1 .. cut(k + 1)
      <4> DEFINE p == i - 1
                 top == p * low
      <4>1. p \in Int /\ top \in Int
        BY <1>2
      <4>2. cut(k) <= p <=> k * count <= top
        BY <1>2, <2>1, <3>1, <4>1, Cut
      <4>3. cut(k + 1) <= p <=> (k + 1) * count <= top
        BY <1>2, <2>1, <3>1, <4>1, Cut
      <4>4. k <= top \div count <=> k * count <= top
        BY <2>1, <3>1, <4>1, AtMostQuotient
      <4>5. k + 1 <= top \div count <=> (k + 1) * count <= top
        BY <2>1, <3>1, <4>1, AtMostQuotient
      <4>6. top \div count \in Int
        BY <2>1, <4>1, Quotient
      <4>7. i \in cut(k) + 1 .. cut(k + 1) <=> cut(k) <= p /\ ~(cut(k + 1) <= p)
        <5> HIDE DEF cut
        <5> QED BY <3>2
      <4>8. i \in cut(k) + 1 .. cut(k + 1) <=> top \div count = k
        <5> DEFINE x == top \div count
        <5>1. x = k <=> k <= x /\ ~(k + 1 <= x)
          <6>1. x \in Int
            BY <4>6
          <6> HIDE DEF x
          <6> QED BY <3>1, <6>1
        <5> QED BY <4>2, <4>3, <4>4, <4>5, <4>7, <5>1
      <4>9. i \in 1..count => TierSlot(i - 1, count) = top \div count
        BY <1>2, TierSlotIs DEF low
      <4>10. top \div count = k => i \in 1..count
        <5> SUFFICES ASSUME k <= top \div count, ~(k + 1 <= top \div count)
                     PROVE  i \in 1..count
          BY <3>1, <4>6
        <5>1. k * count <= top /\ ~((k + 1) * count <= top)
          BY <4>4, <4>5
        <5>2. 0 * count <= k * count /\ (k + 1) * count <= low * count
          BY <1>2, <2>1, <3>1, TimesMore
        <5>3. 0 * count = 0 /\ k * count \in Int /\ (k + 1) * count \in Int /\ low * count \in Int
              /\ low * count = count * low
          BY <1>2, <3>1
        <5>4. 0 <= top /\ ~(count * low <= top)
          <6> DEFINE a == k * count
                     b == (k + 1) * count
                     e == low * count
          <6>1. /\ a \in Int /\ b \in Int /\ e \in Int /\ 0 <= a /\ b <= e /\ e = count * low
                /\ a <= top /\ ~(b <= top)
            BY <5>1, <5>2, <5>3
          <6> HIDE DEF a, b, e, top
          <6>2. 0 <= top /\ ~(e <= top)
            BY <4>1, <6>1
          <6> QED BY <6>1, <6>2
        <5>5. p <= -1 => top <= (-1) * low
          BY <1>2, <4>1, TimesMore
        <5>6. count <= p => count * low <= top
          BY <1>2, <4>1, TimesMore
        <5>7. ~(0 <= (-1) * low)
          BY <1>2
        <5>8. (-1) * low \in Int
          BY <1>2
        <5> HIDE DEF top
        <5>9. ~(p <= -1) /\ ~(count <= p)
          BY <4>1, <5>4, <5>5, <5>6, <5>7, <5>8
        <5> QED BY <1>2, <4>1, <5>9
      <4> HIDE DEF top, cut
      <4> QED BY <4>8, <4>9, <4>10
    <3>4. At(m) = cut(k) + 1 .. cut(k + 1)
      <4>1. \A i \in At(m) : i \in Int
        OBVIOUS
      <4>2. \A i \in cut(k) + 1 .. cut(k + 1) : i \in Int
        BY <3>2
      <4> HIDE DEF At, cut
      <4> QED BY <3>3, <4>1, <4>2
    <3>5. size(k) \in Nat
      BY <1>2, <2>1, <3>1, CutsEven
    <3>6. Cardinality(cut(k) + 1 .. cut(k + 1)) = size(k)
      <4> DEFINE x == cut(k)
                 y == cut(k + 1)
      <4>1. x \in Int /\ y \in Int /\ y - x \in Nat
        BY <3>2, <3>5
      <4> HIDE DEF x, y
      <4>2. x + 1 \in Int
        BY <4>1
      <4>3. Cardinality(x + 1 .. y) = IF x + 1 > y THEN 0 ELSE y - (x + 1) + 1
        BY <4>1, <4>2, FS_Interval
      <4>4. Cardinality(x + 1 .. y) = y - x
        BY <4>1, <4>3
      <4> QED BY <4>4 DEF x, y
    <3> QED BY <3>4, <3>5, <3>6
  <2>3. \A m, l \in 1..low : size(m - 1) <= size(l - 1) + 1
    <3> TAKE m, l \in 1..low
    <3>1. m - 1 \in Nat /\ l - 1 \in Nat
      OBVIOUS
    <3> QED BY <1>2, <2>1, <3>1, CutsEven
  <2> HIDE DEF At, size
  <2> QED BY <1>7, <2>2, <2>3 DEF TiersEven, low
<1> QED BY <1>8, <1>9

-----------------------------------------------------------------------------
(* The schedule as it is assembled *)

Fairly(slots, low) ==
  /\ RfasAhead(slots) /\ AfterWeek(slots) /\ FewADay(slots)
  /\ RestAtBottom(slots, low) /\ BetterFirst(slots) /\ TiersEven(slots, low)

LEMMA EmptyFair ==
  ASSUME NEW low \in Nat
  PROVE  Fairly({}, low)
<1>1. OthersIn({}) = {} /\ RankedIn({}) = {} /\ \A n : InTier({}, n) = {}
  BY DEF OthersIn, RankedIn, InTier
<1>2. RfasAhead({}) /\ AfterWeek({}) /\ FewADay({}) /\ RestAtBottom({}, low) /\ BetterFirst({})
  BY <1>1 DEF RfasAhead, AfterWeek, FewADay, RestAtBottom, BetterFirst
<1>3. \A n : Cardinality(InTier({}, n)) = 0
  BY <1>1, FS_EmptySet
<1>4. TiersEven({}, low)
  BY <1>3 DEF TiersEven
<1> QED BY <1>2, <1>4 DEF Fairly

LEMMA OthersLinedUp ==
  ASSUME ranking \in Seq(Players), NEW order \in ReleaseOrders
  PROVE  Lined(OtherSlots(order), Len(order), RankedCount, IF Restricted = {} THEN 0 ELSE RfaWeek)
<1> DEFINE n == Len(order)
           line == OtherSlots(order)
           first == IF Restricted = {} THEN 0 ELSE RfaWeek
<1>1. /\ DOMAIN order = 1..n /\ n \in Nat
      /\ \A i, j \in 1..n : order[i] = order[j] => i = j
      /\ \A i \in 1..n : Rank(order[i]) # 0 <=> i <= RankedCount
      /\ \A i, j \in 1..n : i < j /\ Rank(order[j]) # 0 => Rank(order[i]) <= Rank(order[j])
  BY RankedFirst
<1>2. \A p : Rank(p) \in Nat
  BY RankInNat
<1>3. \A i \in 1..n : line[i] =
        [player |-> order[i], day |-> first + ((i - 1) \div PerDay), rank |-> Rank(order[i]),
         tier |-> IF i <= RankedCount THEN TierSlot(i - 1, RankedCount) + 1 ELSE Len(tiers), rfa |-> FALSE]
  BY <1>1 DEF OtherSlots, RankedCount
<1> HIDE DEF n, line, first
<1>4. \A i \in 1..n :
        /\ ~line[i].rfa /\ line[i].rank = Rank(order[i]) /\ line[i].player = order[i]
        /\ line[i].day = first + ((i - 1) \div PerDay)
        /\ line[i].tier = IF i <= RankedCount THEN TierSlot(i - 1, RankedCount) + 1 ELSE Len(tiers)
  <2> TAKE i \in 1..n
  <2> DEFINE p == order[i]
             r == Rank(order[i])
             d == first + ((i - 1) \div PerDay)
             t == IF i <= RankedCount THEN TierSlot(i - 1, RankedCount) + 1 ELSE Len(tiers)
  <2>1. line[i] = [player |-> p, day |-> d, rank |-> r, tier |-> t, rfa |-> FALSE]
    BY <1>3
  <2> HIDE DEF p, r, d, t
  <2>2. ~line[i].rfa /\ line[i].rank = r /\ line[i].player = p /\ line[i].day = d /\ line[i].tier = t
    BY <2>1
  <2> QED BY <2>2 DEF p, r, d, t
<1>5. \A i, j \in 1..n : line[i] = line[j] => i = j
  BY <1>1, <1>4
<1>6. \A i \in 1..n : line[i].rank \in Nat /\ (line[i].rank # 0 <=> i <= RankedCount)
  BY <1>1, <1>2, <1>4
<1>7. \A i, j \in 1..n : i < j /\ line[j].rank # 0 => line[i].rank <= line[j].rank
  BY <1>1, <1>4
<1>8. Lined(line, n, RankedCount, first)
  BY <1>4, <1>5, <1>6, <1>7 DEF Lined
<1> QED BY <1>8 DEF n, line, first

LEMMA AssembledFair ==
  ASSUME ranking \in Seq(Players), tiers \in Seq(Nat \ {0}), tiers # <<>>,
         NEW order \in ReleaseOrders, NEW rfas \in SetToSeqs(Restricted)
  PROVE  Fairly(Range([i \in DOMAIN rfas |-> RfaSlot(rfas[i])] \o OtherSlots(order)), Len(tiers))
<1> DEFINE head == [i \in DOMAIN rfas |-> RfaSlot(rfas[i])]
           line == OtherSlots(order)
           n == Len(order)
           first == IF Restricted = {} THEN 0 ELSE RfaWeek
           slots == Range(head \o line)
<1>1. Lined(line, n, RankedCount, first) /\ n \in Nat /\ RankedCount \in 0..n
  BY OthersLinedUp, RankedFirst
<1>2. first \in Nat
  BY PoolConstants
<1>3. Len(rfas) \in Nat /\ DOMAIN rfas = 1..Len(rfas) /\ rfas \in Seq(Restricted)
  <2>1. Restricted \in SUBSET Players
    BY DEF Restricted, Pooled
  <2>2. rfas \in Seq(Restricted) /\ Len(rfas) \in Nat
    BY <2>1, FiniteOrders
  <2> QED BY <2>2
<1>4. DOMAIN line = 1..n /\ DOMAIN order = 1..n
  <2>1. order \in Seq(Others)
    BY RankedFirst
  <2> QED BY <2>1 DEF OtherSlots
<1>5. slots = Range(head) \cup {line[i] : i \in 1..n}
  <2> DEFINE all == head \o line
             m == Len(rfas)
             V == Range(head) \cup Range(line)
  <2>1. DOMAIN head = 1..m /\ m \in Nat /\ n \in Nat
    BY <1>1, <1>3
  <2>2. head \in [1..m -> V] /\ line \in [1..n -> V]
    <3>1. head = [i \in 1..m |-> head[i]] /\ line = [i \in 1..n |-> line[i]]
      BY <1>4, <2>1 DEF OtherSlots
    <3> HIDE DEF head, line, n, m
    <3> QED BY <1>4, <2>1, <3>1 DEF Range
  <2> HIDE DEF head, line, n, m, V
  <2>3. head \in Seq(V) /\ Len(head) = m /\ line \in Seq(V) /\ Len(line) = n
    BY <2>1, <2>2
  <2>4. DOMAIN all = 1..m + n /\ \A i \in 1..m + n : all[i] = IF i <= m THEN head[i] ELSE line[i - m]
    <3>1. /\ all \in Seq(V) /\ Len(all) = Len(head) + Len(line)
          /\ \A i \in 1..Len(head) + Len(line) :
               all[i] = IF i <= Len(head) THEN head[i] ELSE line[i - Len(head)]
      BY <2>3, ConcatProperties
    <3> HIDE DEF all
    <3> QED BY <2>1, <2>3, <3>1
  <2> HIDE DEF all
  <2>5. \A i \in 1..m : i \in 1..m + n /\ all[i] = head[i]
    BY <1>1, <1>3, <2>4 DEF m
  <2>6. \A i \in 1..n : m + i \in 1..m + n /\ all[m + i] = line[i]
    <3> TAKE i \in 1..n
    <3>1. m + i \in 1..m + n /\ ~(m + i <= m) /\ (m + i) - m = i
      BY <1>1, <1>3 DEF m
    <3> QED BY <2>4, <3>1
  <2>7. \A i \in 1..m + n : \/ i \in 1..m /\ all[i] = head[i]
                            \/ i - m \in 1..n /\ all[i] = line[i - m]
    BY <1>1, <1>3, <2>4 DEF m
  <2>8. Range(all) = Range(head) \cup {line[i] : i \in 1..n}
    <3>1. ASSUME NEW x \in Range(all)
          PROVE  x \in Range(head) \cup {line[i] : i \in 1..n}
      <4>1. PICK k \in 1..m + n : x = all[k]
        BY <2>4 DEF Range
      <4> QED BY <2>1, <2>7, <4>1 DEF Range
    <3>2. \A i \in 1..m : head[i] \in Range(all)
      BY <2>4, <2>5, Zenon DEF Range
    <3>3. \A i \in 1..n : line[i] \in Range(all)
      BY <2>4, <2>6, Zenon DEF Range
    <3>4. Range(head) = {head[i] : i \in 1..m}
      BY <2>1 DEF Range
    <3> QED BY <3>1, <3>2, <3>3, <3>4
  <2> QED BY <2>8 DEF all
<1>6. (\A s \in Range(head) : s.rfa /\ s.day = 0) /\ (Range(head) # {} => Restricted # {})
  <2>1. \A i \in DOMAIN rfas : head[i] = RfaSlot(rfas[i]) /\ rfas[i] \in Restricted
    BY <1>3
  <2>2. \A p : RfaSlot(p).rfa /\ RfaSlot(p).day = 0
    BY DEF RfaSlot
  <2>3. Range(head) = {head[i] : i \in DOMAIN rfas}
    BY DEF Range
  <2> HIDE DEF head
  <2> QED BY <2>1, <2>2, <2>3
<1> DEFINE rs == Range(head)
<1>7. rs # {} => first = RfaWeek
  BY <1>6
<1> HIDE DEF head, line, n, first, slots, rs
<1>8. Halves(slots, rs, line, n)
  BY <1>5, <1>6 DEF Halves, rs
<1>9. RfasAhead(slots)
  BY <1>1, <1>8, OthersLined
<1>10. AfterWeek(slots) /\ FewADay(slots)
  BY <1>1, <1>2, <1>7, <1>8, DaysFair
<1>11. RestAtBottom(slots, Len(tiers)) /\ BetterFirst(slots)
  BY <1>1, <1>2, <1>8, OrderFair
<1>12. TiersEven(slots, Len(tiers))
  BY <1>1, <1>2, <1>8, TiersFair
<1>13. Fairly(slots, Len(tiers))
  BY <1>9, <1>10, <1>11, <1>12 DEF Fairly
<1> QED BY <1>13 DEF slots, head, line

-----------------------------------------------------------------------------
(* The inductive invariant *)

\* No rewrite is under way once there is a schedule.
Configured == schedule # <<>> => config = Idle
Released == Fairly(Range(schedule), Len(tiers))
Planned == Safe /\ Configured /\ Released

LEMMA NothingPlanned ==
  schedule = <<>> /\ tiers \in Seq(Nat \ {0}) => Configured /\ Released
<1> SUFFICES ASSUME schedule = <<>>, tiers \in Seq(Nat \ {0})
             PROVE  Released
  BY DEF Configured
<1>1. Range(schedule) = {} /\ Len(tiers) \in Nat
  BY DEF Range
<1> QED BY <1>1, EmptyFair DEF Released

LEMMA PlannedStep ==
  ASSUME ConfigFirst, Planned, [Next]_vars
  PROVE  Planned'
<1>1. Safe /\ Safe' /\ ConfigTyped /\ ConfigTyped'
  BY SafeStep DEF Planned, Safe, Typed
<1>2. CASE schedule' = <<>>
  <2>1. Range(schedule') = {} /\ Len(tiers') \in Nat
    BY <1>1, <1>2 DEF Range, ConfigTyped
  <2>2. Fairly({}, Len(tiers'))
    BY <2>1, EmptyFair
  <2> QED BY <1>1, <1>2, <2>1, <2>2 DEF Planned, Configured, Released
<1>3. CASE UNCHANGED <<schedule, tiers, config>>
  BY <1>1, <1>3 DEF Planned, Configured, Released
<1>4. CASE Assemble
  <2>1. config = Idle /\ UNCHANGED <<tiers, config>> /\ tiers # <<>>
    BY <1>1, <1>4 DEF Assemble, ConfigFirst, ConfigTyped
  <2>2. PICK order \in ReleaseOrders, rfas \in SetToSeqs(Restricted) :
          schedule' = [i \in DOMAIN rfas |-> RfaSlot(rfas[i])] \o OtherSlots(order)
    BY <1>4 DEF Assemble, Persist
  <2>3. ranking \in Seq(Players) /\ tiers \in Seq(Nat \ {0})
    BY <1>1 DEF ConfigTyped
  <2>4. Fairly(Range(schedule'), Len(tiers))
    BY <2>1, <2>2, <2>3, AssembledFair
  <2> QED BY <1>1, <2>1, <2>4 DEF Planned, Configured, Released
<1>5. CASE CommitConfig
  <2>1. config # Idle /\ UNCHANGED schedule
    BY <1>5 DEF CommitConfig, Idle
  <2>2. schedule' = <<>>
    BY <2>1 DEF Planned, Configured
  <2> QED BY <1>2, <2>2
<1>6. ASSUME NEW entry \in Entry, BeginConfig(entry)
      PROVE  Planned'
  BY <1>2, <1>6 DEF BeginConfig
<1>7. CASE PoolNext
  <2>1. DayPasses => UNCHANGED <<schedule, tiers, config>>
    BY DEF DayPasses
  <2>2. \A t \in Ticks : StartTick(t) \/ LookUp(t) \/ Insert(t) \/ TickDies(t) =>
                           UNCHANGED <<schedule, tiers, config>>
    BY DEF StartTick, LookUp, Insert, TickDies
  <2> QED BY <1>3, <1>4, <1>5, <1>6, <1>7, <2>1, <2>2 DEF PoolNext
<1>8. CASE BidNext
  <2>1. ASSUME NEW r \in Requests, NEW team \in Teams, NEW a \in DOMAIN auctions,
               NEW amount \in Amounts, NEW pick \in Picks \cup {Unset}, BeginBid(r, team, a, amount, pick)
        PROVE  UNCHANGED <<schedule, tiers, config>>
    BY <2>1 DEF BeginBid, poolVars
  <2>2. ASSUME NEW r \in Requests, CommitBid(r) \/ AbortBid(r)
        PROVE  UNCHANGED <<schedule, tiers, config>>
    BY <2>2 DEF CommitBid, AbortBid, poolVars
  <2>3. ASSUME NEW a \in DOMAIN auctions, CloseRestricted(a) \/ CloseUnbid(a) \/ CloseSold(a)
        PROVE  UNCHANGED <<schedule, tiers, config>>
    BY <2>3 DEF CloseRestricted, CloseUnbid, CloseSold, Settle
  <2>4. ASSUME NEW id \in DOMAIN resolutions, NEW amount \in Amounts, NEW pick \in Picks,
               Raise(id, amount, pick)
        PROVE  UNCHANGED <<schedule, tiers, config>>
    BY <2>4 DEF Raise, poolVars
  <2>5. ASSUME NEW id \in DOMAIN resolutions, StandPat(id) \/ Match(id) \/ Decline(id)
        PROVE  UNCHANGED <<schedule, tiers, config>>
    BY <2>5 DEF StandPat, Match, Decline, Settle, poolVars
  <2> QED BY <1>3, <1>8, <2>1, <2>2, <2>3, <2>4, <2>5 DEF BidNext
<1>9. CASE UNCHANGED vars
  BY <1>3, <1>9 DEF vars, poolVars
<1> QED BY <1>7, <1>8, <1>9 DEF Next

-----------------------------------------------------------------------------
(* Theorem *)

\* Whatever the pool, the ranking and the tiers: restricted free agents come first, the others a day's
\* number at a time and no better player later or cheaper than a worse one, over tiers of one size
\* (assemble_veteran_pool.rs) - unless tiers or ranking are rewritten while the pool is assembled.
THEOREM ReleasedFairly == ConfigFirst => (Spec => []ScheduleFair)
<1> SUFFICES ASSUME ConfigFirst
             PROVE  Spec => []ScheduleFair
  OBVIOUS
<1>1. Planned => ScheduleFair
  <2> SUFFICES ASSUME Planned
               PROVE  ScheduleFair
    OBVIOUS
  <2>1. tiers \in Seq(Nat \ {0})
    BY DEF Planned, Safe, Typed, ConfigTyped
  <2> QED BY <2>1, FairInParts DEF Planned, Released, Fairly
<1>2. Planned /\ [Next]_vars => Planned'
  BY PlannedStep
<1>3. Init => Planned
  <2> SUFFICES ASSUME Init
               PROVE  Planned
    OBVIOUS
  <2>1. Safe /\ schedule = <<>>
    BY SafeInit DEF Init, PoolInit
  <2> QED BY <2>1, NothingPlanned DEF Planned, Safe, Typed, ConfigTyped
<1> QED BY <1>1, <1>2, <1>3, PTL DEF Spec

=============================================================================
