---------------------------- MODULE SeasonProofs -----------------------------
(***************************************************************************)
(* Proofs about Season, for any teams, calendar and first rows.            *)
(***************************************************************************)
EXTENDS Season, SumProofs, SequenceTheorems, FunctionTheorems

-----------------------------------------------------------------------------
(* The rows an operation makes *)

LEMMA Percents ==
  ASSUME NEW salary \in Nat
  PROVE  Percent(salary, 20) \in Nat /\ RaisedBy20(salary) \in Nat
BY DEF Percent, RaisedBy20

\* The next row of a chain: its player's, its chain's, its season's or the next one's.
Heir(c, new) == new \in Row /\ new.player = c.player /\ new.orig = c.orig

LEMMA KindsOfTerms ==
  \A t \in Terms : t.next.kind \in Kinds \ {"FreeAgent"} /\ t.next.year \in Nat
<1>1. \A year \in 1 .. 20 : year + 1 \in Nat
  OBVIOUS
<1> QED BY <1>1 DEF Terms, Term, Kinds, DevelopmentKinds, CountedKinds, ExpiringKinds

LEMMA IrColumn ==
  ASSUME NEW c \in Row, NEW ir \in BOOLEAN
  PROVE  [After(c) EXCEPT !.ir = ir] \in Row
BY DEF After, Row

LEMMA KindColumns ==
  ASSUME NEW c \in Row, NEW kind \in Kinds, NEW year \in Nat
  PROVE  /\ [After(c) EXCEPT !.kind = kind, !.year = year] \in Row
         /\ [c EXCEPT !.kind = kind, !.year = year] \in Row
BY DEF After, Row

LEMMA IdColumn ==
  ASSUME NEW c \in Row, NEW id \in Nat \ {0}
  PROVE  [c EXCEPT !.id = id] \in Row
BY DEF Row

LEMMA SeasonColumns ==
  ASSUME NEW c \in Row, NEW kind \in Kinds, NEW year \in Nat, NEW season \in Nat, NEW salary \in Nat
  PROVE  [After(c) EXCEPT !.kind = kind, !.year = year, !.ir = FALSE, !.season = season, !.salary = salary]
           \in Row
BY DEF After, Row

LEMMA LastColumns ==
  ASSUME NEW c \in Row, NEW salary \in Nat, NEW status \in Statuses
  PROVE  /\ [After(c) EXCEPT !.kind = "FreeAgent", !.year = 1, !.team = Unset, !.salary = salary,
                             !.status = status] \in Row
         /\ [After(c) EXCEPT !.kind = "FreeAgent", !.year = 1, !.ir = FALSE, !.salary = salary,
                             !.status = status, !.team = Unset] \in Row
<1>1. "FreeAgent" \in Kinds
  BY DEF Kinds
<1> QED BY <1>1 DEF After, Row

\* What a move other than a drop leaves of a row, and a drop.
Stays(op, c, new) ==
  /\ new.team = c.team /\ new.salary = c.salary /\ new.status = c.status
  /\ new.kind = "FreeAgent" => c.kind = "FreeAgent"
  /\ op # "activate" => new.kind = c.kind \/ {c.kind, new.kind} \subseteq DevelopmentKinds
Goes(c, d, new) ==
  /\ new.team = Unset /\ new.kind = "FreeAgent" /\ new.prev = c.id
  /\ Live(new) => c.kind \in CountedKinds /\ Calendar[d].kind \notin KeeperKinds

LEMMA RowsOfIr ==
  ASSUME NEW c \in Row, NEW new \in WithIr(c, TRUE) \cup WithIr(c, FALSE), NEW op
  PROVE  Heir(c, new) /\ new.season = c.season /\ Stays(op, c, new)
<1>1. new = [After(c) EXCEPT !.ir = TRUE] \/ new = [After(c) EXCEPT !.ir = FALSE]
  BY DEF WithIr
<1>2. new \in Row
  BY <1>1, IrColumn
<1>3. /\ new.player = c.player /\ new.orig = c.orig /\ new.season = c.season
      /\ new.team = c.team /\ new.salary = c.salary /\ new.status = c.status /\ new.kind = c.kind
  BY <1>1 DEF After, Row
<1> QED BY <1>2, <1>3 DEF Heir, Stays

LEMMA RowsOfDevelopment ==
  ASSUME NEW c \in Row, NEW new, NEW op \in {"activate", "toRdi", "fromRdi"},
         new \in CASE op = "activate" -> ActivatedRookie(c)
                   [] op = "toRdi" -> MovedAbroad(c)
                   [] op = "fromRdi" -> MovedBack(c)
  PROVE  Heir(c, new) /\ new.season = c.season /\ Stays(op, c, new)
<1>1. ASSUME NEW kind \in Kinds, kind # "FreeAgent", c.kind \in DevelopmentKinds,
             op = "activate" \/ kind \in DevelopmentKinds,
             new = [After(c) EXCEPT !.kind = kind, !.year = 1] \/ new = [c EXCEPT !.kind = kind, !.year = 1]
      PROVE  Heir(c, new) /\ new.season = c.season /\ Stays(op, c, new)
  <2>1. new \in Row
    <3> DEFINE a == [After(c) EXCEPT !.kind = kind, !.year = 1]
               b == [c EXCEPT !.kind = kind, !.year = 1]
    <3>1. a \in Row /\ b \in Row
      BY <1>1, KindColumns
    <3>2. new = a \/ new = b
      BY <1>1
    <3> HIDE DEF a, b
    <3> QED BY <3>1, <3>2
  <2>2. /\ new.player = c.player /\ new.orig = c.orig /\ new.season = c.season
        /\ new.team = c.team /\ new.salary = c.salary /\ new.status = c.status /\ new.kind = kind
    BY <1>1 DEF After, Row
  <2>3. Stays(op, c, new)
    BY <1>1, <2>2 DEF Stays
  <2> QED BY <2>1, <2>2, <2>3 DEF Heir
<1>2. {"Rookie", "RD", "RDI"} \subseteq Kinds /\ {"RD", "RDI"} = DevelopmentKinds
  BY DEF Kinds, DevelopmentKinds, CountedKinds
<1>3. CASE op = "activate"
  <2>1. new = [After(c) EXCEPT !.kind = "Rookie", !.year = 1] /\ c.kind \in DevelopmentKinds
    BY <1>3 DEF ActivatedRookie, Provided
  <2> QED BY <1>1, <1>2, <1>3, <2>1
<1>4. CASE op = "toRdi"
  <2>1. new = [c EXCEPT !.kind = "RDI", !.year = 1] /\ c.kind = "RD"
    BY <1>4 DEF MovedAbroad, Provided
  <2> QED BY <1>1, <1>2, <2>1
<1>5. CASE op = "fromRdi"
  <2>1. new = [c EXCEPT !.kind = "RD", !.year = 1] /\ c.kind = "RDI"
    BY <1>5 DEF MovedBack, Provided
  <2> QED BY <1>1, <1>2, <2>1
<1> QED BY <1>3, <1>4, <1>5

LEMMA RowsOfDrops ==
  ASSUME NEW c \in Row, NEW before, NEW new \in Dropped(c, before)
  PROVE  /\ Heir(c, new) /\ new.season = c.season
         /\ new.team = Unset /\ new.kind = "FreeAgent" /\ new.prev = c.id
         /\ Live(new) => c.kind \in CountedKinds /\ ~before
<1> DEFINE survives == c.kind \in CountedKinds /\ ~before
           salary == IF survives THEN c.salary ELSE 1
           status == IF survives THEN "Active" ELSE "Expired"
<1>1. new = [After(c) EXCEPT !.kind = "FreeAgent", !.year = 1, !.team = Unset, !.salary = salary,
                             !.status = status]
  BY DEF Dropped, Provided
<1>2. salary \in Nat /\ status \in Statuses /\ (status = "Active" => survives)
  BY DEF Row, Statuses
<1> HIDE DEF salary, status
<1>3. new \in Row
  BY <1>1, <1>2, LastColumns
<1>4. new.status = status
  BY <1>1, <1>2 DEF After, Row
<1>5. Heir(c, new) /\ new.season = c.season
      /\ new.team = Unset /\ new.kind = "FreeAgent" /\ new.prev = c.id
  BY <1>1, <1>3 DEF After, Heir, Row
<1> QED BY <1>2, <1>4, <1>5 DEF Live

LEMMA RowsOfMoves ==
  ASSUME NEW c \in Row, NEW op \in RosterOps, NEW d, NEW new \in Moved(op, c, d)
  PROVE  /\ Heir(c, new) /\ new.season = c.season
         /\ op # "drop" => Stays(op, c, new)
         /\ op = "drop" => Goes(c, d, new)
<1>1. CASE op = "toIr"
  <2>1. new \in WithIr(c, TRUE)
    BY <1>1 DEF Moved, MovedToIr
  <2> QED BY <1>1, <2>1, RowsOfIr
<1>2. CASE op = "fromIr"
  <2>1. new \in WithIr(c, FALSE)
    BY <1>2 DEF Moved, ActivatedFromIr
  <2> QED BY <1>2, <2>1, RowsOfIr
<1>3. CASE op = "drop"
  <2>1. new \in Dropped(c, Calendar[d].kind \in KeeperKinds)
    BY <1>3 DEF Moved, DroppedFromTeam
  <2> QED BY <1>3, <2>1, RowsOfDrops DEF Goes
<1>4. CASE op = "activate"
  <2>1. new \in ActivatedRookie(c)
    BY <1>4 DEF Moved, Activated
  <2> QED BY <1>4, <2>1, RowsOfDevelopment
<1>5. CASE op = "toRdi"
  <2>1. new \in MovedAbroad(c)
    BY <1>5 DEF Moved, SentAbroad
  <2> QED BY <1>5, <2>1, RowsOfDevelopment
<1>6. CASE op = "fromRdi"
  <2>1. new \in MovedBack(c)
    BY <1>6 DEF Moved
  <2> QED BY <1>6, <2>1, RowsOfDevelopment
<1> QED BY <1>1, <1>2, <1>3, <1>4, <1>5, <1>6 DEF RosterOps

LEMMA RowsOfSeasons ==
  ASSUME NEW c \in Row, NEW new \in NextSeason(c)
  PROVE  Heir(c, new) /\ (Live(new) => new.kind # "FreeAgent")
<1>1. CASE c.kind = "FreeAgent"
  <2>1. new = [After(c) EXCEPT !.kind = "FreeAgent", !.year = 1, !.ir = FALSE, !.salary = 1,
                     !.status = "Expired", !.team = Unset]
    BY <1>1 DEF NextSeason, ExpiredRow, Provided
  <2>2. new \in Row
    BY <2>1, LastColumns DEF Statuses
  <2> QED BY <2>1, <2>2 DEF After, Heir, Row, Live
<1>2. CASE c.kind # "FreeAgent"
  <2>1. PICK t \in Terms : new = [After(c) EXCEPT !.kind = t.next.kind, !.year = t.next.year, !.ir = FALSE,
                    !.season = c.season + 1, !.salary = PayOf(t.pay, c.salary)]
    BY <1>2 DEF NextSeason, Advanced
  <2> DEFINE kind == t.next.kind
             year == t.next.year
             season == c.season + 1
             salary == PayOf(t.pay, c.salary)
  <2>2. salary \in Nat /\ season \in Nat
    BY Percents DEF PayOf, Row
  <2>3. kind \in Kinds \ {"FreeAgent"} /\ year \in Nat
    BY KindsOfTerms
  <2>4. new = [After(c) EXCEPT !.kind = kind, !.year = year, !.ir = FALSE, !.season = season,
                    !.salary = salary]
    BY <2>1
  <2> HIDE DEF kind, year, season, salary
  <2>5. new \in Row
    BY <2>2, <2>3, <2>4, SeasonColumns
  <2>6. new.kind = kind /\ Heir(c, new)
    BY <2>4, <2>5 DEF After, Heir, Row
  <2> QED BY <2>3, <2>6
<1> QED BY <1>1, <1>2

LEMMA RowsOfTrades ==
  ASSUME NEW c \in Row, NEW team \in Teams, NEW new \in Traded(c, team)
  PROVE  Heir(c, new) /\ new.season = c.season /\ new.kind = c.kind /\ new.status = c.status
BY DEF Traded, After, Heir, Row

-----------------------------------------------------------------------------
(* The table: rows are added, and what they replace changes its status *)

SameRow(c, x) ==
  /\ x.id = c.id /\ x.player = c.player /\ x.kind = c.kind /\ x.salary = c.salary
  /\ x.season = c.season /\ x.team = c.team /\ x.orig = c.orig /\ x.prev = c.prev

\* A row as it was read at some time.
Known(c) == c \in Row /\ c.id \in DOMAIN table /\ SameRow(c, table[c.id])

Numbered ==
  /\ table \in Seq(Row)
  /\ \A i \in DOMAIN table : table[i].id = i
  /\ \A i, j \in DOMAIN table : table[i].orig = table[j].orig => table[i].player = table[j].player

\* Row by row, in some order, each of n rows is replaced by its new one.
Rewrites(rows, new, n, order) ==
  /\ n \in Nat /\ order \in [1 .. n -> rows]
  /\ \A i, j \in 1 .. n : order[i] = order[j] => i = j
  /\ \A c \in rows : \E j \in 1 .. n : order[j] = c
  /\ table' = AfterFirst(n, order, new)
Heirs(rows, new) == \A c \in rows : Known(c) /\ Heir(c, new[c])

LEMMA OldAndNew ==
  ASSUME Numbered, NEW rows, NEW new, NEW n, NEW order, Rewrites(rows, new, n, order), Heirs(rows, new)
  PROVE  /\ table' \in Seq(Row) /\ Len(table') = Len(table) + n /\ Len(table) \in Nat /\ n \in Nat
         /\ \A i \in 1 .. Len(table) :
              table'[i] = IF \E c \in rows : c.id = i THEN [table[i] EXCEPT !.status = "Replaced"]
                          ELSE table[i]
         /\ \A j \in 1 .. n : /\ Len(table) + j \in DOMAIN table'
                              /\ order[j] \in rows
                              /\ table'[Len(table) + j] = [new[order[j]] EXCEPT !.id = Len(table) + j]
<1>1. Len(table) \in Nat /\ n \in Nat /\ DOMAIN table = 1 .. Len(table)
      /\ \A i \in 1 .. Len(table) : table[i] \in Row
  BY LenProperties DEF Numbered, Rewrites
<1>2. table' = AfterFirst(n, order, new) /\ DOMAIN table' = 1 .. Len(table) + n
  BY <1>1 DEF Rewrites, AfterFirst
<1>3. ASSUME NEW i \in 1 .. Len(table)
      PROVE  table'[i] = IF \E c \in rows : c.id = i THEN [table[i] EXCEPT !.status = "Replaced"]
                          ELSE table[i]
  <2>1. i \in 1 .. Len(table) + n /\ ~(i > Len(table))
    BY <1>1
  <2>2. table'[i] = IF \E j \in 1 .. n : order[j].id = i THEN [table[i] EXCEPT !.status = "Replaced"]
                    ELSE table[i]
    BY <1>2, <2>1 DEF AfterFirst
  <2>3. (\E j \in 1 .. n : order[j].id = i) <=> \E c \in rows : c.id = i
    BY DEF Rewrites
  <2> QED BY <2>2, <2>3
<1>4. ASSUME NEW j \in 1 .. n
      PROVE  /\ Len(table) + j \in DOMAIN table' /\ order[j] \in rows
             /\ table'[Len(table) + j] = [new[order[j]] EXCEPT !.id = Len(table) + j]
  <2>1. Len(table) + j \in 1 .. Len(table) + n /\ Len(table) + j > Len(table)
        /\ (Len(table) + j) - Len(table) = j
    BY <1>1
  <2>2. order[j] \in rows
    BY DEF Rewrites
  <2> QED BY <1>2, <2>1, <2>2 DEF AfterFirst
<1>5. ASSUME NEW i \in 1 .. Len(table) + n
      PROVE  table'[i] \in Row
  <2>1. CASE i \in 1 .. Len(table)
    <3>1. [table[i] EXCEPT !.status = "Replaced"] \in Row
      BY <1>1, <2>1 DEF Row, Statuses
    <3> QED BY <1>1, <1>3, <2>1, <3>1
  <2>2. CASE i \notin 1 .. Len(table)
    <3>0. i - Len(table) \in 1 .. n /\ i = Len(table) + (i - Len(table))
      BY <1>1, <2>2
    <3>1. PICK j \in 1 .. n : i = Len(table) + j
      BY <3>0
    <3>2. new[order[j]] \in Row
      BY <1>4, <3>1 DEF Heirs, Heir
    <3>3. [new[order[j]] EXCEPT !.id = i] \in Row
      <4>1. i \in Nat \ {0}
        BY <1>1
      <4> QED BY <3>2, <4>1, IdColumn
    <3>4. table'[i] = [new[order[j]] EXCEPT !.id = i]
      BY <1>4, <3>1
    <3> QED BY <3>3, <3>4
  <2> QED BY <2>1, <2>2
<1>6. table' \in Seq(Row) /\ Len(table') = Len(table) + n
  <2>1. table' = [i \in 1 .. Len(table) + n |-> table'[i]]
    BY <1>2 DEF AfterFirst
  <2>2. Len(table) + n \in Nat
    BY <1>1
  <2> HIDE DEF AfterFirst
  <2>3. table' \in [1 .. Len(table) + n -> Row]
    BY <1>5, <2>1
  <2>4. table' \in Seq(Row)
    BY <2>2, <2>3, SeqDef
  <2> QED BY <1>2, <2>2, <2>4, LenProperties
<1> QED BY <1>1, <1>3, <1>4, <1>6

\* Nothing but the status of a row ever changes, and no row comes back to life.
LEMMA RowsStay ==
  ASSUME Numbered, NEW rows, NEW new, NEW n, NEW order, Rewrites(rows, new, n, order), Heirs(rows, new)
  PROVE  \A i \in DOMAIN table : /\ i \in DOMAIN table' /\ SameRow(table[i], table'[i])
                                 /\ Live(table'[i]) => table'[i] = table[i] /\ \A c \in rows : c.id # i
<1> SUFFICES ASSUME NEW i \in DOMAIN table
             PROVE  /\ i \in DOMAIN table' /\ SameRow(table[i], table'[i])
                    /\ Live(table'[i]) => table'[i] = table[i] /\ \A c \in rows : c.id # i
  OBVIOUS
<1>1. i \in 1 .. Len(table) /\ table[i] \in Row
  BY LenProperties DEF Numbered
<1>2. i \in DOMAIN table'
  BY <1>1, OldAndNew, LenProperties
<1>3. table'[i] = IF \E c \in rows : c.id = i THEN [table[i] EXCEPT !.status = "Replaced"] ELSE table[i]
  BY <1>1, OldAndNew
<1>4. CASE \E c \in rows : c.id = i
  BY <1>1, <1>2, <1>3, <1>4 DEF SameRow, Live, Row
<1>5. CASE ~\E c \in rows : c.id = i
  BY <1>2, <1>3, <1>5 DEF SameRow
<1> QED BY <1>4, <1>5

LEMMA NewRows ==
  ASSUME Numbered, NEW rows, NEW new, NEW n, NEW order, Rewrites(rows, new, n, order), Heirs(rows, new),
         NEW i \in DOMAIN table', i \notin DOMAIN table
  PROVE  \E j \in 1 .. n : /\ order[j] \in rows /\ i = Len(table) + j
                           /\ table'[i] = [new[order[j]] EXCEPT !.id = i]
                           /\ table'[i].orig = table[order[j].id].orig
                           /\ table'[i].player = table[order[j].id].player
<1>1. i \in 1 .. Len(table) + n /\ ~(i \in 1 .. Len(table)) /\ Len(table) \in Nat /\ n \in Nat
  BY OldAndNew, LenProperties DEF Numbered
<1> DEFINE k == i - Len(table)
<1>0. k \in 1 .. n /\ i = Len(table) + k
  BY <1>1
<1>2. PICK j \in 1 .. n : i = Len(table) + j
  BY <1>0
<1>3. j \in 1 .. n /\ order[j] \in rows /\ table'[i] = [new[order[j]] EXCEPT !.id = i]
  BY <1>2, OldAndNew
<1>4. new[order[j]] \in Row /\ new[order[j]].orig = table[order[j].id].orig
      /\ new[order[j]].player = table[order[j].id].player
  BY <1>3 DEF Heirs, Heir, Known, SameRow
<1>5. table'[i].orig = new[order[j]].orig /\ table'[i].player = new[order[j]].player
  BY <1>3, <1>4 DEF Row
<1> QED BY <1>2, <1>3, <1>4, <1>5

LEMMA StillNumbered ==
  ASSUME Numbered, NEW rows, NEW new, NEW n, NEW order, Rewrites(rows, new, n, order), Heirs(rows, new)
  PROVE  Numbered'
<1>1. ASSUME NEW i \in DOMAIN table'
      PROVE  /\ table'[i].id = i
             /\ \E k \in DOMAIN table : table'[i].orig = table[k].orig /\ table'[i].player = table[k].player
  <2>1. CASE i \in DOMAIN table
    BY <2>1, RowsStay DEF SameRow, Numbered
  <2>2. CASE i \notin DOMAIN table
    <3>1. PICK j \in 1 .. n : /\ order[j] \in rows /\ table'[i] = [new[order[j]] EXCEPT !.id = i]
                              /\ table'[i].orig = table[order[j].id].orig
                              /\ table'[i].player = table[order[j].id].player
      BY <2>2, NewRows
    <3>2. new[order[j]] \in Row /\ order[j].id \in DOMAIN table
      BY <3>1 DEF Heirs, Heir, Known
    <3>3. table'[i].id = i
      BY <3>1, <3>2 DEF Row
    <3> QED BY <3>1, <3>2, <3>3
  <2> QED BY <2>1, <2>2
<1>2. table' \in Seq(Row)
  BY OldAndNew
<1>3. ASSUME NEW i \in DOMAIN table', NEW j \in DOMAIN table', table'[i].orig = table'[j].orig
      PROVE  table'[i].player = table'[j].player
  BY <1>1, <1>3 DEF Numbered
<1> QED BY <1>1, <1>2, <1>3 DEF Numbered

\* A player has one live row, and it is the last of its chain.
Lone ==
  \A i \in DOMAIN table : Live(table[i]) =>
    \A j \in DOMAIN table :
      /\ table[j].orig = table[i].orig => j <= i
      /\ Live(table[j]) /\ table[j].player = table[i].player => j = i

LEMMA RangeFinite ==
  ASSUME NEW tbl \in Seq(Row)
  PROVE  IsFiniteSet(Range(tbl)) /\ Range(tbl) \subseteq Row
<1>0. Len(tbl) \in Nat /\ DOMAIN tbl = 1 .. Len(tbl)
  BY LenProperties
<1>1. tbl \in [DOMAIN tbl -> Row]
  BY LenProperties
<1>2. IsFiniteSet(DOMAIN tbl)
  BY <1>0, FS_Interval
<1>3. tbl \in Surjection(DOMAIN tbl, Range(tbl))
  BY <1>1, Fun_RangeProperties
<1>4. IsFiniteSet(Range(tbl))
  BY <1>2, <1>3, FS_Surjection
<1>5. Range(tbl) \subseteq Row
  BY <1>1, Fun_RangeProperties
<1> QED BY <1>4, <1>5

LEMMA LiveRowsOf ==
  ASSUME NEW tbl \in Seq(Row), \A i \in DOMAIN tbl : tbl[i].id = i
  PROVE  /\ \A c \in LiveRows(tbl) : c \in Row /\ Live(c) /\ c.id \in DOMAIN tbl /\ tbl[c.id] = c
         /\ \A i \in DOMAIN tbl : Live(tbl[i]) => tbl[i] \in LiveRows(tbl)
         /\ IsFiniteSet(LiveRows(tbl))
<1>1. ASSUME NEW c \in LiveRows(tbl)
      PROVE  c \in Row /\ Live(c) /\ c.id \in DOMAIN tbl /\ tbl[c.id] = c
  <2>1. PICK i \in DOMAIN tbl : c = tbl[i]
    BY DEF LiveRows, Range
  <2>2. tbl[i] \in Row /\ tbl[i].id = i
    OBVIOUS
  <2> QED BY <2>1, <2>2 DEF LiveRows
<1>2. \A i \in DOMAIN tbl : Live(tbl[i]) => tbl[i] \in LiveRows(tbl)
  BY DEF LiveRows, Range
<1>3. IsFiniteSet(LiveRows(tbl))
  BY RangeFinite, FS_Subset DEF LiveRows
<1> QED BY <1>1, <1>2, <1>3

LEMMA LiveRowsAre ==
  ASSUME Numbered
  PROVE  /\ \A c \in LiveRows(table) :
              c \in Row /\ Live(c) /\ c.id \in DOMAIN table /\ table[c.id] = c /\ Known(c)
         /\ \A i \in DOMAIN table : Live(table[i]) => table[i] \in LiveRows(table)
         /\ IsFiniteSet(LiveRows(table))
<1>1. table \in Seq(Row) /\ \A i \in DOMAIN table : table[i].id = i
  BY DEF Numbered
<1>2. \A c \in LiveRows(table) : c \in Row /\ Live(c) /\ c.id \in DOMAIN table /\ table[c.id] = c
  BY <1>1, LiveRowsOf
<1>3. \A c \in LiveRows(table) : Known(c)
  BY <1>2 DEF Known, SameRow
<1> QED BY <1>1, <1>2, <1>3, LiveRowsOf

\* Row i is row k as it was left, or the one that row k is replaced by.
ComesFrom(rows, n, order, i, k) ==
  /\ table'[i].orig = table[k].orig /\ table'[i].player = table[k].player
  /\ \/ k = i /\ (Live(table'[i]) => Live(table[i]) /\ table[i] \notin rows)
     \/ /\ \E j \in 1 .. n : i = Len(table) + j /\ order[j] = table[k]
        /\ table[k] \in rows /\ Live(table[k])

LEMMA RowsComeFrom ==
  ASSUME Numbered, NEW rows, rows \subseteq LiveRows(table), NEW new, NEW n, NEW order,
         Rewrites(rows, new, n, order), Heirs(rows, new), NEW i \in DOMAIN table'
  PROVE  \E k \in DOMAIN table : ComesFrom(rows, n, order, i, k)
<1>1. CASE i \in DOMAIN table
  <2>1. Live(table'[i]) => Live(table[i]) /\ table[i] \notin rows
    BY <1>1, RowsStay DEF Numbered
  <2> QED BY <1>1, <2>1, RowsStay DEF SameRow, ComesFrom
<1>2. CASE i \notin DOMAIN table
  <2>1. PICK j \in 1 .. n : /\ order[j] \in rows /\ i = Len(table) + j
                            /\ table'[i].orig = table[order[j].id].orig
                            /\ table'[i].player = table[order[j].id].player
    BY <1>2, NewRows
  <2>2. order[j].id \in DOMAIN table /\ table[order[j].id] = order[j] /\ Live(order[j])
    BY <2>1, LiveRowsAre
  <2> QED BY <2>1, <2>2 DEF ComesFrom
<1> QED BY <1>1, <1>2

LEMMA StillLone ==
  ASSUME Numbered, Lone, NEW rows, rows \subseteq LiveRows(table), NEW new, NEW n, NEW order,
         Rewrites(rows, new, n, order), Heirs(rows, new)
  PROVE  Lone'
<1> SUFFICES ASSUME NEW i \in DOMAIN table', Live(table'[i]), NEW j \in DOMAIN table'
             PROVE  /\ table'[j].orig = table'[i].orig => j <= i
                    /\ Live(table'[j]) /\ table'[j].player = table'[i].player => j = i
  BY DEF Lone
<1>a. PICK k \in DOMAIN table : ComesFrom(rows, n, order, i, k)
  BY RowsComeFrom
<1>b. PICK l \in DOMAIN table : ComesFrom(rows, n, order, j, l)
  BY RowsComeFrom
<1>1. /\ table'[i].orig = table[k].orig /\ table'[i].player = table[k].player
      /\ \/ k = i /\ Live(table[i]) /\ table[i] \notin rows
         \/ /\ \E a \in 1 .. n : i = Len(table) + a /\ order[a] = table[k]
            /\ table[k] \in rows /\ Live(table[k])
  BY <1>a DEF ComesFrom
<1>2. /\ table'[j].orig = table[l].orig /\ table'[j].player = table[l].player
      /\ \/ l = j /\ (Live(table'[j]) => Live(table[j]) /\ table[j] \notin rows)
         \/ /\ \E a \in 1 .. n : j = Len(table) + a /\ order[a] = table[l]
            /\ table[l] \in rows /\ Live(table[l])
  BY <1>b DEF ComesFrom
<1>3. /\ DOMAIN table = 1 .. Len(table) /\ Len(table) \in Nat
      /\ \A a \in DOMAIN table : table[a].id = a
      /\ \A a, b \in 1 .. n : order[a] = order[b] => a = b
      /\ n \in Nat
  BY LenProperties DEF Numbered, Rewrites
<1>4. Live(table[k]) /\ (table[l].orig = table[k].orig => l <= k)
      /\ (Live(table[l]) /\ table[l].player = table[k].player => l = k)
      /\ (Live(table[l]) /\ table[l].orig = table[k].orig => k <= l)
  BY <1>1 DEF Lone
<1>5. CASE l = j /\ k = i /\ (Live(table'[j]) => Live(table[j]))
  BY <1>1, <1>2, <1>4, <1>5
<1>6. CASE l = j /\ (Live(table'[j]) => Live(table[j]) /\ table[j] \notin rows)
           /\ \E a \in 1 .. n : i = Len(table) + a /\ order[a] = table[k] /\ table[k] \in rows
  <2>1. j <= i
    BY <1>3, <1>6
  <2>2. ~(Live(table'[j]) /\ table'[j].player = table'[i].player)
    BY <1>1, <1>2, <1>4, <1>6
  <2> QED BY <2>1, <2>2
<1>7. CASE /\ k = i /\ table[i] \notin rows
           /\ table[l] \in rows /\ Live(table[l])
  <2>1. l # k
    BY <1>7
  <2>2. ~(table[l].orig = table[k].orig)
    BY <1>3, <1>4, <1>7, <2>1
  <2>3. ~(table[l].player = table[k].player)
    BY <1>4, <1>7, <2>1
  <2> QED BY <1>1, <1>2, <2>2, <2>3
<1>8. CASE /\ \E a \in 1 .. n : i = Len(table) + a /\ order[a] = table[k]
           /\ \E a \in 1 .. n : j = Len(table) + a /\ order[a] = table[l]
           /\ Live(table[l])
  <2>1. l = k => j = i
    BY <1>3, <1>8
  <2>2. table[l].orig = table[k].orig => l = k
    BY <1>3, <1>4, <1>8
  <2>3. table[l].player = table[k].player => l = k
    BY <1>4, <1>8
  <2>4. i <= i
    BY <1>3, <1>8
  <2> QED BY <1>1, <1>2, <2>1, <2>2, <2>3, <2>4
<1> QED BY <1>1, <1>2, <1>5, <1>6, <1>7, <1>8

-----------------------------------------------------------------------------
(* What rewrites it *)

LEMMA OneIsRewritten ==
  ASSUME Numbered, NEW c, NEW new, table' = Replace(table, c, new)
  PROVE  Rewrites({c}, [x \in {c} |-> new], 1, [j \in 1 .. 1 |-> c])
<1> DEFINE order == [j \in 1 .. 1 |-> c]
           heir == [x \in {c} |-> new]
<1>1. Len(table) \in Nat /\ DOMAIN table = 1 .. Len(table)
  BY LenProperties DEF Numbered
<1> DEFINE first == [table EXCEPT ![c.id].status = "Replaced"]
           last == [new EXCEPT !.id = Len(table) + 1]
<1>2. table' = Append(first, last)
  BY DEF Replace
<1>3. first = [i \in 1 .. Len(table) |-> IF i = c.id THEN [table[i] EXCEPT !.status = "Replaced"]
                                         ELSE table[i]]
  BY <1>1 DEF Numbered
<1>4. AfterFirst(1, order, heir) =
        [i \in 1 .. Len(table) + 1 |->
           IF i > Len(table) THEN last
           ELSE IF i = c.id THEN [table[i] EXCEPT !.status = "Replaced"] ELSE table[i]]
  <2>1. \A i \in 1 .. Len(table) + 1 :
           /\ i > Len(table) => i = Len(table) + 1 /\ i - Len(table) = 1
           /\ (\E j \in 1 .. 1 : order[j].id = i) <=> i = c.id
    BY <1>1
  <2>2. order[1] = c /\ heir[c] = new
    OBVIOUS
  <2> QED BY <2>1, <2>2 DEF AfterFirst
<1>5. Append(first, last) = [i \in 1 .. Len(table) + 1 |-> IF i = Len(table) + 1 THEN last ELSE first[i]]
  <2>1. first \in Seq(Range(first) \cup {last}) /\ Len(first) = Len(table)
    <3> HIDE DEF last
    <3>1. first \in [1 .. Len(table) -> Range(first) \cup {last}]
      BY <1>3 DEF Range
    <3> DEFINE S == Range(first) \cup {last}
    <3>2. first \in Seq(S)
      <4> HIDE DEF S, first
      <4> QED BY <1>1, <3>1, SeqDef DEF S
    <3> QED BY <1>1, <1>3, <3>2, LenProperties
  <2> HIDE DEF first, last
  <2> DEFINE S == Range(first) \cup {last}
             app == Append(first, last)
  <2>2. first \in Seq(S) /\ last \in S
    BY <2>1
  <2>3. /\ app \in Seq(S) /\ Len(app) = Len(first) + 1
        /\ \A i \in 1 .. Len(first) : app[i] = first[i]
        /\ app[Len(first) + 1] = last
    <3> HIDE DEF S
    <3> QED BY <2>2, AppendProperties
  <2>4. DOMAIN app = 1 .. Len(table) + 1 /\ app = [i \in DOMAIN app |-> app[i]]
    <3> HIDE DEF S, app
    <3> QED BY <2>1, <2>3, LenProperties
  <2>5. \A i \in 1 .. Len(table) + 1 : app[i] = IF i = Len(table) + 1 THEN last ELSE first[i]
    <3>1. \A i \in 1 .. Len(table) + 1 : i = Len(table) + 1 \/ i \in 1 .. Len(table)
      BY <1>1
    <3> HIDE DEF app
    <3> QED BY <1>1, <2>1, <2>3, <3>1
  <2> HIDE DEF app
  <2>6. app = [i \in 1 .. Len(table) + 1 |-> IF i = Len(table) + 1 THEN last ELSE first[i]]
    BY <2>4, <2>5
  <2> QED BY <2>6 DEF app
<1>6. table' = AfterFirst(1, order, heir)
  <2>1. \A i \in 1 .. Len(table) + 1 : (i > Len(table) <=> i = Len(table) + 1)
                                       /\ (~(i > Len(table)) => i \in 1 .. Len(table))
    BY <1>1
  <2>2. \A i \in 1 .. Len(table) :
          first[i] = IF i = c.id THEN [table[i] EXCEPT !.status = "Replaced"] ELSE table[i]
    <3> HIDE DEF first
    <3> QED BY <1>3
  <2>3. AfterFirst(1, order, heir) =
          [i \in 1 .. Len(table) + 1 |-> IF i = Len(table) + 1 THEN last ELSE first[i]]
    <3> HIDE DEF first, last, order, heir
    <3> QED BY <1>4, <2>1, <2>2
  <2> HIDE DEF first, last
  <2> QED BY <1>2, <1>5, <2>3
<1> QED BY <1>6 DEF Rewrites

LEMMA ManyAreRewritten ==
  ASSUME Numbered, NEW next, IsFiniteSet(DOMAIN next), table' \in AllReplaced(next)
  PROVE  \E order, new : /\ Rewrites(DOMAIN next, new, Cardinality(DOMAIN next), order)
                         /\ \A c \in DOMAIN next : new[c] \in next[c] /\ YearAllowed(new[c])
                         /\ Cardinality(DOMAIN next) # 0 => UniqueActive(table', NbaPlayers)
<1> DEFINE rows == DOMAIN next
           n == Cardinality(rows)
<1>1. PICK order, new :
        /\ order \in SetToSeqs(rows)
        /\ \A c \in rows : new[c] \in next[c] /\ YearAllowed(new[c])
        /\ \A k \in DOMAIN order : UniqueActive(AfterFirst(k, order, new), NbaPlayers)
        /\ table' = AfterFirst(Len(order), order, new)
  BY DEF AllReplaced
<1>2. n \in Nat
  BY FS_CardinalityType
<1>3. order \in [1 .. n -> rows] /\ \A i, j \in 1 .. n : order[i] = order[j] => i = j
  BY <1>1 DEF SetToSeqs
<1>4. Len(order) = n
  <2>1. order \in Seq(rows)
    BY <1>2, <1>3, SeqDef
  <2> QED BY <1>2, <1>3, <2>1, LenProperties
<1>5. \A c \in rows : \E j \in 1 .. n : order[j] = c
  <2>1. order \in Injection(1 .. n, rows)
    BY <1>3 DEF Injection, IsInjective
  <2>2. Cardinality(1 .. n) = n
    BY <1>2, FS_Interval
  <2>3. order \in Surjection(1 .. n, rows)
    BY <2>1, <2>2, FS_Injection
  <2> QED BY <2>3 DEF Surjection
<1>6. Rewrites(rows, new, n, order)
  BY <1>1, <1>2, <1>3, <1>4, <1>5 DEF Rewrites
<1>7. n # 0 => UniqueActive(table', NbaPlayers)
  <2>1. n # 0 => n \in DOMAIN order
    BY <1>2, <1>3
  <2> QED BY <1>1, <1>4, <2>1
<1> QED BY <1>1, <1>6, <1>7

-----------------------------------------------------------------------------
(* The types: what requests and the handler have read stays known *)

Moves(q) ==
  q.at = "moving" /\ q.op \in RosterOps /\ Known(q.row) /\ q.row.team \in Teams
  /\ q.deadline \in DOMAIN Calendar
Declares(q) ==
  /\ q.at \in {"finding", "saving"} /\ q.team \in Teams
  /\ q.at = "saving" => q.txn \in {0} \cup DOMAIN txns /\ q.update \in {0} \cup DOMAIN updates
Runs(h) ==
  /\ h.at = "running" /\ handled < now
  /\ IsFiniteSet(h.rows) /\ \A c \in h.rows : Known(c)
  /\ h.txn \in {0} \cup DOMAIN txns /\ h.settles \subseteq DOMAIN updates

TxnType == [kind : {"drop", "move", "keeper", "start"}, contract : Nat \cup {Unset},
            deadline : DOMAIN Calendar]
UpdateType(n) ==
  [txn : 1 .. n, team : Teams, status : {"Pending", "Done"}, keeps : SUBSET Nat, drops : SUBSET Nat]
Books ==
  /\ txns \in Seq(TxnType)
  /\ updates \in Seq(UpdateType(Len(txns)))
  /\ \A t \in DOMAIN txns : txns[t].kind \in {"drop", "move"} => txns[t].contract \in DOMAIN table
Times == setting \in Settings /\ now \in DOMAIN Calendar /\ handled \in 1 .. now
Owners == DOMAIN resolutions \subseteq DOMAIN table /\ Range(resolutions) \subseteq Teams

Moving(r) == request[r].at = "moving"
Movers == {r \in Requests : Moving(r)}
FewMoves == moves \in Nat /\ moves + Cardinality(Movers) <= setting.moves + Cardinality(Requests)

Reads ==
  /\ handler = Idle \/ Runs(handler)
  /\ \A r \in Requests : request[r] = Idle \/ Moves(request[r]) \/ Declares(request[r])
  /\ DOMAIN request = Requests

Typed == Times /\ Numbered /\ Books /\ Owners /\ Reads

\* What every step does to the table.
Aged ==
  \A i \in DOMAIN table : /\ i \in DOMAIN table' /\ SameRow(table[i], table'[i])
                          /\ Live(table'[i]) => table'[i] = table[i]

LEMMA KnownStays ==
  ASSUME Aged, NEW c, Known(c)
  PROVE  Known(c)'
BY DEF Aged, Known, SameRow

LEMMA RowsAge ==
  ASSUME Numbered, NEW rows, NEW new, NEW n, NEW order, Rewrites(rows, new, n, order), Heirs(rows, new)
  PROVE  Aged /\ Numbered'
BY RowsStay, StillNumbered DEF Aged

LEMMA SameTable ==
  ASSUME UNCHANGED table
  PROVE  Aged /\ (Numbered => Numbered')
BY DEF Aged, Numbered, SameRow

LEMMA MoveRewrites ==
  ASSUME Numbered, NEW m, Moves(m), NEW new \in Storable(table, m.row, Moved(m.op, m.row, m.deadline)),
         table' = Replace(table, m.row, new)
  PROVE  /\ Rewrites({m.row}, [x \in {m.row} |-> new], 1, [j \in 1 .. 1 |-> m.row])
         /\ Heirs({m.row}, [x \in {m.row} |-> new])
         /\ Heir(m.row, new) /\ UniqueActive(table', NbaPlayers)
         /\ new \in Moved(m.op, m.row, m.deadline) /\ m.row \in Row /\ m.op \in RosterOps
<1>1. new \in Moved(m.op, m.row, m.deadline) /\ UniqueActive(table', NbaPlayers)
  BY DEF Storable
<1>2. Known(m.row) /\ m.row \in Row /\ m.op \in RosterOps
  BY DEF Moves, Known
<1>3. Heir(m.row, new)
  BY <1>1, <1>2, RowsOfMoves
<1>4. Rewrites({m.row}, [x \in {m.row} |-> new], 1, [j \in 1 .. 1 |-> m.row])
  BY OneIsRewritten
<1>5. Heirs({m.row}, [x \in {m.row} |-> new])
  BY <1>2, <1>3 DEF Heirs
<1> QED BY <1>1, <1>2, <1>3, <1>4, <1>5

LEMMA TradeRewrites ==
  ASSUME Numbered, NEW c \in Range(table), NEW team \in Teams, 
         NEW new \in Storable(table, c, Traded(c, team)), table' = Replace(table, c, new)
  PROVE  /\ Rewrites({c}, [x \in {c} |-> new], 1, [j \in 1 .. 1 |-> c])
         /\ Heirs({c}, [x \in {c} |-> new])
         /\ Heir(c, new) /\ UniqueActive(table', NbaPlayers)
         /\ new \in Traded(c, team) /\ c \in Row
<1>1. new \in Traded(c, team) /\ UniqueActive(table', NbaPlayers)
  BY DEF Storable
<1>2. Known(c) /\ c \in Row
  <2>1. PICK i \in DOMAIN table : c = table[i]
    BY DEF Range
  <2> QED BY <2>1 DEF Known, SameRow, Numbered
<1>3. Heir(c, new)
  BY <1>1, <1>2, RowsOfTrades
<1>4. Rewrites({c}, [x \in {c} |-> new], 1, [j \in 1 .. 1 |-> c])
  BY OneIsRewritten
<1>5. Heirs({c}, [x \in {c} |-> new])
  BY <1>2, <1>3 DEF Heirs
<1> QED BY <1>1, <1>2, <1>3, <1>4, <1>5

\* The rows that the keeper deadline drops.
DropIds == UNION {updates[u].drops : u \in handler.settles}
Leaving == {c \in handler.rows : c.id \in DropIds}

LEMMA AdvanceRewrites ==
  ASSUME Numbered, Runs(handler), NEW d, AdvanceRows(d)
  PROVE  \E order, new : /\ Rewrites(handler.rows, new, Cardinality(handler.rows), order)
                         /\ Heirs(handler.rows, new)
                         /\ \A c \in handler.rows : new[c] \in NextSeason(c) /\ YearAllowed(new[c])
                         /\ Cardinality(handler.rows) # 0 => UniqueActive(table', NbaPlayers)
<1> DEFINE next == [c \in handler.rows |-> NextSeason(c)]
<1>1. table' \in AllReplaced(next)
  BY DEF AdvanceRows
<1>2. DOMAIN next = handler.rows /\ \A c \in handler.rows : next[c] = NextSeason(c)
  OBVIOUS
<1>3. IsFiniteSet(handler.rows) /\ \A c \in handler.rows : Known(c) /\ c \in Row
  BY DEF Runs, Known
<1> HIDE DEF next
<1>4. PICK order, new : /\ Rewrites(handler.rows, new, Cardinality(handler.rows), order)
                        /\ \A c \in handler.rows : new[c] \in NextSeason(c) /\ YearAllowed(new[c])
                        /\ Cardinality(handler.rows) # 0 => UniqueActive(table', NbaPlayers)
  BY <1>1, <1>2, <1>3, ManyAreRewritten
<1>5. Heirs(handler.rows, new)
  BY <1>3, <1>4, RowsOfSeasons DEF Heirs
<1> QED BY <1>4, <1>5

LEMMA KeepersRewrite ==
  ASSUME Numbered, Runs(handler), table' \in AllReplaced([c \in Leaving |-> KeeperDrop(c)])
  PROVE  \E order, new : /\ Rewrites(Leaving, new, Cardinality(Leaving), order)
                         /\ Heirs(Leaving, new)
                         /\ \A c \in Leaving : ~Live(new[c]) /\ new[c].kind = "FreeAgent"
                         /\ Cardinality(Leaving) # 0 => UniqueActive(table', NbaPlayers)
<1> DEFINE next == [c \in Leaving |-> KeeperDrop(c)]
<1>2. DOMAIN next = Leaving /\ \A c \in Leaving : next[c] = Dropped(c, TRUE)
  BY DEF KeeperDrop
<1>3. IsFiniteSet(Leaving) /\ \A c \in Leaving : Known(c) /\ c \in Row
  BY FS_Subset DEF Runs, Known, Leaving
<1> HIDE DEF next
<1>4. PICK order, new : /\ Rewrites(Leaving, new, Cardinality(Leaving), order)
                        /\ \A c \in Leaving : new[c] \in Dropped(c, TRUE)
                        /\ Cardinality(Leaving) # 0 => UniqueActive(table', NbaPlayers)
  <2>1. table' \in AllReplaced(next)
    BY DEF next
  <2> QED BY <1>2, <1>3, <2>1, ManyAreRewritten
<1>5. Heirs(Leaving, new) /\ \A c \in Leaving : ~Live(new[c]) /\ new[c].kind = "FreeAgent"
  BY <1>3, <1>4, RowsOfDrops DEF Heirs
<1> QED BY <1>4, <1>5

\* Transactions and updates are added, and time passes.
Onward ==
  /\ Aged /\ Numbered'
  /\ DOMAIN txns \subseteq DOMAIN txns' /\ DOMAIN updates \subseteq DOMAIN updates'

LEMMA ReadsStay ==
  ASSUME Onward, NEW q
  PROVE  (Moves(q) => Moves(q)') /\ (Declares(q) => Declares(q)')
<1>1. Moves(q) => Moves(q)'
  BY KnownStays DEF Moves, Onward
<1>2. Declares(q) => Declares(q)'
  BY DEF Declares, Onward
<1> QED BY <1>1, <1>2

LEMMA RunStays ==
  ASSUME Onward, UNCHANGED handled, handled < now => handled' < now', NEW h, Runs(h)
  PROVE  Runs(h)'
<1>1. \A c \in h.rows : Known(c)'
  BY KnownStays DEF Runs, Onward
<1> QED BY <1>1 DEF Runs, Onward

LEMMA RequestsStay ==
  ASSUME Reads, Onward, UNCHANGED request
  PROVE  /\ \A r \in Requests : (request[r] = Idle \/ Moves(request[r]) \/ Declares(request[r]))'
         /\ DOMAIN request' = Requests
BY ReadsStay DEF Reads, Moves, Declares, Known

LEMMA OneRequestChanges ==
  ASSUME Reads, Onward, NEW r \in Requests, NEW q, request' = [request EXCEPT ![r] = q],
         q = Idle \/ Moves(q)' \/ Declares(q)'
  PROVE  /\ \A s \in Requests : (request[s] = Idle \/ Moves(request[s]) \/ Declares(request[s]))'
         /\ DOMAIN request' = Requests
<1>1. DOMAIN request' = Requests
  BY DEF Reads
<1>2. ASSUME NEW s \in Requests
      PROVE  (request[s] = Idle \/ Moves(request[s]) \/ Declares(request[s]))'
  <2>1. CASE s = r
    <3>1. request'[s] = q
      BY <2>1 DEF Reads
    <3> QED BY <3>1 DEF Moves, Declares, Known
  <2>2. CASE s # r
    <3>1. request'[s] = request[s]
      BY <2>2 DEF Reads
    <3> QED BY <3>1, ReadsStay DEF Reads, Moves, Declares, Known
  <2> QED BY <2>1, <2>2
<1> QED BY <1>1, <1>2

\* The books after a step that adds a transaction or none, and updates or none.
LEMMA UpdatesWiden ==
  ASSUME NEW m \in Nat, NEW n \in Nat, m <= n
  PROVE  Seq(UpdateType(m)) \subseteq Seq(UpdateType(n))
<1>1. UpdateType(m) \subseteq UpdateType(n)
  BY DEF UpdateType
<1> QED BY <1>1, SeqMonotonic

LEMMA BooksLengths ==
  ASSUME Books
  PROVE  /\ Len(txns) \in Nat /\ DOMAIN txns = 1 .. Len(txns)
         /\ Len(updates) \in Nat /\ DOMAIN updates = 1 .. Len(updates)
BY LenProperties DEF Books

LEMMA TxnAdded ==
  ASSUME Books, Aged, NEW t \in TxnType, txns' = Append(txns, t),
         t.kind \in {"drop", "move"} => t.contract \in DOMAIN table'
  PROVE  /\ txns' \in Seq(TxnType) /\ Len(txns') = Len(txns) + 1 /\ DOMAIN txns \subseteq DOMAIN txns'
         /\ \A i \in DOMAIN txns : txns'[i] = txns[i]
         /\ txns'[Len(txns) + 1] = t
         /\ DOMAIN txns' = 1 .. Len(txns) + 1
         /\ \A i \in DOMAIN txns' : txns'[i].kind \in {"drop", "move"} => txns'[i].contract \in DOMAIN table'
         /\ updates \in Seq(UpdateType(Len(txns')))
<1>1. /\ txns \in Seq(TxnType) /\ Len(txns) \in Nat /\ DOMAIN txns = 1 .. Len(txns)
  BY BooksLengths DEF Books
<1>2. /\ txns' \in Seq(TxnType) /\ Len(txns') = Len(txns) + 1
      /\ \A i \in 1 .. Len(txns) : txns'[i] = txns[i]
      /\ txns'[Len(txns) + 1] = t
  BY <1>1, AppendProperties
<1>3. DOMAIN txns' = 1 .. Len(txns) + 1 /\ DOMAIN txns \subseteq DOMAIN txns'
  BY <1>1, <1>2, LenProperties
<1>4. ASSUME NEW i \in DOMAIN txns', txns'[i].kind \in {"drop", "move"}
      PROVE  txns'[i].contract \in DOMAIN table'
  <2>1. CASE i \in DOMAIN txns
    BY <1>1, <1>2, <1>4, <2>1 DEF Books, Aged
  <2>2. CASE i \notin DOMAIN txns
    BY <1>1, <1>2, <1>3, <1>4, <2>2
  <2> QED BY <2>1, <2>2
<1>5. updates \in Seq(UpdateType(Len(txns')))
  BY <1>1, <1>2, UpdatesWiden DEF Books
<1> QED BY <1>1, <1>2, <1>3, <1>4, <1>5

LEMMA UpdateAdded ==
  ASSUME NEW n \in Nat, updates \in Seq(UpdateType(n)), NEW u \in UpdateType(n), updates' = Append(updates, u)
  PROVE  /\ updates' \in Seq(UpdateType(n)) /\ DOMAIN updates \subseteq DOMAIN updates'
         /\ Len(updates) \in Nat /\ DOMAIN updates = 1 .. Len(updates)
         /\ DOMAIN updates' = 1 .. Len(updates) + 1
         /\ \A i \in DOMAIN updates : updates'[i] = updates[i]
         /\ updates'[Len(updates) + 1] = u
<1>1. Len(updates) \in Nat /\ DOMAIN updates = 1 .. Len(updates)
  BY LenProperties
<1>2. updates' \in Seq(UpdateType(n)) /\ Len(updates') = Len(updates) + 1
      /\ \A i \in 1 .. Len(updates) : updates'[i] = updates[i]
      /\ updates'[Len(updates) + 1] = u
  BY AppendProperties
<1>3. DOMAIN updates' = 1 .. Len(updates) + 1
  BY <1>1, <1>2, LenProperties
<1> QED BY <1>1, <1>2, <1>3

LEMMA UpdatesDone ==
  ASSUME NEW n \in Nat, updates \in Seq(UpdateType(n)), NEW ids, updates' = SetDone(ids)
  PROVE  /\ updates' \in Seq(UpdateType(n)) /\ DOMAIN updates' = DOMAIN updates
         /\ \A i \in DOMAIN updates : /\ updates'[i].txn = updates[i].txn
                                      /\ updates'[i].team = updates[i].team
                                      /\ updates'[i].drops = updates[i].drops
                                      /\ updates'[i].status = IF i \in ids THEN "Done" ELSE updates[i].status
<1>1. Len(updates) \in Nat /\ DOMAIN updates = 1 .. Len(updates)
      /\ \A i \in DOMAIN updates : updates[i] \in UpdateType(n)
  BY LenProperties
<1>2. updates' = [u \in 1 .. Len(updates) |->
                    [updates[u] EXCEPT !.status = IF u \in ids THEN "Done" ELSE @]]
  BY <1>1 DEF SetDone
<1>3. ASSUME NEW i \in DOMAIN updates
      PROVE  /\ updates'[i] \in UpdateType(n)
             /\ updates'[i].txn = updates[i].txn /\ updates'[i].team = updates[i].team
             /\ updates'[i].drops = updates[i].drops
             /\ updates'[i].status = IF i \in ids THEN "Done" ELSE updates[i].status
  <2>1. updates'[i] = [updates[i] EXCEPT !.status = IF i \in ids THEN "Done" ELSE updates[i].status]
    BY <1>1, <1>2
  <2>2. updates[i] \in UpdateType(n)
    BY <1>1
  <2> DEFINE status == IF i \in ids THEN "Done" ELSE updates[i].status
  <2>3. status \in {"Pending", "Done"}
    BY <2>2 DEF UpdateType
  <2> HIDE DEF status
  <2> QED BY <2>1, <2>2, <2>3 DEF UpdateType, status
<1>4. updates' \in Seq(UpdateType(n))
  <2>1. updates' \in [1 .. Len(updates) -> UpdateType(n)]
    BY <1>1, <1>2, <1>3
  <2> QED BY <1>1, <2>1, SeqDef
<1> QED BY <1>1, <1>2, <1>3, <1>4

LEMMA OwnersStay ==
  ASSUME Owners, Aged, UNCHANGED resolutions
  PROVE  Owners'
BY DEF Owners, Aged

LEMMA BooksStay ==
  ASSUME Books, Aged, UNCHANGED <<txns, updates>>
  PROVE  Books' /\ DOMAIN txns \subseteq DOMAIN txns' /\ DOMAIN updates \subseteq DOMAIN updates'
BY DEF Books, Aged

\* What goes by without a word in the books.
LEMMA QuietlyTyped ==
  ASSUME Typed, UNCHANGED <<table, txns, updates, resolutions>>, Times',
         (handler = Idle \/ Runs(handler))',
         /\ \A r \in Requests : (request[r] = Idle \/ Moves(request[r]) \/ Declares(request[r]))'
         /\ DOMAIN request' = Requests
  PROVE  Typed'
<1>1. Aged /\ Numbered'
  BY SameTable DEF Typed
<1>2. Books' /\ Owners'
  BY <1>1, BooksStay, OwnersStay DEF Typed
<1> QED BY <1>1, <1>2 DEF Typed, Reads

LEMMA QuietlyOnward ==
  ASSUME Typed, UNCHANGED <<table, txns, updates>>
  PROVE  Onward
BY SameTable DEF Typed, Onward

LEMMA TimePassesTyped ==
  ASSUME Typed, TimePasses
  PROVE  Typed'
<1>1. Times' /\ now < now' /\ handled < now'
  <2>1. Calendar \in Seq([kind : DeadlineKinds, season : Nat]) /\ setting.last \in DOMAIN Calendar
    BY SeasonConstants DEF Typed, Times, Setting
  <2>2. Len(Calendar) \in Nat /\ DOMAIN Calendar = 1 .. Len(Calendar)
    BY <2>1, LenProperties
  <2> QED BY <2>1, <2>2 DEF TimePasses, Typed, Times
<1>2. Onward /\ Reads
  BY QuietlyOnward DEF TimePasses, Typed
<1>3. (handler = Idle \/ Runs(handler))'
  <2>1. handler = Idle \/ Runs(handler)
    BY <1>2 DEF Reads
  <2>2. CASE handler = Idle
    BY <2>2 DEF TimePasses, Idle
  <2>3. CASE Runs(handler)
    <3>1. handler' = handler /\ handled' = handled
      BY DEF TimePasses
    <3>2. \A c \in handler.rows : Known(c)'
      BY <1>2, <2>3, KnownStays DEF Runs, Onward
    <3> QED BY <1>1, <1>2, <2>3, <3>1, <3>2 DEF Runs, Onward, Known
  <2> QED BY <2>1, <2>2, <2>3
<1>4. /\ \A r \in Requests : (request[r] = Idle \/ Moves(request[r]) \/ Declares(request[r]))'
      /\ DOMAIN request' = Requests
  BY <1>2, RequestsStay DEF TimePasses
<1> QED BY <1>1, <1>3, <1>4, QuietlyTyped DEF TimePasses

LEMMA StartDeadlineTyped ==
  ASSUME Typed, StartDeadline
  PROVE  Typed'
<1>1. Onward /\ Reads /\ Numbered /\ Times'
  BY QuietlyOnward DEF StartDeadline, Typed, Times
<1>2. /\ \A r \in Requests : (request[r] = Idle \/ Moves(request[r]) \/ Declares(request[r]))'
      /\ DOMAIN request' = Requests
  BY <1>1, RequestsStay DEF StartDeadline
<1>3. Runs(handler)'
  <2>1. PICK t \in {0} \cup DOMAIN txns :
          handler' = [at |-> "running", rows |-> LiveRows(table), txn |-> t,
                      settles |-> {u \in DOMAIN updates :
                                   updates[u].txn = t /\ updates[u].status = "Pending"}]
    BY DEF StartDeadline, SomeOrNone
  <2>2. handler'.at = "running" /\ handler'.rows = LiveRows(table) /\ handler'.txn = t
        /\ handler'.settles \subseteq DOMAIN updates
    BY <2>1
  <2>3. IsFiniteSet(handler'.rows) /\ \A c \in handler'.rows : Known(c)
    BY <1>1, <2>2, LiveRowsAre
  <2>4. UNCHANGED <<table, txns, updates, now, handled>> /\ handled < now
    BY DEF StartDeadline
  <2> QED BY <2>2, <2>3, <2>4 DEF Runs, Known
<1> QED BY <1>1, <1>2, <1>3, QuietlyTyped DEF StartDeadline

LEMMA FailDeadlineTyped ==
  ASSUME Typed, FailDeadline
  PROVE  Typed'
<1>1. Onward /\ Reads /\ Times'
  BY QuietlyOnward DEF FailDeadline, Typed, Times
<1>2. /\ \A r \in Requests : (request[r] = Idle \/ Moves(request[r]) \/ Declares(request[r]))'
      /\ DOMAIN request' = Requests
  BY <1>1, RequestsStay DEF FailDeadline
<1>3. (handler = Idle)'
  BY DEF FailDeadline, Idle
<1> QED BY <1>1, <1>2, <1>3, QuietlyTyped DEF FailDeadline

\* A request that only reads.
LEMMA ReadingTyped ==
  ASSUME Typed, NEW r \in Requests, NEW q, request' = [request EXCEPT ![r] = q],
         UNCHANGED <<setting, table, txns, updates, resolutions, now, handled, handler>>,
         q = Idle \/ Moves(q) \/ Declares(q)
  PROVE  Typed'
<1>1. Onward /\ Reads /\ Times'
  BY QuietlyOnward DEF Typed, Times
<1>2. q = Idle \/ Moves(q)' \/ Declares(q)'
  BY <1>1, ReadsStay
<1>3. /\ \A s \in Requests : (request[s] = Idle \/ Moves(request[s]) \/ Declares(request[s]))'
      /\ DOMAIN request' = Requests
  BY <1>1, <1>2, OneRequestChanges
<1>4. (handler = Idle \/ Runs(handler))'
  BY <1>1 DEF Reads, Runs, Idle, Known
<1> QED BY <1>1, <1>3, <1>4, QuietlyTyped

LEMMA BeginMoveTyped ==
  ASSUME Typed, NEW r \in Requests, NEW op \in RosterOps, NEW c \in Range(table), BeginMove(r, op, c)
  PROVE  Typed'
<1> DEFINE q == [at |-> "moving", op |-> op, row |-> c, deadline |-> now]
<1>1. Moves(q)
  <2>1. Known(c)
    <3>1. PICK i \in DOMAIN table : c = table[i]
      BY DEF Range
    <3> QED BY <3>1 DEF Known, SameRow, Numbered, Typed
  <2> QED BY <2>1 DEF Moves, BeginMove, Typed, Times
<1> HIDE DEF q
<1>2. request' = [request EXCEPT ![r] = q]
  BY DEF BeginMove, q
<1> QED BY <1>1, <1>2, ReadingTyped DEF BeginMove

LEMMA RefuseMoveTyped ==
  ASSUME Typed, NEW r \in Requests, RefuseMove(r)
  PROVE  Typed'
BY ReadingTyped DEF RefuseMove

LEMMA DeclareKeepersTyped ==
  ASSUME Typed, NEW r \in Requests, NEW team \in Teams, NEW rows, DeclareKeepers(r, team, rows)
  PROVE  Typed'
<1> DEFINE q == [at |-> "finding", team |-> team, rows |-> rows, season |-> Calendar[now].season]
<1>1. Declares(q)
  BY DEF Declares
<1> HIDE DEF q
<1>2. request' = [request EXCEPT ![r] = q]
  BY DEF DeclareKeepers, q
<1> QED BY <1>1, <1>2, ReadingTyped DEF DeclareKeepers

LEMMA FindKeeperTxnTyped ==
  ASSUME Typed, NEW r \in Requests, FindKeeperTxn(r)
  PROVE  Typed'
<1>1. PICK t \in {0} \cup DOMAIN txns, u \in {0} \cup DOMAIN updates :
        request' = [request EXCEPT ![r] = [at |-> "saving", team |-> request[r].team,
                                           rows |-> request[r].rows,
                                           season |-> request[r].season, txn |-> t, update |-> u]]
  BY DEF FindKeeperTxn, SomeOrNone, KeeperTxns, UpdatesOf, Typed, Reads
<1> DEFINE q == [at |-> "saving", team |-> request[r].team, rows |-> request[r].rows,
                 season |-> request[r].season, txn |-> t, update |-> u]
<1>2. Declares(request[r])
  BY DEF FindKeeperTxn, Typed, Reads, Idle, Moves
<1>3. Declares(q)
  BY <1>2 DEF Declares
<1> HIDE DEF q
<1>4. request' = [request EXCEPT ![r] = q]
  BY <1>1 DEF q
<1> QED BY <1>3, <1>4, ReadingTyped DEF FindKeeperTxn

LEMMA HandlerStays ==
  ASSUME Typed, Onward, UNCHANGED <<now, handled, handler>>
  PROVE  (handler = Idle \/ Runs(handler))'
<1>1. CASE handler = Idle
  BY <1>1 DEF Idle
<1>2. CASE Runs(handler)
  <2>1. Runs(handler)'
    BY <1>2, KnownStays DEF Runs, Onward, Known
  <2> QED BY <2>1
<1> QED BY <1>1, <1>2 DEF Typed, Reads

\* The row that replaces another is the last of the table.
LEMMA LastRow ==
  ASSUME Numbered, NEW c, NEW new,
         Rewrites({c}, [x \in {c} |-> new], 1, [j \in 1 .. 1 |-> c]), Heirs({c}, [x \in {c} |-> new])
  PROVE  /\ Len(table) \in Nat /\ DOMAIN table = 1 .. Len(table) /\ DOMAIN table' = 1 .. Len(table) + 1
         /\ table'[Len(table) + 1] = [new EXCEPT !.id = Len(table) + 1]
         /\ \A i \in DOMAIN table : table'[i] = IF c.id = i THEN [table[i] EXCEPT !.status = "Replaced"]
                                                ELSE table[i]
<1> DEFINE heir == [x \in {c} |-> new]
           order == [j \in 1 .. 1 |-> c]
<1>1. heir[c] = new /\ order[1] = c
  OBVIOUS
<1>2. Rewrites({c}, heir, 1, order) /\ Heirs({c}, heir)
  OBVIOUS
<1> HIDE DEF heir, order
<1>3. Len(table) \in Nat /\ DOMAIN table = 1 .. Len(table)
  BY LenProperties DEF Numbered
<1>4. DOMAIN table' = 1 .. Len(table) + 1
  BY <1>2, <1>3, OldAndNew, LenProperties
<1>5. table'[Len(table) + 1] = [new EXCEPT !.id = Len(table) + 1]
  <2>1. \A j \in 1 .. 1 : table'[Len(table) + j] = [heir[order[j]] EXCEPT !.id = Len(table) + j]
    BY <1>2, OldAndNew
  <2> QED BY <1>1, <2>1
<1>6. \A i \in 1 .. Len(table) :
        table'[i] = IF \E x \in {c} : x.id = i THEN [table[i] EXCEPT !.status = "Replaced"] ELSE table[i]
  BY <1>2, OldAndNew
<1> QED BY <1>3, <1>4, <1>5, <1>6

\* What a committed move writes.
LEMMA CommitMoveWrites ==
  ASSUME Typed, NEW r \in Requests, CommitMove(r)
  PROVE  \E new : LET m == request[r] IN
           /\ Moves(m) /\ new \in Moved(m.op, m.row, m.deadline) /\ UniqueActive(table', NbaPlayers)
           /\ Rewrites({m.row}, [x \in {m.row} |-> new], 1, [j \in 1 .. 1 |-> m.row])
           /\ Heirs({m.row}, [x \in {m.row} |-> new])
           /\ txns' = Append(txns, MoveTxn(m.op, m.row, m.deadline))
           /\ updates' = Append(updates, Update(Len(txns) + 1, m.row.team,
                                                IF m.op = "drop" THEN "Done" ELSE "Pending"))
<1> DEFINE m == request[r]
<1>1. Moves(m)
  BY DEF CommitMove, Typed, Reads, Idle, Declares
<1>2. PICK new \in Storable(table, m.row, Moved(m.op, m.row, m.deadline)) :
        /\ table' = Replace(table, m.row, new)
        /\ txns' = Append(txns, MoveTxn(m.op, m.row, m.deadline))
        /\ updates' = Append(updates, Update(Len(txns) + 1, m.row.team,
                                             IF m.op = "drop" THEN "Done" ELSE "Pending"))
  BY DEF CommitMove
<1> HIDE DEF m
<1>3. /\ Rewrites({m.row}, [x \in {m.row} |-> new], 1, [j \in 1 .. 1 |-> m.row])
      /\ Heirs({m.row}, [x \in {m.row} |-> new])
      /\ new \in Moved(m.op, m.row, m.deadline) /\ UniqueActive(table', NbaPlayers)
  BY <1>1, <1>2, MoveRewrites DEF Typed
<1> QED BY <1>1, <1>2, <1>3 DEF m

LEMMA CommitMoveTyped ==
  ASSUME Typed, NEW r \in Requests, CommitMove(r)
  PROVE  Typed' /\ Onward
<1> DEFINE m == request[r]
<1>1. PICK new :
           /\ Moves(m) /\ new \in Moved(m.op, m.row, m.deadline)
           /\ Rewrites({m.row}, [x \in {m.row} |-> new], 1, [j \in 1 .. 1 |-> m.row])
           /\ Heirs({m.row}, [x \in {m.row} |-> new])
           /\ txns' = Append(txns, MoveTxn(m.op, m.row, m.deadline))
           /\ updates' = Append(updates, Update(Len(txns) + 1, m.row.team,
                                                IF m.op = "drop" THEN "Done" ELSE "Pending"))
  BY CommitMoveWrites
<1> HIDE DEF m
<1>2. Aged /\ Numbered' /\ Books /\ Owners /\ Reads
  <2> DEFINE rows == {m.row}
             heir == [x \in {m.row} |-> new]
             order == [j \in 1 .. 1 |-> m.row]
  <2>1. Numbered /\ Rewrites(rows, heir, 1, order) /\ Heirs(rows, heir)
    BY <1>1 DEF Typed
  <2> HIDE DEF rows, heir, order
  <2>2. Aged /\ Numbered'
    BY <2>1, RowsAge
  <2> QED BY <2>2 DEF Typed
<1>3. /\ Len(table) \in Nat /\ Len(table) + 1 \in DOMAIN table'
  <2> DEFINE c == m.row
  <2>1. Rewrites({c}, [x \in {c} |-> new], 1, [j \in 1 .. 1 |-> c]) /\ Heirs({c}, [x \in {c} |-> new])
        /\ Numbered
    BY <1>1 DEF Typed
  <2> HIDE DEF c
  <2>2. Len(table) \in Nat /\ DOMAIN table' = 1 .. Len(table) + 1
    BY <2>1, LastRow
  <2> QED BY <2>2
<1> DEFINE t == MoveTxn(m.op, m.row, m.deadline)
<1>4. t \in TxnType /\ t.contract \in DOMAIN table'
  <2>1. m.row.id \in DOMAIN table' /\ m.row.id \in Nat /\ m.deadline \in DOMAIN Calendar
    BY <1>1, <1>2 DEF Moves, Known, Aged, Row
  <2> QED BY <1>3, <2>1 DEF MoveTxn, Txn, TxnType
<1> HIDE DEF t
<1>5. /\ txns' \in Seq(TxnType) /\ Len(txns') = Len(txns) + 1 /\ DOMAIN txns \subseteq DOMAIN txns'
      /\ \A i \in DOMAIN txns' : txns'[i].kind \in {"drop", "move"} => txns'[i].contract \in DOMAIN table'
      /\ updates \in Seq(UpdateType(Len(txns')))
  BY <1>1, <1>2, <1>4, TxnAdded DEF t
<1> DEFINE u == Update(Len(txns) + 1, m.row.team, IF m.op = "drop" THEN "Done" ELSE "Pending")
<1>6. u \in UpdateType(Len(txns')) /\ Len(txns') \in Nat
  <2>1. Len(txns) \in Nat /\ Len(txns) + 1 \in 1 .. Len(txns')
    BY <1>2, <1>5, BooksLengths
  <2> QED BY <1>1, <1>5, <2>1 DEF Update, UpdateType, Moves
<1> HIDE DEF u
<1>7. updates' \in Seq(UpdateType(Len(txns'))) /\ DOMAIN updates \subseteq DOMAIN updates'
  <2>1. updates' = Append(updates, u)
    BY <1>1 DEF u
  <2> QED BY <1>5, <1>6, <2>1, UpdateAdded
<1>8. Onward /\ Books'
  BY <1>2, <1>5, <1>7 DEF Onward, Books
<1>9. UNCHANGED <<setting, resolutions, now, handled, handler>> /\ request' = [request EXCEPT ![r] = Idle]
  BY DEF CommitMove
<1>10. /\ \A s \in Requests : (request[s] = Idle \/ Moves(request[s]) \/ Declares(request[s]))'
       /\ DOMAIN request' = Requests
  BY <1>2, <1>8, <1>9, OneRequestChanges
<1>11. (handler = Idle \/ Runs(handler))' /\ Owners' /\ Times'
  BY <1>2, <1>8, <1>9, HandlerStays, OwnersStay DEF Typed, Times
<1> QED BY <1>2, <1>8, <1>10, <1>11 DEF Typed, Reads

LEMMA TradeAwayTyped ==
  ASSUME Typed, NEW c \in Range(table), NEW team \in Teams, TradeAway(c, team)
  PROVE  Typed' /\ Onward
<1>1. PICK new \in Storable(table, c, Traded(c, team)) : table' = Replace(table, c, new)
  BY DEF TradeAway
<1>2. Aged /\ Numbered' /\ Books /\ Owners /\ Reads
  BY <1>1, TradeRewrites, RowsAge DEF Typed
<1>3. UNCHANGED <<setting, txns, updates, resolutions, now, handled, handler, request>>
  BY DEF TradeAway
<1>4. Onward /\ Books' /\ Owners'
  BY <1>2, <1>3, BooksStay, OwnersStay DEF Onward
<1>5. /\ \A s \in Requests : (request[s] = Idle \/ Moves(request[s]) \/ Declares(request[s]))'
      /\ DOMAIN request' = Requests
  BY <1>2, <1>3, <1>4, RequestsStay
<1>6. (handler = Idle \/ Runs(handler))' /\ Times'
  BY <1>3, <1>4, HandlerStays DEF Typed, Times
<1> QED BY <1>2, <1>4, <1>5, <1>6 DEF Typed, Reads

\* What a declaration writes.
LEMMA SaveKeepersWrites ==
  ASSUME Typed, NEW r \in Requests, SaveKeepers(r)
  PROVE  \E keeps \in SUBSET Nat, drops \in SUBSET Nat : LET q == request[r] IN
           /\ Declares(q) /\ q.at = "saving"
           /\ keeps = {c.id : c \in Rostered(table, q.team) \cap q.rows}
           /\ drops = DeclaredDrops(Rostered(table, q.team), q.rows)
           /\ updates' = SavedUpdates(q, IF q.txn = 0 THEN Len(txns) + 1 ELSE q.txn, keeps, drops)
<1> DEFINE q == request[r]
           rows == Rostered(table, q.team)
           keeps == {c.id : c \in rows \cap q.rows}
           drops == DeclaredDrops(rows, q.rows)
<1>1. \A c \in rows : c.id \in Nat
  BY DEF Rostered, Typed, Numbered, Row
<1>2. keeps \in SUBSET Nat /\ drops \in SUBSET Nat
  BY <1>1 DEF DeclaredDrops
<1>3. Declares(q) /\ q.at = "saving"
  BY DEF SaveKeepers, Typed, Reads, Idle, Moves
<1>4. updates' = SavedUpdates(q, IF q.txn = 0 THEN Len(txns) + 1 ELSE q.txn, keeps, drops)
  BY DEF SaveKeepers
<1> QED BY <1>2, <1>3, <1>4

\* An update that changes what is kept and dropped.
LEMMA UpdateChanged ==
  ASSUME NEW n \in Nat, updates \in Seq(UpdateType(n)), NEW i \in DOMAIN updates,
         NEW keeps \in SUBSET Nat, NEW drops \in SUBSET Nat,
         updates' = [updates EXCEPT ![i].keeps = keeps, ![i].drops = drops]
  PROVE  /\ updates' \in Seq(UpdateType(n)) /\ DOMAIN updates' = DOMAIN updates
         /\ \A j \in DOMAIN updates :
              updates'[j] = IF j = i THEN [updates[i] EXCEPT !.keeps = keeps, !.drops = drops] ELSE updates[j]
<1>1. Len(updates) \in Nat /\ DOMAIN updates = 1 .. Len(updates)
      /\ updates \in [1 .. Len(updates) -> UpdateType(n)]
  BY LenProperties
<1> DEFINE new == [updates[i] EXCEPT !.keeps = keeps, !.drops = drops]
<1>2. updates' = [updates EXCEPT ![i] = new]
  BY <1>1
<1>3. new \in UpdateType(n)
  BY <1>1 DEF UpdateType
<1> HIDE DEF new
<1>4. updates' \in Seq(UpdateType(n))
  <2>1. i \in 1 .. Len(updates) /\ updates \in Seq(UpdateType(n))
    BY <1>1
  <2>2. [updates EXCEPT ![i] = new] \in Seq(UpdateType(n))
    BY <1>3, <2>1, ExceptSeq, Zenon
  <2> QED BY <1>2, <2>2, Zenon
<1>5. /\ DOMAIN updates' = DOMAIN updates
      /\ \A j \in DOMAIN updates : updates'[j] = IF j = i THEN new ELSE updates[j]
  BY <1>1, <1>2
<1> QED BY <1>4, <1>5 DEF new

LEMMA NewUpdateTyped ==
  ASSUME NEW n \in Nat, NEW txn \in 1 .. n, NEW team \in Teams, NEW keeps \in SUBSET Nat,
         NEW drops \in SUBSET Nat
  PROVE  [Update(txn, team, "Pending") EXCEPT !.keeps = keeps, !.drops = drops] \in UpdateType(n)
BY DEF Update, UpdateType

LEMMA SaveKeepersTyped ==
  ASSUME Typed, NEW r \in Requests, SaveKeepers(r)
  PROVE  Typed' /\ Onward
<1> DEFINE q == request[r]
           txn == IF q.txn = 0 THEN Len(txns) + 1 ELSE q.txn
<1>1. PICK keeps \in SUBSET Nat, drops \in SUBSET Nat :
        Declares(q) /\ q.at = "saving" /\ updates' = SavedUpdates(q, txn, keeps, drops)
  BY SaveKeepersWrites
<1>2. PICK d \in KeeperDeadlines(q.season) :
        txns' = IF q.txn = 0 THEN Append(txns, Txn("keeper", Unset, d)) ELSE txns
  BY DEF SaveKeepers
<1>3. UNCHANGED <<setting, table, resolutions, now, handled, handler>>
      /\ request' = [request EXCEPT ![r] = Idle]
  BY DEF SaveKeepers
<1>4. Aged /\ Numbered' /\ Books /\ Owners /\ Reads
  <2>1. Aged /\ Numbered'
    BY <1>3, SameTable DEF Typed
  <2> QED BY <2>1 DEF Typed
<1>5. /\ txns' \in Seq(TxnType) /\ DOMAIN txns \subseteq DOMAIN txns'
      /\ \A i \in DOMAIN txns' : txns'[i].kind \in {"drop", "move"} => txns'[i].contract \in DOMAIN table'
      /\ updates \in Seq(UpdateType(Len(txns'))) /\ txn \in 1 .. Len(txns') /\ Len(txns') \in Nat
  <2>1. CASE q.txn = 0
    <3> DEFINE t == Txn("keeper", Unset, d)
    <3>1. t \in TxnType /\ t.kind = "keeper"
      BY DEF Txn, TxnType, KeeperDeadlines
    <3>2. txns' = Append(txns, t)
      BY <1>2, <2>1
    <3> HIDE DEF t
    <3>3. /\ txns' \in Seq(TxnType) /\ DOMAIN txns \subseteq DOMAIN txns' /\ Len(txns') = Len(txns) + 1
          /\ \A i \in DOMAIN txns' : txns'[i].kind \in {"drop", "move"} => txns'[i].contract \in DOMAIN table'
          /\ updates \in Seq(UpdateType(Len(txns')))
      BY <1>4, <3>1, <3>2, TxnAdded
    <3> QED BY <1>4, <2>1, <3>3, BooksLengths
  <2>2. CASE q.txn # 0
    BY <1>1, <1>2, <1>3, <1>4, <2>2, BooksLengths DEF Books, Declares
  <2> QED BY <2>1, <2>2
<1> HIDE DEF txn
<1>6. updates' \in Seq(UpdateType(Len(txns'))) /\ DOMAIN updates \subseteq DOMAIN updates'
  <2>1. CASE q.update = 0
    <3> DEFINE u == [Update(txn, q.team, "Pending") EXCEPT !.keeps = keeps, !.drops = drops]
    <3>1. u \in UpdateType(Len(txns'))
      BY <1>1, <1>5, NewUpdateTyped DEF Declares
    <3>2. updates' = Append(updates, u)
      BY <1>1, <2>1 DEF SavedUpdates
    <3> HIDE DEF u, q
    <3> QED BY <1>5, <3>1, <3>2, UpdateAdded
  <2>2. CASE q.update # 0
    <3>1. q.update \in DOMAIN updates
      BY <1>1, <2>2 DEF Declares
    <3>2. updates' = [updates EXCEPT ![q.update].keeps = keeps, ![q.update].drops = drops]
      BY <1>1, <2>2 DEF SavedUpdates
    <3> HIDE DEF q
    <3> QED BY <1>5, <3>1, <3>2, UpdateChanged
  <2> QED BY <2>1, <2>2
<1>7. Onward /\ Books'
  BY <1>4, <1>5, <1>6 DEF Onward, Books
<1>8. /\ \A s \in Requests : (request[s] = Idle \/ Moves(request[s]) \/ Declares(request[s]))'
      /\ DOMAIN request' = Requests
  BY <1>3, <1>4, <1>7, OneRequestChanges
<1>9. (handler = Idle \/ Runs(handler))' /\ Owners' /\ Times'
  BY <1>3, <1>4, <1>7, HandlerStays, OwnersStay DEF Typed, Times
<1> QED BY <1>4, <1>7, <1>8, <1>9 DEF Typed, Reads

-----------------------------------------------------------------------------
(* A handler that ends *)

LEMMA NextDeadline ==
  ASSUME Typed, Runs(handler)
  PROVE  handled + 1 \in DOMAIN Calendar /\ handled \in Nat /\ now \in Nat
<1>1. Calendar \in Seq([kind : DeadlineKinds, season : Nat])
  BY SeasonConstants
<1>2. Len(Calendar) \in Nat /\ DOMAIN Calendar = 1 .. Len(Calendar)
  BY <1>1, LenProperties
<1> QED BY <1>2 DEF Typed, Times, Runs

LEMMA FinishTyped ==
  ASSUME Typed, Onward, UNCHANGED <<setting, now, request>>, handled' = handled + 1, handler' = Idle,
         Runs(handler), Books', Owners'
  PROVE  Typed'
<1>1. Times'
  BY NextDeadline DEF Typed, Times, Runs
<1>2. /\ \A r \in Requests : (request[r] = Idle \/ Moves(request[r]) \/ Declares(request[r]))'
      /\ DOMAIN request' = Requests
  BY RequestsStay DEF Typed
<1>3. (handler = Idle)'
  BY DEF Idle
<1> QED BY <1>1, <1>2, <1>3 DEF Typed, Reads, Onward

LEMMA Sequenced ==
  ASSUME NEW S, IsFiniteSet(S)
  PROVE  SetToSeq(S) \in Seq(S)
<1>1. PICK n \in Nat : ExistsBijection(1 .. n, S)
  BY FS_NatBijection
<1>2. Cardinality(S) = n
  BY <1>1, FS_CountingElements
<1>3. \E f \in [1 .. Cardinality(S) -> S] : IsInjective(f)
  <2>1. PICK f \in Bijection(1 .. n, S) : TRUE
    BY <1>1 DEF ExistsBijection
  <2>2. f \in [1 .. n -> S] /\ IsInjective(f)
    BY <2>1 DEF Bijection, Injection
  <2> QED BY <1>2, <2>2
<1>4. SetToSeq(S) \in [1 .. Cardinality(S) -> S]
  BY <1>3 DEF SetToSeq
<1> QED BY <1>2, <1>4, SeqDef

LEMMA AdvanceWrites ==
  ASSUME Typed, Runs(handler), NEW d \in DOMAIN Calendar, AdvanceRows(d), Aged
  PROVE  /\ Books' /\ DOMAIN txns \subseteq DOMAIN txns' /\ DOMAIN updates \subseteq DOMAIN updates'
         /\ txns' = Append(txns, Txn("start", Unset, d))
         /\ \A u \in DOMAIN updates : updates'[u] = updates[u]
         /\ \A u \in DOMAIN updates' :
              u \in DOMAIN updates \/ (updates'[u].txn = Len(txns) + 1 /\ updates'[u].drops = {})
<1> DEFINE S == {c.team : c \in {c \in handler.rows : c.kind # "FreeAgent"}}
           teams == SetToSeq(S)
           more == [i \in DOMAIN teams |-> Update(Len(txns) + 1, teams[i], "Done")]
           t == Txn("start", Unset, d)
<1>1. txns' = Append(txns, t) /\ updates' = updates \o more
  BY DEF AdvanceRows
<1>2. Books
  BY DEF Typed
<1>3. IsFiniteSet(S) /\ S \subseteq Teams
  <2>1. IsFiniteSet({c \in handler.rows : c.kind # "FreeAgent"})
    BY FS_Subset DEF Runs
  <2>2. IsFiniteSet(S)
    <3> DEFINE R == {c \in handler.rows : c.kind # "FreeAgent"}
               f == [c \in R |-> c.team]
    <3>1. f \in Surjection(R, S)
      BY DEF Surjection
    <3> HIDE DEF R, f, S
    <3>2. IsFiniteSet(R)
      BY <2>1 DEF R
    <3> QED BY <3>1, <3>2, FS_Surjection
  <2>3. \A c \in handler.rows : c.team \in Teams \cup {Unset}
    BY DEF Runs, Known, Row
  <2> QED BY <2>2, <2>3 DEF AdvanceRows
<1>4. teams \in Seq(Teams)
  <2>1. teams \in Seq(S)
    BY <1>3, Sequenced
  <2> QED BY <1>3, <2>1, SeqMonotonic
<1>5. t \in TxnType /\ t.kind \notin {"drop", "move"}
  BY DEF Txn, TxnType
<1> HIDE DEF t, teams, S
<1>6. /\ txns' \in Seq(TxnType) /\ Len(txns') = Len(txns) + 1 /\ DOMAIN txns \subseteq DOMAIN txns'
      /\ \A i \in DOMAIN txns' : txns'[i].kind \in {"drop", "move"} => txns'[i].contract \in DOMAIN table'
      /\ updates \in Seq(UpdateType(Len(txns')))
  BY <1>1, <1>2, <1>5, TxnAdded
<1>7. Len(txns) \in Nat /\ Len(txns') \in Nat /\ Len(txns) + 1 \in 1 .. Len(txns')
  BY <1>2, <1>6, BooksLengths
<1> DEFINE w == UpdateType(Len(txns'))
<1>8. more \in Seq(w) /\ \A i \in DOMAIN more : more[i].txn = Len(txns) + 1 /\ more[i].drops = {}
  <2>1. Len(teams) \in Nat /\ DOMAIN teams = 1 .. Len(teams) /\ \A i \in DOMAIN teams : teams[i] \in Teams
    BY <1>4, LenProperties
  <2>2. \A i \in DOMAIN teams : Update(Len(txns) + 1, teams[i], "Done") \in w
    BY <1>7, <2>1 DEF Update, UpdateType
  <2>3. more \in [1 .. Len(teams) -> w]
    <3> HIDE DEF w
    <3> QED BY <2>1, <2>2
  <2>4. \A i \in DOMAIN more : more[i].txn = Len(txns) + 1 /\ more[i].drops = {}
    BY DEF Update
  <2> HIDE DEF w, more
  <2> QED BY <2>1, <2>3, <2>4, SeqDef
<1> HIDE DEF w, more
<1>9. /\ updates' \in Seq(w) /\ Len(updates') = Len(updates) + Len(more)
      /\ \A i \in 1 .. Len(updates) + Len(more) :
           updates'[i] = IF i <= Len(updates) THEN updates[i] ELSE more[i - Len(updates)]
  <2>1. updates \in Seq(w)
    BY <1>6 DEF w
  <2> QED BY <1>1, <1>8, <2>1, ConcatProperties
<1>10. /\ Len(more) \in Nat /\ DOMAIN more = 1 .. Len(more)
       /\ Len(updates) \in Nat /\ DOMAIN updates = 1 .. Len(updates)
       /\ DOMAIN updates' = 1 .. Len(updates) + Len(more)
  <2>1. Len(more) \in Nat /\ DOMAIN more = 1 .. Len(more) /\ DOMAIN updates' = 1 .. Len(updates')
    BY <1>8, <1>9, LenProperties
  <2> QED BY <1>2, <1>9, <2>1, BooksLengths
<1>11. \A u \in DOMAIN updates : u \in DOMAIN updates' /\ updates'[u] = updates[u]
  BY <1>9, <1>10
<1>12. ASSUME NEW u \in DOMAIN updates', u \notin DOMAIN updates
       PROVE  updates'[u].txn = Len(txns) + 1 /\ updates'[u].drops = {}
  <2>1. u - Len(updates) \in 1 .. Len(more) /\ ~(u <= Len(updates)) /\ u \in 1 .. Len(updates) + Len(more)
    BY <1>10, <1>12
  <2>2. PICK j \in DOMAIN more : j = u - Len(updates)
    BY <1>10, <2>1
  <2>3. updates'[u] = more[j]
    BY <1>9, <2>1, <2>2
  <2> QED BY <1>8, <2>3
<1> QED BY <1>1, <1>6, <1>9, <1>11, <1>12 DEF Books, w, t

LEMMA KeepersWrite ==
  ASSUME Typed, Runs(handler), NEW d \in DOMAIN Calendar, ProcessKeepers(d)
  PROVE  /\ table' \in AllReplaced([c \in Leaving |-> KeeperDrop(c)])
         /\ resolutions' = WithNew(Seeded(table', Calendar[d].season))
         /\ updates' = SetDone(handler.settles) /\ txns' = txns
         /\ DropIds \subseteq {c.id : c \in handler.rows}
BY DEF ProcessKeepers, Leaving, DropIds

\* A row that gets a resolution has an owner, and had no resolution.
LEMMA SeededRows ==
  ASSUME Numbered', NEW season
  PROVE  /\ \A i \in DOMAIN Seeded(table', season) :
              /\ i \in DOMAIN table' /\ Seeded(table', season)[i] = table'[i].team /\ table'[i].team \in Teams
              /\ table'[i].kind = "RFA" /\ table'[i].season = season /\ Live(table'[i])
              /\ i \notin DOMAIN resolutions
         /\ \A c \in Designated(table', season) : c.id \in DOMAIN Seeded(table', season)
<1>1. table' \in Seq(Row) /\ \A i \in DOMAIN table' : table'[i].id = i
  BY DEF Numbered
<1>2. ASSUME NEW c \in Designated(table', season)
      PROVE  /\ c.id \in DOMAIN table' /\ table'[c.id] = c /\ c.team \in Teams
             /\ c.kind = "RFA" /\ c.season = season /\ Live(c) /\ c.id \notin DOMAIN resolutions
  <2>1. c \in LiveRows(table') /\ c.kind = "RFA" /\ c.season = season /\ c.team # Unset
        /\ SeasonChain(table', c) \cap DOMAIN resolutions = {}
    BY DEF Designated
  <2>2. c \in Row /\ Live(c) /\ c.id \in DOMAIN table' /\ table'[c.id] = c
    BY <1>1, <2>1, LiveRowsOf
  <2>3. c.id \in SeasonChain(table', c)
    <3>1. c \in ChainOf(table', c)
      BY <2>2 DEF ChainOf
    <3> QED BY <3>1 DEF SeasonChain
  <2> QED BY <2>1, <2>2, <2>3 DEF Row
<1>3. DOMAIN Seeded(table', season) = {c.id : c \in Designated(table', season)}
      /\ \A i \in DOMAIN Seeded(table', season) : Seeded(table', season)[i] = table'[i].team
  BY DEF Seeded
<1> QED BY <1>2, <1>3

LEMMA ProcessKeepersTyped ==
  ASSUME Typed, Runs(handler), NEW d \in DOMAIN Calendar, ProcessKeepers(d)
  PROVE  Onward /\ Books' /\ Owners'
<1>1. PICK order, new : Rewrites(Leaving, new, Cardinality(Leaving), order) /\ Heirs(Leaving, new)
  BY KeepersWrite, KeepersRewrite DEF Typed
<1>2. Aged /\ Numbered' /\ Books
  BY <1>1, RowsAge DEF Typed
<1>3. updates \in Seq(UpdateType(Len(txns))) /\ Len(txns) \in Nat
  BY <1>2, BooksLengths DEF Books
<1>4. updates' \in Seq(UpdateType(Len(txns))) /\ DOMAIN updates' = DOMAIN updates
  BY <1>3, KeepersWrite, UpdatesDone
<1>5. txns' = txns
  BY KeepersWrite
<1>6. Onward /\ Books'
  BY <1>2, <1>4, <1>5 DEF Onward, Books, Aged
<1>7. Owners'
  <2> DEFINE owners == Seeded(table', Calendar[d].season)
  <2>1. resolutions' = WithNew(owners)
    BY KeepersWrite
  <2>2. \A i \in DOMAIN owners : i \in DOMAIN table' /\ owners[i] \in Teams
    BY <1>2, SeededRows
  <2>3. \A i \in DOMAIN resolutions : i \in DOMAIN table' /\ resolutions[i] \in Teams
    BY <1>2 DEF Typed, Owners, Aged, Range
  <2> HIDE DEF owners
  <2> QED BY <2>1, <2>2, <2>3 DEF WithNew, Owners, Range
<1> QED BY <1>6, <1>7

LEMMA LockRostersTyped ==
  ASSUME Typed, NEW d \in DOMAIN Calendar, LockRosters(d)
  PROVE  Onward /\ Books' /\ Owners'
<1>1. Aged /\ Numbered' /\ Books
  BY SameTable DEF Typed, LockRosters
<1>2. updates \in Seq(UpdateType(Len(txns))) /\ Len(txns) \in Nat
  BY <1>1, BooksLengths DEF Books
<1>3. updates' \in Seq(UpdateType(Len(txns))) /\ DOMAIN updates' = DOMAIN updates
  BY <1>2, UpdatesDone DEF LockRosters
<1>4. Onward /\ Books'
  BY <1>1, <1>3 DEF Onward, Books, Aged, LockRosters
<1>5. Owners'
  BY <1>1, OwnersStay DEF Typed, LockRosters
<1> QED BY <1>4, <1>5

LEMMA AdvanceRowsTyped ==
  ASSUME Typed, Runs(handler), NEW d \in DOMAIN Calendar, AdvanceRows(d)
  PROVE  Onward /\ Books' /\ Owners'
<1>1. PICK order, new : /\ Rewrites(handler.rows, new, Cardinality(handler.rows), order)
                        /\ Heirs(handler.rows, new)
  BY AdvanceRewrites DEF Typed
<1>2. Aged /\ Numbered'
  BY <1>1, RowsAge DEF Typed
<1>3. Books' /\ DOMAIN txns \subseteq DOMAIN txns' /\ DOMAIN updates \subseteq DOMAIN updates'
  BY <1>2, AdvanceWrites
<1>4. Owners'
  BY <1>2, OwnersStay DEF Typed, AdvanceRows
<1> QED BY <1>2, <1>3, <1>4 DEF Onward

LEMMA FinishDeadlineTyped ==
  ASSUME Typed, FinishDeadline
  PROVE  Typed' /\ Onward
<1> DEFINE d == handled + 1
<1>1. Runs(handler) /\ handled' = handled + 1 /\ handler' = Idle /\ UNCHANGED <<setting, now, request>>
  BY DEF FinishDeadline, Typed, Reads, Idle
<1>2. d \in DOMAIN Calendar /\ Handle(d)
  BY <1>1, NextDeadline DEF FinishDeadline
<1> HIDE DEF d
<1>3. Onward /\ Books' /\ Owners'
  <2>1. CASE Calendar[d].kind = "PreseasonStart"
    BY <1>1, <1>2, <2>1, AdvanceRowsTyped DEF Handle, RosterLockKinds
  <2>2. CASE Calendar[d].kind = "PreseasonKeeper"
    <3>1. ProcessKeepers(d)
      BY <1>2, <2>2 DEF Handle, RosterLockKinds
    <3> QED BY <1>1, <1>2, <3>1, ProcessKeepersTyped
  <2>3. CASE Calendar[d].kind \in RosterLockKinds
    <3>1. LockRosters(d)
      BY <1>2, <2>3 DEF Handle, RosterLockKinds
    <3> QED BY <1>2, <3>1, LockRostersTyped
  <2>4. CASE Calendar[d].kind \notin {"PreseasonStart", "PreseasonKeeper"} \cup RosterLockKinds
    <3>1. UNCHANGED <<table, txns, updates, resolutions>>
      BY <1>2, <2>4 DEF Handle
    <3>2. Onward /\ Aged /\ Books /\ Owners
      BY <3>1, QuietlyOnward DEF Onward, Typed
    <3> QED BY <3>1, <3>2, BooksStay, OwnersStay
  <2> QED BY <2>1, <2>2, <2>3, <2>4
<1> QED BY <1>1, <1>3, FinishTyped

LEMMA StutterTyped ==
  ASSUME Typed, UNCHANGED vars
  PROVE  Typed'
<1>1. Onward /\ Reads /\ Times'
  BY QuietlyOnward DEF vars, Typed, Times
<1>2. /\ \A r \in Requests : (request[r] = Idle \/ Moves(request[r]) \/ Declares(request[r]))'
      /\ DOMAIN request' = Requests
  BY <1>1, RequestsStay DEF vars
<1>3. (handler = Idle \/ Runs(handler))'
  BY <1>1, HandlerStays DEF vars
<1> QED BY <1>1, <1>2, <1>3, QuietlyTyped DEF vars

LEMMA StepTyped ==
  ASSUME Typed, [Next]_vars
  PROVE  Typed'
<1>1. CASE TimePasses
  BY <1>1, TimePassesTyped
<1>2. CASE StartDeadline
  BY <1>2, StartDeadlineTyped
<1>3. CASE FinishDeadline
  BY <1>3, FinishDeadlineTyped
<1>4. CASE FailDeadline
  BY <1>4, FailDeadlineTyped
<1>5. CASE \E c \in Range(table), team \in Teams : TradeAway(c, team)
  BY <1>5, TradeAwayTyped
<1>6. CASE \E c \in Range(table), r \in Requests, op \in RosterOps : BeginMove(r, op, c)
  BY <1>6, BeginMoveTyped
<1>7. CASE \E r \in Requests : CommitMove(r)
  BY <1>7, CommitMoveTyped
<1>8. CASE \E r \in Requests : RefuseMove(r)
  BY <1>8, RefuseMoveTyped
<1>9. CASE \E r \in Requests, team \in Teams : \E rows : DeclareKeepers(r, team, rows)
  BY <1>9, DeclareKeepersTyped
<1>10. CASE \E r \in Requests : FindKeeperTxn(r)
  BY <1>10, FindKeeperTxnTyped
<1>11. CASE \E r \in Requests : SaveKeepers(r)
  BY <1>11, SaveKeepersTyped
<1>12. CASE UNCHANGED vars
  BY <1>12, StutterTyped
<1> QED BY <1>1, <1>2, <1>3, <1>4, <1>5, <1>6, <1>7, <1>8, <1>9, <1>10, <1>11, <1>12 DEF Next

\* Every step leaves the rows there are as they are, but for their status.
LEMMA StepAges ==
  ASSUME Typed, [Next]_vars
  PROVE  Aged
<1>1. CASE UNCHANGED table
  BY <1>1, SameTable
<1>2. CASE FinishDeadline
  BY <1>2, FinishDeadlineTyped DEF Onward
<1>3. CASE \E c \in Range(table), team \in Teams : TradeAway(c, team)
  BY <1>3, TradeAwayTyped DEF Onward
<1>4. CASE \E r \in Requests : CommitMove(r)
  BY <1>4, CommitMoveTyped DEF Onward
<1> QED BY <1>1, <1>2, <1>3, <1>4 DEF Next, vars, TimePasses, StartDeadline, FailDeadline, BeginMove,
             RefuseMove, DeclareKeepers, FindKeeperTxn, SaveKeepers

-----------------------------------------------------------------------------
(* TypeOK *)

LEMMA InitTyped ==
  ASSUME Init
  PROVE  Typed
<1>1. setting \in Settings /\ setting \in Setting /\ Orderly(setting.rows)
  BY SeasonConstants DEF Init
<1>2. Numbered
  BY <1>1 DEF Init, Numbered, Orderly, Setting
<1>3. now \in DOMAIN Calendar /\ handled \in 1 .. now
  <2>1. now \in DOMAIN Calendar /\ handled = now /\ Calendar \in Seq([kind : DeadlineKinds, season : Nat])
    BY <1>1, SeasonConstants DEF Init, Setting
  <2>2. DOMAIN Calendar = 1 .. Len(Calendar) /\ Len(Calendar) \in Nat
    BY <2>1, LenProperties
  <2> QED BY <2>1, <2>2
<1>4. Books
  <2>1. txns = <<>> /\ updates = <<>>
    BY DEF Init
  <2> QED BY <2>1 DEF Books
<1>5. Owners
  BY DEF Init, Owners, Range
<1>6. Reads
  BY DEF Init, Reads
<1> QED BY <1>1, <1>2, <1>3, <1>4, <1>5, <1>6 DEF Typed, Times

LEMMA MoversFinite ==
  /\ IsFiniteSet(Movers) /\ Cardinality(Movers) \in Nat /\ Cardinality(Requests) \in Nat
  /\ Cardinality(Movers) <= Cardinality(Requests)
  /\ IsFiniteSet(Movers') /\ Cardinality(Movers') \in Nat /\ Cardinality(Movers') <= Cardinality(Requests)
<1>1. IsFiniteSet(Requests) /\ Movers \subseteq Requests /\ Movers' \subseteq Requests
  BY SeasonConstants DEF Movers
<1> QED BY <1>1, FS_Subset, FS_CardinalityType

LEMMA NoMoreMovers ==
  ASSUME Typed, FewMoves, moves' = moves, setting' = setting, Movers' \subseteq Movers
  PROVE  FewMoves'
<1>1. Cardinality(Movers') <= Cardinality(Movers)
  BY MoversFinite, FS_Subset
<1>2. setting.moves \in Nat /\ moves \in Nat
  BY SeasonConstants DEF Typed, Times, Setting, FewMoves
<1> QED BY <1>1, <1>2, MoversFinite DEF FewMoves

LEMMA OneMore ==
  ASSUME Typed, FewMoves, moves < setting.moves, setting' = setting, moves' \in {moves, moves + 1}
  PROVE  FewMoves'
<1>1. setting.moves \in Nat /\ moves \in Nat
  BY SeasonConstants DEF Typed, Times, Setting, FewMoves
<1> QED BY <1>1, MoversFinite DEF FewMoves

LEMMA RequestMoves ==
  ASSUME Typed, NEW r \in Requests, NEW q, request' = [request EXCEPT ![r] = q], q.at # "moving"
  PROVE  Movers' = Movers \ {r}
<1>1. \A s \in Requests : request'[s] = IF s = r THEN q ELSE request[s]
  BY DEF Typed, Reads
<1> QED BY <1>1 DEF Movers, Moving

LEMMA StepFewMoves ==
  ASSUME Typed, FewMoves, [Next]_vars
  PROVE  FewMoves'
<1>1. CASE TimePasses \/ StartDeadline \/ FinishDeadline \/ FailDeadline \/ UNCHANGED vars
  <2>1. UNCHANGED <<moves, setting, request>>
    BY <1>1 DEF TimePasses, StartDeadline, FinishDeadline, FailDeadline, vars
  <2> QED BY <2>1, NoMoreMovers DEF Movers, Moving
<1>2. CASE \E c \in Range(table), team \in Teams : TradeAway(c, team)
  BY <1>2, OneMore DEF TradeAway
<1>3. CASE \E c \in Range(table), r \in Requests, op \in RosterOps : BeginMove(r, op, c)
  BY <1>3, OneMore DEF BeginMove
<1>4. ASSUME NEW r \in Requests, CommitMove(r)
      PROVE  FewMoves'
  <2>1. Movers' = Movers \ {r}
    <3>1. request' = [request EXCEPT ![r] = Idle] /\ Idle.at # "moving"
      BY <1>4 DEF CommitMove, Idle
    <3> QED BY <3>1, RequestMoves
  <2>0. r \in Movers
    BY <1>4 DEF CommitMove, Movers, Moving
  <2>2. Cardinality(Movers') = Cardinality(Movers) - 1
    BY <2>0, <2>1, MoversFinite, FS_RemoveElement
  <2>3. setting.moves \in Nat /\ moves \in Nat
    BY SeasonConstants DEF Typed, Times, Setting, FewMoves
  <2> QED BY <1>4, <2>2, <2>3, MoversFinite DEF FewMoves, CommitMove
<1>5. ASSUME NEW r \in Requests, RefuseMove(r) \/ SaveKeepers(r)
      PROVE  FewMoves'
  <2>1. request' = [request EXCEPT ![r] = Idle] /\ UNCHANGED <<moves, setting>>
    BY <1>5 DEF RefuseMove, SaveKeepers
  <2>2. Movers' = Movers \ {r}
    <3>1. Idle.at # "moving"
      BY DEF Idle
    <3> QED BY <2>1, <3>1, RequestMoves
  <2> QED BY <2>1, <2>2, NoMoreMovers
<1>6. ASSUME NEW r \in Requests, NEW team \in Teams, NEW rows, DeclareKeepers(r, team, rows)
      PROVE  FewMoves'
  <2> DEFINE q == [at |-> "finding", team |-> team, rows |-> rows, season |-> Calendar[now].season]
  <2>1. request' = [request EXCEPT ![r] = q] /\ UNCHANGED <<moves, setting>> /\ q.at # "moving"
    BY <1>6 DEF DeclareKeepers
  <2> HIDE DEF q
  <2>2. Movers' = Movers \ {r}
    BY <2>1, RequestMoves
  <2> QED BY <2>1, <2>2, NoMoreMovers
<1>7. ASSUME NEW r \in Requests, FindKeeperTxn(r)
      PROVE  FewMoves'
  <2>1. PICK t, u :
          request' = [request EXCEPT ![r] = [at |-> "saving", team |-> request[r].team,
                                             rows |-> request[r].rows,
                                             season |-> request[r].season, txn |-> t, update |-> u]]
    BY <1>7 DEF FindKeeperTxn, Typed, Reads
  <2> DEFINE q == [at |-> "saving", team |-> request[r].team, rows |-> request[r].rows,
                   season |-> request[r].season, txn |-> t, update |-> u]
  <2>2. request' = [request EXCEPT ![r] = q] /\ q.at # "moving"
    BY <2>1
  <2>3. UNCHANGED <<moves, setting>>
    BY <1>7 DEF FindKeeperTxn
  <2> HIDE DEF q
  <2>4. Movers' = Movers \ {r}
    BY <2>2, RequestMoves
  <2> QED BY <2>3, <2>4, NoMoreMovers
<1> QED BY <1>1, <1>2, <1>3, <1>4, <1>5, <1>6, <1>7 DEF Next

LEMMA InitFewMoves ==
  ASSUME Init
  PROVE  FewMoves
<1>1. setting.moves \in Nat
  BY SeasonConstants DEF Init, Setting
<1> QED BY <1>1, MoversFinite DEF Init, FewMoves

LEMMA TypedIsTypeOK ==
  ASSUME Typed, FewMoves
  PROVE  TypeOK
<1>1. /\ setting \in Settings
      /\ table \in Seq(Row) /\ \A i \in DOMAIN table : table[i].id = i
      /\ DOMAIN resolutions \subseteq DOMAIN table /\ Range(resolutions) \subseteq Teams
      /\ handled \in 1 .. now /\ now \in DOMAIN Calendar
  BY DEF Typed, Times, Numbered, Owners
<1>2. txns \in Seq([kind : {"drop", "move", "keeper", "start"}, contract : Nat \cup {Unset},
                    deadline : DOMAIN Calendar])
  BY DEF Typed, Books, TxnType
<1>3. updates \in Seq([txn : DOMAIN txns, team : Teams, status : {"Pending", "Done"},
                       keeps : SUBSET Nat, drops : SUBSET Nat])
  BY BooksLengths DEF Typed, Books, UpdateType
<1>4. moves \in 0 .. setting.moves + Cardinality(Requests)
  <2>1. setting.moves \in Nat
    BY SeasonConstants DEF Typed, Times, Setting
  <2> QED BY <2>1, MoversFinite DEF FewMoves
<1>5. /\ handler.at \in {"idle", "running"}
      /\ \A r \in Requests : request[r].at \in {"idle", "moving", "finding", "saving"}
  BY DEF Typed, Reads, Idle, Runs, Moves, Declares
<1> QED BY <1>1, <1>2, <1>3, <1>4, <1>5 DEF TypeOK

\* Rows, transactions, team updates and resolutions are those of the schema in every league: rows
\* are numbered, every update is of a transaction, every resolution of a row.
THEOREM SeasonTyped == Spec => []TypeOK
<1>1. Init => Typed /\ FewMoves
  BY InitTyped, InitFewMoves
<1>2. Typed /\ FewMoves /\ [Next]_vars => (Typed /\ FewMoves)'
  BY StepTyped, StepFewMoves
<1>3. Typed /\ FewMoves => TypeOK
  BY TypedIsTypeOK
<1> QED BY <1>1, <1>2, <1>3, PTL DEF Spec

-----------------------------------------------------------------------------
(* One after the other: who is at work, and that what he has read is current *)

Still == handler = Idle /\ \A r \in Requests : request[r] = Idle
OneAtATime ==
  /\ handler # Idle => \A r \in Requests : request[r] = Idle
  /\ \A r, s \in Requests : request[r] # Idle /\ request[s] # Idle => r = s
Fresh ==
  /\ \A r \in Requests : Moving(r) => request[r].row \in LiveRows(table)
  /\ handler # Idle => handler.rows = LiveRows(table)
Turns == InTurn => Lone /\ OneAtATime /\ Fresh

LEMMA StillTurns ==
  ASSUME Still', Lone'
  PROVE  Turns'
BY DEF Still, Turns, OneAtATime, Fresh, Moving, Idle

LEMMA SoleRequest ==
  ASSUME Typed, InTurn, Turns, NEW r \in Requests, request[r] # Idle
  PROVE  handler = Idle /\ \A s \in Requests : s # r => request[s] = Idle
BY DEF Turns, OneAtATime

\* A request that goes on reading, or is done, while the table stays.
LEMMA ReadingTurns ==
  ASSUME Typed, Turns, NEW r \in Requests, NEW q, request' = [request EXCEPT ![r] = q],
         UNCHANGED <<setting, table, handler>>,
         request[r] # Idle \/ (InTurn => Still),
         InTurn /\ q.at = "moving" => q.row \in LiveRows(table)
  PROVE  Turns'
<1> SUFFICES ASSUME InTurn
             PROVE  (Lone /\ OneAtATime /\ Fresh)'
  BY DEF Turns, InTurn
<1>1. handler = Idle /\ \A s \in Requests : s # r => request[s] = Idle
  BY SoleRequest DEF Still
<1>2. \A s \in Requests : request'[s] = IF s = r THEN q ELSE request[s]
  BY DEF Typed, Reads
<1>3. Lone'
  BY DEF Turns, Lone
<1>4. OneAtATime'
  BY <1>1, <1>2 DEF OneAtATime, Idle
<1>5. Fresh'
  BY <1>1, <1>2 DEF Fresh, Moving, Idle
<1> QED BY <1>3, <1>4, <1>5

LEMMA StillLoneAfterOne ==
  ASSUME Numbered, Lone, NEW c \in LiveRows(table), NEW new,
         Rewrites({c}, [x \in {c} |-> new], 1, [j \in 1 .. 1 |-> c]), Heirs({c}, [x \in {c} |-> new])
  PROVE  Lone'
<1> DEFINE rows == {c}
           heir == [x \in {c} |-> new]
           order == [j \in 1 .. 1 |-> c]
<1>1. Rewrites(rows, heir, 1, order) /\ Heirs(rows, heir) /\ rows \subseteq LiveRows(table)
  OBVIOUS
<1> HIDE DEF rows, heir, order
<1> QED BY <1>1, StillLone

LEMMA CommitMoveTurns ==
  ASSUME Typed, Turns, NEW r \in Requests, CommitMove(r)
  PROVE  Turns'
<1> SUFFICES ASSUME InTurn
             PROVE  Turns'
  BY DEF Turns, InTurn, CommitMove
<1> DEFINE c == request[r].row
<1>1. PICK new : /\ Rewrites({c}, [x \in {c} |-> new], 1, [j \in 1 .. 1 |-> c])
                 /\ Heirs({c}, [x \in {c} |-> new])
  BY CommitMoveWrites
<1>2. request[r].at = "moving" /\ request[r] # Idle
  BY DEF CommitMove, Idle
<1>3. c \in LiveRows(table) /\ Lone /\ Numbered
  BY <1>2 DEF Turns, Fresh, Moving, Typed
<1> HIDE DEF c
<1>4. Lone'
  BY <1>1, <1>3, StillLoneAfterOne
<1>5. Still'
  <2>1. handler' = handler /\ request' = [request EXCEPT ![r] = Idle]
    BY DEF CommitMove
  <2>2. handler = Idle /\ \A s \in Requests : s # r => request[s] = Idle
    BY <1>2, SoleRequest
  <2> QED BY <2>1, <2>2 DEF Still, Typed, Reads, Idle
<1> QED BY <1>4, <1>5, StillTurns

LEMMA TradeAwayTurns ==
  ASSUME Typed, Turns, NEW c \in Range(table), NEW team \in Teams, TradeAway(c, team)
  PROVE  Turns'
<1> SUFFICES ASSUME InTurn
             PROVE  Turns'
  BY DEF Turns, InTurn, TradeAway
<1>1. PICK new : /\ Rewrites({c}, [x \in {c} |-> new], 1, [j \in 1 .. 1 |-> c])
                 /\ Heirs({c}, [x \in {c} |-> new])
  <2>1. PICK new \in Storable(table, c, Traded(c, team)) : table' = Replace(table, c, new)
    BY DEF TradeAway
  <2> QED BY <2>1, TradeRewrites DEF Typed
<1>2. c \in LiveRows(table) /\ Lone /\ Numbered
  BY DEF Turns, Typed, TradeAway, LiveRows
<1>3. Lone'
  BY <1>1, <1>2, StillLoneAfterOne
<1>4. Still'
  BY DEF TradeAway, MayStart, InTurn, Still, Idle
<1> QED BY <1>3, <1>4, StillTurns

LEMMA FinishDeadlineTurns ==
  ASSUME Typed, Turns, FinishDeadline
  PROVE  Turns'
<1> SUFFICES ASSUME InTurn
             PROVE  Turns'
  BY DEF Turns, InTurn, FinishDeadline
<1> DEFINE d == handled + 1
<1>1. Runs(handler) /\ handler # Idle /\ handler' = Idle /\ UNCHANGED request
  BY DEF FinishDeadline, Typed, Reads, Idle
<1>2. Handle(d)
  BY DEF FinishDeadline
<1>3. handler.rows = LiveRows(table) /\ Lone /\ Numbered /\ Still'
  BY <1>1 DEF Turns, Fresh, OneAtATime, Typed, Still, Idle
<1> HIDE DEF d
<1>4. Lone'
  <2>1. CASE Calendar[d].kind = "PreseasonStart"
    <3>1. AdvanceRows(d)
      BY <1>2, <2>1 DEF Handle, RosterLockKinds
    <3>2. PICK order, new : /\ Rewrites(handler.rows, new, Cardinality(handler.rows), order)
                            /\ Heirs(handler.rows, new)
      BY <1>1, <1>3, <3>1, AdvanceRewrites
    <3> QED BY <1>3, <3>2, StillLone
  <2>2. CASE Calendar[d].kind = "PreseasonKeeper"
    <3>1. table' \in AllReplaced([c \in Leaving |-> KeeperDrop(c)])
      BY <1>2, <2>2 DEF Handle, RosterLockKinds, ProcessKeepers, Leaving, DropIds
    <3>2. PICK order, new : Rewrites(Leaving, new, Cardinality(Leaving), order) /\ Heirs(Leaving, new)
      BY <1>1, <1>3, <3>1, KeepersRewrite
    <3> QED BY <1>3, <3>2, StillLone DEF Leaving
  <2>3. CASE Calendar[d].kind \notin {"PreseasonStart", "PreseasonKeeper"}
    <3>1. UNCHANGED table
      BY <1>2, <2>3 DEF Handle, LockRosters
    <3> QED BY <1>3, <3>1 DEF Lone
  <2> QED BY <2>1, <2>2, <2>3
<1> QED BY <1>3, <1>4, StillTurns

LEMMA StepTurns ==
  ASSUME Typed, Turns, [Next]_vars
  PROVE  Turns'
<1>1. CASE TimePasses \/ UNCHANGED vars
  BY <1>1 DEF TimePasses, vars, Turns, InTurn, Lone, OneAtATime, Fresh, Moving, Idle
<1>2. CASE StartDeadline
  <2> SUFFICES ASSUME InTurn
               PROVE  (Lone /\ OneAtATime /\ Fresh)'
    BY <1>2 DEF Turns, InTurn, StartDeadline
  <2>1. Still /\ handler'.rows = LiveRows(table) /\ UNCHANGED <<table, request>> /\ Lone
    BY <1>2 DEF StartDeadline, MayStart, InTurn, Still, Turns
  <2> QED BY <2>1 DEF Still, Lone, OneAtATime, Fresh, Moving, Idle
<1>3. CASE FinishDeadline
  BY <1>3, FinishDeadlineTurns
<1>4. CASE FailDeadline
  <2> SUFFICES ASSUME InTurn
               PROVE  Turns'
    BY <1>4 DEF Turns, InTurn, FailDeadline
  <2>1. Still' /\ Lone'
    BY <1>4 DEF FailDeadline, Turns, OneAtATime, Still, Idle, Lone
  <2> QED BY <2>1, StillTurns
<1>5. CASE \E c \in Range(table), team \in Teams : TradeAway(c, team)
  BY <1>5, TradeAwayTurns
<1>6. ASSUME NEW c \in Range(table), NEW r \in Requests, NEW op \in RosterOps, BeginMove(r, op, c)
      PROVE  Turns'
  <2> DEFINE q == [at |-> "moving", op |-> op, row |-> c, deadline |-> now]
  <2>1. request' = [request EXCEPT ![r] = q] /\ UNCHANGED <<setting, table, handler>> /\ q.row = c
    BY <1>6 DEF BeginMove
  <2>2. InTurn => Still /\ c \in LiveRows(table)
    BY <1>6 DEF BeginMove, MayStart, MayName, InTurn, Still, LiveRows
  <2> HIDE DEF q
  <2> QED BY <2>1, <2>2, ReadingTurns
<1>7. CASE \E r \in Requests : CommitMove(r)
  BY <1>7, CommitMoveTurns
<1>8. ASSUME NEW r \in Requests, RefuseMove(r) \/ SaveKeepers(r)
      PROVE  Turns'
  <2>1. request' = [request EXCEPT ![r] = Idle] /\ UNCHANGED <<setting, table, handler>> /\ request[r] # Idle
    BY <1>8 DEF RefuseMove, SaveKeepers, Idle
  <2>2. Idle.at # "moving"
    BY DEF Idle
  <2> QED BY <2>1, <2>2, ReadingTurns
<1>9. ASSUME NEW r \in Requests, NEW team \in Teams, NEW rows, DeclareKeepers(r, team, rows)
      PROVE  Turns'
  <2> DEFINE q == [at |-> "finding", team |-> team, rows |-> rows, season |-> Calendar[now].season]
  <2>1. /\ request' = [request EXCEPT ![r] = q] /\ UNCHANGED <<setting, table, handler>> /\ q.at # "moving"
        /\ InTurn => Still
    BY <1>9 DEF DeclareKeepers, MayStart, InTurn, Still
  <2> HIDE DEF q
  <2> QED BY <2>1, ReadingTurns
<1>10. ASSUME NEW r \in Requests, FindKeeperTxn(r)
       PROVE  Turns'
  <2>1. PICK t, u :
          request' = [request EXCEPT ![r] = [at |-> "saving", team |-> request[r].team,
                                             rows |-> request[r].rows,
                                             season |-> request[r].season, txn |-> t, update |-> u]]
    BY <1>10 DEF FindKeeperTxn, Typed, Reads
  <2> DEFINE q == [at |-> "saving", team |-> request[r].team, rows |-> request[r].rows,
                   season |-> request[r].season, txn |-> t, update |-> u]
  <2>2. request' = [request EXCEPT ![r] = q] /\ q.at # "moving"
    BY <2>1
  <2>3. UNCHANGED <<setting, table, handler>> /\ request[r] # Idle
    BY <1>10 DEF FindKeeperTxn, Idle
  <2> HIDE DEF q
  <2> QED BY <2>2, <2>3, ReadingTurns
<1> QED BY <1>1, <1>2, <1>3, <1>4, <1>5, <1>6, <1>7, <1>8, <1>9, <1>10 DEF Next

LEMMA InitLone ==
  ASSUME Init
  PROVE  Lone
<1>1. Typed /\ Orderly(table)
  BY InitTyped, SeasonConstants DEF Init
<1> SUFFICES ASSUME NEW i \in DOMAIN table, Live(table[i]), NEW j \in DOMAIN table
             PROVE  /\ table[j].orig = table[i].orig => j <= i
                    /\ Live(table[j]) /\ table[j].player = table[i].player => j = i
  BY DEF Lone
<1>2. table[i] \in LiveRows(table) /\ table[i].id = i /\ table[j].id = j
      /\ (Live(table[j]) => table[j] \in LiveRows(table))
  BY <1>1, LiveRowsAre DEF Typed, Numbered
<1>3. table[j].orig = table[i].orig => table[j] \in ChainOf(table, table[i])
  BY DEF ChainOf
<1> QED BY <1>1, <1>2, <1>3 DEF Orderly, IsLatest

LEMMA InitTurns ==
  ASSUME Init
  PROVE  Turns
BY InitLone DEF Init, Turns, OneAtATime, Fresh, Moving, Idle

LEMMA LoneIsOneLiveRow ==
  ASSUME Typed, Turns
  PROVE  OneLiveRow
<1> SUFFICES ASSUME InTurn, NEW c \in LiveRows(table)
             PROVE  IsLatest(table, c) /\ \A x \in LiveRows(table) : x.player = c.player => x = c
  BY DEF OneLiveRow
<1>1. Lone /\ Numbered
  BY DEF Turns, Typed
<1>2. \A x \in LiveRows(table) : Live(x) /\ x.id \in DOMAIN table /\ table[x.id] = x
  BY <1>1, LiveRowsAre
<1>3. \A x \in ChainOf(table, c) : x.id <= c.id
  BY <1>1, <1>2 DEF ChainOf, Lone, Numbered
<1> QED BY <1>1, <1>2, <1>3 DEF IsLatest, Lone

\* When requests and handlers run one after the other, a player has one live row over all seasons,
\* and it is the last of its chain, whatever is moved, traded, dropped, declared or advanced.
THEOREM OneRowPerPlayer == Spec => []OneLiveRow
<1>1. Init => Typed /\ Turns
  BY InitTyped, InitTurns
<1>2. Typed /\ Turns /\ [Next]_vars => (Typed /\ Turns)'
  BY StepTyped, StepTurns
<1>3. Typed /\ Turns => OneLiveRow
  BY LoneIsOneLiveRow
<1> QED BY <1>1, <1>2, <1>3, PTL DEF Spec

-----------------------------------------------------------------------------
(* The keeper deadline *)

\* Only the end of a handler moves the deadlines on.
LEMMA WhatSettles ==
  ASSUME Typed, [Next]_vars, NEW kind, Settles(kind)
  PROVE  /\ FinishDeadline /\ Runs(handler) /\ handled' = handled + 1 /\ handled + 1 \in DOMAIN Calendar
         /\ Calendar[handled + 1].kind = kind
         /\ kind = "PreseasonKeeper" => ProcessKeepers(handled + 1)
<1>1. FinishDeadline
  BY DEF Next, vars, Settles, TimePasses, StartDeadline, FailDeadline, TradeAway, BeginMove, CommitMove,
         RefuseMove, DeclareKeepers, FindKeeperTxn, SaveKeepers
<1>2. Runs(handler) /\ handled' = handled + 1
  BY <1>1 DEF FinishDeadline, Typed, Reads, Idle
<1>3. handled + 1 \in DOMAIN Calendar
  BY <1>2, NextDeadline
<1>4. kind = "PreseasonKeeper" => ProcessKeepers(handled + 1)
  BY <1>1, <1>2 DEF Settles, FinishDeadline, Handle, RosterLockKinds
<1> QED BY <1>1, <1>2, <1>3, <1>4 DEF Settles

LEMMA LeavingRows ==
  ASSUME Numbered, Runs(handler), handler.rows = LiveRows(table),
         DropIds \subseteq {c.id : c \in handler.rows}
  PROVE  Leaving = {table[i] : i \in DropIds}
BY LiveRowsAre DEF Leaving

LEMMA OthersLive ==
  ASSUME Numbered, Runs(handler), handler.rows = LiveRows(table), Numbered',
         table' \in AllReplaced([c \in Leaving |-> KeeperDrop(c)])
  PROVE  LiveRows(table') = LiveRows(table) \ Leaving
<1>1. PICK order, new : /\ Rewrites(Leaving, new, Cardinality(Leaving), order) /\ Heirs(Leaving, new)
                        /\ \A c \in Leaving : ~Live(new[c])
  BY KeepersRewrite
<1> DEFINE n == Cardinality(Leaving)
<1> HIDE DEF n
<1>2. Rewrites(Leaving, new, n, order)
  BY <1>1 DEF n
<1>3. Leaving \subseteq LiveRows(table) /\ DOMAIN table = 1 .. Len(table)
  BY LenProperties DEF Leaving, Numbered
<1>4. ASSUME NEW c \in LiveRows(table')
      PROVE  c \in LiveRows(table) \ Leaving
  <2>1. PICK i \in DOMAIN table' : c = table'[i] /\ Live(table'[i])
    BY DEF LiveRows, Range
  <2>2. CASE i \in DOMAIN table
    <3>1. table'[i] = table[i] /\ \A x \in Leaving : x.id # i
      BY <1>1, <1>2, <2>1, <2>2, RowsStay
    <3>2. table[i] \in LiveRows(table) /\ table[i].id = i
      BY <2>1, <2>2, <3>1, LiveRowsAre DEF Numbered
    <3> QED BY <2>1, <3>1, <3>2
  <2>3. CASE i \notin DOMAIN table
    <3>1. PICK j \in 1 .. n : order[j] \in Leaving /\ table'[i] = [new[order[j]] EXCEPT !.id = i]
      BY <1>1, <1>2, <2>3, NewRows
    <3>2. new[order[j]] \in Row /\ ~Live(new[order[j]])
      BY <1>1, <3>1 DEF Heirs, Heir
    <3>3. table'[i].status = new[order[j]].status
      BY <3>1, <3>2 DEF Row
    <3> QED BY <2>1, <3>2, <3>3 DEF Live
  <2> QED BY <2>2, <2>3
<1>5. ASSUME NEW c \in LiveRows(table) \ Leaving
      PROVE  c \in LiveRows(table')
  <2>1. c.id \in DOMAIN table /\ table[c.id] = c /\ Live(c)
    BY LiveRowsAre
  <2>2. ~\E x \in Leaving : x.id = c.id
    BY <1>3, <2>1, LiveRowsAre
  <2>3. table'[c.id] = c
    BY <1>1, <1>2, <1>3, <2>1, <2>2, OldAndNew
  <2>4. c.id \in DOMAIN table'
    BY <1>1, <1>2, <2>1, RowsStay
  <2> QED BY <2>1, <2>3, <2>4 DEF LiveRows, Range
<1> QED BY <1>4, <1>5

LEMMA KeepersSettled ==
  ASSUME Typed, Turns, [Next]_vars, Settles("PreseasonKeeper"), InTurn
  PROVE  /\ Leaving = {table[i] : i \in DropIds}
         /\ LiveRows(table') = LiveRows(table) \ Leaving
         /\ handler.rows = LiveRows(table)
         /\ updates' = SetDone(handler.settles) /\ Runs(handler)
<1>1. Runs(handler) /\ ProcessKeepers(handled + 1) /\ handled + 1 \in DOMAIN Calendar
  BY WhatSettles
<1>2. handler.rows = LiveRows(table) /\ Numbered /\ Numbered'
  BY <1>1, StepTyped DEF Turns, Fresh, Typed, Runs, Idle
<1>3. /\ table' \in AllReplaced([c \in Leaving |-> KeeperDrop(c)])
      /\ updates' = SetDone(handler.settles) /\ DropIds \subseteq {c.id : c \in handler.rows}
  BY <1>1, KeepersWrite
<1> QED BY <1>1, <1>2, <1>3, LeavingRows, OthersLive

\* The keeper deadline takes exactly the declared drops off the live rows, and settles every
\* declaration it was given.
THEOREM KeepersGoAsDeclared == Spec => OnlyDropsGo
<1>1. Init => Typed /\ Turns
  BY InitTyped, InitTurns
<1>2. Typed /\ Turns /\ [Next]_vars => (Typed /\ Turns)'
  BY StepTyped, StepTurns
<1>3. Typed /\ Turns /\ [Next]_vars =>
        [Settles("PreseasonKeeper") /\ InTurn =>
           LET dropped == {table[i] : i \in UNION {updates[u].drops : u \in handler.settles}} IN
           /\ LiveRows(table') = LiveRows(table) \ dropped
           /\ \A u \in handler.settles : updates'[u].status = "Done"]_vars
  <2> SUFFICES ASSUME Typed, Turns, [Next]_vars, Settles("PreseasonKeeper"), InTurn
               PROVE  LET dropped == {table[i] : i \in UNION {updates[u].drops : u \in handler.settles}} IN
                      /\ LiveRows(table') = LiveRows(table) \ dropped
                      /\ \A u \in handler.settles : updates'[u].status = "Done"
    OBVIOUS
  <2>1. LiveRows(table') = LiveRows(table) \ {table[i] : i \in DropIds}
    BY KeepersSettled
  <2>2. \A u \in handler.settles : updates'[u].status = "Done"
    <3>1. updates \in Seq(UpdateType(Len(txns))) /\ Len(txns) \in Nat
          /\ handler.settles \subseteq DOMAIN updates
          /\ updates' = SetDone(handler.settles)
      BY BooksLengths, KeepersSettled DEF Typed, Books, Runs
    <3> QED BY <3>1, UpdatesDone
  <2> QED BY <2>1, <2>2 DEF DropIds
<1> QED BY <1>1, <1>2, <1>3, PTL DEF Spec, OnlyDropsGo

-----------------------------------------------------------------------------
(* The owners of restricted free agents *)

\* As the calendar of a league is drawn up: one keeper deadline a season.
OneKeeperDeadline ==
  \A c, d \in DOMAIN Calendar :
    /\ Calendar[c].kind = "PreseasonKeeper" /\ Calendar[d].kind = "PreseasonKeeper"
    /\ Calendar[c].season = Calendar[d].season
    => c = d

\* The index holds for every player, where rows are not handled one after the other.
Indexed ==
  InTurn \/ /\ \A i \in DOMAIN table : table[i].player \in NbaPlayers
            /\ UniqueActive(table, NbaPlayers)

\* A resolution is of a season whose keeper deadline has been handled.
Seasoned ==
  \A i \in DOMAIN resolutions :
    \E d \in 1 .. handled : Calendar[d].kind = "PreseasonKeeper" /\ Calendar[d].season = table[i].season

LEMMA PlayersStay ==
  ASSUME Numbered, NEW rows, NEW new, NEW n, NEW order, Rewrites(rows, new, n, order), Heirs(rows, new),
         \A i \in DOMAIN table : table[i].player \in NbaPlayers
  PROVE  \A i \in DOMAIN table' : table'[i].player \in NbaPlayers
<1> SUFFICES ASSUME NEW i \in DOMAIN table'
             PROVE  table'[i].player \in NbaPlayers
  OBVIOUS
<1>1. CASE i \in DOMAIN table
  BY <1>1, RowsStay DEF SameRow
<1>2. CASE i \notin DOMAIN table
  <2>1. PICK j \in 1 .. n : order[j] \in rows /\ table'[i].player = table[order[j].id].player
    BY <1>2, NewRows
  <2>2. order[j].id \in DOMAIN table
    BY <2>1 DEF Heirs, Known
  <2> QED BY <2>1, <2>2
<1> QED BY <1>1, <1>2

\* Nothing to replace leaves the table as it was.
LEMMA NoneRewritten ==
  ASSUME Numbered, NEW rows, NEW new, NEW order, Rewrites(rows, new, 0, order), Heirs(rows, new)
  PROVE  DOMAIN table' = DOMAIN table /\ \A i \in DOMAIN table : table'[i] = table[i]
<1>1. ~\E c \in rows : TRUE
  BY DEF Rewrites
<1>2. DOMAIN table = 1 .. Len(table) /\ Len(table) \in Nat
  BY LenProperties DEF Numbered
<1>3. table' \in Seq(Row) /\ Len(table') = Len(table) + 0
      /\ \A i \in 1 .. Len(table) :
           table'[i] = IF \E c \in rows : c.id = i THEN [table[i] EXCEPT !.status = "Replaced"] ELSE table[i]
  BY OldAndNew
<1>4. DOMAIN table' = 1 .. Len(table)
  BY <1>2, <1>3, LenProperties
<1> QED BY <1>1, <1>2, <1>3, <1>4

LEMMA ManyIndexed ==
  ASSUME Numbered, NEW rows, IsFiniteSet(rows), NEW new, NEW order,
         Rewrites(rows, new, Cardinality(rows), order), Heirs(rows, new),
         \A i \in DOMAIN table : table[i].player \in NbaPlayers, UniqueActive(table, NbaPlayers),
         Cardinality(rows) # 0 => UniqueActive(table', NbaPlayers)
  PROVE  (\A i \in DOMAIN table' : table'[i].player \in NbaPlayers) /\ UniqueActive(table', NbaPlayers)
<1>1. \A i \in DOMAIN table' : table'[i].player \in NbaPlayers
  BY PlayersStay
<1>2. CASE Cardinality(rows) = 0
  <2>1. Rewrites(rows, new, 0, order)
    BY <1>2
  <2>2. DOMAIN table' = DOMAIN table /\ \A i \in DOMAIN table : table'[i] = table[i]
    BY <2>1, NoneRewritten
  <2> QED BY <1>1, <2>2 DEF UniqueActive
<1> QED BY <1>1, <1>2

LEMMA OneIndexed ==
  ASSUME Numbered, NEW c, NEW new,
         Rewrites({c}, [x \in {c} |-> new], 1, [j \in 1 .. 1 |-> c]), Heirs({c}, [x \in {c} |-> new]),
         \A i \in DOMAIN table : table[i].player \in NbaPlayers
  PROVE  \A i \in DOMAIN table' : table'[i].player \in NbaPlayers
<1> DEFINE rows == {c}
           heir == [x \in {c} |-> new]
           order == [j \in 1 .. 1 |-> c]
<1>1. Rewrites(rows, heir, 1, order) /\ Heirs(rows, heir)
  OBVIOUS
<1> HIDE DEF rows, heir, order
<1> QED BY <1>1, PlayersStay

LEMMA FinishIndexed ==
  ASSUME Typed, Indexed, FinishDeadline
  PROVE  Indexed'
<1> SUFFICES ASSUME ~InTurn
             PROVE  (\A i \in DOMAIN table' : table'[i].player \in NbaPlayers)
                     /\ UniqueActive(table', NbaPlayers)
  BY DEF Indexed, InTurn, FinishDeadline
<1> DEFINE d == handled + 1
<1>1. Runs(handler) /\ Handle(d) /\ Numbered
      /\ (\A i \in DOMAIN table : table[i].player \in NbaPlayers) /\ UniqueActive(table, NbaPlayers)
  BY DEF FinishDeadline, Typed, Reads, Idle, Indexed
<1> HIDE DEF d
<1>2. CASE Calendar[d].kind = "PreseasonStart"
  <2>1. AdvanceRows(d)
    BY <1>1, <1>2 DEF Handle, RosterLockKinds
  <2>2. IsFiniteSet(handler.rows)
    BY <1>1 DEF Runs
  <2>3. PICK order, new : /\ Rewrites(handler.rows, new, Cardinality(handler.rows), order)
                          /\ Heirs(handler.rows, new)
                          /\ Cardinality(handler.rows) # 0 => UniqueActive(table', NbaPlayers)
    BY <1>1, <2>1, AdvanceRewrites
  <2> QED BY <1>1, <2>2, <2>3, ManyIndexed
<1>3. CASE Calendar[d].kind = "PreseasonKeeper"
  <2>1. table' \in AllReplaced([c \in Leaving |-> KeeperDrop(c)])
    BY <1>1, <1>3 DEF Handle, RosterLockKinds, ProcessKeepers, Leaving, DropIds
  <2>2. IsFiniteSet(Leaving)
    BY <1>1, FS_Subset DEF Runs, Leaving
  <2>3. PICK order, new : /\ Rewrites(Leaving, new, Cardinality(Leaving), order) /\ Heirs(Leaving, new)
                          /\ Cardinality(Leaving) # 0 => UniqueActive(table', NbaPlayers)
    BY <1>1, <2>1, KeepersRewrite
  <2> QED BY <1>1, <2>2, <2>3, ManyIndexed
<1>4. CASE Calendar[d].kind \notin {"PreseasonStart", "PreseasonKeeper"}
  <2>1. UNCHANGED table
    BY <1>1, <1>4 DEF Handle, LockRosters
  <2> QED BY <1>1, <2>1
<1> QED BY <1>2, <1>3, <1>4

LEMMA StepIndexed ==
  ASSUME Typed, Indexed, [Next]_vars
  PROVE  Indexed'
<1>1. CASE UNCHANGED <<setting, table>>
  BY <1>1 DEF Indexed, InTurn
<1>2. CASE FinishDeadline
  BY <1>2, FinishIndexed
<1>3. ASSUME NEW r \in Requests, CommitMove(r)
      PROVE  Indexed'
  <2> SUFFICES ASSUME ~InTurn
               PROVE  (\A i \in DOMAIN table' : table'[i].player \in NbaPlayers)
                      /\ UniqueActive(table', NbaPlayers)
    BY <1>3 DEF Indexed, InTurn, CommitMove
  <2> DEFINE c == request[r].row
  <2>1. PICK new : /\ Rewrites({c}, [x \in {c} |-> new], 1, [j \in 1 .. 1 |-> c])
                   /\ Heirs({c}, [x \in {c} |-> new]) /\ UniqueActive(table', NbaPlayers)
    BY <1>3, CommitMoveWrites
  <2> HIDE DEF c
  <2> QED BY <2>1, OneIndexed DEF Indexed, Typed
<1>4. ASSUME NEW c \in Range(table), NEW team \in Teams, TradeAway(c, team)
      PROVE  Indexed'
  <2> SUFFICES ASSUME ~InTurn
               PROVE  (\A i \in DOMAIN table' : table'[i].player \in NbaPlayers)
                      /\ UniqueActive(table', NbaPlayers)
    BY <1>4 DEF Indexed, InTurn, TradeAway
  <2>1. PICK new \in Storable(table, c, Traded(c, team)) : table' = Replace(table, c, new)
    BY <1>4 DEF TradeAway
  <2>2. /\ Rewrites({c}, [x \in {c} |-> new], 1, [j \in 1 .. 1 |-> c])
        /\ Heirs({c}, [x \in {c} |-> new]) /\ UniqueActive(table', NbaPlayers)
    BY <2>1, TradeRewrites DEF Typed
  <2> QED BY <2>2, OneIndexed DEF Indexed, Typed
<1> QED BY <1>1, <1>2, <1>3, <1>4 DEF Next, vars, TimePasses, StartDeadline, FailDeadline, BeginMove,
             RefuseMove, DeclareKeepers, FindKeeperTxn, SaveKeepers

LEMMA InitIndexed ==
  ASSUME Init,
         \A s \in Settings : (~s.overlap /\ ~s.anyRow) \/ \A c \in Range(s.rows) : c.player \in NbaPlayers
  PROVE  Indexed
<1>1. setting \in Settings /\ table = setting.rows
  BY DEF Init
<1>2. Lone
  BY InitLone
<1>3. UniqueActive(table, NbaPlayers)
  BY <1>2 DEF Lone, UniqueActive
<1> QED BY <1>1, <1>3 DEF Indexed, InTurn, Range

LEMMA StepSeasoned ==
  ASSUME Typed, Seasoned, [Next]_vars
  PROVE  Seasoned'
<1>1. CASE ~Settles("PreseasonKeeper")
  <2>1. UNCHANGED resolutions
    <3>1. CASE FinishDeadline
      <4>1. Runs(handler) /\ handled' = handled + 1 /\ Handle(handled + 1)
        BY <3>1 DEF FinishDeadline, Typed, Reads, Idle
      <4>2. Calendar[handled + 1].kind # "PreseasonKeeper"
        BY <1>1, <4>1, NextDeadline DEF Settles
      <4> QED BY <4>1, <4>2 DEF Handle, AdvanceRows, LockRosters
    <3> QED BY <3>1 DEF Next, vars, TimePasses, StartDeadline, FailDeadline, TradeAway, BeginMove, CommitMove,
                        RefuseMove, DeclareKeepers, FindKeeperTxn, SaveKeepers
  <2>2. Aged
    BY StepAges
  <2>3. handled \in Nat /\ handled' \in {handled, handled + 1}
    <3>1. handled \in Nat
      <4>1. Calendar \in Seq([kind : DeadlineKinds, season : Nat])
        BY SeasonConstants
      <4>2. DOMAIN Calendar = 1 .. Len(Calendar) /\ Len(Calendar) \in Nat
        BY <4>1, LenProperties
      <4> QED BY <4>2 DEF Typed, Times
    <3> QED BY <3>1 DEF Next, vars, TimePasses, StartDeadline, FinishDeadline, FailDeadline, TradeAway,
                        BeginMove, CommitMove, RefuseMove, DeclareKeepers, FindKeeperTxn, SaveKeepers
  <2>4. \A i \in DOMAIN resolutions : i \in DOMAIN table /\ table'[i].season = table[i].season
    BY <2>2 DEF Typed, Owners, Aged, SameRow
  <2>5. 1 .. handled \subseteq 1 .. handled'
    BY <2>3
  <2> QED BY <2>1, <2>4, <2>5 DEF Seasoned
<1>2. CASE Settles("PreseasonKeeper")
  <2>1. /\ Runs(handler) /\ handled' = handled + 1 /\ handled + 1 \in DOMAIN Calendar
        /\ Calendar[handled + 1].kind = "PreseasonKeeper" /\ ProcessKeepers(handled + 1)
    BY <1>2, WhatSettles
  <2> DEFINE season == Calendar[handled + 1].season
             owners == Seeded(table', season)
  <2>2. resolutions' = WithNew(owners)
    BY <2>1, KeepersWrite
  <2>3. Aged /\ Numbered' /\ handled \in Nat
    BY <2>1, StepAges, StepTyped, NextDeadline DEF Typed
  <2>4. \A i \in DOMAIN owners : table'[i].season = season
    BY <2>3, SeededRows
  <2>5. \A i \in DOMAIN resolutions : i \in DOMAIN table /\ table'[i].season = table[i].season
    BY <2>3 DEF Typed, Owners, Aged, SameRow
  <2> HIDE DEF owners
  <2>6. DOMAIN resolutions' = DOMAIN owners \cup DOMAIN resolutions
    BY <2>2 DEF WithNew
  <2>7. 1 .. handled \subseteq 1 .. handled' /\ handled + 1 \in 1 .. handled'
    BY <2>1, <2>3
  <2> QED BY <2>1, <2>4, <2>5, <2>6, <2>7 DEF Seasoned
<1> QED BY <1>1, <1>2

\* At a keeper deadline, the rows that are to have an owner on record get the team that holds them.
LEMMA HoldersRecorded ==
  ASSUME OneKeeperDeadline, Typed, Turns, Indexed, Seasoned, [Next]_vars, Settles("PreseasonKeeper"),
         NEW c \in LiveRows(table'), c.kind = "RFA", c.season = Calendar[handled'].season, c.team # Unset
  PROVE  \E i \in SeasonChain(table', c) \cap DOMAIN resolutions' : resolutions'[i] = c.team
<1>1. /\ Runs(handler) /\ handled' = handled + 1 /\ handled + 1 \in DOMAIN Calendar
      /\ Calendar[handled + 1].kind = "PreseasonKeeper" /\ ProcessKeepers(handled + 1)
  BY WhatSettles
<1> DEFINE season == Calendar[handled + 1].season
           owners == Seeded(table', season)
<1>2. resolutions' = WithNew(owners)
  BY <1>1, KeepersWrite
<1>3. Aged /\ Numbered' /\ Turns' /\ Indexed' /\ handled \in Nat
  BY <1>1, StepAges, StepTyped, StepTurns, StepIndexed, NextDeadline DEF Typed
<1>4. /\ table' \in Seq(Row)
      /\ \A i \in DOMAIN table' : table'[i].id = i
      /\ \A i, j \in DOMAIN table' : table'[i].orig = table'[j].orig => table'[i].player = table'[j].player
  BY <1>3 DEF Numbered
<1>5. \A x \in LiveRows(table') : x \in Row /\ Live(x) /\ x.id \in DOMAIN table' /\ table'[x.id] = x
  BY <1>4, LiveRowsOf
<1>6. \A i \in SeasonChain(table', c) : /\ i \in DOMAIN table' /\ table'[i].season = c.season
                                        /\ table'[i].player = c.player
  BY <1>4, <1>5 DEF SeasonChain, ChainOf
<1>7. c.id \in SeasonChain(table', c)
  BY <1>5 DEF SeasonChain, ChainOf
<1>8. SeasonChain(table', c) \cap DOMAIN resolutions = {}
  <2> SUFFICES ASSUME NEW i \in SeasonChain(table', c), i \in DOMAIN resolutions
               PROVE  FALSE
    OBVIOUS
  <2>1. i \in DOMAIN table /\ table'[i].season = table[i].season
    BY <1>3 DEF Typed, Owners, Aged, SameRow
  <2>2. PICK d \in 1 .. handled : Calendar[d].kind = "PreseasonKeeper" /\ Calendar[d].season = table[i].season
    BY DEF Seasoned
  <2>3. Calendar \in Seq([kind : DeadlineKinds, season : Nat])
    BY SeasonConstants
  <2>4. DOMAIN Calendar = 1 .. Len(Calendar) /\ Len(Calendar) \in Nat
    BY <2>3, LenProperties
  <2>5. d \in DOMAIN Calendar /\ d # handled + 1
    BY <1>1, <1>3, <2>4
  <2>6. Calendar[d].season = Calendar[handled + 1].season
    BY <1>1, <1>6, <2>1, <2>2
  <2> QED BY <1>1, <2>2, <2>5, <2>6 DEF OneKeeperDeadline
<1>9. \A x \in LiveRows(table') : x.kind = "RFA" /\ x.id \in SeasonChain(table', c) => c.id <= x.id
  <2> SUFFICES ASSUME NEW x \in LiveRows(table'), x.id \in SeasonChain(table', c)
               PROVE  c.id <= x.id
    OBVIOUS
  <2>1. x.player = c.player /\ x.season = c.season
    BY <1>5, <1>6
  <2>2. x.id = c.id
    <3>1. CASE InTurn'
      BY <1>3, <1>5, <2>1, <3>1 DEF Turns, Lone
    <3>2. CASE ~InTurn'
      BY <1>3, <1>5, <2>1, <3>2 DEF Indexed, UniqueActive
    <3> QED BY <3>1, <3>2
  <2>3. c.id \in Nat
    BY <1>5 DEF Row
  <2> QED BY <2>2, <2>3
<1>10. c \in Designated(table', season)
  BY <1>1, <1>8, <1>9 DEF Designated
<1>11. c.id \in DOMAIN owners /\ owners[c.id] = c.team
  BY <1>3, <1>5, <1>10, SeededRows
<1> HIDE DEF owners
<1> QED BY <1>2, <1>7, <1>11 DEF WithNew

LEMMA RecordsStay ==
  ASSUME Typed, [Next]_vars
  PROVE  \A i \in DOMAIN resolutions : i \in DOMAIN resolutions' /\ resolutions'[i] = resolutions[i]
<1>1. CASE UNCHANGED resolutions
  BY <1>1
<1>2. CASE Settles("PreseasonKeeper")
  <2>1. ProcessKeepers(handled + 1) /\ Runs(handler) /\ handled + 1 \in DOMAIN Calendar
    BY <1>2, WhatSettles
  <2> DEFINE owners == Seeded(table', Calendar[handled + 1].season)
  <2>2. resolutions' = WithNew(owners)
    BY <2>1, KeepersWrite
  <2>3. \A i \in DOMAIN resolutions : i \notin DOMAIN owners
    BY StepTyped, SeededRows DEF Typed
  <2> HIDE DEF owners
  <2> QED BY <2>2, <2>3 DEF WithNew
<1>3. CASE FinishDeadline /\ ~Settles("PreseasonKeeper")
  <2>1. Runs(handler) /\ handled' = handled + 1 /\ Handle(handled + 1)
    BY <1>3 DEF FinishDeadline, Typed, Reads, Idle
  <2>2. Calendar[handled + 1].kind # "PreseasonKeeper"
    BY <1>3, <2>1, NextDeadline DEF Settles
  <2>3. UNCHANGED resolutions
    BY <2>1, <2>2 DEF Handle, AdvanceRows, LockRosters
  <2> QED BY <2>3
<1> QED BY <1>1, <1>2, <1>3 DEF Next, vars, TimePasses, StartDeadline, FailDeadline, TradeAway, BeginMove,
                                CommitMove, RefuseMove, DeclareKeepers, FindKeeperTxn, SaveKeepers

\* Whoever holds a restricted free agent at his season's keeper deadline is his original owner on
\* record for good: if nothing overlaps, or if the index covers every player of the league.
THEOREM HoldersOnRecord ==
  ASSUME OneKeeperDeadline,
         \A s \in Settings : (~s.overlap /\ ~s.anyRow) \/ \A c \in Range(s.rows) : c.player \in NbaPlayers
  PROVE  Spec => HoldersDesignated
<1>1. Init => Typed /\ Turns /\ Indexed /\ Seasoned
  BY InitTyped, InitTurns, InitIndexed DEF Init, Seasoned
<1>2. Typed /\ Turns /\ Indexed /\ Seasoned /\ [Next]_vars => (Typed /\ Turns /\ Indexed /\ Seasoned)'
  BY StepTyped, StepTurns, StepIndexed, StepSeasoned
<1>3. Typed /\ Turns /\ Indexed /\ Seasoned /\ [Next]_vars =>
        [/\ \A i \in DOMAIN resolutions : i \in DOMAIN resolutions' /\ resolutions'[i] = resolutions[i]
         /\ Settles("PreseasonKeeper") =>
              \A c \in LiveRows(table') :
                c.kind = "RFA" /\ c.season = Calendar[handled'].season /\ c.team # Unset =>
                  \E i \in SeasonChain(table', c) \cap DOMAIN resolutions' : resolutions'[i] = c.team]_vars
  BY RecordsStay, HoldersRecorded
<1> QED BY <1>1, <1>2, <1>3, PTL DEF Spec, HoldersDesignated

-----------------------------------------------------------------------------
(* What dropped contracts cost *)

\* The drop that left row i behind is on record, under the row of the contract it took.
Due(i) ==
  /\ table[i].team = Unset
  /\ \E p \in DOMAIN table, t \in DOMAIN txns :
       /\ table[i].prev = p /\ table[p].season = table[i].season /\ table[p].kind \in CountedKinds
       /\ txns[t].kind = "drop" /\ txns[t].contract = p
       /\ txns[t].deadline \in DOMAIN Calendar /\ Calendar[txns[t].deadline].kind \notin KeeperKinds
Adrift(c) == Live(c) /\ c.kind = "FreeAgent"
Dues ==
  /\ \A i \in DOMAIN table : Adrift(table[i]) => Due(i)
  /\ \A r \in Requests : Moving(r) => ~Adrift(request[r].row)

LEMMA TxnsStay ==
  ASSUME Typed, [Next]_vars
  PROVE  \A t \in DOMAIN txns : t \in DOMAIN txns' /\ txns'[t] = txns[t]
<1>0. txns \in Seq(TxnType) /\ Len(txns) \in Nat /\ DOMAIN txns = 1 .. Len(txns)
  BY BooksLengths DEF Typed, Books
<1>1. CASE UNCHANGED txns
  BY <1>1
<1>2. ASSUME NEW x, txns' = Append(txns, x)
      PROVE  \A t \in DOMAIN txns : t \in DOMAIN txns' /\ txns'[t] = txns[t]
  BY <1>0, <1>2
<1>3. CASE FinishDeadline
  <2>1. Runs(handler) /\ Handle(handled + 1)
    BY <1>3 DEF FinishDeadline, Typed, Reads, Idle
  <2>2. CASE Calendar[handled + 1].kind = "PreseasonStart"
    BY <1>2, <2>1, <2>2 DEF Handle, RosterLockKinds, AdvanceRows
  <2>3. CASE Calendar[handled + 1].kind # "PreseasonStart"
    BY <1>1, <2>1, <2>3 DEF Handle, ProcessKeepers, LockRosters
  <2> QED BY <2>2, <2>3
<1>4. CASE \E r \in Requests : CommitMove(r)
  BY <1>2, <1>4 DEF CommitMove
<1>5. CASE \E r \in Requests : SaveKeepers(r)
  BY <1>1, <1>2, <1>5 DEF SaveKeepers
<1> QED BY <1>1, <1>3, <1>4, <1>5 DEF Next, vars, TimePasses, StartDeadline, FailDeadline, TradeAway,
                                      BeginMove, RefuseMove, DeclareKeepers, FindKeeperTxn

LEMMA DueStays ==
  ASSUME Dues, Aged, \A t \in DOMAIN txns : t \in DOMAIN txns' /\ txns'[t] = txns[t],
         NEW i \in DOMAIN table, Adrift(table'[i])
  PROVE  Due(i)'
<1>1. table'[i] = table[i] /\ Due(i)
  BY DEF Adrift, Dues, Aged
<1>2. PICK p \in DOMAIN table, t \in DOMAIN txns :
       /\ table[i].prev = p /\ table[p].season = table[i].season /\ table[p].kind \in CountedKinds
       /\ txns[t].kind = "drop" /\ txns[t].contract = p
       /\ txns[t].deadline \in DOMAIN Calendar /\ Calendar[txns[t].deadline].kind \notin KeeperKinds
  BY <1>1 DEF Due
<1>3. p \in DOMAIN table' /\ table'[p].season = table[p].season /\ table'[p].kind = table[p].kind
  BY DEF Aged, SameRow
<1> QED BY <1>1, <1>2, <1>3 DEF Due

\* A row that is added is adrift only if what it was made of was.
LEMMA NoneAdrift ==
  ASSUME Numbered, NEW rows, NEW new, NEW n, NEW order, Rewrites(rows, new, n, order), Heirs(rows, new),
         \A c \in rows : ~Adrift(new[c]), NEW i \in DOMAIN table', i \notin DOMAIN table
  PROVE  ~Adrift(table'[i])
<1>1. PICK j \in 1 .. n : order[j] \in rows /\ table'[i] = [new[order[j]] EXCEPT !.id = i]
  BY NewRows
<1>2. new[order[j]] \in Row
  BY <1>1 DEF Heirs, Heir
<1>3. table'[i].status = new[order[j]].status /\ table'[i].kind = new[order[j]].kind
  BY <1>1, <1>2 DEF Row
<1> QED BY <1>1, <1>3 DEF Adrift, Live

LEMMA CommitMoveDues ==
  ASSUME Typed, Dues, NEW r \in Requests, CommitMove(r), [Next]_vars
  PROVE  \A i \in DOMAIN table' : Adrift(table'[i]) => Due(i)'
<1> SUFFICES ASSUME NEW i \in DOMAIN table', Adrift(table'[i]), i \notin DOMAIN table
             PROVE  Due(i)'
  BY StepAges, TxnsStay, DueStays
<1> DEFINE m == request[r]
           c == m.row
<1>1. PICK new : /\ Moves(m) /\ new \in Moved(m.op, c, m.deadline)
                 /\ Rewrites({c}, [x \in {c} |-> new], 1, [j \in 1 .. 1 |-> c])
                 /\ Heirs({c}, [x \in {c} |-> new])
                 /\ txns' = Append(txns, MoveTxn(m.op, c, m.deadline))
  BY CommitMoveWrites
<1>2. m.at = "moving" /\ ~Adrift(c)
  BY DEF CommitMove, Dues, Moving
<1> HIDE DEF m
<1>3. /\ c \in Row /\ c.id \in DOMAIN table /\ SameRow(c, table[c.id]) /\ m.op \in RosterOps
      /\ m.deadline \in DOMAIN Calendar
  BY <1>1 DEF Moves, Known
<1>4. /\ Heir(c, new) /\ new.season = c.season
      /\ m.op # "drop" => Stays(m.op, c, new)
      /\ m.op = "drop" => Goes(c, m.deadline, new)
  BY <1>1, <1>3, RowsOfMoves
<1> HIDE DEF c
<1>5. i = Len(table) + 1 /\ table'[i] = [new EXCEPT !.id = i]
  <2>1. DOMAIN table = 1 .. Len(table) /\ DOMAIN table' = 1 .. Len(table) + 1 /\ Len(table) \in Nat
        /\ table'[Len(table) + 1] = [new EXCEPT !.id = Len(table) + 1]
    BY <1>1, LastRow DEF Typed
  <2> QED BY <2>1
<1>6. table'[i].status = new.status /\ table'[i].kind = new.kind /\ table'[i].team = new.team
      /\ table'[i].prev = new.prev /\ table'[i].season = new.season
  BY <1>4, <1>5 DEF Heir, Row
<1>7. m.op = "drop" /\ Live(new)
  BY <1>2, <1>4, <1>6 DEF Stays, Adrift, Live
<1>8. /\ new.team = Unset /\ new.prev = c.id /\ c.kind \in CountedKinds
      /\ Calendar[m.deadline].kind \notin KeeperKinds
  BY <1>4, <1>7 DEF Goes
<1> DEFINE t == Len(txns) + 1
<1>9. t \in DOMAIN txns' /\ txns'[t] = Txn("drop", c.id, m.deadline)
  <2>1. txns \in Seq(TxnType) /\ Len(txns) \in Nat /\ txns' = Append(txns, Txn("drop", c.id, m.deadline))
    BY <1>1, <1>7, BooksLengths DEF Typed, Books, MoveTxn
  <2> QED BY <2>1
<1>10. txns'[t].kind = "drop" /\ txns'[t].contract = c.id /\ txns'[t].deadline = m.deadline
  BY <1>9 DEF Txn
<1> HIDE DEF t
<1>11. c.id \in DOMAIN table' /\ table'[c.id].season = c.season /\ table'[c.id].kind = c.kind
  BY <1>3, StepAges DEF Aged, SameRow
<1> QED BY <1>3, <1>4, <1>6, <1>8, <1>9, <1>10, <1>11 DEF Due

LEMMA TradeAwayDues ==
  ASSUME Typed, Dues, NEW c \in Range(table), NEW team \in Teams, TradeAway(c, team), [Next]_vars
  PROVE  \A i \in DOMAIN table' : Adrift(table'[i]) => Due(i)'
<1> SUFFICES ASSUME NEW i \in DOMAIN table', Adrift(table'[i]), i \notin DOMAIN table
             PROVE  FALSE
  BY StepAges, TxnsStay, DueStays
<1>1. PICK new \in Storable(table, c, Traded(c, team)) : table' = Replace(table, c, new)
  BY DEF TradeAway
<1>2. /\ Rewrites({c}, [x \in {c} |-> new], 1, [j \in 1 .. 1 |-> c])
      /\ Heirs({c}, [x \in {c} |-> new]) /\ new \in Traded(c, team) /\ c \in Row
  BY <1>1, TradeRewrites DEF Typed
<1>3. Heir(c, new) /\ new.kind = c.kind /\ new.status = c.status
  BY <1>2, RowsOfTrades
<1>4. ~Adrift(c)
  <2>1. PICK k \in DOMAIN table : c = table[k]
    BY DEF Range
  <2>2. c.team \in Teams /\ Unset \notin Teams
    BY SeasonConstants DEF TradeAway
  <2> QED BY <2>1, <2>2 DEF Dues, Due
<1>5. table'[i].status = new.status /\ table'[i].kind = new.kind
  <2>1. i = Len(table) + 1 /\ table'[i] = [new EXCEPT !.id = i]
    <3>1. DOMAIN table = 1 .. Len(table) /\ DOMAIN table' = 1 .. Len(table) + 1 /\ Len(table) \in Nat
          /\ table'[Len(table) + 1] = [new EXCEPT !.id = Len(table) + 1]
      BY <1>2, LastRow DEF Typed
    <3> QED BY <3>1
  <2> QED BY <1>3, <2>1 DEF Heir, Row
<1> QED BY <1>3, <1>4, <1>5 DEF Adrift, Live

LEMMA FinishDues ==
  ASSUME Typed, Dues, FinishDeadline, [Next]_vars
  PROVE  \A i \in DOMAIN table' : Adrift(table'[i]) => Due(i)'
<1> SUFFICES ASSUME NEW i \in DOMAIN table', Adrift(table'[i]), i \notin DOMAIN table
             PROVE  FALSE
  BY StepAges, TxnsStay, DueStays
<1> DEFINE d == handled + 1
<1>1. Runs(handler) /\ Handle(d) /\ Numbered
  BY DEF FinishDeadline, Typed, Reads, Idle
<1> HIDE DEF d
<1>2. CASE Calendar[d].kind = "PreseasonStart"
  <2>1. AdvanceRows(d)
    BY <1>1, <1>2 DEF Handle, RosterLockKinds
  <2>2. PICK order, new : /\ Rewrites(handler.rows, new, Cardinality(handler.rows), order)
                          /\ Heirs(handler.rows, new)
                          /\ \A c \in handler.rows : new[c] \in NextSeason(c)
    BY <1>1, <2>1, AdvanceRewrites
  <2>3. \A c \in handler.rows : ~Adrift(new[c])
    BY <1>1, <2>2, RowsOfSeasons DEF Runs, Known, Adrift
  <2> QED BY <1>1, <2>2, <2>3, NoneAdrift
<1>3. CASE Calendar[d].kind = "PreseasonKeeper"
  <2>1. table' \in AllReplaced([c \in Leaving |-> KeeperDrop(c)])
    BY <1>1, <1>3 DEF Handle, RosterLockKinds, ProcessKeepers, Leaving, DropIds
  <2>2. PICK order, new : /\ Rewrites(Leaving, new, Cardinality(Leaving), order) /\ Heirs(Leaving, new)
                          /\ \A c \in Leaving : ~Live(new[c])
    BY <1>1, <2>1, KeepersRewrite
  <2> QED BY <1>1, <2>2, NoneAdrift DEF Adrift
<1>4. CASE Calendar[d].kind \notin {"PreseasonStart", "PreseasonKeeper"}
  BY <1>1, <1>4 DEF Handle, LockRosters
<1> QED BY <1>2, <1>3, <1>4

LEMMA StepDues ==
  ASSUME Typed, Dues, [Next]_vars
  PROVE  Dues'
<1>1. \A i \in DOMAIN table' : Adrift(table'[i]) => Due(i)'
  <2>1. CASE UNCHANGED table
    BY <2>1, StepAges, TxnsStay, DueStays
  <2> QED BY <2>1, CommitMoveDues, TradeAwayDues, FinishDues
          DEF Next, vars, TimePasses, StartDeadline, FailDeadline, BeginMove, RefuseMove, DeclareKeepers,
              FindKeeperTxn, SaveKeepers
<1>2. ASSUME NEW s \in Requests, Moving(s)'
      PROVE  ~Adrift(request'[s].row)
  <2>1. CASE request'[s] = request[s]
    BY <1>2, <2>1 DEF Dues, Moving
  <2>2. ASSUME NEW c \in Range(table), NEW r \in Requests, NEW op \in RosterOps, BeginMove(r, op, c),
               request'[s] # request[s]
        PROVE  ~Adrift(request'[s].row)
    <3>1. request'[s] = [at |-> "moving", op |-> op, row |-> c, deadline |-> now] /\ c.team \in Teams
      BY <2>2 DEF BeginMove, Typed, Reads
    <3>2. request'[s].row = c
      BY <3>1
    <3>3. PICK k \in DOMAIN table : c = table[k]
      BY DEF Range
    <3> QED BY <3>1, <3>2, <3>3, SeasonConstants DEF Dues, Due
  <2>3. CASE \E r \in Requests : CommitMove(r) \/ RefuseMove(r) \/ SaveKeepers(r)
    <3>1. PICK r \in Requests : request' = [request EXCEPT ![r] = Idle]
      BY <2>3 DEF CommitMove, RefuseMove, SaveKeepers
    <3> QED BY <1>2, <2>1, <3>1 DEF Moving, Idle, Typed, Reads
  <2>4. CASE \E r \in Requests, team \in Teams : \E rows : DeclareKeepers(r, team, rows)
    BY <1>2, <2>1, <2>4 DEF DeclareKeepers, Moving, Typed, Reads
  <2>5. CASE \E r \in Requests : FindKeeperTxn(r)
    BY <1>2, <2>1, <2>5 DEF FindKeeperTxn, Moving, Typed, Reads
  <2> QED BY <2>1, <2>2, <2>3, <2>4, <2>5
          DEF Next, vars, TimePasses, StartDeadline, FinishDeadline, FailDeadline, TradeAway
<1> QED BY <1>1, <1>2 DEF Dues

\* A drop on record takes a fifth of the contract's salary off the cap.
LEMMA PenaltyCovers ==
  ASSUME Typed, NEW t \in DOMAIN txns, txns[t].kind = "drop", NEW p, txns[t].contract = p,
         Calendar[txns[t].deadline].kind \notin KeeperKinds
  PROVE  /\ PenaltyOf(table[p]) <= Penalty(table, txns, Calendar, table[p].team, table[p].season)
         /\ Penalty(table, txns, Calendar, table[p].team, table[p].season) \in Nat
<1> DEFINE D == DropsOf(table, txns, Calendar, table[p].team, table[p].season)
           f == [x \in D |-> PenaltyOf(table[txns[x].contract])]
<1>1. t \in D /\ D \subseteq DOMAIN txns
  BY DEF DropsOf
<1>2. IsFiniteSet(D)
  <2>1. Len(txns) \in Nat /\ DOMAIN txns = 1 .. Len(txns)
    BY BooksLengths DEF Typed
  <2>2. IsFiniteSet(DOMAIN txns)
    BY <2>1, FS_Interval
  <2> QED BY <1>1, <2>2, FS_Subset
<1>3. \A x \in D : f[x] \in Nat
  <2> SUFFICES ASSUME NEW x \in D
               PROVE  PenaltyOf(table[txns[x].contract]) \in Nat
    OBVIOUS
  <2>1. txns[x].contract \in DOMAIN table
    BY DEF DropsOf, Typed, Books
  <2>2. table[txns[x].contract].salary \in Nat
    <3>1. table[txns[x].contract] \in Row
      BY <2>1 DEF Typed, Numbered
    <3> QED BY <3>1 DEF Row
  <2> QED BY <2>2, Percents DEF PenaltyOf
<1>4. f[t] = PenaltyOf(table[p]) /\ DOMAIN f = D
  BY <1>1
<1>5. Penalty(table, txns, Calendar, table[p].team, table[p].season) = SumFunctionOnSet(f, D)
  BY DEF Penalty, SumFunction
<1> HIDE DEF D, f
<1>6. f[t] <= SumFunctionOnSet(f, D) /\ SumFunctionOnSet(f, D) \in Nat
  BY <1>1, <1>2, <1>3, SumAtLeast, SumOfNaturals
<1> QED BY <1>4, <1>5, <1>6

LEMMA CapIsNumber ==
  ASSUME NEW d \in DOMAIN Calendar
  PROVE  CapAt(Calendar, d) \in Int
<1>1. Calendar[d].kind \in DeadlineKinds
  <2>1. Calendar \in Seq([kind : DeadlineKinds, season : Nat])
    BY SeasonConstants
  <2>2. Calendar[d] \in [kind : DeadlineKinds, season : Nat]
    BY <2>1, ElementOfSeq, LenProperties
  <2> QED BY <2>2
<1> QED BY <1>1 DEF CapAt, DeadlineKinds, PreseasonKinds, RegularKinds, PostseasonKinds, KeeperKinds,
                    KeeperSalaryLimit, NoCap

LEMMA DuesArePaid ==
  ASSUME Typed, Dues
  PROVE  DropsArePaid
<1> SUFFICES ASSUME NEW c \in LiveRows(table), c.kind = "FreeAgent", NEW d \in DOMAIN Calendar,
                    Calendar[d].season = c.season, Calendar[d].kind \notin KeeperKinds
             PROVE  Spending({}, table, txns, Calendar, table[c.prev].team, d).cap
                      <= CapAt(Calendar, d) - Percent(table[c.prev].salary, 20)
  BY DEF DropsArePaid
<1>1. c.id \in DOMAIN table /\ table[c.id] = c /\ Live(c)
  BY LiveRowsAre DEF Typed
<1>2. PICK p \in DOMAIN table, t \in DOMAIN txns :
       /\ c.prev = p /\ table[p].season = c.season /\ table[p].kind \in CountedKinds
       /\ txns[t].kind = "drop" /\ txns[t].contract = p
       /\ Calendar[txns[t].deadline].kind \notin KeeperKinds
  BY <1>1 DEF Dues, Due, Adrift
<1> DEFINE pen == Penalty(table, txns, Calendar, table[p].team, table[p].season)
<1>3. PenaltyOf(table[p]) <= pen /\ pen \in Nat
  BY <1>2, PenaltyCovers
<1>4. PenaltyOf(table[p]) = Percent(table[p].salary, 20) /\ Percent(table[p].salary, 20) \in Nat
  <2>1. table[p] \in Row
    BY DEF Typed, Numbered
  <2>2. table[p].salary \in Nat
    BY <2>1 DEF Row
  <2>3. Percent(table[p].salary, 20) \in Nat
    BY <2>2, Percents
  <2> QED BY <1>2, <2>3 DEF PenaltyOf
<1>5. Spending({}, table, txns, Calendar, table[p].team, d).cap = CapAt(Calendar, d) - pen
  BY <1>2 DEF Spending, KeeperKinds
<1> HIDE DEF pen
<1> QED BY <1>2, <1>3, <1>4, <1>5, CapIsNumber

\* Whoever drops a counted contract once keepers are settled has a fifth of its salary less to spend
\* at every later deadline of the season, however requests, trades and handlers interleave.
THEOREM DropsCost ==
  ASSUME \A s \in Settings : \A c \in LiveRows(s.rows) : c.kind # "FreeAgent"
  PROVE  Spec => []DropsArePaid
<1>1. Init => Typed /\ Dues
  <2> SUFFICES ASSUME Init
               PROVE  Typed /\ Dues
    OBVIOUS
  <2>1. Typed
    BY InitTyped
  <2>2. \A i \in DOMAIN table : ~Adrift(table[i])
    BY <2>1, LiveRowsAre DEF Init, Typed, Adrift
  <2> QED BY <2>1, <2>2 DEF Init, Dues, Moving, Idle
<1>2. Typed /\ Dues /\ [Next]_vars => (Typed /\ Dues)'
  BY StepTyped, StepDues
<1>3. Typed /\ Dues => DropsArePaid
  BY DuesArePaid
<1> QED BY <1>1, <1>2, <1>3, PTL DEF Spec

-----------------------------------------------------------------------------
(* What keepers leave on a roster *)

\* Rows that stand, one for one, for rows that may be kept may be kept as well.
LEMMA KeepersAllowedInto ==
  ASSUME NEW S, IsFiniteSet(S), S \subseteq Row, KeepersAllowed(S), NEW T, T \subseteq Row,
         NEW h \in [T -> S],
         \A x, y \in T : h[x] = h[y] => x = y,
         \A x \in T : /\ h[x].salary = x.salary
                      /\ x.kind = h[x].kind \/ {x.kind, h[x].kind} \subseteq DevelopmentKinds
  PROVE  KeepersAllowed(T)
<1> DEFINE paidS == {c \in S : c.kind \notin DevelopmentKinds}
           paidT == {c \in T : c.kind \notin DevelopmentKinds}
           g == [x \in paidT |-> h[x]]
           payS == [c \in paidS |-> c.salary]
           payT == [c \in paidT |-> c.salary]
<1>1. /\ \A c \in S : c.kind \in CountedKinds \cup DevelopmentKinds
      /\ Cardinality(paidS) <= KeeperCountLimit
      /\ SalaryOf(paidS) <= KeeperSalaryLimit
  BY DEF KeepersAllowed
<1>2. IsFiniteSet(paidS) /\ Cardinality(paidS) \in Nat
  BY FS_Subset, FS_CardinalityType
<1>3. \A x \in paidT : h[x] \in paidS
  OBVIOUS
<1>4. g \in Injection(paidT, paidS)
  BY <1>3 DEF Injection, IsInjective
<1>5. IsFiniteSet(paidT) /\ Cardinality(paidT) <= Cardinality(paidS)
  <2> HIDE DEF g, paidS, paidT
  <2> QED BY <1>2, <1>4, FS_Injection
<1>6. Cardinality(paidT) <= KeeperCountLimit
  <2>1. Cardinality(paidT) \in Nat /\ KeeperCountLimit \in Nat
    BY <1>5, FS_CardinalityType, LimitConstants
  <2> HIDE DEF paidS, paidT
  <2> QED BY <1>1, <1>2, <1>5, <2>1
<1>7. SalaryOf(paidT) <= SalaryOf(paidS) /\ SalaryOf(paidT) \in Nat /\ SalaryOf(paidS) \in Nat
  <2>1. /\ \A x \in paidT : g[x] \in paidS /\ payT[x] \in Nat /\ payT[x] <= payS[g[x]]
        /\ \A y \in paidS : payS[y] \in Nat
    BY <1>3 DEF Row
  <2>2. \A x, y \in paidT : g[x] = g[y] => x = y
    OBVIOUS
  <2>3. SalaryOf(paidT) = SumFunctionOnSet(payT, paidT) /\ SalaryOf(paidS) = SumFunctionOnSet(payS, paidS)
    BY DEF SalaryOf, SumFunction
  <2> HIDE DEF g, paidS, paidT, payS, payT
  <2>4. SumFunctionOnSet(payT, paidT) <= SumFunctionOnSet(payS, paidS)
    BY <1>2, <1>5, <2>1, <2>2, SumIntoLarger
  <2>5. SumFunctionOnSet(payT, paidT) \in Nat /\ SumFunctionOnSet(payS, paidS) \in Nat
    BY <1>2, <1>5, <2>1, SumOfNaturals
  <2> QED BY <2>3, <2>4, <2>5
<1>8. SalaryOf(paidT) <= KeeperSalaryLimit
  <2> HIDE DEF paidS, paidT
  <2> QED BY <1>1, <1>7 DEF KeeperSalaryLimit
<1>9. \A c \in T : c.kind \in CountedKinds \cup DevelopmentKinds
  BY <1>1
<1> QED BY <1>6, <1>8, <1>9 DEF KeepersAllowed

LEMMA FewerKeepers ==
  ASSUME NEW S, IsFiniteSet(S), S \subseteq Row, KeepersAllowed(S), NEW T, T \subseteq S
  PROVE  KeepersAllowed(T)
<1> DEFINE h == [x \in T |-> x]
<1>1. h \in [T -> S] /\ T \subseteq Row /\ \A x \in T : h[x] = x
  OBVIOUS
<1> HIDE DEF h
<1> QED BY <1>1, KeepersAllowedInto

\* What becomes of team updates: only a handler that ends settles them.
LEMMA UpdatesStay ==
  ASSUME Typed, [Next]_vars
  PROVE  \A u \in DOMAIN updates :
           /\ u \in DOMAIN updates' /\ updates'[u].txn = updates[u].txn /\ updates'[u].team = updates[u].team
           /\ updates'[u].status = "Pending" => updates[u].status = "Pending"
           /\ ~FinishDeadline => updates'[u].status = updates[u].status
           /\ (\A r \in Requests : ~SaveKeepers(r)) => updates'[u].drops = updates[u].drops
<1>0. updates \in Seq(UpdateType(Len(txns))) /\ Len(txns) \in Nat
      /\ Len(updates) \in Nat /\ DOMAIN updates = 1 .. Len(updates)
  BY BooksLengths DEF Typed, Books
<1>1. CASE UNCHANGED updates
  BY <1>1
<1>2. ASSUME NEW x, updates' = Append(updates, x)
      PROVE  \A u \in DOMAIN updates : u \in DOMAIN updates' /\ updates'[u] = updates[u]
  BY <1>0, <1>2
<1>3. CASE FinishDeadline
  <2>1. Runs(handler) /\ Handle(handled + 1) /\ handled + 1 \in DOMAIN Calendar
    BY <1>3, NextDeadline DEF FinishDeadline, Typed, Reads, Idle
  <2>2. CASE Calendar[handled + 1].kind = "PreseasonStart"
    <3>1. AdvanceRows(handled + 1) /\ Aged
      BY <2>1, <2>2, StepAges DEF Handle, RosterLockKinds
    <3>2. DOMAIN updates \subseteq DOMAIN updates' /\ \A u \in DOMAIN updates : updates'[u] = updates[u]
      BY <2>1, <3>1, AdvanceWrites
    <3> QED BY <1>3, <3>2
  <2>3. ASSUME NEW ids, updates' = SetDone(ids)
        PROVE  \A u \in DOMAIN updates :
                 /\ u \in DOMAIN updates' /\ updates'[u].txn = updates[u].txn
                    /\ updates'[u].team = updates[u].team
                 /\ updates'[u].status = "Pending" => updates[u].status = "Pending"
                 /\ updates'[u].drops = updates[u].drops
    BY <1>0, <2>3, UpdatesDone
  <2>4. CASE Calendar[handled + 1].kind # "PreseasonStart"
    BY <1>1, <1>3, <2>1, <2>3, <2>4 DEF Handle, ProcessKeepers, LockRosters
  <2> QED BY <2>2, <2>4
<1>4. CASE \E r \in Requests : CommitMove(r)
  BY <1>2, <1>4 DEF CommitMove
<1>5. ASSUME NEW r \in Requests, SaveKeepers(r)
      PROVE  \A u \in DOMAIN updates :
               /\ u \in DOMAIN updates' /\ updates'[u].txn = updates[u].txn
                  /\ updates'[u].team = updates[u].team
               /\ updates'[u].status = updates[u].status
  <2>1. PICK keeps \in SUBSET Nat, drops \in SUBSET Nat :
          /\ Declares(request[r]) /\ request[r].at = "saving"
          /\ updates' = SavedUpdates(request[r], IF request[r].txn = 0 THEN Len(txns) + 1 ELSE request[r].txn,
                                     keeps, drops)
    BY <1>5, SaveKeepersWrites
  <2>2. CASE request[r].update = 0
    BY <1>2, <2>1, <2>2 DEF SavedUpdates
  <2>3. CASE request[r].update # 0
    <3> DEFINE i == request[r].update
    <3>1. i \in DOMAIN updates /\ updates' = [updates EXCEPT ![i].keeps = keeps, ![i].drops = drops]
      BY <2>1, <2>3 DEF SavedUpdates, Declares
    <3> HIDE DEF i
    <3>2. DOMAIN updates' = DOMAIN updates
          /\ \A j \in DOMAIN updates :
               updates'[j] =
                   IF j = i THEN [updates[i] EXCEPT !.keeps = keeps, !.drops = drops] ELSE updates[j]
      BY <1>0, <3>1, UpdateChanged
    <3>3. updates[i] \in UpdateType(Len(txns))
      BY <1>0, <3>1
    <3> QED BY <3>2, <3>3 DEF UpdateType
  <2> QED BY <2>2, <2>3
<1> QED BY <1>1, <1>3, <1>4, <1>5 DEF Next, vars, TimePasses, StartDeadline, FailDeadline, TradeAway,
                                      BeginMove, RefuseMove, DeclareKeepers, FindKeeperTxn

\* As the league goes about it: keepers are declared once the contracts are in their new season.
KeepersAfterAdvance ==
  \A s \in Settings :
    "keepers" \in s.ops => \A d \in s.first + 1 .. s.last : Calendar[d].kind # "PreseasonStart"

Span == setting.first <= handled /\ (handled < now => now <= setting.last)

\* A declaration under way has been validated, and the update it has found is the team's own.
Checked(q) ==
  q.at \in {"finding", "saving"} =>
    /\ "keepers" \in setting.ops
    /\ IsFiniteSet(q.rows) /\ q.rows \subseteq Row /\ KeepersAllowed(q.rows)
    /\ q.at = "saving" /\ q.update # 0 => updates[q.update].team = q.team
Fine(r) == Checked(request[r]) /\ (Moving(r) => request[r].op \in setting.ops)
Permitted == \A r \in Requests : Fine(r)
KeepersTxns == \A t \in DOMAIN txns : txns[t].kind = "keeper" => "keepers" \in setting.ops
Settling ==
  handler # Idle => /\ handler.txn # 0 => txns[handler.txn].kind = "keeper"
                    /\ \A u \in handler.settles : updates[u].txn = handler.txn
KnownDrops == \A u \in DOMAIN updates : updates[u].drops \subseteq DOMAIN table
Declared == Span /\ Permitted /\ KeepersTxns /\ Settling /\ KnownDrops

LEMMA SettingStays ==
  ASSUME [Next]_vars
  PROVE  UNCHANGED setting
BY DEF Next, vars, TimePasses, StartDeadline, FinishDeadline, FailDeadline, TradeAway, BeginMove, CommitMove,
       RefuseMove, DeclareKeepers, FindKeeperTxn, SaveKeepers

LEMMA SpanStays ==
  ASSUME Typed, Span, [Next]_vars
  PROVE  Span'
<1>1. /\ setting.first \in Nat /\ setting.last \in Nat /\ now \in Nat /\ handled \in Nat
  <2>1. setting.first \in DOMAIN Calendar /\ setting.last \in DOMAIN Calendar
    BY SeasonConstants DEF Typed, Times, Setting
  <2>2. Len(Calendar) \in Nat /\ DOMAIN Calendar = 1 .. Len(Calendar)
    BY SeasonConstants, LenProperties
  <2> QED BY <2>1, <2>2 DEF Typed, Times
<1>2. UNCHANGED setting
  BY SettingStays
<1>3. CASE TimePasses
  BY <1>1, <1>2, <1>3 DEF TimePasses, Span
<1>4. CASE FinishDeadline
  BY <1>1, <1>2, <1>4 DEF FinishDeadline, Span
<1>5. CASE UNCHANGED <<now, handled>>
  BY <1>2, <1>5 DEF Span
<1> QED BY <1>3, <1>4, <1>5 DEF Next, vars, StartDeadline, FailDeadline, TradeAway, BeginMove, CommitMove,
                               RefuseMove, DeclareKeepers, FindKeeperTxn, SaveKeepers

\* A declaration goes on with what it has found, so that what it saves is its own team's.
LEMMA FoundChecked ==
  ASSUME Typed, Permitted, NEW r \in Requests, FindKeeperTxn(r)
  PROVE  Checked(request[r])' /\ ~Moving(r)' /\ \A s \in Requests : s # r => request'[s] = request[s]
<1>1. PICK t \in SomeOrNone(KeeperTxns(request[r].season)) :
        \E u \in SomeOrNone(UpdatesOf(t, request[r].team)) :
        request' = [request EXCEPT ![r] = [at |-> "saving", team |-> @.team, rows |-> @.rows,
                                           season |-> @.season, txn |-> t, update |-> u]]
  BY DEF FindKeeperTxn
<1>0. PICK u \in SomeOrNone(UpdatesOf(t, request[r].team)) :
        request' = [request EXCEPT ![r] = [at |-> "saving", team |-> @.team, rows |-> @.rows,
                                           season |-> @.season, txn |-> t, update |-> u]]
  BY <1>1
<1>2. request[r].at = "finding" /\ UNCHANGED <<setting, updates>>
  BY DEF FindKeeperTxn
<1>3. u # 0 => updates[u].team = request[r].team
  BY DEF SomeOrNone, UpdatesOf
<1> DEFINE q == [at |-> "saving", team |-> request[r].team, rows |-> request[r].rows,
                 season |-> request[r].season, txn |-> t, update |-> u]
<1>4. request' = [request EXCEPT ![r] = q] /\ request'[r] = q
  BY <1>0 DEF Typed, Reads
<1>5. q.at = "saving" /\ q.team = request[r].team /\ q.rows = request[r].rows /\ q.update = u
  OBVIOUS
<1> HIDE DEF q
<1>6. Checked(request[r])'
  BY <1>2, <1>3, <1>4, <1>5 DEF Checked, Permitted, Fine
<1> QED BY <1>4, <1>5, <1>6 DEF Moving, Typed, Reads

LEMMA DeclaredChecked ==
  ASSUME Typed, NEW r \in Requests, NEW team, NEW rows \in SUBSET {c \in Range(table) : c.team = team},
         DeclareKeepers(r, team, rows)
  PROVE  Checked(request[r])' /\ ~Moving(r)' /\ \A s \in Requests : s # r => request'[s] = request[s]
<1> DEFINE q == [at |-> "finding", team |-> team, rows |-> rows, season |-> Calendar[now].season]
<1>1. request' = [request EXCEPT ![r] = q] /\ request'[r] = q
  BY DEF DeclareKeepers, Typed, Reads
<1>2. q.at = "finding" /\ q.rows = rows
  OBVIOUS
<1> HIDE DEF q
<1>3. "keepers" \in setting.ops /\ UNCHANGED setting /\ KeepersAllowed(rows)
  BY DEF DeclareKeepers
<1>4. IsFiniteSet(rows) /\ rows \subseteq Row
  <2>1. table \in Seq(Row)
    BY DEF Typed, Numbered
  <2>2. IsFiniteSet(Range(table)) /\ Range(table) \subseteq Row
    BY <2>1, RangeFinite
  <2> QED BY <2>2, FS_Subset
<1> QED BY <1>1, <1>2, <1>3, <1>4 DEF Checked, Moving, Typed, Reads

\* Where a team's update comes from: it was there, a move or a handler adds it, or a declaration
\* writes it.
Lasts(u) ==
  /\ u \in DOMAIN updates /\ updates'[u].txn = updates[u].txn /\ updates'[u].team = updates[u].team
  /\ updates'[u].drops = updates[u].drops
Empty(u) == u \notin DOMAIN updates /\ updates'[u].drops = {} /\ txns'[updates'[u].txn].kind # "keeper"
Saved(u, r) ==
  /\ SaveKeepers(r) /\ updates'[u].team = request[r].team
  /\ updates'[u].drops = DeclaredDrops(Rostered(table, request[r].team), request[r].rows)

LEMMA SavedUpdate ==
  ASSUME Typed, Permitted, NEW r \in Requests, SaveKeepers(r), NEW u \in DOMAIN updates'
  PROVE  Lasts(u) \/ Saved(u, r)
<1> DEFINE q == request[r]
           txn == IF q.txn = 0 THEN Len(txns) + 1 ELSE q.txn
<1>0. updates \in Seq(UpdateType(Len(txns))) /\ Len(txns) \in Nat
      /\ Len(updates) \in Nat /\ DOMAIN updates = 1 .. Len(updates)
  BY BooksLengths DEF Typed, Books
<1>1. PICK keeps \in SUBSET Nat, drops \in SUBSET Nat :
        /\ Declares(q) /\ q.at = "saving" /\ drops = DeclaredDrops(Rostered(table, q.team), q.rows)
        /\ updates' = SavedUpdates(q, txn, keeps, drops)
  BY SaveKeepersWrites
<1>2. q.update # 0 => updates[q.update].team = q.team
  BY <1>1 DEF Permitted, Fine, Checked
<1> HIDE DEF q, txn
<1>3. CASE q.update = 0
  <2> DEFINE new == [Update(txn, q.team, "Pending") EXCEPT !.keeps = keeps, !.drops = drops]
  <2>1. updates' = Append(updates, new) /\ new.team = q.team /\ new.drops = drops
    BY <1>1, <1>3 DEF SavedUpdates, Update
  <2> HIDE DEF new
  <2>2. CASE u \in DOMAIN updates
    BY <1>0, <2>1, <2>2 DEF Lasts
  <2>3. CASE u \notin DOMAIN updates
    <3>1. u = Len(updates) + 1 /\ updates'[u] = new
      BY <1>0, <2>1, <2>3
    <3> QED BY <1>1, <2>1, <3>1 DEF Saved, q
  <2> QED BY <2>2, <2>3
<1>4. CASE q.update # 0
  <2> DEFINE i == q.update
  <2>1. i \in DOMAIN updates /\ updates' = [updates EXCEPT ![i].keeps = keeps, ![i].drops = drops]
    BY <1>1, <1>4 DEF SavedUpdates, Declares
  <2> HIDE DEF i
  <2>2. DOMAIN updates' = DOMAIN updates
        /\ \A j \in DOMAIN updates :
             updates'[j] = IF j = i THEN [updates[i] EXCEPT !.keeps = keeps, !.drops = drops] ELSE updates[j]
    BY <1>0, <2>1, UpdateChanged
  <2>3. updates[i] \in UpdateType(Len(txns))
    BY <1>0, <2>1
  <2>4. CASE u = i
    <3>1. updates'[u].team = q.team /\ updates'[u].drops = drops
      BY <1>2, <1>4, <2>2, <2>3, <2>4 DEF UpdateType, i
    <3> QED BY <1>1, <3>1 DEF Saved, q
  <2>5. CASE u # i
    BY <2>2, <2>5 DEF Lasts
  <2> QED BY <2>4, <2>5
<1> QED BY <1>3, <1>4

LEMMA UpdatesComeFrom ==
  ASSUME Typed, Permitted, [Next]_vars, NEW u \in DOMAIN updates'
  PROVE  Lasts(u) \/ Empty(u) \/ \E r \in Requests : Saved(u, r)
<1>0. updates \in Seq(UpdateType(Len(txns))) /\ txns \in Seq(TxnType) /\ Len(txns) \in Nat
      /\ Len(updates) \in Nat /\ DOMAIN updates = 1 .. Len(updates)
  BY BooksLengths DEF Typed, Books
<1>1. CASE UNCHANGED updates
  BY <1>1 DEF Lasts
<1>2. CASE FinishDeadline
  <2>1. Runs(handler) /\ Handle(handled + 1) /\ handled + 1 \in DOMAIN Calendar
    BY <1>2, NextDeadline DEF FinishDeadline, Typed, Reads, Idle
  <2>2. CASE Calendar[handled + 1].kind = "PreseasonStart"
    <3>1. AdvanceRows(handled + 1) /\ Aged
      BY <2>1, <2>2, StepAges DEF Handle, RosterLockKinds
    <3>2. /\ txns' = Append(txns, Txn("start", Unset, handled + 1))
          /\ \A v \in DOMAIN updates : updates'[v] = updates[v]
          /\ u \in DOMAIN updates \/ (updates'[u].txn = Len(txns) + 1 /\ updates'[u].drops = {})
      BY <2>1, <3>1, AdvanceWrites
    <3>3. txns'[Len(txns) + 1].kind = "start"
      <4>1. txns'[Len(txns) + 1] = Txn("start", Unset, handled + 1)
        BY <1>0, <3>2
      <4> QED BY <4>1 DEF Txn
    <3> QED BY <3>2, <3>3 DEF Lasts, Empty
  <2>3. ASSUME NEW ids, updates' = SetDone(ids)
        PROVE  Lasts(u)
    BY <1>0, <2>3, UpdatesDone DEF Lasts
  <2>4. CASE Calendar[handled + 1].kind # "PreseasonStart"
    BY <1>1, <2>1, <2>3, <2>4 DEF Handle, ProcessKeepers, LockRosters
  <2> QED BY <2>2, <2>4
<1>3. ASSUME NEW r \in Requests, CommitMove(r)
      PROVE  Lasts(u) \/ Empty(u)
  <2> DEFINE m == request[r]
             t == MoveTxn(m.op, m.row, m.deadline)
             new == Update(Len(txns) + 1, m.row.team, IF m.op = "drop" THEN "Done" ELSE "Pending")
  <2>1. txns' = Append(txns, t) /\ updates' = Append(updates, new)
    BY <1>3, CommitMoveWrites
  <2>2. t.kind # "keeper" /\ new.drops = {} /\ new.txn = Len(txns) + 1
    BY DEF MoveTxn, Txn, Update
  <2> HIDE DEF m, t, new
  <2>3. CASE u \in DOMAIN updates
    BY <1>0, <2>1, <2>3 DEF Lasts
  <2>4. CASE u \notin DOMAIN updates
    <3>1. updates'[u] = new /\ txns'[Len(txns) + 1] = t
      BY <1>0, <2>1, <2>4
    <3> QED BY <2>2, <2>4, <3>1 DEF Empty
  <2> QED BY <2>3, <2>4
<1> QED BY <1>1, <1>2, <1>3, SavedUpdate
        DEF Next, vars, TimePasses, StartDeadline, FailDeadline, TradeAway, BeginMove, RefuseMove,
            DeclareKeepers, FindKeeperTxn

LEMMA KnownDropsStay ==
  ASSUME Typed, Permitted, KnownDrops, [Next]_vars
  PROVE  KnownDrops'
<1> SUFFICES ASSUME NEW u \in DOMAIN updates'
             PROVE  updates'[u].drops \subseteq DOMAIN table'
  BY DEF KnownDrops
<1>1. DOMAIN table \subseteq DOMAIN table'
  BY StepAges DEF Aged
<1>2. CASE Lasts(u)
  BY <1>1, <1>2 DEF Lasts, KnownDrops
<1>3. CASE Empty(u)
  BY <1>3 DEF Empty
<1>4. ASSUME NEW r \in Requests, Saved(u, r)
      PROVE  updates'[u].drops \subseteq DOMAIN table'
  <2>1. \A c \in Rostered(table, request[r].team) : c.id \in DOMAIN table
    BY DEF Rostered, Typed, Numbered
  <2> QED BY <1>1, <1>4, <2>1 DEF Saved, DeclaredDrops
<1> QED BY <1>2, <1>3, <1>4, UpdatesComeFrom

LEMMA KeepersTxnsStay ==
  ASSUME Typed, Permitted, KeepersTxns, [Next]_vars
  PROVE  KeepersTxns'
<1> SUFFICES ASSUME NEW t \in DOMAIN txns', txns'[t].kind = "keeper", t \notin DOMAIN txns
             PROVE  "keepers" \in setting.ops
  BY TxnsStay, SettingStays DEF KeepersTxns
<1>0. txns \in Seq(TxnType) /\ Len(txns) \in Nat /\ DOMAIN txns = 1 .. Len(txns)
  BY BooksLengths DEF Typed, Books
<1>1. ASSUME NEW x, txns' = Append(txns, x)
      PROVE  x.kind = "keeper"
  BY <1>0, <1>1
<1>2. CASE FinishDeadline
  <2>1. Runs(handler) /\ Handle(handled + 1)
    BY <1>2 DEF FinishDeadline, Typed, Reads, Idle
  <2>2. CASE Calendar[handled + 1].kind = "PreseasonStart"
    <3>1. txns' = Append(txns, Txn("start", Unset, handled + 1))
      BY <2>1, <2>2 DEF Handle, RosterLockKinds, AdvanceRows
    <3> QED BY <1>1, <3>1 DEF Txn
  <2>3. CASE Calendar[handled + 1].kind # "PreseasonStart"
    BY <2>1, <2>3 DEF Handle, ProcessKeepers, LockRosters
  <2> QED BY <2>2, <2>3
<1>3. ASSUME NEW r \in Requests, CommitMove(r)
      PROVE  FALSE
  <2> DEFINE x == MoveTxn(request[r].op, request[r].row, request[r].deadline)
  <2>1. txns' = Append(txns, x) /\ x.kind # "keeper"
    BY <1>3 DEF CommitMove, MoveTxn, Txn
  <2> HIDE DEF x
  <2> QED BY <1>1, <2>1
<1>4. ASSUME NEW r \in Requests, SaveKeepers(r)
      PROVE  "keepers" \in setting.ops
  BY <1>4 DEF SaveKeepers, Permitted, Fine, Checked
<1> QED BY <1>2, <1>3, <1>4
        DEF Next, vars, TimePasses, StartDeadline, FailDeadline, TradeAway, BeginMove, RefuseMove,
            DeclareKeepers, FindKeeperTxn

LEMMA SettlingStays ==
  ASSUME Typed, Settling, [Next]_vars
  PROVE  Settling'
<1>1. CASE handler' = handler
  <2> SUFFICES ASSUME handler # Idle
               PROVE  /\ handler.txn # 0 => txns'[handler.txn].kind = "keeper"
                      /\ \A u \in handler.settles : updates'[u].txn = handler.txn
    BY <1>1 DEF Settling
  <2>1. handler.txn \in {0} \cup DOMAIN txns /\ handler.settles \subseteq DOMAIN updates
    BY DEF Typed, Reads, Runs
  <2> QED BY <2>1, TxnsStay, UpdatesStay DEF Settling
<1>2. CASE StartDeadline
  <2> DEFINE keepers == {t \in DOMAIN txns : txns[t].kind = "keeper" /\ txns[t].deadline = handled + 1}
  <2>1. PICK t \in SomeOrNone(keepers) :
          handler' = [at |-> "running", rows |-> LiveRows(table), txn |-> t,
                      settles |-> {u \in DOMAIN updates :
                                     updates[u].txn = t /\ updates[u].status = "Pending"}]
    BY <1>2 DEF StartDeadline
  <2>2. UNCHANGED <<txns, updates>> /\ (t # 0 => t \in keepers)
    BY <1>2 DEF StartDeadline, SomeOrNone
  <2>3. handler'.txn = t /\ \A u \in handler'.settles : updates[u].txn = t
    BY <2>1
  <2> QED BY <2>2, <2>3 DEF Settling
<1>3. CASE handler' = Idle
  BY <1>3 DEF Settling, Idle
<1> QED BY <1>1, <1>2, <1>3
        DEF Next, vars, TimePasses, FinishDeadline, FailDeadline, TradeAway, BeginMove, CommitMove,
            RefuseMove, DeclareKeepers, FindKeeperTxn, SaveKeepers

LEMMA PermittedStays ==
  ASSUME Typed, Permitted, [Next]_vars
  PROVE  Permitted'
<1>1. ASSUME NEW r \in Requests, request'[r] = request[r]
      PROVE  Fine(r)'
  <2>1. request[r].at = "saving" => request[r].update \in {0} \cup DOMAIN updates
    BY DEF Typed, Reads, Moves, Declares, Idle
  <2>2. \A u \in DOMAIN updates : updates'[u].team = updates[u].team
    BY UpdatesStay
  <2>3. UNCHANGED setting
    BY SettingStays
  <2>4. Checked(request[r])'
    BY <1>1, <2>1, <2>2, <2>3 DEF Permitted, Fine, Checked
  <2>5. Moving(r)' => request'[r].op \in setting'.ops
    BY <1>1, <2>3 DEF Permitted, Fine, Moving
  <2> QED BY <2>4, <2>5 DEF Fine
<1>2. ASSUME NEW r \in Requests, request'[r] = Idle
      PROVE  Fine(r)'
  BY <1>2 DEF Fine, Checked, Moving, Idle
<1>3. ASSUME NEW r \in Requests, NEW s \in Requests, request' = [request EXCEPT ![s] = Idle]
      PROVE  Fine(r)'
  BY <1>1, <1>2, <1>3 DEF Typed, Reads
<1>4. ASSUME NEW r \in Requests, NEW s \in Requests, NEW op \in RosterOps, NEW c, BeginMove(s, op, c)
      PROVE  Fine(r)'
  <2> DEFINE q == [at |-> "moving", op |-> op, row |-> c, deadline |-> now]
  <2>1. request' = [request EXCEPT ![s] = q] /\ op \in setting.ops /\ UNCHANGED setting
    BY <1>4 DEF BeginMove
  <2>2. q.at = "moving" /\ q.op = op
    OBVIOUS
  <2> HIDE DEF q
  <2>3. CASE r = s
    <3>1. request'[r] = q
      BY <2>1, <2>3 DEF Typed, Reads
    <3> QED BY <2>1, <2>2, <3>1 DEF Fine, Checked
  <2>4. CASE r # s
    BY <1>1, <2>1, <2>4 DEF Typed, Reads
  <2> QED BY <2>3, <2>4
<1>5. ASSUME NEW r \in Requests, NEW s \in Requests, FindKeeperTxn(s)
      PROVE  Fine(r)'
  BY <1>1, <1>5, FoundChecked DEF Fine
<1>6. ASSUME NEW r \in Requests, NEW s \in Requests, NEW team \in Teams,
             NEW rows \in SUBSET {c \in Range(table) : c.team = team}, DeclareKeepers(s, team, rows)
      PROVE  Fine(r)'
  BY <1>1, <1>6, DeclaredChecked DEF Fine
<1>7. ASSUME NEW r \in Requests, UNCHANGED request
      PROVE  Fine(r)'
  BY <1>1, <1>7
<1>8. ASSUME NEW r \in Requests
      PROVE  Fine(r)'
  BY <1>3, <1>4, <1>5, <1>6, <1>7
     DEF Next, vars, TimePasses, StartDeadline, FinishDeadline, FailDeadline, TradeAway, CommitMove,
         RefuseMove, SaveKeepers
<1> QED BY <1>8 DEF Permitted

LEMMA StepDeclared ==
  ASSUME Typed, Declared, [Next]_vars
  PROVE  Declared'
BY SpanStays, PermittedStays, KeepersTxnsStay, SettlingStays, KnownDropsStay DEF Declared

LEMMA InitDeclared ==
  ASSUME Init
  PROVE  Declared
<1>1. Span
  <2>1. setting.first \in DOMAIN Calendar /\ setting.last \in DOMAIN Calendar
    BY SeasonConstants DEF Init, Setting
  <2>2. Len(Calendar) \in Nat /\ DOMAIN Calendar = 1 .. Len(Calendar)
    BY SeasonConstants, LenProperties
  <2> QED BY <2>1, <2>2 DEF Init, Span
<1>2. Permitted /\ Settling
  BY DEF Init, Permitted, Fine, Settling, Checked, Moving, Idle
<1>3. KeepersTxns /\ KnownDrops
  BY DEF Init, KeepersTxns, KnownDrops
<1> QED BY <1>1, <1>2, <1>3 DEF Declared

\* The rows that a declaration leaves its team, and that they may be kept as long as what it drops
\* is still there.
Remaining(u) ==
  {c \in LiveRows(table) :
     c.team = updates[u].team /\ c.kind \notin ExpiringKinds /\ c.id \notin updates[u].drops}
AllLive(u) == updates[u].drops \subseteq {c.id : c \in LiveRows(table)}
Covered ==
  InTurn /\ setting.ops \cap {"activate", "trade"} = {} =>
    \A u \in DOMAIN updates :
      txns[updates[u].txn].kind = "keeper" /\ AllLive(u) => KeepersAllowed(Remaining(u))

LEMMA OldLive ==
  ASSUME Numbered, Numbered', Aged, NEW c \in LiveRows(table')
  PROVE  c \in Row /\ (c.id \in DOMAIN table => c \in LiveRows(table))
<1>1. /\ table' \in Seq(Row) /\ \A i \in DOMAIN table' : table'[i].id = i
  BY DEF Numbered
<1>2. c \in Row /\ Live(c) /\ c.id \in DOMAIN table' /\ table'[c.id] = c
  BY <1>1, LiveRowsOf
<1>3. c.id \in DOMAIN table => table[c.id] = c
  BY <1>2 DEF Aged
<1> QED BY <1>2, <1>3, LiveRowsAre

LEMMA StillAllLive ==
  ASSUME Numbered, Numbered', Aged, KnownDrops, NEW u, Lasts(u), AllLive(u)'
  PROVE  AllLive(u)
<1> SUFFICES ASSUME NEW i \in updates[u].drops
             PROVE  i \in {c.id : c \in LiveRows(table)}
  BY DEF AllLive
<1>1. PICK c \in LiveRows(table') : c.id = i
  BY DEF AllLive, Lasts
<1>2. i \in DOMAIN table
  BY DEF KnownDrops, Lasts
<1> QED BY <1>1, <1>2, OldLive

LEMMA FewerRemain ==
  ASSUME Numbered, NEW u, KeepersAllowed(Remaining(u)), Remaining(u)' \subseteq Remaining(u)
  PROVE  KeepersAllowed(Remaining(u)')
<1>1. IsFiniteSet(Remaining(u)) /\ Remaining(u) \subseteq Row
  BY LiveRowsAre, FS_Subset DEF Remaining
<1> HIDE DEF Remaining
<1> QED BY <1>1, FewerKeepers

\* What a move leaves alive: what was, without its row, and perhaps the new one.
LEMMA MoveLeaves ==
  ASSUME Typed, Typed', Turns, InTurn, Aged, NEW r \in Requests, CommitMove(r)
  PROVE  \E new : LET c == request[r].row IN
           /\ c \in LiveRows(table) /\ c \in Row /\ c.team \in Teams
           /\ request[r].op # "drop" => Stays(request[r].op, c, new)
           /\ request[r].op = "drop" => new.team = Unset
           /\ \A x \in LiveRows(table') :
                \/ x \in LiveRows(table) /\ x # c /\ x.id # Len(table) + 1
                \/ /\ x.id = Len(table) + 1
                   /\ x.team = new.team /\ x.kind = new.kind /\ x.salary = new.salary
<1> DEFINE m == request[r]
           c == m.row
<1>1. PICK new : /\ Moves(m) /\ new \in Moved(m.op, c, m.deadline)
                 /\ Rewrites({c}, [x \in {c} |-> new], 1, [j \in 1 .. 1 |-> c])
                 /\ Heirs({c}, [x \in {c} |-> new])
  BY CommitMoveWrites
<1>2. c \in LiveRows(table)
  BY DEF CommitMove, Turns, Fresh, Moving
<1> HIDE DEF m
<1>3. c \in Row /\ c.id \in DOMAIN table /\ table[c.id] = c /\ c.team \in Teams /\ m.op \in RosterOps
  BY <1>1, <1>2, LiveRowsAre DEF Typed, Moves
<1>4. /\ Heir(c, new)
      /\ m.op # "drop" => Stays(m.op, c, new)
      /\ m.op = "drop" => new.team = Unset
  BY <1>1, <1>3, RowsOfMoves DEF Goes
<1> HIDE DEF c
<1>5. /\ Len(table) \in Nat /\ DOMAIN table = 1 .. Len(table) /\ DOMAIN table' = 1 .. Len(table) + 1
      /\ table'[Len(table) + 1] = [new EXCEPT !.id = Len(table) + 1]
      /\ \A i \in DOMAIN table : table'[i] = IF c.id = i THEN [table[i] EXCEPT !.status = "Replaced"]
                                             ELSE table[i]
  BY <1>1, LastRow DEF Typed
<1>6. ASSUME NEW x \in LiveRows(table')
      PROVE  \/ x \in LiveRows(table) /\ x # c /\ x.id # Len(table) + 1
             \/ x.id = Len(table) + 1 /\ x.team = new.team /\ x.kind = new.kind /\ x.salary = new.salary
  <2>1. table' \in Seq(Row) /\ \A i \in DOMAIN table' : table'[i].id = i
    BY DEF Typed, Numbered
  <2>2. x.id \in DOMAIN table' /\ table'[x.id] = x /\ Live(x)
    BY <2>1, LiveRowsOf
  <2>3. CASE x.id \in DOMAIN table
    <3>1. x \in LiveRows(table) /\ x.id # Len(table) + 1
      BY <1>5, <2>3, OldLive DEF Typed
    <3>2. x # c
      <4>1. table'[c.id].status = "Replaced"
        BY <1>3, <1>5 DEF Row
      <4> QED BY <2>2, <4>1 DEF Live
    <3> QED BY <3>1, <3>2
  <2>4. CASE x.id \notin DOMAIN table
    <3>1. x.id = Len(table) + 1 /\ x = [new EXCEPT !.id = Len(table) + 1]
      BY <1>5, <2>2, <2>4
    <3>2. x.team = new.team /\ x.kind = new.kind /\ x.salary = new.salary
      BY <1>4, <3>1 DEF Heir, Row
    <3> QED BY <3>1, <3>2
  <2> QED BY <2>3, <2>4
<1> QED BY <1>2, <1>3, <1>4, <1>6 DEF c, m

LEMMA CommitMoveCovers ==
  ASSUME Typed, Typed', Turns, InTurn, Aged, Declared, setting.ops \cap {"activate", "trade"} = {},
         NEW r \in Requests, CommitMove(r),
         NEW u, Lasts(u), AllLive(u)', KeepersAllowed(Remaining(u))
  PROVE  KeepersAllowed(Remaining(u)')
<1> DEFINE m == request[r]
           c == m.row
<1>1. PICK new :
           /\ c \in LiveRows(table) /\ c \in Row /\ c.team \in Teams
           /\ m.op # "drop" => Stays(m.op, c, new)
           /\ m.op = "drop" => new.team = Unset
           /\ \A x \in LiveRows(table') :
                \/ x \in LiveRows(table) /\ x # c /\ x.id # Len(table) + 1
                \/ /\ x.id = Len(table) + 1
                   /\ x.team = new.team /\ x.kind = new.kind /\ x.salary = new.salary
  BY MoveLeaves
<1>2. m.op # "activate"
  BY DEF CommitMove, Declared, Permitted, Fine, Moving
<1> HIDE DEF m, c
<1>3. /\ updates'[u].team = updates[u].team /\ updates'[u].drops = updates[u].drops
      /\ u \in DOMAIN updates
  BY DEF Lasts
<1>4. updates[u].team \in Teams /\ Unset \notin Teams
  <2>1. updates \in Seq(UpdateType(Len(txns)))
    BY DEF Typed, Books
  <2>2. updates[u] \in UpdateType(Len(txns))
    BY <1>3, <2>1
  <2> QED BY <2>2, SeasonConstants DEF UpdateType
<1>5. CASE m.op = "drop"
  <2>1. Remaining(u)' \subseteq Remaining(u)
    BY <1>1, <1>3, <1>4, <1>5 DEF Remaining
  <2> QED BY <2>1, FewerRemain DEF Typed
<1>6. CASE m.op # "drop"
  <2> DEFINE S == Remaining(u)
             T == Remaining(u)'
             h == [x \in T |-> IF x.id = Len(table) + 1 THEN c ELSE x]
  <2>1. Stays(m.op, c, new) /\ (new.kind = c.kind \/ {c.kind, new.kind} \subseteq DevelopmentKinds)
    BY <1>1, <1>2, <1>6 DEF Stays
  <2>2. c.id \notin updates[u].drops
    <3> SUFFICES ASSUME c.id \in updates[u].drops
                 PROVE  FALSE
      OBVIOUS
    <3>1. PICK x \in LiveRows(table') : x.id = c.id
      BY <1>3 DEF AllLive
    <3>2. c.id \in DOMAIN table /\ table[c.id] = c /\ Len(table) \in Nat /\ DOMAIN table = 1 .. Len(table)
      BY <1>1, LiveRowsAre, LenProperties DEF Typed, Numbered
    <3>3. x \in LiveRows(table) /\ x # c
      BY <1>1, <3>1, <3>2
    <3>4. table[x.id] = x
      BY <3>3, LiveRowsAre DEF Typed
    <3> QED BY <3>1, <3>2, <3>3, <3>4
  <2>3. ASSUME NEW x \in T, x.id # Len(table) + 1
        PROVE  x \in S /\ x # c
    BY <1>1, <1>3, <2>3 DEF Remaining
  <2>4. ASSUME NEW x \in T, x.id = Len(table) + 1
        PROVE  /\ c \in S /\ x.salary = c.salary
               /\ x.kind = c.kind \/ {x.kind, c.kind} \subseteq DevelopmentKinds
    <3>1. x.team = new.team /\ x.kind = new.kind /\ x.salary = new.salary
      <4>1. x \in LiveRows(table')
        BY DEF Remaining
      <4> QED BY <1>1, <2>4, <4>1
    <3>2. x.team = updates[u].team /\ x.kind \notin ExpiringKinds
      BY <1>3 DEF Remaining
    <3>3. c.team = updates[u].team /\ c.kind \notin ExpiringKinds
      BY <2>1, <3>1, <3>2 DEF Stays, DevelopmentKinds, ExpiringKinds
    <3> QED BY <1>1, <2>1, <2>2, <3>1, <3>3 DEF Remaining, Stays
  <2>5. S \subseteq Row /\ IsFiniteSet(S)
    BY LiveRowsAre, FS_Subset DEF Remaining, Typed
  <2>6. T \subseteq Row
    BY OldLive DEF Remaining, Typed
  <2>7. \A x, y \in T : x.id = Len(table) + 1 /\ y.id = Len(table) + 1 => x = y
    <3>1. table' \in Seq(Row) /\ \A i \in DOMAIN table' : table'[i].id = i
      BY DEF Typed, Numbered
    <3>2. \A x \in T : table'[x.id] = x
      BY <3>1, LiveRowsOf DEF Remaining
    <3> QED BY <3>2
  <2> HIDE DEF S, T
  <2>8. h \in [T -> S] /\ \A x, y \in T : h[x] = h[y] => x = y
    BY <2>3, <2>4, <2>7
  <2>9. \A x \in T : /\ h[x].salary = x.salary
                     /\ x.kind = h[x].kind \/ {x.kind, h[x].kind} \subseteq DevelopmentKinds
    BY <2>3, <2>4
  <2>10. KeepersAllowed(S)
    BY DEF S
  <2> HIDE DEF h
  <2>11. KeepersAllowed(T)
    BY <2>5, <2>6, <2>8, <2>9, <2>10, KeepersAllowedInto
  <2> QED BY <2>11 DEF T
<1> QED BY <1>5, <1>6

LEMMA FinishCovers ==
  ASSUME Typed, Typed', Turns, InTurn, Aged, Declared, KeepersAfterAdvance, [Next]_vars, FinishDeadline,
         NEW u \in DOMAIN updates, txns[updates[u].txn].kind = "keeper",
         Lasts(u), KeepersAllowed(Remaining(u))
  PROVE  KeepersAllowed(Remaining(u)')
<1>1. Runs(handler) /\ Handle(handled + 1) /\ handled + 1 \in DOMAIN Calendar /\ handled \in Nat
      /\ now \in Nat
  BY NextDeadline DEF FinishDeadline, Typed, Reads, Idle
<1>2. Calendar[handled + 1].kind # "PreseasonStart"
  <2>1. "keepers" \in setting.ops
    <3>1. updates \in Seq(UpdateType(Len(txns))) /\ DOMAIN txns = 1 .. Len(txns)
      BY BooksLengths DEF Typed, Books
    <3>2. updates[u] \in UpdateType(Len(txns))
      BY <3>1
    <3>3. updates[u].txn \in DOMAIN txns
      BY <3>1, <3>2 DEF UpdateType
    <3> QED BY <3>3 DEF Declared, KeepersTxns
  <2>2. /\ setting \in Settings /\ setting.first \in Nat /\ setting.last \in Nat
    <3>1. setting.first \in DOMAIN Calendar /\ setting.last \in DOMAIN Calendar /\ setting \in Settings
      BY SeasonConstants DEF Typed, Times, Setting
    <3>2. Len(Calendar) \in Nat /\ DOMAIN Calendar = 1 .. Len(Calendar)
      BY SeasonConstants, LenProperties
    <3> QED BY <3>1, <3>2
  <2>3. handled + 1 \in setting.first + 1 .. setting.last
    BY <1>1, <2>2 DEF Declared, Span, Runs
  <2> QED BY <2>1, <2>2, <2>3 DEF KeepersAfterAdvance
<1>3. LiveRows(table') \subseteq LiveRows(table)
  <2>1. CASE Calendar[handled + 1].kind = "PreseasonKeeper"
    <3>1. Settles("PreseasonKeeper")
      BY <1>1, <2>1 DEF Settles, FinishDeadline
    <3> QED BY <3>1, KeepersSettled
  <2>2. CASE Calendar[handled + 1].kind # "PreseasonKeeper"
    <3>1. UNCHANGED table
      BY <1>1, <1>2, <2>2 DEF Handle, LockRosters
    <3> QED BY <3>1
  <2> QED BY <2>1, <2>2
<1>4. Remaining(u)' \subseteq Remaining(u)
  BY <1>3 DEF Remaining, Lasts
<1> QED BY <1>4, FewerRemain DEF Typed

LEMMA SaveCovers ==
  ASSUME Typed, Permitted, NEW r \in Requests, SaveKeepers(r), NEW u, Saved(u, r)
  PROVE  KeepersAllowed(Remaining(u)')
<1> DEFINE q == request[r]
<1>1. IsFiniteSet(q.rows) /\ q.rows \subseteq Row /\ KeepersAllowed(q.rows)
  BY DEF SaveKeepers, Permitted, Fine, Checked
<1>2. /\ updates'[u].team = q.team /\ updates'[u].drops = DeclaredDrops(Rostered(table, q.team), q.rows)
      /\ UNCHANGED table
  BY DEF Saved, SaveKeepers
<1> HIDE DEF q
<1>3. ASSUME NEW c \in Remaining(u)'
      PROVE  c \in q.rows
  <2>1. c \in LiveRows(table) /\ c.team = q.team /\ c.kind \notin ExpiringKinds
        /\ c.id \notin updates'[u].drops
    BY <1>2 DEF Remaining
  <2>2. c \in Rostered(table, q.team)
    BY <2>1, LiveRowsAre DEF Rostered, Typed
  <2> QED BY <1>2, <2>1, <2>2 DEF DeclaredDrops
<1> DEFINE T == Remaining(u)'
<1>4. T \subseteq q.rows
  BY <1>3
<1> HIDE DEF T
<1>5. KeepersAllowed(T)
  BY <1>1, <1>4, FewerKeepers
<1> QED BY <1>5 DEF T

LEMMA StepCovered ==
  ASSUME Typed, Turns, Declared, Covered, KeepersAfterAdvance, [Next]_vars
  PROVE  Covered'
<1> SUFFICES ASSUME InTurn, setting.ops \cap {"activate", "trade"} = {}, NEW u \in DOMAIN updates',
                    txns'[updates'[u].txn].kind = "keeper", AllLive(u)'
             PROVE  KeepersAllowed(Remaining(u)')
  BY SettingStays DEF Covered, InTurn
<1>1. Typed' /\ Aged
  BY StepTyped, StepAges
<1>2. ASSUME NEW r \in Requests, Saved(u, r)
      PROVE  KeepersAllowed(Remaining(u)')
  BY <1>2, SaveCovers DEF Saved, Declared
<1>3. CASE Lasts(u)
  <2>1. u \in DOMAIN updates /\ txns[updates[u].txn].kind = "keeper"
    <3>1. updates \in Seq(UpdateType(Len(txns))) /\ DOMAIN txns = 1 .. Len(txns) /\ u \in DOMAIN updates
      BY <1>3, BooksLengths DEF Typed, Books, Lasts
    <3>2. updates[u] \in UpdateType(Len(txns))
      BY <3>1
    <3>3. updates[u].txn \in DOMAIN txns /\ updates'[u].txn = updates[u].txn
      BY <1>3, <3>1, <3>2 DEF UpdateType, Lasts
    <3> QED BY <3>1, <3>3, TxnsStay
  <2>2. KeepersAllowed(Remaining(u))
    BY <1>1, <1>3, <2>1, StillAllLive DEF Covered, Declared, Typed
  <2>3. CASE UNCHANGED table
    <3>1. Remaining(u)' \subseteq Remaining(u)
      BY <1>3, <2>3 DEF Remaining, Lasts
    <3> QED BY <2>2, <3>1, FewerRemain DEF Typed
  <2>4. CASE FinishDeadline
    BY <1>1, <1>3, <2>1, <2>2, <2>4, FinishCovers
  <2>5. CASE \E r \in Requests : CommitMove(r)
    BY <1>1, <1>3, <2>2, <2>5, CommitMoveCovers
  <2>6. ~\E c, team : TradeAway(c, team)
    BY DEF TradeAway
  <2> QED BY <2>3, <2>4, <2>5, <2>6
          DEF Next, vars, TimePasses, StartDeadline, FailDeadline, BeginMove, RefuseMove, DeclareKeepers,
              FindKeeperTxn, SaveKeepers
<1>4. ~Empty(u)
  BY DEF Empty
<1> QED BY <1>2, <1>3, <1>4, UpdatesComeFrom DEF Declared

LEMMA KeptAllowed ==
  ASSUME Typed, Turns, Declared, Covered, [Next]_vars, Settles("PreseasonKeeper"), InTurn,
         setting.ops \cap {"activate", "trade"} = {}, NEW u \in handler.settles
  PROVE  KeepersAllowed(Kept(table', updates[u].team))
<1>1. /\ LiveRows(table') = LiveRows(table) \ Leaving /\ handler.rows = LiveRows(table) /\ Runs(handler)
  BY KeepersSettled
<1>2. handler.txn # 0 /\ DropIds \subseteq {c.id : c \in handler.rows} /\ handler # Idle
  BY WhatSettles DEF ProcessKeepers, DropIds, Runs, Idle
<1>3. u \in DOMAIN updates /\ txns[updates[u].txn].kind = "keeper" /\ updates[u].drops \subseteq DropIds
  BY <1>1, <1>2 DEF Declared, Settling, Runs, DropIds
<1>4. KeepersAllowed(Remaining(u))
  BY <1>1, <1>2, <1>3 DEF Covered, AllLive
<1>5. Kept(table', updates[u].team) \subseteq Remaining(u)
  <2> SUFFICES ASSUME NEW c \in Kept(table', updates[u].team)
               PROVE  c \in Remaining(u)
    OBVIOUS
  <2>1. c.kind \notin ExpiringKinds /\ c.team = updates[u].team
    BY DEF Kept, Rostered
  <2>2. c \in LiveRows(table')
    BY DEF Kept, Rostered, LiveRows, Range
  <2> QED BY <1>1, <1>3, <2>1, <2>2 DEF Leaving, Remaining
<1>6. IsFiniteSet(Remaining(u)) /\ Remaining(u) \subseteq Row
  BY LiveRowsAre, FS_Subset DEF Remaining, Typed
<1> HIDE DEF Remaining, Kept
<1> QED BY <1>4, <1>5, <1>6, FewerKeepers

LEMMA InitCovered ==
  ASSUME Init
  PROVE  Covered
BY DEF Init, Covered

\* Where keepers are declared in the season they are kept for, a team that has declared them is left,
\* whatever it drops or moves in between, with contracts that the keeper limits allow.
THEOREM KeepersFit ==
  ASSUME KeepersAfterAdvance
  PROVE  Spec => KeptWithinLimits
<1>1. Init => Typed /\ Turns /\ Declared /\ Covered
  BY InitTyped, InitTurns, InitDeclared, InitCovered
<1>2. Typed /\ Turns /\ Declared /\ Covered /\ [Next]_vars => (Typed /\ Turns /\ Declared /\ Covered)'
  BY StepTyped, StepTurns, StepDeclared, StepCovered
<1>3. Typed /\ Turns /\ Declared /\ Covered /\ [Next]_vars =>
        [Settles("PreseasonKeeper") /\ InTurn /\ setting.ops \cap {"activate", "trade"} = {} =>
           \A u \in handler.settles : KeepersAllowed(Kept(table', updates[u].team))]_vars
  BY KeptAllowed
<1> QED BY <1>1, <1>2, <1>3, PTL DEF Spec, KeptWithinLimits
=============================================================================
