---------------------------- MODULE TradesProofs ----------------------------
(***************************************************************************)
(* Proofs about Trades, for any number of teams, players, picks, trades    *)
(* and racing requests: what every interleaving keeps first, then that     *)
(* Trades implements TradeDeals.                                           *)
(***************************************************************************)
EXTENDS Trades, FiniteSetTheorems, TLAPS

ContractRow == [team : Teams \cup {None}, live : BOOLEAN]
AssetRow == [asset : Assets, row : Nat, from : Teams, to : Teams]
Dealing == {"proposing", "recording", "moving", "committing"}
PCs == {"idle"} \cup Dealing \cup RosterMoves
Kinds == {"propose", "accept", "reject"}
RequestState ==
  [pc : PCs, trade : Trades \cup {None}, by : Teams \cup {None}, reads : SUBSET AssetRow,
   others : SUBSET Trades, listing : [Teams -> SUBSET Players]]

-----------------------------------------------------------------------------
(* The inductive invariant, part by part *)

Typed ==
  /\ setting \in Settings
  /\ rows \in [Players -> Seq(ContractRow)]
  /\ owner \in [Picks -> Teams]
  /\ status \in [Trades -> {"None"} \cup Active \cup Settled]
  /\ assets \in [Trades -> SUBSET AssetRow]
  /\ actions \in [Trades -> SUBSET [team : Teams, kind : Kinds]]
  /\ history \in [Teams -> [has : SUBSET Assets, listed : SUBSET Players]]
  /\ request \in [Requests -> RequestState]

\* The unique index on Active contracts; and only an unsigned drop leaves a player without one.
ChainsOK ==
  \A p \in Players :
    /\ \A i, j \in Live(p) : i = j
    /\ "dropUnsigned" \notin setting.moves => Live(p) # {}

\* What was read of a contract row stays true of it, and a row stays live while it is the latest.
Grounded(x) ==
  x.asset \in Players =>
    /\ x.row \in DOMAIN rows[x.asset]
    /\ rows[x.asset][x.row].team = x.from
    /\ rows[x.asset][x.row].live \/ x.row < Latest(x.asset)

\* The trade_asset rows of a trade: an asset is in it once, and goes where the offer says.
DealRows(rowsOfTrade, t) ==
  /\ \A x \in rowsOfTrade :
       /\ x.asset \in DOMAIN To[t] /\ x.from \in Involved(t) /\ x.to = To[t][x.asset]
       /\ Grounded(x)
  /\ \A x, y \in rowsOfTrade : x.asset = y.asset => x = y

TradesOK ==
  \A t \in Trades :
    /\ DealRows(assets[t], t)
    /\ \A x \in actions[t] : x.team \in Involved(t)

\* A trade that is being proposed is not there yet.
Proposing(r) ==
  request[r].pc = "proposing" =>
    /\ request[r].trade \in Trades
    /\ status[request[r].trade] = "None"
    /\ DealRows(request[r].reads, request[r].trade)

\* The team of an accept is one of the trade, which exists.
Accepting(r) ==
  request[r].pc \in {"recording", "moving", "committing"} =>
    /\ request[r].trade \in Trades
    /\ status[request[r].trade] # "None"
    /\ request[r].by \in Involved(request[r].trade)

\* Once the last team has accepted, the assets of the trade are moved and every team has agreed.
Moving(r) ==
  request[r].pc \in {"moving", "committing"} =>
    /\ request[r].reads = assets[request[r].trade]
    /\ \A team \in Involved(request[r].trade) :
         \/ team = request[r].by
         \/ \E x \in actions[request[r].trade] : x.team = team /\ x.kind # "reject"

\* Until it commits, the contracts a request has written can still be replaced.
Committing(r) ==
  request[r].pc = "committing" =>
    /\ \A x \in request[r].reads : x.asset \in Players => CanReplace(x.asset, x.row)
    /\ \A u \in request[r].others : status[u] # "None"

\* A roster move is about one contract, the one that was read.
RosterMoving(r) ==
  request[r].pc \in RosterMoves =>
    /\ request[r].pc \in setting.moves
    /\ \E x \in AssetRow :
         /\ request[r].reads = {x} /\ x.asset \in Players /\ x.from = request[r].by /\ Grounded(x)

RequestsOK ==
  \A r \in Requests :
    Proposing(r) /\ Accepting(r) /\ Moving(r) /\ Committing(r) /\ RosterMoving(r)

\* Nobody else works on a trade that is being proposed, and rows that are written are locked.
Apart ==
  \A r, s \in Requests : r # s =>
    /\ request[r].pc = "proposing" /\ request[s].pc \in Dealing =>
         request[s].trade # request[r].trade
    /\ request[r].pc = "committing" /\ request[s].pc = "committing" =>
         \A x \in request[r].reads, y \in request[s].reads : x.asset # y.asset

Safe == Typed /\ ChainsOK /\ TradesOK /\ RequestsOK /\ Apart

-----------------------------------------------------------------------------
(* Contract chains *)

\* The row that was read is closed, the others stay, and the new one is the last.
LEMMA ReplacedChain ==
  ASSUME Typed, NEW p \in Players, NEW i \in DOMAIN rows[p], NEW new \in ContractRow
  PROVE  /\ Replaced(p, i, new) \in Seq(ContractRow)
         /\ Len(Replaced(p, i, new)) = Latest(p) + 1
         /\ DOMAIN Replaced(p, i, new) = 1..(Latest(p) + 1)
         /\ \A j \in DOMAIN rows[p] :
              /\ Replaced(p, i, new)[j].team = rows[p][j].team
              /\ Replaced(p, i, new)[j].live = (rows[p][j].live /\ j # i)
         /\ Replaced(p, i, new)[Latest(p) + 1] = new
         /\ Latest(p) \in Nat /\ DOMAIN rows[p] = 1..Latest(p)
<1> DEFINE closed == [rows[p] EXCEPT ![i].live = FALSE]
<1>1. rows[p] \in Seq(ContractRow)
  BY DEF Typed
<1>2. /\ DOMAIN rows[p] = 1..Len(rows[p]) /\ Len(rows[p]) \in Nat
      /\ \A j \in 1..Len(rows[p]) : rows[p][j] \in ContractRow
  BY <1>1
<1>3. closed \in [1..Len(rows[p]) -> ContractRow]
  BY <1>1, <1>2 DEF ContractRow
<1>4. closed \in Seq(ContractRow) /\ Len(closed) = Len(rows[p])
  BY <1>2, <1>3
<1>5. \A j \in DOMAIN rows[p] :
        closed[j].team = rows[p][j].team /\ closed[j].live = (rows[p][j].live /\ j # i)
  BY <1>2 DEF ContractRow
<1>6. Replaced(p, i, new) = Append(closed, new)
  BY DEF Replaced
<1>7. /\ Append(closed, new) \in Seq(ContractRow)
      /\ Len(Append(closed, new)) = Len(closed) + 1
      /\ \A j \in 1..Len(closed) : Append(closed, new)[j] = closed[j]
      /\ Append(closed, new)[Len(closed) + 1] = new
  BY <1>4
<1> HIDE DEF closed
<1>8. DOMAIN Append(closed, new) = 1..(Len(closed) + 1)
  BY <1>7
<1> QED BY <1>2, <1>4, <1>5, <1>6, <1>7, <1>8 DEF Latest

LEMMA TradeTeams ==
  ASSUME NEW t \in Trades
  PROVE  /\ Involved(t) \subseteq Teams /\ By[t] \in Involved(t)
         /\ \A a \in DOMAIN To[t] : a \in Assets /\ To[t][a] \in Involved(t)
BY TradeConstants DEF Involved, Assets

\* What a request reads of an asset that a team has.
LEMMA AssetRead ==
  ASSUME Typed, ChainsOK, NEW a \in Assets, NEW to \in Teams, Holder(a) \in Teams
  PROVE  /\ Asset(a, to) \in AssetRow /\ Grounded(Asset(a, to))
         /\ Asset(a, to).asset = a /\ Asset(a, to).to = to /\ Asset(a, to).from = Holder(a)
         /\ a \in Players => Asset(a, to).row \in Live(a)
<1>1. CASE a \in Picks
  <2>1. a \notin Players
    BY <1>1, TradeConstants
  <2> QED BY <1>1, <2>1 DEF Asset, AssetRow, Grounded
<1>2. CASE a \notin Picks
  <2>1. a \in Players /\ Live(a) # {} /\ Holder(a) = rows[a][LiveRow(a)].team
    BY <1>2, TradeConstants DEF Holder, Assets
  <2>2. DOMAIN rows[a] = 1..Len(rows[a]) /\ Len(rows[a]) \in Nat
    BY <2>1 DEF Typed
  <2>3. PICK i \in Live(a) : TRUE
    BY <2>1
  <2>4. i \in Nat /\ \A j \in Live(a) : j <= i
    BY <2>1, <2>2 DEF Live, ChainsOK
  <2>5. LiveRow(a) \in Live(a)
    BY <2>4 DEF LiveRow
  <2>6. LiveRow(a) \in Nat /\ LiveRow(a) \in DOMAIN rows[a] /\ rows[a][LiveRow(a)].live
    BY <2>5, <2>2 DEF Live
  <2> QED BY <1>2, <2>1, <2>5, <2>6 DEF Asset, AssetRow, Grounded
<1> QED BY <1>1, <1>2

\* What the processing of a trade does to the chains: the contracts of the trade are replaced.
LEMMA MovedChains ==
  ASSUME Typed, TradesOK, NEW t \in Trades, NEW p \in Players
  PROVE  /\ (\A x \in assets[t] : x.asset # p) => RowsAfter(assets[t])[p] = rows[p]
         /\ \A x \in assets[t] : x.asset = p =>
              RowsAfter(assets[t])[p] = Replaced(p, x.row, Row(x.to, TRUE))
<1>1. \A x, y \in assets[t] : x.asset = y.asset => x = y
  BY DEF TradesOK, DealRows
<1>2. ASSUME NEW x \in assets[t], x.asset = p
      PROVE  x = CHOOSE y \in assets[t] : y.asset = p
  BY <1>1, <1>2
<1> QED BY <1>2 DEF RowsAfter

\* How the chain of a player may change in a step.
Extended(p) ==
  \E i \in DOMAIN rows[p], new \in ContractRow :
    /\ rows'[p] = Replaced(p, i, new)
    /\ new.live => Live(p) \subseteq {i}
    /\ "dropUnsigned" \notin setting.moves => new.live

LEMMA ChainDomain ==
  ASSUME Typed, [Next]_vars
  PROVE  setting' = setting /\ rows' = [p \in Players |-> rows'[p]]
<1>1. rows = [p \in Players |-> rows[p]]
  BY DEF Typed
<1>2. ASSUME NEW r \in Requests, CommitTrade(r)
      PROVE  rows' = [p \in Players |-> rows'[p]]
  BY <1>2 DEF CommitTrade, RowsAfter
<1>3. ASSUME NEW r \in Requests, CommitRosterMove(r)
      PROVE  rows' = [p \in Players |-> rows'[p]]
  BY <1>1, <1>3 DEF CommitRosterMove
<1>4. rows' = [p \in Players |-> rows'[p]]
  BY <1>1, <1>2, <1>3 DEF Next, vars, BeginPropose, RejectTrade, BeginAccept, BeginRosterMove,
     InsertTrade, RecordAccept, MoveAssets, Fail
<1> QED BY <1>4 DEF Next, vars, BeginPropose, RejectTrade, BeginAccept, BeginRosterMove, InsertTrade,
     RecordAccept, MoveAssets, CommitTrade, CommitRosterMove, Fail

LEMMA ChainStep ==
  ASSUME Safe, [Next]_vars, NEW p \in Players
  PROVE  rows'[p] = rows[p] \/ Extended(p)
<1> USE DEF Safe
<1>0. DOMAIN rows = Players
  BY DEF Typed
<1>1. ASSUME NEW r \in Requests, CommitTrade(r)
      PROVE  rows'[p] = rows[p] \/ Extended(p)
  <2> DEFINE t == request[r].trade
  <2>1. t \in Trades /\ request[r].reads = assets[t]
        /\ \A x \in assets[t] : x.asset \in Players => CanReplace(x.asset, x.row)
    BY <1>1 DEF CommitTrade, RequestsOK, Accepting, Moving, Committing
  <2>2. rows' = RowsAfter(assets[t])
    BY <1>1, <2>1 DEF CommitTrade
  <2>3. ASSUME NEW x \in assets[t], x.asset = p
        PROVE  Extended(p)
    <3>1. rows'[p] = Replaced(p, x.row, Row(x.to, TRUE))
      BY <2>1, <2>2, <2>3, MovedChains
    <3>2. x.row \in DOMAIN rows[p] /\ Live(p) \subseteq {x.row}
      BY <2>1, <2>3 DEF TradesOK, DealRows, Grounded, CanReplace
    <3>3. Row(x.to, TRUE) \in ContractRow /\ Row(x.to, TRUE).live
      BY <2>1 DEF Typed, AssetRow, Row, ContractRow
    <3> QED BY <3>1, <3>2, <3>3 DEF Extended
  <2>4. ASSUME \A x \in assets[t] : x.asset # p
        PROVE  rows'[p] = rows[p]
    BY <2>1, <2>2, <2>4, MovedChains
  <2> QED BY <2>3, <2>4
<1>2. ASSUME NEW r \in Requests, CommitRosterMove(r)
      PROVE  rows'[p] = rows[p] \/ Extended(p)
  <2> DEFINE new == AfterMove(request[r].by)[request[r].pc]
  <2>1. PICK x \in request[r].reads :
          /\ request[r].pc \in RosterMoves
          /\ new.live => CanReplace(x.asset, x.row)
          /\ rows' = [rows EXCEPT ![x.asset] = Replaced(x.asset, x.row, new)]
    BY <1>2 DEF CommitRosterMove
  <2>2. request[r].pc \in setting.moves /\ x.asset \in Players /\ x.from = request[r].by
        /\ Grounded(x) /\ x \in AssetRow
    BY <2>1 DEF RequestsOK, RosterMoving
  <2>3. new \in ContractRow /\ ("dropUnsigned" \notin setting.moves => new.live)
    <3>1. CASE request[r].pc = "ir"
      BY <2>2, <3>1 DEF AfterMove, Row, ContractRow, AssetRow
    <3>2. CASE request[r].pc = "drop"
      BY <3>2 DEF AfterMove, Row, ContractRow
    <3>3. CASE request[r].pc = "dropUnsigned"
      BY <2>2, <3>3 DEF AfterMove, Row, ContractRow
    <3> QED BY <2>1, <3>1, <3>2, <3>3 DEF RosterMoves
  <2> HIDE DEF new
  <2>4. ASSUME p = x.asset
        PROVE  Extended(p)
    <3>1. rows'[p] = Replaced(p, x.row, new) /\ x.row \in DOMAIN rows[p]
      BY <2>1, <2>2, <2>4, <1>0 DEF Grounded
    <3> QED BY <2>1, <2>3, <2>4, <3>1 DEF Extended, CanReplace
  <2>5. ASSUME p # x.asset
        PROVE  rows'[p] = rows[p]
    BY <2>1, <2>5, <1>0
  <2> QED BY <2>4, <2>5
<1> QED BY <1>1, <1>2 DEF Next, vars, BeginPropose, RejectTrade, BeginAccept, BeginRosterMove,
     InsertTrade, RecordAccept, MoveAssets, Fail

\* A chain only grows: rows keep their teams, and only the new row may be live that was not before.
LEMMA ExtendedChain ==
  ASSUME Typed, NEW p \in Players, Extended(p), DOMAIN rows' = Players
  PROVE  /\ rows'[p] \in Seq(ContractRow) /\ Latest(p) \in Nat
         /\ DOMAIN rows[p] = 1..Latest(p) /\ Latest(p)' = Latest(p) + 1
         /\ DOMAIN rows'[p] = 1..(Latest(p) + 1)
         /\ \A j \in DOMAIN rows[p] : rows'[p][j].team = rows[p][j].team
         /\ \/ Live(p)' = {Latest(p) + 1}
            \/ Live(p)' \subseteq Live(p) /\ "dropUnsigned" \in setting.moves
<1>1. PICK i \in DOMAIN rows[p], new \in ContractRow :
        /\ rows'[p] = Replaced(p, i, new)
        /\ new.live => Live(p) \subseteq {i}
        /\ "dropUnsigned" \notin setting.moves => new.live
  BY DEF Extended
<1> DEFINE chain == Replaced(p, i, new)
<1>2. /\ chain \in Seq(ContractRow) /\ Len(chain) = Latest(p) + 1
      /\ DOMAIN chain = 1..(Latest(p) + 1)
      /\ \A j \in DOMAIN rows[p] :
           chain[j].team = rows[p][j].team /\ chain[j].live = (rows[p][j].live /\ j # i)
      /\ chain[Latest(p) + 1] = new
  BY ReplacedChain
<1>3. DOMAIN rows[p] = 1..Latest(p) /\ Latest(p) \in Nat
  BY DEF Typed, Latest
<1> HIDE DEF chain
<1>4. rows'[p] = chain
  BY <1>1 DEF chain
<1>5. Live(p)' = {j \in 1..(Latest(p) + 1) : chain[j].live}
  BY <1>2, <1>4 DEF Live
<1>6. 1..(Latest(p) + 1) = DOMAIN rows[p] \cup {Latest(p) + 1}
  BY <1>3
<1>7. CASE new.live
  <2>1. \A j \in DOMAIN rows[p] : ~chain[j].live
    BY <1>1, <1>2, <1>7 DEF Live
  <2>2. Live(p)' = {Latest(p) + 1}
    BY <1>2, <1>5, <1>6, <1>7, <2>1
  <2> QED BY <1>2, <1>3, <1>4, <2>2 DEF Latest
<1>8. CASE ~new.live
  <2>1. Live(p)' \subseteq Live(p)
    BY <1>2, <1>5, <1>6, <1>8 DEF Live
  <2> QED BY <1>1, <1>2, <1>3, <1>4, <1>8, <2>1 DEF Latest
<1> QED BY <1>7, <1>8

LEMMA ChainsKept ==
  ASSUME Safe, [Next]_vars
  PROVE  /\ rows' \in [Players -> Seq(ContractRow)] /\ ChainsOK'
         /\ \A x \in AssetRow : Grounded(x) => Grounded(x)'
<1> USE DEF Safe
<1>1. setting' = setting /\ rows' = [p \in Players |-> rows'[p]]
  BY ChainDomain
<1>2. ASSUME NEW p \in Players
      PROVE  rows'[p] \in Seq(ContractRow)
  <2>1. DOMAIN rows' = Players
    BY <1>1
  <2> QED BY <2>1, ChainStep, ExtendedChain DEF Typed
<1>3. rows' \in [Players -> Seq(ContractRow)]
  BY <1>1, <1>2, Zenon
<1>4. ChainsOK'
  <2> SUFFICES ASSUME NEW p \in Players
               PROVE  /\ \A i, j \in Live(p)' : i = j
                      /\ "dropUnsigned" \notin setting.moves => Live(p)' # {}
    BY <1>1 DEF ChainsOK
  <2>1. CASE rows'[p] = rows[p]
    BY <2>1 DEF ChainsOK, Live
  <2>2. CASE Extended(p)
    BY <1>1, <2>2, ExtendedChain DEF ChainsOK
  <2> QED BY <2>1, <2>2, ChainStep
<1>5. ASSUME NEW x \in AssetRow, Grounded(x), x.asset \in Players
      PROVE  Grounded(x)'
  <2> DEFINE p == x.asset
  <2>1. CASE rows'[p] = rows[p]
    BY <1>5, <2>1 DEF Grounded, Latest
  <2>2. CASE Extended(p)
    <3>1. /\ Latest(p) \in Nat /\ DOMAIN rows[p] = 1..Latest(p) /\ Latest(p)' = Latest(p) + 1
          /\ DOMAIN rows'[p] = 1..(Latest(p) + 1)
          /\ \A j \in DOMAIN rows[p] : rows'[p][j].team = rows[p][j].team
      BY <1>1, <1>5, <2>2, ExtendedChain
    <3>2. x.row \in 1..Latest(p) /\ rows[p][x.row].team = x.from
      BY <1>5, <3>1 DEF Grounded
    <3>3. x.row \in DOMAIN rows'[p] /\ rows'[p][x.row].team = x.from /\ x.row < Latest(p)'
      BY <3>1, <3>2
    <3> QED BY <3>3 DEF Grounded
  <2> QED BY <1>5, <2>1, <2>2, ChainStep
<1> QED BY <1>3, <1>4, <1>5 DEF Grounded

-----------------------------------------------------------------------------
(* What a step does to trades and to the requests it leaves alone *)

\* A trade stays proposed, its assets stay as they are and what teams have said stays said; it
\* becomes one when the request that proposes it commits.
LEMMA TradesStep ==
  ASSUME Safe, [Next]_vars, NEW t \in Trades
  PROVE  /\ status[t] # "None" =>
              status'[t] # "None" /\ assets'[t] = assets[t] /\ actions[t] \subseteq actions'[t]
         /\ status[t] = "None" /\ status'[t] # "None" =>
              \E r \in Requests :
                request[r].pc = "proposing" /\ request[r].trade = t /\ request'[r].pc = "idle"
<1> USE DEF Safe
<1>1. ASSUME NEW r \in Requests, InsertTrade(r)
      PROVE  /\ request[r].pc = "proposing" /\ request'[r].pc = "idle"
             /\ request[r].trade \in Trades /\ status[request[r].trade] = "None"
             /\ request[r].trade # t =>
                  status'[t] = status[t] /\ assets'[t] = assets[t] /\ actions'[t] = actions[t]
  BY <1>1 DEF InsertTrade, NewTrade, Typed, RequestsOK, Proposing, Idle
<1>2. ASSUME NEW r \in Requests, NEW u \in Trades, NEW team \in Teams, RejectTrade(r, u, team)
      PROVE  /\ assets' = assets /\ actions[t] \subseteq actions'[t]
             /\ status[t] # "None" => status'[t] # "None"
             /\ status[t] = "None" => status'[t] = "None"
  BY <1>2 DEF RejectTrade, Actionable, Typed
<1>3. ASSUME NEW r \in Requests, RecordAccept(r)
      PROVE  assets' = assets /\ actions[t] \subseteq actions'[t] /\ status' = status
  BY <1>3 DEF RecordAccept, Accepted, Typed
<1>4. ASSUME NEW r \in Requests, CommitTrade(r)
      PROVE  /\ assets' = assets /\ actions[t] \subseteq actions'[t]
             /\ status[t] # "None" => status'[t] # "None"
             /\ status[t] = "None" => status'[t] = "None"
  BY <1>4 DEF CommitTrade, Accepted, Typed, RequestsOK, Accepting, Committing
<1>5. CASE UNCHANGED <<status, assets, actions>>
  BY <1>5
<1> QED BY <1>1, <1>2, <1>3, <1>4, <1>5 DEF Next, vars, BeginPropose, BeginAccept, BeginRosterMove,
     MoveAssets, CommitRosterMove, Fail

\* Nobody touches the contracts a request has written before it commits.
LEMMA LocksHold ==
  ASSUME Safe, [Next]_vars, NEW s \in Requests, request'[s] = request[s],
         request[s].pc = "committing", NEW x \in request[s].reads, x.asset \in Players
  PROVE  rows'[x.asset] = rows[x.asset]
<1> USE DEF Safe
<1>1. ASSUME NEW r \in Requests, CommitTrade(r)
      PROVE  rows'[x.asset] = rows[x.asset]
  <2>1. r # s
    BY <1>1 DEF CommitTrade, Typed, Idle
  <2>2. \A y \in request[r].reads : y.asset # x.asset
    BY <1>1, <2>1 DEF CommitTrade, Apart
  <2>3. request[r].trade \in Trades /\ request[r].reads = assets[request[r].trade]
    BY <1>1 DEF CommitTrade, RequestsOK, Accepting, Moving
  <2> QED BY <1>1, <2>2, <2>3, MovedChains DEF CommitTrade
<1>2. ASSUME NEW r \in Requests, CommitRosterMove(r)
      PROVE  rows'[x.asset] = rows[x.asset]
  <2>1. PICK y \in request[r].reads :
          /\ request[r].pc \in RosterMoves /\ RowsFree(r, {y.asset})
          /\ rows' = [rows EXCEPT ![y.asset] =
               Replaced(y.asset, y.row, AfterMove(request[r].by)[request[r].pc])]
    BY <1>2 DEF CommitRosterMove
  <2>2. r # s
    BY <2>1 DEF RosterMoves
  <2>3. x.asset \in Locked(r)
    BY <2>2 DEF Locked
  <2>4. x.asset # y.asset
    BY <2>1, <2>3 DEF RowsFree
  <2> QED BY <2>1, <2>4 DEF Typed
<1>3. CASE UNCHANGED rows
  BY <1>3
<1> QED BY <1>1, <1>2, <1>3 DEF Next, vars, BeginPropose, RejectTrade, BeginAccept, BeginRosterMove,
     InsertTrade, RecordAccept, MoveAssets, Fail

LEMMA DealRowsKept ==
  ASSUME Safe, [Next]_vars, NEW t \in Trades
  PROVE  \A S \in SUBSET AssetRow : DealRows(S, t) => DealRows(S, t)'
<1> SUFFICES ASSUME NEW S \in SUBSET AssetRow, DealRows(S, t)
             PROVE  DealRows(S, t)'
  OBVIOUS
<1>1. \A x \in S : Grounded(x)'
  BY ChainsKept DEF DealRows
<1> QED BY <1>1 DEF DealRows

LEMMA RequestKept ==
  ASSUME Safe, [Next]_vars, NEW s \in Requests, request'[s] = request[s],
         request[s].pc = "proposing" => status'[request[s].trade] = "None"
  PROVE  /\ Proposing(s)' /\ Accepting(s)' /\ Moving(s)' /\ Committing(s)' /\ RosterMoving(s)'
<1> USE DEF Safe
<1>1. request[s] \in RequestState
  BY DEF Typed
<1>2. Proposing(s)'
  <2>1. SUFFICES ASSUME request[s].pc = "proposing"
                 PROVE  DealRows(request[s].reads, request[s].trade)'
    BY DEF RequestsOK, Proposing
  <2>2. request[s].trade \in Trades /\ request[s].reads \in SUBSET AssetRow
        /\ DealRows(request[s].reads, request[s].trade)
    BY <1>1, <2>1 DEF RequestsOK, Proposing, RequestState
  <2> DEFINE S == request[s].reads  t == request[s].trade
  <2>3. \A x \in S : Grounded(x)'
    BY <2>2, ChainsKept DEF DealRows
  <2> QED BY <2>2, <2>3 DEF DealRows
<1>3. Accepting(s)'
  BY TradesStep DEF RequestsOK, Accepting
<1>4. Moving(s)'
  BY TradesStep DEF RequestsOK, Accepting, Moving
<1>5. Committing(s)'
  <2> SUFFICES ASSUME request[s].pc = "committing"
               PROVE  /\ \A x \in request[s].reads : x.asset \in Players => CanReplace(x.asset, x.row)'
                      /\ \A u \in request[s].others : status'[u] # "None"
    BY DEF Committing, CanReplace
  <2>1. ASSUME NEW x \in request[s].reads, x.asset \in Players
        PROVE  CanReplace(x.asset, x.row)'
    <3>1. CanReplace(x.asset, x.row) /\ rows'[x.asset] = rows[x.asset]
      BY <2>1, LocksHold DEF RequestsOK, Committing
    <3> QED BY <3>1 DEF CanReplace, Live
  <2>2. \A u \in request[s].others : status'[u] # "None"
    BY <1>1, TradesStep DEF RequestsOK, Committing, RequestState
  <2> QED BY <2>1, <2>2
<1>6. RosterMoving(s)'
  <2> SUFFICES ASSUME request[s].pc \in RosterMoves
               PROVE  RosterMoving(s)'
    BY DEF RosterMoving
  <2>1. PICK x \in AssetRow :
          request[s].reads = {x} /\ x.asset \in Players /\ x.from = request[s].by /\ Grounded(x)
    BY DEF RequestsOK, RosterMoving
  <2>2. Grounded(x)'
    BY <2>1, ChainsKept
  <2>3. setting' = setting /\ request[s].pc \in setting.moves
    BY ChainDomain DEF RequestsOK, RosterMoving
  <2> QED BY <2>1, <2>2, <2>3 DEF RosterMoving
<1> QED BY <1>2, <1>3, <1>4, <1>5, <1>6

-----------------------------------------------------------------------------
(* The invariant is inductive *)

\* It is enough to look at the request that takes the step.
LEMMA OneRequest ==
  ASSUME Safe, [Next]_vars, NEW r \in Requests, NEW q \in RequestState,
         request' = [request EXCEPT ![r] = q],
         Proposing(r)', Accepting(r)', Moving(r)', Committing(r)', RosterMoving(r)',
         \A s \in Requests \ {r} :
           /\ q.pc \in Dealing /\ request[s].pc \in Dealing
                /\ "proposing" \in {q.pc, request[s].pc} => request[s].trade # q.trade
           /\ q.pc = "committing" /\ request[s].pc = "committing" =>
                \A x \in q.reads, y \in request[s].reads : x.asset # y.asset
  PROVE  request' \in [Requests -> RequestState] /\ RequestsOK' /\ Apart'
<1> USE DEF Safe
<1>1. request' \in [Requests -> RequestState]
  BY DEF Typed
<1>2. request'[r] = q /\ \A s \in Requests \ {r} : request'[s] = request[s]
  BY DEF Typed
<1>3. ASSUME NEW s \in Requests \ {r}
      PROVE  Proposing(s)' /\ Accepting(s)' /\ Moving(s)' /\ Committing(s)' /\ RosterMoving(s)'
  <2>1. request'[s] = request[s]
    BY <1>2
  <2>2. ASSUME request[s].pc = "proposing"
        PROVE  status'[request[s].trade] = "None"
    <3>1. request[s].trade \in Trades /\ status[request[s].trade] = "None"
      BY <2>2 DEF RequestsOK, Proposing
    <3>2. SUFFICES ASSUME NEW w \in Requests, request[w].pc = "proposing",
                          request[w].trade = request[s].trade, request'[w].pc = "idle"
                   PROVE  FALSE
      BY <3>1, TradesStep
    <3>3. w = s
      BY <2>2, <3>2 DEF Apart, Dealing
    <3> QED BY <2>1, <2>2, <3>2, <3>3
  <2> QED BY <2>1, <2>2, RequestKept
<1>4. RequestsOK'
  BY <1>3 DEF RequestsOK
<1>5. Apart'
  BY <1>2 DEF Apart, Dealing
<1> QED BY <1>1, <1>4, <1>5

LEMMA IdleTyped == Idle \in RequestState /\ Idle.pc = "idle"
BY DEF Idle, RequestState, PCs, Nothing

\* Most steps end a request.
LEMMA RequestEnds ==
  ASSUME Safe, [Next]_vars, NEW r \in Requests, request' = [request EXCEPT ![r] = Idle]
  PROVE  request' \in [Requests -> RequestState] /\ RequestsOK' /\ Apart'
<1>1. request'[r].pc = "idle"
  BY IdleTyped DEF Safe, Typed
<1>2. Proposing(r)' /\ Accepting(r)' /\ Moving(r)' /\ Committing(r)' /\ RosterMoving(r)'
  BY <1>1 DEF Proposing, Accepting, Moving, Committing, RosterMoving, RosterMoves
<1> QED BY <1>2, IdleTyped, OneRequest DEF Dealing

\* The trades of a step that proposes none.
LEMMA TradesKept ==
  ASSUME Safe, [Next]_vars, assets' = assets,
         \A t \in Trades : \A x \in actions'[t] : x.team \in Involved(t)
  PROVE  TradesOK'
<1>1. ASSUME NEW t \in Trades
      PROVE  DealRows(assets[t], t)'
  <2>1. DealRows(assets[t], t) /\ assets[t] \in SUBSET AssetRow
    BY DEF Safe, TradesOK, Typed
  <2>2. \A x \in assets[t] : Grounded(x)'
    BY <2>1, ChainsKept DEF DealRows
  <2> QED BY <2>1, <2>2 DEF DealRows
<1> QED BY <1>1 DEF TradesOK

LEMMA SafeInit == Init => Safe
<1> SUFFICES ASSUME Init
             PROVE  Safe
  OBVIOUS
<1> USE TradeConstants
<1>1. \A p \in Players : rows[p] = <<Row(FirstHolder[p], TRUE)>> /\ FirstHolder[p] \in Teams
  BY DEF Init, Assets
<1>2. ASSUME NEW p \in Players
      PROVE  rows[p] \in Seq(ContractRow) /\ Live(p) = {1}
  <2> DEFINE first == Row(FirstHolder[p], TRUE)
  <2>1. first \in ContractRow /\ first.live
    BY <1>1 DEF Row, ContractRow
  <2> HIDE DEF first
  <2>2. rows[p] = <<first>>
    BY <1>1 DEF first
  <2>3. rows[p] \in Seq(ContractRow)
    BY <2>1, <2>2
  <2>4. DOMAIN rows[p] = 1..1 /\ rows[p][1] = first
    BY <2>2
  <2>5. DOMAIN rows[p] = {1}
    BY <2>4
  <2> QED BY <2>1, <2>3, <2>4, <2>5 DEF Live
<1>3. rows \in [Players -> Seq(ContractRow)]
  BY <1>2 DEF Init
<1>4. request \in [Requests -> RequestState] /\ \A r \in Requests : request[r] = Idle
  BY IdleTyped DEF Init
<1>5. Typed
  BY <1>3, <1>4 DEF Init, Typed, Assets, Summary
<1>6. ChainsOK
  BY <1>2 DEF ChainsOK
<1>7. TradesOK
  BY DEF Init, TradesOK, DealRows
<1>8. RequestsOK /\ Apart
  BY <1>4, IdleTyped DEF RequestsOK, Proposing, Accepting, Moving, Committing, RosterMoving, Apart,
     RosterMoves
<1> QED BY <1>5, <1>6, <1>7, <1>8 DEF Safe

\* What a team may say: it is one of the trade's.
LEMMA SaidTyped ==
  \A team \in Teams, kind \in Kinds :
    Said(team, kind) \in [team : Teams, kind : Kinds] /\ Said(team, kind).team = team
      /\ Said(team, kind).kind = kind
BY DEF Said

LEMMA SafeBeginPropose ==
  ASSUME Safe, [Next]_vars, NEW r \in Requests, NEW t \in Trades, BeginPropose(r, t)
  PROVE  Safe'
<1> USE DEF Safe
<1> DEFINE S == {Asset(a, To[t][a]) : a \in DOMAIN To[t]}
           q == [Idle EXCEPT !.pc = "proposing", !.trade = t, !.reads = S]
<1>1. request[r] \in RequestState /\ status[t] = "None" /\ request' = [request EXCEPT ![r] = q]
      /\ \A s \in Requests : request[s].trade # t
  BY DEF BeginPropose, Typed
<1>2. ASSUME NEW a \in DOMAIN To[t]
      PROVE  LET x == Asset(a, To[t][a]) IN
             x \in AssetRow /\ Grounded(x) /\ x.asset = a /\ x.to = To[t][a] /\ x.from \in Involved(t)
  <2>1. a \in Assets /\ To[t][a] \in Teams /\ Holder(a) \in Involved(t) /\ Holder(a) \in Teams
    BY TradeTeams DEF BeginPropose
  <2> QED BY <2>1, AssetRead
<1>3. S \in SUBSET AssetRow /\ DealRows(S, t)
  BY <1>2 DEF DealRows
<1> HIDE DEF S
<1>4. q \in RequestState /\ q.pc = "proposing" /\ q.trade = t /\ q.reads = S
  BY <1>3, IdleTyped DEF RequestState, PCs, Dealing
<1> HIDE DEF q
<1>5. request'[r] = q /\ status' = status
  BY <1>1 DEF BeginPropose, Typed
<1>6. \A x \in request'[r].reads : Grounded(x)'
  BY <1>3, <1>4, <1>5, ChainsKept DEF DealRows
<1>7. Proposing(r)'
  BY <1>1, <1>3, <1>4, <1>5, <1>6 DEF Proposing, DealRows
<1>8. Accepting(r)' /\ Moving(r)' /\ Committing(r)' /\ RosterMoving(r)'
  BY <1>4, <1>5 DEF Accepting, Moving, Committing, RosterMoving, RosterMoves
<1>9. request' \in [Requests -> RequestState] /\ RequestsOK' /\ Apart'
  BY <1>1, <1>4, <1>7, <1>8, OneRequest
<1>10. TradesOK'
  BY TradesKept DEF BeginPropose, TradesOK
<1> QED BY <1>9, <1>10, ChainsKept DEF BeginPropose, Typed

LEMMA SafeInsertTrade ==
  ASSUME Safe, [Next]_vars, NEW r \in Requests, InsertTrade(r)
  PROVE  Safe'
<1> USE DEF Safe
<1> DEFINE t == request[r].trade
<1>1. t \in Trades /\ request[r] \in RequestState /\ DealRows(request[r].reads, t)
      /\ request' = [request EXCEPT ![r] = Idle]
  BY DEF InsertTrade, RequestsOK, Proposing, Typed
<1>2. assets' = [assets EXCEPT ![t] = request[r].reads]
      /\ actions' = [actions EXCEPT ![t] = {Said(By[t], "propose")}]
  BY DEF InsertTrade
<1>3. By[t] \in Involved(t) /\ By[t] \in Teams /\ "propose" \in Kinds
  BY <1>1, TradeTeams DEF Kinds
<1>4. request' \in [Requests -> RequestState] /\ RequestsOK' /\ Apart'
  BY <1>1, RequestEnds
<1>5. TradesOK'
  <2> SUFFICES ASSUME NEW u \in Trades
               PROVE  DealRows(assets[u], u)' /\ \A x \in actions'[u] : x.team \in Involved(u)
    BY DEF TradesOK
  <2>1. assets'[u] \in SUBSET AssetRow /\ DealRows(assets'[u], u)
    BY <1>1, <1>2 DEF Typed, TradesOK, RequestState
  <2>2. \A x \in assets'[u] : Grounded(x)'
    BY <2>1, ChainsKept DEF DealRows
  <2>3. DealRows(assets[u], u)'
    BY <2>1, <2>2 DEF DealRows
  <2>4. \A x \in actions'[u] : x.team \in Involved(u)
    BY <1>1, <1>2, <1>3, SaidTyped DEF Typed, TradesOK
  <2> QED BY <2>3, <2>4
<1>6. Typed'
  <2>1. actions' \in [Trades -> SUBSET [team : Teams, kind : Kinds]]
    BY <1>1, <1>2, <1>3, SaidTyped DEF Typed
  <2>2. assets' \in [Trades -> SUBSET AssetRow]
    BY <1>1, <1>2 DEF Typed, RequestState
  <2> QED BY <1>1, <1>4, <2>1, <2>2 DEF InsertTrade, NewTrade, Typed, Active
<1> QED BY <1>4, <1>5, <1>6, ChainsKept

LEMMA SafeRejectTrade ==
  ASSUME Safe, [Next]_vars, NEW r \in Requests, NEW t \in Trades, NEW team \in Teams,
         RejectTrade(r, t, team)
  PROVE  Safe'
<1> USE DEF Safe
<1>1. actions' = [actions EXCEPT ![t] = @ \cup {Said(team, "reject")}] /\ team \in Involved(t)
  BY DEF RejectTrade, Actionable
<1>2. \A s \in Requests : request[s].pc = "proposing" => status'[request[s].trade] = "None"
  BY DEF RejectTrade, Actionable, Typed, RequestsOK, Proposing
<1>3. request' = request
  BY DEF RejectTrade
<1>4. RequestsOK' /\ Apart'
  BY <1>2, <1>3, RequestKept DEF RequestsOK, Apart
<1>5. TradesOK'
  <2>1. \A u \in Trades : \A x \in actions'[u] : x.team \in Involved(u)
    BY <1>1, SaidTyped DEF Typed, TradesOK, Kinds
  <2> QED BY <2>1, TradesKept DEF RejectTrade
<1>6. actions' \in [Trades -> SUBSET [team : Teams, kind : Kinds]]
  BY <1>1, SaidTyped DEF Typed, Kinds
<1>7. Typed'
  BY <1>6 DEF RejectTrade, Typed, Settled
<1> QED BY <1>4, <1>5, <1>7, ChainsKept

LEMMA SafeBeginAccept ==
  ASSUME Safe, [Next]_vars, NEW r \in Requests, NEW t \in Trades, NEW team \in Teams,
         BeginAccept(r, t, team)
  PROVE  Safe'
<1> USE DEF Safe
<1> DEFINE recording == [Idle EXCEPT !.pc = "recording", !.trade = t, !.by = team]
           moving == [Idle EXCEPT !.pc = "moving", !.trade = t, !.by = team, !.reads = assets[t]]
<1>1. status[t] # "None" /\ team \in Involved(t) /\ assets[t] \in SUBSET AssetRow
      /\ status' = status /\ assets' = assets /\ actions' = actions
  BY DEF BeginAccept, Actionable, Typed
<1> DEFINE agreed == AcceptedByAll(t, actions[t] \cup {Said(team, "accept")})
<1>2. PICK q :
        /\ request' = [request EXCEPT ![r] = q]
        /\ q = recording \/ (q = moving /\ agreed)
  <2> HIDE DEF agreed
  <2>1. \/ request' = [request EXCEPT ![r] = recording]
        \/ request' = [request EXCEPT ![r] = moving] /\ agreed
    BY DEF BeginAccept, agreed
  <2> HIDE DEF recording, moving
  <2> QED BY <2>1
<1>3. recording \in RequestState /\ moving \in RequestState
  BY <1>1, IdleTyped DEF RequestState, PCs, Dealing
<1>4. /\ q \in RequestState /\ q.trade = t /\ q.by = team /\ q.pc \in {"recording", "moving"}
      /\ q.pc = "moving" => q.reads = assets[t] /\ agreed
  BY <1>2, <1>3 DEF Idle
<1> HIDE DEF recording, moving
<1>5. request'[r] = q
  BY <1>2 DEF Typed
<1>6. Proposing(r)' /\ Accepting(r)' /\ Committing(r)' /\ RosterMoving(r)'
  BY <1>1, <1>4, <1>5 DEF Proposing, Accepting, Committing, RosterMoving, RosterMoves
<1>7. Moving(r)'
  <2> SUFFICES ASSUME q.pc = "moving", NEW other \in Involved(t), other # team
               PROVE  \E x \in actions[t] : x.team = other /\ x.kind # "reject"
    BY <1>1, <1>4, <1>5 DEF Moving
  <2>1. AcceptedByAll(t, actions[t] \cup {Said(team, "accept")})
    BY <1>2, <1>4
  <2>2. PICK x \in actions[t] \cup {Said(team, "accept")} :
          x.team = other /\ x.kind \in {"propose", "accept"}
    BY <2>1 DEF AcceptedByAll
  <2>3. x # Said(team, "accept")
    BY <2>2 DEF Said
  <2> QED BY <2>2, <2>3
<1>8. \A s \in Requests : request[s].pc = "proposing" => request[s].trade # t
  BY <1>1 DEF RequestsOK, Proposing
<1>9. request' \in [Requests -> RequestState] /\ RequestsOK' /\ Apart'
  BY <1>2, <1>4, <1>6, <1>7, <1>8, OneRequest
<1>10. TradesOK'
  BY <1>1, TradesKept DEF TradesOK
<1> QED BY <1>9, <1>10, ChainsKept DEF BeginAccept, Typed

LEMMA SafeRecordAccept ==
  ASSUME Safe, [Next]_vars, NEW r \in Requests, RecordAccept(r)
  PROVE  Safe'
<1> USE DEF Safe
<1>1. request[r].trade \in Trades /\ request[r].by \in Involved(request[r].trade)
      /\ request[r].by \in Teams
  BY TradeTeams DEF RecordAccept, RequestsOK, Accepting
<1>2. request' \in [Requests -> RequestState] /\ RequestsOK' /\ Apart'
  BY RequestEnds DEF RecordAccept
<1>3. /\ actions' \in [Trades -> SUBSET [team : Teams, kind : Kinds]]
      /\ \A u \in Trades : \A x \in actions'[u] : x.team \in Involved(u)
  BY <1>1, SaidTyped DEF RecordAccept, Accepted, Typed, TradesOK, Kinds
<1>4. TradesOK'
  BY <1>3, TradesKept DEF RecordAccept
<1> QED BY <1>2, <1>3, <1>4, ChainsKept DEF RecordAccept, Typed

\* Who has a player: the team of his live row.
LEMMA PlayerHolder ==
  ASSUME Typed, ChainsOK, NEW p \in Players
  PROVE  /\ Holder(p) \in Teams \cup {None}
         /\ \A i \in Live(p) : Holder(p) = rows[p][i].team
         /\ Live(p) = {} => Holder(p) = None
<1>1. p \notin Picks
  BY TradeConstants
<1>2. DOMAIN rows[p] = 1..Len(rows[p]) /\ \A i \in DOMAIN rows[p] : rows[p][i] \in ContractRow
  BY DEF Typed
<1>3. ASSUME NEW i \in Live(p)
      PROVE  Holder(p) = rows[p][i].team /\ Holder(p) \in Teams \cup {None}
  <2>1. i \in Int /\ i \in DOMAIN rows[p] /\ \A j \in Live(p) : j <= i
    BY <1>2 DEF Live, ChainsOK
  <2>2. LiveRow(p) \in Live(p)
    BY <2>1 DEF LiveRow
  <2>3. LiveRow(p) = i
    BY <2>2 DEF ChainsOK
  <2>4. Holder(p) = rows[p][i].team
    BY <1>1, <2>3 DEF Holder
  <2> QED BY <1>2, <2>1, <2>4 DEF ContractRow
<1>4. Live(p) = {} => Holder(p) = None
  BY <1>1 DEF Holder
<1> QED BY <1>3, <1>4

LEMMA ListingTyped ==
  \A S \in SUBSET AssetRow :
    [team \in Teams |-> IF team \in Parties(S) THEN ActiveContracts(team, RowsAfter(S)) ELSE {}]
      \in [Teams -> SUBSET Players]
BY DEF ActiveContracts

LEMMA SafeMoveAssets ==
  ASSUME Safe, [Next]_vars, NEW r \in Requests, MoveAssets(r)
  PROVE  Safe'
<1> USE DEF Safe
<1> DEFINE listing == [team \in Teams |->
             IF team \in Parties(request[r].reads)
             THEN ActiveContracts(team, RowsAfter(request[r].reads)) ELSE {}]
           others == OtherTrades(request[r].trade)
           q == [request[r] EXCEPT !.pc = "committing", !.others = others, !.listing = listing]
<1>1. /\ request[r] \in RequestState /\ request[r].pc = "moving"
      /\ RowsFree(r, {x.asset : x \in request[r].reads} \cup {request[r].trade})
      /\ \A x \in request[r].reads : x.asset \in Players => CanReplace(x.asset, x.row)
      /\ request' = [request EXCEPT ![r] = q]
      /\ UNCHANGED <<setting, rows, owner, status, assets, actions, history>>
  BY DEF MoveAssets, Typed
<1>2. listing \in [Teams -> SUBSET Players]
  BY <1>1, ListingTyped DEF RequestState
<1>3. others \in SUBSET Trades /\ \A u \in others : status[u] # "None"
  BY DEF OtherTrades, Active
<1> HIDE DEF listing, others
<1>4. /\ q \in RequestState /\ q.pc = "committing" /\ q.trade = request[r].trade
      /\ q.by = request[r].by /\ q.reads = request[r].reads /\ q.others = others
  BY <1>1, <1>2, <1>3 DEF RequestState, PCs, Dealing
<1> HIDE DEF q
<1>5. request'[r] = q
  BY <1>1 DEF Typed
<1>6. Proposing(r)' /\ Accepting(r)' /\ Moving(r)' /\ RosterMoving(r)'
  BY <1>1, <1>4, <1>5 DEF RequestsOK, Proposing, Accepting, Moving, RosterMoving, RosterMoves
<1>7. Committing(r)'
  BY <1>1, <1>3, <1>4, <1>5 DEF Committing, CanReplace, Live
<1>8. ASSUME NEW s \in Requests \ {r}
      PROVE  /\ request[s].pc = "proposing" => request[s].trade # q.trade
             /\ request[s].pc = "committing" =>
                  \A x \in q.reads, y \in request[s].reads : x.asset # y.asset
  <2>1. request[s].pc = "proposing" => request[s].trade # q.trade
    BY <1>1, <1>4 DEF RequestsOK, Proposing, Accepting
  <2>2. ASSUME request[s].pc = "committing", NEW x \in q.reads, NEW y \in request[s].reads
        PROVE  x.asset # y.asset
    <3>1. y.asset \in Locked(r)
      BY <2>2 DEF Locked
    <3> QED BY <1>1, <1>4, <2>2, <3>1 DEF RowsFree
  <2> QED BY <2>1, <2>2
<1>9. request' \in [Requests -> RequestState] /\ RequestsOK' /\ Apart'
  <2>1. \A s \in Requests \ {r} :
          /\ q.pc \in Dealing /\ request[s].pc \in Dealing
               /\ "proposing" \in {q.pc, request[s].pc} => request[s].trade # q.trade
          /\ q.pc = "committing" /\ request[s].pc = "committing" =>
               \A x \in q.reads, y \in request[s].reads : x.asset # y.asset
    BY <1>4, <1>8
  <2> QED BY <1>1, <1>4, <1>6, <1>7, <2>1, OneRequest
<1>10. TradesOK'
  BY <1>1, TradesKept DEF TradesOK
<1> QED BY <1>1, <1>9, <1>10, ChainsKept DEF Typed

LEMMA SafeCommitTrade ==
  ASSUME Safe, [Next]_vars, NEW r \in Requests, CommitTrade(r)
  PROVE  Safe'
<1> USE DEF Safe
<1> DEFINE t == request[r].trade  S == request[r].reads
<1>1. /\ t \in Trades /\ request[r].by \in Involved(t) /\ request[r].by \in Teams
      /\ S \in SUBSET AssetRow
  BY TradeTeams DEF CommitTrade, RequestsOK, Accepting, Typed, RequestState
<1>2. request' \in [Requests -> RequestState] /\ RequestsOK' /\ Apart'
  BY RequestEnds DEF CommitTrade
<1>3. /\ actions' \in [Trades -> SUBSET [team : Teams, kind : Kinds]]
      /\ \A u \in Trades : \A x \in actions'[u] : x.team \in Involved(u)
  BY <1>1, SaidTyped DEF CommitTrade, Accepted, Typed, TradesOK, Kinds
<1>4. TradesOK'
  BY <1>3, TradesKept DEF CommitTrade
<1>5. owner' \in [Picks -> Teams]
  <2> SUFFICES ASSUME NEW p \in Picks, \E x \in S : x.asset = p
               PROVE  (CHOOSE x \in S : x.asset = p).to \in Teams
    BY DEF CommitTrade, Typed
  <2> QED BY <1>1 DEF AssetRow
<1>6. status' \in [Trades -> {"None"} \cup Active \cup Settled]
  BY DEF CommitTrade, Typed, Settled
<1>7. history' \in [Teams -> [has : SUBSET Assets, listed : SUBSET Players]]
  <2>1. request[r].listing \in [Teams -> SUBSET Players]
    BY DEF Typed, RequestState
  <2>2. ASSUME NEW team \in Teams
        PROVE  Has(team, S) \in SUBSET Assets
    BY <1>1 DEF Has, AssetRow, Typed
  <2> QED BY <2>1, <2>2 DEF CommitTrade, Updated, Summary, Typed
<1> QED BY <1>2, <1>3, <1>4, <1>5, <1>6, <1>7, ChainsKept DEF CommitTrade, Typed

LEMMA SafeBeginRosterMove ==
  ASSUME Safe, [Next]_vars, NEW r \in Requests, NEW p \in Players, NEW kind \in RosterMoves,
         BeginRosterMove(r, p, kind)
  PROVE  Safe'
<1> USE DEF Safe
<1> DEFINE x == Asset(p, Holder(p))
           q == [Idle EXCEPT !.pc = kind, !.by = Holder(p), !.reads = {x}]
<1>1. /\ kind \in setting.moves /\ Holder(p) # None /\ request' = [request EXCEPT ![r] = q]
      /\ UNCHANGED <<setting, rows, owner, status, assets, actions, history>>
  BY DEF BeginRosterMove
<1>2. Holder(p) \in Teams /\ p \in Assets
  BY <1>1, PlayerHolder DEF Assets
<1>3. x \in AssetRow /\ Grounded(x) /\ x.asset = p /\ x.from = Holder(p)
  BY <1>2, AssetRead
<1> HIDE DEF x
<1>4. q \in RequestState /\ q.pc = kind /\ q.by = Holder(p) /\ q.reads = {x}
  BY <1>2, <1>3, IdleTyped DEF RequestState, PCs, Dealing
<1> HIDE DEF q
<1>5. request'[r] = q
  BY <1>1 DEF Typed
<1>6. kind # "idle" /\ kind \notin Dealing
  BY DEF RosterMoves, Dealing
<1>7. Proposing(r)' /\ Accepting(r)' /\ Moving(r)' /\ Committing(r)'
  BY <1>4, <1>5, <1>6 DEF Proposing, Accepting, Moving, Committing, Dealing
<1>8. RosterMoving(r)'
  <2>1. \A y \in AssetRow : Grounded(y) => Grounded(y)'
    BY ChainsKept
  <2> QED BY <1>1, <1>3, <1>4, <1>5, <2>1 DEF RosterMoving
<1>9. request' \in [Requests -> RequestState] /\ RequestsOK' /\ Apart'
  BY <1>1, <1>4, <1>6, <1>7, <1>8, OneRequest DEF Dealing
<1>10. TradesOK'
  BY <1>1, TradesKept DEF TradesOK
<1> QED BY <1>1, <1>9, <1>10, ChainsKept DEF Typed

LEMMA SafeCommitRosterMove ==
  ASSUME Safe, [Next]_vars, NEW r \in Requests, CommitRosterMove(r)
  PROVE  Safe'
<1> USE DEF Safe
<1>1. PICK x \in request[r].reads :
        LET new == AfterMove(request[r].by)[request[r].pc] IN
        /\ history' = [history EXCEPT ![x.from] =
             Summary(IF new.team = None THEN @.has \ {x.asset} ELSE @.has,
                     ActiveContracts(x.from, rows'))]
        /\ request' = [request EXCEPT ![r] = Idle]
        /\ UNCHANGED <<setting, owner, status, assets, actions>>
  BY DEF CommitRosterMove
<1>2. request' \in [Requests -> RequestState] /\ RequestsOK' /\ Apart'
  BY <1>1, RequestEnds
<1>3. TradesOK'
  BY <1>1, TradesKept DEF TradesOK
<1>4. ActiveContracts(x.from, rows') \in SUBSET Players
  BY DEF ActiveContracts
<1>5. history' \in [Teams -> [has : SUBSET Assets, listed : SUBSET Players]]
  BY <1>1, <1>4 DEF Typed, Summary
<1> QED BY <1>1, <1>2, <1>3, <1>5, ChainsKept DEF Typed

LEMMA SafeFail ==
  ASSUME Safe, [Next]_vars, NEW r \in Requests, Fail(r)
  PROVE  Safe'
<1> USE DEF Safe
<1>1. request' \in [Requests -> RequestState] /\ RequestsOK' /\ Apart'
  BY RequestEnds DEF Fail
<1>2. TradesOK'
  BY TradesKept DEF Fail, TradesOK
<1> QED BY <1>1, <1>2, ChainsKept DEF Fail, Typed

LEMMA SafeStep == Safe /\ [Next]_vars => Safe'
<1> SUFFICES ASSUME Safe, [Next]_vars
             PROVE  Safe'
  OBVIOUS
<1>1. CASE UNCHANGED vars
  <2>1. Typed'
    BY <1>1 DEF vars, Safe, Typed
  <2>2. TradesOK'
    BY <1>1, TradesKept DEF vars, Safe, TradesOK
  <2>3. RequestsOK'
    BY <1>1, RequestKept DEF vars, Safe, RequestsOK, Proposing
  <2>4. Apart'
    BY <1>1 DEF vars, Safe, Apart
  <2> QED BY <2>1, <2>2, <2>3, <2>4, ChainsKept DEF Safe
<1>2. CASE Next
  BY <1>2, SafeBeginPropose, SafeInsertTrade, SafeRejectTrade, SafeBeginAccept, SafeRecordAccept,
     SafeMoveAssets, SafeCommitTrade, SafeBeginRosterMove, SafeCommitRosterMove, SafeFail DEF Next
<1> QED BY <1>1, <1>2

LEMMA AlwaysSafe == Spec => []Safe
BY SafeInit, SafeStep, PTL DEF Spec

\* The types of TypeOK, and one Active contract of a player at most: whatever trades and roster
\* moves race (the unique index, and the order of the writes of process_trade).
THEOREM TypeCorrect == Spec => []TypeOK
<1>1. Safe => TypeOK
  <2> SUFFICES ASSUME Safe
               PROVE  TypeOK
    OBVIOUS
  <2> USE DEF Safe
  <2>1. ASSUME NEW p \in Players
        PROVE  Cardinality(Live(p)) <= 1
    <3>1. CASE Live(p) = {}
      BY <3>1, FS_EmptySet
    <3>2. CASE Live(p) # {}
      <4>1. PICK i \in Live(p) : Live(p) = {i}
        BY <3>2 DEF ChainsOK
      <4> QED BY <4>1, FS_Singleton
    <3> QED BY <3>1, <3>2
  <2>2. \A p \in Players : rows[p] \in Seq([team : Teams \cup {None}, live : BOOLEAN])
    BY DEF Typed, ContractRow
  <2>3. \A t \in Trades : actions[t] \subseteq [team : Involved(t), kind : Kinds]
    BY DEF Typed, TradesOK
  <2> QED BY <2>1, <2>2, <2>3 DEF TypeOK, Typed, TradesOK, DealRows, Kinds
<1> QED BY <1>1, AlwaysSafe, PTL

-----------------------------------------------------------------------------
(* Atomic swaps *)

Held ==
  \A p \in Players :
    /\ Holder(p) \in Teams \cup {None}
    /\ \A i \in Live(p) : Holder(p) = rows[p][i].team
    /\ Live(p) = {} => Holder(p) = None

LEMMA SafeHeld == Safe => Held
BY PlayerHolder DEF Safe, Held

LEMMA HeldStep == Safe /\ [Next]_vars => Held /\ Held'
<1>1. Safe' => Held'
  BY SafeHeld, PTL
<1> QED BY <1>1, SafeHeld, SafeStep

\* The commit of a trade gives each of its assets to the team it is for, and moves nothing else.
LEMMA TradeMoves ==
  ASSUME Safe, [Next]_vars, NEW r \in Requests, CommitTrade(r)
  PROVE  LET t == request[r].trade IN
         /\ t \in Trades /\ request[r].reads = assets[t]
         /\ \A x \in assets[t] : Holder(x.asset)' = x.to
         /\ \A a \in Assets : (\A x \in assets[t] : x.asset # a) => Holder(a)' = Holder(a)
<1> USE DEF Safe
<1> DEFINE t == request[r].trade
<1>1. t \in Trades /\ request[r].reads = assets[t] /\ assets[t] \in SUBSET AssetRow
  BY DEF CommitTrade, RequestsOK, Accepting, Moving, Typed
<1>2. rows' = RowsAfter(assets[t])
      /\ owner' = [p \in Picks |-> IF \E x \in assets[t] : x.asset = p
                                   THEN (CHOOSE x \in assets[t] : x.asset = p).to ELSE owner[p]]
  BY <1>1 DEF CommitTrade
<1>3. \A x, y \in assets[t] : x.asset = y.asset => x = y
  BY <1>1 DEF TradesOK, DealRows
<1>4. ASSUME NEW x \in assets[t]
      PROVE  Holder(x.asset)' = x.to
  <2>1. CASE x.asset \in Picks
    <3>1. x = CHOOSE y \in assets[t] : y.asset = x.asset
      BY <1>3
    <3> QED BY <1>2, <2>1, <3>1 DEF Holder
  <2>2. CASE x.asset \notin Picks
    <3> DEFINE p == x.asset  new == Row(x.to, TRUE)
    <3>1. p \in Players /\ x.to \in Teams
      BY <1>1, <2>2 DEF AssetRow, Assets
    <3>2. rows'[p] = Replaced(p, x.row, new) /\ x.row \in DOMAIN rows[p] /\ new \in ContractRow
          /\ new.live /\ new.team = x.to
      BY <1>1, <1>2, <3>1, MovedChains DEF TradesOK, DealRows, Grounded, Row, ContractRow
    <3> HIDE DEF p, new
    <3>3. Latest(p) + 1 \in DOMAIN rows'[p] /\ rows'[p][Latest(p) + 1] = new
      BY <3>1, <3>2, ReplacedChain
    <3>4. Latest(p) + 1 \in Live(p)'
      BY <3>2, <3>3 DEF Live
    <3>5. Holder(p)' = rows'[p][Latest(p) + 1].team
      BY <3>1, <3>4, HeldStep DEF Held
    <3> QED BY <3>2, <3>3, <3>5 DEF p
  <2> QED BY <2>1, <2>2
<1>5. ASSUME NEW a \in Assets, \A x \in assets[t] : x.asset # a
      PROVE  Holder(a)' = Holder(a)
  <2>1. CASE a \in Picks
    BY <1>2, <1>5, <2>1 DEF Holder
  <2>2. CASE a \notin Picks
    <3>1. a \in Players /\ rows'[a] = rows[a]
      BY <1>1, <1>2, <1>5, <2>2, MovedChains DEF Assets
    <3> QED BY <2>2, <3>1 DEF Holder, Live, LiveRow
  <2> QED BY <2>1, <2>2
<1> QED BY <1>1, <1>4, <1>5

\* A roster move gives a player to no other team.
LEMMA RosterMovesTakeNothing ==
  ASSUME Safe, [Next]_vars, NEW r \in Requests, CommitRosterMove(r), NEW a \in Assets
  PROVE  ~Comes(a)
<1> USE DEF Safe
<1> DEFINE new == AfterMove(request[r].by)[request[r].pc]
<1>1. PICK x \in request[r].reads :
        /\ request[r].pc \in RosterMoves
        /\ new.live => CanReplace(x.asset, x.row)
        /\ rows' = [rows EXCEPT ![x.asset] = Replaced(x.asset, x.row, new)]
        /\ UNCHANGED owner
  BY DEF CommitRosterMove
<1>2. /\ x.asset \in Players /\ x.from = request[r].by /\ x.from \in Teams
      /\ x.row \in DOMAIN rows[x.asset] /\ rows[x.asset][x.row].team = x.from
  BY <1>1 DEF RequestsOK, RosterMoving, Grounded, AssetRow
<1>3. new \in ContractRow /\ new.team \in {x.from, None}
  <2>1. CASE request[r].pc = "ir"
    BY <1>2, <2>1 DEF AfterMove, Row, ContractRow
  <2>2. CASE request[r].pc = "drop"
    BY <2>2 DEF AfterMove, Row, ContractRow
  <2>3. CASE request[r].pc = "dropUnsigned"
    BY <2>3 DEF AfterMove, Row, ContractRow
  <2> QED BY <1>1, <2>1, <2>2, <2>3 DEF RosterMoves
<1> HIDE DEF new
<1>4. CASE a \in Picks
  BY <1>1, <1>4 DEF Comes, Holder
<1>5. CASE a \notin Picks /\ a # x.asset
  <2>1. rows'[a] = rows[a]
    BY <1>1, <1>2, <1>5 DEF Typed
  <2> QED BY <1>5, <2>1 DEF Comes, Holder, Live, LiveRow
<1>6. CASE a = x.asset
  <2>1. rows'[a] = Replaced(a, x.row, new) /\ rows'[a][Latest(a) + 1] = new
    BY <1>1, <1>2, <1>3, <1>6, ReplacedChain DEF Typed
  <2>2. Extended(a) \/ rows'[a] = rows[a]
    BY <1>2, <1>6, ChainStep
  <2>3. SUFFICES ASSUME NEW i \in Live(a)'
                 PROVE  ~Comes(a)
    BY <1>2, <1>6, HeldStep DEF Comes, Held
  <2>4. Holder(a)' = rows'[a][i].team
    BY <1>2, <1>6, HeldStep DEF Held
  <2>5. CASE i \in Live(a)
    <3>1. Holder(a) = rows[a][i].team
      BY <1>2, <1>6, <2>5, HeldStep DEF Held
    <3>2. rows'[a][i].team = rows[a][i].team
      BY <1>2, <1>3, <1>6, <2>1, <2>5, ReplacedChain DEF Live
    <3> QED BY <2>4, <3>1, <3>2 DEF Comes
  <2>6. CASE i \notin Live(a)
    <3>1. i = Latest(a) + 1 /\ new.live
      <4>1. i \in 1..(Latest(a) + 1) /\ rows'[a][i].live
        BY <1>2, <1>3, <1>6, <2>1, <2>3, ReplacedChain DEF Live
      <4>2. Latest(a) \in Nat /\ DOMAIN rows[a] = 1..Latest(a)
        BY <1>2, <1>3, <1>6, ReplacedChain
      <4>3. ASSUME i \in DOMAIN rows[a]
            PROVE  FALSE
        <5>1. rows'[a][i].live = (rows[a][i].live /\ i # x.row)
          BY <1>2, <1>3, <1>6, <2>1, <4>3, ReplacedChain
        <5>2. rows[a][i].live
          BY <4>1, <5>1
        <5> QED BY <2>6, <4>3, <5>2 DEF Live
      <4>4. i = Latest(a) + 1
        BY <4>1, <4>2, <4>3
      <4> QED BY <2>1, <4>1, <4>4
    <3>2. Holder(a)' \in {x.from, None}
      BY <1>3, <2>1, <2>4, <3>1
    <3>3. Live(a) \subseteq {x.row}
      BY <1>1, <1>6, <3>1 DEF CanReplace
    <3>4. Holder(a) = x.from \/ Live(a) = {}
      BY <1>2, <1>6, <3>3, HeldStep DEF Held
    <3>5. Live(a) = {} => "dropUnsigned" \in setting.moves /\ Holder(a) = None
      BY <1>2, <1>6, HeldStep DEF Held, ChainsOK
    <3> QED BY <3>2, <3>4, <3>5 DEF Comes
  <2> QED BY <2>5, <2>6
<1> QED BY <1>4, <1>5, <1>6

\* An asset comes to a team by a trade only that all of its teams have agreed to and that moves all
\* of its assets at once, whatever requests race (accept_trade, process_trade).
THEOREM SwapsAreAtomic == Spec => AtomicSwap
<1> DEFINE Agreed(t) ==
      \A team \in Involved(t) : \E x \in actions[t]' : x.team = team /\ x.kind # "reject"
    Swap(a) == Comes(a) =>
      \E t \in Trades :
        /\ a \in DOMAIN To[t]
        /\ \A x \in assets[t] : Holder(x.asset)' = x.to
        /\ Agreed(t)
<1>1. Safe /\ [Next]_vars => [\A a \in Assets : Swap(a)]_vars
  <2> SUFFICES ASSUME Safe, Next, NEW a \in Assets
               PROVE  Swap(a)
    BY DEF vars
  <2>1. ASSUME NEW r \in Requests, CommitTrade(r), Comes(a)
        PROVE  Swap(a)
    <3>1. PICK t \in Trades :
            /\ t = request[r].trade /\ request[r].reads = assets[t]
            /\ \A x \in assets[t] : Holder(x.asset)' = x.to
      BY <2>1, TradeMoves
    <3>2. PICK x \in assets[t] : x.asset = a
      BY <2>1, <3>1, TradeMoves DEF Comes
    <3>3. a \in DOMAIN To[t]
      BY <3>1, <3>2 DEF Safe, TradesOK, DealRows
    <3>4. Agreed(t)
      <4> SUFFICES ASSUME NEW team \in Involved(t)
                   PROVE  \E y \in actions'[t] : y.team = team /\ y.kind # "reject"
        OBVIOUS
      <4>1. actions'[t] = actions[t] \cup {Said(request[r].by, "accept")}
        BY <2>1, <3>1 DEF CommitTrade, Accepted, Safe, Typed
      <4>2. CASE team = request[r].by
        <5>1. Said(request[r].by, "accept") \in actions'[t]
          BY <4>1
        <5> QED BY <4>2, <5>1 DEF Said
      <4>3. CASE team # request[r].by
        BY <2>1, <3>1, <4>1, <4>3 DEF CommitTrade, Safe, RequestsOK, Moving
      <4> QED BY <4>2, <4>3
    <3> QED BY <3>1, <3>3, <3>4
  <2>2. ASSUME NEW r \in Requests, CommitRosterMove(r)
        PROVE  Swap(a)
    BY <2>2, RosterMovesTakeNothing
  <2>3. CASE UNCHANGED <<rows, owner>>
    BY <2>3 DEF Comes, Holder, Live, LiveRow
  <2> QED BY <2>1, <2>2, <2>3 DEF Next, BeginPropose, RejectTrade, BeginAccept, BeginRosterMove,
       InsertTrade, RecordAccept, MoveAssets, Fail
<1> QED BY <1>1, AlwaysSafe, PTL DEF Spec, AtomicSwap

-----------------------------------------------------------------------------
(* Team updates *)

\* One request at a time works on rows that are still live, and lists what it is about to commit.
SerialRequest(r) ==
  /\ \A s \in Requests \ {r} : request[r].pc = "idle" \/ request[s].pc = "idle"
  /\ request[r].pc \in {"moving", "committing"} \cup RosterMoves =>
       \A x \in request[r].reads : x.asset \in Players => x.row \in Live(x.asset)
  /\ request[r].pc = "committing" =>
       \A team \in Parties(request[r].reads) :
         request[r].listing[team] = ActiveContracts(team, RowsAfter(request[r].reads))
Serial == ~setting.overlap => \A r \in Requests : SerialRequest(r)

HistoryOK ==
  \A team \in Teams, p \in Players :
    /\ "dropUnsigned" \notin setting.moves => (p \in history[team].has <=> Holder(p) = team)
    /\ ~setting.overlap => (p \in history[team].listed <=> Holder(p) = team)

Told == Safe /\ Serial /\ HistoryOK

LEMMA AllIdle ==
  ASSUME NEW r \in Requests, \A s \in Requests \ {r} : request'[s].pc = "idle",
         request'[r].pc \in {"idle", "proposing", "recording"}
  PROVE  \A s \in Requests : SerialRequest(s)'
BY DEF SerialRequest, RosterMoves

LEMMA SerialStep ==
  ASSUME Safe, Serial, [Next]_vars
  PROVE  Serial'
<1> USE DEF Safe
<1>1. SUFFICES ASSUME ~setting.overlap
               PROVE  \A s \in Requests : SerialRequest(s)'
  BY ChainDomain DEF Serial
<1>2. \A r \in Requests : request[r].pc # "idle" =>
        \A s \in Requests \ {r} : request[s].pc = "idle"
  BY <1>1 DEF Serial, SerialRequest
<1>3. ASSUME NEW r \in Requests, NEW t \in Trades, BeginPropose(r, t)
      PROVE  \A s \in Requests : SerialRequest(s)'
  <2> DEFINE q == [Idle EXCEPT !.pc = "proposing", !.trade = t,
                               !.reads = {Asset(a, To[t][a]) : a \in DOMAIN To[t]}]
  <2>1. request' = [request EXCEPT ![r] = q] /\ \A s \in Requests : request[s].pc = "idle"
    BY <1>1, <1>3 DEF BeginPropose, MayStart
  <2>2. q.pc = "proposing"
    BY DEF Idle
  <2> HIDE DEF q
  <2> QED BY <2>1, <2>2, AllIdle DEF Typed
<1>4. ASSUME NEW r \in Requests, request[r].pc # "idle", request' = [request EXCEPT ![r] = Idle]
      PROVE  \A s \in Requests : SerialRequest(s)'
  BY <1>2, <1>4, IdleTyped, AllIdle DEF Typed
<1>5. ASSUME NEW r \in Requests, NEW t \in Trades, NEW team \in Teams, RejectTrade(r, t, team)
      PROVE  \A s \in Requests : SerialRequest(s)'
  BY <1>1, <1>5, AllIdle DEF RejectTrade, MayStart
<1>6. ASSUME NEW r \in Requests, NEW t \in Trades, NEW team \in Teams, BeginAccept(r, t, team)
      PROVE  \A s \in Requests : SerialRequest(s)'
  <2> DEFINE recording == [Idle EXCEPT !.pc = "recording", !.trade = t, !.by = team]
             moving == [Idle EXCEPT !.pc = "moving", !.trade = t, !.by = team, !.reads = assets[t]]
  <2>1. /\ \A s \in Requests : request[s].pc = "idle"
        /\ \/ request' = [request EXCEPT ![r] = recording]
           \/ request' = [request EXCEPT ![r] = moving] /\ Valid(t)
        /\ UNCHANGED rows
    BY <1>1, <1>6 DEF BeginAccept, MayStart
  <2>2. recording.pc = "recording" /\ moving.pc = "moving" /\ moving.reads = assets[t]
    BY DEF Idle
  <2> HIDE DEF recording, moving
  <2>3. CASE request' = [request EXCEPT ![r] = recording]
    BY <2>1, <2>2, <2>3, AllIdle DEF Typed
  <2>4. CASE request' = [request EXCEPT ![r] = moving] /\ Valid(t)
    <3>1. ASSUME NEW x \in assets[t], x.asset \in Players
          PROVE  x.row \in Live(x.asset)'
      <4>1. x.row = Latest(x.asset)
        BY <2>4, <3>1, TradeConstants DEF Valid, ContractStands
      <4>2. Grounded(x) /\ x \in AssetRow
        BY DEF TradesOK, DealRows, Typed
      <4>3. x.row \in Live(x.asset)
        BY <3>1, <4>1, <4>2 DEF Grounded, Live, AssetRow
      <4> QED BY <2>1, <4>3 DEF Live
    <3>2. request'[r] = moving /\ \A s \in Requests \ {r} : request'[s].pc = "idle"
      BY <2>1, <2>4 DEF Typed
    <3> QED BY <2>2, <3>1, <3>2 DEF SerialRequest, RosterMoves
  <2> QED BY <2>1, <2>3, <2>4
<1>7. ASSUME NEW r \in Requests, MoveAssets(r)
      PROVE  \A s \in Requests : SerialRequest(s)'
  <2> DEFINE listing == [team \in Teams |->
               IF team \in Parties(request[r].reads)
               THEN ActiveContracts(team, RowsAfter(request[r].reads)) ELSE {}]
             others == OtherTrades(request[r].trade)
             q == [request[r] EXCEPT !.pc = "committing", !.others = others, !.listing = listing]
  <2>1. request[r].pc = "moving" /\ request' = [request EXCEPT ![r] = q] /\ UNCHANGED rows
        /\ request[r] \in RequestState
    BY <1>7 DEF MoveAssets, Typed
  <2>2. \A team \in Parties(request[r].reads) :
          listing[team] = ActiveContracts(team, RowsAfter(request[r].reads))
    BY <2>1 DEF Parties, RequestState, AssetRow
  <2> HIDE DEF listing, others
  <2>3. q.pc = "committing" /\ q.reads = request[r].reads /\ q.listing = listing
    BY <2>1 DEF RequestState
  <2> HIDE DEF q
  <2>4. request'[r] = q /\ \A s \in Requests \ {r} : request'[s].pc = "idle"
    BY <1>2, <2>1 DEF Typed
  <2>5. \A x \in q.reads : x.asset \in Players => x.row \in Live(x.asset)'
    BY <1>1, <2>1, <2>3 DEF Serial, SerialRequest, Live
  <2>6. \A team \in Parties(q.reads) :
          q.listing[team] = ActiveContracts(team, RowsAfter(q.reads))
    BY <2>2, <2>3
  <2>7. rows' = rows
    BY <2>1
  <2>8. \A team \in Parties(request'[r].reads) :
          request'[r].listing[team] = ActiveContracts(team, RowsAfter(request[r].reads)')
    BY <2>3, <2>4, <2>6, <2>7 DEF RowsAfter, Replaced
  <2> QED BY <2>3, <2>4, <2>5, <2>8 DEF SerialRequest, RosterMoves
<1>8. ASSUME NEW r \in Requests, NEW p \in Players, NEW kind \in RosterMoves,
             BeginRosterMove(r, p, kind)
      PROVE  \A s \in Requests : SerialRequest(s)'
  <2> DEFINE x == Asset(p, Holder(p))
             q == [Idle EXCEPT !.pc = kind, !.by = Holder(p), !.reads = {x}]
  <2>1. /\ \A s \in Requests : request[s].pc = "idle"
        /\ Holder(p) # None /\ request' = [request EXCEPT ![r] = q] /\ UNCHANGED rows
    BY <1>1, <1>8 DEF BeginRosterMove, MayStart
  <2>2. Holder(p) \in Teams /\ p \in Assets
    BY <2>1, PlayerHolder DEF Assets
  <2>3. x.asset = p /\ x.row \in Live(p)
    BY <2>2, AssetRead
  <2> HIDE DEF x
  <2>4. q.pc = kind /\ q.reads = {x}
    BY DEF Idle
  <2> HIDE DEF q
  <2>5. request'[r] = q /\ \A s \in Requests \ {r} : request'[s].pc = "idle"
    BY <2>1 DEF Typed
  <2>6. \A y \in q.reads : y.row \in Live(y.asset)'
    BY <2>1, <2>3, <2>4 DEF Live
  <2>7. kind # "committing"
    BY DEF RosterMoves
  <2> QED BY <2>4, <2>5, <2>6, <2>7 DEF SerialRequest, RosterMoves
<1>9. ASSUME NEW r \in Requests,
             InsertTrade(r) \/ RecordAccept(r) \/ CommitTrade(r) \/ CommitRosterMove(r) \/ Fail(r)
      PROVE  request[r].pc # "idle" /\ request' = [request EXCEPT ![r] = Idle]
  BY <1>9 DEF InsertTrade, RecordAccept, CommitTrade, CommitRosterMove, Fail, RosterMoves
<1>10. CASE UNCHANGED vars
  <2> SUFFICES ASSUME NEW s \in Requests
               PROVE  SerialRequest(s)'
    OBVIOUS
  <2>1. SerialRequest(s) /\ request' = request /\ rows' = rows
    BY <1>1, <1>10 DEF Serial, vars
  <2>2. \A p \in Players : Live(p)' = Live(p)
    BY <2>1 DEF Live
  <2>3. RowsAfter(request[s].reads)' = RowsAfter(request[s].reads)
    BY <2>1 DEF RowsAfter, Replaced
  <2> QED BY <2>1, <2>2, <2>3 DEF SerialRequest
<1> QED BY <1>3, <1>4, <1>5, <1>6, <1>7, <1>8, <1>9, <1>10 DEF Next

\* What a request has read of a contract is so when it moves it, unless an unsigned drop came between.
LEMMA StillHeld ==
  ASSUME Safe, Serial, NEW r \in Requests, NEW x \in request[r].reads,
         request[r].pc \in {"committing"} \cup RosterMoves,
         x.asset \in Players, x.row \in DOMAIN rows[x.asset], rows[x.asset][x.row].team = x.from,
         ~setting.overlap \/ ("dropUnsigned" \notin setting.moves /\ CanReplace(x.asset, x.row))
  PROVE  Holder(x.asset) = x.from
<1>1. x.row \in Live(x.asset)
  <2>1. CASE ~setting.overlap
    BY <2>1 DEF Serial, SerialRequest
  <2>2. CASE "dropUnsigned" \notin setting.moves /\ CanReplace(x.asset, x.row)
    BY <2>2 DEF Safe, ChainsOK, CanReplace
  <2> QED BY <2>1, <2>2
<1> QED BY <1>1, SafeHeld DEF Held

\* The contracts that are listed are the team's.
LEMMA ListsHolders ==
  ASSUME Safe, [Next]_vars, NEW team \in Teams, NEW p \in Players
  PROVE  p \in ActiveContracts(team, rows') <=> Holder(p)' = team
<1>1. p \in ActiveContracts(team, rows') <=> \E i \in Live(p)' : rows'[p][i].team = team
  BY DEF ActiveContracts, Live
<1>2. team # None
  BY TradeConstants
<1> QED BY <1>1, <1>2, HeldStep DEF Held

LEMMA HistoryCommitTrade ==
  ASSUME Told, [Next]_vars, NEW r \in Requests, CommitTrade(r)
  PROVE  HistoryOK'
<1> USE DEF Told
<1>1. PICK t \in Trades :
        /\ t = request[r].trade /\ request[r].reads = assets[t]
        /\ \A x \in assets[t] : Holder(x.asset)' = x.to
        /\ \A a \in Assets : (\A x \in assets[t] : x.asset # a) => Holder(a)' = Holder(a)
  BY TradeMoves
<1>2. /\ setting' = setting /\ request[r].pc = "committing" /\ assets[t] \in SUBSET AssetRow
      /\ history' = Updated(assets[t], request[r].listing) /\ rows' = RowsAfter(assets[t])
  BY <1>1 DEF CommitTrade, Safe, Typed
<1>3. /\ \A x \in assets[t] : x.asset \in Players =>
           /\ x.row \in DOMAIN rows[x.asset] /\ rows[x.asset][x.row].team = x.from
           /\ CanReplace(x.asset, x.row)
      /\ \A x, y \in assets[t] : x.asset = y.asset => x = y
  BY <1>1, <1>2 DEF Safe, TradesOK, DealRows, Grounded, RequestsOK, Committing
<1>4. SUFFICES ASSUME NEW team \in Teams, NEW p \in Players
               PROVE  /\ "dropUnsigned" \notin setting.moves =>
                           (p \in history'[team].has <=> Holder(p)' = team)
                      /\ ~setting.overlap => (p \in history'[team].listed <=> Holder(p)' = team)
  BY <1>2 DEF HistoryOK
<1>5. history'[team] = IF team \in Parties(assets[t])
                       THEN Summary(Has(team, assets[t]), request[r].listing[team])
                       ELSE history[team]
  BY <1>2 DEF Updated
<1>6. ASSUME NEW x \in assets[t], x.asset = p, "dropUnsigned" \notin setting.moves \/ ~setting.overlap
      PROVE  Holder(p) = x.from /\ Holder(p)' = x.to
             /\ \A y \in assets[t] : y.asset = p => y = x
  BY <1>1, <1>2, <1>3, <1>6, StillHeld
<1>7. ASSUME \A x \in assets[t] : x.asset # p
      PROVE  Holder(p)' = Holder(p)
  BY <1>1, <1>7 DEF Assets
<1>8. ASSUME "dropUnsigned" \notin setting.moves
      PROVE  p \in history'[team].has <=> Holder(p)' = team
  <2>1. p \in history[team].has <=> Holder(p) = team
    BY <1>8 DEF HistoryOK
  <2>2. CASE team \in Parties(assets[t])
    <3>1. history'[team].has = Has(team, assets[t])
      BY <1>5, <2>2 DEF Summary
    <3>2. p \in Has(team, assets[t]) <=>
            \/ p \in history[team].has /\ \A x \in assets[t] : x.asset = p => x.from # team
            \/ \E x \in assets[t] : x.asset = p /\ x.to = team
      BY DEF Has
    <3>3. CASE \A x \in assets[t] : x.asset # p
      BY <1>7, <2>1, <3>1, <3>2, <3>3
    <3>4. ASSUME NEW x \in assets[t], x.asset = p
          PROVE  p \in history'[team].has <=> Holder(p)' = team
      BY <1>6, <1>8, <2>1, <3>1, <3>2, <3>4
    <3> QED BY <3>3, <3>4
  <2>3. CASE team \notin Parties(assets[t])
    <3>1. \A x \in assets[t] : x.from # team /\ x.to # team
      BY <2>3 DEF Parties
    <3>2. history'[team] = history[team]
      BY <1>5, <2>3
    <3> QED BY <1>6, <1>7, <1>8, <2>1, <3>1, <3>2
  <2> QED BY <2>2, <2>3
<1>9. ASSUME ~setting.overlap
      PROVE  p \in history'[team].listed <=> Holder(p)' = team
  <2>1. CASE team \in Parties(assets[t])
    <3>1. history'[team].listed = ActiveContracts(team, rows')
      BY <1>1, <1>2, <1>5, <1>9, <2>1 DEF Summary, Serial, SerialRequest
    <3> QED BY <3>1, ListsHolders
  <2>2. CASE team \notin Parties(assets[t])
    <3>1. \A x \in assets[t] : x.from # team /\ x.to # team
      BY <2>2 DEF Parties
    <3>2. history'[team] = history[team]
      BY <1>5, <2>2
    <3>3. p \in history[team].listed <=> Holder(p) = team
      BY <1>9 DEF HistoryOK
    <3> QED BY <1>6, <1>7, <1>9, <3>1, <3>2, <3>3
  <2> QED BY <2>1, <2>2
<1> QED BY <1>8, <1>9

LEMMA HistoryRosterMove ==
  ASSUME Told, [Next]_vars, NEW r \in Requests, CommitRosterMove(r)
  PROVE  HistoryOK'
<1> USE DEF Told
<1> DEFINE new == AfterMove(request[r].by)[request[r].pc]
<1>1. PICK x \in request[r].reads :
        /\ request[r].pc \in RosterMoves
        /\ new.live => CanReplace(x.asset, x.row)
        /\ rows' = [rows EXCEPT ![x.asset] = Replaced(x.asset, x.row, new)]
        /\ history' = [history EXCEPT ![x.from] =
             Summary(IF new.team = None THEN @.has \ {x.asset} ELSE @.has,
                     ActiveContracts(x.from, rows'))]
  BY DEF CommitRosterMove
<1>2. /\ request[r].pc \in setting.moves /\ setting' = setting
      /\ x.asset \in Players /\ x.from = request[r].by /\ x.from \in Teams
      /\ x.row \in DOMAIN rows[x.asset] /\ rows[x.asset][x.row].team = x.from
  BY <1>1, ChainDomain DEF Safe, RequestsOK, RosterMoving, Grounded, AssetRow
<1>3. /\ new \in ContractRow /\ new.team \in {x.from, None}
      /\ "dropUnsigned" \notin setting.moves => new.live
  <2>1. CASE request[r].pc = "ir"
    BY <1>2, <2>1 DEF AfterMove, Row, ContractRow
  <2>2. CASE request[r].pc = "drop"
    BY <2>2 DEF AfterMove, Row, ContractRow
  <2>3. CASE request[r].pc = "dropUnsigned"
    BY <1>2, <2>3 DEF AfterMove, Row, ContractRow
  <2> QED BY <1>1, <2>1, <2>2, <2>3 DEF RosterMoves
<1> HIDE DEF new
<1> DEFINE dropped == IF new.team = None THEN history[x.from].has \ {x.asset} ELSE history[x.from].has
<1>4. /\ history'[x.from].has = dropped /\ history'[x.from].listed = ActiveContracts(x.from, rows')
      /\ \A team \in Teams \ {x.from} : history'[team] = history[team]
  BY <1>1, <1>2 DEF Safe, Typed, Summary
<1>5. ASSUME ~setting.overlap \/ "dropUnsigned" \notin setting.moves
      PROVE  Holder(x.asset) = x.from /\ Holder(x.asset)' \in {x.from, None}
  <2>1. Holder(x.asset) = x.from
    BY <1>1, <1>2, <1>3, <1>5, StillHeld
  <2>2. ~Comes(x.asset) /\ x.from # None
    BY <1>2, RosterMovesTakeNothing, TradeConstants DEF Assets
  <2> QED BY <2>1, <2>2 DEF Comes
<1>6. ASSUME "dropUnsigned" \notin setting.moves
      PROVE  Holder(x.asset)' = new.team
  <2>1. /\ rows'[x.asset] = Replaced(x.asset, x.row, new)
        /\ Latest(x.asset) + 1 \in DOMAIN rows'[x.asset]
        /\ rows'[x.asset][Latest(x.asset) + 1] = new
    BY <1>1, <1>2, <1>3, ReplacedChain DEF Safe, Typed
  <2>2. Latest(x.asset) + 1 \in Live(x.asset)'
    BY <1>3, <1>6, <2>1 DEF Live
  <2> QED BY <1>2, <2>1, <2>2, HeldStep DEF Held
<1>7. ASSUME NEW p \in Players, p # x.asset
      PROVE  Holder(p)' = Holder(p)
  <2>1. rows'[p] = rows[p] /\ p \notin Picks
    BY <1>1, <1>2, <1>7, TradeConstants DEF Safe, Typed
  <2> QED BY <2>1 DEF Holder, Live, LiveRow
<1>8. ASSUME NEW team \in Teams, NEW p \in Players, "dropUnsigned" \notin setting.moves
      PROVE  p \in history'[team].has <=> Holder(p)' = team
  <2>1. p \in history[team].has <=> Holder(p) = team
    BY <1>8 DEF HistoryOK
  <2>2. CASE p = x.asset
    BY <1>2, <1>3, <1>4, <1>5, <1>6, <1>8, <2>1, <2>2, TradeConstants
  <2>3. CASE p # x.asset
    BY <1>4, <1>7, <2>1, <2>3
  <2> QED BY <2>2, <2>3
<1>9. ASSUME NEW team \in Teams, NEW p \in Players, ~setting.overlap
      PROVE  p \in history'[team].listed <=> Holder(p)' = team
  <2>1. p \in history[team].listed <=> Holder(p) = team
    BY <1>9 DEF HistoryOK
  <2>2. CASE team = x.from
    BY <1>4, <2>2, ListsHolders
  <2>3. CASE team # x.from
    BY <1>4, <1>5, <1>7, <1>9, <2>1, <2>3, TradeConstants
  <2> QED BY <2>2, <2>3
<1> QED BY <1>2, <1>8, <1>9 DEF HistoryOK

LEMMA ToldStep == Told /\ [Next]_vars => Told'
<1> SUFFICES ASSUME Told, [Next]_vars
             PROVE  HistoryOK'
  BY SafeStep, SerialStep DEF Told
<1>1. CASE UNCHANGED <<rows, history>>
  <2>1. \A p \in Players : Holder(p)' = Holder(p)
    BY <1>1, TradeConstants DEF Holder, Live, LiveRow
  <2> QED BY <1>1, <2>1, ChainDomain DEF Told, Safe, HistoryOK
<1> QED BY <1>1, HistoryCommitTrade, HistoryRosterMove DEF Next, vars, BeginPropose, RejectTrade,
     BeginAccept, BeginRosterMove, InsertTrade, RecordAccept, MoveAssets, Fail

LEMMA ToldInit == Init => Told
<1> SUFFICES ASSUME Init
             PROVE  Told
  OBVIOUS
<1>1. Safe
  BY SafeInit
<1>2. Serial
  BY IdleTyped DEF Init, Serial, SerialRequest, RosterMoves
<1>3. ASSUME NEW p \in Players
      PROVE  Holder(p) = FirstHolder[p]
  <2> DEFINE first == Row(FirstHolder[p], TRUE)
  <2>1. first.live /\ first.team = FirstHolder[p]
    BY DEF Row
  <2> HIDE DEF first
  <2>2. rows[p] = <<first>>
    BY DEF Init, first
  <2>3. DOMAIN rows[p] = 1..1 /\ rows[p][1] = first
    BY <2>2
  <2>4. 1 \in Live(p)
    BY <2>1, <2>3 DEF Live
  <2> QED BY <1>1, <2>1, <2>3, <2>4, SafeHeld DEF Held
<1>4. HistoryOK
  BY <1>3 DEF Init, HistoryOK, Summary, Assets
<1> QED BY <1>1, <1>2, <1>4 DEF Told

\* The team updates add up to the players each team has under all races but those with drops of
\* expired contracts, and the last update lists them when requests come one at a time
\* (insert_team_updates_from_completed_trade, roster_op).
THEOREM UpdatesTell == Spec => []HistoryTells
<1>1. Told => HistoryTells
  BY TradeConstants DEF Told, Safe, Typed, HistoryOK, HistoryTells
<1> QED BY <1>1, ToldInit, ToldStep, PTL DEF Spec

-----------------------------------------------------------------------------
(***************************************************************************)
(* With requests one at a time and no roster moves, an offer stands until  *)
(* it is settled; and if teams only act on offers that are open, Trades    *)
(* implements TradeDeals.                                                  *)
(***************************************************************************)

Current(x) == x = Asset(x.asset, x.to)
Offers(S, t) == DOMAIN To[t] \subseteq {x.asset : x \in S} /\ \A x \in S : Current(x)

\* An open trade offers what its teams have, and nobody has rejected it.
OpenTrade(t) ==
  /\ status[t] \in Active =>
       Offers(assets[t], t) /\ \A x \in actions[t] : x.kind # "reject"
  /\ \A x \in assets[t] : x.asset \in Picks => x.row = 0

\* What a request has found is still so, as no other has come in between.
Undisturbed(r) ==
  LET t == request[r].trade
      heard == actions[t] \cup {Said(request[r].by, "accept")}
  IN
  /\ request[r].pc = "proposing" =>
       Offers(request[r].reads, t) /\ \A x \in request[r].reads : x.asset \in Picks => x.row = 0
  /\ setting.activeOnly /\ request[r].pc = "recording" =>
       status[t] \in Active /\ ~AcceptedByAll(t, heard)
  /\ setting.activeOnly /\ request[r].pc \in {"moving", "committing"} =>
       status[t] \in Active /\ AcceptedByAll(t, heard)
  /\ request[r].pc = "committing" => request[r].others = OtherTrades(t)

Peaceful ==
  OneAtATime => /\ \A t \in Trades : OpenTrade(t)
                /\ \A r \in Requests : Undisturbed(r)

Standing == Safe /\ Serial /\ Peaceful

-----------------------------------------------------------------------------

LEMMA StandingInit == Init => Standing
<1> SUFFICES ASSUME Init
             PROVE  Standing
  OBVIOUS
<1>1. Safe /\ Serial
  BY ToldInit DEF Told
<1>2. Peaceful
  BY IdleTyped DEF Init, Peaceful, OpenTrade, Undisturbed, Active
<1> QED BY <1>1, <1>2 DEF Standing

\* In peace the one live row of a player is what an offer names.
LEMMA CurrentRow ==
  ASSUME Safe, OneAtATime, NEW x \in AssetRow, Current(x), x.asset \in Players
  PROVE  x.row \in Live(x.asset) /\ Live(x.asset) = {x.row} /\ x.from = Holder(x.asset)
<1> DEFINE p == x.asset
<1>1. p \notin Picks
  BY TradeConstants
<1>2. Live(p) # {}
  BY DEF Safe, ChainsOK, OneAtATime
<1>3. PICK i \in Live(p) : Live(p) = {i}
  BY <1>2 DEF Safe, ChainsOK
<1>4. i \in Nat
  BY <1>3 DEF Live, Safe, Typed
<1>5. LiveRow(p) = i
  BY <1>3, <1>4 DEF LiveRow
<1>6. x.row = LiveRow(p) /\ x.from = Holder(p)
  BY <1>1 DEF Current, Asset
<1> QED BY <1>3, <1>5, <1>6

\* Nothing that is offered depends on a player whose chain stays as it is.
LEMMA CurrentKept ==
  ASSUME NEW x, Current(x), x.asset \in Assets,
         x.asset \in Players => rows'[x.asset] = rows[x.asset],
         x.asset \in Picks => owner'[x.asset] = owner[x.asset]
  PROVE  Current(x)'
<1>1. CASE x.asset \in Picks
  BY <1>1 DEF Current, Asset, Holder
<1>2. CASE x.asset \notin Picks
  <2>1. rows'[x.asset] = rows[x.asset]
    BY <1>2 DEF Assets
  <2>2. Live(x.asset)' = Live(x.asset)
    BY <2>1 DEF Live
  <2> QED BY <1>2, <2>1, <2>2 DEF Current, Asset, Holder, LiveRow
<1> QED BY <1>1, <1>2

LEMMA OffersKept ==
  ASSUME NEW S \in SUBSET AssetRow, NEW t, Offers(S, t), UNCHANGED <<rows, owner>>
  PROVE  DOMAIN To[t] \subseteq {x.asset : x \in S} /\ \A x \in S : Current(x)'
BY CurrentKept DEF Offers, AssetRow

LEMMA OpenKept ==
  ASSUME Safe, NEW t \in Trades, OpenTrade(t), UNCHANGED <<rows, owner>>, assets'[t] = assets[t],
         status'[t] \in Active => status[t] \in Active /\ \A x \in actions'[t] : x.kind # "reject"
  PROVE  OpenTrade(t)'
<1>1. assets[t] \in SUBSET AssetRow
  BY DEF Safe, Typed
<1>2. status[t] \in Active => \A x \in assets[t] : Current(x)'
  BY <1>1, OffersKept DEF OpenTrade
<1> QED BY <1>2 DEF OpenTrade, Offers

LEMMA IdleUndisturbed ==
  ASSUME NEW r \in Requests, request'[r].pc \in {"idle"} \cup RosterMoves
  PROVE  Undisturbed(r)'
BY DEF Undisturbed, RosterMoves

\* The commit of a trade: offers over its assets are off, the others are about other assets.
LEMMA PeacefulCommit ==
  ASSUME Safe, Serial, Peaceful, OneAtATime, [Next]_vars, NEW r \in Requests, CommitTrade(r),
         NEW u \in Trades
  PROVE  OpenTrade(u)'
<1> USE DEF Safe
<1>1. PICK t \in Trades :
        /\ t = request[r].trade /\ request[r].reads = assets[t]
        /\ \A x \in assets[t] : Holder(x.asset)' = x.to
        /\ \A a \in Assets : (\A x \in assets[t] : x.asset # a) => Holder(a)' = Holder(a)
  BY TradeMoves
<1>2. /\ request[r].pc = "committing" /\ request[r].others = OtherTrades(t)
      /\ \A x \in assets[t] : x.asset \in Players => x.row \in Live(x.asset)
      /\ \A x \in assets[t] : x.asset \in Picks => x.row = 0
  BY <1>1 DEF CommitTrade, Peaceful, Undisturbed, OpenTrade, Serial, SerialRequest, OneAtATime
<1>3. /\ assets' = assets /\ assets[u] \in SUBSET AssetRow
      /\ status'[u] = IF u = t THEN "Completed"
                      ELSE IF u \in OtherTrades(t) THEN "Invalidated" ELSE status[u]
      /\ rows' = RowsAfter(assets[t])
      /\ owner' = [p \in Picks |-> IF \E x \in assets[t] : x.asset = p
                                   THEN (CHOOSE x \in assets[t] : x.asset = p).to ELSE owner[p]]
  BY <1>1, <1>2 DEF CommitTrade, Typed
<1>4. \A x \in assets[u] : x.asset \in Picks => x.row = 0
  BY DEF Peaceful, OpenTrade
<1>5. ASSUME status'[u] \in Active
      PROVE  Offers(assets[u], u)' /\ \A x \in actions'[u] : x.kind # "reject"
  <2>1. u # t /\ u \notin OtherTrades(t) /\ status[u] \in Active
    BY <1>3, <1>5 DEF Active
  <2>2. Offers(assets[u], u) /\ \A x \in actions[u] : x.kind # "reject"
    BY <2>1 DEF Peaceful, OpenTrade
  <2>3. ASSUME NEW y \in assets[u], NEW x \in assets[t], x.asset = y.asset
        PROVE  FALSE
    <3>1. x.row = y.row
      <4>1. CASE y.asset \in Picks
        BY <1>2, <1>4, <2>3, <4>1
      <4>2. CASE y.asset \notin Picks
        <5>1. y.asset \in Players /\ y \in AssetRow /\ Current(y)
          BY <1>3, <2>2, <4>2 DEF AssetRow, Assets, Offers
        <5>2. Live(y.asset) = {y.row}
          BY <5>1, CurrentRow
        <5> QED BY <1>2, <2>3, <5>1, <5>2
      <4> QED BY <4>1, <4>2
    <3> QED BY <2>1, <2>3, <3>1 DEF OtherTrades
  <2>4. ASSUME NEW y \in assets[u]
        PROVE  Current(y)'
    <3>1. Current(y) /\ y.asset \in Assets
      BY <1>3, <2>2 DEF Offers, AssetRow
    <3>2. y.asset \in Players => rows'[y.asset] = rows[y.asset]
      BY <1>3, <2>3, MovedChains
    <3>3. y.asset \in Picks => owner'[y.asset] = owner[y.asset]
      BY <1>3, <2>3
    <3> QED BY <3>1, <3>2, <3>3, CurrentKept
  <2>5. actions'[u] = actions[u]
    BY <1>1, <2>1 DEF CommitTrade, Accepted, Typed
  <2> QED BY <1>3, <2>2, <2>4, <2>5 DEF Offers
<1> QED BY <1>3, <1>4, <1>5 DEF OpenTrade

LEMMA PeacefulAccept ==
  ASSUME Safe, Serial, Peaceful, OneAtATime,
         NEW r \in Requests, NEW t \in Trades, NEW team \in Teams, BeginAccept(r, t, team)
  PROVE  Undisturbed(r)'
<1> DEFINE recording == [Idle EXCEPT !.pc = "recording", !.trade = t, !.by = team]
           moving == [Idle EXCEPT !.pc = "moving", !.trade = t, !.by = team, !.reads = assets[t]]
           agreed == AcceptedByAll(t, actions[t] \cup {Said(team, "accept")})
<1>1. /\ setting.activeOnly => status[t] \in Active
      /\ UNCHANGED <<setting, status, assets, actions>>
      /\ \/ request' = [request EXCEPT ![r] = recording] /\ ~agreed
         \/ request' = [request EXCEPT ![r] = moving] /\ agreed
  BY DEF BeginAccept, Actionable, Listed
<1>2. /\ recording.pc = "recording" /\ recording.trade = t /\ recording.by = team
      /\ moving.pc = "moving" /\ moving.trade = t /\ moving.by = team
  BY DEF Idle
<1> HIDE DEF recording, moving
<1>3. CASE request' = [request EXCEPT ![r] = recording] /\ ~agreed
  <2>1. request'[r] = recording
    BY <1>3 DEF Safe, Typed
  <2> QED BY <1>1, <1>2, <1>3, <2>1 DEF Undisturbed, AcceptedByAll
<1>4. CASE request' = [request EXCEPT ![r] = moving] /\ agreed
  <2>1. request'[r] = moving
    BY <1>4 DEF Safe, Typed
  <2> QED BY <1>1, <1>2, <1>4, <2>1 DEF Undisturbed, AcceptedByAll
<1> QED BY <1>1, <1>3, <1>4

LEMMA PeacefulStep ==
  ASSUME Safe, Serial, Peaceful, [Next]_vars
  PROVE  Peaceful'
<1> USE DEF Safe
<1>0. setting' = setting
  BY ChainDomain
<1>1. SUFFICES ASSUME OneAtATime
               PROVE  /\ \A t \in Trades : OpenTrade(t)'
                      /\ \A s \in Requests : Undisturbed(s)'
  BY <1>0 DEF Peaceful, OneAtATime
<1>2. /\ \A t \in Trades : OpenTrade(t)
      /\ \A r, s \in Requests : request[r].pc # "idle" /\ r # s => request[s].pc = "idle"
      /\ ~setting.overlap /\ setting.moves = {}
  BY <1>1 DEF Peaceful, Serial, SerialRequest, OneAtATime
<1>3. ASSUME UNCHANGED <<rows, owner, status, assets, actions>>
      PROVE  \A t \in Trades : OpenTrade(t)'
  BY <1>2, <1>3, OpenKept DEF OpenTrade
<1>4. ASSUME NEW r \in Requests, request[r].pc # "idle", request' = [request EXCEPT ![r] = Idle]
      PROVE  \A s \in Requests : Undisturbed(s)'
  BY <1>2, <1>4, IdleTyped, IdleUndisturbed DEF Typed
<1>5. ASSUME NEW r \in Requests, MayStart(r), NEW q, request' = [request EXCEPT ![r] = q]
      PROVE  \A s \in Requests \ {r} : Undisturbed(s)'
  BY <1>2, <1>5, IdleUndisturbed DEF MayStart, Typed
<1>6. ASSUME NEW r \in Requests, NEW t \in Trades, BeginPropose(r, t)
      PROVE  /\ \A u \in Trades : OpenTrade(u)'
             /\ \A s \in Requests : Undisturbed(s)'
  <2> DEFINE S == {Asset(a, To[t][a]) : a \in DOMAIN To[t]}
             q == [Idle EXCEPT !.pc = "proposing", !.trade = t, !.reads = S]
  <2>1. /\ MayStart(r) /\ request' = [request EXCEPT ![r] = q]
        /\ UNCHANGED <<rows, owner, status, assets, actions>>
        /\ \A a \in DOMAIN To[t] : Holder(a) \in Involved(t)
    BY <1>6 DEF BeginPropose
  <2>2. ASSUME NEW a \in DOMAIN To[t]
        PROVE  LET x == Asset(a, To[t][a]) IN
               x.asset = a /\ Current(x) /\ x \in AssetRow /\ (a \in Picks => x.row = 0)
    <3>1. a \in Assets /\ To[t][a] \in Teams /\ Holder(a) \in Teams
      BY <2>1, TradeTeams
    <3>2. Asset(a, To[t][a]).asset = a /\ Asset(a, To[t][a]).to = To[t][a]
          /\ Asset(a, To[t][a]) \in AssetRow
      BY <3>1, AssetRead
    <3> QED BY <3>2 DEF Current, Asset
  <2>3. Offers(S, t) /\ S \in SUBSET AssetRow /\ \A x \in S : x.asset \in Picks => x.row = 0
    BY <2>2 DEF Offers
  <2> HIDE DEF S
  <2>4. q.pc = "proposing" /\ q.trade = t /\ q.reads = S
    BY DEF Idle
  <2> HIDE DEF q
  <2>5. request'[r] = q
    BY <2>1 DEF Typed
  <2>6. \A x \in S : Current(x)'
    BY <2>1, <2>3, OffersKept
  <2>7. Undisturbed(r)'
    BY <2>3, <2>4, <2>5, <2>6 DEF Undisturbed, Offers
  <2> QED BY <1>3, <1>5, <2>1, <2>7
<1>7. ASSUME NEW r \in Requests, InsertTrade(r)
      PROVE  \A u \in Trades : OpenTrade(u)'
  <2>1. PICK t \in Trades, S \in SUBSET AssetRow :
          /\ Offers(S, t) /\ \A x \in S : x.asset \in Picks => x.row = 0
          /\ UNCHANGED <<rows, owner>>
          /\ status' = [status EXCEPT ![t] = "Proposed"] /\ assets' = [assets EXCEPT ![t] = S]
          /\ actions' = [actions EXCEPT ![t] = {Said(By[t], "propose")}]
    BY <1>1, <1>7 DEF InsertTrade, NewTrade, RequestsOK, Proposing, Peaceful, Undisturbed, Typed,
       RequestState
  <2>2. assets'[t] = S /\ \A x \in actions'[t] : x.kind # "reject"
    BY <2>1 DEF Typed, Said
  <2>3. \A x \in S : Current(x)'
    BY <2>1, OffersKept
  <2>4. OpenTrade(t)'
    BY <2>1, <2>2, <2>3 DEF OpenTrade, Offers
  <2>5. ASSUME NEW u \in Trades \ {t}
        PROVE  OpenTrade(u)'
    <3>1. status'[u] = status[u] /\ assets'[u] = assets[u] /\ actions'[u] = actions[u]
      BY <2>1 DEF Typed
    <3> QED BY <1>2, <2>1, <3>1, OpenKept DEF OpenTrade
  <2> QED BY <2>4, <2>5
<1>8. ASSUME NEW r \in Requests, NEW t \in Trades, NEW team \in Teams, RejectTrade(r, t, team)
      PROVE  /\ \A u \in Trades : OpenTrade(u)'
             /\ \A s \in Requests : Undisturbed(s)'
  <2>1. /\ MayStart(r) /\ UNCHANGED <<rows, owner, assets, request>>
        /\ status' = [status EXCEPT ![t] = "Rejected"]
        /\ actions' = [actions EXCEPT ![t] = @ \cup {Said(team, "reject")}]
    BY <1>8 DEF RejectTrade
  <2>2. ASSUME NEW u \in Trades
        PROVE  OpenTrade(u)'
    <3>1. status'[u] \in Active => status[u] \in Active /\ actions'[u] = actions[u]
      BY <2>1 DEF Typed, Active
    <3> QED BY <1>2, <2>1, <3>1, OpenKept DEF OpenTrade
  <2>3. \A s \in Requests : request'[s].pc = "idle"
    BY <1>2, <2>1 DEF MayStart
  <2> QED BY <2>2, <2>3, IdleUndisturbed
<1>9. ASSUME NEW r \in Requests, NEW t \in Trades, NEW team \in Teams, BeginAccept(r, t, team)
      PROVE  /\ \A u \in Trades : OpenTrade(u)'
             /\ \A s \in Requests : Undisturbed(s)'
  <2>1. MayStart(r) /\ UNCHANGED <<rows, owner, status, assets, actions>>
        /\ \E q : request' = [request EXCEPT ![r] = q]
    BY <1>9 DEF BeginAccept
  <2> QED BY <1>1, <1>3, <1>5, <1>9, <2>1, PeacefulAccept
<1>10. ASSUME NEW r \in Requests, RecordAccept(r)
       PROVE  \A u \in Trades : OpenTrade(u)'
  <2> SUFFICES ASSUME NEW u \in Trades
               PROVE  OpenTrade(u)'
    OBVIOUS
  <2>1. /\ UNCHANGED <<rows, owner, status, assets>>
        /\ actions'[u] = actions[u] \/ actions'[u] = actions[u] \cup {Said(request[r].by, "accept")}
    BY <1>10 DEF RecordAccept, Accepted, Typed
  <2>2. \A x \in actions'[u] \ actions[u] : x.kind # "reject"
    BY <2>1 DEF Said
  <2> QED BY <1>2, <2>1, <2>2, OpenKept DEF OpenTrade
<1>11. ASSUME NEW r \in Requests, MoveAssets(r)
       PROVE  /\ \A u \in Trades : OpenTrade(u)'
              /\ \A s \in Requests : Undisturbed(s)'
  <2> DEFINE listing == [team \in Teams |->
               IF team \in Parties(request[r].reads)
               THEN ActiveContracts(team, RowsAfter(request[r].reads)) ELSE {}]
             others == OtherTrades(request[r].trade)
             q == [request[r] EXCEPT !.pc = "committing", !.others = others, !.listing = listing]
  <2>1. /\ request[r].pc = "moving" /\ request' = [request EXCEPT ![r] = q]
        /\ request[r] \in RequestState
        /\ UNCHANGED <<rows, owner, status, assets, actions>>
    BY <1>11 DEF MoveAssets, Typed
  <2> HIDE DEF listing, others
  <2>2. /\ q.pc = "committing" /\ q.trade = request[r].trade /\ q.by = request[r].by
        /\ q.others = others
    BY <2>1 DEF RequestState
  <2> HIDE DEF q
  <2>3. request'[r] = q /\ \A s \in Requests \ {r} : request'[s].pc = "idle"
    BY <1>2, <2>1 DEF Typed
  <2>4. OtherTrades(request[r].trade)' = others
    BY <2>1, <2>2, <2>3 DEF OtherTrades, others
  <2>5. Undisturbed(r)'
    BY <1>0, <1>1, <2>1, <2>2, <2>3, <2>4 DEF Peaceful, Undisturbed, AcceptedByAll
  <2> QED BY <1>3, <2>1, <2>3, <2>5, IdleUndisturbed
<1>12. ASSUME NEW r \in Requests, CommitTrade(r)
       PROVE  \A u \in Trades : OpenTrade(u)'
  BY <1>1, <1>12, PeacefulCommit
<1>13. ASSUME NEW r \in Requests, CommitRosterMove(r)
       PROVE  FALSE
  BY <1>2, <1>13 DEF CommitRosterMove, RequestsOK, RosterMoving
<1>14. ASSUME NEW r \in Requests, Fail(r)
       PROVE  \A u \in Trades : OpenTrade(u)'
  BY <1>3, <1>14 DEF Fail
<1>15. ASSUME NEW r \in Requests, NEW p \in Players, NEW kind \in RosterMoves,
              BeginRosterMove(r, p, kind)
       PROVE  FALSE
  BY <1>2, <1>15 DEF BeginRosterMove
<1>16. ASSUME NEW r \in Requests, InsertTrade(r) \/ RecordAccept(r) \/ CommitTrade(r) \/ Fail(r)
       PROVE  \A s \in Requests : Undisturbed(s)'
  BY <1>4, <1>16 DEF InsertTrade, RecordAccept, CommitTrade, Fail
<1>17. CASE UNCHANGED vars
  <2>1. \A s \in Requests : Undisturbed(s)'
    <3> SUFFICES ASSUME NEW s \in Requests
                 PROVE  Undisturbed(s)'
      OBVIOUS
    <3>1. Undisturbed(s) /\ UNCHANGED <<setting, rows, owner, status, assets, actions, request>>
      BY <1>1, <1>17 DEF Peaceful, vars
    <3>2. OtherTrades(request[s].trade)' = OtherTrades(request[s].trade)
      BY <3>1 DEF OtherTrades
    <3>3. request[s].pc = "proposing" =>
            Offers(request[s].reads, request[s].trade)'
      <4>1. ASSUME NEW x \in request[s].reads, Current(x)
            PROVE  Current(x)'
        BY <3>1, <4>1, CurrentKept DEF Typed, RequestState, AssetRow
      <4> QED BY <3>1, <4>1 DEF Undisturbed, Offers
    <3> QED BY <3>1, <3>2, <3>3 DEF Undisturbed, AcceptedByAll
  <2> QED BY <1>3, <1>17, <2>1 DEF vars
<1> QED BY <1>6, <1>7, <1>8, <1>9, <1>10, <1>11, <1>12, <1>13, <1>14, <1>15, <1>16, <1>17 DEF Next

LEMMA AlwaysStanding == Spec => []Standing
<1>1. Standing /\ [Next]_vars => Standing'
  BY SafeStep, SerialStep, PeacefulStep DEF Standing
<1> QED BY <1>1, StandingInit, PTL DEF Spec

\* With one request after the other an active trade only offers what its teams have, even if settled
\* trades are accepted or rejected again (invalidate_external_trades_with_traded_assets).
THEOREM OffersStay == Spec => []OffersStand
<1>1. Standing => OffersStand
  BY DEF Standing, Peaceful, OpenTrade, Offers, Current, OffersStand
<1> QED BY <1>1, AlwaysStanding, PTL


-----------------------------------------------------------------------------
(* The refinement *)

LEMMA HoldersKept ==
  ASSUME UNCHANGED <<rows, owner>>
  PROVE  [a \in Assets |-> Holder(a)]' = [a \in Assets |-> Holder(a)]
BY DEF Holder, LiveRow, Live

\* The teams that have said yes to a trade, by these actions.
Yes(said) == {x.team : x \in {x \in said : x.kind # "reject"}}

LEMMA DealsAtFirst == Init => Deals!DealsInit
<1> SUFFICES ASSUME Init
             PROVE  Deals!DealsInit
  OBVIOUS
<1>1. [t \in Trades |-> {x.team : x \in {x \in actions[t] : x.kind # "reject"}}]
        = [t \in Trades |-> {}]
  BY DEF Init
<1>2. ASSUME NEW a \in Assets
      PROVE  Holder(a) = FirstHolder[a]
  <2>1. CASE a \in Picks
    BY <2>1 DEF Holder, Init
  <2>2. CASE a \notin Picks
    <3>1. a \in Players /\ rows[a] = <<Row(FirstHolder[a], TRUE)>>
      BY <2>2 DEF Assets, Init
    <3>2. Live(a) = {1}
      BY <3>1 DEF Live, Row
    <3>3. LiveRow(a) = 1
      BY <3>2 DEF LiveRow
    <3> QED BY <2>2, <3>1, <3>2, <3>3 DEF Holder, Row
  <2> QED BY <2>1, <2>2
<1>3. [a \in Assets |-> Holder(a)] = FirstHolder
  BY <1>2, TradeConstants
<1> QED BY <1>1, <1>3 DEF Init, Deals!DealsInit

\* The open offers over an asset of a trade that is open itself are those that name the same row.
LEMMA SameShares ==
  ASSUME Safe, Peaceful, OneAtATime, NEW t \in Trades, status[t] \in Active
  PROVE  OtherTrades(t) = Deals!Sharing(t)
<1>1. ASSUME NEW u \in Trades, status[u] \in Active
      PROVE  {x.asset : x \in assets[u]} = DOMAIN To[u] /\ \A x \in assets[u] : Current(x)
  BY <1>1 DEF Safe, TradesOK, DealRows, Peaceful, OpenTrade, Offers
<1>2. ASSUME NEW u \in Trades, status[u] \in Active
      PROVE  (\E x \in assets[t], y \in assets[u] : x.asset = y.asset /\ x.row = y.row)
               <=> DOMAIN To[t] \cap DOMAIN To[u] # {}
  <2>1. ASSUME NEW x \in assets[t], NEW y \in assets[u], x.asset = y.asset
        PROVE  x.row = y.row
    BY <1>1, <1>2, <2>1 DEF Current, Asset
  <2> QED BY <1>1, <1>2, <2>1
<1> QED BY <1>2 DEF OtherTrades, Deals!Sharing, Active

LEMMA InsertOffers ==
  ASSUME Standing, OneAtATime, NEW r \in Requests, InsertTrade(r)
  PROVE  Deals!DealsNext
<1> USE DEF Standing, Safe
<1>1. PICK t \in Trades : t = request[r].trade /\ status[t] = "None"
        /\ Offers(request[r].reads, t) /\ DealRows(request[r].reads, t)
  BY DEF InsertTrade, RequestsOK, Proposing, Peaceful, Undisturbed
<1>2. /\ UNCHANGED <<rows, owner>>
      /\ status' = [status EXCEPT ![t] = "Proposed"]
      /\ actions' = [actions EXCEPT ![t] = {Said(By[t], "propose")}]
  BY <1>1 DEF InsertTrade, NewTrade
<1>3. ASSUME NEW a \in DOMAIN To[t]
      PROVE  Holder(a) \in Involved(t)
  <2>1. PICK x \in request[r].reads : x.asset = a
    BY <1>1 DEF Offers
  <2> QED BY <1>1, <2>1 DEF Offers, DealRows, Current, Asset
<1>4. \A a \in DOMAIN To[t] : a \in Assets
  BY TradeTeams
<1>5. Yes(actions'[t]) = {By[t]} /\ \A u \in Trades \ {t} : actions'[u] = actions[u]
  <2>1. actions'[t] = {Said(By[t], "propose")} /\ \A u \in Trades \ {t} : actions'[u] = actions[u]
    BY <1>2 DEF Typed
  <2>2. Said(By[t], "propose").team = By[t] /\ Said(By[t], "propose").kind # "reject"
    BY DEF Said
  <2> QED BY <2>1, <2>2 DEF Yes
<1>6. [u \in Trades |-> Yes(actions'[u])]
        = [[u \in Trades |-> Yes(actions[u])] EXCEPT ![t] = {By[t]}]
  BY <1>5
<1>7. [a \in Assets |-> Holder(a)]' = [a \in Assets |-> Holder(a)]
  BY <1>2, HoldersKept
<1>8. \A a \in DOMAIN To[t] : [b \in Assets |-> Holder(b)][a] \in Deals!Party(t)
  BY <1>3, <1>4 DEF Deals!Party, Involved
<1>9. Deals!Offer(t)
  BY <1>1, <1>2, <1>6, <1>7, <1>8 DEF Deals!Offer, Yes
<1> QED BY <1>9 DEF Deals!DealsNext

LEMMA RejectRefuses ==
  ASSUME Standing, setting.activeOnly,
         NEW r \in Requests, NEW t \in Trades, NEW team \in Teams, RejectTrade(r, t, team)
  PROVE  Deals!DealsNext
<1>1. /\ UNCHANGED <<rows, owner>> /\ status[t] = "Proposed"
      /\ status' = [status EXCEPT ![t] = "Rejected"]
      /\ actions' = [actions EXCEPT ![t] = @ \cup {Said(team, "reject")}]
  BY DEF RejectTrade, Actionable, Listed, Active
<1>2. ASSUME NEW u \in Trades
      PROVE  Yes(actions'[u]) = Yes(actions[u])
  BY <1>1 DEF Standing, Safe, Typed, Yes, Said
<1>3. Deals!Refuse(t)
  BY <1>1, <1>2, HoldersKept DEF Deals!Refuse, Yes
<1> QED BY <1>3 DEF Deals!DealsNext

\* What an accept adds to the teams that have said yes.
LEMMA AcceptSaid ==
  ASSUME Safe, NEW t \in Trades, NEW team \in Teams,
         actions' = [actions EXCEPT ![t] = @ \cup {Said(team, "accept")}]
  PROVE  /\ Yes(actions'[t]) = Yes(actions[t]) \cup {team}
         /\ [u \in Trades |-> Yes(actions'[u])]
              = [[u \in Trades |-> Yes(actions[u])] EXCEPT ![t] = @ \cup {team}]
<1>1. /\ actions'[t] = actions[t] \cup {Said(team, "accept")}
      /\ \A u \in Trades \ {t} : actions'[u] = actions[u]
  BY DEF Safe, Typed
<1>2. Said(team, "accept").team = team /\ Said(team, "accept").kind # "reject"
  BY DEF Said
<1>3. Yes(actions'[t]) = Yes(actions[t]) \cup {team}
  <2>1. ASSUME NEW other
        PROVE  other \in Yes(actions'[t]) <=> other \in Yes(actions[t]) \/ other = team
    <3>1. other \in Yes(actions'[t]) <=> \E x \in actions'[t] : x.kind # "reject" /\ x.team = other
      BY DEF Yes
    <3>2. other \in Yes(actions[t]) <=> \E x \in actions[t] : x.kind # "reject" /\ x.team = other
      BY DEF Yes
    <3> QED BY <1>1, <1>2, <3>1, <3>2
  <2> QED BY <2>1
<1> DEFINE before == [u \in Trades |-> Yes(actions[u])]
<1>4. ASSUME NEW u \in Trades
      PROVE  Yes(actions'[u]) = [before EXCEPT ![t] = @ \cup {team}][u]
  <2>1. CASE u = t
    BY <1>3, <2>1
  <2>2. CASE u # t
    BY <1>1, <2>2
  <2> QED BY <2>1, <2>2
<1> QED BY <1>3, <1>4

LEMMA RecordAgrees ==
  ASSUME Standing, OneAtATime, setting.activeOnly, NEW r \in Requests, RecordAccept(r)
  PROVE  Deals!DealsNext
<1> USE DEF Standing, Safe
<1>1. PICK t \in Trades, team \in Teams :
        /\ t = request[r].trade /\ team = request[r].by /\ team \in Involved(t)
        /\ status[t] = "Proposed" /\ ~AcceptedByAll(t, actions[t] \cup {Said(team, "accept")})
  BY TradeTeams DEF RecordAccept, RequestsOK, Accepting, Peaceful, Undisturbed, Active
<1>2. /\ UNCHANGED <<rows, owner, status>>
      /\ actions' = [actions EXCEPT ![t] = @ \cup {Said(team, "accept")}]
  BY <1>1 DEF RecordAccept, Accepted
<1>3. \A x \in actions[t] : x.kind \in {"propose", "accept"}
  <2>1. \A x \in actions[t] : x.kind # "reject"
    BY <1>1 DEF Peaceful, OpenTrade, Active
  <2>2. actions[t] \subseteq [team : Teams, kind : Kinds]
    BY DEF Typed
  <2> QED BY <2>1, <2>2 DEF Kinds
<1>4. Yes(actions[t]) \cup {team} # Involved(t)
  <2>1. Said(team, "accept").team = team /\ Said(team, "accept").kind = "accept"
    BY DEF Said
  <2>2. PICK missing \in Involved(t) :
          \A x \in actions[t] \cup {Said(team, "accept")} : x.team # missing
    BY <1>1, <1>3, <2>1 DEF AcceptedByAll
  <2>3. missing \notin Yes(actions[t])
    BY <2>2 DEF Yes
  <2> QED BY <2>1, <2>2, <2>3
<1>5. /\ [u \in Trades |-> Yes(actions'[u])]
           = [[u \in Trades |-> Yes(actions[u])] EXCEPT ![t] = @ \cup {team}]
      /\ [u \in Trades |-> Yes(actions'[u])][t] # Deals!Party(t)
  BY <1>2, <1>4, AcceptSaid DEF Deals!Party, Involved
<1>6. [a \in Assets |-> Holder(a)]' = [a \in Assets |-> Holder(a)]
  BY <1>2, HoldersKept
<1>7. Deals!Agree(t, team)
  BY <1>1, <1>2, <1>5, <1>6 DEF Deals!Agree, Deals!Party, Involved, Yes
<1> QED BY <1>7 DEF Deals!DealsNext

LEMMA CommitSettles ==
  ASSUME Standing, [Next]_vars, OneAtATime, setting.activeOnly, NEW r \in Requests, CommitTrade(r)
  PROVE  Deals!DealsNext
<1> USE DEF Standing, Safe
<1>1. PICK t \in Trades, team \in Teams :
        /\ t = request[r].trade /\ team = request[r].by /\ team \in Involved(t)
        /\ status[t] = "Proposed" /\ AcceptedByAll(t, actions[t] \cup {Said(team, "accept")})
        /\ request[r].others = OtherTrades(t)
  BY TradeTeams DEF CommitTrade, RequestsOK, Accepting, Peaceful, Undisturbed, Active
<1>2. /\ \A x \in assets[t] : Holder(x.asset)' = x.to
      /\ \A a \in Assets : (\A x \in assets[t] : x.asset # a) => Holder(a)' = Holder(a)
  BY <1>1, TradeMoves
<1>3. actions' = [actions EXCEPT ![t] = @ \cup {Said(team, "accept")}]
  BY <1>1 DEF CommitTrade, Accepted
<1>4. Yes(actions[t]) \cup {team} = Involved(t)
  <2>1. Yes(actions[t]) \subseteq Involved(t)
    BY DEF TradesOK, Yes
  <2>2. Involved(t) \subseteq Yes(actions[t]) \cup {team}
    BY <1>1 DEF AcceptedByAll, Yes, Said
  <2> QED BY <1>1, <2>1, <2>2
<1>5. {x.asset : x \in assets[t]} = DOMAIN To[t] /\ \A x \in assets[t] : x.to = To[t][x.asset]
  BY <1>1 DEF TradesOK, DealRows, Peaceful, OpenTrade, Offers, Active
<1>6. ASSUME NEW a \in Assets
      PROVE  Holder(a)' = IF a \in DOMAIN To[t] THEN To[t][a] ELSE Holder(a)
  BY <1>2, <1>5
<1>7. [a \in Assets |-> Holder(a)]'
        = [a \in Assets |-> IF a \in DOMAIN To[t] THEN To[t][a] ELSE [b \in Assets |-> Holder(b)][a]]
  BY <1>6
<1>8. status' = [u \in Trades |-> IF u = t THEN "Completed"
                   ELSE IF u \in Deals!Sharing(t) THEN "Invalidated" ELSE status[u]]
  BY <1>1, SameShares DEF CommitTrade, Active
<1>9. /\ [u \in Trades |-> Yes(actions'[u])]
           = [[u \in Trades |-> Yes(actions[u])] EXCEPT ![t] = @ \cup {team}]
      /\ [u \in Trades |-> Yes(actions'[u])][t] = Deals!Party(t)
  BY <1>3, <1>4, AcceptSaid DEF Deals!Party, Involved
<1>10. Deals!Settle(t, team)
  BY <1>1, <1>7, <1>8, <1>9 DEF Deals!Settle, Deals!Party, Involved, Yes
<1> QED BY <1>10 DEF Deals!DealsNext

LEMMA DealsStep ==
  ASSUME Standing, [Next]_vars
  PROVE  [OneAtATime /\ setting.activeOnly => Deals!DealsNext]_(Deals!dealVars)
<1> SUFFICES ASSUME OneAtATime, setting.activeOnly
             PROVE  Deals!DealsNext \/ UNCHANGED Deals!dealVars
  OBVIOUS
<1>1. ASSUME UNCHANGED <<rows, owner, status, actions>>
      PROVE  UNCHANGED Deals!dealVars
  BY <1>1, HoldersKept DEF Deals!dealVars
<1>2. ASSUME NEW r \in Requests, CommitRosterMove(r)
      PROVE  FALSE
  BY <1>2 DEF CommitRosterMove, Standing, Safe, RequestsOK, RosterMoving, RosterMoves, OneAtATime
<1>3. ASSUME NEW r \in Requests, NEW t \in Trades, BeginPropose(r, t)
      PROVE  UNCHANGED Deals!dealVars
  BY <1>1, <1>3 DEF BeginPropose
<1>4. ASSUME NEW r \in Requests, NEW t \in Trades, NEW team \in Teams, BeginAccept(r, t, team)
      PROVE  UNCHANGED Deals!dealVars
  BY <1>1, <1>4 DEF BeginAccept
<1>5. ASSUME NEW r \in Requests, NEW p \in Players, NEW kind \in RosterMoves,
             BeginRosterMove(r, p, kind)
      PROVE  UNCHANGED Deals!dealVars
  BY <1>1, <1>5 DEF BeginRosterMove
<1>6. ASSUME NEW r \in Requests, MoveAssets(r) \/ Fail(r)
      PROVE  UNCHANGED Deals!dealVars
  BY <1>1, <1>6 DEF MoveAssets, Fail
<1>7. CASE UNCHANGED vars
  BY <1>1, <1>7 DEF vars
<1> QED BY <1>2, <1>3, <1>4, <1>5, <1>6, <1>7, InsertOffers, RejectRefuses, RecordAgrees,
     CommitSettles DEF Next

\* Teams that act one after the other, and only on active trades, get what a deal promises: nothing
\* moves before all have agreed, then everything at once (accept_trade and process_trade).
THEOREM TradesImplementDeals == Spec => FollowsDeals
<1>1. Standing /\ [Next]_vars =>
        [OneAtATime /\ setting.activeOnly => Deals!DealsNext]_(Deals!dealVars)
  BY DealsStep
<1> QED BY <1>1, DealsAtFirst, AlwaysStanding, PTL DEF Spec, FollowsDeals

=============================================================================
