------------------------------- MODULE Season -------------------------------
(***************************************************************************)
(* A league from one season into the next: roster moves, keeper            *)
(* declarations and trades of its teams, next to the handlers of the       *)
(* deadlines that pass: annual advancement, the keeper deadline and roster *)
(* locks.                                                                  *)
(*                                                                         *)
(* A roster move reads its row and the latest deadline before it opens its *)
(* transaction (roster_op); a keeper declaration looks its transaction and *)
(* team update up before it writes them; a handler reads the live rows     *)
(* before it rewrites them.  Each of these is two steps or three.          *)
(***************************************************************************)
EXTENDS RosterRules, SequencesExt

CONSTANTS
  Requests, Teams,
  Calendar,      \* the league's deadlines, by date: [kind, season]
  NbaPlayers,    \* players with a player_id: the unique index holds for them
  Overseas,      \* players whose facts make them eligible for an RDI contract
  Settings       \* circumstances, one per behaviour

RosterOps == {"toIr", "fromIr", "drop", "activate", "toRdi", "fromRdi"}
Row == [id : Nat \ {0}, player : STRING, kind : Kinds, year : Nat, salary : Nat, season : Nat,
        ir : BOOLEAN, status : Statuses, team : Teams \cup {Unset}, prev : Nat \cup {Unset},
        orig : Nat \ {0}]

\* The deadlines the league starts and ends at, its rows, what its owners do, and the bound: how many
\* rows they add.  Whether requests and handlers may overlap, and whether they may name rows that are
\* no longer Active.
Setting == [first : DOMAIN Calendar, last : DOMAIN Calendar, rows : Seq(Row), moves : Nat,
            ops : SUBSET (RosterOps \cup {"keepers", "trade"}), overlap : BOOLEAN, anyRow : BOOLEAN]

LiveRows(tbl) == {c \in Range(tbl) : Live(c)}
\* Rows as the seasons before leave them: by id, each chain of one player; a player has one live row,
\* the last of its chain.
Orderly(rows) ==
  /\ \A i, j \in DOMAIN rows : rows[i].id = i /\ (rows[i].orig = rows[j].orig => rows[i].player = rows[j].player)
  /\ \A c \in LiveRows(rows) :
       IsLatest(rows, c) /\ \A x \in LiveRows(rows) : x.player = c.player => x = c

ASSUME SeasonConstants ==
  /\ IsFiniteSet(Requests) /\ Unset \notin Teams \cup Nat
  /\ Calendar \in Seq([kind : DeadlineKinds, season : Nat])
  /\ \A s \in Settings : s \in Setting /\ Orderly(s.rows)

VARIABLES
  setting,
  table,         \* contract: its rows, by id
  txns,          \* transaction: [kind, contract, deadline]
  updates,       \* team_update: [txn, team, status, keeps, drops]
  resolutions,   \* rfa_resolution: the original owner, by the id of the RFA row
  moves,         \* how many rows the owners have added
  now,           \* the latest deadline that has passed
  handled,       \* the last deadline whose handler has committed
  handler,       \* the running handler and what it has read
  request        \* what each request has read

vars == <<setting, table, txns, updates, resolutions, moves, now, handled, handler, request>>

Idle == [at |-> "idle"]

TypeOK ==
  /\ setting \in Settings
  /\ table \in Seq(Row) /\ \A i \in DOMAIN table : table[i].id = i
  /\ txns \in Seq([kind : {"drop", "move", "keeper", "start"}, contract : Nat \cup {Unset},
                   deadline : DOMAIN Calendar])
  /\ updates \in Seq([txn : DOMAIN txns, team : Teams, status : {"Pending", "Done"},
                      keeps : SUBSET Nat, drops : SUBSET Nat])
  /\ DOMAIN resolutions \subseteq DOMAIN table /\ Range(resolutions) \subseteq Teams
  /\ moves \in 0..setting.moves + Cardinality(Requests) /\ handled \in 1..now /\ now \in DOMAIN Calendar
  /\ handler.at \in {"idle", "running"}
  /\ \A r \in Requests : request[r].at \in {"idle", "moving", "finding", "saving"}

Init ==
  /\ setting \in Settings
  /\ table = setting.rows
  /\ txns = <<>> /\ updates = <<>> /\ resolutions = <<>>
  /\ now = setting.first /\ handled = setting.first /\ moves = 0
  /\ handler = Idle /\ request = [r \in Requests |-> Idle]

-----------------------------------------------------------------------------
(* Helpers *)

MayStart == setting.overlap \/ (handler = Idle /\ \A r \in Requests : request[r] = Idle)
MayName(c) == setting.anyRow \/ Live(c)

\* What before_save and the unique index let through.
Storable(tbl, c, rows) ==
  {new \in rows : YearAllowed(new) /\ UniqueActive(Replace(tbl, c, new), NbaPlayers)}

\* The table after the first k rows of an order have been replaced by their new ones.
AfterFirst(k, order, new) ==
  [i \in 1 .. Len(table) + k |->
     IF i > Len(table) THEN [new[order[i - Len(table)]] EXCEPT !.id = i]
     ELSE IF \E j \in 1 .. k : order[j].id = i THEN [table[i] EXCEPT !.status = "Replaced"]
     ELSE table[i]]
\* The tables left by replacing each row by one of its next ones, in any order: the queries that
\* list the rows name none.  None when a row cannot be replaced.
AllReplaced(next) ==
  LET Storables == {new \in [DOMAIN next -> UNION Range(next)] :
                      \A c \in DOMAIN next : new[c] \in next[c] /\ YearAllowed(new[c])}
      Indexed(order, new) ==
        \A k \in DOMAIN order : UniqueActive(AfterFirst(k, order, new), NbaPlayers)
  IN {AfterFirst(Len(p[1]), p[1], p[2]) :
        p \in {q \in SetToSeqs(DOMAIN next) \X Storables : Indexed(q[1], q[2])}}

Txn(kind, contract, d) == [kind |-> kind, contract |-> contract, deadline |-> d]
Update(txn, team, status) ==
  [txn |-> txn, team |-> team, status |-> status, keeps |-> {}, drops |-> {}]
SetDone(ids) == [u \in DOMAIN updates |-> [updates[u] EXCEPT !.status = IF u \in ids THEN "Done" ELSE @]]

TimePasses ==
  /\ now < setting.last
  /\ now' = now + 1
  /\ UNCHANGED <<setting, table, txns, updates, resolutions, moves, handled, handler, request>>

-----------------------------------------------------------------------------
(* Roster moves *)

\* What each operation checks of the row it was handed, and the rows it may yield.
MovedToIr(c) == {new \in WithIr(c, TRUE) : ~c.ir}
ActivatedFromIr(c) == {new \in WithIr(c, FALSE) : c.ir}
DroppedFromTeam(c, d) == Dropped(c, Calendar[d].kind \in KeeperKinds)
Activated(c) == {new \in ActivatedRookie(c) : IsLatest(table, c)}
\* validate_rdi_eligible looks at the chain as it is now.
RdiEligible(c) == c.player \in Overseas /\ ~LegalizedRd(ChainOf(table, c), c.season)
SentAbroad(c) == {new \in MovedAbroad(c) : RdiEligible(c)}

Moved(op, c, d) ==
  CASE op = "toIr" -> MovedToIr(c)
    [] op = "fromIr" -> ActivatedFromIr(c)
    [] op = "drop" -> DroppedFromTeam(c, d)
    [] op = "activate" -> Activated(c)
    [] op = "toRdi" -> SentAbroad(c)
    [] op = "fromRdi" -> MovedBack(c)

\* A drop whose transaction names the new row, as that of every other move.
MutMoveTxn(op, c, d) == Txn(IF op = "drop" THEN "drop" ELSE "move", Len(table) + 1, d)
\* A drop's transaction names the row that was dropped: the new one has no team.
MoveTxn(op, c, d) ==
  IF op = "drop" THEN Txn("drop", c.id, d) ELSE Txn("move", Len(table) + 1, d)

\* The row and the latest deadline are read outside the transaction.
BeginMove(r, op, c) ==
  /\ MayStart /\ request[r] = Idle
  /\ op \in setting.ops /\ c.team \in Teams /\ MayName(c) /\ moves < setting.moves
  /\ request' = [request EXCEPT ![r] = [at |-> "moving", op |-> op, row |-> c, deadline |-> now]]
  /\ UNCHANGED <<setting, table, txns, updates, resolutions, moves, now, handled, handler>>

CommitMove(r) ==
  /\ request[r].at = "moving"
  /\ LET m == request[r] IN
     \E new \in Storable(table, m.row, Moved(m.op, m.row, m.deadline)) :
       /\ table' = Replace(table, m.row, new)
       /\ txns' = Append(txns, MoveTxn(m.op, m.row, m.deadline))
       /\ updates' = Append(updates, Update(Len(txns) + 1, m.row.team,
                                            IF m.op = "drop" THEN "Done" ELSE "Pending"))
  /\ moves' = moves + 1
  /\ request' = [request EXCEPT ![r] = Idle]
  /\ UNCHANGED <<setting, resolutions, now, handled, handler>>

RefuseMove(r) ==
  /\ request[r].at = "moving"
  /\ LET m == request[r] IN Storable(table, m.row, Moved(m.op, m.row, m.deadline)) = {}
  /\ request' = [request EXCEPT ![r] = Idle]
  /\ UNCHANGED <<setting, table, txns, updates, resolutions, moves, now, handled, handler>>

\* What a completed trade does to a contract; module Trades has the rest of it.
TradeAway(c, team) ==
  /\ MayStart /\ "trade" \in setting.ops
  /\ Live(c) /\ c.team \in Teams \ {team} /\ moves < setting.moves
  /\ \E new \in Storable(table, c, Traded(c, team)) : table' = Replace(table, c, new)
  /\ moves' = moves + 1
  /\ UNCHANGED <<setting, txns, updates, resolutions, now, handled, handler, request>>

-----------------------------------------------------------------------------
(* Keeper declarations *)

KeeperDeadlines(season) ==
  {d \in DOMAIN Calendar : Calendar[d] = [kind |-> "PreseasonKeeper", season |-> season]}
KeeperTxns(season) ==
  {t \in DOMAIN txns : txns[t].kind = "keeper" /\ txns[t].deadline \in KeeperDeadlines(season)}
UpdatesOf(t, team) == {u \in DOMAIN updates : updates[u].txn = t /\ updates[u].team = team}
SomeOrNone(ids) == IF ids = {} THEN {0} ELSE ids

\* load_own_keeper_contracts and validate_team_keepers, outside the transaction.
DeclareKeepers(r, team, rows) ==
  /\ MayStart /\ request[r] = Idle /\ "keepers" \in setting.ops
  /\ \A c \in rows : c.team = team /\ MayName(c)
  /\ KeepersAllowed(rows)
  /\ KeeperDeadlines(Calendar[now].season) # {}
  /\ request' = [request EXCEPT ![r] = [at |-> "finding", team |-> team, rows |-> rows,
                                        season |-> Calendar[now].season]]
  /\ UNCHANGED <<setting, table, txns, updates, resolutions, moves, now, handled, handler>>

\* get_or_create_keeper_deadline_transaction and the team's update of it: what is there so far.
FindKeeperTxn(r) ==
  /\ request[r].at = "finding"
  /\ \E t \in SomeOrNone(KeeperTxns(request[r].season)) :
     \E u \in SomeOrNone(UpdatesOf(t, request[r].team)) :
       request' = [request EXCEPT ![r] = [at |-> "saving", team |-> @.team, rows |-> @.rows,
                                          season |-> @.season, txn |-> t, update |-> u]]
  /\ UNCHANGED <<setting, table, txns, updates, resolutions, moves, now, handled, handler>>

\* A declaration that leaves veterans and rookies out of its drops.
MutDeclaredDrops(rows, kept) == {c.id : c \in {c \in rows \ kept : c.kind \in DevelopmentKinds}}
\* generate_keeper_team_update_data: what of the team's live rows is not kept is dropped, but RFAs
\* and UFAs are neither.
DeclaredDrops(rows, kept) == {c.id : c \in {c \in rows \ kept : c.kind \notin ExpiringKinds}}

\* insert_keeper_team_update, and update_keeper_team_update, which looks at no status.
SavedUpdates(q, txn, keeps, drops) ==
  IF q.update = 0
  THEN Append(updates, [Update(txn, q.team, "Pending") EXCEPT !.keeps = keeps, !.drops = drops])
  ELSE [updates EXCEPT ![q.update].keeps = keeps, ![q.update].drops = drops]

SaveKeepers(r) ==
  /\ request[r].at = "saving"
  /\ LET q == request[r]
         rows == Rostered(table, q.team)
         txn == IF q.txn = 0 THEN Len(txns) + 1 ELSE q.txn
     IN /\ \E d \in KeeperDeadlines(q.season) :
             txns' = IF q.txn = 0 THEN Append(txns, Txn("keeper", Unset, d)) ELSE txns
        /\ updates' = SavedUpdates(q, txn, {c.id : c \in rows \cap q.rows}, DeclaredDrops(rows, q.rows))
  /\ request' = [request EXCEPT ![r] = Idle]
  /\ UNCHANGED <<setting, table, resolutions, moves, now, handled, handler>>

-----------------------------------------------------------------------------
(* Deadlines, in the order of the calendar *)

\* What a handler reads first: the live rows and, for keepers, the declarations still to settle
\* under one transaction of the deadline.
StartDeadline ==
  /\ MayStart /\ handler = Idle /\ handled < now
  /\ LET keepers == {t \in DOMAIN txns : txns[t].kind = "keeper" /\ txns[t].deadline = handled + 1} IN
     \E t \in SomeOrNone(keepers) :
       handler' = [at |-> "running", rows |-> LiveRows(table), txn |-> t,
                   settles |-> {u \in DOMAIN updates :
                                  updates[u].txn = t /\ updates[u].status = "Pending"}]
  /\ UNCHANGED <<setting, table, txns, updates, resolutions, moves, now, handled, request>>

\* advance_league_contracts: free agents expire, everyone else moves into the next season, with his team.
NextSeason(c) == IF c.kind = "FreeAgent" THEN ExpiredRow(c) ELSE Advanced(c)
AdvanceRows(d) ==
  /\ \A c \in handler.rows : c.kind # "FreeAgent" => c.team # Unset
  /\ \E tbl \in AllReplaced([c \in handler.rows |-> NextSeason(c)]) : table' = tbl
  /\ txns' = Append(txns, Txn("start", Unset, d))
  /\ \E teams \in {SetToSeq({c.team : c \in {c \in handler.rows : c.kind # "FreeAgent"}})} :
       updates' = updates \o [i \in DOMAIN teams |-> Update(Len(txns) + 1, teams[i], "Done")]
  /\ UNCHANGED resolutions

\* seed_rfa_resolutions: the owner of each of the season's RFAs that has no resolution yet, in the
\* chain of that season.
SeasonChain(tbl, c) == {x.id : x \in {x \in ChainOf(tbl, c) : x.season = c.season}}
Designated(tbl, season) ==
  {c \in LiveRows(tbl) :
     /\ c.kind = "RFA" /\ c.season = season /\ c.team # Unset
     /\ SeasonChain(tbl, c) \cap DOMAIN resolutions = {}
     /\ \A x \in LiveRows(tbl) : x.kind = "RFA" /\ x.id \in SeasonChain(tbl, c) => c.id <= x.id}
\* The owner from before the last trade.
MutSeeded(tbl, season) ==
  [i \in {c.id : c \in Designated(tbl, season)} |->
     tbl[IF tbl[i].prev = Unset THEN i ELSE tbl[i].prev].team]
Seeded(tbl, season) == [i \in {c.id : c \in Designated(tbl, season)} |-> tbl[i].team]
WithNew(owners) ==
  [i \in DOMAIN owners \cup DOMAIN resolutions |->
     IF i \in DOMAIN owners THEN owners[i] ELSE resolutions[i]]

\* A drop after keepers are settled.
MutKeeperDrop(c) == Dropped(c, FALSE)
\* process_keeper_deadline: every declared drop must be a live row that no other update has dropped.
\* A drop at the deadline is free.
KeeperDrop(c) == Dropped(c, TRUE)

ProcessKeepers(d) ==
  LET dropIds == UNION {updates[u].drops : u \in handler.settles} IN
  /\ handler.txn # 0
  /\ dropIds \subseteq {c.id : c \in handler.rows}
  /\ \A u, v \in handler.settles : u # v => updates[u].drops \cap updates[v].drops = {}
  /\ \E tbl \in AllReplaced([c \in {c \in handler.rows : c.id \in dropIds} |-> KeeperDrop(c)]) :
       /\ table' = tbl
       /\ resolutions' = WithNew(Seeded(tbl, Calendar[d].season))
  /\ updates' = SetDone(handler.settles)
  /\ UNCHANGED txns

\* lock_rosters: every team's roster must be allowed; then all updates of the deadline are done.
LockRosters(d) ==
  /\ \A team \in {c.team : c \in handler.rows} \ {Unset} :
       RosterAllowed({c \in handler.rows : c.team = team}, table, txns, Calendar, team, d)
  /\ updates' = SetDone({u \in DOMAIN updates : txns[updates[u].txn].deadline = d})
  /\ UNCHANGED <<table, txns, resolutions>>

Handle(d) ==
  CASE Calendar[d].kind = "PreseasonStart" -> AdvanceRows(d)
    [] Calendar[d].kind = "PreseasonKeeper" -> ProcessKeepers(d)
    [] Calendar[d].kind \in RosterLockKinds -> LockRosters(d)
    [] OTHER -> UNCHANGED <<table, txns, updates, resolutions>>

FinishDeadline ==
  /\ handler.at = "running"
  /\ Handle(handled + 1)
  /\ handled' = handled + 1 /\ handler' = Idle
  /\ UNCHANGED <<setting, moves, now, request>>

\* A handler that fails leaves nothing behind, and is run again.
FailDeadline ==
  /\ handler.at = "running"
  /\ handler' = Idle
  /\ UNCHANGED <<setting, table, txns, updates, resolutions, moves, now, handled, request>>

-----------------------------------------------------------------------------
(* The specification *)

Next ==
  \/ TimePasses
  \/ StartDeadline
  \/ FinishDeadline
  \/ FailDeadline
  \/ \E c \in Range(table) :
       \/ \E team \in Teams : TradeAway(c, team)
       \/ \E r \in Requests, op \in RosterOps : BeginMove(r, op, c)
  \/ \E r \in Requests :
       \/ CommitMove(r)
       \/ RefuseMove(r)
       \/ \E team \in Teams : \E rows \in SUBSET {c \in Range(table) : c.team = team} :
            DeclareKeepers(r, team, rows)
       \/ FindKeeperTxn(r)
       \/ SaveKeepers(r)

Spec == Init /\ [][Next]_vars

-----------------------------------------------------------------------------
(* Properties *)

InTurn == ~setting.overlap /\ ~setting.anyRow
Settles(kind) == handled' # handled /\ Calendar[handled'].kind = kind
Kept(tbl, team) == {c \in Rostered(tbl, team) : c.kind \notin ExpiringKinds}

\* Requests and handlers one after the other leave a player one live row, over all seasons, and it
\* is the last of its chain: an index only sees two live rows of one season, and of NBA players.
OneLiveRow ==
  InTurn => \A c \in LiveRows(table) :
              IsLatest(table, c) /\ \A x \in LiveRows(table) : x.player = c.player => x = c

\* Whoever drops a counted contract once keepers are settled has a fifth of it less to spend at
\* every later deadline of the season, though the row that is left belongs to nobody
\* (calculate_team_contract_salary, fed by the row that drop_contract_from_team names).
DropsArePaid ==
  \A c \in LiveRows(table) : c.kind = "FreeAgent" =>
    LET was == table[c.prev] IN
    \A d \in DOMAIN Calendar :
      Calendar[d].season = c.season /\ Calendar[d].kind \notin KeeperKinds =>
        Spending({}, table, txns, Calendar, was.team, d).cap
          <= CapAt(Calendar, d) - Percent(was.salary, 20)

\* The keeper deadline takes from the league exactly the contracts its teams declared as dropped,
\* and leaves none of their players a live row (process_keeper_deadline_transaction).
OnlyDropsGo ==
  [][Settles("PreseasonKeeper") /\ InTurn =>
       LET dropped == {table[i] : i \in UNION {updates[u].drops : u \in handler.settles}} IN
       /\ LiveRows(table') = LiveRows(table) \ dropped
       /\ \A u \in handler.settles : updates'[u].status = "Done"]_vars

\* A team that declared its keepers holds no more than the rules let it keep after the keeper
\* deadline, whatever it dropped or moved to injured reserve in between: as long as no rookie was
\* activated and nobody traded.
KeptWithinLimits ==
  [][Settles("PreseasonKeeper") /\ InTurn /\ setting.ops \cap {"activate", "trade"} = {} =>
       \A u \in handler.settles : KeepersAllowed(Kept(table', updates[u].team))]_vars

\* The team that holds a restricted free agent at the keeper deadline is the original owner that
\* every later row of his season finds, and it stays that team (seed_rfa_resolutions).
HoldersDesignated ==
  [][/\ \A i \in DOMAIN resolutions : i \in DOMAIN resolutions' /\ resolutions'[i] = resolutions[i]
     /\ Settles("PreseasonKeeper") =>
          \A c \in LiveRows(table') :
            c.kind = "RFA" /\ c.season = Calendar[handled'].season /\ c.team # Unset =>
              \E i \in SeasonChain(table', c) \cap DOMAIN resolutions' : resolutions'[i] = c.team]_vars

=============================================================================
