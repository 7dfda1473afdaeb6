------------------------------- MODULE Trades -------------------------------
(***************************************************************************)
(* Trades of contracts and draft picks: proposing, accepting, rejecting,   *)
(* and the processing that the last accept does in its own transaction.    *)
(*                                                                         *)
(* A request reads, then writes by id.  What it writes is seen by others   *)
(* at its commit; between write and commit it holds the locks of the rows  *)
(* it has written.  Nothing it has read is locked or checked again.        *)
(***************************************************************************)
EXTENDS Integers, Sequences, FiniteSets

CONSTANTS
  Requests,     \* requests that may run at the same time
  Teams,
  Players,      \* players under contract; a trade moves the contract
  Picks,        \* draft picks
  Trades,       \* the trades that may be proposed, each once
  By,           \* the team that proposes each trade
  With,         \* the other teams of each trade
  To,           \* where the assets of each trade go, never to the team that proposes it
  FirstHolder,  \* who holds each asset at first
  MaxRows,      \* bound: rows of a chain up to which roster moves go on
  Settings      \* the circumstances trades may run in: see Setting

Assets == Players \cup Picks
None == "none"
RosterMoves == {"ir", "drop", "dropUnsigned"}

\* The trades that may be proposed; whether requests overlap; whether teams only act on trades that
\* are still listed as active (find_active_trades_for_team); the roster moves that go on meanwhile.
Setting ==
  [offers : SUBSET Trades, overlap : BOOLEAN, activeOnly : BOOLEAN, moves : SUBSET RosterMoves]

ASSUME TradeConstants ==
  /\ Players \cap Picks = {}
  /\ None \notin Teams
  /\ By \in [Trades -> Teams]
  /\ With \in [Trades -> SUBSET Teams]
  /\ FirstHolder \in [Assets -> Teams]
  /\ \A t \in Trades :
       /\ With[t] # {} /\ By[t] \notin With[t]
       /\ DOMAIN To[t] \subseteq Assets /\ DOMAIN To[t] # {}
       /\ \A a \in DOMAIN To[t] : To[t][a] \in With[t]
  /\ MaxRows \in Nat
  /\ Settings \subseteq Setting

VARIABLES
  setting,
  rows,     \* the contract chain of each player, oldest row first
  owner,    \* current_owner_team_id of each pick
  status,   \* of each trade; "None" before it is proposed
  assets,   \* its trade_asset rows
  actions,  \* its trade_action rows: who has proposed, accepted or rejected
  history,  \* what the team_update rows of each team add up to
  request   \* what each request is doing and has read

vars == <<setting, rows, owner, status, assets, actions, history, request>>

Involved(t) == With[t] \cup {By[t]}
Active == {"Proposed"}
Settled == {"Completed", "Rejected", "Invalidated"}

\* A contract row; live is status Active.
Row(team, live) == [team |-> team, live |-> live]
\* What a team's updates say: the assets they have added and not taken away, and the contracts that
\* the last of them lists as all of the team's (TeamUpdateAssetSummary).
Summary(has, listed) == [has |-> has, listed |-> listed]

Nothing == [team \in Teams |-> {}]
Idle ==
  [pc |-> "idle", trade |-> None, by |-> None, reads |-> {}, others |-> {}, listing |-> Nothing]

Init ==
  /\ setting \in Settings
  /\ rows = [p \in Players |-> <<Row(FirstHolder[p], TRUE)>>]
  /\ owner = [p \in Picks |-> FirstHolder[p]]
  /\ status = [t \in Trades |-> "None"]
  /\ assets = [t \in Trades |-> {}]
  /\ actions = [t \in Trades |-> {}]
  /\ history = [team \in Teams |->
       LET first == {a \in Assets : FirstHolder[a] = team} IN Summary(first, first \cap Players)]
  /\ request = [r \in Requests |-> Idle]

-----------------------------------------------------------------------------
(* Contract chains and owners *)

Latest(p) == Len(rows[p])
Live(p) == {i \in DOMAIN rows[p] : rows[p][i].live}
LiveRow(p) == CHOOSE i \in Live(p) : \A j \in Live(p) : j <= i

\* The team that has the asset: None for a player out of contract or a free agent.
Holder(a) ==
  IF a \in Picks THEN owner[a] ELSE IF Live(a) = {} THEN None ELSE rows[a][LiveRow(a)].team

\* A trade_asset row: the asset, its contract row (0 for a pick), who gives it and who gets it.
Asset(a, to) ==
  [asset |-> a, row |-> IF a \in Picks THEN 0 ELSE LiveRow(a), from |-> Holder(a), to |-> to]

\* add_replacement_contract_to_chain: the row that was read becomes Replaced and a new one is
\* added; a second Active row of the player violates the unique index.
MutCanReplace(p, i) == TRUE
CanReplace(p, i) == Live(p) \subseteq {i}
Replaced(p, i, new) == Append([rows[p] EXCEPT ![i].live = FALSE], new)

\* Rows written by other transactions that have not committed.
Locked(r) == UNION {{x.asset : x \in request[s].reads} \cup {request[s].trade} \cup request[s].others :
                       s \in {s \in Requests \ {r} : request[s].pc = "committing"}}
MutRowsFree(r, written) == TRUE
RowsFree(r, written) == Locked(r) \cap written = {}

-----------------------------------------------------------------------------
(* Proposing *)

MayStart(r) ==
  /\ request[r].pc = "idle"
  /\ setting.overlap \/ \A s \in Requests : request[s].pc = "idle"

\* The propose_trade resolver: the owner of each asset is read before the transaction begins.
BeginPropose(r, t) ==
  /\ MayStart(r)
  /\ t \in setting.offers /\ status[t] = "None"
  /\ \A s \in Requests : request[s].trade # t
  /\ \A a \in DOMAIN To[t] : Holder(a) \in Involved(t)
  /\ request' = [request EXCEPT ![r] = [Idle EXCEPT
       !.pc = "proposing", !.trade = t, !.reads = {Asset(a, To[t][a]) : a \in DOMAIN To[t]}]]
  /\ UNCHANGED <<setting, rows, owner, status, assets, actions, history>>

Said(team, kind) == [team |-> team, kind |-> kind]

\* A trade_asset row names a contract or a pick, the one that its kind says (before_save).
OneKind(x) == x.row = 0 <=> x.asset \in Picks

\* insert_new_trade: the first trade of a new chain.
NewTrade(t) == status' = [status EXCEPT ![t] = "Proposed"]

\* propose_trade
InsertTrade(r) ==
  LET t == request[r].trade IN
  /\ request[r].pc = "proposing"
  /\ \A x \in request[r].reads : OneKind(x)
  /\ NewTrade(t)
  /\ assets' = [assets EXCEPT ![t] = request[r].reads]
  /\ actions' = [actions EXCEPT ![t] = {Said(By[t], "propose")}]
  /\ request' = [request EXCEPT ![r] = Idle]
  /\ UNCHANGED <<setting, rows, owner, history>>

-----------------------------------------------------------------------------
(* Rejecting and accepting *)

\* find_active_trades_for_team: the trades that a team is shown.
Listed(t) == status[t] \in Active

\* load_actionable_trade: the trade exists and the caller's team is in it.  A trade is the only one
\* of its chain, as nothing makes counteroffers.
MutActionable(t, team) ==
  /\ status[t] # "None"
  /\ setting.activeOnly => Listed(t)
Actionable(t, team) ==
  /\ status[t] # "None"
  /\ team \in Involved(t)
  /\ setting.activeOnly => Listed(t)

RejectTrade(r, t, team) ==
  /\ MayStart(r)
  /\ Actionable(t, team)
  /\ RowsFree(r, {t})
  /\ actions' = [actions EXCEPT ![t] = @ \cup {Said(team, "reject")}]
  /\ status' = [status EXCEPT ![t] = "Rejected"]
  /\ UNCHANGED <<setting, rows, owner, assets, history, request>>

\* has_trade_been_accepted_by_all_teams, of the actions a transaction sees.
MutAcceptedByAll(t, seen) == Involved(t) \subseteq {x.team : x \in seen}
AcceptedByAll(t, seen) ==
  /\ \A x \in seen : x.kind \in {"propose", "accept"}
  /\ Involved(t) \subseteq {x.team : x \in seen}

\* validate_contract_is_latest_in_chain, and the contract still is that of the team that gives it.
ContractStands(x) == x.row = Latest(x.asset) /\ rows[x.asset][x.row].team = x.from

\* validate_trade_assets: the contract is the latest of its chain, and all are still the giver's.
Valid(t) ==
  \A x \in assets[t] : IF x.asset \in Picks THEN owner[x.asset] = x.from ELSE ContractStands(x)

\* accept_trade: the accept is inserted, the actions are read, and if all teams have answered the
\* assets are validated.  It sees no accept of a transaction that has not committed.
BeginAccept(r, t, team) ==
  /\ MayStart(r)
  /\ Actionable(t, team)
  /\ \/ /\ ~AcceptedByAll(t, actions[t] \cup {Said(team, "accept")})
        /\ request' = [request EXCEPT ![r] = [Idle EXCEPT
             !.pc = "recording", !.trade = t, !.by = team]]
     \/ /\ AcceptedByAll(t, actions[t] \cup {Said(team, "accept")})
        /\ Valid(t)
        /\ request' = [request EXCEPT ![r] = [Idle EXCEPT
             !.pc = "moving", !.trade = t, !.by = team, !.reads = assets[t]]]
  /\ UNCHANGED <<setting, rows, owner, status, assets, actions, history>>

Accepted(r) ==
  [actions EXCEPT ![request[r].trade] = @ \cup {Said(request[r].by, "accept")}]

\* The accept is not the last one.
RecordAccept(r) ==
  /\ request[r].pc = "recording"
  /\ actions' = Accepted(r)
  /\ request' = [request EXCEPT ![r] = Idle]
  /\ UNCHANGED <<setting, rows, owner, status, assets, history>>

-----------------------------------------------------------------------------
(* Processing *)

\* The active trades with one of the contract rows or picks of this one.
MutOtherTrades(t) ==
  {u \in Trades \ {t} : status[u] \in Active /\
     \E x \in assets[t], y \in assets[u] : x.asset = y.asset /\ x.row = y.row /\ x.row # 0}
OtherTrades(t) ==
  {u \in Trades \ {t} : status[u] \in Active /\
     \E x \in assets[t], y \in assets[u] : x.asset = y.asset /\ x.row = y.row}

\* The teams that give or get something (all_team_ids).
Parties(moved) == UNION {{x.from, x.to} : x \in moved}

\* The contract chains once the contracts of these trade assets have been moved.
RowsAfter(moved) ==
  [p \in Players |->
     LET x == CHOOSE x \in moved : x.asset = p IN
     IF \E y \in moved : y.asset = p THEN Replaced(p, x.row, Row(x.to, TRUE)) ELSE rows[p]]

\* find_active_contracts_by_teams: the Active contracts of a team, in these chains.
ActiveContracts(team, chains) ==
  {p \in Players : \E i \in DOMAIN chains[p] : chains[p][i].live /\ chains[p][i].team = team}

\* process_trade_assets, the new status, the contracts of the teams, and the trades to invalidate.
MoveAssets(r) ==
  LET q == request[r] IN
  /\ q.pc = "moving"
  /\ RowsFree(r, {x.asset : x \in q.reads} \cup {q.trade})
  /\ \A x \in q.reads : x.asset \in Players => CanReplace(x.asset, x.row)
  /\ request' = [request EXCEPT ![r] = [q EXCEPT
       !.pc = "committing",
       !.others = OtherTrades(q.trade),
       !.listing = [team \in Teams |->
          IF team \in Parties(q.reads) THEN ActiveContracts(team, RowsAfter(q.reads)) ELSE {}]]]
  /\ UNCHANGED <<setting, rows, owner, status, assets, actions, history>>

\* The TradedAway and AddViaTrade updates of the contracts and the picks of a trade: each asset is
\* taken from the team that gives it and added to the team that gets it.
MutHas(team, moved) == history[team].has \cup {x.asset : x \in {x \in moved : x.to = team}}
Has(team, moved) ==
  (history[team].has \ {x.asset : x \in {x \in moved : x.from = team}})
    \cup {x.asset : x \in {x \in moved : x.to = team}}

\* insert_team_updates_from_completed_trade: a team has an update when it gives or gets something.
Updated(moved, listing) ==
  [team \in Teams |->
     IF team \in Parties(moved) THEN Summary(Has(team, moved), listing[team]) ELSE history[team]]

\* invalidate_external_trades, the team updates, and the commit of all process_trade has written.
CommitTrade(r) ==
  LET q == request[r] IN
  /\ q.pc = "committing"
  /\ RowsFree(r, q.others)
  /\ rows' = RowsAfter(q.reads)
  /\ owner' = [p \in Picks |->
       IF \E x \in q.reads : x.asset = p THEN (CHOOSE x \in q.reads : x.asset = p).to ELSE owner[p]]
  /\ status' = [u \in Trades |->
       IF u = q.trade THEN "Completed" ELSE IF u \in q.others THEN "Invalidated" ELSE status[u]]
  /\ actions' = Accepted(r)
  /\ history' = Updated(q.reads, q.listing)
  /\ request' = [request EXCEPT ![r] = Idle]
  /\ UNCHANGED <<setting, assets>>

-----------------------------------------------------------------------------
(* Roster moves, and failures *)

\* roster_op: the contract is read before the transaction begins.
BeginRosterMove(r, p, kind) ==
  /\ MayStart(r)
  /\ kind \in setting.moves
  /\ Holder(p) # None /\ Latest(p) < MaxRows
  /\ request' = [request EXCEPT ![r] = [Idle EXCEPT
       !.pc = kind, !.by = Holder(p), !.reads = {Asset(p, Holder(p))}]]
  /\ UNCHANGED <<setting, rows, owner, status, assets, actions, history>>

\* To injured reserve the contract stays the team's; a dropped one becomes a free agent's, and it
\* expires if the drop comes before the keeper deadline or the contract was no roster contract.
AfterMove(team) ==
  [ir |-> Row(team, TRUE), drop |-> Row(None, TRUE), dropUnsigned |-> Row(None, FALSE)]

CommitRosterMove(r) ==
  \E x \in request[r].reads :
    LET new == AfterMove(request[r].by)[request[r].pc] IN
    /\ request[r].pc \in RosterMoves
    /\ RowsFree(r, {x.asset})
    /\ new.live => CanReplace(x.asset, x.row)
    /\ rows' = [rows EXCEPT ![x.asset] = Replaced(x.asset, x.row, new)]
    /\ history' = [history EXCEPT ![x.from] =
         Summary(IF new.team = None THEN @.has \ {x.asset} ELSE @.has, ActiveContracts(x.from, rows'))]
    /\ request' = [request EXCEPT ![r] = Idle]
    /\ UNCHANGED <<setting, owner, status, assets, actions>>

\* A check or a statement fails, two transactions deadlock, or the process dies: rolled back.
Fail(r) ==
  /\ request[r].pc # "idle"
  /\ request' = [request EXCEPT ![r] = Idle]
  /\ UNCHANGED <<setting, rows, owner, status, assets, actions, history>>

Next ==
  \E r \in Requests :
    \/ \E t \in Trades : BeginPropose(r, t)
    \/ \E t \in Trades, team \in Teams : RejectTrade(r, t, team) \/ BeginAccept(r, t, team)
    \/ \E p \in Players, kind \in RosterMoves : BeginRosterMove(r, p, kind)
    \/ InsertTrade(r) \/ RecordAccept(r) \/ MoveAssets(r) \/ CommitTrade(r)
    \/ CommitRosterMove(r) \/ Fail(r)

Spec == Init /\ [][Next]_vars

-----------------------------------------------------------------------------
(* Properties *)

\* Types; a player has one Active contract at most, whatever trades and roster moves race.
TypeOK ==
  /\ \A p \in Players :
       /\ rows[p] \in Seq([team : Teams \cup {None}, live : BOOLEAN])
       /\ Cardinality(Live(p)) <= 1
  /\ owner \in [Picks -> Teams]
  /\ status \in [Trades -> {"None"} \cup Active \cup Settled]
  /\ \A t \in Trades : \A x \in assets[t] :
       x.asset \in DOMAIN To[t] /\ x.from \in Involved(t) /\ x.to = To[t][x.asset]
  /\ history \in [Teams -> [has : SUBSET Assets, listed : SUBSET Players]]
  /\ \A t \in Trades : actions[t] \subseteq
       [team : Involved(t), kind : {"propose", "accept", "reject"}]

\* An asset comes to a team.  A drop that lets the contract expire leaves the player without an
\* Active row, so that a request which read the old one can revive it: that is left out.
Comes(a) ==
  /\ Holder(a)' \notin {Holder(a), None}
  /\ "dropUnsigned" \in setting.moves => Holder(a) # None

\* Whatever requests race, an asset only ever comes to a team by a trade to which every team of it
\* has agreed, and which then moves all of its assets (process_trade).
AtomicSwap ==
  [][\A a \in Assets : Comes(a) =>
       \E t \in Trades :
         /\ a \in DOMAIN To[t]
         /\ \A x \in assets[t] : Holder(x.asset)' = x.to
         /\ \A team \in Involved(t) : \E x \in actions[t]' : x.team = team /\ x.kind # "reject"
    ]_vars

\* The team updates tell who has a player: whatever trades and roster moves race, what they add up
\* to are the players each team has, and while requests come one at a time the last one of a team
\* lists "ALL contracts owned by the team" (TeamUpdateAssetSummary).  Left out as in Comes: expiry.
HistoryTells ==
  \A team \in Teams :
    LET held == {p \in Players : Holder(p) = team} IN
    /\ "dropUnsigned" \notin setting.moves => history[team].has \cap Players = held
    /\ ~setting.overlap => history[team].listed = held

OneAtATime == ~setting.overlap /\ setting.moves = {}

\* With one request after the other, an active trade only offers what its teams have, even if
\* settled trades are accepted or rejected again (invalidate_external_trades_with_traded_assets).
OffersStand ==
  OneAtATime =>
    \A t \in Trades : status[t] \in Active =>
      \A x \in assets[t] : x = Asset(x.asset, x.to)

\* Teams that act one after the other, and only on active trades, get what a deal promises.
Deals == INSTANCE TradeDeals WITH
  Deals <- Trades,
  state <- status,
  agreed <- [t \in Trades |-> {x.team : x \in {x \in actions[t] : x.kind # "reject"}}],
  has <- [a \in Assets |-> Holder(a)]
FollowsDeals ==
  Deals!DealsInit /\ [][OneAtATime /\ setting.activeOnly => Deals!DealsNext]_(Deals!dealVars)

\* A settled trade stays as it was settled: only Proposed and Counteroffered trades are "statuses a
\* team can still act on (accept / reject / counter)".
SettledStays == [][\A t \in Trades : status[t] \in Settled => status'[t] = status[t]]_vars

=============================================================================
