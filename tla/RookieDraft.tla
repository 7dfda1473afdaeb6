----------------------------- MODULE RookieDraft ----------------------------
(***************************************************************************)
(* The rookie draft of a season: the commissioner enters standings, draws  *)
(* the lottery and starts the draft; the teams pick or pass in turn, each  *)
(* from requests that race each other, while picks are traded, players     *)
(* dropped and facts about players corrected.                              *)
(*                                                                         *)
(* The lottery mutation has no transaction of its own: each statement of   *)
(* run_lottery commits, and the server may die in between.  A pick checks  *)
(* who is on the clock before its transaction, locks its selection and     *)
(* checks again.                                                           *)
(***************************************************************************)
EXTENDS DraftOrder, Eligibility, TLC

CONSTANTS
  Requests, Teams, Players,
  Rounds,          \* 5 in the code
  Seeds,           \* seeds of the lottery
  Draw,            \* the places of the pool a seed draws, in order: 6 of them in the code
  RosterLimit,     \* 32: contracts a team may hold before the season
  OtherContracts,  \* contracts each team holds besides the players of the draft
  FirstStandings, FirstHolder, FirstFacts,
  DraftSeason, Seasons,
  Edits,           \* standings the commissioner may enter later on
  NewFacts,        \* corrections of what is known: [player, played, first, override]
  MaxEvents,       \* bound: trades, drops, corrections and entries of standings
  Settings         \* circumstances, one per behaviour

Natural == [round : 1..Rounds, team : Teams]
SalaryOfRound == <<4, 3, 2, 1, 1>>
Events == {"standings", "trade", "drop", "facts", "crash"}

\* What happens besides the draft itself; whether deadlines pass under it (it belongs between its own
\* deadline and the final roster lock); whether it has been started; and a bound: the selections
\* resolved at which no more are begun.
Setting == [events : SUBSET Events, anyTime : BOOLEAN, started : BOOLEAN, picks : Nat]

\* compute_draft_order wants the pick of every slot.
PicksExist(st, order) ==
  LET slots == DraftSlots(st, order, Rounds) IN \A i \in 1..Len(slots) : slots[i] \in Natural

\* draw_lottery wants as many teams as there are lottery slots.
Drawable(st, seed) == Cardinality(Missed(st)) = Len(Draw[seed])

\* A seed draws each place of the pool once, and a draft under way has had its lottery.
ASSUME DraftConstants ==
  /\ Teams \subseteq Nat /\ IsFiniteSet(Teams) /\ Never \notin Teams /\ Never \notin Players
  /\ Rounds \in 1..Len(SalaryOfRound) /\ MaxEvents \in Nat
  /\ \A st \in {FirstStandings} \cup Edits :
       DOMAIN st \subseteq Teams /\ \A t \in DOMAIN st : st[t] \in StandingRow
  /\ DOMAIN Draw = Seeds
  /\ \A s \in Seeds : Draw[s] \in Seq(1..Len(Draw[s])) \ {<<>>} /\ IsInjective(Draw[s])
  /\ FirstFacts \in [Players -> FactsOf(Seasons)]
  /\ FirstHolder \in [Players -> Teams \cup {Never}]
  /\ NewFacts \subseteq [player : Players, played : BOOLEAN, first : Seasons \cup {Never},
                         override : Classes \cup {Never}]
  /\ \A s \in Settings :
       s \in Setting /\ (s.started => \A seed \in Seeds : Drawable(FirstStandings, seed))

VARIABLES
  setting,
  standings,   \* league_team_season_standing, by team
  lottery,     \* rookie_draft_lottery and its picks: [seed, order]
  owner,       \* draft_pick.current_owner_team_id, by natural pick
  slate,       \* rookie_draft_selection, in order: [pick, team, status, player]
  holder,      \* the team that holds each player, Never for none
  paid,        \* the salary of the contract each drafted player signed
  dropped,     \* players dropped under a deadline of the draft's window
  facts,       \* what is known of each player
  window,      \* before the draft's deadline, in its window, or after it
  request,     \* what each request has read
  events       \* how much of MaxEvents has happened

draftVars == <<lottery, slate, holder, paid, request>>
vars == <<setting, standings, lottery, owner, slate, holder, paid, dropped, facts, window, request,
          events>>

Idle == [at |-> "idle"]
NoLottery == [seed |-> Never, order |-> <<>>]
Unused == {i \in DOMAIN slate : slate[i].status = "Unused"}
Selected == {i \in DOMAIN slate : slate[i].status = "PlayerSelected"}

TypeOK ==
  /\ setting \in Settings
  /\ DOMAIN standings \subseteq Teams
  /\ lottery.seed \in Seeds \cup {Never} /\ Range(lottery.order) \subseteq Teams
  /\ owner \in [Natural -> Teams]
  /\ slate \in Seq([pick : Natural, team : Teams, status : {"Unused", "PlayerSelected", "Skipped"},
                    player : Players \cup {Never}])
  /\ \A i \in DOMAIN slate : slate[i].player # Never <=> i \in Selected
  /\ holder \in [Players -> Teams \cup {Never}] /\ paid \in [Players -> 0..4]
  /\ dropped \subseteq Players /\ facts \in [Players -> FactsOf(Seasons)]
  /\ window \in {"before", "open", "closed"} /\ events \in 0..MaxEvents
  /\ \A r \in Requests :
       request[r].at \in {"idle", "seeding", "drawing", "starting", "picking", "passing", "locked", "cleared"}

\* build_draft_slate: who holds the pick now is copied into the selection.
Selection(pick) == [pick |-> pick, team |-> owner[pick], status |-> "Unused", player |-> Never]
SlateOf(order) ==
  LET slots == DraftSlots(standings, order, Rounds) IN [i \in 1..Len(slots) |-> Selection(slots[i])]

Init ==
  /\ setting \in Settings
  /\ standings = FirstStandings
  /\ owner = [p \in Natural |-> p.team]
  /\ \E seed \in Seeds :
       LET order == Drawn(standings, Draw[seed]) IN
       /\ lottery = IF setting.started THEN [seed |-> seed, order |-> order] ELSE NoLottery
       /\ slate = IF setting.started THEN SlateOf(order) ELSE <<>>
  /\ holder = FirstHolder /\ paid = [p \in Players |-> 0] /\ dropped = {}
  /\ facts = FirstFacts
  /\ window = IF setting.anyTime THEN "before" ELSE "open"
  /\ request = [r \in Requests |-> Idle] /\ events = 0

Happens(event) == event \in setting.events /\ events < MaxEvents /\ events' = events + 1
Becomes(r, state) == request' = [request EXCEPT ![r] = state]

-----------------------------------------------------------------------------
(* Standings and lottery *)

\* upsert_standings_for_league_season: teams that are not entered keep what they have.
Upserted(entry) ==
  [t \in DOMAIN entry \cup DOMAIN standings |-> IF t \in DOMAIN entry THEN entry[t] ELSE standings[t]]
SaveStandings(entry) ==
  /\ Happens("standings")
  /\ standings' = Upserted(entry)
  /\ UNCHANGED <<setting, owner, dropped, facts, window>> /\ UNCHANGED draftVars

\* The mutation refuses a lottery that exists, then reads the standings.
BeginLottery(r) ==
  /\ request[r] = Idle /\ lottery.seed = Never
  /\ Becomes(r, [at |-> "seeding", standings |-> standings])
  /\ UNCHANGED <<setting, standings, lottery, owner, slate, holder, paid, dropped, facts, window, events>>

\* insert_lottery_seed: a committed seed is never overwritten.
MutSeedKept(seed) == seed
SeedKept(seed) == IF lottery.seed = Never THEN seed ELSE lottery.seed
\* run_lottery up to the seed: a lottery that has been drawn is replayed.
CommitSeed(r) ==
  /\ request[r].at = "seeding"
  /\ IF lottery.order # <<>> THEN UNCHANGED lottery /\ Becomes(r, Idle)
     ELSE \E seed \in Seeds :
            /\ lottery' = [lottery EXCEPT !.seed = SeedKept(seed)]
            /\ Becomes(r, [at |-> "drawing", standings |-> request[r].standings,
                           seed |-> SeedKept(seed)])
  /\ UNCHANGED <<setting, standings, owner, slate, holder, paid, dropped, facts, window, events>>

\* save_lottery_draw: the places of a lottery are unique, so only the first to save does.
SaveDraw(r) ==
  /\ request[r].at = "drawing"
  /\ lottery' = IF lottery.order = <<>> /\ Drawable(request[r].standings, request[r].seed)
                THEN [lottery EXCEPT !.order = Drawn(request[r].standings, Draw[request[r].seed])]
                ELSE lottery
  /\ Becomes(r, Idle)
  /\ UNCHANGED <<setting, standings, owner, slate, holder, paid, dropped, facts, window, events>>

\* The server dies between two statements of run_lottery.
Crash(r) ==
  /\ Happens("crash")
  /\ request[r].at \in {"seeding", "drawing"}
  /\ Becomes(r, Idle)
  /\ UNCHANGED <<setting, standings, lottery, owner, slate, holder, paid, dropped, facts, window>>

-----------------------------------------------------------------------------
(* Starting the draft *)

\* The slate is looked at before the transaction.
BeginStart(r) ==
  /\ request[r] = Idle /\ slate = <<>>
  /\ Becomes(r, [at |-> "starting"])
  /\ UNCHANGED <<setting, standings, lottery, owner, slate, holder, paid, dropped, facts, window, events>>

\* start_rookie_draft: the lottery is drawn or replayed, and the slate built unless there is one.
\* The unique index on the pick stops a second slate that is built at the same time.
CommitStart(r) ==
  /\ request[r].at = "starting"
  /\ \E seed \in {SeedKept(s) : s \in Seeds} :
     LET drawn == IF lottery.order # <<>> THEN lottery
                  ELSE [seed |-> seed, order |-> Drawn(standings, Draw[seed])]
     IN IF \/ slate # <<>>
           \/ lottery.order = <<>> /\ ~Drawable(standings, seed)
           \/ ~OrderDefined(standings, drawn.order) \/ ~PicksExist(standings, drawn.order)
        THEN UNCHANGED <<lottery, slate>>
        ELSE /\ lottery' = drawn
             /\ slate' = SlateOf(drawn.order)
  /\ Becomes(r, Idle)
  /\ UNCHANGED <<setting, standings, owner, holder, paid, dropped, facts, window, events>>

-----------------------------------------------------------------------------
(* Picks *)

\* get_on_the_clock_selection
OnTheClock(i) == i \in Unused /\ \A j \in Unused : i <= j
MorePicks == Cardinality(DOMAIN slate \ Unused) < setting.picks

\* require_own_pick_on_the_clock, outside the transaction.  The caller is the team of the selection.
BeginPick(r, i, player) ==
  /\ request[r] = Idle /\ OnTheClock(i) /\ MorePicks
  /\ Becomes(r, [at |-> "picking", selection |-> i, player |-> player])
  /\ UNCHANGED <<setting, standings, lottery, owner, slate, holder, paid, dropped, facts, window, events>>
BeginPass(r, i) ==
  /\ request[r] = Idle /\ OnTheClock(i) /\ MorePicks
  /\ Becomes(r, [at |-> "passing", selection |-> i])
  /\ UNCHANGED <<setting, standings, lottery, owner, slate, holder, paid, dropped, facts, window, events>>

Locked(i) == \E r \in Requests : request[r].at \in {"locked", "cleared"} /\ request[r].selection = i

\* What the locked row must still be: unresolved, and on the clock.
MutStillOpen(i) == i \in DOMAIN slate
StillOpen(i) == i \in Unused /\ OnTheClock(i)

\* find_selection_by_id_for_update, and the checks on the row.
LockSelection(r) ==
  /\ request[r].at = "picking" /\ ~Locked(request[r].selection)
  /\ Becomes(r, IF StillOpen(request[r].selection) THEN [request[r] EXCEPT !.at = "locked"] ELSE Idle)
  /\ UNCHANGED <<setting, standings, lottery, owner, slate, holder, paid, dropped, facts, window, events>>

RosterUsed(team) == OtherContracts[team] + Cardinality({p \in Players : holder[p] = team})

\* re_draft_ban_check: players dropped under a deadline of the window.
MutBanned(player) == FALSE
Banned(player) == player \in dropped
MayDraft(player) == player \in RookiePool(facts, holder, DraftSeason) /\ ~Banned(player)

\* make_pick up to the inserts: the pool, the ban and room on the roster.
ClearPick(r) ==
  /\ request[r].at = "locked"
  /\ LET team == slate[request[r].selection].team IN
     Becomes(r, IF MayDraft(request[r].player) /\ RosterUsed(team) < RosterLimit
                THEN [request[r] EXCEPT !.at = "cleared"] ELSE Idle)
  /\ UNCHANGED <<setting, standings, lottery, owner, slate, holder, paid, dropped, facts, window, events>>

\* The status alone.
MutResult(i, status, player) == [slate EXCEPT ![i].status = status]
\* record_selection_result
Result(i, status, player) == [slate EXCEPT ![i].status = status, ![i].player = player]

\* The contract, the selection's result, the transaction and the team update.
CommitPick(r) ==
  /\ request[r].at = "cleared"
  /\ LET i == request[r].selection
         player == request[r].player
     IN /\ slate' = Result(i, "PlayerSelected", player)
        /\ holder' = [holder EXCEPT ![player] = slate[i].team]
        /\ paid' = [paid EXCEPT ![player] = SalaryOfRound[slate[i].pick.round]]
  /\ Becomes(r, Idle)
  /\ UNCHANGED <<setting, standings, lottery, owner, dropped, facts, window, events>>

\* pass_pick
CommitPass(r) ==
  /\ request[r].at = "passing" /\ ~Locked(request[r].selection)
  /\ slate' = IF StillOpen(request[r].selection)
              THEN Result(request[r].selection, "Skipped", Never) ELSE slate
  /\ Becomes(r, Idle)
  /\ UNCHANGED <<setting, standings, lottery, owner, holder, paid, dropped, facts, window, events>>

-----------------------------------------------------------------------------
(* Around the draft *)

\* A completed trade gives a pick to another team; the selections stay as they are.
TradePick(pick, team) ==
  /\ Happens("trade") /\ owner[pick] # team
  /\ owner' = [owner EXCEPT ![pick] = team]
  /\ UNCHANGED <<setting, standings, dropped, facts, window>> /\ UNCHANGED draftVars

\* drop_contract_from_team: recorded under the latest deadline that has passed.
DropPlayer(player) ==
  /\ Happens("drop") /\ holder[player] # Never
  /\ holder' = [holder EXCEPT ![player] = Never]
  /\ dropped' = IF window = "open" THEN dropped \cup {player} ELSE dropped
  /\ UNCHANGED <<setting, standings, lottery, owner, slate, paid, facts, window, request>>

\* set_player_nba_status and override_player_eligibility
CorrectFacts(c) ==
  /\ Happens("facts") /\ StatusAllowed(c.played, c.first)
  /\ facts' = [facts EXCEPT ![c.player].played = c.played, ![c.player].first = c.first,
                            ![c.player].override = c.override]
  /\ UNCHANGED <<setting, standings, owner, dropped, window>> /\ UNCHANGED draftVars

DeadlinePasses ==
  /\ window # "closed" /\ setting.anyTime
  /\ window' = IF window = "before" THEN "open" ELSE "closed"
  /\ UNCHANGED <<setting, standings, owner, dropped, facts, events>> /\ UNCHANGED draftVars

Next ==
  \/ \E entry \in Edits : SaveStandings(entry)
  \/ \E pick \in Natural, team \in Teams : TradePick(pick, team)
  \/ \E player \in Players : DropPlayer(player)
  \/ \E c \in NewFacts : CorrectFacts(c)
  \/ DeadlinePasses
  \/ \E r \in Requests :
       \/ BeginLottery(r) \/ CommitSeed(r) \/ SaveDraw(r) \/ Crash(r)
       \/ BeginStart(r) \/ CommitStart(r)
       \/ \E i \in DOMAIN slate : BeginPass(r, i) \/ \E player \in Players : BeginPick(r, i, player)
       \/ LockSelection(r) \/ ClearPick(r) \/ CommitPick(r) \/ CommitPass(r)

Spec == Init /\ [][Next]_vars

-----------------------------------------------------------------------------
(* Properties *)

\* The lottery is drawn once: neither a second draw at the same time, nor a crash between the seed
\* and the draw, nor the start of the draft changes a seed or an order once it is there
\* (insert_lottery_seed, save_lottery_draw).
LotteryFixed ==
  [][/\ lottery.seed # Never => lottery'.seed = lottery.seed
     /\ lottery.order # <<>> => lottery'.order = lottery.order]_vars

\* The slate has every pick of the season once, round after round, and the drawn teams at its head;
\* from round two on the best playoff finish picks before the others (compute_draft_order).
SlateComplete ==
  slate # <<>> =>
    /\ Len(slate) = Cardinality(Natural) /\ {slate[i].pick : i \in DOMAIN slate} = Natural
    /\ \A i, j \in DOMAIN slate : i < j => slate[i].pick.round <= slate[j].pick.round
    /\ \A i \in DOMAIN lottery.order : slate[i].pick.team = lottery.order[i]
    /\ LET last(round) == CHOOSE i \in DOMAIN slate :
                            slate[i].pick.round = round /\ \A j \in DOMAIN slate :
                              slate[j].pick.round = round => j <= i
           playoffs == {t \in Teams : t \notin Range(lottery.order)}
       IN Rounds > 1 /\ Cardinality(playoffs) > 1 =>
            slate[last(1)].pick.team # slate[last(2)].pick.team

\* Selections are resolved in the order of the slate, each once: a pick or a pass never reaches a
\* selection that another request has resolved, nor one behind it (make_pick, pass_pick).
InTurn ==
  [][slate # <<>> =>
       \A i \in DOMAIN slate : slate'[i] # slate[i] =>
         OnTheClock(i) /\ \A j \in DOMAIN slate : j # i => slate'[j] = slate[j]]_vars

\* While the draft is in its window nobody is drafted twice, dropped or not (rules 7.3.4).
DraftedOnce ==
  ~setting.anyTime =>
    \A i, j \in Selected : slate[i].player = slate[j].player => i = j

\* draft_order.rs: a slot "is made by whoever holds it now, so traded picks land with the acquirer".
TradedPicksLand == \A i \in Unused : slate[i].team = owner[slate[i].pick]

=============================================================================
