---------------------------- MODULE AuctionHouse ----------------------------
(***************************************************************************)
(* The preseason veteran auction as a whole: the pool and its release      *)
(* (PoolRelease), and many auctions with many bidders at a time.  What     *)
(* ties the auctions together is what a team may bid: its cap, its roster  *)
(* and its draft picks must bear all its leading bids and the restricted   *)
(* free agents it has won, should it get every one of them.                *)
(*                                                                         *)
(* A bid is a transaction that locks its own auction's row and reads the   *)
(* rest.  How it races the close and the slides of its auction is          *)
(* VeteranAuction, how the steps after the close race each other is        *)
(* RfaHandshake; here closes and handshake steps are one step each.        *)
(***************************************************************************)
EXTENDS PoolRelease, RosterRules

CONSTANTS
  Requests, Teams,
  Picks,        \* draft picks of the season
  PickRound,    \* the round of each
  FirstHolder,  \* who holds each to begin with
  Cap,          \* the salary cap that goes with PreseasonVeteranAuctionStart, less penalties
  Amounts       \* what may be bid

\* Anybody who has a contract, in the pool or not; and what rows, auctions and resolutions are.
People == Players \cup UNION {{s.rows[i].player : i \in DOMAIN s.rows} : s \in Settings}
Row == [id : Nat, player : People, kind : Kinds, year : Nat, salary : Nat \ {0}, season : Nat, ir : BOOLEAN,
        status : Statuses, team : Teams \cup {Unset}, prev : Nat \cup {Unset}, orig : Nat]
Lead == {NoLead} \cup [team : Teams, amount : Nat \ {0}]
Auction == [contract : Nat, minimum : Nat \ {0}, owner : Teams \cup {Unset},
            status : {"Open", "Closed", "Expired", "Completed"}, lead : Lead]
InFlight == {"AwaitingAuction", "AwaitingRaise", "AwaitingMatch"}
Resolution == [status : InFlight \cup {"Resolved", "Declined"}, owner : Teams,
               winner : Teams \cup {Unset}, final : Nat, raised : Nat]

\* A setting further has the teams that bid, whether a team may have several bids under way at once,
\* whether auctions come to their close, and the resolutions of the restricted free agents.  Nobody has
\* bid yet, and no player is up twice.
ASSUME HouseConstants ==
  /\ Unset \notin Teams \cup Picks \cup Nat
  /\ PickRound \in [Picks -> 1..5] /\ FirstHolder \in [Picks -> Teams]
  /\ Cap \in Nat /\ Amounts \subseteq Nat \ {0} /\ Season \in Nat
  /\ \A s \in Settings :
       /\ s.bidders \subseteq Teams /\ {s.racing, s.closes} \subseteq BOOLEAN
       /\ s.rows \in Seq(Row) /\ s.auctions \in Seq(Auction)
       /\ \A i \in DOMAIN s.rows : s.rows[i].prev \in DOMAIN s.rows \cup {Unset}
       /\ \A a, b \in DOMAIN s.auctions :
            /\ s.auctions[a].contract \in DOMAIN s.rows /\ s.auctions[a].lead = NoLead
            /\ s.rows[s.auctions[a].contract].player = s.rows[s.auctions[b].contract].player => a = b
       /\ DOMAIN s.resolutions \subseteq DOMAIN s.rows
       /\ \A id \in DOMAIN s.resolutions :
            /\ s.resolutions[id] \in Resolution /\ s.resolutions[id].status = "AwaitingAuction"
            /\ s.resolutions[id].winner = Unset /\ s.resolutions[id].raised = 0

VARIABLES
  resolutions,  \* rfa_resolution, by the id of the RFA row
  naming,       \* rfa_compensation_pick, by resolution: [pick, from, round]
  holder,       \* draft_pick.current_owner_team_id
  request       \* each bid's transaction

bidVars == <<resolutions, naming, holder, request>>
vars == <<poolVars, bidVars>>

TypeOK ==
  /\ PoolTypeOK
  /\ table \in Seq(Row) /\ auctions \in Seq(Auction)
  /\ \A id \in DOMAIN resolutions : id \in DOMAIN table /\ resolutions[id] \in Resolution
  /\ \A id \in DOMAIN naming : /\ id \in DOMAIN resolutions
                               /\ naming[id] \in [pick : Picks, from : Teams, round : 1..5]
  /\ holder \in [Picks -> Teams]
  /\ \A r \in Requests : request[r] # Idle => request[r].auction \in DOMAIN auctions

Init ==
  /\ PoolInit
  /\ resolutions = setting.resolutions /\ naming = <<>>
  /\ holder = FirstHolder /\ request = [r \in Requests |-> Idle]

-----------------------------------------------------------------------------
(* What a team has at stake *)

\* compensation_round_for_bid
CompensationRound(bid) ==
  IF bid <= 11 THEN 5 ELSE IF bid <= 18 THEN 4 ELSE IF bid <= 27 THEN 3 ELSE IF bid <= 41 THEN 2 ELSE 1

EffectiveBid(r) == IF r.raised > 0 THEN r.raised ELSE r.final
Leads(team) == {a \in DOMAIN auctions : auctions[a].status = "Open" /\ auctions[a].lead.team = team}

\* find_in_flight_rfa_holds_for_team
MutHolds(team) == {id \in DOMAIN resolutions :
  resolutions[id].winner = team /\ resolutions[id].status = "AwaitingRaise"}
Holds(team) == {id \in DOMAIN resolutions :
  resolutions[id].winner = team /\ resolutions[id].status \in {"AwaitingRaise", "AwaitingMatch"}}

\* find_winning_bids_for_team; an auction being bid on counts with the new bid instead.
Promised(team, but) ==
  SumFunction([a \in Leads(team) \ {but} |-> auctions[a].lead.amount])
    + SumFunction([id \in Holds(team) |-> EffectiveBid(resolutions[id])])
CommittedSalary(team, but) == SalaryOf(Counted(Rostered(table, team))) + Promised(team, but)
SpotsUsed(team, but) ==
  Cardinality(Rostered(table, team)) + Cardinality(Leads(team) \ {but}) + Cardinality(Holds(team))

\* find_reserved_compensation_pick_ids
MutReserved(team, but) == {naming[id].pick : id \in {id \in DOMAIN naming \ {but} :
  naming[id].from = team /\ resolutions[id].status # "AwaitingAuction"}}
Reserved(team, but) == {naming[id].pick : id \in {id \in DOMAIN naming \ {but} :
  naming[id].from = team /\ resolutions[id].status \in InFlight}}

\* eligible_compensation_picks
EligiblePick(pick, team, round, but) ==
  holder[pick] = team /\ PickRound[pick] <= round /\ pick \notin Reserved(team, but)

-----------------------------------------------------------------------------
(* Bids *)

RowFree(a) == \A r \in Requests : request[r] # Idle => request[r].auction # a
Quiet(team) == setting.racing \/ \A r \in Requests : request[r] # Idle => request[r].team # team
AwaitsAuction(id) == id \in DOMAIN resolutions /\ resolutions[id].status = "AwaitingAuction"

BigEnough(amount, auction) ==
  IF auction.lead = NoLead THEN amount >= auction.minimum ELSE amount >= auction.lead.amount + 1
\* validate_bid_cap_and_roster
WithinMeans(team, a, amount) ==
  CommittedSalary(team, a) + amount <= Cap /\ SpotsUsed(team, a) + 1 <= PreseasonLimit
\* name_bid_compensation_pick: a resolution that awaits its auction takes a pick, nothing else does.
PickSettles(pick, team, id, amount) ==
  IF AwaitsAuction(id)
  THEN pick \in Picks /\ EligiblePick(pick, team, CompensationRound(amount), id)
  ELSE pick = Unset

\* place_auction_bid, up to its last read.
BeginBid(r, team, a, amount, pick) ==
  /\ request[r] = Idle /\ team \in setting.bidders /\ Quiet(team)
  /\ RowFree(a)
  /\ auctions[a].status = "Open" /\ auctions[a].owner # team
  /\ BigEnough(amount, auctions[a])
  /\ WithinMeans(team, a, amount)
  /\ PickSettles(pick, team, auctions[a].contract, amount)
  /\ request' = [request EXCEPT ![r] =
       [at |-> "writing", auction |-> a, team |-> team, amount |-> amount, pick |-> pick]]
  /\ UNCHANGED <<poolVars, resolutions, naming, holder>>

\* Its pick replaces the previous leader's.
CommitBid(r) ==
  LET q == request[r]  id == auctions[q.auction].contract IN
  /\ q # Idle
  /\ auctions' = [auctions EXCEPT ![q.auction].lead = [team |-> q.team, amount |-> q.amount]]
  /\ naming' = IF q.pick = Unset THEN naming
               ELSE [n \in {id} \cup DOMAIN naming |->
                       IF n # id THEN naming[n]
                       ELSE [pick |-> q.pick, from |-> q.team, round |-> CompensationRound(q.amount)]]
  /\ request' = [request EXCEPT ![r] = Idle]
  /\ UNCHANGED <<setting, tiers, ranking, table, schedule, day, config, edits, tick, deaths,
                 resolutions, holder>>

AbortBid(r) ==
  /\ request[r] # Idle
  /\ request' = [request EXCEPT ![r] = Idle]
  /\ UNCHANGED <<poolVars, resolutions, naming, holder>>

-----------------------------------------------------------------------------
(* Closes *)

\* What the signing and the expiry of an auction's contract make of the table.
Settle(a, status, row) ==
  /\ auctions' = [auctions EXCEPT ![a].status = status]
  /\ \E new \in row : table' = Replace(table, table[auctions[a].contract], new)
  /\ UNCHANGED <<setting, tiers, ranking, schedule, day, config, edits, tick, deaths, request>>

\* find_free_agent_exception: an RFA's first owner and a UFA's present one sign at a discount.
ExceptionOf(c, team) ==
  LET first == IF c.kind # "RFA" THEN c.team
               ELSE IF c.id \in DOMAIN resolutions THEN resolutions[c.id].owner ELSE Unset
  IN IF c.kind \in ExpiringKinds /\ first = team THEN "Held" ELSE "NotHeld"

Closable(a) == setting.closes /\ auctions[a].status = "Open" /\ RowFree(a)

\* end_veteran_auction, by auction_close_outcome: an RFA's auction leaves him to the raise and match.
CloseRestricted(a) ==
  LET id == auctions[a].contract  lead == auctions[a].lead IN
  /\ Closable(a) /\ table[id].kind = "RFA"
  /\ auctions' = [auctions EXCEPT ![a].status = "Closed"]
  /\ resolutions' = IF lead = NoLead \/ ~AwaitsAuction(id) THEN resolutions
                    ELSE [resolutions EXCEPT ![id].status = "AwaitingRaise", ![id].winner = lead.team,
                                             ![id].final = lead.amount]
  /\ UNCHANGED <<setting, tiers, ranking, table, schedule, day, config, edits, tick, deaths,
                 naming, holder, request>>
CloseUnbid(a) ==
  LET c == table[auctions[a].contract] IN
  /\ Closable(a) /\ c.kind # "RFA" /\ auctions[a].lead = NoLead
  /\ Settle(a, "Expired", ExpiredRow(c))
  /\ UNCHANGED <<resolutions, naming, holder>>
CloseSold(a) ==
  LET c == table[auctions[a].contract]  lead == auctions[a].lead IN
  /\ Closable(a) /\ c.kind # "RFA" /\ lead # NoLead
  /\ Settle(a, "Completed", SignedAtAuction(c, lead.team, lead.amount, ExceptionOf(c, lead.team)))
  /\ UNCHANGED <<resolutions, naming, holder>>

-----------------------------------------------------------------------------
(* Raise and match *)

AuctionOf(id) == CHOOSE a \in DOMAIN auctions : auctions[a].contract = id
To(id, status) == resolutions' = [resolutions EXCEPT ![id].status = status]

\* raise_bid asks for a better pick where the price calls for one, and for nothing else.
Raise(id, amount, pick) ==
  LET r == resolutions[id]  round == CompensationRound(amount) IN
  /\ r.status = "AwaitingRaise" /\ Quiet(r.winner)
  /\ amount > r.final
  /\ EligiblePick(pick, r.winner, round, id)
  /\ naming' = [naming EXCEPT ![id] = [pick |-> pick, from |-> r.winner, round |-> round]]
  /\ resolutions' = [resolutions EXCEPT ![id].status = "AwaitingMatch", ![id].raised = amount]
  /\ UNCHANGED <<poolVars, holder, request>>
StandPat(id) ==
  /\ resolutions[id].status = "AwaitingRaise"
  /\ To(id, "AwaitingMatch")
  /\ UNCHANGED <<poolVars, naming, holder, request>>

\* match_or_decline: the first owner signs at a discount, or the winner signs and his pick moves.
Match(id) ==
  LET r == resolutions[id] IN
  /\ r.status = "AwaitingMatch"
  /\ To(id, "Resolved")
  /\ Settle(AuctionOf(id), "Completed", SignedFreeAgent(table[id], r.owner, EffectiveBid(r), "Held"))
  /\ UNCHANGED <<naming, holder>>
Decline(id) ==
  LET r == resolutions[id] IN
  /\ r.status = "AwaitingMatch" /\ holder[naming[id].pick] = r.winner
  /\ To(id, "Declined")
  /\ Settle(AuctionOf(id), "Completed",
            SignedFreeAgent(table[id], r.winner, EffectiveBid(r), ExceptionOf(table[id], r.winner)))
  /\ holder' = [holder EXCEPT ![naming[id].pick] = r.owner]
  /\ UNCHANGED naming

-----------------------------------------------------------------------------

BidNext ==
  \/ \E r \in Requests :
       \/ \E team \in Teams, a \in DOMAIN auctions, amount \in Amounts, pick \in Picks \cup {Unset} :
            BeginBid(r, team, a, amount, pick)
       \/ CommitBid(r) \/ AbortBid(r)
  \/ \E a \in DOMAIN auctions : CloseRestricted(a) \/ CloseUnbid(a) \/ CloseSold(a)
  \/ \E id \in DOMAIN resolutions :
       \/ \E amount \in Amounts, pick \in Picks : Raise(id, amount, pick)
       \/ StandPat(id) \/ Match(id) \/ Decline(id)

Next == (PoolNext /\ UNCHANGED bidVars) \/ BidNext

\* Days pass, the scheduler starts its ticks, and a tick that runs goes on.
Fairness ==
  /\ WF_vars(DayPasses /\ UNCHANGED bidVars)
  /\ WF_vars(\E t \in Ticks : StartTick(t) /\ UNCHANGED bidVars)
  /\ \A t \in Ticks : WF_vars((LookUp(t) \/ Insert(t)) /\ UNCHANGED bidVars)
Spec == Init /\ [][Next]_vars /\ Fairness

-----------------------------------------------------------------------------
(* Properties *)

\* Who is released when, and at what price, is fair to the players and their bidders: restricted free
\* agents come on the first day and the others after their week, PerDay of them a day; nobody comes
\* later, or opens lower, than a player ranked behind him; the tiers hold the same number of ranked
\* players, give or take one; and who is not ranked opens at the bottom (assemble_veteran_pool.rs).
ScheduleFair ==
  LET slots == Range(schedule)
      others == {s \in slots : ~s.rfa}
      ranked == {s \in others : s.rank # 0}
      tier(n) == Cardinality({s \in ranked : s.tier = n})
  IN /\ \A s \in slots \ others : s.day = 0
     /\ \A s \in others : /\ s.day >= (IF others = slots THEN 0 ELSE RfaWeek)
                          /\ Cardinality({u \in others : u.day = s.day}) <= PerDay
                          /\ s.rank = 0 => s.tier = Len(tiers)
     /\ \A s \in ranked, u \in others :
          u.rank = 0 \/ s.rank < u.rank => s.day <= u.day /\ s.tier <= u.tier
     /\ \A m, n \in DOMAIN tiers : tier(m) <= tier(n) + 1

\* Every player on the schedule gets his auction, though ticks may die on the way and the auctions of
\* others fail or end (open_scheduled_auction, run_preseason_auction_tick).
SlotsOpen ==
  \A p \in Players :
    (\E i \in DOMAIN schedule : schedule[i].player = p) ~> (\E a \in DOMAIN auctions : Opened(p))

\* No player is put up twice, not when his auction has long ended and his contract been replaced, as
\* long as ticks do not overlap (open_scheduled_auction looks for the player, not for the contract).
PutUpOnce ==
  \A a, b \in DOMAIN auctions :
    table[auctions[a].contract].player = table[auctions[b].contract].player => a = b

\* A team can bear everything it leads and has won at once: whichever of its auctions close, its
\* salaries stay within the cap and its contracts within the roster (place_bid.rs, rules 6.4.1).  A
\* team that matched, or raised, is not held to it: nothing checks these.
Bound(team) ==
  \A id \in DOMAIN resolutions :
    LET r == resolutions[id] IN
    /\ ~(r.winner = team /\ r.raised > 0)
    /\ ~(r.owner = team /\ r.status = "Resolved")
Affordable ==
  \A team \in setting.bidders :
    Bound(team) => CommittedSalary(team, 0) <= Cap /\ SpotsUsed(team, 0) <= PreseasonLimit

\* Whoever leads or has won a restricted free agent can pay for him: a pick he holds, of a round good
\* enough for the price, is named, and it is named for no other player (rules 15.3.3).
Debts(id) ==
  IF resolutions[id].winner # Unset
  THEN {[team |-> resolutions[id].winner, amount |-> EffectiveBid(resolutions[id])]}
  ELSE {auctions[a].lead : a \in {a \in DOMAIN auctions : auctions[a].contract = id}} \ {NoLead}
DebtsPayable ==
  \A id \in {id \in DOMAIN resolutions : resolutions[id].status \in InFlight} : \A debt \in Debts(id) :
    /\ id \in DOMAIN naming
    /\ naming[id].from = debt.team /\ holder[naming[id].pick] = debt.team
    /\ PickRound[naming[id].pick] <= CompensationRound(debt.amount)
    /\ \A other \in DOMAIN naming \ {id} :
         resolutions[other].status \in InFlight => naming[other].pick # naming[id].pick

\* What the rules say of the pool (pools.rs, "every player who has played in an NBA game and is not a
\* keeper"): the restricted free agents are in it once it is assembled.
RfasPooled ==
  schedule # <<>> =>
    \A i \in DOMAIN table :
      Live(table[i]) /\ table[i].kind = "RFA" =>
        \E s \in DOMAIN schedule : schedule[s].player = table[i].player
=============================================================================
