--------------------------- MODULE MCAuctionHouse ---------------------------
(* An instance of AuctionHouse for TLC: a pool of five players with one free agent of each kind, two
   releases a day and a week of two days; and auctions that two teams, short of cap room, roster spots
   and picks, bid on next to each other. *)
EXTENDS AuctionHouse

MCTierLists == {<<9, 4>>, <<9>>, <<4, 9>>, <<4, 0>>}
MCRankings == {<<"vet", "ufa", "guard">>, <<"guard", "vet", "new", "ufa">>, <<>>}
MCRound == "a3" :> 3 @@ "a4" :> 4 @@ "b4" :> 4
MCHolder == "a3" :> "A" @@ "a4" :> "A" @@ "b4" :> "B"

Held(id, player, kind, salary, team) == FirstRow(id, player, kind, salary, 2, team)
\* A row that the new season has put in the place of the one before it.
Advancing(id, player, kind, salary, team, first) ==
  <<[Held(id, player, "Rookie", salary, first) EXCEPT !.season = 1, !.status = "Replaced"],
    [Held(id + 1, player, kind, salary, team) EXCEPT !.prev = id, !.orig = id]>>

PoolSetting(rows, over, ticks, killed) ==
  [rows |-> rows, tiers |-> <<9, 4>>, ranking |-> <<"guard", "vet">>, auctions |-> <<>>,
   ticks |-> ticks, overlap |-> FALSE, rewrites |-> FALSE, edits |-> over, deaths |-> killed,
   bidders |-> {}, racing |-> FALSE, closes |-> killed > 0, resolutions |-> <<>>]
\* The restricted free agent is on no team, and one who was dropped has a row left.
Unowned ==
  Advancing(1, "star", "RFA", 12, Unset, "C") \o Advancing(3, "ufa", "UFA-FreeAgent", 1, Unset, "C")
    \o <<Held(5, "vet", "FreeAgent", 3, Unset)>>
\* As the advancement leaves him: with his team.
Owned == Advancing(1, "star", "RFA", 12, "C", "C")

Up(contract, minimum, owner) ==
  [contract |-> contract, minimum |-> minimum, owner |-> owner, status |-> "Open", lead |-> NoLead]
Awaiting == [status |-> "AwaitingAuction", owner |-> "C", winner |-> Unset, final |-> 0, raised |-> 0]
BidSetting(rows, auctioned, seeded) ==
  [PoolSetting(rows, 0, {}, 0) EXCEPT !.auctions = auctioned, !.bidders = {"A", "B"}, !.closes = TRUE,
                                      !.resolutions = [id \in seeded |-> Awaiting]]
Rosters(id) == <<Held(id, "x", "Veteran", 172, "A"), Held(id + 1, "y", "Veteran", 150, "B"),
                 Held(id + 2, "z", "Veteran", 30, "B")>>
\* A restricted free agent and a free agent.
Mixed ==
  BidSetting(Advancing(1, "star", "RFA", 12, "C", "C") \o <<Held(3, "vet", "FreeAgent", 1, Unset)>>
               \o Rosters(4),
             <<Up(2, 12, "C"), Up(3, 9, Unset)>>, {2})
\* Two restricted free agents.
Pair ==
  BidSetting(Advancing(1, "star", "RFA", 12, "C", "C") \o Advancing(3, "guard", "RFA", 14, "C", "C")
               \o Rosters(5),
             <<Up(2, 12, "C"), Up(4, 14, "C")>>, {2, 4})
\* An unrestricted one, traded since he became one.
Moved ==
  BidSetting(Advancing(1, "ufa", "UFA-OriginalTeam", 1, "A", "C") \o Rosters(3), <<Up(2, 1, "C")>>, {})

HouseSettings ==
  {PoolSetting(Unowned, 1, {"t1"}, 0), PoolSetting(<<>>, 1, {"t1"}, 0), PoolSetting(Unowned, 0, {"t1"}, 1),
   Mixed, Pair, Moved}
OwnedSettings == {PoolSetting(Owned, 1, {"t1"}, 0)}
RacingSettings == {[Mixed EXCEPT !.racing = TRUE], [Pair EXCEPT !.racing = TRUE]}
OverlapSettings == {[PoolSetting(Unowned, 0, {"t1", "t2"}, 0) EXCEPT !.overlap = TRUE]}
=============================================================================
