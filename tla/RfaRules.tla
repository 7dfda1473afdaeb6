------------------------------ MODULE RfaRules ------------------------------
(***************************************************************************)
(* The rules of restricted free agency (rules 15.2 and 15.3), without      *)
(* requests, rows or clocks: bids raise the price, the winner may raise it *)
(* once more, the original owner then keeps the player at that price or    *)
(* lets him go for a draft pick of a round the price has earned.  A player *)
(* nobody bid on is the original owner's to keep or release.               *)
(***************************************************************************)
EXTENDS Naturals

CONSTANTS
  Bidders, OriginalOwner,   \* teams that may bid, and the team that held the player
  Amounts,     \* prices
  Picks,       \* draft picks
  PickRound,   \* the round of each pick
  RoundFor     \* the latest round that settles each price

VARIABLES
  phase,    \* "auction", "raise", "match", or how it ended
  price,    \* what the player costs at the moment; 0 if nobody has bid
  winner,   \* the leading team; "none" if nobody has bid
  paid,     \* the pick the original owner got; "none" if he got none
  deal      \* who has signed the player at what price

rulesVars == <<phase, price, winner, paid, deal>>

Deal(team, amount) == [team |-> team, price |-> amount]

RulesInit ==
  phase = "auction" /\ price = 0 /\ winner = "none" /\ paid = "none" /\ deal = Deal("none", 0)

Bid(team, amount) ==
  /\ phase = "auction"
  /\ amount > price
  /\ price' = amount
  /\ winner' = team
  /\ UNCHANGED <<phase, paid, deal>>

CloseAuction ==
  /\ phase = "auction"
  /\ price > 0
  /\ phase' = "raise"
  /\ UNCHANGED <<price, winner, paid, deal>>

Raise(amount) ==
  /\ phase = "raise"
  /\ amount > price
  /\ price' = amount
  /\ phase' = "match"
  /\ UNCHANGED <<winner, paid, deal>>

StandPat ==
  /\ phase = "raise"
  /\ phase' = "match"
  /\ UNCHANGED <<price, winner, paid, deal>>

Match ==
  /\ phase = "match"
  /\ phase' = "matched"
  /\ deal' = Deal(OriginalOwner, price)
  /\ UNCHANGED <<price, winner, paid>>

Decline(pick) ==
  /\ phase = "match"
  /\ PickRound[pick] <= RoundFor[price]
  /\ phase' = "declined"
  /\ paid' = pick
  /\ deal' = Deal(winner, price)
  /\ UNCHANGED <<price, winner>>

SettleUnbid(outcome) ==
  /\ phase = "auction"
  /\ price = 0
  /\ phase' = outcome
  /\ deal' = IF outcome = "resigned" THEN Deal(OriginalOwner, 0) ELSE deal
  /\ UNCHANGED <<price, winner, paid>>

\* A player released to the open auction is no longer anybody's restricted free agent.
RulesNext ==
  \/ \E team \in Bidders, amount \in Amounts : Bid(team, amount)
  \/ CloseAuction
  \/ \E amount \in Amounts : Raise(amount)
  \/ StandPat
  \/ Match
  \/ \E pick \in Picks : Decline(pick)
  \/ SettleUnbid("resigned") \/ SettleUnbid("released")

RulesSpec == RulesInit /\ [][RulesNext]_rulesVars

=============================================================================
