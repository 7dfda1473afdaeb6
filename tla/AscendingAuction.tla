-------------------------- MODULE AscendingAuction --------------------------
(***************************************************************************)
(* What an auction promises its bidders: while it is open every new leader *)
(* offers more than the one before; once it is settled nothing changes any *)
(* more, the leader has the player (or, for a restricted free agent, holds *)
(* him until the original owner decides), and it only expires if nobody    *)
(* leads.                                                                  *)
(***************************************************************************)
EXTENDS Naturals

CONSTANTS
  Offers,     \* [team, amount] records
  NoOffer     \* nobody leads

VARIABLES
  restricted,   \* whether the player is a restricted free agent
  phase,
  leader

auctionVars == <<restricted, phase, leader>>

AuctionInit ==
  /\ restricted \in BOOLEAN
  /\ phase = "open"
  /\ leader = NoOffer

Outbid(offer) ==
  /\ phase = "open"
  /\ leader = NoOffer \/ offer.amount > leader.amount
  /\ leader' = offer
  /\ UNCHANGED <<restricted, phase>>

Settle(outcome) ==
  /\ phase = "open"
  /\ outcome = "held" <=> restricted
  /\ outcome = "expired" => leader = NoOffer
  /\ outcome = "sold" => leader # NoOffer
  /\ phase' = outcome
  /\ UNCHANGED <<restricted, leader>>

AuctionNext ==
  (\E offer \in Offers : Outbid(offer)) \/ (\E o \in {"sold", "expired", "held"} : Settle(o))

AuctionSpec == AuctionInit /\ [][AuctionNext]_auctionVars

=============================================================================
