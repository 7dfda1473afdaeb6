----------------------------- MODULE TradeDeals -----------------------------
(***************************************************************************)
(* What a trade promises, without requests, rows or locks: nothing moves   *)
(* before every team of the deal has agreed; then everything moves at once *)
(* and every other open deal over one of those assets is off.              *)
(***************************************************************************)
CONSTANTS
  Teams, Assets,
  Deals,
  By,            \* the team that offers each deal
  With,          \* the other teams of each deal
  To,            \* where the assets of each deal go: a function on those assets
  FirstHolder    \* who holds each asset at first

VARIABLES
  state,    \* of each deal: "None", "Proposed", "Completed", "Rejected", "Invalidated"
  agreed,   \* the teams that have agreed to each deal
  has       \* who holds each asset

dealVars == <<state, agreed, has>>

Party(d) == With[d] \cup {By[d]}

DealsInit ==
  /\ state = [d \in Deals |-> "None"]
  /\ agreed = [d \in Deals |-> {}]
  /\ has = FirstHolder

Offer(d) ==
  /\ state[d] = "None"
  /\ \A a \in DOMAIN To[d] : has[a] \in Party(d)
  /\ state' = [state EXCEPT ![d] = "Proposed"]
  /\ agreed' = [agreed EXCEPT ![d] = {By[d]}]
  /\ UNCHANGED has

Agree(d, team) ==
  /\ state[d] = "Proposed"
  /\ team \in Party(d)
  /\ agreed' = [agreed EXCEPT ![d] = @ \cup {team}]
  /\ agreed'[d] # Party(d)
  /\ UNCHANGED <<state, has>>

Sharing(d) == {e \in Deals \ {d} : state[e] = "Proposed" /\ DOMAIN To[d] \cap DOMAIN To[e] # {}}

\* The last team agrees.
Settle(d, team) ==
  /\ state[d] = "Proposed"
  /\ team \in Party(d)
  /\ agreed' = [agreed EXCEPT ![d] = @ \cup {team}]
  /\ agreed'[d] = Party(d)
  /\ has' = [a \in Assets |-> IF a \in DOMAIN To[d] THEN To[d][a] ELSE has[a]]
  /\ state' = [e \in Deals |->
       IF e = d THEN "Completed" ELSE IF e \in Sharing(d) THEN "Invalidated" ELSE state[e]]

Refuse(d) ==
  /\ state[d] = "Proposed"
  /\ state' = [state EXCEPT ![d] = "Rejected"]
  /\ UNCHANGED <<agreed, has>>

DealsNext ==
  \E d \in Deals :
    Offer(d) \/ Refuse(d) \/ (\E team \in Teams : Agree(d, team) \/ Settle(d, team))

DealsSpec == DealsInit /\ [][DealsNext]_dealVars
=============================================================================
