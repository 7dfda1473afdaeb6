--------------------------- MODULE MCRfaHandshake ---------------------------
(* An instance of RfaHandshake for TLC: two bidders with a first- and a second-round pick each
   between them, and prices of which the highest owes a first-round pick. *)
EXTENDS RfaHandshake, TLC

MCPickRound == [p1 |-> 1, p2 |-> 2, q1 |-> 1]
MCPickOwner == [p1 |-> "A", p2 |-> "A", q1 |-> "B"]
MCRoundFor == <<2, 2, 1>>

Of(requests, ownerWaits, bidsWait, picksTraded) ==
  [requests |-> requests, ownerWaits |-> ownerWaits, bidsWait |-> bidsWait, trades |-> picksTraded]
OneRequest == {CHOOSE r \in Requests : TRUE}

\* One request after the other; requests that race each other and the bids; requests that race
\* each other in peace.
AllSettings ==
  {Of(OneRequest, TRUE, TRUE, 1), Of(Requests, TRUE, FALSE, 1), Of(Requests, TRUE, TRUE, 0)}
=============================================================================
