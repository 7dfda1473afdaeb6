---------------------------- MODULE RfaHandshake ----------------------------
(***************************************************************************)
(* One restricted free agent, from his auction through the raise and match *)
(* windows to his signing: the rfa_resolution row, its compensation pick,  *)
(* the auction row, the contract chain and the owners of the draft picks.  *)
(*                                                                         *)
(* A request is a mutation of one of the teams, or a window expiry that a  *)
(* scheduler tick dispatches.  It reads the resolution and checks it, then *)
(* reads what it signs or forfeits, then writes by id and commits; nothing *)
(* is locked and nothing is checked again.  Bids and the close are one     *)
(* step here; how they interleave is in VeteranAuction.                    *)
(***************************************************************************)
EXTENDS Integers, Sequences

CONSTANTS
  Requests,        \* requests that may run at the same time
  Bidders,         \* teams that bid
  OriginalOwner,   \* the team that held the player at the keeper deadline
  MaxAmount,       \* bound: highest price
  Picks,           \* draft picks
  PickRound,       \* the round of each pick
  PickOwner,       \* who holds each pick at first
  RoundFor,        \* compensation_round_for_bid
  Settings         \* the circumstances the handshake may run in: see Setting

Amounts == 1 .. MaxAmount
Teams == Bidders \cup {OriginalOwner}
None == "none"

\* The requests that may overlap; whether the owner settles an unbid player only once the auction
\* has closed; whether bids and the close wait for running requests; how many picks are traded.
Setting ==
  [requests : SUBSET Requests, ownerWaits : BOOLEAN, bidsWait : BOOLEAN, trades : Nat]

ASSUME HandshakeConstants ==
  /\ OriginalOwner \notin Bidders /\ None \notin Teams \cup Picks
  /\ MaxAmount \in Nat
  /\ PickRound \in [Picks -> 1 .. 5]
  /\ PickOwner \in [Picks -> Teams]
  /\ RoundFor \in [Amounts -> 1 .. 5]
  /\ \A a, b \in Amounts : a <= b => RoundFor[b] <= RoundFor[a]
  /\ Settings \subseteq Setting

VARIABLES
  setting,
  auction,     \* status of the auction row
  lead,        \* its latest bid
  res,         \* the rfa_resolution row
  windowOver,  \* whether raise_deadline_at or match_deadline_at has passed
  named,       \* the rfa_compensation_pick row
  holder,      \* current_owner_team_id of each pick
  chain,       \* the player's contract rows, oldest first
  forfeited,   \* the pick recorded as forfeited by a decline
  request,     \* what each request is doing and has read
  trades

vars == <<setting, auction, lead, res, windowOver, named, holder, chain, forfeited, request, trades>>

NoBid == [team |-> None, amount |-> 0]
NoPick == [from |-> None, pick |-> None, round |-> 0]
Idle == [pc |-> "idle", kind |-> None, amount |-> 0, named |-> NoPick, row |-> 0]
Terminal == {"Resolved", "Declined", "NoBidResigned", "NoBidToAuction"}

\* A row of the chain: RestrictedFreeAgent, signed, or expired; live is status Active.
RfaRow == [kind |-> "rfa", team |-> OriginalOwner, price |-> 0, live |-> TRUE]
SignedRow(team, price) == [kind |-> "signed", team |-> team, price |-> price, live |-> TRUE]
ExpiredRow == [kind |-> "expired", team |-> None, price |-> 0, live |-> FALSE]

Init ==
  /\ setting \in Settings
  /\ auction = "Open"
  /\ lead = NoBid
  /\ res = [status |-> "AwaitingAuction", winner |-> None, final |-> 0, raised |-> 0]
  /\ windowOver = FALSE
  /\ named = NoPick
  /\ holder = PickOwner
  /\ chain = <<RfaRow>>
  /\ forfeited = None
  /\ request = [r \in Requests |-> Idle]
  /\ trades = 0

-----------------------------------------------------------------------------
(* Helpers *)

\* effective_bid
EffectiveBid == IF res.raised > 0 THEN res.raised ELSE res.final

\* find_eligible_compensation_pick: held by the team and of a round good enough.
MutEligible(pick, team, round) == holder[pick] = team
Eligible(pick, team, round) == holder[pick] = team /\ PickRound[pick] <= round

\* add_replacement_contract_to_chain, on the row that was read; a second Active contract of the
\* player violates the unique index and rolls the transaction back.
MutCanReplace(row, new) == TRUE
CanReplace(row, new) == new.live => \A i \in DOMAIN chain : chain[i].live => i = row
MutReplaced(row, new) == [chain EXCEPT ![row].live = FALSE]
Replaced(row, new) == Append([chain EXCEPT ![row].live = FALSE], new)

-----------------------------------------------------------------------------
(* The auction *)

Quiet == setting.bidsWait => \A r \in Requests : request[r].pc = "idle"

\* place_auction_bid: a bid on a restricted free agent names the pick it would cost.
PlaceBid(team, amount, pick) ==
  /\ Quiet
  /\ auction = "Open"
  /\ amount > lead.amount
  /\ \/ /\ res.status = "AwaitingAuction"
        /\ Eligible(pick, team, RoundFor[amount])
        /\ named' = [from |-> team, pick |-> pick, round |-> RoundFor[amount]]
     \/ /\ res.status # "AwaitingAuction"
        /\ UNCHANGED named
  /\ lead' = [team |-> team, amount |-> amount]
  /\ UNCHANGED <<setting, auction, res, windowOver, holder, chain, forfeited, request, trades>>

\* open_rfa_raise_window
RaiseWindow(bid) ==
  [status |-> "AwaitingRaise", winner |-> bid.team, final |-> bid.amount, raised |-> 0]

\* end_veteran_auction and open_raise_window_for_closed_auction.
CloseAuction ==
  /\ Quiet
  /\ auction = "Open"
  /\ auction' = "Closed"
  /\ IF lead # NoBid /\ res.status = "AwaitingAuction"
     THEN res' = RaiseWindow(lead)
     ELSE UNCHANGED res
  /\ UNCHANGED <<setting, lead, windowOver, named, holder, chain, forfeited, request, trades>>

-----------------------------------------------------------------------------
(* Requests: read and check the resolution *)

Start(r, kind, pc, amount, pick) ==
  /\ r \in setting.requests
  /\ request[r].pc = "idle"
  /\ request' = [request EXCEPT ![r] =
       [pc |-> pc, kind |-> kind, amount |-> amount, named |-> pick, row |-> 0]]
  /\ UNCHANGED <<setting, auction, lead, res, windowOver, named, holder, chain, forfeited, trades>>

\* raise_bid
BeginRaise(r, amount, pick) ==
  /\ res.status = "AwaitingRaise"
  /\ amount > res.final
  /\ Eligible(pick, res.winner, RoundFor[amount])
  /\ Start(r, "raise", "write", amount,
           [from |-> res.winner, pick |-> pick, round |-> RoundFor[amount]])

\* decline_to_raise, and the expiry of the raise window, which stands pat for the winner.
BeginStandPat(r) ==
  /\ res.status = "AwaitingRaise"
  /\ Start(r, "standPat", "write", 0, NoPick)
ExpireRaise(r) == windowOver /\ BeginStandPat(r)

\* change_compensation_pick
BeginChange(r, pick) ==
  /\ res.status \in {"AwaitingAuction", "AwaitingRaise"}
  /\ named # NoPick
  /\ Eligible(pick, named.from, named.round)
  /\ Start(r, "change", "write", 0, [named EXCEPT !.pick = pick])

\* match_or_decline, and the expiry of the match window, which declines for the owner.
BeginMatch(r) ==
  /\ res.status = "AwaitingMatch"
  /\ Start(r, "match", "contract", EffectiveBid, NoPick)
BeginDecline(r) ==
  /\ res.status = "AwaitingMatch"
  /\ Start(r, "decline", "contract", EffectiveBid, NoPick)
MutExpireMatch(r) == ExpireRaise(r)
ExpireMatch(r) == windowOver /\ BeginDecline(r)

\* resolve_unbid_rfa: no auction in the resolution row is taken for no bid.
BeginUnbid(r, kind) ==
  /\ res.status = "AwaitingAuction"
  /\ res.winner = None
  /\ setting.ownerWaits => auction # "Open"
  /\ kind \in {"resign", "release"}
  /\ Start(r, kind, "contract", 0, NoPick)

(* Requests: read what is signed or forfeited *)

Latest == Len(chain)

\* find_rfa_contract takes the latest row of the chain if it is Active; only a restricted free
\* agent can be signed from it, but anything Active can be expired.
ReadChain(r) ==
  /\ request[r].pc = "contract" /\ request[r].kind \in {"match", "resign", "release"}
  /\ chain[Latest].live
  /\ request[r].kind # "release" => chain[Latest].kind = "rfa"
  /\ request' = [request EXCEPT ![r].pc = "write", ![r].row = Latest]
  /\ UNCHANGED <<setting, auction, lead, res, windowOver, named, holder, chain, forfeited, trades>>

\* A decline reads the named pick and its holder, and the contract row the auction was opened on.
ReadForfeit(r) ==
  /\ request[r].pc = "contract" /\ request[r].kind = "decline"
  /\ named # NoPick
  /\ holder[named.pick] = res.winner
  /\ chain[1].live
  /\ request' = [request EXCEPT ![r].pc = "write", ![r].row = 1, ![r].named = named]
  /\ UNCHANGED <<setting, auction, lead, res, windowOver, named, holder, chain, forfeited, trades>>

(* Requests: write and commit *)

Done(r) == request' = [request EXCEPT ![r] = Idle]

WriteRaise(r) ==
  LET q == request[r] IN
  /\ q.pc = "write" /\ q.kind = "raise"
  /\ named' = q.named
  /\ res' = [res EXCEPT !.raised = q.amount, !.status = "AwaitingMatch"]
  /\ windowOver' = FALSE
  /\ Done(r)
  /\ UNCHANGED <<setting, auction, lead, holder, chain, forfeited, trades>>

WriteStandPat(r) ==
  /\ request[r].pc = "write" /\ request[r].kind = "standPat"
  /\ res' = [res EXCEPT !.status = "AwaitingMatch"]
  /\ windowOver' = FALSE
  /\ Done(r)
  /\ UNCHANGED <<setting, auction, lead, named, holder, chain, forfeited, trades>>

WriteChange(r) ==
  /\ request[r].pc = "write" /\ request[r].kind = "change"
  /\ named' = request[r].named
  /\ Done(r)
  /\ UNCHANGED <<setting, auction, lead, res, windowOver, holder, chain, forfeited, trades>>

Finish(status) == res' = [res EXCEPT !.status = status]

WriteMatch(r) ==
  LET q == request[r]
      new == SignedRow(OriginalOwner, q.amount) IN
  /\ q.pc = "write" /\ q.kind = "match"
  /\ CanReplace(q.row, new)
  /\ chain' = Replaced(q.row, new)
  /\ auction' = "Completed"
  /\ Finish("Resolved")
  /\ Done(r)
  /\ UNCHANGED <<setting, lead, windowOver, named, holder, forfeited, trades>>

\* insert_compensation_pick_team_update, for the team that forfeits the pick and for the one that
\* gets it: what the league's history says of the decline.
RecordForfeit(pick) == forfeited' = pick

\* resolve_rfa_auction_to_winning_bid: the winner signs, at the effective bid, from the contract the
\* auction was opened on.
WinnerSigns(q) ==
  LET new == SignedRow(res.winner, q.amount) IN
  /\ CanReplace(q.row, new)
  /\ chain' = Replaced(q.row, new)
  /\ auction' = "Completed"

\* forfeit_pick_to_original_owner: the winner signs and the pick named when it was read moves.
WriteDecline(r) ==
  LET q == request[r] IN
  /\ q.pc = "write" /\ q.kind = "decline"
  /\ WinnerSigns(q)
  /\ holder' = [holder EXCEPT ![q.named.pick] = OriginalOwner]
  /\ RecordForfeit(q.named.pick)
  /\ Finish("Declined")
  /\ Done(r)
  /\ UNCHANGED <<setting, lead, windowOver, named, trades>>

\* settle_unbid_rfa_auction touches the auction only if it is Closed.
SettledUnbid(status) == IF auction = "Closed" THEN status ELSE auction

\* resolve_unbid_rfa
WriteUnbid(r) ==
  LET q == request[r]
      new == IF q.kind = "resign" THEN SignedRow(OriginalOwner, 0) ELSE ExpiredRow IN
  /\ q.pc = "write" /\ q.kind \in {"resign", "release"}
  /\ CanReplace(q.row, new)
  /\ chain' = Replaced(q.row, new)
  /\ auction' = SettledUnbid(IF q.kind = "resign" THEN "Completed" ELSE "Expired")
  /\ Finish(IF q.kind = "resign" THEN "NoBidResigned" ELSE "NoBidToAuction")
  /\ Done(r)
  /\ UNCHANGED <<setting, lead, windowOver, named, holder, forfeited, trades>>

\* A check fails, a statement fails or the process dies: the transaction rolls back.
Abort(r) ==
  /\ request[r].pc # "idle"
  /\ Done(r)
  /\ UNCHANGED <<setting, auction, lead, res, windowOver, named, holder, chain, forfeited, trades>>

-----------------------------------------------------------------------------
(* The rest of the league *)

\* 48 hours go by.
WindowRunsOut ==
  /\ res.status \in {"AwaitingRaise", "AwaitingMatch"}
  /\ ~windowOver
  /\ windowOver' = TRUE
  /\ UNCHANGED <<setting, auction, lead, res, named, holder, chain, forfeited, request, trades>>

\* A trade moves a pick, named or not (process_trade_assets).
TradePick(pick, team) ==
  /\ trades < setting.trades
  /\ team # holder[pick]
  /\ trades' = trades + 1
  /\ holder' = [holder EXCEPT ![pick] = team]
  /\ UNCHANGED <<setting, auction, lead, res, windowOver, named, chain, forfeited, request>>

Write(r) ==
  WriteRaise(r) \/ WriteStandPat(r) \/ WriteChange(r)
    \/ WriteMatch(r) \/ WriteDecline(r) \/ WriteUnbid(r)

Begin(r) ==
  \/ \E amount \in Amounts, pick \in Picks : BeginRaise(r, amount, pick)
  \/ \E pick \in Picks : BeginChange(r, pick)
  \/ BeginStandPat(r) \/ BeginMatch(r) \/ BeginDecline(r)
  \/ BeginUnbid(r, "resign") \/ BeginUnbid(r, "release")

Next ==
  \/ \E team \in Bidders, amount \in Amounts, pick \in Picks : PlaceBid(team, amount, pick)
  \/ CloseAuction
  \/ \E r \in Requests : Begin(r) \/ ExpireRaise(r) \/ ExpireMatch(r)
                           \/ ReadChain(r) \/ ReadForfeit(r) \/ Write(r) \/ Abort(r)
  \/ WindowRunsOut
  \/ \E pick \in Picks, team \in Teams : TradePick(pick, team)

Spec == Init /\ [][Next]_vars

\* The tick closes the auction and expires windows, time passes, requests end, and not every
\* attempt at a commit is cut short.  Teams do nothing they do not want to.
FairSpec ==
  /\ Spec
  /\ WF_vars(CloseAuction)
  /\ WF_vars(WindowRunsOut)
  /\ \A r \in Requests :
       /\ SF_vars(ExpireRaise(r) \/ ExpireMatch(r))
       /\ SF_vars(ReadForfeit(r))
       /\ SF_vars(WriteStandPat(r) \/ WriteDecline(r))
       /\ WF_vars(Abort(r))

-----------------------------------------------------------------------------
(* Properties *)

PickRows == {NoPick} \cup [from : Bidders, pick : Picks, round : 1 .. 5]

\* Types; a player has one Active contract at most, and a resolution past its auction a winner.
TypeOK ==
  /\ auction \in {"Open", "Closed", "Completed", "Expired"}
  /\ lead \in {NoBid} \cup [team : Bidders, amount : Amounts]
  /\ res.status \in {"AwaitingAuction", "AwaitingRaise", "AwaitingMatch"} \cup Terminal
  /\ res.winner = None <=> res.status \in {"AwaitingAuction", "NoBidResigned", "NoBidToAuction"}
  /\ res.final \in 0 .. MaxAmount /\ res.raised \in 0 .. MaxAmount
  /\ named \in PickRows
  /\ holder \in [Picks -> Teams]
  /\ \A i, j \in DOMAIN chain : chain[i].live /\ chain[j].live => i = j
  /\ forfeited \in Picks \cup {None}
  /\ \A r \in Requests : request[r].named \in PickRows /\ request[r].row \in 0 .. Len(chain)

\* Whatever requests race, the winner has the player exactly when the original owner has been
\* paid with a pick (forfeit_pick_to_original_owner).
PickPaysForPlayer ==
  (\E i \in DOMAIN chain : chain[i].team \in Bidders) <=> forfeited # None

\* One request at a time, and an owner who waits for the auction to close, follow the rules: the
\* price only rises, the right team signs at that price, and the pick is of a round it has earned.
Rules == INSTANCE RfaRules WITH
  phase <- CASE res.status = "AwaitingAuction" -> "auction"
             [] res.status = "AwaitingRaise" -> "raise"
             [] res.status = "AwaitingMatch" -> "match"
             [] res.status = "Resolved" -> "matched"
             [] res.status = "Declined" -> "declined"
             [] res.status = "NoBidResigned" -> "resigned"
             [] res.status = "NoBidToAuction" -> "released",
  price <- IF res.status = "AwaitingAuction" THEN lead.amount ELSE EffectiveBid,
  winner <- IF res.status = "AwaitingAuction" THEN lead.team ELSE res.winner,
  paid <- forfeited,
  deal <- IF chain[Latest].kind = "signed"
          THEN [team |-> chain[Latest].team, price |-> chain[Latest].price]
          ELSE [team |-> None, price |-> 0]
Orderly == setting.ownerWaits /\ setting.bidsWait /\ \A r, s \in setting.requests : r = s
FollowsRules == Rules!RulesInit /\ [][Orderly => Rules!RulesNext]_(Rules!rulesVars)

\* The handshake ends: two windows of 48 hours after the close the player is signed, even if neither
\* team ever answers ("no match inside 48h counts as declining"), as long as no pick is traded
\* meanwhile and the named pick is the current leader's.
EndsUndisturbed ==
  (res.status = "AwaitingRaise" /\ setting.trades = 0 /\ setting.bidsWait)
    ~> res.status \in Terminal

=============================================================================
