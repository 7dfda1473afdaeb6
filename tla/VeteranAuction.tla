--------------------------- MODULE VeteranAuction ---------------------------
(***************************************************************************)
(* One auction, from the tick or owner that opens it to the tick that      *)
(* settles it: in the preseason veteran auction, or in season, which       *)
(* differ in the clocks that end it and in the sweeps of the ticks.  Bids  *)
(* are database transactions: they lock the auction's row, check, insert   *)
(* and commit.  Ticks take no such lock: they read, decide on what they    *)
(* read and write by id, so a bid may commit between any two of their      *)
(* statements.                                                             *)
(*                                                                         *)
(* `now' is the one clock of database and workers.  An instant of it is    *)
(* short against the quiet windows; RequestLimit says how many of them a   *)
(* request or a tick may last.                                             *)
(***************************************************************************)
EXTENDS Integers, Sequences, FiniteSets

CONSTANTS
  Bidders,        \* team users who bid
  OriginalOwner,  \* the bidder whose own free agent this is, or somebody who never bids
  Ticks,          \* scheduler ticks that may overlap
  Settings,       \* the circumstances an auction may run in: see Setting
  Tiers,          \* the season's min_bid_tier amounts
  OpeningBid,     \* minimum bid the auction opens with
  QuietWindow,    \* AUCTION_QUIET_WINDOW_HOURS, also the ladder's day
  CrunchQuiet,    \* AUCTION_CRUNCH_QUIET_WINDOW_HOURS
  CrunchStart,    \* crunch_window_start
  HardDeadline,   \* PreseasonFinalRosterLock, or in season the next roster lock
  AllBidDeadline, \* in season: Sunday evening, when the week's auctions end
  FirstTrigger,   \* how late a bid must be to move it for the first time,
  LaterTrigger,   \* and afterwards
  Extension,      \* by how much
  RequestLimit,   \* longest time a request or a tick lasts
  MaxAmount,      \* bound: highest amount bid
  MaxRequests     \* bound: bid transactions

CarrySalaryKinds ==
  {"RestrictedFreeAgent", "UnrestrictedFreeAgentOriginalTeam", "UnrestrictedFreeAgentVeteran"}

\* The kind of the pooled contract, whether it is auctioned in season, the ticks that may overlap, and
\* how many sweeps and closes fail.
Setting ==
  [kind : CarrySalaryKinds \cup {"FreeAgent"}, inSeason : BOOLEAN, ticks : SUBSET Ticks, failures : Nat]

NoTick == "none"

ASSUME AuctionConstants ==
  /\ NoTick \notin Ticks
  /\ Settings \subseteq Setting
  /\ Tiers \subseteq Nat \ {0} /\ Tiers # {}
  /\ OpeningBid \in Nat \ {0}
  /\ CrunchQuiet \in Nat \ {0} /\ QuietWindow \in Nat /\ CrunchQuiet <= QuietWindow
  /\ CrunchStart \in Nat /\ HardDeadline \in Nat \ {0} /\ CrunchStart <= HardDeadline
  /\ AllBidDeadline \in 0 .. HardDeadline
  /\ {FirstTrigger, LaterTrigger, Extension} \subseteq Nat
  /\ Extension <= LaterTrigger /\ LaterTrigger <= FirstTrigger /\ Extension <= QuietWindow
  /\ RequestLimit \in Nat
  /\ MaxAmount \in Nat /\ MaxRequests \in Nat

VARIABLES
  now,
  setting,
  status, closeAt, minBid, updatedAt,  \* the auction row,
  allBid,      \* with its all_bid_deadline; the hard deadline stands for none
  bids,        \* the auction_bid rows, in the order of their ids
  request,     \* each bidder's bid transaction
  begun,       \* how many bid transactions have begun
  tick,        \* each tick: where it is and what it has read
  claim,       \* the tick that holds the auction's close event
  settledOn,   \* the bid the close handler settled the auction on
  failed       \* how many sweeps and closes have failed

row == <<status, closeAt, minBid, updatedAt, allBid>>
vars == <<now, setting, row, bids, request, begun, tick, claim, settledOn, failed>>

NoBid == [team |-> "nobody", amount |-> 0, at |-> 0, order |-> 0]
IdleRequest == [pc |-> "idle", bid |-> NoBid]
IdleTick == [pc |-> "off", at |-> -1, minBid |-> 0, closeAt |-> 0, bid |-> NoBid]

\* A preseason auction is opened without an all-bid deadline, one in season with its week's.
FirstAllBid == IF setting.inSeason THEN AllBidDeadline ELSE HardDeadline

Init ==
  /\ now = 0
  /\ setting \in Settings
  /\ status = "Open"
  /\ minBid = OpeningBid
  /\ allBid = FirstAllBid
  /\ closeAt = IF QuietWindow < allBid THEN QuietWindow ELSE allBid
  /\ updatedAt \in 0 .. RequestLimit   \* the tick read `now' first and inserted the row later
  /\ bids = << >>
  /\ request = [b \in Bidders |-> IdleRequest]
  /\ begun = 0
  /\ tick = [t \in Ticks |-> IdleTick]
  /\ claim = NoTick
  /\ settledOn = NoBid
  /\ failed = 0

-----------------------------------------------------------------------------
(* Helpers *)

\* find_auction_mode_deadlines: only the preseason has a crunch window.  The season's last roster lock
\* behind it, an in-season auction has no hard deadline: then HardDeadline is a time beyond all others.
InCrunch(time) == ~setting.inSeason /\ time >= CrunchStart

\* auction_quiet_window
MutQuietAt(time) == IF time >= CrunchStart - 1 THEN CrunchQuiet ELSE QuietWindow
QuietAt(time) == IF InCrunch(time) THEN CrunchQuiet ELSE QuietWindow

\* auction_close_at
MutCloseAt(from, window, deadline) == from + window
CloseAt(from, window, deadline) ==
  CHOOSE c \in {from + window, deadline, HardDeadline} :
    c <= from + window /\ c <= deadline /\ c <= HardDeadline

\* rolled_all_bid_deadline: what a late bid makes of the deadline, up to the hard one.
Rolled(time) ==
  LET trigger == IF allBid = AllBidDeadline THEN FirstTrigger ELSE LaterTrigger
      rolled == IF allBid + Extension < HardDeadline THEN allBid + Extension ELSE HardDeadline
  IN IF setting.inSeason /\ time < allBid /\ allBid - time <= trigger THEN rolled ELSE allBid

\* get_latest_bid: created_at is when the bid's transaction began, not when it got the lock.
LatestOf(s) ==
  IF s = << >> THEN NoBid
  ELSE s[CHOOSE i \in DOMAIN s : \A j \in DOMAIN s : s[j].order <= s[i].order]
LatestBid == LatestOf(bids)

\* validate_bid_amount: at least the minimum to open, at least a dollar more to outbid.
MutBigEnough(amount, latest) ==
  IF latest = NoBid THEN amount >= minBid ELSE amount >= latest.amount
BigEnough(amount, latest) ==
  IF latest = NoBid THEN amount >= minBid ELSE amount >= latest.amount + 1

\* next_lower_min_bid_amount
LowerTiers(amount) == {m \in Tiers : m < amount}
NextLower(amount) == CHOOSE m \in LowerTiers(amount) : \A n \in LowerTiers(amount) : n <= m

\* SELECT ... FOR UPDATE and UPDATE wait for the bid that holds the row.
MutRowFree == TRUE
RowFree == \A b \in Bidders : request[b].pc # "placed"

-----------------------------------------------------------------------------
(* place_auction_bid *)

\* The request reads the clock and begins its transaction.
BeginBid(b, amount) ==
  /\ request[b].pc = "idle"
  /\ begun < MaxRequests
  /\ begun' = begun + 1
  /\ request' = [request EXCEPT ![b] =
       [pc |-> "begun",
        bid |-> [team |-> b, amount |-> amount, at |-> now, order |-> begun + 1]]]
  /\ UNCHANGED <<now, setting, row, bids, tick, claim, settledOn, failed>>

\* The request ends without a bid: a rule rejected it (the cap, roster and compensation rules
\* too), or a statement failed and its transaction rolled back.
EndRequest(b) ==
  /\ request[b].pc # "idle"
  /\ request' = [request EXCEPT ![b] = IdleRequest]
  /\ UNCHANGED <<now, setting, row, bids, begun, tick, claim, settledOn, failed>>

\* It gets the row and every check passes: insert, set close_at, hold the row until the commit.
Acceptable(b) ==
  LET bid == request[b].bid IN
  /\ status = "Open"
  /\ bid.at < closeAt
  /\ b # OriginalOwner
  /\ BigEnough(bid.amount, LatestBid)
PlaceBid(b) ==
  /\ request[b].pc = "begun"
  /\ RowFree
  /\ Acceptable(b)
  /\ request' = [request EXCEPT ![b].pc = "placed"]
  /\ UNCHANGED <<now, setting, row, bids, begun, tick, claim, settledOn, failed>>

CommitBid(b) ==
  LET bid == request[b].bid IN
  /\ request[b].pc = "placed"
  /\ bids' = Append(bids, bid)
  /\ allBid' = Rolled(bid.at)
  /\ closeAt' = CloseAt(bid.at, QuietAt(bid.at), allBid')
  /\ request' = [request EXCEPT ![b] = IdleRequest]
  /\ UNCHANGED <<now, setting, status, minBid, updatedAt, begun, tick, claim, settledOn, failed>>

-----------------------------------------------------------------------------
(* run_scheduler_tick: slide, crunch sweep, close *)

Go(t, state) == tick' = [tick EXCEPT ![t] = state]
At(t, pc) == [tick[t] EXCEPT !.pc = pc]
Over(t) == [IdleTick EXCEPT !.at = tick[t].at]

\* The tick reads its `now'.  The scheduler's interval is longer than an instant, so more than one
\* tick at an instant are ticks of different processes; they go on where the model's clock stops.
StartTick(t) ==
  /\ t \in setting.ticks
  /\ tick[t].pc = "off" /\ (tick[t].at < now \/ now = HardDeadline)
  /\ status = "Open"
  /\ Go(t, [IdleTick EXCEPT !.pc = "slide", !.at = now])
  /\ UNCHANGED <<now, setting, row, bids, request, begun, claim, settledOn, failed>>

\* find_unbid_open_auctions: on the ladder, no bid, not touched for a day.
OnLadder == ~setting.inSeason /\ setting.kind \notin CarrySalaryKinds
MutSlidable(time) ==
  /\ OnLadder
  /\ status = "Open"
  /\ bids = << >>
  /\ updatedAt < time - QuietWindow
Slidable(time) ==
  /\ OnLadder
  /\ status = "Open"
  /\ bids = << >>
  /\ updatedAt <= time - QuietWindow

\* slide_unbid_auctions_down_a_tier reads the list outside its transaction.
ListUnbid(t) ==
  /\ tick[t].pc = "slide"
  /\ Go(t, IF Slidable(tick[t].at) /\ LowerTiers(minBid) # {}
           THEN [At(t, "slideWrite") EXCEPT !.minBid = minBid]
           ELSE At(t, "crunch"))
  /\ UNCHANGED <<now, setting, row, bids, request, begun, claim, settledOn, failed>>

\* slide_auction_to_next_tier, by id: whatever happened to the auction since it was listed.
SlideWrite(t) ==
  /\ tick[t].pc = "slideWrite"
  /\ RowFree
  /\ minBid' = NextLower(tick[t].minBid)
  /\ closeAt' = CloseAt(tick[t].at, QuietWindow, HardDeadline)
  /\ updatedAt' = now
  /\ Go(t, [At(t, "crunch") EXCEPT !.minBid = 0])
  /\ UNCHANGED <<now, setting, status, allBid, bids, request, begun, claim, settledOn, failed>>

\* shorten_open_auctions_for_crunch_window lists the open auctions outside its transaction.
ListOpen(t) ==
  /\ tick[t].pc = "crunch"
  /\ Go(t, IF InCrunch(tick[t].at) /\ status = "Open"
           THEN [At(t, "crunchBid") EXCEPT !.closeAt = closeAt]
           ELSE At(t, "due"))
  /\ UNCHANGED <<now, setting, row, bids, request, begun, claim, settledOn, failed>>

\* The last bid is read inside it, and compared with the close time that was listed.
ShortenedTo(t) == CloseAt(LatestBid.at, CrunchQuiet, HardDeadline)
ReadCrunchBid(t) ==
  /\ tick[t].pc = "crunchBid"
  /\ Go(t, IF LatestBid # NoBid /\ ShortenedTo(t) < tick[t].closeAt
           THEN [At(t, "crunchWrite") EXCEPT !.closeAt = ShortenedTo(t)]
           ELSE [At(t, "due") EXCEPT !.closeAt = 0])
  /\ UNCHANGED <<now, setting, row, bids, request, begun, claim, settledOn, failed>>

\* set_auction_close_at, by id.
CrunchWrite(t) ==
  /\ tick[t].pc = "crunchWrite"
  /\ RowFree
  /\ closeAt' = tick[t].closeAt
  /\ Go(t, [At(t, "due") EXCEPT !.closeAt = 0])
  /\ UNCHANGED <<now, setting, status, minBid, updatedAt, allBid, bids, request, begun, claim,
                 settledOn, failed>>

\* The release tick fails somewhere: it is logged, and the close tick runs all the same.
SweepFails(t) ==
  /\ tick[t].pc \in {"slide", "slideWrite", "crunch", "crunchBid", "crunchWrite"}
  /\ failed < setting.failures
  /\ failed' = failed + 1
  /\ Go(t, [IdleTick EXCEPT !.pc = "due", !.at = tick[t].at])
  /\ UNCHANGED <<now, setting, row, bids, request, begun, claim, settledOn>>

\* find_auctions_due_for_close
Due(time) == status = "Open" /\ closeAt <= time
ListDue(t) ==
  /\ tick[t].pc = "due"
  /\ Go(t, IF Due(tick[t].at) THEN At(t, "claim") ELSE Over(t))
  /\ UNCHANGED <<now, setting, row, bids, request, begun, claim, settledOn, failed>>

\* process_event: one claimant at a time, and never again once it has succeeded (JobRuns).
\* The handler of the auction's kind then reads the latest bid; it checks neither status nor close_at again.
ClaimClose(t) ==
  /\ tick[t].pc = "claim"
  /\ \/ /\ claim = NoTick /\ status = "Open"
        /\ claim' = t
        /\ Go(t, [At(t, "settle") EXCEPT !.bid = LatestBid])
     \/ /\ claim # NoTick \/ status # "Open"
        /\ Go(t, Over(t))
        /\ UNCHANGED claim
  /\ UNCHANGED <<now, setting, row, bids, request, begun, settledOn, failed>>

\* auction_close_outcome and the status it ends in.
StatusAfter(bid) ==
  CASE setting.kind = "RestrictedFreeAgent" -> "Closed"
    [] setting.kind # "RestrictedFreeAgent" /\ bid = NoBid -> "Expired"
    [] OTHER -> "Completed"

\* The handler's transaction commits: the contract is signed, expired or handed to the RFA
\* resolution, on the bid that was read.
Settle(t) ==
  /\ tick[t].pc = "settle"
  /\ RowFree
  /\ status' = StatusAfter(tick[t].bid)
  /\ settledOn' = tick[t].bid
  /\ claim' = NoTick
  /\ Go(t, Over(t))
  /\ UNCHANGED <<now, setting, closeAt, minBid, updatedAt, allBid, bids, request, begun, failed>>

\* end_veteran_auction and end_fa_auction
SettleAuction(t) == ~setting.inSeason /\ Settle(t)
SettleInSeason(t) == setting.inSeason /\ Settle(t)

\* The handler fails; a later tick tries again.
CloseFails(t) ==
  /\ tick[t].pc = "settle"
  /\ failed < setting.failures
  /\ failed' = failed + 1
  /\ claim' = NoTick
  /\ Go(t, Over(t))
  /\ UNCHANGED <<now, setting, row, bids, request, begun, settledOn>>

-----------------------------------------------------------------------------
InTime ==
  /\ \A b \in Bidders : request[b].pc # "idle" => now - request[b].bid.at < RequestLimit
  /\ \A t \in Ticks : tick[t].pc # "off" => now - tick[t].at < RequestLimit

\* The clock stops at the hard deadline, where every close time lies in the past.
PassTime ==
  /\ now < HardDeadline
  /\ InTime
  /\ now' = now + 1
  /\ UNCHANGED <<setting, row, bids, request, begun, tick, claim, settledOn, failed>>

TickStep(t) ==
  \/ ListUnbid(t) \/ SlideWrite(t) \/ ListOpen(t) \/ ReadCrunchBid(t) \/ CrunchWrite(t)
  \/ ListDue(t) \/ ClaimClose(t) \/ SettleAuction(t) \/ SettleInSeason(t)

BidStep(b) == PlaceBid(b) \/ CommitBid(b) \/ EndRequest(b)

Next ==
  \/ \E b \in Bidders : BidStep(b) \/ \E amount \in 1 .. MaxAmount : BeginBid(b, amount)
  \/ \E t \in Ticks : StartTick(t) \/ TickStep(t) \/ SweepFails(t) \/ CloseFails(t)
  \/ PassTime

Spec == Init /\ [][Next]_vars

\* Requests end, ticks keep starting and finish, time passes; nobody has to bid and nothing has
\* to fail.  The clock is strongly fair: its guard only says that what runs finishes in time.
FairSpec ==
  /\ Spec
  /\ \A b \in Bidders : WF_vars(BidStep(b))
  /\ \A t \in Ticks : WF_vars(StartTick(t) \/ TickStep(t))
  /\ SF_vars(PassTime)

-----------------------------------------------------------------------------
(* Properties *)

BidRecords == [team : Bidders, amount : 1 .. MaxAmount, at : Nat, order : 1 .. MaxRequests]

\* Types; at most one bid holds the row; bids are rows of distinct transactions.
TypeOK ==
  /\ now \in 0 .. HardDeadline
  /\ status \in {"Open", "Closed", "Expired", "Completed"}
  /\ closeAt \in Nat /\ allBid \in 0 .. HardDeadline /\ minBid \in Nat /\ updatedAt \in Nat
  /\ \A i \in DOMAIN bids : bids[i] \in BidRecords
  /\ \A i, j \in DOMAIN bids : bids[i].order = bids[j].order => i = j
  /\ \A b \in Bidders : request[b].bid \in BidRecords \cup {NoBid}
  /\ \A b, c \in Bidders : request[b].pc = "placed" /\ request[c].pc = "placed" => b = c
  /\ \A t \in Ticks : tick[t].bid \in BidRecords \cup {NoBid}
  /\ claim \in Ticks \cup {NoTick}
  /\ \A t \in Ticks : tick[t].pc = "settle" <=> claim = t
  /\ settledOn \in BidRecords \cup {NoBid}

\* Every leader outbids the one before, the leader at the end is the one the auction is settled
\* on, and nothing is bid after that: place_auction_bid against end_veteran_auction.
Offer(bid) == [team |-> bid.team, amount |-> bid.amount]
Ascending == INSTANCE AscendingAuction WITH
  Offers <- [team : Bidders, amount : 1 .. MaxAmount],
  NoOffer <- Offer(NoBid),
  restricted <- setting.kind = "RestrictedFreeAgent",
  phase <- [Open |-> "open", Closed |-> "held", Expired |-> "expired", Completed |-> "sold"][status],
  leader <- Offer(IF status = "Open" THEN LatestBid ELSE settledOn)
ImplementsAuction == Ascending!AuctionSpec

\* A committed bid leads unless a higher one was accepted ("racing bids on one auction serialize").
HighestBidLeads == \A i \in DOMAIN bids : bids[i].amount <= LatestBid.amount

\* The leader's reprieve, however ticks interleave with his bid.  In the preseason, until the crunch
\* window opens, the auction stays open to others for a full quiet window (or to the hard deadline);
\* in season, however late he bids, for the length of an extension (rules 8.3.2).
FullReprieve ==
  IF setting.inSeason
  THEN status # "Open" /\ settledOn # NoBid => now >= CloseAt(settledOn.at, Extension, HardDeadline)
  ELSE now < CrunchStart =>
         /\ status = "Open" /\ bids # << >> =>
              closeAt >= CloseAt(LatestBid.at, QuietWindow, HardDeadline)
         /\ status # "Open" /\ settledOn # NoBid =>
              now >= CloseAt(settledOn.at, QuietWindow, HardDeadline)

\* An unbid auction expires only when the ladder (or the preseason) has run out, as long as no tick
\* failed to slide it.
LadderRunsOut ==
  status = "Expired" /\ OnLadder /\ failed = 0 => LowerTiers(minBid) = {} \/ now >= HardDeadline

\* A sweep that writes never gives an auction more time ("the sweep only ever moves a close time
\* earlier", of crunch_window.rs).
SweepsOnlyShorten == [][\A t \in Ticks : CrunchWrite(t) => closeAt' <= closeAt]_vars

\* No auction outlives the preseason or its week: bid on, slid or not, and whatever fails on the way, it is
\* settled by ticks that see the hard deadline pass (where the clock of the model stops).
AuctionSettles == <>(status # "Open")

=============================================================================
