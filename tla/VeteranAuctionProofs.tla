------------------------ MODULE VeteranAuctionProofs ------------------------
(***************************************************************************)
(* Proofs about VeteranAuction, for any bidders, ticks, amounts and        *)
(* windows.                                                                *)
(***************************************************************************)
EXTENDS VeteranAuction, SequenceTheorems, WellFoundedInduction, TLAPS

-----------------------------------------------------------------------------
(* Rows and locks *)

TickPCs ==
  {"off", "slide", "slideWrite", "crunch", "crunchBid", "crunchWrite", "due", "claim", "settle"}
TickStates ==
  [pc : TickPCs, at : Nat \cup {-1}, minBid : Nat, closeAt : 0 .. HardDeadline, bid : BidRecords \cup {NoBid}]
RequestStates == [pc : {"idle", "begun", "placed"}, bid : BidRecords \cup {NoBid}]

Typed ==
  /\ now \in 0 .. HardDeadline
  /\ setting \in Settings
  /\ status \in {"Open", "Closed", "Expired", "Completed"}
  /\ closeAt \in 0 .. HardDeadline /\ allBid \in 0 .. HardDeadline /\ minBid \in Nat /\ updatedAt \in Nat
  /\ bids \in Seq(BidRecords)
  /\ request \in [Bidders -> RequestStates]
  /\ begun \in 0 .. MaxRequests
  /\ tick \in [Ticks -> TickStates]
  /\ claim \in Ticks \cup {NoTick}
  /\ settledOn \in BidRecords \cup {NoBid}
  /\ failed \in 0 .. setting.failures

\* Every bid transaction has its own place in the order, and one at a time has the row.
Active(b) == request[b].pc # "idle"
Numbered ==
  /\ \A i \in DOMAIN bids : bids[i].order <= begun
  /\ \A i, j \in DOMAIN bids : bids[i].order = bids[j].order => i = j
  /\ \A b \in Bidders : Active(b) =>
       /\ request[b].bid \in BidRecords /\ request[b].bid.order <= begun
       /\ \A i \in DOMAIN bids : bids[i].order # request[b].bid.order
  /\ \A b, c \in Bidders :
       Active(b) /\ Active(c) /\ request[b].bid.order = request[c].bid.order => b = c
Locked ==
  /\ \A b, c \in Bidders : request[b].pc = "placed" /\ request[c].pc = "placed" => b = c
  /\ \A b \in Bidders : request[b].pc = "placed" => Acceptable(b)

Claimed ==
  /\ \A t \in Ticks : tick[t].pc = "settle" <=> claim = t
  /\ claim # NoTick => status = "Open"
  /\ \A t \in Ticks : tick[t].pc # "off" => t \in setting.ticks

\* What a tick listed to get where it is.
Stages ==
  \A t \in Ticks :
    /\ tick[t].pc # "off" => tick[t].at \in Nat
    /\ tick[t].pc = "slideWrite" => OnLadder /\ LowerTiers(tick[t].minBid) # {}
    /\ tick[t].pc \in {"crunchBid", "crunchWrite"} => InCrunch(tick[t].at)

Sound == Typed /\ Numbered /\ Locked /\ Claimed /\ Stages

-----------------------------------------------------------------------------
(* Clocks *)

\* The runs' idealisation: a request or tick is over before the clock moves.
Instants == RequestLimit = 0

Timely ==
  /\ \A b \in Bidders : Active(b) => request[b].bid.at = now
  /\ \A t \in Ticks : tick[t].pc # "off" => tick[t].at = now
  /\ \A i \in DOMAIN bids : bids[i].at <= now
  /\ setting.inSeason => closeAt <= allBid
  /\ ~setting.inSeason => allBid = HardDeadline

\* Until the crunch window a leader has his quiet window, in season the length of an extension.
Reprieve(time) == IF setting.inSeason THEN CloseAt(time, Extension, HardDeadline)
                  ELSE CloseAt(time, QuietWindow, HardDeadline)
Lasting ==
  status = "Open" /\ bids # << >> /\ (setting.inSeason \/ now < CrunchStart) =>
    closeAt >= Reprieve(LatestBid.at)

\* On the ladder an auction without a bid closes a quiet window after its last step.
Laddered ==
  OnLadder /\ bids = << >> /\ status = "Open" => closeAt = CloseAt(updatedAt, QuietWindow, HardDeadline)

-----------------------------------------------------------------------------
(* Ticks that overlap *)

Alone == \A t, u \in setting.ticks : t = u

\* No sweep has failed, or none that another tick overlaps.
Sure == failed = 0 \/ Alone \/ setting.inSeason
\* No crunch sweep of another tick writes.
Unswept == setting.inSeason \/ Alone \/ now < CrunchStart \/ CrunchStart = HardDeadline
Steady == Sure /\ (Unswept \/ bids = << >>)

CanSlide == Slidable(now) /\ LowerTiers(minBid) # {}
Past == {"crunch", "crunchBid", "crunchWrite", "due", "claim", "settle"}
Closing == {"claim", "settle"}

\* Who is past the slide found nothing to slide, or has slid it.
Walked == failed = 0 => \A t \in Ticks : tick[t].pc \in Past => ~CanSlide

\* What is about to be slid can still be, or has a new clock, of a step or a bid of this instant.
Sliding ==
  \A t \in Ticks : tick[t].pc = "slideWrite" =>
    /\ \A i \in DOMAIN bids : bids[i].at = now
    /\ status = "Open" /\ now < HardDeadline => CanSlide \/ closeAt > now

\* What a crunch sweep is about to write is the short window of some bid.
Swept ==
  \A t \in Ticks : tick[t].pc = "crunchWrite" =>
    \E i \in DOMAIN bids : tick[t].closeAt = CloseAt(bids[i].at, CrunchQuiet, HardDeadline)

\* Nothing is slid any more once somebody closes.
Unslid ==
  Sure /\ now < HardDeadline /\ (status # "Open" \/ \E t \in Ticks : tick[t].pc \in Closing) =>
    \A t \in Ticks : tick[t].pc # "slideWrite"

\* Who closes an auction does it in time, on the leader.
InTimeToClose ==
  Steady => \A t \in Ticks : tick[t].pc \in Closing /\ status = "Open" => closeAt <= now
OnTheLeader ==
  \A t \in Ticks :
    tick[t].pc = "settle" /\ (Steady \/ (Sure /\ tick[t].bid = NoBid)) => tick[t].bid = LatestBid

Running ==
  /\ Timely /\ Lasting /\ Laddered
  /\ Walked /\ Sliding /\ Swept /\ Unslid /\ InTimeToClose /\ OnTheLeader

-----------------------------------------------------------------------------
(* What the operators yield *)

LEMMA HasSmallest ==
  ASSUME NEW S \in SUBSET Nat, S # {}
  PROVE  \E m \in S : \A x \in S : m <= x
<1>1. PICK m \in S : \A x \in S : <<x, m>> \notin OpToRel(<, Nat)
  BY WFMin, NatLessThanWellFounded, Zenon
<1>2. \A x \in S : ~(x < m)
  BY <1>1, Zenon DEF OpToRel
<1> QED BY <1>2

LEMMA HasLargest ==
  ASSUME NEW S \in SUBSET Nat, S # {}, NEW b \in Nat, \A x \in S : x <= b
  PROVE  \E m \in S : \A x \in S : x <= m
<1> DEFINE T == {n \in Nat : b - n \in S}
<1>1. \A x \in S : b - x \in T
  OBVIOUS
<1>2. PICK m \in T : \A x \in T : m <= x
  BY <1>1, HasSmallest
<1>3. \A x \in S : x <= b - m
  BY <1>1, <1>2
<1> QED BY <1>2, <1>3

LEMMA Numbers ==
  /\ HardDeadline \in Nat /\ MaxRequests \in Nat /\ \A m \in Tiers : m \in Nat
  /\ QuietWindow \in Nat /\ QuietWindow >= 1
  /\ CrunchQuiet \in Nat /\ CrunchQuiet >= 1
  /\ Extension \in Nat /\ Extension <= QuietWindow
  /\ MaxAmount \in Nat /\ OpeningBid \in Nat
  /\ CrunchStart \in Nat /\ CrunchStart <= HardDeadline /\ AllBidDeadline \in 0 .. HardDeadline
  /\ FirstTrigger \in Nat /\ LaterTrigger \in Nat
  /\ Extension <= LaterTrigger /\ LaterTrigger <= FirstTrigger
<1>1. HardDeadline \in Nat /\ MaxRequests \in Nat
  BY AuctionConstants
<1>2. \A m \in Tiers : m \in Nat
  BY AuctionConstants
<1>3. CrunchQuiet \in Nat \ {0} /\ QuietWindow \in Nat /\ CrunchQuiet <= QuietWindow
  BY AuctionConstants
<1>4. QuietWindow >= 1 /\ CrunchQuiet >= 1
  BY <1>3
<1>5. Extension \in Nat /\ FirstTrigger \in Nat /\ LaterTrigger \in Nat
  BY AuctionConstants
<1>6. Extension <= QuietWindow /\ Extension <= LaterTrigger /\ LaterTrigger <= FirstTrigger
  BY AuctionConstants
<1>7. MaxAmount \in Nat /\ OpeningBid \in Nat
  BY AuctionConstants
<1>8. CrunchStart \in Nat /\ CrunchStart <= HardDeadline /\ AllBidDeadline \in 0 .. HardDeadline
  BY AuctionConstants
<1>9. CrunchQuiet \in Nat
  BY <1>3
<1> QED BY <1>1, <1>2, <1>3, <1>4, <1>5, <1>6, <1>7, <1>8, <1>9

\* A clock runs for its window, or to the first deadline.
LEMMA ClockEnds ==
  ASSUME NEW from \in Nat, NEW window \in Nat, NEW deadline \in Nat
  PROVE  /\ CloseAt(from, window, deadline) \in {from + window, deadline, HardDeadline}
         /\ CloseAt(from, window, deadline) <= from + window
         /\ CloseAt(from, window, deadline) <= deadline
         /\ CloseAt(from, window, deadline) \in 0 .. HardDeadline
<1>h. HardDeadline \in Nat
  BY Numbers
<1> DEFINE Ends(c) == c \in {from + window, deadline, HardDeadline}
                      /\ c <= from + window /\ c <= deadline /\ c <= HardDeadline
<1>1. \E c : Ends(c)
  <2>1. HardDeadline \in Nat
    BY AuctionConstants
  <2>2. CASE from + window <= deadline /\ from + window <= HardDeadline
    BY <2>1, <2>2
  <2>3. CASE deadline <= from + window /\ deadline <= HardDeadline
    BY <2>1, <2>3
  <2>4. CASE HardDeadline <= deadline /\ HardDeadline <= from + window
    BY <2>1, <2>4
  <2> QED BY <2>1, <2>2, <2>3, <2>4
<1>2. CloseAt(from, window, deadline) = CHOOSE c : Ends(c)
  <2>1. CloseAt(from, window, deadline) =
          CHOOSE c \in {from + window, deadline, HardDeadline} :
            c <= from + window /\ c <= deadline /\ c <= HardDeadline
    BY DEF CloseAt
  <2> QED BY <2>1
<1> HIDE DEF Ends
<1>3. Ends(CloseAt(from, window, deadline))
  BY <1>1, <1>2
<1> QED BY <1>h, <1>3 DEF Ends

\* The tier below an amount, if there is one.
LEMMA NextTier ==
  ASSUME NEW amount \in Nat, LowerTiers(amount) # {}
  PROVE  NextLower(amount) \in Nat
<1>1. \A x \in LowerTiers(amount) : x \in Nat /\ x <= amount
  BY Numbers DEF LowerTiers
<1> DEFINE S == LowerTiers(amount)
           Top(m) == m \in S /\ \A n \in S : n <= m
<1>2. \E m : Top(m)
  BY <1>1, HasLargest
<1>3. NextLower(amount) = CHOOSE m : Top(m)
  BY DEF NextLower
<1> HIDE DEF Top
<1>4. Top(NextLower(amount))
  BY <1>2, <1>3
<1> QED BY <1>1, <1>4 DEF Top

\* The last bid is the one with the highest order.
LEMMA Latest ==
  ASSUME NEW s \in Seq(BidRecords), s # << >>
  PROVE  \E i \in DOMAIN s : LatestOf(s) = s[i] /\ \A j \in DOMAIN s : s[j].order <= s[i].order
<1> DEFINE Orders == {s[i].order : i \in DOMAIN s}
           Last(i) == i \in DOMAIN s /\ \A j \in DOMAIN s : s[j].order <= s[i].order
<1>1. \A i \in DOMAIN s : s[i] \in BidRecords
  BY ElementOfSeq
<1>2. Orders \subseteq Nat /\ \A x \in Orders : x <= MaxRequests
  BY <1>1 DEF BidRecords
<1>3. Orders # {}
  <2>1. 1 \in DOMAIN s
    BY EmptySeq, LenProperties
  <2> QED BY <2>1
<1>4. \E m \in Orders : \A x \in Orders : x <= m
  BY <1>2, <1>3, HasLargest, Numbers
<1>5. \E i : Last(i)
  BY <1>4
<1>6. LatestOf(s) = s[CHOOSE i : Last(i)]
  BY DEF LatestOf
<1> HIDE DEF Last
<1>7. Last(CHOOSE i : Last(i))
  BY <1>5
<1> QED BY <1>6, <1>7 DEF Last

LEMMA LatestIsBid ==
  ASSUME bids \in Seq(BidRecords)
  PROVE  /\ LatestBid \in BidRecords \cup {NoBid}
         /\ bids = << >> <=> LatestBid = NoBid
         /\ bids # << >> => \E i \in DOMAIN bids : LatestBid = bids[i]
<1>1. CASE bids = << >>
  BY <1>1, EmptySeq DEF LatestBid, LatestOf
<1>2. CASE bids # << >>
  <2>1. PICK i \in DOMAIN bids : LatestBid = bids[i]
    BY <1>2, Latest DEF LatestBid
  <2>2. bids[i] \in BidRecords
    BY ElementOfSeq
  <2>3. NoBid \notin BidRecords
    BY DEF NoBid, BidRecords
  <2> QED BY <1>2, <2>1, <2>2, <2>3
<1> QED BY <1>1, <1>2

\* A bid that commits is the latest, or the one that was still is.
LEMMA LatestAfter ==
  ASSUME bids \in Seq(BidRecords), NEW bid \in BidRecords, bids' = Append(bids, bid),
         \A i, j \in DOMAIN bids : bids[i].order = bids[j].order => i = j
  PROVE  LatestBid' \in {LatestBid, bid}
<1>1. /\ bids' \in Seq(BidRecords) /\ bids' # << >> /\ Len(bids) \in Nat
      /\ Len(bids') = Len(bids) + 1 /\ bids'[Len(bids) + 1] = bid
      /\ \A i \in 1 .. Len(bids) : bids'[i] = bids[i]
      /\ DOMAIN bids = 1 .. Len(bids) /\ DOMAIN bids' = 1 .. Len(bids) + 1
  BY AppendProperties, LenProperties, EmptySeq
<1>2. PICK k \in DOMAIN bids' :
        LatestBid' = bids'[k] /\ \A j \in DOMAIN bids' : bids'[j].order <= bids'[k].order
  BY <1>1, Latest DEF LatestBid
<1>3. CASE k = Len(bids) + 1
  BY <1>1, <1>2, <1>3
<1>4. CASE k # Len(bids) + 1
  <2>1. k \in DOMAIN bids /\ LatestBid' = bids[k] /\ bids # << >>
    BY <1>1, <1>2, <1>4, EmptySeq
  <2>2. PICK i \in DOMAIN bids : LatestBid = bids[i] /\ \A j \in DOMAIN bids : bids[j].order <= bids[i].order
    BY <2>1, Latest DEF LatestBid
  <2>3. bids[i] \in BidRecords /\ bids[k] \in BidRecords
    BY <2>1, ElementOfSeq
  <2>4. bids[i].order <= bids[k].order /\ bids[k].order <= bids[i].order
    BY <1>1, <1>2, <2>1, <2>2
  <2>5. bids[i].order \in Int /\ bids[k].order \in Int
    BY <2>3 DEF BidRecords
  <2>6. bids[i].order = bids[k].order
    BY <2>4, <2>5
  <2> QED BY <2>1, <2>2, <2>6
<1> QED BY <1>3, <1>4

-----------------------------------------------------------------------------
(* Types, numbers and locks are kept *)

LEMMA SettingIs ==
  ASSUME setting \in Settings
  PROVE  /\ setting.kind \in CarrySalaryKinds \cup {"FreeAgent"} /\ setting.inSeason \in BOOLEAN
         /\ setting.ticks \subseteq Ticks /\ setting.failures \in Nat
<1>1. setting \in Setting
  BY AuctionConstants
<1> QED BY <1>1 DEF Setting

LEMMA SoundInit == Init => Sound
<1> SUFFICES ASSUME Init
             PROVE  Sound
  OBVIOUS
<1>c. /\ HardDeadline \in Nat /\ QuietWindow \in Nat /\ OpeningBid \in Nat
      /\ AllBidDeadline \in 0 .. HardDeadline /\ RequestLimit \in Nat /\ MaxRequests \in Nat
  BY Numbers, AuctionConstants
<1>i. \A b \in Bidders : request[b].pc = "idle"
  BY DEF Init, IdleRequest
<1>t. \A t \in Ticks : tick[t].pc = "off"
  BY DEF Init, IdleTick
<1>1. Typed
  <2>1. setting \in Settings /\ setting.failures \in Nat
    BY SettingIs DEF Init
  <2>2. allBid \in 0 .. HardDeadline /\ closeAt \in 0 .. HardDeadline
    BY <1>c DEF Init, FirstAllBid
  <2>3. IdleRequest \in RequestStates /\ IdleTick \in TickStates
    BY <1>c DEF IdleRequest, RequestStates, IdleTick, TickStates, TickPCs
  <2> QED BY <1>c, <2>1, <2>2, <2>3 DEF Init, Typed
<1>2. Numbered
  BY <1>i DEF Init, Numbered, Active
<1>3. Locked
  BY <1>i DEF Locked
<1>4. Claimed
  BY <1>t, AuctionConstants DEF Init, Claimed
<1>5. Stages
  BY <1>t DEF Stages
<1> QED BY <1>1, <1>2, <1>3, <1>4, <1>5 DEF Sound

\* Bid transactions, one by one.
LEMMA BidsSound ==
  ASSUME Sound, NEW b \in Bidders,
         BidStep(b) \/ \E amount \in 1 .. MaxAmount : BeginBid(b, amount)
  PROVE  Sound'
<1> USE DEF Sound
<1>t. Typed /\ setting.failures \in Nat
  BY SettingIs DEF Typed
<1>s. ASSUME UNCHANGED <<setting, status, tick, claim>>
      PROVE  Claimed' /\ Stages'
  BY <1>s DEF Claimed, Stages, OnLadder, LowerTiers, InCrunch
<1>1. ASSUME NEW amount \in 1 .. MaxAmount, BeginBid(b, amount)
      PROVE  Sound'
  <2> DEFINE bid == [team |-> b, amount |-> amount, at |-> now, order |-> begun + 1]
  <2>1. /\ request' = [request EXCEPT ![b] = [pc |-> "begun", bid |-> bid]]
        /\ begun' = begun + 1 /\ begun < MaxRequests /\ request[b].pc = "idle"
        /\ UNCHANGED <<now, setting, row, bids, tick, claim, settledOn, failed>>
    BY <1>1 DEF BeginBid
  <2>2. begun \in Nat /\ MaxRequests \in Nat /\ begun + 1 \in 1 .. MaxRequests /\ now \in Nat
    BY <1>t, <2>1, Numbers DEF Typed
  <2>3. bid \in BidRecords
    BY <2>2 DEF BidRecords
  <2>4. bid.order = begun + 1
    OBVIOUS
  <2> HIDE DEF bid
  <2>5. /\ request'[b] = [pc |-> "begun", bid |-> bid]
        /\ \A c \in Bidders \ {b} : request'[c] = request[c]
    BY <1>t, <2>1 DEF Typed
  <2>6. Typed'
    BY <1>t, <2>1, <2>2, <2>3 DEF Typed, RequestStates, row
  <2>7. Numbered'
    <3>1. \A i \in DOMAIN bids : bids[i] \in BidRecords
      BY <1>t, ElementOfSeq DEF Typed
    <3>2. \A i \in DOMAIN bids : bids[i].order \in Int
      BY <3>1 DEF BidRecords
    <3>3. \A c \in Bidders \ {b} : Active(c) => request[c].bid.order \in Int
      BY <1>t DEF Numbered, BidRecords
    <3> QED BY <2>1, <2>2, <2>3, <2>4, <2>5, <3>2, <3>3 DEF Numbered, Active
  <2>8. Locked'
    BY <2>1, <2>5 DEF Locked, Acceptable, row, LatestBid, BigEnough
  <2> QED BY <1>s, <2>1, <2>6, <2>7, <2>8 DEF row
<1>2. ASSUME EndRequest(b)
      PROVE  Sound'
  <2>1. /\ request'[b] = IdleRequest
        /\ \A c \in Bidders \ {b} : request'[c] = request[c]
        /\ UNCHANGED <<now, setting, row, bids, begun, tick, claim, settledOn, failed>>
    BY <1>t, <1>2 DEF EndRequest, Typed
  <2>2. IdleRequest \in RequestStates /\ IdleRequest.pc = "idle"
    BY DEF IdleRequest, RequestStates
  <2>3. Typed'
    BY <1>t, <1>2, <2>1, <2>2 DEF EndRequest, Typed, row
  <2>4. Numbered' /\ Locked'
    BY <2>1, <2>2 DEF Numbered, Active, Locked, Acceptable, row, LatestBid, BigEnough
  <2> QED BY <1>s, <2>1, <2>3, <2>4 DEF row
<1>3. ASSUME PlaceBid(b)
      PROVE  Sound'
  <2>1. /\ request' = [request EXCEPT ![b].pc = "placed"] /\ RowFree /\ Acceptable(b)
        /\ request[b].pc = "begun"
        /\ UNCHANGED <<now, setting, row, bids, begun, tick, claim, settledOn, failed>>
    BY <1>3 DEF PlaceBid
  <2>2. /\ request' \in [Bidders -> RequestStates]
        /\ request'[b].pc = "placed" /\ request'[b].bid = request[b].bid
        /\ \A c \in Bidders \ {b} : request'[c] = request[c]
    BY <1>t, <2>1 DEF Typed, RequestStates
  <2>3. Typed'
    BY <1>t, <2>1, <2>2 DEF Typed, row
  <2>4. Numbered'
    BY <2>1, <2>2 DEF Numbered, Active
  <2>5. Locked'
    BY <2>1, <2>2 DEF Locked, Acceptable, row, LatestBid, BigEnough, RowFree
  <2> QED BY <1>s, <2>1, <2>3, <2>4, <2>5 DEF row
<1>4. ASSUME CommitBid(b)
      PROVE  Sound'
  <2> DEFINE bid == request[b].bid
  <2>1. /\ request[b].pc = "placed" /\ bids' = Append(bids, bid)
        /\ allBid' = Rolled(bid.at) /\ closeAt' = CloseAt(bid.at, QuietAt(bid.at), allBid')
        /\ request' = [request EXCEPT ![b] = IdleRequest]
        /\ UNCHANGED <<now, setting, status, minBid, updatedAt, begun, tick, claim, settledOn, failed>>
    BY <1>4 DEF CommitBid
  <2>2. bid \in BidRecords /\ bid.at \in Nat /\ bid.order <= begun
        /\ \A i \in DOMAIN bids : bids[i].order # bid.order
    BY <2>1 DEF Numbered, Active, BidRecords
  <2> HIDE DEF bid
  <2>3. /\ bids' \in Seq(BidRecords) /\ Len(bids) \in Nat
        /\ bids'[Len(bids) + 1] = bid /\ \A i \in 1 .. Len(bids) : bids'[i] = bids[i]
        /\ DOMAIN bids = 1 .. Len(bids) /\ DOMAIN bids' = 1 .. Len(bids) + 1
    BY <1>t, <2>1, <2>2, AppendProperties, LenProperties DEF Typed
  <2>4. /\ request'[b] = IdleRequest
        /\ \A c \in Bidders \ {b} : request'[c] = request[c]
    BY <1>t, <2>1 DEF Typed
  <2>5. IdleRequest \in RequestStates /\ IdleRequest.pc = "idle"
    BY DEF IdleRequest, RequestStates
  <2>6. allBid' \in 0 .. HardDeadline
    BY <1>t, <2>1, <2>2, Numbers DEF Typed, Rolled
  <2>7. QuietAt(bid.at) \in Nat
    BY Numbers DEF QuietAt
  <2>8. closeAt' \in 0 .. HardDeadline
    <3>1. allBid' \in Nat
      BY <2>6, Numbers
    <3> QED BY <2>1, <2>2, <2>7, <3>1, ClockEnds
  <2>9. Typed'
    BY <1>t, <2>1, <2>3, <2>5, <2>6, <2>8 DEF Typed
  <2>10. Numbered'
    <3>1. \A i \in DOMAIN bids' : i \in DOMAIN bids \/ i = Len(bids) + 1
      BY <2>3
    <3>2. \A c \in Bidders \ {b} : Active(c) => request[c].bid.order # bid.order
      BY <2>1 DEF Numbered, Active, bid
    <3> QED BY <2>1, <2>2, <2>3, <2>4, <2>5, <3>1, <3>2 DEF Numbered, Active
  <2>11. Locked'
    BY <2>1, <2>4, <2>5 DEF Locked
  <2> QED BY <1>s, <2>1, <2>9, <2>10, <2>11
<1> QED BY <1>1, <1>2, <1>3, <1>4 DEF BidStep

\* A tick goes on to one of the places pcs, and no other moves.
Goes(t, pcs) ==
  /\ tick' \in [Ticks -> TickStates]
  /\ tick'[t].pc \in pcs /\ tick'[t].at = tick[t].at
  /\ \A u \in Ticks \ {t} : tick'[u] = tick[u]

LEMMA Starts ==
  ASSUME Sound, NEW t \in Ticks, StartTick(t)
  PROVE  /\ tick' \in [Ticks -> TickStates] /\ tick'[t].pc = "slide" /\ tick'[t].at = now
         /\ \A u \in Ticks \ {t} : tick'[u] = tick[u]
<1>1. IdleTick \in TickStates /\ now \in Nat
  BY Numbers DEF Sound, Typed, IdleTick, TickStates, TickPCs
<1> QED BY <1>1 DEF Sound, Typed, StartTick, Go, TickStates, TickPCs

LEMMA Lists ==
  ASSUME Sound, NEW t \in Ticks
  PROVE  /\ ListUnbid(t) =>
              \/ /\ Goes(t, {"slideWrite"}) /\ Slidable(tick[t].at)
                 /\ LowerTiers(minBid) # {} /\ tick'[t].minBid = minBid
              \/ Goes(t, {"crunch"}) /\ ~(Slidable(tick[t].at) /\ LowerTiers(minBid) # {})
         /\ ListOpen(t) =>
              \/ Goes(t, {"crunchBid"}) /\ InCrunch(tick[t].at) /\ status = "Open"
              \/ Goes(t, {"due"})
         /\ ListDue(t) => (Goes(t, {"claim"}) /\ Due(tick[t].at)) \/ Goes(t, {"off"})
<1>1. /\ tick \in [Ticks -> TickStates] /\ minBid \in Nat
      /\ closeAt \in 0 .. HardDeadline /\ 0 \in 0 .. HardDeadline
  BY Numbers DEF Sound, Typed
<1>2. ASSUME ListUnbid(t)
      PROVE  \/ /\ Goes(t, {"slideWrite"}) /\ Slidable(tick[t].at)
                /\ LowerTiers(minBid) # {} /\ tick'[t].minBid = minBid
             \/ Goes(t, {"crunch"}) /\ ~(Slidable(tick[t].at) /\ LowerTiers(minBid) # {})
  <2>1. CASE Slidable(tick[t].at) /\ LowerTiers(minBid) # {}
    <3>1. tick' = [tick EXCEPT ![t] = [At(t, "slideWrite") EXCEPT !.minBid = minBid]]
      BY <1>2, <2>1 DEF ListUnbid, Go
    <3> QED BY <1>1, <2>1, <3>1 DEF At, Goes, TickStates, TickPCs
  <2>2. CASE ~(Slidable(tick[t].at) /\ LowerTiers(minBid) # {})
    <3>1. tick' = [tick EXCEPT ![t] = At(t, "crunch")]
      BY <1>2, <2>2 DEF ListUnbid, Go
    <3> QED BY <1>1, <2>2, <3>1 DEF At, Goes, TickStates, TickPCs
  <2> QED BY <2>1, <2>2
<1>3. ASSUME ListOpen(t)
      PROVE  \/ Goes(t, {"crunchBid"}) /\ InCrunch(tick[t].at) /\ status = "Open"
             \/ Goes(t, {"due"})
  <2>1. CASE InCrunch(tick[t].at) /\ status = "Open"
    <3>1. tick' = [tick EXCEPT ![t] = [At(t, "crunchBid") EXCEPT !.closeAt = closeAt]]
      BY <1>3, <2>1 DEF ListOpen, Go
    <3> QED BY <1>1, <2>1, <3>1 DEF At, Goes, TickStates, TickPCs
  <2>2. CASE ~(InCrunch(tick[t].at) /\ status = "Open")
    <3>1. tick' = [tick EXCEPT ![t] = At(t, "due")]
      BY <1>3, <2>2 DEF ListOpen, Go
    <3> QED BY <1>1, <3>1 DEF At, Goes, TickStates, TickPCs
  <2> QED BY <2>1, <2>2
<1>4. ASSUME ListDue(t)
      PROVE  (Goes(t, {"claim"}) /\ Due(tick[t].at)) \/ Goes(t, {"off"})
  <2>1. CASE Due(tick[t].at)
    <3>1. tick' = [tick EXCEPT ![t] = At(t, "claim")]
      BY <1>4, <2>1 DEF ListDue, Go
    <3> QED BY <1>1, <2>1, <3>1 DEF At, Goes, TickStates, TickPCs
  <2>2. CASE ~Due(tick[t].at)
    <3>1. tick' = [tick EXCEPT ![t] = Over(t)]
      BY <1>4, <2>2 DEF ListDue, Go
    <3> QED BY <1>1, <3>1 DEF Over, IdleTick, NoBid, Goes, TickStates, TickPCs
  <2> QED BY <2>1, <2>2
<1> QED BY <1>2, <1>3, <1>4

LEMMA SweepsOn ==
  ASSUME Sound, NEW t \in Ticks
  PROVE  /\ SlideWrite(t) => Goes(t, {"crunch"})
         /\ ReadCrunchBid(t) =>
              \/ /\ Goes(t, {"crunchWrite"}) /\ LatestBid # NoBid
                 /\ tick'[t].closeAt = CloseAt(LatestBid.at, CrunchQuiet, HardDeadline)
              \/ Goes(t, {"due"})
         /\ CrunchWrite(t) => Goes(t, {"due"})
         /\ SweepFails(t) => Goes(t, {"due"})
<1>1. tick \in [Ticks -> TickStates] /\ IdleTick \in TickStates /\ 0 \in 0 .. HardDeadline
  BY Numbers DEF Sound, Typed, IdleTick, TickStates, TickPCs
<1>2. ASSUME SlideWrite(t)
      PROVE  Goes(t, {"crunch"})
  <2>1. tick' = [tick EXCEPT ![t] = [At(t, "crunch") EXCEPT !.minBid = 0]]
    BY <1>2 DEF SlideWrite, Go
  <2> QED BY <1>1, <2>1 DEF At, Goes, TickStates, TickPCs
<1>3. ASSUME ReadCrunchBid(t)
      PROVE  \/ /\ Goes(t, {"crunchWrite"}) /\ LatestBid # NoBid
                /\ tick'[t].closeAt = CloseAt(LatestBid.at, CrunchQuiet, HardDeadline)
             \/ Goes(t, {"due"})
  <2>1. CASE LatestBid # NoBid /\ ShortenedTo(t) < tick[t].closeAt
    <3>1. tick' = [tick EXCEPT ![t] = [At(t, "crunchWrite") EXCEPT !.closeAt = ShortenedTo(t)]]
      BY <1>3, <2>1 DEF ReadCrunchBid, Go
    <3>2. ShortenedTo(t) \in 0 .. HardDeadline
      <4>1. LatestBid.at \in Nat
        BY <2>1, LatestIsBid DEF Sound, Typed, BidRecords
      <4> QED BY <4>1, Numbers, ClockEnds DEF ShortenedTo
    <3> QED BY <1>1, <2>1, <3>1, <3>2 DEF At, Goes, TickStates, TickPCs, ShortenedTo
  <2>2. CASE ~(LatestBid # NoBid /\ ShortenedTo(t) < tick[t].closeAt)
    <3>1. tick' = [tick EXCEPT ![t] = [At(t, "due") EXCEPT !.closeAt = 0]]
      BY <1>3, <2>2 DEF ReadCrunchBid, Go
    <3> QED BY <1>1, <3>1 DEF At, Goes, TickStates, TickPCs
  <2> QED BY <2>1, <2>2
<1>4. ASSUME CrunchWrite(t)
      PROVE  Goes(t, {"due"})
  <2>1. tick' = [tick EXCEPT ![t] = [At(t, "due") EXCEPT !.closeAt = 0]]
    BY <1>4 DEF CrunchWrite, Go
  <2> QED BY <1>1, <2>1 DEF At, Goes, TickStates, TickPCs
<1>5. ASSUME SweepFails(t)
      PROVE  Goes(t, {"due"})
  <2>1. tick' = [tick EXCEPT ![t] = [IdleTick EXCEPT !.pc = "due", !.at = tick[t].at]]
    BY <1>5 DEF SweepFails, Go
  <2> QED BY <1>1, <2>1 DEF Goes, TickStates, TickPCs
<1> QED BY <1>2, <1>3, <1>4, <1>5

LEMMA Closes ==
  ASSUME Sound, NEW t \in Ticks
  PROVE  /\ ClaimClose(t) =>
              \/ /\ Goes(t, {"settle"}) /\ tick'[t].bid = LatestBid
                 /\ claim = NoTick /\ status = "Open" /\ claim' = t
              \/ Goes(t, {"off"}) /\ claim' = claim
         /\ Settle(t) \/ CloseFails(t) => Goes(t, {"off"}) /\ tick[t].pc = "settle" /\ claim' = NoTick
<1>1. /\ tick \in [Ticks -> TickStates] /\ IdleTick \in TickStates /\ 0 \in 0 .. HardDeadline
      /\ LatestBid \in BidRecords \cup {NoBid}
  BY LatestIsBid, Numbers DEF Sound, Typed, IdleTick, TickStates, TickPCs
<1>2. ASSUME tick' = [tick EXCEPT ![t] = Over(t)]
      PROVE  Goes(t, {"off"})
  BY <1>1, <1>2 DEF Over, IdleTick, NoBid, Goes, TickStates, TickPCs
<1>3. ASSUME ClaimClose(t)
      PROVE  \/ /\ Goes(t, {"settle"}) /\ tick'[t].bid = LatestBid
                /\ claim = NoTick /\ status = "Open" /\ claim' = t
             \/ Goes(t, {"off"}) /\ claim' = claim
  <2>1. CASE /\ claim = NoTick /\ status = "Open" /\ claim' = t
             /\ tick' = [tick EXCEPT ![t] = [At(t, "settle") EXCEPT !.bid = LatestBid]]
    BY <1>1, <2>1 DEF At, Goes, TickStates, TickPCs
  <2>2. CASE tick' = [tick EXCEPT ![t] = Over(t)] /\ claim' = claim
    BY <1>2, <2>2
  <2> QED BY <1>3, <2>1, <2>2 DEF ClaimClose, Go
<1> QED BY <1>2, <1>3 DEF Settle, CloseFails, Go

\* Bids are left alone by ticks; who writes the row waits until it is free.
LEMMA BidsUndisturbed ==
  ASSUME Sound, UNCHANGED <<bids, request, begun>>, UNCHANGED row \/ RowFree
  PROVE  Numbered' /\ Locked'
<1>1. Numbered'
  BY DEF Sound, Numbered, Active
<1>2. CASE UNCHANGED row
  BY <1>1, <1>2 DEF Sound, Locked, Acceptable, row, LatestBid, BigEnough
<1>3. CASE RowFree
  BY <1>1, <1>3 DEF RowFree, Locked
<1> QED BY <1>2, <1>3

\* A tick that comes to a place keeps what holds of the places if it holds of its own.
LEMMA PlaceKept ==
  ASSUME Sound, NEW t \in Ticks, NEW pcs, Goes(t, pcs), tick[t].pc # "off", "settle" \notin pcs,
         tick[t].pc # "settle", UNCHANGED <<setting, status, claim>>,
         tick'[t].pc = "slideWrite" => OnLadder /\ LowerTiers(tick'[t].minBid) # {},
         tick'[t].pc \in {"crunchBid", "crunchWrite"} => InCrunch(tick[t].at)
  PROVE  Claimed' /\ Stages'
<1>p. /\ tick'[t].pc # "settle" /\ tick'[t].at = tick[t].at
      /\ \A u \in Ticks \ {t} : tick'[u] = tick[u]
      /\ setting' = setting /\ status' = status /\ claim' = claim
  BY DEF Goes
<1>1. Claimed'
  BY <1>p DEF Sound, Claimed
<1>2. Stages'
  BY <1>p DEF Sound, Stages, OnLadder, LowerTiers, InCrunch
<1> QED BY <1>1, <1>2

LEMMA TicksSound ==
  ASSUME Sound, NEW t \in Ticks, StartTick(t) \/ TickStep(t) \/ SweepFails(t) \/ CloseFails(t)
  PROVE  Sound'
<1> USE DEF Sound
<1>t. /\ Typed /\ Claimed /\ Stages /\ HardDeadline \in Nat
      /\ setting.failures \in Nat /\ setting.ticks \subseteq Ticks
  BY SettingIs, Numbers DEF Typed
<1>1. CASE StartTick(t)
  <2>1. /\ tick[t].pc = "off" /\ t \in setting.ticks
        /\ UNCHANGED <<now, setting, row, bids, request, begun, claim, settledOn, failed>>
    BY <1>1 DEF StartTick
  <2>2. Typed'
    BY <1>1, <1>t, <2>1, Starts DEF Typed, row
  <2>3. Claimed'
    BY <1>1, <1>t, <2>1, Starts DEF Claimed, row
  <2>4. Stages'
    BY <1>1, <1>t, <2>1, Starts DEF Stages, Typed, OnLadder, LowerTiers, InCrunch
  <2> QED BY <2>1, <2>2, <2>3, <2>4, BidsUndisturbed

\* Steps that only move the tick.
<1>2. ASSUME NEW pcs, Goes(t, pcs), "settle" \notin pcs, tick[t].pc # "off", tick[t].pc # "settle",
             UNCHANGED <<now, setting, row, bids, request, begun, claim, settledOn>>,
             failed' = failed \/ (failed' = failed + 1 /\ failed < setting.failures),
             tick'[t].pc = "slideWrite" => OnLadder /\ LowerTiers(tick'[t].minBid) # {},
             tick'[t].pc \in {"crunchBid", "crunchWrite"} => InCrunch(tick[t].at)
      PROVE  Sound'
  <2>1. Typed'
    BY <1>2, <1>t DEF Typed, row, Goes
  <2>2. Claimed' /\ Stages'
    BY <1>2, PlaceKept DEF row
  <2> QED BY <1>2, <2>1, <2>2, BidsUndisturbed
<1>3. CASE ListUnbid(t)
  <2>1. /\ tick[t].pc = "slide"
        /\ UNCHANGED <<now, setting, row, bids, request, begun, claim, settledOn, failed>>
    BY <1>3 DEF ListUnbid
  <2>2. \/ Goes(t, {"slideWrite"}) /\ OnLadder /\ LowerTiers(tick'[t].minBid) # {}
        \/ Goes(t, {"crunch"})
    BY <1>3, Lists DEF Slidable
  <2> QED BY <1>2, <2>1, <2>2 DEF Goes
<1>4. CASE ListOpen(t)
  <2>1. /\ tick[t].pc = "crunch"
        /\ UNCHANGED <<now, setting, row, bids, request, begun, claim, settledOn, failed>>
    BY <1>4 DEF ListOpen
  <2>2. (Goes(t, {"crunchBid"}) /\ InCrunch(tick[t].at)) \/ Goes(t, {"due"})
    BY <1>4, Lists
  <2> QED BY <1>2, <2>1, <2>2 DEF Goes
<1>5. CASE ReadCrunchBid(t)
  <2>1. /\ tick[t].pc = "crunchBid"
        /\ UNCHANGED <<now, setting, row, bids, request, begun, claim, settledOn, failed>>
    BY <1>5 DEF ReadCrunchBid
  <2>2. Goes(t, {"crunchWrite"}) \/ Goes(t, {"due"})
    BY <1>5, SweepsOn
  <2>3. InCrunch(tick[t].at)
    BY <1>t, <2>1 DEF Stages
  <2> QED BY <1>2, <2>1, <2>2, <2>3 DEF Goes
<1>6. CASE SweepFails(t)
  <2>1. /\ tick[t].pc \in {"slide", "slideWrite", "crunch", "crunchBid", "crunchWrite"}
        /\ failed < setting.failures /\ failed' = failed + 1
        /\ UNCHANGED <<now, setting, row, bids, request, begun, claim, settledOn>>
    BY <1>6 DEF SweepFails
  <2>2. Goes(t, {"due"})
    BY <1>6, SweepsOn
  <2> QED BY <1>2, <2>1, <2>2 DEF Goes
<1>7. CASE ListDue(t)
  <2>1. /\ tick[t].pc = "due"
        /\ UNCHANGED <<now, setting, row, bids, request, begun, claim, settledOn, failed>>
    BY <1>7 DEF ListDue
  <2>2. Goes(t, {"claim"}) \/ Goes(t, {"off"})
    BY <1>7, Lists
  <2> QED BY <1>2, <2>1, <2>2 DEF Goes
<1>8. CASE ClaimClose(t)
  <2>1. /\ tick[t].pc = "claim"
        /\ UNCHANGED <<now, setting, row, bids, request, begun, settledOn, failed>>
    BY <1>8 DEF ClaimClose
  <2>2. CASE Goes(t, {"off"}) /\ claim' = claim
    BY <1>2, <2>1, <2>2 DEF Goes
  <2>3. CASE Goes(t, {"settle"}) /\ claim = NoTick /\ status = "Open" /\ claim' = t
    <3>1. Typed'
      BY <1>t, <2>1, <2>3 DEF Typed, row, Goes
    <3>2. Claimed'
      BY <1>t, <2>1, <2>3, AuctionConstants DEF Claimed, row, Goes
    <3>3. Stages'
      BY <1>t, <2>1, <2>3 DEF Stages, Goes, OnLadder, LowerTiers, InCrunch
    <3> QED BY <2>1, <3>1, <3>2, <3>3, BidsUndisturbed
  <2> QED BY <1>8, <2>2, <2>3, Closes
<1>9. CASE CloseFails(t)
  <2>1. /\ failed < setting.failures /\ failed' = failed + 1
        /\ UNCHANGED <<now, setting, row, bids, request, begun, settledOn>>
    BY <1>9 DEF CloseFails
  <2>2. Goes(t, {"off"}) /\ tick[t].pc = "settle" /\ claim' = NoTick
    BY <1>9, Closes
  <2>3. Typed'
    BY <1>t, <2>1, <2>2 DEF Typed, row, Goes
  <2>4. Claimed'
    BY <1>t, <2>1, <2>2, AuctionConstants DEF Claimed, row, Goes
  <2>5. Stages'
    BY <1>t, <2>1, <2>2 DEF Stages, Goes, OnLadder, LowerTiers, InCrunch
  <2> QED BY <2>1, <2>3, <2>4, <2>5, BidsUndisturbed
<1>10. CASE SlideWrite(t)
  <2>1. /\ tick[t].pc = "slideWrite" /\ RowFree
        /\ minBid' = NextLower(tick[t].minBid) /\ updatedAt' = now
        /\ closeAt' = CloseAt(tick[t].at, QuietWindow, HardDeadline)
        /\ UNCHANGED <<now, setting, status, allBid, bids, request, begun, claim, settledOn, failed>>
    BY <1>10 DEF SlideWrite
  <2>2. Goes(t, {"crunch"})
    BY <1>10, SweepsOn
  <2>3. minBid' \in Nat
    BY <1>t, <2>1, NextTier DEF Stages, Typed, TickStates
  <2>4. closeAt' \in 0 .. HardDeadline
    BY <1>t, <2>1, ClockEnds, Numbers DEF Stages
  <2>5. Typed'
    BY <1>t, <2>1, <2>2, <2>3, <2>4 DEF Typed, Goes
  <2> QED BY <2>1, <2>2, <2>5, PlaceKept, BidsUndisturbed DEF Goes
<1>11. CASE CrunchWrite(t)
  <2>1. /\ tick[t].pc = "crunchWrite" /\ RowFree /\ closeAt' = tick[t].closeAt
        /\ UNCHANGED <<now, setting, status, minBid, updatedAt, allBid, bids, request, begun, claim,
                       settledOn, failed>>
    BY <1>11 DEF CrunchWrite
  <2>2. Goes(t, {"due"})
    BY <1>11, SweepsOn
  <2>3. Typed'
    BY <1>t, <2>1, <2>2 DEF Typed, Goes, TickStates
  <2> QED BY <2>1, <2>2, <2>3, PlaceKept, BidsUndisturbed DEF Goes
<1>12. CASE Settle(t)
  <2>1. /\ RowFree /\ status' = StatusAfter(tick[t].bid) /\ settledOn' = tick[t].bid
        /\ UNCHANGED <<now, setting, closeAt, minBid, updatedAt, allBid, bids, request, begun, failed>>
    BY <1>12 DEF Settle
  <2>2. Goes(t, {"off"}) /\ tick[t].pc = "settle" /\ claim' = NoTick
    BY <1>12, Closes
  <2>3. status' \in {"Closed", "Expired", "Completed"}
    BY <2>1 DEF StatusAfter
  <2>4. Typed'
    BY <1>t, <2>1, <2>2, <2>3 DEF Typed, Goes, TickStates
  <2>5. Claimed'
    BY <1>t, <2>1, <2>2, AuctionConstants DEF Claimed, Goes
  <2>6. Stages'
    BY <1>t, <2>1, <2>2 DEF Stages, Goes, OnLadder, LowerTiers, InCrunch
  <2> QED BY <2>1, <2>4, <2>5, <2>6, BidsUndisturbed
<1> QED
  BY <1>1, <1>3, <1>4, <1>5, <1>6, <1>7, <1>8, <1>9, <1>10, <1>11, <1>12
     DEF TickStep, SettleAuction, SettleInSeason

LEMMA SoundStep == Sound /\ [Next]_vars => Sound'
<1> SUFFICES ASSUME Sound, [Next]_vars
             PROVE  Sound'
  OBVIOUS
<1>1. CASE PassTime
  <2>1. /\ now < HardDeadline /\ now' = now + 1
        /\ UNCHANGED <<setting, row, bids, request, begun, tick, claim, settledOn, failed>>
    BY <1>1 DEF PassTime
  <2>2. Typed'
    BY <2>1, Numbers DEF Sound, Typed, row
  <2>3. Claimed' /\ Stages'
    BY <2>1 DEF Sound, Claimed, Stages, row, OnLadder, LowerTiers, InCrunch
  <2> QED BY <2>1, <2>2, <2>3, BidsUndisturbed DEF Sound
<1>2. CASE UNCHANGED vars
  <2>1. Typed' /\ Claimed' /\ Stages'
    BY <1>2 DEF vars, row, Sound, Typed, Claimed, Stages, OnLadder, LowerTiers, InCrunch
  <2> QED BY <1>2, <2>1, BidsUndisturbed DEF vars, Sound
<1> QED BY <1>1, <1>2, BidsSound, TicksSound DEF Next

\* The auction's row, its bids and what requests and ticks have read keep their types; bids have
\* numbers of their own, one transaction at a time has the row (place_auction_bid's FOR UPDATE),
\* and one tick at a time settles the auction.
THEOREM AuctionTyped == Spec => []TypeOK
<1>1. Sound => TypeOK
  BY Numbers, ElementOfSeq
     DEF Sound, Typed, Numbered, Locked, Claimed, TypeOK, RequestStates, TickStates
<1> QED BY <1>1, SoundInit, SoundStep, PTL DEF Spec

-----------------------------------------------------------------------------
(* The steps, by what they change *)

\* A transaction that begins, gets the row or ends without a bid, or nothing at all.
Still == UNCHANGED <<now, setting, row, bids, tick, claim, settledOn, failed>>
\* What of the auction no tick changes that only reads.
Read == UNCHANGED <<now, setting, row, bids, request, settledOn>>
Reads(t) ==
  \/ StartTick(t) \/ ListUnbid(t) \/ ListOpen(t) \/ ReadCrunchBid(t) \/ SweepFails(t)
  \/ ListDue(t) \/ ClaimClose(t) \/ CloseFails(t)

LEMMA Steps ==
  ASSUME [Next]_vars
  PROVE  \/ Still \/ PassTime
         \/ \E b \in Bidders : CommitBid(b)
         \/ \E t \in Ticks : (Reads(t) /\ Read) \/ SlideWrite(t) \/ CrunchWrite(t) \/ Settle(t)
<1>1. ASSUME NEW b \in Bidders, NEW amount \in 1 .. MaxAmount, BeginBid(b, amount)
      PROVE  Still
  BY <1>1 DEF BeginBid, Still
<1>2. ASSUME NEW b \in Bidders, BidStep(b)
      PROVE  Still \/ CommitBid(b)
  BY <1>2 DEF BidStep, PlaceBid, EndRequest, Still
<1>3. ASSUME NEW t \in Ticks, Reads(t)
      PROVE  Read
  BY <1>3 DEF Reads, Read, StartTick, ListUnbid, ListOpen, ReadCrunchBid, SweepFails, ListDue, ClaimClose,
     CloseFails
<1>4. ASSUME NEW t \in Ticks, StartTick(t) \/ TickStep(t) \/ SweepFails(t) \/ CloseFails(t)
      PROVE  Reads(t) \/ SlideWrite(t) \/ CrunchWrite(t) \/ Settle(t)
  BY <1>4 DEF TickStep, Reads, SettleAuction, SettleInSeason
<1>5. UNCHANGED vars => Still
  BY DEF vars, Still
<1> QED BY <1>1, <1>2, <1>3, <1>4, <1>5 DEF Next

\* What may happen to a tick in a step, whoever takes it.
LEMMA TicksGo ==
  ASSUME Sound, NEW t \in Ticks, Reads(t)
  PROVE  /\ tick'[t].pc \in TickPCs
         /\ tick'[t].at = IF tick[t].pc = "off" THEN now ELSE tick[t].at
         /\ \A u \in Ticks \ {t} : tick'[u] = tick[u]
<1>1. CASE StartTick(t)
  <2>1. tick[t].pc = "off"
    BY <1>1 DEF StartTick
  <2> QED BY <1>1, <2>1, Starts DEF TickPCs
<1>2. ASSUME NEW pcs, Goes(t, pcs), tick[t].pc # "off"
      PROVE  /\ tick'[t].pc \in TickPCs
             /\ tick'[t].at = IF tick[t].pc = "off" THEN now ELSE tick[t].at
             /\ \A u \in Ticks \ {t} : tick'[u] = tick[u]
  BY <1>2 DEF Goes, TickStates
<1>3. CASE ListUnbid(t) \/ ListOpen(t) \/ ListDue(t)
  <2>1. tick[t].pc # "off"
    BY <1>3 DEF ListUnbid, ListOpen, ListDue
  <2> QED BY <1>2, <1>3, <2>1, Lists
<1>4. CASE ReadCrunchBid(t) \/ SweepFails(t)
  <2>1. tick[t].pc # "off"
    BY <1>4 DEF ReadCrunchBid, SweepFails
  <2> QED BY <1>2, <1>4, <2>1, SweepsOn
<1>5. CASE ClaimClose(t) \/ CloseFails(t)
  <2>1. tick[t].pc # "off"
    BY <1>5 DEF ClaimClose, CloseFails
  <2> QED BY <1>2, <1>5, <2>1, Closes
<1> QED BY <1>1, <1>3, <1>4, <1>5 DEF Reads

\* Time passes only while nothing runs.
LEMMA AtRest ==
  ASSUME Instants, Sound, Timely, PassTime
  PROVE  (\A b \in Bidders : ~Active(b)) /\ (\A t \in Ticks : tick[t].pc = "off")
<1>1. now \in Nat /\ RequestLimit = 0
  BY Numbers DEF Sound, Typed, Instants
<1>2. ASSUME NEW b \in Bidders, Active(b)
      PROVE  FALSE
  <2>1. request[b].bid.at = now /\ now - request[b].bid.at < 0
    BY <1>1, <1>2 DEF Timely, PassTime, InTime, Active
  <2> QED BY <1>1, <2>1
<1>3. ASSUME NEW t \in Ticks, tick[t].pc # "off"
      PROVE  FALSE
  <2>1. tick[t].at = now /\ now - tick[t].at < 0
    BY <1>1, <1>3 DEF Timely, PassTime, InTime
  <2> QED BY <1>1, <2>1
<1> QED BY <1>2, <1>3

\* What a bid makes of the clocks: it is in time, and gets its window.
LEMMA Commits ==
  ASSUME Instants, Sound, Timely, NEW b \in Bidders, CommitBid(b)
  PROVE  /\ request[b].bid \in BidRecords /\ request[b].bid.at = now
         /\ bids' = Append(bids, request[b].bid)
         /\ LatestBid' \in {LatestBid, request[b].bid}
         /\ LatestBid = NoBid \/ request[b].bid.amount > LatestBid.amount
         /\ status = "Open" /\ now < closeAt
         /\ closeAt' = CloseAt(now, QuietAt(now), allBid') /\ allBid' \in Nat
         /\ IF setting.inSeason THEN allBid' >= now + Extension \/ allBid' >= HardDeadline
            ELSE allBid' = HardDeadline
         /\ UNCHANGED <<now, setting, status, minBid, updatedAt, tick, claim, settledOn, failed>>
<1> DEFINE bid == request[b].bid
<1>1. /\ request[b].pc = "placed" /\ bids' = Append(bids, bid)
      /\ allBid' = Rolled(bid.at) /\ closeAt' = CloseAt(bid.at, QuietAt(bid.at), allBid')
      /\ UNCHANGED <<now, setting, status, minBid, updatedAt, begun, tick, claim, settledOn, failed>>
  BY DEF CommitBid
<1>2. bid \in BidRecords /\ bid.at = now /\ Acceptable(b)
  BY <1>1 DEF Sound, Numbered, Locked, Timely, Active
<1>3. status = "Open" /\ now < closeAt /\ BigEnough(bid.amount, LatestBid)
  BY <1>2 DEF Acceptable
<1>4. LatestBid' \in {LatestBid, bid}
  BY <1>1, <1>2, LatestAfter DEF Sound, Typed, Numbered
<1>5. LatestBid = NoBid \/ bid.amount > LatestBid.amount
  <2>1. LatestBid \in BidRecords \cup {NoBid}
    BY LatestIsBid DEF Sound, Typed
  <2> QED BY <1>2, <1>3, <2>1 DEF BigEnough, BidRecords
<1>6. /\ now \in Nat /\ closeAt \in Nat /\ closeAt <= HardDeadline /\ allBid \in Nat
      /\ allBid <= HardDeadline /\ setting.inSeason \in BOOLEAN
  BY SettingIs, Numbers DEF Sound, Typed
<1>7. allBid' = Rolled(now)
  BY <1>1, <1>2
<1>8. /\ allBid' \in Nat
      /\ IF setting.inSeason THEN allBid' >= now + Extension \/ allBid' >= HardDeadline
         ELSE allBid' = HardDeadline
  <2>1. CASE ~setting.inSeason
    BY <1>6, <1>7, <2>1 DEF Rolled, Timely
  <2>2. CASE setting.inSeason
    <3>1. now < allBid
      BY <1>3, <1>6, <2>2 DEF Timely
    <3> QED BY <1>6, <1>7, <2>2, <3>1, Numbers DEF Rolled
  <2> QED BY <1>6, <2>1, <2>2
<1> QED BY <1>1, <1>2, <1>3, <1>4, <1>5, <1>8

LEMMA TimelyStep ==
  ASSUME Instants, Sound, Timely, [Next]_vars
  PROVE  Timely'
<1>t. Typed /\ Typed' /\ now \in Nat /\ Stages
  BY SoundStep, Numbers DEF Sound, Typed
<1>1. \A b \in Bidders : Active(b)' => request'[b].bid.at = now'
  <2>1. CASE PassTime
    BY <2>1, AtRest DEF PassTime, Active
  <2>2. ASSUME NEW b \in Bidders, NEW amount \in 1 .. MaxAmount, BeginBid(b, amount)
        PROVE  \A c \in Bidders : Active(c)' => request'[c].bid.at = now'
    BY <1>t, <2>2 DEF BeginBid, Typed, Timely, Active
  <2>3. ASSUME NEW b \in Bidders, EndRequest(b) \/ CommitBid(b)
        PROVE  \A c \in Bidders : Active(c)' => request'[c].bid.at = now'
    BY <1>t, <2>3 DEF EndRequest, CommitBid, IdleRequest, Typed, Timely, Active
  <2>4. ASSUME NEW b \in Bidders, PlaceBid(b)
        PROVE  \A c \in Bidders : Active(c)' => request'[c].bid.at = now'
    BY <1>t, <2>4 DEF PlaceBid, Typed, RequestStates, Timely, Active
  <2>5. ASSUME UNCHANGED <<now, request>>
        PROVE  \A c \in Bidders : Active(c)' => request'[c].bid.at = now'
    BY <2>5 DEF Timely, Active
  <2>6. ASSUME NEW t \in Ticks, StartTick(t) \/ TickStep(t) \/ SweepFails(t) \/ CloseFails(t)
        PROVE  UNCHANGED <<now, request>>
    BY <2>6 DEF TickStep, StartTick, ListUnbid, ListOpen, ReadCrunchBid, SweepFails, ListDue, ClaimClose,
       CloseFails, SlideWrite, CrunchWrite, SettleAuction, SettleInSeason, Settle
  <2> QED BY <2>1, <2>2, <2>3, <2>4, <2>5, <2>6 DEF Next, BidStep, vars
<1>2. \A t \in Ticks : tick'[t].pc # "off" => tick'[t].at = now'
  <2>1. CASE PassTime
    BY <2>1, AtRest DEF PassTime
  <2>2. ASSUME NEW t \in Ticks, Reads(t), Read
        PROVE  \A u \in Ticks : tick'[u].pc # "off" => tick'[u].at = now'
    BY <2>2, TicksGo DEF Read, Timely
  <2>3. ASSUME NEW t \in Ticks, NEW pcs, Goes(t, pcs), tick[t].pc # "off", now' = now
        PROVE  \A u \in Ticks : tick'[u].pc # "off" => tick'[u].at = now'
    BY <2>3 DEF Goes, Timely
  <2>4. ASSUME NEW t \in Ticks, SlideWrite(t) \/ CrunchWrite(t)
        PROVE  \A u \in Ticks : tick'[u].pc # "off" => tick'[u].at = now'
    <3>1. tick[t].pc # "off" /\ now' = now
      BY <2>4 DEF SlideWrite, CrunchWrite
    <3> QED BY <2>3, <2>4, <3>1, SweepsOn
  <2>5. ASSUME NEW t \in Ticks, Settle(t)
        PROVE  \A u \in Ticks : tick'[u].pc # "off" => tick'[u].at = now'
    <3>1. tick[t].pc # "off" /\ now' = now
      BY <2>5 DEF Settle
    <3> QED BY <2>3, <2>5, <3>1, Closes
  <2>6. ASSUME UNCHANGED <<now, tick>>
        PROVE  \A u \in Ticks : tick'[u].pc # "off" => tick'[u].at = now'
    BY <2>6 DEF Timely
  <2> QED BY <2>1, <2>2, <2>4, <2>5, <2>6, Steps DEF Still, CommitBid
<1>3. \A i \in DOMAIN bids' : bids'[i].at <= now'
  <2>1. ASSUME NEW b \in Bidders, CommitBid(b)
        PROVE  \A i \in DOMAIN bids' : bids'[i].at <= now'
    <3>1. request[b].bid \in BidRecords /\ request[b].bid.at = now /\ bids' = Append(bids, request[b].bid)
          /\ now' = now
      BY <2>1, Commits
    <3> DEFINE bid == request[b].bid
    <3> HIDE DEF bid
    <3>2. /\ Len(bids) \in Nat
          /\ bids'[Len(bids) + 1] = bid /\ \A i \in 1 .. Len(bids) : bids'[i] = bids[i]
          /\ DOMAIN bids = 1 .. Len(bids) /\ DOMAIN bids' = 1 .. Len(bids) + 1
      BY <1>t, <3>1, AppendProperties, LenProperties DEF Typed, bid
    <3>3. \A i \in DOMAIN bids' : i \in DOMAIN bids \/ i = Len(bids) + 1
      BY <3>2
    <3> QED BY <1>t, <3>1, <3>2, <3>3 DEF Timely, bid
  <2>2. ASSUME NEW i \in DOMAIN bids, PassTime
        PROVE  bids'[i].at <= now'
    <3>0. \A j \in DOMAIN bids : bids[j] \in BidRecords
      BY <1>t, ElementOfSeq DEF Typed
    <3>1. bids[i].at \in Nat /\ bids[i].at <= now
      BY <3>0 DEF BidRecords, Timely
    <3> QED BY <1>t, <2>2, <3>1 DEF PassTime
  <2>3. ASSUME UNCHANGED <<now, bids>>
        PROVE  \A i \in DOMAIN bids' : bids'[i].at <= now'
    BY <2>3 DEF Timely
  <2> QED BY <2>1, <2>2, <2>3, Steps DEF Still, Read, SlideWrite, CrunchWrite, Settle, PassTime
<1>4. (setting'.inSeason => closeAt' <= allBid') /\ (~setting'.inSeason => allBid' = HardDeadline)
  <2>1. ASSUME NEW b \in Bidders, CommitBid(b)
        PROVE  (setting'.inSeason => closeAt' <= allBid') /\ (~setting'.inSeason => allBid' = HardDeadline)
    <3>1. QuietAt(now) \in Nat
      BY Numbers DEF QuietAt
    <3>2. /\ closeAt' = CloseAt(now, QuietAt(now), allBid') /\ allBid' \in Nat /\ setting' = setting
          /\ ~setting.inSeason => allBid' = HardDeadline
      BY <2>1, Commits
    <3>3. CloseAt(now, QuietAt(now), allBid') <= allBid'
      BY <1>t, <3>1, <3>2, ClockEnds
    <3> QED BY <3>2, <3>3
  <2>2. ASSUME NEW t \in Ticks, SlideWrite(t) \/ CrunchWrite(t)
        PROVE  ~setting.inSeason /\ UNCHANGED <<setting, allBid>>
    BY <1>t, <2>2 DEF SlideWrite, CrunchWrite, Stages, OnLadder, InCrunch
  <2>3. UNCHANGED <<setting, closeAt, allBid>> =>
          (setting'.inSeason => closeAt' <= allBid') /\ (~setting'.inSeason => allBid' = HardDeadline)
    BY DEF Timely
  <2>4. ~setting.inSeason /\ UNCHANGED <<setting, allBid>> =>
          (setting'.inSeason => closeAt' <= allBid') /\ (~setting'.inSeason => allBid' = HardDeadline)
    BY DEF Timely
  <2> QED BY <2>1, <2>2, <2>3, <2>4, Steps DEF Still, Read, row, Settle, PassTime
<1> QED BY <1>1, <1>2, <1>3, <1>4 DEF Timely

\* The later a clock starts, the later it ends.
LEMMA ClockGrows ==
  ASSUME NEW from \in Nat, NEW to \in Nat, from <= to, NEW window \in Nat
  PROVE  CloseAt(from, window, HardDeadline) <= CloseAt(to, window, HardDeadline)
<1>1. HardDeadline \in Nat
  BY Numbers
<1>2. /\ CloseAt(from, window, HardDeadline) <= from + window
      /\ CloseAt(from, window, HardDeadline) <= HardDeadline
      /\ CloseAt(from, window, HardDeadline) \in Nat
  BY <1>1, ClockEnds
<1>3. CloseAt(to, window, HardDeadline) \in {to + window, HardDeadline}
  BY <1>1, ClockEnds
<1> QED BY <1>1, <1>2, <1>3

\* The latest bid is a bid of the past.
LEMMA LatestPast ==
  ASSUME Sound, Timely, bids # << >>
  PROVE  LatestBid.at \in Nat /\ LatestBid.at <= now
<1>1. PICK i \in DOMAIN bids : LatestBid = bids[i]
  BY LatestIsBid DEF Sound, Typed
<1>2. bids[i] \in BidRecords
  BY <1>1, ElementOfSeq DEF Sound, Typed
<1> QED BY <1>1, <1>2 DEF Timely, BidRecords

\* A tick that writes is in the preseason; a crunch sweep, in its last days.
LEMMA Writers ==
  ASSUME Sound, Timely, NEW t \in Ticks
  PROVE  /\ tick[t].pc # "off" => tick[t].at = now
         /\ tick[t].pc = "slideWrite" => OnLadder /\ ~setting.inSeason
         /\ tick[t].pc \in {"crunchBid", "crunchWrite"} => ~setting.inSeason /\ now >= CrunchStart
BY DEF Sound, Stages, Timely, OnLadder, InCrunch

LEMMA LastingStep ==
  ASSUME Instants, Sound, Timely, Lasting, [Next]_vars
  PROVE  Lasting'
<1>t. /\ now \in Nat /\ CrunchStart \in Nat /\ HardDeadline \in Nat /\ QuietWindow \in Nat
      /\ Extension \in Nat /\ Extension <= QuietWindow /\ setting.inSeason \in BOOLEAN
  BY SettingIs, Numbers DEF Sound, Typed
<1>1. CASE UNCHANGED <<setting, status, closeAt, bids>> /\ now' \in {now, now + 1}
  BY <1>t, <1>1 DEF Lasting, Reprieve, LatestBid
<1>2. ASSUME NEW b \in Bidders, CommitBid(b), setting.inSeason \/ now < CrunchStart
      PROVE  closeAt' >= Reprieve(LatestBid'.at)
  <2>1. LatestBid'.at \in Nat /\ LatestBid'.at <= now
    <3>1. LatestBid' \in {LatestBid, request[b].bid} /\ request[b].bid.at = now
      BY <1>2, Commits
    <3>2. CASE LatestBid' = LatestBid
      <4>1. LatestBid = NoBid \/ bids # << >>
        BY LatestIsBid DEF Sound, Typed
      <4>2. NoBid.at = 0
        BY DEF NoBid
      <4> QED BY <1>t, <3>2, <4>1, <4>2, LatestPast
    <3> QED BY <1>t, <3>1, <3>2
  <2>2. /\ closeAt' = CloseAt(now, QuietWindow, allBid') /\ allBid' \in Nat
        /\ IF setting.inSeason THEN allBid' >= now + Extension \/ allBid' >= HardDeadline
           ELSE allBid' = HardDeadline
    <3>1. QuietAt(now) = QuietWindow
      BY <1>t, <1>2 DEF QuietAt, InCrunch
    <3> QED BY <1>2, <3>1, Commits
  <2>3. closeAt' \in {now + QuietWindow, allBid', HardDeadline}
    BY <1>t, <2>2, ClockEnds
  <2>4. ASSUME NEW window \in {Extension, QuietWindow}
        PROVE  /\ CloseAt(LatestBid'.at, window, HardDeadline) <= LatestBid'.at + window
               /\ CloseAt(LatestBid'.at, window, HardDeadline) <= HardDeadline
               /\ CloseAt(LatestBid'.at, window, HardDeadline) \in Nat
    <3>1. window \in Nat
      BY <1>t
    <3>2. CloseAt(LatestBid'.at, window, HardDeadline) \in 0 .. HardDeadline
      BY <1>t, <2>1, <3>1, ClockEnds
    <3>3. CloseAt(LatestBid'.at, window, HardDeadline) <= LatestBid'.at + window
      BY <1>t, <2>1, <3>1, ClockEnds
    <3> QED BY <1>t, <3>2, <3>3
  <2>5. CASE setting.inSeason
    BY <1>t, <2>1, <2>2, <2>3, <2>4, <2>5 DEF Reprieve
  <2>6. CASE ~setting.inSeason
    BY <1>t, <2>1, <2>2, <2>3, <2>4, <2>6 DEF Reprieve
  <2> QED BY <1>t, <2>5, <2>6
<1>3. ASSUME NEW t \in Ticks, SlideWrite(t), bids # << >>
      PROVE  closeAt' >= Reprieve(LatestBid.at)
  <2>1. tick[t].pc = "slideWrite" /\ closeAt' = CloseAt(tick[t].at, QuietWindow, HardDeadline)
    BY <1>3 DEF SlideWrite
  <2>2. ~setting.inSeason /\ tick[t].at = now
    BY <2>1, Writers
  <2>3. LatestBid.at \in Nat /\ LatestBid.at <= now
    BY <1>3, LatestPast
  <2>4. /\ CloseAt(now, QuietWindow, HardDeadline) \in 0 .. HardDeadline
        /\ CloseAt(LatestBid.at, QuietWindow, HardDeadline) \in 0 .. HardDeadline
    BY <1>t, <2>3, ClockEnds
  <2>5. CloseAt(LatestBid.at, QuietWindow, HardDeadline) <= CloseAt(now, QuietWindow, HardDeadline)
    BY <1>t, <2>3, ClockGrows
  <2> QED BY <1>t, <2>1, <2>2, <2>4, <2>5 DEF Reprieve
<1>4. ASSUME NEW t \in Ticks, CrunchWrite(t)
      PROVE  Lasting'
  <2>1. tick[t].pc = "crunchWrite" /\ UNCHANGED <<now, setting>>
    BY <1>4 DEF CrunchWrite
  <2>2. ~setting.inSeason /\ now >= CrunchStart
    BY <2>1, Writers
  <2> QED BY <1>t, <2>1, <2>2 DEF Lasting
<1>5. ASSUME NEW t \in Ticks, Settle(t)
      PROVE  status' # "Open"
  BY <1>5 DEF Settle, StatusAfter
<1>6. ASSUME NEW b \in Bidders, CommitBid(b)
      PROVE  Lasting'
  <2>1. now' = now /\ setting' = setting
    BY <1>6 DEF CommitBid
  <2> QED BY <1>2, <1>6, <2>1 DEF Lasting, Reprieve
<1>7. ASSUME NEW t \in Ticks, SlideWrite(t)
      PROVE  Lasting'
  <2>1. UNCHANGED <<setting, bids, now>>
    BY <1>7 DEF SlideWrite
  <2> QED BY <1>3, <1>7, <2>1 DEF Lasting, Reprieve, LatestBid
<1>8. CASE Still \/ (\E t \in Ticks : Read) \/ PassTime
  BY <1>1, <1>8 DEF Still, Read, PassTime, row
<1> QED BY <1>4, <1>5, <1>6, <1>7, <1>8, Steps DEF Lasting

LEMMA LadderedStep ==
  ASSUME Sound, Timely, Laddered, Swept, [Next]_vars
  PROVE  Laddered'
<1>1. CASE UNCHANGED <<setting, row, bids>>
  BY <1>1 DEF Laddered, OnLadder, row
<1>2. ASSUME NEW b \in Bidders, CommitBid(b)
      PROVE  bids' # << >>
  <2>1. request[b].bid \in BidRecords /\ bids' = Append(bids, request[b].bid)
    BY <1>2 DEF CommitBid, Sound, Numbered, Active
  <2>2. Len(bids) \in Nat /\ Len(bids') = Len(bids) + 1
    BY <2>1, AppendProperties, LenProperties DEF Sound, Typed
  <2> QED BY <2>2, EmptySeq
<1>3. ASSUME NEW t \in Ticks, SlideWrite(t)
      PROVE  closeAt' = CloseAt(updatedAt', QuietWindow, HardDeadline)
  BY <1>3, Writers DEF SlideWrite
<1>4. ASSUME NEW t \in Ticks, CrunchWrite(t)
      PROVE  bids' # << >>
  BY <1>4, EmptySeq DEF CrunchWrite, Swept
<1>5. ASSUME NEW t \in Ticks, Settle(t)
      PROVE  status' # "Open"
  BY <1>5 DEF Settle, StatusAfter
<1>6. CASE Still \/ (\E t \in Ticks : Read) \/ PassTime
  BY <1>1, <1>6 DEF Still, Read, PassTime
<1> QED BY <1>2, <1>3, <1>4, <1>5, <1>6, Steps DEF Laddered

-----------------------------------------------------------------------------
(* Ticks that overlap: what they leave to each other *)

\* No circumstance that upsets ticks goes away again.
LEMMA Calms ==
  ASSUME Sound, [Next]_vars
  PROVE  /\ setting' = setting /\ (Alone' <=> Alone)
         /\ failed' = 0 => failed = 0
         /\ Sure' => Sure
         /\ Unswept' => Unswept
         /\ bids' = << >> => bids = << >>
         /\ Steady' => Steady
<1>t. failed \in Nat /\ now \in Nat /\ CrunchStart \in Nat
  BY SettingIs, Numbers DEF Sound, Typed
<1>1. /\ setting' = setting /\ now' \in {now, now + 1} /\ failed' \in {failed, failed + 1}
  <2>1. ASSUME NEW t \in Ticks, Reads(t)
        PROVE  failed' \in {failed, failed + 1}
    BY <2>1 DEF Reads, StartTick, ListUnbid, ListOpen, ReadCrunchBid, SweepFails, ListDue, ClaimClose,
       CloseFails
  <2>2. ASSUME NEW t \in Ticks, SlideWrite(t) \/ CrunchWrite(t) \/ Settle(t)
        PROVE  UNCHANGED <<setting, now, failed>>
    BY <2>2 DEF SlideWrite, CrunchWrite, Settle
  <2>3. ASSUME NEW b \in Bidders, CommitBid(b)
        PROVE  UNCHANGED <<setting, now, failed>>
    BY <2>3 DEF CommitBid
  <2> QED BY <2>1, <2>2, <2>3, Steps DEF Still, PassTime, Read
<1>2. bids' = << >> => bids = << >>
  <2>1. ASSUME NEW b \in Bidders, CommitBid(b)
        PROVE  bids' # << >>
    <3>1. request[b].bid \in BidRecords /\ bids' = Append(bids, request[b].bid)
      BY <2>1 DEF CommitBid, Sound, Numbered, Active
    <3>2. Len(bids) \in Nat /\ Len(bids') = Len(bids) + 1
      BY <3>1, AppendProperties, LenProperties DEF Sound, Typed
    <3> QED BY <3>2, EmptySeq
  <2> QED BY <2>1, Steps DEF Still, Read, PassTime, SlideWrite, CrunchWrite, Settle
<1>3. Alone' <=> Alone
  BY <1>1 DEF Alone
<1>4. failed' = 0 => failed = 0
  BY <1>t, <1>1
<1>5. Sure' => Sure
  BY <1>1, <1>3, <1>4 DEF Sure
<1>6. Unswept' => Unswept
  BY <1>t, <1>1, <1>3 DEF Unswept
<1> QED BY <1>1, <1>2, <1>3, <1>4, <1>5, <1>6 DEF Steady

\* What a tick has found to be where it comes to.
LEMMA Arrives ==
  ASSUME Sound, Timely, NEW t \in Ticks, Reads(t)
  PROVE  /\ tick'[t].pc = "slideWrite" => CanSlide
         /\ tick'[t].pc = "crunchWrite" =>
              LatestBid # NoBid /\ tick'[t].closeAt = CloseAt(LatestBid.at, CrunchQuiet, HardDeadline)
         /\ tick'[t].pc \in Past => tick[t].pc \in Past \/ ~CanSlide \/ failed' # 0
         /\ tick'[t].pc \in Closing => tick[t].pc \in Closing \/ (tick[t].pc = "due" /\ Due(now))
         /\ tick'[t].pc = "settle" => status = "Open" /\ tick'[t].bid = LatestBid
<1>t. failed \in Nat
  BY SettingIs DEF Sound, Typed
<1> USE DEF Past, Closing
<1>1. CASE StartTick(t)
  BY <1>1, Starts
<1>2. CASE ListUnbid(t)
  <2>1. tick[t].at = now
    BY <1>2 DEF ListUnbid, Timely
  <2> QED BY <1>2, <2>1, Lists DEF Goes, CanSlide
<1>3. CASE ListOpen(t)
  <2>1. tick[t].pc = "crunch"
    BY <1>3 DEF ListOpen
  <2> QED BY <1>3, <2>1, Lists DEF Goes
<1>4. CASE ReadCrunchBid(t)
  <2>1. tick[t].pc = "crunchBid"
    BY <1>4 DEF ReadCrunchBid
  <2> QED BY <1>4, <2>1, SweepsOn DEF Goes
<1>5. CASE SweepFails(t)
  <2>1. failed' # 0
    BY <1>t, <1>5 DEF SweepFails
  <2> QED BY <1>5, <2>1, SweepsOn DEF Goes
<1>6. CASE ListDue(t)
  <2>1. tick[t].pc = "due" /\ tick[t].at = now
    BY <1>6 DEF ListDue, Timely
  <2> QED BY <1>6, <2>1, Lists DEF Goes
<1>7. CASE ClaimClose(t)
  <2>1. tick[t].pc = "claim"
    BY <1>7 DEF ClaimClose
  <2> QED BY <1>7, <2>1, Closes DEF Goes
<1>8. CASE CloseFails(t)
  BY <1>8, Closes DEF Goes
<1> QED BY <1>1, <1>2, <1>3, <1>4, <1>5, <1>6, <1>7, <1>8 DEF Reads

\* After a write a tick sweeps no more.
LEMMA Leaves ==
  ASSUME Sound, NEW t \in Ticks, SlideWrite(t) \/ CrunchWrite(t) \/ Settle(t)
  PROVE  /\ tick'[t].pc \in {"crunch", "due", "off"}
         /\ tick'[t].pc \in Past => SlideWrite(t) \/ tick[t].pc \in Past
         /\ \A u \in Ticks \ {t} : tick'[u] = tick[u]
<1>1. CrunchWrite(t) => tick[t].pc = "crunchWrite"
  BY DEF CrunchWrite
<1> QED BY <1>1, SweepsOn, Closes DEF Goes, Past

LEMMA WalkedStep ==
  ASSUME Instants, Sound, Timely, Walked, [Next]_vars
  PROVE  Walked'
<1>t. /\ now \in Nat /\ QuietWindow \in Nat /\ QuietWindow >= 1
  BY Numbers DEF Sound, Typed
<1>0. failed' = 0 => failed = 0
  BY Calms
<1>s. ASSUME UNCHANGED <<now, setting, row, bids>>
      PROVE  CanSlide' <=> CanSlide
  BY <1>s DEF CanSlide, Slidable, OnLadder, LowerTiers, row
<1>1. CASE Still
  BY <1>0, <1>1, <1>s DEF Still, Walked
<1>2. CASE PassTime
  <2>1. tick' = tick
    BY <1>2 DEF PassTime
  <2> QED BY <1>2, <2>1, AtRest DEF Walked, Past
<1>3. ASSUME NEW b \in Bidders, CommitBid(b)
      PROVE  Walked'
  <2>1. request[b].bid \in BidRecords /\ bids' = Append(bids, request[b].bid)
    BY <1>3, Commits
  <2>2. Len(bids) \in Nat /\ Len(bids') = Len(bids) + 1
    BY <2>1, AppendProperties, LenProperties DEF Sound, Typed
  <2>3. bids' # << >>
    BY <2>2, EmptySeq
  <2> QED BY <2>3 DEF Walked, CanSlide, Slidable
<1>4. ASSUME NEW t \in Ticks, Reads(t), Read
      PROVE  Walked'
  BY <1>0, <1>4, <1>s, Arrives, TicksGo DEF Read, Walked
<1>5. ASSUME NEW t \in Ticks, SlideWrite(t)
      PROVE  Walked'
  <2>1. updatedAt' = now /\ now' = now
    BY <1>5 DEF SlideWrite
  <2>2. ~(updatedAt' <= now' - QuietWindow)
    BY <1>t, <2>1
  <2> QED BY <2>2 DEF Walked, CanSlide, Slidable
<1>6. ASSUME NEW t \in Ticks, CrunchWrite(t)
      PROVE  Walked'
  <2>1. CanSlide' <=> CanSlide
    BY <1>6 DEF CrunchWrite, CanSlide, Slidable, OnLadder, LowerTiers
  <2>2. tick[t].pc \in Past
    BY <1>6 DEF CrunchWrite, Past
  <2> QED BY <1>0, <1>6, <2>1, <2>2, Leaves DEF Walked
<1>7. ASSUME NEW t \in Ticks, Settle(t)
      PROVE  Walked'
  BY <1>7 DEF Settle, StatusAfter, Walked, CanSlide, Slidable
<1> QED BY <1>1, <1>2, <1>3, <1>4, <1>5, <1>6, <1>7, Steps

LEMMA SweptStep ==
  ASSUME Instants, Sound, Timely, Swept, [Next]_vars
  PROVE  Swept'
<1>1. CASE UNCHANGED <<bids, tick>>
  BY <1>1 DEF Swept
<1>2. ASSUME NEW b \in Bidders, CommitBid(b)
      PROVE  Swept'
  <2>1. request[b].bid \in BidRecords /\ bids' = Append(bids, request[b].bid) /\ tick' = tick
    BY <1>2, Commits
  <2>2. /\ Len(bids) \in Nat /\ \A i \in 1 .. Len(bids) : bids'[i] = bids[i]
        /\ DOMAIN bids = 1 .. Len(bids) /\ DOMAIN bids' = 1 .. Len(bids) + 1
    BY <2>1, AppendProperties, LenProperties DEF Sound, Typed
  <2>3. \A i \in DOMAIN bids : i \in DOMAIN bids' /\ bids'[i] = bids[i]
    BY <2>2
  <2> QED BY <2>1, <2>3 DEF Swept
<1>3. ASSUME NEW t \in Ticks, Reads(t), Read
      PROVE  Swept'
  <2>1. ASSUME tick'[t].pc = "crunchWrite"
        PROVE  \E i \in DOMAIN bids : tick'[t].closeAt = CloseAt(bids[i].at, CrunchQuiet, HardDeadline)
    <3>1. LatestBid # NoBid /\ tick'[t].closeAt = CloseAt(LatestBid.at, CrunchQuiet, HardDeadline)
      BY <1>3, <2>1, Arrives
    <3>2. \E i \in DOMAIN bids : LatestBid = bids[i]
      BY <3>1, LatestIsBid DEF Sound, Typed
    <3> QED BY <3>1, <3>2
  <2> QED BY <1>3, <2>1, TicksGo DEF Read, Swept
<1>4. ASSUME NEW t \in Ticks, SlideWrite(t) \/ CrunchWrite(t) \/ Settle(t)
      PROVE  Swept'
  <2>1. bids' = bids
    BY <1>4 DEF SlideWrite, CrunchWrite, Settle
  <2> QED BY <1>4, <2>1, Leaves DEF Swept
<1> QED BY <1>1, <1>2, <1>3, <1>4, Steps DEF Still, PassTime

\* A clock that starts now ends later, before the hard deadline.
LEMMA StartsLater ==
  ASSUME Sound, now < HardDeadline, NEW window \in Nat, window >= 1
  PROVE  CloseAt(now, window, HardDeadline) > now
<1>1. now \in Nat /\ HardDeadline \in Nat
  BY Numbers DEF Sound, Typed
<1>2. CloseAt(now, window, HardDeadline) \in {now + window, HardDeadline}
  BY <1>1, ClockEnds
<1> QED BY <1>1, <1>2

LEMMA SlidingStep ==
  ASSUME Instants, Sound, Timely, Sliding, Swept, [Next]_vars
  PROVE  Sliding'
<1>t. now \in Nat /\ HardDeadline \in Nat
  BY Numbers DEF Sound, Typed
<1>q. QuietWindow \in Nat /\ QuietWindow >= 1 /\ CrunchQuiet \in Nat /\ CrunchQuiet >= 1
  BY Numbers
<1>s. ASSUME UNCHANGED <<now, setting, row, bids>>
      PROVE  CanSlide' <=> CanSlide
  BY <1>s DEF CanSlide, Slidable, OnLadder, LowerTiers, row
<1>1. CASE Still
  BY <1>1, <1>s DEF Still, Sliding, row
<1>2. CASE PassTime
  <2>1. tick' = tick
    BY <1>2 DEF PassTime
  <2> QED BY <1>2, <2>1, AtRest DEF Sliding
<1>3. ASSUME NEW b \in Bidders, CommitBid(b), NEW t \in Ticks, tick[t].pc = "slideWrite"
      PROVE  (\A i \in DOMAIN bids' : bids'[i].at = now) /\ (now < HardDeadline => closeAt' > now)
  <2>1. /\ request[b].bid \in BidRecords /\ request[b].bid.at = now
        /\ bids' = Append(bids, request[b].bid) /\ ~setting.inSeason
        /\ closeAt' = CloseAt(now, QuietAt(now), HardDeadline)
    BY <1>3, Commits, Writers
  <2> DEFINE bid == request[b].bid
  <2> HIDE DEF bid
  <2>2. /\ Len(bids) \in Nat
        /\ bids'[Len(bids) + 1] = bid /\ \A i \in 1 .. Len(bids) : bids'[i] = bids[i]
        /\ DOMAIN bids = 1 .. Len(bids) /\ DOMAIN bids' = 1 .. Len(bids) + 1
    BY <2>1, AppendProperties, LenProperties DEF Sound, Typed, bid
  <2>3. \A i \in DOMAIN bids' : i \in DOMAIN bids \/ i = Len(bids) + 1
    BY <2>2
  <2>4. \A i \in DOMAIN bids' : bids'[i].at = now
    BY <1>3, <2>1, <2>2, <2>3 DEF Sliding, bid
  <2>5. QuietAt(now) \in Nat /\ QuietAt(now) >= 1
    BY <1>q DEF QuietAt
  <2> QED BY <2>1, <2>4, <2>5, StartsLater
<1>4. ASSUME NEW b \in Bidders, CommitBid(b)
      PROVE  Sliding'
  <2>1. tick' = tick /\ now' = now
    BY <1>4 DEF CommitBid
  <2> QED BY <1>3, <1>4, <2>1 DEF Sliding
<1>5. ASSUME NEW t \in Ticks, Reads(t), Read
      PROVE  Sliding'
  <2>1. ASSUME tick'[t].pc = "slideWrite"
        PROVE  CanSlide /\ \A i \in DOMAIN bids : bids[i].at = now
    <3>1. CanSlide
      BY <1>5, <2>1, Arrives
    <3>2. bids = << >>
      BY <3>1 DEF CanSlide, Slidable
    <3> QED BY <3>1, <3>2, EmptySeq
  <2>2. ASSUME NEW u \in Ticks, tick'[u].pc = "slideWrite"
        PROVE  /\ \A i \in DOMAIN bids : bids[i].at = now
               /\ status = "Open" /\ now < HardDeadline => CanSlide \/ closeAt > now
    <3>1. CASE u = t
      BY <2>1, <2>2, <3>1
    <3>2. CASE u # t
      BY <1>5, <2>2, <3>2, TicksGo DEF Sliding
    <3> QED BY <3>1, <3>2
  <2>3. UNCHANGED <<now, setting, row, bids>>
    BY <1>5 DEF Read
  <2> QED BY <1>s, <2>2, <2>3 DEF Sliding, row
<1>6. ASSUME NEW t \in Ticks, SlideWrite(t) \/ CrunchWrite(t) \/ Settle(t),
             NEW u \in Ticks, tick'[u].pc = "slideWrite"
      PROVE  tick[u].pc = "slideWrite" /\ u # t
  BY <1>6, Leaves
<1>7. ASSUME NEW t \in Ticks, SlideWrite(t)
      PROVE  Sliding'
  <2>1. /\ now' = now /\ bids' = bids /\ tick[t].at = now
        /\ closeAt' = CloseAt(tick[t].at, QuietWindow, HardDeadline)
    BY <1>7 DEF SlideWrite, Timely
  <2>2. now < HardDeadline => closeAt' > now
    BY <1>q, <2>1, StartsLater
  <2> QED BY <1>6, <1>7, <2>1, <2>2 DEF Sliding
<1>8. ASSUME NEW t \in Ticks, CrunchWrite(t)
      PROVE  Sliding'
  <2>1. now' = now /\ bids' = bids /\ closeAt' = tick[t].closeAt /\ tick[t].pc = "crunchWrite"
    BY <1>8 DEF CrunchWrite
  <2>2. PICK i \in DOMAIN bids : closeAt' = CloseAt(bids[i].at, CrunchQuiet, HardDeadline)
    BY <2>1 DEF Swept
  <2>3. ASSUME NEW u \in Ticks, tick'[u].pc = "slideWrite"
        PROVE  (\A j \in DOMAIN bids : bids[j].at = now) /\ (now < HardDeadline => closeAt' > now)
    <3>1. \A j \in DOMAIN bids : bids[j].at = now
      BY <1>6, <1>8, <2>3 DEF Sliding
    <3>2. closeAt' = CloseAt(now, CrunchQuiet, HardDeadline)
      BY <2>2, <3>1
    <3> QED BY <1>q, <3>1, <3>2, StartsLater
  <2> QED BY <2>1, <2>3 DEF Sliding
<1>9. ASSUME NEW t \in Ticks, Settle(t)
      PROVE  Sliding'
  <2>1. now' = now /\ bids' = bids /\ status' # "Open"
    BY <1>9 DEF Settle, StatusAfter
  <2> QED BY <1>6, <1>9, <2>1 DEF Sliding
<1> QED BY <1>1, <1>2, <1>4, <1>5, <1>7, <1>8, <1>9, Steps

\* Two ticks do not both slide and close.
LEMMA UnslidStep ==
  ASSUME Instants, Sound, Timely, Walked, Sliding, Unslid, [Next]_vars
  PROVE  Unslid'
<1>t. now \in Nat /\ HardDeadline \in Nat /\ closeAt \in Nat
  BY Numbers DEF Sound, Typed
<1>c. (Sure' => Sure) /\ setting' = setting /\ (Alone' <=> Alone)
  BY Calms
<1>w. ASSUME NEW t \in Ticks, NEW u \in Ticks, t # u, Alone, tick[t].pc # "off"
      PROVE  u \notin setting.ticks
  BY <1>w DEF Alone, Sound, Claimed
<1>r. ASSUME NEW t \in Ticks, NEW u \in Ticks, t # u, tick[t].pc \in Past, Sure, CanSlide
      PROVE  u \notin setting.ticks
  <2>1. failed # 0
    BY <1>r DEF Walked
  <2>2. ~setting.inSeason
    BY <1>r DEF CanSlide, Slidable, OnLadder
  <2>3. Alone /\ tick[t].pc # "off"
    BY <1>r, <2>1, <2>2 DEF Sure, Past
  <2> QED BY <1>r, <1>w, <2>3
<1>a. Claimed /\ Claimed'
  BY SoundStep DEF Sound
<1>1. CASE UNCHANGED <<now, status, tick>>
  BY <1>c, <1>1 DEF Unslid
<1>2. CASE PassTime
  <2>1. tick' = tick
    BY <1>2 DEF PassTime
  <2> QED BY <1>2, <2>1, AtRest DEF Unslid
<1>3. ASSUME NEW t \in Ticks, Reads(t), Read, Sure, now < HardDeadline,
             NEW u \in Ticks, tick'[u].pc = "slideWrite"
      PROVE  status = "Open" /\ \A v \in Ticks : tick'[v].pc \notin Closing
  <2>o. \A v \in Ticks \ {t} : tick'[v] = tick[v]
    BY <1>3, TicksGo
  <2>s. u \in setting.ticks
    BY <1>3, <1>a, <1>c DEF Claimed
  <2>1. CASE u = t
    <3>1. CanSlide
      BY <1>3, <2>1, Arrives
    <3>2. status = "Open"
      BY <3>1 DEF CanSlide, Slidable
    <3>3. ASSUME NEW v \in Ticks, tick'[v].pc \in Closing
          PROVE  FALSE
      <4>1. v # t
        BY <1>3, <2>1, <3>3 DEF Closing
      <4>2. tick[v].pc \in Past
        BY <2>o, <3>3, <4>1 DEF Closing, Past
      <4> QED BY <1>3, <1>r, <2>1, <2>s, <3>1, <4>1, <4>2
    <3> QED BY <3>2, <3>3
  <2>2. CASE u # t
    <3>1. tick[u].pc = "slideWrite"
      BY <1>3, <2>2, <2>o
    <3>2. status = "Open" /\ \A v \in Ticks : tick[v].pc \notin Closing
      BY <1>3, <3>1 DEF Unslid
    <3>3. ASSUME tick'[t].pc \in Closing
          PROVE  FALSE
      <4>1. tick[t].pc = "due" /\ closeAt <= now
        BY <1>3, <3>2, <3>3, Arrives DEF Due
      <4>2. CanSlide
        BY <1>t, <1>3, <3>1, <3>2, <4>1 DEF Sliding
      <4>3. tick[t].pc \in Past
        BY <4>1 DEF Past
      <4> QED BY <1>3, <1>r, <2>2, <2>s, <4>2, <4>3
    <3> QED BY <2>o, <3>2, <3>3
  <2> QED BY <2>1, <2>2
<1>4. ASSUME NEW t \in Ticks, Reads(t), Read
      PROVE  Unslid'
  <2>1. now' = now /\ status' = status
    BY <1>4 DEF Read, row
  <2> QED BY <1>3, <1>4, <1>c, <2>1 DEF Unslid
<1>5. ASSUME NEW t \in Ticks, SlideWrite(t) \/ CrunchWrite(t)
      PROVE  Unslid'
  <2>1. now' = now /\ status' = status
    BY <1>5 DEF SlideWrite, CrunchWrite
  <2>2. \A u \in Ticks : tick'[u].pc \in Closing \cup {"slideWrite"} => tick[u].pc = tick'[u].pc
    BY <1>5, Leaves DEF Closing
  <2> QED BY <1>c, <2>1, <2>2 DEF Unslid
<1>6. ASSUME NEW t \in Ticks, Settle(t)
      PROVE  Unslid'
  <2>1. now' = now /\ tick[t].pc \in Closing
    BY <1>6 DEF Settle, Closing
  <2>2. Sure' /\ now' < HardDeadline => \A u \in Ticks : tick[u].pc # "slideWrite"
    BY <1>c, <2>1 DEF Unslid
  <2>3. \A u \in Ticks : tick'[u].pc = "slideWrite" => tick[u].pc = "slideWrite"
    BY <1>6, Leaves
  <2> QED BY <2>2, <2>3 DEF Unslid
<1> QED BY <1>1, <1>2, <1>4, <1>5, <1>6, Steps DEF Still, row, CommitBid

LEMMA InTimeToCloseStep ==
  ASSUME Instants, Sound, Timely, Swept, Unslid, InTimeToClose, [Next]_vars
  PROVE  InTimeToClose'
<1>t. /\ now \in Nat /\ HardDeadline \in Nat /\ closeAt \in Nat /\ CrunchStart \in Nat
      /\ closeAt' \in 0 .. HardDeadline
  BY SoundStep, Numbers DEF Sound, Typed
<1>c. Steady' => Steady
  BY Calms
<1>1. CASE UNCHANGED <<now, status, closeAt, tick>>
  BY <1>c, <1>1 DEF InTimeToClose
<1>2. CASE PassTime
  <2>1. tick' = tick
    BY <1>2 DEF PassTime
  <2> QED BY <1>2, <2>1, AtRest DEF InTimeToClose, Closing
<1>3. ASSUME NEW t \in Ticks, Reads(t), Read
      PROVE  InTimeToClose'
  <2>1. UNCHANGED <<now, status, closeAt>>
    BY <1>3 DEF Read, row
  <2>2. ASSUME NEW u \in Ticks, tick'[u].pc \in Closing
        PROVE  tick[u].pc \in Closing \/ closeAt <= now
    BY <1>3, <2>2, Arrives, TicksGo DEF Due
  <2> QED BY <1>c, <2>1, <2>2 DEF InTimeToClose
<1>4. ASSUME NEW b \in Bidders, CommitBid(b), Steady'
      PROVE  \A t \in Ticks : tick[t].pc \notin Closing
  <2>1. status = "Open" /\ now < closeAt
    BY <1>4, Commits
  <2> QED BY <1>c, <1>4, <1>t, <2>1 DEF InTimeToClose
<1>5. ASSUME NEW b \in Bidders, CommitBid(b)
      PROVE  InTimeToClose'
  <2>1. tick' = tick
    BY <1>5 DEF CommitBid
  <2> QED BY <1>4, <1>5, <2>1 DEF InTimeToClose
<1>6. ASSUME NEW t \in Ticks, SlideWrite(t) \/ CrunchWrite(t) \/ Settle(t),
             NEW u \in Ticks, tick'[u].pc \in Closing
      PROVE  u # t /\ tick[u].pc \in Closing
  BY <1>6, Leaves DEF Closing
<1>7. ASSUME NEW t \in Ticks, SlideWrite(t)
      PROVE  InTimeToClose'
  <2>1. tick[t].pc = "slideWrite" /\ now' = now /\ status' = status
    BY <1>7 DEF SlideWrite
  <2>2. ASSUME Steady', NEW u \in Ticks, tick'[u].pc \in Closing
        PROVE  closeAt' <= now
    <3>1. Sure /\ tick[u].pc \in Closing
      BY <1>6, <1>7, <1>c, <2>2 DEF Steady
    <3>2. now >= HardDeadline
      BY <1>t, <2>1, <3>1 DEF Unslid
    <3> QED BY <1>t, <3>2
  <2> QED BY <2>1, <2>2 DEF InTimeToClose
<1>8. ASSUME NEW t \in Ticks, CrunchWrite(t)
      PROVE  InTimeToClose'
  <2>1. tick[t].pc = "crunchWrite" /\ now' = now /\ status' = status
    BY <1>8 DEF CrunchWrite
  <2>2. ASSUME Steady', NEW u \in Ticks, tick'[u].pc \in Closing
        PROVE  closeAt' <= now
    <3>1. Steady /\ tick[u].pc \in Closing /\ u # t
      BY <1>6, <1>8, <1>c, <2>2
    <3>2. Unswept
      BY <2>1, <3>1, EmptySeq DEF Steady, Swept
    <3>3. ~setting.inSeason /\ now >= CrunchStart
      BY <2>1, Writers
    <3>4. ~Alone
      BY <2>1, <3>1 DEF Alone, Sound, Claimed, Closing
    <3>5. now >= HardDeadline
      BY <1>t, <3>2, <3>3, <3>4 DEF Unswept
    <3> QED BY <1>t, <3>5
  <2> QED BY <2>1, <2>2 DEF InTimeToClose
<1>9. ASSUME NEW t \in Ticks, Settle(t)
      PROVE  InTimeToClose'
  BY <1>9 DEF Settle, StatusAfter, InTimeToClose
<1> QED BY <1>1, <1>2, <1>3, <1>5, <1>7, <1>8, <1>9, Steps DEF Still, row

LEMMA OnTheLeaderStep ==
  ASSUME Instants, Sound, Timely, InTimeToClose, OnTheLeader, [Next]_vars
  PROVE  OnTheLeader'
<1>t. now \in Nat /\ closeAt \in Nat
  BY Numbers DEF Sound, Typed
<1>c. (Steady' => Steady) /\ (Sure' => Sure)
  BY Calms
<1>1. CASE UNCHANGED <<bids, tick>>
  BY <1>c, <1>1 DEF OnTheLeader, LatestBid
<1>2. CASE PassTime
  <2>1. tick' = tick
    BY <1>2 DEF PassTime
  <2> QED BY <1>2, <2>1, AtRest DEF OnTheLeader
<1>3. ASSUME NEW t \in Ticks, Reads(t), Read
      PROVE  OnTheLeader'
  <2>1. LatestBid' = LatestBid
    BY <1>3 DEF Read, LatestBid
  <2>2. ASSUME NEW u \in Ticks, tick'[u].pc = "settle"
        PROVE  tick'[u].bid = LatestBid \/ (tick[u].pc = "settle" /\ tick'[u].bid = tick[u].bid)
    BY <1>3, <2>2, Arrives, TicksGo
  <2> QED BY <1>c, <2>1, <2>2 DEF OnTheLeader
<1>4. ASSUME NEW b \in Bidders, CommitBid(b)
      PROVE  OnTheLeader'
  <2>1. status = "Open" /\ now < closeAt /\ tick' = tick
    BY <1>4, Commits
  <2>2. ASSUME Steady, NEW t \in Ticks, tick[t].pc = "settle"
        PROVE  FALSE
    BY <1>t, <2>1, <2>2 DEF InTimeToClose, Closing
  <2>3. ASSUME Sure, NEW t \in Ticks, tick[t].pc = "settle", tick[t].bid = NoBid
        PROVE  FALSE
    <3>1. LatestBid = NoBid
      BY <2>3 DEF OnTheLeader
    <3>2. bids = << >>
      BY <3>1, LatestIsBid DEF Sound, Typed
    <3> QED BY <2>2, <2>3, <3>2 DEF Steady
  <2> QED BY <1>c, <2>1, <2>2, <2>3 DEF OnTheLeader
<1>5. ASSUME NEW t \in Ticks, SlideWrite(t) \/ CrunchWrite(t) \/ Settle(t)
      PROVE  OnTheLeader'
  <2>1. LatestBid' = LatestBid
    BY <1>5 DEF SlideWrite, CrunchWrite, Settle, LatestBid
  <2>2. \A u \in Ticks : tick'[u].pc = "settle" => tick'[u] = tick[u]
    BY <1>5, Leaves
  <2> QED BY <1>c, <2>1, <2>2 DEF OnTheLeader
<1> QED BY <1>1, <1>2, <1>3, <1>4, <1>5, Steps DEF Still

LEMMA RunningInit == Instants /\ Init => Running
<1> SUFFICES ASSUME Instants, Init
             PROVE  Running
  OBVIOUS
<1>t. \A t \in Ticks : tick[t].pc = "off"
  BY DEF Init, IdleTick
<1>b. \A b \in Bidders : ~Active(b)
  BY DEF Init, IdleRequest, Active
<1>n. /\ bids = << >> /\ setting \in Settings /\ now = 0 /\ setting.inSeason \in BOOLEAN
      /\ HardDeadline \in Nat /\ QuietWindow \in Nat /\ AllBidDeadline \in 0 .. HardDeadline
  BY SettingIs, Numbers DEF Init
<1>a. /\ closeAt = IF QuietWindow < allBid THEN QuietWindow ELSE allBid
      /\ allBid = IF setting.inSeason THEN AllBidDeadline ELSE HardDeadline
  BY DEF Init, FirstAllBid
<1>1. Timely
  BY <1>t, <1>b, <1>n, <1>a, EmptySeq DEF Timely
<1>2. Lasting
  BY <1>n DEF Lasting
<1>3. Laddered
  <2>1. updatedAt = 0
    BY DEF Init, Instants
  <2>2. OnLadder => ~setting.inSeason
    BY DEF OnLadder
  <2>3. CloseAt(0, QuietWindow, HardDeadline) =
          IF QuietWindow < HardDeadline THEN QuietWindow ELSE HardDeadline
    BY <1>n, ClockEnds
  <2> QED BY <1>a, <2>1, <2>2, <2>3 DEF Laddered
<1>4. Walked /\ Sliding /\ Swept
  BY <1>t DEF Walked, Past, Sliding, Swept
<1>5. Unslid /\ InTimeToClose /\ OnTheLeader
  BY <1>t DEF Unslid, InTimeToClose, OnTheLeader, Closing
<1> QED BY <1>1, <1>2, <1>3, <1>4, <1>5 DEF Running

LEMMA RunningStep ==
  ASSUME Instants, Sound, Running, [Next]_vars
  PROVE  Sound' /\ Running'
BY SoundStep, TimelyStep, LastingStep, LadderedStep, WalkedStep, SlidingStep, SweptStep, UnslidStep,
   InTimeToCloseStep, OnTheLeaderStep DEF Running

-----------------------------------------------------------------------------
(* What an auction promises *)

\* What a tick settles the auction on.
LEMMA Settled ==
  ASSUME Sound, Running, NEW t \in Ticks, Settle(t)
  PROVE  /\ status = "Open" /\ settledOn' = tick[t].bid /\ tick[t].bid \in BidRecords \cup {NoBid}
         /\ Steady \/ (Sure /\ tick[t].bid = NoBid) => tick[t].bid = LatestBid /\ Steady
         /\ Steady => closeAt <= now
<1>1. /\ tick[t].pc = "settle" /\ settledOn' = tick[t].bid
  BY DEF Settle
<1>2. status = "Open"
  <2>1. NoTick \notin Ticks
    BY AuctionConstants
  <2>2. claim = t
    BY <1>1 DEF Sound, Claimed
  <2> QED BY <2>1, <2>2 DEF Sound, Claimed
<1>3. tick[t].bid \in BidRecords \cup {NoBid}
  BY DEF Sound, Typed, TickStates
<1>4. Steady \/ (Sure /\ tick[t].bid = NoBid) => tick[t].bid = LatestBid
  BY <1>1 DEF Running, OnTheLeader
<1>5. Sure /\ tick[t].bid = NoBid => Steady
  BY <1>4, LatestIsBid DEF Sound, Typed, Steady
<1>6. Steady => closeAt <= now
  BY <1>1, <1>2 DEF Running, InTimeToClose, Closing
<1> QED BY <1>1, <1>2, <1>3, <1>4, <1>5, <1>6

\* Nobody is settled on before his reprieve is over.
Reprieved ==
  status # "Open" /\ settledOn # NoBid /\ (setting.inSeason \/ now < CrunchStart) =>
    now >= Reprieve(settledOn.at)

LEMMA ReprievedStep ==
  ASSUME Instants, Sound, Running, Sure => Reprieved, [Next]_vars
  PROVE  (Sure => Reprieved)'
<1>t. /\ now \in Nat /\ CrunchStart \in Nat /\ HardDeadline \in Nat /\ closeAt \in Nat
      /\ settledOn \in BidRecords \cup {NoBid}
  BY Numbers DEF Sound, Typed
<1>c. Sure' => Sure
  BY Calms
<1>1. CASE UNCHANGED <<setting, status, settledOn>> /\ now' \in {now, now + 1}
  <2>1. \A time \in Nat : Reprieve(time) \in Nat /\ Reprieve(time)' = Reprieve(time)
    <3>1. Extension \in Nat /\ QuietWindow \in Nat
      BY Numbers
    <3>2. ASSUME NEW time \in Nat
          PROVE  /\ CloseAt(time, Extension, HardDeadline) \in Nat
                 /\ CloseAt(time, QuietWindow, HardDeadline) \in Nat
      <4>1. /\ CloseAt(time, Extension, HardDeadline) \in 0 .. HardDeadline
            /\ CloseAt(time, QuietWindow, HardDeadline) \in 0 .. HardDeadline
        BY <1>t, <3>1, ClockEnds
      <4> QED BY <1>t, <4>1
    <3> QED BY <1>1, <3>2 DEF Reprieve
  <2>2. settledOn # NoBid => settledOn.at \in Nat
    BY <1>t DEF BidRecords
  <2> QED BY <1>t, <1>c, <1>1, <2>1, <2>2 DEF Reprieved, Reprieve
<1>2. ASSUME NEW t \in Ticks, Settle(t)
      PROVE  (Sure => Reprieved)'
  <2>1. UNCHANGED <<setting, now>>
    BY <1>2 DEF Settle
  <2>2. ASSUME Sure, tick[t].bid # NoBid, setting.inSeason \/ now < CrunchStart
        PROVE  now >= Reprieve(tick[t].bid.at)
    <3>1. Steady
      BY <2>2 DEF Steady, Unswept
    <3>2. status = "Open" /\ tick[t].bid = LatestBid /\ closeAt <= now
      BY <1>2, <3>1, Settled
    <3>3. bids # << >>
      BY <2>2, <3>2, LatestIsBid DEF Sound, Typed
    <3>4. closeAt >= Reprieve(LatestBid.at)
      BY <2>2, <3>2, <3>3 DEF Running, Lasting
    <3>5. LatestBid.at \in Nat
      BY <3>3, LatestPast DEF Running
    <3>6. Reprieve(LatestBid.at) \in Int
      <4>1. CloseAt(LatestBid.at, Extension, HardDeadline) \in 0 .. HardDeadline
            /\ CloseAt(LatestBid.at, QuietWindow, HardDeadline) \in 0 .. HardDeadline
        BY <1>t, <3>5, Numbers, ClockEnds
      <4> QED BY <1>t, <4>1 DEF Reprieve
    <3> QED BY <1>t, <3>2, <3>4, <3>6
  <2>3. settledOn' = tick[t].bid
    BY <1>2, Settled
  <2> QED BY <1>c, <2>1, <2>2, <2>3 DEF Reprieved, Reprieve
<1>3. ASSUME NEW t \in Ticks, SlideWrite(t) \/ CrunchWrite(t)
      PROVE  UNCHANGED <<setting, status, settledOn, now>>
  BY <1>3 DEF SlideWrite, CrunchWrite
<1>4. ASSUME NEW b \in Bidders, CommitBid(b)
      PROVE  UNCHANGED <<setting, status, settledOn, now>>
  BY <1>4 DEF CommitBid
<1> QED BY <1>1, <1>2, <1>3, <1>4, Steps DEF Still, Read, PassTime, row

LEMMA LadderStep ==
  ASSUME Instants, Sound, Running, LadderRunsOut, [Next]_vars
  PROVE  LadderRunsOut'
<1>t. now \in Nat /\ HardDeadline \in Nat /\ updatedAt \in Nat /\ QuietWindow \in Nat
  BY Numbers DEF Sound, Typed
<1>c. (failed' = 0 => failed = 0) /\ setting' = setting
  BY Calms
<1>1. CASE UNCHANGED <<status, minBid>> /\ now' \in {now, now + 1}
  BY <1>t, <1>c, <1>1 DEF LadderRunsOut, OnLadder, LowerTiers
<1>2. ASSUME NEW t \in Ticks, SlideWrite(t)
      PROVE  LadderRunsOut'
  <2>1. tick[t].pc = "slideWrite" /\ UNCHANGED <<now, status>>
    BY <1>2 DEF SlideWrite
  <2>2. failed = 0 /\ status = "Expired" => now >= HardDeadline
    BY <1>t, <2>1 DEF Running, Unslid, Sure
  <2> QED BY <1>c, <2>1, <2>2 DEF LadderRunsOut
<1>3. ASSUME NEW t \in Ticks, Settle(t), failed = 0, status' = "Expired", OnLadder
      PROVE  LowerTiers(minBid) = {} \/ now >= HardDeadline
  <2>1. tick[t].bid = NoBid
    BY <1>3 DEF Settle, StatusAfter
  <2>2. LatestBid = NoBid /\ closeAt <= now /\ status = "Open"
    BY <1>3, <2>1, Settled DEF Sure
  <2>3. bids = << >>
    BY <2>2, LatestIsBid DEF Sound, Typed
  <2>4. closeAt = CloseAt(updatedAt, QuietWindow, HardDeadline)
    BY <1>3, <2>2, <2>3 DEF Running, Laddered
  <2>5. closeAt \in {updatedAt + QuietWindow, HardDeadline}
    BY <1>t, <2>4, ClockEnds
  <2>6. CASE updatedAt + QuietWindow <= now
    <3>1. Slidable(now)
      BY <1>t, <1>3, <2>2, <2>3, <2>6 DEF Slidable
    <3>2. ~CanSlide
      BY <1>3 DEF Settle, Running, Walked, Past
    <3> QED BY <3>1, <3>2 DEF CanSlide
  <2> QED BY <1>t, <2>2, <2>5, <2>6
<1>4. ASSUME NEW t \in Ticks, Settle(t)
      PROVE  LadderRunsOut'
  <2>1. UNCHANGED <<setting, now, minBid, failed>>
    BY <1>4 DEF Settle
  <2> QED BY <1>3, <1>4, <2>1 DEF LadderRunsOut, OnLadder, LowerTiers
<1>5. ASSUME NEW t \in Ticks, CrunchWrite(t)
      PROVE  UNCHANGED <<status, minBid, now>>
  BY <1>5 DEF CrunchWrite
<1>6. ASSUME NEW b \in Bidders, CommitBid(b)
      PROVE  UNCHANGED <<status, minBid, now>>
  BY <1>6 DEF CommitBid
<1> QED BY <1>1, <1>2, <1>4, <1>5, <1>6, Steps DEF Still, Read, PassTime, row

IInv == Sound /\ Running /\ (Sure => Reprieved) /\ LadderRunsOut

LEMMA Inductive ==
  ASSUME Instants
  PROVE  /\ Init => IInv
         /\ IInv /\ [Next]_vars => IInv'
<1>1. Init => IInv
  BY SoundInit, RunningInit DEF IInv, Init, Reprieved, LadderRunsOut
<1>2. ASSUME IInv, [Next]_vars
      PROVE  IInv'
  BY <1>2, RunningStep, ReprievedStep, LadderStep DEF IInv
<1> QED BY <1>1, <1>2

\* The circumstances in which no sweep fails that another tick overlaps.
Calm(s) == s.inSeason \/ s.failures = 0 \/ \A t, u \in s.ticks : t = u

LEMMA CalmIsSure ==
  ASSUME Sound, Calm(setting)
  PROVE  Sure
BY SettingIs DEF Sound, Typed, Calm, Sure, Alone

\* If requests and ticks last an instant, a leader has his quiet window until the crunch window opens,
\* and in season the length of an extension: no overlap of bids, slides, sweeps and closes takes it
\* from him, as long as no sweep fails while another tick runs (run_scheduler_tick, place_auction_bid).
THEOREM ReprieveKept ==
  ASSUME Instants, \A s \in Settings : Calm(s)
  PROVE  Spec => []FullReprieve
<1>1. IInv => FullReprieve
  <2> SUFFICES ASSUME IInv
               PROVE  FullReprieve
    OBVIOUS
  <2>1. Sure /\ setting.inSeason \in BOOLEAN
    BY CalmIsSure, SettingIs DEF IInv, Sound, Typed
  <2>2. Lasting /\ Reprieved
    BY <2>1 DEF IInv, Running
  <2> QED BY <2>1, <2>2 DEF FullReprieve, Lasting, Reprieved, Reprieve
<1> QED BY <1>1, Inductive, PTL DEF Spec

\* Under the same clock, no tick expires an unbid auction that another could still slide: every tier
\* of the ladder is offered, unless a tick failed to slide it (find_unbid_open_auctions).
THEOREM LadderWalked ==
  ASSUME Instants
  PROVE  Spec => []LadderRunsOut
<1>1. IInv => LadderRunsOut
  BY DEF IInv
<1> QED BY <1>1, Inductive, PTL DEF Spec

-----------------------------------------------------------------------------
(* AscendingAuction *)

\* The circumstances in which no crunch sweep of another tick reopens what is being closed, either.
Orderly(s) ==
  \/ s.inSeason \/ \A t, u \in s.ticks : t = u
  \/ s.failures = 0 /\ CrunchStart = HardDeadline

LEMMA OrderlyIsSteady ==
  ASSUME Sound, Orderly(setting)
  PROVE  Steady
BY SettingIs DEF Sound, Typed, Orderly, Steady, Sure, Unswept, Alone

Restricted == setting.kind = "RestrictedFreeAgent"
Phase == [Open |-> "open", Closed |-> "held", Expired |-> "expired", Completed |-> "sold"][status]
Leader == Offer(IF status = "Open" THEN LatestBid ELSE settledOn)

LEMMA Phases ==
  /\ status = "Open" => Phase = "open"
  /\ status = "Closed" => Phase = "held"
  /\ status = "Expired" => Phase = "expired"
  /\ status = "Completed" => Phase = "sold"
BY DEF Phase

LEMMA OfferIs ==
  ASSUME NEW bid \in BidRecords
  PROVE  /\ Offer(bid) \in [team : Bidders, amount : 1 .. MaxAmount]
         /\ Offer(bid).amount = bid.amount /\ Offer(bid) # Offer(NoBid)
BY DEF Offer, BidRecords, NoBid

LEMMA Offered ==
  ASSUME Instants, IInv, NEW b \in Bidders, CommitBid(b)
  PROVE  Ascending!AuctionNext \/ UNCHANGED Ascending!auctionVars
<1>1. /\ LatestBid' \in {LatestBid, request[b].bid} /\ request[b].bid \in BidRecords
      /\ LatestBid = NoBid \/ request[b].bid.amount > LatestBid.amount
      /\ status = "Open" /\ UNCHANGED <<setting, status, settledOn>>
  BY Commits DEF IInv, Running
<1>2. Phase' = Phase /\ Restricted' = Restricted /\ Phase = "open"
  BY <1>1, Phases DEF Phase, Restricted
<1>3. Leader = Offer(LatestBid) /\ Leader' = Offer(LatestBid')
  BY <1>1 DEF Leader, Offer
<1>4. CASE LatestBid' = LatestBid
  <2>1. Leader' = Leader
    BY <1>3, <1>4
  <2> QED BY <1>2, <2>1 DEF Ascending!auctionVars, Phase, Restricted, Leader
<1>5. CASE LatestBid' = request[b].bid
  <2> DEFINE offer == Offer(request[b].bid)
  <2>1. offer \in [team : Bidders, amount : 1 .. MaxAmount] /\ offer.amount = request[b].bid.amount
    BY <1>1, OfferIs
  <2>2. Leader = Offer(NoBid) \/ offer.amount > Leader.amount
    <3>1. Offer(LatestBid).amount = LatestBid.amount
      BY DEF Offer
    <3> QED BY <1>1, <1>3, <2>1, <3>1
  <2>3. Leader' = offer
    BY <1>3, <1>5
  <2> HIDE DEF offer
  <2>4. Ascending!Outbid(offer)
    BY <1>2, <2>2, <2>3 DEF Ascending!Outbid, Phase, Restricted, Leader
  <2> QED BY <2>1, <2>4 DEF Ascending!AuctionNext
<1> QED BY <1>1, <1>4, <1>5

LEMMA Ended ==
  ASSUME Instants, IInv, Orderly(setting), NEW t \in Ticks, Settle(t)
  PROVE  Ascending!AuctionNext
<1>1. /\ status = "Open" /\ settledOn' = LatestBid /\ tick[t].bid = LatestBid
  BY OrderlyIsSteady, Settled DEF IInv
<1>2. LatestBid \in BidRecords \cup {NoBid}
  BY LatestIsBid DEF IInv, Sound, Typed
<1>3. setting' = setting /\ status' = StatusAfter(LatestBid)
  BY <1>1 DEF Settle
<1>4. Phase = "open" /\ Restricted' = Restricted
  BY <1>1, <1>3, Phases DEF Restricted
<1>5. status' # "Open"
  BY <1>3 DEF StatusAfter
<1>6. Leader' = Leader
  BY <1>1, <1>5 DEF Leader, Offer
<1>7. PICK o \in {"sold", "expired", "held"} :
        /\ Phase' = o /\ (o = "held" <=> Restricted)
        /\ o = "expired" => Leader = Offer(NoBid)
        /\ o = "sold" => Leader # Offer(NoBid)
  <2>1. Leader = Offer(LatestBid) /\ (LatestBid # NoBid => Leader # Offer(NoBid))
    BY <1>1, <1>2, OfferIs DEF Leader
  <2>2. CASE Restricted
    <3>1. status' = "Closed"
      BY <1>3, <2>2 DEF StatusAfter, Restricted
    <3>2. Phase' = "held"
      BY <3>1 DEF Phase
    <3> QED BY <2>2, <3>2
  <2>3. CASE ~Restricted /\ LatestBid = NoBid
    <3>1. status' = "Expired"
      BY <1>3, <2>3 DEF StatusAfter, Restricted
    <3>2. Phase' = "expired"
      BY <3>1 DEF Phase
    <3> QED BY <2>1, <2>3, <3>2
  <2>4. CASE ~Restricted /\ LatestBid # NoBid
    <3>1. status' = "Completed"
      BY <1>3, <2>4 DEF StatusAfter, Restricted
    <3>2. Phase' = "sold"
      BY <3>1 DEF Phase
    <3> QED BY <2>1, <2>4, <3>2
  <2> QED BY <2>2, <2>3, <2>4
<1>8. Ascending!Settle(o)
  BY <1>4, <1>6, <1>7 DEF Ascending!Settle, Phase, Restricted, Leader
<1> QED BY <1>8 DEF Ascending!AuctionNext

LEMMA OthersStutter ==
  ASSUME UNCHANGED <<setting, status, bids, settledOn>>
  PROVE  UNCHANGED Ascending!auctionVars
BY DEF Ascending!auctionVars, Offer, LatestBid

LEMMA StepsAscend ==
  ASSUME Instants, IInv, Orderly(setting), [Next]_vars
  PROVE  [Ascending!AuctionNext]_Ascending!auctionVars
<1>1. ASSUME NEW t \in Ticks, SlideWrite(t) \/ CrunchWrite(t)
      PROVE  UNCHANGED <<setting, status, bids, settledOn>>
  BY <1>1 DEF SlideWrite, CrunchWrite
<1>2. Still \/ Read \/ PassTime => UNCHANGED <<setting, status, bids, settledOn>>
  BY DEF Still, Read, PassTime, row
<1> QED BY <1>1, <1>2, Steps, Offered, Ended, OthersStutter

\* If requests and ticks last an instant, the auction is an ascending one: who leads when it closes is
\* who it is settled on, at his price, and no bid is accepted and lost.  In season that holds however
\* ticks overlap and fail; in the preseason of one tick at a time, or of ticks that do not fail where
\* no crunch window shortens the clock (end_veteran_auction, end_fa_auction, place_auction_bid).
THEOREM LeaderKept ==
  ASSUME Instants, \A s \in Settings : Orderly(s)
  PROVE  Spec => ImplementsAuction
<1>1. Init => Ascending!AuctionInit
  <2> SUFFICES ASSUME Init
               PROVE  Ascending!AuctionInit
    OBVIOUS
  <2>1. status = "Open" /\ LatestBid = NoBid
    BY DEF Init, LatestBid, LatestOf
  <2>2. Phase = "open"
    BY <2>1, Phases
  <2> QED BY <2>1, <2>2 DEF Ascending!AuctionInit, Phase
<1>2. IInv /\ [Next]_vars => [Ascending!AuctionNext]_Ascending!auctionVars
  BY StepsAscend DEF IInv, Sound, Typed
<1> QED BY <1>1, <1>2, Inductive, PTL DEF Spec, ImplementsAuction, Ascending!AuctionSpec

-----------------------------------------------------------------------------
(* The crunch sweep *)

\* What a sweep has listed only a bid can have changed since, if no other tick runs.
Shorter ==
  Alone => \A t \in Ticks :
    /\ tick[t].pc = "crunchBid" =>
         closeAt = tick[t].closeAt \/ closeAt = CloseAt(now, CrunchQuiet, HardDeadline)
    /\ tick[t].pc = "crunchWrite" => tick[t].closeAt <= closeAt

LEMMA Sweeps ==
  ASSUME Sound, Timely, NEW t \in Ticks, Reads(t)
  PROVE  /\ tick'[t].pc = "crunchBid" => tick'[t].closeAt = closeAt
         /\ tick'[t].pc = "crunchWrite" =>
              /\ tick[t].pc = "crunchBid" /\ tick'[t].closeAt < tick[t].closeAt /\ LatestBid # NoBid
              /\ tick'[t].closeAt = CloseAt(LatestBid.at, CrunchQuiet, HardDeadline)
<1>t. tick \in [Ticks -> TickStates]
  BY DEF Sound, Typed
<1>1. CASE StartTick(t)
  BY <1>1, Starts
<1>2. CASE ListUnbid(t)
  BY <1>2, Lists DEF Goes
<1>3. CASE ListOpen(t)
  <2>1. CASE InCrunch(tick[t].at) /\ status = "Open"
    <3>1. tick' = [tick EXCEPT ![t] = [At(t, "crunchBid") EXCEPT !.closeAt = closeAt]]
      BY <1>3, <2>1 DEF ListOpen, Go
    <3> QED BY <1>t, <3>1 DEF At, TickStates
  <2>2. CASE ~(InCrunch(tick[t].at) /\ status = "Open")
    <3>1. tick' = [tick EXCEPT ![t] = At(t, "due")]
      BY <1>3, <2>2 DEF ListOpen, Go
    <3> QED BY <1>t, <3>1 DEF At, TickStates
  <2> QED BY <2>1, <2>2
<1>4. CASE ReadCrunchBid(t)
  <2>1. tick[t].pc = "crunchBid"
    BY <1>4 DEF ReadCrunchBid
  <2>2. CASE LatestBid # NoBid /\ ShortenedTo(t) < tick[t].closeAt
    <3>1. tick' = [tick EXCEPT ![t] = [At(t, "crunchWrite") EXCEPT !.closeAt = ShortenedTo(t)]]
      BY <1>4, <2>2 DEF ReadCrunchBid, Go
    <3> QED BY <1>t, <2>1, <2>2, <3>1 DEF At, TickStates, ShortenedTo
  <2>3. CASE ~(LatestBid # NoBid /\ ShortenedTo(t) < tick[t].closeAt)
    <3>1. tick' = [tick EXCEPT ![t] = [At(t, "due") EXCEPT !.closeAt = 0]]
      BY <1>4, <2>3 DEF ReadCrunchBid, Go
    <3> QED BY <1>t, <3>1 DEF At, TickStates
  <2> QED BY <2>2, <2>3
<1>5. CASE SweepFails(t)
  BY <1>5, SweepsOn DEF Goes
<1>6. CASE ListDue(t)
  BY <1>6, Lists DEF Goes
<1>7. CASE ClaimClose(t) \/ CloseFails(t)
  BY <1>7, Closes DEF Goes
<1> QED BY <1>1, <1>2, <1>3, <1>4, <1>5, <1>6, <1>7 DEF Reads

LEMMA ShorterStep ==
  ASSUME Instants, Sound, Timely, Swept, Shorter, [Next]_vars
  PROVE  Shorter'
<1>t. /\ now \in Nat /\ closeAt \in Nat /\ HardDeadline \in Nat /\ CrunchStart \in Nat
      /\ CrunchQuiet \in Nat /\ tick \in [Ticks -> TickStates]
  BY Numbers DEF Sound, Typed
<1>c. Alone' <=> Alone
  BY Calms
<1>1. CASE UNCHANGED <<now, closeAt, tick>>
  BY <1>c, <1>1 DEF Shorter
<1>2. CASE PassTime
  <2>1. tick' = tick
    BY <1>2 DEF PassTime
  <2> QED BY <1>2, <2>1, AtRest DEF Shorter
<1>3. ASSUME NEW b \in Bidders, CommitBid(b)
      PROVE  Shorter'
  <2>1. /\ now' = now /\ tick' = tick /\ closeAt' = CloseAt(now, QuietAt(now), allBid')
        /\ ~setting.inSeason => allBid' = HardDeadline
    BY <1>3, Commits
  <2>2. ASSUME NEW t \in Ticks, tick[t].pc \in {"crunchBid", "crunchWrite"}
        PROVE  closeAt' = CloseAt(now, CrunchQuiet, HardDeadline)
    <3>1. ~setting.inSeason /\ now >= CrunchStart
      BY <2>2, Writers
    <3> QED BY <2>1, <3>1 DEF QuietAt, InCrunch
  <2>3. ASSUME NEW t \in Ticks, tick[t].pc = "crunchWrite"
        PROVE  tick[t].closeAt <= closeAt'
    <3>1. PICK i \in DOMAIN bids : tick[t].closeAt = CloseAt(bids[i].at, CrunchQuiet, HardDeadline)
      BY <2>3 DEF Swept
    <3>2. \A j \in DOMAIN bids : bids[j] \in BidRecords
      BY ElementOfSeq DEF Sound, Typed
    <3>3. bids[i].at \in Nat /\ bids[i].at <= now
      BY <3>2 DEF BidRecords, Timely
    <3> QED BY <1>t, <2>2, <2>3, <3>1, <3>3, ClockGrows
  <2> QED BY <2>1, <2>2, <2>3 DEF Shorter
<1>4. ASSUME NEW t \in Ticks, Reads(t), Read
      PROVE  Shorter'
  <2>1. UNCHANGED <<now, closeAt>>
    BY <1>4 DEF Read, row
  <2>2. ASSUME Alone, tick'[t].pc = "crunchWrite"
        PROVE  tick'[t].closeAt <= closeAt
    <3>1. /\ tick[t].pc = "crunchBid" /\ tick'[t].closeAt < tick[t].closeAt /\ LatestBid # NoBid
          /\ tick'[t].closeAt = CloseAt(LatestBid.at, CrunchQuiet, HardDeadline)
      BY <1>4, <2>2, Sweeps
    <3>2. LatestBid.at \in Nat /\ LatestBid.at <= now
      BY <3>1, LatestIsBid, LatestPast DEF Sound, Typed
    <3>3. tick'[t].closeAt <= CloseAt(now, CrunchQuiet, HardDeadline)
      BY <1>t, <3>1, <3>2, ClockGrows
    <3>4. closeAt = tick[t].closeAt \/ closeAt = CloseAt(now, CrunchQuiet, HardDeadline)
      BY <2>2, <3>1 DEF Shorter
    <3>5. CloseAt(LatestBid.at, CrunchQuiet, HardDeadline) \in 0 .. HardDeadline
      BY <1>t, <3>2, ClockEnds
    <3> QED BY <1>t, <3>1, <3>3, <3>4, <3>5
  <2>3. \A u \in Ticks \ {t} : tick'[u] = tick[u]
    BY <1>4, TicksGo
  <2>4. tick'[t].pc = "crunchBid" => tick'[t].closeAt = closeAt
    BY <1>4, Sweeps
  <2> QED BY <1>c, <2>1, <2>2, <2>3, <2>4 DEF Shorter
<1>5. ASSUME NEW t \in Ticks, SlideWrite(t) \/ CrunchWrite(t) \/ Settle(t), Alone,
             NEW u \in Ticks, tick'[u].pc \in {"crunchBid", "crunchWrite"}
      PROVE  FALSE
  <2>1. u # t /\ tick'[u] = tick[u]
    BY <1>5, Leaves
  <2>2. tick[t].pc # "off"
    BY <1>5 DEF SlideWrite, CrunchWrite, Settle
  <2>3. t \in setting.ticks /\ u \in setting.ticks
    BY <1>5, <2>1, <2>2 DEF Sound, Claimed
  <2> QED BY <1>5, <2>1, <2>3 DEF Alone
<1>6. ASSUME NEW t \in Ticks, SlideWrite(t) \/ CrunchWrite(t) \/ Settle(t)
      PROVE  Shorter'
  BY <1>c, <1>5, <1>6 DEF Shorter
<1> QED BY <1>1, <1>2, <1>3, <1>4, <1>6, Steps DEF Still, row

\* As long as ticks come one after the other, a sweep moves a close time only earlier, whatever bids
\* commit between its statements: what crunch_window.rs says of itself.
THEOREM SweepsInTurn ==
  ASSUME Instants, \A s \in Settings : s.inSeason \/ \A t, u \in s.ticks : t = u
  PROVE  Spec => SweepsOnlyShorten
<1>1. Init => IInv /\ Shorter
  BY Inductive DEF Init, IdleTick, Shorter
<1>2. IInv /\ Shorter /\ [Next]_vars => (IInv /\ Shorter)'
  BY Inductive, ShorterStep DEF IInv, Running
<1>3. IInv /\ Shorter => [\A t \in Ticks : CrunchWrite(t) => closeAt' <= closeAt]_vars
  <2> SUFFICES ASSUME IInv, Shorter, NEW t \in Ticks, CrunchWrite(t)
               PROVE  closeAt' <= closeAt
    OBVIOUS
  <2>1. tick[t].pc = "crunchWrite" /\ closeAt' = tick[t].closeAt
    BY DEF CrunchWrite
  <2>2. ~setting.inSeason
    BY <2>1, Writers DEF IInv, Running
  <2>3. Alone
    BY <2>2 DEF Alone, IInv, Sound, Typed
  <2> QED BY <2>1, <2>3 DEF Shorter
<1> QED BY <1>1, <1>2, <1>3, PTL DEF Spec, SweepsOnlyShorten
=============================================================================
