------------------------- MODULE RfaHandshakeProofs -------------------------
(***************************************************************************)
(* Proofs about RfaHandshake, for any number of bidders, picks, prices and *)
(* racing requests: what every interleaving keeps first, then that         *)
(* RfaHandshake implements RfaRules.                                       *)
(* Type correctness rests on UnbidWaits: the original owner settles an     *)
(* unbid player only once his auction has closed.                          *)
(***************************************************************************)
EXTENDS RfaHandshake, TLAPS

UnbidWaits == \A s \in Settings : s.ownerWaits

Auctions == {"Open", "Closed", "Completed", "Expired"}
Statuses == {"AwaitingAuction", "AwaitingRaise", "AwaitingMatch"} \cup Terminal
Unwon == {"AwaitingAuction", "NoBidResigned", "NoBidToAuction"}
ChainRow ==
  [kind : {"rfa", "signed", "expired"}, team : Teams \cup {None}, price : 0 .. MaxAmount,
   live : BOOLEAN]
Unbids == {"resign", "release"}
OnWinner == {"raise", "standPat", "match", "decline"}
Signing == {"match", "decline"} \cup Unbids
RequestState ==
  [pc : {"idle", "contract", "write"}, kind : {None, "change"} \cup Unbids \cup OnWinner,
   amount : 0 .. MaxAmount, named : PickRows, row : Nat]

-----------------------------------------------------------------------------
(* The inductive invariant, part by part *)

Typed ==
  /\ setting \in Settings
  /\ auction \in Auctions
  /\ lead \in {NoBid} \cup [team : Bidders, amount : Amounts]
  /\ res \in [status : Statuses, winner : Bidders \cup {None}, final : 0 .. MaxAmount,
              raised : 0 .. MaxAmount]
  /\ windowOver \in BOOLEAN
  /\ named \in PickRows
  /\ holder \in [Picks -> Teams]
  /\ chain \in Seq(ChainRow) /\ Len(chain) > 0
  /\ forfeited \in Picks \cup {None}
  /\ request \in [Requests -> RequestState]

\* The unique index on Active contracts; and rows are never deleted.
ChainOK ==
  /\ \A i, j \in DOMAIN chain : chain[i].live /\ chain[j].live => i = j
  /\ \A r \in Requests :
       /\ request[r].row \in 0 .. Len(chain)
       /\ request[r].pc = "write" /\ request[r].kind \in Signing => request[r].row # 0

\* Once there is a winner he stays: what follows a raise window is about him.
WinnerStays ==
  /\ res.status \in {"AwaitingRaise", "AwaitingMatch"} => res.winner # None
  /\ \A r \in Requests :
       request[r].pc # "idle" =>
         /\ request[r].kind \in OnWinner => res.winner # None
         /\ request[r].kind = "decline" /\ request[r].pc = "write" => request[r].named # NoPick

Safe == Typed /\ ChainOK /\ WinnerStays /\ PickPaysForPlayer

\* A player is only settled as unbid when he has no winner, and can get none any more.
UnbidHasNoWinner ==
  /\ res.winner = None <=> res.status \in Unwon
  /\ \A r \in Requests :
       request[r].pc # "idle" /\ request[r].kind \in Unbids =>
         res.winner = None /\ auction # "Open"

-----------------------------------------------------------------------------
(* Helpers *)

LEMMA NoneIsNobody ==
  /\ None \notin Bidders /\ None # OriginalOwner /\ None \notin Picks /\ OriginalOwner \notin Bidders
BY HandshakeConstants DEF Teams

LEMMA IdleTyped == Idle \in RequestState /\ Idle.pc = "idle" /\ Idle.row = 0
BY HandshakeConstants DEF Idle, RequestState, PickRows, NoPick

\* What signing or releasing the player does to the chain: the row that was read is closed, the
\* others stay, and the new one is the last.
LEMMA ChainReplaced ==
  ASSUME Typed, ChainOK, NEW i \in DOMAIN chain, NEW new \in ChainRow, CanReplace(i, new),
         chain' = Replaced(i, new)
  PROVE  /\ chain' \in Seq(ChainRow) /\ Len(chain') = Len(chain) + 1 /\ Len(chain) \in Nat
         /\ \A j, k \in DOMAIN chain' : chain'[j].live /\ chain'[k].live => j = k
         /\ (\E j \in DOMAIN chain' : chain'[j].team \in Bidders)
              <=> (new.team \in Bidders \/ \E j \in DOMAIN chain : chain[j].team \in Bidders)
         /\ chain'[Len(chain')] = new
<1> DEFINE closed == [chain EXCEPT ![i].live = FALSE]
           after == Append(closed, new)
<1>1. chain \in Seq(ChainRow)
  BY DEF Typed
<1>2. /\ DOMAIN chain = 1 .. Len(chain) /\ Len(chain) \in Nat
      /\ \A j \in 1 .. Len(chain) : chain[j] \in ChainRow
  BY <1>1
<1>3. closed \in [1 .. Len(chain) -> ChainRow]
  BY <1>1, <1>2 DEF ChainRow
<1>4. closed \in Seq(ChainRow) /\ Len(closed) = Len(chain)
  BY <1>2, <1>3
<1>5. \A j \in DOMAIN chain :
        closed[j].team = chain[j].team /\ closed[j].live = (chain[j].live /\ j # i)
  BY <1>2 DEF ChainRow
<1>6. chain' = after
  BY DEF Replaced
<1> HIDE DEF closed
<1>7. /\ after \in Seq(ChainRow) /\ Len(after) = Len(chain) + 1
      /\ \A j \in DOMAIN chain : after[j] = closed[j]
      /\ after[Len(chain) + 1] = new
  BY <1>2, <1>4
<1> HIDE DEF after
<1>8. DOMAIN after = DOMAIN chain \cup {Len(chain) + 1}
  BY <1>2, <1>7
<1>9. ASSUME NEW j \in DOMAIN after, NEW k \in DOMAIN after, after[j].live, after[k].live
      PROVE  j = k
  <2>1. CASE new.live
    <3>1. \A m \in DOMAIN chain : ~after[m].live
      BY <1>5, <1>7, <2>1 DEF CanReplace
    <3> QED BY <1>8, <1>9, <3>1
  <2>2. CASE ~new.live
    BY <1>5, <1>7, <1>8, <1>9, <2>2 DEF ChainOK
  <2> QED BY <2>1, <2>2
<1>10. (\E j \in DOMAIN after : after[j].team \in Bidders)
        <=> (new.team \in Bidders \/ \E j \in DOMAIN chain : chain[j].team \in Bidders)
  BY <1>5, <1>7, <1>8
<1> QED BY <1>2, <1>6, <1>7, <1>9, <1>10

-----------------------------------------------------------------------------
(* Every step keeps it *)

LEMMA SafeInit == Init => Safe
<1> SUFFICES ASSUME Init
             PROVE  Safe
  OBVIOUS
<1> USE HandshakeConstants, NoneIsNobody
<1>1. RfaRow \in ChainRow
  BY DEF RfaRow, ChainRow, Teams
<1>2. chain \in Seq(ChainRow) /\ Len(chain) = 1 /\ chain[1] = RfaRow /\ DOMAIN chain = {1}
  BY <1>1 DEF Init
<1>3. Typed
  <2>1. res \in [status : Statuses, winner : Bidders \cup {None}, final : 0 .. MaxAmount,
                 raised : 0 .. MaxAmount]
    BY DEF Init, Statuses
  <2>2. request \in [Requests -> RequestState]
    BY IdleTyped DEF Init
  <2>3. /\ setting \in Settings /\ auction \in Auctions /\ lead \in {NoBid} /\ windowOver \in BOOLEAN
        /\ named \in PickRows /\ holder \in [Picks -> Teams] /\ forfeited = None
    BY DEF Init, Auctions, PickRows
  <2> QED BY <1>2, <2>1, <2>2, <2>3 DEF Typed
<1>4. ChainOK
  BY <1>2, IdleTyped DEF Init, ChainOK
<1>5. WinnerStays
  BY IdleTyped DEF Init, WinnerStays
<1>6. PickPaysForPlayer
  BY <1>2 DEF Init, PickPaysForPlayer, RfaRow
<1> QED BY <1>3, <1>4, <1>5, <1>6 DEF Safe

LEMMA SafeSameChain ==
  ASSUME Safe, UNCHANGED <<chain, forfeited>>, Typed', WinnerStays',
         \A r \in Requests :
           /\ request'[r].row \in 0 .. Len(chain)
           /\ request'[r].pc = "write" /\ request'[r].kind \in Signing => request'[r].row # 0
  PROVE  Safe'
BY DEF Safe, ChainOK, PickPaysForPlayer

\* A request begins: it has read the resolution, and no contract row yet.
LEMMA SafeStart ==
  ASSUME Safe, NEW r \in Requests, NEW kind \in {"change"} \cup Unbids \cup OnWinner,
         NEW pc \in {"contract", "write"}, NEW amount \in 0 .. MaxAmount, NEW pick \in PickRows,
         kind \in OnWinner => res.winner # None, kind \in Signing => pc = "contract",
         Start(r, kind, pc, amount, pick)
  PROVE  Safe'
<1> DEFINE q == [pc |-> pc, kind |-> kind, amount |-> amount, named |-> pick, row |-> 0]
<1> USE DEF Safe
<1>1. /\ request' = [request EXCEPT ![r] = q]
      /\ UNCHANGED <<setting, auction, lead, res, windowOver, named, holder, chain, forfeited>>
  BY DEF Start
<1>2. q \in RequestState /\ q.pc = pc /\ q.kind = kind /\ q.row = 0
  BY DEF RequestState
<1> HIDE DEF q
<1>3. request'[r] = q /\ \A s \in Requests \ {r} : request'[s] = request[s]
  BY <1>1 DEF Typed
<1>4. Typed'
  BY <1>1, <1>2 DEF Typed
<1>5. WinnerStays'
  BY <1>1, <1>2, <1>3 DEF WinnerStays, Signing
<1>6. \A s \in Requests :
        /\ request'[s].row \in 0 .. Len(chain)
        /\ request'[s].pc = "write" /\ request'[s].kind \in Signing => request'[s].row # 0
  BY <1>2, <1>3 DEF ChainOK, Typed
<1> QED BY <1>1, <1>4, <1>5, <1>6, SafeSameChain

LEMMA NamedTyped ==
  ASSUME Safe, NEW team \in Bidders, NEW pick \in Picks, NEW amount \in Amounts
  PROVE  [from |-> team, pick |-> pick, round |-> RoundFor[amount]] \in PickRows
BY HandshakeConstants DEF PickRows

LEMMA SafeBegin ==
  ASSUME Safe, NEW r \in Requests, Begin(r) \/ ExpireRaise(r) \/ ExpireMatch(r)
  PROVE  Safe'
<1> USE DEF Unbids, OnWinner, Signing
<1>1. NoPick \in PickRows /\ 0 \in 0 .. MaxAmount
  BY HandshakeConstants DEF PickRows
<1>2. res.status \in {"AwaitingRaise", "AwaitingMatch"} => res.winner \in Bidders
  BY DEF Safe, Typed, WinnerStays
<1>3. ASSUME NEW amount \in Amounts, NEW pick \in Picks, BeginRaise(r, amount, pick)
      PROVE  Safe'
  <2>1. amount \in 0 .. MaxAmount
    BY HandshakeConstants DEF Amounts
  <2> QED BY <1>2, <1>3, <2>1, NamedTyped, SafeStart, NoneIsNobody DEF BeginRaise
<1>4. ASSUME NEW pick \in Picks, BeginChange(r, pick)
      PROVE  Safe'
  <2>1. [named EXCEPT !.pick = pick] \in PickRows
    BY <1>4 DEF BeginChange, Safe, Typed, PickRows
  <2> QED BY <1>1, <1>4, <2>1, SafeStart DEF BeginChange
<1>5. CASE BeginStandPat(r) \/ ExpireRaise(r)
  BY <1>1, <1>2, <1>5, SafeStart, NoneIsNobody DEF BeginStandPat, ExpireRaise
<1>6. EffectiveBid \in 0 .. MaxAmount
  BY DEF EffectiveBid, Safe, Typed
<1>7. CASE BeginMatch(r)
  BY <1>1, <1>2, <1>6, <1>7, SafeStart, NoneIsNobody DEF BeginMatch
<1>8. CASE BeginDecline(r) \/ ExpireMatch(r)
  BY <1>1, <1>2, <1>6, <1>8, SafeStart, NoneIsNobody DEF BeginDecline, ExpireMatch
<1>9. ASSUME NEW kind \in Unbids, BeginUnbid(r, kind)
      PROVE  Safe'
  BY <1>1, <1>9, SafeStart DEF BeginUnbid
<1> QED BY <1>3, <1>4, <1>5, <1>7, <1>8, <1>9 DEF Begin

\* A request goes on: it has read the contract row that it will close.
LEMMA SafeRead ==
  ASSUME Safe, NEW r \in Requests, ReadChain(r) \/ ReadForfeit(r)
  PROVE  Safe'
<1> USE DEF Safe
<1>1. PICK row \in DOMAIN chain, pick \in PickRows :
        /\ request[r].pc = "contract" /\ request[r].kind = "decline" => pick # NoPick
        /\ request' = [request EXCEPT ![r].pc = "write", ![r].row = row, ![r].named = pick]
        /\ UNCHANGED <<setting, auction, lead, res, windowOver, named, holder, chain, forfeited>>
  <2>1. Len(chain) \in DOMAIN chain /\ 1 \in DOMAIN chain
    BY DEF Typed
  <2>2. CASE ReadChain(r)
    <3>1. request[r].named \in PickRows /\ request[r].kind # "decline"
      BY <2>2 DEF ReadChain, Typed, RequestState
    <3>2. request' = [request EXCEPT ![r].pc = "write", ![r].row = Latest, ![r].named = request[r].named]
      BY <2>2 DEF ReadChain, Typed, RequestState
    <3> QED BY <2>1, <2>2, <3>1, <3>2 DEF ReadChain, Latest
  <2>3. CASE ReadForfeit(r)
    BY <2>1, <2>3 DEF ReadForfeit, Typed
  <2> QED BY <2>2, <2>3
<1>2. request[r].pc = "contract" /\ request[r] \in RequestState
  BY DEF ReadChain, ReadForfeit, Typed
<1> DEFINE q == [request[r] EXCEPT !.pc = "write", !.row = row, !.named = pick]
<1>3. request' = [request EXCEPT ![r] = q]
  BY <1>1 DEF Typed
<1>4. row \in Nat /\ row \in 0 .. Len(chain) /\ row # 0
  BY DEF Typed
<1>5. /\ q \in RequestState /\ q.pc = "write" /\ q.kind = request[r].kind
      /\ q.row = row /\ q.named = pick
  BY <1>2, <1>4 DEF RequestState
<1> HIDE DEF q
<1>6. request'[r] = q /\ \A s \in Requests \ {r} : request'[s] = request[s]
  BY <1>3 DEF Typed
<1>7. Typed'
  <2>1. request' \in [Requests -> RequestState]
    BY <1>3, <1>5 DEF Typed
  <2> QED BY <1>1, <2>1 DEF Typed
<1>8. WinnerStays'
  BY <1>1, <1>2, <1>5, <1>6 DEF WinnerStays
<1>9. \A s \in Requests :
        /\ request'[s].row \in 0 .. Len(chain)
        /\ request'[s].pc = "write" /\ request'[s].kind \in Signing => request'[s].row # 0
  BY <1>4, <1>5, <1>6 DEF ChainOK
<1> QED BY <1>1, <1>7, <1>8, <1>9, SafeSameChain

LEMMA RequestEnds ==
  ASSUME Safe, NEW r \in Requests, Done(r)
  PROVE  /\ request' \in [Requests -> RequestState]
         /\ request'[r] = Idle
         /\ \A s \in Requests \ {r} : request'[s] = request[s]
         /\ \A s \in Requests :
              /\ request'[s].row \in 0 .. Len(chain)
              /\ request'[s].pc = "write" /\ request'[s].kind \in Signing => request'[s].row # 0
BY IdleTyped DEF Safe, Typed, ChainOK, Done

LEMMA SafeWriteTerms ==
  ASSUME Safe, NEW r \in Requests, WriteRaise(r) \/ WriteStandPat(r) \/ WriteChange(r) \/ Abort(r)
  PROVE  Safe'
<1>1. Done(r) /\ UNCHANGED <<setting, auction, lead, holder, chain, forfeited>>
  BY DEF WriteRaise, WriteStandPat, WriteChange, Abort
<1>2. request[r] \in RequestState /\ request[r].pc # "idle"
  BY DEF Safe, Typed, WriteRaise, WriteStandPat, WriteChange, Abort
<1>3. named' \in PickRows /\ windowOver' \in BOOLEAN
  BY <1>2 DEF Safe, Typed, WriteRaise, WriteStandPat, WriteChange, Abort, RequestState
<1>4. /\ res' \in [status : Statuses, winner : Bidders \cup {None}, final : 0 .. MaxAmount,
                    raised : 0 .. MaxAmount]
      /\ res'.winner = res.winner
      /\ res'.status = res.status \/ (res'.status = "AwaitingMatch" /\ res.winner # None)
  <2>1. CASE WriteRaise(r)
    <3>1. request[r].amount \in 0 .. MaxAmount
      BY <1>2 DEF RequestState
    <3>2. res.winner # None
      BY <1>2, <2>1 DEF Safe, WinnerStays, WriteRaise, OnWinner
    <3> QED BY <2>1, <3>1, <3>2 DEF Safe, Typed, WriteRaise, Statuses
  <2>2. CASE WriteStandPat(r)
    BY <1>2, <2>2 DEF Safe, Typed, WinnerStays, WriteStandPat, Statuses, OnWinner
  <2>3. CASE WriteChange(r) \/ Abort(r)
    <3>1. res' = res
      BY <2>3 DEF WriteChange, Abort
    <3> QED BY <3>1 DEF Safe, Typed
  <2> QED BY <2>1, <2>2, <2>3
<1>5. Typed'
  BY <1>1, <1>3, <1>4, RequestEnds DEF Safe, Typed
<1>6. WinnerStays'
  BY <1>1, <1>4, RequestEnds, IdleTyped DEF Safe, WinnerStays
<1> QED BY <1>1, <1>5, <1>6, RequestEnds, SafeSameChain

\* The player is signed or released: the chain gets its last row.
LEMMA SafeSign ==
  ASSUME Safe, NEW r \in Requests, Done(r), request[r].pc = "write", request[r].kind \in Signing,
         NEW new \in ChainRow, CanReplace(request[r].row, new),
         chain' = Replaced(request[r].row, new),
         NEW status \in Terminal, Finish(status), auction' \in Auctions,
         UNCHANGED <<setting, lead, windowOver, named>>, holder' \in [Picks -> Teams],
         \/ new.team \notin Bidders /\ UNCHANGED forfeited
         \/ new.team \in Bidders /\ forfeited' \in Picks
  PROVE  Safe'
<1> USE DEF Safe
<1>1. request[r].row \in DOMAIN chain
  BY DEF ChainOK, Typed, RequestState
<1>2. /\ chain' \in Seq(ChainRow) /\ Len(chain') = Len(chain) + 1 /\ Len(chain) \in Nat
      /\ \A j, k \in DOMAIN chain' : chain'[j].live /\ chain'[k].live => j = k
      /\ (\E j \in DOMAIN chain' : chain'[j].team \in Bidders)
           <=> (new.team \in Bidders \/ \E j \in DOMAIN chain : chain[j].team \in Bidders)
  BY <1>1, ChainReplaced
<1>3. /\ res' \in [status : Statuses, winner : Bidders \cup {None}, final : 0 .. MaxAmount,
                    raised : 0 .. MaxAmount]
      /\ res'.winner = res.winner /\ res'.status = status
  BY DEF Typed, Finish, Statuses
<1>4. forfeited' \in Picks \cup {None}
  BY DEF Typed
<1>5. Typed'
  BY <1>2, <1>3, <1>4, RequestEnds DEF Typed
<1>6. ChainOK'
  BY <1>2, RequestEnds DEF ChainOK
<1>7. WinnerStays'
  BY <1>3, RequestEnds, IdleTyped DEF WinnerStays, Terminal
<1>8. PickPaysForPlayer'
  BY <1>2, NoneIsNobody DEF PickPaysForPlayer
<1> QED BY <1>5, <1>6, <1>7, <1>8

LEMMA SafeWriteSigning ==
  ASSUME Safe, NEW r \in Requests, WriteMatch(r) \/ WriteDecline(r) \/ WriteUnbid(r)
  PROVE  Safe'
<1> USE DEF Signing, Unbids, Terminal, Auctions
<1>1. request[r] \in RequestState /\ auction \in Auctions /\ holder \in [Picks -> Teams]
  BY DEF Safe, Typed
<1>2. \A team \in Teams, price \in 0 .. MaxAmount :
        SignedRow(team, price) \in ChainRow /\ SignedRow(team, price).team = team
  BY DEF SignedRow, ChainRow
<1>3. ExpiredRow \in ChainRow /\ ExpiredRow.team = None
  BY HandshakeConstants DEF ExpiredRow, ChainRow
<1>4. OriginalOwner \in Teams /\ Bidders \subseteq Teams /\ 0 \in 0 .. MaxAmount
  BY HandshakeConstants DEF Teams
<1>5. CASE WriteMatch(r)
  <2>1. request[r].amount \in 0 .. MaxAmount
    BY <1>1 DEF RequestState
  <2> QED BY <1>1, <1>2, <1>4, <1>5, <2>1, SafeSign, NoneIsNobody DEF WriteMatch
<1>6. CASE WriteDecline(r)
  <2>1. request[r].amount \in 0 .. MaxAmount /\ request[r].named \in PickRows
    BY <1>1 DEF RequestState
  <2>2. res.winner \in Bidders /\ request[r].named.pick \in Picks
    BY <1>6, <2>1 DEF WriteDecline, Safe, Typed, WinnerStays, OnWinner, PickRows
  <2>3. holder' \in [Picks -> Teams] /\ forfeited' \in Picks
    BY <1>1, <1>4, <1>6, <2>2 DEF WriteDecline, RecordForfeit
  <2> QED BY <1>2, <1>4, <1>6, <2>1, <2>2, <2>3, SafeSign DEF WriteDecline, WinnerSigns
<1>7. CASE WriteUnbid(r)
  <2>1. auction' \in Auctions
    BY <1>1, <1>7 DEF WriteUnbid, SettledUnbid
  <2>2. CASE request[r].kind = "resign"
    BY <1>1, <1>2, <1>4, <1>7, <2>1, <2>2, SafeSign, NoneIsNobody DEF WriteUnbid
  <2>3. CASE request[r].kind = "release"
    BY <1>1, <1>3, <1>7, <2>1, <2>3, SafeSign, NoneIsNobody DEF WriteUnbid
  <2> QED BY <1>7, <2>2, <2>3 DEF WriteUnbid
<1> QED BY <1>5, <1>6, <1>7

LEMMA SafeLeague ==
  ASSUME Safe,
         \/ \E team \in Bidders, amount \in Amounts, pick \in Picks : PlaceBid(team, amount, pick)
         \/ CloseAuction \/ WindowRunsOut \/ UNCHANGED vars
         \/ \E pick \in Picks, team \in Teams : TradePick(pick, team)
  PROVE  Safe'
<1> USE DEF Safe
<1>1. UNCHANGED <<setting, chain, forfeited, request>>
  BY DEF PlaceBid, CloseAuction, WindowRunsOut, TradePick, vars
<1>2. auction' \in Auctions /\ windowOver' \in BOOLEAN /\ holder' \in [Picks -> Teams]
  BY DEF Typed, PlaceBid, CloseAuction, WindowRunsOut, TradePick, vars, Auctions
<1>3. lead' \in {NoBid} \cup [team : Bidders, amount : Amounts] /\ named' \in PickRows
  BY NamedTyped DEF Typed, PlaceBid, CloseAuction, WindowRunsOut, TradePick, vars
<1>4. /\ res' \in [status : Statuses, winner : Bidders \cup {None}, final : 0 .. MaxAmount,
                    raised : 0 .. MaxAmount]
      /\ res' = res \/ res'.winner # None
  <2>1. CASE CloseAuction
    <3>1. CASE lead # NoBid /\ res.status = "AwaitingAuction"
      <4>1. lead.team \in Bidders /\ lead.amount \in 0 .. MaxAmount /\ 0 \in 0 .. MaxAmount
        BY <3>1, HandshakeConstants DEF Typed, Amounts
      <4> QED BY <2>1, <3>1, <4>1, NoneIsNobody DEF CloseAuction, RaiseWindow, Statuses
    <3>2. CASE ~(lead # NoBid /\ res.status = "AwaitingAuction")
      BY <2>1, <3>2 DEF CloseAuction, Typed
    <3> QED BY <3>1, <3>2
  <2>2. CASE ~CloseAuction
    BY <2>2 DEF Typed, PlaceBid, WindowRunsOut, TradePick, vars
  <2> QED BY <2>1, <2>2
<1>5. Typed'
  BY <1>1, <1>2, <1>3, <1>4 DEF Typed
<1>6. WinnerStays'
  BY <1>1, <1>4 DEF WinnerStays
<1> QED BY <1>1, <1>5, <1>6, SafeSameChain DEF ChainOK

LEMMA SafeStep == Safe /\ [Next]_vars => Safe'
BY SafeBegin, SafeRead, SafeWriteTerms, SafeWriteSigning, SafeLeague DEF Next, Write

\* Whatever requests race, the winner has the player exactly when the original owner has been
\* paid with a pick (resolve_rfa_auction_to_winning_bid, forfeit_pick_to_original_owner).
THEOREM PlayerIsPaidFor == Spec => []PickPaysForPlayer
<1>1. Safe => PickPaysForPlayer
  BY DEF Safe
<1> QED BY <1>1, SafeInit, SafeStep, PTL DEF Spec

-----------------------------------------------------------------------------
(* Type correctness *)

LEMMA UnbidInit == Init => UnbidHasNoWinner
BY IdleTyped, NoneIsNobody DEF Init, UnbidHasNoWinner, Unwon

LEMMA UnbidStep == UnbidWaits /\ Safe /\ UnbidHasNoWinner /\ [Next]_vars => UnbidHasNoWinner'
<1> SUFFICES ASSUME UnbidWaits, Safe, UnbidHasNoWinner, [Next]_vars
             PROVE  UnbidHasNoWinner'
  OBVIOUS
<1> USE DEF Unbids
<1>1. setting.ownerWaits
  BY DEF UnbidWaits, Safe, Typed
<1>2. ASSUME NEW r \in Requests, Begin(r) \/ ExpireRaise(r) \/ ExpireMatch(r)
      PROVE  UnbidHasNoWinner'
  <2>1. PICK q :
          /\ request' = [request EXCEPT ![r] = q]
          /\ q.kind \in Unbids => res.winner = None /\ auction # "Open"
          /\ UNCHANGED <<res, auction>>
    <3>1. ASSUME NEW kind, NEW pc, NEW amount, NEW pick, Start(r, kind, pc, amount, pick),
                 kind \in Unbids => res.winner = None /\ auction # "Open"
          PROVE  \E q : /\ request' = [request EXCEPT ![r] = q]
                        /\ q.kind \in Unbids => res.winner = None /\ auction # "Open"
                        /\ UNCHANGED <<res, auction>>
      <4> DEFINE q == [pc |-> pc, kind |-> kind, amount |-> amount, named |-> pick, row |-> 0]
      <4>1. q.kind = kind /\ request' = [request EXCEPT ![r] = q] /\ UNCHANGED <<res, auction>>
        BY <3>1 DEF Start
      <4> QED BY <3>1, <4>1
    <3>2. CASE \E amount \in Amounts, pick \in Picks : BeginRaise(r, amount, pick)
      BY <3>1, <3>2 DEF BeginRaise
    <3>3. CASE \E pick \in Picks : BeginChange(r, pick)
      BY <3>1, <3>3 DEF BeginChange
    <3>4. CASE BeginStandPat(r) \/ ExpireRaise(r)
      BY <3>1, <3>4 DEF BeginStandPat, ExpireRaise
    <3>5. CASE BeginMatch(r) \/ BeginDecline(r) \/ ExpireMatch(r)
      BY <3>1, <3>5 DEF BeginMatch, BeginDecline, ExpireMatch
    <3>6. CASE BeginUnbid(r, "resign") \/ BeginUnbid(r, "release")
      BY <1>1, <3>1, <3>6 DEF BeginUnbid
    <3> QED BY <1>2, <3>2, <3>3, <3>4, <3>5, <3>6 DEF Begin
  <2> QED BY <2>1 DEF UnbidHasNoWinner, Safe, Typed
<1>3. ASSUME NEW r \in Requests, ReadChain(r) \/ ReadForfeit(r)
      PROVE  UnbidHasNoWinner'
  <2>1. \A s \in Requests :
          request'[s].kind = request[s].kind /\ (request'[s].pc # "idle" => request[s].pc # "idle")
    <3>1. request \in [Requests -> RequestState] /\ request[r].pc # "idle"
      BY <1>3 DEF ReadChain, ReadForfeit, Safe, Typed
    <3>2. CASE ReadChain(r)
      BY <3>1, <3>2 DEF ReadChain, RequestState
    <3>3. CASE ReadForfeit(r)
      BY <3>1, <3>3 DEF ReadForfeit, RequestState
    <3> QED BY <1>3, <3>2, <3>3
  <2> QED BY <1>3, <2>1 DEF UnbidHasNoWinner, ReadChain, ReadForfeit
<1>4. ASSUME NEW r \in Requests, Write(r) \/ Abort(r)
      PROVE  UnbidHasNoWinner'
  <2>1. Done(r)
    BY <1>4 DEF Write, WriteRaise, WriteStandPat, WriteChange, WriteMatch, WriteDecline, WriteUnbid,
       Abort
  <2>2. /\ \A s \in Requests : request'[s].pc # "idle" => request'[s] = request[s]
    BY <2>1, RequestEnds, IdleTyped
  <2>3. res'.winner = res.winner /\ (auction # "Open" => auction' # "Open")
    BY <1>4 DEF Write, WriteRaise, WriteStandPat, WriteChange, WriteMatch, WriteDecline, WriteUnbid,
       WinnerSigns, SettledUnbid, Finish, Abort, Safe, Typed
  <2>4. res'.winner = None <=> res'.status \in Unwon
    <3>1. CASE WriteChange(r) \/ Abort(r)
      BY <3>1 DEF WriteChange, Abort, UnbidHasNoWinner
    <3>2. CASE WriteUnbid(r)
      BY <3>2 DEF WriteUnbid, Finish, UnbidHasNoWinner, Unwon, Safe, Typed
    <3>3. CASE WriteRaise(r) \/ WriteStandPat(r) \/ WriteMatch(r) \/ WriteDecline(r)
      <4>1. res.winner # None
        BY <3>3 DEF WriteRaise, WriteStandPat, WriteMatch, WriteDecline, Safe, WinnerStays, OnWinner
      <4>2. res'.status \notin Unwon
        BY <3>3 DEF WriteRaise, WriteStandPat, WriteMatch, WriteDecline, Finish, Unwon, Safe, Typed
      <4> QED BY <2>3, <4>1, <4>2
    <3> QED BY <1>4, <3>1, <3>2, <3>3 DEF Write
  <2> QED BY <2>2, <2>3, <2>4 DEF UnbidHasNoWinner
<1>5. CASE CloseAuction
  <2>1. \A r \in Requests :
          request'[r] = request[r] /\ (request[r].pc # "idle" => request[r].kind \notin Unbids)
    BY <1>5 DEF CloseAuction, UnbidHasNoWinner
  <2>2. res'.winner = None <=> res'.status \in Unwon
    <3>1. CASE lead # NoBid /\ res.status = "AwaitingAuction"
      BY <1>5, <3>1, NoneIsNobody DEF CloseAuction, RaiseWindow, Unwon, Safe, Typed
    <3>2. CASE ~(lead # NoBid /\ res.status = "AwaitingAuction")
      BY <1>5, <3>2 DEF CloseAuction, UnbidHasNoWinner
    <3> QED BY <3>1, <3>2
  <2> QED BY <2>1, <2>2 DEF UnbidHasNoWinner
<1>6. ASSUME UNCHANGED <<auction, res, request>>
      PROVE  UnbidHasNoWinner'
  BY <1>6 DEF UnbidHasNoWinner
<1> QED BY <1>2, <1>3, <1>4, <1>5, <1>6 DEF Next, PlaceBid, WindowRunsOut, TradePick, vars

\* The variables keep their types; a player has one Active contract at most, whatever requests race
\* (the unique index), and a resolution past its auction a winner.
THEOREM TypeCorrect == UnbidWaits => (Spec => []TypeOK)
<1> SUFFICES ASSUME UnbidWaits
             PROVE  Spec => []TypeOK
  OBVIOUS
<1>1. Safe /\ UnbidHasNoWinner => TypeOK
  BY DEF Safe, Typed, ChainOK, UnbidHasNoWinner, Unwon, TypeOK, Auctions, Statuses, RequestState
<1>2. Safe /\ UnbidHasNoWinner /\ [Next]_vars => (Safe /\ UnbidHasNoWinner)'
  BY SafeStep, UnbidStep
<1> QED BY <1>1, <1>2, SafeInit, UnbidInit, PTL DEF Spec

-----------------------------------------------------------------------------
(***************************************************************************)
(* With one request at a time, bids that wait for it, and an owner who     *)
(* waits for the auction to close, RfaHandshake implements RfaRules, for   *)
(* any number of bidders, picks, prices and picks traded meanwhile.        *)
(***************************************************************************)

Price == IF res.status = "AwaitingAuction" THEN lead.amount ELSE EffectiveBid

\* A pick that settles the price that is asked.
Settles(row, price) ==
  row # NoPick => price \in Amounts /\ row.round = RoundFor[price] /\ PickRound[row.pick] <= row.round

\* The resolution, the auction, the named pick and the chain agree on how far the handshake is.
InStep ==
  /\ auction = "Open" => res.status = "AwaitingAuction"
  /\ res.status = "AwaitingAuction" /\ auction # "Open" => lead = NoBid
  /\ res.status \in Unwon => res.winner = None /\ res.final = 0 /\ res.raised = 0
  /\ res.status = "AwaitingRaise" => res.raised = 0
  /\ res.status \notin Terminal => chain[Latest].kind # "signed" /\ Settles(named, Price)

\* What a request has read is still so, as no other and no bid has come in between.
Undisturbed(r) ==
  request[r].pc # "idle" =>
    /\ r \in setting.requests
    /\ request[r].kind = "raise" =>
         /\ res.status = "AwaitingRaise" /\ request[r].amount > res.final
         /\ request[r].amount \in Amounts /\ Settles(request[r].named, request[r].amount)
    /\ request[r].kind = "standPat" => res.status = "AwaitingRaise"
    /\ request[r].kind = "change" =>
         res.status \in {"AwaitingAuction", "AwaitingRaise"} /\ Settles(request[r].named, Price)
    /\ request[r].kind \in {"match", "decline"} =>
         res.status = "AwaitingMatch" /\ request[r].amount = EffectiveBid
    /\ request[r].kind = "decline" /\ request[r].pc = "write" => request[r].named = named
    /\ request[r].kind \in Unbids => res.status = "AwaitingAuction" /\ auction # "Open"

ByTheRules == Orderly => InStep /\ \A r \in Requests : Undisturbed(r)
Ruled == Safe /\ ByTheRules

-----------------------------------------------------------------------------

LEMMA RuledInit == Init => Ruled
<1> SUFFICES ASSUME Init
             PROVE  Ruled
  OBVIOUS
<1>1. chain[Latest].kind # "signed"
  BY DEF Init, Latest, RfaRow
<1>2. InStep
  BY <1>1 DEF Init, InStep, Unwon, Settles
<1>3. \A r \in Requests : Undisturbed(r)
  BY IdleTyped DEF Init, Undisturbed
<1> QED BY <1>2, <1>3, SafeInit DEF Ruled, ByTheRules

LEMMA OneRuns ==
  ASSUME Safe, Orderly, NEW r \in Requests, Undisturbed(r), request[r].pc # "idle",
         NEW s \in Requests \ {r}, Undisturbed(s)
  PROVE  request[s].pc = "idle"
BY DEF Orderly, Undisturbed

LEMMA TermsTyped ==
  ASSUME Safe
  PROVE  /\ res.final \in Nat /\ res.raised \in Nat /\ EffectiveBid \in Nat
         /\ lead.amount \in Nat
         /\ lead # NoBid => lead.amount \in Amounts /\ lead.team \in Bidders
         /\ \A a \in Amounts : a \in Nat /\ a > 0
BY HandshakeConstants DEF Safe, Typed, EffectiveBid, Amounts, NoBid

LEMMA SettlesEligible ==
  ASSUME NEW team, NEW pick, NEW amount \in Amounts, Eligible(pick, team, RoundFor[amount])
  PROVE  Settles([from |-> team, pick |-> pick, round |-> RoundFor[amount]], amount)
BY DEF Eligible, Settles

\* A step of a request that changes nothing the others can see.
LEMMA RequestOnly ==
  ASSUME Safe, Orderly, InStep, \A s \in Requests : Undisturbed(s),
         UNCHANGED <<setting, auction, lead, res, named, chain>>,
         NEW r \in Requests, \A s \in Requests \ {r} : request'[s] = request[s],
         Undisturbed(r)'
  PROVE  InStep' /\ \A s \in Requests : Undisturbed(s)'
<1>1. InStep'
  BY DEF InStep, Price, EffectiveBid, Latest
<1>2. ASSUME NEW s \in Requests \ {r}
      PROVE  Undisturbed(s)'
  BY <1>2 DEF Undisturbed, Price, EffectiveBid
<1> QED BY <1>1, <1>2

\* What a request must have read to begin.
MayBegin(kind, amount, pick) ==
  /\ kind = "raise" =>
       /\ res.status = "AwaitingRaise" /\ amount > res.final
       /\ amount \in Amounts /\ Settles(pick, amount)
  /\ kind = "standPat" => res.status = "AwaitingRaise"
  /\ kind = "change" => res.status \in {"AwaitingAuction", "AwaitingRaise"} /\ Settles(pick, Price)
  /\ kind \in {"match", "decline"} => res.status = "AwaitingMatch" /\ amount = EffectiveBid
  /\ kind \in Unbids => res.status = "AwaitingAuction" /\ auction # "Open"

LEMMA RuledStart ==
  ASSUME Safe, Orderly, InStep, \A s \in Requests : Undisturbed(s),
         NEW r \in Requests, NEW kind, NEW pc, NEW amount, NEW pick, Start(r, kind, pc, amount, pick),
         MayBegin(kind, amount, pick), ~(kind = "decline" /\ pc = "write")
  PROVE  InStep' /\ \A s \in Requests : Undisturbed(s)'
<1> DEFINE q == [pc |-> pc, kind |-> kind, amount |-> amount, named |-> pick, row |-> 0]
<1>1. /\ request' = [request EXCEPT ![r] = q] /\ r \in setting.requests
      /\ UNCHANGED <<setting, auction, lead, res, named, chain>>
  BY DEF Start
<1>2. q.pc = pc /\ q.kind = kind /\ q.amount = amount /\ q.named = pick
  OBVIOUS
<1> HIDE DEF q
<1>3. request'[r] = q /\ \A s \in Requests \ {r} : request'[s] = request[s]
  BY <1>1 DEF Safe, Typed
<1>4. Undisturbed(r)'
  BY <1>1, <1>2, <1>3 DEF Undisturbed, MayBegin, Price, EffectiveBid
<1> QED BY <1>1, <1>3, <1>4, RequestOnly

LEMMA RuledBegin ==
  ASSUME Safe, Orderly, InStep, \A s \in Requests : Undisturbed(s),
         NEW r \in Requests, Begin(r) \/ ExpireRaise(r) \/ ExpireMatch(r)
  PROVE  InStep' /\ \A s \in Requests : Undisturbed(s)'
<1> USE DEF Unbids
<1>1. ASSUME NEW amount \in Amounts, NEW pick \in Picks, BeginRaise(r, amount, pick)
      PROVE  InStep' /\ \A s \in Requests : Undisturbed(s)'
  <2> DEFINE row == [from |-> res.winner, pick |-> pick, round |-> RoundFor[amount]]
  <2>1. Settles(row, amount)
    BY <1>1, SettlesEligible DEF BeginRaise
  <2> HIDE DEF row
  <2>2. MayBegin("raise", amount, row)
    BY <1>1, <2>1 DEF MayBegin, BeginRaise
  <2> QED BY <1>1, <2>2, RuledStart DEF BeginRaise, row
<1>2. ASSUME NEW pick \in Picks, BeginChange(r, pick)
      PROVE  InStep' /\ \A s \in Requests : Undisturbed(s)'
  <2> DEFINE row == [named EXCEPT !.pick = pick]
  <2>1. named \in PickRows /\ named # NoPick /\ Settles(named, Price)
        /\ PickRound[pick] <= named.round
    BY <1>2 DEF BeginChange, Eligible, InStep, Terminal, Safe, Typed
  <2>2. row.pick = pick /\ row.round = named.round
    BY <2>1 DEF PickRows
  <2>3. Settles(row, Price)
    BY <2>1, <2>2 DEF Settles
  <2> HIDE DEF row
  <2>4. MayBegin("change", 0, row)
    BY <1>2, <2>3 DEF MayBegin, BeginChange
  <2> QED BY <1>2, <2>4, RuledStart DEF BeginChange, row
<1>3. CASE BeginStandPat(r) \/ ExpireRaise(r)
  <2>1. MayBegin("standPat", 0, NoPick)
    BY <1>3 DEF MayBegin, BeginStandPat, ExpireRaise
  <2> QED BY <1>3, <2>1, RuledStart DEF BeginStandPat, ExpireRaise
<1>4. CASE BeginMatch(r)
  <2>1. MayBegin("match", EffectiveBid, NoPick)
    BY <1>4 DEF MayBegin, BeginMatch
  <2> QED BY <1>4, <2>1, RuledStart DEF BeginMatch
<1>5. CASE BeginDecline(r) \/ ExpireMatch(r)
  <2>1. MayBegin("decline", EffectiveBid, NoPick)
    BY <1>5 DEF MayBegin, BeginDecline, ExpireMatch
  <2> QED BY <1>5, <2>1, RuledStart DEF BeginDecline, ExpireMatch
<1>6. ASSUME NEW kind \in Unbids, BeginUnbid(r, kind)
      PROVE  InStep' /\ \A s \in Requests : Undisturbed(s)'
  <2>1. MayBegin(kind, 0, NoPick)
    BY <1>6 DEF MayBegin, BeginUnbid, Orderly
  <2> QED BY <1>6, <2>1, RuledStart DEF BeginUnbid
<1> QED BY <1>1, <1>2, <1>3, <1>4, <1>5, <1>6 DEF Begin

LEMMA RuledRead ==
  ASSUME Safe, Orderly, InStep, \A s \in Requests : Undisturbed(s),
         NEW r \in Requests, ReadChain(r) \/ ReadForfeit(r)
  PROVE  InStep' /\ \A s \in Requests : Undisturbed(s)'
<1>1. UNCHANGED <<setting, auction, lead, res, named, chain>> /\ request[r].pc = "contract"
  BY DEF ReadChain, ReadForfeit
<1>2. request \in [Requests -> RequestState]
  BY DEF Safe, Typed
<1>3. \A s \in Requests \ {r} : request'[s] = request[s]
  BY <1>2 DEF ReadChain, ReadForfeit
<1>4. /\ request'[r].kind = request[r].kind /\ request'[r].amount = request[r].amount
      /\ IF request[r].kind = "decline" THEN request'[r].named = named
         ELSE request'[r].named = request[r].named
      /\ request[r].kind \notin {"raise", "change"}
  <2>1. CASE ReadChain(r)
    BY <1>2, <2>1 DEF ReadChain, RequestState
  <2>2. CASE ReadForfeit(r)
    BY <1>2, <2>2 DEF ReadForfeit, RequestState
  <2> QED BY <2>1, <2>2
<1>5. Undisturbed(r)'
  BY <1>1, <1>4 DEF Undisturbed, EffectiveBid, Unbids
<1> QED BY <1>1, <1>3, <1>5, RequestOnly

\* Once the only request has ended, nobody is disturbed.
LEMMA AllIdle ==
  ASSUME Safe, Orderly, \A s \in Requests : Undisturbed(s), NEW r \in Requests,
         request[r].pc # "idle", Done(r)
  PROVE  \A s \in Requests : Undisturbed(s)'
<1>1. \A s \in Requests : request'[s].pc = "idle"
  BY RequestEnds, IdleTyped, OneRuns
<1> QED BY <1>1 DEF Undisturbed

LEMMA RuledAbort ==
  ASSUME Safe, Orderly, InStep, \A s \in Requests : Undisturbed(s), NEW r \in Requests, Abort(r)
  PROVE  InStep' /\ \A s \in Requests : Undisturbed(s)'
BY RequestEnds, IdleTyped, RequestOnly DEF Abort, Undisturbed

\* What the writes of terms change: the price that is asked, as the winner has raised it or not.
LEMMA TermsWritten ==
  ASSUME Safe, Orderly, InStep, \A s \in Requests : Undisturbed(s), NEW r \in Requests
  PROVE  /\ WriteRaise(r) =>
              /\ res.status = "AwaitingRaise" /\ res'.status = "AwaitingMatch"
              /\ res'.winner = res.winner /\ Price = res.final
              /\ Price' = request[r].amount /\ Price' \in Amounts /\ Price' > Price
         /\ WriteStandPat(r) =>
              /\ res.status = "AwaitingRaise" /\ res'.status = "AwaitingMatch"
              /\ res'.winner = res.winner /\ Price' = Price
<1>1. ASSUME WriteRaise(r)
      PROVE  /\ res.status = "AwaitingRaise" /\ res'.status = "AwaitingMatch"
             /\ res'.winner = res.winner /\ Price = res.final
             /\ Price' = request[r].amount /\ Price' \in Amounts /\ Price' > Price
  <2>1. /\ res.status = "AwaitingRaise" /\ res.raised = 0
        /\ request[r].amount \in Amounts /\ request[r].amount > res.final
    BY <1>1 DEF WriteRaise, Undisturbed, InStep
  <2>2. request[r].amount > 0
    BY <2>1, TermsTyped
  <2>3. /\ res'.status = "AwaitingMatch" /\ res'.raised = request[r].amount
        /\ res'.winner = res.winner
    BY <1>1 DEF WriteRaise, Safe, Typed
  <2> QED BY <2>1, <2>2, <2>3 DEF Price, EffectiveBid
<1>2. ASSUME WriteStandPat(r)
      PROVE  /\ res.status = "AwaitingRaise" /\ res'.status = "AwaitingMatch"
             /\ res'.winner = res.winner /\ Price' = Price
  <2>1. res.status = "AwaitingRaise"
    BY <1>2 DEF WriteStandPat, Undisturbed
  <2>2. /\ res'.status = "AwaitingMatch" /\ res'.raised = res.raised /\ res'.final = res.final
        /\ res'.winner = res.winner
    BY <1>2 DEF WriteStandPat, Safe, Typed
  <2> QED BY <2>1, <2>2 DEF Price, EffectiveBid
<1> QED BY <1>1, <1>2

LEMMA RuledWriteTerms ==
  ASSUME Safe, Orderly, InStep, \A s \in Requests : Undisturbed(s),
         NEW r \in Requests, WriteRaise(r) \/ WriteStandPat(r) \/ WriteChange(r)
  PROVE  InStep' /\ \A s \in Requests : Undisturbed(s)'
<1>1. Done(r) /\ request[r].pc # "idle" /\ UNCHANGED <<setting, auction, lead, chain>>
  BY DEF WriteRaise, WriteStandPat, WriteChange
<1>2. \A s \in Requests : Undisturbed(s)'
  BY <1>1, AllIdle
<1>3. CASE WriteRaise(r)
  <2>1. res.status = "AwaitingRaise" /\ res'.status = "AwaitingMatch" /\ Price' = request[r].amount
    BY <1>3, TermsWritten
  <2>2. Settles(named', Price')
    BY <1>3, <2>1 DEF WriteRaise, Undisturbed
  <2> QED BY <1>1, <1>2, <2>1, <2>2 DEF InStep, Settles, Latest, Unwon, Terminal
<1>4. CASE WriteStandPat(r)
  <2>1. res.status = "AwaitingRaise" /\ res'.status = "AwaitingMatch" /\ Price' = Price
    BY <1>4, TermsWritten
  <2>2. Settles(named', Price')
    BY <1>4, <2>1 DEF WriteStandPat, InStep, Terminal
  <2> QED BY <1>1, <1>2, <2>1, <2>2 DEF InStep, Settles, Latest, Unwon, Terminal
<1>5. CASE WriteChange(r)
  <2>1. res' = res /\ Price' = Price
    BY <1>1, <1>5 DEF WriteChange, Price, EffectiveBid
  <2>2. Settles(named', Price')
    BY <1>5, <2>1 DEF WriteChange, Undisturbed
  <2> QED BY <1>1, <1>2, <2>1, <2>2 DEF InStep, Settles, Latest
<1> QED BY <1>3, <1>4, <1>5

LEMMA RuledWriteSigning ==
  ASSUME Safe, Orderly, InStep, \A s \in Requests : Undisturbed(s),
         NEW r \in Requests, WriteMatch(r) \/ WriteDecline(r) \/ WriteUnbid(r)
  PROVE  InStep' /\ \A s \in Requests : Undisturbed(s)'
<1>1. Done(r) /\ request[r].pc # "idle"
  BY DEF WriteMatch, WriteDecline, WriteUnbid
<1>2. \A s \in Requests : Undisturbed(s)'
  BY <1>1, AllIdle
<1>3. /\ res'.status \in Terminal /\ res'.winner = res.winner
      /\ res'.final = res.final /\ res'.raised = res.raised
      /\ res'.status \in Unwon => res.status = "AwaitingAuction"
      /\ auction' # "Open"
  <2>1. CASE WriteMatch(r)
    BY <2>1 DEF WriteMatch, Finish, Safe, Typed, Terminal, Unwon
  <2>2. CASE WriteDecline(r)
    BY <2>2 DEF WriteDecline, WinnerSigns, Finish, Safe, Typed, Terminal, Unwon
  <2>3. CASE WriteUnbid(r)
    <3>1. res.status = "AwaitingAuction" /\ auction # "Open"
      BY <2>3 DEF WriteUnbid, Undisturbed, Unbids
    <3> QED BY <2>3, <3>1 DEF WriteUnbid, SettledUnbid, Finish, Safe, Typed, Terminal
  <2> QED BY <2>1, <2>2, <2>3
<1> QED BY <1>2, <1>3 DEF InStep, Terminal, Unwon

\* While bids wait, they find no request under way.
LEMMA RuledBid ==
  ASSUME Safe, Orderly, InStep, \A s \in Requests : Undisturbed(s),
         NEW team \in Bidders, NEW amount \in Amounts, NEW pick \in Picks,
         PlaceBid(team, amount, pick)
  PROVE  InStep' /\ \A s \in Requests : Undisturbed(s)'
<1> DEFINE row == [from |-> team, pick |-> pick, round |-> RoundFor[amount]]
<1>1. /\ res.status = "AwaitingAuction" /\ Eligible(pick, team, RoundFor[amount])
      /\ auction = "Open" /\ named' = row /\ lead'.amount = amount
      /\ UNCHANGED <<setting, auction, res, chain, request>>
      /\ \A s \in Requests : request[s].pc = "idle"
  BY DEF PlaceBid, InStep, Quiet, Orderly
<1>2. Settles(row, amount)
  BY <1>1, SettlesEligible
<1> HIDE DEF row
<1>3. Price' = amount
  BY <1>1 DEF Price
<1>4. InStep'
  BY <1>1, <1>2, <1>3 DEF InStep, Settles, Latest
<1> QED BY <1>1, <1>4 DEF Undisturbed

LEMMA RuledClose ==
  ASSUME Safe, Orderly, InStep, \A s \in Requests : Undisturbed(s), CloseAuction
  PROVE  InStep' /\ \A s \in Requests : Undisturbed(s)'
<1>1. /\ auction = "Open" /\ res.status = "AwaitingAuction" /\ auction' = "Closed"
      /\ UNCHANGED <<setting, lead, named, chain, request>>
      /\ \A s \in Requests : request[s].pc = "idle"
      /\ IF lead # NoBid THEN res' = RaiseWindow(lead) ELSE UNCHANGED res
  BY DEF CloseAuction, InStep, Quiet, Orderly
<1>2. \A s \in Requests : Undisturbed(s)'
  BY <1>1 DEF Undisturbed
<1>3. Settles(named, Price) /\ chain[Latest].kind # "signed"
  BY <1>1 DEF InStep, Terminal
<1>4. CASE lead # NoBid
  <2>1. res'.status = "AwaitingRaise" /\ res'.raised = 0 /\ res'.final = lead.amount
    BY <1>1, <1>4 DEF RaiseWindow
  <2>2. Price' = Price
    BY <1>1, <2>1 DEF Price, EffectiveBid
  <2> QED BY <1>1, <1>2, <1>3, <2>1, <2>2 DEF InStep, Unwon, Latest, Settles
<1>5. CASE lead = NoBid
  BY <1>1, <1>2, <1>3, <1>5 DEF InStep, Latest, Settles, Price
<1> QED BY <1>4, <1>5

LEMMA RuledStep == Ruled /\ [Next]_vars => Ruled'
<1> SUFFICES ASSUME Ruled, [Next]_vars
             PROVE  Ruled'
  OBVIOUS
<1>1. Safe /\ Safe'
  BY SafeStep DEF Ruled
<1>2. setting' = setting
  BY DEF Next, Begin, BeginRaise, BeginChange, BeginStandPat, BeginMatch, BeginDecline, BeginUnbid,
     ExpireRaise, ExpireMatch, Start, ReadChain, ReadForfeit, Write, WriteRaise, WriteStandPat,
     WriteChange, WriteMatch, WriteDecline, WriteUnbid, Abort, PlaceBid, CloseAuction, WindowRunsOut,
     TradePick, vars
<1>3. SUFFICES ASSUME Orderly
               PROVE  InStep' /\ \A s \in Requests : Undisturbed(s)'
  BY <1>1, <1>2 DEF Ruled, ByTheRules, Orderly
<1>4. InStep /\ \A s \in Requests : Undisturbed(s)
  BY <1>3 DEF Ruled, ByTheRules
<1>5. ASSUME UNCHANGED <<setting, auction, lead, res, named, chain, request>>
      PROVE  InStep' /\ \A s \in Requests : Undisturbed(s)'
  BY <1>4, <1>5 DEF InStep, Undisturbed, Settles, Price, EffectiveBid, Latest
<1>6. CASE WindowRunsOut \/ (\E pick \in Picks, team \in Teams : TradePick(pick, team)) \/ UNCHANGED vars
  BY <1>5, <1>6 DEF WindowRunsOut, TradePick, vars
<1> QED BY <1>1, <1>3, <1>4, <1>6, RuledBegin, RuledRead, RuledWriteTerms, RuledWriteSigning,
     RuledAbort, RuledBid, RuledClose DEF Next, Write

-----------------------------------------------------------------------------
(* The refinement *)

Phase ==
  CASE res.status = "AwaitingAuction" -> "auction"
    [] res.status = "AwaitingRaise" -> "raise"
    [] res.status = "AwaitingMatch" -> "match"
    [] res.status = "Resolved" -> "matched"
    [] res.status = "Declined" -> "declined"
    [] res.status = "NoBidResigned" -> "resigned"
    [] res.status = "NoBidToAuction" -> "released"
Winner == IF res.status = "AwaitingAuction" THEN lead.team ELSE res.winner
Signed ==
  IF chain[Latest].kind = "signed"
  THEN [team |-> chain[Latest].team, price |-> chain[Latest].price]
  ELSE [team |-> None, price |-> 0]

LEMMA RulesAtFirst == Init => Rules!RulesInit
BY DEF Init, Rules!RulesInit, Rules!Deal, NoBid, None, Latest, RfaRow

\* The player is signed: the deal is the row that has been added.
LEMMA SignedLast ==
  ASSUME Safe, NEW r \in Requests, request[r].pc = "write", request[r].kind \in Signing,
         NEW new \in ChainRow, CanReplace(request[r].row, new),
         chain' = Replaced(request[r].row, new)
  PROVE  chain'[Latest'] = new
<1>1. request[r].row \in DOMAIN chain
  BY DEF Safe, ChainOK, Typed, RequestState
<1> QED BY <1>1, ChainReplaced DEF Safe, Latest

LEMMA BidIsBid ==
  ASSUME Safe, Orderly, InStep, NEW team \in Bidders, NEW amount \in Amounts, NEW pick \in Picks,
         PlaceBid(team, amount, pick)
  PROVE  Rules!RulesNext
<1>1. /\ res.status = "AwaitingAuction" /\ amount > lead.amount
      /\ lead' = [team |-> team, amount |-> amount] /\ UNCHANGED <<res, chain, forfeited>>
  BY DEF PlaceBid, InStep
<1>2. Phase = "auction" /\ Phase' = "auction" /\ Signed' = Signed
  BY <1>1 DEF Phase, Signed, Latest
<1>3. Price = lead.amount /\ Price' = amount /\ Winner' = team
  BY <1>1 DEF Price, Winner
<1>4. Rules!Bid(team, amount)
  BY <1>1, <1>2, <1>3 DEF Rules!Bid, Phase, Price, Winner, Signed
<1> QED BY <1>4 DEF Rules!RulesNext

LEMMA CloseIsClose ==
  ASSUME Safe, Orderly, InStep, CloseAuction
  PROVE  Rules!RulesNext \/ UNCHANGED Rules!rulesVars
<1>1. /\ res.status = "AwaitingAuction" /\ UNCHANGED <<lead, chain, forfeited>>
      /\ IF lead # NoBid THEN res' = RaiseWindow(lead) ELSE UNCHANGED res
  BY DEF CloseAuction, InStep
<1>2. Signed' = Signed
  BY <1>1 DEF Signed, Latest
<1>3. CASE lead # NoBid
  <2>1. /\ res'.status = "AwaitingRaise" /\ res'.raised = 0 /\ res'.final = lead.amount
        /\ res'.winner = lead.team
    BY <1>1, <1>3 DEF RaiseWindow
  <2>2. Phase = "auction" /\ Phase' = "raise"
    BY <1>1, <2>1 DEF Phase
  <2>3. Price' = Price /\ Price > 0 /\ Winner' = Winner
    BY <1>1, <1>3, <2>1, TermsTyped DEF Price, EffectiveBid, Winner
  <2>4. Rules!CloseAuction
    BY <1>1, <1>2, <2>2, <2>3 DEF Rules!CloseAuction, Phase, Price, Winner, Signed
  <2> QED BY <2>4 DEF Rules!RulesNext
<1>4. CASE lead = NoBid
  BY <1>1, <1>2, <1>4 DEF Rules!rulesVars, EffectiveBid, Signed
<1> QED BY <1>3, <1>4

LEMMA TermsAreTerms ==
  ASSUME Safe, Orderly, InStep, \A s \in Requests : Undisturbed(s),
         NEW r \in Requests, WriteRaise(r) \/ WriteStandPat(r)
  PROVE  Rules!RulesNext
<1>1. UNCHANGED <<lead, chain, forfeited>>
  BY DEF WriteRaise, WriteStandPat
<1>2. res.status = "AwaitingRaise" /\ res'.status = "AwaitingMatch" /\ res'.winner = res.winner
  BY TermsWritten
<1>3. Phase = "raise" /\ Phase' = "match" /\ Winner' = Winner /\ Signed' = Signed
  BY <1>1, <1>2 DEF Phase, Winner, Signed, Latest
<1>4. CASE WriteRaise(r)
  <2>1. Price' \in Amounts /\ Price' > Price
    BY <1>4, TermsWritten
  <2>2. Rules!Raise(Price')
    BY <1>1, <1>3, <2>1 DEF Rules!Raise, Phase, Price, Winner, Signed
  <2> QED BY <2>1, <2>2 DEF Rules!RulesNext
<1>5. CASE WriteStandPat(r)
  <2>1. Price' = Price
    BY <1>5, TermsWritten
  <2>2. Rules!StandPat
    BY <1>1, <1>3, <2>1 DEF Rules!StandPat, Phase, Price, Winner, Signed
  <2> QED BY <2>2 DEF Rules!RulesNext
<1> QED BY <1>4, <1>5

\* The end of the handshake leaves the price and the winner of the resolution alone.
LEMMA Finished ==
  ASSUME Safe, NEW status \in Terminal, Finish(status)
  PROVE  /\ res'.status = status /\ res'.winner = res.winner
         /\ Price' = EffectiveBid /\ Winner' = res.winner
BY DEF Finish, Safe, Typed, Price, EffectiveBid, Winner, Terminal

LEMMA MatchIsMatch ==
  ASSUME Safe, Orderly, InStep, \A s \in Requests : Undisturbed(s), NEW r \in Requests, WriteMatch(r)
  PROVE  Rules!RulesNext
<1> DEFINE new == SignedRow(OriginalOwner, request[r].amount)
<1>1. /\ res.status = "AwaitingMatch" /\ request[r].amount = EffectiveBid
      /\ Finish("Resolved") /\ UNCHANGED <<lead, forfeited>>
  BY DEF WriteMatch, Undisturbed
<1>2. new \in ChainRow
  BY HandshakeConstants DEF Safe, Typed, RequestState, SignedRow, ChainRow, Teams
<1>3. chain'[Latest'] = new
  BY <1>2, SignedLast DEF WriteMatch, Signing
<1>4. Signed' = Rules!Deal(OriginalOwner, Price)
  BY <1>1, <1>3 DEF SignedRow, Signed, Rules!Deal, Price
<1>5. res'.status = "Resolved" /\ Price' = Price /\ Winner' = Winner
  BY <1>1, Finished DEF Terminal, Price, Winner
<1>6. Phase = "match" /\ Phase' = "matched"
  BY <1>1, <1>5 DEF Phase
<1>7. Rules!Match
  BY <1>1, <1>4, <1>5, <1>6 DEF Rules!Match, Phase, Price, Winner, Signed
<1> QED BY <1>7 DEF Rules!RulesNext

LEMMA DeclineIsDecline ==
  ASSUME Safe, Orderly, InStep, \A s \in Requests : Undisturbed(s), NEW r \in Requests,
         WriteDecline(r)
  PROVE  Rules!RulesNext
<1> DEFINE new == SignedRow(res.winner, request[r].amount)
           pick == request[r].named.pick
<1>1. /\ res.status = "AwaitingMatch" /\ request[r].amount = EffectiveBid
      /\ request[r].named = named /\ named # NoPick /\ named \in PickRows
      /\ Finish("Declined") /\ lead' = lead /\ forfeited' = pick
  BY DEF WriteDecline, WinnerSigns, RecordForfeit, Undisturbed, Safe, Typed, WinnerStays
<1>2. pick \in Picks /\ PickRound[pick] <= RoundFor[Price]
  <2>1. Settles(named, Price)
    BY <1>1 DEF InStep, Terminal
  <2> QED BY <1>1, <2>1 DEF Settles, PickRows
<1>3. new \in ChainRow
  BY DEF Safe, Typed, RequestState, SignedRow, ChainRow, Teams
<1>4. chain'[Latest'] = new
  BY <1>3, SignedLast DEF WriteDecline, WinnerSigns, Signing
<1>5. Signed' = Rules!Deal(Winner, Price)
  BY <1>1, <1>4 DEF SignedRow, Signed, Rules!Deal, Price, Winner
<1>6. res'.status = "Declined" /\ Price' = Price /\ Winner' = Winner
  BY <1>1, Finished DEF Terminal, Price, Winner
<1>7. Phase = "match" /\ Phase' = "declined"
  BY <1>1, <1>6 DEF Phase
<1> HIDE DEF pick
<1>8. Rules!Decline(pick)
  BY <1>1, <1>2, <1>5, <1>6, <1>7 DEF Rules!Decline, Phase, Price, Winner, Signed
<1> QED BY <1>2, <1>8 DEF Rules!RulesNext

LEMMA UnbidIsSettled ==
  ASSUME Safe, Orderly, InStep, \A s \in Requests : Undisturbed(s), NEW r \in Requests, WriteUnbid(r)
  PROVE  Rules!RulesNext
<1> USE DEF Signing, Unbids
<1>1. /\ res.status = "AwaitingAuction" /\ auction # "Open" /\ UNCHANGED <<lead, forfeited>>
      /\ request[r].pc = "write" /\ request[r].kind \in Unbids
  BY DEF WriteUnbid, Undisturbed
<1>2. lead = NoBid /\ res.winner = None /\ res.final = 0 /\ res.raised = 0
      /\ chain[Latest].kind # "signed"
  BY <1>1 DEF InStep, Unwon, Terminal
<1>3. Price = 0 /\ EffectiveBid = 0 /\ Winner = None
  BY <1>1, <1>2 DEF Price, EffectiveBid, Winner, NoBid
<1>4. Phase = "auction" /\ Signed = Rules!Deal(None, 0)
  BY <1>1, <1>2 DEF Phase, Signed, Rules!Deal
<1>5. CASE request[r].kind = "resign"
  <2> DEFINE new == SignedRow(OriginalOwner, 0)
  <2>1. new \in ChainRow
    BY HandshakeConstants DEF SignedRow, ChainRow, Teams
  <2>2. chain'[Latest'] = new
    BY <1>1, <1>5, <2>1, SignedLast DEF WriteUnbid
  <2>3. Signed' = Rules!Deal(OriginalOwner, 0)
    BY <2>2 DEF SignedRow, Signed, Rules!Deal
  <2>4. res'.status = "NoBidResigned" /\ Price' = 0 /\ Winner' = None
    BY <1>2, <1>3, <1>5, Finished DEF WriteUnbid, Terminal
  <2>5. Phase' = "resigned"
    BY <2>4 DEF Phase
  <2>6. Rules!SettleUnbid("resigned")
    BY <1>1, <1>3, <1>4, <2>3, <2>4, <2>5 DEF Rules!SettleUnbid, Phase, Price, Winner, Signed
  <2> QED BY <2>6 DEF Rules!RulesNext
<1>6. CASE request[r].kind = "release"
  <2>1. ExpiredRow \in ChainRow
    BY HandshakeConstants DEF ExpiredRow, ChainRow
  <2>2. chain'[Latest'] = ExpiredRow
    BY <1>1, <1>6, <2>1, SignedLast DEF WriteUnbid
  <2>3. Signed' = Rules!Deal(None, 0)
    BY <2>2 DEF ExpiredRow, Signed, Rules!Deal
  <2>4. res'.status = "NoBidToAuction" /\ Price' = 0 /\ Winner' = None
    BY <1>2, <1>3, <1>6, Finished DEF WriteUnbid, Terminal
  <2>5. Phase' = "released"
    BY <2>4 DEF Phase
  <2>6. Rules!SettleUnbid("released")
    BY <1>1, <1>3, <1>4, <2>3, <2>4, <2>5 DEF Rules!SettleUnbid, Phase, Price, Winner, Signed
  <2> QED BY <2>6 DEF Rules!RulesNext
<1> QED BY <1>1, <1>5, <1>6

LEMMA RulesStep ==
  ASSUME Ruled, [Next]_vars
  PROVE  [Orderly => Rules!RulesNext]_(Rules!rulesVars)
<1> SUFFICES ASSUME Orderly
             PROVE  Rules!RulesNext \/ UNCHANGED Rules!rulesVars
  OBVIOUS
<1>1. Safe /\ InStep /\ \A s \in Requests : Undisturbed(s)
  BY DEF Ruled, ByTheRules
<1>2. ASSUME UNCHANGED <<lead, res, chain, forfeited>>
      PROVE  UNCHANGED Rules!rulesVars
  BY <1>2 DEF Rules!rulesVars, EffectiveBid, Latest
<1>3. ASSUME NEW r \in Requests, Begin(r) \/ ExpireRaise(r) \/ ExpireMatch(r)
      PROVE  UNCHANGED Rules!rulesVars
  BY <1>2, <1>3 DEF Begin, BeginRaise, BeginChange, BeginStandPat, BeginMatch, BeginDecline, BeginUnbid,
     ExpireRaise, ExpireMatch, Start
<1>4. ASSUME NEW r \in Requests, ReadChain(r) \/ ReadForfeit(r) \/ WriteChange(r) \/ Abort(r)
      PROVE  UNCHANGED Rules!rulesVars
  BY <1>2, <1>4 DEF ReadChain, ReadForfeit, WriteChange, Abort
<1>5. CASE WindowRunsOut \/ UNCHANGED vars
  BY <1>2, <1>5 DEF WindowRunsOut, vars
<1>6. ASSUME NEW pick \in Picks, NEW team \in Teams, TradePick(pick, team)
      PROVE  UNCHANGED Rules!rulesVars
  BY <1>2, <1>6 DEF TradePick
<1> QED BY <1>1, <1>3, <1>4, <1>5, <1>6, BidIsBid, CloseIsClose, TermsAreTerms, MatchIsMatch,
     DeclineIsDecline, UnbidIsSettled DEF Next, Write

\* One request at a time, and an owner who waits for the auction to close, follow the rules: the
\* price only rises, the right team signs at that price, and the pick is of a round it has earned
\* (raise_bid, match_or_decline, resolve_unbid_rfa and the window expiries).
THEOREM HandshakeImplementsRules == Spec => FollowsRules
<1>1. Ruled /\ [Next]_vars => [Orderly => Rules!RulesNext]_(Rules!rulesVars)
  BY RulesStep
<1> QED BY <1>1, RulesAtFirst, RuledInit, RuledStep, PTL DEF Spec, FollowsRules

=============================================================================
