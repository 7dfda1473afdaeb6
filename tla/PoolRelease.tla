---------------------------- MODULE PoolRelease -----------------------------
(***************************************************************************)
(* The pool of the preseason veteran auction: the commissioner enters      *)
(* minimum bid tiers and a ranking, the handler of the auction's start     *)
(* turns the players on no roster into a schedule, and the ticks of each   *)
(* day open an auction for what is due.                                    *)
(*                                                                         *)
(* The configuration mutations look for a schedule before they open the    *)
(* transaction that rewrites.  A tick has no transaction at all: it looks  *)
(* for the player's auction and then inserts one.                          *)
(***************************************************************************)
EXTENDS Contracts, SequencesExt

CONSTANTS
  Ticks,        \* ticks of the scheduler that may run at once
  Players,      \* players who have played in the NBA and are known to the ranking by id
  Season,
  TierLists,    \* the minimum bids the commissioner may enter, top tier first
  Rankings,     \* the rankings he may enter, best player first
  PerDay,       \* 15 in the code: players released a day
  RfaWeek,      \* 7 in the code: days that belong to restricted free agents
  LastDay,      \* bound: days, counted from the auction's start
  Settings      \* circumstances, one per behaviour

\* A setting has the rows, tiers, ranking and auctions to begin with, the ticks that run, whether the
\* ticks may overlap each other, whether a rewrite may be under way while the handler runs, and two
\* bounds: how often the configuration is rewritten and how many ticks die.  Modules that extend this
\* one add to it.
ASSUME PoolConstants ==
  /\ PerDay \in Nat \ {0} /\ RfaWeek \in Nat /\ LastDay \in Nat
  /\ IsFiniteSet(Players) /\ TierLists \subseteq Seq(Nat)
  /\ \A r \in Rankings : r \in Seq(Players) /\ IsInjective(r)
  /\ \A s \in Settings : /\ s.ticks \subseteq Ticks /\ {s.overlap, s.rewrites} \subseteq BOOLEAN
                         /\ {s.edits, s.deaths} \subseteq Nat
                         /\ s.tiers \in Seq(Nat \ {0}) /\ s.ranking \in Seq(Players)
                         /\ \A i \in DOMAIN s.rows : s.rows[i].id = i

VARIABLES
  setting,
  tiers,       \* min_bid_tier_config: the minimum of each tier
  ranking,     \* veteran_auction_ranking
  table,       \* contract: its rows, by id
  schedule,    \* auction_schedule: [player, day, rank, tier, rfa]
  auctions,    \* auction: [contract, minimum, owner, status, lead]
  day,         \* today
  config,      \* the commissioner's request that has passed its check
  edits,       \* how many rewrites there have been
  tick,        \* what each tick has read
  deaths       \* how many ticks have died

poolVars == <<setting, tiers, ranking, table, schedule, auctions, day, config, edits, tick, deaths>>

Idle == [at |-> "idle"]
NoLead == [team |-> Unset, amount |-> 0]
Slot == [player : Players, day : Nat, rank : Nat, tier : Nat \ {0}, rfa : BOOLEAN]

PoolTypeOK ==
  /\ setting \in Settings
  /\ tiers \in Seq(Nat \ {0}) /\ ranking \in Seq(Players)
  /\ \A i \in DOMAIN table : table[i].id = i
  /\ schedule \in Seq(Slot) /\ IsInjective([i \in DOMAIN schedule |-> schedule[i].player])
  /\ \A a \in DOMAIN auctions : auctions[a].contract \in DOMAIN table
  /\ day \in 0..LastDay /\ edits \in 0..setting.edits /\ deaths \in 0..setting.deaths
  /\ config.at \in {"idle", "checked"}
  /\ \A t \in Ticks : tick[t].at \in {"idle", "opening", "inserting"}

PoolInit ==
  /\ setting \in Settings
  /\ tiers = setting.tiers /\ ranking = setting.ranking /\ table = setting.rows
  /\ schedule = <<>> /\ auctions = setting.auctions
  /\ day = 0 /\ config = Idle /\ edits = 0
  /\ tick = [t \in Ticks |-> Idle] /\ deaths = 0

-----------------------------------------------------------------------------
(* Configuration *)

\* The lowest tier may be nothing.
MutTiersAllowed(amounts) == amounts # <<>> /\ \A i \in 1..Len(amounts) - 1 : amounts[i] > amounts[i + 1]
\* validate_min_bid_tiers; a ranking only has to name somebody.
TiersAllowed(amounts) ==
  /\ amounts # <<>> /\ Last(amounts) >= 1
  /\ \A i \in 1..Len(amounts) - 1 : amounts[i] > amounts[i + 1]
Entry == {[what |-> "tiers", value |-> v] : v \in {v \in TierLists : TiersAllowed(v)}}
           \cup {[what |-> "ranking", value |-> v] : v \in Rankings \ {<<>>}}

\* ensure_veteran_auction_not_started, before the transaction.
BeginConfig(entry) ==
  /\ config = Idle /\ schedule = <<>> /\ edits < setting.edits
  /\ config' = [at |-> "checked", entry |-> entry]
  /\ UNCHANGED <<setting, tiers, ranking, table, schedule, auctions, day, edits, tick, deaths>>

\* set_min_bid_tiers and set_veteran_auction_ranking replace what was there.
CommitConfig ==
  /\ config.at = "checked"
  /\ tiers' = IF config.entry.what = "tiers" THEN config.entry.value ELSE tiers
  /\ ranking' = IF config.entry.what = "ranking" THEN config.entry.value ELSE ranking
  /\ config' = Idle /\ edits' = edits + 1
  /\ UNCHANGED <<setting, table, schedule, auctions, day, tick, deaths>>

-----------------------------------------------------------------------------
(* The pool and its schedule *)

LiveIn(tbl, player) == {tbl[i] : i \in {i \in DOMAIN tbl : Live(tbl[i]) /\ tbl[i].player = player}}
LiveOf(player) == LiveIn(table, player)
SeasonRows(player) == {c \in LiveOf(player) : c.season = Season}
\* RosterSnapshot: any live row with a team, an RFA's and a UFA's too, puts its player on a roster.
Pooled == {p \in Players : \A c \in SeasonRows(p) : c.team = Unset}
Restricted == {p \in Pooled : \E c \in SeasonRows(p) : c.kind = "RFA"}
Others == Pooled \ Restricted

Ranked(p) == \E i \in DOMAIN ranking : ranking[i] = p
Rank(p) == IF Ranked(p) THEN CHOOSE i \in DOMAIN ranking : ranking[i] = p ELSE 0
RankedBefore(p, q) == Rank(p) # 0 /\ (Rank(q) = 0 \/ Rank(p) < Rank(q))
\* The others by rank, those without one last and in no particular order.
ReleaseOrders ==
  {order \in SetToSeqs(Others) :
     \A i, j \in DOMAIN order : i < j => ~RankedBefore(order[j], order[i])}

\* tier_slot: the ranked players evenly over the tiers, counting positions from zero.
MutTierSlot(position, count) == Min({position, Len(tiers) - 1})
TierSlot(position, count) == Min({(position * Len(tiers)) \div count, Len(tiers) - 1})

RfaSlot(p) == [player |-> p, day |-> 0, rank |-> Rank(p), tier |-> Len(tiers), rfa |-> TRUE]
OtherSlots(order) ==
  LET count == Cardinality({p \in Others : Rank(p) # 0})
      first == IF Restricted = {} THEN 0 ELSE RfaWeek
  IN [i \in DOMAIN order |->
        [player |-> order[i], day |-> first + ((i - 1) \div PerDay), rank |-> Rank(order[i]),
         tier |-> IF i <= count THEN TierSlot(i - 1, count) + 1 ELSE Len(tiers), rfa |-> FALSE]]

\* get_or_create_player_contract_for_veteran_auction
Poolable(p) == \A c \in LiveOf(p) : c.kind \in ExpiringKinds \cup {"FreeAgent"}
Created(players) ==
  LET new == SetToSeq({p \in players : LiveOf(p) = {}}) IN
  table \o [i \in DOMAIN new |-> UpForAuction(Len(table) + i, new[i], Season)]

\* persist_pool: contracts and slots in one transaction.
Persist(slots) == schedule' = slots /\ table' = Created(Pooled)

\* assemble_veteran_auction_pool, for the handler of PreseasonVeteranAuctionStart: it fails without
\* ranking or tiers and does nothing once there is a schedule.
Assemble ==
  /\ setting.rewrites \/ config = Idle
  /\ schedule = <<>> /\ setting.auctions = <<>>
  /\ ranking # <<>> /\ tiers # <<>> /\ \A p \in Pooled : Poolable(p)
  /\ \E order \in ReleaseOrders, rfas \in SetToSeqs(Restricted) :
       Persist([i \in DOMAIN rfas |-> RfaSlot(rfas[i])] \o OtherSlots(order))
  /\ UNCHANGED <<setting, tiers, ranking, auctions, day, config, edits, tick, deaths>>

-----------------------------------------------------------------------------
(* Release *)

DayPasses ==
  /\ day < LastDay /\ schedule # <<>>
  /\ day' = day + 1
  /\ UNCHANGED <<setting, tiers, ranking, table, schedule, auctions, config, edits, tick, deaths>>

\* Only what today brings.
MutDue == {i \in DOMAIN schedule : schedule[i].day = day}
\* find_auction_schedule_rows_due_for_release: slots stay due once their day has come.
Due == {i \in DOMAIN schedule : schedule[i].day <= day}
\* By day, then by rank, those without a rank last.
Sooner(s, u) ==
  s.day < u.day \/ (s.day = u.day /\ s.rank # 0 /\ (u.rank = 0 \/ s.rank < u.rank))

StartTick(t) ==
  /\ t \in setting.ticks /\ tick[t] = Idle /\ Due # {}
  /\ setting.overlap \/ \A u \in Ticks : tick[u] = Idle
  /\ tick' = [tick EXCEPT ![t] = [at |-> "opening", slots |-> Due]]
  /\ UNCHANGED <<setting, tiers, ranking, table, schedule, auctions, day, config, edits, deaths>>

\* By the contract he has at the moment.
MutOpened(player) == \E a \in DOMAIN auctions : table[auctions[a].contract] \in LiveOf(player)
\* find_auction_for_player_in_season: whatever has become of it.
Opened(player) == \E a \in DOMAIN auctions : table[auctions[a].contract].player = player

\* find_min_bid_tier_by_index, as the tiers are configured now.
TierKnown(index) == index \in DOMAIN tiers

\* The auction a slot opens: RFAs and UFAs at the salary they carry, the rest at their tier.
Opening(slot, tbl) ==
  {[contract |-> c.id,
    minimum |-> IF c.kind \in ExpiringKinds THEN c.salary ELSE tiers[slot.tier],
    owner |-> IF c.kind \in ExpiringKinds /\ c.prev # Unset THEN tbl[c.prev].team ELSE Unset,
    status |-> "Open", lead |-> NoLead] :
     c \in {c \in LiveIn(tbl, slot.player) : /\ Poolable(slot.player)
                                             /\ c.kind \in ExpiringKinds \/ TierKnown(slot.tier)}}

GoOn(slots) == IF slots = {} THEN Idle ELSE [at |-> "opening", slots |-> slots]

\* open_scheduled_auction, up to its insert: a slot that is opened or cannot be does not keep the
\* others waiting.
LookUp(t) ==
  /\ tick[t].at = "opening"
  /\ \E i \in tick[t].slots :
       LET slot == schedule[i]  found == Opened(slot.player)  left == tick[t].slots \ {i} IN
       /\ \A j \in left : ~Sooner(schedule[j], slot)
       /\ table' = IF found THEN table ELSE Created({slot.player})
       /\ IF found \/ Opening(slot, table') = {}
          THEN tick' = [tick EXCEPT ![t] = GoOn(left)]
          ELSE \E auction \in Opening(slot, table') :
                 tick' = [tick EXCEPT ![t] = [at |-> "inserting", slots |-> left, auction |-> auction]]
  /\ UNCHANGED <<setting, tiers, ranking, schedule, auctions, day, config, edits, deaths>>

\* insert_new_auction
Insert(t) ==
  /\ tick[t].at = "inserting"
  /\ auctions' = Append(auctions, tick[t].auction)
  /\ tick' = [tick EXCEPT ![t] = GoOn(tick[t].slots)]
  /\ UNCHANGED <<setting, tiers, ranking, table, schedule, day, config, edits, deaths>>

\* The process ends in the middle of a tick; what it has opened stays.
TickDies(t) ==
  /\ tick[t] # Idle /\ deaths < setting.deaths
  /\ tick' = [tick EXCEPT ![t] = Idle]
  /\ deaths' = deaths + 1
  /\ UNCHANGED <<setting, tiers, ranking, table, schedule, auctions, day, config, edits>>

PoolNext ==
  \/ \E entry \in Entry : BeginConfig(entry)
  \/ CommitConfig \/ Assemble \/ DayPasses
  \/ \E t \in Ticks : StartTick(t) \/ LookUp(t) \/ Insert(t) \/ TickDies(t)
=============================================================================
