# FBKL: a verification project

FBKL runs a fantasy basketball keeper league: a Rust backend over one Postgres
database, a scheduler that fires league deadlines, and a GraphQL API through
which the owners bid, trade, keep, draft and sign. This directory holds TLA+
models of its protocols, the TLC configurations that check them, and proofs
checked by TLAPS.

Everything shared lives in the database. There are no in-memory queues or
locks: concurrency is *database transactions of different processes* (scheduler
ticks, API requests), at Postgres' default isolation READ COMMITTED, with few
row locks. That decides how the models are built: **an action is one statement
or one committed transaction**, whatever a process read earlier is a variable
of its own, and a write by id happens whatever has become of the row since.

    JobRuns ----------------------------> ClaimLease        (refinement)
       |  EXTENDS
    Scheduler                             SchedulerProofs (of both)
       :  dispatches the handlers, closes and expiries of the modules below
    Contracts      rows of the contract table, pure
       |  EXTENDS
       +-- RosterRules   caps, limits, penalties, pure
       |     +-- Season        a league from one season into the next
       |     |                            SeasonProofs, SumProofs
       |     +-- AuctionHouse  EXTENDS PoolRelease too: many auctions at once
       |                                  AuctionHouseProofs
       +-- PoolRelease   pool, schedule, release of the veteran auction
    VeteranAuction ---------------------> AscendingAuction  (refinement)
       :  one auction                     VeteranAuctionProofs
       :  hands a closed RFA auction to
    RfaHandshake -----------------------> RfaRules          (refinement)
       :                                  RfaHandshakeProofs
       :  a trade moves the picks it depends on
    Trades -----------------------------> TradeDeals        (refinement)
                                          TradesProofs
    DraftOrder, Eligibility   pure
       +-- RookieDraft   lottery, slate, picks
                                          RookieDraftProofs

A module `...Proofs` holds the theorems about the module it is named for and
their proofs, checked by TLAPS. `SumProofs` has the lemmas about sums over
finite sets.

## 1. Inventory

| Part | State | Operations | Meets | What is hard |
|---|---|---|---|---|
| **Job runs** `entity/src/queries/job_run_queries.rs`, `transaction-processor/src/lib.rs` | `job_run` rows: key, status, attempts, updated_at | claim (insert or conditional reclaim), dispatch in one transaction, record | every scheduled effect goes through it | workers racing for a claim, death at any statement, a live worker taken for dead |
| **Scheduler** `jobs/src/lib.rs`, `lambdas/src/bin/scheduler.rs` | `deadline` rows; per tick: its snapshot, the stopped leagues | tick: chains of deadlines, release, closes, RFA windows; `triggerDeadline` | job runs; every handler | overlapping ticks, a stuck deadline, the manual trigger |
| **Veteran auction** `logic/src/auction/*` | `auction`, `auction_bid`, `auction_schedule`, tiers, rankings | configure, assemble pool, open slot, bid, slide, crunch sweep, close | bids race ticks; an RFA's close opens the handshake | bids between two statements of a tick, timestamps of different moments, a slot opened twice, the hard deadline |
| **FA auction** `fa_auction.rs`, `start_new_auction.rs` | the same tables, `all_bid_deadline` | bid, roll, close; a nomination that nothing calls | weekly locks, All-Star break | when late bids move the deadline |
| **Bid gate** `place_bid.rs`, `roster/salary_calculation.rs` | none of its own: contracts, leads, reserved picks | admit or reject a bid | all auctions of a team, RFA handshake | it is checked under the lock of one auction |
| **RFA handshake** `logic/src/deadline_processing/rfa_resolution/*` | `rfa_resolution`, `rfa_compensation_pick`, auction status, contract chain, pick owners | raise, stand pat, change pick, match, decline, settle unbid; two expiries | auctions, trades (a pick moves), scheduler | unlocked read-then-write of five tables |
| **Trades** `logic/src/trade/*` | `trade`, `trade_action`, `team_trade`, `trade_asset`, options | propose, accept, reject, process, invalidate others | contracts, picks, salaries | simultaneous accepts, one asset in several trades, statuses written by id |
| **Keeper deadline** `keeper_deadline/*` | pending team updates, contracts, `rfa_resolution` | declare keepers, process, seed RFA resolutions | scheduler, RFA, moves and trades in between | rows named days before they are dropped |
| **Roster lock** `roster_lock/*` | pending team updates, rosters | validate, settle updates | scheduler | one illegal roster fails the league's lock and blocks the chain |
| **Rookie draft** `rookie_draft/*` | standings, `rookie_draft_lottery`, `rookie_draft_selection` slate | enter standings, draw, start, pick, pass | picks, contracts, eligibility | two picks for one selection, one player twice, a death inside the lottery |
| **Contracts** `entity/src/entities/contract/*` | chains of contract rows | sign, trade, drop, IR, activate, send abroad, advance, expire | everything | one Active row per player and season |
| **Team updates, transactions** | the league's log | written with each operation | keepers, locks, drop penalties, trades | lists and salaries read before other transactions commit |
| **Eligibility** `eligibility/*` | none | classify a player, build the pools | auctions, draft, moves abroad | corrections between two uses |
| **API** `server/*` | sessions | resolvers, role guards | all of the above | what a resolver does not check |
| **Web apps, schema, constants, infra, tools** | - | - | - | - |

What makes each correct: *job runs*: an effect happens once and the row says
so; *scheduler*: league order, no false blocking; *auction*: leaders only ever
offer more, the leader wins, everyone gets the reprieve, it ends; *pool*: a
fair schedule, every player put up once; *bid gate*: nobody owes what he cannot
pay; *RFA*: player against pick, at the right price, and it ends; *trades*: all
accept before anything moves, each asset moves once, a settled trade stays
settled; *keepers and locks*: what was declared is what is dropped, and what is
left is legal; *draft*: one lottery, one player per selection and one selection
per player, in turn; *contracts*: one live row; *log*: what it tells adds up.

`PROJECT.json` lists the components with their sources and, under `hazards`,
what is hard to test at its line.

## 2. What is modelled

### JobRuns

The claim protocol of `run_claimed`. Workers are callers (ticks, the manual
trigger), events are idempotency keys.

| Code | Model |
|---|---|
| `claim_job_run`: INSERT .. ON CONFLICT DO NOTHING | `InsertRun`, `InsertConflicts` |
| `claim_existing_job_run`: SELECT and decide | `ReadExisting` |
| `reclaim_with_filter`: conditional UPDATE | `ReclaimStale`, `ReclaimFailed` |
| handler Ok, `mark_job_run_succeeded`, COMMIT | `HandlerCommits` |
| handler Err, ROLLBACK; then `mark_job_run_failed` | `HandlerFails`; `RecordFailure` |
| a process dies, or a statement errors | `Abandon` |

`effects` counts committed handler transactions; it is the only thing said
about a handler here. `ClaimLease` is what the protocol is for: an event is
held by one worker at a time, given up or applied, applied at most once.
Application clock and database clock are one `now`. Nothing writes the
status Pending, so no behaviour has it.

### Scheduler

EXTENDS JobRuns. A worker is a tick (`StartTick`, then `HandOver` /
`TakeOutcome` per event, `SkipBlocked` in a stopped league, `NextLoop` from
deadlines to closes to windows) or, if it is a commissioner, a `Trigger`.
`CallErrors` is an error inside `process_deadline`, `WorkerDies` the death of
the whole tick. A *calendar* fixes which events exist, when they are due and
how many attempts their handler fails.
The handler's Abandon of JobRuns leaves the worker in its tick; a finished call
is forgotten (its outcome and event are reset), which keeps the states few and
is all the code remembers of it.

### VeteranAuction

One preseason auction from the moment it opens. `BeginBid` is BEGIN (its time
becomes `created_at`), `PlaceBid` gets the row lock and passes the checks,
`CommitBid` inserts, moves `close_at` and commits; any request may end without
a bid (`EndRequest`: a rejection, also by the cap and roster rules that are not
modelled, or a failure). A tick is `ListUnbid`/`SlideWrite`,
`ListOpen`/`ReadCrunchBid`/`CrunchWrite`, `ListDue`, `ClaimClose`,
`SettleAuction`: what it lists it keeps, and its writes go by id. `SweepFails`
and `CloseFails` are errors of its parts. `claim` is the job run of the close,
whose exclusiveness is what JobRuns shows. A *setting* fixes the kind of the
contract, the ticks that may overlap and how many failures there may be.
`AscendingAuction` is the promise to the bidders. That `Extension` and
`CrunchQuiet` are at most the `QuietWindow` is how the constants are set
(`config_settings.rs:29-41`).
In season (`inSeason`) the auction has the all-bid deadline of its week, which a
late bid moves (`rolled_all_bid_deadline`), the next roster lock as its hard
deadline, and neither ladder nor crunch window. Such an auction is in the tables
and in the scheduler, but nothing in the code opens one. After the season's last
roster lock it would have no hard deadline (`close_timing.rs:160-171`); the model
always has one. In season that deadline only enters as the least of some times,
and the invariants and action properties are proved for every `HardDeadline`: a
finite run without a lock is one with a lock later than every time it computes,
so they hold without one too. Liveness is checked with a lock only; without one
the end of an auction rests on the all-bid deadline, which each late bid moves
once.

### PoolRelease and AuctionHouse

PoolRelease is the pool of the preseason auction. `BeginConfig`/`CommitConfig`
are the check and the rewrite of the commissioner's tiers and ranking;
`Assemble` is the handler of the auction's start: `Pooled` players (the classes
of `RosterSnapshot`), `Restricted` ones first, the others by `Rank` with their
day and `TierSlot`, new contracts for who has none. A tick (`StartTick`) takes
the set of slots that are due, and one after the other, the soonest first, looks
for an auction of the player (`LookUp`) and then inserts one (`Insert`); it has
no transaction, and it may die (`TickDies`).

AuctionHouse adds the bidders. `BeginBid` is a bid up to its last read:
`WithinMeans` is `validate_bid_cap_and_roster`, `PickSettles` the pick that a
bid on a restricted free agent must name; `CommitBid` writes. A close, a raise,
a decision and their contract rows are one step each here, as VeteranAuction
and RfaHandshake take them apart. `Promised`, `Holds`, `Reserved` are the three
queries over all auctions and resolutions of a team.

### RfaHandshake

One restricted free agent. A request (a mutation, or an expiry dispatched by a
tick) is read-and-check, then read what is signed or forfeited, then write and
commit; nothing locks. `Replaced`/`CanReplace` are the contract chain with the
unique index that admits one Active row per player; `named` is the one
compensation pick row; `windowOver` stands for both 48 hour clocks; `TradePick`
is what a trade does to a pick. Bids and the close are single steps here. A
*setting* fixes which requests overlap, whether the owner waits for the close
before he settles a player as unbid, whether bids wait for running requests,
and how many trades there are. `RfaRules` is the same story without requests,
rows and clocks. The player's own contract is not traded while he is auctioned.

### Trades

A request is a mutation of the API: `BeginPropose` reads the owners of the
assets, `InsertTrade` writes the proposal; `RejectTrade` is one transaction
that writes the status by id; `BeginAccept` inserts the accept, reads the
actions it can see and, if all teams have answered, validates the assets. Then
the accept is committed (`RecordAccept`), or `MoveAssets` writes contracts,
picks and status and lists the other active trades, and `CommitTrade` ends the
transaction with their invalidation. What is written shows at the commit; until
then `Locked` are the rows written, which other writers wait for (`RowsFree`).
The locks of a transaction are taken at once; where Postgres would find a
deadlock one of the two fails (`Fail`, which is also every failed check,
statement or process).

| Code | Model |
|---|---|
| chain of `contract` rows, status Active | `rows[p]`, `live` |
| `draft_pick.current_owner_team_id` | `owner` |
| `trade.status`, `trade_asset`, `trade_action` | `status`, `assets`, `actions` |
| latest in chain, still the giver's | `Valid` |
| `add_replacement_contract_to_chain`, unique index | `Replaced`, `CanReplace` |
| `roster_op` (IR, rookie moves; drops) | `BeginRosterMove`, `CommitRosterMove` |
| `team_update` of a trade: what came, what went, the contracts listed | `NewTrade`, `history` |

The three roster moves are those that differ in the chain they leave: the
contract goes on with its team, it becomes a free agent's Active row, or it
expires. They start from the Active row. A trade may be proposed once, and an
action counts once per team and kind, as only its presence is ever asked for.
The assets never go to the proposing team: the API has no way to say so (below).
A *setting* fixes which trades may be proposed, whether requests overlap,
whether teams only act on trades that are still listed as active, and the
roster moves. `TradeDeals` is the trade as owners understand it.

### Contracts, RosterRules, Season

Contracts is pure: for every operation the set of rows it may yield from the row
it was given, empty where the code refuses (`Advanced`, `Dropped`, `WithIr`,
`ActivatedRookie`, `MovedAbroad`, `Traded`, `SignedFreeAgent`, ...), and
`Replace`, which writes it: the old row becomes Replaced, whatever it was, and
the new one is appended. `UniqueActive` is the unique index. RosterRules has the
caps of the deadlines, the drop penalty, and what keepers and locks allow.

Season moves a league along a `Calendar` of deadlines.

| Code | Model |
|---|---|
| `roster_op`: row and deadline, then the transaction | `BeginMove`; `CommitMove` or `RefuseMove` |
| `save_keeper_team_update` | `DeclareKeepers`, `FindKeeperTxn`, `SaveKeepers` |
| a handler's first reads; its writes; its failure | `StartDeadline`; `FinishDeadline`; `FailDeadline` |
| `advance_league_contracts` | `AdvanceRows` |
| `process_keeper_deadline_transaction`, `seed_rfa_resolutions` | `ProcessKeepers`, `Seeded` |
| `lock_rosters` | `LockRosters` |
| `contract`, `transaction`, `team_update`, `rfa_resolution` | `table`, `txns`, `updates`, `resolutions` |

A handler rewrites the rows it has read one by one, in any order, as
`find_active_contracts_in_league` names none: `AllReplaced` are the tables that
can come of it, none where a row cannot be advanced or the index refuses it on
the way (`AfterFirst`: the table after the first k of them).
A *setting* fixes the deadlines passed, the rows, what owners do and how often,
whether requests and handlers overlap, and whether they may name rows that are
no longer Active. Its rows are as seasons before leave them (`Orderly`): chains
of one player, a player's live row the last of its chain. `NbaPlayers` are those
the unique index holds for: its `player_id` is NULL for players only a league
knows.

### RookieDraft

`SaveStandings`; `BeginLottery`, `CommitSeed`, `SaveDraw`, with `Crash` between
them, as `run_lottery` commits each statement; `BeginStart`/`CommitStart`, where
the start draws or replays the lottery inside its transaction and builds the
slate; `BeginPick`, `LockSelection`, `ClearPick`, `CommitPick` and `BeginPass`,
`CommitPass`. Around it picks are traded, players dropped, facts corrected.
DraftOrder computes the order from standings, drawn teams and picks, and refuses
it (`OrderDefined`) where the drawn teams are not those that missed the playoffs
or a playoff team has no finish, which the start then fails on: a sort is
the order of the teams in which none comes before one that its key puts first
(`SortedBy`), a definition the provers can open. The weighted draw is given as
the places each seed draws. Eligibility is `classify_player` with its overrides,
and the pool of the draft.

## 3. The runs

| Run | Module, cfg | Question | Answer |
|---|---|---|---|
| `job_runs` | JobRuns | Does a scheduled effect happen once, whatever crashes and races? | yes |
| `scheduler` | MCScheduler, Scheduler.cfg | Do overlapping ticks keep league order, and does only what must wait wait? | yes |
| `veteran_auction` | MCVeteranAuction, Veteran.cfg | Do bids racing ticks get their reprieve, and the leader the player, in preseason and in season? | yes, if requests are short |
| `racing_bids` | VeteranRacingBids.cfg | Does the highest committed bid lead? | no |
| `auction_house` | MCAuctionHouse, AuctionHouse.cfg | Is the release fair and complete, and can teams pay for all they lead and win? | yes, one bid of a team and one tick at a time |
| `rfas_pooled` | RfasPooled.cfg | Are restricted free agents in the pool? | no |
| `rfa` | MCRfaHandshake, Rfa.cfg | Is the player paid for, at the right price, and signed in the end? | yes, in peace |
| `trades` | MCTrades, Trades.cfg | Is a trade an atomic swap by consent, are the others over its assets off, and does the log add up? | yes; the last two in full only one request at a time |
| `trade_reopened` | TradeReopened.cfg | Does a settled trade stay settled? | no |
| `season` | MCSeason, Season.cfg | Do contracts come through a season's deadlines as declared, paid for and legal? | yes, in turn |
| `rookie_draft` | MCRookieDraft, RookieDraft.cfg | Is the lottery drawn once and every selection resolved once and in turn? | yes, under all races |
| `draft_traded_pick` | DraftTradedPick.cfg | Does a traded pick land with its new owner? | not once the slate is built |

Two more configurations show what the theorems of section 4 cannot do without:
with `VeteranSweeps.cfg` (MCVeteranAuction) TLC violates `SweepsOnlyShorten`, with
`KeepersEarly.cfg` (MCSeason) `KeptWithinLimits`. What they show of the code is in
section 5.

Properties worth knowing:

- `SucceededIffAppliedOnce`, `ProcessedIsApplied`, `SuccessIsFinal`,
  `ImplementsLease`, `EventsSettle` (JobRuns): no effect twice, none lost, and
  what callers are told is true.
- `TicksInOrder` holds even while the commissioner fires deadlines out of
  order: a tick's own chain never overtakes. `LeaguesIndependent`: whatever is
  repairable is processed, if its chain is.
- `FullReprieve`: until the crunch window opens no interleaving of slides,
  sweeps and closes takes the quiet window from a bid. `ImplementsAuction`: who
  leads at the close is settled on. `LadderRunsOut`: no unbid auction ends while
  a tier is left. `SweepsOnlyShorten` is what the crunch sweep says of itself.
- `PickPaysForPlayer` holds under *all* races, thanks to the unique index and
  to the writes of a decline being one transaction. `FollowsRules` is claimed
  for one request at a time only (`Orderly`). `EndsUndisturbed` allows racing
  requests, but no trades and no bid in the middle of a change of pick.
- `AtomicSwap` holds under all races of accepts, rejects and roster moves, for
  contracts thanks to the unique index and the row locks. `OffersStand` says
  that the invalidation finds every trade it must, even if settled trades are
  accepted again, and `FollowsDeals` is the refinement: both are claimed for
  requests one after the other. `HistoryTells` says that the team updates,
  added up, give the players a team has, under all races except with drops of
  expired contracts (they write no update); that the last update also *lists*
  them all is claimed for requests one after the other.
- `OneLiveRow`: over all seasons, where the index looks at one season only;
  `DropsArePaid`: the penalty finds a drop through a row that has no team;
  `KeptWithinLimits` and `OnlyDropsGo`: between declaration and deadline rows
  move and come; `HoldersDesignated`: the owner seeded for an RFA is found from
  every later row of his chain.
- `ScheduleFair`: the integer divisions into days and tiers, for pools with no,
  few and many ranked players. `SlotsOpen` and `PutUpOnce` together: at least
  one auction a player and at most one, though slots stay due for ever, ticks
  die and closed auctions leave other contracts behind.
- `Affordable` and `DebtsPayable` relate all auctions and resolutions of a team
  to its cap, roster and picks, across bids, outbids, closes, raises, declines.
- `InTurn`, `LotteryFixed` and `SlateComplete` hold under all races and deaths;
  `DraftedOnce` inside the draft's window.

### Bounds, and why they are enough

- *JobRuns*: two workers and one event, as events are independent here; two
  attempts are the fewest with a retry and an exhaustion; `StaleTimeout 2` and
  `RunLimit 1` let a claim be fresh, held and abandoned; two crashes strand a
  claim twice. `MaxCrashes` is the only artificial bound.
- *Scheduler*: two workers, one of them also the commissioner; two events in
  four calendars (a chain whose first deadline recovers, one whose first never
  does, two leagues, a close with a window). `StaleTimeout 1`, `RunLimit 0`.
- *VeteranAuction*: four instants of preseason, a quiet window of two, a crunch
  window that starts at three, two tiers, two bids and two ticks.
  `RequestLimit 0`: a request or tick begins and ends within one instant, as
  seconds are to a day. `MaxRequests` and `MaxAmount` bound bids. The clock
  stops at `HardDeadline`, when every close time has passed; ticks go on there.
  Two ticks with no failure, or one tick with one: a failed slide of one tick
  together with an overlapping tick that slides the same auction can expire it
  on an outdated close time (below). For two ticks at once in preseason,
  `ImplementsAuction` is a matter of two bids and no more: with a third one in a
  wider crunch window (QuietWindow 3, CrunchStart 3, HardDeadline 6) TLC finds
  the leader lost to a sweep as `VeteranSweeps.cfg` shows one; `LeaderKept`
  (section 4) says for which settings it holds with any number.
- *RfaHandshake*: two bidders with picks of two rounds, three prices of which
  the highest demands the better round, two requests, one trade.
- *AuctionHouse*: five players, one of each kind, two releases a day and a week
  of two days, five days: so the week ends, a day is full and one is not. One
  rewrite of the configuration, or one tick that dies. For bids two teams and
  two auctions (an RFA and a free agent, two RFAs, a UFA traded since he became
  one), four prices that fall into three compensation rounds, three picks; cap
  and roster leave room for one signing and not for two at every price.
- *Trades*: three teams are the fewest for an accept that is not the last one;
  one player and two picks; a trade of three that shares its player with one
  trade and a pick with two others that move it to and fro. Two requests.
  `MaxRows` bounds the roster moves. In turn, the trades over the pick run; at
  once, those over the player. TLC may stop when everything is proposed and
  settled (`CHECK_DEADLOCK FALSE`).
- *Season*: two teams, up to four contracts of different terms, six deadlines
  over two seasons, up to two moves (`moves`), two requests. Five settings:
  keepers over the limit next to drops; keepers with trades and activations;
  the end of a season; stale rows in turn; races in turn with the advancement.
  `KeeperCountLimit` is 2 for 14, so that three players are too many.
- *RookieDraft*: four teams of which two missed the playoffs, two rounds, three
  players (a league player, a rookie who is held, a veteran), two seeds; two
  events besides the draft (`MaxEvents`); two requests. The commissioner corrects
  ranks, lets a team into the playoffs, or leaves a finish out.

The action properties and invariants of Season, RookieDraft and Trades are
checked up to a permutation of the requests, which is sound as nothing names
one; no run with a liveness property uses symmetry. Runs stop where everything
is settled or a bound is reached (`CHECK_DEADLOCK FALSE`).

### Fairness, and why the code justifies it

- JobRuns: a live worker goes on (WF); every tick hands over every unprocessed
  event again, so a claim is attempted infinitely often (SF); the clock runs
  (WF). Crashes are never fair and are bounded: with infinitely many crashes
  nothing could be promised.
- Scheduler: EventBridge starts a tick each minute, so `StartTick` and what
  follows are WF per worker; the clock is WF.
- VeteranAuction: requests and ticks end, ticks keep starting (WF). The clock
  is SF as its guard says only that what runs ends in time. Nobody has to bid.
- RfaHandshake: the close and the passing of 48 hours are WF. SF for the
  expiries, for the decline's reads and for its commit says that not every one
  of the scheduler's repeated attempts is cut short. No team has to act.
- AuctionHouse: days pass, ticks keep starting and a tick that runs goes on
  (WF); that ticks die is bounded. Nobody has to bid, and no auction to close.

## 4. What is proved

For any number of workers, players, teams, picks, trades, requests and ticks,
under the assumptions named with each module's constants (`JobRunConstants`,
`SchedulerConstants`, `AuctionConstants`, `SeasonConstants`, `TradeConstants`,
`HandshakeConstants`, `DraftConstants`, `PoolConstants`, `HouseConstants`,
`LimitConstants`). None of the invariants is inductive by
itself; for each module the one that is, is given below.

**`SchedulerProofs`**, of JobRuns: callers that come and go as they like

- `TypeCorrect`: `TypeOK`, with the fact that a worker past its INSERT works on
  a row that exists.
- `AtMostOnce`: `OneClaimant`, `SucceededIffAppliedOnce`.
- `ProcessedIsReal`: `ProcessedIsApplied`.
- `SuccessKept`: `SuccessIsFinal`.
- `JobRunsImplementLease`: `ImplementsLease`, step by step.

The last four assume `FastHandlers`: `RunLimit < StaleTimeout`. It stands for the
deployment: the scheduler Lambda is killed after 120 seconds
(`infra/lambdas.tf`), the API Lambda after 30, and a claim is stale after ten
minutes. The long-lived server process has no such timeout; there it is an
assumption on the handlers.

The argument (`IInv`): that two workers never hold one event follows from what a
claim says about its row (`HoldersFresh`: the row is Running since the claim was
taken and the claim is at most `RunLimit` old) and from what a worker about to
reclaim remembers (`CutoffsOld`: its cutoff is at least `StaleTimeout` old): the
filter of its UPDATE cannot match a row that is held. That the effect is applied
once then follows, as only a holder applies it and does so together with the
Succeeded status, which no filter matches again.

The same of Scheduler, whose workers are ticks and triggers of any calendar,
under `FastHandlers` too:

- `TicksTyped`: `SchedTypeOK`.
- `ClaimsUnderTicks`: `OneClaimant`, `SucceededIffAppliedOnce` and
  `ProcessedIsApplied` hold of the ticks as they do of any callers.
- `DeadlinesInOrder`: `TicksInOrder`, whatever the commissioner fires.

`Scheduled` is `IInv` with the types of a tick (`Ticking`) and the call it has
out (`Calling`: always the head of its list, in a chain that goes on). A step of
the claim protocol is one of JobRuns; what is new is that a call that is over
forgets its claim (`Forgotten`). For the order `ChainLeft` says what a snapshot
taken long ago is still good for: whatever deadline of a league has had no
effect yet and comes before one on the list, is on the list before it. A chain
only moves on when its head has been processed, and `ProcessedIsApplied` makes
that an effect.

**`VeteranAuctionProofs`**, for any bidders, bids, tiers and windows, in
preseason and in season

- `AuctionTyped`: `TypeOK`, with no assumption on clocks or ticks.
- `ReprieveKept`: `FullReprieve`, where no sweep fails next to another tick
  (`Calm`).
- `LadderWalked`: `LadderRunsOut`.
- `LeaderKept`: `ImplementsAuction`, every step an offer, an end or nothing. In
  season under any overlaps and failures; in preseason for one tick at a time,
  or for ticks that do not fail if there is no crunch window (`Orderly`).
- `SweepsInTurn`: `SweepsOnlyShorten`, while ticks come one after the other.

All but the first assume `Instants`: a request or tick is over before the clock,
which counts in the hours of the windows, moves on. The code gives nothing like it
beyond requests being short: section 5 has what a bid can lose if it is not.

What a tick lists it keeps, while bids go on. So `Running` says of every place in
a tick what its list is still good for: what is about to be slid is unbid or its
bid is of this instant (`Sliding`), what a sweep is about to write is the short
window of some bid (`Swept`), nothing that could be slid is left
behind a slide (`Walked`, `Unslid`), and who closes has found the clock run out
(`InTimeToClose`) and the leader leading (`OnTheLeader`). `Steady` is where the
last two hold: where no failed or foreign sweep can write an older clock. It
is needed: `VeteranSweeps.cfg` shows the write that breaks it.

**`SeasonProofs`**, for any calendar, first rows, requests and moves

- `SeasonTyped`: `TypeOK`, whatever races.
- `OneRowPerPlayer`: `OneLiveRow`, for one request and handler at a time.
- `KeepersGoAsDeclared`: `OnlyDropsGo`, likewise.
- `DropsCost`: `DropsArePaid`, under all races, if no setting begins with a free
  agent's row, which would be the drop of an earlier season.
- `HoldersOnRecord`: `HoldersDesignated`, if a season has one keeper deadline
  (`OneKeeperDeadline`), and if either requests come in turn or the unique index
  covers every player.
- `KeepersFit`: `KeptWithinLimits`, if keepers are declared once the contracts
  are in the season they are kept for (`KeepersAfterAdvance`). Nothing in the
  code enforces that: `KeepersEarly.cfg` shows what happens without it.

`Typed` (with `FewMoves`: a move under way has its number) carries over every
handler because the rows it writes are next rows of the ones it read, appended
in some order (`Rewrites`, `Heirs`). `Turns` says that in turn what a request or
handler has read is still so; for the rest there is what stays true of rows
that are stale: rows only ever turn into Replaced, in the places they have.
`Dues` has for every row that a drop has left behind the transaction that the
penalty needs to find, and no request that could touch it again. `Seasoned`,
`Indexed`: a resolution is of a season whose keepers are settled, so that a
deadline of a season finds none of its own yet and records who holds the player
then. `Declared` and `Covered`:
a declaration was valid when it was made, and as long as nobody is activated or
traded, what its team has left of it is no more and no dearer.

That less costs no more is about sums over sets of any size. `SumProofs` has
that the fold has a value (`SumsExist`), that any one element can be split off
it and not only the one it takes first (`SumWithout`), and that a sum grows
along an injection into dearer elements (`SumIntoLarger`). Its induction is over the cardinality, by the smallest
counterexample: the library's `WFMin` says that a set of naturals has a least
element, and unlike its induction rules takes sets for arguments, no operators.

**`TradesProofs`**, whatever requests and roster moves race

- `TypeCorrect`: `TypeOK`, one Active row per player among it.
- `SwapsAreAtomic`: `AtomicSwap`.
- `UpdatesTell`: `HistoryTells`.

The inductive invariant `Safe`: beside types (`Typed`), the unique index
(`ChainsOK`); every asset of a trade goes where the offer says and the row it
names was once the giver's (`TradesOK`); and what an acceptance has read and
validated is still so when it commits, because its rows are locked
(`RequestsOK`, `Apart`: two trades that are about to commit share no asset). The
last is what makes the swap atomic. `Told` adds that the updates add up
(`HistoryOK`) and that without overlap a request finds what it left (`Serial`).

The same for the deals:

- `OffersStay`: `OffersStand`, with one request after the other.
- `TradesImplementDeals`: `FollowsDeals`, if besides teams only act on active
  trades. That is the scope of the refinement itself; what the code does outside
  of it is in section 5.

`Standing` adds `Peaceful` to `Safe`: every active trade offers what its teams
have now. The step that keeps it is the commit, which must invalidate all other
offers that one of its assets is in.

**`RfaHandshakeProofs`**, whatever requests race

- `PlayerIsPaidFor`: `PickPaysForPlayer`.
- `TypeCorrect`: `TypeOK`, given `UnbidWaits`: the owner settles a player as
  unbid only once the auction has closed. Without it the resolution can be
  settled and won.

The requests lock nothing, so `Safe` cannot say that what they read is still so.
It says what survives: there is one Active row (`ChainOK`), a winner stays
(`WinnerStays`), rows are only added. The unique index then lets one of several
racing decisions through, and this one moves player and pick together.

And of the rules:

- `HandshakeImplementsRules`: `FollowsRules`, under `Orderly` (one request at a
  time, and the owner waits), the scope of the refinement itself.

`Ruled` adds that resolution, auction, pick and chain agree on how far the
handshake is (`InStep`) and that what a request has read holds.

**`RookieDraftProofs`**, for any picks and passes at the same time

- `TypeCorrect`: `TypeOK`, given no more than `DraftConstants`.
- `LotteryStays`: `LotteryFixed`, wherever the server dies.
- `PicksInTurn`: `InTurn`.
- `NobodyDraftedTwice`: `DraftedOnce`, while the draft is in its window.

`Safe` says that a lock is held by one request, on the selection on the clock
(`LocksOK`), and that who has been drafted is on a roster or banned (`DraftOK`),
so that the check under the lock keeps him from being drafted again, dropped or
not. Of the constants `DraftConstants` assumes that teams are numbers, standings
are typed, a seed draws each place of the pool once, and a draft that has begun
had its lottery. That the slots of the computed order name picks is proved.

And of its order:

- `EveryPickSlated`: `SlateComplete`, under `EveryTeamStands` (every team has a
  standing) and `FinishesApart` (no entry of standings leaves two playoff teams
  level in both finish and rank). No index keeps two standings of a season from
  that, and the ids that break such a tie break it the same way in every round:
  the two would not be in reverse order from round two on.

`Drafted` is `Safe` with the types (`Sorted`), with the slate as built from some
standings the lottery's order lists the missed teams of (`Slated`; the present
ones may have been edited since), and with the standings among those the two
hypotheses speak of (`Ranked`). The lemmas below it say of the operators what
the code's sorts and chains are for: a total order sorts a set into a sequence
that has each element once (`SortSorts`, `Lists`), the draw permutes the pool
(`DrawnLists`), each round lists every team (`RoundsList`), the pick of a round
and place is found at its slot (`SlotsInPlace`), and each once (`EachPickOnce`).

**`AuctionHouseProofs`**

- `TypeCorrect`: `TypeOK`, racing or not.
- `NobodyUpTwice`: `PutUpOnce`, under `TicksInTurn` (no setting overlaps ticks):
  no lock or index stands in the way of two ticks.

`Safe`: `Typed`, `Auctioned` (who has been won has had his auction) and `Apart`:
one tick runs, and what it is about to insert is for a player without an
auction. Ticks that die halfway are within the theorem.

And of its debts:

- `PicksPay`: `DebtsPayable`, under `TicksInTurn` and `OneBidEach` (no team has
  two bids under way at once). A bid locks its auction and not its team, so the
  second is not the code's own doing; section 5 has what happens without it.

A bid checks its pick in one step and names it in another. `Solvent` therefore
says of every bid under way that what it read is still so (`Pending`), on top of
what is true between bids: a debt is backed by a named pick (`Backed`), its
namer still holds it (`StillHeld`), it is named once (`NamedOnce`), and a
resolution with a winner has seen its auction end (`Waits`).

And of what its teams can bear:

- `MeansKept`: `Affordable`, under `OneBidEach`, `StartsWithinMeans` (teams are
  within cap and roster before the first bid) and `OpensAtSalary` (a restricted
  free agent who is up already opened at his salary or above, as `Opening`
  opens them).

`Thrifty` says of every bid under way that its team has room for it beside all
it leads and holds (`BidFits`), so that the write finds what the read saw; that
prices cover the salary of the row they replace (`Priced`), so that a signing
moves a sum from the bids to the rows without raising it; and that nobody has
won what awaits its auction (`Unwon`). The sums are those of `SumProofs`.

And of its release:

- `ReleasedFairly`: `ScheduleFair`, under `ConfigFirst` (no rewrite of tiers or
  ranking is under way while the handler runs).

`Planned` adds to `Safe` that nothing is being rewritten once there is a
schedule. The rest is arithmetic: `q <= a \div d` just if `q * d <= a`
(`AtMostQuotient`), so days and tiers do not fall along the order; the ranked
are its first places (`RankedFirst`); a tier has the places from one `Cutoff` to
the next, and two such stretches differ by one at most (`CutsEven`), of fewer
ranked players than tiers too.

Only model-checked is all liveness (`EventsSettle`, `LeaguesIndependent`,
`AuctionSettles`, `EndsUndisturbed`, `SlotsOpen`), which is beyond the prover, as
is ENABLED. Every invariant and every action property of the passing runs has a
theorem.

## 5. Where code and docs differ

Four runs each show one such difference (`findings` in `PROJECT.json`):
`racing_bids`, `rfas_pooled`, `trade_reopened`, `draft_traded_pick`. Others met
on the way:

**Jobs and scheduler**

- The manual trigger dispatches any deadline, also one before which others of
  its league are still open, where a tick would stop.
- If a handler can outlive the ten minutes, a second worker runs the same event
  next to it, although "concurrent ticks cannot both claim the same event"
  (`job_run_queries.rs:105`): `OneClaimant` with `RunLimit >= StaleTimeout`.
- A reader that saw Failed with an attempt left can reclaim a run that another
  worker has meanwhile used up: the filter does not test `attempts`.
- An exhausted run "must be retried manually from the commissioner console"
  (`jobs/src/lib.rs:6-8`), but the console's trigger takes the same claim path
  and is told AttemptsExhausted.
- Deadlines of the same instant come in no particular order, although
  `deadline_queries.rs` orders its other queries by id too.

**Auctions**

- The ladder day compares the tick's `now` with the database's `updated_at`:
  where they differ an auction can end before the ladder has been walked.
- A crunch sweep can overwrite a close time that a bid has just moved later: the
  bid has less than its reprieve. And where two sweeps overlap the later write
  may be the later time, though "the sweep only ever moves a close time earlier,
  so a second run over the same auctions is a no-op" (`crunch_window.rs:8-9`):
  two ticks list the auction, one reads its bid, another bid commits with its
  short reprieve, the second tick reads that one; the first writes, then the
  second, to which the listed close time is still later, writes a later one
  (`VeteranSweeps.cfg`). With a third bid the close can settle on a bid that no
  longer leads.
- A bid that begins before the close time and commits after the close handler
  has read the leader is accepted and lost (`ImplementsAuction` with
  `RequestLimit 1`).
- A slide that fails in one tick while it succeeds in an overlapping one can
  expire an auction with a fresh bid.
- Two release ticks at once can both find a player without an auction and open
  two, though "opening an already-opened schedule row returns the existing
  auction" (`jobs/src/lib.rs:218-226`): `PutUpOnce` with `OverlapSettings` of
  MCAuctionHouse.
- A team that bids on two auctions at once passes the cap and roster check
  twice, and can name one pick twice: `Affordable` and `DebtsPayable` with
  `RacingSettings`. A raise and a match are checked for neither at all.
- `ensure_veteran_auction_not_started` looks outside the transaction that
  rewrites the tiers, so "a late rewrite" (`auction_resolvers.rs:369`) can still
  "desync" the schedule; a slot whose tier is gone then fails at every tick.
- Without a ranking or tiers the auction's start fails again and again.
- `open_in_season_fa_auction` (`fa_auction.rs:115`) has no caller.

**RFA handshake**

- A player is taken for unbid as long as his resolution has no winner, and that
  is set only at the close: settled before, his bids are lost.
- A pick traded after it was named makes every decline fail, for good.
- Two requests on one resolution: a raise can move the deadline of an already
  declined resolution back to AwaitingMatch (`open_rfa_match_window` writes by
  id); a change of pick by a leader who is being outbid overwrites the new
  leader's pick, after which every decline fails.

**Trades**

- If the last two teams accept at once, each transaction misses the accept of
  the other and the trade, accepted by all, is never processed.
- Two trades that move one pick can both complete: each validates the owner it
  reads, the UPDATE by id of the second waits for the first and then overwrites
  it. The second giver gives a pick it no longer has, and the team updates of
  the two contradict each other.
- Two trades of different contracts of a team that complete at once: each lists
  "ALL contracts owned by the team" (`team_update.rs:105`) without what the
  other moved.
- A drop that lets the contract expire and commits between validation and
  processing of a trade is undone by it: the trade adds an Active row after the
  Expired one. The other way round the Expired row comes last, and the player's
  Active row, no longer the latest, can never be traded again. An IR move does
  the same to a drop.
- A trade proposed while another one over the same asset is being processed is
  not seen by its invalidation and stays open; accepting it fails.
- `proposeTrade` refuses a group for the proposing team ("a team cannot trade
  with itself", `trade_resolvers.rs:104-109`), and a group lists what its team
  receives (`trade_types.rs:128-129`): the proposing team can give but never
  receive, so that no swap of two teams can be proposed through the API.
- A trade with a draft pick option cannot be processed: the option's
  `before_save` wants its id to be `ActiveValue::Set`
  (`draft_pick_option.rs:129`), but the model that
  `update_trade_asset_draft_pick_option` saves comes from a loaded row, whose
  id is `Unchanged`. The error rolls the last accept back, so options never
  become Active. That is why the model has none.

**Season**

- A roster move works on the row its request read, whatever has become of it:
  an IR move that commits after a drop brings the contract back as Active next
  to the free agent's row if the drop let it expire; one that commits after
  PreseasonStart leaves two Active rows of two seasons, which the unique index
  does not forbid; and the index never sees players without a `player_id`.
- IR and rookie moves leave a Pending update under the latest deadline that
  has passed, although they take effect "At next weekly lock deadline"
  (`notes/2023-04-19-transaction_deadlines.md:108`); a lock settles the updates
  of its own deadline, so one recorded under another kind of deadline stays
  Pending.
- Keepers are limited to 14 players and $100 (`2025-08-31-rules_document.md:348`),
  which is checked when they are declared: a team that never declares, activates
  a rookie or trades for players afterwards keeps more, and so does one that
  declares between the time of PreseasonStart and its handler: 61 and 30 are
  within the limit, the advancement makes them 74 and 36, and the deadline
  checks nothing (`KeepersEarly.cfg`), though "the sum of contract values
  retained by a team for the Keeper Deadline must be at or below this value"
  (`config_settings.rs:7`).
- A declared drop whose row has since been traded, dropped or moved makes the
  keeper deadline fail, and with it the rest of the season, for good; so does
  a league in which nobody declared. Two first declarations at once create two
  transactions, of which the handler settles one. A declaration saved after
  the deadline still rewrites its team update.
- An RFA or UFA nobody signed cannot be advanced and stops the next season's
  first deadline.

**Rookie draft**

- Rounds 2 to 5 are the "reverse of round 1's playoff block"
  (`draft_order.rs:88`) only where no two playoff teams are level in finish and
  rank, which nothing in what the commissioner enters prevents: the id then puts
  the same one first in every round (`FinishesApart`).
- If the server dies between seed and draw, `runRookieDraftLottery` refuses from
  then on, but the start of the draft draws from the seed. Standings edited
  between the two change the draw, and standings corrected after it so that a
  drawn team made the playoffs make the start fail for good.
- "Once the lottery has run the draft order is already persisted, so later
  edits do not move picks" (`league_team_season_standing_queries.rs:46`): but
  the lottery persists the drawn teams only, and all later slots are ordered by
  the standings of the draft's start.
- The ban on drafting a dropped player again (rules 7.3.4) is found through the
  deadline the drop was recorded under, and so knows only drops between the
  deadlines of the draft and of the final roster lock.

## 6. Plan

The proofs of the plan are done. Left are

1. **Draft pick options**, should they ever become active.
2. **The hypotheses**: `OneBidEach`, `TicksInTurn` and `FinishesApart` name what
   the code leaves to chance. A lock on the team, an index on the player's
   auction and one on the standings would make each of them a fact.

## 7. Not modelled, and why

- Queries, dataloaders, role guards, login and sessions: no protocol over
  league state. Team ownership is a lookup at the start of a request.
- The generation of future picks: an idempotent insert for each team and round.
- Draft pick options: they cannot become active (section 5).
- The team updates of signings and picks, and salaries in all of them: they are
  written and never read by an operation.
- The nomination of an in-season auction, which nothing calls, and the dates of
  the All-Star break.
- The web applications (clients); schema, constants, tooling and infrastructure
  (values and guards that appear in the modules that use them); wording,
  logging, notification.

## 8. Running it

    tlc -workers 2 -config JobRuns.cfg JobRuns.tla
    tlc -workers 2 -config Scheduler.cfg MCScheduler.tla
    tlc -workers 2 -config Veteran.cfg MCVeteranAuction.tla
    tlc -workers 2 -config Rfa.cfg MCRfaHandshake.tla
    tlc -workers 2 -config AuctionHouse.cfg MCAuctionHouse.tla
    tlc -workers 2 -config Trades.cfg MCTrades.tla
    tlc -workers 2 -config Season.cfg MCSeason.tla
    tlc -workers 2 -config RookieDraft.cfg MCRookieDraft.tla
    tlc -workers 2 -config VeteranRacingBids.cfg MCVeteranAuction.tla   (violated)
    tlc -workers 2 -config VeteranSweeps.cfg MCVeteranAuction.tla       (violated)
    tlc -workers 2 -config RfasPooled.cfg MCAuctionHouse.tla            (violated)
    tlc -workers 2 -config TradeReopened.cfg MCTrades.tla               (violated)
    tlc -workers 2 -config KeepersEarly.cfg MCSeason.tla                (violated)
    tlc -workers 2 -config DraftTradedPick.cfg MCRookieDraft.tla        (violated)
    tlapm SchedulerProofs.tla
    tlapm VeteranAuctionProofs.tla
    tlapm AuctionHouseProofs.tla
    tlapm RfaHandshakeProofs.tla
    tlapm TradesProofs.tla
    tlapm SumProofs.tla
    tlapm SeasonProofs.tla
    tlapm RookieDraftProofs.tla

Definitions named `Mut...` are variants of the definition after them with a
plausible bug; they are used nowhere in the specifications. For each property
one of them, put in place of its original, makes TLC find the property
violated.
