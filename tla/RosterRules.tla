---------------------------- MODULE RosterRules -----------------------------
(***************************************************************************)
(* What a team may have on its roster: the salary cap of each deadline,    *)
(* the penalties of dropped contracts, the keeper rules and the limits of  *)
(* a roster lock.  Pure operators on rows of the contract table.           *)
(***************************************************************************)
EXTENDS Contracts

CONSTANTS
  KeeperCountLimit,   \* 14 in the code: counted contracts a team may keep
  IrLimit,            \* 1: contracts on injured reserve
  RdLimit,            \* 6: rookie development contracts in season
  RdiLimit,           \* 1: of them abroad
  CountedLimit,       \* 22: veteran and rookie contracts in season
  PreseasonLimit      \* 32: contracts before the season

ASSUME LimitConstants ==
  {KeeperCountLimit, IrLimit, RdLimit, RdiLimit, CountedLimit, PreseasonLimit} \subseteq Nat

KeeperSalaryLimit == 100
PreseasonKinds ==
  {"PreseasonVeteranAuctionStart", "PreseasonFaAuctionStart", "PreseasonFaAuctionEnd",
   "PreseasonRookieDraftStart"}
RegularKinds ==
  {"PreseasonFinalRosterLock", "Week1FreeAgentAuctionStart", "Week1FreeAgentAuctionEnd",
   "Week1RosterLock"}
PostseasonKinds == {"FreeAgentAuctionEnd", "TradeDeadlineAndPlayoffStart", "SeasonEnd"}
KeeperKinds == {"PreseasonStart", "PreseasonKeeper"}
DeadlineKinds ==
  PreseasonKinds \cup RegularKinds \cup PostseasonKinds \cup KeeperKinds \cup {"InSeasonRosterLock"}
RosterLockKinds == {"PreseasonFinalRosterLock", "Week1RosterLock", "InSeasonRosterLock"}

\* The calendar is the sequence of a league's deadlines, by date: their kind and season.
\* get_salary_cap: a lock in season falls under the higher cap after free agent auctions end.
AuctionsOver(calendar, d) ==
  \E e \in 1..d - 1 :
    calendar[e].kind = "FreeAgentAuctionEnd" /\ calendar[e].season = calendar[d].season
CapAt(calendar, d) ==
  LET kind == calendar[d].kind IN
  CASE kind = "PreseasonStart" -> NoCap
    [] kind = "PreseasonKeeper" -> KeeperSalaryLimit
    [] kind \in PreseasonKinds -> 200
    [] kind \in RegularKinds -> 210
    [] kind \in PostseasonKinds -> 230
    [] kind = "InSeasonRosterLock" -> IF AuctionsOver(calendar, d) THEN 230 ELSE 210

SalaryOf(rows) == SumFunction([c \in rows |-> c.salary])
Rostered(table, team) == {table[i] : i \in {i \in DOMAIN table : Live(table[i]) /\ table[i].team = team}}
Counted(rows) == {c \in rows : c.kind \in CountedKinds /\ ~c.ir}

\* find_contracts_dropped_by_team_in_regular_season: the rows that drops of the team are recorded
\* under, once for every such transaction.
DropsOf(table, txns, calendar, team, season) ==
  {t \in DOMAIN txns :
     /\ txns[t].kind = "drop"
     /\ table[txns[t].contract].team = team /\ table[txns[t].contract].season = season
     /\ calendar[txns[t].deadline].kind \notin KeeperKinds}
PenaltyOf(c) == IF c.kind \in CountedKinds THEN Percent(c.salary, 20) ELSE 0
Penalty(table, txns, calendar, team, season) ==
  SumFunction([t \in DropsOf(table, txns, calendar, team, season) |-> PenaltyOf(table[txns[t].contract])])

\* calculate_team_contract_salary: what the team spends, and what it may spend, at a deadline.
Spending(rows, table, txns, calendar, team, d) ==
  [salary |-> SalaryOf(Counted(rows)),
   cap |-> CapAt(calendar, d)
             - IF calendar[d].kind = "PreseasonKeeper" THEN 0
               ELSE Penalty(table, txns, calendar, team, calendar[d].season)]

\* validate_team_keepers
KeepersAllowed(rows) ==
  LET paid == {c \in rows : c.kind \notin DevelopmentKinds} IN
  /\ \A c \in rows : c.kind \in CountedKinds \cup DevelopmentKinds
  /\ Cardinality(paid) <= KeeperCountLimit
  /\ SalaryOf(paid) <= KeeperSalaryLimit

\* validate_league_rosters, for one team: what a lock of the given deadline lets pass.
FitsSlots(rows, kind) ==
  LET count(kinds) == Cardinality({c \in rows : c.kind \in kinds /\ ~c.ir}) IN
  CASE kind \in KeeperKinds -> FALSE
    [] kind \in PreseasonKinds -> count(DevelopmentKinds \cup CountedKinds) <= PreseasonLimit
    [] OTHER -> /\ count({"RD"}) <= RdLimit /\ count({"RDI"}) <= RdiLimit
                /\ count(CountedKinds) <= CountedLimit
RosterAllowed(rows, table, txns, calendar, team, d) ==
  LET spending == Spending(rows, table, txns, calendar, team, d) IN
  /\ Cardinality({c \in rows : c.ir}) <= IrLimit
  /\ FitsSlots(rows, calendar[d].kind)
  /\ spending.salary <= spending.cap
=============================================================================
