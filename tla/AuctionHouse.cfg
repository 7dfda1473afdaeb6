SPECIFICATION Spec
CONSTANTS
  Unset = Unset
  Ticks = {"t1", "t2"}
  Players = {"star", "ufa", "vet", "guard", "new"}
  Season = 2
  TierLists <- MCTierLists
  Rankings <- MCRankings
  PerDay = 2
  RfaWeek = 2
  LastDay = 4
  Settings <- HouseSettings
  KeeperCountLimit = 14
  IrLimit = 1
  RdLimit = 6
  RdiLimit = 1
  CountedLimit = 22
  PreseasonLimit = 3
  Requests = {r1, r2}
  Teams = {"A", "B", "C"}
  Picks = {"a3", "a4", "b4"}
  PickRound <- MCRound
  FirstHolder <- MCHolder
  Cap = 200
  Amounts = {9, 14, 15, 19}
INVARIANTS TypeOK ScheduleFair PutUpOnce Affordable DebtsPayable
PROPERTIES SlotsOpen
CHECK_DEADLOCK FALSE
