SPECIFICATION Spec
CONSTANTS
  Requests = {r1, r2}
  Teams = {"A", "B"}
  NbaPlayers = {"vet", "rook", "free", "star"}
  Overseas = {"young"}
  Unset = Unset
  KeeperCountLimit = 2
  IrLimit = 1
  RdLimit = 6
  RdiLimit = 1
  CountedLimit = 2
  PreseasonLimit = 3
  Calendar <- MCCalendar
  Settings <- SeasonSettings
INVARIANTS TypeOK OneLiveRow DropsArePaid
PROPERTIES OnlyDropsGo KeptWithinLimits HoldersDesignated
SYMMETRY Same
CHECK_DEADLOCK FALSE
