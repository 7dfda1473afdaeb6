SPECIFICATION Spec
CONSTANTS
  Requests = {r1, r2}
  Teams = {1, 2, 3, 4}
  Players = {"home", "flag", "vet"}
  Never = Never
  Rounds = 2
  Seeds = {1, 2}
  RosterLimit = 2
  DraftSeason = 2
  Seasons = {1, 2}
  MaxEvents = 2
  Draw <- MCDraw
  OtherContracts <- MCOthers
  FirstStandings <- MCStandings
  FirstHolder <- MCHolder
  FirstFacts <- MCFacts
  Edits <- MCEdits
  NewFacts <- MCNewFacts
  Settings <- DraftSettings
INVARIANTS TypeOK SlateComplete DraftedOnce
PROPERTIES LotteryFixed InTurn
SYMMETRY Same
CHECK_DEADLOCK FALSE
