SPECIFICATION FairSpec
CONSTANTS
  Requests = {r1, r2}
  Bidders = {"A", "B"}
  OriginalOwner = "O"
  MaxAmount = 3
  Picks = {"p1", "p2", "q1"}
  PickRound <- MCPickRound
  PickOwner <- MCPickOwner
  RoundFor <- MCRoundFor
  Settings <- AllSettings
INVARIANTS TypeOK PickPaysForPlayer
PROPERTIES FollowsRules EndsUndisturbed
CHECK_DEADLOCK FALSE
