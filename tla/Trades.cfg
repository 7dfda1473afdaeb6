SPECIFICATION Spec
CONSTANTS
  Requests = {r1, r2}
  Teams = {"A", "B", "C"}
  Players = {"x"}
  Picks = {"p", "q"}
  Trades = {"give", "lend", "back", "circle"}
  By <- MCBy
  With <- MCWith
  To <- MCTo
  FirstHolder <- MCFirstHolder
  MaxRows = 2
  Settings <- AllSettings
INVARIANTS TypeOK OffersStand HistoryTells
PROPERTIES AtomicSwap FollowsDeals
SYMMETRY Same
CHECK_DEADLOCK FALSE
