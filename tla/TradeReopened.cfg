SPECIFICATION Spec
CONSTANTS
  Requests = {r1}
  Teams = {"A", "B", "C"}
  Players = {"x"}
  Picks = {"p", "q"}
  Trades = {"give", "lend", "back", "circle"}
  By <- MCBy
  With <- MCWith
  To <- MCTo
  FirstHolder <- MCFirstHolder
  MaxRows = 2
  Settings <- AnyTrade
PROPERTY SettledStays
CHECK_DEADLOCK FALSE
