SPECIFICATION Spec
CONSTANTS
  Bidders = {b1, b2}
  OriginalOwner = owner
  Ticks = {t1}
  Settings <- SingleTick
  Tiers = {1, 2}
  OpeningBid = 2
  QuietWindow = 2
  CrunchQuiet = 1
  CrunchStart = 3
  HardDeadline = 5
  AllBidDeadline = 2
  FirstTrigger = 2
  LaterTrigger = 1
  Extension = 1
  RequestLimit = 0
  MaxAmount = 3
  MaxRequests = 2
INVARIANT HighestBidLeads
CHECK_DEADLOCK FALSE
