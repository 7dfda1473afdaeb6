SPECIFICATION FairSpec
CONSTANTS
  Bidders = {b1, b2}
  OriginalOwner = owner
  Ticks = {t1, t2}
  Settings <- AllSettings
  Tiers = {1, 2}
  OpeningBid = 2
  QuietWindow = 2
  CrunchQuiet = 1
  CrunchStart = 3
  HardDeadline = 4
  AllBidDeadline = 2
  FirstTrigger = 2
  LaterTrigger = 1
  Extension = 1
  RequestLimit = 0
  MaxAmount = 3
  MaxRequests = 2
INVARIANTS TypeOK FullReprieve LadderRunsOut
PROPERTIES ImplementsAuction AuctionSettles
CHECK_DEADLOCK FALSE
