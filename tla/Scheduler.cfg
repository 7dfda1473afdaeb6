SPECIFICATION SchedFairSpec
CONSTANTS
  Workers = {w1, w2}
  Commissioners = {w2}
  Events = {1, 2}
  Calendars <- AllCalendars
  MaxAttempts = 2
  StaleTimeout = 1
  RunLimit = 0
  MaxCrashes = 1
INVARIANTS SchedTypeOK TicksInOrder
PROPERTIES LeaguesIndependent
