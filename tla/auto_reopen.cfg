SPECIFICATION Spec
CONSTANTS
  Signals = {s1}
  Legs = {1}
  Tickets = {1, 2, 3}
  MaxLevel = 1
  MaxRecords = 2
  Backlog = 1
  TrailingOpen = TRUE
  ReplaceMissing = TRUE
  ReopenMissing = TRUE
  Hazards = {"query", "lag"}
  MaxFaults = 1
PROPERTIES ExpiredOrdersPulled
