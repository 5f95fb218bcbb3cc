SPECIFICATION Spec
CONSTANTS
  Signals = {s1}
  Legs = {l1, l2}
  Tickets = {1, 2, 3, 4}
  MaxLevel = 2
  MaxRecords = 2
  Backlog = 1
  TrailingOpen = FALSE
  ReplaceMissing = TRUE
  ReopenMissing = FALSE
  Hazards = {"reject", "crash", "hand"}
  MaxFaults = 1
SYMMETRY LegSymmetry
INVARIANTS OneFootprintPerLeg LiveMeansTracked NoRecordSkipped FollowsCorrectedFeed AmendmentNotRefused
