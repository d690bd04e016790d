\* No fault at all: two requests, and the worker.
SPECIFICATION Spec
CONSTANTS
  Incidents = {i1}
  Workers = {w1}
  Requests = {r1, r2}
  NoRow = NoRow
  Batch = 1
  Lease = 1
  Grace = 1
  Anomaly = "ppe_no_hardhat"
  TierRows <- AllTiers
  MaxFaults = 0
PROPERTIES
  ActionsRespectStatus
