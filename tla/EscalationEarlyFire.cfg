\* No fault at all: two workers, one of them slower than its lease.
SPECIFICATION Spec
CONSTANTS
  Incidents = {i1}
  Workers = {w1, w2}
  Requests = {}
  NoRow = NoRow
  Batch = 1
  Lease = 1
  Grace = 1
  Anomaly = "ppe_no_hardhat"
  TierRows <- AllTiers
  MaxFaults = 0
PROPERTIES
  FiresOnlyWhenDue
