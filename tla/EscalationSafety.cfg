\* Two fair workers and two racing requests on one incident, with two faults.
SPECIFICATION FairSpec
CONSTANTS
  Incidents = {i1}
  Workers = {w1, w2}
  Requests = {r1, r2}
  NoRow = NoRow
  Batch = 1
  Lease = 1
  Grace = 1
  Anomaly = "ppe_no_hardhat"
  TierRows <- AllTiers
  MaxFaults = 2
INVARIANTS
  TypeOK
  TiersAreAccountedFor
  AuditTellsTheClimb
  LockedRowsCanFire
PROPERTIES
  EveryIncidentSettles
  ImplementsLadder
