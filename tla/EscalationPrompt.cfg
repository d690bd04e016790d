\* Workers that are done with a row before its lease runs out; tier 2 has no
\* escalation_tiers row.
SPECIFICATION PromptSpec
CONSTANTS
  Incidents = {i1, i2}
  Workers = {w1, w2}
  Requests = {r1}
  NoRow = NoRow
  Batch = 2
  Lease = 2
  Grace = 1
  Anomaly = "ppe_no_hardhat"
  TierRows <- NoTier2
  MaxFaults = 1
SYMMETRY Symmetry
INVARIANTS
  ClaimsAreExclusive
  EndedIsQuiet
  StrandedOnlyWithoutConfig
PROPERTIES
  FiresOnlyWhenDue
