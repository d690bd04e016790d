\* Relays that may stall past their lease: late settles, reclaims, two provider hops.
SPECIFICATION Spec
CONSTANTS
  Rows = {o1, o2}
  Relays = {w1, w2}
  NoRow = NoRow
  Batch = 2
  Lease = 1
  MaxAttempts = 3
  Providers = 2
  BackoffBase = 1
  BackoffCap = 1
  MaxFaults = 1
  MaxClaims = 3
SYMMETRY Symmetry
INVARIANTS
  TypeOK
  OneRecordPerRow
PROPERTIES
  ImplementsDelivery
