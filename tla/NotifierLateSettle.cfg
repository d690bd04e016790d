\* A relay whose lease has expired settles the claim of the one that took over.
SPECIFICATION Spec
CONSTANTS
  Rows = {o1}
  Relays = {w1, w2}
  NoRow = NoRow
  Batch = 1
  Lease = 1
  MaxAttempts = 2
  Providers = 1
  BackoffBase = 1
  BackoffCap = 1
  MaxFaults = 0
  MaxClaims = 4
PROPERTIES
  OnlyHolderSettles
