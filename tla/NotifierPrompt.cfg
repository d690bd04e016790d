\* Fair relays that are done before their lease runs out, batches of two rows.
SPECIFICATION FairSpec
CONSTANTS
  Rows = {o1, o2}
  Relays = {w1, w2}
  NoRow = NoRow
  Batch = 2
  Lease = 2
  MaxAttempts = 2
  Providers = 2
  BackoffBase = 1
  BackoffCap = 1
  MaxFaults = 2
  MaxClaims = 9
INVARIANTS
  DuplicatesNeedAFault
  AttemptsPaidFor
PROPERTIES
  OnlyHolderSettles
  NothingAfterSettled
  EveryRowSettles
