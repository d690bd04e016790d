\* Two incidents or three transactions, polls of one row, and one thing that goes
\* wrong; tasks are fair.
SPECIFICATION SmallSpec
CONSTANTS
  Incidents = {i1, i2}
  Browsers = {b1}
  Batch = 1
  MaxChanges = 3
  MaxUpsets = 1
INVARIANTS
  TypeOK
  EveryEnvelopeApplies
  BroadcastsNeverGoBack
  MissingIsExplained
PROPERTIES
  HeardChangesArrive
  FeedComesBack
CHECK_DEADLOCK FALSE
