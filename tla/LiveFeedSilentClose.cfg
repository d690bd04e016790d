\* Nothing goes wrong at all: Redis is up, the screen is connected, somebody
\* acknowledges or resolves.
SPECIFICATION FairSpec
CONSTANTS
  Incidents = {i1}
  Browsers = {b1}
  Batch = 1
  MaxChanges = 2
  MaxUpsets = 0
PROPERTIES
  ClosedIncidentsAreShown
CHECK_DEADLOCK FALSE
