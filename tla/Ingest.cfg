\* Three events of one key and one that does not validate, two consumers, one fault.
\* When everything published is consumed and closed there is nothing left to do.
SPECIFICATION FairSpec
CONSTANTS
  Events = {e1, e2, e3, bad}
  Malformed = {bad}
  Keys = {k1}
  Key <- OneKey
  Consumers = {c1, c2}
  Nobody = Nobody
  NoEvent = NoEvent
  MaxFaults = 1
INVARIANTS
  TypeOK
  OneOpenPerKey
  OncePerEvent
  NothingIsLost
PROPERTIES
  EveryEventIsConsumed
CHECK_DEADLOCK FALSE
