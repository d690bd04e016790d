\* Two pages of up to two incidents to up to two phones, settled by up to two
\* relays, two replies at once.
SPECIFICATION Spec
CONSTANTS
  Rows = {o1, o2}
  NoRow = NoRow
  Incidents = {i1, i2}
  Phones = {p1, p2}
  Handlers = {h1, h2}
  MaxSettles = 2
  MaxReplies = 3
  MaxDeaths = 1
SYMMETRY Symmetry
INVARIANTS
  TypeOK
  PhonesTakeTurns
  ClosedByThePaged
