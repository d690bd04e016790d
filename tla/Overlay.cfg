\* Two connections of one hub of either kind, a track that opens, clears and opens again.
SPECIFICATION FairSpec
CONSTANTS
  Sockets = {s1, s2}
  MaxHubFaults = 1
  Window = 3
  MofN = 2
  ClearConsecutive = 2
  MaxQueue = 1
  MaxFrames <- FramesOfTrack
  MaxMessages = 2
  MaxFaults = 1
INVARIANTS
  TypeOK
  AddedIsServed
  NothingLeftBehind
  DebounceIsExact
  TicksAreStored
PROPERTIES
  OverlayGoesForward
  FramesArrive
