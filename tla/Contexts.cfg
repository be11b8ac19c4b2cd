SPECIFICATION Spec
CONSTANTS
  Ids = {c1, c2, c3}
  NoId = NoId
  Capacity = 2
  Replays = {r1, r2}
  ReplayLength = 2
  Selectors = {s}
  Subscribers = {sub}
  BufferSize = 1
  MaxGeneration = 1
  MaxFrames = 1
  NoOne = NoOne
SYMMETRY SameIds
INVARIANTS
  RegistryCoherent
  NoContextMissed
  ExceedsOnlyByRace
  EndedGenerationsGone
  AtMostOneLate
PROPERTIES
  NothingAfterClose
CHECK_DEADLOCK FALSE
