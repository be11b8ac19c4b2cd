SPECIFICATION OutboundSpec
CONSTANTS
  debug = debug
  cdp = cdp
  CloseOrder <- OneClient
  Controller = cdp
  Calls = {call}
  Batches <- SmallBatches
  MessageLimit = 2
  ByteLimit = 3
  QueueSize = 2
  MaxSends = 3
  NoOne = NoOne
INVARIANTS
  WholeBatches
PROPERTIES
  QuietAfterClose
  CloseReturnsUnlessCrossed
CHECK_DEADLOCK FALSE
