SPECIFICATION OutboundSpec
CONSTANTS
  debug = debug
  cdp = cdp
  CloseOrder <- OneClient
  Controller = cdp
  Calls = {call}
  Batches <- SmallBatches
  MessageLimit = 2
  ByteLimit = 2
  QueueSize = 1
  MaxSends = 1
  NoOne = NoOne
PROPERTY
  AppCloseReturns
CHECK_DEADLOCK FALSE
