SPECIFICATION ChannelSpec
CONSTANTS
  Provisionings = {c1, c2}
  OpenChannelRetries = 2
  AcceptChannelRetries = 2
  MaxChannels = 3
  MaxClosed = 1
CHECK_DEADLOCK FALSE
INVARIANTS
  FundedIsNew

  
