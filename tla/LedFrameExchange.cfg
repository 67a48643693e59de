\* One LED, three colours, one unit of lateness: small enough for liveness.
CONSTANTS
  NumLeds = 1
  NumLit = 1
  Black = black
  Grey = grey
  Colors = {black, grey, red}
  IndexRange = 4
  MillisRange = 4
  ByteRange = 2
  ByteWeight <- MCByteWeight
  MsMicros = 3
  TickMs = 1
  TickMicros = 0
  Period = 5
  MaxLate = 1
SPECIFICATION FairSpec
PROPERTIES
  ExchangesFrames
  StripSettles
