\* `millis` of two bytes, copied while the timer interrupt may advance it.
CONSTANTS
  NumLeds = 1
  NumLit = 1
  Black = black
  Grey = grey
  Colors = {black, grey}
  IndexRange = 4
  MillisRange = 4
  ByteRange = 2
  ByteWeight <- MCByteWeight
  MsMicros = 3
  TickMs = 1
  TickMicros = 1
  Period = 5
  MaxLate = 1
SPECIFICATION Spec
INVARIANT NowWasMillis
