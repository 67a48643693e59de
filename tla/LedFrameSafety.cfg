\* Two LEDs (six bytes a frame); a millisecond of three microseconds and a
\* timer period of 2 ms + 1 us, so that the clock carries and wraps; a frame
\* and one unit of lateness just fit the period.
CONSTANTS
  NumLeds = 2
  NumLit = 1
  Black = black
  Grey = grey
  Colors = {black, grey}
  IndexRange = 8
  MillisRange = 4
  ByteRange = 2
  ByteWeight <- MCByteWeight
  MsMicros = 3
  TickMs = 2
  TickMicros = 1
  Period = 8
  MaxLate = 1
SPECIFICATION Spec
INVARIANTS
  TypeOK
  IInv
  ExclusiveBuffer
  FrameDoneBeforeTick
  WholeFrame
  ClockTracksTimer
