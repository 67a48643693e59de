\* The host resets the bus.
CONSTANTS
  Garbage = garbage
  NoColor = nocolor
  PowerUp = grey
  Colors = {grey, red}
  Address = 1
  Configurations = 1
  DefaultIdle = 500
  Requests <- MCRequests
  Disturbances = {"reset"}
SPECIFICATION Spec
INVARIANTS
  ControlConfigured
