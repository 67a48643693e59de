\* The host suspends the bus.
CONSTANTS
  Garbage = garbage
  NoColor = nocolor
  PowerUp = grey
  Colors = {grey, red}
  Address = 1
  Configurations = 1
  DefaultIdle = 500
  Requests <- MCRequests
  Disturbances = {"suspend"}
SPECIFICATION Spec
INVARIANTS
  ConfiguredIsConfigured
