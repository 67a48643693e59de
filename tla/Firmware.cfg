\* Every way a handler can wait, on a quiet bus, with a host that goes on.
CONSTANTS
  Garbage = garbage
  NoColor = nocolor
  PowerUp = grey
  Colors = {grey, red}
  Address = 1
  Configurations = 1
  DefaultIdle = 500
  Requests <- MCWaits
  Disturbances = {}
SPECIFICATION FirmwareSpec
INVARIANTS
  GarbageShownOnlyIfBroken
PROPERTIES
  ServesPipeFairly
  FramesGoOn
  ShowsReport
