\* Every request, on a quiet bus.
CONSTANTS
  Garbage = garbage
  NoColor = nocolor
  PowerUp = grey
  Colors = {grey, red}
  Address = 1
  Configurations = 1
  DefaultIdle = 500
  Requests <- MCAllRequests
  Disturbances = {}
SPECIFICATION Spec
INVARIANTS
  TypeOK
  StalledOnlyIfRaced
  ReportTaken
  ControlSelected
  IInv
