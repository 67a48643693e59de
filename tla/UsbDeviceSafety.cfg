\* The host program and its operating system, on a bus that may do anything.
CONSTANTS
  Garbage = garbage
  NoColor = nocolor
  PowerUp = grey
  Colors = {grey, red}
  Address = 1
  Configurations = 1
  DefaultIdle = 500
  Requests <- MCRequests
  Disturbances = {"unplug", "reset", "suspend", "abort"}
SPECIFICATION Spec
INVARIANTS
  StalledOnlyIfRaced
  AnswersMatch
  GarbageOnlyIfBroken
  ReportTaken
  WakeupArmed
  ControlSelected
  IInv
  ConfigurationKept
PROPERTIES
  AddressAfterStatus
  ServesPipe
