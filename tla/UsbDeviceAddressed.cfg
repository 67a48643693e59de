\* The host resets the bus, perhaps while it assigns the address.
CONSTANTS
  Garbage = garbage
  NoColor = nocolor
  PowerUp = grey
  Colors = {grey, red}
  Address = 1
  Configurations = 1
  DefaultIdle = 500
  Requests <- MCRequests
  Disturbances = {"reset"}
SPECIFICATION Spec
INVARIANTS
  AddressedIsAddressed
