\* The sample and any other program, one after the other, on two devices.
CONSTANTS
  Sets = {s1, s2}
  Devs = {d1, d2}
  Lists = {l1}
  Files = {f1, f2}
  Paths = {strip, mouse}
  Strip = {strip}
  Kinds <- MCKinds
  Null = null
  Invalid = invalid
  NoPath = nopath
  Closed = closed
  Unplugged = unplugged
SYMMETRY MCSymmetry
SPECIFICATION SampleSpec
INVARIANTS
  ListsOwned
  FilesOwned
  NothingLost
  StripTold
  CleanAtPrompt
  IInv
  MainInv
