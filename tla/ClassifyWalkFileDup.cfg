\* Commands with >&WORD.
SPECIFICATION Spec
CONSTANTS
  A = A
  B = B
  E = E
  devnull = devnull
  scratch = scratch
  number = number
  Unset = Unset
  Names = {A, B, E}
  Bindable = {A, B, E}
  EnvNames = {E}
  Values = {devnull, scratch, number}
  Splittable = {scratch}
  DevNull = devnull
  FdWords = {number}
  ScratchData = {scratch}
  HostWritable = {scratch}
  Environments <- MCEnvironments
  MaxDepth = 1
  MaxStmts = 3
INVARIANT DupsOpenNothing
SYMMETRY MCSymmetry
CHECK_DEADLOCK FALSE
