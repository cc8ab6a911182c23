\* Commands that rebind a bound name in an inner construct.
SPECIFICATION Spec
CONSTANTS
  A = A
  B = B
  E = E
  devnull = devnull
  scratch = scratch
  number = number
  Unset = Unset
  Names = {A, B, E}
  Bindable = {A, B, E}
  EnvNames = {E}
  Values = {devnull, scratch, number}
  Splittable = {scratch}
  DevNull = devnull
  FdWords = {number}
  ScratchData = {scratch}
  HostWritable = {scratch}
  Environments <- MCEnvironments
  MaxDepth = 2
  MaxStmts = 5
INVARIANT ExpansionsAlwaysExact
SYMMETRY MCSymmetry
CHECK_DEADLOCK FALSE
