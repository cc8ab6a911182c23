\* The walk over every command of three statements nested three deep.
SPECIFICATION Spec
CONSTANTS
  A = A
  B = B
  E = E
  devnull = devnull
  scratch = scratch
  number = number
  Unset = Unset
  Names = {A, B, E}
  Bindable = {A, B, E}
  EnvNames = {E}
  Values = {devnull, scratch, number}
  Splittable = {scratch}
  DevNull = devnull
  FdWords = {number}
  ScratchData = {scratch}
  HostWritable = {scratch}
  Environments <- MCEnvironments
  MaxDepth = 3
  MaxStmts = 3
INVARIANTS TypeOK ScopeExact ArgvExact WritesConfined
PROPERTY ExportsUntouched
SYMMETRY MCSymmetry
CHECK_DEADLOCK FALSE
