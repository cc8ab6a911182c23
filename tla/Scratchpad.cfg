\* Two calls that may write the same file, and everybody else.
SPECIFICATION Spec
CONSTANTS
  Calls = {c1, c2}
  Names <- MCNames
  DataNames <- MCDataNames
  Inodes = {i1, i2}
  Elsewhere = Elsewhere
SYMMETRY MCSymmetry
INVARIANTS TypeOK WritesStayInPad ConfirmedStaysTrue
CHECK_DEADLOCK FALSE
