\* Two handlers at a time, a command of every class.
SPECIFICATION Spec
CONSTANTS
  ls = ls
  rm = rm
  odd = odd
  bad = bad
  none = none
  c1 = c1
  c2 = c2
  Commands = {ls, rm, odd, bad, none}
  Empty = none
  Class <- MCClass
  Calls = {c1, c2}
INVARIANTS TypeOK GateHolds ReasonHolds
PROPERTY KeepsPromise
CHECK_DEADLOCK FALSE
