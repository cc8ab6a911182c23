\* Two calls, a cache of one entry, two installs.
SPECIFICATION Spec
CONSTANTS
  ls = ls
  rm = rm
  odd = odd
  none = none
  c1 = c1
  c2 = c2
  Commands = {ls, rm, none}
  Empty = none
  Class <- MCClass
  Calls = {c1, c2}
  NoCall = NoCall
  CACHE_LIMIT = 1
  MaxInstalls = 2
INVARIANTS TypeOK WarnedOnce PromptsExplained
PROPERTIES KeepsPromise ReachesBuiltin
CHECK_DEADLOCK FALSE
