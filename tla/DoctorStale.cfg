\* Runs that overlap and may go on into the next second.
SPECIFICATION Spec
CONSTANTS
  Hooks = {h1, h2}
  Bodies <- MCBodies
  MaxTime = 2
  Window = 1
SYMMETRY MCSymmetry
INVARIANTS StaleIffLegacyIsNewest
CHECK_DEADLOCK FALSE
