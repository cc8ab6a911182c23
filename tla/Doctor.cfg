\* Runs that overlap and may go on into the next second.
SPECIFICATION Spec
CONSTANTS
  Hooks = {h1, h2}
  Bodies <- MCBodies
  MaxTime = 2
  Window = 1
SYMMETRY MCSymmetry
INVARIANTS TypeOK OneSinkEach DamageIsLocal BlocksAreFound
  StaleIsFound UpdateIsNoticed
PROPERTY UpdateStaysNoticed
CHECK_DEADLOCK FALSE
