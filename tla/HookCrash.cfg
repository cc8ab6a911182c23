\* An engine that panics.
SPECIFICATION Spec
CONSTANTS
  Registrations <- MCRegistrations
  PipeFaults = FALSE
  EngineCrashes = TRUE
INVARIANT BlocksOnlyOnRequest
CHECK_DEADLOCK FALSE
