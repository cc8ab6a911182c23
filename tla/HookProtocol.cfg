\* Every registration and event; the pipes may be broken, the engine may panic.
SPECIFICATION Spec
CONSTANTS
  Registrations <- MCRegistrations
  PipeFaults = TRUE
  EngineCrashes = TRUE
INVARIANTS TypeOK RecordedUnlessAllowed DriftRecorded LoudIsTraceable
           PolicyCarriedOut RecordsFitLog
PROPERTY KeepsPromise
CHECK_DEADLOCK FALSE
