SPECIFICATION LifecycleSpec
CONSTANTS
  Artifacts = {a1}
  Fixtures = {f1}
  None = None
  Uploaders = {u1}
  Workers = {w1}
  MaxFaults = 0
INVARIANT PurgedHasNoObject
CHECK_DEADLOCK FALSE
