SPECIFICATION FairLifecycle
CONSTANTS
  Artifacts = {a1}
  Fixtures = {f1}
  None = None
  Uploaders = {u1, u2}
  Workers = {w1, w2}
  MaxFaults = 1
INVARIANTS LifecycleTypeOK AvailableHasObject UploadedIsNeverAbandoned FixtureContentIsWhole
PROPERTIES TombstonedIsPurged InterruptedUploadSettles
