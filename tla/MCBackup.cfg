CONSTANTS
  Files = {a, t}
  TestFile = t
  MaxClock = 2
  MaxWrites = 2
  MaxStarts = 2
SPECIFICATION Spec
INVARIANTS
  RecordedIsStored
  RecordedIsWhole
PROPERTIES
  KeptVersionIsStored
CHECK_DEADLOCK FALSE
