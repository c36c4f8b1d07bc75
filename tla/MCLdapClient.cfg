CONSTANTS
  Planes = {p1, p2}
  Speeds = {s1}
  Empty = Empty
  NoEntry = NoEntry
  Byte = 8
  Code <- MCCode
  Lengths <- MCLengths
  Forms = {0, 4}
SPECIFICATION Spec
INVARIANTS
  SuccessIsTrue
  ReportsAreWhole
  RequestIsWellFormed
  ResponsesAreRead
PROPERTIES
  CommandEnds
CHECK_DEADLOCK FALSE
