CONSTANTS
  Text <- MCText
  Empty = ""
  Substr <- MCSubstr
  Slashed <- MCSlashed
  Clients = {c1, c2}
  Requests <- MCRequests
  InitialFile <- MCFile
  Cut <- MCCut
  NoClient = NoClient
  MaxCuts = 1
  Crashes = TRUE
  Fails = TRUE
  Stops = TRUE
  Dates <- MCDates
  Times <- MCTimes
  Garbage = {0, 9999}
  MaxRows = 3
  Nul = "~"
  Boundary = "B"
  FieldValues <- MCFieldValues
SPECIFICATION Spec
INVARIANTS
  TypeOK
  FileMatchesDays
  PageIsOrdered
  RequestIsRead
PROPERTIES
  ImplementsStore
  StopEnds
  Answered
CHECK_DEADLOCK FALSE
