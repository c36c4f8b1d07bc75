CONSTANTS
  Text <- MCText
  Empty = ""
  Substr <- MCSubstr
  Slashed <- MCSlashed
  Clients = {c1, c2}
  Requests <- MCAdds
  InitialFile <- MCFile
  Cut <- MCCut
  NoClient = NoClient
  MaxCuts = 0
  Crashes = FALSE
  Fails = FALSE
  Stops = TRUE
  Dates <- MCDates
  Times <- MCTimes
  Garbage = {0, 9999}
  MaxRows = 3
  Nul = "~"
  Boundary = "B"
  FieldValues <- MCFieldValues
SPECIFICATION Spec
INVARIANTS
  CleanStop
CHECK_DEADLOCK FALSE
