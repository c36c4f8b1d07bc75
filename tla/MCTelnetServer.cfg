CONSTANTS
  Text <- MCText
  Empty = ""
  Substr <- MCSubstr
  Slashed <- MCSlashed
  Conns = {c1, c2}
  NoConn = NoConn
  Fds <- MCFds
  Bookings <- MCBookings
  Commands = {"search", "view"}
  Leavers = {c1, c2}
  Stops = TRUE
  MaxObjects = 0
SPECIFICATION Spec
INVARIANTS
  TypeOK
  RegistryIsExact
  NoWaitAfterStop
PROPERTIES
  StopEndsServer
  ExitCloses
CHECK_DEADLOCK FALSE
