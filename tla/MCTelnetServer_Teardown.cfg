CONSTANTS
  Text <- MCText
  Empty = ""
  Substr <- MCSubstr
  Slashed <- MCSlashed
  Conns = {c1, c2}
  NoConn = NoConn
  Fds <- MCFds
  Bookings <- MCBookings
  Commands = {"search"}
  Leavers = {}
  Stops = TRUE
  MaxObjects = 0
SPECIFICATION Spec
INVARIANTS
  CleanShutdown
CHECK_DEADLOCK FALSE
