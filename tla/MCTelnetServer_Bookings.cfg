CONSTANTS
  Text <- MCText
  Empty = ""
  Substr <- MCSubstr
  Slashed <- MCSlashed
  Conns = {c1, c2}
  NoConn = NoConn
  Fds <- MCFds
  Bookings <- MCBookings
  Commands = {"add", "search", "view", "delete"}
  Leavers = {}
  Stops = TRUE
  MaxObjects = 2
SPECIFICATION Spec
INVARIANTS
  SoundUnlessRaced
CHECK_DEADLOCK FALSE
