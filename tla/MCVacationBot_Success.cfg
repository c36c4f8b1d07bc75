CONSTANTS
  Mails = {m1}
  Prac7 = {m1}
  MaxClock = 1
  MaxStarts = 1
  MaxFailures = 1
SPECIFICATION Spec
INVARIANTS
  SuccessMeansSent
CHECK_DEADLOCK FALSE
