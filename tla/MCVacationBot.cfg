CONSTANTS
  Mails = {m1, m2}
  Prac7 = {m1, m2}
  MaxClock = 2
  MaxStarts = 2
  MaxFailures = 2
SPECIFICATION Spec
INVARIANTS
  RepliesPerVacation
  
  NoMailLost
PROPERTIES
  DueIsHandled
  InterruptStops
CHECK_DEADLOCK FALSE
