CONSTANTS
  Text <- MCText
  Empty = ""
  Substr <- MCSubstr
  Slashed <- MCSlashed
  Codes <- MCCodes
  NoCode = 777
  Lost = 999
  EventDates <- MCSlashed
  EventNames = {"Mom", "Dad"}
  SixDays = {"20/04", "21/04"}
  Short = Short
  MaxEvents = 3
SPECIFICATION ReminderSpec
INVARIANTS
  MailNamesTheDay
  ExitTellsOfTheMail
