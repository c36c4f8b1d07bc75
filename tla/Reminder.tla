------------------------------ MODULE Reminder ------------------------------
(***************************************************************************)
(* The event reminder (Prac6): each run loads reminder.txt, which people   *)
(* write by hand, into a database of its own, searches that for the date   *)
(* six days ahead, and mails the names it finds through the SMTP server of *)
(* this host.  Its class Database adds and searches as the one of          *)
(* Appointments does, with two fields to an appointment.                   *)
(***************************************************************************)
EXTENDS Appointments, FiniteSets

CONSTANTS
  Codes,       \* the codes of answers, NoCode and Lost
  NoCode,      \* an answer that does not start with three digits
  Lost,        \* the connection ends before the answer does
  EventDates,  \* the dates written in the file
  EventNames,  \* and the names
  SixDays,     \* the dates that date_plus_days writes, dd/mm
  Short,       \* a line of fewer than two characters
  MaxEvents    \* bound: lines of the file

ASSUME ReminderAssumption ==
  /\ {220, 250, 252, 354, 221, NoCode, Lost} \subseteq Codes
  /\ 250 \notin {NoCode, Lost}
  /\ EventDates \cup EventNames \subseteq Text /\ SixDays \subseteq Slashed \ {Empty}
  /\ Short \notin Appointment /\ MaxEvents \in Nat

VARIABLES
  phase,    \* where the program is, "ended" between runs
  events,   \* the lines of reminder.txt
  read,     \* how many of them the constructor of Database has read
  week,     \* Database::days
  sixDays,  \* main's sixDays
  content,  \* main's content, the names
  command,  \* the last command sent in this run, 0 before there is a connection
  taken,    \* history: the server has taken the mail of this run
  exit      \* how the last run ended: 0, or 1 for an exception or a signal

reminderVars == <<phase, events, read, week, sixDays, content, command, taken, exit>>

\* What is sent, in order; the greeting answers the connection.
Commands == <<"greeting", "HELO", "VRFY", "MAIL FROM", "RCPT TO", "DATA", "content", "QUIT">>

Content == 7
Quit    == 8

\* An appointment of the file: two fields, and none of the others of Appointments.
Event(date, name) ==
  [date |-> date, time |-> Empty, contactee |-> name, location |-> Empty, description |-> Empty]

Events == {Event(d, c) : d \in EventDates, c \in EventNames}

Files == UNION {[1 .. n -> Events \cup {Short}] : n \in 0 .. MaxEvents}

ReminderTypeOK ==
  /\ phase \in {"ended", "loading", "talking"}
  /\ events \in Files /\ read \in 0 .. Len(events) /\ week \in Seq(Day)
  /\ sixDays \in SixDays \cup {Empty} /\ content \in Seq(Text)
  /\ command \in 0 .. Quit /\ taken \in BOOLEAN /\ exit \in {0, 1}

ReminderInit ==
  /\ phase = "ended" /\ events = <<>> /\ read = 0 /\ week = <<>>
  /\ sixDays = Empty /\ content = <<>> /\ command = 0 /\ taken = FALSE /\ exit = 0

-----------------------------------------------------------------------------
\* A run starts, with the file as it is by now.
Begin ==
  /\ phase = "ended" /\ phase' = "loading"
  /\ events' \in Files /\ read' = 0 /\ week' = <<>>
  /\ sixDays' = Empty /\ content' = <<>> /\ command' = 0 /\ taken' = FALSE
  /\ UNCHANGED exit

End(status) ==
  /\ phase' = "ended" /\ exit' = status
  /\ UNCHANGED <<events, read, week, sixDays, content>>

\* One turn of the loop of the constructor.
ReadLine ==
  /\ phase = "loading" /\ read < Len(events) /\ events[read + 1] # Short
  /\ read' = read + 1
  /\ week' = Insert(week, [id |-> read + 1, apt |-> events[read + 1]])
  /\ UNCHANGED <<phase, events, sixDays, content, command, taken, exit>>

\* Of a line without its tags substr starts behind the second character: it throws when
\* there are not as many, and nothing in main catches that.
LoadThrows ==
  /\ phase = "loading" /\ read < Len(events) /\ events[read + 1] = Short
  /\ End(1) /\ UNCHANGED <<command, taken>>

\* readUser throws: there is no .env file, or no user in it.
NoUser ==
  /\ phase = "loading" /\ read = Len(events)
  /\ End(1) /\ UNCHANGED <<command, taken>>

\* sendEmail cannot connect, prints so and returns, and main returns 0.
NoServer ==
  /\ phase = "loading" /\ read = Len(events)
  /\ End(0) /\ UNCHANGED <<command, taken>>

\* The names that db->search(date) finds.
MailLines(ds, date) ==
  LET found == DbSearch(ds, date)
  IN  [n \in DOMAIN found |-> found[n].apt.contactee]

\* The clock says which day is six days ahead.
Connect ==
  /\ phase = "loading" /\ read = Len(events)
  /\ phase' = "talking" /\ command' = 1
  /\ sixDays' \in SixDays /\ content' = MailLines(week, sixDays')
  /\ UNCHANGED <<events, read, week, taken, exit>>

\* A mutant of Allowed: an answer is good when it has a code.
AnyCode(cmd) == Codes \ {NoCode, Lost}

\* The codes that let the program go on: expectReply, but for the answer to VRFY.
Allowed(cmd) ==
  CASE cmd = "greeting" -> {220}
    [] cmd \in {"HELO", "MAIL FROM", "RCPT TO", "content"} -> {250}
    [] cmd = "VRFY" -> Codes \ {NoCode, Lost}
    [] cmd = "DATA" -> {354}
    [] cmd = "QUIT" -> {221}

\* The server says that it took the mail; or it took it, and says nothing one can read.
Takes(code) == command = Content /\ (code = 250 \/ code \in {NoCode, Lost})

\* recvSMTPResponse: an answer is read, up to its last line, before the next command is
\* sent; one that is not allowed throws.
Reply ==
  /\ phase = "talking"
  /\ \E code \in Codes, takes \in BOOLEAN :
       /\ takes => Takes(code)
       /\ command = Content /\ code = 250 => takes
       /\ taken' = (taken \/ takes)
       /\ IF code \notin Allowed(Commands[command])
          THEN End(1) /\ UNCHANGED command
          ELSE IF command = Quit
          THEN End(0) /\ UNCHANGED command
          ELSE /\ command' = command + 1
               /\ UNCHANGED <<phase, events, read, week, sixDays, content, exit>>

ReminderNext ==
  Begin \/ ReadLine \/ LoadThrows \/ NoUser \/ NoServer \/ Connect \/ Reply

ReminderSpec == ReminderInit /\ [][ReminderNext]_reminderVars
-----------------------------------------------------------------------------
\* The mail has one line for each event of date d, with its name, in the order of the file.
NamesTheDay(mail, file, d) ==
  LET due == {i \in DOMAIN file : file[i].date = d}
  IN  /\ Len(mail) = Cardinality(due)
      /\ \A i \in due : mail[Cardinality({j \in due : j <= i})] = file[i].contactee

\* The mail that the server takes names exactly the events that have the date as sixDays
\* writes it, in the order of reminder.txt, although the database keeps them by date; it
\* is sent also when there are none.
MailNamesTheDay == taken => NamesTheDay(content, events, sixDays)

\* A run that exits with 0 had its mail taken or could not connect, and a run that fails
\* although its mail was taken failed at the answer to the content or to QUIT: only then
\* does running it again send a mail twice.
ExitTellsOfTheMail ==
  phase = "ended" =>
    /\ exit = 0 => (taken <=> command # 0)
    /\ taken /\ exit # 0 => command \in {Content, Quit}
=============================================================================
