# Verification of the networking practicals

TLA+ models of the programs of this repository, checked with TLC and, where the
claim should hold for every size of the system, proved with TLAPS. The repository
holds eight independent programs, one per practical, that share an appointment
database and little else. Everything below is about the code under `src/`; where a
model and a document differ, the model follows the code.

## The system

| part | source | state | operations | neighbours |
|---|---|---|---|---|
| appointment database | `Prac4/database.h` (also `Prac2/database.h`, `Prac6/database.h`) | the vector of days, each a vector of `Appointment*`; the file | add, delete by date, time and contactee, search, save, load | called by the two servers; the reminder has a copy of its own |
| telnet server | `Prac2/Server.cpp` | `running`, the listening socket, the registry `client`, the database | accept loop, one detached thread per user, `stop()` from the terminal | telnet users; database without a lock |
| web server | `Prac4/Server.cpp`, `main.cpp` | `running`, the listening socket, `page_mutex`, the database, the shared page | accept loop, one detached thread per request, `stop()` and a connection to itself | browsers; database and page under `page_mutex` |
| appointment page | `Prac4/page.cpp` | copies of days, the HTML | fill from days or from search results, sort, render | web server |
| vacation responder | `Prac7/bot.cpp` | vacation start, handled UIDLs in memory and in a file | a demonstration of DELE and RSET, the responder, the wait, Ctrl+C | POP3 and SMTP server |
| backup client | `Prac8` | the map from file to time | poll, upload, FTP dialogue | FTP server, a directory others write |
| world clock | `Prac3` | the selected cities, shared by all browsers | select, deselect, reset, render, stop | browsers |
| LDAP client | `Prac5` | one connection | bind, add, search, delete, BER encoding | LDAP server |
| event reminder | `Prac6/reminder.cpp` | its own database of `reminder.txt`, which it never writes | load, search, one mail | SMTP server |
| number guessing page | `Prac1` | none | print a page | Apache |

What makes them hard, and what each has to get right:

* **Database.** Deletes free objects while walking pointers to them; the object freed
  is the first with the same key, not the one walked over. A delete and an add look
  only at the first day of a date. A save truncates first. Correct: one day per date,
  bookings under their own date, no freed pointer followed, and a file that is always
  a beginning of what is held.
* **Telnet server.** No lock around the database; `stop()` closes descriptors that
  handlers close too, while numbers are reused, and lets main delete the database beside
  the handlers; users vanish. Correct: the registry names exactly the handlers between
  their registration and their erasure, `stop` ends everything and breaks nothing on the
  way, "exit" closes, only `stop` ends the server. (That it breaks nothing, and that only
  `stop` ends it, are not so: see below.)
* **Web server.** Everything rests on `page_mutex` and on saving after each change; a save
  that cannot open the file says so to nobody, and the request is answered like any other;
  `stop()` ignores the mutex, and wakes `accept` by a connection to itself; a request
  comes in pieces, and what has come when its client goes away is carried out. Correct:
  each request is atomic, and what was saved lasts; what is carried out is what was sent or
  less; the file matches memory unless the last save could not open it; `stop` ends the
  process.
* **Vacation responder.** It can die between replying and remembering; it marks the
  newest mail deleted in every round, and quits with the mark when the server refuses to
  take it back; it can hang on an error line. Correct: one reply per mail and vacation, no
  mail lost but by such a refusal, every due mail handled, Ctrl+C works.
* **Backup client.** Files change while they are uploaded; responses come in pieces and
  are not framed; STOR empties the only copy first. Correct: what is recorded is on the
  server, whole and of one version, and a version that stays gets there whole.
* **World clock.** All browsers share one selection and one page; a command is looked for
  in the whole request, so also in its Referer, and each page, an error too, loads itself
  again every second. Correct: a page that reloads changes nothing, an error page that
  reloads does at most what was clicked, and once; an error met at "/" does not stay;
  Johannesburg is always selected.
* **LDAP client.** Hand-written BER at every length; TCP cuts messages anywhere; no
  answer is matched with its request; the end of the input repeats the last command.
  A result code of a search is never read. Correct: bytes a server can read, planes as the
  server wrote them, a success that is true of the command just typed, and a report of all
  that the server sent for it. (That this is all there is, is not so: see below.)
* **Event reminder.** It has one run and no memory of it; the file is written by hand; every
  SMTP answer may be odd. Correct: the mail names the events of the day, and the exit tells
  as much of the mail as it can: 0 says that it was taken *or* that nobody could be
  connected to, and a failure of a run whose mail was taken came at the answer to the
  content or to QUIT, so that only then a second run sends it twice.
* **The file and the page.** A line carries its fields between tags and nothing escapes a
  tag; rows are sorted by comparing numbers `sscanf` may not have set. Correct: a plain
  booking is read back, whatever stands beside it, and a page is in the order of time.

## Modules

| module | role | state and actions against the code |
|---|---|---|
| `Appointments` | data and pure helpers of `database.h` | `Insert` = `addAppointment`, `GetIndex`, `DeleteAt`, `DaySearch` = the methods of `day`, `Selected` = what a delete will walk over, `DbSearch` = `Database::search`, `Lines` = what `saveToFile` writes |
| `Database` | class `Database`, one thread | loops take one step per iteration (`DeleteNext`, `SaveLine`, `LoadLine`); `Flush` is the stream's buffer reaching the disk; `Halt` is a death anywhere or an exit |
| `Appointments_proofs` | lemmas about `Appointments` | what the helpers keep of a vector of days; what is searched, saved and loaded, as sequences; what a change of the days does to the lines of a save |
| `*_proofs` | theorems about one component each: `Database`, `TelnetServer`, `ApptServer`, `VacationBot`, `Backup`, `LdapClient`, `WorldClock` | |
| `StdString` | pure: `std::string` | `Find`, `Slice`, `Npos` = `find`, `substr`, `npos`; used by the two modules that follow |
| `RecordFormat`, `DatabaseFile` | pure: the text of `database.txt`; and the database with it | `ToFileString`, `GetLines`, `Parse` = `toFileString`, the getline loop, the constructor `Appointment(fileString)`; what `std::string::npos` wraps to is kept. `FileIsReadBack` says what the tags can carry |
| `RequestForm` | pure: the bytes of a request in `Prac4/Server.cpp` | `read_request` on the pieces that come, `url_decode` and the parsers under the names of the code, `Understood` = the dispatch of `process_request`; beside them, the forms as a browser writes them |
| `PageOrder` | pure: `Prac4/page.cpp` | the comparisons and the two overloads of `updateDays`; what `sscanf` leaves unset is any value of `Garbage`, and an unstable sort may give any arrangement that respects the comparison |
| `ApptPage` | composes `ApptServer` and `PageOrder` | whenever a handler fills the page, its rows can be put in order as `PageOrder` says |
| `Reminder` | `Prac6/reminder.cpp` with `Prac6/database.h` and `reminder.txt` | runs of the program: `Begin`, then `ReadLine` or `LoadThrows` for each line of the file, then `NoUser`, `NoServer` or `Connect`, then `Reply` for each answer of the SMTP server, from the greeting to QUIT; the file is any between two runs |
| `TelnetServer` | `Prac2/Server.cpp` with `Prac2/database.h` | main thread, stop thread, one handler per connection; `sock` is the descriptor table, `on` the connection a blocked `recv` keeps; database calls in two steps, since nothing makes them one; `Destroy` is main's `~server`, which frees the days under whoever holds them |
| `BookingStore` | abstract: a store of lines changed by one request at a time, and what of it lasts | what a web client may rely on: requests are answered from `store`; `lasting` is what the last save that could open the file wrote, and what a crash leaves, or a beginning of it; of a client that goes away, nothing or less than it asked |
| `ApptServer` | `Prac4/Server.cpp`, `main.cpp` | main thread, stop thread, one thread per request; whole database calls under `page_mutex`, a save taken apart (`OpenFile`, `WritePart`, `WriteAll`, or `SaveFails` when the file cannot be opened, for want of a descriptor say); `Store` is the refinement mapping to `BookingStore` |
| `VacationBot` | `Prac7/bot.cpp` | one thread; the POP3 session, the mailbox, the SMTP server and the mailbox's owner are the environment |
| `Backup` | `Prac8` | one thread: session, poll loop (`Poll`, `PassOver`, `Upload`, `RoundEnds`) and the upload (`Store` to `Record`), one step per response that is waited for; `Write`, `Delete`, `Tick` are the directory and its clock, `inbox` the pieces of responses on their way |
| `WorldClock` | `Prac3` | `Process` and `Respond` = `process_request` and `handle_client` in and after the critical section of `page_mutex`; `Type`, `Click`, `Refresh` are the browsers, which also follow redirects |
| `Ber` | pure: the bytes of `Prac5/LDAPClient.cpp` | the requests it builds, `receivePacket`, `readBERLength` and each reader of bytes; beside them, BER as X.690 has it, which the server uses |
| `LdapClient` | `Prac5/main.cpp` and the control of `LDAPClient.cpp` | `Start`, one action per way a menu command begins or fails to (`Type`, `TypeCut`, `Repeat`, `Invalid`, `Exit`), one per `receivePacket`; the server, which may refuse a search at once or after some entries, and other users of the directory are the environment |
| `LdapWire` | composes the two | the messages of `LdapClient` on their way are bytes of `Ber`: every request is what the standard says, and every answer is read as `LdapClient` says |
| `MC*` | values of the constants for TLC | |

`ApptServer` and `TelnetServer` both build on `Appointments`, and so use the same
definitions of add, search and delete that `Database` takes apart; so does `Reminder`:
`Prac6/database.h` adds and searches in the same way, with two fields to an event.

The pure modules are tied to the states that need them: `DatabaseFile` states
`FileIsLoadable` (whenever a process starts to read the file, the text behaves as
`RecordFormat` says), `ApptPage` states `PageIsOrdered` (whenever a handler fills the page), and
`MCApptServer` states `RequestIsRead`: whenever a handler reads, the requests of `ApptServer` are what
`RequestForm` makes of their bytes, and `CutShort`, the set a cut request is read as, is
exactly what it makes of their beginnings.

Texts are opaque. The code asks of a text whether it is empty, equal to another, part
of another, or holds a "/"; the constants `Empty`, `Substr` and `Slashed` answer that,
and `TextAssumption` states what is true of them for any texts. `imagePath` never takes
part in a decision and is left out of a booking; `RecordFormat`, where a text is a sequence of
characters, has its tag.

Undefined behaviour is a choice: a race or a dangling pointer in `TelnetServer`
(`Torn`) loses an update or ends the process; a call on the database that main deleted in
`TelnetServer`, or `stop()` in `ApptServer` (`UseFreed`), ends the process or does nothing.
`server` is an object on the stack of `main`, and handlers use its members after `main` has
returned, until the process ends: these are taken to be as they were.

## Runs

| run | question | result |
|---|---|---|
| `database` | one database, four allocations of four bookings that share keys and match each other's searches; what its file can carry | all invariants hold |
| `telnet_sessions` | two users who leave with and without "exit", two descriptor numbers, reading commands, `stop` at any moment | the registry is exact, nobody waits after `stop`, `stop` and "exit" take effect |
| `telnet_bookings` | two users who add, view, search and delete, `stop` at any moment | nothing goes wrong with the days unless two calls overlap, one of them writing, or main deletes the database under a call |
| `telnet_teardown` | does nobody use the database once main has deleted it? | no: one user in the middle of a search is enough (`Prac2/Server.cpp:473`) |
| `web_server` | two requests out of add, delete and search, one of them cut at any byte, any number of deaths, restarts and saves that cannot open the file, `stop` at any moment; the order of the rows | refines `BookingStore`; the file matches memory unless the last save could not open it; a request is read as it was sent, or as a part of that; a readable page is in the order of time; requests that were read are answered; `stop` ends the process |
| `web_server_stop` | is an answered add in the file after `stop`? | no: `stop()` deletes the database beside running handlers and the process may end within its save |
| `vacation_bot` | two mails with any Date header, two runs, two seconds, two failures, a refused RSET among them, a death anywhere | replies are bounded, what is remembered was answered, a mail is lost only by a refused RSET, due mails are handled, Ctrl+C ends the program |
| `vacation_bot_success` | is SUCCESS printed only for replies that were sent? | no: `sendMail` reports nothing |
| `backup` | two files, two writes and two ticks of the clock, two starts, responses in one or two pieces, refusals, a death anywhere | what is recorded is stored, whole, and of the recorded version; a version that stays is stored in the end, whole |
| `reminder` | any file of at most three lines, one of them perhaps too short, any answer to any command, no user, no server | the mail that is taken names the events of the date; what the exit tells of it |
| `ldap` | any commands, input that ends at any prompt, a server that answers, refuses, stops in the middle or goes away, and a directory others change | a success is true; what is printed is what the server sent for it, all of it while the connection lives; requests and answers are the bytes of the standard; every command ends |
| `world_clock` | two browsers that type any address, click any link and reload | the reload of a page without an error changes nothing; no reload, of an error page either, repeats a city command that was carried out; an error met at "/" goes away |

### What the code does that its texts do not say

Three runs end in a counterexample: `telnet_teardown`, `web_server_stop` and
`vacation_bot_success`. What else was met while modelling is in the models, and no property
claims the contrary:

* A delete that names a contactee removes the bookings of others in whose name, location or
  description that text occurs (`Prac4/database.h:328`, which searches every field), while the
  prompt asks for "the Contactee of the Appointment" (`Prac2/Server.cpp:384`).
* A telnet user who leaves before `accept` returns is sent the telnet negotiation all the same
  (`Prac2/Server.cpp:523-525`); the second send raises SIGPIPE, which nothing ignores, and the
  server ends for all users. So can every other send to a user who left.
* A search that the LDAP server refuses, or gives up at a limit, is reported as if it had been
  carried out, because the result code of its last answer is not read
  (`LDAPClient.cpp:391-410`): "Plane not found." and "No planes found." may be said of a
  directory that holds planes.
* An event whose date is written `dd/mm/yyyy`, as `Prac6/database.h:9` says of dates, is in no
  mail: the date is compared with `dd/mm` as a text (`Prac6/reminder.cpp:220`).
* A reminder that cannot connect prints so and exits with 0 (`Prac6/reminder.cpp:139-143`).
* The demonstration of DELE quits after a refused RSET, and loses the mail (`bot.cpp:352-357`).

### Bounds

* `database`: four allocations give two bookings with one key, a third that one's
  search finds, and a day of another date; deletes of an empty day and adds to it occur.
  Loads after a restart are bounded by the same number, since `Halt` resets the ids.
* `telnet_sessions`: two numbers and two connections suffice for a number to be closed
  by one thread while it belongs to another connection. Commands are those that only
  read, with an empty database: the properties of this run are about sockets.
* `telnet_bookings`: two additions are enough for two days of one date, or for a pointer
  that is freed under its reader; nobody hangs up, which `telnet_sessions` covers. A search
  may be for an empty text, which every appointment matches. `telnet_teardown` needs one command,
  and has no more.
* `web_server`: two bookings of an earlier run, one with the key of the one that is
  added, so that a delete can match both and a crash can lose the second; the other
  is found when the delete of "Joe" is cut to "Jo". Each client makes one request, and
  `MaxCuts` is 1: one client goes away in the middle. An add that is refused is one that
  was cut before its contactee. Deaths, restarts and
  failed saves are not counted: with each client's one request the states are finitely many
  anyway. `web_server_stop` has neither deaths nor failed saves, so that its trace is about
  `stop()` alone.
* `vacation_bot`: two mails, so that a handled one can stand before a new one; two
  seconds, so that a run can begin before, in and after the second of a mail;
  `MaxFailures` bounds errors and lost connections, not the logout of an idle session,
  nor rounds in which the mailbox cannot be opened. It is 2: a refused RSET and another
  error in one history.
* `backup`: two writes and two ticks let a file change before, during and after its
  upload, in another tick or in the same one, and be deleted and made again. In the same
  tick the client cannot notice: the properties except such files (`coarse`), a limit of
  comparing times. Two starts give a session that begins on what another left.

* `RecordFormat` (in `database`): any two fields of a booking hold any of nine texts made
  of tags, parts of tags and line ends, and a file of two lines is cut at every byte. Only
  a cut that leaves one to four bytes of a line keeps the next start from getting through.
* `reminder`: each answer has any code of `Codes`: the right ones of every command, two that
  are errors, one that is no code, and the end of the connection in place of an answer. Three
  lines are enough for two events of one day with one of another between them, and for a line
  that throws behind one that was read. The file does not change while it is read.
* `RequestForm` (in `web_server`): any two fields of a form hold any of six texts with the
  bytes a browser escapes, a line end, dashes, and the path of the delete; an add that
  holds that path is taken for a delete. A stream is cut into any three pieces, its body of
  at most three bytes may hold zero bytes (`Nul`, a character that stands for them): only
  one in the piece that completes the header makes `read_request` wait for what has come.
  Each request of `web_server` is cut at every byte; a cut escape (`%2F`) is read as its
  first digit, which is why `Cut` has more than beginnings.
* `PageOrder` (in `web_server`): three rows, since an order can fail on three; dates with
  two spellings of one day, one without a year, one without any number; unset numbers
  below and above the readable ones.
* `ldap`: two planes, so that a search has something not to find, and a list can be refused
  after the first; one speed. `Byte` is 8
  in place of 256, so that message ids wrap to zero within the run. The texts in the
  messages with one id have one length, 1 to 300, chosen so that a field, an element or a
  request just fits, or just does not fit, one byte of length (127) and two (255); the
  server writes lengths in the fewest bytes, or in four, as some servers do,
  and the entries of a search in any order.
* `world_clock`: two cities, the one that stays and one that comes and goes; two redirects
  in place of the twenty or so a browser follows.

`CHECK_DEADLOCK FALSE` stands where the program ends, or where every connection and
start that the bounds allow has been used.

### Fairness

Threads of the servers are scheduled (weak fairness of each thread's own steps, of which a
save that cannot open its file is one). Users,
clients and terminals are not fair: they may stay silent for ever, and the liveness
properties hold all the same. A web client that never completes its request is allowed
too (`ReadRequest` is not fair). The bot assumes servers that answer, a server that logs
an idle session out (RFC 1939 requires a timer of ten minutes or more; without it
`InterruptStops` is false, because `recvMultiLine` waits for ever), and that of
infinitely many attempts to open the mailbox one succeeds (strong fairness of `Connect`).
The backup client goes on while the FTP server answers, if only with a refusal; a crash
is never forced and `KeptVersionIsStored` promises nothing to a program that has ended.
The LDAP client reads what has come, and the server answers what it has read or closes;
`Disconnect` and `Close` are not fair, and no command is ever typed of necessity.
In `WorldClock` a handler goes on, the mutex is given in the end to each thread that keeps
asking for it (strong fairness of `Process`: other browsers may take it in between), and
a page that is left alone reloads itself, as its `http-equiv="refresh"` asks.

## Proofs

Every safety property of the runs that is not a computation on concrete texts is a
theorem, for every value of the constants, and with it the type invariant of every
component. In each module the argument is the same: an invariant that is inductive, a
lemma for the initial states, one for each group of actions, and the properties as its
consequences. TLC checked each invariant on the run of its module before it was proved.

`Appointments_proofs` has the facts of `Appointments` that the components cite. `Good`
says of a vector of days that there is one day per date, that every booking is under its
date, and that ids grow along a day and are below the next one; every add, delete and
load keeps it. Of a save it shows that what has been written is at each point a beginning
of what will be, and of a load that it is the inverse of a save (`LoadStep`, `SavedNext`);
and of each change of the days what it is to the lines of a save.

| module | inductive invariant | what it adds to the properties, and why |
|---|---|---|
| `Database_proofs` | `DbInv`, `FileInv`, `RemovedInv`; `ReminderInv` of `Reminder` | see below |
| `ApptServer_proofs` | `ServerInv`, `StoreInv` | `StoreInv`: see below. `LockInv`: the holder of `page_mutex` is exactly the one handler inside; so nobody else changes the days while one saves them. `FileInv`: the file holds the days when no handler is between changing and saving them and the last save could open it (`~behind`), and a beginning of them while one writes. A death may come anywhere, so the file must always be one whose bookings stand by date (`Grouped`), of which any beginning is one again: that is what makes a later start give back the file line by line |
| `TelnetServer_proofs` | `TelnetInv` | `SocketInv`: a number belongs to at most one live handler. `LateInv`: after `stop()` has taken the mutex, a handler that may still wait is shut down or among the numbers to be closed, and then its number is still its own, although closed numbers are given out again. `CallInv`: what a call found is still there unless another call overlapped it or main deleted the database under it (`raced`) |
| `VacationBot_proofs` | `BotInv` | `ReplyInv`: a mail that is not remembered has had one reply fewer than there were runs by its date, unless it was answered just now. `MemoryInv`: what is about to be remembered was answered, or is too old. `SessionInv`: a mark is set only while the demonstration of DELE runs, and past its RSET only where that was refused; so a QUIT deletes nothing else |
| `Backup_proofs` | `BackupInv` | `InboxInv`: which codes can still be unread at which command, since answers are not matched with commands; so a 226 means that this upload is whole. `UploadInv`: while the file is of one version, so is its copy |
| `LdapClient_proofs` | `LdapInv`, `MessageInv` | `LinkInv`: nothing is unread when a command is sent but a notice of disconnection, and nothing follows the end of an answer. `AwaitInv`: what is unread is true of the command under way. `MessageInv`: what is read or unread is an answer to that command, or the notice; so the planes in it were all written with one id. Of the bytes: see below |
| `WorldClock_proofs` | `ClockInv` | `RefreshInv`: a page without an error that reloads itself is only ever shown at an address that is no command, and nothing that is on its way will change that. `AskedInv`: a command on a city that is on its way, or at whose address an error page stands, is what the user of that browser asked for (`asked`, a history variable) and has not got; carrying it out redirects the browser away from it |

In `Database_proofs`, `DbInv` adds to the properties what they rest on: ids in the vectors are
below `nextId`; a delete in progress has a target day, and what it has still to visit is
in that day, in the order of ids, with nothing skipped. `LoopReadsLiveObjects` is not
inductive alone. The argument for it: the loop visits results in increasing id order and
frees the *first* object with the key of the one it visits; that object's id is at most
the visited one's, and so below every id still to be visited. Hence the object freed is never
one the loop will follow, even when it differs from the one it is looking at. `RemovedInv`
counts: of each key as many objects are gone as were visited, and the older ones first.
`FileInv` follows a save and a load: what is written is `Saved` of the days so far, what is
read is a vector of days whose lines are the file up to here.

`TheServerIsAStore` proves `Spec => ImplementsStore`: the refinement of `BookingStore`, under
the mapping `Store` of `ApptServer`. The store is mapped to the lines of the days while there
is a database, and what lasts of it to the file, or to the lines of the days while a handler
is writing them: then the file is a beginning of those. So an add or a delete takes effect
for its client where the days change; `OpenFile` is the store's `Save`; the last line written
is its `Keep`, and so is `SaveFails`, which answers a change that nothing has saved; every other
step of the server is a stutter or one of the store's other actions, which the lemmas `StoreAsk` to
`StoreStop` recognise. `ServerInv` is not enough for that. `StoreInv` adds `AnswerInv`, that no
answer has been begun before its page is filled, and `EndInv`, that the database goes with
the process. What the change of the days is to the lines is in three lemmas: an insertion is an
insertion of one line (`AddChanges`); a delete, which frees the first object with a key, takes
as many lines of the date as match, or one if it has a time (`DeleteChanges`); and the page of
a search shows the lines that match (`PageIsShown`). The lines of one day lie between those of
the others (`LinesSplit`), so each of these is an argument about the middle of a sequence, and
about which positions of it are left (`MiddlePicked`). A crash within a save leaves a beginning
of what was being saved, and one at any other time what the last save wrote (`DieIsCrash`): with
it goes a change that was answered and could not be saved.

`MailsAreOfTheDay` and `ExitsAreTrue` are about the same structure: the reminder loads the
lines of its file by date, as the other databases do, and searches what it loaded. What is
held of a date is at each point of the load the events of that date read so far, in the order
of the file (`HoldsUpto`, in `WeekInv`); so the names to mail are those of the events of the day,
all of them and in that order, and the mail is sent also when there are none. `MailInv` follows the
dialogue: the mail is taken between the content and QUIT and nowhere else.

`FilesAreLoadable` is about characters, and so does not depend on the state either. A tag opens with its only
"<" and closes with its only ">" (`IsTag`), so no tag begins in another, and none that a field
does not hold reaches over the field's end (`FreeTag`, `LacksThen`): in a clean line the first place where
the tag of a field stands is before that field, the next one behind it (`Carries`,
`ReadField`). What is read for a field never holds the field's own tag, whatever the line is (`FieldLacksTag`).
A line throws exactly if it has fewer than five characters (`ThrowsIs`), and the lines of a
text are found where its line ends are (`LinesOne`, `LinesTwo`).

`PagesAreOrdered` is about one page that two handlers sort in two ways: a search sorts the
appointments, the home page the days and then each day. What is proved does not depend on
the state, and is for any number of rows. A sort with values, which may give any arrangement without
a value after a greater one (`Ordered`), has every element (`SortOnto`), exists (`SortExists`), and has
the same value at each place in all its outcomes (`SameValues`, by counting what can come before).
So two sorts, of keys and within keys, make a sort (`TwoSorts`), and every outcome of the one sort is one of
the two (`SortedTwice`): take any outcome of the two, whose values are the same place by
place, and put into each of its days what the other has there. For dates and times as the calendar
has them (`IsDate`, `IsTime`) the comparisons are those of the minutes (`MomentOrder`). That the sort of
a search is defined *exactly* when nothing unset is read and no date has two spellings at two times
is a proof of each direction: an unset number may be on either side of a number that is read
(`BlurredDates`, `BlurredTime`), and two spellings of one date compare as equal to each other while
their times do not.

`RequestsAreWellFormed` is about bytes. A length is read as it was written in each of the
forms the client has, of one, two or three bytes (`LengthForm`); an element is read by a
standard parser as what it was made from, whatever stands around it (`Stands`, `HeadStands`,
`ElementRead`); and `Fits` says of a text of bytes that it is whole elements with the leaves
given. It is kept by joining two texts and by putting one into an element, which is all the
builders of the client do, so each request is a step for each of its fields. That the leaves of
a text exist at all is an induction on its length (`LeavesExist`).

`ResponsesAreUnderstood` is the other direction: what a server writes, with its lengths in any
of the forms of `Forms`, and what the client makes of it. An element made so (`Made`) is cut
out of a stream where it ends, and is none while its last byte is missing (`ElementReceived`,
`ElementCut`). The readers go from element to element; an element is found where it stands
(`Found`), and what follows it fills the rest (`Filling`), so a nest of readers is a chain
of such steps (`EntryRead`, `AnswerRead`). The loops over elements and messages are defined
whatever the bytes are, because a reader never goes back (`ElementAnywhere`, `ChainExists`),
and on a stream of answers they stop at each of them (`ElementsWalk`, `MessagesScan`,
`MessagesRead`). The planes of all answers joined are those that `ExtractPlanes` takes
(`PlanesRead`). `responseIndicatesSuccess` looks for three bytes *anywhere* in the packet: that
they stand in no other answer is shown part by part: no byte 0 comes after a 1 after a 10 or
may, whatever stands before the part, which joining two parts keeps (`Fine`); it holds of every tag with
its length, and of texts because they have no byte 0.

Assumptions are those of the modules, and TLC evaluates each of them in a run.
`TextAssumption` is true of any texts. `ServerAssumption` says that `Requests` are requests
for the pages of the server, and that the bookings in `InitialFile` stand by date, as those
of every file do that a run of the server leaves (`TheFileIsTheDays` proves it) up to the
first `stop`, deaths and failed saves included; what a racing `stop()` leaves is excluded, as starts after a stop are.
`FormatAssumption` says that the texts of fields are sequences of characters, and that the
letters of the tags are characters. `LdapClient` takes `Planes` to be finite. `WireAssumption` takes the texts of a message to be at most
20000 bytes, so that three of them fit a length of two bytes; beyond that the client drops
the high bytes, which a terminal, whose lines end at 4096 bytes, does not reach. `PageAssumption` says of what `sscanf` reads that it is at most three or two integers, and of
an int nobody set that it may be below and above the years that are typed. `ReminderAssumption` wants the codes that
the program itself compares with among those a server may answer.

Two kinds of induction are replaced. Induction over a sequence is an argument about the
least position at which a set of naturals does not hold (`LeastNat`, `Induct`), since a set can
be quantified over where an operator cannot. A recursive function that the code's loop
became is shown to exist by the same argument (`Iterate` in `ApptServer_proofs`), and after
that its equation can be used.

Proving found some things that no run had shown. Two `CASE` expressions had arms that
overlap, in which TLC takes the first and the logic any; they are exclusive now. And a file
whose bookings of one date do not stand together is *not* given back by a load, which is why
`Grouped` is an assumption of `ApptServer`, and part of the invariant of `Database`. And the
`BookingStore` of a run whose `Cut` leaves out some pair <<x, x>> would not have let a client
lose one field and keep another whole (`Less`); it does now, as the server does.

Only model-checked:

* liveness, which is out of the prover's reach: `StopEndsServer`, `ExitCloses` (telnet),
  `StopEnds`, `Answered` (web), `DueIsHandled`, `InterruptStops` (bot),
  `KeptVersionIsStored` (backup), `CommandEnds` (LDAP), `ErrorClears` (clock);
* `RequestIsRead`: `RequestForm` computes with texts as TLA+ strings, of which the provers
  know nothing, not even how two are joined; it stays checked over bounded inputs.

## Not modelled

* The files under `uploads/` and the images a page carries; the headers of a request
  but its length, type and boundary; and escapes no browser writes, which end the process
  (`std::stoi` throws) as a `Crash` does.
* A power failure: nothing calls `fsync`, so a file may be lost of which the process wrote every
  byte. A `Crash` is the death of the process, by a signal or an exception.
* In `Database`, a save that cannot open its file: there it would leave the file as it was, and
  the properties of that module speak of the file against the last save that wrote it
  (`FileMatchesMemory` of a change after that says nothing). `ApptServer` has it.
* The number after `Content-Length`, which `RequestForm` takes as the length of the body that is
  sent.
* HTML, wording, colours, prompts of the telnet server (a command asks for *some* number
  of answers; the code's answers and validations decide which).
* Replies of the bot that come back as new mail; mail headers beyond subject and date.
* `Prac1`, which has no state.
* `Prac3`: the clocks, the socket's reading, and `run` and `stop`, which are those of
  `Prac4` without a database.
* `Prac5`: `anonymousBind`, `buildAnonymousBindRequest` and `findSubsequence`, which `main`
  does not reach; a name with spaces, of which the menu reads the first word and takes the
  rest for answers to its next prompts; lengths above 65535, whose high bytes
  `appendLength` drops.
* `Prac6`: the `.env` file, the calendar behind `date_plus_days`, and adding, deleting and
  saving events, which `main` does not do.
* `Prac8`: the `.env` file, the map's printing, a modification time that is set back. A
  response is one or two pieces, and only the code a piece begins with counts. A read of the
  local file that fails in the middle ends the loop of `FTP_Client.cpp:191-206` as the end
  of the file does, and what was sent is then accepted at the 226; the model has no such error. The QUIT of
  `~FTPClient` is part of the end (`Down`), as is SIGPIPE, and the exception of
  `last_write_time` or of the open when a file vanishes just before it.

## Plan

In the order of importance:

1. A mailbox in `VacationBot` to which the bot's own replies return.
2. The shutdown of Prac3, with that of `ApptServer` as the pattern.
