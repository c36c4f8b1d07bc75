----------------------------- MODULE ApptServer -----------------------------
(***************************************************************************)
(* The web appointment server (Prac4): Server::run accepts connections and *)
(* starts a thread for each, handle_client reads the request, processes it *)
(* under page_mutex, and sends the response; the thread that reads the     *)
(* terminal calls stop() and then connects to the server itself.  The      *)
(* database is the one of Appointments, with whole calls as steps, since   *)
(* page_mutex keeps other handlers out; only a save is taken apart,        *)
(* because the process can die, or stop() can delete db, in the middle.    *)
(***************************************************************************)
EXTENDS Appointments, FiniteSets

CONSTANTS
  Clients,    \* the connections; each makes one request
  Requests,   \* what the clients ask for
  Cut,        \* the pairs <<t, x>> such that t is read for x when a request ends in x
  NoClient,   \* page_mutex is free
  InitialFile,\* what earlier runs of the server left in database.txt
  MaxCuts,    \* bound: requests that end before their end
  Crashes,    \* whether the process may die, anywhere: by a signal, SIGPIPE on the send of
              \* a response, an exception that leaves a thread
  Fails,      \* whether a save may find that it cannot open database.txt
  Stops       \* whether "stop" is ever typed

\* A request, by the page of the server it is for.
PageRequest ==
  [op : {"add"}, apt : Appointment]
    \cup [op : {"delete"}, date : Text, time : Text, contactee : Text]
    \cup [op : {"search"}, keyword : Text]
    \cup {[op |-> "bad"]}

ASSUME ServerAssumption ==
  /\ NoClient \notin Clients
  /\ Requests \subseteq PageRequest
  /\ InitialFile \in Seq(Line) /\ Grouped(InitialFile)
  /\ Cut \subseteq Text \X Text
  /\ MaxCuts \in Nat /\ Crashes \in BOOLEAN /\ Fails \in BOOLEAN /\ Stops \in BOOLEAN

VARIABLES
  running,   \* Server::running
  main,      \* the main thread in run(); "down" when there is no process
  stopper,   \* the shutdown_listener thread
  listening, \* server_no is open
  waker,     \* the self-connection waits to be accepted
  h,         \* the thread of each connection: pc and its request
  lock,      \* the holder of page_mutex
  db,        \* db: "live", or "deleted"
  days,      \* Database::days
  nextId,    \* the address the next new Appointment gets
  page,      \* Page::html, as the set of lines it shows
  resp,      \* the lines in each response
  file,      \* the lines of database.txt
  behind     \* history: the last save of this process could not open the file

vars == <<running, main, stopper, listening, waker, h, lock, db, days, nextId, page,
          resp, file, behind>>

mainVars == <<running, main, stopper, listening, waker>>
saveVars == <<file, behind>>
dataVars == <<days, nextId, page, resp, saveVars>>

NoRequest == [op |-> "none"]

-----------------------------------------------------------------------------
\* Requests that are read as something else.

Named(apt) == Empty \notin {apt.date, apt.time, apt.contactee}

\* What is no page of the server, and a request without a field that an add or a delete
\* needs.
Bad     == [op |-> "bad"]
Lacking == [op |-> "lacking"]

\* No page of the server, or a field is missing that an add or a delete needs.
Refused(r) ==
  \/ r.op \in {"bad", "lacking"}
  \/ r.op = "add" /\ ~Named(r.apt)
  \/ r.op = "delete" /\ r.date = Empty

Blank(apt, names) == [f \in DOMAIN apt |-> IF f \in names THEN Empty ELSE apt[f]]

\* What is read of a form that the client leaves in the middle.  The page sends an add in
\* parts, which count when they are whole, and a delete as one text, of which the last
\* field may be cut.
Parts(r) ==
  LET cut(x) == {t \in Text : <<t, x>> \in Cut}
  IN  CASE r.op = "add" ->
             {[r EXCEPT !.apt = Blank(r.apt, names)] :
                names \in {DOMAIN r.apt, {"time", "contactee", "location", "description"},
                           {"contactee", "location", "description"}, {"location", "description"},
                           {"description"}, {}}}
        [] r.op = "delete" ->
             {[r EXCEPT !.date = t, !.time = Empty, !.contactee = Empty] : t \in cut(r.date)}
               \cup {[r EXCEPT !.time = t, !.contactee = Empty] : t \in cut(r.time)}
               \cup {[r EXCEPT !.contactee = t] : t \in cut(r.contactee)}
        [] OTHER -> {}

\* All that can be read of a request which is not all there.
CutShort(r) == {IF Refused(q) THEN Lacking ELSE q : q \in Parts(r)} \cup {Bad}


HandlerPcs == {"new", "backlog", "reading", "waiting", "inside", "open", "write",
               "render", "send", "done", "unsent", "lost"}

\* Every variable has its type.
TypeOK ==
  /\ running \in BOOLEAN /\ listening \in BOOLEAN /\ waker \in BOOLEAN
  /\ main \in {"down", "loop", "enter", "accept", "returned"}
  /\ stopper \in {"stdin", "close", "open", "write", "free", "connect", "done"}
  /\ h \in [Clients -> [pc : HandlerPcs,
                         req : Requests \cup {NoRequest} \cup UNION {CutShort(r) : r \in Requests}]]
  /\ lock \in Clients \cup {NoClient}
  /\ db \in {"live", "deleted"}
  /\ days \in Seq(Day)
  /\ nextId \in Nat
  /\ page \subseteq Line
  /\ resp \in [Clients -> SUBSET Line]
  /\ file \in Seq(Line)
  /\ behind \in BOOLEAN

Init ==
  /\ running = FALSE /\ main = "down" /\ stopper = "stdin"
  /\ listening = FALSE /\ waker = FALSE
  /\ h = [c \in Clients |-> [pc |-> "new", req |-> NoRequest]]
  /\ lock = NoClient /\ db = "deleted"
  /\ days = <<>> /\ nextId = 1 /\ page = {}
  /\ resp = [c \in Clients |-> {}]
  /\ file = InitialFile /\ behind = FALSE

alive == main # "down"

-----------------------------------------------------------------------------
\* The end of the process, by main returning or by a signal: threads and memory go.
Die ==
  /\ main' = "down"
  /\ running' = FALSE /\ listening' = FALSE /\ waker' = FALSE
  /\ h' = [c \in Clients |-> [h[c] EXCEPT !.pc = CASE @ \in {"new", "done", "lost", "unsent"} -> @
                                                  [] @ = "send" -> "unsent"
                                                  [] OTHER -> "lost"]]
  /\ lock' = NoClient /\ db' = "deleted"
  /\ days' = <<>> /\ nextId' = 1 /\ page' = {} /\ behind' = FALSE
  /\ UNCHANGED <<stopper, resp>>

Crash ==
  /\ alive /\ Crashes
  /\ UNCHANGED file
  /\ Die

Exit ==
  /\ main = "returned"
  /\ UNCHANGED file
  /\ Die

-----------------------------------------------------------------------------
\* main(): Server's constructor loads the database, then run() starts.
Load(lines) ==
  LET after[n \in 0 .. Len(lines)] ==
        IF n = 0 THEN <<>> ELSE Insert(after[n - 1], [id |-> n, apt |-> ParseLine(lines[n])])
  IN  after[Len(lines)]

\* Not after a "stop", which can leave a file that no order is promised of.
Start ==
  /\ ~alive /\ stopper = "stdin"
  /\ main' = "loop" /\ running' = TRUE /\ listening' = TRUE
  /\ db' = "live"
  /\ days' = Load(file)
  /\ nextId' = Len(file) + 1
  /\ UNCHANGED <<stopper, waker, h, lock, page, resp, saveVars>>

\* while (running)
MainLoop ==
  /\ main = "loop"
  /\ main' = IF running THEN "enter" ELSE "returned"
  /\ UNCHANGED <<running, stopper, listening, waker, h, lock, db, dataVars>>

\* The call of accept: EBADF once server_no is closed.
EnterAccept ==
  /\ main = "enter"
  /\ main' = IF listening THEN "accept" ELSE "returned"
  /\ UNCHANGED <<running, stopper, listening, waker, h, lock, db, dataVars>>

\* A thread blocked in accept keeps the socket open although stop() closed it.
Reachable == listening \/ main = "accept"

Connect(c, r) ==
  /\ alive /\ Reachable
  /\ h[c].pc = "new"
  /\ h' = [h EXCEPT ![c] = [pc |-> "backlog", req |-> r]]
  /\ UNCHANGED <<mainVars, lock, db, dataVars>>

Accept(c) ==
  /\ main = "accept"
  /\ h[c].pc = "backlog"
  /\ main' = "loop"
  /\ h' = [h EXCEPT ![c].pc = "reading"]
  /\ UNCHANGED <<running, stopper, listening, waker, lock, db, dataVars>>

\* The self-connection gets a thread too: it reads nothing, answers 400 and ends.
AcceptWaker ==
  /\ main = "accept" /\ waker
  /\ main' = "loop"
  /\ waker' = FALSE
  /\ UNCHANGED <<running, stopper, listening, h, lock, db, dataVars>>

-----------------------------------------------------------------------------
\* handle_client.

Goto(c, pc) == h' = [h EXCEPT ![c].pc = pc]

WasCut(c) == h[c].req \notin Requests \cup {NoRequest}

\* read_request returns the request, or what came of it before the client went away.
ReadRequest(c) ==
  /\ h[c].pc = "reading"
  /\ \E r \in {h[c].req} \cup
            (IF Cardinality({d \in Clients : WasCut(d)}) < MaxCuts THEN CutShort(h[c].req) ELSE {}) :
       h' = [h EXCEPT ![c] = [pc |-> "waiting", req |-> r]]
  /\ UNCHANGED <<mainVars, lock, db, dataVars>>

\* A mutant of Lock: no lock_guard.
LockNothing(c) ==
  /\ h[c].pc = "waiting"
  /\ lock' = c
  /\ Goto(c, "inside")
  /\ UNCHANGED <<mainVars, db, dataVars>>

\* process_request: lock_guard
Lock(c) ==
  /\ h[c].pc = "waiting" /\ lock = NoClient
  /\ lock' = c
  /\ Goto(c, "inside")
  /\ UNCHANGED <<mainVars, db, dataVars>>

\* A mutant of Unlock: the lock is kept.
KeepLock(c) == UNCHANGED lock /\ Goto(c, "send")

\* The lock is released as process_request returns the response.
Unlock(c) == lock' = NoClient /\ Goto(c, "send")

\* 400 and 405 clear the page; the others redirect.
Refuse(c) ==
  /\ h[c].pc = "inside" /\ Refused(h[c].req)
  /\ page' = IF h[c].req.op = "bad" THEN {} ELSE page
  /\ Unlock(c)
  /\ UNCHANGED <<mainVars, db, days, nextId, resp, saveVars>>

AddAppointment(c) ==
  /\ h[c].pc = "inside" /\ db = "live"
  /\ h[c].req.op = "add" /\ ~Refused(h[c].req)
  /\ days' = Insert(days, [id |-> nextId, apt |-> h[c].req.apt])
  /\ nextId' = nextId + 1
  /\ Goto(c, "open")
  /\ UNCHANGED <<mainVars, lock, db, page, resp, saveVars>>

\* The loop of deleteAppointment over its searchResults.
DeleteAll(objs, hits) ==
  LET visit(o) == [left \in Seq(Object) |->
                     IF o \in hits THEN DeleteAt(left, GetIndex(left, o.apt)) ELSE left]
      after[n \in 0 .. Len(objs)] == IF n = 0 THEN objs ELSE visit(objs[n])[after[n - 1]]
  IN  after[Len(objs)]

\* A mutant of DeleteAppointment: saveToFile is not called after it.
DeleteWithoutSave(c) ==
  /\ h[c].pc = "inside" /\ db = "live"
  /\ h[c].req.op = "delete" /\ ~Refused(h[c].req)
  /\ LET r == h[c].req
         D == DaysOf(days, r.date)
     IN  days' = IF D = {} \/ r.contactee = Empty THEN days
                 ELSE LET objs == days[First(D)].appointments
                      IN  WithAppointments(days, First(D),
                            DeleteAll(objs, Selected(objs, r.time, r.contactee)))
  /\ Unlock(c)
  /\ UNCHANGED <<mainVars, db, nextId, page, resp, saveVars>>

DeleteAppointment(c) ==
  /\ h[c].pc = "inside" /\ db = "live"
  /\ h[c].req.op = "delete" /\ ~Refused(h[c].req)
  /\ LET r == h[c].req
         D == DaysOf(days, r.date)
     IN  days' = IF D = {} \/ r.contactee = Empty THEN days
                 ELSE LET objs == days[First(D)].appointments
                      IN  WithAppointments(days, First(D),
                            DeleteAll(objs, Selected(objs, r.time, r.contactee)))
  /\ Goto(c, "open")
  /\ UNCHANGED <<mainVars, lock, db, nextId, page, resp, saveVars>>

\* saveToFile: opening the file truncates it.
OpenFile(c) ==
  /\ h[c].pc = "open" /\ db = "live"
  /\ file' = <<>> /\ behind' = FALSE
  /\ Goto(c, "write")
  /\ UNCHANGED <<mainVars, lock, db, days, nextId, page, resp>>

\* The file does not open, as when the connections have taken all descriptors: saveToFile
\* says so on the terminal and returns, and the client is redirected as after a save.
SaveFails(c) ==
  /\ h[c].pc = "open" /\ db = "live" /\ Fails
  /\ behind' = TRUE
  /\ Unlock(c)
  /\ UNCHANGED <<mainVars, db, days, nextId, page, resp, file>>

\* What a stream writes from the start of a file that another stream may have
\* written to as well.
Overlay(lines, old) == lines \o SubSeq(old, Len(lines) + 1, Len(old))

\* A part reaches the disk when the stream's buffer fills up.
WritePart(c) ==
  /\ h[c].pc = "write" /\ db = "live"
  /\ \E n \in 1 .. Len(Lines(days)) : file' = Overlay(SubSeq(Lines(days), 1, n), file)
  /\ UNCHANGED <<mainVars, h, lock, db, days, nextId, page, resp, behind>>

WriteAll(c) ==
  /\ h[c].pc = "write" /\ db = "live"
  /\ file' = Overlay(Lines(days), file)
  /\ Unlock(c)
  /\ UNCHANGED <<mainVars, db, days, nextId, page, resp, behind>>

\* A page of all days, of the results of a search or of a date: the shared page
\* is filled first and the response copied from it.
Search(c) ==
  /\ h[c].pc = "inside" /\ db = "live"
  /\ h[c].req.op = "search"
  /\ page' = {FileLine(o.apt) : o \in ToSet(DbSearch(days, h[c].req.keyword))}
  /\ Goto(c, "render")
  /\ UNCHANGED <<mainVars, lock, db, days, nextId, resp, saveVars>>

Render(c) ==
  /\ h[c].pc = "render"
  /\ resp' = [resp EXCEPT ![c] = page]
  /\ Unlock(c)
  /\ UNCHANGED <<mainVars, db, days, nextId, page, saveVars>>

\* A mutant of Send: a response that could not be sent whole is sent again.
SendAgain(c) ==
  /\ h[c].pc = "send"
  /\ Goto(c, "resend")
  /\ UNCHANGED <<mainVars, lock, db, dataVars>>

Send(c) ==
  /\ h[c].pc = "send"
  /\ Goto(c, "done")
  /\ UNCHANGED <<mainVars, lock, db, dataVars>>

\* A call on the deleted db: the process dies, saveToFile having opened its file or
\* not, or the call does nothing.
UseFreed(c) ==
  /\ db = "deleted"
  /\ \/ h[c].pc \in {"open", "write"}
     \/ h[c].pc = "inside" /\ ~Refused(h[c].req)
  /\ \/ /\ \/ UNCHANGED file
           \/ h[c].pc = "open" /\ file' = <<>>
        /\ Die
     \/ /\ Unlock(c)
        /\ UNCHANGED <<mainVars, db, dataVars>>

-----------------------------------------------------------------------------
\* The shutdown_listener thread: stop(), which deletes db without page_mutex, and
\* the connection to the server itself.

StopTyped ==
  /\ alive /\ stopper = "stdin" /\ Stops
  /\ running' = FALSE
  /\ stopper' = "close"
  /\ UNCHANGED <<main, listening, waker, h, lock, db, dataVars>>

StopClose ==
  /\ alive /\ stopper = "close"
  /\ listening' = FALSE
  /\ stopper' = "open"
  /\ UNCHANGED <<running, main, waker, h, lock, db, dataVars>>

\* ~Database saves before it frees, if the file opens.
StopOpen ==
  /\ alive /\ stopper = "open"
  /\ \/ /\ file' = <<>> /\ behind' = FALSE
        /\ stopper' = "write"
     \/ /\ Fails
        /\ behind' = TRUE /\ UNCHANGED file
        /\ stopper' = "free"
  /\ UNCHANGED <<running, main, listening, waker, h, lock, db, days,
                 nextId, page, resp>>

StopWrite ==
  /\ alive /\ stopper = "write"
  /\ file' = Overlay(Lines(days), file)
  /\ stopper' = "free"
  /\ UNCHANGED <<running, main, listening, waker, h, lock, db, days,
                 nextId, page, resp, behind>>

StopFree ==
  /\ alive /\ stopper = "free"
  /\ db' = "deleted"
  /\ days' = <<>>
  /\ stopper' = "connect"
  /\ UNCHANGED <<running, main, listening, waker, h, lock, nextId, page,
                 resp, saveVars>>

\* A mutant of StopConnect: stop() is all there is.
NoSelfConnect ==
  /\ alive /\ stopper = "connect"
  /\ stopper' = "done"
  /\ UNCHANGED <<running, main, listening, waker, h, lock, db, dataVars>>

StopConnect ==
  /\ alive /\ stopper = "connect"
  /\ waker' = Reachable
  /\ stopper' = "done"
  /\ UNCHANGED <<running, main, listening, h, lock, db, dataVars>>

-----------------------------------------------------------------------------
Main ==
  MainLoop \/ EnterAccept \/ (\E c \in Clients : Accept(c)) \/ AcceptWaker \/ Exit

Process(c) ==
  \/ Lock(c) \/ Refuse(c)
  \/ AddAppointment(c) \/ DeleteAppointment(c)
  \/ OpenFile(c) \/ SaveFails(c) \/ WriteAll(c)
  \/ Search(c) \/ Render(c) \/ UseFreed(c)

Stopping == StopClose \/ StopOpen \/ StopWrite \/ StopFree \/ StopConnect

Next ==
  \/ Main
  \/ \E c \in Clients :
       \/ \E r \in Requests : Connect(c, r)
       \/ ReadRequest(c) \/ Process(c) \/ WritePart(c) \/ Send(c)
  \/ StopTyped \/ Stopping
  \/ Crash \/ Start

\* Threads are scheduled; clients, the terminal and whoever starts the server are not.
Fairness ==
  /\ WF_vars(Main)
  /\ WF_vars(Stopping)
  /\ \A c \in Clients : WF_vars(Process(c))

Spec == Init /\ [][Next]_vars /\ Fairness

-----------------------------------------------------------------------------
\* What the server answers from, and what is there after its death: a save is counted from
\* the moment it has truncated the file, although only a part of it may be left.
Held == IF db = "live" THEN Lines(days) ELSE file

Saving == lock # NoClient /\ h[lock].pc = "write"

Lasting == IF Saving THEN Lines(days) ELSE file

Progress(pc) ==
  CASE pc = "new" -> "idle"
    [] pc \in {"backlog", "reading", "waiting", "inside"} -> "asked"
    [] pc = "open" -> "changed"
    [] pc = "write" -> "saving"
    [] pc = "render" -> "seen"
    [] pc = "lost" -> "lost"
    [] OTHER -> "kept"

Store == INSTANCE BookingStore WITH
  store <- Held,
  lasting <- Lasting,
  up <- alive,
  stopping <- stopper # "stdin",
  request <- [c \in Clients |-> IF h[c].req = Lacking THEN Bad ELSE h[c].req],
  status <- [c \in Clients |-> Progress(h[c].pc)],
  answer <- [c \in Clients |-> IF h[c].pc = "render" THEN page ELSE resp[c]]

\* The server implements the store of BookingStore: requests take effect one at a time, and
\* what a death leaves is the last save that could open the file, or its beginning.
ImplementsStore == Store!Spec

\* With page_mutex free and no stop under way, database.txt holds what db does, unless
\* the last save could not open it: a save that can catches up with all that could not.
FileMatchesDays ==
  alive /\ lock = NoClient /\ stopper \in {"stdin", "close"} /\ ~behind => file = Lines(days)

\* stop() ends the process whatever main and the handlers are doing, although
\* closing server_no does not wake a thread that is blocked in accept on it.
StopEnds == (stopper # "stdin" /\ alive) ~> ~alive

\* A request that has been read is answered, unless the process dies first.
Answered == \A c \in Clients : (h[c].pc = "waiting") ~> (h[c].pc \in {"send", "done", "unsent", "lost"})

\* "stop" shuts the server down (main.cpp:35): what was answered before the process
\* ended is in the file.  No client deletes anything here.
CleanStop ==
  ~alive /\ stopper # "stdin" =>
    \A c \in Clients : h[c].pc = "done" /\ h[c].req.op = "add" => FileLine(h[c].req.apt) \in ToSet(file)
=============================================================================
