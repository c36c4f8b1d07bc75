---------------------------- MODULE TelnetServer ----------------------------
(***************************************************************************)
(* The telnet appointment server (Prac2): the accept loop of main, one     *)
(* detached handler thread per connection, the thread that stops the       *)
(* server, and the Database that the handlers use without a lock.          *)
(*                                                                         *)
(* Sockets are modelled as the kernel gives them: a descriptor is the      *)
(* lowest free number, closing it frees the number for the next accept, a  *)
(* blocked recv keeps the connection it was called on, and a send on a     *)
(* connection that is reset or shut down raises SIGPIPE, which nothing     *)
(* handles.  Lines stand for the bytes readLine assembles.                 *)
(***************************************************************************)
EXTENDS Appointments

CONSTANTS
  Conns,       \* the connections users make
  Leavers,     \* bound: those whose user may leave without "exit"
  Commands,    \* bound: the commands users type
  Stops,       \* bound: whether "stop" is ever typed
  Fds,         \* descriptor numbers accept can return
  Bookings,    \* the appointments users add; every one passes the validation
  MaxObjects,  \* bound: appointments added
  NoConn

ASSUME TelnetAssumption ==
  /\ Fds \subseteq Nat
  /\ NoConn \notin Conns /\ Leavers \subseteq Conns
  /\ Commands \subseteq {"add", "view", "search", "delete"}
  /\ Stops \in BOOLEAN
  /\ Bookings \subseteq Appointment
  /\ MaxObjects \in Nat

VARIABLES
  alive,      \* the process runs
  running,    \* server::running
  main,       \* the main thread: start(), then ~server, then exit
  stopper,    \* the thread that reads "stop" and calls stop()
  closing,    \* the registered descriptors stop() has still to close
  listening,  \* server_no is a listening socket
  client,     \* server::client, the registry of descriptors
  mutex,      \* clients_mutex is held by stop(); a handler holds it for one step
  sock,       \* the descriptor table: the connection behind each number
  peer,       \* the user's end of a connection
  shut,       \* the connections that were shut down from this end
  h,          \* the handler of each connection: pc, descriptor fd, the command
              \* cmd, and the connection its recv is blocked on
  days,       \* Database::days
  nextId,     \* the address the next new Appointment gets
  use,        \* a handler's call into db: the day or the objects it found
  dbAlive,    \* db has not been deleted
  raced       \* history: two handlers were inside db at once, one of them writing, or
              \* one was while main deleted it or after

vars == <<alive, running, main, stopper, closing, listening, client, mutex, sock,
          peer, shut, h, days, nextId, use, dbAlive, raced>>

sockVars == <<sock, peer, shut>>
stopVars == <<running, stopper, closing, listening, mutex>>
dbVars   == <<days, nextId, use, raced>>

NoUse     == [day |-> 0, objs |-> {}]
NoHandler == [pc |-> "none", fd |-> 0, cmd |-> "none", on |-> NoConn]

Blocked == {"command", "answer", "pause"}   \* inside readLine

HandlerPcs == {"none", "register", "greet", "check", "prompt", "command", "ask", "answer",
               "enter", "leave", "after", "pause", "bye", "erase", "close", "done"}

\* Every variable has its type; no handler holds a number accept did not return.
TypeOK ==
  /\ alive \in BOOLEAN /\ running \in BOOLEAN /\ listening \in BOOLEAN
  /\ dbAlive \in BOOLEAN /\ raced \in BOOLEAN /\ mutex \in BOOLEAN
  /\ main \in {"loop", "accept", "returned", "destroyed", "exited"}
  /\ stopper \in {"stdin", "lock", "clients", "shut", "listener", "done"}
  /\ closing \subseteq Fds /\ client \subseteq Fds
  /\ sock \in [Fds -> Conns \cup {NoConn}]
  /\ peer \in [Conns -> {"new", "open", "closed", "reset"}]
  /\ shut \subseteq Conns
  /\ h \in [Conns -> [pc : HandlerPcs, fd : Nat, cmd : Commands \cup {"none"},
                      on : Conns \cup {NoConn}]]
  /\ days \in Seq(Day)
  /\ nextId \in 1 .. MaxObjects + 1
  /\ use \in [Conns -> [day : Nat, objs : SUBSET Object]]

Init ==
  /\ alive = TRUE /\ running = TRUE /\ main = "loop" /\ stopper = "stdin"
  /\ closing = {} /\ listening = TRUE /\ client = {} /\ mutex = FALSE
  /\ sock = [fd \in Fds |-> NoConn]
  /\ peer = [c \in Conns |-> "new"]
  /\ shut = {}
  /\ h = [c \in Conns |-> NoHandler]
  /\ days = <<>> /\ nextId = 1
  /\ use = [c \in Conns |-> NoUse]
  /\ dbAlive = TRUE /\ raced = FALSE

-----------------------------------------------------------------------------
\* The users.

Connect(c) ==
  /\ alive /\ listening
  /\ peer[c] = "new"
  /\ peer' = [peer EXCEPT ![c] = "open"]
  /\ UNCHANGED <<alive, main, stopVars, client, sock, shut, h, dbVars, dbAlive>>

\* A user leaves without "exit": the telnet client closes its end.
Hangup(c) ==
  /\ alive /\ c \in Leavers
  /\ peer[c] = "open"
  /\ peer' = [peer EXCEPT ![c] = "closed"]
  /\ UNCHANGED <<alive, main, stopVars, client, sock, shut, h, dbVars, dbAlive>>

\* One or more sends to connection k: nothing when the descriptor is closed; a
\* connection the user has left answers with a reset, at once or later; SIGPIPE
\* ends the process on a connection that is reset or shut down.
SendTo(k) ==
  IF k \in shut THEN alive' = FALSE /\ UNCHANGED peer
  ELSE IF k # NoConn /\ peer[k] \in {"closed", "reset"}
  THEN \/ /\ peer[k] = "closed"
          /\ UNCHANGED alive
          /\ \E p \in {"closed", "reset"} : peer' = [peer EXCEPT ![k] = p]
       \/ alive' = FALSE /\ UNCHANGED peer
  ELSE UNCHANGED <<alive, peer>>

-----------------------------------------------------------------------------
\* The main thread.

MainLoop ==
  /\ alive /\ main = "loop"
  /\ main' = IF running THEN "accept" ELSE "returned"
  /\ UNCHANGED <<alive, stopVars, client, sockVars, h, dbVars, dbAlive>>

FreeFds == {fd \in Fds : sock[fd] = NoConn}

\* accept, the telnet negotiation and the new thread.
Accept(c) ==
  /\ alive /\ main = "accept" /\ listening
  /\ peer[c] # "new" /\ h[c].pc = "none"
  /\ FreeFds # {}
  /\ SendTo(c)
  /\ sock' = [sock EXCEPT ![First(FreeFds)] = c]
  /\ h' = [h EXCEPT ![c] = [@ EXCEPT !.pc = "register", !.fd = First(FreeFds)]]
  /\ main' = "loop"
  /\ UNCHANGED <<stopVars, client, shut, dbVars, dbAlive>>

\* A mutant of AcceptFails: the result of accept is not tested.
AcceptUntested ==
  /\ alive /\ main = "accept" /\ ~listening
  /\ \E c \in Conns :
       /\ h[c].pc = "none"
       /\ h' = [h EXCEPT ![c] = [NoHandler EXCEPT !.pc = "register", !.fd = -1]]
  /\ main' = "loop"
  /\ UNCHANGED <<alive, stopVars, client, sockVars, dbVars, dbAlive>>

\* stop() shut the listening socket down: accept fails and running is false.
AcceptFails ==
  /\ alive /\ main = "accept" /\ ~listening
  /\ main' = "returned"
  /\ UNCHANGED <<alive, stopVars, client, sockVars, h, dbVars, dbAlive>>

\* The handlers in a call of db.
Inside == {c \in Conns : h[c].pc = "leave"}

\* The end of main: ~server deletes db with its days and their appointments, whoever is
\* using them, then the process exits with every thread.
Destroy ==
  /\ alive /\ main = "returned"
  /\ main' = "destroyed"
  /\ dbAlive' = FALSE /\ days' = <<>>
  /\ raced' = (raced \/ Inside # {})
  /\ UNCHANGED <<alive, stopVars, client, sockVars, h, nextId, use>>

Exit ==
  /\ alive /\ main = "destroyed"
  /\ main' = "exited"
  /\ alive' = FALSE
  /\ UNCHANGED <<stopVars, client, sockVars, h, dbVars, dbAlive>>

-----------------------------------------------------------------------------
\* stop(), called by the thread that reads the terminal.

StopTyped ==
  /\ alive /\ stopper = "stdin" /\ Stops
  /\ running' = FALSE
  /\ stopper' = "lock"
  /\ UNCHANGED <<alive, main, closing, listening, mutex, client, sockVars, h, dbVars, dbAlive>>

StopLock ==
  /\ alive /\ stopper = "lock"
  /\ mutex' = TRUE
  /\ closing' = client
  /\ stopper' = "clients"
  /\ UNCHANGED <<alive, running, main, listening, client, sockVars, h, dbVars, dbAlive>>

\* A mutant of StopShutdown: stop() only closes.
StopWithoutShutdown ==
  /\ alive /\ stopper = "clients" /\ closing # {}
  /\ stopper' = "shut"
  /\ UNCHANGED <<alive, running, main, closing, listening, mutex, client, sockVars, h,
                 dbVars, dbAlive>>

\* shutdown(*it), and close(*it) in a step of its own: a handler can run between.
StopShutdown ==
  /\ alive /\ stopper = "clients" /\ closing # {}
  /\ shut' = shut \cup ({sock[First(closing)]} \ {NoConn})
  /\ stopper' = "shut"
  /\ UNCHANGED <<alive, running, main, closing, listening, mutex, client, sock, peer, h,
                 dbVars, dbAlive>>

StopClose ==
  /\ alive /\ stopper = "shut"
  /\ sock' = [sock EXCEPT ![First(closing)] = NoConn]
  /\ closing' = closing \ {First(closing)}
  /\ stopper' = "clients"
  /\ UNCHANGED <<alive, running, main, listening, mutex, client, peer, shut, h, dbVars, dbAlive>>

StopClear ==
  /\ alive /\ stopper = "clients" /\ closing = {}
  /\ client' = {}
  /\ mutex' = FALSE
  /\ stopper' = "listener"
  /\ UNCHANGED <<alive, running, main, closing, listening, sockVars, h, dbVars, dbAlive>>

\* A mutant of StopListening: the listening socket is left alone.
StopClientsOnly ==
  /\ alive /\ stopper = "listener"
  /\ stopper' = "done"
  /\ UNCHANGED <<alive, running, main, closing, listening, mutex, client, sockVars, h, dbVars, dbAlive>>

StopListening ==
  /\ alive /\ stopper = "listener"
  /\ listening' = FALSE
  /\ stopper' = "done"
  /\ UNCHANGED <<alive, running, main, closing, mutex, client, sockVars, h, dbVars, dbAlive>>

-----------------------------------------------------------------------------
\* The handlers.

Goto(c, pc) == h' = [h EXCEPT ![c].pc = pc, ![c].on = NoConn]

Send(c) == SendTo(sock[h[c].fd])

\* A send after which the handler goes on at pc; recv starts on the connection
\* that is behind the descriptor by then.
SendThen(c, from, to) ==
  /\ alive /\ h[c].pc = from
  /\ Send(c)
  /\ h' = [h EXCEPT ![c].pc = to,
                    ![c].on = IF to \in Blocked THEN sock[h[c].fd] ELSE NoConn]
  /\ UNCHANGED <<main, stopVars, client, sock, shut, dbVars, dbAlive>>

Register(c) ==
  /\ alive /\ h[c].pc = "register" /\ ~mutex
  /\ client' = client \cup {h[c].fd}
  /\ Goto(c, "greet")
  /\ UNCHANGED <<alive, main, stopVars, sockVars, dbVars, dbAlive>>

\* while (running)
Check(c) ==
  /\ alive /\ h[c].pc = "check"
  /\ h' = [h EXCEPT ![c] = [NoHandler EXCEPT !.pc = IF running THEN "prompt" ELSE "erase",
                                             !.fd = h[c].fd]]
  /\ UNCHANGED <<alive, main, stopVars, client, sockVars, dbVars, dbAlive>>

\* readLine returns a line that was typed, after echoing it; what the handler sends
\* before it goes on to pc is part of the step.
Typed(c, at, pc) ==
  /\ alive /\ h[c].pc = at
  /\ h[c].on # NoConn
  /\ Send(c)
  /\ Goto(c, pc)
  /\ UNCHANGED <<main, stopVars, client, sock, shut, dbVars, dbAlive>>

\* "exit"; "help", a command the server does not know, an empty line or ESC.
ReadExit(c)  == Typed(c, "command", "bye")
ReadOther(c) == Typed(c, "command", "check")

\* A command; all but "view" ask for something first.
ReadCommand(c, cmd) ==
  /\ alive /\ h[c].pc = "command"
  /\ h[c].on # NoConn
  /\ Send(c)
  /\ h' = [h EXCEPT ![c].cmd = cmd, ![c].pc = IF cmd = "view" THEN "enter" ELSE "ask",
                    ![c].on = NoConn]
  /\ UNCHANGED <<main, stopVars, client, sock, shut, dbVars, dbAlive>>

\* An answer: there is another prompt, or it was the last one and the answers are
\* valid, or ESC or a refusal ends the command.  The prompts are not counted.
ReadAnswer(c) == \E pc \in {"ask", "enter", "check"} : Typed(c, "answer", pc)

ReadEnter(c) == Typed(c, "pause", "check")

\* recv returns 0 or -1: readLine takes that for an empty line, which is no command
\* and no contactee, but a location, a description or a search.
ReadFails(c) ==
  /\ alive /\ h[c].pc \in Blocked
  /\ h[c].on \in {NoConn} \cup shut \cup {k \in Conns : peer[k] # "open"}
  /\ IF h[c].pc # "answer"
     THEN Goto(c, "check") /\ UNCHANGED <<alive, peer>>
     ELSE \/ Send(c) /\ Goto(c, "check")
          \/ Goto(c, "ask") /\ UNCHANGED <<alive, peer>>
          \/ h[c].cmd # "delete" /\ Goto(c, "enter") /\ UNCHANGED <<alive, peer>>
  /\ UNCHANGED <<main, stopVars, client, sock, shut, dbVars, dbAlive>>

-----------------------------------------------------------------------------
\* The calls of db, without a lock: each reads the vectors in one step and uses
\* what it found there in another.

Writes(cmd) == cmd \in {"add", "delete"}

EnterDb(c) ==
  /\ alive /\ h[c].pc = "enter"
  /\ Goto(c, "leave")
  /\ raced' = (raced \/ ~dbAlive \/ \E k \in Inside : Writes(h[c].cmd) \/ Writes(h[k].cmd))
  /\ UNCHANGED <<alive, main, stopVars, client, sockVars, days, dbAlive>>

\* A mutant of FindDay: the loop ends one day too early.
FindDayButLast(date) ==
  LET D == DaysOf(days, date) \ {Len(days)}
  IN  IF D = {} THEN 0 ELSE First(D)

FindDay(date) == IF DaysOf(days, date) = {} THEN 0 ELSE First(DaysOf(days, date))

BeginAdd(c, b) ==
  /\ h[c].cmd = "add" /\ EnterDb(c)
  /\ nextId <= MaxObjects
  /\ nextId' = nextId + 1
  /\ use' = [use EXCEPT ![c] = [day |-> FindDay(b.date), objs |-> {[id |-> nextId, apt |-> b]}]]

\* The date, time and contactee of a booking; the validation insists on a time.
BeginDelete(c, b) ==
  /\ h[c].cmd = "delete" /\ EnterDb(c)
  /\ UNCHANGED nextId
  /\ LET d == FindDay(b.date)
     IN  use' = [use EXCEPT ![c] =
           [day |-> d, objs |-> IF d = 0 THEN {}
                               ELSE Selected(days[d].appointments, b.time, b.contactee)]]

\* A search takes any text; printAll goes through every day, as a search for nothing.
BeginRead(c, k) ==
  /\ h[c].cmd = "search" \/ (h[c].cmd = "view" /\ k = Empty)
  /\ EnterDb(c)
  /\ UNCHANGED nextId
  /\ use' = [use EXCEPT ![c].objs = ToSet(DbSearch(days, k))]

LeaveDb(c) ==
  /\ alive /\ h[c].pc = "leave"
  /\ use' = [use EXCEPT ![c] = NoUse]
  /\ UNCHANGED <<main, stopVars, client, sock, shut, nextId, raced, dbAlive>>

EndAdd(c) ==
  /\ h[c].cmd = "add" /\ dbAlive /\ LeaveDb(c)
  /\ \E o \in use[c].objs :
       days' = IF use[c].day = 0
               THEN Append(days, [date |-> o.apt.date, appointments |-> <<o>>])
               ELSE WithAppointments(days, use[c].day,
                                     Append(days[use[c].day].appointments, o))
  /\ Goto(c, "check")
  /\ UNCHANGED <<alive, peer>>

EndDelete(c) ==
  /\ h[c].cmd = "delete" /\ dbAlive /\ LeaveDb(c)
  /\ IF use[c].objs = {} THEN UNCHANGED days
     ELSE \E o \in use[c].objs :
            LET objs == days[use[c].day].appointments
            IN  days' = WithAppointments(days, use[c].day,
                                         DeleteAt(objs, GetIndex(objs, o.apt)))
  /\ Goto(c, "check")
  /\ UNCHANGED <<alive, peer>>

\* A search sends what its pointers lead to; printAll has copied the text.
EndRead(c) ==
  /\ h[c].cmd \in {"search", "view"} /\ LeaveDb(c)
  /\ UNCHANGED days
  /\ IF h[c].cmd = "search"
     THEN Send(c) /\ Goto(c, "check")
     ELSE Goto(c, "after") /\ UNCHANGED <<alive, peer>>

\* What the missing lock allows beyond the orders of the steps: a push_back that is
\* lost beside another change, and the death of the process, which following a
\* pointer into freed memory can bring too.  Into a database that main deleted a call
\* writes nothing that anybody reads.
Overlap(c) == \E k \in Inside \ {c} : Writes(h[c].cmd) \/ Writes(h[k].cmd)

Live == UNION {ToSet(days[d].appointments) : d \in DOMAIN days}

Dangling(c) ==
  \/ ~dbAlive
  \/ h[c].cmd # "add" /\ ~(use[c].objs \subseteq Live)

Torn(c) ==
  /\ LeaveDb(c)
  /\ Overlap(c) \/ Dangling(c)
  /\ \/ alive' = FALSE
     \/ UNCHANGED alive /\ ~dbAlive
     \/ UNCHANGED alive /\ h[c].cmd = "add" /\ \E k \in Inside \ {c} : Writes(h[k].cmd)
  /\ Goto(c, "check")
  /\ UNCHANGED <<days, peer>>

-----------------------------------------------------------------------------
\* The end of handleClient.

\* A mutant of Erase: the descriptor stays registered.
EraseNothing(c) ==
  /\ alive /\ h[c].pc = "erase" /\ ~mutex
  /\ Goto(c, "close")
  /\ UNCHANGED <<alive, main, stopVars, client, sockVars, dbVars, dbAlive>>

Erase(c) ==
  /\ alive /\ h[c].pc = "erase" /\ ~mutex
  /\ client' = client \ {h[c].fd}
  /\ Goto(c, "close")
  /\ UNCHANGED <<alive, main, stopVars, sockVars, dbVars, dbAlive>>

\* shutdown and close of the number, whatever is behind it by now.
Close(c) ==
  /\ alive /\ h[c].pc = "close"
  /\ shut' = shut \cup ({sock[h[c].fd]} \ {NoConn})
  /\ sock' = [sock EXCEPT ![h[c].fd] = NoConn]
  /\ h' = [h EXCEPT ![c] = [NoHandler EXCEPT !.pc = "done"]]
  /\ UNCHANGED <<alive, main, stopVars, client, peer, dbVars, dbAlive>>

-----------------------------------------------------------------------------
\* A mutant of Sends: "exit" does not leave the loop.
SendsWithoutBreak(c) ==
  \/ SendThen(c, "greet", "check")
  \/ SendThen(c, "prompt", "command")
  \/ SendThen(c, "ask", "answer")
  \/ SendThen(c, "after", "pause")
  \/ SendThen(c, "bye", "check")

Sends(c) ==
  \/ SendThen(c, "greet", "check")
  \/ SendThen(c, "prompt", "command")
  \/ SendThen(c, "ask", "answer")
  \/ SendThen(c, "after", "pause")
  \/ SendThen(c, "bye", "erase")

EndUse(c) == EndAdd(c) \/ EndDelete(c) \/ EndRead(c) \/ Torn(c)

Begin(c) ==
  \/ \E b \in Bookings : BeginAdd(c, b) \/ BeginDelete(c, b)
  \/ \E k \in Text : BeginRead(c, k)

\* What a handler does without waiting for its user.
Handler(c) ==
  Register(c) \/ Check(c) \/ Sends(c) \/ ReadFails(c) \/ Begin(c) \/ EndUse(c)
    \/ Erase(c) \/ Close(c)

User(c) ==
  \/ Connect(c)
  \/ Hangup(c)
  \/ \E cmd \in Commands : ReadCommand(c, cmd)
  \/ ReadExit(c)
  \/ ReadOther(c)
  \/ ReadAnswer(c)
  \/ ReadEnter(c)

Main == MainLoop \/ (\E c \in Conns : Accept(c)) \/ AcceptFails \/ Destroy \/ Exit

Stopping == StopLock \/ StopShutdown \/ StopClose \/ StopClear \/ StopListening

Next ==
  \/ \E c \in Conns : Handler(c) \/ User(c)
  \/ Main
  \/ StopTyped
  \/ Stopping

\* Threads are scheduled; users and the terminal owe the server nothing.
Fairness ==
  /\ WF_vars(Main)
  /\ WF_vars(Stopping)
  /\ \A c \in Conns : WF_vars(Handler(c))

Spec == Init /\ [][Next]_vars /\ Fairness

-----------------------------------------------------------------------------
Registered == {"greet", "check", "prompt", "command", "ask", "answer", "enter",
               "leave", "after", "pause", "bye", "erase"}

\* While the server runs, the registry stop() works through holds the descriptor
\* of exactly the handlers between their insert and their erase, and each of those
\* numbers is still that handler's own connection.
RegistryIsExact ==
  running =>
    /\ client = {h[c].fd : c \in {k \in Conns : h[k].pc \in Registered}}
    /\ \A c \in Conns : h[c].pc \in Registered \cup {"register", "close"} => sock[h[c].fd] = c

\* Once stop() has been through the registry no handler waits for a user who may
\* stay silent: what it reads from is shut down, or about to be by its own handler.
NoWaitAfterStop ==
  stopper \in {"listener", "done"} =>
    \A c \in Conns : h[c].pc \in Blocked /\ h[c].on # NoConn =>
      h[c].on \in shut \/ h[h[c].on].pc \in {"register", "greet", "check", "erase", "close"}

\* No date has two days: else a delete, which stops at the first, misses bookings.
OneDayPerDate ==
  \A d, e \in DOMAIN days : days[d].date = days[e].date => d = e

\* What can break db is a call that overlaps another, one of them writing, or main's
\* deleting it: until one of these happens every date has one day and no pointer a search
\* or a delete holds is freed.
SoundUnlessRaced ==
  ~raced =>
    /\ OneDayPerDate
    /\ \A c \in Conns : h[c].pc = "leave" /\ h[c].cmd # "add" => use[c].objs \subseteq Live

\* After "stop" nobody uses a database that main has deleted (README.md: the server "watches
\* it's own terminal for the input 'stop' so that it can cleanly shutdown").
CleanShutdown == ~dbAlive => Inside = {}

\* "stop" ends the server, whatever the users do.
StopEndsServer == (stopper # "stdin") ~> ~alive

\* A user who typed "exit" is taken off the registry and the connection is closed.
ExitCloses ==
  \A c \in Conns : (h[c].pc = "bye") ~> (h[c].pc = "done" \/ ~alive)
=============================================================================
