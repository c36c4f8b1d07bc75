----------------------------- MODULE LdapClient -----------------------------
(***************************************************************************)
(* The LDAP client (Prac5): a menu on one connection to a directory of     *)
(* planes and their speeds.  The client sends one request at a time and    *)
(* reads answers until it takes one for the last; it compares no message   *)
(* id.  The server, other clients of the directory and the user are the    *)
(* environment: the server may refuse any request and close at any time.   *)
(* The bytes of requests and answers are in LdapWire.                      *)
(***************************************************************************)
EXTENDS Integers, Sequences, FiniteSets, SequencesExt

CONSTANTS
  Planes,    \* the names a user can type
  Speeds,    \* the speeds a user can type
  Empty,     \* the empty text: a name that could not be read, or no such attribute
  NoEntry,   \* the value of a plane that is not in the directory
  Byte       \* the number of values of a byte, 256 in the code

ASSUME LdapAssumption ==
  /\ IsFiniteSet(Planes)
  /\ Empty \notin Planes \cup Speeds
  /\ NoEntry \notin Speeds \cup {Empty}
  /\ Byte \in Nat /\ Byte > 3

VARIABLES
  pc,             \* where main is
  cin,            \* whether std::cin still reads
  choice,         \* main's choice
  nextMessageId,  \* the byte of it that is written
  command,        \* the request last sent
  combined,       \* combinedResponse
  report,         \* what main printed last
  link,           \* "open", "closed" by the server, "reset", which the next call
                  \* reports, or "broken"
  sent,           \* the request is on its way to the server
  responses,      \* the answers on their way to the client
  served          \* what the server did for the command (history)

main   == <<pc, cin, choice, nextMessageId, command, combined, report>>
server == <<link, sent, responses, served>>
vars   == <<pc, cin, choice, nextMessageId, command, combined, report,
            link, sent, responses, served>>

Ids == 0 .. Byte - 1
Ops == <<"search", "add", "delete", "list">>

Plane    == [name : Planes \cup {Empty}, speed : Speeds \cup {Empty}]
Request  == [op : {"bind", "search", "add", "delete", "list"}, id : Ids,
             name : Planes \cup {Empty}, speed : Speeds \cup {Empty}]
Response == [op : {"bind", "add", "delete", "entry", "done", "notice"}, id : Ids, ok : BOOLEAN,
             name : Planes \cup {Empty}, speed : Speeds \cup {Empty}]

\* The entries of a directory that is d.
EntriesOf(d) == {[name |-> p, speed |-> d[p]] : p \in {q \in Planes : d[q] # NoEntry}}

\* Before the server has handled the command, and when it refused it.
NotServed == [ok |-> FALSE, entries |-> {}]

TypeOK ==
  /\ pc \in {"start", "await", "menu", "exit", "killed"}
  /\ cin \in {"good", "failed"} /\ choice \in 0 .. 6 /\ nextMessageId \in Ids
  /\ command \in Request /\ combined \in Seq(Response)
  /\ report.says \in {"none", "bound", "added", "deleted", "speed", "planes", "failed",
                      "not found", "invalid"}
  /\ report.planes \in Seq(Plane)
  /\ link \in {"open", "closed", "reset", "broken"} /\ sent \in BOOLEAN /\ responses \in Seq(Response)
  /\ served.ok \in BOOLEAN /\ served.entries \subseteq Plane

Init ==
  /\ pc = "start" /\ cin = "good" /\ choice = 0 /\ nextMessageId = 1
  /\ command = [op |-> "bind", id |-> 0, name |-> Empty, speed |-> Empty]
  /\ combined = <<>> /\ report = [says |-> "none", planes |-> <<>>]
  /\ link = "open" /\ sent = FALSE /\ responses = <<>> /\ served = NotServed

-----------------------------------------------------------------------------
\* nextMessageId++, of which appendInteger writes one byte.
NextId(id) == (id + 1) % Byte

\* Build a request and sendAll it.  A send on a connection that the server has closed
\* succeeds and breaks it; one on a reset connection fails, and the command with it, which is
\* as though nothing came back; one on a broken connection raises SIGPIPE.
Send(op, name, speed) ==
  /\ nextMessageId' = NextId(nextMessageId)
  /\ IF link = "broken"
     THEN pc' = "killed" /\ UNCHANGED <<command, combined, server>>
     ELSE /\ pc' = "await" /\ combined' = <<>>
          /\ command' = [op |-> op, id |-> nextMessageId, name |-> name, speed |-> speed]
          /\ served' = NotServed /\ sent' = (link = "open")
          /\ link' = IF link = "open" THEN link ELSE "broken"
          /\ UNCHANGED responses
  /\ UNCHANGED report

\* connectToServer, and the request of simpleBind.
Start ==
  /\ pc = "start" /\ Send("bind", Empty, Empty)
  /\ UNCHANGED <<cin, choice>>

ConnectFails ==
  /\ pc = "start" /\ pc' = "exit"
  /\ UNCHANGED <<cin, choice, nextMessageId, command, combined, report, server>>

\* The menu: a command and its names are typed.
Type ==
  /\ pc = "menu" /\ cin = "good"
  /\ \E c \in 1 .. 4, name \in Planes \cup {Empty}, speed \in Speeds \cup {Empty} :
       /\ name = Empty <=> c = 4
       /\ speed = Empty <=> c # 2
       /\ choice' = c /\ Send(Ops[c], name, speed)
  /\ UNCHANGED cin

\* The input ends at the prompt for a name or for the speed; what is not read is empty.
TypeCut ==
  /\ pc = "menu" /\ cin = "good" /\ cin' = "failed"
  /\ \E c \in 1 .. 3, name \in Planes \cup {Empty} :
       /\ c # 2 => name = Empty
       /\ choice' = c /\ Send(Ops[c], name, Empty)

\* No choice is read, because the input ends or has failed: choice is what it was, and so
\* is the command.
Repeat ==
  /\ pc = "menu" /\ cin' = "failed" /\ choice \in 1 .. 4
  /\ Send(Ops[choice], Empty, Empty)
  /\ UNCHANGED choice

\* "Invalid choice.": what was typed is no number, which reads as 0 and fails std::cin; is
\* no number of the menu; or cannot be read after one that was not.
Invalid ==
  /\ pc = "menu" /\ report' = [says |-> "invalid", planes |-> <<>>]
  /\ \/ cin = "good" /\ cin' = "failed" /\ choice' = 0
     \/ cin = "good" /\ cin' = cin /\ choice' = 6
     \/ choice \in {0, 6} /\ cin' = "failed" /\ choice' = choice
  /\ UNCHANGED <<pc, nextMessageId, command, combined, server>>

Exit ==
  /\ pc = "menu" /\ cin = "good" /\ choice' = 5 /\ pc' = "exit"
  /\ UNCHANGED <<cin, nextMessageId, command, combined, report, server>>
-----------------------------------------------------------------------------
\* Reading the answer.

\* Mutants of messageIsSearchResultDone: any packet ends a search; only the end of the
\* connection does.
FirstIsDone(m) == TRUE
NeverDone(m)   == FALSE

\* messageIsSearchResultDone
IsDone(m) == m.op = "done"

PlaneIn(m) == [name |-> m.name, speed |-> m.speed]

\* A mutant of IsPlane: a plane needs both attributes.
WithSpeed(m) == m.op = "entry" /\ m.name # Empty /\ m.speed # Empty

\* An entry with a name or with a speed is a plane.
IsPlane(m) == m.op = "entry" /\ (m.name # Empty \/ m.speed # Empty)

\* extractPlanesFromPacket
ExtractPlanes(ms) ==
  LET planes[i \in 0 .. Len(ms)] ==
        IF i = 0 THEN <<>>
        ELSE IF IsPlane(ms[i]) THEN Append(planes[i - 1], PlaneIn(ms[i]))
        ELSE planes[i - 1]
  IN  planes[Len(ms)]

\* parseSearchResultForDescription: the first speed, if there is one.
Description(ms) ==
  LET planes == ExtractPlanes(ms)
      found  == {i \in DOMAIN planes : planes[i].speed # Empty}
  IN  IF found = {} THEN <<>>
      ELSE <<planes[CHOOSE i \in found : \A j \in found : i <= j].speed>>

Done == [bind |-> "bound", add |-> "added", delete |-> "deleted"]

\* What main prints at the end of a command: of a search or a list from the answers it
\* collected, of another command from whether its answer is a success.
Report(collected, ok) ==
  LET speed == Description(collected)
  IN  CASE command.op = "search" ->
             [says |-> IF speed = <<>> THEN "not found" ELSE "speed",
              planes |-> [i \in DOMAIN speed |-> [name |-> command.name, speed |-> speed[i]]]]
        [] command.op = "list" -> [says |-> "planes", planes |-> ExtractPlanes(collected)]
        [] OTHER -> [says |-> IF ok THEN Done[command.op] ELSE "failed", planes |-> <<>>]

\* A bind that did not succeed ends the program.
Finish(collected, ok) ==
  /\ report' = Report(collected, ok) /\ combined' = <<>>
  /\ pc' = IF command.op = "bind" /\ ~ok THEN "exit" ELSE "menu"

Searching == command.op \in {"search", "list"}

\* receivePacket returns a packet: one answer is enough but for a search.
ReceivePacket ==
  /\ pc = "await" /\ responses # <<>> /\ responses' = Tail(responses)
  /\ LET m == Head(responses)
         all == Append(combined, m)
     IN  IF Searching /\ ~IsDone(m)
         THEN combined' = all /\ UNCHANGED <<pc, report>>
         ELSE Finish(all, m.ok)
  /\ UNCHANGED <<cin, choice, nextMessageId, command, link, sent, served>>

\* receivePacket returns no packet: the connection has ended, or been reset.
ReceiveNothing ==
  /\ pc = "await" /\ responses = <<>> /\ link # "open"
  /\ Finish(combined, FALSE)
  /\ link' = IF link = "reset" THEN "broken" ELSE link
  /\ UNCHANGED <<cin, choice, nextMessageId, command, sent, responses, served>>
-----------------------------------------------------------------------------
\* The server.

Answer(op, ok, plane) ==
  [op |-> op, id |-> command.id, ok |-> ok, name |-> plane.name, speed |-> plane.speed]

Nothing == [name |-> Empty, speed |-> Empty]

\* The planes found, in some order.  A list asks for both attributes, which the entry of
\* the subtree itself does not have, and a search for the description.
Entries(found) ==
  LET asked == IF command.op = "list" THEN <<Nothing>> \o found
               ELSE [i \in DOMAIN found |-> [name |-> Empty, speed |-> found[i].speed]]
  IN  [i \in DOMAIN asked |-> Answer("entry", FALSE, asked[i])]

\* The server handles the request, or refuses it; a search it can give up after some of the
\* planes, at a limit of its own.  Other clients change the directory all the time, so that
\* it is any directory at this moment.
Serve ==
  /\ sent /\ sent' = FALSE
  /\ \E dir \in [Planes -> Speeds \cup {Empty, NoEntry}], ok \in BOOLEAN :
       LET found == {e \in EntriesOf(dir) : command.op = "list" \/ e.name = command.name}
       IN  /\ ok /\ command.op = "add" =>
                /\ command.name # Empty /\ command.speed # Empty
                /\ dir[command.name] = NoEntry
           /\ ok /\ command.op = "delete" => command.name # Empty /\ found # {}
           /\ \E given \in SUBSET found :
                /\ ok => given = found
                /\ \E order \in SetToSeqs(given) : responses' = responses \o
                     CASE Searching /\ (ok \/ given # {}) ->
                            Entries(order) \o <<Answer("done", ok, Nothing)>>
                       [] Searching /\ ~ok /\ given = {} -> <<Answer("done", FALSE, Nothing)>>
                       [] ~Searching -> <<Answer(command.op, ok, Nothing)>>
                /\ served' = [ok |-> ok, entries |-> IF Searching THEN given ELSE {}]
  /\ UNCHANGED <<main, link>>

Notice == [op |-> "notice", id |-> 0, ok |-> FALSE, name |-> Empty, speed |-> Empty]

\* An id that a byte makes zero or negative is a protocol error.
Disconnect ==
  /\ sent /\ command.id \notin 1 .. (Byte \div 2) - 1
  /\ sent' = FALSE /\ link' = "closed" /\ responses' = Append(responses, Notice)
  /\ UNCHANGED <<main, served>>

\* The server goes away: what it has not sent is lost, and a request it has not read makes
\* the end a reset.
Close ==
  /\ link = "open" /\ pc \notin {"start", "exit", "killed"}
  /\ link' = IF sent THEN "reset" ELSE "closed"
  /\ sent' = FALSE
  /\ \/ \E k \in 0 .. Len(responses) : responses' = SubSeq(responses, 1, k)
     \/ responses' = Append(responses, Notice)
  /\ UNCHANGED <<main, served>>

-----------------------------------------------------------------------------
Next ==
  \/ Start \/ ConnectFails \/ Type \/ TypeCut \/ Repeat \/ Invalid \/ Exit
  \/ ReceivePacket \/ ReceiveNothing \/ Serve \/ Disconnect \/ Close

\* The client reads what has come, and the server answers what it has read.
Spec ==
  Init /\ [][Next]_vars /\ WF_vars(ReceivePacket) /\ WF_vars(ReceiveNothing) /\ WF_vars(Serve)

-----------------------------------------------------------------------------
\* "Plane added successfully." and "Plane deleted successfully." are true of the command
\* just typed, although no answer is matched with its request: no answer to an earlier
\* one is ever left to be taken for it.
SuccessIsTrue == report.says \in {"added", "deleted"} /\ pc = "menu" => served.ok

\* While the connection lives, the list that is printed is what the server sent for it, and
\* a search prints the speed of the plane if the server sent one: the directory at one moment
\* when the server carried the search out, a part of it when it refused or gave up; when the
\* connection is lost in the middle the list is a part of what was sent.  Nothing tells a
\* part from the whole: the result code of the answer that ends a search is read by nobody.
ReportsAreWhole ==
  pc = "menu" /\ report.says \in {"speed", "not found", "planes"} =>
    LET shown == ToSet(report.planes)
        had   == {e \in served.entries : command.op = "list" \/ e.speed # Empty}
    IN  /\ shown \subseteq had
        /\ link = "open" => shown = had

\* A command that was sent comes to an end: with the server's answer, with the end of the
\* connection, or with a signal.
CommandEnds == pc = "await" ~> pc # "await"
=============================================================================
