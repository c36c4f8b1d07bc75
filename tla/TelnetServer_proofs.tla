------------------------- MODULE TelnetServer_proofs -------------------------
(***************************************************************************)
(* The telnet server: while it runs its registry holds exactly the         *)
(* handlers' descriptors; once stop() has been through the registry no     *)
(* handler waits for a silent user, although numbers are given out again   *)
(* meanwhile; and only overlapping calls, or main's deleting it under      *)
(* them, can break the unlocked database.                                  *)
(* For any connections, descriptor numbers and bookings.                   *)
(***************************************************************************)
EXTENDS TelnetServer, Appointments_proofs

-----------------------------------------------------------------------------
\* The inductive invariant, in four parts.

\* A handler from its accept to its close, and one that may still ask its user.
Active(c) == h[c].pc \notin {"none", "done"}
Late(c)   == h[c].pc \in {"register", "greet", "check", "erase", "close"}
Deep(c)   == h[c].pc \in {"prompt", "command", "ask", "answer", "enter", "leave", "after",
                          "pause", "bye"}
Waits(c)  == h[c].pc \in Blocked /\ h[c].on # NoConn

\* A descriptor leads to a connection whose handler works with that descriptor.
SocketInv ==
  /\ \A c \in Conns : Active(c) => h[c].fd \in Fds
  /\ \A fd \in Fds : sock[fd] # NoConn => Active(sock[fd]) /\ h[sock[fd]].fd = fd

\* Before stop() has the mutex every number is its handler's own connection, and the
\* registry is exact.
EarlyInv ==
  /\ running <=> stopper = "stdin"
  /\ stopper \in {"stdin", "lock"} =>
       /\ client = {h[c].fd : c \in {k \in Conns : h[k].pc \in Registered}}
       /\ \A c \in Conns : h[c].pc \in Registered \cup {"register", "close"} =>
            sock[h[c].fd] = c
       /\ \A c \in Conns : Waits(c) => h[c].on = c

\* From then on, a handler that may still ask its user was registered: its connection is
\* shut down, or its number, which no other handler has, is one stop() has still to close.
\* A handler that waits for another's connection, having been given its number, waits for
\* one that is shut down or whose own handler will find running to be false and shut it down.
Answered(c, k) ==
  \/ k = c
  \/ k \in shut
  \/ Late(k) /\ sock[h[k].fd] = k /\ h[k].fd \notin closing

LateInv ==
  stopper \notin {"stdin", "lock"} =>
    /\ stopper = "shut" => closing # {}
    /\ stopper \in {"listener", "done"} => closing = {}
    /\ \A c \in Conns : Deep(c) => c \in shut \/ h[c].fd \in closing
    /\ \A c \in Conns : Deep(c) /\ h[c].fd \in closing =>
         /\ sock[h[c].fd] = c
         /\ \A k \in Conns \ {c} : Active(k) => h[k].fd # h[c].fd
         /\ stopper = "shut" /\ h[c].fd = First(closing) => c \in shut
    /\ \A c \in Conns : Waits(c) => Answered(c, h[c].on)

\* The calls of the database: their days exist, and while none overlap a change, what
\* they found is as it was.
CallInv ==
  /\ dbAlive => \A c \in Conns : use[c].day \in {0} \cup DOMAIN days
  /\ \A c \in Inside : h[c].cmd = "delete" /\ use[c].objs # {} => use[c].day # 0
  /\ ~raced => \A c, k \in Inside : c # k => ~Writes(h[c].cmd)
  /\ ~raced => \A c \in Inside : h[c].cmd = "add" =>
       \A o \in use[c].objs : use[c].day = FindDay(o.apt.date)
  /\ SoundUnlessRaced

TelnetInv == TypeOK /\ SocketInv /\ EarlyInv /\ LateInv /\ CallInv

-----------------------------------------------------------------------------
HandlerRecord == [pc : HandlerPcs, fd : Nat, cmd : Commands \cup {"none"}, on : Conns \cup {NoConn}]

\* What the steps of a registered handler have in common that only write to its own
\* record: it keeps its descriptor, it gets to ask its user only while the server runs,
\* and it starts to wait for the connection that is behind its descriptor.
Moves(c) ==
  /\ \A k \in Conns \ {c} : h'[k] = h[k]
  /\ h' \in [Conns -> HandlerRecord]
  /\ h'[c].fd = h[c].fd
  /\ h[c].pc \in Registered /\ h'[c].pc \in Registered
  /\ Deep(c)' => Deep(c) \/ running
  /\ Waits(c)' => Deep(c) /\ h'[c].on = sock[h[c].fd]
  /\ UNCHANGED <<running, stopper, closing, mutex, client, sock, shut>>

LEMMA MovesIf ==
  ASSUME TypeOK, NEW c \in Conns, NEW r \in HandlerRecord, h' = [h EXCEPT ![c] = r],
         r.fd = h[c].fd, h[c].pc \in Registered, r.pc \in Registered,
         r.pc \in {"greet", "check", "erase"} \/ running
           \/ h[c].pc \notin {"register", "greet", "check", "erase", "close"},
         r.pc \in Blocked /\ r.on # NoConn => h[c].pc \in {"prompt", "ask", "after"} /\ r.on = sock[h[c].fd],
         UNCHANGED <<running, stopper, closing, mutex, client, sock, shut>>
  PROVE  Moves(c)
<1>1. h'[c] = r /\ (\A k \in Conns \ {c} : h'[k] = h[k]) /\ h' \in [Conns -> HandlerRecord]
  BY DEF TypeOK, HandlerRecord
<1> QED BY <1>1 DEF Moves, Deep, Waits, Blocked, Registered

LEMMA GotoMoves ==
  ASSUME TypeOK, NEW c \in Conns, NEW pc \in Registered, Goto(c, pc),
         h[c].pc \in Registered,
         pc \in {"greet", "check", "erase"} \/ running
           \/ h[c].pc \notin {"register", "greet", "check", "erase", "close"},
         UNCHANGED <<running, stopper, closing, mutex, client, sock, shut>>
  PROVE  Moves(c) /\ h'[c].pc = pc /\ h'[c].cmd = h[c].cmd
<1> DEFINE r == [h[c] EXCEPT !.pc = pc, !.on = NoConn]
<1>1. h' = [h EXCEPT ![c] = r]
  BY DEF Goto, TypeOK
<1>2. r \in HandlerRecord /\ r.pc = pc /\ r.on = NoConn /\ r.fd = h[c].fd /\ r.cmd = h[c].cmd
  <2>1. h[c] \in HandlerRecord
    BY DEF TypeOK, HandlerRecord
  <2> QED BY <2>1 DEF HandlerRecord, HandlerPcs, Registered
<1> HIDE DEF r
<1>3. Moves(c)
  BY <1>1, <1>2, MovesIf
<1> QED BY <1>1, <1>2, <1>3 DEF TypeOK

LEMMA SendMoves ==
  ASSUME TypeOK, SocketInv, NEW c \in Conns, Sends(c)
  PROVE  Moves(c) /\ h'[c].pc # "leave" /\ h[c].pc # "leave"
<1>1. PICK from \in {"greet", "prompt", "ask", "after", "bye"},
           to \in {"check", "command", "answer", "pause", "erase"} :
        /\ SendThen(c, from, to)
        /\ <<from, to>> \in {<<"greet", "check">>, <<"prompt", "command">>, <<"ask", "answer">>,
                             <<"after", "pause">>, <<"bye", "erase">>}
  BY DEF Sends
<1> DEFINE on == IF to \in Blocked THEN sock[h[c].fd] ELSE NoConn
           r  == [h[c] EXCEPT !.pc = to, !.on = on]
<1>2. h[c].pc = from /\ h[c].fd \in Fds
  BY <1>1 DEF SendThen, SocketInv, Active
<1>3. on \in Conns \cup {NoConn}
  BY <1>2 DEF TypeOK
<1>4. h' = [h EXCEPT ![c] = r]
  BY <1>1 DEF SendThen, TypeOK
<1> HIDE DEF on
<1>5. r \in HandlerRecord /\ r.pc = to /\ r.on = on /\ r.fd = h[c].fd
  <2>1. h[c] \in HandlerRecord
    BY DEF TypeOK, HandlerRecord
  <2> QED BY <1>3, <2>1 DEF HandlerRecord, HandlerPcs
<1> HIDE DEF r
<1>6. to \in Blocked => on = sock[h[c].fd]
  BY DEF on
<1>7. UNCHANGED <<running, stopper, closing, mutex, client, sock, shut>>
  BY <1>1 DEF SendThen, stopVars
<1>8. Moves(c)
  BY <1>1, <1>2, <1>4, <1>5, <1>6, <1>7, MovesIf DEF Registered, Blocked
<1> QED BY <1>1, <1>2, <1>4, <1>5, <1>8 DEF TypeOK

\* The steps of a handler outside the database that write only to its record.
Walk(c) ==
  \/ Check(c) \/ Sends(c) \/ ReadFails(c)
  \/ \E cmd \in Commands : ReadCommand(c, cmd)
  \/ ReadExit(c) \/ ReadOther(c) \/ ReadAnswer(c) \/ ReadEnter(c)

LEMMA WalkMoves ==
  ASSUME TypeOK, SocketInv, NEW c \in Conns, Walk(c)
  PROVE  Moves(c) /\ h'[c].pc # "leave" /\ h[c].pc # "leave"
<1>1. CASE Check(c)
  <2> DEFINE r == [NoHandler EXCEPT !.pc = IF running THEN "prompt" ELSE "erase", !.fd = h[c].fd]
  <2>1. h' = [h EXCEPT ![c] = r] /\ h[c].pc = "check"
    BY <1>1 DEF Check
  <2>2. /\ r \in HandlerRecord /\ r.fd = h[c].fd /\ r.on = NoConn
        /\ r.pc = IF running THEN "prompt" ELSE "erase"
    BY DEF NoHandler, HandlerRecord, HandlerPcs, TypeOK
  <2> HIDE DEF r
  <2>3. Moves(c)
    BY <1>1, <2>1, <2>2, MovesIf DEF Check, Registered, stopVars, sockVars
  <2> QED BY <2>1, <2>2, <2>3 DEF TypeOK
<1>2. ASSUME NEW at \in {"command", "answer", "pause"}, NEW pc \in {"ask", "enter", "check", "bye"},
             Typed(c, at, pc)
      PROVE  Moves(c) /\ h'[c].pc # "leave" /\ h[c].pc # "leave"
  <2>1. h[c].pc = at /\ Goto(c, pc)
    BY <1>2 DEF Typed
  <2> QED BY <1>2, <2>1, GotoMoves DEF Registered, Typed, stopVars
<1>3. ASSUME NEW cmd \in Commands, ReadCommand(c, cmd)
      PROVE  Moves(c) /\ h'[c].pc # "leave" /\ h[c].pc # "leave"
  <2> DEFINE pc == IF cmd = "view" THEN "enter" ELSE "ask"
             r  == [h[c] EXCEPT !.cmd = cmd, !.pc = pc, !.on = NoConn]
  <2>1. h' = [h EXCEPT ![c] = r] /\ h[c].pc = "command"
    BY <1>3 DEF ReadCommand, TypeOK
  <2>2. h[c] \in HandlerRecord /\ pc \in {"enter", "ask"}
    BY DEF TypeOK, HandlerRecord
  <2> HIDE DEF pc
  <2>3. r \in HandlerRecord /\ r.fd = h[c].fd /\ r.on = NoConn /\ r.pc = pc
    BY <2>2 DEF HandlerRecord, HandlerPcs
  <2> HIDE DEF r
  <2>4. Moves(c)
    BY <1>3, <2>1, <2>2, <2>3, MovesIf DEF ReadCommand, Registered, stopVars
  <2> QED BY <2>1, <2>2, <2>3, <2>4 DEF TypeOK
<1>4. CASE ReadFails(c)
  <2>1. PICK pc \in {"check", "ask", "enter"} : Goto(c, pc)
    BY <1>4 DEF ReadFails
  <2>2. h[c].pc \in {"command", "answer", "pause"}
    BY <1>4 DEF ReadFails, Blocked
  <2> QED BY <1>4, <2>1, <2>2, GotoMoves DEF ReadFails, Registered, stopVars
<1> QED BY <1>1, <1>2, <1>3, <1>4, SendMoves DEF Walk, ReadExit, ReadOther, ReadAnswer, ReadEnter

\* Entering and leaving the database.
LEMMA EnterMoves ==
  ASSUME TypeOK, NEW c \in Conns, EnterDb(c)
  PROVE  Moves(c) /\ h[c].pc = "enter" /\ h'[c].pc = "leave" /\ h'[c].cmd = h[c].cmd
<1>1. h[c].pc = "enter" /\ Goto(c, "leave")
  BY DEF EnterDb
<1> QED BY <1>1, GotoMoves DEF EnterDb, Registered, stopVars, sockVars

LEMMA LeaveMoves ==
  ASSUME TypeOK, NEW c \in Conns, EndUse(c)
  PROVE  Moves(c) /\ h[c].pc = "leave" /\ h'[c].pc # "leave"
<1>1. h[c].pc = "leave" /\ UNCHANGED <<running, stopper, closing, mutex, client, sock, shut>>
  BY DEF EndUse, EndAdd, EndDelete, EndRead, Torn, LeaveDb, stopVars
<1>2. PICK pc \in {"check", "after"} : Goto(c, pc)
  BY DEF EndUse, EndAdd, EndDelete, EndRead, Torn
<1> QED BY <1>1, <1>2, GotoMoves DEF Registered

\* What a step is to the sockets, the registry and stop().
LEMMA StepCases ==
  ASSUME TypeOK, SocketInv, [Next]_vars
  PROVE  \/ \E c \in Conns : Moves(c) \/ Register(c) \/ Erase(c) \/ Close(c) \/ Accept(c)
         \/ StopTyped \/ StopLock \/ StopShutdown \/ StopClose \/ StopClear \/ StopListening
         \/ UNCHANGED <<running, stopper, closing, client, sock, shut, h>>
<1>1. ASSUME NEW c \in Conns, Handler(c) \/ User(c)
      PROVE  \/ Moves(c) \/ Register(c) \/ Erase(c) \/ Close(c)
             \/ UNCHANGED <<running, stopper, closing, client, sock, shut, h>>
  <2>1. CASE Walk(c)
    BY <2>1, WalkMoves
  <2>2. CASE Begin(c)
    <3>1. EnterDb(c)
      BY <2>2 DEF Begin, BeginAdd, BeginDelete, BeginRead
    <3> QED BY <3>1, EnterMoves
  <2>3. CASE EndUse(c)
    BY <2>3, LeaveMoves
  <2>4. CASE Connect(c) \/ Hangup(c)
    BY <2>4 DEF Connect, Hangup, stopVars
  <2> QED BY <1>1, <2>1, <2>2, <2>3, <2>4 DEF Handler, User, Walk
<1>2. CASE Main
  BY <1>2 DEF Main, MainLoop, AcceptFails, Destroy, Exit, stopVars, sockVars
<1>3. CASE UNCHANGED vars
  BY <1>3 DEF vars
<1> QED BY <1>1, <1>2, <1>3 DEF Next, Stopping

\* accept returns a number that leads nowhere yet.
LEMMA FreeNumber ==
  ASSUME TypeOK, FreeFds # {}
  PROVE  First(FreeFds) \in Fds /\ sock[First(FreeFds)] = NoConn
<1>1. FreeFds \in SUBSET Nat
  BY TelnetAssumption DEF FreeFds
<1>2. First(FreeFds) \in FreeFds
  BY <1>1, FirstIsLeast
<1> QED BY <1>2 DEF FreeFds

\* stop() closes a number it has copied.
LEMMA ClosingNumber ==
  ASSUME TypeOK, closing # {}
  PROVE  First(closing) \in closing /\ First(closing) \in Fds
BY TelnetAssumption, FirstIsLeast DEF TypeOK

\* The new handler of Accept, and the others.
LEMMA AcceptEffect ==
  ASSUME TypeOK, NEW c \in Conns, Accept(c)
  PROVE  \E fd \in Fds :
           /\ sock[fd] = NoConn /\ sock' = [sock EXCEPT ![fd] = c]
           /\ h[c].pc = "none" /\ h'[c].pc = "register" /\ h'[c].fd = fd
           /\ h'[c].on = h[c].on /\ h'[c].cmd = h[c].cmd
           /\ \A k \in Conns \ {c} : h'[k] = h[k]
           /\ h' \in [Conns -> HandlerRecord]
           /\ UNCHANGED <<running, stopper, closing, mutex, client, shut>>
<1> DEFINE fd == First(FreeFds)
           r  == [h[c] EXCEPT !.pc = "register", !.fd = fd]
<1>1. fd \in Fds /\ sock[fd] = NoConn /\ fd \in Nat
  BY FreeNumber, TelnetAssumption DEF Accept
<1>2. h' = [h EXCEPT ![c] = r] /\ sock' = [sock EXCEPT ![fd] = c]
  BY DEF Accept
<1>3. h[c] \in HandlerRecord
  BY DEF TypeOK, HandlerRecord
<1> HIDE DEF fd
<1>4. /\ r \in HandlerRecord /\ r.pc = "register" /\ r.fd = fd
      /\ r.on = h[c].on /\ r.cmd = h[c].cmd
  BY <1>1, <1>3 DEF HandlerRecord, HandlerPcs
<1> HIDE DEF r
<1>5. /\ h'[c] = r /\ (\A k \in Conns \ {c} : h'[k] = h[k]) /\ h' \in [Conns -> HandlerRecord]
  BY <1>2, <1>4 DEF TypeOK, HandlerRecord
<1>6. h[c].pc = "none" /\ UNCHANGED <<running, stopper, closing, mutex, client, shut>>
  BY DEF Accept, stopVars
<1> QED BY <1>1, <1>2, <1>4, <1>5, <1>6

\* The handler of Close, and the others.
LEMMA CloseEffect ==
  ASSUME TypeOK, NEW c \in Conns, Close(c)
  PROVE  /\ h[c].pc = "close" /\ h'[c].pc = "done" /\ h'[c].on = NoConn
         /\ \A k \in Conns \ {c} : h'[k] = h[k]
         /\ h' \in [Conns -> HandlerRecord]
         /\ UNCHANGED <<running, stopper, closing, mutex, client>>
         /\ shut \subseteq shut' /\ (sock[h[c].fd] # NoConn => sock[h[c].fd] \in shut')
         /\ sock' = [sock EXCEPT ![h[c].fd] = NoConn]
<1> DEFINE r == [NoHandler EXCEPT !.pc = "done"]
<1>1. r \in HandlerRecord /\ r.pc = "done" /\ r.on = NoConn
  BY DEF NoHandler, HandlerRecord, HandlerPcs
<1>2. h' = [h EXCEPT ![c] = r]
  BY DEF Close
<1> HIDE DEF r
<1>3. h'[c] = r /\ (\A k \in Conns \ {c} : h'[k] = h[k]) /\ h' \in [Conns -> HandlerRecord]
  BY <1>1, <1>2 DEF TypeOK, HandlerRecord
<1> QED BY <1>1, <1>3 DEF Close, stopVars

\* Register and Erase only move the handler on.
LEMMA RegistryMoves ==
  ASSUME TypeOK, NEW c \in Conns, NEW to \in {"greet", "close"}, Goto(c, to)
  PROVE  /\ h'[c].pc = to /\ h'[c].fd = h[c].fd /\ h'[c].on = NoConn
         /\ \A k \in Conns \ {c} : h'[k] = h[k]
         /\ h' \in [Conns -> HandlerRecord]
<1> DEFINE r == [h[c] EXCEPT !.pc = to, !.on = NoConn]
<1>1. h' = [h EXCEPT ![c] = r]
  BY DEF Goto, TypeOK
<1>2. h[c] \in HandlerRecord
  BY DEF TypeOK, HandlerRecord
<1>3. r \in HandlerRecord /\ r.pc = to /\ r.on = NoConn /\ r.fd = h[c].fd
  BY <1>2 DEF HandlerRecord, HandlerPcs
<1> HIDE DEF r
<1> QED BY <1>1, <1>3 DEF TypeOK, HandlerRecord

-----------------------------------------------------------------------------
LEMMA SocketStep ==
  ASSUME TypeOK, SocketInv, [Next]_vars
  PROVE  SocketInv'
<1>0. \A fd \in Fds : sock[fd] # NoConn => sock[fd] \in Conns
  BY DEF TypeOK
<1>1. ASSUME NEW c \in Conns, Moves(c)
      PROVE  SocketInv'
  <2>1. /\ \A k \in Conns \ {c} : h'[k] = h[k]
        /\ h'[c].fd = h[c].fd /\ sock' = sock
        /\ h[c].pc \notin {"none", "done"} /\ h'[c].pc \notin {"none", "done"}
    BY <1>1 DEF Moves, Registered
  <2>2. \A k \in Conns : h'[k].fd = h[k].fd /\ (Active(k)' <=> Active(k))
    BY <2>1 DEF Active
  <2> QED BY <1>0, <2>1, <2>2 DEF SocketInv
<1>2. ASSUME NEW c \in Conns, Register(c) \/ Erase(c)
      PROVE  SocketInv'
  <2>1. PICK to \in {"greet", "close"} : Goto(c, to)
    BY <1>2 DEF Register, Erase
  <2>2. sock' = sock /\ h[c].pc \in {"register", "erase"}
    BY <1>2 DEF Register, Erase, sockVars
  <2>3. /\ \A k \in Conns \ {c} : h'[k] = h[k]
        /\ h'[c].fd = h[c].fd /\ h'[c].pc = to
    BY <2>1, RegistryMoves
  <2>4. \A k \in Conns : h'[k].fd = h[k].fd /\ (Active(k)' <=> Active(k))
    BY <2>2, <2>3 DEF Active
  <2> QED BY <1>0, <2>2, <2>4 DEF SocketInv
<1>3. ASSUME NEW c \in Conns, Close(c)
      PROVE  SocketInv'
  <2>1. /\ h[c].pc = "close" /\ h'[c].pc = "done"
        /\ \A k \in Conns \ {c} : h'[k] = h[k]
        /\ sock' = [sock EXCEPT ![h[c].fd] = NoConn]
    BY <1>3, CloseEffect
  <2>2. h[c].fd \in Fds
    BY <2>1 DEF SocketInv, Active
  <2>3. \A fd \in Fds : sock'[fd] = IF fd = h[c].fd THEN NoConn ELSE sock[fd]
    BY <2>1 DEF TypeOK
  <2>4. \A k \in Conns : Active(k)' => Active(k) /\ h'[k].fd = h[k].fd
    BY <2>1 DEF Active
  <2>5. ASSUME NEW fd \in Fds, sock'[fd] # NoConn
        PROVE  h'[sock'[fd]].pc \notin {"none", "done"} /\ h'[sock'[fd]].fd = fd
    <3>1. sock'[fd] = sock[fd] /\ sock[fd] \in Conns /\ fd # h[c].fd
      BY <1>0, <2>3, <2>5
    <3>2. Active(sock[fd]) /\ h[sock[fd]].fd = fd
      BY <2>5, <3>1 DEF SocketInv
    <3>3. sock[fd] # c
      BY <3>1, <3>2
    <3> QED BY <2>1, <3>1, <3>2, <3>3 DEF Active
  <2> QED BY <2>4, <2>5 DEF SocketInv, Active
<1>4. ASSUME NEW c \in Conns, Accept(c)
      PROVE  SocketInv'
  <2>1. PICK fd \in Fds :
          /\ sock[fd] = NoConn /\ sock' = [sock EXCEPT ![fd] = c]
          /\ h[c].pc = "none" /\ h'[c].pc = "register" /\ h'[c].fd = fd
          /\ \A k \in Conns \ {c} : h'[k] = h[k]
    BY <1>4, AcceptEffect
  <2> QED BY <2>1 DEF SocketInv, Active, TypeOK
<1>5. CASE StopClose
  <2>1. /\ \A fd \in Fds : sock'[fd] \in {sock[fd], NoConn}
        /\ h' = h
    BY <1>5 DEF StopClose, TypeOK
  <2> QED BY <1>0, <2>1 DEF SocketInv, Active
<1>6. CASE UNCHANGED <<sock, h>>
  BY <1>6 DEF SocketInv, Active
<1>7. StopTyped \/ StopLock \/ StopShutdown \/ StopClear \/ StopListening => UNCHANGED <<sock, h>>
  BY DEF StopTyped, StopLock, StopShutdown, StopClear, StopListening, sockVars
<1> QED BY <1>1, <1>2, <1>3, <1>4, <1>5, <1>6, <1>7, StepCases

LEMMA EarlyStep ==
  ASSUME TypeOK, SocketInv, EarlyInv, [Next]_vars
  PROVE  EarlyInv'
<1> DEFINE Numbers == {h[c].fd : c \in {k \in Conns : h[k].pc \in Registered}}
<1>1. ASSUME NEW c \in Conns, Moves(c)
      PROVE  EarlyInv'
  <2>1. Numbers' = Numbers
    BY <1>1 DEF Moves
  <2>2. \A k \in Conns : /\ h'[k].fd = h[k].fd
                         /\ h'[k].pc \in Registered \cup {"register", "close"} =>
                              h[k].pc \in Registered \cup {"register", "close"}
    BY <1>1 DEF Moves
  <2>3. \A k \in Conns : Waits(k)' => \/ Waits(k) /\ h'[k].on = h[k].on
                                      \/ Deep(k) /\ h'[k].on = sock[h[k].fd]
    BY <1>1 DEF Moves, Waits
  <2>4. \A k \in Conns : Deep(k) => h[k].pc \in Registered
    BY DEF Deep, Registered
  <2>5. UNCHANGED <<running, stopper, client, sock>>
    BY <1>1 DEF Moves
  <2> HIDE DEF Numbers
  <2> QED BY <2>1, <2>2, <2>3, <2>4, <2>5 DEF EarlyInv, Numbers
<1>2. ASSUME NEW c \in Conns, Register(c)
      PROVE  EarlyInv'
  <2>1. /\ h[c].pc = "register" /\ client' = client \cup {h[c].fd} /\ Goto(c, "greet")
        /\ UNCHANGED <<running, stopper, sock>>
    BY <1>2 DEF Register, stopVars, sockVars
  <2>2. /\ h'[c].pc = "greet" /\ h'[c].fd = h[c].fd /\ h'[c].on = NoConn
        /\ \A k \in Conns \ {c} : h'[k] = h[k]
    BY <2>1, RegistryMoves
  <2>3. Numbers' = Numbers \cup {h[c].fd}
    BY <2>1, <2>2 DEF Registered
  <2> HIDE DEF Numbers
  <2> QED BY <2>1, <2>2, <2>3 DEF EarlyInv, Numbers, Waits, Registered, Blocked
<1>3. ASSUME NEW c \in Conns, Erase(c)
      PROVE  EarlyInv'
  <2>1. /\ h[c].pc = "erase" /\ client' = client \ {h[c].fd} /\ Goto(c, "close")
        /\ UNCHANGED <<running, stopper, sock>>
    BY <1>3 DEF Erase, stopVars, sockVars
  <2>2. /\ h'[c].pc = "close" /\ h'[c].fd = h[c].fd /\ h'[c].on = NoConn
        /\ \A k \in Conns \ {c} : h'[k] = h[k]
    BY <2>1, RegistryMoves
  <2>3. stopper \in {"stdin", "lock"} => Numbers' = Numbers \ {h[c].fd}
    <3>1. ASSUME stopper \in {"stdin", "lock"}, NEW k \in Conns, h[k].pc \in Registered, k # c
          PROVE  h[k].fd # h[c].fd
      BY <2>1, <3>1 DEF EarlyInv, Registered
    <3> QED BY <2>1, <2>2, <3>1 DEF Registered
  <2> HIDE DEF Numbers
  <2> QED BY <2>1, <2>2, <2>3 DEF EarlyInv, Numbers, Waits, Registered, Blocked
<1>4. ASSUME NEW c \in Conns, Close(c)
      PROVE  EarlyInv'
  <2>1. /\ h[c].pc = "close" /\ h'[c].pc = "done" /\ h'[c].on = NoConn
        /\ \A k \in Conns \ {c} : h'[k] = h[k]
        /\ UNCHANGED <<running, stopper, client>>
        /\ sock' = [sock EXCEPT ![h[c].fd] = NoConn]
    BY <1>4, CloseEffect
  <2>2. Numbers' = Numbers
    BY <2>1 DEF Registered
  <2>3. ASSUME stopper \in {"stdin", "lock"}, NEW k \in Conns, k # c,
               h[k].pc \in Registered \cup {"register", "close"}
        PROVE  sock'[h[k].fd] = k
    <3>1. sock[h[k].fd] = k /\ sock[h[c].fd] = c
      BY <2>1, <2>3 DEF EarlyInv
    <3> QED BY <2>1, <2>3, <3>1 DEF TypeOK
  <2> HIDE DEF Numbers
  <2> QED BY <2>1, <2>2, <2>3 DEF EarlyInv, Numbers, Waits, Registered, Blocked
<1>5. ASSUME NEW c \in Conns, Accept(c)
      PROVE  EarlyInv'
  <2>1. PICK fd \in Fds :
          /\ sock[fd] = NoConn /\ sock' = [sock EXCEPT ![fd] = c]
          /\ h[c].pc = "none" /\ h'[c].pc = "register" /\ h'[c].fd = fd
          /\ \A k \in Conns \ {c} : h'[k] = h[k]
          /\ UNCHANGED <<running, stopper, client>>
    BY <1>5, AcceptEffect
  <2>2. Numbers' = Numbers
    BY <2>1 DEF Registered
  <2>3. ASSUME stopper \in {"stdin", "lock"}, NEW k \in Conns,
               h'[k].pc \in Registered \cup {"register", "close"}
        PROVE  sock'[h'[k].fd] = k
    <3>1. CASE k = c
      BY <2>1, <3>1 DEF TypeOK
    <3>2. CASE k # c
      <4>1. sock[h[k].fd] = k /\ h'[k] = h[k]
        BY <2>1, <2>3, <3>2 DEF EarlyInv
      <4> QED BY <2>1, <4>1, TelnetAssumption DEF TypeOK
    <3> QED BY <3>1, <3>2
  <2> HIDE DEF Numbers
  <2> QED BY <2>1, <2>2, <2>3 DEF EarlyInv, Numbers, Waits, Registered, Blocked
<1>6. CASE StopTyped
  BY <1>6 DEF StopTyped, sockVars, EarlyInv, Waits
<1>7. CASE StopLock \/ StopShutdown \/ StopClose \/ StopClear \/ StopListening
  BY <1>7 DEF StopLock, StopShutdown, StopClose, StopClear, StopListening, EarlyInv
<1>8. CASE UNCHANGED <<running, stopper, closing, client, sock, shut, h>>
  BY <1>8 DEF EarlyInv, Waits
<1> QED BY <1>1, <1>2, <1>3, <1>4, <1>5, <1>6, <1>7, <1>8, StepCases

\* A handler is not accepted yet, done, or one of these.
LEMMA HandlerKinds ==
  ASSUME TypeOK, NEW c \in Conns
  PROVE  /\ Active(c) <=> Deep(c) \/ Late(c)
         /\ ~(Deep(c) /\ Late(c))
         /\ Deep(c) => h[c].pc \in Registered
         /\ Active(c) <=> h[c].pc \in Registered \cup {"register", "close"}
         /\ Waits(c) => Deep(c)
<1>1. h[c].pc \in HandlerPcs
  BY DEF TypeOK
<1> QED BY <1>1 DEF HandlerPcs, Active, Deep, Late, Registered, Waits, Blocked

\* What a handler finds behind its number, when stop() has copied the registry.
LEMMA OtherConnection ==
  ASSUME TypeOK, SocketInv, LateInv, stopper \notin {"stdin", "lock"},
         NEW c \in Conns, Deep(c), sock[h[c].fd] # NoConn
  PROVE  Answered(c, sock[h[c].fd])
<1> DEFINE k == sock[h[c].fd]
<1>1. Active(c) /\ h[c].fd \in Fds /\ k \in Conns
  BY HandlerKinds DEF SocketInv, TypeOK
<1>2. Active(k) /\ h[k].fd = h[c].fd
  BY <1>1 DEF SocketInv
<1> HIDE DEF k
<1>3. ASSUME k # c, k \notin shut
      PROVE  Late(k) /\ sock[h[k].fd] = k /\ h[k].fd \notin closing
  <2>1. ~Deep(k)
    <3>1. SUFFICES ASSUME Deep(k) PROVE FALSE
      OBVIOUS
    <3>2. h[k].fd \in closing
      BY <1>1, <1>3, <3>1 DEF LateInv
    <3> QED BY <1>1, <1>2, <1>3, <3>1, <3>2 DEF LateInv
  <2>2. Late(k)
    BY <1>1, <1>2, <2>1, HandlerKinds
  <2>3. h[c].fd \notin closing
    BY <1>3 DEF LateInv, k
  <2> QED BY <1>2, <2>2, <2>3 DEF k
<1> QED BY <1>3 DEF k, Answered

LEMMA LateStep ==
  ASSUME TypeOK, TypeOK', SocketInv, EarlyInv, LateInv, [Next]_vars
  PROVE  LateInv'
<1>1. ASSUME NEW c \in Conns, Moves(c), stopper \notin {"stdin", "lock"}
      PROVE  LateInv'
  <2>1. /\ ~running
        /\ UNCHANGED <<stopper, closing, sock, shut>>
        /\ \A k \in Conns \ {c} : h'[k] = h[k]
        /\ h'[c].fd = h[c].fd
        /\ Deep(c)' => Deep(c)
        /\ h[c].pc \in Registered /\ h'[c].pc \in Registered
        /\ Waits(c)' => Deep(c) /\ h'[c].on = sock[h[c].fd]
    BY <1>1 DEF EarlyInv, Moves
  <2>2. Late(c) => Late(c)'
    <3>1. ~Deep(c)' => Late(c)'
      BY <2>1 DEF Deep, Late, Registered
    <3> QED BY <2>1, <3>1, HandlerKinds
  <2>3. \A k \in Conns : /\ Deep(k)' => Deep(k)
                         /\ Late(k) => Late(k)'
                         /\ Active(k)' => Active(k)
                         /\ h'[k].fd = h[k].fd
    BY <2>1, <2>2 DEF Deep, Late, Active, Registered
  <2>4. ASSUME NEW k \in Conns, Waits(k)'
        PROVE  Answered(k, h'[k].on)
    <3>1. CASE k = c
      <4>1. Deep(c) /\ h'[c].on = sock[h[c].fd] /\ h'[c].on # NoConn
        BY <2>1, <2>4, <3>1 DEF Waits
      <4> QED BY <1>1, <3>1, <4>1, OtherConnection
    <3>2. CASE k # c
      <4>1. Waits(k) /\ h'[k].on = h[k].on
        BY <2>1, <2>4, <3>2 DEF Waits
      <4> QED BY <1>1, <4>1 DEF LateInv
    <3> QED BY <3>1, <3>2
  <2>5. ASSUME NEW k \in Conns, Waits(k)'
        PROVE  h'[k].on \in Conns
    BY <2>5 DEF TypeOK, Waits
  <2>6. \A k, j \in Conns : Answered(k, j) => Answered(k, j)'
    BY <2>1, <2>3 DEF Answered
  <2> QED BY <1>1, <2>1, <2>3, <2>4, <2>5, <2>6 DEF LateInv
<1>2. ASSUME NEW c \in Conns, Register(c) \/ Erase(c), stopper \notin {"stdin", "lock"}
      PROVE  LateInv'
  <2>1. PICK to \in {"greet", "close"} : Goto(c, to)
    BY <1>2 DEF Register, Erase
  <2>2. UNCHANGED <<stopper, closing, sock, shut>> /\ h[c].pc \in {"register", "erase"}
    BY <1>2 DEF Register, Erase, sockVars, stopVars
  <2>3. /\ \A k \in Conns \ {c} : h'[k] = h[k]
        /\ h'[c].fd = h[c].fd /\ h'[c].pc = to
    BY <2>1, RegistryMoves
  <2>4. \A k \in Conns : /\ Deep(k)' => Deep(k)
                         /\ Late(k) => Late(k)'
                         /\ Active(k)' => Active(k)
                         /\ h'[k].fd = h[k].fd
                         /\ Waits(k)' => Waits(k) /\ h'[k].on = h[k].on
                         /\ Waits(k) => h[k].on \in Conns
    BY <2>2, <2>3 DEF Deep, Late, Active, Waits, Blocked, TypeOK
  <2>5. \A k, j \in Conns : Answered(k, j) => Answered(k, j)'
    BY <2>2, <2>4 DEF Answered
  <2> QED BY <1>2, <2>2, <2>4, <2>5 DEF LateInv
<1>3. ASSUME NEW c \in Conns, Close(c), stopper \notin {"stdin", "lock"}
      PROVE  LateInv'
  <2>1. /\ h[c].pc = "close" /\ h'[c].pc = "done" /\ h'[c].on = NoConn
        /\ \A k \in Conns \ {c} : h'[k] = h[k]
        /\ UNCHANGED <<stopper, closing>>
        /\ shut \subseteq shut' /\ (sock[h[c].fd] # NoConn => sock[h[c].fd] \in shut')
        /\ sock' = [sock EXCEPT ![h[c].fd] = NoConn]
    BY <1>3, CloseEffect
  <2>2. \A fd \in Fds : fd # h[c].fd => sock'[fd] = sock[fd]
    BY <2>1 DEF TypeOK
  <2>3. \A k \in Conns : /\ Active(k) => h[k].fd \in Fds
                         /\ Deep(k) \/ Late(k) => Active(k)
                         /\ Waits(k) => h[k].on \in Conns
    BY HandlerKinds DEF SocketInv, TypeOK, Waits
  <2>4. \A k \in Conns : /\ Deep(k)' => Deep(k) /\ k # c
                         /\ Late(k) => Late(k)' \/ k = c
                         /\ Active(k)' => Active(k) /\ k # c
                         /\ k # c => h'[k] = h[k]
                         /\ Waits(k)' => Waits(k) /\ h'[k].on = h[k].on /\ k # c
    BY <2>1 DEF Deep, Late, Active, Waits, Blocked
  <2>5. Active(c)
    BY <2>1 DEF Active
  <2>6. ASSUME NEW k \in Conns, Deep(k)', h'[k].fd \in closing
        PROVE  /\ sock'[h'[k].fd] = k
               /\ \A j \in Conns \ {k} : Active(j)' => h'[j].fd # h'[k].fd
               /\ stopper = "shut" /\ h'[k].fd = First(closing) => k \in shut'
    <3>1. Deep(k) /\ k # c /\ h'[k] = h[k] /\ h[k].fd \in Fds
      BY <2>3, <2>4, <2>6
    <3>2. /\ sock[h[k].fd] = k
          /\ \A j \in Conns \ {k} : Active(j) => h[j].fd # h[k].fd
          /\ stopper = "shut" /\ h[k].fd = First(closing) => k \in shut
      BY <1>3, <2>6, <3>1 DEF LateInv
    <3> QED BY <2>1, <2>2, <2>4, <2>5, <3>1, <3>2
  <2>7. ASSUME NEW k \in Conns, NEW j \in Conns, Answered(k, j)
        PROVE  Answered(k, j)'
    <3>1. CASE Late(j) /\ sock[h[j].fd] = j /\ h[j].fd = h[c].fd
      <4>1. j # NoConn
        BY TelnetAssumption
      <4> QED BY <2>1, <3>1, <4>1 DEF Answered
    <3>2. CASE Late(j) /\ sock[h[j].fd] = j /\ h[j].fd # h[c].fd /\ h[j].fd \notin closing
      <4>1. j # c /\ h[j].fd \in Fds /\ h'[j] = h[j]
        BY <2>3, <2>4, <3>2
      <4> QED BY <2>1, <2>2, <2>4, <3>2, <4>1 DEF Answered
    <3> QED BY <2>1, <2>7, <3>1, <3>2 DEF Answered
  <2>8. \A k \in Conns : Deep(k)' => k \in shut' \/ h'[k].fd \in closing
    BY <1>3, <2>1, <2>4 DEF LateInv
  <2>9. \A k \in Conns : Waits(k)' => Answered(k, h[k].on)'
    BY <1>3, <2>3, <2>4, <2>7 DEF LateInv
  <2> QED BY <1>3, <2>1, <2>6, <2>8, <2>9 DEF LateInv
<1>4. ASSUME NEW c \in Conns, Accept(c), stopper \notin {"stdin", "lock"}
      PROVE  LateInv'
  <2>1. PICK fd \in Fds :
          /\ sock[fd] = NoConn /\ sock' = [sock EXCEPT ![fd] = c]
          /\ h[c].pc = "none" /\ h'[c].pc = "register" /\ h'[c].fd = fd
          /\ \A k \in Conns \ {c} : h'[k] = h[k]
          /\ UNCHANGED <<stopper, closing, shut>>
    BY <1>4, AcceptEffect
  <2>2. \A n \in Fds : n # fd => sock'[n] = sock[n]
    BY <2>1 DEF TypeOK
  <2>3. \A k \in Conns : /\ Deep(k)' => Deep(k) /\ k # c
                         /\ Late(k) => Late(k)' /\ k # c
                         /\ Active(k)' => Active(k) \/ k = c
                         /\ k # c => h'[k] = h[k]
                         /\ Waits(k)' => Waits(k) /\ h'[k].on = h[k].on /\ k # c
    BY <2>1 DEF Deep, Late, Active, Waits, Blocked
  <2>4. \A k \in Conns : /\ Deep(k) \/ Late(k) => h[k].fd \in Fds
                         /\ Waits(k) => h[k].on \in Conns
                         /\ k # NoConn
    BY HandlerKinds, TelnetAssumption DEF SocketInv, TypeOK, Waits
  <2>5. ASSUME NEW k \in Conns, Deep(k)', h'[k].fd \in closing
        PROVE  /\ sock'[h'[k].fd] = k
               /\ \A j \in Conns \ {k} : Active(j)' => h'[j].fd # h'[k].fd
               /\ stopper = "shut" /\ h'[k].fd = First(closing) => k \in shut
    <3>1. Deep(k) /\ k # c /\ h'[k] = h[k] /\ h[k].fd \in Fds
      BY <2>3, <2>4, <2>5
    <3>2. /\ sock[h[k].fd] = k
          /\ \A j \in Conns \ {k} : Active(j) => h[j].fd # h[k].fd
          /\ stopper = "shut" /\ h[k].fd = First(closing) => k \in shut
      BY <1>4, <2>5, <3>1 DEF LateInv
    <3>3. h[k].fd # fd
      BY <2>1, <2>4, <3>2
    <3> QED BY <2>1, <2>2, <2>3, <3>1, <3>2, <3>3
  <2>6. ASSUME NEW k \in Conns, NEW j \in Conns, Answered(k, j)
        PROVE  Answered(k, j)'
    <3>1. CASE Late(j) /\ sock[h[j].fd] = j /\ h[j].fd \notin closing
      <4>1. j # c /\ h[j].fd \in Fds /\ h'[j] = h[j] /\ h[j].fd # fd /\ Late(j)'
        BY <2>1, <2>3, <2>4, <3>1
      <4> QED BY <2>1, <2>2, <3>1, <4>1 DEF Answered
    <3> QED BY <2>1, <2>6, <3>1 DEF Answered
  <2>7. \A k \in Conns : Deep(k)' => k \in shut \/ h'[k].fd \in closing
    BY <1>4, <2>3 DEF LateInv
  <2>8. \A k \in Conns : Waits(k)' => Answered(k, h[k].on)'
    BY <1>4, <2>3, <2>4, <2>6 DEF LateInv
  <2> QED BY <1>4, <2>1, <2>5, <2>7, <2>8 DEF LateInv
<1>5. CASE StopLock
  <2>1. /\ stopper = "lock" /\ stopper' = "clients" /\ closing' = client
        /\ UNCHANGED <<sock, shut, h>>
    BY <1>5 DEF StopLock, sockVars
  <2>2. \A c \in Conns : /\ Deep(c) => h[c].fd \in client
                         /\ Active(c) => sock[h[c].fd] = c
                         /\ Deep(c) => Active(c)
                         /\ Waits(c) => h[c].on = c
    BY <2>1, HandlerKinds DEF EarlyInv
  <2>3. \A c \in Conns : (Deep(c)' <=> Deep(c)) /\ (Active(c)' <=> Active(c)) /\ (Waits(c)' <=> Waits(c))
    BY <2>1 DEF Deep, Active, Waits
  <2> QED BY <2>1, <2>2, <2>3 DEF LateInv, Answered
<1>6. CASE StopShutdown
  <2>1. /\ stopper = "clients" /\ stopper' = "shut" /\ closing # {}
        /\ shut' = shut \cup ({sock[First(closing)]} \ {NoConn})
        /\ UNCHANGED <<closing, sock, h>>
    BY <1>6 DEF StopShutdown
  <2>2. \A c \in Conns : /\ (Deep(c)' <=> Deep(c)) /\ (Active(c)' <=> Active(c))
                         /\ (Waits(c)' <=> Waits(c)) /\ (Late(c)' <=> Late(c))
                         /\ c # NoConn /\ (Waits(c) => h[c].on \in Conns)
    BY <2>1, TelnetAssumption DEF Deep, Active, Waits, Late, TypeOK
  <2> QED BY <2>1, <2>2 DEF LateInv, Answered
<1>7. CASE StopClose
  <2> DEFINE f == First(closing)
  <2>1. /\ stopper = "shut" /\ stopper' = "clients" /\ closing' = closing \ {f}
        /\ sock' = [sock EXCEPT ![f] = NoConn]
        /\ UNCHANGED <<shut, h>>
    BY <1>7 DEF StopClose
  <2>2. \A fd \in Fds : fd # f => sock'[fd] = sock[fd]
    BY <2>1 DEF TypeOK
  <2>3. \A c \in Conns : /\ (Deep(c)' <=> Deep(c)) /\ (Active(c)' <=> Active(c))
                         /\ (Waits(c)' <=> Waits(c)) /\ (Late(c)' <=> Late(c))
                         /\ (Waits(c) => h[c].on \in Conns)
                         /\ (Deep(c) \/ Late(c) => h[c].fd \in Fds)
    BY <2>1, HandlerKinds DEF Deep, Active, Waits, Late, TypeOK, SocketInv
  <2>4. f \in closing
    BY <2>1, ClosingNumber DEF LateInv, Answered
  <2> HIDE DEF f
  <2>5. \A c \in Conns : Deep(c) => c \in shut \/ h[c].fd \in closing \ {f}
    BY <2>1 DEF LateInv, f
  <2> QED BY <2>1, <2>2, <2>3, <2>4, <2>5 DEF LateInv, Answered
<1>8. CASE StopClear \/ StopListening
  <2>1. /\ stopper \in {"clients", "listener"} /\ stopper' \in {"listener", "done"}
        /\ closing' = closing /\ closing = {}
        /\ UNCHANGED <<sock, shut, h>>
    BY <1>8 DEF StopClear, StopListening, sockVars, LateInv
  <2> QED BY <2>1 DEF LateInv, Answered, Deep, Active, Waits, Late
<1>9. CASE UNCHANGED <<running, stopper, closing, client, sock, shut, h>>
  BY <1>9 DEF LateInv, Answered, Deep, Active, Waits, Late
<1>10. CASE stopper' \in {"stdin", "lock"}
  BY <1>10 DEF LateInv, Answered
<1>11. stopper \in {"stdin", "lock"} =>
         \/ stopper' \in {"stdin", "lock"}
         \/ StopLock
  <2>1. \A c \in Conns : /\ Moves(c) \/ Register(c) \/ Erase(c) => stopper' = stopper
                         /\ Close(c) \/ Accept(c) => stopper' = stopper
    BY DEF Moves, Register, Erase, Close, Accept, stopVars
  <2> QED BY <2>1, StepCases DEF StopTyped, StopShutdown, StopClose, StopClear, StopListening
<1>12. StopTyped => stopper' = "lock"
  BY DEF StopTyped
<1> QED BY <1>1, <1>2, <1>3, <1>4, <1>5, <1>6, <1>7, <1>8, <1>9, <1>10, <1>11, <1>12, StepCases

-----------------------------------------------------------------------------
\* The calls of the database.

LEMMA FindDayProperties ==
  ASSUME days \in Seq(Day), NEW date
  PROVE  /\ FindDay(date) = 0 => \A d \in DOMAIN days : days[d].date # date
         /\ FindDay(date) # 0 => FindDay(date) \in DOMAIN days
         /\ FindDay(date) \in Nat
<1>1. DaysOf(days, date) \in SUBSET Nat /\ 0 \notin DaysOf(days, date)
  BY LenProperties DEF DaysOf
<1>2. CASE DaysOf(days, date) = {}
  BY <1>2 DEF FindDay, DaysOf
<1>3. CASE DaysOf(days, date) # {}
  <2>1. First(DaysOf(days, date)) \in DaysOf(days, date)
    BY <1>1, <1>3, FirstIsLeast
  <2> QED BY <1>1, <1>3, <2>1 DEF FindDay, DaysOf
<1> QED BY <1>2, <1>3

\* push_back of a new day, or of an appointment into one.
PushBack(ds, d, o) ==
  IF d = 0 THEN Append(ds, [date |-> o.apt.date, appointments |-> <<o>>])
  ELSE WithAppointments(ds, d, Append(ds[d].appointments, o))

LEMMA AddKeepsDays ==
  ASSUME NEW ds \in Seq(Day), NEW d \in {0} \cup DOMAIN ds, NEW o \in Object
  PROVE  /\ PushBack(ds, d, o) \in Seq(Day)
         /\ DOMAIN ds \subseteq DOMAIN PushBack(ds, d, o)
         /\ UniqueDates(ds) =>
              \/ UniqueDates(PushBack(ds, d, o))
              \/ d = 0 /\ \E e \in DOMAIN ds : ds[e].date = o.apt.date
<1> DEFINE nd == PushBack(ds, d, o)
<1>1. DOMAIN ds = 1 .. Len(ds) /\ Len(ds) \in Nat
  BY LenProperties
<1>2. CASE d = 0
  <2> DEFINE day == [date |-> o.apt.date, appointments |-> <<o>>]
  <2>1. day \in Day /\ day.date = o.apt.date
    BY DEF Day, Object, Appointment
  <2> HIDE DEF day
  <2>2. nd = Append(ds, day)
    BY <1>2 DEF day, PushBack
  <2> HIDE DEF nd
  <2>3. /\ nd \in Seq(Day) /\ DOMAIN nd = 1 .. Len(ds) + 1
        /\ \A e \in DOMAIN ds : nd[e] = ds[e]
        /\ nd[Len(ds) + 1] = day
    BY <1>1, <2>1, <2>2, AppendProperties, LenProperties
  <2>4. \A e \in DOMAIN nd : e \in DOMAIN ds \/ e = Len(ds) + 1
    BY <1>1, <2>3
  <2>5. DOMAIN ds \subseteq DOMAIN nd
    BY <1>1, <2>3
  <2>6. ASSUME UniqueDates(ds), \A e \in DOMAIN ds : ds[e].date # o.apt.date
        PROVE  UniqueDates(nd)
    BY ONLY <2>1, <2>3, <2>4, <2>6 DEF UniqueDates
  <2> QED BY <1>2, <2>3, <2>5, <2>6 DEF nd
<1>3. CASE d # 0
  <2> DEFINE objs == Append(ds[d].appointments, o)
  <2>1. objs \in Seq(Object)
    BY <1>3, DayType, AppendProperties
  <2>2. nd = WithAppointments(ds, d, objs)
    BY <1>3 DEF PushBack
  <2> HIDE DEF objs, nd
  <2>3. /\ nd \in Seq(Day) /\ DOMAIN nd = DOMAIN ds
        /\ \A e \in DOMAIN ds : nd[e].date = ds[e].date
    BY <1>3, <2>1, <2>2, UpdateDay
  <2>4. UniqueDates(ds) => UniqueDates(nd)
    BY ONLY <2>3 DEF UniqueDates
  <2> QED BY <2>3, <2>4 DEF nd
<1> QED BY <1>2, <1>3

LEMMA DeleteKeepsDays ==
  ASSUME NEW ds \in Seq(Day), NEW d \in DOMAIN ds, NEW apt
  PROVE  LET objs == ds[d].appointments
             nd   == WithAppointments(ds, d, DeleteAt(objs, GetIndex(objs, apt)))
         IN  /\ nd \in Seq(Day) /\ DOMAIN nd = DOMAIN ds
             /\ UniqueDates(ds) => UniqueDates(nd)
<1> DEFINE objs == ds[d].appointments
           k    == GetIndex(objs, apt)
<1>1. objs \in Seq(Object) /\ DOMAIN objs = 1 .. Len(objs) /\ Len(objs) \in Nat
  BY DayType, LenProperties
<1> HIDE DEF objs
<1>2. DeleteAt(objs, k) \in Seq(Object)
  <2>1. CASE k \in DOMAIN objs
    BY <1>1, <2>1, RemoveAtProperties DEF DeleteAt
  <2>2. CASE k \notin DOMAIN objs
    BY <1>1, <2>2 DEF DeleteAt
  <2> QED BY <2>1, <2>2
<1> DEFINE nd == WithAppointments(ds, d, DeleteAt(objs, k))
<1>3. /\ nd \in Seq(Day) /\ DOMAIN nd = DOMAIN ds
      /\ \A e \in DOMAIN ds : nd[e].date = ds[e].date
  BY <1>2, UpdateDay
<1> HIDE DEF nd
<1>4. UniqueDates(ds) => UniqueDates(nd)
  BY ONLY <1>3 DEF UniqueDates
<1> QED BY <1>3, <1>4 DEF nd, objs, k

DbTypes ==
  /\ days \in Seq(Day)
  /\ nextId \in 1 .. MaxObjects + 1
  /\ use \in [Conns -> [day : Nat, objs : SUBSET Object]]

\* What a handler's use of the database is when its call begins.
NewUse(c, u) ==
  /\ use' = [use EXCEPT ![c] = u]
  /\ dbAlive => u.day \in {0} \cup DOMAIN days
  /\ h[c].cmd = "delete" /\ u.objs # {} => u.day # 0
  /\ h[c].cmd = "add" => \A o \in u.objs : u.day = FindDay(o.apt.date)
  /\ h[c].cmd # "add" => u.objs \subseteq Live
  /\ nextId' \in 1 .. MaxObjects + 1

\* A call begins: only the handler's own use of the database is new.
LEMMA BeginStep ==
  ASSUME TypeOK, CallInv, NEW c \in Conns, Begin(c)
  PROVE  DbTypes' /\ CallInv'
<1>1. EnterDb(c)
  BY DEF Begin, BeginAdd, BeginDelete, BeginRead
<1>2. /\ \A k \in Conns \ {c} : h'[k] = h[k]
      /\ h[c].pc = "enter" /\ h'[c].pc = "leave" /\ h'[c].cmd = h[c].cmd
  BY <1>1, EnterMoves DEF Moves
<1>3. /\ days' = days
      /\ ~raced' => ~raced /\ \A k \in Inside : ~Writes(h[c].cmd) /\ ~Writes(h[k].cmd)
  BY <1>1 DEF EnterDb
<1>4. Inside' = Inside \cup {c} /\ c \notin Inside /\ \A k \in Conns : h'[k].cmd = h[k].cmd
  BY <1>2 DEF Inside
<1>5. \E u \in [day : Nat, objs : SUBSET Object] : NewUse(c, u)
  <2>1. ASSUME NEW b \in Bookings, BeginAdd(c, b)
        PROVE  \E u \in [day : Nat, objs : SUBSET Object] : NewUse(c, u)
    <3> DEFINE o == [id |-> nextId, apt |-> b]
               u == [day |-> FindDay(b.date), objs |-> {o}]
    <3>1. o \in Object /\ o.apt = b
      BY TelnetAssumption DEF Object, TypeOK
    <3>2. FindDay(b.date) \in {0} \cup DOMAIN days /\ FindDay(b.date) \in Nat
      BY FindDayProperties DEF TypeOK
    <3>3. u \in [day : Nat, objs : SUBSET Object] /\ u.day = FindDay(b.date) /\ u.objs = {o}
      BY <3>1, <3>2
    <3>4. use' = [use EXCEPT ![c] = u] /\ h[c].cmd = "add"
      BY <2>1 DEF BeginAdd
    <3>5. nextId' \in 1 .. MaxObjects + 1
      BY <2>1, TelnetAssumption DEF BeginAdd, TypeOK
    <3> HIDE DEF o, u
    <3> QED BY <3>1, <3>2, <3>3, <3>4, <3>5 DEF NewUse
  <2>2. ASSUME NEW b \in Bookings, BeginDelete(c, b)
        PROVE  \E u \in [day : Nat, objs : SUBSET Object] : NewUse(c, u)
    <3> DEFINE d == FindDay(b.date)
               u == [day |-> d, objs |-> IF d = 0 THEN {}
                                         ELSE Selected(days[d].appointments, b.time, b.contactee)]
    <3>1. d \in {0} \cup DOMAIN days /\ d \in Nat
      BY FindDayProperties DEF TypeOK
    <3>2. use' = [use EXCEPT ![c] = u] /\ h[c].cmd = "delete" /\ nextId' = nextId
      BY <2>2 DEF BeginDelete
    <3> HIDE DEF d
    <3>3. u \in [day : Nat, objs : SUBSET Object] /\ u.day = d /\ u.objs \subseteq Live
          /\ (u.objs # {} => d # 0)
      <4>1. CASE d = 0
        BY <3>1, <4>1
      <4>2. CASE d # 0
        <5>1. days[d].appointments \in Seq(Object)
          BY <3>1, <4>2, DayType DEF TypeOK
        <5>2. /\ Selected(days[d].appointments, b.time, b.contactee) \subseteq
                   ToSet(days[d].appointments)
              /\ ToSet(days[d].appointments) \subseteq Object
          BY <5>1, SelectedFromDay
        <5>3. ToSet(days[d].appointments) \subseteq Live
          BY <3>1, <4>2 DEF Live
        <5> QED BY <3>1, <4>2, <5>2, <5>3
      <4> QED BY <4>1, <4>2
    <3> HIDE DEF u
    <3>4. nextId' \in 1 .. MaxObjects + 1
      BY <3>2 DEF TypeOK
    <3> QED BY <3>1, <3>2, <3>3, <3>4 DEF NewUse
  <2>3. ASSUME NEW k \in Text, BeginRead(c, k)
        PROVE  \E u \in [day : Nat, objs : SUBSET Object] : NewUse(c, u)
    <3> DEFINE u == [use[c] EXCEPT !.objs = ToSet(DbSearch(days, k))]
    <3>1. use' = [use EXCEPT ![c] = u] /\ h[c].cmd \in {"view", "search"} /\ nextId' = nextId
      BY <2>3 DEF BeginRead, TypeOK
    <3>2. ToSet(DbSearch(days, k)) \subseteq Live /\ ToSet(DbSearch(days, k)) \subseteq Object
      <4>1. DbSearch(days, k) \in Seq(Object) /\ ToSet(DbSearch(days, k)) \subseteq Live
        BY SearchFindsBookings DEF TypeOK, Live
      <4> QED BY <4>1, ObjectType DEF ToSet
    <3>3. u \in [day : Nat, objs : SUBSET Object] /\ u.day = use[c].day /\ u.objs \subseteq Live
      <4>1. use[c] \in [day : Nat, objs : SUBSET Object]
        BY DEF TypeOK
      <4> QED BY <3>2, <4>1
    <3> HIDE DEF u
    <3>4. nextId' \in 1 .. MaxObjects + 1 /\ (dbAlive => use[c].day \in {0} \cup DOMAIN days)
      BY <3>1 DEF TypeOK, CallInv
    <3> QED BY <3>1, <3>3, <3>4 DEF NewUse
  <2> QED BY <2>1, <2>2, <2>3 DEF Begin
<1>6. PICK u \in [day : Nat, objs : SUBSET Object] : NewUse(c, u)
  BY <1>5
<1>7. use'[c] = u /\ \A k \in Conns \ {c} : use'[k] = use[k]
  BY <1>6 DEF NewUse, TypeOK
<1>8. DbTypes'
  BY <1>3, <1>6 DEF DbTypes, NewUse, TypeOK
<1>9. Live' = Live /\ \A date : FindDay(date)' = FindDay(date)
  BY <1>3 DEF Live, FindDay
<1>10. \A k \in Conns : (h[k].pc = "leave" <=> k \in Inside) /\ (h'[k].pc = "leave" <=> k \in Inside')
  BY DEF Inside
<1>11. \A k \in Inside' :
         /\ k \in Conns
         /\ k # c => k \in Inside /\ use'[k] = use[k]
         /\ h'[k].cmd = h[k].cmd
  BY <1>4, <1>7, <1>10 DEF Inside
<1>12. dbAlive' => \A k \in Conns : use'[k].day \in {0} \cup DOMAIN days'
  BY <1>1, <1>3, <1>6, <1>7 DEF CallInv, NewUse, EnterDb
<1>13. ASSUME NEW k \in Inside'
       PROVE  /\ (h'[k].cmd = "delete" /\ use'[k].objs # {}) => use'[k].day # 0
              /\ (~raced' /\ h'[k].cmd = "add") =>
                    \A o \in use'[k].objs : use'[k].day = FindDay(o.apt.date)
              /\ (~raced' /\ h'[k].cmd # "add") => use'[k].objs \subseteq Live
  <2>1. CASE k = c
    <3>1. use'[k] = u /\ h'[k].cmd = h[c].cmd
      BY <1>7, <1>11, <2>1
    <3>2. /\ (h[c].cmd = "delete" /\ u.objs # {}) => u.day # 0
          /\ h[c].cmd = "add" => \A o \in u.objs : u.day = FindDay(o.apt.date)
          /\ h[c].cmd # "add" => u.objs \subseteq Live
      BY <1>6 DEF NewUse
    <3> QED BY ONLY <3>1, <3>2
  <2>2. CASE k # c
    <3>1. k \in Inside /\ use'[k] = use[k] /\ h'[k].cmd = h[k].cmd /\ k \in Conns
      BY <1>11, <2>2
    <3>2. /\ (h[k].cmd = "delete" /\ use[k].objs # {}) => use[k].day # 0
          /\ (~raced /\ h[k].cmd = "add") => \A o \in use[k].objs : use[k].day = FindDay(o.apt.date)
      BY <3>1 DEF CallInv
    <3>3. (~raced /\ h[k].cmd # "add") => use[k].objs \subseteq Live
      BY <1>10, <3>1 DEF CallInv, SoundUnlessRaced
    <3>4. ~raced' => ~raced
      BY <1>3
    <3> QED BY ONLY <3>1, <3>2, <3>3, <3>4
  <2> QED BY <2>1, <2>2
<1>14. ASSUME ~raced', NEW k \in Inside', NEW j \in Inside', k # j
       PROVE  ~Writes(h'[k].cmd)
  <2>1. h'[k].cmd = h[k].cmd /\ (k # c => k \in Inside) /\ (j # c => j \in Inside)
    BY <1>11
  <2>2. CASE k # c /\ j # c
    BY <1>3, <1>14, <2>1, <2>2 DEF CallInv
  <2>3. CASE k = c \/ j = c
    BY <1>3, <1>14, <2>1, <2>3
  <2> QED BY <2>2, <2>3
<1>15. ASSUME ~raced', NEW k \in Inside', h'[k].cmd = "add", NEW o \in use'[k].objs
       PROVE  use'[k].day = FindDay(o.apt.date)'
  <2>1. use'[k].day = FindDay(o.apt.date)
    BY <1>13, <1>15
  <2> QED BY <1>3, <2>1 DEF FindDay
<1>16. ASSUME ~raced', NEW k \in Conns, h'[k].pc = "leave", h'[k].cmd # "add"
       PROVE  use'[k].objs \subseteq Live'
  BY <1>9, <1>10, <1>13, <1>16
<1>17. ~raced' => OneDayPerDate'
  BY <1>3 DEF CallInv, SoundUnlessRaced, OneDayPerDate
<1> QED BY <1>8, <1>12, <1>13, <1>14, <1>15, <1>16, <1>17 DEF CallInv, SoundUnlessRaced

\* A call ends: what it changes stays sound when no other call is under way.
LEMMA EndStep ==
  ASSUME TypeOK, CallInv, NEW c \in Conns, EndUse(c)
  PROVE  DbTypes' /\ CallInv'
<1>1. /\ \A k \in Conns \ {c} : h'[k] = h[k]
      /\ h[c].pc = "leave" /\ h'[c].pc # "leave"
  BY LeaveMoves DEF Moves
<1>2. use' = [use EXCEPT ![c] = NoUse] /\ UNCHANGED <<nextId, raced, dbAlive>>
  BY DEF EndUse, EndAdd, EndDelete, EndRead, Torn, LeaveDb
<1>3. Inside' = Inside \ {c} /\ c \in Inside
  BY <1>1 DEF Inside
<1>4. /\ NoUse \in [day : Nat, objs : SUBSET Object] /\ NoUse.day = 0 /\ NoUse.objs = {}
      /\ use'[c] = NoUse /\ \A k \in Conns \ {c} : use'[k] = use[k]
      /\ use' \in [Conns -> [day : Nat, objs : SUBSET Object]]
  BY <1>2 DEF NoUse, TypeOK
<1>5. /\ days' \in Seq(Day) /\ DOMAIN days \subseteq DOMAIN days'
      /\ ~raced => UniqueDates(days')
      /\ (days' = days \/ Writes(h[c].cmd))
  <2>1. ~raced => UniqueDates(days)
    BY DEF CallInv, SoundUnlessRaced, OneDayPerDate, UniqueDates
  <2>2. CASE EndAdd(c)
    <3>1. PICK o \in use[c].objs : days' = PushBack(days, use[c].day, o)
      BY <2>2 DEF EndAdd, PushBack
    <3>2. /\ o \in Object /\ use[c].day \in {0} \cup DOMAIN days /\ days \in Seq(Day)
          /\ h[c].cmd = "add"
      BY <2>2 DEF EndAdd, TypeOK, CallInv
    <3>3. ~raced => use[c].day = FindDay(o.apt.date)
      BY <1>3, <3>2 DEF CallInv
    <3>4. ~raced /\ use[c].day = 0 => \A e \in DOMAIN days : days[e].date # o.apt.date
      BY <3>2, <3>3, FindDayProperties
    <3>5. /\ days' \in Seq(Day) /\ DOMAIN days \subseteq DOMAIN days'
          /\ UniqueDates(days) =>
               \/ UniqueDates(days')
               \/ use[c].day = 0 /\ \E e \in DOMAIN days : days[e].date = o.apt.date
      BY ONLY <3>1, <3>2, AddKeepsDays
    <3> QED BY ONLY <2>1, <3>2, <3>4, <3>5 DEF Writes
  <2>3. CASE EndDelete(c) /\ use[c].objs # {}
    <3>1. PICK o \in use[c].objs :
            LET objs == days[use[c].day].appointments
            IN  days' = WithAppointments(days, use[c].day, DeleteAt(objs, GetIndex(objs, o.apt)))
      BY <2>3 DEF EndDelete
    <3>2. use[c].day \in DOMAIN days /\ days \in Seq(Day) /\ h[c].cmd = "delete"
      BY <1>3, <2>3 DEF EndDelete, TypeOK, CallInv
    <3> QED BY <2>1, <3>1, <3>2, DeleteKeepsDays DEF Writes
  <2>4. CASE days' = days
    BY <2>1, <2>4 DEF TypeOK
  <2>5. EndAdd(c) \/ (EndDelete(c) /\ use[c].objs # {}) \/ days' = days
    BY DEF EndUse, EndDelete, EndRead, Torn
  <2> QED BY <2>2, <2>3, <2>4, <2>5
<1>6. DbTypes'
  BY <1>2, <1>4, <1>5 DEF DbTypes, TypeOK
<1>7. dbAlive' => \A k \in Conns : use'[k].day \in {0} \cup DOMAIN days'
  BY <1>2, <1>4, <1>5 DEF CallInv
<1>8. \A k \in Inside' : k \in Inside /\ k # c /\ h'[k] = h[k] /\ use'[k] = use[k]
  BY <1>1, <1>3, <1>4 DEF Inside
<1>9. ~raced' => OneDayPerDate'
  BY <1>2, <1>5 DEF OneDayPerDate, UniqueDates
<1>10. ~raced' => days' = days \/ Inside' = {}
  BY <1>2, <1>3, <1>5 DEF CallInv
<1>11. days' = days => Live' = Live /\ \A date : FindDay(date)' = FindDay(date)
  BY DEF Live, FindDay
<1>12. \A k \in Conns : h[k].pc = "leave" <=> k \in Inside
  BY DEF Inside
<1>13. \A k \in Conns : h'[k].pc = "leave" <=> k \in Inside'
  BY DEF Inside
<1>14. SoundUnlessRaced'
  BY <1>2, <1>8, <1>9, <1>10, <1>11, <1>12, <1>13 DEF CallInv, SoundUnlessRaced
<1> QED BY <1>2, <1>6, <1>7, <1>8, <1>10, <1>11, <1>14 DEF CallInv

\* No other step touches the database or a handler that is in it.
LEMMA CallStep ==
  ASSUME TypeOK, SocketInv, CallInv, [Next]_vars
  PROVE  DbTypes' /\ CallInv'
<1> DEFINE Elsewhere == /\ UNCHANGED <<dbVars, dbAlive>>
                        /\ \A k \in Conns : /\ h'[k].pc = "leave" <=> h[k].pc = "leave"
                                            /\ h[k].pc = "leave" => h'[k].cmd = h[k].cmd
<1>1. ASSUME Elsewhere
      PROVE  DbTypes' /\ CallInv'
  <2>1. /\ UNCHANGED <<days, nextId, use, raced, dbAlive>>
        /\ \A k \in Conns : /\ h'[k].pc = "leave" <=> h[k].pc = "leave"
                            /\ h[k].pc = "leave" => h'[k].cmd = h[k].cmd
    BY <1>1 DEF dbVars
  <2>2. DbTypes'
    BY <2>1 DEF DbTypes, TypeOK
  <2>3. Live' = Live /\ OneDayPerDate' = OneDayPerDate /\ \A date : FindDay(date)' = FindDay(date)
    BY <2>1 DEF Live, OneDayPerDate, FindDay
  <2>4. Inside' = Inside /\ \A k \in Inside : h'[k].cmd = h[k].cmd
    BY <2>1 DEF Inside
  <2>5. SoundUnlessRaced'
    BY <2>1, <2>3 DEF CallInv, SoundUnlessRaced
  <2> QED BY <2>1, <2>2, <2>3, <2>4, <2>5 DEF CallInv
<1>2. ASSUME NEW c \in Conns, NEW k \in Conns, h[c].pc # "leave", h'[c].pc # "leave",
             \A j \in Conns \ {c} : h'[j] = h[j]
      PROVE  /\ h'[k].pc = "leave" <=> h[k].pc = "leave"
             /\ h[k].pc = "leave" => h'[k].cmd = h[k].cmd
  BY <1>2
<1>3. ASSUME NEW c \in Conns, Walk(c)
      PROVE  Elsewhere
  <2>1. UNCHANGED <<dbVars, dbAlive>>
    BY <1>3 DEF Walk, Check, Sends, SendThen, ReadFails, ReadCommand, ReadExit, ReadOther,
                ReadAnswer, ReadEnter, Typed
  <2>2. h[c].pc # "leave" /\ h'[c].pc # "leave" /\ \A j \in Conns \ {c} : h'[j] = h[j]
    BY <1>3, WalkMoves DEF Moves
  <2> QED BY <1>2, <2>1, <2>2
<1>4. ASSUME NEW c \in Conns, Register(c) \/ Erase(c)
      PROVE  Elsewhere
  <2>1. PICK to \in {"greet", "close"} : Goto(c, to)
    BY <1>4 DEF Register, Erase
  <2>2. UNCHANGED <<dbVars, dbAlive>> /\ h[c].pc \in {"register", "erase"}
    BY <1>4 DEF Register, Erase
  <2>3. h'[c].pc # "leave" /\ \A j \in Conns \ {c} : h'[j] = h[j]
    BY <2>1, RegistryMoves
  <2> QED BY <1>2, <2>2, <2>3
<1>5. ASSUME NEW c \in Conns, Close(c) \/ Accept(c)
      PROVE  Elsewhere
  <2>1. UNCHANGED <<dbVars, dbAlive>>
    BY <1>5 DEF Close, Accept
  <2>2. /\ h[c].pc # "leave" /\ h'[c].pc # "leave"
        /\ \A j \in Conns \ {c} : h'[j] = h[j]
    BY <1>5, CloseEffect, AcceptEffect
  <2> QED BY <1>2, <2>1, <2>2
<1>6. ASSUME NEW c \in Conns, Connect(c) \/ Hangup(c)
      PROVE  Elsewhere
  BY <1>6 DEF Connect, Hangup
<1>7. CASE MainLoop \/ AcceptFails \/ Exit \/ StopTyped \/ Stopping \/ UNCHANGED vars
  <2>1. UNCHANGED <<dbVars, dbAlive>> /\ h' = h
    BY <1>7 DEF MainLoop, AcceptFails, Exit, StopTyped, Stopping, StopLock, StopShutdown,
                StopClose, StopClear, StopListening, vars, dbVars
  <2> QED BY <1>1, <2>1
<1>8. CASE Destroy
  <2>1. /\ days' = <<>> /\ ~dbAlive' /\ UNCHANGED <<h, nextId, use>>
        /\ ~raced' => Inside = {}
    BY <1>8 DEF Destroy
  <2>2. Inside' = Inside /\ \A c \in Conns : h[c].pc = "leave" => c \in Inside
    BY <2>1 DEF Inside
  <2>3. DbTypes'
    BY <2>1, EmptySeq DEF DbTypes, TypeOK
  <2>4. OneDayPerDate'
    BY <2>1, EmptySeq DEF OneDayPerDate
  <2> QED BY <2>1, <2>2, <2>3, <2>4 DEF CallInv, SoundUnlessRaced
<1> HIDE DEF Elsewhere
<1> QED BY <1>1, <1>3, <1>4, <1>5, <1>6, <1>7, <1>8, BeginStep, EndStep DEF Next, Handler, User, Walk, Main

-----------------------------------------------------------------------------
LEMMA SendToType ==
  ASSUME TypeOK, NEW k, SendTo(k) \/ UNCHANGED <<alive, peer>> \/ (alive' = FALSE /\ peer' = peer)
  PROVE  alive' \in BOOLEAN /\ peer' \in [Conns -> {"new", "open", "closed", "reset"}]
BY DEF SendTo, TypeOK

\* The variables whose type the other lemmas do not give.
PlainTypes ==
  /\ alive \in BOOLEAN /\ running \in BOOLEAN /\ listening \in BOOLEAN
  /\ dbAlive \in BOOLEAN /\ raced \in BOOLEAN /\ mutex \in BOOLEAN
  /\ main \in {"loop", "accept", "returned", "destroyed", "exited"}
  /\ stopper \in {"stdin", "lock", "clients", "shut", "listener", "done"}
  /\ closing \subseteq Fds /\ client \subseteq Fds
  /\ sock \in [Fds -> Conns \cup {NoConn}]
  /\ peer \in [Conns -> {"new", "open", "closed", "reset"}]
  /\ shut \subseteq Conns
  /\ h \in [Conns -> HandlerRecord]

LEMMA PlainStep ==
  ASSUME TypeOK, SocketInv, [Next]_vars
  PROVE  PlainTypes'
<1>1. PlainTypes
  BY DEF TypeOK, PlainTypes, HandlerRecord
<1>2. ASSUME NEW c \in Conns, Moves(c), alive' \in BOOLEAN, raced' \in BOOLEAN,
             peer' \in [Conns -> {"new", "open", "closed", "reset"}],
             UNCHANGED <<main, listening, dbAlive>>
      PROVE  PlainTypes'
  BY <1>1, <1>2 DEF PlainTypes, Moves
<1>3. ASSUME NEW c \in Conns, Walk(c)
      PROVE  PlainTypes'
  <2>1. UNCHANGED <<main, listening, dbAlive, raced>>
    BY <1>3 DEF Walk, Check, Sends, SendThen, ReadFails, ReadCommand, ReadExit, ReadOther,
                ReadAnswer, ReadEnter, Typed, stopVars, dbVars
  <2>2. (\E k : SendTo(k)) \/ UNCHANGED <<alive, peer>>
    BY <1>3 DEF Walk, Check, Sends, SendThen, ReadFails, ReadCommand, ReadExit, ReadOther,
                ReadAnswer, ReadEnter, Typed, Send, sockVars
  <2>3. alive' \in BOOLEAN /\ peer' \in [Conns -> {"new", "open", "closed", "reset"}]
    BY <2>2, SendToType
  <2> QED BY <1>1, <1>2, <1>3, <2>1, <2>3, WalkMoves DEF PlainTypes
<1>4. ASSUME NEW c \in Conns, Begin(c)
      PROVE  PlainTypes'
  <2>1. EnterDb(c)
    BY <1>4 DEF Begin, BeginAdd, BeginDelete, BeginRead
  <2>2. UNCHANGED <<alive, peer, main, listening, dbAlive>>
    BY <2>1 DEF EnterDb, sockVars, stopVars
  <2>3. raced' \in BOOLEAN
    BY <2>1 DEF EnterDb
  <2> QED BY <1>1, <1>2, <2>1, <2>2, <2>3, EnterMoves DEF PlainTypes
<1>5. ASSUME NEW c \in Conns, EndUse(c)
      PROVE  PlainTypes'
  <2>1. UNCHANGED <<main, listening, dbAlive, raced>>
    BY <1>5 DEF EndUse, EndAdd, EndDelete, EndRead, Torn, LeaveDb, stopVars
  <2>2. (\E k : SendTo(k)) \/ UNCHANGED <<alive, peer>> \/ (alive' = FALSE /\ peer' = peer)
    BY <1>5 DEF EndUse, EndAdd, EndDelete, EndRead, Torn, Send
  <2>3. alive' \in BOOLEAN /\ peer' \in [Conns -> {"new", "open", "closed", "reset"}]
    BY <2>2, SendToType
  <2> QED BY <1>1, <1>2, <1>5, <2>1, <2>3, LeaveMoves DEF PlainTypes
<1>6. ASSUME NEW c \in Conns, Register(c) \/ Erase(c)
      PROVE  PlainTypes'
  <2>1. PICK to \in {"greet", "close"} : Goto(c, to)
    BY <1>6 DEF Register, Erase
  <2>2. h' \in [Conns -> HandlerRecord]
    BY <2>1, RegistryMoves
  <2>3. Active(c)
    BY <1>6 DEF Register, Erase, Active
  <2>4. client' \subseteq Fds
    BY <1>1, <1>6, <2>3 DEF Register, Erase, SocketInv, PlainTypes
  <2> QED BY <1>1, <1>6, <2>2, <2>4 DEF Register, Erase, PlainTypes, stopVars, sockVars, dbVars
<1>7. ASSUME NEW c \in Conns, Close(c)
      PROVE  PlainTypes'
  <2>1. h' \in [Conns -> HandlerRecord]
    BY <1>7, CloseEffect
  <2>2. h[c].fd \in Fds
    BY <1>7 DEF Close, SocketInv, Active
  <2>3. shut' \subseteq Conns /\ sock' \in [Fds -> Conns \cup {NoConn}]
    BY <1>1, <1>7, <2>2 DEF Close, PlainTypes
  <2> QED BY <1>1, <1>7, <2>1, <2>3 DEF Close, PlainTypes, stopVars, dbVars
<1>8. ASSUME NEW c \in Conns, Accept(c)
      PROVE  PlainTypes'
  <2>1. h' \in [Conns -> HandlerRecord] /\ UNCHANGED <<running, stopper, closing, mutex, client, shut>>
    BY <1>8, AcceptEffect
  <2>2. sock' \in [Fds -> Conns \cup {NoConn}]
    BY <1>1, <1>8 DEF Accept, PlainTypes
  <2>3. alive' \in BOOLEAN /\ peer' \in [Conns -> {"new", "open", "closed", "reset"}]
    BY <1>8, SendToType DEF Accept
  <2>4. main' = "loop" /\ UNCHANGED <<listening, dbAlive, raced>>
    BY <1>8 DEF Accept, stopVars, dbVars
  <2> QED BY <1>1, <2>1, <2>2, <2>3, <2>4 DEF PlainTypes
<1>9. ASSUME NEW c \in Conns, Connect(c) \/ Hangup(c)
      PROVE  PlainTypes'
  BY <1>1, <1>9 DEF Connect, Hangup, PlainTypes, stopVars, dbVars
<1>10. CASE MainLoop \/ AcceptFails \/ Destroy \/ Exit
  BY <1>1, <1>10 DEF MainLoop, AcceptFails, Destroy, Exit, PlainTypes, stopVars, sockVars, dbVars
<1>11. CASE StopTyped \/ StopLock \/ StopClear \/ StopListening
  BY <1>1, <1>11 DEF StopTyped, StopLock, StopClear, StopListening, PlainTypes, sockVars, dbVars
<1>12. CASE StopShutdown \/ StopClose
  <2>1. /\ closing' \subseteq Fds /\ stopper' \in {"shut", "clients"}
        /\ UNCHANGED <<alive, running, main, listening, mutex, client, peer, h, raced, dbAlive>>
    BY <1>1, <1>12 DEF StopShutdown, StopClose, PlainTypes, dbVars
  <2>2. sock' \in [Fds -> Conns \cup {NoConn}]
    BY <1>1, <1>12 DEF StopShutdown, StopClose, PlainTypes
  <2>3. shut' \subseteq Conns
    <3>1. CASE StopShutdown
      <4>1. sock[First(closing)] \in Conns \cup {NoConn}
        BY <1>1, <3>1, ClosingNumber DEF StopShutdown, PlainTypes
      <4> QED BY <1>1, <3>1, <4>1 DEF StopShutdown, PlainTypes
    <3> QED BY <1>1, <1>12, <3>1 DEF StopClose, PlainTypes
  <2> QED BY <1>1, <2>1, <2>2, <2>3 DEF PlainTypes
<1>13. CASE UNCHANGED vars
  BY <1>1, <1>13 DEF PlainTypes, vars
<1> QED BY <1>3, <1>4, <1>5, <1>6, <1>7, <1>8, <1>9, <1>10, <1>11, <1>12, <1>13
        DEF Next, Handler, User, Walk, Main, Stopping

-----------------------------------------------------------------------------
LEMMA InitInv == Init => TelnetInv
<1> SUFFICES ASSUME Init PROVE TelnetInv
  OBVIOUS
<1>1. NoHandler \in HandlerRecord /\ NoHandler.pc = "none" /\ NoHandler.on = NoConn
  BY DEF NoHandler, HandlerRecord, HandlerPcs
<1>2. \A c \in Conns : h[c].pc = "none" /\ h[c].on = NoConn
  BY <1>1 DEF Init
<1>3. TypeOK
  <2>1. NoUse \in [day : Nat, objs : SUBSET Object]
    BY DEF NoUse
  <2>2. days \in Seq(Day) /\ nextId \in 1 .. MaxObjects + 1
    BY EmptySeq, TelnetAssumption DEF Init
  <2>3. h \in [Conns -> HandlerRecord]
    BY <1>1 DEF Init
  <2> QED BY <2>1, <2>2, <2>3 DEF Init, TypeOK, HandlerRecord
<1>4. SocketInv /\ EarlyInv /\ LateInv
  BY <1>2 DEF Init, SocketInv, EarlyInv, LateInv, Active, Waits, Registered, Blocked
<1>5. CallInv
  <2>1. Inside = {} /\ DOMAIN days = {}
    BY <1>2, EmptySeq DEF Init, Inside
  <2>2. \A c \in Conns : use[c].day = 0
    BY DEF Init, NoUse
  <2> QED BY <1>2, <2>1, <2>2 DEF CallInv, SoundUnlessRaced, OneDayPerDate
<1> QED BY <1>3, <1>4, <1>5 DEF TelnetInv

LEMMA NextInv == TelnetInv /\ [Next]_vars => TelnetInv'
<1> SUFFICES ASSUME TelnetInv, [Next]_vars PROVE TelnetInv'
  OBVIOUS
<1>1. TypeOK /\ SocketInv /\ EarlyInv /\ LateInv /\ CallInv
  BY DEF TelnetInv
<1>2. TypeOK'
  BY <1>1, PlainStep, CallStep DEF PlainTypes, DbTypes, TypeOK, HandlerRecord
<1>3. SocketInv' /\ CallInv'
  BY <1>1, SocketStep, CallStep
<1>4. EarlyInv' /\ LateInv'
  BY <1>1, <1>2, EarlyStep, LateStep
<1> QED BY <1>2, <1>3, <1>4 DEF TelnetInv

LEMMA Invariance == Spec => []TelnetInv
BY InitInv, NextInv, PTL DEF Spec

\* Every variable of the server keeps its type, and no handler works with a number that
\* accept did not return.
THEOREM TypeCorrectness == Spec => []TypeOK
<1>1. TelnetInv => TypeOK
  BY DEF TelnetInv
<1> QED BY <1>1, Invariance, PTL

\* Until "stop" is typed the registry is the descriptors of the handlers between their
\* insert and their erase, and each number is still that handler's own connection.
THEOREM RegistryExactness == Spec => []RegistryIsExact
<1>1. TelnetInv => RegistryIsExact
  BY DEF TelnetInv, EarlyInv, RegistryIsExact
<1> QED BY <1>1, Invariance, PTL

\* Once stop() has been through the registry, no handler is blocked in recv on a connection
\* that stays open: neither one that registered late, nor one whose number was closed under
\* it and given out again.
THEOREM StopReachesEveryHandler == Spec => []NoWaitAfterStop
<1>1. ASSUME TelnetInv, stopper \in {"listener", "done"}, NEW c \in Conns, Waits(c)
      PROVE  h[c].on \in shut \/ Late(h[c].on)
  <2>1. Deep(c) /\ closing = {} /\ stopper \notin {"stdin", "lock"}
    BY <1>1 DEF TelnetInv, LateInv, Waits, Deep, Blocked
  <2>2. c \in shut /\ Answered(c, h[c].on)
    BY <1>1, <2>1 DEF TelnetInv, LateInv
  <2> QED BY <2>2 DEF Answered
<1>2. TelnetInv => NoWaitAfterStop
  BY <1>1 DEF NoWaitAfterStop, Waits, Late
<1> QED BY <1>2, Invariance, PTL

\* As long as no two handlers were in the database at once, one of them writing, and none
\* was there when main deleted it or after, no date has two days and every pointer a search
\* or a delete holds leads to a live appointment.
THEOREM UnlockedDatabase == Spec => []SoundUnlessRaced
<1>1. TelnetInv => SoundUnlessRaced
  BY DEF TelnetInv, CallInv
<1> QED BY <1>1, Invariance, PTL
=============================================================================
