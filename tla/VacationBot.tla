---------------------------- MODULE VacationBot ----------------------------
(***************************************************************************)
(* The vacation responder (Prac7): a loop that opens two POP3 sessions,    *)
(* one that marks the newest mail deleted and takes the mark back, one     *)
(* that answers the mails about "prac7" it has not handled.  Handled mails *)
(* are remembered in memory and appended to a file; the vacation starts    *)
(* anew with every start of the program.  The mail server and the owner of *)
(* the mailbox are the environment.                                        *)
(***************************************************************************)
EXTENDS Integers, Sequences, FiniteSets, SequencesExt

CONSTANTS
  Mails,       \* the mails that may arrive; an element stands for its UIDL
  Prac7,       \* those with "prac7" in their subject
  MaxClock,    \* bound: seconds that pass
  MaxStarts,   \* bound: starts of the program
  MaxFailures  \* bound: errors the servers answer with, lost connections, and
               \* appends the file system refuses

ASSUME BotAssumption ==
  /\ IsFiniteSet(Mails) /\ Prac7 \subseteq Mails
  /\ MaxClock \in Nat \ {0} /\ MaxStarts \in Nat /\ MaxFailures \in Nat

VARIABLES
  clock,    \* time(0)
  mailbox,  \* the mails on the server, in the order of their numbers
  gone,     \* the mails the owner removed
  date,     \* a mail's Date header, 0 when there is none, -1 before it arrives
  session,  \* the POP3 session: whether it is open, the mails it shows, the marked ones
  pc,       \* the step of the loop, "down" when the program does not run
  i,        \* the loop index of runVacationResponder
  vacation, \* vacationStart
  handled,  \* handledUIDLs
  file,     \* the lines of handled_uidls.txt
  keepRunning,
  replies,  \* history: how often the SMTP server took a reply to a mail
  said,     \* history: the mails "SUCCESS" was printed for
  unreset,  \* history: the mails that were marked when RSET was refused
  starts,   \* history: the vacationStart of every run
  failures  \* failures so far

vars == <<clock, mailbox, gone, date, session, pc, i, vacation, handled, file, keepRunning,
          replies, said, unreset, starts, failures>>

mailVars    == <<clock, mailbox, gone, date>>
runVars     == <<vacation, handled, file, keepRunning, starts>>
historyVars == <<replies, said, unreset>>

NoSession == [open |-> FALSE, mails |-> <<>>, marks |-> {}]

\* Every variable has its type, and the loop index is a mail number.
TypeOK ==
  /\ clock \in 1 .. MaxClock /\ vacation \in 0 .. MaxClock
  /\ mailbox \in Seq(Mails) /\ gone \subseteq Mails
  /\ date \in [Mails -> -1 .. MaxClock]
  /\ session \in [open : BOOLEAN, mails : Seq(Mails), marks : SUBSET Mails]
  /\ pc \in {"down", "loop", "demo", "marked", "unmarked", "connect", "next", "top",
             "hung", "reply", "handle", "wait"}
  /\ i \in 1 .. Len(session.mails) + 1
  /\ handled \subseteq Mails /\ file \subseteq Mails
  /\ keepRunning \in BOOLEAN
  /\ replies \in [Mails -> 0 .. MaxStarts]
  /\ said \subseteq Mails /\ unreset \subseteq Mails
  /\ starts \in Seq(1 .. MaxClock)
  /\ failures \in 0 .. MaxFailures

Init ==
  /\ clock = 1 /\ mailbox = <<>> /\ gone = {}
  /\ date = [m \in Mails |-> -1]
  /\ session = NoSession
  /\ pc = "down" /\ i = 1 /\ vacation = 0
  /\ handled = {} /\ file = {} /\ keepRunning = FALSE
  /\ replies = [m \in Mails |-> 0] /\ said = {} /\ unreset = {}
  /\ starts = <<>> /\ failures = 0

-----------------------------------------------------------------------------
\* The environment.

Tick ==
  /\ clock < MaxClock
  /\ clock' = clock + 1
  /\ UNCHANGED <<mailbox, gone, date, session, pc, i, runVars, historyVars, failures>>

\* The date is the sender's: it may be missing, early or late.
Arrive(m, d) ==
  /\ date[m] = -1
  /\ date' = [date EXCEPT ![m] = d]
  /\ mailbox' = Append(mailbox, m)
  /\ UNCHANGED <<clock, gone, session, pc, i, runVars, historyVars, failures>>

\* The mails but those removed, in their order.
Without(mails, removed) ==
  LET kept[n \in 0 .. Len(mails)] ==
        IF n = 0 THEN <<>>
        ELSE IF mails[n] \in removed THEN kept[n - 1] ELSE Append(kept[n - 1], mails[n])
  IN  kept[Len(mails)]

\* The owner removes a mail with another client; a session locks the mailbox.
OwnerRemoves(m) ==
  /\ ~session.open
  /\ m \in ToSet(mailbox)
  /\ gone' = gone \cup {m}
  /\ mailbox' = Without(mailbox, {m})
  /\ UNCHANGED <<clock, date, session, pc, i, runVars, historyVars, failures>>

Fail == failures < MaxFailures /\ failures' = failures + 1

\* The connection is lost, or closed by the server when it idles: no mark counts.
LoseConnection ==
  /\ session.open
  /\ IF pc = "hung" THEN UNCHANGED failures ELSE Fail
  /\ session' = [session EXCEPT !.open = FALSE, !.marks = {}]
  /\ UNCHANGED <<mailVars, pc, i, runVars, historyVars>>

-----------------------------------------------------------------------------
\* main

Start ==
  /\ pc = "down" /\ Len(starts) < MaxStarts
  /\ vacation' = clock
  /\ starts' = Append(starts, clock)
  /\ handled' = file
  /\ keepRunning' = TRUE
  /\ pc' = "loop"
  /\ UNCHANGED <<mailVars, session, i, file, historyVars, failures>>

\* A mutant of LoopTop: the loop does not look at keepRunning.
LoopForever ==
  /\ pc = "loop"
  /\ pc' = "demo"
  /\ UNCHANGED <<mailVars, session, i, runVars, historyVars, failures>>

\* while (keepRunning)
LoopTop ==
  /\ pc = "loop"
  /\ pc' = IF keepRunning THEN "demo" ELSE "down"
  /\ UNCHANGED <<mailVars, session, i, runVars, historyVars, failures>>

\* Thirty seconds, or less once interrupted.
Wait ==
  /\ pc = "wait"
  /\ pc' = "loop"
  /\ UNCHANGED <<mailVars, session, i, runVars, historyVars, failures>>

\* signalHandler
Interrupt ==
  /\ pc # "down" /\ keepRunning
  /\ keepRunning' = FALSE
  /\ UNCHANGED <<mailVars, session, pc, i, vacation, handled, file, starts, historyVars, failures>>

\* The program dies anywhere, by SIGPIPE on a lost connection for one.
Crash ==
  /\ pc # "down"
  /\ pc' = "down"
  /\ session' = NoSession /\ i' = 1
  /\ UNCHANGED <<mailVars, runVars, historyVars, failures>>

-----------------------------------------------------------------------------
\* demoDeleteAndReset

\* USER, PASS and STAT, which counts the mails.
Open(marks) == session' = [open |-> TRUE, mails |-> mailbox, marks |-> marks]

\* QUIT, after which the server removes what is marked; its answer is not read.
Quit ==
  /\ mailbox' = Without(mailbox, session.marks)
  /\ session' = NoSession /\ i' = 1
  /\ UNCHANGED <<clock, gone, date>>

\* The newest mail is marked with DELE.
DemoDelete ==
  /\ pc = "demo" /\ mailbox # <<>>
  /\ Open({mailbox[Len(mailbox)]})
  /\ pc' = "marked"
  /\ UNCHANGED <<mailVars, i, runVars, historyVars, failures>>

\* No mail, or the server cannot be reached, does not let the program in or refuses
\* the DELE: nothing is marked.
DemoNothing ==
  /\ pc = "demo"
  /\ pc' = "connect"
  /\ UNCHANGED <<mailVars, session, i, runVars, historyVars, failures>>

\* A mutant of DemoReset: RSET is left out.
DemoKeepMarks ==
  /\ pc = "marked"
  /\ pc' = "unmarked"
  /\ UNCHANGED <<mailVars, session, i, runVars, historyVars, failures>>

\* RSET.  On a connection that was lost nothing is marked any more.
DemoReset ==
  /\ pc = "marked"
  /\ session' = [session EXCEPT !.marks = {}]
  /\ pc' = "unmarked"
  /\ UNCHANGED <<mailVars, i, runVars, historyVars, failures>>

\* A refused RSET is reported, and QUIT is sent all the same: it removes the mail.
DemoResetRefused ==
  /\ pc = "marked" /\ session.open
  /\ Fail
  /\ unreset' = unreset \cup session.marks
  /\ pc' = "unmarked"
  /\ UNCHANGED <<mailVars, session, i, runVars, replies, said>>

DemoQuit ==
  /\ pc = "unmarked"
  /\ Quit
  /\ pc' = "connect"
  /\ UNCHANGED <<runVars, historyVars, failures>>

-----------------------------------------------------------------------------
\* runVacationResponder

Connect ==
  /\ pc = "connect"
  /\ Open({}) /\ i' = 1
  /\ pc' = "next"
  /\ UNCHANGED <<mailVars, runVars, historyVars, failures>>

\* No connection, or the server still holds the mailbox for the demo's session and
\* its answer to STAT has no count.
ConnectFails ==
  /\ pc = "connect"
  /\ pc' = "wait"
  /\ UNCHANGED <<mailVars, session, i, runVars, historyVars, failures>>

Current == session.mails[i]

Skip == i' = i + 1 /\ pc' = "next"

\* A mutant of CheckUidl: a handled mail ends the loop.
StopAtHandled ==
  /\ pc = "next" /\ session.open /\ i <= Len(session.mails)
  /\ IF Current \in handled THEN i' = Len(session.mails) + 1 /\ UNCHANGED pc
     ELSE pc' = "top" /\ UNCHANGED i
  /\ UNCHANGED <<mailVars, session, runVars, historyVars, failures>>

\* UIDL, and the look into handledUIDLs.
CheckUidl ==
  /\ pc = "next" /\ session.open /\ i <= Len(session.mails)
  /\ IF Current \in handled THEN Skip ELSE pc' = "top" /\ UNCHANGED i
  /\ UNCHANGED <<mailVars, session, runVars, historyVars, failures>>

UidlFails ==
  /\ pc = "next" /\ session.open /\ i <= Len(session.mails)
  /\ Fail
  /\ Skip
  /\ UNCHANGED <<mailVars, session, runVars, historyVars>>

\* Without a connection every UIDL that is left fails.
EndLoop ==
  /\ pc = "next"
  /\ ~session.open \/ i > Len(session.mails)
  /\ Quit
  /\ pc' = "wait"
  /\ UNCHANGED <<runVars, historyVars, failures>>

\* A mutant of ReadHeaders: a mail of the first second of the vacation is old.
ReadHeadersAfter ==
  /\ pc = "top" /\ session.open
  /\ IF Current \notin Prac7 THEN Skip
     ELSE /\ pc' = IF date[Current] > vacation THEN "reply" ELSE "handle"
          /\ UNCHANGED i
  /\ UNCHANGED <<mailVars, session, runVars, historyVars, failures>>

\* TOP i 0: the subject and the date decide.
ReadHeaders ==
  /\ pc = "top" /\ session.open
  /\ IF Current \notin Prac7 THEN Skip
     ELSE /\ pc' = IF date[Current] >= vacation THEN "reply" ELSE "handle"
          /\ UNCHANGED i
  /\ UNCHANGED <<mailVars, session, runVars, historyVars, failures>>

\* An error is a single line, but recvMultiLine waits for the end of many.
TopFails ==
  /\ pc = "top" /\ session.open
  /\ Fail
  /\ pc' = "hung"
  /\ UNCHANGED <<mailVars, session, i, runVars, historyVars>>

\* Headers cut off by the loss of the connection have no subject.
TopCut ==
  /\ pc \in {"top", "hung"} /\ ~session.open
  /\ Skip
  /\ UNCHANGED <<mailVars, session, runVars, historyVars, failures>>

\* sendMail tests none of the SMTP server's answers and returns silently when there
\* is no connection; SUCCESS is printed either way.
Reply ==
  /\ pc = "reply"
  /\ \/ replies' = [replies EXCEPT ![Current] = @ + 1] /\ UNCHANGED failures
     \/ Fail /\ UNCHANGED replies
  /\ said' = said \cup {Current}
  /\ pc' = "handle"
  /\ UNCHANGED <<mailVars, session, i, runVars, unreset>>

\* A mutant of Handle: only the file remembers.
HandleInFile ==
  /\ pc = "handle"
  /\ file' = file \cup {Current}
  /\ Skip
  /\ UNCHANGED <<mailVars, session, vacation, handled, keepRunning, starts, historyVars, failures>>

\* The mail is remembered in memory, and in the file unless that cannot be opened.
Handle ==
  /\ pc = "handle"
  /\ handled' = handled \cup {Current}
  /\ \/ file' = file \cup {Current} /\ UNCHANGED failures
     \/ Fail /\ UNCHANGED file
  /\ Skip
  /\ UNCHANGED <<mailVars, session, vacation, keepRunning, starts, historyVars>>

-----------------------------------------------------------------------------
Demo == DemoDelete \/ DemoNothing \/ DemoReset \/ DemoResetRefused \/ DemoQuit

Responder ==
  \/ CheckUidl \/ UidlFails \/ EndLoop
  \/ ReadHeaders \/ TopFails \/ TopCut
  \/ Reply \/ Handle

Environment ==
  \/ Tick
  \/ \E m \in Mails : OwnerRemoves(m) \/ \E d \in 0 .. MaxClock : Arrive(m, d)
  \/ Interrupt \/ Crash \/ Start

Next ==
  \/ LoopTop \/ Wait
  \/ Demo
  \/ Connect \/ ConnectFails \/ Responder
  \/ LoseConnection
  \/ Environment

\* The program goes on while the servers answer; a server that idles logs out; one
\* session in many gets into the mailbox.
Fairness ==
  /\ WF_vars(LoopTop \/ Wait \/ Demo \/ Connect \/ ConnectFails \/ Responder)
  /\ WF_vars(pc = "hung" /\ LoseConnection)
  /\ SF_vars(Connect)

Spec == Init /\ [][Next]_vars /\ Fairness

-----------------------------------------------------------------------------
\* A sender gets one reply to a mail, whatever crashed and was restarted, and however
\* often: more replies than one take runs that all began no later than the mail's date.
RepliesPerVacation ==
  \A m \in Mails : replies[m] <= Cardinality({k \in DOMAIN starts : starts[k] <= date[m]})

\* What is remembered was answered, as far as the program knows, or was older than
\* the vacation of a run that saw it.
HandledWasAnswered ==
  \A m \in handled \cup file : m \in said \/ \E k \in DOMAIN starts : date[m] < starts[k]

\* The demonstration of DELE and RSET costs the owner no mail, wherever the program or
\* the connection dies, but the one whose mark the server refused to take back.
NoMailLost ==
  {m \in Mails : date[m] # -1} = ToSet(mailbox) \cup gone \cup unreset

\* A mail about prac7 of the current vacation is answered and remembered in the end,
\* unless its owner or a QUIT after a refused RSET removes it, or the program stops.
DueIsHandled ==
  \A m \in Prac7 :
    (pc # "down" /\ m \in ToSet(mailbox) /\ date[m] >= vacation)
      ~> \/ m \in handled
         \/ m \in (gone \cup unreset) \ ToSet(mailbox)
         \/ ~keepRunning \/ pc = "down"

\* Ctrl+C ends the program, even while it waits for an answer that does not end.
InterruptStops == ~keepRunning ~> pc = "down"

\* "SUCCESS: Vacation reply sent to" (bot.cpp:271) is printed for replies that were sent.
SuccessMeansSent == \A m \in said : replies[m] > 0
=============================================================================
