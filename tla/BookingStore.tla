---------------------------- MODULE BookingStore ----------------------------
(***************************************************************************)
(* What the web appointment server (Prac4) promises its clients: each      *)
(* request takes effect in one step between being made and being answered, *)
(* one change after the other, and a crash leaves what the last change     *)
(* saved, or a beginning of it if the save was under way.  A change that   *)
(* could not be saved is answered like the others, and lasts until a       *)
(* crash, or for good once a later change is saved.  Once "stop" has been  *)
(* typed nothing is promised any more.                                     *)
(***************************************************************************)
EXTENDS Appointments

CONSTANTS
  Clients,
  Cut,       \* the pairs <<t, x>> such that t is read for x when a request ends in x
  Requests   \* what clients ask for: [op |-> "add", apt], [op |-> "delete", date, time,
             \* contactee], [op |-> "search", keyword], [op |-> "bad"]

VARIABLES
  store,     \* the lines requests are answered from, in the order they are kept
  lasting,   \* the lines of the last save
  up,        \* the server runs
  stopping,  \* "stop" has been typed
  request,   \* what each client asked for, while it is known
  status,    \* how far the request got: changed has changed the store, saving is saving it,
             \* seen has read it, kept can be answered
  answer     \* the lines a search was answered with

vars == <<store, lasting, up, stopping, request, status, answer>>

NoRequest == [op |-> "none"]

Init ==
  /\ store \in Seq(Line) /\ lasting = store /\ up = FALSE /\ stopping = FALSE
  /\ request = [c \in Clients |-> NoRequest]
  /\ status = [c \in Clients |-> "idle"]
  /\ answer = [c \in Clients |-> {}]

\* What is asked when some of the fields of r are left out, or are cut.
Less(r) ==
  LET cut(x) == {t \in Text : t \in {Empty, x} \/ <<t, x>> \in Cut}
  IN  CASE r.op = "add" ->
             {[r EXCEPT !.apt = [f \in DOMAIN r.apt |-> IF f \in names THEN r.apt[f] ELSE Empty]] :
                names \in SUBSET DOMAIN r.apt}
        [] r.op = "delete" ->
             {[op |-> "delete", date |-> d, time |-> t, contactee |-> c] :
                d \in cut(r.date), t \in cut(r.time), c \in cut(r.contactee)}
        [] OTHER -> {}

\* The client goes away before its request is complete: nothing is asked, or less.
GiveUp(c) ==
  /\ up /\ status[c] = "asked"
  /\ \E r \in Less(request[c]) \cup {[op |-> "bad"]} : request' = [request EXCEPT ![c] = r]
  /\ UNCHANGED <<store, lasting, up, stopping, status, answer>>

Named(apt) == Empty \notin {apt.date, apt.time, apt.contactee}

\* The lines at the positions I, in their order.
Sub(s, I) ==
  [j \in 1 .. Cardinality(I) |-> s[CHOOSE i \in I : Cardinality({k \in I : k <= i}) = j]]

Ask(c, r) ==
  /\ up /\ status[c] = "idle"
  /\ request' = [request EXCEPT ![c] = r]
  /\ status' = [status EXCEPT ![c] = "asked"]
  /\ UNCHANGED <<store, lasting, up, stopping, answer>>

Add(r) ==
  /\ r.op = "add" /\ Named(r.apt)
  /\ \E i \in 1 .. Len(store) + 1 : store' = InsertAt(store, i, FileLine(r.apt))

\* The lines of a delete's date in which the contactee and the time occur.
Matched(r) ==
  {i \in DOMAIN store :
     LET apt == ParseLine(store[i])
     IN  /\ apt.date = r.date
         /\ r.contactee # Empty /\ Matches(apt, r.contactee)
         /\ Matches(apt, r.time)}

\* As many lines of the date go as match, but one in all when a time is given.
\* Which ones is not promised: a line that shares its key with a match can go instead.
Delete(r) ==
  /\ r.op = "delete" /\ r.date # Empty
  /\ LET n == Cardinality(Matched(r))
     IN  \E I \in SUBSET {i \in DOMAIN store : ParseLine(store[i]).date = r.date} :
           /\ Cardinality(I) = IF r.time = Empty \/ n = 0 THEN n ELSE 1
           /\ store' = Sub(store, DOMAIN store \ I)

\* The lines a search is answered with.
Shown(r) ==
  {l \in ToSet(store) :
     LET apt == ParseLine(l)
     IN  \/ r.keyword = Empty
         \/ r.keyword \in Slashed /\ apt.date = r.keyword
         \/ r.keyword \notin Slashed /\ Matches(apt, r.keyword)}

\* Nobody is between a change and its answer.
Settled == \A c \in Clients : status[c] \notin {"changed", "saving"}

ApplyChange(c) ==
  /\ up /\ status[c] = "asked" /\ Settled
  /\ Add(request[c]) \/ Delete(request[c])
  /\ status' = [status EXCEPT ![c] = "changed"]
  /\ UNCHANGED <<lasting, up, stopping, request, answer>>

Save(c) ==
  /\ up /\ status[c] = "changed"
  /\ lasting' = store
  /\ status' = [status EXCEPT ![c] = "saving"]
  /\ UNCHANGED <<store, up, stopping, request, answer>>

ApplySearch(c) ==
  /\ up /\ status[c] = "asked" /\ request[c].op = "search" /\ Settled
  /\ answer' = [answer EXCEPT ![c] = Shown(request[c])]
  /\ status' = [status EXCEPT ![c] = "seen"]
  /\ UNCHANGED <<store, lasting, up, stopping, request>>

\* From "changed", when it cannot be saved.
Keep(c) ==
  /\ up /\ status[c] \in {"changed", "saving", "seen"}
  /\ status' = [status EXCEPT ![c] = "kept"]
  /\ UNCHANGED <<store, lasting, up, stopping, request, answer>>

\* A request that is not understood, or lacks something, is answered without effect.
Refuse(c) ==
  /\ up /\ status[c] = "asked"
  /\ \/ request[c].op = "bad"
     \/ request[c].op = "add" /\ ~Named(request[c].apt)
     \/ request[c].op = "delete" /\ request[c].date = Empty
  /\ status' = [status EXCEPT ![c] = "kept"]
  /\ UNCHANGED <<store, lasting, up, stopping, request, answer>>

Crash ==
  /\ up
  /\ up' = FALSE
  /\ \/ store' = lasting
     \/ /\ \E c \in Clients : status[c] = "saving"
        /\ \E n \in 0 .. Len(lasting) : store' = SubSeq(lasting, 1, n)
  /\ lasting' = store'
  /\ status' = [c \in Clients |-> IF status[c] \in {"idle", "kept"} THEN status[c]
                                  ELSE "lost"]
  /\ answer' = [c \in Clients |-> IF status[c] = "kept" THEN answer[c] ELSE {}]
  /\ UNCHANGED <<stopping, request>>

Restart ==
  /\ ~up /\ ~stopping
  /\ up' = TRUE
  /\ UNCHANGED <<store, lasting, stopping, request, status, answer>>

Stop ==
  /\ up
  /\ stopping' = TRUE
  /\ UNCHANGED <<store, lasting, up, request, status, answer>>

\* Past "stop" anything may happen to the store and to the requests.
Unpromised == stopping /\ stopping'

Next ==
  \/ \E c \in Clients :
       \/ \E r \in Requests : Ask(c, r)
       \/ GiveUp(c) \/ ApplyChange(c) \/ Save(c) \/ ApplySearch(c) \/ Keep(c) \/ Refuse(c)
  \/ Crash \/ Restart \/ Stop
  \/ Unpromised

Spec == Init /\ [][Next]_vars
=============================================================================
