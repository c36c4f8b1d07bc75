---------------------------- MODULE MCApptServer ----------------------------
(***************************************************************************)
(* Two clients that add, delete and search, beside two bookings of an      *)
(* earlier run: one has the key of the booking that is added, the other    *)
(* is found too when the contactee of a delete is cut.  Each request is    *)
(* also the bytes of RequestForm, of which any may be the last.            *)
(***************************************************************************)
EXTENDS ApptPage, RequestForm

Apt(d, c, l) == [date |-> d, time |-> "9:00", contactee |-> c, location |-> l,
                 description |-> ""]

MCFile == <<FileLine(Apt("1/1", "Joe", "")), FileLine(Apt("1/1", "Jo", ""))>>

MCRequests ==
  {[op |-> "add", apt |-> Apt("1/1", "Joe", "Ann")],
   [op |-> "delete", date |-> "1/1", time |-> "", contactee |-> "Joe"],
   [op |-> "search", keyword |-> "Joe"]}

\* The texts of these, and what is left of them when they are cut.
MCText == {"", "1", "12", "1/", "1/1", "9:00", "J", "Jo", "Joe", "Ann"}
MCSlashed == {t \in MCText : Has(t, "/")}
MCSubstr == {kt \in MCText \X MCText : Has(kt[2], kt[1])}
MCCut == {tx \in MCText \X {"", "1/1", "Joe"} : tx[1] \in Cuts(tx[2])}

\* What may go wrong in a form: what is escaped, ends a line, names a path or begins as
\* the boundary does.
MCFieldValues == {"", "/", "a+b =&%", "\r\n", "/deleteAppointment", "--"}

MCAdds == {r \in MCRequests : r.op = "add"}

\* Two spellings of one date, dates that order by year, month and day, a date
\* without a year, and texts that hold no number.
MCDates == {[text |-> "02/01/2026", read |-> <<2, 1, 2026>>],
            [text |-> "2/1/2026",   read |-> <<2, 1, 2026>>],
            [text |-> "01/12/2025", read |-> <<1, 12, 2025>>],
            [text |-> "2/1",        read |-> <<2, 1>>],
            [text |-> "soon",       read |-> <<>>]}
MCTimes == {[text |-> "9:30",  read |-> <<9, 30>>],
            [text |-> "10:00", read |-> <<10, 0>>],
            [text |-> "noon",  read |-> <<>>]}

-----------------------------------------------------------------------------
\* A request as the values of its form, and back.
FormOf(r) ==
  [op |-> r.op,
   values |-> CASE r.op = "add"    -> FileLine(r.apt)
                [] r.op = "delete" -> <<r.date, r.time, r.contactee>>
                [] r.op = "search" -> <<r.keyword>>]

Request(form) ==
  CASE form.op = "add"    -> [op |-> "add", apt |-> ParseLine(form.values)]
    [] form.op = "delete" -> [op |-> "delete", date |-> form.values[1], time |-> form.values[2],
                              contactee |-> form.values[3]]
    [] form.op = "search" -> [op |-> "search", keyword |-> form.values[1]]
    [] form.op = "bad"    -> Bad

FromBytes ==
  [r \in MCRequests |->
     {IF form.op = "bad" THEN Bad ELSE IF Refused(Request(form)) THEN Lacking ELSE Request(form) :
        form \in AsRead(FormOf(r))}]

\* What a handler reads is, whatever pieces it comes in, what the browser was asked to
\* send; and of a request whose client goes away after any byte it reads exactly
\* what CutShort says, so an add without its last fields or a delete with the beginning of
\* a name, which finds more bookings than the name.
RequestIsRead ==
  \A c \in Clients : h[c].pc = "reading" =>
    /\ RequestsAreRead
    /\ FromBytes[h[c].req] = {h[c].req} \cup CutShort(h[c].req)
=============================================================================
