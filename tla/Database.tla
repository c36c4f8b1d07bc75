------------------------------ MODULE Database ------------------------------
(***************************************************************************)
(* class Database of Prac4/database.h used by one thread at a time: its    *)
(* vector of days and the file it is kept in.  A call that loops (delete,  *)
(* saveToFile, the loading constructor) takes one step per iteration, so   *)
(* that the process can die between any two, and so that what a loop reads *)
(* after an earlier iteration changed it is visible.                       *)
(***************************************************************************)
EXTENDS Appointments

CONSTANTS
  Bookings,   \* the appointments that are submitted
  MaxObjects  \* bound: appointments allocated by addAppointment calls of a process

ASSUME DatabaseAssumption == Bookings \subseteq Appointment /\ MaxObjects \in Nat

VARIABLES
  days,     \* Database::days
  nextId,   \* the address the next new Appointment gets
  pc,       \* the call in progress, "idle" between calls, "down" when no process runs
  del,      \* locals of deleteAppointment: target, the index of ResultDate, and
            \* todo, the searchResults it has still to visit
  call,     \* history: objs, the target's appointments when the delete began,
            \* and found, its searchResults
  save,     \* locals of saveToFile: the day and appointment the loops are at,
            \* and out, the lines the ofstream was given
  file,     \* the lines on disk
  line,     \* the loading loop: the line getline reads next
  dirty     \* history: days changed since the last completed save or load

vars == <<days, nextId, pc, del, call, save, file, line, dirty>>

\* A mutant of NoDelete: "no target" as -1.
NoDeleteMinusOne == [target |-> -1, todo |-> {}]

NoDelete == [target |-> 0, todo |-> {}]
NoCall   == [objs |-> <<>>, found |-> {}]
NoSave   == [day |-> 1, apt |-> 1, out |-> <<>>]

\* Every variable has its type.
TypeOK ==
  /\ days \in Seq(Day)
  /\ nextId \in Nat
  /\ pc \in {"idle", "deleting", "saving", "loading", "down"}
  /\ del \in [target : Nat, todo : SUBSET Object]
  /\ call \in [objs : Seq(Object), found : SUBSET Object]
  /\ save \in [day : Nat, apt : Nat, out : Seq(Line)]
  /\ file \in Seq(Line)
  /\ line \in Nat
  /\ dirty \in BOOLEAN

Init ==
  /\ days = <<>> /\ nextId = 1 /\ pc = "down"
  /\ del = NoDelete /\ call = NoCall /\ save = NoSave
  /\ file = <<>> /\ line = 1 /\ dirty = FALSE

-----------------------------------------------------------------------------
Add(b) ==
  /\ pc = "idle"
  /\ nextId <= MaxObjects
  /\ days' = Insert(days, [id |-> nextId, apt |-> b])
  /\ nextId' = nextId + 1
  /\ dirty' = TRUE
  /\ UNCHANGED <<pc, del, call, save, file, line>>

\* A call for a date no day has changes nothing, nor does one without a
\* contactee, for which searchResults stays empty.
BeginDelete(date, time, contactee) ==
  /\ pc = "idle"
  /\ contactee # Empty
  /\ DaysOf(days, date) # {}
  /\ LET d    == First(DaysOf(days, date))
         objs == days[d].appointments
         hits == Selected(objs, time, contactee)
     IN  /\ del' = [target |-> d, todo |-> hits]
         /\ call' = [objs |-> objs, found |-> hits]
  /\ pc' = "deleting"
  /\ UNCHANGED <<days, nextId, save, file, line, dirty>>

\* ResultDate->deleteAppointment(ResultDate->getIndex(*apt)): what is removed is
\* the first appointment with the key of the result, not the result.
DeleteNext ==
  /\ pc = "deleting"
  /\ \E o \in del.todo :
       /\ \A p \in del.todo : o.id <= p.id
       /\ del' = [del EXCEPT !.todo = @ \ {o}]
       /\ LET objs == days[del.target].appointments
          IN  days' = WithAppointments(days, del.target,
                                       DeleteAt(objs, GetIndex(objs, o.apt)))
  /\ dirty' = TRUE
  /\ UNCHANGED <<nextId, pc, call, save, file, line>>

EndDelete ==
  /\ pc = "deleting"
  /\ del.todo = {}
  /\ pc' = "idle"
  /\ del' = NoDelete
  /\ call' = NoCall
  /\ UNCHANGED <<days, nextId, save, file, line, dirty>>

\* A mutant of BeginSave: the file is opened without truncating it.
BeginSaveInPlace ==
  /\ pc = "idle"
  /\ pc' = "saving"
  /\ UNCHANGED <<days, nextId, del, call, save, file, line, dirty>>

\* Opening the ofstream truncates the file.
BeginSave ==
  /\ pc = "idle"
  /\ pc' = "saving"
  /\ file' = <<>>
  /\ UNCHANGED <<days, nextId, del, call, save, line, dirty>>

\* A mutant of SaveLine: the inner loop does not start again with the next day.
SaveLineKeepsIndex ==
  /\ pc = "saving"
  /\ save.day \in DOMAIN days
  /\ LET objs == days[save.day].appointments
     IN  save' = IF save.apt \in DOMAIN objs
                 THEN [day |-> save.day, apt |-> save.apt + 1,
                       out |-> Append(save.out, FileLine(objs[save.apt].apt))]
                 ELSE [day |-> save.day + 1, apt |-> save.apt, out |-> save.out]
  /\ UNCHANGED <<days, nextId, pc, del, call, file, line, dirty>>

SaveLine ==
  /\ pc = "saving"
  /\ save.day \in DOMAIN days
  /\ LET objs == days[save.day].appointments
     IN  save' = IF save.apt \in DOMAIN objs
                 THEN [day |-> save.day, apt |-> save.apt + 1,
                       out |-> Append(save.out, FileLine(objs[save.apt].apt))]
                 ELSE [day |-> save.day + 1, apt |-> 1, out |-> save.out]
  /\ UNCHANGED <<days, nextId, pc, del, call, file, line, dirty>>

\* The stream's buffer reaches the disk whenever it fills up.
Flush ==
  /\ pc = "saving"
  /\ file' = save.out
  /\ UNCHANGED <<days, nextId, pc, del, call, save, line, dirty>>

EndSave ==
  /\ pc = "saving"
  /\ save.day \notin DOMAIN days
  /\ file' = save.out
  /\ pc' = "idle"
  /\ save' = NoSave
  /\ dirty' = FALSE
  /\ UNCHANGED <<days, nextId, del, call, line>>

-----------------------------------------------------------------------------
\* The process ends: it crashes anywhere, or exits after ~Database saved.
Halt ==
  /\ pc # "down"
  /\ pc' = "down"
  /\ days' = <<>>
  /\ nextId' = 1
  /\ del' = NoDelete
  /\ call' = NoCall
  /\ save' = NoSave
  /\ line' = 1
  /\ dirty' = FALSE
  /\ UNCHANGED file

Start ==
  /\ pc = "down"
  /\ pc' = "loading"
  /\ UNCHANGED <<days, nextId, del, call, save, file, line, dirty>>

LoadLine ==
  /\ pc = "loading"
  /\ line \in DOMAIN file
  /\ days' = Insert(days, [id |-> nextId, apt |-> ParseLine(file[line])])
  /\ nextId' = nextId + 1
  /\ line' = line + 1
  /\ UNCHANGED <<pc, del, call, save, file, dirty>>

EndLoad ==
  /\ pc = "loading"
  /\ line \notin DOMAIN file
  /\ pc' = "idle"
  /\ line' = 1
  /\ UNCHANGED <<days, nextId, del, call, save, file, dirty>>

Next ==
  \/ \E b \in Bookings : Add(b)
  \/ \E date, time, contactee \in Text : BeginDelete(date, time, contactee)
  \/ DeleteNext
  \/ EndDelete
  \/ BeginSave
  \/ SaveLine
  \/ Flush
  \/ EndSave
  \/ Halt
  \/ Start
  \/ LoadLine
  \/ EndLoad

Spec == Init /\ [][Next]_vars

-----------------------------------------------------------------------------
\* No date has two days, so the first day found holds every booking of a date
\* and a delete that stops at the first day (line 319) misses none.
OneDayPerDate ==
  \A d, e \in DOMAIN days : days[d].date = days[e].date => d = e

\* A booking is filed under its own date, whatever was added, removed, saved or
\* loaded before.
FiledUnderItsDate ==
  \A d \in DOMAIN days : \A i \in DOMAIN days[d].appointments :
    days[d].appointments[i].apt.date = days[d].date

\* No appointment is in the vectors twice (it would be freed twice), and
\* addresses grow along a day, so that the order of ids is that of the vector.
OrderedObjects ==
  /\ \A d \in DOMAIN days : \A i, j \in DOMAIN days[d].appointments :
       i < j => days[d].appointments[i].id < days[d].appointments[j].id
  /\ \A d, e \in DOMAIN days : d # e =>
       \A i \in DOMAIN days[d].appointments, j \in DOMAIN days[e].appointments :
         days[d].appointments[i].id # days[e].appointments[j].id

\* deleteAppointment frees while it walks searchResults: no pointer it has still
\* to follow has been freed, although it may free a different appointment
\* from the one it follows (lines 342 to 345).
LoopReadsLiveObjects ==
  pc = "deleting" => del.todo \subseteq ToSet(days[del.target].appointments)

\* What the loop has done at any point: of the appointments that share a key it
\* removed the oldest ones, as many as it visited results with that key, and no other.
RemovesOldestOfEachKey ==
  pc = "deleting" =>
    LET visited(o) == {p \in call.found \ del.todo : SameKey(p.apt, o.apt)}
        older(o)   == {p \in ToSet(call.objs) : SameKey(p.apt, o.apt) /\ p.id <= o.id}
    IN  \A o \in ToSet(call.objs) :
          o \in ToSet(days[del.target].appointments)
            <=> Cardinality(older(o)) > Cardinality(visited(o))

\* The file of a database nobody is saving holds exactly its bookings, in its
\* order, unless a change was made after the last save: loading what was
\* saved, or what a crash left of it, gives back the same days in the same order.
FileMatchesMemory ==
  pc = "idle" /\ ~dirty => Lines(days) = file

\* While a save runs, what is on disk is a beginning of what it will write: a
\* crash loses bookings from the end and never mixes them up.
FileIsPrefix ==
  pc = "saving" => IsPrefix(file, Lines(days)) /\ IsPrefix(save.out, Lines(days))
=============================================================================
