---------------------------- MODULE Appointments ----------------------------
(***************************************************************************)
(* The data of the appointment servers: an appointment, a day and the      *)
(* helpers of database.h that read or change one vector of days.  Texts    *)
(* are opaque: all the code asks of one is whether it is empty, whether it *)
(* equals another and whether it occurs in another.                        *)
(***************************************************************************)
EXTENDS Integers, Sequences, SequencesExt

CONSTANTS
  Text,      \* every text a field or a keyword can hold
  Empty,     \* the empty text
  Substr,    \* the pairs <<k, t>> of texts such that k occurs in t
  Slashed    \* the texts that hold a '/'

ASSUME TextAssumption ==
  /\ Empty \in Text
  /\ Slashed \subseteq Text
  /\ Substr \subseteq Text \X Text
  /\ \A t \in Text : <<t, t>> \in Substr /\ <<Empty, t>> \in Substr

Appointment ==
  [date : Text, time : Text, contactee : Text, location : Text, description : Text]

\* An allocated Appointment; id stands for its address.
Object == [id : Nat, apt : Appointment]

Day == [date : Text, appointments : Seq(Object)]

-----------------------------------------------------------------------------
\* text.find(k) != npos
Occurs(k, text) == <<k, text>> \in Substr

\* Appointment::search: k occurs in some field
Matches(apt, k) ==
  \E f \in {"date", "time", "contactee", "location", "description"} : Occurs(k, apt[f])

\* The comparison of day::getIndex.
SameKey(a, b) ==
  a.date = b.date /\ a.time = b.time /\ a.contactee = b.contactee

First(I) == CHOOSE i \in I : \A j \in I : i <= j

\* A mutant of GetIndex: the loop does not stop at the first match.
GetIndexLast(objs, apt) ==
  LET I == {i \in DOMAIN objs : SameKey(objs[i].apt, apt)}
  IN  IF I = {} THEN 0 ELSE CHOOSE i \in I : \A j \in I : j <= i

\* day::getIndex, with 0 for "not found".
GetIndex(objs, apt) ==
  LET I == {i \in DOMAIN objs : SameKey(objs[i].apt, apt)}
  IN  IF I = {} THEN 0 ELSE First(I)

\* A mutant of DeleteAt: the index is taken to count from 1.
DeleteAtNext(objs, i) == IF i + 1 \in DOMAIN objs THEN RemoveAt(objs, i + 1) ELSE objs

\* day::deleteAppointment(index): an index out of range is ignored
DeleteAt(objs, i) == IF i \in DOMAIN objs THEN RemoveAt(objs, i) ELSE objs

\* day::search, as a set: callers visit it in the order of the vector.
DaySearch(objs, k) == {o \in ToSet(objs) : Matches(o.apt, k)}

\* A mutant of DaysOf: only the day added last is looked at.
LastDayOnly(ds, date) == {d \in DOMAIN ds : d = Len(ds) /\ ds[d].date = date}

\* The days the loops over Database::days stop at when they look for date.
DaysOf(ds, date) == {d \in DOMAIN ds : ds[d].date = date}

\* The days ds with other appointments in the d-th
WithAppointments(ds, d, objs) == [ds EXCEPT ![d].appointments = objs]

\* Mutants of Insert: any day will do, and new appointments come first.
InsertAnywhere(ds, obj) ==
  IF ds = <<>>
  THEN Append(ds, [date |-> obj.apt.date, appointments |-> <<obj>>])
  ELSE WithAppointments(ds, Len(ds), Append(ds[Len(ds)].appointments, obj))

InsertInFront(ds, obj) ==
  LET D == DaysOf(ds, obj.apt.date)
  IN  IF D = {}
      THEN Append(ds, [date |-> obj.apt.date, appointments |-> <<obj>>])
      ELSE WithAppointments(ds, First(D), <<obj>> \o ds[First(D)].appointments)

\* Database::addAppointment
Insert(ds, obj) ==
  LET D == DaysOf(ds, obj.apt.date)
  IN  IF D = {}
      THEN Append(ds, [date |-> obj.apt.date, appointments |-> <<obj>>])
      ELSE WithAppointments(ds, First(D), Append(ds[First(D)].appointments, obj))

\* The results deleteAppointment will visit: the appointments of the first day
\* with that date in which contactee occurs, and, when a time is given, only the
\* first of them in which the time occurs.
Selected(objs, time, contactee) ==
  LET hits  == DaySearch(objs, contactee)
      timed == {o \in hits : Matches(o.apt, time)}
  IN  IF time = Empty THEN hits
      ELSE {o \in timed : \A p \in timed : o.id <= p.id}

\* Database::search: everything, one date, or the appointments with k in a field
DbSearch(ds, k) ==
  LET all == FlattenSeq([d \in DOMAIN ds |-> ds[d].appointments])
  IN  CASE k = Empty    -> all
        [] k \in Slashed \ {Empty} -> FlattenSeq([d \in DOMAIN ds |->
              IF ds[d].date = k THEN ds[d].appointments ELSE <<>>])
        [] OTHER        -> FlattenSeq([i \in DOMAIN all |->
              IF Matches(all[i].apt, k) THEN <<all[i]>> ELSE <<>>])

-----------------------------------------------------------------------------
\* A line of the file: the fields of one appointment, in the order written.
FileLine(apt) == <<apt.date, apt.time, apt.contactee, apt.location, apt.description>>

Line == Text \X Text \X Text \X Text \X Text

\* The constructor Appointment(fileString), for lines FileLine wrote from
\* fields that hold neither a tag of the format nor a line end; RecordFormat
\* has it for all others.
ParseLine(line) ==
  [date |-> line[1], time |-> line[2], contactee |-> line[3],
   location |-> line[4], description |-> line[5]]

\* What saveToFile writes: every appointment, day by day.
Lines(ds) ==
  FlattenSeq([d \in DOMAIN ds |->
    [i \in DOMAIN ds[d].appointments |-> FileLine(ds[d].appointments[i].apt)]])

\* The lines of a date stand together, as saveToFile writes them.
Grouped(f) ==
  \A i, j, k \in DOMAIN f : i < j /\ j < k /\ f[i][1] = f[k][1] => f[j][1] = f[i][1]
=============================================================================
