--------------------------- MODULE Database_proofs ---------------------------
(***************************************************************************)
(* The appointment database keeps one day per date, files every booking    *)
(* under its date, never holds an appointment twice, and its delete loop   *)
(* never follows a freed pointer: for every set of texts and bookings.     *)
(* What its file gives back is proved of the days, and of the characters;  *)
(* and what the reminder mails, and exits with, of its own file.           *)
(***************************************************************************)
EXTENDS DatabaseFile, Reminder, Appointments_proofs

-----------------------------------------------------------------------------
\* The inductive invariant: the vector of days is good whatever call is running,
\* and a running delete works on a day that exists and on objects that live.
DbInv ==
  /\ TypeOK
  /\ Good(days, nextId)
  /\ pc = "deleting" => del.target \in DOMAIN days
  /\ LoopReadsLiveObjects

\* The values of the locals of a call when it is not running.
LEMMA NullTypes ==
  /\ NoDelete \in [target : Nat, todo : SUBSET Object]
  /\ NoCall \in [objs : Seq(Object), found : SUBSET Object]
  /\ NoSave \in [day : Nat, apt : Nat, out : Seq(Line)]
<1>1. <<>> \in Seq(Line) /\ <<>> \in Seq(Object)
  BY EmptySeq
<1> QED BY <1>1, TextAssumption DEF NoDelete, NoCall, NoSave

LEMMA InitInv == Init => DbInv
<1> SUFFICES ASSUME Init PROVE DbInv
  OBVIOUS
<1>1. TypeOK
  BY NullTypes, EmptySeq DEF Init, TypeOK
<1>2. Good(days, nextId)
  BY DEF Init, Good, UniqueDates, Filed, Apart
<1> QED BY <1>1, <1>2 DEF Init, DbInv, LoopReadsLiveObjects

LEMMA NextInv == DbInv /\ [Next]_vars => DbInv'
<1> SUFFICES ASSUME DbInv, [Next]_vars PROVE DbInv'
  OBVIOUS
<1> USE DEF DbInv
<1>0. nextId \in Nat /\ days \in Seq(Day)
  BY DEF TypeOK
<1>1. ASSUME NEW b \in Bookings, Add(b)
      PROVE  DbInv'
  <2>1. b \in Appointment
    BY DatabaseAssumption
  <2>2. Good(days', nextId')
    BY <1>0, <1>1, <2>1, InsertGood DEF Add
  <2>3. TypeOK'
    BY <1>1, <2>2 DEF Add, TypeOK, Good
  <2> QED BY <1>1, <2>2, <2>3 DEF Add, LoopReadsLiveObjects
<1>2. ASSUME NEW date \in Text, NEW time \in Text, NEW contactee \in Text,
             BeginDelete(date, time, contactee)
      PROVE  DbInv'
  <2> DEFINE d    == First(DaysOf(days, date))
             objs == days[d].appointments
             hits == Selected(objs, time, contactee)
  <2>1. DaysOf(days, date) \in SUBSET Nat /\ DaysOf(days, date) # {}
    BY <1>0, <1>2, LenProperties DEF DaysOf, BeginDelete
  <2>2. d \in DOMAIN days /\ d \in Nat
    BY <2>1, FirstIsLeast DEF DaysOf
  <2>3. objs \in Seq(Object)
    BY <1>0, <2>2, DayType
  <2>4. hits \subseteq ToSet(objs) /\ hits \subseteq Object
    BY <2>3, SelectedFromDay
  <2>5. /\ del' = [target |-> d, todo |-> hits]
        /\ call' = [objs |-> objs, found |-> hits]
        /\ pc' = "deleting"
        /\ UNCHANGED <<days, nextId, save, file, line, dirty>>
    BY <1>2 DEF BeginDelete
  <2> HIDE DEF hits, d
  <2>6. TypeOK'
    BY <2>2, <2>3, <2>4, <2>5 DEF TypeOK
  <2>7. LoopReadsLiveObjects' /\ (pc' = "deleting" => del'.target \in DOMAIN days')
    BY <2>2, <2>4, <2>5 DEF LoopReadsLiveObjects
  <2> QED BY <2>5, <2>6, <2>7
<1>3. CASE DeleteNext
  <2> DEFINE d    == del.target
             objs == days[d].appointments
  <2>1. PICK o \in del.todo :
          /\ \A p \in del.todo : o.id <= p.id
          /\ del' = [del EXCEPT !.todo = @ \ {o}]
          /\ days' = WithAppointments(days, d, DeleteAt(objs, GetIndex(objs, o.apt)))
    BY <1>3 DEF DeleteNext
  <2>2. pc = "deleting" /\ pc' = "deleting" /\ nextId' = nextId
    BY <1>3 DEF DeleteNext
  <2>3. /\ d \in DOMAIN days
        /\ objs \in Seq(Object)
        /\ Increasing(objs)
        /\ del.todo \subseteq ToSet(objs)
    BY <1>0, <2>2, DayType DEF LoopReadsLiveObjects, Good
  <2> DEFINE k   == GetIndex(objs, o.apt)
             new == DeleteAt(objs, k)
  <2>4. k \in Nat
    BY <2>3, GetIndexProperties, ObjectType
  <2>5. del.todo \ {o} \subseteq ToSet(new)
    BY <2>1, <2>3, LoopStep
  <2>6. Good(days', nextId')
    BY <1>0, <2>1, <2>2, <2>3, <2>4, DeleteGood
  <2>7. new \in Seq(Object)
    BY <1>0, <2>3, <2>4, DeleteAtProperties DEF Good
  <2> HIDE DEF k, new
  <2>8. DOMAIN days' = DOMAIN days /\ days'[d].appointments = new
    BY <1>0, <2>1, <2>3, <2>7, UpdateDay DEF new, k
  <2>9. del' \in [target : Nat, todo : SUBSET Object] /\ del'.target = d /\ del'.todo = del.todo \ {o}
    BY <2>1 DEF TypeOK
  <2>10. TypeOK'
    BY <1>3, <2>6, <2>9 DEF DeleteNext, TypeOK, Good
  <2>11. LoopReadsLiveObjects'
    BY <2>5, <2>8, <2>9 DEF LoopReadsLiveObjects
  <2> QED BY <2>3, <2>6, <2>8, <2>9, <2>10, <2>11
<1>4. CASE EndDelete
  BY <1>4, NullTypes DEF EndDelete, TypeOK, LoopReadsLiveObjects
<1>5. CASE BeginSave
  BY <1>5 DEF BeginSave, TypeOK, LoopReadsLiveObjects
<1>6. CASE SaveLine
  <2> DEFINE objs == days[save.day].appointments
  <2>1. save \in [day : Nat, apt : Nat, out : Seq(Line)] /\ save.day \in DOMAIN days
    BY <1>6 DEF TypeOK, SaveLine
  <2>2. save' \in [day : Nat, apt : Nat, out : Seq(Line)]
    <3>1. CASE save.apt \in DOMAIN objs
      <4>1. objs[save.apt] \in Object
        BY <1>0, <2>1, <3>1, DayType, ObjectType
      <4>2. FileLine(objs[save.apt].apt) \in Line
        BY <4>1, LineTypes DEF Object
      <4>3. Append(save.out, FileLine(objs[save.apt].apt)) \in Seq(Line)
        BY <2>1, <4>2, AppendProperties
      <4>4. save' = [day |-> save.day, apt |-> save.apt + 1,
                     out |-> Append(save.out, FileLine(objs[save.apt].apt))]
        BY <1>6, <3>1 DEF SaveLine
      <4> HIDE DEF objs
      <4> QED BY <2>1, <4>3, <4>4
    <3>2. CASE save.apt \notin DOMAIN objs
      <4>1. save' = [day |-> save.day + 1, apt |-> 1, out |-> save.out]
        BY <1>6, <3>2 DEF SaveLine
      <4> QED BY <2>1, <4>1
    <3> QED BY <3>1, <3>2
  <2>3. TypeOK'
    BY <1>6, <2>2 DEF SaveLine, TypeOK
  <2> QED BY <1>6, <2>3 DEF SaveLine, LoopReadsLiveObjects
<1>7. CASE Flush
  BY <1>7 DEF Flush, TypeOK, LoopReadsLiveObjects
<1>8. CASE EndSave
  BY <1>8, NullTypes DEF EndSave, TypeOK, LoopReadsLiveObjects
<1>9. CASE Halt
  <2>1. TypeOK'
    BY <1>9, NullTypes, EmptySeq DEF Halt, TypeOK
  <2>2. Good(days', nextId')
    BY <1>9 DEF Halt, Good, UniqueDates, Filed, Apart
  <2> QED BY <1>9, <2>1, <2>2 DEF Halt, LoopReadsLiveObjects
<1>10. CASE Start
  BY <1>10 DEF Start, TypeOK, LoopReadsLiveObjects
<1>11. CASE LoadLine
  <2>1. ParseLine(file[line]) \in Appointment
    <3>1. file \in Seq(Line) /\ line \in DOMAIN file
      BY <1>11 DEF LoadLine, TypeOK
    <3>2. file[line] \in Line
      BY <3>1, LenProperties, ElementOfSeq
    <3> QED BY <3>2, LineTypes
  <2>2. Good(days', nextId')
    BY <1>0, <1>11, <2>1, InsertGood DEF LoadLine
  <2>3. TypeOK'
    BY <1>11, <2>2 DEF LoadLine, TypeOK, Good
  <2> QED BY <1>11, <2>2, <2>3 DEF LoadLine, LoopReadsLiveObjects
<1>12. CASE EndLoad
  BY <1>12 DEF EndLoad, TypeOK, LoopReadsLiveObjects
<1>13. CASE UNCHANGED vars
  BY <1>13 DEF vars, TypeOK, LoopReadsLiveObjects
<1> QED
  BY <1>1, <1>2, <1>3, <1>4, <1>5, <1>6, <1>7, <1>8, <1>9, <1>10, <1>11, <1>12, <1>13 DEF Next

\* The invariant holds in every state, whatever is called and whenever the process dies.
THEOREM Invariance == Spec => []DbInv
BY InitInv, NextInv, PTL DEF Spec

-----------------------------------------------------------------------------
\* Every variable of the database keeps its type.
THEOREM TypeCorrectness == Spec => []TypeOK
<1>1. DbInv => TypeOK
  BY DEF DbInv
<1> QED BY <1>1, Invariance, PTL

\* addAppointment and the loading constructor never make a second day for a date.
THEOREM DatesAreUnique == Spec => []OneDayPerDate
<1>1. DbInv => OneDayPerDate
  BY DEF DbInv, Good, UniqueDates, OneDayPerDate
<1> QED BY <1>1, Invariance, PTL

\* Every booking sits in the day of its own date.
THEOREM BookingsAreFiled == Spec => []FiledUnderItsDate
<1>1. DbInv => FiledUnderItsDate
  BY DEF DbInv, Good, Filed, FiledUnderItsDate
<1> QED BY <1>1, Invariance, PTL

\* No appointment is held twice, and the addresses of a day grow.
THEOREM ObjectsAreOrdered == Spec => []OrderedObjects
<1>1. DbInv => OrderedObjects
  BY DEF DbInv, Good, Increasing, Apart, OrderedObjects
<1> QED BY <1>1, Invariance, PTL

\* The loop of deleteAppointment never follows a pointer it has freed.
THEOREM DeleteLoopIsSafe == Spec => []LoopReadsLiveObjects
<1>1. DbInv => LoopReadsLiveObjects
  BY DEF DbInv
<1> QED BY <1>1, Invariance, PTL

-----------------------------------------------------------------------------
\* The file and the days.  What a load has made of the first lines of the file stands in
\* no run's property, nor does what the loops of a save have written so far: the
\* properties of the file follow from where these loops begin and end.
SaveInv ==
  /\ save.day \in 1 .. Len(days) + 1
  /\ save.day \in DOMAIN days => save.apt \in 1 .. Len(days[save.day].appointments) + 1
  /\ save.day \notin DOMAIN days => save.apt = 1
  /\ save.out = Saved(days, save.day, save.apt)
  /\ IsPrefix(file, save.out)

FileInv ==
  /\ Grouped(file)
  /\ pc # "saving" => save = NoSave
  /\ pc # "loading" => line = 1
  /\ pc = "down" => days = <<>>
  /\ pc \in {"idle", "deleting"} /\ ~dirty => Lines(days) = file
  /\ pc = "loading" => line \in 1 .. Len(file) + 1 /\ Loaded(days, file, line - 1)
  /\ pc = "saving" => SaveInv

\* What a save has written is typed, and a beginning of what it will have written.
LEMMA SaveProgress ==
  ASSUME DbInv, SaveInv
  PROVE  /\ days \in Seq(Day) /\ save.out \in Seq(Line)
         /\ IsPrefix(save.out, Lines(days)) /\ IsPrefix(file, Lines(days))
         /\ save.day \notin DOMAIN days => save.out = Lines(days)
<1>1. days \in Seq(Day) /\ save.out \in Seq(Line) /\ file \in Seq(Line)
  BY DEF DbInv, TypeOK
<1>2. /\ Len(days) \in Nat /\ DOMAIN days = 1 .. Len(days) /\ Lines(days) \in Seq(Line)
      /\ \A s \in Seq(Line) : Len(s) \in Nat
  BY <1>1, LenProperties, LinesAppend
<1>3. ASSUME save.day \notin DOMAIN days
      PROVE  save.out = Lines(days)
  <2>1. save.day = Len(days) + 1 /\ save.apt = 1
    BY <1>2, <1>3 DEF SaveInv
  <2> QED BY <1>1, <2>1, SavedBegin DEF SaveInv
<1>4. IsPrefix(save.out, Lines(days))
  <2>1. CASE save.day \in DOMAIN days
    BY <1>1, <2>1, SavedNext DEF SaveInv
  <2>2. CASE save.day \notin DOMAIN days
    BY <1>2, <1>3, <2>2, PrefixIs
  <2> QED BY <2>1, <2>2
<1>5. IsPrefix(file, Lines(days))
  <2> DEFINE all == Lines(days)
  <2>1. all \in Seq(Line) /\ Len(all) \in Nat /\ IsPrefix(save.out, all)
    BY <1>2, <1>4
  <2> HIDE DEF all
  <2>2. /\ Len(file) <= Len(save.out) /\ \A i \in 1 .. Len(file) : file[i] = save.out[i]
        /\ Len(save.out) <= Len(all) /\ \A i \in 1 .. Len(save.out) : save.out[i] = all[i]
    BY <1>1, <2>1, PrefixIs DEF SaveInv
  <2>3. /\ Len(file) \in Nat /\ Len(save.out) \in Nat
    BY <1>1, <1>2
  <2>4. Len(file) <= Len(all) /\ \A i \in 1 .. Len(file) : file[i] = all[i]
    BY <2>1, <2>2, <2>3
  <2>5. IsPrefix(file, all)
    BY <1>1, <2>1, <2>4, PrefixIs
  <2> QED BY <2>5 DEF all
<1> QED BY <1>1, <1>3, <1>4, <1>5

LEMMA InitFile == Init => FileInv
<1>1. Lines(<<>>) = <<>>
  BY LinesAppend
<1> QED BY <1>1, GroupedFiles DEF Init, FileInv

LEMMA NextFile == DbInv /\ FileInv /\ [Next]_vars => FileInv'
<1> SUFFICES ASSUME DbInv, FileInv, [Next]_vars PROVE FileInv'
  OBVIOUS
<1>0. /\ days \in Seq(Day) /\ nextId \in Nat /\ file \in Seq(Line) /\ line \in Nat
      /\ UniqueDates(days) /\ Filed(days) /\ Lines(days) \in Seq(Line) /\ Len(file) \in Nat
      /\ DOMAIN file = 1 .. Len(file) /\ Len(days) \in Nat /\ DOMAIN days = 1 .. Len(days)
      /\ dirty \in BOOLEAN
  BY LinesAppend, LenProperties DEF DbInv, TypeOK, Good
<1>1. ASSUME NEW b \in Bookings, Add(b)
      PROVE  FileInv'
  BY <1>1 DEF Add, FileInv
<1>2. ASSUME NEW date \in Text, NEW time \in Text, NEW contactee \in Text,
             BeginDelete(date, time, contactee)
      PROVE  FileInv'
  BY <1>2 DEF BeginDelete, FileInv
<1>3. CASE DeleteNext
  BY <1>3 DEF DeleteNext, FileInv
<1>4. CASE EndDelete
  BY <1>4 DEF EndDelete, FileInv
<1>5. CASE BeginSave
  <2>1. /\ save = NoSave /\ line = 1 /\ pc' = "saving" /\ file' = <<>>
        /\ days' = days /\ save' = save /\ line' = line
    BY <1>5 DEF BeginSave, FileInv
  <2>2. /\ save.day = 1 /\ save.apt = 1 /\ save.out = <<>>
    BY <2>1 DEF NoSave
  <2>3. save.out = Saved(days, save.day, save.apt)
    BY <1>0, <2>2, SavedBegin
  <2>4. save.day \in DOMAIN days => save.apt \in 1 .. Len(days[save.day].appointments) + 1
    <3>1. ASSUME save.day \in DOMAIN days
          PROVE  Len(days[save.day].appointments) \in Nat
      BY <1>0, <3>1, DayType, LenProperties
    <3> QED BY <2>2, <3>1
  <2>5. SaveInv'
    <3>1. IsPrefix(<<>>, save.out)
      BY <2>2, EmptySeq, GroupedFiles
    <3>2. save.day \in 1 .. Len(days) + 1
      BY <1>0, <2>2
    <3> QED BY <2>1, <2>2, <2>3, <2>4, <3>1, <3>2 DEF SaveInv
  <2> QED BY <2>1, <2>5, GroupedFiles DEF FileInv
<1>6. CASE SaveLine
  <2> DEFINE d    == save.day
             k    == save.apt
             objs == days[d].appointments
  <2>1. /\ pc = "saving" /\ pc' = "saving" /\ d \in DOMAIN days
        /\ UNCHANGED <<days, file, line>>
    BY <1>6 DEF SaveLine
  <2>2. SaveInv
    BY <2>1 DEF FileInv
  <2>3. k \in 1 .. Len(objs) + 1 /\ Len(objs) \in Nat /\ DOMAIN objs = 1 .. Len(objs)
    BY <1>0, <2>1, <2>2, DayType, LenProperties DEF SaveInv
  <2>4. /\ save.out \in Seq(Line) /\ save.out = Saved(days, d, k) /\ IsPrefix(file, save.out)
    BY <2>2, SaveProgress DEF SaveInv
  <2>5. CASE k \in DOMAIN objs
    <3> DEFINE l == FileLine(objs[k].apt)
    <3>1. save' = [day |-> d, apt |-> k + 1, out |-> Append(save.out, l)]
      BY <1>6, <2>5 DEF SaveLine
    <3>2. l \in Line
      <4>1. objs[k] \in Object
        BY <1>0, <2>1, <2>5, DayType, ObjectType
      <4> QED BY <4>1, LineTypes DEF Object
    <3>3. Append(save.out, l) = Saved(days, d, k + 1)
      BY <1>0, <2>1, <2>3, <2>4, <2>5, SavedNext
    <3> HIDE DEF l
    <3>4. IsPrefix(file, Append(save.out, l))
      <4>1. /\ Append(save.out, l) \in Seq(Line) /\ Len(Append(save.out, l)) = Len(save.out) + 1
            /\ \A i \in 1 .. Len(save.out) : Append(save.out, l)[i] = save.out[i]
        BY <2>4, <3>2, AppendProperties
      <4>2. Len(file) <= Len(save.out) /\ \A i \in 1 .. Len(file) : file[i] = save.out[i]
        BY <1>0, <2>4, PrefixIs
      <4>3. Len(save.out) \in Nat
        BY <2>4, LenProperties
      <4> DEFINE app == Append(save.out, l)
      <4> HIDE DEF app
      <4>4. Len(file) <= Len(app) /\ \A i \in 1 .. Len(file) : file[i] = app[i]
        BY <1>0, <4>1, <4>2, <4>3 DEF app
      <4>5. app \in Seq(Line)
        BY <4>1 DEF app
      <4>6. IsPrefix(file, app)
        BY <1>0, <4>4, <4>5, PrefixIs
      <4> QED BY <4>6 DEF app
    <3> DEFINE app == Append(save.out, l)
    <3> HIDE DEF app
    <3>5. save'.day = d /\ save'.apt = k + 1 /\ save'.out = app
      BY <3>1 DEF app
    <3>6. app = Saved(days, d, k + 1) /\ IsPrefix(file, app)
      BY <3>3, <3>4 DEF app
    <3>7. k + 1 \in 1 .. Len(objs) + 1
      BY <2>3, <2>5
    <3>8. SaveInv'
      BY <2>1, <2>2, <3>5, <3>6, <3>7 DEF SaveInv
    <3> QED BY <2>1, <3>8 DEF FileInv
  <2>6. CASE k \notin DOMAIN objs
    <3>1. save' = [day |-> d + 1, apt |-> 1, out |-> save.out]
      BY <1>6, <2>6 DEF SaveLine
    <3>2. save.out = Saved(days, d + 1, 1)
      <4>1. days \in Seq(Day) /\ d \in DOMAIN days
        BY <1>0, <2>1
      <4> HIDE DEF d, k
      <4>2. Saved(days, d + 1, 1) = Saved(days, d, k)
        BY ONLY <2>3, <2>6, <4>1, SavedNext DEF objs
      <4> QED BY ONLY <2>4, <4>2
    <3>3. save'.day = d + 1 /\ save'.apt = 1 /\ save'.out = save.out
      BY <3>1
    <3>4. d + 1 \in 1 .. Len(days) + 1
      BY <1>0, <2>1
    <3>5. d + 1 \in DOMAIN days => 1 \in 1 .. Len(days[d + 1].appointments) + 1
      <4>1. ASSUME d + 1 \in DOMAIN days
            PROVE  Len(days[d + 1].appointments) \in Nat
        BY <1>0, <4>1, DayType, LenProperties
      <4> QED BY <4>1
    <3>6. SaveInv'
      BY <2>1, <2>4, <3>2, <3>3, <3>4, <3>5 DEF SaveInv
    <3> QED BY <2>1, <3>6 DEF FileInv
  <2> QED BY <2>5, <2>6
<1>7. CASE Flush
  <2>1. /\ pc = "saving" /\ pc' = "saving" /\ file' = save.out
        /\ UNCHANGED <<days, save, line>>
    BY <1>7 DEF Flush
  <2>2. SaveInv
    BY <2>1 DEF FileInv
  <2>3. save.out \in Seq(Line) /\ IsPrefix(save.out, Lines(days))
    BY <2>2, SaveProgress
  <2>4. Grouped(save.out)
    BY <1>0, <2>3, LinesGrouped, PrefixGrouped
  <2>5. IsPrefix(save.out, save.out)
    BY <2>3, PrefixIs, LenProperties
  <2>6. SaveInv'
    BY <2>1, <2>2, <2>5 DEF SaveInv
  <2> QED BY <2>1, <2>4, <2>6 DEF FileInv
<1>8. CASE EndSave
  <2>1. /\ pc = "saving" /\ pc' = "idle" /\ file' = save.out /\ save.day \notin DOMAIN days
        /\ save' = NoSave /\ dirty' = FALSE /\ UNCHANGED <<days, line>>
    BY <1>8 DEF EndSave
  <2>2. SaveInv
    BY <2>1 DEF FileInv
  <2>3. save.out = Lines(days)
    BY <2>1, <2>2, SaveProgress
  <2>4. Grouped(Lines(days))
    BY <1>0, LinesGrouped
  <2> QED BY <2>1, <2>3, <2>4 DEF FileInv
<1>9. CASE Halt
  BY <1>9 DEF Halt, FileInv
<1>10. CASE Start
  <2>1. /\ pc' = "loading" /\ UNCHANGED <<days, save, file, line>>
        /\ days = <<>> /\ save = NoSave /\ line = 1
    BY <1>10 DEF Start, FileInv
  <2>2. Lines(<<>>) = <<>> /\ SubSeq(file, 1, 0) = <<>> /\ 1 - 1 = 0
    BY <1>0, LinesAppend, FrontProperties
  <2>3. Loaded(days, file, 0)
    <3>1. DOMAIN <<>> = {} /\ ~(0 > 0)
      OBVIOUS
    <3>2. Lines(days) = SubSeq(file, 1, 0)
      BY ONLY <2>1, <2>2
    <3>3. DOMAIN days = {}
      BY ONLY <2>1, <3>1
    <3> QED BY <3>1, <3>2, <3>3 DEF Loaded
  <2>4. line \in 1 .. Len(file) + 1 /\ Loaded(days, file, line - 1)
    BY <1>0, <2>1, <2>2, <2>3
  <2> QED BY <2>1, <2>4 DEF FileInv
<1>11. CASE LoadLine
  <2> DEFINE o == [id |-> nextId, apt |-> ParseLine(file[line])]
  <2>1. /\ pc = "loading" /\ pc' = "loading" /\ line \in DOMAIN file /\ line' = line + 1
        /\ days' = Insert(days, o) /\ UNCHANGED <<save, file>>
    BY <1>11 DEF LoadLine
  <2>2. /\ line - 1 \in 0 .. Len(file) - 1 /\ (line - 1) + 1 = line /\ (line + 1) - 1 = line
        /\ line + 1 \in 1 .. Len(file) + 1
    BY <1>0, <2>1
  <2>3. Loaded(days, file, line - 1) /\ Grouped(file)
    BY <2>1 DEF FileInv
  <2>4. Loaded(days', file, line)
    <3> DEFINE n == line - 1
    <3>1. n \in 0 .. Len(file) - 1 /\ Loaded(days, file, n) /\ n + 1 = line
      BY <2>2, <2>3
    <3> HIDE DEF n
    <3>2. Loaded(Insert(days, [id |-> nextId, apt |-> ParseLine(file[n + 1])]), file, n + 1)
      BY <1>0, <2>3, <3>1, LoadStep
    <3> QED BY <2>1, <3>1, <3>2
  <2>5. line' \in 1 .. Len(file) + 1 /\ Loaded(days', file, line' - 1)
    BY <2>1, <2>2, <2>4
  <2> QED BY <2>1, <2>3, <2>5 DEF FileInv
<1>12. CASE EndLoad
  <2>1. /\ pc = "loading" /\ pc' = "idle" /\ line \notin DOMAIN file /\ line' = 1
        /\ UNCHANGED <<days, save, file, dirty>>
    BY <1>12 DEF EndLoad
  <2>2. line - 1 = Len(file) /\ Loaded(days, file, line - 1)
    BY <1>0, <2>1 DEF FileInv
  <2>3. SubSeq(file, 1, Len(file)) = file
    BY <1>0, FrontProperties
  <2>4. Lines(days) = file
    BY <2>2, <2>3 DEF Loaded
  <2> QED BY <2>1, <2>4 DEF FileInv
<1>13. CASE UNCHANGED vars
  BY <1>13 DEF vars, FileInv, SaveInv
<1> QED
  BY <1>1, <1>2, <1>3, <1>4, <1>5, <1>6, <1>7, <1>8, <1>9, <1>10, <1>11, <1>12, <1>13 DEF Next

LEMMA FileInvariance == Spec => []FileInv
BY Invariance, InitFile, NextFile, PTL DEF Spec

\* A database whose changes are saved can be loaded again, with its days and bookings in
\* the order they had: what any crash has left of an earlier save is a file of which
\* the loading constructor makes the same lines again.
THEOREM FileIsTheMemory == Spec => []FileMatchesMemory
<1>1. FileInv => FileMatchesMemory
  BY DEF FileInv, FileMatchesMemory
<1> QED BY <1>1, FileInvariance, PTL

\* Whatever a save has written when the process dies is a beginning of the bookings.
THEOREM SavesAreBeginnings == Spec => []FileIsPrefix
<1>1. DbInv /\ FileInv => FileIsPrefix
  BY SaveProgress DEF FileInv, FileIsPrefix
<1> QED BY <1>1, Invariance, FileInvariance, PTL

-----------------------------------------------------------------------------
\* What the delete loop has removed.  Of each key as many appointments are gone as
\* results were visited, and with each one all the older ones of its key.
Alike(S, o) == {p \in S : SameKey(p.apt, o.apt)}

Removed == ToSet(call.objs) \ ToSet(days[del.target].appointments)

RemovedInv ==
  pc = "deleting" =>
    /\ Increasing(call.objs)
    /\ ToSet(days[del.target].appointments) \subseteq ToSet(call.objs)
    /\ del.todo \subseteq call.found
    /\ call.found \subseteq ToSet(call.objs)
    /\ \A o \in ToSet(call.objs) :
         Cardinality(Alike(Removed, o)) = Cardinality(Alike(call.found \ del.todo, o))
    /\ \A p \in Removed, q \in ToSet(call.objs) :
         SameKey(p.apt, q.apt) /\ q.id < p.id => q \in Removed

\* One appointment more of a key.
LEMMA AlikeOneMore ==
  ASSUME NEW S, IsFiniteSet(S), NEW x, x \notin S, NEW o
  PROVE  /\ SameKey(x.apt, o.apt) =>
              Cardinality(Alike(S \cup {x}, o)) = Cardinality(Alike(S, o)) + 1
         /\ ~SameKey(x.apt, o.apt) => Alike(S \cup {x}, o) = Alike(S, o)
<1>1. IsFiniteSet(Alike(S, o)) /\ x \notin Alike(S, o)
  BY FS_Subset DEF Alike
<1>2. ASSUME SameKey(x.apt, o.apt)
      PROVE  Cardinality(Alike(S \cup {x}, o)) = Cardinality(Alike(S, o)) + 1
  <2>1. Alike(S \cup {x}, o) = Alike(S, o) \cup {x}
    BY <1>2 DEF Alike
  <2> QED BY <1>1, <2>1, FS_AddElement
<1>3. ASSUME ~SameKey(x.apt, o.apt)
      PROVE  Alike(S \cup {x}, o) = Alike(S, o)
  BY <1>3 DEF Alike
<1> QED BY <1>2, <1>3

LEMMA NextRemoved == DbInv /\ RemovedInv /\ [Next]_vars => RemovedInv'
<1> SUFFICES ASSUME DbInv, RemovedInv, [Next]_vars PROVE RemovedInv'
  OBVIOUS
<1>0. days \in Seq(Day) /\ call.objs \in Seq(Object) /\ del.todo \subseteq Object
  BY DEF DbInv, TypeOK
<1>1. ASSUME NEW b \in Bookings, Add(b)
      PROVE  RemovedInv'
  BY <1>1 DEF Add, RemovedInv
<1>2. ASSUME NEW date \in Text, NEW time \in Text, NEW contactee \in Text,
             BeginDelete(date, time, contactee)
      PROVE  RemovedInv'
  <2> DEFINE d    == First(DaysOf(days, date))
             objs == days[d].appointments
             hits == Selected(objs, time, contactee)
  <2>1. DaysOf(days, date) \in SUBSET Nat /\ DaysOf(days, date) # {}
    BY <1>0, <1>2, LenProperties DEF DaysOf, BeginDelete
  <2>2. d \in DOMAIN days
    BY <2>1, FirstIsLeast DEF DaysOf
  <2>3. objs \in Seq(Object) /\ Increasing(objs)
    BY <1>0, <2>2, DayType DEF DbInv, Good
  <2>4. hits \subseteq ToSet(objs)
    BY <2>3, SelectedFromDay
  <2>5. /\ del' = [target |-> d, todo |-> hits]
        /\ call' = [objs |-> objs, found |-> hits]
        /\ days' = days
    BY <1>2 DEF BeginDelete
  <2> HIDE DEF hits, d
  <2>6. /\ del'.target = d /\ del'.todo = hits /\ call'.objs = objs /\ call'.found = hits
        /\ days'[del'.target].appointments = objs
    BY <2>5
  <2>7. Removed' = {} /\ call'.found \ del'.todo = {}
    BY <2>6 DEF Removed
  <2> QED BY <2>3, <2>4, <2>6, <2>7 DEF RemovedInv, Alike
<1>3. CASE DeleteNext
  <2> DEFINE d    == del.target
             objs == days[d].appointments
             All  == ToSet(call.objs)
             done == call.found \ del.todo
  <2>1. PICK o \in del.todo :
          /\ \A p \in del.todo : o.id <= p.id
          /\ del' = [del EXCEPT !.todo = @ \ {o}]
          /\ days' = WithAppointments(days, d, DeleteAt(objs, GetIndex(objs, o.apt)))
    BY <1>3 DEF DeleteNext
  <2>2. pc = "deleting" /\ pc' = "deleting" /\ call' = call
    BY <1>3 DEF DeleteNext
  <2>3. /\ d \in DOMAIN days
        /\ objs \in Seq(Object)
        /\ Increasing(objs)
        /\ del.todo \subseteq ToSet(objs)
    BY <1>0, <2>2, DayType DEF DbInv, LoopReadsLiveObjects, Good
  <2> DEFINE k   == GetIndex(objs, o.apt)
             g   == objs[k]
             new == DeleteAt(objs, k)
  <2>4. /\ k \in DOMAIN objs
        /\ SameKey(g.apt, o.apt)
        /\ \A j \in DOMAIN objs : SameKey(objs[j].apt, o.apt) => k <= j
    <3>1. PICK i \in DOMAIN objs : objs[i] = o
      BY <2>3 DEF ToSet
    <3>2. SameKey(objs[i].apt, o.apt)
      BY <3>1 DEF SameKey
    <3> QED BY <2>3, <3>1, <3>2, GetIndexProperties
  <2>5. /\ ToSet(new) = ToSet(objs) \ {g} /\ g \in ToSet(objs) /\ new \in Seq(Object)
    <3>1. ToSet(new) = ToSet(objs) \ {g}
      BY <2>3, <2>4, DeleteAtSet
    <3>2. g \in ToSet(objs)
      BY <2>4 DEF ToSet
    <3>3. new \in Seq(Object)
      <4>1. k \in 1 .. Len(objs) /\ new = RemoveAt(objs, k)
        BY <2>3, <2>4, LenProperties DEF DeleteAt
      <4> QED BY <2>3, <4>1, RemoveAtProperties
    <3> QED BY <3>1, <3>2, <3>3
  <2>6. \A q \in ToSet(objs) : SameKey(g.apt, q.apt) => g.id <= q.id
    <3> SUFFICES ASSUME NEW q \in ToSet(objs), SameKey(g.apt, q.apt) PROVE g.id <= q.id
      OBVIOUS
    <3>1. PICK j \in DOMAIN objs : objs[j] = q
      BY DEF ToSet
    <3>2. SameKey(objs[j].apt, o.apt)
      BY <2>4, <3>1 DEF SameKey
    <3>3. k <= j /\ k \in Nat /\ j \in Nat /\ g.id \in Nat /\ q.id \in Nat
      BY <2>3, <2>4, <3>1, <3>2, ObjectType
    <3>4. k < j => g.id < q.id
      BY <2>3, <2>4, <3>1 DEF Increasing
    <3> QED BY <3>1, <3>3, <3>4
  <2> HIDE DEF k, g
  <2>7. days'[d].appointments = new /\ del'.target = d /\ del'.todo = del.todo \ {o}
    <3>1. days'[d].appointments = new
      BY <1>0, <2>1, <2>3, <2>5, UpdateDay DEF k
    <3> QED BY <2>1, <3>1 DEF DbInv, TypeOK
  <2>8. /\ Increasing(call.objs) /\ ToSet(objs) \subseteq All
        /\ del.todo \subseteq call.found /\ call.found \subseteq All
        /\ \A q \in All : Cardinality(Alike(Removed, q)) = Cardinality(Alike(done, q))
        /\ \A p \in Removed, q \in All : SameKey(p.apt, q.apt) /\ q.id < p.id => q \in Removed
        /\ Removed = All \ ToSet(objs)
    BY <2>2 DEF RemovedInv, Removed
  <2>9. Removed' = Removed \cup {g} /\ g \notin Removed /\ g \in All
    BY <2>2, <2>5, <2>7, <2>8 DEF Removed
  <2>10. call.found \ del'.todo = done \cup {o} /\ o \notin done /\ o \in All
    BY <2>1, <2>7, <2>8
  <2>11. IsFiniteSet(Removed) /\ IsFiniteSet(done)
    <3>1. IsFiniteSet(All)
      BY <1>0, FiniteElements
    <3> HIDE DEF All, done
    <3>2. Removed \subseteq All /\ done \subseteq All
      BY <2>8 DEF done
    <3> QED BY <3>1, <3>2, FS_Subset
  <2> HIDE DEF new, done, All
  <2>12. ASSUME NEW q \in All
         PROVE  Cardinality(Alike(Removed \cup {g}, q)) = Cardinality(Alike(done \cup {o}, q))
    <3>1. SameKey(g.apt, q.apt) <=> SameKey(o.apt, q.apt)
      BY <2>4 DEF SameKey, g
    <3>2. Cardinality(Alike(Removed, q)) = Cardinality(Alike(done, q))
      BY <2>8
    <3>3. CASE SameKey(g.apt, q.apt)
      BY <2>9, <2>10, <2>11, <3>1, <3>2, <3>3, AlikeOneMore
    <3>4. CASE ~SameKey(g.apt, q.apt)
      BY <2>9, <2>10, <2>11, <3>1, <3>2, <3>4, AlikeOneMore
    <3> QED BY <3>3, <3>4
  <2>13. ASSUME NEW p \in Removed \cup {g}, NEW q \in All, SameKey(p.apt, q.apt), q.id < p.id
         PROVE  q \in Removed \cup {g}
    <3>1. CASE p \in Removed
      BY <2>8, <2>13, <3>1
    <3>2. CASE p = g
      <4>1. g.id \in Nat /\ q.id \in Nat
        BY <1>0, <2>8, <2>9, OneOfEachId DEF All
      <4>2. q \notin ToSet(objs)
        BY <2>6, <2>13, <3>2, <4>1
      <4> QED BY <2>8, <4>2
    <3> QED BY <3>1, <3>2
  <2>14. ToSet(new) \subseteq All
    BY <2>5, <2>8
  <2>15. /\ call'.objs = call.objs /\ call'.found = call.found /\ ToSet(call'.objs) = All
         /\ days'[del'.target].appointments = new
    BY <2>2, <2>7 DEF All
  <2>16. del'.todo \subseteq call.found /\ call.found \subseteq All
    BY <2>7, <2>8
  <2> QED BY <2>8, <2>9, <2>10, <2>12, <2>13, <2>14, <2>15, <2>16 DEF RemovedInv
<1>4. CASE EndDelete
  BY <1>4 DEF EndDelete, RemovedInv
<1>5. CASE BeginSave
  BY <1>5 DEF BeginSave, RemovedInv
<1>6. CASE SaveLine
  BY <1>6 DEF SaveLine, RemovedInv
<1>7. CASE Flush
  BY <1>7 DEF Flush, RemovedInv
<1>8. CASE EndSave
  BY <1>8 DEF EndSave, RemovedInv
<1>9. CASE Halt
  BY <1>9 DEF Halt, RemovedInv
<1>10. CASE Start
  BY <1>10 DEF Start, RemovedInv
<1>11. CASE LoadLine
  BY <1>11 DEF LoadLine, RemovedInv
<1>12. CASE EndLoad
  BY <1>12 DEF EndLoad, RemovedInv
<1>13. CASE UNCHANGED vars
  BY <1>13 DEF vars, RemovedInv, Removed
<1> QED
  BY <1>1, <1>2, <1>3, <1>4, <1>5, <1>6, <1>7, <1>8, <1>9, <1>10, <1>11, <1>12, <1>13 DEF Next

LEMMA RemovedInvariance == Spec => []RemovedInv
<1>1. Init => RemovedInv
  BY DEF Init, RemovedInv
<1> QED BY <1>1, Invariance, NextRemoved, PTL DEF Spec

\* Of the appointments with one key the oldest are gone, as many as were visited: an
\* appointment remains when more of its key are as old as it than were visited.
LEMMA OldestRemoved == DbInv /\ RemovedInv => RemovesOldestOfEachKey
<1> SUFFICES ASSUME DbInv, RemovedInv, pc = "deleting", NEW o \in ToSet(call.objs)
             PROVE  o \in ToSet(days[del.target].appointments) <=>
                      Cardinality({p \in ToSet(call.objs) : SameKey(p.apt, o.apt) /\ p.id <= o.id})
                        > Cardinality({p \in call.found \ del.todo : SameKey(p.apt, o.apt)})
  BY DEF RemovesOldestOfEachKey
<1> DEFINE All   == ToSet(call.objs)
           older == {p \in All : SameKey(p.apt, o.apt) /\ p.id <= o.id}
           gone  == Alike(Removed, o)
<1>1. /\ Cardinality(gone) = Cardinality({p \in call.found \ del.todo : SameKey(p.apt, o.apt)})
      /\ \A p \in Removed, q \in All : SameKey(p.apt, q.apt) /\ q.id < p.id => q \in Removed
  BY DEF RemovedInv, Alike
<1>2. call.objs \in Seq(Object) /\ Increasing(call.objs)
  BY DEF DbInv, TypeOK, RemovedInv
<1>3. \A p, q \in All : p.id \in Nat /\ (p.id = q.id => p = q)
  BY <1>2, OneOfEachId
<1>4. IsFiniteSet(older) /\ IsFiniteSet(gone)
  <2>1. IsFiniteSet(All)
    BY <1>2, FiniteElements
  <2>2. older \subseteq All /\ gone \subseteq All
    BY DEF Alike, Removed
  <2> HIDE DEF All, older, gone
  <2> QED BY <2>1, <2>2, FS_Subset
<1>5. Cardinality(older) \in Nat /\ Cardinality(gone) \in Nat
  <2> HIDE DEF older, gone
  <2> QED BY <1>4, FS_CardinalityType
<1>6. o \in older
  BY <1>3 DEF SameKey
<1>7. ASSUME o \notin Removed
      PROVE  Cardinality(older) > Cardinality(gone)
  <2>1. gone \subseteq older \ {o}
    <3> SUFFICES ASSUME NEW p \in gone PROVE p \in older \ {o}
      OBVIOUS
    <3>1. p \in Removed /\ p \in All /\ SameKey(p.apt, o.apt) /\ p # o
      BY <1>7 DEF Alike, Removed
    <3>2. ~(o.id < p.id)
      BY <1>1, <1>7, <3>1
    <3> QED BY <1>3, <3>1, <3>2
  <2> HIDE DEF older, gone
  <2>2. IsFiniteSet(older \ {o}) /\ Cardinality(older \ {o}) = Cardinality(older) - 1
    BY <1>4, <1>6, FS_RemoveElement
  <2>3. Cardinality(gone) <= Cardinality(older \ {o})
    BY <2>1, <2>2, FS_Subset
  <2> QED BY <1>5, <2>2, <2>3
<1>8. ASSUME o \in Removed
      PROVE  Cardinality(older) <= Cardinality(gone)
  <2>1. older \subseteq gone
    <3> SUFFICES ASSUME NEW p \in older PROVE p \in gone
      OBVIOUS
    <3>1. p \in All /\ SameKey(p.apt, o.apt) /\ p.id <= o.id /\ SameKey(o.apt, p.apt)
      BY DEF SameKey
    <3>2. p.id < o.id \/ p = o
      BY <1>3, <3>1
    <3>3. p \in Removed
      BY <1>1, <1>8, <3>1, <3>2
    <3> QED BY <3>1, <3>3 DEF Alike
  <2> HIDE DEF older, gone
  <2> QED BY <1>4, <2>1, FS_Subset
<1>9. o \in ToSet(days[del.target].appointments) <=> o \notin Removed
  BY DEF Removed
<1> HIDE DEF older, gone
<1>10. o \in ToSet(days[del.target].appointments) <=> Cardinality(older) > Cardinality(gone)
  BY <1>5, <1>7, <1>8, <1>9
<1> QED BY <1>1, <1>10 DEF older

\* deleteAppointment removes, of the appointments that share a key, the oldest ones, as
\* many as it visits, and no appointment of another key.
THEOREM OldestGoFirst == Spec => []RemovesOldestOfEachKey
BY Invariance, RemovedInvariance, OldestRemoved, PTL
-----------------------------------------------------------------------------
\* The reminder.  A mail about a date lists the one day that holds it; which of its
\* bookings that day holds, and where, is a matter of counting.

\* The appointments of the day of date d, none when there is no such day.
OfDate(ds, d) ==
  IF DaysOf(ds, d) = {} THEN <<>> ELSE ds[First(DaysOf(ds, d))].appointments

\* With one day per date they are those of any day of that date.
LEMMA OfDateIs ==
  ASSUME NEW ds \in Seq(Day), UniqueDates(ds), NEW d
  PROVE  /\ OfDate(ds, d) \in Seq(Object)
         /\ \A e \in DOMAIN ds : ds[e].date = d => OfDate(ds, d) = ds[e].appointments
         /\ (\A e \in DOMAIN ds : ds[e].date # d) => OfDate(ds, d) = <<>>
<1> DEFINE D == DaysOf(ds, d)
<1>1. D \in SUBSET Nat /\ D = {e \in DOMAIN ds : ds[e].date = d}
  BY LenProperties DEF DaysOf
<1>2. OfDate(ds, d) = IF D = {} THEN <<>> ELSE ds[First(D)].appointments
  BY DEF OfDate
<1> HIDE DEF D
<1>3. CASE D = {}
  BY <1>1, <1>2, <1>3, EmptySeq
<1>4. CASE D # {}
  <2>1. First(D) \in DOMAIN ds /\ ds[First(D)].date = d
    BY <1>1, <1>4, FirstIsLeast
  <2>2. \A e \in DOMAIN ds : ds[e].date = d => e = First(D)
    BY <2>1 DEF UniqueDates
  <2>3. ds[First(D)].appointments \in Seq(Object)
    BY <2>1, DayType
  <2> QED BY <1>2, <1>4, <2>1, <2>2, <2>3
<1> QED BY <1>3, <1>4

\* addAppointment puts an appointment behind the others of its date.
LEMMA InsertOfDate ==
  ASSUME NEW ds \in Seq(Day), UniqueDates(ds), NEW o \in Object, NEW d,
         Insert(ds, o) \in Seq(Day), UniqueDates(Insert(ds, o))
  PROVE  OfDate(Insert(ds, o), d) =
           IF o.apt.date = d THEN Append(OfDate(ds, d), o) ELSE OfDate(ds, d)
<1> DEFINE D  == DaysOf(ds, o.apt.date)
           nd == Insert(ds, o)
<1>0. DOMAIN ds = 1 .. Len(ds) /\ Len(ds) \in Nat /\ <<o>> \in Seq(Object) /\ o.apt.date \in Text
  BY LenProperties DEF Object, Appointment
<1>1. D \in SUBSET Nat /\ D = {e \in DOMAIN ds : ds[e].date = o.apt.date}
  BY LenProperties DEF DaysOf
<1>2. /\ \A e \in DOMAIN ds : ds[e].date = d => OfDate(ds, d) = ds[e].appointments
      /\ (\A e \in DOMAIN ds : ds[e].date # d) => OfDate(ds, d) = <<>>
  BY OfDateIs
<1>3. /\ \A e \in DOMAIN nd : nd[e].date = d => OfDate(nd, d) = nd[e].appointments
      /\ (\A e \in DOMAIN nd : nd[e].date # d) => OfDate(nd, d) = <<>>
  <2> HIDE DEF nd
  <2> QED BY OfDateIs DEF nd
<1>4. CASE D = {}
  <2> DEFINE day == [date |-> o.apt.date, appointments |-> <<o>>]
  <2>1. nd = Append(ds, day)
    BY <1>4 DEF Insert
  <2>2. day \in Day /\ day.date = o.apt.date /\ day.appointments = <<o>>
    BY <1>0 DEF Day
  <2> HIDE DEF day, nd, D
  <2>3. /\ DOMAIN nd = 1 .. Len(ds) + 1
        /\ \A e \in 1 .. Len(ds) : nd[e] = ds[e]
        /\ nd[Len(ds) + 1] = day
    <3>1. /\ Append(ds, day) \in Seq(Day)
          /\ Len(Append(ds, day)) = Len(ds) + 1
          /\ \A e \in 1 .. Len(ds) : Append(ds, day)[e] = ds[e]
          /\ Append(ds, day)[Len(ds) + 1] = day
      BY ONLY ds \in Seq(Day), <2>2, AppendProperties
    <3> QED BY <1>0, <2>1, <3>1, LenProperties
  <2>4. CASE o.apt.date = d
    <3>1. OfDate(ds, d) = <<>>
      BY <1>1, <1>2, <1>4, <2>4
    <3>2. Len(ds) + 1 \in DOMAIN nd /\ nd[Len(ds) + 1].date = d
      BY <1>0, <2>2, <2>3, <2>4
    <3>3. OfDate(nd, d) = <<o>>
      BY <1>3, <2>2, <2>3, <3>2
    <3>4. Append(<<>>, o) = <<o>>
      OBVIOUS
    <3> QED BY <2>4, <3>1, <3>3, <3>4 DEF nd
  <2>5. CASE o.apt.date # d
    <3>1. ASSUME NEW e \in DOMAIN ds, ds[e].date = d
          PROVE  OfDate(nd, d) = OfDate(ds, d)
      <4>1. e \in DOMAIN nd /\ nd[e] = ds[e]
        BY <1>0, <2>3
      <4> QED BY <1>2, <1>3, <3>1, <4>1
    <3>2. ASSUME \A e \in DOMAIN ds : ds[e].date # d
          PROVE  OfDate(nd, d) = OfDate(ds, d)
      <4>1. \A e \in DOMAIN nd : nd[e].date # d
        BY <1>0, <2>2, <2>3, <2>5, <3>2
      <4> QED BY <1>2, <1>3, <3>2, <4>1
    <3> QED BY <2>5, <3>1, <3>2 DEF nd
  <2> QED BY <2>4, <2>5
<1>5. CASE D # {}
  <2> DEFINE k    == First(D)
             more == Append(ds[k].appointments, o)
  <2>1. k \in DOMAIN ds /\ ds[k].date = o.apt.date
    <3> HIDE DEF D
    <3> QED BY <1>1, <1>5, FirstIsLeast
  <2>2. nd = WithAppointments(ds, k, more)
    BY <1>5 DEF Insert
  <2> HIDE DEF k, nd, D
  <2>3. more \in Seq(Object)
    BY <2>1, DayType, AppendProperties
  <2>4. /\ DOMAIN nd = DOMAIN ds
        /\ \A e \in DOMAIN ds :
             /\ nd[e].date = ds[e].date
             /\ nd[e].appointments = IF e = k THEN more ELSE ds[e].appointments
    <3> HIDE DEF more
    <3> QED BY <2>1, <2>2, <2>3, UpdateDay
  <2>5. CASE o.apt.date = d
    <3>1. OfDate(nd, d) = more /\ OfDate(ds, d) = ds[k].appointments
      BY <1>2, <1>3, <2>1, <2>4, <2>5
    <3> QED BY <2>5, <3>1 DEF nd
  <2>6. CASE o.apt.date # d
    <3>1. ASSUME NEW e \in DOMAIN ds, ds[e].date = d
          PROVE  OfDate(nd, d) = OfDate(ds, d)
      <4>1. e # k
        BY <2>1, <2>6, <3>1
      <4> QED BY <1>2, <1>3, <2>4, <3>1, <4>1
    <3>2. ASSUME \A e \in DOMAIN ds : ds[e].date # d
          PROVE  OfDate(nd, d) = OfDate(ds, d)
      BY <1>2, <1>3, <2>4, <3>2
    <3> QED BY <2>6, <3>1, <3>2 DEF nd
  <2> QED BY <2>5, <2>6
<1> QED BY <1>4, <1>5

\* Of the first N sequences only the k-th, x, holds anything, or none if there is no k-th.
OnlyIn(ss, N, k, x) ==
  /\ \A i \in 1 .. N : ss[i] = IF i = k THEN x ELSE <<>>
  /\ k \notin 1 .. N => x = <<>>

\* Sequences of which at most one holds anything join to that one.
LEMMA FlattenOne ==
  ASSUME NEW S, NEW N \in Nat, NEW ss \in [1 .. N -> Seq(S)], NEW k \in Nat, NEW x,
         OnlyIn(ss, N, k, x)
  PROVE  FlattenSeq(ss) = x
<1> USE DEF OnlyIn
<1>1. ss \in Seq(Seq(S)) /\ Len(ss) = N
  BY SeqDef, LenProperties
<1>2. CASE N = 0
  <2>1. FlattenSeq(ss) = ss /\ ss = <<>>
    BY <1>1, <1>2, EmptySeq DEF FlattenSeq
  <2> QED BY <1>2, <2>1
<1>3. CASE N # 0
  <2>1. PICK f : IsFlat(f, ss, N) /\ FlattenSeq(ss) = f[N]
    BY <1>1, <1>3, FlattenIs
  <2>2. \A n \in 1 .. N : f[n] = IF n = 1 THEN ss[n] ELSE f[n - 1] \o ss[n]
    BY <2>1 DEF IsFlat
  <2> DEFINE z    == <<>>
             P(n) == n = 0 \/ f[n] = IF k \in 1 .. n THEN x ELSE z
             Q    == {n \in 0 .. N : P(n)}
  <2>3. 0 \in Q
    OBVIOUS
  <2>4. z \in Seq(S) /\ \A s \in Seq(S) : s \o z = s /\ z \o s = s
    BY EmptySeq, ConcatEmptySeq
  <2>5. k \in 1 .. N => x \in Seq(S)
    OBVIOUS
  <2> HIDE DEF z
  <2>6. ASSUME NEW n \in 0 .. N - 1, n \in Q
        PROVE  n + 1 \in Q
    <3>1. n + 1 \in 1 .. N /\ (n + 1) - 1 = n /\ n + 1 \in 0 .. N /\ n \in Nat
      BY <1>3
    <3>2. ss[n + 1] = IF n + 1 = k THEN x ELSE z
      BY <3>1 DEF z
    <3>3. CASE n = 0
      <4>1. f[n + 1] = ss[n + 1]
        BY <2>2, <3>1, <3>3
      <4>2. k \in 1 .. n + 1 <=> k = n + 1
        BY <3>3
      <4> QED BY <3>1, <3>2, <4>1, <4>2
    <3>4. CASE n # 0
      <4>0. n + 1 # 1
        BY <3>1, <3>4
      <4>1. f[n + 1] = f[n] \o ss[n + 1]
        BY ONLY <2>2, <3>1, <4>0
      <4>2. f[n] = IF k \in 1 .. n THEN x ELSE z
        BY <2>6, <3>4
      <4>3. k \in 1 .. n + 1 <=> k \in 1 .. n \/ k = n + 1
        BY <3>1
      <4>4. ~(k \in 1 .. n /\ k = n + 1) /\ (k \in 1 .. n => k \in 1 .. N)
        BY <3>1
      <4>5. CASE k \in 1 .. n
        BY <2>4, <2>5, <3>1, <3>2, <4>1, <4>2, <4>3, <4>4, <4>5
      <4>6. CASE k = n + 1
        BY <2>4, <2>5, <3>1, <3>2, <4>1, <4>2, <4>3, <4>4, <4>6
      <4>7. CASE k \notin 1 .. n /\ k # n + 1
        BY <2>4, <3>1, <3>2, <4>1, <4>2, <4>3, <4>7
      <4> QED BY <4>5, <4>6, <4>7
    <3> QED BY <3>3, <3>4
  <2> HIDE DEF Q
  <2>7. \A n \in 0 .. N : n \in Q
    BY <2>3, <2>6, Induct
  <2>8. N \in Q
    BY <2>7
  <2>9. f[N] = IF k \in 1 .. N THEN x ELSE z
    BY <1>3, <2>8 DEF Q
  <2> QED BY <2>1, <2>9 DEF z
<1> QED BY <1>2, <1>3

\* A search for a date finds the appointments of its day.
LEMMA SearchOfDate ==
  ASSUME NEW ds \in Seq(Day), UniqueDates(ds), NEW d \in Slashed \ {Empty}
  PROVE  DbSearch(ds, d) = OfDate(ds, d)
<1> DEFINE N  == Len(ds)
           ss == [e \in DOMAIN ds |-> IF ds[e].date = d THEN ds[e].appointments ELSE <<>>]
           x  == OfDate(ds, d)
<1>1. N \in Nat /\ DOMAIN ds = 1 .. N /\ \A e \in 1 .. N : ds[e].appointments \in Seq(Object)
  BY LenProperties, DayType
<1>2. DbSearch(ds, d) = FlattenSeq(ss)
  BY DEF DbSearch
<1>3. ss \in [1 .. N -> Seq(Object)]
  BY <1>1, EmptySeq
<1>4. /\ \A e \in 1 .. N : ds[e].date = d => x = ds[e].appointments
      /\ (\A e \in 1 .. N : ds[e].date # d) => x = <<>>
  BY <1>1, OfDateIs
<1>5. \E k \in Nat : OnlyIn(ss, N, k, x)
  <2> USE DEF OnlyIn
  <2> HIDE DEF x
  <2>1. CASE \E k \in 1 .. N : ds[k].date = d
    <3>1. PICK k \in 1 .. N : ds[k].date = d
      BY <2>1
    <3>2. \A i \in 1 .. N : ds[i].date = d => i = k
      BY <1>1, <3>1 DEF UniqueDates
    <3>3. k \in Nat
      BY <3>1
    <3> QED BY <1>1, <1>4, <3>1, <3>2, <3>3
  <2>2. CASE ~ \E k \in 1 .. N : ds[k].date = d
    <3>1. x = <<>> /\ 0 \in Nat /\ 0 \notin 1 .. N
      BY <1>4, <2>2
    <3>2. \A i \in 1 .. N : ss[i] = <<>>
      BY <1>1, <2>2
    <3> QED BY <3>1, <3>2
  <2> QED BY <2>1, <2>2
<1> HIDE DEF ss, x, N
<1>6. PICK k \in Nat : OnlyIn(ss, N, k, x)
  BY <1>5
<1>7. FlattenSeq(ss) = x
  BY ONLY <1>1, <1>3, <1>6, k \in Nat, FlattenOne
<1> QED BY <1>2, <1>7 DEF x
\* The first n events of date d.
Upto(es, d, n) == {i \in 1 .. n : es[i].date = d}

\* One more event is one more of the date, or none.
LEMMA UptoNext ==
  ASSUME NEW es, NEW d, NEW n \in Nat
  PROVE  /\ IsFiniteSet(Upto(es, d, n)) /\ Cardinality(Upto(es, d, n)) \in Nat
         /\ Upto(es, d, 0) = {} /\ Cardinality(Upto(es, d, 0)) = 0
         /\ es[n + 1].date = d =>
              /\ Upto(es, d, n + 1) = Upto(es, d, n) \cup {n + 1}
              /\ Cardinality(Upto(es, d, n + 1)) = Cardinality(Upto(es, d, n)) + 1
         /\ es[n + 1].date # d => Upto(es, d, n + 1) = Upto(es, d, n)
         /\ \A i \in Upto(es, d, n) :
              Cardinality(Upto(es, d, i)) \in 1 .. Cardinality(Upto(es, d, n))
<1> DEFINE U(m) == Upto(es, d, m)
<1>1. \A m \in Nat : IsFiniteSet(U(m)) /\ Cardinality(U(m)) \in Nat
  <2> SUFFICES ASSUME NEW m \in Nat PROVE IsFiniteSet(U(m)) /\ Cardinality(U(m)) \in Nat
    OBVIOUS
  <2>1. IsFiniteSet(1 .. m) /\ U(m) \subseteq 1 .. m
    BY FS_Interval DEF Upto
  <2>2. IsFiniteSet(U(m))
    BY <2>1, FS_Subset
  <2> QED BY <2>2, FS_CardinalityType
<1>2. U(0) = {} /\ Cardinality(U(0)) = 0
  <2>1. U(0) = {}
    BY DEF Upto
  <2> QED BY <2>1, FS_EmptySet
<1>3. ASSUME es[n + 1].date = d
      PROVE  U(n + 1) = U(n) \cup {n + 1} /\ Cardinality(U(n + 1)) = Cardinality(U(n)) + 1
  <2>1. U(n + 1) = U(n) \cup {n + 1} /\ n + 1 \notin U(n)
    BY <1>3 DEF Upto
  <2>2. Cardinality(U(n) \cup {n + 1}) = Cardinality(U(n)) + 1
    BY <1>1, <2>1, FS_AddElement
  <2> QED BY <2>1, <2>2
<1>4. ASSUME es[n + 1].date # d PROVE U(n + 1) = U(n)
  BY <1>4 DEF Upto
<1>5. ASSUME NEW i \in U(n)
      PROVE  Cardinality(U(i)) \in 1 .. Cardinality(U(n))
  <2>1. i \in Nat /\ i \in U(i) /\ U(i) \subseteq U(n)
    BY DEF Upto
  <2>2. IsFiniteSet(U(n)) /\ IsFiniteSet(U(i)) /\ Cardinality(U(i)) \in Nat /\ Cardinality(U(n)) \in Nat
    BY <1>1, <2>1
  <2>3. Cardinality(U(i)) <= Cardinality(U(n))
    BY <2>1, <2>2, FS_Subset
  <2>4. Cardinality(U(i)) # 0
    BY <2>1, <2>2, FS_EmptySet
  <2> QED BY <2>2, <2>3, <2>4
<1> QED BY <1>1, <1>2, <1>3, <1>4, <1>5

\* objs are the first n events of date d, in their order.
HoldsUpto(objs, es, d, n) ==
  /\ Len(objs) = Cardinality(Upto(es, d, n))
  /\ \A i \in Upto(es, d, n) :
       objs[Cardinality(Upto(es, d, i))].apt = es[i]

\* One more booking loaded.
LEMMA HoldsNext ==
  ASSUME NEW es, NEW d, NEW n \in Nat, NEW objs \in Seq(Object), NEW o \in Object,
         o.apt = es[n + 1], HoldsUpto(objs, es, d, n)
  PROVE  HoldsUpto(IF o.apt.date = d THEN Append(objs, o) ELSE objs, es, d, n + 1)
<1> DEFINE U(m) == Upto(es, d, m)
           c(m) == Cardinality(U(m))
           new  == Append(objs, o)
<1>1. CASE o.apt.date # d
  <2>1. U(n + 1) = U(n)
    BY <1>1, UptoNext
  <2> QED BY <1>1, <2>1 DEF HoldsUpto
<1>2. CASE o.apt.date = d
  <2>1. /\ U(n + 1) = U(n) \cup {n + 1} /\ c(n + 1) = c(n) + 1
        /\ \A i \in U(n) : c(i) \in 1 .. c(n)
    BY <1>2, UptoNext
  <2>2. Len(objs) = c(n) /\ (\A i \in U(n) : objs[c(i)].apt = es[i])
    BY DEF HoldsUpto
  <2>3. /\ Len(new) = Len(objs) + 1 /\ (\A i \in 1 .. Len(objs) : new[i] = objs[i])
        /\ new[Len(objs) + 1] = o
    BY AppendProperties
  <2> HIDE DEF new, U, c
  <2>4. Len(new) = c(n + 1)
    BY <2>1, <2>2, <2>3
  <2>5. ASSUME NEW i \in U(n + 1)
        PROVE  new[c(i)].apt = es[i]
    <3>1. CASE i \in U(n)
      BY <2>1, <2>2, <2>3, <3>1
    <3>2. CASE i = n + 1
      BY <2>1, <2>2, <2>3, <3>2
    <3> QED BY <2>1, <3>1, <3>2
  <2>6. HoldsUpto(new, es, d, n + 1)
    BY <2>4, <2>5 DEF HoldsUpto, U, c
  <2> QED BY <1>2, <2>6 DEF new
<1> QED BY <1>1, <1>2

\* The contactees of the appointments of a day.
Names(objs) == [n \in DOMAIN objs |-> objs[n].apt.contactee]

\* What holds the first n events of the date names the events of the date.
LEMMA HeldAreNamed ==
  ASSUME NEW es, NEW d, NEW n \in Nat, DOMAIN es = 1 .. n, NEW objs \in Seq(Object),
         HoldsUpto(objs, es, d, n)
  PROVE  NamesTheDay(Names(objs), es, d)
<1> DEFINE U(m) == Upto(es, d, m)
           due  == {i \in DOMAIN es : es[i].date = d}
<1>1. due = U(n) /\ \A i \in due : {j \in due : j <= i} = U(i)
  BY DEF Upto
<1>2. \A i \in U(n) : Cardinality(U(i)) \in 1 .. Cardinality(U(n))
  BY UptoNext
<1>3. DOMAIN objs = 1 .. Len(objs) /\ Len(objs) \in Nat
  BY LenProperties
<1>4. /\ DOMAIN Names(objs) = 1 .. Len(objs)
      /\ \A i \in 1 .. Len(objs) : Names(objs)[i] = objs[i].apt.contactee
  BY <1>3 DEF Names
<1>5. Len(Names(objs)) = Len(objs)
  <2>1. Names(objs) \in Seq({objs[i].apt.contactee : i \in DOMAIN objs})
    BY <1>3, SeqDef DEF Names
  <2> QED BY <1>3, <1>4, <2>1, LenProperties
<1> DEFINE mail == Names(objs)
<1> HIDE DEF due, mail, U
<1>6. Len(mail) = Cardinality(due)
  BY <1>1, <1>5 DEF HoldsUpto, U, mail
<1>7. ASSUME NEW i \in due
      PROVE  mail[Cardinality({j \in due : j <= i})] = es[i].contactee
  <2>1. Cardinality(U(i)) \in 1 .. Len(objs) /\ objs[Cardinality(U(i))].apt = es[i]
    BY <1>1, <1>2 DEF HoldsUpto, U
  <2>2. mail[Cardinality(U(i))] = es[i].contactee
    BY <1>4, <2>1 DEF mail
  <2> QED BY <1>1, <2>2
<1> QED BY <1>6, <1>7 DEF NamesTheDay, due, mail

\* The mail about a date lists the names of the appointments of its day.
LEMMA MailIs ==
  ASSUME NEW ds \in Seq(Day), UniqueDates(ds), NEW d \in Slashed \ {Empty}
  PROVE  MailLines(ds, d) = Names(OfDate(ds, d))
BY SearchOfDate DEF MailLines, Names

\* The inductive invariant of the reminder: what has been loaded is in good order and holds
\* the events read so far, those of each date in their order; with a connection the names
\* to mail are those of the date; and the mail is taken exactly on the way from the content
\* to QUIT.
WeekInv ==
  phase = "loading" =>
    /\ Good(week, read + 1) /\ command = 0
    /\ \A d \in SixDays : HoldsUpto(OfDate(week, d), events, d, read)

MailInv ==
  /\ command # 0 => NamesTheDay(content, events, sixDays)
  /\ command = 0 => ~taken
  /\ phase = "talking" => command # 0 /\ (taken <=> command = Quit)

ReminderInv == ReminderTypeOK /\ WeekInv /\ MailInv /\ ExitTellsOfTheMail

\* A file is a sequence of lines.
LEMMA FileLines ==
  ASSUME NEW f \in Files
  PROVE  /\ f \in Seq(Events \cup {Short}) /\ DOMAIN f = 1 .. Len(f) /\ Len(f) \in Nat
         /\ \A i \in 1 .. Len(f) : f[i] # Short => f[i] \in Appointment
<1>1. PICK n \in 0 .. MaxEvents : f \in [1 .. n -> Events \cup {Short}]
  BY DEF Files
<1>2. n \in Nat
  BY ReminderAssumption
<1>3. f \in Seq(Events \cup {Short})
  BY <1>1, <1>2, SeqDef
<1>4. Events \subseteq Appointment
  BY ReminderAssumption, TextAssumption DEF Events, Event, Appointment
<1>5. DOMAIN f = 1 .. Len(f) /\ Len(f) \in Nat
  BY <1>3, LenProperties
<1>6. \A i \in 1 .. Len(f) : f[i] \in Events \cup {Short}
  BY <1>3, ElementOfSeq
<1> QED BY <1>3, <1>4, <1>5, <1>6

\* A mail about a date lists texts.
LEMMA MailType ==
  ASSUME NEW ds \in Seq(Day), UniqueDates(ds), NEW d \in SixDays
  PROVE  MailLines(ds, d) \in Seq(Text) /\ MailLines(ds, d) = Names(OfDate(ds, d))
<1> DEFINE objs == OfDate(ds, d)
<1>1. d \in Slashed \ {Empty}
  BY ReminderAssumption
<1>2. MailLines(ds, d) = Names(objs) /\ objs \in Seq(Object)
  BY <1>1, MailIs, OfDateIs
<1> HIDE DEF objs
<1>3. DOMAIN objs = 1 .. Len(objs) /\ Len(objs) \in Nat
  BY <1>2, LenProperties
<1>4. \A i \in 1 .. Len(objs) : objs[i].apt.contactee \in Text
  BY <1>2, <1>3, ObjectType DEF Object, Appointment
<1>5. Names(objs) \in [1 .. Len(objs) -> Text]
  BY <1>3, <1>4 DEF Names
<1>6. Names(objs) \in Seq(Text)
  BY <1>3, <1>5, SeqDef
<1> QED BY <1>2, <1>6 DEF objs

LEMMA ReminderBegins == ReminderInit => ReminderInv
<1> SUFFICES ASSUME ReminderInit PROVE ReminderInv
  OBVIOUS
<1> USE DEF ReminderInit
<1>1. <<>> \in Files
  <2>1. 0 \in 0 .. MaxEvents
    BY ReminderAssumption
  <2>2. <<>> \in [1 .. 0 -> Events \cup {Short}]
    OBVIOUS
  <2> QED BY <2>1, <2>2 DEF Files
<1>2. <<>> \in Seq(Day) /\ <<>> \in Seq(Text) /\ Len(<<>>) = 0
  BY EmptySeq
<1>3. ReminderTypeOK
  <2>1. 0 \in 0 .. 0 /\ 0 \in 0 .. 8
    OBVIOUS
  <2>2. read \in 0 .. Len(events)
    BY <1>2, <2>1
  <2> QED BY <1>1, <1>2, <2>1, <2>2 DEF ReminderTypeOK, Quit
<1>4. WeekInv /\ MailInv /\ ExitTellsOfTheMail
  BY DEF WeekInv, MailInv, ExitTellsOfTheMail
<1> QED BY <1>3, <1>4 DEF ReminderInv

\* A new run has read nothing.
LEMMA BeginStep ==
  ASSUME ReminderInv, Begin
  PROVE  ReminderInv'
<1> USE DEF Begin
<1>1. /\ <<>> \in Seq(Day) /\ <<>> \in Seq(Text) /\ <<>> \in Seq(Object)
      /\ Len(<<>>) = 0 /\ DOMAIN <<>> = {}
  BY EmptySeq
<1>2. ReminderTypeOK'
  <2>1. events' \in Files /\ Len(events') \in Nat
    BY FileLines
  <2>2. read' \in 0 .. Len(events') /\ command' \in 0 .. 8
    BY <2>1
  <2>3. phase' = "loading" /\ taken' = FALSE /\ exit' = exit /\ exit \in {0, 1}
    BY DEF ReminderInv, ReminderTypeOK
  <2> QED BY <1>1, <2>1, <2>2, <2>3 DEF ReminderTypeOK, Quit
<1>3. WeekInv'
  <2>1. Good(<<>>, 0 + 1)
    BY <1>1 DEF Good, UniqueDates, Filed, Apart
  <2>2. \A d : OfDate(<<>>, d) = <<>>
    BY <1>1 DEF OfDate, DaysOf
  <2>3. \A d : HoldsUpto(<<>>, events', d, 0)
    BY <1>1, UptoNext DEF HoldsUpto
  <2> QED BY <2>1, <2>2, <2>3 DEF WeekInv
<1>4. MailInv' /\ ExitTellsOfTheMail'
  BY DEF MailInv, ExitTellsOfTheMail
<1> QED BY <1>2, <1>3, <1>4 DEF ReminderInv

\* A line that is read goes behind those of its date.
LEMMA ReadStep ==
  ASSUME ReminderInv, ReadLine
  PROVE  ReminderInv'
<1> DEFINE n == read
           b == events[n + 1]
           o == [id |-> n + 1, apt |-> b]
<1>1. /\ phase = "loading" /\ n < Len(events) /\ read' = n + 1 /\ week' = Insert(week, o)
      /\ UNCHANGED <<phase, events, sixDays, content, command, taken, exit>>
      /\ Good(week, n + 1) /\ \A d \in SixDays : HoldsUpto(OfDate(week, d), events, d, n)
  BY DEF ReadLine, ReminderInv, WeekInv
<1>2. events \in Files /\ n \in 0 .. Len(events) /\ b # Short
  BY DEF ReminderInv, ReminderTypeOK, ReadLine
<1>3. Len(events) \in Nat /\ n \in Nat /\ n + 1 \in 1 .. Len(events) /\ n + 1 \in Nat
  BY <1>1, <1>2, FileLines
<1>4. b \in Appointment /\ o \in Object /\ o.apt = b
  <2>1. b \in Appointment
    BY <1>2, <1>3, FileLines
  <2> QED BY <1>3, <2>1 DEF Object
<1>5. Good(Insert(week, o), (n + 1) + 1)
  <2> HIDE DEF b, n
  <2> QED BY <1>1, <1>3, <1>4, InsertGood
<1>6. ASSUME NEW d \in SixDays
      PROVE  HoldsUpto(OfDate(Insert(week, o), d), events, d, n + 1)
  <2> HIDE DEF o, n
  <2>1. OfDate(Insert(week, o), d) =
          IF o.apt.date = d THEN Append(OfDate(week, d), o) ELSE OfDate(week, d)
    BY <1>1, <1>4, <1>5, InsertOfDate DEF Good
  <2>2. OfDate(week, d) \in Seq(Object)
    BY <1>1, OfDateIs DEF Good
  <2>3. HoldsUpto(OfDate(week, d), events, d, n) /\ o.apt = events[n + 1]
    BY <1>1, <1>4
  <2> QED BY <1>3, <1>4, <2>1, <2>2, <2>3, HoldsNext
<1> HIDE DEF o, b, n
<1>7. WeekInv'
  BY <1>1, <1>5, <1>6 DEF WeekInv, ReminderInv
<1>8. ReminderTypeOK'
  <2>1. week' \in Seq(Day)
    BY <1>1, <1>5 DEF Good
  <2>2. read' \in 0 .. Len(events)
    BY <1>1, <1>3
  <2> QED BY <1>1, <2>1, <2>2 DEF ReminderInv, ReminderTypeOK
<1>9. MailInv' /\ ExitTellsOfTheMail'
  BY <1>1 DEF ReminderInv, MailInv, ExitTellsOfTheMail
<1> QED BY <1>7, <1>8, <1>9 DEF ReminderInv

\* With a connection there is a mail, which is of the date.
LEMMA ConnectStep ==
  ASSUME ReminderInv, Connect
  PROVE  ReminderInv'
<1>1. /\ phase = "loading" /\ read = Len(events) /\ phase' = "talking" /\ command' = 1
      /\ sixDays' \in SixDays /\ content' = MailLines(week, sixDays')
      /\ UNCHANGED <<events, read, week, taken, exit>>
      /\ Good(week, read + 1) /\ command = 0 /\ events \in Files
  BY DEF Connect, ReminderInv, WeekInv, ReminderTypeOK
<1> DEFINE d    == sixDays'
           objs == OfDate(week, d)
<1>2. HoldsUpto(objs, events, d, read)
  BY <1>1 DEF ReminderInv, WeekInv
<1>3. objs \in Seq(Object) /\ content' = Names(objs) /\ content' \in Seq(Text)
  BY <1>1, OfDateIs, MailType DEF Good
<1>4. NamesTheDay(content', events, d)
  <2>1. DOMAIN events = 1 .. read /\ read \in Nat
    BY <1>1, FileLines
  <2> HIDE DEF objs, d
  <2> QED BY <1>2, <1>3, <2>1, HeldAreNamed
<1>5. ~taken
  BY <1>1 DEF ReminderInv, MailInv
<1>6. ReminderTypeOK'
  BY <1>1, <1>3 DEF ReminderInv, ReminderTypeOK, Quit
<1>7. MailInv'
  BY <1>1, <1>4, <1>5 DEF MailInv, Quit
<1>8. WeekInv' /\ ExitTellsOfTheMail'
  BY <1>1 DEF WeekInv, ExitTellsOfTheMail
<1> QED BY <1>6, <1>7, <1>8 DEF ReminderInv

\* A run that ends before there is a connection has sent nothing.
LEMMA EarlyEnd ==
  ASSUME ReminderInv, LoadThrows \/ NoUser \/ NoServer
  PROVE  ReminderInv'
<1>1. /\ phase = "loading" /\ phase' = "ended" /\ exit' \in {0, 1}
      /\ UNCHANGED <<events, read, week, sixDays, content, command, taken>>
  BY DEF LoadThrows, NoUser, NoServer, End
<1>2. command = 0 /\ ~taken
  BY <1>1 DEF ReminderInv, WeekInv, MailInv
<1>3. ReminderTypeOK' /\ WeekInv' /\ MailInv' /\ ExitTellsOfTheMail'
  BY <1>1, <1>2 DEF ReminderInv, ReminderTypeOK, WeekInv, MailInv, ExitTellsOfTheMail
<1> QED BY <1>3 DEF ReminderInv

\* The answer to each command.
LEMMA ReplyStep ==
  ASSUME ReminderInv, Reply
  PROVE  ReminderInv'
<1>1. /\ phase = "talking" /\ command \in 1 .. 8 /\ taken \in BOOLEAN
      /\ taken <=> command = 8
      /\ NamesTheDay(content, events, sixDays)
  BY DEF Reply, ReminderInv, ReminderTypeOK, MailInv, Quit
<1>2. PICK code \in Codes, takes \in BOOLEAN :
        /\ takes => Takes(code)
        /\ command = Content /\ code = 250 => takes
        /\ taken' = (taken \/ takes)
        /\ IF code \notin Allowed(Commands[command])
           THEN End(1) /\ UNCHANGED command
           ELSE IF command = Quit
           THEN End(0) /\ UNCHANGED command
           ELSE /\ command' = command + 1
                /\ UNCHANGED <<phase, events, read, week, sixDays, content, exit>>
  BY DEF Reply
<1>3. UNCHANGED <<events, read, week, sixDays, content>> /\ taken' \in BOOLEAN
  BY <1>2 DEF End
<1>4. takes => command = 7
  BY <1>2 DEF Takes, Content
<1>5. CASE phase' = "ended" /\ command' = command /\ exit' = 1
  <2>1. taken' => command \in {7, 8}
    BY <1>1, <1>2, <1>4
  <2> QED BY <1>1, <1>3, <1>5, <2>1
       DEF ReminderInv, ReminderTypeOK, WeekInv, MailInv, ExitTellsOfTheMail, Content, Quit
<1>6. CASE phase' = "ended" /\ command' = command /\ command = 8 /\ exit' = 0
  <2>1. taken'
    BY <1>1, <1>2, <1>6
  <2> QED BY <1>1, <1>3, <1>6, <2>1
       DEF ReminderInv, ReminderTypeOK, WeekInv, MailInv, ExitTellsOfTheMail, Content, Quit
<1>7. CASE /\ command # 8 /\ command' = command + 1 /\ UNCHANGED <<phase, exit>>
           /\ code \in Allowed(Commands[command])
  <2>1. command = 7 => code = 250
    BY <1>7 DEF Allowed, Commands
  <2>2. taken' <=> command' = 8
    <3>1. command = 7 => takes
      BY <1>2, <2>1 DEF Content
    <3> QED BY <1>1, <1>2, <1>4, <1>7, <3>1
  <2>3. command' \in 1 .. 8
    BY <1>1, <1>7
  <2> QED BY <1>1, <1>3, <1>7, <2>2, <2>3
       DEF ReminderInv, ReminderTypeOK, WeekInv, MailInv, ExitTellsOfTheMail, Content, Quit
<1> QED BY <1>2, <1>5, <1>6, <1>7 DEF End, Quit

LEMMA ReminderStays == ReminderInv /\ [ReminderNext]_reminderVars => ReminderInv'
<1> SUFFICES ASSUME ReminderInv, [ReminderNext]_reminderVars PROVE ReminderInv'
  OBVIOUS
<1>1. CASE UNCHANGED reminderVars
  BY <1>1 DEF reminderVars, ReminderInv, ReminderTypeOK, WeekInv, MailInv, ExitTellsOfTheMail
<1> QED BY <1>1, BeginStep, ReadStep, ConnectStep, EarlyEnd, ReplyStep DEF ReminderNext

LEMMA ReminderInvariance == ReminderSpec => []ReminderInv
BY ReminderBegins, ReminderStays, PTL DEF ReminderSpec

\* The mail that the server takes names exactly the events of the date, in the order of the
\* file, whatever dates, names and lines the file holds.
THEOREM MailsAreOfTheDay == ReminderSpec => []MailNamesTheDay
<1>1. ReminderInv => MailNamesTheDay
  BY DEF ReminderInv, MailInv, MailNamesTheDay
<1> QED BY <1>1, ReminderInvariance, PTL

\* Exit 0 means that the mail was taken or there was no connection, and a run whose mail was
\* taken fails only at the answer to the content or to QUIT, whatever the server answers.
THEOREM ExitsAreTrue == ReminderSpec => []ExitTellsOfTheMail
<1>1. ReminderInv => ExitTellsOfTheMail
  BY DEF ReminderInv
<1> QED BY <1>1, ReminderInvariance, PTL

-----------------------------------------------------------------------------
\* The text of the file.

Texts == Seq(Characters)

\* k stands in s behind its first i characters.
At(s, k, i) ==
  /\ i + Len(k) <= Len(s)
  /\ \A m \in 1 .. Len(k) : s[i + m] = k[m]

\* The first k in s from there on stands behind i characters; there is none.
FirstAt(s, k, from, i) ==
  /\ i \in Nat /\ from <= i /\ At(s, k, i)
  /\ \A j \in Nat : from <= j /\ j < i => ~At(s, k, j)

NoneFrom(s, k, from) == \A j \in Nat : from <= j => ~At(s, k, j)

LEMMA AtIs ==
  ASSUME NEW s \in Texts, NEW k \in Texts, NEW i \in Nat
  PROVE  At(s, k, i) <=> i <= Len(s) - Len(k) /\ SubSeq(s, i + 1, i + Len(k)) = k
<1> DEFINE S == Len(s)
           K == Len(k)
<1>1. S \in Nat /\ K \in Nat /\ k = [m \in 1 .. K |-> k[m]]
  BY LenProperties, SeqDef DEF Texts
<1>2. i + K <= S <=> i <= S - K
  <2> HIDE DEF S, K
  <2> QED BY <1>1
<1>3. ASSUME i + K <= S
      PROVE  (\A m \in 1 .. K : s[i + m] = k[m]) <=> SubSeq(s, i + 1, i + K) = k
  <2>1. SubSeq(s, i + 1, i + K) = [m \in 1 .. (i + K) - (i + 1) + 1 |-> s[(i + 1) + m - 1]]
    OBVIOUS
  <2>2. (i + K) - (i + 1) + 1 = K /\ \A m \in 1 .. K : (i + 1) + m - 1 = i + m
    <3> HIDE DEF S, K
    <3> QED BY <1>1
  <2>3. SubSeq(s, i + 1, i + K) = [m \in 1 .. K |-> s[i + m]]
    <3> HIDE DEF S, K
    <3> QED BY <2>1, <2>2, Zenon
  <2> HIDE DEF S, K
  <2> QED BY <1>1, <2>3
<1> QED BY <1>1, <1>2, <1>3 DEF At

LEMMA LowestIsLeast ==
  ASSUME NEW I \in SUBSET Nat, I # {}
  PROVE  Lowest(I) \in I /\ \A j \in I : Lowest(I) <= j
BY LeastNat DEF Lowest

\* What find answers.
LEMMA FindAnswers ==
  ASSUME NEW s \in Texts, NEW k \in Texts, NEW from \in Nat
  PROVE  \/ FirstAt(s, k, from, Find(s, k, from))
         \/ Find(s, k, from) = -1 /\ NoneFrom(s, k, from)
<1> DEFINE I == {i \in from .. Len(s) - Len(k) : SubSeq(s, i + 1, i + Len(k)) = k}
<1>1. Len(s) \in Nat /\ Len(k) \in Nat
  BY LenProperties DEF Texts
<1>2. \A i \in Nat : i \in I <=> from <= i /\ At(s, k, i)
  BY <1>1, AtIs
<1>3. I \in SUBSET Nat
  BY <1>1
<1>4. Find(s, k, from) = IF I = {} THEN -1 ELSE Lowest(I)
  BY DEF Find, Npos
<1> HIDE DEF I
<1>5. CASE I = {}
  BY <1>2, <1>4, <1>5 DEF NoneFrom
<1>6. CASE I # {}
  <2>1. Lowest(I) \in I /\ Lowest(I) \in Nat /\ \A j \in I : Lowest(I) <= j
    BY <1>3, <1>6, LowestIsLeast
  <2>2. \A j \in Nat : from <= j /\ j < Lowest(I) => ~At(s, k, j)
    BY <1>2, <2>1
  <2> QED BY <1>2, <1>4, <1>6, <2>1, <2>2 DEF FirstAt
<1> QED BY <1>5, <1>6

LEMMA FindIsFirst ==
  ASSUME NEW s \in Texts, NEW k \in Texts, NEW from \in Nat, NEW i, FirstAt(s, k, from, i)
  PROVE  Find(s, k, from) = i
<1> DEFINE f == Find(s, k, from)
<1>1. FirstAt(s, k, from, f) \/ (f = -1 /\ NoneFrom(s, k, from))
  BY FindAnswers
<1> HIDE DEF f
<1>2. FirstAt(s, k, from, f)
  BY <1>1 DEF FirstAt, NoneFrom
<1>3. f \in Nat /\ i \in Nat /\ ~(f < i) /\ ~(i < f)
  BY <1>2 DEF FirstAt
<1>4. f = i
  BY <1>3
<1> QED BY <1>4 DEF f

LEMMA HasIs ==
  ASSUME NEW s \in Texts, NEW k \in Texts
  PROVE  ~Has(s, k) <=> NoneFrom(s, k, 0)
<1>1. FirstAt(s, k, 0, Find(s, k, 0)) \/ (Find(s, k, 0) = -1 /\ NoneFrom(s, k, 0))
  BY FindAnswers
<1>2. FirstAt(s, k, 0, Find(s, k, 0)) => Find(s, k, 0) # -1 /\ ~NoneFrom(s, k, 0)
  BY DEF FirstAt, NoneFrom
<1> QED BY <1>1, <1>2 DEF Has, Npos

\* A tag opens with its only "<" and closes with its only ">".
IsTag(t) ==
  /\ t \in Texts /\ 3 <= Len(t)
  /\ \A m \in 1 .. Len(t) :
       /\ t[m] = "<" <=> m = 1
       /\ t[m] = ">" <=> m = Len(t)
       /\ t[m] # "\n"

\* No k begins in b, whatever comes behind it.
Free(b, k) ==
  b \in Texts /\ \A r \in Texts : \A i \in Nat : i < Len(b) => ~At(b \o r, k, i)

LEMMA TextJoin ==
  ASSUME NEW s \in Texts, NEW t \in Texts
  PROVE  /\ s \o t \in Texts
         /\ Len(s) \in Nat /\ Len(t) \in Nat
         /\ Len(s \o t) = Len(s) + Len(t)
         /\ \A i \in Nat : 1 <= i /\ i <= Len(s) => (s \o t)[i] = s[i]
         /\ \A i \in Nat : 1 <= i /\ i <= Len(t) => (s \o t)[Len(s) + i] = t[i]
<1>1. /\ s \o t \in Texts /\ Len(s \o t) = Len(s) + Len(t)
      /\ \A i \in 1 .. Len(s) + Len(t) :
           (s \o t)[i] = IF i <= Len(s) THEN s[i] ELSE t[i - Len(s)]
  BY ConcatProperties DEF Texts
<1> DEFINE S == Len(s)
           T == Len(t)
           u == s \o t
<1>2. S \in Nat /\ T \in Nat
  BY LenProperties DEF Texts
<1>3. \A i \in Nat : 1 <= i /\ i <= S => u[i] = s[i]
  <2>1. \A i \in Nat : 1 <= i /\ i <= S => i \in 1 .. S + T
    <3> HIDE DEF S, T
    <3> QED BY <1>2
  <2> QED BY <1>1, <2>1
<1>4. ASSUME NEW i \in Nat, 1 <= i /\ i <= T
      PROVE  u[S + i] = t[i]
  <2>1. S + i \in 1 .. S + T /\ ~(S + i <= S) /\ S + i - S = i
    <3> HIDE DEF S, T
    <3> QED BY <1>2, <1>4
  <2>2. u[S + i] = t[S + i - S]
    BY <1>1, <2>1
  <2> HIDE DEF S, T, u
  <2> QED BY ONLY <2>1, <2>2, Zenon
<1> QED BY <1>1, <1>2, <1>3, <1>4

LEMMA JoinLength ==
  ASSUME NEW s \in Texts, NEW t \in Texts
  PROVE  s \o t \in Texts /\ Len(s \o t) = Len(s) + Len(t)
BY TextJoin

\* What stands in t stands in s \o t, as much further on as s is long.
LEMMA AtRight ==
  ASSUME NEW s \in Texts, NEW t \in Texts, NEW k \in Texts, NEW i \in Nat
  PROVE  At(s \o t, k, Len(s) + i) <=> At(t, k, i)
<1> DEFINE S == Len(s)
           T == Len(t)
           K == Len(k)
           u == s \o t
<1>1. S \in Nat /\ T \in Nat /\ K \in Nat
  BY LenProperties DEF Texts
<1>2. Len(u) = S + T /\ \A j \in Nat : 1 <= j /\ j <= T => u[S + j] = t[j]
  BY TextJoin
<1>3. S + i + K <= S + T <=> i + K <= T
  <2> HIDE DEF S, T, K
  <2> QED BY <1>1
<1>4. ASSUME i + K <= T, NEW m \in 1 .. K
      PROVE  u[S + i + m] = t[i + m]
  <2> HIDE DEF S, T, K, u
  <2>1. i + m \in Nat /\ 1 <= i + m /\ i + m <= T /\ S + (i + m) = S + i + m
    BY <1>1, <1>4
  <2>2. u[S + (i + m)] = t[i + m]
    BY <1>2, <2>1
  <2> QED BY <2>1, <2>2
<1>5. (S + i + K <= Len(u) /\ \A m \in 1 .. K : u[S + i + m] = k[m])
        <=> (i + K <= T /\ \A m \in 1 .. K : t[i + m] = k[m])
  <2> HIDE DEF S, T, K, u
  <2> QED BY <1>2, <1>3, <1>4
<1> QED BY <1>5 DEF At

\* Characters that stand in the left part.
LEMMA AtLeft ==
  ASSUME NEW s \in Texts, NEW t \in Texts, NEW k \in Texts, NEW i \in Nat,
         i + Len(k) <= Len(s)
  PROVE  At(s \o t, k, i) <=> At(s, k, i)
<1> DEFINE S == Len(s)
           T == Len(t)
           K == Len(k)
           u == s \o t
<1>1. S \in Nat /\ T \in Nat /\ K \in Nat
  BY LenProperties DEF Texts
<1>2. Len(u) = S + T /\ \A j \in Nat : 1 <= j /\ j <= S => u[j] = s[j]
  BY TextJoin
<1>3. i + K <= S
  OBVIOUS
<1>4. ASSUME NEW m \in 1 .. K
      PROVE  u[i + m] = s[i + m]
  <2> HIDE DEF S, T, K, u
  <2>1. i + m \in Nat /\ 1 <= i + m /\ i + m <= S
    BY <1>1, <1>3
  <2> QED BY <1>2, <2>1
<1>5. (i + K <= Len(u) /\ \A m \in 1 .. K : u[i + m] = k[m])
        <=> (i + K <= S /\ \A m \in 1 .. K : s[i + m] = k[m])
  <2> HIDE DEF S, T, K, u
  <2> QED BY <1>1, <1>2, <1>3, <1>4
<1> QED BY <1>5 DEF At

LEMMA TagsAre ==
  /\ DOMAIN Tags = 1 .. 6 /\ Len(Tags) = 6
  /\ \A i \in 1 .. 6 : IsTag(Tags[i])
  /\ \A i, j \in 1 .. 6 : i # j => Tags[i] # Tags[j]
  /\ \A i \in 1 .. 6 : Len(Tags[i]) <= 6
  /\ Len(Tags[5]) = 6
<1>1. /\ Tags[1] = <<"<", "D", ">">>
      /\ Tags[2] = <<"<", "T", ">">>
      /\ Tags[3] = <<"<", "C", ">">>
      /\ Tags[4] = <<"<", "L", ">">>
      /\ Tags[5] = <<"<", "D", "E", "S", "C", ">">>
      /\ Tags[6] = <<"<", "I", "M", "G", ">">>
  BY DEF Tags
<1>2. DOMAIN Tags = 1 .. 6 /\ Len(Tags) = 6
  BY DEF Tags
<1>3. ASSUME NEW t, NEW a \in Characters, a \notin {"<", ">", "\n"}, t = <<"<", a, ">">>
      PROVE  IsTag(t) /\ Len(t) = 3 /\ t[2] = a
  <2>1. t \in Texts /\ Len(t) = 3
    BY <1>3, FormatAssumption DEF Texts
  <2> QED BY <1>3, <2>1 DEF IsTag
<1>4. IsTag(Tags[5]) /\ Len(Tags[5]) = 6
  <2> DEFINE t == Tags[5]
  <2>1. t \in Texts /\ Len(t) = 6
    BY <1>1, FormatAssumption DEF Texts
  <2> QED BY <1>1, <2>1 DEF IsTag
<1>5. IsTag(Tags[6]) /\ Len(Tags[6]) = 5
  <2> DEFINE t == Tags[6]
  <2>1. t \in Texts /\ Len(t) = 5
    BY <1>1, FormatAssumption DEF Texts
  <2> QED BY <1>1, <2>1 DEF IsTag
<1>6. \A a \in {"D", "T", "C", "L"} : a \in Characters /\ a \notin {"<", ">", "\n"}
  BY FormatAssumption
<1>7. /\ IsTag(Tags[1]) /\ Len(Tags[1]) = 3 /\ Tags[1][2] = "D"
      /\ IsTag(Tags[2]) /\ Len(Tags[2]) = 3 /\ Tags[2][2] = "T"
      /\ IsTag(Tags[3]) /\ Len(Tags[3]) = 3 /\ Tags[3][2] = "C"
      /\ IsTag(Tags[4]) /\ Len(Tags[4]) = 3 /\ Tags[4][2] = "L"
  BY <1>1, <1>3, <1>6
<1> HIDE DEF Tags
<1>8. \A i, j \in 1 .. 6 : i # j => Tags[i] # Tags[j]
  BY <1>4, <1>5, <1>7
<1>9. ASSUME NEW i \in 1 .. 6
      PROVE  IsTag(Tags[i]) /\ Len(Tags[i]) <= 6
  <2>1. i = 1 \/ i = 2 \/ i = 3 \/ i = 4 \/ i = 5 \/ i = 6
    OBVIOUS
  <2>2. IsTag(Tags[i])
    BY <1>4, <1>5, <1>7, <2>1, Zenon
  <2>3. Len(Tags[i]) = 3 \/ Len(Tags[i]) = 5 \/ Len(Tags[i]) = 6
    BY <1>4, <1>5, <1>7, <2>1, Zenon
  <2>4. \A n : n = 3 \/ n = 5 \/ n = 6 => n <= 6
    OBVIOUS
  <2> QED BY <2>2, <2>3, <2>4, Zenon
<1> QED BY <1>2, <1>4, <1>8, <1>9

LEMMA FreeEmpty ==
  ASSUME NEW k
  PROVE  Free(<<>>, k)
BY EmptySeq DEF Free, Texts

LEMMA TagStarts ==
  ASSUME NEW t, IsTag(t)
  PROVE  /\ t \in Texts /\ Len(t) \in Nat /\ 3 <= Len(t) /\ t[1] = "<" /\ t[Len(t)] = ">"
         /\ \A m \in Nat : 1 <= m /\ m <= Len(t) => (t[m] = "<" => m = 1)
         /\ \A m \in Nat : 1 <= m /\ m <= Len(t) => (t[m] = ">" => m = Len(t))
<1>1. t \in Texts /\ Len(t) \in Nat
  BY LenProperties DEF IsTag, Texts
<1>2. 3 <= Len(t)
  BY DEF IsTag
<1>3. 1 \in 1 .. Len(t) /\ Len(t) \in 1 .. Len(t)
        /\ \A m \in Nat : 1 <= m /\ m <= Len(t) => m \in 1 .. Len(t)
  BY <1>1, <1>2
<1>4. \A m \in 1 .. Len(t) : (t[m] = "<" <=> m = 1) /\ (t[m] = ">" <=> m = Len(t))
  BY DEF IsTag
<1> QED BY <1>1, <1>2, <1>3, <1>4

LEMMA SameText ==
  ASSUME NEW s \in Texts, NEW t \in Texts, Len(s) = Len(t),
         \A m \in Nat : 1 <= m /\ m <= Len(s) => s[m] = t[m]
  PROVE  s = t
<1>1. /\ s = [m \in 1 .. Len(s) |-> s[m]] /\ t = [m \in 1 .. Len(t) |-> t[m]]
      /\ Len(s) \in Nat
  BY LenProperties, SeqDef DEF Texts
<1>2. \A m \in 1 .. Len(s) : s[m] = t[m]
  BY <1>1
<1> QED BY <1>1, <1>2

\* No tag begins in another.
LEMMA FreeTag ==
  ASSUME NEW t, NEW k, IsTag(t), IsTag(k), t # k
  PROVE  Free(t, k)
<1>1. /\ t \in Texts /\ Len(t) \in Nat /\ 3 <= Len(t) /\ t[1] = "<" /\ t[Len(t)] = ">"
      /\ \A m \in Nat : 1 <= m /\ m <= Len(t) => (t[m] = "<" => m = 1)
      /\ \A m \in Nat : 1 <= m /\ m <= Len(t) => (t[m] = ">" => m = Len(t))
  BY TagStarts
<1>2. /\ k \in Texts /\ Len(k) \in Nat /\ 3 <= Len(k) /\ k[1] = "<" /\ k[Len(k)] = ">"
      /\ \A m \in Nat : 1 <= m /\ m <= Len(k) => (k[m] = ">" => m = Len(k))
  BY TagStarts
<1>3. SUFFICES ASSUME NEW r \in Texts, NEW i \in Nat, i < Len(t), At(t \o r, k, i)
               PROVE  FALSE
  BY <1>1 DEF Free
<1> DEFINE T == Len(t)
           K == Len(k)
           u == t \o r
<1>4. \A m \in Nat : 1 <= m /\ m <= T => u[m] = t[m]
  BY <1>1, TextJoin
<1>5. \A m \in Nat : 1 <= m /\ m <= K => u[i + m] = k[m]
  BY <1>2, <1>3 DEF At
<1>6. i = 0
  <2> HIDE DEF T, K, u
  <2>1. 1 <= i + 1 /\ i + 1 <= T /\ i + 1 \in Nat
    BY <1>1, <1>3 DEF T
  <2>2. 1 <= K
    BY <1>2 DEF K
  <2>3. u[i + 1] = "<"
    BY <1>2, <1>5, <2>2
  <2>4. t[i + 1] = "<"
    BY <1>4, <2>1, <2>3
  <2>5. i + 1 = 1
    BY <1>1, <2>1, <2>4 DEF T
  <2> QED BY <2>5
<1>7. \A m \in Nat : 1 <= m /\ m <= T /\ m <= K => t[m] = k[m]
  <2> HIDE DEF T, K, u
  <2>1. \A m \in Nat : i + m = m
    BY <1>6
  <2> QED BY <1>4, <1>5, <2>1
<1>8. T \in Nat /\ K \in Nat /\ 3 <= T /\ 3 <= K /\ t[T] = ">" /\ k[K] = ">"
      /\ (\A m \in Nat : 1 <= m /\ m <= T => (t[m] = ">" => m = T))
      /\ (\A m \in Nat : 1 <= m /\ m <= K => (k[m] = ">" => m = K))
  BY <1>1, <1>2
<1>9. T = K
  <2> HIDE DEF T, K
  <2>1. CASE T <= K
    <3>1. k[T] = ">" /\ 1 <= T
      BY <1>7, <1>8, <2>1
    <3> QED BY <1>8, <2>1, <3>1
  <2>2. CASE K <= T
    <3>1. t[K] = ">" /\ 1 <= K
      BY <1>7, <1>8, <2>2
    <3> QED BY <1>8, <2>2, <3>1
  <2> QED BY <1>8, <2>1, <2>2
<1> QED BY <1>1, <1>2, <1>7, <1>9, SameText

\* A tag does not reach over the "<" behind a text without it.
LEMMA LacksThen ==
  ASSUME NEW f \in Texts, NEW k, IsTag(k), NoneFrom(f, k, 0),
         NEW g \in Texts, 1 <= Len(g), g[1] = "<",
         NEW j \in Nat, j < Len(f)
  PROVE  ~At(f \o g, k, j)
<1> SUFFICES ASSUME At(f \o g, k, j) PROVE FALSE
  OBVIOUS
<1>1. /\ k \in Texts /\ Len(k) \in Nat
      /\ \A m \in Nat : 1 <= m /\ m <= Len(k) => (k[m] = "<" => m = 1)
  BY TagStarts
<1> DEFINE F == Len(f)
           K == Len(k)
           u == f \o g
<1>2. F \in Nat /\ K \in Nat /\ j < F
  BY LenProperties DEF Texts
<1>3. CASE j + K <= F
  <2>1. At(f, k, j)
    BY <1>1, <1>3, AtLeft
  <2> QED BY <2>1 DEF NoneFrom
<1>4. CASE ~(j + K <= F)
  <2> DEFINE m == F + 1 - j
  <2>1. m \in Nat /\ 1 <= m /\ m <= K /\ m # 1 /\ j + m = F + 1
    <3> HIDE DEF F, K
    <3> QED BY <1>2, <1>4
  <2> HIDE DEF m
  <2>2. u[j + m] = k[m]
    BY <1>2, <2>1 DEF At
  <2>3. u[F + 1] = g[1]
    BY TextJoin
  <2>4. k[m] = "<"
    BY <2>1, <2>2, <2>3, Zenon
  <2> QED BY <1>1, <2>1, <2>4
<1> QED BY <1>3, <1>4

LEMMA AtStart ==
  ASSUME NEW s \in Texts, NEW t \in Texts
  PROVE  At(s \o t, s, 0)
<1>1. /\ Len(s) \in Nat /\ Len(t) \in Nat /\ Len(s \o t) = Len(s) + Len(t)
      /\ \A i \in Nat : 1 <= i /\ i <= Len(s) => (s \o t)[i] = s[i]
  BY TextJoin
<1> DEFINE S == Len(s)
           u == s \o t
<1>2. 0 + S <= Len(u)
  <2>1. \A x, y \in Nat : 0 + x <= x + y
    OBVIOUS
  <2> QED BY <1>1, <2>1
<1>3. \A m \in 1 .. S : u[0 + m] = s[m]
  <2>1. \A m \in 1 .. S : m \in Nat /\ 1 <= m /\ m <= S /\ 0 + m = m
    BY <1>1
  <2> HIDE DEF u
  <2>2. \A m \in 1 .. S : u[m] = s[m]
    BY <1>1, <2>1 DEF u
  <2> QED BY <2>1, <2>2
<1> QED BY <1>2, <1>3 DEF At

LEMMA Assoc ==
  ASSUME NEW s \in Texts, NEW t \in Texts, NEW u \in Texts
  PROVE  (s \o t) \o u = s \o (t \o u)
BY ConcatAssociative DEF Texts

Joins(s, t, u) == (s \o t) \o u = s \o (t \o u)

LEMMA AlwaysJoins ==
  ASSUME NEW s \in Texts, NEW t \in Texts, NEW u \in Texts
  PROVE  Joins(s, t, u)
BY Assoc, Zenon DEF Joins

LEMMA FreeJoin ==
  ASSUME NEW a, NEW b, NEW k \in Texts, Free(a, k), Free(b, k)
  PROVE  Free(a \o b, k)
<1>1. a \in Texts /\ b \in Texts
  BY DEF Free
<1>2. /\ a \o b \in Texts /\ Len(a) \in Nat /\ Len(b) \in Nat
      /\ Len(a \o b) = Len(a) + Len(b)
  BY <1>1, TextJoin
<1>3. SUFFICES ASSUME NEW r \in Texts, NEW i \in Nat, i < Len(a \o b), At((a \o b) \o r, k, i)
               PROVE  FALSE
  BY <1>2 DEF Free
<1>4. b \o r \in Texts /\ (a \o b) \o r = a \o (b \o r)
  <2>1. b \o r \in Texts
    BY <1>1, TextJoin
  <2>2. (a \o b) \o r = a \o (b \o r)
    BY <1>1, Assoc
  <2> QED BY ONLY <2>1, <2>2
<1>5. At(a \o (b \o r), k, i)
  BY ONLY <1>3, <1>4, Zenon
<1> DEFINE A == Len(a)
           B == Len(b)
<1>6. A \in Nat /\ B \in Nat /\ i < A + B
  BY <1>2, <1>3
<1>7. CASE i < A
  BY <1>4, <1>5, <1>7 DEF Free
<1>8. CASE ~(i < A)
  <2> DEFINE n == i - A
  <2>1. n \in Nat /\ n < B /\ A + n = i
    <3> HIDE DEF A, B
    <3> QED BY <1>6, <1>8
  <2> HIDE DEF n
  <2>2. At(a \o (b \o r), k, A + n)
    BY ONLY <1>5, <2>1, Zenon
  <2>3. At(b \o r, k, n)
    BY <1>1, <1>4, <2>1, <2>2, AtRight
  <2> QED BY <2>1, <2>3 DEF Free
<1> QED BY <1>7, <1>8

\* No tag begins in a field without it that stands between two others.
LEMMA FreeTagged ==
  ASSUME NEW t, NEW k, IsTag(t), IsTag(k), t # k, NEW f \in Texts, NoneFrom(f, k, 0)
  PROVE  Free((t \o f) \o t, k)
<1>1. t \in Texts /\ k \in Texts /\ Len(t) \in Nat /\ 3 <= Len(t) /\ t[1] = "<"
  BY TagStarts
<1>2. Free(t, k)
  BY FreeTag
<1>3. t \o f \in Texts /\ (t \o f) \o t \in Texts
  BY <1>1, TextJoin
<1>4. SUFFICES ASSUME NEW r \in Texts, NEW i \in Nat, i < Len((t \o f) \o t),
                      At(((t \o f) \o t) \o r, k, i)
               PROVE  FALSE
  BY <1>3 DEF Free
<1> DEFINE g == t \o r
           T == Len(t)
           F == Len(f)
<1>5. g \in Texts /\ f \o g \in Texts
  BY <1>1, TextJoin
<1>6. ((t \o f) \o t) \o r = t \o (f \o g)
  <2>1. Joins(t \o f, t, r)
    BY <1>1, <1>3, AlwaysJoins
  <2>2. Joins(t, f, t \o r)
    BY <1>1, <1>5, AlwaysJoins
  <2> QED BY ONLY <2>1, <2>2, Zenon DEF Joins
<1>7. At(t \o (f \o g), k, i)
  BY ONLY <1>4, <1>6, Zenon
<1>8. T \in Nat /\ F \in Nat /\ i < (T + F) + T
  <2>1. Len(t \o f) = T + F /\ Len((t \o f) \o t) = Len(t \o f) + T /\ F \in Nat
    BY <1>1, <1>3, TextJoin
  <2> QED BY <1>1, <1>4, <2>1
<1>9. 1 <= Len(g) /\ g[1] = "<"
  <2>1. Len(r) \in Nat /\ Len(g) = T + Len(r) /\ \A m \in Nat : 1 <= m /\ m <= T => g[m] = t[m]
    BY <1>1, TextJoin
  <2> QED BY <1>1, <2>1
<1>10. CASE i < T
  BY <1>2, <1>5, <1>7, <1>10 DEF Free
<1>11. CASE ~(i < T)
  <2> DEFINE n == i - T
  <2>1. n \in Nat /\ n < F + T /\ T + n = i
    <3> HIDE DEF T, F
    <3> QED BY <1>8, <1>11
  <2> HIDE DEF n
  <2>2. At(t \o (f \o g), k, T + n)
    BY ONLY <1>7, <2>1, Zenon
  <2>3. At(f \o g, k, n)
    <3> HIDE DEF g
    <3> QED BY <1>1, <1>5, <2>1, <2>2, AtRight
  <2>4. CASE n < F
    <3> HIDE DEF g
    <3> QED BY <1>5, <1>9, <2>1, <2>3, <2>4, LacksThen
  <2>5. CASE ~(n < F)
    <3> DEFINE l == n - F
    <3>1. l \in Nat /\ l < T /\ F + l = n
      <4> HIDE DEF T, F
      <4> QED BY <1>8, <2>1, <2>5
    <3> HIDE DEF l
    <3>2. At(f \o g, k, F + l)
      BY ONLY <2>3, <3>1, Zenon
    <3>3. At(g, k, l)
      <4> HIDE DEF g
      <4> QED BY <1>1, <1>5, <3>1, <3>2, AtRight
    <3> QED BY <1>2, <3>1, <3>3 DEF Free
  <2> QED BY <2>4, <2>5
<1> QED BY <1>10, <1>11

\* A field of a line, between its tags, with no earlier one of them.
Between(s, b, f, k, a) == s = b \o (k \o (f \o (k \o a)))

Carries(s, f, k) == \E b, a \in Texts : Free(b, k) /\ Between(s, b, f, k, a)

LEMMA CarriesHere ==
  ASSUME NEW b, NEW f \in Texts, NEW k \in Texts, Free(b, k)
  PROVE  Carries(b \o ((k \o f) \o k), f, k)
<1>1. b \in Texts /\ <<>> \in Texts
  BY EmptySeq DEF Free, Texts
<1>2. (k \o f) \o k = k \o (f \o k)
  BY Assoc
<1>3. k \o <<>> = k
  BY ConcatEmptySeq DEF Texts
<1>4. b \o ((k \o f) \o k) = b \o (k \o (f \o (k \o <<>>)))
  BY ONLY <1>2, <1>3, Zenon
<1>5. Between(b \o ((k \o f) \o k), b, f, k, <<>>)
  BY ONLY <1>4, Zenon DEF Between
<1> QED BY <1>1, <1>5 DEF Carries

LEMMA CarriesMoreOf ==
  ASSUME NEW b \in Texts, NEW k \in Texts, NEW f \in Texts, NEW a \in Texts, NEW c \in Texts,
         Free(b, k), NEW s, Between(s, b, f, k, a)
  PROVE  Carries(s \o c, f, k)
<1>1. k \o a \in Texts
  BY TextJoin
<1>2. f \o (k \o a) \in Texts
  BY <1>1, TextJoin
<1>3. k \o (f \o (k \o a)) \in Texts
  BY <1>2, TextJoin
<1>4. Joins(k, a, c)
  BY AlwaysJoins
<1>5. Joins(f, k \o a, c)
  BY <1>1, AlwaysJoins
<1>6. Joins(k, f \o (k \o a), c)
  BY <1>2, AlwaysJoins
<1>7. Joins(b, k \o (f \o (k \o a)), c)
  BY <1>3, AlwaysJoins
<1>8. (b \o (k \o (f \o (k \o a)))) \o c = b \o (k \o (f \o (k \o (a \o c))))
  BY ONLY <1>4, <1>5, <1>6, <1>7, Zenon DEF Joins
<1>9. Between(s \o c, b, f, k, a \o c)
  BY <1>8, Zenon DEF Between
<1>10. a \o c \in Texts
  BY TextJoin
<1> QED BY <1>9, <1>10 DEF Carries

LEMMA CarriesMore ==
  ASSUME NEW s \in Texts, NEW c \in Texts, NEW f \in Texts, NEW k \in Texts, Carries(s, f, k)
  PROVE  Carries(s \o c, f, k)
BY CarriesMoreOf DEF Carries

\* k stands where s continues with it.
LEMMA AtJoin ==
  ASSUME NEW s \in Texts, NEW k \in Texts, NEW r \in Texts
  PROVE  At(s \o (k \o r), k, Len(s))
<1>1. At(k \o r, k, 0) /\ k \o r \in Texts
  BY AtStart, TextJoin
<1>2. At(s \o (k \o r), k, Len(s) + 0) <=> At(k \o r, k, 0)
  BY <1>1, AtRight
<1>3. Len(s) + 0 = Len(s)
  BY LenProperties DEF Texts
<1> QED BY ONLY <1>1, <1>2, <1>3, Zenon

\* A field that holds no tag of its own is read back from between its tags.
LEMMA ReadField ==
  ASSUME NEW row, NEW b \in Texts, NEW k, NEW f \in Texts, NEW a \in Texts,
         IsTag(k), Free(b, k), NoneFrom(f, k, 0), Between(row, b, f, k, a)
  PROVE  row \in Texts /\ Field(row, k) = f
<1>1. k \in Texts /\ Len(k) \in Nat /\ 3 <= Len(k) /\ k[1] = "<"
  BY TagStarts
<1>2. k \o a \in Texts
  BY <1>1, TextJoin
<1>3. f \o (k \o a) \in Texts
  BY <1>2, TextJoin
<1>4. k \o (f \o (k \o a)) \in Texts
  BY <1>1, <1>3, TextJoin
<1>5. row = b \o (k \o (f \o (k \o a)))
  BY Zenon DEF Between
<1>6. b \o (k \o (f \o (k \o a))) \in Texts
  BY <1>4, TextJoin
<1>7. row \in Texts
  BY ONLY <1>5, <1>6, Zenon
<1> DEFINE B == Len(b)
           K == Len(k)
           F == Len(f)
<1>8. B \in Nat /\ K \in Nat /\ F \in Nat
  BY <1>1, LenProperties DEF Texts
\* The first tag.
<1>9. At(row, k, B)
  <2>1. At(b \o (k \o (f \o (k \o a))), k, B)
    BY <1>1, <1>3, AtJoin
  <2> QED BY ONLY <1>5, <2>1, Zenon
<1>10. FirstAt(row, k, 0, B)
  <2>1. \A j \in Nat : j < B => ~At(b \o (k \o (f \o (k \o a))), k, j)
    BY <1>4 DEF Free
  <2>2. \A j \in Nat : 0 <= j /\ j < B => ~At(row, k, j)
    BY ONLY <1>5, <2>1, Zenon
  <2>3. 0 <= B
    BY <1>8
  <2> HIDE DEF B
  <2> QED BY <1>8, <1>9, <2>2, <2>3 DEF FirstAt
<1>11. Find(row, k, 0) = B
  BY <1>1, <1>7, <1>10, FindIsFirst
\* The second.
<1> DEFINE start == B + K
<1>12. start \in Nat /\ FieldStart(row, k) = start
  <2>1. FieldStart(row, k) = Find(row, k, 0) + Len(k)
    BY DEF FieldStart
  <2> QED BY <1>8, <1>11, <2>1
\* What stands behind the first tag.
<1>13. ASSUME NEW x \in Texts, NEW j \in Nat
       PROVE  At(row, x, start + j) <=> At(f \o (k \o a), x, j)
  <2>1. At(k \o (f \o (k \o a)), x, K + j) <=> At(f \o (k \o a), x, j)
    BY <1>1, <1>3, AtRight
  <2>2. K + j \in Nat /\ B + (K + j) = start + j
    <3> HIDE DEF B, K
    <3> QED BY <1>8
  <2>3. At(b \o (k \o (f \o (k \o a))), x, B + (K + j)) <=> At(k \o (f \o (k \o a)), x, K + j)
    BY <1>4, <2>2, AtRight
  <2> QED BY ONLY <1>5, <2>1, <2>2, <2>3, Zenon
<1>14. start + F \in Nat /\ At(row, k, start + F)
  <2>1. At(f \o (k \o a), k, F)
    BY <1>1, AtJoin
  <2>2. At(row, k, start + F)
    BY <1>1, <1>8, <1>13, <2>1
  <2>3. start + F \in Nat
    <3> HIDE DEF B, K, F
    <3> QED BY <1>8
  <2> QED BY <2>2, <2>3
<1>15. 1 <= Len(k \o a) /\ (k \o a)[1] = "<"
  <2>1. /\ Len(a) \in Nat /\ Len(k \o a) = K + Len(a)
        /\ \A i \in Nat : 1 <= i /\ i <= K => (k \o a)[i] = k[i]
    BY <1>1, TextJoin
  <2>2. 1 \in Nat /\ 1 <= 1 /\ 1 <= K
    BY <1>1
  <2> HIDE DEF K
  <2>3. 1 <= K + Len(a)
    BY <1>8, <2>1, <2>2
  <2>4. (k \o a)[1] = k[1]
    BY ONLY <2>1, <2>2, Zenon
  <2> QED BY ONLY <1>1, <2>1, <2>3, <2>4, Zenon
<1>16. FirstAt(row, k, start, start + F)
  <2>1. ASSUME NEW j \in Nat, start <= j, j < start + F
        PROVE  ~At(row, k, j)
    <3> DEFINE n == j - start
    <3>1. n \in Nat /\ n < F /\ start + n = j
      <4> HIDE DEF start, F
      <4> QED BY <1>8, <1>12, <2>1
    <3> HIDE DEF n
    <3>2. ~At(f \o (k \o a), k, n)
      BY <1>2, <1>15, <3>1, LacksThen
    <3>3. At(row, k, start + n) <=> At(f \o (k \o a), k, n)
      BY <1>1, <1>13, <3>1
    <3> QED BY ONLY <3>1, <3>2, <3>3, Zenon
  <2>2. start <= start + F
    <3> HIDE DEF start, F
    <3> QED BY <1>8, <1>12
  <2> HIDE DEF start, F
  <2> QED BY <1>14, <2>1, <2>2 DEF FirstAt
<1>17. Find(row, k, start) = start + F
  <2> HIDE DEF start, F
  <2> QED BY <1>1, <1>7, <1>12, <1>16, FindIsFirst
\* What is between them.
<1>18. At(row, f, start)
  <2>1. At(f \o (k \o a), f, 0)
    BY <1>2, AtStart
  <2>2. At(row, f, start + 0)
    BY <1>13, <2>1
  <2>3. start + 0 = start
    <3> HIDE DEF start
    <3> QED BY <1>12
  <2> QED BY ONLY <2>2, <2>3, Zenon
<1>19. SubSeq(row, start + 1, start + F) = f
  <2> HIDE DEF start
  <2> QED BY <1>7, <1>12, <1>18, AtIs
<1>20. start + F # -1 /\ ~(start + F > Len(row))
  <2>1. start + F <= Len(row) /\ Len(row) \in Nat
    <3> HIDE DEF start
    <3> QED BY <1>7, <1>18, LenProperties DEF At, Texts
  <2> HIDE DEF start, F
  <2> QED BY <1>14, <2>1
<1>21. Field(row, k) = Slice(row, start, start + F)
  <2> HIDE DEF start, F
  <2> QED BY <1>12, <1>17 DEF Field
<1>22. Slice(row, start, start + F) = SubSeq(row, start + 1, start + F)
  <2> HIDE DEF start, F
  <2> QED BY <1>20 DEF Slice, Npos
<1> QED BY ONLY <1>7, <1>19, <1>21, <1>22, Zenon

\* What is read between tags never holds the tag.
LEMMA FieldLacksTag ==
  ASSUME NEW row \in Texts, NEW k, IsTag(k)
  PROVE  Field(row, k) \in Texts /\ NoneFrom(Field(row, k), k, 0)
<1>1. k \in Texts /\ Len(k) \in Nat /\ 3 <= Len(k) /\ Len(row) \in Nat
  <2>1. Len(row) \in Nat
    BY LenProperties DEF Texts
  <2> QED BY <2>1, TagStarts
<1> DEFINE K == Len(k)
           L == Len(row)
           start == FieldStart(row, k)
           end == Find(row, k, start)
           to == IF end = -1 \/ end > L THEN L ELSE end
           f == SubSeq(row, start + 1, to)
<1>2. Field(row, k) = f
  BY DEF Field, Slice, Npos
<1>3. start \in Nat
  <2> DEFINE first == Find(row, k, 0)
  <2>1. FirstAt(row, k, 0, first) \/ first = -1
    BY <1>1, FindAnswers
  <2>2. first \in Nat \/ first = -1
    BY <2>1 DEF FirstAt
  <2>3. start = first + K
    BY DEF FieldStart
  <2> HIDE DEF first, K, start
  <2> QED BY <1>1, <2>2, <2>3 DEF K
<1>4. FirstAt(row, k, start, end) \/ (end = -1 /\ NoneFrom(row, k, start))
  <2> HIDE DEF start
  <2> QED BY <1>1, <1>3, FindAnswers
<1>5. end \in Nat \/ end = -1
  BY <1>4 DEF FirstAt
<1>6. to \in Nat /\ to <= L /\ (end \in Nat => to <= end)
  <2> HIDE DEF end, L, K, start
  <2> QED BY <1>1, <1>5 DEF L
<1>7. /\ f \in Texts /\ Len(f) \in Nat /\ (Len(f) = 0 \/ Len(f) = to - start)
      /\ \A m \in 1 .. Len(f) : f[m] = row[start + m]
  <2> HIDE DEF start, to
  <2>1. f \in Texts
    <3>1. \A m \in start + 1 .. to : row[m] \in Characters
      <4>1. \A m \in start + 1 .. to : m \in 1 .. Len(row)
        BY <1>1, <1>3, <1>6 DEF L
      <4> QED BY <4>1, ElementOfSeq DEF Texts
    <3> QED BY <1>3, <1>6, <3>1, SubSeqProperties DEF Texts
  <2>2. /\ Len(f) = IF start + 1 <= to THEN to - (start + 1) + 1 ELSE 0
        /\ \A m \in 1 .. to - (start + 1) + 1 : f[m] = row[(start + 1) + m - 1]
    BY <1>3, <1>6, SubSeqProperties DEF Texts
  <2> HIDE DEF f
  <2>3. Len(f) \in Nat /\ (Len(f) = 0 \/ Len(f) = to - start)
    BY <1>3, <1>6, <2>2
  <2>4. ASSUME NEW m \in 1 .. Len(f)
        PROVE  f[m] = row[start + m]
    <3>1. m \in 1 .. to - (start + 1) + 1 /\ (start + 1) + m - 1 = start + m
      BY <1>3, <1>6, <2>3
    <3> QED BY <2>2, <3>1
  <2> QED BY <2>1, <2>3, <2>4
<1>8. ASSUME NEW j \in Nat, At(f, k, j)
      PROVE  FALSE
  <2> DEFINE F == Len(f)
             n == start + j
  <2>1. j + K <= F /\ \A m \in 1 .. K : f[j + m] = k[m]
    BY <1>8 DEF At
  <2>2. F \in Nat /\ (F = 0 \/ F = to - start) /\ K \in Nat /\ 3 <= K
    BY <1>1, <1>7
  <2>3. \A m \in 1 .. F : f[m] = row[start + m]
    BY <1>7
  <2> HIDE DEF F, K, f, start, to, end, L
  <2>4. n \in Nat /\ start <= n /\ n + K <= to /\ n + K <= L
    BY <1>3, <1>6, <2>1, <2>2 DEF L
  <2>5. ASSUME NEW m \in 1 .. K
        PROVE  row[n + m] = k[m]
    <3>1. j + m \in 1 .. F /\ start + (j + m) = n + m
      BY <1>3, <2>1, <2>2
    <3>2. f[j + m] = row[start + (j + m)] /\ f[j + m] = k[m]
      BY <2>1, <2>3, <3>1
    <3> QED BY ONLY <3>1, <3>2, Zenon
  <2> HIDE DEF n
  <2>6. At(row, k, n)
    BY <2>4, <2>5 DEF At, K, L
  <2>7. FirstAt(row, k, start, end)
    BY <1>4, <2>4, <2>6 DEF NoneFrom
  <2>8. end \in Nat /\ ~(n < end)
    BY <2>4, <2>6, <2>7 DEF FirstAt
  <2>9. to <= end
    BY <1>6, <2>8
  <2> QED BY <1>6, <2>2, <2>4, <2>8, <2>9
<1> HIDE DEF f
<1>9. f \in Texts /\ NoneFrom(f, k, 0)
  BY <1>7, <1>8 DEF NoneFrom
<1> QED BY ONLY <1>2, <1>9, Zenon

\* A line of five characters or more gets through every field; a shorter one that is not
\* empty, and the empty one, does not get through the fifth.
LEMMA ThrowsIs ==
  ASSUME NEW row \in Texts
  PROVE  Throws(row) <=> Len(row) <= 4
<1>1. Len(row) \in Nat
  BY LenProperties DEF Texts
<1>2. ASSUME NEW i \in 1 .. 6
      PROVE  /\ Tags[i] \in Texts /\ Len(Tags[i]) \in Nat /\ Len(Tags[i]) <= 6
             /\ \/ Find(row, Tags[i], 0) = -1
                \/ Find(row, Tags[i], 0) \in Nat
                     /\ Find(row, Tags[i], 0) + Len(Tags[i]) <= Len(row)
  <2>1. IsTag(Tags[i]) /\ Len(Tags[i]) <= 6
    BY TagsAre
  <2>2. Tags[i] \in Texts /\ Len(Tags[i]) \in Nat
    BY <2>1, TagStarts
  <2>3. FirstAt(row, Tags[i], 0, Find(row, Tags[i], 0)) \/ Find(row, Tags[i], 0) = -1
    BY <2>2, FindAnswers
  <2> QED BY <2>1, <2>2, <2>3 DEF FirstAt, At
<1>3. DOMAIN Tags = 1 .. 6 /\ Len(Tags[5]) = 6 /\ 5 \in 1 .. 6
  BY TagsAre
<1>4. ASSUME Len(row) <= 4
      PROVE  FieldStart(row, Tags[5]) > Len(row)
  <2>1. FieldStart(row, Tags[5]) = Find(row, Tags[5], 0) + Len(Tags[5])
    BY DEF FieldStart
  <2> DEFINE first == Find(row, Tags[5], 0)
  <2>2. first = -1 \/ (first \in Nat /\ first + 6 <= Len(row))
    BY <1>2, <1>3
  <2>3. FieldStart(row, Tags[5]) = first + 6
    BY <1>3, <2>1
  <2> HIDE DEF first
  <2> QED BY <1>1, <1>4, <2>2, <2>3
<1>5. ASSUME ~(Len(row) <= 4), NEW i \in 1 .. 6
      PROVE  ~(FieldStart(row, Tags[i]) > Len(row))
  <2> DEFINE first == Find(row, Tags[i], 0)
             K == Len(Tags[i])
  <2>1. K \in Nat /\ K <= 6 /\ (first = -1 \/ (first \in Nat /\ first + K <= Len(row)))
    BY <1>2
  <2>2. FieldStart(row, Tags[i]) = first + K
    BY DEF FieldStart
  <2> HIDE DEF first, K
  <2>3. ~(first + K > Len(row))
    BY <1>1, <1>5, <2>1
  <2> QED BY ONLY <2>2, <2>3, Zenon
<1> QED BY <1>3, <1>4, <1>5 DEF Throws

\* The positions behind which a line begins, and the line end that a line runs to.
EndsOf(text) == {i \in 1 .. Len(text) : SubSeq(text, i, i) = LineEnd}
StartsOf(text) == ({0} \cup EndsOf(text)) \ {Len(text)}
StopOf(text, s) == Lowest({i \in EndsOf(text) \cup {Len(text) + 1} : i > s})

\* The n-th of the starts.
IsNth(starts, n, s) == s \in starts /\ Cardinality({r \in starts : r < s}) = n - 1
Nth(starts, n) == CHOOSE s \in starts : Cardinality({r \in starts : r < s}) = n - 1

LEMMA GetLinesIs ==
  ASSUME NEW text
  PROVE  GetLines(text) =
           [n \in 1 .. Cardinality(StartsOf(text)) |->
              SubSeq(text, Nth(StartsOf(text), n) + 1,
                     StopOf(text, Nth(StartsOf(text), n)) - 1)]
BY DEF GetLines, EndsOf, StartsOf, StopOf, Nth

LEMMA EndsAre ==
  ASSUME NEW text \in Texts
  PROVE  /\ Len(text) \in Nat
         /\ EndsOf(text) = {i \in 1 .. Len(text) : text[i] = "\n"}
<1>1. Len(text) \in Nat
  BY LenProperties DEF Texts
<1>2. ASSUME NEW i \in 1 .. Len(text)
      PROVE  SubSeq(text, i, i) = LineEnd <=> text[i] = "\n"
  <2>1. SubSeq(text, i, i) = [m \in 1 .. i - i + 1 |-> text[i + m - 1]]
    OBVIOUS
  <2>2. i - i + 1 = 1 /\ 1 .. 1 = {1} /\ i + 1 - 1 = i
    BY <1>1
  <2>3. SubSeq(text, i, i) = <<text[i]>>
    BY <2>1, <2>2
  <2> QED BY <2>3 DEF LineEnd
<1> QED BY <1>1, <1>2 DEF EndsOf

LEMMA NthIs ==
  ASSUME NEW starts, NEW n, NEW s, IsNth(starts, n, s),
         \A r \in starts : IsNth(starts, n, r) => r = s
  PROVE  Nth(starts, n) = s
BY DEF Nth, IsNth

LEMMA LowestIs ==
  ASSUME NEW I \in SUBSET Nat, NEW i \in I, \A j \in I : i <= j
  PROVE  Lowest(I) = i
<1>1. Lowest(I) \in I /\ \A j \in I : Lowest(I) <= j
  BY LowestIsLeast
<1>2. \A x, y \in Nat : x <= y /\ y <= x => x = y
  OBVIOUS
<1> QED BY <1>1, <1>2

\* One line, with a line end behind it or, if it is not empty, without.
OneLine(text, n) ==
  /\ text \in Texts /\ n \in Nat
  /\ \A i \in 1 .. Len(text) : text[i] = "\n" <=> i = n + 1
  /\ (Len(text) = n /\ n # 0) \/ Len(text) = n + 1

LEMMA LinesOne ==
  ASSUME NEW text, NEW n, OneLine(text, n)
  PROVE  GetLines(text) = <<SubSeq(text, 1, n)>>
<1> DEFINE L == Len(text)
           starts == StartsOf(text)
           ends == EndsOf(text)
<1>1. /\ text \in Texts /\ n \in Nat
      /\ \A i \in 1 .. L : text[i] = "\n" <=> i = n + 1
      /\ (L = n /\ n # 0) \/ L = n + 1
  BY DEF OneLine
<1>2. L \in Nat /\ ends = {i \in 1 .. L : text[i] = "\n"}
  BY <1>1, EndsAre
<1>3. ends \subseteq {n + 1} /\ ends \cup {L + 1} \subseteq {n + 1, n + 2}
        /\ n + 1 \in ends \cup {L + 1}
  <2> HIDE DEF L, ends
  <2> QED BY <1>1, <1>2
<1>4. starts = {0}
  <2>1. starts = ({0} \cup ends) \ {L}
    BY DEF StartsOf
  <2> HIDE DEF L, ends, starts
  <2>2. 0 # L /\ (n + 1 \in ends => L = n + 1)
    BY <1>1, <1>2
  <2> QED BY <1>3, <2>1, <2>2
<1>5. Cardinality(starts) = 1
  <2> HIDE DEF starts
  <2> QED BY <1>4, FS_Singleton
<1>6. Nth(starts, 1) = 0
  <2> HIDE DEF starts
  <2>1. {r \in {0} : r < 0} = {}
    OBVIOUS
  <2>2. Cardinality({r \in {0} : r < 0}) = 1 - 1
    BY <2>1, FS_EmptySet
  <2>3. IsNth({0}, 1, 0)
    BY <2>2 DEF IsNth
  <2> QED BY <1>4, <2>3, NthIs
<1>7. StopOf(text, 0) = n + 1
  <2> DEFINE I == {i \in ends \cup {L + 1} : i > 0}
  <2>1. I \in SUBSET Nat /\ n + 1 \in I /\ \A j \in I : n + 1 <= j
    <3> HIDE DEF L, ends
    <3> QED BY <1>1, <1>3
  <2>2. StopOf(text, 0) = Lowest(I)
    BY DEF StopOf
  <2> HIDE DEF I
  <2> QED BY <2>1, <2>2, LowestIs
<1>8. GetLines(text) = [i \in 1 .. 1 |-> SubSeq(text, Nth(starts, i) + 1, StopOf(text, Nth(starts, i)) - 1)]
  <2>1. GetLines(text) = [i \in 1 .. Cardinality(starts) |-> SubSeq(text, Nth(starts, i) + 1, StopOf(text, Nth(starts, i)) - 1)]
    BY GetLinesIs
  <2> HIDE DEF starts
  <2> QED BY ONLY <1>5, <2>1, Zenon
<1>9. 0 + 1 = 1 /\ n + 1 - 1 = n /\ 1 .. 1 = {1}
  BY <1>1
<1>10. GetLines(text) = [i \in {1} |-> SubSeq(text, 1, n)]
  <2>1. SubSeq(text, Nth(starts, 1) + 1, StopOf(text, Nth(starts, 1)) - 1) = SubSeq(text, 1, n)
    <3> HIDE DEF starts
    <3>1. StopOf(text, Nth(starts, 1)) = n + 1
      BY ONLY <1>6, <1>7, Zenon
    <3>2. Nth(starts, 1) + 1 = 1 /\ StopOf(text, Nth(starts, 1)) - 1 = n
      BY <1>1, <1>6, <3>1
    <3> QED BY ONLY <3>2, Zenon
  <2> HIDE DEF starts
  <2> QED BY ONLY <1>8, <1>9, <2>1, Zenon
<1>11. <<SubSeq(text, 1, n)>> = [i \in {1} |-> SubSeq(text, 1, n)]
  <2>1. \A x : <<x>> = [i \in {1} |-> x]
    OBVIOUS
  <2> QED BY ONLY <2>1, Zenon
<1> QED BY ONLY <1>10, <1>11, Zenon

\* Two lines, the second with a line end behind it or, if it is not empty, without.
TwoLines(text, m, n) ==
  /\ text \in Texts /\ m \in Nat /\ n \in Nat
  /\ \A i \in 1 .. Len(text) : text[i] = "\n" <=> i = m + 1 \/ i = m + n + 2
  /\ (Len(text) = m + n + 1 /\ n # 0) \/ Len(text) = m + n + 2

LEMMA LinesTwo ==
  ASSUME NEW text, NEW m, NEW n, TwoLines(text, m, n)
  PROVE  GetLines(text) = <<SubSeq(text, 1, m), SubSeq(text, m + 2, m + n + 1)>>
<1> DEFINE L == Len(text)
           starts == StartsOf(text)
           ends == EndsOf(text)
           at == m + 1
<1>1. /\ text \in Texts /\ m \in Nat /\ n \in Nat
      /\ \A i \in 1 .. L : text[i] = "\n" <=> i = m + 1 \/ i = m + n + 2
      /\ (L = m + n + 1 /\ n # 0) \/ L = m + n + 2
  BY DEF TwoLines
<1>2. L \in Nat /\ ends = {i \in 1 .. L : text[i] = "\n"}
  BY <1>1, EndsAre
<1>3. /\ ends \cup {L + 1} \subseteq {at, m + n + 2, m + n + 3}
      /\ ends \subseteq {at, m + n + 2} /\ at \in ends /\ m + n + 2 \in ends \cup {L + 1}
  <2> HIDE DEF L, ends
  <2> QED BY <1>1, <1>2
<1>4. at \in Nat /\ 0 < at /\ starts = {0, at}
  <2>1. starts = ({0} \cup ends) \ {L}
    BY DEF StartsOf
  <2> HIDE DEF L, ends, starts
  <2>2. 0 # L /\ at # L /\ (m + n + 2 \in ends => L = m + n + 2)
    BY <1>1, <1>2
  <2> QED BY <1>1, <1>3, <2>1, <2>2
<1>5. Cardinality(starts) = 2
  <2> HIDE DEF starts, at
  <2>1. IsFiniteSet({0}) /\ Cardinality({0}) = 1
    BY FS_Singleton
  <2>2. at \notin {0} /\ {0, at} = {0} \cup {at}
    BY <1>4
  <2>3. Cardinality({0} \cup {at}) = Cardinality({0}) + 1
    BY <2>1, <2>2, FS_AddElement
  <2> QED BY <1>4, <2>1, <2>2, <2>3
<1>6. Nth(starts, 1) = 0 /\ Nth(starts, 2) = at
  <2> HIDE DEF starts, at
  <2>1. {r \in {0, at} : r < 0} = {} /\ {r \in {0, at} : r < at} = {0}
    BY <1>4
  <2>2. Cardinality({r \in {0, at} : r < 0}) = 0 /\ Cardinality({r \in {0, at} : r < at}) = 1
    BY <2>1, FS_EmptySet, FS_Singleton
  <2>3. /\ IsNth({0, at}, 1, 0) /\ ~IsNth({0, at}, 1, at)
        /\ IsNth({0, at}, 2, at) /\ ~IsNth({0, at}, 2, 0)
    BY <1>4, <2>2 DEF IsNth
  <2>4. (\A r \in {0, at} : IsNth({0, at}, 1, r) => r = 0)
          /\ (\A r \in {0, at} : IsNth({0, at}, 2, r) => r = at)
    BY <2>3
  <2>5. Nth({0, at}, 1) = 0
    BY <2>3, <2>4, NthIs
  <2>6. Nth({0, at}, 2) = at
    BY <2>3, <2>4, NthIs
  <2> QED BY ONLY <1>4, <2>5, <2>6, Zenon
<1>7. StopOf(text, 0) = m + 1
  <2> DEFINE I == {i \in ends \cup {L + 1} : i > 0}
  <2>1. I \in SUBSET Nat /\ m + 1 \in I /\ \A j \in I : m + 1 <= j
    <3> HIDE DEF L, ends
    <3> QED BY <1>1, <1>3
  <2>2. StopOf(text, 0) = Lowest(I)
    BY DEF StopOf
  <2> HIDE DEF I
  <2> QED BY <2>1, <2>2, LowestIs
<1>8. StopOf(text, at) = m + n + 2
  <2> DEFINE I == {i \in ends \cup {L + 1} : i > at}
  <2>1. I \in SUBSET Nat /\ m + n + 2 \in I /\ \A j \in I : m + n + 2 <= j
    <3> HIDE DEF L, ends
    <3> QED BY <1>1, <1>3
  <2>2. StopOf(text, at) = Lowest(I)
    BY DEF StopOf
  <2> HIDE DEF I
  <2> QED BY <2>1, <2>2, LowestIs
<1> DEFINE g(i) == SubSeq(text, Nth(starts, i) + 1, StopOf(text, Nth(starts, i)) - 1)
<1>9. GetLines(text) = [i \in 1 .. 2 |-> g(i)]
  <2>1. GetLines(text) = [i \in 1 .. Cardinality(starts) |-> g(i)]
    BY GetLinesIs
  <2> HIDE DEF starts, g
  <2> QED BY ONLY <1>5, <2>1, Zenon
<1>10. g(1) = SubSeq(text, 1, m)
  <2> HIDE DEF starts
  <2>1. StopOf(text, Nth(starts, 1)) = m + 1
    BY ONLY <1>6, <1>7, Zenon
  <2>2. Nth(starts, 1) + 1 = 1 /\ StopOf(text, Nth(starts, 1)) - 1 = m
    BY <1>1, <1>6, <2>1
  <2> QED BY ONLY <2>2, Zenon
<1>11. g(2) = SubSeq(text, m + 2, m + n + 1)
  <2> HIDE DEF starts
  <2>1. StopOf(text, Nth(starts, 2)) = m + n + 2
    BY ONLY <1>6, <1>8, Zenon
  <2>2. Nth(starts, 2) + 1 = m + 2 /\ StopOf(text, Nth(starts, 2)) - 1 = m + n + 1
    BY <1>1, <1>6, <2>1
  <2> QED BY ONLY <2>2, Zenon
<1> HIDE DEF g
<1>12. \A x, y : x = g(1) /\ y = g(2) => <<x, y>> = [i \in 1 .. 2 |-> g(i)]
  OBVIOUS
<1> QED BY ONLY <1>9, <1>10, <1>11, <1>12, Zenon

\* A text without a character has no line.
LEMMA LinesNone == GetLines(<<>>) = <<>>
<1>1. <<>> \in Texts /\ Len(<<>>) = 0
  BY EmptySeq DEF Texts
<1>2. EndsOf(<<>>) = {}
  BY <1>1, EndsAre
<1>3. StartsOf(<<>>) = {}
  BY <1>1, <1>2 DEF StartsOf
<1>4. Cardinality(StartsOf(<<>>)) = 0
  BY <1>3, FS_EmptySet
<1> DEFINE g(i) == SubSeq(<<>>, Nth(StartsOf(<<>>), i) + 1,
                          StopOf(<<>>, Nth(StartsOf(<<>>), i)) - 1)
<1>5. GetLines(<<>>) = [i \in 1 .. Cardinality(StartsOf(<<>>)) |-> g(i)]
  BY GetLinesIs
<1>6. GetLines(<<>>) = [i \in 1 .. 0 |-> g(i)]
  <2> HIDE DEF g
  <2> QED BY ONLY <1>4, <1>5, Zenon
<1> HIDE DEF g
<1>7. [i \in 1 .. 0 |-> g(i)] = <<>>
  OBVIOUS
<1> QED BY ONLY <1>6, <1>7, Zenon

Fields == [1 .. 6 -> Texts]

\* A line of the file without its line end.
Row(fields) ==
  Tagged(fields, 1) \o Tagged(fields, 2) \o Tagged(fields, 3)
    \o Tagged(fields, 4) \o Tagged(fields, 5) \o Tagged(fields, 6)

LEMMA TaggedType ==
  ASSUME NEW fields \in Fields, NEW i \in 1 .. 6
  PROVE  /\ Tagged(fields, i) = (Tags[i] \o fields[i]) \o Tags[i]
         /\ Tagged(fields, i) \in Texts /\ 5 <= Len(Tagged(fields, i))
<1>1. Tags[i] \in Texts /\ Len(Tags[i]) \in Nat /\ 3 <= Len(Tags[i])
  BY TagsAre, TagStarts
<1>2. fields[i] \in Texts
  BY DEF Fields
<1>3. /\ Tags[i] \o fields[i] \in Texts /\ Len(fields[i]) \in Nat
      /\ Len(Tags[i] \o fields[i]) = Len(Tags[i]) + Len(fields[i])
  BY <1>1, <1>2, TextJoin
<1>4. /\ (Tags[i] \o fields[i]) \o Tags[i] \in Texts
      /\ Len((Tags[i] \o fields[i]) \o Tags[i]) = Len(Tags[i] \o fields[i]) + Len(Tags[i])
  BY <1>1, <1>3, TextJoin
<1>5. \A x, y \in Nat : 3 <= x => 5 <= (x + y) + x
  OBVIOUS
<1>6. 5 <= Len((Tags[i] \o fields[i]) \o Tags[i])
  BY ONLY <1>1, <1>3, <1>4, <1>5, Zenon
<1>7. Tagged(fields, i) = (Tags[i] \o fields[i]) \o Tags[i]
  BY DEF Tagged
<1> QED BY ONLY <1>4, <1>6, <1>7, Zenon

\* What a line carries of the j-th field when n fields of it are written.
Written(fields, j, n, s) ==
  s \in Texts /\ IF n < j THEN Free(s, Tags[j]) ELSE Carries(s, fields[j], Tags[j])

\* No field before the j-th holds its tag.
TagIsKept(fields, j) == \A i \in 1 .. 6 : i < j => NoneFrom(fields[i], Tags[j], 0)

LEMMA OneMoreField ==
  ASSUME NEW fields \in Fields, NEW j \in 1 .. 6, TagIsKept(fields, j),
         NEW n \in 1 .. 6, NEW s, Written(fields, j, n - 1, s)
  PROVE  Written(fields, j, n, s \o Tagged(fields, n))
<1> DEFINE t == Tagged(fields, n)
           k == Tags[j]
<1>1. s \in Texts /\ t \in Texts
  BY TaggedType DEF Written
<1>2. s \o t \in Texts
  BY <1>1, TextJoin
<1>3. IsTag(k) /\ IsTag(Tags[n]) /\ k \in Texts
  BY TagsAre DEF IsTag
<1>4. fields[j] \in Texts /\ fields[n] \in Texts
  BY DEF Fields
<1>5. t = (Tags[n] \o fields[n]) \o Tags[n]
  BY TaggedType
<1>6. CASE n < j
  <2>1. n - 1 < j /\ Tags[n] # k
    BY <1>6, TagsAre
  <2>2. Free(s, k)
    BY <2>1 DEF Written
  <2>3. NoneFrom(fields[n], k, 0)
    BY <1>6 DEF TagIsKept
  <2>4. Free((Tags[n] \o fields[n]) \o Tags[n], k)
    BY <1>3, <1>4, <2>1, <2>3, FreeTagged
  <2>5. Free(t, k)
    <3> HIDE DEF t
    <3> QED BY ONLY <1>5, <2>4, Zenon
  <2>6. Free(s \o t, k)
    BY <1>3, <2>2, <2>5, FreeJoin
  <2> QED BY <1>2, <1>6, <2>6 DEF Written
<1>7. CASE n = j
  <2>1. n - 1 < j /\ ~(n < j)
    BY <1>7
  <2>2. Free(s, k)
    BY <2>1 DEF Written
  <2>3. Carries(s \o ((k \o fields[j]) \o k), fields[j], k)
    BY <1>3, <1>4, <2>2, CarriesHere
  <2>4. Carries(s \o t, fields[j], k)
    <3> HIDE DEF t
    <3> QED BY ONLY <1>5, <1>7, <2>3, Zenon DEF k
  <2> QED BY <1>2, <2>1, <2>4 DEF Written
<1>8. CASE n > j
  <2>1. ~(n - 1 < j) /\ ~(n < j)
    BY <1>8
  <2>2. Carries(s, fields[j], k)
    BY <2>1 DEF Written
  <2>3. Carries(s \o t, fields[j], k)
    <3> HIDE DEF t
    <3> QED BY <1>1, <1>3, <1>4, <2>2, CarriesMore
  <2> QED BY <1>2, <2>1, <2>3 DEF Written
<1> QED BY <1>6, <1>7, <1>8

LEMMA RowCarries ==
  ASSUME NEW fields \in Fields, NEW j \in 1 .. 6, TagIsKept(fields, j)
  PROVE  Carries(Row(fields), fields[j], Tags[j])
<1> DEFINE t(n) == Tagged(fields, n)
           s1 == t(1)
           s2 == s1 \o t(2)
           s3 == s2 \o t(3)
           s4 == s3 \o t(4)
           s5 == s4 \o t(5)
           s6 == s5 \o t(6)
<1>1. Written(fields, j, 0, <<>>)
  BY FreeEmpty, EmptySeq DEF Written, Texts
<1>2. \A n \in 1 .. 6 : \A s : Written(fields, j, n - 1, s) => Written(fields, j, n, s \o t(n))
  BY OneMoreField
<1>3. <<>> \o t(1) = t(1)
  BY TaggedType, ConcatEmptySeq DEF Texts
<1>4. s6 = Row(fields)
  BY DEF Row
<1> HIDE DEF t
<1>5. Written(fields, j, 1, s1)
  <2>1. 1 \in 1 .. 6 /\ 1 - 1 = 0
    OBVIOUS
  <2>2. Written(fields, j, 1, <<>> \o t(1))
    BY <1>1, <1>2, <2>1
  <2> QED BY ONLY <1>3, <2>2, Zenon DEF s1
<1> HIDE DEF s1
<1>6. Written(fields, j, 2, s2)
  BY <1>2, <1>5
<1> HIDE DEF s2
<1>7. Written(fields, j, 3, s3)
  BY <1>2, <1>6
<1> HIDE DEF s3
<1>8. Written(fields, j, 4, s4)
  BY <1>2, <1>7
<1> HIDE DEF s4
<1>9. Written(fields, j, 5, s5)
  BY <1>2, <1>8
<1> HIDE DEF s5
<1>10. Written(fields, j, 6, s6)
  BY <1>2, <1>9
<1> HIDE DEF s6
<1>11. ~(6 < j)
  OBVIOUS
<1>12. Carries(s6, fields[j], Tags[j])
  BY <1>10, <1>11 DEF Written
<1> QED BY ONLY <1>4, <1>12, Zenon

LEMMA RowType ==
  ASSUME NEW fields \in Fields
  PROVE  Row(fields) \in Texts /\ Len(Row(fields)) \in Nat /\ 5 <= Len(Row(fields))
<1> DEFINE Fine(s) == s \in Texts /\ Len(s) \in Nat /\ 5 <= Len(s)
           t(n) == Tagged(fields, n)
           s1 == t(1)
           s2 == s1 \o t(2)
           s3 == s2 \o t(3)
           s4 == s3 \o t(4)
           s5 == s4 \o t(5)
           s6 == s5 \o t(6)
<1>1. \A n \in 1 .. 6 : Fine(t(n))
  <2>1. \A n \in 1 .. 6 : t(n) \in Texts /\ 5 <= Len(t(n))
    BY TaggedType
  <2> QED BY <2>1, LenProperties DEF Texts
<1>2. ASSUME NEW s, NEW u, Fine(s), Fine(u)
      PROVE  Fine(s \o u)
  <2>1. s \o u \in Texts /\ Len(s) \in Nat /\ Len(u) \in Nat /\ Len(s \o u) = Len(s) + Len(u)
    BY <1>2, TextJoin
  <2>2. \A x, y \in Nat : 5 <= x => x + y \in Nat /\ 5 <= x + y
    OBVIOUS
  <2> QED BY ONLY <1>2, <2>1, <2>2, Zenon
<1>3. s6 = Row(fields)
  BY DEF Row
<1> HIDE DEF Fine, t
<1>4. Fine(s1)
  BY <1>1
<1> HIDE DEF s1
<1>5. Fine(s2)
  BY <1>1, <1>2, <1>4
<1> HIDE DEF s2
<1>6. Fine(s3)
  BY <1>1, <1>2, <1>5
<1> HIDE DEF s3
<1>7. Fine(s4)
  BY <1>1, <1>2, <1>6
<1> HIDE DEF s4
<1>8. Fine(s5)
  BY <1>1, <1>2, <1>7
<1> HIDE DEF s5
<1>9. Fine(s6)
  BY <1>1, <1>2, <1>8
<1> HIDE DEF s6
<1>10. Fine(Row(fields))
  BY ONLY <1>3, <1>9, Zenon
<1> QED BY <1>10 DEF Fine

\* A text without a line end.
Unbroken(s) == s \in Texts /\ \A i \in Nat : 1 <= i /\ i <= Len(s) => s[i] # "\n"

LEMMA UnbrokenJoin ==
  ASSUME NEW s, NEW t, Unbroken(s), Unbroken(t)
  PROVE  Unbroken(s \o t)
<1> DEFINE S == Len(s)
           T == Len(t)
           u == s \o t
<1>1. /\ s \in Texts /\ t \in Texts
      /\ \A i \in Nat : 1 <= i /\ i <= S => s[i] # "\n"
      /\ \A i \in Nat : 1 <= i /\ i <= T => t[i] # "\n"
  BY DEF Unbroken
<1>2. /\ u \in Texts /\ S \in Nat /\ T \in Nat /\ Len(u) = S + T
      /\ \A i \in Nat : 1 <= i /\ i <= S => u[i] = s[i]
      /\ \A i \in Nat : 1 <= i /\ i <= T => u[S + i] = t[i]
  BY <1>1, TextJoin
<1>3. ASSUME NEW i \in Nat, 1 <= i, i <= S + T
      PROVE  u[i] # "\n"
  <2> HIDE DEF S, T, u
  <2>1. CASE i <= S
    BY <1>1, <1>2, <1>3, <2>1
  <2>2. CASE ~(i <= S)
    <3> DEFINE n == i - S
    <3>1. n \in Nat /\ 1 <= n /\ n <= T /\ S + n = i
      BY <1>2, <1>3, <2>2
    <3> HIDE DEF n
    <3>2. u[S + n] = t[n] /\ t[n] # "\n"
      BY <1>1, <1>2, <3>1
    <3> QED BY ONLY <3>1, <3>2, Zenon
  <2> QED BY <2>1, <2>2
<1> QED BY <1>2, <1>3 DEF Unbroken

LEMMA UnbrokenTag ==
  ASSUME NEW t, IsTag(t)
  PROVE  Unbroken(t)
<1>1. t \in Texts /\ Len(t) \in Nat
  BY TagStarts
<1>2. \A m \in 1 .. Len(t) : t[m] # "\n"
  BY DEF IsTag
<1>3. \A i \in Nat : 1 <= i /\ i <= Len(t) => i \in 1 .. Len(t)
  BY <1>1
<1> QED BY <1>1, <1>2, <1>3 DEF Unbroken

LEMMA LineEndIs == LineEnd \in Texts /\ Len(LineEnd) = 1 /\ LineEnd[1] = "\n"
BY FormatAssumption DEF LineEnd, Texts

LEMMA UnbrokenIs ==
  ASSUME NEW s \in Texts
  PROVE  ~Has(s, LineEnd) <=> Unbroken(s)
<1>1. /\ LineEnd \in Texts /\ Len(LineEnd) = 1 /\ LineEnd[1] = "\n"
      /\ Len(s) \in Nat
  BY LineEndIs, LenProperties DEF Texts
<1>2. ASSUME NEW j \in Nat
      PROVE  At(s, LineEnd, j) <=> j + 1 <= Len(s) /\ s[j + 1] = "\n"
  <2>1. 1 .. 1 = {1}
    OBVIOUS
  <2> QED BY <1>1, <2>1 DEF At
<1>3. NoneFrom(s, LineEnd, 0) <=> \A j \in Nat : ~(j + 1 <= Len(s) /\ s[j + 1] = "\n")
  BY <1>2 DEF NoneFrom
<1>4. ASSUME \A j \in Nat : ~(j + 1 <= Len(s) /\ s[j + 1] = "\n"),
             NEW i \in Nat, 1 <= i, i <= Len(s)
      PROVE  s[i] # "\n"
  <2>1. i - 1 \in Nat /\ (i - 1) + 1 = i
    BY <1>4
  <2>2. ~((i - 1) + 1 <= Len(s) /\ s[(i - 1) + 1] = "\n")
    BY <1>4, <2>1
  <2> QED BY ONLY <1>4, <2>1, <2>2, Zenon
<1>5. ASSUME \A i \in Nat : 1 <= i /\ i <= Len(s) => s[i] # "\n",
             NEW j \in Nat
      PROVE  ~(j + 1 <= Len(s) /\ s[j + 1] = "\n")
  <2>1. j + 1 \in Nat /\ 1 <= j + 1
    OBVIOUS
  <2> QED BY <1>5, <2>1
<1>6. Unbroken(s) <=> \A i \in Nat : 1 <= i /\ i <= Len(s) => s[i] # "\n"
  BY DEF Unbroken
<1>7. NoneFrom(s, LineEnd, 0) <=> Unbroken(s)
  BY ONLY <1>3, <1>4, <1>5, <1>6
<1>8. ~Has(s, LineEnd) <=> NoneFrom(s, LineEnd, 0)
  BY <1>1, HasIs
<1> QED BY ONLY <1>7, <1>8

LEMMA UnbrokenRow ==
  ASSUME NEW fields \in Fields, \A i \in 1 .. 6 : Unbroken(fields[i])
  PROVE  Unbroken(Row(fields))
<1> DEFINE t(n) == Tagged(fields, n)
           s1 == t(1)
           s2 == s1 \o t(2)
           s3 == s2 \o t(3)
           s4 == s3 \o t(4)
           s5 == s4 \o t(5)
           s6 == s5 \o t(6)
<1>1. \A n \in 1 .. 6 : Unbroken(t(n))
  <2> TAKE n \in 1 .. 6
  <2>1. Unbroken(Tags[n])
    BY TagsAre, UnbrokenTag
  <2>2. Unbroken(Tags[n] \o fields[n])
    BY <2>1, UnbrokenJoin
  <2>3. Unbroken((Tags[n] \o fields[n]) \o Tags[n])
    BY <2>1, <2>2, UnbrokenJoin
  <2>4. Tagged(fields, n) = (Tags[n] \o fields[n]) \o Tags[n]
    BY TaggedType
  <2> QED BY ONLY <2>3, <2>4, Zenon
<1>2. s6 = Row(fields)
  BY DEF Row
<1> HIDE DEF t
<1>3. Unbroken(s1)
  BY <1>1
<1> HIDE DEF s1
<1>4. Unbroken(s2)
  BY <1>1, <1>3, UnbrokenJoin
<1> HIDE DEF s2
<1>5. Unbroken(s3)
  BY <1>1, <1>4, UnbrokenJoin
<1> HIDE DEF s3
<1>6. Unbroken(s4)
  BY <1>1, <1>5, UnbrokenJoin
<1> HIDE DEF s4
<1>7. Unbroken(s5)
  BY <1>1, <1>6, UnbrokenJoin
<1> HIDE DEF s5
<1>8. Unbroken(s6)
  BY <1>1, <1>7, UnbrokenJoin
<1> HIDE DEF s6
<1> QED BY ONLY <1>2, <1>8, Zenon

\* A clean booking is parsed for what it is.
LEMMA ParseRow ==
  ASSUME NEW fields \in Fields, Clean(fields)
  PROVE  Parse(Row(fields)) = fields /\ Unbroken(Row(fields))
<1>1. DOMAIN Tags = 1 .. 6 /\ Len(Tags) = 6
  BY TagsAre
<1>2. \A i \in 1 .. 6 : fields[i] \in Texts /\ Tags[i] \in Texts /\ IsTag(Tags[i])
  BY TagsAre DEF Fields, IsTag
<1>3. \A i \in 1 .. 6 : ~Has(fields[i], LineEnd) /\ \A j \in i .. 6 : ~Has(fields[i], Tags[j])
  BY <1>1 DEF Clean
<1>4. \A i \in 1 .. 6 : Unbroken(fields[i])
  BY <1>2, <1>3, UnbrokenIs
<1>5. \A i, j \in 1 .. 6 : i <= j => NoneFrom(fields[i], Tags[j], 0)
  <2> TAKE i, j \in 1 .. 6
  <2> HAVE i <= j
  <2>1. j \in i .. 6
    OBVIOUS
  <2>2. ~Has(fields[i], Tags[j])
    BY <1>3, <2>1
  <2> QED BY <1>2, <2>2, HasIs
<1>6. ASSUME NEW j \in 1 .. 6
      PROVE  Field(Row(fields), Tags[j]) = fields[j]
  <2>1. TagIsKept(fields, j)
    BY <1>5 DEF TagIsKept
  <2>2. Carries(Row(fields), fields[j], Tags[j])
    BY <2>1, RowCarries
  <2>3. NoneFrom(fields[j], Tags[j], 0)
    BY <1>5
  <2>4. PICK b \in Texts, a \in Texts :
          Free(b, Tags[j]) /\ Between(Row(fields), b, fields[j], Tags[j], a)
    BY <2>2 DEF Carries
  <2> QED BY <1>2, <2>3, <2>4, ReadField
<1>7. Parse(Row(fields)) = [j \in 1 .. 6 |-> Field(Row(fields), Tags[j])]
  BY <1>1 DEF Parse
<1>8. fields = [j \in 1 .. 6 |-> fields[j]]
  BY DEF Fields
<1>9. Parse(Row(fields)) = fields
  BY <1>6, <1>7, <1>8
<1> QED BY <1>4, <1>9, UnbrokenRow

\* What saveToFile writes.
LEMMA FileOfOne ==
  ASSUME NEW fields \in Fields
  PROVE  FileText(<<fields>>) = Row(fields) \o LineEnd
<1>1. ToFileString(fields) = Row(fields) \o LineEnd
  BY DEF ToFileString, Row
<1> DEFINE x == ToFileString(fields)
           ss == [n \in DOMAIN <<fields>> |-> ToFileString(<<fields>>[n])]
<1>2. Len(ss) = 1 /\ ss[1] = x
  <2>1. ss = <<x>>
    OBVIOUS
  <2> HIDE DEF ss, x
  <2> QED BY <2>1
<1> HIDE DEF x
<1>3. FileText(<<fields>>) = FlattenSeq(ss)
  BY DEF FileText
<1> HIDE DEF ss
<1>4. PICK f : IsFlat(f, ss, 1) /\ FlattenSeq(ss) = f[1]
  <2>1. Len(ss) \in Nat /\ Len(ss) # 0
    BY <1>2
  <2>2. PICK f : IsFlat(f, ss, Len(ss)) /\ FlattenSeq(ss) = f[Len(ss)]
    BY ONLY <2>1, FlattenIs, Zenon
  <2> QED BY ONLY <1>2, <2>2, Zenon
<1>5. f[1] = x
  BY <1>2, <1>4 DEF IsFlat
<1> QED BY ONLY <1>1, <1>3, <1>4, <1>5, Zenon DEF x

LEMMA FileOfTwo ==
  ASSUME NEW fields \in Fields, NEW others \in Fields
  PROVE  FileText(<<fields, others>>) = (Row(fields) \o LineEnd) \o (Row(others) \o LineEnd)
<1>1. /\ ToFileString(fields) = Row(fields) \o LineEnd
      /\ ToFileString(others) = Row(others) \o LineEnd
  BY DEF ToFileString, Row
<1> DEFINE x == ToFileString(fields)
           y == ToFileString(others)
           ss == [n \in DOMAIN <<fields, others>> |-> ToFileString(<<fields, others>>[n])]
<1>2. Len(ss) = 2 /\ ss[1] = x /\ ss[2] = y
  <2>1. ss = <<x, y>>
    OBVIOUS
  <2> HIDE DEF ss, x, y
  <2> QED BY <2>1
<1> HIDE DEF x, y
<1>3. FileText(<<fields, others>>) = FlattenSeq(ss)
  BY DEF FileText
<1> HIDE DEF ss
<1>4. PICK f : IsFlat(f, ss, 2) /\ FlattenSeq(ss) = f[2]
  <2>1. Len(ss) \in Nat /\ Len(ss) # 0
    BY <1>2
  <2>2. PICK f : IsFlat(f, ss, Len(ss)) /\ FlattenSeq(ss) = f[Len(ss)]
    BY ONLY <2>1, FlattenIs, Zenon
  <2> QED BY ONLY <1>2, <2>2, Zenon
<1>5. f[1] = ss[1] /\ f[2] = f[1] \o ss[2]
  <2>1. \A i \in 1 .. 2 : f[i] = IF i = 1 THEN ss[i] ELSE f[i - 1] \o ss[i]
    BY <1>4 DEF IsFlat
  <2>2. 1 \in 1 .. 2 /\ 2 \in 1 .. 2 /\ 2 # 1 /\ 2 - 1 = 1
    OBVIOUS
  <2>3. f[2] = f[2 - 1] \o ss[2]
    BY <2>1, <2>2
  <2>4. f[1] = ss[1]
    BY <2>1, <2>2
  <2> QED BY ONLY <2>2, <2>3, <2>4, Zenon
<1>6. f[2] = x \o y
  BY ONLY <1>2, <1>5, Zenon
<1> QED BY ONLY <1>1, <1>3, <1>4, <1>6, Zenon DEF x, y

\* The first n characters.
LEMMA FirstOf ==
  ASSUME NEW s \in Texts, NEW n \in Nat, n <= Len(s)
  PROVE  /\ SubSeq(s, 1, n) \in Texts /\ Len(SubSeq(s, 1, n)) = n
         /\ \A i \in Nat : 1 <= i /\ i <= n => SubSeq(s, 1, n)[i] = s[i]
<1>1. Len(s) \in Nat
  BY LenProperties DEF Texts
<1>2. \A i \in 1 .. n : s[i] \in Characters
  <2>1. \A i \in 1 .. n : i \in 1 .. Len(s)
    BY <1>1
  <2> QED BY <2>1, ElementOfSeq DEF Texts
<1>3. n - 1 + 1 = n /\ (1 <= n \/ n = 0) /\ \A i \in 1 .. n : 1 + i - 1 = i
  OBVIOUS
<1> DEFINE f == SubSeq(s, 1, n)
<1>4. f = [i \in 1 .. n - 1 + 1 |-> s[1 + i - 1]]
  OBVIOUS
<1>5. f = [i \in 1 .. n |-> s[i]]
  BY <1>3, <1>4
<1> HIDE DEF f
<1>6. f \in Texts /\ Len(f) = n
  BY <1>2, <1>5, SeqDef, LenProperties DEF Texts
<1>7. \A i \in Nat : 1 <= i /\ i <= n => f[i] = s[i]
  BY <1>5
<1> QED BY <1>6, <1>7 DEF f

LEMMA FirstOfLeft ==
  ASSUME NEW s \in Texts, NEW t \in Texts, NEW n \in Nat, n <= Len(s)
  PROVE  SubSeq(s \o t, 1, n) = SubSeq(s, 1, n)
<1>1. /\ s \o t \in Texts /\ Len(s) \in Nat /\ Len(t) \in Nat
      /\ Len(s \o t) = Len(s) + Len(t)
      /\ \A i \in Nat : 1 <= i /\ i <= Len(s) => (s \o t)[i] = s[i]
  BY TextJoin
<1>2. n <= Len(s \o t)
  <2>1. \A x, y \in Nat : n <= x => n <= x + y
    OBVIOUS
  <2> QED BY <1>1, <2>1
<1> DEFINE f == SubSeq(s \o t, 1, n)
           g == SubSeq(s, 1, n)
           u == s \o t
<1>3. f \in Texts /\ Len(f) = n /\ \A i \in Nat : 1 <= i /\ i <= n => f[i] = u[i]
  BY <1>1, <1>2, FirstOf
<1>4. g \in Texts /\ Len(g) = n /\ \A i \in Nat : 1 <= i /\ i <= n => g[i] = s[i]
  BY FirstOf
<1>5. \A i \in Nat : 1 <= i /\ i <= n => u[i] = s[i]
  <2> HIDE DEF u
  <2>1. \A i \in Nat : 1 <= i /\ i <= Len(s) => u[i] = s[i]
    BY <1>1 DEF u
  <2> QED BY <1>1, <2>1
<1> HIDE DEF f, g, u
<1>6. f = g
  BY <1>3, <1>4, <1>5, SameText
<1> QED BY <1>6 DEF f, g

LEMMA FirstOfRight ==
  ASSUME NEW s \in Texts, NEW t \in Texts, NEW n \in Nat, n <= Len(t)
  PROVE  SubSeq(s \o t, 1, Len(s) + n) = s \o SubSeq(t, 1, n)
<1>1. /\ s \o t \in Texts /\ Len(s) \in Nat /\ Len(t) \in Nat
      /\ Len(s \o t) = Len(s) + Len(t)
      /\ \A i \in Nat : 1 <= i /\ i <= Len(s) => (s \o t)[i] = s[i]
      /\ \A i \in Nat : 1 <= i /\ i <= Len(t) => (s \o t)[Len(s) + i] = t[i]
  BY TextJoin
<1> DEFINE S == Len(s)
           u == s \o t
           c == SubSeq(t, 1, n)
           f == SubSeq(u, 1, S + n)
           g == s \o c
<1>2. c \in Texts /\ Len(c) = n /\ \A i \in Nat : 1 <= i /\ i <= n => c[i] = t[i]
  BY FirstOf
<1>3. /\ g \in Texts /\ Len(g) = S + n
      /\ \A i \in Nat : 1 <= i /\ i <= S => g[i] = s[i]
      /\ \A i \in Nat : 1 <= i /\ i <= n => g[S + i] = c[i]
  <2> HIDE DEF c
  <2> QED BY <1>2, TextJoin
<1>4. S + n \in Nat /\ S + n <= Len(u)
  <2>1. \A x, y \in Nat : n <= y => x + n \in Nat /\ x + n <= x + y
    OBVIOUS
  <2> QED BY <1>1, <2>1
<1>5. f \in Texts /\ Len(f) = S + n /\ \A i \in Nat : 1 <= i /\ i <= S + n => f[i] = u[i]
  <2> HIDE DEF u, S
  <2>1. u \in Texts
    BY <1>1 DEF u
  <2> QED BY <1>4, <2>1, FirstOf
<1>6. /\ S \in Nat
      /\ \A i \in Nat : 1 <= i /\ i <= S => u[i] = s[i]
      /\ \A i \in Nat : 1 <= i /\ i <= n => u[S + i] = t[i]
  <2>1. \A i \in Nat : 1 <= i /\ i <= n => i <= Len(t)
    <3>1. Len(t) \in Nat
      BY <1>1
    <3> QED BY <3>1
  <2> QED BY <1>1, <2>1
<1> HIDE DEF S, u, c, f, g
<1>7. ASSUME NEW i \in Nat, 1 <= i, i <= S + n
      PROVE  f[i] = g[i]
  <2>1. f[i] = u[i]
    BY <1>5, <1>7
  <2>2. CASE i <= S
    <3>1. u[i] = s[i] /\ g[i] = s[i]
      BY <1>3, <1>6, <1>7, <2>2
    <3> QED BY ONLY <2>1, <3>1, Zenon
  <2>3. CASE ~(i <= S)
    <3> DEFINE m == i - S
    <3>1. m \in Nat /\ 1 <= m /\ m <= n /\ S + m = i
      BY <1>6, <1>7, <2>3
    <3> HIDE DEF m
    <3>2. u[S + m] = t[m] /\ g[S + m] = c[m] /\ c[m] = t[m]
      BY <1>2, <1>3, <1>6, <3>1
    <3> QED BY ONLY <2>1, <3>1, <3>2, Zenon
  <2> QED BY <2>2, <2>3
<1>8. f = g
  BY <1>3, <1>5, <1>7, SameText
<1> QED BY <1>8 DEF f, g, c, u, S

LEMMA AllOf ==
  ASSUME NEW s \in Texts
  PROVE  SubSeq(s, 1, Len(s)) = s /\ SubSeq(s, 1, 0) = <<>>
<1>1. Len(s) \in Nat /\ 0 <= Len(s)
  BY LenProperties DEF Texts
<1> DEFINE f == SubSeq(s, 1, Len(s))
           L == Len(s)
<1>2. L <= L
  BY <1>1
<1>3. f \in Texts /\ Len(f) = L /\ \A i \in Nat : 1 <= i /\ i <= L => f[i] = s[i]
  BY <1>1, <1>2, FirstOf
<1> HIDE DEF f
<1>4. f = s
  BY <1>3, SameText
<1>5. SubSeq(s, 1, 0) \in Texts /\ Len(SubSeq(s, 1, 0)) = 0
  BY <1>1, FirstOf
<1>6. SubSeq(s, 1, 0) = <<>>
  BY <1>5, EmptySeq DEF Texts
<1> QED BY <1>4, <1>6 DEF f

LEMMA UnbrokenFirst ==
  ASSUME NEW s, Unbroken(s), NEW n \in Nat, n <= Len(s)
  PROVE  Unbroken(SubSeq(s, 1, n)) /\ Len(SubSeq(s, 1, n)) = n
<1>1. s \in Texts /\ Len(s) \in Nat /\ \A i \in Nat : 1 <= i /\ i <= Len(s) => s[i] # "\n"
  BY LenProperties DEF Unbroken, Texts
<1> DEFINE f == SubSeq(s, 1, n)
<1>2. f \in Texts /\ Len(f) = n /\ \A i \in Nat : 1 <= i /\ i <= n => f[i] = s[i]
  BY <1>1, FirstOf
<1> HIDE DEF f
<1>3. \A i \in Nat : 1 <= i /\ i <= n => f[i] # "\n"
  BY <1>1, <1>2
<1>4. Unbroken(f) /\ Len(f) = n
  BY <1>2, <1>3 DEF Unbroken
<1> QED BY <1>4 DEF f

\* The only line end stands behind n characters.
BrokenAt(s, n) ==
  \A i \in Nat : 1 <= i /\ i <= n + 1 => (s[i] = "\n" <=> i = n + 1)

LEMMA RowEnds ==
  ASSUME NEW r, Unbroken(r)
  PROVE  /\ r \o LineEnd \in Texts /\ Len(r \o LineEnd) = Len(r) + 1
         /\ BrokenAt(r \o LineEnd, Len(r))
<1> DEFINE R == Len(r)
           u == r \o LineEnd
<1>1. r \in Texts /\ R \in Nat /\ \A i \in Nat : 1 <= i /\ i <= R => r[i] # "\n"
  BY LenProperties DEF Unbroken, Texts
<1>2. /\ u \in Texts /\ Len(u) = R + 1
      /\ \A i \in Nat : 1 <= i /\ i <= R => u[i] = r[i]
      /\ \A i \in Nat : 1 <= i /\ i <= 1 => u[R + i] = LineEnd[i]
  <2>1. LineEnd \in Texts
    BY LineEndIs
  <2>2. /\ u \in Texts /\ Len(u) = R + Len(LineEnd)
        /\ \A i \in Nat : 1 <= i /\ i <= R => u[i] = r[i]
        /\ \A i \in Nat : 1 <= i /\ i <= Len(LineEnd) => u[R + i] = LineEnd[i]
    BY <1>1, <2>1, TextJoin
  <2> HIDE DEF u, R
  <2> QED BY ONLY <2>2, LineEndIs, Zenon
<1>3. u[R + 1] = "\n"
  <2>1. 1 \in Nat /\ 1 <= 1
    OBVIOUS
  <2> QED BY ONLY <1>2, <2>1, LineEndIs, Zenon
<1> HIDE DEF R, u
<1>4. ASSUME NEW i \in Nat, 1 <= i, i <= R + 1
      PROVE  u[i] = "\n" <=> i = R + 1
  <2>1. i = R + 1 \/ (i \in Nat /\ 1 <= i /\ i <= R /\ i # R + 1)
    BY <1>1, <1>4
  <2> QED BY <1>1, <1>2, <1>3, <2>1
<1>5. u \in Texts /\ Len(u) = R + 1 /\ BrokenAt(u, R)
  BY <1>2, <1>4 DEF BrokenAt
<1> QED BY ONLY <1>5, Zenon DEF u, R

\* The lines of a text that is one row, with or without its line end.
LEMMA OneRow ==
  ASSUME NEW r, Unbroken(r)
  PROVE  GetLines(r \o LineEnd) = <<r>>
<1> DEFINE R == Len(r)
           u == r \o LineEnd
<1>1. r \in Texts /\ R \in Nat
  BY LenProperties DEF Unbroken, Texts
<1>2. u \in Texts /\ Len(u) = R + 1 /\ BrokenAt(u, R)
  BY RowEnds
<1> HIDE DEF R, u
<1>3. \A i \in 1 .. R + 1 : u[i] = "\n" <=> i = R + 1
  <2>1. \A i \in 1 .. R + 1 : i \in Nat /\ 1 <= i /\ i <= R + 1
    BY <1>1
  <2> QED BY <1>2, <2>1 DEF BrokenAt
<1>4. OneLine(u, R)
  BY <1>1, <1>2, <1>3 DEF OneLine
<1>5. GetLines(u) = <<SubSeq(u, 1, R)>>
  BY <1>4, LinesOne
<1>6. SubSeq(u, 1, R) = r
  <2>1. LineEnd \in Texts /\ R <= R
    BY <1>1, LineEndIs
  <2>2. SubSeq(r \o LineEnd, 1, R) = SubSeq(r, 1, R)
    BY <1>1, <2>1, FirstOfLeft DEF R
  <2>3. SubSeq(r, 1, R) = r
    BY <1>1, AllOf DEF R
  <2> QED BY ONLY <2>2, <2>3, Zenon DEF u
<1> QED BY ONLY <1>5, <1>6, Zenon DEF u

LEMMA OneCutRow ==
  ASSUME NEW r, Unbroken(r), Len(r) # 0
  PROVE  GetLines(r) = <<r>>
<1> DEFINE R == Len(r)
<1>1. r \in Texts /\ R \in Nat /\ \A i \in Nat : 1 <= i /\ i <= R => r[i] # "\n"
  BY LenProperties DEF Unbroken, Texts
<1>2. ASSUME NEW i \in 1 .. R
      PROVE  r[i] = "\n" <=> i = R + 1
  <2> HIDE DEF R
  <2>1. i \in Nat /\ 1 <= i /\ i <= R /\ i # R + 1
    BY <1>1
  <2> QED BY <1>1, <2>1
<1>3. OneLine(r, R)
  BY <1>1, <1>2 DEF OneLine
<1> HIDE DEF R
<1>4. GetLines(r) = <<SubSeq(r, 1, R)>>
  BY <1>3, LinesOne
<1>5. SubSeq(r, 1, R) = r
  BY <1>1, AllOf DEF R
<1> QED BY ONLY <1>4, <1>5, Zenon

\* The lines of a text that is a row with its line end and another, with or without one.
LEMMA TwoCutRows ==
  ASSUME NEW r, NEW q, Unbroken(r), Unbroken(q), Len(q) # 0
  PROVE  GetLines((r \o LineEnd) \o q) = <<r, q>>
<1> DEFINE R == Len(r)
           Q == Len(q)
           b == r \o LineEnd
           u == b \o q
<1>1. /\ r \in Texts /\ R \in Nat /\ \A i \in Nat : 1 <= i /\ i <= R => r[i] # "\n"
      /\ q \in Texts /\ Q \in Nat /\ \A i \in Nat : 1 <= i /\ i <= Q => q[i] # "\n"
      /\ Q # 0
  BY LenProperties DEF Unbroken, Texts
<1>2. b \in Texts /\ Len(b) = R + 1 /\ BrokenAt(b, R)
  BY RowEnds
<1> HIDE DEF b
<1>3. /\ u \in Texts /\ Len(u) = Len(b) + Q
      /\ \A i \in Nat : 1 <= i /\ i <= Len(b) => u[i] = b[i]
      /\ \A i \in Nat : 1 <= i /\ i <= Q => u[Len(b) + i] = q[i]
  BY <1>1, <1>2, TextJoin
<1>4. /\ u \in Texts /\ Len(u) = R + 1 + Q
      /\ \A i \in Nat : 1 <= i /\ i <= R + 1 => u[i] = b[i]
      /\ \A i \in Nat : 1 <= i /\ i <= Q => u[R + 1 + i] = q[i]
  <2> HIDE DEF u
  <2> QED BY ONLY <1>2, <1>3, Zenon
<1> HIDE DEF R, Q, u
<1>5. ASSUME NEW i \in 1 .. R + 1 + Q
      PROVE  u[i] = "\n" <=> i = R + 1 \/ i = R + Q + 2
  <2>1. i # R + Q + 2
    BY <1>1
  <2>2. CASE i <= R + 1
    <3>1. i \in Nat /\ 1 <= i /\ i <= R + 1
      BY <2>2
    <3>2. u[i] = b[i]
      BY <1>4, <3>1
    <3>3. b[i] = "\n" <=> i = R + 1
      BY <1>2, <3>1 DEF BrokenAt
    <3> QED BY ONLY <2>1, <3>2, <3>3, Zenon
  <2>3. CASE ~(i <= R + 1)
    <3> DEFINE m == i - (R + 1)
    <3>1. m \in Nat /\ 1 <= m /\ m <= Q /\ R + 1 + m = i /\ i # R + 1
      BY <1>1, <2>3
    <3> HIDE DEF m
    <3>2. u[R + 1 + m] = q[m] /\ q[m] # "\n"
      BY <1>1, <1>4, <3>1
    <3> QED BY ONLY <2>1, <3>1, <3>2, Zenon
  <2> QED BY <2>2, <2>3
<1>6. R + 1 + Q = R + Q + 1 /\ R + 2 = R + 1 + 1 /\ R + Q + 1 = R + 1 + Q
  BY <1>1
<1>7. Len(u) = R + Q + 1
  BY ONLY <1>4, <1>6, Zenon
<1>8. TwoLines(u, R, Q)
  <2>1. \A i \in 1 .. Len(u) : u[i] = "\n" <=> i = R + 1 \/ i = R + Q + 2
    BY ONLY <1>4, <1>5, Zenon
  <2> QED BY <1>1, <1>4, <1>7, <2>1 DEF TwoLines
<1>9. GetLines(u) = <<SubSeq(u, 1, R), SubSeq(u, R + 2, R + Q + 1)>>
  BY <1>8, LinesTwo
<1>10. SubSeq(u, 1, R) = r
  <2>1. R <= R + 1 /\ R <= R
    BY <1>1
  <2>2. SubSeq(b \o q, 1, R) = SubSeq(b, 1, R)
    BY <1>1, <1>2, <2>1, FirstOfLeft
  <2>3. SubSeq(r \o LineEnd, 1, R) = SubSeq(r, 1, R)
    BY <1>1, <2>1, LineEndIs, FirstOfLeft DEF R
  <2>4. SubSeq(r, 1, R) = r
    BY <1>1, AllOf DEF R
  <2> QED BY ONLY <2>2, <2>3, <2>4, Zenon DEF u, b
<1>11. SubSeq(u, R + 2, R + Q + 1) = q
  <2>1. At(u, q, R + 1)
    <3>1. R + 1 + Q <= Len(u)
      BY <1>1, <1>4
    <3>2. \A m \in 1 .. Q : u[R + 1 + m] = q[m]
      <4>1. \A m \in 1 .. Q : m \in Nat /\ 1 <= m /\ m <= Q
        BY <1>1
      <4> QED BY <1>4, <4>1
    <3> QED BY <3>1, <3>2 DEF At, Q
  <2>2. R + 1 \in Nat
    BY <1>1
  <2>3. SubSeq(u, R + 1 + 1, R + 1 + Len(q)) = q
    BY <1>1, <1>4, <2>1, <2>2, AtIs
  <2> QED BY ONLY <1>6, <2>3, Zenon DEF Q
<1> QED BY ONLY <1>9, <1>10, <1>11, Zenon DEF u, b

LEMMA TwoRows ==
  ASSUME NEW r, NEW q, Unbroken(r), Unbroken(q)
  PROVE  GetLines((r \o LineEnd) \o (q \o LineEnd)) = <<r, q>>
<1> DEFINE R == Len(r)
           Q == Len(q)
           b == r \o LineEnd
           e == q \o LineEnd
           u == b \o e
<1>1. /\ r \in Texts /\ R \in Nat /\ q \in Texts /\ Q \in Nat
  BY LenProperties DEF Unbroken, Texts
<1>2. b \in Texts /\ Len(b) = R + 1 /\ BrokenAt(b, R)
  BY RowEnds
<1>3. e \in Texts /\ Len(e) = Q + 1 /\ BrokenAt(e, Q)
  BY RowEnds
<1> HIDE DEF b, e
<1>4. /\ u \in Texts /\ Len(u) = Len(b) + Len(e)
      /\ \A i \in Nat : 1 <= i /\ i <= Len(b) => u[i] = b[i]
      /\ \A i \in Nat : 1 <= i /\ i <= Len(e) => u[Len(b) + i] = e[i]
  BY <1>2, <1>3, TextJoin
<1>5. /\ u \in Texts /\ Len(u) = R + 1 + (Q + 1)
      /\ \A i \in Nat : 1 <= i /\ i <= R + 1 => u[i] = b[i]
      /\ \A i \in Nat : 1 <= i /\ i <= Q + 1 => u[R + 1 + i] = e[i]
  <2> HIDE DEF u
  <2> QED BY ONLY <1>2, <1>3, <1>4, Zenon
<1> HIDE DEF R, Q, u
<1>6. ASSUME NEW i \in 1 .. R + 1 + (Q + 1)
      PROVE  u[i] = "\n" <=> i = R + 1 \/ i = R + Q + 2
  <2>1. CASE i <= R + 1
    <3>1. i \in Nat /\ 1 <= i /\ i <= R + 1 /\ i # R + Q + 2
      BY <1>1, <2>1
    <3>2. u[i] = b[i]
      BY <1>5, <3>1
    <3>3. b[i] = "\n" <=> i = R + 1
      BY <1>2, <3>1 DEF BrokenAt
    <3> QED BY ONLY <3>1, <3>2, <3>3, Zenon
  <2>2. CASE ~(i <= R + 1)
    <3> DEFINE m == i - (R + 1)
    <3>1. /\ m \in Nat /\ 1 <= m /\ m <= Q + 1 /\ R + 1 + m = i /\ i # R + 1
          /\ (m = Q + 1 <=> i = R + Q + 2)
      BY <1>1, <2>2
    <3> HIDE DEF m
    <3>2. u[R + 1 + m] = e[m]
      BY <1>5, <3>1
    <3>3. e[m] = "\n" <=> m = Q + 1
      BY <1>3, <3>1 DEF BrokenAt
    <3> QED BY ONLY <3>1, <3>2, <3>3, Zenon
  <2> QED BY <2>1, <2>2
<1>7. R + 1 + (Q + 1) = R + Q + 2 /\ R + 1 + 1 = R + 2 /\ R + 1 + Q = R + Q + 1
  BY <1>1
<1>8. Len(u) = R + Q + 2
  BY ONLY <1>5, <1>7, Zenon
<1>9. TwoLines(u, R, Q)
  <2>1. \A i \in 1 .. Len(u) : u[i] = "\n" <=> i = R + 1 \/ i = R + Q + 2
    BY ONLY <1>5, <1>6, Zenon
  <2> QED BY <1>1, <1>5, <1>8, <2>1 DEF TwoLines
<1>10. GetLines(u) = <<SubSeq(u, 1, R), SubSeq(u, R + 2, R + Q + 1)>>
  BY <1>9, LinesTwo
<1>11. SubSeq(u, 1, R) = r
  <2>1. R <= R + 1 /\ R <= R
    BY <1>1
  <2>2. SubSeq(b \o e, 1, R) = SubSeq(b, 1, R)
    BY <1>1, <1>2, <1>3, <2>1, FirstOfLeft
  <2>3. SubSeq(r \o LineEnd, 1, R) = SubSeq(r, 1, R)
    BY <1>1, <2>1, LineEndIs, FirstOfLeft DEF R
  <2>4. SubSeq(r, 1, R) = r
    BY <1>1, AllOf DEF R
  <2> QED BY ONLY <2>2, <2>3, <2>4, Zenon DEF u, b
<1>12. SubSeq(u, R + 2, R + Q + 1) = q
  <2>1. At(e, q, 0)
    BY <1>1, LineEndIs, AtStart DEF e
  <2>2. At(b \o e, q, Len(b) + 0)
    BY <1>1, <1>2, <1>3, <2>1, AtRight
  <2>3. R + 1 \in Nat /\ (R + 1) + 0 = R + 1
    BY <1>1
  <2>4. At(u, q, R + 1)
    BY ONLY <1>2, <2>2, <2>3, Zenon DEF u
  <2>5. SubSeq(u, R + 1 + 1, R + 1 + Len(q)) = q
    BY <1>1, <1>5, <2>3, <2>4, AtIs
  <2> QED BY ONLY <1>7, <2>5, Zenon DEF Q
<1> QED BY ONLY <1>10, <1>11, <1>12, Zenon DEF u, b, e

LEMMA PlainIs ==
  /\ Plain \in Fields /\ Clean(Plain)
  /\ Plain = [t \in 1 .. 6 |-> <<"x">>] /\ <<"x">> \in Texts /\ Len(<<"x">>) = 1
<1>1. DOMAIN Tags = 1 .. 6 /\ Len(Tags) = 6
  BY TagsAre
<1>2. Plain = [t \in 1 .. 6 |-> <<"x">>]
  BY <1>1 DEF Plain
<1>3. <<"x">> \in Texts /\ Len(<<"x">>) = 1 /\ <<"x">>[1] = "x"
  BY FormatAssumption DEF Texts
<1>4. Plain \in Fields
  BY <1>2, <1>3 DEF Fields
<1> DEFINE x == <<"x">>
<1>5. Unbroken(x)
  <2> HIDE DEF x
  <2>1. x \in Texts /\ Len(x) = 1 /\ x[1] = "x"
    BY <1>3 DEF x
  <2>2. \A i \in Nat : 1 <= i /\ i <= 1 => i = 1
    OBVIOUS
  <2> QED BY <2>1, <2>2 DEF Unbroken
<1>6. ASSUME NEW j \in 1 .. 6
      PROVE  ~Has(x, Tags[j])
  <2> HIDE DEF x
  <2>1. Tags[j] \in Texts /\ Len(Tags[j]) \in Nat /\ 3 <= Len(Tags[j])
    BY TagsAre, TagStarts
  <2>2. \A i \in Nat : ~(i + Len(Tags[j]) <= 1)
    BY <2>1
  <2>3. NoneFrom(x, Tags[j], 0)
    BY <1>3, <2>2 DEF NoneFrom, At, x
  <2> QED BY <1>3, <2>1, <2>3, HasIs DEF x
<1>7. ~Has(x, LineEnd)
  BY <1>3, <1>5, UnbrokenIs
<1>8. \A i \in 1 .. 6 : Plain[i] = x
  BY <1>2
<1> HIDE DEF x
<1>9. Clean(Plain)
  <2>1. \A i \in 1 .. 6 : \A j \in i .. 6 : j \in 1 .. 6
    OBVIOUS
  <2>2. \A i \in 1 .. 6 : ~Has(Plain[i], LineEnd) /\ \A j \in i .. 6 : ~Has(Plain[i], Tags[j])
    BY <1>6, <1>7, <1>8, <2>1
  <2> QED BY <1>1, <2>2 DEF Clean
<1> QED BY <1>2, <1>3, <1>4, <1>9

LEMMA RecordsAreFields == Records \subseteq Fields
<1>1. DOMAIN Tags = 1 .. 6
  BY TagsAre
<1>2. FieldTexts \subseteq Texts
  BY FormatAssumption DEF Texts
<1>3. Plain \in Fields /\ Plain = [t \in DOMAIN Tags |-> <<"x">>]
  BY PlainIs DEF Plain
<1>4. ASSUME NEW i \in 1 .. 6, NEW j \in 1 .. 6, NEW a \in FieldTexts, NEW b \in FieldTexts
      PROVE  [Plain EXCEPT ![i] = a, ![j] = b] \in Fields
  <2>1. a \in Texts /\ b \in Texts
    BY <1>2
  <2> HIDE DEF Plain
  <2> QED BY <1>3, <2>1 DEF Fields
<1>5. Records = {[Plain EXCEPT ![i] = a, ![j] = b] :
                   i, j \in DOMAIN Tags, a, b \in FieldTexts}
  BY DEF Records, Plain
<1> HIDE DEF Plain
<1> QED BY <1>1, <1>4, <1>5

\* A line is loaded unless it is too short.
LEMMA LoadsOne ==
  ASSUME NEW text, NEW r \in Texts, GetLines(text) = <<r>>
  PROVE  /\ Loads(text) <=> ~(Len(r) <= 4)
         /\ ReadBack(text) = <<Parse(r)>>
<1>1. Throws(r) <=> Len(r) <= 4
  BY ThrowsIs
<1>2. DOMAIN GetLines(text) = {1} /\ GetLines(text)[1] = r
  <2>1. \A x : DOMAIN <<x>> = {1} /\ <<x>>[1] = x
    OBVIOUS
  <2> QED BY ONLY <2>1, GetLines(text) = <<r>>, Zenon
<1>3. Loads(text) <=> ~Throws(r)
  BY <1>2 DEF Loads
<1>4. ReadBack(text) = [n \in {1} |-> Parse(r)]
  BY <1>2 DEF ReadBack
<1>5. \A x : [n \in {1} |-> x] = <<x>>
  OBVIOUS
<1>6. ReadBack(text) = <<Parse(r)>>
  BY ONLY <1>4, <1>5, Zenon
<1> QED BY <1>1, <1>3, <1>6

LEMMA LoadsTwo ==
  ASSUME NEW text, NEW r \in Texts, NEW q \in Texts, GetLines(text) = <<r, q>>
  PROVE  /\ Loads(text) <=> ~(Len(r) <= 4) /\ ~(Len(q) <= 4)
         /\ Len(ReadBack(text)) = 2
         /\ ReadBack(text)[1] = Parse(r) /\ ReadBack(text)[2] = Parse(q)
<1>1. (Throws(r) <=> Len(r) <= 4) /\ (Throws(q) <=> Len(q) <= 4)
  BY ThrowsIs
<1>2. DOMAIN GetLines(text) = 1 .. 2 /\ GetLines(text)[1] = r /\ GetLines(text)[2] = q
  <2>1. \A x, y : DOMAIN <<x, y>> = 1 .. 2 /\ <<x, y>>[1] = x /\ <<x, y>>[2] = y
    OBVIOUS
  <2> QED BY ONLY <2>1, GetLines(text) = <<r, q>>, Zenon
<1>3. 1 \in 1 .. 2 /\ 2 \in 1 .. 2 /\ \A n \in 1 .. 2 : n = 1 \/ n = 2
  OBVIOUS
<1>4. Loads(text) <=> ~Throws(r) /\ ~Throws(q)
  BY <1>2, <1>3 DEF Loads
<1>5. ReadBack(text) = [n \in 1 .. 2 |-> Parse(GetLines(text)[n])]
  BY <1>2 DEF ReadBack
<1>6. ReadBack(text)[1] = Parse(r) /\ ReadBack(text)[2] = Parse(q)
  BY <1>2, <1>3, <1>5, Zenon
<1>7. \A f : Len([n \in 1 .. 2 |-> Parse(f[n])]) = 2
  OBVIOUS
<1>8. Len(ReadBack(text)) = 2
  BY ONLY <1>5, <1>7, Zenon
<1> QED BY <1>1, <1>4, <1>6, <1>8

LEMMA CleanBack == CleanIsReadBack
<1> SUFFICES ASSUME NEW fields \in Records, Clean(fields)
             PROVE  ReadBack(FileText(<<fields>>)) = <<fields>>
  BY DEF CleanIsReadBack
<1> DEFINE r == Row(fields)
           text == FileText(<<fields>>)
<1>1. fields \in Fields
  BY RecordsAreFields
<1>2. Parse(r) = fields /\ Unbroken(r) /\ r \in Texts
  BY <1>1, ParseRow, RowType
<1>3. text = r \o LineEnd
  BY <1>1, FileOfOne
<1> HIDE DEF r, text
<1>4. GetLines(text) = <<r>>
  BY <1>2, <1>3, OneRow
<1>5. ReadBack(text) = <<Parse(r)>>
  BY <1>2, <1>4, LoadsOne
<1> QED BY ONLY <1>2, <1>5, Zenon DEF text

LEMMA NeighboursBack == NeighboursAreKept
<1> SUFFICES ASSUME NEW fields \in Records, \A i \in DOMAIN Tags : ~Has(fields[i], LineEnd)
             PROVE  /\ Loads(FileText(<<fields, Plain>>))
                    /\ Len(ReadBack(FileText(<<fields, Plain>>))) = 2
                    /\ ReadBack(FileText(<<fields, Plain>>))[2] = Plain
  BY DEF NeighboursAreKept
<1> DEFINE r == Row(fields)
           q == Row(Plain)
           text == FileText(<<fields, Plain>>)
<1>1. fields \in Fields /\ Plain \in Fields
  BY RecordsAreFields, PlainIs
<1>2. Unbroken(r)
  <2>1. \A i \in 1 .. 6 : Unbroken(fields[i])
    <3>1. \A i \in 1 .. 6 : fields[i] \in Texts
      BY <1>1 DEF Fields
    <3>2. DOMAIN Tags = 1 .. 6
      BY TagsAre
    <3> QED BY <3>1, <3>2, UnbrokenIs
  <2> QED BY <1>1, <2>1, UnbrokenRow
<1>3. Unbroken(q) /\ Parse(q) = Plain
  BY PlainIs, ParseRow
<1>4. /\ r \in Texts /\ Len(r) \in Nat /\ 5 <= Len(r)
      /\ q \in Texts /\ Len(q) \in Nat /\ 5 <= Len(q)
  BY <1>1, RowType
<1>5. text = (r \o LineEnd) \o (q \o LineEnd)
  BY <1>1, FileOfTwo
<1> HIDE DEF r, q, text
<1>6. GetLines(text) = <<r, q>>
  <2>1. GetLines((r \o LineEnd) \o (q \o LineEnd)) = <<r, q>>
    BY <1>2, <1>3, TwoRows
  <2> QED BY ONLY <1>5, <2>1, Zenon
<1>7. /\ Loads(text) <=> ~(Len(r) <= 4) /\ ~(Len(q) <= 4)
      /\ Len(ReadBack(text)) = 2 /\ ReadBack(text)[2] = Parse(q)
  BY <1>4, <1>6, LoadsTwo
<1>8. Loads(text)
  BY <1>4, <1>7
<1> QED BY ONLY <1>3, <1>7, <1>8, Zenon DEF text

\* The first line is a text.
LEMMA FirstLine ==
  ASSUME NEW text \in Texts, 1 \in DOMAIN GetLines(text)
  PROVE  GetLines(text)[1] \in Texts
<1> DEFINE starts == StartsOf(text)
           L == Len(text)
<1>1. L \in Nat /\ EndsOf(text) \subseteq 1 .. L
  BY EndsAre
<1>2. starts \subseteq 0 .. L /\ starts \in SUBSET Nat /\ IsFiniteSet(0 .. L)
  <2>1. IsFiniteSet(0 .. L)
    <3> HIDE DEF L
    <3> QED BY <1>1, FS_Interval
  <2> QED BY <1>1, <2>1 DEF StartsOf
<1>3. GetLines(text) = [n \in 1 .. Cardinality(starts) |->
                          SubSeq(text, Nth(starts, n) + 1, StopOf(text, Nth(starts, n)) - 1)]
  BY GetLinesIs
<1> HIDE DEF starts
<1>4. starts # {}
  <2>1. CASE starts = {}
    <3>1. Cardinality(starts) = 0
      BY <2>1, FS_EmptySet
    <3>2. DOMAIN GetLines(text) = 1 .. 0
      BY <1>3, <3>1
    <3> QED BY <3>2
  <2> QED BY <2>1
<1> DEFINE s == Nth(starts, 1)
           e == StopOf(text, s)
<1>5. s \in starts
  <2>1. PICK i \in starts : \A j \in starts : i <= j
    BY <1>2, <1>4, LeastNat
  <2>2. {r \in starts : r < i} = {}
    <3>1. \A r \in starts : r \in Nat /\ i \in Nat /\ i <= r
      BY <1>2, <2>1
    <3>2. \A r \in starts : ~(r < i)
      BY <3>1
    <3> QED BY <3>2
  <2>3. Cardinality({r \in starts : r < i}) = 1 - 1
    BY <2>2, FS_EmptySet
  <2>4. \E j \in starts : Cardinality({r \in starts : r < j}) = 1 - 1
    BY <2>3
  <2> QED BY ONLY <2>4, Zenon DEF Nth
<1>6. s \in Nat /\ s <= L
  <2> HIDE DEF s, L
  <2>1. s \in 0 .. L
    BY <1>2, <1>5
  <2> QED BY <1>1, <2>1
<1>7. e \in Nat /\ s < e /\ e <= L + 1
  <2> DEFINE I == {i \in EndsOf(text) \cup {L + 1} : i > s}
  <2> HIDE DEF s
  <2>1. I \in SUBSET Nat /\ L + 1 \in I /\ \A i \in I : s < i
    <3> HIDE DEF L
    <3> QED BY <1>1, <1>6
  <2>2. e = Lowest(I)
    BY DEF StopOf
  <2> HIDE DEF I, e
  <2>3. Lowest(I) \in I /\ \A j \in I : Lowest(I) <= j
    BY <2>1, LowestIsLeast
  <2> QED BY <1>1, <2>1, <2>2, <2>3
<1>8. GetLines(text)[1] = SubSeq(text, s + 1, e - 1)
  BY <1>3
<1> HIDE DEF s, e
<1>9. SubSeq(text, s + 1, e - 1) \in Texts
  <2>1. \A m \in s + 1 .. e - 1 : text[m] \in Characters
    <3>1. \A m \in s + 1 .. e - 1 : m \in 1 .. Len(text)
      BY <1>1, <1>6, <1>7
    <3> QED BY <3>1, ElementOfSeq DEF Texts
  <2>2. s + 1 \in Int /\ e - 1 \in Int
    BY <1>6, <1>7
  <2> QED BY <1>6, <1>7, <2>1, <2>2, SubSeqProperties DEF Texts
<1> QED BY ONLY <1>8, <1>9, Zenon

LEMMA OwnTagLost == OwnTagIsNot
<1> SUFFICES ASSUME NEW fields \in Records, NEW i \in DOMAIN Tags, Has(fields[i], Tags[i]),
                    ReadBack(FileText(<<fields>>)) = <<fields>>
             PROVE  FALSE
  BY DEF OwnTagIsNot
<1> DEFINE text == FileText(<<fields>>)
           row == GetLines(text)[1]
<1>1. fields \in Fields /\ i \in 1 .. 6 /\ DOMAIN Tags = 1 .. 6
  BY RecordsAreFields, TagsAre
<1>2. text \in Texts
  <2>1. Row(fields) \o LineEnd \in Texts
    BY <1>1, RowType, LineEndIs, TextJoin
  <2>2. text = Row(fields) \o LineEnd
    BY <1>1, FileOfOne
  <2> HIDE DEF text
  <2> QED BY ONLY <2>1, <2>2, Zenon
<1> HIDE DEF text
<1>3. 1 \in DOMAIN GetLines(text) /\ fields = Parse(row)
  <2>1. \A x : 1 \in DOMAIN <<x>> /\ <<x>>[1] = x
    OBVIOUS
  <2>2. 1 \in DOMAIN ReadBack(text) /\ ReadBack(text)[1] = fields
    BY ONLY <2>1, ReadBack(FileText(<<fields>>)) = <<fields>>, Zenon DEF text
  <2>3. ReadBack(text) = [n \in DOMAIN GetLines(text) |-> Parse(GetLines(text)[n])]
    BY DEF ReadBack
  <2>4. 1 \in DOMAIN GetLines(text)
    BY <2>2, <2>3
  <2>5. ReadBack(text)[1] = Parse(row)
    BY <2>3, <2>4
  <2> QED BY ONLY <2>2, <2>4, <2>5, Zenon
<1>4. row \in Texts
  BY <1>2, <1>3, FirstLine
<1> HIDE DEF row
<1>5. fields[i] = Field(row, Tags[i])
  BY <1>1, <1>3 DEF Parse
<1>6. IsTag(Tags[i]) /\ Tags[i] \in Texts
  BY <1>1, TagsAre DEF IsTag
<1>7. Field(row, Tags[i]) \in Texts /\ NoneFrom(Field(row, Tags[i]), Tags[i], 0)
  BY <1>4, <1>6, FieldLacksTag
<1>8. fields[i] \in Texts /\ NoneFrom(fields[i], Tags[i], 0)
  BY ONLY <1>5, <1>7, Zenon
<1>9. ~Has(fields[i], Tags[i])
  BY <1>6, <1>8, HasIs
<1> QED BY <1>9

\* A plain line has 52 characters.
LEMMA PlainLength ==
  Len(Row(Plain)) = 52 /\ Len(ToFileString(Plain)) = 53
<1>1. Plain \in Fields /\ \A i \in 1 .. 6 : Plain[i] \in Texts /\ Len(Plain[i]) = 1
  BY PlainIs
<1>2. /\ Len(Tags[1]) = 3 /\ Len(Tags[2]) = 3 /\ Len(Tags[3]) = 3 /\ Len(Tags[4]) = 3
      /\ Len(Tags[5]) = 6 /\ Len(Tags[6]) = 5
  BY DEF Tags
<1>3. ASSUME NEW i \in 1 .. 6
      PROVE  /\ Tagged(Plain, i) \in Texts
             /\ Len(Tagged(Plain, i)) = (Len(Tags[i]) + 1) + Len(Tags[i])
  <2>1. Tags[i] \in Texts /\ Plain[i] \in Texts /\ Len(Plain[i]) = 1
    BY <1>1, TagsAre DEF IsTag
  <2>2. Tags[i] \o Plain[i] \in Texts /\ Len(Tags[i] \o Plain[i]) = Len(Tags[i]) + Len(Plain[i])
    BY <2>1, TextJoin
  <2>3. /\ (Tags[i] \o Plain[i]) \o Tags[i] \in Texts
        /\ Len((Tags[i] \o Plain[i]) \o Tags[i]) = Len(Tags[i] \o Plain[i]) + Len(Tags[i])
    BY <2>1, <2>2, TextJoin
  <2>4. Tagged(Plain, i) = (Tags[i] \o Plain[i]) \o Tags[i]
    BY <1>1, TaggedType
  <2> QED BY ONLY <2>1, <2>2, <2>3, <2>4, Zenon
<1> DEFINE t(n) == Tagged(Plain, n)
           s2 == t(1) \o t(2)
           s3 == s2 \o t(3)
           s4 == s3 \o t(4)
           s5 == s4 \o t(5)
           s6 == s5 \o t(6)
<1>4. s6 = Row(Plain)
  BY DEF Row
<1>5. /\ t(1) \in Texts /\ t(2) \in Texts /\ t(3) \in Texts
      /\ t(4) \in Texts /\ t(5) \in Texts /\ t(6) \in Texts
  BY <1>3
<1>6. /\ Len(t(1)) = 7 /\ Len(t(2)) = 7 /\ Len(t(3)) = 7
      /\ Len(t(4)) = 7 /\ Len(t(5)) = 13 /\ Len(t(6)) = 11
  <2>1. (3 + 1) + 3 = 7 /\ (6 + 1) + 6 = 13 /\ (5 + 1) + 5 = 11
    OBVIOUS
  <2>2. 1 \in 1 .. 6 /\ 2 \in 1 .. 6 /\ 3 \in 1 .. 6 /\ 4 \in 1 .. 6 /\ 5 \in 1 .. 6 /\ 6 \in 1 .. 6
    OBVIOUS
  <2>3. \A i \in 1 .. 6 : Len(t(i)) = (Len(Tags[i]) + 1) + Len(Tags[i])
    BY <1>3
  <2> HIDE DEF t
  <2> QED BY ONLY <1>2, <2>1, <2>2, <2>3, Zenon
<1> HIDE DEF t
<1>7. s2 \in Texts /\ Len(s2) = 14
  <2>1. s2 \in Texts /\ Len(s2) = Len(t(1)) + Len(t(2))
    BY <1>5, JoinLength, Zenon
  <2>2. 7 + 7 = 14
    OBVIOUS
  <2> HIDE DEF s2
  <2> QED BY ONLY <1>6, <2>1, <2>2, Zenon
<1> HIDE DEF s2
<1>8. s3 \in Texts /\ Len(s3) = 21
  <2>1. s3 \in Texts /\ Len(s3) = Len(s2) + Len(t(3))
    BY <1>5, <1>7, JoinLength, Zenon
  <2>2. 14 + 7 = 21
    OBVIOUS
  <2> HIDE DEF s3
  <2> QED BY ONLY <1>6, <1>7, <2>1, <2>2, Zenon
<1> HIDE DEF s3
<1>9. s4 \in Texts /\ Len(s4) = 28
  <2>1. s4 \in Texts /\ Len(s4) = Len(s3) + Len(t(4))
    BY <1>5, <1>8, JoinLength, Zenon
  <2>2. 21 + 7 = 28
    OBVIOUS
  <2> HIDE DEF s4
  <2> QED BY ONLY <1>6, <1>8, <2>1, <2>2, Zenon
<1> HIDE DEF s4
<1>10. s5 \in Texts /\ Len(s5) = 41
  <2>1. s5 \in Texts /\ Len(s5) = Len(s4) + Len(t(5))
    BY <1>5, <1>9, JoinLength, Zenon
  <2>2. 28 + 13 = 41
    OBVIOUS
  <2> HIDE DEF s5
  <2> QED BY ONLY <1>6, <1>9, <2>1, <2>2, Zenon
<1> HIDE DEF s5
<1>11. s6 \in Texts /\ Len(s6) = 52
  <2>1. s6 \in Texts /\ Len(s6) = Len(s5) + Len(t(6))
    BY <1>5, <1>10, JoinLength, Zenon
  <2>2. 41 + 11 = 52
    OBVIOUS
  <2> HIDE DEF s6
  <2> QED BY ONLY <1>6, <1>10, <2>1, <2>2, Zenon
<1> HIDE DEF s6
<1>12. Row(Plain) \in Texts /\ Len(Row(Plain)) = 52
  BY ONLY <1>4, <1>11, Zenon
<1>13. ToFileString(Plain) = Row(Plain) \o LineEnd
  BY DEF ToFileString, Row
<1>14. Len(Row(Plain) \o LineEnd) = 53
  <2>1. LineEnd \in Texts /\ Len(LineEnd) = 1
    BY LineEndIs
  <2>2. Len(Row(Plain) \o LineEnd) = Len(Row(Plain)) + Len(LineEnd)
    BY <1>12, <2>1, TextJoin
  <2> QED BY <1>12, <2>1, <2>2
<1> QED BY ONLY <1>12, <1>13, <1>14, Zenon

\* The beginnings of a file of two plain lines.
LEMMA CutOf ==
  ASSUME NEW p, Unbroken(p), NEW n \in Nat, n # 0, n <= Len(p)
  PROVE  /\ GetLines(SubSeq(p, 1, n)) = <<SubSeq(p, 1, n)>>
         /\ SubSeq(p, 1, n) \in Texts /\ Len(SubSeq(p, 1, n)) = n
         /\ GetLines((p \o LineEnd) \o SubSeq(p, 1, n)) = <<p, SubSeq(p, 1, n)>>
<1> DEFINE c == SubSeq(p, 1, n)
<1>1. Unbroken(c) /\ Len(c) = n
  BY UnbrokenFirst
<1> HIDE DEF c
<1>2. c \in Texts /\ GetLines(c) = <<c>>
  BY <1>1, OneCutRow DEF Unbroken
<1>3. GetLines((p \o LineEnd) \o c) = <<p, c>>
  BY <1>1, TwoCutRows
<1>4. c \in Texts /\ Len(c) = n /\ GetLines(c) = <<c>> /\ GetLines((p \o LineEnd) \o c) = <<p, c>>
  BY <1>1, <1>2, <1>3
<1> QED BY ONLY <1>4, Zenon DEF c

\* How far a file that is cut after n characters loads.
CutLoads(cut, n, w) ==
  /\ Loads(cut) <=> (n % w) \notin 1 .. 4
  /\ n >= w /\ Loads(cut) => ReadBack(cut)[1] = Plain

LEMMA CutFilesBack == CutFilesLoad
<1> DEFINE p == Row(Plain)
           b == p \o LineEnd
           text == FileText(<<Plain, Plain>>)
<1>1. Plain \in Fields
  BY PlainIs
<1>2. Unbroken(p) /\ Parse(p) = Plain /\ p \in Texts /\ Len(p) = 52
  BY <1>1, PlainIs, ParseRow, RowType, PlainLength
<1>3. text = b \o b
  BY <1>1, FileOfTwo
<1>4. LineEnd \in Texts /\ Len(LineEnd) = 1
  BY LineEndIs
<1> HIDE DEF p
<1>5. b \in Texts /\ Len(b) = 53
  <2>1. b \in Texts /\ Len(b) = Len(p) + Len(LineEnd)
    BY <1>2, <1>4, TextJoin
  <2> HIDE DEF b
  <2> QED BY <1>2, <1>4, <2>1
<1>6. GetLines(b) = <<p>> /\ GetLines(b \o b) = <<p, p>>
  BY <1>2, OneRow, TwoRows
<1>7. \A n \in Nat : n # 0 /\ n <= 52 =>
        /\ GetLines(SubSeq(p, 1, n)) = <<SubSeq(p, 1, n)>>
        /\ SubSeq(p, 1, n) \in Texts /\ Len(SubSeq(p, 1, n)) = n
        /\ GetLines(b \o SubSeq(p, 1, n)) = <<p, SubSeq(p, 1, n)>>
  BY <1>2, CutOf
<1>8. SubSeq(b, 1, 0) = <<>> /\ SubSeq(b, 1, 53) = b
  <2> HIDE DEF b
  <2>1. SubSeq(b, 1, Len(b)) = b /\ SubSeq(b, 1, 0) = <<>>
    BY <1>5, AllOf
  <2> QED BY ONLY <1>5, <2>1, Zenon
<1>9. \A n \in Nat : n <= 52 => SubSeq(b, 1, n) = SubSeq(p, 1, n)
  BY <1>2, <1>4, FirstOfLeft
<1> HIDE DEF b
<1>10. \A n \in Nat : n <= 53 => SubSeq(b \o b, 1, n) = SubSeq(b, 1, n)
  BY <1>5, FirstOfLeft
<1>11. \A n \in Nat : n <= 53 => SubSeq(b \o b, 1, 53 + n) = b \o SubSeq(b, 1, n)
  <2>1. \A n \in Nat : n <= Len(b) => SubSeq(b \o b, 1, Len(b) + n) = b \o SubSeq(b, 1, n)
    BY <1>5, FirstOfRight
  <2> QED BY ONLY <1>5, <2>1, Zenon
\* Nothing is left.
<1>12. CutLoads(SubSeq(b \o b, 1, 0), 0, 53)
  <2>1. SubSeq(b \o b, 1, 0) = <<>>
    <3>1. 0 \in Nat /\ 0 <= 53
      OBVIOUS
    <3> QED BY ONLY <1>8, <1>10, <3>1, Zenon
  <2>2. Loads(<<>>)
    <3>1. DOMAIN GetLines(<<>>) = {}
      BY LinesNone
    <3> QED BY <3>1 DEF Loads
  <2>3. 0 % 53 = 0 /\ 0 \notin 1 .. 4 /\ ~(0 >= 53)
    OBVIOUS
  <2>4. CutLoads(<<>>, 0, 53)
    BY <2>2, <2>3 DEF CutLoads
  <2> QED BY ONLY <2>1, <2>4, Zenon
\* A part of the first line.
<1>13. ASSUME NEW n \in Nat, n # 0, n <= 52
       PROVE  CutLoads(SubSeq(b \o b, 1, n), n, 53)
  <2> DEFINE c == SubSeq(p, 1, n)
  <2>1. SubSeq(b \o b, 1, n) = c
    <3>1. n <= 53
      BY <1>13
    <3> QED BY <1>9, <1>10, <1>13, <3>1
  <2>2. GetLines(c) = <<c>> /\ c \in Texts /\ Len(c) = n
    BY <1>7, <1>13
  <2> HIDE DEF c
  <2>3. Loads(c) <=> ~(n <= 4)
    <3>1. Loads(c) <=> ~(Len(c) <= 4)
      BY <2>2, LoadsOne
    <3> QED BY ONLY <2>2, <3>1, Zenon
  <2>4. n % 53 = n /\ ~(n >= 53) /\ (n \notin 1 .. 4 <=> ~(n <= 4))
    BY <1>13
  <2>5. CutLoads(c, n, 53)
    BY <2>3, <2>4 DEF CutLoads
  <2> QED BY ONLY <2>1, <2>5, Zenon
\* The first line.
<1>14. CutLoads(SubSeq(b \o b, 1, 53), 53, 53)
  <2>1. SubSeq(b \o b, 1, 53) = b
    <3>1. 53 \in Nat /\ 53 <= 53
      OBVIOUS
    <3> QED BY ONLY <1>8, <1>10, <3>1, Zenon
  <2>2. (Loads(b) <=> ~(Len(p) <= 4)) /\ ReadBack(b) = <<Parse(p)>>
    BY <1>2, <1>6, LoadsOne
  <2>3. Loads(b)
    BY <1>2, <2>2
  <2>4. ReadBack(b)[1] = Plain
    <3>1. \A x : <<x>>[1] = x
      OBVIOUS
    <3> QED BY ONLY <1>2, <2>2, <3>1, Zenon
  <2>5. 53 % 53 = 0 /\ 0 \notin 1 .. 4
    OBVIOUS
  <2>6. CutLoads(b, 53, 53)
    BY <2>3, <2>4, <2>5 DEF CutLoads
  <2> QED BY ONLY <2>1, <2>6, Zenon
\* A part of the second line.
<1>15. ASSUME NEW n \in Nat, n # 0, n <= 52
       PROVE  CutLoads(SubSeq(b \o b, 1, 53 + n), 53 + n, 53)
  <2> DEFINE c == SubSeq(p, 1, n)
             u == b \o c
  <2>1. SubSeq(b \o b, 1, 53 + n) = u
    <3>1. n <= 53
      BY <1>15
    <3>2. SubSeq(b \o b, 1, 53 + n) = b \o SubSeq(b, 1, n)
      BY <1>11, <3>1
    <3>3. SubSeq(b, 1, n) = SubSeq(p, 1, n)
      BY <1>9, <1>15
    <3> QED BY ONLY <3>2, <3>3, Zenon
  <2>2. GetLines(u) = <<p, c>> /\ c \in Texts /\ Len(c) = n
    BY <1>7, <1>15
  <2> HIDE DEF c, u
  <2>3. (Loads(u) <=> ~(Len(p) <= 4) /\ ~(Len(c) <= 4)) /\ ReadBack(u)[1] = Parse(p)
    BY <1>2, <2>2, LoadsTwo
  <2>4. Loads(u) <=> ~(n <= 4)
    <3>1. ~(Len(p) <= 4)
      BY <1>2
    <3> QED BY ONLY <2>2, <2>3, <3>1, Zenon
  <2>5. ReadBack(u)[1] = Plain
    BY ONLY <1>2, <2>3, Zenon
  <2>6. (53 + n) % 53 = n /\ (n \notin 1 .. 4 <=> ~(n <= 4))
    BY <1>15
  <2>7. CutLoads(u, 53 + n, 53)
    BY <2>4, <2>5, <2>6 DEF CutLoads
  <2> QED BY ONLY <2>1, <2>7, Zenon
\* Both lines.
<1>16. CutLoads(SubSeq(b \o b, 1, 106), 106, 53)
  <2>1. SubSeq(b \o b, 1, 106) = b \o b
    <3>1. 53 \in Nat /\ 53 <= 53 /\ 53 + 53 = 106
      OBVIOUS
    <3>2. SubSeq(b \o b, 1, 53 + 53) = b \o SubSeq(b, 1, 53)
      BY ONLY <1>11, <3>1, Zenon
    <3> QED BY ONLY <1>8, <3>1, <3>2, Zenon
  <2> DEFINE u == b \o b
  <2>2. GetLines(u) = <<p, p>>
    BY <1>6
  <2> HIDE DEF u
  <2>3. (Loads(u) <=> ~(Len(p) <= 4) /\ ~(Len(p) <= 4)) /\ ReadBack(u)[1] = Parse(p)
    BY <1>2, <2>2, LoadsTwo
  <2>4. Loads(u)
    BY <1>2, <2>3
  <2>5. ReadBack(u)[1] = Plain
    BY ONLY <1>2, <2>3, Zenon
  <2>6. 106 % 53 = 0 /\ 0 \notin 1 .. 4
    OBVIOUS
  <2>7. CutLoads(u, 106, 53)
    BY <2>4, <2>5, <2>6 DEF CutLoads
  <2> QED BY ONLY <2>1, <2>7, Zenon DEF u
<1>17. Len(b \o b) = 106
  <2>1. Len(b \o b) = Len(b) + Len(b)
    BY <1>5, JoinLength, Zenon
  <2> QED BY <1>5, <2>1
<1>18. ASSUME NEW n \in Nat, n <= 106
       PROVE  CutLoads(SubSeq(b \o b, 1, n), n, 53)
  <2>1. CASE n = 0
    BY <1>12, <2>1
  <2>2. CASE n # 0 /\ n <= 52
    BY <1>13, <2>2
  <2>3. CASE n = 53
    BY <1>14, <2>3
  <2>4. CASE 53 < n /\ n < 106
    <3> DEFINE m == n - 53
    <3>1. m \in Nat /\ m # 0 /\ m <= 52 /\ 53 + m = n
      BY <2>4
    <3> HIDE DEF m
    <3>2. CutLoads(SubSeq(b \o b, 1, 53 + m), 53 + m, 53)
      BY <1>15, <3>1
    <3> QED BY ONLY <3>1, <3>2, Zenon
  <2>5. CASE n = 106
    BY <1>16, <2>5
  <2>6. n = 0 \/ (n # 0 /\ n <= 52) \/ n = 53 \/ (53 < n /\ n < 106) \/ n = 106
    BY <1>18
  <2> QED BY ONLY <2>1, <2>2, <2>3, <2>4, <2>5, <2>6
<1> DEFINE w == Len(ToFileString(Plain))
<1>19. w = 53
  BY PlainLength
<1>20. ASSUME NEW n \in 0 .. Len(text)
       PROVE  CutLoads(SubSeq(text, 1, n), n, w)
  <2>1. Len(text) = 106
    BY ONLY <1>3, <1>17, Zenon
  <2> HIDE DEF text, w
  <2>2. n \in Nat /\ n <= 106
    BY <1>20, <2>1
  <2>3. CutLoads(SubSeq(b \o b, 1, n), n, 53)
    BY <1>18, <2>2
  <2> QED BY ONLY <1>3, <1>19, <2>3, Zenon
<1> HIDE DEF text, w
<1>21. \A n \in 0 .. Len(text) :
         /\ Loads(SubSeq(text, 1, n)) <=> (n % w) \notin 1 .. 4
         /\ n >= w /\ Loads(SubSeq(text, 1, n)) => ReadBack(SubSeq(text, 1, n))[1] = Plain
  BY ONLY <1>20, Zenon DEF CutLoads
<1> QED BY ONLY <1>21, Zenon DEF CutFilesLoad, text, w

\* Every text of the file behaves as RecordFormat says: a clean booking is read back, a
\* booking with its own tag in a field is not, its neighbours are, and a file that was
\* cut loads unless one to four characters of a line are left.
THEOREM FilesAreLoadable == Spec => []FileIsLoadable
<1>1. FileIsLoadable
  BY NeighboursBack, CleanBack, OwnTagLost, CutFilesBack DEF FileIsLoadable, FileIsReadBack
<1> QED BY <1>1, PTL
=============================================================================
