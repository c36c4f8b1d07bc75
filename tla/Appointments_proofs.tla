------------------------- MODULE Appointments_proofs -------------------------
(***************************************************************************)
(* What the helpers of database.h keep true of a vector of days: one day   *)
(* per date, every booking under its date, no appointment twice, addresses *)
(* that grow along a day.  The servers that use them cite these lemmas.    *)
(***************************************************************************)
EXTENDS Appointments, TLAPS, SequenceTheorems, FiniteSetTheorems, WellFoundedInduction

-----------------------------------------------------------------------------
\* Lemmas on the helpers of Appointments.

\* Every set of naturals that is not empty has a least element.
LEMMA LeastNat ==
  ASSUME NEW I \in SUBSET Nat, I # {}
  PROVE  \E i \in I : \A j \in I : i <= j
<1>1. \E i \in I : \A j \in I : ~(<<j, i>> \in OpToRel(<, Nat))
  BY NatLessThanWellFounded, WFMin
<1>2. \A i, j \in Nat : j < i => <<j, i>> \in OpToRel(<, Nat)
  BY DEF OpToRel
<1>3. \E i \in I : \A j \in I : ~(j < i)
  BY <1>1, <1>2, Zenon
<1> QED BY <1>3

\* The first of a set of positions is in it, and before all others.
LEMMA FirstIsLeast ==
  ASSUME NEW I \in SUBSET Nat, I # {}
  PROVE  First(I) \in I /\ \A j \in I : First(I) <= j
BY LeastNat DEF First

\* What erase leaves of a vector.
LEMMA RemoveAtProperties ==
  ASSUME NEW S, NEW s \in Seq(S), NEW i \in 1 .. Len(s)
  PROVE  /\ RemoveAt(s, i) \in Seq(S)
         /\ Len(RemoveAt(s, i)) = Len(s) - 1
         /\ \A j \in 1 .. Len(s) - 1 :
              RemoveAt(s, i)[j] = IF j < i THEN s[j] ELSE s[j + 1]
<1> DEFINE a == SubSeq(s, 1, i - 1)
           b == SubSeq(s, i + 1, Len(s))
<1>0. Len(s) \in Nat /\ i \in Int
  BY LenProperties
<1>1. /\ a \in Seq(S)
      /\ Len(a) = i - 1
      /\ \A j \in 1 .. i - 1 : a[j] = s[j]
  <2>1. \A j \in 1 .. i - 1 : s[j] \in S
    BY <1>0, ElementOfSeq
  <2> QED BY <1>0, <2>1, SubSeqProperties
<1>2. /\ b \in Seq(S)
      /\ Len(b) = Len(s) - i
      /\ \A j \in 1 .. Len(s) - i : b[j] = s[i + j]
  <2>1. \A j \in i + 1 .. Len(s) : s[j] \in S
    BY <1>0, ElementOfSeq
  <2> HIDE DEF b
  <2>2. /\ b \in Seq(S)
        /\ Len(b) = IF i + 1 <= Len(s) THEN Len(s) - (i + 1) + 1 ELSE 0
        /\ \A j \in 1 .. Len(s) - (i + 1) + 1 : b[j] = s[(i + 1) + j - 1]
    BY <1>0, <2>1, SubSeqProperties DEF b
  <2> QED BY <1>0, <2>2
<1> HIDE DEF a, b
<1>3. /\ a \o b \in Seq(S)
      /\ Len(a \o b) = Len(a) + Len(b)
      /\ \A j \in 1 .. Len(a) + Len(b) :
           (a \o b)[j] = IF j <= Len(a) THEN a[j] ELSE b[j - Len(a)]
  BY <1>1, <1>2, ConcatProperties
<1>4. RemoveAt(s, i) = a \o b
  BY DEF RemoveAt, a, b
<1>5. Len(a \o b) = Len(s) - 1
  BY <1>0, <1>1, <1>2, <1>3
<1>6. ASSUME NEW j \in 1 .. Len(s) - 1
      PROVE  (a \o b)[j] = IF j < i THEN s[j] ELSE s[j + 1]
  <2>1. CASE j < i
    BY <1>0, <1>1, <1>2, <1>3, <2>1
  <2>2. CASE ~(j < i)
    <3>1. /\ j \in 1 .. Len(a) + Len(b)
          /\ ~(j <= Len(a))
          /\ j - Len(a) \in 1 .. Len(s) - i
          /\ i + (j - Len(a)) = j + 1
      BY <1>0, <1>1, <1>2, <2>2
    <3> QED BY <1>2, <1>3, <2>2, <3>1
  <2> QED BY <2>1, <2>2
<1> QED BY <1>3, <1>4, <1>5, <1>6

\* Replacing the appointments of one day leaves every date and every other day alone.
LEMMA UpdateDay ==
  ASSUME NEW ds \in Seq(Day), NEW d \in DOMAIN ds, NEW objs \in Seq(Object)
  PROVE  /\ WithAppointments(ds, d, objs) \in Seq(Day)
         /\ DOMAIN WithAppointments(ds, d, objs) = DOMAIN ds
         /\ \A e \in DOMAIN ds :
              /\ WithAppointments(ds, d, objs)[e].date = ds[e].date
              /\ WithAppointments(ds, d, objs)[e].appointments =
                   IF e = d THEN objs ELSE ds[e].appointments
<1> DEFINE day == [ds[d] EXCEPT !.appointments = objs]
           nd  == WithAppointments(ds, d, objs)
<1>1. DOMAIN ds = 1 .. Len(ds) /\ Len(ds) \in Nat
  BY LenProperties
<1>2. ds[d] \in Day
  BY <1>1, ElementOfSeq
<1>3. day \in Day /\ day.date = ds[d].date /\ day.appointments = objs
  BY <1>2 DEF Day
<1>4. nd = [ds EXCEPT ![d] = day]
  BY DEF WithAppointments
<1> HIDE DEF day, nd
<1>5. /\ nd \in Seq(Day)
      /\ Len(nd) = Len(ds)
      /\ \A e \in 1 .. Len(ds) : nd[e] = IF e = d THEN day ELSE ds[e]
  BY <1>1, <1>3, <1>4, ExceptSeq
<1>6. DOMAIN nd = DOMAIN ds
  BY <1>4
<1>7. \A e \in DOMAIN ds : /\ nd[e].date = ds[e].date
                          /\ nd[e].appointments = IF e = d THEN objs ELSE ds[e].appointments
  BY <1>1, <1>3, <1>5
<1> QED BY <1>5, <1>6, <1>7 DEF nd

\* getIndex is 0 or the least index whose appointment has the key asked for.
LEMMA GetIndexProperties ==
  ASSUME NEW objs \in Seq(Object), NEW apt
  PROVE  \/ /\ GetIndex(objs, apt) = 0
            /\ \A j \in DOMAIN objs : ~SameKey(objs[j].apt, apt)
         \/ /\ GetIndex(objs, apt) \in DOMAIN objs
            /\ SameKey(objs[GetIndex(objs, apt)].apt, apt)
            /\ \A j \in DOMAIN objs :
                 SameKey(objs[j].apt, apt) => GetIndex(objs, apt) <= j
<1> DEFINE I == {j \in DOMAIN objs : SameKey(objs[j].apt, apt)}
<1>1. I \in SUBSET Nat
  BY LenProperties
<1>2. GetIndex(objs, apt) = IF I = {} THEN 0 ELSE First(I)
  BY DEF GetIndex
<1>3. CASE I = {}
  BY <1>2, <1>3
<1>4. CASE I # {}
  <2>1. First(I) \in I /\ \A j \in I : First(I) <= j
    BY <1>1, <1>4, FirstIsLeast
  <2> QED BY <1>2, <1>4, <2>1
<1> QED BY <1>3, <1>4

-----------------------------------------------------------------------------
\* The invariants of the vector of days, of any vector ds and any next address n.

UniqueDates(ds) == \A d, e \in DOMAIN ds : ds[d].date = ds[e].date => d = e

Filed(ds) ==
  \A d \in DOMAIN ds : \A i \in DOMAIN ds[d].appointments :
    ds[d].appointments[i].apt.date = ds[d].date

Increasing(objs) == \A i, j \in DOMAIN objs : i < j => objs[i].id < objs[j].id

Apart(ds) ==
  \A d, e \in DOMAIN ds : d # e =>
    \A i \in DOMAIN ds[d].appointments, j \in DOMAIN ds[e].appointments :
      ds[d].appointments[i].id # ds[e].appointments[j].id

\* Addresses still to be given out are given to nobody yet.
Below(objs, n) == \A i \in DOMAIN objs : objs[i].id < n

Good(ds, n) ==
  /\ ds \in Seq(Day)
  /\ UniqueDates(ds)
  /\ Filed(ds)
  /\ Apart(ds)
  /\ \A d \in DOMAIN ds : Increasing(ds[d].appointments) /\ Below(ds[d].appointments, n)

\* The parts of a day of the vector.
LEMMA DayType ==
  ASSUME NEW ds \in Seq(Day), NEW d \in DOMAIN ds
  PROVE  /\ ds[d] \in Day
         /\ ds[d].date \in Text
         /\ ds[d].appointments \in Seq(Object)
         /\ d \in Nat
<1>1. ds[d] \in Day /\ d \in Nat
  BY LenProperties, ElementOfSeq
<1> QED BY <1>1 DEF Day

\* The parts of an object of a day.
LEMMA ObjectType ==
  ASSUME NEW objs \in Seq(Object), NEW i \in DOMAIN objs
  PROVE  objs[i] \in Object /\ objs[i].id \in Nat /\ i \in Nat
<1>1. objs[i] \in Object /\ i \in Nat
  BY LenProperties, ElementOfSeq
<1> QED BY <1>1 DEF Object

\* The appointments of a good vector keep clear of the next address.
LEMMA OldIds ==
  ASSUME NEW ds, NEW n \in Nat, Good(ds, n), NEW e \in DOMAIN ds
  PROVE  /\ Increasing(ds[e].appointments)
         /\ Below(ds[e].appointments, n + 1)
         /\ \A i \in DOMAIN ds[e].appointments : ds[e].appointments[i].id # n
<1>1. ds[e].appointments \in Seq(Object)
  BY DayType DEF Good
<1>2. \A i \in DOMAIN ds[e].appointments :
        ds[e].appointments[i].id \in Nat /\ ds[e].appointments[i].id < n
  BY <1>1, ObjectType DEF Good, Below
<1> QED BY <1>2 DEF Good, Below

\* A new appointment goes to the end of its day: addresses still grow.
LEMMA AppendIncreasing ==
  ASSUME NEW objs \in Seq(Object), NEW n \in Nat, NEW o \in Object,
         Increasing(objs), Below(objs, n), o.id = n
  PROVE  /\ Append(objs, o) \in Seq(Object)
         /\ Increasing(Append(objs, o))
         /\ Below(Append(objs, o), n + 1)
         /\ \A i \in DOMAIN Append(objs, o) :
              Append(objs, o)[i] = o \/ (i \in DOMAIN objs /\ Append(objs, o)[i] = objs[i])
<1> DEFINE new == Append(objs, o)
<1>1. /\ new \in Seq(Object)
      /\ Len(new) = Len(objs) + 1
      /\ \A i \in 1 .. Len(objs) : new[i] = objs[i]
      /\ new[Len(objs) + 1] = o
  BY AppendProperties
<1>2. /\ DOMAIN objs = 1 .. Len(objs)
      /\ Len(objs) \in Nat
      /\ DOMAIN new = 1 .. Len(objs) + 1
  BY <1>1, LenProperties
<1>3. \A i \in DOMAIN objs : objs[i].id \in Nat
  BY ObjectType
<1> HIDE DEF new
<1>4. \A i \in DOMAIN new : new[i] = o \/ (i \in DOMAIN objs /\ new[i] = objs[i])
  BY <1>1, <1>2
<1>5. Increasing(new)
  BY <1>1, <1>2, <1>3 DEF Increasing, Below
<1>6. Below(new, n + 1)
  BY <1>3, <1>4 DEF Below
<1> QED BY <1>1, <1>4, <1>5, <1>6 DEF new

\* addAppointment keeps the vector of days good, and uses up one address.
LEMMA InsertGood ==
  ASSUME NEW ds, NEW n \in Nat, Good(ds, n), NEW b \in Appointment
  PROVE  Good(Insert(ds, [id |-> n, apt |-> b]), n + 1)
<1> DEFINE o  == [id |-> n, apt |-> b]
           D  == DaysOf(ds, b.date)
           nd == Insert(ds, o)
<1>0. /\ o \in Object /\ o.id = n /\ o.apt = b
      /\ ds \in Seq(Day)
      /\ DOMAIN ds = 1 .. Len(ds) /\ Len(ds) \in Nat
      /\ D \in SUBSET Nat
  BY LenProperties DEF Object, Good, DaysOf
<1>1. CASE D = {}
  <2> DEFINE day == [date |-> b.date, appointments |-> <<o>>]
  <2>1. nd = Append(ds, day)
    BY <1>0, <1>1 DEF Insert
  <2>2. /\ day \in Day
        /\ day.date = b.date
        /\ day.appointments = <<o>>
        /\ DOMAIN day.appointments = {1}
        /\ day.appointments[1] = o
    BY <1>0 DEF Day, Appointment
  <2> HIDE DEF day
  <2>3. /\ nd \in Seq(Day)
        /\ DOMAIN nd = 1 .. Len(ds) + 1
        /\ \A e \in DOMAIN ds : nd[e] = ds[e]
        /\ nd[Len(ds) + 1] = day
    <3>1. /\ Append(ds, day) \in Seq(Day)
          /\ Len(Append(ds, day)) = Len(ds) + 1
          /\ \A e \in 1 .. Len(ds) : Append(ds, day)[e] = ds[e]
          /\ Append(ds, day)[Len(ds) + 1] = day
      BY ONLY <1>0, <2>2, AppendProperties
    <3> QED BY <1>0, <2>1, <3>1, LenProperties
  <2> HIDE DEF nd
  <2>4. \A e \in DOMAIN nd : e \in DOMAIN ds \/ e = Len(ds) + 1
    BY <1>0, <2>3
  <2>5. \A e \in DOMAIN ds : ds[e].date # b.date
    BY <1>1 DEF DaysOf
  <2>6. UniqueDates(nd)
    BY <2>2, <2>3, <2>4, <2>5 DEF Good, UniqueDates
  <2>7. Filed(nd)
    BY <1>0, <2>2, <2>3, <2>4 DEF Good, Filed
  <2>8. \A e \in DOMAIN nd : Increasing(nd[e].appointments) /\ Below(nd[e].appointments, n + 1)
    <3>1. Increasing(day.appointments) /\ Below(day.appointments, n + 1)
      BY <1>0, <2>2 DEF Increasing, Below
    <3>2. ASSUME NEW e \in DOMAIN ds
          PROVE  Increasing(ds[e].appointments) /\ Below(ds[e].appointments, n + 1)
      BY OldIds
    <3> QED BY <2>3, <2>4, <3>1, <3>2
  <2>9. Apart(nd)
    <3>1. \A e \in DOMAIN ds : \A i \in DOMAIN ds[e].appointments :
            ds[e].appointments[i].id # n
      BY OldIds
    <3>2. \A i \in DOMAIN nd[Len(ds) + 1].appointments :
            nd[Len(ds) + 1].appointments[i].id = n
      BY <1>0, <2>2, <2>3
    <3> QED BY <2>3, <2>4, <3>1, <3>2 DEF Good, Apart
  <2> QED BY <2>3, <2>6, <2>7, <2>8, <2>9 DEF Good, nd
<1>2. CASE D # {}
  <2> DEFINE d    == First(D)
             objs == ds[d].appointments
             new  == Append(objs, o)
  <2>1. d \in DOMAIN ds /\ ds[d].date = b.date
    BY <1>0, <1>2, FirstIsLeast DEF DaysOf
  <2>2. nd = WithAppointments(ds, d, new)
    BY <1>0, <1>2 DEF Insert
  <2> HIDE DEF d, nd
  <2>3. objs \in Seq(Object) /\ Increasing(objs) /\ Below(objs, n)
    BY <1>0, <2>1, DayType DEF Good
  <2>4. /\ new \in Seq(Object)
        /\ Increasing(new)
        /\ Below(new, n + 1)
        /\ \A i \in DOMAIN new : new[i] = o \/ (i \in DOMAIN objs /\ new[i] = objs[i])
    BY <1>0, <2>3, AppendIncreasing
  <2> HIDE DEF new
  <2>5. /\ nd \in Seq(Day)
        /\ DOMAIN nd = DOMAIN ds
        /\ \A e \in DOMAIN ds : nd[e].date = ds[e].date
        /\ \A e \in DOMAIN ds :
             nd[e].appointments = IF e = d THEN new ELSE ds[e].appointments
    <3>1. ds \in Seq(Day) /\ d \in DOMAIN ds /\ new \in Seq(Object)
      BY <1>0, <2>1, <2>4
    <3>2. /\ WithAppointments(ds, d, new) \in Seq(Day)
          /\ DOMAIN WithAppointments(ds, d, new) = DOMAIN ds
          /\ \A e \in DOMAIN ds :
               /\ WithAppointments(ds, d, new)[e].date = ds[e].date
               /\ WithAppointments(ds, d, new)[e].appointments =
                    IF e = d THEN new ELSE ds[e].appointments
      BY ONLY <3>1, UpdateDay
    <3> QED BY ONLY <2>2, <3>2
  <2>6. UniqueDates(nd)
    BY <2>5 DEF Good, UniqueDates
  <2>7. Filed(nd)
    BY <1>0, <2>1, <2>4, <2>5 DEF Good, Filed
  <2>8. \A e \in DOMAIN nd : Increasing(nd[e].appointments) /\ Below(nd[e].appointments, n + 1)
    <3>1. ASSUME NEW e \in DOMAIN ds
          PROVE  Increasing(ds[e].appointments) /\ Below(ds[e].appointments, n + 1)
      BY OldIds
    <3> QED BY <2>4, <2>5, <3>1
  <2>9. Apart(nd)
    <3>1. \A e \in DOMAIN ds : \A i \in DOMAIN ds[e].appointments :
            ds[e].appointments[i].id # n
      BY OldIds
    <3>2. \A i \in DOMAIN new : new[i].id = n \/ (i \in DOMAIN objs /\ new[i].id = objs[i].id)
      BY <1>0, <2>4
    <3> QED BY <2>1, <2>5, <3>1, <3>2 DEF Good, Apart
  <2> QED BY <2>5, <2>6, <2>7, <2>8, <2>9 DEF Good, nd
<1> QED BY <1>1, <1>2

\* Removing an element keeps the order of the rest and drops only that element.
LEMMA DeleteAtProperties ==
  ASSUME NEW objs \in Seq(Object), NEW k \in Nat, NEW n \in Nat,
         Increasing(objs), Below(objs, n)
  PROVE  /\ DeleteAt(objs, k) \in Seq(Object)
         /\ Increasing(DeleteAt(objs, k))
         /\ Below(DeleteAt(objs, k), n)
         /\ \A i \in DOMAIN DeleteAt(objs, k) :
              \E j \in DOMAIN objs : DeleteAt(objs, k)[i] = objs[j]
         /\ \A j \in DOMAIN objs :
              j # k => objs[j] \in ToSet(DeleteAt(objs, k))
<1> DEFINE new == DeleteAt(objs, k)
<1>0. DOMAIN objs = 1 .. Len(objs) /\ Len(objs) \in Nat
  BY LenProperties
<1>1. CASE k \notin DOMAIN objs
  BY <1>0, <1>1 DEF DeleteAt, ToSet
<1>2. CASE k \in DOMAIN objs
  <2>1. /\ new \in Seq(Object)
        /\ Len(new) = Len(objs) - 1
        /\ \A i \in 1 .. Len(objs) - 1 : new[i] = IF i < k THEN objs[i] ELSE objs[i + 1]
    BY <1>0, <1>2, RemoveAtProperties DEF DeleteAt
  <2>2. DOMAIN new = 1 .. Len(objs) - 1
    BY <1>0, <1>2, <2>1, LenProperties
  <2> HIDE DEF new
  <2>3. \A i \in DOMAIN objs : objs[i].id \in Nat
    BY ObjectType
  <2>4. Increasing(new)
    <3> DEFINE old(i) == IF i < k THEN i ELSE i + 1
    <3>1. \A i \in DOMAIN new : old(i) \in DOMAIN objs /\ new[i] = objs[old(i)]
      BY <1>0, <1>2, <2>1, <2>2
    <3>2. \A i, j \in DOMAIN new : i < j => old(i) < old(j)
      BY <1>0, <1>2, <2>2
    <3> HIDE DEF old
    <3> QED BY <3>1, <3>2 DEF Increasing
  <2>5. \A i \in DOMAIN new : \E j \in DOMAIN objs : new[i] = objs[j]
    BY <1>0, <1>2, <2>1, <2>2
  <2>6. Below(new, n)
    BY <2>5 DEF Below
  <2>7. ASSUME NEW j \in DOMAIN objs, j # k
        PROVE  objs[j] \in ToSet(new)
    <3>1. CASE j < k
      <4>1. j \in DOMAIN new /\ new[j] = objs[j]
        BY <1>0, <1>2, <2>1, <2>2, <3>1
      <4> QED BY <4>1 DEF ToSet
    <3>2. CASE k < j
      <4>1. j - 1 \in DOMAIN new /\ new[j - 1] = objs[j]
        BY <1>0, <1>2, <2>1, <2>2, <3>2
      <4> QED BY <4>1 DEF ToSet
    <3> QED BY <1>0, <2>7, <3>1, <3>2
  <2> QED BY <2>1, <2>4, <2>5, <2>6, <2>7 DEF new
<1> QED BY <1>1, <1>2

\* A good vector with fewer appointments in a day.
LEMMA FewerGood ==
  ASSUME NEW ds, NEW n, Good(ds, n), NEW d \in DOMAIN ds, NEW new \in Seq(Object),
         Increasing(new), Below(new, n),
         \A i \in DOMAIN new : \E j \in DOMAIN ds[d].appointments :
           new[i] = ds[d].appointments[j]
  PROVE  Good(WithAppointments(ds, d, new), n)
<1> DEFINE objs == ds[d].appointments
           nd   == WithAppointments(ds, d, new)
<1>1. ds \in Seq(Day) /\ objs \in Seq(Object)
  BY DayType DEF Good
<1>2. \A i \in DOMAIN new : \E j \in DOMAIN objs : new[i] = objs[j]
  OBVIOUS
<1>3. /\ nd \in Seq(Day)
      /\ DOMAIN nd = DOMAIN ds
      /\ \A e \in DOMAIN ds : /\ nd[e].date = ds[e].date
                              /\ nd[e].appointments = IF e = d THEN new ELSE ds[e].appointments
  BY <1>1, <1>2, UpdateDay
<1> HIDE DEF nd
<1>4. UniqueDates(nd)
  BY <1>3 DEF Good, UniqueDates
<1>5. Filed(nd)
  BY <1>2, <1>3 DEF Good, Filed
<1>6. Apart(nd)
  BY <1>2, <1>3 DEF Good, Apart
<1>7. \A e \in DOMAIN nd : Increasing(nd[e].appointments) /\ Below(nd[e].appointments, n)
  BY <1>2, <1>3 DEF Good
<1> QED BY <1>3, <1>4, <1>5, <1>6, <1>7 DEF Good, nd

\* So does a delete of one object of one day.
LEMMA DeleteGood ==
  ASSUME NEW ds, NEW n \in Nat, Good(ds, n), NEW d \in DOMAIN ds, NEW k \in Nat
  PROVE  Good(WithAppointments(ds, d, DeleteAt(ds[d].appointments, k)), n)
<1> DEFINE objs == ds[d].appointments
           new  == DeleteAt(objs, k)
<1>1. ds \in Seq(Day) /\ objs \in Seq(Object) /\ Increasing(objs) /\ Below(objs, n)
  BY DayType DEF Good
<1>2. /\ new \in Seq(Object)
      /\ Increasing(new)
      /\ Below(new, n)
      /\ \A i \in DOMAIN new : \E j \in DOMAIN objs : new[i] = objs[j]
  BY <1>1, DeleteAtProperties
<1> HIDE DEF new
<1> QED BY <1>2, FewerGood DEF new

\* The argument for the delete loop: the result visited is the least address left
\* to visit, and what is freed for it, the first appointment with its key, is at
\* no greater address; so nothing still to be visited is freed.
LEMMA LoopStep ==
  ASSUME NEW objs \in Seq(Object), Increasing(objs),
         NEW todo \in SUBSET ToSet(objs), NEW o \in todo,
         \A p \in todo : o.id <= p.id
  PROVE  todo \ {o} \subseteq ToSet(DeleteAt(objs, GetIndex(objs, o.apt)))
<1> DEFINE k == GetIndex(objs, o.apt)
<1>1. PICK i \in DOMAIN objs : objs[i] = o
  BY DEF ToSet
<1>2. SameKey(objs[i].apt, o.apt)
  BY <1>1 DEF SameKey
<1>3. k \in DOMAIN objs /\ k <= i
  BY <1>2, GetIndexProperties
<1> HIDE DEF k
<1>4. SUFFICES ASSUME NEW p \in todo, p # o
               PROVE  p \in ToSet(DeleteAt(objs, k))
  BY DEF k
<1>5. PICK j \in DOMAIN objs : objs[j] = p
  BY DEF ToSet
<1>6. j # k
  <2>1. i \in Nat /\ j \in Nat /\ k \in Nat /\ o.id \in Nat /\ p.id \in Nat
    BY <1>1, <1>3, <1>5, ObjectType
  <2>2. o.id <= p.id
    OBVIOUS
  <2>3. CASE j < i
    BY <1>1, <1>5, <2>1, <2>2, <2>3 DEF Increasing
  <2>4. CASE i < j
    BY <1>3, <2>1, <2>4
  <2> QED BY <1>1, <1>4, <1>5, <2>1, <2>3, <2>4
<1>7. \E n \in Nat : Below(objs, n)
  <2>1. Len(objs) \in Nat /\ DOMAIN objs = 1 .. Len(objs)
    BY LenProperties
  <2>2. i \in 1 .. Len(objs) /\ Len(objs) \in DOMAIN objs
    BY <2>1
  <2> DEFINE n == objs[Len(objs)].id + 1
  <2>3. n \in Nat
    BY <2>2, ObjectType
  <2>4. ASSUME NEW m \in DOMAIN objs
        PROVE  objs[m].id < n
    <3>1. objs[m].id \in Nat /\ objs[Len(objs)].id \in Nat
      BY <2>2, ObjectType
    <3>2. m = Len(objs) \/ objs[m].id < objs[Len(objs)].id
      BY <2>1, <2>2 DEF Increasing
    <3> QED BY <3>1, <3>2
  <2> QED BY <2>3, <2>4 DEF Below
<1>8. k \in Nat
  BY <1>3, ObjectType
<1> QED BY <1>5, <1>6, <1>7, <1>8, DeleteAtProperties

\* A line is made of a booking, and a booking of a line.
LEMMA LineTypes ==
  /\ \A apt \in Appointment : FileLine(apt) \in Line
  /\ \A l \in Line : ParseLine(l) \in Appointment
BY DEF FileLine, ParseLine, Line, Appointment

\* A delete walks over objects of its day only.
LEMMA SelectedFromDay ==
  ASSUME NEW objs \in Seq(Object), NEW time, NEW contactee
  PROVE  /\ Selected(objs, time, contactee) \subseteq ToSet(objs)
         /\ ToSet(objs) \subseteq Object
<1>1. ToSet(objs) \subseteq Object
  BY ObjectType DEF ToSet
<1> QED BY <1>1 DEF Selected, DaySearch

-----------------------------------------------------------------------------
\* Joining sequences.

\* What FlattenSeq has joined after each of the first N sequences.
IsFlat(f, ss, N) ==
  f = [i \in 1 .. N |-> IF i = 1 THEN ss[i] ELSE f[i - 1] \o ss[i]]

\* There is such a function for any sequences.
LEMMA FlatExists ==
  ASSUME NEW ss, NEW N \in Nat
  PROVE  \E f : IsFlat(f, ss, N)
<1> DEFINE Bad == {M \in Nat : ~ \E f : IsFlat(f, ss, M)}
<1>1. SUFFICES ASSUME Bad # {} PROVE FALSE
  OBVIOUS
<1>2. Bad \in SUBSET Nat /\ \A M \in Nat : M \notin Bad => \E f : IsFlat(f, ss, M)
  OBVIOUS
<1>3. PICK M \in Bad : \A j \in Bad : M <= j
  <2> HIDE DEF Bad
  <2> QED BY <1>1, <1>2, LeastNat
<1>4. CASE M = 0
  <2>1. IsFlat([i \in 1 .. 0 |-> <<>>], ss, 0)
    BY DEF IsFlat
  <2> QED BY <1>3, <1>4, <2>1
<1>5. CASE M # 0
  <2>1. M \in Nat /\ M - 1 \in Nat /\ M - 1 \notin Bad
    <3> HIDE DEF Bad
    <3> QED BY <1>2, <1>3, <1>5
  <2>2. PICK f : IsFlat(f, ss, M - 1)
    BY <1>2, <2>1
  <2> DEFINE last == IF M = 1 THEN ss[M] ELSE f[M - 1] \o ss[M]
             g    == [i \in 1 .. M |-> IF i = M THEN last ELSE f[i]]
  <2>3. \A i \in 1 .. M - 1 : f[i] = IF i = 1 THEN ss[i] ELSE f[i - 1] \o ss[i]
    BY <2>2 DEF IsFlat
  <2>4. ASSUME NEW i \in 1 .. M
        PROVE  g[i] = IF i = 1 THEN ss[i] ELSE g[i - 1] \o ss[i]
    <3>1. i # 1 => g[i - 1] = f[i - 1]
      BY <2>1
    <3>2. CASE i = M
      BY <2>1, <3>1, <3>2
    <3>3. CASE i # M
      <4>1. i \in 1 .. M - 1 /\ g[i] = f[i]
        BY <2>1, <3>3
      <4> QED BY <2>3, <3>1, <4>1
    <3> QED BY <3>2, <3>3
  <2>5. g = [i \in 1 .. M |-> g[i]]
    OBVIOUS
  <2> HIDE DEF g
  <2>6. IsFlat(g, ss, M)
    BY <2>4, <2>5 DEF IsFlat
  <2> QED BY <1>3, <2>6
<1> QED BY <1>4, <1>5

\* Two such functions agree as far as their sequences do.
LEMMA FlatAgree ==
  ASSUME NEW f, NEW g, NEW ss, NEW tt, NEW N \in Nat, NEW M \in Nat, N <= M,
         IsFlat(f, ss, N), IsFlat(g, tt, M), \A i \in 1 .. N : ss[i] = tt[i]
  PROVE  \A i \in 1 .. N : f[i] = g[i]
<1> DEFINE Bad == {i \in 1 .. N : f[i] # g[i]}
<1>1. SUFFICES ASSUME Bad # {} PROVE FALSE
  OBVIOUS
<1>2. Bad \in SUBSET Nat /\ \A i \in 1 .. N : i \notin Bad => f[i] = g[i]
  OBVIOUS
<1>3. PICK n \in Bad : \A j \in Bad : n <= j
  <2> HIDE DEF Bad
  <2> QED BY <1>1, <1>2, LeastNat
<1>4. n \in 1 .. N /\ n \in 1 .. M /\ f[n] # g[n]
  BY <1>3
<1>5. /\ f[n] = IF n = 1 THEN ss[n] ELSE f[n - 1] \o ss[n]
      /\ g[n] = IF n = 1 THEN tt[n] ELSE g[n - 1] \o tt[n]
  BY <1>4 DEF IsFlat
<1>6. n # 1 => f[n - 1] = g[n - 1]
  <2> HIDE DEF Bad
  <2> QED BY <1>2, <1>3, <1>4
<1> QED BY <1>4, <1>5, <1>6

\* FlattenSeq is the value of such a function.
LEMMA FlattenIs ==
  ASSUME NEW ss, Len(ss) \in Nat, Len(ss) # 0
  PROVE  \E f : IsFlat(f, ss, Len(ss)) /\ FlattenSeq(ss) = f[Len(ss)]
<1> DEFINE f == CHOOSE f : IsFlat(f, ss, Len(ss))
<1>1. IsFlat(f, ss, Len(ss))
  BY FlatExists
<1>2. FlattenSeq(ss) = f[Len(ss)]
  BY DEF FlattenSeq, IsFlat
<1> QED BY <1>1, <1>2

\* What two sequences hold, one after the other.
LEMMA ConcatSet ==
  ASSUME NEW S, NEW s \in Seq(S), NEW t \in Seq(S)
  PROVE  s \o t \in Seq(S) /\ ToSet(s \o t) = ToSet(s) \cup ToSet(t)
<1>1. /\ Len(s) \in Nat /\ DOMAIN s = 1 .. Len(s) /\ Len(t) \in Nat /\ DOMAIN t = 1 .. Len(t)
  BY LenProperties
<1>2. /\ s \o t \in Seq(S)
      /\ DOMAIN (s \o t) = 1 .. Len(s) + Len(t)
      /\ \A i \in 1 .. Len(s) + Len(t) :
           (s \o t)[i] = IF i <= Len(s) THEN s[i] ELSE t[i - Len(s)]
  BY ConcatProperties, LenProperties
<1> DEFINE st == s \o t
<1> HIDE DEF st
<1>3. ASSUME NEW i \in DOMAIN s
      PROVE  i \in DOMAIN st /\ st[i] = s[i]
  BY <1>1, <1>2 DEF st
<1>4. ASSUME NEW i \in DOMAIN t
      PROVE  Len(s) + i \in DOMAIN st /\ st[Len(s) + i] = t[i]
  BY <1>1, <1>2 DEF st
<1>5. ASSUME NEW i \in DOMAIN st
      PROVE  st[i] \in ToSet(s) \cup ToSet(t)
  <2>1. CASE i <= Len(s)
    BY <1>1, <1>2, <2>1 DEF st, ToSet
  <2>2. CASE ~(i <= Len(s))
    <3>1. i - Len(s) \in DOMAIN t /\ st[i] = t[i - Len(s)]
      BY <1>1, <1>2, <2>2 DEF st
    <3> QED BY <3>1 DEF ToSet
  <2> QED BY <2>1, <2>2
<1>6. ToSet(st) = ToSet(s) \cup ToSet(t)
  BY <1>3, <1>4, <1>5 DEF ToSet
<1> QED BY <1>2, <1>6 DEF st

\* The joined sequence has the elements of the sequences.
LEMMA FlattenProperties ==
  ASSUME NEW S, NEW ss, NEW N \in Nat, ss \in [1 .. N -> Seq(S)]
  PROVE  /\ FlattenSeq(ss) \in Seq(S)
         /\ ToSet(FlattenSeq(ss)) = UNION {ToSet(ss[i]) : i \in 1 .. N}
<1>1. ss \in Seq(Seq(S)) /\ Len(ss) = N /\ \A i \in 1 .. N : ss[i] \in Seq(S)
  BY SeqDef, LenProperties
<1>2. CASE N = 0
  <2>1. FlattenSeq(ss) = ss /\ ss = <<>>
    BY <1>1, <1>2, EmptySeq DEF FlattenSeq
  <2> QED BY <1>2, <2>1, EmptySeq DEF ToSet
<1>3. CASE N # 0
  <2>1. PICK f : IsFlat(f, ss, N) /\ FlattenSeq(ss) = f[N]
    BY <1>1, <1>3, FlattenIs
  <2> DEFINE Holds(i) == f[i] \in Seq(S) /\ ToSet(f[i]) = UNION {ToSet(ss[j]) : j \in 1 .. i}
             Bad == {i \in 1 .. N : ~Holds(i)}
  <2>2. ASSUME NEW n \in 1 .. N, n # 1 => Holds(n - 1)
        PROVE  Holds(n)
    <3>1. f[n] = IF n = 1 THEN ss[n] ELSE f[n - 1] \o ss[n]
      BY <2>1 DEF IsFlat
    <3>2. CASE n = 1
      BY <1>1, <3>1, <3>2
    <3>3. CASE n # 1
      <4>1. f[n - 1] \in Seq(S) /\ ss[n] \in Seq(S) /\ f[n] = f[n - 1] \o ss[n]
        BY <1>1, <2>2, <3>1, <3>3
      <4>2. f[n] \in Seq(S) /\ ToSet(f[n]) = ToSet(f[n - 1]) \cup ToSet(ss[n])
        BY <4>1, ConcatSet
      <4>3. UNION {ToSet(ss[j]) : j \in 1 .. n} =
              (UNION {ToSet(ss[j]) : j \in 1 .. n - 1}) \cup ToSet(ss[n])
        <5>1. 1 .. n = 1 .. n - 1 \cup {n}
          BY <3>3
        <5> QED BY <5>1, Zenon
      <4> QED BY <2>2, <3>3, <4>2, <4>3
    <3> QED BY <3>2, <3>3
  <2>3. Bad \in SUBSET Nat /\ \A i \in 1 .. N : i \notin Bad => Holds(i)
    OBVIOUS
  <2>4. Bad \subseteq 1 .. N /\ \A i \in Bad : ~Holds(i)
    OBVIOUS
  <2> HIDE DEF Holds, Bad
  <2>5. Bad = {}
    <3>1. SUFFICES ASSUME Bad # {} PROVE FALSE
      OBVIOUS
    <3>2. PICK n \in Bad : \A j \in Bad : n <= j
      BY <2>3, <3>1, LeastNat
    <3>3. n \in 1 .. N /\ ~Holds(n)
      BY <2>4, <3>2
    <3>4. n # 1 => n - 1 \in 1 .. N /\ n - 1 \notin Bad
      BY <2>4, <3>2, <3>3
    <3> QED BY <2>2, <2>3, <3>3, <3>4
  <2>6. Holds(N)
    BY <1>3, <2>3, <2>5
  <2> QED BY <2>1, <2>6 DEF Holds
<1> QED BY <1>2, <1>3

\* What a search finds are appointments of the days.
LEMMA SearchFindsBookings ==
  ASSUME NEW ds \in Seq(Day), NEW k
  PROVE  /\ DbSearch(ds, k) \in Seq(Object)
         /\ ToSet(DbSearch(ds, k)) \subseteq UNION {ToSet(ds[d].appointments) : d \in DOMAIN ds}
<1> DEFINE N    == Len(ds)
           day  == [d \in DOMAIN ds |-> ds[d].appointments]
           all  == FlattenSeq(day)
           same == [d \in DOMAIN ds |-> IF ds[d].date = k THEN ds[d].appointments ELSE <<>>]
           some == [i \in DOMAIN all |-> IF Matches(all[i].apt, k) THEN <<all[i]>> ELSE <<>>]
           Live == UNION {ToSet(ds[d].appointments) : d \in DOMAIN ds}
<1>1. N \in Nat /\ DOMAIN ds = 1 .. N /\ \A d \in 1 .. N : ds[d].appointments \in Seq(Object)
  BY LenProperties, DayType
<1>2. <<>> \in Seq(Object) /\ ToSet(<<>>) = {}
  BY EmptySeq DEF ToSet
<1>3. all \in Seq(Object) /\ ToSet(all) = Live
  <2>1. day \in [1 .. N -> Seq(Object)]
    BY <1>1
  <2>2. {ToSet(day[i]) : i \in 1 .. N} = {ToSet(ds[d].appointments) : d \in DOMAIN ds}
    BY <1>1
  <2> HIDE DEF day
  <2> QED BY <1>1, <2>1, <2>2, FlattenProperties
<1>4. FlattenSeq(same) \in Seq(Object) /\ ToSet(FlattenSeq(same)) \subseteq Live
  <2>1. /\ same \in [1 .. N -> Seq(Object)]
        /\ \A i \in 1 .. N : ToSet(same[i]) \subseteq ToSet(ds[i].appointments)
    BY <1>1, <1>2
  <2> HIDE DEF same
  <2>2. /\ FlattenSeq(same) \in Seq(Object)
        /\ ToSet(FlattenSeq(same)) = UNION {ToSet(same[i]) : i \in 1 .. N}
    BY <1>1, <2>1, FlattenProperties
  <2> QED BY <1>1, <2>1, <2>2
<1> HIDE DEF all
<1>5. FlattenSeq(some) \in Seq(Object) /\ ToSet(FlattenSeq(some)) \subseteq ToSet(all)
  <2>1. Len(all) \in Nat /\ DOMAIN all = 1 .. Len(all)
    BY <1>3, LenProperties
  <2>2. ASSUME NEW i \in 1 .. Len(all)
        PROVE  <<all[i]>> \in Seq(Object) /\ ToSet(<<all[i]>>) \subseteq ToSet(all)
    <3>1. all[i] \in Object
      BY <1>3, <2>1, ObjectType
    <3>2. <<all[i]>> \in Seq(Object) /\ ToSet(<<all[i]>>) = {all[i]}
      BY <3>1 DEF ToSet
    <3> QED BY <2>1, <3>2 DEF ToSet
  <2>3. /\ some \in [1 .. Len(all) -> Seq(Object)]
        /\ \A i \in 1 .. Len(all) : ToSet(some[i]) \subseteq ToSet(all)
    BY <1>2, <2>1, <2>2
  <2> HIDE DEF some
  <2>4. /\ FlattenSeq(some) \in Seq(Object)
        /\ ToSet(FlattenSeq(some)) = UNION {ToSet(some[i]) : i \in 1 .. Len(all)}
    BY <2>1, <2>3, FlattenProperties
  <2> QED BY <2>3, <2>4
<1>6. DbSearch(ds, k) \in {all, FlattenSeq(same), FlattenSeq(some)}
  <2>1. CASE k = Empty
    BY <2>1, TextAssumption DEF DbSearch, all
  <2>2. CASE k \in Slashed \ {Empty}
    BY <2>2 DEF DbSearch
  <2>3. CASE k # Empty /\ k \notin Slashed \ {Empty}
    BY <2>3 DEF DbSearch, all
  <2> QED BY <2>1, <2>2, <2>3
<1> HIDE DEF same, some, Live
<1> QED BY <1>3, <1>4, <1>5, <1>6 DEF Live

-----------------------------------------------------------------------------
\* Induction, on the set of the numbers that have the property.
LEMMA Induct ==
  ASSUME NEW N \in Nat, NEW P, 0 \in P, \A n \in 0 .. N - 1 : n \in P => n + 1 \in P
  PROVE  \A n \in 0 .. N : n \in P
<1> DEFINE Bad == {n \in 0 .. N : n \notin P}
<1>1. SUFFICES ASSUME Bad # {} PROVE FALSE
  OBVIOUS
<1>2. PICK n \in Bad : \A j \in Bad : n <= j
  <2>1. Bad \in SUBSET Nat
    OBVIOUS
  <2> HIDE DEF Bad
  <2> QED BY <1>1, <2>1, LeastNat
<1>3. n \in 0 .. N /\ n \notin P /\ n # 0
  BY <1>2
<1>4. n - 1 \in 0 .. N - 1 /\ n - 1 \notin Bad
  BY <1>2, <1>3
<1>5. n - 1 \in P
  BY <1>4
<1>6. n - 1 + 1 = n
  BY <1>3
<1> QED BY <1>3, <1>4, <1>5, <1>6

\* A beginning of a sequence, and the next longer one.
LEMMA FrontProperties ==
  ASSUME NEW S, NEW s \in Seq(S), NEW n \in 0 .. Len(s)
  PROVE  /\ SubSeq(s, 1, n) \in Seq(S) /\ Len(SubSeq(s, 1, n)) = n
         /\ DOMAIN SubSeq(s, 1, n) = 1 .. n
         /\ \A i \in 1 .. n : i \in DOMAIN s /\ SubSeq(s, 1, n)[i] = s[i]
         /\ n = Len(s) => SubSeq(s, 1, n) = s
         /\ n = 0 => SubSeq(s, 1, n) = <<>>
         /\ n < Len(s) => /\ s[n + 1] \in S
                          /\ SubSeq(s, 1, n + 1) = Append(SubSeq(s, 1, n), s[n + 1])
<1>1. Len(s) \in Nat /\ DOMAIN s = 1 .. Len(s) /\ \A i \in 1 .. Len(s) : s[i] \in S
  BY LenProperties, ElementOfSeq
<1>2. \A k \in 0 .. Len(s) :
        /\ SubSeq(s, 1, k) \in Seq(S) /\ Len(SubSeq(s, 1, k)) = k
        /\ \A i \in 1 .. k : SubSeq(s, 1, k)[i] = s[i]
  <2> SUFFICES ASSUME NEW k \in 0 .. Len(s)
               PROVE  /\ SubSeq(s, 1, k) \in Seq(S) /\ Len(SubSeq(s, 1, k)) = k
                      /\ \A i \in 1 .. k : SubSeq(s, 1, k)[i] = s[i]
    OBVIOUS
  <2>1. k \in Int /\ 1 \in Int /\ \A i \in 1 .. k : s[i] \in S
    BY <1>1
  <2>2. /\ SubSeq(s, 1, k) \in Seq(S) /\ Len(SubSeq(s, 1, k)) = IF 1 <= k THEN k - 1 + 1 ELSE 0
        /\ \A i \in 1 .. k - 1 + 1 : SubSeq(s, 1, k)[i] = s[1 + i - 1]
    BY <2>1, SubSeqProperties
  <2> QED BY <1>1, <2>2
<1>3. DOMAIN SubSeq(s, 1, n) = 1 .. n
  BY <1>2, LenProperties
<1>4. n = 0 => SubSeq(s, 1, n) = <<>>
  BY <1>2, EmptySeq
<1>5. ASSUME n < Len(s)
      PROVE  SubSeq(s, 1, n + 1) = Append(SubSeq(s, 1, n), s[n + 1])
  <2>1. n + 1 \in 0 .. Len(s) /\ s[n + 1] \in S
    BY <1>1, <1>5
  <2> DEFINE short == SubSeq(s, 1, n)
             long  == SubSeq(s, 1, n + 1)
             app   == Append(short, s[n + 1])
  <2>2. /\ short \in Seq(S) /\ Len(short) = n /\ \A i \in 1 .. n : short[i] = s[i]
        /\ long \in Seq(S) /\ Len(long) = n + 1 /\ \A i \in 1 .. n + 1 : long[i] = s[i]
    BY <1>2, <2>1
  <2> HIDE DEF short, long
  <2>3. /\ app \in Seq(S) /\ Len(app) = n + 1
        /\ \A i \in 1 .. n : app[i] = s[i]
        /\ app[n + 1] = s[n + 1]
    BY <2>1, <2>2, AppendProperties
  <2> HIDE DEF app
  <2>4. \A i \in 1 .. n + 1 : app[i] = long[i]
    BY <1>1, <2>2, <2>3
  <2> QED BY <2>2, <2>3, <2>4, SeqEqual DEF app, short, long
<1>6. n = Len(s) => SubSeq(s, 1, n) = s
  BY SubSeqFull
<1>7. n < Len(s) => s[n + 1] \in S
  BY <1>1
<1>8. /\ SubSeq(s, 1, n) \in Seq(S) /\ Len(SubSeq(s, 1, n)) = n
      /\ \A i \in 1 .. n : SubSeq(s, 1, n)[i] = s[i]
  BY <1>2
<1>9. \A i \in 1 .. n : i \in DOMAIN s
  BY <1>1
<1> QED BY <1>3, <1>4, <1>5, <1>6, <1>7, <1>8, <1>9

\* IsPrefix compares the elements.
LEMMA PrefixIs ==
  ASSUME NEW S, NEW s \in Seq(S), NEW t \in Seq(S)
  PROVE  IsPrefix(s, t) <=> Len(s) <= Len(t) /\ \A i \in 1 .. Len(s) : s[i] = t[i]
<1>1. Len(s) \in Nat /\ Len(t) \in Nat /\ Len(s) \in 0 .. Len(s)
  BY LenProperties
<1>2. SubSeq(s, 1, Len(s)) = s
  BY <1>1, FrontProperties
<1>3. CASE Len(s) <= Len(t)
  <2>1. Len(s) \in 0 .. Len(t)
    BY <1>1, <1>3
  <2> DEFINE u == SubSeq(t, 1, Len(s))
  <2>2. u \in Seq(S) /\ Len(u) = Len(s) /\ \A i \in 1 .. Len(s) : u[i] = t[i]
    BY <2>1, FrontProperties
  <2>3. IsPrefix(s, t) <=> s = u
    BY <1>2, <1>3 DEF IsPrefix
  <2> HIDE DEF u
  <2>4. (\A i \in 1 .. Len(s) : s[i] = u[i]) => s = u
    BY <2>2, SeqEqual
  <2> QED BY <1>3, <2>2, <2>3, <2>4
<1>4. CASE ~(Len(s) <= Len(t))
  BY <1>4 DEF IsPrefix
<1> QED BY <1>3, <1>4

\* One sequence more to join.
LEMMA FlattenAppend ==
  ASSUME NEW S, NEW ss \in Seq(Seq(S)), NEW x \in Seq(S)
  PROVE  FlattenSeq(Append(ss, x)) = FlattenSeq(ss) \o x
<1> DEFINE N  == Len(ss)
           tt == Append(ss, x)
<1>1. /\ N \in Nat /\ Len(tt) = N + 1 /\ tt[N + 1] = x
      /\ \A i \in 1 .. N : tt[i] = ss[i]
  BY LenProperties, AppendProperties
<1> HIDE DEF tt
<1>2. PICK g : IsFlat(g, tt, N + 1) /\ FlattenSeq(tt) = g[N + 1]
  BY <1>1, FlattenIs
<1>3. g[N + 1] = IF N = 0 THEN x ELSE g[N] \o x
  <2> HIDE DEF N
  <2>0. \A i \in 1 .. N + 1 : g[i] = IF i = 1 THEN tt[i] ELSE g[i - 1] \o tt[i]
    BY <1>2 DEF IsFlat
  <2>1. g[N + 1] = IF N + 1 = 1 THEN tt[N + 1] ELSE g[N + 1 - 1] \o tt[N + 1]
    BY <1>1, <2>0
  <2>2. (N + 1 = 1 <=> N = 0) /\ N + 1 - 1 = N
    BY <1>1
  <2> QED BY <1>1, <2>1, <2>2
<1>4. CASE N = 0
  <2>1. FlattenSeq(ss) = ss /\ ss = <<>>
    BY <1>4, EmptySeq DEF FlattenSeq
  <2>2. FlattenSeq(tt) = x
    BY <1>2, <1>3, <1>4
  <2>3. <<>> \o x = x
    BY ConcatEmptySeq
  <2> QED BY <2>1, <2>2, <2>3 DEF tt
<1>5. CASE N # 0
  <2>1. PICK f : IsFlat(f, ss, N) /\ FlattenSeq(ss) = f[N]
    BY <1>1, <1>5, FlattenIs
  <2>2. \A i \in 1 .. N : f[i] = g[i]
    BY <1>1, <1>2, <2>1, FlatAgree
  <2>3. f[N] = g[N]
    BY <1>1, <1>5, <2>2
  <2>4. FlattenSeq(tt) = FlattenSeq(ss) \o x
    BY <1>2, <1>3, <1>5, <2>1, <2>3
  <2> QED BY <2>4 DEF tt
<1> QED BY <1>4, <1>5

-----------------------------------------------------------------------------
\* The lines of a vector of days, which are its file.

\* The lines of one day.
LinesOf(day) ==
  [i \in DOMAIN day.appointments |-> FileLine(day.appointments[i].apt)]

\* A day has one line for each of its objects.
LEMMA LinesOfType ==
  ASSUME NEW day \in Day
  PROVE  /\ LinesOf(day) \in Seq(Line)
         /\ Len(LinesOf(day)) = Len(day.appointments) /\ Len(day.appointments) \in Nat
         /\ DOMAIN LinesOf(day) = DOMAIN day.appointments
         /\ DOMAIN day.appointments = 1 .. Len(day.appointments)
<1>1. day.appointments \in Seq(Object)
  BY DEF Day
<1>2. /\ Len(day.appointments) \in Nat
      /\ DOMAIN day.appointments = 1 .. Len(day.appointments)
      /\ \A i \in DOMAIN day.appointments : day.appointments[i].apt \in Appointment
  BY <1>1, LenProperties, ObjectType DEF Object
<1>3. LinesOf(day) \in [1 .. Len(day.appointments) -> Line]
  BY <1>2, LineTypes DEF LinesOf
<1>4. LinesOf(day) \in Seq(Line)
  BY <1>2, <1>3, SeqDef
<1> QED BY <1>2, <1>3, <1>4, LenProperties

\* The file of no days, and of one day more.
LEMMA LinesAppend ==
  /\ Lines(<<>>) = <<>>
  /\ \A ds \in Seq(Day) : Lines(ds) \in Seq(Line)
  /\ \A ds \in Seq(Day), day \in Day : Lines(Append(ds, day)) = Lines(ds) \o LinesOf(day)
<1> DEFINE lines(ds) == [d \in DOMAIN ds |-> LinesOf(ds[d])]
<1>1. \A ds : Lines(ds) = FlattenSeq(lines(ds))
  BY DEF Lines, LinesOf
<1>2. ASSUME NEW ds \in Seq(Day)
      PROVE  /\ Len(ds) \in Nat /\ DOMAIN ds = 1 .. Len(ds)
             /\ lines(ds) \in [1 .. Len(ds) -> Seq(Line)]
             /\ lines(ds) \in Seq(Seq(Line)) /\ Len(lines(ds)) = Len(ds)
  <2>1. Len(ds) \in Nat /\ DOMAIN ds = 1 .. Len(ds)
    BY LenProperties
  <2>2. lines(ds) \in [1 .. Len(ds) -> Seq(Line)]
    BY <2>1, DayType, LinesOfType
  <2>3. lines(ds) \in Seq(Seq(Line))
    BY <2>1, <2>2, SeqDef
  <2> QED BY <2>1, <2>2, <2>3, LenProperties
<1>3. ASSUME NEW ds \in Seq(Day)
      PROVE  Lines(ds) \in Seq(Line)
  <2> DEFINE ss == lines(ds)
  <2>1. Lines(ds) = FlattenSeq(ss) /\ ss \in [1 .. Len(ds) -> Seq(Line)] /\ Len(ds) \in Nat
    BY <1>1, <1>2
  <2> HIDE DEF ss
  <2> QED BY <2>1, FlattenProperties
<1>4. ASSUME NEW ds \in Seq(Day), NEW day \in Day
      PROVE  Lines(Append(ds, day)) = Lines(ds) \o LinesOf(day)
  <2> DEFINE more == Append(ds, day)
             ss   == lines(ds)
             tt   == lines(more)
             x    == LinesOf(day)
  <2>1. /\ more \in Seq(Day) /\ Len(more) = Len(ds) + 1 /\ more[Len(ds) + 1] = day
        /\ \A i \in 1 .. Len(ds) : more[i] = ds[i]
    BY AppendProperties
  <2> HIDE DEF more
  <2>2. /\ Len(ds) \in Nat /\ DOMAIN ds = 1 .. Len(ds) /\ DOMAIN more = 1 .. Len(ds) + 1
        /\ ss \in Seq(Seq(Line)) /\ Len(ss) = Len(ds) /\ tt \in Seq(Seq(Line)) /\ Len(tt) = Len(ds) + 1
    BY <1>2, <2>1
  <2>3. x \in Seq(Line)
    BY LinesOfType
  <2>4. (\A i \in 1 .. Len(ds) : tt[i] = ss[i]) /\ tt[Len(ds) + 1] = x
    BY <2>1, <2>2
  <2>5. Lines(ds) = FlattenSeq(ss) /\ Lines(more) = FlattenSeq(tt)
    BY <1>1
  <2> HIDE DEF ss, tt, x
  <2>6. /\ Append(ss, x) \in Seq(Seq(Line)) /\ Len(Append(ss, x)) = Len(ds) + 1
        /\ \A i \in 1 .. Len(ds) : Append(ss, x)[i] = ss[i]
        /\ Append(ss, x)[Len(ds) + 1] = x
    BY <2>2, <2>3, AppendProperties
  <2>7. tt = Append(ss, x)
    <3> DEFINE app == Append(ss, x)
    <3> HIDE DEF app
    <3>1. \A i \in 1 .. Len(ds) + 1 : tt[i] = app[i]
      BY <2>2, <2>4, <2>6 DEF app
    <3>2. app \in Seq(Seq(Line)) /\ Len(app) = Len(tt)
      BY <2>2, <2>6 DEF app
    <3> QED BY <2>2, <3>1, <3>2, SeqEqual DEF app
  <2> QED BY <2>2, <2>3, <2>5, <2>7, FlattenAppend DEF more, x
<1>5. Lines(<<>>) = <<>>
  <2>1. <<>> \in Seq(Day) /\ Len(<<>>) = 0
    BY EmptySeq
  <2> DEFINE ss == lines(<<>>)
  <2>2. Lines(<<>>) = FlattenSeq(ss) /\ ss \in Seq(Seq(Line)) /\ Len(ss) = 0
    BY <1>1, <1>2, <2>1
  <2> HIDE DEF ss
  <2> QED BY <2>2, EmptySeq DEF FlattenSeq
<1> QED BY <1>3, <1>4, <1>5

\* The lines of some of the days, from the first on, begin the lines of all of them.
LEMMA LinesBegin ==
  ASSUME NEW ds \in Seq(Day), NEW k \in 0 .. Len(ds)
  PROVE  IsPrefix(Lines(SubSeq(ds, 1, k)), Lines(ds))
<1> DEFINE N    == Len(ds)
           L(n) == Lines(SubSeq(ds, 1, n))
           P    == {n \in 0 .. N : k <= n => IsPrefix(L(k), L(n))}
<1>1. N \in Nat /\ k \in Nat
  BY LenProperties
<1>2. \A n \in 0 .. N : L(n) \in Seq(Line)
  BY FrontProperties, LinesAppend
<1>3. \A n \in 0 .. N - 1 : ds[n + 1] \in Day /\ L(n + 1) = L(n) \o LinesOf(ds[n + 1])
  <2> SUFFICES ASSUME NEW n \in 0 .. N - 1
               PROVE  ds[n + 1] \in Day /\ L(n + 1) = L(n) \o LinesOf(ds[n + 1])
    OBVIOUS
  <2>1. n \in 0 .. N /\ n < N
    BY <1>1
  <2>2. /\ SubSeq(ds, 1, n) \in Seq(Day) /\ ds[n + 1] \in Day
        /\ SubSeq(ds, 1, n + 1) = Append(SubSeq(ds, 1, n), ds[n + 1])
    BY <2>1, FrontProperties
  <2> QED BY <2>2, LinesAppend
<1>4. L(N) = Lines(ds)
  <2>1. N \in 0 .. Len(ds) /\ N = Len(ds)
    BY <1>1
  <2>2. SubSeq(ds, 1, N) = ds
    BY <2>1, FrontProperties
  <2> QED BY <2>2
<1> HIDE DEF L
<1>5. IsPrefix(L(k), L(k))
  BY <1>2, PrefixIs, LenProperties
<1>6. ASSUME NEW n \in 0 .. N - 1, IsPrefix(L(k), L(n))
      PROVE  IsPrefix(L(k), L(n + 1))
  <2>1. /\ n \in 0 .. N /\ n + 1 \in 0 .. N
        /\ LinesOf(ds[n + 1]) \in Seq(Line) /\ L(n + 1) = L(n) \o LinesOf(ds[n + 1])
    BY <1>1, <1>3, LinesOfType
  <2>2. /\ Len(L(n + 1)) = Len(L(n)) + Len(LinesOf(ds[n + 1]))
        /\ \A i \in 1 .. Len(L(n)) + Len(LinesOf(ds[n + 1])) : L(n + 1)[i] =
             IF i <= Len(L(n)) THEN L(n)[i] ELSE LinesOf(ds[n + 1])[i - Len(L(n))]
    BY <1>2, <2>1, ConcatProperties
  <2>3. Len(L(n)) \in Nat /\ Len(LinesOf(ds[n + 1])) \in Nat /\ Len(L(k)) \in Nat
    BY <1>2, <2>1, LenProperties
  <2>4. Len(L(k)) <= Len(L(n)) /\ \A i \in 1 .. Len(L(k)) : L(k)[i] = L(n)[i]
    BY <1>2, <1>6, <2>1, PrefixIs
  <2>5. Len(L(k)) <= Len(L(n + 1)) /\ \A i \in 1 .. Len(L(k)) : L(k)[i] = L(n + 1)[i]
    BY <2>2, <2>3, <2>4
  <2> QED BY <1>2, <2>1, <2>5, PrefixIs
<1>7. 0 \in P
  BY <1>1, <1>5
<1>8. \A n \in 0 .. N - 1 : n \in P => n + 1 \in P
  <2> SUFFICES ASSUME NEW n \in 0 .. N - 1, n \in P
               PROVE  n + 1 \in P
    OBVIOUS
  <2>1. CASE k <= n
    BY <1>1, <1>6, <2>1
  <2>2. CASE k = n + 1
    BY <1>1, <1>5, <2>2
  <2>3. CASE ~(k <= n + 1)
    BY <1>1, <2>3
  <2> QED BY <1>1, <2>1, <2>2, <2>3
<1> HIDE DEF P, N
<1>9. \A n \in 0 .. N : n \in P
  BY <1>1, <1>7, <1>8, Induct
<1>10. N \in P /\ k <= N
  BY <1>1, <1>9 DEF N
<1>11. IsPrefix(L(k), L(N))
  BY <1>10 DEF P
<1> QED BY <1>4, <1>11 DEF L

\* A beginning of a file that is grouped is grouped.
LEMMA PrefixGrouped ==
  ASSUME NEW s \in Seq(Line), NEW t \in Seq(Line), IsPrefix(s, t), Grouped(t)
  PROVE  Grouped(s)
<1>1. /\ Len(s) <= Len(t) /\ \A i \in 1 .. Len(s) : s[i] = t[i]
      /\ Len(s) \in Nat /\ Len(t) \in Nat
      /\ DOMAIN s = 1 .. Len(s) /\ DOMAIN t = 1 .. Len(t)
  BY PrefixIs, LenProperties
<1>2. \A i \in DOMAIN s : i \in DOMAIN t /\ s[i] = t[i]
  BY <1>1
<1> QED BY <1>1, <1>2 DEF Grouped

\* The empty file.
LEMMA GroupedFiles ==
  /\ Grouped(<<>>)
  /\ \A s \in Seq(Line) : IsPrefix(<<>>, s)
<1>1. Len(<<>>) = 0 /\ DOMAIN <<>> = {}
  OBVIOUS
<1>2. ASSUME NEW s \in Seq(Line)
      PROVE  IsPrefix(<<>>, s)
  <2>1. <<>> \in Seq(Line) /\ Len(s) \in Nat
    BY EmptySeq, LenProperties
  <2>2. Len(<<>>) <= Len(s) /\ \A i \in 1 .. Len(<<>>) : <<>>[i] = s[i]
    BY <1>1, <2>1
  <2> QED BY <2>1, <2>2, PrefixIs
<1>3. Grouped(<<>>)
  BY <1>1 DEF Grouped
<1> QED BY <1>2, <1>3

\* What is saved of a good vector is grouped.
LEMMA LinesGrouped ==
  ASSUME NEW ds \in Seq(Day), UniqueDates(ds), Filed(ds)
  PROVE  Grouped(Lines(ds))
<1> DEFINE N    == Len(ds)
           L(n) == Lines(SubSeq(ds, 1, n))
           P    == {n \in 0 .. N : /\ Grouped(L(n))
                                   /\ \A i \in DOMAIN L(n) : \E d \in 1 .. n : L(n)[i][1] = ds[d].date}
<1>1. N \in Nat /\ DOMAIN ds = 1 .. N
  BY LenProperties
<1>2. \A n \in 0 .. N : L(n) \in Seq(Line)
  BY FrontProperties, LinesAppend
<1>3. \A n \in 0 .. N - 1 : ds[n + 1] \in Day /\ L(n + 1) = L(n) \o LinesOf(ds[n + 1])
  <2> SUFFICES ASSUME NEW n \in 0 .. N - 1
               PROVE  ds[n + 1] \in Day /\ L(n + 1) = L(n) \o LinesOf(ds[n + 1])
    OBVIOUS
  <2>1. n \in 0 .. N /\ n < N
    BY <1>1
  <2>2. /\ SubSeq(ds, 1, n) \in Seq(Day) /\ ds[n + 1] \in Day
        /\ SubSeq(ds, 1, n + 1) = Append(SubSeq(ds, 1, n), ds[n + 1])
    BY <2>1, FrontProperties
  <2> QED BY <2>2, LinesAppend
<1>4. L(N) = Lines(ds) /\ L(0) = <<>>
  <2>1. N \in 0 .. Len(ds) /\ 0 \in 0 .. Len(ds) /\ N = Len(ds)
    BY <1>1
  <2>2. SubSeq(ds, 1, N) = ds /\ SubSeq(ds, 1, 0) = <<>>
    BY <2>1, FrontProperties
  <2> QED BY <2>2, LinesAppend
<1> HIDE DEF L
<1>5. 0 \in P
  BY <1>1, <1>4 DEF Grouped
<1>6. \A n \in 0 .. N - 1 : n \in P => n + 1 \in P
  <2> SUFFICES ASSUME NEW n \in 0 .. N - 1, n \in P
               PROVE  n + 1 \in P
    OBVIOUS
  <2> DEFINE x == LinesOf(ds[n + 1])
             a == Len(L(n))
             b == Len(x)
             D == ds[n + 1].date
  <2>1. /\ n \in 0 .. N /\ n + 1 \in 1 .. N /\ n + 1 \in 0 .. N
        /\ x \in Seq(Line) /\ L(n + 1) = L(n) \o x
    <3>1. n \in 0 .. N /\ n + 1 \in 1 .. N /\ n + 1 \in 0 .. N
      BY <1>1
    <3> QED BY <1>3, <3>1, LinesOfType
  <2>2. /\ a \in Nat /\ b \in Nat /\ DOMAIN L(n) = 1 .. a /\ DOMAIN x = 1 .. b
        /\ DOMAIN L(n + 1) = 1 .. a + b
        /\ \A i \in 1 .. a + b : L(n + 1)[i] = IF i <= a THEN L(n)[i] ELSE x[i - a]
    <3>1. L(n + 1) \in Seq(Line) /\ L(n) \in Seq(Line)
      BY <1>2, <2>1
    <3>2. /\ Len(L(n + 1)) = a + b
          /\ \A i \in 1 .. a + b : L(n + 1)[i] = IF i <= a THEN L(n)[i] ELSE x[i - a]
      BY <2>1, <3>1, ConcatProperties
    <3> QED BY <2>1, <3>1, <3>2, LenProperties
  <2>3. \A i \in 1 .. b : x[i][1] = D
    BY <1>1, <1>3, <2>1, <2>2, LinesOfType DEF Filed, LinesOf, FileLine
  <2>4. /\ \A i \in 1 .. a : \E d \in 1 .. n : L(n)[i][1] = ds[d].date
        /\ Grouped(L(n))
    BY <2>2
  <2>5. \A i \in 1 .. a : L(n)[i][1] # D
    <3>1. \A d \in 1 .. n : ds[d].date # D
      <4>1. \A d \in 1 .. n : d \in DOMAIN ds /\ n + 1 \in DOMAIN ds /\ d # n + 1
        BY <1>1, <2>1
      <4> QED BY <4>1 DEF UniqueDates
    <3> QED BY <2>4, <3>1
  <2> HIDE DEF x, a, b, D
  <2>6. /\ \A i \in 1 .. a : i \in DOMAIN L(n) /\ L(n + 1)[i] = L(n)[i] /\ L(n + 1)[i][1] # D
        /\ \A i \in 1 .. a + b : i \notin 1 .. a => L(n + 1)[i][1] = D
    <3>1. ASSUME NEW i \in 1 .. a
          PROVE  i \in DOMAIN L(n) /\ L(n + 1)[i] = L(n)[i] /\ L(n + 1)[i][1] # D
      BY <2>2, <2>5
    <3>2. ASSUME NEW i \in 1 .. a + b, i \notin 1 .. a
          PROVE  L(n + 1)[i][1] = D
      <4>1. i - a \in 1 .. b /\ L(n + 1)[i] = x[i - a]
        BY <2>2, <3>2
      <4> QED BY <2>3, <4>1
    <3> QED BY <3>1, <3>2
  <2>7. Grouped(L(n + 1))
    <3> SUFFICES ASSUME NEW i \in 1 .. a + b, NEW j \in 1 .. a + b, NEW k \in 1 .. a + b,
                        i < j, j < k, L(n + 1)[i][1] = L(n + 1)[k][1]
                 PROVE  L(n + 1)[j][1] = L(n + 1)[i][1]
      BY <2>2 DEF Grouped
    <3>1. CASE k \in 1 .. a
      <4>1. i \in 1 .. a /\ j \in 1 .. a
        BY <2>2, <3>1
      <4> QED BY <2>4, <2>6, <3>1, <4>1 DEF Grouped
    <3>2. CASE k \notin 1 .. a
      <4>1. i \notin 1 .. a
        BY <2>6, <3>2
      <4>2. j \notin 1 .. a
        BY <2>2, <4>1
      <4> QED BY <2>6, <3>2, <4>1, <4>2
    <3> QED BY <3>1, <3>2
  <2>8. \A i \in DOMAIN L(n + 1) : \E d \in 1 .. n + 1 : L(n + 1)[i][1] = ds[d].date
    <3> SUFFICES ASSUME NEW i \in 1 .. a + b
                 PROVE  \E d \in 1 .. n + 1 : L(n + 1)[i][1] = ds[d].date
      BY <2>2
    <3>1. CASE i \in 1 .. a
      <4>1. PICK d \in 1 .. n : L(n)[i][1] = ds[d].date
        BY <2>4, <3>1
      <4>2. d \in 1 .. n + 1
        BY <1>1
      <4> QED BY <2>6, <3>1, <4>1, <4>2
    <3>2. CASE i \notin 1 .. a
      <4>1. n + 1 \in 1 .. n + 1
        BY <1>1
      <4> QED BY <2>6, <3>2, <4>1 DEF D
    <3> QED BY <3>1, <3>2
  <2>9. n + 1 \in 0 .. N
    BY <2>1
  <2> QED BY <2>7, <2>8, <2>9
<1> HIDE DEF P, N
<1>7. \A n \in 0 .. N : n \in P
  BY <1>1, <1>5, <1>6, Induct
<1>8. N \in P
  BY <1>1, <1>7
<1>9. Grouped(L(N))
  BY <1>8 DEF P
<1> QED BY <1>4, <1>9

\* The last day of a vector, and the others.
LEMMA LastDay ==
  ASSUME NEW ds \in Seq(Day), ds # <<>>
  PROVE  /\ Len(ds) \in DOMAIN ds /\ ds[Len(ds)] \in Day
         /\ SubSeq(ds, 1, Len(ds) - 1) \in Seq(Day)
         /\ ds = Append(SubSeq(ds, 1, Len(ds) - 1), ds[Len(ds)])
         /\ \A day \in Day :
              [ds EXCEPT ![Len(ds)] = day] = Append(SubSeq(ds, 1, Len(ds) - 1), day)
<1> DEFINE N     == Len(ds)
           front == SubSeq(ds, 1, N - 1)
<1>1. N \in Nat \ {0} /\ DOMAIN ds = 1 .. N
  BY EmptySeq, LenProperties
<1>2. N - 1 \in 0 .. Len(ds) /\ N - 1 < Len(ds) /\ N - 1 + 1 = N
  BY <1>1
<1>3. /\ front \in Seq(Day) /\ Len(front) = N - 1 /\ ds[N] \in Day
      /\ \A i \in 1 .. N - 1 : front[i] = ds[i]
      /\ SubSeq(ds, 1, N) = Append(front, ds[N])
  BY <1>2, FrontProperties
<1>4. SubSeq(ds, 1, N) = ds
  BY SubSeqFull
<1> HIDE DEF front
<1>5. ASSUME NEW day \in Day
      PROVE  [ds EXCEPT ![N] = day] = Append(front, day)
  <2> DEFINE new == [ds EXCEPT ![N] = day]
             app == Append(front, day)
  <2>1. new \in Seq(Day) /\ Len(new) = N /\ \A i \in 1 .. N : new[i] = IF i = N THEN day ELSE ds[i]
    BY <1>1, ExceptSeq
  <2>2. /\ app \in Seq(Day) /\ Len(app) = N - 1 + 1
        /\ \A i \in 1 .. N - 1 : app[i] = front[i]
        /\ app[N - 1 + 1] = day
    BY <1>3, AppendProperties
  <2> HIDE DEF new, app, N
  <2>3. \A i \in 1 .. N : new[i] = app[i]
    <3>1. N - 1 + 1 = N /\ \A i \in 1 .. N : i # N => i \in 1 .. N - 1
      BY <1>1
    <3> QED BY <1>3, <2>1, <2>2, <3>1
  <2>4. Len(new) = Len(app)
    BY <1>1, <2>1, <2>2
  <2> QED BY <2>1, <2>2, <2>3, <2>4, SeqEqual DEF new, app
<1> QED BY <1>1, <1>3, <1>4, <1>5 DEF front

\* The days ds after the first n lines of f have been loaded.
Loaded(ds, f, n) ==
  /\ Lines(ds) = SubSeq(f, 1, n)
  /\ n > 0 => ds # <<>> /\ ds[Len(ds)].date = f[n][1]
  /\ \A d \in DOMAIN ds : \E k \in 1 .. n : f[k][1] = ds[d].date

\* One line more.
LEMMA LoadStep ==
  ASSUME NEW ds \in Seq(Day), UniqueDates(ds), NEW f \in Seq(Line), Grouped(f),
         NEW n \in 0 .. Len(f) - 1, Loaded(ds, f, n), NEW id \in Nat
  PROVE  Loaded(Insert(ds, [id |-> id, apt |-> ParseLine(f[n + 1])]), f, n + 1)
<1> DEFINE l    == f[n + 1]
           o    == [id |-> id, apt |-> ParseLine(l)]
           date == l[1]
           D    == DaysOf(ds, date)
           nd   == Insert(ds, o)
<1>1. /\ Len(f) \in Nat /\ DOMAIN f = 1 .. Len(f) /\ n \in Nat /\ n \in 0 .. Len(f) /\ n < Len(f)
      /\ Len(ds) \in Nat /\ DOMAIN ds = 1 .. Len(ds)
  BY LenProperties
<1>2. l \in Line /\ SubSeq(f, 1, n + 1) = Append(SubSeq(f, 1, n), l)
  BY <1>1, FrontProperties
<1>3. /\ o \in Object /\ o.apt = ParseLine(l) /\ o.apt.date = date /\ FileLine(o.apt) = l
      /\ date \in Text
  BY <1>2, LineTypes DEF Object, ParseLine, FileLine, Line
<1>4. SubSeq(f, 1, n) \in Seq(Line)
  BY <1>1, FrontProperties
<1>5. Lines(ds) \in Seq(Line) /\ Lines(ds) = SubSeq(f, 1, n)
  BY <1>4 DEF Loaded
<1>6. Append(Lines(ds), l) = SubSeq(f, 1, n + 1)
  BY <1>2, <1>5
<1>7. SUFFICES /\ Lines(nd) = Append(Lines(ds), l)
               /\ nd # <<>> /\ nd[Len(nd)].date = date
               /\ \A d \in DOMAIN nd : nd[d].date = date \/ (d \in DOMAIN ds /\ nd[d].date = ds[d].date)
  <2>1. ASSUME NEW d \in DOMAIN nd
        PROVE  \E k \in 1 .. n + 1 : f[k][1] = nd[d].date
    <3>1. CASE nd[d].date = date
      <4>1. n + 1 \in 1 .. n + 1
        BY <1>1
      <4> QED BY <3>1, <4>1
    <3>2. CASE d \in DOMAIN ds /\ nd[d].date = ds[d].date
      <4>1. PICK k \in 1 .. n : f[k][1] = ds[d].date
        BY <3>2 DEF Loaded
      <4>2. k \in 1 .. n + 1
        BY <1>1
      <4> QED BY <3>2, <4>1, <4>2
    <3> QED BY <1>7, <3>1, <3>2
  <2> HIDE DEF nd
  <2>2. Loaded(nd, f, n + 1)
    BY <1>6, <1>7, <2>1 DEF Loaded
  <2> QED BY <2>2 DEF nd
<1> HIDE DEF l, o, date, D
<1>8. nd = IF D = {} THEN Append(ds, [date |-> date, appointments |-> <<o>>])
           ELSE WithAppointments(ds, First(D), Append(ds[First(D)].appointments, o))
  BY <1>3 DEF Insert, D
<1>9. CASE D = {}
  <2> DEFINE day == [date |-> date, appointments |-> <<o>>]
  <2>1. day \in Day /\ day.date = date /\ day.appointments = <<o>>
    BY <1>3 DEF Day
  <2>2. LinesOf(day) = <<l>>
    <3>1. LinesOf(day) = [i \in 1 .. 1 |-> FileLine(<<o>>[i].apt)]
      BY <2>1 DEF LinesOf
    <3>2. \A i \in 1 .. 1 : FileLine(<<o>>[i].apt) = l
      BY <1>3
    <3>3. LinesOf(day) = [i \in 1 .. 1 |-> l]
      BY <3>1, <3>2
    <3> QED BY <3>3
  <2> HIDE DEF day
  <2>3. nd = Append(ds, day)
    BY <1>8, <1>9 DEF day
  <2>4. /\ Len(nd) = Len(ds) + 1 /\ nd # <<>> /\ nd[Len(ds) + 1] = day
        /\ DOMAIN nd = 1 .. Len(ds) + 1
        /\ \A i \in 1 .. Len(ds) : nd[i] = ds[i]
    BY <2>1, <2>3, AppendProperties, LenProperties
  <2>5. Lines(nd) = Append(Lines(ds), l)
    <3>1. Lines(nd) = Lines(ds) \o <<l>>
      BY <2>1, <2>2, <2>3, LinesAppend
    <3>2. Append(Lines(ds), l) = Lines(ds) \o <<l>>
      BY <1>2, <1>5, AppendIsConcat DEF l
    <3> QED BY <3>1, <3>2
  <2> HIDE DEF nd
  <2>6. nd[Len(nd)].date = date
    BY <2>1, <2>4
  <2>7. \A d \in DOMAIN nd : nd[d].date = date \/ (d \in DOMAIN ds /\ nd[d].date = ds[d].date)
    BY <1>1, <2>1, <2>4
  <2> QED BY <2>4, <2>5, <2>6, <2>7 DEF nd
<1>10. CASE D # {}
  <2> DEFINE N    == Len(ds)
             objs == ds[N].appointments
             day  == [ds[N] EXCEPT !.appointments = Append(objs, o)]
             front == SubSeq(ds, 1, N - 1)
  <2>1. PICK d \in DOMAIN ds : ds[d].date = date
    BY <1>10 DEF D, DaysOf
  <2>2. PICK k \in 1 .. n : f[k][1] = date
    BY <2>1 DEF Loaded
  <2>3. f[n][1] = date /\ n > 0
    <3>1. CASE k = n
      BY <1>1, <2>2, <3>1
    <3>2. CASE k # n
      <4>1. k \in DOMAIN f /\ n \in DOMAIN f /\ n + 1 \in DOMAIN f /\ k < n /\ n < n + 1
        BY <1>1, <2>2, <3>2
      <4>2. f[n + 1][1] = date
        BY DEF date, l
      <4>3. f[n][1] = f[k][1]
        BY <2>2, <4>1, <4>2 DEF Grouped
      <4> QED BY <2>2, <4>1, <4>3
    <3> QED BY <3>1, <3>2
  <2>4. ds # <<>> /\ ds[N].date = date
    BY <2>3 DEF Loaded
  <2>5. /\ N \in DOMAIN ds /\ ds[N] \in Day /\ front \in Seq(Day)
        /\ ds = Append(front, ds[N])
        /\ \A x \in Day : [ds EXCEPT ![N] = x] = Append(front, x)
    BY <2>4, LastDay
  <2>6. D = {N}
    BY <2>4, <2>5 DEF D, DaysOf, UniqueDates
  <2>7. First(D) = N
    BY <2>6 DEF First
  <2>8. /\ objs \in Seq(Object) /\ Append(objs, o) \in Seq(Object)
        /\ day \in Day /\ day.date = ds[N].date /\ day.appointments = Append(objs, o)
    <3>1. objs \in Seq(Object)
      BY <2>5 DEF Day
    <3>2. Append(objs, o) \in Seq(Object)
      BY <1>3, <3>1, AppendProperties
    <3> DEFINE more == Append(objs, o)
    <3> HIDE DEF more, N
    <3>3. day \in Day /\ day.date = ds[N].date /\ day.appointments = more
      BY <2>5, <3>2 DEF Day, more
    <3> QED BY <3>1, <3>2, <3>3 DEF more
  <2>9. nd = [ds EXCEPT ![N] = day]
    <3>1. nd = WithAppointments(ds, N, Append(objs, o))
      BY <1>8, <1>10, <2>7
    <3> HIDE DEF N, objs, nd
    <3> QED BY <3>1 DEF WithAppointments
  <2> HIDE DEF objs, day, front, nd
  <2>10. nd = Append(front, day)
    BY <2>5, <2>8, <2>9
  <2>11. LinesOf(day) = Append(LinesOf(ds[N]), l)
    <3> DEFINE x   == LinesOf(ds[N])
               y   == LinesOf(day)
               app == Append(x, l)
    <3>1. day.appointments = Append(objs, o) /\ ds[N].appointments = objs
      BY <2>8 DEF objs
    <3>2. /\ Len(objs) \in Nat /\ Len(Append(objs, o)) = Len(objs) + 1
          /\ DOMAIN objs = 1 .. Len(objs)
          /\ DOMAIN Append(objs, o) = 1 .. Len(objs) + 1
          /\ \A i \in 1 .. Len(objs) : Append(objs, o)[i] = objs[i]
          /\ Append(objs, o)[Len(objs) + 1] = o
      BY <1>3, <2>8, AppendProperties, LenProperties
    <3>3. /\ x \in Seq(Line) /\ Len(x) = Len(objs) /\ y \in Seq(Line) /\ Len(y) = Len(objs) + 1
      BY <2>5, <2>8, <3>1, <3>2, LinesOfType
    <3>4. /\ \A i \in 1 .. Len(objs) : x[i] = FileLine(objs[i].apt)
          /\ \A i \in 1 .. Len(objs) + 1 : y[i] = FileLine(Append(objs, o)[i].apt)
      BY <3>1, <3>2 DEF LinesOf
    <3>5. l \in Line
      BY <1>2 DEF l
    <3> HIDE DEF x, y
    <3>6. /\ app \in Seq(Line) /\ Len(app) = Len(x) + 1
          /\ \A i \in 1 .. Len(x) : app[i] = x[i]
          /\ app[Len(x) + 1] = l
      <4>1. x \in Seq(Line) /\ l \in Line
        BY <3>3, <3>5
      <4> QED BY ONLY <4>1, AppendProperties
    <3> HIDE DEF app
    <3>7. \A i \in 1 .. Len(objs) + 1 : y[i] = app[i]
      BY <1>3, <3>2, <3>3, <3>4, <3>6
    <3> QED BY <3>3, <3>6, <3>7, SeqEqual DEF x, y, app
  <2>12. Lines(nd) = Append(Lines(ds), l)
    <3> DEFINE x == LinesOf(ds[N])
               F == Lines(front)
    <3>1. Lines(nd) = F \o Append(x, l) /\ Lines(ds) = F \o x
      <4>1. /\ front \in Seq(Day) /\ day \in Day /\ ds[N] \in Day
            /\ nd = Append(front, day) /\ ds = Append(front, ds[N])
        BY <2>5, <2>8, <2>10
      <4> DEFINE last == ds[N]
      <4> HIDE DEF last
      <4>2. last \in Day /\ ds = Append(front, last)
        BY <4>1 DEF last
      <4>3. Lines(ds) = F \o LinesOf(last)
        BY ONLY <4>1, <4>2, LinesAppend DEF F
      <4>4. Lines(nd) = F \o LinesOf(day)
        BY ONLY <4>1, LinesAppend DEF F
      <4> QED BY <2>11, <4>3, <4>4 DEF last, x
    <3>2. F \in Seq(Line) /\ x \in Seq(Line) /\ l \in Line
      BY <1>2, <2>5, LinesAppend, LinesOfType DEF l
    <3> HIDE DEF x, F
    <3>3. Append(x, l) = x \o <<l>> /\ <<l>> \in Seq(Line)
      BY <3>2, AppendIsConcat
    <3>4. F \o (x \o <<l>>) = (F \o x) \o <<l>>
      BY <3>2, <3>3, ConcatAssociative
    <3>5. Append(F \o x, l) = (F \o x) \o <<l>>
      <4>1. F \o x \in Seq(Line)
        BY <3>2, ConcatProperties
      <4> QED BY <3>2, <4>1, AppendIsConcat
    <3> QED BY <3>1, <3>3, <3>4, <3>5
  <2>13. nd \in Seq(Day) /\ Len(nd) = N /\ \A i \in 1 .. N : nd[i] = IF i = N THEN day ELSE ds[i]
    <3>1. N \in 1 .. Len(ds)
      BY <1>1, <2>5
    <3> QED BY <2>8, <2>9, <3>1, ExceptSeq
  <2>14. DOMAIN nd = 1 .. N /\ DOMAIN ds = 1 .. N /\ N \in 1 .. N
    BY <1>1, <2>5, <2>13, LenProperties
  <2> HIDE DEF N
  <2>15. nd # <<>> /\ nd[Len(nd)].date = date
    <3>1. nd[N].date = date
      BY <2>4, <2>8, <2>13, <2>14
    <3>2. nd # <<>>
      BY <2>14
    <3> QED BY <2>13, <3>1, <3>2
  <2>16. \A d2 \in DOMAIN nd : nd[d2].date = date \/ (d2 \in DOMAIN ds /\ nd[d2].date = ds[d2].date)
    BY <2>4, <2>8, <2>13, <2>14
  <2> QED BY <2>12, <2>15, <2>16 DEF nd
<1> QED BY <1>9, <1>10

\* What saveToFile has written when its loops are at the k-th appointment of the d-th day.
Saved(ds, d, k) ==
  Lines(SubSeq(ds, 1, d - 1)) \o
    (IF d \in DOMAIN ds THEN SubSeq(LinesOf(ds[d]), 1, k - 1) ELSE <<>>)

\* It begins with nothing, gets each appointment's line in its turn, and is at any time
\* a beginning of the lines of all the days, which it ends with.
LEMMA SavedBegin ==
  ASSUME NEW ds \in Seq(Day)
  PROVE  Saved(ds, 1, 1) = <<>> /\ Saved(ds, Len(ds) + 1, 1) = Lines(ds)
<1>1. Len(ds) \in Nat /\ DOMAIN ds = 1 .. Len(ds) /\ <<>> \in Seq(Line) /\ Lines(ds) \in Seq(Line)
  BY LenProperties, EmptySeq, LinesAppend
<1>2. /\ SubSeq(ds, 1, 0) = <<>> /\ SubSeq(ds, 1, Len(ds)) = ds
  BY <1>1, FrontProperties
<1>3. Lines(<<>>) = <<>> /\ \A s \in Seq(Line) : s \o <<>> = s /\ <<>> \o s = s
  BY LinesAppend, ConcatEmptySeq
<1>4. Saved(ds, 1, 1) = <<>>
  <2>0. 1 - 1 = 0
    OBVIOUS
  <2>1. CASE 1 \in DOMAIN ds
    <3>1. ds[1] \in Day
      BY <2>1, ElementOfSeq, <1>1
    <3>2. LinesOf(ds[1]) \in Seq(Line) /\ Len(LinesOf(ds[1])) \in Nat
      BY <3>1, LinesOfType
    <3>3. 0 \in 0 .. Len(LinesOf(ds[1]))
      BY <3>2
    <3>4. SubSeq(LinesOf(ds[1]), 1, 0) = <<>>
      BY <3>2, <3>3, FrontProperties
    <3>5. Saved(ds, 1, 1) = Lines(<<>>) \o <<>>
      BY ONLY <1>2, <2>0, <2>1, <3>4 DEF Saved
    <3> QED BY <1>1, <1>3, <3>5
  <2>2. CASE 1 \notin DOMAIN ds
    <3>1. Saved(ds, 1, 1) = Lines(<<>>) \o <<>>
      BY ONLY <1>2, <2>0, <2>2 DEF Saved
    <3> QED BY <1>1, <1>3, <3>1
  <2> QED BY <2>1, <2>2
<1>5. Len(ds) + 1 \notin DOMAIN ds /\ Len(ds) + 1 - 1 = Len(ds)
  BY <1>1
<1>6. Saved(ds, Len(ds) + 1, 1) = Lines(ds) \o <<>>
  <2> DEFINE e == Len(ds) + 1
  <2>1. e \notin DOMAIN ds /\ e - 1 = Len(ds)
    BY <1>5
  <2> HIDE DEF e
  <2>2. Saved(ds, e, 1) = Lines(SubSeq(ds, 1, e - 1)) \o <<>>
    BY ONLY <2>1 DEF Saved
  <2> QED BY <1>2, <2>1, <2>2 DEF e
<1> QED BY <1>1, <1>3, <1>4, <1>6

\* One step of the loops of saveToFile: a line is added, or the next day begun.
LEMMA SavedNext ==
  ASSUME NEW ds \in Seq(Day), NEW d \in DOMAIN ds,
         NEW k \in 1 .. Len(ds[d].appointments) + 1
  PROVE  /\ Saved(ds, d, k) \in Seq(Line)
         /\ k \in DOMAIN ds[d].appointments =>
              Saved(ds, d, k + 1) = Append(Saved(ds, d, k), FileLine(ds[d].appointments[k].apt))
         /\ k \notin DOMAIN ds[d].appointments => Saved(ds, d + 1, 1) = Saved(ds, d, k)
         /\ IsPrefix(Saved(ds, d, k), Lines(ds))
<1> DEFINE front == Lines(SubSeq(ds, 1, d - 1))
           x     == LinesOf(ds[d])
<1>1. /\ Len(ds) \in Nat /\ DOMAIN ds = 1 .. Len(ds) /\ d \in Nat /\ d - 1 \in 0 .. Len(ds)
      /\ d \in 0 .. Len(ds) /\ d - 1 < Len(ds) /\ (d - 1) + 1 = d
  BY LenProperties
<1>2. ds[d] \in Day /\ SubSeq(ds, 1, d - 1) \in Seq(Day)
      /\ SubSeq(ds, 1, d) = Append(SubSeq(ds, 1, d - 1), ds[d])
  BY <1>1, FrontProperties
<1>3. /\ x \in Seq(Line) /\ Len(x) = Len(ds[d].appointments) /\ Len(x) \in Nat
      /\ DOMAIN ds[d].appointments = 1 .. Len(x)
      /\ front \in Seq(Line) /\ Len(front) \in Nat
  BY <1>2, LinesOfType, LinesAppend, LenProperties
<1>4. Lines(SubSeq(ds, 1, d)) = front \o x
  BY <1>2, LinesAppend
<1>5. k \in 1 .. Len(x) + 1
  BY <1>3
<1>6. /\ k - 1 \in 0 .. Len(x) /\ k \in Nat
      /\ (k - 1) + 1 = k /\ (k + 1) - 1 = k
  BY <1>3, <1>5
<1> DEFINE part == SubSeq(x, 1, k - 1)
<1>7. Saved(ds, d, k) = front \o part
  BY DEF Saved
<1> HIDE DEF front
<1>8. /\ part \in Seq(Line) /\ Len(part) = k - 1
      /\ \A i \in 1 .. k - 1 : part[i] = x[i]
      /\ k - 1 = Len(x) => part = x
      /\ k - 1 < Len(x) => x[k] \in Line /\ SubSeq(x, 1, k) = Append(part, x[k])
  <2> HIDE DEF x
  <2> QED BY <1>3, <1>6, FrontProperties
<1>9. Saved(ds, d, k) \in Seq(Line)
  BY <1>3, <1>7, <1>8, ConcatProperties
<1>10. ASSUME k \in DOMAIN ds[d].appointments
       PROVE  Saved(ds, d, k + 1) = Append(Saved(ds, d, k), FileLine(ds[d].appointments[k].apt))
  <2>1. x[k] = FileLine(ds[d].appointments[k].apt)
    BY <1>10 DEF LinesOf
  <2>2. k - 1 < Len(x)
    BY <1>3, <1>6, <1>10
  <2>3. Saved(ds, d, k + 1) = front \o SubSeq(x, 1, k)
    BY <1>6 DEF Saved, front
  <2> DEFINE l == x[k]
  <2>4. l \in Line /\ SubSeq(x, 1, k) = Append(part, l)
    BY <1>8, <2>2
  <2> HIDE DEF l, part, x
  <2>5. Append(part, l) = part \o <<l>> /\ <<l>> \in Seq(Line)
    BY <1>8, <2>4, AppendIsConcat
  <2>6. front \o (part \o <<l>>) = (front \o part) \o <<l>>
    BY <1>3, <1>8, <2>5, ConcatAssociative
  <2>7. front \o part \in Seq(Line)
    BY <1>7, <1>9
  <2>8. Append(front \o part, l) = (front \o part) \o <<l>>
    BY <2>4, <2>7, AppendIsConcat
  <2>9. Saved(ds, d, k + 1) = Append(Saved(ds, d, k), l)
    BY <1>7, <2>3, <2>4, <2>5, <2>6, <2>8
  <2> QED BY <2>1, <2>9 DEF l
<1>11. ASSUME k \notin DOMAIN ds[d].appointments
       PROVE  Saved(ds, d + 1, 1) = Saved(ds, d, k)
  <2>1. k - 1 = Len(x)
    BY <1>3, <1>5, <1>6, <1>11
  <2>2. Saved(ds, d, k) = front \o x
    BY <1>7, <1>8, <2>1
  <2>3. Saved(ds, d + 1, 1) = Lines(SubSeq(ds, 1, d))
    <3>1. (d + 1) - 1 = d
      BY <1>1
    <3>2. Lines(SubSeq(ds, 1, d)) \in Seq(Line)
      BY <1>1, FrontProperties, LinesAppend
    <3>3. CASE d + 1 \in DOMAIN ds
      <4>1. ds[d + 1] \in Day
        BY <1>1, <3>3, ElementOfSeq
      <4>2. LinesOf(ds[d + 1]) \in Seq(Line) /\ 0 \in 0 .. Len(LinesOf(ds[d + 1]))
        BY <4>1, LinesOfType
      <4>3. SubSeq(LinesOf(ds[d + 1]), 1, 0) = <<>>
        BY <4>2, FrontProperties
      <4>4. Saved(ds, d + 1, 1) = Lines(SubSeq(ds, 1, d)) \o <<>>
        <5> DEFINE e == d + 1
        <5>1. e \in DOMAIN ds /\ e - 1 = d /\ 1 - 1 = 0 /\ SubSeq(LinesOf(ds[e]), 1, 0) = <<>>
          BY <3>1, <3>3, <4>3
        <5> HIDE DEF e
        <5>2. Saved(ds, e, 1) = Lines(SubSeq(ds, 1, e - 1)) \o <<>>
          BY ONLY <5>1 DEF Saved
        <5>3. Saved(ds, e, 1) = Lines(SubSeq(ds, 1, d)) \o <<>>
          BY ONLY <5>1, <5>2
        <5> QED BY ONLY <5>3 DEF e
      <4> QED BY <3>2, <4>4, ConcatEmptySeq
    <3>4. CASE d + 1 \notin DOMAIN ds
      <4>1. Saved(ds, d + 1, 1) = Lines(SubSeq(ds, 1, d)) \o <<>>
        <5> DEFINE e == d + 1
        <5>1. e \notin DOMAIN ds /\ e - 1 = d
          BY <3>1, <3>4
        <5> HIDE DEF e
        <5>2. Saved(ds, e, 1) = Lines(SubSeq(ds, 1, e - 1)) \o <<>>
          BY ONLY <5>1 DEF Saved
        <5> QED BY <5>1, <5>2 DEF e
      <4> QED BY <3>2, <4>1, ConcatEmptySeq
    <3> QED BY <3>3, <3>4
  <2> QED BY <1>4, <2>2, <2>3
<1>12. IsPrefix(Saved(ds, d, k), Lines(ds))
  <2> DEFINE some == Lines(SubSeq(ds, 1, d))
             all  == Lines(ds)
             s    == Saved(ds, d, k)
  <2>1. IsPrefix(some, all) /\ some \in Seq(Line) /\ all \in Seq(Line)
    BY <1>1, LinesBegin, LinesAppend, FrontProperties
  <2>2. some = front \o x
    BY <1>4
  <2>3. s = front \o part /\ s \in Seq(Line)
    BY <1>7, <1>9
  <2> HIDE DEF some, all, s, x, part
  <2>4. Len(some) <= Len(all) /\ \A i \in 1 .. Len(some) : some[i] = all[i]
    BY <2>1, PrefixIs
  <2>5. /\ Len(some) = Len(front) + Len(x)
        /\ \A i \in 1 .. Len(front) + Len(x) :
             some[i] = IF i <= Len(front) THEN front[i] ELSE x[i - Len(front)]
    BY <1>3, <2>2, ConcatProperties
  <2>6. /\ Len(s) = Len(front) + Len(part)
        /\ \A i \in 1 .. Len(front) + Len(part) :
             s[i] = IF i <= Len(front) THEN front[i] ELSE part[i - Len(front)]
    BY <1>3, <1>8, <2>3, ConcatProperties
  <2>7. Len(all) \in Nat /\ Len(part) = k - 1 /\ k - 1 \in 0 .. Len(x)
    BY <1>6, <1>8, <2>1, LenProperties
  <2>8. \A i \in 1 .. Len(s) : s[i] = some[i]
    <3> SUFFICES ASSUME NEW i \in 1 .. Len(s) PROVE s[i] = some[i]
      OBVIOUS
    <3>0. i \in 1 .. Len(front) + Len(part) /\ i \in 1 .. Len(front) + Len(x)
      BY <1>3, <2>6, <2>7
    <3>1. CASE i <= Len(front)
      BY <2>5, <2>6, <3>0, <3>1
    <3>2. CASE ~(i <= Len(front))
      <4>1. i - Len(front) \in 1 .. k - 1
        BY <1>3, <2>6, <2>7, <3>2
      <4>2. part[i - Len(front)] = x[i - Len(front)]
        BY <1>8, <4>1 DEF part
      <4> QED BY <2>5, <2>6, <3>0, <3>2, <4>2
    <3> QED BY <3>1, <3>2
  <2>9. Len(s) <= Len(some)
    BY <1>3, <2>5, <2>6, <2>7
  <2>10. Len(s) <= Len(all) /\ \A i \in 1 .. Len(s) : s[i] = all[i]
    BY <1>3, <2>4, <2>5, <2>6, <2>7, <2>8, <2>9
  <2>11. IsPrefix(s, all)
    BY <2>1, <2>3, <2>10, PrefixIs
  <2> QED BY <2>11 DEF s, all
<1> QED BY <1>9, <1>10, <1>11, <1>12

\* A sequence has finitely many elements.
LEMMA FiniteElements ==
  ASSUME NEW S, NEW s \in Seq(S)
  PROVE  IsFiniteSet(ToSet(s)) /\ ToSet(s) \subseteq S
<1>1. Len(s) \in Nat /\ DOMAIN s = 1 .. Len(s) /\ s \in [1 .. Len(s) -> S]
  BY LenProperties
<1> DEFINE I == 1 .. Len(s)
           E == ToSet(s)
<1>2. s \in Surjection(I, E)
  <2>1. \A e \in E : \E i \in I : s[i] = e
    BY <1>1 DEF ToSet
  <2>2. s \in [I -> E]
    BY <1>1 DEF ToSet
  <2> QED BY <2>1, <2>2 DEF Surjection
<1>3. IsFiniteSet(I)
  BY <1>1, FS_Interval
<1>4. E \subseteq S
  BY <1>1 DEF ToSet
<1> HIDE DEF I, E
<1>5. IsFiniteSet(E)
  BY <1>2, <1>3, FS_Surjection
<1> QED BY <1>4, <1>5 DEF E

\* deleteAppointment(index) takes exactly one appointment out.
LEMMA DeleteAtSet ==
  ASSUME NEW objs \in Seq(Object), Increasing(objs), NEW k \in DOMAIN objs
  PROVE  ToSet(DeleteAt(objs, k)) = ToSet(objs) \ {objs[k]}
<1> DEFINE new == DeleteAt(objs, k)
<1>1. /\ Len(objs) \in Nat /\ DOMAIN objs = 1 .. Len(objs) /\ k \in Nat /\ k <= Len(objs) /\ k >= 1
      /\ new = RemoveAt(objs, k)
  BY LenProperties DEF DeleteAt
<1>2. /\ new \in Seq(Object) /\ Len(new) = Len(objs) - 1
      /\ \A j \in 1 .. Len(objs) - 1 : new[j] = IF j < k THEN objs[j] ELSE objs[j + 1]
  BY <1>1, RemoveAtProperties
<1>3. DOMAIN new = 1 .. Len(objs) - 1
  BY <1>2, LenProperties
<1>4. \A i, j \in DOMAIN objs : i # j => objs[i] # objs[j]
  <2> SUFFICES ASSUME NEW i \in DOMAIN objs, NEW j \in DOMAIN objs, i # j PROVE objs[i] # objs[j]
    OBVIOUS
  <2>1. objs[i].id \in Nat /\ objs[j].id \in Nat /\ (i < j \/ j < i)
    BY <1>1, ObjectType
  <2> QED BY <2>1 DEF Increasing
<1> HIDE DEF new
<1>5. ASSUME NEW o \in ToSet(new)
      PROVE  o \in ToSet(objs) /\ o # objs[k]
  <2>1. PICK j \in 1 .. Len(objs) - 1 : new[j] = o
    BY <1>3 DEF ToSet
  <2>2. CASE j < k
    <3>1. j \in DOMAIN objs /\ j # k /\ o = objs[j]
      BY <1>1, <1>2, <2>1, <2>2
    <3> QED BY <1>4, <3>1 DEF ToSet
  <2>3. CASE ~(j < k)
    <3>1. j + 1 \in DOMAIN objs /\ j + 1 # k /\ o = objs[j + 1]
      BY <1>1, <1>2, <2>1, <2>3
    <3> QED BY <1>4, <3>1 DEF ToSet
  <2> QED BY <2>2, <2>3
<1>6. ASSUME NEW o \in ToSet(objs), o # objs[k]
      PROVE  o \in ToSet(new)
  <2>1. PICK j \in DOMAIN objs : objs[j] = o
    BY DEF ToSet
  <2>2. j # k
    BY <1>6, <2>1
  <2>3. CASE j < k
    <3>1. j \in 1 .. Len(objs) - 1 /\ new[j] = o
      BY <1>1, <1>2, <2>1, <2>3
    <3> QED BY <1>3, <3>1 DEF ToSet
  <2>4. CASE ~(j < k)
    <3>1. j - 1 \in 1 .. Len(objs) - 1 /\ ~(j - 1 < k) /\ (j - 1) + 1 = j
      BY <1>1, <2>2, <2>4
    <3>2. new[j - 1] = o
      BY <1>2, <2>1, <3>1
    <3> QED BY <1>3, <3>1, <3>2 DEF ToSet
  <2> QED BY <2>3, <2>4
<1>7. ToSet(new) = ToSet(objs) \ {objs[k]}
  BY <1>5, <1>6
<1> QED BY <1>7 DEF new

\* Two appointments of a vector with one address are one.
LEMMA OneOfEachId ==
  ASSUME NEW objs \in Seq(Object), Increasing(objs)
  PROVE  \A o, p \in ToSet(objs) : o.id \in Nat /\ (o.id = p.id => o = p)
<1> SUFFICES ASSUME NEW o \in ToSet(objs), NEW p \in ToSet(objs)
             PROVE  o.id \in Nat /\ (o.id = p.id => o = p)
  OBVIOUS
<1>1. PICK i \in DOMAIN objs : objs[i] = o
  BY DEF ToSet
<1>2. PICK j \in DOMAIN objs : objs[j] = p
  BY DEF ToSet
<1>3. i \in Nat /\ j \in Nat /\ o.id \in Nat /\ p.id \in Nat
  BY <1>1, <1>2, ObjectType
<1>4. i < j => o.id < p.id
  BY <1>1, <1>2 DEF Increasing
<1>5. j < i => p.id < o.id
  BY <1>1, <1>2 DEF Increasing
<1> QED BY <1>1, <1>2, <1>3, <1>4, <1>5

-----------------------------------------------------------------------------
\* Taking elements out of a sequence.

\* The elements of s at the positions I, in their order.
Picked(s, I) ==
  [j \in 1 .. Cardinality(I) |-> s[CHOOSE i \in I : Cardinality({k \in I : k <= i}) = j]]

\* p names positions of s in their order, and t has what is there.
Picks(p, t, s) ==
  /\ p \in [1 .. Len(t) -> 1 .. Len(s)]
  /\ \A i, j \in 1 .. Len(t) : i < j => p[i] < p[j]
  /\ \A i \in 1 .. Len(t) : t[i] = s[p[i]]

\* t is what is left of s without the positions I, which p does not name.
Leaves(I, p, t, s) ==
  /\ I \in SUBSET DOMAIN s
  /\ \A i \in DOMAIN s : i \in I <=> \A j \in 1 .. Len(t) : p[j] # i
  /\ t = Picked(s, DOMAIN s \ I)
  /\ Cardinality(I) = Len(s) - Len(t)

\* Two sets between which a function pairs the members off are of one size.
LEMMA CountedBy ==
  ASSUME NEW S, NEW T, NEW f \in [S -> T],
         \A x, y \in S : f[x] = f[y] => x = y, \A y \in T : \E x \in S : f[x] = y
  PROVE  /\ ExistsBijection(S, T)
         /\ \A n \in Nat : S = 1 .. n => IsFiniteSet(T) /\ Cardinality(T) = n
<1>1. f \in Injection(S, T)
  BY DEF Injection, IsInjective
<1>2. f \in Surjection(S, T)
  BY DEF Surjection
<1>3. ExistsBijection(S, T)
  BY <1>1, <1>2 DEF ExistsBijection, Bijection
<1>4. ASSUME NEW n \in Nat, S = 1 .. n
      PROVE  IsFiniteSet(T) /\ Cardinality(T) = n
  <2>1. ExistsBijection(1 .. n, T)
    BY <1>3, <1>4
  <2> QED BY <2>1, FS_CountingElements, FS_NatBijection
<1> QED BY <1>3, <1>4

\* A sequence that is part of another one is what is left without some positions.
LEMMA PickedIs ==
  ASSUME NEW S, NEW s \in Seq(S), NEW t \in Seq(S), NEW p, Picks(p, t, s)
  PROVE  \E I : Leaves(I, p, t, s)
<1> DEFINE m       == Len(t)
           n       == Len(s)
           J       == {p[i] : i \in 1 .. m}
           Upto(x) == {k \in J : k <= x}
<1>1. /\ m \in Nat /\ n \in Nat /\ DOMAIN s = 1 .. n /\ t = [j \in 1 .. m |-> t[j]]
      /\ p \in [1 .. m -> 1 .. n]
      /\ \A i, j \in 1 .. m : i < j => p[i] < p[j]
      /\ \A i \in 1 .. m : t[i] = s[p[i]]
  BY LenProperties DEF Picks
<1> HIDE DEF m, n
<1>2. \A i, j \in 1 .. m : p[i] <= p[j] <=> i <= j
  BY <1>1
<1>3. \A j \in 1 .. m : Cardinality(Upto(p[j])) = j
  <2> SUFFICES ASSUME NEW j \in 1 .. m PROVE Cardinality(Upto(p[j])) = j
    OBVIOUS
  <2> DEFINE f == [i \in 1 .. j |-> p[i]]
             U == Upto(p[j])
  <2>1. \A i \in 1 .. j : i \in 1 .. m /\ f[i] = p[i]
    BY <1>1
  <2>2. \A i \in 1 .. j : f[i] \in U
    BY <1>2, <2>1
  <2>3. \A x \in U : \E i \in 1 .. j : f[i] = x
    <3> SUFFICES ASSUME NEW x \in U PROVE \E i \in 1 .. j : f[i] = x
      OBVIOUS
    <3>1. PICK i \in 1 .. m : x = p[i] /\ p[i] <= p[j]
      OBVIOUS
    <3>2. i \in 1 .. j
      BY <1>1, <1>2, <3>1
    <3> QED BY <2>1, <3>1, <3>2
  <2>4. \A x, y \in 1 .. j : f[x] = f[y] => x = y
    BY <1>1, <1>2, <2>1
  <2>5. f \in [1 .. j -> U]
    BY <2>2
  <2> HIDE DEF U, f
  <2>6. Cardinality(U) = j
    <3>1. j \in Nat
      BY <1>1
    <3> QED BY ONLY <2>3, <2>4, <2>5, <3>1, CountedBy
  <2> QED BY <2>6 DEF U
<1>4. Cardinality(J) = m
  <2>1. p \in [1 .. m -> J]
    BY <1>1
  <2>2. \A x \in J : \E i \in 1 .. m : p[i] = x
    OBVIOUS
  <2>3. \A x, y \in 1 .. m : p[x] = p[y] => x = y
    BY <1>1, <1>2
  <2>4. m \in Nat
    BY <1>1
  <2> HIDE DEF J
  <2> QED BY ONLY <2>1, <2>2, <2>3, <2>4, CountedBy
<1>5. \A j \in 1 .. m : (CHOOSE i \in J : Cardinality(Upto(i)) = j) = p[j]
  <2> SUFFICES ASSUME NEW j \in 1 .. m
               PROVE  (CHOOSE i \in J : Cardinality(Upto(i)) = j) = p[j]
    OBVIOUS
  <2>1. p[j] \in J /\ Cardinality(Upto(p[j])) = j
    BY <1>3
  <2>2. \A i \in J : Cardinality(Upto(i)) = j => i = p[j]
    BY <1>3
  <2> HIDE DEF J, Upto
  <2> QED BY <2>1, <2>2
<1>6. t = Picked(s, J)
  <2>1. Picked(s, J) = [j \in 1 .. m |-> s[CHOOSE i \in J : Cardinality(Upto(i)) = j]]
    BY <1>4 DEF Picked
  <2> HIDE DEF J, Upto
  <2>2. \A j \in 1 .. m : s[CHOOSE i \in J : Cardinality(Upto(i)) = j] = t[j]
    BY <1>1, <1>5
  <2> QED BY <1>1, <2>1, <2>2
<1> DEFINE I == DOMAIN s \ J
<1>7. J \subseteq DOMAIN s
  BY <1>1
<1>8. Cardinality(I) = n - m
  <2> HIDE DEF J
  <2>1. IsFiniteSet(1 .. n) /\ Cardinality(1 .. n) = n
    <3>1. 1 \in Int /\ n \in Int /\ n \in Nat
      BY <1>1
    <3>2. IsFiniteSet(1 .. n) /\ Cardinality(1 .. n) = IF 1 > n THEN 0 ELSE n - 1 + 1
      BY ONLY <3>1, FS_Interval
    <3> QED BY <3>1, <3>2
  <2>2. Cardinality((1 .. n) \ J) = Cardinality(1 .. n) - Cardinality((1 .. n) \cap J)
    BY <2>1, FS_Difference
  <2>3. (1 .. n) \cap J = J
    BY <1>1, <1>7
  <2> QED BY <1>1, <1>4, <2>1, <2>2, <2>3
<1>9. \A i \in DOMAIN s : i \in I <=> \A j \in 1 .. m : p[j] # i
  OBVIOUS
<1>10. DOMAIN s \ I = J
  BY <1>7
<1>11. I \in SUBSET DOMAIN s
  OBVIOUS
<1> HIDE DEF I, J
<1> QED BY <1>6, <1>8, <1>9, <1>10, <1>11 DEF m, n, Leaves

\* t is s without the positions I, where s has what stands in u.
Middle(I, s, t, a, u, v) ==
  /\ I \in SUBSET DOMAIN s
  /\ \A i \in I : i - Len(a) \in DOMAIN u /\ s[i] = u[i - Len(a)]
  /\ t = Picked(s, DOMAIN s \ I)
  /\ Cardinality(I) = Len(u) - Len(v)

\* Part of what stands between a and b.
LEMMA MiddlePicked ==
  ASSUME NEW S, NEW a \in Seq(S), NEW b \in Seq(S), NEW u \in Seq(S), NEW v \in Seq(S),
         NEW q, Picks(q, v, u)
  PROVE  \E I : Middle(I, (a \o u) \o b, (a \o v) \o b, a, u, v)
<1> DEFINE s == (a \o u) \o b
           t == (a \o v) \o b
           A == Len(a)
           B == Len(b)
           U == Len(u)
           V == Len(v)
           p == [j \in 1 .. Len(t) |-> IF j <= A THEN j
                                       ELSE IF j <= A + V THEN A + q[j - A] ELSE j - V + U]
<1>1. /\ A \in Nat /\ B \in Nat /\ U \in Nat /\ V \in Nat /\ DOMAIN u = 1 .. U
      /\ q \in [1 .. V -> 1 .. U]
      /\ \A i, j \in 1 .. V : i < j => q[i] < q[j]
      /\ \A i \in 1 .. V : v[i] = u[q[i]]
  BY LenProperties DEF Picks
<1>2. ASSUME NEW w \in Seq(S)
      PROVE  /\ (a \o w) \o b \in Seq(S) /\ Len((a \o w) \o b) = A + Len(w) + B
             /\ Len(w) \in Nat
             /\ \A i \in 1 .. A + Len(w) + B : ((a \o w) \o b)[i] =
                  IF i <= A THEN a[i] ELSE IF i <= A + Len(w) THEN w[i - A]
                  ELSE b[i - (A + Len(w))]
  <2> DEFINE x == a \o w
             W == Len(w)
  <2>1. /\ x \in Seq(S) /\ Len(x) = A + W /\ W \in Nat
        /\ \A i \in 1 .. A + W : x[i] = IF i <= A THEN a[i] ELSE w[i - A]
    BY ConcatProperties, LenProperties
  <2> HIDE DEF x, A, B, W
  <2>2. /\ x \o b \in Seq(S) /\ Len(x \o b) = A + W + B
        /\ \A i \in 1 .. A + W + B : (x \o b)[i] = IF i <= A + W THEN x[i] ELSE b[i - (A + W)]
    <3>1. /\ x \o b \in Seq(S) /\ Len(x \o b) = Len(x) + B
          /\ \A i \in 1 .. Len(x) + B : (x \o b)[i] = IF i <= Len(x) THEN x[i] ELSE b[i - Len(x)]
      BY <2>1, ConcatProperties DEF B
    <3>2. Len(x) = A + W
      BY <2>1
    <3> QED BY ONLY <3>1, <3>2
  <2>3. \A i \in 1 .. A + W + B : i <= A + W => i \in 1 .. A + W
    BY <1>1, <2>1
  <2>4. \A i \in 1 .. A + W + B : i <= A => i <= A + W
    BY <1>1, <2>1
  <2>5. \A i \in 1 .. A + W + B : (x \o b)[i] =
           IF i <= A THEN a[i] ELSE IF i <= A + W THEN w[i - A] ELSE b[i - (A + W)]
    BY <2>1, <2>2, <2>3, <2>4
  <2> QED BY <2>1, <2>2, <2>5 DEF x, W
<1>3. /\ s \in Seq(S) /\ Len(s) = A + U + B /\ DOMAIN s = 1 .. A + U + B
      /\ \A i \in 1 .. A + U + B : s[i] =
           IF i <= A THEN a[i] ELSE IF i <= A + U THEN u[i - A] ELSE b[i - (A + U)]
  BY <1>2, LenProperties
<1>4. /\ t \in Seq(S) /\ Len(t) = A + V + B
      /\ \A i \in 1 .. A + V + B : t[i] =
           IF i <= A THEN a[i] ELSE IF i <= A + V THEN v[i - A] ELSE b[i - (A + V)]
  BY <1>2
<1> HIDE DEF s, t, A, B, U, V
<1>5. p = [j \in 1 .. A + V + B |-> IF j <= A THEN j
                                    ELSE IF j <= A + V THEN A + q[j - A] ELSE j - V + U]
  BY <1>4
<1> HIDE DEF p
<1>6. \A j \in 1 .. A + V + B :
        /\ j <= A => p[j] = j
        /\ ~(j <= A) /\ j <= A + V =>
             p[j] = A + q[j - A] /\ j - A \in 1 .. V /\ q[j - A] \in 1 .. U
        /\ ~(j <= A + V) => p[j] = j - V + U
  BY <1>1, <1>5
<1>n. A \in Nat /\ B \in Nat /\ U \in Nat /\ V \in Nat
  BY <1>1
<1>7. Picks(p, t, s)
  <2>1. p \in [1 .. A + V + B -> 1 .. A + U + B]
    <3>1. \A j \in 1 .. A + V + B : p[j] \in 1 .. A + U + B
      <4> SUFFICES ASSUME NEW j \in 1 .. A + V + B PROVE p[j] \in 1 .. A + U + B
        OBVIOUS
      <4>1. CASE j <= A
        <5>1. p[j] = j
          BY <1>6, <4>1
        <5>2. j \in 1 .. A + U + B
          BY ONLY j \in 1 .. A + V + B, <1>n, <4>1
        <5> QED BY ONLY <5>1, <5>2
      <4>2. CASE ~(j <= A) /\ j <= A + V
        <5>1. p[j] = A + q[j - A] /\ q[j - A] \in 1 .. U
          BY <1>6, <4>2
        <5> QED BY ONLY <1>n, <5>1
      <4>3. CASE ~(j <= A + V)
        <5>1. p[j] = j - V + U
          BY <1>6, <4>3
        <5> QED BY ONLY j \in 1 .. A + V + B, <1>n, <4>3, <5>1
      <4> QED BY <4>1, <4>2, <4>3
    <3> QED BY <1>5, <3>1
  <2>2. ASSUME NEW i \in 1 .. A + V + B, NEW j \in 1 .. A + V + B, i < j
        PROVE  p[i] < p[j]
    <3> DEFINE k == i - A
               l == j - A
    <3>1. /\ i <= A => p[i] = i
          /\ ~(i <= A) /\ i <= A + V => p[i] = A + q[k] /\ k \in 1 .. V /\ q[k] \in 1 .. U
          /\ ~(i <= A + V) => p[i] = i - V + U
      BY ONLY i \in 1 .. A + V + B, <1>6
    <3>2. /\ j <= A => p[j] = j
          /\ ~(j <= A) /\ j <= A + V => p[j] = A + q[l] /\ l \in 1 .. V /\ q[l] \in 1 .. U
          /\ ~(j <= A + V) => p[j] = j - V + U
      BY ONLY j \in 1 .. A + V + B, <1>6
    <3>3. i \in Int /\ j \in Int /\ i < j /\ k < l
      BY ONLY <1>n, <2>2, i \in 1 .. A + V + B, j \in 1 .. A + V + B
    <3>4. k \in 1 .. V /\ l \in 1 .. V => q[k] < q[l]
      BY <1>1, <3>3
    <3> HIDE DEF k, l
    <3> QED BY ONLY <1>n, <3>1, <3>2, <3>3, <3>4
  <2>3. ASSUME NEW i \in 1 .. A + V + B
        PROVE  t[i] = s[p[i]]
    <3>0. p[i] \in 1 .. A + U + B
      BY <2>1
    <3>1. CASE i <= A
      <4>1. p[i] = i /\ t[i] = a[i]
        BY <1>4, <1>6, <3>1
      <4> QED BY <1>3, <3>0, <3>1, <4>1
    <3>2. CASE ~(i <= A) /\ i <= A + V
      <4>1. /\ p[i] = A + q[i - A] /\ i - A \in 1 .. V /\ q[i - A] \in 1 .. U
            /\ v[i - A] = u[q[i - A]]
        BY <1>1, <1>6, <3>2
      <4>2. t[i] = v[i - A]
        BY <1>4, <3>2
      <4>3. ~(p[i] <= A) /\ p[i] <= A + U /\ p[i] - A = q[i - A]
        <5> DEFINE m == q[i - A]
        <5>1. p[i] = A + m /\ m \in 1 .. U
          BY <4>1
        <5> HIDE DEF m
        <5>2. ~(p[i] <= A) /\ p[i] <= A + U /\ p[i] - A = m
          BY ONLY <1>n, <5>1
        <5> QED BY <5>2 DEF m
      <4> QED BY <1>3, <3>0, <4>1, <4>2, <4>3
    <3>3. CASE ~(i <= A + V)
      <4>1. p[i] = i - V + U /\ ~(p[i] <= A + U) /\ ~(p[i] <= A) /\ ~(i <= A)
            /\ p[i] - (A + U) = i - (A + V)
        <5>1. p[i] = i - V + U
          BY <1>6, <3>3
        <5> QED BY ONLY i \in 1 .. A + V + B, <1>n, <3>3, <5>1
      <4>2. t[i] = b[i - (A + V)]
        BY <1>4, <3>3, <4>1
      <4> QED BY <1>3, <3>0, <4>1, <4>2
    <3> QED BY <1>1, <3>1, <3>2, <3>3
  <2> QED BY <1>3, <1>4, <2>1, <2>2, <2>3 DEF Picks
<1>8. PICK I \in SUBSET DOMAIN s :
        /\ \A i \in DOMAIN s : i \in I <=> \A j \in 1 .. Len(t) : p[j] # i
        /\ t = Picked(s, DOMAIN s \ I)
        /\ Cardinality(I) = Len(s) - Len(t)
  <2>1. s \in Seq(S) /\ t \in Seq(S)
    BY <1>3, <1>4
  <2>2. \E I : Leaves(I, p, t, s)
    BY ONLY <1>7, <2>1, PickedIs
  <2> QED BY <2>2 DEF Leaves
<1>9. Cardinality(I) = U - V
  <2>1. Len(s) = A + U + B /\ Len(t) = A + V + B /\ Cardinality(I) = Len(s) - Len(t)
    BY <1>3, <1>4, <1>8
  <2> QED BY ONLY <1>1, <2>1
<1>10. ASSUME NEW i \in I
       PROVE  i - A \in DOMAIN u /\ s[i] = u[i - A]
  <2>1. i \in 1 .. A + U + B /\ \A j \in 1 .. A + V + B : p[j] # i
    BY <1>3, <1>4, <1>8
  <2>2. ~(i <= A)
    <3>1. i <= A => i \in 1 .. A + V + B
      BY <1>1, <2>1
    <3> QED BY <1>6, <2>1, <3>1
  <2>3. i <= A + U
    <3> SUFFICES ASSUME ~(i <= A + U) PROVE FALSE
      BY <1>1, <2>1
    <3>1. i - U + V \in 1 .. A + V + B /\ ~(i - U + V <= A + V) /\ (i - U + V) - V + U = i
      BY <1>1, <2>1
    <3> QED BY <1>6, <2>1, <3>1
  <2> QED BY <1>1, <1>3, <2>1, <2>2, <2>3
<1>11. Middle(I, s, t, a, u, v)
  BY <1>8, <1>9, <1>10 DEF Middle, A, U, V
<1> QED BY <1>11 DEF s, t

-----------------------------------------------------------------------------
\* The lines of one day among the lines of all.

\* What is appended in the middle is inserted there.
LEMMA MiddleInserted ==
  ASSUME NEW S, NEW x \in Seq(S), NEW b \in Seq(S), NEW e \in S
  PROVE  (x \o <<e>>) \o b = InsertAt(x \o b, Len(x) + 1, e)
<1> DEFINE s == x \o b
           X == Len(x)
           n == X + 1
<1>1. X \in Nat /\ Len(b) \in Nat /\ <<e>> \in Seq(S) /\ n \in Int /\ n - 1 = X
  BY LenProperties
<1>3. /\ s \in Seq(S) /\ Len(s) = X + Len(b)
      /\ \A i \in 1 .. X + Len(b) : s[i] = IF i <= X THEN x[i] ELSE b[i - X]
  BY <1>1, ConcatProperties
<1> HIDE DEF s
<1>4. SubSeq(s, 1, X) = x
  <2>1. X \in 0 .. Len(s)
    BY <1>1, <1>3
  <2>2. /\ SubSeq(s, 1, X) \in Seq(S) /\ Len(SubSeq(s, 1, X)) = X
        /\ \A i \in 1 .. X : SubSeq(s, 1, X)[i] = s[i]
    BY <1>3, <2>1, FrontProperties
  <2> DEFINE y == SubSeq(s, 1, X)
  <2>3. \A i \in 1 .. X : y[i] = x[i]
    BY <1>1, <1>3, <2>2
  <2> HIDE DEF y
  <2>4. y \in Seq(S) /\ Len(y) = Len(x) /\ \A i \in 1 .. Len(y) : y[i] = x[i]
    BY <2>2, <2>3 DEF y
  <2>5. y = x
    BY ONLY <1>1, <2>4, SeqEqual
  <2> QED BY <2>5 DEF y
<1>5. SubSeq(s, n, Len(s)) = b
  <2> DEFINE y == SubSeq(s, n, Len(s))
             m == Len(s)
  <2>1. \A i \in n .. m : s[i] \in S
    <3>1. \A i \in n .. m : i \in 1 .. m
      BY <1>1, <1>3
    <3> QED BY <1>3, <3>1, ElementOfSeq
  <2>2. m \in Int
    BY <1>1, <1>3
  <2>3. /\ y \in Seq(S) /\ Len(y) = IF n <= m THEN m - n + 1 ELSE 0
        /\ \A i \in 1 .. m - n + 1 : y[i] = s[n + i - 1]
    BY <1>1, <2>1, <2>2, SubSeqProperties
  <2> HIDE DEF y
  <2>4. Len(y) = Len(b) /\ m - n + 1 = Len(b)
    BY <1>1, <1>3, <2>3
  <2>5. \A i \in 1 .. Len(b) : y[i] = b[i]
    <3> SUFFICES ASSUME NEW i \in 1 .. Len(b) PROVE y[i] = b[i]
      OBVIOUS
    <3>1. n + i - 1 = X + i /\ X + i \in 1 .. X + Len(b) /\ ~(X + i <= X) /\ (X + i) - X = i
      BY <1>1
    <3>2. y[i] = s[n + i - 1]
      BY <2>3, <2>4
    <3> QED BY <1>3, <3>1, <3>2
  <2> QED BY <2>3, <2>4, <2>5, SeqEqual DEF y
<1>6. InsertAt(s, n, e) = (x \o <<e>>) \o b
  <2>1. InsertAt(s, n, e) = (SubSeq(s, 1, n - 1) \o <<e>>) \o SubSeq(s, n, Len(s))
    BY DEF InsertAt
  <2>2. SubSeq(s, 1, n - 1) = x
    BY <1>1, <1>4
  <2> QED BY ONLY <1>5, <2>1, <2>2
<1> HIDE DEF n
<1> QED BY <1>6 DEF s, n

\* The lines of one day stand together between those of other dates.
ObjLines(objs) == [i \in DOMAIN objs |-> FileLine(objs[i].apt)]

\* No line of s is of the date.
Without(s, date) == \A i \in DOMAIN s : s[i][1] # date

\* Neither have two sequences together a line of the date, if none of them has.
LEMMA ConcatWithout ==
  ASSUME NEW s \in Seq(Line), NEW t \in Seq(Line), NEW date, Without(s, date), Without(t, date)
  PROVE  Without(s \o t, date)
<1>1. Len(s) \in Nat /\ Len(t) \in Nat /\ DOMAIN s = 1 .. Len(s) /\ DOMAIN t = 1 .. Len(t)
  BY LenProperties
<1>2. /\ s \o t \in Seq(Line) /\ DOMAIN (s \o t) = 1 .. Len(s) + Len(t)
      /\ \A i \in 1 .. Len(s) + Len(t) : (s \o t)[i] = IF i <= Len(s) THEN s[i] ELSE t[i - Len(s)]
  BY ConcatProperties, LenProperties
<1>3. ASSUME NEW i \in 1 .. Len(s) + Len(t)
      PROVE  (s \o t)[i][1] # date
  <2>1. CASE i <= Len(s)
    BY <1>1, <1>2, <2>1 DEF Without
  <2>2. CASE ~(i <= Len(s))
    <3>1. i - Len(s) \in 1 .. Len(t)
      BY <1>1, <2>2
    <3> QED BY <1>1, <1>2, <2>2, <3>1 DEF Without
  <2> QED BY <2>1, <2>2
<1> QED BY <1>2, <1>3 DEF Without

\* The lines of the other days are of other dates.
LEMMA OtherDays ==
  ASSUME NEW ds \in Seq(Day), UniqueDates(ds), Filed(ds), NEW d \in DOMAIN ds, NEW e \in DOMAIN ds,
         d # e
  PROVE  Without(LinesOf(ds[e]), ds[d].date)
<1>1. ds[e].date # ds[d].date
  BY DEF UniqueDates
<1>2. \A i \in DOMAIN ds[e].appointments : LinesOf(ds[e])[i][1] = ds[e].date
  BY DEF Filed, LinesOf, FileLine
<1>3. DOMAIN LinesOf(ds[e]) = DOMAIN ds[e].appointments
  BY DEF LinesOf
<1> QED BY <1>1, <1>2, <1>3 DEF Without

\* The lines of the days are those before a day, those of the day and those after it, and
\* only the middle changes when the day does.
LEMMA LinesSplit ==
  ASSUME NEW ds \in Seq(Day), UniqueDates(ds), Filed(ds), NEW d \in DOMAIN ds
  PROVE  \E a, b \in Seq(Line) :
           /\ Without(a, ds[d].date) /\ Without(b, ds[d].date)
           /\ \A objs \in Seq(Object) :
                Lines(WithAppointments(ds, d, objs)) = (a \o ObjLines(objs)) \o b
<1> DEFINE N         == Len(ds)
           date      == ds[d].date
           With(objs) == WithAppointments(ds, d, objs)
           To(objs, n) == Lines(SubSeq(With(objs), 1, n))
           From(n)   == Lines(SubSeq(ds, 1, n))
<1>1. N \in Nat /\ DOMAIN ds = 1 .. N /\ d \in 1 .. N /\ d - 1 \in 0 .. N /\ d \in Nat
  BY LenProperties
<1>2. ASSUME NEW n \in 0 .. N - 1
      PROVE  /\ n + 1 \in DOMAIN ds /\ ds[n + 1] \in Day
             /\ From(n) \in Seq(Line) /\ From(n + 1) = From(n) \o LinesOf(ds[n + 1])
  <2>1. n \in 0 .. N /\ n < N /\ n + 1 \in DOMAIN ds
    BY <1>1
  <2>2. /\ SubSeq(ds, 1, n) \in Seq(Day) /\ ds[n + 1] \in Day
        /\ SubSeq(ds, 1, n + 1) = Append(SubSeq(ds, 1, n), ds[n + 1])
    BY <2>1, FrontProperties
  <2> QED BY <2>1, <2>2, LinesAppend
<1>3. ASSUME NEW objs \in Seq(Object)
      PROVE  /\ With(objs) \in Seq(Day) /\ Len(With(objs)) = N
             /\ \A e \in 1 .. N : e # d => With(objs)[e] = ds[e]
             /\ LinesOf(With(objs)[d]) = ObjLines(objs) /\ ObjLines(objs) \in Seq(Line)
             /\ To(objs, N) = Lines(With(objs))
             /\ \A n \in 0 .. N - 1 : /\ With(objs)[n + 1] \in Day
                                      /\ To(objs, n) \in Seq(Line)
                                      /\ To(objs, n + 1) = To(objs, n) \o LinesOf(With(objs)[n + 1])
  <2> DEFINE w == With(objs)
  <2>1. w \in Seq(Day) /\ DOMAIN w = 1 .. N /\ w[d].appointments = objs /\ w[d] \in Day
    <3>1. /\ WithAppointments(ds, d, objs) \in Seq(Day)
          /\ DOMAIN WithAppointments(ds, d, objs) = DOMAIN ds
          /\ WithAppointments(ds, d, objs)[d].appointments = objs
      BY UpdateDay
    <3>2. WithAppointments(ds, d, objs)[d] \in Day
      BY <3>1, DayType
    <3> QED BY <1>1, <3>1, <3>2
  <2>2. \A e \in 1 .. N : e # d => w[e] = ds[e]
    BY <1>1 DEF WithAppointments
  <2>3. LinesOf(w[d]) = ObjLines(objs) /\ LinesOf(w[d]) \in Seq(Line)
    BY <2>1, LinesOfType DEF LinesOf, ObjLines
  <2> HIDE DEF w
  <2>4. Len(w) = N
    BY <1>1, <2>1, LenProperties
  <2>5. ASSUME NEW n \in 0 .. N - 1
        PROVE  /\ w[n + 1] \in Day /\ Lines(SubSeq(w, 1, n)) \in Seq(Line)
               /\ Lines(SubSeq(w, 1, n + 1)) = Lines(SubSeq(w, 1, n)) \o LinesOf(w[n + 1])
    <3>1. n \in 0 .. Len(w) /\ n < Len(w)
      BY <1>1, <2>4
    <3>2. /\ SubSeq(w, 1, n) \in Seq(Day) /\ w[n + 1] \in Day
          /\ SubSeq(w, 1, n + 1) = Append(SubSeq(w, 1, n), w[n + 1])
      BY <2>1, <3>1, FrontProperties
    <3> QED BY <3>2, LinesAppend
  <2>6. SubSeq(w, 1, N) = w
    <3>1. N \in 0 .. Len(w) /\ N = Len(w)
      BY <1>1, <2>4
    <3> QED BY <2>1, <3>1, FrontProperties
  <2> QED BY <2>1, <2>2, <2>3, <2>4, <2>5, <2>6 DEF w
<1> HIDE DEF With
\* The days before: the same, whatever objs.
<1>4. ASSUME NEW objs \in Seq(Object)
      PROVE  \A n \in 0 .. d - 1 : To(objs, n) = From(n) /\ Without(From(n), date)
  <2> DEFINE P == {n \in 0 .. d - 1 : To(objs, n) = From(n) /\ Without(From(n), date)}
             M == d - 1
  <2>1. 0 \in P
    <3>1. SubSeq(With(objs), 1, 0) = <<>> /\ SubSeq(ds, 1, 0) = <<>> /\ Lines(<<>>) = <<>>
      BY SubSeqEmpty, LinesAppend
    <3>2. 0 \in 0 .. d - 1
      BY <1>1
    <3>3. To(objs, 0) = <<>> /\ From(0) = <<>>
      BY <3>1
    <3>4. Without(<<>>, date)
      BY EmptySeq DEF Without
    <3> HIDE DEF To, From, date
    <3> QED BY <3>2, <3>3, <3>4
  <2>2. ASSUME NEW n \in 0 .. M - 1, n \in P
        PROVE  n + 1 \in P
    <3>1. n \in 0 .. N - 1 /\ n + 1 # d /\ n + 1 \in 1 .. N /\ n + 1 \in 0 .. d - 1
      BY <1>1
    <3>2. To(objs, n) = From(n) /\ Without(From(n), date)
      BY <2>2
    <3>3. /\ n + 1 \in DOMAIN ds /\ ds[n + 1] \in Day /\ From(n) \in Seq(Line)
          /\ From(n + 1) = From(n) \o LinesOf(ds[n + 1])
      BY ONLY <1>2, <3>1
    <3>4. To(objs, n + 1) = To(objs, n) \o LinesOf(With(objs)[n + 1]) /\ With(objs)[n + 1] = ds[n + 1]
      BY ONLY <1>3, <3>1, objs \in Seq(Object)
    <3>5. LinesOf(ds[n + 1]) \in Seq(Line) /\ Without(LinesOf(ds[n + 1]), date)
      BY <3>1, <3>3, LinesOfType, OtherDays
    <3> HIDE DEF To, From, date
    <3>6. Without(From(n + 1), date)
      BY <3>2, <3>3, <3>5, ConcatWithout
    <3>7. To(objs, n + 1) = From(n + 1)
      BY <3>2, <3>3, <3>4
    <3> QED BY <3>1, <3>6, <3>7
  <2>3. M \in Nat
    BY <1>1
  <2> HIDE DEF P, M
  <2>4. \A n \in 0 .. M : n \in P
    BY <2>1, <2>2, <2>3, Induct
  <2> QED BY <2>4 DEF P, M
\* The days after.
<1> DEFINE a == From(d - 1)
           Q == {n \in 0 .. N - d : \E b \in Seq(Line) :
                   /\ Without(b, date)
                   /\ \A objs \in Seq(Object) : To(objs, d + n) = (a \o ObjLines(objs)) \o b}
<1>5. a \in Seq(Line) /\ Without(a, date)
  <2>1. <<>> \in Seq(Object)
    BY EmptySeq
  <2>2. d - 1 \in 0 .. d - 1 /\ d - 1 \in 0 .. N - 1
    BY <1>1
  <2> QED BY <1>2, <1>4, <2>1, <2>2
<1>6. 0 \in Q
  <2>1. ASSUME NEW objs \in Seq(Object)
        PROVE  To(objs, d + 0) = (a \o ObjLines(objs)) \o <<>>
    <3>1. d - 1 \in 0 .. N - 1 /\ d - 1 \in 0 .. d - 1 /\ (d - 1) + 1 = d /\ d + 0 = d
      BY <1>1
    <3>2. To(objs, d) = To(objs, d - 1) \o LinesOf(With(objs)[d])
      BY <1>3, <3>1
    <3>3. To(objs, d - 1) = a /\ LinesOf(With(objs)[d]) = ObjLines(objs) /\ ObjLines(objs) \in Seq(Line)
      BY <1>3, <1>4, <3>1
    <3> HIDE DEF To, a
    <3>4. (a \o ObjLines(objs)) \o <<>> = a \o ObjLines(objs)
      BY <1>5, <3>3, ConcatProperties, ConcatEmptySeq
    <3> QED BY <3>1, <3>2, <3>3, <3>4
  <2>2. <<>> \in Seq(Line) /\ Without(<<>>, date) /\ 0 \in 0 .. N - d
    BY <1>1, EmptySeq DEF Without
  <2> QED BY <2>1, <2>2
<1>7. ASSUME NEW n \in 0 .. (N - d) - 1, n \in Q
      PROVE  n + 1 \in Q
  <2>1. PICK b \in Seq(Line) :
          /\ Without(b, date)
          /\ \A objs \in Seq(Object) : To(objs, d + n) = (a \o ObjLines(objs)) \o b
    BY <1>7
  <2> DEFINE m == d + n
             x == LinesOf(ds[m + 1])
  <2>2. m \in 0 .. N - 1 /\ m + 1 # d /\ m + 1 \in 1 .. N /\ m + 1 = d + (n + 1) /\ n + 1 \in 0 .. N - d
    BY SMTT(20), <1>1
  <2> HIDE DEF m
  <2>3. x \in Seq(Line) /\ Without(x, date)
    <3>1. ds[m + 1] \in Day /\ m + 1 \in DOMAIN ds
      BY <1>1, <2>2, DayType
    <3> QED BY <2>2, <3>1, LinesOfType, OtherDays
  <2>4. b \o x \in Seq(Line) /\ Without(b \o x, date)
    <3> HIDE DEF x, date
    <3> QED BY <2>1, <2>3, ConcatProperties, ConcatWithout
  <2>5. ASSUME NEW objs \in Seq(Object)
        PROVE  To(objs, m + 1) = (a \o ObjLines(objs)) \o (b \o x)
    <3> DEFINE y == a \o ObjLines(objs)
    <3>1. To(objs, m + 1) = To(objs, m) \o x
      BY <1>3, <2>2
    <3>2. To(objs, m) = y \o b
      BY <2>1 DEF m
    <3>3. y \in Seq(Line)
      <4>1. ObjLines(objs) \in Seq(Line)
        BY <1>3
      <4> HIDE DEF a
      <4>2. a \in Seq(Line)
        BY <1>5
      <4> QED BY ONLY <4>1, <4>2, ConcatProperties
    <3> HIDE DEF y, x, To
    <3>4. (y \o b) \o x = y \o (b \o x)
      BY <2>3, <3>3, ConcatAssociative
    <3>5. To(objs, m + 1) = y \o (b \o x)
      BY <3>1, <3>2, <3>4
    <3> QED BY <3>5 DEF y
  <2> HIDE DEF To, a, x, date
  <2> QED BY <2>2, <2>4, <2>5
<1>8. N - d \in Nat
  BY <1>1
<1>9. N - d \in Q
  <2> DEFINE M == N - d
  <2> HIDE DEF Q, M
  <2>1. \A n \in 0 .. M : n \in Q
    BY <1>6, <1>7, <1>8, Induct DEF M
  <2>2. M \in 0 .. M
    BY <1>8 DEF M
  <2> QED BY <2>1, <2>2 DEF M
<1>10. PICK b \in Seq(Line) :
         /\ Without(b, date)
         /\ \A objs \in Seq(Object) : To(objs, d + (N - d)) = (a \o ObjLines(objs)) \o b
  BY <1>9
<1>11. d + (N - d) = N
  BY <1>1
<1>12. \A objs \in Seq(Object) : Lines(With(objs)) = (a \o ObjLines(objs)) \o b
  BY <1>3, <1>10, <1>11
<1> HIDE DEF a, date
<1>13. \A objs \in Seq(Object) : Lines(WithAppointments(ds, d, objs)) = (a \o ObjLines(objs)) \o b
  BY <1>12 DEF With
<1> QED BY <1>5, <1>10, <1>13 DEF date

\* All appointments of the days.
Booked(ds) == UNION {ToSet(ds[d].appointments) : d \in DOMAIN ds}

\* The lines of the days are those of the bookings in them.
LEMMA LinesSet ==
  ASSUME NEW ds \in Seq(Day)
  PROVE  ToSet(Lines(ds)) = {FileLine(o.apt) : o \in Booked(ds)}
<1> DEFINE N  == Len(ds)
           ss == [d \in DOMAIN ds |-> LinesOf(ds[d])]
<1>1. N \in Nat /\ DOMAIN ds = 1 .. N /\ ss \in [1 .. N -> Seq(Line)]
  BY LenProperties, DayType, LinesOfType
<1>2. Lines(ds) = FlattenSeq(ss)
  BY DEF Lines, LinesOf
<1>3. \A d \in 1 .. N : ToSet(ss[d]) = {FileLine(o.apt) : o \in ToSet(ds[d].appointments)}
  BY <1>1 DEF LinesOf, ToSet
<1> HIDE DEF ss
<1>4. ToSet(Lines(ds)) = UNION {ToSet(ss[d]) : d \in 1 .. N}
  BY <1>1, <1>2, FlattenProperties
<1>5. ASSUME NEW l
      PROVE  l \in ToSet(Lines(ds)) <=> l \in {FileLine(o.apt) : o \in Booked(ds)}
  <2>1. l \in ToSet(Lines(ds)) <=> \E d \in 1 .. N : l \in ToSet(ss[d])
    BY <1>4
  <2>2. l \in {FileLine(o.apt) : o \in Booked(ds)} <=>
          \E d \in 1 .. N : \E o \in ToSet(ds[d].appointments) : l = FileLine(o.apt)
    BY <1>1 DEF Booked
  <2>3. \A d \in 1 .. N : l \in ToSet(ss[d]) <=> \E o \in ToSet(ds[d].appointments) : l = FileLine(o.apt)
    BY <1>3
  <2> QED BY <2>1, <2>2, <2>3
<1> QED BY <1>5

\* What a search finds: everything, the appointments of one date, or those that match.
LEMMA SearchFinds ==
  ASSUME NEW ds \in Seq(Day), Filed(ds), NEW k
  PROVE  /\ DbSearch(ds, k) \in Seq(Object)
         /\ ToSet(DbSearch(ds, k)) =
              {o \in Booked(ds) : \/ k = Empty
                                  \/ k \in Slashed /\ o.apt.date = k
                                  \/ k \notin Slashed /\ Matches(o.apt, k)}
<1> DEFINE N    == Len(ds)
           day  == [d \in DOMAIN ds |-> ds[d].appointments]
           all  == FlattenSeq(day)
           same == [d \in DOMAIN ds |-> IF ds[d].date = k THEN ds[d].appointments ELSE <<>>]
           some == [i \in DOMAIN all |-> IF Matches(all[i].apt, k) THEN <<all[i]>> ELSE <<>>]
<1>1. N \in Nat /\ DOMAIN ds = 1 .. N /\ \A d \in 1 .. N : ds[d].appointments \in Seq(Object)
  BY LenProperties, DayType
<1>2. <<>> \in Seq(Object) /\ ToSet(<<>>) = {}
  BY EmptySeq DEF ToSet
<1>3. all \in Seq(Object) /\ ToSet(all) = Booked(ds)
  <2>1. day \in [1 .. N -> Seq(Object)]
    BY <1>1
  <2>2. {ToSet(day[i]) : i \in 1 .. N} = {ToSet(ds[d].appointments) : d \in DOMAIN ds}
    BY <1>1
  <2> HIDE DEF day
  <2> QED BY <1>1, <2>1, <2>2, FlattenProperties DEF Booked
<1>4. FlattenSeq(same) \in Seq(Object) /\ ToSet(FlattenSeq(same)) = {o \in Booked(ds) : o.apt.date = k}
  <2>1. /\ same \in [1 .. N -> Seq(Object)]
        /\ \A i \in 1 .. N : ToSet(same[i]) = IF ds[i].date = k THEN ToSet(ds[i].appointments) ELSE {}
    BY <1>1, <1>2
  <2> HIDE DEF same
  <2>2. /\ FlattenSeq(same) \in Seq(Object)
        /\ ToSet(FlattenSeq(same)) = UNION {ToSet(same[i]) : i \in 1 .. N}
    BY <1>1, <2>1, FlattenProperties
  <2>3. \A i \in 1 .. N : \A o \in ToSet(ds[i].appointments) : o.apt.date = ds[i].date
    BY <1>1 DEF Filed, ToSet
  <2>4. ASSUME NEW o
        PROVE  o \in ToSet(FlattenSeq(same)) <=> o \in Booked(ds) /\ o.apt.date = k
    <3>1. o \in ToSet(FlattenSeq(same)) <=> \E i \in 1 .. N : o \in ToSet(same[i])
      BY <2>2
    <3>2. o \in Booked(ds) <=> \E i \in 1 .. N : o \in ToSet(ds[i].appointments)
      BY <1>1 DEF Booked
    <3> QED BY <2>1, <2>3, <3>1, <3>2
  <2> QED BY <2>2, <2>4
<1> HIDE DEF all
<1>5. FlattenSeq(some) \in Seq(Object) /\ ToSet(FlattenSeq(some)) = {o \in Booked(ds) : Matches(o.apt, k)}
  <2>1. Len(all) \in Nat /\ DOMAIN all = 1 .. Len(all)
    BY <1>3, LenProperties
  <2>2. ASSUME NEW i \in 1 .. Len(all)
        PROVE  <<all[i]>> \in Seq(Object) /\ ToSet(<<all[i]>>) = {all[i]}
    <3>1. all[i] \in Object
      BY <1>3, <2>1, ObjectType
    <3> QED BY <3>1 DEF ToSet
  <2>3. /\ some \in [1 .. Len(all) -> Seq(Object)]
        /\ \A i \in 1 .. Len(all) : ToSet(some[i]) = IF Matches(all[i].apt, k) THEN {all[i]} ELSE {}
    BY <1>2, <2>1, <2>2
  <2> HIDE DEF some
  <2>4. /\ FlattenSeq(some) \in Seq(Object)
        /\ ToSet(FlattenSeq(some)) = UNION {ToSet(some[i]) : i \in 1 .. Len(all)}
    BY <2>1, <2>3, FlattenProperties
  <2>5. ASSUME NEW o
        PROVE  o \in ToSet(FlattenSeq(some)) <=> o \in Booked(ds) /\ Matches(o.apt, k)
    <3>1. o \in ToSet(FlattenSeq(some)) <=> \E i \in 1 .. Len(all) : o \in ToSet(some[i])
      BY <2>4
    <3>2. o \in Booked(ds) <=> \E i \in 1 .. Len(all) : o = all[i]
      BY <1>3, <2>1 DEF ToSet
    <3> QED BY <2>3, <3>1, <3>2
  <2> QED BY <2>4, <2>5
<1>6. CASE k = Empty
  <2>1. DbSearch(ds, k) = all
    BY <1>6, TextAssumption DEF DbSearch, all
  <2> QED BY <1>3, <1>6, <2>1
<1>7. CASE k # Empty /\ k \in Slashed
  <2>1. DbSearch(ds, k) = FlattenSeq(same)
    BY <1>7 DEF DbSearch
  <2> HIDE DEF same
  <2> QED BY <1>4, <1>7, <2>1
<1>8. CASE k # Empty /\ k \notin Slashed
  <2>1. DbSearch(ds, k) = FlattenSeq(some)
    BY <1>8 DEF DbSearch, all
  <2> HIDE DEF some
  <2> QED BY <1>5, <1>8, <2>1
<1> QED BY <1>6, <1>7, <1>8

\* A booking is read back from its line, of which the date is the first field.
LEMMA LineOf ==
  ASSUME NEW apt \in Appointment
  PROVE  ParseLine(FileLine(apt)) = apt /\ FileLine(apt)[1] = apt.date
BY DEF ParseLine, FileLine, Appointment

\* The lines that a delete is about.
MatchedIn(s, date, time, contactee) ==
  {i \in DOMAIN s :
     LET apt == ParseLine(s[i])
     IN  /\ apt.date = date
         /\ contactee # Empty /\ Matches(apt, contactee)
         /\ Matches(apt, time)}

\* The appointments that it is about.
Hits(objs, time, contactee) ==
  {o \in ToSet(objs) : Matches(o.apt, contactee) /\ Matches(o.apt, time)}

\* Of the lines of one date those match that are of matching appointments.
LEMMA MiddleMatched ==
  ASSUME NEW objs \in Seq(Object), Increasing(objs), NEW date,
         \A o \in ToSet(objs) : o.apt.date = date,
         NEW a \in Seq(Line), NEW b \in Seq(Line), Without(a, date), Without(b, date),
         NEW l, NEW k, k # Empty
  PROVE  Cardinality(MatchedIn((a \o ObjLines(objs)) \o b, date, l, k)) = Cardinality(Hits(objs, l, k))
<1> DEFINE A == Len(a)
           B == Len(b)
           U == Len(objs)
           u == ObjLines(objs)
           s == (a \o u) \o b
           I == {i \in DOMAIN s : LET apt == ParseLine(s[i])
                                  IN  apt.date = date /\ k # Empty /\ Matches(apt, k) /\ Matches(apt, l)}
           O == {o \in ToSet(objs) : Matches(o.apt, k) /\ Matches(o.apt, l)}
           f == [i \in I |-> objs[i - A]]
<1>1. /\ A \in Nat /\ B \in Nat /\ U \in Nat /\ DOMAIN a = 1 .. A /\ DOMAIN b = 1 .. B
      /\ DOMAIN objs = 1 .. U
  BY LenProperties
<1>2. \A i \in 1 .. U : objs[i] \in Object /\ objs[i].apt \in Appointment
  BY <1>1, ObjectType DEF Object
<1>3. /\ u \in Seq(Line) /\ Len(u) = U
      /\ \A i \in 1 .. U : u[i] = FileLine(objs[i].apt)
  <2>1. u \in [1 .. U -> Line]
    BY <1>1, <1>2, LineTypes DEF ObjLines
  <2>2. u \in Seq(Line)
    BY <1>1, <2>1, SeqDef
  <2> QED BY <1>1, <2>1, <2>2, LenProperties DEF ObjLines
<1> HIDE DEF u
<1>4. /\ DOMAIN s = 1 .. A + U + B
      /\ \A i \in 1 .. A + U + B : s[i] =
           IF i <= A THEN a[i] ELSE IF i <= A + U THEN u[i - A] ELSE b[i - (A + U)]
  <2> DEFINE x == a \o u
  <2>1. /\ x \in Seq(Line) /\ Len(x) = A + U
        /\ \A i \in 1 .. A + U : x[i] = IF i <= A THEN a[i] ELSE u[i - A]
    <3>1. /\ x \in Seq(Line) /\ Len(x) = A + Len(u)
          /\ \A i \in 1 .. A + Len(u) : x[i] = IF i <= A THEN a[i] ELSE u[i - A]
      BY <1>3, ConcatProperties
    <3>2. Len(u) = U
      BY <1>3
    <3> HIDE DEF x, A, U
    <3> QED BY ONLY <3>1, <3>2
  <2> HIDE DEF x, A, B
  <2>2. /\ x \o b \in Seq(Line) /\ Len(x \o b) = Len(x) + B
        /\ \A i \in 1 .. Len(x) + B : (x \o b)[i] = IF i <= Len(x) THEN x[i] ELSE b[i - Len(x)]
    BY <2>1, ConcatProperties DEF B
  <2>3. \A i \in 1 .. A + U + B : (x \o b)[i] = IF i <= A + U THEN x[i] ELSE b[i - (A + U)]
    BY <2>1, <2>2
  <2>4. \A i \in 1 .. A + U + B : (i <= A + U => i \in 1 .. A + U) /\ (i <= A => i <= A + U)
    BY <1>1
  <2>5. DOMAIN (x \o b) = 1 .. A + U + B
    BY <2>1, <2>2, LenProperties
  <2>6. \A i \in 1 .. A + U + B : (x \o b)[i] =
           IF i <= A THEN a[i] ELSE IF i <= A + U THEN u[i - A] ELSE b[i - (A + U)]
    BY <2>1, <2>3, <2>4
  <2> QED BY <2>5, <2>6 DEF x
<1> HIDE DEF s, A, B, U
<1>5. \A i \in 1 .. A + U + B : ParseLine(s[i]).date = s[i][1]
  BY DEF ParseLine
<1>6. ASSUME NEW i \in I
      PROVE  i - A \in 1 .. U /\ i \in Int /\ objs[i - A] \in O
  <2>1. i \in 1 .. A + U + B /\ s[i][1] = date
    BY <1>4, <1>5
  <2>2. ~(i <= A)
    <3>1. i <= A => i \in 1 .. A
      BY <1>1, <2>1
    <3> QED BY <1>1, <1>4, <2>1, <3>1 DEF Without
  <2>3. i <= A + U
    <3>1. ~(i <= A + U) => i - (A + U) \in 1 .. B
      BY <1>1, <2>1
    <3> QED BY <1>1, <1>4, <2>1, <2>2, <3>1 DEF Without
  <2>4. i - A \in 1 .. U
    BY <1>1, <2>1, <2>2, <2>3
  <2>5. s[i] = FileLine(objs[i - A].apt)
    BY <1>3, <1>4, <2>1, <2>2, <2>3, <2>4
  <2>6. ParseLine(s[i]) = objs[i - A].apt
    BY <1>2, <2>4, <2>5, LineOf
  <2>7. objs[i - A] \in ToSet(objs)
    BY <1>1, <2>4 DEF ToSet
  <2> QED BY <2>1, <2>4, <2>6, <2>7
<1>7. ASSUME NEW o \in O
      PROVE  \E i \in I : f[i] = o
  <2>1. PICK j \in 1 .. U : objs[j] = o
    BY <1>1 DEF ToSet
  <2>2. A + j \in 1 .. A + U + B /\ ~(A + j <= A) /\ A + j <= A + U /\ (A + j) - A = j
    BY <1>1
  <2>3. s[A + j] = FileLine(o.apt)
    BY <1>3, <1>4, <2>1, <2>2
  <2>4. ParseLine(s[A + j]) = o.apt
    BY <1>2, <2>1, <2>3, LineOf
  <2>5. A + j \in I
    BY <1>4, <2>2, <2>4
  <2>6. f[A + j] = objs[(A + j) - A]
    BY <2>5
  <2> QED BY <2>1, <2>2, <2>5, <2>6
<1>8. f \in [I -> O]
  BY <1>6
<1>9. \A x, y \in I : f[x] = f[y] => x = y
  <2> SUFFICES ASSUME NEW x \in I, NEW y \in I, f[x] = f[y] PROVE x = y
    OBVIOUS
  <2>1. x - A \in 1 .. U /\ y - A \in 1 .. U /\ x \in Int /\ y \in Int /\ objs[x - A] = objs[y - A]
    BY <1>6
  <2>2. \A i, j \in 1 .. U : i < j => objs[i].id # objs[j].id
    <3>1. \A i \in 1 .. U : objs[i].id \in Nat
      BY <1>2 DEF Object
    <3>2. \A i, j \in 1 .. U : i < j => objs[i].id < objs[j].id
      BY <1>1 DEF Increasing
    <3> QED BY <3>1, <3>2
  <2>3. x - A = y - A
    <3> DEFINE i == x - A
               j == y - A
    <3>1. i \in 1 .. U /\ j \in 1 .. U /\ objs[i] = objs[j]
      BY <2>1
    <3> HIDE DEF i, j
    <3>2. i = j
      BY <1>1, <2>2, <3>1
    <3> QED BY <3>2 DEF i, j
  <2> QED BY <1>1, <2>1, <2>3
<1>10. IsFiniteSet(I)
  <2>1. I \subseteq 1 .. A + U + B
    BY <1>4
  <2>2. IsFiniteSet(1 .. A + U + B)
    <3>1. 1 \in Int /\ A + U + B \in Int
      BY <1>1
    <3> QED BY ONLY <3>1, FS_Interval
  <2> HIDE DEF I
  <2> QED BY <2>1, <2>2, FS_Subset
<1> HIDE DEF I, O, f
<1>11. ExistsBijection(I, O)
  BY <1>7, <1>8, <1>9, CountedBy
<1>12. Cardinality(I) = Cardinality(O)
  BY <1>10, <1>11, FS_Bijection
<1>13. I = MatchedIn(s, date, l, k) /\ O = Hits(objs, l, k)
  BY DEF I, O, MatchedIn, Hits
<1> QED BY <1>12, <1>13 DEF s, u

-----------------------------------------------------------------------------
\* Changes of one day, as changes of the lines.

\* A day that keeps its appointments leaves the days what they are.
LEMMA SameDay ==
  ASSUME NEW ds \in Seq(Day), NEW d \in DOMAIN ds
  PROVE  WithAppointments(ds, d, ds[d].appointments) = ds
<1>1. ds[d] \in [date : Text, appointments : Seq(Object)]
  BY DayType DEF Day
<1> DEFINE same == [ds[d] EXCEPT !.appointments = ds[d].appointments]
<1>2. same = ds[d]
  BY <1>1
<1>3. WithAppointments(ds, d, ds[d].appointments) = [ds EXCEPT ![d] = same]
  BY DEF WithAppointments
<1> HIDE DEF same
<1>4. [ds EXCEPT ![d] = ds[d]] = ds
  BY LenProperties
<1> QED BY <1>2, <1>3, <1>4

\* The lines of a day.
LEMMA ObjLinesType ==
  ASSUME NEW objs \in Seq(Object)
  PROVE  /\ ObjLines(objs) \in Seq(Line) /\ Len(ObjLines(objs)) = Len(objs) /\ Len(objs) \in Nat
         /\ DOMAIN objs = 1 .. Len(objs)
         /\ \A i \in 1 .. Len(objs) : ObjLines(objs)[i] = FileLine(objs[i].apt)
<1>1. Len(objs) \in Nat /\ DOMAIN objs = 1 .. Len(objs)
  BY LenProperties
<1>2. \A i \in 1 .. Len(objs) : objs[i].apt \in Appointment
  BY <1>1, ObjectType DEF Object
<1>3. ObjLines(objs) \in [1 .. Len(objs) -> Line]
  BY <1>1, <1>2, LineTypes DEF ObjLines
<1>4. ObjLines(objs) \in Seq(Line)
  BY <1>1, <1>3, SeqDef
<1> QED BY <1>1, <1>3, <1>4, LenProperties DEF ObjLines

\* The lines of the days after an add are those before it and the one added.
LEMMA AddChanges ==
  ASSUME NEW ds, NEW n \in Nat, Good(ds, n), NEW apt \in Appointment
  PROVE  \E i \in 1 .. Len(Lines(ds)) + 1 :
           Lines(Insert(ds, [id |-> n, apt |-> apt])) = InsertAt(Lines(ds), i, FileLine(apt))
<1> DEFINE obj == [id |-> n, apt |-> apt]
           D   == DaysOf(ds, apt.date)
           e   == FileLine(apt)
<1>1. ds \in Seq(Day) /\ UniqueDates(ds) /\ Filed(ds) /\ Lines(ds) \in Seq(Line)
  BY LinesAppend DEF Good
<1>2. obj \in Object /\ e \in Line /\ obj.apt = apt
  BY LineTypes DEF Object
<1> HIDE DEF obj, e
<1>3. CASE D = {}
  <2> DEFINE day == [date |-> apt.date, appointments |-> <<obj>>]
  <2>1. Insert(ds, obj) = Append(ds, day)
    BY <1>2, <1>3 DEF Insert
  <2>2. day \in Day /\ LinesOf(day) = <<e>>
    <3>1. <<obj>> \in Seq(Object) /\ apt.date \in Text
      BY <1>2 DEF Appointment
    <3>2. LinesOf(day) = [i \in DOMAIN <<obj>> |-> FileLine(<<obj>>[i].apt)]
      BY DEF LinesOf
    <3>3. DOMAIN <<obj>> = 1 .. 1 /\ \A i \in 1 .. 1 : FileLine(<<obj>>[i].apt) = e
      BY <1>2 DEF e
    <3>4. <<e>> = [i \in 1 .. 1 |-> e]
      OBVIOUS
    <3> QED BY <3>1, <3>2, <3>3, <3>4 DEF Day
  <2>3. Lines(Insert(ds, obj)) = Lines(ds) \o <<e>>
    BY <1>1, <2>1, <2>2, LinesAppend
  <2> DEFINE s == Lines(ds)
  <2> HIDE DEF s
  <2> DEFINE z == <<>>
             i == Len(s) + 1
  <2>4. s \in Seq(Line) /\ z \in Seq(Line) /\ <<e>> \in Seq(Line) /\ s \o <<e>> \in Seq(Line)
    BY <1>1, <1>2, ConcatProperties DEF s
  <2>5. s \o z = s /\ (s \o <<e>>) \o z = s \o <<e>>
    BY ONLY <2>4, ConcatEmptySeq DEF z
  <2> HIDE DEF z
  <2>6. (s \o <<e>>) \o z = InsertAt(s \o z, Len(s) + 1, e)
    BY ONLY <1>2, <2>4, MiddleInserted
  <2>7. i \in 1 .. Len(s) + 1
    BY <2>4, LenProperties
  <2>8. Lines(Insert(ds, obj)) = InsertAt(s, Len(s) + 1, e)
    BY ONLY <2>3, <2>5, <2>6 DEF s
  <2> QED BY <2>7, <2>8 DEF s, obj, e
<1>4. CASE D # {}
  <2> DEFINE d    == First(D)
             objs == ds[d].appointments
             more == Append(objs, obj)
  <2>1. d \in DOMAIN ds
    <3>1. D \in SUBSET Nat /\ D \subseteq DOMAIN ds
      BY <1>1, LenProperties DEF DaysOf
    <3> HIDE DEF D
    <3> QED BY <1>4, <3>1, FirstIsLeast
  <2>2. Insert(ds, obj) = WithAppointments(ds, d, more)
    BY <1>2, <1>4 DEF Insert
  <2> HIDE DEF d
  <2>3. objs \in Seq(Object) /\ more \in Seq(Object)
    BY <1>1, <1>2, <2>1, DayType, AppendProperties
  <2>4. WithAppointments(ds, d, objs) = ds
    BY <1>1, <2>1, SameDay
  <2> HIDE DEF objs, more
  <2>5. PICK a \in Seq(Line), b \in Seq(Line) : \A os \in Seq(Object) :
          Lines(WithAppointments(ds, d, os)) = (a \o ObjLines(os)) \o b
    BY <1>1, <2>1, LinesSplit
  <2>6. Lines(ds) = (a \o ObjLines(objs)) \o b
    BY <2>3, <2>4, <2>5
  <2>7. Lines(Insert(ds, obj)) = (a \o ObjLines(more)) \o b
    BY <2>2, <2>3, <2>5
  <2>8. ObjLines(more) = Append(ObjLines(objs), e)
    <3> DEFINE N == Len(objs)
               x == ObjLines(objs)
               y == ObjLines(more)
               z == Append(x, e)
    <3>1. Len(more) = N + 1 /\ (\A i \in 1 .. N : more[i] = objs[i]) /\ more[N + 1] = obj
      BY <1>2, <2>3, AppendProperties DEF more
    <3>2. /\ x \in Seq(Line) /\ Len(x) = N /\ N \in Nat
          /\ \A i \in 1 .. N : x[i] = FileLine(objs[i].apt)
      BY <2>3, ObjLinesType
    <3>3. /\ y \in Seq(Line) /\ Len(y) = N + 1
          /\ \A i \in 1 .. N + 1 : y[i] = FileLine(more[i].apt)
      BY <2>3, <3>1, ObjLinesType
    <3> HIDE DEF x, y
    <3>4. /\ z \in Seq(Line) /\ Len(z) = N + 1 /\ (\A i \in 1 .. N : z[i] = x[i]) /\ z[N + 1] = e
      BY <1>2, <3>2, AppendProperties
    <3> HIDE DEF N, z
    <3>5. \A i \in 1 .. N + 1 : y[i] = z[i]
      <4>1. y[N + 1] = e
        BY <1>2, <3>1, <3>2, <3>3 DEF e
      <4>2. \A i \in 1 .. N : i \in 1 .. N + 1
        BY <3>2
      <4>3. \A i \in 1 .. N : y[i] = z[i]
        BY <3>1, <3>2, <3>3, <3>4, <4>2
      <4>4. \A i \in 1 .. N + 1 : i = N + 1 \/ i \in 1 .. N
        BY <3>2
      <4> QED BY <3>4, <4>1, <4>3, <4>4
    <3>6. y = z
      BY ONLY <3>3, <3>4, <3>5, SeqEqual
    <3> QED BY <3>6 DEF x, y, z
  <2> DEFINE u == ObjLines(objs)
  <2>9. u \in Seq(Line)
    BY <2>3, ObjLinesType
  <2> HIDE DEF u
  <2> DEFINE x == a \o u
             i == Len(x) + 1
  <2>10. x \in Seq(Line)
    BY <2>9, ConcatProperties
  <2>11. a \o Append(u, e) = x \o <<e>>
    <3>1. <<e>> \in Seq(Line)
      BY <1>2
    <3> QED BY <1>2, <2>9, <3>1, AppendIsConcat, ConcatAssociative
  <2>12. Lines(ds) = x \o b /\ Lines(Insert(ds, obj)) = (x \o <<e>>) \o b
    BY <2>6, <2>7, <2>8, <2>11 DEF u
  <2> HIDE DEF x
  <2>13. (x \o <<e>>) \o b = InsertAt(x \o b, Len(x) + 1, e)
    BY ONLY SMTT(20), <1>2, <2>10, b \in Seq(Line), MiddleInserted
  <2>14. i \in 1 .. Len(x \o b) + 1
    BY <2>10, ConcatProperties, LenProperties
  <2>15. i \in 1 .. Len(Lines(ds)) + 1
    BY <2>12, <2>14
  <2>16. Lines(Insert(ds, obj)) = InsertAt(Lines(ds), Len(x) + 1, e)
    BY ONLY <2>12, <2>13
  <2> QED BY <2>15, <2>16 DEF obj, e
<1> QED BY <1>3, <1>4

\* What is left of a sequence without nothing.
LEMMA AllPicked ==
  ASSUME NEW S, NEW s \in Seq(S)
  PROVE  s = Picked(s, DOMAIN s \ {}) /\ Cardinality({}) = 0
<1> DEFINE p == [i \in 1 .. Len(s) |-> i]
<1>1. Len(s) \in Nat /\ DOMAIN s = 1 .. Len(s)
  BY LenProperties
<1>2. Picks(p, s, s)
  BY <1>1 DEF Picks
<1>3. PICK I : Leaves(I, p, s, s)
  <2> HIDE DEF p
  <2> QED BY <1>2, PickedIs
<1>4. I = {} /\ s = Picked(s, DOMAIN s \ I)
  BY <1>1, <1>3 DEF Leaves
<1> QED BY <1>3, <1>4, FS_EmptySet

\* The lines that a delete leaves of a day are some of its lines, in their order.
LEMMA DayLinesPicked ==
  ASSUME NEW objs \in Seq(Object), NEW new \in Seq(Object), Increasing(objs), Increasing(new),
         \A i \in DOMAIN new : \E j \in DOMAIN objs : new[i] = objs[j]
  PROVE  \E q : Picks(q, ObjLines(new), ObjLines(objs))
<1> DEFINE N == Len(objs)
           M == Len(new)
           u == ObjLines(objs)
           v == ObjLines(new)
           q == [i \in 1 .. M |-> CHOOSE j \in 1 .. N : new[i] = objs[j]]
<1>1. /\ Len(u) = N /\ N \in Nat /\ DOMAIN objs = 1 .. N
      /\ \A i \in 1 .. N : u[i] = FileLine(objs[i].apt)
  BY ObjLinesType
<1>2. /\ Len(v) = M /\ M \in Nat /\ DOMAIN new = 1 .. M
      /\ \A i \in 1 .. M : v[i] = FileLine(new[i].apt)
  BY ObjLinesType
<1> HIDE DEF u, v, N, M
<1>3. \A i \in 1 .. M : q[i] \in 1 .. N /\ new[i] = objs[q[i]]
  BY <1>1, <1>2
<1>4. q \in [1 .. M -> 1 .. N]
  BY <1>3
<1> HIDE DEF q
<1>5. ASSUME NEW i \in 1 .. M, NEW j \in 1 .. M, i < j
      PROVE  q[i] < q[j]
  <2>1. new[i].id < new[j].id
    BY <1>2, <1>5 DEF Increasing
  <2>2. objs[q[i]].id < objs[q[j]].id /\ q[i] \in 1 .. N /\ q[j] \in 1 .. N
    BY <1>3, <2>1
  <2>3. \A k \in 1 .. N : objs[k].id \in Nat
    BY <1>1, ObjectType
  <2>4. q[j] < q[i] => objs[q[j]].id < objs[q[i]].id
    BY <1>1, <2>2 DEF Increasing
  <2>5. q[i] # q[j]
    BY <2>2, <2>3
  <2>6. ~(q[j] < q[i])
    BY <2>2, <2>3, <2>4
  <2> QED BY <1>1, <2>2, <2>5, <2>6
<1>6. \A i \in 1 .. M : v[i] = u[q[i]]
  BY <1>1, <1>2, <1>3
<1>7. Picks(q, v, u)
  BY <1>1, <1>2, <1>4, <1>5, <1>6 DEF Picks
<1> QED BY <1>7 DEF u, v

\* How many appointments a delete visits.
LEMMA SelectedCounts ==
  ASSUME NEW objs \in Seq(Object), Increasing(objs), NEW time \in Text, NEW contactee,
         NEW n, n = Cardinality(Hits(objs, time, contactee))
  PROVE  /\ Selected(objs, time, contactee) \in SUBSET ToSet(objs)
         /\ Cardinality(Selected(objs, time, contactee)) = IF time = Empty \/ n = 0 THEN n ELSE 1
<1> DEFINE T == {o \in ToSet(objs) : Matches(o.apt, contactee) /\ Matches(o.apt, time)}
           S == Selected(objs, time, contactee)
<1>0. n = Cardinality(T)
  BY DEF Hits
<1>1. IsFiniteSet(ToSet(objs)) /\ ToSet(objs) \subseteq Object
  BY FiniteElements
<1>2. T \subseteq ToSet(objs) /\ IsFiniteSet(T) /\ n = Cardinality(T)
  <2>1. T \subseteq ToSet(objs)
    OBVIOUS
  <2> HIDE DEF T
  <2> QED BY <1>0, <1>1, <2>1, FS_Subset
<1>3. CASE time = Empty
  <2>1. \A o \in ToSet(objs) : Matches(o.apt, time)
    <3> SUFFICES ASSUME NEW o \in ToSet(objs) PROVE Matches(o.apt, time)
      OBVIOUS
    <3>1. o.apt.date \in Text
      BY <1>1 DEF Object, Appointment
    <3> QED BY <1>3, <3>1, TextAssumption DEF Matches, Occurs
  <2>2. S = {o \in ToSet(objs) : Matches(o.apt, contactee)}
    BY <1>3 DEF Selected, DaySearch
  <2>3. S = T
    BY <2>1, <2>2
  <2> HIDE DEF S, T
  <2>4. S \in SUBSET ToSet(objs) /\ Cardinality(S) = n
    BY <1>2, <2>3
  <2> QED BY <1>3, <2>4 DEF S
<1>4. CASE time # Empty
  <2>1. S = {o \in T : \A p \in T : o.id <= p.id}
    BY <1>4 DEF Selected, DaySearch
  <2> HIDE DEF S, T
  <2>2. S \in SUBSET ToSet(objs)
    BY <1>2, <2>1
  <2>3. CASE T = {}
    <3>1. S = {} /\ n = 0
      BY <1>2, <2>1, <2>3, FS_EmptySet
    <3>2. Cardinality(S) = 0
      BY <3>1, FS_EmptySet
    <3> QED BY <2>2, <3>1, <3>2 DEF S
  <2>4. CASE T # {}
    <3>1. n # 0
      BY <1>2, <2>4, FS_EmptySet
    <3> DEFINE I == {o.id : o \in T}
    <3>2. I \in SUBSET Nat /\ I # {}
      BY <1>1, <1>2, <2>4 DEF Object
    <3>3. PICK o \in T : \A p \in T : o.id <= p.id
      <4> HIDE DEF I
      <4>1. PICK i \in I : \A j \in I : i <= j
        BY <3>2, LeastNat
      <4> QED BY <4>1 DEF I
    <3>4. \A p \in S : p = o
      <4> SUFFICES ASSUME NEW p \in S PROVE p = o
        OBVIOUS
      <4>1. p \in T /\ p.id <= o.id /\ o.id <= p.id
        BY <2>1, <3>3
      <4>2. p.id \in Nat /\ o.id \in Nat /\ p \in ToSet(objs) /\ o \in ToSet(objs)
        BY <1>1, <1>2, <4>1 DEF Object
      <4>3. p.id = o.id
        BY <4>1, <4>2
      <4> QED BY <4>2, <4>3, OneOfEachId
    <3>5. S = {o}
      BY <2>1, <3>3, <3>4
    <3>6. Cardinality(S) = 1
      BY <3>5, FS_Singleton
    <3> QED BY <1>4, <2>2, <3>1, <3>6 DEF S
  <2> QED BY <2>3, <2>4
<1> QED BY <1>3, <1>4
-----------------------------------------------------------------------------
\* Loops over a vector.

\* What a loop over values of V has made after each of its N turns.
Turns(f, V, N, first, step) ==
  f \in [0 .. N -> V] /\ f[0] = first /\ \A n \in 1 .. N : f[n] = step[n][f[n - 1]]

\* Every loop has made something.
LEMMA Iterate ==
  ASSUME NEW V, NEW N \in Nat, NEW first \in V, NEW step \in [1 .. N -> [V -> V]]
  PROVE  \E f : Turns(f, V, N, first, step)
<1> DEFINE Is(f, k) == f[0] = first /\ \A n \in 1 .. k : f[n] = step[n][f[n - 1]]
           P        == {k \in 0 .. N : \E f \in [0 .. k -> V] : Is(f, k)}
<1>1. 0 \in P
  <2> DEFINE f == [n \in 0 .. 0 |-> first]
  <2>1. f \in [0 .. 0 -> V] /\ Is(f, 0) /\ 0 \in 0 .. N
    OBVIOUS
  <2> HIDE DEF f
  <2> QED BY <2>1
<1>2. ASSUME NEW k \in 0 .. N - 1, k \in P
      PROVE  k + 1 \in P
  <2>1. PICK f \in [0 .. k -> V] : Is(f, k)
    BY <1>2
  <2>0. k \in Nat
    OBVIOUS
  <2> DEFINE g == [n \in 0 .. k + 1 |-> IF n = k + 1 THEN step[k + 1][f[k]] ELSE f[n]]
  <2>2. f[k] \in V /\ k + 1 \in 1 .. N
    BY <2>1
  <2>3. step[k + 1][f[k]] \in V
    BY <2>2
  <2>4. g \in [0 .. k + 1 -> V]
    BY <2>1, <2>3
  <2>5. g[k + 1] = step[k + 1][f[k]] /\ \A n \in 0 .. k : g[n] = f[n]
    OBVIOUS
  <2> HIDE DEF g
  <2>6. ASSUME NEW n \in 1 .. k + 1
        PROVE  g[n] = step[n][g[n - 1]]
    <3>1. CASE n = k + 1
      <4>1. g[n - 1] = f[k]
        BY <2>5, <3>1
      <4> QED BY <2>5, <3>1, <4>1
    <3>2. CASE n # k + 1
      <4>1. n \in 1 .. k /\ n - 1 \in 0 .. k /\ n \in 0 .. k
        BY <3>2
      <4> QED BY <2>1, <2>5, <4>1
    <3> QED BY <3>1, <3>2
  <2>7. g[0] = first
    BY <2>1, <2>5
  <2>8. k + 1 \in 0 .. N
    OBVIOUS
  <2> QED BY <2>4, <2>6, <2>7, <2>8
<1> HIDE DEF P
<1>3. \A k \in 0 .. N : k \in P
  BY <1>1, <1>2, Induct
<1>4. N \in P
  BY <1>3
<1> QED BY <1>4 DEF P, Turns

\* addAppointment leaves a vector of days.
LEMMA InsertType ==
  ASSUME NEW ds \in Seq(Day), NEW o \in Object
  PROVE  Insert(ds, o) \in Seq(Day)
<1> DEFINE D == DaysOf(ds, o.apt.date)
<1>1. o.apt.date \in Text /\ <<o>> \in Seq(Object)
  BY DEF Object, Appointment
<1>2. CASE D = {}
  <2> DEFINE day == [date |-> o.apt.date, appointments |-> <<o>>]
  <2>1. day \in Day
    BY <1>1 DEF Day
  <2>2. Insert(ds, o) = Append(ds, day)
    BY <1>2 DEF Insert
  <2> HIDE DEF day
  <2> QED BY <2>1, <2>2, AppendProperties
<1>3. CASE D # {}
  <2>1. D \in SUBSET Nat /\ D \subseteq DOMAIN ds
    BY LenProperties DEF DaysOf
  <2>2. First(D) \in DOMAIN ds
    <3> HIDE DEF D
    <3> QED BY <1>3, <2>1, FirstIsLeast
  <2> DEFINE d    == First(D)
             more == Append(ds[d].appointments, o)
  <2>3. Insert(ds, o) = WithAppointments(ds, d, more)
    BY <1>3 DEF Insert
  <2> HIDE DEF d, D
  <2>4. d \in DOMAIN ds
    BY <2>2 DEF d
  <2>5. more \in Seq(Object)
    BY <2>4, DayType, AppendProperties
  <2> HIDE DEF more
  <2> QED BY <2>3, <2>4, <2>5, UpdateDay
<1> QED BY <1>2, <1>3
\* What a loading loop has made of the first N appointments of O after each.
Fills(g, O, N) ==
  g = [n \in 0 .. N |-> IF n = 0 THEN <<>> ELSE Insert(g[n - 1], O[n])]

\* Every loading loop makes something.
LEMMA FillsExist ==
  ASSUME NEW N \in Nat, NEW O \in [1 .. N -> Object]
  PROVE  Fills(CHOOSE g : Fills(g, O, N), O, N)
<1> DEFINE V     == Seq(Day)
           first == <<>>
           step  == [n \in 1 .. N |-> [ds \in V |-> Insert(ds, O[n])]]
<1>1. first \in V
  BY EmptySeq
<1>2. step \in [1 .. N -> [V -> V]]
  BY InsertType
<1>3. \A ds \in V, n \in 1 .. N : step[n][ds] = Insert(ds, O[n])
  OBVIOUS
<1> HIDE DEF step, V, first
<1>4. \E g : Turns(g, V, N, first, step)
  BY ONLY N \in Nat, <1>1, <1>2, Iterate
<1>5. PICK g \in [0 .. N -> V] : g[0] = first /\ \A n \in 1 .. N : g[n] = step[n][g[n - 1]]
  BY <1>4 DEF Turns
<1>6. ASSUME NEW n \in 1 .. N
      PROVE  g[n] = Insert(g[n - 1], O[n])
  <2>1. n - 1 \in 0 .. N
    OBVIOUS
  <2> QED BY <1>3, <1>5, <2>1
<1>7. \A n \in 0 .. N : g[n] = IF n = 0 THEN first ELSE Insert(g[n - 1], O[n])
  BY <1>5, <1>6
<1>8. g = [n \in 0 .. N |-> g[n]]
  BY <1>5
<1>9. Fills(g, O, N)
  BY <1>7, <1>8 DEF Fills, first
<1> QED BY <1>9

\* What it makes is a vector of days after each turn.
LEMMA FillsTyped ==
  ASSUME NEW N \in Nat, NEW O \in [1 .. N -> Object], NEW g, Fills(g, O, N)
  PROVE  /\ g \in [0 .. N -> Seq(Day)] /\ g[0] = <<>>
         /\ \A n \in 1 .. N : g[n] = Insert(g[n - 1], O[n])
<1> DEFINE P == {n \in 0 .. N : g[n] \in Seq(Day)}
<1>1. g[0] = <<>> /\ \A n \in 1 .. N : g[n] = Insert(g[n - 1], O[n])
  BY DEF Fills
<1>2. 0 \in P
  <2>1. 0 \in 0 .. N
    OBVIOUS
  <2> QED BY <1>1, <2>1, EmptySeq
<1>3. ASSUME NEW n \in 0 .. N - 1, n \in P
      PROVE  n + 1 \in P
  <2>1. n + 1 \in 1 .. N /\ (n + 1) - 1 = n /\ g[n] \in Seq(Day) /\ n + 1 \in 0 .. N
    BY <1>3
  <2>2. g[n + 1] = Insert(g[n], O[n + 1]) /\ O[n + 1] \in Object
    BY <1>1, <2>1
  <2> QED BY <2>1, <2>2, InsertType
<1> HIDE DEF P
<1>4. \A n \in 0 .. N : n \in P
  BY <1>2, <1>3, Induct
<1>5. g = [n \in 0 .. N |-> g[n]]
  BY DEF Fills
<1> QED BY <1>1, <1>4, <1>5 DEF P
=============================================================================
