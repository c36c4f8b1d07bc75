-------------------------- MODULE ApptServer_proofs --------------------------
(***************************************************************************)
(* The web appointment server, for any clients, requests and texts:        *)
(* page_mutex keeps the days and database.txt together, whatever dies in   *)
(* the middle of a save or cannot open it, until "stop" is typed; and the rows of the page   *)
(* are in the order of time, by either sort.                               *)
(***************************************************************************)
EXTENDS ApptPage, Appointments_proofs

-----------------------------------------------------------------------------
\* The loading constructor has made days of some lines after each.
LEMMA LoadIs ==
  ASSUME NEW f \in Seq(Line)
  PROVE  \E g \in [0 .. Len(f) -> Seq(Day)] :
           /\ g[0] = <<>>
           /\ \A n \in 1 .. Len(f) : g[n] = Insert(g[n - 1], [id |-> n, apt |-> ParseLine(f[n])])
           /\ Load(f) = g[Len(f)]
<1> DEFINE N == Len(f)
           O == [n \in 1 .. N |-> [id |-> n, apt |-> ParseLine(f[n])]]
           g == CHOOSE loaded : Fills(loaded, O, N)
<1>1. N \in Nat /\ DOMAIN f = 1 .. N
  BY LenProperties
<1>2. O \in [1 .. N -> Object]
  <2> SUFFICES ASSUME NEW n \in 1 .. N PROVE [id |-> n, apt |-> ParseLine(f[n])] \in Object
    OBVIOUS
  <2>1. f[n] \in Line
    BY <1>1, ElementOfSeq
  <2> QED BY <2>1, LineTypes DEF Object
<1>3. \A loaded : Fills(loaded, O, N) <=>
        loaded = [n \in 0 .. N |-> IF n = 0 THEN <<>>
                                  ELSE Insert(loaded[n - 1], [id |-> n, apt |-> ParseLine(f[n])])]
  <2>1. \A n \in 0 .. N : n # 0 => O[n] = [id |-> n, apt |-> ParseLine(f[n])]
    BY <1>1
  <2> HIDE DEF O
  <2> QED BY <2>1 DEF Fills
<1>4. Load(f) = g[N]
  BY <1>3, Zenon DEF Load, N
<1>5. \A n \in 1 .. N : O[n] = [id |-> n, apt |-> ParseLine(f[n])]
  OBVIOUS
<1> HIDE DEF O, N
<1>6. Fills(g, O, N)
  BY <1>1, <1>2, FillsExist
<1> HIDE DEF g
<1>7. /\ g \in [0 .. N -> Seq(Day)] /\ g[0] = <<>>
      /\ \A n \in 1 .. N : g[n] = Insert(g[n - 1], O[n])
  BY <1>1, <1>2, <1>6, FillsTyped
<1> QED BY <1>4, <1>5, <1>7 DEF N

\* What is loaded is a good vector, and has the lines of a file that stands by date.
LEMMA LoadGood ==
  ASSUME NEW f \in Seq(Line), Grouped(f)
  PROVE  /\ Good(Load(f), Len(f) + 1)
         /\ Lines(Load(f)) = f
<1>1. Len(f) \in Nat /\ DOMAIN f = 1 .. Len(f)
  BY LenProperties
<1>2. PICK g \in [0 .. Len(f) -> Seq(Day)] :
        /\ g[0] = <<>>
        /\ \A n \in 1 .. Len(f) : g[n] = Insert(g[n - 1], [id |-> n, apt |-> ParseLine(f[n])])
        /\ Load(f) = g[Len(f)]
  BY LoadIs
<1> DEFINE N == Len(f)
           P == {n \in 0 .. N : Good(g[n], n + 1) /\ Loaded(g[n], f, n)}
<1>3. 0 \in P
  <2>1. g[0] = <<>> /\ DOMAIN <<>> = {} /\ <<>> \in Seq(Day) /\ ~(0 > 0)
    BY <1>2, EmptySeq
  <2>2. Good(<<>>, 0 + 1)
    BY <2>1 DEF Good, UniqueDates, Filed, Apart
  <2>3. Lines(<<>>) = SubSeq(f, 1, 0)
    <3>1. 0 \in 0 .. Len(f)
      BY <1>1
    <3>2. SubSeq(f, 1, 0) = <<>>
      BY <3>1, FrontProperties
    <3> QED BY <3>2, LinesAppend
  <2>4. Loaded(<<>>, f, 0)
    BY <2>1, <2>3 DEF Loaded
  <2>5. 0 \in 0 .. N
    BY <1>1
  <2> QED BY <2>1, <2>2, <2>4, <2>5
<1>4. ASSUME NEW n \in 0 .. N - 1, n \in P
      PROVE  n + 1 \in P
  <2> DEFINE o == [id |-> n + 1, apt |-> ParseLine(f[n + 1])]
  <2>1. /\ n + 1 \in 1 .. N /\ (n + 1) - 1 = n /\ n + 1 \in Nat /\ n + 1 \in 0 .. N
        /\ Good(g[n], n + 1) /\ Loaded(g[n], f, n) /\ n \in 0 .. Len(f) - 1
    BY <1>1, <1>4
  <2>2. g[n + 1] = Insert(g[n], o)
    BY <1>2, <2>1
  <2>3. f[n + 1] \in Line
    BY <1>1, <2>1, ElementOfSeq
  <2>4. ParseLine(f[n + 1]) \in Appointment
    BY <2>3, LineTypes
  <2>5. Good(g[n + 1], (n + 1) + 1)
    BY <2>1, <2>2, <2>4, InsertGood
  <2>6. g[n] \in Seq(Day) /\ UniqueDates(g[n])
    BY <2>1 DEF Good
  <2>7. Loaded(g[n + 1], f, n + 1)
    BY <2>1, <2>2, <2>6, LoadStep
  <2> QED BY <2>1, <2>5, <2>7
<1> HIDE DEF P
<1>5. \A n \in 0 .. N : n \in P
  BY <1>1, <1>3, <1>4, Induct
<1>6. N \in P
  BY <1>1, <1>5
<1>7. Good(g[N], N + 1) /\ Loaded(g[N], f, N)
  BY <1>6 DEF P
<1>8. SubSeq(f, 1, Len(f)) = f
  BY <1>1, FrontProperties
<1> QED BY <1>2, <1>7, <1>8 DEF Loaded

\* A delete leaves a vector of objects.
LEMMA DeleteAtType ==
  ASSUME NEW objs \in Seq(Object), NEW k
  PROVE  DeleteAt(objs, k) \in Seq(Object)
<1>1. CASE k \in DOMAIN objs
  <2>1. k \in 1 .. Len(objs)
    BY <1>1, LenProperties
  <2> QED BY <1>1, <2>1, RemoveAtProperties DEF DeleteAt
<1>2. CASE k \notin DOMAIN objs
  BY <1>2 DEF DeleteAt
<1> QED BY <1>1, <1>2

\* What the loop of deleteAppointment does for the appointment o of its day.
Visit(left, o, hits) ==
  IF o \in hits THEN DeleteAt(left, GetIndex(left, o.apt)) ELSE left

\* It leaves some appointments after each.
LEMMA DeleteAllIs ==
  ASSUME NEW objs \in Seq(Object), NEW hits
  PROVE  \E g \in [0 .. Len(objs) -> Seq(Object)] :
           /\ g[0] = objs
           /\ \A n \in 1 .. Len(objs) : g[n] = Visit(g[n - 1], objs[n], hits)
           /\ DeleteAll(objs, hits) = g[Len(objs)]
<1> DEFINE N     == Len(objs)
           V     == Seq(Object)
           O(n)  == objs[n]
           visit(o) == [left \in V |->
                          IF o \in hits THEN DeleteAt(left, GetIndex(left, o.apt)) ELSE left]
           Is(g) == g = [n \in 0 .. N |-> IF n = 0 THEN objs ELSE visit(objs[n])[g[n - 1]]]
           step  == [n \in 1 .. N |-> visit(objs[n])]
<1>1. N \in Nat /\ objs \in V
  BY LenProperties
<1>2. DeleteAll(objs, hits) = (CHOOSE after : Is(after))[N]
  BY DEF DeleteAll
<1>3. \A o : \A left \in V : visit(o)[left] = Visit(left, o, hits)
  BY DEF Visit
<1>4. \A o : visit(o) \in [V -> V]
  <2>1. \A o, left : left \in V =>
          (IF o \in hits THEN DeleteAt(left, GetIndex(left, o.apt)) ELSE left) \in V
    BY DeleteAtType
  <2> QED BY <2>1
<1> HIDE DEF N, V, visit
<1>5. step \in [1 .. N -> [V -> V]] /\ \A n \in 1 .. N : step[n] = visit(objs[n])
  BY <1>4
<1> HIDE DEF step
<1>6. PICK made : Turns(made, V, N, objs, step)
  BY ONLY <1>1, <1>5, Iterate
<1>7. Is(made)
  <2>1. made = [n \in 0 .. N |-> made[n]]
    BY <1>6 DEF Turns
  <2>2. \A n \in 0 .. N : made[n] = IF n = 0 THEN objs ELSE visit(objs[n])[made[n - 1]]
    BY <1>1, <1>5, <1>6 DEF Turns
  <2> QED BY <2>1, <2>2
<1> DEFINE g == CHOOSE after : Is(after)
<1>8. Is(g)
  BY <1>7
<1> HIDE DEF g
<1>9. g[0] = objs /\ \A n \in 1 .. N : g[n] = visit(objs[n])[g[n - 1]]
  BY <1>1, <1>8
<1>10. g \in [0 .. N -> V]
  <2> DEFINE P == {n \in 0 .. N : g[n] \in V}
  <2>1. 0 \in P
    <3>1. 0 \in 0 .. N
      BY <1>1
    <3> QED BY <1>1, <1>9, <3>1
  <2>2. ASSUME NEW n \in 0 .. N - 1, n \in P
        PROVE  n + 1 \in P
    <3>1. n + 1 \in 1 .. N /\ (n + 1) - 1 = n /\ g[n] \in V /\ n + 1 \in 0 .. N
      BY <1>1, <2>2
    <3>2. g[n + 1] = visit(objs[n + 1])[g[n]] /\ visit(objs[n + 1]) \in [V -> V]
      BY <1>4, <1>9, <3>1
    <3> QED BY <3>1, <3>2
  <2> HIDE DEF P
  <2>3. \A n \in 0 .. N : n \in P
    BY <1>1, <2>1, <2>2, Induct
  <2>4. DOMAIN g = 0 .. N /\ g = [n \in 0 .. N |-> g[n]]
    BY <1>8
  <2> QED BY <2>3, <2>4 DEF P
<1>11. \A n \in 1 .. N : g[n] = Visit(g[n - 1], objs[n], hits)
  <2> SUFFICES ASSUME NEW n \in 1 .. N PROVE g[n] = Visit(g[n - 1], objs[n], hits)
    OBVIOUS
  <2>1. n - 1 \in 0 .. N
    BY <1>1
  <2>2. g[n - 1] \in V
    BY <1>10, <2>1
  <2> QED BY <1>3, <1>9, <2>2
<1>12. DeleteAll(objs, hits) = g[N]
  BY <1>2 DEF g
<1> QED BY <1>9, <1>10, <1>11, <1>12 DEF N, V

\* What a delete leaves of a day is some of its appointments, in their order.
LEMMA DeleteAllProperties ==
  ASSUME NEW objs \in Seq(Object), NEW hits, NEW m \in Nat, Increasing(objs), Below(objs, m)
  PROVE  /\ DeleteAll(objs, hits) \in Seq(Object)
         /\ Increasing(DeleteAll(objs, hits))
         /\ Below(DeleteAll(objs, hits), m)
         /\ \A i \in DOMAIN DeleteAll(objs, hits) : \E j \in DOMAIN objs :
              DeleteAll(objs, hits)[i] = objs[j]
<1> DEFINE N       == Len(objs)
           Some(s) == /\ s \in Seq(Object) /\ Increasing(s) /\ Below(s, m)
                      /\ \A i \in DOMAIN s : \E j \in DOMAIN objs : s[i] = objs[j]
<1>1. PICK g \in [0 .. N -> Seq(Object)] :
        /\ g[0] = objs
        /\ \A n \in 1 .. N : g[n] = Visit(g[n - 1], objs[n], hits)
        /\ DeleteAll(objs, hits) = g[N]
  BY DeleteAllIs
<1>2. N \in Nat
  BY LenProperties
<1> DEFINE P == {n \in 0 .. N : Some(g[n])}
<1>3. 0 \in P
  <2>1. 0 \in 0 .. N
    BY <1>2
  <2> QED BY <1>1, <2>1
<1>4. ASSUME NEW n \in 0 .. N - 1, n \in P
      PROVE  n + 1 \in P
  <2> DEFINE s == g[n]
             o == objs[n + 1]
             k == GetIndex(s, o.apt)
  <2>1. n + 1 \in 1 .. N /\ (n + 1) - 1 = n /\ n + 1 \in 0 .. N /\ Some(s)
    BY <1>2, <1>4
  <2>2. g[n + 1] = Visit(s, o, hits)
    BY <1>1, <2>1
  <2> HIDE DEF s, o
  <2>3. k \in Nat
    <3>1. s \in Seq(Object)
      BY <2>1
    <3>2. k = 0 \/ k \in DOMAIN s
      BY <3>1, GetIndexProperties
    <3> QED BY <3>1, <3>2, ObjectType
  <2> HIDE DEF k
  <2>4. CASE o \in hits
    <3>1. g[n + 1] = DeleteAt(s, k)
      BY <2>2, <2>4 DEF Visit, k
    <3>2. Some(DeleteAt(s, k))
      <4>1. /\ DeleteAt(s, k) \in Seq(Object)
            /\ Increasing(DeleteAt(s, k))
            /\ Below(DeleteAt(s, k), m)
            /\ \A i \in DOMAIN DeleteAt(s, k) : \E j \in DOMAIN s : DeleteAt(s, k)[i] = s[j]
        BY <2>1, <2>3, DeleteAtProperties
      <4> QED BY <2>1, <4>1
    <3> QED BY <2>1, <3>1, <3>2
  <2>5. CASE o \notin hits
    <3>1. g[n + 1] = s
      BY <2>2, <2>5 DEF Visit
    <3> QED BY <2>1, <3>1
  <2> QED BY <2>4, <2>5
<1> HIDE DEF P
<1>5. \A n \in 0 .. N : n \in P
  BY <1>2, <1>3, <1>4, Induct
<1>6. N \in P
  BY <1>2, <1>5
<1> QED BY <1>1, <1>6 DEF P

-----------------------------------------------------------------------------
\* What a stream writes over a file is lines; over a beginning of what it writes, it is
\* a beginning of that again, and all of it in the end.
LEMMA OverlayProperties ==
  ASSUME NEW all \in Seq(Line), NEW old \in Seq(Line)
  PROVE  /\ Overlay(all, old) \in Seq(Line)
         /\ IsPrefix(old, all) =>
              /\ Overlay(all, old) = all
              /\ \A n \in 1 .. Len(all) :
                   /\ Overlay(SubSeq(all, 1, n), old) \in Seq(Line)
                   /\ IsPrefix(Overlay(SubSeq(all, 1, n), old), all)
<1>1. Len(all) \in Nat /\ Len(old) \in Nat /\ DOMAIN old = 1 .. Len(old) /\ DOMAIN all = 1 .. Len(all)
  BY LenProperties
<1>2. ASSUME NEW s \in Seq(Line)
      PROVE  /\ Overlay(s, old) \in Seq(Line)
             /\ Len(Overlay(s, old)) = IF Len(s) < Len(old) THEN Len(old) ELSE Len(s)
             /\ \A i \in 1 .. Len(Overlay(s, old)) :
                  Overlay(s, old)[i] = IF i <= Len(s) THEN s[i] ELSE old[i]
             /\ Len(old) <= Len(s) => Overlay(s, old) = s
  <2> DEFINE m    == Len(s) + 1
             rest == SubSeq(old, m, Len(old))
  <2>1. Len(s) \in Nat /\ m \in Int /\ m >= 1 /\ m = Len(s) + 1
    BY LenProperties
  <2> HIDE DEF m
  <2>2. \A i \in m .. Len(old) : old[i] \in Line
    <3> SUFFICES ASSUME NEW i \in m .. Len(old) PROVE old[i] \in Line
      OBVIOUS
    <3>1. i \in 1 .. Len(old)
      BY <1>1, <2>1
    <3> QED BY <3>1, ElementOfSeq
  <2>3. /\ rest \in Seq(Line)
        /\ Len(rest) = IF m <= Len(old) THEN Len(old) - m + 1 ELSE 0
        /\ \A i \in 1 .. Len(old) - m + 1 : rest[i] = old[m + i - 1]
    BY <1>1, <2>1, <2>2, SubSeqProperties
  <2>4. Len(old) <= Len(s) => rest = <<>>
    BY <1>1, <2>1, SubSeqEmpty
  <2>5. Overlay(s, old) = s \o rest
    BY DEF Overlay, m
  <2> HIDE DEF rest
  <2>6. /\ s \o rest \in Seq(Line)
        /\ Len(s \o rest) = Len(s) + Len(rest)
        /\ \A i \in 1 .. Len(s) + Len(rest) : (s \o rest)[i] =
             IF i <= Len(s) THEN s[i] ELSE rest[i - Len(s)]
    BY <2>3, ConcatProperties
  <2> DEFINE o == s \o rest
  <2> HIDE DEF o
  <2>7. Len(o) = IF Len(s) < Len(old) THEN Len(old) ELSE Len(s)
    <3>1. Len(o) = Len(s) + Len(rest)
      BY <2>6 DEF o
    <3>2. Len(rest) = IF m <= Len(old) THEN Len(old) - m + 1 ELSE 0
      BY ONLY <2>3
    <3>3. CASE Len(s) < Len(old)
      <4>1. Len(rest) = Len(old) - Len(s)
        <5>1. m <= Len(old)
          BY <1>1, <2>1, <3>3
        <5>2. Len(rest) = Len(old) - m + 1
          BY ONLY <3>2, <5>1
        <5> QED BY <1>1, <2>1, <5>2
      <4> QED BY <1>1, <2>1, <3>1, <3>3, <4>1
    <3>4. CASE ~(Len(s) < Len(old))
      <4>1. Len(rest) = 0
        <5>1. ~(m <= Len(old))
          BY <1>1, <2>1, <3>4
        <5> QED BY ONLY <3>2, <5>1
      <4> QED BY <1>1, <2>1, <3>1, <3>4, <4>1
    <3> QED BY <3>3, <3>4
  <2>8. \A i \in 1 .. Len(o) : o[i] = IF i <= Len(s) THEN s[i] ELSE old[i]
    <3> SUFFICES ASSUME NEW i \in 1 .. Len(o) PROVE o[i] = IF i <= Len(s) THEN s[i] ELSE old[i]
      OBVIOUS
    <3>1. i \in 1 .. Len(s) + Len(rest)
      BY <2>6 DEF o
    <3>2. CASE i <= Len(s)
      BY <2>6, <3>1, <3>2 DEF o
    <3>3. CASE ~(i <= Len(s))
      <4>1. Len(s) < Len(old) /\ i \in 1 .. Len(old)
        BY <1>1, <2>1, <2>7, <3>3
      <4>2. i - Len(s) \in 1 .. Len(old) - m + 1 /\ m + (i - Len(s)) - 1 = i
        BY <1>1, <2>1, <3>3, <4>1
      <4>3. o[i] = rest[i - Len(s)]
        BY <2>6, <3>1, <3>3 DEF o
      <4> QED BY <2>3, <3>3, <4>2, <4>3
    <3> QED BY <3>2, <3>3
  <2>9. Len(old) <= Len(s) => o = s
    BY <2>4, ConcatEmptySeq DEF o
  <2> QED BY <2>5, <2>6, <2>7, <2>8, <2>9 DEF o
<1>3. ASSUME IsPrefix(old, all)
      PROVE  /\ Overlay(all, old) = all
             /\ \A n \in 1 .. Len(all) :
                  /\ Overlay(SubSeq(all, 1, n), old) \in Seq(Line)
                  /\ IsPrefix(Overlay(SubSeq(all, 1, n), old), all)
  <2>1. Len(old) <= Len(all) /\ \A i \in 1 .. Len(old) : old[i] = all[i]
    BY <1>3, PrefixIs
  <2>2. ASSUME NEW n \in 1 .. Len(all)
        PROVE  /\ Overlay(SubSeq(all, 1, n), old) \in Seq(Line)
               /\ IsPrefix(Overlay(SubSeq(all, 1, n), old), all)
    <3> DEFINE s == SubSeq(all, 1, n)
               o == Overlay(s, old)
    <3>1. n \in 0 .. Len(all)
      BY <1>1
    <3>2. s \in Seq(Line) /\ Len(s) = n /\ \A i \in 1 .. n : s[i] = all[i]
      BY <3>1, FrontProperties
    <3> HIDE DEF s
    <3>3. /\ o \in Seq(Line)
          /\ Len(o) = IF n < Len(old) THEN Len(old) ELSE n
          /\ \A i \in 1 .. Len(o) : o[i] = IF i <= n THEN s[i] ELSE old[i]
      BY <1>2, <3>2
    <3> HIDE DEF o
    <3>4. Len(o) <= Len(all) /\ \A i \in 1 .. Len(o) : o[i] = all[i]
      BY <1>1, <2>1, <3>1, <3>2, <3>3
    <3>5. IsPrefix(o, all)
      BY <3>3, <3>4, PrefixIs
    <3> QED BY <3>3, <3>5 DEF o, s
  <2> QED BY <1>2, <2>1, <2>2
<1> QED BY <1>2, <1>3

-----------------------------------------------------------------------------
\* What can be read of a request is a request.
Reading == Requests \cup {NoRequest} \cup UNION {CutShort(r) : r \in Requests}

Handlers == [Clients -> [pc : HandlerPcs, req : Reading]]

\* A booking without some of its fields is one.
LEMMA BlankType ==
  ASSUME NEW apt \in Appointment, NEW names
  PROVE  Blank(apt, names) \in Appointment
<1> DEFINE F == {"date", "time", "contactee", "location", "description"}
<1>1. DOMAIN apt = F /\ \A f \in F : apt[f] \in Text
  BY DEF Appointment
<1>2. Blank(apt, names) = [f \in F |-> IF f \in names THEN Empty ELSE apt[f]]
  BY <1>1 DEF Blank
<1> DEFINE b == Blank(apt, names)
<1>3. b = [date |-> b.date, time |-> b.time, contactee |-> b.contactee,
           location |-> b.location, description |-> b.description]
  BY <1>2
<1>4. \A f \in F : b[f] \in Text
  BY <1>1, <1>2, TextAssumption
<1> HIDE DEF b
<1>5. b \in Appointment
  BY <1>3, <1>4 DEF Appointment
<1> QED BY <1>5 DEF b

\* What a handler has read is a request, a part of one, or nothing.
LEMMA ReadingType == Reading \subseteq PageRequest \cup {Lacking, NoRequest}
<1>1. Requests \subseteq PageRequest
  BY ServerAssumption
<1>2. ASSUME NEW r \in Requests, NEW q \in Parts(r)
      PROVE  q \in PageRequest
  <2>1. r \in PageRequest
    BY <1>1
  <2>2. CASE r.op = "add"
    <3>1. r.apt \in Appointment /\ r = [op |-> "add", apt |-> r.apt]
      BY <2>1, <2>2 DEF PageRequest
    <3>2. PICK names : q = [r EXCEPT !.apt = Blank(r.apt, names)]
      BY <2>2 DEF Parts
    <3> DEFINE b == Blank(r.apt, names)
    <3>3. b \in Appointment
      BY <3>1, BlankType
    <3> HIDE DEF b
    <3>4. q = [op |-> "add", apt |-> b]
      BY <3>1, <3>2 DEF b
    <3> QED BY <3>3, <3>4 DEF PageRequest
  <2>3. CASE r.op = "delete"
    <3>1. /\ r.date \in Text /\ r.time \in Text /\ r.contactee \in Text
          /\ r = [op |-> "delete", date |-> r.date, time |-> r.time, contactee |-> r.contactee]
      BY <2>1, <2>3 DEF PageRequest
    <3>2. \E t \in Text :
            \/ q = [r EXCEPT !.date = t, !.time = Empty, !.contactee = Empty]
            \/ q = [r EXCEPT !.time = t, !.contactee = Empty]
            \/ q = [r EXCEPT !.contactee = t]
      BY <2>3 DEF Parts
    <3> DEFINE All == [op : {"delete"}, date : Text, time : Text, contactee : Text]
    <3>3. r \in All /\ Empty \in Text
      BY <3>1, TextAssumption
    <3> HIDE DEF All
    <3>4. \A t \in Text : /\ [r EXCEPT !.date = t, !.time = Empty, !.contactee = Empty] \in All
                         /\ [r EXCEPT !.time = t, !.contactee = Empty] \in All
                         /\ [r EXCEPT !.contactee = t] \in All
      BY <3>3 DEF All
    <3>5. q \in All
      BY <3>2, <3>4
    <3> QED BY <3>5 DEF PageRequest, All
  <2>4. CASE r.op \notin {"add", "delete"}
    BY <2>4 DEF Parts
  <2> QED BY <2>2, <2>3, <2>4
<1>3. ASSUME NEW r \in Requests
      PROVE  CutShort(r) \subseteq PageRequest \cup {Lacking}
  BY <1>2 DEF CutShort, Bad, PageRequest
<1>4. ASSUME NEW r \in Reading
      PROVE  r \in PageRequest \cup {Lacking, NoRequest}
  <2>1. CASE r \in Requests \cup {NoRequest}
    BY <1>1, <2>1
  <2>2. CASE r \notin Requests \cup {NoRequest}
    <3> DEFINE cuts == {CutShort(q) : q \in Requests}
    <3>0. r \in UNION cuts
      BY <2>2 DEF Reading
    <3>1. PICK q \in Requests : r \in CutShort(q)
      BY <3>0
    <3>2. r \in PageRequest \cup {Lacking}
      BY <1>3, <3>1
    <3> QED BY <3>2
  <2> QED BY <2>1, <2>2
<1> QED BY <1>4

\* An add or a delete that is not refused has its fields.
LEMMA FieldsOf ==
  ASSUME NEW r \in Reading
  PROVE  r.op = "add" => r.apt \in Appointment
<1>1. r \in PageRequest \cup {Lacking, NoRequest}
  BY ReadingType
<1> QED BY <1>1 DEF PageRequest, Lacking, NoRequest

\* One handler goes on.
LEMMA GoesOn ==
  ASSUME NEW hh \in Handlers, NEW c \in Clients, NEW p \in HandlerPcs
  PROVE  /\ [hh EXCEPT ![c].pc = p] \in Handlers
         /\ [hh EXCEPT ![c].pc = p][c].pc = p
         /\ \A x \in Clients : [hh EXCEPT ![c].pc = p][x].req = hh[x].req
         /\ \A x \in Clients : x # c => [hh EXCEPT ![c].pc = p][x] = hh[x]
<1> DEFINE new == [hh EXCEPT ![c].pc = p]
           one == [hh[c] EXCEPT !.pc = p]
<1>1. hh[c] \in [pc : HandlerPcs, req : Reading]
  BY DEF Handlers
<1>2. one \in [pc : HandlerPcs, req : Reading] /\ one.pc = p /\ one.req = hh[c].req
  BY <1>1
<1>3. new = [hh EXCEPT ![c] = one]
  OBVIOUS
<1> HIDE DEF one
<1>4. new \in Handlers /\ new[c] = one /\ \A x \in Clients : x # c => new[x] = hh[x]
  BY <1>2, <1>3 DEF Handlers
<1> HIDE DEF new
<1>5. \A x \in Clients : new[x].req = hh[x].req
  BY <1>2, <1>4
<1> QED BY <1>2, <1>4, <1>5 DEF new

-----------------------------------------------------------------------------
\* The inductive invariant.

Within == {"inside", "open", "write", "render"}

\* page_mutex is held by the handler that is inside process_request, and by no other.
LockInv == \A c \in Clients : h[c].pc \in Within <=> lock = c

\* Only what was read of a request can be less than a request.
RequestInv == \A c \in Clients : h[c].pc \in {"backlog", "reading"} => h[c].req \in Requests

\* A process that has ended leaves no thread and no days.
DownInv ==
  ~alive => days = <<>> /\ \A c \in Clients : h[c].pc \in {"new", "done", "lost", "unsent"}

\* database.txt, until stop() closes the socket: it holds the days but for a handler
\* that has changed them and not saved all of them yet, and unless the last save could not
\* open it; from the moment a handler opens it it holds a beginning of them.
FileInv ==
  stopper \in {"stdin", "close"} =>
    /\ Grouped(file)
    /\ alive => db = "live"
    /\ alive /\ ~behind /\ (\A c \in Clients : h[c].pc \notin {"open", "write"}) =>
         file = Lines(days)
    /\ \A c \in Clients : h[c].pc = "write" => IsPrefix(file, Lines(days))

ServerInv ==
  /\ TypeOK
  /\ LockInv
  /\ RequestInv
  /\ DownInv
  /\ Good(days, nextId)
  /\ FileInv

\* The invariant holds before the first start of the server.
LEMMA InitInv == Init => ServerInv
<1> SUFFICES ASSUME Init PROVE ServerInv
  OBVIOUS
<1>1. TypeOK
  <2>1. [c \in Clients |-> [pc |-> "new", req |-> NoRequest]] \in
          [Clients -> [pc : HandlerPcs, req : Reading]]
    BY DEF HandlerPcs, Reading
  <2>2. <<>> \in Seq(Day)
    BY EmptySeq
  <2>3. h \in [Clients -> [pc : HandlerPcs, req : Reading]]
    BY <2>1 DEF Init
  <2>5. resp \in [Clients -> SUBSET Line] /\ page \subseteq Line
    BY DEF Init
  <2> QED BY <2>2, <2>3, <2>5, ServerAssumption DEF Init, TypeOK, Reading
<1>2. Good(days, nextId)
  BY EmptySeq DEF Init, Good, UniqueDates, Filed, Apart
<1>3. LockInv /\ RequestInv /\ DownInv
  BY ServerAssumption DEF Init, LockInv, RequestInv, DownInv, Within
<1>4. FileInv
  BY ServerAssumption DEF Init, FileInv, alive
<1> QED BY <1>1, <1>2, <1>3, <1>4 DEF ServerInv

\* The types as the proofs use them.
LEMMA Types ==
  ASSUME ServerInv
  PROVE  /\ h \in Handlers /\ days \in Seq(Day) /\ file \in Seq(Line) /\ nextId \in Nat
         /\ Lines(days) \in Seq(Line)
         /\ UniqueDates(days) /\ Filed(days)
BY LinesAppend DEF ServerInv, TypeOK, Handlers, Reading, Good

\* A handler that goes on.
LEMMA HandlerMoves ==
  ASSUME ServerInv, NEW c \in Clients, NEW p \in HandlerPcs, Goto(c, p),
         h[c].pc \notin {"new", "done", "lost", "unsent"}, p \notin {"backlog", "reading"},
         UNCHANGED mainVars
  PROVE  /\ h' \in Handlers
         /\ h'[c].pc = p
         /\ \A x \in Clients : h'[x].req = h[x].req
         /\ \A x \in Clients : x # c => h'[x] = h[x]
         /\ alive /\ alive' /\ stopper' = stopper
         /\ RequestInv' /\ DownInv'
         /\ h[c].pc \in Within /\ p \in Within /\ lock' = lock => LockInv'
         /\ h[c].pc \in Within /\ p \notin Within /\ lock' = NoClient => LockInv'
         /\ h[c].pc \notin Within /\ lock = NoClient /\ p \in Within /\ lock' = c => LockInv'
         /\ h[c].pc \notin Within /\ p \notin Within /\ lock' = lock => LockInv'
<1>1. h \in Handlers
  BY Types
<1>2. h' = [h EXCEPT ![c].pc = p]
  BY DEF Goto
<1>3. /\ h' \in Handlers /\ h'[c].pc = p
      /\ \A x \in Clients : h'[x].req = h[x].req
      /\ \A x \in Clients : x # c => h'[x] = h[x]
  <2> DEFINE new == [h EXCEPT ![c].pc = p]
  <2>1. /\ new \in Handlers /\ new[c].pc = p
        /\ \A x \in Clients : new[x].req = h[x].req
        /\ \A x \in Clients : x # c => new[x] = h[x]
    BY ONLY <1>1, p \in HandlerPcs, c \in Clients, GoesOn
  <2>2. h' = new
    BY <1>2
  <2> HIDE DEF new
  <2> QED BY ONLY <2>1, <2>2
<1>4. alive /\ alive' /\ stopper' = stopper
  BY DEF ServerInv, DownInv, mainVars, alive
<1>5. RequestInv' /\ DownInv'
  BY <1>3, <1>4 DEF ServerInv, RequestInv, DownInv
<1>6. /\ \A x \in Clients : h[x].pc \in Within <=> lock = x
      /\ lock \in Clients \cup {NoClient} /\ NoClient \notin Clients
  BY ServerAssumption DEF ServerInv, LockInv, TypeOK
<1>7. ASSUME \A x \in Clients : h'[x].pc \in Within <=> lock' = x
      PROVE  LockInv'
  BY <1>7 DEF LockInv
<1>8. h[c].pc \in Within /\ p \in Within /\ lock' = lock => LockInv'
  BY <1>3, <1>6, <1>7
<1>9. h[c].pc \in Within /\ p \notin Within /\ lock' = NoClient => LockInv'
  BY <1>3, <1>6, <1>7
<1>10. h[c].pc \notin Within /\ lock = NoClient /\ p \in Within /\ lock' = c => LockInv'
  BY <1>3, <1>6, <1>7
<1>11. h[c].pc \notin Within /\ p \notin Within /\ lock' = lock => LockInv'
  BY <1>3, <1>6, <1>7
<1> QED BY <1>3, <1>4, <1>5, <1>8, <1>9, <1>10, <1>11

\* The process ends with a file that stands by date, unless stop() is at work.
LEMMA DieInv ==
  ASSUME ServerInv, Die, file' \in Seq(Line),
         stopper \in {"stdin", "close"} => Grouped(file')
  PROVE  ServerInv'
<1>1. h \in Handlers
  BY Types
<1>2. h' \in Handlers /\ \A c \in Clients : h'[c].pc \in {"new", "done", "lost", "unsent"}
  <2> DEFINE after(q) == CASE q \in {"new", "done", "lost", "unsent"} -> q
                           [] q = "send" -> "unsent"
                           [] OTHER -> "lost"
  <2>1. \A q \in HandlerPcs : after(q) \in {"new", "done", "lost", "unsent"}
    BY DEF HandlerPcs
  <2>2. h' = [c \in Clients |-> [h[c] EXCEPT !.pc = after(h[c].pc)]]
    BY DEF Die
  <2> HIDE DEF after
  <2>3. ASSUME NEW c \in Clients
        PROVE  /\ h'[c] \in [pc : HandlerPcs, req : Reading]
               /\ h'[c].pc \in {"new", "done", "lost", "unsent"}
    <3>1. h[c] \in [pc : HandlerPcs, req : Reading]
      BY <1>1 DEF Handlers
    <3>2. h'[c] = [h[c] EXCEPT !.pc = after(h[c].pc)]
      BY <2>2
    <3>3. after(h[c].pc) \in {"new", "done", "lost", "unsent"} /\ after(h[c].pc) \in HandlerPcs
      BY <2>1, <3>1 DEF HandlerPcs
    <3> QED BY <3>1, <3>2, <3>3
  <2>4. h' = [c \in Clients |-> h'[c]]
    BY <2>2
  <2> QED BY <2>3, <2>4 DEF Handlers
<1>3. /\ main' = "down" /\ running' = FALSE /\ listening' = FALSE /\ waker' = FALSE
      /\ lock' = NoClient /\ db' = "deleted" /\ days' = <<>> /\ nextId' = 1 /\ page' = {}
      /\ behind' = FALSE /\ UNCHANGED <<stopper, resp>>
  BY DEF Die
<1>4. TypeOK'
  BY <1>2, <1>3, EmptySeq DEF ServerInv, TypeOK, Handlers, Reading
<1>5. LockInv' /\ RequestInv'
  BY <1>2, <1>3, ServerAssumption DEF LockInv, RequestInv, Within
<1>6. DownInv' /\ Good(days', nextId')
  BY <1>2, <1>3, EmptySeq DEF DownInv, Good, UniqueDates, Filed, Apart
<1>7. FileInv'
  BY <1>2, <1>3 DEF FileInv, alive
<1> QED BY <1>4, <1>5, <1>6, <1>7 DEF ServerInv

\* A step of a thread that is not within process_request.
LEMMA OutsideStep ==
  ASSUME ServerInv, alive, alive', h' \in Handlers, TypeOK',
         UNCHANGED <<lock, db, days, nextId, file, behind>>,
         stopper' \in {"stdin", "close"} => stopper \in {"stdin", "close"},
         \A c \in Clients : \/ h'[c] = h[c]
                            \/ h[c].pc \notin Within /\ h'[c].pc \notin Within,
         RequestInv'
  PROVE  ServerInv'
<1>1. LockInv'
  BY DEF ServerInv, LockInv
<1>2. DownInv' /\ Good(days', nextId')
  BY DEF ServerInv, DownInv
<1>3. FileInv'
  <2>1. \A c \in Clients : h'[c].pc \in {"open", "write"} => h'[c] = h[c]
    BY DEF Within
  <2>2. \A c \in Clients : h[c].pc \in {"open", "write"} => h'[c] = h[c]
    BY DEF Within
  <2> QED BY <2>1, <2>2 DEF ServerInv, FileInv
<1> QED BY <1>1, <1>2, <1>3 DEF ServerInv

\* A step of the main thread.
LEMMA MainInv == ServerInv /\ Main => ServerInv'
<1> SUFFICES ASSUME ServerInv, Main PROVE ServerInv'
  OBVIOUS
<1>1. h \in Handlers /\ file \in Seq(Line)
  BY Types
<1>2. CASE MainLoop
  <2>1. TypeOK'
    BY <1>2 DEF MainLoop, dataVars, saveVars, ServerInv, TypeOK
  <2>2. alive /\ alive' /\ RequestInv'
    BY <1>2 DEF MainLoop, alive, ServerInv, RequestInv
  <2> QED BY <1>1, <1>2, <2>1, <2>2, OutsideStep DEF MainLoop, dataVars, saveVars
<1>3. CASE EnterAccept
  <2>1. TypeOK'
    BY <1>3 DEF EnterAccept, dataVars, saveVars, ServerInv, TypeOK
  <2>2. alive /\ alive' /\ RequestInv'
    BY <1>3 DEF EnterAccept, alive, ServerInv, RequestInv
  <2> QED BY <1>1, <1>3, <2>1, <2>2, OutsideStep DEF EnterAccept, dataVars, saveVars
<1>4. ASSUME NEW c \in Clients, Accept(c)
      PROVE  ServerInv'
  <2>1. /\ h' = [h EXCEPT ![c].pc = "reading"] /\ h[c].pc = "backlog" /\ "reading" \in HandlerPcs
        /\ UNCHANGED <<lock, db, days, nextId, file, behind, stopper>>
    BY <1>4 DEF Accept, dataVars, saveVars, HandlerPcs
  <2>2. /\ h' \in Handlers /\ h'[c].pc = "reading"
        /\ \A x \in Clients : h'[x].req = h[x].req
        /\ \A x \in Clients : x # c => h'[x] = h[x]
    <3> DEFINE new == [h EXCEPT ![c].pc = "reading"]
    <3>1. "reading" \in HandlerPcs
      BY <2>1
    <3>2. /\ new \in Handlers /\ new[c].pc = "reading"
          /\ \A x \in Clients : new[x].req = h[x].req
          /\ \A x \in Clients : x # c => new[x] = h[x]
      BY ONLY <1>1, <3>1, c \in Clients, GoesOn
    <3>3. h' = new
      BY <2>1
    <3> HIDE DEF new
    <3> QED BY ONLY <3>2, <3>3
  <2>3. TypeOK'
    BY <1>4, <2>2 DEF Accept, dataVars, saveVars, ServerInv, TypeOK, Handlers, Reading
  <2>4. alive /\ alive' /\ RequestInv'
    BY <1>4, <2>1, <2>2 DEF Accept, alive, ServerInv, RequestInv
  <2>5. \A x \in Clients : \/ h'[x] = h[x]
                           \/ h[x].pc \notin Within /\ h'[x].pc \notin Within
    BY <2>1, <2>2 DEF Within
  <2> QED BY <2>1, <2>2, <2>3, <2>4, <2>5, OutsideStep
<1>5. CASE AcceptWaker
  <2>1. TypeOK'
    BY <1>5 DEF AcceptWaker, dataVars, saveVars, ServerInv, TypeOK
  <2>2. alive /\ alive' /\ RequestInv'
    BY <1>5 DEF AcceptWaker, alive, ServerInv, RequestInv
  <2> QED BY <1>1, <1>5, <2>1, <2>2, OutsideStep DEF AcceptWaker, dataVars, saveVars
<1>6. CASE Exit
  <2>1. Die /\ file' = file /\ main = "returned"
    BY <1>6 DEF Exit
  <2>2. stopper \in {"stdin", "close"} => Grouped(file')
    BY <2>1 DEF ServerInv, FileInv
  <2> QED BY <1>1, <2>1, <2>2, DieInv
<1> QED BY <1>2, <1>3, <1>4, <1>5, <1>6 DEF Main

\* A step of the terminal's thread.
LEMMA StopInv == ServerInv /\ (StopTyped \/ Stopping) => ServerInv'
<1> SUFFICES ASSUME ServerInv, StopTyped \/ Stopping PROVE ServerInv'
  OBVIOUS
<1>1. h \in Handlers /\ file \in Seq(Line) /\ Lines(days) \in Seq(Line)
  BY Types
<1>2. CASE StopTyped
  <2>1. TypeOK'
    BY <1>2 DEF StopTyped, dataVars, saveVars, ServerInv, TypeOK
  <2>2. alive /\ alive' /\ RequestInv' /\ stopper = "stdin"
    BY <1>2 DEF StopTyped, alive, ServerInv, RequestInv
  <2> QED BY <1>1, <1>2, <2>1, <2>2, OutsideStep DEF StopTyped, dataVars, saveVars
<1>3. CASE StopClose
  <2>1. TypeOK'
    BY <1>3 DEF StopClose, dataVars, saveVars, ServerInv, TypeOK
  <2>2. alive /\ alive' /\ RequestInv' /\ stopper = "close"
    BY <1>3 DEF StopClose, alive, ServerInv, RequestInv
  <2> QED BY <1>1, <1>3, <2>1, <2>2, OutsideStep DEF StopClose, dataVars, saveVars
<1>4. CASE StopOpen
  <2>1. file' \in Seq(Line) /\ behind' \in BOOLEAN /\ stopper' \in {"write", "free"}
    BY <1>1, <1>4, EmptySeq DEF StopOpen
  <2>2. TypeOK'
    BY <1>4, <2>1 DEF StopOpen, ServerInv, TypeOK
  <2> QED BY <1>4, <2>1, <2>2 DEF StopOpen, ServerInv, LockInv, RequestInv, DownInv, alive, FileInv
<1>5. CASE StopWrite
  <2>1. file' \in Seq(Line)
    BY <1>1, <1>5, OverlayProperties DEF StopWrite
  <2>2. TypeOK'
    BY <1>5, <2>1 DEF StopWrite, ServerInv, TypeOK
  <2> QED BY <1>5, <2>2 DEF StopWrite, ServerInv, LockInv, RequestInv, DownInv, alive, FileInv
<1>6. CASE StopFree
  <2>1. TypeOK'
    BY <1>6, EmptySeq DEF StopFree, saveVars, ServerInv, TypeOK
  <2>2. Good(days', nextId')
    BY <1>6, EmptySeq DEF StopFree, Good, UniqueDates, Filed, Apart
  <2> QED BY <1>6, <2>1, <2>2 DEF StopFree, saveVars, ServerInv, LockInv, RequestInv, DownInv, alive, FileInv
<1>7. CASE StopConnect
  <2>1. TypeOK'
    BY <1>7 DEF StopConnect, Reachable, dataVars, saveVars, ServerInv, TypeOK
  <2>2. alive /\ alive' /\ RequestInv'
    BY <1>7 DEF StopConnect, alive, ServerInv, RequestInv
  <2> QED BY <1>1, <1>7, <2>1, <2>2, OutsideStep DEF StopConnect, dataVars, saveVars
<1> QED BY <1>2, <1>3, <1>4, <1>5, <1>6, <1>7 DEF Stopping

\* A step of a handler outside process_request, or of its client.
LEMMA OutsideInv ==
  ASSUME ServerInv, NEW c \in Clients,
         (\E r \in Requests : Connect(c, r)) \/ ReadRequest(c) \/ Send(c)
  PROVE  ServerInv'
<1>1. h \in Handlers
  BY Types
<1>2. ASSUME NEW r \in Requests, Connect(c, r)
      PROVE  ServerInv'
  <2>1. /\ h' = [h EXCEPT ![c] = [pc |-> "backlog", req |-> r]] /\ h[c].pc = "new"
        /\ UNCHANGED <<lock, db, days, nextId, file, behind, stopper>>
    BY <1>2 DEF Connect, mainVars, dataVars, saveVars
  <2>2. [pc |-> "backlog", req |-> r] \in [pc : HandlerPcs, req : Reading]
    BY DEF HandlerPcs, Reading
  <2>3. /\ h' \in Handlers /\ h'[c] = [pc |-> "backlog", req |-> r]
        /\ \A x \in Clients : x # c => h'[x] = h[x]
    BY <1>1, <2>1, <2>2 DEF Handlers
  <2>4. TypeOK'
    BY <1>2, <2>3 DEF Connect, mainVars, dataVars, saveVars, ServerInv, TypeOK, Handlers, Reading
  <2>5. alive /\ alive' /\ RequestInv'
    BY <1>2, <2>3 DEF Connect, mainVars, alive, ServerInv, RequestInv
  <2>6. \A x \in Clients : \/ h'[x] = h[x]
                           \/ h[x].pc \notin Within /\ h'[x].pc \notin Within
    BY <2>1, <2>3 DEF Within
  <2> QED BY <2>1, <2>3, <2>4, <2>5, <2>6, OutsideStep
<1>3. CASE ReadRequest(c)
  <2>1. PICK r \in {h[c].req} \cup CutShort(h[c].req) :
          h' = [h EXCEPT ![c] = [pc |-> "waiting", req |-> r]]
    BY <1>3 DEF ReadRequest
  <2>2. h[c].pc = "reading" /\ UNCHANGED <<mainVars, lock, db, dataVars>>
    BY <1>3 DEF ReadRequest
  <2>3. h[c].req \in Requests
    BY <2>2 DEF ServerInv, RequestInv
  <2>4. r \in Reading
    BY <2>1, <2>3 DEF Reading
  <2>5. [pc |-> "waiting", req |-> r] \in [pc : HandlerPcs, req : Reading]
    BY <2>4 DEF HandlerPcs
  <2>6. /\ h' \in Handlers /\ h'[c] = [pc |-> "waiting", req |-> r]
        /\ \A x \in Clients : x # c => h'[x] = h[x]
    BY <1>1, <2>1, <2>5 DEF Handlers
  <2>7. TypeOK'
    BY <2>2, <2>6 DEF mainVars, dataVars, saveVars, ServerInv, TypeOK, Handlers, Reading
  <2>8. alive /\ alive' /\ RequestInv'
    BY <2>2, <2>6 DEF mainVars, alive, ServerInv, DownInv, RequestInv
  <2>9. \A x \in Clients : \/ h'[x] = h[x]
                           \/ h[x].pc \notin Within /\ h'[x].pc \notin Within
    BY <2>2, <2>6 DEF Within
  <2>10. UNCHANGED <<lock, db, days, nextId, file, behind, stopper>>
    BY <2>2 DEF mainVars, dataVars, saveVars
  <2> QED BY <2>6, <2>7, <2>8, <2>9, <2>10, OutsideStep
<1>4. CASE Send(c)
  <2>1. /\ Goto(c, "done") /\ h[c].pc = "send" /\ "done" \in HandlerPcs
        /\ UNCHANGED <<mainVars, lock, db, dataVars>>
    BY <1>4 DEF Send, HandlerPcs
  <2>2. /\ h' \in Handlers /\ h'[c].pc = "done"
        /\ \A x \in Clients : x # c => h'[x] = h[x]
        /\ alive /\ alive' /\ RequestInv'
    BY <2>1, HandlerMoves
  <2>3. TypeOK'
    BY <2>1, <2>2 DEF mainVars, dataVars, saveVars, ServerInv, TypeOK, Handlers, Reading
  <2>4. \A x \in Clients : \/ h'[x] = h[x]
                           \/ h[x].pc \notin Within /\ h'[x].pc \notin Within
    BY <2>1, <2>2 DEF Within
  <2>5. UNCHANGED <<lock, db, days, nextId, file, behind, stopper>>
    BY <2>1 DEF mainVars, dataVars, saveVars
  <2> QED BY <2>2, <2>3, <2>4, <2>5, OutsideStep
<1> QED BY <1>2, <1>3, <1>4

-----------------------------------------------------------------------------
\* What the handler within process_request finds.
LEMMA AtWork ==
  ASSUME ServerInv, NEW c \in Clients, h[c].pc \in Within
  PROVE  /\ alive /\ lock = c
         /\ \A x \in Clients : x # c => h[x].pc \notin Within
         /\ stopper \in {"stdin", "close"} =>
              /\ Grouped(file) /\ db = "live"
              /\ h[c].pc \notin {"open", "write"} /\ ~behind => file = Lines(days)
              /\ h[c].pc = "write" => IsPrefix(file, Lines(days))
<1>1. lock = c /\ \A x \in Clients : x # c => h[x].pc \notin Within
  BY DEF ServerInv, LockInv
<1>2. alive
  BY DEF ServerInv, DownInv, Within
<1>3. h[c].pc \notin {"open", "write"} => \A x \in Clients : h[x].pc \notin {"open", "write"}
  BY <1>1 DEF Within
<1>4. FileInv
  BY DEF ServerInv
<1> QED BY <1>1, <1>2, <1>3, <1>4 DEF FileInv

\* The handler within process_request goes on, or leaves it and releases page_mutex.
LEMMA InsideStep ==
  ASSUME ServerInv, NEW c \in Clients, h[c].pc \in Within,
         NEW p \in {"open", "write", "render", "send"}, Goto(c, p), UNCHANGED <<mainVars, db>>,
         \/ p # "send" /\ lock' = lock
         \/ p = "send" /\ lock' = NoClient,
         file' \in Seq(Line), page' \subseteq Line, resp' \in [Clients -> SUBSET Line],
         nextId' \in Nat, Good(days', nextId'), behind' \in BOOLEAN,
         stopper \in {"stdin", "close"} =>
           /\ Grouped(file')
           /\ p \notin {"open", "write"} /\ ~behind' => file' = Lines(days')
           /\ p = "write" => IsPrefix(file', Lines(days'))
  PROVE  ServerInv'
<1>0. p \in HandlerPcs /\ h[c].pc \notin {"new", "done", "lost", "unsent"} /\ p \notin {"backlog", "reading"}
  BY DEF HandlerPcs, Within
<1>1. UNCHANGED mainVars /\ UNCHANGED db
  OBVIOUS
<1>2. /\ h' \in Handlers
      /\ h'[c].pc = p
      /\ \A x \in Clients : x # c => h'[x] = h[x]
      /\ alive /\ alive' /\ stopper' = stopper
      /\ RequestInv' /\ DownInv'
      /\ h[c].pc \in Within /\ p \in Within /\ lock' = lock => LockInv'
      /\ h[c].pc \in Within /\ p \notin Within /\ lock' = NoClient => LockInv'
  BY ONLY ServerInv, c \in Clients, <1>0, <1>1, Goto(c, p), HandlerMoves
<1>3. LockInv'
  BY <1>2 DEF Within
<1>4. /\ \A x \in Clients : x # c => h[x].pc \notin Within
      /\ stopper \in {"stdin", "close"} => db = "live"
  BY AtWork
<1>5. FileInv'
  <2>1. \A x \in Clients : h'[x].pc = "write" => x = c
    BY <1>2, <1>4 DEF Within
  <2>2. stopper \in {"stdin", "close"} =>
          /\ Grouped(file')
          /\ p \notin {"open", "write"} /\ ~behind' => file' = Lines(days')
          /\ p = "write" => IsPrefix(file', Lines(days'))
    OBVIOUS
  <2>3. db' = db
    BY <1>1
  <2> QED BY <1>2, <1>4, <2>1, <2>2, <2>3 DEF FileInv
<1>6. TypeOK'
  <2>1. days' \in Seq(Day) /\ nextId' \in Nat
    BY DEF Good
  <2>2. lock' \in Clients \cup {NoClient}
    BY DEF ServerInv, TypeOK
  <2> QED BY <1>1, <1>2, <2>1, <2>2 DEF mainVars, ServerInv, TypeOK, Handlers, Reading
<1> QED BY <1>2, <1>3, <1>5, <1>6 DEF ServerInv

\* A handler takes page_mutex.
LEMMA LockKeeps ==
  ASSUME ServerInv, NEW c \in Clients, Lock(c)
  PROVE  ServerInv'
<1>1. /\ h[c].pc = "waiting" /\ lock = NoClient /\ lock' = c /\ Goto(c, "inside")
      /\ UNCHANGED <<mainVars, db, dataVars>>
  BY DEF Lock
<1>2. /\ h[c].pc \notin {"new", "done", "lost", "unsent"} /\ h[c].pc \notin Within
      /\ "inside" \in HandlerPcs /\ "inside" \notin {"backlog", "reading"} /\ "inside" \in Within
      /\ UNCHANGED mainVars
  BY <1>1 DEF HandlerPcs, Within
<1>3. /\ h' \in Handlers
      /\ h'[c].pc = "inside"
      /\ \A x \in Clients : x # c => h'[x] = h[x]
      /\ alive /\ alive' /\ stopper' = stopper
      /\ RequestInv' /\ DownInv'
      /\ h[c].pc \notin Within /\ lock = NoClient /\ "inside" \in Within /\ lock' = c => LockInv'
  BY ONLY ServerInv, c \in Clients, <1>1, <1>2, HandlerMoves
<1>4. TypeOK'
  BY <1>1, <1>3 DEF mainVars, dataVars, saveVars, ServerInv, TypeOK, Handlers, Reading
<1>5. FileInv'
  <2>1. \A x \in Clients : h'[x].pc \in {"open", "write"} => h'[x] = h[x] /\ x # c
    BY <1>3
  <2>2. \A x \in Clients : h[x].pc \in {"open", "write"} => h'[x] = h[x] /\ x # c
    BY <1>1, <1>3
  <2> QED BY <1>1, <1>3, <2>1, <2>2 DEF dataVars, saveVars, ServerInv, FileInv
<1> QED BY <1>1, <1>2, <1>3, <1>4, <1>5 DEF dataVars, saveVars, ServerInv

\* The pages are lines.
LEMMA SearchPage ==
  ASSUME NEW ds \in Seq(Day), NEW k
  PROVE  {FileLine(o.apt) : o \in ToSet(DbSearch(ds, k))} \subseteq Line
<1>1. ASSUME NEW o \in ToSet(DbSearch(ds, k))
      PROVE  FileLine(o.apt) \in Line
  <2>1. DbSearch(ds, k) \in Seq(Object)
    BY SearchFindsBookings
  <2>2. ToSet(DbSearch(ds, k)) \subseteq Object
    BY <2>1, FiniteElements
  <2>3. o.apt \in Appointment
    BY <2>2 DEF Object
  <2> QED BY <2>3, LineTypes
<1> QED BY <1>1

\* A delete leaves a good vector.
LEMMA DeleteKeeps ==
  ASSUME NEW ds, NEW n \in Nat, Good(ds, n), NEW d \in DOMAIN ds, NEW hits
  PROVE  Good(WithAppointments(ds, d, DeleteAll(ds[d].appointments, hits)), n)
<1> DEFINE objs == ds[d].appointments
           new  == DeleteAll(objs, hits)
<1>1. /\ objs \in Seq(Object) /\ Increasing(objs) /\ Below(objs, n)
  BY DayType DEF Good
<1> HIDE DEF objs
<1>2. /\ new \in Seq(Object) /\ Increasing(new) /\ Below(new, n)
      /\ \A i \in DOMAIN new : \E j \in DOMAIN objs : new[i] = objs[j]
  BY ONLY <1>1, n \in Nat, DeleteAllProperties
<1> HIDE DEF new
<1>3. Good(WithAppointments(ds, d, new), n)
  BY <1>2, FewerGood DEF objs
<1> QED BY <1>3 DEF new, objs

\* A step of a handler within process_request.
LEMMA InsideInv ==
  ASSUME ServerInv, NEW c \in Clients,
         \/ Refuse(c) \/ AddAppointment(c) \/ DeleteAppointment(c) \/ OpenFile(c)
         \/ SaveFails(c) \/ WriteAll(c) \/ Search(c) \/ Render(c)
  PROVE  ServerInv'
<1>1. /\ h \in Handlers /\ days \in Seq(Day) /\ file \in Seq(Line) /\ nextId \in Nat
      /\ Lines(days) \in Seq(Line) /\ Good(days, nextId)
      /\ page \subseteq Line /\ resp \in [Clients -> SUBSET Line]
      /\ h[c].req \in Reading /\ behind \in BOOLEAN
  BY Types DEF ServerInv, TypeOK, Handlers
<1>2. ASSUME h[c].pc \in Within
      PROVE  stopper \in {"stdin", "close"} =>
               /\ Grouped(file) /\ Grouped(Lines(days)) /\ db = "live"
               /\ h[c].pc \notin {"open", "write"} /\ ~behind => file = Lines(days)
               /\ h[c].pc = "write" => IsPrefix(file, Lines(days))
  <2>1. Grouped(Lines(days))
    BY Types, LinesGrouped
  <2> QED BY <1>2, <2>1, AtWork
<1>3. CASE Refuse(c)
  <2>1. /\ h[c].pc = "inside" /\ Goto(c, "send") /\ lock' = NoClient
        /\ UNCHANGED <<mainVars, db, days, nextId, resp, file, behind>>
        /\ page' \subseteq page
    BY <1>3 DEF Refuse, Unlock, saveVars
  <2> QED BY <1>1, <1>2, <2>1, InsideStep DEF Within
<1>4. CASE AddAppointment(c)
  <2>1. /\ h[c].pc = "inside" /\ Goto(c, "open") /\ h[c].req.op = "add"
        /\ days' = Insert(days, [id |-> nextId, apt |-> h[c].req.apt]) /\ nextId' = nextId + 1
        /\ UNCHANGED <<mainVars, lock, db, page, resp, file, behind>>
    BY <1>4 DEF AddAppointment, saveVars
  <2>2. h[c].req.apt \in Appointment
    BY <1>1, <2>1, FieldsOf
  <2>3. Good(days', nextId') /\ nextId' \in Nat
    BY <1>1, <2>1, <2>2, InsertGood
  <2> QED BY <1>1, <1>2, <2>1, <2>3, InsideStep DEF Within
<1>5. CASE DeleteAppointment(c)
  <2> DEFINE r    == h[c].req
             D    == DaysOf(days, r.date)
             hits == Selected(days[First(D)].appointments, r.time, r.contactee)
  <2>1. /\ h[c].pc = "inside" /\ Goto(c, "open")
        /\ days' = IF D = {} \/ r.contactee = Empty THEN days
                   ELSE WithAppointments(days, First(D),
                          DeleteAll(days[First(D)].appointments, hits))
        /\ UNCHANGED <<mainVars, lock, db, nextId, page, resp, file, behind>>
    BY <1>5 DEF DeleteAppointment, saveVars
  <2>2. D # {} => First(D) \in DOMAIN days
    <3>1. D \in SUBSET Nat /\ D \subseteq DOMAIN days
      BY <1>1, LenProperties DEF DaysOf
    <3> HIDE DEF D
    <3> QED BY <3>1, FirstIsLeast
  <2> HIDE DEF D, hits
  <2>3. Good(days', nextId') /\ nextId' \in Nat
    BY <1>1, <2>1, <2>2, DeleteKeeps
  <2> QED BY <1>1, <1>2, <2>1, <2>3, InsideStep DEF Within
<1>6. CASE OpenFile(c)
  <2>1. /\ h[c].pc = "open" /\ Goto(c, "write") /\ file' = <<>> /\ behind' = FALSE
        /\ UNCHANGED <<mainVars, lock, db, days, nextId, page, resp>>
    BY <1>6 DEF OpenFile
  <2>2. file' \in Seq(Line) /\ Grouped(file') /\ IsPrefix(file', Lines(days'))
    BY <1>1, <2>1, EmptySeq, GroupedFiles
  <2> QED BY <1>1, <2>1, <2>2, InsideStep DEF Within
<1>7. CASE WriteAll(c)
  <2>1. /\ h[c].pc = "write" /\ Goto(c, "send") /\ lock' = NoClient
        /\ file' = Overlay(Lines(days), file)
        /\ UNCHANGED <<mainVars, db, days, nextId, page, resp, behind>>
    BY <1>7 DEF WriteAll, Unlock
  <2>2. file' \in Seq(Line) /\ (IsPrefix(file, Lines(days)) => file' = Lines(days))
    BY <1>1, <2>1, OverlayProperties
  <2> QED BY <1>1, <1>2, <2>1, <2>2, InsideStep DEF Within
<1>8. CASE Search(c)
  <2>1. /\ h[c].pc = "inside" /\ Goto(c, "render")
        /\ page' = {FileLine(o.apt) : o \in ToSet(DbSearch(days, h[c].req.keyword))}
        /\ UNCHANGED <<mainVars, lock, db, days, nextId, resp, file, behind>>
    BY <1>8 DEF Search, saveVars
  <2>2. page' \subseteq Line
    BY <1>1, <2>1, SearchPage
  <2> QED BY <1>1, <1>2, <2>1, <2>2, InsideStep DEF Within
<1>9. CASE Render(c)
  <2>1. /\ h[c].pc = "render" /\ Goto(c, "send") /\ lock' = NoClient
        /\ resp' = [resp EXCEPT ![c] = page]
        /\ UNCHANGED <<mainVars, db, days, nextId, page, file, behind>>
    BY <1>9 DEF Render, Unlock, saveVars
  <2>2. resp' \in [Clients -> SUBSET Line]
    BY <1>1, <2>1
  <2> QED BY <1>1, <1>2, <2>1, <2>2, InsideStep DEF Within
<1>10. CASE SaveFails(c)
  <2>1. /\ h[c].pc = "open" /\ Goto(c, "send") /\ lock' = NoClient
        /\ behind' = TRUE
        /\ UNCHANGED <<mainVars, db, days, nextId, page, resp, file>>
    BY <1>10 DEF SaveFails, Unlock
  <2> QED BY <1>1, <1>2, <2>1, InsideStep DEF Within
<1> QED BY <1>3, <1>4, <1>5, <1>6, <1>7, <1>8, <1>9, <1>10

\* A part of the save reaches the disk.
LEMMA WritePartInv ==
  ASSUME ServerInv, NEW c \in Clients, WritePart(c)
  PROVE  ServerInv'
<1>1. h \in Handlers /\ file \in Seq(Line) /\ Lines(days) \in Seq(Line)
  BY Types
<1>2. /\ h[c].pc = "write" /\ h[c].pc \in Within
      /\ UNCHANGED <<mainVars, h, lock, db, days, nextId, page, resp, behind>>
  BY DEF WritePart, Within
<1>3. PICK n \in 1 .. Len(Lines(days)) : file' = Overlay(SubSeq(Lines(days), 1, n), file)
  BY DEF WritePart
<1>4. file' \in Seq(Line)
  <2>1. n \in 0 .. Len(Lines(days))
    BY <1>1, LenProperties
  <2>2. SubSeq(Lines(days), 1, n) \in Seq(Line)
    BY <1>1, <2>1, FrontProperties
  <2> QED BY <1>1, <1>3, <2>2, OverlayProperties
<1>5. stopper \in {"stdin", "close"} =>
        Grouped(file') /\ IsPrefix(file', Lines(days)) /\ db = "live"
  <2> SUFFICES ASSUME stopper \in {"stdin", "close"}
               PROVE  Grouped(file') /\ IsPrefix(file', Lines(days)) /\ db = "live"
    OBVIOUS
  <2>1. IsPrefix(file, Lines(days)) /\ db = "live"
    BY <1>2, AtWork
  <2>2. IsPrefix(file', Lines(days))
    BY <1>1, <1>3, <2>1, OverlayProperties
  <2>3. Grouped(Lines(days))
    BY Types, LinesGrouped
  <2> QED BY <1>1, <1>4, <2>1, <2>2, <2>3, PrefixGrouped
<1>6. TypeOK'
  BY <1>2, <1>4 DEF mainVars, ServerInv, TypeOK
<1>7. LockInv' /\ RequestInv' /\ DownInv' /\ Good(days', nextId')
  BY <1>2 DEF mainVars, alive, ServerInv, LockInv, RequestInv, DownInv
<1>8. FileInv'
  <2>1. \E x \in Clients : h'[x].pc \in {"open", "write"}
    BY <1>2
  <2> QED BY <1>2, <1>5, <2>1 DEF mainVars, FileInv
<1> QED BY <1>6, <1>7, <1>8 DEF ServerInv

\* A call on the db that stop() has deleted.
LEMMA UseFreedInv ==
  ASSUME ServerInv, NEW c \in Clients, UseFreed(c)
  PROVE  ServerInv'
<1>1. /\ h \in Handlers /\ days \in Seq(Day) /\ file \in Seq(Line) /\ nextId \in Nat
      /\ Good(days, nextId) /\ page \subseteq Line /\ resp \in [Clients -> SUBSET Line]
      /\ behind \in BOOLEAN
  BY Types DEF ServerInv, TypeOK
<1>2. h[c].pc \in Within /\ db = "deleted"
  BY DEF UseFreed, Within
<1>3. stopper \notin {"stdin", "close"}
  BY <1>2, AtWork
<1>4. CASE (file' = file \/ file' = <<>>) /\ Die
  <2>1. file' \in Seq(Line)
    BY <1>1, <1>4, EmptySeq
  <2> QED BY <1>3, <1>4, <2>1, DieInv
<1>5. CASE Unlock(c) /\ UNCHANGED <<mainVars, db, dataVars>>
  <2>1. /\ Goto(c, "send") /\ lock' = NoClient
        /\ UNCHANGED <<mainVars, db, days, nextId, page, resp, file, behind>>
    BY <1>5 DEF Unlock, dataVars, saveVars
  <2> QED BY <1>1, <1>2, <1>3, <2>1, InsideStep
<1> QED BY <1>4, <1>5 DEF UseFreed

\* The process dies, and is started again.
LEMMA LifeInv == ServerInv /\ (Crash \/ Start) => ServerInv'
<1> SUFFICES ASSUME ServerInv, Crash \/ Start PROVE ServerInv'
  OBVIOUS
<1>1. h \in Handlers /\ file \in Seq(Line) /\ Len(file) \in Nat
  BY Types, LenProperties
<1>2. CASE Crash
  <2>1. Die /\ file' = file
    BY <1>2 DEF Crash
  <2>2. stopper \in {"stdin", "close"} => Grouped(file')
    BY <2>1 DEF ServerInv, FileInv
  <2> QED BY <1>1, <2>1, <2>2, DieInv
<1>3. CASE Start
  <2>1. /\ ~alive /\ stopper = "stdin"
        /\ main' = "loop" /\ running' = TRUE /\ listening' = TRUE /\ db' = "live"
        /\ days' = Load(file) /\ nextId' = Len(file) + 1
        /\ UNCHANGED <<stopper, waker, h, lock, page, resp, file, behind>>
    BY <1>3 DEF Start, saveVars
  <2>2. Grouped(file)
    BY <2>1 DEF ServerInv, FileInv
  <2>3. Good(days', nextId') /\ Lines(days') = file /\ nextId' \in Nat
    BY <1>1, <2>1, <2>2, LoadGood
  <2>5. TypeOK'
    <3>1. days' \in Seq(Day)
      BY <2>3 DEF Good
    <3> QED BY <2>1, <2>3, <3>1 DEF ServerInv, TypeOK
  <2>6. LockInv' /\ RequestInv'
    BY <2>1 DEF ServerInv, LockInv, RequestInv
  <2>7. alive' /\ DownInv'
    BY <2>1 DEF alive, DownInv
  <2>8. \A c \in Clients : h'[c].pc \notin {"open", "write"}
    BY <2>1 DEF ServerInv, DownInv
  <2>9. FileInv'
    BY <2>1, <2>2, <2>3, <2>8 DEF FileInv
  <2> QED BY <2>3, <2>5, <2>6, <2>7, <2>9 DEF ServerInv
<1> QED BY <1>2, <1>3

\* Every step keeps it.
LEMMA NextInv == ServerInv /\ [Next]_vars => ServerInv'
<1> SUFFICES ASSUME ServerInv, [Next]_vars PROVE ServerInv'
  OBVIOUS
<1>1. ASSUME NEW c \in Clients,
             \/ \E r \in Requests : Connect(c, r)
             \/ ReadRequest(c) \/ Process(c) \/ WritePart(c) \/ Send(c)
      PROVE  ServerInv'
  <2>1. CASE (\E r \in Requests : Connect(c, r)) \/ ReadRequest(c) \/ Send(c)
    BY <2>1, OutsideInv
  <2>2. CASE Lock(c)
    BY <2>2, LockKeeps
  <2>3. CASE \/ Refuse(c) \/ AddAppointment(c) \/ DeleteAppointment(c) \/ OpenFile(c)
             \/ SaveFails(c) \/ WriteAll(c) \/ Search(c) \/ Render(c)
    BY <2>3, InsideInv
  <2>4. CASE UseFreed(c)
    BY <2>4, UseFreedInv
  <2>5. CASE WritePart(c)
    BY <2>5, WritePartInv
  <2> QED BY <1>1, <2>1, <2>2, <2>3, <2>4, <2>5 DEF Process
<1>2. CASE UNCHANGED vars
  BY <1>2 DEF vars, ServerInv, TypeOK, LockInv, RequestInv, DownInv, FileInv, alive
<1> QED BY <1>1, <1>2, MainInv, StopInv, LifeInv DEF Next

-----------------------------------------------------------------------------
\* The invariant holds of every behaviour.
THEOREM Invariance == Spec => []ServerInv
BY InitInv, NextInv, PTL DEF Spec

\* Every variable has its type, whatever is cut short, dies or is stopped.
THEOREM TypeCorrectness == Spec => []TypeOK
<1>1. ServerInv => TypeOK
  BY DEF ServerInv
<1> QED BY <1>1, Invariance, PTL

\* With page_mutex free and no stop under way, database.txt holds what db does, unless the
\* last save could not open it: another save is whole before the mutex is released, with
\* the changes that could not be saved, and what a death left is what the next start loads.
THEOREM TheFileIsTheDays == Spec => []FileMatchesDays
<1>1. ServerInv => FileMatchesDays
  <2> SUFFICES ASSUME ServerInv, alive, lock = NoClient, stopper \in {"stdin", "close"}, ~behind
               PROVE  file = Lines(days)
    BY DEF FileMatchesDays
  <2>1. \A c \in Clients : h[c].pc \notin Within
    BY ServerAssumption DEF ServerInv, LockInv
  <2>2. \A c \in Clients : h[c].pc \notin {"open", "write"}
    BY <2>1 DEF Within
  <2> QED BY <2>2 DEF ServerInv, FileInv
<1> QED BY <1>1, Invariance, PTL

-----------------------------------------------------------------------------
\* The implementation of BookingStore.

\* A delete removes as many appointments as it visits.
LEMMA DeleteAllCounts ==
  ASSUME NEW objs \in Seq(Object), Increasing(objs), NEW m \in Nat, Below(objs, m),
         NEW hits \in SUBSET ToSet(objs)
  PROVE  Len(DeleteAll(objs, hits)) = Len(objs) - Cardinality(hits)
<1> DEFINE N       == Len(objs)
           Todo(n) == {o \in hits : \E i \in n + 1 .. N : o = objs[i]}
           Gone(n) == {o \in hits : \E i \in 1 .. n : o = objs[i]}
           Some(s, n) == /\ s \in Seq(Object) /\ Increasing(s) /\ Below(s, m)
                         /\ Todo(n) \subseteq ToSet(s)
                         /\ Len(s) + Cardinality(Gone(n)) = N
<1>1. PICK g \in [0 .. N -> Seq(Object)] :
        /\ g[0] = objs
        /\ \A n \in 1 .. N : g[n] = Visit(g[n - 1], objs[n], hits)
        /\ DeleteAll(objs, hits) = g[N]
  BY DeleteAllIs
<1>2. N \in Nat /\ DOMAIN objs = 1 .. N /\ ToSet(objs) = {objs[i] : i \in 1 .. N}
  BY LenProperties DEF ToSet
<1> HIDE DEF N
<1>3. IsFiniteSet(hits)
  <2>1. IsFiniteSet(ToSet(objs))
    BY FiniteElements
  <2> QED BY <2>1, FS_Subset
<1>4. \A n \in 0 .. N : IsFiniteSet(Gone(n)) /\ Cardinality(Gone(n)) \in Nat
  <2> SUFFICES ASSUME NEW n \in 0 .. N PROVE IsFiniteSet(Gone(n)) /\ Cardinality(Gone(n)) \in Nat
    OBVIOUS
  <2> DEFINE G == Gone(n)
  <2>1. G \in SUBSET hits
    OBVIOUS
  <2> HIDE DEF G
  <2>2. IsFiniteSet(G)
    BY <1>3, <2>1, FS_Subset
  <2>3. Cardinality(G) \in Nat
    BY <2>2, FS_CardinalityType
  <2> QED BY <2>2, <2>3 DEF G
<1>5. \A i, j \in 1 .. N : /\ objs[i].id \in Nat
                           /\ i < j => objs[i].id < objs[j].id
                           /\ objs[i] = objs[j] => i = j
  <2>1. \A i \in 1 .. N : objs[i].id \in Nat
    BY <1>2, ObjectType
  <2>2. \A i, j \in 1 .. N : i < j => objs[i].id < objs[j].id
    BY <1>2 DEF Increasing
  <2> QED BY <1>2, <2>1, <2>2
<1> DEFINE P == {n \in 0 .. N : Some(g[n], n)}
<1>6. 0 \in P
  <2>1. 0 \in 0 .. N /\ Todo(0) = hits /\ Gone(0) = {}
    BY <1>2
  <2>2. Cardinality(Gone(0)) = 0
    BY <2>1, FS_EmptySet
  <2> HIDE DEF Todo, Gone
  <2> QED BY <1>1, <1>2, <2>1, <2>2
<1>7. ASSUME NEW n \in 0 .. N - 1, n \in P
      PROVE  n + 1 \in P
  <2> DEFINE s == g[n]
             o == objs[n + 1]
             k == GetIndex(s, o.apt)
             T == Todo(n)
             U == Todo(n + 1)
             G == Gone(n)
             H == Gone(n + 1)
  <2>1. n + 1 \in 1 .. N /\ (n + 1) - 1 = n /\ n + 1 \in 0 .. N /\ n \in 0 .. N /\ n \in Nat
    BY <1>2
  <2>2. g[n + 1] = Visit(s, o, hits)
    BY <1>1, <2>1
  <2>3. IsFiniteSet(G) /\ Cardinality(G) \in Nat
    BY <1>4, <2>1
  <2>4. CASE o \in hits
    <3>1. /\ o \in T /\ \A p \in T : o.id <= p.id
          /\ U = T \ {o} /\ H = G \cup {o} /\ o \notin G
      <4>1. n + 1 \in n + 1 .. N
        BY <1>2, <2>1
      <4>2. ASSUME NEW p \in T
            PROVE  o.id <= p.id
        <5>1. PICK i \in n + 1 .. N : p = objs[i]
          OBVIOUS
        <5>2. i \in 1 .. N /\ (i = n + 1 \/ n + 1 < i)
          BY <1>2, <2>1, <5>1
        <5> QED BY <1>5, <2>1, <5>1, <5>2
      <4>3. \A i \in n + 1 .. N : i # n + 1 => i \in (n + 1) + 1 .. N
        BY <1>2, <2>1
      <4>4. \A i \in (n + 1) + 1 .. N : i \in n + 1 .. N /\ i \in 1 .. N /\ i # n + 1
        BY <1>2, <2>1
      <4>5. U = T \ {o}
        BY <1>5, <2>1, <4>3, <4>4
      <4>6. \A i \in 1 .. n + 1 : i = n + 1 \/ i \in 1 .. n
        BY <1>2, <2>1
      <4>7. \A i \in 1 .. n : i \in 1 .. n + 1 /\ i \in 1 .. N /\ i # n + 1
        BY <1>2, <2>1
      <4>8. n + 1 \in 1 .. n + 1
        BY <1>2, <2>1
      <4>9. H = G \cup {o}
        BY <2>4, <4>6, <4>7, <4>8
      <4>10. o \notin G
        BY <1>5, <2>1, <4>7
      <4> QED BY <2>4, <4>1, <4>2, <4>5, <4>9, <4>10
    <3>2. /\ s \in Seq(Object) /\ Increasing(s) /\ Below(s, m) /\ T \subseteq ToSet(s)
          /\ Len(s) + Cardinality(G) = N
      BY <1>7
    <3> HIDE DEF s, o, T, U, G, H
    <3>3. k \in DOMAIN s
      <4>1. PICK j \in DOMAIN s : s[j] = o
        BY <3>1, <3>2 DEF ToSet
      <4>2. SameKey(s[j].apt, o.apt)
        BY <4>1 DEF SameKey
      <4> QED BY <3>2, <4>1, <4>2, GetIndexProperties
    <3> HIDE DEF k
    <3>4. g[n + 1] = DeleteAt(s, k)
      BY <2>2, <2>4 DEF Visit, k
    <3>5. U \subseteq ToSet(DeleteAt(s, k))
      BY <3>1, <3>2, LoopStep DEF k
    <3>6. /\ DeleteAt(s, k) \in Seq(Object) /\ Increasing(DeleteAt(s, k)) /\ Below(DeleteAt(s, k), m)
      <4>1. k \in Nat
        BY <3>2, <3>3, LenProperties
      <4> QED BY ONLY <3>2, <4>1, m \in Nat, DeleteAtProperties
    <3>7. Len(DeleteAt(s, k)) = Len(s) - 1 /\ Len(s) \in Nat
      <4>1. k \in 1 .. Len(s) /\ Len(s) \in Nat
        BY <3>2, <3>3, LenProperties
      <4> QED BY <3>2, <3>3, <4>1, RemoveAtProperties DEF DeleteAt
    <3>8. Cardinality(H) = Cardinality(G) + 1
      BY <2>3, <3>1, FS_AddElement
    <3>9. Len(DeleteAt(s, k)) + Cardinality(H) = N
      BY <1>2, <2>3, <3>2, <3>7, <3>8
    <3> QED BY <2>1, <3>4, <3>5, <3>6, <3>9 DEF U, H
  <2>5. CASE o \notin hits
    <3>1. g[n + 1] = s
      BY <2>2, <2>5 DEF Visit
    <3>2. U \subseteq T
      <4>1. \A i \in (n + 1) + 1 .. N : i \in n + 1 .. N
        BY <1>2, <2>1
      <4> QED BY <4>1
    <3>3. H = G
      <4>1. \A i \in 1 .. n + 1 : i = n + 1 \/ i \in 1 .. n
        BY <1>2, <2>1
      <4>2. \A i \in 1 .. n : i \in 1 .. n + 1
        BY <1>2, <2>1
      <4> QED BY <2>5, <4>1, <4>2
    <3>4. /\ s \in Seq(Object) /\ Increasing(s) /\ Below(s, m) /\ T \subseteq ToSet(s)
          /\ Len(s) + Cardinality(G) = N
      BY <1>7
    <3> HIDE DEF s, o, T, G
    <3>5. U \subseteq ToSet(s) /\ Len(s) + Cardinality(H) = N
      BY <3>2, <3>3, <3>4
    <3> QED BY <2>1, <3>1, <3>4, <3>5
  <2> QED BY <2>4, <2>5
<1> HIDE DEF P
<1>8. \A n \in 0 .. N : n \in P
  BY <1>2, <1>6, <1>7, Induct
<1>9. N \in P
  BY <1>2, <1>8
<1>10. Gone(N) = hits
  BY <1>2
<1>11. g[N] \in Seq(Object) /\ Len(g[N]) + Cardinality(hits) = N
  BY <1>9, <1>10 DEF P
<1>12. Len(g[N]) \in Nat /\ Cardinality(hits) \in Nat
  BY <1>3, <1>11, LenProperties, FS_CardinalityType
<1> QED BY <1>1, <1>2, <1>11, <1>12 DEF N

\* The days that DeleteAppointment leaves.
Deleted(ds, date, time, contactee) ==
  LET D    == DaysOf(ds, date)
      objs == ds[First(D)].appointments
  IN  IF D = {} \/ contactee = Empty THEN ds
      ELSE WithAppointments(ds, First(D), DeleteAll(objs, Selected(objs, time, contactee)))

\* What a delete takes out of the lines.
Takes(I, s, t, date, time, contactee) ==
  /\ I \in SUBSET {i \in DOMAIN s : ParseLine(s[i]).date = date}
  /\ LET n == Cardinality(MatchedIn(s, date, time, contactee))
     IN  Cardinality(I) = IF time = Empty \/ n = 0 THEN n ELSE 1
  /\ t = Picked(s, DOMAIN s \ I)

\* The lines of the days after a delete are those before it without as many of the date
\* as match, or without one if a time is given.
LEMMA DeleteChanges ==
  ASSUME NEW ds, NEW m \in Nat, Good(ds, m), NEW date, NEW time \in Text, NEW contactee
  PROVE  \E I : Takes(I, Lines(ds), Lines(Deleted(ds, date, time, contactee)), date, time, contactee)
<1> DEFINE D == DaysOf(ds, date)
           s == Lines(ds)
           H == MatchedIn(s, date, time, contactee)
<1>1. ds \in Seq(Day) /\ UniqueDates(ds) /\ Filed(ds) /\ s \in Seq(Line)
  BY LinesAppend DEF Good
<1>2. CASE D = {} \/ contactee = Empty
  <2>1. Deleted(ds, date, time, contactee) = ds
    BY <1>2 DEF Deleted
  <2>2. H = {}
    <3>1. CASE contactee = Empty
      BY <3>1 DEF MatchedIn
    <3>2. CASE D = {}
      <4>1. ASSUME NEW i \in DOMAIN s
            PROVE  ParseLine(s[i]).date # date
        <5>1. s[i] \in ToSet(s)
          BY DEF ToSet
        <5>2. s[i] \in {FileLine(o.apt) : o \in Booked(ds)}
          BY <1>1, <5>1, LinesSet
        <5>3. PICK d \in DOMAIN ds : \E o \in ToSet(ds[d].appointments) : s[i] = FileLine(o.apt)
          BY <5>2 DEF Booked
        <5>4. PICK j \in DOMAIN ds[d].appointments : s[i] = FileLine(ds[d].appointments[j].apt)
          BY <5>3 DEF ToSet
        <5>5. ParseLine(s[i]).date = ds[d].date
          BY <1>1, <5>4 DEF Filed, ParseLine, FileLine
        <5> QED BY <3>2, <5>5 DEF DaysOf
      <4> HIDE DEF s, D
      <4> QED BY <4>1 DEF MatchedIn
    <3> QED BY <1>2, <3>1, <3>2
  <2> HIDE DEF H, s
  <2>3. s = Picked(s, DOMAIN s \ {}) /\ Cardinality({}) = 0
    BY <1>1, AllPicked
  <2>4. Takes({}, s, s, date, time, contactee)
    BY <2>2, <2>3 DEF Takes, H
  <2> QED BY <2>1, <2>4 DEF s
<1>3. CASE D # {} /\ contactee # Empty
  <2> DEFINE d    == First(D)
             objs == ds[d].appointments
             hits == Selected(objs, time, contactee)
             new  == DeleteAll(objs, hits)
  <2>1. d \in DOMAIN ds /\ ds[d].date = date
    <3>1. D \in SUBSET Nat /\ D \subseteq DOMAIN ds
      BY <1>1, LenProperties DEF DaysOf
    <3>2. \A x \in D : ds[x].date = date
      BY DEF DaysOf
    <3> HIDE DEF D
    <3>3. First(D) \in D
      BY <1>3, <3>1, FirstIsLeast
    <3> QED BY <3>1, <3>2, <3>3
  <2>2. Deleted(ds, date, time, contactee) = WithAppointments(ds, d, new)
    BY <1>3 DEF Deleted
  <2> HIDE DEF d
  <2>3. objs \in Seq(Object) /\ Increasing(objs) /\ Below(objs, m)
    BY <1>1, <2>1, DayType DEF Good
  <2>4. \A o \in ToSet(objs) : o.apt.date = date
    BY <1>1, <2>1 DEF Filed, ToSet
  <2>5. WithAppointments(ds, d, objs) = ds
    BY <1>1, <2>1, SameDay
  <2> HIDE DEF objs
  <2> DEFINE n == Cardinality(Hits(objs, time, contactee))
  <2>6. hits \in SUBSET ToSet(objs) /\ Cardinality(hits) = IF time = Empty \/ n = 0 THEN n ELSE 1
    BY <2>3, SelectedCounts
  <2> HIDE DEF hits, n
  <2>7. /\ new \in Seq(Object) /\ Increasing(new)
        /\ \A i \in DOMAIN new : \E j \in DOMAIN objs : new[i] = objs[j]
    BY <2>3, DeleteAllProperties
  <2>8. Len(new) = Len(objs) - Cardinality(hits)
    BY <2>3, <2>6, DeleteAllCounts
  <2> HIDE DEF new
  <2>9. PICK a \in Seq(Line), b \in Seq(Line) :
          /\ Without(a, date) /\ Without(b, date)
          /\ \A os \in Seq(Object) : Lines(WithAppointments(ds, d, os)) = (a \o ObjLines(os)) \o b
    BY <1>1, <2>1, LinesSplit
  <2> DEFINE u == ObjLines(objs)
             v == ObjLines(new)
             t == Lines(WithAppointments(ds, d, new))
  <2>10. s = (a \o u) \o b /\ t = (a \o v) \o b
    BY <2>3, <2>5, <2>7, <2>9
  <2>11. PICK q : Picks(q, v, u)
    BY <2>3, <2>7, DayLinesPicked
  <2>12. /\ u \in Seq(Line) /\ Len(u) = Len(objs) /\ v \in Seq(Line) /\ Len(v) = Len(new)
         /\ DOMAIN u = DOMAIN objs /\ \A i \in DOMAIN u : u[i] = FileLine(objs[i].apt)
    BY <2>3, <2>7, ObjLinesType, LenProperties
  <2>13. n = Cardinality(H)
    <3> DEFINE z == (a \o ObjLines(objs)) \o b
    <3>1. Cardinality(MatchedIn(z, date, time, contactee)) = n
      BY <1>3, <2>3, <2>4, <2>9, MiddleMatched DEF n
    <3>2. z = s
      BY <2>10
    <3> HIDE DEF z, s
    <3> QED BY <3>1, <3>2
  <2> HIDE DEF u, v, t, s
  <2>14. PICK I : Middle(I, s, t, a, u, v)
    <3>1. \E I : Middle(I, (a \o u) \o b, (a \o v) \o b, a, u, v)
      BY <2>11, <2>12, MiddlePicked
    <3> QED BY ONLY <2>10, <3>1
  <2>15. /\ I \in SUBSET DOMAIN s /\ \A i \in I : i - Len(a) \in DOMAIN u /\ s[i] = u[i - Len(a)]
         /\ t = Picked(s, DOMAIN s \ I) /\ Cardinality(I) = Len(u) - Len(v)
    BY <2>14 DEF Middle
  <2>16. \A i \in I : ParseLine(s[i]).date = date
    <3> SUFFICES ASSUME NEW i \in I PROVE ParseLine(s[i]).date = date
      OBVIOUS
    <3> DEFINE j == i - Len(a)
    <3>1. j \in DOMAIN objs /\ s[i] = FileLine(objs[j].apt)
      BY <2>12, <2>15
    <3>2. objs[j].apt.date = date
      BY <2>4, <3>1 DEF ToSet
    <3> HIDE DEF j
    <3> QED BY <3>1, <3>2 DEF ParseLine, FileLine
  <2>17. Cardinality(I) = Cardinality(hits)
    <3>1. Cardinality(hits) \in Nat /\ Len(objs) \in Nat
      <4>1. IsFiniteSet(ToSet(objs))
        BY <2>3, FiniteElements
      <4> QED BY <2>3, <2>6, <4>1, FS_Subset, FS_CardinalityType, LenProperties
    <3> QED BY ONLY <2>8, <2>12, <2>15, <3>1
  <2>18. Cardinality(I) = IF time = Empty \/ Cardinality(H) = 0 THEN Cardinality(H) ELSE 1
    BY ONLY <2>6, <2>13, <2>17
  <2>19. Takes(I, s, t, date, time, contactee)
    BY <2>15, <2>16, <2>18 DEF Takes, H
  <2> QED BY <2>2, <2>19 DEF s, t
<1> QED BY <1>2, <1>3

-----------------------------------------------------------------------------
\* What the mapping to the store needs besides.

\* t is what the store holds after the request r, s what it held before.
Changed(r, s, t) ==
  \/ /\ r.op = "add" /\ Named(r.apt)
     /\ \E i \in 1 .. Len(s) + 1 : t = InsertAt(s, i, FileLine(r.apt))
  \/ /\ r.op = "delete" /\ r.date # Empty
     /\ \E I : Takes(I, s, t, r.date, r.time, r.contactee)

\* No response is begun before the page is shown.
AnswerInv == \A c \in Clients : h[c].pc \notin {"send", "done", "unsent"} => resp[c] = {}

\* Memory goes with the process.
EndInv == ~alive => db = "deleted"

\* What is true of the server whenever its steps are mapped to those of the store.
StoreInv == AnswerInv /\ EndInv

\* It holds before the first start of the server.
LEMMA InitStoreInv == Init => StoreInv
BY DEF Init, StoreInv, AnswerInv, EndInv

\* A step that changes no response, and takes nobody back from one.
LEMMA QuietStep ==
  ASSUME ServerInv, StoreInv, h' \in Handlers,
         \A c \in Clients : \/ h'[c] = h[c]
                            \/ h[c].pc \notin {"send", "done", "unsent"}
                            \/ h'[c].pc \in {"send", "done", "unsent"},
         resp' = resp, db' = db, alive' = alive
  PROVE  StoreInv'
<1>1. AnswerInv'
  BY DEF StoreInv, AnswerInv
<1>2. EndInv'
  BY DEF StoreInv, EndInv, alive
<1> QED BY <1>1, <1>2 DEF StoreInv

\* A step of the handler c within process_request.
LEMMA InsideStore ==
  ASSUME ServerInv, StoreInv, NEW c \in Clients, NEW p \in HandlerPcs, Goto(c, p),
         h[c].pc \in Within, UNCHANGED mainVars, db' = db,
         \/ resp' = resp /\ p \notin {"new", "backlog", "reading", "waiting", "lost"}
         \/ p = "send" /\ \A x \in Clients : x # c => resp'[x] = resp[x]
  PROVE  StoreInv'
<1>1. /\ h' \in Handlers
      /\ h'[c].pc = p
      /\ \A x \in Clients : h'[x].req = h[x].req
      /\ \A x \in Clients : x # c => h'[x] = h[x]
      /\ alive /\ alive' /\ stopper' = stopper
  <2>1. h \in Handlers
    BY Types
  <2>2. /\ [h EXCEPT ![c].pc = p] \in Handlers
        /\ [h EXCEPT ![c].pc = p][c].pc = p
        /\ \A x \in Clients : [h EXCEPT ![c].pc = p][x].req = h[x].req
        /\ \A x \in Clients : x # c => [h EXCEPT ![c].pc = p][x] = h[x]
    BY ONLY <2>1, c \in Clients, p \in HandlerPcs, GoesOn
  <2>3. alive
    BY DEF ServerInv, DownInv, Within
  <2> QED BY <2>2, <2>3 DEF Goto, mainVars, alive
<1>2. AnswerInv'
  BY <1>1 DEF StoreInv, AnswerInv, Within
<1>3. EndInv'
  BY <1>1 DEF EndInv
<1> QED BY <1>2, <1>3 DEF StoreInv

\* The end of the process.
LEMMA DieStore ==
  ASSUME ServerInv, StoreInv, Die
  PROVE  StoreInv'
<1>1. \A c \in Clients : /\ h'[c].pc \in {"new", "done", "lost", "unsent"}
                         /\ h'[c].pc \in {"done", "unsent"} => h[c].pc \in {"done", "send", "unsent"}
                         /\ h[c].pc \in {"done", "send", "unsent"} => h'[c].pc \in {"done", "unsent"}
  <2> SUFFICES ASSUME NEW c \in Clients
               PROVE  /\ h'[c].pc \in {"new", "done", "lost", "unsent"}
                      /\ h'[c].pc \in {"done", "unsent"} => h[c].pc \in {"done", "send", "unsent"}
                      /\ h[c].pc \in {"done", "send", "unsent"} => h'[c].pc \in {"done", "unsent"}
    OBVIOUS
  <2>1. h[c] \in [pc : HandlerPcs, req : Reading]
    BY Types DEF Handlers
  <2>2. h'[c] = [h[c] EXCEPT !.pc = CASE @ \in {"new", "done", "lost", "unsent"} -> @
                                      [] @ = "send" -> "unsent"
                                      [] OTHER -> "lost"]
    BY DEF Die
  <2>3. h'[c].pc = CASE h[c].pc \in {"new", "done", "lost", "unsent"} -> h[c].pc
                     [] h[c].pc = "send" -> "unsent"
                     [] OTHER -> "lost"
    BY <2>1, <2>2
  <2> QED BY <2>1, <2>3 DEF HandlerPcs
<1>2. resp' = resp /\ db' = "deleted"
  BY DEF Die
<1>3. AnswerInv'
  BY <1>1, <1>2 DEF StoreInv, AnswerInv
<1>4. EndInv'
  BY <1>2 DEF EndInv
<1> QED BY <1>3, <1>4 DEF StoreInv

\* What of the server's state the steps of a handler leave alone.
LEMMA OneMoves ==
  ASSUME ServerInv, NEW c \in Clients, NEW p \in HandlerPcs, Goto(c, p)
  PROVE  /\ h \in Handlers /\ h' \in Handlers /\ h'[c].pc = p
         /\ \A x \in Clients : h'[x].req = h[x].req
         /\ \A x \in Clients : x # c => h'[x] = h[x]
<1>1. h \in Handlers
  BY Types
<1>2. /\ [h EXCEPT ![c].pc = p] \in Handlers
      /\ [h EXCEPT ![c].pc = p][c].pc = p
      /\ \A x \in Clients : [h EXCEPT ![c].pc = p][x].req = h[x].req
      /\ \A x \in Clients : x # c => [h EXCEPT ![c].pc = p][x] = h[x]
  BY ONLY <1>1, c \in Clients, p \in HandlerPcs, GoesOn
<1> QED BY <1>1, <1>2 DEF Goto

\* A step of one handler leaves the others where they are.
LEMMA OneGets ==
  ASSUME ServerInv, ServerInv', NEW c \in Clients, NEW new, h' = [h EXCEPT ![c] = new]
  PROVE  /\ h \in Handlers /\ h' \in Handlers /\ h'[c] = new
         /\ \A x \in Clients : x # c => h'[x] = h[x]
<1>1. h \in Handlers
  BY Types
<1>2. h' \in Handlers
  BY DEF ServerInv, TypeOK, Handlers, Reading
<1> QED BY <1>1, <1>2 DEF Handlers

\* A change of the days is the one that was asked for.
LEMMA AddIsChange ==
  ASSUME ServerInv, NEW c \in Clients, AddAppointment(c)
  PROVE  Changed(h[c].req, Lines(days), Lines(days'))
<1> DEFINE apt == h[c].req.apt
<1>1. /\ h[c].pc = "inside" /\ h[c].req.op = "add" /\ ~Refused(h[c].req)
      /\ days' = Insert(days, [id |-> nextId, apt |-> apt])
  BY DEF AddAppointment
<1>2. Named(apt)
  BY <1>1 DEF Refused
<1>3. h[c].req \in Reading
  BY Types DEF Handlers
<1>4. apt \in Appointment
  BY <1>1, <1>3, FieldsOf
<1>5. Good(days, nextId) /\ nextId \in Nat
  BY Types DEF ServerInv
<1> HIDE DEF apt
<1>6. \E i \in 1 .. Len(Lines(days)) + 1 :
        Lines(Insert(days, [id |-> nextId, apt |-> apt])) = InsertAt(Lines(days), i, FileLine(apt))
  BY <1>4, <1>5, AddChanges
<1> QED BY <1>1, <1>2, <1>6 DEF Changed, apt

\* So is a change by a delete.
LEMMA DeleteIsChange ==
  ASSUME ServerInv, NEW c \in Clients, DeleteAppointment(c)
  PROVE  Changed(h[c].req, Lines(days), Lines(days'))
<1> DEFINE r == h[c].req
<1>1. /\ h[c].pc = "inside" /\ r.op = "delete" /\ ~Refused(r)
      /\ days' = Deleted(days, r.date, r.time, r.contactee)
  BY DEF DeleteAppointment, Deleted
<1>2. r.date # Empty
  BY <1>1 DEF Refused
<1>3. r \in Reading
  BY Types DEF Handlers
<1>4. r.time \in Text
  <2>1. r \in PageRequest \cup {Lacking, NoRequest}
    BY <1>3, ReadingType
  <2> QED BY <1>1, <2>1 DEF PageRequest, Lacking, NoRequest
<1>5. Good(days, nextId) /\ nextId \in Nat
  BY Types DEF ServerInv
<1> HIDE DEF r
<1>6. \E I : Takes(I, Lines(days), Lines(Deleted(days, r.date, r.time, r.contactee)),
                   r.date, r.time, r.contactee)
  BY <1>4, <1>5, DeleteChanges
<1> QED BY <1>1, <1>2, <1>6 DEF Changed, r

\* Every step keeps it.
LEMMA NextStoreInv == ServerInv /\ ServerInv' /\ StoreInv /\ [Next]_vars => StoreInv'
<1> SUFFICES ASSUME ServerInv, ServerInv', StoreInv, [Next]_vars PROVE StoreInv'
  OBVIOUS
<1>1. h \in Handlers /\ h' \in Handlers
  BY Types DEF ServerInv, TypeOK, Handlers, Reading
<1>2. CASE UNCHANGED vars
  BY <1>1, <1>2, QuietStep DEF vars, alive
<1>3. CASE MainLoop \/ EnterAccept \/ AcceptWaker
  BY <1>1, <1>3, QuietStep DEF MainLoop, EnterAccept, AcceptWaker, dataVars, saveVars, alive
<1>4. ASSUME NEW c \in Clients, Accept(c) \/ Lock(c) \/ Send(c)
      PROVE  StoreInv'
  <2>1. PICK p \in {"reading", "inside", "done"} :
          /\ Goto(c, p) /\ (h[c].pc = "send" <=> p = "done")
          /\ h[c].pc \in {"backlog", "waiting", "send"}
    BY <1>4 DEF Accept, Lock, Send, Goto
  <2>2. h'[c].pc = p /\ \A x \in Clients : x # c => h'[x] = h[x]
    BY <2>1, OneMoves DEF HandlerPcs
  <2>3. UNCHANGED <<resp, db>> /\ alive' = alive
    BY <1>4 DEF Accept, Lock, Send, dataVars, saveVars, mainVars, alive
  <2> QED BY <1>1, <2>1, <2>2, <2>3, QuietStep
<1>5. ASSUME NEW c \in Clients, (\E r \in Requests : Connect(c, r)) \/ ReadRequest(c)
      PROVE  StoreInv'
  <2>1. PICK p, r :
          p \in {"backlog", "waiting"} /\ h' = [h EXCEPT ![c] = [pc |-> p, req |-> r]] /\ h[c].pc \in {"new", "reading"}
    BY <1>5 DEF Connect, ReadRequest
  <2>2. h'[c] = [pc |-> p, req |-> r] /\ \A x \in Clients : x # c => h'[x] = h[x]
    BY <2>1, OneGets
  <2>3. h'[c].pc = p
    BY <2>2
  <2>4. UNCHANGED <<resp, db>> /\ alive' = alive
    BY <1>5 DEF Connect, ReadRequest, dataVars, saveVars, mainVars, alive
  <2> QED BY <1>1, <2>1, <2>2, <2>3, <2>4, QuietStep
<1>6. ASSUME NEW c \in Clients, Refuse(c) \/ OpenFile(c) \/ SaveFails(c) \/ WriteAll(c) \/ Search(c)
      PROVE  StoreInv'
  <2>1. PICK p \in {"send", "write", "render"} : Goto(c, p)
    BY <1>6 DEF Refuse, OpenFile, SaveFails, WriteAll, Search, Unlock
  <2>2. h[c].pc \in Within /\ UNCHANGED <<mainVars, db, resp>>
    BY <1>6 DEF Refuse, OpenFile, SaveFails, WriteAll, Search, Within
  <2> QED BY <2>1, <2>2, InsideStore DEF HandlerPcs
<1>7. ASSUME NEW c \in Clients, AddAppointment(c) \/ DeleteAppointment(c)
      PROVE  StoreInv'
  <2>1. /\ Goto(c, "open") /\ h[c].pc \in Within /\ UNCHANGED <<mainVars, db, resp>>
        /\ "open" \in HandlerPcs
    BY <1>7 DEF AddAppointment, DeleteAppointment, Within, HandlerPcs
  <2> QED BY <2>1, InsideStore
<1>8. ASSUME NEW c \in Clients, Render(c)
      PROVE  StoreInv'
  <2>1. /\ Goto(c, "send") /\ h[c].pc \in Within /\ UNCHANGED mainVars /\ db' = db
        /\ resp' = [resp EXCEPT ![c] = page] /\ "send" \in HandlerPcs
    BY <1>8 DEF Render, Unlock, Within, HandlerPcs
  <2>2. \A x \in Clients : x # c => resp'[x] = resp[x]
    BY <2>1 DEF ServerInv, TypeOK
  <2> QED BY <2>1, <2>2, InsideStore
<1>9. ASSUME NEW c \in Clients, WritePart(c)
      PROVE  StoreInv'
  <2>1. UNCHANGED <<h, resp, db>> /\ alive' = alive
    BY <1>9 DEF WritePart, mainVars, alive
  <2> QED BY <2>1 DEF StoreInv, AnswerInv, EndInv
<1>10. ASSUME NEW c \in Clients, UseFreed(c)
       PROVE  StoreInv'
  <2>1. CASE Die
    BY <2>1, DieStore
  <2>2. CASE Unlock(c) /\ UNCHANGED <<mainVars, db, dataVars>>
    <3>1. h[c].pc \in Within
      BY <1>10 DEF UseFreed, Within
    <3> QED BY <2>2, <3>1, InsideStore DEF Unlock, dataVars, saveVars, HandlerPcs
  <2> QED BY <1>10, <2>1, <2>2 DEF UseFreed
<1>11. CASE Crash \/ Exit
  BY <1>11, DieStore DEF Crash, Exit
<1>12. CASE StopTyped \/ Stopping
  <2>1. UNCHANGED <<h, resp>> /\ alive /\ alive'
    BY <1>12 DEF StopTyped, Stopping, StopClose, StopOpen, StopWrite, StopFree, StopConnect,
                 dataVars, saveVars, alive
  <2> QED BY <2>1 DEF StoreInv, AnswerInv, EndInv
<1>13. CASE Start
  <2>1. alive' /\ UNCHANGED <<h, resp>>
    BY <1>13 DEF Start, alive
  <2> QED BY <2>1 DEF StoreInv, AnswerInv, EndInv
<1> QED BY <1>2, <1>3, <1>4, <1>5, <1>6, <1>7, <1>8, <1>9, <1>10, <1>11, <1>12, <1>13
        DEF Next, Main, Process

-----------------------------------------------------------------------------
\* The store, as the server has it: the mapping of `Store', variable by variable.

Asked(r) == IF r = Lacking THEN Bad ELSE r

Reqs    == [c \in Clients |-> IF h[c].req = Lacking THEN Bad ELSE h[c].req]
Stats   == [c \in Clients |-> Progress(h[c].pc)]
Answers == [c \in Clients |-> IF h[c].pc = "render" THEN page ELSE resp[c]]

\* What leaves the mapped variables alone is a stutter of the store. The lemmas that follow say
\* of each action of the store, in terms of the mapped variables, what makes a step one of it.
LEMMA StoreVars ==
  ASSUME UNCHANGED <<Held, Lasting, Reqs, Stats, Answers>>, alive' = alive, stopper' = stopper
  PROVE  UNCHANGED Store!vars
BY DEF Store!vars, Reqs, Stats, Answers

LEMMA StoreAsk ==
  ASSUME NEW c \in Clients, NEW r, alive, Stats[c] = "idle", Reqs' = [Reqs EXCEPT ![c] = r],
         Stats' = [Stats EXCEPT ![c] = "asked"], UNCHANGED <<Held, Lasting, Answers>>,
         alive' = alive, stopper' = stopper
  PROVE  Store!Ask(c, r)
BY DEF Store!Ask, Reqs, Stats, Answers

LEMMA StoreGiveUp ==
  ASSUME NEW c \in Clients, NEW r \in Store!Less(Reqs[c]) \cup {Bad}, alive, Stats[c] = "asked",
         Reqs' = [Reqs EXCEPT ![c] = r],
         UNCHANGED <<Held, Lasting, Stats, Answers>>, alive' = alive, stopper' = stopper
  PROVE  Store!GiveUp(c)
BY DEF Store!GiveUp, Reqs, Stats, Answers, Bad

LEMMA StoreChange ==
  ASSUME NEW c \in Clients, alive, Stats[c] = "asked", Changed(Reqs[c], Held, Held'),
         Stats' = [Stats EXCEPT ![c] = "changed"], UNCHANGED <<Lasting, Reqs, Answers>>,
         alive' = alive, stopper' = stopper,
         \A x \in Clients : Stats[x] \notin {"changed", "saving"}
  PROVE  Store!ApplyChange(c)
<1> DEFINE r == Reqs[c]
<1>1. CASE r.op = "add" /\ Named(r.apt)
             /\ \E i \in 1 .. Len(Held) + 1 : Held' = InsertAt(Held, i, FileLine(r.apt))
  <2>1. Store!Add(r)
    BY <1>1 DEF Store!Add, Store!Named, Named, Store!InsertAt, InsertAt, Store!FileLine, FileLine
  <2> QED BY <2>1 DEF Store!ApplyChange, Store!Settled, Reqs, Stats, Answers
<1>2. CASE r.op = "delete" /\ r.date # Empty
             /\ \E I : Takes(I, Held, Held', r.date, r.time, r.contactee)
  <2>1. Store!Delete(r)
    <3>1. PICK I : Takes(I, Held, Held', r.date, r.time, r.contactee)
      BY <1>2
    <3>2. Store!Matched(r) = MatchedIn(Held, r.date, r.time, r.contactee)
      BY DEF Store!Matched, MatchedIn, Store!ParseLine, ParseLine, Store!Matches, Matches,
             Store!Occurs, Occurs
    <3>3. \A J : Store!Sub(Held, J) = Picked(Held, J)
      BY DEF Store!Sub, Picked, Store!Cardinality, Cardinality
    <3>4. \A J : Store!Cardinality(J) = Cardinality(J)
      BY DEF Store!Cardinality, Cardinality
    <3>5. \A i \in DOMAIN Held : Store!ParseLine(Held[i]).date = ParseLine(Held[i]).date
      BY DEF Store!ParseLine, ParseLine
    <3> QED BY <1>2, <3>1, <3>2, <3>3, <3>4, <3>5 DEF Store!Delete, Takes
  <2> QED BY <2>1 DEF Store!ApplyChange, Store!Settled, Reqs, Stats, Answers
<1> QED BY <1>1, <1>2 DEF Changed

LEMMA StoreSave ==
  ASSUME NEW c \in Clients, alive, Stats[c] = "changed", Lasting' = Held,
         Stats' = [Stats EXCEPT ![c] = "saving"], UNCHANGED <<Held, Reqs, Answers>>,
         alive' = alive, stopper' = stopper
  PROVE  Store!Save(c)
BY DEF Store!Save, Reqs, Stats, Answers

LEMMA StoreSearch ==
  ASSUME NEW c \in Clients, alive, Stats[c] = "asked", Reqs[c].op = "search",
         Answers' = [Answers EXCEPT ![c] = Store!Shown(Reqs[c])],
         Stats' = [Stats EXCEPT ![c] = "seen"], UNCHANGED <<Held, Lasting, Reqs>>,
         alive' = alive, stopper' = stopper,
         \A x \in Clients : Stats[x] \notin {"changed", "saving"}
  PROVE  Store!ApplySearch(c)
BY DEF Store!ApplySearch, Store!Settled, Reqs, Stats, Answers

LEMMA StoreKeep ==
  ASSUME NEW c \in Clients, alive, Stats[c] \in {"changed", "saving", "seen"},
         Stats' = [Stats EXCEPT ![c] = "kept"], UNCHANGED <<Held, Lasting, Reqs, Answers>>,
         alive' = alive, stopper' = stopper
  PROVE  Store!Keep(c)
BY DEF Store!Keep, Reqs, Stats, Answers

LEMMA StoreRefuse ==
  ASSUME NEW c \in Clients, alive, Stats[c] = "asked", Refused(Reqs[c]), Reqs[c] # Lacking,
         Reqs[c].op # "lacking",
         Stats' = [Stats EXCEPT ![c] = "kept"], UNCHANGED <<Held, Lasting, Reqs, Answers>>,
         alive' = alive, stopper' = stopper
  PROVE  Store!Refuse(c)
BY DEF Store!Refuse, Reqs, Stats, Answers, Refused, Store!Named, Named

LEMMA StoreCrash ==
  ASSUME alive, ~alive',
         \/ Held' = Lasting
         \/ /\ \E c \in Clients : Stats[c] = "saving"
            /\ \E n \in 0 .. Len(Lasting) : Held' = SubSeq(Lasting, 1, n),
         Lasting' = Held',
         Stats' = [c \in Clients |-> IF Stats[c] \in {"idle", "kept"} THEN Stats[c] ELSE "lost"],
         Answers' = [c \in Clients |-> IF Stats[c] = "kept" THEN Answers[c] ELSE {}],
         UNCHANGED Reqs, stopper' = stopper
  PROVE  Store!Crash
BY DEF Store!Crash, Reqs, Stats, Answers

LEMMA StoreRestart ==
  ASSUME ~alive, alive', stopper = "stdin", stopper' = stopper,
         UNCHANGED <<Held, Lasting, Reqs, Stats, Answers>>
  PROVE  Store!Restart
BY DEF Store!Restart, Reqs, Stats, Answers

LEMMA StoreStop ==
  ASSUME alive, alive', stopper' # "stdin", UNCHANGED <<Held, Lasting, Reqs, Stats, Answers>>
  PROVE  Store!Stop
BY DEF Store!Stop, Reqs, Stats, Answers

\* What the store holds and keeps, as long as nobody has typed "stop".
HeldIs ==
  stopper = "stdin" =>
    /\ ~alive => Held = file
    /\ alive => Held = Lines(days)
    /\ (\A c \in Clients : h[c].pc # "write") => Lasting = file
    /\ \A c \in Clients : h[c].pc = "write" => Lasting = Lines(days) /\ IsPrefix(file, Lines(days))

\* The mapping agrees with that in every state.
LEMMA HeldNow == ServerInv /\ StoreInv => HeldIs
<1> SUFFICES ASSUME ServerInv, StoreInv, stopper = "stdin"
             PROVE  /\ ~alive => Held = file
                    /\ alive => Held = Lines(days)
                    /\ (\A c \in Clients : h[c].pc # "write") => Lasting = file
                    /\ \A c \in Clients : h[c].pc = "write" =>
                         Lasting = Lines(days) /\ IsPrefix(file, Lines(days))
  BY DEF HeldIs
<1>1. ~alive => Held = file
  BY DEF StoreInv, EndInv, Held
<1>2. alive => Held = Lines(days)
  BY DEF ServerInv, FileInv, Held
<1>3. ASSUME \A c \in Clients : h[c].pc # "write"
      PROVE  Lasting = file
  <2>1. ~Saving
    BY <1>3 DEF Saving, ServerInv, TypeOK
  <2> QED BY <2>1 DEF Lasting
<1>4. ASSUME NEW c \in Clients, h[c].pc = "write"
      PROVE  Lasting = Lines(days) /\ IsPrefix(file, Lines(days))
  <2>1. lock = c /\ NoClient # c
    BY <1>4, ServerAssumption DEF ServerInv, LockInv, Within
  <2>2. Saving
    BY <1>4, <2>1 DEF Saving
  <2> QED BY <1>4, <2>2 DEF Lasting, ServerInv, FileInv
<1> QED BY <1>1, <1>2, <1>3, <1>4

\* And in every state that follows.
LEMMA HeldNext == ServerInv' /\ StoreInv' => HeldIs'
BY HeldNow, PTL

\* What is read of a part of a request is one of the requests that are less.
LEMMA PartsAreLess ==
  ASSUME NEW r \in PageRequest
  PROVE  Parts(r) \subseteq Store!Less(r)
<1> DEFINE cut(x)  == {t \in Text : <<t, x>> \in Cut}
           less(x) == {t \in Text : t \in {Empty, x} \/ <<t, x>> \in Cut}
<1>1. CASE r.op = "add"
  <2>1. r \in [op : {"add"}, apt : Appointment]
    BY <1>1 DEF PageRequest
  <2>2. Store!Less(r) =
          {[r EXCEPT !.apt = [f \in DOMAIN r.apt |-> IF f \in names THEN r.apt[f] ELSE Empty]] :
             names \in SUBSET DOMAIN r.apt}
    BY <1>1 DEF Store!Less
  <2>3. ASSUME NEW q \in Parts(r)
        PROVE  q \in Store!Less(r)
    <3>1. PICK names : q = [r EXCEPT !.apt = Blank(r.apt, names)]
      BY <1>1 DEF Parts
    <3> DEFINE kept == DOMAIN r.apt \ names
    <3>2. Blank(r.apt, names) = [f \in DOMAIN r.apt |-> IF f \in kept THEN r.apt[f] ELSE Empty]
      BY DEF Blank
    <3>3. kept \in SUBSET DOMAIN r.apt
      OBVIOUS
    <3> HIDE DEF kept
    <3> QED BY <2>2, <3>1, <3>2, <3>3
  <2> QED BY <2>3
<1>2. CASE r.op = "delete"
  <2>1. r \in [op : {"delete"}, date : Text, time : Text, contactee : Text]
    BY <1>2 DEF PageRequest
  <2>2. Store!Less(r) =
          {[op |-> "delete", date |-> d, time |-> t, contactee |-> c] :
             d \in less(r.date), t \in less(r.time), c \in less(r.contactee)}
    BY <1>2 DEF Store!Less
  <2>3. Parts(r) = {[r EXCEPT !.date = t, !.time = Empty, !.contactee = Empty] : t \in cut(r.date)}
               \cup {[r EXCEPT !.time = t, !.contactee = Empty] : t \in cut(r.time)}
               \cup {[r EXCEPT !.contactee = t] : t \in cut(r.contactee)}
    BY <1>2 DEF Parts
  <2>4. \A x \in Text : cut(x) \subseteq less(x) /\ Empty \in less(x) /\ x \in less(x)
    BY TextAssumption
  <2>5. r.date \in Text /\ r.time \in Text /\ r.contactee \in Text
    BY <2>1
  <2> HIDE DEF cut, less
  <2>6. ASSUME NEW d \in less(r.date), NEW t \in less(r.time), NEW c \in less(r.contactee)
        PROVE  [op |-> "delete", date |-> d, time |-> t, contactee |-> c] \in Store!Less(r)
    BY <2>2
  <2> DEFINE R == [op : {"delete"}, date : Text, time : Text, contactee : Text]
  <2>10. ASSUME NEW q \in R, NEW t \in Text
         PROVE  [q EXCEPT !.contactee = t] = [op |-> "delete", date |-> q.date, time |-> q.time, contactee |-> t]
    OBVIOUS
  <2>11. ASSUME NEW q \in R, NEW t \in Text
         PROVE  [q EXCEPT !.time = t] \in R /\ [q EXCEPT !.time = t].date = q.date /\ [q EXCEPT !.time = t].time = t
    OBVIOUS
  <2>12. ASSUME NEW q \in R, NEW t \in Text
         PROVE  [q EXCEPT !.date = t] \in R /\ [q EXCEPT !.date = t].date = t
    OBVIOUS
  <2>13. \A x : cut(x) \subseteq Text
    BY DEF cut
  <2>14. r \in R /\ Empty \in Text
    BY <2>1, TextAssumption
  <2> HIDE DEF R
  <2>7. ASSUME NEW t \in cut(r.date)
        PROVE  [r EXCEPT !.date = t, !.time = Empty, !.contactee = Empty] \in Store!Less(r)
    <3> DEFINE q == [r EXCEPT !.date = t]
               p == [q EXCEPT !.time = Empty]
    <3>1. t \in Text
      BY <2>13
    <3>2. q \in R /\ q.date = t
      BY <2>12, <2>14, <3>1
    <3> HIDE DEF q
    <3>3. p \in R /\ p.date = t /\ p.time = Empty
      BY <2>11, <2>14, <3>2
    <3> HIDE DEF p
    <3>4. [p EXCEPT !.contactee = Empty] =
             [op |-> "delete", date |-> t, time |-> Empty, contactee |-> Empty]
      BY <2>10, <2>14, <3>3
    <3>5. [p EXCEPT !.contactee = Empty] \in Store!Less(r)
      BY <2>4, <2>5, <2>6, <3>4
    <3> QED BY <3>5 DEF p, q
  <2>8. ASSUME NEW t \in cut(r.time)
        PROVE  [r EXCEPT !.time = t, !.contactee = Empty] \in Store!Less(r)
    <3> DEFINE q == [r EXCEPT !.time = t]
    <3>1. t \in Text
      BY <2>13
    <3>2. q \in R /\ q.date = r.date /\ q.time = t
      BY <2>11, <2>14, <3>1
    <3> HIDE DEF q
    <3>3. [q EXCEPT !.contactee = Empty] =
             [op |-> "delete", date |-> r.date, time |-> t, contactee |-> Empty]
      BY <2>10, <2>14, <3>2
    <3>4. [q EXCEPT !.contactee = Empty] \in Store!Less(r)
      BY <2>4, <2>5, <2>6, <3>3
    <3> QED BY <3>4 DEF q
  <2>9. ASSUME NEW t \in cut(r.contactee)
        PROVE  [r EXCEPT !.contactee = t] \in Store!Less(r)
    <3>1. [r EXCEPT !.contactee = t] =
             [op |-> "delete", date |-> r.date, time |-> r.time, contactee |-> t]
      BY <2>1
    <3> QED BY <2>4, <2>5, <2>6, <3>1
  <2> QED BY <2>3, <2>7, <2>8, <2>9
<1>3. CASE r.op \notin {"add", "delete"}
  BY <1>3 DEF Parts
<1> QED BY <1>1, <1>2, <1>3

\* A page shows what the store shows.
LEMMA PageIsShown ==
  ASSUME Held = Lines(days), days \in Seq(Day), Filed(days), NEW r
  PROVE  {FileLine(o.apt) : o \in ToSet(DbSearch(days, r.keyword))} = Store!Shown(r)
<1> DEFINE k == r.keyword
           Fits(apt) == \/ k = Empty
                        \/ k \in Slashed /\ apt.date = k
                        \/ k \notin Slashed /\ Matches(apt, k)
<1>1. Store!Shown(r) = {l \in ToSet(Held) : Fits(ParseLine(l))}
  BY DEF Store!Shown, Store!ToSet, ToSet, Store!ParseLine, ParseLine, Store!Matches, Matches,
         Store!Occurs, Occurs
<1>2. ToSet(Held) = {FileLine(o.apt) : o \in Booked(days)}
  BY LinesSet
<1>3. ToSet(DbSearch(days, k)) = {o \in Booked(days) : Fits(o.apt)}
  BY SearchFinds
<1>4. \A o \in Booked(days) : ParseLine(FileLine(o.apt)) = o.apt
  <2> SUFFICES ASSUME NEW o \in Booked(days) PROVE ParseLine(FileLine(o.apt)) = o.apt
    OBVIOUS
  <2>1. PICK d \in DOMAIN days : o \in ToSet(days[d].appointments)
    BY DEF Booked
  <2>2. days[d].appointments \in Seq(Object)
    BY DayType
  <2>3. o \in Object
    BY <2>1, <2>2, FiniteElements
  <2> QED BY <2>3, LineOf DEF Object
<1> HIDE DEF k, Fits
<1>5. {FileLine(o.apt) : o \in ToSet(DbSearch(days, k))} = {l \in ToSet(Held) : Fits(ParseLine(l))}
  BY <1>2, <1>3, <1>4
<1> QED BY <1>1, <1>5 DEF k

\* The initial states map to initial states of the store.
LEMMA StoreInit == Init => Store!Init
<1> SUFFICES ASSUME Init PROVE Store!Init
  OBVIOUS
<1>1. Held = InitialFile /\ Lasting = InitialFile /\ ~alive /\ stopper = "stdin"
  BY DEF Init, Held, Lasting, Saving, alive
<1>2. InitialFile \in Seq(Line) /\ Store!Line = Line
  BY ServerAssumption DEF Store!Line, Line
<1>3. Reqs = [c \in Clients |-> [op |-> "none"]]
  BY DEF Init, Reqs, NoRequest, Lacking
<1>4. Stats = [c \in Clients |-> "idle"]
  BY DEF Init, Stats, Progress
<1>5. Answers = [c \in Clients |-> {}]
  BY DEF Init, Answers
<1> QED BY <1>1, <1>2, <1>3, <1>4, <1>5 DEF Store!Init, Store!NoRequest, Reqs, Stats, Answers

\* What the store sees of a step of one handler.
LEMMA OneClient ==
  ASSUME NEW c \in Clients,
         \A x \in Clients : x # c => /\ h'[x] = h[x] /\ resp'[x] = resp[x]
                                     /\ h[x].pc = "render" => page' = page
  PROVE  /\ Stats' = [Stats EXCEPT ![c] = Progress(h'[c].pc)]
         /\ Progress(h'[c].pc) = Progress(h[c].pc) => Stats' = Stats
         /\ Reqs' = [Reqs EXCEPT ![c] = Asked(h'[c].req)]
         /\ Asked(h'[c].req) = Asked(h[c].req) => Reqs' = Reqs
         /\ h'[c].pc = "render" => Answers' = [Answers EXCEPT ![c] = page']
         /\ h[c].pc # "render" /\ h'[c].pc # "render" /\ resp'[c] = resp[c] => Answers' = Answers
         /\ h[c].pc = "render" /\ h'[c].pc # "render" /\ resp'[c] = page => Answers' = Answers
BY DEF Stats, Reqs, Answers, Asked

\* The steps of the server that the store does not see.
LEMMA Unseen ==
  ASSUME ServerInv, StoreInv, ServerInv', StoreInv', stopper = "stdin", stopper' = "stdin",
         alive' = alive, UNCHANGED <<days, file, page, resp>>,
         \A c \in Clients : /\ h'[c].req = h[c].req
                            /\ h[c].pc = "write" <=> h'[c].pc = "write"
                            /\ h[c].pc = "render" <=> h'[c].pc = "render"
                            /\ Progress(h'[c].pc) = Progress(h[c].pc)
  PROVE  UNCHANGED Store!vars
<1>1. HeldIs /\ HeldIs'
  BY HeldNow, HeldNext
<1>2. Held' = Held /\ Lasting' = Lasting
  BY <1>1 DEF HeldIs
<1>3. Stats' = Stats /\ Reqs' = Reqs /\ Answers' = Answers
  BY DEF Stats, Reqs, Answers
<1> QED BY <1>2, <1>3, StoreVars

\* The process dies.
LEMMA DieIsCrash ==
  ASSUME ServerInv, StoreInv, ServerInv', StoreInv', stopper = "stdin", alive, Die, file' = file
  PROVE  Store!Crash
<1>1. HeldIs /\ HeldIs'
  BY HeldNow, HeldNext
<1>2. ~alive' /\ stopper' = stopper /\ resp' = resp
  BY DEF Die, alive
<1>3. \A c \in Clients : h'[c].pc # "write"
  BY <1>2 DEF ServerInv, DownInv
<1>4. Held' = file /\ Lasting' = Held'
  BY <1>1, <1>2, <1>3 DEF HeldIs
<1>5. \/ Held' = Lasting
      \/ /\ \E c \in Clients : Stats[c] = "saving"
         /\ \E n \in 0 .. Len(Lasting) : Held' = SubSeq(Lasting, 1, n)
  <2>1. ASSUME NEW c \in Clients, h[c].pc = "write"
        PROVE  /\ \E x \in Clients : Stats[x] = "saving"
               /\ \E n \in 0 .. Len(Lasting) : Held' = SubSeq(Lasting, 1, n)
    <3>1. Lasting = Lines(days) /\ IsPrefix(file, Lines(days))
      BY <1>1, <2>1 DEF HeldIs
    <3>2. \E n \in 0 .. Len(Lines(days)) : file = SubSeq(Lines(days), 1, n)
      BY <3>1, Types, PrefixIs
    <3>3. Stats[c] = "saving"
      BY <2>1 DEF Stats, Progress
    <3> QED BY <1>4, <3>1, <3>2, <3>3
  <2>2. CASE \A c \in Clients : h[c].pc # "write"
    BY <1>1, <1>4, <2>2 DEF HeldIs
  <2> QED BY <2>1, <2>2
<1>6. ASSUME NEW c \in Clients
      PROVE  /\ h'[c].req = h[c].req
             /\ h'[c].pc = CASE h[c].pc \in {"new", "done", "lost", "unsent"} -> h[c].pc
                             [] h[c].pc = "send" -> "unsent"
                             [] OTHER -> "lost"
             /\ h[c].pc \in HandlerPcs
  <2>1. h[c] \in [pc : HandlerPcs, req : Reading]
    BY Types DEF Handlers
  <2>2. h'[c] = [h[c] EXCEPT !.pc = CASE @ \in {"new", "done", "lost", "unsent"} -> @
                                      [] @ = "send" -> "unsent"
                                      [] OTHER -> "lost"]
    BY DEF Die
  <2> QED BY <2>1, <2>2
<1>7. Stats' = [c \in Clients |-> IF Stats[c] \in {"idle", "kept"} THEN Stats[c] ELSE "lost"]
  <2>1. \A c \in Clients : Progress(h'[c].pc) =
          IF Progress(h[c].pc) \in {"idle", "kept"} THEN Progress(h[c].pc) ELSE "lost"
    BY <1>6 DEF HandlerPcs, Progress
  <2> QED BY <2>1 DEF Stats
<1>8. Answers' = [c \in Clients |-> IF Stats[c] = "kept" THEN Answers[c] ELSE {}]
  <2>1. \A c \in Clients : h'[c].pc # "render"
    BY <1>6
  <2>2. \A c \in Clients : Progress(h[c].pc) = "kept" => h[c].pc # "render"
    BY DEF Progress
  <2>3. \A c \in Clients : Progress(h[c].pc) # "kept" => resp[c] = {}
    <3>1. \A c \in Clients : Progress(h[c].pc) # "kept" => h[c].pc \notin {"send", "done", "unsent"}
      BY DEF Progress
    <3> QED BY <3>1 DEF StoreInv, AnswerInv
  <2> QED BY <1>2, <2>1, <2>2, <2>3 DEF Answers, Stats
<1>9. Reqs' = Reqs
  BY <1>6 DEF Reqs
<1> QED BY <1>2, <1>4, <1>5, <1>7, <1>8, <1>9, StoreCrash

\* A handler outside process_request goes on.
LEMMA OutsideStore ==
  ASSUME ServerInv, StoreInv, ServerInv', StoreInv', stopper = "stdin", NEW c \in Clients,
         (\E r \in Requests : Connect(c, r)) \/ ReadRequest(c)
  PROVE  [Store!Next]_(Store!vars)
<1>1. /\ UNCHANGED <<days, file, page, resp, stopper>> /\ alive' = alive /\ alive
      /\ h[c].pc \in {"new", "reading"}
  BY DEF Connect, ReadRequest, mainVars, dataVars, saveVars, alive, ServerInv, DownInv
<1>a. PICK p \in {"backlog", "waiting"} : \E q :
        /\ h' = [h EXCEPT ![c] = [pc |-> p, req |-> q]]
        /\ h[c].pc = "new" => q \in Requests
        /\ h[c].pc = "reading" => h[c].req \in Requests /\ q \in {h[c].req} \cup CutShort(h[c].req)
  <2>1. h[c].pc = "reading" => h[c].req \in Requests
    BY DEF ServerInv, RequestInv
  <2>2. CASE \E r \in Requests : Connect(c, r)
    BY <2>2 DEF Connect
  <2>3. CASE ReadRequest(c)
    BY <2>1, <2>3 DEF ReadRequest
  <2> QED BY <2>2, <2>3
<1>2. PICK q :
        /\ h' = [h EXCEPT ![c] = [pc |-> p, req |-> q]]
        /\ h[c].pc = "new" => q \in Requests
        /\ h[c].pc = "reading" => h[c].req \in Requests /\ q \in {h[c].req} \cup CutShort(h[c].req)
  BY <1>a
<1>3. h'[c].pc = p /\ h'[c].req = q /\ \A x \in Clients : x # c => h'[x] = h[x]
  <2>1. h'[c] = [pc |-> p, req |-> q] /\ \A x \in Clients : x # c => h'[x] = h[x]
    BY <1>2, OneGets
  <2> QED BY <2>1
<1>4. Held' = Held /\ Lasting' = Lasting
  <2>1. HeldIs /\ HeldIs'
    BY HeldNow, HeldNext
  <2>2. \A x \in Clients : h'[x].pc = "write" <=> h[x].pc = "write"
    BY <1>1, <1>3
  <2> QED BY <1>1, <2>1, <2>2 DEF HeldIs
<1>5. /\ Stats' = [Stats EXCEPT ![c] = Progress(h'[c].pc)]
      /\ Progress(h'[c].pc) = Progress(h[c].pc) => Stats' = Stats
      /\ Reqs' = [Reqs EXCEPT ![c] = Asked(h'[c].req)]
      /\ Asked(h'[c].req) = Asked(h[c].req) => Reqs' = Reqs
      /\ Answers' = Answers
  BY <1>1, <1>3, OneClient
<1>6. \A r \in PageRequest : r # Lacking
  BY DEF PageRequest, Lacking
<1>7. CASE h[c].pc = "new"
  <2>1. q \in Requests /\ Asked(q) = q
    BY <1>2, <1>6, <1>7, ServerAssumption DEF Asked
  <2>2. Stats[c] = "idle" /\ Progress(h'[c].pc) = "asked"
    BY <1>3, <1>7 DEF Stats, Progress
  <2>3. Store!Ask(c, q)
    BY <1>1, <1>3, <1>4, <1>5, <2>1, <2>2, StoreAsk
  <2> QED BY <2>1, <2>3 DEF Store!Next
<1>8. CASE h[c].pc = "reading"
  <2>1. Stats[c] = "asked" /\ Stats' = Stats
    BY <1>3, <1>5, <1>8 DEF Stats, Progress
  <2>2. h[c].req \in PageRequest /\ Reqs[c] = h[c].req
    BY <1>2, <1>6, <1>8, ServerAssumption DEF Reqs
  <2>3. CASE q = h[c].req
    <3>1. Reqs' = Reqs
      BY <1>3, <1>5, <2>3
    <3> QED BY <1>1, <1>4, <1>5, <2>1, <3>1, StoreVars
  <2>4. CASE q \in CutShort(h[c].req)
    <3>1. Asked(q) \in Store!Less(Reqs[c]) \cup {Bad}
      <4>1. CASE q \in {Bad, Lacking}
        BY <4>1 DEF Asked
      <4>2. CASE q \notin {Bad, Lacking}
        <5>1. q \in Parts(h[c].req)
          BY <2>4, <4>2 DEF CutShort
        <5>2. q \in Store!Less(h[c].req)
          BY <2>2, <5>1, PartsAreLess
        <5> QED BY <2>2, <4>2, <5>2 DEF Asked
      <4> QED BY <4>1, <4>2
    <3>2. Reqs' = [Reqs EXCEPT ![c] = Asked(q)]
      BY <1>3, <1>5
    <3>3. Store!GiveUp(c)
      BY <1>1, <1>4, <1>5, <2>1, <3>1, <3>2, StoreGiveUp
    <3> QED BY <3>3 DEF Store!Next
  <2> QED BY <1>2, <1>8, <2>3, <2>4
<1> QED BY <1>1, <1>7, <1>8

\* What the store sees of a handler within process_request.
LEMMA InsideSeen ==
  ASSUME ServerInv, StoreInv, ServerInv', StoreInv', stopper = "stdin", NEW c \in Clients,
         h[c].pc \in Within, NEW p \in HandlerPcs, Goto(c, p), UNCHANGED mainVars,
         \A x \in Clients : x # c => resp'[x] = resp[x]
  PROVE  /\ alive /\ alive' = alive /\ stopper' = stopper /\ h'[c].pc = p
         /\ Stats' = [Stats EXCEPT ![c] = Progress(p)]
         /\ Progress(p) = Progress(h[c].pc) => Stats' = Stats
         /\ Stats[c] = Progress(h[c].pc) /\ Reqs[c] = Asked(h[c].req) /\ h[c].req \in Reading
         /\ Reqs' = Reqs
         /\ p = "render" => Answers' = [Answers EXCEPT ![c] = page']
         /\ h[c].pc # "render" /\ p # "render" /\ resp'[c] = resp[c] => Answers' = Answers
         /\ h[c].pc = "render" /\ p # "render" /\ resp'[c] = page => Answers' = Answers
         /\ Held = Lines(days) /\ Held' = Lines(days')
         /\ Lasting = IF h[c].pc = "write" THEN Lines(days) ELSE file
         /\ Lasting' = IF p = "write" THEN Lines(days') ELSE file'
         /\ h[c].pc = "write" => IsPrefix(file, Lines(days))
         /\ \A x \in Clients : x # c => Stats[x] \notin {"changed", "saving"}
<1>1. /\ h \in Handlers /\ h'[c].pc = p /\ h'[c].req = h[c].req
      /\ \A x \in Clients : x # c => h'[x] = h[x]
  BY OneMoves
<1>2. alive /\ alive' = alive /\ stopper' = stopper /\ \A x \in Clients : x # c => h[x].pc \notin Within
  BY AtWork DEF mainVars, alive
<1>3. /\ Stats' = [Stats EXCEPT ![c] = Progress(h'[c].pc)]
      /\ Progress(h'[c].pc) = Progress(h[c].pc) => Stats' = Stats
      /\ Asked(h'[c].req) = Asked(h[c].req) => Reqs' = Reqs
      /\ h'[c].pc = "render" => Answers' = [Answers EXCEPT ![c] = page']
      /\ h[c].pc # "render" /\ h'[c].pc # "render" /\ resp'[c] = resp[c] => Answers' = Answers
      /\ h[c].pc = "render" /\ h'[c].pc # "render" /\ resp'[c] = page => Answers' = Answers
  BY <1>1, <1>2, OneClient DEF Within
<1>4. Stats[c] = Progress(h[c].pc) /\ Reqs[c] = Asked(h[c].req) /\ h[c].req \in Reading
  BY <1>1 DEF Stats, Reqs, Asked, Handlers
<1>5. HeldIs /\ HeldIs'
  BY HeldNow, HeldNext
<1>6. \A x \in Clients : x # c => h'[x].pc \notin {"open", "write"} /\ h[x].pc \notin {"open", "write"}
  BY <1>1, <1>2 DEF Within
<1>7. /\ Held = Lines(days)
      /\ Lasting = IF h[c].pc = "write" THEN Lines(days) ELSE file
      /\ h[c].pc = "write" => IsPrefix(file, Lines(days))
  BY <1>2, <1>5, <1>6 DEF HeldIs
<1>8. /\ Held' = Lines(days')
      /\ Lasting' = IF p = "write" THEN Lines(days') ELSE file'
  BY <1>1, <1>2, <1>5, <1>6 DEF HeldIs
<1>9. \A x \in Clients : x # c => Stats[x] \notin {"changed", "saving"}
  BY <1>6 DEF Stats, Progress
<1> QED BY <1>1, <1>2, <1>3, <1>4, <1>7, <1>8, <1>9

\* A handler within process_request goes on.
LEMMA InsideIsStore ==
  ASSUME ServerInv, StoreInv, ServerInv', StoreInv', stopper = "stdin", NEW c \in Clients,
         \/ Refuse(c) \/ AddAppointment(c) \/ DeleteAppointment(c) \/ OpenFile(c)
         \/ SaveFails(c) \/ WriteAll(c) \/ Search(c) \/ Render(c)
  PROVE  [Store!Next]_(Store!vars)
<1> DEFINE ComesTo(p) ==
      /\ alive /\ alive' = alive /\ stopper' = stopper /\ h'[c].pc = p
      /\ Stats' = [Stats EXCEPT ![c] = Progress(p)]
      /\ Progress(p) = Progress(h[c].pc) => Stats' = Stats
      /\ Stats[c] = Progress(h[c].pc) /\ Reqs[c] = Asked(h[c].req) /\ h[c].req \in Reading
      /\ Reqs' = Reqs
      /\ p = "render" => Answers' = [Answers EXCEPT ![c] = page']
      /\ h[c].pc # "render" /\ p # "render" /\ resp'[c] = resp[c] => Answers' = Answers
      /\ h[c].pc = "render" /\ p # "render" /\ resp'[c] = page => Answers' = Answers
      /\ Held = Lines(days) /\ Held' = Lines(days')
      /\ Lasting = IF h[c].pc = "write" THEN Lines(days) ELSE file
      /\ Lasting' = IF p = "write" THEN Lines(days') ELSE file'
      /\ h[c].pc = "write" => IsPrefix(file, Lines(days))
      /\ \A x \in Clients : x # c => Stats[x] \notin {"changed", "saving"}
<1>1. ASSUME NEW p \in {"open", "write", "render", "send"}, Goto(c, p), h[c].pc \in Within,
             UNCHANGED mainVars, \A x \in Clients : x # c => resp'[x] = resp[x]
      PROVE  ComesTo(p)
  <2>1. p \in HandlerPcs
    BY DEF HandlerPcs
  <2> HIDE DEF ComesTo
  <2> QED BY <1>1, <2>1, InsideSeen DEF ComesTo
<1> HIDE DEF ComesTo
<1>2. h[c].req \in PageRequest \cup {Lacking, NoRequest}
  BY Types, ReadingType DEF Handlers
<1>3. /\ Asked(h[c].req) = IF h[c].req.op = "lacking" THEN Bad ELSE h[c].req
      /\ h[c].req.op = "lacking" <=> h[c].req = Lacking
  BY <1>2 DEF Asked, PageRequest, Lacking, NoRequest
<1>4. CASE Refuse(c)
  <2>1. /\ h[c].pc = "inside" /\ Refused(h[c].req) /\ Goto(c, "send")
        /\ UNCHANGED <<mainVars, days, resp, file>>
    BY <1>4 DEF Refuse, Unlock, saveVars
  <2>2. ComesTo("send")
    BY <1>1, <2>1 DEF Within
  <2>3. Progress("inside") = "asked" /\ Progress("send") = "kept"
    BY DEF Progress
  <2>4. Refused(Reqs[c]) /\ Reqs[c] # Lacking /\ Reqs[c].op # "lacking"
    BY <1>3, <2>1, <2>2 DEF ComesTo, Refused, Bad, Lacking
  <2>5. Store!Refuse(c)
    BY <2>1, <2>2, <2>3, <2>4, StoreRefuse DEF ComesTo
  <2> QED BY <2>5 DEF Store!Next
<1>5. CASE AddAppointment(c) \/ DeleteAppointment(c)
  <2>1. /\ h[c].pc = "inside" /\ Goto(c, "open") /\ UNCHANGED <<mainVars, file, resp>>
    BY <1>5 DEF AddAppointment, DeleteAppointment, saveVars
  <2>2. ComesTo("open")
    BY <1>1, <2>1 DEF Within
  <2>3. Progress("inside") = "asked" /\ Progress("open") = "changed"
    BY DEF Progress
  <2>4. Changed(h[c].req, Held, Held')
    <3>1. Changed(h[c].req, Lines(days), Lines(days'))
      BY <1>5, AddIsChange, DeleteIsChange
    <3> QED BY <2>2, <3>1 DEF ComesTo
  <2>5. Reqs[c] = h[c].req
    BY <1>3, <2>2, <2>4 DEF ComesTo, Changed
  <2>6. \A x \in Clients : Stats[x] \notin {"changed", "saving"}
    BY <2>1, <2>2, <2>3 DEF ComesTo
  <2>7. Store!ApplyChange(c)
    BY <2>1, <2>2, <2>3, <2>4, <2>5, <2>6, StoreChange DEF ComesTo
  <2> QED BY <2>7 DEF Store!Next
<1>6. CASE OpenFile(c)
  <2>1. /\ h[c].pc = "open" /\ Goto(c, "write") /\ UNCHANGED <<mainVars, days, resp>>
    BY <1>6 DEF OpenFile
  <2>2. ComesTo("write")
    BY <1>1, <2>1 DEF Within
  <2>3. Progress("open") = "changed" /\ Progress("write") = "saving"
    BY DEF Progress
  <2>4. Store!Save(c)
    BY <2>1, <2>2, <2>3, StoreSave DEF ComesTo
  <2> QED BY <2>4 DEF Store!Next
<1>7. CASE SaveFails(c) \/ WriteAll(c)
  <2>1. /\ h[c].pc \in {"open", "write"} /\ Goto(c, "send") /\ UNCHANGED <<mainVars, days, resp>>
        /\ h[c].pc = "open" => file' = file
        /\ h[c].pc = "write" => file' = Overlay(Lines(days), file)
    BY <1>7 DEF SaveFails, WriteAll, Unlock
  <2>2. ComesTo("send")
    BY <1>1, <2>1 DEF Within
  <2>3. Progress("open") = "changed" /\ Progress("write") = "saving" /\ Progress("send") = "kept"
    BY DEF Progress
  <2>4. h[c].pc = "write" => file' = Lines(days)
    BY <2>1, <2>2, Types, OverlayProperties DEF ComesTo
  <2>5. Lasting' = Lasting /\ Held' = Held
    BY <2>1, <2>2, <2>4 DEF ComesTo
  <2>6. Store!Keep(c)
    BY <2>1, <2>2, <2>3, <2>5, StoreKeep DEF ComesTo
  <2> QED BY <2>6 DEF Store!Next
<1>8. CASE Search(c)
  <2>1. /\ h[c].pc = "inside" /\ h[c].req.op = "search" /\ Goto(c, "render")
        /\ page' = {FileLine(o.apt) : o \in ToSet(DbSearch(days, h[c].req.keyword))}
        /\ UNCHANGED <<mainVars, days, resp, file>>
    BY <1>8 DEF Search, saveVars
  <2>2. ComesTo("render")
    BY <1>1, <2>1 DEF Within
  <2>3. Progress("inside") = "asked" /\ Progress("render") = "seen"
    BY DEF Progress
  <2>4. Reqs[c] = h[c].req
    BY <1>3, <2>1, <2>2 DEF ComesTo
  <2>5. Held = Lines(days) /\ days \in Seq(Day) /\ Filed(days)
    BY <2>1, <2>2, Types DEF ComesTo
  <2>6. page' = Store!Shown(Reqs[c])
    BY <2>1, <2>4, <2>5, PageIsShown
  <2>7. \A x \in Clients : Stats[x] \notin {"changed", "saving"}
    BY <2>1, <2>2, <2>3 DEF ComesTo
  <2>8. Store!ApplySearch(c)
    BY <2>1, <2>2, <2>3, <2>4, <2>6, <2>7, StoreSearch DEF ComesTo
  <2> QED BY <2>8 DEF Store!Next
<1>9. CASE Render(c)
  <2>1. /\ h[c].pc = "render" /\ Goto(c, "send") /\ UNCHANGED <<mainVars, days, file>>
        /\ resp' = [resp EXCEPT ![c] = page]
    BY <1>9 DEF Render, Unlock, saveVars
  <2>2. resp'[c] = page /\ \A x \in Clients : x # c => resp'[x] = resp[x]
    BY <2>1 DEF ServerInv, TypeOK
  <2>3. ComesTo("send")
    BY <1>1, <2>1, <2>2 DEF Within
  <2>4. Progress("render") = "seen" /\ Progress("send") = "kept"
    BY DEF Progress
  <2>5. Store!Keep(c)
    BY <2>1, <2>2, <2>3, <2>4, StoreKeep DEF ComesTo
  <2> QED BY <2>5 DEF Store!Next
<1> QED BY <1>4, <1>5, <1>6, <1>7, <1>8, <1>9

\* Every step of the server is a step of the store, or none.
LEMMA StoreStep ==
  ServerInv /\ ServerInv' /\ StoreInv /\ StoreInv' /\ [Next]_vars => [Store!Next]_(Store!vars)
<1> SUFFICES ASSUME ServerInv, ServerInv', StoreInv, StoreInv', [Next]_vars
             PROVE  [Store!Next]_(Store!vars)
  OBVIOUS
<1>1. CASE stopper # "stdin"
  <2>1. stopper' # "stdin"
    <3>1. Crash \/ Exit \/ (\E c \in Clients : UseFreed(c)) => stopper' # "stdin"
      BY <1>1 DEF Crash, Exit, UseFreed, Die, mainVars
    <3>2. ASSUME NEW c \in Clients,
                 \/ Lock(c) \/ Refuse(c) \/ AddAppointment(c) \/ DeleteAppointment(c)
                 \/ OpenFile(c) \/ SaveFails(c) \/ WriteAll(c) \/ Search(c) \/ Render(c) \/ Accept(c)
                 \/ (\E r \in Requests : Connect(c, r)) \/ ReadRequest(c) \/ WritePart(c) \/ Send(c)
          PROVE  stopper' # "stdin"
      BY <1>1, <3>2 DEF Lock, Refuse, AddAppointment, DeleteAppointment, OpenFile, SaveFails, WriteAll, Search,
                        Render, Accept, Connect, ReadRequest, WritePart, Send, mainVars
    <3>3. MainLoop \/ EnterAccept \/ AcceptWaker \/ Start \/ UNCHANGED vars => stopper' # "stdin"
      BY <1>1 DEF MainLoop, EnterAccept, AcceptWaker, Start, vars
    <3>4. StopTyped \/ Stopping => stopper' # "stdin"
      BY DEF StopTyped, Stopping, StopClose, StopOpen, StopWrite, StopFree, StopConnect
    <3> QED BY <3>1, <3>2, <3>3, <3>4 DEF Next, Main, Process
  <2>2. Store!Unpromised
    BY <1>1, <2>1 DEF Store!Unpromised
  <2> QED BY <2>2 DEF Store!Next
<1>2. CASE stopper = "stdin"
  <2>1. CASE UNCHANGED vars
    BY <1>2, <2>1, Unseen DEF vars, alive
  <2>2. CASE MainLoop \/ EnterAccept \/ AcceptWaker
    BY <1>2, <2>2, Unseen DEF MainLoop, EnterAccept, AcceptWaker, dataVars, saveVars, alive
  <2>3. ASSUME NEW c \in Clients, Accept(c) \/ Lock(c) \/ Send(c)
        PROVE  UNCHANGED Store!vars
    <3>1. PICK p \in {"reading", "inside", "done"} :
            /\ Goto(c, p) /\ Progress(p) = Progress(h[c].pc)
            /\ h[c].pc \in {"backlog", "waiting", "send"}
      BY <2>3 DEF Accept, Lock, Send, Goto, Progress
    <3>2. /\ h'[c].pc = p /\ h'[c].req = h[c].req
          /\ \A x \in Clients : x # c => h'[x] = h[x]
      BY <3>1, OneMoves DEF HandlerPcs
    <3>3. UNCHANGED <<days, file, page, resp, stopper>> /\ alive' = alive
      BY <2>3 DEF Accept, Lock, Send, dataVars, saveVars, mainVars, alive
    <3> QED BY <1>2, <3>1, <3>2, <3>3, Unseen
  <2>4. ASSUME NEW c \in Clients, WritePart(c)
        PROVE  UNCHANGED Store!vars
    <3>1. /\ h[c].pc = "write" /\ UNCHANGED <<h, days, page, resp, stopper>> /\ alive' = alive
      BY <2>4 DEF WritePart, mainVars, alive
    <3>2. alive
      BY <3>1, AtWork DEF Within
    <3>3. HeldIs /\ HeldIs'
      BY HeldNow, HeldNext
    <3>4. Held' = Held /\ Lasting' = Lasting
      BY <1>2, <3>1, <3>2, <3>3 DEF HeldIs
    <3>5. Stats' = Stats /\ Reqs' = Reqs /\ Answers' = Answers
      BY <3>1 DEF Stats, Reqs, Answers
    <3> QED BY <3>1, <3>4, <3>5, StoreVars
  <2>5. ASSUME NEW c \in Clients, (\E r \in Requests : Connect(c, r)) \/ ReadRequest(c)
        PROVE  [Store!Next]_(Store!vars)
    BY <1>2, <2>5, OutsideStore
  <2>6. ASSUME NEW c \in Clients,
               \/ Refuse(c) \/ AddAppointment(c) \/ DeleteAppointment(c) \/ OpenFile(c)
               \/ SaveFails(c) \/ WriteAll(c) \/ Search(c) \/ Render(c)
        PROVE  [Store!Next]_(Store!vars)
    BY <1>2, <2>6, InsideIsStore
  <2>7. ASSUME NEW c \in Clients, UseFreed(c)
        PROVE  FALSE
    <3>1. h[c].pc \in Within /\ db = "deleted"
      BY <2>7 DEF UseFreed, Within
    <3> QED BY <1>2, <3>1, AtWork
  <2>8. CASE Crash \/ Exit
    <3>1. alive /\ Die /\ file' = file
      BY <2>8 DEF Crash, Exit, alive
    <3>2. Store!Crash
      BY <1>2, <3>1, DieIsCrash
    <3> QED BY <3>2 DEF Store!Next
  <2>9. CASE Start
    <3>1. /\ ~alive /\ alive' /\ stopper' = stopper /\ days' = Load(file)
          /\ UNCHANGED <<h, page, resp, file>>
      BY <2>9 DEF Start, saveVars, alive
    <3>0. \A x \in Clients : h[x].pc # "write" /\ h'[x].pc # "write"
      BY <3>1 DEF ServerInv, DownInv
    <3>2. Held = file /\ Lasting = file
      BY <1>2, <3>0, <3>1, HeldNow DEF HeldIs
    <3>3. Held' = Lines(days') /\ Lasting' = file
      BY <1>2, <3>0, <3>1, HeldNext DEF HeldIs
    <3>4. Lines(days') = file
      BY <1>2, <3>1, Types, LoadGood DEF ServerInv, FileInv
    <3>5. Stats' = Stats /\ Reqs' = Reqs /\ Answers' = Answers
      BY <3>1 DEF Stats, Reqs, Answers
    <3>6. Store!Restart
      BY <1>2, <3>1, <3>2, <3>3, <3>4, <3>5, StoreRestart
    <3> QED BY <3>6 DEF Store!Next
  <2>10. CASE StopTyped
    <3>1. alive /\ alive' /\ stopper' # "stdin" /\ UNCHANGED <<h, lock, db, days, page, resp, file>>
      BY <2>10 DEF StopTyped, dataVars, saveVars, alive
    <3>2. UNCHANGED <<Held, Lasting, Reqs, Stats, Answers>>
      BY <3>1 DEF Held, Lasting, Saving, Reqs, Stats, Answers
    <3>3. Store!Stop
      BY <3>1, <3>2, StoreStop
    <3> QED BY <3>3 DEF Store!Next
  <2>11. CASE Stopping
    BY <1>2, <2>11 DEF Stopping, StopClose, StopOpen, StopWrite, StopFree, StopConnect
  <2> QED BY <2>1, <2>2, <2>3, <2>4, <2>5, <2>6, <2>7, <2>8, <2>9, <2>10, <2>11
          DEF Next, Main, Process
<1> QED BY <1>1, <1>2

\* The server implements the store of BookingStore: requests take effect one at a time, and
\* a death leaves what the last save that could open the file saved, or its beginning.
THEOREM TheServerIsAStore == Spec => ImplementsStore
<1>1. Init => ServerInv /\ StoreInv
  BY InitInv, InitStoreInv
<1>2. ServerInv /\ StoreInv /\ [Next]_vars => ServerInv' /\ StoreInv'
  BY NextInv, NextStoreInv
<1> QED BY <1>1, <1>2, StoreInit, StoreStep, PTL DEF Spec, ImplementsStore, Store!Spec

-----------------------------------------------------------------------------
\* The order of the rows of the page.

\* The numbers r of a text with g for those it does not have, up to n.
Filled(r, n, g) == [i \in 1 .. n |-> IF i <= Len(r) THEN r[i] ELSE g]

\* What a comparison may see of a text: its numbers, and for those it does not have any others.
LEMMA SeenOf ==
  ASSUME NEW t, NEW n \in Nat, t.read \in Seq(Int), Len(t.read) <= n
  PROVE  /\ Len(t.read) = n => Seen(t, n) = {t.read}
         /\ \A g \in Garbage : Filled(t.read, n, g) \in Seen(t, n)
<1> DEFINE r == t.read
           k == Len(r)
           m == n - k
<1>1. r \in Seq(Int) /\ k \in Nat /\ m \in Nat /\ m = n - k
  BY LenProperties
<1>2. Seen(t, n) = {r \o g : g \in [1 .. m -> Garbage]}
  BY DEF Seen
<1>3. Garbage \subseteq Int
  BY PageAssumption
<1> HIDE DEF r
<1>4. ASSUME k = n
      PROVE  Seen(t, n) = {r}
  <2>1. \A g : g \in [1 .. m -> Garbage] <=> g = <<>>
    <3>1. m = 0
      BY <1>1, <1>4
    <3>2. ASSUME NEW g \in [1 .. m -> Garbage]
          PROVE  g = <<>>
      <4>1. g \in Seq(Garbage) /\ Len(g) = 0
        BY <3>1, SeqDef, LenProperties
      <4> QED BY <4>1, EmptySeq
    <3>3. <<>> \in [1 .. m -> Garbage]
      BY <3>1
    <3> QED BY <3>2, <3>3
  <2>2. r \o <<>> = r
    BY <1>1, ConcatEmptySeq
  <2> QED BY <1>2, <2>1, <2>2 DEF r
<1>5. ASSUME NEW x \in Garbage
      PROVE  Filled(r, n, x) \in Seen(t, n)
  <2> DEFINE g == [i \in 1 .. m |-> x]
             s == r \o g
             f == Filled(r, n, x)
  <2>1. g \in [1 .. m -> Garbage] /\ g \in Seq(Int) /\ Len(g) = m /\ \A i \in 1 .. m : g[i] = x
    <3>1. g \in [1 .. m -> Garbage] /\ g \in [1 .. m -> Int]
      BY <1>3
    <3>2. \A i \in 1 .. m : g[i] = x
      OBVIOUS
    <3> HIDE DEF g, m
    <3>3. m \in Nat
      BY <1>1
    <3>4. g \in Seq(Int)
      BY <3>1, <3>3, SeqDef
    <3>5. Len(g) = m
      BY <3>1, <3>3, <3>4, LenProperties
    <3> QED BY <3>1, <3>2, <3>4, <3>5
  <2> HIDE DEF g
  <2>2. /\ s \in Seq(Int) /\ Len(s) = k + m
        /\ \A i \in 1 .. k + m : s[i] = IF i <= k THEN r[i] ELSE g[i - k]
    BY <1>1, <2>1, ConcatProperties
  <2>3. k + m = n
    BY <1>1
  <2>4. \A i \in 1 .. n : s[i] = IF i <= k THEN r[i] ELSE x
    BY <1>1, <2>1, <2>2, <2>3
  <2>5. s = [i \in 1 .. n |-> s[i]]
    BY <2>2, <2>3, LenProperties
  <2>6. f = s
    BY <2>4, <2>5 DEF Filled
  <2> QED BY <1>2, <2>1, <2>6
<1> QED BY <1>4, <1>5 DEF r

\* A day, and a minute of it, as numbers.
DayOf(r)    == r[1] + 31 * (r[2] + 12 * r[3])
MinuteOf(r) == r[2] + 60 * r[1]

\* The moment is the day and the minute, and the minutes of a day are fewer than 1440.
LEMMA MomentIs ==
  ASSUME NEW a \in Readable
  PROVE  /\ Moment(a) = MinuteOf(a.time.read) + 1440 * DayOf(a.date.read)
         /\ MinuteOf(a.time.read) \in Nat /\ MinuteOf(a.time.read) < 1440
         /\ DayOf(a.date.read) \in Nat /\ Moment(a) \in Nat
<1> DEFINE d == a.date.read
           t == a.time.read
<1>1. IsDate(d) /\ IsTime(t)
  BY DEF Readable
<1>2. Moment(a) = t[2] + 60 * t[1] + 1440 * (d[1] + 31 * (d[2] + 12 * d[3]))
  BY DEF Moment
<1> HIDE DEF d, t
<1> DEFINE x == t[2] + 60 * t[1]
           y == d[1] + 31 * (d[2] + 12 * d[3])
<1>3. x \in Nat /\ x < 1440 /\ y \in Nat
  BY <1>1 DEF IsDate, IsTime
<1>4. MinuteOf(t) = x /\ DayOf(d) = y
  BY DEF MinuteOf, DayOf
<1>5. Moment(a) = x + 1440 * y
  BY <1>2
<1> HIDE DEF x, y
<1>6. Moment(a) \in Nat
  BY <1>3, <1>5
<1> QED BY <1>3, <1>4, <1>5, <1>6 DEF d, t

\* The numbers of a time of day.
LEMMA TimeBounds ==
  ASSUME NEW v, IsTime(v)
  PROVE  v[1] \in Int /\ v[2] \in Int /\ 0 <= v[2] /\ v[2] <= 59
<1>1. v[1] \in Int
  BY DEF IsTime
<1>2. v[2] \in Int
  BY DEF IsTime
<1>3. 0 <= v[2]
  BY DEF IsTime
<1>4. v[2] <= 59
  BY DEF IsTime
<1> QED BY <1>1, <1>2, <1>3, <1>4

\* The numbers of a date.
LEMMA DateBounds ==
  ASSUME NEW v, IsDate(v)
  PROVE  /\ v[1] \in Int /\ 1 <= v[1] /\ v[1] <= 31
         /\ v[2] \in Int /\ 1 <= v[2] /\ v[2] <= 12 /\ v[3] \in Int
<1>1. v[1] \in Int /\ 1 <= v[1]
  BY DEF IsDate
<1>2. v[1] <= 31
  BY DEF IsDate
<1>3. v[2] \in Int /\ 1 <= v[2]
  BY DEF IsDate
<1>4. v[2] <= 12
  BY DEF IsDate
<1>5. v[3] \in Int
  BY DEF IsDate
<1> QED BY <1>1, <1>2, <1>3, <1>4, <1>5

\* Dates are compared as days.
LEMMA DateOrder ==
  ASSUME NEW a, NEW b, a.read \in Seq(Int), b.read \in Seq(Int), IsDate(a.read), IsDate(b.read)
  PROVE  /\ CompareDates(a, b) <=> DayOf(a.read) < DayOf(b.read)
         /\ DayOf(a.read) = DayOf(b.read) => a.read = b.read
<1> DEFINE x == a.read
           y == b.read
<1>1. x \in Seq(Int) /\ y \in Seq(Int) /\ IsDate(x) /\ IsDate(y) /\ Len(x) = 3 /\ Len(y) = 3
  BY DEF IsDate
<1>2. Seen(a, 3) = {x} /\ Seen(b, 3) = {y}
  <2>1. Len(x) <= 3 /\ Len(y) <= 3 /\ 3 \in Nat
    BY <1>1
  <2>2. Seen(a, 3) = {x}
    BY ONLY <1>1, <2>1, SeenOf
  <2>3. Seen(b, 3) = {y}
    BY ONLY <1>1, <2>1, SeenOf
  <2> QED BY <2>2, <2>3
<1>3. CompareDates(a, b) <=> \/ x[3] < y[3]
                             \/ x[3] = y[3] /\ x[2] < y[2]
                             \/ x[3] = y[3] /\ x[2] = y[2] /\ x[1] < y[1]
  BY <1>2 DEF CompareDates
<1> HIDE DEF x, y
<1>4. /\ \/ x[3] < y[3]
         \/ x[3] = y[3] /\ x[2] < y[2]
         \/ x[3] = y[3] /\ x[2] = y[2] /\ x[1] < y[1]
         <=> DayOf(x) < DayOf(y)
      /\ DayOf(x) = DayOf(y) => x[1] = y[1] /\ x[2] = y[2] /\ x[3] = y[3]
  <2> DEFINE x1 == x[1]
             x2 == x[2]
             x3 == x[3]
             y1 == y[1]
             y2 == y[2]
             y3 == y[3]
  <2>1. /\ x1 \in Int /\ 1 <= x1 /\ x1 <= 31 /\ x2 \in Int /\ 1 <= x2 /\ x2 <= 12 /\ x3 \in Int
        /\ y1 \in Int /\ 1 <= y1 /\ y1 <= 31 /\ y2 \in Int /\ 1 <= y2 /\ y2 <= 12 /\ y3 \in Int
    BY ONLY <1>1, DateBounds
  <2>2. DayOf(x) = x1 + 31 * (x2 + 12 * x3) /\ DayOf(y) = y1 + 31 * (y2 + 12 * y3)
    BY DEF DayOf
  <2> HIDE DEF x1, x2, x3, y1, y2, y3
  <2>3. /\ x3 < y3 \/ (x3 = y3 /\ x2 < y2) \/ (x3 = y3 /\ x2 = y2 /\ x1 < y1)
           <=> DayOf(x) < DayOf(y)
        /\ DayOf(x) = DayOf(y) => x1 = y1 /\ x2 = y2 /\ x3 = y3
    BY <2>1, <2>2
  <2> QED BY <2>3 DEF x1, x2, x3, y1, y2, y3
<1>5. x[1] = y[1] /\ x[2] = y[2] /\ x[3] = y[3] => x = y
  <2>1. \A i \in 1 .. 3 : i = 1 \/ i = 2 \/ i = 3
    OBVIOUS
  <2>2. x = [i \in 1 .. 3 |-> x[i]] /\ y = [i \in 1 .. 3 |-> y[i]]
    BY <1>1, LenProperties
  <2> QED BY <2>1, <2>2
<1> QED BY <1>3, <1>4, <1>5 DEF x, y

\* Times are compared as minutes of a day.
LEMMA TimeOrder ==
  ASSUME NEW a, NEW b, a.read \in Seq(Int), b.read \in Seq(Int), IsTime(a.read), IsTime(b.read)
  PROVE  CompareTimes(a, b) <=> MinuteOf(a.read) < MinuteOf(b.read)
<1> DEFINE x == a.read
           y == b.read
<1>1. x \in Seq(Int) /\ y \in Seq(Int) /\ IsTime(x) /\ IsTime(y) /\ Len(x) = 2 /\ Len(y) = 2
  BY DEF IsTime
<1>2. Seen(a, 2) = {x} /\ Seen(b, 2) = {y}
  <2>1. Len(x) <= 2 /\ Len(y) <= 2 /\ 2 \in Nat
    BY <1>1
  <2>2. Seen(a, 2) = {x}
    BY ONLY <1>1, <2>1, SeenOf
  <2>3. Seen(b, 2) = {y}
    BY ONLY <1>1, <2>1, SeenOf
  <2> QED BY <2>2, <2>3
<1>3. CompareTimes(a, b) <=> x[1] < y[1] \/ (x[1] = y[1] /\ x[2] < y[2])
  BY <1>2 DEF CompareTimes
<1> HIDE DEF x, y
<1>4. (x[1] < y[1] \/ (x[1] = y[1] /\ x[2] < y[2])) <=> MinuteOf(x) < MinuteOf(y)
  <2> DEFINE x1 == x[1]
             x2 == x[2]
             y1 == y[1]
             y2 == y[2]
  <2>1. /\ x1 \in Int /\ x2 \in Int /\ 0 <= x2 /\ x2 <= 59
        /\ y1 \in Int /\ y2 \in Int /\ 0 <= y2 /\ y2 <= 59
    BY ONLY <1>1, TimeBounds
  <2>2. MinuteOf(x) = x2 + 60 * x1 /\ MinuteOf(y) = y2 + 60 * y1
    BY DEF MinuteOf
  <2> HIDE DEF x1, x2, y1, y2
  <2>3. (x1 < y1 \/ (x1 = y1 /\ x2 < y2)) <=> MinuteOf(x) < MinuteOf(y)
    BY <2>1, <2>2
  <2> QED BY <2>3 DEF x1, x2, y1, y2
<1> QED BY <1>3, <1>4 DEF x, y

\* What is read of a date and of a time are numbers.
LEMMA ReadableIs ==
  ASSUME NEW a \in Readable
  PROVE  /\ a \in Listed /\ a.date \in Dates /\ a.time \in Times
         /\ a.date.read \in Seq(Int) /\ a.time.read \in Seq(Int)
         /\ IsDate(a.date.read) /\ IsTime(a.time.read)
  BY PageAssumption DEF Readable, Listed

\* The comparison of two appointments is that of their moments, if a date has one spelling.
LEMMA MomentOrder ==
  ASSUME NEW a \in Readable, NEW b \in Readable, a.date.read = b.date.read => a.date = b.date
  PROVE  CompareDateTime(a, b) <=> Moment(a) < Moment(b)
<1> DEFINE c == a.date.read
           d == b.date.read
           s == a.time.read
           t == b.time.read
<1>1. /\ c \in Seq(Int) /\ d \in Seq(Int) /\ s \in Seq(Int) /\ t \in Seq(Int)
      /\ IsDate(c) /\ IsDate(d) /\ IsTime(s) /\ IsTime(t)
  BY ReadableIs
<1>2. /\ Moment(a) = MinuteOf(s) + 1440 * DayOf(c) /\ Moment(b) = MinuteOf(t) + 1440 * DayOf(d)
      /\ MinuteOf(s) \in Nat /\ MinuteOf(s) < 1440 /\ MinuteOf(t) \in Nat /\ MinuteOf(t) < 1440
      /\ DayOf(c) \in Nat /\ DayOf(d) \in Nat
  BY MomentIs
<1>3. CASE a.date = b.date
  <2>1. CompareDateTime(a, b) <=> MinuteOf(s) < MinuteOf(t)
    BY <1>1, <1>3, TimeOrder DEF CompareDateTime
  <2>2. c = d
    BY <1>3
  <2> QED BY <1>2, <2>1, <2>2
<1>4. CASE a.date # b.date
  <2>1. CompareDateTime(a, b) <=> DayOf(c) < DayOf(d)
    BY <1>1, <1>4, DateOrder DEF CompareDateTime
  <2>2. DayOf(c) # DayOf(d)
    <3>1. c # d
      BY <1>4
    <3> QED BY <1>1, <3>1, DateOrder
  <2> HIDE DEF c, d, s, t
  <2> DEFINE i == DayOf(c)
             j == DayOf(d)
             m == MinuteOf(s)
             n == MinuteOf(t)
  <2>3. m + 1440 * i < n + 1440 * j <=> i < j
    <3>1. /\ m \in Nat /\ m < 1440 /\ n \in Nat /\ n < 1440 /\ i \in Nat /\ j \in Nat /\ i # j
      BY <1>2, <2>2
    <3> HIDE DEF i, j, m, n
    <3> QED BY <3>1
  <2> QED BY <1>2, <2>1, <2>3
<1> QED BY <1>3, <1>4

\* The members of S have values, and are finitely many.
Valued(v, S) == IsFiniteSet(S) /\ \A a \in S : v[a] \in Nat

\* p has every member of S once, and no value after a greater one.
Ordered(p, S, v) ==
  /\ p \in [1 .. Cardinality(S) -> S]
  /\ \A i, j \in 1 .. Cardinality(S) : i < j => p[i] # p[j] /\ v[p[i]] <= v[p[j]]

\* The outcomes of a sort by values are the arrangements in their order.
LEMMA SortedIs ==
  ASSUME NEW S, NEW v, Valued(v, S), NEW before,
         \A a, b \in S : <<a, b>> \in before <=> v[a] < v[b]
  PROVE  \A p : p \in Sorted(S, before) <=> Ordered(p, S, v)
<1> SUFFICES ASSUME NEW p, p \in [1 .. Cardinality(S) -> S]
             PROVE  p \in Sorted(S, before) <=> Ordered(p, S, v)
  BY DEF Sorted, Ordered
<1>1. /\ DOMAIN p = 1 .. Cardinality(S) /\ \A i \in 1 .. Cardinality(S) : p[i] \in S
      /\ \A a, b \in S : v[a] \in Nat /\ v[b] \in Nat
  BY DEF Valued
<1>2. \A i, j \in 1 .. Cardinality(S) : <<p[j], p[i]>> \notin before <=> v[p[i]] <= v[p[j]]
  <2> TAKE i, j \in 1 .. Cardinality(S)
  <2>1. p[i] \in S /\ p[j] \in S
    BY <1>1
  <2>2. <<p[j], p[i]>> \in before <=> v[p[j]] < v[p[i]]
    BY <2>1
  <2>3. v[p[i]] \in Nat /\ v[p[j]] \in Nat
    BY <1>1, <2>1
  <2> QED BY <2>2, <2>3
<1> QED BY <1>1, <1>2 DEF Sorted, Ordered

\* p has every member of S once.
Arranges(p, S) ==
  /\ Cardinality(S) \in Nat /\ p \in [1 .. Cardinality(S) -> S]
  /\ \A i, j \in 1 .. Cardinality(S) : p[i] = p[j] => i = j
  /\ \A a \in S : \E i \in 1 .. Cardinality(S) : p[i] = a

\* An arrangement in order has every member.
LEMMA SortOnto ==
  ASSUME NEW S, NEW v, Valued(v, S), NEW p, Ordered(p, S, v)
  PROVE  Arranges(p, S)
<1> DEFINE n == Cardinality(S)
<1>1. IsFiniteSet(S) /\ n \in Nat
  BY FS_CardinalityType DEF Valued
<1>2. p \in [1 .. n -> S] /\ \A i, j \in 1 .. n : i < j => p[i] # p[j]
  BY DEF Ordered
<1>3. IsFiniteSet(1 .. n) /\ Cardinality(1 .. n) = n
  <2> HIDE DEF n
  <2> QED BY <1>1, FS_Interval
<1> HIDE DEF n
<1>4. \A i, j \in 1 .. n : p[i] = p[j] => i = j
  BY <1>1, <1>2
<1>5. p \in Injection(1 .. n, S)
  BY <1>2, <1>4 DEF Injection, IsInjective
<1>6. p \in Surjection(1 .. n, S)
  <2>1. Cardinality(1 .. n) = Cardinality(S)
    BY <1>3 DEF n
  <2> QED BY <1>1, <1>5, <2>1, FS_Injection
<1>7. \A a \in S : \E i \in 1 .. n : p[i] = a
  BY <1>6 DEF Surjection
<1> QED BY <1>1, <1>2, <1>4, <1>7 DEF n, Arranges

\* There is such an arrangement.
LEMMA SortExists ==
  ASSUME NEW S, NEW v, Valued(v, S)
  PROVE  \E p : Ordered(p, S, v)
<1> DEFINE P == {n \in Nat : \A T : Valued(v, T) /\ Cardinality(T) = n => \E p : Ordered(p, T, v)}
<1>1. 0 \in P
  <2> SUFFICES ASSUME NEW T, Valued(v, T), Cardinality(T) = 0
               PROVE  \E p : Ordered(p, T, v)
    OBVIOUS
  <2>1. <<>> \in [1 .. 0 -> T]
    OBVIOUS
  <2>2. Ordered(<<>>, T, v)
    BY <2>1 DEF Ordered
  <2> QED BY <2>2
<1>2. ASSUME NEW n \in Nat, n \in P
      PROVE  n + 1 \in P
  <2> SUFFICES ASSUME NEW T, Valued(v, T), Cardinality(T) = n + 1
               PROVE  \E p : Ordered(p, T, v)
    OBVIOUS
  <2>1. IsFiniteSet(T) /\ \A a \in T : v[a] \in Nat
    BY DEF Valued
  <2>2. T # {}
    BY FS_EmptySet
  <2>3. PICK m \in T : \A a \in T : v[m] <= v[a]
    <3> DEFINE I == {v[a] : a \in T}
    <3>1. I \in SUBSET Nat /\ I # {}
      BY <2>1, <2>2
    <3>2. PICK i \in I : \A j \in I : i <= j
      <4> HIDE DEF I
      <4> QED BY <3>1, LeastNat
    <3> QED BY <3>2
  <2> DEFINE U == T \ {m}
  <2>4. Valued(v, U) /\ Cardinality(U) = n
    <3>1. IsFiniteSet(U) /\ Cardinality(U) = Cardinality(T) - 1
      BY <2>1, FS_RemoveElement
    <3> QED BY <2>1, <3>1 DEF Valued
  <2>5. PICK p : Ordered(p, U, v)
    BY <1>2, <2>4
  <2>6. /\ p \in [1 .. n -> U]
        /\ \A i, j \in 1 .. n : i < j => p[i] # p[j] /\ v[p[i]] <= v[p[j]]
    BY <2>4, <2>5 DEF Ordered
  <2> DEFINE q == [i \in 1 .. n + 1 |-> IF i = 1 THEN m ELSE p[i - 1]]
  <2>7. \A i \in 1 .. n + 1 : i # 1 => i - 1 \in 1 .. n /\ q[i] = p[i - 1] /\ q[i] \in T /\ q[i] # m
    <3> TAKE i \in 1 .. n + 1
    <3> HAVE i # 1
    <3>1. i - 1 \in 1 .. n
      BY <1>2
    <3>2. p[i - 1] \in U
      BY <2>6, <3>1
    <3> QED BY <3>1, <3>2
  <2>8. q[1] = m /\ 1 \in 1 .. n + 1
    BY <1>2
  <2>9. q \in [1 .. n + 1 -> T]
    BY <2>6, <2>7
  <2> HIDE DEF q, U
  <2>10. ASSUME NEW i \in 1 .. n + 1, NEW j \in 1 .. n + 1, i < j
         PROVE  q[i] # q[j] /\ v[q[i]] <= v[q[j]]
    <3>1. j # 1
      BY <1>2, <2>10
    <3>2. CASE i = 1
      BY <2>3, <2>7, <2>8, <3>1, <3>2
    <3>3. CASE i # 1
      <4>1. i - 1 < j - 1
        BY <1>2, <2>10
      <4> QED BY <2>6, <2>7, <3>1, <3>3, <4>1
    <3> QED BY <3>2, <3>3
  <2>11. Ordered(q, T, v)
    BY <2>9, <2>10 DEF Ordered
  <2> QED BY <2>11
<1>3. IsFiniteSet(S) /\ Cardinality(S) \in Nat
  BY FS_CardinalityType DEF Valued
<1>4. Cardinality(S) \in P
  <2> DEFINE N == Cardinality(S)
  <2> HIDE DEF P, N
  <2>1. N \in Nat
    BY <1>3 DEF N
  <2>2. \A n \in 0 .. N - 1 : n \in P => n + 1 \in P
    BY <1>2, <2>1
  <2>3. N \in 0 .. N
    BY <2>1
  <2> QED BY <1>1, <2>1, <2>2, <2>3, Induct DEF N
<1> QED BY <1>4

\* No arrangement has a lower value at a place than another.
LEMMA NotLower ==
  ASSUME NEW S, NEW v, Valued(v, S), NEW p, Ordered(p, S, v), NEW q, Ordered(q, S, v),
         NEW i \in 1 .. Cardinality(S)
  PROVE  ~(v[p[i]] < v[q[i]])
<1> DEFINE n == Cardinality(S)
<1>1. /\ n \in Nat /\ i \in 1 .. n /\ p \in [1 .. n -> S] /\ q \in [1 .. n -> S]
      /\ \A k, l \in 1 .. n : p[k] = p[l] => k = l
      /\ \A a \in S : \E k \in 1 .. n : q[k] = a
  <2>1. Arranges(p, S) /\ Arranges(q, S)
    BY SortOnto
  <2> QED BY <2>1 DEF Arranges
<1>2. \A k, l \in 1 .. n : k < l => v[p[k]] <= v[p[l]] /\ v[q[k]] <= v[q[l]]
  BY DEF Ordered
<1>3. \A k \in 1 .. n : v[p[k]] \in Nat /\ v[q[k]] \in Nat
  BY <1>1 DEF Valued
<1> HIDE DEF n
<1>4. SUFFICES ASSUME v[p[i]] < v[q[i]] PROVE FALSE
  OBVIOUS
<1> DEFINE g == [l \in 1 .. i |-> CHOOSE k \in 1 .. n : q[k] = p[l]]
<1>5. ASSUME NEW l \in 1 .. i
      PROVE  l \in 1 .. n /\ g[l] \in 1 .. i - 1 /\ q[g[l]] = p[l]
  <2>1. l \in 1 .. n /\ (l < i \/ l = i)
    BY <1>1
  <2>2. p[l] \in S
    BY <1>1, <2>1
  <2>3. \E k \in 1 .. n : q[k] = p[l]
    BY <1>1, <2>2
  <2>4. g[l] \in 1 .. n /\ q[g[l]] = p[l]
    BY <2>3
  <2> DEFINE k == g[l]
  <2> HIDE DEF g, k
  <2>5. k \in 1 .. n /\ q[k] = p[l]
    BY <2>4 DEF k
  <2>6. v[p[l]] <= v[p[i]]
    BY <1>1, <1>2, <1>3, <2>1
  <2>7. v[q[k]] < v[q[i]]
    <3>1. v[q[k]] = v[p[l]] /\ v[p[l]] \in Nat /\ v[p[i]] \in Nat /\ v[q[i]] \in Nat
      BY <1>1, <1>3, <2>1, <2>5
    <3> DEFINE a == v[q[k]]
               b == v[p[l]]
               c == v[p[i]]
               d == v[q[i]]
    <3>2. a = b /\ b \in Nat /\ c \in Nat /\ d \in Nat /\ b <= c /\ c < d
      BY <1>4, <2>6, <3>1
    <3> HIDE DEF a, b, c, d
    <3>3. a < d
      BY <3>2
    <3> QED BY <3>3 DEF a, d
  <2>8. k < i
    <3>1. SUFFICES ASSUME ~(k < i) PROVE FALSE
      OBVIOUS
    <3>2. i < k \/ i = k
      BY <1>1, <2>5, <3>1
    <3>3. v[q[i]] \in Nat /\ v[q[k]] \in Nat /\ i \in 1 .. n
      BY <1>1, <1>3, <2>5
    <3>4. CASE i = k
      <4>1. v[q[i]] = v[q[k]]
        BY <3>4
      <4> QED BY <2>7, <3>3, <4>1
    <3>5. CASE i < k
      <4>1. v[q[i]] <= v[q[k]]
        BY <1>2, <2>5, <3>3, <3>5
      <4> QED BY <2>7, <3>3, <4>1
    <3> QED BY <3>2, <3>4, <3>5
  <2>9. k \in 1 .. i - 1
    BY <1>1, <2>5, <2>8
  <2> QED BY <2>1, <2>5, <2>9 DEF k
<1>6. g \in [1 .. i -> 1 .. i - 1]
  BY <1>5
<1>7. /\ IsFiniteSet(1 .. i) /\ Cardinality(1 .. i) = i
      /\ IsFiniteSet(1 .. i - 1) /\ Cardinality(1 .. i - 1) = i - 1
  <2>1. i \in Int /\ i >= 1 /\ i - 1 \in Int /\ 1 \in Int
    BY <1>1
  <2>2. ~(1 > i) /\ i - 1 + 1 = i
    BY <2>1
  <2>3. IF 1 > i - 1 THEN 0 = i - 1 ELSE (i - 1) - 1 + 1 = i - 1
    BY <2>1
  <2>4. IsFiniteSet(1 .. i) /\ Cardinality(1 .. i) = IF 1 > i THEN 0 ELSE i - 1 + 1
    BY <2>1, FS_Interval
  <2>5. /\ IsFiniteSet(1 .. i - 1)
        /\ Cardinality(1 .. i - 1) = IF 1 > i - 1 THEN 0 ELSE (i - 1) - 1 + 1
    BY <2>1, FS_Interval
  <2> QED BY <2>2, <2>3, <2>4, <2>5
<1>8. i - 1 < i
  BY <1>1
<1> HIDE DEF g
<1>9. PICK x, y \in 1 .. i : x # y /\ g[x] = g[y]
  BY <1>6, <1>7, <1>8, FS_PigeonHole
<1>10. p[x] = p[y] /\ x \in 1 .. n /\ y \in 1 .. n
  BY <1>5, <1>9
<1> QED BY <1>1, <1>9, <1>10

\* All arrangements have the same values.
LEMMA SameValues ==
  ASSUME NEW S, NEW v, Valued(v, S), NEW p, Ordered(p, S, v), NEW q, Ordered(q, S, v)
  PROVE  \A i \in 1 .. Cardinality(S) : v[p[i]] = v[q[i]]
<1> TAKE i \in 1 .. Cardinality(S)
<1>1. ~(v[p[i]] < v[q[i]]) /\ ~(v[q[i]] < v[p[i]])
  BY NotLower
<1>2. p[i] \in S /\ q[i] \in S
  BY DEF Ordered
<1>3. v[p[i]] \in Nat /\ v[q[i]] \in Nat
  BY <1>2 DEF Valued
<1> QED BY <1>1, <1>3

\* The sequences of ss, one after the other, begin after these places.
Begins(at, ss, N) ==
  /\ N \in Nat /\ at[1] = 0 /\ \A k \in 1 .. N + 1 : at[k] \in Nat
  /\ \A k \in 1 .. N : Len(ss[k]) \in Nat /\ at[k + 1] = at[k] + Len(ss[k])

\* s is what they come to.
Blocks(at, s, ss, N) ==
  /\ Len(s) = at[N + 1]
  /\ \A k \in 1 .. N : \A j \in 1 .. Len(ss[k]) : s[at[k] + j] = ss[k][j]

\* There are such places.
LEMMA BeginsExists ==
  ASSUME NEW S, NEW N \in Nat, NEW ss \in [1 .. N -> Seq(S)]
  PROVE  \E at : Begins(at, ss, N)
<1> DEFINE P == {n \in Nat : n <= N => \E at : Begins(at, ss, n)}
<1>1. \A k \in 1 .. N : Len(ss[k]) \in Nat
  BY LenProperties
<1>2. 0 \in P
  <2> DEFINE at == [k \in 1 .. 1 |-> 0]
  <2>1. at[1] = 0 /\ \A k \in 1 .. 0 + 1 : at[k] \in Nat
    OBVIOUS
  <2> HIDE DEF at
  <2>2. Begins(at, ss, 0)
    BY <2>1 DEF Begins
  <2> QED BY <2>2
<1>3. ASSUME NEW n \in 0 .. N - 1, n \in P
      PROVE  n + 1 \in P
  <2>1. n \in Nat /\ n <= N /\ n + 1 \in 1 .. N /\ n + 1 \in Nat
    OBVIOUS
  <2>2. PICK a : Begins(a, ss, n)
    BY <1>3, <2>1
  <2> DEFINE m == n + 1
             at == [k \in 1 .. m + 1 |-> IF k = m + 1 THEN a[m] + Len(ss[m]) ELSE a[k]]
  <2>3. /\ m \in Nat /\ m \in 1 .. m /\ m - 1 = n /\ Len(ss[m]) \in Nat
        /\ a[1] = 0 /\ \A k \in 1 .. m : a[k] \in Nat
        /\ \A k \in 1 .. n : Len(ss[k]) \in Nat /\ a[k + 1] = a[k] + Len(ss[k])
    BY <1>1, <2>1, <2>2 DEF Begins
  <2> HIDE DEF m
  <2>4. \A k \in 1 .. m : k \in 1 .. m + 1 /\ at[k] = a[k]
    BY <2>3
  <2>5. m + 1 \in 1 .. m + 1 /\ at[m + 1] = a[m] + Len(ss[m])
    BY <2>3
  <2>6. \A k \in 1 .. m + 1 : at[k] \in Nat
    <3>1. a[m] + Len(ss[m]) \in Nat
      BY <2>3
    <3>2. \A k \in 1 .. m + 1 : k # m + 1 => k \in 1 .. m
      BY <2>3
    <3> QED BY <2>3, <2>4, <2>5, <3>1, <3>2
  <2> HIDE DEF at
  <2>7. ASSUME NEW k \in 1 .. m
        PROVE  Len(ss[k]) \in Nat /\ at[k + 1] = at[k] + Len(ss[k])
    <3>1. CASE k = m
      BY <2>3, <2>4, <2>5, <3>1
    <3>2. CASE k # m
      <4>1. k \in 1 .. n /\ k + 1 \in 1 .. m
        BY <2>3, <3>2
      <4> QED BY <2>3, <2>4, <4>1
    <3> QED BY <3>1, <3>2
  <2>8. at[1] = 0
    <3>1. 1 \in 1 .. m
      BY <2>3
    <3> QED BY <2>3, <2>4, <3>1
  <2>9. Begins(at, ss, m)
    BY <2>3, <2>6, <2>7, <2>8 DEF Begins
  <2> QED BY <2>1, <2>9 DEF m
<1> HIDE DEF P
<1>4. \A n \in 0 .. N : n \in P
  BY <1>2, <1>3, Induct
<1>5. N \in P
  BY <1>4
<1> QED BY <1>5 DEF P

\* A sequence begins after those before it.
LEMMA BeginsGrow ==
  ASSUME NEW at, NEW ss, NEW N, Begins(at, ss, N)
  PROVE  \A k, l \in 1 .. N + 1 : k <= l => at[k] <= at[l]
<1>1. /\ N \in Nat /\ \A k \in 1 .. N + 1 : at[k] \in Nat
      /\ \A k \in 1 .. N : Len(ss[k]) \in Nat /\ at[k + 1] = at[k] + Len(ss[k])
  BY DEF Begins
<1> DEFINE P == {n \in Nat : \A k \in 1 .. n + 1 : at[k] <= at[n + 1]}
<1>2. 0 \in P
  <2>1. \A k \in 1 .. 0 + 1 : k = 1
    OBVIOUS
  <2>2. at[1] \in Nat
    BY <1>1
  <2>3. at[1] <= at[0 + 1]
    BY <2>2
  <2> QED BY <2>1, <2>3
<1>3. ASSUME NEW n \in 0 .. N - 1, n \in P
      PROVE  n + 1 \in P
  <2>1. /\ n \in Nat /\ n + 1 \in 1 .. N /\ n + 1 \in Nat
        /\ n + 1 \in 1 .. N + 1 /\ (n + 1) + 1 \in 1 .. N + 1
    BY <1>1
  <2>2. \A k \in 1 .. n + 1 : at[k] <= at[n + 1]
    BY <1>3
  <2>3. at[n + 1] <= at[(n + 1) + 1] /\ at[n + 1] \in Nat /\ at[(n + 1) + 1] \in Nat
    BY <1>1, <2>1
  <2>4. ASSUME NEW k \in 1 .. (n + 1) + 1
        PROVE  at[k] <= at[(n + 1) + 1]
    <3>1. CASE k = (n + 1) + 1
      BY <2>3, <3>1
    <3>2. CASE k # (n + 1) + 1
      <4>1. k \in 1 .. n + 1 /\ k \in 1 .. N + 1
        BY <1>1, <2>1, <3>2
      <4>2. at[k] <= at[n + 1] /\ at[k] \in Nat
        BY <1>1, <2>2, <4>1
      <4> QED BY <2>3, <4>2
    <3> QED BY <3>1, <3>2
  <2> QED BY <2>1, <2>4
<1> HIDE DEF P
<1>4. \A n \in 0 .. N : n \in P
  BY <1>1, <1>2, <1>3, Induct
<1> SUFFICES ASSUME NEW k \in 1 .. N + 1, NEW l \in 1 .. N + 1, k <= l
             PROVE  at[k] <= at[l]
  OBVIOUS
<1>5. l - 1 \in 0 .. N /\ (l - 1) + 1 = l /\ k \in 1 .. l
  BY <1>1
<1>6. \A i \in 1 .. (l - 1) + 1 : at[i] <= at[(l - 1) + 1]
  BY <1>4, <1>5 DEF P
<1> QED BY <1>5, <1>6

\* Where a member of one of the sequences is, and every place has one.
LEMMA BeginsCover ==
  ASSUME NEW at, NEW ss, NEW N, Begins(at, ss, N)
  PROVE  /\ \A k \in 1 .. N : \A j \in 1 .. Len(ss[k]) : at[k] + j \in 1 .. at[N + 1]
         /\ \A x \in 1 .. at[N + 1] : \E k \in 1 .. N : \E j \in 1 .. Len(ss[k]) : x = at[k] + j
<1>1. /\ N \in Nat /\ at[1] = 0 /\ \A k \in 1 .. N + 1 : at[k] \in Nat
      /\ \A k \in 1 .. N : Len(ss[k]) \in Nat /\ at[k + 1] = at[k] + Len(ss[k])
  BY DEF Begins
<1>2. \A k, l \in 1 .. N + 1 : k <= l => at[k] <= at[l]
  BY BeginsGrow
<1>3. ASSUME NEW k \in 1 .. N, NEW j \in 1 .. Len(ss[k])
      PROVE  at[k] + j \in 1 .. at[N + 1]
  <2>1. k \in 1 .. N + 1 /\ k + 1 \in 1 .. N + 1 /\ N + 1 \in 1 .. N + 1 /\ k + 1 <= N + 1
    BY <1>1
  <2>2. at[k + 1] <= at[N + 1] /\ at[N + 1] \in Nat /\ at[k] \in Nat
    BY <1>1, <1>2, <2>1
  <2>3. Len(ss[k]) \in Nat /\ at[k + 1] = at[k] + Len(ss[k])
    BY <1>1
  <2> DEFINE a == at[k]
             b == at[N + 1]
             c == Len(ss[k])
  <2>4. a \in Nat /\ b \in Nat /\ c \in Nat /\ j \in 1 .. c /\ a + c <= b
    BY <2>2, <2>3
  <2> HIDE DEF a, b, c
  <2>5. a + j \in 1 .. b
    BY <2>4
  <2> QED BY <2>5 DEF a, b
<1>4. ASSUME NEW x \in 1 .. at[N + 1]
      PROVE  \E k \in 1 .. N : \E j \in 1 .. Len(ss[k]) : x = at[k] + j
  <2> DEFINE I == {k \in 1 .. N + 1 : x <= at[k]}
  <2>0. N + 1 \in 1 .. N + 1 /\ at[N + 1] \in Nat
    BY <1>1
  <2>1. I \in SUBSET Nat /\ I # {} /\ x \in Nat /\ x > 0
    <3>1. x <= at[N + 1] /\ x \in Nat /\ x > 0
      BY <2>0
    <3> QED BY <2>0, <3>1
  <2>2. PICK m \in I : \A i \in I : m <= i
    <3> HIDE DEF I
    <3> QED BY <2>1, LeastNat
  <2>3. m \in 1 .. N + 1 /\ x <= at[m] /\ m # 1
    BY <1>1, <2>1, <2>2
  <2> DEFINE k == m - 1
  <2>4. k \in 1 .. N /\ k + 1 = m /\ k \in 1 .. N + 1 /\ ~(m <= k)
    BY <1>1, <2>3
  <2>5. ~(x <= at[k])
    BY <2>2, <2>4
  <2> HIDE DEF k
  <2>6. at[k] \in Nat /\ Len(ss[k]) \in Nat /\ at[m] = at[k] + Len(ss[k])
    BY <1>1, <2>4
  <2> DEFINE a == at[k]
             c == Len(ss[k])
             j == x - a
  <2>7. a \in Nat /\ c \in Nat /\ x <= a + c /\ ~(x <= a) /\ x \in Nat
    BY <2>1, <2>3, <2>5, <2>6
  <2> HIDE DEF a, c
  <2>8. j \in 1 .. c /\ x = a + j
    BY <2>7
  <2> HIDE DEF j
  <2> QED BY <2>4, <2>8 DEF a, c
<1> QED BY <1>3, <1>4

\* What sequences come to.
LEMMA FlattenBlocks ==
  ASSUME NEW S, NEW N \in Nat, NEW ss \in [1 .. N -> Seq(S)], NEW at, Begins(at, ss, N)
  PROVE  FlattenSeq(ss) \in Seq(S) /\ Blocks(at, FlattenSeq(ss), ss, N)
<1>1. /\ at[1] = 0 /\ \A k \in 1 .. N + 1 : at[k] \in Nat
      /\ \A k \in 1 .. N : ss[k] \in Seq(S) /\ Len(ss[k]) \in Nat /\ at[k + 1] = at[k] + Len(ss[k])
  BY DEF Begins
<1>2. ss \in Seq(Seq(S)) /\ Len(ss) = N
  BY SeqDef, LenProperties
<1>3. CASE N = 0
  <2>1. FlattenSeq(ss) = <<>>
    BY <1>2, <1>3, EmptySeq DEF FlattenSeq
  <2>2. <<>> \in Seq(S) /\ Len(<<>>) = 0
    OBVIOUS
  <2>3. Blocks(at, <<>>, ss, 0)
    BY <1>1, <2>2 DEF Blocks
  <2> QED BY <1>3, <2>1, <2>2, <2>3
<1>4. CASE N # 0
  <2>1. PICK f : IsFlat(f, ss, N) /\ FlattenSeq(ss) = f[N]
    BY <1>2, <1>4, FlattenIs
  <2>2. \A k \in 1 .. N : f[k] = IF k = 1 THEN ss[k] ELSE f[k - 1] \o ss[k]
    BY <2>1 DEF IsFlat
  <2> DEFINE Holds(n) == f[n] \in Seq(S) /\ Blocks(at, f[n], ss, n)
             P == {n \in Nat : n # 0 => Holds(n)}
  <2>3. 0 \in P
    OBVIOUS
  <2>4. ASSUME NEW n \in 0 .. N - 1, n \in P
        PROVE  n + 1 \in P
    <3>1. n \in Nat /\ n + 1 \in 1 .. N /\ (n + 1) - 1 = n /\ n + 1 \in 1 .. N + 1
      OBVIOUS
    <3> DEFINE a == f[n]
               b == ss[n + 1]
               c == f[n + 1]
    <3>2. /\ b \in Seq(S) /\ Len(b) \in Nat /\ at[n + 1] \in Nat
          /\ at[(n + 1) + 1] = at[n + 1] + Len(b)
      BY <1>1, <3>1
    <3>3. CASE n = 0
      <4>1. c = b
        BY <2>2, <3>1, <3>3
      <4>2. at[n + 1] = 0
        BY <1>1, <3>3
      <4> HIDE DEF c
      <4>3. Len(c) = at[(n + 1) + 1]
        BY <3>2, <4>1, <4>2
      <4>4. ASSUME NEW k \in 1 .. n + 1, NEW j \in 1 .. Len(ss[k])
            PROVE  c[at[k] + j] = ss[k][j]
        <5>1. k = n + 1
          BY <3>3
        <5>2. at[k] + j = j
          BY <4>2, <5>1
        <5> QED BY <4>1, <5>1, <5>2
      <4>5. Blocks(at, c, ss, n + 1)
        BY <4>3, <4>4 DEF Blocks
      <4> QED BY <3>1, <3>2, <4>1, <4>5 DEF c
    <3>4. CASE n # 0
      <4>1. c = a \o b
        <5>1. n + 1 # 1
          BY <3>1, <3>4
        <5> QED BY <2>2, <3>1, <5>1
      <4>2. a \in Seq(S) /\ Blocks(at, a, ss, n)
        BY <2>4, <3>4
      <4> HIDE DEF a, b, c
      <4>3. Len(a) = at[n + 1] /\ Len(a) \in Nat
        BY <4>2, LenProperties DEF Blocks
      <4>4. /\ c \in Seq(S) /\ Len(c) = Len(a) + Len(b)
            /\ \A i \in 1 .. Len(a) + Len(b) : c[i] = IF i <= Len(a) THEN a[i] ELSE b[i - Len(a)]
        BY <3>2, <4>1, <4>2, ConcatProperties
      <4>5. Len(c) = at[(n + 1) + 1]
        BY <3>2, <4>3, <4>4
      <4>6. Begins(at, ss, n)
        <5>1. \A k \in 1 .. n + 1 : k \in 1 .. N + 1
          BY <3>1
        <5>2. \A k \in 1 .. n : k \in 1 .. N
          BY <3>1
        <5> QED BY <1>1, <3>1, <5>1, <5>2 DEF Begins
      <4>7. ASSUME NEW k \in 1 .. n + 1, NEW j \in 1 .. Len(ss[k])
            PROVE  c[at[k] + j] = ss[k][j]
        <5>1. CASE k = n + 1
          <6>1. at[k] = Len(a) /\ ss[k] = b /\ j \in 1 .. Len(b)
            BY <4>3, <5>1 DEF b
          <6> DEFINE la == Len(a)
                     lb == Len(b)
          <6>2. la \in Nat /\ lb \in Nat /\ j \in 1 .. lb
            BY <3>2, <4>3, <6>1
          <6>3. \A i \in 1 .. la + lb : c[i] = IF i <= la THEN a[i] ELSE b[i - la]
            BY <4>4
          <6> HIDE DEF la, lb
          <6>4. la + j \in 1 .. la + lb /\ ~(la + j <= la) /\ (la + j) - la = j
            BY <6>2
          <6>5. c[la + j] = b[j]
            BY <6>3, <6>4
          <6> QED BY <6>1, <6>5 DEF la
        <5>2. CASE k # n + 1
          <6>1. k \in 1 .. n
            BY <3>1, <5>2
          <6>2. at[k] + j \in 1 .. Len(a)
            BY <4>3, <4>6, <6>1, BeginsCover
          <6>3. a[at[k] + j] = ss[k][j]
            BY <4>2, <6>1 DEF Blocks
          <6> DEFINE x == at[k] + j
                     la == Len(a)
                     lb == Len(b)
          <6>4. la \in Nat /\ lb \in Nat /\ x \in 1 .. la
            BY <3>2, <4>3, <6>2
          <6>5. \A i \in 1 .. la + lb : c[i] = IF i <= la THEN a[i] ELSE b[i - la]
            BY <4>4
          <6> HIDE DEF x, la, lb
          <6>6. x \in 1 .. la + lb /\ x <= la
            BY <6>4
          <6>7. c[x] = a[x]
            BY <6>5, <6>6
          <6> QED BY <6>3, <6>7 DEF x
        <5> QED BY <5>1, <5>2
      <4>8. Blocks(at, c, ss, n + 1)
        BY <4>5, <4>7 DEF Blocks
      <4> QED BY <3>1, <4>4, <4>8 DEF c
    <3> QED BY <3>3, <3>4
  <2> HIDE DEF P
  <2>5. \A n \in 0 .. N : n \in P
    BY <2>3, <2>4, Induct
  <2>6. N \in P
    BY <2>5
  <2>7. Holds(N)
    BY <1>4, <2>6 DEF P
  <2> QED BY <2>1, <2>7
<1> QED BY <1>3, <1>4

\* The members of R have keys, all those of K; w orders them as u orders their keys, and
\* as v orders those of one key.
Keyed(K, R, key, u, v, w) ==
  /\ Valued(u, K) /\ Valued(v, R) /\ Valued(w, R)
  /\ \A i \in R : key[i] \in K
  /\ \A d, e \in K : u[d] = u[e] => d = e
  /\ \A i, j \in R :
       w[i] <= w[j] <=> u[key[i]] < u[key[j]] \/ (key[i] = key[j] /\ v[i] <= v[j])

\* The members of one key.
Group(R, key, d) == {i \in R : key[i] = d}

\* They have values too.
LEMMA GroupValued ==
  ASSUME NEW K, NEW R, NEW key, NEW u, NEW v, NEW w, Keyed(K, R, key, u, v, w), NEW d
  PROVE  Valued(v, Group(R, key, d)) /\ Group(R, key, d) \subseteq R
<1>1. IsFiniteSet(R) /\ Group(R, key, d) \in SUBSET R /\ \A i \in R : v[i] \in Nat
  BY DEF Keyed, Valued, Group
<1>2. IsFiniteSet(Group(R, key, d))
  BY <1>1, FS_Subset
<1> QED BY <1>1, <1>2 DEF Valued

\* f has the members of every key in the order of v.
Inner(f, K, R, key, v) == \A d \in K : Ordered(f[d], Group(R, key, d), v)

\* The members by the order o of their keys: f has those of each key.
Chain(f, o, K) == [k \in 1 .. Cardinality(K) |-> f[o[k]]]

\* Of such a chain: its sequences, their places, and what it comes to.
LEMMA ChainIs ==
  ASSUME NEW K, NEW R, NEW key, NEW u, NEW v, NEW w, Keyed(K, R, key, u, v, w),
         NEW o, Ordered(o, K, u), NEW f, Inner(f, K, R, key, v)
  PROVE  /\ Cardinality(K) \in Nat
         /\ Chain(f, o, K) \in [1 .. Cardinality(K) -> Seq(R)]
         /\ \A k \in 1 .. Cardinality(K) :
              /\ o[k] \in K /\ Chain(f, o, K)[k] = f[o[k]]
              /\ Len(f[o[k]]) = Cardinality(Group(R, key, o[k])) /\ Len(f[o[k]]) \in Nat
              /\ \A j \in 1 .. Len(f[o[k]]) : f[o[k]][j] \in R /\ key[f[o[k]][j]] = o[k]
<1> DEFINE N == Cardinality(K)
<1>1. N \in Nat /\ \A k \in 1 .. N : o[k] \in K
  <2>1. Valued(u, K)
    BY DEF Keyed
  <2>2. Arranges(o, K)
    BY <2>1, SortOnto
  <2> QED BY <2>2 DEF Arranges
<1>2. ASSUME NEW k \in 1 .. N
      PROVE  /\ f[o[k]] \in Seq(R)
             /\ Len(f[o[k]]) = Cardinality(Group(R, key, o[k])) /\ Len(f[o[k]]) \in Nat
             /\ \A j \in 1 .. Len(f[o[k]]) : f[o[k]][j] \in R /\ key[f[o[k]][j]] = o[k]
  <2> DEFINE d == o[k]
             G == Group(R, key, d)
             g == f[d]
             c == Cardinality(G)
  <2>1. d \in K
    BY <1>1
  <2>2. Ordered(g, G, v)
    BY <2>1 DEF Inner
  <2>3. Valued(v, G) /\ G \subseteq R
    BY GroupValued
  <2>4. \A i \in G : key[i] = d
    BY DEF Group
  <2> HIDE DEF G, g, d
  <2>5. Arranges(g, G)
    BY <2>2, <2>3, SortOnto
  <2>6. c \in Nat /\ g \in [1 .. c -> G]
    BY <2>5 DEF Arranges
  <2> HIDE DEF c
  <2>7. g \in Seq(G)
    BY <2>6, SeqDef
  <2>8. Len(g) = c
    BY <2>6, <2>7, LenProperties
  <2>9. g \in Seq(R)
    <3>1. g \in [1 .. c -> R]
      BY <2>3, <2>6
    <3> QED BY <2>6, <3>1, SeqDef
  <2>10. \A j \in 1 .. Len(g) : g[j] \in R /\ key[g[j]] = d
    BY <2>3, <2>4, <2>6, <2>8
  <2> QED BY <2>6, <2>8, <2>9, <2>10 DEF c, g, G, d
<1> QED BY <1>1, <1>2 DEF Chain

\* Two sorts make one: the keys in their order, and the members of each in theirs.
LEMMA TwoSorts ==
  ASSUME NEW K, NEW R, NEW key, NEW u, NEW v, NEW w, Keyed(K, R, key, u, v, w),
         NEW o, Ordered(o, K, u), NEW f, Inner(f, K, R, key, v)
  PROVE  Ordered(FlattenSeq(Chain(f, o, K)), R, w)
<1> DEFINE N == Cardinality(K)
           ss == Chain(f, o, K)
           s == FlattenSeq(ss)
           M == Len(s)
<1>1. /\ N \in Nat /\ ss \in [1 .. N -> Seq(R)]
      /\ \A k \in 1 .. N :
           /\ o[k] \in K /\ ss[k] = f[o[k]] /\ Len(ss[k]) \in Nat
           /\ \A j \in 1 .. Len(ss[k]) : ss[k][j] \in R /\ key[ss[k][j]] = o[k]
  BY ChainIs
<1> HIDE DEF N, ss
<1>2. PICK at : Begins(at, ss, N)
  BY <1>1, BeginsExists
<1>3. s \in Seq(R) /\ Blocks(at, s, ss, N)
  BY <1>1, <1>2, FlattenBlocks
<1> HIDE DEF s
<1>4. /\ M \in Nat /\ M = at[N + 1] /\ s \in [1 .. M -> R]
      /\ \A k \in 1 .. N : \A j \in 1 .. Len(ss[k]) : s[at[k] + j] = ss[k][j]
  BY <1>3, LenProperties DEF Blocks
<1> HIDE DEF M
<1>5. /\ \A k \in 1 .. N : \A j \in 1 .. Len(ss[k]) : at[k] + j \in 1 .. M
      /\ \A x \in 1 .. M : \E k \in 1 .. N : \E j \in 1 .. Len(ss[k]) : x = at[k] + j
  BY <1>2, <1>4, BeginsCover
<1>6. /\ \A k \in 1 .. N : o[k] \in K
      /\ \A k, l \in 1 .. N : k < l => o[k] # o[l] /\ u[o[k]] <= u[o[l]]
      /\ \A d \in K : \E k \in 1 .. N : o[k] = d
  <2>1. Valued(u, K)
    BY DEF Keyed
  <2>2. Arranges(o, K)
    BY <2>1, SortOnto
  <2>3. \A d \in K : \E k \in 1 .. N : o[k] = d
    BY <2>2 DEF Arranges, N
  <2>4. \A k, l \in 1 .. N : k < l => o[k] # o[l] /\ u[o[k]] <= u[o[l]]
    BY DEF Ordered, N
  <2> QED BY <1>1, <2>3, <2>4
<1>7. /\ \A i \in R : key[i] \in K /\ w[i] \in Nat
      /\ \A d \in K : u[d] \in Nat
      /\ \A d, e \in K : u[d] = u[e] => d = e
      /\ \A i, j \in R :
           w[i] <= w[j] <=> u[key[i]] < u[key[j]] \/ (key[i] = key[j] /\ v[i] <= v[j])
  BY DEF Keyed, Valued
<1>8. ASSUME NEW x \in 1 .. M, NEW y \in 1 .. M, x < y
      PROVE  s[x] # s[y] /\ w[s[x]] <= w[s[y]]
  <2>0. PICK k \in 1 .. N : \E j \in 1 .. Len(ss[k]) : x = at[k] + j
    BY <1>5
  <2>1. PICK j \in 1 .. Len(ss[k]) : x = at[k] + j
    BY <2>0
  <2>9. PICK l \in 1 .. N : \E m \in 1 .. Len(ss[l]) : y = at[l] + m
    BY <1>5
  <2>2. PICK m \in 1 .. Len(ss[l]) : y = at[l] + m
    BY <2>9
  <2>3. /\ s[x] = ss[k][j] /\ s[x] \in R /\ key[s[x]] = o[k]
        /\ s[y] = ss[l][m] /\ s[y] \in R /\ key[s[y]] = o[l]
    BY <1>1, <1>4, <2>1, <2>2
  <2>4. ~(l < k)
    <3>1. SUFFICES ASSUME l < k PROVE FALSE
      OBVIOUS
    <3>2. l + 1 \in 1 .. N + 1 /\ k \in 1 .. N + 1 /\ l + 1 <= k /\ l \in 1 .. N + 1
      BY <1>1, <3>1
    <3>3. at[l + 1] <= at[k]
      BY <1>2, <3>2, BeginsGrow
    <3>4. /\ at[l + 1] = at[l] + Len(ss[l]) /\ at[l] \in Nat /\ at[k] \in Nat /\ Len(ss[l]) \in Nat
          /\ Len(ss[k]) \in Nat
      BY <1>1, <1>2, <3>2 DEF Begins
    <3> DEFINE a == at[l]
               b == at[k]
               c == Len(ss[l])
               e == Len(ss[k])
    <3>5. /\ a \in Nat /\ b \in Nat /\ c \in Nat /\ e \in Nat /\ a + c <= b
          /\ j \in 1 .. e /\ m \in 1 .. c /\ x = b + j /\ y = a + m
      BY <2>1, <2>2, <3>3, <3>4
    <3> HIDE DEF a, b, c, e
    <3>6. y <= b /\ b < x
      BY <3>5
    <3> QED BY <1>4, <1>8, <3>5, <3>6
  <2>5. CASE k = l
    <3>1. j < m
      <4>1. at[k] \in Nat /\ Len(ss[k]) \in Nat
        <5>1. k \in 1 .. N + 1
          BY <1>1
        <5> QED BY <1>1, <1>2, <5>1 DEF Begins
      <4> DEFINE a == at[k]
                 c == Len(ss[k])
      <4>2. a \in Nat /\ c \in Nat /\ j \in 1 .. c /\ m \in 1 .. c /\ a + j < a + m
        BY <1>8, <2>1, <2>2, <2>5, <4>1
      <4> HIDE DEF a, c
      <4> QED BY <4>2
    <3> DEFINE g == ss[k]
               G == Group(R, key, o[k])
    <3>2. Ordered(g, G, v) /\ Len(g) = Cardinality(G)
      <4>1. Len(f[o[k]]) = Cardinality(G)
        BY ChainIs DEF N
      <4>2. Ordered(f[o[k]], G, v)
        BY <1>1 DEF Inner
      <4> QED BY <1>1, <4>1, <4>2
    <3>3. j \in 1 .. Len(g) /\ m \in 1 .. Len(g)
      BY <2>1, <2>2, <2>5
    <3> HIDE DEF g, G
    <3>4. g[j] # g[m] /\ v[g[j]] <= v[g[m]]
      BY <3>1, <3>2, <3>3 DEF Ordered
    <3>5. s[x] # s[y] /\ v[s[x]] <= v[s[y]]
      BY <2>3, <2>5, <3>4 DEF g
    <3> QED BY <1>7, <2>3, <2>5, <3>5
  <2>6. CASE k < l
    <3>1. o[k] # o[l] /\ u[o[k]] <= u[o[l]] /\ o[k] \in K /\ o[l] \in K
      BY <1>6, <2>6
    <3>2. u[o[k]] # u[o[l]] /\ u[o[k]] \in Nat /\ u[o[l]] \in Nat
      BY <1>7, <3>1
    <3>3. u[o[k]] < u[o[l]]
      BY <3>1, <3>2
    <3> QED BY <1>7, <2>3, <3>1, <3>3
  <2>7. k = l \/ k < l
    BY <1>1, <2>4
  <2> QED BY <2>5, <2>6, <2>7
<1>9. ASSUME NEW r \in R
      PROVE  \E x \in 1 .. M : s[x] = r
  <2>1. PICK k \in 1 .. N : o[k] = key[r]
    BY <1>6, <1>7
  <2> DEFINE g == ss[k]
             G == Group(R, key, o[k])
  <2>2. Ordered(g, G, v) /\ Len(g) = Cardinality(G)
    <3>1. Len(f[o[k]]) = Cardinality(G)
      BY ChainIs DEF N
    <3>2. Ordered(f[o[k]], G, v)
      BY <1>1 DEF Inner
    <3> QED BY <1>1, <3>1, <3>2
  <2>3. Valued(v, G) /\ r \in G
    <3>1. Valued(v, G)
      BY GroupValued
    <3> QED BY <2>1, <3>1 DEF Group
  <2> HIDE DEF G
  <2>4. Arranges(g, G)
    BY <2>2, <2>3, SortOnto
  <2>5. PICK j \in 1 .. Len(g) : g[j] = r
    BY <2>2, <2>3, <2>4 DEF Arranges
  <2> QED BY <1>4, <1>5, <2>5
<1>10. Cardinality(R) = M
  <2>1. \A x, y \in 1 .. M : s[x] = s[y] => x = y
    BY <1>4, <1>8
  <2>2. s \in Injection(1 .. M, R) /\ s \in Surjection(1 .. M, R)
    BY <1>4, <1>9, <2>1 DEF Injection, IsInjective, Surjection
  <2>3. ExistsBijection(1 .. M, R)
    BY <2>2 DEF ExistsBijection, Bijection
  <2> QED BY <1>4, <2>3, FS_CountingElements
<1>11. Ordered(s, R, w)
  BY <1>4, <1>8, <1>10 DEF Ordered
<1> QED BY <1>11 DEF s, ss

\* Every arrangement in order is what two sorts may make.
LEMMA SortedTwice ==
  ASSUME NEW K, NEW R, NEW key, NEW u, NEW v, NEW w, Keyed(K, R, key, u, v, w),
         NEW p, Ordered(p, R, w)
  PROVE  \E o, f : Ordered(o, K, u) /\ Inner(f, K, R, key, v) /\ p = FlattenSeq(Chain(f, o, K))
<1>0. Valued(u, K) /\ Valued(v, R) /\ Valued(w, R)
  BY DEF Keyed
<1>1. PICK o : Ordered(o, K, u)
  BY <1>0, SortExists
<1> DEFINE f0 == [d \in K |-> CHOOSE g : Ordered(g, Group(R, key, d), v)]
<1>2. Inner(f0, K, R, key, v)
  <2> SUFFICES ASSUME NEW d \in K
               PROVE  Ordered(f0[d], Group(R, key, d), v)
    BY DEF Inner
  <2>1. Valued(v, Group(R, key, d))
    BY GroupValued
  <2>2. \E g : Ordered(g, Group(R, key, d), v)
    BY <2>1, SortExists
  <2> QED BY <2>2
<1> HIDE DEF f0
<1> DEFINE N == Cardinality(K)
           n == Cardinality(R)
           ss == Chain(f0, o, K)
           s == FlattenSeq(ss)
           c(d) == Cardinality(Group(R, key, d))
<1>3. Ordered(s, R, w)
  BY <1>1, <1>2, TwoSorts
<1>4. /\ N \in Nat /\ ss \in [1 .. N -> Seq(R)]
      /\ \A k \in 1 .. N :
           /\ o[k] \in K /\ ss[k] = f0[o[k]] /\ Len(ss[k]) = c(o[k]) /\ c(o[k]) \in Nat
           /\ \A j \in 1 .. c(o[k]) : key[ss[k][j]] = o[k]
  BY <1>1, <1>2, ChainIs
<1> HIDE DEF N, ss, c
<1>5. PICK at : Begins(at, ss, N)
  BY <1>4, BeginsExists
<1>6. Blocks(at, s, ss, N)
  BY <1>4, <1>5, FlattenBlocks
<1>7. Arranges(p, R) /\ Arranges(s, R) /\ Arranges(o, K)
  BY <1>0, <1>1, <1>3, SortOnto
<1>8. /\ n \in Nat /\ p \in [1 .. n -> R] /\ s \in [1 .. n -> R]
      /\ \A x, y \in 1 .. n : p[x] = p[y] => x = y
  BY <1>7 DEF Arranges
<1> HIDE DEF s, n
<1>9. n = at[N + 1]
  <2>1. s \in Seq(R)
    BY <1>8, SeqDef
  <2>2. Len(s) = n
    BY <1>8, <2>1, LenProperties
  <2> QED BY <1>6, <2>2 DEF Blocks
<1>10. /\ \A k \in 1 .. N : \A j \in 1 .. c(o[k]) : at[k] + j \in 1 .. n
       /\ \A x \in 1 .. n : \E k \in 1 .. N : \E j \in 1 .. c(o[k]) : x = at[k] + j
  <2>1. /\ \A k \in 1 .. N : \A j \in 1 .. Len(ss[k]) : at[k] + j \in 1 .. at[N + 1]
        /\ \A x \in 1 .. at[N + 1] : \E k \in 1 .. N : \E j \in 1 .. Len(ss[k]) : x = at[k] + j
    BY <1>5, BeginsCover
  <2>2. \A k \in 1 .. N : Len(ss[k]) = c(o[k])
    BY <1>4
  <2> QED BY ONLY <1>9, <2>1, <2>2
<1>11. /\ \A d \in K : \E k \in 1 .. N : o[k] = d
       /\ \A k, l \in 1 .. N : o[k] = o[l] => k = l
  BY <1>7 DEF Arranges, N
<1>12. ASSUME NEW x \in 1 .. n
       PROVE  key[p[x]] = key[s[x]]
  <2>1. w[p[x]] = w[s[x]]
    BY <1>0, <1>3, SameValues DEF n
  <2>2. p[x] \in R /\ s[x] \in R
    BY <1>8
  <2>3. w[p[x]] \in Nat /\ w[s[x]] \in Nat
    BY <1>0, <2>2 DEF Valued
  <2>4. w[p[x]] <= w[s[x]] /\ w[s[x]] <= w[p[x]]
    BY <2>1, <2>3
  <2> DEFINE a == key[p[x]]
             b == key[s[x]]
  <2>5. u[a] \in Nat /\ u[b] \in Nat
    BY <2>2 DEF Keyed, Valued
  <2>6. (u[a] < u[b] \/ a = b) /\ (u[b] < u[a] \/ b = a)
    BY <2>2, <2>4 DEF Keyed
  <2> HIDE DEF a, b
  <2>7. a = b
    BY <2>5, <2>6
  <2> QED BY <2>7 DEF a, b
<1>13. ASSUME NEW k \in 1 .. N, NEW j \in 1 .. c(o[k])
       PROVE  at[k] + j \in 1 .. n /\ p[at[k] + j] \in R /\ key[p[at[k] + j]] = o[k]
  <2>1. at[k] + j \in 1 .. n
    BY <1>10
  <2>2. s[at[k] + j] = ss[k][j] /\ key[ss[k][j]] = o[k]
    BY <1>4, <1>6 DEF Blocks
  <2> QED BY <1>8, <1>12, <2>1, <2>2
<1> DEFINE index(d) == CHOOSE k \in 1 .. N : o[k] = d
           f == [d \in K |-> [j \in 1 .. c(d) |-> p[at[index(d)] + j]]]
           tt == Chain(f, o, K)
           t == FlattenSeq(tt)
<1>14. ASSUME NEW k \in 1 .. N
       PROVE  f[o[k]] = [j \in 1 .. c(o[k]) |-> p[at[k] + j]]
  <2>1. index(o[k]) = k
    BY <1>11
  <2>2. o[k] \in K
    BY <1>4
  <2> QED BY <2>1, <2>2
<1> HIDE DEF f
<1>15. Inner(f, K, R, key, v)
  <2> SUFFICES ASSUME NEW d \in K
               PROVE  Ordered(f[d], Group(R, key, d), v)
    BY DEF Inner
  <2>1. PICK k \in 1 .. N : o[k] = d
    BY <1>11
  <2> DEFINE m == c(d)
             g == f[d]
  <2>2. m \in Nat /\ g = [j \in 1 .. m |-> p[at[k] + j]]
    BY <1>4, <1>14, <2>1
  <2>3. \A j \in 1 .. m : at[k] + j \in 1 .. n /\ p[at[k] + j] \in R /\ key[p[at[k] + j]] = d
    BY <1>13, <2>1
  <2>4. at[k] \in Nat
    <3>1. k \in 1 .. N + 1
      BY <1>4
    <3> QED BY <1>5, <3>1 DEF Begins
  <2> HIDE DEF m, g
  <2>5. g \in [1 .. m -> Group(R, key, d)]
    BY <2>2, <2>3 DEF Group
  <2>6. ASSUME NEW i \in 1 .. m, NEW j \in 1 .. m, i < j
        PROVE  g[i] # g[j] /\ v[g[i]] <= v[g[j]]
    <3> DEFINE x == at[k] + i
               y == at[k] + j
    <3>1. x \in 1 .. n /\ y \in 1 .. n /\ x < y
      <4> DEFINE a == at[k]
      <4>1. a \in Nat
        BY <2>4
      <4> HIDE DEF a
      <4>2. a + i < a + j
        BY <2>2, <2>6, <4>1
      <4> QED BY <2>3, <4>2 DEF a
    <3>2. g[i] = p[x] /\ g[j] = p[y]
      BY <2>2
    <3>3. p[x] \in R /\ p[y] \in R /\ key[p[x]] = d /\ key[p[y]] = d
      BY <2>3
    <3> HIDE DEF x, y
    <3>4. p[x] # p[y] /\ w[p[x]] <= w[p[y]]
      BY <3>1 DEF Ordered, n
    <3>5. ~(u[d] < u[d])
      <4>1. u[d] \in Nat
        BY <1>0 DEF Valued
      <4> QED BY <4>1
    <3>6. v[p[x]] <= v[p[y]]
      BY <3>3, <3>4, <3>5 DEF Keyed
    <3> QED BY <3>2, <3>4, <3>6
  <2> QED BY <2>5, <2>6 DEF Ordered, c, m, g
<1>16. /\ tt \in [1 .. N -> Seq(R)]
       /\ \A k \in 1 .. N : tt[k] = f[o[k]] /\ Len(tt[k]) = c(o[k])
  BY <1>1, <1>15, ChainIs DEF N, c
<1> HIDE DEF tt
<1>17. Begins(at, tt, N)
  BY <1>4, <1>5, <1>16 DEF Begins
<1>18. t \in Seq(R) /\ Blocks(at, t, tt, N)
  BY <1>4, <1>16, <1>17, FlattenBlocks
<1> HIDE DEF t
<1>19. Len(t) = n /\ t = [x \in 1 .. n |-> t[x]]
  <2>1. Len(t) = n
    BY <1>9, <1>18 DEF Blocks
  <2> QED BY <1>18, <2>1, LenProperties
<1>20. ASSUME NEW x \in 1 .. n
       PROVE  t[x] = p[x]
  <2>1. PICK k \in 1 .. N : \E j \in 1 .. c(o[k]) : x = at[k] + j
    BY <1>10
  <2>2. PICK j \in 1 .. c(o[k]) : x = at[k] + j
    BY <2>1
  <2>3. t[at[k] + j] = tt[k][j]
    BY <1>16, <1>18 DEF Blocks
  <2>4. tt[k][j] = p[at[k] + j]
    <3>1. tt[k] = [i \in 1 .. c(o[k]) |-> p[at[k] + i]]
      BY <1>14, <1>16
    <3> QED BY <3>1
  <2> QED BY <2>2, <2>3, <2>4
<1>21. p = t
  <2>1. p = [x \in 1 .. n |-> p[x]]
    BY <1>8
  <2> QED BY <1>19, <1>20, <2>1
<1> QED BY <1>1, <1>15, <1>21 DEF t, tt

\* The days, the minutes and the moments of appointments.
DatesOf(apts)   == {apts[i].date : i \in DOMAIN apts}
DateOf(apts)    == [i \in DOMAIN apts |-> apts[i].date]
DayNumbers(apts)    == [d \in DatesOf(apts) |-> DayOf(d.read)]
MinutesOf(apts) == [i \in DOMAIN apts |-> MinuteOf(apts[i].time.read)]
MomentsOf(apts) == [i \in DOMAIN apts |-> Moment(apts[i])]

\* Appointments with dates and times that can be read, a date in one spelling.
Page(apts, n) ==
  /\ n \in Nat /\ apts \in [1 .. n -> Readable]
  /\ \A i, j \in 1 .. n : apts[i].date.read = apts[j].date.read => apts[i].date = apts[j].date

\* The moments order them by day, then by minute.
LEMMA PageKeyed ==
  ASSUME NEW apts, NEW n, Page(apts, n)
  PROVE  Keyed(DatesOf(apts), 1 .. n, DateOf(apts), DayNumbers(apts), MinutesOf(apts), MomentsOf(apts))
<1> DEFINE K == DatesOf(apts)
           R == 1 .. n
           key == DateOf(apts)
           u == DayNumbers(apts)
           v == MinutesOf(apts)
           w == MomentsOf(apts)
<1>1. /\ n \in Nat /\ DOMAIN apts = R /\ \A i \in R : apts[i] \in Readable
      /\ \A i, j \in R : apts[i].date.read = apts[j].date.read => apts[i].date = apts[j].date
  BY DEF Page
<1>2. /\ \A i \in R : key[i] = apts[i].date /\ key[i] \in K
      /\ \A i \in R : v[i] = MinuteOf(apts[i].time.read) /\ w[i] = Moment(apts[i])
      /\ \A d \in K : u[d] = DayOf(d.read) /\ \E i \in R : d = apts[i].date
  BY <1>1 DEF DateOf, DatesOf, MinutesOf, MomentsOf, DayNumbers
<1>3. ASSUME NEW i \in R
      PROVE  /\ w[i] = v[i] + 1440 * u[key[i]] /\ v[i] \in Nat /\ v[i] < 1440
             /\ u[key[i]] \in Nat /\ w[i] \in Nat
  <2>1. apts[i] \in Readable
    BY <1>1
  <2>2. u[key[i]] = DayOf(apts[i].date.read)
    BY <1>2
  <2> QED BY <1>2, <2>1, <2>2, MomentIs
<1>4. IsFiniteSet(R)
  <2>1. n \in Int /\ 1 \in Int
    BY <1>1
  <2> QED BY <2>1, FS_Interval
<1>5. IsFiniteSet(K)
  <2>1. key \in Surjection(R, K)
    <3>1. key \in [R -> K]
      BY <1>1, <1>2 DEF DateOf
    <3>2. \A d \in K : \E i \in R : key[i] = d
      BY <1>2
    <3> QED BY <3>1, <3>2 DEF Surjection
  <2> QED BY <1>4, <2>1, FS_Surjection
<1>6. ASSUME NEW d \in K, NEW e \in K
      PROVE  u[d] \in Nat /\ (u[d] = u[e] => d = e)
  <2>1. PICK i \in R : d = apts[i].date
    BY <1>2
  <2>2. PICK j \in R : e = apts[j].date
    BY <1>2
  <2>3. key[i] = d /\ key[j] = e /\ u[d] \in Nat
    BY <1>2, <1>3, <2>1, <2>2
  <2>4. apts[i] \in Readable /\ apts[j] \in Readable
    BY <1>1
  <2>5. /\ d.read \in Seq(Int) /\ e.read \in Seq(Int) /\ IsDate(d.read) /\ IsDate(e.read)
    BY <2>1, <2>2, <2>4, ReadableIs
  <2>6. DayOf(d.read) = DayOf(e.read) => d.read = e.read
    BY <2>5, DateOrder
  <2>7. u[d] = u[e] => d.read = e.read
    BY <1>2, <2>6
  <2> QED BY <1>1, <2>1, <2>2, <2>3, <2>7
<1>7. ASSUME NEW i \in R, NEW j \in R
      PROVE  w[i] <= w[j] <=> u[key[i]] < u[key[j]] \/ (key[i] = key[j] /\ v[i] <= v[j])
  <2> DEFINE a == u[key[i]]
             b == u[key[j]]
             c == v[i]
             d == v[j]
             same == key[i] = key[j]
  <2>1. /\ a \in Nat /\ b \in Nat /\ c \in Nat /\ d \in Nat /\ c < 1440 /\ d < 1440
        /\ w[i] = c + 1440 * a /\ w[j] = d + 1440 * b
    BY <1>3
  <2>2. same <=> a = b
    <3>1. key[i] \in K /\ key[j] \in K
      BY <1>2
    <3> QED BY <1>6, <3>1
  <2> HIDE DEF a, b, c, d, same
  <2>3. c + 1440 * a <= d + 1440 * b <=> a < b \/ (a = b /\ c <= d)
    BY <2>1
  <2>4. w[i] <= w[j] <=> a < b \/ (same /\ c <= d)
    BY <2>1, <2>2, <2>3
  <2> QED BY <2>4 DEF a, b, c, d, same
<1> HIDE DEF K, R, key, u, v, w
<1>8. Valued(u, K) /\ Valued(v, R) /\ Valued(w, R)
  BY <1>3, <1>4, <1>5, <1>6 DEF Valued
<1>9. Keyed(K, R, key, u, v, w)
  BY <1>2, <1>6, <1>7, <1>8 DEF Keyed
<1> QED BY <1>9 DEF K, R, key, u, v, w

\* What the sorts of the page may make.
LEMMA PageSorts ==
  ASSUME NEW apts, NEW n, Page(apts, n)
  PROVE  /\ SearchRows(apts) = Chronological(apts)
         /\ \A p : p \in Chronological(apts) <=> Ordered(p, 1 .. n, MomentsOf(apts))
         /\ \A p : p \in Sorted(DatesOf(apts),
                                {de \in DatesOf(apts) \X DatesOf(apts) :
                                   CompareDates(de[1], de[2])})
                     <=> Ordered(p, DatesOf(apts), DayNumbers(apts))
         /\ \A d, p : p \in Sorted({i \in 1 .. n : apts[i].date = d},
                                   {ij \in (1 .. n) \X (1 .. n) :
                                      CompareTimes(apts[ij[1]].time, apts[ij[2]].time)})
                        <=> Ordered(p, Group(1 .. n, DateOf(apts), d), MinutesOf(apts))
<1> DEFINE K == DatesOf(apts)
           R == 1 .. n
           key == DateOf(apts)
           u == DayNumbers(apts)
           v == MinutesOf(apts)
           w == MomentsOf(apts)
           m == {ij \in R \X R : Moment(apts[ij[1]]) < Moment(apts[ij[2]])}
           s == {ij \in R \X R : CompareDateTime(apts[ij[1]], apts[ij[2]])}
           t == {ij \in R \X R : CompareTimes(apts[ij[1]].time, apts[ij[2]].time)}
           e == {de \in K \X K : CompareDates(de[1], de[2])}
<1>0. Keyed(K, R, key, u, v, w)
  BY PageKeyed
<1>1. /\ n \in Nat /\ DOMAIN apts = R /\ \A i \in R : apts[i] \in Readable
      /\ \A i, j \in R : apts[i].date.read = apts[j].date.read => apts[i].date = apts[j].date
  BY DEF Page
<1>2. /\ \A i \in R : key[i] = apts[i].date
      /\ \A i \in R : v[i] = MinuteOf(apts[i].time.read) /\ w[i] = Moment(apts[i])
      /\ \A d \in K : u[d] = DayOf(d.read) /\ \E i \in R : d = apts[i].date
  BY <1>1 DEF DateOf, DatesOf, MinutesOf, MomentsOf, DayNumbers
<1>3. ASSUME NEW i \in R, NEW j \in R
      PROVE  /\ <<i, j>> \in m <=> w[i] < w[j]
             /\ <<i, j>> \in s <=> <<i, j>> \in m
             /\ <<i, j>> \in t <=> v[i] < v[j]
  <2>1. apts[i] \in Readable /\ apts[j] \in Readable
    BY <1>1
  <2>2. CompareDateTime(apts[i], apts[j]) <=> Moment(apts[i]) < Moment(apts[j])
    BY <1>1, <2>1, MomentOrder
  <2>3. CompareTimes(apts[i].time, apts[j].time)
          <=> MinuteOf(apts[i].time.read) < MinuteOf(apts[j].time.read)
    <3>1. /\ apts[i].time.read \in Seq(Int) /\ apts[j].time.read \in Seq(Int)
          /\ IsTime(apts[i].time.read) /\ IsTime(apts[j].time.read)
      BY <2>1, ReadableIs
    <3> QED BY <3>1, TimeOrder
  <2> QED BY <1>2, <2>2, <2>3
<1>4. ASSUME NEW d1 \in K, NEW d2 \in K
      PROVE  <<d1, d2>> \in e <=> u[d1] < u[d2]
  <2>1. PICK i \in R : d1 = apts[i].date
    BY <1>2
  <2>2. PICK j \in R : d2 = apts[j].date
    BY <1>2
  <2>3. apts[i] \in Readable /\ apts[j] \in Readable
    BY <1>1
  <2>4. d1.read \in Seq(Int) /\ d2.read \in Seq(Int) /\ IsDate(d1.read) /\ IsDate(d2.read)
    BY <2>1, <2>2, <2>3, ReadableIs
  <2>5. CompareDates(d1, d2) <=> DayOf(d1.read) < DayOf(d2.read)
    BY <2>4, DateOrder
  <2> QED BY <1>2, <2>5
<1>5. Chronological(apts) = Sorted(R, m) /\ SearchRows(apts) = Sorted(R, s)
  BY <1>1 DEF Chronological, SearchRows
<1>6. m = s
  <2>1. m \subseteq R \X R /\ s \subseteq R \X R
    OBVIOUS
  <2> HIDE DEF m, s
  <2>2. \A x : x \in R \X R => x = <<x[1], x[2]>> /\ x[1] \in R /\ x[2] \in R
    OBVIOUS
  <2>3. \A x : x \in m <=> x \in s
    BY <1>3, <2>1, <2>2
  <2> QED BY <2>3
<1> HIDE DEF m, s, t, e, K, R, key, u, v, w
<1>7. \A p : p \in Sorted(R, m) <=> Ordered(p, R, w)
  <2>1. Valued(w, R)
    BY <1>0 DEF Keyed
  <2>2. \A i, j \in R : <<i, j>> \in m <=> w[i] < w[j]
    BY <1>3
  <2> QED BY <2>1, <2>2, SortedIs
<1>8. \A p : p \in Sorted(K, e) <=> Ordered(p, K, u)
  <2>1. Valued(u, K)
    BY <1>0 DEF Keyed
  <2> QED BY <1>4, <2>1, SortedIs
<1>9. ASSUME NEW d
      PROVE  \A p : p \in Sorted({i \in R : apts[i].date = d}, t)
                       <=> Ordered(p, Group(R, key, d), v)
  <2> DEFINE G == Group(R, key, d)
  <2>1. {i \in R : apts[i].date = d} = G
    BY <1>2 DEF Group
  <2>2. Valued(v, G) /\ G \subseteq R
    BY <1>0, GroupValued
  <2> HIDE DEF G
  <2>3. \A i, j \in G : <<i, j>> \in t <=> v[i] < v[j]
    BY <1>3, <2>2
  <2>4. \A p : p \in Sorted(G, t) <=> Ordered(p, G, v)
    BY <2>2, <2>3, SortedIs
  <2> QED BY <2>1, <2>4 DEF G
<1> QED BY <1>5, <1>6, <1>7, <1>8, <1>9 DEF m, s, t, e, K, R, key, u, v, w

\* The home page sorts twice, and makes what one sort by the moment may make.
LEMMA HomeIsChronological ==
  ASSUME NEW apts, NEW n, Page(apts, n)
  PROVE  HomeRows(apts) = Chronological(apts)
<1> DEFINE K == DatesOf(apts)
           R == 1 .. n
           key == DateOf(apts)
           u == DayNumbers(apts)
           v == MinutesOf(apts)
           w == MomentsOf(apts)
           of(d) == Sorted({i \in R : apts[i].date = d},
                           {ij \in R \X R : CompareTimes(apts[ij[1]].time, apts[ij[2]].time)})
           inner == {f \in [K -> UNION {of(d) : d \in K}] : \A d \in K : f[d] \in of(d)}
           outer == Sorted(K, {de \in K \X K : CompareDates(de[1], de[2])})
<1>1. Keyed(K, R, key, u, v, w)
  BY PageKeyed
<1>2. /\ \A p : p \in Chronological(apts) <=> Ordered(p, R, w)
      /\ \A o : o \in outer <=> Ordered(o, K, u)
      /\ \A d, p : p \in of(d) <=> Ordered(p, Group(R, key, d), v)
  BY PageSorts
<1>3. HomeRows(apts) = {FlattenSeq([k \in DOMAIN o |-> f[o[k]]]) : o \in outer, f \in inner}
  <2>1. DOMAIN apts = R
    BY DEF Page
  <2> QED BY <2>1 DEF HomeRows, DatesOf
<1> HIDE DEF K, key, u, v, w, of, outer
<1>4. \A o, f : o \in outer => [k \in DOMAIN o |-> f[o[k]]] = Chain(f, o, K)
  <2> TAKE o, f
  <2> HAVE o \in outer
  <2>1. DOMAIN o = 1 .. Cardinality(K)
    BY <1>2 DEF Ordered
  <2> QED BY <2>1 DEF Chain
<1>5. ASSUME NEW o \in outer, NEW f \in inner
      PROVE  FlattenSeq([k \in DOMAIN o |-> f[o[k]]]) \in Chronological(apts)
  <2>1. Ordered(o, K, u)
    BY <1>2
  <2>2. Inner(f, K, R, key, v)
    BY <1>2 DEF Inner
  <2>3. Ordered(FlattenSeq(Chain(f, o, K)), R, w)
    BY <1>1, <2>1, <2>2, TwoSorts
  <2> QED BY <1>2, <1>4, <2>3
<1>6. ASSUME NEW p \in Chronological(apts)
      PROVE  \E o \in outer : \E f \in inner : p = FlattenSeq([k \in DOMAIN o |-> f[o[k]]])
  <2>1. Ordered(p, R, w)
    BY <1>2
  <2>2. PICK o, g : Ordered(o, K, u) /\ Inner(g, K, R, key, v) /\ p = FlattenSeq(Chain(g, o, K))
    BY <1>1, <2>1, SortedTwice
  <2> DEFINE f == [d \in K |-> g[d]]
  <2>3. o \in outer
    BY <1>2, <2>2
  <2>4. f \in inner
    <3>1. \A d \in K : f[d] \in of(d)
      BY <1>2, <2>2 DEF Inner
    <3>2. f \in [K -> UNION {of(d) : d \in K}]
      BY <3>1
    <3> QED BY <3>1, <3>2
  <2>5. Chain(f, o, K) = Chain(g, o, K)
    <3>1. \A k \in 1 .. Cardinality(K) : o[k] \in K
      BY <2>2 DEF Ordered
    <3> QED BY <3>1 DEF Chain
  <2> HIDE DEF f, inner
  <2>6. p = FlattenSeq([k \in DOMAIN o |-> f[o[k]]])
    BY <1>4, <2>2, <2>3, <2>5
  <2> QED BY <2>3, <2>4, <2>6
<1> HIDE DEF inner
<1> DEFINE rows(o, f) == FlattenSeq([k \in DOMAIN o |-> f[o[k]]])
<1>7. \A p : p \in HomeRows(apts) <=> \E o \in outer : \E f \in inner : p = rows(o, f)
  BY <1>3
<1>8. /\ \A o \in outer : \A f \in inner : rows(o, f) \in Chronological(apts)
      /\ \A p \in Chronological(apts) : \E o \in outer : \E f \in inner : p = rows(o, f)
  BY <1>5, <1>6
<1> HIDE DEF rows
<1>9. \A p : p \in HomeRows(apts) <=> p \in Chronological(apts)
  BY ONLY <1>7, <1>8, Zenon
<1> QED
  <2> DEFINE A == HomeRows(apts)
             B == Chronological(apts)
  <2>1. \A p : p \in A <=> p \in B
    BY <1>9
  <2> HIDE DEF A, B
  <2>2. A = B
    BY <2>1
  <2> QED BY <2>2 DEF A, B

\* Both pages are in the order of time.
LEMMA PagesAgreeAlways == PagesAgree
<1> SUFFICES ASSUME NEW n \in 1 .. MaxRows, NEW apts \in [1 .. n -> Readable],
                    \A i, j \in 1 .. n :
                      apts[i].date.read = apts[j].date.read => apts[i].date = apts[j].date
             PROVE  SearchRows(apts) = Chronological(apts) /\ HomeRows(apts) = Chronological(apts)
  BY DEF PagesAgree
<1>1. n \in Nat
  BY PageAssumption
<1>2. Page(apts, n)
  BY <1>1 DEF Page
<1> QED BY <1>2, PageSorts, HomeIsChronological

\* The comparisons of numbers that are all there.
DateLess(x, y) ==
  \/ x[3] < y[3]
  \/ x[3] = y[3] /\ x[2] < y[2]
  \/ x[3] = y[3] /\ x[2] = y[2] /\ x[1] < y[1]
TimeLess(x, y) == x[1] < y[1] \/ (x[1] = y[1] /\ x[2] < y[2])

\* less is a strict total order of S.
TotalOn(less(_, _), S) ==
  /\ \A x \in S : ~less(x, x)
  /\ \A x, y \in S : less(x, y) => ~less(y, x)
  /\ \A x, y \in S : x # y => less(x, y) \/ less(y, x)
  /\ \A x, y, z \in S : less(x, y) /\ less(y, z) => less(x, z)

\* Dates are ordered by the year, then the month, then the day.
LEMMA DatesTotal == TotalOn(DateLess, {r \in Seq(Int) : Len(r) = 3})
<1> DEFINE S == {r \in Seq(Int) : Len(r) = 3}
<1>1. \A x \in S : x[1] \in Int /\ x[2] \in Int /\ x[3] \in Int
  <2> TAKE x \in S
  <2>1. x \in Seq(Int) /\ Len(x) = 3
    OBVIOUS
  <2>2. \A i \in 1 .. Len(x) : x[i] \in Int
    BY <2>1, LenProperties
  <2>3. 1 \in 1 .. 3 /\ 2 \in 1 .. 3 /\ 3 \in 1 .. 3
    OBVIOUS
  <2> QED BY <2>1, <2>2, <2>3
<1>2. \A x, y \in S : x[1] = y[1] /\ x[2] = y[2] /\ x[3] = y[3] => x = y
  <2> TAKE x, y \in S
  <2>1. \A i \in 1 .. 3 : i = 1 \/ i = 2 \/ i = 3
    OBVIOUS
  <2>2. x = [i \in 1 .. 3 |-> x[i]] /\ y = [i \in 1 .. 3 |-> y[i]]
    BY LenProperties
  <2> QED BY <2>1, <2>2
<1> HIDE DEF S
<1>3. \A x \in S : ~DateLess(x, x)
  BY <1>1 DEF DateLess
<1>4. \A x, y \in S : DateLess(x, y) => ~DateLess(y, x)
  BY <1>1 DEF DateLess
<1>5. \A x, y \in S : x # y => DateLess(x, y) \/ DateLess(y, x)
  BY <1>1, <1>2 DEF DateLess
<1>6. \A x, y, z \in S : DateLess(x, y) /\ DateLess(y, z) => DateLess(x, z)
  BY <1>1 DEF DateLess
<1> QED BY <1>3, <1>4, <1>5, <1>6 DEF TotalOn, S

\* Times are ordered by the hour, then the minute.
LEMMA TimesTotal == TotalOn(TimeLess, {r \in Seq(Int) : Len(r) = 2})
<1> DEFINE S == {r \in Seq(Int) : Len(r) = 2}
<1>1. \A x \in S : x[1] \in Int /\ x[2] \in Int
  <2> TAKE x \in S
  <2>1. x \in Seq(Int) /\ Len(x) = 2
    OBVIOUS
  <2>2. \A i \in 1 .. Len(x) : x[i] \in Int
    BY <2>1, LenProperties
  <2>3. 1 \in 1 .. 2 /\ 2 \in 1 .. 2
    OBVIOUS
  <2> QED BY <2>1, <2>2, <2>3
<1>2. \A x, y \in S : x[1] = y[1] /\ x[2] = y[2] => x = y
  <2> TAKE x, y \in S
  <2>1. \A i \in 1 .. 2 : i = 1 \/ i = 2
    OBVIOUS
  <2>2. x = [i \in 1 .. 2 |-> x[i]] /\ y = [i \in 1 .. 2 |-> y[i]]
    BY LenProperties
  <2> QED BY <2>1, <2>2
<1> HIDE DEF S
<1>3. \A x \in S : ~TimeLess(x, x)
  BY <1>1 DEF TimeLess
<1>4. \A x, y \in S : TimeLess(x, y) => ~TimeLess(y, x)
  BY <1>1 DEF TimeLess
<1>5. \A x, y \in S : x # y => TimeLess(x, y) \/ TimeLess(y, x)
  BY <1>1, <1>2 DEF TimeLess
<1>6. \A x, y, z \in S : TimeLess(x, y) /\ TimeLess(y, z) => TimeLess(x, z)
  BY <1>1 DEF TimeLess
<1> QED BY <1>3, <1>4, <1>5, <1>6 DEF TotalOn, S

\* The numbers of dates, and of times, that are all there.
DateNumbers == {r \in Seq(Int) : Len(r) = 3}
TimeNumbers == {r \in Seq(Int) : Len(r) = 2}

\* Those that are there are compared.
LEMMA SharpDates ==
  ASSUME NEW a, NEW b, a.read \in DateNumbers, b.read \in DateNumbers
  PROVE  CompareDates(a, b) <=> DateLess(a.read, b.read)
<1>1. /\ a.read \in Seq(Int) /\ Len(a.read) = 3 /\ Len(a.read) <= 3 /\ 3 \in Nat
      /\ b.read \in Seq(Int) /\ Len(b.read) = 3 /\ Len(b.read) <= 3
  <2>1. a.read \in Seq(Int) /\ Len(a.read) = 3 /\ b.read \in Seq(Int) /\ Len(b.read) = 3
    BY DEF DateNumbers
  <2>2. \A n : n = 3 => n <= 3 /\ 3 \in Nat
    OBVIOUS
  <2> QED BY <2>1, <2>2
<1>2. Seen(a, 3) = {a.read}
  BY ONLY <1>1, SeenOf
<1>3. Seen(b, 3) = {b.read}
  BY ONLY <1>1, SeenOf
<1> QED BY <1>2, <1>3 DEF CompareDates, DateLess

\* So are times.
LEMMA SharpTimes ==
  ASSUME NEW a, NEW b, a.read \in TimeNumbers, b.read \in TimeNumbers
  PROVE  CompareTimes(a, b) <=> TimeLess(a.read, b.read)
<1>1. /\ a.read \in Seq(Int) /\ Len(a.read) = 2 /\ Len(a.read) <= 2 /\ 2 \in Nat
      /\ b.read \in Seq(Int) /\ Len(b.read) = 2 /\ Len(b.read) <= 2
  <2>1. a.read \in Seq(Int) /\ Len(a.read) = 2 /\ b.read \in Seq(Int) /\ Len(b.read) = 2
    BY DEF TimeNumbers
  <2>2. \A n : n = 2 => n <= 2 /\ 2 \in Nat
    OBVIOUS
  <2> QED BY <2>1, <2>2
<1>2. Seen(a, 2) = {a.read}
  BY ONLY <1>1, SeenOf
<1>3. Seen(b, 2) = {b.read}
  BY ONLY <1>1, SeenOf
<1> QED BY <1>2, <1>3 DEF CompareTimes, TimeLess

\* A date without a year may come before any other date, and after it.
LEMMA BlurredDates ==
  ASSUME NEW a \in Dates, NEW b \in Dates, Len(a.read) < 3
  PROVE  CompareDates(a, b) /\ CompareDates(b, a)
<1>1. /\ a.read \in Seq(Int) /\ Len(a.read) <= 3 /\ b.read \in Seq(Int) /\ Len(b.read) <= 3
      /\ Garbage \subseteq Int
  BY PageAssumption
<1>2. /\ \A g \in Garbage : Filled(a.read, 3, g) \in Seen(a, 3)
      /\ \A g \in Garbage : Filled(b.read, 3, g) \in Seen(b, 3)
      /\ Len(b.read) = 3 => Seen(b, 3) = {b.read}
  <2>1. 3 \in Nat
    OBVIOUS
  <2>2. /\ Len(b.read) = 3 => Seen(b, 3) = {b.read}
        /\ \A g \in Garbage : Filled(b.read, 3, g) \in Seen(b, 3)
    BY ONLY <1>1, <2>1, SeenOf
  <2>3. \A g \in Garbage : Filled(a.read, 3, g) \in Seen(a, 3)
    BY ONLY <1>1, <2>1, SeenOf
  <2> QED BY <2>2, <2>3
<1>3. 3 \in 1 .. 3 /\ Len(a.read) \in Nat /\ Len(b.read) \in Nat
  BY <1>1, LenProperties
<1>4. \A g : Filled(a.read, 3, g)[3] = g
  <2>1. ~(3 <= Len(a.read))
    BY <1>3
  <2> QED BY <1>3, <2>1 DEF Filled
<1>5. PICK low, high \in Garbage, x, y \in Seen(b, 3) : low < y[3] /\ x[3] < high
  <2>1. CASE Len(b.read) = 3
    <3>1. PICK low, high \in Garbage : low < b.read[3] /\ b.read[3] < high
      BY <2>1, PageAssumption
    <3> QED BY <1>2, <2>1, <3>1
  <2>2. CASE Len(b.read) # 3
    <3>1. PICK low, high \in Garbage : low < high
      BY PageAssumption
    <3>2. ~(3 <= Len(b.read))
      <4> DEFINE n == Len(b.read)
      <4>1. n \in Nat /\ n <= 3 /\ n # 3
        BY <1>1, <1>3, <2>2
      <4> HIDE DEF n
      <4>2. ~(3 <= n)
        BY <4>1
      <4> QED BY <4>2 DEF n
    <3>3. \A g : Filled(b.read, 3, g)[3] = g
      BY <1>3, <3>2 DEF Filled
    <3> QED BY <1>2, <3>1, <3>3
  <2> QED BY <2>1, <2>2
<1>6. CompareDates(a, b)
  <2>1. Filled(a.read, 3, low) \in Seen(a, 3) /\ Filled(a.read, 3, low)[3] < y[3]
    BY <1>2, <1>4, <1>5
  <2> QED BY <1>5, <2>1 DEF CompareDates
<1>7. CompareDates(b, a)
  <2>1. Filled(a.read, 3, high) \in Seen(a, 3) /\ x[3] < Filled(a.read, 3, high)[3]
    BY <1>2, <1>4, <1>5
  <2> QED BY <1>5, <2>1 DEF CompareDates
<1> QED BY <1>6, <1>7

\* A time that is not all there may come before itself.
LEMMA BlurredTime ==
  ASSUME NEW t \in Times, Len(t.read) < 2
  PROVE  CompareTimes(t, t)
<1>1. t.read \in Seq(Int) /\ Len(t.read) <= 2 /\ Garbage \subseteq Int /\ Len(t.read) \in Nat
  BY PageAssumption, LenProperties
<1>2. \A g \in Garbage : Filled(t.read, 2, g) \in Seen(t, 2)
  <2>1. 2 \in Nat
    OBVIOUS
  <2> QED BY ONLY <1>1, <2>1, SeenOf
<1>3. PICK low, high \in Garbage : low < high
  BY PageAssumption
<1> DEFINE x == Filled(t.read, 2, low)
           y == Filled(t.read, 2, high)
<1>4. x \in Seen(t, 2) /\ y \in Seen(t, 2)
  BY <1>2
<1>5. x[2] < y[2]
  <2>1. 2 \in 1 .. 2 /\ ~(2 <= Len(t.read))
    BY <1>1
  <2>2. x[2] = low /\ y[2] = high
    BY <2>1 DEF Filled
  <2> QED BY <1>3, <2>2
<1>6. x[1] < y[1] \/ x[1] = y[1]
  <2>1. 1 \in 1 .. 2
    OBVIOUS
  <2>2. x[1] = IF 1 <= Len(t.read) THEN t.read[1] ELSE low
    BY <2>1 DEF Filled
  <2>3. y[1] = IF 1 <= Len(t.read) THEN t.read[1] ELSE high
    BY <2>1 DEF Filled
  <2> QED BY <1>3, <2>2, <2>3
<1> HIDE DEF x, y
<1> QED BY <1>4, <1>5, <1>6 DEF CompareTimes

\* What a comparison of S answers, when it reads no number that is not there.
LEMMA SharpSort ==
  ASSUME NEW S \in SUBSET Listed, ~ReadsGarbage(S)
  PROVE  /\ \A a \in S : a.time.read \in TimeNumbers
         /\ \A a, b \in S : a.date # b.date => a.date.read \in DateNumbers
         /\ \A a, b \in S :
              CompareDateTime(a, b) <=> IF a.date # b.date THEN DateLess(a.date.read, b.date.read)
                                        ELSE TimeLess(a.time.read, b.time.read)
<1>1. /\ \A a \in S : a.date \in Dates /\ a.time \in Times
      /\ \A d \in Dates : d.read \in Seq(Int) /\ Len(d.read) <= 3 /\ Len(d.read) \in Nat
      /\ \A t \in Times : t.read \in Seq(Int) /\ Len(t.read) <= 2 /\ Len(t.read) \in Nat
  BY PageAssumption, LenProperties DEF Listed
<1>2. \A a \in S : a.time.read \in TimeNumbers
  <2> TAKE a \in S
  <2>1. ~(Len(a.time.read) < 2)
    BY DEF ReadsGarbage
  <2>2. a.time.read \in Seq(Int)
    BY <1>1
  <2> DEFINE n == Len(a.time.read)
  <2>3. n \in Nat /\ n <= 2 /\ ~(n < 2)
    BY <1>1, <2>1
  <2> HIDE DEF n
  <2>4. n = 2
    BY <2>3
  <2> QED BY <2>2, <2>4 DEF TimeNumbers, n
<1>3. \A a, b \in S : a.date # b.date => a.date.read \in DateNumbers
  <2> TAKE a, b \in S
  <2> HAVE a.date # b.date
  <2>1. ~(Len(a.date.read) < 3)
    BY DEF ReadsGarbage
  <2>2. a.date.read \in Seq(Int)
    BY <1>1
  <2> DEFINE n == Len(a.date.read)
  <2>3. n \in Nat /\ n <= 3 /\ ~(n < 3)
    BY <1>1, <2>1
  <2> HIDE DEF n
  <2>4. n = 3
    BY <2>3
  <2> QED BY <2>2, <2>4 DEF DateNumbers, n
<1>4. \A a, b \in S :
        CompareDateTime(a, b) <=> IF a.date # b.date THEN DateLess(a.date.read, b.date.read)
                                  ELSE TimeLess(a.time.read, b.time.read)
  <2> TAKE a, b \in S
  <2>1. CASE a.date # b.date
    <3>1. CompareDates(a.date, b.date) <=> DateLess(a.date.read, b.date.read)
      BY <1>3, <2>1, SharpDates
    <3> QED BY <2>1, <3>1 DEF CompareDateTime
  <2>2. CASE a.date = b.date
    <3>1. CompareTimes(a.time, b.time) <=> TimeLess(a.time.read, b.time.read)
      BY <1>2, SharpTimes
    <3> QED BY <2>2, <3>1 DEF CompareDateTime
  <2> QED BY <2>1, <2>2
<1> QED BY <1>2, <1>3, <1>4

\* The sort of S is defined when it reads nothing that is not there and no date is spelt twice.
LEMMA SharpIsDefined ==
  ASSUME NEW S \in SUBSET Listed, ~ReadsGarbage(S), ~SpeltTwice(S)
  PROVE  StrictWeakOrder(S)
<1>1. /\ \A a \in S : a.time.read \in TimeNumbers
      /\ \A a, b \in S : a.date # b.date => a.date.read \in DateNumbers
      /\ \A a, b \in S :
           CompareDateTime(a, b) <=> IF a.date # b.date THEN DateLess(a.date.read, b.date.read)
                                     ELSE TimeLess(a.time.read, b.time.read)
  BY SharpSort
<1>2. TotalOn(DateLess, DateNumbers) /\ TotalOn(TimeLess, TimeNumbers)
  BY DatesTotal, TimesTotal DEF DateNumbers, TimeNumbers
<1>3. \A a, b \in S : CompareDateTime(a, b) => ~CompareDateTime(b, a)
  BY <1>1, <1>2 DEF TotalOn
<1>4. ASSUME NEW a \in S, NEW b \in S, NEW c \in S, CompareDateTime(a, b), CompareDateTime(b, c)
      PROVE  CompareDateTime(a, c)
  BY <1>1, <1>2, <1>4 DEF TotalOn
<1>5. ASSUME NEW a \in S, NEW b \in S, NEW c \in S, CompareDateTime(a, c)
      PROVE  CompareDateTime(a, b) \/ CompareDateTime(b, c)
  BY <1>1, <1>2, <1>5 DEF TotalOn, SpeltTwice
<1> QED BY <1>3, <1>4, <1>5 DEF StrictWeakOrder

\* When it is defined, it reads nothing that is not there, and no date is spelt twice.
LEMMA DefinedIsSharp ==
  ASSUME NEW S \in SUBSET Listed, StrictWeakOrder(S)
  PROVE  ~ReadsGarbage(S) /\ ~SpeltTwice(S)
<1>1. \A a \in S : a.date \in Dates /\ a.time \in Times
  BY DEF Listed
<1>2. ~ReadsGarbage(S)
  <2>1. SUFFICES ASSUME NEW a \in S, NEW b \in S,
                        IF a.date # b.date THEN Len(a.date.read) < 3 ELSE Len(a.time.read) < 2
                 PROVE  FALSE
    BY DEF ReadsGarbage
  <2>2. CASE a.date # b.date
    <3>1. CompareDates(a.date, b.date) /\ CompareDates(b.date, a.date)
      BY <1>1, <2>1, <2>2, BlurredDates
    <3>2. CompareDateTime(a, b) /\ CompareDateTime(b, a)
      BY <2>2, <3>1 DEF CompareDateTime
    <3> QED BY <3>2 DEF StrictWeakOrder
  <2>3. CASE a.date = b.date
    <3>1. CompareTimes(a.time, a.time)
      BY <1>1, <2>1, <2>3, BlurredTime
    <3>2. CompareDateTime(a, a)
      BY <3>1 DEF CompareDateTime
    <3> QED BY <3>2 DEF StrictWeakOrder
  <2> QED BY <2>2, <2>3
<1>3. ~SpeltTwice(S)
  <2>1. SUFFICES ASSUME NEW a \in S, NEW b \in S, NEW c \in S,
                        a.date = c.date, a.time.read # c.time.read,
                        b.date # a.date, b.date.read = a.date.read
                 PROVE  FALSE
    BY DEF SpeltTwice
  <2>2. /\ \A x \in S : x.time.read \in TimeNumbers
        /\ \A x, y \in S : x.date # y.date => x.date.read \in DateNumbers
        /\ \A x, y \in S :
             CompareDateTime(x, y) <=> IF x.date # y.date THEN DateLess(x.date.read, y.date.read)
                                       ELSE TimeLess(x.time.read, y.time.read)
    BY <1>2, SharpSort
  <2>3. TotalOn(DateLess, DateNumbers) /\ TotalOn(TimeLess, TimeNumbers)
    BY DatesTotal, TimesTotal DEF DateNumbers, TimeNumbers
  <2>4. a.date.read \in DateNumbers
    BY <2>1, <2>2
  <2>5. ~DateLess(a.date.read, a.date.read)
    BY <2>3, <2>4 DEF TotalOn
  <2>6. /\ ~CompareDateTime(a, b) /\ ~CompareDateTime(b, a)
        /\ ~CompareDateTime(c, b) /\ ~CompareDateTime(b, c)
    BY <2>1, <2>2, <2>5
  <2>7. TimeLess(a.time.read, c.time.read) \/ TimeLess(c.time.read, a.time.read)
    BY <2>1, <2>2, <2>3 DEF TotalOn
  <2>8. CompareDateTime(a, c) \/ CompareDateTime(c, a)
    BY <2>1, <2>2, <2>7
  <2> QED BY <2>6, <2>8 DEF StrictWeakOrder
<1> QED BY <1>2, <1>3

\* A search's sort is defined exactly then.
LEMMA SortIsDefinedExactly == SortIsDefined
<1> SUFFICES ASSUME NEW a \in Listed, NEW b \in Listed, NEW c \in Listed, NEW S \in {{a, b, c}}
             PROVE  StrictWeakOrder(S) <=> ~ReadsGarbage(S) /\ ~SpeltTwice(S)
  BY DEF SortIsDefined
<1>1. S \in SUBSET Listed
  OBVIOUS
<1> QED BY <1>1, SharpIsDefined, DefinedIsSharp

\* Page::updateDays: of appointments with a date and a time of day, each date in one spelling,
\* any number of them, both overloads make a page in the order of time, with every row once;
\* and the sort of a search is defined exactly when its comparison reads no number that is
\* not there and no date has two spellings of which one occurs at two times.
THEOREM PagesAreOrdered == Spec => []PageIsOrdered
<1>1. PageIsOrdered
  BY PagesAgreeAlways, SortIsDefinedExactly DEF PageIsOrdered, RowsAreChronological
<1> QED BY <1>1, PTL
=============================================================================
