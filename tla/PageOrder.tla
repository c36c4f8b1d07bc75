----------------------------- MODULE PageOrder -----------------------------
(***************************************************************************)
(* The order of the rows of the appointment page: Page::updateDays sorts   *)
(* the results of a search (the overload that takes appointments) or the   *)
(* days of the database (the home page), with comparisons that read dates  *)
(* and times with sscanf.  A date or a time is its text and the numbers    *)
(* sscanf reads from it; those it does not read keep whatever the stack    *)
(* held.  std::sort is not stable, and only defined for a strict weak      *)
(* order: the outcomes it may have are all arrangements without a row      *)
(* after one it precedes.                                                  *)
(***************************************************************************)
EXTENDS Integers, Sequences, FiniteSets, SequencesExt

CONSTANTS
  Dates,    \* records [text, read]: read are the numbers of "%d/%d/%d" it has
  Times,    \* records [text, read], for "%d:%d"
  Garbage,  \* the values of an int nobody set
  MaxRows   \* bound: appointments on a page

\* What is in an int nobody set may be less and may be more than the years that are typed.
ASSUME PageAssumption ==
  /\ \A d \in Dates : d.read \in Seq(Int) /\ Len(d.read) <= 3
  /\ \A t \in Times : t.read \in Seq(Int) /\ Len(t.read) <= 2
  /\ Garbage \subseteq Int /\ \E low, high \in Garbage : low < high
  /\ \A d \in Dates : Len(d.read) = 3 =>
       \E low, high \in Garbage : low < d.read[3] /\ d.read[3] < high
  /\ MaxRows \in Nat

Listed == [date : Dates, time : Times]

\* The n numbers a comparison may see.
Seen(text, n) ==
  {text.read \o g : g \in [1 .. n - Len(text.read) -> Garbage]}

\* A mutant of CompareDates: the month decides before the year.
CompareDatesByMonth(a, b) ==
  \E x \in Seen(a, 3), y \in Seen(b, 3) :
    \/ x[2] < y[2]
    \/ x[2] = y[2] /\ x[3] < y[3]
    \/ x[2] = y[2] /\ x[3] = y[3] /\ x[1] < y[1]

\* Page::compareDates(a, b) may return true: year, month, day
CompareDates(a, b) ==
  \E x \in Seen(a, 3), y \in Seen(b, 3) :
    \/ x[3] < y[3]
    \/ x[3] = y[3] /\ x[2] < y[2]
    \/ x[3] = y[3] /\ x[2] = y[2] /\ x[1] < y[1]

\* Page::compareTimes(a, b) may return true
CompareTimes(a, b) ==
  \E x \in Seen(a, 2), y \in Seen(b, 2) :
    x[1] < y[1] \/ (x[1] = y[1] /\ x[2] < y[2])

\* Page::compareDateTime(a, b) may return true: the texts of the dates decide
\* whether their numbers or the times are compared.
CompareDateTime(a, b) ==
  IF a.date # b.date THEN CompareDates(a.date, b.date) ELSE CompareTimes(a.time, b.time)

-----------------------------------------------------------------------------
\* What std::sort may make of the elements of S.
Sorted(S, before) ==
  {p \in [1 .. Cardinality(S) -> S] :
     \A i, j \in DOMAIN p : i < j => p[i] # p[j] /\ <<p[j], p[i]>> \notin before}

\* updateDays(appointments), then the rows day by day; a run of one date is one day,
\* so the rows are the sorted appointments.
SearchRows(apts) ==
  Sorted(DOMAIN apts,
         {ij \in (DOMAIN apts) \X (DOMAIN apts) : CompareDateTime(apts[ij[1]], apts[ij[2]])})

\* updateDays(days): the appointments of a day by time, the days by date.  The days
\* of the database have different dates (Database!OneDayPerDate).
HomeRows(apts) ==
  LET dates  == {apts[i].date : i \in DOMAIN apts}
      rows   == DOMAIN apts
      of(d)  == Sorted({i \in rows : apts[i].date = d},
                       {ij \in rows \X rows : CompareTimes(apts[ij[1]].time, apts[ij[2]].time)})
      inner  == {f \in [dates -> UNION {of(d) : d \in dates}] : \A d \in dates : f[d] \in of(d)}
      outer  == Sorted(dates, {de \in dates \X dates : CompareDates(de[1], de[2])})
  IN  {FlattenSeq([n \in DOMAIN o |-> f[o[n]]]) : o \in outer, f \in inner}

-----------------------------------------------------------------------------
\* What std::sort asks of the comparison of the elements it is given.
StrictWeakOrder(S) ==
  /\ \A a, b \in S : CompareDateTime(a, b) => ~CompareDateTime(b, a)
  /\ \A a, b, c \in S :
       /\ CompareDateTime(a, b) /\ CompareDateTime(b, c) => CompareDateTime(a, c)
       /\ CompareDateTime(a, c) => CompareDateTime(a, b) \/ CompareDateTime(b, c)

\* Two comparisons of S may answer differently: a number that is not in the text is read.
ReadsGarbage(S) ==
  \E a, b \in S : IF a.date # b.date THEN Len(a.date.read) < 3 ELSE Len(a.time.read) < 2

\* A date in two spellings, one of them at two times.
SpeltTwice(S) ==
  \E a, b, c \in S :
    /\ a.date = c.date /\ a.time.read # c.time.read
    /\ b.date # a.date /\ b.date.read = a.date.read

SortIsDefined ==
  \A a, b, c \in Listed : \A S \in {{a, b, c}} :
    StrictWeakOrder(S) <=> ~ReadsGarbage(S) /\ ~SpeltTwice(S)

\* Minutes, with months of 31 days
Moment(apt) ==
  apt.time.read[2] + 60 * apt.time.read[1]
    + 1440 * (apt.date.read[1] + 31 * (apt.date.read[2] + 12 * apt.date.read[3]))

\* The numbers of a date and of a time of day.
IsDate(r) == Len(r) = 3 /\ r[1] \in 1 .. 31 /\ r[2] \in 1 .. 12 /\ r[3] \in Nat
IsTime(r) == Len(r) = 2 /\ r[1] \in 0 .. 23 /\ r[2] \in 0 .. 59

Readable == {apt \in Listed : IsDate(apt.date.read) /\ IsTime(apt.time.read)}

\* The arrangements of apts in the order of time.
Chronological(apts) ==
  Sorted(DOMAIN apts,
         {ij \in (DOMAIN apts) \X (DOMAIN apts) : Moment(apts[ij[1]]) < Moment(apts[ij[2]])})

PagesAgree ==
  \A n \in 1 .. MaxRows : \A apts \in [1 .. n -> Readable] :
    (\A i, j \in 1 .. n : apts[i].date.read = apts[j].date.read => apts[i].date = apts[j].date)
      => SearchRows(apts) = Chronological(apts) /\ HomeRows(apts) = Chronological(apts)

\* Of appointments with a date and a time of day, each date in one spelling, both
\* overloads of updateDays make a page in the order of time, with every row once,
\* although one sorts appointments and the other sorts twice.  The sort of a search is
\* defined exactly when the comparison reads no number that is not there and no
\* date has two spellings of which one occurs at two times.
RowsAreChronological == PagesAgree /\ SortIsDefined
=============================================================================
