---------------------------- MODULE RecordFormat ----------------------------
(***************************************************************************)
(* The text database.txt is made of: toFileString, which writes a booking  *)
(* as one line of tagged fields, saveToFile, and the getline loop and the  *)
(* constructor Appointment(fileString) that read them back.  Appointments  *)
(* takes a line for the tuple of its fields; this module says when that is *)
(* right.  A text is a sequence of characters.                             *)
(***************************************************************************)
EXTENDS StdString, SequencesExt

CONSTANTS
  Characters,   \* what texts are made of
  FieldTexts    \* the texts a field can hold

ASSUME FormatAssumption ==
  /\ {"<", ">", "D", "T", "C", "L", "E", "S", "I", "M", "G", "\n", "x"} \subseteq Characters
  /\ FieldTexts \subseteq Seq(Characters)

\* The fields of Prac4/database.h, in the order they are written.
Tags == <<<<"<", "D", ">">>, <<"<", "T", ">">>, <<"<", "C", ">">>, <<"<", "L", ">">>,
          <<"<", "D", "E", "S", "C", ">">>, <<"<", "I", "M", "G", ">">>>>

LineEnd == <<"\n">>

-----------------------------------------------------------------------------
\* Appointment::toFileString
Tagged(fields, i) == Tags[i] \o fields[i] \o Tags[i]

ToFileString(fields) ==
  Tagged(fields, 1) \o Tagged(fields, 2) \o Tagged(fields, 3)
    \o Tagged(fields, 4) \o Tagged(fields, 5) \o Tagged(fields, 6) \o LineEnd

\* The bytes saveToFile writes.
FileText(bookings) == FlattenSeq([n \in DOMAIN bookings |-> ToFileString(bookings[n])])

\* A mutant of FieldStart: three for every tag.
StartAfterThree(row, tag) == Find(row, tag, 0) + 3

\* dStart, tStart, ...: behind the first tag, or what npos wraps to
FieldStart(row, tag) == Find(row, tag, 0) + Len(tag)

\* substr throws out_of_range, which nothing catches, when it starts beyond the end.
Throws(row) == \E i \in DOMAIN Tags : FieldStart(row, Tags[i]) > Len(row)

\* substr(start, end - start): the rest of the line when no second tag follows
Field(row, tag) ==
  LET start == FieldStart(row, tag)
      end   == Find(row, tag, start)
  IN  Slice(row, start, end)

\* The constructor Appointment(fileString).
Parse(row) == [i \in DOMAIN Tags |-> Field(row, Tags[i])]

\* What the getline loop of Database reads: a last line needs no line end.
GetLines(text) ==
  LET ends   == {i \in 1 .. Len(text) : SubSeq(text, i, i) = LineEnd}
      starts == ({0} \cup ends) \ {Len(text)}
      nth(n) == CHOOSE s \in starts : Cardinality({r \in starts : r < s}) = n - 1
      stop(s) == Lowest({i \in ends \cup {Len(text) + 1} : i > s})
  IN  [n \in 1 .. Cardinality(starts) |-> SubSeq(text, nth(n) + 1, stop(nth(n)) - 1)]

\* Database(filename) gets through the file.
Loads(text) == \A n \in DOMAIN GetLines(text) : ~Throws(GetLines(text)[n])

ReadBack(text) == [n \in DOMAIN GetLines(text) |-> Parse(GetLines(text)[n])]

-----------------------------------------------------------------------------
\* Two fields of a booking are anything, the others are plain.
Records ==
  {[[t \in DOMAIN Tags |-> <<"x">>] EXCEPT ![i] = a, ![j] = b] :
     i, j \in DOMAIN Tags, a, b \in FieldTexts}

\* No line end, no field that holds its own tag or the tag of a later one.
Clean(fields) ==
  \A i \in DOMAIN Tags :
    /\ ~Has(fields[i], LineEnd)
    /\ \A j \in i .. Len(Tags) : ~Has(fields[i], Tags[j])

Plain == [t \in DOMAIN Tags |-> <<"x">>]

\* A booking without a line end in a field costs no other booking anything.
NeighboursAreKept ==
  \A fields \in Records : \A text \in {FileText(<<fields, Plain>>)} :
    (\A i \in DOMAIN Tags : ~Has(fields[i], LineEnd))
      => Loads(text) /\ Len(ReadBack(text)) = 2 /\ ReadBack(text)[2] = Plain

CleanIsReadBack ==
  \A fields \in Records :
    Clean(fields) => ReadBack(FileText(<<fields>>)) = <<fields>>

OwnTagIsNot ==
  \A fields \in Records :
    (\E i \in DOMAIN Tags : Has(fields[i], Tags[i]))
      => ReadBack(FileText(<<fields>>)) # <<fields>>

\* The bookings of a file cut after n bytes; all lines have the same length.
CutFilesLoad ==
  \A text \in {FileText(<<Plain, Plain>>)}, whole \in {Len(ToFileString(Plain))} :
    \A n \in 0 .. Len(text) : \A cut \in {SubSeq(text, 1, n)} :
      /\ Loads(cut) <=> (n % whole) \notin 1 .. 4
      /\ n >= whole /\ Loads(cut) => ReadBack(cut)[1] = Plain

\* What the tags can carry.  A clean booking is read back as it was written; a booking
\* whose field holds its own tag never is, but the bookings beside it are, and without
\* a line end in a field the next start always gets through a whole file.  Of a file that
\* a death of the process cut at any byte, the bookings before the cut are read back, and
\* the next start gets through it unless one to four bytes of a line are left: then
\* npos + 6, which is 5, lies beyond the line, and substr throws.
FileIsReadBack == NeighboursAreKept /\ CleanIsReadBack /\ OwnTagIsNot /\ CutFilesLoad
=============================================================================
