------------------------------ MODULE StdString ------------------------------
(***************************************************************************)
(* What the code asks of a std::string, be it a string or a sequence of    *)
(* characters.  Positions count from 0, as they do there.                  *)
(***************************************************************************)
EXTENDS Integers, Sequences, FiniteSets

Lowest(I) == CHOOSE i \in I : \A j \in I : i <= j

\* size_t is unsigned: npos + k is k - 1
Npos == -1

\* text.find(k, from)
Find(text, k, from) ==
  LET I == {i \in from .. Len(text) - Len(k) : SubSeq(text, i + 1, i + Len(k)) = k}
  IN  IF I = {} THEN Npos ELSE Lowest(I)

Has(text, k) == Find(text, k, 0) # Npos

\* text.substr(from, to - from), when from is in it; npos is its end
Slice(text, from, to) ==
  SubSeq(text, from + 1, IF to = Npos \/ to > Len(text) THEN Len(text) ELSE to)

Prefix(text, n) == SubSeq(text, 1, n)
=============================================================================
