------------------------- MODULE LdapClient_proofs --------------------------
(***************************************************************************)
(* The LDAP client tells the truth although it matches no answer with its  *)
(* request: for any names and speeds, any directory, and a server that     *)
(* refuses, stops in the middle or goes away at any time.                  *)
(***************************************************************************)
EXTENDS LdapWire, TLAPS, SequenceTheorems, FiniteSetTheorems, WellFoundedInduction

-----------------------------------------------------------------------------
\* The inductive invariant.

\* The answers that the command has had or will have.
Answers == ToSet(combined) \cup ToSet(responses)

\* Only the notice of disconnection, which ends the connection, outlives its command: the
\* server has answered what it was sent, and the client reads up to the last answer.
LinkInv ==
  /\ sent => /\ pc = "await" /\ link = "open" /\ served = NotServed
             /\ combined = <<>> /\ responses = <<>>
  /\ link = "open" => \A i \in DOMAIN responses : responses[i] # Notice
  /\ pc # "await" => \A i \in DOMAIN responses : responses[i] = Notice
  /\ \A i, j \in DOMAIN responses :
       i < j /\ (Searching => IsDone(responses[i])) => responses[j] = Notice

\* The entry m is of a plane the server sent, one of found; a list begins with the
\* subtree's own.
IsFound(m, found) ==
  IF command.op = "list" THEN PlaneIn(m) \in found \cup {Nothing}
  ELSE m.name = Empty /\ \E e \in found : e.speed = m.speed

\* The entry m tells of the plane e.
Tells(m, e) == m.op = "entry" /\ m.speed = e.speed /\ (command.op = "list" => m.name = e.name)

\* While the client waits, a success is what the server says of this command, and what it has
\* read or will read is the entries sent, all of them while the connection lives.
AwaitInv ==
  pc = "await" =>
    /\ ~Searching => \A m \in Answers : m.ok => served.ok
    /\ Searching =>
         /\ \A m \in Answers : m.op = "entry" => IsFound(m, served.entries)
         /\ link = "open" => \A e \in served.entries : \E m \in Answers : Tells(m, e)

\* A directory has one plane of a name, and a search is for one name.
ServedInv ==
  /\ \A e, g \in served.entries : e.name = g.name => e = g
  /\ \A e \in served.entries : e.name # Empty /\ (command.op = "search" => e.name = command.name)

LdapInv ==
  TypeOK /\ LinkInv /\ AwaitInv /\ ServedInv /\ SuccessIsTrue /\ ReportsAreWhole

-----------------------------------------------------------------------------
\* The planes in a sequence of answers.

\* Every set of naturals that is not empty has a least element.
LEMMA LeastNat ==
  ASSUME NEW I \in SUBSET Nat, I # {}
  PROVE  \E n \in I : \A j \in I : n <= j
<1>1. \E n \in I : \A j \in I : ~(<<j, n>> \in OpToRel(<, Nat))
  BY NatLessThanWellFounded, WFMin
<1>2. \A n, j \in Nat : j < n => <<j, n>> \in OpToRel(<, Nat)
  BY DEF OpToRel
<1>3. \E n \in I : \A j \in I : ~(j < n)
  BY <1>1, <1>2, Zenon
<1> QED BY <1>3

\* The step of the loop over the packets.
Push(ms, i, before) ==
  IF IsPlane(ms[i]) THEN Append(before, PlaneIn(ms[i])) ELSE before

\* The planes after each of the first M answers.
IsExtraction(f, ms, M) ==
  f = [i \in 0 .. M |-> IF i = 0 THEN <<>> ELSE Push(ms, i, f[i - 1])]

\* There is such a function, which is the one that ExtractPlanes means.
LEMMA ExtractionExists ==
  ASSUME NEW ms, NEW N \in Nat
  PROVE  \E f : IsExtraction(f, ms, N)
<1> DEFINE Bad == {M \in Nat : ~ \E f : IsExtraction(f, ms, M)}
<1>1. SUFFICES ASSUME Bad # {} PROVE FALSE
  OBVIOUS
<1>2. PICK M \in Bad : \A j \in Bad : M <= j
  BY <1>1, LeastNat
<1>3. M \in Nat /\ ~ \E f : IsExtraction(f, ms, M)
  BY <1>2
<1>4. IsExtraction([i \in 0 .. 0 |-> <<>>], ms, 0)
  BY DEF IsExtraction
<1>5. M - 1 \in Nat /\ M - 1 \notin Bad
  <2>1. M # 0 /\ Bad \subseteq Nat
    BY <1>3, <1>4
  <2> HIDE DEF Bad
  <2> QED BY <1>2, <1>3, <2>1
<1>6. PICK f : IsExtraction(f, ms, M - 1)
  BY <1>5
<1> DEFINE g == [i \in 0 .. M |-> IF i = M THEN Push(ms, M, f[M - 1]) ELSE f[i]]
<1>7. IsExtraction(g, ms, M)
  <2>1. \A i \in 0 .. M : i # 0 => g[i - 1] = f[i - 1]
    BY <1>3
  <2>2. \A i \in 0 .. M - 1 : f[i] = IF i = 0 THEN <<>> ELSE Push(ms, i, f[i - 1])
    BY <1>6 DEF IsExtraction
  <2>3. ASSUME NEW i \in 0 .. M
        PROVE  g[i] = IF i = 0 THEN <<>> ELSE Push(ms, i, g[i - 1])
    <3>1. CASE i = M
      BY <1>5, <2>1, <3>1
    <3>2. CASE i # M
      <4>1. i \in 0 .. M - 1 /\ g[i] = f[i]
        BY <3>2, <1>3
      <4> QED BY <2>1, <2>2, <4>1
    <3> QED BY <3>1, <3>2
  <2>4. g = [i \in 0 .. M |-> g[i]]
    OBVIOUS
  <2> HIDE DEF g
  <2> QED BY <2>3, <2>4 DEF IsExtraction
<1> QED BY <1>3, <1>7

PlanesIn(S) == {PlaneIn(m) : m \in {n \in S : IsPlane(n)}}

\* The planes extracted are those of the answers that are planes.
LEMMA ExtractPlanesProperties ==
  ASSUME NEW ms \in Seq(Response)
  PROVE  /\ ExtractPlanes(ms) \in Seq(Plane)
         /\ ToSet(ExtractPlanes(ms)) = PlanesIn(ToSet(ms))
<1> DEFINE N == Len(ms)
           planes == CHOOSE f : IsExtraction(f, ms, N)
           First(n) == {ms[k] : k \in 1 .. n}
           Good(n) == planes[n] \in Seq(Plane) /\ ToSet(planes[n]) = PlanesIn(First(n))
           Bad == {n \in 0 .. N : ~Good(n)}
<1>1. N \in Nat /\ \A n \in 1 .. N : ms[n] \in Response
  BY LenProperties, ElementOfSeq
<1>2. IsExtraction(planes, ms, N)
  BY <1>1, ExtractionExists
<1> HIDE DEF planes
<1>3. /\ planes[0] = <<>>
      /\ \A n \in 1 .. N : planes[n] = IF IsPlane(ms[n]) THEN Append(planes[n - 1], PlaneIn(ms[n]))
                                       ELSE planes[n - 1]
  <2>1. \A n \in 0 .. N : planes[n] = IF n = 0 THEN <<>> ELSE Push(ms, n, planes[n - 1])
    BY <1>2 DEF IsExtraction
  <2> QED BY <1>1, <2>1 DEF Push
<1>4. ExtractPlanes(ms) = planes[N]
  BY DEF ExtractPlanes, planes, IsExtraction, Push
<1>5. Good(0)
  BY <1>3, EmptySeq DEF ToSet, PlanesIn
<1>6. ASSUME NEW n \in 1 .. N, Good(n - 1)
      PROVE  Good(n)
  <2>1. First(n) = First(n - 1) \cup {ms[n]}
    BY <1>1
  <2>2. CASE ~IsPlane(ms[n])
    <3>1. PlanesIn(First(n)) = PlanesIn(First(n - 1))
      BY <2>1, <2>2 DEF PlanesIn
    <3> QED BY <1>3, <1>6, <2>2, <3>1
  <2>3. CASE IsPlane(ms[n])
    <3> DEFINE old == planes[n - 1]
               p   == PlaneIn(ms[n])
    <3>1. planes[n] = Append(old, p) /\ old \in Seq(Plane) /\ p \in Plane
      BY <1>1, <1>3, <1>6, <2>3 DEF PlaneIn, Plane, Response
    <3>2. PlanesIn(First(n)) = PlanesIn(First(n - 1)) \cup {p}
      BY <2>1, <2>3 DEF PlanesIn
    <3>3. ToSet(old) = PlanesIn(First(n - 1))
      BY <1>6
    <3> HIDE DEF old, p, First
    <3>4. /\ planes[n] \in Seq(Plane)
          /\ DOMAIN planes[n] = 1 .. Len(old) + 1 /\ Len(old) \in Nat /\ DOMAIN old = 1 .. Len(old)
          /\ \A k \in 1 .. Len(old) : planes[n][k] = old[k]
          /\ planes[n][Len(old) + 1] = p
      BY <3>1, AppendProperties, LenProperties
    <3>5. ToSet(planes[n]) = ToSet(old) \cup {p}
      BY <3>4 DEF ToSet
    <3> QED BY <3>2, <3>3, <3>4, <3>5
  <2> QED BY <2>2, <2>3
<1> HIDE DEF Good, First
<1>7. Good(N)
  <2>1. SUFFICES ASSUME Bad # {} PROVE FALSE
    BY <1>1
  <2>2. PICK n \in Bad : \A j \in Bad : n <= j
    <3>1. Bad \in SUBSET Nat
      BY <1>1
    <3> HIDE DEF Bad
    <3> QED BY <2>1, <3>1, LeastNat
  <2>3. n # 0
    BY <1>5, <2>2
  <2>4. n \in 1 .. N /\ n - 1 \in 0 .. N /\ n - 1 \notin Bad
    BY <1>1, <2>2, <2>3
  <2> QED BY <1>6, <2>2, <2>4
<1>8. First(N) = ToSet(ms)
  BY <1>1, LenProperties DEF First, ToSet
<1> QED BY <1>4, <1>7, <1>8 DEF Good

\* The speed found is that of some plane, and one is found if there is one.
LEMMA DescriptionProperties ==
  ASSUME NEW ms \in Seq(Response)
  PROVE  \/ /\ Description(ms) = <<>>
            /\ \A p \in PlanesIn(ToSet(ms)) : p.speed = Empty
         \/ \E p \in PlanesIn(ToSet(ms)) : p.speed # Empty /\ Description(ms) = <<p.speed>>
<1> DEFINE planes == ExtractPlanes(ms)
           found  == {i \in DOMAIN planes : planes[i].speed # Empty}
           k      == CHOOSE i \in found : \A j \in found : i <= j
<1>1. planes \in Seq(Plane) /\ ToSet(planes) = PlanesIn(ToSet(ms))
  BY ExtractPlanesProperties
<1>2. DOMAIN planes \subseteq Nat
  BY <1>1, LenProperties
<1>3. Description(ms) = IF found = {} THEN <<>> ELSE <<planes[k].speed>>
  BY DEF Description
<1> HIDE DEF planes
<1>4. CASE found = {}
  BY <1>1, <1>3, <1>4 DEF ToSet
<1>5. CASE found # {}
  <2>1. found \in SUBSET Nat
    BY <1>2
  <2> HIDE DEF found
  <2>2. k \in found
    BY <1>5, <2>1, LeastNat
  <2> USE DEF found
  <2>3. planes[k] \in ToSet(planes) /\ planes[k].speed # Empty
    BY <2>2 DEF ToSet
  <2> QED BY <1>1, <1>3, <1>5, <2>3
<1> QED BY <1>4, <1>5

-----------------------------------------------------------------------------
\* Sequences of answers and the sets of what is in them.

LEMMA AppendSet ==
  ASSUME NEW S, NEW s \in Seq(S), NEW x \in S
  PROVE  /\ Append(s, x) \in Seq(S)
         /\ ToSet(Append(s, x)) = ToSet(s) \cup {x}
         /\ DOMAIN Append(s, x) = 1 .. Len(s) + 1 /\ DOMAIN s = 1 .. Len(s) /\ Len(s) \in Nat
         /\ \A i \in 1 .. Len(s) : Append(s, x)[i] = s[i]
         /\ Append(s, x)[Len(s) + 1] = x
<1> DEFINE new == Append(s, x)
<1>1. /\ new \in Seq(S)
      /\ DOMAIN new = 1 .. Len(s) + 1 /\ DOMAIN s = 1 .. Len(s) /\ Len(s) \in Nat
      /\ \A i \in 1 .. Len(s) : new[i] = s[i]
      /\ new[Len(s) + 1] = x
  BY AppendProperties, LenProperties
<1> HIDE DEF new
<1>2. ToSet(new) = ToSet(s) \cup {x}
  BY <1>1 DEF ToSet
<1> QED BY <1>1, <1>2 DEF new

LEMMA TailSet ==
  ASSUME NEW S, NEW s \in Seq(S), s # <<>>
  PROVE  /\ Head(s) \in S /\ Head(s) = s[1] /\ Tail(s) \in Seq(S)
         /\ ToSet(s) = {Head(s)} \cup ToSet(Tail(s))
         /\ 1 \in DOMAIN s
         /\ \A i \in DOMAIN Tail(s) : i \in Nat /\ i + 1 \in DOMAIN s /\ Tail(s)[i] = s[i + 1]
<1> DEFINE t == Tail(s)
<1>1. /\ Head(s) \in S /\ Head(s) = s[1] /\ t \in Seq(S)
      /\ Len(t) = Len(s) - 1 /\ Len(s) \in Nat /\ Len(s) # 0
      /\ DOMAIN s = 1 .. Len(s) /\ DOMAIN t = 1 .. Len(t)
      /\ \A i \in 1 .. Len(t) : t[i] = s[i + 1]
  BY HeadTailProperties, LenProperties, EmptySeq
<1> HIDE DEF t
<1>2. ToSet(s) = {Head(s)} \cup ToSet(t)
  <2>1. ASSUME NEW i \in DOMAIN s
        PROVE  s[i] \in {Head(s)} \cup ToSet(t)
    <3>1. CASE i = 1
      BY <1>1, <3>1
    <3>2. CASE i # 1
      <4>1. i - 1 \in DOMAIN t /\ t[i - 1] = s[i]
        BY <1>1, <2>1, <3>2
      <4> QED BY <4>1 DEF ToSet
    <3> QED BY <3>1, <3>2
  <2>2. \A i \in DOMAIN t : t[i] \in ToSet(s)
    BY <1>1 DEF ToSet
  <2>3. Head(s) \in ToSet(s)
    BY <1>1 DEF ToSet
  <2> QED BY <2>1, <2>2, <2>3 DEF ToSet
<1>3. \A i \in DOMAIN t : i \in Nat /\ i + 1 \in DOMAIN s /\ t[i] = s[i + 1]
  BY <1>1
<1> QED BY <1>1, <1>2, <1>3 DEF t

\* A beginning of a sequence.
LEMMA FrontSet ==
  ASSUME NEW S, NEW s \in Seq(S), NEW k \in 0 .. Len(s)
  PROVE  /\ SubSeq(s, 1, k) \in Seq(S)
         /\ DOMAIN SubSeq(s, 1, k) \subseteq DOMAIN s
         /\ \A i \in DOMAIN SubSeq(s, 1, k) : SubSeq(s, 1, k)[i] = s[i]
         /\ ToSet(SubSeq(s, 1, k)) \subseteq ToSet(s)
<1> DEFINE t == SubSeq(s, 1, k)
<1>1. Len(s) \in Nat /\ DOMAIN s = 1 .. Len(s)
  BY LenProperties
<1>2. /\ t \in Seq(S) /\ Len(t) = IF 1 <= k THEN k - 1 + 1 ELSE 0
      /\ \A i \in 1 .. k - 1 + 1 : t[i] = s[1 + i - 1]
  <2>1. 1 \in 1 .. Len(s) + 1 /\ k \in 1 - 1 .. Len(s)
    BY <1>1
  <2> QED BY <2>1, SubSeqProperties
<1>3. DOMAIN t = 1 .. k
  BY <1>1, <1>2, LenProperties
<1> HIDE DEF t
<1>4. \A i \in DOMAIN t : i \in DOMAIN s /\ t[i] = s[i]
  BY <1>1, <1>2, <1>3
<1> QED BY <1>2, <1>4 DEF ToSet, t

\* Every plane found is in the answer, in some order.
LEMMA OrderProperties ==
  ASSUME NEW S, IsFiniteSet(S), NEW order \in SetToSeqs(S)
  PROVE  order \in Seq(S) /\ ToSet(order) = S
<1> DEFINE D == 1 .. Cardinality(S)
<1>1. Cardinality(S) \in Nat
  BY FS_CardinalityType
<1>2. order \in [D -> S] /\ \A i, j \in D : i # j => order[i] # order[j]
  BY DEF SetToSeqs
<1>3. order \in Injection(D, S)
  BY <1>2 DEF Injection, IsInjective
<1>4. Cardinality(D) = Cardinality(S)
  <2>1. Cardinality(D) = IF 1 > Cardinality(S) THEN 0 ELSE Cardinality(S) - 1 + 1
    BY <1>1, FS_Interval
  <2> QED BY <1>1, <2>1
<1>5. order \in Surjection(D, S)
  BY <1>3, <1>4, FS_Injection
<1>6. order \in Seq(S)
  BY <1>1, <1>2, SeqDef
<1> QED BY <1>2, <1>5, <1>6 DEF Surjection, ToSet

\* The entries that answer a search are of the planes found, and tell of each of them.
LEMMA EntriesProperties ==
  ASSUME NEW found \in Seq(Plane), command \in Request
  PROVE  /\ Entries(found) \in Seq(Response)
         /\ \A m \in ToSet(Entries(found)) : m.op = "entry" /\ IsFound(m, ToSet(found))
         /\ \A e \in ToSet(found) : \E m \in ToSet(Entries(found)) : Tells(m, e)
<1> DEFINE bare  == [i \in DOMAIN found |-> [name |-> Empty, speed |-> found[i].speed]]
           asked == IF command.op = "list" THEN <<Nothing>> \o found ELSE bare
<1>1. Len(found) \in Nat /\ DOMAIN found = 1 .. Len(found)
  BY LenProperties
<1>2. \A i \in DOMAIN found : found[i] \in Plane
  BY <1>1, ElementOfSeq
<1>3. Nothing \in Plane
  BY DEF Nothing, Plane
<1>4. /\ asked \in Seq(Plane)
      /\ \A i \in DOMAIN asked :
           IF command.op = "list" THEN asked[i] \in ToSet(found) \cup {Nothing}
           ELSE asked[i].name = Empty /\ \E e \in ToSet(found) : e.speed = asked[i].speed
      /\ \A e \in ToSet(found) : \E i \in DOMAIN asked :
           asked[i].speed = e.speed /\ (command.op = "list" => asked[i].name = e.name)
  <2>1. CASE command.op = "list"
    <3> DEFINE whole == <<Nothing>> \o found
    <3>1. <<Nothing>> \in Seq(Plane) /\ Len(<<Nothing>>) = 1 /\ <<Nothing>>[1] = Nothing
      BY <1>3
    <3>2. /\ whole \in Seq(Plane) /\ Len(whole) = 1 + Len(found)
          /\ \A i \in 1 .. 1 + Len(found) : whole[i] = IF i <= 1 THEN <<Nothing>>[i]
                                                       ELSE found[i - 1]
      BY <3>1, ConcatProperties
    <3>3. DOMAIN whole = 1 .. 1 + Len(found)
      BY <3>2, LenProperties
    <3>4. asked = whole
      BY <2>1
    <3> HIDE DEF whole, asked
    <3>5. \A i \in DOMAIN whole : whole[i] \in ToSet(found) \cup {Nothing}
      BY <1>1, <3>1, <3>2, <3>3 DEF ToSet
    <3>6. ASSUME NEW e \in ToSet(found)
          PROVE  \E i \in DOMAIN whole : whole[i] = e
      <4>1. PICK i \in DOMAIN found : found[i] = e
        BY DEF ToSet
      <4>2. i + 1 \in DOMAIN whole /\ whole[i + 1] = e
        BY <1>1, <3>2, <3>3, <4>1
      <4> QED BY <4>2
    <3> QED BY <2>1, <3>2, <3>4, <3>5, <3>6
  <2>2. CASE command.op # "list"
    <3>1. bare \in [1 .. Len(found) -> Plane]
      BY <1>1, <1>2 DEF Plane
    <3>2. bare \in Seq(Plane) /\ DOMAIN bare = DOMAIN found
      BY <1>1, <3>1, SeqDef
    <3>3. asked = bare
      BY <2>2
    <3>4. \A i \in DOMAIN bare : bare[i].name = Empty /\ bare[i].speed = found[i].speed
      OBVIOUS
    <3> HIDE DEF bare, asked
    <3> QED BY <2>2, <3>2, <3>3, <3>4 DEF ToSet
  <2> QED BY <2>1, <2>2
<1> DEFINE ms == [i \in DOMAIN asked |-> Answer("entry", FALSE, asked[i])]
<1>5. Entries(found) = ms
  BY DEF Entries
<1> HIDE DEF asked
<1>6. DOMAIN asked = 1 .. Len(asked) /\ Len(asked) \in Nat
      /\ \A i \in DOMAIN asked : asked[i] \in Plane
  BY <1>4, LenProperties, ElementOfSeq
<1>7. ms \in [1 .. Len(asked) -> Response]
  BY <1>6 DEF Answer, Response, Plane, Request
<1>8. ms \in Seq(Response)
  BY <1>6, <1>7, SeqDef
<1>9. \A i \in DOMAIN ms : /\ i \in DOMAIN asked /\ ms[i].op = "entry"
                           /\ ms[i].name = asked[i].name /\ ms[i].speed = asked[i].speed
                           /\ PlaneIn(ms[i]) = asked[i]
  BY <1>6 DEF Answer, PlaneIn, Plane
<1>10. DOMAIN ms = DOMAIN asked
  OBVIOUS
<1> HIDE DEF ms
<1>11. \A m \in ToSet(ms) : m.op = "entry" /\ IsFound(m, ToSet(found))
  <2> SUFFICES ASSUME NEW i \in DOMAIN ms
               PROVE  ms[i].op = "entry" /\ IsFound(ms[i], ToSet(found))
    BY DEF ToSet
  <2> QED BY <1>4, <1>9 DEF IsFound
<1>12. ASSUME NEW e \in ToSet(found)
       PROVE  \E m \in ToSet(ms) : Tells(m, e)
  <2>1. PICK i \in DOMAIN asked :
          asked[i].speed = e.speed /\ (command.op = "list" => asked[i].name = e.name)
    BY <1>4
  <2>2. ms[i] \in ToSet(ms) /\ Tells(ms[i], e)
    BY <1>9, <1>10, <2>1 DEF ToSet, Tells
  <2> QED BY <2>2
<1> QED BY <1>5, <1>8, <1>11, <1>12

-----------------------------------------------------------------------------
\* What main prints at the end of a command.

LEMMA ReportType ==
  ASSUME NEW ms \in Seq(Response), NEW ok \in BOOLEAN, command \in Request
  PROVE  /\ Report(ms, ok).says \in {"bound", "added", "deleted", "speed", "planes", "failed",
                                     "not found"}
         /\ Report(ms, ok).planes \in Seq(Plane)
         /\ Report(ms, ok).says \in {"speed", "not found", "planes"} => Searching
         /\ Report(ms, ok).says \in {"added", "deleted"} => ok /\ ~Searching
<1> DEFINE r == Report(ms, ok)
           Typed == /\ r.says \in {"bound", "added", "deleted", "speed", "planes", "failed",
                                  "not found"}
                    /\ r.planes \in Seq(Plane)
                    /\ r.says \in {"speed", "not found", "planes"} => Searching
                    /\ r.says \in {"added", "deleted"} => ok /\ ~Searching
<1> SUFFICES Typed
  OBVIOUS
<1> HIDE DEF r
<1>1. CASE command.op = "search"
  <2> DEFINE speed == Description(ms)
             found == [i \in DOMAIN speed |-> [name |-> command.name, speed |-> speed[i]]]
  <2>1. r = [says |-> IF speed = <<>> THEN "not found" ELSE "speed", planes |-> found]
    BY <1>1 DEF Report, r
  <2>2. found \in Seq(Plane)
    <3>1. CASE speed = <<>>
      BY <3>1, EmptySeq
    <3>2. CASE speed # <<>>
      <4>1. PICK p \in PlanesIn(ToSet(ms)) : speed = <<p.speed>>
        BY <3>2, DescriptionProperties
      <4>2. p \in Plane
        <5>1. ToSet(ms) \subseteq Response
          BY LenProperties, ElementOfSeq DEF ToSet
        <5> QED BY <5>1 DEF PlanesIn, PlaneIn, Plane, Response
      <4>3. found = [i \in 1 .. 1 |-> [name |-> command.name, speed |-> p.speed]]
        BY <4>1
      <4>4. found \in [1 .. 1 -> Plane]
        BY <4>2, <4>3 DEF Plane, Request
      <4> QED BY <4>4, SeqDef
    <3> QED BY <3>1, <3>2
  <2> HIDE DEF speed, found
  <2>3. r.says \in {"not found", "speed"} /\ r.planes = found
    BY <2>1
  <2> QED BY <1>1, <2>2, <2>3 DEF Searching
<1>2. CASE command.op = "list"
  <2>1. r = [says |-> "planes", planes |-> ExtractPlanes(ms)]
    BY <1>2 DEF Report, r
  <2> QED BY <1>2, <2>1, ExtractPlanesProperties DEF Searching
<1>3. CASE command.op \in {"bind", "add", "delete"}
  <2>1. r = [says |-> IF ok THEN Done[command.op] ELSE "failed", planes |-> <<>>]
    BY <1>3 DEF Report, r
  <2>2. /\ r.says \in {"failed", "bound", "added", "deleted"}
        /\ r.says \in {"added", "deleted"} => ok
        /\ r.planes = <<>>
    BY <1>3, <2>1 DEF Done
  <2> QED BY <1>3, <2>2, EmptySeq DEF Searching
<1> QED BY <1>1, <1>2, <1>3 DEF Request

\* What a search or a list should print, and what it does when every answer is of a plane
\* found: a part of that, and all of it when the answers tell of every plane found.
Had == {e \in served.entries : command.op = "list" \/ e.speed # Empty}

LEMMA ReportIsTrue ==
  ASSUME NEW ms \in Seq(Response), NEW ok \in BOOLEAN, LdapInv, Searching,
         \A m \in ToSet(ms) : m.op = "entry" => IsFound(m, served.entries)
  PROVE  /\ ToSet(Report(ms, ok).planes) \subseteq Had
         /\ (\A e \in served.entries : \E m \in ToSet(ms) : Tells(m, e))
              => ToSet(Report(ms, ok).planes) = Had
<1> DEFINE shown == ToSet(Report(ms, ok).planes)
           told  == \A e \in served.entries : \E m \in ToSet(ms) : Tells(m, e)
<1>1. /\ ToSet(ms) \subseteq Response /\ served.entries \subseteq Plane
      /\ \A e, g \in served.entries : e.name = g.name => e = g
      /\ \A e \in served.entries :
           e.name # Empty /\ (command.op = "search" => e.name = command.name)
  <2>1. ToSet(ms) \subseteq Response
    BY LenProperties, ElementOfSeq DEF ToSet
  <2> QED BY <2>1 DEF LdapInv, TypeOK, ServedInv
<1>2. CASE command.op = "list"
  <2>1. shown = PlanesIn(ToSet(ms))
    BY <1>2, ExtractPlanesProperties DEF Report
  <2>2. Had = served.entries
    BY <1>2 DEF Had
  <2>3. ASSUME NEW p \in PlanesIn(ToSet(ms))
        PROVE  p \in served.entries
    <3>1. PICK m \in ToSet(ms) : IsPlane(m) /\ p = PlaneIn(m)
      BY DEF PlanesIn
    <3>2. p # Nothing /\ m.op = "entry"
      BY <3>1 DEF IsPlane, PlaneIn, Nothing
    <3> QED BY <1>2, <3>1, <3>2 DEF IsFound
  <2>4. ASSUME told, NEW e \in served.entries
        PROVE  e \in PlanesIn(ToSet(ms))
    <3>1. PICK m \in ToSet(ms) : Tells(m, e)
      BY <2>4
    <3>2. IsPlane(m)
      BY <1>1, <1>2, <3>1 DEF Tells, IsPlane
    <3>3. PlaneIn(m) = e
      BY <1>1, <1>2, <3>1 DEF Tells, PlaneIn, Plane
    <3> QED BY <3>2, <3>3 DEF PlanesIn
  <2> HIDE DEF shown
  <2>5. shown \subseteq Had
    BY <2>1, <2>2, <2>3
  <2>6. told => shown = Had
    BY <2>1, <2>2, <2>4, <2>5
  <2> QED BY <2>5, <2>6 DEF shown
<1>3. CASE command.op = "search"
  <2> DEFINE speed == Description(ms)
             found == [i \in DOMAIN speed |-> [name |-> command.name, speed |-> speed[i]]]
  <2>1. shown = ToSet(found)
    BY <1>3 DEF Report
  <2>2. \A e \in served.entries : e \in Had <=> e.speed # Empty
    BY <1>3 DEF Had
  <2>3. CASE /\ speed = <<>>
             /\ \A p \in PlanesIn(ToSet(ms)) : p.speed = Empty
    <3>1. shown = {}
      <4>1. DOMAIN found = {}
        BY <2>3
      <4> HIDE DEF found, shown
      <4> QED BY <2>1, <4>1 DEF ToSet
    <3>2. ASSUME told, NEW e \in Had
          PROVE  FALSE
      <4>1. e \in served.entries /\ e.speed # Empty
        BY <1>3 DEF Had
      <4>2. PICK m \in ToSet(ms) : Tells(m, e)
        BY <3>2, <4>1
      <4>3. PlaneIn(m) \in PlanesIn(ToSet(ms)) /\ PlaneIn(m).speed # Empty
        BY <4>1, <4>2 DEF Tells, IsPlane, PlaneIn, PlanesIn
      <4> QED BY <2>3, <4>3
    <3> HIDE DEF shown
    <3>3. told => shown = Had
      BY <3>1, <3>2
    <3> QED BY <3>1, <3>3 DEF shown
  <2>4. CASE \E p \in PlanesIn(ToSet(ms)) : p.speed # Empty /\ speed = <<p.speed>>
    <3>1. PICK p \in PlanesIn(ToSet(ms)) : p.speed # Empty /\ speed = <<p.speed>>
      BY <2>4
    <3>2. PICK m \in ToSet(ms) : IsPlane(m) /\ p = PlaneIn(m)
      BY DEF PlanesIn
    <3>3. PICK e \in served.entries : e.speed = p.speed
      BY <1>3, <3>2 DEF IsFound, IsPlane, PlaneIn
    <3>4. e = [name |-> command.name, speed |-> p.speed]
      BY <1>1, <1>3, <3>3 DEF Plane
    <3>5. shown = {e}
      BY <2>1, <3>1, <3>4 DEF ToSet
    <3>6. Had = {e}
      BY <1>1, <1>3, <2>2, <3>1, <3>3 DEF Had
    <3> HIDE DEF shown
    <3>7. shown = Had
      BY <3>5, <3>6
    <3> QED BY <3>7 DEF shown
  <2> QED BY <2>3, <2>4, DescriptionProperties
<1> QED BY <1>2, <1>3 DEF Searching

-----------------------------------------------------------------------------
\* The steps.

LEMMA InitInv == Init => LdapInv
<1> SUFFICES ASSUME Init PROVE LdapInv
  OBVIOUS
<1>1. combined = <<>> /\ responses = <<>> /\ report.planes = <<>>
  BY DEF Init
<1>2. TypeOK
  <2>1. 0 \in Ids /\ 1 \in Ids
    BY LdapAssumption DEF Ids
  <2>2. command \in Request
    BY <2>1 DEF Init, Request
  <2>3. combined \in Seq(Response) /\ responses \in Seq(Response) /\ report.planes \in Seq(Plane)
    BY <1>1, EmptySeq
  <2>4. report.says = "none"
    BY DEF Init
  <2>5. served.ok = FALSE /\ served.entries = {}
    BY DEF Init, NotServed
  <2>6. choice \in 0 .. 6
    BY DEF Init
  <2> QED BY <2>1, <2>2, <2>3, <2>4, <2>5, <2>6 DEF Init, TypeOK
<1>3. LinkInv
  BY <1>1 DEF Init, LinkInv
<1>4. AwaitInv /\ ServedInv /\ SuccessIsTrue /\ ReportsAreWhole
  BY DEF Init, AwaitInv, ServedInv, NotServed, SuccessIsTrue, ReportsAreWhole
<1> QED BY <1>2, <1>3, <1>4 DEF LdapInv

\* A request.  All that can be on its way from the time before it is the notice.
LEMMA SendStep ==
  ASSUME LdapInv, pc \in {"start", "menu"},
         NEW op \in {"bind", "search", "add", "delete", "list"},
         NEW name \in Planes \cup {Empty}, NEW speed \in Speeds \cup {Empty},
         Send(op, name, speed), cin' \in {"good", "failed"}, choice' \in 0 .. 6
  PROVE  LdapInv'
<1> USE DEF LdapInv
<1>1. nextMessageId' \in Ids
  <2>1. nextMessageId \in Ids /\ nextMessageId' = NextId(nextMessageId)
    BY DEF TypeOK, Send
  <2>2. nextMessageId \in Nat /\ Byte \in Nat \ {0}
    BY <2>1, LdapAssumption DEF Ids
  <2> QED BY <2>1, <2>2 DEF NextId, Ids
<1>2. CASE link = "broken"
  <2>1. /\ pc' = "killed"
        /\ UNCHANGED <<command, combined, report, link, sent, responses, served>>
    BY <1>2 DEF Send, server
  <2>2. TypeOK'
    BY <1>1, <2>1 DEF TypeOK
  <2>3. LinkInv'
    BY <1>2, <2>1 DEF LinkInv, Searching
  <2>4. (AwaitInv /\ ServedInv /\ SuccessIsTrue /\ ReportsAreWhole)'
    BY <2>1 DEF AwaitInv, ServedInv, SuccessIsTrue, ReportsAreWhole
  <2> QED BY <2>2, <2>3, <2>4
<1>3. CASE link # "broken"
  <2>1. /\ pc' = "await" /\ combined' = <<>>
        /\ command' = [op |-> op, id |-> nextMessageId, name |-> name, speed |-> speed]
        /\ served' = NotServed /\ sent' = (link = "open")
        /\ link' = IF link = "open" THEN link ELSE "broken"
        /\ UNCHANGED <<responses, report>>
    BY <1>3 DEF Send
  <2>2. /\ \A i \in DOMAIN responses : responses[i] = Notice
        /\ link = "open" => \A i \in DOMAIN responses : responses[i] # Notice
    BY DEF LinkInv
  <2>3. link = "open" => responses = <<>>
    <3>1. responses \in Seq(Response)
      BY DEF TypeOK
    <3>2. link = "open" => DOMAIN responses = {}
      BY <2>2
    <3>3. responses # <<>> => 1 \in DOMAIN responses
      BY <3>1, TailSet
    <3> QED BY <3>2, <3>3
  <2>4. TypeOK'
    <3>1. command' \in Request
      BY <2>1 DEF Request, TypeOK
    <3>2. combined' \in Seq(Response)
      BY <2>1, EmptySeq
    <3>3. served'.ok \in BOOLEAN /\ served'.entries \subseteq Plane
      BY <2>1 DEF NotServed
    <3> QED BY <1>1, <2>1, <3>1, <3>2, <3>3 DEF TypeOK
  <2>5. LinkInv'
    <3>1. link' = "open" <=> link = "open"
      BY <2>1
    <3> QED BY <2>1, <2>2, <2>3, <3>1 DEF LinkInv
  <2>6. \A m \in Answers' : m = Notice
    BY <2>1, <2>2 DEF Answers, ToSet
  <2>7. AwaitInv'
    BY <2>1, <2>6 DEF AwaitInv, Notice, NotServed
  <2>8. (ServedInv /\ SuccessIsTrue /\ ReportsAreWhole)'
    BY <2>1 DEF ServedInv, NotServed, SuccessIsTrue, ReportsAreWhole
  <2> QED BY <2>4, <2>5, <2>7, <2>8
<1> QED BY <1>2, <1>3

\* The end of a command, of which ms are the answers taken.
LEMMA FinishStep ==
  ASSUME LdapInv, pc = "await", NEW ms \in Seq(Response), NEW ok \in BOOLEAN,
         Finish(ms, ok), ToSet(ms) \subseteq Answers,
         ok /\ ~Searching => served.ok,
         link = "open" => \A m \in Answers : m.op = "entry" => m \in ToSet(ms),
         responses' \in Seq(Response), \A i \in DOMAIN responses' : responses'[i] = Notice,
         link = "open" => \A i \in DOMAIN responses' : responses'[i] # Notice,
         link' = link \/ (link # "open" /\ link' = "broken"),
         UNCHANGED <<cin, choice, nextMessageId, command, served>>, sent' = FALSE
  PROVE  LdapInv'
<1> USE DEF LdapInv
<1>1. command \in Request
  BY DEF TypeOK
<1>2. pc' \in {"menu", "exit"} /\ combined' = <<>> /\ report' = Report(ms, ok)
  BY DEF Finish
<1>3. TypeOK'
  <2>1. /\ report'.says \in {"bound", "added", "deleted", "speed", "planes", "failed", "not found"}
        /\ report'.planes \in Seq(Plane)
    BY <1>1, <1>2, ReportType
  <2>2. combined' \in Seq(Response)
    BY <1>2, EmptySeq
  <2> QED BY <1>2, <2>1, <2>2 DEF TypeOK
<1>4. LinkInv'
  BY DEF LinkInv
<1>5. AwaitInv' /\ ServedInv'
  BY <1>2 DEF AwaitInv, ServedInv
<1>6. SuccessIsTrue'
  BY <1>1, <1>2, ReportType DEF SuccessIsTrue
<1>7. ReportsAreWhole'
  <2> SUFFICES ASSUME report'.says \in {"speed", "not found", "planes"}
               PROVE  /\ ToSet(report'.planes) \subseteq Had
                      /\ link = "open" => ToSet(report'.planes) = Had
    BY DEF ReportsAreWhole, Had
  <2>1. Searching
    BY <1>1, <1>2, ReportType
  <2>2. \A m \in ToSet(ms) : m.op = "entry" => IsFound(m, served.entries)
    BY <2>1 DEF AwaitInv
  <2>3. link = "open" => \A e \in served.entries : \E m \in ToSet(ms) : Tells(m, e)
    BY <2>1 DEF AwaitInv, Tells
  <2> QED BY <1>2, <2>1, <2>2, <2>3, ReportIsTrue
<1> QED BY <1>3, <1>4, <1>5, <1>6, <1>7

LEMMA ReceivePacketStep ==
  ASSUME LdapInv, ReceivePacket
  PROVE  LdapInv'
<1> USE DEF LdapInv
<1> DEFINE m   == Head(responses)
           all == Append(combined, m)
<1>1. /\ pc = "await" /\ responses # <<>> /\ responses' = Tail(responses)
      /\ combined \in Seq(Response) /\ responses \in Seq(Response)
      /\ UNCHANGED <<cin, choice, nextMessageId, command, link, sent, served>>
  BY DEF ReceivePacket, TypeOK
<1>2. /\ m \in Response /\ m = responses[1] /\ responses' \in Seq(Response)
      /\ ToSet(responses) = {m} \cup ToSet(responses') /\ 1 \in DOMAIN responses
      /\ \A i \in DOMAIN responses' :
           i \in Nat /\ i + 1 \in DOMAIN responses /\ responses'[i] = responses[i + 1]
  BY <1>1, TailSet
<1>3. all \in Seq(Response) /\ ToSet(all) = ToSet(combined) \cup {m}
  BY <1>1, <1>2, AppendSet
<1>4. DOMAIN responses' \subseteq Nat \ {0}
  BY <1>2, LenProperties
<1>5. sent' = FALSE
  <2>1. sent \in BOOLEAN
    BY DEF TypeOK
  <2> QED BY <1>1, <2>1 DEF LinkInv
<1>6. CASE Searching /\ ~IsDone(m)
  <2>1. combined' = all /\ UNCHANGED <<pc, report>>
    BY <1>6 DEF ReceivePacket
  <2>2. Answers' = Answers
    BY <1>2, <1>3, <2>1 DEF Answers
  <2>3. TypeOK'
    BY <1>1, <1>2, <1>3, <2>1 DEF TypeOK
  <2>4. LinkInv'
    <3>1. ASSUME NEW i \in DOMAIN responses', NEW j \in DOMAIN responses', i < j,
                 Searching => IsDone(responses'[i])
          PROVE  responses'[j] = Notice
      <4>1. i + 1 < j + 1
        BY <1>4, <3>1
      <4> QED BY <1>2, <3>1, <4>1 DEF LinkInv
    <3> QED BY <1>1, <1>2, <1>5, <2>1, <3>1 DEF LinkInv, Searching
  <2>5. AwaitInv'
    BY <1>1, <2>1, <2>2 DEF AwaitInv, Searching, IsFound, Tells
  <2>6. (ServedInv /\ SuccessIsTrue /\ ReportsAreWhole)'
    BY <1>1, <2>1 DEF ServedInv, SuccessIsTrue, ReportsAreWhole
  <2> QED BY <2>3, <2>4, <2>5, <2>6
<1>7. CASE ~(Searching /\ ~IsDone(m))
  <2> DEFINE ok == m.ok
  <2>1. Finish(all, ok) /\ ok \in BOOLEAN
    BY <1>2, <1>7 DEF ReceivePacket, Response
  <2>2. \A i \in DOMAIN responses' : responses'[i] = Notice
    <3> SUFFICES ASSUME NEW i \in DOMAIN responses'
                 PROVE  responses[i + 1] = Notice
      BY <1>2
    <3>1. 1 < i + 1
      BY <1>4
    <3> QED BY <1>2, <1>7, <3>1 DEF LinkInv
  <2>3. link = "open" => \A i \in DOMAIN responses' : responses'[i] # Notice
    BY <1>2 DEF LinkInv
  <2>4. link = "open" => \A n \in Answers : n.op = "entry" => n \in ToSet(all)
    <3>1. \A n \in ToSet(responses') : n = Notice
      BY <2>2 DEF ToSet
    <3> QED BY <1>2, <1>3, <3>1 DEF Answers, Notice
  <2>5. ToSet(all) \subseteq Answers
    BY <1>2, <1>3 DEF Answers
  <2>6. ok /\ ~Searching => served.ok
    BY <1>1, <1>2 DEF AwaitInv, Answers
  <2> HIDE DEF all, ok
  <2> QED BY <1>1, <1>2, <1>3, <1>5, <2>1, <2>2, <2>3, <2>4, <2>5, <2>6, FinishStep
<1> QED BY <1>6, <1>7

LEMMA ReceiveNothingStep ==
  ASSUME LdapInv, ReceiveNothing
  PROVE  LdapInv'
<1> USE DEF LdapInv
<1>1. /\ pc = "await" /\ responses = <<>> /\ link # "open" /\ Finish(combined, FALSE)
      /\ combined \in Seq(Response)
      /\ link' = link \/ link' = "broken"
      /\ UNCHANGED <<cin, choice, nextMessageId, command, sent, responses, served>>
  BY DEF ReceiveNothing, TypeOK
<1>2. sent' = FALSE
  BY <1>1 DEF LinkInv, TypeOK
<1>3. ToSet(combined) \subseteq Answers
  BY DEF Answers
<1>4. responses' \in Seq(Response) /\ \A i \in DOMAIN responses' : responses'[i] = Notice
  BY <1>1, EmptySeq
<1> QED BY <1>1, <1>2, <1>3, <1>4, FinishStep

LEMMA QuietStep ==
  ASSUME LdapInv, ConnectFails \/ Invalid \/ Exit \/ UNCHANGED vars
  PROVE  LdapInv'
<1> USE DEF LdapInv
<1>1. /\ UNCHANGED <<nextMessageId, command, combined, link, sent, responses, served>>
      /\ pc' = pc \/ (pc # "await" /\ pc' = "exit")
      /\ cin' \in {"good", "failed"} /\ choice' \in 0 .. 6
      /\ report' = report \/ report' = [says |-> "invalid", planes |-> <<>>]
  <2>1. CASE ConnectFails
    BY <2>1 DEF ConnectFails, server, TypeOK
  <2>2. CASE Invalid
    <3>1. cin' \in {"good", "failed"}
      BY <2>2 DEF Invalid
    <3>2. choice' \in {0, 6}
      BY <2>2 DEF Invalid
    <3>3. choice' \in 0 .. 6
      BY <3>2
    <3> QED BY <2>2, <3>1, <3>3 DEF Invalid, server
  <2>3. CASE Exit
    <3>1. choice' \in 0 .. 6
      BY <2>3 DEF Exit
    <3> QED BY <2>3, <3>1 DEF Exit, server, TypeOK
  <2>4. CASE UNCHANGED vars
    BY <2>4 DEF vars, TypeOK
  <2> QED BY <2>1, <2>2, <2>3, <2>4
<1>2. /\ report'.planes \in Seq(Plane)
      /\ report' = report \/ report'.says = "invalid"
  <2>1. CASE report' = report
    BY <2>1 DEF TypeOK
  <2>2. CASE report' = [says |-> "invalid", planes |-> <<>>]
    <3>1. report'.planes = <<>> /\ report'.says = "invalid"
      BY <2>2
    <3> QED BY <3>1, EmptySeq
  <2> QED BY <1>1, <2>1, <2>2
<1>3. TypeOK'
  BY <1>1, <1>2 DEF TypeOK
<1>4. LinkInv' /\ AwaitInv' /\ ServedInv'
  BY <1>1 DEF LinkInv, AwaitInv, ServedInv, Answers, Searching, IsFound, Tells
<1>5. SuccessIsTrue' /\ ReportsAreWhole'
  BY <1>1, <1>2 DEF SuccessIsTrue, ReportsAreWhole
<1> QED BY <1>3, <1>4, <1>5

\* The planes found are one for each name that the directory has, and are finitely many.
LEMMA FoundProperties ==
  ASSUME NEW dir \in [Planes -> Speeds \cup {Empty, NoEntry}], NEW found,
         found = {e \in EntriesOf(dir) : command.op = "list" \/ e.name = command.name}
  PROVE  /\ IsFiniteSet(found) /\ found \subseteq Plane
         /\ \A e, g \in found : e.name = g.name => e = g
         /\ \A e \in found : e.name # Empty /\ (command.op = "search" => e.name = command.name)
<1> DEFINE named == {q \in Planes : dir[q] # NoEntry}
<1>1. IsFiniteSet(named)
  BY LdapAssumption, FS_Subset
<1>2. IsFiniteSet({[name |-> p, speed |-> dir[p]] : p \in named})
  <2> DEFINE entry == [p \in named |-> [name |-> p, speed |-> dir[p]]]
             all   == {[name |-> p, speed |-> dir[p]] : p \in named}
  <2>1. entry \in Surjection(named, all)
    BY DEF Surjection
  <2> HIDE DEF named, all
  <2> QED BY <1>1, <2>1, FS_Surjection DEF all
<1>3. IsFiniteSet(found)
  <2>1. found \subseteq EntriesOf(dir)
    OBVIOUS
  <2> QED BY <1>2, <2>1, FS_Subset DEF EntriesOf
<1>4. \A e \in found : \E p \in Planes :
        dir[p] # NoEntry /\ e = [name |-> p, speed |-> dir[p]]
  BY DEF EntriesOf
<1>5. found \subseteq Plane
  BY <1>4 DEF Plane
<1>6. \A e \in found : e.name \in Planes /\ e = [name |-> e.name, speed |-> dir[e.name]]
  BY <1>4
<1>7. \A e \in found : e.name # Empty
  BY <1>6, LdapAssumption
<1> QED BY <1>3, <1>5, <1>6, <1>7

LEMMA ServeStep ==
  ASSUME LdapInv, Serve
  PROVE  LdapInv'
<1> USE DEF LdapInv
<1>1. /\ sent /\ sent' = FALSE /\ pc = "await" /\ link = "open"
      /\ combined = <<>> /\ responses = <<>>
      /\ UNCHANGED <<pc, cin, choice, nextMessageId, command, combined, report, link>>
      /\ command \in Request
  BY DEF Serve, main, LinkInv, TypeOK
<1>2. PICK dir \in [Planes -> Speeds \cup {Empty, NoEntry}], ok \in BOOLEAN :
        LET found == {e \in EntriesOf(dir) : command.op = "list" \/ e.name = command.name}
        IN  \E given \in SUBSET found :
              /\ \E order \in SetToSeqs(given) : responses' = responses \o
                   CASE Searching /\ (ok \/ given # {}) ->
                            Entries(order) \o <<Answer("done", ok, Nothing)>>
                       [] Searching /\ ~ok /\ given = {} -> <<Answer("done", FALSE, Nothing)>>
                       [] ~Searching -> <<Answer(command.op, ok, Nothing)>>
              /\ served' = [ok |-> ok, entries |-> IF Searching THEN given ELSE {}]
  BY DEF Serve
<1> DEFINE found == {e \in EntriesOf(dir) : command.op = "list" \/ e.name = command.name}
<1>2a. PICK given \in SUBSET found :
        /\ \E order \in SetToSeqs(given) : responses' = responses \o
             CASE Searching /\ (ok \/ given # {}) ->
                    Entries(order) \o <<Answer("done", ok, Nothing)>>
               [] Searching /\ ~ok /\ given = {} -> <<Answer("done", FALSE, Nothing)>>
               [] ~Searching -> <<Answer(command.op, ok, Nothing)>>
        /\ served' = [ok |-> ok, entries |-> IF Searching THEN given ELSE {}]
  BY <1>2
<1>3. PICK order \in SetToSeqs(given) : responses' = responses \o
        CASE Searching /\ (ok \/ given # {}) -> Entries(order) \o <<Answer("done", ok, Nothing)>>
          [] Searching /\ ~ok /\ given = {} -> <<Answer("done", FALSE, Nothing)>>
          [] ~Searching -> <<Answer(command.op, ok, Nothing)>>
  BY <1>2a
<1>4. served' = [ok |-> ok, entries |-> IF Searching THEN given ELSE {}]
  BY <1>2a
<1>5. /\ IsFiniteSet(given) /\ given \subseteq Plane
      /\ \A e, g \in given : e.name = g.name => e = g
      /\ \A e \in given : e.name # Empty /\ (command.op = "search" => e.name = command.name)
  <2>1. /\ IsFiniteSet(found) /\ found \subseteq Plane
        /\ \A e, g \in found : e.name = g.name => e = g
        /\ \A e \in found : e.name # Empty /\ (command.op = "search" => e.name = command.name)
    BY FoundProperties
  <2> HIDE DEF found
  <2>2. given \subseteq found
    OBVIOUS
  <2>3. IsFiniteSet(given)
    BY <2>1, <2>2, FS_Subset
  <2> QED BY <2>1, <2>2, <2>3
<1> HIDE DEF found
<1>6. order \in Seq(Plane) /\ ToSet(order) = given
  <2>1. order \in Seq(given) /\ ToSet(order) = given
    BY <1>5, OrderProperties
  <2>2. \A i \in 1 .. Len(order) : order[i] \in Plane
    BY <1>5, <2>1, ElementOfSeq
  <2> QED BY <1>5, <2>1, <2>2, SeqMonotonic
<1>7. ServedInv' /\ served'.ok = ok /\ served'.entries \subseteq Plane
  BY <1>1, <1>4, <1>5 DEF ServedInv
<1>8. SUFFICES /\ responses' \in Seq(Response)
               /\ \A m \in ToSet(responses') : m # Notice
               /\ ~Searching => \A m \in ToSet(responses') : m.ok => ok
               /\ Searching =>
                    /\ \A m \in ToSet(responses') : m.op = "entry" => IsFound(m, served'.entries)
                    /\ \A e \in served'.entries : \E m \in ToSet(responses') : Tells(m, e)
               /\ \A i, j \in DOMAIN responses' : i < j => Searching /\ ~IsDone(responses'[i])
  <2>1. TypeOK'
    BY <1>1, <1>7, <1>8 DEF TypeOK
  <2>2. LinkInv'
    <3>1. \A i \in DOMAIN responses' : responses'[i] \in ToSet(responses')
      BY DEF ToSet
    <3> QED BY <1>1, <1>8, <3>1 DEF LinkInv, Searching
  <2>3. Answers' = ToSet(responses')
    BY <1>1 DEF Answers, ToSet
  <2>4. AwaitInv'
    BY <1>1, <1>7, <1>8, <2>3 DEF AwaitInv, Searching, IsFound, Tells
  <2>5. SuccessIsTrue' /\ ReportsAreWhole'
    BY <1>1 DEF SuccessIsTrue, ReportsAreWhole
  <2> QED BY <1>7, <2>1, <2>2, <2>4, <2>5
<1>9. ASSUME NEW m, m \in Response, m # Notice, m.op # "entry", responses' = <<m>>,
             ~Searching => (m.ok => ok), Searching => given = {}
      PROVE  /\ responses' \in Seq(Response) /\ ToSet(responses') = {m}
             /\ \A i, j \in DOMAIN responses' : ~(i < j)
  BY <1>9 DEF ToSet
<1>10. \A op \in {"bind", "add", "delete", "done"}, b \in BOOLEAN :
         /\ Answer(op, b, Nothing) \in Response /\ Answer(op, b, Nothing) # Notice
         /\ Answer(op, b, Nothing).op = op /\ Answer(op, b, Nothing).ok = b
  BY <1>1 DEF Answer, Nothing, Notice, Response, Request
<1>11. CASE ~Searching
  <2> DEFINE m == Answer(command.op, ok, Nothing)
  <2>1. command.op \in {"bind", "add", "delete"}
    BY <1>1, <1>11 DEF Request, Searching
  <2>2. m \in Response /\ m # Notice /\ m.op # "entry" /\ m.ok = ok
    BY <1>10, <2>1
  <2> HIDE DEF m
  <2>3. responses' = <<m>>
    <3>1. responses' = responses \o <<m>>
      BY <1>3, <1>11 DEF m
    <3>2. <<m>> \in Seq(Response)
      BY <2>2
    <3> QED BY <1>1, <3>1, <3>2, ConcatEmptySeq
  <2> QED BY <1>9, <1>11, <2>2, <2>3
<1>12. CASE Searching /\ ~(ok \/ given # {})
  <2> DEFINE m == Answer("done", FALSE, Nothing)
  <2>1. m \in Response /\ m # Notice /\ m.op # "entry"
    BY <1>10
  <2> HIDE DEF m
  <2>2. responses' = <<m>>
    <3>1. responses' = responses \o <<m>>
      BY <1>3, <1>12 DEF m
    <3>2. <<m>> \in Seq(Response)
      BY <2>1
    <3> QED BY <1>1, <3>1, <3>2, ConcatEmptySeq
  <2>3. served'.entries = {}
    BY <1>4, <1>12
  <2> QED BY <1>9, <1>12, <2>1, <2>2, <2>3
<1>13. CASE Searching /\ (ok \/ given # {})
  <2> DEFINE m  == Answer("done", ok, Nothing)
             es == Entries(order)
  <2>1. m \in Response /\ m # Notice /\ m.op = "done"
    BY <1>10
  <2>2. /\ es \in Seq(Response)
        /\ \A n \in ToSet(es) : n.op = "entry" /\ IsFound(n, given)
        /\ \A e \in given : \E n \in ToSet(es) : Tells(n, e)
    BY <1>1, <1>6, EntriesProperties
  <2> HIDE DEF m, es
  <2>3. responses' = Append(es, m)
    <3>1. responses' = responses \o (es \o <<m>>)
      BY <1>3, <1>13 DEF m, es
    <3>2. es \o <<m>> = Append(es, m)
      BY <2>1, <2>2, AppendIsConcat
    <3>3. Append(es, m) \in Seq(Response)
      BY <2>1, <2>2
    <3> QED BY <1>1, <3>1, <3>2, <3>3, ConcatEmptySeq
  <2>4. /\ responses' \in Seq(Response) /\ ToSet(responses') = ToSet(es) \cup {m}
        /\ DOMAIN responses' = 1 .. Len(es) + 1 /\ Len(es) \in Nat /\ DOMAIN es = 1 .. Len(es)
        /\ \A i \in 1 .. Len(es) : responses'[i] = es[i]
    BY <2>1, <2>2, <2>3, AppendSet
  <2>5. \A n \in ToSet(es) : n # Notice
    BY <2>2 DEF Notice
  <2>6. served'.entries = given
    BY <1>4, <1>13
  <2>7. ASSUME NEW i \in DOMAIN responses', NEW j \in DOMAIN responses', i < j
        PROVE  ~IsDone(responses'[i])
    <3>1. i \in DOMAIN es /\ responses'[i] = es[i]
      BY <2>4, <2>7
    <3> QED BY <2>2, <3>1 DEF ToSet, IsDone
  <2> QED BY <1>13, <2>1, <2>2, <2>4, <2>5, <2>6, <2>7
<1> QED BY <1>11, <1>12, <1>13

LEMMA DisconnectStep ==
  ASSUME LdapInv, Disconnect
  PROVE  LdapInv'
<1> USE DEF LdapInv
<1>1. /\ sent /\ sent' = FALSE /\ link' = "closed" /\ pc = "await"
      /\ combined = <<>> /\ responses = <<>> /\ responses' = Append(responses, Notice)
      /\ UNCHANGED <<pc, cin, choice, nextMessageId, command, combined, report, served>>
  BY DEF Disconnect, main, LinkInv
<1>2. Notice \in Response /\ Notice.op # "entry" /\ Notice.ok = FALSE
  BY LdapAssumption DEF Notice, Response, Ids
<1>3. responses' = <<Notice>>
  BY <1>1
<1>4. /\ responses' \in Seq(Response)
      /\ \A i \in DOMAIN responses' : responses'[i] = Notice
  BY <1>2, <1>3
<1>5. \A m \in Answers' : m = Notice
  BY <1>1, <1>4 DEF Answers, ToSet
<1>6. TypeOK'
  BY <1>1, <1>4 DEF TypeOK
<1>7. LinkInv'
  BY <1>1, <1>4 DEF LinkInv
<1>8. AwaitInv'
  BY <1>1, <1>2, <1>5 DEF AwaitInv
<1>9. (ServedInv /\ SuccessIsTrue /\ ReportsAreWhole)'
  BY <1>1 DEF ServedInv, SuccessIsTrue, ReportsAreWhole
<1> QED BY <1>6, <1>7, <1>8, <1>9

LEMMA CloseStep ==
  ASSUME LdapInv, Close
  PROVE  LdapInv'
<1> USE DEF LdapInv
<1>1. /\ link = "open" /\ link' \in {"closed", "reset"} /\ sent' = FALSE
      /\ responses \in Seq(Response) /\ combined \in Seq(Response)
      /\ UNCHANGED <<pc, cin, choice, nextMessageId, command, combined, report, served>>
  BY DEF Close, main, TypeOK
<1>2. Notice \in Response /\ Notice.op # "entry" /\ Notice.ok = FALSE
  BY LdapAssumption DEF Notice, Response, Ids
<1>3. /\ responses' \in Seq(Response)
      /\ DOMAIN responses' \subseteq Nat
      /\ ToSet(responses') \subseteq ToSet(responses) \cup {Notice}
      /\ \A i \in DOMAIN responses' :
           responses'[i] = Notice \/ (i \in DOMAIN responses /\ responses'[i] = responses[i])
      /\ \A i, j \in DOMAIN responses' : i < j => i \in DOMAIN responses /\ responses'[i] = responses[i]
  <2>1. CASE \E k \in 0 .. Len(responses) : responses' = SubSeq(responses, 1, k)
    <3>1. PICK k \in 0 .. Len(responses) : responses' = SubSeq(responses, 1, k)
      BY <2>1
    <3> QED BY <1>1, <3>1, FrontSet, LenProperties
  <2>2. CASE responses' = Append(responses, Notice)
    <3>1. /\ responses' \in Seq(Response)
          /\ ToSet(responses') = ToSet(responses) \cup {Notice}
          /\ DOMAIN responses' = 1 .. Len(responses) + 1
          /\ DOMAIN responses = 1 .. Len(responses) /\ Len(responses) \in Nat
          /\ \A i \in 1 .. Len(responses) : responses'[i] = responses[i]
          /\ responses'[Len(responses) + 1] = Notice
      BY <1>1, <1>2, <2>2, AppendSet
    <3> QED BY <3>1
  <2> QED BY <2>1, <2>2 DEF Close
<1>4. TypeOK'
  BY <1>1, <1>3 DEF TypeOK
<1>5. LinkInv'
  BY <1>1, <1>3 DEF LinkInv, Searching
<1>6. AwaitInv'
  <2>1. Answers' \subseteq Answers \cup {Notice}
    BY <1>1, <1>3 DEF Answers
  <2> QED BY <1>1, <1>2, <2>1 DEF AwaitInv, Searching, IsFound
<1>7. (ServedInv /\ SuccessIsTrue /\ ReportsAreWhole)'
  BY <1>1 DEF ServedInv, SuccessIsTrue, ReportsAreWhole
<1> QED BY <1>4, <1>5, <1>6, <1>7

LEMMA NextInv == LdapInv /\ [Next]_vars => LdapInv'
<1> SUFFICES ASSUME LdapInv, [Next]_vars PROVE LdapInv'
  OBVIOUS
<1>1. cin \in {"good", "failed"} /\ choice \in 0 .. 6
  BY DEF LdapInv, TypeOK
<1>2. CASE Start
  BY <1>1, <1>2, SendStep DEF Start
<1>3. CASE Type
  <2>1. PICK c \in 1 .. 4, name \in Planes \cup {Empty}, speed \in Speeds \cup {Empty} :
          choice' = c /\ Send(Ops[c], name, speed)
    BY <1>3 DEF Type
  <2>2. Ops[c] \in {"bind", "search", "add", "delete", "list"}
    BY DEF Ops
  <2> QED BY <1>1, <1>3, <2>1, <2>2, SendStep DEF Type
<1>4. CASE TypeCut
  <2>1. PICK c \in 1 .. 3, name \in Planes \cup {Empty} :
          choice' = c /\ Send(Ops[c], name, Empty)
    BY <1>4 DEF TypeCut
  <2>2. Ops[c] \in {"bind", "search", "add", "delete", "list"}
    BY DEF Ops
  <2> QED BY <1>4, <2>1, <2>2, SendStep DEF TypeCut
<1>5. CASE Repeat
  <2>1. Ops[choice] \in {"bind", "search", "add", "delete", "list"}
    BY <1>5 DEF Repeat, Ops
  <2> QED BY <1>1, <1>5, <2>1, SendStep DEF Repeat
<1> QED BY <1>2, <1>3, <1>4, <1>5, QuietStep, ReceivePacketStep, ReceiveNothingStep,
           ServeStep, DisconnectStep, CloseStep DEF Next

LEMMA Invariance == Spec => []LdapInv
<1> QED BY InitInv, NextInv, PTL DEF Spec

-----------------------------------------------------------------------------
\* Every variable of the client, the connection and the server keeps its type: the planes
\* printed are planes, and the id stays in its byte.
THEOREM TypeCorrectness == Spec => []TypeOK
<1>1. LdapInv => TypeOK
  BY DEF LdapInv
<1> QED BY <1>1, Invariance, PTL

\* main says that a plane was added or deleted only when the server did it for the command
\* just typed: what is left of an earlier command is never read as the answer to it.
THEOREM SuccessesAreTrue == Spec => []SuccessIsTrue
<1>1. LdapInv => SuccessIsTrue
  BY DEF LdapInv
<1> QED BY <1>1, Invariance, PTL

\* The planes that main lists and the speed it finds are those the server sent for the command,
\* which are of the directory at one moment: all that it sent while the connection lives, some
\* of it if the connection was lost.  When the server carried the search out that is the
\* directory; when it refused or gave up it is less, and main does not say so.
THEOREM ReportsAreOfTheDirectory == Spec => []ReportsAreWhole
<1>1. LdapInv => ReportsAreWhole
  BY DEF LdapInv
<1> QED BY <1>1, Invariance, PTL
-----------------------------------------------------------------------------
\* Bytes.

Octet == 0 .. 255

\* A byte is a natural number below 256.
LEMMA OctetIs == \A b \in Octet : b \in Nat /\ b >= 0 /\ b < 256
  BY DEF Octet

\* And there are no others.
LEMMA IsOctet == \A b \in Nat : b < 256 => b \in Octet
  BY DEF Octet

\* What holds of 0 and of the next number holds up to N.
LEMMA Induct ==
  ASSUME NEW N \in Nat, NEW P, 0 \in P, \A n \in 0 .. N - 1 : n \in P => n + 1 \in P
  PROVE  \A n \in 0 .. N : n \in P
<1> DEFINE Bad == {n \in 0 .. N : n \notin P}
<1>1. SUFFICES ASSUME Bad # {} PROVE FALSE
  OBVIOUS
<1>2. Bad \in SUBSET Nat
  OBVIOUS
<1>3. \A n \in Bad : n \in 0 .. N /\ n \notin P
  OBVIOUS
<1>4. \A n \in 0 .. N : n \notin Bad => n \in P
  OBVIOUS
<1> HIDE DEF Bad
<1>5. PICK n \in Bad : \A j \in Bad : n <= j
  BY <1>1, <1>2, LeastNat
<1>6. n \in 0 .. N /\ n \notin P /\ n # 0
  BY <1>3, <1>5
<1>7. n - 1 \in 0 .. N - 1 /\ n - 1 \in 0 .. N /\ (n - 1) + 1 = n
  BY <1>6
<1>8. n - 1 \notin Bad
  BY <1>2, <1>5, <1>7
<1>9. n - 1 \in P
  BY <1>4, <1>7, <1>8
<1> QED BY <1>6, <1>7, <1>9

\* What the first bytes of a number come to, after each.
Values(v, bytes, N) ==
  v = [n \in 0 .. N |-> IF n = 0 THEN 0 ELSE 256 * v[n - 1] + bytes[n]]

\* There are such values.
LEMMA ValuesExist ==
  ASSUME NEW bytes, NEW N \in Nat
  PROVE  \E v : Values(v, bytes, N)
<1> DEFINE P == {M \in 0 .. N : \E v : Values(v, bytes, M)}
<1>1. 0 \in P
  <2>1. Values([n \in 0 .. 0 |-> 0], bytes, 0)
    BY DEF Values
  <2>2. 0 \in 0 .. N
    OBVIOUS
  <2> QED BY <2>1, <2>2
<1>2. ASSUME NEW M \in 0 .. N - 1, M \in P
      PROVE  M + 1 \in P
  <2>1. PICK v : Values(v, bytes, M)
    BY <1>2
  <2>2. M \in Nat /\ M + 1 \in 0 .. N
    OBVIOUS
  <2> DEFINE w == [n \in 0 .. M + 1 |-> IF n = M + 1 THEN 256 * v[M] + bytes[M + 1] ELSE v[n]]
  <2>3. \A n \in 0 .. M : v[n] = IF n = 0 THEN 0 ELSE 256 * v[n - 1] + bytes[n]
    BY <2>1 DEF Values
  <2>4. w[M + 1] = 256 * v[M] + bytes[M + 1] /\ \A n \in 0 .. M : w[n] = v[n]
    BY <2>2
  <2>5. w = [n \in 0 .. M + 1 |-> w[n]]
    OBVIOUS
  <2> HIDE DEF w
  <2>6. ASSUME NEW n \in 0 .. M + 1
        PROVE  w[n] = IF n = 0 THEN 0 ELSE 256 * w[n - 1] + bytes[n]
    <3>1. CASE n = M + 1
      <4>1. n # 0 /\ n - 1 = M /\ M \in 0 .. M
        BY <2>2, <3>1
      <4> QED BY <2>4, <3>1, <4>1
    <3>2. CASE n # M + 1
      <4>1. n \in 0 .. M /\ (n # 0 => n - 1 \in 0 .. M)
        BY <2>2, <3>2
      <4> QED BY <2>3, <2>4, <4>1
    <3> QED BY <3>1, <3>2
  <2>7. Values(w, bytes, M + 1)
    BY <2>5, <2>6 DEF Values
  <2> QED BY <2>2, <2>7
<1> HIDE DEF P
<1>3. \A M \in 0 .. N : M \in P
  BY <1>1, <1>2, Induct
<1>4. N \in P
  BY <1>3
<1> QED BY <1>4 DEF P

\* The number that bytes make is a natural one, and made byte by byte.
LEMMA UnsignedIs ==
  ASSUME NEW bytes \in Seq(Octet)
  PROVE  \E v \in [0 .. Len(bytes) -> Nat] :
           /\ v[0] = 0 /\ \A n \in 1 .. Len(bytes) : v[n] = 256 * v[n - 1] + bytes[n]
           /\ Unsigned(bytes) = v[Len(bytes)]
<1> DEFINE N == Len(bytes)
           v == CHOOSE value : Values(value, bytes, N)
<1>1. N \in Nat /\ \A n \in 1 .. N : bytes[n] \in Octet
  BY LenProperties, ElementOfSeq
<1> HIDE DEF N
<1>9. \A n \in 1 .. N : bytes[n] \in Nat
  BY ONLY <1>1, OctetIs
<1> USE DEF N
<1>2. Unsigned(bytes) = v[N]
  BY DEF Unsigned, Values
<1> HIDE DEF N
<1>3. Values(v, bytes, N)
  BY <1>1, ValuesExist
<1> HIDE DEF v
<1>4. v[0] = 0 /\ \A n \in 1 .. N : v[n] = 256 * v[n - 1] + bytes[n]
  BY <1>1, <1>3 DEF Values
<1> DEFINE P == {n \in 0 .. N : v[n] \in Nat}
<1>5. 0 \in P
  <2>1. 0 \in 0 .. N
    BY <1>1
  <2> QED BY <1>4, <2>1
<1>6. ASSUME NEW n \in 0 .. N - 1, n \in P
      PROVE  n + 1 \in P
  <2> DEFINE m == n + 1
  <2>1. m \in 1 .. N /\ m \in 0 .. N /\ m - 1 = n /\ v[n] \in Nat
    BY <1>1, <1>6
  <2> HIDE DEF m
  <2>2. v[m] = 256 * v[m - 1] + bytes[m]
    BY <1>4, <2>1
  <2>3. bytes[m] \in Nat
    BY <1>9, <2>1
  <2>4. v[m] \in Nat
    BY <2>1, <2>2, <2>3
  <2>5. m \in P
    BY <2>1, <2>4
  <2> QED BY <2>5 DEF m
<1> HIDE DEF P
<1>7. \A n \in 0 .. N : n \in P
  BY <1>1, <1>5, <1>6, Induct
<1>8. v = [n \in 0 .. N |-> v[n]]
  BY <1>3 DEF Values
<1> QED BY <1>2, <1>4, <1>7, <1>8 DEF P, N

\* A part of a sequence of bytes.
LEMMA PartOf ==
  ASSUME NEW data \in Seq(Octet), NEW m \in Nat \ {0}, NEW n \in Nat, n <= Len(data)
  PROVE  /\ SubSeq(data, m, n) \in Seq(Octet)
         /\ Len(SubSeq(data, m, n)) = IF m <= n THEN n - m + 1 ELSE 0
         /\ \A i \in 1 .. n - m + 1 : SubSeq(data, m, n)[i] = data[m + i - 1]
<1>1. Len(data) \in Nat
  BY LenProperties
<1>2. \A i \in m .. n : data[i] \in Octet
  BY <1>1, ElementOfSeq
<1> QED BY <1>2, SubSeqProperties

\* A length that can be read is a natural number, and stands before what follows.
LEMMA LengthRead ==
  ASSUME NEW data \in Seq(Octet), NEW pos \in Nat \ {0}, NEW l, l = readBERLength(data, pos)
  PROVE  l.ok \in BOOLEAN /\ l.len \in Nat /\ l.pos \in Nat /\ (l.ok => l.pos > pos)
<1> DEFINE d == data[pos]
           k == d - 128
           bad == [ok |-> FALSE, len |-> 0, pos |-> pos]
           bytes == SubSeq(data, pos + 1, pos + k)
<1>1. Len(data) \in Nat /\ \A i \in 1 .. Len(data) : data[i] \in Octet
  BY LenProperties, ElementOfSeq
<1>2. CASE pos > Len(data)
  BY <1>2 DEF readBERLength
<1>3. CASE ~(pos > Len(data))
  <2>1. d \in 0 .. 255
    BY <1>1, <1>3 DEF Octet
  <2>2. CASE d < 128
    <3>1. l = [ok |-> TRUE, len |-> d, pos |-> pos + 1]
      BY <1>3, <2>2 DEF readBERLength
    <3> HIDE DEF d
    <3> QED BY <2>1, <3>1
  <2>3. CASE ~(d < 128) /\ (k = 0 \/ k > 8 \/ pos + k > Len(data))
    <3>1. l = bad
      BY <1>3, <2>3 DEF readBERLength
    <3> QED BY <3>1
  <2>4. CASE ~(d < 128) /\ ~(k = 0 \/ k > 8 \/ pos + k > Len(data))
    <3>1. l = [ok |-> TRUE, len |-> Unsigned(bytes), pos |-> pos + 1 + k]
      BY <1>3, <2>4 DEF readBERLength
    <3> HIDE DEF d
    <3>2. k \in Nat /\ pos + k <= Len(data)
      BY <1>1, <2>1, <2>4
    <3> HIDE DEF k
    <3>3. bytes \in Seq(Octet)
      <4>1. pos + k \in Nat /\ pos + 1 \in Nat \ {0}
        BY <3>2
      <4> QED BY <3>2, <4>1, PartOf
    <3> HIDE DEF bytes
    <3>4. Unsigned(bytes) \in Nat
      <4>1. PICK v \in [0 .. Len(bytes) -> Nat] : Unsigned(bytes) = v[Len(bytes)]
        BY <3>3, UnsignedIs
      <4>2. Len(bytes) \in 0 .. Len(bytes)
        BY <3>3, LenProperties
      <4> QED BY <4>1, <4>2
    <3>5. pos + 1 + k \in Nat /\ pos + 1 + k > pos
      BY <3>2
    <3> QED BY <3>1, <3>4, <3>5
  <2> QED BY <2>2, <2>3, <2>4
<1> QED BY <1>2, <1>3

\* An element that is there lies before the end of what encloses it, behind its own tag
\* and length.
LEMMA ElementRead ==
  ASSUME NEW data \in Seq(Octet), NEW pos \in Nat \ {0}, NEW end \in Nat, NEW tag,
         NEW e, e = Element(data, pos, end, tag)
  PROVE  /\ e \in Span /\ e.end = end
         /\ e.is # "other" => pos < end /\ data[pos] = tag
         /\ e.is = "ok" => pos + 2 <= e.from /\ e.from <= e.to /\ e.to <= end
<1> DEFINE l == readBERLength(data, pos + 1)
<1>1. CASE pos >= end \/ data[pos] # tag
  <2>1. e = [is |-> "other", from |-> pos, to |-> pos, end |-> end]
    BY <1>1 DEF Element
  <2> QED BY <2>1 DEF Span
<1>2. CASE ~(pos >= end \/ data[pos] # tag)
  <2>1. e = [is |-> IF l.ok /\ l.pos + l.len <= end THEN "ok" ELSE "bad",
             from |-> l.pos, to |-> l.pos + l.len, end |-> end]
    BY <1>2 DEF Element
  <2>2. l.ok \in BOOLEAN /\ l.len \in Nat /\ l.pos \in Nat /\ (l.ok => l.pos > pos + 1)
    BY LengthRead
  <2> HIDE DEF l
  <2>3. l.pos + l.len \in Nat
    BY <2>2
  <2>4. e \in Span /\ e.end = end
    BY <2>1, <2>2, <2>3 DEF Span
  <2>5. e.is = "ok" => pos + 2 <= e.from /\ e.from <= e.to /\ e.to <= end
    BY <2>1, <2>2, <2>3
  <2> QED BY <1>2, <2>1, <2>4, <2>5
<1> QED BY <1>1, <1>2
-----------------------------------------------------------------------------
\* The elements of a sequence of bytes.

\* The leaves of data, when f has those of every shorter sequence.
LeafBody(f, data) ==
  IF data = <<>> THEN <<>>
  ELSE LET e == Element(data, 1, Len(data) + 1, data[1])
       IN  IF e.is # "ok" THEN <<0>>
           ELSE (IF Constructed(data[1]) THEN f[Content(data, e)]
                 ELSE <<[tag |-> data[1], value |-> Content(data, e)]>>)
                  \o f[SubSeq(data, e.to, Len(data))]

\* The sequences of at most n bytes.
Short(n) == {data \in Seq(Octet) : Len(data) <= n}

IsLeaves(f, n) == f = [data \in Short(n) |-> LeafBody(f, data)]

\* An element and what follows it are shorter than the sequence they stand in.
LEMMA PartsAreShorter ==
  ASSUME NEW data \in Seq(Octet), data # <<>>,
         NEW e, e = Element(data, 1, Len(data) + 1, data[1]), e.is = "ok"
  PROVE  /\ Len(data) \in Nat \ {0}
         /\ Content(data, e) \in Short(Len(data) - 1)
         /\ SubSeq(data, e.to, Len(data)) \in Short(Len(data) - 1)
<1>1. Len(data) \in Nat /\ Len(data) # 0
  BY LenProperties, EmptySeq
<1>2. e \in Span /\ 3 <= e.from /\ e.from <= e.to /\ e.to <= Len(data) + 1
  <2>1. 1 \in Nat \ {0} /\ Len(data) + 1 \in Nat /\ 1 + 2 = 3
    BY <1>1
  <2> QED BY <2>1, ElementRead
<1>3. e.from \in Nat /\ e.to \in Nat
  BY <1>2 DEF Span
<1>4. Content(data, e) \in Seq(Octet) /\ Len(Content(data, e)) <= Len(data) - 1
  <2> DEFINE m == e.from
             n == e.to - 1
  <2>1. m \in Nat \ {0} /\ n \in Nat /\ n <= Len(data) /\ m >= 3
    BY <1>1, <1>2, <1>3
  <2> HIDE DEF m, n
  <2>2. SubSeq(data, m, n) \in Seq(Octet) /\ Len(SubSeq(data, m, n)) = IF m <= n THEN n - m + 1 ELSE 0
    BY <2>1, PartOf
  <2>3. Len(SubSeq(data, m, n)) <= Len(data) - 1
    BY <1>1, <2>1, <2>2
  <2> QED BY <2>2, <2>3 DEF Content, m, n
<1>5. SubSeq(data, e.to, Len(data)) \in Seq(Octet) /\ Len(SubSeq(data, e.to, Len(data))) <= Len(data) - 1
  <2> DEFINE m == e.to
             n == Len(data)
  <2>1. m \in Nat \ {0} /\ n \in Nat /\ n <= Len(data) /\ m >= 3
    BY <1>1, <1>2, <1>3
  <2> HIDE DEF m, n
  <2>2. SubSeq(data, m, n) \in Seq(Octet) /\ Len(SubSeq(data, m, n)) = IF m <= n THEN n - m + 1 ELSE 0
    BY <2>1, PartOf
  <2>3. Len(SubSeq(data, m, n)) <= Len(data) - 1
    BY <1>1, <2>1, <2>2
  <2> QED BY <2>2, <2>3 DEF m, n
<1> QED BY <1>1, <1>4, <1>5 DEF Short

\* So only the shorter sequences matter.
LEMMA BodyDepends ==
  ASSUME NEW data \in Seq(Octet), NEW f, NEW g,
         \A d \in Short(Len(data) - 1) : f[d] = g[d]
  PROVE  LeafBody(f, data) = LeafBody(g, data)
<1> DEFINE e == Element(data, 1, Len(data) + 1, data[1])
           a == Content(data, e)
           b == SubSeq(data, e.to, Len(data))
<1>1. CASE data = <<>>
  BY <1>1 DEF LeafBody
<1>2. CASE data # <<>> /\ e.is # "ok"
  BY <1>2 DEF LeafBody
<1>3. CASE data # <<>> /\ e.is = "ok"
  <2>1. a \in Short(Len(data) - 1) /\ b \in Short(Len(data) - 1)
    <3> HIDE DEF e
    <3> QED BY <1>3, PartsAreShorter DEF e
  <2>2. f[a] = g[a] /\ f[b] = g[b]
    <3> HIDE DEF a, b
    <3> QED BY <2>1
  <2>3. \A k : LeafBody(k, data) =
           (IF Constructed(data[1]) THEN k[a] ELSE <<[tag |-> data[1], value |-> a]>>) \o k[b]
    BY <1>3 DEF LeafBody
  <2> HIDE DEF a, b
  <2> QED BY <2>2, <2>3
<1> QED BY <1>1, <1>2, <1>3
\* A function with the leaves of the sequences of at most N bytes.
LEMMA LeavesExist ==
  ASSUME NEW N \in Nat
  PROVE  \E f : IsLeaves(f, N)
<1> DEFINE P == {n \in 0 .. N : \E f : IsLeaves(f, n)}
<1>1. 0 \in P
  <2> DEFINE f == [data \in Short(0) |-> <<>>]
  <2>1. \A data \in Short(0) : data = <<>>
    BY LenProperties, EmptySeq DEF Short
  <2>2. \A data \in Short(0) : LeafBody(f, data) = <<>>
    BY <2>1 DEF LeafBody
  <2>3. IsLeaves(f, 0)
    BY <2>2 DEF IsLeaves
  <2>4. 0 \in 0 .. N
    OBVIOUS
  <2> QED BY <2>3, <2>4
<1>2. ASSUME NEW n \in 0 .. N - 1, n \in P
      PROVE  n + 1 \in P
  <2>1. PICK f : IsLeaves(f, n)
    BY <1>2
  <2> DEFINE g == [data \in Short(n + 1) |-> LeafBody(f, data)]
  <2>2. \A d \in Short(n) : d \in Short(n + 1) /\ g[d] = f[d]
    <3>1. \A d \in Short(n) : d \in Short(n + 1)
      <4>1. \A d \in Seq(Octet) : Len(d) \in Nat
        BY LenProperties
      <4> QED BY <4>1 DEF Short
    <3>2. \A d \in Short(n) : f[d] = LeafBody(f, d)
      BY <2>1 DEF IsLeaves
    <3> QED BY <3>1, <3>2
  <2>3. ASSUME NEW data \in Short(n + 1)
        PROVE  LeafBody(f, data) = LeafBody(g, data)
    <3>1. data \in Seq(Octet) /\ Len(data) \in Nat /\ Len(data) <= n + 1
      BY LenProperties DEF Short
    <3>2. \A d \in Short(Len(data) - 1) : d \in Short(n)
      <4>1. \A d \in Seq(Octet) : Len(d) \in Nat
        BY LenProperties
      <4> QED BY <3>1, <4>1 DEF Short
    <3>3. \A d \in Short(Len(data) - 1) : f[d] = g[d]
      BY <2>2, <3>2
    <3> QED BY ONLY <3>1, <3>3, BodyDepends
  <2>4. IsLeaves(g, n + 1)
    BY <2>3 DEF IsLeaves
  <2>5. n + 1 \in 0 .. N
    OBVIOUS
  <2> QED BY <2>4, <2>5
<1> HIDE DEF P
<1>3. \A n \in 0 .. N : n \in P
  BY <1>1, <1>2, Induct
<1>4. N \in P
  BY <1>3
<1> QED BY <1>4 DEF P

\* Two such functions agree where both are defined.
LEMMA LeavesAgree ==
  ASSUME NEW m \in Nat, NEW n \in Nat, NEW f, NEW g, IsLeaves(f, m), IsLeaves(g, n),
         NEW data \in Seq(Octet), data \in Short(m), data \in Short(n)
  PROVE  f[data] = g[data]
<1> DEFINE N == Len(data)
           Same(d) == f[d] = g[d]
           P == {k \in 0 .. N : \A d \in Short(k) : d \in Short(m) /\ d \in Short(n) => Same(d)}
<1>1. N \in Nat
  BY LenProperties
<1> HIDE DEF N
<1>2. ASSUME NEW d \in Seq(Octet), d \in Short(m), d \in Short(n),
             \A c \in Short(Len(d) - 1) : c \in Short(m) /\ c \in Short(n) => Same(c)
      PROVE  Same(d)
  <2>1. f[d] = LeafBody(f, d) /\ g[d] = LeafBody(g, d)
    BY <1>2 DEF IsLeaves
  <2>2. \A c \in Short(Len(d) - 1) : c \in Short(m) /\ c \in Short(n)
    <3>1. Len(d) \in Nat /\ \A c \in Seq(Octet) : Len(c) \in Nat
      BY LenProperties
    <3>2. Len(d) <= m /\ Len(d) <= n
      BY <1>2 DEF Short
    <3> QED BY <3>1, <3>2 DEF Short
  <2>3. \A c \in Short(Len(d) - 1) : f[c] = g[c]
    BY <1>2, <2>2
  <2>4. LeafBody(f, d) = LeafBody(g, d)
    BY ONLY <1>2, <2>3, BodyDepends
  <2> QED BY <2>1, <2>4
<1>3. 0 \in P
  <2>1. ASSUME NEW d \in Short(0), d \in Short(m), d \in Short(n)
        PROVE  Same(d)
    <3>1. d \in Seq(Octet) /\ Len(d) = 0
      BY LenProperties DEF Short
    <3>2. \A c \in Short(Len(d) - 1) : FALSE
      BY <3>1, LenProperties DEF Short
    <3> HIDE DEF Same
    <3> QED BY <1>2, <2>1, <3>1, <3>2
  <2> HIDE DEF Same
  <2> QED BY <1>1, <2>1
<1>4. ASSUME NEW k \in 0 .. N - 1, k \in P
      PROVE  k + 1 \in P
  <2>1. \A d \in Short(k) : d \in Short(m) /\ d \in Short(n) => Same(d)
    BY <1>4
  <2>2. ASSUME NEW d \in Short(k + 1), d \in Short(m), d \in Short(n)
        PROVE  Same(d)
    <3>1. d \in Seq(Octet) /\ Len(d) \in Nat /\ Len(d) <= k + 1
      BY LenProperties DEF Short
    <3>2. \A c \in Short(Len(d) - 1) : c \in Short(k)
      BY <1>1, <3>1, LenProperties DEF Short
    <3>3. \A c \in Short(Len(d) - 1) : c \in Short(m) /\ c \in Short(n) => Same(c)
      BY <2>1, <3>2
    <3> HIDE DEF Same
    <3> QED BY <1>2, <2>2, <3>1, <3>3
  <2>3. k + 1 \in 0 .. N
    BY <1>1
  <2> HIDE DEF Same
  <2> QED BY <2>2, <2>3
<1> HIDE DEF P, Same
<1>5. \A k \in 0 .. N : k \in P
  BY ONLY <1>1, <1>3, <1>4, Induct
<1>6. N \in P /\ data \in Short(N)
  BY <1>1, <1>5 DEF Short, N
<1>7. Same(data)
  BY <1>6 DEF P
<1> QED BY <1>7 DEF Same

\* The recursive definition of LeavesOf is one: there is a function that satisfies it.
LEMMA LeavesOfIs ==
  \A data \in Seq(Octet) : LeavesOf[data] = LeafBody(LeavesOf, data)
<1> DEFINE G(n) == CHOOSE f : IsLeaves(f, n)
           F == [data \in Seq(Octet) |-> G(Len(data))[data]]
<1>1. \A n \in Nat : IsLeaves(G(n), n)
  BY LeavesExist
<1> HIDE DEF G
<1>2. ASSUME NEW data \in Seq(Octet)
      PROVE  F[data] = LeafBody(F, data)
  <2> DEFINE n == Len(data)
             f == G(n)
  <2>1. n \in Nat /\ data \in Short(n)
    BY LenProperties DEF Short
  <2>2. IsLeaves(f, n)
    BY <1>1, <2>1
  <2>3. F[data] = f[data]
    OBVIOUS
  <2>4. f[data] = LeafBody(f, data)
    BY <2>1, <2>2 DEF IsLeaves
  <2> HIDE DEF f
  <2>5. ASSUME NEW d \in Short(n - 1)
        PROVE  f[d] = F[d]
    <3> DEFINE m == Len(d)
               g == G(m)
    <3>1. d \in Seq(Octet) /\ m \in Nat /\ d \in Short(m) /\ d \in Short(n)
      BY <2>1, LenProperties DEF Short
    <3>2. F[d] = g[d]
      BY <3>1
    <3>3. IsLeaves(g, m)
      BY <1>1, <3>1
    <3> HIDE DEF g, m, n, F
    <3>4. f[d] = g[d]
      BY ONLY <2>1, <2>2, <3>1, <3>3, LeavesAgree
    <3> QED BY <3>2, <3>4
  <2> HIDE DEF F
  <2>6. LeafBody(f, data) = LeafBody(F, data)
    BY ONLY <2>5, BodyDepends DEF n
  <2> QED BY <2>3, <2>4, <2>6
<1>3. F = [data \in Seq(Octet) |-> LeafBody(F, data)]
  BY <1>2
<1> HIDE DEF F
<1>4. LeavesOf = CHOOSE f : f = [data \in Seq(Octet) |-> LeafBody(f, data)]
  BY DEF LeavesOf, LeafBody, Octet
<1>5. LeavesOf = [data \in Seq(Octet) |-> LeafBody(LeavesOf, data)]
  BY <1>3, <1>4
<1> QED BY <1>5
-----------------------------------------------------------------------------
\* What stands where in a sequence of bytes.

\* The bytes s stand in data from pos on.
Stands(data, pos, s) ==
  /\ pos \in Nat \ {0} /\ s \in Seq(Octet) /\ pos + Len(s) <= Len(data) + 1
  /\ \A i \in 1 .. Len(s) : data[pos + i - 1] = s[i]

\* What stands there is that part of the sequence.
LEMMA StandsIs ==
  ASSUME NEW data \in Seq(Octet), NEW pos, NEW s, Stands(data, pos, s)
  PROVE  SubSeq(data, pos, pos + Len(s) - 1) = s
<1> DEFINE n == pos + Len(s) - 1
           t == SubSeq(data, pos, n)
<1>1. /\ pos \in Nat \ {0} /\ s \in Seq(Octet) /\ Len(s) \in Nat /\ n <= Len(data) /\ n \in Nat
      /\ \A i \in 1 .. Len(s) : data[pos + i - 1] = s[i]
  BY LenProperties DEF Stands
<1>2. Len(s) = IF pos <= n THEN n - pos + 1 ELSE 0
  BY <1>1
<1>3. n - pos + 1 = Len(s)
  BY <1>1
<1> HIDE DEF n
<1>4. t \in Seq(Octet) /\ Len(t) = Len(s) /\ \A i \in 1 .. Len(s) : t[i] = data[pos + i - 1]
  BY <1>1, <1>2, <1>3, PartOf
<1> HIDE DEF t
<1>5. \A i \in 1 .. Len(s) : t[i] = s[i]
  BY <1>1, <1>4
<1>6. t = s
  BY <1>1, <1>4, <1>5, SeqEqual
<1> QED BY <1>6 DEF t, n

\* The same of all but its first byte.
LEMMA StandsTail ==
  ASSUME NEW data \in Seq(Octet), NEW pos, NEW s, Stands(data, pos, s), Len(s) >= 2
  PROVE  SubSeq(data, pos + 1, pos + Len(s) - 1) = SubSeq(s, 2, Len(s))
<1> DEFINE p == pos + 1
           n == pos + Len(s) - 1
           t == SubSeq(data, p, n)
           u == SubSeq(s, 2, Len(s))
<1>1. /\ pos \in Nat \ {0} /\ s \in Seq(Octet) /\ Len(s) \in Nat /\ n <= Len(data) /\ n \in Nat
      /\ \A i \in 1 .. Len(s) : data[pos + i - 1] = s[i]
  BY LenProperties DEF Stands
<1>2. p \in Nat \ {0} /\ p <= n /\ n - p + 1 = Len(s) - 1
  BY <1>1
<1>3. t \in Seq(Octet) /\ Len(t) = Len(s) - 1 /\ \A i \in 1 .. Len(s) - 1 : t[i] = data[p + i - 1]
  <2> HIDE DEF n, p
  <2> QED BY <1>1, <1>2, PartOf
<1>4. u \in Seq(Octet) /\ Len(u) = Len(s) - 1 /\ \A i \in 1 .. Len(s) - 1 : u[i] = s[2 + i - 1]
  <2> DEFINE k == Len(s)
  <2>1. k \in Nat /\ k <= Len(s) /\ 2 <= k /\ k - 2 + 1 = k - 1 /\ 2 \in Nat \ {0}
    BY <1>1
  <2> HIDE DEF k
  <2>2. /\ SubSeq(s, 2, k) \in Seq(Octet) /\ Len(SubSeq(s, 2, k)) = k - 1
        /\ \A i \in 1 .. k - 1 : SubSeq(s, 2, k)[i] = s[2 + i - 1]
    BY <1>1, <2>1, PartOf
  <2> QED BY <2>2 DEF k
<1> HIDE DEF t, u
<1>5. ASSUME NEW i \in 1 .. Len(s) - 1
      PROVE  t[i] = u[i]
  <2>1. p + i - 1 = pos + (i + 1) - 1 /\ 2 + i - 1 = i + 1 /\ i + 1 \in 1 .. Len(s)
    BY <1>1
  <2>2. data[p + i - 1] = s[i + 1]
    BY <1>1, <2>1
  <2> QED BY <1>3, <1>4, <2>1, <2>2
<1>6. t = u
  BY <1>3, <1>4, <1>5, SeqEqual
<1> QED BY <1>6 DEF t, u, n

\* Two sequences one after the other.
LEMMA StandsParts ==
  ASSUME NEW data \in Seq(Octet), NEW pos, NEW a \in Seq(Octet), NEW b \in Seq(Octet),
         Stands(data, pos, a \o b)
  PROVE  Stands(data, pos, a) /\ Stands(data, pos + Len(a), b)
<1> DEFINE c == a \o b
<1>1. /\ pos \in Nat \ {0} /\ Len(a) \in Nat /\ Len(b) \in Nat /\ Len(data) \in Nat
      /\ pos + Len(c) <= Len(data) + 1 /\ \A i \in 1 .. Len(c) : data[pos + i - 1] = c[i]
  BY LenProperties DEF Stands
<1>2. /\ Len(c) = Len(a) + Len(b)
      /\ \A i \in 1 .. Len(a) + Len(b) : c[i] = IF i <= Len(a) THEN a[i] ELSE b[i - Len(a)]
  BY ConcatProperties
<1> HIDE DEF c
<1>3. Stands(data, pos, a)
  <2>1. pos + Len(a) <= Len(data) + 1
    BY <1>1, <1>2
  <2>2. ASSUME NEW i \in 1 .. Len(a)
        PROVE  data[pos + i - 1] = a[i]
    <3>1. i \in 1 .. Len(a) + Len(b) /\ i <= Len(a)
      BY <1>1
    <3> QED BY <1>1, <1>2, <3>1
  <2> QED BY <1>1, <2>1, <2>2 DEF Stands
<1>4. ASSUME NEW i \in 1 .. Len(b)
      PROVE  data[pos + Len(a) + i - 1] = b[i]
  <2> DEFINE j == Len(a) + i
  <2>1. j \in 1 .. Len(a) + Len(b) /\ ~(j <= Len(a)) /\ j - Len(a) = i
    BY <1>1
  <2>2. pos + j - 1 = pos + Len(a) + i - 1
    BY <1>1
  <2> HIDE DEF j
  <2>3. data[pos + j - 1] = c[j] /\ c[j] = b[j - Len(a)]
    BY <1>1, <1>2, <2>1
  <2> QED BY <2>1, <2>2, <2>3
<1>5. Stands(data, pos + Len(a), b)
  <2>1. pos + Len(a) \in Nat \ {0} /\ pos + Len(a) + Len(b) <= Len(data) + 1
    BY <1>1, <1>2
  <2> QED BY <1>4, <2>1 DEF Stands
<1> QED BY <1>3, <1>5

\* What a sequence begins with stands at 1, and the rest is the rest.
LEMMA HeadStands ==
  ASSUME NEW a \in Seq(Octet), NEW b \in Seq(Octet), NEW c, c = a \o b
  PROVE  /\ c \in Seq(Octet) /\ Len(c) = Len(a) + Len(b)
         /\ Stands(c, 1, a) /\ Stands(c, Len(a) + 1, b)
         /\ SubSeq(c, Len(a) + 1, Len(c)) = b
<1>1. Len(a) \in Nat /\ Len(b) \in Nat
  BY LenProperties
<1>2. /\ c \in Seq(Octet) /\ Len(c) = Len(a) + Len(b)
      /\ \A i \in 1 .. Len(a) + Len(b) : c[i] = IF i <= Len(a) THEN a[i] ELSE b[i - Len(a)]
  BY ConcatProperties
<1>3. Stands(c, 1, c)
  <2>1. \A i \in 1 .. Len(c) : 1 + i - 1 = i
    BY <1>1, <1>2
  <2> QED BY <1>1, <1>2, <2>1 DEF Stands
<1>4. Stands(c, 1, a) /\ Stands(c, 1 + Len(a), b)
  BY <1>2, <1>3, StandsParts
<1>5. 1 + Len(a) = Len(a) + 1 /\ Len(a) + 1 + Len(b) - 1 = Len(c)
  BY <1>1, <1>2
<1>6. SubSeq(c, Len(a) + 1, Len(a) + 1 + Len(b) - 1) = b
  BY <1>2, <1>4, <1>5, StandsIs
<1> QED BY <1>2, <1>4, <1>5, <1>6
-----------------------------------------------------------------------------
\* Lengths.

\* The number that one byte makes.
LEMMA UnsignedOne ==
  ASSUME NEW bytes \in Seq(Octet), Len(bytes) = 1
  PROVE  Unsigned(bytes) = bytes[1]
<1>1. PICK v \in [0 .. Len(bytes) -> Nat] :
           /\ v[0] = 0 /\ \A n \in 1 .. Len(bytes) : v[n] = 256 * v[n - 1] + bytes[n]
           /\ Unsigned(bytes) = v[Len(bytes)]
  BY UnsignedIs
<1> DEFINE b == bytes[1]
<1>2. b \in Nat
  BY OctetIs, ElementOfSeq
<1>3. v[1] = 256 * v[1 - 1] + b
  BY <1>1
<1> HIDE DEF b
<1>4. v[1] = b
  BY <1>1, <1>2, <1>3
<1> QED BY <1>1, <1>4 DEF b

\* The number that several bytes make, all but two of them 0.
LEMMA UnsignedTwo ==
  ASSUME NEW bytes \in Seq(Octet), NEW k \in Nat, k = Len(bytes), k >= 2,
         \A i \in 1 .. k - 2 : bytes[i] = 0
  PROVE  Unsigned(bytes) = 256 * bytes[k - 1] + bytes[k]
<1>1. PICK v \in [0 .. k -> Nat] :
           /\ v[0] = 0 /\ \A n \in 1 .. k : v[n] = 256 * v[n - 1] + bytes[n]
           /\ Unsigned(bytes) = v[k]
  BY UnsignedIs
<1> DEFINE P == {n \in 0 .. k - 2 : v[n] = 0}
           a == bytes[k - 1]
           b == bytes[k]
<1>2. 0 \in P
  BY <1>1
<1>3. ASSUME NEW n \in 0 .. (k - 2) - 1, n \in P
      PROVE  n + 1 \in P
  <2> DEFINE m == n + 1
  <2>1. m \in 1 .. k /\ m \in 1 .. k - 2 /\ m - 1 = n /\ v[n] = 0 /\ m \in 0 .. k - 2
    BY <1>3
  <2> HIDE DEF m
  <2>2. v[m] = 256 * v[m - 1] + bytes[m] /\ bytes[m] = 0
    BY <1>1, <2>1
  <2>3. v[m] = 0
    BY <2>1, <2>2
  <2> QED BY <2>1, <2>3 DEF m
<1>4. a \in Nat /\ b \in Nat
  <2>1. k \in 1 .. Len(bytes) /\ k - 1 \in 1 .. Len(bytes)
    OBVIOUS
  <2>2. a \in Octet /\ b \in Octet
    BY <2>1, ElementOfSeq
  <2> HIDE DEF a, b
  <2> QED BY <2>2, OctetIs
<1> HIDE DEF P
<1>5. k - 2 \in Nat /\ k - 2 \in 0 .. k - 2
  OBVIOUS
<1>6. \A n \in 0 .. k - 2 : n \in P
  BY ONLY <1>2, <1>3, <1>5, Induct
<1>7. v[k - 2] = 0
  BY <1>5, <1>6 DEF P
<1>8. v[k - 1] = 256 * v[k - 2] + a
  <2>1. k - 1 \in 1 .. k /\ (k - 1) - 1 = k - 2
    OBVIOUS
  <2> QED BY <1>1, <2>1
<1>9. v[k] = 256 * v[k - 1] + b
  <2>1. k \in 1 .. k
    OBVIOUS
  <2> QED BY <1>1, <2>1
<1> HIDE DEF a, b
<1>10. v[k - 1] = a
  BY <1>4, <1>7, <1>8
<1>11. v[k] = 256 * a + b
  BY <1>4, <1>9, <1>10
<1> QED BY <1>1, <1>11 DEF a, b

\* The bytes of a length, in one of the forms that BER has for it.
LengthForm(bytes, len) ==
  /\ bytes \in Seq(Octet) /\ len \in Nat
  /\ \/ Len(bytes) = 1 /\ len < 128 /\ bytes[1] = len
     \/ /\ Len(bytes) \in 2 .. 9 /\ bytes[1] = 127 + Len(bytes)
        /\ Unsigned(SubSeq(bytes, 2, Len(bytes))) = len

\* The halves of a number that two bytes hold.
LEMMA Halves ==
  ASSUME NEW n \in Nat, n <= 65535
  PROVE  /\ n \div 256 \in Nat /\ n \div 256 < 256 /\ n % 256 \in Nat /\ n % 256 < 256
         /\ n = 256 * (n \div 256) + (n % 256) /\ (n \div 256) % 256 = n \div 256
         /\ n <= 255 => n \div 256 = 0 /\ n % 256 = n
  OBVIOUS

\* The client writes a length in such a form.
LEMMA AppendLengthForm ==
  ASSUME NEW n \in Nat, n <= 65535
  PROVE  LengthForm(appendLength(n), n) /\ Len(appendLength(n)) <= 3
<1> DEFINE q == n \div 256
           r == n % 256
<1>0. /\ q \in Nat /\ q < 256 /\ r \in Nat /\ r < 256 /\ n = 256 * q + r /\ q % 256 = q
      /\ n <= 255 => q = 0 /\ r = n
  OBVIOUS
<1> DEFINE lb == appendLength(n)
           t == SubSeq(lb, 2, Len(lb))
<1>1. CASE n < 128
  <2>1. lb = <<n>>
    BY <1>1 DEF appendLength
  <2>2. lb \in Seq(Octet) /\ Len(lb) = 1 /\ lb[1] = n
    <3>1. n \in Nat /\ n < 256
      BY <1>1
    <3>2. n \in Octet
      BY <3>1, IsOctet
    <3> HIDE DEF lb
    <3> QED BY ONLY <2>1, <3>2
  <2> QED BY <1>1, <2>2 DEF LengthForm
<1>2. CASE ~(n < 128) /\ n <= 255
  <2>1. lb = <<129, n>>
    BY <1>2 DEF appendLength
  <2>7. n \in Octet /\ 129 \in Octet
    BY <1>2, IsOctet
  <2> HIDE DEF lb
  <2>2. lb \in Seq(Octet) /\ Len(lb) = 2 /\ lb[1] = 129 /\ lb[2] = n
    BY ONLY <2>1, <2>7
  <2>4. t \in Seq(Octet) /\ Len(t) = 1 /\ t[1] = n
    <3>1. 2 \in Nat \ {0} /\ 2 <= Len(lb) /\ 2 - 2 + 1 = 1 /\ 2 + 1 - 1 = 2 /\ 1 \in 1 .. 1
      BY <2>2
    <3> QED BY <2>2, <3>1, PartOf
  <2> HIDE DEF t
  <2>5. Unsigned(t) = n
    BY <2>4, UnsignedOne
  <2>6. Unsigned(SubSeq(lb, 2, Len(lb))) = n
    BY <2>5 DEF t
  <2> USE DEF lb
  <2> QED BY <2>2, <2>6 DEF LengthForm
<1>3. CASE ~(n < 128) /\ ~(n <= 255)
  <2>1. lb = <<130, q % 256, r>>
    BY <1>3 DEF appendLength
  <2> HIDE DEF q, r
  <2>2. lb = <<130, q, r>>
    BY <1>0, <2>1
  <2> HIDE DEF lb
  <2>9. q \in Octet /\ r \in Octet /\ 130 \in Octet
    BY <1>0, IsOctet
  <2>3. lb \in Seq(Octet) /\ Len(lb) = 3 /\ lb[1] = 130
    BY ONLY <2>2, <2>9
  <2>5. t \in Seq(Octet) /\ Len(t) = 2 /\ t[1] = q /\ t[2] = r
    <3>1. 2 \in Nat \ {0} /\ 2 <= Len(lb) /\ 3 - 2 + 1 = 2 /\ Len(lb) = 3 /\ 1 \in 1 .. 2 /\ 2 \in 1 .. 2
          /\ 2 + 1 - 1 = 2 /\ 2 + 2 - 1 = 3
      BY <2>3
    <3>2. lb[2] = q /\ lb[3] = r
      BY <2>2
    <3> QED BY <2>3, <3>1, <3>2, PartOf
  <2> HIDE DEF t
  <2>6. Unsigned(t) = 256 * t[2 - 1] + t[2]
    <3> DEFINE k == 2
    <3>1. k \in Nat /\ k >= 2 /\ k = Len(t) /\ t \in Seq(Octet) /\ \A i \in 1 .. k - 2 : t[i] = 0
      BY ONLY <2>5
    <3> HIDE DEF k
    <3>2. Unsigned(t) = 256 * t[k - 1] + t[k]
      BY ONLY <3>1, UnsignedTwo
    <3> QED BY <3>2 DEF k
  <2>7. Unsigned(t) = n
    <3>1. 2 - 1 = 1
      OBVIOUS
    <3>2. Unsigned(t) = 256 * q + r
      BY <2>5, <2>6, <3>1
    <3> QED BY <1>0, <3>2
  <2>8. Unsigned(SubSeq(lb, 2, Len(lb))) = n
    BY <2>7 DEF t
  <2> USE DEF lb
  <2> QED BY <2>3, <2>8 DEF LengthForm
<1> QED BY <1>1, <1>2, <1>3

\* A length that stands in the data is read, whatever its form.
LEMMA LengthStands ==
  ASSUME NEW data \in Seq(Octet), NEW pos, NEW lb, NEW len, Stands(data, pos, lb), LengthForm(lb, len)
  PROVE  readBERLength(data, pos) = [ok |-> TRUE, len |-> len, pos |-> pos + Len(lb)]
<1> DEFINE d == data[pos]
           k == d - 128
<1>1. /\ pos \in Nat \ {0} /\ lb \in Seq(Octet) /\ Len(lb) \in Nat /\ len \in Nat
      /\ Len(data) \in Nat /\ pos + Len(lb) <= Len(data) + 1
  BY LenProperties DEF Stands, LengthForm
<1>2. Len(lb) >= 1
  BY <1>1 DEF LengthForm
<1>3. d = lb[1] /\ ~(pos > Len(data))
  <2>1. 1 \in 1 .. Len(lb) /\ pos + 1 - 1 = pos
    BY <1>1, <1>2
  <2>2. data[pos + 1 - 1] = lb[1]
    BY <2>1 DEF Stands
  <2>3. ~(pos > Len(data))
    BY <1>1, <1>2
  <2> QED BY <2>1, <2>2, <2>3
<1>4. CASE Len(lb) = 1 /\ len < 128 /\ lb[1] = len
  <2>1. d < 128 /\ d = len
    BY <1>3, <1>4
  <2> QED BY <1>3, <1>4, <2>1 DEF readBERLength
<1>5. CASE /\ Len(lb) \in 2 .. 9 /\ lb[1] = 127 + Len(lb)
           /\ Unsigned(SubSeq(lb, 2, Len(lb))) = len
  <2> HIDE DEF d
  <2> DEFINE n == Len(lb)
             m == Len(data)
  <2>5. n \in 2 .. 9 /\ d = 127 + n /\ m \in Nat /\ pos \in Nat /\ pos + n <= m + 1
    BY <1>1, <1>3, <1>5
  <2> HIDE DEF n, m
  <2>6. ~(d < 128) /\ k = n - 1 /\ ~(k = 0 \/ k > 8 \/ pos + k > m) /\ n >= 2
    BY ONLY <2>5 DEF k
  <2> USE DEF n, m
  <2>1. ~(d < 128) /\ k = Len(lb) - 1 /\ ~(k = 0 \/ k > 8 \/ pos + k > Len(data))
    BY <2>6
  <2>2. SubSeq(data, pos + 1, pos + Len(lb) - 1) = SubSeq(lb, 2, Len(lb))
    <3>2. Len(lb) >= 2
      BY <2>6
    <3> QED BY ONLY <3>2, StandsTail, data \in Seq(Octet), Stands(data, pos, lb)
  <2>3. pos + k = pos + Len(lb) - 1 /\ pos + 1 + k = pos + Len(lb)
    BY <1>1, <2>1
  <2>4. Unsigned(SubSeq(data, pos + 1, pos + k)) = len
    BY <1>5, <2>2, <2>3
  <2> HIDE DEF k
  <2>7. readBERLength(data, pos) = [ok |-> TRUE, len |-> Unsigned(SubSeq(data, pos + 1, pos + k)),
                                    pos |-> pos + 1 + k]
    <3> USE DEF d, k
    <3> QED BY <1>3, <2>1 DEF readBERLength
  <2> QED BY <2>3, <2>4, <2>7
<1> QED BY <1>4, <1>5 DEF LengthForm

\* An element: its tag, its length and what it contains.
Encoded(tag, lb, content) == <<tag>> \o lb \o content

\* An element is a sequence of bytes, and where it stands its parts stand.
LEMMA EncodedStands ==
  ASSUME NEW tag \in Octet, NEW lb, NEW content \in Seq(Octet), LengthForm(lb, Len(content)),
         NEW data \in Seq(Octet), NEW pos
  PROVE  /\ Encoded(tag, lb, content) \in Seq(Octet)
         /\ Len(Encoded(tag, lb, content)) = 1 + Len(lb) + Len(content)
         /\ Stands(data, pos, Encoded(tag, lb, content)) =>
              /\ data[pos] = tag /\ Stands(data, pos + 1, lb)
              /\ Stands(data, pos + 1 + Len(lb), content)
<1> DEFINE t == <<tag>>
<1>1. t \in Seq(Octet) /\ Len(t) = 1 /\ t[1] = tag
  OBVIOUS
<1>2. Encoded(tag, lb, content) = (t \o lb) \o content
  BY DEF Encoded
<1> HIDE DEF t
<1>3. lb \in Seq(Octet) /\ Len(lb) \in Nat /\ Len(content) \in Nat
  BY LenProperties DEF LengthForm
<1>4. t \o lb \in Seq(Octet) /\ Len(t \o lb) = 1 + Len(lb)
  BY <1>1, <1>3, ConcatProperties
<1>5. (t \o lb) \o content \in Seq(Octet) /\ Len((t \o lb) \o content) = 1 + Len(lb) + Len(content)
  <2> DEFINE u == t \o lb
  <2> HIDE DEF u
  <2>1. u \in Seq(Octet) /\ Len(u) = 1 + Len(lb)
    BY <1>4 DEF u
  <2> QED BY <2>1, ConcatProperties DEF u
<1>6. ASSUME Stands(data, pos, (t \o lb) \o content)
      PROVE  /\ data[pos] = tag /\ Stands(data, pos + 1, lb)
             /\ Stands(data, pos + 1 + Len(lb), content)
  <2> DEFINE u == t \o lb
  <2> HIDE DEF u
  <2>1. u \in Seq(Octet) /\ Len(u) = 1 + Len(lb) /\ Stands(data, pos, u \o content)
    BY <1>4, <1>6 DEF u
  <2>2. Stands(data, pos, u) /\ Stands(data, pos + Len(u), content)
    BY <2>1, StandsParts
  <2>3. Stands(data, pos, t) /\ Stands(data, pos + Len(t), lb)
    BY <1>1, <1>3, <2>2, StandsParts DEF u
  <2>4. pos \in Nat
    BY <2>2 DEF Stands
  <2>5. data[pos] = tag
    <3>1. 1 \in 1 .. Len(t) /\ pos + 1 - 1 = pos
      BY <1>1, <2>4
    <3>2. data[pos + 1 - 1] = t[1]
      BY <2>3, <3>1 DEF Stands
    <3> QED BY <1>1, <3>1, <3>2
  <2>6. pos + Len(u) = pos + 1 + Len(lb) /\ pos + Len(t) = pos + 1
    BY <1>1, <1>3, <2>1, <2>4
  <2> QED BY <2>2, <2>3, <2>5, <2>6
<1> QED BY <1>2, <1>5, <1>6

\* The element that Element makes of it: all of it is there.
Whole(tag, lb, content, pos, end) ==
  [is |-> "ok", from |-> pos + 1 + Len(lb), to |-> pos + 1 + Len(lb) + Len(content), end |-> end]

\* An element that stands in the data before end is found with its tag, and not with
\* another one.
LEMMA EncodedRead ==
  ASSUME NEW tag \in Octet, NEW lb, NEW content \in Seq(Octet), LengthForm(lb, Len(content)),
         NEW data \in Seq(Octet), NEW pos, NEW end \in Nat,
         Stands(data, pos, Encoded(tag, lb, content)),
         pos + Len(Encoded(tag, lb, content)) <= end
  PROVE  Element(data, pos, end, tag) = Whole(tag, lb, content, pos, end)
<1> DEFINE l == readBERLength(data, pos + 1)
<1>1. /\ data[pos] = tag /\ Stands(data, pos + 1, lb)
      /\ Len(Encoded(tag, lb, content)) = 1 + Len(lb) + Len(content)
  BY EncodedStands
<1>2. pos \in Nat /\ Len(lb) \in Nat /\ Len(content) \in Nat
  BY LenProperties DEF Stands, LengthForm
<1>3. l = [ok |-> TRUE, len |-> Len(content), pos |-> pos + 1 + Len(lb)]
  BY <1>1, LengthStands
<1> HIDE DEF l
<1>4. ~(pos >= end) /\ l.pos + l.len <= end /\ l.ok
  BY <1>1, <1>2, <1>3
<1>5. Element(data, pos, end, tag) =
        [is |-> IF l.ok /\ l.pos + l.len <= end THEN "ok" ELSE "bad",
         from |-> l.pos, to |-> l.pos + l.len, end |-> end]
  <2>1. ~(pos >= end \/ data[pos] # tag)
    BY <1>1, <1>4
  <2> USE DEF l
  <2> QED BY <2>1 DEF Element
<1> QED BY <1>3, <1>4, <1>5 DEF Whole
-----------------------------------------------------------------------------
\* The leaves of what is written.

\* What two sequences come to, one after the other.
LEMMA Joined ==
  ASSUME NEW S, NEW s, NEW t, NEW u, s \in Seq(S), t \in Seq(S), u \in Seq(S),
         Len(u) = Len(s) + Len(t),
         \A i \in 1 .. Len(s) : u[i] = s[i], \A i \in 1 .. Len(t) : u[Len(s) + i] = t[i]
  PROVE  s \o t = u
<1> DEFINE v == s \o t
<1>1. /\ v \in Seq(S) /\ Len(v) = Len(s) + Len(t)
      /\ \A i \in 1 .. Len(s) + Len(t) : v[i] = IF i <= Len(s) THEN s[i] ELSE t[i - Len(s)]
  BY ConcatProperties
<1>2. Len(s) \in Nat /\ Len(t) \in Nat
  BY LenProperties
<1> HIDE DEF v
<1>3. ASSUME NEW i \in 1 .. Len(v)
      PROVE  v[i] = u[i]
  <2>1. CASE i <= Len(s)
    BY <1>1, <1>2, <2>1
  <2>2. CASE ~(i <= Len(s))
    <3> DEFINE j == i - Len(s)
    <3>1. j \in 1 .. Len(t) /\ Len(s) + j = i
      BY <1>1, <1>2, <2>2
    <3> HIDE DEF j
    <3>2. u[i] = t[j]
      BY <3>1
    <3>3. v[i] = t[j]
      BY <1>1, <1>2, <2>2 DEF j
    <3> QED BY <3>2, <3>3
  <2> QED BY <2>1, <2>2
<1>4. v = u
  BY <1>1, <1>3, SeqEqual
<1> QED BY <1>4 DEF v

\* One and one.
LEMMA TwoJoined ==
  ASSUME NEW S, NEW a \in S, NEW b \in S
  PROVE  <<a>> \o <<b>> = <<a, b>>
<1>1. ASSUME NEW s, s = <<a>>, NEW t, t = <<b>>, NEW u, u = <<a, b>>
      PROVE  s \o t = u
  <2>1. s \in Seq(S) /\ t \in Seq(S) /\ u \in Seq(S)
    BY <1>1
  <2>2. Len(u) = Len(s) + Len(t) /\ Len(s) = 1 /\ Len(t) = 1
    BY <1>1
  <2>3. \A i \in 1 .. Len(s) : u[i] = s[i]
    BY <1>1, <2>2
  <2>4. \A i \in 1 .. Len(t) : u[Len(s) + i] = t[i]
    BY <1>1, <2>2
  <2> QED BY ONLY <2>1, <2>2, <2>3, <2>4, Joined
<1> QED BY <1>1

\* Two and one.
LEMMA ThreeJoined ==
  ASSUME NEW S, NEW a \in S, NEW b \in S, NEW c \in S
  PROVE  <<a, b>> \o <<c>> = <<a, b, c>>
<1>1. ASSUME NEW s, s = <<a, b>>, NEW t, t = <<c>>, NEW u, u = <<a, b, c>>
      PROVE  s \o t = u
  <2>1. s \in Seq(S) /\ t \in Seq(S) /\ u \in Seq(S)
    BY <1>1
  <2>2. Len(u) = Len(s) + Len(t) /\ Len(s) = 2 /\ Len(t) = 1
    BY <1>1
  <2>3. \A i \in 1 .. Len(s) : u[i] = s[i]
    BY <1>1, <2>2
  <2>4. \A i \in 1 .. Len(t) : u[Len(s) + i] = t[i]
    BY <1>1, <2>2
  <2> QED BY ONLY <2>1, <2>2, <2>3, <2>4, Joined
<1> QED BY <1>1

\* One and two.
LEMMA OneAndTwo ==
  ASSUME NEW S, NEW a \in S, NEW b \in S, NEW c \in S
  PROVE  <<a>> \o <<b, c>> = <<a, b, c>>
<1>1. ASSUME NEW s, s = <<a>>, NEW t, t = <<b, c>>, NEW u, u = <<a, b, c>>
      PROVE  s \o t = u
  <2>1. s \in Seq(S) /\ t \in Seq(S) /\ u \in Seq(S)
    BY <1>1
  <2>2. Len(u) = Len(s) + Len(t) /\ Len(s) = 1 /\ Len(t) = 2
    BY <1>1
  <2>3. \A i \in 1 .. Len(s) : u[i] = s[i]
    BY <1>1, <2>2
  <2>4. \A i \in 1 .. Len(t) : u[Len(s) + i] = t[i]
    BY <1>1, <2>2
  <2> QED BY ONLY <2>1, <2>2, <2>3, <2>4, Joined
<1> QED BY <1>1

\* Three and one.
LEMMA FourJoined ==
  ASSUME NEW S, NEW a \in S, NEW b \in S, NEW c \in S, NEW d \in S
  PROVE  <<a, b, c>> \o <<d>> = <<a, b, c, d>>
<1>1. ASSUME NEW s, s = <<a, b, c>>, NEW t, t = <<d>>, NEW u, u = <<a, b, c, d>>
      PROVE  s \o t = u
  <2>1. s \in Seq(S) /\ t \in Seq(S) /\ u \in Seq(S)
    BY <1>1
  <2>2. Len(u) = Len(s) + Len(t) /\ Len(s) = 3 /\ Len(t) = 1
    BY <1>1
  <2>3. \A i \in 1 .. Len(s) : u[i] = s[i]
    BY <1>1, <2>2
  <2>4. \A i \in 1 .. Len(t) : u[Len(s) + i] = t[i]
    BY <1>1, <2>2
  <2> QED BY ONLY <2>1, <2>2, <2>3, <2>4, Joined
<1> QED BY <1>1

\* Four and one.
LEMMA FiveJoined ==
  ASSUME NEW S, NEW a \in S, NEW b \in S, NEW c \in S, NEW d \in S, NEW e \in S
  PROVE  <<a, b, c, d>> \o <<e>> = <<a, b, c, d, e>>
<1>1. ASSUME NEW s, s = <<a, b, c, d>>, NEW t, t = <<e>>, NEW u, u = <<a, b, c, d, e>>
      PROVE  s \o t = u
  <2>1. s \in Seq(S) /\ t \in Seq(S) /\ u \in Seq(S)
    BY <1>1
  <2>2. Len(u) = Len(s) + Len(t) /\ Len(s) = 4 /\ Len(t) = 1
    BY <1>1
  <2>3. \A i \in 1 .. Len(s) : u[i] = s[i]
    BY <1>1, <2>2
  <2>4. \A i \in 1 .. Len(t) : u[Len(s) + i] = t[i]
    BY <1>1, <2>2
  <2> QED BY ONLY <2>1, <2>2, <2>3, <2>4, Joined
<1> QED BY <1>1

\* Five and one.
LEMMA SixJoined ==
  ASSUME NEW S, NEW a \in S, NEW b \in S, NEW c \in S, NEW d \in S, NEW e \in S, NEW f \in S
  PROVE  <<a, b, c, d, e>> \o <<f>> = <<a, b, c, d, e, f>>
<1>1. ASSUME NEW s, s = <<a, b, c, d, e>>, NEW t, t = <<f>>, NEW u, u = <<a, b, c, d, e, f>>
      PROVE  s \o t = u
  <2>1. s \in Seq(S) /\ t \in Seq(S) /\ u \in Seq(S)
    BY <1>1
  <2>2. Len(u) = Len(s) + Len(t) /\ Len(s) = 5 /\ Len(t) = 1
    BY <1>1
  <2>3. \A i \in 1 .. Len(s) : u[i] = s[i]
    BY <1>1, <2>2
  <2>4. \A i \in 1 .. Len(t) : u[Len(s) + i] = t[i]
    BY <1>1, <2>2
  <2> QED BY ONLY <2>1, <2>2, <2>3, <2>4, Joined
<1> QED BY <1>1

\* Three and two.
LEMMA ThreeAndTwo ==
  ASSUME NEW S, NEW a \in S, NEW b \in S, NEW c \in S, NEW d \in S, NEW e \in S
  PROVE  <<a, b, c>> \o <<d, e>> = <<a, b, c, d, e>>
<1>1. ASSUME NEW s, s = <<a, b, c>>, NEW t, t = <<d, e>>, NEW u, u = <<a, b, c, d, e>>
      PROVE  s \o t = u
  <2>1. s \in Seq(S) /\ t \in Seq(S) /\ u \in Seq(S)
    BY <1>1
  <2>2. Len(u) = Len(s) + Len(t) /\ Len(s) = 3 /\ Len(t) = 2
    BY <1>1
  <2>3. \A i \in 1 .. Len(s) : u[i] = s[i]
    BY <1>1, <2>2
  <2>4. \A i \in 1 .. Len(t) : u[Len(s) + i] = t[i]
    BY <1>1, <2>2
  <2> QED BY ONLY <2>1, <2>2, <2>3, <2>4, Joined
<1> QED BY <1>1

\* Five and two.
LEMMA FiveAndTwo ==
  ASSUME NEW S, NEW a \in S, NEW b \in S, NEW c \in S, NEW d \in S, NEW e \in S, NEW f \in S, NEW g \in S
  PROVE  <<a, b, c, d, e>> \o <<f, g>> = <<a, b, c, d, e, f, g>>
<1>1. ASSUME NEW s, s = <<a, b, c, d, e>>, NEW t, t = <<f, g>>, NEW u, u = <<a, b, c, d, e, f, g>>
      PROVE  s \o t = u
  <2>1. s \in Seq(S) /\ t \in Seq(S) /\ u \in Seq(S)
    BY <1>1
  <2>2. Len(u) = Len(s) + Len(t) /\ Len(s) = 5 /\ Len(t) = 2
    BY <1>1
  <2>3. \A i \in 1 .. Len(s) : u[i] = s[i]
    BY <1>1, <2>2
  <2>4. \A i \in 1 .. Len(t) : u[Len(s) + i] = t[i]
    BY <1>1, <2>2
  <2> QED BY ONLY <2>1, <2>2, <2>3, <2>4, Joined
<1> QED BY <1>1

LeafSet == [tag : Octet, value : Seq(Octet)]

\* The bytes a, at most n of them, are whole elements, with the leaves la.
Fits(a, la, n) ==
  /\ a \in Seq(Octet) /\ la \in Seq(LeafSet) /\ Len(a) <= n
  /\ \A rest \in Seq(Octet) :
       LeavesOf[rest] \in Seq(LeafSet) => LeavesOf[a \o rest] = la \o LeavesOf[rest]

\* Nothing has no leaves.
LEMMA LeavesOfNothing == LeavesOf[<<>>] = <<>>
<1>1. <<>> \in Seq(Octet)
  OBVIOUS
<1>2. LeafBody(LeavesOf, <<>>) = <<>>
  BY DEF LeafBody
<1> QED BY <1>1, <1>2, LeavesOfIs

\* The leaves of all the bytes.
LEMMA FitsWhole ==
  ASSUME NEW a, NEW la, NEW n, Fits(a, la, n)
  PROVE  LeavesOf[a] = la
<1> DEFINE e == <<>>
<1>1. e \in Seq(Octet) /\ e \in Seq(LeafSet)
  OBVIOUS
<1>2. LeavesOf[e] = e
  BY LeavesOfNothing
<1>3. a \o e = a /\ la \o e = la
  <2>1. a \in Seq(Octet) /\ la \in Seq(LeafSet)
    BY DEF Fits
  <2> QED BY <2>1, ConcatEmptySeq
<1> HIDE DEF e
<1>4. LeavesOf[a \o e] = la \o LeavesOf[e]
  BY <1>1, <1>2 DEF Fits
<1> QED BY <1>2, <1>3, <1>4

Adds(m, k, n) == m \in Nat /\ k \in Nat /\ n \in Nat /\ m + k <= n

\* One after the other.
LEMMA FitsConcat ==
  ASSUME NEW a, NEW la, NEW m, Fits(a, la, m), NEW b, NEW lb, NEW k, Fits(b, lb, k),
         NEW n, Adds(m, k, n)
  PROVE  Fits(a \o b, la \o lb, n)
<1>0. m \in Nat /\ k \in Nat /\ n \in Nat /\ m + k <= n
  BY DEF Adds
<1>1. /\ a \in Seq(Octet) /\ la \in Seq(LeafSet) /\ Len(a) <= m
      /\ b \in Seq(Octet) /\ lb \in Seq(LeafSet) /\ Len(b) <= k
  BY DEF Fits
<1>2. a \o b \in Seq(Octet) /\ Len(a \o b) = Len(a) + Len(b) /\ la \o lb \in Seq(LeafSet)
  BY <1>1, ConcatProperties
<1>3. Len(a \o b) <= n
  BY <1>0, <1>1, <1>2, LenProperties
<1>4. ASSUME NEW rest \in Seq(Octet), LeavesOf[rest] \in Seq(LeafSet)
      PROVE  LeavesOf[(a \o b) \o rest] = (la \o lb) \o LeavesOf[rest]
  <2> DEFINE c == b \o rest
             lr == LeavesOf[rest]
             lc == lb \o lr
  <2>1. c \in Seq(Octet) /\ lc \in Seq(LeafSet)
    BY <1>1, <1>4, ConcatProperties
  <2>2. LeavesOf[c] = lc
    BY <1>4 DEF Fits
  <2>3. (a \o b) \o rest = a \o c
    BY <1>1, ConcatAssociative
  <2>4. (la \o lb) \o lr = la \o lc
    <3>1. lr \in Seq(LeafSet)
      BY <1>4
    <3> HIDE DEF lr
    <3> QED BY <1>1, <3>1, ConcatAssociative
  <2> HIDE DEF c, lc
  <2>5. LeavesOf[a \o c] = la \o lc
    BY <2>1, <2>2 DEF Fits
  <2> QED BY <2>3, <2>4, <2>5
<1> QED BY <1>2, <1>3, <1>4 DEF Fits

\* One leaf.
Single(tag, content) == <<Leaf(tag, content)>>

\* The leaves of one element.
OwnLeaves(tag, content) == IF Constructed(tag) THEN LeavesOf[content] ELSE Single(tag, content)

\* The leaves of an element, and of what follows it.
LEMMA LeavesOfEncoded ==
  ASSUME NEW tag \in Octet, NEW lb, NEW content \in Seq(Octet), LengthForm(lb, Len(content)),
         NEW rest \in Seq(Octet)
  PROVE  LeavesOf[Encoded(tag, lb, content) \o rest] = OwnLeaves(tag, content) \o LeavesOf[rest]
<1> DEFINE a == Encoded(tag, lb, content)
           data == a \o rest
           e == Element(data, 1, Len(data) + 1, data[1])
<1>1. a \in Seq(Octet) /\ Len(a) = 1 + Len(lb) + Len(content)
  BY EncodedStands
<1> HIDE DEF a
<1>2. /\ data \in Seq(Octet) /\ Len(data) = Len(a) + Len(rest) /\ Stands(data, 1, a)
      /\ SubSeq(data, Len(a) + 1, Len(data)) = rest
  BY <1>1, HeadStands
<1>3. Len(lb) \in Nat /\ Len(content) \in Nat /\ Len(rest) \in Nat /\ Len(a) \in Nat
  BY <1>1, LenProperties DEF LengthForm
<1> HIDE DEF data
<1>4. data[1] = tag /\ Stands(data, 1 + 1 + Len(lb), content)
  BY <1>2, EncodedStands DEF a
<1>5. Element(data, 1, Len(data) + 1, tag) = Whole(tag, lb, content, 1, Len(data) + 1)
  <2>1. Len(data) + 1 \in Nat /\ 1 + Len(a) <= Len(data) + 1
    BY <1>2, <1>3
  <2> DEFINE end == Len(data) + 1
  <2> HIDE DEF end
  <2>2. Element(data, 1, end, tag) = Whole(tag, lb, content, 1, end)
    BY <1>2, <2>1, EncodedRead DEF a, end
  <2> QED BY <2>2 DEF end
<1>6. e = [is |-> "ok", from |-> 1 + 1 + Len(lb), to |-> 1 + 1 + Len(lb) + Len(content),
           end |-> Len(data) + 1]
  BY <1>4, <1>5 DEF Whole
<1> HIDE DEF e
<1>7. Content(data, e) = content
  <2>1. SubSeq(data, 1 + 1 + Len(lb), 1 + 1 + Len(lb) + Len(content) - 1) = content
    BY <1>2, <1>4, StandsIs
  <2> QED BY <1>6, <2>1 DEF Content
<1>8. SubSeq(data, e.to, Len(data)) = rest
  <2>1. 1 + 1 + Len(lb) + Len(content) = Len(a) + 1
    BY <1>1, <1>3
  <2> QED BY <1>2, <1>6, <2>1
<1>9. data # <<>>
  <2>1. Len(data) # 0
    BY <1>1, <1>2, <1>3
  <2> QED BY <2>1
<1>10. e.is = "ok"
  BY <1>6
<1>11. LeavesOf[data] = (IF Constructed(data[1]) THEN LeavesOf[Content(data, e)]
                         ELSE <<[tag |-> data[1], value |-> Content(data, e)]>>)
                           \o LeavesOf[SubSeq(data, e.to, Len(data))]
  <2>1. LeavesOf[data] = LeafBody(LeavesOf, data)
    BY <1>2, LeavesOfIs
  <2>2. LeafBody(LeavesOf, data) = (IF Constructed(data[1]) THEN LeavesOf[Content(data, e)]
                         ELSE <<[tag |-> data[1], value |-> Content(data, e)]>>)
                           \o LeavesOf[SubSeq(data, e.to, Len(data))]
    BY <1>9, <1>10 DEF LeafBody, e
  <2> QED BY <2>1, <2>2
<1>12. LeavesOf[data] = OwnLeaves(tag, content) \o LeavesOf[rest]
  BY <1>4, <1>7, <1>8, <1>11 DEF Leaf, OwnLeaves, Single
<1> QED BY <1>12 DEF data, a

\* What the client writes with a length is an element.
LEMMA AppendIsEncoded ==
  ASSUME NEW tag, NEW content
  PROVE  appendSequence(tag, content) = Encoded(tag, appendLength(Len(content)), content)
  BY DEF appendSequence, Encoded

\* The bytes a, at most n of them, come to the leaves la and those of what follows.
Yields(a, n, la) ==
  /\ a \in Seq(Octet) /\ Len(a) <= n
  /\ \A rest \in Seq(Octet) : LeavesOf[a \o rest] = la \o LeavesOf[rest]

\* A text of at most m bytes, in an element of at most n.
IsText(content, m) == content \in Seq(Octet) /\ Len(content) <= m
Room(m, n) == m \in Nat /\ n \in Nat /\ m + 4 <= n /\ n <= 65535

\* Such an element, for contents that are not too long.
LEMMA AppendedElement ==
  ASSUME NEW tag \in Octet, NEW content, NEW m, IsText(content, m), NEW n, Room(m, n), NEW a, a = appendSequence(tag, content)
  PROVE  Yields(a, n, OwnLeaves(tag, content))
<1> DEFINE k == Len(content)
           lb == appendLength(k)
           b == Encoded(tag, lb, content)
<1>0. content \in Seq(Octet) /\ Len(content) <= m
  BY DEF IsText
<1>1. k \in Nat /\ k <= m /\ m \in Nat /\ n \in Nat /\ m + 4 <= n /\ n <= 65535
  BY ONLY <1>0, Room(m, n), LenProperties DEF Room
<1> HIDE DEF k
<1>2. k \in Nat /\ k <= 65535
  BY <1>1
<1>3. LengthForm(lb, k) /\ Len(lb) <= 3
  BY ONLY <1>2, AppendLengthForm
<1> HIDE DEF lb
<1>4. Len(lb) \in Nat
  BY ONLY <1>3, LenProperties DEF LengthForm
<1> USE DEF k
<1>5. b \in Seq(Octet) /\ Len(b) = 1 + Len(lb) + k
  BY ONLY tag \in Octet, <1>0, <1>3, EncodedStands
<1>6. \A rest \in Seq(Octet) : LeavesOf[b \o rest] = OwnLeaves(tag, content) \o LeavesOf[rest]
  BY ONLY tag \in Octet, <1>0, <1>3, LeavesOfEncoded
<1>7. a = b
  BY AppendIsEncoded DEF lb
<1> HIDE DEF b, k
<1>8. Len(a) <= n
  <2> DEFINE l == Len(lb)
             x == Len(b)
  <2>1. l \in Nat /\ l <= 3 /\ x = 1 + l + k
    BY <1>3, <1>4, <1>5
  <2> HIDE DEF l, x
  <2>2. x <= n
    BY <1>1, <2>1
  <2> QED BY <1>7, <2>2 DEF x
<1> QED BY <1>5, <1>6, <1>7, <1>8 DEF Yields

Primitive(tag) == ~Constructed(tag)

\* An element that holds a value is a leaf.
LEMMA FitsPrimitive ==
  ASSUME NEW tag \in Octet, Primitive(tag), NEW content, NEW m, IsText(content, m),
         NEW n, Room(m, n), NEW a, a = appendSequence(tag, content)
  PROVE  Fits(a, Single(tag, content), n)
<1>1. Yields(a, n, OwnLeaves(tag, content))
  BY AppendedElement
<1>2. Yields(a, n, Single(tag, content))
  BY <1>1 DEF OwnLeaves, Primitive
<1>3. Single(tag, content) \in Seq(LeafSet)
  <2>1. Leaf(tag, content) \in LeafSet
    BY DEF Leaf, LeafSet, IsText
  <2> QED BY ONLY <2>1 DEF Single
<1> QED BY <1>2, <1>3 DEF Fits, Yields

\* An element that holds elements has their leaves.
LEMMA FitsConstructed ==
  ASSUME NEW tag \in Octet, Constructed(tag), NEW content, NEW la, NEW m, Fits(content, la, m),
         NEW n, Room(m, n), NEW a, a = appendSequence(tag, content)
  PROVE  Fits(a, la, n)
<1>1. IsText(content, m) /\ la \in Seq(LeafSet)
  BY DEF Fits, IsText
<1>2. LeavesOf[content] = la
  BY FitsWhole
<1>3. Yields(a, n, OwnLeaves(tag, content))
  BY <1>1, AppendedElement
<1>4. Yields(a, n, la)
  BY <1>2, <1>3 DEF OwnLeaves
<1> QED BY <1>1, <1>4 DEF Fits, Yields

\* A value of one byte.
LEMMA FitsByte ==
  ASSUME NEW tag \in Octet, Primitive(tag), NEW v \in Octet
  PROVE  Fits(<<tag, 1, v>>, Single(tag, <<v>>), 5)
<1>1. ASSUME NEW content, content = <<v>>, NEW a, a = appendSequence(tag, content)
      PROVE  a = <<tag, 1, v>> /\ Fits(a, Single(tag, content), 5)
  <2>1. content \in Seq(Octet) /\ Len(content) = 1
    BY <1>1
  <2>2. IsText(content, 1) /\ Room(1, 5)
    BY <2>1 DEF IsText, Room
  <2>3. a = <<tag>> \o appendLength(Len(content)) \o content
    BY <1>1 DEF appendSequence
  <2>4. appendLength(Len(content)) = <<1>>
    BY <2>1 DEF appendLength
  <2>5. a = (<<tag>> \o <<1>>) \o <<v>>
    BY <1>1, <2>3, <2>4
  <2>6. (<<tag>> \o <<1>>) \o <<v>> = <<tag, 1, v>>
    <3>1. 1 \in Octet
      BY IsOctet
    <3>2. <<tag>> \o <<1>> = <<tag, 1>>
      BY <3>1, TwoJoined
    <3>3. <<tag, 1>> \o <<v>> = <<tag, 1, v>>
      BY <3>1, ThreeJoined
    <3> QED BY ONLY <3>2, <3>3
  <2>7. Fits(a, Single(tag, content), 5)
    BY <1>1, <2>2, FitsPrimitive
  <2> QED BY <2>5, <2>6, <2>7
<1> QED BY <1>1
-----------------------------------------------------------------------------
\* The requests.

\* The tags of the elements that hold values, and of those that hold elements.
LEMMA Tags ==
  /\ \A tag \in {1, 2, 4, 10, 74, 128, 135} : tag \in Octet /\ Primitive(tag)
  /\ \A tag \in {48, 49, 96, 99, 104, 163} : tag \in Octet /\ Constructed(tag)
<1>1. \A tag \in {1, 2, 4, 10, 74, 128, 135} : tag \in Octet
  BY IsOctet
<1>2. \A tag \in {48, 49, 96, 99, 104, 163} : tag \in Octet
  BY IsOctet
<1>3. \A tag \in {1, 2, 4, 10, 74, 128, 135} : Primitive(tag)
  BY DEF Primitive, Constructed
<1>4. \A tag \in {48, 49, 96, 99, 104, 163} : Constructed(tag)
  BY DEF Constructed
<1> QED BY <1>1, <1>2, <1>3, <1>4

\* The texts that the client puts into every request.
LEMMA FixedTexts ==
  /\ \A n \in Nat : IsText(Octets(n), n)
  /\ IsText(cn, 2) /\ IsText(description, 11) /\ IsText(baseDN, 28)
<1>1. ASSUME NEW n \in Nat
      PROVE  IsText(Octets(n), n)
  <2> DEFINE s == Octets(n)
  <2>1. s = [i \in 1 .. n |-> 65]
    BY DEF Octets
  <2>2. 65 \in Octet
    BY IsOctet
  <2> HIDE DEF s
  <2>3. s \in [1 .. n -> Octet]
    BY <2>1, <2>2
  <2>4. s \in Seq(Octet)
    BY <2>3, IsASeq
  <2>5. Len(s) = n
    BY <2>3, <2>4, LenProperties
  <2> QED BY <2>4, <2>5 DEF IsText, s
<1>2. IsText(cn, 2)
  <2>1. 99 \in Octet /\ 110 \in Octet
    BY IsOctet
  <2>2. cn \in Seq(Octet) /\ Len(cn) = 2
    BY ONLY <2>1 DEF cn
  <2> QED BY <2>2 DEF IsText
<1>3. IsText(description, 11)
  <2>1. /\ 100 \in Octet /\ 101 \in Octet /\ 115 \in Octet /\ 99 \in Octet /\ 114 \in Octet
        /\ 105 \in Octet /\ 112 \in Octet /\ 116 \in Octet /\ 111 \in Octet /\ 110 \in Octet
    BY IsOctet
  <2>2. description \in Seq(Octet) /\ Len(description) = 11
    BY ONLY <2>1 DEF description
  <2> QED BY <2>2 DEF IsText
<1>4. IsText(baseDN, 28)
  BY <1>1 DEF baseDN
<1> QED BY <1>1, <1>2, <1>3, <1>4

\* A name or a speed as it is written.
LEMMA TypedTexts ==
  ASSUME NEW text \in Planes \cup Speeds \cup {Empty}, NEW id \in Ids
  PROVE  IsText(Bytes(text, id), 20000)
<1> DEFINE s == Bytes(text, id)
           n == Lengths[id]
<1>1. CASE text = Empty
  <2>1. s \in Seq(Octet) /\ Len(s) = 0
    BY <1>1 DEF Bytes
  <2> QED BY <2>1 DEF IsText
<1>2. CASE text # Empty
  <2>1. s = [i \in 1 .. n |-> Code[text]]
    BY <1>2 DEF Bytes
  <2>2. Code[text] \in Octet
    <3>1. Code[text] \in 1 .. 255
      BY <1>2, WireAssumption
    <3> DEFINE b == Code[text]
    <3> HIDE DEF b
    <3>2. b \in Nat /\ b < 256
      BY <3>1 DEF b
    <3>3. b \in Octet
      BY <3>2, IsOctet
    <3> QED BY <3>3 DEF b
  <2>3. n \in Nat /\ n <= 20000
    BY WireAssumption
  <2> HIDE DEF s, n
  <2>4. s \in [1 .. n -> Octet]
    BY <2>1, <2>2
  <2>5. s \in Seq(Octet)
    BY <2>3, <2>4, IsASeq
  <2>6. Len(s) = n
    BY <2>3, <2>4, <2>5, LenProperties
  <2> QED BY <2>3, <2>5, <2>6 DEF IsText, s
<1> QED BY <1>1, <1>2

\* A text in an octet string.
LEMMA FitsString ==
  ASSUME NEW text, NEW m, IsText(text, m), NEW n, Room(m, n)
  PROVE  Fits(appendOctetString(text), Single(4, text), n)
<1>1. 4 \in Octet /\ Primitive(4)
  BY Tags
<1>2. appendOctetString(text) = appendSequence(4, text)
  BY DEF appendOctetString
<1> QED BY <1>1, <1>2, FitsPrimitive

\* A number.
LEMMA FitsInteger ==
  ASSUME NEW v \in Octet
  PROVE  Fits(appendInteger(v), Single(2, <<v>>), 5)
<1>1. v % 256 = v
  <2>1. v \in Nat /\ v < 256
    BY OctetIs
  <2> QED BY <2>1
<1>2. appendInteger(v) = <<2, 1, v>>
  BY <1>1 DEF appendInteger
<1>3. 2 \in Octet /\ Primitive(2)
  BY Tags
<1> QED BY <1>2, <1>3, FitsByte

\* A message: its id, and what it is about.
LEMMA FitsMessage ==
  ASSUME NEW id \in Octet, NEW tag, NEW content, NEW la, NEW m,
         Fits(appendSequence(tag, content), la, m), NEW k, Adds(5, m, k), NEW n, Room(k, n)
  PROVE  Fits(Message(id, tag, content), Single(2, <<id>>) \o la, n)
<1> DEFINE a == appendInteger(id)
           b == appendSequence(tag, content)
           ls == Single(2, <<id>>)
           c == a \o b
           lc == ls \o la
<1>1. Fits(a, ls, 5)
  BY FitsInteger
<1> HIDE DEF a, b, ls
<1>2. Fits(b, la, m)
  BY DEF b
<1>3. Fits(c, lc, k)
  BY <1>1, <1>2, FitsConcat
<1>4. 48 \in Octet /\ Constructed(48)
  BY Tags
<1> DEFINE d == appendSequence(48, c)
<1>5. d = appendSequence(48, c)
  OBVIOUS
<1> HIDE DEF c, d, lc
<1>6. Fits(d, lc, n)
  BY <1>3, <1>4, <1>5, FitsConstructed
<1> QED BY <1>6 DEF d, c, lc, ls, a, b, Message
\* A bind.
LEMMA FitsBind ==
  ASSUME NEW id \in Octet, NEW name, IsText(name, 27), NEW pass, IsText(pass, 4)
  PROVE  Fits(simpleBind(id, name, pass),
              Single(2, <<id>>) \o ((Single(2, <<3>>) \o Single(4, name)) \o Single(128, pass)), 100)
<1> DEFINE a == appendInteger(3)
           b == appendOctetString(name)
           c == appendSequence(128, pass)
           la == Single(2, <<3>>)
           lb == Single(4, name)
           lc == Single(128, pass)
           d == a \o b \o c
           ld == (la \o lb) \o lc
<1>1. Fits(a, la, 5)
  <2>1. 3 \in Octet
    BY IsOctet
  <2> QED BY <2>1, FitsInteger
<1>2. Fits(b, lb, 31)
  <2>1. Room(27, 31)
    BY DEF Room
  <2> QED BY <2>1, FitsString
<1>3. Fits(c, lc, 8)
  <2>1. Room(4, 8) /\ 128 \in Octet /\ Primitive(128)
    BY Tags DEF Room
  <2> QED BY <2>1, FitsPrimitive
<1> HIDE DEF a, b, c, la, lb, lc
<1>4. Fits(a \o b, la \o lb, 36)
  <2>1. Adds(5, 31, 36)
    BY DEF Adds
  <2> QED BY <1>1, <1>2, <2>1, FitsConcat
<1>5. Fits(d, ld, 44)
  <2>1. Adds(36, 8, 44)
    BY DEF Adds
  <2> QED BY <1>3, <1>4, <2>1, FitsConcat
<1> DEFINE e == appendSequence(96, d)
<1>6. e = appendSequence(96, d)
  OBVIOUS
<1> HIDE DEF d, ld, e
<1>7. Fits(e, ld, 48)
  <2>1. Room(44, 48) /\ 96 \in Octet /\ Constructed(96)
    BY Tags DEF Room
  <2> QED BY <1>5, <1>6, <2>1, FitsConstructed
<1>8. Fits(appendSequence(96, d), ld, 48)
  BY <1>6, <1>7
<1>9. Adds(5, 48, 53) /\ Room(53, 100)
  BY DEF Adds, Room
<1>10. Fits(Message(id, 96, d), Single(2, <<id>>) \o ld, 100)
  BY <1>8, <1>9, FitsMessage
<1> QED BY <1>10 DEF simpleBind, d, ld, a, b, c, la, lb, lc

\* The parameters that every search has.
SearchLeaves ==
  <<StrLeaf(baseDN), Leaf(10, <<2>>), Leaf(10, <<0>>), IntLeaf(0), IntLeaf(0), Leaf(1, <<0>>)>>

\* They are leaves.
LEMMA SearchLeavesType ==
  /\ StrLeaf(baseDN) \in LeafSet /\ Leaf(10, <<2>>) \in LeafSet /\ Leaf(10, <<0>>) \in LeafSet
  /\ IntLeaf(0) \in LeafSet /\ Leaf(1, <<0>>) \in LeafSet
  /\ SearchLeaves \in Seq(LeafSet)
<1> DEFINE ta == StrLeaf(baseDN)
           tb == Leaf(10, <<2>>)
           tc == Leaf(10, <<0>>)
           td == IntLeaf(0)
           te == Leaf(1, <<0>>)
<1>1. ta \in LeafSet /\ tb \in LeafSet /\ tc \in LeafSet /\ td \in LeafSet /\ te \in LeafSet
  <2>1. /\ 0 \in Octet /\ 1 \in Octet /\ 2 \in Octet /\ 4 \in Octet /\ 10 \in Octet
        /\ baseDN \in Seq(Octet)
    <3>1. 0 \in Octet /\ 1 \in Octet /\ 2 \in Octet /\ 4 \in Octet /\ 10 \in Octet
      BY IsOctet
    <3>2. baseDN \in Seq(Octet)
      BY FixedTexts DEF IsText
    <3> QED BY <3>1, <3>2
  <2>2. <<0>> \in Seq(Octet) /\ <<2>> \in Seq(Octet)
    BY ONLY <2>1
  <2> DEFINE zero == <<0>>
             two == <<2>>
  <2> HIDE DEF zero, two
  <2>3. zero \in Seq(Octet) /\ two \in Seq(Octet)
    BY <2>2 DEF zero, two
  <2>4. \A tag \in Octet, v \in Seq(Octet) : Leaf(tag, v) \in LeafSet
    BY DEF Leaf, LeafSet
  <2>5. /\ Leaf(4, baseDN) \in LeafSet /\ Leaf(10, two) \in LeafSet /\ Leaf(10, zero) \in LeafSet
        /\ Leaf(2, zero) \in LeafSet /\ Leaf(1, zero) \in LeafSet
    BY ONLY <2>1, <2>3, <2>4
  <2> QED BY <2>5 DEF zero, two, StrLeaf, IntLeaf
<1>2. SearchLeaves = <<ta, tb, tc, td, td, te>>
  BY DEF SearchLeaves
<1> HIDE DEF ta, tb, tc, td, te
<1>3. SearchLeaves \in Seq(LeafSet)
  BY ONLY <1>1, <1>2
<1> QED BY <1>1, <1>3 DEF ta, tb, tc, td, te

\* The content of a search.
LEMMA FitsSearchContent ==
  ASSUME NEW filter, NEW lf, NEW m, Fits(filter, lf, m),
         NEW attributes, NEW la, Fits(appendSequence(48, attributes), la, 40),
         NEW k, Adds(57, m, k), NEW n, Adds(k, 40, n)
  PROVE  Fits(SearchContent(filter, attributes), (SearchLeaves \o lf) \o la, n)
<1> DEFINE a == appendOctetString(baseDN)
           b == <<10, 1, 2>>
           c == <<10, 1, 0>>
           d == appendInteger(0)
           e == <<1, 1, 0>>
           z == appendSequence(48, attributes)
           ta == StrLeaf(baseDN)
           tb == Leaf(10, <<2>>)
           tc == Leaf(10, <<0>>)
           td == IntLeaf(0)
           te == Leaf(1, <<0>>)
<1>1. Fits(a, <<ta>>, 32)
  <2>1. Room(28, 32)
    BY DEF Room
  <2>2. Fits(a, Single(4, baseDN), 32)
    BY <2>1, FixedTexts, FitsString
  <2> QED BY <2>2 DEF Single, StrLeaf
<1>2. Fits(b, <<tb>>, 5) /\ Fits(c, <<tc>>, 5)
  <2>1. 2 \in Octet /\ 0 \in Octet /\ 10 \in Octet /\ Primitive(10)
    BY Tags, IsOctet
  <2>2. Fits(b, Single(10, <<2>>), 5)
    BY <2>1, FitsByte
  <2>3. Fits(c, Single(10, <<0>>), 5)
    BY <2>1, FitsByte
  <2> QED BY <2>2, <2>3 DEF Single
<1>3. Fits(d, <<td>>, 5)
  <2>1. 0 \in Octet
    BY IsOctet
  <2>2. Fits(d, Single(2, <<0>>), 5)
    BY <2>1, FitsInteger
  <2> QED BY <2>2 DEF Single, IntLeaf
<1>4. Fits(e, <<te>>, 5)
  <2>1. 0 \in Octet /\ 1 \in Octet /\ Primitive(1)
    BY Tags, IsOctet
  <2>2. Fits(e, Single(1, <<0>>), 5)
    BY <2>1, FitsByte
  <2> QED BY <2>2 DEF Single
<1>5. Fits(z, la, 40)
  OBVIOUS
<1>6. ta \in LeafSet /\ tb \in LeafSet /\ tc \in LeafSet /\ td \in LeafSet /\ te \in LeafSet
  BY SearchLeavesType
<1> HIDE DEF a, b, c, d, e, z, ta, tb, tc, td, te
<1>7. /\ Adds(32, 5, 37) /\ Adds(37, 5, 42) /\ Adds(42, 5, 47) /\ Adds(47, 5, 52) /\ Adds(52, 5, 57)
  BY DEF Adds
<1>8. Fits(a \o b, <<ta, tb>>, 37)
  <2>1. <<ta>> \o <<tb>> = <<ta, tb>>
    BY <1>6, TwoJoined
  <2>2. Fits(a \o b, <<ta>> \o <<tb>>, 37)
    BY <1>1, <1>2, <1>7, FitsConcat
  <2> QED BY <2>1, <2>2
<1>9. Fits(a \o b \o c, <<ta, tb, tc>>, 42)
  <2>1. <<ta, tb>> \o <<tc>> = <<ta, tb, tc>>
    BY <1>6, ThreeJoined
  <2>2. Fits((a \o b) \o c, <<ta, tb>> \o <<tc>>, 42)
    BY <1>2, <1>7, <1>8, FitsConcat
  <2> QED BY <2>1, <2>2
<1>10. Fits(a \o b \o c \o d, <<ta, tb, tc, td>>, 47)
  <2>1. <<ta, tb, tc>> \o <<td>> = <<ta, tb, tc, td>>
    BY <1>6, FourJoined
  <2>2. Fits((a \o b \o c) \o d, <<ta, tb, tc>> \o <<td>>, 47)
    BY <1>3, <1>7, <1>9, FitsConcat
  <2> QED BY <2>1, <2>2
<1>11. Fits(a \o b \o c \o d \o d, <<ta, tb, tc, td, td>>, 52)
  <2>1. <<ta, tb, tc, td>> \o <<td>> = <<ta, tb, tc, td, td>>
    BY <1>6, FiveJoined
  <2>2. Fits((a \o b \o c \o d) \o d, <<ta, tb, tc, td>> \o <<td>>, 52)
    BY <1>3, <1>7, <1>10, FitsConcat
  <2> QED BY <2>1, <2>2
<1>12. Fits(a \o b \o c \o d \o d \o e, <<ta, tb, tc, td, td, te>>, 57)
  <2>1. <<ta, tb, tc, td, td>> \o <<te>> = <<ta, tb, tc, td, td, te>>
    BY <1>6, SixJoined
  <2>2. Fits((a \o b \o c \o d \o d) \o e, <<ta, tb, tc, td, td>> \o <<te>>, 57)
    BY <1>4, <1>7, <1>11, FitsConcat
  <2> QED BY <2>1, <2>2
<1> DEFINE x == a \o b \o c \o d \o d \o e
           lx == <<ta, tb, tc, td, td, te>>
<1>13. SearchContent(filter, attributes) = (x \o filter) \o z /\ lx = SearchLeaves
  BY DEF SearchContent, SearchLeaves, a, b, c, d, e, z, ta, tb, tc, td, te
<1>14. Fits(x, lx, 57)
  BY <1>12
<1> HIDE DEF x, lx
<1>15. Fits(x \o filter, lx \o lf, k)
  BY <1>14, FitsConcat
<1>16. Fits((x \o filter) \o z, (lx \o lf) \o la, n)
  BY <1>5, <1>15, FitsConcat
<1> QED BY <1>13, <1>16
\* Two texts, one after the other.
LEMMA FitsTwoStrings ==
  ASSUME NEW s, NEW k, IsText(s, k), NEW m, Room(k, m), NEW t, NEW j, IsText(t, j),
         NEW n, Room(j, n), NEW x, Adds(m, n, x)
  PROVE  Fits(appendOctetString(s) \o appendOctetString(t), <<StrLeaf(s), StrLeaf(t)>>, x)
<1> DEFINE a == appendOctetString(s)
           b == appendOctetString(t)
           la == StrLeaf(s)
           lb == StrLeaf(t)
<1>1. Fits(a, <<la>>, m)
  <2>1. Fits(a, Single(4, s), m)
    BY FitsString
  <2> QED BY <2>1 DEF Single, StrLeaf
<1>2. Fits(b, <<lb>>, n)
  <2>1. Fits(b, Single(4, t), n)
    BY FitsString
  <2> QED BY <2>1 DEF Single, StrLeaf
<1>3. la \in LeafSet /\ lb \in LeafSet
  <2>1. 4 \in Octet
    BY IsOctet
  <2> QED BY <2>1 DEF StrLeaf, Leaf, LeafSet, IsText
<1> HIDE DEF a, b, la, lb
<1>4. <<la>> \o <<lb>> = <<la, lb>>
  BY <1>3, TwoJoined
<1>5. Fits(a \o b, <<la>> \o <<lb>>, x)
  BY <1>1, <1>2, FitsConcat
<1>6. Fits(a \o b, <<la, lb>>, x)
  BY <1>4, <1>5
<1> QED BY <1>6 DEF a, b, la, lb

\* A leaf is one if its tag is a byte and its value a text.
LEMMA IsLeaf ==
  ASSUME NEW tag \in Octet, NEW text, NEW m, IsText(text, m)
  PROVE  Leaf(tag, text) \in LeafSet
  BY DEF Leaf, LeafSet, IsText

\* A search for one name, with its six parameters before it.
LEMMA FitsSearch ==
  ASSUME NEW id \in Octet, NEW name, IsText(name, 20000)
  PROVE  Fits(buildSearchRequest(id, name),
              Single(2, <<id>>) \o
                (SearchLeaves \o <<StrLeaf(cn), StrLeaf(name), StrLeaf(description)>>), 30000)
<1> DEFINE a == appendOctetString(cn) \o appendOctetString(name)
           filter == appendSequence(163, a)
           attributes == appendOctetString(description)
           z == appendSequence(48, attributes)
           la == StrLeaf(cn)
           lb == StrLeaf(name)
           lc == StrLeaf(description)
<1>1. Fits(a, <<la, lb>>, 20010)
  <2>1. Room(2, 6) /\ Room(20000, 20004) /\ Adds(6, 20004, 20010)
    BY DEF Room, Adds
  <2> QED BY <2>1, FixedTexts, FitsTwoStrings
<1>2. Fits(attributes, <<lc>>, 15)
  <2>1. Room(11, 15)
    BY DEF Room
  <2>2. Fits(attributes, Single(4, description), 15)
    BY <2>1, FixedTexts, FitsString
  <2> QED BY <2>2 DEF Single, StrLeaf
<1>3. la \in LeafSet /\ lb \in LeafSet /\ lc \in LeafSet
  <2>1. 4 \in Octet
    BY IsOctet
  <2> QED BY <2>1, FixedTexts, IsLeaf DEF StrLeaf
<1>4. filter = appendSequence(163, a) /\ z = appendSequence(48, attributes)
  OBVIOUS
<1> HIDE DEF a, filter, attributes, z, la, lb, lc
<1> DEFINE lf == <<la, lb>>
           lz == <<lc>>
<1>5. lf \in Seq(LeafSet) /\ lz \in Seq(LeafSet)
  BY <1>3
<1>6. lf \o lz = <<la, lb, lc>>
  BY <1>3, ThreeJoined
<1> HIDE DEF lf, lz
<1>7. Fits(filter, lf, 20014)
  <2>1. Room(20010, 20014) /\ 163 \in Octet /\ Constructed(163)
    BY Tags DEF Room
  <2> QED BY <1>1, <1>4, <2>1, FitsConstructed DEF lf
<1>8. Fits(z, lz, 40)
  <2>1. Room(15, 40) /\ 48 \in Octet /\ Constructed(48)
    BY Tags DEF Room
  <2> QED BY <1>2, <1>4, <2>1, FitsConstructed DEF lz
<1> DEFINE s == SearchContent(filter, attributes)
<1>9. Fits(s, (SearchLeaves \o lf) \o lz, 20111)
  <2>1. Adds(57, 20014, 20071) /\ Adds(20071, 40, 20111)
    BY DEF Adds
  <2> QED BY <1>4, <1>7, <1>8, <2>1, FitsSearchContent
<1>10. SearchLeaves \in Seq(LeafSet)
  BY SearchLeavesType
<1>11. (SearchLeaves \o lf) \o lz = SearchLeaves \o (lf \o lz)
  BY <1>5, <1>10, ConcatAssociative
<1> DEFINE ls == SearchLeaves \o <<la, lb, lc>>
<1>12. ls = (SearchLeaves \o lf) \o lz
  BY <1>6, <1>11
<1> HIDE DEF ls, s
<1>13. Fits(s, ls, 20111)
  BY <1>9, <1>12
<1>14. Fits(appendSequence(99, s), ls, 20115)
  <2>1. Room(20111, 20115) /\ 99 \in Octet /\ Constructed(99)
    BY Tags DEF Room
  <2> QED BY <1>13, <2>1, FitsConstructed
<1>15. Fits(Message(id, 99, s), Single(2, <<id>>) \o ls, 30000)
  <2>1. Adds(5, 20115, 20120) /\ Room(20120, 30000)
    BY DEF Adds, Room
  <2> QED BY <1>14, <2>1, FitsMessage
<1> QED BY <1>15 DEF buildSearchRequest, s, ls, filter, attributes, a, la, lb, lc

\* A list of all planes.
LEMMA FitsList ==
  ASSUME NEW id \in Octet
  PROVE  Fits(getAllPlanes(id),
              Single(2, <<id>>) \o
                (SearchLeaves \o <<Leaf(135, Octets(11)), StrLeaf(cn), StrLeaf(description)>>), 30000)
<1> DEFINE filter == appendSequence(135, Octets(11))
           attributes == appendOctetString(cn) \o appendOctetString(description)
           z == appendSequence(48, attributes)
           la == Leaf(135, Octets(11))
           lb == StrLeaf(cn)
           lc == StrLeaf(description)
<1>0. IsText(Octets(11), 11)
  BY FixedTexts
<1>1. Fits(filter, <<la>>, 15)
  <2>1. Room(11, 15) /\ 135 \in Octet /\ Primitive(135)
    BY Tags DEF Room
  <2>2. Fits(filter, Single(135, Octets(11)), 15)
    BY <1>0, <2>1, FitsPrimitive
  <2> QED BY <2>2 DEF Single
<1>2. Fits(attributes, <<lb, lc>>, 21)
  <2>1. Room(2, 6) /\ Room(11, 15) /\ Adds(6, 15, 21)
    BY DEF Room, Adds
  <2> QED BY <2>1, FixedTexts, FitsTwoStrings
<1>3. la \in LeafSet /\ lb \in LeafSet /\ lc \in LeafSet
  <2>1. 4 \in Octet /\ 135 \in Octet
    BY IsOctet
  <2> QED BY <1>0, <2>1, FixedTexts, IsLeaf DEF StrLeaf
<1>4. z = appendSequence(48, attributes)
  OBVIOUS
<1> HIDE DEF filter, attributes, z, la, lb, lc
<1> DEFINE lf == <<la>>
           lz == <<lb, lc>>
<1>5. lf \in Seq(LeafSet) /\ lz \in Seq(LeafSet)
  BY <1>3
<1>6. lf \o lz = <<la, lb, lc>>
  BY <1>3, OneAndTwo
<1>7. Fits(filter, lf, 15)
  BY <1>1
<1> HIDE DEF lf, lz
<1>8. Fits(z, lz, 40)
  <2>1. Room(21, 40) /\ 48 \in Octet /\ Constructed(48)
    BY Tags DEF Room
  <2> QED BY <1>2, <1>4, <2>1, FitsConstructed DEF lz
<1> DEFINE s == SearchContent(filter, attributes)
<1>9. Fits(s, (SearchLeaves \o lf) \o lz, 112)
  <2>1. Adds(57, 15, 72) /\ Adds(72, 40, 112)
    BY DEF Adds
  <2> QED BY <1>4, <1>7, <1>8, <2>1, FitsSearchContent
<1>10. SearchLeaves \in Seq(LeafSet)
  BY SearchLeavesType
<1>11. (SearchLeaves \o lf) \o lz = SearchLeaves \o (lf \o lz)
  BY <1>5, <1>10, ConcatAssociative
<1> DEFINE ls == SearchLeaves \o <<la, lb, lc>>
<1>12. ls = (SearchLeaves \o lf) \o lz
  BY <1>6, <1>11
<1> HIDE DEF ls, s
<1>13. Fits(s, ls, 112)
  BY <1>9, <1>12
<1>14. Fits(appendSequence(99, s), ls, 116)
  <2>1. Room(112, 116) /\ 99 \in Octet /\ Constructed(99)
    BY Tags DEF Room
  <2> QED BY <1>13, <2>1, FitsConstructed
<1>15. Fits(Message(id, 99, s), Single(2, <<id>>) \o ls, 30000)
  <2>1. Adds(5, 116, 121) /\ Room(121, 30000)
    BY DEF Adds, Room
  <2> QED BY <1>14, <2>1, FitsMessage
<1> QED BY <1>15 DEF getAllPlanes, s, ls, filter, attributes, la, lb, lc
\* The name of an entry.
LEMMA EntryNames ==
  ASSUME NEW name, IsText(name, 20000)
  PROVE  IsText(dn(name), 20032)
<1> DEFINE a == <<61>>
           b == <<44>>
<1>1. a \in Seq(Octet) /\ b \in Seq(Octet) /\ Len(a) = 1 /\ Len(b) = 1
  <2>1. 61 \in Octet /\ 44 \in Octet
    BY IsOctet
  <2> QED BY ONLY <2>1
<1>2. dn(name) = (((cn \o a) \o name) \o b) \o baseDN
  BY DEF dn
<1> HIDE DEF a, b
<1>3. /\ cn \in Seq(Octet) /\ Len(cn) <= 2 /\ baseDN \in Seq(Octet) /\ Len(baseDN) <= 28
      /\ name \in Seq(Octet) /\ Len(name) <= 20000
  BY FixedTexts DEF IsText
<1>4. cn \o a \in Seq(Octet) /\ Len(cn \o a) <= 3
  BY <1>1, <1>3, ConcatProperties, LenProperties
<1> DEFINE p == cn \o a
           q == p \o name
           r == q \o b
           s == r \o baseDN
<1>5. p \in Seq(Octet) /\ Len(p) <= 3
  BY <1>4
<1> HIDE DEF p
<1>6. q \in Seq(Octet) /\ Len(q) <= 20003
  BY <1>3, <1>5, ConcatProperties, LenProperties
<1> HIDE DEF q
<1>7. r \in Seq(Octet) /\ Len(r) <= 20004
  <2>1. r \in Seq(Octet) /\ Len(r) = Len(q) + Len(b)
    BY <1>1, <1>6, ConcatProperties
  <2>2. Len(q) \in Nat
    BY <1>6, LenProperties
  <2> HIDE DEF r
  <2> QED BY <1>1, <1>6, <2>1, <2>2
<1> HIDE DEF r
<1>8. s \in Seq(Octet) /\ Len(s) <= 20032
  BY <1>3, <1>7, ConcatProperties, LenProperties
<1>9. dn(name) = s
  BY <1>2 DEF p, q, r
<1> QED BY <1>8, <1>9 DEF IsText

\* An attribute and its values.
LEMMA FitsAttribute ==
  ASSUME NEW type, IsText(type, 11), NEW values, NEW lv, NEW m, Fits(values, lv, m),
         NEW k, Room(m, k), NEW j, Adds(15, k, j), NEW n, Room(j, n)
  PROVE  Fits(Attribute(type, values), <<StrLeaf(type)>> \o lv, n)
<1> DEFINE a == appendOctetString(type)
           b == appendSequence(49, values)
           la == Single(4, type)
           c == a \o b
           lc == la \o lv
           d == appendSequence(48, c)
<1>1. Fits(a, la, 15)
  <2>1. Room(11, 15)
    BY DEF Room
  <2> QED BY <2>1, FitsString
<1>2. Fits(b, lv, k)
  <2>1. 49 \in Octet /\ Constructed(49)
    BY Tags
  <2> QED BY <2>1, FitsConstructed
<1> HIDE DEF a, b, la
<1>3. Fits(c, lc, j)
  BY <1>1, <1>2, FitsConcat
<1>4. d = appendSequence(48, c)
  OBVIOUS
<1> HIDE DEF c, lc, d
<1>5. Fits(d, lc, n)
  <2>1. 48 \in Octet /\ Constructed(48)
    BY Tags
  <2> QED BY <1>3, <1>4, <2>1, FitsConstructed
<1>6. la = <<StrLeaf(type)>>
  BY DEF la, Single, StrLeaf
<1>7. lc = <<StrLeaf(type)>> \o lv
  BY <1>6 DEF lc
<1>8. d = Attribute(type, values)
  BY DEF d, c, a, b, Attribute
<1> QED BY <1>5, <1>7, <1>8

\* An attribute with one value.
LEMMA FitsOneValue ==
  ASSUME NEW type, IsText(type, 11), NEW text, IsText(text, 20000)
  PROVE  Fits(Attribute(type, appendOctetString(text)), <<StrLeaf(type), StrLeaf(text)>>, 20027)
<1> DEFINE v == appendOctetString(text)
           lv == <<StrLeaf(text)>>
           lt == <<StrLeaf(type)>>
           ls == <<StrLeaf(type), StrLeaf(text)>>
<1>1. Fits(v, lv, 20004)
  <2>1. Room(20000, 20004)
    BY DEF Room
  <2>2. Fits(v, Single(4, text), 20004)
    BY <2>1, FitsString
  <2> QED BY <2>2 DEF Single, StrLeaf
<1>2. lt \o lv = ls
  <2>1. 4 \in Octet
    BY IsOctet
  <2>2. StrLeaf(type) \in LeafSet /\ StrLeaf(text) \in LeafSet
    BY <2>1, IsLeaf DEF StrLeaf
  <2> QED BY <2>2, TwoJoined
<1> HIDE DEF v, lv, ls
<1>3. Fits(Attribute(type, v), lt \o lv, 20027)
  <2>1. Room(20004, 20008) /\ Adds(15, 20008, 20023) /\ Room(20023, 20027)
    BY DEF Room, Adds
  <2> QED BY <1>1, <2>1, FitsAttribute
<1> HIDE DEF lt
<1>4. Fits(Attribute(type, v), ls, 20027)
  BY <1>2, <1>3
<1> QED BY <1>4 DEF v, ls

\* An add.
LEMMA FitsAdd ==
  ASSUME NEW id \in Octet, NEW name, IsText(name, 20000), NEW speed, IsText(speed, 20000)
  PROVE  Fits(addPlane(id, name, speed),
              Single(2, <<id>>) \o
                <<StrLeaf(dn(name)), StrLeaf(Octets(11)), StrLeaf(Octets(3)), StrLeaf(Octets(6)),
                  StrLeaf(cn), StrLeaf(name), StrLeaf(description), StrLeaf(speed)>>, 60147)
<1> DEFINE x == appendOctetString(dn(name))
           a == Attribute(Octets(11), appendOctetString(Octets(3)) \o appendOctetString(Octets(6)))
           b == Attribute(cn, appendOctetString(name))
           c == Attribute(description, appendOctetString(speed))
           l1 == StrLeaf(dn(name))
           l2 == StrLeaf(Octets(11))
           l3 == StrLeaf(Octets(3))
           l4 == StrLeaf(Octets(6))
           l5 == StrLeaf(cn)
           l6 == StrLeaf(name)
           l7 == StrLeaf(description)
           l8 == StrLeaf(speed)
<1>1. /\ IsText(dn(name), 20032) /\ IsText(Octets(11), 11) /\ IsText(Octets(3), 3)
      /\ IsText(Octets(6), 6) /\ IsText(cn, 11) /\ IsText(description, 11)
  <2>1. IsText(cn, 2) /\ IsText(description, 11)
    BY FixedTexts
  <2>2. IsText(cn, 11)
    BY <2>1, LenProperties DEF IsText
  <2> QED BY <2>1, <2>2, FixedTexts, EntryNames
<1>2. /\ l1 \in LeafSet /\ l2 \in LeafSet /\ l3 \in LeafSet /\ l4 \in LeafSet
      /\ l5 \in LeafSet /\ l6 \in LeafSet /\ l7 \in LeafSet /\ l8 \in LeafSet
  <2>1. 4 \in Octet
    BY IsOctet
  <2>2. \A t, m : IsText(t, m) => StrLeaf(t) \in LeafSet
    BY <2>1, IsLeaf DEF StrLeaf
  <2> QED BY <1>1, <2>2
<1>3. Fits(x, <<l1>>, 20036)
  <2>1. Room(20032, 20036)
    BY DEF Room
  <2>2. Fits(x, Single(4, dn(name)), 20036)
    BY <1>1, <2>1, FitsString
  <2> QED BY <2>2 DEF Single, StrLeaf
<1>4. Fits(a, <<l2>> \o <<l3, l4>>, 40)
  <2> DEFINE v == appendOctetString(Octets(3)) \o appendOctetString(Octets(6))
             lv == <<l3, l4>>
  <2>1. Room(3, 7) /\ Room(6, 10) /\ Adds(7, 10, 17)
    BY DEF Room, Adds
  <2>2. Fits(v, lv, 17)
    BY <1>1, <2>1, FitsTwoStrings
  <2> HIDE DEF v, lv
  <2>3. Room(17, 21) /\ Adds(15, 21, 36) /\ Room(36, 40)
    BY DEF Room, Adds
  <2>4. Fits(Attribute(Octets(11), v), <<StrLeaf(Octets(11))>> \o lv, 40)
    BY <1>1, <2>2, <2>3, FitsAttribute
  <2> QED BY <2>4 DEF v, lv
<1>5. Fits(b, <<l5, l6>>, 20027)
  BY <1>1, FitsOneValue
<1>6. Fits(c, <<l7, l8>>, 20027)
  BY <1>1, FitsOneValue
<1> HIDE DEF x, a, b, c, l1, l2, l3, l4, l5, l6, l7, l8
<1>7. /\ <<l2>> \o <<l3, l4>> = <<l2, l3, l4>>
      /\ <<l2, l3, l4>> \o <<l5, l6>> = <<l2, l3, l4, l5, l6>>
      /\ <<l2, l3, l4, l5, l6>> \o <<l7, l8>> = <<l2, l3, l4, l5, l6, l7, l8>>
      /\ <<l1>> \o <<l2, l3, l4, l5, l6, l7, l8>> = <<l1, l2, l3, l4, l5, l6, l7, l8>>
  <2>1. <<l2>> \o <<l3, l4>> = <<l2, l3, l4>>
    BY <1>2, OneAndTwo
  <2>2. <<l2, l3, l4>> \o <<l5, l6>> = <<l2, l3, l4, l5, l6>>
    BY <1>2, ThreeAndTwo
  <2>3. <<l2, l3, l4, l5, l6>> \o <<l7, l8>> = <<l2, l3, l4, l5, l6, l7, l8>>
    BY <1>2, FiveAndTwo
  <2>4. ASSUME NEW s, s = <<l1>>, NEW t, t = <<l2, l3, l4, l5, l6, l7, l8>>,
               NEW u, u = <<l1, l2, l3, l4, l5, l6, l7, l8>>
        PROVE  s \o t = u
    <3>1. s \in Seq(LeafSet) /\ t \in Seq(LeafSet) /\ u \in Seq(LeafSet)
      BY ONLY <1>2, <2>4
    <3>2. Len(u) = Len(s) + Len(t) /\ Len(s) = 1 /\ Len(t) = 7
      BY ONLY <2>4
    <3>3. \A i \in 1 .. Len(s) : u[i] = s[i]
      BY ONLY <2>4, <3>2
    <3>4. \A i \in 1 .. Len(t) : u[Len(s) + i] = t[i]
      BY ONLY <2>4, <3>2
    <3> QED BY ONLY <3>1, <3>2, <3>3, <3>4, Joined
  <2>5. <<l1>> \o <<l2, l3, l4, l5, l6, l7, l8>> = <<l1, l2, l3, l4, l5, l6, l7, l8>>
    BY ONLY <2>4, Zenon
  <2> QED BY <2>1, <2>2, <2>3, <2>5
<1> DEFINE lx == <<l1>>
           la == <<l2, l3, l4>>
           lb == <<l5, l6>>
           lc == <<l7, l8>>
           lab == <<l2, l3, l4, l5, l6>>
           labc == <<l2, l3, l4, l5, l6, l7, l8>>
           ls == <<l1, l2, l3, l4, l5, l6, l7, l8>>
<1>8. la \o lb = lab /\ lab \o lc = labc /\ lx \o labc = ls
  BY <1>7
<1> DEFINE l34 == <<l3, l4>>
           l22 == <<l2>>
<1>18. l22 \o l34 = la /\ Fits(a, l22 \o l34, 40)
  BY <1>4, <1>7
<1>19. Fits(x, lx, 20036) /\ Fits(b, lb, 20027) /\ Fits(c, lc, 20027)
  BY <1>3, <1>5, <1>6
<1> HIDE DEF lx, la, lb, lc, lab, labc, ls, l34, l22
<1>9. Fits(x, lx, 20036) /\ Fits(a, la, 40) /\ Fits(b, lb, 20027) /\ Fits(c, lc, 20027)
  BY <1>18, <1>19
<1>10. Fits(a \o b, lab, 20067)
  <2>1. Adds(40, 20027, 20067)
    BY DEF Adds
  <2>2. Fits(a \o b, la \o lb, 20067)
    BY <1>9, <2>1, FitsConcat
  <2> QED BY <1>8, <2>2
<1>11. Fits((a \o b) \o c, labc, 40094)
  <2>1. Adds(20067, 20027, 40094)
    BY DEF Adds
  <2>2. Fits((a \o b) \o c, lab \o lc, 40094)
    BY <1>9, <1>10, <2>1, FitsConcat
  <2> QED BY <1>8, <2>2
<1> DEFINE y == (a \o b) \o c
           z == appendSequence(48, y)
           w == x \o z
           e == appendSequence(104, w)
<1>12. z = appendSequence(48, y) /\ e = appendSequence(104, w) /\ Fits(y, labc, 40094)
  BY <1>11
<1> HIDE DEF y, z
<1>13. Fits(z, labc, 40098)
  <2>1. Room(40094, 40098) /\ 48 \in Octet /\ Constructed(48)
    BY Tags DEF Room
  <2> QED BY <1>12, <2>1, FitsConstructed
<1>14. Fits(w, ls, 60134)
  <2>1. Adds(20036, 40098, 60134)
    BY DEF Adds
  <2>2. Fits(x \o z, lx \o labc, 60134)
    BY <1>9, <1>13, <2>1, FitsConcat
  <2> QED BY <1>8, <2>2
<1> HIDE DEF w, e
<1>15. Fits(e, ls, 60138)
  <2>1. Room(60134, 60138) /\ 104 \in Octet /\ Constructed(104)
    BY Tags DEF Room
  <2> QED BY <1>12, <1>14, <2>1, FitsConstructed
<1>16. Fits(Message(id, 104, w), Single(2, <<id>>) \o ls, 60147)
  <2>1. Adds(5, 60138, 60143) /\ Room(60143, 60147)
    BY DEF Adds, Room
  <2>2. Fits(appendSequence(104, w), ls, 60138)
    BY <1>12, <1>15
  <2> QED BY <2>1, <2>2, FitsMessage
<1>17. addPlane(id, name, speed) = Message(id, 104, w)
  BY DEF addPlane, w, x, y, z, a, b, c
<1> QED BY <1>16, <1>17 DEF ls, l1, l2, l3, l4, l5, l6, l7, l8

\* A delete.
LEMMA FitsDelete ==
  ASSUME NEW id \in Octet, NEW name, IsText(name, 20000)
  PROVE  Fits(deletePlane(id, name), Single(2, <<id>>) \o <<Leaf(74, dn(name))>>, 30000)
<1> DEFINE d == dn(name)
<1>1. IsText(d, 20032)
  BY EntryNames
<1> HIDE DEF d
<1>2. Fits(appendSequence(74, d), Single(74, d), 20036)
  <2>1. Room(20032, 20036) /\ 74 \in Octet /\ Primitive(74)
    BY Tags DEF Room
  <2> QED BY <1>1, <2>1, FitsPrimitive
<1>3. Fits(Message(id, 74, d), Single(2, <<id>>) \o Single(74, d), 30000)
  <2>1. Adds(5, 20036, 20041) /\ Room(20041, 30000)
    BY DEF Adds, Room
  <2> QED BY <1>2, <2>1, FitsMessage
<1> QED BY <1>3 DEF deletePlane, Single, d

\* Every request, whatever it asks for, is one message with the leaves the standard has.
LEMMA RequestFits ==
  ASSUME NEW c \in Request
  PROVE  LeavesOf[RequestBytes(c)] = RequestLeaves(c)
<1> DEFINE name == Bytes(c.name, c.id)
           speed == Bytes(c.speed, c.id)
           head == <<IntLeaf(c.id)>>
<1>1. /\ c.op \in {"bind", "search", "add", "delete", "list"} /\ c.id \in Ids
      /\ c.name \in Planes \cup {Empty} /\ c.speed \in Speeds \cup {Empty}
  BY DEF Request
<1>2. c.id \in Octet
  BY <1>1, LdapAssumption, WireAssumption, IsOctet DEF Ids
<1>3. IsText(name, 20000) /\ IsText(speed, 20000)
  BY <1>1, TypedTexts
<1>4. Single(2, <<c.id>>) = head
  BY DEF Single, IntLeaf
<1>5. CASE c.op = "bind"
  <2>1. IsText(adminDN, 27) /\ IsText(password, 4)
    BY FixedTexts DEF adminDN, password
  <2>2. LeavesOf[simpleBind(c.id, adminDN, password)] =
          Single(2, <<c.id>>) \o
            ((Single(2, <<3>>) \o Single(4, adminDN)) \o Single(128, password))
    <3> DEFINE ls == (Single(2, <<3>>) \o Single(4, adminDN)) \o Single(128, password)
               m == simpleBind(c.id, adminDN, password)
               la == Single(2, <<c.id>>) \o ls
    <3>1. Fits(m, la, 100)
      BY <1>2, <2>1, FitsBind
    <3> HIDE DEF ls, la, m
    <3>2. LeavesOf[m] = la
      BY <3>1, FitsWhole
    <3> QED BY <3>2 DEF ls, la, m
  <2>3. (Single(2, <<3>>) \o Single(4, adminDN)) \o Single(128, password) =
          <<IntLeaf(3), StrLeaf(adminDN), Leaf(128, password)>>
    <3> DEFINE la == IntLeaf(3)
               lb == StrLeaf(adminDN)
               lc == Leaf(128, password)
               three == <<3>>
    <3>1. /\ Single(2, <<3>>) = <<la>> /\ Single(4, adminDN) = <<lb>>
          /\ Single(128, password) = <<lc>>
      BY DEF Single, IntLeaf, StrLeaf
    <3>2. la \in LeafSet /\ lb \in LeafSet /\ lc \in LeafSet
      <4>1. 2 \in Octet /\ 3 \in Octet /\ 4 \in Octet /\ 128 \in Octet
        BY IsOctet
      <4>2. IsText(three, 1)
        BY ONLY <4>1 DEF IsText
      <4> HIDE DEF three
      <4>3. Leaf(2, three) \in LeafSet
        BY <4>1, <4>2, IsLeaf
      <4> QED BY <2>1, <4>1, <4>3, IsLeaf DEF StrLeaf, IntLeaf, three
    <3> HIDE DEF la, lb, lc
    <3>3. (<<la>> \o <<lb>>) \o <<lc>> = <<la, lb, lc>>
      <4>1. <<la>> \o <<lb>> = <<la, lb>>
        BY <3>2, TwoJoined
      <4>2. <<la, lb>> \o <<lc>> = <<la, lb, lc>>
        BY <3>2, ThreeJoined
      <4> QED BY <4>1, <4>2
    <3> QED BY <3>1, <3>3 DEF la, lb, lc
  <2> QED BY <1>4, <1>5, <2>2, <2>3 DEF RequestBytes, RequestLeaves
<1>6. CASE c.op = "search"
  <2>1. LeavesOf[buildSearchRequest(c.id, name)] =
          Single(2, <<c.id>>) \o
            (SearchLeaves \o <<StrLeaf(cn), StrLeaf(name), StrLeaf(description)>>)
    <3> DEFINE m == buildSearchRequest(c.id, name)
               ls == Single(2, <<c.id>>) \o (SearchLeaves \o <<StrLeaf(cn), StrLeaf(name),
                     StrLeaf(description)>>)
    <3>1. Fits(m, ls, 30000)
      BY <1>2, <1>3, FitsSearch
    <3> HIDE DEF m, ls
    <3>2. LeavesOf[m] = ls
      BY <3>1, FitsWhole
    <3> QED BY <3>2 DEF m, ls
  <2> QED BY <1>4, <1>6, <2>1 DEF RequestBytes, RequestLeaves, SearchLeaves
<1>7. CASE c.op = "list"
  <2>1. LeavesOf[getAllPlanes(c.id)] =
          Single(2, <<c.id>>) \o
            (SearchLeaves \o <<Leaf(135, Octets(11)), StrLeaf(cn), StrLeaf(description)>>)
    <3> DEFINE m == getAllPlanes(c.id)
               ls == Single(2, <<c.id>>) \o (SearchLeaves \o <<Leaf(135, Octets(11)),
                     StrLeaf(cn), StrLeaf(description)>>)
    <3>1. Fits(m, ls, 30000)
      BY <1>2, FitsList
    <3> HIDE DEF m, ls
    <3>2. LeavesOf[m] = ls
      BY <3>1, FitsWhole
    <3> QED BY <3>2 DEF m, ls
  <2> QED BY <1>4, <1>7, <2>1 DEF RequestBytes, RequestLeaves, SearchLeaves
<1>8. CASE c.op = "add"
  <2>1. LeavesOf[addPlane(c.id, name, speed)] =
          Single(2, <<c.id>>) \o
            <<StrLeaf(dn(name)), StrLeaf(Octets(11)), StrLeaf(Octets(3)), StrLeaf(Octets(6)),
              StrLeaf(cn), StrLeaf(name), StrLeaf(description), StrLeaf(speed)>>
    <3> DEFINE m == addPlane(c.id, name, speed)
               ls == Single(2, <<c.id>>) \o <<StrLeaf(dn(name)), StrLeaf(Octets(11)),
                     StrLeaf(Octets(3)), StrLeaf(Octets(6)), StrLeaf(cn), StrLeaf(name),
                     StrLeaf(description), StrLeaf(speed)>>
    <3>1. Fits(m, ls, 60147)
      BY <1>2, <1>3, FitsAdd
    <3> HIDE DEF m, ls
    <3>2. LeavesOf[m] = ls
      BY <3>1, FitsWhole
    <3> QED BY <3>2 DEF m, ls
  <2> QED BY <1>4, <1>8, <2>1 DEF RequestBytes, RequestLeaves
<1>9. CASE c.op = "delete"
  <2>1. LeavesOf[deletePlane(c.id, name)] = Single(2, <<c.id>>) \o <<Leaf(74, dn(name))>>
    <3> DEFINE m == deletePlane(c.id, name)
               ls == Single(2, <<c.id>>) \o <<Leaf(74, dn(name))>>
    <3>1. Fits(m, ls, 30000)
      BY <1>2, <1>3, FitsDelete
    <3> HIDE DEF m, ls
    <3>2. LeavesOf[m] = ls
      BY <3>1, FitsWhole
    <3> QED BY <3>2 DEF m, ls
  <2> QED BY <1>4, <1>9, <2>1 DEF RequestBytes, RequestLeaves
<1> QED BY <1>1, <1>5, <1>6, <1>7, <1>8, <1>9

\* Every request that is sent is one message that the server can read: each element is
\* filled by what it contains, and the id, the names and the values are where the standard
\* has them, for every length of the texts.
THEOREM RequestsAreWellFormed == Spec => []RequestIsWellFormed
<1>1. LdapInv => RequestIsWellFormed
  <2>1. LdapInv => command \in Request
    BY DEF LdapInv, TypeOK
  <2> QED BY <2>1, RequestFits DEF RequestIsWellFormed
<1> QED BY <1>1, Invariance, PTL

-----------------------------------------------------------------------------
\* The answers: what the server writes, and what the client reads of it.

\* The digits of a length in k bytes.
Digits(len, k) ==
  [i \in 1 .. k |-> IF i = k THEN len % 256 ELSE IF i = k - 1 THEN len \div 256 ELSE 0]

\* A length that k bytes hold.
LongLength(len, k) == len \in Nat /\ len <= 65535 /\ k \in 1 .. 8 /\ (k = 1 => len <= 255)

\* Such digits, and what they come to.
LEMMA DigitsForm ==
  ASSUME NEW len, NEW k, LongLength(len, k), NEW t, t = Digits(len, k)
  PROVE  t \in Seq(Octet) /\ Len(t) = k /\ Unsigned(t) = len
<1> DEFINE q == len \div 256
           r == len % 256
<1>0. /\ q \in Nat /\ q < 256 /\ r \in Nat /\ r < 256 /\ len = 256 * q + r
      /\ len <= 255 => q = 0 /\ r = len
      /\ k \in 1 .. 8 /\ (k = 1 => len <= 255)
  BY Halves DEF LongLength
<1>1. \A i \in 1 .. k : t[i] = IF i = k THEN r ELSE IF i = k - 1 THEN q ELSE 0
  BY DEF Digits
<1> HIDE DEF q, r
<1>2. q \in Octet /\ r \in Octet /\ 0 \in Octet
  BY <1>0, IsOctet
<1>3. t \in [1 .. k -> Octet]
  <2>1. t = [i \in 1 .. k |-> t[i]]
    BY DEF Digits
  <2>2. \A i \in 1 .. k : t[i] \in Octet
    BY <1>1, <1>2
  <2> QED BY <2>1, <2>2
<1>4. t \in Seq(Octet) /\ Len(t) = k
  <2>1. k \in Nat
    BY <1>0
  <2>2. t \in Seq(Octet)
    BY ONLY <1>3, <2>1, IsASeq
  <2>3. Len(t) = k
    BY ONLY <1>3, <2>1, <2>2, LenProperties
  <2> QED BY <2>2, <2>3
<1>5. CASE k = 1
  <2>1. t[1] = r
    BY <1>1, <1>5
  <2>2. Unsigned(t) = t[1]
    BY <1>4, <1>5, UnsignedOne
  <2> QED BY <1>0, <1>4, <1>5, <2>1, <2>2
<1>6. CASE k # 1
  <2>1. k \in Nat /\ k >= 2 /\ k \in 1 .. k /\ k - 1 \in 1 .. k /\ k - 1 # k
    BY <1>0, <1>6
  <2>2. t[k] = r /\ t[k - 1] = q
    BY <1>1, <2>1
  <2>3. \A i \in 1 .. k - 2 : i \in 1 .. k /\ i # k /\ i # k - 1
    BY <2>1
  <2>4. \A i \in 1 .. k - 2 : t[i] = 0
    BY <1>1, <2>3
  <2>5. Unsigned(t) = 256 * t[k - 1] + t[k]
    BY ONLY <1>4, <2>1, <2>4, UnsignedTwo
  <2> QED BY <1>0, <1>4, <2>2, <2>5
<1> QED BY <1>5, <1>6

\* A first byte that tells their number, and the digits.
LEMMA LongForm ==
  ASSUME NEW len, NEW k, LongLength(len, k), NEW lb, lb = <<128 + k>> \o Digits(len, k)
  PROVE  LengthForm(lb, len) /\ Len(lb) = k + 1
<1> DEFINE t == Digits(len, k)
           a == <<128 + k>>
<1>0. k \in 1 .. 8 /\ len \in Nat
  BY DEF LongLength
<1>1. t \in Seq(Octet) /\ Len(t) = k /\ Unsigned(t) = len
  BY DigitsForm
<1>3. lb = a \o t
  OBVIOUS
<1> HIDE DEF t
<1>2. a \in Seq(Octet) /\ Len(a) = 1 /\ a[1] = 128 + k
  <2> DEFINE c == 128 + k
  <2>1. c \in Nat /\ c < 256
    BY <1>0
  <2> HIDE DEF c
  <2>2. c \in Octet
    BY <2>1, IsOctet
  <2>3. <<c>> \in Seq(Octet) /\ Len(<<c>>) = 1 /\ <<c>>[1] = c
    BY <2>2
  <2> QED BY <2>3 DEF c
<1> HIDE DEF a
<1>4. lb \in Seq(Octet) /\ Len(lb) = 1 + k /\ lb[1] = 128 + k
  <2>1. lb \in Seq(Octet) /\ Len(lb) = Len(a) + Len(t) /\ \A i \in 1 .. Len(a) + Len(t) :
          lb[i] = IF i <= Len(a) THEN a[i] ELSE t[i - Len(a)]
    BY ONLY <1>1, <1>2, <1>3, ConcatProperties
  <2>2. 1 \in 1 .. Len(a) + Len(t) /\ 1 <= Len(a)
    BY <1>0, <1>1, <1>2
  <2> QED BY <1>1, <1>2, <2>1, <2>2
<1>5. SubSeq(lb, 2, Len(lb)) = t
  <2>1. SubSeq(lb, Len(a) + 1, Len(lb)) = t
    BY ONLY <1>1, <1>2, <1>3, HeadStands
  <2> QED BY <1>2, <2>1
<1>6. Len(lb) \in 2 .. 9 /\ lb[1] = 127 + Len(lb) /\ Len(lb) = k + 1
  BY <1>0, <1>4
<1> QED BY <1>0, <1>1, <1>4, <1>5, <1>6 DEF LengthForm

\* The server writes a length in such a form, however many bytes it takes for it.
LEMMA StandardLengthForm ==
  ASSUME NEW len \in Nat, len <= 65535, NEW n \in Forms, NEW lb, lb = StandardLength(len, n)
  PROVE  LengthForm(lb, len) /\ Len(lb) <= 9
<1> DEFINE k == IF n # 0 THEN n ELSE IF len < 256 THEN 1 ELSE 2
<1>1. n = 0 \/ n \in 2 .. 8
  BY WireAssumption
<1>2. lb = IF n = 0 /\ len < 128 THEN <<len>> ELSE <<128 + k>> \o Digits(len, k)
  BY DEF StandardLength, Digits
<1>3. LongLength(len, k)
  <2>1. k \in 1 .. 8 /\ (k = 1 => len <= 255)
    BY <1>1
  <2> QED BY <2>1 DEF LongLength
<1> HIDE DEF k
<1>4. CASE n = 0 /\ len < 128
  <2>1. lb = <<len>>
    BY <1>2, <1>4
  <2>2. len \in Octet
    BY <1>4, IsOctet
  <2>3. lb \in Seq(Octet) /\ Len(lb) = 1 /\ lb[1] = len
    BY ONLY <2>1, <2>2
  <2> QED BY <1>4, <2>3 DEF LengthForm
<1>5. CASE ~(n = 0 /\ len < 128)
  <2>1. LengthForm(lb, len) /\ Len(lb) = k + 1
    BY ONLY <1>2, <1>3, <1>5, LongForm
  <2> QED BY <1>3, <2>1 DEF LongLength
<1> QED BY <1>4, <1>5

\* The bytes a are an element, with a length in one of its forms.
Made(a, tag, content) ==
  /\ tag \in Octet /\ content \in Seq(Octet)
  /\ \E lb : LengthForm(lb, Len(content)) /\ a = Encoded(tag, lb, content)

\* A text of at most m bytes, in an element of at most n, in whatever form.
Wide(m, n) == m \in Nat /\ n \in Nat /\ m + 10 <= n /\ m <= 65535

\* What the server writes with a length is an element.
LEMMA StandardMade ==
  ASSUME NEW n \in Forms, NEW tag \in Octet, NEW content, NEW m, IsText(content, m),
         NEW k, Wide(m, k), NEW a, a = Standard(n, tag, content)
  PROVE  Made(a, tag, content) /\ IsText(a, k)
<1> DEFINE lb == StandardLength(Len(content), n)
           len == Len(content)
<1>1. content \in Seq(Octet) /\ len \in Nat /\ len <= m
  BY LenProperties DEF IsText
<1> HIDE DEF len
<1>2. len <= 65535 /\ len + 10 <= k /\ k \in Nat
  BY <1>1 DEF Wide
<1>3. LengthForm(lb, len) /\ Len(lb) <= 9
  <2>1. lb = StandardLength(len, n)
    BY DEF len
  <2> HIDE DEF lb
  <2> QED BY ONLY n \in Forms, <1>1, <1>2, <2>1, StandardLengthForm
<1>4. a = Encoded(tag, lb, content)
  BY DEF Standard, Encoded
<1> HIDE DEF lb
<1>5. a \in Seq(Octet) /\ Len(a) = 1 + Len(lb) + len
  BY <1>1, <1>3, <1>4, EncodedStands DEF len
<1>6. Len(lb) \in Nat
  BY <1>3, LenProperties DEF LengthForm
<1>7. Len(a) <= k
  BY <1>1, <1>2, <1>3, <1>5, <1>6
<1> QED BY <1>1, <1>3, <1>4, <1>5, <1>7 DEF Made, IsText, len

\* An element is longer than what it contains, and begins with its tag.
LEMMA MadeIs ==
  ASSUME NEW a, NEW tag, NEW content, Made(a, tag, content)
  PROVE  /\ a \in Seq(Octet) /\ Len(a) \in Nat /\ Len(a) >= 2 + Len(content) /\ a[1] = tag
         /\ content \in Seq(Octet) /\ Len(content) \in Nat /\ tag \in Octet
<1>1. PICK lb : LengthForm(lb, Len(content)) /\ a = Encoded(tag, lb, content)
  BY DEF Made
<1>2. tag \in Octet /\ content \in Seq(Octet)
  BY DEF Made
<1>3. a \in Seq(Octet) /\ Len(a) = 1 + Len(lb) + Len(content)
  BY <1>1, <1>2, EncodedStands
<1>4. Len(lb) \in Nat /\ Len(lb) >= 1 /\ Len(content) \in Nat
  <2>1. lb \in Seq(Octet)
    BY <1>1 DEF LengthForm
  <2>2. Len(lb) \in Nat /\ Len(content) \in Nat
    BY <1>2, <2>1, LenProperties
  <2> QED BY <1>1, <2>2 DEF LengthForm
<1>5. a[1] = tag
  <2> DEFINE e == <<>>
  <2>1. e \in Seq(Octet)
    OBVIOUS
  <2>2. a \o e = a
    BY <1>3, ConcatEmptySeq
  <2>3. Stands(a, 1, a)
    BY <1>3, <2>1, <2>2, HeadStands
  <2> QED BY <1>1, <1>2, <1>3, <2>3, EncodedStands
<1> QED BY <1>2, <1>3, <1>4, <1>5

\* An element found at pos, of which all is there.
Found(e, data, pos, end, a, content) ==
  /\ e \in Span /\ e.is = "ok" /\ e.end = end /\ e.to = pos + Len(a)
  /\ Stands(data, e.from, content) /\ e.from + Len(content) = e.to

\* No such element.
NotThere(e, pos, end) == e = [is |-> "other", from |-> pos, to |-> pos, end |-> end]

\* An element that stands in the data is found there.
LEMMA MadeFound ==
  ASSUME NEW a, NEW tag, NEW content, Made(a, tag, content), NEW data \in Seq(Octet), NEW pos,
         Stands(data, pos, a), NEW end \in Nat, pos + Len(a) <= end,
         NEW e, e = Element(data, pos, end, tag)
  PROVE  Found(e, data, pos, end, a, content)
<1>1. PICK lb : LengthForm(lb, Len(content)) /\ a = Encoded(tag, lb, content)
  BY DEF Made
<1>2. tag \in Octet /\ content \in Seq(Octet)
  BY DEF Made
<1>3. Stands(data, pos + 1 + Len(lb), content) /\ Len(a) = 1 + Len(lb) + Len(content)
  BY <1>1, <1>2, EncodedStands
<1>4. e = Whole(tag, lb, content, pos, end)
  BY <1>1, <1>2, EncodedRead
<1>5. pos \in Nat /\ Len(lb) \in Nat /\ Len(content) \in Nat
  BY <1>1, <1>2, LenProperties DEF Stands, LengthForm
<1>6. e = [is |-> "ok", from |-> pos + 1 + Len(lb), to |-> pos + 1 + Len(lb) + Len(content),
           end |-> end]
  BY <1>4 DEF Whole
<1>7. pos + 1 + Len(lb) \in Nat /\ pos + 1 + Len(lb) + Len(content) \in Nat
  BY <1>5
<1>8. e \in Span
  BY <1>6, <1>7 DEF Span
<1>9. e.to = pos + Len(a)
  BY <1>3, <1>5, <1>6
<1> QED BY <1>3, <1>6, <1>8, <1>9 DEF Found

\* Content is what was put in.
LEMMA FoundContent ==
  ASSUME NEW e, NEW data \in Seq(Octet), NEW pos, NEW end, NEW a, NEW content,
         Found(e, data, pos, end, a, content)
  PROVE  Content(data, e) = content
<1>1. SubSeq(data, e.from, e.from + Len(content) - 1) = content
  BY StandsIs DEF Found
<1>2. e.from + Len(content) - 1 = e.to - 1
  <2>1. e.from \in Nat /\ content \in Seq(Octet) /\ e.from + Len(content) = e.to
    BY DEF Found, Stands
  <2>2. Len(content) \in Nat
    BY <2>1, LenProperties
  <2> QED BY <2>1, <2>2
<1> QED BY <1>1, <1>2 DEF Content

\* It is not found with another tag.
LEMMA OtherTag ==
  ASSUME NEW a, NEW tag, NEW content, Made(a, tag, content), NEW data \in Seq(Octet), NEW pos,
         Stands(data, pos, a), NEW other, other # tag, NEW end, NEW e,
         e = Element(data, pos, end, other)
  PROVE  NotThere(e, pos, end)
<1>1. a[1] = tag /\ Len(a) \in Nat /\ Len(a) >= 1 /\ pos \in Nat
  BY MadeIs DEF Stands
<1>2. 1 \in 1 .. Len(a) /\ pos + 1 - 1 = pos
  BY <1>1
<1>3. data[pos + 1 - 1] = a[1]
  BY <1>2 DEF Stands
<1>4. data[pos] # other
  BY <1>1, <1>2, <1>3
<1> QED BY <1>4 DEF Element, NotThere

\* Nothing is found at the end.
LEMMA NothingAtEnd ==
  ASSUME NEW data, NEW end \in Nat, NEW tag, NEW e, e = Element(data, end, end, tag)
  PROVE  NotThere(e, end, end)
<1>1. end >= end
  OBVIOUS
<1> QED BY <1>1 DEF Element, NotThere

\* An answer to this command, or the notice: only an entry has texts, and it is no success.
Valid(m) ==
  /\ m \in Response
  /\ m.op = "entry" => ~m.ok
  /\ m.op # "entry" => m.name = Empty /\ m.speed = Empty

\* The parts of an answer.
Attrs(n, m) ==
  AttributeBytes(n, description, Bytes(m.speed, m.id)) \o AttributeBytes(n, cn, Bytes(m.name, m.id))

EntryBody(n, m) == Standard(n, 4, baseDN) \o Standard(n, 48, Attrs(n, m))

Outcome(m) == <<10, 1, IF m.ok THEN 0 ELSE 2>>

ResultBody(n, m) == (Outcome(m) \o Standard(n, 4, <<>>)) \o Standard(n, 4, Octets(9))

OpTag(m) == IF m.op = "entry" THEN 100 ELSE ResultTag[m.op]

OpBody(n, m) == IF m.op = "entry" THEN EntryBody(n, m) ELSE ResultBody(n, m)

OpBytes(n, m) == Standard(n, OpTag(m), OpBody(n, m))

IdBytes(n, m) == Standard(n, 2, <<m.id>>)

Body(n, m) == IdBytes(n, m) \o OpBytes(n, m)

\* An answer is made of them.
LEMMA ResponseParts ==
  ASSUME NEW n, NEW m
  PROVE  ResponseBytes(n, m) = Standard(n, 48, Body(n, m))
  BY DEF ResponseBytes, Body, IdBytes, OpBytes, OpBody, OpTag, ResultBody, EntryBody, Attrs, Outcome

\* Two texts, one after the other.
LEMMA TextsJoined ==
  ASSUME NEW a, NEW m, IsText(a, m), NEW b, NEW k, IsText(b, k), NEW n, Adds(m, k, n)
  PROVE  IsText(a \o b, n)
<1>1. a \in Seq(Octet) /\ b \in Seq(Octet) /\ Len(a) <= m /\ Len(b) <= k
  BY DEF IsText
<1>2. m \in Nat /\ k \in Nat /\ n \in Nat /\ m + k <= n
  BY DEF Adds
<1>3. Len(a) \in Nat /\ Len(b) \in Nat
  BY <1>1, LenProperties
<1>4. a \o b \in Seq(Octet) /\ Len(a \o b) = Len(a) + Len(b)
  BY <1>1, ConcatProperties
<1>5. Len(a \o b) <= n
  BY <1>1, <1>2, <1>3, <1>4
<1> QED BY <1>4, <1>5 DEF IsText

\* The tags of an answer.
LEMMA AnswerTags ==
  /\ \A tag \in {2, 4, 10, 48, 49, 97, 100, 101, 105, 107, 120} : tag \in Octet
  /\ \A m \in Response : /\ OpTag(m) \in {97, 100, 101, 105, 107, 120}
                         /\ OpTag(m) = 101 <=> m.op = "done"
                         /\ (OpTag(m) = 100 <=> m.op = "entry")
<1>1. \A tag \in {2, 4, 10, 48, 49, 97, 100, 101, 105, 107, 120} : tag \in Octet
  BY IsOctet
<1>2. ASSUME NEW m \in Response
      PROVE  /\ OpTag(m) \in {97, 100, 101, 105, 107, 120} /\ (OpTag(m) = 101 <=> m.op = "done")
             /\ (OpTag(m) = 100 <=> m.op = "entry")
  <2>1. m.op \in {"bind", "add", "delete", "entry", "done", "notice"}
    BY DEF Response
  <2> QED BY <2>1 DEF OpTag, ResultTag
<1> QED BY <1>1, <1>2

\* A value, the values and the type of an attribute, and the attribute.
Value(n, value)       == Standard(n, 4, value)
ValueSet(n, value)    == Standard(n, 49, Value(n, value))
Kind(n, type)          == Standard(n, 4, type)
Pair(n, type, value)  == Kind(n, type) \o ValueSet(n, value)
Filled(n, type, value) == Standard(n, 48, Pair(n, type, value))

\* The parts of an attribute are elements.
LEMMA AttributeMade ==
  ASSUME NEW n \in Forms, NEW type, IsText(type, 11), NEW value, IsText(value, 20000)
  PROVE  /\ Made(Value(n, value), 4, value)
         /\ Made(ValueSet(n, value), 49, Value(n, value))
         /\ Made(Kind(n, type), 4, type)
         /\ Made(Filled(n, type, value), 48, Pair(n, type, value))
         /\ IsText(Filled(n, type, value), 20051)
<1> DEFINE a == Value(n, value)
           b == ValueSet(n, value)
           c == Kind(n, type)
           d == Pair(n, type, value)
<1>0. 4 \in Octet /\ 48 \in Octet /\ 49 \in Octet
  BY AnswerTags
<1>1. Made(a, 4, value) /\ IsText(a, 20010)
  <2>1. Wide(20000, 20010) /\ a = Standard(n, 4, value)
    BY DEF Wide, Value
  <2> QED BY <1>0, <2>1, StandardMade
<1>2. Made(b, 49, a) /\ IsText(b, 20020)
  <2>1. Wide(20010, 20020) /\ b = Standard(n, 49, a)
    BY DEF Wide, ValueSet
  <2> QED BY <1>0, <1>1, <2>1, StandardMade
<1>3. Made(c, 4, type) /\ IsText(c, 21)
  <2>1. Wide(11, 21) /\ c = Standard(n, 4, type)
    BY DEF Wide, Kind
  <2> QED BY <1>0, <2>1, StandardMade
<1>4. IsText(d, 20041)
  <2>1. Adds(21, 20020, 20041) /\ d = c \o b
    BY DEF Adds, Pair
  <2> QED BY <1>2, <1>3, <2>1, TextsJoined
<1>5. Made(Filled(n, type, value), 48, d) /\ IsText(Filled(n, type, value), 20051)
  <2>1. Wide(20041, 20051) /\ Filled(n, type, value) = Standard(n, 48, d)
    BY DEF Wide, Filled
  <2> QED BY <1>0, <1>4, <2>1, StandardMade
<1> QED BY <1>1, <1>2, <1>3, <1>5

\* An attribute, or nothing.
LEMMA AttributeText ==
  ASSUME NEW n \in Forms, NEW type, IsText(type, 11), NEW value, IsText(value, 20000)
  PROVE  /\ AttributeBytes(n, type, value) = IF value = <<>> THEN <<>> ELSE Filled(n, type, value)
         /\ IsText(AttributeBytes(n, type, value), 20051)
<1>1. AttributeBytes(n, type, value) = IF value = <<>> THEN <<>> ELSE Filled(n, type, value)
  BY DEF AttributeBytes, Filled, Pair, Kind, ValueSet, Value
<1>2. IsText(<<>>, 20051)
  BY DEF IsText
<1> QED BY <1>1, <1>2, AttributeMade

\* The texts of an answer.
LEMMA AnswerTexts ==
  ASSUME NEW m \in Response
  PROVE  IsText(Bytes(m.speed, m.id), 20000) /\ IsText(Bytes(m.name, m.id), 20000) /\ m.id \in Octet
<1>1. m.speed \in Speeds \cup {Empty} /\ m.name \in Planes \cup {Empty} /\ m.id \in Ids
  BY DEF Response
<1>2. m.id \in Octet
  BY <1>1, LdapAssumption, WireAssumption, IsOctet DEF Ids
<1> QED BY <1>1, <1>2, TypedTexts

\* The parts of an entry are elements.
LEMMA EntryMade ==
  ASSUME NEW n \in Forms, NEW m \in Response
  PROVE  /\ Made(Standard(n, 4, baseDN), 4, baseDN)
         /\ Made(Standard(n, 48, Attrs(n, m)), 48, Attrs(n, m))
         /\ IsText(EntryBody(n, m), 40150)
<1> DEFINE a == AttributeBytes(n, description, Bytes(m.speed, m.id))
           b == AttributeBytes(n, cn, Bytes(m.name, m.id))
           c == Attrs(n, m)
           d == Standard(n, 4, baseDN)
           e == Standard(n, 48, c)
<1>0. 4 \in Octet /\ 48 \in Octet
  BY AnswerTags
<1>1. IsText(a, 20051) /\ IsText(b, 20051)
  <2>1. IsText(description, 11) /\ IsText(cn, 11)
    BY FixedTexts DEF IsText
  <2> QED BY <2>1, AnswerTexts, AttributeText
<1>2. c = a \o b
  BY DEF Attrs
<1> HIDE DEF a, b, c
<1>3. IsText(c, 40102)
  <2>1. Adds(20051, 20051, 40102)
    BY DEF Adds
  <2> QED BY <1>1, <1>2, <2>1, TextsJoined
<1>4. Made(d, 4, baseDN) /\ IsText(d, 38)
  <2>1. Wide(28, 38)
    BY DEF Wide
  <2> QED BY <1>0, <2>1, FixedTexts, StandardMade
<1>5. Made(e, 48, c) /\ IsText(e, 40112)
  <2>1. Wide(40102, 40112)
    BY DEF Wide
  <2> QED BY <1>0, <1>3, <2>1, StandardMade
<1>6. IsText(d \o e, 40150)
  <2>1. Adds(38, 40112, 40150)
    BY DEF Adds
  <2> HIDE DEF d, e
  <2> QED BY <1>4, <1>5, <2>1, TextsJoined
<1> QED BY <1>4, <1>5, <1>6 DEF EntryBody, c

\* The body of a result.
LEMMA ResultText ==
  ASSUME NEW n \in Forms, NEW m
  PROVE  /\ IsText(Outcome(m), 3) /\ IsText(ResultBody(n, m), 40150)
         /\ Made(Standard(n, 4, <<>>), 4, <<>>) /\ Made(Standard(n, 4, Octets(9)), 4, Octets(9))
<1> DEFINE a == Outcome(m)
           e == <<>>
           b == Standard(n, 4, e)
           d == Standard(n, 4, Octets(9))
<1>0. 4 \in Octet
  BY AnswerTags
<1>1. IsText(a, 3)
  <2> DEFINE c == IF m.ok THEN 0 ELSE 2
  <2>1. c \in Octet /\ 10 \in Octet /\ 1 \in Octet
    BY IsOctet
  <2>2. a = <<10, 1, c>>
    BY DEF Outcome
  <2> HIDE DEF c
  <2>3. a \in Seq(Octet) /\ Len(a) = 3
    BY <2>1, <2>2
  <2> QED BY <2>3 DEF IsText
<1>2. Made(b, 4, e) /\ IsText(b, 10)
  <2>1. Wide(0, 10) /\ IsText(e, 0)
    BY DEF Wide, IsText
  <2> HIDE DEF e
  <2> QED BY <1>0, <2>1, StandardMade
<1>3. Made(d, 4, Octets(9)) /\ IsText(d, 19)
  <2>1. Wide(9, 19) /\ IsText(Octets(9), 9)
    BY FixedTexts DEF Wide
  <2> QED BY <1>0, <2>1, StandardMade
<1>4. ResultBody(n, m) = (a \o b) \o d
  BY DEF ResultBody
<1> HIDE DEF a, b, d
<1>5. IsText(a \o b, 13)
  <2>1. Adds(3, 10, 13)
    BY DEF Adds
  <2> QED BY <1>1, <1>2, <2>1, TextsJoined
<1>6. IsText((a \o b) \o d, 40150)
  <2>1. Adds(13, 19, 40150)
    BY DEF Adds
  <2> QED BY <1>3, <1>5, <2>1, TextsJoined
<1> QED BY <1>1, <1>2, <1>3, <1>4, <1>6 DEF a, b, d

\* The parts of an answer are elements.
LEMMA ResponseMade ==
  ASSUME NEW n \in Forms, NEW m \in Response
  PROVE  /\ Made(IdBytes(n, m), 2, <<m.id>>)
         /\ Made(OpBytes(n, m), OpTag(m), OpBody(n, m))
         /\ Made(ResponseBytes(n, m), 48, Body(n, m))
<1> DEFINE i == <<m.id>>
           a == IdBytes(n, m)
           b == OpBytes(n, m)
           c == Body(n, m)
<1>0. 2 \in Octet /\ 48 \in Octet /\ OpTag(m) \in Octet
  BY AnswerTags
<1>1. IsText(i, 1)
  <2>1. m.id \in Octet
    BY AnswerTexts
  <2> QED BY ONLY <2>1 DEF IsText
<1>2. a = Standard(n, 2, i)
  BY DEF IdBytes
<1> HIDE DEF i, a, b, c
<1>3. Made(a, 2, i) /\ IsText(a, 11)
  <2>1. Wide(1, 11)
    BY DEF Wide
  <2> QED BY <1>0, <1>1, <1>2, <2>1, StandardMade
<1>4. IsText(OpBody(n, m), 40150)
  BY EntryMade, ResultText DEF OpBody
<1>5. Made(b, OpTag(m), OpBody(n, m)) /\ IsText(b, 40160)
  <2>1. Wide(40150, 40160) /\ b = Standard(n, OpTag(m), OpBody(n, m))
    BY DEF Wide, b, OpBytes
  <2> QED BY <1>0, <1>4, <2>1, StandardMade
<1>6. IsText(c, 40171)
  <2>1. Adds(11, 40160, 40171) /\ c = a \o b
    BY DEF Adds, c, Body, a, b
  <2> QED BY <1>3, <1>5, <2>1, TextsJoined
<1>7. Made(ResponseBytes(n, m), 48, c)
  <2>1. Wide(40171, 40181) /\ ResponseBytes(n, m) = Standard(n, 48, c)
    BY ResponseParts DEF Wide, c
  <2> QED BY <1>0, <1>6, <2>1, StandardMade
<1> QED BY <1>3, <1>5, <1>7 DEF a, b, c, i

\* The bytes of s begin with a header, which says that len bytes follow.
Header(s, header, len) ==
  /\ s \in Seq(Octet) /\ Len(s) >= 2 /\ len \in Nat
  /\ \/ s[2] < 128 /\ header = 2 /\ len = s[2]
     \/ /\ s[2] > 128 /\ header = 2 + (s[2] - 128) /\ header <= Len(s)
        /\ len = Unsigned(SubSeq(s, 3, header))

\* What receivePacket makes of such bytes.
LEMMA ReceiveIs ==
  ASSUME NEW s, NEW hd, NEW len, Header(s, hd, len)
  PROVE  receivePacket(s) = IF Len(s) < hd + len THEN [packet |-> NoPacket, rest |-> <<>>]
                            ELSE [packet |-> SubSeq(s, 1, hd + len),
                                  rest   |-> SubSeq(s, hd + len + 1, Len(s))]
<1> DEFINE d == s[2]
           n == Len(s)
<1>1. s \in Seq(Octet) /\ n \in Nat /\ n >= 2 /\ d \in Nat /\ len \in Nat
  <2>1. s \in Seq(Octet) /\ n >= 2 /\ len \in Nat
    BY DEF Header
  <2>2. n \in Nat
    BY <2>1, LenProperties
  <2>3. d \in Octet
    <3>1. 2 \in 1 .. Len(s)
      BY <2>1, <2>2
    <3> QED BY <2>1, <3>1, ElementOfSeq
  <2> HIDE DEF d
  <2>4. d \in Nat
    BY <2>3, OctetIs
  <2> QED BY <2>1, <2>2, <2>4
<1> DEFINE long == n >= 2 /\ d >= 128
           num == IF long THEN d - 128 ELSE 0
           header == 2 + num
           contentLength == IF long THEN Unsigned(SubSeq(s, 3, header)) ELSE d
<1>2. receivePacket(s) =
        IF n < 2 \/ (long /\ num = 0) \/ n < header \/ n < header + contentLength
        THEN [packet |-> NoPacket, rest |-> <<>>]
        ELSE [packet |-> SubSeq(s, 1, header + contentLength),
              rest   |-> SubSeq(s, header + contentLength + 1, n)]
  BY DEF receivePacket
<1>3. CASE d < 128 /\ hd = 2 /\ len = d
  <2>1. ~long
    BY <1>1, <1>3
  <2>2. num = 0 /\ header = hd /\ contentLength = len
    BY <1>3, <2>1
  <2> HIDE DEF long, num, header, contentLength, n, d
  <2>3. ~(n < 2) /\ ~(n < hd)
    BY <1>1, <1>3
  <2> QED BY <1>2, <2>1, <2>2, <2>3 DEF n
<1>4. CASE d > 128 /\ hd = 2 + (d - 128) /\ hd <= n /\ len = Unsigned(SubSeq(s, 3, hd))
  <2>1. long
    BY <1>1, <1>4
  <2>2. num = d - 128 /\ header = hd
    BY <1>4, <2>1
  <2>3. contentLength = len
    BY <1>4, <2>1, <2>2
  <2> HIDE DEF long, num, header, contentLength, n, d
  <2>4. ~(n < 2) /\ ~(n < hd) /\ num # 0
    BY <1>1, <1>4, <2>2
  <2> QED BY <1>2, <2>2, <2>3, <2>4 DEF n
<1> QED BY <1>3, <1>4 DEF Header

\* Where a length stands behind the first byte, there is a header.
LEMMA LengthIsHeader ==
  ASSUME NEW s \in Seq(Octet), NEW lb, NEW len, LengthForm(lb, len), Stands(s, 2, lb)
  PROVE  Header(s, 1 + Len(lb), len)
<1> DEFINE k == Len(lb)
           n == Len(s)
           d == s[2]
<1>1. lb \in Seq(Octet) /\ k \in Nat /\ k >= 1 /\ len \in Nat /\ n \in Nat /\ 2 + k <= n + 1
  <2>1. lb \in Seq(Octet) /\ len \in Nat /\ 2 + k <= n + 1
    BY DEF LengthForm, Stands
  <2>2. k \in Nat /\ n \in Nat
    BY <2>1, LenProperties
  <2> QED BY <2>1, <2>2 DEF LengthForm
<1>2. d = lb[1]
  <2>1. 1 \in 1 .. k /\ 2 + 1 - 1 = 2
    BY <1>1
  <2>2. s[2 + 1 - 1] = lb[1]
    BY <2>1 DEF Stands
  <2> QED BY <2>1, <2>2
<1>3. CASE k = 1 /\ len < 128 /\ lb[1] = len
  <2>1. d < 128 /\ len = d
    BY <1>2, <1>3
  <2>2. 1 + k = 2 /\ n >= 2
    BY <1>1, <1>3
  <2> QED BY <1>1, <2>1, <2>2 DEF Header
<1>4. CASE /\ k \in 2 .. 9 /\ lb[1] = 127 + k
           /\ Unsigned(SubSeq(lb, 2, k)) = len
  <2>1. SubSeq(s, 3, 1 + k) = SubSeq(lb, 2, k)
    <3>1. k >= 2 /\ 2 + k - 1 = 1 + k /\ 2 + 1 = 3
      <4> HIDE DEF k
      <4> QED BY ONLY <1>1, <1>4
    <3>2. SubSeq(s, 2 + 1, 2 + k - 1) = SubSeq(lb, 2, k)
      BY <3>1, StandsTail
    <3> QED BY <3>1, <3>2
  <2> HIDE DEF d
  <2>2. d > 128 /\ 1 + k = 2 + (d - 128) /\ 1 + k <= n /\ n >= 2
    <3> HIDE DEF k, n
    <3> QED BY ONLY <1>1, <1>2, <1>4
  <2> QED BY <1>1, <1>4, <2>1, <2>2 DEF Header, d
<1> QED BY <1>3, <1>4 DEF LengthForm

\* An element at the beginning of the stream is received, and the rest is left.
LEMMA ElementReceived ==
  ASSUME NEW a, NEW tag, NEW content, Made(a, tag, content), NEW rest \in Seq(Octet)
  PROVE  receivePacket(a \o rest) = [packet |-> a, rest |-> rest]
<1> DEFINE s == a \o rest
<1>1. PICK lb : LengthForm(lb, Len(content)) /\ a = Encoded(tag, lb, content)
  BY DEF Made
<1>2. tag \in Octet /\ content \in Seq(Octet) /\ a \in Seq(Octet) /\ Len(a) \in Nat
  BY MadeIs
<1>3. /\ s \in Seq(Octet) /\ Len(s) = Len(a) + Len(rest) /\ Stands(s, 1, a)
      /\ SubSeq(s, Len(a) + 1, Len(s)) = rest
  BY <1>2, HeadStands
<1> HIDE DEF s
<1>4. Stands(s, 1 + 1, lb) /\ Len(a) = 1 + Len(lb) + Len(content)
  BY <1>1, <1>2, <1>3, EncodedStands
<1>5. Header(s, 1 + Len(lb), Len(content))
  <2>1. Stands(s, 2, lb)
    BY <1>4
  <2> QED BY <1>1, <1>3, <2>1, LengthIsHeader
<1>6. SubSeq(s, 1, Len(a)) = a
  <2>1. 1 + Len(a) - 1 = Len(a)
    BY <1>2
  <2>2. SubSeq(s, 1, 1 + Len(a) - 1) = a
    BY <1>3, StandsIs
  <2> QED BY <2>1, <2>2
<1>7. ~(Len(s) < Len(a)) /\ Len(rest) \in Nat
  BY <1>2, <1>3, LenProperties
<1> QED BY <1>3, <1>4, <1>5, <1>6, <1>7, ReceiveIs DEF s

\* Of an element of which the last byte is missing nothing is received.
LEMMA ElementCut ==
  ASSUME NEW a, NEW tag, NEW content, Made(a, tag, content), Len(content) >= 1
  PROVE  receivePacket(SubSeq(a, 1, Len(a) - 1)).packet = NoPacket
<1> DEFINE k == Len(a) - 1
           s == SubSeq(a, 1, k)
<1>1. PICK lb : LengthForm(lb, Len(content)) /\ a = Encoded(tag, lb, content)
  BY DEF Made
<1>2. /\ tag \in Octet /\ content \in Seq(Octet) /\ a \in Seq(Octet) /\ Len(a) \in Nat
      /\ Len(content) \in Nat
  BY MadeIs
<1>3. Stands(a, 1, a)
  <2> DEFINE e == <<>>
  <2>1. e \in Seq(Octet)
    OBVIOUS
  <2> QED BY <1>2, <2>1, HeadStands, ConcatEmptySeq
<1>4. Stands(a, 1 + 1, lb) /\ Len(a) = 1 + Len(lb) + Len(content)
  BY <1>1, <1>2, <1>3, EncodedStands
<1>5. lb \in Seq(Octet) /\ Len(lb) \in Nat
  <2>1. lb \in Seq(Octet)
    BY <1>1 DEF LengthForm
  <2> QED BY <2>1, LenProperties
<1>6. k \in Nat /\ k <= Len(a) /\ 1 + Len(lb) <= k /\ k < 1 + Len(lb) + Len(content)
  BY <1>2, <1>4, <1>5
<1> HIDE DEF k
<1>7. s \in Seq(Octet) /\ Len(s) = k /\ \A i \in 1 .. k : s[i] = a[i]
  <2>1. 1 \in Nat \ {0} /\ k - 1 + 1 = k /\ \A i \in 1 .. k : 1 + i - 1 = i
    BY <1>6
  <2>2. s \in Seq(Octet) /\ Len(s) = (IF 1 <= k THEN k - 1 + 1 ELSE 0)
        /\ \A i \in 1 .. k - 1 + 1 : s[i] = a[1 + i - 1]
    BY <1>2, <1>6, <2>1, PartOf
  <2> QED BY <1>6, <2>1, <2>2
<1> HIDE DEF s
<1>8. Stands(s, 2, lb)
  <2>1. 2 + Len(lb) <= Len(s) + 1
    BY <1>5, <1>6, <1>7
  <2>2. ASSUME NEW i \in 1 .. Len(lb)
        PROVE  s[2 + i - 1] = lb[i]
    <3>1. 2 + i - 1 \in 1 .. k /\ 1 + 1 = 2
      BY <1>5, <1>6
    <3>2. a[2 + i - 1] = lb[i]
      BY <1>4, <3>1 DEF Stands
    <3> QED BY <1>7, <3>1, <3>2
  <2> QED BY <1>5, <2>1, <2>2 DEF Stands
<1>9. Header(s, 1 + Len(lb), Len(content))
  BY <1>1, <1>7, <1>8, LengthIsHeader
<1>10. Len(s) < 1 + Len(lb) + Len(content)
  BY <1>6, <1>7
<1>11. receivePacket(s) = [packet |-> NoPacket, rest |-> <<>>]
  BY <1>9, <1>10, ReceiveIs
<1> QED BY <1>11 DEF s, k

\* Going into an element that is there, and past it.
LEMMA Steps ==
  ASSUME NEW e, NEW data, NEW pos, NEW end, NEW a, NEW content,
         Found(e, data, pos, end, a, content), NEW tag
  PROVE  /\ Into(data, tag)[e] = Element(data, e.from, e.to, tag)
         /\ Past(data, tag)[e] = Element(data, e.to, e.end, tag)
  BY DEF Found, Into, Past

\* Going on from one that is not there.
LEMMA NoSteps ==
  ASSUME NEW e \in Span, e.is = "other", NEW data, NEW tag
  PROVE  Into(data, tag)[e] = e /\ Past(data, tag)[e] = e
  BY DEF Into, Past

\* The bytes c stand between pos and end, and fill the space.
Filling(data, pos, end, c) == Stands(data, pos, c) /\ pos + Len(c) = end /\ end \in Nat

\* What an element contains fills it.
LEMMA FoundFilling ==
  ASSUME NEW e, NEW data, NEW pos, NEW end, NEW a, NEW content, Found(e, data, pos, end, a, content)
  PROVE  Filling(data, e.from, e.to, content) /\ e \in Span /\ e.is = "ok" /\ e.end = end
  BY DEF Found, Filling, Span

\* The first of two parts is an element: it is found, and the other part fills the rest.
LEMMA FirstPart ==
  ASSUME NEW data \in Seq(Octet), NEW pos, NEW end, NEW a, NEW tag, NEW content,
         Made(a, tag, content), NEW c \in Seq(Octet), Filling(data, pos, end, a \o c),
         NEW e, e = Element(data, pos, end, tag)
  PROVE  Found(e, data, pos, end, a, content) /\ Filling(data, e.to, end, c)
<1>1. a \in Seq(Octet) /\ Len(a) \in Nat
  BY MadeIs
<1>2. Stands(data, pos, a) /\ Stands(data, pos + Len(a), c)
  BY <1>1, StandsParts DEF Filling
<1>3. Len(a \o c) = Len(a) + Len(c) /\ Len(c) \in Nat /\ pos \in Nat
  BY <1>1, <1>2, ConcatProperties, LenProperties DEF Stands
<1>4. pos + Len(a) + Len(c) = end /\ end \in Nat /\ pos + Len(a) <= end
  BY <1>1, <1>3 DEF Filling
<1>5. Found(e, data, pos, end, a, content)
  BY <1>2, <1>4, MadeFound
<1>6. e.to = pos + Len(a)
  BY <1>5 DEF Found
<1> QED BY <1>2, <1>4, <1>5, <1>6 DEF Filling

\* The only part is an element.
LEMMA OnlyPart ==
  ASSUME NEW data \in Seq(Octet), NEW pos, NEW end, NEW a, NEW tag, NEW content,
         Made(a, tag, content), Filling(data, pos, end, a),
         NEW e, e = Element(data, pos, end, tag)
  PROVE  Found(e, data, pos, end, a, content) /\ e.to = end
<1>1. a \in Seq(Octet) /\ Len(a) \in Nat
  BY MadeIs
<1>2. Stands(data, pos, a) /\ end \in Nat /\ pos + Len(a) = end
  BY DEF Filling
<1>3. pos + Len(a) <= end
  BY <1>2
<1>4. Found(e, data, pos, end, a, content)
  BY <1>2, <1>3, MadeFound
<1> QED BY <1>2, <1>4 DEF Found

\* The beginning of an answer is read: the message, its id, and what follows.
LEMMA MessageRead ==
  ASSUME NEW n \in Forms, NEW m \in Response, NEW data \in Seq(Octet), NEW pos, NEW end \in Nat,
         Stands(data, pos, ResponseBytes(n, m)), pos + Len(ResponseBytes(n, m)) <= end,
         NEW msg, msg = Element(data, pos, end, 48), NEW id, id = Into(data, 2)[msg]
  PROVE  /\ Found(msg, data, pos, end, ResponseBytes(n, m), Body(n, m))
         /\ Found(id, data, msg.from, msg.to, IdBytes(n, m), <<m.id>>)
         /\ Filling(data, id.to, msg.to, OpBytes(n, m))
<1>1. /\ Made(IdBytes(n, m), 2, <<m.id>>)
      /\ Made(OpBytes(n, m), OpTag(m), OpBody(n, m))
      /\ Made(ResponseBytes(n, m), 48, Body(n, m))
  BY ResponseMade
<1>2. Found(msg, data, pos, end, ResponseBytes(n, m), Body(n, m))
  BY <1>1, MadeFound
<1>3. Filling(data, msg.from, msg.to, IdBytes(n, m) \o OpBytes(n, m))
  BY <1>2, FoundFilling DEF Body
<1>4. id = Element(data, msg.from, msg.to, 2)
  BY <1>2, Steps
<1>5. OpBytes(n, m) \in Seq(Octet)
  BY <1>1, MadeIs
<1> QED BY <1>1, <1>2, <1>3, <1>4, <1>5, FirstPart

\* All of a text.
LEMMA WholeFilling ==
  ASSUME NEW a \in Seq(Octet)
  PROVE  Stands(a, 1, a) /\ Packet(a) \in Span /\ Packet(a).is = "ok" /\ Len(a) \in Nat
<1> DEFINE e == <<>>
<1>1. e \in Seq(Octet)
  OBVIOUS
<1>2. Stands(a, 1, a) /\ Len(a) \in Nat
  BY <1>1, HeadStands, ConcatEmptySeq, LenProperties
<1> QED BY <1>2 DEF Packet, Span

\* The end of a search is seen in the answer that says so, and in no other.
LEMMA DoneIsSeen ==
  ASSUME NEW n \in Forms, NEW m \in Response, NEW a, a = ResponseBytes(n, m)
  PROVE  messageIsSearchResultDone(a) <=> IsDone(m)
<1> DEFINE end == Len(a) + 1
           msg == Into(a, 48)[Packet(a)]
           id == Into(a, 2)[msg]
<1>1. a \in Seq(Octet)
  BY ResponseMade, MadeIs
<1>2. Stands(a, 1, a) /\ Packet(a) \in Span /\ Packet(a).is = "ok" /\ Len(a) \in Nat
  BY <1>1, WholeFilling
<1>3. msg = Element(a, 1, end, 48)
  BY <1>2 DEF Into, Packet
<1>4. end \in Nat /\ 1 + Len(a) <= end
  BY <1>2
<1> HIDE DEF msg, end
<1>5. /\ Found(msg, a, 1, end, a, Body(n, m))
      /\ Found(id, a, msg.from, msg.to, IdBytes(n, m), <<m.id>>)
      /\ Filling(a, id.to, msg.to, OpBytes(n, m))
  <2> HIDE DEF id
  <2>1. id = Into(a, 2)[msg]
    BY DEF id
  <2> QED BY <1>1, <1>2, <1>3, <1>4, <2>1, MessageRead
<1> HIDE DEF id
<1>6. msg.to = 1 + Len(a) /\ id.is = "ok"
  BY <1>5 DEF Found
<1>7. Made(OpBytes(n, m), OpTag(m), OpBody(n, m))
  BY ResponseMade
<1> DEFINE b == OpBytes(n, m)
<1>8. b[1] = OpTag(m) /\ Len(b) \in Nat /\ Len(b) >= 1
  BY <1>7, MadeIs
<1>9. id.to \in Nat /\ id.to + Len(b) = msg.to /\ a[id.to] = b[1]
  <2>1. Stands(a, id.to, b) /\ id.to + Len(b) = msg.to
    BY <1>5 DEF Filling
  <2>2. id.to \in Nat /\ 1 \in 1 .. Len(b) /\ id.to + 1 - 1 = id.to
    BY <1>8, <2>1 DEF Stands
  <2>3. a[id.to + 1 - 1] = b[1]
    BY <2>1, <2>2 DEF Stands
  <2> QED BY <2>1, <2>2, <2>3
<1> HIDE DEF b
<1>10. id.to < Len(a) + 1
  BY <1>2, <1>6, <1>8, <1>9
<1>11. messageIsSearchResultDone(a) <=> OpTag(m) = 101
  BY <1>6, <1>8, <1>9, <1>10 DEF messageIsSearchResultDone, id, msg
<1> QED BY <1>11, AnswerTags DEF IsDone

\* No zero in s makes a success, whatever comes before s.
Fine(s) ==
  /\ s \in Seq(Octet)
  /\ \A i \in 1 .. Len(s) : s[i] = 0 => i >= 2 /\ (s[i - 1] = 1 => i >= 3 /\ s[i - 2] # 10)

\* Two such texts, one after the other.
LEMMA FineJoined ==
  ASSUME NEW a, NEW b, Fine(a), Fine(b)
  PROVE  Fine(a \o b)
<1> DEFINE c == a \o b
           n == Len(a)
<1>1. a \in Seq(Octet) /\ b \in Seq(Octet)
  BY DEF Fine
<1>2. /\ c \in Seq(Octet) /\ n \in Nat /\ Len(b) \in Nat /\ Len(c) = n + Len(b)
      /\ \A i \in 1 .. n + Len(b) : c[i] = IF i <= n THEN a[i] ELSE b[i - n]
  BY <1>1, ConcatProperties, LenProperties
<1> HIDE DEF c
<1>3. ASSUME NEW i \in 1 .. Len(c), c[i] = 0
      PROVE  i >= 2 /\ (c[i - 1] = 1 => i >= 3 /\ c[i - 2] # 10)
  <2>1. CASE i <= n
    <3>1. i \in 1 .. n /\ a[i] = 0
      BY <1>2, <1>3, <2>1
    <3>2. i >= 2 /\ (a[i - 1] = 1 => i >= 3 /\ a[i - 2] # 10)
      BY <3>1 DEF Fine
    <3>3. i - 1 \in 1 .. n + Len(b) /\ i - 1 <= n
      BY <1>2, <3>1, <3>2
    <3>4. i >= 3 => i - 2 \in 1 .. n + Len(b) /\ i - 2 <= n
      BY <1>2, <3>1
    <3>5. c[i - 1] = a[i - 1] /\ (i >= 3 => c[i - 2] = a[i - 2])
      BY <1>2, <3>3, <3>4
    <3> QED BY <3>2, <3>5
  <2>2. CASE ~(i <= n)
    <3> DEFINE j == i - n
    <3>1. j \in 1 .. Len(b) /\ i = n + j
      BY <1>2, <2>2
    <3>2. b[j] = 0
      BY <1>2, <1>3, <2>2
    <3> HIDE DEF j, n
    <3>3. j >= 2 /\ (b[j - 1] = 1 => j >= 3 /\ b[j - 2] # 10)
      BY <3>1, <3>2 DEF Fine
    <3>4. i - 1 \in 1 .. n + Len(b) /\ ~(i - 1 <= n) /\ (i - 1) - n = j - 1 /\ i >= 2
      BY <1>2, <3>1, <3>3
    <3>5. j >= 3 => i - 2 \in 1 .. n + Len(b) /\ ~(i - 2 <= n) /\ (i - 2) - n = j - 2 /\ i >= 3
      BY <1>2, <3>1
    <3>6. c[i - 1] = b[j - 1] /\ (j >= 3 => c[i - 2] = b[j - 2])
      BY <1>2, <3>4, <3>5
    <3> QED BY <3>3, <3>4, <3>5, <3>6
  <2> QED BY <2>1, <2>2
<1>4. Fine(c)
  BY <1>2, <1>3 DEF Fine
<1> QED BY <1>4 DEF c

\* A text without zeros.
LEMMA FineText ==
  ASSUME NEW s \in Seq(Octet), \A i \in 1 .. Len(s) : s[i] # 0
  PROVE  Fine(s)
  BY DEF Fine

\* One byte, one byte and digits.
OfLength(s, k) == s \in Seq(Octet) /\ k \in Nat /\ Len(s) = k

Behind(s, a, b, t, k) ==
  /\ s \in Seq(Octet) /\ Len(s) = k + 2 /\ s[1] = a[1] /\ s[2] = b[1]
  /\ \A i \in 1 .. k : s[i + 2] = t[i]

\* The bytes of the three, one by one.
LEMMA HeadBytes ==
  ASSUME NEW k, NEW t, OfLength(t, k), NEW b, OfLength(b, 1), NEW a, OfLength(a, 1),
         NEW s, s = a \o (b \o t)
  PROVE  Behind(s, a, b, t, k)
<1> DEFINE c == b \o t
<1>0. /\ k \in Nat /\ t \in Seq(Octet) /\ Len(t) = k /\ b \in Seq(Octet) /\ Len(b) = 1
      /\ a \in Seq(Octet) /\ Len(a) = 1
  BY DEF OfLength
<1>1. /\ c \in Seq(Octet) /\ Len(c) = Len(b) + Len(t)
      /\ \A i \in 1 .. Len(b) + Len(t) : c[i] = IF i <= Len(b) THEN b[i] ELSE t[i - Len(b)]
  BY <1>0, ConcatProperties
<1>9. s = a \o c
  OBVIOUS
<1> HIDE DEF c
<1>2. c \in Seq(Octet) /\ Len(c) = 1 + k /\ c[1] = b[1] /\ \A i \in 1 .. k : c[i + 1] = t[i]
  <2>1. c[1] = b[1]
    <3>1. 1 \in 1 .. Len(b) + Len(t) /\ 1 <= Len(b)
      BY <1>0
    <3> QED BY <1>1, <3>1
  <2>2. ASSUME NEW i \in 1 .. k
        PROVE  c[i + 1] = t[i]
    <3>1. i + 1 \in 1 .. Len(b) + Len(t) /\ ~(i + 1 <= Len(b)) /\ (i + 1) - Len(b) = i
      BY <1>0
    <3> QED BY <1>1, <3>1
  <2> QED BY <1>0, <1>1, <2>1, <2>2
<1>3. /\ s \in Seq(Octet) /\ Len(s) = Len(a) + Len(c)
      /\ \A i \in 1 .. Len(a) + Len(c) : s[i] = IF i <= Len(a) THEN a[i] ELSE c[i - Len(a)]
  <2>1. c \in Seq(Octet) /\ a \in Seq(Octet)
    BY <1>0, <1>2
  <2> QED BY <1>9, <2>1, ConcatProperties
<1>4. s[1] = a[1]
  <2>1. 1 \in 1 .. Len(a) + Len(c) /\ 1 <= Len(a)
    BY <1>0, <1>2
  <2> QED BY <1>3, <2>1
<1>5. s[2] = b[1]
  <2>1. 2 \in 1 .. Len(a) + Len(c) /\ ~(2 <= Len(a)) /\ 2 - Len(a) = 1
    BY <1>0, <1>2
  <2> QED BY <1>2, <1>3, <2>1
<1>6. ASSUME NEW i \in 1 .. k
      PROVE  s[i + 2] = t[i]
  <2>1. i + 2 \in 1 .. Len(a) + Len(c) /\ ~(i + 2 <= Len(a)) /\ (i + 2) - Len(a) = i + 1
    BY <1>0, <1>2
  <2> QED BY <1>2, <1>3, <2>1
<1>7. Len(s) = k + 2
  BY <1>0, <1>2, <1>3
<1> QED BY <1>3, <1>4, <1>5, <1>6, <1>7 DEF Behind

\* A tag that no success has, and a length.
HeadTag(tag) == tag \in Octet /\ tag # 0 /\ tag # 1 /\ tag # 10

\* A tag, and a length of k digits t, of which the last but one is q.
LongHead(s, tag, k, t) ==
  /\ HeadTag(tag) /\ k \in Nat /\ k >= 1 /\ s \in Seq(Octet) /\ Len(s) = k + 2
  /\ s[1] = tag /\ s[2] = 128 + k /\ \A i \in 1 .. k : s[i + 2] = t[i]

LongDigits(k, t, q) == (\A i \in 1 .. k - 2 : t[i] = 0) /\ (k >= 2 => t[k - 1] = q)

\* The long form of a length makes no success.
LEMMA FineLong ==
  ASSUME NEW tag, NEW k, NEW s, NEW t, LongHead(s, tag, k, t), NEW q, LongDigits(k, t, q)
  PROVE  Fine(s) /\ (q = 0 => s[Len(s) - 1] # 10)
<1> USE DEF LongHead, LongDigits
<1>1. tag # 0 /\ tag # 1 /\ tag # 10
  BY DEF HeadTag
<1>2. ASSUME NEW i \in 1 .. k - 2
      PROVE  s[i + 2] = 0
  <2>1. i \in 1 .. k
    OBVIOUS
  <2> QED BY <2>1
<1>3. ASSUME NEW i \in 1 .. Len(s), s[i] = 0
      PROVE  i >= 2 /\ (s[i - 1] = 1 => i >= 3 /\ s[i - 2] # 10)
  <2>1. i # 1 /\ i # 2
    <3>1. 128 + k # 0
      OBVIOUS
    <3> QED BY <1>1, <1>3, <3>1
  <2>2. CASE i = 3
    <3>1. i - 1 = 2 /\ 128 + k # 1 /\ i >= 2
      BY <2>2
    <3> QED BY <3>1
  <2>3. CASE i # 3
    <3>1. i >= 4 /\ i <= k + 2 /\ i \in Nat
      BY <2>1, <2>3
    <3>2. ASSUME s[i - 1] = 1
          PROVE  s[i - 2] # 10
      <4> DEFINE j == i - 3
      <4>1. j \in Nat /\ j >= 1 /\ j + 2 = i - 1 /\ j < k
        BY <3>1
      <4> HIDE DEF j
      <4>2. s[j + 2] = 1
        BY <3>2, <4>1
      <4>3. j \notin 1 .. k - 2
        BY <1>2, <4>2
      <4>4. j = k - 1
        BY <4>1, <4>3
      <4>5. CASE j = 1
        <5>1. i - 2 = 2 /\ 128 + k # 10
          BY <3>1, <4>1, <4>5
        <5> QED BY <5>1
      <4>6. CASE j # 1
        <5> DEFINE x == j - 1
        <5>1. x \in 1 .. k - 2 /\ x + 2 = i - 2
          BY <3>1, <4>1, <4>4, <4>6
        <5> HIDE DEF x
        <5>2. s[x + 2] = 0
          BY <1>2, <5>1
        <5> QED BY <5>1, <5>2
      <4> QED BY <4>5, <4>6
    <3> QED BY <3>1, <3>2
  <2> QED BY <2>2, <2>3
<1>4. ASSUME q = 0
      PROVE  s[Len(s) - 1] # 10
  <2>1. Len(s) - 1 = k + 1
    OBVIOUS
  <2>2. CASE k = 1
    <3>1. k + 1 = 2 /\ 128 + k # 10
      BY <2>2
    <3> QED BY <2>1, <3>1
  <2>3. CASE k # 1
    <3> DEFINE x == k - 1
    <3>1. x \in 1 .. k /\ x + 2 = k + 1 /\ k >= 2
      BY <2>3
    <3>2. t[x] = 0
      BY <1>4, <3>1
    <3> HIDE DEF x
    <3>3. s[x + 2] = 0
      BY <3>1, <3>2
    <3> QED BY <2>1, <3>1, <3>3
  <2> QED BY <2>2, <2>3
<1> QED BY <1>3, <1>4 DEF Fine

\* The text s makes no success, nor does one byte after a length of one.
FineEnd(s, len) ==
  Fine(s) /\ (len = 1 => Len(s) >= 2 /\ s[Len(s)] = 1 /\ s[Len(s) - 1] # 10)

LongBytes(tag, len, k) == <<tag>> \o (<<128 + k>> \o Digits(len, k))

\* A tag and the long form of a length.
LEMMA FineDigits ==
  ASSUME NEW tag, HeadTag(tag), NEW len, NEW k, LongLength(len, k)
  PROVE  FineEnd(LongBytes(tag, len, k), len)
<1> DEFINE t == Digits(len, k)
           a == <<tag>>
           b == <<128 + k>>
           s == a \o (b \o t)
<1>14. s = LongBytes(tag, len, k)
  BY DEF LongBytes
<1>15. t = Digits(len, k) /\ a = <<tag>> /\ b = <<128 + k>> /\ s = a \o (b \o t)
  OBVIOUS
<1> HIDE DEF t, a, b, s
<1> DEFINE q == len \div 256
           r == len % 256
<1>0. k \in Nat /\ k >= 1 /\ k <= 8 /\ len \in Nat
  BY DEF LongLength
<1>1. len = 1 => q = 0 /\ r = 1
  BY <1>0
<1>2. t \in Seq(Octet) /\ Len(t) = k
  BY <1>15, DigitsForm
<1>3. \A i \in 1 .. k : t[i] = IF i = k THEN r ELSE IF i = k - 1 THEN q ELSE 0
  BY <1>15 DEF Digits
<1> HIDE DEF q, r
<1>4. b \in Seq(Octet) /\ Len(b) = 1 /\ b[1] = 128 + k
  <2> DEFINE d == 128 + k
  <2>1. d \in Nat /\ d < 256
    BY <1>0
  <2>2. b = <<d>>
    BY <1>15
  <2> HIDE DEF d
  <2>3. d \in Octet
    BY <2>1, IsOctet
  <2>4. b \in Seq(Octet) /\ Len(b) = 1 /\ b[1] = d
    BY <2>2, <2>3
  <2> QED BY <2>4 DEF d
<1>5. a \in Seq(Octet) /\ Len(a) = 1 /\ a[1] = tag
  BY <1>15 DEF HeadTag
<1>6. /\ s \in Seq(Octet) /\ Len(s) = k + 2 /\ s[1] = a[1] /\ s[2] = b[1]
      /\ \A i \in 1 .. k : s[i + 2] = t[i]
  <2>1. OfLength(t, k) /\ OfLength(b, 1) /\ OfLength(a, 1)
    BY <1>0, <1>2, <1>4, <1>5 DEF OfLength
  <2>2. Behind(s, a, b, t, k)
    BY <1>15, <2>1, HeadBytes
  <2> QED BY <2>2 DEF Behind
<1>7. k \in 1 .. k /\ (k >= 2 => k - 1 \in 1 .. k /\ k - 1 # k)
      /\ \A i \in 1 .. k - 2 : i \in 1 .. k /\ i # k /\ i # k - 1
  BY <1>0
<1>8. t[k] = r
  BY <1>3, <1>7
<1>9. LongDigits(k, t, q)
  <2>1. k >= 2 => t[k - 1] = q
    BY <1>3, <1>7
  <2>2. \A i \in 1 .. k - 2 : t[i] = 0
    BY <1>3, <1>7
  <2> QED BY <2>1, <2>2 DEF LongDigits
<1>10. LongHead(s, tag, k, t)
  BY <1>0, <1>4, <1>5, <1>6 DEF LongHead
<1>11. Fine(s) /\ (q = 0 => s[Len(s) - 1] # 10)
  BY <1>9, <1>10, FineLong
<1>12. len = 1 => s[Len(s)] = 1
  <2>1. s[k + 2] = t[k]
    BY <1>6, <1>7
  <2> QED BY <1>1, <1>6, <1>8, <2>1
<1>13. Len(s) >= 2
  BY <1>0, <1>6
<1>16. FineEnd(s, len)
  BY <1>1, <1>11, <1>12, <1>13 DEF FineEnd
<1> QED BY <1>14, <1>16

\* A tag and a length that the server writes.
HeadOf(s, n, tag, len) ==
  len \in Nat /\ len <= 65535 /\ s = <<tag>> \o StandardLength(len, n)

\* No tag with its length makes one.
LEMMA FineHead ==
  ASSUME NEW n \in Forms, NEW tag, HeadTag(tag), NEW len, NEW s, HeadOf(s, n, tag, len)
  PROVE  FineEnd(s, len)
<1>0. len \in Nat /\ len <= 65535 /\ s = <<tag>> \o StandardLength(len, n)
  BY DEF HeadOf
<1> DEFINE k == IF n # 0 THEN n ELSE IF len < 256 THEN 1 ELSE 2
           lb == StandardLength(len, n)
<1>1. n = 0 \/ n \in 2 .. 8
  BY WireAssumption
<1>2. lb = IF n = 0 /\ len < 128 THEN <<len>> ELSE <<128 + k>> \o Digits(len, k)
  BY DEF StandardLength, Digits
<1>3. LongLength(len, k)
  <2>1. k \in 1 .. 8 /\ (k = 1 => len <= 255)
    BY <1>0, <1>1
  <2> QED BY <1>0, <2>1 DEF LongLength
<1>4. tag \in Octet /\ tag # 0 /\ tag # 1 /\ tag # 10
  BY DEF HeadTag
<1>5. s = <<tag>> \o lb
  BY <1>0
<1> HIDE DEF k, lb
<1>6. CASE n = 0 /\ len < 128
  <2>1. len \in Octet
    BY <1>0, <1>6, IsOctet
  <2>2. s = <<tag, len>>
    <3>1. lb = <<len>>
      BY <1>2, <1>6
    <3>2. <<tag>> \o <<len>> = <<tag, len>>
      BY <1>4, <2>1, TwoJoined
    <3> QED BY ONLY <1>5, <3>1, <3>2, Zenon
  <2>3. s \in Seq(Octet) /\ Len(s) = 2 /\ s[1] = tag /\ s[2] = len
    BY ONLY <1>4, <2>1, <2>2
  <2>4. Fine(s)
    BY ONLY <1>4, <2>3 DEF Fine
  <2> QED BY <1>4, <2>3, <2>4 DEF FineEnd
<1>7. CASE ~(n = 0 /\ len < 128)
  <2>1. s = LongBytes(tag, len, k)
    BY <1>2, <1>5, <1>7 DEF LongBytes
  <2>2. FineEnd(LongBytes(tag, len, k), len)
    BY <1>3, FineDigits
  <2> QED BY ONLY <2>1, <2>2
<1> QED BY <1>6, <1>7

\* An element makes no success if what it contains makes none.
LEMMA FineStandard ==
  ASSUME NEW n \in Forms, NEW tag, HeadTag(tag), NEW content, Fine(content), Len(content) <= 65535
  PROVE  Fine(Standard(n, tag, content))
<1> DEFINE len == Len(content)
           s == <<tag>> \o StandardLength(len, n)
<1>1. len \in Nat /\ len <= 65535
  BY LenProperties DEF Fine
<1>3. Standard(n, tag, content) = s \o content
  BY DEF Standard
<1> HIDE DEF len
<1>2. FineEnd(s, len)
  <2>1. HeadOf(s, n, tag, len)
    BY <1>1 DEF HeadOf
  <2> HIDE DEF s
  <2> QED BY <2>1, FineHead
<1> HIDE DEF s
<1> QED BY <1>2, <1>3, FineJoined DEF FineEnd

\* Nor does an id.
LEMMA FineId ==
  ASSUME NEW n \in Forms, NEW m \in Response
  PROVE  Fine(IdBytes(n, m))
<1> DEFINE i == <<m.id>>
           s == <<2>> \o StandardLength(1, n)
           c == s \o i
<1>1. i \in Seq(Octet) /\ Len(i) = 1 /\ m.id \in Nat /\ i[1] = m.id
  <2>1. m.id \in Octet
    BY AnswerTexts
  <2> QED BY <2>1, OctetIs
<1>3. IdBytes(n, m) = c
  BY <1>1 DEF IdBytes, Standard
<1> HIDE DEF i
<1>2. FineEnd(s, 1)
  <2>1. HeadTag(2)
    BY AnswerTags DEF HeadTag
  <2>2. HeadOf(s, n, 2, 1)
    BY DEF HeadOf
  <2> HIDE DEF s
  <2> QED BY <2>1, <2>2, FineHead
<1> HIDE DEF s, c
<1>4. s \in Seq(Octet) /\ Len(s) \in Nat /\ Len(s) >= 2 /\ s[Len(s)] = 1 /\ s[Len(s) - 1] # 10
  <2>1. s \in Seq(Octet) /\ Len(s) >= 2 /\ s[Len(s)] = 1 /\ s[Len(s) - 1] # 10
    BY <1>1, <1>2 DEF FineEnd, Fine
  <2> QED BY <2>1, LenProperties
<1>5. /\ c \in Seq(Octet) /\ Len(c) = Len(s) + 1
      /\ \A j \in 1 .. Len(s) + 1 : c[j] = IF j <= Len(s) THEN s[j] ELSE i[j - Len(s)]
  <2>1. c = s \o i
    BY DEF c
  <2>2. /\ s \o i \in Seq(Octet) /\ Len(s \o i) = Len(s) + Len(i)
        /\ \A j \in 1 .. Len(s) + Len(i) : (s \o i)[j] = IF j <= Len(s) THEN s[j] ELSE i[j - Len(s)]
    BY <1>1, <1>4, ConcatProperties
  <2> QED BY <1>1, <2>1, <2>2
<1>6. ASSUME NEW j \in 1 .. Len(c), c[j] = 0
      PROVE  j >= 2 /\ (c[j - 1] = 1 => j >= 3 /\ c[j - 2] # 10)
  <2>1. CASE j <= Len(s)
    <3>1. j \in 1 .. Len(s) /\ s[j] = 0
      BY <1>4, <1>5, <1>6, <2>1
    <3>2. j >= 2 /\ (s[j - 1] = 1 => j >= 3 /\ s[j - 2] # 10)
      BY <1>2, <3>1 DEF FineEnd, Fine
    <3>3. j - 1 \in 1 .. Len(s) + 1 /\ j - 1 <= Len(s)
      BY <1>4, <3>1, <3>2
    <3>4. j >= 3 => j - 2 \in 1 .. Len(s) + 1 /\ j - 2 <= Len(s)
      BY <1>4, <3>1
    <3>5. c[j - 1] = s[j - 1] /\ (j >= 3 => c[j - 2] = s[j - 2])
      BY <1>5, <3>3, <3>4
    <3> QED BY <3>2, <3>5
  <2>2. CASE ~(j <= Len(s))
    <3>1. j = Len(s) + 1 /\ j - 1 = Len(s) /\ j - 2 = Len(s) - 1
      BY <1>4, <1>5, <2>2
    <3>2. c[j - 2] = s[Len(s) - 1]
      <4>1. Len(s) - 1 \in 1 .. Len(s) + 1 /\ Len(s) - 1 <= Len(s)
        BY <1>4
      <4>2. c[Len(s) - 1] = s[Len(s) - 1]
        BY <1>5, <4>1
      <4> QED BY <3>1, <4>2
    <3>3. j >= 3
      BY <1>4, <3>1
    <3> QED BY <1>4, <3>2, <3>3
  <2> QED BY <2>1, <2>2
<1> QED BY <1>3, <1>5, <1>6 DEF Fine

\* Nor does a text.
LEMMA FineTyped ==
  ASSUME NEW text \in Planes \cup Speeds \cup {Empty}, NEW id \in Ids
  PROVE  Fine(Bytes(text, id))
<1> DEFINE s == Bytes(text, id)
           n == Lengths[id]
<1>1. s \in Seq(Octet)
  BY TypedTexts DEF IsText
<1>2. CASE text = Empty
  <2>1. s = <<>>
    BY <1>2 DEF Bytes
  <2> QED BY <1>1, <2>1 DEF Fine
<1>3. CASE text # Empty
  <2>1. s = [i \in 1 .. n |-> Code[text]]
    BY <1>3 DEF Bytes
  <2>2. Code[text] # 0
    BY <1>3, WireAssumption
  <2>3. DOMAIN s = 1 .. Len(s)
    BY <1>1, LenProperties
  <2> HIDE DEF s
  <2>4. \A i \in DOMAIN s : s[i] # 0
    BY <2>1, <2>2
  <2> QED BY <1>1, <2>3, <2>4, FineText DEF s
<1> QED BY <1>2, <1>3

\* Nor do the texts that every answer has.
LEMMA FineFixed ==
  /\ \A n \in Nat : Fine(Octets(n))
  /\ Fine(cn) /\ Fine(description) /\ Fine(baseDN) /\ Fine(<<>>)
<1>1. ASSUME NEW n \in Nat
      PROVE  Fine(Octets(n))
  <2> DEFINE s == Octets(n)
  <2>1. s \in Seq(Octet)
    BY FixedTexts DEF IsText
  <2>2. DOMAIN s = 1 .. Len(s)
    BY <2>1, LenProperties
  <2>3. \A i \in DOMAIN s : s[i] # 0
    BY DEF Octets
  <2> QED BY <2>1, <2>2, <2>3, FineText
<1>2. Fine(cn)
  <2>1. cn \in Seq(Octet)
    BY FixedTexts DEF IsText
  <2>2. \A i \in 1 .. Len(cn) : cn[i] # 0
    BY DEF cn
  <2> QED BY <2>1, <2>2, FineText
<1>3. Fine(description)
  <2>1. description \in Seq(Octet)
    BY FixedTexts DEF IsText
  <2>2. \A i \in 1 .. Len(description) : description[i] # 0
    BY DEF description
  <2> QED BY <2>1, <2>2, FineText
<1>4. Fine(baseDN)
  BY <1>1 DEF baseDN
<1>5. Fine(<<>>)
  BY DEF Fine
<1> QED BY <1>1, <1>2, <1>3, <1>4, <1>5

\* The tags of elements are not those of a success.
LEMMA HeadTags == \A tag \in {2, 4, 48, 49, 97, 100, 101, 105, 107, 120} : HeadTag(tag)
  BY AnswerTags DEF HeadTag

\* Nor does an attribute.
LEMMA FineAttribute ==
  ASSUME NEW n \in Forms, NEW type, IsText(type, 11), Fine(type),
         NEW value, IsText(value, 20000), Fine(value)
  PROVE  Fine(AttributeBytes(n, type, value))
<1>1. /\ Made(Value(n, value), 4, value)
      /\ Made(ValueSet(n, value), 49, Value(n, value))
      /\ Made(Kind(n, type), 4, type)
      /\ Made(Filled(n, type, value), 48, Pair(n, type, value))
      /\ IsText(Filled(n, type, value), 20051)
  BY AttributeMade
<1> DEFINE a == Value(n, value)
           b == ValueSet(n, value)
           c == Kind(n, type)
           d == Pair(n, type, value)
           e == Filled(n, type, value)
<1>2. Len(e) <= 65535 /\ Len(d) <= 65535 /\ Len(c) <= 65535 /\ Len(b) <= 65535 /\ Len(a) <= 65535
      /\ Len(value) <= 65535 /\ Len(type) <= 65535
  <2>1. Len(e) <= 20051 /\ Len(e) \in Nat /\ Len(e) >= 2 + Len(d) /\ Len(d) \in Nat
    BY <1>1, MadeIs DEF IsText
  <2>2. Len(b) \in Nat /\ Len(b) >= 2 + Len(a) /\ Len(a) \in Nat /\ Len(a) >= 2 + Len(value)
        /\ Len(c) \in Nat /\ Len(c) >= 2 + Len(type) /\ Len(value) \in Nat /\ Len(type) \in Nat
        /\ c \in Seq(Octet) /\ b \in Seq(Octet)
    BY <1>1, MadeIs
  <2>3. Len(d) = Len(c) + Len(b)
    <3>1. d = c \o b
      BY DEF Pair
    <3> HIDE DEF b, c, d
    <3> QED BY <2>2, <3>1, ConcatProperties
  <2> HIDE DEF a, b, c, d, e
  <2> QED BY <2>1, <2>2, <2>3
<1>3. HeadTag(4) /\ HeadTag(48) /\ HeadTag(49)
  BY HeadTags
<1>4. Fine(a) /\ Fine(c)
  BY <1>2, <1>3, FineStandard DEF Value, Kind
<1>5. Fine(b)
  BY <1>2, <1>3, <1>4, FineStandard DEF ValueSet
<1>6. Fine(d)
  BY <1>4, <1>5, FineJoined DEF Pair
<1>7. Fine(e)
  BY <1>2, <1>3, <1>6, FineStandard DEF Filled
<1>8. Fine(<<>>)
  BY FineFixed
<1> QED BY <1>7, <1>8, AttributeText

\* The body of an answer has a length below 65536.
LEMMA BodyShort ==
  ASSUME NEW n \in Forms, NEW m \in Response
  PROVE  Len(Body(n, m)) <= 65535
<1> DEFINE a == IdBytes(n, m)
           b == OpBytes(n, m)
           i == <<m.id>>
           o == OpBody(n, m)
<1>1. IsText(a, 11)
  <2>1. IsText(i, 1)
    <3>1. m.id \in Octet
      BY AnswerTexts
    <3> QED BY ONLY <3>1 DEF IsText
  <2>2. Wide(1, 11) /\ 2 \in Octet /\ a = Standard(n, 2, i)
    BY AnswerTags DEF Wide, IdBytes
  <2> HIDE DEF a, i
  <2> QED BY <2>1, <2>2, StandardMade
<1>2. IsText(b, 40160)
  <2>1. IsText(o, 40150)
    BY EntryMade, ResultText DEF OpBody
  <2>2. Wide(40150, 40160) /\ OpTag(m) \in Octet /\ b = Standard(n, OpTag(m), o)
    BY AnswerTags DEF Wide, OpBytes
  <2> HIDE DEF b, o
  <2> QED BY <2>1, <2>2, StandardMade
<1>3. Adds(11, 40160, 40171) /\ Body(n, m) = a \o b
  BY DEF Adds, Body
<1> HIDE DEF a, b
<1>4. IsText(a \o b, 40171)
  BY <1>1, <1>2, <1>3, TextsJoined
<1>5. Len(a \o b) \in Nat /\ Len(a \o b) <= 40171
  BY <1>4, LenProperties DEF IsText
<1> QED BY <1>3, <1>5

\* An answer that is no success makes none.
LEMMA FineResponse ==
  ASSUME NEW n \in Forms, NEW m \in Response, ~m.ok
  PROVE  Fine(ResponseBytes(n, m))
<1> DEFINE speed == Bytes(m.speed, m.id)
           name == Bytes(m.name, m.id)
           attrs == Attrs(n, m)
           element == Standard(n, 48, attrs)
           first == Standard(n, 4, baseDN)
<1>1. HeadTag(2) /\ HeadTag(4) /\ HeadTag(48) /\ HeadTag(OpTag(m))
  BY HeadTags, AnswerTags
<1>2. IsText(speed, 20000) /\ IsText(name, 20000) /\ Fine(speed) /\ Fine(name)
  <2>1. m.speed \in Planes \cup Speeds \cup {Empty} /\ m.name \in Planes \cup Speeds \cup {Empty}
        /\ m.id \in Ids
    BY DEF Response
  <2> QED BY <2>1, AnswerTexts, FineTyped
<1>3. Fine(attrs)
  <2>1. IsText(description, 11) /\ IsText(cn, 11)
    BY FixedTexts DEF IsText
  <2>2. Fine(AttributeBytes(n, description, speed)) /\ Fine(AttributeBytes(n, cn, name))
    <3> HIDE DEF speed, name
    <3> QED BY <1>2, <2>1, FineAttribute, FineFixed
  <2> QED BY <2>2, FineJoined DEF Attrs
<1>4. Len(attrs) <= 65535
  <2>1. attrs \in Seq(Octet) /\ element \in Seq(Octet) /\ Len(element) >= 2 + Len(attrs)
        /\ first \in Seq(Octet) /\ Len(first) \in Nat /\ Len(element) \in Nat /\ Len(attrs) \in Nat
    BY EntryMade, MadeIs
  <2>2. Len(first \o element) <= 40150
    BY EntryMade DEF IsText, EntryBody
  <2> HIDE DEF attrs, element, first
  <2>3. Len(first \o element) = Len(first) + Len(element)
    BY <2>1, ConcatProperties
  <2> QED BY <2>1, <2>2, <2>3
<1>5. Fine(EntryBody(n, m))
  <2>1. Fine(element)
    <3> HIDE DEF attrs
    <3> QED BY <1>1, <1>3, <1>4, FineStandard
  <2>2. Fine(first)
    <3>1. Len(baseDN) <= 65535
      BY FixedTexts, LenProperties DEF IsText
    <3> QED BY <1>1, <3>1, FineFixed, FineStandard
  <2> QED BY <2>1, <2>2, FineJoined DEF EntryBody
<1>6. Fine(ResultBody(n, m))
  <2> DEFINE a == Outcome(m)
             b == Standard(n, 4, <<>>)
             d == Standard(n, 4, Octets(9))
  <2>1. Fine(a)
    <3>1. a = <<10, 1, 2>>
      BY DEF Outcome
    <3>2. a \in Seq(Octet)
      BY ResultText DEF IsText
    <3>3. \A i \in 1 .. Len(a) : a[i] # 0
      BY <3>1
    <3> QED BY <3>2, <3>3, FineText
  <2>2. Fine(b) /\ Fine(d)
    <3>1. 9 \in Nat /\ Len(<<>>) <= 65535 /\ Len(Octets(9)) <= 65535
      BY FixedTexts, LenProperties DEF IsText
    <3> QED BY <1>1, <3>1, FineFixed, FineStandard
  <2> QED BY <2>1, <2>2, FineJoined DEF ResultBody
<1>7. Fine(OpBytes(n, m))
  <2> DEFINE c == OpBody(n, m)
  <2>1. Fine(c) /\ Len(c) <= 65535
    <3>1. IsText(c, 40150)
      BY EntryMade, ResultText DEF OpBody
    <3>2. Len(c) <= 65535
      BY <3>1, LenProperties DEF IsText
    <3> QED BY <1>5, <1>6, <3>2 DEF OpBody
  <2> HIDE DEF c
  <2>2. Fine(Standard(n, OpTag(m), c))
    BY <1>1, <2>1, FineStandard
  <2> QED BY <2>2 DEF OpBytes, c
<1>8. Fine(Body(n, m))
  BY <1>7, FineId, FineJoined DEF Body
<1>9. Len(Body(n, m)) <= 65535
  BY BodyShort
<1> QED BY <1>1, <1>8, <1>9, FineStandard, ResponseParts

\* A text that makes no success indicates none.
LEMMA FineIsNone ==
  ASSUME NEW s, Fine(s)
  PROVE  ~responseIndicatesSuccess(s)
<1>1. s \in Seq(Octet) /\ Len(s) \in Nat
  BY LenProperties DEF Fine
<1>2. ASSUME NEW i \in 1 .. Len(s) - 2, SubSeq(s, i, i + 2) = <<10, 1, 0>>
      PROVE  FALSE
  <2>1. i \in 1 .. Len(s) /\ i + 2 \in 1 .. Len(s) /\ i + 2 - i + 1 = 3 /\ i \in Nat
    BY <1>1
  <2>2. \A k \in 1 .. 3 : SubSeq(s, i, i + 2)[k] = s[i + k - 1]
    <3> DEFINE h == i + 2
               t == SubSeq(s, i, h)
    <3>1. i \in 1 .. Len(s) + 1 /\ h \in i - 1 .. Len(s) /\ h - i + 1 = 3
      BY <1>1, <2>1
    <3> HIDE DEF h
    <3>2. \A k \in 1 .. h - i + 1 : t[k] = s[i + k - 1]
      BY <1>1, <3>1, SubSeqProperties
    <3> HIDE DEF t
    <3>3. \A k \in 1 .. 3 : t[k] = s[i + k - 1]
      BY <3>1, <3>2
    <3> QED BY <3>3 DEF t, h
  <2>3. s[i + 1 - 1] = 10 /\ s[i + 2 - 1] = 1 /\ s[i + 3 - 1] = 0
    <3> DEFINE t == SubSeq(s, i, i + 2)
    <3>0. t = <<10, 1, 0>>
      BY <1>2
    <3> HIDE DEF t
    <3>1. t[1] = 10 /\ t[2] = 1 /\ t[3] = 0
      BY ONLY <3>0
    <3>2. \A k \in 1 .. 3 : t[k] = s[i + k - 1]
      BY <2>2 DEF t
    <3> QED BY <3>1, <3>2
  <2>4. i + 1 - 1 = i /\ i + 2 - 1 = i + 1 /\ i + 3 - 1 = i + 2
    BY <2>1
  <2>5. s[i] = 10 /\ s[i + 1] = 1 /\ s[i + 2] = 0
    BY <2>3, <2>4
  <2> DEFINE j == i + 2
  <2>6. j \in 1 .. Len(s) /\ s[j] = 0 /\ j - 1 = i + 1 /\ j - 2 = i
    BY <2>1, <2>5
  <2> HIDE DEF j
  <2>7. s[j - 1] = 1 => s[j - 2] # 10
    BY <2>6 DEF Fine
  <2> QED BY <2>5, <2>6, <2>7
<1> QED BY <1>2 DEF responseIndicatesSuccess

\* A success is seen in the answers that say so, and in no other.
LEMMA SuccessIsSeen ==
  ASSUME NEW n \in Forms, NEW m \in Response, Valid(m), NEW a, a = ResponseBytes(n, m)
  PROVE  responseIndicatesSuccess(a) <=> m.ok
<1> DEFINE end == Len(a) + 1
           msg == Into(a, 48)[Packet(a)]
           id == Into(a, 2)[msg]
           op == Element(a, id.to, msg.to, OpTag(m))
<1>0. m.ok \in BOOLEAN
  BY DEF Response
<1>1. a \in Seq(Octet)
  BY ResponseMade, MadeIs
<1>2. Stands(a, 1, a) /\ Packet(a) \in Span /\ Packet(a).is = "ok" /\ Len(a) \in Nat
  BY <1>1, WholeFilling
<1>3. msg = Element(a, 1, end, 48)
  BY <1>2 DEF Into, Packet
<1>4. end \in Nat /\ 1 + Len(a) <= end
  BY <1>2
<1> HIDE DEF msg, end
<1>5. Filling(a, id.to, msg.to, OpBytes(n, m))
  <2> HIDE DEF id
  <2>1. id = Into(a, 2)[msg]
    BY DEF id
  <2> QED BY <1>0, <1>1, <1>2, <1>3, <1>4, <2>1, MessageRead
<1>6. Found(op, a, id.to, msg.to, OpBytes(n, m), OpBody(n, m))
  <2> HIDE DEF id
  <2>1. Made(OpBytes(n, m), OpTag(m), OpBody(n, m))
    BY <1>0, ResponseMade
  <2> QED BY <1>1, <1>5, <2>1, OnlyPart
<1> HIDE DEF op
<1>7. ASSUME m.ok
      PROVE  responseIndicatesSuccess(a)
  <2> DEFINE b == Standard(n, 4, <<>>)
             d == Standard(n, 4, Octets(9))
             p == op.from
             s == Outcome(m)
             c == s \o b
  <2>1. OpBody(n, m) = (s \o b) \o d
    BY <1>7 DEF Valid, OpBody, ResultBody
  <2>2. s \in Seq(Octet) /\ b \in Seq(Octet) /\ d \in Seq(Octet)
    BY ResultText, MadeIs DEF IsText
  <2>3. s = <<10, 1, 0>>
    BY <1>7 DEF Outcome
  <2>4. Stands(a, p, OpBody(n, m))
    BY <1>6 DEF Found
  <2> HIDE DEF b, d, p, s
  <2>5. Stands(a, p, c \o d)
    BY <2>1, <2>4
  <2>6. Stands(a, p, s)
    <3>1. c \in Seq(Octet)
      BY <2>2, ConcatProperties
    <3>2. Stands(a, p, c)
      <4> HIDE DEF c
      <4> QED BY <1>1, <2>2, <2>5, <3>1, StandsParts
    <3> QED BY <1>1, <2>2, <3>2, StandsParts
  <2>7. Len(s) = 3
    BY <2>3
  <2>8. SubSeq(a, p, p + Len(s) - 1) = s
    BY <1>1, <2>6, StandsIs
  <2>9. p \in 1 .. Len(a) - 2 /\ p + Len(s) - 1 = p + 2
    BY <1>2, <2>6, <2>7 DEF Stands
  <2> QED BY <2>3, <2>8, <2>9 DEF responseIndicatesSuccess
<1>8. ASSUME ~m.ok
      PROVE  ~responseIndicatesSuccess(a)
  <2>1. Fine(a)
    BY <1>0, <1>8, FineResponse
  <2> QED BY <2>1, FineIsNone
<1> QED BY <1>0, <1>7, <1>8

\* What FlattenSeq has joined after each of the first N sequences.
Joining(f, ss, N) ==
  f = [i \in 1 .. N |-> IF i = 1 THEN ss[i] ELSE f[i - 1] \o ss[i]]

\* There is such a function for any sequences.
LEMMA JoiningExists ==
  ASSUME NEW ss, NEW N \in Nat
  PROVE  \E f : Joining(f, ss, N)
<1> DEFINE P == {M \in Nat : \E f : Joining(f, ss, M)}
<1>1. 0 \in P
  <2>1. Joining([i \in 1 .. 0 |-> <<>>], ss, 0)
    BY DEF Joining
  <2> QED BY <2>1
<1>2. ASSUME NEW M \in 0 .. N - 1, M \in P
      PROVE  M + 1 \in P
  <2>1. M \in Nat /\ M + 1 \in Nat /\ (M + 1) - 1 = M
    OBVIOUS
  <2>2. PICK f : Joining(f, ss, M)
    BY <1>2
  <2> DEFINE last == IF M = 0 THEN ss[M + 1] ELSE f[M] \o ss[M + 1]
             g    == [i \in 1 .. M + 1 |-> IF i = M + 1 THEN last ELSE f[i]]
  <2>3. \A i \in 1 .. M : f[i] = IF i = 1 THEN ss[i] ELSE f[i - 1] \o ss[i]
    BY <2>2 DEF Joining
  <2>4. ASSUME NEW i \in 1 .. M + 1
        PROVE  g[i] = IF i = 1 THEN ss[i] ELSE g[i - 1] \o ss[i]
    <3>1. i # 1 => g[i - 1] = f[i - 1]
      BY <2>1
    <3>2. CASE i = M + 1
      BY <2>1, <3>1, <3>2
    <3>3. CASE i # M + 1
      <4>1. i \in 1 .. M /\ g[i] = f[i]
        BY <2>1, <3>3
      <4> QED BY <2>3, <3>1, <4>1
    <3> QED BY <3>2, <3>3
  <2>5. g = [i \in 1 .. M + 1 |-> g[i]]
    OBVIOUS
  <2> HIDE DEF g
  <2>6. Joining(g, ss, M + 1)
    BY <2>4, <2>5 DEF Joining
  <2> QED BY <2>1, <2>6
<1> HIDE DEF P
<1>3. \A M \in 0 .. N : M \in P
  BY <1>1, <1>2, Induct
<1> QED BY <1>3 DEF P

\* f holds what the first sequences come to, from none of them to all N.
Joins(f, ss, N, S) ==
  /\ N \in Nat /\ f \in [0 .. N -> Seq(S)] /\ f[0] = <<>>
  /\ \A i \in 1 .. N : ss[i] \in Seq(S) /\ f[i] = f[i - 1] \o ss[i]

\* Such an f ends in what FlattenSeq returns.
LEMMA Flattened ==
  ASSUME NEW S, NEW N \in Nat, NEW ss \in [1 .. N -> Seq(S)]
  PROVE  \E f : Joins(f, ss, N, S) /\ FlattenSeq(ss) = f[N]
<1>1. ss \in Seq(Seq(S)) /\ Len(ss) = N /\ \A i \in 1 .. N : ss[i] \in Seq(S)
  BY SeqDef, LenProperties
<1>2. CASE N = 0
  <2> DEFINE f == [i \in 0 .. 0 |-> <<>>]
  <2>1. ss = <<>>
    BY <1>1, <1>2, EmptySeq
  <2>2. FlattenSeq(ss) = ss
    BY <1>1, <1>2 DEF FlattenSeq
  <2>3. <<>> \in Seq(S)
    OBVIOUS
  <2>4. Joins(f, ss, 0, S) /\ f[0] = <<>>
    BY <2>3 DEF Joins
  <2> QED BY <1>2, <2>1, <2>2, <2>4
<1>3. CASE N # 0
  <2> DEFINE g == CHOOSE g : Joining(g, ss, N)
             f == [i \in 0 .. N |-> IF i = 0 THEN <<>> ELSE g[i]]
  <2>1. Joining(g, ss, N)
    BY JoiningExists
  <2>2. FlattenSeq(ss) = g[N]
    BY <1>1, <1>3 DEF FlattenSeq, Joining
  <2> HIDE DEF g
  <2>3. \A i \in 1 .. N : g[i] = IF i = 1 THEN ss[i] ELSE g[i - 1] \o ss[i]
    BY <2>1 DEF Joining
  <2>4. f[0] = <<>> /\ f[N] = g[N] /\ \A i \in 1 .. N : f[i] = g[i]
    BY <1>3
  <2>5. ASSUME NEW i \in 1 .. N
        PROVE  f[i] = f[i - 1] \o ss[i]
    <3>1. CASE i = 1
      <4>1. f[i] = ss[i] /\ f[i - 1] = <<>>
        BY <2>3, <2>4, <3>1
      <4>2. <<>> \o ss[i] = ss[i]
        BY <1>1, ConcatEmptySeq
      <4> HIDE DEF f
      <4> QED BY ONLY <4>1, <4>2
    <3>2. CASE i # 1
      <4>1. i - 1 \in 1 .. N
        BY <3>2
      <4>2. f[i - 1] = g[i - 1]
        BY <2>4, <4>1
      <4> HIDE DEF f
      <4> QED BY <2>3, <2>4, <3>2, <4>2
    <3> QED BY <3>1, <3>2
  <2>6. f = [i \in 0 .. N |-> f[i]]
    OBVIOUS
  <2> HIDE DEF f
  <2> DEFINE P == {i \in Nat : f[i] \in Seq(S)}
  <2>7. 0 \in P
    <3>1. <<>> \in Seq(S) /\ 0 \in Nat
      OBVIOUS
    <3> QED BY <2>4, <3>1
  <2>8. ASSUME NEW i \in 0 .. N - 1, i \in P
        PROVE  i + 1 \in P
    <3>1. i + 1 \in 1 .. N /\ (i + 1) - 1 = i
      OBVIOUS
    <3>2. f[i + 1] = f[i] \o ss[i + 1] /\ ss[i + 1] \in Seq(S) /\ f[i] \in Seq(S)
      BY <1>1, <2>5, <2>8, <3>1
    <3>3. f[i + 1] \in Seq(S)
      BY <3>2, ConcatProperties
    <3> QED BY <3>1, <3>3
  <2> HIDE DEF P
  <2>9. \A i \in 0 .. N : i \in P
    BY <2>7, <2>8, Induct
  <2>10. f \in [0 .. N -> Seq(S)]
    <3>1. \A i \in 0 .. N : f[i] \in Seq(S)
      BY <2>9 DEF P
    <3> QED BY <2>6, <3>1
  <2>11. Joins(f, ss, N, S)
    BY <1>1, <2>4, <2>5, <2>10 DEF Joins
  <2> QED BY <2>2, <2>4, <2>11
<1> QED BY <1>2, <1>3

\* A sequence of none, of one and of two.
LEMMA FlattenFew ==
  ASSUME NEW S
  PROVE  /\ FlattenSeq(<<>>) = <<>>
         /\ \A a \in Seq(S) : FlattenSeq(<<a>>) = a
         /\ \A a, b \in Seq(S) : FlattenSeq(<<a, b>>) = a \o b
<1>1. FlattenSeq(<<>>) = <<>>
  BY DEF FlattenSeq
<1>2. ASSUME NEW a \in Seq(S)
      PROVE  FlattenSeq(<<a>>) = a
  <2> DEFINE ss == <<a>>
  <2>1. ss \in [1 .. 1 -> Seq(S)] /\ ss[1] = a
    OBVIOUS
  <2> HIDE DEF ss
  <2>2. PICK f : Joins(f, ss, 1, S) /\ FlattenSeq(ss) = f[1]
    BY <2>1, Flattened
  <2>3. f[1] = f[0] \o ss[1] /\ f[0] = <<>>
    <3>1. 1 \in 1 .. 1 /\ 1 - 1 = 0
      OBVIOUS
    <3>2. f[0] = <<>> /\ \A i \in 1 .. 1 : f[i] = f[i - 1] \o ss[i]
      BY <2>2 DEF Joins
    <3>3. f[1] = f[1 - 1] \o ss[1]
      BY <3>1, <3>2
    <3> QED BY ONLY <3>1, <3>2, <3>3
  <2>4. <<>> \o a = a
    BY ConcatEmptySeq
  <2>5. FlattenSeq(ss) = a
    BY ONLY <2>1, <2>2, <2>3, <2>4
  <2> QED BY <2>5 DEF ss
<1>3. ASSUME NEW a \in Seq(S), NEW b \in Seq(S)
      PROVE  FlattenSeq(<<a, b>>) = a \o b
  <2> DEFINE ss == <<a, b>>
  <2>1. ss \in [1 .. 2 -> Seq(S)] /\ ss[1] = a /\ ss[2] = b
    OBVIOUS
  <2> HIDE DEF ss
  <2>2. PICK f : Joins(f, ss, 2, S) /\ FlattenSeq(ss) = f[2]
    BY <2>1, Flattened
  <2>3. f[1] = f[0] \o ss[1] /\ f[0] = <<>> /\ f[2] = f[1] \o ss[2]
    <3>1. 1 \in 1 .. 2 /\ 2 \in 1 .. 2 /\ 1 - 1 = 0 /\ 2 - 1 = 1
      OBVIOUS
    <3>2. f[0] = <<>> /\ \A i \in 1 .. 2 : f[i] = f[i - 1] \o ss[i]
      BY <2>2 DEF Joins
    <3>3. f[1] = f[1 - 1] \o ss[1] /\ f[2] = f[2 - 1] \o ss[2]
      BY <3>1, <3>2
    <3> QED BY ONLY <3>1, <3>2, <3>3
  <2>4. <<>> \o a = a
    BY ConcatEmptySeq
  <2>5. FlattenSeq(ss) = a \o b
    BY ONLY <2>1, <2>2, <2>3, <2>4
  <2> QED BY <2>5 DEF ss
<1> QED BY <1>1, <1>2, <1>3

\* What stands in a text stands in a longer one.
LEMMA StandsLonger ==
  ASSUME NEW a \in Seq(Octet), NEW b \in Seq(Octet), NEW pos, NEW s, Stands(a, pos, s)
  PROVE  Stands(a \o b, pos, s)
<1> DEFINE c == a \o b
<1>1. /\ Len(a) \in Nat /\ Len(b) \in Nat /\ Len(c) = Len(a) + Len(b)
      /\ \A i \in 1 .. Len(a) + Len(b) : c[i] = IF i <= Len(a) THEN a[i] ELSE b[i - Len(a)]
  BY ConcatProperties, LenProperties
<1>2. /\ pos \in Nat \ {0} /\ s \in Seq(Octet) /\ pos + Len(s) <= Len(a) + 1
      /\ \A i \in 1 .. Len(s) : a[pos + i - 1] = s[i]
  BY DEF Stands
<1>3. Len(s) \in Nat
  BY <1>2, LenProperties
<1> HIDE DEF c
<1>4. pos + Len(s) <= Len(c) + 1
  BY <1>1, <1>2, <1>3
<1>5. ASSUME NEW i \in 1 .. Len(s)
      PROVE  c[pos + i - 1] = s[i]
  <2>1. pos + i - 1 \in 1 .. Len(a) + Len(b) /\ pos + i - 1 <= Len(a)
    BY <1>1, <1>2, <1>3
  <2>2. c[pos + i - 1] = a[pos + i - 1]
    BY <1>1, <2>1
  <2> QED BY <1>2, <2>2
<1>6. Stands(c, pos, s)
  BY <1>2, <1>4, <1>5 DEF Stands
<1> QED BY <1>6 DEF c

\* The N texts ss stand one after the other in data, each at its place, and fill it.
Places(at, data, ss, N) ==
  /\ N \in Nat /\ data \in Seq(Octet) /\ at \in [1 .. N + 1 -> Nat]
  /\ at[1] = 1 /\ at[N + 1] = Len(data) + 1
  /\ \A i \in 1 .. N : Stands(data, at[i], ss[i]) /\ at[i + 1] = at[i] + Len(ss[i])

\* So do texts that are joined.
LEMMA Placed ==
  ASSUME NEW N \in Nat, NEW ss \in [1 .. N -> Seq(Octet)]
  PROVE  \E at : Places(at, FlattenSeq(ss), ss, N)
<1>1. PICK f : Joins(f, ss, N, Octet) /\ FlattenSeq(ss) = f[N]
  BY Flattened
<1>2. /\ f \in [0 .. N -> Seq(Octet)] /\ f[0] = <<>>
      /\ \A i \in 1 .. N : ss[i] \in Seq(Octet) /\ f[i] = f[i - 1] \o ss[i]
  BY <1>1 DEF Joins
<1> DEFINE at == [i \in 1 .. N + 1 |-> Len(f[i - 1]) + 1]
           P == {n \in Nat : \A i \in 1 .. n : Stands(f[n], at[i], ss[i])}
<1>3. \A i \in 0 .. N : Len(f[i]) \in Nat
  BY <1>2, LenProperties
<1>4. \A i \in 1 .. N + 1 : at[i] = Len(f[i - 1]) + 1
  OBVIOUS
<1>5. at \in [1 .. N + 1 -> Nat]
  <2>1. \A i \in 1 .. N + 1 : i - 1 \in 0 .. N
    OBVIOUS
  <2> QED BY <1>3, <2>1
<1>6. Len(f[0]) = 0
  BY <1>2
<1> HIDE DEF at
<1>7. 0 \in P
  OBVIOUS
<1>8. ASSUME NEW n \in 0 .. N - 1, n \in P
      PROVE  n + 1 \in P
  <2> DEFINE a == f[n]
             b == ss[n + 1]
             c == f[n + 1]
  <2>1. n + 1 \in 1 .. N /\ (n + 1) - 1 = n /\ n \in 0 .. N /\ n + 1 \in 1 .. N + 1
    OBVIOUS
  <2>2. a \in Seq(Octet) /\ b \in Seq(Octet) /\ c = a \o b
    BY <1>2, <2>1
  <2>3. at[n + 1] = Len(a) + 1
    BY <1>4, <2>1
  <2>4. \A i \in 1 .. n : Stands(a, at[i], ss[i])
    BY <1>8
  <2> HIDE DEF a, b, c
  <2>5. Stands(c, Len(a) + 1, b)
    BY <2>2, HeadStands
  <2>6. ASSUME NEW i \in 1 .. n + 1
        PROVE  Stands(c, at[i], ss[i])
    <3>1. CASE i \in 1 .. n
      <4>1. Stands(a, at[i], ss[i])
        BY <2>4, <3>1
      <4> QED BY <2>2, <4>1, StandsLonger
    <3>2. CASE i \notin 1 .. n
      <4>1. i = n + 1
        BY <2>1, <3>2
      <4> QED BY <2>3, <2>5, <4>1 DEF b
    <3> QED BY <3>1, <3>2
  <2> QED BY <2>1, <2>6 DEF c
<1>9. N \in P
  <2> HIDE DEF P
  <2>1. \A n \in 0 .. N : n \in P
    BY <1>7, <1>8, Induct
  <2> QED BY <2>1
<1>10. at[1] = 1 /\ at[N + 1] = Len(f[N]) + 1
  BY <1>4, <1>6
<1>11. ASSUME NEW i \in 1 .. N
       PROVE  at[i + 1] = at[i] + Len(ss[i])
  <2>1. i \in 1 .. N + 1 /\ i + 1 \in 1 .. N + 1 /\ (i + 1) - 1 = i /\ i - 1 \in 0 .. N /\ i \in 0 .. N
    OBVIOUS
  <2>2. at[i] = Len(f[i - 1]) + 1 /\ at[i + 1] = Len(f[i]) + 1
    BY <1>4, <2>1
  <2>3. f[i] = f[i - 1] \o ss[i] /\ f[i - 1] \in Seq(Octet) /\ ss[i] \in Seq(Octet)
    BY <1>2, <2>1
  <2>4. Len(f[i]) = Len(f[i - 1]) + Len(ss[i]) /\ Len(f[i - 1]) \in Nat /\ Len(ss[i]) \in Nat
    BY <2>3, ConcatProperties, LenProperties
  <2> QED BY <2>2, <2>4
<1>12. f[N] \in Seq(Octet)
  BY <1>2
<1>13. Places(at, f[N], ss, N)
  BY <1>5, <1>9, <1>10, <1>11, <1>12 DEF Places
<1> QED BY <1>1, <1>13

\* Texts that are joined are a text.
LEMMA JoinedText ==
  ASSUME NEW N \in Nat, NEW ss \in [1 .. N -> Seq(Octet)]
  PROVE  FlattenSeq(ss) \in Seq(Octet)
  BY Placed DEF Places

\* What is read of a length, whatever the bytes: positions do not go back.
LengthIs(l, pos) == l.ok \in BOOLEAN /\ l.len \in Nat /\ l.pos \in Nat /\ l.pos >= pos

\* A length, wherever it is read.
LEMMA LengthAnywhere ==
  ASSUME NEW data \in Seq(Octet), NEW pos \in Nat, pos >= 1
  PROVE  LengthIs(readBERLength(data, pos), pos)
<1> DEFINE n == data[pos] - 128
           bad == [ok |-> FALSE, len |-> 0, pos |-> pos]
           bytes == SubSeq(data, pos + 1, pos + n)
           l == readBERLength(data, pos)
<1>1. LengthIs(bad, pos)
  BY DEF LengthIs
<1>2. CASE pos > Len(data)
  BY <1>1, <1>2 DEF readBERLength
<1>3. CASE ~(pos > Len(data))
  <2>1. data[pos] \in Nat /\ Len(data) \in Nat
    <3>1. pos \in 1 .. Len(data) /\ Len(data) \in Nat
      BY <1>3, LenProperties
    <3> QED BY <3>1, ElementOfSeq, OctetIs
  <2>2. CASE data[pos] < 128
    <3>1. l = [ok |-> TRUE, len |-> data[pos], pos |-> pos + 1]
      BY <1>3, <2>2 DEF readBERLength
    <3> HIDE DEF l
    <3> QED BY <2>1, <3>1 DEF LengthIs, l
  <2>3. CASE ~(data[pos] < 128) /\ (n = 0 \/ n > 8 \/ pos + n > Len(data))
    <3>1. l = bad
      BY <1>3, <2>3 DEF readBERLength
    <3> QED BY <1>1, <3>1
  <2>4. CASE ~(data[pos] < 128) /\ ~(n = 0 \/ n > 8 \/ pos + n > Len(data))
    <3>1. l = [ok |-> TRUE, len |-> Unsigned(bytes), pos |-> pos + 1 + n]
      BY <1>3, <2>4 DEF readBERLength
    <3>2. n \in Nat /\ n >= 1 /\ pos + n <= Len(data)
      BY <2>1, <2>4
    <3> HIDE DEF n, l
    <3>3. bytes \in Seq(Octet)
      <4>1. \A i \in (pos + 1) .. (pos + n) : i \in 1 .. Len(data)
        BY <2>1, <3>2
      <4> QED BY <4>1, <3>2, SubSeqProperties
    <3>4. Unsigned(bytes) \in Nat
      <4> HIDE DEF bytes
      <4>1. Len(bytes) \in Nat
        BY <3>3, LenProperties
      <4> QED BY <3>3, <4>1, UnsignedIs
    <3> HIDE DEF bytes
    <3> QED BY <3>1, <3>2, <3>4 DEF LengthIs, l
  <2> QED BY <2>2, <2>3, <2>4
<1> QED BY <1>2, <1>3

\* An element, wherever it is read: there is none, or it is ahead.
Ahead(e, pos, end) ==
  e \in Span /\ e.is \in {"ok", "bad"} /\ pos < end /\ (e.is = "ok" => e.to \in Nat /\ e.to > pos)

\* An element is there or not, and one that is there is ahead.
LEMMA ElementAnywhere ==
  ASSUME NEW data \in Seq(Octet), NEW pos \in Nat, NEW end \in Nat, NEW tag,
         NEW e, e = Element(data, pos, end, tag)
  PROVE  e \in Span /\ (NotThere(e, pos, end) \/ Ahead(e, pos, end))
<1>1. CASE pos >= end \/ data[pos] # tag
  <2>1. e = [is |-> "other", from |-> pos, to |-> pos, end |-> end]
    BY <1>1 DEF Element
  <2> QED BY <2>1 DEF NotThere, Span
<1>2. CASE ~(pos >= end \/ data[pos] # tag)
  <2> DEFINE l == readBERLength(data, pos + 1)
             is == IF l.ok /\ l.pos + l.len <= end THEN "ok" ELSE "bad"
             to == l.pos + l.len
  <2>1. e = [is |-> is, from |-> l.pos, to |-> to, end |-> end]
    BY <1>2 DEF Element
  <2>2. LengthIs(l, pos + 1)
    <3>1. pos + 1 \in Nat /\ pos + 1 >= 1
      OBVIOUS
    <3> QED BY <3>1, LengthAnywhere
  <2> HIDE DEF l
  <2>3. l.pos \in Nat /\ to \in Nat /\ to > pos
    BY <2>2 DEF LengthIs
  <2>4. is \in {"ok", "bad"} /\ pos < end
    BY <1>2
  <2> HIDE DEF is, to
  <2>5. e \in Span
    BY <2>1, <2>3, <2>4 DEF Span
  <2> QED BY <2>1, <2>3, <2>4, <2>5 DEF Ahead
<1> QED BY <1>1, <1>2

\* Where to go on from a position below end, and what to put before what is found there.
IsChain(C, J, H, end, S) ==
  /\ end \in Nat /\ C \subseteq Nat /\ H \in [Nat -> Seq(S)]
  /\ \A pos \in C : pos < end /\ J[pos] \in Nat /\ J[pos] > pos

Follows(f, C, J, H) ==
  f = [pos \in Nat |-> IF pos \in C THEN H[pos] \o f[J[pos]] ELSE H[pos]]

\* A function that goes on ahead, and nowhere from end on, is defined.
LEMMA ChainExists ==
  ASSUME NEW S, NEW end, NEW C, NEW J, NEW H, IsChain(C, J, H, end, S)
  PROVE  \E f \in [Nat -> Seq(S)] : Follows(f, C, J, H)
<1>0. /\ end \in Nat /\ C \subseteq Nat /\ H \in [Nat -> Seq(S)]
      /\ \A pos \in C : pos < end /\ J[pos] \in Nat /\ J[pos] > pos
  BY DEF IsChain
<1> DEFINE From(k) == {pos \in C : pos + k >= end}
           P == {k \in Nat : \E f \in [Nat -> Seq(S)] : Follows(f, From(k), J, H)}
<1>1. 0 \in P
  <2>1. From(0) = {}
    <3>1. \A pos \in C : ~(pos + 0 >= end)
      BY <1>0
    <3> QED BY <3>1
  <2>2. H = [pos \in Nat |-> H[pos]]
    BY <1>0
  <2> HIDE DEF From
  <2>3. Follows(H, From(0), J, H)
    BY <2>1, <2>2 DEF Follows
  <2> QED BY <1>0, <2>3
<1>2. ASSUME NEW k \in 0 .. end - 1, k \in P
      PROVE  k + 1 \in P
  <2>1. PICK f \in [Nat -> Seq(S)] : Follows(f, From(k), J, H)
    BY <1>2
  <2> DEFINE now == end - (k + 1)
             g == [pos \in Nat |-> IF pos \in From(k + 1) THEN H[pos] \o f[J[pos]] ELSE H[pos]]
  <2>2. now \in Nat /\ k \in Nat /\ k + 1 \in Nat /\ now + (k + 1) = end /\ end \in Nat
    BY <1>0
  <2> HIDE DEF now
  <2>3. \A pos \in Nat : f[pos] = IF pos \in From(k) THEN H[pos] \o f[J[pos]] ELSE H[pos]
    BY <2>1 DEF Follows
  <2>4. ASSUME NEW pos \in Nat, pos # now
        PROVE  pos \in From(k) <=> pos \in From(k + 1)
    <3>1. pos + k >= end <=> pos + (k + 1) >= end
      BY ONLY <2>2, <2>4, pos \in Nat
    <3> QED BY <3>1
  <2>6. ASSUME NEW pos \in Nat
        PROVE  g[pos] = IF pos \in From(k + 1) THEN H[pos] \o f[J[pos]] ELSE H[pos]
    OBVIOUS
  <2>7. \A pos \in From(k + 1) : J[pos] \in Nat /\ J[pos] # now
    <3>1. ASSUME NEW pos \in C, pos + (k + 1) >= end
          PROVE  J[pos] \in Nat /\ J[pos] # now
      <4>1. pos \in Nat /\ J[pos] \in Nat /\ J[pos] > pos
        BY <1>0
      <4>2. pos + (k + 1) >= end
        BY <3>1
      <4> QED BY ONLY <2>2, <4>1, <4>2
    <3> QED BY <3>1
  <2>8. g \in [Nat -> Seq(S)]
    <3>1. ASSUME NEW pos \in Nat
          PROVE  g[pos] \in Seq(S)
      <4>1. CASE pos \in From(k + 1)
        <5>1. H[pos] \in Seq(S) /\ f[J[pos]] \in Seq(S)
          BY <1>0, <2>1, <2>7, <4>1
        <5>2. H[pos] \o f[J[pos]] \in Seq(S)
          BY <5>1, ConcatProperties
        <5> QED BY <2>6, <4>1, <5>2
      <4>2. CASE pos \notin From(k + 1)
        BY <1>0, <2>6, <4>2
      <4> QED BY <4>1, <4>2
    <3> QED BY <3>1
  <2> HIDE DEF From, g
  <2>9. ASSUME NEW pos \in Nat, pos # now
        PROVE  g[pos] = f[pos]
    BY <2>3, <2>4, <2>6, <2>9
  <2>10. ASSUME NEW pos \in Nat
         PROVE  g[pos] = IF pos \in From(k + 1) THEN H[pos] \o g[J[pos]] ELSE H[pos]
    BY <2>6, <2>7, <2>9
  <2>11. g = [pos \in Nat |-> g[pos]]
    BY <2>8
  <2>12. Follows(g, From(k + 1), J, H)
    BY <2>10, <2>11 DEF Follows
  <2> QED BY <2>2, <2>8, <2>12
<1>3. end \in P
  <2> HIDE DEF P
  <2>1. \A k \in 0 .. end : k \in P
    BY <1>0, <1>1, <1>2, Induct
  <2> QED BY <1>0, <2>1
<1>4. From(end) = C
  <2>1. \A pos \in C : pos + end >= end
    BY <1>0
  <2> QED BY <2>1
<1> HIDE DEF From
<1> QED BY <1>3, <1>4

\* The elements from each position on, as Elements has them.
IsWalk(f, data, end, tag) ==
  f = [pos \in Nat |-> LET next == Element(data, pos, end, tag)
                       IN  IF next.is = "other" THEN <<>>
                           ELSE <<next>> \o IF next.is = "ok" THEN f[next.to] ELSE <<>>]

\* Elements walks from where the first one begins.
LEMMA ElementsAre ==
  ASSUME NEW data, NEW tag, NEW e \in Span, e.is = "ok"
  PROVE  Elements(data, tag)[e] = (CHOOSE f : IsWalk(f, data, e.to, tag))[e.from]
  BY DEF Elements, IsWalk

\* They are defined, and one is followed by those from its end on.
Walks(f, data, end, tag) ==
  \A pos \in Nat :
    /\ Element(data, pos, end, tag).is = "other" => f[pos] = <<>>
    /\ Element(data, pos, end, tag).is = "ok" =>
         f[pos] = <<Element(data, pos, end, tag)>> \o f[Element(data, pos, end, tag).to]

\* There is such a walk: every step goes ahead, up to the end.
LEMMA WalkExists ==
  ASSUME NEW data \in Seq(Octet), NEW end \in Nat, NEW tag
  PROVE  \E f : IsWalk(f, data, end, tag)
<1> DEFINE E(pos) == Element(data, pos, end, tag)
           C == {pos \in Nat : E(pos).is = "ok"}
           J == [pos \in Nat |-> E(pos).to]
           H == [pos \in Nat |-> IF E(pos).is = "other" THEN <<>> ELSE <<E(pos)>>]
<1>1. \A pos \in Nat : E(pos) \in Span /\ (NotThere(E(pos), pos, end) \/ Ahead(E(pos), pos, end))
  BY ElementAnywhere
<1> HIDE DEF E
<1>2. \A pos \in C : pos < end /\ J[pos] \in Nat /\ J[pos] > pos
  BY <1>1 DEF NotThere, Ahead
<1>3. H \in [Nat -> Seq(Span)]
  BY <1>1
<1>4. IsChain(C, J, H, end, Span)
  BY <1>2, <1>3 DEF IsChain
<1>5. \A pos \in Nat : pos \in C <=> E(pos).is = "ok"
  OBVIOUS
<1>6. \A pos \in Nat : J[pos] = E(pos).to /\ H[pos] = IF E(pos).is = "other" THEN <<>> ELSE <<E(pos)>>
  OBVIOUS
<1> HIDE DEF C, J, H
<1>7. PICK f \in [Nat -> Seq(Span)] : Follows(f, C, J, H)
  BY <1>4, ChainExists
<1>8. ASSUME NEW pos \in Nat
      PROVE  f[pos] = IF E(pos).is = "other" THEN <<>>
                      ELSE <<E(pos)>> \o IF E(pos).is = "ok" THEN f[E(pos).to] ELSE <<>>
  <2>1. f[pos] = IF pos \in C THEN H[pos] \o f[J[pos]] ELSE H[pos]
    BY <1>7 DEF Follows
  <2> DEFINE e == E(pos)
             s == <<e>>
  <2>2. s \in Seq(Span)
    BY <1>1
  <2>3. s \o <<>> = s
    <3> HIDE DEF s
    <3> QED BY <2>2, ConcatEmptySeq
  <2> QED BY <1>5, <1>6, <2>1, <2>3
<1>9. f = [pos \in Nat |-> f[pos]]
  OBVIOUS
<1>10. IsWalk(f, data, end, tag)
  BY <1>8, <1>9 DEF IsWalk, E
<1> QED BY <1>10

\* What Elements returns is such a walk.
LEMMA ElementsWalk ==
  ASSUME NEW data \in Seq(Octet), NEW tag, NEW e \in Span, e.is = "ok"
  PROVE  \E f : Walks(f, data, e.to, tag) /\ Elements(data, tag)[e] = f[e.from]
<1> DEFINE f == CHOOSE f : IsWalk(f, data, e.to, tag)
<1>1. e.to \in Nat
  BY DEF Span
<1>2. IsWalk(f, data, e.to, tag)
  BY <1>1, WalkExists
<1>3. Elements(data, tag)[e] = f[e.from]
  BY ElementsAre
<1> HIDE DEF f
<1>4. Walks(f, data, e.to, tag)
  <2> DEFINE E(pos) == Element(data, pos, e.to, tag)
  <2>1. f = [pos \in Nat |-> IF E(pos).is = "other" THEN <<>>
                             ELSE <<E(pos)>> \o IF E(pos).is = "ok" THEN f[E(pos).to] ELSE <<>>]
    BY <1>2 DEF IsWalk
  <2> HIDE DEF E
  <2>2. ASSUME NEW pos \in Nat
        PROVE  f[pos] = IF E(pos).is = "other" THEN <<>>
                        ELSE <<E(pos)>> \o IF E(pos).is = "ok" THEN f[E(pos).to] ELSE <<>>
    BY <2>1
  <2>3. ASSUME NEW pos \in Nat
        PROVE  /\ E(pos).is = "other" => f[pos] = <<>>
               /\ E(pos).is = "ok" => f[pos] = <<E(pos)>> \o f[E(pos).to]
    BY <2>2
  <2> QED BY <2>3 DEF Walks, E
<1> QED BY <1>3, <1>4

\* Nothing more is found where the space ends.
LEMMA WalkEnds ==
  ASSUME NEW f, NEW data \in Seq(Octet), NEW end \in Nat, NEW tag, Walks(f, data, end, tag)
  PROVE  f[end] = <<>>
<1> DEFINE e == Element(data, end, end, tag)
<1>1. e.is = "other"
  BY NothingAtEnd DEF NotThere
<1> HIDE DEF e
<1> QED BY <1>1 DEF Walks, e

\* One that is there is the first, and then come those from its end on.
LEMMA WalkOn ==
  ASSUME NEW data, NEW end, NEW tag, NEW f, Walks(f, data, end, tag), NEW pos \in Nat,
         NEW e, e = Element(data, pos, end, tag), e.is = "ok"
  PROVE  f[pos] = <<e>> \o f[e.to]
  BY DEF Walks

\* Of one element that fills the space, that is all.
LEMMA WalkOne ==
  ASSUME NEW data \in Seq(Octet), NEW end \in Nat, NEW tag, NEW f, Walks(f, data, end, tag),
         NEW pos, NEW a, NEW content, Made(a, tag, content), Filling(data, pos, end, a),
         NEW e, e = Element(data, pos, end, tag)
  PROVE  Found(e, data, pos, end, a, content) /\ f[pos] = <<e>>
<1>1. Found(e, data, pos, end, a, content) /\ e.to = end
  BY OnlyPart
<1>2. e.is = "ok" /\ pos \in Nat /\ e \in Span
  BY <1>1 DEF Found, Filling, Stands
<1>3. f[pos] = <<e>> \o f[end]
  BY <1>1, <1>2 DEF Walks
<1>4. f[end] = <<>>
  BY WalkEnds
<1>5. <<e>> \o <<>> = <<e>>
  BY <1>2
<1> QED BY ONLY <1>1, <1>3, <1>4, <1>5

\* What an attribute with one value is read as.
ReadAs(type, value) == [is |-> "ok", type |-> type, values |-> <<value>>]

\* An attribute in the data is read as its type and its value.
LEMMA AttributeRead ==
  ASSUME NEW n \in Forms, NEW type, IsText(type, 11), NEW value, IsText(value, 20000),
         NEW data \in Seq(Octet), NEW pos, NEW end, NEW e,
         Found(e, data, pos, end, Filled(n, type, value), Pair(n, type, value))
  PROVE  ReadAttribute(data, e) = ReadAs(type, value)
<1> DEFINE t == Into(data, 4)[e]
           v == Past(data, 49)[t]
           w == Element(data, v.from, v.to, 4)
           c == ValueSet(n, value)
           values == Elements(data, 4)[v]
<1>1. /\ Made(Value(n, value), 4, value) /\ Made(c, 49, Value(n, value))
      /\ Made(Kind(n, type), 4, type)
  BY AttributeMade
<1>2. c \in Seq(Octet)
  <2> HIDE DEF c
  <2> QED BY <1>1, MadeIs
<1>3. Filling(data, e.from, e.to, Kind(n, type) \o c) /\ e.to \in Nat
  <2>1. Filling(data, e.from, e.to, Pair(n, type, value))
    BY FoundFilling
  <2>2. e.to \in Nat
    BY <2>1 DEF Filling
  <2> QED BY <2>1, <2>2 DEF Pair
<1>4. t = Element(data, e.from, e.to, 4)
  BY Steps
<1> HIDE DEF t, c
<1>5. Found(t, data, e.from, e.to, Kind(n, type), type) /\ Filling(data, t.to, e.to, c)
  BY <1>1, <1>2, <1>3, <1>4, FirstPart
<1>6. v = Element(data, t.to, e.to, 49)
  <2>1. v = Element(data, t.to, t.end, 49)
    BY <1>5, Steps
  <2>2. t.end = e.to
    BY <1>5 DEF Found
  <2> QED BY <2>1, <2>2
<1> HIDE DEF v
<1>7. Found(v, data, t.to, e.to, c, Value(n, value))
  BY <1>1, <1>5, <1>6, OnlyPart
<1>8. Filling(data, v.from, v.to, Value(n, value)) /\ v \in Span /\ v.is = "ok" /\ v.to \in Nat
  BY <1>7, FoundFilling DEF Filling
<1>9. PICK f : Walks(f, data, v.to, 4) /\ values = f[v.from]
  BY <1>8, ElementsWalk
<1> HIDE DEF values
<1>10. Found(w, data, v.from, v.to, Value(n, value), value) /\ f[v.from] = <<w>>
  BY <1>1, <1>8, <1>9, WalkOne
<1> HIDE DEF w
<1>11. Content(data, w) = value /\ Content(data, t) = type
  BY <1>5, <1>10, FoundContent
<1>12. w.is = "ok"
  BY <1>10 DEF Found
<1>13. values = <<w>>
  BY <1>9, <1>10
<1>14. NoneBad(values) /\ [i \in DOMAIN values |-> Content(data, values[i])] = <<value>>
  BY <1>11, <1>12, <1>13 DEF NoneBad
<1>15. ReadAttribute(data, e) =
         [is     |-> IF NoneBad(values) THEN "ok" ELSE "bad",
          type   |-> Content(data, t),
          values |-> [i \in DOMAIN values |-> Content(data, values[i])]]
  BY DEF ReadAttribute, values, v, t
<1> QED BY <1>11, <1>14, <1>15 DEF ReadAs

\* What the attributes of an entry are read as: the speed comes before the name.
AttributesAs(speed, name) ==
  (IF speed = <<>> THEN <<>> ELSE <<ReadAs(description, speed)>>) \o
    (IF name = <<>> THEN <<>> ELSE <<ReadAs(cn, name)>>)

\* The attributes of an entry are read one after the other.
LEMMA AttributesRead ==
  ASSUME NEW n \in Forms, NEW speed, IsText(speed, 20000), NEW name, IsText(name, 20000),
         NEW data \in Seq(Octet), NEW end \in Nat, NEW pos,
         NEW f, Walks(f, data, end, 48),
         Filling(data, pos, end,
                 AttributeBytes(n, description, speed) \o AttributeBytes(n, cn, name))
  PROVE  ReadAttributes(data)[f[pos]] = AttributesAs(speed, name)
<1> DEFINE a == Filled(n, description, speed)
           b == Filled(n, cn, name)
           d == Element(data, pos, end, 48)
           e == Element(data, d.to, end, 48)
<1>0. IsText(description, 11) /\ IsText(cn, 11)
  BY FixedTexts DEF IsText
<1>1. Made(a, 48, Pair(n, description, speed)) /\ Made(b, 48, Pair(n, cn, name))
  BY <1>0, AttributeMade
<1>2. a \in Seq(Octet) /\ b \in Seq(Octet)
  BY <1>1, MadeIs
<1>3. /\ AttributeBytes(n, description, speed) = IF speed = <<>> THEN <<>> ELSE a
      /\ AttributeBytes(n, cn, name) = IF name = <<>> THEN <<>> ELSE b
  BY <1>0, AttributeText
<1>4. /\ <<>> \in Seq(Span) /\ ReadAttributes(data)[<<>>] = <<>>
      /\ \A x \in Span : ReadAttributes(data)[<<x>>] = <<ReadAttribute(data, x)>>
      /\ \A x, y \in Span :
           ReadAttributes(data)[<<x, y>>] = <<ReadAttribute(data, x), ReadAttribute(data, y)>>
  BY DEF ReadAttributes
<1>9. d = Element(data, pos, end, 48) /\ e = Element(data, d.to, end, 48)
  OBVIOUS
<1> DEFINE p == Pair(n, description, speed)
           q == Pair(n, cn, name)
           r == ReadAs(description, speed)
           s == ReadAs(cn, name)
<1>10. Made(a, 48, p) /\ Made(b, 48, q)
  BY <1>1
<1>11. ASSUME NEW x, NEW begin, Found(x, data, begin, end, a, p)
       PROVE  ReadAttribute(data, x) = r /\ x \in Span
  <2>1. x \in Span
    BY <1>11 DEF Found
  <2> QED BY <1>0, <1>11, <2>1, AttributeRead
<1>12. ASSUME NEW x, NEW begin, Found(x, data, begin, end, b, q)
       PROVE  ReadAttribute(data, x) = s /\ x \in Span
  <2>1. x \in Span
    BY <1>12 DEF Found
  <2> QED BY <1>0, <1>12, <2>1, AttributeRead
<1>13. AttributesAs(speed, name) =
         (IF speed = <<>> THEN <<>> ELSE <<r>>) \o (IF name = <<>> THEN <<>> ELSE <<s>>)
  BY DEF AttributesAs
<1>14. /\ <<>> \o <<>> = <<>> /\ <<r>> \o <<>> = <<r>> /\ <<>> \o <<s>> = <<s>>
       /\ <<r>> \o <<s>> = <<r, s>>
  <2> HIDE DEF r, s
  <2> DEFINE S == {r, s}
  <2>1. r \in S /\ s \in S
    OBVIOUS
  <2> HIDE DEF S
  <2>2. <<r>> \in Seq(S) /\ <<s>> \in Seq(S) /\ <<>> \in Seq(S)
    BY <2>1
  <2>3. <<r>> \o <<s>> = <<r, s>>
    BY <2>1, TwoJoined
  <2> QED BY <2>2, <2>3, ConcatEmptySeq
<1> HIDE DEF a, b, d, e, p, q, r, s
<1>5. CASE speed = <<>> /\ name = <<>>
  <2>1. Filling(data, pos, end, <<>>)
    BY <1>3, <1>5
  <2>2. pos = end
    BY <2>1 DEF Filling, Stands
  <2>3. f[pos] = <<>>
    BY <2>2, WalkEnds
  <2>4. AttributesAs(speed, name) = <<>>
    BY <1>5, <1>13, <1>14
  <2> QED BY ONLY <1>4, <2>3, <2>4
<1>6. CASE speed # <<>> /\ name = <<>>
  <2>1. Filling(data, pos, end, a)
    <3>1. a \o <<>> = a
      BY <1>2, ConcatEmptySeq
    <3> QED BY <1>3, <1>6, <3>1
  <2>2. Found(d, data, pos, end, a, p) /\ f[pos] = <<d>>
    BY <1>9, <1>10, <2>1, WalkOne
  <2>3. ReadAttribute(data, d) = r /\ d \in Span
    BY <1>11, <2>2
  <2>4. AttributesAs(speed, name) = <<r>>
    BY <1>6, <1>13, <1>14
  <2> QED BY ONLY <1>4, <2>2, <2>3, <2>4
<1>7. CASE speed = <<>> /\ name # <<>>
  <2>1. Filling(data, pos, end, b)
    <3>1. <<>> \o b = b
      BY <1>2, ConcatEmptySeq
    <3> QED BY <1>3, <1>7, <3>1
  <2>2. Found(d, data, pos, end, b, q) /\ f[pos] = <<d>>
    BY <1>9, <1>10, <2>1, WalkOne
  <2>3. ReadAttribute(data, d) = s /\ d \in Span
    BY <1>12, <2>2
  <2>4. AttributesAs(speed, name) = <<s>>
    BY <1>7, <1>13, <1>14
  <2> QED BY ONLY <1>4, <2>2, <2>3, <2>4
<1>8. CASE speed # <<>> /\ name # <<>>
  <2>1. Filling(data, pos, end, a \o b)
    BY <1>3, <1>8
  <2>2. /\ Found(d, data, pos, end, a, p) /\ Filling(data, d.to, end, b)
        /\ f[pos] = <<d>> \o f[d.to]
    <3>1. Found(d, data, pos, end, a, p) /\ Filling(data, d.to, end, b)
      BY <1>2, <1>9, <1>10, <2>1, FirstPart
    <3>2. d.is = "ok" /\ pos \in Nat
      BY <2>1, <3>1 DEF Found, Filling, Stands
    <3>3. f[pos] = <<d>> \o f[d.to]
      BY <1>9, <3>2, WalkOn
    <3> QED BY <3>1, <3>3
  <2>3. Found(e, data, d.to, end, b, q) /\ f[d.to] = <<e>>
    <3> DEFINE to == d.to
    <3>1. e = Element(data, to, end, 48) /\ Made(b, 48, q) /\ Filling(data, to, end, b)
      BY <1>9, <1>10, <2>2
    <3> HIDE DEF to, b, d, e, q
    <3>2. Found(e, data, to, end, b, q) /\ f[to] = <<e>>
      BY <3>1, WalkOne
    <3> QED BY <3>2 DEF to
  <2>4. ReadAttribute(data, d) = r /\ d \in Span
    BY <1>11, <2>2
  <2>5. ReadAttribute(data, e) = s /\ e \in Span
    BY <1>12, <2>3
  <2>6. f[pos] = <<d, e>>
    <3>1. <<d>> \o <<e>> = <<d, e>>
      BY <2>4, <2>5, TwoJoined
    <3> QED BY ONLY <2>2, <2>3, <3>1
  <2>7. AttributesAs(speed, name) = <<r, s>>
    <3>1. AttributesAs(speed, name) = <<r>> \o <<s>>
      BY <1>8, <1>13
    <3> QED BY <1>14, <3>1
  <2> QED BY ONLY <1>4, <2>4, <2>5, <2>6, <2>7
<1> QED BY <1>5, <1>6, <1>7, <1>8

\* The last value of a type, where no attribute, one, or two have one each.
OfType(type, value, wanted) == IF type = wanted THEN <<value>> ELSE <<>>

\* What LastValue finds in them.
LEMMA LastOfFew ==
  ASSUME NEW type, NEW k, NEW v \in Seq(Octet), NEW l, NEW w \in Seq(Octet)
  PROVE  /\ LastValue(<<>>, type) = <<>>
         /\ LastValue(<<ReadAs(k, v)>>, type) = OfType(k, v, type)
         /\ LastValue(<<ReadAs(k, v), ReadAs(l, w)>>, type) =
              IF l = type THEN <<w>> ELSE OfType(k, v, type)
<1> DEFINE S == Seq(Octet)
           a == ReadAs(k, v)
           b == ReadAs(l, w)
           x == OfType(k, v, type)
           y == OfType(l, w, type)
           Last1(s) == IF s = <<>> THEN <<>> ELSE <<Last(s)>>
           Values1(attrs) == [i \in DOMAIN attrs |->
                                IF attrs[i].type = type THEN attrs[i].values ELSE <<>>]
<1>1. \A attrs : LastValue(attrs, type) = Last1(FlattenSeq(Values1(attrs)))
  BY DEF LastValue
<1>2. Values1(<<>>) = <<>> /\ Values1(<<a>>) = <<x>> /\ Values1(<<a, b>>) = <<x, y>>
  BY DEF ReadAs, OfType
<1>3. x \in Seq(S) /\ y \in Seq(S)
  BY DEF OfType
<1> HIDE DEF a, b, x, y, Values1, S
<1>4. /\ FlattenSeq(<<>>) = <<>> /\ FlattenSeq(<<x>>) = x /\ FlattenSeq(<<x, y>>) = x \o y
  BY <1>3, FlattenFew
<1>5. Last1(<<>>) = <<>> /\ \A z : Last1(<<z>>) = <<z>>
  BY DEF Last
<1>6. Last1(x) = x
  BY <1>5 DEF OfType, x
<1>7. Last1(x \o y) = IF l = type THEN <<w>> ELSE x
  <2>1. CASE l # type
    <3>1. y = <<>>
      BY <2>1 DEF OfType, y
    <3>2. x \o <<>> = x
      BY <1>3, ConcatEmptySeq
    <3> QED BY <1>6, <2>1, <3>1, <3>2
  <2>2. CASE l = type
    <3>1. y = <<w>>
      BY <2>2 DEF OfType, y
    <3>2. CASE k = type
      <4>1. x = <<v>>
        BY <3>2 DEF OfType, x
      <4>2. <<v>> \o <<w>> = <<v, w>>
        BY TwoJoined
      <4>3. Last1(<<v, w>>) = <<w>>
        BY DEF Last
      <4>4. x \o y = <<v, w>>
        BY ONLY <3>1, <4>1, <4>2
      <4> QED BY <2>2, <4>3, <4>4
    <3>3. CASE k # type
      <4>1. x = <<>>
        BY <3>3 DEF OfType, x
      <4>2. <<>> \o y = y
        BY <1>3, ConcatEmptySeq
      <4> QED BY <1>5, <2>2, <3>1, <4>1, <4>2
    <3> QED BY <3>2, <3>3
  <2> QED BY <2>1, <2>2
<1> HIDE DEF Last1
<1> QED BY <1>1, <1>2, <1>4, <1>5, <1>6, <1>7 DEF a, b, x

\* The plane that an entry with this speed and this name adds.
PlaneAs(speed, name) ==
  [is     |-> "ok",
   planes |-> IF speed = <<>> /\ name = <<>> THEN <<>> ELSE <<[name |-> name, speed |-> speed]>>]

\* The plane is made of the last description and the last cn.
LEMMA PlaneRead ==
  ASSUME NEW speed \in Seq(Octet), NEW name \in Seq(Octet)
  PROVE  PlaneOf[AttributesAs(speed, name)] = PlaneAs(speed, name)
<1> DEFINE a == ReadAs(description, speed)
           b == ReadAs(cn, name)
           attrs == AttributesAs(speed, name)
           s == IF speed = <<>> THEN <<>> ELSE <<speed>>
           m == IF name = <<>> THEN <<>> ELSE <<name>>
<1>1. a \in Attributes /\ b \in Attributes
  <2>1. description \in Seq(Octet) /\ cn \in Seq(Octet)
    BY FixedTexts DEF IsText
  <2>2. Texts = Seq(Octet)
    BY DEF Texts, Octet
  <2> QED BY <2>1, <2>2 DEF ReadAs, Attributes
<1>2. a.is = "ok" /\ b.is = "ok"
  BY DEF ReadAs
<1>3. description # cn
  BY DEF description, cn
<1>4. attrs = (IF speed = <<>> THEN <<>> ELSE <<a>>) \o (IF name = <<>> THEN <<>> ELSE <<b>>)
  BY DEF AttributesAs
<1>5. /\ <<>> \o <<>> = <<>> /\ <<a>> \o <<>> = <<a>> /\ <<>> \o <<b>> = <<b>>
      /\ <<a>> \o <<b>> = <<a, b>>
  <2> HIDE DEF a, b
  <2>1. <<a>> \in Seq(Attributes) /\ <<b>> \in Seq(Attributes) /\ <<>> \in Seq(Attributes)
    BY <1>1
  <2> QED BY <1>1, <2>1, TwoJoined, ConcatEmptySeq
<1> HIDE DEF attrs
<1>6. /\ LastValue(<<>>, description) = <<>> /\ LastValue(<<>>, cn) = <<>>
      /\ LastValue(<<a>>, description) = <<speed>> /\ LastValue(<<a>>, cn) = <<>>
      /\ LastValue(<<b>>, description) = <<>> /\ LastValue(<<b>>, cn) = <<name>>
      /\ LastValue(<<a, b>>, description) = <<speed>> /\ LastValue(<<a, b>>, cn) = <<name>>
  <2>1. \A k, l : /\ k = l => OfType(k, speed, l) = <<speed>> /\ OfType(k, name, l) = <<name>>
                  /\ k # l => OfType(k, speed, l) = <<>> /\ OfType(k, name, l) = <<>>
    BY DEF OfType
  <2>2. LastValue(<<>>, description) = <<>> /\ LastValue(<<>>, cn) = <<>>
    BY LastOfFew
  <2>3. LastValue(<<a>>, description) = <<speed>> /\ LastValue(<<a>>, cn) = <<>>
    <3>1. /\ LastValue(<<a>>, description) = OfType(description, speed, description)
          /\ LastValue(<<a>>, cn) = OfType(description, speed, cn)
      BY LastOfFew
    <3> QED BY <1>3, <2>1, <3>1
  <2>4. LastValue(<<b>>, description) = <<>> /\ LastValue(<<b>>, cn) = <<name>>
    <3>1. /\ LastValue(<<b>>, description) = OfType(cn, name, description)
          /\ LastValue(<<b>>, cn) = OfType(cn, name, cn)
      BY LastOfFew
    <3> QED BY <1>3, <2>1, <3>1
  <2>5. LastValue(<<a, b>>, description) = <<speed>> /\ LastValue(<<a, b>>, cn) = <<name>>
    <3>1. LastValue(<<a, b>>, description) =
            IF cn = description THEN <<name>> ELSE OfType(description, speed, description)
      BY LastOfFew
    <3> DEFINE type == cn
    <3>2. LastValue(<<a, b>>, type) =
            IF cn = type THEN <<name>> ELSE OfType(description, speed, type)
      <4> HIDE DEF type
      <4> QED BY LastOfFew
    <3> QED BY <1>3, <2>1, <3>1, <3>2
  <2> QED BY <2>2, <2>3, <2>4, <2>5
<1> HIDE DEF a, b
<1>7. attrs \in Seq(Attributes) /\ NoneBad(attrs) /\ LastValue(attrs, description) = s /\ LastValue(attrs, cn) = m
  <2>1. CASE speed = <<>> /\ name = <<>>
    <3>1. attrs = <<>>
      BY <1>4, <1>5, <2>1
    <3> QED BY <1>6, <2>1, <3>1 DEF NoneBad
  <2>2. CASE speed # <<>> /\ name = <<>>
    <3>1. attrs = <<a>>
      BY <1>4, <1>5, <2>2
    <3> QED BY <1>1, <1>2, <1>6, <2>2, <3>1 DEF NoneBad
  <2>3. CASE speed = <<>> /\ name # <<>>
    <3>1. attrs = <<b>>
      BY <1>4, <1>5, <2>3
    <3> QED BY <1>1, <1>2, <1>6, <2>3, <3>1 DEF NoneBad
  <2>4. CASE speed # <<>> /\ name # <<>>
    <3>0. attrs = <<a>> \o <<b>>
      BY <1>4, <2>4
    <3>1. attrs = <<a, b>>
      BY <1>5, <3>0
    <3> QED BY <1>1, <1>2, <1>6, <2>4, <3>1 DEF NoneBad
  <2> QED BY <2>1, <2>2, <2>3, <2>4
<1>8. FlattenSeq(s) = speed /\ FlattenSeq(m) = name
  BY FlattenFew
<1>9. (m = <<>> /\ s = <<>>) <=> (speed = <<>> /\ name = <<>>)
  OBVIOUS
<1> HIDE DEF s, m
<1>10. PlaneOf[attrs] = [is |-> "ok", planes |-> IF m = <<>> /\ s = <<>> THEN <<>>
                                     ELSE <<[name |-> FlattenSeq(m), speed |-> FlattenSeq(s)]>>]
  BY <1>7 DEF PlaneOf
<1>11. PlaneOf[attrs] = PlaneAs(speed, name)
  BY <1>8, <1>9, <1>10 DEF PlaneAs
<1> QED BY <1>11 DEF attrs

\* A message that is no entry has no attributes.
LEMMA OtherRead ==
  ASSUME NEW data \in Seq(Octet), NEW msg, NEW id, id = Into(data, 2)[msg],
         NEW op, op = Past(data, 100)[id], op \in Span, op.is = "other"
  PROVE  ReadMessage(data, msg) = PlaneAs(<<>>, <<>>)
<1>1. Into(data, 4)[op] = op /\ Past(data, 48)[op] = op
  BY NoSteps
<1>2. Elements(data, 48)[op] = <<>>
  BY DEF Elements
<1>3. ReadAttributes(data)[<<>>] = <<>>
  <2>1. <<>> \in Seq(Span)
    OBVIOUS
  <2> QED BY <2>1 DEF ReadAttributes
<1> DEFINE e == <<>>
<1>4. AttributesAs(e, e) = e
  <2>1. <<>> \in Seq(Span)
    OBVIOUS
  <2>2. <<>> \o <<>> = <<>>
    BY <2>1, ConcatEmptySeq
  <2> QED BY <2>2 DEF AttributesAs
<1>5. e \in Seq(Octet)
  OBVIOUS
<1>6. PlaneOf[e] = PlaneAs(e, e)
  <2> HIDE DEF e
  <2> QED BY <1>4, <1>5, PlaneRead
<1>7. ReadMessage(data, msg) = PlaneOf[ReadAttributes(data)[Elements(data, 48)[
                                 Past(data, 48)[Into(data, 4)[op]]]]]
  BY DEF ReadMessage
<1>8. ReadMessage(data, msg) = PlaneOf[ReadAttributes(data)[Elements(data, 48)[op]]]
  BY <1>1, <1>7
<1>9. ReadMessage(data, msg) = PlaneOf[<<>>]
  BY ONLY <1>2, <1>3, <1>8
<1> QED BY <1>6, <1>9

\* An entry has the attributes that the server put in.
LEMMA EntryRead ==
  ASSUME NEW n \in Forms, NEW m \in Response, NEW data \in Seq(Octet), NEW msg,
         NEW id, id = Into(data, 2)[msg], NEW op, op = Past(data, 100)[id],
         NEW begin, NEW end, Found(op, data, begin, end, OpBytes(n, m), EntryBody(n, m))
  PROVE  ReadMessage(data, msg) = PlaneAs(Bytes(m.speed, m.id), Bytes(m.name, m.id))
<1> DEFINE name == Into(data, 4)[op]
           list == Past(data, 48)[name]
           a == Standard(n, 4, baseDN)
           b == Standard(n, 48, Attrs(n, m))
           u == Bytes(m.speed, m.id)
           v == Bytes(m.name, m.id)
           all == Elements(data, 48)[list]
<1>1. Made(a, 4, baseDN) /\ Made(b, 48, Attrs(n, m))
  BY EntryMade
<1>2. Filling(data, op.from, op.to, EntryBody(n, m))
  BY FoundFilling
<1>3. EntryBody(n, m) = a \o b
  BY DEF EntryBody
<1>4. name = Element(data, op.from, op.to, 4)
  BY Steps
<1>5. IsText(u, 20000) /\ IsText(v, 20000)
  BY AnswerTexts
<1>6. Attrs(n, m) = AttributeBytes(n, description, u) \o AttributeBytes(n, cn, v)
  BY DEF Attrs
<1> HIDE DEF a, b, u, v, name
<1>7. b \in Seq(Octet)
  BY <1>1, MadeIs
<1>8. Filling(data, op.from, op.to, a \o b)
  BY <1>2, <1>3
<1>9. Found(name, data, op.from, op.to, a, baseDN) /\ Filling(data, name.to, op.to, b)
  BY <1>1, <1>4, <1>7, <1>8, FirstPart
<1>10. list = Element(data, name.to, op.to, 48)
  <2>1. list = Element(data, name.to, name.end, 48)
    BY <1>9, Steps
  <2>2. name.end = op.to
    BY <1>9 DEF Found
  <2> QED BY <2>1, <2>2
<1> HIDE DEF list
<1>11. Found(list, data, name.to, op.to, b, Attrs(n, m))
  BY <1>1, <1>9, <1>10, OnlyPart
<1>12. Filling(data, list.from, list.to, Attrs(n, m)) /\ list \in Span /\ list.is = "ok" /\ list.to \in Nat
  BY <1>11, FoundFilling DEF Filling
<1>13. PICK f : Walks(f, data, list.to, 48) /\ all = f[list.from]
  BY <1>12, ElementsWalk
<1>14. ReadAttributes(data)[all] = AttributesAs(u, v)
  <2>1. Filling(data, list.from, list.to,
                AttributeBytes(n, description, u) \o AttributeBytes(n, cn, v))
    BY <1>6, <1>12
  <2> HIDE DEF all
  <2>2. ReadAttributes(data)[f[list.from]] = AttributesAs(u, v)
    BY <1>5, <1>12, <1>13, <2>1, AttributesRead
  <2> QED BY <1>13, <2>2
<1>15. ReadMessage(data, msg) = PlaneOf[ReadAttributes(data)[all]]
  BY DEF ReadMessage, all, list, name
<1>16. PlaneOf[AttributesAs(u, v)] = PlaneAs(u, v)
  BY <1>5, PlaneRead DEF IsText
<1> QED BY <1>14, <1>15, <1>16 DEF u, v

\* An answer that stands in the data is read as what the server put in.
AnswerAs(m) == PlaneAs(Bytes(m.speed, m.id), Bytes(m.name, m.id))

\* Reading the message gives that plane, or none.
LEMMA AnswerRead ==
  ASSUME NEW n \in Forms, NEW m \in Response, Valid(m), NEW data \in Seq(Octet), NEW pos,
         NEW end \in Nat, Stands(data, pos, ResponseBytes(n, m)),
         pos + Len(ResponseBytes(n, m)) <= end, NEW msg, msg = Element(data, pos, end, 48)
  PROVE  /\ Found(msg, data, pos, end, ResponseBytes(n, m), Body(n, m))
         /\ ReadMessage(data, msg) = AnswerAs(m)
<1> DEFINE id == Into(data, 2)[msg]
           op == Past(data, 100)[id]
           a == OpBytes(n, m)
           b == OpBody(n, m)
<1>1. /\ Found(msg, data, pos, end, ResponseBytes(n, m), Body(n, m))
      /\ Found(id, data, msg.from, msg.to, IdBytes(n, m), <<m.id>>)
      /\ Filling(data, id.to, msg.to, a)
  <2>1. id = Into(data, 2)[msg]
    OBVIOUS
  <2> HIDE DEF id
  <2> QED BY <2>1, MessageRead
<1> HIDE DEF id
<1>2. op = Element(data, id.to, msg.to, 100)
  <2>1. op = Element(data, id.to, id.end, 100)
    BY <1>1, Steps
  <2>2. id.end = msg.to
    BY <1>1 DEF Found
  <2> QED BY <2>1, <2>2
<1>3. Made(a, OpTag(m), b)
  BY ResponseMade
<1>4. id = Into(data, 2)[msg] /\ op = Past(data, 100)[id]
  BY DEF id
<1> HIDE DEF op, a, b
<1>5. CASE m.op = "entry"
  <2>1. OpTag(m) = 100 /\ b = EntryBody(n, m)
    BY <1>5 DEF OpTag, OpBody, b
  <2>2. Found(op, data, id.to, msg.to, a, b)
    BY <1>1, <1>2, <1>3, <2>1, OnlyPart
  <2>3. Found(op, data, id.to, msg.to, OpBytes(n, m), EntryBody(n, m))
    BY <2>1, <2>2 DEF a
  <2>4. ReadMessage(data, msg) = PlaneAs(Bytes(m.speed, m.id), Bytes(m.name, m.id))
    BY <1>4, <2>3, EntryRead
  <2> QED BY <1>1, <2>4 DEF AnswerAs
<1>6. CASE m.op # "entry"
  <2>1. OpTag(m) # 100
    BY <1>6, AnswerTags
  <2>2. Stands(data, id.to, a) /\ id.to \in Nat /\ msg.to \in Nat
    BY <1>1 DEF Filling, Stands
  <2>3. NotThere(op, id.to, msg.to)
    BY <1>2, <1>3, <2>1, <2>2, OtherTag
  <2>4. op \in Span /\ op.is = "other"
    BY <2>2, <2>3 DEF NotThere, Span
  <2>5. ReadMessage(data, msg) = PlaneAs(<<>>, <<>>)
    BY <1>4, <2>4, OtherRead
  <2>6. Bytes(m.speed, m.id) = <<>> /\ Bytes(m.name, m.id) = <<>>
    BY <1>6 DEF Valid, Bytes
  <2> QED BY <1>1, <2>5, <2>6 DEF AnswerAs
<1> QED BY <1>5, <1>6

\* The messages from each position on, as Messages has them.
IsScan(f, data) ==
  f = [pos \in Nat |-> LET msg == Element(data, pos, Len(data) + 1, 48)
                       IN  IF pos >= Len(data) + 1 THEN <<>>
                           ELSE IF msg.is = "other" THEN f[pos + 1]
                           ELSE <<msg>> \o IF msg.is = "ok" THEN f[msg.to] ELSE <<>>]

\* Messages scans from the first byte.
LEMMA MessagesAre ==
  ASSUME NEW data
  PROVE  Messages(data) = (CHOOSE f : IsScan(f, data))[1]
  BY DEF Messages, IsScan

\* There is such a scan: every step goes ahead.
LEMMA ScanExists ==
  ASSUME NEW data \in Seq(Octet)
  PROVE  \E f : IsScan(f, data)
<1> DEFINE end == Len(data) + 1
           E(pos) == Element(data, pos, end, 48)
           C == {pos \in Nat : pos < end /\ E(pos).is # "bad"}
           J == [pos \in Nat |-> IF E(pos).is = "other" THEN pos + 1 ELSE E(pos).to]
           H == [pos \in Nat |-> IF pos >= end \/ E(pos).is = "other" THEN <<>> ELSE <<E(pos)>>]
<1>0. end \in Nat
  BY LenProperties
<1> HIDE DEF end
<1>1. \A pos \in Nat : E(pos) \in Span /\ (NotThere(E(pos), pos, end) \/ Ahead(E(pos), pos, end))
  BY <1>0, ElementAnywhere
<1> HIDE DEF E
<1>2. \A pos \in Nat : /\ E(pos).is \in {"ok", "other", "bad"}
                       /\ E(pos).is = "ok" => E(pos).to \in Nat /\ E(pos).to > pos
  BY <1>1 DEF NotThere, Ahead
<1>3. \A pos \in C : pos < end /\ J[pos] \in Nat /\ J[pos] > pos
  BY <1>2
<1>4. H \in [Nat -> Seq(Span)]
  BY <1>1
<1>5. IsChain(C, J, H, end, Span)
  BY <1>0, <1>3, <1>4 DEF IsChain
<1>6. \A pos \in Nat :
        /\ pos \in C <=> pos < end /\ E(pos).is # "bad"
        /\ J[pos] = IF E(pos).is = "other" THEN pos + 1 ELSE E(pos).to
        /\ H[pos] = IF pos >= end \/ E(pos).is = "other" THEN <<>> ELSE <<E(pos)>>
  OBVIOUS
<1> HIDE DEF C, J, H
<1>7. PICK f \in [Nat -> Seq(Span)] : Follows(f, C, J, H)
  BY <1>5, ChainExists
<1>8. ASSUME NEW pos \in Nat
      PROVE  f[pos] = IF pos >= end THEN <<>>
                      ELSE IF E(pos).is = "other" THEN f[pos + 1]
                      ELSE <<E(pos)>> \o IF E(pos).is = "ok" THEN f[E(pos).to] ELSE <<>>
  <2>1. f[pos] = IF pos \in C THEN H[pos] \o f[J[pos]] ELSE H[pos]
    BY <1>7 DEF Follows
  <2> DEFINE e == E(pos)
             s == <<e>>
             next == f[pos + 1]
  <2>2. s \in Seq(Span) /\ next \in Seq(Span)
    BY <1>1
  <2>3. s \o <<>> = s /\ <<>> \o next = next
    <3> HIDE DEF s, next
    <3> QED BY <2>2, ConcatEmptySeq
  <2>4. pos >= end <=> ~(pos < end)
    BY <1>0
  <2>5. e.is \in {"ok", "other", "bad"}
    BY <1>2
  <2> QED BY <1>6, <2>1, <2>3, <2>4, <2>5
<1>9. f = [pos \in Nat |-> f[pos]]
  OBVIOUS
<1>10. IsScan(f, data)
  BY <1>8, <1>9 DEF IsScan, E, end
<1> QED BY <1>10

\* Nothing is found at the end, and a message before it is followed by those from its end on.
Scans(f, data) ==
  /\ f[Len(data) + 1] = <<>>
  /\ \A pos \in Nat :
       pos < Len(data) + 1 /\ Element(data, pos, Len(data) + 1, 48).is = "ok" =>
         f[pos] = <<Element(data, pos, Len(data) + 1, 48)>>
                    \o f[Element(data, pos, Len(data) + 1, 48).to]

\* What Messages returns is such a scan.
LEMMA MessagesScan ==
  ASSUME NEW data \in Seq(Octet)
  PROVE  \E f : Scans(f, data) /\ Messages(data) = f[1]
<1> DEFINE f == CHOOSE f : IsScan(f, data)
           end == Len(data) + 1
           E(pos) == Element(data, pos, end, 48)
<1>1. IsScan(f, data)
  BY ScanExists
<1>2. Messages(data) = f[1]
  BY MessagesAre
<1>3. end \in Nat
  BY LenProperties
<1> HIDE DEF f
<1>4. f = [pos \in Nat |-> IF pos >= end THEN <<>>
                           ELSE IF E(pos).is = "other" THEN f[pos + 1]
                           ELSE <<E(pos)>> \o IF E(pos).is = "ok" THEN f[E(pos).to] ELSE <<>>]
  BY <1>1 DEF IsScan
<1> HIDE DEF E, end
<1>5. ASSUME NEW pos \in Nat
      PROVE  f[pos] = IF pos >= end THEN <<>>
                      ELSE IF E(pos).is = "other" THEN f[pos + 1]
                      ELSE <<E(pos)>> \o IF E(pos).is = "ok" THEN f[E(pos).to] ELSE <<>>
  BY <1>4
<1>6. f[end] = <<>>
  <2>1. end >= end
    BY <1>3
  <2> QED BY <1>3, <1>5, <2>1
<1>7. ASSUME NEW pos \in Nat, pos < end, E(pos).is = "ok"
      PROVE  f[pos] = <<E(pos)>> \o f[E(pos).to]
  <2>1. ~(pos >= end)
    BY <1>3, <1>7
  <2>2. E(pos).is # "other"
    BY <1>7
  <2> QED BY <1>5, <1>7, <2>1, <2>2
<1>8. Scans(f, data)
  BY <1>6, <1>7 DEF Scans, E, end
<1> QED BY <1>2, <1>8

\* One message and those after it.
LEMMA OneMore ==
  ASSUME NEW S, NEW N \in Nat, NEW e \in [1 .. N -> S], NEW j \in 1 .. N
  PROVE  <<e[j]>> \o [i \in 1 .. N - j |-> e[j + i]] = [i \in 1 .. N - j + 1 |-> e[j + i - 1]]
<1> DEFINE s == <<e[j]>>
           t == [i \in 1 .. N - j |-> e[j + i]]
           u == [i \in 1 .. N - j + 1 |-> e[j + i - 1]]
<1>1. s \in Seq(S) /\ Len(s) = 1 /\ s[1] = e[j]
  <2>1. e[j] \in S
    OBVIOUS
  <2> QED BY ONLY <2>1
<1>2. N - j \in Nat /\ N - j + 1 \in Nat
  OBVIOUS
<1>3. t \in Seq(S) /\ Len(t) = N - j
  <2>1. \A i \in 1 .. N - j : j + i \in 1 .. N
    OBVIOUS
  <2>2. t \in [1 .. N - j -> S]
    BY <2>1
  <2> HIDE DEF t
  <2> QED BY <1>2, <2>2, SeqDef, LenProperties
<1>4. u \in Seq(S) /\ Len(u) = N - j + 1
  <2>1. \A i \in 1 .. N - j + 1 : j + i - 1 \in 1 .. N
    OBVIOUS
  <2>2. u \in [1 .. N - j + 1 -> S]
    BY <2>1
  <2> HIDE DEF u
  <2> QED BY <1>2, <2>2, SeqDef, LenProperties
<1>5. \A i \in 1 .. Len(s) : u[i] = s[i]
  <2>1. u[1] = e[j + 1 - 1] /\ j + 1 - 1 = j
    BY <1>2
  <2> HIDE DEF u, s
  <2> QED BY <1>1, <2>1
<1>6. \A i \in 1 .. Len(t) : u[Len(s) + i] = t[i]
  <2>1. ASSUME NEW i \in 1 .. N - j
        PROVE  u[1 + i] = t[i]
    <3>1. 1 + i \in 1 .. N - j + 1 /\ j + (1 + i) - 1 = j + i
      BY <1>2
    <3> QED BY <3>1
  <2> HIDE DEF s, t, u
  <2> QED BY <1>1, <1>3, <2>1
<1>7. Len(u) = Len(s) + Len(t)
  <2> HIDE DEF s, t, u
  <2> QED BY <1>1, <1>2, <1>3, <1>4
<1> HIDE DEF s, t, u
<1>8. s \o t = u
  BY <1>1, <1>3, <1>4, <1>5, <1>6, <1>7, Joined
<1> QED BY <1>8 DEF s, t, u

\* The messages from the j-th on.
FromOn(e, N, j) == [i \in 1 .. N - j + 1 |-> e[j + i - 1]]

\* All of them, none of them, and one fewer.
LEMMA FromOnIs ==
  ASSUME NEW S, NEW N \in Nat, NEW e \in [1 .. N -> S]
  PROVE  /\ FromOn(e, N, 1) = e /\ FromOn(e, N, N + 1) = <<>>
         /\ \A j \in 1 .. N : FromOn(e, N, j) = <<e[j]>> \o FromOn(e, N, j + 1)
<1>1. FromOn(e, N, 1) = e
  <2>1. N - 1 + 1 = N /\ \A i \in 1 .. N : 1 + i - 1 = i
    OBVIOUS
  <2>2. FromOn(e, N, 1) = [i \in 1 .. N |-> e[i]]
    BY <2>1 DEF FromOn
  <2> QED BY <2>2
<1>2. FromOn(e, N, N + 1) = <<>>
  <2>1. 1 .. N - (N + 1) + 1 = {}
    OBVIOUS
  <2> QED BY <2>1 DEF FromOn
<1>3. ASSUME NEW j \in 1 .. N
      PROVE  FromOn(e, N, j) = <<e[j]>> \o FromOn(e, N, j + 1)
  <2>1. N - (j + 1) + 1 = N - j /\ \A i \in 1 .. N - j : (j + 1) + i - 1 = j + i
    OBVIOUS
  <2>2. FromOn(e, N, j + 1) = [i \in 1 .. N - j |-> e[j + i]]
    BY <2>1 DEF FromOn
  <2>3. <<e[j]>> \o [i \in 1 .. N - j |-> e[j + i]] = [i \in 1 .. N - j + 1 |-> e[j + i - 1]]
    BY OneMore
  <2> QED BY ONLY <2>2, <2>3 DEF FromOn
<1> QED BY <1>1, <1>2, <1>3

\* Answers that stand one after the other.
Answered(n, ms, N) ==
  /\ n \in Forms /\ N \in Nat /\ ms \in [1 .. N -> Response]
  /\ \A i \in 1 .. N : Valid(ms[i])

Written(n, ms, N) == [i \in 1 .. N |-> ResponseBytes(n, ms[i])]

\* The message of each answer.
MessageOf(e, data, at, N) == e = [i \in 1 .. N |-> Element(data, at[i], Len(data) + 1, 48)]

\* Each of them is read.
LEMMA EachRead ==
  ASSUME NEW n, NEW ms, NEW N, Answered(n, ms, N), NEW data, NEW at,
         Places(at, data, Written(n, ms, N), N), NEW e, MessageOf(e, data, at, N)
  PROVE  /\ e \in [1 .. N -> Span]
         /\ \A i \in 1 .. N : /\ e[i].is = "ok" /\ e[i].to = at[i + 1] /\ at[i] \in Nat
                              /\ at[i] < Len(data) + 1
                              /\ ReadMessage(data, e[i]) = AnswerAs(ms[i])
<1> DEFINE end == Len(data) + 1
<1>0. data \in Seq(Octet) /\ end \in Nat
  BY LenProperties DEF Places
<1>1. ASSUME NEW i \in 1 .. N
      PROVE  /\ e[i] \in Span /\ e[i].is = "ok" /\ e[i].to = at[i + 1] /\ at[i] \in Nat /\ at[i] < end
             /\ ReadMessage(data, e[i]) = AnswerAs(ms[i])
  <2> DEFINE a == ResponseBytes(n, ms[i])
             m == ms[i]
             p == at[i]
             msg == e[i]
  <2>1. n \in Forms /\ m \in Response /\ Valid(m)
    BY DEF Answered
  <2>2. Written(n, ms, N)[i] = a
    BY DEF Written
  <2>3. Stands(data, p, a) /\ at[i + 1] = p + Len(a)
    BY <2>2 DEF Places
  <2>4. p \in Nat /\ p + Len(a) <= end
    BY <2>3 DEF Stands
  <2>5. msg = Element(data, p, end, 48)
    BY DEF MessageOf
  <2>6. Len(a) \in Nat /\ Len(a) >= 2
    <3>1. Made(a, 48, Body(n, m))
      BY <2>1, ResponseMade
    <3> QED BY <3>1, MadeIs
  <2>7. a = ResponseBytes(n, m)
    OBVIOUS
  <2> HIDE DEF a, m, p, msg, end
  <2>8. Found(msg, data, p, end, a, Body(n, m)) /\ ReadMessage(data, msg) = AnswerAs(m)
    BY <1>0, <2>1, <2>3, <2>4, <2>5, <2>7, AnswerRead
  <2>9. msg \in Span /\ msg.is = "ok" /\ msg.to = at[i + 1]
    BY <2>3, <2>8 DEF Found
  <2>10. p < end
    BY <1>0, <2>4, <2>6
  <2> QED BY <2>4, <2>8, <2>9, <2>10 DEF p, m, msg
<1>2. e = [i \in 1 .. N |-> e[i]]
  BY DEF MessageOf
<1>3. e \in [1 .. N -> Span]
  BY <1>1, <1>2
<1> QED BY <1>1, <1>3

\* They are the messages of the data.
LEMMA MessagesRead ==
  ASSUME NEW n, NEW ms, NEW N, Answered(n, ms, N), NEW data, NEW at,
         Places(at, data, Written(n, ms, N), N), NEW e, MessageOf(e, data, at, N)
  PROVE  Messages(data) = e
<1>1. data \in Seq(Octet) /\ N \in Nat /\ at[1] = 1 /\ at[N + 1] = Len(data) + 1
  BY DEF Places
<1>2. PICK f : Scans(f, data) /\ Messages(data) = f[1]
  BY <1>1, MessagesScan
<1>3. e \in [1 .. N -> Span]
  BY EachRead
<1>4. /\ FromOn(e, N, 1) = e /\ FromOn(e, N, N + 1) = <<>>
      /\ \A j \in 1 .. N : FromOn(e, N, j) = <<e[j]>> \o FromOn(e, N, j + 1)
  BY <1>1, <1>3, FromOnIs
<1>5. ASSUME NEW j \in 1 .. N
      PROVE  f[at[j]] = <<e[j]>> \o f[at[j + 1]]
  <2>1. e[j].is = "ok" /\ e[j].to = at[j + 1] /\ at[j] \in Nat /\ at[j] < Len(data) + 1
    BY EachRead
  <2>2. e[j] = Element(data, at[j], Len(data) + 1, 48)
    BY DEF MessageOf
  <2>3. f[at[j]] = <<e[j]>> \o f[e[j].to]
    BY <1>2, <2>1, <2>2 DEF Scans
  <2> QED BY <2>1, <2>3
<1> DEFINE P == {k \in Nat : f[at[N + 1 - k]] = FromOn(e, N, N + 1 - k)}
<1>6. 0 \in P
  <2>1. N + 1 - 0 = N + 1
    BY <1>1
  <2>2. f[at[N + 1]] = <<>>
    BY <1>1, <1>2 DEF Scans
  <2> QED BY <1>4, <2>1, <2>2
<1>7. ASSUME NEW k \in 0 .. N - 1, k \in P
      PROVE  k + 1 \in P
  <2> DEFINE j == N - k
  <2>1. j \in 1 .. N /\ N + 1 - k = j + 1 /\ N + 1 - (k + 1) = j /\ k + 1 \in Nat
    BY <1>1
  <2>2. f[at[N + 1 - k]] = FromOn(e, N, N + 1 - k)
    BY <1>7
  <2> HIDE DEF j
  <2>3. f[at[j + 1]] = FromOn(e, N, j + 1)
    BY <2>1, <2>2
  <2>4. f[at[j]] = FromOn(e, N, j)
    BY <1>4, <1>5, <2>1, <2>3
  <2> QED BY <2>1, <2>4
<1>8. N \in P
  <2> HIDE DEF P
  <2>1. \A k \in 0 .. N : k \in P
    BY <1>1, <1>6, <1>7, Induct
  <2> QED BY <1>1, <2>1
<1>9. N + 1 - N = 1
  BY <1>1
<1>10. f[at[1]] = FromOn(e, N, 1)
  BY <1>8, <1>9
<1> QED BY <1>1, <1>2, <1>4, <1>10

\* Only the empty text has no bytes.
LEMMA NoBytes ==
  ASSUME NEW id \in Ids
  PROVE  \A text : Bytes(text, id) = <<>> <=> text = Empty
<1>1. Lengths[id] \in Nat /\ Lengths[id] > 0
  BY WireAssumption
<1>2. ASSUME NEW text, text # Empty
      PROVE  Bytes(text, id) # <<>>
  <2>1. Bytes(text, id) = [i \in 1 .. Lengths[id] |-> Code[text]]
    BY <1>2 DEF Bytes
  <2>2. 1 \in DOMAIN Bytes(text, id)
    BY <1>1, <2>1
  <2> QED BY <2>2
<1>3. Bytes(Empty, id) = <<>>
  BY DEF Bytes
<1> QED BY <1>2, <1>3

\* What is read of a message.
Reading == [is : {"ok", "bad"}, planes : PlaneTexts]

\* An answer as it is read is one, with the plane that the server put in.
LEMMA AnswerIsReading ==
  ASSUME NEW m \in Response
  PROVE  /\ AnswerAs(m) \in Reading /\ AnswerAs(m).is = "ok"
         /\ AnswerAs(m).planes = IF m.speed = Empty /\ m.name = Empty THEN <<>>
                                 ELSE <<[name  |-> Bytes(m.name, m.id),
                                         speed |-> Bytes(m.speed, m.id)]>>
<1> DEFINE u == Bytes(m.speed, m.id)
           v == Bytes(m.name, m.id)
           p == [name |-> v, speed |-> u]
<1>1. u \in Texts /\ v \in Texts
  BY AnswerTexts DEF IsText, Texts, Octet
<1>2. (u = <<>> <=> m.speed = Empty) /\ (v = <<>> <=> m.name = Empty)
  <2>1. m.id \in Ids
    BY DEF Response
  <2> QED BY <2>1, NoBytes
<1>3. AnswerAs(m) = [is |-> "ok", planes |-> IF u = <<>> /\ v = <<>> THEN <<>> ELSE <<p>>]
  BY DEF AnswerAs, PlaneAs
<1> HIDE DEF u, v
<1>4. <<>> \in PlaneTexts /\ <<p>> \in PlaneTexts
  BY <1>1 DEF PlaneTexts
<1> HIDE DEF p
<1> QED BY <1>2, <1>3, <1>4 DEF Reading, u, v, p

\* When nothing read is bad, the planes of all of it are collected.
LEMMA AllCollected ==
  ASSUME NEW N \in Nat, NEW r \in [1 .. N -> Reading], \A i \in 1 .. N : r[i].is = "ok"
  PROVE  Collected[r] = [ok |-> TRUE, planes |-> FlattenSeq([i \in 1 .. N |-> r[i].planes])]
<1> DEFINE good == {i \in DOMAIN r : NoneBad(SubSeq(r, 1, i))}
<1>1. r \in Seq(Reading) /\ Len(r) = N /\ DOMAIN r = 1 .. N
  BY SeqDef, LenProperties
<1>2. NoneBad(r)
  BY <1>1 DEF NoneBad
<1>3. ASSUME NEW i \in 1 .. N
      PROVE  NoneBad(SubSeq(r, 1, i))
  <2> DEFINE s == SubSeq(r, 1, i)
  <2>1. i - 1 + 1 = i /\ \A k \in 1 .. i : k \in 1 .. N /\ 1 + k - 1 = k
    OBVIOUS
  <2>2. s = [k \in 1 .. i |-> r[k]]
    BY <1>1, <2>1, SubSeqProperties
  <2> HIDE DEF s
  <2>3. \A k \in DOMAIN s : s[k].is # "bad"
    BY <2>1, <2>2
  <2> QED BY <2>3 DEF NoneBad, s
<1>4. good = 1 .. N
  BY <1>1, <1>3
<1>5. Cardinality(1 .. N) = N
  BY FS_Interval
<1> HIDE DEF good
<1>6. Collected[r] =
        [ok     |-> NoneBad(r),
         planes |-> FlattenSeq([i \in 1 .. Cardinality(good) |-> r[i].planes])]
  BY <1>1 DEF Collected, good, Reading
<1> QED BY <1>2, <1>4, <1>5, <1>6

\* Planes as the bytes of their names and speeds, in the messages with an id.
TextsOf(p, id) == [name |-> Bytes(p.name, id), speed |-> Bytes(p.speed, id)]

Shown(s, id) == [i \in DOMAIN s |-> TextsOf(s[i], id)]

\* They are texts, as many as there are planes.
LEMMA ShownIs ==
  ASSUME NEW s \in Seq(Plane), NEW id \in Ids
  PROVE  Shown(s, id) \in Seq([name : Texts, speed : Texts]) /\ Len(Shown(s, id)) = Len(s)
<1> DEFINE T == [name : Texts, speed : Texts]
           n == Len(s)
           a == Shown(s, id)
<1>1. n \in Nat /\ DOMAIN s = 1 .. n /\ \A i \in 1 .. n : s[i] \in Plane
  BY LenProperties, ElementOfSeq
<1>2. ASSUME NEW q \in Plane
      PROVE  TextsOf(q, id) \in T
  <2>1. q.name \in Planes \cup Speeds \cup {Empty} /\ q.speed \in Planes \cup Speeds \cup {Empty}
    BY DEF Plane
  <2>2. Bytes(q.name, id) \in Seq(Octet) /\ Bytes(q.speed, id) \in Seq(Octet)
    BY <2>1, TypedTexts DEF IsText
  <2> QED BY <2>2 DEF TextsOf, Texts, Octet
<1> HIDE DEF n, T
<1>3. a = [i \in 1 .. n |-> TextsOf(s[i], id)]
  BY <1>1 DEF Shown
<1>4. a \in [1 .. n -> T]
  BY <1>1, <1>2, <1>3
<1> HIDE DEF a
<1>5. a \in Seq(T) /\ Len(a) = n
  BY <1>1, <1>4, SeqDef, LenProperties
<1> QED BY <1>5 DEF a, n, T

\* A plane more.
LEMMA ShownAppend ==
  ASSUME NEW s \in Seq(Plane), NEW p \in Plane, NEW id \in Ids
  PROVE  Shown(Append(s, p), id) = Shown(s, id) \o <<TextsOf(p, id)>>
<1> DEFINE T == [name : Texts, speed : Texts]
           n == Len(s)
           x == TextsOf(p, id)
           a == Shown(s, id)
           b == <<x>>
           t == Append(s, p)
           c == Shown(t, id)
<1>1. n \in Nat /\ DOMAIN s = 1 .. n
  BY LenProperties
<1>2. t \in Seq(Plane) /\ Len(t) = n + 1 /\ DOMAIN t = 1 .. n + 1 /\ t[n + 1] = p
      /\ \A i \in 1 .. n : t[i] = s[i]
  BY <1>1, AppendProperties, LenProperties
<1> HIDE DEF n, t
<1>3. a \in Seq(T) /\ Len(a) = n /\ c \in Seq(T) /\ Len(c) = n + 1
  BY <1>2, ShownIs DEF n
<1>4. a = [i \in 1 .. n |-> TextsOf(s[i], id)] /\ c = [i \in 1 .. n + 1 |-> TextsOf(t[i], id)]
  BY <1>1, <1>2 DEF Shown
<1>5. \A i \in 1 .. n : c[i] = a[i]
  BY <1>1, <1>2, <1>4
<1>6. n + 1 \in 1 .. n + 1 /\ c[n + 1] = x
  BY <1>1, <1>2, <1>4
<1>7. c[n + 1] \in T
  <2> HIDE DEF c, T
  <2> QED BY <1>3, <1>6, ElementOfSeq
<1> HIDE DEF a, c, x, T
<1>8. b \in Seq(T) /\ Len(b) = 1 /\ b[1] = x
  BY <1>6, <1>7
<1> HIDE DEF b
<1>9. \A i \in 1 .. Len(b) : c[Len(a) + i] = b[i]
  BY <1>3, <1>6, <1>8
<1>10. Len(c) = Len(a) + Len(b) /\ \A i \in 1 .. Len(a) : c[i] = a[i]
  BY <1>3, <1>5, <1>8
<1>11. a \o b = c
  BY <1>3, <1>8, <1>9, <1>10, Joined
<1> QED BY <1>11 DEF a, b, c, t, x

\* The answers to one command: an entry has its id.
Collectable(ms, id) ==
  /\ ms \in Seq(Response) /\ id \in Ids
  /\ \A i \in 1 .. Len(ms) : Valid(ms[i]) /\ (ms[i].op = "entry" => ms[i].id = id)

\* The planes read from each of them, joined, are those that ExtractPlanes takes.
LEMMA PlanesRead ==
  ASSUME NEW ms, NEW id, Collectable(ms, id), NEW N, N = Len(ms)
  PROVE  FlattenSeq([i \in 1 .. N |-> AnswerAs(ms[i]).planes]) = Shown(ExtractPlanes(ms), id)
<1> DEFINE T == [name : Texts, speed : Texts]
           ss == [i \in 1 .. N |-> AnswerAs(ms[i]).planes]
           x == CHOOSE f : IsExtraction(f, ms, N)
<1>1. N \in Nat /\ id \in Ids
      /\ \A i \in 1 .. N : /\ ms[i] \in Response /\ Valid(ms[i])
                           /\ ms[i].op = "entry" => ms[i].id = id
  <2>1. ms \in Seq(Response)
    BY DEF Collectable
  <2> QED BY <2>1, LenProperties, ElementOfSeq DEF Collectable
<1>2. IsExtraction(x, ms, N)
  BY <1>1, ExtractionExists
<1>3. ExtractPlanes(ms) = x[N]
  BY DEF ExtractPlanes, x, IsExtraction, Push
<1> HIDE DEF x
<1>4. x[0] = <<>> /\ \A i \in 1 .. N : x[i] = Push(ms, i, x[i - 1])
  <2>1. \A i \in 0 .. N : x[i] = IF i = 0 THEN <<>> ELSE Push(ms, i, x[i - 1])
    BY <1>2 DEF IsExtraction
  <2> QED BY <1>1, <2>1
<1>5. \A i \in 1 .. N : ss[i] = AnswerAs(ms[i]).planes
  OBVIOUS
<1>6. ss \in [1 .. N -> Seq(T)]
  <2>1. \A i \in 1 .. N : AnswerAs(ms[i]).planes \in Seq(T)
    BY <1>1, AnswerIsReading DEF Reading, PlaneTexts
  <2> QED BY <2>1
<1> HIDE DEF ss, T
<1>7. PICK f : Joins(f, ss, N, T) /\ FlattenSeq(ss) = f[N]
  BY <1>1, <1>6, Flattened
<1>8. f[0] = <<>> /\ \A i \in 1 .. N : f[i] = f[i - 1] \o ss[i]
  BY <1>7 DEF Joins
<1> DEFINE P == {i \in Nat : x[i] \in Seq(Plane) /\ f[i] = Shown(x[i], id)}
<1>9. 0 \in P
  <2>1. <<>> \in Seq(Plane) /\ Shown(<<>>, id) = <<>> /\ 0 \in Nat
    BY DEF Shown
  <2> QED BY <1>4, <1>8, <2>1
<1>10. ASSUME NEW i \in 0 .. N - 1, i \in P
       PROVE  i + 1 \in P
  <2> DEFINE m == ms[i + 1]
             old == x[i]
             p == PlaneIn(m)
  <2>1. i + 1 \in 1 .. N /\ (i + 1) - 1 = i /\ i + 1 \in Nat
    BY <1>1
  <2>2. old \in Seq(Plane) /\ f[i] = Shown(old, id)
    BY <1>10
  <2>3. m \in Response /\ Valid(m) /\ (m.op = "entry" => m.id = id)
    BY <1>1, <2>1
  <2>4. x[i + 1] = IF IsPlane(m) THEN Append(old, p) ELSE old
    BY <1>4, <2>1 DEF Push
  <2>5. f[i + 1] = Shown(old, id) \o AnswerAs(m).planes
    BY <1>5, <1>8, <2>1, <2>2
  <2> HIDE DEF m, old
  <2>6. CASE IsPlane(m)
    <3>1. p \in Plane /\ p.name = m.name /\ p.speed = m.speed
      BY <2>3 DEF Response, Plane, PlaneIn
    <3>2. m.id = id /\ ~(m.speed = Empty /\ m.name = Empty)
      BY <2>3, <2>6 DEF IsPlane
    <3>3. AnswerAs(m).planes = <<TextsOf(p, id)>>
      BY <2>3, <3>1, <3>2, AnswerIsReading DEF TextsOf
    <3> HIDE DEF p
    <3>4. Shown(Append(old, p), id) = Shown(old, id) \o <<TextsOf(p, id)>>
      BY <1>1, <2>2, <3>1, ShownAppend
    <3>5. Append(old, p) \in Seq(Plane)
      BY <2>2, <3>1, AppendProperties
    <3>6. x[i + 1] = Append(old, p)
      BY <2>4, <2>6 DEF p
    <3>7. f[i + 1] = Shown(Append(old, p), id)
      BY ONLY <2>5, <3>3, <3>4
    <3> QED BY <2>1, <3>5, <3>6, <3>7
  <2>7. CASE ~IsPlane(m)
    <3>1. m.speed = Empty /\ m.name = Empty
      BY <2>3, <2>7 DEF IsPlane, Valid
    <3>2. AnswerAs(m).planes = <<>>
      BY <2>3, <3>1, AnswerIsReading
    <3> DEFINE a == Shown(old, id)
    <3>3. a \in Seq([name : Texts, speed : Texts])
      <4>1. \A s \in Seq(Plane) : Shown(s, id) \in Seq([name : Texts, speed : Texts])
        BY <1>1, ShownIs
      <4> QED BY <2>2, <4>1
    <3> HIDE DEF a
    <3>4. a \o <<>> = a
      BY <3>3, ConcatEmptySeq
    <3>5. f[i + 1] = a
      BY <2>5, <3>2, <3>4 DEF a
    <3> QED BY <2>1, <2>2, <2>4, <2>7, <3>5 DEF a
  <2> QED BY <2>6, <2>7
<1>11. N \in P
  <2> HIDE DEF P
  <2>1. \A i \in 0 .. N : i \in P
    BY <1>1, <1>9, <1>10, Induct
  <2> QED BY <1>1, <2>1
<1> QED BY <1>3, <1>7, <1>11 DEF ss

\* The first speed read is the one that Description finds.
LEMMA SpeedRead ==
  ASSUME NEW ms, NEW id, Collectable(ms, id)
  PROVE  FirstSpeed[[ok |-> TRUE, planes |-> Shown(ExtractPlanes(ms), id)]] =
           FlattenSeq([i \in DOMAIN Description(ms) |-> Bytes(Description(ms)[i], id)])
<1> DEFINE planes == ExtractPlanes(ms)
           s == Shown(planes, id)
           found == {i \in DOMAIN planes : planes[i].speed # Empty}
           r == [ok |-> TRUE, planes |-> s]
           seen  == {i \in DOMAIN r.planes : r.planes[i].speed # <<>>}
           k == CHOOSE i \in found : \A j \in found : i <= j
           l == CHOOSE i \in seen : \A j \in seen : i <= j
           d == Description(ms)
           e == [i \in DOMAIN d |-> Bytes(d[i], id)]
<1>1. ms \in Seq(Response) /\ id \in Ids
  BY DEF Collectable
<1>2. planes \in Seq(Plane)
  BY <1>1, ExtractPlanesProperties
<1>3. d = IF found = {} THEN <<>> ELSE <<planes[k].speed>>
  BY DEF Description
<1> HIDE DEF planes
<1>4. s \in PlaneTexts
  BY <1>1, <1>2, ShownIs DEF PlaneTexts
<1>5. \A i \in DOMAIN planes : s[i] = TextsOf(planes[i], id)
  BY DEF Shown
<1>6. DOMAIN s = DOMAIN planes
  BY DEF Shown
<1> HIDE DEF s
<1>7. \A i \in DOMAIN planes : s[i].speed = Bytes(planes[i].speed, id)
  <2>1. \A p : TextsOf(p, id).speed = Bytes(p.speed, id)
    BY DEF TextsOf
  <2> QED BY <1>5, <2>1
<1>8. \A i \in DOMAIN planes : s[i].speed # <<>> <=> planes[i].speed # Empty
  BY <1>1, <1>7, NoBytes
<1>9. r \in [ok : BOOLEAN, planes : PlaneTexts] /\ r.ok /\ r.planes = s
  BY <1>4
<1> HIDE DEF r
<1>10. FirstSpeed[r] = IF r.ok /\ seen # {} THEN r.planes[l].speed ELSE <<>>
  BY <1>9 DEF FirstSpeed
<1>11. seen = found
  BY <1>6, <1>8, <1>9
<1>12. FirstSpeed[r] = IF found # {} THEN s[k].speed ELSE <<>>
  <2> HIDE DEF seen, found
  <2> QED BY <1>9, <1>10, <1>11
<1> HIDE DEF d
<1>13. CASE found = {}
  <2>1. d = <<>>
    BY <1>3, <1>13
  <2>2. e = <<>>
    BY <2>1
  <2> HIDE DEF e
  <2>3. FlattenSeq(e) = <<>>
    BY <2>2, FlattenFew
  <2> QED BY <1>12, <1>13, <2>3 DEF r, s, planes, d, e
<1>14. CASE found # {}
  <2> DEFINE v == Bytes(planes[k].speed, id)
  <2>0. found \in SUBSET Nat
    BY <1>2, LenProperties
  <2>1. k \in DOMAIN planes
    <3>1. \E i \in found : \A j \in found : i <= j
      <4> HIDE DEF found
      <4> QED BY <1>14, <2>0, LeastNat
    <3>2. k \in found
      <4> HIDE DEF found
      <4> QED BY <3>1
    <3> QED BY <3>2
  <2>2. planes[k] \in Plane
    BY <1>2, <2>1, LenProperties, ElementOfSeq
  <2> HIDE DEF k, found
  <2>3. v \in Seq(Octet)
    <3>1. planes[k].speed \in Planes \cup Speeds \cup {Empty}
      BY <2>2 DEF Plane
    <3> QED BY <1>1, <3>1, TypedTexts DEF IsText
  <2>4. FirstSpeed[r] = v
    BY <1>7, <1>12, <1>14, <2>1
  <2>5. e = <<v>>
    <3>1. d = <<planes[k].speed>>
      BY <1>3, <1>14
    <3> QED BY <3>1
  <2> HIDE DEF e, v
  <2>6. FlattenSeq(e) = v
    BY <2>3, <2>5, FlattenFew
  <2> QED BY <2>4, <2>6 DEF r, s, planes, d, e
<1> QED BY <1>13, <1>14

\* From answers that stand one after the other, all planes are read.
LEMMA AllRead ==
  ASSUME NEW n \in Forms, NEW ms, NEW id, Collectable(ms, id), NEW data, data = Stream(n, ms)
  PROVE  extractPlanesFromPacket(data) = [ok |-> TRUE, planes |-> Shown(ExtractPlanes(ms), id)]
<1> DEFINE N == Len(ms)
           ss == Written(n, ms, N)
           r == [i \in 1 .. N |-> AnswerAs(ms[i])]
<1>1. /\ N \in Nat /\ DOMAIN ms = 1 .. N
      /\ \A i \in 1 .. N : ms[i] \in Response /\ Valid(ms[i])
      /\ ms \in [1 .. N -> Response]
  <2>1. ms \in Seq(Response)
    BY DEF Collectable
  <2> QED BY <2>1, LenProperties, ElementOfSeq DEF Collectable
<1>2. Answered(n, ms, N)
  BY <1>1 DEF Answered
<1>3. data = FlattenSeq(ss)
  BY <1>1 DEF Stream, Written
<1>4. ss \in [1 .. N -> Seq(Octet)]
  <2>1. ASSUME NEW i \in 1 .. N
        PROVE  ResponseBytes(n, ms[i]) \in Seq(Octet)
    <3> DEFINE m == ms[i]
    <3>1. m \in Response
      BY <1>1
    <3> HIDE DEF m
    <3>2. Made(ResponseBytes(n, m), 48, Body(n, m))
      BY <3>1, ResponseMade
    <3>3. ResponseBytes(n, m) \in Seq(Octet)
      BY <3>2, MadeIs
    <3> QED BY <3>3 DEF m
  <2> QED BY <2>1 DEF Written
<1> HIDE DEF ss, N
<1>5. PICK at : Places(at, data, ss, N)
  BY <1>1, <1>3, <1>4, Placed
<1> DEFINE e == [i \in 1 .. N |-> Element(data, at[i], Len(data) + 1, 48)]
<1>6. MessageOf(e, data, at, N) /\ \A i \in 1 .. N : e[i] = Element(data, at[i], Len(data) + 1, 48)
  BY DEF MessageOf
<1>7. Places(at, data, Written(n, ms, N), N)
  BY <1>5 DEF ss
<1> HIDE DEF e
<1>8. /\ e \in [1 .. N -> Span] /\ Messages(data) = e
      /\ \A i \in 1 .. N : ReadMessage(data, e[i]) = AnswerAs(ms[i])
  BY <1>2, <1>6, <1>7, EachRead, MessagesRead
<1>9. ReadMessages(data)[e] = r
  <2>1. e \in Seq(Span) /\ DOMAIN e = 1 .. N
    BY <1>1, <1>8, SeqDef
  <2>2. ReadMessages(data)[e] = [i \in DOMAIN e |-> ReadMessage(data, e[i])]
    BY <2>1 DEF ReadMessages
  <2> QED BY <1>8, <2>1, <2>2
<1>10. r \in [1 .. N -> Reading] /\ \A i \in 1 .. N : r[i].is = "ok" /\ r[i] = AnswerAs(ms[i])
  BY <1>1, AnswerIsReading
<1> HIDE DEF r
<1>11. Collected[r] = [ok |-> TRUE, planes |-> FlattenSeq([i \in 1 .. N |-> r[i].planes])]
  BY <1>1, <1>10, AllCollected
<1>12. [i \in 1 .. N |-> r[i].planes] = [i \in 1 .. N |-> AnswerAs(ms[i]).planes]
  BY <1>10
<1>13. FlattenSeq([i \in 1 .. N |-> AnswerAs(ms[i]).planes]) = Shown(ExtractPlanes(ms), id)
  BY PlanesRead DEF N
<1>14. extractPlanesFromPacket(data) = Collected[ReadMessages(data)[Messages(data)]]
  BY DEF extractPlanesFromPacket
<1> QED BY <1>8, <1>9, <1>11, <1>12, <1>13, <1>14

\* An answer the server can write; an entry has the id of the command.
Sound(m) == Valid(m) /\ (m.op = "entry" => m.id = command.id)

\* Every answer that is read or on its way is sound.
MessageInv == \A m \in Answers : Sound(m)

\* The notice is sound whatever the command is.
LEMMA NoticeIsSound == Valid(Notice) /\ Notice.op # "entry" /\ Notice \in Response
<1>1. Notice \in Response /\ Notice.op = "notice" /\ Notice.name = Empty /\ Notice.speed = Empty
  BY LdapAssumption DEF Notice, Response, Ids
<1> QED BY <1>1 DEF Valid

\* The entries of an answer to the command are sound.
LEMMA EntriesAreSound ==
  ASSUME NEW found \in Seq(Plane), command \in Request
  PROVE  \A m \in ToSet(Entries(found)) : Sound(m)
<1>1. Entries(found) \in Seq(Response)
  BY EntriesProperties
<1>2. \A x : /\ Answer("entry", FALSE, x).op = "entry"
             /\ Answer("entry", FALSE, x).id = command.id
             /\ Answer("entry", FALSE, x).ok = FALSE
  BY DEF Answer
<1>3. ASSUME NEW i \in DOMAIN Entries(found)
      PROVE  Sound(Entries(found)[i])
  <2> DEFINE m == Entries(found)[i]
  <2>1. \E x : m = Answer("entry", FALSE, x)
    BY <1>3 DEF Entries
  <2>2. m \in Response
    BY <1>1, <1>3, LenProperties, ElementOfSeq
  <2> HIDE DEF m
  <2>3. Sound(m)
    BY <1>2, <2>1, <2>2 DEF Sound, Valid
  <2> QED BY <2>3 DEF m
<1> QED BY <1>3 DEF ToSet

\* What the server puts on the way when it handles a request.
LEMMA ServeIsSound ==
  ASSUME LdapInv, Serve
  PROVE  MessageInv'
<1>1. combined' = <<>> /\ responses = <<>> /\ command' = command /\ command \in Request
  BY DEF LdapInv, LinkInv, TypeOK, Serve, main
<1>2. PICK dir \in [Planes -> Speeds \cup {Empty, NoEntry}], ok \in BOOLEAN :
        \E given \in SUBSET {e \in EntriesOf(dir) :
                             command.op = "list" \/ e.name = command.name} :
          \E order \in SetToSeqs(given) : responses' = responses \o
            CASE Searching /\ (ok \/ given # {}) ->
                     Entries(order) \o <<Answer("done", ok, Nothing)>>
                [] Searching /\ ~ok /\ given = {} -> <<Answer("done", FALSE, Nothing)>>
                [] ~Searching -> <<Answer(command.op, ok, Nothing)>>
  BY DEF Serve
<1> DEFINE found == {e \in EntriesOf(dir) : command.op = "list" \/ e.name = command.name}
<1>2a. PICK given \in SUBSET found :
        \E order \in SetToSeqs(given) : responses' = responses \o
          CASE Searching /\ (ok \/ given # {}) -> Entries(order) \o <<Answer("done", ok, Nothing)>>
            [] Searching /\ ~ok /\ given = {} -> <<Answer("done", FALSE, Nothing)>>
            [] ~Searching -> <<Answer(command.op, ok, Nothing)>>
  BY <1>2
<1>3. PICK order \in SetToSeqs(given) : responses' = responses \o
        CASE Searching /\ (ok \/ given # {}) -> Entries(order) \o <<Answer("done", ok, Nothing)>>
          [] Searching /\ ~ok /\ given = {} -> <<Answer("done", FALSE, Nothing)>>
          [] ~Searching -> <<Answer(command.op, ok, Nothing)>>
  BY <1>2a
<1>4. IsFiniteSet(given) /\ given \subseteq Plane
  <2>1. IsFiniteSet(found) /\ found \subseteq Plane
    BY <1>1, FoundProperties
  <2> QED BY <2>1, FS_Subset
<1> HIDE DEF found
<1>5. order \in Seq(Plane)
  <2>1. order \in Seq(given)
    BY <1>4, OrderProperties
  <2>2. \A i \in 1 .. Len(order) : order[i] \in Plane
    BY <1>4, <2>1, ElementOfSeq
  <2> QED BY <1>4, <2>1, <2>2, SeqMonotonic
<1> DEFINE es == Entries(order)
<1>6. es \in Seq(Response) /\ \A m \in ToSet(es) : Sound(m)
  BY <1>1, <1>5, EntriesProperties, EntriesAreSound
<1>7. \A op \in {"bind", "add", "delete", "done"}, b \in BOOLEAN :
        /\ Answer(op, b, Nothing) \in Response
        /\ Sound(Answer(op, b, Nothing))
  <2> SUFFICES ASSUME NEW op \in {"bind", "add", "delete", "done"}, NEW b \in BOOLEAN
               PROVE  Answer(op, b, Nothing) \in Response /\ Sound(Answer(op, b, Nothing))
    OBVIOUS
  <2> DEFINE m == Answer(op, b, Nothing)
  <2>1. m \in Response /\ m.op = op /\ m.name = Empty /\ m.speed = Empty
    BY <1>1 DEF Answer, Nothing, Response, Request
  <2> HIDE DEF m
  <2>2. m \in Response /\ Sound(m)
    BY <2>1 DEF Sound, Valid
  <2> QED BY <2>2 DEF m
<1> HIDE DEF es
<1>8. SUFFICES \A m \in ToSet(responses') : Sound(m)
  <2>1. Answers' = ToSet(responses')
    BY <1>1 DEF Answers, ToSet
  <2> QED BY <1>1, <1>8, <2>1 DEF MessageInv, Sound, Valid
<1>9. ASSUME NEW m, m \in Response, Sound(m), responses' = responses \o <<m>>
      PROVE  \A x \in ToSet(responses') : Sound(x)
  <2>1. <<m>> \in Seq(Response)
    BY <1>9
  <2>2. responses' = <<m>>
    BY <1>1, <1>9, <2>1, ConcatEmptySeq
  <2>3. ToSet(responses') = {m}
    BY <2>2 DEF ToSet
  <2> QED BY <1>9, <2>3
<1>10. CASE ~Searching
  <2>1. command.op \in {"bind", "add", "delete"}
    BY <1>1, <1>10 DEF Request, Searching
  <2> DEFINE m == Answer(command.op, ok, Nothing)
  <2>2. m \in Response /\ Sound(m)
    BY <1>7, <2>1
  <2>3. responses' = responses \o <<m>>
    BY <1>3, <1>10
  <2> HIDE DEF m
  <2> QED BY <1>9, <2>2, <2>3
<1>11. CASE Searching /\ ~(ok \/ given # {})
  <2> DEFINE m == Answer("done", FALSE, Nothing)
  <2>1. m \in Response /\ Sound(m)
    BY <1>7
  <2>2. responses' = responses \o <<m>>
    BY <1>3, <1>11
  <2> HIDE DEF m
  <2> QED BY <1>9, <2>1, <2>2
<1>12. CASE Searching /\ (ok \/ given # {})
  <2> DEFINE m == Answer("done", ok, Nothing)
  <2>1. m \in Response /\ Sound(m)
    BY <1>7
  <2>2. responses' = responses \o (es \o <<m>>)
    BY <1>3, <1>12 DEF es
  <2> HIDE DEF m
  <2>3. es \o <<m>> = Append(es, m) /\ Append(es, m) \in Seq(Response)
    BY <1>6, <2>1, AppendIsConcat, AppendProperties
  <2>4. responses' = Append(es, m)
    BY <1>1, <2>2, <2>3, ConcatEmptySeq
  <2>5. ToSet(responses') = ToSet(es) \cup {m}
    BY <1>6, <2>1, <2>4, AppendSet
  <2> QED BY <1>6, <2>1, <2>5
<1> QED BY <1>10, <1>11, <1>12

\* A step that leaves the command and brings no answer but the notice.
LEMMA OnlyNotice ==
  ASSUME MessageInv, Answers' \subseteq Answers \cup {Notice}, command' = command
  PROVE  MessageInv'
<1>1. \A m \in Answers \cup {Notice} : Sound(m)
  BY NoticeIsSound DEF MessageInv, Sound
<1> QED BY <1>1 DEF MessageInv, Sound, Valid

\* A new command: no answer but the notice is left from the last.
LEMMA SendIsSound ==
  ASSUME LdapInv, MessageInv, pc \in {"start", "menu"}, NEW op, NEW name, NEW speed,
         Send(op, name, speed)
  PROVE  MessageInv'
<1>1. CASE link = "broken"
  <2>1. UNCHANGED <<command, combined, responses>>
    BY <1>1 DEF Send, server
  <2> QED BY <2>1, OnlyNotice DEF Answers
<1>2. CASE link # "broken"
  <2>1. combined' = <<>> /\ responses' = responses
    BY <1>2 DEF Send
  <2>2. \A i \in DOMAIN responses : responses[i] = Notice
    BY DEF LdapInv, LinkInv
  <2>3. \A m \in Answers' : m = Notice
    BY <2>1, <2>2 DEF Answers, ToSet
  <2> QED BY <2>3, NoticeIsSound DEF MessageInv, Sound, Valid
<1> QED BY <1>1, <1>2

\* An answer that is read is one that was on its way.
LEMMA ReceiveIsSound ==
  ASSUME LdapInv, MessageInv, ReceivePacket
  PROVE  MessageInv'
<1> DEFINE m == Head(responses)
           all == Append(combined, m)
<1>1. /\ responses # <<>> /\ responses' = Tail(responses) /\ command' = command
      /\ combined' = all \/ combined' = <<>>
  BY DEF ReceivePacket, Finish
<1>2. responses \in Seq(Response) /\ combined \in Seq(Response)
  BY DEF LdapInv, TypeOK
<1>3. m \in Response /\ ToSet(responses) = {m} \cup ToSet(responses')
  BY <1>1, <1>2, TailSet
<1>4. ToSet(all) = ToSet(combined) \cup {m}
  BY <1>2, <1>3, AppendSet
<1>5. ToSet(combined') \subseteq ToSet(combined) \cup {m}
  <2>1. ToSet(<<>>) = {}
    BY DEF ToSet
  <2> QED BY <1>1, <1>4, <2>1
<1>6. Answers' \subseteq Answers \cup {Notice}
  BY <1>3, <1>5 DEF Answers
<1> QED BY <1>1, <1>6, OnlyNotice

\* The connection ends; a part of what was on its way is left, and perhaps a notice.
LEMMA CloseIsSound ==
  ASSUME LdapInv, MessageInv, Close
  PROVE  MessageInv'
<1>1. responses \in Seq(Response) /\ combined' = combined /\ command' = command
  BY DEF LdapInv, TypeOK, Close, main
<1>2. ToSet(responses') \subseteq ToSet(responses) \cup {Notice}
  <2>1. CASE \E k \in 0 .. Len(responses) : responses' = SubSeq(responses, 1, k)
    BY <1>1, <2>1, FrontSet
  <2>2. CASE responses' = Append(responses, Notice)
    BY <1>1, <2>2, NoticeIsSound, AppendSet
  <2> QED BY <2>1, <2>2 DEF Close
<1>3. Answers' \subseteq Answers \cup {Notice}
  BY <1>1, <1>2 DEF Answers
<1> QED BY <1>1, <1>3, OnlyNotice

\* The answers stay sound.
LEMMA MessageStep == LdapInv /\ MessageInv /\ [Next]_vars => MessageInv'
<1> SUFFICES ASSUME LdapInv, MessageInv, [Next]_vars PROVE MessageInv'
  OBVIOUS
<1>1. CASE Start
  BY <1>1, SendIsSound DEF Start
<1>2. CASE Type
  BY <1>2, SendIsSound DEF Type
<1>3. CASE TypeCut
  BY <1>3, SendIsSound DEF TypeCut
<1>4. CASE Repeat
  BY <1>4, SendIsSound DEF Repeat
<1>5. CASE ConnectFails \/ Invalid \/ Exit \/ UNCHANGED vars
  <2>1. UNCHANGED <<command, combined, responses>>
    BY <1>5 DEF ConnectFails, Invalid, Exit, vars, server
  <2> QED BY <2>1, OnlyNotice DEF Answers
<1>6. CASE ReceiveNothing
  <2>1. combined' = <<>> /\ UNCHANGED <<command, responses>>
    BY <1>6 DEF ReceiveNothing, Finish, server
  <2>2. Answers' \subseteq Answers \cup {Notice}
    BY <2>1 DEF Answers, ToSet
  <2> QED BY <2>1, <2>2, OnlyNotice
<1>7. CASE Disconnect
  <2>1. responses \in Seq(Response) /\ UNCHANGED <<command, combined>>
    BY <1>7 DEF LdapInv, TypeOK, Disconnect, main
  <2>2. ToSet(responses') = ToSet(responses) \cup {Notice}
    BY <1>7, <2>1, NoticeIsSound, AppendSet DEF Disconnect
  <2>3. Answers' \subseteq Answers \cup {Notice}
    BY <2>1, <2>2 DEF Answers
  <2> QED BY <2>1, <2>3, OnlyNotice
<1> QED BY <1>1, <1>2, <1>3, <1>4, <1>5, <1>6, <1>7, ServeIsSound, ReceiveIsSound, CloseIsSound
        DEF Next

\* In every state, the answers are sound.
LEMMA AnswersAreSound == Spec => []MessageInv
<1>1. Init => MessageInv
  BY DEF Init, MessageInv, Answers, ToSet
<1> QED BY <1>1, MessageStep, Invariance, PTL DEF Spec

\* A stream of answers is bytes.
LEMMA StreamIs ==
  ASSUME NEW n \in Forms, NEW ms \in Seq(Response)
  PROVE  Stream(n, ms) \in Seq(Octet)
<1> DEFINE N == Len(ms)
           ss == [i \in DOMAIN ms |-> ResponseBytes(n, ms[i])]
<1>1. N \in Nat /\ DOMAIN ms = 1 .. N /\ \A i \in 1 .. N : ms[i] \in Response
  BY LenProperties, ElementOfSeq
<1>2. \A m \in Response : ResponseBytes(n, m) \in Seq(Octet)
  BY ResponseMade, MadeIs
<1>3. ss \in [1 .. N -> Seq(Octet)]
  BY <1>1, <1>2
<1> HIDE DEF ss, N
<1>4. FlattenSeq(ss) \in Seq(Octet)
  BY <1>1, <1>3, JoinedText
<1> QED BY <1>4 DEF Stream, ss

\* An answer is cut where it ends, and is none while a byte of it is missing.
LEMMA AnswerReceived ==
  ASSUME NEW n \in Forms, NEW m \in Response, NEW first, first = ResponseBytes(n, m),
         NEW rest \in Seq(Octet)
  PROVE  /\ receivePacket(first \o rest) = [packet |-> first, rest |-> rest]
         /\ receivePacket(SubSeq(first, 1, Len(first) - 1)).packet = NoPacket
<1> DEFINE id == IdBytes(n, m)
           op == OpBytes(n, m)
           body == Body(n, m)
<1>1. Made(first, 48, body) /\ Made(id, 2, <<m.id>>) /\ Made(op, OpTag(m), OpBody(n, m))
  BY ResponseMade
<1>2. Len(id) >= 2 + Len(<<m.id>>) /\ Len(id) \in Nat /\ id \in Seq(Octet)
  BY <1>1, MadeIs
<1>3. Len(op) \in Nat /\ op \in Seq(Octet)
  BY <1>1, MadeIs
<1>4. Len(id \o op) = Len(id) + Len(op) /\ Len(<<m.id>>) = 1
  BY <1>2, <1>3, ConcatProperties
<1>5. Len(body) >= 1
  <2>1. Len(body) = Len(id) + Len(op)
    BY <1>4 DEF Body
  <2> HIDE DEF body, id, op
  <2> QED BY <1>2, <1>3, <1>4, <2>1
<1> HIDE DEF body
<1> QED BY <1>1, <1>5, ElementReceived, ElementCut

\* In a state with sound answers, all of them are read as the client needs them.
LEMMA SoundIsRead == LdapInv /\ MessageInv => ResponsesAreRead
<1> SUFFICES ASSUME LdapInv, MessageInv, NEW n \in Forms
             PROVE  /\ responses # <<>> =>
                         \A first \in {ResponseBytes(n, Head(responses))},
                            rest \in {Stream(n, Tail(responses))} :
                           /\ receivePacket(first \o rest) = [packet |-> first, rest |-> rest]
                           /\ receivePacket(SubSeq(first, 1, Len(first) - 1)).packet = NoPacket
                           /\ messageIsSearchResultDone(first) <=> IsDone(Head(responses))
                           /\ responseIndicatesSuccess(first) <=> Head(responses).ok
                    /\ combined # <<>> =>
                         \A all \in {Stream(n, combined)} :
                           /\ extractPlanesFromPacket(all) =
                                [ok |-> TRUE, planes |-> [i \in DOMAIN ExtractPlanes(combined) |->
                                                            PlaneBytes(ExtractPlanes(combined)[i])]]
                           /\ parseSearchResultForDescription(all) =
                                FlattenSeq([i \in DOMAIN Description(combined) |->
                                              Bytes(Description(combined)[i], command.id)])
  BY DEF ResponsesAreRead
<1>1. responses \in Seq(Response) /\ combined \in Seq(Response) /\ command.id \in Ids
  BY DEF LdapInv, TypeOK, Request
<1>2. ASSUME responses # <<>>, NEW first, first = ResponseBytes(n, Head(responses)),
             NEW rest, rest = Stream(n, Tail(responses))
      PROVE  /\ receivePacket(first \o rest) = [packet |-> first, rest |-> rest]
             /\ receivePacket(SubSeq(first, 1, Len(first) - 1)).packet = NoPacket
             /\ messageIsSearchResultDone(first) <=> IsDone(Head(responses))
             /\ responseIndicatesSuccess(first) <=> Head(responses).ok
  <2> DEFINE m == Head(responses)
  <2>1. m \in Response /\ Tail(responses) \in Seq(Response) /\ m \in ToSet(responses)
    BY <1>1, <1>2, TailSet
  <2>2. Valid(m)
    BY <2>1 DEF MessageInv, Answers, Sound
  <2>3. rest \in Seq(Octet)
    BY <1>2, <2>1, StreamIs
  <2>4. first = ResponseBytes(n, m)
    BY <1>2
  <2> HIDE DEF m
  <2>5. /\ receivePacket(first \o rest) = [packet |-> first, rest |-> rest]
        /\ receivePacket(SubSeq(first, 1, Len(first) - 1)).packet = NoPacket
    BY <2>1, <2>3, <2>4, AnswerReceived
  <2>6. messageIsSearchResultDone(first) <=> IsDone(m)
    BY <2>1, <2>4, DoneIsSeen
  <2>7. responseIndicatesSuccess(first) <=> m.ok
    BY <2>1, <2>2, <2>4, SuccessIsSeen
  <2> QED BY <2>5, <2>6, <2>7 DEF m
<1>3. Collectable(combined, command.id)
  <2>1. \A i \in 1 .. Len(combined) : combined[i] \in ToSet(combined)
    BY <1>1, LenProperties DEF ToSet
  <2> QED BY <1>1, <2>1 DEF MessageInv, Answers, Sound, Collectable
<1>4. ASSUME NEW all, all = Stream(n, combined)
      PROVE  /\ extractPlanesFromPacket(all) =
                  [ok |-> TRUE, planes |-> [i \in DOMAIN ExtractPlanes(combined) |->
                                              PlaneBytes(ExtractPlanes(combined)[i])]]
             /\ parseSearchResultForDescription(all) =
                  FlattenSeq([i \in DOMAIN Description(combined) |->
                                Bytes(Description(combined)[i], command.id)])
  <2> DEFINE s == Shown(ExtractPlanes(combined), command.id)
  <2>1. extractPlanesFromPacket(all) = [ok |-> TRUE, planes |-> s]
    BY <1>3, <1>4, AllRead
  <2>2. s = [i \in DOMAIN ExtractPlanes(combined) |-> PlaneBytes(ExtractPlanes(combined)[i])]
    BY DEF Shown, TextsOf, PlaneBytes
  <2>3. FirstSpeed[[ok |-> TRUE, planes |-> s]] =
          FlattenSeq([i \in DOMAIN Description(combined) |->
                        Bytes(Description(combined)[i], command.id)])
    BY <1>3, SpeedRead
  <2>4. parseSearchResultForDescription(all) = FirstSpeed[extractPlanesFromPacket(all)]
    BY DEF parseSearchResultForDescription
  <2> QED BY <2>1, <2>2, <2>3, <2>4
<1> QED BY <1>2, <1>4

\* Whatever form the server gives its lengths, the client takes every answer whole, knows the
\* end of a search and a success, and reads the planes and the speed that the server wrote,
\* for any names, speeds and lengths.
THEOREM ResponsesAreUnderstood == Spec => []ResponsesAreRead
<1> QED BY SoundIsRead, Invariance, AnswersAreSound, PTL
=============================================================================
