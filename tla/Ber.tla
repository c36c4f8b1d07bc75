-------------------------------- MODULE Ber --------------------------------
(***************************************************************************)
(* The bytes of the LDAP client (Prac5): what it writes for a request, how *)
(* it cuts the stream from the server into packets, and what it reads out  *)
(* of them.  Positions count from 1, so position Len + 1 is the end.       *)
(***************************************************************************)
EXTENDS Integers, Sequences, FiniteSets, SequencesExt

Octets(n) == [i \in 1 .. n |-> 65]

cn          == <<99, 110>>
description == <<100, 101, 115, 99, 114, 105, 112, 116, 105, 111, 110>>
baseDN      == Octets(28)

-----------------------------------------------------------------------------
\* Writing.

\* A mutant of appendLength: the short form one too far.
LengthTo128(len) ==
  IF len <= 128 THEN <<len>>
  ELSE IF len <= 255 THEN <<129, len>> ELSE <<130, (len \div 256) % 256, len % 256>>

appendLength(len) ==
  IF len < 128 THEN <<len>>
  ELSE IF len <= 255 THEN <<129, len>> ELSE <<130, (len \div 256) % 256, len % 256>>

appendInteger(value) == <<2, 1, value % 256>>

appendSequence(tag, content) == <<tag>> \o appendLength(Len(content)) \o content

appendOctetString(value) == appendSequence(4, value)

Message(id, tag, content) ==
  appendSequence(48, appendInteger(id) \o appendSequence(tag, content))

simpleBind(id, dn, password) ==
  Message(id, 96, appendInteger(3) \o appendOctetString(dn) \o appendSequence(128, password))

SearchContent(filter, attributes) ==
  appendOctetString(baseDN) \o <<10, 1, 2>> \o <<10, 1, 0>> \o appendInteger(0)
    \o appendInteger(0) \o <<1, 1, 0>> \o filter \o appendSequence(48, attributes)

buildSearchRequest(id, planeName) ==
  Message(id, 99,
    SearchContent(appendSequence(163, appendOctetString(cn) \o appendOctetString(planeName)),
                  appendOctetString(description)))

getAllPlanes(id) ==
  Message(id, 99,
    SearchContent(appendSequence(135, Octets(11)),
                  appendOctetString(cn) \o appendOctetString(description)))

Attribute(type, values) ==
  appendSequence(48, appendOctetString(type) \o appendSequence(49, values))

dn(planeName) == cn \o <<61>> \o planeName \o <<44>> \o baseDN

addPlane(id, planeName, speed) ==
  Message(id, 104,
    appendOctetString(dn(planeName))
      \o appendSequence(48,
           Attribute(Octets(11), appendOctetString(Octets(3)) \o appendOctetString(Octets(6)))
             \o Attribute(cn, appendOctetString(planeName))
             \o Attribute(description, appendOctetString(speed))))

deletePlane(id, planeName) == Message(id, 74, dn(planeName))

-----------------------------------------------------------------------------
\* Reading.

\* The bytes of a length, most significant first.
Unsigned(bytes) ==
  LET value[n \in 0 .. Len(bytes)] == IF n = 0 THEN 0 ELSE 256 * value[n - 1] + bytes[n]
  IN  value[Len(bytes)]

NoPacket == <<>>

\* A mutant of receivePacket: what has come of the content is taken for all of it.
receiveOnce(stream) ==
  LET long == Len(stream) >= 2 /\ stream[2] >= 128
      header == IF long THEN 2 + stream[2] - 128 ELSE 2
      contentLength == IF long THEN Unsigned(SubSeq(stream, 3, header)) ELSE stream[2]
      end == IF header + contentLength < Len(stream) THEN header + contentLength ELSE Len(stream)
  IN  IF Len(stream) < 2 \/ Len(stream) < header THEN [packet |-> NoPacket, rest |-> <<>>]
      ELSE [packet |-> SubSeq(stream, 1, end), rest |-> SubSeq(stream, end + 1, Len(stream))]

\* receivePacket from the bytes the server sent before it closed: the packet, or none if
\* it is not all there, and what is left.
receivePacket(stream) ==
  LET long == Len(stream) >= 2 /\ stream[2] >= 128
      numLenBytes == IF long THEN stream[2] - 128 ELSE 0
      header == 2 + numLenBytes
      contentLength == IF long THEN Unsigned(SubSeq(stream, 3, header)) ELSE stream[2]
  IN  IF Len(stream) < 2 \/ (long /\ numLenBytes = 0) \/ Len(stream) < header
           \/ Len(stream) < header + contentLength
      THEN [packet |-> NoPacket, rest |-> <<>>]
      ELSE [packet |-> SubSeq(stream, 1, header + contentLength),
            rest   |-> SubSeq(stream, header + contentLength + 1, Len(stream))]

\* responseIndicatesSuccess
responseIndicatesSuccess(response) ==
  \E i \in 1 .. Len(response) - 2 : SubSeq(response, i, i + 2) = <<10, 1, 0>>

\* readBERLength at pos: whether there is a length, the length, the position after it.
readBERLength(data, pos) ==
  LET numBytes == data[pos] - 128
      bad == [ok |-> FALSE, len |-> 0, pos |-> pos]
  IN  IF pos > Len(data) THEN bad
      ELSE IF data[pos] < 128 THEN [ok |-> TRUE, len |-> data[pos], pos |-> pos + 1]
      ELSE IF numBytes = 0 \/ numBytes > 8 \/ pos + numBytes > Len(data) THEN bad
      ELSE [ok |-> TRUE, len |-> Unsigned(SubSeq(data, pos + 1, pos + numBytes)),
            pos |-> pos + 1 + numBytes]

\* Where an element is: its content is from .. to - 1, and what encloses it ends at end - 1.
\* "other" is one with another tag, or none, and "bad" one whose length cannot be read or
\* passes end.
Span == [is : {"ok", "other", "bad"}, from : Nat, to : Nat, end : Nat]

Element(data, pos, end, tag) ==
  IF pos >= end \/ data[pos] # tag THEN [is |-> "other", from |-> pos, to |-> pos, end |-> end]
  ELSE LET l == readBERLength(data, pos + 1)
       IN  [is |-> IF l.ok /\ l.pos + l.len <= end THEN "ok" ELSE "bad",
            from |-> l.pos, to |-> l.pos + l.len, end |-> end]

\* From an element to the first one in it, and to the one after it; whatever is not there,
\* or bad, is so for those reached from it.
Into(data, tag) == [e \in Span |-> IF e.is = "ok" THEN Element(data, e.from, e.to, tag) ELSE e]
Past(data, tag) == [e \in Span |-> IF e.is = "ok" THEN Element(data, e.to, e.end, tag) ELSE e]

Packet(data) == [is |-> "ok", from |-> 1, to |-> Len(data) + 1, end |-> Len(data) + 1]

messageIsSearchResultDone(packet) ==
  LET id == Into(packet, 2)[Into(packet, 48)[Packet(packet)]]
  IN  id.is = "ok" /\ id.to < Len(packet) + 1 /\ packet[id.to] = 101

\* The elements with this tag that stand one after the other in e; a bad one is the last.
Elements(data, tag) ==
  [e \in Span |->
     LET at[pos \in Nat] == LET next == Element(data, pos, e.to, tag)
                            IN  IF next.is = "other" THEN <<>>
                                ELSE <<next>> \o IF next.is = "ok" THEN at[next.to] ELSE <<>>
     IN  CASE e.is = "ok" -> at[e.from] [] e.is = "bad" -> <<e>> [] e.is = "other" -> <<>>]

Content(data, e) == SubSeq(data, e.from, e.to - 1)

NoneBad(spans) == \A i \in DOMAIN spans : spans[i].is # "bad"

\* One attribute: its type and its values; none if it has another form.
ReadAttribute(data, e) ==
  LET type   == Into(data, 4)[e]
      values == Elements(data, 4)[Past(data, 49)[type]]
  IN  [is     |-> IF NoneBad(values) THEN "ok" ELSE "bad",
       type   |-> Content(data, type),
       values |-> [i \in DOMAIN values |-> Content(data, values[i])]]

ReadAttributes(data) ==
  [list \in Seq(Span) |-> [i \in DOMAIN list |-> ReadAttribute(data, list[i])]]

\* The last value of the last attribute of this type; none when there is no such value.
LastValue(attrs, type) ==
  LET values == FlattenSeq([i \in DOMAIN attrs |->
                              IF attrs[i].type = type THEN attrs[i].values ELSE <<>>])
  IN  IF values = <<>> THEN <<>> ELSE <<Last(values)>>

Texts      == Seq(0 .. 255)
Attributes == [is : {"ok", "bad"}, type : Texts, values : Seq(Texts)]
PlaneTexts == Seq([name : Texts, speed : Texts])

\* What the attributes of an entry add to planes, or "bad" when the function returns false.
PlaneOf ==
  [attrs \in Seq(Attributes) |->
     LET name  == LastValue(attrs, cn)
         speed == LastValue(attrs, description)
     IN  [is     |-> IF NoneBad(attrs) THEN "ok" ELSE "bad",
          planes |-> IF name = <<>> /\ speed = <<>> THEN <<>>
                     ELSE <<[name |-> FlattenSeq(name), speed |-> FlattenSeq(speed)]>>]]

\* One LDAP message: the attributes are in the entry, after its name, and the entry is
\* after the id.
ReadMessage(data, msg) ==
  PlaneOf[ReadAttributes(data)[Elements(data, 48)[
    Past(data, 48)[Into(data, 4)[Past(data, 100)[Into(data, 2)[msg]]]]]]]

\* The messages of a response; bytes that begin none are skipped one by one.
Messages(data) ==
  LET end == Len(data) + 1
      at[pos \in Nat] == LET msg == Element(data, pos, end, 48)
                         IN  IF pos >= end THEN <<>>
                             ELSE IF msg.is = "other" THEN at[pos + 1]
                             ELSE <<msg>> \o IF msg.is = "ok" THEN at[msg.to] ELSE <<>>
  IN  at[1]

ReadMessages(data) ==
  [msgs \in Seq(Span) |-> [i \in DOMAIN msgs |-> ReadMessage(data, msgs[i])]]

\* The planes before a bad message stay.
Collected ==
  [read \in Seq([is : {"ok", "bad"}, planes : PlaneTexts]) |->
     LET good == {i \in DOMAIN read : NoneBad(SubSeq(read, 1, i))}
     IN  [ok     |-> NoneBad(read),
          planes |-> FlattenSeq([i \in 1 .. Cardinality(good) |-> read[i].planes])]]

extractPlanesFromPacket(data) == Collected[ReadMessages(data)[Messages(data)]]

\* parseSearchResultForDescription: the first speed, or none.
FirstSpeed ==
  [r \in [ok : BOOLEAN, planes : PlaneTexts] |->
     LET found == {i \in DOMAIN r.planes : r.planes[i].speed # <<>>}
     IN  IF r.ok /\ found # {} THEN r.planes[CHOOSE i \in found : \A j \in found : i <= j].speed
         ELSE <<>>]

parseSearchResultForDescription(data) == FirstSpeed[extractPlanesFromPacket(data)]
-----------------------------------------------------------------------------
\* The other end: BER as X.690 has it.

\* A length below 65536 in n bytes, or in as few as possible when n is 0.
StandardLength(len, n) ==
  LET k == IF n # 0 THEN n ELSE IF len < 256 THEN 1 ELSE 2
      digits == [i \in 1 .. k |-> IF i = k THEN len % 256
                                  ELSE IF i = k - 1 THEN len \div 256 ELSE 0]
  IN  IF n = 0 /\ len < 128 THEN <<len>> ELSE <<128 + k>> \o digits

Standard(n, tag, content) == <<tag>> \o StandardLength(Len(content), n) \o content

\* The primitive elements in data, in order, if every element is filled by what it
\* contains; <<0>> where it is not.
Constructed(tag) == (tag \div 32) % 2 = 1

LeavesOf[data \in Seq(0 .. 255)] ==
  IF data = <<>> THEN <<>>
  ELSE LET e == Element(data, 1, Len(data) + 1, data[1])
       IN  IF e.is # "ok" THEN <<0>>
           ELSE (IF Constructed(data[1]) THEN LeavesOf[Content(data, e)]
                 ELSE <<[tag |-> data[1], value |-> Content(data, e)]>>)
                  \o LeavesOf[SubSeq(data, e.to, Len(data))]
=============================================================================
