------------------------------ MODULE LdapWire ------------------------------
(***************************************************************************)
(* The messages of LdapClient as the bytes of Ber: in every state the      *)
(* request on its way is one the server can read, and the answers on their *)
(* way are read by the client as LdapClient says.  A message with id k     *)
(* holds texts of Lengths[k] bytes, so that a run meets many lengths.      *)
(***************************************************************************)
EXTENDS LdapClient, Ber

CONSTANTS
  Code,      \* the byte that the text of a plane or a speed is made of
  Lengths,   \* bound: the length of the texts in the messages with each id; two
             \* names and a speed fit an add whose lengths take two bytes
  Forms      \* bound: in how many bytes the server writes a length, 0 for the fewest

ASSUME WireAssumption ==
  /\ Code \in [Planes \cup Speeds -> 1 .. 255]
  /\ Lengths \in [Ids -> Nat] /\ \A id \in Ids : Lengths[id] > 0 /\ Lengths[id] <= 20000
  /\ Forms \subseteq {0} \cup 2 .. 8 /\ Byte <= 256

Bytes(text, id) == IF text = Empty THEN <<>> ELSE [i \in 1 .. Lengths[id] |-> Code[text]]

-----------------------------------------------------------------------------
adminDN  == Octets(27)
password == Octets(4)

RequestBytes(c) ==
  LET name  == Bytes(c.name, c.id)
      speed == Bytes(c.speed, c.id)
  IN  CASE c.op = "bind"   -> simpleBind(c.id, adminDN, password)
        [] c.op = "search" -> buildSearchRequest(c.id, name)
        [] c.op = "list"   -> getAllPlanes(c.id)
        [] c.op = "add"    -> addPlane(c.id, name, speed)
        [] c.op = "delete" -> deletePlane(c.id, name)

Leaf(tag, value) == [tag |-> tag, value |-> value]
StrLeaf(value)   == Leaf(4, value)
IntLeaf(n)       == Leaf(2, <<n>>)

\* A request as the standard has it: the values of its elements, from left to right.
RequestLeaves(c) ==
  LET name   == Bytes(c.name, c.id)
      speed  == Bytes(c.speed, c.id)
      search == <<StrLeaf(baseDN), Leaf(10, <<2>>), Leaf(10, <<0>>), IntLeaf(0), IntLeaf(0),
                  Leaf(1, <<0>>)>>
  IN  <<IntLeaf(c.id)>> \o
        CASE c.op = "bind"   -> <<IntLeaf(3), StrLeaf(adminDN), Leaf(128, password)>>
          [] c.op = "search" -> search \o <<StrLeaf(cn), StrLeaf(name), StrLeaf(description)>>
          [] c.op = "list"   ->
               search \o <<Leaf(135, Octets(11)), StrLeaf(cn), StrLeaf(description)>>
          [] c.op = "add"    ->
               <<StrLeaf(dn(name)), StrLeaf(Octets(11)), StrLeaf(Octets(3)), StrLeaf(Octets(6)),
                 StrLeaf(cn), StrLeaf(name), StrLeaf(description), StrLeaf(speed)>>
          [] c.op = "delete" -> <<Leaf(74, dn(name))>>

\* The request on its way is one message in which every element is filled by what it
\* contains, with the id, the names and the values where the standard has them, however
\* long they are.
RequestIsWellFormed == sent => LeavesOf[RequestBytes(command)] = RequestLeaves(command)

-----------------------------------------------------------------------------
\* An answer as the server writes it, with lengths of form n.
AttributeBytes(n, type, value) ==
  IF value = <<>> THEN <<>>
  ELSE Standard(n, 48, Standard(n, 4, type) \o Standard(n, 49, Standard(n, 4, value)))

ResultTag == [bind |-> 97, add |-> 105, delete |-> 107, done |-> 101, notice |-> 120]

ResponseBytes(n, m) ==
  LET attributes == AttributeBytes(n, description, Bytes(m.speed, m.id))
                      \o AttributeBytes(n, cn, Bytes(m.name, m.id))
      result == <<10, 1, IF m.ok THEN 0 ELSE 2>> \o Standard(n, 4, <<>>) \o Standard(n, 4, Octets(9))
  IN  Standard(n, 48, Standard(n, 2, <<m.id>>) \o
        IF m.op = "entry"
        THEN Standard(n, 100, Standard(n, 4, baseDN) \o Standard(n, 48, attributes))
        ELSE Standard(n, ResultTag[m.op], result))

PlaneBytes(p) == [name |-> Bytes(p.name, command.id), speed |-> Bytes(p.speed, command.id)]

Stream(n, ms) == FlattenSeq([i \in DOMAIN ms |-> ResponseBytes(n, ms[i])])

\* Whatever form the server gives its lengths, receivePacket cuts the stream where the
\* answers end and takes nothing for a packet that was cut off; the end of a search and a
\* success are seen in the answers that say so and in no other; and the planes and the
\* speed read from the collected answers are those the server put in.
ResponsesAreRead ==
  \A n \in Forms :
    /\ responses # <<>> =>
         \A first \in {ResponseBytes(n, Head(responses))}, rest \in {Stream(n, Tail(responses))} :
           /\ receivePacket(first \o rest) = [packet |-> first, rest |-> rest]
           /\ receivePacket(SubSeq(first, 1, Len(first) - 1)).packet = NoPacket
           /\ messageIsSearchResultDone(first) <=> IsDone(Head(responses))
           /\ responseIndicatesSuccess(first) <=> Head(responses).ok
    /\ combined # <<>> =>
         \A all \in {Stream(n, combined)} :
           /\ extractPlanesFromPacket(all) =
                [ok |-> TRUE, planes |-> [i \in DOMAIN ExtractPlanes(combined) |->
                                            PlaneBytes(ExtractPlanes(combined)[i])]]
           /\ parseSearchResultForDescription(all) =
                FlattenSeq([i \in DOMAIN Description(combined) |->
                              Bytes(Description(combined)[i], command.id)])
=============================================================================
