----------------------------- MODULE RequestForm -----------------------------
(***************************************************************************)
(* The bytes of a request to the web server (Prac4): what read_request     *)
(* makes of the pieces it comes in, how process_request tells what is      *)
(* asked, and what its two parsers of forms read, also when the client     *)
(* goes away before the end.  Beside them, the forms as a browser writes   *)
(* them.  ApptServer takes a request for the fields it asks with; this     *)
(* module says when that is right.                                         *)
(***************************************************************************)
EXTENDS StdString

CONSTANTS
  Nul,          \* the character that stands for the byte 0
  FieldValues,  \* bound: what is typed into a field of a form
  Boundary      \* of multipart forms: a text no field holds

CRLF      == "\r\n"
HeaderEnd == "\r\n\r\n"

\* text += piece, for each piece
Joined(pieces) ==
  LET text[n \in 0 .. Len(pieces)] == IF n = 0 THEN "" ELSE text[n - 1] \o pieces[n]
  IN  text[Len(pieces)]

-----------------------------------------------------------------------------
\* read_request.

\* request += buffer, a C string
CString(piece) == Slice(piece, 0, Find(piece, Nul, 0))

\* content_length - already
Remaining(head, contentLength) == contentLength - (Len(head) - (Find(head, HeaderEnd, 0) + 4))

\* The pieces that came before the client stopped or went away: the request, and whether
\* more is waited for.  A read of the body takes no more than remains.
read_request(pieces, contentLength) ==
  LET sofar(n)  == Joined([i \in 1 .. n |-> CString(pieces[i])])
      enough    == {n \in DOMAIN pieces : Has(sofar(n), HeaderEnd)}
      n         == IF enough = {} THEN Len(pieces) ELSE Lowest(enough)
      head      == sofar(n)
      left      == Joined(SubSeq(pieces, n + 1, Len(pieces)))
      remaining == Remaining(head, contentLength)
  IN  IF enough = {} THEN [request |-> head, waits |-> TRUE]
      ELSE IF remaining <= 0 THEN [request |-> head, waits |-> FALSE]
      ELSE [request |-> head \o Slice(left, 0, remaining), waits |-> remaining > Len(left)]

-----------------------------------------------------------------------------
\* The parsers.  A form is a sequence of [name, value]; of fields with one name the last
\* counts, and a field that is not there is empty.

\* The bytes a browser escapes, of those that are typed here.
EscapeOf == [c \in {"/", ":", "&", "=", "%", "+"} |->
               CASE c = "/" -> "2F" [] c = ":" -> "3A" [] c = "&" -> "26"
                 [] c = "=" -> "3D" [] c = "%" -> "25" [] c = "+" -> "2B"]

Char(text, i) == Slice(text, i, i + 1)

\* url_decode, of what a browser escaped: a "%" near the end is dropped.
url_decode(s) ==
  LET from[i \in Nat] ==
        CASE i >= Len(s) -> ""
          [] i < Len(s) /\ Char(s, i) = "%" ->
               IF i + 2 < Len(s)
               THEN (CHOOSE c \in DOMAIN EscapeOf : EscapeOf[c] = Slice(s, i + 1, i + 3)) \o from[i + 3]
               ELSE from[i + 1]
          [] i < Len(s) /\ Char(s, i) = "+" -> " " \o from[i + 1]
          [] OTHER -> Char(s, i) \o from[i + 1]
  IN  from[0]

parse_urlencoded(body) ==
  LET from[i \in Nat] ==
        LET amp  == Find(body, "&", i)
            pair == Slice(body, i, amp)
            eq   == Find(pair, "=", 0)
            read == [name  |-> url_decode(Slice(pair, 0, eq)),
                     value |-> IF eq = Npos THEN "" ELSE url_decode(Slice(pair, eq + 1, Npos))]
        IN  IF i >= Len(body) THEN <<>>
            ELSE <<read>> \o IF amp = Npos THEN <<>> ELSE from[amp + 1]
  IN  from[0]

\* What stands in quotes after key in the disposition of a part; nothing when it does not.
Quoted(head, key) ==
  LET at == IF Has(head, "Content-Disposition:") THEN Find(head, key, 0) ELSE Npos
      q1 == IF at = Npos THEN Npos ELSE Find(head, "\"", at)
      q2 == IF q1 = Npos THEN Npos ELSE Find(head, "\"", q1 + 1)
  IN  IF q2 = Npos THEN "" ELSE Slice(head, q1 + 1, q2)

WithoutCRLF(text) ==
  IF Len(text) >= 2 /\ Slice(text, Len(text) - 2, Npos) = CRLF THEN Slice(text, 0, Len(text) - 2) ELSE text

\* Of an upload the value is the path it is stored under.
Saved == "/uploads/img"

Part(part) ==
  LET h_end == Find(part, HeaderEnd, 0)
      head  == Slice(part, 0, h_end)
      name  == Quoted(head, "name=")
  IN  IF h_end = Npos THEN <<>>
      ELSE IF Quoted(head, "filename=") # "" THEN <<[name |-> name, value |-> Saved]>>
      ELSE IF name = "" THEN <<>>
      ELSE <<[name |-> name, value |-> WithoutCRLF(Slice(part, h_end + 4, Npos))]>>

\* A mutant of parse_multipart: the last part needs no boundary after it.
LastPartIsOpen(body) ==
  LET delim == "--" \o Boundary
      from[pos \in Nat] ==
        LET found == Find(body, delim, pos)
            start == found + Len(delim)
            inner == IF Slice(body, start, start + 2) = CRLF THEN start + 2 ELSE start
            part_end == Find(body, delim, inner)
        IN  IF found = Npos \/ Slice(body, start, start + 2) = "--" THEN <<>>
            ELSE Part(Slice(body, inner, part_end)) \o IF part_end = Npos THEN <<>> ELSE from[part_end]
  IN  from[0]

parse_multipart(body) ==
  LET delim == "--" \o Boundary
      from[pos \in Nat] ==
        LET found == Find(body, delim, pos)
            start == found + Len(delim)
            inner == IF Slice(body, start, start + 2) = CRLF THEN start + 2 ELSE start
            part_end == Find(body, delim, inner)
        IN  IF found = Npos \/ Slice(body, start, start + 2) = "--" \/ part_end = Npos THEN <<>>
            ELSE Part(Slice(body, inner, part_end)) \o from[part_end]
  IN  from[0]

ValueOf(fields, name) ==
  LET I == {i \in DOMAIN fields : fields[i].name = name}
  IN  IF I = {} THEN "" ELSE fields[CHOOSE i \in I : \A j \in I : j <= i].value
-----------------------------------------------------------------------------
\* process_request: what is asked.

DeleteFields == <<"date", "time", "contactee">>
AddFields    == <<"date", "time", "contactee", "location", "description">>

Fields(request) ==
  LET h_end   == Find(request, HeaderEnd, 0)
      headers == IF h_end = Npos THEN "" ELSE Slice(request, 0, h_end)
      body    == IF h_end = Npos THEN "" ELSE Slice(request, h_end + 4, Npos)
  IN  IF Has(headers, "multipart/form-data") THEN parse_multipart(body) ELSE parse_urlencoded(body)

Values(request, names) == [i \in DOMAIN names |-> ValueOf(Fields(request), names[i])]

\* The keyword of a path, up to an '&'.
Keyword(reqPath) ==
  LET at == Find(reqPath, "keyword=", 0)
  IN  IF at = Npos THEN "" ELSE url_decode(Slice(reqPath, at + 8, Find(reqPath, "&", at + 8)))

HomePage   == [op |-> "search", values |-> <<"">>]
BadRequest == [op |-> "bad", values |-> <<>>]

\* The words are looked for in the whole request, a field of the form included.
Understood(request) ==
  LET end     == Find(request, " ", 4)
      reqPath == IF end = Npos THEN "" ELSE Slice(request, 4, end)
      post    == Find(request, "POST ", 0) = 0
  IN  CASE Find(request, "GET ", 0) = 0 ->
             (IF Find(reqPath, "/searchAppointments", 0) = 0
              THEN [op |-> "search", values |-> <<Keyword(reqPath)>>]
              ELSE IF Find(request, "GET / HTTP/1.", 0) = 0 THEN HomePage ELSE BadRequest)
        [] post /\ Has(request, "/deleteAppointment") ->
             [op |-> "delete", values |-> Values(request, DeleteFields)]
        [] post /\ ~Has(request, "/deleteAppointment") /\ Has(request, "/addAppointment") ->
             [op |-> "add", values |-> Values(request, AddFields)]
        [] OTHER -> BadRequest
-----------------------------------------------------------------------------
\* The browser.

url_encode(value) ==
  Joined([i \in 1 .. Len(value) |->
    LET c == Char(value, i - 1)
    IN  IF c \in DOMAIN EscapeOf THEN "%" \o EscapeOf[c] ELSE IF c = " " THEN "+" ELSE c])

Urlencoded(names, values) ==
  Joined([i \in DOMAIN names |->
    (IF i = 1 THEN "" ELSE "&") \o names[i] \o "=" \o url_encode(values[i])])

FormPart(disposition, value) ==
  "--" \o Boundary \o CRLF \o "Content-Disposition: form-data; " \o disposition \o HeaderEnd
    \o value \o CRLF

\* The form of the page ends with a file, here none.
Multipart(names, values) ==
  Joined([i \in DOMAIN names |-> FormPart("name=\"" \o names[i] \o "\"", values[i])])
    \o FormPart("name=\"image\"; filename=\"\"", "") \o "--" \o Boundary \o "--" \o CRLF

\* The text of a request, up to its body and with it.
HeaderOf(r) ==
  CASE r.op = "search" ->
         "GET /searchAppointments?keyword=" \o url_encode(r.values[1]) \o " HTTP/1.1" \o HeaderEnd
    [] r.op = "delete" -> "POST /deleteAppointment HTTP/1.1" \o HeaderEnd
    [] r.op = "add"    -> "POST /addAppointment HTTP/1.1" \o CRLF
         \o "Content-Type: multipart/form-data; boundary=" \o Boundary \o HeaderEnd

BodyOf(r) ==
  CASE r.op = "search" -> ""
    [] r.op = "delete" -> Urlencoded(DeleteFields, r.values)
    [] r.op = "add"    -> Multipart(AddFields, r.values)

RequestText(r) == HeaderOf(r) \o BodyOf(r)

\* What a request is understood as when the client goes away after any of its bytes.
AsRead(r) ==
  {Understood(read_request(<<Prefix(RequestText(r), n)>>, Len(BodyOf(r))).request) :
     n \in 0 .. Len(RequestText(r))}

\* What url_decode makes of an escaped value that is cut: a beginning of it, to which the
\* first digit of the next escape may be added.
Cuts(value) ==
  {Prefix(value, n) : n \in 0 .. Len(value)}
    \cup {Prefix(value, n) \o Prefix(EscapeOf[Char(value, n)], 1) :
            n \in {m \in 0 .. Len(value) - 1 : Char(value, m) \in DOMAIN EscapeOf}}

-----------------------------------------------------------------------------
\* Two fields of a form are anything, the others are plain.
Forms(n) ==
  {[[k \in 1 .. n |-> "x"] EXCEPT ![i] = a, ![j] = b] : i, j \in 1 .. n, a, b \in FieldValues}

FormsAreReadBack ==
  /\ \A v \in Forms(Len(DeleteFields)) :
       Understood(RequestText([op |-> "delete", values |-> v])) = [op |-> "delete", values |-> v]
  /\ \A v \in Forms(1) :
       Understood(RequestText([op |-> "search", values |-> v])) = [op |-> "search", values |-> v]
  /\ \A v \in Forms(Len(AddFields)) :
       Understood(RequestText([op |-> "add", values |-> v])) =
         IF \E i \in DOMAIN v : Has(v[i], "/deleteAppointment")
         THEN [op |-> "delete", values |-> <<v[1], v[2], v[3]>>]
         ELSE [op |-> "add", values |-> v]

\* Bodies of at most three bytes, and any three pieces of what came of a request.
PiecesAreJoined ==
  \A n \in 0 .. 3 : \A bytes \in [1 .. n -> {"b", Nul}] :
    LET stream == "h" \o HeaderEnd \o Joined(bytes)
        header == Len(stream) - n
    IN  \A came \in 0 .. Len(stream), i, j \in 0 .. Len(stream) :
          i <= j /\ j <= came =>
            LET read  == read_request(<<Prefix(stream, i), Slice(stream, i, j), Slice(stream, j, came)>>, n)
                whole == {p \in {i, j, came} : p >= header}
            IN  IF whole # {} /\ Has(Prefix(stream, Lowest(whole)), Nul)
                THEN read.waits
                ELSE read = [request |-> Prefix(stream, came), waits |-> came < Len(stream)]

\* In whatever pieces a request comes, read_request returns its bytes, and waits exactly for
\* those that have not come; but after a zero byte in the piece that completes the header it
\* waits for bytes that came already.  What a browser writes into a form is what is read
\* from it, whatever is typed, except that an add with "/deleteAppointment" in a field is
\* taken for a delete.
RequestsAreRead == FormsAreReadBack /\ PiecesAreJoined
=============================================================================
