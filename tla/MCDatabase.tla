----------------------------- MODULE MCDatabase -----------------------------
(***************************************************************************)
(* Instances of Database for TLC.  "Jo" occurs in "Joann" and, in one      *)
(* booking, in the location, so that keywords match bookings of another    *)
(* contactee and only some of the bookings that share a key.               *)
(***************************************************************************)
EXTENDS DatabaseFile

Apt(d, t, c, l) ==
  [date |-> d, time |-> t, contactee |-> c, location |-> l, description |-> ""]

MCText == {"", "1/1", "2/1", "9:00", "Jo", "Joann"}
MCSlashed == {"1/1", "2/1"}
MCSubstr == {<<t, t>> : t \in MCText} \cup {<<"", t>> : t \in MCText} \cup {<<"Jo", "Joann">>}

\* Two bookings with one key, of which a search for Jo finds one; one of
\* Joann, which that search finds too; one of another date.
MCBookings == {Apt("1/1", "9:00", "", ""), Apt("1/1", "9:00", "", "Jo"),
               Apt("1/1", "9:00", "Joann", ""), Apt("2/1", "9:00", "Jo", "")}

MCCharacters ==
  {"<", ">", "D", "T", "C", "L", "E", "S", "I", "M", "G", "\n", "x", "a", "b", "c"}

\* Texts with tags of every length, parts of tags, and line ends.
MCFieldTexts ==
  {<<>>, <<"<">>, <<"D", ">">>, Tags[1], <<"a">> \o Tags[2] \o <<"b">>, Tags[5] \o <<"c">>,
   Tags[6], LineEnd, <<"a">> \o LineEnd \o <<"b">>}
=============================================================================
