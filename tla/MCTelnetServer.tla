--------------------------- MODULE MCTelnetServer ---------------------------
(***************************************************************************)
(* Two users and two descriptor numbers, so that a number freed by one     *)
(* connection is the next one's; bookings of two dates.                     *)
(***************************************************************************)
EXTENDS TelnetServer

MCText == {"", "1/1", "2/1", "9:00", "Ann"}
MCSlashed == {"1/1", "2/1"}
MCSubstr == {<<t, t>> : t \in MCText} \cup {<<"", t>> : t \in MCText}
MCFds == {4, 5}
MCBookings ==
  {[date |-> d, time |-> "9:00", contactee |-> "Ann", location |-> "", description |-> ""] :
     d \in MCSlashed}
=============================================================================
