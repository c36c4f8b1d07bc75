---------------------------- MODULE MCLdapClient ----------------------------
(***************************************************************************)
(* Two planes and one speed.  The lengths make a field, an element or a    *)
(* whole request just fit, or just not fit, a length of one byte (127) and *)
(* of two (255).                                                           *)
(***************************************************************************)
EXTENDS LdapWire

MCCode == [t \in Planes \cup Speeds |-> IF t \in Speeds THEN 100 ELSE 48]
MCLengths == [id \in Ids |-> <<1, 50, 51, 96, 127, 128, 255, 300>>[id + 1]]
=============================================================================
