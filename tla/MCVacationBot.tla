--------------------------- MODULE MCVacationBot ---------------------------
(***************************************************************************)
(* Two mails about prac7, so that a handled one can stand before one that  *)
(* is not, two runs, and two seconds, so that a run can begin before, in   *)
(* and after the second of a mail.                                         *)
(***************************************************************************)
EXTENDS VacationBot
=============================================================================
