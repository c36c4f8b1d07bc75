---------------------------- MODULE MCWorldClock ----------------------------
(***************************************************************************)
(* Two browsers and two cities: the one that stays and one that comes and  *)
(* goes.                                                                   *)
(***************************************************************************)
EXTENDS WorldClock
=============================================================================
