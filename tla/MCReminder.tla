----------------------------- MODULE MCReminder -----------------------------
(***************************************************************************)
(* Two days, of which one is also written with its year, and two names.    *)
(***************************************************************************)
EXTENDS Reminder

MCText == {"", "20/04", "21/04", "20/04/2026", "Mom", "Dad"}
MCSlashed == {"20/04", "21/04", "20/04/2026"}
MCSubstr ==
  {<<t, t>> : t \in MCText} \cup {<<"", t>> : t \in MCText} \cup {<<"20/04", "20/04/2026">>}

\* Answers of the right code, of two wrong ones, one that is none, and no answer.
MCCodes == {220, 250, 252, 354, 221, 450, 550, 777, 999}
=============================================================================
