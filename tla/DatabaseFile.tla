---------------------------- MODULE DatabaseFile ----------------------------
(***************************************************************************)
(* The database with the text of its file: Database has the file as lines, *)
(* RecordFormat as characters.                                             *)
(***************************************************************************)
EXTENDS Database, RecordFormat

\* A process that starts loads what an earlier one wrote, or wrote a part of: the texts
\* of the file behave as RecordFormat says whenever they are read back.
FileIsLoadable == pc = "loading" => FileIsReadBack
=============================================================================
