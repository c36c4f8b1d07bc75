------------------------------ MODULE ApptPage ------------------------------
(***************************************************************************)
(* The web appointment server with the rows of its page in their order:    *)
(* ApptServer has the page as a set of lines, PageOrder sorts them.        *)
(***************************************************************************)
EXTENDS ApptServer, PageOrder

\* While a handler fills the page it has found, under page_mutex, its rows are put in
\* order: both overloads of updateDays put them in the order of time when they have dates
\* and times and no date has two spellings, and the sort of a search is undefined exactly
\* when some number cannot be read or a date has two.
PageIsOrdered ==
  (\E c \in Clients : h[c].pc = "render") => RowsAreChronological
=============================================================================
