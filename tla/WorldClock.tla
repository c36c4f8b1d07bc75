----------------------------- MODULE WorldClock -----------------------------
(***************************************************************************)
(* The world clock (Prac3): every browser sees, and changes, one selection *)
(* of cities.  A request is handled in a thread of its own under           *)
(* page_mutex.  The server looks for its commands in the whole text of a   *)
(* request, so also in the Referer, the address of the page in which a     *)
(* link was followed; of the other headers none matters.  Browsers are the *)
(* environment: they follow redirects with the Referer they had, and load  *)
(* a page again every second, as it asks.                                  *)
(***************************************************************************)
EXTENDS Integers, FiniteSets

CONSTANTS
  Browsers,
  Cities,
  Johannesburg,
  NoCity,        \* a name that is not one of a city
  None,          \* no address, no page, no thread
  MaxRedirects   \* bound: the redirects a browser follows, 20 or so

ASSUME ClockAssumption ==
  /\ Johannesburg \in Cities /\ NoCity \notin Cities
  /\ None \notin Browsers /\ MaxRedirects \in Nat

VARIABLES
  selected,  \* the cities whose citySelected is true
  html,      \* the page as last generated: its kind, and the selection it shows
  lock,      \* the thread that holds page_mutex
  pending,   \* the request of each browser that is not answered
  shown,     \* what each browser shows, and the address it shows for it
  asked      \* history: the city command each user typed or clicked last, until it is carried out

vars == <<selected, html, lock, pending, shown, asked>>

Address == [path : {"/", "/Reset", "/favicon.ico", "files/", "other"}, city : {NoCity}]
             \cup [path : {"/Select/", "/Deselect/"}, city : Cities \cup {NoCity}]
Root    == [path |-> "/", city |-> NoCity]
Reset   == [path |-> "/Reset", city |-> NoCity]

\* refreshes is the page that is loaded again, if that is what the request is for.
Request == [address : Address, referer : Address \cup {None}, redirects : 0 .. MaxRedirects,
            refreshes : {"page", "error", "text", "none"}]
Html    == [kind : {"page", "error", "text"}, cities : SUBSET Cities]
Shown   == [address : Address, html : Html]

ASSUME NoneAssumption == None \notin Address \cup Request \cup Shown

TypeOK ==
  /\ selected \subseteq Cities /\ Johannesburg \in selected
  /\ html \in Html /\ lock \in Browsers \cup {None}
  /\ pending \in [Browsers -> Request \cup {None}]
  /\ shown \in [Browsers -> Shown \cup {None}]
  /\ asked \in [Browsers -> Address \cup {None}]

Init ==
  /\ selected = {Johannesburg} /\ lock = None
  /\ html = [kind |-> "text", cities |-> {}]
  /\ pending = [b \in Browsers |-> None] /\ shown = [b \in Browsers |-> None]
  /\ asked = [b \in Browsers |-> None]

-----------------------------------------------------------------------------
\* Page.

\* A mutant of deselectCity: Johannesburg is a city like the others.
deselectAny(cities, city) == cities \ {city}

selectCity(cities, city)   == cities \cup {city}
deselectCity(cities, city) == IF city = Johannesburg THEN cities ELSE cities \ {city}
resetSelected              == {Johannesburg}

\* generateGeneric; an error is a paragraph appended to it.
generateGeneric(kind, cities) == [kind |-> kind, cities |-> cities]

\* clearPage, and a paragraph appended: a page without links.
clearPage == [kind |-> "text", cities |-> {}]

\* The links of a page.
Links(page) ==
  IF page.kind = "text" THEN {}
  ELSE {[path |-> IF c \in page.cities THEN "/Deselect/" ELSE "/Select/", city |-> c] : c \in Cities}
         \cup {Reset}
-----------------------------------------------------------------------------
\* process_request.

\* Whether the text of a request holds this path, and the name of the city after the first
\* of them: after one in the Referer stands the end of the line, which no name contains.
Holds(r, path)  == r.address.path = path \/ (r.referer # None /\ r.referer.path = path)
CityOf(r, path) == IF r.address.path = path THEN r.address.city ELSE NoCity

\* The branch a GET request takes.
Branch(r) ==
  CASE Holds(r, "/Select/")   -> IF CityOf(r, "/Select/") = NoCity THEN "error" ELSE "select"
    [] ~Holds(r, "/Select/") /\ Holds(r, "/Deselect/") ->
         IF CityOf(r, "/Deselect/") = NoCity THEN "error" ELSE "deselect"
    [] ~Holds(r, "/Select/") /\ ~Holds(r, "/Deselect/") /\ Holds(r, "/Reset") -> "reset"
    [] OTHER -> IF \/ r.address.path = "/favicon.ico"
                   \/ r.address = Root /\ ~Holds(r, "files/")
                THEN "page" ELSE "text"

\* A mutant of Redirects: the page itself is the answer to a command.
ShowsAtOnce(r) == FALSE

\* 302 Found, Location: /
Redirects(r) == Branch(r) \in {"select", "deselect", "reset"}

Selection(r) ==
  CASE Branch(r) = "select"   -> selectCity(selected, r.address.city)
    [] Branch(r) = "deselect" -> deselectCity(selected, r.address.city)
    [] Branch(r) = "reset"    -> resetSelected
    [] OTHER -> selected

Page(r) ==
  CASE Branch(r) \in {"text", "reset"} -> clearPage
    [] Branch(r) = "error" -> generateGeneric("error", selected)
    [] Redirects(r) /\ Branch(r) # "reset" -> html
    [] OTHER -> generateGeneric("page", Selection(r))

\* A thread takes page_mutex, changes the selection and makes the page ...
Process(b) ==
  /\ pending[b] # None /\ lock = None /\ lock' = b
  /\ selected' = Selection(pending[b]) /\ html' = Page(pending[b])
  /\ asked' = [asked EXCEPT ![b] = IF Redirects(pending[b]) THEN None ELSE @]
  /\ UNCHANGED <<pending, shown>>

\* A mutant of Unlocked: the early return of an error keeps the mutex.
KeptOnError(r) == IF Branch(r) = "error" THEN lock ELSE None

Unlocked(r) == None

\* ... and copies it into the response.  A browser that is redirected asks for the page, and
\* gives up after too many redirects.
Respond(b) ==
  /\ lock = b /\ pending[b] # None
  /\ LET r    == pending[b]
         next == [r EXCEPT !.address = Root, !.redirects = r.redirects + 1]
     IN  /\ lock' = Unlocked(r)
         /\ IF Redirects(r) /\ r.redirects < MaxRedirects
            THEN pending' = [pending EXCEPT ![b] = next] /\ UNCHANGED shown
            ELSE /\ pending' = [pending EXCEPT ![b] = None]
                 /\ shown' = [shown EXCEPT ![b] =
                               IF Redirects(r) THEN None ELSE [address |-> r.address, html |-> html]]
  /\ UNCHANGED <<selected, html, asked>>
-----------------------------------------------------------------------------
\* The browsers.

Ask(b, address, referer, refreshes) ==
  /\ pending[b] = None
  /\ pending' = [pending EXCEPT ![b] = [address |-> address, referer |-> referer, redirects |-> 0,
                                       refreshes |-> refreshes]]
  /\ UNCHANGED <<selected, html, lock, shown>>

\* The user asks; what an earlier request has not carried out is given up.
Want(b, address) == asked' = [asked EXCEPT ![b] = IF address.city = NoCity THEN None ELSE address]

\* An address is typed.
Type(b) == \E address \in Address : Ask(b, address, None, "none") /\ Want(b, address)

\* A link of the page is followed.
Click(b) ==
  /\ shown[b] # None
  /\ \E link \in Links(shown[b].html) : Ask(b, link, shown[b].address, "none") /\ Want(b, link)

\* http-equiv="refresh": some browsers send a Referer, some do not.
Refresh(b) ==
  /\ shown[b] # None
  /\ \E referer \in {None, shown[b].address} :
       Ask(b, shown[b].address, referer, shown[b].html.kind)
  /\ UNCHANGED asked

Next == \E b \in Browsers : Process(b) \/ Respond(b) \/ Type(b) \/ Click(b) \/ Refresh(b)

\* Handlers end, the mutex is given to each that waits in turn, and a page left alone is
\* loaded again.
Spec ==
  /\ Init /\ [][Next]_vars
  /\ \A b \in Browsers : SF_vars(Process(b)) /\ WF_vars(Respond(b)) /\ WF_vars(Refresh(b))
-----------------------------------------------------------------------------
\* Every page loads itself again each second, an error too, at the address it stands at.
\* However often that happens, a city is selected or deselected only as the user of that
\* browser asked, and once: an error page, which can stand at the address of the command that
\* its Referer kept from being carried out, does at its next reload what was clicked, and
\* the browser leaves the address.  The reload of any other page changes nothing.
RefreshRepeatsNothing ==
  [][\A b \in Browsers :
       lock # b /\ lock' = b =>
         /\ Branch(pending[b]) \in {"select", "deselect"} => asked[b] = pending[b].address
         /\ pending[b].refreshes \in {"page", "text"} => selected' = selected]_vars

\* The error that a followed link gets because of its Referer is gone by itself when the
\* browser comes to stand at "/": the page is loaded again there without that Referer.
ErrorClears ==
  \A b \in Browsers :
    LET standing == shown[b] # None /\ shown[b].address = Root /\ shown[b].html.kind = "error"
    IN  standing ~> ~standing
=============================================================================
