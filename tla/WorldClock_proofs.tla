-------------------------- MODULE WorldClock_proofs --------------------------
(***************************************************************************)
(* Whatever browsers ask for, the variables of the world clock keep their  *)
(* types, and the page a browser loads again every second never repeats a  *)
(* command: for any browsers, any cities and any number of redirects.      *)
(***************************************************************************)
EXTENDS WorldClock, TLAPS

-----------------------------------------------------------------------------
\* The addresses that hold no command.
Quiet == {a \in Address : a.path \notin {"/Select/", "/Deselect/", "/Reset"}}

\* What a browser shows or asks for again without an error stands at such an address.
\* While the mutex is held its holder has a request, and the page in html is the answer to it.
RefreshInv ==
  /\ \A b \in Browsers :
       shown[b] # None /\ shown[b].html.kind \in {"page", "text"} => shown[b].address \in Quiet
  /\ \A b \in Browsers :
       pending[b] # None /\ pending[b].refreshes \in {"page", "text"} =>
         /\ pending[b].address \in Quiet
         /\ pending[b].referer \in Quiet \cup {None}
  /\ \A b \in Browsers : lock = b => pending[b] # None
  /\ \A b \in Browsers :
       lock = b /\ ~Redirects(pending[b]) /\ html.kind \in {"page", "text"} =>
         pending[b].address \in Quiet

\* A command on a city that is on its way, or at whose address the browser stands, is the one
\* its user wants and has not got; once it is carried out, its sender is redirected.
AskedInv ==
  /\ \A b \in Browsers :
       pending[b] # None /\ pending[b].address.city # NoCity /\ (lock = b => ~Redirects(pending[b])) =>
         asked[b] = pending[b].address
  /\ \A b \in Browsers :
       shown[b] # None /\ pending[b] = None /\ shown[b].address.city # NoCity =>
         asked[b] = shown[b].address

ClockInv == TypeOK /\ RefreshInv /\ AskedInv

-----------------------------------------------------------------------------
LEMMA AddressTypes ==
  /\ Root \in Address /\ Reset \in Address /\ Root \in Quiet /\ Quiet \subseteq Address
  /\ \A a \in Address : a.city \in Cities \cup {NoCity}
  /\ Root.city = NoCity
BY DEF Root, Reset, Quiet, Address

LEMMA LinkTypes ==
  ASSUME NEW page \in Html
  PROVE  Links(page) \subseteq Address
BY AddressTypes DEF Links, Address, Html

\* Each request leaves a selection of cities with Johannesburg in it.
LEMMA SelectionType ==
  ASSUME TypeOK, NEW r \in Request
  PROVE  /\ Selection(r) \subseteq Cities
         /\ Johannesburg \in Selection(r)
         /\ Page(r) \in Html
<1>1. r.address.city \in Cities \cup {NoCity}
  BY AddressTypes DEF Request
<1>2. Branch(r) = "select" => r.address.city # NoCity
  BY DEF Branch, CityOf
<1>3. Selection(r) \subseteq Cities /\ Johannesburg \in Selection(r)
  <2>1. CASE Branch(r) = "select"
    BY <1>1, <1>2, <2>1 DEF Selection, selectCity, TypeOK
  <2>2. CASE Branch(r) = "deselect"
    BY <2>2 DEF Selection, deselectCity, TypeOK
  <2>3. CASE Branch(r) = "reset"
    BY <2>3, ClockAssumption DEF Selection, resetSelected
  <2>4. CASE Branch(r) \notin {"select", "deselect", "reset"}
    BY <2>4 DEF Selection, TypeOK
  <2> QED BY <2>1, <2>2, <2>3, <2>4
<1>4. Page(r) \in Html
  BY <1>3 DEF Page, clearPage, generateGeneric, Html, TypeOK
<1> QED BY <1>3, <1>4

\* A request for such an address, sent from no page or from such a page, is no command.
LEMMA QuietIsNoCommand ==
  ASSUME NEW r \in Request, r.address \in Quiet, r.referer \in Quiet \cup {None}
  PROVE  Branch(r) \notin {"select", "deselect", "reset"}
<1>1. \A p \in {"/Select/", "/Deselect/", "/Reset"} : ~Holds(r, p)
  BY DEF Holds, Quiet
<1> QED BY <1>1 DEF Branch

\* Only at those addresses is the answer a page without an error.
LEMMA AnswerIsQuiet ==
  ASSUME NEW r \in Request, ~Redirects(r), Page(r).kind \in {"page", "text"}
  PROVE  r.address \in Quiet
<1>1. Branch(r) \in {"page", "text"}
  BY DEF Page, Redirects, clearPage, generateGeneric, Branch
<1>2. \A p \in {"/Select/", "/Deselect/", "/Reset"} : ~Holds(r, p)
  BY <1>1 DEF Branch
<1> QED BY <1>2 DEF Quiet, Request, Holds

\* A city command names the city at its own address.
LEMMA CommandIsAddressed ==
  ASSUME NEW r \in Request, Branch(r) \in {"select", "deselect"}
  PROVE  r.address.city # NoCity
BY DEF Branch, CityOf

-----------------------------------------------------------------------------
LEMMA InitInv == Init => ClockInv
BY ClockAssumption DEF Init, ClockInv, TypeOK, RefreshInv, AskedInv, Html, Shown, Request

\* What a step leaves alone is as it was for every browser but the one that acts.
LEMMA AskInv ==
  ASSUME ClockInv, NEW b \in Browsers, NEW address \in Address,
         NEW referer \in Address \cup {None}, NEW refreshes \in {"page", "error", "text", "none"},
         refreshes \in {"page", "text"} => address \in Quiet /\ referer \in Quiet \cup {None},
         NEW want \in Address \cup {None}, asked' = [asked EXCEPT ![b] = want],
         address.city # NoCity => want = address,
         Ask(b, address, referer, refreshes)
  PROVE  ClockInv'
<1> DEFINE r == [address |-> address, referer |-> referer, redirects |-> 0,
                 refreshes |-> refreshes]
<1>1. /\ r \in Request /\ r # None
      /\ r.address = address /\ r.referer = referer /\ r.refreshes = refreshes
  <2>1. 0 \in 0 .. MaxRedirects
    BY ClockAssumption
  <2>2. r \in Request
    BY <2>1 DEF Request
  <2> QED BY <2>2, NoneAssumption
<1>2. /\ pending' = [pending EXCEPT ![b] = r]
      /\ pending[b] = None
      /\ UNCHANGED <<selected, html, lock, shown>>
  BY DEF Ask
<1> HIDE DEF r
<1>3. TypeOK'
  BY <1>1, <1>2 DEF ClockInv, TypeOK
<1>4. RefreshInv'
  BY <1>1, <1>2 DEF ClockInv, TypeOK, RefreshInv
<1>5. AskedInv'
  BY <1>1, <1>2 DEF ClockInv, TypeOK, RefreshInv, AskedInv
<1> QED BY <1>3, <1>4, <1>5 DEF ClockInv

LEMMA NextInv == ClockInv /\ [Next]_vars => ClockInv'
<1> SUFFICES ASSUME ClockInv, [Next]_vars PROVE ClockInv'
  OBVIOUS
<1>1. ASSUME NEW b \in Browsers, Process(b)
      PROVE  ClockInv'
  <2> DEFINE r == pending[b]
  <2>1. /\ r \in Request /\ r # None
        /\ lock' = b /\ selected' = Selection(r) /\ html' = Page(r)
        /\ asked' = [asked EXCEPT ![b] = IF Redirects(r) THEN None ELSE @]
        /\ lock = None
        /\ UNCHANGED <<pending, shown>>
    BY <1>1 DEF Process, ClockInv, TypeOK
  <2>2. TypeOK'
    BY <2>1, SelectionType DEF ClockInv, TypeOK
  <2>3. ~Redirects(r) /\ html'.kind \in {"page", "text"} => r.address \in Quiet
    BY <2>1, AnswerIsQuiet
  <2>4. RefreshInv'
    BY <2>1, <2>3 DEF ClockInv, RefreshInv, Redirects, Branch, Holds, CityOf
  <2>5. AskedInv'
    <3>1. \A a \in Browsers : Redirects(pending[a])' <=> Redirects(pending[a])
      BY <2>1 DEF Redirects, Branch, Holds, CityOf
    <3> QED BY <2>1, <3>1, ClockAssumption DEF ClockInv, TypeOK, AskedInv
  <2> QED BY <2>2, <2>4, <2>5 DEF ClockInv
<1>2. ASSUME NEW b \in Browsers, Respond(b)
      PROVE  ClockInv'
  <2> DEFINE r    == pending[b]
             next == [r EXCEPT !.address = Root, !.redirects = r.redirects + 1]
             page == [address |-> r.address, html |-> html]
  <2>1. /\ r \in Request /\ r # None /\ lock = b
        /\ lock' = None
        /\ UNCHANGED <<selected, html, asked>>
    BY <1>2 DEF Respond, Unlocked, ClockInv, TypeOK
  <2>2. CASE Redirects(r) /\ r.redirects < MaxRedirects
    <3>1. pending' = [pending EXCEPT ![b] = next] /\ UNCHANGED shown
      BY <1>2, <2>2 DEF Respond
    <3>2. /\ next \in Request
          /\ next.address = Root /\ next.referer = r.referer /\ next.refreshes = r.refreshes
      <4>1. r.redirects + 1 \in 0 .. MaxRedirects
        BY <2>1, <2>2, ClockAssumption DEF Request
      <4> QED BY <2>1, <4>1, AddressTypes DEF Request
    <3> HIDE DEF next
    <3>3. TypeOK'
      BY <2>1, <3>1, <3>2 DEF ClockInv, TypeOK
    <3>4. RefreshInv'
      BY <2>1, <3>1, <3>2, AddressTypes, ClockAssumption DEF ClockInv, TypeOK, RefreshInv
    <3>5. AskedInv'
      BY <2>1, <3>1, <3>2, AddressTypes, NoneAssumption, ClockAssumption
      DEF ClockInv, TypeOK, RefreshInv, AskedInv
    <3> QED BY <3>3, <3>4, <3>5 DEF ClockInv
  <2>3. CASE ~(Redirects(r) /\ r.redirects < MaxRedirects)
    <3>1. /\ pending' = [pending EXCEPT ![b] = None]
          /\ shown' = [shown EXCEPT ![b] = IF Redirects(r) THEN None ELSE page]
      BY <1>2, <2>3 DEF Respond
    <3>2. /\ page \in Shown /\ page.address = r.address /\ page.html = html
          /\ ~Redirects(r) /\ page.html.kind \in {"page", "text"} => page.address \in Quiet
      BY <2>1 DEF ClockInv, TypeOK, RefreshInv, Request, Shown
    <3> HIDE DEF page
    <3>3. TypeOK'
      BY <2>1, <3>1, <3>2 DEF ClockInv, TypeOK
    <3>4. RefreshInv'
      BY <2>1, <3>1, <3>2, ClockAssumption DEF ClockInv, TypeOK, RefreshInv
    <3>5. AskedInv'
      BY <2>1, <3>1, <3>2, ClockAssumption DEF ClockInv, TypeOK, RefreshInv, AskedInv
    <3> QED BY <3>3, <3>4, <3>5 DEF ClockInv
  <2> QED BY <2>2, <2>3
<1>3. ASSUME NEW b \in Browsers, Type(b)
      PROVE  ClockInv'
  <2>1. PICK address \in Address : Ask(b, address, None, "none") /\ Want(b, address)
    BY <1>3 DEF Type
  <2> QED BY <2>1, AskInv DEF Want
<1>4. ASSUME NEW b \in Browsers, Click(b)
      PROVE  ClockInv'
  <2>1. shown[b] \in Shown
    BY <1>4 DEF Click, ClockInv, TypeOK
  <2>2. PICK link \in Links(shown[b].html) : Ask(b, link, shown[b].address, "none") /\ Want(b, link)
    BY <1>4 DEF Click
  <2>3. link \in Address /\ shown[b].address \in Address
    BY <2>1, LinkTypes DEF Shown
  <2> QED BY <2>2, <2>3, AskInv DEF Want
<1>5. ASSUME NEW b \in Browsers, Refresh(b)
      PROVE  ClockInv'
  <2>1. shown[b] \in Shown /\ shown[b] # None
    BY <1>5 DEF Refresh, ClockInv, TypeOK
  <2>2. PICK referer \in {None, shown[b].address} :
          Ask(b, shown[b].address, referer, shown[b].html.kind)
    BY <1>5 DEF Refresh
  <2>3. /\ shown[b].address \in Address
        /\ shown[b].html.kind \in {"page", "error", "text", "none"}
        /\ shown[b].html.kind \in {"page", "text"} => shown[b].address \in Quiet
        /\ asked[b] \in Address \cup {None} /\ asked' = [asked EXCEPT ![b] = asked[b]]
        /\ shown[b].address.city # NoCity => asked[b] = shown[b].address
    BY <1>5, <2>1 DEF Shown, Html, Refresh, Ask, ClockInv, TypeOK, RefreshInv, AskedInv
  <2> QED BY <2>2, <2>3, AskInv
<1>6. CASE UNCHANGED vars
  BY <1>6 DEF vars, ClockInv, TypeOK, RefreshInv, AskedInv, Redirects, Branch, Holds, CityOf
<1> QED BY <1>1, <1>2, <1>3, <1>4, <1>5, <1>6 DEF Next

\* The invariant holds in every state, whatever the browsers ask for.
THEOREM Invariance == Spec => []ClockInv
BY InitInv, NextInv, PTL DEF Spec

-----------------------------------------------------------------------------
\* Every variable of the world clock keeps its type, and Johannesburg stays selected.
THEOREM TypeCorrectness == Spec => []TypeOK
<1>1. ClockInv => TypeOK
  BY DEF ClockInv
<1> QED BY <1>1, Invariance, PTL

\* However often pages reload, a city is selected or deselected only as its user asked and
\* once, and the reload of a page without an error changes nothing.
THEOREM RefreshIsHarmless == Spec => RefreshRepeatsNothing
<1> DEFINE Harmless ==
      \A b \in Browsers :
        lock # b /\ lock' = b =>
          /\ Branch(pending[b]) \in {"select", "deselect"} => asked[b] = pending[b].address
          /\ pending[b].refreshes \in {"page", "text"} => selected' = selected
<1>1. ASSUME ClockInv, [Next]_vars
      PROVE  [Harmless]_vars
  <2>1. ASSUME NEW b \in Browsers, lock # b, lock' = b
        PROVE  /\ Branch(pending[b]) \in {"select", "deselect"} => asked[b] = pending[b].address
               /\ pending[b].refreshes \in {"page", "text"} => selected' = selected
    <3>1. Process(b)
      <4>1. \A a \in Browsers :
              /\ Respond(a) => lock' = None
              /\ Type(a) \/ Click(a) \/ Refresh(a) => lock' = lock
              /\ Process(a) => lock' = a
        BY DEF Respond, Unlocked, Type, Click, Refresh, Ask, Process
      <4> QED BY <1>1, <2>1, <4>1, ClockAssumption DEF Next, vars
    <3>2. pending[b] \in Request /\ pending[b] # None /\ selected' = Selection(pending[b])
      BY <3>1, <1>1 DEF Process, ClockInv, TypeOK
    <3>3. Branch(pending[b]) \in {"select", "deselect"} => asked[b] = pending[b].address
      BY <1>1, <2>1, <3>2, CommandIsAddressed DEF ClockInv, AskedInv
    <3>4. ASSUME pending[b].refreshes \in {"page", "text"}
          PROVE  Branch(pending[b]) \notin {"select", "deselect", "reset"}
      BY <1>1, <3>2, <3>4, QuietIsNoCommand DEF ClockInv, RefreshInv
    <3> QED BY <3>2, <3>3, <3>4 DEF Selection
  <2> QED BY <2>1
<1> QED BY <1>1, Invariance, PTL DEF Spec, RefreshRepeatsNothing
=============================================================================
