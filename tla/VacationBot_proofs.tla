------------------------- MODULE VacationBot_proofs -------------------------
(***************************************************************************)
(* The vacation responder sends no more replies to a mail than runs began  *)
(* by the mail's date, remembers only what it answered or what was too     *)
(* old, and loses no mail but where the server refuses RSET: for any mails,*)
(* any number of starts, failures and crashes, and any dates.              *)
(***************************************************************************)
EXTENDS VacationBot, TLAPS, SequenceTheorems, FiniteSetTheorems

-----------------------------------------------------------------------------
\* Removing mails from a mailbox.

\* Every set of naturals that is not empty has a least element.
LEMMA LeastNat ==
  ASSUME NEW I \in SUBSET Nat, I # {}
  PROVE  \E n \in I : \A j \in I : n <= j
<1>1. \E n \in I : \A j \in I : ~(<<j, n>> \in OpToRel(<, Nat))
  BY NatLessThanWellFounded, WFMin
<1>2. \A n, j \in Nat : j < n => <<j, n>> \in OpToRel(<, Nat)
  BY DEF OpToRel
<1>3. \E n \in I : \A j \in I : ~(j < n)
  BY <1>1, <1>2, Zenon
<1> QED BY <1>3

\* The step of the loop that keeps mails.
Kept(mails, removed, n, before) ==
  IF mails[n] \in removed THEN before ELSE Append(before, mails[n])

\* What is kept after each of the first M mails.
IsKept(f, mails, removed, M) ==
  f = [n \in 0 .. M |-> IF n = 0 THEN <<>> ELSE Kept(mails, removed, n, f[n - 1])]

\* There is such a function, which is the one that Without means.
LEMMA KeptExists ==
  ASSUME NEW mails, NEW removed, NEW N \in Nat
  PROVE  \E f : IsKept(f, mails, removed, N)
<1> DEFINE Is(f, M) == IsKept(f, mails, removed, M)
           Bad == {M \in Nat : ~ \E f : Is(f, M)}
<1>1. SUFFICES Bad = {}
  OBVIOUS
<1>2. SUFFICES ASSUME Bad # {} PROVE FALSE
  OBVIOUS
<1>3. PICK M \in Bad : \A j \in Bad : M <= j
  BY <1>2, LeastNat
<1>4. M # 0
  <2>1. Is([n \in 0 .. 0 |-> <<>>], 0)
    BY DEF IsKept
  <2> QED BY <2>1, <1>3
<1>5. M - 1 \in Nat /\ M - 1 \notin Bad
  <2>1. Bad \subseteq Nat
    OBVIOUS
  <2> HIDE DEF Bad
  <2> QED BY <1>3, <1>4, <2>1
<1>6. PICK f : Is(f, M - 1)
  BY <1>5
<1> DEFINE g == [n \in 0 .. M |-> IF n = M THEN Kept(mails, removed, M, f[M - 1]) ELSE f[n]]
<1>7. Is(g, M)
  <2>1. \A n \in 0 .. M : n # 0 => g[n - 1] = f[n - 1]
    BY <1>3
  <2>2. \A n \in 0 .. M - 1 : f[n] = IF n = 0 THEN <<>> ELSE Kept(mails, removed, n, f[n - 1])
    BY <1>6 DEF IsKept
  <2>3. ASSUME NEW n \in 0 .. M
        PROVE  g[n] = IF n = 0 THEN <<>> ELSE Kept(mails, removed, n, g[n - 1])
    <3>1. CASE n = M
      BY <1>4, <2>1, <3>1
    <3>2. CASE n # M
      <4>1. n \in 0 .. M - 1 /\ g[n] = f[n]
        BY <3>2, <1>3
      <4> QED BY <2>1, <2>2, <4>1
    <3> QED BY <3>1, <3>2
  <2>4. g = [n \in 0 .. M |-> g[n]]
    OBVIOUS
  <2> HIDE DEF g
  <2> QED BY <2>3, <2>4 DEF IsKept
<1> QED BY <1>3, <1>7

\* What is kept are the mails that are not removed.
LEMMA WithoutProperties ==
  ASSUME NEW S, NEW mails \in Seq(S), NEW removed
  PROVE  /\ Without(mails, removed) \in Seq(S)
         /\ ToSet(Without(mails, removed)) = ToSet(mails) \ removed
<1> DEFINE N == Len(mails)
           kept == CHOOSE f : IsKept(f, mails, removed, N)
           First(n) == {mails[k] : k \in 1 .. n}
           Good(n) == /\ kept[n] \in Seq(S)
                      /\ ToSet(kept[n]) = First(n) \ removed
           Bad == {n \in 0 .. N : ~Good(n)}
<1>1. N \in Nat /\ \A n \in 1 .. N : mails[n] \in S
  BY LenProperties, ElementOfSeq
<1>2. IsKept(kept, mails, removed, N)
  BY <1>1, KeptExists
<1> HIDE DEF kept
<1>3. /\ kept[0] = <<>>
      /\ \A n \in 1 .. N : kept[n] = IF mails[n] \in removed THEN kept[n - 1]
                                     ELSE Append(kept[n - 1], mails[n])
  <2>1. \A n \in 0 .. N : kept[n] = IF n = 0 THEN <<>> ELSE Kept(mails, removed, n, kept[n - 1])
    BY <1>2 DEF IsKept
  <2> QED BY <1>1, <2>1 DEF Kept
<1>4. Without(mails, removed) = kept[N]
  BY DEF Without, kept, IsKept, Kept
<1>5. Good(0)
  BY <1>3, EmptySeq DEF ToSet
<1>6. ASSUME NEW n \in 1 .. N, Good(n - 1)
      PROVE  Good(n)
  <2>1. First(n) = First(n - 1) \cup {mails[n]}
    BY <1>1
  <2>2. CASE mails[n] \in removed
    BY <1>3, <1>6, <2>1, <2>2
  <2>3. CASE mails[n] \notin removed
    <3> DEFINE old == kept[n - 1]
    <3>1. kept[n] = Append(old, mails[n]) /\ old \in Seq(S) /\ mails[n] \in S
      BY <1>1, <1>3, <1>6, <2>3
    <3> HIDE DEF old
    <3>2. /\ kept[n] \in Seq(S)
          /\ DOMAIN kept[n] = 1 .. Len(old) + 1 /\ Len(old) \in Nat /\ DOMAIN old = 1 .. Len(old)
          /\ \A k \in 1 .. Len(old) : kept[n][k] = old[k]
          /\ kept[n][Len(old) + 1] = mails[n]
      BY <3>1, AppendProperties, LenProperties
    <3>3. ToSet(kept[n]) = ToSet(old) \cup {mails[n]}
      BY <3>2 DEF ToSet
    <3>4. ToSet(old) = First(n - 1) \ removed
      BY <1>6 DEF old
    <3> HIDE DEF First
    <3> QED BY <2>1, <2>3, <3>2, <3>3, <3>4
  <2> QED BY <2>2, <2>3
<1> HIDE DEF Good, First
<1>7. Good(N)
  <2>1. SUFFICES ASSUME Bad # {} PROVE FALSE
    BY <1>1
  <2>2. PICK n \in Bad : \A j \in Bad : n <= j
    <3>1. Bad \in SUBSET Nat
      BY <1>1
    <3> HIDE DEF Bad
    <3> QED BY <2>1, <3>1, LeastNat
  <2>3. n # 0
    BY <1>5, <2>2
  <2>4. n \in 1 .. N /\ n - 1 \in 0 .. N /\ n - 1 \notin Bad
    BY <1>1, <2>2, <2>3
  <2> QED BY <1>6, <2>2, <2>4
<1>8. First(N) = ToSet(mails)
  BY <1>1, LenProperties DEF First, ToSet
<1> QED BY <1>4, <1>7, <1>8 DEF Good

-----------------------------------------------------------------------------
\* Counting the runs.

\* The runs that began no later than a date.
Until(runs, d) == {k \in DOMAIN runs : runs[k] <= d}

LEMMA UntilProperties ==
  ASSUME NEW runs \in Seq(Nat), NEW d \in Int
  PROVE  /\ IsFiniteSet(Until(runs, d))
         /\ Cardinality(Until(runs, d)) \in Nat
         /\ Cardinality(Until(runs, d)) <= Len(runs)
         /\ (\E k \in DOMAIN runs : runs[k] <= d) => Cardinality(Until(runs, d)) > 0
<1>1. Len(runs) \in Nat /\ DOMAIN runs = 1 .. Len(runs)
  BY LenProperties
<1>2. IsFiniteSet(1 .. Len(runs)) /\ Cardinality(1 .. Len(runs)) = Len(runs)
  <2>1. Cardinality(1 .. Len(runs)) = IF 1 > Len(runs) THEN 0 ELSE Len(runs) - 1 + 1
    BY <1>1, FS_Interval
  <2>2. IsFiniteSet(1 .. Len(runs))
    BY <1>1, FS_Interval
  <2> QED BY ONLY <1>1, <2>1, <2>2
<1>3. Until(runs, d) \subseteq 1 .. Len(runs)
  BY <1>1 DEF Until
<1>4. IsFiniteSet(Until(runs, d)) /\ Cardinality(Until(runs, d)) <= Len(runs)
  BY <1>2, <1>3, FS_Subset
<1>5. Cardinality(Until(runs, d)) \in Nat
  BY <1>4, FS_CardinalityType
<1>6. ASSUME NEW k \in DOMAIN runs, runs[k] <= d
      PROVE  Cardinality(Until(runs, d)) > 0
  <2>1. Until(runs, d) # {}
    BY <1>6 DEF Until
  <2>2. Cardinality(Until(runs, d)) # 0
    BY <1>4, <2>1, FS_EmptySet
  <2> QED BY <1>5, <2>2
<1> QED BY <1>4, <1>5, <1>6

\* One more run counts once, unless it begins after the date.
LEMMA UntilAppend ==
  ASSUME NEW runs \in Seq(Nat), NEW c \in Nat, NEW d \in Int
  PROVE  Cardinality(Until(Append(runs, c), d)) =
           Cardinality(Until(runs, d)) + IF c <= d THEN 1 ELSE 0
<1> DEFINE N == Len(runs)
<1>1. /\ N \in Nat /\ DOMAIN runs = 1 .. N
      /\ DOMAIN Append(runs, c) = 1 .. N + 1
      /\ \A k \in 1 .. N : Append(runs, c)[k] = runs[k]
      /\ Append(runs, c)[N + 1] = c
  BY LenProperties, AppendProperties
<1> HIDE DEF N
<1>2. N + 1 \notin Until(runs, d)
  BY <1>1 DEF Until
<1>3. CASE c <= d
  <2>1. Until(Append(runs, c), d) = Until(runs, d) \cup {N + 1}
    BY <1>1, <1>3 DEF Until
  <2> QED BY <1>2, <1>3, <2>1, UntilProperties, FS_AddElement
<1>4. CASE ~(c <= d)
  <2>1. Until(Append(runs, c), d) = Until(runs, d)
    BY <1>1, <1>4 DEF Until
  <2> QED BY <1>4, <2>1, UntilProperties
<1> QED BY <1>3, <1>4

-----------------------------------------------------------------------------
\* The inductive invariant.

Arrived == {m \in Mails : date[m] # -1}

\* The steps of the loop that are about the mail with number i.
Reading == {"top", "hung", "reply", "handle"}

\* The loop index is 1 outside the loop, and a mail's number where one is read; what
\* the session shows arrived, and it marks a mail only within the demonstration, after
\* RSET only where that was refused.
SessionInv ==
  /\ pc \in Reading => i <= Len(session.mails)
  /\ pc \notin Reading \cup {"next"} => i = 1
  /\ pc # "marked" => session.marks \subseteq unreset
  /\ pc \notin {"marked", "unmarked"} => session.marks = {}
  /\ ToSet(session.mails) \subseteq Arrived
  /\ session.marks \subseteq Arrived

\* What is remembered was answered or too old; what is about to be, too.
MemoryInv ==
  /\ handled \cup file \subseteq Arrived
  /\ HandledWasAnswered
  /\ pc = "handle" => Current \in said \/ date[Current] < vacation

\* No more replies than runs; and one less while the present run may answer the mail:
\* it is not remembered and is not the one that was answered just now.
ReplyInv ==
  /\ Len(starts) <= MaxStarts
  /\ pc # "down" => starts # <<>> /\ vacation = starts[Len(starts)]
  /\ RepliesPerVacation
  /\ pc # "down" =>
       \A m \in Mails \ handled :
         vacation <= date[m] /\ ~(pc = "handle" /\ Current = m) =>
           replies[m] < Cardinality(Until(starts, date[m]))
  /\ pc \in Reading => Current \notin handled
  /\ pc = "reply" => vacation <= date[Current]

BotInv == TypeOK /\ SessionInv /\ NoMailLost /\ MemoryInv /\ ReplyInv

-----------------------------------------------------------------------------
LEMMA AppendSet ==
  ASSUME NEW S, NEW mails \in Seq(S), NEW m \in S
  PROVE  ToSet(Append(mails, m)) = ToSet(mails) \cup {m}
<1>1. /\ Len(mails) \in Nat /\ DOMAIN mails = 1 .. Len(mails)
      /\ DOMAIN Append(mails, m) = 1 .. Len(mails) + 1
      /\ \A k \in 1 .. Len(mails) : Append(mails, m)[k] = mails[k]
      /\ Append(mails, m)[Len(mails) + 1] = m
  BY LenProperties, AppendProperties
<1> QED BY <1>1 DEF ToSet

\* The mail that is read arrived.
LEMMA CurrentArrived ==
  ASSUME TypeOK, SessionInv, pc \in Reading \/ (pc = "next" /\ i <= Len(session.mails))
  PROVE  /\ i \in 1 .. Len(session.mails) /\ Len(session.mails) \in Nat
         /\ Current \in Arrived /\ Current \in Mails
<1>1. session.mails \in Seq(Mails)
  BY DEF TypeOK
<1>2. Len(session.mails) \in Nat /\ DOMAIN session.mails = 1 .. Len(session.mails)
  BY <1>1, LenProperties
<1>3. i \in 1 .. Len(session.mails)
  BY <1>2 DEF TypeOK, SessionInv
<1>4. Current \in ToSet(session.mails)
  BY <1>2, <1>3 DEF Current, ToSet
<1> QED BY <1>2, <1>3, <1>4 DEF SessionInv, Arrived

\* The session and the mailbox after the steps that change them.
LEMMA SessionTypes ==
  ASSUME TypeOK
  PROVE  /\ NoSession \in [open : BOOLEAN, mails : Seq(Mails), marks : SUBSET Mails]
         /\ NoSession.mails = <<>> /\ Len(NoSession.mails) = 0 /\ NoSession.marks = {}
         /\ ToSet(NoSession.mails) = {} /\ ~NoSession.open
         /\ Len(session.mails) \in Nat /\ Len(mailbox) \in Nat
         /\ \A removed : /\ Without(mailbox, removed) \in Seq(Mails)
                         /\ ToSet(Without(mailbox, removed)) = ToSet(mailbox) \ removed
<1>1. mailbox \in Seq(Mails) /\ session.mails \in Seq(Mails)
  BY DEF TypeOK
<1>2. \A removed : /\ Without(mailbox, removed) \in Seq(Mails)
                  /\ ToSet(Without(mailbox, removed)) = ToSet(mailbox) \ removed
  BY <1>1, WithoutProperties
<1>3. Len(session.mails) \in Nat /\ Len(mailbox) \in Nat
  BY <1>1, LenProperties
<1>4. <<>> \in Seq(Mails) /\ Len(<<>>) = 0 /\ ToSet(<<>>) = {}
  BY EmptySeq DEF ToSet
<1> QED BY <1>2, <1>3, <1>4 DEF NoSession

\* What Open makes of a session.
LEMMA OpenSession ==
  ASSUME TypeOK, NEW marks \in SUBSET Mails, Open(marks)
  PROVE  /\ session' \in [open : BOOLEAN, mails : Seq(Mails), marks : SUBSET Mails]
         /\ session'.mails = mailbox /\ session'.marks = marks
         /\ Len(session'.mails) \in Nat
BY LenProperties DEF Open, TypeOK

LEMMA InitInv == Init => BotInv
<1> SUFFICES ASSUME Init PROVE BotInv
  OBVIOUS
<1>1. TypeOK
  <2>1. starts \in Seq(1 .. MaxClock) /\ mailbox \in Seq(Mails)
    BY EmptySeq DEF Init
  <2>2. session \in [open : BOOLEAN, mails : Seq(Mails), marks : SUBSET Mails] /\ session.mails = <<>>
    BY EmptySeq DEF Init, NoSession
  <2>3. i \in 1 .. Len(session.mails) + 1
    BY <2>2, EmptySeq DEF Init
  <2>4. /\ clock \in 1 .. MaxClock /\ vacation \in 0 .. MaxClock
        /\ date \in [Mails -> -1 .. MaxClock] /\ replies \in [Mails -> 0 .. MaxStarts]
        /\ failures \in 0 .. MaxFailures
    BY BotAssumption DEF Init
  <2> QED BY <2>1, <2>2, <2>3, <2>4 DEF Init, TypeOK
<1>2. SessionInv
  BY <1>1, SessionTypes DEF Init, SessionInv, Reading
<1>3. NoMailLost
  BY EmptySeq DEF Init, NoMailLost, ToSet
<1>4. MemoryInv
  BY DEF Init, MemoryInv, HandledWasAnswered
<1>5. ReplyInv
  <2>1. starts \in Seq(Nat) /\ Len(starts) = 0
    BY EmptySeq DEF Init
  <2>2. RepliesPerVacation
    <3>1. ASSUME NEW m \in Mails
          PROVE  replies[m] <= Cardinality(Until(starts, date[m]))
      <4>1. date[m] \in Int /\ replies[m] = 0
        BY DEF Init
      <4>2. Cardinality(Until(starts, date[m])) \in Nat
        BY <2>1, <4>1, UntilProperties
      <4> QED BY <4>1, <4>2
    <3> QED BY <3>1 DEF RepliesPerVacation, Until
  <2> QED BY <2>1, <2>2, BotAssumption DEF Init, ReplyInv, Reading
<1> QED BY <1>1, <1>2, <1>3, <1>4, <1>5 DEF BotInv

-----------------------------------------------------------------------------
\* Each step keeps the invariant, one conjunct after the other.

LEMMA SeqNat ==
  ASSUME TypeOK
  PROVE  starts \in Seq(Nat)
<1>1. starts \in Seq(1 .. MaxClock) /\ 1 .. MaxClock \subseteq Nat
  BY BotAssumption DEF TypeOK
<1>2. /\ Len(starts) \in Nat /\ DOMAIN starts = 1 .. Len(starts)
      /\ starts = [k \in 1 .. Len(starts) |-> starts[k]]
      /\ \A k \in 1 .. Len(starts) : starts[k] \in Nat
  BY <1>1, LenProperties, ElementOfSeq
<1>3. starts \in [1 .. Len(starts) -> Nat]
  BY ONLY <1>2
<1> QED BY <1>2, <1>3, SeqDef

LEMMA TypeStep ==
  ASSUME BotInv, [Next]_vars
  PROVE  TypeOK'
<1> USE DEF BotInv
<1> USE DEF Next, vars, mailVars, runVars, historyVars, Demo, Responder, Environment, LoopTop, Wait,
            DemoDelete, DemoNothing, DemoReset, DemoResetRefused, DemoQuit, Connect, ConnectFails,
            CheckUidl, UidlFails, EndLoop, ReadHeaders, TopFails, TopCut, Reply, Handle, LoseConnection,
            Tick, OwnerRemoves, Arrive, Interrupt, Crash, Start, Fail, Skip, Quit, Open
<1>1. clock' \in 1 .. MaxClock /\ vacation' \in 0 .. MaxClock
  <2>1. clock' = clock \/ (clock < MaxClock /\ clock' = clock + 1)
    OBVIOUS
  <2>2. vacation' = vacation \/ vacation' = clock
    OBVIOUS
  <2> QED BY ONLY <2>1, <2>2, TypeOK, BotAssumption DEF TypeOK
<1>2. failures' \in 0 .. MaxFailures
  <2>1. failures' = failures \/ (failures < MaxFailures /\ failures' = failures + 1)
    OBVIOUS
  <2> QED BY ONLY <2>1, TypeOK, BotAssumption DEF TypeOK
<1>3. keepRunning' \in BOOLEAN /\ gone' \subseteq Mails
  BY DEF TypeOK
<1>4. pc' \in {"down", "loop", "demo", "marked", "unmarked", "connect", "next", "top",
               "hung", "reply", "handle", "wait"}
  BY DEF TypeOK
<1>5. mailbox' \in Seq(Mails)
  <2>1. \/ mailbox' = mailbox
        \/ \E removed : mailbox' = Without(mailbox, removed)
        \/ \E m \in Mails : mailbox' = Append(mailbox, m)
    OBVIOUS
  <2>2. mailbox \in Seq(Mails)
    BY DEF TypeOK
  <2>3. \A removed : Without(mailbox, removed) \in Seq(Mails)
    BY SessionTypes
  <2>4. \A m \in Mails : Append(mailbox, m) \in Seq(Mails)
    BY ONLY <2>2, AppendProperties
  <2> QED BY ONLY <2>1, <2>2, <2>3, <2>4
<1>6. date' \in [Mails -> -1 .. MaxClock]
  <2>1. date' = date \/ \E m \in Mails, d \in 0 .. MaxClock : date' = [date EXCEPT ![m] = d]
    OBVIOUS
  <2>2. date \in [Mails -> -1 .. MaxClock] /\ 0 .. MaxClock \subseteq -1 .. MaxClock
    BY BotAssumption DEF TypeOK
  <2> HIDE DEF TypeOK
  <2> QED BY ONLY <2>1, <2>2
<1>7. handled' \subseteq Mails /\ file' \subseteq Mails /\ said' \subseteq Mails
  BY CurrentArrived DEF TypeOK, Reading
<1>11. unreset' \subseteq Mails
  BY DEF TypeOK
<1>8. /\ session' \in [open : BOOLEAN, mails : Seq(Mails), marks : SUBSET Mails]
      /\ i' \in 1 .. Len(session'.mails) + 1
  <2>1. \/ /\ session' = session
           /\ i' = i \/ (i <= Len(session.mails) /\ i' = i + 1)
        \/ session' = NoSession /\ i' = 1
        \/ session' = [session EXCEPT !.open = FALSE, !.marks = {}] /\ i' = i
        \/ session' = [session EXCEPT !.marks = {}] /\ i' = i
        \/ \E marks \in SUBSET Mails : Open(marks) /\ i' = 1
    <3>1. DemoDelete => {mailbox[Len(mailbox)]} \in SUBSET Mails
      BY EmptySeq, LenProperties, ElementOfSeq DEF TypeOK
    <3>2. DemoDelete => i = 1
      BY DEF SessionInv, Reading
    <3>3. pc \in {"top", "hung", "handle"} => i <= Len(session.mails)
      BY DEF SessionInv, Reading
    <3>4. Connect => {} \in SUBSET Mails /\ Open({}) /\ i' = 1
      OBVIOUS
    <3>5. CASE DemoDelete \/ Connect
      BY ONLY <3>1, <3>2, <3>4, <3>5 DEF DemoDelete
    <3>6. CASE ~DemoDelete /\ ~Connect
      BY <3>3, <3>6
    <3> QED BY ONLY <3>5, <3>6
  <2>2. CASE \E marks \in SUBSET Mails : Open(marks) /\ i' = 1
    BY ONLY <2>2, TypeOK, OpenSession
  <2>3. CASE session' = NoSession /\ i' = 1
    BY ONLY <2>3, TypeOK, SessionTypes
  <2>4. CASE /\ session' = session
             /\ i' = i \/ (i <= Len(session.mails) /\ i' = i + 1)
    BY ONLY SMTT(20), <2>4, TypeOK, SessionTypes DEF TypeOK
  <2>5. CASE session' = [session EXCEPT !.open = FALSE, !.marks = {}] /\ i' = i
    <3>1. session'.mails = session.mails
      BY ONLY <2>5, TypeOK DEF TypeOK
    <3> QED BY ONLY <2>5, <3>1, TypeOK DEF TypeOK
  <2>6. CASE session' = [session EXCEPT !.marks = {}] /\ i' = i
    <3>1. session'.mails = session.mails
      BY ONLY <2>6, TypeOK DEF TypeOK
    <3> QED BY ONLY <2>6, <3>1, TypeOK DEF TypeOK
  <2> QED BY ONLY <2>1, <2>2, <2>3, <2>4, <2>5, <2>6
<1>9. replies' \in [Mails -> 0 .. MaxStarts]
  <2>1. CASE replies' = replies
    BY <2>1 DEF TypeOK
  <2>2. CASE replies' # replies
    <3>1. Reply /\ replies' = [replies EXCEPT ![Current] = replies[Current] + 1]
      BY <2>2
    <3>2. /\ Current \in Mails /\ date[Current] \in Int /\ Current \notin handled
          /\ vacation <= date[Current]
      BY <3>1, CurrentArrived DEF Reading, ReplyInv, TypeOK
    <3>3. replies[Current] < Cardinality(Until(starts, date[Current]))
      BY <3>1, <3>2 DEF ReplyInv
    <3>4. /\ Cardinality(Until(starts, date[Current])) \in Nat
          /\ Cardinality(Until(starts, date[Current])) <= Len(starts)
      BY <3>2, UntilProperties, SeqNat
    <3>5. Len(starts) \in Nat /\ Len(starts) <= MaxStarts /\ MaxStarts \in Nat
      BY BotAssumption, LenProperties DEF ReplyInv, TypeOK
    <3>6. replies[Current] + 1 \in 0 .. MaxStarts
      BY ONLY <3>2, <3>3, <3>4, <3>5, TypeOK DEF TypeOK
    <3> QED BY ONLY <3>1, <3>6, TypeOK DEF TypeOK
  <2> QED BY <2>1, <2>2
<1>10. starts' \in Seq(1 .. MaxClock)
  <2>1. starts' = starts \/ starts' = Append(starts, clock)
    OBVIOUS
  <2>2. starts \in Seq(1 .. MaxClock) /\ clock \in 1 .. MaxClock
    BY DEF TypeOK
  <2>3. Append(starts, clock) \in Seq(1 .. MaxClock)
    BY ONLY <2>2, AppendProperties
  <2> QED BY ONLY <2>1, <2>2, <2>3
<1> QED BY <1>1, <1>2, <1>3, <1>4, <1>5, <1>6, <1>7, <1>8, <1>9, <1>10, <1>11 DEF TypeOK

LEMMA SessionStep ==
  ASSUME BotInv, [Next]_vars
  PROVE  SessionInv'
<1> USE DEF BotInv
<1> USE DEF Next, vars, mailVars, runVars, historyVars, Demo, Responder, Environment, LoopTop, Wait,
            DemoDelete, DemoNothing, DemoReset, DemoResetRefused, DemoQuit, Connect, ConnectFails,
            CheckUidl, UidlFails, EndLoop, ReadHeaders, TopFails, TopCut, Reply, Handle, LoseConnection,
            Tick, OwnerRemoves, Arrive, Interrupt, Crash, Start, Fail, Skip, Quit, Open
<1>1. Arrived \subseteq Arrived'
  BY BotAssumption DEF Arrived, TypeOK
<1>2. ToSet(mailbox) \subseteq Arrived
  BY DEF NoMailLost, Arrived
<1>3. unreset \subseteq unreset' /\ unreset \subseteq Arrived
  BY DEF NoMailLost, Arrived
<1>4. /\ session'.mails \in {<<>>, mailbox, session.mails}
      /\ session'.marks \subseteq Arrived
      /\ pc' # "marked" => session'.marks \subseteq unreset'
      /\ pc' \notin {"marked", "unmarked"} => session'.marks = {}
  <2>1. CASE session' = NoSession
    BY ONLY <2>1 DEF NoSession
  <2>2. CASE session' = [session EXCEPT !.open = FALSE, !.marks = {}]
    BY ONLY <2>2, TypeOK DEF TypeOK
  <2>3. CASE session' = [session EXCEPT !.marks = {}]
    BY ONLY <2>3, TypeOK DEF TypeOK
  <2>4. CASE Open({})
    BY ONLY <2>4 DEF Open
  <2>5. CASE DemoDelete
    <3>1. mailbox[Len(mailbox)] \in ToSet(mailbox)
      <4>1. mailbox \in Seq(Mails) /\ mailbox # <<>>
        BY <2>5 DEF TypeOK
      <4> QED BY ONLY <4>1, EmptySeq, LenProperties DEF ToSet
    <3>2. Open({mailbox[Len(mailbox)]}) /\ pc' = "marked"
      BY <2>5
    <3> QED BY ONLY <1>2, <3>1, <3>2 DEF Open
  <2>6. CASE DemoResetRefused
    <3>1. session' = session /\ unreset' = unreset \cup session.marks /\ pc' = "unmarked"
      BY <2>6
    <3> QED BY ONLY <3>1, SessionInv DEF SessionInv
  <2>7. CASE /\ session' = session
             /\ pc' = pc \/ {pc, pc'} \cap {"marked", "unmarked"} = {}
    BY ONLY <1>3, <2>7, SessionInv DEF SessionInv
  <2>8. \/ session' = NoSession
        \/ session' = [session EXCEPT !.open = FALSE, !.marks = {}]
        \/ session' = [session EXCEPT !.marks = {}]
        \/ Open({}) \/ DemoDelete \/ DemoResetRefused
        \/ /\ session' = session
           /\ pc' = pc \/ {pc, pc'} \cap {"marked", "unmarked"} = {}
    <3>1. CASE DemoQuit \/ EndLoop \/ Crash \/ LoseConnection
      BY ONLY <3>1 DEF DemoQuit, EndLoop, Crash, LoseConnection, Quit
    <3>2. CASE DemoReset \/ Connect \/ DemoDelete \/ DemoResetRefused
      BY ONLY <3>2 DEF DemoReset, Connect
    <3>3. CASE ~ (\/ DemoQuit \/ EndLoop \/ Crash \/ LoseConnection
                  \/ DemoReset \/ Connect \/ DemoDelete \/ DemoResetRefused)
      BY <3>3
    <3> QED BY ONLY <3>1, <3>2, <3>3
  <2> QED BY ONLY <2>1, <2>2, <2>3, <2>4, <2>5, <2>6, <2>7, <2>8
<1>5. ToSet(session'.mails) \subseteq Arrived' /\ session'.marks \subseteq Arrived'
  <2>1. ToSet(<<>>) = {}
    BY EmptySeq DEF ToSet
  <2> QED BY ONLY <1>1, <1>2, <1>4, <2>1, SessionInv DEF SessionInv
<1>6. pc' \in Reading => i' <= Len(session'.mails)
  BY DEF SessionInv, Reading, TypeOK
<1>7. pc' \notin Reading \cup {"next"} => i' = 1
  BY DEF SessionInv, Reading
<1> QED BY <1>5, <1>4, <1>6, <1>7 DEF SessionInv

LEMMA MailStep ==
  ASSUME BotInv, [Next]_vars
  PROVE  NoMailLost'
<1> USE DEF BotInv
<1> USE DEF Next, vars, mailVars, runVars, historyVars, Demo, Responder, Environment, LoopTop, Wait,
            DemoDelete, DemoNothing, DemoReset, DemoResetRefused, DemoQuit, Connect, ConnectFails,
            CheckUidl, UidlFails, EndLoop, ReadHeaders, TopFails, TopCut, Reply, Handle, LoseConnection,
            Tick, OwnerRemoves, Arrive, Interrupt, Crash, Start, Fail, Skip, Quit, Open
<1>1. CASE UNCHANGED <<date, mailbox, gone, unreset>>
  BY <1>1 DEF NoMailLost
<1>2. CASE DemoQuit \/ EndLoop
  <2>1. session.marks \subseteq unreset
    BY <1>2 DEF SessionInv
  <2>2. ToSet(mailbox') = ToSet(mailbox) \ session.marks /\ UNCHANGED <<date, gone, unreset>>
    BY <1>2, SessionTypes
  <2> QED BY <2>1, <2>2 DEF NoMailLost
<1>5. CASE DemoResetRefused
  <2>1. session.marks \subseteq Arrived
    BY DEF SessionInv
  <2> QED BY <1>5, <2>1 DEF NoMailLost, Arrived
<1>3. ASSUME NEW m \in Mails, OwnerRemoves(m)
      PROVE  NoMailLost'
  BY <1>3, SessionTypes DEF NoMailLost
<1>4. ASSUME NEW m \in Mails, NEW d \in 0 .. MaxClock, Arrive(m, d)
      PROVE  NoMailLost'
  <2>1. ToSet(mailbox') = ToSet(mailbox) \cup {m}
    BY <1>4, AppendSet DEF TypeOK
  <2>2. Arrived' = Arrived \cup {m}
    <3>1. date' = [date EXCEPT ![m] = d] /\ d \in Nat
      BY <1>4, BotAssumption
    <3>2. date \in [Mails -> -1 .. MaxClock] /\ MaxClock \in Nat
      BY BotAssumption DEF TypeOK
    <3> QED BY ONLY <3>1, <3>2 DEF Arrived
  <2> QED BY <1>4, <2>1, <2>2 DEF NoMailLost, Arrived
<1> QED BY <1>1, <1>2, <1>3, <1>4, <1>5

LEMMA MemoryStep ==
  ASSUME BotInv, [Next]_vars
  PROVE  MemoryInv'
<1> USE DEF BotInv
<1> USE DEF Next, vars, mailVars, runVars, historyVars, Demo, Responder, Environment, LoopTop, Wait,
            DemoDelete, DemoNothing, DemoReset, DemoResetRefused, DemoQuit, Connect, ConnectFails,
            CheckUidl, UidlFails, EndLoop, ReadHeaders, TopFails, TopCut, Reply, Handle, LoseConnection,
            Tick, OwnerRemoves, Arrive, Interrupt, Crash, Start, Fail, Skip, Quit, Open
<1>1. Arrived \subseteq Arrived' /\ \A m \in Arrived : date'[m] = date[m]
  BY BotAssumption DEF Arrived, TypeOK
<1>2. pc' \in Reading => Current' = Current
  <2>1. pc' \in Reading => i' = i /\ session'.mails = session.mails
    BY DEF Reading, TypeOK
  <2> QED BY <2>1 DEF Current
<1>3. CASE Handle
  <2>1. Current \in Arrived /\ handled' \cup file' \subseteq handled \cup file \cup {Current}
    BY <1>3, CurrentArrived DEF Reading
  <2>2. Current \in said \/ \E k \in DOMAIN starts : date[Current] < starts[k]
    <3>1. starts # <<>> /\ starts \in Seq(1 .. MaxClock) /\ vacation = starts[Len(starts)]
      BY <1>3 DEF ReplyInv, TypeOK
    <3>2. Len(starts) \in DOMAIN starts
      BY ONLY <3>1, EmptySeq, LenProperties
    <3> QED BY <1>3, <3>1, <3>2 DEF MemoryInv
  <2> QED BY <1>3, <2>1, <2>2 DEF MemoryInv, HandledWasAnswered, TypeOK, Arrived
<1>4. CASE Start
  <2>1. /\ DOMAIN starts \subseteq DOMAIN starts'
        /\ \A k \in DOMAIN starts : starts'[k] = starts[k]
    BY <1>4, AppendProperties, LenProperties DEF TypeOK
  <2> QED BY <1>1, <1>4, <2>1 DEF MemoryInv, HandledWasAnswered, Arrived
<1>5. CASE ~Handle /\ ~Start
  <2>1. handled' = handled /\ file' = file /\ starts' = starts /\ said \subseteq said'
    BY <1>5
  <2>2. pc' = "handle" => Current' \in said' \/ date'[Current'] < vacation'
    <3>1. CASE pc = "handle"
      <4>1. pc' = "handle" => vacation' = vacation
        BY <3>1
      <4> QED BY <1>1, <1>2, <2>1, <3>1, <4>1, CurrentArrived DEF Reading, MemoryInv
    <3>2. CASE pc # "handle" /\ pc' = "handle"
      <4>1. /\ Reply \/ (ReadHeaders /\ ~(date[Current] >= vacation))
            /\ UNCHANGED <<date, vacation>>
        <5>1. Reply \/ ReadHeaders
          BY <3>2
        <5>2. CASE ReadHeaders
          BY ONLY <3>2, <5>2 DEF ReadHeaders, Skip, mailVars, runVars
        <5> QED BY ONLY <5>1, <5>2 DEF Reply, mailVars, runVars
      <4>2. Current \in Mails /\ date[Current] \in Int /\ vacation \in Int
        BY <3>2, <4>1, CurrentArrived DEF Reading, TypeOK
      <4> QED BY <1>2, <3>2, <4>1, <4>2 DEF Reading
    <3> QED BY <3>1, <3>2
  <2>3. HandledWasAnswered'
    BY ONLY <1>1, <2>1, BotInv DEF BotInv, MemoryInv, HandledWasAnswered, Arrived
  <2> QED BY ONLY <1>1, <2>1, <2>2, <2>3, BotInv DEF BotInv, MemoryInv
<1> QED BY <1>3, <1>4, <1>5

LEMMA ReplyStep ==
  ASSUME BotInv, [Next]_vars
  PROVE  ReplyInv'
<1> USE DEF BotInv
<1> USE DEF Next, vars, mailVars, runVars, historyVars, Demo, Responder, Environment, LoopTop, Wait,
            DemoDelete, DemoNothing, DemoReset, DemoResetRefused, DemoQuit, Connect, ConnectFails,
            CheckUidl, UidlFails, EndLoop, ReadHeaders, TopFails, TopCut, Reply, Handle, LoseConnection,
            Tick, OwnerRemoves, Arrive, Interrupt, Crash, Start, Fail, Skip, Quit, Open
<1>1. pc' \in Reading => Current' = Current
  <2>1. pc' \in Reading => i' = i /\ session'.mails = session.mails
    BY DEF Reading, TypeOK
  <2> QED BY <2>1 DEF Current
<1>2. /\ starts \in Seq(Nat) /\ Len(starts) \in Nat /\ DOMAIN starts = 1 .. Len(starts)
      /\ \A k \in DOMAIN starts : starts[k] \in Nat
      /\ \A m \in Mails : date[m] \in Int /\ replies[m] \in Int
      /\ pc # "down" => vacation \in Int /\ Len(starts) \in DOMAIN starts
  BY SMTT(20), SeqNat, LenProperties, ElementOfSeq, EmptySeq DEF TypeOK, ReplyInv
<1>3. CASE Reply
  <2>1. /\ Current \in Mails /\ Current' = Current /\ Current \notin handled
        /\ vacation <= date[Current]
    BY <1>3, CurrentArrived DEF Reading, ReplyInv, Current
  <2>2. replies[Current] < Cardinality(Until(starts, date[Current]))
    BY <1>3, <2>1 DEF ReplyInv
  <2>3. Cardinality(Until(starts, date[Current])) \in Nat
    BY <1>2, <2>1, UntilProperties
  <2>4. \A m \in Mails : m # Current => replies'[m] = replies[m]
    BY <1>3 DEF TypeOK
  <2>5. replies'[Current] <= Cardinality(Until(starts, date[Current]))
    BY ONLY <1>3, <1>2, <2>1, <2>2, <2>3, TypeOK DEF Reply, TypeOK
  <2>6. \A m \in Mails : replies'[m] <= Cardinality(Until(starts, date[m]))
    BY <2>4, <2>5 DEF ReplyInv, RepliesPerVacation, Until
  <2>7. UNCHANGED <<starts, date, vacation, handled>> /\ pc' = "handle" /\ pc = "reply"
    BY <1>3
  <2>8. RepliesPerVacation'
    BY ONLY <2>6, <2>7 DEF RepliesPerVacation, Until
  <2> QED BY ONLY <2>1, <2>4, <2>7, <2>8, BotInv DEF BotInv, ReplyInv, Reading
<1>4. CASE Start
  <2>1. /\ clock \in Nat /\ starts' = Append(starts, clock)
        /\ Len(starts') = Len(starts) + 1 /\ starts'[Len(starts) + 1] = clock
        /\ UNCHANGED <<date, replies>> /\ vacation' = clock /\ pc' = "loop"
    BY <1>4, <1>2, AppendProperties, BotAssumption DEF TypeOK
  <2>2. ASSUME NEW m \in Mails
        PROVE  /\ Cardinality(Until(starts', date[m])) =
                    Cardinality(Until(starts, date[m])) + IF clock <= date[m] THEN 1 ELSE 0
               /\ Cardinality(Until(starts, date[m])) \in Nat
               /\ replies[m] <= Cardinality(Until(starts, date[m]))
    <3>1. replies[m] <= Cardinality(Until(starts, date[m]))
      BY DEF ReplyInv, RepliesPerVacation, Until
    <3> QED BY ONLY <1>2, <2>1, <3>1, UntilAppend, UntilProperties
  <2>3. ASSUME NEW m \in Mails
        PROVE  /\ replies'[m] <= Cardinality(Until(starts', date'[m]))
               /\ vacation' <= date'[m] =>
                    replies'[m] < Cardinality(Until(starts', date'[m]))
    BY ONLY <1>2, <2>1, <2>2
  <2>4. RepliesPerVacation'
    BY ONLY <2>3 DEF RepliesPerVacation, Until
  <2>5. Len(starts) < MaxStarts /\ MaxStarts \in Nat
    BY <1>4, BotAssumption
  <2>6. starts' # <<>>
    BY ONLY <1>2, <2>1, EmptySeq
  <2> QED BY ONLY <1>2, <2>1, <2>3, <2>4, <2>5, <2>6 DEF ReplyInv, Reading
<1>5. ASSUME NEW m \in Mails, NEW d \in 0 .. MaxClock, Arrive(m, d)
      PROVE  ReplyInv'
  <2>1. replies[m] = 0
    <3>1. \A k \in DOMAIN starts : ~(starts[k] <= date[m])
      <4>1. date[m] = -1
        BY <1>5
      <4> QED BY ONLY <1>2, <4>1
    <3>2. Until(starts, date[m]) = {} 
      BY ONLY <3>1 DEF Until
    <3>3. replies[m] <= 0
      BY <3>2, FS_EmptySet DEF ReplyInv, RepliesPerVacation, Until
    <3> QED BY <3>3 DEF TypeOK
  <2>2. /\ UNCHANGED <<replies, starts, vacation, handled, pc, session, i>>
        /\ date' = [date EXCEPT ![m] = d] /\ d \in Int
    BY <1>5, BotAssumption
  <2>3. \A n \in Mails : n # m => date'[n] = date[n]
    BY <2>2 DEF TypeOK
  <2>4. /\ Cardinality(Until(starts, date'[m])) \in Nat
        /\ pc # "down" /\ vacation <= date'[m] => Cardinality(Until(starts, date'[m])) > 0
    <3>1. date'[m] \in Int
      BY <2>2 DEF TypeOK
    <3>2. pc # "down" => vacation = starts[Len(starts)]
      BY DEF ReplyInv
    <3> QED BY ONLY <1>2, <3>1, <3>2, UntilProperties
  <2>5. RepliesPerVacation'
    <3>1. \A n \in Mails : replies[n] <= Cardinality(Until(starts, date[n]))
      BY DEF ReplyInv, RepliesPerVacation, Until
    <3>2. \A n \in Mails : replies[n] <= Cardinality(Until(starts, date'[n]))
      BY ONLY <2>1, <2>3, <2>4, <3>1
    <3> QED BY <2>2, <3>2 DEF RepliesPerVacation, Until
  <2>6. Current' = Current /\ (pc \in Reading => Current \in Arrived)
    BY <2>2, CurrentArrived DEF Current
  <2>7. pc \in Reading => Current # m
    BY <1>5, <2>6 DEF Arrived
  <2> QED BY ONLY <2>1, <2>2, <2>3, <2>4, <2>5, <2>6, <2>7, BotInv DEF BotInv, ReplyInv, Reading
<1>6. CASE ~Reply /\ ~Start /\ ~ \E m \in Mails, d \in 0 .. MaxClock : Arrive(m, d)
  <2>1. UNCHANGED <<date, replies, starts, vacation>>
    BY <1>6
  <2>2. RepliesPerVacation'
    BY ONLY <2>1, BotInv DEF BotInv, ReplyInv, RepliesPerVacation
  <2>3. pc' # "down" => pc # "down"
    BY <1>6
  <2>4. handled \subseteq handled'
    BY <1>6
  <2>5. pc' \in Reading => Current' \notin handled' 
    <3>1. CASE pc \in Reading
      <4>1. pc' \in Reading => handled' = handled
        BY <1>6, <3>1 DEF Reading
      <4>2. Current \notin handled
        BY ONLY <3>1, BotInv DEF BotInv, ReplyInv
      <4> QED BY ONLY <1>1, <4>1, <4>2
    <3>2. CASE pc \notin Reading /\ pc' \in Reading
      <4>1. CheckUidl
        BY <3>2 DEF Reading
      <4> QED BY ONLY <1>1, <3>2, <4>1 DEF CheckUidl, Skip, Reading, runVars
    <3> QED BY <3>1, <3>2
  <2>6. pc' = "reply" => vacation <= date[Current']
    BY <1>6, <1>1 DEF ReplyInv, Reading
  <2>7. pc = "handle" => (Current' = Current /\ pc' = "handle") \/ Current \in handled' \/ pc' = "down"
    BY <1>6, <1>1 DEF Reading
  <2> QED BY ONLY <2>1, <2>2, <2>3, <2>4, <2>5, <2>6, <2>7, BotInv DEF BotInv, ReplyInv
<1> QED BY <1>3, <1>4, <1>5, <1>6

LEMMA NextInv == BotInv /\ [Next]_vars => BotInv'
BY TypeStep, SessionStep, MailStep, MemoryStep, ReplyStep DEF BotInv

\* The invariant holds in every state, whatever fails and whenever the bot dies.
THEOREM Invariance == Spec => []BotInv
BY InitInv, NextInv, PTL DEF Spec

-----------------------------------------------------------------------------
\* Every variable of the responder keeps its type, and the loop index is a mail number.
THEOREM TypeCorrectness == Spec => []TypeOK
<1>1. BotInv => TypeOK
  BY DEF BotInv
<1> QED BY <1>1, Invariance, PTL

\* However often the program dies and is started again, a mail gets no more replies than
\* runs began by its date.
THEOREM RepliesAreBounded == Spec => []RepliesPerVacation
<1>1. BotInv => RepliesPerVacation
  BY DEF BotInv, ReplyInv
<1> QED BY <1>1, Invariance, PTL

\* Every mail that is remembered, in memory or in the file, was answered or too old.
THEOREM MemoryIsOfAnswers == Spec => []HandledWasAnswered
<1>1. BotInv => HandledWasAnswered
  BY DEF BotInv, MemoryInv
<1> QED BY <1>1, Invariance, PTL

\* Wherever the program or the connection dies, a mail that arrived is in the mailbox,
\* was removed by its owner, or was marked when the server refused RSET.
THEOREM MailsAreKept == Spec => []NoMailLost
<1>1. BotInv => NoMailLost
  BY DEF BotInv
<1> QED BY <1>1, Invariance, PTL
=============================================================================
