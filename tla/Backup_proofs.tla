---------------------------- MODULE Backup_proofs ----------------------------
(***************************************************************************)
(* The backup client: what is recorded as uploaded is on the server, for   *)
(* any files, writes, ticks of the clock and restarts.  The server's       *)
(* responses come in pieces and no answer is matched with its command, so  *)
(* that the argument is about the codes that can be left unread.           *)
(***************************************************************************)
EXTENDS Backup, TLAPS, SequenceTheorems

-----------------------------------------------------------------------------
\* The inductive invariant.

\* The code c is among the fragments that have not been read.
Has(c) == \E i \in DOMAIN inbox : inbox[i] = c

\* The client has a file open, or is yet to be told that the server has it.
InUpload == pc \in {"epsv", "stor", "first", "rest", "transfer", "size"}

\* Nothing was written to the file since its time was read.
Same == local[up.file].time = up.currentTime /\ up.file \notin coarse

\* No file is recorded with a time that is yet to come, or before the first backup.
ClockInv ==
  /\ \A f \in Files : /\ fileMap[f] <= local[f].time /\ local[f].time <= clock
                      /\ local[f].ver <= writes
                      /\ local[f].ver # 0 => local[f].time # 0
  /\ pc \in DOMAIN After \cup {"down", "cwd", "dele"} => \A f \in Files : fileMap[f] = 0

\* A fragment with the code of STOR or of the transfer is from the upload under way, and
\* one that is left unread stands before the answer that is waited for.
InboxInv ==
  /\ pc \notin {"stor", "first", "rest", "transfer"} => ~Has(150)
  /\ pc \notin {"transfer", "size"} => ~Has(226)
  /\ pc = "transfer" /\ Positive("transfer") => \A i \in DOMAIN inbox : inbox[i] = 226
  /\ pc = "size" /\ Has(226) => inbox[1] = 226

\* The upload: its file is newer than what is recorded, its copy begins empty and is of the
\* one version that was there throughout, and the answer to the transfer is true.
UploadInv ==
  InUpload =>
    /\ fileMap[up.file] < local[up.file].time
    /\ up.currentTime <= local[up.file].time
    /\ up.held \in 1 .. writes
    /\ Same => local[up.file].ver \in {0, up.held}
    /\ pc = "stor" /\ Positive("stor") => remote[up.file] = NoCopy
    /\ pc = "first" => remote[up.file] = NoCopy
    /\ pc \in {"rest", "transfer", "size"} /\ Same => remote[up.file].parts = {up.held}
    /\ pc = "transfer" /\ Positive("transfer") => remote[up.file].whole
    /\ pc = "size" => remote[up.file].whole

BackupInv ==
  TypeOK /\ ClockInv /\ InboxInv /\ UploadInv /\ RecordedIsStored /\ RecordedIsWhole

-----------------------------------------------------------------------------
\* Codes and fragments.

LEMMA OkCodes ==
  /\ DOMAIN Ok = {"greeting", "user", "pass", "type", "cwd", "dele", "epsv", "stor", "transfer",
                  "size"}
  /\ Ok["greeting"] = 220 /\ Ok["user"] = 331 /\ Ok["pass"] = 230 /\ Ok["type"] = 200
  /\ Ok["cwd"] = 250 /\ Ok["dele"] = 250 /\ Ok["epsv"] = 229 /\ Ok["stor"] = 150
  /\ Ok["transfer"] = 226 /\ Ok["size"] = 213 /\ Refusal = 550
  /\ DOMAIN After = {"greeting", "user", "pass", "type"}
  /\ After["greeting"] = "user" /\ After["user"] = "pass" /\ After["pass"] = "type"
  /\ After["type"] = "cwd"
BY DEF Ok, Refusal, After

LEMMA ReplyProperties ==
  ASSUME NEW code \in Codes, NEW reply \in Reply(code)
  PROVE  /\ reply \in Seq(Codes) /\ reply # <<>>
         /\ \A i \in DOMAIN reply : reply[i] = code
         /\ reply[1] = code
<1>1. CASE reply = <<code>>
  BY <1>1
<1>2. CASE reply = <<code, code>>
  BY <1>2
<1> QED BY <1>1, <1>2 DEF Reply

\* readResponse: what it leaves and the answer to what is sent next.
LEMMA ReceiveEffect ==
  ASSUME inbox \in Seq(Codes), NEW p, NEW reply \in Seq(Codes), Receive(p, reply)
  PROVE  /\ pc = p /\ inbox' \in Seq(Codes)
         /\ \A i \in DOMAIN inbox' : \/ \E j \in DOMAIN inbox : inbox'[i] = inbox[j]
                                     \/ \E j \in DOMAIN reply : inbox'[i] = reply[j]
         /\ inbox' = reply \/ (\E j \in DOMAIN inbox : inbox'[1] = inbox[j])
<1>1. PICK n \in DOMAIN inbox : inbox' = SubSeq(inbox, n + 1, Len(inbox)) \o reply
  BY DEF Receive
<1> DEFINE rest == SubSeq(inbox, n + 1, Len(inbox))
<1>2. n \in 1 .. Len(inbox) /\ Len(inbox) \in Nat /\ DOMAIN inbox = 1 .. Len(inbox)
  BY LenProperties
<1>3. /\ rest \in Seq(Codes) /\ Len(rest) = Len(inbox) - n
      /\ \A i \in 1 .. Len(inbox) - n : rest[i] = inbox[n + i]
  <2>1. n + 1 \in 1 .. Len(inbox) + 1 /\ Len(inbox) \in n .. Len(inbox)
    BY <1>2
  <2> QED BY <1>2, <2>1, SubSeqProperties
<1> HIDE DEF rest
<1>4. /\ inbox' \in Seq(Codes) /\ DOMAIN inbox' = 1 .. Len(rest) + Len(reply)
      /\ \A i \in 1 .. Len(rest) + Len(reply) :
           inbox'[i] = IF i <= Len(rest) THEN rest[i] ELSE reply[i - Len(rest)]
      /\ Len(reply) \in Nat /\ DOMAIN reply = 1 .. Len(reply)
  BY <1>1, <1>3, ConcatProperties, LenProperties DEF rest
<1>5. ASSUME NEW i \in DOMAIN inbox'
      PROVE  \/ \E j \in DOMAIN inbox : inbox'[i] = inbox[j]
             \/ \E j \in DOMAIN reply : inbox'[i] = reply[j]
  <2>1. CASE i <= Len(rest)
    <3>1. n + i \in DOMAIN inbox /\ inbox'[i] = inbox[n + i]
      BY <1>2, <1>3, <1>4, <1>5, <2>1
    <3> QED BY <3>1
  <2>2. CASE ~(i <= Len(rest))
    <3>1. i - Len(rest) \in DOMAIN reply /\ inbox'[i] = reply[i - Len(rest)]
      BY <1>2, <1>3, <1>4, <1>5, <2>2
    <3> QED BY <3>1
  <2> QED BY <2>1, <2>2
<1>6. inbox' = reply \/ \E j \in DOMAIN inbox : inbox'[1] = inbox[j]
  <2>1. CASE Len(rest) = 0
    <3>1. rest = <<>>
      BY <1>3, <2>1, EmptySeq
    <3> QED BY <1>1, <3>1, ConcatEmptySeq DEF rest
  <2>2. CASE Len(rest) # 0
    <3>1. n + 1 \in DOMAIN inbox /\ inbox'[1] = inbox[n + 1]
      BY <1>2, <1>3, <1>4, <2>2
    <3> QED BY <3>1
  <2> QED BY <2>1, <2>2
<1> QED BY <1>4, <1>5, <1>6 DEF Receive

\* An answer that arrives before anything was read.
LEMMA JoinEffect ==
  ASSUME inbox \in Seq(Codes), NEW reply \in Seq(Codes), inbox' = inbox \o reply
  PROVE  /\ inbox' \in Seq(Codes)
         /\ \A i \in DOMAIN inbox' : \/ \E j \in DOMAIN inbox : inbox'[i] = inbox[j]
                                     \/ \E j \in DOMAIN reply : inbox'[i] = reply[j]
         /\ inbox' = reply \/ (\E j \in DOMAIN inbox : inbox'[1] = inbox[j])
<1>1. /\ inbox' \in Seq(Codes) /\ DOMAIN inbox' = 1 .. Len(inbox) + Len(reply)
      /\ \A i \in 1 .. Len(inbox) + Len(reply) :
           inbox'[i] = IF i <= Len(inbox) THEN inbox[i] ELSE reply[i - Len(inbox)]
      /\ Len(reply) \in Nat /\ DOMAIN reply = 1 .. Len(reply)
      /\ Len(inbox) \in Nat /\ DOMAIN inbox = 1 .. Len(inbox)
  BY ConcatProperties, LenProperties
<1>2. ASSUME NEW i \in DOMAIN inbox'
      PROVE  \/ \E j \in DOMAIN inbox : inbox'[i] = inbox[j]
             \/ \E j \in DOMAIN reply : inbox'[i] = reply[j]
  <2>1. CASE i <= Len(inbox)
    <3>1. i \in DOMAIN inbox /\ inbox'[i] = inbox[i]
      BY <1>1, <1>2, <2>1
    <3> QED BY <3>1
  <2>2. CASE ~(i <= Len(inbox))
    <3>1. i - Len(inbox) \in DOMAIN reply /\ inbox'[i] = reply[i - Len(inbox)]
      BY <1>1, <1>2, <2>2
    <3> QED BY <3>1
  <2> QED BY <2>1, <2>2
<1>3. inbox' = reply \/ \E j \in DOMAIN inbox : inbox'[1] = inbox[j]
  <2>1. CASE inbox = <<>>
    BY <2>1, ConcatEmptySeq
  <2>2. CASE inbox # <<>>
    <3>1. 1 \in DOMAIN inbox
      BY <1>1, <2>2, EmptySeq
    <3>2. inbox'[1] = inbox[1]
      BY <1>1, <3>1
    <3> QED BY <3>1, <3>2
  <2> QED BY <2>1, <2>2
<1> QED BY <1>1, <1>2, <1>3

\* file.read finds a version that was written, and the other locals stay.
LEMMA ReadEffect ==
  ASSUME TypeOK, NEW parts, Read(parts)
  PROVE  \E v \in (1 .. MaxWrites) \cap {up.held, local[up.file].ver} :
           /\ parts = remote[up.file].parts \cup {v}
           /\ up' \in [file : Files, currentTime : 0 .. MaxClock, held : 0 .. MaxWrites]
           /\ up'.file = up.file /\ up'.currentTime = up.currentTime /\ up'.held = v
<1>1. up \in [file : Files, currentTime : 0 .. MaxClock, held : 0 .. MaxWrites]
  BY DEF TypeOK
<1>2. PICK v \in {up.held, local[up.file].ver} \ {0} :
        /\ parts = remote[up.file].parts \cup {v}
        /\ up' = [up EXCEPT !.held = v]
  BY DEF Read
<1>3. v \in 1 .. MaxWrites
  <2>1. local[up.file].ver \in 0 .. MaxWrites /\ up.held \in 0 .. MaxWrites
    BY <1>1 DEF TypeOK
  <2> QED BY <1>2, <2>1, BackupAssumption
<1> QED BY <1>1, <1>2, <1>3

-----------------------------------------------------------------------------
CopyRecord   == [parts : SUBSET (1 .. MaxWrites), whole : BOOLEAN]
UploadRecord == [file : Files, currentTime : 0 .. MaxClock, held : 0 .. MaxWrites]

\* The answers of every step are codes.
LEMMA Answers ==
  /\ \A p \in DOMAIN Ok : Ok[p] \in Codes /\ \A reply \in Reply(Ok[p]) : reply \in Seq(Codes)
  /\ \A reply \in Reply(Refusal) : reply \in Seq(Codes)
  /\ \A p \in DOMAIN Ok : \A reply \in Answer(p) : reply \in Seq(Codes)
  /\ <<>> \in Seq(Codes) /\ Refusal \in Codes
<1>1. (\A p \in DOMAIN Ok : Ok[p] \in Codes) /\ Refusal \in Codes
  BY DEF Codes
<1>2. <<>> \in Seq(Codes)
  BY EmptySeq
<1> QED BY <1>1, <1>2, ReplyProperties DEF Answer

LEMMA InboxType ==
  ASSUME TypeOK, [Next]_vars
  PROVE  inbox' \in Seq(Codes)
<1>0. inbox \in Seq(Codes)
  BY DEF TypeOK
<1>1. ASSUME NEW p, NEW reply \in Seq(Codes), Receive(p, reply)
      PROVE  inbox' \in Seq(Codes)
  BY <1>0, <1>1, ReceiveEffect
<1>2. ASSUME NEW reply \in Seq(Codes), inbox' = inbox \o reply
      PROVE  inbox' \in Seq(Codes)
  BY <1>0, <1>2, JoinEffect
<1>3. CASE Crash \/ Throw
  BY <1>3, Answers DEF Crash, Throw, Down
<1>4. CASE Start
  BY <1>4, Answers, OkCodes DEF Start
<1>5. ASSUME NEW p \in DOMAIN After, Login(p)
      PROVE  inbox' \in Seq(Codes)
  <2>1. After[p] \in DOMAIN Ok
    BY OkCodes
  <2> QED BY <1>1, <1>5, <2>1, Answers DEF Login
<1>6. CASE ChangedDirectory
  BY <1>1, <1>6, Answers, OkCodes DEF ChangedDirectory
<1>7. CASE Watch \/ SendData \/ Record
  BY <1>1, <1>7, Answers DEF Watch, SendData, Record
<1>8. ASSUME NEW f \in Files, Upload(f)
      PROVE  inbox' \in Seq(Codes)
  <2>1. PICK reply \in Answer("epsv") : inbox' = inbox \o reply
    BY ONLY <1>8 DEF Upload
  <2>2. reply \in Seq(Codes)
    BY ONLY reply \in Answer("epsv"), Answers, OkCodes
  <2> QED BY <1>2, <2>1, <2>2
<1>9. CASE Store
  BY <1>1, <1>9, Answers, OkCodes DEF Store
<1>10. CASE SendRest
  <2>1. PICK whole \in BOOLEAN :
          \E reply \in Reply(IF whole THEN Ok["transfer"] ELSE Refusal) : inbox' = inbox \o reply
    BY ONLY <1>10 DEF SendRest
  <2>2. PICK reply \in Reply(IF whole THEN Ok["transfer"] ELSE Refusal) : inbox' = inbox \o reply
    BY ONLY <2>1
  <2>3. reply \in Seq(Codes)
    BY ONLY reply \in Reply(IF whole THEN Ok["transfer"] ELSE Refusal), Answers, OkCodes
  <2> QED BY <1>2, <2>2, <2>3
<1>11. CASE Transferred
  BY <1>1, <1>11, Answers, OkCodes DEF Transferred
<1>12. CASE inbox' = inbox
  BY <1>0, <1>12
<1>13. CASE Tick \/ (\E f \in Files : Write(f) \/ Delete(f) \/ PassOver(f)) \/ RoundEnds \/ Poll
            \/ SendFirst \/ UNCHANGED vars
  BY <1>12, <1>13 DEF Tick, Write, Delete, PassOver, RoundEnds, Poll, SendFirst, vars
<1> QED BY <1>3, <1>4, <1>5, <1>6, <1>7, <1>8, <1>9, <1>10, <1>11, <1>13
        DEF Next, Session, Round, Transfer

LEMMA TypeStep ==
  ASSUME TypeOK, [Next]_vars
  PROVE  TypeOK'
<1> DEFINE Pcs  == DOMAIN Ok \cup {"down", "visit", "first", "rest", "sleep"}
           Rest == /\ clock' \in 1 .. MaxClock /\ writes' \in 0 .. MaxWrites
                   /\ starts' \in 0 .. MaxStarts
                   /\ local' \in [Files -> [ver : 0 .. MaxWrites, time : 0 .. MaxClock]]
                   /\ coarse' \subseteq Files /\ todo' \subseteq Files
                   /\ remote' \in [Files -> CopyRecord]
                   /\ pc' \in Pcs
                   /\ fileMap' \in [Files -> 0 .. MaxClock]
                   /\ up' \in UploadRecord
<1> SUFFICES Rest
  BY InboxType DEF TypeOK, CopyRecord, UploadRecord
<1>1. /\ clock \in 1 .. MaxClock /\ writes \in 0 .. MaxWrites /\ starts \in 0 .. MaxStarts
      /\ local \in [Files -> [ver : 0 .. MaxWrites, time : 0 .. MaxClock]]
      /\ coarse \subseteq Files /\ todo \subseteq Files
      /\ remote \in [Files -> CopyRecord]
      /\ pc \in Pcs
      /\ fileMap \in [Files -> 0 .. MaxClock]
      /\ up \in UploadRecord
  BY DEF TypeOK, CopyRecord, UploadRecord
<1>2. /\ MaxClock \in Nat \ {0} /\ MaxWrites \in Nat /\ MaxStarts \in Nat /\ TestFile \in Files
  BY BackupAssumption
<1>3. /\ NoCopy \in CopyRecord /\ NoUpload \in UploadRecord
      /\ \A parts \in SUBSET (1 .. writes), whole \in BOOLEAN : [parts |-> parts, whole |-> whole] \in CopyRecord
  BY <1>1, <1>2 DEF NoCopy, NoUpload, CopyRecord, UploadRecord
<1>4. /\ {"greeting", "user", "pass", "type", "cwd", "dele", "epsv", "stor", "transfer", "size",
          "down", "visit", "first", "rest", "sleep"} \subseteq Pcs
      /\ \A p \in DOMAIN After : After[p] \in Pcs
  BY OkCodes
<1> HIDE DEF Pcs
<1>5. CASE Tick
  BY <1>1, <1>2, <1>5 DEF Tick
<1>6. ASSUME NEW f \in Files, Write(f)
      PROVE  Rest
  <2>1. writes' \in 0 .. MaxWrites
    BY <1>1, <1>2, <1>6 DEF Write
  <2>2. [ver |-> writes', time |-> clock] \in [ver : 0 .. MaxWrites, time : 0 .. MaxClock]
    BY <1>1, <2>1
  <2>3. local' \in [Files -> [ver : 0 .. MaxWrites, time : 0 .. MaxClock]]
    BY <1>1, <1>6, <2>2 DEF Write
  <2> QED BY <1>1, <1>6, <2>1, <2>3 DEF Write
<1>7. ASSUME NEW f \in Files, Delete(f)
      PROVE  Rest
  <2>1. local' \in [Files -> [ver : 0 .. MaxWrites, time : 0 .. MaxClock]]
    BY <1>1, <1>2, <1>7 DEF Delete
  <2> QED BY <1>1, <1>7, <2>1 DEF Delete
<1>8. CASE Crash \/ Throw
  BY <1>1, <1>2, <1>3, <1>4, <1>8 DEF Crash, Throw, Down, dirVars
<1>9. CASE Start
  BY <1>1, <1>2, <1>4, <1>9 DEF Start, dirVars
<1>10. ASSUME NEW p \in DOMAIN After, Login(p)
       PROVE  Rest
  BY <1>1, <1>4, <1>10 DEF Login, dirVars
<1>11. CASE ChangedDirectory
  BY <1>1, <1>2, <1>3, <1>4, <1>11 DEF ChangedDirectory, dirVars
<1>12. CASE Watch \/ RoundEnds \/ Poll \/ SendData \/ Transferred
  BY <1>1, <1>4, <1>12 DEF Watch, RoundEnds, Poll, SendData, Transferred, dirVars, Present
<1>13. ASSUME NEW f \in Files, PassOver(f)
       PROVE  Rest
  BY <1>1, <1>13 DEF PassOver, dirVars
<1>14. ASSUME NEW f \in Files, Upload(f)
       PROVE  Rest
  <2>1. up' \in UploadRecord
    BY <1>1, <1>14 DEF Upload, UploadRecord
  <2> QED BY <1>1, <1>4, <1>14, <2>1 DEF Upload, dirVars
<1>15. CASE Store
  BY <1>1, <1>3, <1>4, <1>15 DEF Store, dirVars
<1>16. CASE SendFirst
  <2>1. PICK parts \in SUBSET (1 .. writes) :
          Read(parts) /\ remote' = [remote EXCEPT ![up.file].parts = parts]
    BY <1>16 DEF SendFirst
  <2>2. up' \in UploadRecord
    BY <2>1, ReadEffect DEF UploadRecord
  <2>3. parts \in SUBSET (1 .. MaxWrites)
    BY <1>1, <1>2
  <2>4. remote' \in [Files -> CopyRecord]
    BY <1>1, <2>1, <2>3 DEF CopyRecord
  <2> QED BY <1>1, <1>4, <1>16, <2>2, <2>4 DEF SendFirst, dirVars
<1>17. CASE SendRest
  <2>1. PICK parts \in SUBSET (1 .. writes), whole \in BOOLEAN :
          Read(parts) /\ remote' = [remote EXCEPT ![up.file] = [parts |-> parts, whole |-> whole]]
    BY <1>17 DEF SendRest
  <2>2. up' \in UploadRecord
    BY <2>1, ReadEffect DEF UploadRecord
  <2>3. remote' \in [Files -> CopyRecord]
    BY <1>1, <1>3, <2>1
  <2> QED BY <1>1, <1>4, <1>17, <2>2, <2>3 DEF SendRest, dirVars
<1>18. CASE Record
  <2>1. up.currentTime \in 0 .. MaxClock
    BY <1>1 DEF UploadRecord
  <2> QED BY <1>1, <1>4, <1>18, <2>1 DEF Record, dirVars
<1>19. CASE UNCHANGED vars
  BY <1>1, <1>19 DEF vars
<1> QED
  BY <1>5, <1>6, <1>7, <1>8, <1>9, <1>10, <1>11, <1>12, <1>13, <1>14, <1>15, <1>16, <1>17,
     <1>18, <1>19 DEF Next, Session, Round, Transfer

-----------------------------------------------------------------------------
LEMMA ClockStep ==
  ASSUME TypeOK, ClockInv, UploadInv, [Next]_vars
  PROVE  ClockInv'
<1>1. /\ clock \in Nat \ {0} /\ writes \in Nat
      /\ \A f \in Files : local[f].ver \in Nat /\ local[f].time \in Nat /\ fileMap[f] \in Nat
      /\ DOMAIN local = Files /\ DOMAIN fileMap = Files
      /\ up.file \in Files
  BY BackupAssumption DEF TypeOK
<1>2. DOMAIN After \cup {"down", "cwd", "dele"} =
        {"greeting", "user", "pass", "type", "down", "cwd", "dele"}
  BY OkCodes
<1>3. CASE Tick
  BY <1>1, <1>3 DEF Tick, ClockInv
<1>4. ASSUME NEW f \in Files, Write(f)
      PROVE  ClockInv'
  <2>1. /\ local'[f].ver = writes + 1 /\ local'[f].time = clock /\ writes' = writes + 1
        /\ \A g \in Files \ {f} : local'[g] = local[g]
        /\ UNCHANGED <<clock, fileMap, pc>>
    BY <1>1, <1>4 DEF Write
  <2>2. ASSUME NEW g \in Files
        PROVE  /\ fileMap[g] <= local'[g].time /\ local'[g].time <= clock
               /\ local'[g].ver <= writes' /\ (local'[g].ver # 0 => local'[g].time # 0)
    <3>1. /\ fileMap[g] <= local[g].time /\ local[g].time <= clock
          /\ local[g].ver <= writes /\ (local[g].ver # 0 => local[g].time # 0)
      BY DEF ClockInv
    <3> QED BY <1>1, <2>1, <3>1
  <2> QED BY <2>1, <2>2 DEF ClockInv
<1>5. ASSUME NEW f \in Files, Delete(f)
      PROVE  ClockInv'
  <2>1. /\ local'[f].ver = 0 /\ local'[f].time = local[f].time
        /\ \A g \in Files \ {f} : local'[g] = local[g]
        /\ UNCHANGED <<clock, writes, fileMap, pc>>
    BY <1>1, <1>5 DEF Delete, TypeOK
  <2>2. ASSUME NEW g \in Files
        PROVE  /\ fileMap[g] <= local'[g].time /\ local'[g].time <= clock
               /\ local'[g].ver <= writes' /\ (local'[g].ver # 0 => local'[g].time # 0)
    BY <1>1, <2>1 DEF ClockInv
  <2> QED BY <2>1, <2>2 DEF ClockInv
<1>6. CASE Crash \/ Throw
  <2>1. UNCHANGED <<clock, local, writes>> /\ fileMap' = [f \in Files |-> 0]
    BY <1>6 DEF Crash, Throw, Down, dirVars
  <2> QED BY <1>1, <2>1 DEF ClockInv
<1>7. CASE Record
  <2>1. /\ UNCHANGED <<clock, local, writes>> /\ pc' = "visit" /\ pc = "size"
        /\ fileMap' = [fileMap EXCEPT ![up.file] = up.currentTime]
    BY <1>7 DEF Record, Receive, dirVars
  <2>2. up.currentTime <= local[up.file].time
    BY <2>1 DEF UploadInv, InUpload
  <2> QED BY <1>1, <1>2, <2>1, <2>2 DEF ClockInv
<1>8. ASSUME UNCHANGED <<clock, local, writes, fileMap>>,
             pc' \notin DOMAIN After \cup {"down", "cwd", "dele"} \/ pc \in DOMAIN After \cup {"down", "cwd", "dele"}
      PROVE  ClockInv'
  BY <1>8 DEF ClockInv
<1>9. CASE Start \/ ChangedDirectory \/ Watch \/ RoundEnds \/ Poll \/ Store \/ SendData
           \/ SendFirst \/ SendRest \/ Transferred \/ UNCHANGED vars
  BY <1>2, <1>8, <1>9 DEF Start, ChangedDirectory, Watch, RoundEnds, Poll, Store, SendData,
     SendFirst, SendRest, Transferred, Receive, dirVars, vars
<1>10. ASSUME NEW f \in Files, PassOver(f) \/ Upload(f)
       PROVE  ClockInv'
  BY <1>2, <1>8, <1>10 DEF PassOver, Upload, dirVars
<1>11. ASSUME NEW p \in DOMAIN After, Login(p)
       PROVE  ClockInv'
  BY <1>8, <1>11 DEF Login, Receive, dirVars
<1> QED BY <1>3, <1>4, <1>5, <1>6, <1>7, <1>9, <1>10, <1>11 DEF Next, Session, Round, Transfer

-----------------------------------------------------------------------------
\* An answer without the code c does not bring it.
LEMMA HasBefore ==
  ASSUME NEW reply, NEW c, \A j \in DOMAIN reply : reply[j] # c,
         \A i \in DOMAIN inbox' : \/ \E j \in DOMAIN inbox : inbox'[i] = inbox[j]
                                  \/ \E j \in DOMAIN reply : inbox'[i] = reply[j]
  PROVE  Has(c)' => Has(c)
BY DEF Has

LEMMA AnswerCodes ==
  ASSUME NEW p \in DOMAIN Ok, NEW reply \in Answer(p)
  PROVE  reply \in Seq(Codes) /\ \A j \in DOMAIN reply : reply[j] \in {Ok[p], 550}
BY ReplyProperties, Answers, OkCodes DEF Answer

LEMMA InboxStep ==
  ASSUME TypeOK, InboxInv, [Next]_vars
  PROVE  InboxInv'
<1>0. inbox \in Seq(Codes)
  BY DEF TypeOK
<1>1. ASSUME NEW reply \in Seq(Codes), (\E p : Receive(p, reply)) \/ inbox' = inbox \o reply
      PROVE  /\ \A c : (\A j \in DOMAIN reply : reply[j] # c) => (Has(c)' => Has(c))
             /\ inbox' = reply \/ (\E j \in DOMAIN inbox : inbox'[1] = inbox[j])
  <2>1. /\ \A i \in DOMAIN inbox' : \/ \E j \in DOMAIN inbox : inbox'[i] = inbox[j]
                                    \/ \E j \in DOMAIN reply : inbox'[i] = reply[j]
        /\ inbox' = reply \/ (\E j \in DOMAIN inbox : inbox'[1] = inbox[j])
    BY <1>0, <1>1, ReceiveEffect, JoinEffect
  <2> QED BY <2>1, HasBefore
<1>2. ASSUME NEW p, Receive(p, <<>>)
       PROVE  (Has(150)' => Has(150)) /\ (Has(226)' => Has(226))
  <2>1. <<>> \in Seq(Codes) /\ DOMAIN <<>> = {}
    BY Answers, EmptySeq
  <2>2. \A c : Has(c)' => Has(c)
    BY ONLY <1>1, <1>2, <2>1
  <2> QED BY <2>2
<1>3. ASSUME pc \notin {"stor", "first", "rest", "transfer", "size"},
             pc' \notin {"stor", "first", "rest", "transfer", "size"},
             Has(150)' => Has(150), Has(226)' => Has(226)
      PROVE  InboxInv'
  BY <1>3 DEF InboxInv
<1>4. CASE Crash \/ Throw
  <2>1. inbox' = <<>> /\ pc' = "down"
    BY <1>4 DEF Crash, Throw, Down
  <2> QED BY <2>1, EmptySeq DEF InboxInv, Has
<1>5. CASE Start
  <2>1. pc' = "greeting" /\ \A i \in DOMAIN inbox' : inbox'[i] = 220
    BY <1>5, ReplyProperties, Answers, OkCodes DEF Start
  <2> QED BY <2>1 DEF InboxInv, Has
<1>6. ASSUME NEW p \in DOMAIN After, Login(p)
      PROVE  InboxInv'
  <2>1. /\ After[p] \in {"user", "pass", "type", "cwd"} /\ p \in {"greeting", "user", "pass", "type"}
        /\ After[p] \in DOMAIN Ok /\ Ok[After[p]] \in {331, 230, 200, 250}
    BY OkCodes
  <2>2. PICK reply \in Answer(After[p]) : Receive(p, reply)
    BY <1>6 DEF Login
  <2>3. reply \in Seq(Codes) /\ \A j \in DOMAIN reply : reply[j] \notin {150, 226}
    BY <2>1, AnswerCodes
  <2>4. pc = p /\ pc' = After[p]
    BY <1>6, <2>2 DEF Login, Receive
  <2> QED BY <1>1, <1>3, <2>1, <2>2, <2>3, <2>4
<1>7. CASE ChangedDirectory
  <2>1. PICK c \in {Ok["dele"], Refusal} : \E reply \in Reply(c) : Receive("cwd", reply)
    BY <1>7 DEF ChangedDirectory
  <2>2. PICK reply \in Reply(c) : Receive("cwd", reply)
    BY <2>1
  <2>3. reply \in Seq(Codes) /\ \A j \in DOMAIN reply : reply[j] \notin {150, 226}
    BY <2>1, ReplyProperties, Answers, OkCodes
  <2>4. pc = "cwd" /\ pc' = "dele"
    BY <1>7, <2>2 DEF ChangedDirectory, Receive
  <2> QED BY <1>1, <1>3, <2>2, <2>3, <2>4
<1>8. CASE Watch
  <2>1. pc = "dele" /\ pc' = "visit" /\ Receive("dele", <<>>)
    BY <1>8 DEF Watch, Receive
  <2> QED BY <1>3, <1>2, <2>1
<1>9. ASSUME NEW f \in Files, Upload(f)
      PROVE  InboxInv'
  <2>1. PICK reply \in Answer("epsv") : inbox' = inbox \o reply
    BY <1>9 DEF Upload
  <2>2. reply \in Seq(Codes) /\ \A j \in DOMAIN reply : reply[j] \notin {150, 226}
    BY AnswerCodes, OkCodes
  <2>3. pc = "visit" /\ pc' = "epsv"
    BY <1>9 DEF Upload
  <2> QED BY <1>1, <1>3, <2>1, <2>2, <2>3
<1>10. CASE Store
  <2>1. PICK reply \in Answer("stor") : Receive("epsv", reply)
    BY <1>10 DEF Store, Answer
  <2>2. reply \in Seq(Codes) /\ \A j \in DOMAIN reply : reply[j] # 226
    BY AnswerCodes, OkCodes
  <2>3. pc = "epsv" /\ pc' = "stor"
    BY <1>10, <2>1 DEF Store, Receive
  <2> QED BY <1>1, <2>1, <2>2, <2>3 DEF InboxInv
<1>11. CASE SendData
  <2>1. pc = "stor" /\ pc' = "first" /\ Receive("stor", <<>>)
    BY <1>11 DEF SendData, Receive
  <2>2. Has(226)' => Has(226)
    BY <1>2, <2>1
  <2> QED BY <2>1, <2>2 DEF InboxInv
<1>12. CASE SendFirst
  BY <1>12 DEF SendFirst, InboxInv, Has
<1>13. CASE SendRest
  <2>1. PICK whole \in BOOLEAN :
          \E reply \in Reply(IF whole THEN Ok["transfer"] ELSE Refusal) : inbox' = inbox \o reply
    BY <1>13 DEF SendRest
  <2>2. PICK reply \in Reply(IF whole THEN Ok["transfer"] ELSE Refusal) : inbox' = inbox \o reply
    BY <2>1
  <2>3. reply \in Seq(Codes)
    BY Answers, OkCodes
  <2>4. \A i \in DOMAIN reply : reply[i] = IF whole THEN 226 ELSE 550
    BY ReplyProperties, Answers, OkCodes
  <2>5. pc = "rest" /\ pc' = "transfer"
    BY <1>13 DEF SendRest
  <2>6. ASSUME Positive("transfer")'
        PROVE  \A i \in DOMAIN inbox' : inbox'[i] = 226
    <3>1. inbox'[1] = 226 /\ inbox' # <<>>
      BY <2>6, OkCodes DEF Positive
    <3>2. inbox' = reply
      BY <1>1, <2>2, <2>3, <2>5, <3>1 DEF InboxInv, Has
    <3>3. 1 \in DOMAIN reply
      BY <2>3, <3>1, <3>2, EmptySeq, LenProperties
    <3> QED BY <2>4, <3>1, <3>2, <3>3
  <2> QED BY <2>5, <2>6 DEF InboxInv
<1>14. CASE Transferred
  <2>1. PICK reply \in Answer("size") : Receive("transfer", reply)
    BY <1>14 DEF Transferred
  <2>2. reply \in Seq(Codes) /\ \A j \in DOMAIN reply : reply[j] \notin {150, 226}
    BY AnswerCodes, OkCodes
  <2>3. pc = "transfer" /\ pc' = "size" /\ \A i \in DOMAIN inbox : inbox[i] = 226
    BY <1>14, <2>1 DEF Transferred, Receive, InboxInv
  <2>4. Has(150)' => Has(150)
    BY <1>1, <2>1, <2>2
  <2>5. inbox' = reply \/ inbox'[1] = 226
    BY <1>1, <2>1, <2>2, <2>3
  <2> QED BY <2>2, <2>3, <2>4, <2>5 DEF InboxInv, Has
<1>15. CASE Record
  <2>1. pc = "size" /\ pc' = "visit" /\ Receive("size", <<>>) /\ inbox[1] = 213
    <3>1. pc' = "visit" /\ Receive("size", <<>>) /\ inbox[1] = Ok["size"]
      BY ONLY <1>15 DEF Record, Positive
    <3>2. pc = "size"
      BY ONLY <3>1 DEF Receive
    <3> QED BY ONLY <3>1, <3>2, OkCodes
  <2>2. (Has(150)' => Has(150)) /\ (Has(226)' => Has(226))
    BY <1>2, <2>1
  <2>3. ~Has(150) /\ ~Has(226)
    BY <2>1 DEF InboxInv
  <2> QED BY <2>1, <2>2, <2>3 DEF InboxInv
<1>16. CASE UNCHANGED <<inbox, pc>>
  BY <1>16 DEF InboxInv, Has, Positive
<1>17. CASE RoundEnds \/ Poll
  BY <1>17 DEF RoundEnds, Poll, InboxInv, Has
<1>18. CASE Tick \/ (\E f \in Files : Write(f) \/ Delete(f) \/ PassOver(f)) \/ UNCHANGED vars
  BY <1>16, <1>18 DEF Tick, Write, Delete, PassOver, vars
<1> QED BY <1>4, <1>5, <1>6, <1>7, <1>8, <1>9, <1>10, <1>11, <1>12, <1>13, <1>14, <1>15, <1>17,
           <1>18 DEF Next, Session, Round, Transfer

-----------------------------------------------------------------------------
LEMMA UploadStep ==
  ASSUME TypeOK, ClockInv, InboxInv, UploadInv, [Next]_vars
  PROVE  UploadInv'
<1>1. /\ clock \in Nat \ {0} /\ writes \in Nat
      /\ \A f \in Files : local[f].ver \in Nat /\ local[f].time \in Nat /\ fileMap[f] \in Nat
      /\ DOMAIN local = Files /\ DOMAIN fileMap = Files
      /\ up.file \in Files /\ up.currentTime \in Nat /\ up.held \in Nat
      /\ \A f \in Files : remote[f].parts \subseteq Nat
      /\ inbox \in Seq(Codes)
  BY BackupAssumption DEF TypeOK
<1>2. \A f \in Files : /\ fileMap[f] <= local[f].time /\ local[f].time <= clock
                       /\ local[f].ver <= writes
  BY DEF ClockInv
<1>3. CASE Tick \/ UNCHANGED vars
  BY <1>3 DEF Tick, vars, UploadInv, InUpload, Same, Positive
<1>4. ASSUME NEW f \in Files, Write(f), InUpload
      PROVE  UploadInv'
  <2>1. /\ local'[f].ver = writes + 1 /\ local'[f].time = clock /\ writes' = writes + 1
        /\ \A g \in Files \ {f} : local'[g] = local[g]
        /\ UNCHANGED <<clock, fileMap, pc, up, remote, inbox>>
        /\ coarse \subseteq coarse' /\ (local[f].time = clock => f \in coarse')
    BY <1>1, <1>4 DEF Write
  <2>2. /\ fileMap[up.file] < local[up.file].time
        /\ up.currentTime <= local[up.file].time
        /\ up.held \in 1 .. writes
        /\ Same => local[up.file].ver \in {0, up.held}
        /\ pc = "stor" /\ Positive("stor") => remote[up.file] = NoCopy
        /\ pc = "first" => remote[up.file] = NoCopy
        /\ pc \in {"rest", "transfer", "size"} /\ Same => remote[up.file].parts = {up.held}
        /\ pc = "transfer" /\ Positive("transfer") => remote[up.file].whole
        /\ pc = "size" => remote[up.file].whole
    BY <1>4 DEF UploadInv
  <2>3. /\ fileMap'[up.file] < local'[up.file].time
        /\ up.currentTime <= local'[up.file].time
        /\ up.held \in 1 .. writes'
    BY <1>1, <1>2, <2>1, <2>2
  <2>4. Same' => Same /\ local'[up.file] = local[up.file]
    BY <1>1, <1>2, <2>1, <2>2 DEF Same
  <2>5. Positive("stor")' = Positive("stor") /\ Positive("transfer")' = Positive("transfer")
    BY <2>1 DEF Positive
  <2> QED BY <2>1, <2>2, <2>3, <2>4, <2>5 DEF UploadInv
<1>5. ASSUME NEW f \in Files, Delete(f), InUpload
      PROVE  UploadInv'
  <2>1. /\ local'[f].ver = 0 /\ \A g \in Files : local'[g].time = local[g].time
        /\ \A g \in Files \ {f} : local'[g] = local[g]
        /\ UNCHANGED <<clock, writes, coarse, fileMap, pc, up, remote, inbox>>
    BY <1>1, <1>5 DEF Delete, TypeOK
  <2>2. /\ Same' <=> Same
        /\ local'[up.file].ver \in {0, local[up.file].ver}
        /\ Positive("stor")' = Positive("stor") /\ Positive("transfer")' = Positive("transfer")
    BY <1>1, <2>1 DEF Same, Positive
  <2> QED BY <1>1, <1>5, <2>1, <2>2 DEF UploadInv
<1>6. pc' \in {"down", "greeting", "user", "pass", "type", "cwd", "dele", "visit", "sleep"} =>
        UploadInv'
  BY DEF UploadInv, InUpload
<1>7. ASSUME NEW f \in Files, Upload(f)
      PROVE  UploadInv'
  <2>1. /\ pc' = "epsv" /\ f \in Present /\ fileMap[f] # local[f].time
        /\ up' = [file |-> f, currentTime |-> local[f].time, held |-> local[f].ver]
        /\ UNCHANGED <<local, fileMap, writes, coarse>>
    BY <1>7 DEF Upload, dirVars
  <2>2. up'.file = f /\ up'.currentTime = local[f].time /\ up'.held = local[f].ver
    BY <2>1
  <2>3. local[f].ver \in 1 .. writes /\ fileMap[f] < local[f].time
    BY <1>1, <1>2, <2>1 DEF Present
  <2> QED BY <1>1, <2>1, <2>2, <2>3 DEF UploadInv, InUpload, Same
<1>8. ASSUME UNCHANGED <<dirVars, fileMap>>, up'.file = up.file, up'.currentTime = up.currentTime,
             InUpload
      PROVE  /\ fileMap'[up'.file] < local'[up'.file].time
             /\ up'.currentTime <= local'[up'.file].time
             /\ Same' <=> Same
  BY <1>8 DEF dirVars, UploadInv, Same
<1>9. CASE Store
  <2>1. /\ pc = "epsv" /\ pc' = "stor" /\ UNCHANGED <<dirVars, fileMap, up>>
    BY <1>9 DEF Store, Receive
  <2>2. ASSUME Positive("stor")'
        PROVE  remote'[up.file] = NoCopy
    <3>1. CASE remote' = [remote EXCEPT ![up.file] = NoCopy]
      BY <1>1, <3>1 DEF TypeOK
    <3>2. ASSUME NEW reply \in Reply(Refusal), Receive("epsv", reply)
          PROVE  FALSE
      <4>1. reply \in Seq(Codes) /\ reply # <<>> /\ reply[1] = 550
        BY ReplyProperties, Answers, OkCodes
      <4>2. ~Has(150)
        BY <2>1 DEF InboxInv
      <4>3. inbox'[1] = 150
        BY <2>2, OkCodes DEF Positive
      <4> QED BY <1>1, <3>2, <4>1, <4>2, <4>3, ReceiveEffect DEF Has
    <3> QED BY <1>9, <3>1, <3>2 DEF Store
  <2>3. InUpload
    BY <2>1 DEF InUpload
  <2> QED BY <1>8, <2>1, <2>2, <2>3 DEF UploadInv, dirVars
<1>10. CASE SendData
  <2>1. /\ pc = "stor" /\ pc' = "first" /\ UNCHANGED <<dirVars, remote, fileMap, up>>
        /\ Positive("stor")
    BY <1>10 DEF SendData, Receive
  <2>2. InUpload
    BY <2>1 DEF InUpload
  <2> QED BY <1>8, <2>1, <2>2 DEF UploadInv, dirVars
<1>11. ASSUME NEW parts \in SUBSET (1 .. writes), Read(parts), InUpload
       PROVE  /\ up'.file = up.file /\ up'.currentTime = up.currentTime
              /\ up'.held \in 1 .. writes /\ parts = remote[up.file].parts \cup {up'.held}
              /\ Same => up'.held = up.held
  <2>1. PICK v \in (1 .. MaxWrites) \cap {up.held, local[up.file].ver} :
          /\ parts = remote[up.file].parts \cup {v}
          /\ up'.file = up.file /\ up'.currentTime = up.currentTime /\ up'.held = v
    BY <1>11, ReadEffect
  <2>2. up.held \in 1 .. writes /\ local[up.file].ver <= writes
    BY <1>1, <1>2, <1>11 DEF UploadInv
  <2>3. v \in 1 .. writes
    BY <1>1, <2>1, <2>2, BackupAssumption
  <2>4. Same => v = up.held
    BY <1>11, <2>1, <2>3 DEF UploadInv
  <2> QED BY <2>1, <2>3, <2>4
<1>12. CASE SendFirst
  <2>1. /\ pc = "first" /\ pc' = "rest" /\ UNCHANGED <<dirVars, fileMap>> /\ InUpload
    BY <1>12 DEF SendFirst, InUpload
  <2>2. PICK parts \in SUBSET (1 .. writes) :
          Read(parts) /\ remote' = [remote EXCEPT ![up.file].parts = parts]
    BY <1>12 DEF SendFirst
  <2>3. /\ up'.file = up.file /\ up'.currentTime = up.currentTime
        /\ up'.held \in 1 .. writes /\ parts = remote[up.file].parts \cup {up'.held}
        /\ Same => up'.held = up.held
    BY <1>11, <2>1, <2>2
  <2>4. remote'[up.file].parts = parts
    BY <1>1, <2>2 DEF TypeOK
  <2>5. remote[up.file].parts = {}
    BY <2>1 DEF UploadInv, NoCopy
  <2>6. Same => local[up.file].ver \in {0, up.held}
    BY <2>1 DEF UploadInv
  <2> QED BY <1>8, <2>1, <2>3, <2>4, <2>5, <2>6 DEF UploadInv, dirVars
<1>13. CASE SendRest
  <2>1. /\ pc = "rest" /\ pc' = "transfer" /\ UNCHANGED <<dirVars, fileMap>> /\ InUpload
    BY <1>13 DEF SendRest, InUpload
  <2>2. PICK parts \in SUBSET (1 .. writes), whole \in BOOLEAN :
          /\ Read(parts)
          /\ remote' = [remote EXCEPT ![up.file] = [parts |-> parts, whole |-> whole]]
          /\ \E reply \in Reply(IF whole THEN Ok["transfer"] ELSE Refusal) :
               inbox' = inbox \o reply
    BY <1>13 DEF SendRest
  <2>3. /\ up'.file = up.file /\ up'.currentTime = up.currentTime
        /\ up'.held \in 1 .. writes /\ parts = remote[up.file].parts \cup {up'.held}
        /\ Same => up'.held = up.held
    BY <1>11, <2>1, <2>2
  <2>4. remote'[up.file].parts = parts /\ remote'[up.file].whole = whole
    BY <1>1, <2>2 DEF TypeOK
  <2>5. /\ Same => remote[up.file].parts = {up.held}
        /\ Same => local[up.file].ver \in {0, up.held}
    BY <2>1 DEF UploadInv
  <2>6. ASSUME Positive("transfer")', ~whole
        PROVE  FALSE
    <3>1. PICK reply \in Reply(Refusal) : inbox' = inbox \o reply
      BY <2>2, <2>6
    <3>2. reply \in Seq(Codes) /\ reply[1] = 550
      BY ReplyProperties, Answers, OkCodes
    <3>3. inbox'[1] = 226
      BY <2>6, OkCodes DEF Positive
    <3>4. ~Has(226)
      BY <2>1 DEF InboxInv
    <3>5. inbox' = reply \/ \E j \in DOMAIN inbox : inbox'[1] = inbox[j]
      BY <1>1, <3>1, <3>2, JoinEffect
    <3> QED BY <3>2, <3>3, <3>4, <3>5 DEF Has
  <2>7. Same' => remote'[up'.file].parts = {up'.held}
    BY <1>8, <2>1, <2>3, <2>4, <2>5
  <2>8. Same' => local'[up'.file].ver \in {0, up'.held}
    BY <1>8, <2>1, <2>3, <2>5 DEF dirVars
  <2>9. Positive("transfer")' => remote'[up'.file].whole
    BY <2>2, <2>3, <2>4, <2>6
  <2> QED BY <1>8, <2>1, <2>3, <2>7, <2>8, <2>9 DEF UploadInv, dirVars
<1>14. CASE Transferred
  <2>1. /\ pc = "transfer" /\ pc' = "size" /\ UNCHANGED <<dirVars, remote, fileMap, up>>
        /\ Positive("transfer")
    BY <1>14 DEF Transferred, Receive
  <2>2. InUpload
    BY <2>1 DEF InUpload
  <2> QED BY <1>8, <2>1, <2>2 DEF UploadInv, dirVars
<1>15. CASE Crash \/ Throw \/ Start \/ ChangedDirectory \/ Watch \/ RoundEnds \/ Poll \/ Record
  BY <1>6, <1>15 DEF Crash, Throw, Down, Start, ChangedDirectory, Watch, RoundEnds, Poll, Record
<1>16. ASSUME NEW p \in DOMAIN After, Login(p)
       PROVE  UploadInv'
  BY <1>6, <1>16, OkCodes DEF Login
<1>17. ASSUME NEW f \in Files, PassOver(f)
       PROVE  UploadInv'
  BY <1>6, <1>17 DEF PassOver
<1>18. ASSUME NEW f \in Files, Write(f) \/ Delete(f), ~InUpload
       PROVE  UploadInv'
  BY <1>18 DEF Write, Delete, UploadInv, InUpload
<1> QED BY <1>3, <1>4, <1>5, <1>7, <1>9, <1>10, <1>12, <1>13, <1>14, <1>15, <1>16, <1>17, <1>18
        DEF Next, Session, Round, Transfer

-----------------------------------------------------------------------------
LEMMA StoredStep ==
  ASSUME TypeOK, ClockInv, UploadInv, RecordedIsStored, [Next]_vars
  PROVE  RecordedIsStored'
<1>1. /\ clock \in Nat \ {0}
      /\ \A f \in Files : local[f].ver \in Nat /\ local[f].time \in Nat /\ fileMap[f] \in Nat
      /\ up.file \in Files
  BY BackupAssumption DEF TypeOK
<1>2. \A f \in Files : /\ fileMap[f] <= local[f].time /\ local[f].time <= clock
                       /\ local[f].ver # 0 => local[f].time # 0
  BY DEF ClockInv
<1>3. ASSUME UNCHANGED <<local, coarse, fileMap>>,
             \A f \in Files : fileMap[f] = local[f].time => remote'[f] = remote[f]
      PROVE  RecordedIsStored'
  BY <1>3 DEF RecordedIsStored, Present
<1>4. ASSUME NEW f \in Files, Write(f)
      PROVE  RecordedIsStored'
  <2>1. /\ local'[f].time = clock
        /\ \A g \in Files \ {f} : local'[g] = local[g]
        /\ UNCHANGED <<fileMap, remote>>
        /\ coarse \subseteq coarse' /\ (local[f].time = clock => f \in coarse')
    BY <1>4 DEF Write, TypeOK
  <2>2. f \in coarse' \/ fileMap'[f] # local'[f].time
    BY <1>1, <1>2, <2>1
  <2>3. \A g \in Files \ {f} : g \in Present' => g \in Present
    BY <2>1 DEF Present
  <2> QED BY <2>1, <2>2, <2>3 DEF RecordedIsStored, Present
<1>5. ASSUME NEW f \in Files, Delete(f)
      PROVE  RecordedIsStored'
  <2>1. /\ local'[f].ver = 0
        /\ \A g \in Files \ {f} : local'[g] = local[g]
        /\ UNCHANGED <<coarse, fileMap, remote>>
    BY <1>5 DEF Delete, TypeOK
  <2>2. \A g \in Present' : g # f /\ g \in Present
    BY <2>1 DEF Present
  <2> QED BY <2>1, <2>2 DEF RecordedIsStored, Present
<1>6. CASE Crash \/ Throw
  <2>1. UNCHANGED <<local, coarse>> /\ fileMap' = [f \in Files |-> 0]
    BY <1>6 DEF Crash, Throw, Down, dirVars
  <2> QED BY <1>1, <1>2, <2>1 DEF RecordedIsStored, Present
<1>7. CASE ChangedDirectory
  <2>1. UNCHANGED <<local, coarse, fileMap>> /\ pc = "cwd"
    BY <1>7 DEF ChangedDirectory, Receive, dirVars
  <2>2. \A f \in Files : fileMap[f] = 0
    BY <2>1 DEF ClockInv
  <2> QED BY <1>2, <2>1, <2>2 DEF RecordedIsStored, Present
<1>8. CASE Store \/ SendFirst \/ SendRest
  <2>1. UNCHANGED <<local, coarse, fileMap>> /\ InUpload
    BY <1>8 DEF Store, SendFirst, SendRest, Receive, InUpload, dirVars
  <2>2. \A f \in Files : f # up.file => remote'[f] = remote[f]
    BY <1>8 DEF Store, SendFirst, SendRest, TypeOK
  <2>3. fileMap[up.file] # local[up.file].time
    BY <1>1, <2>1 DEF UploadInv
  <2> QED BY <1>3, <2>1, <2>2, <2>3
<1>9. CASE Record
  <2>1. /\ pc = "size" /\ UNCHANGED <<local, coarse, remote>>
        /\ fileMap' = [fileMap EXCEPT ![up.file] = up.currentTime]
    BY <1>9 DEF Record, Receive, dirVars
  <2>2. \A f \in Files \ {up.file} : fileMap'[f] = fileMap[f]
    BY <2>1 DEF TypeOK
  <2>3. ASSUME up.file \in Present' \ coarse', fileMap'[up.file] = local'[up.file].time
        PROVE  remote'[up.file] = [parts |-> {local'[up.file].ver}, whole |-> TRUE]
    <3>1. Same /\ local[up.file].ver # 0
      BY <1>1, <2>1, <2>3 DEF Same, Present, TypeOK
    <3>2. remote[up.file].parts = {local[up.file].ver} /\ remote[up.file].whole
      BY <2>1, <3>1 DEF UploadInv, InUpload
    <3>3. remote[up.file] \in CopyRecord
      BY <1>1 DEF TypeOK, CopyRecord
    <3>4. remote[up.file].whole = TRUE
      BY <3>2, <3>3 DEF CopyRecord
    <3> QED BY <2>1, <3>2, <3>3, <3>4 DEF CopyRecord
  <2> QED BY <2>1, <2>2, <2>3 DEF RecordedIsStored, Present
<1>10. CASE Tick \/ Start \/ (\E p \in DOMAIN After : Login(p)) \/ Watch \/ RoundEnds \/ Poll
            \/ (\E f \in Files : PassOver(f) \/ Upload(f)) \/ SendData \/ Transferred
            \/ UNCHANGED vars
  BY <1>3, <1>10 DEF Tick, Start, Login, Watch, RoundEnds, Poll, PassOver, Upload, SendData,
     Transferred, dirVars, vars
<1> QED BY <1>4, <1>5, <1>6, <1>7, <1>8, <1>9, <1>10 DEF Next, Session, Round, Transfer

LEMMA WholeStep ==
  ASSUME TypeOK, ClockInv, UploadInv, RecordedIsWhole, [Next]_vars
  PROVE  RecordedIsWhole'
<1>1. up.file \in Files
  BY DEF TypeOK
<1>2. \A f \in Files : Uploading(f) <=> up.file = f /\ InUpload
  BY DEF Uploading, InUpload
<1>3. \A f \in Files : Uploading(f)' <=> up'.file = f /\ InUpload'
  BY DEF Uploading, InUpload
<1>4. ASSUME UNCHANGED <<fileMap, remote>>, InUpload => InUpload' /\ up'.file = up.file
      PROVE  RecordedIsWhole'
  BY <1>2, <1>3, <1>4 DEF RecordedIsWhole
<1>5. CASE Crash \/ Throw
  BY <1>5 DEF Crash, Throw, Down, RecordedIsWhole
<1>6. CASE ChangedDirectory
  <2>1. \A f \in Files : fileMap'[f] = 0
    BY <1>6 DEF ChangedDirectory, Receive, ClockInv
  <2> QED BY <2>1 DEF RecordedIsWhole
<1>7. CASE Store \/ SendFirst \/ SendRest
  <2>1. fileMap' = fileMap /\ InUpload /\ InUpload'
    BY <1>7 DEF Store, SendFirst, SendRest, Receive, InUpload
  <2>2. \A f \in Files : f # up.file => remote'[f] = remote[f]
    BY <1>7 DEF Store, SendFirst, SendRest, TypeOK
  <2>3. up'.file = up.file
    BY <1>7, ReadEffect DEF Store, SendFirst, SendRest
  <2> QED BY <1>2, <1>3, <2>1, <2>2, <2>3 DEF RecordedIsWhole
<1>8. CASE Record
  <2>1. /\ pc = "size" /\ remote' = remote
        /\ fileMap' = [fileMap EXCEPT ![up.file] = up.currentTime]
    BY <1>8 DEF Record, Receive
  <2>2. \A f \in Files \ {up.file} : fileMap'[f] = fileMap[f]
    BY <2>1 DEF TypeOK
  <2>3. remote[up.file].whole
    BY <2>1 DEF UploadInv, InUpload
  <2> QED BY <1>2, <2>1, <2>2, <2>3 DEF RecordedIsWhole
<1>9. CASE Tick \/ Start \/ (\E p \in DOMAIN After : Login(p)) \/ Watch \/ RoundEnds \/ Poll
           \/ (\E f \in Files : Write(f) \/ Delete(f) \/ PassOver(f) \/ Upload(f))
           \/ UNCHANGED vars
  <2>1. UNCHANGED <<fileMap, remote>>
    BY <1>9 DEF Tick, Start, Login, Watch, RoundEnds, Poll, Write, Delete, PassOver, Upload, vars
  <2>2. InUpload => InUpload' /\ up' = up
    BY <1>9, OkCodes DEF Tick, Start, Login, Watch, RoundEnds, Poll, Write, Delete, PassOver,
       Upload, Receive, InUpload, vars
  <2> QED BY <1>4, <2>1, <2>2
<1>10. CASE SendData \/ Transferred
  BY <1>4, <1>10 DEF SendData, Transferred, Receive, InUpload
<1> QED BY <1>5, <1>6, <1>7, <1>8, <1>9, <1>10 DEF Next, Session, Round, Transfer

-----------------------------------------------------------------------------
LEMMA InitInv == Init => BackupInv
<1> SUFFICES ASSUME Init PROVE BackupInv
  OBVIOUS
<1>1. NoCopy \in CopyRecord /\ OldCopy \in CopyRecord /\ NoUpload \in UploadRecord
  BY BackupAssumption DEF NoCopy, OldCopy, NoUpload, CopyRecord, UploadRecord
<1>2. TypeOK
  <2>1. remote \in [Files -> CopyRecord]
    BY <1>1 DEF Init
  <2>2. local \in [Files -> [ver : 0 .. MaxWrites, time : 0 .. MaxClock]]
    BY BackupAssumption DEF Init
  <2>3. inbox \in Seq(Codes) /\ pc = "down"
    BY EmptySeq DEF Init
  <2> QED BY <1>1, <2>1, <2>2, <2>3, BackupAssumption DEF Init, TypeOK, CopyRecord, UploadRecord
<1>3. ClockInv /\ InboxInv /\ UploadInv
  BY EmptySeq DEF Init, ClockInv, InboxInv, UploadInv, InUpload, Has
<1>4. RecordedIsStored /\ RecordedIsWhole
  BY DEF Init, RecordedIsStored, RecordedIsWhole, Present
<1> QED BY <1>2, <1>3, <1>4 DEF BackupInv

LEMMA NextInv == BackupInv /\ [Next]_vars => BackupInv'
BY TypeStep, ClockStep, InboxStep, UploadStep, StoredStep, WholeStep DEF BackupInv

LEMMA Invariance == Spec => []BackupInv
BY InitInv, NextInv, PTL DEF Spec

\* Every variable of the client keeps its type.
THEOREM TypeCorrectness == Spec => []TypeOK
<1>1. BackupInv => TypeOK
  BY DEF BackupInv
<1> QED BY <1>1, Invariance, PTL

\* checkForChanges passes over a file only if the server has it as it is: the time was read
\* before the upload, so that a write during it is seen as a change.
THEOREM WhatIsPassedOverIsStored == Spec => []RecordedIsStored
<1>1. BackupInv => RecordedIsStored
  BY DEF BackupInv
<1> QED BY <1>1, Invariance, PTL

\* Although an answer can be taken for that to a later command, no upload is recorded that
\* the server did not complete: what is left unread never holds the code that is awaited.
THEOREM WhatIsRecordedIsWhole == Spec => []RecordedIsWhole
<1>1. BackupInv => RecordedIsWhole
  BY DEF BackupInv
<1> QED BY <1>1, Invariance, PTL
=============================================================================
