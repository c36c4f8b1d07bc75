------------------------------- MODULE Backup -------------------------------
(***************************************************************************)
(* The backup client (Prac8): main logs in to an FTP server, uploads the   *)
(* .txt files of a directory and then polls it, uploading what is new or   *)
(* has another modification time.  Whoever writes the directory, and the   *)
(* FTP server, are the environment.                                        *)
(*                                                                         *)
(* A response is what one recv returns: any beginning of the fragments     *)
(* that have arrived, of which only the first one's code is looked at.  A  *)
(* response of several lines can arrive in two fragments.                  *)
(***************************************************************************)
EXTENDS Integers, Sequences, FiniteSets

CONSTANTS
  Files,      \* names of .txt files
  TestFile,   \* "test.txt"
  MaxClock,   \* bound: ticks of the file system's clock
  MaxWrites,  \* bound: writes to the directory
  MaxStarts   \* bound: starts of the program

ASSUME BackupAssumption ==
  /\ IsFiniteSet(Files) /\ TestFile \in Files
  /\ MaxClock \in Nat \ {0} /\ MaxWrites \in Nat /\ MaxStarts \in Nat

VARIABLES
  clock,   \* the time a write gives its file
  local,   \* the directory: each file's version ver, 0 when there is none, and its time
  writes,  \* writes so far; a write makes the version of its number
  coarse,  \* history: the files written twice in one tick of the clock
  remote,  \* the server's copies: the versions the bytes are from, and whether it is whole
  inbox,   \* the fragments of responses sent and not read
  pc,      \* what the client does, "down" when it does not run
  fileMap, \* the time each file is recorded with, 0 when it is not
  todo,    \* the files backupFiles has still to visit
  up,      \* locals of the upload: file, currentTime, and the version read last
  starts   \* starts so far

vars == <<clock, local, writes, coarse, remote, inbox, pc, fileMap, todo, up, starts>>

dirVars == <<clock, local, writes, coarse>>

NoUpload == [file |-> TestFile, currentTime |-> 0, held |-> 0]
NoCopy   == [parts |-> {}, whole |-> FALSE]

\* What the server holds from before the first start.
OldCopy == [parts |-> {}, whole |-> TRUE]

\* What the client waits for, and the code that means success: the greeting and the login
\* are not tested, the others each where they are read.
Ok == [greeting |-> 220, user |-> 331, pass |-> 230, type |-> 200, cwd |-> 250, dele |-> 250,
       epsv |-> 229, stor |-> 150, transfer |-> 226, size |-> 213]

Refusal == 550

Codes == {Ok[p] : p \in DOMAIN Ok} \cup {Refusal}

\* Every variable has its type.
TypeOK ==
  /\ clock \in 1 .. MaxClock /\ writes \in 0 .. MaxWrites /\ starts \in 0 .. MaxStarts
  /\ local \in [Files -> [ver : 0 .. MaxWrites, time : 0 .. MaxClock]]
  /\ coarse \subseteq Files /\ todo \subseteq Files
  /\ remote \in [Files -> [parts : SUBSET (1 .. MaxWrites), whole : BOOLEAN]]
  /\ inbox \in Seq(Codes)
  /\ pc \in DOMAIN Ok \cup {"down", "visit", "first", "rest", "sleep"}
  /\ fileMap \in [Files -> 0 .. MaxClock]
  /\ up \in [file : Files, currentTime : 0 .. MaxClock, held : 0 .. MaxWrites]

Init ==
  /\ clock = 1 /\ writes = 0 /\ coarse = {}
  /\ local = [f \in Files |-> [ver |-> 0, time |-> 0]]
  /\ remote \in [Files -> {NoCopy, OldCopy}]
  /\ inbox = <<>> /\ pc = "down" /\ starts = 0
  /\ fileMap = [f \in Files |-> 0]
  /\ todo = {} /\ up = NoUpload

-----------------------------------------------------------------------------
\* The directory.

Present == {f \in Files : local[f].ver # 0}

Tick ==
  /\ clock < MaxClock
  /\ clock' = clock + 1
  /\ UNCHANGED <<local, writes, coarse, remote, inbox, pc, fileMap, todo, up, starts>>

\* A file is made, changed or replaced.
Write(f) ==
  /\ writes < MaxWrites
  /\ writes' = writes + 1
  /\ local' = [local EXCEPT ![f] = [ver |-> writes', time |-> clock]]
  /\ coarse' = IF local[f].time = clock THEN coarse \cup {f} ELSE coarse
  /\ UNCHANGED <<clock, remote, inbox, pc, fileMap, todo, up, starts>>

Delete(f) ==
  /\ f \in Present
  /\ local' = [local EXCEPT ![f].ver = 0]
  /\ UNCHANGED <<clock, writes, coarse, remote, inbox, pc, fileMap, todo, up, starts>>

-----------------------------------------------------------------------------
\* The FTP server's responses.

\* In one fragment, or in two that each begin with the code.  A second fragment that begins
\* with other text does what a code that is not waited for does.
Reply(code) == {<<code>>, <<code, code>>}

\* The server answers command p, and may refuse it.
Answer(p) == Reply(Ok[p]) \cup Reply(Refusal)

\* readResponse at p: some fragments are taken, and the server answers what the client
\* sends next with reply.
Receive(p, reply) ==
  /\ pc = p
  /\ \E n \in DOMAIN inbox : inbox' = SubSeq(inbox, n + 1, Len(inbox)) \o reply

Positive(p) == inbox # <<>> /\ inbox[1] = Ok[p]

-----------------------------------------------------------------------------
\* main

\* The program ends: by an exception, which main turns into return 1, or by a signal,
\* SIGPIPE for one.  A file that vanishes between two looks at it throws as well.
Down ==
  /\ pc' = "down"
  /\ inbox' = <<>>
  /\ fileMap' = [f \in Files |-> 0]
  /\ todo' = {} /\ up' = NoUpload

Crash ==
  /\ pc # "down"
  /\ Down
  /\ UNCHANGED <<dirVars, remote, starts>>

Start ==
  /\ pc = "down" /\ starts < MaxStarts
  /\ starts' = starts + 1
  /\ inbox' \in Reply(Ok["greeting"])
  /\ pc' = "greeting"
  /\ UNCHANGED <<dirVars, remote, fileMap, todo, up>>

After == [greeting |-> "user", user |-> "pass", pass |-> "type", type |-> "cwd"]

\* connectToServer and login look at no code; the next command is sent all the same.
Login(p) ==
  /\ \E reply \in Answer(After[p]) : Receive(p, reply)
  /\ pc' = After[p]
  /\ UNCHANGED <<dirVars, remote, fileMap, todo, up, starts>>

\* CWD succeeded; DELE test.txt removes the copy if there is one.
ChangedDirectory ==
  /\ Positive("cwd")
  /\ \E c \in {Ok["dele"], Refusal} :
       /\ c = Ok["dele"] => remote[TestFile] # NoCopy
       /\ \E reply \in Reply(c) : Receive("cwd", reply)
       /\ remote' = IF c = Ok["dele"] THEN [remote EXCEPT ![TestFile] = NoCopy] ELSE remote
  /\ pc' = "dele"
  /\ UNCHANGED <<dirVars, fileMap, todo, up, starts>>

\* The test file was deleted: the first backup begins.
Watch ==
  /\ Positive("dele")
  /\ Receive("dele", <<>>)
  /\ todo' = Present
  /\ pc' = "visit"
  /\ UNCHANGED <<dirVars, remote, fileMap, up, starts>>

\* CWD, DELE, EPSV, STOR, the transfer or SIZE is not answered as it should be.
Throw ==
  /\ pc \in DOMAIN Ok \ DOMAIN After
  /\ inbox # <<>> /\ ~Positive(pc)
  /\ Down
  /\ UNCHANGED <<dirVars, remote, starts>>

-----------------------------------------------------------------------------
\* checkForChanges and backupFiles

\* A mutant of Changed: only the numbers of files are compared.
CountChanged == Cardinality(Present) # Cardinality({f \in Files : fileMap[f] # 0})

Changed ==
  \/ Cardinality(Present) # Cardinality({f \in Files : fileMap[f] # 0})
  \/ \E f \in Present : fileMap[f] # local[f].time

Poll ==
  /\ pc = "sleep" /\ Changed
  /\ todo' = Present
  /\ pc' = "visit"
  /\ UNCHANGED <<dirVars, remote, inbox, fileMap, up, starts>>

\* A file of the listing that is up to date, or gone by now.
PassOver(f) ==
  /\ pc = "visit" /\ f \in todo
  /\ f \notin Present \/ fileMap[f] = local[f].time
  /\ todo' = todo \ {f}
  /\ UNCHANGED <<dirVars, remote, inbox, pc, fileMap, up, starts>>

\* The modification time is read, the file opened, EPSV sent.
Upload(f) ==
  /\ pc = "visit" /\ f \in todo \cap Present
  /\ fileMap[f] # local[f].time
  /\ up' = [file |-> f, currentTime |-> local[f].time, held |-> local[f].ver]
  /\ todo' = todo \ {f}
  /\ \E reply \in Answer("epsv") : inbox' = inbox \o reply
  /\ pc' = "epsv"
  /\ UNCHANGED <<dirVars, remote, fileMap, starts>>

RoundEnds ==
  /\ pc = "visit" /\ todo = {}
  /\ pc' = "sleep"
  /\ UNCHANGED <<dirVars, remote, inbox, fileMap, todo, up, starts>>

\* The data connection is made and STOR sent, which empties the server's copy.
Store ==
  /\ Positive("epsv")
  /\ \/ /\ \E reply \in Reply(Ok["stor"]) : Receive("epsv", reply)
        /\ remote' = [remote EXCEPT ![up.file] = NoCopy]
     \/ /\ \E reply \in Reply(Refusal) : Receive("epsv", reply)
        /\ UNCHANGED remote
  /\ pc' = "stor"
  /\ UNCHANGED <<dirVars, fileMap, todo, up, starts>>

SendData ==
  /\ Positive("stor")
  /\ Receive("stor", <<>>)
  /\ pc' = "first"
  /\ UNCHANGED <<dirVars, remote, fileMap, todo, up, starts>>

\* What file.read finds: the version held open, or the one that is there now, if it was
\* written into the same file.
Read(parts) ==
  \E v \in {up.held, local[up.file].ver} \ {0} :
    /\ parts = remote[up.file].parts \cup {v}
    /\ up' = [up EXCEPT !.held = v]

SendFirst ==
  /\ pc = "first"
  /\ \E parts \in SUBSET (1 .. writes) :
       Read(parts) /\ remote' = [remote EXCEPT ![up.file].parts = parts]
  /\ pc' = "rest"
  /\ UNCHANGED <<dirVars, inbox, fileMap, todo, starts>>

\* The last bytes are sent and the data connection is closed; the server has it all,
\* or has given up on the way.
SendRest ==
  /\ pc = "rest"
  /\ \E parts \in SUBSET (1 .. writes), whole \in BOOLEAN :
       /\ Read(parts)
       /\ remote' = [remote EXCEPT ![up.file] = [parts |-> parts, whole |-> whole]]
       /\ \E reply \in Reply(IF whole THEN Ok["transfer"] ELSE Refusal) : inbox' = inbox \o reply
  /\ pc' = "transfer"
  /\ UNCHANGED <<dirVars, fileMap, todo, starts>>

\* A mutant of Transferred: the answer to the transfer is not tested.
TransferredOrNot ==
  /\ \E reply \in Answer("size") : Receive("transfer", reply)
  /\ pc' = "size"
  /\ UNCHANGED <<dirVars, remote, fileMap, todo, up, starts>>

\* The server has the file; SIZE is sent.
Transferred ==
  /\ Positive("transfer")
  /\ \E reply \in Answer("size") : Receive("transfer", reply)
  /\ pc' = "size"
  /\ UNCHANGED <<dirVars, remote, fileMap, todo, up, starts>>

\* A mutant of Record: the time is read again.
RecordLater ==
  /\ Positive("size")
  /\ Receive("size", <<>>)
  /\ fileMap' = [fileMap EXCEPT ![up.file] = local[up.file].time]
  /\ pc' = "visit"
  /\ UNCHANGED <<dirVars, remote, todo, up, starts>>

\* The file is recorded with the time it had before the upload.
Record ==
  /\ Positive("size")
  /\ Receive("size", <<>>)
  /\ fileMap' = [fileMap EXCEPT ![up.file] = up.currentTime]
  /\ pc' = "visit"
  /\ UNCHANGED <<dirVars, remote, todo, up, starts>>

-----------------------------------------------------------------------------
Session == (\E p \in DOMAIN After : Login(p)) \/ ChangedDirectory \/ Watch \/ Throw

Round == (\E f \in Files : PassOver(f) \/ Upload(f)) \/ RoundEnds \/ Poll

Transfer == Store \/ SendData \/ SendFirst \/ SendRest \/ Transferred \/ Record

Next ==
  \/ Tick
  \/ \E f \in Files : Write(f) \/ Delete(f)
  \/ Start \/ Crash
  \/ Session \/ Round \/ Transfer

\* The program goes on while the server answers.
Fairness == WF_vars(Session \/ Round \/ Transfer)

Spec == Init /\ [][Next]_vars /\ Fairness

-----------------------------------------------------------------------------
Uploading(f) == up.file = f /\ pc \in {"epsv", "stor", "first", "rest", "transfer", "size"}

\* A file that is recorded with the time it has is on the server as it is, all of it
\* and of one version, even if it was written while it was read; only two writes in
\* one tick of the clock escape.
RecordedIsStored ==
  \A f \in Present \ coarse :
    fileMap[f] = local[f].time => remote[f] = [parts |-> {local[f].ver}, whole |-> TRUE]

\* Responses that arrive in pieces, and so are taken for the answer to a later command,
\* never make the client record an upload that the server did not complete.
RecordedIsWhole ==
  \A f \in Files : fileMap[f] # 0 /\ ~Uploading(f) => remote[f].whole

\* A version that stays is on the server in the end, whole and with nothing of another
\* version, unless the program ends.
KeptVersionIsStored ==
  \A f \in Files, v \in 1 .. MaxWrites :
    (pc = "sleep" /\ local[f].ver = v)
      ~> (remote[f] = [parts |-> {v}, whole |-> TRUE] \/ local[f].ver # v \/ f \in coarse \/ pc = "down")
=============================================================================
