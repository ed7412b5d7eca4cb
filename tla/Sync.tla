--------------------------------- MODULE Sync ---------------------------------
(***************************************************************************)
(* How folders with a past are brought together: newClientProcedure of     *)
(* DropboxServer.cpp and DropboxClient.cpp with askIfValid, answerIfValid  *)
(* and the modification times of Dropbox.cpp.  Clients are stopped, edited *)
(* while they are off, killed and started again; so is the server.  What   *)
(* users change while they are connected is the subject of module          *)
(* Replication; here a connected client only takes what the                *)
(* synchronisations of others have the server send it.                     *)
(***************************************************************************)
EXTENDS Naturals, Sequences, FiniteSets

CONSTANTS
    Server,
    Clients,
    Paths,
    Dirs,       \* those of the paths that are directories
    In,         \* In[p]: the directory that p is in
    Root,       \* the synchronised folder itself
    Start,      \* Start[n]: the folders that n may begin with
    Wrap,       \* integers on the wire are taken modulo this number
    StartClock, \* the time when the first program is started
    MaxClock,   \* bound: the last second
    MaxEdits,   \* bound: edits made by all the users together
    EditsAt,    \* stages in which the user of a client edits
    Kills,      \* what may be killed: clients when nothing is going on ("quiet"), when nothing
                \* is on the way to them ("idle"), at any time ("busy"); the "server"
    MaxKills,   \* bound: kills
    Absent,     \* nothing at a path
    Torn,       \* part of a file
    Dir,        \* a directory
    None

Nodes == Clients \cup {Server}
Times == 0 .. MaxClock

\* What users wrote has an author and a number.
Written == Nodes \X (0 .. MaxEdits)
Vals == Written \cup {Absent, Torn, Dir}
Entry == [val : Vals, time : Times]
Tree == [Paths -> Entry]

\* off; get, the server offers its files; give, the client does; live
Stages == {"off", "get", "give", "live"}

ASSUME SyncAssumption ==
    /\ Server \notin Clients /\ None \notin Nodes
    /\ Dirs \subseteq Paths /\ Root \notin Paths
    /\ In \in [Paths -> Dirs \cup {Root}]
    /\ Start \in [Nodes -> SUBSET Tree]
    /\ Wrap \in Nat \ {0} /\ MaxEdits \in Nat /\ MaxKills \in Nat
    /\ StartClock \in Nat /\ MaxClock \in Nat /\ StartClock <= MaxClock
    /\ EditsAt \subseteq Stages
    /\ Kills \subseteq {"quiet", "idle", "busy", "server"}
    /\ {Absent, Torn, Dir} \cap Written = {}
    /\ Absent # Torn /\ Absent # Dir /\ Torn # Dir

VARIABLES
    disk,       \* disk[n]: the folder of n, with the modification time of each file
    clock,      \* the time of day
    stage,      \* stage[c]: off, in either half of its synchronisation, or live
    holder,     \* the client whose thread has locked syncMutex
    todo,       \* the entries that the walk of the present half has not come to
    ses,        \* question and answer about the entry the walk is at
    rx,         \* rx[n]: the file that n has open in receiveFile
    queue,      \* queue[c]: safeQueue of c, the paths to be sent
    down,       \* down[c]: messages to c that its receiver has not dealt with
    known,      \* history: known[p], the versions of p that users wrote
    edits, kills

vars == <<disk, clock, stage, holder, todo, ses, rx, queue, down, known, edits, kills>>

-----------------------------------------------------------------------------
(* Data *)

Nothing == [val |-> Absent, time |-> 0]
Folder == [val |-> Dir, time |-> 0]

\* NEW_FILE or NEW_DIRECTORY.  With the value Absent the message ends after the
\* size, because the file was gone when it was to be read.
Message == [p : Paths, val : Vals, time : Times]

\* asked: the question is sent; wanted: the answer was no; content: the file is
\* read; sent: so is its modification time.
Quiet == [pc |-> "idle"]
Session == {Quiet} \cup [pc : {"asked", "wanted"}, p : Paths, time : Times]
                   \cup [pc : {"content", "sent"}, p : Paths, val : Vals, time : Times]

Closed == [open |-> FALSE]
Receiving == {Closed} \cup [open : {TRUE}, p : Paths, full : BOOLEAN]

\* Mutants of OnWire: one bit less; one side leaves out the conversion.
OnWireNarrow(t) == t % (Wrap \div 2)
OnWireSwapped(t) == (Wrap - 1) - (t % Wrap)

\* sendInt and receiveInt: an IntType has 64 bits, htonl and ntohl take 32.
OnWire(t) == t % Wrap

Used(tree) == {p \in Paths : tree[p] # Nothing}

Init ==
    /\ disk \in {d \in [Nodes -> UNION {Start[n] : n \in Nodes}] :
                    \A n \in Nodes : d[n] \in Start[n]}
    /\ clock = StartClock
    /\ stage = [c \in Clients |-> "off"]
    /\ holder = None
    /\ todo = {}
    /\ ses = Quiet
    /\ rx = [n \in Nodes |-> Closed]
    /\ queue = [c \in Clients |-> <<>>]
    /\ down = [c \in Clients |-> <<>>]
    /\ known = [p \in Paths |-> {disk[n][p] : n \in Nodes}]
    /\ edits = 0
    /\ kills = 0

-----------------------------------------------------------------------------
(* Users *)

Tick ==
    /\ clock < MaxClock
    /\ clock' = clock + 1
    /\ UNCHANGED <<disk, stage, holder, todo, ses, rx, queue, down, known, edits, kills>>

\* A user saves a file; nobody else is writing into it.
Save(c, p) ==
    /\ edits < MaxEdits /\ stage[c] \in EditsAt
    /\ p \notin Dirs /\ (In[p] # Root => disk[c][In[p]] = Folder)
    /\ rx[c].open => rx[c].p # p
    /\ edits' = edits + 1
    /\ disk' = [disk EXCEPT ![c][p] = [val |-> <<c, edits'>>, time |-> clock]]
    /\ known' = [known EXCEPT ![p] = @ \cup {disk'[c][p]}]
    /\ UNCHANGED <<clock, stage, holder, todo, ses, rx, queue, down, kills>>

\* A user removes a file while her client is off.
Remove(c, p) ==
    /\ edits < MaxEdits /\ stage[c] = "off" /\ "off" \in EditsAt
    /\ p \notin Dirs /\ disk[c][p] # Nothing
    /\ edits' = edits + 1
    /\ disk' = [disk EXCEPT ![c][p] = Nothing]
    /\ UNCHANGED <<clock, stage, holder, todo, ses, rx, queue, down, known, kills>>

-----------------------------------------------------------------------------
(* Synchronisation: first the server walks its folder and asks, then the client. *)

\* A client connects, sends NEW_CLIENT, and its receiver thread gets syncMutex.
Join(c) ==
    /\ stage[c] = "off" /\ holder = None
    /\ stage' = [stage EXCEPT ![c] = "get"]
    /\ holder' = c
    /\ todo' = Used(disk[Server])
    /\ ses' = Quiet
    /\ UNCHANGED <<disk, clock, rx, queue, down, known, edits, kills>>

Active == holder # None /\ stage[holder] # "off"
Getting == Active /\ stage[holder] = "get"
Asker == IF Getting THEN Server ELSE holder
Other == IF Getting THEN holder ELSE Server

\* askIfValid, for the next entry of a recursive_directory_iterator: a directory
\* comes before what is in it.
Ask(p) ==
    /\ Active /\ ses = Quiet /\ p \in todo /\ In[p] \notin todo
    /\ ses' = [pc |-> "asked", p |-> p, time |-> OnWire(disk[Asker][p].time)]
    /\ UNCHANGED <<disk, clock, stage, holder, todo, rx, queue, down, known, edits, kills>>

\* The entry exists and, if it is a file, is not older.
Valid(e, time) == e # Nothing /\ (e.val = Dir \/ e.time >= time)

\* Mutant of Answer: the iterator is not advanced past a valid entry.
AnswerAgain ==
    /\ Active /\ ses.pc = "asked"
    /\ IF Valid(disk[Other][ses.p], ses.time)
       THEN ses' = Quiet /\ UNCHANGED disk
       ELSE /\ ses' = [ses EXCEPT !.pc = "wanted"]
            /\ disk' = [disk EXCEPT ![Other][ses.p] = Nothing]
    /\ UNCHANGED <<clock, stage, holder, todo, rx, queue, down, known, edits, kills>>

\* answerIfValid deletes an older file before it answers.
Answer ==
    /\ Active /\ ses.pc = "asked"
    /\ IF Valid(disk[Other][ses.p], ses.time)
       THEN ses' = Quiet /\ todo' = todo \ {ses.p} /\ UNCHANGED disk
       ELSE /\ ses' = [ses EXCEPT !.pc = "wanted"]
            /\ disk' = [disk EXCEPT ![Other][ses.p] = Nothing]
            /\ UNCHANGED todo
    /\ UNCHANGED <<clock, stage, holder, rx, queue, down, known, edits, kills>>

\* sendNewDirectoryProcedure, or sendNewFileProcedure up to the end of sendFile.
SendContent ==
    /\ Active /\ ses.pc = "wanted"
    /\ LET e == disk[Asker][ses.p]
       IN  ses' = [pc |-> IF e.val = Dir THEN "sent" ELSE "content",
                   p |-> ses.p, val |-> e.val, time |-> ses.time]
    /\ UNCHANGED <<disk, clock, stage, holder, todo, rx, queue, down, known, edits, kills>>

\* Only then is the modification time read, a second time.
SendTime ==
    /\ Active /\ ses.pc = "content"
    /\ ses' = [ses EXCEPT !.pc = "sent", !.time = OnWire(disk[Asker][ses.p].time)]
    /\ UNCHANGED <<disk, clock, stage, holder, todo, rx, queue, down, known, edits, kills>>

\* END_OF_SYNC from the server.
TurnAround ==
    /\ Getting /\ ses = Quiet /\ todo = {}
    /\ stage' = [stage EXCEPT ![holder] = "give"]
    /\ todo' = Used(disk[holder])
    /\ UNCHANGED <<disk, clock, holder, ses, rx, queue, down, known, edits, kills>>

\* END_OF_SYNC from the client: clients.push_back, and syncMutex is released.
Register ==
    /\ Active /\ ~Getting /\ ses = Quiet /\ todo = {}
    /\ stage' = [stage EXCEPT ![holder] = "live"]
    /\ holder' = None
    /\ UNCHANGED <<disk, clock, todo, ses, rx, queue, down, known, edits, kills>>

-----------------------------------------------------------------------------
(* Receiving: receiveNewFileProcedure and receiveNewDircetoryProcedure *)

\* What reaches n: the file of its synchronisation, or the next one of a broadcast.
InSession(n) == Active /\ n = Other /\ ses.pc \in {"content", "sent"}
FromQueue(n) == n \in Clients /\ stage[n] = "live" /\ down[n] # <<>>
Arrived(n) == InSession(n) \/ FromQueue(n)
Arriving(n) == IF InSession(n) THEN ses ELSE Head(down[n])

\* The connection of a live client, seen from the server: gone after a cut message.
Cut(c) == \E i \in 1 .. Len(down[c]) : down[c][i].val = Absent

\* Mutant of Broadcast: not to a client that is still busy with an earlier one.
BroadcastIdle(p) == [c \in Clients |->
                        IF stage[c] = "live" /\ queue[c] = <<>> /\ down[c] = <<>>
                        THEN Append(queue[c], p) ELSE queue[c]]

\* broadcastFile and broadcastDirectory to the clients in the list.
Broadcast(p) == [c \in Clients |->
                    IF stage[c] = "live" /\ ~Cut(c) THEN Append(queue[c], p) ELSE queue[c]]

\* The receive procedure has returned: the walk goes on, or the next message is read.
Done(n) ==
    IF InSession(n)
    THEN /\ ses' = Quiet
         /\ todo' = todo \ {ses.p}
         /\ queue' = IF n = Server THEN Broadcast(ses.p) ELSE queue
         /\ UNCHANGED down
    ELSE /\ down' = [down EXCEPT ![n] = Tail(@)]
         /\ UNCHANGED <<ses, todo, queue>>

\* receiveFile opens the file and truncates it.
Open(n) ==
    /\ Arrived(n) /\ ~rx[n].open /\ Arriving(n).val # Dir
    /\ rx' = [rx EXCEPT ![n] = [open |-> TRUE, p |-> Arriving(n).p, full |-> FALSE]]
    /\ disk' = [disk EXCEPT ![n][Arriving(n).p] = [val |-> Torn, time |-> clock]]
    /\ UNCHANGED <<clock, stage, holder, todo, ses, queue, down, known, edits, kills>>

\* The last chunk is written.  It never comes when the message was cut: receiveData
\* takes the end of file for a read of no bytes.
Fill(n) ==
    /\ Arrived(n) /\ rx[n].open /\ ~rx[n].full /\ Arriving(n).val # Absent
    /\ rx' = [rx EXCEPT ![n].full = TRUE]
    /\ disk' = [disk EXCEPT ![n][rx[n].p] = [val |-> Arriving(n).val, time |-> clock]]
    /\ UNCHANGED <<clock, stage, holder, todo, ses, queue, down, known, edits, kills>>

\* Mutant of Stamp: the file keeps the time at which it was written.
StampNot(n) ==
    /\ Arrived(n) /\ rx[n].open /\ rx[n].full
    /\ InSession(n) => ses.pc = "sent"
    /\ rx' = [rx EXCEPT ![n] = Closed]
    /\ Done(n)
    /\ UNCHANGED <<disk, clock, stage, holder, known, edits, kills>>

\* The modification time arrives last, and changeModificationTime sets it.
Stamp(n) ==
    /\ Arrived(n) /\ rx[n].open /\ rx[n].full
    /\ InSession(n) => ses.pc = "sent"
    /\ disk' = [disk EXCEPT ![n][rx[n].p].time = Arriving(n).time]
    /\ rx' = [rx EXCEPT ![n] = Closed]
    /\ Done(n)
    /\ UNCHANGED <<clock, stage, holder, known, edits, kills>>

MakeDirectory(n) ==
    /\ Arrived(n) /\ Arriving(n).val = Dir
    /\ disk' = [disk EXCEPT ![n][Arriving(n).p] = Folder]
    /\ Done(n)
    /\ UNCHANGED <<clock, stage, holder, rx, known, edits, kills>>

\* clientSender of a live client: it reads the file as it is now.  If there is none the
\* message is cut off after the size and the connection closed.
SendQueued(c) ==
    /\ stage[c] = "live" /\ queue[c] # <<>>
    /\ LET p == Head(queue[c])
           e == disk[Server][p]
       IN  /\ down' = [down EXCEPT ![c] = Append(@, [p |-> p, val |-> e.val, time |-> OnWire(e.time)])]
           /\ queue' = [queue EXCEPT ![c] = IF e = Nothing THEN <<>> ELSE Tail(@)]
    /\ UNCHANGED <<disk, clock, stage, holder, todo, ses, rx, known, edits, kills>>

-----------------------------------------------------------------------------
(* Programs are killed, folders stay *)

\* Nothing is on the way to c.
Idle(c) == stage[c] = "live" /\ queue[c] = <<>> /\ down[c] = <<>> /\ ~rx[c].open

\* A client's thread at the server may notice (a write fails), which releases
\* syncMutex, or spin at the end of file.
KillClient(c) ==
    /\ kills < MaxKills /\ stage[c] # "off"
    /\ \/ "busy" \in Kills
       \/ "idle" \in Kills /\ Idle(c)
       \/ "quiet" \in Kills /\ Idle(c) /\ holder = None
    /\ kills' = kills + 1
    /\ stage' = [stage EXCEPT ![c] = "off"]
    /\ queue' = [queue EXCEPT ![c] = <<>>]
    /\ down' = [down EXCEPT ![c] = <<>>]
    /\ \/ /\ holder' = holder
          /\ rx' = [rx EXCEPT ![c] = Closed]
       \/ /\ holder = c
          /\ holder' = None
          /\ rx' = [rx EXCEPT ![c] = Closed, ![Server] = Closed]
    /\ UNCHANGED <<disk, clock, todo, ses, known, edits>>

\* The server is killed; the clients do not connect again by themselves.
KillServer ==
    /\ kills < MaxKills /\ "server" \in Kills
    /\ "busy" \in Kills \/ (holder = None /\ \A c \in Clients : Idle(c) \/ stage[c] = "off")
    /\ kills' = kills + 1
    /\ stage' = [c \in Clients |-> "off"]
    /\ holder' = None
    /\ rx' = [n \in Nodes |-> Closed]
    /\ queue' = [c \in Clients |-> <<>>]
    /\ down' = [c \in Clients |-> <<>>]
    /\ UNCHANGED <<disk, clock, todo, ses, known, edits>>

-----------------------------------------------------------------------------
SessionStep ==
    \/ \E p \in Paths : Ask(p)
    \/ Answer \/ SendContent \/ SendTime \/ TurnAround \/ Register
Receive(n) == Open(n) \/ Fill(n) \/ Stamp(n) \/ MakeDirectory(n)
UserStep == Tick \/ \E c \in Clients : \E p \in Paths : Save(c, p) \/ Remove(c, p)

Next ==
    \/ UserStep \/ SessionStep \/ KillServer
    \/ \E c \in Clients : Join(c) \/ SendQueued(c) \/ KillClient(c)
    \/ \E n \in Nodes : Receive(n)

Spec == Init /\ [][Next]_vars

\* The threads of the programs are scheduled; nothing makes anybody start a client.
Fairness == /\ WF_vars(SessionStep)
            /\ \A n \in Nodes : WF_vars(Receive(n))
            /\ \A c \in Clients : WF_vars(SendQueued(c))

FairSpec == Spec /\ Fairness

-----------------------------------------------------------------------------
(* Properties *)

\* Every variable keeps its type.
TypeOK ==
    /\ disk \in [Nodes -> Tree]
    /\ clock \in Times
    /\ stage \in [Clients -> Stages]
    /\ holder \in Clients \cup {None}
    /\ todo \subseteq Paths
    /\ ses \in Session
    /\ rx \in [Nodes -> Receiving]
    /\ queue \in [Clients -> Seq(Paths)]
    /\ down \in [Clients -> Seq(Message)]
    /\ known \in [Paths -> SUBSET Entry]
    /\ edits \in Nat /\ kills \in Nat

\* test/sync_test.sh expects that after the start of all programs everybody has the
\* newest version of every file ("sizes should have two digits"): a client for which
\* nothing is on the way has what the server has, and whole files.  Contents written
\* in the same second by different users are not told apart.
SameVersions ==
    \A c \in Clients : Idle(c) /\ holder = None =>
        \A p \in Paths :
            LET mine == disk[c][p]
                its == disk[Server][p]
            IN  /\ mine.time = its.time
                /\ mine.val = its.val \/ {mine.val, its.val} \subseteq Written
                /\ its.val # Torn

\* "It does not exist at the other side or is older, so we send it" (the comment at the
\* call of sendNewFileProcedure): what is sent in its place is a file a user wrote.
WholeFilesWin == ses.pc \in {"content", "sent"} => ses.val # Torn

\* What the server has of p, or will have when the transfer that replaces it has ended.
Shown(p) ==
    IF Active /\ Other = Server /\ ses.pc \in {"wanted", "content", "sent"} /\ ses.p = p
    THEN disk[holder][p] ELSE disk[Server][p]

\* Whatever clients come, and in whatever order: the server's version of a file is only
\* ever replaced by a newer one, one that a user wrote, and at the time it shows.
ServersCopy == INSTANCE Merge WITH Files <- Paths \ Dirs, Versions <- Entry,
                                   shown <- [p \in Paths \ Dirs |-> Shown(p)],
                                   known <- [p \in Paths \ Dirs |-> known[p]]
OnlyForward == ServersCopy!Spec

\* A client that has begun its synchronisation is synchronised, if it is not killed.
JoinEnds == \A c \in Clients : stage[c] = "get" ~> stage[c] \in {"live", "off"}
=============================================================================
