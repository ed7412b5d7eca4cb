------------------------------ MODULE Replication ------------------------------
(***************************************************************************)
(* How one folder on the server is replicated to the folders of the        *)
(* connected clients: DropboxServer.cpp (clientReceiver, broadcast*,       *)
(* clientSender, newClientProcedure) and DropboxClient.cpp (sender,        *)
(* receiver), with the procedures of Dropbox.cpp that both sides inherit.  *)
(* How a client detects its user's edits is another component: here an     *)
(* edit puts its events on the client's message queue.                     *)
(*                                                                         *)
(* The network does not fail here: whatever disconnects a client in this   *)
(* module is done by the code itself.                                      *)
(***************************************************************************)
EXTENDS Naturals, Sequences, FiniteSets, SequencesExt

CONSTANTS
    Clients,    \* the clients of the server
    Files,      \* paths of regular files
    Dirs,       \* paths of directories, all directly below the root
    In,         \* In[p]: the directory that p is in
    Root,       \* the synchronised folder itself
    Plans,      \* who is there and what the users do, see plan
    Absent,     \* nothing at a path
    Torn,       \* content that no user wrote (partial or mixed)
    Dir         \* a directory at a path

Paths == Files \cup Dirs
Events == {"NEW_FILE", "NEW_DIRECTORY", "DELETE", "MOVE", "COPY"}

ASSUME ReplicationAssumption ==
    /\ IsFiniteSet(Clients)
    /\ Files \cap Dirs = {} /\ Root \notin Paths
    /\ In \in [Paths -> Dirs \cup {Root}]
    /\ \A d \in Dirs : In[d] = Root
    /\ {Absent, Torn, Dir} \cap Nat = {} /\ Absent \notin Paths
    /\ Absent # Torn /\ Absent # Dir /\ Torn # Dir

\* there: clients that are connected from the start; joiners: those that connect
\* while the others already work; ops: the protocol events the users' edits give
\* rise to; editors[p]: the clients whose user edits p; edits: bound on the edits of
\* all the users together.
ASSUME PlansAssumption ==
    Plans \subseteq [there : SUBSET Clients, joiners : SUBSET Clients, ops : SUBSET Events,
                     editors : [Paths -> SUBSET Clients], edits : Nat]

\* Who edits a directory edits what is in it: nobody else takes a path away with its
\* directory.
Tidy == \A pl \in Plans : \A p \in Paths : In[p] # Root => pl.editors[In[p]] \subseteq pl.editors[p]

\* Who does op to files has them to herself: nobody joins meanwhile, and no path has two users.
Alone(op) == \A pl \in Plans : op \in pl.ops =>
                 pl.joiners = {} /\ \A p \in Paths : \E k \in Clients : pl.editors[p] \subseteq {k}
CopiesOwn == Alone("COPY")   \* A copy takes what is at its source when it arrives, see README.
MovesOwn == Alone("MOVE")    \* So does a move, and what it finds missing there stays so.

\* No path has two users.  (When both remove it, the server throws at the second DELETE.)
Apart == \A pl \in Plans : \A p \in Paths : \E k \in Clients : pl.editors[p] \subseteq {k}

VARIABLES
    folder,     \* the server's folder
    copy,       \* copy[c]: the folder of client c
    mode,       \* mode[c]: how far the connection of c has come
    out,        \* out[c]: messageQueue of client c
    up,         \* up[c]: messages from c that its receiver at the server has not read
    down,       \* down[c]: messages to c that its receiver has not read
    rcv,        \* rcv[c]: what the server's clientReceiver of c is doing
    queue,      \* queue[c]: safeQueue of c at the server
    snd,        \* snd[c]: the file that the server's clientSender of c is reading
    walk,       \* walk[c]: the directory walk of newClientProcedure for c
    missed,     \* missed[c]: history, paths left out of step at c by a synchronisation
                \* or by an upload that was cut off
    edits,      \* number of edits so far; the last one wrote this content
    plan        \* what the users are up to in this behaviour

vars == <<folder, copy, mode, out, up, down, rcv, queue, snd, walk, missed, edits, plan>>

-----------------------------------------------------------------------------
(* Data *)

Content == (Nat \ {0}) \cup {Absent, Torn, Dir}
Tree == [Paths -> Content]
Event == [op : Events, src : Paths, dst : Paths]

\* A file on the wire carries its content; the other messages need none.  A NEW_FILE
\* with content Absent is one that ends after the size.
Message == [ev : Event, val : Content]

\* The states of a clientReceiver: "writing" is receiveFile between its open and
\* its close, on the file that is now at `ino` (Absent once it has no name left),
\* and `clash` says that another thread wrote into the same file meanwhile;
\* "saved" is a finished receive procedure; "bcast" is a loop of broadcast*;
\* "dead" is a thread that left by an exception, perhaps with sockMutex locked.
Idle == [pc |-> "idle"]
Dead(locked) == [pc |-> "dead", locked |-> locked]
Receiver == {Idle, Dead(TRUE), Dead(FALSE)}
    \cup [pc : {"writing"}, ev : Event, val : Content,
          ino : Files \cup {Absent}, clash : BOOLEAN]
    \cup [pc : {"saved"}, ev : Event]
    \cup [pc : {"bcast"}, ev : Event, todo : SUBSET Clients]

NoSend == [busy |-> FALSE]
Sender == {NoSend} \cup [busy : {TRUE}, ev : Event, val : Content]

Walk == [todo : SUBSET Paths, at : SUBSET Paths]
NoWalk == [todo |-> {}, at |-> {}]

\* off: not connected; sync, offer: the two halves of newClientProcedure; live;
\* dropped: the server closed the connection; exited: the client's sender
\* returned, and with it the process; stuck: the client's receiver returned.
Modes == {"off", "sync", "offer", "live", "dropped", "exited", "stuck"}

NoParent(tree, p) == In[p] # Root /\ tree[In[p]] = Absent

\* When a receive procedure throws: deleteFile on a path that does not exist,
\* rename() failing, receiveFile and createDirectory without their parent.
Fails(tree, e) ==
    \/ e.op = "DELETE" /\ tree[e.dst] = Absent
    \/ e.op = "MOVE" /\ (tree[e.src] = Absent \/ NoParent(tree, e.dst))
    \/ e.op \in {"NEW_FILE", "NEW_DIRECTORY"} /\ NoParent(tree, e.dst)

\* The paths an event touches; remove_all takes what is in a directory with it.
Affected(e) == {e.src, e.dst} \cup
               {p \in Paths : e.op = "DELETE" /\ In[p] = e.dst}

\* What the receive procedures do to a folder.  copyFile never fails: without a
\* source it leaves an empty destination, without a parent it does nothing.
Effect(tree, e, val) ==
    CASE e.op = "NEW_FILE"      -> [tree EXCEPT ![e.dst] = val]
      [] e.op = "NEW_DIRECTORY" -> [tree EXCEPT ![e.dst] = Dir]
      [] e.op = "DELETE"        -> [p \in Paths |-> IF p \in Affected(e) THEN Absent ELSE tree[p]]
      [] e.op = "MOVE"          -> [tree EXCEPT ![e.dst] = tree[e.src], ![e.src] = Absent]
      [] e.op = "COPY"          -> [tree EXCEPT ![e.dst] =
                                       IF NoParent(tree, e.dst) THEN @
                                       ELSE IF tree[e.src] = Absent THEN Torn ELSE tree[e.src]]

\* The edits a user can make in the folder she sees.
Editable(tree, e) ==
    /\ ~NoParent(tree, e.dst)
    /\ CASE e.op = "NEW_FILE"      -> e.dst \in Files /\ e.src = e.dst
         [] e.op = "NEW_DIRECTORY" -> e.dst \in Dirs /\ e.src = e.dst /\ tree[e.dst] = Absent
         [] e.op = "DELETE"        -> /\ e.src = e.dst /\ tree[e.dst] # Absent
                                      /\ \A p \in Affected(e) \ {e.dst} : tree[p] = Absent
         [] e.op = "MOVE"          -> /\ {e.src, e.dst} \subseteq Files
                                      /\ e.src # e.dst /\ tree[e.src] # Absent
         [] e.op = "COPY"          -> /\ {e.src, e.dst} \subseteq Files /\ e.src # e.dst
                                      /\ tree[e.src] # Absent /\ tree[e.dst] = Absent

-----------------------------------------------------------------------------
(* Initially everybody is in step with an empty folder, the joiners are off. *)

EmptyTree == [p \in Paths |-> Absent]

Init ==
    /\ plan \in Plans
    /\ folder = EmptyTree
    /\ copy = [c \in Clients |-> EmptyTree]
    /\ mode = [c \in Clients |-> IF c \in plan.there THEN "live" ELSE "off"]
    /\ out = [c \in Clients |-> <<>>]
    /\ up = [c \in Clients |-> <<>>]
    /\ down = [c \in Clients |-> <<>>]
    /\ rcv = [c \in Clients |-> Idle]
    /\ queue = [c \in Clients |-> <<>>]
    /\ snd = [c \in Clients |-> NoSend]
    /\ walk = [c \in Clients |-> NoWalk]
    /\ missed = [c \in Clients |-> {}]
    /\ edits = 0

-----------------------------------------------------------------------------
(* The clients *)

\* Mutants of Reports: a copy is reported once only; a deletion twice (both remove
\* and remove_self are handled); the NEW_FILE of a copy has its source emptied.
ReportsCopyOnly(e) == <<e>>
ReportsDeleteTwice(e) == IF e.op = "DELETE" THEN <<e, e>> ELSE <<e>>
ReportsNoSource(e) == <<[e EXCEPT !.src = Root]>>

\* What requestCreation, requestDeletion and chooseRequest enqueue for an edit: a
\* copy is reported twice, because the COPY request falls through to NEW_FILE.
Reports(e) == IF e.op = "COPY"
              THEN <<e, [op |-> "NEW_FILE", src |-> e.dst, dst |-> e.dst]>>
              ELSE <<e>>

Edit(c, e) ==
    /\ mode[c] = "live" /\ edits < plan.edits
    /\ e.op \in plan.ops /\ c \in plan.editors[e.src] \cap plan.editors[e.dst]
    /\ Editable(copy[c], e)
    /\ edits' = edits + 1
    /\ copy' = [copy EXCEPT ![c] = Effect(@, e, edits')]
    /\ out' = [out EXCEPT ![c] = @ \o Reports(e)]
    /\ UNCHANGED <<folder, mode, up, down, rcv, queue, snd, walk, missed, plan>>

\* DropboxClient::sender: the file is read when its event is dequeued.  When it is
\* gone by then the event, the path and a size of -1 are sent before sendFile
\* throws; sender returns and run() ends the process.
ClientSend(c) ==
    /\ mode[c] = "live" /\ out[c] # <<>>
    /\ out' = [out EXCEPT ![c] = Tail(@)]
    /\ LET e == Head(out[c])
       IN  /\ up' = [up EXCEPT ![c] = Append(@, [ev |-> e, val |-> copy[c][e.dst]])]
           /\ mode' = IF e.op = "NEW_FILE" /\ copy[c][e.dst] = Absent
                      THEN [mode EXCEPT ![c] = "exited"] ELSE mode
    /\ UNCHANGED <<folder, copy, down, rcv, queue, snd, walk, missed, edits, plan>>

\* DropboxClient::receiver: a procedure that throws ends the thread, and leaves
\* serverMutex locked.
ClientReceive(c) ==
    /\ mode[c] = "live" /\ down[c] # <<>>
    /\ down' = [down EXCEPT ![c] = Tail(@)]
    /\ LET m == Head(down[c])
       IN  IF Fails(copy[c], m.ev)
           THEN mode' = [mode EXCEPT ![c] = "stuck"] /\ UNCHANGED copy
           ELSE copy' = [copy EXCEPT ![c] = Effect(@, m.ev, m.val)] /\ UNCHANGED mode
    /\ UNCHANGED <<folder, out, up, rcv, queue, snd, walk, missed, edits, plan>>

-----------------------------------------------------------------------------
(* The server's receiver threads *)

\* sockMutex of c: its receiver or its sender thread holds it, or a procedure that
\* threw left it locked.
MutexFree(c) == /\ ~snd[c].busy /\ mode[c] # "dropped"
                /\ rcv[c].pc # "writing" /\ rcv[c] # Dead(TRUE)

Registered == {c \in Clients : mode[c] \in {"live", "exited", "stuck", "dropped"}}

\* newClientProcedure holds syncMutex; an exception in it releases the mutex.
Syncing == {c \in Clients : mode[c] \in {"sync", "offer"} /\ rcv[c].pc # "dead"}

Writers(p) == {k \in Clients : rcv[k].pc = "writing" /\ rcv[k].ino = p}

\* rename() takes an open file to its new name; remove() and rename() over a
\* file take its name away; copyFile writes into the file that is there.
Retarget(e, w) ==
    CASE e.op = "DELETE" /\ w.ino \in Affected(e) -> [w EXCEPT !.ino = Absent]
      [] e.op = "MOVE" /\ w.ino = e.dst           -> [w EXCEPT !.ino = Absent]
      [] e.op = "MOVE" /\ w.ino = e.src           -> [w EXCEPT !.ino = e.dst]
      [] e.op = "COPY" /\ w.ino = e.dst           -> [w EXCEPT !.clash = TRUE]
      [] OTHER                                    -> w

\* History: a change is seen by a walk that has not come to its path yet.
Behind == [k \in Clients |->
              missed[k] \cup {p \in Paths : /\ folder'[p] # folder[p] /\ k \in Syncing
                                            /\ mode[k] = "sync" => p \notin walk[k].todo}]

\* receiveNewFileProcedure opens and truncates the file: receiver c has read m.
\* Under permanentlyIgnored and sockMutex there is no lock on the file itself.
Open(c, m) ==
    IF Fails(folder, m.ev)
    THEN rcv' = [rcv EXCEPT ![c] = Dead(TRUE)] /\ UNCHANGED folder
    ELSE /\ folder' = [folder EXCEPT ![m.ev.dst] = Torn]
         /\ rcv' = [k \in Clients |->
                       IF k = c THEN [pc |-> "writing", ev |-> m.ev, val |-> m.val,
                                      ino |-> m.ev.dst, clash |-> Writers(m.ev.dst) # {}]
                       ELSE IF k \in Writers(m.ev.dst) THEN [rcv[k] EXCEPT !.clash = TRUE]
                       ELSE rcv[k]]

StartFile(c) ==
    /\ mode[c] \in {"live", "exited", "stuck"} /\ rcv[c].pc = "idle" /\ up[c] # <<>>
    /\ Head(up[c]).ev.op = "NEW_FILE" /\ MutexFree(c)
    /\ Head(up[c]).val # Absent
    /\ up' = [up EXCEPT ![c] = Tail(@)]
    /\ Open(c, Head(up[c]))
    /\ missed' = Behind
    /\ UNCHANGED <<copy, mode, out, down, queue, snd, walk, edits, plan>>

\* The client exited after the size: the file is truncated, and the thread never
\* comes to the end of it.
StartCutFile(c) ==
    /\ mode[c] = "exited" /\ rcv[c].pc = "idle" /\ up[c] # <<>>
    /\ Head(up[c]).ev.op = "NEW_FILE" /\ MutexFree(c)
    /\ Head(up[c]).val = Absent
    /\ up' = [up EXCEPT ![c] = Tail(@)]
    /\ LET e == Head(up[c]).ev
       IN  IF Fails(folder, e)
           THEN /\ rcv' = [rcv EXCEPT ![c] = Dead(TRUE)]
                /\ UNCHANGED <<folder, missed>>
           ELSE /\ folder' = [folder EXCEPT ![e.dst] = Torn]
                /\ rcv' = [k \in Clients |->
                              IF k = c THEN Dead(TRUE)
                              ELSE IF k \in Writers(e.dst) THEN [rcv[k] EXCEPT !.clash = TRUE]
                              ELSE rcv[k]]
                /\ missed' = [k \in Clients |-> missed[k] \cup {e.dst}]
    /\ UNCHANGED <<copy, mode, out, down, queue, snd, walk, edits, plan>>

\* The last chunk is written, the file closed, its times set (utime fails when the
\* path is gone) and sockMutex released.
FinishFile(c) ==
    /\ rcv[c].pc = "writing"
    /\ \E v \in {rcv[c].val} \cup (IF rcv[c].clash THEN {Torn} ELSE {}) :
           folder' = IF rcv[c].ino = Absent THEN folder
                     ELSE [folder EXCEPT ![rcv[c].ino] = v]
    /\ rcv' = [rcv EXCEPT ![c] = IF folder'[@.ev.dst] = Absent THEN Dead(TRUE)
                                 ELSE [pc |-> "saved", ev |-> @.ev]]
    /\ missed' = Behind
    /\ UNCHANGED <<copy, mode, out, up, down, queue, snd, walk, edits, plan>>

\* The receive procedures of the other events.  Only createDirectory is called after
\* sockMutex is released.
ReceivePath(c) ==
    /\ mode[c] \in {"live", "exited", "stuck"} /\ rcv[c].pc = "idle" /\ up[c] # <<>>
    /\ Head(up[c]).ev.op # "NEW_FILE" /\ MutexFree(c)
    /\ up' = [up EXCEPT ![c] = Tail(@)]
    /\ LET e == Head(up[c]).ev
       IN  IF Fails(folder, e)
           THEN rcv' = [rcv EXCEPT ![c] = Dead(e.op # "NEW_DIRECTORY")] /\ UNCHANGED folder
           ELSE /\ folder' = Effect(folder, e, Head(up[c]).val)
                /\ rcv' = [k \in Clients |->
                              IF k = c THEN [pc |-> "saved", ev |-> e]
                              ELSE IF rcv[k].pc = "writing" THEN Retarget(e, rcv[k])
                              ELSE rcv[k]]
    /\ missed' = Behind
    /\ UNCHANGED <<copy, mode, out, down, queue, snd, walk, edits, plan>>

\* Mutants of Targets: clients being sent a file are left out; joiners are never
\* added to the list.
TargetsIdle(c) == {k \in Registered \ {c} : ~snd[k].busy}
TargetsNoJoiners(c) == Registered \ (plan.joiners \cup {c})

\* broadcast* copies the list of clients under clientsMutex; the sender's own
\* socket is skipped in the loop.
Targets(c) == Registered \ {c}

StartBroadcast(c) ==
    /\ rcv[c].pc = "saved"
    /\ rcv' = [rcv EXCEPT ![c] = [pc |-> "bcast", ev |-> @.ev, todo |-> Targets(c)]]
    /\ UNCHANGED <<folder, copy, mode, out, up, down, queue, snd, walk, missed, edits, plan>>

\* Mutant of Wanted: a client that is being sent a file is skipped.
WantedIdleSender(k, e) == ~snd[k].busy

\* Only broadcastFile looks at isAlive.
Wanted(k, e) == e.op = "NEW_FILE" => mode[k] # "dropped"

Enqueue(c, k) ==
    /\ rcv[c].pc = "bcast" /\ k \in rcv[c].todo
    /\ rcv' = [rcv EXCEPT ![c].todo = @ \ {k}]
    /\ queue' = IF Wanted(k, rcv[c].ev)
                THEN [queue EXCEPT ![k] = Append(@, rcv[c].ev)] ELSE queue
    /\ UNCHANGED <<folder, copy, mode, out, up, down, snd, walk, missed, edits, plan>>

EndBroadcast(c) ==
    /\ rcv[c].pc = "bcast" /\ rcv[c].todo = {}
    /\ rcv' = [rcv EXCEPT ![c] = Idle]
    /\ UNCHANGED <<folder, copy, mode, out, up, down, queue, snd, walk, missed, edits, plan>>

-----------------------------------------------------------------------------
(* The server's sender threads *)

Closed(c) == mode' = [mode EXCEPT ![c] = "dropped"]

\* clientSender dequeues an event and, for a file, opens the file as it is now.
\* When it cannot, it ends the connection and leaves sockMutex locked.
StartSend(c) ==
    /\ mode[c] \in {"live", "exited", "stuck"} /\ queue[c] # <<>> /\ MutexFree(c)
    /\ queue' = [queue EXCEPT ![c] = Tail(@)]
    /\ LET e == Head(queue[c])
       IN  IF e.op # "NEW_FILE"
           THEN /\ down' = [down EXCEPT ![c] = Append(@, [ev |-> e, val |-> folder[e.dst]])]
                /\ UNCHANGED <<mode, snd>>
           ELSE IF folder[e.dst] = Absent
           THEN Closed(c) /\ UNCHANGED <<down, snd>>
           ELSE /\ snd' = [snd EXCEPT ![c] = [busy |-> TRUE, ev |-> e, val |-> folder[e.dst]]]
                /\ UNCHANGED <<mode, down>>
    /\ UNCHANGED <<folder, copy, out, up, rcv, walk, missed, edits, plan>>

\* What a reader of the file got when it changed under its hands.
Read(now, old) == IF now = old THEN {old} ELSE {old, now, Torn}

\* The content is read and sent; then getModificationTime fails if the path is gone.
FinishSend(c) ==
    /\ snd[c].busy
    /\ snd' = [snd EXCEPT ![c] = NoSend]
    /\ LET e == snd[c].ev
       IN  IF folder[e.dst] = Absent
           THEN Closed(c) /\ UNCHANGED down
           ELSE /\ \E v \in Read(folder[e.dst], snd[c].val) :
                       down' = [down EXCEPT ![c] = Append(@, [ev |-> e, val |-> v])]
                /\ UNCHANGED mode
    /\ UNCHANGED <<folder, copy, out, up, rcv, queue, walk, missed, edits, plan>>

-----------------------------------------------------------------------------
(* newClientProcedure: under syncMutex, the server offers what it has, then the   *)
(* client what it has, and only then is the client in the list of clients.        *)

\* The recursive directory iterator yields what is there now, and of the entries
\* made during the walk some and others not.
Join(c) ==
    /\ c \in plan.joiners /\ mode[c] = "off" /\ Syncing = {}
    /\ mode' = [mode EXCEPT ![c] = "sync"]
    /\ \E seen \in SUBSET {p \in Paths : plan.editors[p] # {}} :
           /\ {p \in Paths : folder[p] # Absent} \subseteq seen
           /\ walk' = [walk EXCEPT ![c] = [todo |-> seen, at |-> {}]]
    /\ UNCHANGED <<folder, copy, out, up, down, rcv, queue, snd, missed, edits, plan>>

\* is_regular_file or is_directory of the next entry; directories come before
\* what is in them, and a directory that was not there is not entered.
Visit(c, p) ==
    /\ mode[c] = "sync" /\ rcv[c].pc = "idle" /\ walk[c].at = {}
    /\ p \in walk[c].todo /\ In[p] \notin walk[c].todo
    /\ walk' = [walk EXCEPT ![c] = [todo |-> @.todo \ {p},
                    at |-> IF folder[p] = Absent \/ NoParent(copy[c], p) THEN {} ELSE {p}]]
    /\ UNCHANGED <<folder, copy, mode, out, up, down, rcv, queue, snd, missed, edits, plan>>

\* askIfValid, and the file or directory if the client has not got it.  When it
\* went away since the iterator's step, getModificationTime or sendFile throws; when
\* it changed, it may be read half old and half new.
Offer(c, p) ==
    /\ mode[c] = "sync" /\ rcv[c].pc = "idle" /\ walk[c].at = {p}
    /\ walk' = [walk EXCEPT ![c].at = {}]
    /\ IF folder[p] = Absent
       THEN (\E locked \in BOOLEAN : rcv' = [rcv EXCEPT ![c] = Dead(locked)]) /\ UNCHANGED copy
       ELSE /\ \E v \in {folder[p]} \cup (IF p \in Files \cap missed[c] THEN {Torn} ELSE {}) :
                   copy' = [copy EXCEPT ![c][p] = v]
            /\ UNCHANGED rcv
    /\ UNCHANGED <<folder, mode, out, up, down, queue, snd, missed, edits, plan>>

\* END_OF_SYNC from the server: now the client walks its own folder.
TurnAround(c) ==
    /\ mode[c] = "sync" /\ rcv[c].pc = "idle" /\ walk[c] = NoWalk
    /\ mode' = [mode EXCEPT ![c] = "offer"]
    /\ walk' = [walk EXCEPT ![c].todo = {p \in Paths : copy[c][p] # Absent}]
    /\ UNCHANGED <<folder, copy, out, up, down, rcv, queue, snd, missed, edits, plan>>

\* answerIfValid: what the client has is not older than what it got a moment ago,
\* so it is sent only if the server has lost it since: that brings it back.
Return(c, p) ==
    /\ mode[c] = "offer" /\ rcv[c].pc = "idle"
    /\ p \in walk[c].todo /\ In[p] \notin walk[c].todo
    /\ walk' = [walk EXCEPT ![c].todo = @ \ {p}]
    /\ IF folder[p] # Absent THEN UNCHANGED <<folder, rcv, missed>>
       ELSE IF p \in Files
       THEN /\ missed' = [k \in Clients |-> missed[k] \cup {p}]
            /\ Open(c, [ev |-> [op |-> "NEW_FILE", src |-> p, dst |-> p], val |-> copy[c][p]])
       ELSE /\ folder' = [folder EXCEPT ![p] = Dir]
            /\ rcv' = [rcv EXCEPT ![c] = [pc |-> "saved",
                           ev |-> [op |-> "NEW_DIRECTORY", src |-> p, dst |-> p]]]
            /\ missed' = [k \in Clients |-> missed[k] \cup {p}]
    /\ UNCHANGED <<copy, mode, out, up, down, queue, snd, edits, plan>>

\* END_OF_SYNC from the client: clients.push_back.
Register(c) ==
    /\ mode[c] = "offer" /\ rcv[c].pc = "idle" /\ walk[c].todo = {}
    /\ mode' = [mode EXCEPT ![c] = "live"]
    /\ UNCHANGED <<folder, copy, out, up, down, rcv, queue, snd, walk, missed, edits, plan>>

-----------------------------------------------------------------------------
UserStep == \E c \in Clients, op \in plan.ops, p, q \in Paths :
                Edit(c, [op |-> op, src |-> p, dst |-> q])

ClientStep(c) == ClientSend(c) \/ ClientReceive(c)
ReceiverStep(c) ==
    \/ StartFile(c) \/ StartCutFile(c) \/ FinishFile(c) \/ ReceivePath(c)
    \/ StartBroadcast(c) \/ (\E k \in Clients : Enqueue(c, k)) \/ EndBroadcast(c)
SenderStep(c) == StartSend(c) \/ FinishSend(c)
SyncStep(c) ==
    \/ Join(c) \/ TurnAround(c) \/ Register(c)
    \/ \E p \in Paths : Visit(c, p) \/ Offer(c, p) \/ Return(c, p)

Next == UserStep \/ \E c \in Clients : ClientStep(c) \/ ReceiverStep(c) \/ SenderStep(c) \/ SyncStep(c)

Spec == Init /\ [][Next]_vars

\* Every thread is scheduled; nothing makes the users edit.
Fairness == \A c \in Clients : /\ WF_vars(ClientStep(c)) /\ WF_vars(ReceiverStep(c))
                               /\ WF_vars(SenderStep(c)) /\ WF_vars(SyncStep(c))

FairSpec == Spec /\ Fairness

-----------------------------------------------------------------------------
(* Properties *)

\* Every variable keeps its type.
TypeOK ==
    /\ folder \in Tree
    /\ copy \in [Clients -> Tree]
    /\ mode \in [Clients -> Modes]
    /\ out \in [Clients -> Seq(Event)]
    /\ up \in [Clients -> Seq(Message)] /\ down \in [Clients -> Seq(Message)]
    /\ rcv \in [Clients -> Receiver]
    /\ queue \in [Clients -> Seq(Event)]
    /\ snd \in [Clients -> Sender]
    /\ walk \in [Clients -> Walk]
    /\ missed \in [Clients -> SUBSET Paths]
    /\ edits \in 0 .. plan.edits /\ plan \in Plans

\* The folder after the messages ms; a message that cannot be applied changes nothing.
Applied(tree, m) == IF Fails(tree, m.ev) THEN tree ELSE Effect(tree, m.ev, m.val)
Play(tree, ms) ==
    LET after[i \in 0 .. Len(ms)] == IF i = 0 THEN tree ELSE Applied(after[i - 1], ms[i])
    IN  after[Len(ms)]

\* Events whose file has not been read, with the content they would find there now
\* (when it is gone: what they presume is there, until the read finds out).
Reading(tree, es) ==
    [i \in 1 .. Len(es) |->
        [ev |-> es[i], val |-> IF tree[es[i].dst] = Absent THEN Torn ELSE tree[es[i].dst]]]

\* What the server's folder will be once everything c has reported has arrived.
Uploaded(c) ==
    Play(folder,
         (IF rcv[c].pc = "writing" THEN <<[ev |-> rcv[c].ev, val |-> rcv[c].val]>> ELSE <<>>)
         \o up[c] \o Reading(copy[c], out[c]))

\* What the copy of c will be once everything on the way to it has arrived.
Heading(k, c) == \/ rcv[k].pc \in {"writing", "saved"}
                 \/ rcv[k].pc = "bcast" /\ c \in rcv[k].todo
Delivered(c) ==
    LET coming == SetToSeq({rcv[k].ev : k \in {j \in Clients \ {c} : Heading(j, c)}})
        sending == IF snd[c].busy THEN <<snd[c].ev>> ELSE <<>>
    IN  Play(copy[c], down[c] \o Reading(folder, sending \o queue[c] \o coming))

\* Left out of step, or in a directory that was.
Forgotten(c) == {p \in Paths : {p, In[p]} \cap missed[c] # {}}

OwnedBy(c) == {p \in Paths : plan.editors[p] = {c}}
OwnedByOthers(c) == {p \in Paths : \E k \in Clients \ {c} : plan.editors[p] = {k}}

\* The users do not move files: moves lose contents (see NamesNotLost).
ContentsKept == "MOVE" \notin plan.ops

\* No edit is lost on its way to the server: at any moment, what is still on the way
\* turns the server's folder into what the user sees on the paths only she edits.
NothingLostUpwards ==
    ContentsKept => \A c \in Clients : mode[c] = "live" =>
        \A p \in OwnedBy(c) \ Forgotten(c) : Uploaded(c)[p] = copy[c][p]

\* No change is lost, overtaken or left stale on its way to a client: what is
\* still on the way turns its copy into the server's folder, in spite of files
\* being read from a disk that has changed since their event, and of the broadcasts
\* of several receiver threads being interleaved in one queue.
NothingLostDownwards ==
    ContentsKept => \A c \in Clients : mode[c] = "live" =>
        \A p \in OwnedByOthers(c) \ Forgotten(c) : Delivered(c)[p] = folder[p]

\* The same of the existence of files only: what remains true when users move files.
NamesNotLost ==
    \A c \in Clients : mode[c] = "live" =>
        /\ \A p \in OwnedBy(c) \ Forgotten(c) : (Uploaded(c)[p] = Absent) = (copy[c][p] = Absent)
        /\ \A p \in OwnedByOthers(c) \ Forgotten(c) : (Delivered(c)[p] = Absent) = (folder[p] = Absent)

\* Events reach every folder in an order in which they can be applied: no receive
\* procedure throws, on the server or on a client, for a client that was there from
\* the start and while no path has been left out of step.  (A joiner may
\* be sent the DELETE of a path that its own synchronisation already left out.)
NoReceiverDies ==
    ContentsKept => \A c \in plan.there :
        missed[c] = {} => rcv[c].pc # "dead" /\ mode[c] # "stuck"

\* The connection survives what users do to their files: nothing but the users
\* runs in this module, so no client should ever be disconnected.
StaysConnected == \A c \in Clients : mode[c] \notin {"dropped", "exited", "stuck"}

\* Once the users stop, all the connected clients come to hold what the server
\* holds, and stay so (but for the empty file that a cut upload leaves there).
InStep == \A c \in Clients : mode[c] = "live" =>
              \A p \in Paths \ Forgotten(c) : copy[c][p] = folder[p]
Converges == ContentsKept => <>[]InStep
=============================================================================
