------------------------------- MODULE Reporter -------------------------------
(***************************************************************************)
(* How a client learns what its user does to the folder: inotify, the      *)
(* thread of Notifier, ClientEventReporter, and the sender and receiver    *)
(* threads, whose own reads and writes of the folder cause events as well. *)
(*                                                                         *)
(* The folder is flat (so that no request is a COPY) and no name contains  *)
(* "file" (see DropboxClient.cpp:23).  A file is an inode with one or two  *)
(* watches: its folder's, whose events carry the name, and its own, set by *)
(* watchFile, whose events carry a descriptor that is looked up only when  *)
(* they are read.                                                          *)
(***************************************************************************)
EXTENDS Integers, Sequences, FiniteSets

CONSTANTS
    Files,      \* names of files
    Hidden,     \* the name of a conflict copy, which begins with a dot
    None,       \* no name
    Present,    \* files in the folder when the watch is set
    Settings,   \* conditions under which the client runs, see env
    MaxRemote,  \* bound: messages of the server
    MaxInode    \* bound: files that can ever be made

ASSUME NamesAssumption == Hidden \notin Files /\ None \notin Files \cup {Hidden}
ASSUME BoundsAssumption == MaxRemote \in Nat /\ MaxInode \in Nat
ASSUME PresentAssumption ==
    Present \subseteq Files /\ IsFiniteSet(Present) /\ Cardinality(Present) <= MaxInode

Names == Files \cup {Hidden}
Inodes == 1 .. MaxInode

\* lag: events may wait while the other threads go on; ops: what the user does,
\* `again' being to use a name once more; files: the names she uses; remote: the
\* files the server sends changes of; edits: bound on her operations.
ASSUME SettingsAssumption ==
    Settings \subseteq [lag : BOOLEAN,
                        ops : SUBSET {"create", "write", "remove", "move", "in", "out", "again"},
                        files : SUBSET Files,
                        remote : SUBSET Files,
                        edits : Nat]

VARIABLES
    env,        \* the setting of this run of the client
    disk,       \* disk[p]: inode of the file of name p, 0 when there is none
    made,       \* inodes used so far
    data,       \* data[i]: the version that was written to inode i last
    watch,      \* mDirectories: the path of an inode's own watch
    kernel,     \* events that inotify has not been asked for yet
    events,     \* mEventQueue
    err,        \* mError: 0 or EAGAIN
    notifier,   \* where the notifier thread is in runOnce
    info,       \* allFilesInfo: known files, open or closed
    ignored,    \* ignoredPaths
    perm,       \* permanentlyIgnored
    queue,      \* messageQueue
    sender, receiver,
    user,       \* the file the user has open
    used,       \* history: names that were in use
    told,       \* told[p]: the version of p that client and server agreed on last
    edits, remotes

vars == <<env, disk, made, data, watch, kernel, events, err, notifier, info, ignored,
          perm, queue, sender, receiver, user, used, told, edits, remotes>>
folderVars == <<disk, made, data, used>>
notifierVars == <<events, notifier, info, queue>>
bounds == <<env, edits, remotes>>

-----------------------------------------------------------------------------
(* Events *)

Kinds == {"create", "open", "modify", "close", "delete", "moved_from", "moved_to", "other"}
KernelEvent == [type : Kinds, wd : 0 .. MaxInode, name : Names \cup {None}]
EventType == [type : Kinds, path : Names]

\* The kernel drops an event equal to the last one that is still unread.
Noted(k, e) == IF k # <<>> /\ k[Len(k)] = e THEN k ELSE Append(k, e)

Named(k, t, p) == Noted(k, [type |-> t, wd |-> 0, name |-> p])
Own(k, t, i) ==
    IF i # 0 /\ watch[i] # None THEN Noted(k, [type |-> t, wd |-> i, name |-> None]) ELSE k

\* An access to p is seen by the folder's watch and by the file's own.
Raised(k, t, p) == Own(Named(k, t, p), t, disk[p])

\* Unlinking tells the inode's watch before and after the folder's.
Unlinked(k, p) ==
    Own(Named(Own(k, "other", disk[p]), "delete", p), "other", disk[p])

Translated(e) == [type |-> e.type, path |-> IF e.wd = 0 THEN e.name ELSE watch[e.wd]]

Idle == [at |-> "runOnce", path |-> None, to |-> None]
NoRequest == [at |-> "idle", op |-> "NEW_FILE", path |-> None, to |-> None, n |-> 0]
Away == [path |-> None, wrote |-> FALSE]
Resting == [at |-> "idle", path |-> None, n |-> 0]

Alive == sender.at # "gone"
CaughtUp == env.lag \/ (kernel = <<>> /\ events = <<>> /\ err = "EAGAIN")
SenderLocks == sender.at \in {"getModificationTime", "utime"}
ReceiverLocks == receiver.at \notin {"idle", "watchFile"}

\* Versions: the user's are even, the server's odd.
ByUser(n) == n % 2 = 0
Fresh == 2 * (edits + 1)
Missing == -1

Init ==
    /\ env \in Settings
    /\ made = Cardinality(Present)
    /\ \E ino \in [Present -> 1 .. made] :
          /\ \A p, q \in Present : p # q => ino[p] # ino[q]
          /\ disk = [p \in Names |-> IF p \in Present THEN ino[p] ELSE 0]
    /\ data = [i \in Inodes |-> 0]
    /\ watch = [i \in Inodes |-> None]
    /\ kernel = <<>> /\ events = <<>> /\ err = "0"
    /\ notifier = Idle
    /\ info \in {f \in [Names -> {"unknown", "closed"}] :
                    \A p \in Names \ Present : f[p] = "unknown"}
    /\ ignored = {} /\ perm = {} /\ queue = <<>>
    /\ sender = NoRequest
    /\ receiver = Resting
    /\ user = Away
    /\ used = Present
    /\ told = [p \in Names |-> IF p \in Present THEN 0 ELSE Missing]
    /\ edits = 0 /\ remotes = 0

-----------------------------------------------------------------------------
(* The user: any program that works on the folder, one operation at a time *)

\* Names only the user makes files of, and names only the server does.
Mine == env.files \ env.remote
Theirs == env.remote \ env.files
Free(p) == p \in env.files /\ (p \in Mine /\ p \in used => "again" \in env.ops)

Edits(op) == /\ op \in env.ops /\ Alive /\ CaughtUp
             /\ user.path = None /\ edits < env.edits
             /\ edits' = edits + 1
             /\ UNCHANGED <<env, watch, err, ignored, perm, sender, receiver, told, remotes>>
             /\ UNCHANGED notifierVars

\* Open p for writing, which makes the file when it is not there.
UserCreate(p) ==
    /\ Edits("create") /\ Free(p) /\ disk[p] = 0 /\ made < MaxInode
    /\ disk' = [disk EXCEPT ![p] = made + 1]
    /\ made' = made + 1 /\ used' = used \cup {p}
    /\ data' = [data EXCEPT ![made + 1] = Fresh]
    /\ kernel' = Named(Named(kernel, "create", p), "open", p)
    /\ user' = [path |-> p, wrote |-> FALSE]

UserOpen(p) ==
    /\ Edits("write") /\ p \in env.files /\ disk[p] # 0
    /\ kernel' = Raised(kernel, "open", p)
    /\ user' = [path |-> p, wrote |-> FALSE]
    /\ UNCHANGED folderVars

UserWrite ==
    /\ Alive /\ CaughtUp /\ user.path # None /\ ~user.wrote
    /\ edits < env.edits
    /\ edits' = edits + 1
    /\ data' = [data EXCEPT ![disk[user.path]] = Fresh]
    /\ kernel' = Raised(kernel, "modify", user.path)
    /\ user' = [user EXCEPT !.wrote = TRUE]
    /\ UNCHANGED <<env, disk, made, used, watch, err, ignored, perm, sender, receiver, told, remotes>>
    /\ UNCHANGED notifierVars

UserClose ==
    /\ Alive /\ CaughtUp /\ user.path # None
    /\ kernel' = Raised(kernel, "close", user.path)
    /\ user' = Away
    /\ UNCHANGED <<bounds, folderVars, notifierVars, watch, err, ignored, perm, sender, receiver, told>>

UserRemove(p) ==
    /\ Edits("remove") /\ p \in env.files /\ disk[p] # 0
    /\ disk' = [disk EXCEPT ![p] = 0]
    /\ kernel' = Unlinked(kernel, p)
    /\ UNCHANGED <<made, data, used, user>>

\* Rename inside the folder, over q if there is one.
UserMove(p, q) ==
    /\ Edits("move") /\ p \in env.files /\ Free(q) /\ p # q /\ disk[p] # 0
    /\ disk' = [disk EXCEPT ![q] = disk[p], ![p] = 0]
    /\ kernel' = Own(Own(Named(Named(kernel, "moved_from", p), "moved_to", q),
                          "other", disk[q]), "other", disk[p])
    /\ used' = used \cup {q}
    /\ UNCHANGED <<made, data, user>>

UserMoveIn(q) ==
    /\ Edits("in") /\ Free(q) /\ made < MaxInode
    /\ disk' = [disk EXCEPT ![q] = made + 1]
    /\ made' = made + 1 /\ used' = used \cup {q}
    /\ data' = [data EXCEPT ![made + 1] = Fresh]
    /\ kernel' = Own(Named(kernel, "moved_to", q), "other", disk[q])
    /\ UNCHANGED user

UserMoveOut(p) ==
    /\ Edits("out") /\ p \in env.files /\ disk[p] # 0
    /\ disk' = [disk EXCEPT ![p] = 0]
    /\ kernel' = Own(Named(kernel, "moved_from", p), "other", disk[p])
    /\ UNCHANGED <<made, data, used, user>>

User == \/ \E p \in Files : \/ UserCreate(p) \/ UserOpen(p) \/ UserRemove(p)
                            \/ UserMoveIn(p) \/ UserMoveOut(p)
        \/ \E p, q \in Files : UserMove(p, q)
        \/ UserWrite \/ UserClose

-----------------------------------------------------------------------------
(* Requests of ClientEventReporter *)

Request(op, p, q) == [op |-> op, path |-> p, to |-> q]

IsIgnored(p) == p = Hidden \/ p \in perm \/ p \in ignored

\* Asking isIgnored takes the path off ignoredPaths, if it gets that far.
Asked(p) == IF p = Hidden \/ p \in perm THEN {} ELSE {p}

Known(p) == info[p] # "unknown"
Listed(p) == IF Known(p) THEN info ELSE [info EXCEPT ![p] = "closed"]

\* saveAsOpen, saveAsClosed: not for a path that is neither known nor there.
SaveAs(p, how) ==
    /\ info' = IF Known(p) \/ disk[p] # 0 THEN [info EXCEPT ![p] = how] ELSE info
    /\ UNCHANGED queue

RequestCreation(p) ==
    /\ queue' = Append(queue, Request("NEW_FILE", p, None))
    /\ info' = Listed(p)

RequestDeletion(p) ==
    /\ queue' = Append(queue, Request("DELETE", p, None))
    /\ info' = [info EXCEPT ![p] = "unknown"]

RequestMove(p, q) ==
    /\ queue' = Append(queue, Request("MOVE", p, q))
    /\ UNCHANGED info

\* A file moved in over a known one is taken for moved onto itself.
RequestMoveTo(p) ==
    IF Known(p)
    THEN /\ info' = [info EXCEPT ![p] = "closed"]
         /\ queue' = Append(queue, Request("MOVE", p, p))
    ELSE RequestCreation(p)

\* event is reported of the path p; only a move has a source.
ChooseRequest(event, source, p) ==
    LET observed == event \notin {"other", "moved_from"}
        taken == IF observed /\ IsIgnored(p) THEN Asked(p) \cup Asked(source) ELSE {}
    IN  /\ ignored' = ignored \ taken
        /\ CASE ~observed \/ IsIgnored(p) -> UNCHANGED <<info, queue>>
             [] OTHER ->
                  \/ event = "open" /\ SaveAs(p, "open")
                  \/ event = "close" /\ SaveAs(p, "closed")
                  \/ event \in {"create", "modify"} /\ RequestCreation(p)
                  \/ event \in {"delete", "outward_move"} /\ RequestDeletion(p)
                  \/ event = "internal_move" /\ RequestMove(source, p)
                  \/ event = "moved_to" /\ RequestMoveTo(p)

-----------------------------------------------------------------------------
(* The notifier *)

\* An empty read: mError stays EAGAIN until somebody sets a watch.
Poll ==
    /\ Alive /\ events = <<>> /\ kernel = <<>> /\ err # "EAGAIN"
    /\ err' = "EAGAIN"
    /\ UNCHANGED <<bounds, folderVars, notifierVars, watch, kernel, ignored, perm,
                   sender, receiver, user, told>>

Read ==
    /\ Alive /\ events = <<>> /\ kernel # <<>>
    /\ events' = [k \in DOMAIN kernel |-> Translated(kernel[k])]
    /\ kernel' = <<>>
    /\ UNCHANGED <<bounds, folderVars, notifier, info, queue, watch, err, ignored, perm,
                   sender, receiver, user, told>>

GetNextEvent(at) ==
    /\ Alive /\ notifier.at = at /\ events # <<>>
    /\ events' = Tail(events)
    /\ UNCHANGED <<bounds, folderVars, kernel, perm, sender, receiver, user, told>>

\* watchFile, by whatever thread.
WatchFile(p) ==
    IF disk[p] # 0 THEN /\ watch' = [watch EXCEPT ![disk[p]] = p]
                        /\ err' = "0"
                   ELSE UNCHANGED <<watch, err>>

RunOnce ==
    /\ GetNextEvent("runOnce")
    /\ LET e == Head(events)
           skip == e.path = Hidden \/ (e.type = "open" /\ disk[e.path] = 0)
       IN  CASE skip ->
                    UNCHANGED <<notifier, info, queue, ignored, watch, err>>
             [] ~skip /\ e.type \in {"modify", "moved_from"} ->
                    /\ notifier' = [at |-> IF e.type = "modify" THEN "catchAllEvents"
                                                               ELSE "determineMoveType",
                                    path |-> e.path, to |-> None]
                    /\ UNCHANGED <<info, queue, ignored, watch, err>>
             [] OTHER ->
                    /\ IF e.type = "create" THEN WatchFile(e.path) ELSE UNCHANGED <<watch, err>>
                    /\ ChooseRequest(e.type, None, e.path)
                    /\ UNCHANGED notifier

\* The next event that is not `modify' is reported, of the path of the modify.
CatchAllEvents ==
    /\ GetNextEvent("catchAllEvents")
    /\ LET e == Head(events)
       IN  IF e.type = "modify" /\ err # "EAGAIN"
           THEN UNCHANGED <<notifier, info, queue, ignored>>
           ELSE /\ ChooseRequest(e.type, None, notifier.path)
                /\ notifier' = Idle
    /\ UNCHANGED <<watch, err>>

\* Events are read until mError is EAGAIN; all are dropped but a first moved_to.
DetermineMoveType ==
    /\ GetNextEvent("determineMoveType")
    /\ LET e == Head(events)
           to == IF notifier.to = None /\ e.type = "moved_to" THEN e.path ELSE notifier.to
       IN  CASE err # "EAGAIN" ->
                    /\ notifier' = [notifier EXCEPT !.to = to]
                    /\ UNCHANGED <<info, queue, ignored>>
             [] err = "EAGAIN" /\ to = None ->
                    /\ ChooseRequest("outward_move", None, notifier.path)
                    /\ notifier' = Idle
             [] OTHER ->
                    /\ ChooseRequest("internal_move", notifier.path, to)
                    /\ notifier' = Idle
    /\ UNCHANGED <<watch, err>>

Notifier == Poll \/ Read \/ RunOnce \/ CatchAllEvents \/ DetermineMoveType

-----------------------------------------------------------------------------
(* The sender *)

Sends(at) ==
    /\ Alive /\ CaughtUp /\ sender.at = at
    /\ UNCHANGED <<bounds, folderVars, events, notifier, info, ignored, receiver, user>>

Dequeue ==
    /\ Sends("idle") /\ queue # <<>>
    /\ queue' = Tail(queue)
    /\ LET request == Head(queue)
       IN  /\ sender' = [at |-> "procedure", op |-> request.op, path |-> request.path,
                         to |-> request.to, n |-> 0]
           /\ IF request.op = "NEW_FILE" THEN WatchFile(request.path) ELSE UNCHANGED <<watch, err>>
    /\ UNCHANGED <<kernel, perm, told>>

\* Mutant of SendContent: clientMutex is not locked.
SendContentUnlocked ==
    /\ Sends("procedure") /\ sender.op = "NEW_FILE"
    /\ LET p == sender.path
       IN  \/ /\ disk[p] = 0
              /\ sender' = [sender EXCEPT !.at = "gone"]
              /\ UNCHANGED kernel
           \/ /\ disk[p] # 0
              /\ sender' = [sender EXCEPT !.at = "getModificationTime", !.n = data[disk[p]]]
              /\ kernel' = Raised(Raised(Raised(kernel, "open", p), "other", p), "close", p)
    /\ UNCHANGED <<queue, watch, err, perm, told>>

\* The client ends when the file is gone: sendFile, stat and utime throw.
SendContent ==
    /\ Sends("procedure") /\ sender.op = "NEW_FILE" /\ ~ReceiverLocks
    /\ LET p == sender.path
       IN  \/ /\ disk[p] = 0
              /\ sender' = [sender EXCEPT !.at = "gone"]
              /\ UNCHANGED kernel
           \/ /\ disk[p] # 0
              /\ sender' = [sender EXCEPT !.at = "getModificationTime", !.n = data[disk[p]]]
              /\ kernel' = Raised(Raised(Raised(kernel, "open", p), "other", p), "close", p)
    /\ UNCHANGED <<queue, watch, err, perm, told>>

\* What happens to the path from here to the utime is ignored.
GetModificationTime ==
    /\ Sends("getModificationTime")
    /\ perm' = perm \cup {sender.path}
    /\ sender' = [sender EXCEPT !.at = IF disk[sender.path] = 0 THEN "gone" ELSE "utime"]
    /\ UNCHANGED <<queue, watch, err, kernel, told>>

\* Mutant of ChangeModificationTime: the path stays in permanentlyIgnored.
ChangeModificationTimeKeeps ==
    /\ Sends("utime")
    /\ LET p == sender.path
       IN  \/ /\ disk[p] = 0
              /\ sender' = [sender EXCEPT !.at = "gone"]
              /\ UNCHANGED <<kernel, told>>
           \/ /\ disk[p] # 0
              /\ kernel' = Raised(kernel, "other", p)
              /\ told' = [told EXCEPT ![p] = sender.n]
              /\ sender' = NoRequest
    /\ UNCHANGED <<queue, watch, err, perm>>

ChangeModificationTime ==
    /\ Sends("utime")
    /\ LET p == sender.path
       IN  \/ /\ disk[p] = 0
              /\ sender' = [sender EXCEPT !.at = "gone"]
              /\ UNCHANGED <<kernel, perm, told>>
           \/ /\ disk[p] # 0
              /\ kernel' = Raised(kernel, "other", p)
              /\ perm' = perm \ {p}
              /\ told' = [told EXCEPT ![p] = sender.n]
              /\ sender' = NoRequest
    /\ UNCHANGED <<queue, watch, err>>

SendDeletion ==
    /\ Sends("procedure") /\ sender.op = "DELETE" /\ ~ReceiverLocks
    /\ told' = [told EXCEPT ![sender.path] = Missing]
    /\ sender' = NoRequest
    /\ UNCHANGED <<queue, watch, err, kernel, perm>>

\* The watch of a moved file reports the old path until here.
SendMove ==
    /\ Sends("procedure") /\ sender.op = "MOVE" /\ ~ReceiverLocks
    /\ told' = [p \in Names |-> CASE p = sender.to   -> told[sender.path]
                                  [] p = sender.path /\ p # sender.to -> Missing
                                  [] OTHER           -> told[p]]
    /\ WatchFile(sender.to)
    /\ sender' = NoRequest
    /\ UNCHANGED <<queue, kernel, perm>>

Sender == \/ Dequeue \/ SendContent \/ GetModificationTime \/ ChangeModificationTime
          \/ SendDeletion \/ SendMove

-----------------------------------------------------------------------------
(* The receiver, which holds serverMutex while a procedure lasts *)

Receives(at) ==
    /\ Alive /\ CaughtUp /\ receiver.at = at
    /\ UNCHANGED <<env, edits, events, notifier, queue, sender, user>>

\* A message of the server's about p.
Arrives(p) ==
    /\ Receives("idle") /\ ~SenderLocks
    /\ p \in env.remote /\ remotes < MaxRemote
    /\ remotes' = remotes + 1
    /\ UNCHANGED <<folderVars, watch, kernel, err, info>>

\* Mutant of ReceiveNewFile: the name is changed before it is put in ignoredPaths.
ReceiveNewFileRenamed(p) ==
    LET conflict == info[p] = "open"
        target == IF conflict THEN Hidden ELSE p
    IN  /\ Arrives(p)
        /\ ignored' = IF conflict THEN ignored \cup {target} ELSE ignored
        /\ perm' = perm \cup {target}
        /\ receiver' = [at |-> "open", path |-> target, n |-> 2 * remotes + 1]
        /\ told' = [told EXCEPT ![p] = 2 * remotes + 1]

\* Mutant of ReceiveNewFile: the path is not put in permanentlyIgnored.
ReceiveNewFileSeen(p) ==
    LET conflict == info[p] = "open"
        target == IF conflict THEN Hidden ELSE p
    IN  /\ Arrives(p)
        /\ ignored' = IF conflict THEN ignored \cup {p} ELSE ignored
        /\ receiver' = [at |-> "open", path |-> target, n |-> 2 * remotes + 1]
        /\ told' = [told EXCEPT ![p] = 2 * remotes + 1]
        /\ UNCHANGED perm

\* When p is open here, the file is stored as a conflict copy, and the first
\* event on p is to be ignored.
ReceiveNewFile(p) ==
    LET conflict == info[p] = "open"
        target == IF conflict THEN Hidden ELSE p
    IN  /\ Arrives(p)
        /\ ignored' = IF conflict THEN ignored \cup {p} ELSE ignored
        /\ perm' = perm \cup {target}
        /\ receiver' = [at |-> "open", path |-> target, n |-> 2 * remotes + 1]
        /\ told' = [told EXCEPT ![p] = 2 * remotes + 1]

ReceiveDeletion(p) ==
    /\ Arrives(p) /\ told[p] # Missing
    /\ ignored' = ignored \cup {p}
    /\ told' = [told EXCEPT ![p] = Missing]
    /\ receiver' = [at |-> "deleteFile", path |-> p, n |-> 0]
    /\ UNCHANGED perm

\* Step of receiveNewFileProcedure: the rest of it begins at `next'.
Goes(at, next) ==
    /\ Receives(at)
    /\ receiver' = [receiver EXCEPT !.at = next]
    /\ UNCHANGED <<remotes, ignored, told>>

OpenFile ==
    /\ Goes("open", "write")
    /\ LET p == receiver.path
       IN  \/ /\ disk[p] # 0
              /\ kernel' = Raised(Raised(kernel, "modify", p), "open", p)
              /\ UNCHANGED <<disk, made>>
           \/ /\ disk[p] = 0 /\ made < MaxInode
              /\ kernel' = Named(Named(kernel, "create", p), "open", p)
              /\ disk' = [disk EXCEPT ![p] = made + 1]
              /\ made' = made + 1
    /\ data' = [data EXCEPT ![disk'[receiver.path]] = receiver.n]
    /\ UNCHANGED <<used, watch, err, info, perm>>

\* The user may have removed the name of the file that is being written.
Touched(t) == IF disk[receiver.path] = 0 THEN kernel ELSE Raised(kernel, t, receiver.path)

WriteFile ==
    /\ Goes("write", "close")
    /\ kernel' = Touched("modify")
    /\ data' = IF disk[receiver.path] = 0 THEN data
               ELSE [data EXCEPT ![disk[receiver.path]] = receiver.n]
    /\ UNCHANGED <<disk, made, used, watch, err, info, perm>>

CloseFile ==
    /\ Goes("close", "received")
    /\ kernel' = Touched("close")
    /\ info' = Listed(receiver.path)
    /\ UNCHANGED <<folderVars, watch, err, perm>>

Received ==
    /\ Goes("received", "changeModificationTime")
    /\ perm' = perm \ {receiver.path}
    /\ UNCHANGED <<folderVars, watch, err, info, kernel>>

\* utime fails on a file the user has removed, and the receiver returns with
\* serverMutex locked.
SetReceivedTime ==
    /\ Receives("changeModificationTime")
    /\ perm' = perm \cup {receiver.path}
    /\ kernel' = Touched("other")
    /\ receiver' = [receiver EXCEPT
                        !.at = IF disk[receiver.path] = 0 THEN "dead" ELSE "unlock"]
    /\ UNCHANGED <<remotes, ignored, told, folderVars, watch, err, info>>

\* Mutant of Unlock: clientMutex.unlock() is missing.
UnlockNot ==
    /\ Receives("unlock")
    /\ perm' = perm \ {receiver.path}
    /\ UNCHANGED <<receiver, remotes, ignored, told, folderVars, watch, err, info, kernel>>

Unlock ==
    /\ Goes("unlock", "watchFile")
    /\ perm' = perm \ {receiver.path}
    /\ UNCHANGED <<folderVars, watch, err, info, kernel>>

WatchReceived ==
    /\ Receives("watchFile")
    /\ WatchFile(receiver.path)
    /\ receiver' = Resting
    /\ UNCHANGED <<remotes, ignored, told, folderVars, info, kernel, perm>>

\* Not while the user has p open: what inotify tells of a file without a name
\* depends on the kernel.
DeleteFile ==
    /\ Receives("deleteFile") /\ user.path # receiver.path
    /\ LET p == receiver.path
       IN  \/ /\ disk[p] = 0
              /\ receiver' = [receiver EXCEPT !.at = "dead"]
              /\ UNCHANGED <<disk, kernel, info>>
           \/ /\ disk[p] # 0
              /\ disk' = [disk EXCEPT ![p] = 0]
              /\ kernel' = Unlinked(kernel, p)
              /\ info' = [info EXCEPT ![p] = "unknown"]
              /\ receiver' = Resting
    /\ UNCHANGED <<remotes, ignored, told, made, data, used, watch, err, perm>>

ReceiverStep == \/ OpenFile \/ WriteFile \/ CloseFile \/ Received \/ SetReceivedTime
                \/ Unlock \/ WatchReceived \/ DeleteFile

Receiver == (\E p \in Files : ReceiveNewFile(p) \/ ReceiveDeletion(p)) \/ ReceiverStep

Next == User \/ Notifier \/ Sender \/ Receiver

Spec == Init /\ [][Next]_vars

\* All threads run; the user closes what she opened, but need not begin anything.
FairSpec == /\ Spec /\ WF_vars(Notifier) /\ WF_vars(Sender)
            /\ WF_vars(ReceiverStep) /\ WF_vars(UserClose)

-----------------------------------------------------------------------------
(* Properties *)

TypeOK ==
    /\ env \in Settings
    /\ disk \in [Names -> 0 .. MaxInode] /\ made \in 0 .. MaxInode
    /\ data \in [Inodes -> Nat]
    /\ watch \in [Inodes -> Names \cup {None}]
    /\ kernel \in Seq(KernelEvent) /\ events \in Seq(EventType)
    /\ err \in {"0", "EAGAIN"}
    /\ notifier \in [at : {"runOnce", "catchAllEvents", "determineMoveType"},
                     path : Names \cup {None}, to : Names \cup {None}]
    /\ info \in [Names -> {"unknown", "open", "closed"}]
    /\ ignored \subseteq Files /\ perm \subseteq Names
    /\ queue \in Seq([op : {"NEW_FILE", "DELETE", "MOVE"}, path : Files, to : Files \cup {None}])
    /\ sender.at \in {"idle", "procedure", "getModificationTime", "utime", "gone"}
    /\ receiver.path \in Names \cup {None}
    /\ user \in [path : Files \cup {None}, wrote : BOOLEAN]
    /\ used \subseteq Files /\ told \in [Names -> Nat \cup {Missing}]

\* Nothing is left to do until the user or the server does something.
AtRest == /\ Alive /\ kernel = <<>> /\ events = <<>> /\ queue = <<>>
          /\ sender.at = "idle" /\ receiver.at = "idle" /\ user.path = None

NamesAgree == \A p \in Mine : (disk[p] # 0) <=> (told[p] # Missing)

\* The settings in which names can be expected to be reported: no name is used twice;
\* and, unless all the user does alone is to make, write and remove files, the
\* notifier keeps up, in a folder that was empty, and moves nothing beside a server.
Orderly(s) ==
    /\ "again" \notin s.ops
    /\ \/ s.remote = {} /\ s.ops \subseteq {"create", "write", "remove"}
       \/ ~s.lag /\ Present = {} /\ s.remote = {}
       \/ ~s.lag /\ Present = {} /\ s.ops \subseteq {"create", "write", "remove"}

\* A file the user makes, removes or moves never goes unnoticed, in the settings that
\* are Orderly: catchAllEvents and determineMoveType drop events, and
\* isIgnored ignores some, but none of those that tell of a name
\* (Notifier.cpp:140-180, ClientEventReporter.cpp:294-317).
NamesReported == AtRest => NamesAgree

\* And the server hears of it: the notifier waits for no event that does not
\* come, and the receiver does not keep serverMutex, unless a thread has died.
NamesCatchUp == <>[](Alive /\ receiver.at # "dead" => NamesAgree)

\* The last thing the user wrote is what the server has (test/test.sh:124-127:
\* a line is appended to a file, `Czy plik zostal zmodyfikowany?').
ContentReported ==
    AtRest => \A p \in Mine : disk[p] # 0 => told[p] = data[disk[p]]

\* All the while a file is received, the reporter ignores it: the sender's
\* getModificationTime, which takes paths off the same set, is kept out by
\* serverMutex (Dropbox.cpp:350-361, 487-514, 534-554).
WritesHidden == receiver.at \in {"open", "write", "close", "received"}
                    => receiver.path \in perm

\* The settings for NoEcho: the server sends nothing, or the user moves nothing.
Watchful(s) == s.remote = {} \/ s.ops \cap {"move", "in", "out"} = {}

\* What stands under p was written by the server, or can only have been.
Echoing(p) == disk[p] # 0 /\ ~ByUser(data[disk[p]])
Servers(p) == p \in Theirs \/ Echoing(p)

\* What is unread, as the notifier will see it, and the kinds of event that can make the
\* reporter ask for a new file.
Unheard == {events[j] : j \in 1 .. Len(events)}
           \cup {Translated(kernel[j]) : j \in 1 .. Len(kernel)}
Loud == {"create", "modify", "moved_to"}

\* Something that makes the client send p is unread or waits in catchAllEvents; a
\* deletion of p is being made for the server or is unread.
Heard(p) == \/ \E e \in Unheard : e.path = p /\ e.type \in Loud
            \/ notifier.at = "catchAllEvents" /\ notifier.path = p
Deleting(p) == \/ receiver.at = "deleteFile" /\ receiver.path = p
               \/ \E e \in Unheard : e.path = p /\ e.type = "delete"

\* The reporter would take what the server does to p for the user's.
Exposed(p) == \/ Servers(p) /\ p \notin perm /\ Heard(p)
              \/ p \in Theirs /\ p \notin ignored /\ Deleting(p)

Asks(op, p) == Len(queue') > Len(queue) /\ queue'[Len(queue')] = Request(op, p, None)

\* In the settings that are Watchful, the client asks for a file that the server sent as a
\* new one, or for a file whose name the user does not use as a deleted one, only when the
\* path has left permanentlyIgnored or ignoredPaths before the notifier came to the
\* events; a notifier that keeps up always comes in time (Dropbox.cpp:487-514, 534-554,
\* 597; ClientEventReporter.cpp:294-317).  A deletion of a name she does use can come
\* back even then: her next event uses up its place in ignoredPaths.
NoEcho ==
    [][\A p \in Files :
          /\ Asks("NEW_FILE", p) /\ Servers(p) => Exposed(p)
          /\ Asks("DELETE", p) /\ p \in Theirs => Exposed(p)
          /\ Exposed(p)' /\ ~Exposed(p) =>
                 env.lag /\ (p \in perm \ perm' \/ p \in ignored \ ignored')]_vars
=============================================================================
