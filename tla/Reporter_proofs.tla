---------------------------- MODULE Reporter_proofs ----------------------------
(***************************************************************************)
(* Theorems about Reporter, for any names, settings and bounds: types, that*)
(* a file which is being received stays hidden from the reporter, for the  *)
(* settings of Orderly that no name the user makes, removes or moves goes  *)
(* unnoticed, and for those of Watchful that what the server sent is sent  *)
(* back only by a notifier that lags behind.                               *)
(***************************************************************************)
EXTENDS Reporter, TLAPS, FiniteSetTheorems, SequenceTheorems

Ops == {"NEW_FILE", "DELETE", "MOVE"}
Requests == {r \in [op : Ops, path : Files, to : Files \cup {None}] :
                r.op = "MOVE" => r.to \in Files}
SenderAts == {"idle", "procedure", "getModificationTime", "utime", "gone"}
ReceiverAts == {"idle", "open", "write", "close", "received", "changeModificationTime",
                "unlock", "watchFile", "deleteFile", "dead"}
SenderState == [at : SenderAts, op : Ops, path : Files \cup {None},
                to : Files \cup {None}, n : Nat]
ReceiverState == [at : ReceiverAts, path : Names \cup {None}, n : Nat]
NotifierState == [at : {"runOnce", "catchAllEvents", "determineMoveType"},
                  path : Names \cup {None}, to : Names \cup {None}]

\* The path of an event can be told: it has a name or a watch that is set.
Tells(e) == IF e.wd = 0 THEN e.name \in Names ELSE watch[e.wd] \in Names
Legible(k) == k \in Seq(KernelEvent) /\ \A j \in 1 .. Len(k) : Tells(k[j])

\* The inductive invariant, in four parts.
Folder ==
    /\ disk \in [Names -> 0 .. MaxInode] /\ made \in 0 .. MaxInode
    /\ data \in [Inodes -> Nat]
    /\ user \in [path : Files \cup {None}, wrote : BOOLEAN]
    /\ used \subseteq Files /\ edits \in Nat
Kernel ==
    /\ watch \in [Inodes -> Names \cup {None}] /\ err \in {"0", "EAGAIN"}
    /\ Legible(kernel) /\ events \in Seq(EventType)
Reports ==
    /\ notifier \in NotifierState /\ (notifier.at # "runOnce" => notifier.path \in Files)
    /\ info \in [Names -> {"unknown", "open", "closed"}]
    /\ ignored \subseteq Files /\ queue \in Seq(Requests)
Threads ==
    /\ env \in Settings
    /\ sender \in SenderState
    /\ sender.at \notin {"idle", "gone"} =>
           sender.path \in Files /\ (sender.op = "MOVE" => sender.to \in Files)
    /\ receiver \in ReceiverState
    /\ receiver.at # "idle" => receiver.path \in Names
    /\ perm \subseteq Names /\ told \in [Names -> Nat \cup {Missing}] /\ remotes \in Nat

Typed == Folder /\ Kernel /\ Reports /\ Threads

LEMMA TypedTypes == Typed => TypeOK
<1> SUFFICES ASSUME Typed PROVE TypeOK
  OBVIOUS
<1>1. queue \in Seq([op : {"NEW_FILE", "DELETE", "MOVE"}, path : Files, to : Files \cup {None}])
  <2>1. queue \in Seq(Requests)
    BY DEF Typed, Reports
  <2>2. Requests \subseteq [op : {"NEW_FILE", "DELETE", "MOVE"}, path : Files,
                           to : Files \cup {None}]
    BY DEF Requests, Ops
  <2>3. QED
    BY <2>1, <2>2, SeqMonotonic
<1>2. /\ sender.at \in {"idle", "procedure", "getModificationTime", "utime", "gone"}
      /\ receiver.path \in Names \cup {None}
  BY DEF Typed, Threads, SenderState, SenderAts, ReceiverState
<1>3. QED
  BY <1>1, <1>2 DEF Typed, Folder, Kernel, Legible, Reports, NotifierState, Threads, TypeOK

LEMMA TypedInit == Init => Typed
<1> SUFFICES ASSUME Init PROVE Typed
  OBVIOUS
<1>1. made \in 0 .. MaxInode
  BY PresentAssumption, BoundsAssumption, FS_CardinalityType DEF Init
<1>2. disk \in [Names -> 0 .. MaxInode]
  <2>1. PICK ino \in [Present -> 1 .. made] :
            disk = [p \in Names |-> IF p \in Present THEN ino[p] ELSE 0]
    BY DEF Init
  <2>2. QED
    BY <1>1, <2>1, BoundsAssumption
<1>3. Folder
  BY <1>1, <1>2, PresentAssumption DEF Init, Folder, Away
<1>4. Kernel
  BY DEF Init, Kernel, Legible
<1>5. Reports
  BY DEF Init, Reports, NotifierState, Idle
<1>6. Threads
  BY DEF Init, Threads, SenderState, SenderAts, Ops, ReceiverState, ReceiverAts,
         NoRequest, Resting, Missing
<1>7. QED
  BY <1>3, <1>4, <1>5, <1>6 DEF Typed

-----------------------------------------------------------------------------
(* Events *)

LEMMA NotedLegible ==
  ASSUME NEW k, Legible(k), NEW e \in KernelEvent, Tells(e)
  PROVE  Legible(Noted(k, e))
<1>1. Append(k, e) \in Seq(KernelEvent) /\ Len(Append(k, e)) = Len(k) + 1 /\ Len(k) \in Nat
  BY DEF Legible
<1>2. ASSUME NEW j \in 1 .. Len(k) + 1 PROVE Tells(Append(k, e)[j])
  <2>1. CASE j = Len(k) + 1
    BY <2>1 DEF Legible
  <2>2. CASE j # Len(k) + 1
    <3>1. j \in 1 .. Len(k) /\ Append(k, e)[j] = k[j]
      BY <1>1, <2>2 DEF Legible
    <3>2. QED
      BY <3>1 DEF Legible
  <2>3. QED
    BY <2>1, <2>2
<1>3. QED
  BY <1>1, <1>2 DEF Legible, Noted

LEMMA NamedLegible ==
  ASSUME NEW k, Legible(k), NEW t \in Kinds, NEW p \in Names
  PROVE  Legible(Named(k, t, p))
<1>1. [type |-> t, wd |-> 0, name |-> p] \in KernelEvent
  BY BoundsAssumption DEF KernelEvent
<1>2. Tells([type |-> t, wd |-> 0, name |-> p])
  BY DEF Tells
<1>3. QED
  BY <1>1, <1>2, NotedLegible DEF Named

LEMMA OwnLegible ==
  ASSUME NEW k, Legible(k), NEW t \in Kinds, NEW i \in 0 .. MaxInode,
         watch \in [Inodes -> Names \cup {None}]
  PROVE  Legible(Own(k, t, i))
<1>1. CASE i # 0 /\ watch[i] # None
  <2>1. [type |-> t, wd |-> i, name |-> None] \in KernelEvent
    BY DEF KernelEvent
  <2>2. Tells([type |-> t, wd |-> i, name |-> None])
    BY <1>1, BoundsAssumption DEF Tells, Inodes
  <2>3. QED
    BY <1>1, <2>1, <2>2, NotedLegible DEF Own
<1>2. CASE ~(i # 0 /\ watch[i] # None)
  BY <1>2 DEF Own
<1>3. QED
  BY <1>1, <1>2

LEMMA RaisedLegible ==
  ASSUME NEW k, Legible(k), NEW t \in Kinds, NEW p \in Names,
         watch \in [Inodes -> Names \cup {None}], disk \in [Names -> 0 .. MaxInode]
  PROVE  Legible(Raised(k, t, p))
  BY NamedLegible, OwnLegible DEF Raised

LEMMA UnlinkedLegible ==
  ASSUME NEW k, Legible(k), NEW p \in Names,
         watch \in [Inodes -> Names \cup {None}], disk \in [Names -> 0 .. MaxInode]
  PROVE  Legible(Unlinked(k, p))
<1>1. "other" \in Kinds /\ "delete" \in Kinds /\ disk[p] \in 0 .. MaxInode
  BY DEF Kinds
<1>2. Legible(Own(k, "other", disk[p]))
  BY <1>1, OwnLegible
<1>3. Legible(Named(Own(k, "other", disk[p]), "delete", p))
  BY <1>1, <1>2, NamedLegible
<1>4. QED
  BY <1>1, <1>3, OwnLegible DEF Unlinked

LEMMA TranslatedTyped ==
  ASSUME Kernel
  PROVE  [j \in DOMAIN kernel |-> Translated(kernel[j])] \in Seq(EventType)
<1>1. Len(kernel) \in Nat /\ DOMAIN kernel = 1 .. Len(kernel)
  BY DEF Kernel, Legible
<1>2. ASSUME NEW j \in 1 .. Len(kernel) PROVE Translated(kernel[j]) \in EventType
  <2>1. kernel[j] \in KernelEvent /\ Tells(kernel[j])
    BY <1>2 DEF Kernel, Legible
  <2>2. QED
    BY <2>1 DEF Tells, Translated, KernelEvent, EventType
<1>3. QED
  BY <1>1, <1>2

LEMMA WatchFileTyped ==
  ASSUME Kernel, Folder, NEW p \in Names, WatchFile(p)
  PROVE  /\ watch' \in [Inodes -> Names \cup {None}] /\ err' \in {"0", "EAGAIN"}
         /\ \A k : Legible(k) => Legible(k)'
<1>1. watch' \in [Inodes -> Names \cup {None}] /\ err' \in {"0", "EAGAIN"}
  BY DEF WatchFile, Kernel
<1>2. \A i \in Inodes : watch[i] \in Names => watch'[i] \in Names
  BY DEF WatchFile, Kernel
<1>3. ASSUME NEW e \in KernelEvent, Tells(e) PROVE Tells(e)'
  BY <1>2, <1>3, BoundsAssumption DEF Tells, KernelEvent, Inodes
<1>4. ASSUME NEW k, Legible(k) PROVE Legible(k)'
  BY <1>3, <1>4 DEF Legible
<1>5. QED
  BY <1>1, <1>4

-----------------------------------------------------------------------------
(* The user *)

LEMMA UserRecord ==
  ASSUME NEW p \in Files
  PROVE  [path |-> p, wrote |-> FALSE] \in [path : Files \cup {None}, wrote : BOOLEAN]
  OBVIOUS

LEMMA TypedUser ==
  ASSUME Typed, User
  PROVE  Typed'
<1> USE DEF Kinds
<1>1. Reports' /\ Threads'
  BY DEF User, UserCreate, UserOpen, UserRemove, UserMoveIn, UserMoveOut, UserMove,
         UserWrite, UserClose, Edits, notifierVars, bounds, Typed, Reports, Threads
<1>2. Folder'
  <2>1. Folder
    BY DEF Typed
  <2>2. edits' \in Nat
    BY <2>1 DEF Folder, User, UserCreate, UserOpen, UserRemove, UserMoveIn, UserMoveOut,
           UserMove, UserWrite, UserClose, Edits, bounds
  <2>3. Fresh \in Nat
    BY <2>1 DEF Folder, Fresh
  <2>4. ASSUME NEW p \in Files, UserCreate(p) \/ UserMoveIn(p) PROVE Folder'
    <3>1. made + 1 \in 0 .. MaxInode
      BY <2>1, <2>4, BoundsAssumption DEF Folder, UserCreate, UserMoveIn
    <3>2. /\ disk' = [disk EXCEPT ![p] = made + 1] /\ made' = made + 1
          /\ used' = used \cup {p} /\ data' = [data EXCEPT ![made + 1] = Fresh]
          /\ user' \in {user, [path |-> p, wrote |-> FALSE]}
      BY <2>4 DEF UserCreate, UserMoveIn
    <3>3. disk' \in [Names -> 0 .. MaxInode] /\ data' \in [Inodes -> Nat]
      BY <2>1, <2>3, <3>1, <3>2 DEF Folder
    <3>4. user' \in [path : Files \cup {None}, wrote : BOOLEAN]
      BY <2>1, <3>2, UserRecord DEF Folder
    <3>5. used' \subseteq Files
      BY <2>1, <3>2 DEF Folder
    <3>6. QED
      BY <2>2, <3>1, <3>2, <3>3, <3>4, <3>5 DEF Folder
  <2>5. ASSUME NEW p \in Files, UserOpen(p) \/ UserRemove(p) \/ UserMoveOut(p) PROVE Folder'
    <3>1. /\ disk' \in {disk, [disk EXCEPT ![p] = 0]}
          /\ made' = made /\ used' = used /\ data' = data
          /\ user' \in {user, [path |-> p, wrote |-> FALSE]}
      BY <2>5 DEF UserOpen, UserRemove, UserMoveOut, folderVars
    <3>2. disk' \in [Names -> 0 .. MaxInode]
      BY <2>1, <3>1, BoundsAssumption DEF Folder
    <3>3. user' \in [path : Files \cup {None}, wrote : BOOLEAN]
      BY <2>1, <3>1, UserRecord DEF Folder
    <3>4. QED
      BY <2>1, <2>2, <3>1, <3>2, <3>3 DEF Folder
  <2>6. ASSUME NEW p \in Files, NEW q \in Files, UserMove(p, q) PROVE Folder'
    <3>1. /\ disk' = [disk EXCEPT ![q] = disk[p], ![p] = 0]
          /\ made' = made /\ used' = used \cup {q} /\ data' = data /\ user' = user
      BY <2>6 DEF UserMove
    <3>2. disk' \in [Names -> 0 .. MaxInode]
      BY <2>1, <3>1, BoundsAssumption DEF Folder, Names
    <3>3. QED
      BY <2>1, <2>2, <3>1, <3>2 DEF Folder
  <2>7. CASE UserWrite
    <3>1. /\ disk' = disk /\ made' = made /\ used' = used
          /\ data' = [data EXCEPT ![disk[user.path]] = Fresh]
          /\ user' = [user EXCEPT !.wrote = TRUE]
      BY <2>7 DEF UserWrite
    <3>2. data' \in [Inodes -> Nat]
      BY <2>1, <2>3, <3>1 DEF Folder
    <3>3. user' \in [path : Files \cup {None}, wrote : BOOLEAN]
      BY <2>1, <3>1 DEF Folder
    <3>4. QED
      BY <2>1, <2>2, <3>1, <3>2, <3>3 DEF Folder
  <2>8. CASE UserClose
    <3>1. user' = Away /\ UNCHANGED folderVars
      BY <2>8 DEF UserClose
    <3>2. QED
      BY <2>1, <2>2, <3>1 DEF Folder, Away, folderVars
  <2>9. QED
    BY <2>4, <2>5, <2>6, <2>7, <2>8 DEF User
<1>3. Kernel'
  <2>1. watch' = watch /\ err' = err /\ events' = events
    BY DEF User, UserCreate, UserOpen, UserRemove, UserMoveIn, UserMoveOut, UserMove,
           UserWrite, UserClose, Edits, notifierVars
  <2>2. Legible(kernel')
    <3> USE DEF Typed, Folder, Kernel, Names
    <3>1. ASSUME NEW p \in Files, UserCreate(p) PROVE Legible(kernel')
      BY <3>1, NamedLegible DEF UserCreate
    <3>2. ASSUME NEW p \in Files, UserOpen(p) PROVE Legible(kernel')
      BY <3>2, RaisedLegible DEF UserOpen
    <3>3. ASSUME NEW p \in Files, UserRemove(p) PROVE Legible(kernel')
      BY <3>3, UnlinkedLegible DEF UserRemove
    <3>4. ASSUME NEW p \in Files, UserMoveIn(p) PROVE Legible(kernel')
      BY <3>4, NamedLegible, OwnLegible DEF UserMoveIn
    <3>5. ASSUME NEW p \in Files, UserMoveOut(p) PROVE Legible(kernel')
      BY <3>5, NamedLegible, OwnLegible DEF UserMoveOut
    <3>6. ASSUME NEW p \in Files, NEW q \in Files, UserMove(p, q) PROVE Legible(kernel')
      <4>1. Legible(Named(Named(kernel, "moved_from", p), "moved_to", q))
        BY NamedLegible
      <4>2. Legible(Own(Named(Named(kernel, "moved_from", p), "moved_to", q), "other", disk[q]))
        BY <4>1, OwnLegible
      <4>3. QED
        BY <3>6, <4>2, OwnLegible DEF UserMove
    <3>7. CASE UserWrite
      BY <3>7, RaisedLegible DEF UserWrite
    <3>8. CASE UserClose
      BY <3>8, RaisedLegible DEF UserClose
    <3>9. QED
      BY <3>1, <3>2, <3>3, <3>4, <3>5, <3>6, <3>7, <3>8 DEF User
  <2>3. QED
    BY <2>1, <2>2 DEF Typed, Kernel, Legible, Tells
<1>4. QED
  BY <1>1, <1>2, <1>3 DEF Typed

-----------------------------------------------------------------------------
(* The notifier *)

LEMMA ChooseRequestTyped ==
  ASSUME Typed, NEW event, NEW source \in Files \cup {None}, NEW p \in Names,
         event = "internal_move" => source \in Files,
         ChooseRequest(event, source, p)
  PROVE  /\ info' \in [Names -> {"unknown", "open", "closed"}]
         /\ ignored' \subseteq Files
         /\ queue' \in Seq(Requests)
<1>1. /\ info \in [Names -> {"unknown", "open", "closed"}]
      /\ ignored \subseteq Files /\ queue \in Seq(Requests)
  BY DEF Typed, Reports
<1>2. ignored' \subseteq Files
  BY <1>1 DEF ChooseRequest
<1>3. CASE UNCHANGED <<info, queue>>
  BY <1>1, <1>2, <1>3
<1>4. CASE /\ ~IsIgnored(p)
           /\ \/ event = "open" /\ SaveAs(p, "open")
              \/ event = "close" /\ SaveAs(p, "closed")
              \/ event \in {"create", "modify"} /\ RequestCreation(p)
              \/ event \in {"delete", "outward_move"} /\ RequestDeletion(p)
              \/ event = "internal_move" /\ RequestMove(source, p)
              \/ event = "moved_to" /\ RequestMoveTo(p)
  <2>1. p \in Files
    BY <1>4 DEF IsIgnored, Names
  <2>2. /\ Request("NEW_FILE", p, None) \in Requests /\ Request("DELETE", p, None) \in Requests
        /\ Request("MOVE", p, p) \in Requests
    BY <2>1 DEF Request, Requests, Ops
  <2>3. source \in Files => Request("MOVE", source, p) \in Requests
    BY <2>1 DEF Request, Requests, Ops
  <2>4. \A how \in {"unknown", "open", "closed"} :
            [info EXCEPT ![p] = how] \in [Names -> {"unknown", "open", "closed"}]
    BY <1>1
  <2>5. Listed(p) \in [Names -> {"unknown", "open", "closed"}]
    BY <1>1, <2>4 DEF Listed
  <2>6. info' \in [Names -> {"unknown", "open", "closed"}]
    BY <1>1, <1>4, <2>4, <2>5
    DEF SaveAs, RequestCreation, RequestDeletion, RequestMove, RequestMoveTo
  <2>7. queue' = queue \/ \E r \in Requests : queue' = Append(queue, r)
    BY <1>4, <2>2, <2>3 DEF SaveAs, RequestCreation, RequestDeletion, RequestMove, RequestMoveTo
  <2>8. QED
    BY <1>1, <1>2, <2>6, <2>7
<1>5. QED
  BY <1>3, <1>4 DEF ChooseRequest

\* A step of runOnce's thread takes the first of the events read.
LEMMA NextEventTyped ==
  ASSUME Typed, NEW at, GetNextEvent(at)
  PROVE  Folder' /\ Threads' /\ events' \in Seq(EventType) /\ Head(events) \in EventType
         /\ kernel' = kernel
  BY DEF GetNextEvent, bounds, folderVars, Typed, Folder, Kernel, Threads

LEMMA TypedNotifier ==
  ASSUME Typed, Notifier
  PROVE  Typed'
<1>1. CASE Poll
  BY <1>1 DEF Poll, bounds, folderVars, notifierVars, Typed, Folder, Kernel, Legible, Tells,
              Reports, Threads
<1>2. CASE Read
  <2>1. Folder' /\ Reports' /\ Threads'
    BY <1>2 DEF Read, bounds, folderVars, Typed, Folder, Reports, Threads
  <2>2. events' \in Seq(EventType)
    BY <1>2, TranslatedTyped DEF Read, Typed
  <2>3. Legible(kernel)'
    BY <1>2 DEF Read, Legible
  <2>4. QED
    BY <1>2, <2>1, <2>2, <2>3 DEF Read, Typed, Kernel
<1>3. CASE RunOnce
  <2> DEFINE e == Head(events)
             skip == e.path = Hidden \/ (e.type = "open" /\ disk[e.path] = 0)
  <2>1. /\ Folder' /\ Threads' /\ events' \in Seq(EventType) /\ e \in EventType
        /\ kernel' = kernel
    BY <1>3, NextEventTyped DEF RunOnce
  <2>2. e.path \in Names
    BY <2>1 DEF EventType
  <2> HIDE DEF e, skip
  <2>3. CASE UNCHANGED <<notifier, info, queue, ignored, watch, err>>
    BY <2>1, <2>3 DEF Typed, Kernel, Legible, Tells, Reports
  <2>4. CASE /\ ~skip
             /\ notifier' \in {[at |-> a, path |-> e.path, to |-> None] :
                                  a \in {"catchAllEvents", "determineMoveType"}}
             /\ UNCHANGED <<info, queue, ignored, watch, err>>
    <3>1. e.path \in Files
      BY <2>2, <2>4 DEF skip, Names
    <3>2. notifier' \in NotifierState /\ notifier'.path \in Files
      BY <2>4, <3>1 DEF NotifierState, Names
    <3>3. QED
      BY <2>1, <2>4, <3>2 DEF Typed, Kernel, Legible, Tells, Reports
  <2>5. CASE /\ IF e.type = "create" THEN WatchFile(e.path) ELSE UNCHANGED <<watch, err>>
             /\ ChooseRequest(e.type, None, e.path)
             /\ UNCHANGED notifier
             /\ e.type # "internal_move"
    <3>1. Reports'
      BY <2>2, <2>5, ChooseRequestTyped DEF Typed, Reports
    <3>2. Kernel'
      <4>1. CASE WatchFile(e.path)
        BY <2>1, <2>2, <4>1, WatchFileTyped DEF Typed, Kernel
      <4>2. CASE UNCHANGED <<watch, err>>
        BY <2>1, <4>2 DEF Typed, Kernel, Legible, Tells
      <4>3. QED
        BY <2>5, <4>1, <4>2
    <3>3. QED
      BY <2>1, <3>1, <3>2 DEF Typed
  <2>6. e.type # "internal_move"
    BY <2>1 DEF EventType, Kinds
  <2>7. QED
    BY <1>3, <2>3, <2>4, <2>5, <2>6 DEF RunOnce, e, skip
<1>4. CASE CatchAllEvents
  <2> DEFINE e == Head(events)
  <2>1. /\ Folder' /\ Threads' /\ events' \in Seq(EventType) /\ e \in EventType
        /\ kernel' = kernel
    BY <1>4, NextEventTyped DEF CatchAllEvents
  <2>2. Kernel'
    BY <1>4, <2>1 DEF CatchAllEvents, Typed, Kernel, Legible, Tells
  <2>3. e.type # "internal_move" /\ notifier.path \in Names
    BY <1>4, <2>1 DEF CatchAllEvents, GetNextEvent, EventType, Kinds, Typed, Reports, Names
  <2> HIDE DEF e
  <2>4. ASSUME UNCHANGED <<notifier, info, queue, ignored>>
         PROVE Reports'
    BY <2>4 DEF Typed, Reports
  <2>5. ASSUME ChooseRequest(e.type, None, notifier.path) /\ notifier' = Idle
         PROVE Reports'
    BY <2>3, <2>5, ChooseRequestTyped DEF Reports, Idle, NotifierState
  <2>6. QED
    <3>1. Reports'
      BY <1>4, <2>4, <2>5 DEF CatchAllEvents, e
    <3>2. QED
      BY <2>1, <2>2, <3>1 DEF Typed
<1>5. CASE DetermineMoveType
  <2> DEFINE e == Head(events)
             to == IF notifier.to = None /\ e.type = "moved_to" THEN e.path ELSE notifier.to
  <2>1. /\ Folder' /\ Threads' /\ events' \in Seq(EventType) /\ e \in EventType
        /\ kernel' = kernel
    BY <1>5, NextEventTyped DEF DetermineMoveType
  <2>2. Kernel'
    BY <1>5, <2>1 DEF DetermineMoveType, Typed, Kernel, Legible, Tells
  <2>3. notifier \in NotifierState /\ notifier.path \in Files
    BY <1>5 DEF DetermineMoveType, GetNextEvent, Typed, Reports
  <2>4. to \in Names \cup {None}
    BY <2>1, <2>3 DEF EventType, NotifierState
  <2> HIDE DEF e, to
  <2>5. ASSUME notifier' = [notifier EXCEPT !.to = to] /\ UNCHANGED <<info, queue, ignored>>
         PROVE Reports'
    <3>1. notifier' \in NotifierState /\ notifier'.path \in Files
      BY <2>3, <2>4, <2>5 DEF NotifierState
    <3>2. QED
      BY <2>5, <3>1 DEF Typed, Reports
  <2>6. ASSUME ChooseRequest("outward_move", None, notifier.path) /\ notifier' = Idle
         PROVE Reports'
    BY <2>3, <2>6, ChooseRequestTyped DEF Reports, Idle, NotifierState, Names
  <2>7. ASSUME to # None /\ ChooseRequest("internal_move", notifier.path, to) /\ notifier' = Idle
         PROVE Reports'
    BY <2>3, <2>4, <2>7, ChooseRequestTyped DEF Reports, Idle, NotifierState
  <2>8. QED
    <3>1. err \in {"0", "EAGAIN"}
      BY DEF Typed, Kernel
    <3>2. Reports'
      BY <1>5, <2>5, <2>6, <2>7, <3>1 DEF DetermineMoveType, e, to
    <3>3. QED
      BY <2>1, <2>2, <3>2 DEF Typed
<1>6. QED
  BY <1>1, <1>2, <1>3, <1>4, <1>5 DEF Notifier

-----------------------------------------------------------------------------
(* The sender *)

LEMMA SendsTyped ==
  ASSUME Typed, NEW at, Sends(at), queue' \in Seq(Requests)
  PROVE  /\ Folder' /\ Reports'
         /\ events' \in Seq(EventType) /\ env' \in Settings /\ remotes' \in Nat
         /\ receiver' \in ReceiverState /\ (receiver'.at # "idle" => receiver'.path \in Names)
  BY DEF Sends, bounds, folderVars, Typed, Folder, Kernel, Reports, Threads

\* What is left to show of the steps that send.
LEMMA SenderTyped ==
  ASSUME Typed, NEW at, Sends(at), UNCHANGED <<queue, watch, err>>, Legible(kernel'),
         sender' \in SenderState,
         sender'.at \notin {"idle", "gone"} =>
             sender'.path \in Files /\ (sender'.op = "MOVE" => sender'.to \in Files),
         perm' \subseteq Names, told' \in [Names -> Nat \cup {Missing}]
  PROVE  Typed'
<1>1. queue' \in Seq(Requests)
  BY DEF Typed, Reports
<1>2. /\ Folder' /\ Reports'
      /\ events' \in Seq(EventType) /\ env' \in Settings /\ remotes' \in Nat
      /\ receiver' \in ReceiverState /\ (receiver'.at # "idle" => receiver'.path \in Names)
  BY <1>1, SendsTyped
<1>3. Kernel'
  BY <1>2 DEF Typed, Kernel, Legible, Tells
<1>4. Threads'
  BY <1>2 DEF Threads
<1>5. QED
  BY <1>2, <1>3, <1>4 DEF Typed

LEMMA NoRequestTyped == NoRequest \in SenderState /\ NoRequest.at = "idle"
  BY DEF NoRequest, SenderState, SenderAts, Ops

LEMMA TypedSender ==
  ASSUME Typed, Sender
  PROVE  Typed'
<1>1. /\ sender \in SenderState /\ perm \subseteq Names
      /\ told \in [Names -> Nat \cup {Missing}] /\ Missing \in Nat \cup {Missing}
      /\ sender.at \notin {"idle", "gone"} =>
             sender.path \in Files /\ (sender.op = "MOVE" => sender.to \in Files)
      /\ disk \in [Names -> 0 .. MaxInode] /\ data \in [Inodes -> Nat]
      /\ watch \in [Inodes -> Names \cup {None}] /\ Legible(kernel)
      /\ Kernel /\ Folder
  BY DEF Typed, Threads, Folder, Kernel
<1>2. \A a \in SenderAts : [sender EXCEPT !.at = a] \in SenderState
  BY <1>1 DEF SenderState
<1>3. CASE Dequeue
  <2>1. queue \in Seq(Requests) /\ queue # <<>>
    BY <1>3 DEF Dequeue, Typed, Reports
  <2>2. Head(queue) \in Requests /\ queue' \in Seq(Requests)
    BY <1>3, <2>1 DEF Dequeue
  <2>3. /\ Folder' /\ Reports'
        /\ events' \in Seq(EventType) /\ env' \in Settings /\ remotes' \in Nat
        /\ receiver' \in ReceiverState /\ (receiver'.at # "idle" => receiver'.path \in Names)
    BY <1>3, <2>2, SendsTyped DEF Dequeue
  <2>4. Kernel'
    <3>1. CASE WatchFile(Head(queue).path)
      <4>1. Head(queue).path \in Names
        BY <2>2 DEF Requests, Names
      <4>2. QED
        BY <1>1, <1>3, <2>3, <3>1, <4>1, WatchFileTyped DEF Dequeue, Kernel
    <3>2. CASE UNCHANGED <<watch, err>>
      BY <1>1, <1>3, <2>3, <3>2 DEF Dequeue, Kernel, Legible, Tells
    <3>3. QED
      BY <1>3, <3>1, <3>2 DEF Dequeue
  <2>5. sender' = [at |-> "procedure", op |-> Head(queue).op, path |-> Head(queue).path,
                   to |-> Head(queue).to, n |-> 0]
    BY <1>3 DEF Dequeue
  <2>6. /\ sender' \in SenderState
        /\ sender'.path \in Files /\ (sender'.op = "MOVE" => sender'.to \in Files)
    BY <2>2, <2>5 DEF Requests, SenderState, SenderAts
  <2>7. Threads'
    BY <1>1, <1>3, <2>3, <2>6 DEF Dequeue, Threads
  <2>8. QED
    BY <2>3, <2>4, <2>7 DEF Typed
<1>4. CASE SendContent
  <2> DEFINE p == sender.path
  <2>1. p \in Files /\ (sender.op = "MOVE" => sender.to \in Files)
    BY <1>1, <1>4 DEF SendContent, Sends
  <2>2. CASE disk[p] = 0 /\ sender' = [sender EXCEPT !.at = "gone"] /\ UNCHANGED kernel
    <3>1. sender' \in SenderState /\ sender'.at = "gone"
      BY <1>1, <1>2, <2>2 DEF SenderState, SenderAts
    <3>2. QED
      BY <1>1, <1>4, <2>2, <3>1, SenderTyped DEF SendContent
  <2>3. CASE /\ disk[p] # 0
             /\ sender' = [sender EXCEPT !.at = "getModificationTime", !.n = data[disk[p]]]
             /\ kernel' = Raised(Raised(Raised(kernel, "open", p), "other", p), "close", p)
    <3>1. p \in Names /\ "open" \in Kinds /\ "other" \in Kinds /\ "close" \in Kinds
      BY <2>1 DEF Names, Kinds
    <3>2. Legible(Raised(kernel, "open", p))
      BY <1>1, <3>1, RaisedLegible
    <3>3. Legible(Raised(Raised(kernel, "open", p), "other", p))
      BY <1>1, <3>1, <3>2, RaisedLegible
    <3>4. Legible(kernel')
      BY <1>1, <2>3, <3>1, <3>3, RaisedLegible
    <3>5. data[disk[p]] \in Nat
      BY <1>1, <2>3, <3>1, BoundsAssumption DEF Inodes
    <3>6. /\ sender' \in SenderState /\ sender'.path = p
          /\ sender'.op = sender.op /\ sender'.to = sender.to
      BY <1>1, <2>3, <3>5 DEF SenderState, SenderAts
    <3>7. QED
      BY <1>1, <1>4, <2>1, <3>4, <3>6, SenderTyped DEF SendContent
  <2>4. QED
    BY <1>4, <2>2, <2>3 DEF SendContent
<1>5. CASE GetModificationTime
  <2>1. sender.path \in Files /\ (sender.op = "MOVE" => sender.to \in Files)
    BY <1>1, <1>5 DEF GetModificationTime, Sends
  <2>2. /\ sender' \in SenderState /\ sender'.path = sender.path
        /\ sender'.op = sender.op /\ sender'.to = sender.to
    BY <1>1, <1>2, <1>5 DEF GetModificationTime, SenderState, SenderAts
  <2>3. perm' \subseteq Names
    BY <1>1, <1>5, <2>1 DEF GetModificationTime, Names
  <2>4. QED
    BY <1>1, <1>5, <2>1, <2>2, <2>3, SenderTyped DEF GetModificationTime
<1>6. CASE ChangeModificationTime
  <2> DEFINE p == sender.path
  <2>1. p \in Files /\ (sender.op = "MOVE" => sender.to \in Files)
    BY <1>1, <1>6 DEF ChangeModificationTime, Sends
  <2>2. CASE disk[p] = 0 /\ sender' = [sender EXCEPT !.at = "gone"] /\ UNCHANGED <<kernel, perm, told>>
    <3>1. sender' \in SenderState /\ sender'.at = "gone"
      BY <1>1, <1>2, <2>2 DEF SenderState, SenderAts
    <3>2. QED
      BY <1>1, <1>6, <2>2, <3>1, SenderTyped DEF ChangeModificationTime
  <2>3. CASE /\ kernel' = Raised(kernel, "other", p) /\ perm' = perm \ {p}
             /\ told' = [told EXCEPT ![p] = sender.n] /\ sender' = NoRequest
    <3>1. Legible(kernel')
      BY <1>1, <2>1, <2>3, RaisedLegible DEF Names, Kinds
    <3>2. told' \in [Names -> Nat \cup {Missing}]
      BY <1>1, <2>3 DEF SenderState
    <3>3. QED
      BY <1>1, <1>6, <2>3, <3>1, <3>2, SenderTyped, NoRequestTyped DEF ChangeModificationTime
  <2>4. QED
    BY <1>6, <2>2, <2>3 DEF ChangeModificationTime
<1>7. CASE SendDeletion
  <2>1. told' \in [Names -> Nat \cup {Missing}]
    BY <1>1, <1>7 DEF SendDeletion
  <2>2. QED
    BY <1>1, <1>7, <2>1, SenderTyped, NoRequestTyped DEF SendDeletion
<1>8. CASE SendMove
  <2>1. sender.path \in Names /\ sender.to \in Names
    BY <1>1, <1>8 DEF SendMove, Sends, Names
  <2>2. told' \in [Names -> Nat \cup {Missing}]
    BY <1>1, <1>8, <2>1 DEF SendMove
  <2>3. queue' \in Seq(Requests)
    BY <1>8 DEF SendMove, Typed, Reports
  <2>4. /\ Folder' /\ Reports'
        /\ events' \in Seq(EventType) /\ env' \in Settings /\ remotes' \in Nat
        /\ receiver' \in ReceiverState /\ (receiver'.at # "idle" => receiver'.path \in Names)
    BY <1>8, <2>3, SendsTyped DEF SendMove
  <2>5. Kernel'
    BY <1>1, <1>8, <2>1, <2>4, WatchFileTyped DEF SendMove, Kernel
  <2>6. Threads'
    BY <1>1, <1>8, <2>2, <2>4, NoRequestTyped DEF SendMove, Threads
  <2>7. QED
    BY <2>4, <2>5, <2>6 DEF Typed
<1>9. QED
  BY <1>3, <1>4, <1>5, <1>6, <1>7, <1>8 DEF Sender

-----------------------------------------------------------------------------
(* The receiver *)

\* What is left to show of the steps that leave the watches alone.
LEMMA ReceiverTyped ==
  ASSUME Typed, NEW at, Receives(at), UNCHANGED <<watch, err>>, Legible(kernel'),
         disk' \in [Names -> 0 .. MaxInode], made' \in 0 .. MaxInode,
         data' \in [Inodes -> Nat], used' = used,
         info' \in [Names -> {"unknown", "open", "closed"}], ignored' \subseteq Files,
         receiver' \in ReceiverState, receiver'.at # "idle" => receiver'.path \in Names,
         perm' \subseteq Names, told' \in [Names -> Nat \cup {Missing}], remotes' \in Nat
  PROVE  Typed'
<1>1. Folder'
  BY DEF Receives, Typed, Folder
<1>2. Kernel'
  BY DEF Receives, Typed, Kernel, Legible, Tells
<1>3. Reports'
  BY DEF Receives, Typed, Reports
<1>4. Threads'
  BY DEF Receives, Typed, Threads
<1>5. QED
  BY <1>1, <1>2, <1>3, <1>4 DEF Typed

LEMMA RestingTyped == Resting \in ReceiverState /\ Resting.at = "idle"
  BY DEF Resting, ReceiverState, ReceiverAts

LEMMA TouchedLegible ==
  ASSUME Typed, receiver.path \in Names, NEW t \in Kinds
  PROVE  Legible(Touched(t))
  BY RaisedLegible DEF Touched, Typed, Folder, Kernel

LEMMA TypedReceiver ==
  ASSUME Typed, Receiver
  PROVE  Typed'
<1>1. /\ disk \in [Names -> 0 .. MaxInode] /\ made \in 0 .. MaxInode
      /\ data \in [Inodes -> Nat]
      /\ info \in [Names -> {"unknown", "open", "closed"}] /\ ignored \subseteq Files
      /\ receiver \in ReceiverState /\ (receiver.at # "idle" => receiver.path \in Names)
      /\ perm \subseteq Names /\ told \in [Names -> Nat \cup {Missing}] /\ remotes \in Nat
      /\ watch \in [Inodes -> Names \cup {None}] /\ Legible(kernel)
      /\ Kernel /\ Folder
  BY DEF Typed, Folder, Kernel, Reports, Threads
<1>2. ASSUME NEW a \in ReceiverAts
      PROVE  [receiver EXCEPT !.at = a] \in ReceiverState
             /\ [receiver EXCEPT !.at = a].path = receiver.path
  BY <1>1 DEF ReceiverState
<1>3. \A q \in Names : [info EXCEPT ![q] = "unknown"] \in [Names -> {"unknown", "open", "closed"}]
                      /\ Listed(q) \in [Names -> {"unknown", "open", "closed"}]
  BY <1>1 DEF Listed
<1>4. ASSUME NEW p \in Files, ReceiveNewFile(p) PROVE Typed'
  <2> DEFINE target == IF info[p] = "open" THEN Hidden ELSE p
  <2>1. target \in Names /\ 2 * remotes + 1 \in Nat
    BY <1>1 DEF Names
  <2>2. /\ ignored' \subseteq Files /\ perm' = perm \cup {target}
        /\ receiver' = [at |-> "open", path |-> target, n |-> 2 * remotes + 1]
        /\ told' = [told EXCEPT ![p] = 2 * remotes + 1]
    BY <1>1, <1>4 DEF ReceiveNewFile
  <2> HIDE DEF target
  <2>3. told' \in [Names -> Nat \cup {Missing}]
    BY <1>1, <2>1, <2>2
  <2>4. receiver' \in ReceiverState /\ receiver'.path \in Names
    BY <2>1, <2>2 DEF ReceiverState, ReceiverAts
  <2>5. /\ Receives("idle") /\ remotes' \in Nat
        /\ UNCHANGED <<disk, made, data, used, watch, kernel, err, info>>
    BY <1>1, <1>4 DEF ReceiveNewFile, Arrives, folderVars
  <2>6. QED
    BY <1>1, <2>1, <2>2, <2>3, <2>4, <2>5, ReceiverTyped
<1>5. ASSUME NEW p \in Files, ReceiveDeletion(p) PROVE Typed'
  <2>1. /\ ignored' \subseteq Files /\ perm' = perm
        /\ receiver' = [at |-> "deleteFile", path |-> p, n |-> 0]
        /\ told' \in [Names -> Nat \cup {Missing}]
    BY <1>1, <1>5 DEF ReceiveDeletion
  <2>2. receiver' \in ReceiverState /\ receiver'.path \in Names
    BY <2>1 DEF ReceiverState, ReceiverAts, Names
  <2>3. /\ Receives("idle") /\ remotes' \in Nat
        /\ UNCHANGED <<disk, made, data, used, watch, kernel, err, info>>
    BY <1>1, <1>5 DEF ReceiveDeletion, Arrives, folderVars
  <2>4. QED
    BY <1>1, <2>1, <2>2, <2>3, ReceiverTyped
<1>6. ASSUME NEW at, NEW next \in ReceiverAts, Goes(at, next), at # "idle"
      PROVE  /\ Receives(at) /\ receiver' \in ReceiverState /\ receiver'.path \in Names
             /\ ignored' \subseteq Files /\ told' \in [Names -> Nat \cup {Missing}]
             /\ remotes' \in Nat /\ receiver.path \in Names
  BY <1>1, <1>2, <1>6 DEF Goes, Receives
<1>7. CASE OpenFile
  <2> DEFINE p == receiver.path
  <2>1. /\ Receives("open") /\ receiver' \in ReceiverState /\ receiver'.path \in Names
        /\ ignored' \subseteq Files /\ told' \in [Names -> Nat \cup {Missing}]
        /\ remotes' \in Nat /\ p \in Names
    BY <1>6, <1>7 DEF OpenFile, ReceiverAts
  <2>2. ASSUME disk[p] # 0, kernel' = Raised(Raised(kernel, "modify", p), "open", p),
               UNCHANGED <<disk, made>>
        PROVE  Legible(kernel') /\ disk' \in [Names -> 0 .. MaxInode] /\ made' \in 0 .. MaxInode
    <3>1. Legible(Raised(kernel, "modify", p))
      BY <1>1, <2>1, RaisedLegible DEF Kinds
    <3>2. Legible(kernel')
      BY <1>1, <2>1, <2>2, <3>1, RaisedLegible DEF Kinds
    <3>3. QED
      BY <1>1, <2>2, <3>2
  <2>3. ASSUME disk[p] = 0, made < MaxInode,
               kernel' = Named(Named(kernel, "create", p), "open", p),
               disk' = [disk EXCEPT ![p] = made + 1], made' = made + 1
        PROVE  Legible(kernel') /\ disk' \in [Names -> 0 .. MaxInode] /\ made' \in 0 .. MaxInode
    <3>1. Legible(Named(kernel, "create", p))
      BY <1>1, <2>1, NamedLegible DEF Kinds
    <3>2. Legible(kernel')
      BY <2>1, <2>3, <3>1, NamedLegible DEF Kinds
    <3>3. made + 1 \in 0 .. MaxInode
      BY <1>1, <2>3, BoundsAssumption
    <3>4. QED
      BY <1>1, <2>3, <3>2, <3>3
  <2>4. Legible(kernel') /\ disk' \in [Names -> 0 .. MaxInode] /\ made' \in 0 .. MaxInode
    BY <1>7, <2>2, <2>3 DEF OpenFile
  <2>5. data' \in [Inodes -> Nat]
    <3>1. data' = [data EXCEPT ![disk'[p]] = receiver.n] /\ receiver.n \in Nat
      BY <1>1, <1>7 DEF OpenFile, ReceiverState
    <3>2. QED
      BY <1>1, <3>1
  <2>6. QED
    BY <1>1, <1>7, <2>1, <2>4, <2>5, ReceiverTyped DEF OpenFile
<1>8. CASE WriteFile
  <2>1. /\ Receives("write") /\ receiver' \in ReceiverState /\ receiver'.path \in Names
        /\ ignored' \subseteq Files /\ told' \in [Names -> Nat \cup {Missing}]
        /\ remotes' \in Nat /\ receiver.path \in Names
    BY <1>6, <1>8 DEF WriteFile, ReceiverAts
  <2>2. Legible(kernel')
    BY <1>8, <2>1, TouchedLegible DEF WriteFile, Kinds
  <2>3. data' \in [Inodes -> Nat]
    BY <1>1, <1>8 DEF WriteFile, ReceiverState
  <2>4. QED
    BY <1>1, <1>8, <2>1, <2>2, <2>3, ReceiverTyped DEF WriteFile
<1>9. CASE CloseFile
  <2>1. /\ Receives("close") /\ receiver' \in ReceiverState /\ receiver'.path \in Names
        /\ ignored' \subseteq Files /\ told' \in [Names -> Nat \cup {Missing}]
        /\ remotes' \in Nat /\ receiver.path \in Names
    BY <1>6, <1>9 DEF CloseFile, ReceiverAts
  <2>2. Legible(kernel')
    BY <1>9, <2>1, TouchedLegible DEF CloseFile, Kinds
  <2>3. info' \in [Names -> {"unknown", "open", "closed"}]
    BY <1>3, <1>9, <2>1 DEF CloseFile
  <2>4. QED
    BY <1>1, <1>9, <2>1, <2>2, <2>3, ReceiverTyped DEF CloseFile, folderVars
<1>10. CASE Received \/ Unlock
  <2>1. PICK at \in ReceiverAts : /\ Receives(at)
                                 /\ receiver' \in ReceiverState /\ receiver'.path \in Names
                                 /\ ignored' \subseteq Files
                                 /\ told' \in [Names -> Nat \cup {Missing}] /\ remotes' \in Nat
    BY <1>6, <1>10 DEF Received, Unlock, ReceiverAts
  <2>2. /\ perm' \subseteq Names
        /\ UNCHANGED <<disk, made, data, used, watch, err, info, kernel>>
    BY <1>1, <1>10 DEF Received, Unlock, folderVars
  <2>3. QED
    BY <1>1, <2>1, <2>2, ReceiverTyped
<1>11. CASE SetReceivedTime
  <2>1. receiver.path \in Names
    BY <1>1, <1>11 DEF SetReceivedTime, Receives
  <2>2. receiver' \in ReceiverState /\ receiver'.path \in Names
    BY <1>2, <1>11, <2>1 DEF SetReceivedTime, ReceiverAts
  <2>3. Legible(kernel')
    BY <1>11, <2>1, TouchedLegible DEF SetReceivedTime, Kinds
  <2>4. perm' \subseteq Names
    BY <1>1, <1>11, <2>1 DEF SetReceivedTime
  <2>5. QED
    BY <1>1, <1>11, <2>2, <2>3, <2>4, ReceiverTyped DEF SetReceivedTime, folderVars
<1>12. CASE WatchReceived
  <2>1. receiver.path \in Names
    BY <1>1, <1>12 DEF WatchReceived, Receives
  <2>2. /\ watch' \in [Inodes -> Names \cup {None}] /\ err' \in {"0", "EAGAIN"}
        /\ Legible(kernel)'
    BY <1>1, <1>12, <2>1, WatchFileTyped DEF WatchReceived
  <2>3. Folder' /\ Reports'
    BY <1>12 DEF WatchReceived, Receives, folderVars, Typed, Folder, Reports
  <2>4. Kernel'
    BY <1>12, <2>2 DEF WatchReceived, Receives, Kernel, Typed
  <2>5. Threads'
    BY <1>12, RestingTyped DEF WatchReceived, Receives, Typed, Threads
  <2>6. QED
    BY <2>3, <2>4, <2>5 DEF Typed
<1>13. CASE DeleteFile
  <2> DEFINE p == receiver.path
  <2>1. p \in Names
    BY <1>1, <1>13 DEF DeleteFile, Receives
  <2>2. CASE /\ receiver' = [receiver EXCEPT !.at = "dead"] /\ UNCHANGED <<disk, kernel, info>>
    <3>1. receiver' \in ReceiverState /\ receiver'.path \in Names
      BY <1>2, <2>1, <2>2 DEF ReceiverAts
    <3>2. QED
      BY <1>1, <1>13, <2>2, <3>1, ReceiverTyped DEF DeleteFile
  <2>3. CASE /\ disk' = [disk EXCEPT ![p] = 0] /\ kernel' = Unlinked(kernel, p)
             /\ info' = [info EXCEPT ![p] = "unknown"] /\ receiver' = Resting
    <3>1. Legible(kernel')
      BY <1>1, <2>1, <2>3, UnlinkedLegible
    <3>2. disk' \in [Names -> 0 .. MaxInode]
      <4>1. 0 \in 0 .. MaxInode /\ disk \in [Names -> 0 .. MaxInode]
        BY <1>1, BoundsAssumption
      <4>2. disk' = [disk EXCEPT ![p] = 0]
        BY <2>3
      <4>3. QED
        BY <4>1, <4>2
    <3>3. info' \in [Names -> {"unknown", "open", "closed"}]
      BY <1>1, <2>3
    <3>4. QED
      BY <1>1, <1>13, <2>3, <3>1, <3>2, <3>3, RestingTyped, ReceiverTyped DEF DeleteFile
  <2>4. QED
    BY <1>13, <2>2, <2>3 DEF DeleteFile
<1>14. QED
  BY <1>4, <1>5, <1>7, <1>8, <1>9, <1>10, <1>11, <1>12, <1>13 DEF Receiver, ReceiverStep

LEMMA TypedNext == Typed /\ [Next]_vars => Typed'
<1>1. ASSUME Typed, UNCHANGED vars PROVE Typed'
  BY <1>1 DEF vars, Typed, Folder, Kernel, Legible, Tells, Reports, Threads
<1>2. QED
  BY <1>1, TypedUser, TypedNotifier, TypedSender, TypedReceiver DEF Next

\* The variables of the reporter keep their types, for any names and settings; in
\* particular each event can be traced to a name, and no request leaves the
\* folder's own files (ClientEventReporter.cpp:319-374).
THEOREM TypeCorrect == Spec => []TypeOK
<1>1. Spec => []Typed
  BY TypedInit, TypedNext, PTL DEF Spec
<1>2. QED
  BY <1>1, TypedTypes, PTL

-----------------------------------------------------------------------------
(* What is received stays hidden *)

\* serverMutex: sender and receiver are not between lock and unlock at the same time.
Exclusion == ~(SenderLocks /\ ReceiverLocks)

\* The parts of Typed that say what kind of record the threads are.
LEMMA ThreadRecords ==
  ASSUME Typed
  PROVE  sender \in SenderState /\ receiver \in ReceiverState
  BY DEF Typed, Threads

LEMMA HiddenInit == Init => Exclusion /\ WritesHidden
  BY DEF Init, Exclusion, WritesHidden, SenderLocks, ReceiverLocks, NoRequest, Resting

\* The sender puts a path on permanentlyIgnored and takes it off between its lock
\* and its unlock; then the receiver is not writing.
LEMMA HiddenSender ==
  ASSUME Typed, Exclusion, WritesHidden, Sender
  PROVE  Exclusion' /\ WritesHidden'
<1>1. receiver' = receiver
  BY DEF Sender, Dequeue, SendContent, GetModificationTime, ChangeModificationTime,
         SendDeletion, SendMove, Sends
<1>2. CASE Dequeue \/ SendDeletion \/ SendMove
  <2>1. sender'.at \in {"procedure", "idle"} /\ perm' = perm
    BY <1>2 DEF Dequeue, SendDeletion, SendMove, NoRequest
  <2>2. QED
    BY <1>1, <2>1 DEF Exclusion, WritesHidden, SenderLocks, ReceiverLocks
<1>3. CASE SendContent
  <2>1. ~ReceiverLocks /\ perm' = perm
    BY <1>3 DEF SendContent
  <2>2. QED
    BY <1>1, <2>1 DEF Exclusion, WritesHidden, ReceiverLocks
<1>4. CASE GetModificationTime \/ ChangeModificationTime
  <2>1. ~ReceiverLocks
    BY <1>4 DEF GetModificationTime, ChangeModificationTime, Sends, Exclusion, SenderLocks
  <2>2. QED
    BY <1>1, <2>1 DEF Exclusion, WritesHidden, ReceiverLocks
<1>5. QED
  BY <1>2, <1>3, <1>4 DEF Sender

LEMMA HiddenReceiver ==
  ASSUME Typed, Exclusion, WritesHidden, Receiver
  PROVE  Exclusion' /\ WritesHidden'
<1>1. sender' = sender
  BY DEF Receiver, ReceiverStep, ReceiveNewFile, ReceiveDeletion, Arrives, OpenFile, WriteFile,
         CloseFile, Received, SetReceivedTime, Unlock, WatchReceived, DeleteFile, Goes, Receives
<1>2. ASSUME NEW p \in Files, ReceiveNewFile(p) PROVE Exclusion' /\ WritesHidden'
  <2>1. ~SenderLocks /\ receiver'.path \in perm'
    BY <1>2 DEF ReceiveNewFile, Arrives
  <2>2. QED
    BY <1>1, <2>1 DEF Exclusion, WritesHidden, SenderLocks
<1>3. ASSUME NEW p \in Files, ReceiveDeletion(p) PROVE Exclusion' /\ WritesHidden'
  <2>1. ~SenderLocks /\ receiver'.at = "deleteFile"
    BY <1>3 DEF ReceiveDeletion, Arrives
  <2>2. QED
    BY <1>1, <2>1 DEF Exclusion, WritesHidden, SenderLocks
<1>4. CASE ReceiverStep
  <2>1. receiver.at # "watchFile" => receiver.at # "idle"
    BY <1>4 DEF ReceiverStep, OpenFile, WriteFile, CloseFile, Received, SetReceivedTime, Unlock,
                WatchReceived, DeleteFile, Goes, Receives
  <2>2. ReceiverLocks' => ReceiverLocks
    BY <1>4, <2>1, ThreadRecords
    DEF ReceiverStep, OpenFile, WriteFile, CloseFile, Received, SetReceivedTime, Unlock,
        WatchReceived, DeleteFile, Goes, Receives, ReceiverLocks, Resting
  <2>3. CASE OpenFile \/ WriteFile \/ CloseFile
    <3>1. /\ receiver.at \in {"open", "write", "close"} /\ perm' = perm
          /\ receiver'.path = receiver.path
      BY <2>3, ThreadRecords DEF OpenFile, WriteFile, CloseFile, Goes, Receives, ReceiverState
    <3>2. QED
      BY <1>1, <2>2, <3>1 DEF Exclusion, WritesHidden, SenderLocks
  <2>4. CASE Received \/ SetReceivedTime \/ Unlock \/ WatchReceived \/ DeleteFile
    <3>1. receiver'.at \notin {"open", "write", "close", "received"}
      BY <2>4, ThreadRecords DEF Received, SetReceivedTime, Unlock, WatchReceived, DeleteFile, Goes,
                                 Receives, ReceiverState, Resting
    <3>2. QED
      BY <1>1, <2>2, <3>1 DEF Exclusion, WritesHidden, SenderLocks
  <2>5. QED
    BY <1>4, <2>3, <2>4 DEF ReceiverStep
<1>5. QED
  BY <1>2, <1>3, <1>4 DEF Receiver

LEMMA HiddenOthers ==
  ASSUME Exclusion, WritesHidden, User \/ Notifier \/ UNCHANGED vars
  PROVE  Exclusion' /\ WritesHidden'
<1>1. UNCHANGED <<sender, receiver, perm>>
  BY DEF User, UserCreate, UserOpen, UserRemove, UserMoveIn, UserMoveOut, UserMove, UserWrite,
         UserClose, Edits, Notifier, Poll, Read, RunOnce, CatchAllEvents, DetermineMoveType,
         GetNextEvent, vars
<1>2. QED
  BY <1>1 DEF Exclusion, WritesHidden, SenderLocks, ReceiverLocks

\* From the truncation of a file that is being received to its last byte, the path is
\* in permanentlyIgnored: nobody takes it off meanwhile, because the sender, which
\* works on the same set in getModificationTime, is kept out by serverMutex
\* (Dropbox.cpp:507-509, 534-554).
THEOREM ReceivedHidden == Spec => []WritesHidden
<1>1. Init => Typed /\ Exclusion /\ WritesHidden
  BY TypedInit, HiddenInit
<1>2. Typed /\ Exclusion /\ WritesHidden /\ [Next]_vars => (Typed /\ Exclusion /\ WritesHidden)'
  BY TypedNext, HiddenSender, HiddenReceiver, HiddenOthers DEF Next
<1>3. QED
  BY <1>1, <1>2, PTL DEF Spec

-----------------------------------------------------------------------------
(* Names are reported: the events and requests on their way *)

\* Kinds of events that tell of no name, by any watch.
Mild == {"open", "modify", "close", "other"}

\* What matters of an event: of those about the hidden name, and of mild ones,
\* only that they are there.
Told == [type : Kinds, path : Names \cup {None}]
Tale(e) == IF e.path = Hidden THEN [type |-> "other", path |-> Hidden]
           ELSE [type |-> e.type, path |-> IF e.type \in Mild THEN None ELSE e.path]
Tales(s) == [j \in 1 .. Len(s) |-> Tale(s[j])]
KernelTales(k) == [j \in 1 .. Len(k) |-> Tale(Translated(k[j]))]

\* The events that are not yet reported, in order: the `modify' for which
\* catchAllEvents waits for a second one, those read, and those of the kernel.
Modified == [type |-> "modify", path |-> None]
Waiting == IF notifier.at = "catchAllEvents" THEN <<Modified>> ELSE <<>>
Unread(k) == Tales(events) \o KernelTales(k)
StreamOf(k) == Waiting \o Unread(k)
Stream == StreamOf(kernel)

LEMMA TaleTyped ==
  /\ \A e \in EventType : Tale(e) \in Told
  /\ Modified \in Told
  BY DEF EventType, Tale, Told, Modified, Kinds

LEMMA TranslatedEvent ==
  ASSUME NEW e \in KernelEvent, Tells(e)
  PROVE  Translated(e) \in EventType
  BY DEF Tells, Translated, KernelEvent, EventType

LEMMA TalesTyped ==
  ASSUME NEW s \in Seq(EventType)
  PROVE  Tales(s) \in Seq(Told) /\ Len(Tales(s)) = Len(s)
<1>1. Len(s) \in Nat /\ \A j \in 1 .. Len(s) : Tale(s[j]) \in Told
  BY TaleTyped
<1>2. QED
  BY <1>1 DEF Tales

LEMMA KernelTalesTyped ==
  ASSUME NEW k, Legible(k)
  PROVE  KernelTales(k) \in Seq(Told) /\ Len(KernelTales(k)) = Len(k)
<1>1. Len(k) \in Nat /\ \A j \in 1 .. Len(k) : Tale(Translated(k[j])) \in Told
  BY TaleTyped, TranslatedEvent DEF Legible
<1>2. QED
  BY <1>1 DEF KernelTales

LEMMA WaitingTyped == Waiting \in Seq(Told) /\ Len(Waiting) \in {0, 1}
  BY TaleTyped DEF Waiting

LEMMA StreamTyped ==
  ASSUME Typed, NEW k, Legible(k)
  PROVE  /\ StreamOf(k) \in Seq(Told) /\ Unread(k) \in Seq(Told)
         /\ Tales(events) \in Seq(Told) /\ KernelTales(k) \in Seq(Told)
<1>1. Tales(events) \in Seq(Told) /\ KernelTales(k) \in Seq(Told)
  BY TalesTyped, KernelTalesTyped DEF Typed, Kernel
<1>2. Unread(k) \in Seq(Told)
  BY <1>1, ConcatProperties DEF Unread
<1>3. QED
  BY <1>1, <1>2, WaitingTyped, ConcatProperties DEF StreamOf

LEMMA KernelTalesAppend ==
  ASSUME NEW k, Legible(k), NEW e \in KernelEvent, Tells(e)
  PROVE  /\ KernelTales(Append(k, e)) = Append(KernelTales(k), Tale(Translated(e)))
         /\ Legible(Append(k, e)) /\ Tale(Translated(e)) \in Told
<1> DEFINE k1 == Append(k, e)
           x == Tale(Translated(e))
<1>1. x \in Told
  BY TaleTyped, TranslatedEvent
<1>2. /\ k \in Seq(KernelEvent) /\ k1 \in Seq(KernelEvent) /\ Len(k1) = Len(k) + 1
      /\ \A j \in 1 .. Len(k) : k1[j] = k[j]
      /\ k1[Len(k) + 1] = e
  BY AppendProperties DEF Legible
<1>3. Legible(k1)
  BY <1>2 DEF Legible
<1>4. KernelTales(k) \in Seq(Told) /\ Len(KernelTales(k)) = Len(k) /\ Len(k) \in Nat
      /\ KernelTales(k1) \in Seq(Told) /\ Len(KernelTales(k1)) = Len(k) + 1
  <2>1. KernelTales(k) \in Seq(Told) /\ Len(KernelTales(k)) = Len(k) /\ Len(k) \in Nat
    BY KernelTalesTyped DEF Legible
  <2>2. KernelTales(k1) \in Seq(Told) /\ Len(KernelTales(k1)) = Len(k1)
    BY <1>3, KernelTalesTyped
  <2>3. QED
    BY <1>2, <2>1, <2>2
<1>5. \A j \in 1 .. Len(k) + 1 :
         KernelTales(k1)[j] = IF j = Len(k) + 1 THEN x ELSE KernelTales(k)[j]
  <2> HIDE DEF k1
  <2>1. KernelTales(k1) = [j \in 1 .. Len(k) + 1 |-> Tale(Translated(k1[j]))]
    BY <1>2 DEF KernelTales
  <2>2. KernelTales(k) = [j \in 1 .. Len(k) |-> Tale(Translated(k[j]))]
    BY DEF KernelTales
  <2>3. \A j \in 1 .. Len(k) + 1 : j # Len(k) + 1 => j \in 1 .. Len(k)
    BY <1>4
  <2>4. QED
    BY <1>2, <2>1, <2>2, <2>3
<1>6. /\ Append(KernelTales(k), x) \in Seq(Told) /\ Len(Append(KernelTales(k), x)) = Len(k) + 1
      /\ \A j \in 1 .. Len(k) + 1 :
            Append(KernelTales(k), x)[j] = IF j = Len(k) + 1 THEN x ELSE KernelTales(k)[j]
  <2> HIDE DEF x
  <2>1. QED
    BY <1>1, <1>4
<1>7. KernelTales(k1) = Append(KernelTales(k), x)
  <2> HIDE DEF x, k1
  <2>1. QED
    BY <1>4, <1>5, <1>6, SeqEqual
<1>8. QED
  BY <1>1, <1>3, <1>7

LEMMA StreamAppend ==
  ASSUME Typed, NEW k, Legible(k), NEW e \in KernelEvent, Tells(e)
  PROVE  /\ StreamOf(Append(k, e)) = Append(StreamOf(k), Tale(Translated(e)))
         /\ Legible(Append(k, e)) /\ Tale(Translated(e)) \in Told
         /\ StreamOf(k) \in Seq(Told)
<1> DEFINE x == Tale(Translated(e))
<1>1. /\ KernelTales(Append(k, e)) = Append(KernelTales(k), x)
      /\ Legible(Append(k, e)) /\ x \in Told
  BY KernelTalesAppend
<1>2. /\ StreamOf(k) \in Seq(Told) /\ Unread(k) \in Seq(Told)
      /\ Tales(events) \in Seq(Told) /\ KernelTales(k) \in Seq(Told)
      /\ Waiting \in Seq(Told)
  BY StreamTyped, WaitingTyped
<1> HIDE DEF x
<1>3. \A s \in Seq(Told) : Append(s, x) = s \o <<x>> /\ <<x>> \in Seq(Told)
  BY <1>1, AppendIsConcat
<1>4. Unread(Append(k, e)) = Append(Unread(k), x)
  <2>1. Unread(Append(k, e)) = Tales(events) \o (KernelTales(k) \o <<x>>)
    BY <1>1, <1>2, <1>3 DEF Unread
  <2>2. QED
    BY <2>1, <1>2, <1>3, ConcatAssociative DEF Unread
<1>5. StreamOf(Append(k, e)) = Append(StreamOf(k), x)
  <2>1. StreamOf(Append(k, e)) = Waiting \o (Unread(k) \o <<x>>)
    BY <1>2, <1>3, <1>4 DEF StreamOf
  <2>2. QED
    BY <2>1, <1>2, <1>3, ConcatAssociative DEF StreamOf
<1>6. QED
  BY <1>1, <1>2, <1>5 DEF x

\* An event is put at the end, or it is there already.
LEMMA StreamNoted ==
  ASSUME Typed, NEW k, Legible(k), NEW e \in KernelEvent, Tells(e)
  PROVE  /\ Legible(Noted(k, e)) /\ Tale(Translated(e)) \in Told
         /\ StreamOf(k) \in Seq(Told) /\ StreamOf(Noted(k, e)) \in Seq(Told)
         /\ \/ StreamOf(Noted(k, e)) = Append(StreamOf(k), Tale(Translated(e)))
            \/ /\ StreamOf(Noted(k, e)) = StreamOf(k) /\ StreamOf(k) # <<>>
               /\ StreamOf(k)[Len(StreamOf(k))] = Tale(Translated(e))
<1>1. CASE Noted(k, e) = Append(k, e)
  <2>1. Append(StreamOf(k), Tale(Translated(e))) \in Seq(Told)
    BY StreamAppend
  <2>2. QED
    BY <1>1, <2>1, StreamAppend
<1>2. CASE k # <<>> /\ k[Len(k)] = e /\ Noted(k, e) = k
  <2> DEFINE s == StreamOf(k)
             t == KernelTales(k)
  <2>1. /\ s \in Seq(Told) /\ Unread(k) \in Seq(Told)
        /\ Tales(events) \in Seq(Told) /\ t \in Seq(Told)
        /\ Waiting \in Seq(Told)
    BY StreamTyped, WaitingTyped
  <2>2. Len(k) \in Nat \ {0} /\ Len(t) = Len(k)
    BY <1>2, KernelTalesTyped, EmptySeq DEF Legible
  <2>3. t[Len(t)] = Tale(Translated(e))
    BY <1>2, <2>2 DEF KernelTales
  <2>4. Len(Unread(k)) = Len(Tales(events)) + Len(t)
        /\ Unread(k)[Len(Unread(k))] = t[Len(t)]
    <3> HIDE DEF t
    <3>1. Len(Tales(events)) \in Nat
      BY <2>1
    <3>2. /\ Len(Tales(events) \o t) = Len(Tales(events)) + Len(t)
          /\ \A i \in 1 .. Len(Tales(events)) + Len(t) : (Tales(events) \o t)[i] =
                IF i <= Len(Tales(events)) THEN Tales(events)[i] ELSE t[i - Len(Tales(events))]
      BY <2>1, ConcatProperties
    <3>3. QED
      BY <2>2, <3>1, <3>2 DEF Unread, t
  <2>5. Len(s) # 0 /\ s[Len(s)] = t[Len(t)]
    <3> HIDE DEF t
    <3>1. Len(Waiting) \in Nat /\ Len(Unread(k)) \in Nat /\ Len(Unread(k)) # 0
      BY <2>1, <2>2, <2>4 DEF t
    <3>2. /\ Len(Waiting \o Unread(k)) = Len(Waiting) + Len(Unread(k))
          /\ \A i \in 1 .. Len(Waiting) + Len(Unread(k)) : (Waiting \o Unread(k))[i] =
                IF i <= Len(Waiting) THEN Waiting[i] ELSE Unread(k)[i - Len(Waiting)]
      BY <2>1, ConcatProperties
    <3>3. QED
      BY <2>4, <3>1, <3>2 DEF StreamOf
  <2>6. Legible(k) /\ Tale(Translated(e)) \in Told
    BY StreamAppend
  <2>7. QED
    BY <1>2, <2>1, <2>3, <2>5, <2>6
<1>3. QED
  BY <1>1, <1>2 DEF Noted

LEMMA GrownStream ==
  ASSUME events' = events, notifier' = notifier, watch' = watch
  PROVE  Stream' = StreamOf(kernel')
  BY DEF Stream, StreamOf, Waiting, Unread, Tales, Tale, KernelTales, Translated

LEMMA SameStream ==
  ASSUME events' = events, notifier' = notifier, KernelTales(kernel)' = KernelTales(kernel)
  PROVE  Stream' = Stream
<1>1. Tales(events)' = Tales(events)
  BY DEF Tales, Tale
<1>2. Waiting' = Waiting
  BY DEF Waiting
<1>3. QED
  BY <1>1, <1>2 DEF Stream, StreamOf, Unread

LEMMA ReadStream ==
  ASSUME Typed, Read
  PROVE  Stream' = Stream
<1>1. /\ kernel' = <<>> /\ events = <<>> /\ notifier' = notifier
      /\ events' = [j \in DOMAIN kernel |-> Translated(kernel[j])]
  BY DEF Read
<1>2. Len(kernel) \in Nat /\ DOMAIN kernel = 1 .. Len(kernel)
  BY DEF Typed, Kernel, Legible
<1>3. /\ events' = [j \in 1 .. Len(kernel) |-> Translated(kernel[j])] /\ Len(events') = Len(kernel)
      /\ \A j \in 1 .. Len(kernel) : events'[j] = Translated(kernel[j])
  BY <1>1, <1>2
<1>4. Tales(events)' = KernelTales(kernel)
  <2>1. Tales(events)' = [j \in 1 .. Len(events') |-> Tale(events'[j])]
    BY DEF Tales, Tale
  <2>2. QED
    BY <1>3, <2>1 DEF KernelTales
<1>5. Tales(events) = <<>> /\ KernelTales(kernel)' = <<>>
  BY <1>1 DEF Tales, KernelTales
<1>6. KernelTales(kernel) \in Seq(Told)
  BY KernelTalesTyped DEF Typed, Kernel
<1>7. Unread(kernel)' = KernelTales(kernel) /\ Unread(kernel) = KernelTales(kernel)
  BY <1>4, <1>5, <1>6, ConcatEmptySeq DEF Unread
<1>8. Waiting' = Waiting
  BY <1>1 DEF Waiting
<1>9. QED
  BY <1>7, <1>8 DEF Stream, StreamOf

LEMMA TalesTail ==
  ASSUME NEW s \in Seq(EventType), s # <<>>
  PROVE  /\ Tales(s) # <<>> /\ Head(Tales(s)) = Tale(Head(s)) /\ Tales(Tail(s)) = Tail(Tales(s))
         /\ Tail(s) \in Seq(EventType) /\ Tales(s) \in Seq(Told) /\ Tales(s)[1] = Tale(Head(s))
<1> DEFINE t == Tales(s)
           n == Len(s)
<1>1. n \in Nat \ {0} /\ Tail(s) \in Seq(EventType) /\ Len(Tail(s)) = n - 1
      /\ \A i \in 1 .. n - 1 : Tail(s)[i] = s[i + 1]
  BY EmptySeq, HeadTailProperties
<1>2. t \in Seq(Told) /\ Len(t) = n
  BY TalesTyped
<1>3. t # <<>> /\ t[1] = Tale(s[1])
  BY <1>1, <1>2 DEF Tales
<1>4. Tail(t) \in Seq(Told) /\ Len(Tail(t)) = n - 1 /\ \A i \in 1 .. n - 1 : Tail(t)[i] = t[i + 1]
  BY <1>1, <1>2, <1>3, HeadTailProperties
<1>5. Tales(Tail(s)) \in Seq(Told) /\ Len(Tales(Tail(s))) = n - 1
  BY <1>1, TalesTyped
<1>6. \A i \in 1 .. n - 1 : Tales(Tail(s))[i] = Tail(t)[i]
  <2>1. Tales(Tail(s)) = [j \in 1 .. n - 1 |-> Tale(Tail(s)[j])]
    BY <1>1 DEF Tales
  <2>2. t = [j \in 1 .. n |-> Tale(s[j])]
    BY DEF Tales
  <2>3. \A i \in 1 .. n - 1 : i + 1 \in 1 .. n
    BY <1>1
  <2> HIDE DEF t, n
  <2>4. QED
    BY <1>1, <1>4, <2>1, <2>2, <2>3
<1>7. Tales(Tail(s)) = Tail(t)
  <2> HIDE DEF t, n
  <2>1. QED
    BY <1>4, <1>5, <1>6, SeqEqual
<1>8. QED
  BY <1>1, <1>2, <1>3, <1>7

\* Taking the first event off the events that were read.
LEMMA NextUnread ==
  ASSUME Typed, NEW at, GetNextEvent(at), KernelTales(kernel)' = KernelTales(kernel)
  PROVE  /\ Unread(kernel) \in Seq(Told) /\ Unread(kernel) # <<>>
         /\ Unread(kernel)[1] = Tale(Head(events)) /\ Head(events) \in EventType
         /\ Unread(kernel)' = Tail(Unread(kernel))
<1>1. events \in Seq(EventType) /\ events # <<>> /\ events' = Tail(events)
  BY DEF GetNextEvent, Typed, Kernel
<1> DEFINE t == Tales(events)
           k == KernelTales(kernel)
<1>2. /\ t # <<>> /\ Head(t) = Tale(Head(events)) /\ Tales(Tail(events)) = Tail(t)
      /\ t \in Seq(Told) /\ t[1] = Tale(Head(events))
  BY <1>1, TalesTail
<1>3. k \in Seq(Told)
  BY KernelTalesTyped DEF Typed, Kernel
<1>4. Tales(events)' = Tail(t)
  <2>1. Tales(events)' = Tales(events')
    BY DEF Tales, Tale
  <2>2. QED
    BY <1>1, <1>2, <2>1
<1>5. Unread(kernel)' = Tail(t) \o k /\ Unread(kernel) = t \o k
  BY <1>4 DEF Unread
<1> HIDE DEF t, k
<1>6. /\ t \o k \in Seq(Told) /\ Len(t \o k) = Len(t) + Len(k) /\ Len(t) \in Nat \ {0}
      /\ Len(k) \in Nat
      /\ \A i \in 1 .. Len(t) + Len(k) : (t \o k)[i] = IF i <= Len(t) THEN t[i] ELSE k[i - Len(t)]
  BY <1>2, <1>3, ConcatProperties, EmptySeq
<1>7. /\ Tail(t) \in Seq(Told) /\ Len(Tail(t)) = Len(t) - 1
      /\ \A i \in 1 .. Len(t) - 1 : Tail(t)[i] = t[i + 1]
  BY <1>2, <1>6, HeadTailProperties
<1>8. t \o k # <<>> /\ (t \o k)[1] = Tale(Head(events))
  BY <1>2, <1>6
<1>9. /\ Tail(t \o k) \in Seq(Told) /\ Len(Tail(t \o k)) = Len(t) + Len(k) - 1
      /\ \A i \in 1 .. Len(t) + Len(k) - 1 : Tail(t \o k)[i] = (t \o k)[i + 1]
  BY <1>6, <1>8, HeadTailProperties
<1>10. /\ Tail(t) \o k \in Seq(Told) /\ Len(Tail(t) \o k) = Len(t) - 1 + Len(k)
       /\ \A i \in 1 .. Len(t) - 1 + Len(k) : (Tail(t) \o k)[i] =
             IF i <= Len(t) - 1 THEN Tail(t)[i] ELSE k[i - (Len(t) - 1)]
  BY <1>3, <1>6, <1>7, ConcatProperties
<1>11. \A i \in 1 .. Len(t) - 1 + Len(k) : (Tail(t) \o k)[i] = Tail(t \o k)[i]
  BY <1>6, <1>7, <1>9, <1>10
<1>12. Tail(t) \o k = Tail(t \o k)
  BY <1>6, <1>9, <1>10, <1>11, SeqEqual
<1>13. QED
  BY <1>1, <1>5, <1>6, <1>8, <1>12

LEMMA PrefixedModify ==
  ASSUME NEW r \in Seq(Told)
  PROVE  /\ <<Modified>> \o r \in Seq(Told) /\ Tail(<<Modified>> \o r) = r
         /\ <<Modified>> \o r # <<>> /\ (<<Modified>> \o r)[1] = Modified
         /\ Len(<<Modified>> \o r) = Len(r) + 1
         /\ \A i \in 1 .. Len(r) : (<<Modified>> \o r)[i + 1] = r[i]
<1> DEFINE m == <<Modified>>
           s == m \o r
<1>1. m \in Seq(Told) /\ Len(m) = 1 /\ m[1] = Modified /\ Len(r) \in Nat
  BY TaleTyped
<1>2. /\ s \in Seq(Told) /\ Len(s) = 1 + Len(r)
      /\ \A i \in 1 .. 1 + Len(r) : s[i] = IF i <= 1 THEN m[i] ELSE r[i - 1]
  <2> HIDE DEF m
  <2>1. /\ m \o r \in Seq(Told) /\ Len(m \o r) = Len(m) + Len(r)
        /\ \A i \in 1 .. Len(m) + Len(r) : (m \o r)[i] =
              IF i <= Len(m) THEN m[i] ELSE r[i - Len(m)]
    BY <1>1, ConcatProperties
  <2>2. QED
    BY <1>1, <2>1
<1> HIDE DEF m, s
<1>3. s # <<>> /\ s[1] = Modified /\ \A i \in 1 .. Len(r) : s[i + 1] = r[i]
  BY <1>1, <1>2
<1>4. Tail(s) \in Seq(Told) /\ Len(Tail(s)) = Len(r) /\ \A i \in 1 .. Len(r) : Tail(s)[i] = s[i + 1]
  BY <1>1, <1>2, <1>3, HeadTailProperties
<1>5. Tail(s) = r
  BY <1>3, <1>4, SeqEqual
<1>6. QED
  BY <1>1, <1>2, <1>3, <1>5 DEF m, s

\* How the notifier goes through the stream.
LEMMA NextStream ==
  ASSUME Typed, NEW at, GetNextEvent(at), KernelTales(kernel)' = KernelTales(kernel)
  PROVE  LET x == Tale(Head(events))
             before == notifier.at = "catchAllEvents"
             after == notifier'.at = "catchAllEvents"
         IN  /\ Stream \in Seq(Told) /\ Stream # <<>> /\ Head(events) \in EventType
             /\ ~before => Stream[1] = x
             /\ before => Stream[1] = Modified /\ Len(Stream) >= 2 /\ Stream[2] = x
             /\ ~before /\ ~after => Stream' = Tail(Stream)
             /\ ~before /\ after /\ x = Modified => Stream' = Stream
             /\ before /\ after /\ x = Modified => Stream' = Tail(Stream)
             /\ before /\ ~after => Stream' = Tail(Tail(Stream))
<1> DEFINE x == Tale(Head(events))
           u == Unread(kernel)
<1>1. /\ u \in Seq(Told) /\ u # <<>> /\ u[1] = x /\ Head(events) \in EventType
      /\ Unread(kernel)' = Tail(u)
  BY NextUnread
<1>2. /\ Stream = Waiting \o u /\ Stream' = Waiting' \o Tail(u)
  BY <1>1 DEF Stream, StreamOf
<1>3. /\ notifier.at = "catchAllEvents" => Waiting = <<Modified>>
      /\ notifier.at # "catchAllEvents" => Waiting = <<>>
      /\ notifier'.at = "catchAllEvents" => Waiting' = <<Modified>>
      /\ notifier'.at # "catchAllEvents" => Waiting' = <<>>
  BY DEF Waiting, Modified
<1> HIDE DEF x, u
<1>4. /\ Tail(u) \in Seq(Told) /\ Len(u) \in Nat \ {0} /\ Len(Tail(u)) = Len(u) - 1
      /\ \A i \in 1 .. Len(u) - 1 : Tail(u)[i] = u[i + 1]
  BY <1>1, EmptySeq, HeadTailProperties
<1>5. <<>> \o u = u /\ <<>> \o Tail(u) = Tail(u)
  BY <1>1, <1>4, ConcatEmptySeq
<1>6. /\ <<Modified>> \o u \in Seq(Told) /\ Tail(<<Modified>> \o u) = u
      /\ <<Modified>> \o u # <<>> /\ (<<Modified>> \o u)[1] = Modified
      /\ Len(<<Modified>> \o u) = Len(u) + 1
      /\ \A i \in 1 .. Len(u) : (<<Modified>> \o u)[i + 1] = u[i]
  BY <1>1, PrefixedModify
<1>7. x = Modified => <<Modified>> \o Tail(u) = u
  <2> SUFFICES ASSUME x = Modified PROVE <<Modified>> \o Tail(u) = u
    OBVIOUS
  <2> DEFINE v == <<Modified>> \o Tail(u)
  <2>1. /\ v \in Seq(Told) /\ v[1] = Modified /\ Len(v) = Len(Tail(u)) + 1
        /\ \A i \in 1 .. Len(Tail(u)) : v[i + 1] = Tail(u)[i]
    BY <1>4, PrefixedModify
  <2> HIDE DEF v
  <2>2. \A i \in 1 .. Len(u) : v[i] = u[i]
    <3>1. SUFFICES ASSUME NEW i \in 1 .. Len(u), i # 1 PROVE v[i] = u[i]
      BY <1>1, <2>1
    <3>2. i - 1 \in 1 .. Len(u) - 1 /\ (i - 1) + 1 = i
      BY <1>4, <3>1
    <3>3. v[(i - 1) + 1] = Tail(u)[i - 1] /\ Tail(u)[i - 1] = u[(i - 1) + 1]
      BY <1>4, <2>1, <3>2
    <3>4. QED
      BY <3>2, <3>3
  <2>3. v = u
    BY <1>1, <1>4, <2>1, <2>2, SeqEqual
  <2>4. QED
    BY <2>3 DEF v
<1>8. CASE notifier.at # "catchAllEvents"
  <2>1. Stream = u
    BY <1>2, <1>3, <1>5, <1>8
  <2>2. CASE notifier'.at # "catchAllEvents"
    BY <1>1, <1>2, <1>3, <1>5, <1>8, <2>1, <2>2 DEF x
  <2>3. CASE notifier'.at = "catchAllEvents"
    BY <1>1, <1>2, <1>3, <1>7, <1>8, <2>1, <2>3 DEF x
  <2>4. QED
    BY <2>2, <2>3
<1>9. CASE notifier.at = "catchAllEvents"
  <2>1. Stream = <<Modified>> \o u
    BY <1>2, <1>3, <1>9
  <2>2. /\ Stream \in Seq(Told) /\ Stream # <<>> /\ Stream[1] = Modified /\ Tail(Stream) = u
        /\ Len(Stream) >= 2 /\ Stream[2] = x
    <3>1. 1 \in 1 .. Len(u)
      BY <1>4
    <3>2. (<<Modified>> \o u)[1 + 1] = x
      BY <1>1, <1>6, <3>1
    <3>3. QED
      BY <1>4, <1>6, <2>1, <3>2
  <2>3. CASE notifier'.at # "catchAllEvents"
    BY <1>1, <1>2, <1>3, <1>5, <1>9, <2>2, <2>3 DEF x
  <2>4. CASE notifier'.at = "catchAllEvents"
    BY <1>1, <1>2, <1>3, <1>7, <1>9, <2>2, <2>4 DEF x
  <2>5. QED
    BY <2>3, <2>4
<1>10. QED
  BY <1>8, <1>9

-----------------------------------------------------------------------------
(* What holds whether or not the client is about to end *)

Renames == env.ops \cap {"move", "in", "out"} # {}

\* Nobody but the sender, between getModificationTime and utime, keeps a file of
\* the user's out of the reports.
Settled ==
    /\ Orderly(env)
    /\ receiver.at # "idle" => env.remote # {} /\ receiver.path \in env.remote \cup {Hidden}
    /\ ignored \subseteq env.remote
    /\ Alive => \A p \in perm \cap Mine : sender.at = "utime" /\ sender.path = p
    /\ sender.at \in {"getModificationTime", "utime"} => sender.op = "NEW_FILE"

\* The hidden file has an inode of its own.
Apart ==
    /\ \A p \in Names : disk[p] <= made
    /\ \A i \in Inodes : watch[i] # None => i <= made
    /\ \A p \in Files : disk[p] # 0 => disk[p] # disk[Hidden] /\ watch[disk[p]] # Hidden
    /\ disk[Hidden] # 0 => watch[disk[Hidden]] \in {None, Hidden}
    /\ env.remote = {} => disk[Hidden] = 0 /\ \A i \in Inodes : watch[i] # Hidden

\* The events of a file's own watch tell of no name.
OwnMild(k) == \A j \in 1 .. Len(k) : k[j].wd # 0 => k[j].type \in Mild
KeptUp == ~env.lag => events = <<>> \/ kernel = <<>>

Sound == Settled /\ Apart /\ OwnMild(kernel) /\ KeptUp

LEMMA SoundInit == Init /\ Orderly(env) => Sound
<1> SUFFICES ASSUME Init, Orderly(env) PROVE Sound
  OBVIOUS
<1>1. Settled
  BY DEF Init, Settled, NoRequest, Resting
<1>2. OwnMild(kernel) /\ KeptUp
  BY DEF Init, OwnMild, KeptUp
<1>3. Apart
  <2>1. made \in Nat /\ watch = [i \in Inodes |-> None]
    BY PresentAssumption, FS_CardinalityType DEF Init
  <2>2. PICK ino \in [Present -> 1 .. made] :
            disk = [p \in Names |-> IF p \in Present THEN ino[p] ELSE 0]
    BY DEF Init
  <2>3. Hidden \notin Present /\ disk[Hidden] = 0 /\ None # Hidden
    BY <2>2, NamesAssumption, PresentAssumption DEF Names
  <2>4. \A p \in Names : disk[p] \in 0 .. made
    BY <2>1, <2>2
  <2>5. \A p \in Files : disk[p] # 0 => disk[p] \in Inodes
    BY <2>1, <2>4, TypedInit, BoundsAssumption DEF Typed, Folder, Inodes, Names
  <2>6. QED
    BY <2>1, <2>3, <2>4, <2>5 DEF Apart
<1>4. QED
  BY <1>1, <1>2, <1>3 DEF Sound

\* The conditions of a run do not change.
LEMMA EnvKept == [Next]_vars => env' = env /\ Mine' = Mine
<1> SUFFICES ASSUME [Next]_vars PROVE env' = env
  BY DEF Mine
<1>1. CASE User \/ UNCHANGED vars
  BY <1>1 DEF User, UserCreate, UserOpen, UserRemove, UserMoveIn, UserMoveOut, UserMove,
              UserWrite, UserClose, Edits, bounds, vars
<1>2. CASE Notifier
  BY <1>2 DEF Notifier, Poll, Read, RunOnce, CatchAllEvents, DetermineMoveType, GetNextEvent, bounds
<1>3. CASE Sender
  BY <1>3 DEF Sender, Dequeue, SendContent, GetModificationTime, ChangeModificationTime,
              SendDeletion, SendMove, Sends, bounds
<1>4. CASE Receiver
  BY <1>4 DEF Receiver, ReceiverStep, ReceiveNewFile, ReceiveDeletion, Arrives, OpenFile, WriteFile,
              CloseFile, Received, SetReceivedTime, Unlock, WatchReceived, DeleteFile, Goes, Receives
<1>5. QED
  BY <1>1, <1>2, <1>3, <1>4 DEF Next

LEMMA SettledUser ==
  ASSUME Settled, User \/ Notifier \/ UNCHANGED vars
  PROVE  Settled'
<1>1. UNCHANGED <<sender, receiver, perm>>
  BY DEF User, UserCreate, UserOpen, UserRemove, UserMoveIn, UserMoveOut, UserMove, UserWrite,
         UserClose, Edits, Notifier, Poll, Read, RunOnce, CatchAllEvents, DetermineMoveType,
         GetNextEvent, vars
<1>2. ignored' \subseteq ignored
  BY DEF User, UserCreate, UserOpen, UserRemove, UserMoveIn, UserMoveOut, UserMove, UserWrite,
         UserClose, Edits, Notifier, Poll, Read, RunOnce, CatchAllEvents, DetermineMoveType,
         GetNextEvent, vars, ChooseRequest
<1>3. env' = env /\ Mine' = Mine
  BY EnvKept DEF Next
<1>4. QED
  BY <1>1, <1>2, <1>3 DEF Settled, Alive, Orderly

LEMMA SettledSender ==
  ASSUME Typed, Settled, Sender
  PROVE  Settled'
<1>1. env' = env /\ Mine' = Mine
  BY EnvKept DEF Next
<1>2. receiver' = receiver /\ ignored' = ignored /\ Alive
  BY DEF Sender, Dequeue, SendContent, GetModificationTime, ChangeModificationTime, SendDeletion,
         SendMove, Sends
<1>3. sender \in SenderState
  BY DEF Typed, Threads
<1>4. /\ sender'.at \in {"getModificationTime", "utime"} => sender'.op = "NEW_FILE"
      /\ Alive' => \A p \in perm' \cap Mine : sender'.at = "utime" /\ sender'.path = p
  <2>1. CASE Dequeue \/ SendDeletion \/ SendMove
    <3>1. sender'.at \in {"procedure", "idle"} /\ perm' = perm
      BY <2>1 DEF Dequeue, SendDeletion, SendMove, NoRequest
    <3>2. sender.at \in {"procedure", "idle"}
      BY <2>1 DEF Dequeue, SendDeletion, SendMove, Sends
    <3>3. QED
      BY <1>2, <3>1, <3>2 DEF Settled
  <2>2. CASE SendContent
    <3>1. sender.at = "procedure" /\ sender.op = "NEW_FILE" /\ perm' = perm
      BY <2>2 DEF SendContent, Sends
    <3>2. sender'.at \in {"gone", "getModificationTime"} /\ sender'.op = "NEW_FILE"
      BY <1>3, <2>2, <3>1 DEF SendContent, SenderState
    <3>3. QED
      BY <1>2, <3>1, <3>2 DEF Settled
  <2>3. CASE GetModificationTime
    <3>1. sender.at = "getModificationTime" /\ perm' = perm \cup {sender.path}
      BY <2>3 DEF GetModificationTime, Sends
    <3>2. sender'.at \in {"gone", "utime"} /\ sender'.op = sender.op /\ sender'.path = sender.path
      BY <1>3, <2>3 DEF GetModificationTime, SenderState
    <3>3. QED
      BY <1>2, <3>1, <3>2 DEF Settled, Alive
  <2>4. CASE ChangeModificationTime
    <3>1. sender.at = "utime"
      BY <2>4 DEF ChangeModificationTime, Sends
    <3>2. CASE sender' = [sender EXCEPT !.at = "gone"]
      <4>1. sender'.at = "gone"
        BY <1>3, <3>2 DEF SenderState
      <4>2. QED
        BY <4>1 DEF Alive
    <3>3. CASE perm' = perm \ {sender.path} /\ sender' = NoRequest
      <4>1. sender'.at = "idle"
        BY <3>3 DEF NoRequest
      <4>2. QED
        BY <1>2, <3>1, <3>3, <4>1 DEF Settled
    <3>4. QED
      BY <2>4, <3>2, <3>3 DEF ChangeModificationTime
  <2>5. QED
    BY <2>1, <2>2, <2>3, <2>4 DEF Sender
<1>5. QED
  BY <1>1, <1>2, <1>4 DEF Settled, Orderly

LEMMA SettledReceiver ==
  ASSUME Typed, Settled, Receiver
  PROVE  Settled'
<1>1. env' = env /\ Mine' = Mine
  BY EnvKept DEF Next
<1>2. sender' = sender /\ Alive /\ Alive'
  BY DEF Receiver, ReceiverStep, ReceiveNewFile, ReceiveDeletion, Arrives, OpenFile, WriteFile,
         CloseFile, Received, SetReceivedTime, Unlock, WatchReceived, DeleteFile, Goes, Receives, Alive
<1>3. receiver \in ReceiverState /\ Hidden \notin Mine /\ Mine \cap env.remote = {}
  BY NamesAssumption, SettingsAssumption DEF Typed, Threads, Mine
<1>4. /\ receiver'.at # "idle" => env.remote # {} /\ receiver'.path \in env.remote \cup {Hidden}
      /\ ignored' \subseteq env.remote
      /\ perm' \subseteq perm \cup env.remote \cup {Hidden}
  <2>1. ASSUME NEW p \in Files, ReceiveNewFile(p) \/ ReceiveDeletion(p)
        PROVE  /\ env.remote # {} /\ receiver'.path \in env.remote \cup {Hidden}
               /\ ignored' \subseteq env.remote
               /\ perm' \subseteq perm \cup env.remote \cup {Hidden}
    <3>1. p \in env.remote
      BY <2>1 DEF ReceiveNewFile, ReceiveDeletion, Arrives
    <3>2. receiver'.path \in {p, Hidden} /\ ignored' \subseteq ignored \cup {p}
          /\ perm' \subseteq perm \cup {p, Hidden}
      BY <2>1 DEF ReceiveNewFile, ReceiveDeletion
    <3>3. QED
      BY <3>1, <3>2 DEF Settled
  <2>2. CASE ReceiverStep
    <3>1. receiver.at # "idle" /\ ignored' = ignored
      BY <2>2 DEF ReceiverStep, OpenFile, WriteFile, CloseFile, Received, SetReceivedTime, Unlock,
                  WatchReceived, DeleteFile, Goes, Receives
    <3>2. receiver'.at # "idle" => receiver'.path = receiver.path
      BY <1>3, <2>2 DEF ReceiverStep, OpenFile, WriteFile, CloseFile, Received, SetReceivedTime,
                  Unlock, WatchReceived, DeleteFile, Goes, ReceiverState, Resting
    <3>3. perm' \subseteq perm \cup {receiver.path}
      BY <2>2 DEF ReceiverStep, OpenFile, WriteFile, CloseFile, Received, SetReceivedTime, Unlock,
                  WatchReceived, DeleteFile
    <3>4. QED
      BY <3>1, <3>2, <3>3 DEF Settled
  <2>3. QED
    BY <2>1, <2>2 DEF Receiver
<1>5. QED
  BY <1>1, <1>2, <1>3, <1>4 DEF Settled, Orderly

LEMMA SettledNext == Typed /\ Settled /\ [Next]_vars => Settled'
  BY SettledUser, SettledSender, SettledReceiver DEF Next

LEMMA ApartWatch ==
  ASSUME Typed, Apart, NEW p \in Names, WatchFile(p), UNCHANGED <<disk, made, env>>
  PROVE  Apart'
<1>1. CASE disk[p] = 0
  BY <1>1 DEF WatchFile, Apart
<1>2. CASE disk[p] # 0
  <2>1. /\ watch' = [watch EXCEPT ![disk[p]] = p] /\ watch \in [Inodes -> Names \cup {None}]
        /\ disk \in [Names -> 0 .. MaxInode]
    BY <1>2 DEF WatchFile, Typed, Kernel, Folder
  <2>2. disk[p] \in Inodes /\ disk[p] <= made
    BY <1>2, <2>1, BoundsAssumption DEF Inodes, Apart
  <2>3. \A i \in Inodes : watch'[i] = IF i = disk[p] THEN p ELSE watch[i]
    BY <2>1
  <2>4. \A q \in Names : disk[q] # 0 => disk[q] \in Inodes
    BY <2>1, BoundsAssumption DEF Inodes
  <2>5. p # Hidden => disk[p] # disk[Hidden]
    BY <1>2 DEF Apart, Names
  <2>6. \A i \in Inodes : watch'[i] # None => i <= made
    BY <2>2, <2>3 DEF Apart
  <2>7. ASSUME NEW q \in Files, disk[q] # 0
        PROVE  disk[q] # disk[Hidden] /\ watch'[disk[q]] # Hidden
    BY <2>3, <2>4, <2>5, <2>7, NamesAssumption DEF Apart, Names
  <2>8. disk[Hidden] # 0 => watch'[disk[Hidden]] \in {None, Hidden}
    BY <2>3, <2>4, <2>5 DEF Apart, Names
  <2>9. env.remote = {} => disk[Hidden] = 0 /\ \A i \in Inodes : watch'[i] # Hidden
    BY <1>2, <2>3 DEF Apart
  <2>10. QED
    BY <2>6, <2>7, <2>8, <2>9 DEF Apart
<1>3. QED
  BY <1>1, <1>2

LEMMA ApartMade ==
  ASSUME Typed, Apart, NEW p \in Names, made < MaxInode,
         disk' = [disk EXCEPT ![p] = made + 1], made' = made + 1, watch' = watch, env' = env,
         p = Hidden => env.remote # {}
  PROVE  Apart'
<1>1. /\ disk \in [Names -> 0 .. MaxInode] /\ made \in 0 .. MaxInode /\ Hidden \in Names
      /\ \A q \in Files : q \in Names
  BY DEF Typed, Folder, Names
<1>2. \A q \in Names : disk'[q] = IF q = p THEN made + 1 ELSE disk[q]
  BY <1>1
<1>3. made + 1 \in Inodes /\ made \in Int /\ MaxInode \in Int
  BY <1>1, BoundsAssumption DEF Inodes
<1>4. watch[made + 1] = None /\ None # Hidden
  <2>1. ~(made + 1 <= made)
    BY <1>3
  <2>2. QED
    BY <1>3, <2>1, NamesAssumption DEF Apart, Names
<1>5. \A q \in Names : disk[q] # made + 1 /\ disk'[q] <= made + 1
  BY <1>1, <1>2, <1>3 DEF Apart
<1>6. ASSUME NEW q \in Files, disk'[q] # 0
      PROVE  disk'[q] # disk'[Hidden] /\ watch[disk'[q]] # Hidden
  <2>1. q # Hidden
    BY NamesAssumption
  <2>2. QED
    BY <1>1, <1>2, <1>4, <1>5, <1>6, <2>1 DEF Apart
<1>7. disk'[Hidden] # 0 => watch[disk'[Hidden]] \in {None, Hidden}
  BY <1>1, <1>2, <1>4 DEF Apart
<1>8. \A i \in Inodes : watch[i] # None => i <= made + 1
  BY <1>3 DEF Apart, Inodes
<1>9. env.remote = {} => disk'[Hidden] = 0 /\ \A i \in Inodes : watch[i] # Hidden
  BY <1>1, <1>2 DEF Apart
<1>10. QED
  BY <1>5, <1>6, <1>7, <1>8, <1>9 DEF Apart

LEMMA ApartMoved ==
  ASSUME Typed, Apart, NEW p \in Names, NEW q \in Names, p = Hidden => p = q, q # Hidden \/ p = q,
         \/ disk' = [disk EXCEPT ![p] = 0]
         \/ p # q /\ disk' = [disk EXCEPT ![q] = disk[p], ![p] = 0],
         made' = made, watch' = watch, env' = env
  PROVE  Apart'
<1>1. /\ disk \in [Names -> 0 .. MaxInode] /\ made \in 0 .. MaxInode /\ Hidden \in Names
      /\ \A r \in Files : r \in Names
  BY DEF Typed, Folder, Names
<1>2. \A r \in Names : disk'[r] \in {disk[r], 0} \/ (r = q /\ p # q /\ disk'[r] = disk[p])
  BY <1>1
<1>3. \A r \in Names : disk'[r] <= made
  BY <1>1, <1>2 DEF Apart
<1>4. disk'[Hidden] \in {disk[Hidden], 0}
  BY <1>1, <1>2
<1>5. p # q => p \in Files
  BY DEF Names
<1>6. \A r \in Files : disk'[r] # 0 => disk'[r] # disk'[Hidden] /\ watch[disk'[r]] # Hidden
  BY <1>1, <1>2, <1>4, <1>5 DEF Apart
<1>7. QED
  BY <1>3, <1>4, <1>6 DEF Apart

LEMMA ApartNext ==
  ASSUME Typed, Settled, Apart, [Next]_vars
  PROVE  Apart'
<1>1. env' = env
  BY EnvKept
<1>2. ASSUME UNCHANGED <<disk, made, watch>> PROVE Apart'
  BY <1>1, <1>2 DEF Apart
<1>3. \A p \in Files : p \in Names /\ p # Hidden
  BY NamesAssumption DEF Names
<1>4. CASE User
  <2>1. ASSUME NEW p \in Files, UserCreate(p) \/ UserMoveIn(p) PROVE Apart'
    <3>1. /\ made < MaxInode /\ disk' = [disk EXCEPT ![p] = made + 1] /\ made' = made + 1
          /\ watch' = watch
      BY <2>1 DEF UserCreate, UserMoveIn, Edits
    <3>2. QED
      BY <1>1, <1>3, <3>1, ApartMade
  <2>2. ASSUME NEW p \in Files, UserRemove(p) \/ UserMoveOut(p) PROVE Apart'
    <3>1. disk' = [disk EXCEPT ![p] = 0] /\ made' = made /\ watch' = watch
      BY <2>2 DEF UserRemove, UserMoveOut, Edits
    <3>2. QED
      BY <1>1, <1>3, <3>1, ApartMoved
  <2>3. ASSUME NEW p \in Files, NEW q \in Files, UserMove(p, q) PROVE Apart'
    <3>1. p # q /\ disk' = [disk EXCEPT ![q] = disk[p], ![p] = 0] /\ made' = made /\ watch' = watch
      BY <2>3 DEF UserMove, Edits
    <3>2. QED
      BY <1>1, <1>3, <3>1, ApartMoved
  <2>4. ASSUME NEW p \in Files, UserOpen(p) PROVE Apart'
    BY <1>2, <2>4 DEF UserOpen, Edits, folderVars
  <2>5. CASE UserWrite \/ UserClose
    BY <1>2, <2>5 DEF UserWrite, UserClose, folderVars
  <2>6. QED
    BY <1>4, <2>1, <2>2, <2>3, <2>4, <2>5 DEF User
<1>5. CASE Notifier
  <2>1. CASE Poll \/ Read \/ CatchAllEvents \/ DetermineMoveType
    BY <1>2, <2>1 DEF Poll, Read, CatchAllEvents, DetermineMoveType, GetNextEvent, folderVars
  <2>2. CASE RunOnce
    <3>1. Head(events).path \in Names
      BY <2>2, NextEventTyped DEF RunOnce, EventType
    <3>2. UNCHANGED <<disk, made>>
      BY <2>2 DEF RunOnce, GetNextEvent, folderVars
    <3>3. WatchFile(Head(events).path) \/ watch' = watch
      BY <2>2 DEF RunOnce
    <3>4. QED
      BY <1>1, <1>2, <3>1, <3>2, <3>3, ApartWatch
  <2>3. QED
    BY <1>5, <2>1, <2>2 DEF Notifier
<1>6. CASE Sender
  <2>1. UNCHANGED <<disk, made>>
    BY <1>6 DEF Sender, Dequeue, SendContent, GetModificationTime, ChangeModificationTime,
                SendDeletion, SendMove, Sends, folderVars
  <2>2. CASE Dequeue
    <3>1. Head(queue).path \in Names
      <4>1. queue \in Seq(Requests) /\ queue # <<>>
        BY <2>2 DEF Dequeue, Typed, Reports
      <4>2. Head(queue) \in Requests
        BY <4>1
      <4>3. QED
        BY <1>3, <4>2 DEF Requests
    <3>2. WatchFile(Head(queue).path) \/ watch' = watch
      BY <2>2 DEF Dequeue
    <3>3. QED
      BY <1>1, <1>2, <2>1, <3>1, <3>2, ApartWatch
  <2>3. CASE SendMove
    <3>1. sender.to \in Names /\ WatchFile(sender.to)
      BY <1>3, <2>3 DEF SendMove, Sends, Typed, Threads
    <3>2. QED
      BY <1>1, <2>1, <3>1, ApartWatch
  <2>4. CASE SendContent \/ GetModificationTime \/ ChangeModificationTime \/ SendDeletion
    <3>1. watch' = watch
      BY <2>4 DEF SendContent, GetModificationTime, ChangeModificationTime, SendDeletion
    <3>2. QED
      BY <1>2, <2>1, <3>1
  <2>5. QED
    BY <1>6, <2>2, <2>3, <2>4 DEF Sender
<1>7. CASE Receiver
  <2> DEFINE p == receiver.path
  <2>1. CASE OpenFile
    <3>1. env.remote # {} /\ p \in Names /\ watch' = watch
      <4>1. receiver.at # "idle"
        BY <2>1 DEF OpenFile, Goes, Receives
      <4>2. QED
        BY <2>1, <4>1 DEF Settled, Typed, Threads, OpenFile
    <3>2. CASE UNCHANGED <<disk, made>>
      BY <1>2, <3>1, <3>2
    <3>3. CASE made < MaxInode /\ disk' = [disk EXCEPT ![p] = made + 1] /\ made' = made + 1
      BY <1>1, <3>1, <3>3, ApartMade
    <3>4. QED
      BY <2>1, <3>2, <3>3 DEF OpenFile
  <2>2. CASE DeleteFile
    <3>1. p \in Names /\ made' = made /\ watch' = watch
      BY <2>2 DEF Typed, Threads, DeleteFile, Receives
    <3>2. disk' = disk \/ disk' = [disk EXCEPT ![p] = 0]
      BY <2>2 DEF DeleteFile
    <3>3. QED
      BY <1>1, <1>2, <3>1, <3>2, ApartMoved
  <2>3. CASE WatchReceived
    <3>1. p \in Names /\ WatchFile(p) /\ UNCHANGED <<disk, made>>
      BY <2>3 DEF Typed, Threads, WatchReceived, Receives, folderVars
    <3>2. QED
      BY <1>1, <3>1, ApartWatch
  <2>4. CASE \/ \E q \in Files : ReceiveNewFile(q) \/ ReceiveDeletion(q)
             \/ WriteFile \/ CloseFile \/ Received \/ SetReceivedTime \/ Unlock
    BY <1>2, <2>4 DEF ReceiveNewFile, ReceiveDeletion, Arrives, WriteFile, CloseFile, Received,
                      SetReceivedTime, Unlock, folderVars
  <2>5. QED
    BY <1>7, <2>1, <2>2, <2>3, <2>4 DEF Receiver, ReceiverStep
<1>8. CASE UNCHANGED vars
  BY <1>2, <1>8 DEF vars
<1>9. QED
  BY <1>4, <1>5, <1>6, <1>7, <1>8 DEF Next

-----------------------------------------------------------------------------
(* What a step adds to the stream *)

Sane(k) == Legible(k) /\ OwnMild(k)

Quiet(t) == [type |-> t, path |-> None]
Veiled == [type |-> "other", path |-> Hidden]
Milds == [type : Mild, path : {None}]

\* t is s with tokens of E after it.
Longer(s, t, E) ==
    /\ Len(s) <= Len(t)
    /\ \A j \in 1 .. Len(s) : t[j] = s[j]
    /\ \A j \in 1 .. Len(t) : j > Len(s) => t[j] \in E
\* t is s with x after it, if x is not already the last of s.
Joined(s, t, x) ==
    \/ t = Append(s, x)
    \/ t = s /\ s # <<>> /\ s[Len(s)] = x
EndsWith(s, x) == s # <<>> /\ s[Len(s)] = x

LEMMA Tokens ==
  /\ \A t \in Mild : Quiet(t) \in Told /\ Quiet(t) \in Milds /\ Quiet(t).type = t
  /\ Veiled \in Told /\ Modified = Quiet("modify") /\ Milds \subseteq Told
  /\ \A x \in Milds : x.path = None /\ x.type \in Mild /\ x = Quiet(x.type)
  /\ Veiled \notin Milds
  BY NamesAssumption DEF Quiet, Veiled, Milds, Mild, Told, Kinds, Modified, Names

LEMMA JoinedLonger ==
  ASSUME NEW s \in Seq(Told), NEW t, NEW x \in Told, Joined(s, t, x)
  PROVE  t \in Seq(Told) /\ Longer(s, t, {x}) /\ EndsWith(t, x)
<1>1. CASE t = Append(s, x)
  <2>1. /\ Append(s, x) \in Seq(Told) /\ Append(s, x) # <<>> /\ Len(Append(s, x)) = Len(s) + 1
        /\ \A i \in 1 .. Len(s) : Append(s, x)[i] = s[i]
        /\ Append(s, x)[Len(s) + 1] = x /\ Len(s) \in Nat
    BY AppendProperties
  <2>2. QED
    BY <1>1, <2>1 DEF Longer, EndsWith
<1>2. CASE t = s /\ s # <<>> /\ s[Len(s)] = x
  <2>1. Len(s) \in Nat
    OBVIOUS
  <2>2. QED
    BY <1>2, <2>1 DEF Longer, EndsWith
<1>3. QED
  BY <1>1, <1>2 DEF Joined

LEMMA LongerSame ==
  ASSUME NEW s \in Seq(Told), NEW E
  PROVE  Longer(s, s, E)
<1>1. Len(s) \in Nat
  OBVIOUS
<1>2. QED
  BY <1>1 DEF Longer

LEMMA LongerTrans ==
  ASSUME NEW s \in Seq(Told), NEW t \in Seq(Told), NEW u \in Seq(Told), NEW E, NEW F, NEW G,
         Longer(s, t, E), Longer(t, u, F), E \subseteq G, F \subseteq G
  PROVE  Longer(s, u, G)
<1>1. Len(s) \in Nat /\ Len(t) \in Nat /\ Len(u) \in Nat
  OBVIOUS
<1>2. Len(s) <= Len(t) /\ Len(t) <= Len(u)
  BY DEF Longer
<1>3. \A j \in 1 .. Len(s) : u[j] = s[j]
  BY <1>1, <1>2 DEF Longer
<1>4. ASSUME NEW j \in 1 .. Len(u), j > Len(s) PROVE u[j] \in G
  <2>1. CASE j > Len(t)
    BY <2>1 DEF Longer
  <2>2. CASE ~(j > Len(t))
    <3>1. j \in 1 .. Len(t)
      BY <1>1, <2>2
    <3>2. u[j] = t[j] /\ t[j] \in E
      BY <1>4, <3>1 DEF Longer
    <3>3. QED
      BY <3>2
  <2>3. QED
    BY <2>1, <2>2
<1>5. QED
  BY <1>1, <1>2, <1>3, <1>4 DEF Longer

LEMMA LongerWider ==
  ASSUME NEW s, NEW t, NEW E, NEW F, Longer(s, t, E), E \subseteq F
  PROVE  Longer(s, t, F)
  BY DEF Longer

LEMMA OwnMildNoted ==
  ASSUME NEW k, Sane(k), NEW e \in KernelEvent, Tells(e), e.wd # 0 => e.type \in Mild
  PROVE  Sane(Noted(k, e))
<1>1. Legible(Noted(k, e)) /\ Legible(k)
  BY NotedLegible DEF Sane
<1>2. OwnMild(Noted(k, e))
  <2>1. /\ Append(k, e) \in Seq(KernelEvent) /\ Len(Append(k, e)) = Len(k) + 1
        /\ \A i \in 1 .. Len(k) : Append(k, e)[i] = k[i]
        /\ Append(k, e)[Len(k) + 1] = e /\ Len(k) \in Nat
    BY AppendProperties DEF Sane, Legible
  <2>2. OwnMild(Append(k, e))
    <3>1. \A j \in 1 .. Len(k) + 1 : j = Len(k) + 1 \/ j \in 1 .. Len(k)
      BY <2>1
    <3>2. QED
      BY <2>1, <3>1 DEF OwnMild, Sane
  <2>3. QED
    BY <2>2 DEF Noted, Sane
<1>3. QED
  BY <1>1, <1>2 DEF Sane

Token(t, p) == IF p = Hidden THEN Veiled ELSE [type |-> t, path |-> IF t \in Mild THEN None ELSE p]

LEMMA NamedStream ==
  ASSUME Typed, NEW k, Sane(k), NEW t \in Kinds, NEW p \in Names
  PROVE  /\ Sane(Named(k, t, p)) /\ Token(t, p) \in Told
         /\ StreamOf(k) \in Seq(Told) /\ StreamOf(Named(k, t, p)) \in Seq(Told)
         /\ Joined(StreamOf(k), StreamOf(Named(k, t, p)), Token(t, p))
<1> DEFINE e == [type |-> t, wd |-> 0, name |-> p]
<1>1. e \in KernelEvent /\ Tells(e) /\ e.wd = 0
  BY BoundsAssumption DEF KernelEvent, Tells
<1>2. Tale(Translated(e)) = Token(t, p)
  BY DEF Translated, Tale, Token, Veiled
<1> HIDE DEF e
<1>3. /\ Tale(Translated(e)) \in Told
      /\ StreamOf(k) \in Seq(Told) /\ StreamOf(Noted(k, e)) \in Seq(Told)
      /\ \/ StreamOf(Noted(k, e)) = Append(StreamOf(k), Tale(Translated(e)))
         \/ /\ StreamOf(Noted(k, e)) = StreamOf(k) /\ StreamOf(k) # <<>>
            /\ StreamOf(k)[Len(StreamOf(k))] = Tale(Translated(e))
  BY <1>1, StreamNoted DEF Sane
<1>4. Sane(Noted(k, e))
  BY <1>1, OwnMildNoted
<1>5. Named(k, t, p) = Noted(k, e)
  BY DEF Named, e
<1>6. QED
  BY <1>2, <1>3, <1>4, <1>5 DEF Joined

LEMMA OwnStream ==
  ASSUME Typed, NEW k, Sane(k), NEW t \in Mild, NEW i \in 0 .. MaxInode
  PROVE  /\ Sane(Own(k, t, i))
         /\ StreamOf(k) \in Seq(Told) /\ StreamOf(Own(k, t, i)) \in Seq(Told)
         /\ \/ (i = 0 \/ watch[i] = None) /\ Own(k, t, i) = k
            \/ /\ i # 0 /\ watch[i] # None
               /\ Joined(StreamOf(k), StreamOf(Own(k, t, i)),
                         IF watch[i] = Hidden THEN Veiled ELSE Quiet(t))
<1>1. StreamOf(k) \in Seq(Told)
  BY StreamTyped DEF Sane
<1>2. CASE i = 0 \/ watch[i] = None
  BY <1>1, <1>2 DEF Own
<1>3. CASE i # 0 /\ watch[i] # None
  <2> DEFINE e == [type |-> t, wd |-> i, name |-> None]
  <2>1. i \in Inodes /\ watch[i] \in Names
    BY <1>3, BoundsAssumption DEF Inodes, Typed, Kernel
  <2>2. e \in KernelEvent /\ Tells(e) /\ e.wd = i /\ e.type = t
    BY <1>3, <2>1 DEF KernelEvent, Tells, Mild, Kinds
  <2>3. Tale(Translated(e)) = IF watch[i] = Hidden THEN Veiled ELSE Quiet(t)
    BY <1>3 DEF Translated, Tale, Veiled, Quiet
  <2> HIDE DEF e
  <2>4. /\ StreamOf(k) \in Seq(Told) /\ StreamOf(Noted(k, e)) \in Seq(Told)
        /\ \/ StreamOf(Noted(k, e)) = Append(StreamOf(k), Tale(Translated(e)))
           \/ /\ StreamOf(Noted(k, e)) = StreamOf(k) /\ StreamOf(k) # <<>>
              /\ StreamOf(k)[Len(StreamOf(k))] = Tale(Translated(e))
    BY <2>2, StreamNoted DEF Sane
  <2>5. Sane(Noted(k, e))
    BY <2>2, OwnMildNoted
  <2>6. Own(k, t, i) = Noted(k, e)
    BY <1>3 DEF Own, e
  <2>7. QED
    BY <1>3, <2>3, <2>4, <2>5, <2>6 DEF Joined
<1>4. QED
  BY <1>2, <1>3

\* The same of the inode of the name p.
LEMMA OwnAt ==
  ASSUME Typed, Apart, NEW k, Sane(k), NEW t \in Mild, NEW p \in Names
  PROVE  /\ Sane(Own(k, t, disk[p])) /\ Token(t, p) \in Told
         /\ StreamOf(k) \in Seq(Told) /\ StreamOf(Own(k, t, disk[p])) \in Seq(Told)
         /\ \/ (disk[p] = 0 \/ watch[disk[p]] = None) /\ Own(k, t, disk[p]) = k
            \/ Joined(StreamOf(k), StreamOf(Own(k, t, disk[p])), Token(t, p))
         /\ Longer(StreamOf(k), StreamOf(Own(k, t, disk[p])), {Token(t, p)})
<1> DEFINE s == StreamOf(k)
           s1 == StreamOf(Own(k, t, disk[p]))
           x == Token(t, p)
<1>1. disk[p] \in 0 .. MaxInode
  BY DEF Typed, Folder
<1>2. disk[p] # 0 /\ watch[disk[p]] # None =>
         (IF watch[disk[p]] = Hidden THEN Veiled ELSE Quiet(t)) = x
  BY DEF Apart, Token, Quiet, Names
<1>3. x \in Told
  BY Tokens DEF Token, Quiet
<1>4. /\ Sane(Own(k, t, disk[p])) /\ s \in Seq(Told) /\ s1 \in Seq(Told)
      /\ \/ (disk[p] = 0 \/ watch[disk[p]] = None) /\ Own(k, t, disk[p]) = k
         \/ Joined(s, s1, x)
  <2> HIDE DEF x
  <2>1. /\ Sane(Own(k, t, disk[p]))
        /\ StreamOf(k) \in Seq(Told) /\ StreamOf(Own(k, t, disk[p])) \in Seq(Told)
        /\ \/ (disk[p] = 0 \/ watch[disk[p]] = None) /\ Own(k, t, disk[p]) = k
           \/ /\ disk[p] # 0 /\ watch[disk[p]] # None
              /\ Joined(StreamOf(k), StreamOf(Own(k, t, disk[p])),
                         IF watch[disk[p]] = Hidden THEN Veiled ELSE Quiet(t))
    BY <1>1, OwnStream
  <2>2. QED
    BY <1>2, <2>1
<1>5. Longer(s, s1, {x})
  <2>1. CASE Own(k, t, disk[p]) = k
    BY <1>4, <2>1, LongerSame
  <2>2. CASE Joined(s, s1, x)
    <3> HIDE DEF s, s1, x
    <3>1. QED
      BY <1>3, <1>4, <2>2, JoinedLonger
  <2>3. QED
    BY <1>4, <2>1, <2>2
<1>6. QED
  BY <1>3, <1>4, <1>5

LEMMA RaisedStream ==
  ASSUME Typed, Apart, NEW k, Sane(k), NEW t \in Mild, NEW p \in Names
  PROVE  /\ Sane(Raised(k, t, p)) /\ Token(t, p) \in Told
         /\ StreamOf(k) \in Seq(Told) /\ StreamOf(Raised(k, t, p)) \in Seq(Told)
         /\ Longer(StreamOf(k), StreamOf(Raised(k, t, p)), {Token(t, p)})
         /\ EndsWith(StreamOf(Raised(k, t, p)), Token(t, p))
<1> DEFINE k1 == Named(k, t, p)
           s == StreamOf(k)
           s1 == StreamOf(k1)
           s2 == StreamOf(Raised(k, t, p))
           x == Token(t, p)
<1>1. t \in Kinds
  BY DEF Mild, Kinds
<1>2. Sane(k1) /\ x \in Told /\ s \in Seq(Told) /\ s1 \in Seq(Told) /\ Joined(s, s1, x)
  BY <1>1, NamedStream
<1>3. Longer(s, s1, {x}) /\ EndsWith(s1, x)
  <2> HIDE DEF s, s1, x
  <2>1. QED
    BY <1>2, JoinedLonger
<1>6. /\ Sane(Own(k1, t, disk[p])) /\ StreamOf(Own(k1, t, disk[p])) \in Seq(Told)
      /\ Own(k1, t, disk[p]) = k1 \/ Joined(s1, StreamOf(Own(k1, t, disk[p])), x)
  <2> HIDE DEF k1
  <2>1. Sane(k1)
    BY <1>2
  <2>2. /\ Sane(Own(k1, t, disk[p])) /\ StreamOf(Own(k1, t, disk[p])) \in Seq(Told)
        /\ \/ (disk[p] = 0 \/ watch[disk[p]] = None) /\ Own(k1, t, disk[p]) = k1
           \/ Joined(StreamOf(k1), StreamOf(Own(k1, t, disk[p])), Token(t, p))
    BY <2>1, OwnAt
  <2>3. QED
    BY <2>2
<1>7. Raised(k, t, p) = Own(k1, t, disk[p])
  BY DEF Raised
<1>8. CASE Own(k1, t, disk[p]) = k1
  BY <1>2, <1>3, <1>7, <1>8
<1>9. CASE Joined(s1, s2, x)
  <2>1. Longer(s1, s2, {x}) /\ EndsWith(s2, x) /\ s2 \in Seq(Told)
    <3> HIDE DEF s1, s2, x
    <3>1. QED
      BY <1>2, <1>9, JoinedLonger
  <2>2. Longer(s, s2, {x})
    <3> HIDE DEF s, s1, s2, x
    <3>1. QED
      BY <1>2, <1>3, <2>1, LongerTrans
  <2>3. QED
    BY <1>2, <1>6, <1>7, <2>1, <2>2
<1>10. QED
  BY <1>6, <1>7, <1>8, <1>9

\* The events of an unlinked file, of which one tells of the name.
LEMMA UnlinkedStream ==
  ASSUME Typed, Apart, NEW k, Sane(k), NEW p \in Names
  PROVE  /\ Sane(Unlinked(k, p)) /\ Token("other", p) \in Told /\ Token("delete", p) \in Told
         /\ StreamOf(k) \in Seq(Told) /\ StreamOf(Unlinked(k, p)) \in Seq(Told)
         /\ \E s, t \in Seq(Told) :
               /\ s = StreamOf(k) \/ Joined(StreamOf(k), s, Token("other", p))
               /\ Joined(s, t, Token("delete", p))
               /\ t = StreamOf(Unlinked(k, p)) \/ Joined(t, StreamOf(Unlinked(k, p)), Token("other", p))
<1> DEFINE k1 == Own(k, "other", disk[p])
           k2 == Named(k1, "delete", p)
           k3 == Own(k2, "other", disk[p])
<1>1. "other" \in Mild /\ "delete" \in Kinds /\ Unlinked(k, p) = k3
  BY DEF Mild, Kinds, Unlinked
<1>2. /\ Sane(k1) /\ Token("other", p) \in Told
      /\ StreamOf(k) \in Seq(Told) /\ StreamOf(k1) \in Seq(Told)
      /\ k1 = k \/ Joined(StreamOf(k), StreamOf(k1), Token("other", p))
  BY <1>1, OwnAt
<1> HIDE DEF k1
<1>3. /\ Sane(k2) /\ Token("delete", p) \in Told /\ StreamOf(k2) \in Seq(Told)
      /\ Joined(StreamOf(k1), StreamOf(k2), Token("delete", p))
  BY <1>1, <1>2, NamedStream
<1> HIDE DEF k2
<1>4. /\ Sane(k3) /\ StreamOf(k3) \in Seq(Told)
      /\ k3 = k2 \/ Joined(StreamOf(k2), StreamOf(k3), Token("other", p))
  BY <1>1, <1>3, OwnAt
<1> HIDE DEF k3
<1>5. QED
  BY <1>1, <1>2, <1>3, <1>4

LEMMA SaneKernel ==
  ASSUME Typed, OwnMild(kernel)
  PROVE  Sane(kernel) /\ Stream \in Seq(Told)
  BY StreamTyped DEF Typed, Kernel, Sane, Stream

\* An access to p: tokens of one kind are added.
LEMMA RaisedStep ==
  ASSUME Typed, Apart, OwnMild(kernel), NEW t \in Mild, NEW p \in Names,
         kernel' = Raised(kernel, t, p), UNCHANGED <<events, notifier, watch>>
  PROVE  /\ OwnMild(kernel') /\ Stream \in Seq(Told) /\ Stream' \in Seq(Told)
         /\ Longer(Stream, Stream', {Token(t, p)}) /\ EndsWith(Stream', Token(t, p))
<1>1. Stream' = StreamOf(kernel') /\ Stream = StreamOf(kernel) /\ Sane(kernel)
  BY GrownStream, SaneKernel DEF Stream
<1>2. QED
  BY <1>1, RaisedStream DEF Sane

\* The sender reads the file.
LEMMA SendContentStep ==
  ASSUME Typed, Apart, OwnMild(kernel), NEW p \in Files,
         kernel' = Raised(Raised(Raised(kernel, "open", p), "other", p), "close", p),
         UNCHANGED <<events, notifier, watch>>
  PROVE  /\ OwnMild(kernel') /\ Stream \in Seq(Told) /\ Stream' \in Seq(Told)
         /\ Longer(Stream, Stream', Milds) /\ EndsWith(Stream', Quiet("close"))
<1> DEFINE k1 == Raised(kernel, "open", p)
           k2 == Raised(k1, "other", p)
           k3 == Raised(k2, "close", p)
<1>1. Stream' = StreamOf(k3) /\ Stream = StreamOf(kernel) /\ Sane(kernel) /\ kernel' = k3
  BY GrownStream, SaneKernel DEF Stream
<1>2. p \in Names /\ p # Hidden /\ "open" \in Mild /\ "other" \in Mild /\ "close" \in Mild
  BY NamesAssumption DEF Names, Mild
<1>3. \A t \in Mild : Token(t, p) = Quiet(t) /\ {Token(t, p)} \subseteq Milds
  BY <1>2, Tokens DEF Token, Quiet
<1>4. /\ Sane(k1) /\ StreamOf(kernel) \in Seq(Told) /\ StreamOf(k1) \in Seq(Told)
      /\ Longer(StreamOf(kernel), StreamOf(k1), {Token("open", p)})
  BY <1>1, <1>2, RaisedStream
<1> HIDE DEF k1
<1>5. /\ Sane(k2) /\ StreamOf(k2) \in Seq(Told)
      /\ Longer(StreamOf(k1), StreamOf(k2), {Token("other", p)})
  BY <1>2, <1>4, RaisedStream
<1> HIDE DEF k2
<1>6. /\ Sane(k3) /\ StreamOf(k3) \in Seq(Told)
      /\ Longer(StreamOf(k2), StreamOf(k3), {Token("close", p)})
      /\ EndsWith(StreamOf(k3), Token("close", p))
  BY <1>2, <1>5, RaisedStream
<1> HIDE DEF k3
<1>7. Longer(StreamOf(kernel), StreamOf(k2), Milds)
  BY <1>2, <1>3, <1>4, <1>5, LongerTrans
<1>8. Longer(StreamOf(kernel), StreamOf(k3), Milds)
  BY <1>2, <1>3, <1>4, <1>5, <1>6, <1>7, LongerTrans
<1>9. QED
  BY <1>1, <1>2, <1>3, <1>4, <1>6, <1>8 DEF Sane

\* A name is made: an event that tells of it, and one that does not.
LEMMA CreatedStep ==
  ASSUME Typed, Apart, OwnMild(kernel), NEW p \in Names,
         kernel' = Named(Named(kernel, "create", p), "open", p),
         UNCHANGED <<events, notifier, watch>>
  PROVE  /\ OwnMild(kernel') /\ Stream \in Seq(Told) /\ Stream' \in Seq(Told)
         /\ \E s \in Seq(Told) : /\ Joined(Stream, s, Token("create", p))
                                 /\ Joined(s, Stream', Token("open", p))
<1> DEFINE k1 == Named(kernel, "create", p)
           k2 == Named(k1, "open", p)
<1>1. Stream' = StreamOf(k2) /\ Stream = StreamOf(kernel) /\ Sane(kernel) /\ kernel' = k2
  BY GrownStream, SaneKernel DEF Stream
<1>2. "create" \in Kinds /\ "open" \in Kinds
  BY DEF Kinds
<1>3. /\ Sane(k1) /\ StreamOf(kernel) \in Seq(Told) /\ StreamOf(k1) \in Seq(Told)
      /\ Joined(StreamOf(kernel), StreamOf(k1), Token("create", p))
  BY <1>1, <1>2, NamedStream
<1> HIDE DEF k1
<1>4. /\ Sane(k2) /\ StreamOf(k2) \in Seq(Told)
      /\ Joined(StreamOf(k1), StreamOf(k2), Token("open", p))
  BY <1>2, <1>3, NamedStream
<1> HIDE DEF k2
<1>5. QED
  BY <1>1, <1>3, <1>4 DEF Sane

LEMMA UnlinkedStep ==
  ASSUME Typed, Apart, OwnMild(kernel), NEW p \in Names, kernel' = Unlinked(kernel, p),
         UNCHANGED <<events, notifier, watch>>
  PROVE  /\ OwnMild(kernel') /\ Stream \in Seq(Told) /\ Stream' \in Seq(Told)
         /\ \E s, t \in Seq(Told) :
               /\ s = Stream \/ Joined(Stream, s, Token("other", p))
               /\ Joined(s, t, Token("delete", p))
               /\ t = Stream' \/ Joined(t, Stream', Token("other", p))
<1>1. Stream' = StreamOf(kernel') /\ Stream = StreamOf(kernel) /\ Sane(kernel)
  BY GrownStream, SaneKernel DEF Stream
<1>2. QED
  BY <1>1, UnlinkedStream DEF Sane

LEMMA MovedStep ==
  ASSUME Typed, Apart, OwnMild(kernel), NEW t \in {"moved_from", "moved_to"}, NEW p \in Names,
         NEW q \in Names, kernel' = Own(Named(kernel, t, p), "other", disk[q]),
         UNCHANGED <<events, notifier, watch>>
  PROVE  /\ OwnMild(kernel') /\ Stream \in Seq(Told) /\ Stream' \in Seq(Told)
         /\ \E s \in Seq(Told) :
               /\ Joined(Stream, s, Token(t, p))
               /\ \/ s = Stream' /\ (disk[q] = 0 \/ watch[disk[q]] = None)
                  \/ Joined(s, Stream', Token("other", q))
<1> DEFINE k1 == Named(kernel, t, p)
           k2 == Own(k1, "other", disk[q])
<1>1. Stream' = StreamOf(k2) /\ Stream = StreamOf(kernel) /\ Sane(kernel) /\ kernel' = k2
  BY GrownStream, SaneKernel DEF Stream
<1>2. t \in Kinds /\ "other" \in Mild
  BY DEF Kinds, Mild
<1>3. /\ Sane(k1) /\ StreamOf(kernel) \in Seq(Told) /\ StreamOf(k1) \in Seq(Told)
      /\ Joined(StreamOf(kernel), StreamOf(k1), Token(t, p))
  BY <1>1, <1>2, NamedStream
<1> HIDE DEF k1
<1>4. /\ Sane(k2) /\ StreamOf(k2) \in Seq(Told)
      /\ \/ (disk[q] = 0 \/ watch[disk[q]] = None) /\ k2 = k1
         \/ Joined(StreamOf(k1), StreamOf(k2), Token("other", q))
  BY <1>2, <1>3, OwnAt
<1> HIDE DEF k2
<1>5. QED
  BY <1>1, <1>3, <1>4 DEF Sane

LEMMA RenamedStep ==
  ASSUME Typed, Apart, OwnMild(kernel), NEW p \in Names, NEW q \in Names,
         kernel' = Own(Own(Named(Named(kernel, "moved_from", p), "moved_to", q),
                          "other", disk[q]), "other", disk[p]),
         UNCHANGED <<events, notifier, watch>>
  PROVE  /\ OwnMild(kernel') /\ Stream \in Seq(Told) /\ Stream' \in Seq(Told)
         /\ \E s, t, u \in Seq(Told) :
               /\ Joined(Stream, s, Token("moved_from", p))
               /\ Joined(s, t, Token("moved_to", q))
               /\ \/ u = t /\ (disk[q] = 0 \/ watch[disk[q]] = None)
                  \/ Joined(t, u, Token("other", q))
               /\ u = Stream' \/ Joined(u, Stream', Token("other", p))
<1> DEFINE k1 == Named(kernel, "moved_from", p)
           k2 == Named(k1, "moved_to", q)
           k3 == Own(k2, "other", disk[q])
           k4 == Own(k3, "other", disk[p])
<1>1. Stream' = StreamOf(k4) /\ Stream = StreamOf(kernel) /\ Sane(kernel) /\ kernel' = k4
  BY GrownStream, SaneKernel DEF Stream
<1>2. "moved_from" \in Kinds /\ "moved_to" \in Kinds /\ "other" \in Mild
  BY DEF Kinds, Mild
<1>3. /\ Sane(k1) /\ StreamOf(kernel) \in Seq(Told) /\ StreamOf(k1) \in Seq(Told)
      /\ Joined(StreamOf(kernel), StreamOf(k1), Token("moved_from", p))
  BY <1>1, <1>2, NamedStream
<1> HIDE DEF k1
<1>4. /\ Sane(k2) /\ StreamOf(k2) \in Seq(Told)
      /\ Joined(StreamOf(k1), StreamOf(k2), Token("moved_to", q))
  BY <1>2, <1>3, NamedStream
<1> HIDE DEF k2
<1>5. /\ Sane(k3) /\ StreamOf(k3) \in Seq(Told)
      /\ \/ (disk[q] = 0 \/ watch[disk[q]] = None) /\ k3 = k2
         \/ Joined(StreamOf(k2), StreamOf(k3), Token("other", q))
  BY <1>2, <1>4, OwnAt
<1> HIDE DEF k3
<1>6. /\ Sane(k4) /\ StreamOf(k4) \in Seq(Told)
      /\ k4 = k3 \/ Joined(StreamOf(k3), StreamOf(k4), Token("other", p))
  BY <1>2, <1>5, OwnAt
<1> HIDE DEF k4
<1>7. QED
  BY <1>1, <1>3, <1>4, <1>5, <1>6 DEF Sane

\* The receiver truncates the file.
LEMMA TruncatedStep ==
  ASSUME Typed, Apart, OwnMild(kernel), NEW p \in Names,
         kernel' = Raised(Raised(kernel, "modify", p), "open", p),
         UNCHANGED <<events, notifier, watch>>
  PROVE  /\ OwnMild(kernel') /\ Stream \in Seq(Told) /\ Stream' \in Seq(Told)
         /\ Longer(Stream, Stream', {Token("modify", p), Token("open", p)})
         /\ EndsWith(Stream', Token("open", p))
<1> DEFINE k1 == Raised(kernel, "modify", p)
           k2 == Raised(k1, "open", p)
<1>1. Stream' = StreamOf(k2) /\ Stream = StreamOf(kernel) /\ Sane(kernel) /\ kernel' = k2
  BY GrownStream, SaneKernel DEF Stream
<1>2. "modify" \in Mild /\ "open" \in Mild
  BY DEF Mild
<1>3. /\ Sane(k1) /\ StreamOf(kernel) \in Seq(Told) /\ StreamOf(k1) \in Seq(Told)
      /\ Longer(StreamOf(kernel), StreamOf(k1), {Token("modify", p)})
  BY <1>1, <1>2, RaisedStream
<1> HIDE DEF k1
<1>4. /\ Sane(k2) /\ StreamOf(k2) \in Seq(Told)
      /\ Longer(StreamOf(k1), StreamOf(k2), {Token("open", p)})
      /\ EndsWith(StreamOf(k2), Token("open", p))
  BY <1>2, <1>3, RaisedStream
<1> HIDE DEF k2
<1>5. Longer(StreamOf(kernel), StreamOf(k2), {Token("modify", p), Token("open", p)})
  <2>1. {Token("modify", p)} \subseteq {Token("modify", p), Token("open", p)}
        /\ {Token("open", p)} \subseteq {Token("modify", p), Token("open", p)}
    OBVIOUS
  <2>2. QED
    BY <1>3, <1>4, <2>1, LongerTrans
<1>6. QED
  BY <1>1, <1>3, <1>4, <1>5 DEF Sane

LEMMA OwnMildNext ==
  ASSUME Typed, Apart, OwnMild(kernel), [Next]_vars
  PROVE  OwnMild(kernel')
<1>1. \A p \in Files : p \in Names
  BY DEF Names
<1>2. "open" \in Mild /\ "modify" \in Mild /\ "close" \in Mild /\ "other" \in Mild
  BY DEF Mild
<1>3. CASE User
  <2>1. UNCHANGED <<events, notifier, watch>>
    BY <1>3 DEF User, UserCreate, UserOpen, UserRemove, UserMoveIn, UserMoveOut, UserMove, UserWrite,
                UserClose, Edits, notifierVars
  <2>2. ASSUME NEW p \in Files, UserCreate(p) PROVE OwnMild(kernel')
    BY <1>1, <2>1, <2>2, CreatedStep DEF UserCreate
  <2>3. ASSUME NEW p \in Files, UserOpen(p) PROVE OwnMild(kernel')
    BY <1>1, <1>2, <2>1, <2>3, RaisedStep DEF UserOpen
  <2>4. ASSUME NEW p \in Files, UserRemove(p) PROVE OwnMild(kernel')
    BY <1>1, <2>1, <2>4, UnlinkedStep DEF UserRemove
  <2>5. ASSUME NEW p \in Files, UserMoveIn(p) PROVE OwnMild(kernel')
    BY <1>1, <2>1, <2>5, MovedStep DEF UserMoveIn
  <2>6. ASSUME NEW p \in Files, UserMoveOut(p) PROVE OwnMild(kernel')
    BY <1>1, <2>1, <2>6, MovedStep DEF UserMoveOut
  <2>7. ASSUME NEW p \in Files, NEW q \in Files, UserMove(p, q) PROVE OwnMild(kernel')
    BY <1>1, <2>1, <2>7, RenamedStep DEF UserMove
  <2>8. CASE UserWrite \/ UserClose
    <3>1. user.path \in Names
      BY <1>1, <2>8 DEF UserWrite, UserClose, Typed, Folder
    <3>2. QED
      BY <1>2, <2>1, <2>8, <3>1, RaisedStep DEF UserWrite, UserClose
  <2>9. QED
    BY <1>3, <2>2, <2>3, <2>4, <2>5, <2>6, <2>7, <2>8 DEF User
<1>4. ASSUME kernel' \in {kernel, <<>>} PROVE OwnMild(kernel')
  BY <1>4 DEF OwnMild
<1>5. CASE Notifier \/ UNCHANGED vars
  BY <1>4, <1>5 DEF Notifier, Poll, Read, RunOnce, CatchAllEvents, DetermineMoveType, GetNextEvent, vars
<1>6. CASE Sender
  <2>1. UNCHANGED <<events, notifier>>
    BY <1>6 DEF Sender, Dequeue, SendContent, GetModificationTime, ChangeModificationTime,
                SendDeletion, SendMove, Sends
  <2>2. CASE SendContent \/ ChangeModificationTime
    <3>1. sender.path \in Files /\ watch' = watch
      BY <2>2 DEF SendContent, ChangeModificationTime, Sends, Typed, Threads
    <3>2. \/ kernel' = kernel
          \/ kernel' = Raised(kernel, "other", sender.path)
          \/ kernel' = Raised(Raised(Raised(kernel, "open", sender.path), "other", sender.path),
                              "close", sender.path)
      BY <2>2 DEF SendContent, ChangeModificationTime
    <3>3. QED
      BY <1>1, <1>2, <1>4, <2>1, <3>1, <3>2, RaisedStep, SendContentStep
  <2>3. CASE Dequeue \/ GetModificationTime \/ SendDeletion \/ SendMove
    BY <1>4, <2>3 DEF Dequeue, GetModificationTime, SendDeletion, SendMove
  <2>4. QED
    BY <1>6, <2>2, <2>3 DEF Sender
<1>7. CASE Receiver
  <2> DEFINE p == receiver.path
  <2>1. UNCHANGED <<events, notifier>>
    BY <1>7 DEF Receiver, ReceiverStep, ReceiveNewFile, ReceiveDeletion, Arrives, OpenFile, WriteFile,
         CloseFile, Received, SetReceivedTime, Unlock, WatchReceived, DeleteFile, Goes, Receives
  <2>2. CASE OpenFile \/ WriteFile \/ CloseFile \/ SetReceivedTime \/ DeleteFile
    <3>1. p \in Names /\ watch' = watch
      BY <2>2 DEF OpenFile, WriteFile, CloseFile, SetReceivedTime, DeleteFile, Goes, Receives,
                  Typed, Threads
    <3>2. \/ kernel' = kernel \/ kernel' = Unlinked(kernel, p)
          \/ \E t \in Mild : kernel' = Raised(kernel, t, p)
          \/ kernel' = Named(Named(kernel, "create", p), "open", p)
          \/ kernel' = Raised(Raised(kernel, "modify", p), "open", p)
      BY <1>2, <2>2 DEF OpenFile, WriteFile, CloseFile, SetReceivedTime, DeleteFile, Touched
    <3>3. QED
      BY <1>4, <2>1, <3>1, <3>2, RaisedStep, UnlinkedStep, CreatedStep, TruncatedStep
  <2>3. CASE \/ \E q \in Files : ReceiveNewFile(q) \/ ReceiveDeletion(q)
             \/ Received \/ Unlock \/ WatchReceived
    BY <1>4, <2>3 DEF ReceiveNewFile, ReceiveDeletion, Arrives, Received, Unlock, WatchReceived
  <2>4. QED
    BY <1>7, <2>2, <2>3 DEF Receiver, ReceiverStep
<1>8. QED
  BY <1>3, <1>5, <1>6, <1>7 DEF Next

LEMMA KeptUpNext ==
  ASSUME Typed, KeptUp, [Next]_vars
  PROVE  KeptUp'
<1>1. env' = env
  BY EnvKept
<1>2. CASE User
  <2>1. CaughtUp /\ events' = events
    BY <1>2 DEF User, UserCreate, UserOpen, UserRemove, UserMoveIn, UserMoveOut, UserMove, UserWrite,
                UserClose, Edits, notifierVars
  <2>2. QED
    BY <1>1, <2>1 DEF KeptUp, CaughtUp
<1>3. CASE Notifier
  <2>1. CASE Poll \/ Read
    BY <1>1, <2>1 DEF Poll, Read, KeptUp
  <2>2. CASE RunOnce \/ CatchAllEvents \/ DetermineMoveType
    <3>1. events # <<>> /\ kernel' = kernel
      BY <2>2 DEF RunOnce, CatchAllEvents, DetermineMoveType, GetNextEvent
    <3>2. QED
      BY <1>1, <3>1 DEF KeptUp
  <2>3. QED
    BY <1>3, <2>1, <2>2 DEF Notifier
<1>4. CASE Sender
  <2>1. CaughtUp /\ events' = events
    BY <1>4 DEF Sender, Dequeue, SendContent, GetModificationTime, ChangeModificationTime,
                SendDeletion, SendMove, Sends
  <2>2. QED
    BY <1>1, <2>1 DEF KeptUp, CaughtUp
<1>5. CASE Receiver
  <2>1. CaughtUp /\ events' = events
    BY <1>5 DEF Receiver, ReceiverStep, ReceiveNewFile, ReceiveDeletion, Arrives, OpenFile, WriteFile,
         CloseFile, Received, SetReceivedTime, Unlock, WatchReceived, DeleteFile, Goes, Receives
  <2>2. QED
    BY <1>1, <2>1 DEF KeptUp, CaughtUp
<1>6. CASE UNCHANGED vars
  BY <1>6 DEF vars, KeptUp
<1>7. QED
  BY <1>2, <1>3, <1>4, <1>5, <1>6 DEF Next

LEMMA SoundNext == Typed /\ Sound /\ [Next]_vars => Sound'
<1> SUFFICES ASSUME Typed, Sound, [Next]_vars PROVE Sound'
  OBVIOUS
<1>1. Settled' /\ Apart'
  BY SettledNext, ApartNext DEF Sound
<1>2. OwnMild(kernel)'
  <2>1. OwnMild(kernel')
    BY OwnMildNext DEF Sound
  <2>2. QED
    BY <2>1 DEF OwnMild
<1>3. QED
  BY <1>1, <1>2, KeptUpNext DEF Sound

-----------------------------------------------------------------------------
(* What is on its way to the server *)

Has(s, x) == \E j \in 1 .. Len(s) : s[j] = x
Unhandled(t, p) == Has(Stream, [type |-> t, path |-> p])

\* The requests the sender is to do, with the one it is doing.
Work == IF sender.at \in {"idle", "gone"} THEN queue
        ELSE <<Request(sender.op, sender.path, sender.to)>> \o queue
Requested(op, p) == \E j \in 1 .. Len(Work) : Work[j].op = op /\ Work[j].path = p
Bound(p) == \E j \in 1 .. Len(Work) : Work[j].op = "MOVE" /\ Work[j].to = p

Born(p) == \/ Unhandled("create", p) \/ Unhandled("moved_to", p)
           \/ Requested("NEW_FILE", p) \/ Bound(p)
Dying(p) == \/ Unhandled("delete", p) \/ Unhandled("moved_from", p)
            \/ notifier.at = "determineMoveType" /\ notifier.path = p
Died(p) == Dying(p) \/ Requested("DELETE", p) \/ Requested("MOVE", p)
Expected(p) == told[p] # Missing \/ Bound(p)

\* The client is going to end: the file it is to send is gone for good.
Doomed == \E p \in Mine \cap used : disk[p] = 0 /\ Requested("NEW_FILE", p)

\* No event that catchAllEvents or determineMoveType drops tells of a name.
Guarded(s) == \A j \in 1 .. Len(s) - 1 : s[j].type = "modify" => s[j + 1] \in Milds
Twice(s) == Len(s) = 2 /\ s[1].type = "modify"
Guard ==
    /\ Guarded(Stream)
    /\ Stream # <<>> /\ Stream[Len(Stream)].type = "modify" =>
           \/ env.remote = {} /\ user.path # None
           \/ env.remote # {} /\ Twice(Stream) /\ err = "EAGAIN"

Follows(p, x) ==
    /\ x.type \in {"other", "moved_to"}
    /\ x.type = "moved_to" => x.path # p /\ Expected(p) /\ watch[disk[x.path]] # None
Landed(p) == disk[p] # 0 /\ p \notin perm /\ info[p] = "unknown"
Ending(x) == x.type \in {"delete", "moved_from"}
Moves ==
    /\ \A j \in 1 .. Len(Stream) : Stream[j].type = "moved_from" =>
          /\ j = 1 /\ Renames /\ Len(Stream) >= 2 /\ err = "EAGAIN"
          /\ Follows(Stream[1].path, Stream[2])
    /\ \A j \in 1 .. Len(Stream) : Stream[j].type = "moved_to" =>
          /\ Renames /\ Landed(Stream[j].path)
          /\ j = 1 \/ (j = 2 /\ Stream[1].type = "moved_from")
    /\ notifier.at = "determineMoveType" =>
          /\ Renames /\ Stream # <<>> /\ err = "EAGAIN" /\ notifier.to = None
          /\ Follows(notifier.path, Stream[1])
    /\ Renames => \A i, j \in 1 .. Len(Stream) : Ending(Stream[i]) =>
          /\ notifier.at # "determineMoveType"
          /\ Ending(Stream[j]) => i = j

\* What the server is told of a name and what becomes of the file agree once all
\* that is on its way has been done.
Accounted ==
    \A p \in Mine :
        /\ Died(p) => p \in used /\ disk[p] = 0
        /\ disk[p] # 0 => p \in used /\ (told[p] # Missing \/ Born(p))
        /\ disk[p] = 0 /\ Expected(p) => Died(p)

\* The requests that end a name, at most one of each, come after one that makes it.
Ends(r) == r.op \in {"DELETE", "MOVE"}
Ordered ==
    /\ \A j \in 1 .. Len(Work) : Work[j].op = "MOVE" =>
         /\ Renames /\ Work[j].path # Work[j].to
         /\ Work[j].path \in Mine /\ Work[j].to \in Mine
         /\ \/ told[Work[j].path] # Missing
            \/ \E i \in 1 .. j - 1 : Work[i].op = "MOVE" /\ Work[i].to = Work[j].path
    /\ Renames => \A i, j \in 1 .. Len(Work) :
         /\ Ends(Work[i]) /\ Ends(Work[j]) /\ Work[i].path = Work[j].path => i = j
         /\ Work[i].op = "MOVE" /\ Ends(Work[j]) /\ Work[i].to = Work[j].path => i < j
    /\ Renames => \A j \in 1 .. Len(Work) : Ends(Work[j]) => ~Dying(Work[j].path)

\* A notifier that keeps up has every file watched, or will have.
Queued(p) == \E j \in 1 .. Len(queue) : queue[j].op = "NEW_FILE" /\ queue[j].path = p
Watched(p) == \/ watch[disk[p]] # None \/ Unhandled("create", p)
              \/ env.remote = {} /\ (Unhandled("moved_to", p) \/ Queued(p))
AllWatched == ~env.lag /\ Present = {} => \A p \in Files : disk[p] # 0 => Watched(p)

\* A name that was not in use yet is nowhere to be found.
Traced == Renames =>
    /\ used \subseteq env.files /\ perm \subseteq used
    /\ \A p \in Files : disk[p] # 0 \/ info[p] # "unknown" => p \in used
    /\ \A j \in 1 .. Len(events) : events[j].path \in used
    /\ \A j \in 1 .. Len(kernel) : kernel[j].wd = 0 => kernel[j].name \in used
    /\ \A i \in Inodes : watch[i] # None => watch[i] \in used
    /\ notifier.at # "runOnce" => notifier.path \in used

Opened == user.path # None => disk[user.path] # 0
Noticing == Guard /\ Moves /\ Accounted /\ Ordered /\ AllWatched /\ Traced
Noticed == Sound /\ Opened /\ (~Alive \/ Doomed \/ Noticing)

-----------------------------------------------------------------------------
(* Tokens *)

LEMMA HasJoined ==
  ASSUME NEW s \in Seq(Told), NEW t, NEW x \in Told, Joined(s, t, x)
  PROVE  \A y : Has(t, y) <=> Has(s, y) \/ y = x
<1>1. CASE t = Append(s, x)
  <2>1. /\ Len(t) = Len(s) + 1 /\ Len(s) \in Nat
        /\ \A i \in 1 .. Len(s) : t[i] = s[i]
        /\ t[Len(s) + 1] = x
    BY <1>1, AppendProperties
  <2>2. \A j : j \in 1 .. Len(t) <=> j \in 1 .. Len(s) \/ j = Len(s) + 1
    BY <2>1
  <2>3. QED
    BY <2>1, <2>2 DEF Has
<1>2. CASE t = s /\ s # <<>> /\ s[Len(s)] = x
  <2>1. Len(s) \in 1 .. Len(s)
    BY <1>2, EmptySeq
  <2>2. QED
    BY <1>2, <2>1 DEF Has
<1>3. QED
  BY <1>1, <1>2 DEF Joined

LEMMA HasLonger ==
  ASSUME NEW s \in Seq(Told), NEW t \in Seq(Told), NEW E, Longer(s, t, E)
  PROVE  /\ \A y : Has(s, y) => Has(t, y)
         /\ \A y : Has(t, y) => Has(s, y) \/ y \in E
<1>1. Len(s) \in Nat /\ Len(t) \in Nat /\ Len(s) <= Len(t)
  BY DEF Longer
<1>2. \A j \in 1 .. Len(s) : j \in 1 .. Len(t) /\ t[j] = s[j]
  BY <1>1 DEF Longer
<1>3. \A j \in 1 .. Len(t) : j \in 1 .. Len(s) \/ t[j] \in E
  BY <1>1 DEF Longer
<1>4. QED
  BY <1>2, <1>3 DEF Has

LEMMA TailTold ==
  ASSUME NEW s \in Seq(Told), s # <<>>
  PROVE  /\ Tail(s) \in Seq(Told) /\ Len(s) \in Nat \ {0} /\ Len(Tail(s)) = Len(s) - 1
         /\ \A j \in 1 .. Len(s) - 1 : Tail(s)[j] = s[j + 1] /\ j + 1 \in 1 .. Len(s)
         /\ 1 \in 1 .. Len(s) /\ s[1] \in Told
         /\ Tail(s) # <<>> => Tail(s)[Len(Tail(s))] = s[Len(s)] /\ Len(s) >= 2
         /\ \A y : Has(s, y) <=> Has(Tail(s), y) \/ y = s[1]
<1>1. Len(s) \in Nat \ {0}
  BY EmptySeq
<1>2. /\ Tail(s) \in Seq(Told) /\ Len(Tail(s)) = Len(s) - 1
      /\ \A j \in 1 .. Len(s) - 1 : Tail(s)[j] = s[j + 1]
  BY HeadTailProperties
<1>3. \A j \in 1 .. Len(s) - 1 : j + 1 \in 1 .. Len(s)
  BY <1>1
<1>4. Tail(s) # <<>> => Tail(s)[Len(Tail(s))] = s[Len(s)] /\ Len(s) >= 2
  <2>1. SUFFICES ASSUME Tail(s) # <<>> PROVE Tail(s)[Len(Tail(s))] = s[Len(s)] /\ Len(s) >= 2
    OBVIOUS
  <2>2. Len(Tail(s)) \in Nat \ {0}
    BY <1>2, <2>1, EmptySeq
  <2>3. Len(s) - 1 \in 1 .. Len(s) - 1 /\ (Len(s) - 1) + 1 = Len(s)
    BY <1>1, <1>2, <2>2
  <2>4. Tail(s)[Len(s) - 1] = s[(Len(s) - 1) + 1]
    BY <1>2, <2>3
  <2>5. QED
    BY <1>1, <1>2, <2>2, <2>3, <2>4
<1>5. \A y : Has(s, y) <=> Has(Tail(s), y) \/ y = s[1]
  <2>1. ASSUME NEW j \in 1 .. Len(s) PROVE j = 1 \/ (j - 1 \in 1 .. Len(s) - 1 /\ Tail(s)[j - 1] = s[j])
    <3>1. j # 1 => j - 1 \in 1 .. Len(s) - 1 /\ (j - 1) + 1 = j
      BY <1>1
    <3>2. j # 1 => Tail(s)[j - 1] = s[(j - 1) + 1]
      BY <1>2, <3>1
    <3>3. QED
      BY <3>1, <3>2
  <2>2. 1 \in 1 .. Len(s)
    BY <1>1
  <2>3. ASSUME NEW y, Has(s, y) PROVE Has(Tail(s), y) \/ y = s[1]
    BY <1>2, <2>1, <2>3 DEF Has
  <2>4. ASSUME NEW y, Has(Tail(s), y) \/ y = s[1] PROVE Has(s, y)
    BY <1>2, <1>3, <2>2, <2>4 DEF Has
  <2>5. QED
    BY <2>3, <2>4
<1>6. QED
  BY <1>1, <1>2, <1>3, <1>4, <1>5

-----------------------------------------------------------------------------
(* Requests *)

LEMMA RequestTyped ==
  ASSUME NEW p \in Files, NEW q \in Files
  PROVE  /\ Request("NEW_FILE", p, None) \in Requests /\ Request("DELETE", p, None) \in Requests
         /\ Request("MOVE", p, q) \in Requests
  BY DEF Request, Requests, Ops

LEMMA DoingTyped ==
  ASSUME Typed, sender.at \notin {"idle", "gone"}
  PROVE  Request(sender.op, sender.path, sender.to) \in Requests
  BY DEF Typed, Threads, SenderState, Request, Requests

LEMMA WorkTyped ==
  ASSUME Typed
  PROVE  Work \in Seq(Requests) /\ Len(Work) \in Nat
<1>1. queue \in Seq(Requests)
  BY DEF Typed, Reports
<1>2. CASE sender.at \in {"idle", "gone"}
  BY <1>1, <1>2 DEF Work
<1>3. CASE sender.at \notin {"idle", "gone"}
  <2> DEFINE r == Request(sender.op, sender.path, sender.to)
  <2>1. r \in Requests /\ Work = <<r>> \o queue
    BY <1>3, DoingTyped DEF Work
  <2> HIDE DEF r
  <2>2. <<r>> \in Seq(Requests)
    BY <2>1
  <2>3. QED
    BY <1>1, <2>1, <2>2, ConcatProperties
<1>4. QED
  BY <1>2, <1>3

LEMMA WorkSame ==
  ASSUME sender' = sender, queue' = queue
  PROVE  Work' = Work
  BY DEF Work, Request

\* The sender goes on with its request.
LEMMA WorkGoesOn ==
  ASSUME queue' = queue, sender.at \notin {"idle", "gone"}, sender'.at \notin {"idle", "gone"},
         sender'.op = sender.op, sender'.path = sender.path, sender'.to = sender.to
  PROVE  Work' = Work
  BY DEF Work, Request

LEMMA WorkAppend ==
  ASSUME Typed, sender' = sender, NEW r \in Requests, queue' = Append(queue, r)
  PROVE  Work' = Append(Work, r)
<1>1. queue \in Seq(Requests)
  BY DEF Typed, Reports
<1>2. CASE sender.at \in {"idle", "gone"}
  BY <1>2 DEF Work
<1>3. CASE sender.at \notin {"idle", "gone"}
  <2> DEFINE x == Request(sender.op, sender.path, sender.to)
  <2>1. x \in Requests /\ Work = <<x>> \o queue /\ Work' = <<x>> \o Append(queue, r)
    BY <1>3, DoingTyped DEF Work, Request
  <2> HIDE DEF x
  <2>2. <<x>> \in Seq(Requests) /\ <<r>> \in Seq(Requests)
    BY <2>1
  <2>3. Append(queue, r) = queue \o <<r>>
    BY <1>1, AppendIsConcat
  <2>4. <<x>> \o (queue \o <<r>>) = (<<x>> \o queue) \o <<r>>
    BY <1>1, <2>2, ConcatAssociative
  <2>5. Work \in Seq(Requests)
    BY WorkTyped
  <2>6. Append(Work, r) = Work \o <<r>>
    BY <2>5, AppendIsConcat
  <2>7. QED
    BY <2>1, <2>3, <2>4, <2>6
<1>4. QED
  BY <1>2, <1>3

LEMMA WorkFirst ==
  ASSUME Typed, sender.at \notin {"idle", "gone"}
  PROVE  /\ Work # <<>> /\ 1 \in 1 .. Len(Work) /\ Tail(Work) = queue
         /\ Work[1] = Request(sender.op, sender.path, sender.to)
<1> DEFINE x == Request(sender.op, sender.path, sender.to)
<1>1. x \in Requests /\ Work = <<x>> \o queue /\ queue \in Seq(Requests)
  BY DoingTyped DEF Work, Typed, Reports
<1> HIDE DEF x
<1>2. <<x>> \in Seq(Requests) /\ Len(<<x>>) = 1 /\ <<x>>[1] = x /\ Len(queue) \in Nat
  BY <1>1
<1> DEFINE m == <<x>>
<1> HIDE DEF m
<1>3. /\ m \o queue \in Seq(Requests) /\ Len(m \o queue) = Len(m) + Len(queue)
      /\ \A i \in 1 .. Len(m) + Len(queue) : (m \o queue)[i] =
            IF i <= Len(m) THEN m[i] ELSE queue[i - Len(m)]
  BY <1>1, <1>2, ConcatProperties DEF m
<1>4. Len(m) = 1 /\ m[1] = x /\ Work = m \o queue
  BY <1>1, <1>2 DEF m
<1>5. /\ Work \in Seq(Requests) /\ Len(Work) = 1 + Len(queue) /\ Work[1] = x
      /\ \A i \in 1 .. Len(queue) : Work[i + 1] = queue[i]
  <2>1. \A i \in 1 .. Len(queue) : (m \o queue)[i + 1] = queue[(i + 1) - 1]
    BY <1>2, <1>3, <1>4
  <2>2. \A i \in 1 .. Len(queue) : (i + 1) - 1 = i
    BY <1>2
  <2>3. QED
    BY <1>2, <1>3, <1>4, <2>1, <2>2
<1>6. Work # <<>> /\ 1 \in 1 .. Len(Work)
  BY <1>2, <1>5
<1>7. /\ Tail(Work) \in Seq(Requests) /\ Len(Tail(Work)) = Len(queue)
      /\ \A i \in 1 .. Len(queue) : Tail(Work)[i] = Work[i + 1]
  BY <1>2, <1>5, <1>6, HeadTailProperties
<1>8. Tail(Work) = queue
  BY <1>1, <1>5, <1>7, SeqEqual
<1>9. QED
  BY <1>5, <1>6, <1>8 DEF x

\* The sender has done its request.
LEMMA WorkDone ==
  ASSUME Typed, sender.at \notin {"idle", "gone"}, sender' = NoRequest, queue' = queue
  PROVE  Work' = Tail(Work)
<1>1. Work' = queue
  BY DEF Work, NoRequest
<1>2. QED
  BY <1>1, WorkFirst

LEMMA WorkDequeue ==
  ASSUME Typed, Typed', Dequeue
  PROVE  Work' = Work
<1>1. queue # <<>> /\ queue' = Tail(queue) /\ sender.at = "idle" /\ queue \in Seq(Requests)
  BY DEF Dequeue, Sends, Typed, Reports
<1>2. Work = queue
  BY <1>1 DEF Work
<1> DEFINE h == Head(queue)
<1>3. h \in Requests
  BY <1>1
<1>4. /\ sender'.at = "procedure" /\ sender'.op = h.op /\ sender'.path = h.path /\ sender'.to = h.to
  BY DEF Dequeue
<1>5. Request(sender'.op, sender'.path, sender'.to) = h
  <2> HIDE DEF h
  <2>1. h = [op |-> h.op, path |-> h.path, to |-> h.to]
    BY <1>3 DEF Requests
  <2>2. QED
    BY <1>4, <2>1 DEF Request
<1>6. Work' = <<h>> \o queue'
  BY <1>4, <1>5 DEF Work, Request
<1>7. queue = <<h>> \o Tail(queue)
  <2> HIDE DEF h
  <2>1. <<h>> \in Seq(Requests) /\ Tail(queue) \in Seq(Requests)
    BY <1>1, <1>3
  <2>2. /\ Len(<<h>> \o Tail(queue)) = Len(<<h>>) + Len(Tail(queue))
        /\ <<h>> \o Tail(queue) \in Seq(Requests)
        /\ \A i \in 1 .. Len(<<h>>) + Len(Tail(queue)) : (<<h>> \o Tail(queue))[i] =
              IF i <= Len(<<h>>) THEN <<h>>[i] ELSE Tail(queue)[i - Len(<<h>>)]
    BY <2>1, ConcatProperties
  <2>3. /\ Len(queue) \in Nat \ {0} /\ Len(Tail(queue)) = Len(queue) - 1 /\ Head(queue) = queue[1]
        /\ \A i \in 1 .. Len(queue) - 1 : Tail(queue)[i] = queue[i + 1]
    BY <1>1, EmptySeq, HeadTailProperties
  <2>4. Len(<<h>>) = 1 /\ <<h>>[1] = h
    OBVIOUS
  <2>5. \A i \in 1 .. Len(queue) : i # 1 => i - 1 \in 1 .. Len(queue) - 1 /\ (i - 1) + 1 = i
    BY <2>3
  <2>6. \A i \in 1 .. Len(queue) : (<<h>> \o Tail(queue))[i] = queue[i]
    BY <2>2, <2>3, <2>4, <2>5 DEF h
  <2>7. QED
    BY <1>1, <2>2, <2>3, <2>4, <2>6, SeqEqual
<1>8. QED
  BY <1>1, <1>2, <1>6, <1>7

LEMMA MoreWork ==
  ASSUME Work \in Seq(Requests), NEW r \in Requests, Work' = Append(Work, r)
  PROVE  /\ Len(Work) \in Nat /\ Len(Work') = Len(Work) + 1 /\ Work'[Len(Work) + 1] = r
         /\ \A j \in 1 .. Len(Work) : Work'[j] = Work[j] /\ j \in 1 .. Len(Work')
         /\ \A j \in 1 .. Len(Work') : j \in 1 .. Len(Work) \/ j = Len(Work) + 1
         /\ \A op, p : Requested(op, p)' <=> Requested(op, p) \/ (r.op = op /\ r.path = p)
         /\ \A p : Bound(p)' <=> Bound(p) \/ (r.op = "MOVE" /\ r.to = p)
<1>1. /\ Len(Work) \in Nat /\ Len(Work') = Len(Work) + 1 /\ Work'[Len(Work) + 1] = r
      /\ \A j \in 1 .. Len(Work) : Work'[j] = Work[j]
  BY AppendProperties
<1>2. \A j : j \in 1 .. Len(Work') <=> j \in 1 .. Len(Work) \/ j = Len(Work) + 1
  BY <1>1
<1>3. QED
  BY <1>1, <1>2 DEF Requested, Bound

LEMMA LessWork ==
  ASSUME Work \in Seq(Requests), Work # <<>>, Work' = Tail(Work)
  PROVE  /\ Len(Work) \in Nat \ {0} /\ Len(Work') = Len(Work) - 1
         /\ \A j \in 1 .. Len(Work') : Work'[j] = Work[j + 1] /\ j + 1 \in 1 .. Len(Work)
         /\ \A j \in 1 .. Len(Work) : j # 1 => j - 1 \in 1 .. Len(Work') /\ Work'[j - 1] = Work[j]
         /\ \A op, p : Requested(op, p) <=> Requested(op, p)' \/ (Work[1].op = op /\ Work[1].path = p)
         /\ \A p : Bound(p) <=> Bound(p)' \/ (Work[1].op = "MOVE" /\ Work[1].to = p)
<1>1. /\ Len(Work) \in Nat \ {0} /\ Len(Work') = Len(Work) - 1
      /\ \A j \in 1 .. Len(Work') : Work'[j] = Work[j + 1]
  BY EmptySeq, HeadTailProperties
<1>2. \A j \in 1 .. Len(Work') : j + 1 \in 1 .. Len(Work)
  BY <1>1
<1>3. ASSUME NEW j \in 1 .. Len(Work), j # 1
      PROVE  j - 1 \in 1 .. Len(Work') /\ Work'[j - 1] = Work[j]
  <2>1. j - 1 \in 1 .. Len(Work') /\ (j - 1) + 1 = j
    BY <1>1, <1>3
  <2>2. Work'[j - 1] = Work[(j - 1) + 1]
    BY <1>1, <2>1
  <2>3. QED
    BY <2>1, <2>2
<1>4. 1 \in 1 .. Len(Work)
  BY <1>1
<1>5. \A op, p : Requested(op, p)' => Requested(op, p)
  BY <1>1, <1>2 DEF Requested
<1>6. \A op, p : Requested(op, p) => Requested(op, p)' \/ (Work[1].op = op /\ Work[1].path = p)
  BY <1>3 DEF Requested
<1>7. \A op, p : Work[1].op = op /\ Work[1].path = p => Requested(op, p)
  BY <1>4 DEF Requested
<1>8. \A p : Bound(p) <=> Bound(p)' \/ (Work[1].op = "MOVE" /\ Work[1].to = p)
  <2>1. \A p : Bound(p)' => Bound(p)
    BY <1>1, <1>2 DEF Bound
  <2>2. \A p : Bound(p) => Bound(p)' \/ (Work[1].op = "MOVE" /\ Work[1].to = p)
    BY <1>3 DEF Bound
  <2>3. \A p : Work[1].op = "MOVE" /\ Work[1].to = p => Bound(p)
    BY <1>4 DEF Bound
  <2>4. QED
    BY <2>1, <2>2, <2>3
<1>9. QED
  BY <1>1, <1>2, <1>3, <1>5, <1>6, <1>7, <1>8

LEMMA Classes ==
  ASSUME Sound
  PROVE  /\ Renames => ~env.lag /\ env.remote = {} /\ Present = {}
         /\ env.remote # {} => ~env.lag /\ ~Renames /\ Present = {}
         /\ env.lag => env.remote = {} /\ ~Renames
         /\ "again" \notin env.ops
  BY DEF Sound, Settled, Orderly, Renames

\* A watch that is set does not change what the events tell.
LEMMA TalesKept ==
  ASSUME Typed, Typed', Sound, Sound', env' = env, kernel' = kernel, ~env.lag => kernel = <<>>
  PROVE  KernelTales(kernel)' = KernelTales(kernel)
<1>1. /\ Legible(kernel) /\ kernel \in Seq(KernelEvent) /\ Len(kernel) \in Nat
      /\ \A j \in 1 .. Len(kernel) : kernel[j] \in KernelEvent /\ Tells(kernel[j])
  BY DEF Typed, Kernel, Legible
<1>2. ASSUME NEW j \in 1 .. Len(kernel)
      PROVE  Tale(Translated(kernel[j]))' = Tale(Translated(kernel[j]))
  <2> DEFINE e == kernel[j]
  <2>1. e' = e
    OBVIOUS
  <2>2. CASE e.wd = 0
    BY <2>1, <2>2 DEF Tale, Translated
  <2>3. CASE e.wd # 0
    <3>1. e.type \in Mild
      BY <2>3 DEF Sound, OwnMild
    <3>2. env.lag
      BY <1>1, <1>2
    <3>3. env.remote = {}
      BY <3>2, Classes
    <3>4. e.wd \in Inodes
      BY <1>1, <2>3, BoundsAssumption DEF KernelEvent, Inodes
    <3>5. watch[e.wd] # Hidden /\ watch'[e.wd] # Hidden
      BY <3>3, <3>4 DEF Sound, Apart
    <3>6. Translated(e) = [type |-> e.type, path |-> watch[e.wd]]
          /\ Translated(e)' = [type |-> e.type, path |-> watch'[e.wd]]
      BY <2>1, <2>3 DEF Translated
    <3> HIDE DEF e
    <3>7. Tale(Translated(e)) = Quiet(e.type)
      BY <3>1, <3>5, <3>6 DEF Tale, Quiet
    <3>8. Tale(Translated(e))' = Quiet(e.type)
      BY <3>1, <3>5, <3>6 DEF Tale, Quiet
    <3>9. QED
      BY <3>7, <3>8 DEF e
  <2>4. QED
    BY <2>2, <2>3
<1>3. QED
  BY <1>2 DEF KernelTales

-----------------------------------------------------------------------------
(* Events that are dropped *)

Calm(s) == Guarded(s) /\ (s # <<>> => s[Len(s)].type # "modify")

LEMMA CalmGuard == Calm(Stream) => Guard
  BY DEF Calm, Guard

LEMMA CalmLonger ==
  ASSUME NEW s \in Seq(Told), NEW t \in Seq(Told), NEW E, Calm(s), Longer(s, t, E),
         \A x \in E : x.type # "modify"
  PROVE  Calm(t)
<1>1. /\ Len(s) \in Nat /\ Len(t) \in Nat /\ Len(s) <= Len(t)
      /\ \A j \in 1 .. Len(s) : t[j] = s[j] /\ \A i \in 1 .. Len(t) : i > Len(s) => t[i] \in E
  BY DEF Longer
<1>2. ASSUME NEW j \in 1 .. Len(t), t[j].type = "modify"
      PROVE  j \in 1 .. Len(s) - 1 /\ s[j].type = "modify"
  <2>1. j \in 1 .. Len(s)
    BY <1>1, <1>2 DEF Longer
  <2>2. s[j].type = "modify" /\ s # <<>>
    BY <1>1, <1>2, <2>1
  <2>3. j # Len(s)
    BY <2>2 DEF Calm
  <2>4. QED
    BY <1>1, <2>1, <2>2, <2>3
<1>3. Guarded(t)
  <2>1. SUFFICES ASSUME NEW j \in 1 .. Len(t) - 1, t[j].type = "modify" PROVE t[j + 1] \in Milds
    BY DEF Guarded
  <2>2. j \in 1 .. Len(t)
    BY <1>1
  <2>3. j \in 1 .. Len(s) - 1 /\ s[j].type = "modify"
    BY <1>2, <2>1, <2>2
  <2>4. s[j + 1] \in Milds /\ j + 1 \in 1 .. Len(s)
    BY <1>1, <2>3 DEF Calm, Guarded
  <2>5. QED
    BY <1>1, <2>4
<1>4. t # <<>> => t[Len(t)].type # "modify"
  <2>1. SUFFICES ASSUME t # <<>>, t[Len(t)].type = "modify" PROVE FALSE
    OBVIOUS
  <2>2. Len(t) \in 1 .. Len(t)
    BY <2>1, EmptySeq
  <2>3. Len(t) \in 1 .. Len(s) - 1
    BY <1>2, <2>1, <2>2
  <2>4. QED
    BY <1>1, <2>3
<1>5. QED
  BY <1>3, <1>4 DEF Calm

LEMMA CalmJoined ==
  ASSUME NEW s \in Seq(Told), NEW t, NEW x \in Told, Calm(s), Joined(s, t, x), x.type # "modify"
  PROVE  t \in Seq(Told) /\ Calm(t)
<1>1. t \in Seq(Told) /\ Longer(s, t, {x})
  BY JoinedLonger
<1>2. \A y \in {x} : y.type # "modify"
  OBVIOUS
<1>3. QED
  BY <1>1, <1>2, CalmLonger

LEMMA GuardedLonger ==
  ASSUME NEW s \in Seq(Told), NEW t \in Seq(Told), Guarded(s), Longer(s, t, Milds)
  PROVE  Guarded(t)
<1>1. /\ Len(s) \in Nat /\ Len(t) \in Nat /\ Len(s) <= Len(t)
  BY DEF Longer
<1>2. SUFFICES ASSUME NEW j \in 1 .. Len(t) - 1, t[j].type = "modify" PROVE t[j + 1] \in Milds
  BY DEF Guarded
<1>3. j \in 1 .. Len(t) /\ j + 1 \in 1 .. Len(t)
  BY <1>1
<1>4. CASE j + 1 > Len(s)
  BY <1>3, <1>4 DEF Longer
<1>5. CASE ~(j + 1 > Len(s))
  <2>1. j \in 1 .. Len(s) - 1 /\ j \in 1 .. Len(s) /\ j + 1 \in 1 .. Len(s)
    BY <1>1, <1>5
  <2>2. t[j] = s[j] /\ t[j + 1] = s[j + 1]
    BY <2>1 DEF Longer
  <2>3. QED
    BY <1>2, <2>1, <2>2 DEF Guarded
<1>6. QED
  BY <1>4, <1>5

LEMMA GuardedTail ==
  ASSUME NEW s \in Seq(Told), s # <<>>, Guarded(s)
  PROVE  Guarded(Tail(s)) /\ Tail(s) \in Seq(Told)
<1>1. /\ Tail(s) \in Seq(Told) /\ Len(s) \in Nat \ {0} /\ Len(Tail(s)) = Len(s) - 1
      /\ \A j \in 1 .. Len(s) - 1 : Tail(s)[j] = s[j + 1] /\ j + 1 \in 1 .. Len(s)
  BY TailTold
<1>2. SUFFICES ASSUME NEW j \in 1 .. Len(Tail(s)) - 1, Tail(s)[j].type = "modify"
               PROVE Tail(s)[j + 1] \in Milds
  BY <1>1 DEF Guarded
<1>3. j \in 1 .. Len(s) - 1 /\ j + 1 \in 1 .. Len(s) - 1
  BY <1>1
<1>4. Tail(s)[j] = s[j + 1] /\ Tail(s)[j + 1] = s[(j + 1) + 1]
  BY <1>1, <1>3
<1>5. QED
  BY <1>2, <1>3, <1>4 DEF Guarded

-----------------------------------------------------------------------------
(* What the threads know that wait for the notifier *)

LEMMA Caught ==
  ASSUME Typed, Sound, Noticing, CaughtUp
  PROVE  /\ Stream \in Seq(Told)
         /\ ~env.lag => /\ kernel = <<>> /\ events = <<>> /\ err = "EAGAIN"
                        /\ notifier.at # "determineMoveType"
                        /\ Stream = <<>> \/ (Stream = <<Modified>> /\ user.path # None)
         /\ env.remote # {} => Stream = <<>> /\ notifier.at = "runOnce"
         /\ user.path = None => Calm(Stream)
<1>1. Stream \in Seq(Told) /\ Guard /\ Moves
  BY SaneKernel DEF Sound, Noticing
<1>2. ~env.lag => kernel = <<>> /\ events = <<>> /\ err = "EAGAIN"
  BY DEF CaughtUp
<1>3. kernel = <<>> /\ events = <<>> => Stream = Waiting
  <2>1. SUFFICES ASSUME kernel = <<>>, events = <<>> PROVE Stream = Waiting
    OBVIOUS
  <2>2. Tales(events) = <<>> /\ KernelTales(kernel) = <<>>
    BY <2>1 DEF Tales, KernelTales
  <2>3. Unread(kernel) = <<>>
    BY <2>2 DEF Unread
  <2>4. QED
    BY <2>3, WaitingTyped, ConcatEmptySeq DEF Stream, StreamOf
<1>4. /\ Waiting = <<Modified>> \/ Waiting = <<>>
      /\ notifier.at # "catchAllEvents" => Waiting = <<>>
      /\ notifier.at = "catchAllEvents" => Waiting = <<Modified>>
  BY DEF Waiting
<1>5. <<Modified>> # <<>> /\ Len(<<Modified>>) = 1 /\ <<Modified>>[1] = Modified
      /\ Modified.type = "modify"
  BY DEF Modified
<1>6. Stream = <<Modified>> => env.remote = {} /\ user.path # None
  <2>1. SUFFICES ASSUME Stream = <<Modified>> PROVE env.remote = {} /\ user.path # None
    OBVIOUS
  <2>2. Stream # <<>> /\ Len(Stream) = 1 /\ Stream[Len(Stream)].type = "modify"
    BY <1>5, <2>1
  <2>3. ~Twice(Stream)
    BY <2>2 DEF Twice
  <2>4. QED
    BY <1>1, <2>2, <2>3 DEF Guard
<1>7. ~env.lag => notifier.at # "determineMoveType"
  BY <1>1, <1>2, <1>3, <1>4 DEF Moves
<1>8. ~env.lag => Stream = <<>> \/ (Stream = <<Modified>> /\ user.path # None)
  BY <1>2, <1>3, <1>4, <1>6
<1>9. env.remote # {} => Stream = <<>> /\ notifier.at = "runOnce"
  <2>1. SUFFICES ASSUME env.remote # {} PROVE Stream = <<>> /\ notifier.at = "runOnce"
    OBVIOUS
  <2>2. ~env.lag
    BY <2>1, Classes
  <2>3. Stream = <<>>
    BY <1>6, <1>8, <2>1, <2>2
  <2>4. notifier.at \in {"runOnce", "catchAllEvents", "determineMoveType"}
    BY DEF Typed, Reports, NotifierState
  <2>5. QED
    BY <1>2, <1>3, <1>4, <1>5, <1>7, <2>2, <2>3, <2>4
<1>10. user.path = None => Calm(Stream)
  <2>1. SUFFICES ASSUME user.path = None, Stream # <<>>, Stream[Len(Stream)].type = "modify"
                 PROVE  FALSE
    BY <1>1 DEF Calm, Guard
  <2>2. env.remote # {}
    BY <1>1, <2>1 DEF Guard
  <2>3. QED
    BY <1>9, <2>1, <2>2
<1>11. QED
  BY <1>1, <1>2, <1>7, <1>8, <1>9, <1>10

-----------------------------------------------------------------------------
(* Events of the threads *)

LEMMA TokenOf ==
  ASSUME NEW p \in Names
  PROVE  /\ \A t \in Mild : Token(t, p) \in Milds \cup {Veiled} /\ (t # "modify" => Token(t, p).type # "modify")
         /\ p \in Files => \A t \in Mild : Token(t, p) = Quiet(t) /\ Token(t, p) \in Milds
         /\ p \in Files => \A t \in Kinds \ Mild : Token(t, p) = [type |-> t, path |-> p]
         /\ p = Hidden => \A t : Token(t, p) = Veiled
         /\ Veiled.type = "other"
  BY Tokens, NamesAssumption DEF Token, Quiet, Veiled

LEMMA QuietUnnamed ==
  ASSUME NEW x \in Milds \cup {Veiled}
  PROVE  x.type \in Mild /\ \A t \in Kinds \ Mild : \A p : x # [type |-> t, path |-> p]
<1>1. x.type \in Mild
  BY Tokens, TokenOf DEF Veiled, Mild
<1>2. \A t, p : [type |-> t, path |-> p].type = t
  OBVIOUS
<1>3. QED
  BY <1>1, <1>2

\* What a watch does not change.
LEMMA WatchStream ==
  ASSUME Typed, Typed', Sound, Sound', env' = env, UNCHANGED <<events, notifier, kernel>>, CaughtUp
  PROVE  Stream' = Stream
<1>1. KernelTales(kernel)' = KernelTales(kernel)
  BY TalesKept DEF CaughtUp
<1>2. QED
  BY <1>1, SameStream

LEMMA SenderStream ==
  ASSUME Typed, Typed', Sound, Sound', Sender
  PROVE  /\ Stream \in Seq(Told) /\ Stream' \in Seq(Told) /\ Longer(Stream, Stream', Milds)
         /\ Stream' = Stream \/ \E t \in Mild \ {"modify"} : EndsWith(Stream', Quiet(t))
<1>1. /\ env' = env /\ events' = events /\ notifier' = notifier /\ CaughtUp
  BY DEF Sender, Dequeue, SendContent, GetModificationTime, ChangeModificationTime,
         SendDeletion, SendMove, Sends, bounds
<1>2. Stream \in Seq(Told)
  BY SaneKernel DEF Sound
<1>3. ASSUME kernel' = kernel PROVE Stream' = Stream
  BY <1>1, <1>3, WatchStream
<1>4. ASSUME Stream' = Stream PROVE Longer(Stream, Stream', Milds) /\ Stream' \in Seq(Told)
  BY <1>2, <1>4, LongerSame
<1>5. CASE kernel' = kernel
  BY <1>2, <1>3, <1>4, <1>5
<1>6. CASE kernel' # kernel
  <2>1. SendContent \/ ChangeModificationTime
    BY <1>6 DEF Sender, Dequeue, GetModificationTime, SendDeletion, SendMove
  <2>2. sender.path \in Files /\ watch' = watch
    BY <2>1 DEF SendContent, ChangeModificationTime, Sends, Typed, Threads
  <2>3. \/ kernel' = Raised(kernel, "other", sender.path)
        \/ kernel' = Raised(Raised(Raised(kernel, "open", sender.path), "other", sender.path),
                            "close", sender.path)
    BY <1>6, <2>1 DEF SendContent, ChangeModificationTime
  <2>4. sender.path \in Names /\ "other" \in Mild \ {"modify"} /\ "close" \in Mild \ {"modify"}
    BY <2>2 DEF Names, Mild
  <2>5. Token("other", sender.path) = Quiet("other") /\ {Quiet("other")} \subseteq Milds
    BY <2>2, <2>4, TokenOf
  <2>6. CASE kernel' = Raised(kernel, "other", sender.path)
    <3>1. /\ Stream' \in Seq(Told) /\ Longer(Stream, Stream', {Quiet("other")})
          /\ EndsWith(Stream', Quiet("other"))
      BY <1>1, <2>2, <2>4, <2>5, <2>6, RaisedStep DEF Sound
    <3>2. Longer(Stream, Stream', Milds)
      BY <2>5, <3>1, LongerWider
    <3>3. QED
      BY <1>2, <2>4, <3>1, <3>2
  <2>7. CASE kernel' # Raised(kernel, "other", sender.path)
    <3>1. /\ Stream' \in Seq(Told) /\ Longer(Stream, Stream', Milds)
          /\ EndsWith(Stream', Quiet("close"))
      BY <1>1, <2>2, <2>3, <2>7, SendContentStep DEF Sound
    <3>2. QED
      BY <1>2, <2>4, <3>1
  <2>8. QED
    BY <2>6, <2>7
<1>7. QED
  BY <1>5, <1>6

\* Two events of a write, with a notifier that has caught up.
LEMMA WrittenTwice ==
  ASSUME Typed, Sound, kernel = <<>>, Stream = <<>>, NEW p \in Files, disk[p] # 0,
         watch[disk[p]] # None, kernel' = Raised(kernel, "modify", p),
         UNCHANGED <<events, notifier, watch>>
  PROVE  /\ Stream' \in Seq(Told) /\ Twice(Stream') /\ Guarded(Stream')
         /\ \A j \in 1 .. Len(Stream') : Stream'[j] = Modified
         /\ Stream' # <<>> /\ Stream'[Len(Stream')] = Modified
<1> DEFINE e1 == [type |-> "modify", wd |-> 0, name |-> p]
           e2 == [type |-> "modify", wd |-> disk[p], name |-> None]
           k1 == Append(<<>>, e1)
           k2 == Append(k1, e2)
<1>1. p \in Names /\ p # Hidden /\ p # None
  BY NamesAssumption DEF Names
<1>2. disk[p] \in Inodes /\ watch[disk[p]] \in Names /\ watch[disk[p]] # Hidden
  BY <1>1, BoundsAssumption DEF Typed, Folder, Kernel, Inodes, Sound, Apart
<1>3. e1 \in KernelEvent /\ Tells(e1) /\ e2 \in KernelEvent /\ Tells(e2)
  BY <1>1, <1>2, BoundsAssumption DEF KernelEvent, Tells, Kinds, Inodes
<1>4. e1 # e2
  BY <1>1
<1>5. Tale(Translated(e1)) = Modified /\ Tale(Translated(e2)) = Modified
  BY <1>1, <1>2, BoundsAssumption DEF Tale, Translated, Modified, Mild, Inodes
<1>6. kernel' = k2
  <2>1. Named(<<>>, "modify", p) = k1
    BY DEF Named, Noted
  <2>2. k1 # <<>> /\ k1[Len(k1)] = e1
    OBVIOUS
  <2>3. Noted(k1, e2) = k2
    BY <1>4, <2>2 DEF Noted
  <2>4. Own(k1, "modify", disk[p]) = Noted(k1, e2)
    BY <1>2 DEF Own
  <2>5. QED
    BY <2>1, <2>3, <2>4 DEF Raised
<1> HIDE DEF e1, e2
<1>7. Legible(<<>>)
  BY DEF Legible
<1>8. StreamOf(k1) = Append(StreamOf(<<>>), Modified) /\ Legible(k1)
  BY <1>3, <1>5, <1>7, StreamAppend
<1> HIDE DEF k1
<1>9. StreamOf(k2) = Append(StreamOf(k1), Modified)
  BY <1>3, <1>5, <1>8, StreamAppend
<1>10. Stream' = StreamOf(kernel') /\ StreamOf(<<>>) = <<>>
  BY GrownStream DEF Stream
<1>11. Stream' = Append(Append(<<>>, Modified), Modified)
  BY <1>6, <1>8, <1>9, <1>10
<1>12. Modified \in Told /\ Modified.type = "modify" /\ Modified \in Milds
  BY TaleTyped, Tokens DEF Modified, Milds, Mild
<1>13. \A x \in Told : /\ <<>> \in Seq(Told) /\ Append(<<>>, x) \in Seq(Told)
                        /\ Len(Append(<<>>, x)) = 1 /\ Append(<<>>, x)[1] = x
  BY AppendProperties
<1> DEFINE m == Modified
           s1 == Append(<<>>, m)
<1>14. m \in Told /\ m.type = "modify" /\ m \in Milds
  BY <1>12
<1>15. s1 \in Seq(Told) /\ Len(s1) = 1 /\ s1[1] = m /\ Stream' = Append(s1, m)
  BY <1>11, <1>13, <1>14
<1> HIDE DEF m, s1
<1>16. /\ Append(s1, m) \in Seq(Told) /\ Len(Append(s1, m)) = Len(s1) + 1
       /\ \A i \in 1 .. Len(s1) : Append(s1, m)[i] = s1[i]
       /\ Append(s1, m)[Len(s1) + 1] = m
  <2>1. m \in Told /\ s1 \in Seq(Told)
    BY <1>14, <1>15
  <2>2. QED
    BY <2>1, AppendProperties
<1>17. Stream' \in Seq(Told) /\ Len(Stream') = 2 /\ \A j \in 1 .. 2 : Stream'[j] = m
  BY <1>15, <1>16
<1>18. Twice(Stream') /\ Guarded(Stream')
  BY <1>14, <1>17 DEF Twice, Guarded
<1>19. QED
  BY <1>17, <1>18 DEF m

\* A token of the receiver's: it tells of no name of the user's.
Foreign(y) ==
    \/ y \in Milds \cup {Veiled}
    \/ \E p \in env.remote : y \in {[type |-> "create", path |-> p], [type |-> "delete", path |-> p]}

LEMMA EmptyHas == (\A y : ~Has(<<>>, y)) /\ Calm(<<>>) /\ <<>> \in Seq(Told)
  BY DEF Has, Calm, Guarded

LEMMA CalmEnds ==
  ASSUME NEW t, Guarded(t), NEW x, EndsWith(t, x), x.type # "modify"
  PROVE  Calm(t)
  BY DEF Calm, EndsWith

LEMMA ReceiverCaught ==
  ASSUME Typed, Sound, Noticing, Receiver
  PROVE  /\ env.remote # {} /\ Stream = <<>> /\ kernel = <<>> /\ events = <<>> /\ err = "EAGAIN"
         /\ env' = env /\ events' = events /\ notifier' = notifier /\ user' = user
         /\ queue' = queue /\ sender' = sender /\ CaughtUp /\ notifier.at = "runOnce"
         /\ ~env.lag /\ Present = {} /\ ~Renames /\ Mine' = Mine
<1>1. /\ env' = env /\ events' = events /\ notifier' = notifier /\ user' = user
      /\ queue' = queue /\ sender' = sender /\ CaughtUp
  BY DEF Receiver, ReceiverStep, ReceiveNewFile, ReceiveDeletion, Arrives, OpenFile, WriteFile,
         CloseFile, Received, SetReceivedTime, Unlock, WatchReceived, DeleteFile, Goes, Receives
<1>2. env.remote # {}
  <2>1. CASE \E p \in Files : ReceiveNewFile(p) \/ ReceiveDeletion(p)
    BY <2>1 DEF ReceiveNewFile, ReceiveDeletion, Arrives
  <2>2. CASE ReceiverStep
    <3>1. receiver.at # "idle"
      BY <2>2 DEF ReceiverStep, OpenFile, WriteFile, CloseFile, Received, SetReceivedTime, Unlock,
                  WatchReceived, DeleteFile, Goes, Receives
    <3>2. QED
      BY <3>1 DEF Sound, Settled
  <2>3. QED
    BY <2>1, <2>2 DEF Receiver
<1>3. QED
  BY <1>1, <1>2, Caught, Classes DEF Mine

LEMMA ReceiverStream ==
  ASSUME Typed, Typed', Sound, Sound', Noticing, Receiver
  PROVE  /\ Stream' \in Seq(Told) /\ Guard'
         /\ \A y : Has(Stream', y) => Foreign(y)
<1> DEFINE p == receiver.path
<1>1. /\ env.remote # {} /\ Stream = <<>> /\ kernel = <<>> /\ events = <<>> /\ err = "EAGAIN"
      /\ env' = env /\ events' = events /\ notifier' = notifier /\ user' = user
      /\ queue' = queue /\ sender' = sender /\ CaughtUp /\ ~env.lag /\ Present = {}
  BY ReceiverCaught
<1>2. /\ Stream \in Seq(Told) /\ Calm(Stream) /\ Guarded(Stream) /\ \A y : ~Has(Stream, y)
  BY <1>1, EmptyHas DEF Calm
<1>3. ASSUME Stream' \in Seq(Told), Calm(Stream') PROVE Guard'
  BY <1>3 DEF Calm, Guard
<1>4. CASE kernel' = kernel
  <2>1. Stream' = Stream
    BY <1>1, <1>4, WatchStream
  <2>2. Calm(Stream')
    BY <1>2, <2>1
  <2>3. QED
    BY <1>2, <1>3, <2>1, <2>2
<1>5. CASE kernel' # kernel
  <2>1. OpenFile \/ WriteFile \/ CloseFile \/ SetReceivedTime \/ DeleteFile
    BY <1>5 DEF Receiver, ReceiverStep, ReceiveNewFile, ReceiveDeletion, Arrives, Received, Unlock,
                WatchReceived
  <2>2. receiver.at # "idle" /\ UNCHANGED <<events, notifier, watch, err>>
    BY <1>1, <2>1 DEF OpenFile, WriteFile, CloseFile, SetReceivedTime, DeleteFile, Goes, Receives
  <2>3. p \in env.remote \cup {Hidden} /\ p \in Names
    BY <2>2 DEF Sound, Settled, Typed, Threads
  <2>4. p \in Files => p \in env.remote
    BY <2>3, NamesAssumption
  <2>5. p \notin Files => p = Hidden
    BY <2>3 DEF Names
  <2>6. \A t \in Mild : Token(t, p) \in Milds \cup {Veiled} /\ Token(t, p) \in Told
    BY <2>3, TokenOf, Tokens
  <2>7. \A t \in {"create", "delete"} :
           Foreign(Token(t, p)) /\ Token(t, p) \in Told /\ Token(t, p).type # "modify"
    <3>1. SUFFICES ASSUME NEW t \in {"create", "delete"}
                   PROVE Foreign(Token(t, p)) /\ Token(t, p) \in Told /\ Token(t, p).type # "modify"
      OBVIOUS
    <3>2. CASE p \in Files
      <4>1. Token(t, p) = [type |-> t, path |-> p]
        BY <2>3, <3>2, TokenOf DEF Kinds, Mild
      <4>2. QED
        BY <2>3, <2>4, <3>2, <4>1 DEF Foreign, Told, Kinds
    <3>3. CASE p \notin Files
      BY <2>3, <2>5, <3>3, TokenOf, Tokens DEF Foreign
    <3>4. QED
      BY <3>2, <3>3
  <2>8. \A y \in Milds \cup {Veiled} : Foreign(y)
    BY DEF Foreign
  <2>9. "close" \in Mild /\ "other" \in Mild /\ "open" \in Mild /\ "modify" \in Mild
    BY DEF Mild
  <2>10. Token("close", p).type # "modify" /\ Token("other", p).type # "modify"
         /\ Token("open", p).type # "modify"
    BY <2>3, <2>9, TokenOf
  <2>11. ASSUME NEW t \in Mild, t # "modify", kernel' = Raised(kernel, t, p)
         PROVE  Stream' \in Seq(Told) /\ Guard' /\ \A y : Has(Stream', y) => Foreign(y)
    <3>1. Stream' \in Seq(Told) /\ Longer(Stream, Stream', {Token(t, p)})
      BY <2>2, <2>3, <2>11, RaisedStep DEF Sound
    <3>2. \A y \in {Token(t, p)} : y.type # "modify"
      BY <2>3, <2>11, TokenOf
    <3>3. Calm(Stream')
      BY <1>2, <3>1, <3>2, CalmLonger
    <3>4. \A y : Has(Stream', y) => y \in {Token(t, p)}
      BY <1>2, <3>1, HasLonger
    <3>5. QED
      BY <1>3, <2>6, <2>8, <3>1, <3>3, <3>4
  <2>12. CASE kernel' = Raised(kernel, "modify", p) /\ WriteFile /\ disk[p] # 0
    <3>1. /\ Stream' \in Seq(Told) /\ Longer(Stream, Stream', {Token("modify", p)})
      BY <2>2, <2>3, <2>9, <2>12, RaisedStep DEF Sound
    <3>2. \A y : Has(Stream', y) => y \in {Token("modify", p)}
      BY <1>2, <3>1, HasLonger
    <3>3. \A y : Has(Stream', y) => Foreign(y)
      BY <2>6, <2>8, <2>9, <3>2
    <3>4. CASE p \in Files
      <4>1. Watched(p)
        BY <1>1, <2>12, <3>4 DEF Noticing, AllWatched
      <4>2. watch[disk[p]] # None
        BY <1>1, <1>2, <4>1 DEF Watched, Unhandled
      <4>3. /\ Twice(Stream') /\ Guarded(Stream') /\ Stream' # <<>>
        BY <1>1, <2>2, <2>12, <3>4, <4>2, WrittenTwice
      <4>4. QED
        BY <1>1, <2>2, <3>1, <3>3, <4>3 DEF Guard
    <3>5. CASE p \notin Files
      <4>1. \A y \in {Token("modify", p)} : y.type # "modify"
        BY <2>3, <2>5, <3>5, TokenOf
      <4>2. Calm(Stream')
        BY <1>2, <3>1, <4>1, CalmLonger
      <4>3. QED
        BY <1>3, <3>1, <3>3, <4>2
    <3>6. QED
      BY <3>4, <3>5
  <2>13. CASE kernel' = Raised(Raised(kernel, "modify", p), "open", p)
    <3>1. /\ Stream' \in Seq(Told)
          /\ Longer(Stream, Stream', {Token("modify", p), Token("open", p)})
          /\ EndsWith(Stream', Token("open", p))
      BY <2>2, <2>3, <2>13, TruncatedStep DEF Sound
    <3>2. \A y : Has(Stream', y) => y \in {Token("modify", p), Token("open", p)}
      BY <1>2, <3>1, HasLonger
    <3>3. \A y : Has(Stream', y) => Foreign(y)
      BY <2>6, <2>8, <2>9, <3>2
    <3>4. CASE p \in Files
      <4>1. {Token("modify", p), Token("open", p)} \subseteq Milds
        BY <2>3, <2>9, <3>4, TokenOf
      <4>2. Longer(Stream, Stream', Milds)
        BY <3>1, <4>1, LongerWider
      <4>3. Guarded(Stream')
        BY <1>2, <3>1, <4>2, GuardedLonger
      <4>4. Calm(Stream')
        BY <2>10, <3>1, <4>3, CalmEnds
      <4>5. QED
        BY <1>3, <3>1, <3>3, <4>4
    <3>5. CASE p \notin Files
      <4>1. \A y \in {Token("modify", p), Token("open", p)} : y.type # "modify"
        BY <2>3, <2>5, <3>5, TokenOf
      <4>2. Calm(Stream')
        BY <1>2, <3>1, <4>1, CalmLonger
      <4>3. QED
        BY <1>3, <3>1, <3>3, <4>2
    <3>6. QED
      BY <3>4, <3>5
  <2>14. CASE kernel' = Named(Named(kernel, "create", p), "open", p)
    <3>1. PICK s \in Seq(Told) : /\ Joined(Stream, s, Token("create", p))
                                 /\ Joined(s, Stream', Token("open", p))
      BY <2>2, <2>3, <2>14, CreatedStep DEF Sound
    <3>2. Calm(s) /\ \A y : Has(s, y) <=> Has(Stream, y) \/ y = Token("create", p)
      BY <1>2, <2>7, <3>1, CalmJoined, HasJoined
    <3>3. /\ Stream' \in Seq(Told) /\ Calm(Stream')
          /\ \A y : Has(Stream', y) <=> Has(s, y) \/ y = Token("open", p)
      BY <2>6, <2>9, <2>10, <3>1, <3>2, CalmJoined, HasJoined
    <3>4. \A y : Has(Stream', y) => Foreign(y)
      BY <1>2, <2>6, <2>7, <2>8, <2>9, <3>2, <3>3
    <3>5. QED
      BY <1>3, <3>3, <3>4
  <2>15. CASE kernel' = Unlinked(kernel, p)
    <3>1. PICK s \in Seq(Told), t \in Seq(Told) :
             /\ s = Stream \/ Joined(Stream, s, Token("other", p))
             /\ Joined(s, t, Token("delete", p))
             /\ t = Stream' \/ Joined(t, Stream', Token("other", p))
      BY <2>2, <2>3, <2>15, UnlinkedStep DEF Sound
    <3>2. Calm(s) /\ \A y : Has(s, y) => y = Token("other", p)
      BY <1>2, <2>6, <2>9, <2>10, <3>1, CalmJoined, HasJoined
    <3>3. Calm(t) /\ \A y : Has(t, y) <=> Has(s, y) \/ y = Token("delete", p)
      BY <2>7, <3>1, <3>2, CalmJoined, HasJoined
    <3>4. /\ Stream' \in Seq(Told) /\ Calm(Stream')
          /\ \A y : Has(Stream', y) => Has(t, y) \/ y = Token("other", p)
      BY <2>6, <2>9, <2>10, <3>1, <3>3, CalmJoined, HasJoined
    <3>5. \A y : Has(Stream', y) => Foreign(y)
      BY <2>6, <2>7, <2>8, <2>9, <3>2, <3>3, <3>4
    <3>6. QED
      BY <1>3, <3>4, <3>5
  <2>16. \/ kernel' = Unlinked(kernel, p)
         \/ \E t \in Mild : t # "modify" /\ kernel' = Raised(kernel, t, p)
         \/ kernel' = Raised(kernel, "modify", p) /\ WriteFile /\ disk[p] # 0
         \/ kernel' = Named(Named(kernel, "create", p), "open", p)
         \/ kernel' = Raised(Raised(kernel, "modify", p), "open", p)
    BY <1>5, <2>1, <2>9 DEF OpenFile, WriteFile, CloseFile, SetReceivedTime, DeleteFile, Touched
  <2>17. QED
    BY <2>11, <2>12, <2>13, <2>14, <2>15, <2>16
<1>6. QED
  BY <1>4, <1>5

-----------------------------------------------------------------------------
(* The user's events *)

LEMMA UserCaught ==
  ASSUME Typed, Sound, Noticing, User
  PROVE  /\ UNCHANGED <<env, events, notifier, watch, err, info, queue, perm, ignored, sender,
                        receiver, told>>
         /\ CaughtUp /\ Stream \in Seq(Told) /\ Work' = Work /\ Mine' = Mine
<1>1. /\ UNCHANGED <<env, events, notifier, watch, err, info, queue, perm, ignored, sender,
                     receiver, told>>
      /\ CaughtUp
  BY DEF User, UserCreate, UserOpen, UserRemove, UserMoveIn, UserMoveOut, UserMove, UserWrite,
         UserClose, Edits, notifierVars, bounds
<1>2. QED
  BY <1>1, WorkSame, SaneKernel DEF Sound, Mine

LEMMA FilesNames == \A p \in Files : p \in Names /\ p # Hidden /\ p # None
  BY NamesAssumption DEF Names

LEMMA MineFiles == Typed => Mine \subseteq Files /\ Mine \cap env.remote = {}
  BY SettingsAssumption DEF Mine, Typed, Threads

\* Open, write and close add tokens that tell of no name.
LEMMA EditStream ==
  ASSUME Typed, Sound, Noticing, User, (\E p \in Files : UserOpen(p)) \/ UserWrite \/ UserClose
  PROVE  Stream' \in Seq(Told) /\ Longer(Stream, Stream', Milds)
<1>1. UNCHANGED <<events, notifier, watch>>
  BY UserCaught
<1>2. PICK p \in Files, t \in Mild : kernel' = Raised(kernel, t, p)
  BY DEF UserOpen, UserWrite, UserClose, Mild, Typed, Folder
<1>3. p \in Names /\ {Token(t, p)} \subseteq Milds
  BY FilesNames, TokenOf
<1>4. Stream' \in Seq(Told) /\ Longer(Stream, Stream', {Token(t, p)})
  BY <1>1, <1>2, <1>3, RaisedStep DEF Sound
<1>5. QED
  BY <1>3, <1>4, LongerWider

LEMMA CreateStream ==
  ASSUME Typed, Sound, Noticing, User, NEW p \in Files, UserCreate(p)
  PROVE  \E s \in Seq(Told) : /\ Joined(Stream, s, [type |-> "create", path |-> p])
                              /\ Joined(s, Stream', Quiet("open"))
<1>1. UNCHANGED <<events, notifier, watch>> /\ p \in Names
  BY UserCaught, FilesNames
<1>2. Token("create", p) = [type |-> "create", path |-> p] /\ Token("open", p) = Quiet("open")
  BY <1>1, TokenOf DEF Kinds, Mild
<1>3. QED
  BY <1>1, <1>2, CreatedStep DEF Sound, UserCreate

LEMMA RemoveStream ==
  ASSUME Typed, Sound, Noticing, User, NEW p \in Files, UserRemove(p)
  PROVE  \E s, t \in Seq(Told) :
               /\ s = Stream \/ Joined(Stream, s, Quiet("other"))
               /\ Joined(s, t, [type |-> "delete", path |-> p])
               /\ t = Stream' \/ Joined(t, Stream', Quiet("other"))
<1>1. UNCHANGED <<events, notifier, watch>> /\ p \in Names
  BY UserCaught, FilesNames
<1>2. Token("delete", p) = [type |-> "delete", path |-> p] /\ Token("other", p) = Quiet("other")
  BY <1>1, TokenOf DEF Kinds, Mild
<1>3. QED
  BY <1>1, <1>2, UnlinkedStep DEF Sound, UserRemove

LEMMA MoveInStream ==
  ASSUME Typed, Sound, Noticing, User, NEW p \in Files, UserMoveIn(p)
  PROVE  \E s \in Seq(Told) :
               /\ Joined(Stream, s, [type |-> "moved_to", path |-> p])
               /\ \/ s = Stream'
                  \/ Joined(s, Stream', Quiet("other"))
<1>1. UNCHANGED <<events, notifier, watch>> /\ p \in Names
  BY UserCaught, FilesNames
<1>2. Token("moved_to", p) = [type |-> "moved_to", path |-> p] /\ Token("other", p) = Quiet("other")
  BY <1>1, TokenOf DEF Kinds, Mild
<1>3. QED
  BY <1>1, <1>2, MovedStep DEF Sound, UserMoveIn

LEMMA MoveOutStream ==
  ASSUME Typed, Sound, Noticing, User, NEW p \in Files, UserMoveOut(p)
  PROVE  \E s \in Seq(Told) :
               /\ Joined(Stream, s, [type |-> "moved_from", path |-> p])
               /\ \/ s = Stream' /\ (disk[p] = 0 \/ watch[disk[p]] = None)
                  \/ Joined(s, Stream', Quiet("other"))
<1>1. UNCHANGED <<events, notifier, watch>> /\ p \in Names
  BY UserCaught, FilesNames
<1>2. Token("moved_from", p) = [type |-> "moved_from", path |-> p] /\ Token("other", p) = Quiet("other")
  BY <1>1, TokenOf DEF Kinds, Mild
<1>3. QED
  BY <1>1, <1>2, MovedStep DEF Sound, UserMoveOut

LEMMA MoveStream ==
  ASSUME Typed, Sound, Noticing, User, NEW p \in Files, NEW q \in Files, UserMove(p, q)
  PROVE  \E s, t, u \in Seq(Told) :
               /\ Joined(Stream, s, [type |-> "moved_from", path |-> p])
               /\ Joined(s, t, [type |-> "moved_to", path |-> q])
               /\ u = t \/ Joined(t, u, Quiet("other"))
               /\ u = Stream' \/ Joined(u, Stream', Quiet("other"))
<1>1. UNCHANGED <<events, notifier, watch>> /\ p \in Names /\ q \in Names
  BY UserCaught, FilesNames
<1>2. /\ Token("moved_from", p) = [type |-> "moved_from", path |-> p]
      /\ Token("moved_to", q) = [type |-> "moved_to", path |-> q]
      /\ Token("other", p) = Quiet("other") /\ Token("other", q) = Quiet("other")
  BY <1>1, TokenOf DEF Kinds, Mild
<1>3. \E s, t, u \in Seq(Told) :
               /\ Joined(Stream, s, Token("moved_from", p))
               /\ Joined(s, t, Token("moved_to", q))
               /\ \/ u = t /\ (disk[q] = 0 \/ watch[disk[q]] = None)
                  \/ Joined(t, u, Token("other", q))
               /\ u = Stream' \/ Joined(u, Stream', Token("other", p))
  BY <1>1, RenamedStep DEF Sound, UserMove
<1>4. QED
  BY <1>2, <1>3

LEMMA NameTokens ==
  ASSUME NEW p \in Files
  PROVE  /\ \A t \in Kinds : [type |-> t, path |-> p] \in Told
         /\ \A t \in Mild : Quiet(t) \in Told
         /\ {"create", "delete", "moved_from", "moved_to"} = Kinds \ Mild
         /\ Mild = {"open", "modify", "close", "other"}
  BY FilesNames, Tokens DEF Told, Kinds, Mild

LEMMA GuardUser ==
  ASSUME Typed, Sound, Noticing, Opened, User
  PROVE  Guard'
<1>1. UNCHANGED <<env, events, notifier, watch, err>> /\ CaughtUp /\ Stream \in Seq(Told) /\ Guarded(Stream)
  BY UserCaught DEF Noticing, Guard
<1>2. ASSUME Calm(Stream') PROVE Guard'
  BY <1>2 DEF Calm, Guard
<1>3. user.path = None => Calm(Stream)
  BY <1>1, Caught
<1>4. ASSUME NEW s \in Seq(Told), Calm(s) PROVE
        /\ \A t, u : Joined(s, t, Quiet("other")) => t \in Seq(Told) /\ Calm(t)
        /\ \A t, u : Joined(s, t, Quiet("open")) => t \in Seq(Told) /\ Calm(t)
        /\ \A p \in Files : \A t, u : u \in {"create", "delete", "moved_from", "moved_to"} =>
              (Joined(s, t, [type |-> u, path |-> p]) => t \in Seq(Told) /\ Calm(t))
  <2>1. ASSUME NEW t, Joined(s, t, Quiet("other")) PROVE t \in Seq(Told) /\ Calm(t)
    <3>1. Quiet("other") \in Told /\ Quiet("other").type # "modify"
      BY Tokens DEF Mild, Quiet
    <3>2. QED
      BY <1>4, <2>1, <3>1, CalmJoined
  <2>2. ASSUME NEW t, Joined(s, t, Quiet("open")) PROVE t \in Seq(Told) /\ Calm(t)
    <3>1. Quiet("open") \in Told /\ Quiet("open").type # "modify"
      BY Tokens DEF Mild, Quiet
    <3>2. QED
      BY <1>4, <2>2, <3>1, CalmJoined
  <2>3. ASSUME NEW p \in Files, NEW t, NEW u \in {"create", "delete", "moved_from", "moved_to"},
               Joined(s, t, [type |-> u, path |-> p])
        PROVE  t \in Seq(Told) /\ Calm(t)
    <3>1. [type |-> u, path |-> p] \in Told /\ [type |-> u, path |-> p].type # "modify"
      BY NameTokens DEF Kinds
    <3>2. QED
      BY <1>4, <2>3, <3>1, CalmJoined
  <2>4. QED
    BY <2>1, <2>2, <2>3
<1>5. ASSUME NEW p \in Files, UserCreate(p) PROVE Guard'
  <2>1. Calm(Stream)
    BY <1>3, <1>5 DEF UserCreate, Edits
  <2>2. QED
    BY <1>1, <1>2, <1>4, <1>5, <2>1, CreateStream
<1>6. ASSUME NEW p \in Files, UserRemove(p) PROVE Guard'
  <2>1. Calm(Stream)
    BY <1>3, <1>6 DEF UserRemove, Edits
  <2>2. QED
    BY <1>1, <1>2, <1>4, <1>6, <2>1, RemoveStream
<1>7. ASSUME NEW p \in Files, UserMoveIn(p) PROVE Guard'
  <2>1. Calm(Stream)
    BY <1>3, <1>7 DEF UserMoveIn, Edits
  <2>2. QED
    BY <1>1, <1>2, <1>4, <1>7, <2>1, MoveInStream
<1>8. ASSUME NEW p \in Files, UserMoveOut(p) PROVE Guard'
  <2>1. Calm(Stream)
    BY <1>3, <1>8 DEF UserMoveOut, Edits
  <2>2. QED
    BY <1>1, <1>2, <1>4, <1>8, <2>1, MoveOutStream
<1>9. ASSUME NEW p \in Files, NEW q \in Files, UserMove(p, q) PROVE Guard'
  <2>1. Calm(Stream)
    BY <1>3, <1>9 DEF UserMove, Edits
  <2>2. PICK s, t, u \in Seq(Told) :
               /\ Joined(Stream, s, [type |-> "moved_from", path |-> p])
               /\ Joined(s, t, [type |-> "moved_to", path |-> q])
               /\ u = t \/ Joined(t, u, Quiet("other"))
               /\ u = Stream' \/ Joined(u, Stream', Quiet("other"))
    BY <1>9, MoveStream
  <2>3. Calm(s)
    BY <1>1, <1>4, <2>1, <2>2
  <2>4. Calm(t)
    BY <1>4, <2>2, <2>3
  <2>5. Calm(u)
    BY <1>4, <2>2, <2>4
  <2>6. Calm(Stream')
    BY <1>4, <2>2, <2>5
  <2>7. QED
    BY <1>2, <2>6
<1>10. ASSUME NEW p \in Files, UserOpen(p) PROVE Guard'
  <2>1. Calm(Stream) /\ kernel' = Raised(kernel, "open", p)
    BY <1>3, <1>10 DEF UserOpen, Edits
  <2>2. "open" \in Mild /\ p \in Names
    BY FilesNames DEF Mild
  <2>3. Stream' \in Seq(Told) /\ Longer(Stream, Stream', {Token("open", p)})
    BY <1>1, <2>1, <2>2, RaisedStep DEF Sound
  <2>4. \A y \in {Token("open", p)} : y.type # "modify"
    BY <2>2, TokenOf
  <2>5. Calm(Stream')
    BY <1>1, <2>1, <2>3, <2>4, CalmLonger
  <2>6. QED
    BY <1>2, <2>5
<1>11. CASE UserClose
  <2>1. user.path \in Files /\ kernel' = Raised(kernel, "close", user.path)
    BY <1>11 DEF UserClose, Typed, Folder
  <2>2. "close" \in Mild /\ user.path \in Names
    BY <2>1, FilesNames DEF Mild
  <2>3. Stream' \in Seq(Told) /\ Longer(Stream, Stream', Milds)
    BY <1>11, EditStream
  <2>4. EndsWith(Stream', Token("close", user.path)) /\ Token("close", user.path).type # "modify"
    BY <1>1, <2>1, <2>2, RaisedStep, TokenOf DEF Sound
  <2>5. Guarded(Stream')
    BY <1>1, <2>3, GuardedLonger
  <2>6. QED
    BY <1>2, <2>4, <2>5, CalmEnds
<1>12. CASE UserWrite
  <2> DEFINE p == user.path
  <2>1. p \in Files /\ kernel' = Raised(kernel, "modify", p) /\ disk[p] # 0 /\ user'.path = p /\ p # None
    BY <1>12, FilesNames DEF UserWrite, Typed, Folder, Opened
  <2>2. CASE env.remote = {}
    <3>1. Stream' \in Seq(Told) /\ Longer(Stream, Stream', Milds)
      BY <1>12, EditStream
    <3>2. Guarded(Stream')
      BY <1>1, <3>1, GuardedLonger
    <3>3. QED
      BY <1>1, <2>1, <2>2, <3>2 DEF Guard
  <2>3. CASE env.remote # {}
    <3>1. ~env.lag /\ Stream = <<>> /\ Present = {} /\ kernel = <<>> /\ err = "EAGAIN"
      BY <1>1, <2>3, Caught, Classes
    <3>2. Watched(p)
      BY <2>1, <3>1 DEF Noticing, AllWatched
    <3>3. watch[disk[p]] # None
      BY <2>3, <3>1, <3>2, EmptyHas DEF Watched, Unhandled
    <3>4. Twice(Stream') /\ Guarded(Stream')
      BY <1>1, <2>1, <3>1, <3>3, WrittenTwice
    <3>5. QED
      BY <1>1, <2>3, <3>1, <3>4 DEF Guard
  <2>4. QED
    BY <2>2, <2>3
<1>13. QED
  BY <1>5, <1>6, <1>7, <1>8, <1>9, <1>10, <1>11, <1>12 DEF User

-----------------------------------------------------------------------------
(* What the notifier does with the first event *)

\* Of the user's names only the one that the sender touches is ignored.
LEMMA IgnoredMine ==
  ASSUME Typed, Sound, Alive, NEW p \in Mine, IsIgnored(p)
  PROVE  Requested("NEW_FILE", p)
<1>1. p \in perm
  BY MineFiles, FilesNames DEF IsIgnored, Sound, Settled
<1>2. sender.at = "utime" /\ sender.path = p /\ sender.op = "NEW_FILE"
  BY <1>1 DEF Sound, Settled
<1>3. 1 \in 1 .. Len(Work) /\ Work[1] = Request("NEW_FILE", p, sender.to)
  BY <1>2, WorkFirst
<1>4. QED
  BY <1>3 DEF Requested, Request

LEMMA NextTales ==
  ASSUME Typed, Typed', Sound, Sound', NEW at, GetNextEvent(at)
  PROVE  KernelTales(kernel)' = KernelTales(kernel)
<1>1. env' = env /\ kernel' = kernel /\ events # <<>>
  BY DEF GetNextEvent, bounds
<1>2. ~env.lag => kernel = <<>>
  BY <1>1 DEF Sound, KeptUp
<1>3. QED
  BY <1>1, <1>2, TalesKept

LEMMA TaleOf ==
  ASSUME NEW e \in EventType
  PROVE  /\ e.path = Hidden => Tale(e) = Veiled
         /\ e.path \in Files /\ e.type \in Mild => Tale(e) = Quiet(e.type) /\ Tale(e) \in Milds
         /\ e.path \in Files /\ e.type \notin Mild => Tale(e) = [type |-> e.type, path |-> e.path]
         /\ e.path \in Files \/ e.path = Hidden
         /\ e.type \in Kinds
  BY Tokens, FilesNames DEF EventType, Names, Tale, Quiet, Veiled

\* A file becomes known only when it is there, or when it is the one reported.
LEMMA ChosenInfo ==
  ASSUME Typed, NEW event, NEW source, NEW p \in Names, ChooseRequest(event, source, p),
         NEW q \in Names, info'[q] # "unknown"
  PROVE  info[q] # "unknown" \/ disk[q] # 0 \/ q = p
<1>1. info \in [Names -> {"unknown", "open", "closed"}]
  BY DEF Typed, Reports
<1>2. \/ info' = info \/ info' = Listed(p) \/ \E how : info' = [info EXCEPT ![p] = how]
  BY DEF ChooseRequest, SaveAs, RequestCreation, RequestDeletion, RequestMove, RequestMoveTo
<1>3. QED
  BY <1>1, <1>2 DEF Listed

\* Nor does the queue change but by an event that tells something.
LEMMA ChosenQueue ==
  ASSUME NEW event, NEW source, NEW p, ChooseRequest(event, source, p)
  PROVE  /\ IsIgnored(p) => UNCHANGED <<info, queue>>
         /\ event \in {"open", "close", "other"} => queue' = queue
         /\ event \in {"create", "modify"} /\ ~IsIgnored(p) =>
               queue' = Append(queue, Request("NEW_FILE", p, None))
         /\ event \in {"delete", "outward_move"} /\ ~IsIgnored(p) =>
               queue' = Append(queue, Request("DELETE", p, None))
         /\ event = "internal_move" /\ ~IsIgnored(p) =>
               queue' = Append(queue, Request("MOVE", source, p)) /\ info' = info
         /\ event = "moved_to" /\ ~IsIgnored(p) /\ ~Known(p) =>
               queue' = Append(queue, Request("NEW_FILE", p, None))
<1>1. IsIgnored(p) => UNCHANGED <<info, queue>>
  BY DEF ChooseRequest
<1>2. CASE IsIgnored(p)
  BY <1>1, <1>2
<1>3. CASE event = "other"
  BY <1>1, <1>3 DEF ChooseRequest
<1>4. CASE ~IsIgnored(p) /\ event \in {"open", "close"}
  BY <1>4 DEF ChooseRequest, SaveAs
<1>5. CASE ~IsIgnored(p) /\ event \in {"create", "modify"}
  BY <1>5 DEF ChooseRequest, RequestCreation
<1>6. CASE ~IsIgnored(p) /\ event \in {"delete", "outward_move"}
  BY <1>6 DEF ChooseRequest, RequestDeletion
<1>7. CASE ~IsIgnored(p) /\ event = "internal_move"
  BY <1>7 DEF ChooseRequest, RequestMove
<1>8. CASE ~IsIgnored(p) /\ event = "moved_to"
  BY <1>8 DEF ChooseRequest, RequestMoveTo, RequestCreation
<1>9. QED
  BY <1>2, <1>3, <1>4, <1>5, <1>6, <1>7, <1>8

\* The frame of a step of the notifier, and what becomes known by it.
NotifierFrame(q) ==
    /\ UNCHANGED <<env, disk, made, data, used, kernel, perm, sender, receiver, user, told>>
    /\ events # <<>> /\ events' = Tail(events) /\ Alive
    /\ Stream \in Seq(Told) /\ Stream # <<>> /\ Mine' = Mine
    /\ \A n \in Names : info'[n] # "unknown" => info[n] # "unknown" \/ disk[n] # 0 \/ n = q

RunsQuiet == /\ Stream[1] \in Milds \cup {Veiled} /\ Stream' = Tail(Stream)
             /\ Stream[1].type # "modify"
             /\ UNCHANGED <<queue, notifier, err, watch>>
RunsModify == /\ Stream[1] = Modified /\ Stream' = Stream
              /\ notifier'.at = "catchAllEvents" /\ notifier'.path = Head(events).path
              /\ UNCHANGED <<queue, info, err, watch>>
RunsMovedFrom(p) == /\ Stream[1] = [type |-> "moved_from", path |-> p] /\ Stream' = Tail(Stream)
                    /\ notifier' = [at |-> "determineMoveType", path |-> p, to |-> None]
                    /\ UNCHANGED <<queue, info, err, watch>>
RunsCreate(p) == /\ Stream[1] = [type |-> "create", path |-> p] /\ Stream' = Tail(Stream)
                 /\ notifier' = notifier /\ WatchFile(p)
                 /\ \/ queue' = Append(queue, Request("NEW_FILE", p, None))
                    \/ queue' = queue /\ (p \in Mine => Requested("NEW_FILE", p))
RunsDelete(p) == /\ Stream[1] = [type |-> "delete", path |-> p] /\ Stream' = Tail(Stream)
                 /\ UNCHANGED <<notifier, err, watch>>
                 /\ \/ queue' = Append(queue, Request("DELETE", p, None))
                    \/ queue' = queue /\ p \notin Mine
RunsMovedTo(p) == /\ Stream[1] = [type |-> "moved_to", path |-> p] /\ Stream' = Tail(Stream)
                  /\ UNCHANGED <<notifier, err, watch>>
                  /\ queue' = Append(queue, Request("NEW_FILE", p, None))

LEMMA HasFirst ==
  ASSUME Stream \in Seq(Told), Stream # <<>>
  PROVE  1 \in 1 .. Len(Stream) /\ Has(Stream, Stream[1]) /\ Stream[1] \in Told
  BY TailTold

LEMMA RunOnceCases ==
  ASSUME Typed, Typed', Sound, Sound', Noticing, ~Doomed, RunOnce
  PROVE  /\ NotifierFrame(Head(events).path) /\ notifier.at = "runOnce"
         /\ \/ RunsQuiet \/ RunsModify
            \/ \E p \in Files : RunsMovedFrom(p) \/ RunsCreate(p) \/ RunsDelete(p) \/ RunsMovedTo(p)
<1> DEFINE e == Head(events)
           x == Tale(e)
           p == e.path
<1>1. /\ GetNextEvent("runOnce") /\ notifier.at = "runOnce" /\ events # <<>> /\ Alive
      /\ events' = Tail(events)
      /\ UNCHANGED <<env, disk, made, data, used, kernel, perm, sender, receiver, user, told>>
  BY DEF RunOnce, GetNextEvent, bounds, folderVars
<1>2. KernelTales(kernel)' = KernelTales(kernel)
  BY <1>1, NextTales
<1>3. /\ Stream \in Seq(Told) /\ Stream # <<>> /\ e \in EventType /\ Stream[1] = x
      /\ notifier'.at # "catchAllEvents" => Stream' = Tail(Stream)
      /\ notifier'.at = "catchAllEvents" /\ x = Modified => Stream' = Stream
  BY <1>1, <1>2, NextStream
<1>4. /\ p = Hidden => x = Veiled
      /\ p \in Files /\ e.type \in Mild => x = Quiet(e.type) /\ x \in Milds
      /\ p \in Files /\ e.type \notin Mild => x = [type |-> e.type, path |-> p]
      /\ p \in Files \/ p = Hidden
      /\ e.type \in Kinds /\ p \in Names
  BY <1>3, TaleOf DEF Names
<1>5. Mine' = Mine
  BY <1>1 DEF Mine
<1>6. 1 \in 1 .. Len(Stream) /\ Has(Stream, x)
  BY <1>3, HasFirst
<1> DEFINE skip == p = Hidden \/ (e.type = "open" /\ disk[p] = 0)
<1>7. CASE skip
  <2>1. UNCHANGED <<notifier, info, queue, ignored, watch, err>>
    BY <1>7 DEF RunOnce
  <2>2. x \in Milds \cup {Veiled} /\ x.type # "modify"
    BY <1>4, <1>7 DEF Mild, Veiled, Quiet
  <2>3. QED
    BY <1>1, <1>3, <1>5, <2>1, <2>2 DEF NotifierFrame, RunsQuiet
<1>8. CASE ~skip /\ e.type \in {"modify", "moved_from"}
  <2>1. /\ notifier' = [at |-> IF e.type = "modify" THEN "catchAllEvents" ELSE "determineMoveType",
                        path |-> p, to |-> None]
        /\ UNCHANGED <<info, queue, ignored, watch, err>>
    BY <1>8 DEF RunOnce
  <2>2. p \in Files
    BY <1>4, <1>8
  <2>3. NotifierFrame(p)
    BY <1>1, <1>3, <1>5, <2>1 DEF NotifierFrame
  <2>4. CASE e.type = "modify"
    <3>1. x = Modified
      BY <1>4, <2>2, <2>4, Tokens DEF Mild
    <3>2. notifier'.at = "catchAllEvents" /\ notifier'.path = p
      BY <2>1, <2>4
    <3>3. QED
      BY <1>1, <1>3, <2>1, <2>3, <3>1, <3>2 DEF RunsModify
  <2>5. CASE e.type # "modify"
    <3>1. e.type = "moved_from"
      BY <1>8, <2>5
    <3>2. x = [type |-> "moved_from", path |-> p]
      BY <1>4, <2>2, <3>1 DEF Mild
    <3>3. notifier' = [at |-> "determineMoveType", path |-> p, to |-> None]
      BY <2>1, <3>1
    <3>4. notifier'.at # "catchAllEvents"
      BY <3>3
    <3>5. RunsMovedFrom(p)
      BY <1>3, <2>1, <3>2, <3>3, <3>4 DEF RunsMovedFrom
    <3>6. QED
      BY <1>1, <2>2, <2>3, <3>5
  <2>6. QED
    BY <2>4, <2>5
<1>9. CASE ~skip /\ e.type \notin {"modify", "moved_from"}
  <2>1. /\ IF e.type = "create" THEN WatchFile(p) ELSE UNCHANGED <<watch, err>>
        /\ ChooseRequest(e.type, None, p)
        /\ notifier' = notifier
    BY <1>9 DEF RunOnce
  <2>2. p \in Files
    BY <1>4, <1>9
  <2>3. \A n \in Names : info'[n] # "unknown" => info[n] # "unknown" \/ disk[n] # 0 \/ n = p
    BY <1>4, <2>1, ChosenInfo
  <2>4. NotifierFrame(p)
    BY <1>1, <1>3, <1>5, <2>3 DEF NotifierFrame
  <2>5. Stream' = Tail(Stream)
    BY <1>1, <1>3, <2>1
  <2>6. CASE e.type \in {"open", "close", "other"}
    <3>1. queue' = queue
      BY <2>1, <2>6, ChosenQueue
    <3>2. x \in Milds /\ x.type # "modify"
      BY <1>4, <2>2, <2>6 DEF Mild, Quiet
    <3>3. RunsQuiet
      BY <1>3, <2>1, <2>5, <2>6, <3>1, <3>2 DEF RunsQuiet
    <3>4. QED
      BY <1>1, <2>4, <3>3
  <2>7. CASE e.type = "create"
    <3>1. x = [type |-> "create", path |-> p]
      BY <1>4, <2>2, <2>7 DEF Mild
    <3>2. \/ queue' = Append(queue, Request("NEW_FILE", p, None))
          \/ queue' = queue /\ IsIgnored(p)
      BY <2>1, <2>7, ChosenQueue
    <3>3. p \in Mine /\ IsIgnored(p) => Requested("NEW_FILE", p)
      BY <1>1, IgnoredMine
    <3>4. RunsCreate(p)
      BY <1>3, <2>1, <2>5, <2>7, <3>1, <3>2, <3>3 DEF RunsCreate
    <3>5. QED
      BY <1>1, <2>2, <2>4, <3>4
  <2>8. CASE e.type = "delete"
    <3>1. x = [type |-> "delete", path |-> p]
      BY <1>4, <2>2, <2>8 DEF Mild
    <3>2. \/ queue' = Append(queue, Request("DELETE", p, None))
          \/ queue' = queue /\ IsIgnored(p)
      BY <2>1, <2>8, ChosenQueue
    <3>3. p \in Mine /\ IsIgnored(p) => FALSE
      <4>1. SUFFICES ASSUME p \in Mine, IsIgnored(p) PROVE FALSE
        OBVIOUS
      <4>2. Died(p)
        BY <1>6, <3>1 DEF Died, Dying, Unhandled
      <4>3. p \in used /\ disk[p] = 0
        BY <4>1, <4>2 DEF Noticing, Accounted
      <4>4. Requested("NEW_FILE", p)
        BY <1>1, <4>1, IgnoredMine
      <4>5. QED
        BY <4>1, <4>3, <4>4 DEF Doomed
    <3>4. RunsDelete(p)
      BY <1>3, <2>1, <2>5, <2>8, <3>1, <3>2, <3>3 DEF RunsDelete
    <3>5. QED
      BY <1>1, <2>2, <2>4, <3>4
  <2>9. CASE e.type = "moved_to"
    <3>1. x = [type |-> "moved_to", path |-> p]
      BY <1>4, <2>2, <2>9 DEF Mild
    <3>2. Renames /\ Landed(p)
      BY <1>3, <1>6, <3>1 DEF Noticing, Moves
    <3>3. ~IsIgnored(p)
      BY <2>2, <3>2, Classes, FilesNames DEF IsIgnored, Landed, Sound, Settled
    <3>4. queue' = Append(queue, Request("NEW_FILE", p, None))
      BY <2>1, <2>9, <3>2, <3>3, ChosenQueue DEF Landed, Known
    <3>5. RunsMovedTo(p)
      BY <1>3, <2>1, <2>5, <2>9, <3>1, <3>4 DEF RunsMovedTo
    <3>6. QED
      BY <1>1, <2>2, <2>4, <3>5
  <2>10. e.type \in {"open", "close", "other", "create", "delete", "moved_to"}
    BY <1>4, <1>9 DEF Kinds
  <2>11. QED
    BY <2>6, <2>7, <2>8, <2>9, <2>10
<1>10. QED
  BY <1>7, <1>8, <1>9

CatchesOn == /\ Stream' = Tail(Stream) /\ UNCHANGED <<queue, notifier>>
             /\ Stream[2] = Modified /\ err # "EAGAIN"
CatchesLast == /\ Stream' = Tail(Tail(Stream)) /\ notifier' = Idle
               /\ \/ queue' = queue
                  \/ queue' = Append(queue, Request("NEW_FILE", notifier.path, None))

LEMMA CatchCases ==
  ASSUME Typed, Typed', Sound, Sound', Noticing, CatchAllEvents
  PROVE  /\ NotifierFrame(notifier.path) /\ notifier.at = "catchAllEvents" /\ notifier.path \in Files
         /\ UNCHANGED <<watch, err>>
         /\ Stream[1] = Modified /\ Len(Stream) >= 2 /\ Stream[2] \in Milds
         /\ CatchesOn \/ CatchesLast
<1> DEFINE e == Head(events)
           x == Tale(e)
           p == notifier.path
<1>1. /\ GetNextEvent("catchAllEvents") /\ notifier.at = "catchAllEvents" /\ events # <<>> /\ Alive
      /\ events' = Tail(events)
      /\ UNCHANGED <<env, disk, made, data, used, kernel, perm, sender, receiver, user, told>>
      /\ UNCHANGED <<watch, err>>
  BY DEF CatchAllEvents, GetNextEvent, bounds, folderVars
<1>2. KernelTales(kernel)' = KernelTales(kernel)
  BY <1>1, NextTales
<1>3. /\ Stream \in Seq(Told) /\ Stream # <<>> /\ e \in EventType
      /\ Stream[1] = Modified /\ Len(Stream) >= 2 /\ Stream[2] = x
      /\ notifier'.at # "catchAllEvents" => Stream' = Tail(Tail(Stream))
      /\ notifier'.at = "catchAllEvents" /\ x = Modified => Stream' = Tail(Stream)
  BY <1>1, <1>2, NextStream
<1>4. x \in Milds
  <2>1. 1 \in 1 .. Len(Stream) - 1 /\ Stream[1].type = "modify"
    BY <1>3, LenProperties DEF Modified
  <2>2. Stream[1 + 1] \in Milds
    BY <2>1 DEF Noticing, Guard, Guarded
  <2>3. QED
    BY <1>3, <2>2
<1>5. e.type \in Mild /\ x = Quiet(e.type)
  <2>1. e.path # Hidden
    BY <1>3, <1>4, TaleOf, Tokens
  <2>2. e.path \in Files
    BY <1>3, <2>1, TaleOf
  <2>3. e.type \notin Mild => x = [type |-> e.type, path |-> e.path]
    BY <1>3, <2>2, TaleOf
  <2>4. e.type \in Mild
    BY <1>4, <2>3, Tokens
  <2>5. QED
    BY <1>3, <2>2, <2>4, TaleOf
<1>6. p \in Files /\ p \in Names /\ Mine' = Mine
  BY <1>1, FilesNames DEF Typed, Reports, Mine
<1>7. CASE e.type = "modify" /\ err # "EAGAIN"
  <2>1. UNCHANGED <<notifier, info, queue, ignored>>
    BY <1>7 DEF CatchAllEvents
  <2>2. x = Modified
    BY <1>5, <1>7, Tokens
  <2>3. CatchesOn
    BY <1>1, <1>3, <1>7, <2>1, <2>2 DEF CatchesOn
  <2>4. NotifierFrame(p)
    BY <1>1, <1>3, <1>6, <2>1 DEF NotifierFrame
  <2>5. QED
    BY <1>1, <1>3, <1>4, <1>6, <2>3, <2>4
<1>8. CASE ~(e.type = "modify" /\ err # "EAGAIN")
  <2>1. ChooseRequest(e.type, None, p) /\ notifier' = Idle
    BY <1>8 DEF CatchAllEvents
  <2>2. \/ queue' = queue \/ queue' = Append(queue, Request("NEW_FILE", p, None))
    BY <1>5, <2>1, ChosenQueue DEF Mild
  <2>3. notifier'.at # "catchAllEvents"
    BY <2>1 DEF Idle
  <2>4. CatchesLast
    BY <1>3, <2>1, <2>2, <2>3 DEF CatchesLast
  <2>5. \A n \in Names : info'[n] # "unknown" => info[n] # "unknown" \/ disk[n] # 0 \/ n = p
    BY <1>6, <2>1, ChosenInfo
  <2>6. NotifierFrame(p)
    BY <1>1, <1>3, <1>6, <2>5 DEF NotifierFrame
  <2>7. QED
    BY <1>1, <1>3, <1>4, <1>6, <2>4, <2>6
<1>9. QED
  BY <1>7, <1>8

MovesOut == /\ Stream[1] \in Milds \cup {Veiled}
            /\ \/ queue' = Append(queue, Request("DELETE", notifier.path, None))
               \/ queue' = queue /\ notifier.path \notin Mine
MovesTo(q) == /\ Stream[1] = [type |-> "moved_to", path |-> q] /\ info' = info
              /\ queue' = Append(queue, Request("MOVE", notifier.path, q))

LEMMA DetermineCases ==
  ASSUME Typed, Typed', Sound, Sound', Noticing, ~Doomed, DetermineMoveType
  PROVE  /\ NotifierFrame(notifier.path) /\ notifier.at = "determineMoveType"
         /\ notifier.path \in Files /\ notifier' = Idle /\ Stream' = Tail(Stream)
         /\ UNCHANGED <<watch, err>>
         /\ MovesOut \/ \E q \in Files : MovesTo(q)
<1> DEFINE e == Head(events)
           x == Tale(e)
           p == notifier.path
           to == IF notifier.to = None /\ e.type = "moved_to" THEN e.path ELSE notifier.to
<1>1. /\ GetNextEvent("determineMoveType") /\ notifier.at = "determineMoveType" /\ events # <<>>
      /\ Alive /\ events' = Tail(events)
      /\ UNCHANGED <<env, disk, made, data, used, kernel, perm, sender, receiver, user, told>>
      /\ UNCHANGED <<watch, err>>
  BY DEF DetermineMoveType, GetNextEvent, bounds, folderVars
<1>2. KernelTales(kernel)' = KernelTales(kernel)
  BY <1>1, NextTales
<1>3. /\ Stream \in Seq(Told) /\ Stream # <<>> /\ e \in EventType
      /\ Stream[1] = x
      /\ notifier'.at # "catchAllEvents" => Stream' = Tail(Stream)
  BY <1>1, <1>2, NextStream
<1>4. /\ Renames /\ err = "EAGAIN" /\ notifier.to = None /\ Follows(p, x)
      /\ x.type \in {"other", "moved_to"}
  BY <1>1, <1>3 DEF Noticing, Moves, Follows
<1>5. p \in Files /\ p \in Names /\ Mine' = Mine
  BY <1>1, FilesNames DEF Typed, Reports, Mine
<1>6. e.path \in Files
  <2>1. 1 \in 1 .. Len(events) /\ e = events[1]
    BY <1>1, EmptySeq DEF Typed, Kernel
  <2>2. e.path \in used
    BY <1>4, <2>1 DEF Noticing, Traced
  <2>3. QED
    BY <2>2 DEF Typed, Folder
<1>7. x.type = e.type
  BY <1>3, <1>6, TaleOf DEF Quiet
<1>8. CASE e.type = "other"
  <2>1. x \in Milds
    BY <1>3, <1>6, <1>8, TaleOf DEF Mild
  <2>2. to = None
    BY <1>4, <1>8
  <2>3. ChooseRequest("outward_move", None, p) /\ notifier' = Idle
    BY <1>4, <2>2 DEF DetermineMoveType
  <2>4. \/ queue' = Append(queue, Request("DELETE", p, None))
        \/ queue' = queue /\ IsIgnored(p)
    BY <2>3, ChosenQueue
  <2>5. p \in Mine /\ IsIgnored(p) => FALSE
    <3>1. SUFFICES ASSUME p \in Mine, IsIgnored(p) PROVE FALSE
      OBVIOUS
    <3>2. Died(p)
      BY <1>1 DEF Died, Dying
    <3>3. p \in used /\ disk[p] = 0
      BY <3>1, <3>2 DEF Noticing, Accounted
    <3>4. Requested("NEW_FILE", p)
      BY <1>1, <3>1, IgnoredMine
    <3>5. QED
      BY <3>1, <3>3, <3>4 DEF Doomed
  <2>6. MovesOut
    BY <1>3, <2>1, <2>4, <2>5 DEF MovesOut
  <2>7. \A n \in Names : info'[n] # "unknown" => info[n] # "unknown" \/ disk[n] # 0 \/ n = p
    BY <1>5, <2>3, ChosenInfo
  <2>8. NotifierFrame(p)
    BY <1>1, <1>3, <1>5, <2>7 DEF NotifierFrame
  <2>9. notifier'.at # "catchAllEvents"
    BY <2>3 DEF Idle
  <2>10. QED
    BY <1>1, <1>3, <1>5, <2>3, <2>6, <2>8, <2>9
<1>9. CASE e.type = "moved_to"
  <2> DEFINE q == e.path
  <2>1. x = [type |-> "moved_to", path |-> q]
    BY <1>3, <1>6, <1>9, TaleOf DEF Mild
  <2>2. to = q /\ q # None
    BY <1>4, <1>6, <1>9, FilesNames
  <2>3. ChooseRequest("internal_move", p, q) /\ notifier' = Idle
    BY <1>4, <2>2 DEF DetermineMoveType
  <2>4. Landed(q)
    <3>1. Stream[1].type = "moved_to" /\ Stream[1].path = q /\ 1 \in 1 .. Len(Stream)
      BY <1>3, <2>1, HasFirst
    <3>2. Landed(Stream[1].path)
      BY <3>1 DEF Noticing, Moves
    <3>3. QED
      BY <3>1, <3>2
  <2>5. ~IsIgnored(q)
    BY <1>4, <1>6, <2>4, Classes, FilesNames DEF IsIgnored, Landed, Sound, Settled
  <2>6. queue' = Append(queue, Request("MOVE", p, q)) /\ info' = info
    BY <2>3, <2>5, ChosenQueue
  <2>7. MovesTo(q)
    BY <1>3, <2>1, <2>6 DEF MovesTo
  <2>8. NotifierFrame(p)
    BY <1>1, <1>3, <1>5, <2>6 DEF NotifierFrame
  <2>9. notifier'.at # "catchAllEvents"
    BY <2>3 DEF Idle
  <2>10. QED
    BY <1>1, <1>3, <1>5, <1>6, <2>3, <2>7, <2>8, <2>9
<1>10. QED
  BY <1>4, <1>7, <1>8, <1>9

-----------------------------------------------------------------------------
(* Guard *)

LEMMA GuardTail ==
  ASSUME Guard, Stream \in Seq(Told), Stream # <<>>, Stream[1].type # "modify",
         Stream' = Tail(Stream), UNCHANGED <<env, user>>
  PROVE  Guard'
<1>1. Guarded(Stream')
  BY GuardedTail DEF Guard
<1>2. Stream' # <<>> => Stream'[Len(Stream')] = Stream[Len(Stream)]
  BY TailTold
<1>3. ~Twice(Stream)
  BY DEF Twice
<1>4. QED
  BY <1>1, <1>2, <1>3 DEF Guard

LEMMA PollStream ==
  ASSUME Poll
  PROVE  Stream' = Stream
<1>1. UNCHANGED <<events, notifier, kernel, watch>>
  BY DEF Poll, notifierVars
<1>2. KernelTales(kernel)' = KernelTales(kernel)
  BY <1>1 DEF KernelTales, Tale, Translated
<1>3. QED
  BY <1>1, <1>2, SameStream

LEMMA GuardNotifier ==
  ASSUME Typed, Typed', Sound, Sound', Noticing, ~Doomed, Notifier
  PROVE  Guard'
<1>1. Guard
  BY DEF Noticing
<1>2. CASE Poll
  <2>1. Stream' = Stream /\ err' = "EAGAIN" /\ UNCHANGED <<env, user>>
    BY <1>2, PollStream DEF Poll, bounds
  <2>2. QED
    BY <1>1, <2>1 DEF Guard
<1>3. CASE Read
  <2>1. Stream' = Stream /\ UNCHANGED <<env, user, err>>
    BY <1>3, ReadStream DEF Read, bounds
  <2>2. QED
    BY <1>1, <2>1 DEF Guard
<1>4. CASE RunOnce
  <2>1. UNCHANGED <<env, user>> /\ Stream \in Seq(Told) /\ Stream # <<>>
    BY <1>4, RunOnceCases DEF NotifierFrame
  <2>2. CASE RunsModify
    <3>1. Stream' = Stream /\ err' = err
      BY <2>2 DEF RunsModify
    <3>2. QED
      BY <1>1, <2>1, <3>1 DEF Guard
  <2>3. CASE RunsQuiet
    BY <1>1, <2>1, <2>3, GuardTail DEF RunsQuiet
  <2>4. ASSUME NEW p, RunsMovedFrom(p) \/ RunsCreate(p) \/ RunsDelete(p) \/ RunsMovedTo(p)
        PROVE  Guard'
    <3>1. Stream[1].type # "modify" /\ Stream' = Tail(Stream)
      BY <2>4 DEF RunsMovedFrom, RunsCreate, RunsDelete, RunsMovedTo
    <3>2. QED
      BY <1>1, <2>1, <3>1, GuardTail
  <2>5. QED
    BY <1>4, <2>2, <2>3, <2>4, RunOnceCases
<1>5. CASE CatchAllEvents
  <2>1. /\ UNCHANGED <<env, user, err>> /\ Stream \in Seq(Told) /\ Stream # <<>>
        /\ CatchesOn \/ CatchesLast
    BY <1>5, CatchCases DEF NotifierFrame
  <2>2. /\ Guarded(Tail(Stream)) /\ Tail(Stream) \in Seq(Told)
        /\ Tail(Stream) # <<>> => Tail(Stream)[Len(Tail(Stream))] = Stream[Len(Stream)]
        /\ Len(Tail(Stream)) = Len(Stream) - 1 /\ Len(Stream) >= 2 /\ Len(Stream) \in Nat
    BY <1>1, <1>5, <2>1, GuardedTail, TailTold, CatchCases DEF Guard
  <2>3. CASE CatchesOn
    BY <1>1, <2>1, <2>2, <2>3 DEF CatchesOn, Guard
  <2>4. CASE CatchesLast
    <3> DEFINE t == Tail(Stream)
    <3>1. t # <<>> /\ t \in Seq(Told) /\ Guarded(t) /\ Len(t) = Len(Stream) - 1
          /\ t[Len(t)] = Stream[Len(Stream)]
      <4>1. Len(t) # 0
        BY <2>2
      <4>2. t # <<>>
        <5>1. t \in Seq(Told)
          BY <2>2
        <5> HIDE DEF t
        <5>2. QED
          BY <4>1, <5>1, EmptySeq
      <4>3. QED
        BY <2>2, <4>2
    <3>1a. Stream' = Tail(t)
      BY <2>4 DEF CatchesLast
    <3> HIDE DEF t
    <3>2. /\ Guarded(Tail(t)) /\ Tail(t) \in Seq(Told)
          /\ Tail(t) # <<>> => Tail(t)[Len(Tail(t))] = t[Len(t)] /\ Len(t) >= 2 /\ Len(t) \in Nat
      BY <3>1, GuardedTail, TailTold
    <3>3. Stream' = Tail(t) /\ (Stream' # <<>> => Stream'[Len(Stream')] = Stream[Len(Stream)] /\ ~Twice(Stream))
      BY <2>2, <3>1, <3>1a, <3>2 DEF Twice
    <3>4. QED
      BY <1>1, <2>1, <3>2, <3>3 DEF Guard
  <2>5. QED
    BY <2>1, <2>3, <2>4
<1>6. CASE DetermineMoveType
  <2>1. /\ UNCHANGED <<env, user>> /\ Stream \in Seq(Told) /\ Stream # <<>>
        /\ Stream' = Tail(Stream) /\ notifier.at = "determineMoveType"
    BY <1>6, DetermineCases DEF NotifierFrame
  <2>2. Stream[1].type # "modify"
    BY <2>1 DEF Noticing, Moves, Follows
  <2>3. QED
    BY <1>1, <2>1, <2>2, GuardTail
<1>7. QED
  BY <1>2, <1>3, <1>4, <1>5, <1>6 DEF Notifier

LEMMA SenderFrame ==
  ASSUME Sender
  PROVE  /\ UNCHANGED <<env, disk, made, data, used, events, notifier, info, ignored, receiver, user>>
         /\ CaughtUp /\ Alive /\ Mine' = Mine
  BY DEF Sender, Dequeue, SendContent, GetModificationTime, ChangeModificationTime, SendDeletion,
         SendMove, Sends, bounds, folderVars, Mine

LEMMA GuardSender ==
  ASSUME Typed, Typed', Sound, Sound', Noticing, Sender
  PROVE  Guard'
<1>1. UNCHANGED <<env, user>> /\ CaughtUp /\ Guard
  BY SenderFrame DEF Noticing
<1>2. /\ Stream \in Seq(Told) /\ Stream' \in Seq(Told) /\ Longer(Stream, Stream', Milds)
      /\ Stream' = Stream \/ \E t \in Mild \ {"modify"} : EndsWith(Stream', Quiet(t))
  BY SenderStream
<1>3. Guarded(Stream')
  BY <1>1, <1>2, GuardedLonger DEF Guard
<1>4. CASE Stream' = Stream
  <2>1. env.remote # {} => Stream = <<>>
    BY <1>1, Caught
  <2>2. QED
    BY <1>1, <1>3, <1>4, <2>1 DEF Guard
<1>5. CASE \E t \in Mild \ {"modify"} : EndsWith(Stream', Quiet(t))
  <2>1. Calm(Stream')
    BY <1>3, <1>5, CalmEnds DEF Quiet
  <2>2. QED
    BY <2>1 DEF Calm, Guard
<1>6. QED
  BY <1>2, <1>4, <1>5

-----------------------------------------------------------------------------
(* The client that is going to end *)

LEMMA DoomedKept ==
  ASSUME Typed, Typed', Sound, Sound', Doomed, Alive, Alive', Next
  PROVE  Doomed'
<1>1. PICK p \in Mine \cap used : disk[p] = 0 /\ Requested("NEW_FILE", p)
  BY DEF Doomed
<1>2. env' = env /\ Mine' = Mine
  BY EnvKept
<1>3. /\ p \in Files /\ p \in Names /\ p \notin env.remote /\ p # Hidden /\ p \in Mine /\ p \in used
      /\ "again" \notin env.ops
  BY <1>1, MineFiles, FilesNames, Classes
<1>4. disk \in [Names -> 0 .. MaxInode]
  BY DEF Typed, Folder
<1>5. p \in used' /\ disk'[p] = 0
  <2>1. CASE User
    <3>1. ASSUME NEW q \in Files, UserCreate(q) \/ UserMoveIn(q) PROVE p \in used' /\ disk'[p] = 0
      <4>1. Free(q) /\ disk' = [disk EXCEPT ![q] = made + 1] /\ used' = used \cup {q}
        BY <3>1 DEF UserCreate, UserMoveIn
      <4>2. q # p
        BY <1>3, <4>1 DEF Free
      <4>3. QED
        BY <1>1, <1>3, <1>4, <4>1, <4>2
    <3>2. ASSUME NEW q \in Files, UserOpen(q) \/ UserRemove(q) \/ UserMoveOut(q)
          PROVE p \in used' /\ disk'[p] = 0
      <4>1. disk' \in {disk, [disk EXCEPT ![q] = 0]} /\ used' = used
        BY <3>2 DEF UserOpen, UserRemove, UserMoveOut, folderVars
      <4>2. QED
        BY <1>1, <1>3, <1>4, <4>1
    <3>3. ASSUME NEW q \in Files, NEW r \in Files, UserMove(r, q)
          PROVE p \in used' /\ disk'[p] = 0
      <4>1. Free(q) /\ disk' = [disk EXCEPT ![q] = disk[r], ![r] = 0] /\ used' = used \cup {q}
        BY <3>3 DEF UserMove
      <4>2. q # p
        BY <1>3, <4>1 DEF Free
      <4>3. QED
        BY <1>1, <1>3, <1>4, <4>1, <4>2
    <3>4. CASE UserWrite \/ UserClose
      BY <1>1, <3>4 DEF UserWrite, UserClose, folderVars
    <3>5. QED
      BY <2>1, <3>1, <3>2, <3>3, <3>4 DEF User
  <2>2. CASE Notifier
    BY <1>1, <2>2 DEF Notifier, Poll, Read, RunOnce, CatchAllEvents, DetermineMoveType, GetNextEvent,
                      folderVars
  <2>3. CASE Sender
    BY <1>1, <2>3, SenderFrame
  <2>4. CASE Receiver
    <3>1. used' = used /\ (disk' = disk \/ (receiver.at # "idle" /\ \E i : disk' = [disk EXCEPT ![receiver.path] = i]))
      BY <2>4 DEF Receiver, ReceiverStep, ReceiveNewFile, ReceiveDeletion, Arrives, OpenFile,
                  WriteFile, CloseFile, Received, SetReceivedTime, Unlock, WatchReceived, DeleteFile,
                  Goes, Receives, folderVars
    <3>2. receiver.at # "idle" => receiver.path # p
      BY <1>3 DEF Sound, Settled
    <3>3. QED
      BY <1>1, <1>3, <1>4, <3>1, <3>2
  <2>5. QED
    BY <2>1, <2>2, <2>3, <2>4 DEF Next
<1>6. Requested("NEW_FILE", p)'
  <2>1. Work \in Seq(Requests)
    BY WorkTyped
  <2>2. ASSUME Work' = Work PROVE Requested("NEW_FILE", p)'
    BY <1>1, <2>2 DEF Requested
  <2>3. CASE User
    <3>1. queue' = queue /\ sender' = sender
      BY <2>3 DEF User, UserCreate, UserOpen, UserRemove, UserMoveIn, UserMoveOut, UserMove, UserWrite,
         UserClose, Edits, notifierVars
    <3>2. QED
      BY <2>2, <3>1, WorkSame
  <2>4. CASE Receiver
    <3>1. queue' = queue /\ sender' = sender
      BY <2>4 DEF Receiver, ReceiverStep, ReceiveNewFile, ReceiveDeletion, Arrives, OpenFile, WriteFile,
         CloseFile, Received, SetReceivedTime, Unlock, WatchReceived, DeleteFile, Goes, Receives
    <3>2. QED
      BY <2>2, <3>1, WorkSame
  <2>5. CASE Notifier
    <3>1. sender' = sender
      BY <2>5 DEF Notifier, Poll, Read, RunOnce, CatchAllEvents, DetermineMoveType, GetNextEvent
    <3>2. queue' = queue \/ \E r : queue' = Append(queue, r)
      BY <2>5 DEF Notifier, Poll, Read, RunOnce, CatchAllEvents, DetermineMoveType, notifierVars,
             ChooseRequest, SaveAs, RequestCreation, RequestDeletion, RequestMove, RequestMoveTo
    <3>3. CASE queue' = queue
      BY <2>2, <3>1, <3>3, WorkSame
    <3>4. ASSUME NEW r, queue' = Append(queue, r) PROVE Requested("NEW_FILE", p)'
      <4>1. queue \in Seq(Requests) /\ queue' \in Seq(Requests)
        BY DEF Typed, Reports
      <4>2. Len(queue') = Len(queue) + 1 /\ queue'[Len(queue) + 1] = r /\ Len(queue) \in Nat
        BY <3>4, <4>1
      <4>3. Len(queue) + 1 \in 1 .. Len(queue')
        BY <4>2
      <4>4. queue'[Len(queue) + 1] \in Requests
        BY <4>1, <4>3, ElementOfSeq
      <4>5. r \in Requests
        BY <4>2, <4>4
      <4>6. Work' = Append(Work, r)
        BY <3>1, <3>4, <4>5, WorkAppend
      <4>7. QED
        BY <1>1, <2>1, <4>5, <4>6, MoreWork
    <3>5. QED
      BY <3>2, <3>3, <3>4
  <2>6. CASE Sender
    <3>1. CASE Dequeue
      BY <2>2, <3>1, WorkDequeue
    <3>2. CASE SendContent \/ GetModificationTime
      <4>1. /\ sender.at \notin {"idle", "gone"} /\ queue' = queue /\ sender \in SenderState
        BY <3>2 DEF SendContent, GetModificationTime, Sends, Typed, Threads
      <4>2. sender'.op = sender.op /\ sender'.path = sender.path /\ sender'.to = sender.to
            /\ sender'.at # "idle"
        BY <3>2, <4>1 DEF SendContent, GetModificationTime, SenderState
      <4>3. sender'.at # "gone"
        BY DEF Alive
      <4>4. QED
        BY <2>2, <4>1, <4>2, <4>3, WorkGoesOn
    <3>3. CASE ChangeModificationTime \/ SendDeletion \/ SendMove
      <4>1. /\ sender.at \notin {"idle", "gone"} /\ queue' = queue /\ sender \in SenderState
        BY <3>3 DEF ChangeModificationTime, SendDeletion, SendMove, Sends, Typed, Threads
      <4>2. sender' = NoRequest
        <5>1. sender' # [sender EXCEPT !.at = "gone"]
          BY <4>1 DEF Alive, SenderState
        <5>2. QED
          BY <3>3, <5>1 DEF ChangeModificationTime, SendDeletion, SendMove
      <4>3. Work' = Tail(Work) /\ Work # <<>> /\ Work[1] = Request(sender.op, sender.path, sender.to)
        BY <4>1, <4>2, WorkDone, WorkFirst
      <4>4. ~(Work[1].op = "NEW_FILE" /\ Work[1].path = p)
        <5>1. Work[1].op = sender.op /\ Work[1].path = sender.path
          BY <4>3 DEF Request
        <5>2. CASE SendDeletion \/ SendMove
          BY <5>1, <5>2 DEF SendDeletion, SendMove
        <5>3. CASE ChangeModificationTime
          <6>1. disk[sender.path] # 0
            BY <4>1, <4>2, <5>3 DEF ChangeModificationTime, SenderState, NoRequest
          <6>2. QED
            BY <1>1, <5>1, <6>1
        <5>4. QED
          BY <3>3, <5>2, <5>3
      <4>5. QED
        BY <1>1, <2>1, <4>3, <4>4, LessWork
    <3>4. QED
      BY <2>6, <3>1, <3>2, <3>3 DEF Sender
  <2>7. QED
    BY <2>3, <2>4, <2>5, <2>6 DEF Next
<1>7. QED
  BY <1>2, <1>3, <1>5, <1>6 DEF Doomed

LEMMA OpenedNext ==
  ASSUME Typed, Sound, Opened, [Next]_vars
  PROVE  Opened'
<1>1. disk \in [Names -> 0 .. MaxInode] /\ made \in Nat /\ \A p \in Files : p \in Names /\ p # None
  BY FilesNames DEF Typed, Folder
<1>2. ASSUME UNCHANGED <<disk, user>> PROVE Opened'
  BY <1>2 DEF Opened
<1>3. CASE User
  <2>1. ASSUME NEW p \in Files, UserCreate(p) PROVE Opened'
    <3>1. user'.path = p /\ disk' = [disk EXCEPT ![p] = made + 1]
      BY <2>1 DEF UserCreate
    <3>2. QED
      BY <1>1, <3>1 DEF Opened
  <2>2. ASSUME NEW p \in Files, UserOpen(p) PROVE Opened'
    <3>1. user'.path = p /\ disk' = disk /\ disk[p] # 0
      BY <2>2 DEF UserOpen, folderVars
    <3>2. QED
      BY <3>1 DEF Opened
  <2>3. ASSUME \/ \E p \in Files : UserRemove(p) \/ UserMoveIn(p) \/ UserMoveOut(p)
               \/ \E p, q \in Files : UserMove(p, q)
        PROVE Opened'
    <3>1. user' = user /\ user.path = None
      BY <2>3 DEF UserRemove, UserMoveIn, UserMoveOut, UserMove, Edits
    <3>2. QED
      BY <3>1 DEF Opened
  <2>4. CASE UserWrite
    <3>1. disk' = disk /\ user'.path = user.path
      BY <2>4 DEF UserWrite, Typed, Folder
    <3>2. QED
      BY <3>1 DEF Opened
  <2>5. CASE UserClose
    <3>1. user'.path = None
      BY <2>5 DEF UserClose, Away
    <3>2. QED
      BY <3>1 DEF Opened
  <2>6. QED
    BY <1>3, <2>1, <2>2, <2>3, <2>4, <2>5 DEF User
<1>4. CASE Notifier
  BY <1>2, <1>4 DEF Notifier, Poll, Read, RunOnce, CatchAllEvents, DetermineMoveType, GetNextEvent,
                    folderVars
<1>5. CASE Sender
  BY <1>2, <1>5, SenderFrame
<1>6. CASE Receiver
  <2>1. CASE OpenFile
    <3>1. user' = user /\ \/ disk' = disk
                          \/ disk' = [disk EXCEPT ![receiver.path] = made + 1]
      BY <2>1 DEF OpenFile, Goes, Receives
    <3>2. user.path # None => user.path \in Names
      BY <1>1 DEF Typed, Folder
    <3>3. QED
      BY <1>1, <3>1, <3>2 DEF Opened
  <2>2. CASE DeleteFile
    <3>1. user' = user /\ user.path # receiver.path
          /\ disk' \in {disk, [disk EXCEPT ![receiver.path] = 0]}
      BY <2>2 DEF DeleteFile, Receives
    <3>2. user.path # None => user.path \in Names
      BY <1>1 DEF Typed, Folder
    <3>3. QED
      BY <1>1, <3>1, <3>2 DEF Opened
  <2>3. CASE ~OpenFile /\ ~DeleteFile
    BY <1>2, <1>6, <2>3 DEF Receiver, ReceiverStep, ReceiveNewFile, ReceiveDeletion, Arrives, WriteFile,
         CloseFile, Received, SetReceivedTime, Unlock, WatchReceived, Goes, Receives, folderVars
  <2>4. QED
    BY <2>1, <2>2, <2>3
<1>7. CASE UNCHANGED vars
  BY <1>2, <1>7 DEF vars
<1>8. QED
  BY <1>3, <1>4, <1>5, <1>6, <1>7 DEF Next

-----------------------------------------------------------------------------
(* Moves *)

Unmoved(s) == \A y : Has(s, y) => y.type \notin {"moved_from", "moved_to"}
NoEnd(s) == \A y : Has(s, y) => ~Ending(y)
OneEnd(s) == \A i, j \in 1 .. Len(s) : Ending(s[i]) /\ Ending(s[j]) => i = j

LEMMA HasAt ==
  ASSUME NEW s, NEW j \in 1 .. Len(s)
  PROVE  Has(s, s[j])
  BY DEF Has

LEMMA MovesNone ==
  ASSUME Unmoved(Stream'), notifier'.at # "determineMoveType", Renames' => OneEnd(Stream')
  PROVE  Moves'
<1>1. \A j \in 1 .. Len(Stream') : Stream'[j].type \notin {"moved_from", "moved_to"}
  BY HasAt DEF Unmoved
<1>2. QED
  BY <1>1 DEF Moves, OneEnd, Ending

LEMMA EndJoined ==
  ASSUME NEW s \in Seq(Told), NEW t, NEW x \in Told, Joined(s, t, x)
  PROVE  /\ NoEnd(s) /\ ~Ending(x) => NoEnd(t)
         /\ NoEnd(s) => OneEnd(t)
         /\ OneEnd(s) /\ ~Ending(x) => OneEnd(t)
<1>1. \A y : Has(t, y) <=> Has(s, y) \/ y = x
  BY HasJoined
<1>2. NoEnd(s) /\ ~Ending(x) => NoEnd(t)
  BY <1>1 DEF NoEnd
<1>3. CASE t = Append(s, x)
  <2>1. /\ Len(t) = Len(s) + 1 /\ Len(s) \in Nat
        /\ \A i \in 1 .. Len(s) : t[i] = s[i]
        /\ t[Len(s) + 1] = x
    BY <1>3, AppendProperties
  <2>2. \A j : j \in 1 .. Len(t) <=> j \in 1 .. Len(s) \/ j = Len(s) + 1
    BY <2>1
  <2>3. NoEnd(s) => \A j \in 1 .. Len(s) : ~Ending(s[j])
    BY HasAt DEF NoEnd
  <2>4. QED
    BY <1>2, <2>1, <2>2, <2>3 DEF OneEnd
<1>4. CASE t = s
  <2>1. NoEnd(s) => \A j \in 1 .. Len(s) : ~Ending(s[j])
    BY HasAt DEF NoEnd
  <2>2. QED
    BY <1>2, <1>4, <2>1 DEF OneEnd
<1>5. QED
  BY <1>3, <1>4 DEF Joined

LEMMA OneEndTail ==
  ASSUME NEW s \in Seq(Told), s # <<>>, OneEnd(s)
  PROVE  OneEnd(Tail(s)) /\ Tail(s) \in Seq(Told)
<1>1. /\ Tail(s) \in Seq(Told) /\ Len(s) \in Nat \ {0} /\ Len(Tail(s)) = Len(s) - 1
      /\ \A j \in 1 .. Len(s) - 1 : Tail(s)[j] = s[j + 1] /\ j + 1 \in 1 .. Len(s)
  BY TailTold
<1>2. SUFFICES ASSUME NEW i \in 1 .. Len(Tail(s)), NEW j \in 1 .. Len(Tail(s)),
                      Ending(Tail(s)[i]), Ending(Tail(s)[j])
               PROVE i = j
  BY <1>1 DEF OneEnd
<1>3. i \in 1 .. Len(s) - 1 /\ j \in 1 .. Len(s) - 1
  BY <1>1
<1>4. Ending(s[i + 1]) /\ Ending(s[j + 1]) /\ i + 1 \in 1 .. Len(s) /\ j + 1 \in 1 .. Len(s)
  BY <1>1, <1>2, <1>3
<1>5. i + 1 = j + 1
  BY <1>4 DEF OneEnd
<1>6. QED
  BY <1>1, <1>3, <1>5

LEMMA CaughtMoves ==
  ASSUME Typed, Sound, Noticing, CaughtUp
  PROVE  /\ Unmoved(Stream) /\ notifier.at # "determineMoveType"
         /\ Renames => NoEnd(Stream)
         /\ \A y : Has(Stream, y) => y.type \notin {"moved_from", "moved_to"}
<1>1. CASE ~Renames
  BY <1>1 DEF Noticing, Moves, Unmoved, Has
<1>2. CASE Renames
  <2>1. /\ notifier.at # "determineMoveType"
        /\ Stream = <<>> \/ Stream = <<Modified>>
    BY <1>2, Caught, Classes
  <2>2. Len(<<Modified>>) = 1 /\ <<Modified>>[1] = Modified
    OBVIOUS
  <2>3. \A y : Has(Stream, y) => y = Modified
    BY <2>1, <2>2, EmptyHas DEF Has
  <2>4. QED
    BY <2>1, <2>3 DEF Unmoved, NoEnd, Modified, Ending
<1>3. QED
  BY <1>1, <1>2

LEMMA NoEndOne ==
  ASSUME NEW s, NoEnd(s)
  PROVE  OneEnd(s)
  BY HasAt DEF NoEnd, OneEnd

\* Tokens that tell of no name change nothing.
LEMMA MovesQuiet ==
  ASSUME Typed, Sound, Noticing, CaughtUp, Stream' \in Seq(Told), Longer(Stream, Stream', Milds),
         UNCHANGED <<env, notifier>>
  PROVE  Moves'
<1>1. /\ Unmoved(Stream) /\ notifier.at # "determineMoveType" /\ (Renames => NoEnd(Stream))
      /\ Stream \in Seq(Told)
  BY CaughtMoves, Caught
<1>2. \A y : Has(Stream', y) => Has(Stream, y) \/ y \in Milds
  BY <1>1, HasLonger
<1>3. \A y \in Milds : y.type \notin {"moved_from", "moved_to"} /\ ~Ending(y)
  BY Tokens DEF Mild, Ending
<1>4. Unmoved(Stream')
  BY <1>1, <1>2, <1>3 DEF Unmoved
<1>5. Renames => OneEnd(Stream')
  BY <1>1, <1>2, <1>3, NoEndOne DEF NoEnd
<1>6. QED
  BY <1>1, <1>4, <1>5, MovesNone DEF Renames

LEMMA MovesKept ==
  ASSUME Moves, Stream' = Stream, Work' = Work, err' \in {err, "EAGAIN"},
         UNCHANGED <<env, notifier, told, watch, disk, perm, info>>
  PROVE  Moves'
<1>1. \A p : Expected(p)' <=> Expected(p)
  BY DEF Expected, Bound
<1>2. \A p, x : Follows(p, x)' <=> Follows(p, x)
  BY <1>1 DEF Follows
<1>3. \A p : Landed(p)' <=> Landed(p)
  BY DEF Landed
<1>4. Renames' <=> Renames
  BY DEF Renames
<1>5. err = "EAGAIN" => err' = "EAGAIN"
  OBVIOUS
<1>6. QED
  BY <1>2, <1>3, <1>4, <1>5 DEF Moves

LEMMA MovesReceiver ==
  ASSUME Typed, Typed', Sound, Sound', Noticing, Receiver
  PROVE  Moves'
<1>1. ~Renames /\ env' = env /\ notifier' = notifier /\ notifier.at = "runOnce"
  BY ReceiverCaught
<1>2. \A y : Has(Stream', y) => Foreign(y)
  BY ReceiverStream
<1>3. \A y : Foreign(y) => y.type \notin {"moved_from", "moved_to"}
  BY Tokens DEF Foreign, Mild, Veiled
<1>4. Unmoved(Stream')
  BY <1>2, <1>3 DEF Unmoved
<1>5. QED
  BY <1>1, <1>4, MovesNone DEF Renames

LEMMA MovesSender ==
  ASSUME Typed, Typed', Sound, Sound', Noticing, Sender
  PROVE  Moves'
  BY SenderFrame, SenderStream, MovesQuiet

\* After a first event that is not of a move there is none.
LEMMA NoMoveAfter ==
  ASSUME Moves, Stream \in Seq(Told), Stream # <<>>, Stream[1].type # "moved_from"
  PROVE  Unmoved(Tail(Stream))
<1>1. /\ Tail(Stream) \in Seq(Told) /\ Len(Stream) \in Nat \ {0} /\ Len(Tail(Stream)) = Len(Stream) - 1
      /\ \A j \in 1 .. Len(Stream) - 1 : Tail(Stream)[j] = Stream[j + 1] /\ j + 1 \in 1 .. Len(Stream)
  BY TailTold
<1>2. SUFFICES ASSUME NEW j \in 1 .. Len(Tail(Stream)),
                      Tail(Stream)[j].type \in {"moved_from", "moved_to"}
               PROVE  FALSE
  BY DEF Unmoved, Has
<1>3. j \in 1 .. Len(Stream) - 1
  BY <1>1
<1>4. Stream[j + 1].type \in {"moved_from", "moved_to"} /\ j + 1 \in 1 .. Len(Stream) /\ j + 1 # 1
  BY <1>1, <1>2, <1>3
<1>5. QED
  BY <1>4 DEF Moves

LEMMA MovesNotifier ==
  ASSUME Typed, Typed', Sound, Sound', Noticing, ~Doomed, Notifier
  PROVE  Moves'
<1>1. Moves
  BY DEF Noticing
<1>2. CASE Poll
  <2>1. /\ Stream' = Stream /\ err' = "EAGAIN" /\ sender' = sender /\ queue' = queue
        /\ UNCHANGED <<env, notifier, told, watch, disk, perm, info>>
    BY <1>2, PollStream DEF Poll, bounds, folderVars, notifierVars
  <2>2. QED
    BY <1>1, <2>1, WorkSame, MovesKept
<1>3. CASE Read
  <2>1. /\ Stream' = Stream /\ err' = err /\ sender' = sender /\ queue' = queue
        /\ UNCHANGED <<env, notifier, told, watch, disk, perm, info>>
    BY <1>3, ReadStream DEF Read, bounds, folderVars
  <2>2. QED
    BY <1>1, <2>1, WorkSame, MovesKept
<1>4. CASE RunOnce
  <2>1. /\ UNCHANGED <<env, disk, made, data, used, kernel, perm, sender, receiver, user, told>>
        /\ Stream \in Seq(Told) /\ Stream # <<>> /\ notifier.at = "runOnce"
    BY <1>4, RunOnceCases DEF NotifierFrame
  <2>2. Renames' <=> Renames
    BY <2>1 DEF Renames
  <2>3. Renames => OneEnd(Stream) /\ OneEnd(Tail(Stream))
    BY <1>1, <2>1, OneEndTail DEF Moves, OneEnd
  <2>4. ASSUME Stream[1].type # "moved_from", Stream' = Tail(Stream), notifier' = notifier
        PROVE  Moves'
    BY <1>1, <2>1, <2>2, <2>3, <2>4, NoMoveAfter, MovesNone
  <2>5. CASE RunsQuiet
    <3>1. Stream[1].type # "moved_from"
      BY <2>5, QuietUnnamed DEF RunsQuiet, Mild
    <3>2. QED
      BY <2>4, <2>5, <3>1 DEF RunsQuiet
  <2>6. CASE RunsModify
    <3>1. Stream[1].type = "modify" /\ Stream' = Stream /\ notifier'.at = "catchAllEvents"
      BY <2>6 DEF RunsModify, Modified
    <3>2. Unmoved(Tail(Stream))
      BY <1>1, <2>1, <3>1, NoMoveAfter
    <3>3. Unmoved(Stream)
      BY <2>1, <3>1, <3>2, TailTold DEF Unmoved
    <3>4. QED
      BY <2>2, <2>3, <3>1, <3>3, MovesNone
  <2>7. ASSUME NEW p \in Files, RunsCreate(p) \/ RunsDelete(p) \/ RunsMovedTo(p)
        PROVE  Moves'
    <3>1. Stream[1].type # "moved_from" /\ Stream' = Tail(Stream) /\ notifier' = notifier
      BY <2>7 DEF RunsCreate, RunsDelete, RunsMovedTo
    <3>2. QED
      BY <2>4, <3>1
  <2>8. ASSUME NEW p \in Files, RunsMovedFrom(p)
        PROVE  Moves'
    <3> DEFINE s == Stream
    <3>1. /\ s[1] = [type |-> "moved_from", path |-> p] /\ Stream' = Tail(s)
          /\ notifier' = [at |-> "determineMoveType", path |-> p, to |-> None]
          /\ UNCHANGED <<queue, info, err, watch>>
      BY <2>8 DEF RunsMovedFrom
    <3>2. 1 \in 1 .. Len(s)
      BY <2>1, HasFirst
    <3>3. Renames /\ Len(s) >= 2 /\ err = "EAGAIN" /\ Follows(p, s[2])
      BY <1>1, <3>1, <3>2 DEF Moves
    <3>4. Work' = Work
      BY <2>1, <3>1, WorkSame
    <3>5. \A q : Expected(q)' <=> Expected(q)
      BY <2>1, <3>4 DEF Expected, Bound
    <3>6. \A q, x : Follows(q, x)' <=> Follows(q, x)
      BY <2>1, <3>1, <3>5 DEF Follows
    <3>7. \A q : Landed(q)' <=> Landed(q)
      BY <2>1, <3>1 DEF Landed
    <3>8. /\ Tail(s) \in Seq(Told) /\ Len(s) \in Nat \ {0} /\ Len(Tail(s)) = Len(s) - 1
          /\ \A j \in 1 .. Len(s) - 1 : Tail(s)[j] = s[j + 1] /\ j + 1 \in 1 .. Len(s)
      BY <2>1, TailTold
    <3>9. 1 \in 1 .. Len(s) - 1 /\ Stream'[1] = s[2] /\ Stream' # <<>>
      <4>1. 1 \in 1 .. Len(s) - 1
        BY <3>3, <3>8
      <4>2. Tail(s)[1] = s[1 + 1]
        BY <3>8, <4>1
      <4>3. Tail(s) # <<>>
        <5> DEFINE t == Tail(s)
        <5>1. Len(t) # 0
          BY <3>8, <4>1
        <5> HIDE DEF t
        <5>2. t # <<>>
          BY <5>1
        <5>3. QED
          BY <5>2 DEF t
      <4>4. QED
        BY <3>1, <4>1, <4>2, <4>3
    <3>10. ASSUME NEW j \in 1 .. Len(Stream')
           PROVE  /\ j \in 1 .. Len(s) - 1 /\ Stream'[j] = s[j + 1] /\ j + 1 \in 1 .. Len(s)
                  /\ ~Ending(Stream'[j])
                  /\ Stream'[j].type = "moved_to" => Landed(Stream'[j].path) /\ j = 1
      <4>1. j \in 1 .. Len(s) - 1 /\ j + 1 # 1
        BY <3>1, <3>8
      <4>2. Stream'[j] = s[j + 1] /\ j + 1 \in 1 .. Len(s)
        BY <3>1, <3>8, <4>1
      <4>3. ~Ending(s[j + 1])
        <5>1. Ending(s[1])
          BY <3>1 DEF Ending
        <5>2. QED
          BY <2>3, <3>2, <3>3, <4>1, <4>2, <5>1 DEF OneEnd
      <4>4. s[j + 1].type = "moved_to" => Landed(s[j + 1].path) /\ j + 1 = 2
        BY <1>1, <4>1, <4>2 DEF Moves
      <4>5. QED
        BY <3>8, <4>1, <4>2, <4>3, <4>4
    <3>11. /\ notifier'.at = "determineMoveType" /\ notifier'.path = p /\ notifier'.to = None
           /\ err' = "EAGAIN" /\ Renames'
      BY <2>2, <3>1, <3>3
    <3>12. \A j \in 1 .. Len(Stream') : Stream'[j].type # "moved_from"
      BY <3>10 DEF Ending
    <3>13. (\A j \in 1 .. Len(Stream) : Stream[j].type = "moved_to" =>
              Renames /\ Landed(Stream[j].path) /\ j = 1)'
      BY <2>1, <3>1, <3>10, <3>11 DEF Landed
    <3>14. Follows(p, Stream[1])'
      BY <2>1, <3>1, <3>3, <3>4, <3>9 DEF Follows, Expected, Bound
    <3>15. QED
      BY <3>9, <3>10, <3>11, <3>12, <3>13, <3>14 DEF Moves
  <2>9. QED
    BY <1>4, <2>5, <2>6, <2>7, <2>8, RunOnceCases
<1>5. CASE CatchAllEvents
  <2>1. /\ env' = env /\ Stream \in Seq(Told) /\ Stream # <<>> /\ notifier.at = "catchAllEvents"
        /\ Stream[1] = Modified /\ Len(Stream) >= 2
        /\ CatchesOn \/ CatchesLast
    BY <1>5, CatchCases DEF NotifierFrame
  <2>2. Renames' <=> Renames
    BY <2>1 DEF Renames
  <2> DEFINE t == Tail(Stream)
  <2>3. /\ Unmoved(t) /\ t \in Seq(Told) /\ (Renames => OneEnd(t))
        /\ Len(Stream) \in Nat /\ Len(t) = Len(Stream) - 1
    <3>1. Unmoved(t)
      BY <1>1, <2>1, NoMoveAfter DEF Modified
    <3>2. t \in Seq(Told) /\ Len(Stream) \in Nat /\ Len(t) = Len(Stream) - 1
      BY <2>1, TailTold
    <3>3. Renames => OneEnd(Stream)
      BY <1>1 DEF Moves, OneEnd
    <3>4. Renames => OneEnd(t)
      BY <2>1, <3>3, OneEndTail
    <3>5. QED
      BY <3>1, <3>2, <3>4
  <2>4. CASE CatchesOn
    BY <2>1, <2>2, <2>3, <2>4, MovesNone DEF CatchesOn
  <2>5. CASE CatchesLast
    <3>1. Stream' = Tail(t) /\ notifier'.at = "runOnce"
      BY <2>5 DEF CatchesLast, Idle
    <3>2. Len(t) # 0
      BY <2>1, <2>3
    <3> HIDE DEF t
    <3>3. t # <<>>
      BY <3>2
    <3>4. Unmoved(Tail(t)) /\ (Renames => OneEnd(Tail(t)))
      BY <2>3, <3>3, TailTold, OneEndTail DEF Unmoved
    <3>5. QED
      BY <2>2, <3>1, <3>4, MovesNone
  <2>6. QED
    BY <2>1, <2>4, <2>5
<1>6. CASE DetermineMoveType
  <2>1. /\ env' = env /\ Stream \in Seq(Told) /\ Stream # <<>> /\ notifier.at = "determineMoveType"
        /\ Stream' = Tail(Stream) /\ notifier' = Idle
    BY <1>6, DetermineCases DEF NotifierFrame
  <2>2. Renames' <=> Renames
    BY <2>1 DEF Renames
  <2>3. Stream[1].type # "moved_from"
    BY <1>1, <2>1 DEF Moves, Follows
  <2>4. Unmoved(Tail(Stream)) /\ (Renames => OneEnd(Tail(Stream)))
    BY <1>1, <2>1, <2>3, NoMoveAfter, OneEndTail DEF Moves, OneEnd
  <2>5. QED
    BY <2>1, <2>2, <2>4, MovesNone DEF Idle
<1>7. QED
  BY <1>2, <1>3, <1>4, <1>5, <1>6 DEF Notifier

LEMMA FirstJoined ==
  ASSUME NEW s, NEW x \in Told, Joined(<<>>, s, x)
  PROVE  s \in Seq(Told) /\ Len(s) = 1 /\ s[1] = x /\ s # <<>>
<1>1. s = Append(<<>>, x)
  BY DEF Joined
<1> DEFINE e == <<>>
<1>2. e \in Seq(Told) /\ Len(e) = 0
  OBVIOUS
<1>3. s = Append(e, x)
  BY <1>1
<1> HIDE DEF e
<1>4. s \in Seq(Told) /\ Len(s) = Len(e) + 1 /\ s[Len(e) + 1] = x
  BY <1>2, <1>3, AppendProperties
<1>5. s # <<>>
  BY <1>2, <1>4
<1>6. QED
  BY <1>2, <1>4, <1>5

LEMMA NextJoined ==
  ASSUME NEW s \in Seq(Told), s # <<>>, NEW t, NEW x \in Told, Joined(s, t, x), s[Len(s)] # x
  PROVE  /\ t \in Seq(Told) /\ Len(s) \in Nat /\ Len(t) = Len(s) + 1 /\ t[Len(s) + 1] = x
         /\ \A i \in 1 .. Len(s) : t[i] = s[i]
<1>1. t = Append(s, x)
  BY DEF Joined
<1>2. QED
  BY <1>1, AppendProperties

\* An event that tells of no name may follow.
LEMMA QuietAfter ==
  ASSUME NEW s \in Seq(Told), NEW t, t = s \/ Joined(s, t, Quiet("other"))
  PROVE  t \in Seq(Told) /\ Longer(s, t, {Quiet("other")})
<1>1. Quiet("other") \in Told
  BY Tokens DEF Mild
<1>2. QED
  BY <1>1, LongerSame, JoinedLonger

LEMMA QueuedRequested ==
  ASSUME Typed, NEW p, Queued(p)
  PROVE  Requested("NEW_FILE", p)
<1>1. CASE sender.at \in {"idle", "gone"}
  BY <1>1 DEF Queued, Requested, Work
<1>2. CASE sender.at \notin {"idle", "gone"}
  <2>1. Work # <<>> /\ Tail(Work) = queue /\ Work \in Seq(Requests)
    BY <1>2, WorkFirst, WorkTyped
  <2>2. /\ Len(Work) \in Nat \ {0} /\ Len(Tail(Work)) = Len(Work) - 1
        /\ \A j \in 1 .. Len(Work) - 1 : Tail(Work)[j] = Work[j + 1]
    BY <2>1, EmptySeq, HeadTailProperties
  <2>3. PICK j \in 1 .. Len(queue) : queue[j].op = "NEW_FILE" /\ queue[j].path = p
    BY DEF Queued
  <2>4. j \in 1 .. Len(Work) - 1
    BY <2>1, <2>2, <2>3
  <2>5. j + 1 \in 1 .. Len(Work) /\ Work[j + 1] = queue[j]
    BY <2>1, <2>2, <2>4
  <2>6. QED
    BY <2>3, <2>5 DEF Requested
<1>3. QED
  BY <1>1, <1>2

\* Of a renaming user's names.
LEMMA RenamesCaught ==
  ASSUME Typed, Sound, Noticing, CaughtUp, Renames, user.path = None
  PROVE  /\ Stream = <<>> /\ err = "EAGAIN" /\ ~env.lag /\ Present = {} /\ env.remote = {}
         /\ Mine = env.files /\ used \subseteq Mine
         /\ \A p \in Files : disk[p] # 0 => p \in Mine /\ p \in used
         /\ \A q \in Files : Free(q) => /\ q \in Mine /\ q \notin used /\ disk[q] = 0 /\ info[q] = "unknown"
                                        /\ q \notin perm
         /\ \A p : ~Unhandled("create", p) /\ ~Unhandled("moved_to", p)
         /\ \A p \in Files : disk[p] # 0 => Queued(p) \/ watch[disk[p]] # None
<1>1. /\ ~env.lag /\ Present = {} /\ env.remote = {} /\ "again" \notin env.ops
      /\ Stream = <<>> /\ err = "EAGAIN"
  BY Caught, Classes
<1>2. Mine = env.files
  BY <1>1 DEF Mine
<1>3. /\ used \subseteq env.files /\ perm \subseteq used
      /\ \A p \in Files : disk[p] # 0 \/ info[p] # "unknown" => p \in used
  BY DEF Noticing, Traced
<1>4. \A p : ~Unhandled("create", p) /\ ~Unhandled("moved_to", p)
  BY <1>1, EmptyHas DEF Unhandled
<1>5. \A p \in Files : disk[p] # 0 => Queued(p) \/ watch[disk[p]] # None
  BY <1>1, <1>4 DEF Noticing, AllWatched, Watched
<1>6. \A q \in Files : Free(q) => q \in Mine /\ q \notin used
  BY <1>1, <1>2 DEF Free
<1>7. QED
  BY <1>1, <1>2, <1>3, <1>4, <1>5, <1>6

LEMMA DoomedBy ==
  ASSUME Typed, NEW p \in Mine, p \in used', disk'[p] = 0, Requested("NEW_FILE", p), Work' = Work, Mine' = Mine
  PROVE  Doomed'
  BY DEF Doomed, Requested

LEMMA MovesUser ==
  ASSUME Typed, Typed', Sound, Sound', Opened, Noticing, User
  PROVE  Moves' \/ Doomed'
<1>1. /\ UNCHANGED <<env, events, notifier, watch, err, info, queue, perm, ignored, sender,
                        receiver, told>>
      /\ CaughtUp /\ Stream \in Seq(Told) /\ Work' = Work /\ Mine' = Mine
  BY UserCaught
<1>2. /\ Unmoved(Stream) /\ notifier.at # "determineMoveType"
      /\ Renames => NoEnd(Stream)
  BY <1>1, CaughtMoves
<1>3. (Renames' <=> Renames) /\ notifier'.at # "determineMoveType"
  BY <1>1, <1>2 DEF Renames
<1>4. Quiet("other") \in Told /\ Quiet("open") \in Told /\ Quiet("other").type = "other"
      /\ Quiet("open").type = "open" /\ ~Ending(Quiet("other")) /\ ~Ending(Quiet("open"))
  BY Tokens DEF Mild, Ending
<1>5. CASE (\E p \in Files : UserOpen(p)) \/ UserWrite \/ UserClose
  BY <1>1, <1>5, EditStream, MovesQuiet
<1>6. ASSUME NEW p \in Files, UserCreate(p)
      PROVE  Moves'
  <2> DEFINE x == [type |-> "create", path |-> p]
  <2>1. x \in Told /\ ~Ending(x) /\ x.type = "create"
    BY NameTokens DEF Ending, Kinds
  <2>2. PICK s \in Seq(Told) : Joined(Stream, s, x) /\ Joined(s, Stream', Quiet("open"))
    BY <1>6, CreateStream
  <2> HIDE DEF x
  <2>3. \A y : Has(s, y) <=> Has(Stream, y) \/ y = x
    BY <1>1, <2>1, <2>2, HasJoined
  <2>4. \A y : Has(Stream', y) <=> Has(s, y) \/ y = Quiet("open")
    BY <1>4, <2>2, HasJoined
  <2>5. Unmoved(Stream')
    BY <1>2, <1>4, <2>1, <2>3, <2>4 DEF Unmoved
  <2>6. Renames => OneEnd(Stream')
    BY <1>2, <1>4, <2>1, <2>3, <2>4, NoEndOne DEF NoEnd
  <2>7. QED
    BY <1>3, <2>5, <2>6, MovesNone
<1>7. ASSUME NEW p \in Files, UserRemove(p)
      PROVE  Moves'
  <2> DEFINE x == [type |-> "delete", path |-> p]
  <2>1. x \in Told /\ x.type = "delete"
    BY NameTokens DEF Kinds
  <2>2. PICK s \in Seq(Told), t \in Seq(Told) :
               /\ s = Stream \/ Joined(Stream, s, Quiet("other"))
               /\ Joined(s, t, x)
               /\ t = Stream' \/ Joined(t, Stream', Quiet("other"))
    BY <1>7, RemoveStream
  <2> HIDE DEF x
  <2>3. Unmoved(s) /\ (Renames => NoEnd(s))
    <3>1. CASE s = Stream
      BY <1>2, <3>1
    <3>2. CASE Joined(Stream, s, Quiet("other"))
      <4>1. \A y : Has(s, y) <=> Has(Stream, y) \/ y = Quiet("other")
        BY <1>1, <1>4, <3>2, HasJoined
      <4>2. QED
        BY <1>2, <1>4, <4>1 DEF Unmoved, NoEnd
    <3>3. QED
      BY <2>2, <3>1, <3>2
  <2>4. Unmoved(t) /\ (Renames => OneEnd(t))
    <3>1. \A y : Has(t, y) <=> Has(s, y) \/ y = x
      BY <2>1, <2>2, HasJoined
    <3>2. Renames => OneEnd(t)
      BY <2>1, <2>2, <2>3, EndJoined
    <3>3. QED
      BY <2>1, <2>3, <3>1, <3>2 DEF Unmoved
  <2>5. Unmoved(Stream') /\ (Renames => OneEnd(Stream'))
    <3>1. CASE t = Stream'
      BY <2>4, <3>1
    <3>2. CASE Joined(t, Stream', Quiet("other"))
      <4>1. \A y : Has(Stream', y) <=> Has(t, y) \/ y = Quiet("other")
        BY <1>4, <3>2, HasJoined
      <4>2. Renames => OneEnd(Stream')
        BY <1>4, <2>4, <3>2, EndJoined
      <4>3. QED
        BY <1>4, <2>4, <4>1, <4>2 DEF Unmoved
    <3>3. QED
      BY <2>2, <3>1, <3>2
  <2>6. QED
    BY <1>3, <2>5, MovesNone
<1>8. ASSUME NEW q \in Files, UserMoveIn(q)
      PROVE  Moves'
  <2>1. /\ Renames /\ user.path = None /\ Free(q) /\ made < MaxInode
        /\ disk' = [disk EXCEPT ![q] = made + 1]
    BY <1>8 DEF UserMoveIn, Edits, Renames
  <2>2. Stream = <<>> /\ info[q] = "unknown" /\ q \notin perm
    BY <1>1, <2>1, RenamesCaught
  <2>3. disk'[q] # 0
    BY <2>1, FilesNames DEF Typed, Folder
  <2> DEFINE x == [type |-> "moved_to", path |-> q]
  <2>4. x \in Told /\ x.type = "moved_to" /\ x.path = q
    BY NameTokens DEF Kinds
  <2>5. PICK s \in Seq(Told) : Joined(<<>>, s, x) /\ (s = Stream' \/ Joined(s, Stream', Quiet("other")))
    BY <1>8, <2>2, MoveInStream
  <2> HIDE DEF x
  <2>6. Len(s) = 1 /\ s[1] = x /\ s # <<>>
    BY <2>4, <2>5, FirstJoined
  <2>7. Longer(s, Stream', {Quiet("other")}) /\ Stream' \in Seq(Told)
    BY <2>5, QuietAfter
  <2>8. /\ \A j \in 1 .. Len(Stream') : (Stream'[j] = x /\ j = 1) \/ Stream'[j] = Quiet("other")
    BY <2>6, <2>7 DEF Longer
  <2>9. \A j \in 1 .. Len(Stream') : ~Ending(Stream'[j]) /\ Stream'[j].type # "moved_from"
          /\ (Stream'[j].type = "moved_to" => j = 1 /\ Stream'[j].path = q)
    BY <1>4, <2>4, <2>8 DEF Ending
  <2>10. (\A j \in 1 .. Len(Stream) : Stream[j].type = "moved_to" =>
             Renames /\ Landed(Stream[j].path) /\ j = 1)'
    BY <1>1, <1>3, <2>1, <2>2, <2>3, <2>9 DEF Landed
  <2>11. QED
    BY <1>3, <2>9, <2>10 DEF Moves
<1>9. ASSUME NEW p \in Files, UserMoveOut(p)
      PROVE  Moves' \/ Doomed'
  <2>1. Renames /\ user.path = None /\ disk[p] # 0 /\ disk' = [disk EXCEPT ![p] = 0] /\ used' = used
    BY <1>9 DEF UserMoveOut, Edits, Renames
  <2>2. /\ Stream = <<>> /\ err = "EAGAIN" /\ p \in Mine /\ p \in used
        /\ Queued(p) \/ watch[disk[p]] # None
    BY <1>1, <2>1, RenamesCaught
  <2>3. disk'[p] = 0
    BY <2>1, FilesNames DEF Typed, Folder
  <2>4. Queued(p) => Doomed'
    BY <1>1, <2>1, <2>2, <2>3, QueuedRequested, DoomedBy
  <2> DEFINE x == [type |-> "moved_from", path |-> p]
  <2>5. x \in Told /\ x.type = "moved_from" /\ x.path = p
    BY NameTokens DEF Kinds
  <2>6. PICK s \in Seq(Told) : /\ Joined(<<>>, s, x)
                               /\ \/ s = Stream' /\ (disk[p] = 0 \/ watch[disk[p]] = None)
                                  \/ Joined(s, Stream', Quiet("other"))
    BY <1>9, <2>2, MoveOutStream
  <2> HIDE DEF x
  <2>7. s \in Seq(Told) /\ Len(s) = 1 /\ s[1] = x /\ s # <<>>
    BY <2>5, <2>6, FirstJoined
  <2>8. CASE Joined(s, Stream', Quiet("other"))
    <3>1. Len(Stream') = 2 /\ Stream'[1] = x /\ Stream'[2] = Quiet("other")
      <4>1. s[Len(s)] # Quiet("other")
        BY <1>4, <2>5, <2>7
      <4>2. /\ Len(Stream') = Len(s) + 1 /\ Stream'[Len(s) + 1] = Quiet("other")
            /\ \A i \in 1 .. Len(s) : Stream'[i] = s[i]
        BY <1>4, <2>7, <2>8, <4>1, NextJoined
      <4>3. QED
        BY <2>7, <4>2
    <3>2. \A j \in 1 .. Len(Stream') : (Stream'[j] = x /\ j = 1) \/ Stream'[j] = Quiet("other")
      BY <3>1
    <3>3. \A j \in 1 .. Len(Stream') : /\ Stream'[j].type # "moved_to"
                                       /\ Ending(Stream'[j]) => j = 1
      BY <1>4, <2>5, <3>2 DEF Ending
    <3>4. Follows(Stream[1].path, Stream[2])'
      BY <1>4, <3>1 DEF Follows
    <3>5. \A j \in 1 .. Len(Stream') : Stream'[j].type = "moved_from" => j = 1
      BY <3>3 DEF Ending
    <3>6. Len(Stream') >= 2 /\ err' = "EAGAIN"
      BY <1>1, <2>2, <3>1
    <3>7. QED
      BY <1>3, <2>1, <3>3, <3>4, <3>5, <3>6 DEF Moves
  <2>9. QED
    BY <2>2, <2>1, <2>4, <2>6, <2>8
<1>10. ASSUME NEW p \in Files, NEW q \in Files, UserMove(p, q)
      PROVE  Moves' \/ Doomed'
  <2>1. /\ Renames /\ user.path = None /\ disk[p] # 0 /\ Free(q) /\ p # q
        /\ disk' = [disk EXCEPT ![q] = disk[p], ![p] = 0] /\ used' = used \cup {q}
    BY <1>10 DEF UserMove, Edits, Renames
  <2>2. /\ Stream = <<>> /\ err = "EAGAIN" /\ p \in Mine /\ p \in used
        /\ Queued(p) \/ watch[disk[p]] # None
        /\ info[q] = "unknown" /\ q \notin perm
        /\ ~Unhandled("create", p) /\ ~Unhandled("moved_to", p)
    BY <1>1, <2>1, RenamesCaught
  <2>3. disk'[p] = 0 /\ disk'[q] = disk[p]
    BY <2>1, FilesNames DEF Typed, Folder
  <2>4. Requested("NEW_FILE", p) => Doomed'
    BY <1>1, <2>1, <2>2, <2>3, DoomedBy
  <2>5. SUFFICES ASSUME ~Doomed' PROVE Moves'
    OBVIOUS
  <2>6. watch[disk[p]] # None
    BY <2>2, <2>4, <2>5, QueuedRequested
  <2>7. Expected(p)
    BY <2>1, <2>2, <2>4, <2>5 DEF Noticing, Accounted, Born, Expected
  <2> DEFINE x == [type |-> "moved_from", path |-> p]
             y == [type |-> "moved_to", path |-> q]
  <2>8. x \in Told /\ x.type = "moved_from" /\ x.path = p /\ y \in Told /\ y.type = "moved_to" /\ y.path = q
    BY NameTokens DEF Kinds
  <2>9. PICK s \in Seq(Told), t \in Seq(Told), u \in Seq(Told) :
               /\ Joined(<<>>, s, x) /\ Joined(s, t, y)
               /\ u = t \/ Joined(t, u, Quiet("other"))
               /\ u = Stream' \/ Joined(u, Stream', Quiet("other"))
    BY <1>10, <2>2, MoveStream
  <2> HIDE DEF x, y
  <2>10. s \in Seq(Told) /\ Len(s) = 1 /\ s[1] = x /\ s # <<>>
    BY <2>8, <2>9, FirstJoined
  <2>11. Len(t) = 2 /\ t[1] = x /\ t[2] = y
    <3>1. s[Len(s)] # y
      BY <2>8, <2>10
    <3>2. /\ Len(t) = Len(s) + 1 /\ t[Len(s) + 1] = y
          /\ \A i \in 1 .. Len(s) : t[i] = s[i]
      <4>1. Joined(s, t, y) /\ y \in Told /\ s \in Seq(Told) /\ s # <<>>
        BY <2>8, <2>9, <2>10
      <4>2. QED
        BY <3>1, <4>1, NextJoined
    <3>3. QED
      BY <2>10, <3>2
  <2>12. Longer(t, Stream', {Quiet("other")})
    <3>1. Longer(t, u, {Quiet("other")}) /\ Longer(u, Stream', {Quiet("other")})
          /\ Stream' \in Seq(Told)
      BY <2>9, QuietAfter
    <3>2. QED
      BY <2>9, <3>1, LongerTrans
  <2>13. Len(Stream') >= 2 /\ Stream'[1] = x /\ Stream'[2] = y
    BY <2>11, <2>12 DEF Longer
  <2>14. \A j \in 1 .. Len(Stream') : \/ Stream'[j] = x /\ j = 1
                                      \/ Stream'[j] = y /\ j = 2
                                      \/ Stream'[j] = Quiet("other")
    BY <2>11, <2>12 DEF Longer
  <2>15. \A j \in 1 .. Len(Stream') : /\ Ending(Stream'[j]) => j = 1
                                      /\ Stream'[j].type = "moved_from" => j = 1
                                      /\ Stream'[j].type = "moved_to" => j = 2 /\ Stream'[j].path = q
    BY <1>4, <2>8, <2>14 DEF Ending
  <2>16. Follows(Stream[1].path, Stream[2])'
    BY <1>1, <2>1, <2>3, <2>6, <2>7, <2>8, <2>13 DEF Follows, Expected, Bound
  <2>17. (\A j \in 1 .. Len(Stream) : Stream[j].type = "moved_to" =>
             Renames /\ Landed(Stream[j].path) /\ j = 2 /\ Stream[1].type = "moved_from")'
    BY <1>1, <1>3, <2>1, <2>2, <2>3, <2>8, <2>13, <2>15 DEF Landed
  <2>18. err' = "EAGAIN"
    BY <1>1, <2>2
  <2>19. QED
    BY <1>3, <2>1, <2>13, <2>15, <2>16, <2>17, <2>18 DEF Moves
<1>11. QED
  BY <1>5, <1>6, <1>7, <1>8, <1>9, <1>10 DEF User

-----------------------------------------------------------------------------
(* What is known of a name *)

Kept(p) == \A t \in {"create", "delete", "moved_from", "moved_to"} :
              Unhandled(t, p)' <=> Unhandled(t, p)

LEMMA JoinedHas ==
  ASSUME NEW s \in Seq(Told), NEW t, NEW x \in Told, Joined(s, t, x)
  PROVE  Has(t, x) /\ \A y : y # x => (Has(t, y) <=> Has(s, y))
  BY HasJoined

\* The user's new tokens.
LEMMA UserNews ==
  ASSUME Typed, Sound, Noticing, User
  PROVE  /\ (\E p \in Files : UserOpen(p)) \/ UserWrite \/ UserClose =>
                \A y : y \notin Milds => (Has(Stream', y) <=> Has(Stream, y))
         /\ \A p \in Files : UserCreate(p) =>
                \A y : y \notin Milds =>
                    (Has(Stream', y) <=> Has(Stream, y) \/ y = [type |-> "create", path |-> p])
         /\ \A p \in Files : UserRemove(p) =>
                \A y : y \notin Milds =>
                    (Has(Stream', y) <=> Has(Stream, y) \/ y = [type |-> "delete", path |-> p])
         /\ \A p \in Files : UserMoveIn(p) =>
                \A y : y \notin Milds =>
                    (Has(Stream', y) <=> Has(Stream, y) \/ y = [type |-> "moved_to", path |-> p])
         /\ \A p \in Files : UserMoveOut(p) =>
                \A y : y \notin Milds =>
                    (Has(Stream', y) <=> Has(Stream, y) \/ y = [type |-> "moved_from", path |-> p])
         /\ \A p, q \in Files : UserMove(p, q) =>
                \A y : y \notin Milds =>
                    (Has(Stream', y) <=> \/ Has(Stream, y) \/ y = [type |-> "moved_from", path |-> p]
                                         \/ y = [type |-> "moved_to", path |-> q])
<1>1. Stream \in Seq(Told)
  BY UserCaught
<1>2. /\ Quiet("other") \in Told /\ Quiet("other") \in Milds
      /\ Quiet("open") \in Told /\ Quiet("open") \in Milds
  BY Tokens DEF Mild
<1>3. ASSUME NEW s \in Seq(Told), NEW t, t = s \/ s = t \/ Joined(s, t, Quiet("other"))
      PROVE  \A y : y \notin Milds => (Has(t, y) <=> Has(s, y))
  <2>1. CASE t = s
    BY <2>1
  <2>2. CASE Joined(s, t, Quiet("other"))
    BY <1>2, <2>2, HasJoined
  <2>3. QED
    BY <1>3, <2>1, <2>2
<1>4. (\E p \in Files : UserOpen(p)) \/ UserWrite \/ UserClose =>
                \A y : y \notin Milds => (Has(Stream', y) <=> Has(Stream, y))
  <2>1. SUFFICES ASSUME (\E p \in Files : UserOpen(p)) \/ UserWrite \/ UserClose
                 PROVE  \A y : y \notin Milds => (Has(Stream', y) <=> Has(Stream, y))
    OBVIOUS
  <2>2. Stream' \in Seq(Told) /\ Longer(Stream, Stream', Milds)
    BY <2>1, EditStream
  <2>3. QED
    BY <1>1, <2>2, HasLonger
<1>5. ASSUME NEW p \in Files, UserCreate(p), NEW y, y \notin Milds
      PROVE  Has(Stream', y) <=> Has(Stream, y) \/ y = [type |-> "create", path |-> p]
  <2> DEFINE x == [type |-> "create", path |-> p]
  <2>1. x \in Told
    BY NameTokens DEF Kinds
  <2>2. PICK s \in Seq(Told) : Joined(Stream, s, x) /\ Joined(s, Stream', Quiet("open"))
    BY <1>5, CreateStream
  <2> HIDE DEF x
  <2>3. Has(s, y) <=> Has(Stream, y) \/ y = x
    BY <1>1, <2>1, <2>2, HasJoined
  <2>4. Has(Stream', y) <=> Has(s, y)
    BY <1>2, <1>5, <2>2, HasJoined
  <2>5. QED
    BY <2>3, <2>4 DEF x
<1>6. ASSUME NEW p \in Files, UserRemove(p), NEW y, y \notin Milds
      PROVE  Has(Stream', y) <=> Has(Stream, y) \/ y = [type |-> "delete", path |-> p]
  <2> DEFINE x == [type |-> "delete", path |-> p]
  <2>1. x \in Told
    BY NameTokens DEF Kinds
  <2>2. PICK s \in Seq(Told), t \in Seq(Told) :
               /\ s = Stream \/ Joined(Stream, s, Quiet("other"))
               /\ Joined(s, t, x)
               /\ t = Stream' \/ Joined(t, Stream', Quiet("other"))
    BY <1>6, RemoveStream
  <2> HIDE DEF x
  <2>3. Has(s, y) <=> Has(Stream, y)
    BY <1>1, <1>3, <1>6, <2>2
  <2>4. Has(t, y) <=> Has(s, y) \/ y = x
    BY <2>1, <2>2, HasJoined
  <2>5. Has(Stream', y) <=> Has(t, y)
    BY <1>3, <1>6, <2>2
  <2>6. QED
    BY <2>3, <2>4, <2>5 DEF x
<1>7. ASSUME NEW p \in Files, UserMoveIn(p), NEW y, y \notin Milds
      PROVE  Has(Stream', y) <=> Has(Stream, y) \/ y = [type |-> "moved_to", path |-> p]
  <2> DEFINE x == [type |-> "moved_to", path |-> p]
  <2>1. x \in Told
    BY NameTokens DEF Kinds
  <2>2. PICK s \in Seq(Told) : Joined(Stream, s, x) /\ (s = Stream' \/ Joined(s, Stream', Quiet("other")))
    BY <1>7, MoveInStream
  <2> HIDE DEF x
  <2>3. Has(s, y) <=> Has(Stream, y) \/ y = x
    BY <1>1, <2>1, <2>2, HasJoined
  <2>4. Has(Stream', y) <=> Has(s, y)
    BY <1>3, <1>7, <2>2
  <2>5. QED
    BY <2>3, <2>4 DEF x
<1>8. ASSUME NEW p \in Files, UserMoveOut(p), NEW y, y \notin Milds
      PROVE  Has(Stream', y) <=> Has(Stream, y) \/ y = [type |-> "moved_from", path |-> p]
  <2> DEFINE x == [type |-> "moved_from", path |-> p]
  <2>1. x \in Told
    BY NameTokens DEF Kinds
  <2>2. PICK s \in Seq(Told) : Joined(Stream, s, x) /\ (s = Stream' \/ Joined(s, Stream', Quiet("other")))
    BY <1>8, MoveOutStream
  <2> HIDE DEF x
  <2>3. Has(s, y) <=> Has(Stream, y) \/ y = x
    BY <1>1, <2>1, <2>2, HasJoined
  <2>4. Has(Stream', y) <=> Has(s, y)
    BY <1>3, <1>8, <2>2
  <2>5. QED
    BY <2>3, <2>4 DEF x
<1>9. ASSUME NEW p \in Files, NEW q \in Files, UserMove(p, q), NEW y, y \notin Milds
      PROVE  Has(Stream', y) <=> \/ Has(Stream, y) \/ y = [type |-> "moved_from", path |-> p]
                                 \/ y = [type |-> "moved_to", path |-> q]
  <2> DEFINE x == [type |-> "moved_from", path |-> p]
             z == [type |-> "moved_to", path |-> q]
  <2>1. x \in Told /\ z \in Told
    BY NameTokens DEF Kinds
  <2>2. PICK s \in Seq(Told), t \in Seq(Told), u \in Seq(Told) :
               /\ Joined(Stream, s, x) /\ Joined(s, t, z)
               /\ u = t \/ Joined(t, u, Quiet("other"))
               /\ u = Stream' \/ Joined(u, Stream', Quiet("other"))
    BY <1>9, MoveStream
  <2> HIDE DEF x, z
  <2>3. Has(s, y) <=> Has(Stream, y) \/ y = x
    BY <1>1, <2>1, <2>2, HasJoined
  <2>4. Has(t, y) <=> Has(s, y) \/ y = z
    BY <2>1, <2>2, HasJoined
  <2>5. Has(u, y) <=> Has(t, y)
    BY <1>3, <1>9, <2>2
  <2>6. Has(Stream', y) <=> Has(u, y)
    BY <1>3, <1>9, <2>2
  <2>7. QED
    BY <2>3, <2>4, <2>5, <2>6 DEF x, z
<1>10. QED
  BY <1>4, <1>5, <1>6, <1>7, <1>8, <1>9

LEMMA NamedMild ==
  ASSUME NEW t \in {"create", "delete", "moved_from", "moved_to"}, NEW p
  PROVE  [type |-> t, path |-> p] \notin Milds \cup {Veiled}
  BY DEF Milds, Mild, Veiled

\* The receiver does nothing to the user's own names.
LEMMA ReceiverNames ==
  ASSUME Typed, Sound, Receiver
  PROVE  /\ used' = used
         /\ \A p \in Mine : disk'[p] = disk[p] /\ told'[p] = told[p]
<1>1. Mine \subseteq Files /\ Mine \cap env.remote = {} /\ Hidden \notin Files /\ Files \subseteq Names
  BY MineFiles, FilesNames, NamesAssumption
<1>2. disk \in [Names -> 0 .. MaxInode] /\ told \in [Names -> Nat \cup {Missing}]
  BY DEF Typed, Folder, Threads
<1>3. receiver.at # "idle" => receiver.path \notin Mine
  BY <1>1 DEF Sound, Settled
<1>4. ASSUME NEW q \in Files, ReceiveNewFile(q) \/ ReceiveDeletion(q)
      PROVE  used' = used /\ \A p \in Mine : disk'[p] = disk[p] /\ told'[p] = told[p]
  <2>1. q \in env.remote /\ UNCHANGED <<disk, used>>
    BY <1>4 DEF ReceiveNewFile, ReceiveDeletion, Arrives, folderVars
  <2>2. \E n : told' = [told EXCEPT ![q] = n]
    BY <1>4 DEF ReceiveNewFile, ReceiveDeletion
  <2>3. QED
    BY <1>1, <1>2, <2>1, <2>2
<1>5. CASE ReceiverStep
  <2>1. used' = used /\ told' = told /\ receiver.at # "idle"
    BY <1>5 DEF ReceiverStep, OpenFile, WriteFile, CloseFile, Received, SetReceivedTime, Unlock,
                WatchReceived, DeleteFile, Goes, Receives, folderVars
  <2>2. disk' = disk \/ \E n : disk' = [disk EXCEPT ![receiver.path] = n]
    BY <1>5 DEF ReceiverStep, OpenFile, WriteFile, CloseFile, Received, SetReceivedTime, Unlock,
                WatchReceived, DeleteFile, folderVars
  <2>3. QED
    BY <1>1, <1>2, <1>3, <2>1, <2>2
<1>6. QED
  BY <1>4, <1>5 DEF Receiver

-----------------------------------------------------------------------------
(* Accounted *)

LEMMA AccountedFrame ==
  ASSUME Accounted, Mine' = Mine,
         \A p \in Mine : /\ disk'[p] = disk[p] /\ told'[p] = told[p] /\ (p \in used <=> p \in used')
                         /\ Died(p)' <=> Died(p)
                         /\ Born(p) => Born(p)'
                         /\ Bound(p)' => Bound(p) \/ disk[p] # 0
  PROVE  Accounted'
<1> SUFFICES ASSUME NEW p \in Mine
             PROVE  /\ Died(p)' => p \in used' /\ disk'[p] = 0
                    /\ disk'[p] # 0 => p \in used' /\ (told'[p] # Missing \/ Born(p)')
                    /\ disk'[p] = 0 /\ Expected(p)' => Died(p)'
  BY DEF Accounted
<1>1. Expected(p)' <=> told'[p] # Missing \/ Bound(p)'
  BY DEF Expected
<1>2. Expected(p) <=> told[p] # Missing \/ Bound(p)
  BY DEF Expected
<1>3. QED
  BY <1>1, <1>2 DEF Accounted

\* The same work and the same news.
LEMMA KeptNews ==
  ASSUME NEW p, Kept(p), notifier' = notifier, Work' = Work
  PROVE  (Died(p)' <=> Died(p)) /\ (Born(p)' <=> Born(p)) /\ (Bound(p)' <=> Bound(p))
<1>1. /\ Unhandled("create", p)' <=> Unhandled("create", p)
      /\ Unhandled("moved_to", p)' <=> Unhandled("moved_to", p)
      /\ Unhandled("delete", p)' <=> Unhandled("delete", p)
      /\ Unhandled("moved_from", p)' <=> Unhandled("moved_from", p)
  BY DEF Kept
<1>2. (\A op : Requested(op, p)' <=> Requested(op, p)) /\ (Bound(p)' <=> Bound(p))
  BY DEF Requested, Bound
<1>3. QED
  BY <1>1, <1>2 DEF Died, Dying, Born

LEMMA QuietNews ==
  ASSUME \A y : y \notin Milds => (Has(Stream', y) <=> Has(Stream, y)), NEW p
  PROVE  Kept(p)
  BY NamedMild DEF Kept, Unhandled

LEMMA AccountedReceiver ==
  ASSUME Typed, Typed', Sound, Sound', Noticing, Receiver
  PROVE  Accounted'
<1>1. /\ Stream = <<>> /\ notifier' = notifier /\ queue' = queue /\ sender' = sender /\ Mine' = Mine
  BY ReceiverCaught
<1>2. /\ used' = used
      /\ \A p \in Mine : disk'[p] = disk[p] /\ told'[p] = told[p]
  BY ReceiverNames
<1>3. \A y : Has(Stream', y) => Foreign(y)
  BY ReceiverStream
<1>4. Mine \cap env.remote = {}
  BY MineFiles
<1>5. ASSUME NEW p \in Mine PROVE Kept(p)
  <2>1. ASSUME NEW t \in {"create", "delete", "moved_from", "moved_to"}
        PROVE  ~Foreign([type |-> t, path |-> p])
    BY <1>4, NamedMild DEF Foreign
  <2>2. \A y : ~Has(Stream, y)
    BY <1>1, EmptyHas
  <2>3. QED
    BY <1>3, <2>1, <2>2 DEF Kept, Unhandled
<1>6. Work' = Work
  BY <1>1, WorkSame
<1>7. \A p \in Mine : (Died(p)' <=> Died(p)) /\ (Born(p)' <=> Born(p)) /\ (Bound(p)' <=> Bound(p))
  BY <1>1, <1>5, <1>6, KeptNews
<1>8. QED
  BY <1>1, <1>2, <1>7, AccountedFrame DEF Noticing

\* A step that makes the names of N and ends those of G.
LEMMA AccountedChange ==
  ASSUME Accounted, Mine' = Mine, Work' = Work, notifier' = notifier, told' = told, used \subseteq used',
         NEW N, NEW G,
         \A p \in Mine : p \notin N \cup G => Kept(p) /\ disk'[p] = disk[p],
         \A p \in Mine : p \in N =>
            /\ p \notin used /\ p \in used' /\ disk'[p] # 0
            /\ Unhandled("create", p)' \/ Unhandled("moved_to", p)'
            /\ Unhandled("delete", p)' <=> Unhandled("delete", p)
            /\ Unhandled("moved_from", p)' <=> Unhandled("moved_from", p),
         \A p \in Mine : p \in G =>
            /\ p \in used /\ disk'[p] = 0
            /\ Unhandled("delete", p)' \/ Unhandled("moved_from", p)'
  PROVE  Accounted'
<1> SUFFICES ASSUME NEW p \in Mine
             PROVE  /\ Died(p)' => p \in used' /\ disk'[p] = 0
                    /\ disk'[p] # 0 => p \in used' /\ (told'[p] # Missing \/ Born(p)')
                    /\ disk'[p] = 0 /\ Expected(p)' => Died(p)'
  BY DEF Accounted
<1>1. (\A op : Requested(op, p)' <=> Requested(op, p)) /\ (Bound(p)' <=> Bound(p))
  BY DEF Requested, Bound
<1>2. Expected(p)' <=> Expected(p)
  BY <1>1 DEF Expected
<1>3. CASE p \notin N \cup G
  BY <1>2, <1>3, KeptNews DEF Accounted
<1>4. CASE p \in N
  <2>1. Died(p)' <=> Died(p)
    BY <1>1, <1>4 DEF Died, Dying
  <2>2. Born(p)'
    BY <1>4 DEF Born
  <2>3. QED
    BY <1>4, <2>1, <2>2 DEF Accounted
<1>5. CASE p \in G
  <2>1. Died(p)'
    BY <1>5 DEF Died, Dying
  <2>2. QED
    BY <1>5, <2>1
<1>6. QED
  BY <1>3, <1>4, <1>5

LEMMA AccountedUser ==
  ASSUME Typed, Typed', Sound, Sound', Noticing, User
  PROVE  Accounted'
<1>1. /\ UNCHANGED <<env, notifier, told>> /\ CaughtUp /\ Work' = Work /\ Mine' = Mine
  BY UserCaught
<1>2. Mine \subseteq Files /\ Files \subseteq Names /\ Accounted
      /\ disk \in [Names -> 0 .. MaxInode] /\ made \in Nat /\ "again" \notin env.ops
  BY MineFiles, FilesNames, Classes DEF Typed, Folder, Noticing
<1>3. CASE (\E p \in Files : UserOpen(p)) \/ UserWrite \/ UserClose
  <2>1. UNCHANGED <<disk, used>>
    BY <1>3 DEF UserOpen, UserWrite, UserClose, folderVars
  <2>2. \A p : Kept(p)
    BY <1>3, UserNews, QuietNews
  <2> DEFINE N == {}
             G == {}
  <2>3. /\ \A r \in Mine : r \notin N \cup G => Kept(r) /\ disk'[r] = disk[r]
        /\ \A r \in Mine : r \in N =>
            /\ r \notin used /\ r \in used' /\ disk'[r] # 0
            /\ Unhandled("create", r)' \/ Unhandled("moved_to", r)'
            /\ Unhandled("delete", r)' <=> Unhandled("delete", r)
            /\ Unhandled("moved_from", r)' <=> Unhandled("moved_from", r)
        /\ \A r \in Mine : r \in G =>
            /\ r \in used /\ disk'[r] = 0
            /\ Unhandled("delete", r)' \/ Unhandled("moved_from", r)'
    BY <2>1, <2>2
  <2> HIDE DEF N, G
  <2>4. QED
    BY <1>1, <1>2, <2>1, <2>2, <2>3, AccountedChange
<1>4. ASSUME NEW p \in Files, UserCreate(p)
      PROVE  Accounted'
  <2>1. /\ used' = used \cup {p} /\ disk' = [disk EXCEPT ![p] = made + 1]
        /\ p \in Mine => p \notin used
    BY <1>2, <1>4 DEF UserCreate, Free
  <2>2. \A y : y \notin Milds =>
                    (Has(Stream', y) <=> Has(Stream, y) \/ y = [type |-> "create", path |-> p])
    BY <1>4, UserNews
  <2>3. \A q : q # p => Kept(q)
    BY <2>2, NamedMild DEF Kept, Unhandled
  <2>4. /\ Unhandled("create", p)'
        /\ Unhandled("delete", p)' <=> Unhandled("delete", p)
        /\ Unhandled("moved_from", p)' <=> Unhandled("moved_from", p)
    BY <2>2, NamedMild DEF Unhandled
  <2>5. \A q \in Mine : q # p => disk'[q] = disk[q]
    BY <1>2, <2>1
  <2>6. disk'[p] # 0 /\ p \in used' /\ used \subseteq used'
    BY <1>2, <2>1
  <2> DEFINE N == {p}
             G == {}
  <2>7. /\ \A r \in Mine : r \notin N \cup G => Kept(r) /\ disk'[r] = disk[r]
        /\ \A r \in Mine : r \in N =>
            /\ r \notin used /\ r \in used' /\ disk'[r] # 0
            /\ Unhandled("create", r)' \/ Unhandled("moved_to", r)'
            /\ Unhandled("delete", r)' <=> Unhandled("delete", r)
            /\ Unhandled("moved_from", r)' <=> Unhandled("moved_from", r)
        /\ \A r \in Mine : r \in G =>
            /\ r \in used /\ disk'[r] = 0
            /\ Unhandled("delete", r)' \/ Unhandled("moved_from", r)'
    BY <2>1, <2>3, <2>4, <2>5, <2>6
  <2> HIDE DEF N, G
  <2>8. QED
    BY <1>1, <1>2, <2>1, <2>6, <2>7, AccountedChange
<1>5. ASSUME NEW p \in Files, UserRemove(p)
      PROVE  Accounted'
  <2>1. /\ used' = used /\ disk' = [disk EXCEPT ![p] = 0] /\ disk[p] # 0
    BY <1>5 DEF UserRemove
  <2>2. \A y : y \notin Milds =>
                    (Has(Stream', y) <=> Has(Stream, y) \/ y = [type |-> "delete", path |-> p])
    BY <1>5, UserNews
  <2>3. \A q : q # p => Kept(q)
    BY <2>2, NamedMild DEF Kept, Unhandled
  <2>4. Unhandled("delete", p)'
    BY <2>2, NamedMild DEF Unhandled
  <2>5. \A q \in Mine : q # p => disk'[q] = disk[q]
    BY <1>2, <2>1
  <2>6. disk'[p] = 0 /\ (p \in Mine => p \in used)
    BY <1>2, <2>1 DEF Accounted
  <2> DEFINE N == {}
             G == {p}
  <2>7. /\ \A r \in Mine : r \notin N \cup G => Kept(r) /\ disk'[r] = disk[r]
        /\ \A r \in Mine : r \in N =>
            /\ r \notin used /\ r \in used' /\ disk'[r] # 0
            /\ Unhandled("create", r)' \/ Unhandled("moved_to", r)'
            /\ Unhandled("delete", r)' <=> Unhandled("delete", r)
            /\ Unhandled("moved_from", r)' <=> Unhandled("moved_from", r)
        /\ \A r \in Mine : r \in G =>
            /\ r \in used /\ disk'[r] = 0
            /\ Unhandled("delete", r)' \/ Unhandled("moved_from", r)'
    BY <2>1, <2>3, <2>4, <2>5, <2>6
  <2> HIDE DEF N, G
  <2>8. QED
    BY <1>1, <1>2, <2>1, <2>6, <2>7, AccountedChange
<1>6. ASSUME NEW p \in Files, UserMoveIn(p)
      PROVE  Accounted'
  <2>1. /\ used' = used \cup {p} /\ disk' = [disk EXCEPT ![p] = made + 1]
        /\ p \in Mine => p \notin used
    BY <1>2, <1>6 DEF UserMoveIn, Free
  <2>2. \A y : y \notin Milds =>
                    (Has(Stream', y) <=> Has(Stream, y) \/ y = [type |-> "moved_to", path |-> p])
    BY <1>6, UserNews
  <2>3. \A q : q # p => Kept(q)
    BY <2>2, NamedMild DEF Kept, Unhandled
  <2>4. /\ Unhandled("moved_to", p)'
        /\ Unhandled("delete", p)' <=> Unhandled("delete", p)
        /\ Unhandled("moved_from", p)' <=> Unhandled("moved_from", p)
    BY <2>2, NamedMild DEF Unhandled
  <2>5. \A q \in Mine : q # p => disk'[q] = disk[q]
    BY <1>2, <2>1
  <2>6. disk'[p] # 0 /\ p \in used' /\ used \subseteq used'
    BY <1>2, <2>1
  <2> DEFINE N == {p}
             G == {}
  <2>7. /\ \A r \in Mine : r \notin N \cup G => Kept(r) /\ disk'[r] = disk[r]
        /\ \A r \in Mine : r \in N =>
            /\ r \notin used /\ r \in used' /\ disk'[r] # 0
            /\ Unhandled("create", r)' \/ Unhandled("moved_to", r)'
            /\ Unhandled("delete", r)' <=> Unhandled("delete", r)
            /\ Unhandled("moved_from", r)' <=> Unhandled("moved_from", r)
        /\ \A r \in Mine : r \in G =>
            /\ r \in used /\ disk'[r] = 0
            /\ Unhandled("delete", r)' \/ Unhandled("moved_from", r)'
    BY <2>1, <2>3, <2>4, <2>5, <2>6
  <2> HIDE DEF N, G
  <2>8. QED
    BY <1>1, <1>2, <2>1, <2>6, <2>7, AccountedChange
<1>7. ASSUME NEW p \in Files, UserMoveOut(p)
      PROVE  Accounted'
  <2>1. /\ used' = used /\ disk' = [disk EXCEPT ![p] = 0] /\ disk[p] # 0
    BY <1>7 DEF UserMoveOut
  <2>2. \A y : y \notin Milds =>
                    (Has(Stream', y) <=> Has(Stream, y) \/ y = [type |-> "moved_from", path |-> p])
    BY <1>7, UserNews
  <2>3. \A q : q # p => Kept(q)
    BY <2>2, NamedMild DEF Kept, Unhandled
  <2>4. Unhandled("moved_from", p)'
    BY <2>2, NamedMild DEF Unhandled
  <2>5. \A q \in Mine : q # p => disk'[q] = disk[q]
    BY <1>2, <2>1
  <2>6. disk'[p] = 0 /\ (p \in Mine => p \in used)
    BY <1>2, <2>1 DEF Accounted
  <2> DEFINE N == {}
             G == {p}
  <2>7. /\ \A r \in Mine : r \notin N \cup G => Kept(r) /\ disk'[r] = disk[r]
        /\ \A r \in Mine : r \in N =>
            /\ r \notin used /\ r \in used' /\ disk'[r] # 0
            /\ Unhandled("create", r)' \/ Unhandled("moved_to", r)'
            /\ Unhandled("delete", r)' <=> Unhandled("delete", r)
            /\ Unhandled("moved_from", r)' <=> Unhandled("moved_from", r)
        /\ \A r \in Mine : r \in G =>
            /\ r \in used /\ disk'[r] = 0
            /\ Unhandled("delete", r)' \/ Unhandled("moved_from", r)'
    BY <2>1, <2>3, <2>4, <2>5, <2>6
  <2> HIDE DEF N, G
  <2>8. QED
    BY <1>1, <1>2, <2>1, <2>6, <2>7, AccountedChange
<1>8. ASSUME NEW p \in Files, NEW q \in Files, UserMove(p, q)
      PROVE  Accounted'
  <2>1. /\ used' = used \cup {q} /\ disk' = [disk EXCEPT ![q] = disk[p], ![p] = 0] /\ disk[p] # 0
        /\ p # q /\ (q \in Mine => q \notin used)
    BY <1>2, <1>8 DEF UserMove, Free
  <2>2. \A y : y \notin Milds =>
                    (Has(Stream', y) <=> \/ Has(Stream, y) \/ y = [type |-> "moved_from", path |-> p]
                                         \/ y = [type |-> "moved_to", path |-> q])
    BY <1>8, UserNews
  <2>3. \A r : r # p /\ r # q => Kept(r)
    BY <2>2, NamedMild DEF Kept, Unhandled
  <2>4. /\ Unhandled("moved_from", p)' /\ Unhandled("moved_to", q)'
        /\ Unhandled("delete", q)' <=> Unhandled("delete", q)
        /\ Unhandled("moved_from", q)' <=> Unhandled("moved_from", q)
    BY <2>1, <2>2, NamedMild DEF Unhandled
  <2>5. \A r \in Mine : r # p /\ r # q => disk'[r] = disk[r]
    BY <1>2, <2>1
  <2>6. disk'[p] = 0 /\ (p \in Mine => p \in used) /\ disk'[q] # 0 /\ q \in used' /\ used \subseteq used'
    BY <1>2, <2>1 DEF Accounted
  <2> DEFINE N == {q}
             G == {p}
  <2>7. /\ \A r \in Mine : r \notin N \cup G => Kept(r) /\ disk'[r] = disk[r]
        /\ \A r \in Mine : r \in N =>
            /\ r \notin used /\ r \in used' /\ disk'[r] # 0
            /\ Unhandled("create", r)' \/ Unhandled("moved_to", r)'
            /\ Unhandled("delete", r)' <=> Unhandled("delete", r)
            /\ Unhandled("moved_from", r)' <=> Unhandled("moved_from", r)
        /\ \A r \in Mine : r \in G =>
            /\ r \in used /\ disk'[r] = 0
            /\ Unhandled("delete", r)' \/ Unhandled("moved_from", r)'
    BY <2>1, <2>3, <2>4, <2>5, <2>6
  <2> HIDE DEF N, G
  <2>8. QED
    BY <1>1, <1>2, <2>6, <2>7, AccountedChange
<1>9. QED
  BY <1>3, <1>4, <1>5, <1>6, <1>7, <1>8 DEF User

\* The sender goes on: to which request it comes, or what it has done.
LEMMA SenderWork ==
  ASSUME Typed, Typed', Sound, Sender, Alive'
  PROVE  \/ Work' = Work /\ told' = told
         \/ /\ Work \in Seq(Requests) /\ Work # <<>> /\ Work' = Tail(Work) /\ sender.path \in Files
            /\ Work[1] = Request(sender.op, sender.path, sender.to)
            /\ ChangeModificationTime \/ SendDeletion \/ SendMove
            /\ ChangeModificationTime => /\ sender.op = "NEW_FILE" /\ disk[sender.path] # 0
                                         /\ told' = [told EXCEPT ![sender.path] = sender.n]
                                         /\ sender.n # Missing
<1>1. sender \in SenderState /\ told \in [Names -> Nat \cup {Missing}]
  BY DEF Typed, Threads
<1>2. CASE Dequeue
  <2>1. told' = told
    BY <1>2 DEF Dequeue
  <2>2. QED
    BY <1>2, <2>1, WorkDequeue
<1>3. CASE SendContent \/ GetModificationTime
  <2>1. told' = told /\ queue' = queue /\ sender.at \in {"procedure", "getModificationTime"}
    BY <1>3 DEF SendContent, GetModificationTime, Sends
  <2>2. /\ sender'.at \in {"gone", "getModificationTime", "utime"} /\ sender'.op = sender.op
        /\ sender'.path = sender.path /\ sender'.to = sender.to
    BY <1>1, <1>3 DEF SendContent, GetModificationTime, SenderState
  <2>3. sender'.at \notin {"idle", "gone"}
    BY <2>2 DEF Alive
  <2>4. QED
    BY <2>1, <2>2, <2>3, WorkGoesOn
<1>4. CASE ChangeModificationTime \/ SendDeletion \/ SendMove
  <2>1. queue' = queue /\ sender.at \in {"utime", "procedure"}
    BY <1>4 DEF ChangeModificationTime, SendDeletion, SendMove, Sends
  <2>2. /\ Work \in Seq(Requests) /\ Work # <<>> /\ sender.path \in Files
        /\ Work[1] = Request(sender.op, sender.path, sender.to)
    BY <2>1, WorkTyped, WorkFirst DEF Typed, Threads
  <2>3. ChangeModificationTime => /\ sender.op = "NEW_FILE" /\ disk[sender.path] # 0
                                  /\ told' = [told EXCEPT ![sender.path] = sender.n]
                                  /\ sender.n # Missing /\ sender' = NoRequest
    <3>1. SUFFICES ASSUME ChangeModificationTime
                   PROVE  /\ sender.op = "NEW_FILE" /\ disk[sender.path] # 0
                          /\ told' = [told EXCEPT ![sender.path] = sender.n]
                          /\ sender.n # Missing /\ sender' = NoRequest
      OBVIOUS
    <3>2. sender.at = "utime"
      BY <3>1 DEF ChangeModificationTime, Sends
    <3>3. sender' # [sender EXCEPT !.at = "gone"]
      BY <1>1 DEF Alive, SenderState
    <3>4. sender.op = "NEW_FILE"
      BY <3>2 DEF Sound, Settled
    <3>5. sender.n # Missing
      BY <1>1 DEF SenderState, Missing
    <3>6. QED
      BY <3>1, <3>3, <3>4, <3>5 DEF ChangeModificationTime
  <2>4. sender' = NoRequest
    BY <1>4, <2>3 DEF SendDeletion, SendMove
  <2>5. Work' = Tail(Work)
    BY <2>1, <2>4, WorkDone
  <2>6. QED
    BY <1>4, <2>2, <2>3, <2>5
<1>5. QED
  BY <1>2, <1>3, <1>4 DEF Sender

\* A request that ends a name comes after those that move a file to it.
LEMMA EndsFirst ==
  ASSUME Ordered, Work \in Seq(Requests), Work # <<>>, Work' = Tail(Work), Ends(Work[1]),
         NEW p, p = Work[1].path
  PROVE  ~Bound(p)'
<1>1. /\ Len(Work) \in Nat \ {0}
      /\ \A j \in 1 .. Len(Work') : Work'[j] = Work[j + 1] /\ j + 1 \in 1 .. Len(Work)
  BY LessWork
<1>2. SUFFICES ASSUME NEW j \in 1 .. Len(Work'), Work'[j].op = "MOVE", Work'[j].to = Work[1].path
               PROVE  FALSE
  BY DEF Bound
<1>3. /\ Work[j + 1].op = "MOVE" /\ Work[j + 1].to = Work[1].path /\ j + 1 \in 1 .. Len(Work)
      /\ 1 \in 1 .. Len(Work)
  BY <1>1, <1>2
<1>4. Renames
  BY <1>3 DEF Ordered
<1>5. ~(j + 1 < 1)
  OBVIOUS
<1>6. QED
  BY <1>3, <1>4, <1>5 DEF Ordered

LEMMA FirstMove ==
  ASSUME Typed, Ordered, Work \in Seq(Requests), Work # <<>>, Work[1].op = "MOVE"
  PROVE  /\ Renames /\ Work[1].path # Work[1].to /\ Work[1].path \in Mine /\ Work[1].to \in Mine
         /\ told[Work[1].path] # Missing
<1>1. Len(Work) \in Nat \ {0} /\ 1 \in 1 .. Len(Work)
  BY EmptySeq, LenProperties
<1>2. ~\E i \in 1 .. 1 - 1 : TRUE
  OBVIOUS
<1>3. QED
  BY <1>1, <1>2 DEF Ordered

LEMMA AccountedSender ==
  ASSUME Typed, Typed', Sound, Sound', Noticing, Sender, Alive'
  PROVE  Accounted'
<1>1. UNCHANGED <<env, disk, used, notifier>> /\ Mine' = Mine
  BY SenderFrame
<1>2. \A p : Kept(p)
  <2>1. Stream \in Seq(Told) /\ Stream' \in Seq(Told) /\ Longer(Stream, Stream', Milds)
    BY SenderStream
  <2>2. \A y : y \notin Milds => (Has(Stream', y) <=> Has(Stream, y))
    BY <2>1, HasLonger
  <2>3. QED
    BY <2>2, QuietNews
<1>3. Accounted /\ Ordered
  BY DEF Noticing
<1>4. Mine \subseteq Files /\ Files \subseteq Names /\ told \in [Names -> Nat \cup {Missing}]
  BY MineFiles, FilesNames DEF Typed, Threads
<1>5. CASE Work' = Work /\ told' = told
  <2>1. \A p : (Died(p)' <=> Died(p)) /\ (Born(p)' <=> Born(p)) /\ (Bound(p)' <=> Bound(p))
    BY <1>1, <1>2, <1>5, KeptNews
  <2>2. QED
    BY <1>1, <1>3, <1>5, <2>1, AccountedFrame
<1>6. CASE /\ Work \in Seq(Requests) /\ Work # <<>> /\ Work' = Tail(Work) /\ sender.path \in Files
           /\ Work[1] = Request(sender.op, sender.path, sender.to)
           /\ ChangeModificationTime \/ SendDeletion \/ SendMove
           /\ ChangeModificationTime => /\ sender.op = "NEW_FILE" /\ disk[sender.path] # 0
                                        /\ told' = [told EXCEPT ![sender.path] = sender.n]
                                        /\ sender.n # Missing
  <2> DEFINE r == Work[1]
             q == sender.path
  <2>1. r.op = sender.op /\ r.path = q /\ r.to = sender.to
    BY <1>6 DEF Request
  <2>2. /\ \A op, p : Requested(op, p) <=> Requested(op, p)' \/ (r.op = op /\ r.path = p)
        /\ \A p : Bound(p) <=> Bound(p)' \/ (r.op = "MOVE" /\ r.to = p)
    BY <1>6, LessWork
  <2>3. \A p : /\ Unhandled("create", p)' <=> Unhandled("create", p)
               /\ Unhandled("moved_to", p)' <=> Unhandled("moved_to", p)
               /\ Unhandled("delete", p)' <=> Unhandled("delete", p)
               /\ Unhandled("moved_from", p)' <=> Unhandled("moved_from", p)
    BY <1>2 DEF Kept
  <2>4. \A p : Dying(p)' <=> Dying(p)
    BY <1>1, <2>3 DEF Dying
  <2>5. \A p : Died(p)' => Died(p)
    BY <2>2, <2>4 DEF Died
  <2>6. \A p : Died(p) => Died(p)' \/ (Ends(r) /\ r.path = p)
    BY <2>2, <2>4 DEF Died, Ends
  <2>7. \A p : Born(p) => \/ Born(p)' \/ (r.op = "NEW_FILE" /\ r.path = p)
                          \/ (r.op = "MOVE" /\ r.to = p)
    BY <2>2, <2>3 DEF Born
  <2>8. Ends(r) => \A p : p = q => ~Bound(p)'
    BY <1>3, <1>6, <2>1, EndsFirst
  <2>9. SUFFICES ASSUME NEW p \in Mine
                 PROVE  /\ Died(p)' => p \in used /\ disk[p] = 0
                        /\ disk[p] # 0 => p \in used /\ (told'[p] # Missing \/ Born(p)')
                        /\ disk[p] = 0 /\ Expected(p)' => Died(p)'
    BY <1>1 DEF Accounted
  <2>10. Died(p)' => p \in used /\ disk[p] = 0
    BY <1>3, <2>5 DEF Accounted
  <2>11. disk[p] # 0 => p \in used /\ (told[p] # Missing \/ Born(p))
    BY <1>3 DEF Accounted
  <2>12. disk[p] = 0 /\ (told[p] # Missing \/ Bound(p)) => Died(p)
    BY <1>3 DEF Accounted, Expected
  <2>13. Expected(p)' <=> told'[p] # Missing \/ Bound(p)'
    BY DEF Expected
  <2>14. Died(p) => p \in used /\ disk[p] = 0
    BY <1>3 DEF Accounted
  <2> HIDE DEF r, q
  <2>15. CASE ChangeModificationTime
    <3>1. /\ r.op = "NEW_FILE" /\ disk[q] # 0 /\ told' = [told EXCEPT ![q] = sender.n]
          /\ sender.n # Missing /\ q \in Files /\ ~Ends(r)
      BY <1>6, <2>1, <2>15 DEF q, Ends
    <3>2. told'[p] = IF p = q THEN sender.n ELSE told[p]
      BY <1>4, <3>1
    <3>3. QED
      BY <2>1, <2>2, <2>6, <2>7, <2>10, <2>11, <2>12, <2>13, <3>1, <3>2
  <2>16. CASE SendDeletion
    <3>1. r.op = "DELETE" /\ Ends(r) /\ told' = [told EXCEPT ![q] = Missing] /\ q \in Files
      BY <1>6, <2>1, <2>16 DEF SendDeletion, Ends, q
    <3>2. told'[p] = IF p = q THEN Missing ELSE told[p]
      BY <1>4, <3>1
    <3>3. p = q => Died(p)
      BY <2>1, <2>2, <3>1 DEF Died
    <3>4. QED
      BY <2>1, <2>2, <2>6, <2>7, <2>8, <2>10, <2>11, <2>12, <2>13, <2>14, <3>1, <3>2, <3>3
  <2>17. CASE SendMove
    <3>1. /\ r.op = "MOVE" /\ Ends(r)
          /\ told' = [n \in Names |-> CASE n = r.to   -> told[q]
                                        [] n = q /\ n # r.to -> Missing
                                        [] OTHER -> told[n]]
      BY <2>1, <2>17 DEF SendMove, Ends, q
    <3>2. r.path # r.to /\ told[q] # Missing
      BY <1>3, <1>6, <2>1, <3>1, FirstMove DEF r
    <3>3. told'[p] = IF p = r.to THEN told[q] ELSE IF p = q THEN Missing ELSE told[p]
      BY <1>4, <2>1, <3>1, <3>2
    <3>4. p = q => Died(p)
      BY <2>1, <2>2, <3>1 DEF Died
    <3>5. QED
      BY <2>1, <2>2, <2>6, <2>7, <2>8, <2>10, <2>11, <2>12, <2>13, <2>14, <3>1, <3>2, <3>3, <3>4
  <2>18. QED
    BY <1>6, <2>15, <2>16, <2>17
<1>7. QED
  BY <1>5, <1>6, SenderWork

LEMMA TailKept ==
  ASSUME Stream \in Seq(Told), Stream # <<>>, Stream' = Tail(Stream), NEW p,
         \A t \in {"create", "delete", "moved_from", "moved_to"} : Stream[1] # [type |-> t, path |-> p]
  PROVE  Kept(p)
<1>1. \A y : Has(Stream, y) <=> Has(Tail(Stream), y) \/ y = Stream[1]
  BY TailTold
<1>2. QED
  BY <1>1 DEF Kept, Unhandled

LEMMA TailNews ==
  ASSUME Stream \in Seq(Told), Stream # <<>>, Stream' = Tail(Stream), NEW p, NEW q,
         NEW u \in {"create", "delete", "moved_from", "moved_to"}, Stream[1] = [type |-> u, path |-> q]
  PROVE  /\ Unhandled("create", p) <=> Unhandled("create", p)' \/ (u = "create" /\ p = q)
         /\ Unhandled("delete", p) <=> Unhandled("delete", p)' \/ (u = "delete" /\ p = q)
         /\ Unhandled("moved_from", p) <=> Unhandled("moved_from", p)' \/ (u = "moved_from" /\ p = q)
         /\ Unhandled("moved_to", p) <=> Unhandled("moved_to", p)' \/ (u = "moved_to" /\ p = q)
<1>1. \A y : Has(Stream, y) <=> Has(Tail(Stream), y) \/ y = Stream[1]
  BY TailTold
<1>2. ASSUME NEW t \in {"create", "delete", "moved_from", "moved_to"}
      PROVE  Unhandled(t, p) <=> Unhandled(t, p)' \/ (t = u /\ p = q)
  BY <1>1 DEF Unhandled
<1>3. QED
  BY <1>2

LEMMA AppendOther ==
  ASSUME Typed, NEW r \in Requests
  PROVE  queue # Append(queue, r)
<1>1. queue \in Seq(Requests)
  BY DEF Typed, Reports
<1>2. Len(Append(queue, r)) = Len(queue) + 1 /\ Len(queue) \in Nat
  BY <1>1, AppendProperties
<1>3. QED
  BY <1>2

\* A request is added, or none is.
Adds(r) == Work' = Append(Work, r) /\ r \in Requests

LEMMA AddsWork ==
  ASSUME Typed, NEW r \in Requests, queue' = Append(queue, r), sender' = sender
  PROVE  /\ Adds(r) /\ Work \in Seq(Requests)
         /\ \A op, p : Requested(op, p)' <=> Requested(op, p) \/ (r.op = op /\ r.path = p)
         /\ \A p : Bound(p)' <=> Bound(p) \/ (r.op = "MOVE" /\ r.to = p)
<1>1. Work \in Seq(Requests) /\ Work' = Append(Work, r)
  BY WorkTyped, WorkAppend
<1>2. QED
  BY <1>1, MoreWork DEF Adds

LEMMA AccountedNotifier ==
  ASSUME Typed, Typed', Sound, Sound', Noticing, ~Doomed, Notifier
  PROVE  Accounted'
<1>1. Accounted /\ Mine \subseteq Files
  BY MineFiles DEF Noticing
<1>2. CASE Poll \/ Read
  <2>1. Stream' = Stream
    BY <1>2, PollStream, ReadStream
  <2>2. UNCHANGED <<env, disk, used, told, notifier, queue, sender>>
    BY <1>2 DEF Poll, Read, bounds, folderVars, notifierVars
  <2>3. (\A p : Kept(p)) /\ Work' = Work /\ Mine' = Mine
    BY <2>1, <2>2, WorkSame DEF Kept, Unhandled, Mine
  <2>4. \A p : (Died(p)' <=> Died(p)) /\ (Born(p)' <=> Born(p)) /\ (Bound(p)' <=> Bound(p))
    BY <2>2, <2>3, KeptNews
  <2>5. QED
    BY <1>1, <2>2, <2>3, <2>4, AccountedFrame
<1>3. SUFFICES ASSUME /\ UNCHANGED <<disk, used, told, sender>> /\ Mine' = Mine
                      /\ Stream \in Seq(Told) /\ Stream # <<>>,
                      RunOnce \/ CatchAllEvents \/ DetermineMoveType,
                      NEW p \in Mine
               PROVE  /\ Died(p)' <=> Died(p)
                      /\ Born(p) => Born(p)'
                      /\ Bound(p)' => Bound(p) \/ disk[p] # 0
  <2>1. CASE RunOnce \/ CatchAllEvents \/ DetermineMoveType
    <3>1. /\ UNCHANGED <<disk, used, told, sender>> /\ Mine' = Mine
          /\ Stream \in Seq(Told) /\ Stream # <<>>
      BY <2>1, RunOnceCases, CatchCases, DetermineCases DEF NotifierFrame
    <3>2. QED
      BY <1>1, <1>3, <2>1, <3>1, AccountedFrame
  <2>2. QED
    BY <1>2, <2>1 DEF Notifier
<1>4. CASE RunOnce
  <2>1. notifier.at = "runOnce"
    BY <1>4, RunOnceCases
  <2>2. CASE RunsQuiet
    <3>1. Kept(p)
      BY <1>3, <2>2, TailKept, NamedMild DEF RunsQuiet
    <3>2. QED
      BY <1>3, <2>2, <3>1, WorkSame, KeptNews DEF RunsQuiet
  <2>3. CASE RunsModify
    <3>1. /\ Stream' = Stream /\ Work' = Work /\ notifier'.at = "catchAllEvents"
      BY <1>3, <2>3, WorkSame DEF RunsModify
    <3>2. \A t : Unhandled(t, p)' <=> Unhandled(t, p)
      BY <3>1 DEF Unhandled
    <3>3. (\A op : Requested(op, p)' <=> Requested(op, p)) /\ (Bound(p)' <=> Bound(p))
      BY <3>1 DEF Requested, Bound
    <3>4. QED
      BY <2>1, <3>1, <3>2, <3>3 DEF Died, Dying, Born
  <2>4. ASSUME NEW q \in Files, RunsMovedFrom(q)
        PROVE  (Died(p)' <=> Died(p)) /\ (Born(p) => Born(p)') /\ (Bound(p)' => Bound(p))
    <3> DEFINE x == [type |-> "moved_from", path |-> q]
    <3>1. /\ Stream[1] = x /\ Stream' = Tail(Stream) /\ queue' = queue
          /\ notifier'.at = "determineMoveType" /\ notifier'.path = q
      BY <2>4 DEF RunsMovedFrom
    <3>2. /\ Unhandled("create", p) <=> Unhandled("create", p)'
          /\ Unhandled("delete", p) <=> Unhandled("delete", p)'
          /\ Unhandled("moved_from", p) <=> Unhandled("moved_from", p)' \/ p = q
          /\ Unhandled("moved_to", p) <=> Unhandled("moved_to", p)'
      BY <1>3, <3>1, TailNews
    <3>5. Work' = Work
      BY <1>3, <3>1, WorkSame
    <3>6. (\A op : Requested(op, p)' <=> Requested(op, p)) /\ (Bound(p)' <=> Bound(p))
      BY <3>5 DEF Requested, Bound
    <3> HIDE DEF x
    <3>7. QED
      BY <2>1, <3>1, <3>2, <3>6 DEF Died, Dying, Born
  <2>5. ASSUME NEW q \in Files, RunsCreate(q) \/ RunsMovedTo(q) \/ RunsDelete(q)
        PROVE  (Died(p)' <=> Died(p)) /\ (Born(p) => Born(p)') /\ (Bound(p)' => Bound(p))
    <3> DEFINE x == Stream[1]
    <3>1. /\ Stream' = Tail(Stream) /\ notifier' = notifier
      BY <2>5 DEF RunsCreate, RunsMovedTo, RunsDelete
    <3>4. ASSUME NEW u \in {"create", "moved_to", "delete"}, x = [type |-> u, path |-> q]
          PROVE  /\ Unhandled("create", p) <=> Unhandled("create", p)' \/ (u = "create" /\ p = q)
                 /\ Unhandled("delete", p) <=> Unhandled("delete", p)' \/ (u = "delete" /\ p = q)
                 /\ Unhandled("moved_from", p) <=> Unhandled("moved_from", p)' \/ (u = "moved_from" /\ p = q)
                 /\ Unhandled("moved_to", p) <=> Unhandled("moved_to", p)' \/ (u = "moved_to" /\ p = q)
      BY <1>3, <3>1, <3>4, TailNews
    <3> HIDE DEF x
    <3>5. CASE queue' = queue
      <4>1. (\A op : Requested(op, p)' <=> Requested(op, p)) /\ (Bound(p)' <=> Bound(p))
        BY <1>3, <3>5, WorkSame DEF Requested, Bound
      <4>2. CASE RunsCreate(q)
        <5>1. x = [type |-> "create", path |-> q]
          BY <4>2 DEF RunsCreate, x
        <5>2. p = q => Requested("NEW_FILE", p) \/ queue' = Append(queue, Request("NEW_FILE", q, None))
          BY <4>2 DEF RunsCreate
        <5>3. p = q => Requested("NEW_FILE", p)
          <6>1. queue # Append(queue, Request("NEW_FILE", q, None))
            BY RequestTyped, AppendOther
          <6>2. QED
            BY <3>5, <5>2, <6>1
        <5>4. QED
          BY <3>1, <3>4, <4>1, <5>1, <5>3 DEF Died, Dying, Born
      <4>3. CASE RunsDelete(q)
        <5>1. x = [type |-> "delete", path |-> q]
          BY <4>3 DEF RunsDelete, x
        <5>2. p # q \/ queue' = Append(queue, Request("DELETE", q, None))
          BY <4>3 DEF RunsDelete
        <5>3. p # q
          <6>1. queue # Append(queue, Request("DELETE", q, None))
            BY RequestTyped, AppendOther
          <6>2. QED
            BY <3>5, <5>2, <6>1
        <5>4. QED
          BY <3>1, <3>4, <4>1, <5>1, <5>3 DEF Died, Dying, Born
      <4>4. CASE RunsMovedTo(q)
        <5>1. queue' = Append(queue, Request("NEW_FILE", q, None))
          BY <4>4 DEF RunsMovedTo
        <5>2. QED
          BY <3>5, <5>1, RequestTyped, AppendOther
      <4>5. QED
        BY <2>5, <4>2, <4>3, <4>4
    <3>6. ASSUME NEW op \in {"NEW_FILE", "DELETE"}, queue' = Append(queue, Request(op, q, None)),
                 op = "NEW_FILE" => x \in {[type |-> "create", path |-> q], [type |-> "moved_to", path |-> q]},
                 op = "DELETE" => x = [type |-> "delete", path |-> q]
          PROVE  (Died(p)' <=> Died(p)) /\ (Born(p) => Born(p)') /\ (Bound(p)' => Bound(p))
      <4> DEFINE r == Request(op, q, None)
      <4>1. r \in Requests
        BY RequestTyped
      <4>2. r.op = op /\ r.path = q /\ r.op # "MOVE"
        BY DEF Request
      <4> HIDE DEF r
      <4>3. /\ \A o : Requested(o, p)' <=> Requested(o, p) \/ (r.op = o /\ r.path = p)
            /\ Bound(p)' <=> Bound(p) \/ (r.op = "MOVE" /\ r.to = p)
        BY <1>3, <3>6, <4>1, AddsWork DEF r
      <4>4. CASE op = "NEW_FILE"
        <5>1. PICK u \in {"create", "moved_to"} : x = [type |-> u, path |-> q]
          BY <3>6, <4>4
        <5>2. /\ Unhandled("delete", p) <=> Unhandled("delete", p)'
              /\ Unhandled("moved_from", p) <=> Unhandled("moved_from", p)'
              /\ Unhandled("create", p) \/ Unhandled("moved_to", p) =>
                    Unhandled("create", p)' \/ Unhandled("moved_to", p)' \/ p = q
          BY <3>4, <5>1
        <5>3. QED
          BY <3>1, <4>2, <4>3, <4>4, <5>2 DEF Died, Dying, Born
      <4>5. CASE op = "DELETE"
        <5>1. /\ Unhandled("create", p) <=> Unhandled("create", p)'
              /\ Unhandled("delete", p) <=> Unhandled("delete", p)' \/ p = q
              /\ Unhandled("moved_from", p) <=> Unhandled("moved_from", p)'
              /\ Unhandled("moved_to", p) <=> Unhandled("moved_to", p)'
          BY <3>4, <3>6, <4>5
        <5>2. QED
          BY <3>1, <4>2, <4>3, <4>5, <5>1 DEF Died, Dying, Born
      <4>6. QED
        BY <4>4, <4>5
    <3>7. CASE RunsCreate(q) \/ RunsMovedTo(q)
      <4>1. x \in {[type |-> "create", path |-> q], [type |-> "moved_to", path |-> q]}
        BY <3>7 DEF RunsCreate, RunsMovedTo, x
      <4>2. QED
        BY <3>5, <3>6, <3>7, <4>1 DEF RunsCreate, RunsMovedTo
    <3>8. CASE RunsDelete(q)
      <4>1. x = [type |-> "delete", path |-> q]
        BY <3>8 DEF RunsDelete, x
      <4>2. QED
        BY <3>5, <3>6, <3>8, <4>1 DEF RunsDelete
    <3>9. QED
      BY <2>5, <3>7, <3>8
  <2>6. QED
    BY <1>4, <2>2, <2>3, <2>4, <2>5, RunOnceCases
<1>5. CASE CatchAllEvents
  <2>1. /\ notifier.at = "catchAllEvents" /\ notifier.path \in Files
        /\ Stream[1] = Modified /\ Len(Stream) >= 2 /\ Stream[2] \in Milds
        /\ CatchesOn \/ CatchesLast
    BY <1>5, CatchCases
  <2> DEFINE s == Tail(Stream)
  <2>2. /\ \A y : Has(Stream, y) <=> Has(s, y) \/ y = Modified
        /\ s \in Seq(Told) /\ Len(s) = Len(Stream) - 1 /\ Len(Stream) \in Nat
        /\ s[1] = Stream[2]
    <3>1. /\ \A y : Has(Stream, y) <=> Has(s, y) \/ y = Modified
          /\ s \in Seq(Told) /\ Len(s) = Len(Stream) - 1 /\ Len(Stream) \in Nat
          /\ \A j \in 1 .. Len(Stream) - 1 : s[j] = Stream[j + 1]
      BY <1>3, <2>1, TailTold
    <3>2. 1 \in 1 .. Len(Stream) - 1
      BY <2>1, <3>1
    <3>3. s[1] = Stream[1 + 1]
      BY <3>1, <3>2
    <3> HIDE DEF s
    <3>4. QED
      BY <3>1, <3>3
  <2>3. Modified \in Milds
    BY Tokens DEF Mild
  <2>4. CASE CatchesOn
    <3>1. Stream' = s /\ UNCHANGED <<queue, notifier>>
      BY <2>4 DEF CatchesOn
    <3>2. Kept(p)
      BY <2>2, <2>3, <3>1, NamedMild DEF Kept, Unhandled
    <3>3. QED
      BY <1>3, <3>1, <3>2, WorkSame, KeptNews
  <2>5. CASE CatchesLast
    <3>1. /\ Stream' = Tail(s) /\ notifier'.at = "runOnce"
          /\ \/ queue' = queue
             \/ queue' = Append(queue, Request("NEW_FILE", notifier.path, None))
      BY <2>5 DEF CatchesLast, Idle
    <3>2. Len(s) # 0
      BY <2>1, <2>2
    <3> HIDE DEF s
    <3>3. s # <<>>
      BY <3>2
    <3>4. \A y : Has(s, y) <=> Has(Tail(s), y) \/ y = Stream[2]
      BY <2>2, <3>3, TailTold
    <3>5. \A t \in {"create", "delete", "moved_from", "moved_to"} : Unhandled(t, p)' <=> Unhandled(t, p)
      BY <2>1, <2>2, <2>3, <3>1, <3>4, NamedMild DEF Unhandled
    <3>6. /\ Requested("DELETE", p)' <=> Requested("DELETE", p)
          /\ Requested("MOVE", p)' <=> Requested("MOVE", p)
          /\ Requested("NEW_FILE", p) => Requested("NEW_FILE", p)'
          /\ Bound(p)' <=> Bound(p)
      <4>1. CASE queue' = queue
        BY <1>3, <4>1, WorkSame DEF Requested, Bound
      <4>2. CASE queue' = Append(queue, Request("NEW_FILE", notifier.path, None))
        <5> DEFINE r == Request("NEW_FILE", notifier.path, None)
        <5>1. r \in Requests /\ r.op = "NEW_FILE"
          BY <2>1, RequestTyped DEF Request
        <5> HIDE DEF r
        <5>2. /\ \A o : Requested(o, p)' <=> Requested(o, p) \/ (r.op = o /\ r.path = p)
              /\ Bound(p)' <=> Bound(p) \/ (r.op = "MOVE" /\ r.to = p)
          BY <1>3, <4>2, <5>1, AddsWork DEF r
        <5>3. QED
          BY <5>1, <5>2
      <4>3. QED
        BY <3>1, <4>1, <4>2
    <3>7. QED
      BY <2>1, <3>1, <3>5, <3>6 DEF Died, Dying, Born
  <2>6. QED
    BY <2>1, <2>4, <2>5
<1>6. CASE DetermineMoveType
  <2>1. /\ notifier.at = "determineMoveType"
        /\ notifier.path \in Files /\ notifier'.at = "runOnce" /\ Stream' = Tail(Stream)
        /\ MovesOut \/ \E q \in Files : MovesTo(q)
    BY <1>6, DetermineCases DEF Idle
  <2> DEFINE x == Stream[1]
             np == notifier.path
  <2> HIDE DEF x
  <2>4. CASE MovesOut
    <3>1. \A t \in {"create", "delete", "moved_from", "moved_to"} : Unhandled(t, p)' <=> Unhandled(t, p)
      <4>1. Kept(p)
        BY <1>3, <2>1, <2>4, TailKept, NamedMild DEF MovesOut
      <4>2. QED
        BY <4>1 DEF Kept
    <3>2. CASE queue' = Append(queue, Request("DELETE", np, None))
      <4> DEFINE r == Request("DELETE", np, None)
      <4>1. r \in Requests /\ r.op = "DELETE" /\ r.path = np
        BY <2>1, RequestTyped DEF Request
      <4> HIDE DEF r
      <4>2. /\ \A o : Requested(o, p)' <=> Requested(o, p) \/ (r.op = o /\ r.path = p)
            /\ Bound(p)' <=> Bound(p) \/ (r.op = "MOVE" /\ r.to = p)
        BY <1>3, <3>2, <4>1, AddsWork DEF r
      <4>3. QED
        BY <2>1, <3>1, <4>1, <4>2 DEF Died, Dying, Born
    <3>3. CASE queue' = queue /\ np \notin Mine
      <4>1. (\A op : Requested(op, p)' <=> Requested(op, p)) /\ (Bound(p)' <=> Bound(p))
        BY <1>3, <3>3, WorkSame DEF Requested, Bound
      <4>2. QED
        BY <2>1, <3>1, <3>3, <4>1 DEF Died, Dying, Born
    <3>4. QED
      BY <2>4, <3>2, <3>3 DEF MovesOut
  <2>5. ASSUME NEW q \in Files, MovesTo(q)
        PROVE  (Died(p)' <=> Died(p)) /\ (Born(p) => Born(p)') /\ (Bound(p)' => Bound(p) \/ disk[p] # 0)
    <3>1. x = [type |-> "moved_to", path |-> q] /\ queue' = Append(queue, Request("MOVE", np, q))
      BY <2>5 DEF MovesTo, x
    <3>2. disk[q] # 0
      <4>1. 1 \in 1 .. Len(Stream)
        BY <1>3, HasFirst
      <4>2. QED
        BY <3>1, <4>1 DEF Noticing, Moves, Landed, x
    <3>3. /\ Unhandled("create", p) <=> Unhandled("create", p)'
          /\ Unhandled("delete", p) <=> Unhandled("delete", p)'
          /\ Unhandled("moved_from", p) <=> Unhandled("moved_from", p)'
          /\ Unhandled("moved_to", p) <=> Unhandled("moved_to", p)' \/ p = q
      BY <1>3, <2>1, <3>1, TailNews DEF x
    <3> DEFINE r == Request("MOVE", np, q)
    <3>4. r \in Requests /\ r.op = "MOVE" /\ r.path = np /\ r.to = q
      BY <2>1, RequestTyped DEF Request
    <3>7. queue' = Append(queue, r)
      BY <3>1
    <3> HIDE DEF r, np
    <3>5. /\ \A o : Requested(o, p)' <=> Requested(o, p) \/ (r.op = o /\ r.path = p)
          /\ Bound(p)' <=> Bound(p) \/ (r.op = "MOVE" /\ r.to = p)
      BY <1>3, <3>4, <3>7, AddsWork
    <3>6. QED
      BY <2>1, <3>2, <3>3, <3>4, <3>5 DEF Died, Dying, Born, np
  <2>6. CASE \E q \in Files : MovesTo(q)
    BY <2>5, <2>6, Zenon
  <2>7. MovesOut \/ \E q \in Files : MovesTo(q)
    BY <2>1
  <2>8. QED
    BY <2>4, <2>6, <2>7, Zenon
<1>7. QED
  BY <1>3, <1>4, <1>5, <1>6

-----------------------------------------------------------------------------
(* Ordered *)

LEMMA OrderedFrame ==
  ASSUME Ordered, Work' = Work, env' = env, told' = told, Mine' = Mine,
         Renames => \A j \in 1 .. Len(Work) : Ends(Work[j]) =>
                       \A p : p = Work[j].path /\ Dying(p)' => Dying(p)
  PROVE  Ordered'
<1>1. Renames' <=> Renames
  BY DEF Renames
<1>2. Renames => \A j \in 1 .. Len(Work) : Ends(Work[j]) =>
                       \A p : p = Work[j].path => ~Dying(p)'
  BY DEF Ordered
<1>3. (Renames => \A j \in 1 .. Len(Work) : Ends(Work[j]) => ~Dying(Work[j].path))'
  BY <1>1, <1>2 DEF Dying, Unhandled
<1>4. QED
  BY <1>1, <1>3 DEF Ordered

\* Of a request that is added.
LEMMA OrderedAppend ==
  ASSUME Ordered, Work \in Seq(Requests), NEW r \in Requests, Work' = Append(Work, r),
         env' = env, told' = told, Mine' = Mine,
         \A p : Dying(p)' => Dying(p),
         r.op = "MOVE" => /\ Renames /\ r.path # r.to /\ r.path \in Mine /\ r.to \in Mine
                          /\ told[r.path] # Missing \/ Bound(r.path)
                          /\ \A j \in 1 .. Len(Work) : Ends(Work[j]) => Work[j].path # r.to,
         Renames /\ Ends(r) => /\ \A p : p = r.path => ~Dying(p)'
                               /\ \A j \in 1 .. Len(Work) : Ends(Work[j]) => Work[j].path # r.path
  PROVE  Ordered'
<1>1. Renames' <=> Renames
  BY DEF Renames
<1>2. /\ Len(Work) \in Nat /\ Len(Work') = Len(Work) + 1 /\ Work'[Len(Work) + 1] = r
      /\ \A j \in 1 .. Len(Work) : Work'[j] = Work[j] /\ j \in 1 .. Len(Work')
      /\ \A j \in 1 .. Len(Work') : j \in 1 .. Len(Work) \/ j = Len(Work) + 1
  BY MoreWork
<1> DEFINE n == Len(Work) + 1
           W == Work'
<1>3. ASSUME NEW j \in 1 .. Len(W), W[j].op = "MOVE"
      PROVE  /\ Renames /\ W[j].path # W[j].to /\ W[j].path \in Mine /\ W[j].to \in Mine
             /\ \/ told[W[j].path] # Missing
                \/ \E i \in 1 .. j - 1 : W[i].op = "MOVE" /\ W[i].to = W[j].path
  <2>1. CASE j \in 1 .. Len(Work)
    <3>1. \A i \in 1 .. j - 1 : i \in 1 .. Len(Work)
      BY <1>2, <2>1
    <3>2. QED
      BY <1>2, <1>3, <2>1, <3>1 DEF Ordered
  <2>2. CASE j = n
    <3>1. \A i \in 1 .. Len(Work) : i \in 1 .. j - 1
      BY <1>2, <2>2
    <3>2. QED
      BY <1>2, <1>3, <2>2, <3>1 DEF Bound
  <2>3. QED
    BY <1>2, <2>1, <2>2
<1>4. ASSUME Renames, NEW i \in 1 .. Len(W), NEW j \in 1 .. Len(W)
      PROVE  /\ Ends(W[i]) /\ Ends(W[j]) /\ W[i].path = W[j].path => i = j
             /\ W[i].op = "MOVE" /\ Ends(W[j]) /\ W[i].to = W[j].path => i < j
  <2>1. CASE i \in 1 .. Len(Work) /\ j \in 1 .. Len(Work)
    BY <1>2, <1>4, <2>1 DEF Ordered
  <2>2. CASE i \in 1 .. Len(Work) /\ j = n
    BY <1>2, <1>4, <2>2
  <2>3. CASE i = n /\ j \in 1 .. Len(Work)
    <3>1. Ends(W[i]) <=> Ends(r)
      BY <1>2, <2>3
    <3>2. QED
      BY <1>2, <1>4, <2>3, <3>1
  <2>4. CASE i = n /\ j = n
    BY <1>2, <1>4, <2>4
  <2>5. QED
    BY <1>2, <2>1, <2>2, <2>3, <2>4
<1>5. ASSUME Renames, NEW j \in 1 .. Len(W), Ends(W[j]), NEW p, p = W[j].path
      PROVE  ~Dying(p)'
  <2>1. CASE j \in 1 .. Len(Work)
    BY <1>2, <1>5, <2>1 DEF Ordered
  <2>2. CASE j = n
    BY <1>2, <1>5, <2>2
  <2>3. QED
    BY <1>2, <2>1, <2>2
<1>6. (Renames => \A j \in 1 .. Len(Work) : Ends(Work[j]) => ~Dying(Work[j].path))'
  BY <1>1, <1>5 DEF Dying, Unhandled
<1>7. (\A j \in 1 .. Len(Work) : Work[j].op = "MOVE" =>
         /\ Renames /\ Work[j].path # Work[j].to
         /\ Work[j].path \in Mine /\ Work[j].to \in Mine
         /\ \/ told[Work[j].path] # Missing
            \/ \E i \in 1 .. j - 1 : Work[i].op = "MOVE" /\ Work[i].to = Work[j].path)'
  BY <1>1, <1>3
<1>8. (Renames => \A i, j \in 1 .. Len(Work) :
         /\ Ends(Work[i]) /\ Ends(Work[j]) /\ Work[i].path = Work[j].path => i = j
         /\ Work[i].op = "MOVE" /\ Ends(Work[j]) /\ Work[i].to = Work[j].path => i < j)'
  BY <1>1, <1>4 DEF Ends
<1>9. QED
  BY <1>6, <1>7, <1>8 DEF Ordered

LEMMA OrderedReceiver ==
  ASSUME Typed, Typed', Sound, Sound', Noticing, Receiver
  PROVE  Ordered'
<1>1. ~Renames /\ env' = env /\ queue' = queue /\ sender' = sender
  BY ReceiverCaught
<1>2. ~Renames' /\ Work' = Work
  BY <1>1, WorkSame DEF Renames
<1>3. \A j \in 1 .. Len(Work) : Work[j].op # "MOVE"
  BY <1>1 DEF Noticing, Ordered
<1>4. QED
  BY <1>2, <1>3 DEF Ordered

LEMMA OrderedUser ==
  ASSUME Typed, Typed', Sound, Sound', Noticing, User
  PROVE  Ordered'
<1>1. /\ UNCHANGED <<env, notifier, told>> /\ CaughtUp /\ Work' = Work /\ Mine' = Mine
  BY UserCaught
<1>2. Ordered /\ Accounted
  BY DEF Noticing
<1>3. SUFFICES ASSUME Renames, NEW j \in 1 .. Len(Work), Ends(Work[j]), NEW p, p = Work[j].path, Dying(p)'
               PROVE  Dying(p)
  BY <1>1, <1>2, OrderedFrame
<1>4. Died(p)
  BY <1>3 DEF Died, Requested, Ends
<1>5. p \in Mine => disk[p] = 0
  BY <1>2, <1>4 DEF Accounted
<1>6. CASE Unhandled("delete", p) \/ Unhandled("moved_from", p)
  BY <1>6 DEF Dying
<1>7. CASE notifier.at = "determineMoveType"
  BY <1>1, <1>7, CaughtMoves
<1>8. ASSUME ~Unhandled("delete", p), ~Unhandled("moved_from", p), notifier.at # "determineMoveType"
      PROVE  FALSE
  <2>1. Unhandled("delete", p)' \/ Unhandled("moved_from", p)'
    BY <1>1, <1>3, <1>8 DEF Dying
  <2>2. \/ \E q \in Files : q = p /\ (UserRemove(q) \/ UserMoveOut(q) \/ \E r \in Files : UserMove(q, r))
    BY <1>8, <2>1, UserNews, NamedMild DEF Unhandled, User
  <2>3. PICK q \in Files : q = p /\ (UserRemove(q) \/ UserMoveOut(q) \/ \E r \in Files : UserMove(q, r))
    BY <2>2
  <2>4. disk[q] # 0 /\ user.path = None
    BY <2>3 DEF UserRemove, UserMoveOut, UserMove, Edits
  <2>5. q \in Mine
    BY <1>1, <1>3, <2>4, RenamesCaught
  <2>6. QED
    BY <1>5, <2>3, <2>4, <2>5
<1>9. QED
  BY <1>6, <1>7, <1>8

LEMMA OrderedSender ==
  ASSUME Typed, Typed', Sound, Sound', Noticing, Sender, Alive'
  PROVE  Ordered'
<1>1. UNCHANGED <<env, disk, used, notifier>> /\ Mine' = Mine
  BY SenderFrame
<1>2. \A p : Dying(p)' <=> Dying(p)
  <2>1. Stream \in Seq(Told) /\ Stream' \in Seq(Told) /\ Longer(Stream, Stream', Milds)
    BY SenderStream
  <2>2. \A y : y \notin Milds => (Has(Stream', y) <=> Has(Stream, y))
    BY <2>1, HasLonger
  <2>3. \A p : Kept(p)
    BY <2>2, QuietNews
  <2>4. \A p : /\ Unhandled("delete", p)' <=> Unhandled("delete", p)
               /\ Unhandled("moved_from", p)' <=> Unhandled("moved_from", p)
    BY <2>3 DEF Kept
  <2>5. QED
    BY <1>1, <2>4 DEF Dying
<1>3. Ordered
  BY DEF Noticing
<1>4. Mine \subseteq Files /\ Files \subseteq Names /\ told \in [Names -> Nat \cup {Missing}]
      /\ (Renames' <=> Renames)
  BY <1>1, MineFiles, FilesNames DEF Typed, Threads, Renames
<1>5. CASE Work' = Work /\ told' = told
  BY <1>1, <1>2, <1>3, <1>5, OrderedFrame
<1>6. CASE /\ Work \in Seq(Requests) /\ Work # <<>> /\ Work' = Tail(Work) /\ sender.path \in Files
           /\ Work[1] = Request(sender.op, sender.path, sender.to)
           /\ ChangeModificationTime \/ SendDeletion \/ SendMove
           /\ ChangeModificationTime => /\ sender.op = "NEW_FILE" /\ disk[sender.path] # 0
                                        /\ told' = [told EXCEPT ![sender.path] = sender.n]
                                        /\ sender.n # Missing
  <2> DEFINE r == Work[1]
             q == sender.path
             W == Work'
  <2>1. r.op = sender.op /\ r.path = q /\ r.to = sender.to
    BY <1>6 DEF Request
  <2>2. /\ Len(Work) \in Nat \ {0} /\ Len(W) = Len(Work) - 1
        /\ \A j \in 1 .. Len(W) : W[j] = Work[j + 1] /\ j + 1 \in 1 .. Len(Work)
        /\ \A j \in 1 .. Len(Work) : j # 1 => j - 1 \in 1 .. Len(W) /\ W[j - 1] = Work[j]
    BY <1>6, LessWork
  <2>3. 1 \in 1 .. Len(Work)
    BY <2>2
  <2>4. r.op = "MOVE" => told[q] # Missing /\ q # r.to
    BY <1>3, <1>6, <2>1, FirstMove
  <2> HIDE DEF r, q, W
  <2>5. \A p \in Mine : told[p] # Missing => told'[p] # Missing \/ (p = q /\ Ends(r))
    <3>1. CASE ChangeModificationTime
      BY <1>4, <1>6, <3>1 DEF q
    <3>2. CASE SendDeletion
      BY <1>4, <1>6, <2>1, <3>2 DEF SendDeletion, Ends, q
    <3>3. CASE SendMove
      BY <1>4, <1>6, <2>1, <2>4, <3>3 DEF SendMove, Ends, q
    <3>4. QED
      BY <1>6, <3>1, <3>2, <3>3
  <2>6. r.op = "MOVE" => \A p \in Mine : p = r.to => told'[p] # Missing
    <3>1. SUFFICES ASSUME r.op = "MOVE" PROVE \A p \in Mine : p = r.to => told'[p] # Missing
      OBVIOUS
    <3>2. SendMove
      BY <1>6, <2>1, <3>1 DEF SendDeletion
    <3>3. QED
      BY <1>4, <2>1, <2>4, <3>1, <3>2 DEF SendMove, q
  <2>7. ASSUME NEW j \in 1 .. Len(W), W[j].op = "MOVE"
        PROVE  /\ Renames /\ W[j].path # W[j].to /\ W[j].path \in Mine /\ W[j].to \in Mine
               /\ \/ told'[W[j].path] # Missing
                  \/ \E i \in 1 .. j - 1 : W[i].op = "MOVE" /\ W[i].to = W[j].path
    <3> DEFINE p == W[j].path
    <3>1. W[j] = Work[j + 1] /\ j + 1 \in 1 .. Len(Work) /\ j + 1 # 1
      BY <2>2
    <3>2. /\ Renames /\ W[j].path # W[j].to /\ p \in Mine /\ W[j].to \in Mine
          /\ \/ told[p] # Missing
             \/ \E i \in 1 .. (j + 1) - 1 : Work[i].op = "MOVE" /\ Work[i].to = p
      BY <1>3, <2>7, <3>1 DEF Ordered
    <3>3. p # q \/ ~Ends(r)
      <4>1. Ends(W[j])
        BY <2>7 DEF Ends
      <4>2. QED
        BY <1>3, <2>1, <2>3, <3>1, <3>2, <4>1 DEF Ordered, r
    <3>4. CASE told[p] # Missing
      BY <2>5, <3>2, <3>3, <3>4
    <3>5. ASSUME NEW i \in 1 .. (j + 1) - 1, Work[i].op = "MOVE", Work[i].to = p
          PROVE  \/ told'[p] # Missing
                 \/ \E k \in 1 .. j - 1 : W[k].op = "MOVE" /\ W[k].to = p
      <4>1. CASE i = 1
        BY <2>6, <3>2, <3>5, <4>1 DEF r
      <4>2. CASE i # 1
        <5>1. i - 1 \in 1 .. j - 1 /\ i \in 1 .. Len(Work)
          BY <2>2, <4>2
        <5>2. W[i - 1] = Work[i]
          BY <2>2, <4>2, <5>1
        <5>3. QED
          BY <3>5, <5>1, <5>2
      <4>3. QED
        BY <4>1, <4>2
    <3>6. QED
      BY <3>2, <3>4, <3>5
  <2>8. ASSUME Renames, NEW i \in 1 .. Len(W), NEW j \in 1 .. Len(W)
        PROVE  /\ Ends(W[i]) /\ Ends(W[j]) /\ W[i].path = W[j].path => i = j
               /\ W[i].op = "MOVE" /\ Ends(W[j]) /\ W[i].to = W[j].path => i < j
    <3>1. /\ W[i] = Work[i + 1] /\ i + 1 \in 1 .. Len(Work)
          /\ W[j] = Work[j + 1] /\ j + 1 \in 1 .. Len(Work)
      BY <2>2
    <3>2. /\ Ends(W[i]) /\ Ends(W[j]) /\ W[i].path = W[j].path => i + 1 = j + 1
          /\ W[i].op = "MOVE" /\ Ends(W[j]) /\ W[i].to = W[j].path => i + 1 < j + 1
      BY <1>3, <2>8, <3>1 DEF Ordered
    <3>3. QED
      BY <2>2, <3>2
  <2>9. ASSUME Renames, NEW j \in 1 .. Len(W), Ends(W[j]), NEW p, p = W[j].path
        PROVE  ~Dying(p)'
    BY <1>2, <1>3, <2>2, <2>9 DEF Ordered
  <2>10. (Renames => \A j \in 1 .. Len(Work) : Ends(Work[j]) => ~Dying(Work[j].path))'
    BY <1>4, <2>9 DEF Dying, Unhandled, W
  <2>11. (\A j \in 1 .. Len(Work) : Work[j].op = "MOVE" =>
           /\ Renames /\ Work[j].path # Work[j].to
           /\ Work[j].path \in Mine /\ Work[j].to \in Mine
           /\ \/ told[Work[j].path] # Missing
              \/ \E i \in 1 .. j - 1 : Work[i].op = "MOVE" /\ Work[i].to = Work[j].path)'
    BY <1>1, <1>4, <2>7 DEF W
  <2>12. (Renames => \A i, j \in 1 .. Len(Work) :
           /\ Ends(Work[i]) /\ Ends(Work[j]) /\ Work[i].path = Work[j].path => i = j
           /\ Work[i].op = "MOVE" /\ Ends(Work[j]) /\ Work[i].to = Work[j].path => i < j)'
    BY <1>4, <2>8 DEF Ends, W
  <2>13. QED
    BY <2>10, <2>11, <2>12 DEF Ordered
<1>7. QED
  BY <1>5, <1>6, SenderWork

\* No ending is left when the one in the stream has been read.
LEMMA EndTaken ==
  ASSUME Noticing, Renames, Stream \in Seq(Told), Stream # <<>>, Stream' = Tail(Stream),
         notifier'.at # "determineMoveType",
         Ending(Stream[1]) \/ notifier.at = "determineMoveType", NEW p
  PROVE  ~Dying(p)'
<1>1. /\ Len(Stream) \in Nat \ {0} /\ Len(Tail(Stream)) = Len(Stream) - 1
      /\ \A j \in 1 .. Len(Stream) - 1 : Tail(Stream)[j] = Stream[j + 1] /\ j + 1 \in 1 .. Len(Stream)
  BY TailTold
<1>2. 1 \in 1 .. Len(Stream)
  BY <1>1
<1>3. ASSUME NEW j \in 1 .. Len(Stream') PROVE ~Ending(Stream'[j])
  <2>1. Stream'[j] = Stream[j + 1] /\ j + 1 \in 1 .. Len(Stream) /\ j + 1 # 1
    BY <1>1
  <2>2. ~Ending(Stream[j + 1])
    BY <1>2, <2>1 DEF Noticing, Moves
  <2>3. QED
    BY <2>1, <2>2
<1>4. \A y : Has(Stream', y) => ~Ending(y)
  BY <1>3 DEF Has
<1>5. QED
  BY <1>4 DEF Dying, Unhandled, Ending

LEMMA TailDying ==
  ASSUME Stream \in Seq(Told), Stream # <<>>, Stream' = Tail(Stream), NEW p,
         notifier'.at # "determineMoveType", Dying(p)'
  PROVE  Dying(p)
<1>1. \A y : Has(Tail(Stream), y) => Has(Stream, y)
  BY TailTold
<1>2. QED
  BY <1>1 DEF Dying, Unhandled

\* What is about to end has not been reported.
LEMMA Unended ==
  ASSUME Ordered, Renames, NEW p, Dying(p)
  PROVE  \A j \in 1 .. Len(Work) : Ends(Work[j]) => Work[j].path # p
  BY DEF Ordered

LEMMA OrderedNotifier ==
  ASSUME Typed, Typed', Sound, Sound', Noticing, ~Doomed, Notifier
  PROVE  Ordered'
<1>1. Ordered /\ Accounted /\ Moves /\ Traced /\ Work \in Seq(Requests)
  BY WorkTyped DEF Noticing
<1>2. CASE Poll \/ Read
  <2>1. Stream' = Stream
    BY <1>2, PollStream, ReadStream
  <2>2. UNCHANGED <<env, told, notifier, queue, sender>>
    BY <1>2 DEF Poll, Read, bounds, folderVars, notifierVars
  <2>3. Work' = Work /\ Mine' = Mine
    BY <2>2, WorkSame DEF Mine
  <2>4. \A p : Dying(p)' => Dying(p)
    BY <2>1, <2>2 DEF Dying, Unhandled
  <2>5. QED
    BY <1>1, <2>2, <2>3, <2>4, OrderedFrame
<1>3. CASE RunOnce
  <2>1. /\ UNCHANGED <<env, disk, used, told, sender>> /\ Mine' = Mine
        /\ Stream \in Seq(Told) /\ Stream # <<>> /\ notifier.at = "runOnce"
    BY <1>3, RunOnceCases DEF NotifierFrame
  <2>2. ASSUME Stream' = Tail(Stream), notifier' = notifier, NEW p, Dying(p)' PROVE Dying(p)
    BY <2>1, <2>2, TailDying
  <2>3. CASE RunsQuiet
    <3>1. Stream' = Tail(Stream) /\ notifier' = notifier /\ Work' = Work
      BY <2>1, <2>3, WorkSame DEF RunsQuiet
    <3>2. \A p : Dying(p)' => Dying(p)
      BY <2>2, <3>1
    <3>3. QED
      BY <1>1, <2>1, <3>1, <3>2, OrderedFrame
  <2>4. CASE RunsModify
    <3>1. Stream' = Stream /\ notifier'.at = "catchAllEvents" /\ Work' = Work
      BY <2>1, <2>4, WorkSame DEF RunsModify
    <3>2. \A p : Dying(p)' => Dying(p)
      BY <3>1 DEF Dying, Unhandled
    <3>3. QED
      BY <1>1, <2>1, <3>1, <3>2, OrderedFrame
  <2>5. ASSUME NEW q \in Files, RunsMovedFrom(q) PROVE Ordered'
    <3>1. /\ Stream[1] = [type |-> "moved_from", path |-> q] /\ Stream' = Tail(Stream)
          /\ notifier'.path = q /\ Work' = Work
      BY <2>1, <2>5, WorkSame DEF RunsMovedFrom
    <3>2. \A y : Has(Stream, y) <=> Has(Tail(Stream), y) \/ y = Stream[1]
      BY <2>1, TailTold
    <3>3. \A p : Dying(p)' => Dying(p)
      BY <3>1, <3>2 DEF Dying, Unhandled
    <3>4. QED
      BY <1>1, <2>1, <3>1, <3>3, OrderedFrame
  <2>6. ASSUME NEW q \in Files, RunsCreate(q) \/ RunsMovedTo(q) PROVE Ordered'
    <3>1. Stream' = Tail(Stream) /\ notifier' = notifier
      BY <2>6 DEF RunsCreate, RunsMovedTo
    <3>2. \A p : Dying(p)' => Dying(p)
      BY <2>2, <3>1
    <3>3. CASE queue' = queue
      <4>1. Work' = Work
        BY <2>1, <3>3, WorkSame
      <4>2. QED
        BY <1>1, <2>1, <3>2, <4>1, OrderedFrame
    <3>4. CASE queue' = Append(queue, Request("NEW_FILE", q, None))
      <4> DEFINE r == Request("NEW_FILE", q, None)
      <4>1. r \in Requests /\ r.op # "MOVE" /\ ~Ends(r) /\ queue' = Append(queue, r)
        BY <3>4, RequestTyped DEF Request, Ends
      <4> HIDE DEF r
      <4>2. Work' = Append(Work, r)
        BY <2>1, <4>1, WorkAppend
      <4>3. QED
        BY <1>1, <2>1, <3>2, <4>1, <4>2, OrderedAppend
    <3>5. QED
      BY <2>6, <3>3, <3>4 DEF RunsCreate, RunsMovedTo
  <2>7. ASSUME NEW q \in Files, RunsDelete(q) PROVE Ordered'
    <3>1. /\ Stream[1] = [type |-> "delete", path |-> q] /\ Stream' = Tail(Stream)
          /\ notifier' = notifier
      BY <2>7 DEF RunsDelete
    <3>2. \A p : Dying(p)' => Dying(p)
      BY <2>2, <3>1
    <3>3. CASE queue' = queue
      <4>1. Work' = Work
        BY <2>1, <3>3, WorkSame
      <4>2. QED
        BY <1>1, <2>1, <3>2, <4>1, OrderedFrame
    <3>4. CASE queue' = Append(queue, Request("DELETE", q, None))
      <4> DEFINE r == Request("DELETE", q, None)
      <4>1. r \in Requests /\ r.op # "MOVE" /\ r.path = q /\ queue' = Append(queue, r)
        BY <3>4, RequestTyped DEF Request
      <4> HIDE DEF r
      <4>2. Work' = Append(Work, r)
        BY <2>1, <4>1, WorkAppend
      <4>3. Dying(q)
        BY <2>1, <3>1, HasFirst DEF Dying, Unhandled
      <4>4. Renames => \A p : ~Dying(p)'
        BY <2>1, <3>1, EndTaken DEF Ending
      <4>5. Renames => \A j \in 1 .. Len(Work) : Ends(Work[j]) => Work[j].path # r.path
        BY <1>1, <4>1, <4>3, Unended
      <4>6. QED
        BY <1>1, <2>1, <3>2, <4>1, <4>2, <4>4, <4>5, OrderedAppend
    <3>5. QED
      BY <2>7, <3>3, <3>4 DEF RunsDelete
  <2>8. QED
    BY <1>3, <2>3, <2>4, <2>5, <2>6, <2>7, RunOnceCases
<1>4. CASE CatchAllEvents
  <2>1. /\ UNCHANGED <<env, told, sender>> /\ Mine' = Mine
        /\ Stream \in Seq(Told) /\ Stream # <<>>
        /\ notifier.at = "catchAllEvents" /\ notifier.path \in Files /\ Len(Stream) >= 2
        /\ CatchesOn \/ CatchesLast
    BY <1>4, CatchCases DEF NotifierFrame
  <2>2. notifier'.at # "determineMoveType"
    BY <2>1 DEF CatchesOn, CatchesLast, Idle
  <2>3. \A y : Has(Stream', y) => Has(Stream, y)
    <3> DEFINE s == Tail(Stream)
    <3>1. /\ s \in Seq(Told) /\ Len(s) = Len(Stream) - 1 /\ Len(Stream) \in Nat
          /\ \A y : Has(s, y) => Has(Stream, y)
      BY <2>1, TailTold
    <3>2. Len(s) # 0 /\ Stream' \in {s, Tail(s)}
      BY <2>1, <3>1 DEF CatchesOn, CatchesLast
    <3> HIDE DEF s
    <3>3. s # <<>>
      BY <3>2
    <3>4. \A y : Has(Tail(s), y) => Has(s, y)
      BY <3>1, <3>3, TailTold
    <3>5. QED
      BY <3>1, <3>2, <3>4
  <2>4. \A p : Dying(p)' => Dying(p)
    BY <2>2, <2>3 DEF Dying, Unhandled
  <2>5. CASE queue' = queue
    <3>1. Work' = Work
      BY <2>1, <2>5, WorkSame
    <3>2. QED
      BY <1>1, <2>1, <2>4, <3>1, OrderedFrame
  <2>6. CASE queue' = Append(queue, Request("NEW_FILE", notifier.path, None))
    <3> DEFINE r == Request("NEW_FILE", notifier.path, None)
    <3>1. r \in Requests /\ r.op # "MOVE" /\ ~Ends(r) /\ queue' = Append(queue, r)
      BY <2>1, <2>6, RequestTyped DEF Request, Ends
    <3> HIDE DEF r
    <3>2. Work' = Append(Work, r)
      BY <2>1, <3>1, WorkAppend
    <3>3. \E x \in Requests : x = r
      BY <3>1
    <3>4. PICK x \in Requests : x = r
      BY <3>3
    <3>5. QED
      BY <1>1, <2>1, <2>4, <3>1, <3>2, <3>4, OrderedAppend
  <2>7. QED
    BY <2>1, <2>5, <2>6 DEF CatchesOn, CatchesLast
<1>5. CASE DetermineMoveType
  <2>1. /\ UNCHANGED <<env, told, sender>> /\ Mine' = Mine
        /\ Stream \in Seq(Told) /\ Stream # <<>>
        /\ notifier.at = "determineMoveType" /\ notifier.path \in Files
        /\ notifier'.at = "runOnce" /\ Stream' = Tail(Stream)
        /\ MovesOut \/ \E q \in Files : MovesTo(q)
    BY <1>5, DetermineCases DEF NotifierFrame, Idle
  <2>2. Renames /\ Follows(notifier.path, Stream[1])
    BY <1>1, <2>1 DEF Moves
  <2>3. PICK np \in Files : np = notifier.path
    BY <2>1
  <2>4. Dying(np)
    BY <2>1, <2>3 DEF Dying
  <2>5. \A p : ~Dying(p)'
    BY <2>1, <2>2, EndTaken
  <2>6. \A j \in 1 .. Len(Work) : Ends(Work[j]) => Work[j].path # np
    BY <1>1, <2>2, <2>4, Unended
  <2>7. CASE queue' = queue
    <3>1. Work' = Work
      BY <2>1, <2>7, WorkSame
    <3>2. QED
      BY <1>1, <2>1, <2>5, <3>1, OrderedFrame
  <2>8. CASE queue' = Append(queue, Request("DELETE", np, None))
    <3> DEFINE r == Request("DELETE", np, None)
    <3>1. r \in Requests /\ r.op # "MOVE" /\ r.path = np /\ queue' = Append(queue, r)
      BY <2>8, RequestTyped DEF Request
    <3> HIDE DEF r
    <3>2. Work' = Append(Work, r)
      BY <2>1, <3>1, WorkAppend
    <3>3. QED
      BY <1>1, <2>1, <2>5, <2>6, <3>1, <3>2, OrderedAppend
  <2>9. ASSUME NEW q \in Files, MovesTo(q) PROVE Ordered'
    <3> DEFINE r == Request("MOVE", np, q)
    <3>1. r \in Requests /\ r.op = "MOVE" /\ r.path = np /\ r.to = q /\ queue' = Append(queue, r)
      BY <2>3, <2>9, RequestTyped DEF Request, MovesTo
    <3> HIDE DEF r
    <3>2. Work' = Append(Work, r)
      BY <2>1, <3>1, WorkAppend
    <3>3. Stream[1] = [type |-> "moved_to", path |-> q]
      BY <2>9 DEF MovesTo
    <3>4. q # np /\ (told[np] # Missing \/ Bound(np))
      BY <2>2, <2>3, <3>3 DEF Follows, Expected
    <3>5. disk[q] # 0
      BY <1>1, <2>1, <3>3, HasFirst DEF Moves, Landed
    <3>6. np \in Mine /\ q \in Mine
      <4>1. Mine = env.files
        BY <2>2, Classes DEF Mine
      <4>2. used \subseteq env.files /\ q \in used /\ np \in used
        BY <1>1, <2>1, <2>2, <2>3, <3>5 DEF Traced
      <4>3. QED
        BY <4>1, <4>2
    <3>7. \A j \in 1 .. Len(Work) : Ends(Work[j]) => Work[j].path # q
      <4>1. ~Died(q)
        BY <1>1, <3>5, <3>6 DEF Accounted
      <4>2. QED
        BY <4>1 DEF Died, Requested, Ends
    <3>8. QED
      BY <1>1, <2>1, <2>2, <2>5, <2>6, <3>1, <3>2, <3>4, <3>6, <3>7, OrderedAppend
  <2>10. QED
    BY <2>1, <2>3, <2>7, <2>8, <2>9 DEF MovesOut
<1>6. QED
  BY <1>2, <1>3, <1>4, <1>5 DEF Notifier

-----------------------------------------------------------------------------
(* AllWatched *)

LEMMA WatchGrows ==
  ASSUME Typed, NEW p \in Names, WatchFile(p) \/ watch' = watch
  PROVE  /\ \A n \in Names : disk[n] # 0 /\ watch[disk[n]] # None => watch'[disk[n]] # None
         /\ WatchFile(p) /\ disk[p] # 0 => watch'[disk[p]] # None
<1>1. /\ \A n \in Names : disk[n] # 0 => disk[n] \in Inodes
      /\ watch \in [Inodes -> Names \cup {None}] /\ p # None
  BY BoundsAssumption, NamesAssumption DEF Typed, Folder, Kernel, Inodes, Names
<1>2. QED
  BY <1>1 DEF WatchFile

LEMMA WatchedKept ==
  ASSUME NEW p, env' = env, disk'[p] = disk[p], Watched(p),
         watch[disk[p]] # None => watch'[disk[p]] # None,
         Unhandled("create", p) => Unhandled("create", p)',
         Unhandled("moved_to", p) => Unhandled("moved_to", p)',
         Queued(p) => Queued(p)'
  PROVE  Watched(p)'
  BY DEF Watched

LEMMA QueuedMore ==
  ASSUME Typed, NEW p
  PROVE  /\ queue' = queue => (Queued(p) => Queued(p)')
         /\ \A r \in Requests : queue' = Append(queue, r) =>
               /\ Queued(p) => Queued(p)'
               /\ r.op = "NEW_FILE" /\ r.path = p => Queued(p)'
<1>1. queue \in Seq(Requests)
  BY DEF Typed, Reports
<1>2. ASSUME NEW r \in Requests, queue' = Append(queue, r)
      PROVE  /\ Queued(p) => Queued(p)'
             /\ r.op = "NEW_FILE" /\ r.path = p => Queued(p)'
  <2>1. /\ Len(queue) \in Nat /\ Len(queue') = Len(queue) + 1 /\ queue'[Len(queue) + 1] = r
        /\ \A j \in 1 .. Len(queue) : queue'[j] = queue[j]
    BY <1>1, <1>2, AppendProperties
  <2>2. /\ \A j \in 1 .. Len(queue) : j \in 1 .. Len(queue')
        /\ Len(queue) + 1 \in 1 .. Len(queue')
    BY <2>1
  <2>3. QED
    BY <2>1, <2>2 DEF Queued
<1>3. queue' = queue => (Queued(p) => Queued(p)')
  BY DEF Queued
<1>4. QED
  BY <1>2, <1>3

LEMMA AllWatchedUser ==
  ASSUME Typed, Typed', Sound, Sound', Noticing, User
  PROVE  AllWatched'
<1>1. /\ UNCHANGED <<env, notifier, told, watch, queue>>
  BY UserCaught
<1>2. SUFFICES ASSUME ~env.lag, Present = {}, NEW p \in Files, disk'[p] # 0
               PROVE  Watched(p)'
  BY <1>1 DEF AllWatched
<1>3. disk \in [Names -> 0 .. MaxInode] /\ p \in Names
  BY FilesNames DEF Typed, Folder
<1>4. Unhandled("create", p) => Unhandled("create", p)'
  BY UserNews, NamedMild DEF Unhandled, User
<1>5. Unhandled("moved_to", p) => Unhandled("moved_to", p)'
  BY UserNews, NamedMild DEF Unhandled, User
<1>6. CASE disk'[p] = disk[p]
  <2>1. Watched(p)
    BY <1>2, <1>6 DEF Noticing, AllWatched
  <2>2. Queued(p) => Queued(p)'
    BY <1>1 DEF Queued
  <2>3. QED
    BY <1>1, <1>4, <1>5, <1>6, <2>1, <2>2, WatchedKept
<1>7. CASE disk'[p] # disk[p]
  <2>1. CASE (\E q \in Files : UserOpen(q)) \/ UserWrite \/ UserClose
    BY <1>7, <2>1 DEF UserOpen, UserWrite, UserClose, folderVars
  <2>2. ASSUME NEW q \in Files, UserRemove(q) \/ UserMoveOut(q)
        PROVE  FALSE
    BY <1>2, <1>3, <1>7, <2>2 DEF UserRemove, UserMoveOut
  <2>3. ASSUME NEW q \in Files, UserCreate(q)
        PROVE  Watched(p)'
    <3>1. p = q
      BY <1>3, <1>7, <2>3 DEF UserCreate
    <3>2. Unhandled("create", p)'
      BY <2>3, <3>1, UserNews, NamedMild DEF Unhandled
    <3>3. QED
      BY <3>2 DEF Watched
  <2>4. ASSUME NEW q \in Files, UserMoveIn(q)
        PROVE  Watched(p)'
    <3>1. p = q /\ Renames
      BY <1>3, <1>7, <2>4 DEF UserMoveIn, Edits, Renames
    <3>2. Unhandled("moved_to", p)'
      BY <2>4, <3>1, UserNews, NamedMild DEF Unhandled
    <3>3. env'.remote = {}
      BY <1>1, <3>1, Classes
    <3>4. QED
      BY <3>2, <3>3 DEF Watched
  <2>5. ASSUME NEW n \in Files, NEW q \in Files, UserMove(n, q)
        PROVE  Watched(p)'
    <3>1. p = q /\ Renames
      BY <1>2, <1>3, <1>7, <2>5 DEF UserMove, Edits, Renames
    <3>2. Unhandled("moved_to", p)'
      BY <2>5, <3>1, UserNews, NamedMild DEF Unhandled
    <3>3. env'.remote = {}
      BY <1>1, <3>1, Classes
    <3>4. QED
      BY <3>2, <3>3 DEF Watched
  <2>6. QED
    BY <2>1, <2>2, <2>3, <2>4, <2>5 DEF User
<1>8. QED
  BY <1>6, <1>7

LEMMA AllWatchedSender ==
  ASSUME Typed, Typed', Sound, Sound', Noticing, Sender
  PROVE  AllWatched'
<1>1. UNCHANGED <<env, disk, notifier>>
  BY SenderFrame
<1>2. SUFFICES ASSUME ~env.lag, Present = {}, NEW p \in Files, disk[p] # 0
               PROVE  Watched(p)'
  BY <1>1 DEF AllWatched
<1>3. Watched(p) /\ p \in Names
  BY <1>2, FilesNames DEF Noticing, AllWatched
<1>4. Kept(p)
  <2>1. Stream \in Seq(Told) /\ Stream' \in Seq(Told) /\ Longer(Stream, Stream', Milds)
    BY SenderStream
  <2>2. \A y : y \notin Milds => (Has(Stream', y) <=> Has(Stream, y))
    BY <2>1, HasLonger
  <2>3. QED
    BY <2>2, QuietNews
<1>5. /\ Unhandled("create", p) => Unhandled("create", p)'
      /\ Unhandled("moved_to", p) => Unhandled("moved_to", p)'
  BY <1>4 DEF Kept
<1>6. CASE Dequeue
  <2> DEFINE r == Head(queue)
  <2>1. /\ queue \in Seq(Requests) /\ queue # <<>> /\ queue' = Tail(queue) /\ r \in Requests
        /\ IF r.op = "NEW_FILE" THEN WatchFile(r.path) ELSE watch' = watch
    BY <1>6 DEF Dequeue, Typed, Reports
  <2>2. /\ Len(queue) \in Nat \ {0} /\ Len(queue') = Len(queue) - 1 /\ r = queue[1]
        /\ \A j \in 1 .. Len(queue) - 1 : queue'[j] = queue[j + 1]
    BY <2>1, EmptySeq, HeadTailProperties
  <2> HIDE DEF r
  <2>3. r.path \in Names
    BY <2>1, FilesNames DEF Requests
  <2>4. watch[disk[p]] # None => watch'[disk[p]] # None
    BY <1>2, <1>3, <2>1, <2>3, WatchGrows
  <2>5. r.op = "NEW_FILE" /\ r.path = p => watch'[disk[p]] # None
    BY <1>2, <2>1, <2>3, WatchGrows
  <2>6. Queued(p) => Queued(p)' \/ (r.op = "NEW_FILE" /\ r.path = p)
    <3>1. SUFFICES ASSUME NEW j \in 1 .. Len(queue), queue[j].op = "NEW_FILE", queue[j].path = p
                   PROVE  Queued(p)' \/ (r.op = "NEW_FILE" /\ r.path = p)
      BY DEF Queued
    <3>2. CASE j = 1
      BY <2>2, <3>1, <3>2
    <3>3. CASE j # 1
      <4>1. j - 1 \in 1 .. Len(queue) - 1 /\ (j - 1) + 1 = j /\ j - 1 \in 1 .. Len(queue')
        BY <2>2, <3>3
      <4>2. queue'[j - 1] = queue[(j - 1) + 1]
        BY <2>2, <4>1
      <4>3. QED
        BY <3>1, <4>1, <4>2 DEF Queued
    <3>4. QED
      BY <3>2, <3>3
  <2>7. CASE Queued(p) => Queued(p)'
    BY <1>1, <1>3, <1>5, <2>4, <2>7, WatchedKept
  <2>8. CASE r.op = "NEW_FILE" /\ r.path = p
    BY <1>1, <2>5, <2>8 DEF Watched
  <2>9. QED
    BY <2>6, <2>7, <2>8
<1>7. CASE ~Dequeue
  <2>1. queue' = queue /\ (watch' = watch \/ (SendMove /\ WatchFile(sender.to)))
    BY <1>7 DEF Sender, SendContent, GetModificationTime, ChangeModificationTime, SendDeletion, SendMove
  <2>2. SendMove => sender.to \in Names
    BY FilesNames DEF SendMove, Sends, Typed, Threads
  <2>3. watch[disk[p]] # None => watch'[disk[p]] # None
    BY <1>2, <1>3, <2>1, <2>2, WatchGrows
  <2>4. QED
    BY <1>1, <1>3, <1>5, <2>1, <2>3, QueuedMore, WatchedKept
<1>8. QED
  BY <1>6, <1>7

LEMMA AllWatchedReceiver ==
  ASSUME Typed, Typed', Sound, Sound', Noticing, Receiver
  PROVE  AllWatched'
<1>1. /\ env.remote # {} /\ Stream = <<>> /\ env' = env /\ queue' = queue /\ ~env.lag /\ Present = {}
      /\ events' = events /\ notifier' = notifier
  BY ReceiverCaught
<1>2. SUFFICES ASSUME NEW p \in Files, disk'[p] # 0
               PROVE  watch'[disk'[p]] # None \/ Unhandled("create", p)'
  BY DEF AllWatched, Watched
<1>3. disk[p] # 0 => watch[disk[p]] # None
  BY <1>1, EmptyHas DEF Noticing, AllWatched, Watched, Unhandled
<1>4. p \in Names /\ p # Hidden /\ disk \in [Names -> 0 .. MaxInode]
  BY FilesNames DEF Typed, Folder
<1>5. receiver.at # "idle" => receiver.path \in Names
  BY DEF Typed, Threads
<1>6. CASE OpenFile
  <2> DEFINE n == receiver.path
  <2>1. n \in Names /\ watch' = watch
    BY <1>5, <1>6 DEF OpenFile, Goes, Receives
  <2>2. CASE disk' = disk
    BY <1>2, <1>3, <2>1, <2>2
  <2>3. CASE /\ kernel' = Named(Named(kernel, "create", n), "open", n)
             /\ disk' = [disk EXCEPT ![n] = made + 1]
    <3> HIDE DEF n
    <3>1. CASE p # n
      BY <1>2, <1>3, <1>4, <2>1, <2>3, <3>1
    <3>2. CASE p = n
      <4>1. \E s \in Seq(Told) : /\ Joined(Stream, s, Token("create", p))
                                 /\ Joined(s, Stream', Token("open", p))
        BY <1>1, <2>1, <2>3, <3>2, CreatedStep DEF Sound
      <4>2. Token("create", p) = [type |-> "create", path |-> p] /\ Token("open", p) \in Told
            /\ Token("create", p) \in Told
        BY <1>4, TokenOf, NameTokens DEF Token, Kinds, Mild
      <4>3. Stream \in Seq(Told)
        BY <1>1, EmptyHas
      <4>4. Has(Stream', [type |-> "create", path |-> p])
        BY <4>1, <4>2, <4>3, HasJoined
      <4>5. QED
        BY <4>4 DEF Unhandled
    <3>3. QED
      BY <3>1, <3>2
  <2>4. QED
    BY <1>6, <2>2, <2>3 DEF OpenFile
<1>7. CASE DeleteFile
  <2>1. watch' = watch /\ (disk' = disk \/ disk' = [disk EXCEPT ![receiver.path] = 0])
        /\ receiver.path \in Names
    BY <1>5, <1>7 DEF DeleteFile, Receives
  <2>2. disk'[p] = disk[p]
    BY <1>2, <1>4, <2>1
  <2>3. QED
    BY <1>2, <1>3, <2>1, <2>2
<1>8. CASE ~OpenFile /\ ~DeleteFile
  <2>1. disk' = disk /\ (watch' = watch \/ (WatchReceived /\ WatchFile(receiver.path)))
    BY <1>8 DEF Receiver, ReceiverStep, ReceiveNewFile, ReceiveDeletion, Arrives, WriteFile,
              CloseFile, Received, SetReceivedTime, Unlock, WatchReceived, folderVars
  <2>2. WatchReceived => receiver.path \in Names
    BY <1>5 DEF WatchReceived, Receives
  <2>3. QED
    BY <1>2, <1>3, <1>4, <2>1, <2>2, WatchGrows
<1>9. QED
  BY <1>6, <1>7, <1>8

LEMMA AllWatchedNotifier ==
  ASSUME Typed, Typed', Sound, Sound', Noticing, ~Doomed, Notifier
  PROVE  AllWatched'
<1>1. env' = env /\ disk' = disk
  BY DEF Notifier, Poll, Read, RunOnce, CatchAllEvents, DetermineMoveType, GetNextEvent, bounds,
         folderVars
<1>2. SUFFICES ASSUME ~env.lag, Present = {}, NEW p \in Files, disk[p] # 0
               PROVE  Watched(p)'
  BY <1>1 DEF AllWatched
<1>3. Watched(p) /\ p \in Names /\ Moves
  BY <1>2, FilesNames DEF Noticing, AllWatched
<1>4. ASSUME queue' = queue \/ \E r \in Requests : queue' = Append(queue, r)
      PROVE  Queued(p) => Queued(p)'
  BY <1>4, QueuedMore
<1>5. ASSUME Unhandled("create", p) => Unhandled("create", p)',
             Unhandled("moved_to", p) => Unhandled("moved_to", p)',
             queue' = queue \/ \E r \in Requests : queue' = Append(queue, r),
             watch[disk[p]] # None => watch'[disk[p]] # None
      PROVE  Watched(p)'
  BY <1>1, <1>3, <1>4, <1>5, WatchedKept
<1>6. CASE Poll \/ Read
  <2>1. Stream' = Stream
    BY <1>6, PollStream, ReadStream
  <2>2. UNCHANGED <<watch, queue>>
    BY <1>6 DEF Poll, Read, bounds, folderVars, notifierVars
  <2>3. \A t : Unhandled(t, p)' <=> Unhandled(t, p)
    BY <2>1 DEF Unhandled
  <2>4. QED
    BY <1>5, <2>2, <2>3
<1>7. CASE RunOnce
  <2>1. /\ Stream \in Seq(Told) /\ Stream # <<>> /\ notifier.at = "runOnce"
    BY <1>7, RunOnceCases DEF NotifierFrame
  <2>2. CASE RunsQuiet
    <3>1. Kept(p)
      BY <2>1, <2>2, TailKept, NamedMild DEF RunsQuiet
    <3>2. QED
      BY <1>5, <2>2, <3>1 DEF RunsQuiet, Kept
  <2>3. CASE RunsModify
    <3>1. \A t : Unhandled(t, p)' <=> Unhandled(t, p)
      BY <2>3 DEF Unhandled, RunsModify
    <3>2. QED
      BY <1>5, <2>3, <3>1 DEF RunsModify
  <2>4. ASSUME NEW q \in Files, RunsMovedFrom(q)
        PROVE  Watched(p)'
    <3>1. /\ Unhandled("create", p) => Unhandled("create", p)'
          /\ Unhandled("moved_to", p) => Unhandled("moved_to", p)'
      BY <2>1, <2>4, TailNews DEF RunsMovedFrom
    <3>2. QED
      BY <1>5, <2>4, <3>1 DEF RunsMovedFrom
  <2>5. ASSUME NEW q \in Files, RunsDelete(q)
        PROVE  Watched(p)'
    <3>1. /\ Unhandled("create", p) => Unhandled("create", p)'
          /\ Unhandled("moved_to", p) => Unhandled("moved_to", p)'
      BY <2>1, <2>5, TailNews DEF RunsDelete
    <3>2. watch' = watch /\ (queue' = queue \/ queue' = Append(queue, Request("DELETE", q, None)))
      BY <2>5 DEF RunsDelete
    <3>3. QED
      BY <1>5, <3>1, <3>2, RequestTyped
  <2>6. ASSUME NEW q \in Files, RunsCreate(q)
        PROVE  Watched(p)'
    <3>1. /\ Unhandled("create", p) => Unhandled("create", p)' \/ p = q
          /\ Unhandled("moved_to", p) => Unhandled("moved_to", p)'
      BY <2>1, <2>6, TailNews DEF RunsCreate
    <3>2. WatchFile(q) /\ (queue' = queue \/ queue' = Append(queue, Request("NEW_FILE", q, None)))
      BY <2>6 DEF RunsCreate
    <3>3. watch[disk[p]] # None => watch'[disk[p]] # None
      BY <1>2, <1>3, <3>2, FilesNames, WatchGrows
    <3>4. p = q => watch'[disk[p]] # None
      BY <1>2, <3>2, FilesNames, WatchGrows
    <3>5. CASE p = q
      BY <1>1, <3>4, <3>5 DEF Watched
    <3>6. CASE p # q
      BY <1>5, <3>1, <3>2, <3>3, <3>6, RequestTyped
    <3>7. QED
      BY <3>5, <3>6
  <2>7. ASSUME NEW q \in Files, RunsMovedTo(q)
        PROVE  Watched(p)'
    <3> DEFINE r == Request("NEW_FILE", q, None)
    <3>1. /\ Unhandled("create", p) => Unhandled("create", p)'
          /\ Unhandled("moved_to", p) => Unhandled("moved_to", p)' \/ p = q
      BY <2>1, <2>7, TailNews DEF RunsMovedTo
    <3>2. watch' = watch /\ queue' = Append(queue, r) /\ r \in Requests /\ r.op = "NEW_FILE" /\ r.path = q
      BY <2>7, RequestTyped DEF RunsMovedTo, Request
    <3> HIDE DEF r
    <3>3. CASE p = q
      <4>1. Queued(p)'
        BY <3>2, <3>3, QueuedMore
      <4>2. Renames
        <5>1. 1 \in 1 .. Len(Stream) /\ Stream[1].type = "moved_to"
          BY <2>1, <2>7, HasFirst DEF RunsMovedTo
        <5>2. QED
          BY <1>3, <5>1 DEF Moves
      <4>3. env'.remote = {}
        BY <1>1, <4>2, Classes
      <4>4. QED
        BY <4>1, <4>3 DEF Watched
    <3>4. CASE p # q
      BY <1>5, <3>1, <3>2, <3>4
    <3>5. QED
      BY <3>3, <3>4
  <2>8. QED
    BY <1>7, <2>2, <2>3, <2>4, <2>5, <2>6, <2>7, RunOnceCases
<1>8. CASE CatchAllEvents
  <2>1. /\ Stream \in Seq(Told) /\ Stream # <<>> /\ watch' = watch
        /\ notifier.path \in Files /\ Stream[1] = Modified /\ Stream[2] \in Milds /\ Len(Stream) >= 2
        /\ CatchesOn \/ CatchesLast
    BY <1>8, CatchCases DEF NotifierFrame
  <2> DEFINE s == Tail(Stream)
  <2>2. /\ \A y : Has(Stream, y) <=> Has(s, y) \/ y = Modified
        /\ s \in Seq(Told) /\ Len(s) = Len(Stream) - 1 /\ Len(Stream) \in Nat
        /\ s[1] = Stream[2]
    <3>1. /\ \A y : Has(Stream, y) <=> Has(s, y) \/ y = Modified
          /\ s \in Seq(Told) /\ Len(s) = Len(Stream) - 1 /\ Len(Stream) \in Nat
          /\ \A j \in 1 .. Len(Stream) - 1 : s[j] = Stream[j + 1]
      BY <2>1, TailTold
    <3>2. 1 \in 1 .. Len(Stream) - 1
      BY <2>1, <3>1
    <3>3. s[1] = Stream[1 + 1]
      BY <3>1, <3>2
    <3> HIDE DEF s
    <3>4. QED
      BY <3>1, <3>3
  <2>3. Modified \in Milds
    BY Tokens DEF Mild
  <2>4. Len(s) # 0
    BY <2>1, <2>2
  <2>5. Stream' \in {s, Tail(s)}
    BY <2>1 DEF CatchesOn, CatchesLast
  <2> HIDE DEF s
  <2>6. s # <<>>
    BY <2>4
  <2>7. \A y : Has(s, y) <=> Has(Tail(s), y) \/ y = Stream[2]
    BY <2>2, <2>6, TailTold
  <2>8. /\ Unhandled("create", p) => Unhandled("create", p)'
        /\ Unhandled("moved_to", p) => Unhandled("moved_to", p)'
    BY <2>1, <2>2, <2>3, <2>5, <2>7, NamedMild DEF Unhandled
  <2>9. queue' = queue \/ queue' = Append(queue, Request("NEW_FILE", notifier.path, None))
    BY <2>1 DEF CatchesOn, CatchesLast
  <2>10. QED
    BY <1>5, <2>1, <2>8, <2>9, RequestTyped
<1>9. CASE DetermineMoveType
  <2>1. /\ Stream \in Seq(Told) /\ Stream # <<>>
        /\ notifier.at = "determineMoveType" /\ watch' = watch
        /\ notifier.path \in Files /\ Stream' = Tail(Stream)
        /\ MovesOut \/ \E q \in Files : MovesTo(q)
    BY <1>9, DetermineCases DEF NotifierFrame
  <2>2. CASE MovesOut
    <3>1. Kept(p)
      BY <2>1, <2>2, TailKept, NamedMild DEF MovesOut
    <3>2. queue' = queue \/ queue' = Append(queue, Request("DELETE", notifier.path, None))
      BY <2>2 DEF MovesOut
    <3>3. QED
      BY <1>5, <2>1, <3>1, <3>2, RequestTyped DEF Kept
  <2>3. ASSUME NEW q \in Files, MovesTo(q)
        PROVE  Watched(p)'
    <3>1. Stream[1] = [type |-> "moved_to", path |-> q]
          /\ queue' = Append(queue, Request("MOVE", notifier.path, q))
      BY <2>3 DEF MovesTo
    <3>2. /\ Unhandled("create", p) => Unhandled("create", p)'
          /\ Unhandled("moved_to", p) => Unhandled("moved_to", p)' \/ p = q
      BY <2>1, <3>1, TailNews
    <3>3. CASE p = q
      <4>1. watch[disk[q]] # None
        BY <1>3, <2>1, <3>1 DEF Moves, Follows
      <4>2. QED
        BY <1>1, <2>1, <3>3, <4>1 DEF Watched
    <3>4. CASE p # q
      BY <1>5, <2>1, <3>1, <3>2, <3>4, RequestTyped
    <3>5. QED
      BY <3>3, <3>4
  <2>4. QED
    BY <2>1, <2>2, <2>3
<1>10. QED
  BY <1>6, <1>7, <1>8, <1>9 DEF Notifier

-----------------------------------------------------------------------------
(* Traced *)

\* The parts of Traced.
Seen == /\ \A j \in 1 .. Len(events) : events[j].path \in used
        /\ \A j \in 1 .. Len(kernel) : kernel[j].wd = 0 => kernel[j].name \in used
        /\ \A i \in Inodes : watch[i] # None => watch[i] \in used
        /\ notifier.at # "runOnce" => notifier.path \in used
Placed == /\ used \subseteq env.files /\ perm \subseteq used
          /\ \A p \in Files : disk[p] # 0 \/ info[p] # "unknown" => p \in used

LEMMA TracedParts == Traced <=> (Renames => Placed /\ Seen)
  BY DEF Traced, Placed, Seen

\* The names of events of the kernel.
NamesUsed(k) == \A j \in 1 .. Len(k) : k[j].wd = 0 => k[j].name \in used'

LEMMA NamedSeen ==
  ASSUME NEW k \in Seq(KernelEvent), NamesUsed(k), NEW t \in Kinds, NEW p \in Names, p \in used'
  PROVE  NamesUsed(Named(k, t, p)) /\ Named(k, t, p) \in Seq(KernelEvent)
<1> DEFINE e == [type |-> t, wd |-> 0, name |-> p]
<1>1. e \in KernelEvent /\ e.name = p
  BY BoundsAssumption DEF KernelEvent
<1> HIDE DEF e
<1>2. /\ Append(k, e) \in Seq(KernelEvent) /\ Len(Append(k, e)) = Len(k) + 1 /\ Len(k) \in Nat
      /\ \A j \in 1 .. Len(k) : Append(k, e)[j] = k[j]
      /\ Append(k, e)[Len(k) + 1] = e
  BY <1>1, AppendProperties
<1>3. \A j \in 1 .. Len(Append(k, e)) : j \in 1 .. Len(k) \/ j = Len(k) + 1
  BY <1>2
<1>4. NamesUsed(Append(k, e))
  BY <1>1, <1>2, <1>3 DEF NamesUsed
<1>5. QED
  BY <1>2, <1>4 DEF Named, Noted, e

LEMMA OwnSeen ==
  ASSUME NEW k \in Seq(KernelEvent), NamesUsed(k), NEW t \in Kinds, NEW i \in 0 .. MaxInode
  PROVE  NamesUsed(Own(k, t, i)) /\ Own(k, t, i) \in Seq(KernelEvent)
<1> DEFINE e == [type |-> t, wd |-> i, name |-> None]
<1>1. e \in KernelEvent /\ e.wd = i
  BY DEF KernelEvent
<1> HIDE DEF e
<1>2. /\ Append(k, e) \in Seq(KernelEvent) /\ Len(Append(k, e)) = Len(k) + 1 /\ Len(k) \in Nat
      /\ \A j \in 1 .. Len(k) : Append(k, e)[j] = k[j]
      /\ Append(k, e)[Len(k) + 1] = e
  BY <1>1, AppendProperties
<1>3. \A j \in 1 .. Len(Append(k, e)) : j \in 1 .. Len(k) \/ j = Len(k) + 1
  BY <1>2
<1>4. i # 0 => NamesUsed(Append(k, e))
  BY <1>1, <1>2, <1>3 DEF NamesUsed
<1>5. QED
  BY <1>2, <1>4 DEF Own, Noted, e

LEMMA RaisedSeen ==
  ASSUME Typed, NEW k \in Seq(KernelEvent), NamesUsed(k), NEW t \in Kinds, NEW p \in Names, p \in used'
  PROVE  NamesUsed(Raised(k, t, p)) /\ Raised(k, t, p) \in Seq(KernelEvent)
<1>1. disk[p] \in 0 .. MaxInode
  BY DEF Typed, Folder
<1>2. QED
  BY <1>1, NamedSeen, OwnSeen DEF Raised

\* What was in use still is.
LEMMA SeenBefore ==
  ASSUME Typed, Seen, used \subseteq used'
  PROVE  NamesUsed(kernel) /\ kernel \in Seq(KernelEvent)
  BY DEF Seen, NamesUsed, Typed, Kernel, Legible

LEMMA WatchSeen ==
  ASSUME Typed, Placed, \A i \in Inodes : watch[i] # None => watch[i] \in used,
         NEW p \in Files, WatchFile(p) \/ watch' = watch
  PROVE  \A i \in Inodes : watch'[i] # None => watch'[i] \in used
<1>1. watch \in [Inodes -> Names \cup {None}]
  BY DEF Typed, Kernel
<1>2. disk[p] # 0 => p \in used
  BY DEF Placed
<1>3. QED
  BY <1>1, <1>2 DEF WatchFile

LEMMA TracedReceiver ==
  ASSUME Typed, Sound, Noticing, Receiver
  PROVE  Traced'
<1>1. ~Renames'
  BY ReceiverCaught DEF Renames
<1>2. QED
  BY <1>1 DEF Traced

LEMMA TracedSender ==
  ASSUME Typed, Sound, Noticing, Sender, Alive'
  PROVE  Traced'
<1>1. UNCHANGED <<env, disk, used, info, notifier, events>>
  BY SenderFrame
<1>2. SUFFICES ASSUME Renames PROVE Placed' /\ Seen'
  BY <1>1 DEF Traced, Placed, Seen, Renames
<1>3. Placed /\ Seen /\ NamesUsed(kernel) /\ kernel \in Seq(KernelEvent)
  BY <1>1, <1>2, SeenBefore DEF Noticing, Traced, Placed, Seen
<1>4. \A p \in Files : disk[p] # 0 => p \in used'
  BY <1>1, <1>3 DEF Placed
<1>5. sender.at \notin {"idle", "gone"} => sender.path \in Files
  BY DEF Typed, Threads
<1>6. sender \in SenderState
  BY DEF Typed, Threads
<1>7. perm' \subseteq used
  <2>1. CASE GetModificationTime
    <3>1. perm' = perm \cup {sender.path} /\ sender.path \in Files
      BY <1>5, <2>1 DEF GetModificationTime, Sends
    <3>2. disk[sender.path] # 0
      BY <1>6, <2>1 DEF GetModificationTime, Alive, SenderState
    <3>3. QED
      BY <1>3, <3>1, <3>2 DEF Placed
  <2>2. CASE ~GetModificationTime
    <3>1. perm' \subseteq perm
      BY <2>2 DEF Sender, Dequeue, SendContent, ChangeModificationTime, SendDeletion, SendMove
    <3>2. QED
      BY <1>3, <3>1 DEF Placed
  <2>3. QED
    BY <2>1, <2>2
<1>8. NamesUsed(kernel')
  <2>1. CASE kernel' = kernel
    BY <1>3, <2>1
  <2>2. CASE SendContent /\ kernel' # kernel
    <3> DEFINE p == sender.path
    <3>1. /\ disk[p] # 0 /\ p \in Files
          /\ kernel' = Raised(Raised(Raised(kernel, "open", p), "other", p), "close", p)
      BY <1>5, <2>2 DEF SendContent, Sends
    <3>2. p \in used' /\ p \in Names /\ {"open", "other", "close"} \subseteq Kinds
      BY <1>4, <3>1, FilesNames DEF Kinds
    <3> HIDE DEF p
    <3>3. NamesUsed(Raised(kernel, "open", p)) /\ Raised(kernel, "open", p) \in Seq(KernelEvent)
      BY <1>3, <3>2, RaisedSeen
    <3>4. NamesUsed(Raised(Raised(kernel, "open", p), "other", p))
          /\ Raised(Raised(kernel, "open", p), "other", p) \in Seq(KernelEvent)
      BY <3>2, <3>3, RaisedSeen
    <3>5. QED
      BY <3>1, <3>2, <3>4, RaisedSeen
  <2>3. CASE ChangeModificationTime /\ kernel' # kernel
    <3> DEFINE p == sender.path
    <3>1. disk[p] # 0 /\ p \in Files /\ kernel' = Raised(kernel, "other", p)
      BY <1>5, <2>3 DEF ChangeModificationTime, Sends
    <3>2. p \in used' /\ p \in Names /\ "other" \in Kinds
      BY <1>4, <3>1, FilesNames DEF Kinds
    <3> HIDE DEF p
    <3>3. QED
      BY <1>3, <3>1, <3>2, RaisedSeen
  <2>4. QED
    BY <2>1, <2>2, <2>3 DEF Sender, Dequeue, GetModificationTime, SendDeletion, SendMove
<1>9. \A i \in Inodes : watch'[i] # None => watch'[i] \in used
  <2>1. CASE watch' = watch
    BY <1>3, <2>1 DEF Seen
  <2>2. CASE Dequeue
    <3>1. queue \in Seq(Requests) /\ queue # <<>>
      BY <2>2 DEF Dequeue, Typed, Reports
    <3>2. Head(queue) \in Requests
      BY <3>1
    <3>3. Head(queue).path \in Files /\ (WatchFile(Head(queue).path) \/ watch' = watch)
      BY <2>2, <3>2 DEF Dequeue, Requests
    <3>4. QED
      BY <1>3, <3>3, WatchSeen DEF Seen
  <2>3. CASE SendMove
    <3>1. sender.to \in Files /\ WatchFile(sender.to)
      BY <2>3 DEF SendMove, Sends, Typed, Threads
    <3>2. QED
      BY <1>3, <3>1, WatchSeen DEF Seen
  <2>4. QED
    BY <2>1, <2>2, <2>3 DEF Sender, SendContent, GetModificationTime, ChangeModificationTime, SendDeletion
<1>10. QED
  BY <1>1, <1>3, <1>7, <1>8, <1>9 DEF Placed, Seen, NamesUsed

LEMMA TracedUser ==
  ASSUME Typed, Sound, Opened, Noticing, User
  PROVE  Traced'
<1>1. UNCHANGED <<env, events, notifier, watch, info, perm>> /\ CaughtUp
  BY UserCaught
<1>2. SUFFICES ASSUME Renames PROVE Placed' /\ Seen'
  BY <1>1 DEF Traced, Placed, Seen, Renames
<1>3. Placed /\ Seen
  BY <1>2 DEF Noticing, Traced, Placed, Seen
<1>4. /\ disk \in [Names -> 0 .. MaxInode] /\ user.path \in Files \cup {None} /\ None \notin Files
      /\ \A p \in Files : p \in Names
  BY FilesNames DEF Typed, Folder
<1>5. ASSUME used \subseteq used', used' \subseteq env.files,
             \A p \in Files : disk'[p] # 0 => disk[p] # 0 \/ p \in used',
             NamesUsed(kernel')
      PROVE  Placed' /\ Seen'
  BY <1>1, <1>3, <1>5 DEF Placed, Seen, NamesUsed
<1>6. \A p \in Files : disk[p] # 0 => p \in used
  BY <1>3 DEF Placed
<1>7. {"create", "open", "modify", "close", "delete", "moved_from", "moved_to", "other"} \subseteq Kinds
  BY DEF Kinds
<1>8. used \subseteq env.files
  BY <1>3 DEF Placed
<1>9. ASSUME used \subseteq used'
      PROVE  NamesUsed(kernel) /\ kernel \in Seq(KernelEvent)
  BY <1>3, <1>9, SeenBefore
<1>10. ASSUME NEW p \in Files, UserCreate(p)
       PROVE  Placed' /\ Seen'
  <2>1. /\ used' = used \cup {p} /\ disk' = [disk EXCEPT ![p] = made + 1] /\ p \in env.files
        /\ kernel' = Named(Named(kernel, "create", p), "open", p)
    BY <1>10 DEF UserCreate, Free
  <2>2. NamesUsed(Named(kernel, "create", p)) /\ Named(kernel, "create", p) \in Seq(KernelEvent)
    BY <1>4, <1>7, <1>9, <2>1, NamedSeen
  <2>3. NamesUsed(kernel')
    BY <1>4, <1>7, <2>1, <2>2, NamedSeen
  <2>4. QED
    BY <1>4, <1>5, <1>8, <2>1, <2>3
<1>11. ASSUME NEW p \in Files, UserOpen(p)
       PROVE  Placed' /\ Seen'
  <2>1. disk[p] # 0 /\ kernel' = Raised(kernel, "open", p) /\ UNCHANGED <<used, disk>>
    BY <1>11 DEF UserOpen, folderVars
  <2>2. NamesUsed(kernel')
    BY <1>4, <1>6, <1>7, <1>9, <2>1, RaisedSeen
  <2>3. QED
    BY <1>5, <1>8, <2>1, <2>2
<1>12. CASE UserWrite \/ UserClose
  <2>1. user.path # None /\ UNCHANGED <<used, disk>>
        /\ \E t \in {"modify", "close"} : kernel' = Raised(kernel, t, user.path)
    BY <1>12 DEF UserWrite, UserClose, folderVars
  <2>2. disk[user.path] # 0 /\ user.path \in Files
    BY <1>4, <2>1 DEF Opened
  <2>3. NamesUsed(kernel')
    BY <1>4, <1>6, <1>7, <1>9, <2>1, <2>2, RaisedSeen
  <2>4. QED
    BY <1>5, <1>8, <2>1, <2>3
<1>13. ASSUME NEW p \in Files, UserRemove(p)
       PROVE  Placed' /\ Seen'
  <2>1. disk[p] # 0 /\ kernel' = Unlinked(kernel, p) /\ used' = used /\ disk' = [disk EXCEPT ![p] = 0]
    BY <1>13 DEF UserRemove
  <2>2. disk[p] \in 0 .. MaxInode /\ p \in used'
    BY <1>4, <1>6, <2>1
  <2>3. NamesUsed(Own(kernel, "other", disk[p])) /\ Own(kernel, "other", disk[p]) \in Seq(KernelEvent)
    BY <1>7, <1>9, <2>1, <2>2, OwnSeen
  <2>4. /\ NamesUsed(Named(Own(kernel, "other", disk[p]), "delete", p))
        /\ Named(Own(kernel, "other", disk[p]), "delete", p) \in Seq(KernelEvent)
    BY <1>4, <1>7, <2>2, <2>3, NamedSeen
  <2>5. NamesUsed(kernel')
    BY <1>7, <2>1, <2>2, <2>4, OwnSeen DEF Unlinked
  <2>6. QED
    BY <1>4, <1>5, <1>8, <2>1, <2>5
<1>14. ASSUME NEW p \in Files, UserMoveIn(p)
       PROVE  Placed' /\ Seen'
  <2>1. /\ used' = used \cup {p} /\ disk' = [disk EXCEPT ![p] = made + 1] /\ p \in env.files
        /\ kernel' = Own(Named(kernel, "moved_to", p), "other", disk[p])
    BY <1>14 DEF UserMoveIn, Free
  <2>2. NamesUsed(Named(kernel, "moved_to", p)) /\ Named(kernel, "moved_to", p) \in Seq(KernelEvent)
    BY <1>4, <1>7, <1>9, <2>1, NamedSeen
  <2>3. NamesUsed(kernel')
    BY <1>4, <1>7, <2>1, <2>2, OwnSeen
  <2>4. QED
    BY <1>4, <1>5, <1>8, <2>1, <2>3
<1>15. ASSUME NEW p \in Files, UserMoveOut(p)
       PROVE  Placed' /\ Seen'
  <2>1. /\ used' = used /\ disk' = [disk EXCEPT ![p] = 0] /\ disk[p] # 0
        /\ kernel' = Own(Named(kernel, "moved_from", p), "other", disk[p])
    BY <1>15 DEF UserMoveOut
  <2>2. NamesUsed(Named(kernel, "moved_from", p)) /\ Named(kernel, "moved_from", p) \in Seq(KernelEvent)
    BY <1>4, <1>6, <1>7, <1>9, <2>1, NamedSeen
  <2>3. NamesUsed(kernel')
    BY <1>4, <1>7, <2>1, <2>2, OwnSeen
  <2>4. QED
    BY <1>4, <1>5, <1>8, <2>1, <2>3
<1>16. ASSUME NEW p \in Files, NEW q \in Files, UserMove(p, q)
       PROVE  Placed' /\ Seen'
  <2>1. /\ used' = used \cup {q} /\ disk' = [disk EXCEPT ![q] = disk[p], ![p] = 0] /\ q \in env.files
        /\ disk[p] # 0
        /\ kernel' = Own(Own(Named(Named(kernel, "moved_from", p), "moved_to", q),
                          "other", disk[q]), "other", disk[p])
    BY <1>16 DEF UserMove, Free
  <2>2. NamesUsed(Named(kernel, "moved_from", p)) /\ Named(kernel, "moved_from", p) \in Seq(KernelEvent)
    BY <1>4, <1>6, <1>7, <1>9, <2>1, NamedSeen
  <2> DEFINE k == Named(Named(kernel, "moved_from", p), "moved_to", q)
  <2>3. NamesUsed(k) /\ k \in Seq(KernelEvent)
    BY <1>4, <1>7, <2>1, <2>2, NamedSeen
  <2>4. kernel' = Own(Own(k, "other", disk[q]), "other", disk[p])
    BY <2>1
  <2> HIDE DEF k
  <2>5. NamesUsed(Own(k, "other", disk[q])) /\ Own(k, "other", disk[q]) \in Seq(KernelEvent)
    BY <1>4, <1>7, <2>3, OwnSeen
  <2>6. NamesUsed(kernel')
    BY <1>4, <1>7, <2>4, <2>5, OwnSeen
  <2>7. QED
    BY <1>4, <1>5, <1>8, <2>1, <2>6
<1>17. QED
  BY <1>10, <1>11, <1>12, <1>13, <1>14, <1>15, <1>16 DEF User

LEMMA TracedNotifier ==
  ASSUME Typed, Typed', Sound, Sound', Noticing, ~Doomed, Notifier
  PROVE  Traced'
<1>1. UNCHANGED <<env, disk, used, perm>>
  BY DEF Notifier, Poll, Read, RunOnce, CatchAllEvents, DetermineMoveType, GetNextEvent, bounds,
         folderVars
<1>2. SUFFICES ASSUME Renames PROVE Placed' /\ Seen'
  BY <1>1 DEF Traced, Placed, Seen, Renames
<1>3. Placed /\ Seen
  BY <1>2 DEF Noticing, Traced, Placed, Seen
<1>4. CASE Poll
  BY <1>1, <1>3, <1>4 DEF Poll, Placed, Seen, notifierVars
<1>5. CASE Read
  <2>1. /\ events' = [j \in DOMAIN kernel |-> Translated(kernel[j])] /\ kernel' = <<>>
        /\ UNCHANGED <<notifier, info, watch>>
    BY <1>5 DEF Read
  <2>2. kernel \in Seq(KernelEvent) /\ \A j \in 1 .. Len(kernel) : Tells(kernel[j])
    BY DEF Typed, Kernel, Legible
  <2>3. DOMAIN kernel = 1 .. Len(kernel) /\ Len(kernel) \in Nat
    BY <2>2
  <2>4. Len(events') = Len(kernel) /\ \A j \in 1 .. Len(kernel) : events'[j] = Translated(kernel[j])
    BY <2>1, <2>3
  <2>5. ASSUME NEW j \in 1 .. Len(kernel) PROVE Translated(kernel[j]).path \in used
    <3>1. kernel[j] \in KernelEvent /\ Tells(kernel[j])
      BY <2>2
    <3>2. CASE kernel[j].wd = 0
      BY <1>3, <3>2 DEF Seen, Translated
    <3>3. CASE kernel[j].wd # 0
      <4>1. kernel[j].wd \in Inodes /\ watch[kernel[j].wd] # None
        BY <3>1, <3>3, BoundsAssumption, NamesAssumption DEF KernelEvent, Inodes, Tells, Names
      <4>2. QED
        BY <1>3, <3>3, <4>1 DEF Seen, Translated
    <3>4. QED
      BY <3>2, <3>3
  <2>6. \A j \in 1 .. Len(events') : events'[j].path \in used
    BY <2>4, <2>5
  <2>7. Len(kernel') = 0
    BY <2>1
  <2>8. QED
    BY <1>1, <1>3, <2>1, <2>6, <2>7 DEF Placed, Seen
<1>6. CASE RunOnce \/ CatchAllEvents \/ DetermineMoveType
  <2>1. /\ events # <<>> /\ events' = Tail(events) /\ events \in Seq(EventType) /\ kernel' = kernel
    BY <1>6 DEF RunOnce, CatchAllEvents, DetermineMoveType, GetNextEvent, Typed, Kernel
  <2>2. /\ Len(events) \in Nat \ {0} /\ Len(events') = Len(events) - 1 /\ Head(events) = events[1]
        /\ \A j \in 1 .. Len(events) - 1 : events'[j] = events[j + 1]
    BY <2>1, EmptySeq, HeadTailProperties
  <2>3. \A j \in 1 .. Len(events') : events'[j].path \in used
    BY <1>3, <2>2 DEF Seen
  <2>4. Head(events).path \in used
    BY <1>3, <2>2 DEF Seen
  <2>5. notifier'.at # "runOnce" => notifier'.path \in used
    <3>1. CASE RunOnce
      BY <1>3, <2>4, <3>1 DEF RunOnce, Seen
    <3>2. CASE CatchAllEvents
      BY <1>3, <3>2 DEF CatchAllEvents, Seen, Idle
    <3>3. CASE DetermineMoveType
      BY <3>3, DetermineCases DEF Idle
    <3>4. QED
      BY <1>6, <3>1, <3>2, <3>3
  <2>6. \E q \in used : \A n \in Names : info'[n] # "unknown" => info[n] # "unknown" \/ disk[n] # 0 \/ n = q
    <3>1. CASE RunOnce
      BY <2>4, <3>1, RunOnceCases DEF NotifierFrame
    <3>2. CASE CatchAllEvents \/ DetermineMoveType
      <4>1. notifier.path \in used
        BY <1>3, <3>2, CatchCases, DetermineCases DEF Seen
      <4>2. QED
        BY <3>2, <4>1, CatchCases, DetermineCases DEF NotifierFrame
    <3>3. QED
      BY <1>6, <3>1, <3>2
  <2>7. \A p \in Files : info'[p] # "unknown" => p \in used
    BY <1>3, <2>6, FilesNames DEF Placed
  <2>8. \A i \in Inodes : watch'[i] # None => watch'[i] \in used
    <3>1. CASE watch' = watch
      BY <1>3, <3>1 DEF Seen
    <3>2. CASE RunOnce
      <4>1. WatchFile(Head(events).path) \/ watch' = watch
        BY <3>2 DEF RunOnce
      <4>2. Head(events).path \in Files
        BY <2>4 DEF Typed, Folder
      <4>3. QED
        BY <1>3, <4>1, <4>2, WatchSeen DEF Seen
    <3>3. QED
      BY <1>6, <3>1, <3>2 DEF CatchAllEvents, DetermineMoveType
  <2>9. QED
    BY <1>1, <1>3, <2>1, <2>3, <2>5, <2>7, <2>8 DEF Placed, Seen
<1>7. QED
  BY <1>4, <1>5, <1>6 DEF Notifier

-----------------------------------------------------------------------------
(* Noticed *)

LEMMA StreamEmpty ==
  ASSUME Typed, kernel = <<>>, events = <<>>
  PROVE  Stream = Waiting
<1>1. Legible(kernel) /\ events \in Seq(EventType)
  BY DEF Typed, Kernel
<1>2. Tales(events) = <<>> /\ KernelTales(kernel) = <<>>
  BY <1>1, TalesTyped, KernelTalesTyped, EmptySeq
<1>3. Waiting \in Seq(Told)
  BY WaitingTyped
<1> DEFINE e == <<>>
<1>4. e \in Seq(Told) /\ e \o e = e
  BY ConcatEmptySeq
<1>5. Waiting \o e = Waiting
  BY <1>3, ConcatEmptySeq
<1>6. QED
  BY <1>2, <1>4, <1>5 DEF Stream, StreamOf, Unread

LEMMA NoStream ==
  ASSUME Stream = <<>>, notifier.at # "determineMoveType", Work = <<>>, NEW p
  PROVE  ~Died(p) /\ ~Born(p) /\ ~Bound(p)
<1>1. \A t : ~Unhandled(t, p)
  BY EmptyHas DEF Unhandled
<1>2. Len(Work) = 0
  OBVIOUS
<1>3. (\A op : ~Requested(op, p)) /\ ~Bound(p)
  BY <1>2 DEF Requested, Bound
<1>4. QED
  BY <1>1, <1>3 DEF Died, Dying, Born

LEMMA NoticedInit == Init /\ Orderly(env) => Noticed
<1> SUFFICES ASSUME Init, Orderly(env) PROVE Noticed
  OBVIOUS
<1>1. Sound /\ Typed
  BY SoundInit, TypedInit
<1>2. Opened
  BY DEF Init, Opened, Away
<1>3. Stream = <<>> /\ notifier.at = "runOnce" /\ kernel = <<>> /\ events = <<>>
  <2>1. Waiting = <<>> /\ notifier.at = "runOnce" /\ kernel = <<>> /\ events = <<>>
    BY DEF Init, Waiting, Idle
  <2>2. QED
    BY <1>1, <2>1, StreamEmpty
<1>4. Work = <<>>
  BY DEF Init, Work, NoRequest
<1>5. Guard
  BY <1>3, EmptyHas, CalmGuard
<1>6. Len(Stream) = 0 /\ Len(Work) = 0 /\ Len(events) = 0 /\ Len(kernel) = 0
  BY <1>3, <1>4
<1>7. Moves
  BY <1>3, <1>6 DEF Moves
<1>8. Ordered
  BY <1>6 DEF Ordered
<1>9. PICK ino \in [Present -> 1 .. made] :
          disk = [p \in Names |-> IF p \in Present THEN ino[p] ELSE 0]
  BY DEF Init
<1>10. made \in Nat /\ \A p \in Names : disk[p] # 0 <=> p \in Present
  BY <1>1, <1>9 DEF Typed, Folder
<1>11. Accounted
  <2>1. /\ used = Present
        /\ told = [p \in Names |-> IF p \in Present THEN 0 ELSE Missing]
    BY DEF Init
  <2>2. \A p : ~Died(p) /\ ~Born(p) /\ ~Bound(p)
    BY <1>3, <1>4, NoStream
  <2>3. \A p \in Mine : p \in Names
    BY <1>1, MineFiles, FilesNames
  <2>4. \A p \in Mine : disk[p] # 0 <=> told[p] # Missing
    BY <1>10, <2>1, <2>3 DEF Missing
  <2>5. QED
    BY <1>10, <2>1, <2>2, <2>3, <2>4 DEF Accounted, Expected
<1>12. AllWatched
  BY <1>10, FilesNames DEF AllWatched
<1>13. Traced
  <2>1. SUFFICES ASSUME Renames PROVE Placed /\ Seen
    BY TracedParts
  <2>2. Present = {}
    BY <1>1, <2>1, Classes
  <2>3. /\ used = {} /\ perm = {} /\ \A p \in Names : info[p] = "unknown" /\ disk[p] = 0
        /\ watch = [i \in Inodes |-> None]
    BY <1>10, <2>2 DEF Init
  <2>4. QED
    BY <1>3, <1>6, <2>3, FilesNames DEF Placed, Seen
<1>14. QED
  BY <1>1, <1>2, <1>5, <1>7, <1>8, <1>11, <1>12, <1>13 DEF Noticed, Noticing

LEMMA AliveSteps == Next => Alive
  BY DEF Next, User, UserCreate, UserOpen, UserRemove, UserMoveIn, UserMoveOut, UserMove, UserWrite,
         UserClose, Edits, Notifier, Poll, Read, RunOnce, CatchAllEvents, DetermineMoveType,
         GetNextEvent, Sender, Dequeue, SendContent, GetModificationTime, ChangeModificationTime,
         SendDeletion, SendMove, Sends, Receiver, ReceiverStep, ReceiveNewFile, ReceiveDeletion,
         Arrives, OpenFile, WriteFile, CloseFile, Received, SetReceivedTime, Unlock, WatchReceived,
         DeleteFile, Goes, Receives

LEMMA NoticedStutter ==
  ASSUME Noticed, UNCHANGED vars
  PROVE  Noticed'
<1>1. UNCHANGED <<env, disk, made, data, watch, kernel, events, err, notifier, info, ignored,
                  perm, queue, sender, receiver, user, used, told>>
  BY DEF vars
<1>2. Stream' = Stream /\ Work' = Work /\ Mine' = Mine
  BY <1>1, WorkSame DEF Stream, StreamOf, Unread, Waiting, Tales, KernelTales, Translated, Mine
<1>3. Sound' <=> Sound
  BY <1>1, <1>2 DEF Sound, Settled, Apart, KeptUp, Alive
<1>4. (Opened' <=> Opened) /\ (Alive' <=> Alive) /\ (Renames' <=> Renames)
  BY <1>1 DEF Opened, Alive, Renames
<1>5. /\ \A t, p : Unhandled(t, p)' <=> Unhandled(t, p)
      /\ \A op, p : Requested(op, p)' <=> Requested(op, p)
      /\ \A p : Bound(p)' <=> Bound(p)
  BY <1>2 DEF Unhandled, Requested, Bound
<1>6. \A p : (Dying(p)' <=> Dying(p)) /\ (Died(p)' <=> Died(p)) /\ (Born(p)' <=> Born(p))
  BY <1>1, <1>5 DEF Dying, Died, Born
<1>7. \A p : Expected(p)' <=> Expected(p)
  BY <1>1, <1>5 DEF Expected
<1>8. Doomed' <=> Doomed
  BY <1>1, <1>2, <1>5 DEF Doomed
<1>9. Noticing => Guard' /\ Moves'
  BY <1>1, <1>2, MovesKept DEF Guard, Noticing
<1>10. Noticing => Accounted'
  BY <1>1, <1>2, <1>5, <1>6, AccountedFrame DEF Noticing
<1>11. Noticing => Ordered'
  BY <1>1, <1>2, <1>6, OrderedFrame DEF Noticing
<1>12. Noticing => AllWatched'
  BY <1>1, <1>5 DEF Noticing, AllWatched, Watched, Queued
<1>13. Noticing => Traced'
  BY <1>1, <1>4 DEF Noticing, Traced
<1>14. QED
  BY <1>3, <1>4, <1>8, <1>9, <1>10, <1>11, <1>12, <1>13 DEF Noticed, Noticing

LEMMA NoticedNext == Typed /\ Typed' /\ Noticed /\ [Next]_vars => Noticed'
<1> SUFFICES ASSUME Typed, Typed', Noticed, Next PROVE Noticed'
  BY NoticedStutter
<1>1. Sound /\ Opened /\ Sound' /\ Opened'
  BY SoundNext, OpenedNext DEF Noticed
<1>2. Alive
  BY AliveSteps
<1>3. SUFFICES ASSUME Alive', ~Doomed' PROVE Noticing'
  BY <1>1 DEF Noticed
<1>4. ~Doomed
  BY <1>1, <1>2, <1>3, DoomedKept
<1>5. Noticing
  BY <1>2, <1>4 DEF Noticed
<1>6. CASE User
  BY <1>1, <1>3, <1>5, <1>6, GuardUser, MovesUser, AccountedUser, OrderedUser, AllWatchedUser,
     TracedUser DEF Noticing
<1>7. CASE Notifier
  BY <1>1, <1>4, <1>5, <1>7, GuardNotifier, MovesNotifier, AccountedNotifier, OrderedNotifier,
     AllWatchedNotifier, TracedNotifier DEF Noticing
<1>8. CASE Sender
  BY <1>1, <1>3, <1>5, <1>8, GuardSender, MovesSender, AccountedSender, OrderedSender,
     AllWatchedSender, TracedSender DEF Noticing
<1>9. CASE Receiver
  BY <1>1, <1>5, <1>9, ReceiverStream, MovesReceiver, AccountedReceiver, OrderedReceiver,
     AllWatchedReceiver, TracedReceiver DEF Noticing
<1>10. QED
  BY <1>6, <1>7, <1>8, <1>9 DEF Next

LEMMA NoticedReported == Typed /\ Noticed => NamesReported
<1> SUFFICES ASSUME Typed, Noticed, AtRest PROVE NamesAgree
  BY DEF NamesReported
<1>1. Alive /\ kernel = <<>> /\ events = <<>> /\ queue = <<>> /\ sender.at = "idle" /\ user.path = None
  BY DEF AtRest
<1>2. Work = <<>>
  BY <1>1 DEF Work
<1>3. Len(Work) = 0
  BY <1>2
<1>4. ~Doomed
  BY <1>3 DEF Doomed, Requested
<1>5. Guard /\ Moves /\ Accounted
  BY <1>1, <1>4 DEF Noticed, Noticing
<1>6. Stream = Waiting
  BY <1>1, StreamEmpty
<1>7. notifier.at # "catchAllEvents"
  <2>1. SUFFICES ASSUME notifier.at = "catchAllEvents" PROVE FALSE
    OBVIOUS
  <2>2. Stream = <<Modified>>
    BY <1>6, <2>1 DEF Waiting
  <2> DEFINE s == <<Modified>>
  <2>3. s # <<>> /\ Len(s) = 1 /\ s[1].type = "modify"
    BY DEF Modified
  <2> HIDE DEF s
  <2>4. Stream = s
    BY <2>2 DEF s
  <2>5. ~Twice(Stream)
    BY <2>3, <2>4 DEF Twice
  <2>6. QED
    BY <1>1, <1>5, <2>3, <2>4, <2>5 DEF Guard
<1>8. Stream = <<>>
  BY <1>6, <1>7 DEF Waiting
<1>9. notifier.at # "determineMoveType"
  BY <1>5, <1>8 DEF Moves
<1>10. \A p : ~Died(p) /\ ~Born(p) /\ ~Bound(p)
  BY <1>2, <1>8, <1>9, NoStream
<1>11. QED
  BY <1>5, <1>10 DEF Accounted, Expected, NamesAgree

\* A name the user makes, removes or moves is reported sooner or later: whenever all
\* threads are at rest, the server has been told of exactly the files that there are,
\* although catchAllEvents puts events together, determineMoveType drops some and
\* isIgnored others (Notifier.cpp:140-180, ClientEventReporter.cpp:294-317).
THEOREM NamesNoticed == Spec /\ Orderly(env) => []NamesReported
<1>1. Init /\ Orderly(env) => Typed /\ Noticed
  BY TypedInit, NoticedInit
<1>2. Typed /\ Noticed /\ [Next]_vars => (Typed /\ Noticed)'
  BY TypedNext, NoticedNext
<1>3. Typed /\ Noticed => NamesReported
  BY NoticedReported
<1>4. QED
  BY <1>1, <1>2, <1>3, PTL DEF Spec

-----------------------------------------------------------------------------
(* What the server sent is not sent back *)

\* The file of name p is about to be written to; has been, and is open; has been closed
\* again, which is all that is unread.
Storing(p) == receiver.path = p /\ receiver.at \in {"open", "write"}
Writing(p) == receiver.path = p /\ receiver.at \in {"write", "close"}
Written(p) == /\ receiver.path = p /\ receiver.at = "received"
              /\ Unheard # {} /\ \A e \in Unheard : e.type # "modify"

\* A file has an inode of its own, whose watch tells the file's name.
Located ==
    /\ \A p \in Names : disk[p] <= made /\ (disk[p] # 0 => watch[disk[p]] \in {None, p})
    /\ \A p, q \in Names : disk[p] # 0 /\ disk[p] = disk[q] => p = q
    /\ \A i \in Inodes : watch[i] # None => i <= made

\* Nothing is moved, and the user has none of the server's files open.
Tidy == /\ env.ops \cap {"move", "in", "out"} = {}
        /\ notifier.at # "determineMoveType" /\ \A e \in Unheard : e.type # "moved_from"
        /\ user.path \in env.files \cup {None}

\* When the notifier keeps up: what would be reported of a file of the server's is read,
\* or put together, while the receiver still hides it.
Muted == \A e \in Unheard : e.type \in Loud /\ Servers(e.path) => Writing(e.path)
Gathered == notifier.at = "catchAllEvents" /\ Servers(notifier.path)
                => Writing(notifier.path) \/ Written(notifier.path)
Standing == receiver.at \in {"write", "close"} /\ receiver.path \in Theirs
                => disk[receiver.path] # 0

\* And a deletion of the server's is the first that is read of its path.
First(k) == \A i, j \in 1 .. Len(k) : i < j /\ k[j].type = "delete" => k[i].type = "other"
Foremost ==
    /\ First(kernel) /\ First(events)
    /\ \A e \in Unheard : e.path \in Theirs =>
          /\ e.type = "delete" => receiver.at = "idle"
          /\ receiver.at = "deleteFile" /\ receiver.path = e.path => e.type = "other"

\* The inductive invariant.
Prompt == KeptUp /\ Muted /\ Gathered /\ Standing /\ Foremost
Unanswered ==
    /\ Watchful(env)
    /\ env.remote = {} => receiver.at = "idle" /\ \A i \in Inodes : ByUser(data[i])
    /\ env.remote # {} => Located /\ Tidy /\ (~env.lag => Prompt)

LEMMA FreshByUser == edits \in Nat => ByUser(Fresh)
  BY SMT DEF ByUser, Fresh

LEMMA TheirsKept == [Next]_vars => env' = env /\ Theirs' = Theirs
  BY EnvKept DEF Theirs

\* All events of k are unread already, or of p and of a kind in T.
From(k, p, T) ==
    /\ k \in Seq(KernelEvent)
    /\ \A j \in 1 .. Len(k) :
          Translated(k[j]) \in Unheard \/ (k[j].type \in T /\ Translated(k[j]).path = p)

LEMMA FromKernel ==
  ASSUME Typed, NEW p, NEW T
  PROVE  From(kernel, p, T)
  BY DEF From, Unheard, Typed, Kernel, Legible

LEMMA FromNoted ==
  ASSUME NEW k, NEW p, NEW T, From(k, p, T),
         NEW e \in KernelEvent, e.type \in T, Translated(e).path = p
  PROVE  From(Noted(k, e), p, T) /\ Noted(k, e) # <<>>
<1>1. k \in Seq(KernelEvent) /\ Len(k) \in Nat
  BY DEF From
<1>2. /\ Append(k, e) \in Seq(KernelEvent) /\ Len(Append(k, e)) = Len(k) + 1
      /\ \A j \in 1 .. Len(k) : Append(k, e)[j] = k[j]
      /\ Append(k, e)[Len(k) + 1] = e
  BY <1>1
<1>3. ASSUME NEW j \in 1 .. Len(k) + 1
      PROVE  \/ Translated(Append(k, e)[j]) \in Unheard
             \/ Append(k, e)[j].type \in T /\ Translated(Append(k, e)[j]).path = p
  <2>1. j = Len(k) + 1 \/ j \in 1 .. Len(k)
    BY <1>1
  <2>2. QED
    BY <1>2, <2>1 DEF From
<1>4. Append(k, e) # <<>>
  BY <1>1, <1>2
<1>5. QED
  BY <1>2, <1>3, <1>4 DEF From, Noted

LEMMA FromNamed ==
  ASSUME NEW k, NEW p \in Names, NEW T \in SUBSET Kinds, From(k, p, T), NEW t \in T
  PROVE  From(Named(k, t, p), p, T) /\ Named(k, t, p) # <<>>
<1> DEFINE e == [type |-> t, wd |-> 0, name |-> p]
<1>1. e \in KernelEvent /\ e.type \in T /\ Translated(e).path = p
  BY BoundsAssumption DEF KernelEvent, Translated
<1>2. QED
  BY <1>1, FromNoted DEF Named

LEMMA FromOwn ==
  ASSUME Located, NEW k, NEW p \in Names, NEW T \in SUBSET Kinds, From(k, p, T), NEW t \in T,
         disk \in [Names -> 0 .. MaxInode]
  PROVE  From(Own(k, t, disk[p]), p, T) /\ (k # <<>> => Own(k, t, disk[p]) # <<>>)
<1> DEFINE e == [type |-> t, wd |-> disk[p], name |-> None]
<1>1. CASE disk[p] # 0 /\ watch[disk[p]] # None
  <2>1. e \in KernelEvent /\ e.type \in T /\ e.wd = disk[p]
    BY DEF KernelEvent
  <2>2. Translated(e).path = p
    BY <1>1, <2>1 DEF Located, Translated
  <2>3. QED
    BY <1>1, <2>1, <2>2, FromNoted DEF Own
<1>2. CASE ~(disk[p] # 0 /\ watch[disk[p]] # None)
  BY <1>2 DEF Own
<1>3. QED
  BY <1>1, <1>2

\* An access to p tells of p alone, and something.
LEMMA FromRaised ==
  ASSUME Located, NEW k, NEW p \in Names, NEW T \in SUBSET Kinds, From(k, p, T), NEW t \in T,
         disk \in [Names -> 0 .. MaxInode]
  PROVE  From(Raised(k, t, p), p, T) /\ Raised(k, t, p) # <<>>
  BY FromNamed, FromOwn DEF Raised

LEMMA FromUnlinked ==
  ASSUME Located, NEW k, NEW p \in Names, NEW T \in SUBSET Kinds, From(k, p, T),
         {"other", "delete"} \subseteq T, disk \in [Names -> 0 .. MaxInode]
  PROVE  From(Unlinked(k, p), p, T)
<1>1. From(Own(k, "other", disk[p]), p, T)
  BY FromOwn
<1>2. From(Named(Own(k, "other", disk[p]), "delete", p), p, T)
  BY <1>1, FromNamed
<1>3. QED
  BY <1>2, FromOwn DEF Unlinked

LEMMA UnheardEvents ==
  ASSUME Typed
  PROVE  /\ \A e \in Unheard : e \in EventType
         /\ Unheard = {} <=> events = <<>> /\ kernel = <<>>
<1>1. /\ events \in Seq(EventType) /\ kernel \in Seq(KernelEvent)
      /\ \A j \in 1 .. Len(kernel) : Tells(kernel[j])
  BY DEF Typed, Kernel, Legible
<1>2. ASSUME NEW j \in 1 .. Len(kernel) PROVE Translated(kernel[j]) \in EventType
  <2>1. kernel[j] \in KernelEvent /\ Tells(kernel[j])
    BY <1>1
  <2>2. QED
    BY <2>1 DEF Tells, Translated, KernelEvent, EventType
<1>3. /\ events # <<>> => 1 \in 1 .. Len(events)
      /\ kernel # <<>> => 1 \in 1 .. Len(kernel)
  BY <1>1, EmptySeq
<1>4. ASSUME events # <<>> \/ kernel # <<>> PROVE Unheard # {}
  <2>1. events # <<>> => events[1] \in Unheard
    BY <1>3 DEF Unheard
  <2>2. kernel # <<>> => Translated(kernel[1]) \in Unheard
    BY <1>3 DEF Unheard
  <2>3. QED
    BY <1>4, <2>1, <2>2
<1>5. ASSUME events = <<>>, kernel = <<>> PROVE Unheard = {}
  BY <1>5 DEF Unheard
<1>6. QED
  BY <1>1, <1>2, <1>4, <1>5 DEF Unheard

\* What another thread or the user adds to what is unread.
LEMMA UnheardRaised ==
  ASSUME Typed, UNCHANGED <<events, watch>>, NEW p, NEW T, From(kernel', p, T)
  PROVE  /\ \A e \in Unheard' : e \in Unheard \/ (e.type \in T /\ e.path = p)
         /\ kernel' # <<>> => Unheard' # {}
<1>1. Unheard' = {events[j] : j \in 1 .. Len(events)} \cup {Translated(kernel'[j]) : j \in 1 .. Len(kernel')}
  BY DEF Unheard, Translated
<1>2. \A e : Translated(e).type = e.type
  BY DEF Translated
<1>3. \A j \in 1 .. Len(events) : events[j] \in Unheard
  BY DEF Unheard
<1>4. kernel' # <<>> => 1 \in 1 .. Len(kernel')
  BY EmptySeq DEF From
<1>5. \A j \in 1 .. Len(kernel') :
          LET e == Translated(kernel'[j])
          IN  e \in Unheard \/ (e.type \in T /\ e.path = p)
  BY <1>2 DEF From
<1>6. \A e \in Unheard' : e \in Unheard \/ (e.type \in T /\ e.path = p)
  BY <1>1, <1>3, <1>5
<1>7. kernel' # <<>> => Unheard' # {}
  BY <1>1, <1>4
<1>8. QED
  BY <1>6, <1>7

\* A watch that is set for a file tells what is unread of it no other name.
LEMMA TranslatedKept ==
  ASSUME Typed, Located, watch' = watch \/ \E p \in Names : WatchFile(p)
  PROVE  \A j \in 1 .. Len(kernel) : \A k : k = kernel[j] => Translated(k)' = Translated(k)
<1>1. SUFFICES ASSUME NEW j \in 1 .. Len(kernel), NEW k, k = kernel[j], k.wd # 0
               PROVE  watch'[k.wd] = watch[k.wd]
  BY DEF Translated
<1>2. k.wd \in Inodes /\ watch[k.wd] \in Names
  <2>1. k \in KernelEvent /\ Tells(k)
    BY <1>1 DEF Typed, Kernel, Legible
  <2>2. QED
    BY <1>1, <2>1, BoundsAssumption DEF KernelEvent, Tells, Inodes
<1>3. CASE watch' = watch
  BY <1>3
<1>4. ASSUME NEW p \in Names, WatchFile(p), disk[p] # 0 PROVE watch'[k.wd] = watch[k.wd]
  <2>1. /\ watch' = [watch EXCEPT ![disk[p]] = p] /\ watch \in [Inodes -> Names \cup {None}]
        /\ watch[disk[p]] \in {None, p}
    BY <1>4 DEF WatchFile, Located, Typed, Kernel
  <2>2. QED
    BY <1>2, <2>1, NamesAssumption DEF Names
<1>5. QED
  BY <1>3, <1>4 DEF WatchFile

LEMMA UnheardKept ==
  ASSUME Typed, Located, UNCHANGED <<events, kernel>>,
         watch' = watch \/ \E p \in Names : WatchFile(p)
  PROVE  Unheard' = Unheard
<1>1. \A j \in 1 .. Len(kernel) : Translated(kernel[j])' = Translated(kernel[j])
  <2>1. ASSUME NEW j \in 1 .. Len(kernel), NEW k, k = kernel[j]
        PROVE  Translated(k)' = Translated(k) /\ kernel'[j] = k
    BY <2>1, TranslatedKept
  <2>2. QED
    BY <2>1 DEF Translated
<1>2. QED
  BY <1>1 DEF Unheard

LEMMA UnheardRead ==
  ASSUME Typed, Read
  PROVE  Unheard' = Unheard
<1>1. /\ events = <<>> /\ kernel' = <<>> /\ kernel \in Seq(KernelEvent)
      /\ events' = [j \in DOMAIN kernel |-> Translated(kernel[j])]
  BY DEF Read, Typed, Kernel, Legible
<1>2. DOMAIN kernel = 1 .. Len(kernel) /\ Len(events') = Len(kernel)
  BY <1>1
<1>3. Unheard' = {Translated(kernel[j]) : j \in 1 .. Len(kernel)}
  BY <1>1, <1>2 DEF Unheard
<1>4. QED
  BY <1>1, <1>3 DEF Unheard

\* The notifier takes the first of what has been read.
LEMMA UnheardTaken ==
  ASSUME Typed, Located, NEW at, GetNextEvent(at),
         watch' = watch \/ \E p \in Names : WatchFile(p)
  PROVE  Head(events) \in Unheard /\ Unheard' \subseteq Unheard
<1>1. /\ events \in Seq(EventType) /\ events # <<>> /\ events' = Tail(events) /\ kernel' = kernel
  BY DEF Typed, Kernel, GetNextEvent
<1>2. Len(events) \in Nat /\ Len(events) # 0 /\ Head(events) = events[1]
  BY <1>1, EmptySeq
<1>3. Head(events) \in Unheard
  BY <1>2 DEF Unheard
<1>4. Len(Tail(events)) = Len(events) - 1 /\ \A j \in 1 .. Len(events) - 1 : Tail(events)[j] = events[j + 1]
  BY <1>1, <1>2
<1>5. {Tail(events)[j] : j \in 1 .. Len(events) - 1} \subseteq {events[j] : j \in 1 .. Len(events)}
  <2>1. \A j \in 1 .. Len(events) - 1 : j + 1 \in 1 .. Len(events)
    BY <1>2
  <2>2. QED
    BY <1>4, <2>1
<1>6. \A j \in 1 .. Len(kernel) : Translated(kernel[j])' = Translated(kernel[j])
  <2>1. ASSUME NEW j \in 1 .. Len(kernel), NEW k, k = kernel[j]
        PROVE  Translated(k)' = Translated(k) /\ kernel'[j] = k
    BY <1>1, <2>1, TranslatedKept
  <2>2. QED
    BY <2>1 DEF Translated
<1>7. QED
  BY <1>1, <1>3, <1>4, <1>5, <1>6 DEF Unheard

\* What a step may add to what is unread: nothing of a move; nothing that is reported of
\* a file of the server's, but by the receiver that stores it; and of a deletion of the
\* server's only its end.
Noise(e) ==
    /\ e.type # "moved_from"
    /\ e.type \in Loud /\ Servers(e.path)' => Storing(e.path) /\ Writing(e.path)'
    /\ e.path \in Theirs =>
          /\ e.type = "delete" => /\ receiver.at = "deleteFile" /\ receiver.path = e.path
                                  /\ receiver'.at = "idle"
          /\ receiver'.at = "deleteFile" /\ receiver'.path = e.path => e.type = "other"
AddsNoise == /\ \A e \in Unheard' : e \in Unheard \/ Noise(e)
             /\ Unheard = {} => First(kernel')

\* And a file becomes the server's only when the receiver stores it.
Takes == \A q \in Names : Servers(q)' => Servers(q) \/ (Storing(q) /\ Writing(q)')

LEMMA AddsNothing ==
  ASSUME Typed, Unheard' \subseteq Unheard, kernel' = kernel \/ kernel' = <<>>
  PROVE  AddsNoise
<1>1. Unheard = {} => kernel = <<>>
  BY UnheardEvents
<1>2. First(<<>>)
  BY DEF First
<1>3. QED
  BY <1>1, <1>2 DEF AddsNoise

LEMMA AddsFrom ==
  ASSUME Typed, UNCHANGED <<events, watch>>, NEW p, NEW T, From(kernel', p, T),
         T \cap {"moved_from", "delete"} = {},
         T \cap Loud = {} \/ ~Servers(p)' \/ (Storing(p) /\ Writing(p)'),
         p \in Theirs /\ receiver'.at = "deleteFile" /\ receiver'.path = p => T \subseteq {"other"}
  PROVE  AddsNoise
<1>1. \A e \in Unheard' : e \in Unheard \/ (e.type \in T /\ e.path = p)
  BY UnheardRaised
<1>2. ASSUME NEW e, e.type \in T, e.path = p PROVE Noise(e)
  BY <1>2 DEF Noise
<1>3. ASSUME Unheard = {} PROVE First(kernel')
  <2>1. \A j \in 1 .. Len(kernel') : kernel'[j].type # "delete"
    BY <1>3 DEF From
  <2>2. QED
    BY <2>1 DEF First
<1>4. QED
  BY <1>1, <1>2, <1>3 DEF AddsNoise

LEMMA FirstOther ==
  ASSUME NEW k \in Seq(KernelEvent), First(k), NEW e \in KernelEvent,
         e.type = "delete" => \A j \in 1 .. Len(k) : k[j].type = "other"
  PROVE  First(Noted(k, e)) /\ Noted(k, e) \in Seq(KernelEvent)
<1>1. CASE Noted(k, e) = k
  BY <1>1
<1>2. CASE Noted(k, e) = Append(k, e)
  <2>1. /\ Len(k) \in Nat /\ Len(Append(k, e)) = Len(k) + 1 /\ Append(k, e)[Len(k) + 1] = e
        /\ \A j \in 1 .. Len(k) : Append(k, e)[j] = k[j]
    OBVIOUS
  <2>2. ASSUME NEW i \in 1 .. Len(k) + 1, NEW j \in 1 .. Len(k) + 1, i < j, Append(k, e)[j].type = "delete"
        PROVE  Append(k, e)[i].type = "other"
    <3>1. i \in 1 .. Len(k) /\ (j = Len(k) + 1 \/ j \in 1 .. Len(k))
      BY <2>1, <2>2
    <3>2. CASE j = Len(k) + 1
      BY <2>1, <2>2, <3>1, <3>2
    <3>3. CASE j \in 1 .. Len(k)
      BY <2>1, <2>2, <3>1, <3>3 DEF First
    <3>4. QED
      BY <3>1, <3>2, <3>3
  <2>3. First(Append(k, e))
    <3> DEFINE a == Append(k, e)
    <3>1. Len(a) = Len(k) + 1
      BY <2>1
    <3> HIDE DEF a
    <3>2. QED
      BY <2>2, <3>1 DEF First, a
  <2>4. QED
    BY <1>2, <2>3
<1>3. QED
  BY <1>1, <1>2 DEF Noted

LEMMA FirstUnlinked ==
  ASSUME Typed, kernel = <<>>, NEW p \in Names
  PROVE  First(Unlinked(kernel, p))
<1> DEFINE own == [type |-> "other", wd |-> disk[p], name |-> None]
           named == [type |-> "delete", wd |-> 0, name |-> p]
           tell == disk[p] # 0 /\ watch[disk[p]] # None
           one == IF tell THEN Noted(kernel, own) ELSE kernel
           two == Noted(one, named)
<1>1. own \in KernelEvent /\ named \in KernelEvent
  BY BoundsAssumption DEF KernelEvent, Kinds, Typed, Folder
<1>2. own.type = "other"
  OBVIOUS
<1>3. Unlinked(kernel, p) = IF tell THEN Noted(two, own) ELSE two
  BY DEF Unlinked, Own, Named
<1> HIDE DEF own
<1>4. one \in Seq(KernelEvent) /\ \A j \in 1 .. Len(one) : one[j].type = "other"
  <2>1. kernel = <<>> /\ <<>> \in Seq(KernelEvent) /\ Len(<<>>) = 0
    OBVIOUS
  <2>2. Noted(kernel, own) = Append(<<>>, own)
    BY <2>1 DEF Noted
  <2>3. /\ Append(<<>>, own) \in Seq(KernelEvent) /\ Len(Append(<<>>, own)) = 1
        /\ Append(<<>>, own)[1] = own
    BY <1>1, <2>1
  <2>4. CASE tell
    <3>1. one = Append(<<>>, own)
      BY <2>2, <2>4
    <3>2. \A j \in 1 .. 1 : j = 1
      OBVIOUS
    <3> HIDE DEF one, tell
    <3>3. QED
      BY <1>2, <2>3, <3>1, <3>2
  <2>5. CASE ~tell
    BY <2>1, <2>5
  <2>6. QED
    BY <2>4, <2>5
<1> HIDE DEF one
<1>5. First(one)
  BY <1>4 DEF First
<1> HIDE DEF named
<1>6. First(two) /\ two \in Seq(KernelEvent)
  BY <1>1, <1>4, <1>5, FirstOther
<1> HIDE DEF two
<1>7. First(Noted(two, own))
  BY <1>1, <1>2, <1>6, FirstOther
<1>8. QED
  BY <1>3, <1>6, <1>7

LEMMA AddsUnlinked ==
  ASSUME Typed, Located, UNCHANGED <<events, watch>>, NEW p \in Names, kernel' = Unlinked(kernel, p),
         p \in Theirs => receiver.at = "deleteFile" /\ receiver.path = p /\ receiver'.at = "idle"
  PROVE  AddsNoise
<1> DEFINE T == {"other", "delete"}
<1>1. T \in SUBSET Kinds /\ {"other", "delete"} \subseteq T
  BY DEF Kinds
<1>2. disk \in [Names -> 0 .. MaxInode] /\ From(kernel, p, T)
  BY FromKernel DEF Typed, Folder
<1>3. From(kernel', p, T)
  <2> HIDE DEF T
  <2>1. QED
    BY <1>1, <1>2, FromUnlinked
<1>4. \A e \in Unheard' : e \in Unheard \/ (e.type \in {"other", "delete"} /\ e.path = p)
  BY <1>3, UnheardRaised
<1>5. ASSUME NEW e, e.type \in {"other", "delete"}, e.path = p PROVE Noise(e)
  BY <1>5 DEF Noise, Loud
<1>6. Unheard = {} => First(kernel')
  BY FirstUnlinked, UnheardEvents
<1>7. QED
  BY <1>4, <1>5, <1>6 DEF AddsNoise

LEMMA LocatedWatch ==
  ASSUME Typed, Located, NEW p \in Names, WatchFile(p), UNCHANGED <<disk, made>>
  PROVE  Located'
<1>1. CASE disk[p] = 0
  BY <1>1 DEF WatchFile, Located
<1>2. CASE disk[p] # 0
  <2>1. /\ watch' = [watch EXCEPT ![disk[p]] = p] /\ watch \in [Inodes -> Names \cup {None}]
        /\ disk \in [Names -> 0 .. MaxInode]
    BY <1>2 DEF WatchFile, Typed, Kernel, Folder
  <2>2. \A q \in Names : disk[q] # 0 => disk[q] \in Inodes
    BY <2>1, BoundsAssumption DEF Inodes
  <2>3. \A i \in Inodes : watch'[i] = IF i = disk[p] THEN p ELSE watch[i]
    BY <2>1
  <2>4. QED
    BY <1>2, <2>2, <2>3 DEF Located
<1>3. QED
  BY <1>1, <1>2

LEMMA LocatedMade ==
  ASSUME Typed, Located, NEW p \in Names, made < MaxInode,
         disk' = [disk EXCEPT ![p] = made + 1], made' = made + 1, watch' = watch
  PROVE  Located' /\ made + 1 \in Inodes /\ \A q \in Names : disk[q] # made + 1
<1>1. disk \in [Names -> 0 .. MaxInode] /\ made \in 0 .. MaxInode
  BY DEF Typed, Folder
<1>2. \A q \in Names : disk'[q] = IF q = p THEN made + 1 ELSE disk[q]
  BY <1>1
<1>3. made + 1 \in Inodes /\ made \in Int /\ MaxInode \in Int /\ ~(made + 1 <= made)
  BY <1>1, BoundsAssumption DEF Inodes
<1>4. watch[made + 1] = None
  BY <1>3 DEF Located
<1>5. \A q \in Names : disk[q] # made + 1 /\ disk'[q] <= made + 1
  BY <1>1, <1>2, <1>3 DEF Located
<1>6. \A i \in Inodes : watch[i] # None => i <= made + 1
  BY <1>3 DEF Located, Inodes
<1>7. \A q \in Names : disk'[q] # 0 => watch[disk'[q]] \in {None, q}
  BY <1>2, <1>4 DEF Located
<1>8. \A q, r \in Names : disk'[q] # 0 /\ disk'[q] = disk'[r] => q = r
  BY <1>2, <1>5 DEF Located
<1>9. QED
  BY <1>3, <1>5, <1>6, <1>7, <1>8 DEF Located

LEMMA LocatedRemoved ==
  ASSUME Typed, Located, NEW p \in Names, disk' = [disk EXCEPT ![p] = 0], UNCHANGED <<made, watch>>
  PROVE  Located'
<1>1. disk \in [Names -> 0 .. MaxInode] /\ made \in 0 .. MaxInode
  BY DEF Typed, Folder
<1>2. \A q \in Names : disk'[q] = IF q = p THEN 0 ELSE disk[q]
  BY <1>1
<1>3. QED
  BY <1>1, <1>2 DEF Located

\* The user's versions are even, and she leaves the names of the server's alone.
LEMMA UserAdds ==
  ASSUME Typed, Located, Tidy, User, Theirs' = Theirs
  PROVE  Located' /\ AddsNoise /\ Takes /\ user'.path \in env.files \cup {None}
<1>1. UNCHANGED <<events, watch, receiver>>
  BY DEF User, UserCreate, UserOpen, UserRemove, UserMoveIn, UserMoveOut, UserMove, UserWrite,
         UserClose, Edits, notifierVars
<1>2. /\ env.files \subseteq Files /\ \A p \in env.files : p \in Names /\ p \notin Theirs
      /\ disk \in [Names -> 0 .. MaxInode] /\ data \in [Inodes -> Nat] /\ ByUser(Fresh)
  BY FreshByUser, SettingsAssumption DEF Names, Typed, Folder, Threads, Theirs
<1>3. \A p, T : From(kernel, p, T)
  BY FromKernel
<1>4. \A q \in Names : disk[q] # 0 => disk[q] \in Inodes
  BY <1>2, BoundsAssumption DEF Inodes
<1>5. ASSUME \A q \in Names : Echoing(q)' => Echoing(q) PROVE Takes
  BY <1>5 DEF Takes, Servers
<1>6. ASSUME NEW p \in env.files, UserCreate(p) PROVE Located' /\ AddsNoise /\ Takes
  <2>1. /\ made < MaxInode /\ disk' = [disk EXCEPT ![p] = made + 1] /\ made' = made + 1
        /\ data' = [data EXCEPT ![made + 1] = Fresh]
        /\ kernel' = Named(Named(kernel, "create", p), "open", p)
    BY <1>6 DEF UserCreate
  <2>2. Located' /\ made + 1 \in Inodes /\ \A q \in Names : disk[q] # made + 1
    BY <1>1, <1>2, <2>1, LocatedMade
  <2>3. From(kernel', p, {"create", "open"})
    <3> DEFINE T == {"create", "open"}
    <3>1. T \in SUBSET Kinds /\ "create" \in T /\ "open" \in T
      BY DEF Kinds
    <3> HIDE DEF T
    <3>2. From(kernel', p, T)
      BY <1>2, <1>3, <2>1, <3>1, FromNamed
    <3>3. QED
      BY <3>2 DEF T
  <2>4. ~Echoing(p)' /\ \A q \in Names : Echoing(q)' => Echoing(q)
    BY <1>2, <2>1, <2>2 DEF Echoing
  <2>5. ~Servers(p)'
    BY <1>2, <2>4 DEF Servers
  <2>6. AddsNoise
    BY <1>1, <1>2, <2>3, <2>5, AddsFrom
  <2>7. QED
    BY <1>5, <2>2, <2>4, <2>6
<1>7. ASSUME NEW p \in env.files, UserOpen(p) \/ (user.path = p /\ UserClose), UNCHANGED folderVars
      PROVE  Located' /\ AddsNoise /\ Takes
  <2>1. kernel' \in {Raised(kernel, "open", p), Raised(kernel, "close", p)}
    BY <1>7 DEF UserOpen, UserClose
  <2>2. From(kernel', p, {"open", "close"})
    <3> DEFINE T == {"open", "close"}
    <3>1. T \in SUBSET Kinds /\ "open" \in T /\ "close" \in T
      BY DEF Kinds
    <3> HIDE DEF T
    <3>2. From(kernel', p, T)
      BY <1>2, <1>3, <2>1, <3>1, FromRaised
    <3>3. QED
      BY <3>2 DEF T
  <2>3. \A q \in Names : Echoing(q)' => Echoing(q)
    BY <1>7 DEF Echoing, folderVars
  <2>4. {"open", "close"} \cap Loud = {}
    BY DEF Loud
  <2>5. Located'
    BY <1>1, <1>7 DEF Located, folderVars
  <2>6. AddsNoise
    BY <1>1, <1>2, <2>2, <2>4, AddsFrom
  <2>7. QED
    BY <1>5, <2>3, <2>5, <2>6
<1>8. ASSUME NEW p \in env.files, UserRemove(p) PROVE Located' /\ AddsNoise /\ Takes
  <2>1. /\ disk' = [disk EXCEPT ![p] = 0] /\ made' = made /\ data' = data
        /\ kernel' = Unlinked(kernel, p)
    BY <1>8 DEF UserRemove
  <2>2. \A q \in Names : Echoing(q)' => Echoing(q)
    BY <1>2, <2>1 DEF Echoing
  <2>3. Located'
    BY <1>1, <1>2, <2>1, LocatedRemoved
  <2>4. AddsNoise
    BY <1>1, <1>2, <2>1, AddsUnlinked
  <2>5. QED
    BY <1>5, <2>2, <2>3, <2>4
<1>9. ASSUME NEW p \in env.files, p = user.path, UserWrite PROVE Located' /\ AddsNoise /\ Takes
  <2>1. /\ data' = [data EXCEPT ![disk[p]] = Fresh] /\ UNCHANGED <<disk, made>>
        /\ kernel' = Raised(kernel, "modify", p)
    BY <1>9 DEF UserWrite
  <2>2. From(kernel', p, {"modify"})
    <3> DEFINE T == {"modify"}
    <3>1. T \in SUBSET Kinds /\ "modify" \in T
      BY DEF Kinds
    <3> HIDE DEF T
    <3>2. From(kernel', p, T)
      BY <1>2, <1>3, <2>1, <3>1, FromRaised
    <3>3. QED
      BY <3>2 DEF T
  <2>3. ~Echoing(p)' /\ \A q \in Names : Echoing(q)' => Echoing(q)
    BY <1>2, <1>4, <2>1 DEF Echoing
  <2>4. ~Servers(p)'
    BY <1>2, <2>3 DEF Servers
  <2>5. Located'
    BY <1>1, <2>1 DEF Located
  <2>6. AddsNoise
    BY <1>1, <1>2, <2>2, <2>4, AddsFrom
  <2>7. QED
    BY <1>5, <2>3, <2>5, <2>6
<1>10. user.path \in env.files \cup {None} /\ user \in [path : Files \cup {None}, wrote : BOOLEAN]
  BY DEF Tidy, Typed, Folder
<1>11. CASE UserClose
  <2>1. user.path \in env.files /\ UNCHANGED folderVars /\ user' = Away
    BY <1>10, <1>11 DEF UserClose
  <2>2. QED
    BY <1>7, <1>11, <2>1 DEF Away
<1>12. CASE UserWrite
  <2>1. user.path \in env.files /\ user'.path = user.path
    BY <1>10, <1>12 DEF UserWrite
  <2>2. QED
    BY <1>9, <1>12, <2>1
<1>13. ASSUME NEW p \in Files, UserCreate(p) \/ UserOpen(p)
       PROVE  Located' /\ AddsNoise /\ Takes /\ user'.path \in env.files \cup {None}
  <2>1. p \in env.files /\ user'.path = p
    BY <1>13 DEF UserCreate, UserOpen, Free
  <2>2. QED
    BY <1>6, <1>7, <1>13, <2>1 DEF UserOpen
<1>14. ASSUME NEW p \in Files, UserRemove(p)
       PROVE  Located' /\ AddsNoise /\ Takes /\ user'.path \in env.files \cup {None}
  BY <1>8, <1>10, <1>14 DEF UserRemove
<1>15. \A p, q \in Files : ~UserMoveIn(p) /\ ~UserMoveOut(p) /\ ~UserMove(p, q)
  BY DEF Tidy, UserMoveIn, UserMoveOut, UserMove, Edits
<1>16. QED
  BY <1>11, <1>12, <1>13, <1>14, <1>15 DEF User

LEMMA SenderAdds ==
  ASSUME Typed, Located, Exclusion, Sender, Theirs' = Theirs
  PROVE  Located' /\ AddsNoise /\ Takes
<1>1. /\ UNCHANGED <<events, receiver, disk, data, made>>
      /\ UNCHANGED <<disk, made>>
  BY DEF Sender, Dequeue, SendContent, GetModificationTime, ChangeModificationTime,
         SendDeletion, SendMove, Sends, folderVars
<1>2. (\A p \in Files : p \in Names) /\ Takes
  BY <1>1 DEF Names, Takes, Servers, Echoing
<1>3. CASE SendContent \/ ChangeModificationTime
  <2>1. sender.path \in Files /\ watch' = watch
    BY <1>3 DEF SendContent, ChangeModificationTime, Sends, Typed, Threads
  <2>2. \/ kernel' = kernel
        \/ kernel' = Raised(kernel, "other", sender.path)
        \/ kernel' = Raised(Raised(Raised(kernel, "open", sender.path), "other", sender.path),
                            "close", sender.path)
    BY <1>3 DEF SendContent, ChangeModificationTime
  <2>3. From(kernel', sender.path, {"open", "other", "close"})
    <3> DEFINE T == {"open", "other", "close"}
    <3>1. T \in SUBSET Kinds /\ "open" \in T /\ "other" \in T /\ "close" \in T
      BY DEF Kinds
    <3>2. From(kernel, sender.path, T) /\ disk \in [Names -> 0 .. MaxInode]
      BY FromKernel DEF Typed, Folder
    <3> HIDE DEF T
    <3>3. From(Raised(kernel, "open", sender.path), sender.path, T)
      BY <1>2, <2>1, <3>1, <3>2, FromRaised
    <3>4. From(Raised(Raised(kernel, "open", sender.path), "other", sender.path), sender.path, T)
      BY <1>2, <2>1, <3>1, <3>2, <3>3, FromRaised
    <3>5. From(kernel', sender.path, T)
      BY <1>2, <2>1, <2>2, <3>1, <3>2, <3>4, FromRaised
    <3>6. QED
      BY <3>5 DEF T
  <2>4. {"open", "other", "close"} \cap Loud = {}
    BY DEF Loud
  <2>5. receiver.at # "deleteFile"
    BY <1>3 DEF SendContent, ChangeModificationTime, Sends, Exclusion, SenderLocks, ReceiverLocks
  <2>6. Located'
    BY <1>1, <2>1 DEF Located
  <2>7. AddsNoise
    <3>1. receiver' = receiver
      BY <1>1
    <3>2. QED
      BY <1>1, <2>1, <2>3, <2>4, <2>5, <3>1, AddsFrom
  <2>8. QED
    BY <1>2, <2>6, <2>7
<1>4. CASE Dequeue \/ GetModificationTime \/ SendDeletion \/ SendMove
  <2>1. kernel' = kernel
    BY <1>4 DEF Dequeue, GetModificationTime, SendDeletion, SendMove
  <2>2. watch' = watch \/ \E p \in Names : WatchFile(p)
    <3>1. CASE Dequeue
      <4>1. queue \in Seq(Requests) /\ queue # <<>>
        BY <3>1 DEF Dequeue, Typed, Reports
      <4>2. Head(queue) \in Requests
        BY <4>1
      <4>3. Head(queue).path \in Names
        BY <1>2, <4>2 DEF Requests
      <4>4. QED
        BY <3>1, <4>3 DEF Dequeue
    <3>2. CASE SendMove
      <4>1. sender.to \in Names /\ WatchFile(sender.to)
        BY <1>2, <3>2 DEF SendMove, Sends, Typed, Threads
      <4>2. QED
        BY <4>1
    <3>3. CASE GetModificationTime \/ SendDeletion
      BY <3>3 DEF GetModificationTime, SendDeletion
    <3>4. QED
      BY <1>4, <3>1, <3>2, <3>3
  <2>3. AddsNoise
    BY <1>1, <2>1, <2>2, UnheardKept, AddsNothing
  <2>4. Located'
    <3>1. CASE watch' = watch
      BY <1>1, <3>1 DEF Located
    <3>2. QED
      BY <1>1, <2>2, <3>1, LocatedWatch
  <2>5. QED
    BY <1>2, <2>3, <2>4
<1>5. QED
  BY <1>3, <1>4 DEF Sender

\* The receiver makes a file the server's only where it stores it, and takes the name of
\* a file that is the server's only in deleteFile.
LEMMA ReceiverAdds ==
  ASSUME Typed, Located, Receiver, Theirs' = Theirs
  PROVE  Located' /\ AddsNoise /\ Takes
<1>1. UNCHANGED <<events, notifier>>
  BY DEF Receiver, ReceiverStep, ReceiveNewFile, ReceiveDeletion, Arrives, OpenFile, WriteFile,
         CloseFile, Received, SetReceivedTime, Unlock, WatchReceived, DeleteFile, Goes, Receives
<1>2. /\ receiver \in ReceiverState
      /\ disk \in [Names -> 0 .. MaxInode] /\ data \in [Inodes -> Nat]
  BY DEF Typed, Threads, Folder
<1>3. \A p, T : From(kernel, p, T)
  BY FromKernel
<1>4. ASSUME \A q \in Names : Echoing(q)' => Echoing(q) PROVE Takes
  BY <1>4 DEF Takes, Servers
<1>5. CASE \/ \E q \in Files : ReceiveNewFile(q) \/ ReceiveDeletion(q)
           \/ Received \/ Unlock \/ WatchReceived
  <2>1. UNCHANGED <<disk, data, made, kernel>> /\ UNCHANGED <<disk, made>>
    BY <1>5 DEF ReceiveNewFile, ReceiveDeletion, Arrives, Received, Unlock, WatchReceived, folderVars
  <2>2. watch' = watch \/ \E p \in Names : WatchFile(p)
    <3>1. CASE WatchReceived
      BY <3>1 DEF Typed, Threads, WatchReceived, Receives
    <3>2. CASE ~WatchReceived
      BY <1>5, <3>2 DEF ReceiveNewFile, ReceiveDeletion, Arrives, Received, Unlock
    <3>3. QED
      BY <3>1, <3>2
  <2>3. AddsNoise
    BY <1>1, <2>1, <2>2, UnheardKept, AddsNothing
  <2>4. Located'
    <3>1. CASE watch' = watch
      BY <2>1, <3>1 DEF Located
    <3>2. QED
      BY <2>1, <2>2, <3>1, LocatedWatch
  <2>5. QED
    BY <1>4, <2>1, <2>3, <2>4 DEF Echoing
<1>6. ASSUME NEW p \in Names, p = receiver.path, SetReceivedTime \/ CloseFile
      PROVE  Located' /\ AddsNoise /\ Takes
  <2>1. /\ UNCHANGED <<disk, data, made, watch>>
        /\ receiver'.at # "deleteFile"
    BY <1>2, <1>6 DEF SetReceivedTime, CloseFile, Goes, Receives, folderVars, ReceiverState
  <2>2. kernel' \in {kernel, Raised(kernel, "other", p), Raised(kernel, "close", p)}
    BY <1>6 DEF SetReceivedTime, CloseFile, Touched
  <2>3. From(kernel', p, {"other", "close"})
    <3> DEFINE T == {"other", "close"}
    <3>1. T \in SUBSET Kinds /\ "other" \in T /\ "close" \in T
      BY DEF Kinds
    <3> HIDE DEF T
    <3>2. From(kernel', p, T)
      BY <1>2, <1>3, <2>2, <3>1, FromRaised
    <3>3. QED
      BY <3>2 DEF T
  <2>4. {"other", "close"} \cap Loud = {}
    BY DEF Loud
  <2>5. AddsNoise
    BY <1>1, <2>1, <2>3, <2>4, AddsFrom
  <2>6. Located'
    BY <2>1 DEF Located
  <2>7. QED
    BY <1>4, <2>1, <2>5, <2>6 DEF Echoing
<1>7. ASSUME NEW p \in Names, p = receiver.path, DeleteFile
      PROVE  Located' /\ AddsNoise /\ Takes
  <2>1. UNCHANGED <<watch, made, data>> /\ receiver.at = "deleteFile"
    BY <1>7 DEF DeleteFile, Receives
  <2>2. CASE UNCHANGED <<disk, kernel>>
    <3>1. AddsNoise
      BY <1>1, <2>1, <2>2, UnheardKept, AddsNothing
    <3>2. Located'
      BY <2>1, <2>2 DEF Located
    <3>3. QED
      BY <1>4, <2>1, <2>2, <3>1, <3>2 DEF Echoing
  <2>3. CASE /\ disk' = [disk EXCEPT ![p] = 0] /\ kernel' = Unlinked(kernel, p)
             /\ receiver' = Resting
    <3>1. AddsNoise
      BY <1>1, <1>7, <2>1, <2>3, AddsUnlinked DEF Resting
    <3>2. Located'
      BY <2>1, <2>3, LocatedRemoved
    <3>3. \A q \in Names : Echoing(q)' => Echoing(q)
      BY <1>2, <2>1, <2>3 DEF Echoing
    <3>4. QED
      BY <1>4, <3>1, <3>2, <3>3
  <2>4. QED
    BY <1>7, <2>2, <2>3 DEF DeleteFile
<1>8. ASSUME NEW p \in Names, p = receiver.path, OpenFile \/ WriteFile
      PROVE  Located' /\ AddsNoise /\ Takes
  <2>1. /\ watch' = watch /\ receiver.at \in {"open", "write"}
        /\ receiver' = [receiver EXCEPT !.at = IF receiver.at = "open" THEN "write" ELSE "close"]
    BY <1>8 DEF OpenFile, WriteFile, Goes, Receives
  <2>2. receiver'.path = p /\ receiver'.at \in {"write", "close"}
    BY <1>2, <1>8, <2>1 DEF ReceiverState
  <2>3. \/ /\ UNCHANGED <<disk, made>>
           /\ kernel' \in {kernel, Raised(kernel, "modify", p),
                           Raised(Raised(kernel, "modify", p), "open", p)}
        \/ /\ disk' = [disk EXCEPT ![p] = made + 1] /\ made' = made + 1 /\ made < MaxInode
           /\ kernel' = Named(Named(kernel, "create", p), "open", p)
    BY <1>8 DEF OpenFile, WriteFile, Touched
  <2>4. From(kernel', p, {"create", "open", "modify"})
    <3> DEFINE T == {"create", "open", "modify"}
    <3>1. T \in SUBSET Kinds /\ "open" \in T /\ "create" \in T /\ "modify" \in T
      BY DEF Kinds
    <3> HIDE DEF T
    <3>2. From(Named(Named(kernel, "create", p), "open", p), p, T)
      BY <1>3, <3>1, FromNamed
    <3>3. From(Raised(kernel, "modify", p), p, T)
      BY <1>2, <1>3, <3>1, FromRaised
    <3>4. From(Raised(Raised(kernel, "modify", p), "open", p), p, T)
      BY <1>2, <3>1, <3>3, FromRaised
    <3>5. From(kernel', p, T)
      BY <1>3, <2>3, <3>2, <3>3, <3>4
    <3>6. QED
      BY <3>5 DEF T
  <2>5. Storing(p) /\ Writing(p)'
    BY <1>8, <2>1, <2>2 DEF Storing, Writing
  <2>6. AddsNoise
    BY <1>1, <2>1, <2>2, <2>4, <2>5, AddsFrom
  <2>7. Located'
    BY <2>1, <2>3, LocatedMade DEF Located
  <2>8. data' = data \/ (disk'[p] # 0 /\ \E n : data' = [data EXCEPT ![disk'[p]] = n])
    <3>1. CASE OpenFile
      <4>1. disk'[p] # 0 \/ disk'[p] = 0
        OBVIOUS
      <4>2. \E n : data' = [data EXCEPT ![disk'[p]] = n]
        BY <1>8, <3>1 DEF OpenFile
      <4>3. disk'[p] = 0 => disk'[p] \notin Inodes
        BY BoundsAssumption DEF Inodes
      <4>4. QED
        BY <1>2, <4>2, <4>3
    <3>2. CASE WriteFile
      BY <1>8, <3>2 DEF WriteFile, Goes, folderVars
    <3>3. QED
      BY <1>8, <3>1, <3>2
  <2>9. ASSUME NEW q \in Names, q # p, Echoing(q)' PROVE Echoing(q)
    <3>1. disk'[q] = disk[q]
      BY <1>2, <2>3, <2>9
    <3>2. disk'[q] # 0 /\ disk'[q] # disk'[p]
      BY <2>7, <2>9 DEF Located, Echoing
    <3>3. disk[q] \in Inodes
      BY <1>2, <3>1, <3>2, BoundsAssumption DEF Inodes
    <3>4. data'[disk[q]] = data[disk[q]]
      BY <1>2, <2>8, <3>1, <3>2, <3>3
    <3>5. QED
      BY <2>9, <3>1, <3>4 DEF Echoing
  <2>10. Takes
    BY <2>5, <2>9 DEF Takes, Servers
  <2>11. QED
    BY <2>6, <2>7, <2>10
<1>9. ReceiverStep => receiver.path \in Names
  BY DEF ReceiverStep, OpenFile, WriteFile, CloseFile, Received, SetReceivedTime, Unlock,
         WatchReceived, DeleteFile, Goes, Receives, Typed, Threads
<1>10. QED
  BY <1>5, <1>6, <1>7, <1>8, <1>9 DEF Receiver, ReceiverStep

\* The notifier changes nothing of what the other threads do.
LEMMA NotifierAdds ==
  ASSUME Typed, Located, Tidy, Notifier
  PROVE  /\ Located' /\ AddsNoise /\ Takes /\ Unheard' \subseteq Unheard
         /\ notifier'.at # "determineMoveType"
<1>1. /\ UNCHANGED <<env, disk, data, made, receiver>> /\ UNCHANGED <<disk, made>>
      /\ kernel' = kernel \/ kernel' = <<>>
  BY DEF Notifier, Poll, Read, RunOnce, CatchAllEvents, DetermineMoveType, GetNextEvent, folderVars,
         bounds
<1>2. Takes
  BY <1>1 DEF Takes, Servers, Theirs, Echoing
<1>3. Unheard' \subseteq Unheard => AddsNoise
  BY <1>1, AddsNothing
<1>4. notifier \in NotifierState /\ notifier.at # "determineMoveType"
  BY DEF Tidy, Typed, Reports
<1>5. CASE Poll \/ Read
  <2>1. watch' = watch /\ notifier' = notifier
    BY <1>5 DEF Poll, Read, notifierVars
  <2>2. Unheard' = Unheard
    <3>1. CASE Read
      BY <3>1, UnheardRead
    <3>2. CASE Poll
      BY <3>2 DEF Poll, notifierVars, Unheard, Translated
    <3>3. QED
      BY <1>5, <3>1, <3>2
  <2>3. Located'
    BY <1>1, <2>1 DEF Located
  <2>4. QED
    BY <1>2, <1>3, <1>4, <2>1, <2>2, <2>3
<1>6. CASE RunOnce
  <2>1. Head(events).path \in Names
    BY <1>6, NextEventTyped DEF RunOnce, EventType
  <2>2. watch' = watch \/ WatchFile(Head(events).path)
    BY <1>6 DEF RunOnce
  <2>3. Head(events) \in Unheard /\ Unheard' \subseteq Unheard
    BY <1>6, <2>1, <2>2, UnheardTaken DEF RunOnce
  <2>4. Located'
    <3>1. CASE watch' = watch
      BY <1>1, <3>1 DEF Located
    <3>2. QED
      BY <1>1, <2>1, <2>2, <3>1, LocatedWatch
  <2>5. notifier'.at # "determineMoveType"
    <3>1. Head(events).type # "moved_from"
      BY <2>3 DEF Tidy
    <3>2. QED
      BY <1>4, <1>6, <3>1 DEF RunOnce
  <2>6. QED
    BY <1>2, <1>3, <2>3, <2>4, <2>5
<1>7. CASE CatchAllEvents
  <2>1. Unheard' \subseteq Unheard
    BY <1>7, UnheardTaken DEF CatchAllEvents
  <2>2. Located' /\ notifier'.at # "determineMoveType"
    BY <1>1, <1>4, <1>7 DEF CatchAllEvents, Located, Idle
  <2>3. QED
    BY <1>2, <1>3, <2>1, <2>2
<1>8. ~DetermineMoveType
  BY <1>4 DEF DetermineMoveType, GetNextEvent
<1>9. QED
  BY <1>5, <1>6, <1>7, <1>8 DEF Notifier

\* Where all but the notifier act when everything has been read.
LEMMA AllRead ==
  ASSUME Typed, ~env.lag, CaughtUp
  PROVE  Unheard = {} /\ kernel = <<>> /\ events = <<>>
  BY UnheardEvents DEF CaughtUp

LEMMA FirstNone == First(<<>>)
  BY DEF First

\* The other threads' steps: what is added to what was all read is Noise.
LEMMA PromptAdded ==
  ASSUME Typed, ~env.lag, CaughtUp, Prompt, AddsNoise, Takes, Theirs' = Theirs,
         UNCHANGED <<events, notifier>>,
         \/ receiver' = receiver
         \/ receiver.at \notin {"write", "close"}
         \/ receiver'.path = receiver.path /\ receiver'.at = "close"
         \/ /\ receiver'.path = receiver.path /\ receiver'.at = "received"
            /\ Unheard' # {} /\ \A e \in Unheard' : e.type # "modify"
         \/ ~Servers(receiver.path),
         Standing'
  PROVE  Muted' /\ Gathered' /\ Standing' /\ Foremost'
<1>1. Unheard = {} /\ kernel = <<>> /\ events = <<>>
  BY AllRead
<1>2. First(kernel') /\ \A e \in Unheard' : Noise(e)
  BY <1>1 DEF AddsNoise
<1>3. Muted'
  BY <1>2 DEF Muted, Noise
<1>4. Foremost'
  <2>1. First(events')
    BY <1>1, FirstNone
  <2>2. QED
    BY <1>2, <2>1 DEF Foremost, Noise
<1>5. Gathered'
  <2>1. SUFFICES ASSUME notifier.at = "catchAllEvents", Servers(notifier.path)',
                        ~Writing(notifier.path)'
                 PROVE  Written(notifier.path)'
    BY DEF Gathered, Servers, Echoing
  <2>2. Servers(notifier.path)
    BY <2>1 DEF Takes, Typed, Reports, Names
  <2>3. Writing(notifier.path)
    BY <1>1, <2>1, <2>2 DEF Prompt, Gathered, Written
  <2>4. QED
    BY <2>1, <2>2, <2>3 DEF Writing, Written
<1>6. QED
  BY <1>3, <1>4, <1>5

\* And the notifier hands what it has read to catchAllEvents and on.
LEMMA PromptNotifier ==
  ASSUME Typed, Located, Tidy, Prompt, Notifier
  PROVE  Muted' /\ Gathered' /\ Standing' /\ Foremost'
<1>1. UNCHANGED <<env, disk, data, receiver>>
  BY DEF Notifier, Poll, Read, RunOnce, CatchAllEvents, DetermineMoveType, GetNextEvent, folderVars,
         bounds
<1>2. Unheard' \subseteq Unheard
  BY NotifierAdds
<1>3. /\ \A p : Servers(p)' <=> Servers(p)
      /\ \A p : Writing(p)' <=> Writing(p)
      /\ \A p : Written(p) /\ Unheard' = Unheard => Written(p)'
  BY <1>1 DEF Servers, Theirs, Echoing, Writing, Written
<1>4. Muted' /\ Standing'
  BY <1>1, <1>2, <1>3 DEF Prompt, Muted, Standing, Theirs, Servers, Echoing, Writing
<1>5. First(kernel') /\ First(events')
  <2>1. CASE Read
    <3>1. kernel' = <<>> /\ kernel \in Seq(KernelEvent) /\ events' = [j \in DOMAIN kernel |-> Translated(kernel[j])]
      BY <2>1 DEF Read, Typed, Kernel, Legible
    <3>2. DOMAIN kernel = 1 .. Len(kernel) /\ Len(events') = Len(kernel)
      BY <3>1
    <3>3. \A j \in 1 .. Len(kernel) : events'[j].type = kernel[j].type
      BY <3>1, <3>2 DEF Translated
    <3>4. QED
      BY <3>1, <3>2, <3>3, FirstNone DEF Prompt, Foremost, First
  <2>2. CASE ~Read
    <3>1. kernel' = kernel /\ (events' = events \/ (events # <<>> /\ events' = Tail(events)))
      BY <2>2 DEF Notifier, Poll, RunOnce, CatchAllEvents, DetermineMoveType, GetNextEvent, notifierVars
    <3>2. ASSUME events # <<>>, events' = Tail(events) PROVE First(Tail(events))
      <4>1. events \in Seq(EventType) /\ Len(events) \in Nat
        BY DEF Typed, Kernel
      <4>2. /\ Len(Tail(events)) = Len(events) - 1
            /\ \A j \in 1 .. Len(events) - 1 : Tail(events)[j] = events[j + 1]
        BY <3>2, <4>1, EmptySeq
      <4>3. \A j \in 1 .. Len(events) - 1 : j + 1 \in 1 .. Len(events)
        BY <4>1
      <4>4. \A i, j \in 1 .. Len(events) - 1 : i < j => i + 1 < j + 1
        BY <4>1
      <4>5. QED
        BY <4>2, <4>3, <4>4 DEF Prompt, Foremost, First
    <3>3. QED
      BY <3>1, <3>2 DEF Prompt, Foremost
  <2>3. QED
    BY <2>1, <2>2
<1>6. Foremost'
  BY <1>1, <1>2, <1>5 DEF Prompt, Foremost, Theirs
<1>7. Gathered'
  <2>1. CASE Poll \/ Read
    <3>1. notifier' = notifier
      BY <2>1 DEF Poll, Read, notifierVars
    <3>2. Unheard' = Unheard
      <4>1. CASE Read
        BY <4>1, UnheardRead
      <4>2. CASE Poll
        BY <4>2 DEF Poll, notifierVars, Unheard, Translated
      <4>3. QED
        BY <2>1, <4>1, <4>2
    <3>3. QED
      BY <1>1, <1>3, <3>1, <3>2 DEF Prompt, Gathered, Servers, Theirs, Echoing, Writing, Written
  <2>2. CASE RunOnce
    <3>1. notifier.at = "runOnce" /\ Head(events) \in Unheard
      <4>1. watch' = watch \/ WatchFile(Head(events).path)
        BY <2>2 DEF RunOnce
      <4>2. Head(events).path \in Names
        BY <2>2, NextEventTyped DEF RunOnce, EventType
      <4>3. QED
        BY <2>2, <4>1, <4>2, UnheardTaken DEF RunOnce, GetNextEvent
    <3>2. notifier'.at = "catchAllEvents" =>
              Head(events).type = "modify" /\ notifier'.path = Head(events).path
      BY <2>2, <3>1 DEF RunOnce
    <3>3. QED
      BY <1>1, <3>1, <3>2 DEF Prompt, Gathered, Muted, Loud, Servers, Theirs, Echoing, Writing
  <2>3. CASE CatchAllEvents
    <3>1. Head(events) \in Unheard
      BY <2>3, UnheardTaken DEF CatchAllEvents
    <3>2. \/ Head(events).type = "modify" /\ notifier' = notifier
          \/ notifier'.at = "runOnce"
      BY <2>3 DEF CatchAllEvents, Idle
    <3>3. QED
      BY <1>1, <3>1, <3>2 DEF Prompt, Gathered, Servers, Theirs, Echoing, Writing, Written
  <2>4. ~DetermineMoveType
    BY DEF Tidy, DetermineMoveType, GetNextEvent
  <2>5. QED
    BY <2>1, <2>2, <2>3, <2>4 DEF Notifier
<1>8. QED
  BY <1>4, <1>6, <1>7

LEMMA StandingNext ==
  ASSUME Typed, Tidy, Standing, Theirs' = Theirs, User \/ Sender \/ Receiver
  PROVE  Standing'
<1>1. CASE User
  <2>1. /\ receiver' = receiver /\ disk \in [Names -> 0 .. MaxInode] /\ receiver \in ReceiverState
        /\ receiver.at # "idle" => receiver.path \in Names
    BY <1>1 DEF User, UserCreate, UserOpen, UserRemove, UserMoveIn, UserMoveOut, UserMove, UserWrite,
         UserClose, Edits, Typed, Folder, Threads
  <2>2. \A p, q \in Files : ~UserMoveIn(p) /\ ~UserMoveOut(p) /\ ~UserMove(p, q)
    BY DEF Tidy, UserMoveIn, UserMoveOut, UserMove, Edits
  <2>3. \/ disk' = disk
        \/ \E p \in env.files : \E i : disk' = [disk EXCEPT ![p] = i]
    <3>1. CASE \E p \in Files : UserCreate(p) \/ UserRemove(p)
      BY <3>1 DEF UserCreate, UserRemove, Free
    <3>2. CASE (\E p \in Files : UserOpen(p)) \/ UserWrite \/ UserClose
      BY <3>2 DEF UserOpen, UserWrite, UserClose, folderVars
    <3>3. QED
      BY <1>1, <2>2, <3>1, <3>2 DEF User
  <2>4. \A q \in Names : q \in Theirs => disk'[q] = disk[q]
    BY <2>1, <2>3 DEF Theirs
  <2>5. QED
    BY <2>1, <2>4 DEF Standing
<1>2. CASE Sender
  <2>1. UNCHANGED <<disk, receiver>>
    BY <1>2 DEF Sender, Dequeue, SendContent, GetModificationTime, ChangeModificationTime,
         SendDeletion, SendMove, Sends, folderVars
  <2>2. QED
    BY <2>1 DEF Standing
<1>3. CASE Receiver
  <2>1. receiver \in ReceiverState /\ disk \in [Names -> 0 .. MaxInode] /\ made \in Nat
    BY DEF Typed, Threads, Folder
  <2>2. CASE OpenFile
    <3>1. receiver.path \in Names /\ receiver'.path = receiver.path
      BY <2>1, <2>2 DEF OpenFile, Goes, Receives, Typed, Threads, ReceiverState
    <3>2. disk'[receiver.path] # 0
      BY <2>1, <2>2, <3>1 DEF OpenFile
    <3>3. QED
      BY <3>1, <3>2 DEF Standing
  <2>3. CASE WriteFile
    <3>1. disk' = disk /\ receiver'.path = receiver.path /\ receiver.at = "write"
      BY <2>1, <2>3 DEF WriteFile, Goes, Receives, ReceiverState
    <3>2. QED
      BY <3>1 DEF Standing
  <2>4. CASE ~(OpenFile \/ WriteFile)
    <3>1. receiver'.at \notin {"write", "close"}
      BY <1>3, <2>1, <2>4 DEF Receiver, ReceiverStep, ReceiveNewFile, ReceiveDeletion, Arrives,
         CloseFile, Received, SetReceivedTime, Unlock, WatchReceived, DeleteFile, Goes, Receives,
         ReceiverState, Resting
    <3>2. QED
      BY <3>1 DEF Standing
  <2>5. QED
    BY <2>2, <2>3, <2>4
<1>4. QED
  BY <1>1, <1>2, <1>3

\* When the receiver has closed a file that is there, that is what is unread.
LEMMA PromptReceiver ==
  ASSUME Typed, ~env.lag, CaughtUp, Located, Prompt, Receiver
  PROVE  \/ receiver.at \notin {"write", "close"}
         \/ receiver'.path = receiver.path /\ receiver'.at = "close"
         \/ /\ receiver'.path = receiver.path /\ receiver'.at = "received"
            /\ Unheard' # {} /\ \A e \in Unheard' : e.type # "modify"
         \/ ~Servers(receiver.path)
<1>1. receiver \in ReceiverState /\ disk \in [Names -> 0 .. MaxInode] /\ Unheard = {}
  BY AllRead DEF Typed, Threads, Folder
<1>2. CASE WriteFile
  BY <1>1, <1>2 DEF WriteFile, Goes, Receives, ReceiverState
<1>3. CASE CloseFile
  <2>1. /\ receiver'.path = receiver.path /\ receiver'.at = "received" /\ receiver.at = "close"
        /\ UNCHANGED <<events, watch>> /\ receiver.path \in Names
    BY <1>1, <1>3 DEF CloseFile, Goes, Receives, ReceiverState, Typed, Threads
  <2>2. CASE disk[receiver.path] = 0
    BY <2>1, <2>2 DEF Prompt, Standing, Servers, Echoing
  <2>3. CASE disk[receiver.path] # 0
    <3> DEFINE T == {"close"}
    <3>1. T \in SUBSET Kinds /\ "close" \in T /\ "modify" \notin T
      BY DEF Kinds
    <3>2. kernel' = Raised(kernel, "close", receiver.path)
      BY <1>3, <2>3 DEF CloseFile, Touched
    <3> HIDE DEF T
    <3>3. From(kernel', receiver.path, T) /\ kernel' # <<>>
      BY <1>1, <2>1, <3>1, <3>2, FromKernel, FromRaised
    <3>4. (\A e \in Unheard' : e \in Unheard \/ (e.type \in T /\ e.path = receiver.path)) /\ Unheard' # {}
      BY <2>1, <3>3, UnheardRaised
    <3>5. QED
      BY <1>1, <2>1, <3>1, <3>4
  <2>4. QED
    BY <2>2, <2>3
<1>4. CASE ~(WriteFile \/ CloseFile)
  BY <1>4 DEF Receiver, ReceiverStep, ReceiveNewFile, ReceiveDeletion, Arrives, OpenFile,
         Received, SetReceivedTime, Unlock, WatchReceived, DeleteFile, Goes, Receives
<1>5. QED
  BY <1>2, <1>3, <1>4

\* Any step, where the server sends something.
LEMMA NextAdds ==
  ASSUME Typed, Located, Tidy, Exclusion, [Next]_vars
  PROVE  Located' /\ Tidy' /\ AddsNoise /\ Takes
<1>1. env' = env /\ Theirs' = Theirs
  BY TheirsKept
<1>2. ASSUME AddsNoise, user'.path \in env.files \cup {None}, notifier'.at # "determineMoveType"
      PROVE  Tidy'
  BY <1>1, <1>2 DEF Tidy, AddsNoise, Noise
<1>3. CASE User
  <2>1. notifier' = notifier
    BY <1>3 DEF User, UserCreate, UserOpen, UserRemove, UserMoveIn, UserMoveOut, UserMove, UserWrite,
         UserClose, Edits, notifierVars
  <2>2. QED
    BY <1>1, <1>2, <1>3, <2>1, UserAdds DEF Tidy
<1>4. CASE Notifier
  <2>1. user' = user
    BY <1>4 DEF Notifier, Poll, Read, RunOnce, CatchAllEvents, DetermineMoveType, GetNextEvent
  <2>2. QED
    BY <1>2, <1>4, <2>1, NotifierAdds DEF Tidy
<1>5. CASE Sender
  <2>1. UNCHANGED <<notifier, user>>
    BY <1>5 DEF Sender, Dequeue, SendContent, GetModificationTime, ChangeModificationTime,
         SendDeletion, SendMove, Sends
  <2>2. QED
    BY <1>1, <1>2, <1>5, <2>1, SenderAdds DEF Tidy
<1>6. CASE Receiver
  <2>1. UNCHANGED <<notifier, user>>
    BY <1>6 DEF Receiver, ReceiverStep, ReceiveNewFile, ReceiveDeletion, Arrives, OpenFile, WriteFile,
         CloseFile, Received, SetReceivedTime, Unlock, WatchReceived, DeleteFile, Goes, Receives
  <2>2. QED
    BY <1>1, <1>2, <1>6, <2>1, ReceiverAdds DEF Tidy
<1>7. CASE UNCHANGED vars
  <2>1. UNCHANGED <<disk, made, data, watch, kernel, events, notifier, receiver, user>>
    BY <1>7 DEF vars
  <2>2. AddsNoise
    BY <2>1, UnheardKept, AddsNothing
  <2>3. Located' /\ Takes
    BY <1>1, <2>1 DEF Located, Takes, Servers, Echoing
  <2>4. QED
    BY <1>2, <2>1, <2>2, <2>3 DEF Tidy
<1>8. QED
  BY <1>3, <1>4, <1>5, <1>6, <1>7 DEF Next

LEMMA PromptNext ==
  ASSUME Typed, Located, Tidy, Exclusion, ~env.lag, Prompt, [Next]_vars
  PROVE  Prompt'
<1>1. env' = env /\ Theirs' = Theirs /\ AddsNoise /\ Takes
  BY TheirsKept, NextAdds
<1>2. KeptUp'
  BY KeptUpNext DEF Prompt
<1>3. CASE User
  <2>1. CaughtUp /\ receiver' = receiver /\ UNCHANGED <<events, notifier>>
    BY <1>3 DEF User, UserCreate, UserOpen, UserRemove, UserMoveIn, UserMoveOut, UserMove, UserWrite,
         UserClose, Edits, notifierVars
  <2>2. Standing'
    BY <1>1, <1>3, StandingNext DEF Prompt
  <2>3. QED
    BY <1>1, <1>2, <2>1, <2>2, PromptAdded DEF Prompt
<1>4. CASE Sender
  <2>1. CaughtUp /\ receiver' = receiver /\ UNCHANGED <<events, notifier>>
    BY <1>4 DEF Sender, Dequeue, SendContent, GetModificationTime, ChangeModificationTime,
         SendDeletion, SendMove, Sends
  <2>2. Standing'
    BY <1>1, <1>4, StandingNext DEF Prompt
  <2>3. QED
    BY <1>1, <1>2, <2>1, <2>2, PromptAdded DEF Prompt
<1>5. CASE Receiver
  <2>1. CaughtUp /\ UNCHANGED <<events, notifier>>
    BY <1>5 DEF Receiver, ReceiverStep, ReceiveNewFile, ReceiveDeletion, Arrives, OpenFile, WriteFile,
         CloseFile, Received, SetReceivedTime, Unlock, WatchReceived, DeleteFile, Goes, Receives
  <2>2. Standing'
    BY <1>1, <1>5, StandingNext DEF Prompt
  <2>3. QED
    BY <1>1, <1>2, <1>5, <2>1, <2>2, PromptReceiver, PromptAdded DEF Prompt
<1>6. CASE Notifier
  BY <1>2, <1>6, PromptNotifier DEF Prompt
<1>7. CASE UNCHANGED vars
  <2>1. UNCHANGED <<disk, made, data, watch, kernel, events, notifier, receiver>>
    BY <1>7 DEF vars
  <2>2. Unheard' = Unheard
    BY <2>1, UnheardKept
  <2>3. QED
    BY <1>1, <1>2, <2>1, <2>2
       DEF Prompt, Muted, Gathered, Standing, Foremost, Servers, Echoing, Writing, Written
<1>8. QED
  BY <1>3, <1>4, <1>5, <1>6, <1>7 DEF Next

LEMMA UnansweredInit == Init /\ Watchful(env) => Unanswered
<1> SUFFICES ASSUME Init, Watchful(env) PROVE Unanswered
  OBVIOUS
<1>1. made \in Nat /\ watch = [i \in Inodes |-> None]
  BY PresentAssumption, FS_CardinalityType DEF Init
<1>2. PICK ino \in [Present -> 1 .. made] :
          /\ \A p, q \in Present : p # q => ino[p] # ino[q]
          /\ disk = [p \in Names |-> IF p \in Present THEN ino[p] ELSE 0]
  BY DEF Init
<1>3. \A p \in Names : disk[p] = IF p \in Present THEN ino[p] ELSE 0
  BY <1>2
<1>4. \A p \in Names : disk[p] # 0 => p \in Present /\ disk[p] \in Inodes
  BY <1>3, TypedInit, BoundsAssumption DEF Typed, Folder, Inodes
<1>5. \A p \in Names : disk[p] <= made
  BY <1>1, <1>2, <1>3
<1>6. Located
  BY <1>1, <1>2, <1>3, <1>4, <1>5 DEF Located
<1>7. KeptUp /\ receiver.at = "idle" /\ notifier.at = "runOnce" /\ user.path = None
  BY DEF Init, KeptUp, Resting, Idle, Away
<1>8. Unheard = {} /\ First(kernel) /\ First(events)
  BY TypedInit, UnheardEvents, FirstNone DEF Init
<1>9. Prompt
  BY <1>7, <1>8 DEF Prompt, Muted, Gathered, Standing, Foremost
<1>10. env.remote # {} => Tidy
  BY <1>7, <1>8 DEF Tidy, Watchful
<1>11. \A i \in Inodes : ByUser(data[i])
  <2>1. 0 % 2 = 0
    BY SMT
  <2>2. \A i \in Inodes : data[i] = 0
    BY DEF Init
  <2>3. QED
    BY <2>1, <2>2 DEF ByUser
<1>12. QED
  BY <1>6, <1>7, <1>9, <1>10, <1>11 DEF Unanswered

\* Without a server everything is written by the user.
LEMMA ByUserNext ==
  ASSUME Typed, env.remote = {}, receiver.at = "idle", \A i \in Inodes : ByUser(data[i]), [Next]_vars
  PROVE  receiver'.at = "idle" /\ \A i \in Inodes : ByUser(data'[i])
<1>1. data \in [Inodes -> Nat] /\ ByUser(Fresh)
  BY FreshByUser DEF Typed, Folder
<1>2. ~Receiver
  BY DEF Receiver, ReceiverStep, ReceiveNewFile, ReceiveDeletion, Arrives, OpenFile, WriteFile,
         CloseFile, Received, SetReceivedTime, Unlock, WatchReceived, DeleteFile, Goes, Receives
<1>3. receiver' = receiver /\ (data' = data \/ \E i : data' = [data EXCEPT ![i] = Fresh])
  <2>1. CASE User
    BY <2>1 DEF User, UserCreate, UserOpen, UserRemove, UserMoveIn, UserMoveOut, UserMove, UserWrite,
                UserClose, Edits, folderVars
  <2>2. CASE Notifier
    BY <2>2 DEF Notifier, Poll, Read, RunOnce, CatchAllEvents, DetermineMoveType, GetNextEvent,
                folderVars
  <2>3. CASE Sender
    BY <2>3 DEF Sender, Dequeue, SendContent, GetModificationTime, ChangeModificationTime,
                SendDeletion, SendMove, Sends, folderVars
  <2>4. CASE UNCHANGED vars
    BY <2>4 DEF vars
  <2>5. QED
    BY <1>2, <2>1, <2>2, <2>3, <2>4 DEF Next
<1>4. QED
  BY <1>1, <1>3

LEMMA UnansweredNext == Typed /\ Exclusion /\ Unanswered /\ [Next]_vars => Unanswered'
<1> SUFFICES ASSUME Typed, Exclusion, Unanswered, [Next]_vars PROVE Unanswered'
  OBVIOUS
<1>1. env' = env /\ Watchful(env')
  BY EnvKept DEF Unanswered
<1>2. CASE env.remote = {}
  <2>1. receiver'.at = "idle" /\ \A i \in Inodes : ByUser(data'[i])
    BY <1>2, ByUserNext DEF Unanswered
  <2>2. QED
    BY <1>1, <1>2, <2>1 DEF Unanswered, ByUser
<1>3. CASE env.remote # {}
  <2>1. Located /\ Tidy /\ (~env.lag => Prompt)
    BY <1>3 DEF Unanswered
  <2>2. Located' /\ Tidy' /\ (~env.lag => Prompt')
    BY <2>1, NextAdds, PromptNext
  <2>3. QED
    BY <1>1, <1>3, <2>2 DEF Unanswered
<1>4. QED
  BY <1>2, <1>3

\* What can make the notifier ask for a new file or a deletion.
LEMMA ChosenRequest ==
  ASSUME Typed, NEW event, NEW source, NEW q, ChooseRequest(event, source, q), NEW p, NEW op, Asks(op, p)
  PROVE  /\ op = "NEW_FILE" => event \in Loud /\ p = q
         /\ op = "DELETE" => event \in {"delete", "outward_move"} /\ p = q
         /\ op \in {"NEW_FILE", "DELETE"} => q \notin perm \cup ignored
<1>1. queue \in Seq(Requests) /\ Len(queue) \in Nat
  BY DEF Typed, Reports
<1>2. queue' # queue
  BY <1>1 DEF Asks
<1>3. ~IsIgnored(q)
  BY <1>2, ChosenQueue
<1>4. \A r : Append(queue, r)[Len(Append(queue, r))] = r
  BY <1>1
<1>5. PICK r : queue' = Append(queue, r) /\
               (\/ r = Request("NEW_FILE", q, None) /\ event \in Loud
                \/ r = Request("DELETE", q, None) /\ event \in {"delete", "outward_move"}
                \/ r.op = "MOVE")
  BY <1>2, <1>3 DEF ChooseRequest, RequestCreation, RequestDeletion, RequestMove, RequestMoveTo,
                    SaveAs, Request, Loud
<1>6. r = Request(op, p, None)
  BY <1>4, <1>5 DEF Asks
<1>7. QED
  BY <1>3, <1>5, <1>6 DEF Request, IsIgnored

\* Only the notifier puts a request in the queue.
LEMMA NotifierAsks ==
  ASSUME Typed, [Next]_vars, NEW op, NEW p, Asks(op, p)
  PROVE  RunOnce \/ CatchAllEvents \/ DetermineMoveType
<1>1. queue \in Seq(Requests) /\ Len(queue) \in Nat /\ queue' # queue
  BY DEF Typed, Reports, Asks
<1>2. ~User
  BY <1>1 DEF User, UserCreate, UserOpen, UserRemove, UserMoveIn, UserMoveOut, UserMove, UserWrite,
              UserClose, Edits, notifierVars
<1>3. ~Poll /\ ~Read
  BY <1>1 DEF Poll, Read, notifierVars
<1>4. ~Dequeue
  <2>1. SUFFICES ASSUME queue # <<>>, queue' = Tail(queue) PROVE FALSE
    BY DEF Dequeue
  <2>2. Len(queue') = Len(queue) - 1 /\ Len(queue) \in Int
    BY <1>1, <2>1
  <2>3. QED
    BY <2>2 DEF Asks
<1>5. ~Sender
  BY <1>1, <1>4 DEF Sender, SendContent, GetModificationTime, ChangeModificationTime,
                    SendDeletion, SendMove, Sends
<1>6. ~Receiver
  BY <1>1 DEF Receiver, ReceiverStep, ReceiveNewFile, ReceiveDeletion, Arrives, OpenFile,
              WriteFile, CloseFile, Received, SetReceivedTime, Unlock, WatchReceived, DeleteFile,
              Goes, Receives
<1>7. ~UNCHANGED vars
  BY <1>1 DEF vars
<1>8. QED
  BY <1>2, <1>3, <1>5, <1>6, <1>7 DEF Next, Notifier

\* Without a server there is nothing of a server's.
LEMMA NothingOfServers ==
  ASSUME Typed, Unanswered, env.remote = {}, NEW p \in Files
  PROVE  ~Servers(p) /\ p \notin Theirs
<1>1. disk[p] # 0 => disk[p] \in Inodes
  BY BoundsAssumption DEF Typed, Folder, Inodes, Names
<1>2. QED
  BY <1>1 DEF Unanswered, Servers, Theirs, Echoing

LEMMA AsksExposed ==
  ASSUME Typed, Unanswered, [Next]_vars, NEW p \in Files
  PROVE  /\ Asks("NEW_FILE", p) /\ Servers(p) => Exposed(p)
         /\ Asks("DELETE", p) /\ p \in Theirs => Exposed(p)
<1>1. SUFFICES ASSUME NEW op \in {"NEW_FILE", "DELETE"}, Asks(op, p), Servers(p),
                      op = "DELETE" => p \in Theirs
               PROVE  Exposed(p)
  BY DEF Servers
<1>2. env.remote # {} /\ Located /\ Tidy
  BY <1>1, NothingOfServers DEF Unanswered
<1>3. CASE RunOnce
  <2>1. ChooseRequest(Head(events).type, None, Head(events).path)
    <3>1. queue' # queue
      BY <1>1 DEF Asks, Typed, Reports
    <3>2. QED
      BY <1>3, <3>1 DEF RunOnce
  <2>2. Head(events) \in EventType /\ (watch' = watch \/ WatchFile(Head(events).path))
    BY <1>3, NextEventTyped DEF RunOnce
  <2>3. Head(events) \in Unheard
    BY <1>2, <1>3, <2>2, UnheardTaken DEF RunOnce, EventType
  <2>4. /\ op = "NEW_FILE" => Head(events).type \in Loud
        /\ op = "DELETE" => Head(events).type \in {"delete", "outward_move"}
        /\ p = Head(events).path /\ p \notin perm \cup ignored
    BY <1>1, <2>1, ChosenRequest
  <2>5. Head(events).type # "outward_move"
    BY <2>2 DEF EventType, Kinds
  <2>6. QED
    BY <1>1, <2>3, <2>4, <2>5 DEF Exposed, Heard, Deleting
<1>4. CASE CatchAllEvents
  <2>1. ChooseRequest(Head(events).type, None, notifier.path) /\ notifier.at = "catchAllEvents"
    <3>1. queue' # queue
      BY <1>1 DEF Asks, Typed, Reports
    <3>2. QED
      BY <1>4, <3>1 DEF CatchAllEvents, GetNextEvent
  <2>2. p = notifier.path /\ p \notin perm \cup ignored
    BY <1>1, <2>1, ChosenRequest
  <2>3. QED
    BY <1>1, <2>1, <2>2 DEF Exposed, Heard
<1>5. ~DetermineMoveType
  BY <1>2 DEF Tidy, DetermineMoveType, GetNextEvent
<1>6. QED
  BY <1>1, <1>3, <1>4, <1>5, NotifierAsks

\* When the notifier keeps up, a path leaves permanentlyIgnored only when nothing of a
\* file of the server's waits to be reported.
LEMMA HeardHidden ==
  ASSUME Typed, Exclusion, ~env.lag, Prompt, [Next]_vars, NEW p \in Files, Servers(p), Heard(p)
  PROVE  p \notin perm \ perm'
<1>1. SUFFICES ASSUME p \in perm, p \notin perm' PROVE FALSE
  OBVIOUS
<1>2. ChangeModificationTime \/ Received \/ Unlock
  <2>1. ~User /\ ~Notifier /\ ~UNCHANGED vars
    BY <1>1 DEF User, UserCreate, UserOpen, UserRemove, UserMoveIn, UserMoveOut, UserMove, UserWrite,
                UserClose, Edits, Notifier, Poll, Read, RunOnce, CatchAllEvents, DetermineMoveType,
                GetNextEvent, vars
  <2>2. Sender => ChangeModificationTime
    BY <1>1 DEF Sender, Dequeue, SendContent, GetModificationTime, SendDeletion, SendMove
  <2>3. Receiver => Received \/ Unlock
    BY <1>1 DEF Receiver, ReceiverStep, ReceiveNewFile, ReceiveDeletion, Arrives, OpenFile, WriteFile,
                CloseFile, SetReceivedTime, WatchReceived, DeleteFile
  <2>4. QED
    BY <2>1, <2>2, <2>3 DEF Next
<1>3. CaughtUp /\ receiver.at \notin {"write", "close"}
  BY <1>2 DEF ChangeModificationTime, Received, Unlock, Sends, Goes, Receives, Exclusion,
              SenderLocks, ReceiverLocks
<1>4. Unheard = {}
  BY <1>3, AllRead
<1>5. notifier.at = "catchAllEvents" /\ notifier.path = p
  BY <1>4 DEF Heard
<1>6. QED
  BY <1>3, <1>4, <1>5 DEF Prompt, Gathered, Writing, Written

\* And ignoredPaths only when no deletion of the server's does.
LEMMA DeletingIgnored ==
  ASSUME Typed, Unanswered, WritesHidden, ~env.lag, [Next]_vars, NEW p \in Files, p \in Theirs,
         Deleting(p), Deleting(p)'
  PROVE  p \notin ignored \ ignored'
<1>1. SUFFICES ASSUME p \in ignored, p \notin ignored' PROVE FALSE
  OBVIOUS
<1>2. Located /\ Tidy /\ Prompt
  BY NothingOfServers DEF Unanswered
<1>3. RunOnce \/ CatchAllEvents
  <2>1. ~User /\ ~Sender /\ ~Receiver /\ ~UNCHANGED vars /\ ~Poll /\ ~Read
    BY <1>1 DEF User, UserCreate, UserOpen, UserRemove, UserMoveIn, UserMoveOut, UserMove, UserWrite,
                UserClose, Edits, Poll, Read, Sender, Dequeue, SendContent, GetModificationTime,
                ChangeModificationTime, SendDeletion, SendMove, Sends, Receiver, ReceiverStep,
                ReceiveNewFile, ReceiveDeletion, Arrives, OpenFile, WriteFile, CloseFile, Received,
                SetReceivedTime, Unlock, WatchReceived, DeleteFile, Goes, vars
  <2>2. ~DetermineMoveType
    BY <1>2 DEF Tidy, DetermineMoveType, GetNextEvent
  <2>3. QED
    BY <2>1, <2>2 DEF Next, Notifier
<1>4. PICK event, q : /\ ChooseRequest(event, None, q)
                      /\ \/ RunOnce /\ event = Head(events).type /\ q = Head(events).path
                         \/ CatchAllEvents /\ notifier.at = "catchAllEvents" /\ q = notifier.path
  <2>1. ignored' # ignored
    BY <1>1
  <2>2. QED
    BY <1>3, <2>1 DEF RunOnce, CatchAllEvents, GetNextEvent
<1>5. event # "other" /\ q = p /\ p \notin perm
  <2>1. p # None
    BY FilesNames
  <2>2. QED
    BY <1>1, <1>4, <2>1 DEF ChooseRequest, Asked
<1>6. CASE CatchAllEvents /\ notifier.at = "catchAllEvents" /\ q = notifier.path
  BY <1>2, <1>5, <1>6 DEF Prompt, Gathered, Servers, Writing, Written, WritesHidden
<1>7. CASE RunOnce /\ event = Head(events).type /\ q = Head(events).path
  <2>1. /\ events \in Seq(EventType) /\ events # <<>> /\ events' = Tail(events)
        /\ kernel = <<>> /\ kernel' = <<>> /\ receiver' = receiver
    BY <1>2, <1>7 DEF Typed, Kernel, RunOnce, GetNextEvent, Prompt, KeptUp
  <2>2. Len(events) \in Nat /\ Len(events) # 0 /\ Head(events) = events[1]
    BY <2>1, EmptySeq
  <2>3. Head(events) \in Unheard
    BY <2>2 DEF Unheard
  <2>4. ~(receiver.at = "deleteFile" /\ receiver.path = p)
    BY <1>2, <1>5, <1>7, <2>3 DEF Prompt, Foremost
  <2>5. PICK e \in Unheard' : e.type = "delete"
    BY <2>1, <2>4 DEF Deleting
  <2>6. PICK j \in 1 .. Len(Tail(events)) : e = Tail(events)[j]
    <3>1. 1 .. Len(kernel') = {}
      BY <2>1
    <3>2. \/ \E i \in 1 .. Len(events') : e = events'[i]
          \/ \E i \in 1 .. Len(kernel') : TRUE
      BY <2>5, Zenon DEF Unheard
    <3>3. QED
      BY <2>1, <3>1, <3>2
  <2>7. /\ j + 1 \in 1 .. Len(events) /\ 1 \in 1 .. Len(events) /\ 1 < j + 1
        /\ Tail(events)[j] = events[j + 1]
    BY <2>1, <2>2, <2>6
  <2>8. QED
    BY <1>2, <1>5, <1>7, <2>2, <2>5, <2>6, <2>7 DEF Prompt, Foremost, First
<1>8. QED
  BY <1>4, <1>6, <1>7

LEMMA ExposedLost ==
  ASSUME Typed, Unanswered, Exclusion, WritesHidden, WritesHidden', Unanswered', Typed', [Next]_vars,
         NEW p \in Files, Exposed(p)', ~Exposed(p)
  PROVE  env.lag /\ (p \in perm \ perm' \/ p \in ignored \ ignored')
<1>1. env' = env /\ Theirs' = Theirs /\ p \in Names
  BY TheirsKept, FilesNames
<1>2. env.remote # {}
  <2>1. SUFFICES ASSUME env.remote = {}, Unanswered' PROVE ~Servers(p)' /\ p \notin Theirs'
    BY DEF Exposed
  <2>2. disk'[p] # 0 => disk'[p] \in Inodes
    BY <1>1, BoundsAssumption DEF Typed, Folder, Inodes
  <2>3. QED
    BY <1>1, <2>1, <2>2 DEF Unanswered, Servers, Theirs, Echoing
<1>3. Located /\ Tidy /\ (~env.lag => Prompt) /\ AddsNoise /\ Takes
  <2>1. Located /\ Tidy /\ (~env.lag => Prompt)
    BY <1>2 DEF Unanswered
  <2>2. QED
    BY <2>1, NextAdds
<1>4. CASE Servers(p)' /\ p \notin perm' /\ Heard(p)'
  <2>1. ~Writing(p)'
    BY <1>4 DEF Writing, WritesHidden
  <2>2. Servers(p)
    BY <1>1, <1>3, <1>4, <2>1 DEF Takes
  <2>3. Heard(p)
    <3>1. ASSUME NEW e \in Unheard', e.path = p, e.type \in Loud PROVE e \in Unheard
      BY <1>3, <1>4, <2>1, <3>1 DEF AddsNoise, Noise
    <3>2. ASSUME notifier'.at = "catchAllEvents", notifier'.path = p PROVE Heard(p)
      <4>1. notifier' = notifier \/ RunOnce
        <5>1. User \/ Sender \/ Receiver \/ UNCHANGED vars => notifier' = notifier
          BY DEF User, UserCreate, UserOpen, UserRemove, UserMoveIn, UserMoveOut, UserMove, UserWrite,
                 UserClose, Edits, notifierVars, Sender, Dequeue, SendContent, GetModificationTime,
                 ChangeModificationTime, SendDeletion, SendMove, Sends, Receiver, ReceiverStep,
                 ReceiveNewFile, ReceiveDeletion, Arrives, OpenFile, WriteFile, CloseFile, Received,
                 SetReceivedTime, Unlock, WatchReceived, DeleteFile, Goes, Receives, vars
        <5>2. Poll \/ Read => notifier' = notifier
          BY DEF Poll, Read, notifierVars
        <5>3. CatchAllEvents => notifier' = notifier
          BY <3>2 DEF CatchAllEvents, Idle
        <5>4. ~DetermineMoveType
          BY <1>3 DEF Tidy, DetermineMoveType, GetNextEvent
        <5>5. QED
          BY <5>1, <5>2, <5>3, <5>4 DEF Next, Notifier
      <4>2. CASE notifier' = notifier
        BY <3>2, <4>2 DEF Heard
      <4>3. CASE RunOnce
        <5>1. Head(events) \in EventType /\ (watch' = watch \/ WatchFile(Head(events).path))
          BY <4>3, NextEventTyped DEF RunOnce
        <5>2. Head(events) \in Unheard
          BY <1>3, <4>3, <5>1, UnheardTaken DEF RunOnce, EventType
        <5>3. notifier.at = "runOnce"
          BY <4>3 DEF RunOnce, GetNextEvent
        <5>4. Head(events).type = "modify" /\ Head(events).path = p
          BY <3>2, <4>3, <5>3 DEF RunOnce
        <5>5. QED
          BY <5>2, <5>4 DEF Heard, Loud
      <4>4. QED
        BY <4>1, <4>2, <4>3
    <3>3. QED
      BY <1>4, <3>1, <3>2 DEF Heard
  <2>4. p \in perm \ perm'
    BY <1>4, <2>2, <2>3 DEF Exposed
  <2>5. QED
    BY <1>3, <2>2, <2>3, <2>4, HeardHidden
<1>5. CASE p \in Theirs /\ p \notin ignored' /\ Deleting(p)'
  <2>1. Deleting(p)
    <3>1. ASSUME NEW e \in Unheard', e.path = p, e.type = "delete" PROVE Deleting(p)
      BY <1>3, <1>5, <3>1 DEF AddsNoise, Noise, Deleting
    <3>2. ASSUME receiver'.at = "deleteFile", receiver'.path = p PROVE Deleting(p)
      <4>1. CASE receiver' = receiver
        BY <3>2, <4>1 DEF Deleting
      <4>2. ~Receiver => receiver' = receiver
        BY DEF Next, User, UserCreate, UserOpen, UserRemove, UserMoveIn, UserMoveOut, UserMove,
               UserWrite, UserClose, Edits, Sender, Dequeue, SendContent, GetModificationTime,
               ChangeModificationTime, SendDeletion, SendMove, Sends, Notifier, Poll, Read, RunOnce,
               CatchAllEvents, DetermineMoveType, GetNextEvent, vars
      <4>3. ~ReceiverStep
        BY <3>2, ThreadRecords
           DEF ReceiverStep, OpenFile, WriteFile, CloseFile, Received, SetReceivedTime, Unlock,
               WatchReceived, DeleteFile, Goes, Receives, ReceiverState, Resting
      <4>4. ASSUME NEW q \in Files, ReceiveNewFile(q) \/ ReceiveDeletion(q) PROVE FALSE
        BY <1>5, <3>2, <4>4 DEF ReceiveNewFile, ReceiveDeletion
      <4>5. QED
        BY <4>1, <4>2, <4>3, <4>4 DEF Receiver
    <3>3. QED
      BY <1>5, <3>1, <3>2 DEF Deleting
  <2>2. p \in ignored \ ignored'
    BY <1>5, <2>1 DEF Exposed
  <2>3. QED
    BY <1>5, <2>1, <2>2, DeletingIgnored
<1>6. QED
  BY <1>1, <1>4, <1>5 DEF Exposed

\* A file that the server sent is not reported back to it as new, nor as deleted when its
\* name is not one the user uses, unless its path has left permanentlyIgnored or
\* ignoredPaths with the events unread; which takes a notifier that lags behind
\* (Dropbox.cpp:487-514, 534-554, 597; ClientEventReporter.cpp:294-317).
THEOREM NothingEchoed == Spec /\ Watchful(env) => NoEcho
<1> DEFINE Inv == Typed /\ Unanswered /\ Exclusion /\ WritesHidden
<1>1. Init /\ Watchful(env) => Inv
  BY TypedInit, UnansweredInit, HiddenInit
<1>2. Inv /\ [Next]_vars => Inv'
  BY TypedNext, UnansweredNext, HiddenSender, HiddenReceiver, HiddenOthers DEF Next
<1>3. Inv /\ Inv' /\ [Next]_vars =>
          [\A p \in Files :
              /\ Asks("NEW_FILE", p) /\ Servers(p) => Exposed(p)
              /\ Asks("DELETE", p) /\ p \in Theirs => Exposed(p)
              /\ Exposed(p)' /\ ~Exposed(p) =>
                     env.lag /\ (p \in perm \ perm' \/ p \in ignored \ ignored')]_vars
  BY AsksExposed, ExposedLost
<1>4. QED
  BY <1>1, <1>2, <1>3, PTL DEF Spec, NoEcho
=============================================================================
