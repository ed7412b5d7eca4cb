------------------------------ MODULE Sync_proofs ------------------------------
(***************************************************************************)
(* Theorems about Sync, for any folders, clients and clocks.  Types; and,  *)
(* as long as programs are stopped only when nothing is going on, a        *)
(* synchronisation never sends a part of a file in place of a whole one.   *)
(* The server's folder implements Merge: whatever clients come and in      *)
(* whatever order, the server's version of a file is only ever replaced by *)
(* a newer one that a user wrote.  And a client for which nothing is on    *)
(* the way has what the server has.                                        *)
(***************************************************************************)
EXTENDS Sync, Integers, TLAPS

-----------------------------------------------------------------------------
(* Types *)

LEMMA OnWireTimes ==
  ASSUME NEW t \in Times
  PROVE  OnWire(t) \in Times
<1> DEFINE q == t \div Wrap
           r == t % Wrap
<1>1. Wrap \in Nat /\ Wrap > 0 /\ t \in Nat /\ MaxClock \in Nat /\ t <= MaxClock
  BY SyncAssumption DEF Times
<1>2. r \in Nat /\ q \in Int /\ t = Wrap * q + r /\ r < Wrap
  BY <1>1, Z3
<1> HIDE DEF q, r
<1>3. q >= 0
  BY <1>1, <1>2, Z3
<1>4. Wrap * q >= 0
  BY <1>1, <1>2, <1>3, Z3
<1>5. r <= t
  BY <1>1, <1>2, <1>4
<1>6. QED
  BY <1>1, <1>2, <1>5 DEF OnWire, Times, r

\* A folder after a change of one entry.
LEMMA TreeChanged ==
  ASSUME disk \in [Nodes -> Tree], NEW n \in Nodes, NEW p \in Paths, NEW e \in Entry,
         disk' = [disk EXCEPT ![n][p] = e]
  PROVE  /\ disk' \in [Nodes -> Tree]
         /\ disk'[n][p] = e
         /\ \A q \in Paths \ {p} : disk'[n][q] = disk[n][q]
         /\ \A m \in Nodes \ {n} : disk'[m] = disk[m]
<1>1. disk[n] \in [Paths -> Entry]
  BY DEF Tree
<1>2. [disk[n] EXCEPT ![p] = e] \in [Paths -> Entry]
  BY <1>1
<1>3. disk' = [disk EXCEPT ![n] = [disk[n] EXCEPT ![p] = e]]
  OBVIOUS
<1>4. disk'[n] = [disk[n] EXCEPT ![p] = e] /\ \A m \in Nodes \ {n} : disk'[m] = disk[m]
  BY <1>3
<1>5. disk' \in [Nodes -> Tree]
  BY <1>2, <1>3 DEF Tree
<1>6. QED
  BY <1>1, <1>4, <1>5

LEMMA Data ==
  /\ Nothing \in Entry /\ Folder \in Entry
  /\ Clients \subseteq Nodes /\ Server \in Nodes /\ Server \notin Clients
  /\ \A t \in Times : [val |-> Torn, time |-> t] \in Entry
  /\ StartClock \in Times
<1>1. 0 \in Times /\ StartClock \in Times
  BY SyncAssumption DEF Times
<1>2. QED
  BY <1>1, SyncAssumption DEF Nothing, Folder, Entry, Vals, Nodes

LEMMA TypedInit == Init => TypeOK
<1> SUFFICES ASSUME Init PROVE TypeOK
  OBVIOUS
<1>1. disk \in [Nodes -> Tree]
  <2>1. /\ disk \in [Nodes -> UNION {Start[n] : n \in Nodes}] /\ \A n \in Nodes : disk[n] \in Start[n]
    BY DEF Init
  <2>2. \A n \in Nodes : Start[n] \in SUBSET Tree
    BY SyncAssumption
  <2>3. \A n \in Nodes : disk[n] \in Tree
    BY <2>1, <2>2
  <2>4. QED
    BY <2>1, <2>3
<1>2. known \in [Paths -> SUBSET Entry]
  <2>1. \A n \in Nodes : \A p \in Paths : disk[n][p] \in Entry
    BY <1>1 DEF Tree
  <2>2. QED
    BY <2>1 DEF Init
<1>3. QED
  BY <1>1, <1>2, Data DEF Init, TypeOK, Stages, Session, Receiving, Closed, Quiet

\* What is on its way to a node.
LEMMA SessionTyped ==
  ASSUME TypeOK, ses.pc # "idle"
  PROVE  /\ ses.p \in Paths /\ ses.time \in Times
         /\ ses.pc \in {"content", "sent"} => ses.val \in Vals
  BY DEF TypeOK, Session, Quiet

LEMMA ArrivingTyped ==
  ASSUME TypeOK, NEW n \in Nodes, Arrived(n)
  PROVE  Arriving(n).p \in Paths /\ Arriving(n).val \in Vals /\ Arriving(n).time \in Times
<1>1. CASE InSession(n)
  BY <1>1, SessionTyped DEF Arriving, InSession
<1>2. CASE ~InSession(n)
  <2>1. n \in Clients /\ down[n] # <<>> /\ down[n] \in Seq(Message)
    BY <1>2 DEF Arrived, FromQueue, TypeOK
  <2>2. Head(down[n]) \in Message
    BY <2>1
  <2>3. QED
    BY <1>2, <2>2 DEF Arriving, Message
<1>3. QED
  BY <1>1, <1>2

LEMMA TypedUsers ==
  ASSUME TypeOK, UserStep
  PROVE  TypeOK'
<1>1. CASE Tick
  BY <1>1, SyncAssumption DEF Tick, TypeOK, Times
<1>2. ASSUME NEW c \in Clients, NEW p \in Paths, Save(c, p)
      PROVE  TypeOK'
  <2> DEFINE e == [val |-> <<c, edits'>>, time |-> clock]
  <2>1. c \in Nodes /\ clock \in Times
    BY Data DEF TypeOK
  <2>2. edits' \in 0 .. MaxEdits
    BY <1>2, SyncAssumption DEF Save, TypeOK
  <2>3. e \in Entry
    BY <2>1, <2>2 DEF Entry, Vals, Written
  <2>4. disk' = [disk EXCEPT ![c][p] = e]
    BY <1>2 DEF Save
  <2> HIDE DEF e
  <2>5. disk' \in [Nodes -> Tree] /\ disk'[c][p] \in Entry
    <3>1. disk \in [Nodes -> Tree]
      BY DEF TypeOK
    <3>2. disk' \in [Nodes -> Tree] /\ disk'[c][p] = e
      BY <2>1, <2>3, <2>4, <3>1, TreeChanged, ZenonT(40)
    <3>3. QED
      BY <2>3, <3>2
  <2>6. known' \in [Paths -> SUBSET Entry]
    BY <1>2, <2>5 DEF Save, TypeOK
  <2>7. QED
    BY <1>2, <2>2, <2>5, <2>6 DEF Save, TypeOK
<1>3. ASSUME NEW c \in Clients, NEW p \in Paths, Remove(c, p)
      PROVE  TypeOK'
  <2>1. disk' = [disk EXCEPT ![c][p] = Nothing] /\ edits' \in Nat
    BY <1>3 DEF Remove, TypeOK
  <2>2. disk' \in [Nodes -> Tree]
    BY <2>1, Data, TreeChanged DEF TypeOK
  <2>3. QED
    BY <1>3, <2>1, <2>2 DEF Remove, TypeOK
<1>4. QED
  BY <1>1, <1>2, <1>3 DEF UserStep

\* The two ends of a session.
LEMMA Ends ==
  ASSUME TypeOK, Active
  PROVE  holder \in Clients /\ Asker \in Nodes /\ Other \in Nodes /\ {Asker, Other} = {holder, Server}
  BY Data DEF TypeOK, Active, Asker, Other

LEMMA TypedSession ==
  ASSUME TypeOK, SessionStep
  PROVE  TypeOK'
<1>1. ASSUME NEW p \in Paths, Ask(p)
      PROVE  TypeOK'
  <2>1. Asker \in Nodes
    BY <1>1, Ends DEF Ask
  <2>2. disk[Asker][p].time \in Times
    BY <2>1 DEF TypeOK, Tree, Entry
  <2>3. ses' \in Session
    BY <1>1, <2>2, OnWireTimes DEF Ask, Session
  <2>4. QED
    BY <1>1, <2>3 DEF Ask, TypeOK
<1>2. CASE Answer
  <2>1. Other \in Nodes /\ ses.pc = "asked" /\ ses.p \in Paths /\ ses \in Session
    BY <1>2, Ends, SessionTyped DEF Answer, TypeOK
  <2>2. CASE Valid(disk[Other][ses.p], ses.time)
    BY <1>2, <2>2 DEF Answer, TypeOK, Session
  <2>3. CASE ~Valid(disk[Other][ses.p], ses.time)
    <3>1. disk' = [disk EXCEPT ![Other][ses.p] = Nothing] /\ ses' = [ses EXCEPT !.pc = "wanted"]
      BY <1>2, <2>3 DEF Answer
    <3>2. disk' \in [Nodes -> Tree]
      BY <2>1, <3>1, Data, TreeChanged DEF TypeOK
    <3>3. ses' \in Session
      BY <2>1, <3>1 DEF Session, Quiet
    <3>4. QED
      BY <1>2, <2>3, <3>2, <3>3 DEF Answer, TypeOK
  <2>4. QED
    BY <2>2, <2>3
<1>3. CASE SendContent
  <2>1. Asker \in Nodes /\ ses.p \in Paths /\ ses.time \in Times
    BY <1>3, Ends, SessionTyped DEF SendContent
  <2>2. disk[Asker][ses.p].val \in Vals
    BY <2>1 DEF TypeOK, Tree, Entry
  <2>3. ses' \in Session
    BY <1>3, <2>1, <2>2 DEF SendContent, Session
  <2>4. QED
    BY <1>3, <2>3 DEF SendContent, TypeOK
<1>4. CASE SendTime
  <2>1. Asker \in Nodes /\ ses.p \in Paths /\ ses.pc = "content" /\ ses \in Session
    BY <1>4, Ends, SessionTyped DEF SendTime, TypeOK
  <2>2. OnWire(disk[Asker][ses.p].time) \in Times
    BY <2>1, OnWireTimes DEF TypeOK, Tree, Entry
  <2>3. ses' \in Session
    <3> DEFINE t == OnWire(disk[Asker][ses.p].time)
    <3>1. ses \in [pc : {"content", "sent"}, p : Paths, val : Vals, time : Times]
      BY <2>1 DEF Session, Quiet
    <3>2. ses' = [ses EXCEPT !.pc = "sent", !.time = t]
      BY <1>4 DEF SendTime
    <3> HIDE DEF t
    <3>3. ses' \in [pc : {"content", "sent"}, p : Paths, val : Vals, time : Times]
      BY <2>2, <3>1, <3>2 DEF t
    <3>4. QED
      BY <3>3 DEF Session
  <2>4. QED
    BY <1>4, <2>3 DEF SendTime, TypeOK
<1>5. CASE TurnAround \/ Register
  BY <1>5 DEF TurnAround, Register, Used, TypeOK, Stages
<1>6. QED
  BY <1>1, <1>2, <1>3, <1>4, <1>5 DEF SessionStep

LEMMA DoneTyped ==
  ASSUME TypeOK, NEW n \in Nodes, Arrived(n), Done(n)
  PROVE  /\ ses' \in Session /\ todo' \subseteq Paths
         /\ queue' \in [Clients -> Seq(Paths)] /\ down' \in [Clients -> Seq(Message)]
<1>1. CASE InSession(n)
  <2>1. ses.p \in Paths
    BY <1>1, SessionTyped DEF InSession
  <2>2. Broadcast(ses.p) \in [Clients -> Seq(Paths)]
    BY <2>1 DEF Broadcast, TypeOK
  <2>3. QED
    BY <1>1, <2>2 DEF Done, TypeOK, Session
<1>2. CASE ~InSession(n)
  <2>1. n \in Clients /\ down[n] # <<>> /\ down \in [Clients -> Seq(Message)]
    BY <1>2 DEF Arrived, FromQueue, TypeOK
  <2>2. Tail(down[n]) \in Seq(Message)
    BY <2>1
  <2>3. QED
    BY <1>2, <2>1, <2>2 DEF Done, TypeOK
<1>3. QED
  BY <1>1, <1>2

\* A file that is open is one that was announced.
LEMMA OpenTyped ==
  ASSUME TypeOK, NEW n \in Nodes, rx[n].open
  PROVE  rx[n].p \in Paths /\ rx[n].full \in BOOLEAN /\ rx[n] \in [open : {TRUE}, p : Paths, full : BOOLEAN]
<1>1. rx[n] \in Receiving
  BY DEF TypeOK
<1>2. rx[n] # Closed
  BY DEF Closed
<1>3. rx[n] \in [open : {TRUE}, p : Paths, full : BOOLEAN]
  BY <1>1, <1>2 DEF Receiving
<1>4. QED
  BY <1>3

LEMMA TypedReceive ==
  ASSUME TypeOK, NEW n \in Nodes, Receive(n)
  PROVE  TypeOK'
<1>0. clock \in Times /\ disk \in [Nodes -> Tree] /\ rx \in [Nodes -> Receiving]
  BY DEF TypeOK
<1>1. CASE Open(n)
  <2> DEFINE p == Arriving(n).p
  <2>1. p \in Paths
    BY <1>1, ArrivingTyped DEF Open
  <2>2. disk' = [disk EXCEPT ![n][p] = [val |-> Torn, time |-> clock]]
    BY <1>1 DEF Open
  <2>3. rx' = [rx EXCEPT ![n] = [open |-> TRUE, p |-> p, full |-> FALSE]]
    BY <1>1 DEF Open
  <2> HIDE DEF p
  <2>4. disk' \in [Nodes -> Tree]
    BY <1>0, <2>1, <2>2, Data, TreeChanged
  <2>5. rx' \in [Nodes -> Receiving]
    BY <1>0, <2>1, <2>3 DEF Receiving
  <2>6. QED
    BY <1>1, <2>4, <2>5 DEF Open, TypeOK
<1>2. CASE Fill(n)
  <2> DEFINE p == rx[n].p
             v == Arriving(n).val
  <2>1. p \in Paths /\ rx[n] \in [open : {TRUE}, p : Paths, full : BOOLEAN] /\ v \in Vals
    BY <1>2, ArrivingTyped, OpenTyped DEF Fill
  <2>2. disk' = [disk EXCEPT ![n][p] = [val |-> v, time |-> clock]]
    BY <1>2 DEF Fill
  <2>3. rx' = [rx EXCEPT ![n].full = TRUE]
    BY <1>2 DEF Fill
  <2>4. [val |-> v, time |-> clock] \in Entry
    BY <1>0, <2>1 DEF Entry
  <2>5. rx' \in [Nodes -> Receiving]
    BY <1>0, <2>1, <2>3 DEF Receiving
  <2> HIDE DEF p, v
  <2>6. disk' \in [Nodes -> Tree]
    BY <1>0, <2>1, <2>2, <2>4, TreeChanged
  <2>7. QED
    BY <1>2, <2>5, <2>6 DEF Fill, TypeOK
<1>3. CASE Stamp(n)
  <2> DEFINE p == rx[n].p
             t == Arriving(n).time
  <2>1. p \in Paths /\ t \in Times
    BY <1>3, ArrivingTyped, OpenTyped DEF Stamp
  <2>2. disk' = [disk EXCEPT ![n][p] = [disk[n][p] EXCEPT !.time = t]]
    BY <1>3 DEF Stamp
  <2> HIDE DEF p, t
  <2>3. [disk[n][p] EXCEPT !.time = t] \in Entry
    BY <1>0, <2>1 DEF Tree, Entry
  <2>4. disk' \in [Nodes -> Tree]
    BY <1>0, <2>1, <2>2, <2>3, TreeChanged
  <2>5. rx' \in [Nodes -> Receiving]
    BY <1>0, <1>3 DEF Stamp, Receiving
  <2>6. QED
    BY <1>3, <2>4, <2>5, DoneTyped DEF Stamp, TypeOK
<1>4. CASE MakeDirectory(n)
  <2>1. Arriving(n).p \in Paths
    BY <1>4, ArrivingTyped DEF MakeDirectory
  <2>2. disk' \in [Nodes -> Tree]
    BY <1>0, <1>4, <2>1, Data, TreeChanged DEF MakeDirectory
  <2>3. QED
    BY <1>4, <2>2, DoneTyped DEF MakeDirectory, TypeOK
<1>5. QED
  BY <1>1, <1>2, <1>3, <1>4 DEF Receive

LEMMA TypedPrograms ==
  ASSUME TypeOK, NEW c \in Clients, Join(c) \/ SendQueued(c) \/ KillClient(c) \/ KillServer
  PROVE  TypeOK'
<1>1. CASE Join(c)
  BY <1>1 DEF Join, TypeOK, Used, Stages, Session
<1>2. CASE SendQueued(c)
  <2> DEFINE p == Head(queue[c])
  <2>1. queue[c] \in Seq(Paths) /\ queue[c] # <<>> /\ p \in Paths /\ Tail(queue[c]) \in Seq(Paths)
    BY <1>2 DEF SendQueued, TypeOK
  <2>2. disk[Server][p] \in Entry
    BY <2>1, Data DEF TypeOK, Tree
  <2> DEFINE m == [p |-> p, val |-> disk[Server][p].val, time |-> OnWire(disk[Server][p].time)]
  <2>3. m \in Message
    BY <2>1, <2>2, OnWireTimes DEF Message, Entry
  <2>4. down' = [down EXCEPT ![c] = Append(@, m)]
    BY <1>2 DEF SendQueued
  <2>5. \E q \in {<<>>, Tail(queue[c])} : queue' = [queue EXCEPT ![c] = q]
    BY <1>2 DEF SendQueued
  <2> HIDE DEF m
  <2>6. down' \in [Clients -> Seq(Message)]
    BY <2>3, <2>4 DEF TypeOK
  <2>7. queue' \in [Clients -> Seq(Paths)]
    <3>1. PICK q \in {<<>>, Tail(queue[c])} : queue' = [queue EXCEPT ![c] = q]
      BY <2>5
    <3>2. q = <<>> \/ q = Tail(queue[c])
      BY <3>1
    <3> DEFINE rest == Tail(queue[c])
    <3>a. rest \in Seq(Paths) /\ (q = <<>> \/ q = rest)
      BY <3>2, <2>1
    <3>b. <<>> \in Seq(Paths)
      OBVIOUS
    <3> HIDE DEF rest
    <3>3. q \in Seq(Paths)
      BY <3>a, <3>b, Zenon
    <3>4. queue \in [Clients -> Seq(Paths)]
      BY DEF TypeOK
    <3> HIDE DEF p
    <3>5. QED
      BY <3>1, <3>3, <3>4
  <2>8. QED
    BY <1>2, <2>6, <2>7 DEF SendQueued, TypeOK
<1>3. CASE KillClient(c)
  <2>1. rx' \in [Nodes -> Receiving] /\ holder' \in Clients \cup {None}
    BY <1>3 DEF KillClient, TypeOK, Receiving
  <2>2. stage' \in [Clients -> Stages] /\ queue' \in [Clients -> Seq(Paths)] /\ down' \in [Clients -> Seq(Message)]
    BY <1>3 DEF KillClient, TypeOK, Stages
  <2>3. kills' \in Nat /\ UNCHANGED <<disk, clock, todo, ses, known, edits>>
    BY <1>3 DEF KillClient, TypeOK
  <2>4. QED
    BY <2>1, <2>2, <2>3 DEF TypeOK
<1>4. CASE KillServer
  BY <1>4 DEF KillServer, TypeOK, Stages, Receiving
<1>5. QED
  BY <1>1, <1>2, <1>3, <1>4

LEMMA TypedStep == TypeOK /\ [Next]_vars => TypeOK'
<1>1. CASE UNCHANGED vars
  BY <1>1 DEF vars, TypeOK
<1>2. CASE KillServer /\ Clients = {}
  BY <1>2 DEF KillServer, TypeOK, Stages, Receiving
<1>3. QED
  BY <1>1, <1>2, TypedUsers, TypedSession, TypedReceive, TypedPrograms DEF Next

\* Types are right in every reachable state, whatever is on the wire.
THEOREM TypeCorrect == Spec => []TypeOK
  BY TypedInit, TypedStep, PTL DEF Spec
-----------------------------------------------------------------------------
(* Whole files *)

\* Programs are stopped only when nothing is going on, and the folders hold whole
\* files to begin with.
Calm ==
    /\ "idle" \notin Kills /\ "busy" \notin Kills
    /\ \A n \in Nodes : \A tree \in Start[n] : \A p \in Paths : tree[p].val # Torn

-----------------------------------------------------------------------------
(* The inductive invariant *)

\* Only the client whose synchronisation is going on is between off and live.
Holds == holder # None => stage[holder] \in {"get", "give"}

\* Nothing is sent to a client before it is in the list.
Unlisted == \A c \in Clients : stage[c] # "live" => queue[c] = <<>> /\ down[c] = <<>>

\* What is open is the file that arrives; it is not written to the end if it never ends.
Opened == \A n \in Nodes :
    rx[n].open => /\ Arrived(n) /\ rx[n].p = Arriving(n).p /\ Arriving(n).val # Dir
                  /\ rx[n].full => Arriving(n).val # Absent

\* n is writing p.
Writing(n, p) == rx[n].open /\ ~rx[n].full /\ rx[n].p = p

\* At the server, and at a client that is not in its list, a part of a file is what is
\* being written at this moment.
BeingWritten == \A n \in Nodes : \A p \in Paths :
    (n \in Clients => stage[n] # "live") /\ disk[n][p].val = Torn => Writing(n, p)

\* A client in the list will get p once more.
Due(c, p) == (\E i \in 1 .. Len(queue[c]) : queue[c][i] = p) \/ (rx[Server].open /\ rx[Server].p = p)

\* A part of a file that is on its way to a client in the list, or lies there, will be
\* replaced: by a message behind it, or by one still to be sent.
OnTheWay(c, p, k) == \E j \in 1 .. Len(down[c]) : j > k /\ down[c][j].p = p
Replaced == \A c \in Clients : stage[c] = "live" /\ ~Cut(c) =>
    \A p \in Paths :
        \/ Due(c, p)
        \/ /\ disk[c][p].val = Torn => OnTheWay(c, p, 0)
           /\ \A i \in 1 .. Len(down[c]) :
                 down[c][i].p = p /\ down[c][i].val = Torn => OnTheWay(c, p, i)

\* What is written to the end is what was sent.
Filled == \A c \in Clients :
    stage[c] = "live" /\ rx[c].open /\ rx[c].full => disk[c][rx[c].p].val = Head(down[c]).val

WholeInv == /\ TypeOK /\ Calm /\ Holds /\ Unlisted /\ Opened /\ BeingWritten
            /\ Replaced /\ Filled /\ WholeFilesWin

-----------------------------------------------------------------------------
(* Who receives what *)

\* A client in the list takes no part in a synchronisation.
LEMMA ListedApart ==
  ASSUME TypeOK, Holds, NEW n \in Clients, stage[n] = "live"
  PROVE  ~InSession(n)
  BY Data DEF InSession, Other, Getting, Active, Holds

\* Who is not in the list gets only what the synchronisation sends.
LEMMA OpenInSession ==
  ASSUME WholeInv, NEW n \in Nodes, rx[n].open, n \in Clients => stage[n] # "live"
  PROVE  InSession(n) /\ rx[n].p = ses.p /\ ses.val # Dir /\ (rx[n].full => ses.val # Absent)
  BY DEF WholeInv, Opened, Arrived, Arriving, FromQueue

\* Who is in the list gets only what is sent to the list.
LEMMA OpenFromQueue ==
  ASSUME WholeInv, NEW n \in Clients, rx[n].open, stage[n] = "live"
  PROVE  /\ down[n] # <<>> /\ rx[n].p = Head(down[n]).p /\ Head(down[n]).val # Dir
         /\ rx[n].full => Head(down[n]).val # Absent
  BY ListedApart, Data DEF WholeInv, Opened, Arrived, Arriving, FromQueue

\* The entry that a synchronisation is about is not open anywhere before it is sent.
LEMMA NotYetOpen ==
  ASSUME WholeInv, NEW n \in Nodes, n \in Clients => stage[n] # "live",
         holder = None \/ ses.pc \notin {"content", "sent"}
  PROVE  ~rx[n].open /\ \A p \in Paths : disk[n][p].val # Torn
<1>1. ~InSession(n)
  BY DEF InSession, Active
<1>2. ~rx[n].open
  BY <1>1, OpenInSession
<1>3. QED
  BY <1>2 DEF WholeInv, BeingWritten, Writing

\* Steps of the walks leave what is being received alone.
LEMMA OpenedStays ==
  ASSUME WholeInv, Holds', \A n \in Nodes : ~InSession(n), UNCHANGED <<rx, down>>,
         \A n \in Clients : stage[n] = "live" => stage'[n] = "live"
  PROVE  Opened'
<1> SUFFICES ASSUME NEW n \in Nodes, rx[n].open
             PROVE  /\ Arrived(n)' /\ rx[n].p = Arriving(n).p' /\ Arriving(n).val' # Dir
                    /\ rx[n].full => Arriving(n).val' # Absent
  BY DEF Opened
<1>1. n \in Clients /\ stage[n] = "live"
  BY OpenInSession
<1>2. /\ down[n] # <<>> /\ rx[n].p = Head(down[n]).p /\ Head(down[n]).val # Dir
      /\ rx[n].full => Head(down[n]).val # Absent
  BY <1>1, OpenFromQueue
<1>3. ~InSession(n)'
  BY <1>1, Data DEF InSession, Other, Getting, Active, Holds
<1>4. FromQueue(n)'
  BY <1>1, <1>2 DEF FromQueue
<1>5. QED
  BY <1>2, <1>3, <1>4 DEF Arrived, Arriving

-----------------------------------------------------------------------------
(* Init, and the users *)

LEMMA WholeInit == Init /\ Calm => WholeInv
<1> SUFFICES ASSUME Init, Calm PROVE WholeInv
  OBVIOUS
<1>1. TypeOK
  BY TypedInit
<1>2. \A n \in Nodes : ~rx[n].open
  BY DEF Init, Closed
<1>3. \A n \in Nodes : \A p \in Paths : disk[n][p].val # Torn
  BY DEF Init, Calm
<1>4. ses.pc = "idle" /\ holder = None /\ \A c \in Clients : stage[c] = "off"
  BY DEF Init, Quiet
<1>5. Unlisted
  BY DEF Init, Unlisted
<1>6. QED
  BY <1>1, <1>2, <1>3, <1>4, <1>5
  DEF WholeInv, Holds, Opened, BeingWritten, Replaced, Filled, WholeFilesWin

\* What a user does to a file leaves no part of a file.
LEMMA WholeUsers ==
  ASSUME WholeInv, TypeOK', UserStep
  PROVE  WholeInv'
<1>0. UNCHANGED <<stage, holder, ses, rx, queue, down>>
  BY DEF UserStep, Tick, Save, Remove
<1>1. Calm' /\ Holds' /\ Unlisted' /\ WholeFilesWin'
  BY <1>0 DEF WholeInv, Calm, Holds, Unlisted, WholeFilesWin
<1>2. Opened'
  BY <1>0 DEF WholeInv, Opened, Arrived, Arriving, InSession, FromQueue, Active, Other, Getting
<1>3. \A n \in Nodes : \A p \in Paths : disk'[n][p].val = Torn => disk[n][p].val = Torn
  <2>1. CASE Tick
    BY <2>1 DEF Tick
  <2>2. ASSUME NEW c \in Clients, NEW q \in Paths, Save(c, q) \/ Remove(c, q)
        PROVE  \A n \in Nodes : \A p \in Paths : disk'[n][p].val = Torn => disk[n][p].val = Torn
    <3> DEFINE e == disk'[c][q]
    <3>1. disk \in [Nodes -> Tree] /\ c \in Nodes
      BY Data DEF WholeInv, TypeOK
    <3>2. PICK x : x.val # Torn /\ disk' = [disk EXCEPT ![c][q] = x]
      <4>1. CASE Save(c, q)
        <5> DEFINE y == [val |-> <<c, edits'>>, time |-> clock]
        <5>1. <<c, edits'>> \in Written
          BY <3>1, <4>1, SyncAssumption DEF Save, Written, WholeInv, TypeOK
        <5>2. y.val # Torn
          BY <5>1, SyncAssumption
        <5>3. QED
          BY <4>1, <5>2 DEF Save
      <4>2. CASE Remove(c, q)
        BY <4>2, SyncAssumption DEF Remove, Nothing
      <4>3. QED
        BY <2>2, <4>1, <4>2
    <3>3. \A n \in Nodes : \A p \in Paths :
             disk'[n][p] = IF n = c /\ p = q THEN x ELSE disk[n][p]
      BY <3>1, <3>2 DEF Tree
    <3>4. QED
      BY <3>2, <3>3
  <2>3. QED
    BY <2>1, <2>2 DEF UserStep
<1>4. BeingWritten'
  BY <1>0, <1>3 DEF WholeInv, BeingWritten, Writing
<1>5. Replaced'
  BY <1>0, <1>3, Data DEF WholeInv, Replaced, Due, OnTheWay, Cut
<1>6. Filled'
  <2> SUFFICES ASSUME NEW d \in Clients, stage[d] = "live", rx[d].open, rx[d].full
               PROVE  disk'[d][rx[d].p].val = Head(down[d]).val
    BY <1>0 DEF Filled
  <2>1. disk[d][rx[d].p].val = Head(down[d]).val
    BY DEF WholeInv, Filled
  <2>2. CASE Tick
    BY <2>1, <2>2 DEF Tick
  <2>3. ASSUME NEW c \in Clients, NEW q \in Paths, Save(c, q) \/ Remove(c, q)
        PROVE  disk'[d][rx[d].p] = disk[d][rx[d].p]
    <3>1. disk \in [Nodes -> Tree] /\ c \in Nodes /\ d \in Nodes /\ rx[d].p \in Paths
      BY Data, OpenTyped DEF WholeInv, TypeOK
    <3>2. d # c \/ rx[d].p # q
      BY <2>3 DEF Save, Remove
    <3>3. PICK x : disk' = [disk EXCEPT ![c][q] = x]
      BY <2>3 DEF Save, Remove
    <3>4. QED
      BY <3>1, <3>2, <3>3 DEF Tree
  <2>4. QED
    BY <2>1, <2>2, <2>3 DEF UserStep
<1>7. QED
  BY <1>1, <1>2, <1>4, <1>5, <1>6 DEF WholeInv

-----------------------------------------------------------------------------
(* The synchronisation *)

\* What is read to be sent is whole: neither side of a synchronisation is writing.
LEMMA WholeSession ==
  ASSUME WholeInv, TypeOK', SessionStep
  PROVE  WholeInv'
<1>0. Active /\ holder \in Clients /\ stage[holder] \in {"get", "give"} /\ UNCHANGED <<rx, queue, down>>
  BY Ends DEF WholeInv, Holds, Active, Getting, SessionStep, Ask, Answer, SendContent, SendTime,
             TurnAround, Register
<1>1. Calm'
  BY DEF WholeInv, Calm
<1>2. CASE SendTime
  <2>1. UNCHANGED <<disk, stage, holder, rx, queue, down>>
    BY <1>2 DEF SendTime
  <2>2. ses.pc = "content" /\ ses'.pc = "sent" /\ ses'.val = ses.val /\ ses'.p = ses.p
    <3>1. ses.pc = "content" /\ ses \in Session
      BY <1>2 DEF SendTime, WholeInv, TypeOK
    <3>2. ses \in [pc : {"content", "sent"}, p : Paths, val : Vals, time : Times]
      BY <3>1 DEF Session, Quiet
    <3>3. PICK t : ses' = [ses EXCEPT !.pc = "sent", !.time = t]
      BY <1>2 DEF SendTime
    <3>4. QED
      BY <3>1, <3>2, <3>3
  <2>3. Opened'
    BY <2>1, <2>2 DEF WholeInv, Opened, Arrived, Arriving, InSession, FromQueue, Active, Other, Getting
  <2>4. WholeFilesWin'
    BY <2>2 DEF WholeInv, WholeFilesWin
  <2>5. QED
    BY <1>1, <2>1, <2>3, <2>4
    DEF WholeInv, Holds, Unlisted, BeingWritten, Writing, Replaced, Due, OnTheWay, Cut, Filled
<1>3. CASE ~SendTime
  <2>1. ses.pc \notin {"content", "sent"}
    BY <1>3 DEF SessionStep, Ask, Answer, SendContent, TurnAround, Register, Quiet
  <2>2. Holds'
    BY <1>0, <1>3 DEF SessionStep, Ask, Answer, SendContent, TurnAround, Register, Holds, WholeInv, TypeOK
  <2>3. \A c \in Clients : stage[c] = "live" => stage'[c] = "live"
    BY <1>0, <1>3 DEF SessionStep, Ask, Answer, SendContent, TurnAround, Register, WholeInv, TypeOK
  <2>4. Opened'
    BY <1>0, <2>1, <2>2, <2>3, OpenedStays DEF InSession
  <2>5. Unlisted'
    BY <1>0, <2>3, <1>3 DEF WholeInv, Unlisted
  <2>6. \A n \in Nodes : (n \in Clients => stage[n] # "live") =>
           ~rx[n].open /\ \A p \in Paths : disk[n][p].val # Torn
    BY <2>1, NotYetOpen
  <2>7. WholeFilesWin'
    <3>1. CASE SendContent
      <4>1. Asker \in Nodes /\ (Asker \in Clients => stage[Asker] # "live") /\ ses.p \in Paths
        BY <1>0, <3>1, Data, SessionTyped DEF Asker, Getting, SendContent, WholeInv
      <4>2. disk[Asker][ses.p].val # Torn
        BY <2>6, <4>1
      <4>3. ses'.val = disk[Asker][ses.p].val
        BY <3>1 DEF SendContent
      <4>4. QED
        BY <4>2, <4>3 DEF WholeFilesWin
    <3>2. CASE ~SendContent
      <4>1. ses'.pc \in {"asked", "wanted", "idle"}
        <5>1. CASE Answer
          BY <5>1 DEF Answer, Quiet, WholeInv, TypeOK, Session
        <5>2. QED
          BY <1>3, <3>2, <5>1 DEF SessionStep, Ask, TurnAround, Register, Quiet
      <4>2. QED
        BY <4>1 DEF WholeFilesWin
    <3>3. QED
      BY <3>1, <3>2
  <2>8. /\ \A n \in Nodes : \A p \in Paths : disk'[n][p].val = Torn => disk[n][p].val = Torn
        /\ \A c \in Clients : stage[c] = "live" => disk'[c] = disk[c]
    <3>1. CASE UNCHANGED disk
      BY <3>1
    <3>2. CASE Answer /\ disk' = [disk EXCEPT ![Other][ses.p] = Nothing]
      <4>1. disk \in [Nodes -> Tree] /\ Other \in Nodes /\ (Other \in Clients => stage[Other] # "live")
        BY <1>0, Data DEF Other, Getting, WholeInv, TypeOK
      <4>2. Nothing.val # Torn
        BY SyncAssumption DEF Nothing
      <4>3. QED
        BY <3>2, <4>1, <4>2, Data DEF Tree
    <3>3. QED
      BY <1>3, <3>1, <3>2 DEF SessionStep, Ask, Answer, SendContent, TurnAround, Register
  <2>9. BeingWritten'
    <3> SUFFICES ASSUME NEW n \in Nodes, NEW p \in Paths, n \in Clients => stage'[n] # "live",
                        disk'[n][p].val = Torn
                 PROVE  FALSE
      BY DEF BeingWritten
    <3>1. n \in Clients => stage[n] # "live"
      BY <2>3
    <3>2. QED
      BY <2>6, <2>8, <3>1
  <2>10. Replaced'
    <3> SUFFICES ASSUME NEW c \in Clients, stage'[c] = "live", ~Cut(c)', NEW p \in Paths, ~Due(c, p)'
                 PROVE  /\ disk'[c][p].val = Torn => OnTheWay(c, p, 0)'
                        /\ \A i \in 1 .. Len(down'[c]) :
                              down'[c][i].p = p /\ down'[c][i].val = Torn => OnTheWay(c, p, i)'
      BY DEF Replaced
    <3>1. ~Cut(c) /\ ~Due(c, p) /\ \A k : OnTheWay(c, p, k)' = OnTheWay(c, p, k)
      BY <1>0 DEF Cut, Due, OnTheWay
    <3>2. CASE stage[c] = "live"
      BY <1>0, <2>8, <3>1, <3>2 DEF WholeInv, Replaced
    <3>3. CASE stage[c] # "live"
      <4>1. down[c] = <<>> /\ c \in Nodes
        BY <3>3, Data DEF WholeInv, Unlisted
      <4>2. disk'[c][p].val # Torn
        BY <2>6, <2>8, <3>3, <4>1
      <4>3. QED
        BY <1>0, <4>1, <4>2
    <3>4. QED
      BY <3>2, <3>3
  <2>11. Filled'
    <3> SUFFICES ASSUME NEW c \in Clients, stage'[c] = "live", rx[c].open, rx[c].full
                 PROVE  disk'[c][rx[c].p].val = Head(down[c]).val
      BY <1>0 DEF Filled
    <3>1. stage[c] = "live"
      BY <2>6, Data
    <3>2. QED
      BY <2>8, <3>1 DEF WholeInv, Filled
  <2>12. QED
    BY <1>1, <2>2, <2>4, <2>5, <2>7, <2>9, <2>10, <2>11 DEF WholeInv
<1>4. QED
  BY <1>2, <1>3

-----------------------------------------------------------------------------
(* Programs start and stop *)

LEMMA WholeJoin ==
  ASSUME WholeInv, TypeOK', NEW c \in Clients, Join(c)
  PROVE  WholeInv'
<1>1. /\ holder = None /\ holder' = c /\ stage'[c] = "get" /\ stage[c] = "off"
      /\ \A d \in Clients \ {c} : stage'[d] = stage[d]
      /\ ses'.pc = "idle" /\ UNCHANGED <<disk, rx, queue, down>>
  BY DEF Join, WholeInv, TypeOK, Quiet
<1>2. Holds' /\ WholeFilesWin' /\ Calm'
  BY <1>1 DEF Holds, WholeFilesWin, WholeInv, Calm
<1>3. Opened'
  BY <1>1, <1>2, OpenedStays DEF InSession, Active
<1>4. Unlisted' /\ BeingWritten' /\ Filled'
  BY <1>1 DEF WholeInv, Unlisted, BeingWritten, Writing, Filled
<1>5. Replaced'
  BY <1>1 DEF WholeInv, Replaced, Due, OnTheWay, Cut
<1>6. QED
  BY <1>2, <1>3, <1>4, <1>5 DEF WholeInv

\* A client for which nothing is on the way has whole files, if nobody else is
\* being synchronised.
LEMMA IdleWhole ==
  ASSUME WholeInv, holder = None, NEW c \in Clients, Idle(c) \/ stage[c] = "off"
  PROVE  ~rx[c].open /\ \A p \in Paths : disk[c][p].val # Torn
<1>1. CASE stage[c] # "live"
  BY <1>1, NotYetOpen, Data
<1>2. CASE stage[c] = "live"
  <2>1. queue[c] = <<>> /\ down[c] = <<>> /\ ~rx[c].open
    BY <1>2 DEF Idle
  <2>2. ~rx[Server].open
    BY NotYetOpen, Data
  <2>3. ~Cut(c) /\ \A p \in Paths : ~Due(c, p) /\ ~OnTheWay(c, p, 0)
    BY <2>1, <2>2 DEF Cut, Due, OnTheWay
  <2>4. QED
    BY <1>2, <2>1, <2>3 DEF WholeInv, Replaced
<1>3. QED
  BY <1>1, <1>2

LEMMA WholeKillClient ==
  ASSUME WholeInv, TypeOK', NEW c \in Clients, KillClient(c)
  PROVE  WholeInv'
<1>1. Idle(c) /\ holder = None /\ holder \notin Clients
  BY SyncAssumption DEF KillClient, WholeInv, Calm, Nodes
<1>2. /\ UNCHANGED <<holder, disk, ses>> /\ rx' = [rx EXCEPT ![c] = Closed]
      /\ stage'[c] = "off" /\ queue'[c] = <<>> /\ down'[c] = <<>>
      /\ \A d \in Clients \ {c} : stage'[d] = stage[d] /\ queue'[d] = queue[d] /\ down'[d] = down[d]
  BY <1>1 DEF KillClient, WholeInv, TypeOK
<1>3. ~rx'[c].open /\ \A n \in Nodes \ {c} : rx'[n] = rx[n]
  BY <1>2, Data DEF WholeInv, TypeOK, Closed
<1>4. Holds' /\ WholeFilesWin' /\ Calm' /\ Unlisted'
  BY <1>1, <1>2 DEF Holds, WholeFilesWin, WholeInv, Calm, Unlisted
<1>5. \A n \in Nodes : ~InSession(n) /\ ~InSession(n)'
  BY <1>1, <1>2 DEF InSession, Active
<1>6. Opened'
  <2> SUFFICES ASSUME NEW n \in Nodes, rx'[n].open
               PROVE  /\ Arrived(n)' /\ rx'[n].p = Arriving(n).p' /\ Arriving(n).val' # Dir
                      /\ rx'[n].full => Arriving(n).val' # Absent
    BY DEF Opened
  <2>1. n # c /\ rx'[n] = rx[n] /\ FromQueue(n)
    BY <1>3, <1>5 DEF WholeInv, Opened, Arrived
  <2>2. FromQueue(n)' /\ down'[n] = down[n]
    BY <1>2, <2>1 DEF FromQueue
  <2>3. QED
    BY <1>5, <2>1, <2>2 DEF WholeInv, Opened, Arrived, Arriving
<1>7. BeingWritten'
  BY <1>1, <1>2, <1>3, IdleWhole DEF WholeInv, BeingWritten, Writing
<1>8. Replaced' /\ Filled'
  BY <1>2, <1>3, Data DEF WholeInv, Replaced, Due, OnTheWay, Cut, Filled
<1>9. QED
  BY <1>4, <1>6, <1>7, <1>8 DEF WholeInv

LEMMA WholeKillServer ==
  ASSUME WholeInv, TypeOK', KillServer
  PROVE  WholeInv'
<1>1. holder = None /\ \A c \in Clients : Idle(c) \/ stage[c] = "off"
  BY DEF KillServer, WholeInv, Calm
<1>2. \A n \in Nodes : \A p \in Paths : disk[n][p].val # Torn
  BY <1>1, IdleWhole, NotYetOpen, Data DEF Nodes
<1>3. /\ holder' = None /\ UNCHANGED <<disk, ses>> /\ \A n \in Nodes : ~rx'[n].open
      /\ \A c \in Clients : stage'[c] = "off" /\ queue'[c] = <<>> /\ down'[c] = <<>>
  BY DEF KillServer, Closed
<1>4. QED
  BY <1>2, <1>3
  DEF WholeInv, Calm, Holds, Unlisted, Opened, BeingWritten, Replaced, Filled, WholeFilesWin

-----------------------------------------------------------------------------
(* The list of clients *)

\* What stays of a sequence without its first element.
LEMMA TailAt ==
  ASSUME NEW S, NEW s \in Seq(S), s # <<>>
  PROVE  /\ s[1] = Head(s) /\ Len(s) \in Nat /\ Len(Tail(s)) = Len(s) - 1
         /\ \A i \in 1 .. Len(Tail(s)) : Tail(s)[i] = s[i + 1]
         /\ \A i \in 1 .. Len(s) : i = 1 \/ (i - 1 \in 1 .. Len(Tail(s)) /\ Tail(s)[i - 1] = s[i])
<1>1. /\ s[1] = Head(s) /\ Len(s) \in Nat /\ Len(Tail(s)) = Len(s) - 1
      /\ \A i \in 1 .. Len(Tail(s)) : Tail(s)[i] = s[i + 1]
  OBVIOUS
<1>2. QED
  BY <1>1

LEMMA WholeSendQueued ==
  ASSUME WholeInv, TypeOK', NEW c \in Clients, SendQueued(c)
  PROVE  WholeInv'
<1> DEFINE h == Head(queue[c])
           e == disk[Server][h]
           m == [p |-> h, val |-> e.val, time |-> OnWire(e.time)]
<1>1. /\ stage[c] = "live" /\ queue[c] # <<>> /\ UNCHANGED <<disk, stage, holder, ses, rx>>
      /\ down' = [down EXCEPT ![c] = Append(down[c], m)]
      /\ queue' = [queue EXCEPT ![c] = IF e = Nothing THEN <<>> ELSE Tail(queue[c])]
  BY DEF SendQueued
<1>2. /\ queue \in [Clients -> Seq(Paths)] /\ down \in [Clients -> Seq(Message)] /\ h \in Paths
      /\ down' \in [Clients -> Seq(Message)] /\ queue' \in [Clients -> Seq(Paths)]
  BY <1>1 DEF WholeInv, TypeOK
<1>3. m.p = h /\ m.val = e.val
  OBVIOUS
<1>4. e = Nothing => m.val = Absent
  BY <1>3 DEF Nothing
<1> HIDE DEF m
<1>5. \A d \in Clients \ {c} : down'[d] = down[d] /\ queue'[d] = queue[d]
  BY <1>1, <1>2
<1>6. down'[c] = Append(down[c], m) /\ queue'[c] = IF e = Nothing THEN <<>> ELSE Tail(queue[c])
  BY <1>1, <1>2
<1>7. /\ Len(down'[c]) = Len(down[c]) + 1 /\ Len(down[c]) \in Nat
      /\ \A i \in 1 .. Len(down[c]) : down'[c][i] = down[c][i]
      /\ down'[c][Len(down[c]) + 1] = m
      /\ down[c] # <<>> => Head(down'[c]) = Head(down[c]) /\ down'[c] # <<>>
  <2>1. down[c] \in Seq(Message) /\ m \in Message
    <3>1. m = down'[c][Len(down'[c])] /\ Len(down'[c]) \in 1 .. Len(down'[c]) /\ down'[c] \in Seq(Message)
      BY <1>2, <1>6
    <3>2. QED
      BY <1>2, <3>1
  <2>2. QED
    BY <1>6, <2>1
<1>8. Calm' /\ Holds' /\ Unlisted' /\ BeingWritten' /\ WholeFilesWin'
  BY <1>1, <1>5 DEF WholeInv, Calm, Holds, Unlisted, BeingWritten, Writing, WholeFilesWin
<1>9. Opened'
  <2> SUFFICES ASSUME NEW n \in Nodes, rx[n].open
               PROVE  Arrived(n)' /\ Arriving(n)' = Arriving(n)
    BY <1>1 DEF WholeInv, Opened
  <2>1. InSession(n)' = InSession(n)
    BY <1>1 DEF InSession, Active, Other, Getting
  <2>2. Arrived(n)
    BY DEF WholeInv, Opened
  <2>3. FromQueue(n) => FromQueue(n)' /\ Head(down'[n]) = Head(down[n])
    BY <1>1, <1>5, <1>7 DEF FromQueue
  <2>4. QED
    BY <1>1, <2>1, <2>2, <2>3 DEF Arrived, Arriving
<1>10. Filled'
  <2> SUFFICES ASSUME NEW d \in Clients, stage[d] = "live", rx[d].open, rx[d].full
               PROVE  Head(down'[d]) = Head(down[d])
    BY <1>1 DEF WholeInv, Filled
  <2>1. QED
    BY <1>5, <1>7, OpenFromQueue
<1>11. Replaced'
  <2> SUFFICES ASSUME NEW d \in Clients, stage[d] = "live", ~Cut(d)', NEW q \in Paths, ~Due(d, q)'
               PROVE  /\ disk[d][q].val = Torn => OnTheWay(d, q, 0)'
                      /\ \A i \in 1 .. Len(down'[d]) :
                            down'[d][i].p = q /\ down'[d][i].val = Torn => OnTheWay(d, q, i)'
    BY <1>1 DEF Replaced
  <2>1. CASE d # c
    <3>1. down'[d] = down[d] /\ queue'[d] = queue[d]
      BY <1>5, <2>1
    <3>2. /\ Cut(d)' = Cut(d) /\ Due(d, q)' = Due(d, q)
          /\ \A k : OnTheWay(d, q, k)' = OnTheWay(d, q, k)
      BY <1>1, <3>1 DEF Cut, Due, OnTheWay
    <3>3. QED
      BY <3>1, <3>2 DEF WholeInv, Replaced
  <2>2. CASE d = c
    <3> DEFINE L == Len(down[c])
    <3>1. ~Cut(c) /\ m.val # Absent
      BY <1>7, <2>2 DEF Cut
    <3>2. queue'[c] = Tail(queue[c])
      BY <1>4, <1>6, <3>1
    <3>3. ~(rx[Server].open /\ rx[Server].p = q)
      BY <1>1, <2>2 DEF Due
    <3>4. CASE q = h
      <4>1. m.val # Torn
        BY <1>3, <3>3, <3>4, Data DEF WholeInv, BeingWritten, Writing
      <4>2. \A k \in 0 .. L : OnTheWay(c, q, k)'
        BY <1>3, <1>7, <3>4 DEF OnTheWay
      <4>3. QED
        BY <1>7, <2>2, <4>1, <4>2
    <3>5. CASE q # h
      <4>1. ~Due(c, q)
        <5>1. \A i \in 1 .. Len(queue[c]) : i = 1 \/ (i - 1 \in 1 .. Len(queue'[c]) /\ queue'[c][i - 1] = queue[c][i])
          <6>1. queue[c] \in Seq(Paths) /\ queue[c] # <<>>
            BY <1>1, <1>2
          <6>2. QED
            BY <3>2, <6>1, TailAt
        <5>2. queue[c][1] = h
          BY <1>1, <1>2
        <5>3. QED
          BY <2>2, <3>3, <3>5, <5>1, <5>2 DEF Due
      <4>2. /\ disk[c][q].val = Torn => OnTheWay(c, q, 0)
            /\ \A i \in 1 .. L : down[c][i].p = q /\ down[c][i].val = Torn => OnTheWay(c, q, i)
        BY <1>1, <2>2, <3>1, <4>1 DEF WholeInv, Replaced
      <4>3. \A k \in 0 .. L : OnTheWay(c, q, k) => OnTheWay(c, q, k)'
        BY <1>7 DEF OnTheWay
      <4>4. \A i \in 1 .. L + 1 : i = L + 1 \/ i \in 1 .. L
        BY <1>7
      <4>5. ASSUME NEW i \in 1 .. L + 1, down'[c][i].p = q, down'[c][i].val = Torn
            PROVE  OnTheWay(c, q, i)'
        <5>1. i # L + 1
          BY <1>3, <1>7, <3>5, <4>5
        <5>2. QED
          BY <1>7, <4>2, <4>3, <4>4, <4>5, <5>1
      <4>6. QED
        BY <1>7, <2>2, <4>2, <4>3, <4>5
    <3>6. QED
      BY <3>4, <3>5
  <2>3. QED
    BY <2>1, <2>2
<1>12. QED
  BY <1>8, <1>9, <1>10, <1>11 DEF WholeInv

-----------------------------------------------------------------------------
(* Files are received *)

\* Opening a file or writing into it goes on with what arrives.
LEMMA OpenedGoesOn ==
  ASSUME WholeInv, UNCHANGED <<stage, holder, ses, down>>, NEW n \in Nodes, Arrived(n),
         \A k \in Nodes \ {n} : rx'[k] = rx[k],
         rx'[n].p = Arriving(n).p, Arriving(n).val # Dir, rx'[n].full => Arriving(n).val # Absent
  PROVE  Opened'
<1>1. \A k \in Nodes : Arrived(k)' = Arrived(k) /\ Arriving(k)' = Arriving(k)
  BY DEF Arrived, Arriving, InSession, FromQueue, Active, Other, Getting
<1>2. QED
  BY <1>1 DEF WholeInv, Opened

\* What arrives at a server, or at a client that is not in its list, is whole.
LEMMA ArrivesWhole ==
  ASSUME WholeInv, NEW n \in Nodes, Arrived(n), n \in Clients => stage[n] # "live"
  PROVE  InSession(n) /\ Arriving(n) = ses /\ ses.val # Torn
  BY DEF WholeInv, Arrived, Arriving, FromQueue, InSession, WholeFilesWin

\* What arrives at a client that is in the list.
LEMMA ArrivesListed ==
  ASSUME WholeInv, NEW n \in Clients, Arrived(n), stage[n] = "live"
  PROVE  /\ ~InSession(n) /\ Arriving(n) = Head(down[n]) /\ Len(down[n]) \in Nat /\ Len(down[n]) > 0
         /\ Head(down[n]) = down[n][1]
<1>1. ~InSession(n) /\ down[n] # <<>> /\ down[n] \in Seq(Message)
  BY ListedApart DEF WholeInv, Arrived, FromQueue, TypeOK
<1>2. QED
  BY <1>1 DEF Arriving

LEMMA WholeOpen ==
  ASSUME WholeInv, TypeOK', NEW n \in Nodes, Open(n)
  PROVE  WholeInv'
<1> DEFINE a == Arriving(n)
<1>1. /\ Arrived(n) /\ ~rx[n].open /\ a.val # Dir /\ UNCHANGED <<stage, holder, ses, queue, down>>
      /\ rx' = [rx EXCEPT ![n] = [open |-> TRUE, p |-> a.p, full |-> FALSE]]
      /\ disk' = [disk EXCEPT ![n][a.p] = [val |-> Torn, time |-> clock]]
  BY DEF Open
<1>2. a.p \in Paths /\ disk \in [Nodes -> Tree] /\ rx \in [Nodes -> Receiving]
  BY <1>1, ArrivingTyped DEF WholeInv, TypeOK
<1> HIDE DEF a
<1>3. /\ rx'[n].open /\ rx'[n].p = a.p /\ ~rx'[n].full /\ \A k \in Nodes \ {n} : rx'[k] = rx[k]
      /\ \A q \in Paths \ {a.p} : disk'[n][q] = disk[n][q]
      /\ \A k \in Nodes \ {n} : disk'[k] = disk[k]
  BY <1>1, <1>2 DEF Tree
<1>4. Calm' /\ Holds' /\ Unlisted' /\ WholeFilesWin'
  BY <1>1 DEF WholeInv, Calm, Holds, Unlisted, WholeFilesWin
<1>5. Opened'
  BY <1>1, <1>3, OpenedGoesOn DEF a
<1>6. BeingWritten'
  BY <1>1, <1>2, <1>3 DEF WholeInv, BeingWritten, Writing
<1>7. Filled'
  BY <1>1, <1>3, Data DEF WholeInv, Filled
<1>8. Replaced'
  <2> SUFFICES ASSUME NEW d \in Clients, stage[d] = "live", ~Cut(d), NEW q \in Paths, ~Due(d, q)'
               PROVE  /\ disk'[d][q].val = Torn => OnTheWay(d, q, 0)
                      /\ \A i \in 1 .. Len(down[d]) :
                            down[d][i].p = q /\ down[d][i].val = Torn => OnTheWay(d, q, i)
    BY <1>1 DEF Replaced, Cut, OnTheWay
  <2>1. ~Due(d, q)
    BY <1>1, <1>3, Data DEF Due
  <2>2. /\ disk[d][q].val = Torn => OnTheWay(d, q, 0)
        /\ \A i \in 1 .. Len(down[d]) :
              down[d][i].p = q /\ down[d][i].val = Torn => OnTheWay(d, q, i)
    BY <2>1 DEF WholeInv, Replaced
  <2>3. CASE d = n /\ q = a.p
    <3>1. a = down[d][1] /\ Len(down[d]) \in Nat /\ Len(down[d]) > 0
      BY <1>1, <2>3, ArrivesListed DEF a
    <3>2. OnTheWay(d, q, 0)
      BY <2>3, <3>1 DEF OnTheWay
    <3>3. QED
      BY <2>2, <3>2
  <2>4. CASE ~(d = n /\ q = a.p)
    BY <1>3, <2>2, <2>4, Data
  <2>5. QED
    BY <2>3, <2>4
<1>9. QED
  BY <1>4, <1>5, <1>6, <1>7, <1>8 DEF WholeInv

LEMMA WholeFill ==
  ASSUME WholeInv, TypeOK', NEW n \in Nodes, Fill(n)
  PROVE  WholeInv'
<1> DEFINE a == Arriving(n)
<1>1. /\ Arrived(n) /\ rx[n].open /\ ~rx[n].full /\ a.val # Absent
      /\ UNCHANGED <<stage, holder, ses, queue, down>>
      /\ rx' = [rx EXCEPT ![n].full = TRUE]
      /\ disk' = [disk EXCEPT ![n][rx[n].p] = [val |-> a.val, time |-> clock]]
      /\ rx[n].p = a.p /\ a.val # Dir
  BY DEF Fill, WholeInv, Opened
<1>2. a.p \in Paths /\ disk \in [Nodes -> Tree] /\ rx[n] \in [open : {TRUE}, p : Paths, full : BOOLEAN]
  BY <1>1, ArrivingTyped, OpenTyped DEF WholeInv, TypeOK
<1> HIDE DEF a
<1>3. /\ rx'[n].open /\ rx'[n].p = a.p /\ rx'[n].full /\ \A k \in Nodes \ {n} : rx'[k] = rx[k]
  BY <1>1, <1>2 DEF WholeInv, TypeOK
<1>4. /\ disk'[n][a.p].val = a.val
      /\ \A q \in Paths \ {a.p} : disk'[n][q] = disk[n][q]
      /\ \A k \in Nodes \ {n} : disk'[k] = disk[k]
  BY <1>1, <1>2 DEF Tree
<1>5. Calm' /\ Holds' /\ Unlisted' /\ WholeFilesWin'
  BY <1>1 DEF WholeInv, Calm, Holds, Unlisted, WholeFilesWin
<1>6. Opened'
  BY <1>1, <1>3, OpenedGoesOn DEF a
<1>7. BeingWritten'
  <2> SUFFICES ASSUME NEW k \in Nodes, NEW q \in Paths, k \in Clients => stage[k] # "live",
                      disk'[k][q].val = Torn
               PROVE  rx'[k].open /\ ~rx'[k].full /\ rx'[k].p = q
    BY <1>1 DEF BeingWritten, Writing
  <2>1. CASE k # n
    BY <1>3, <1>4, <2>1 DEF WholeInv, BeingWritten, Writing
  <2>2. CASE k = n
    <3>1. a.val # Torn
      BY <1>1, <2>2, ArrivesWhole DEF a
    <3>2. q # a.p /\ disk[n][q].val = Torn
      BY <1>4, <2>2, <3>1
    <3>3. QED
      BY <1>1, <2>2, <3>2 DEF WholeInv, BeingWritten, Writing
  <2>3. QED
    BY <2>1, <2>2
<1>8. Filled'
  <2> SUFFICES ASSUME NEW d \in Clients, stage[d] = "live", rx'[d].open, rx'[d].full
               PROVE  disk'[d][rx'[d].p].val = Head(down[d]).val
    BY <1>1 DEF Filled
  <2>1. CASE d = n
    BY <1>1, <1>3, <1>4, <2>1, ArrivesListed DEF a
  <2>2. CASE d # n
    BY <1>3, <1>4, <2>2, Data DEF WholeInv, Filled
  <2>3. QED
    BY <2>1, <2>2
<1>9. Replaced'
  <2> SUFFICES ASSUME NEW d \in Clients, stage[d] = "live", ~Cut(d), NEW q \in Paths, ~Due(d, q)'
               PROVE  /\ disk'[d][q].val = Torn => OnTheWay(d, q, 0)
                      /\ \A i \in 1 .. Len(down[d]) :
                            down[d][i].p = q /\ down[d][i].val = Torn => OnTheWay(d, q, i)
    BY <1>1 DEF Replaced, Cut, OnTheWay
  <2>1. ~Due(d, q)
    BY <1>1, <1>3, Data DEF Due
  <2>2. /\ disk[d][q].val = Torn => OnTheWay(d, q, 0)
        /\ \A i \in 1 .. Len(down[d]) :
              down[d][i].p = q /\ down[d][i].val = Torn => OnTheWay(d, q, i)
    BY <2>1 DEF WholeInv, Replaced
  <2>3. CASE d = n /\ q = a.p
    <3>1. a = down[d][1] /\ Len(down[d]) \in Nat /\ Len(down[d]) > 0
      BY <1>1, <2>3, ArrivesListed DEF a
    <3>2. OnTheWay(d, q, 0)
      BY <2>3, <3>1 DEF OnTheWay
    <3>3. QED
      BY <2>2, <3>2
  <2>4. CASE ~(d = n /\ q = a.p)
    BY <1>4, <2>2, <2>4, Data
  <2>5. QED
    BY <2>3, <2>4
<1>10. QED
  BY <1>5, <1>6, <1>7, <1>8, <1>9 DEF WholeInv

\* The end of a receive procedure.
LEMMA WholeDone ==
  ASSUME WholeInv, TypeOK', NEW n \in Nodes, Arrived(n), Done(n), UNCHANGED <<stage, holder>>,
         ~rx'[n].open, \A k \in Nodes \ {n} : rx'[k] = rx[k], rx[n].open => rx[n].full,
         Arriving(n).val # Absent,
         \A k \in Nodes \ {n} : disk'[k] = disk[k],
         \A q \in Paths : disk'[n][q].val = Torn =>
                             disk[n][q].val = Torn /\ (q = Arriving(n).p => Arriving(n).val = Torn \/ InSession(n))
  PROVE  WholeInv'
<1>0. /\ queue \in [Clients -> Seq(Paths)] /\ down \in [Clients -> Seq(Message)]
      /\ Clients \subseteq Nodes /\ Server \in Nodes /\ Server \notin Clients
  BY Data DEF WholeInv, TypeOK
<1>1. Calm' /\ Holds'
  BY DEF WholeInv, Calm, Holds
<1>2. BeingWritten'
  BY DEF WholeInv, BeingWritten, Writing
<1>3. CASE InSession(n)
  <2>1. /\ ses' = Quiet /\ UNCHANGED down /\ queue' = IF n = Server THEN Broadcast(ses.p) ELSE queue
        /\ n \in Clients => stage[n] # "live"
    BY <1>3, ListedApart DEF Done, WholeInv
  <2>2. \A d \in Clients : stage[d] # "live" => queue'[d] = queue[d]
    BY <2>1 DEF Broadcast
  <2>3. Unlisted' /\ WholeFilesWin'
    BY <2>1, <2>2 DEF WholeInv, Unlisted, WholeFilesWin, Quiet
  <2>4. Opened'
    <3> SUFFICES ASSUME NEW k \in Nodes, rx'[k].open
                 PROVE  /\ Arrived(k)' /\ rx[k].p = Arriving(k).p' /\ Arriving(k).val' # Dir
                        /\ rx[k].full => Arriving(k).val' # Absent
      BY DEF Opened
    <3>1. k # n /\ ~InSession(k) /\ rx[k].open
      BY <1>3 DEF InSession
    <3>2. ~InSession(k)'
      BY <2>1 DEF InSession, Quiet
    <3>3. FromQueue(k)' = FromQueue(k)
      BY <2>1 DEF FromQueue
    <3>4. QED
      BY <2>1, <3>1, <3>2, <3>3 DEF WholeInv, Opened, Arrived, Arriving
  <2>5. Filled'
    BY <1>0, <2>1 DEF WholeInv, Filled
  <2>6. Replaced'
    <3> SUFFICES ASSUME NEW d \in Clients, stage[d] = "live", ~Cut(d), NEW q \in Paths, ~Due(d, q)'
                 PROVE  /\ disk'[d][q].val = Torn => OnTheWay(d, q, 0)
                        /\ \A i \in 1 .. Len(down[d]) :
                              down[d][i].p = q /\ down[d][i].val = Torn => OnTheWay(d, q, i)
      BY <2>1 DEF Replaced, Cut, OnTheWay
    <3>1. ~Due(d, q)
      <4>1. CASE n = Server
        <5>1. queue'[d] = Append(queue[d], ses.p)
          BY <2>1, <4>1 DEF Broadcast
        <5>2. rx[Server].open => rx[Server].p = ses.p
          BY <1>3, <4>1 DEF WholeInv, Opened, Arriving
        <5>3. ses.p \in Paths /\ queue[d] \in Seq(Paths)
          BY <1>0, <1>3, SessionTyped DEF InSession, WholeInv
        <5>4. /\ Len(queue[d]) \in Nat /\ Len(queue'[d]) = Len(queue[d]) + 1
              /\ \A i \in 1 .. Len(queue[d]) : queue'[d][i] = queue[d][i]
              /\ queue'[d][Len(queue[d]) + 1] = ses.p
          BY <5>1, <5>3
        <5>5. QED
          BY <5>2, <5>4 DEF Due
      <4>2. CASE n # Server
        BY <1>0, <2>1, <4>2 DEF Due
      <4>3. QED
        BY <4>1, <4>2
    <3>2. d # n /\ disk'[d] = disk[d]
      BY <1>0, <2>1
    <3>3. QED
      BY <3>1, <3>2 DEF WholeInv, Replaced
  <2>7. QED
    BY <1>1, <1>2, <2>3, <2>4, <2>5, <2>6 DEF WholeInv
<1>4. CASE ~InSession(n)
  <2>1. n \in Clients /\ stage[n] = "live" /\ down[n] # <<>> /\ n # Server /\ Arriving(n) = Head(down[n])
    BY <1>0, <1>4 DEF Arrived, FromQueue, Arriving
  <2>2. /\ UNCHANGED <<ses, queue>> /\ down'[n] = Tail(down[n])
        /\ \A d \in Clients \ {n} : down'[d] = down[d]
    BY <1>0, <1>4, <2>1 DEF Done
  <2>3. Unlisted' /\ WholeFilesWin'
    BY <2>1, <2>2 DEF WholeInv, Unlisted, WholeFilesWin
  <2>4. Opened'
    <3> SUFFICES ASSUME NEW k \in Nodes \ {n}, Arrived(k)
                 PROVE  Arrived(k)' /\ Arriving(k)' = Arriving(k)
      BY DEF WholeInv, Opened
    <3>1. InSession(k)' = InSession(k)
      BY <2>2 DEF InSession, Active, Other, Getting
    <3>2. FromQueue(k)' = FromQueue(k) /\ (FromQueue(k) => Head(down[k])' = Head(down[k]))
      BY <2>2 DEF FromQueue
    <3>3. QED
      BY <2>2, <3>1, <3>2 DEF Arrived, Arriving
  <2>5. Filled'
    BY <1>0, <2>2 DEF WholeInv, Filled
  <2>6. Replaced'
    <3> SUFFICES ASSUME NEW d \in Clients, stage[d] = "live", ~Cut(d)', NEW q \in Paths, ~Due(d, q)'
                 PROVE  /\ disk'[d][q].val = Torn => OnTheWay(d, q, 0)'
                        /\ \A i \in 1 .. Len(down'[d]) :
                              down'[d][i].p = q /\ down'[d][i].val = Torn => OnTheWay(d, q, i)'
      BY DEF Replaced
    <3>1. ~Due(d, q)
      BY <1>0, <2>1, <2>2 DEF Due
    <3>2. CASE d # n
      <4>1. down'[d] = down[d] /\ disk'[d] = disk[d]
        BY <1>0, <2>2, <3>2
      <4>2. ~Cut(d) /\ \A k : OnTheWay(d, q, k)' = OnTheWay(d, q, k)
        BY <4>1 DEF Cut, OnTheWay
      <4>3. QED
        BY <3>1, <4>1, <4>2 DEF WholeInv, Replaced
    <3>3. CASE d = n
      <4> DEFINE s == down[n]
                 t == down'[n]
      <4>1. s \in Seq(Message) /\ s # <<>> /\ t = Tail(s)
        BY <1>0, <2>1, <2>2
      <4>2. /\ s[1] = Arriving(n) /\ Len(s) \in Nat /\ Len(t) = Len(s) - 1
            /\ \A i \in 1 .. Len(t) : t[i] = s[i + 1]
            /\ \A i \in 1 .. Len(s) : i = 1 \/ (i - 1 \in 1 .. Len(t) /\ t[i - 1] = s[i])
        BY <2>1, <4>1, TailAt
      <4>3. ~Cut(n)
        <5>1. \A i \in 1 .. Len(t) : t[i].val # Absent
          BY <3>3 DEF Cut
        <5>2. ASSUME NEW i \in 1 .. Len(s) PROVE s[i].val # Absent
          <6>1. CASE i = 1
            BY <4>2, <6>1
          <6>2. CASE i # 1
            BY <4>2, <5>1, <6>2
          <6>3. QED
            BY <6>1, <6>2
        <5>3. QED
          BY <5>2 DEF Cut
      <4>4. /\ disk[n][q].val = Torn => OnTheWay(n, q, 0)
            /\ \A i \in 1 .. Len(s) : s[i].p = q /\ s[i].val = Torn => OnTheWay(n, q, i)
        BY <2>1, <3>1, <3>3, <4>3 DEF WholeInv, Replaced
      <4>5. ASSUME NEW k \in Nat, OnTheWay(n, q, k + 1)
            PROVE  OnTheWay(n, q, k)'
        <5>1. PICK j \in 1 .. Len(s) : j > k + 1 /\ s[j].p = q
          BY <4>5 DEF OnTheWay
        <5>2. j - 1 \in 1 .. Len(t) /\ t[j - 1] = s[j] /\ j - 1 > k
          BY <4>2, <5>1
        <5>3. QED
          BY <5>1, <5>2 DEF OnTheWay
      <4>6. ASSUME disk'[n][q].val = Torn
            PROVE  OnTheWay(n, q, 0)'
        <5>1. OnTheWay(n, q, 0) /\ (q = Arriving(n).p => Arriving(n).val = Torn)
          BY <1>4, <4>4, <4>6
        <5>2. OnTheWay(n, q, 1)
          <6>1. CASE q = Arriving(n).p
            BY <4>2, <4>4, <5>1, <6>1
          <6>2. CASE q # Arriving(n).p
            BY <4>2, <5>1, <6>2 DEF OnTheWay
          <6>3. QED
            BY <6>1, <6>2
        <5>3. QED
          BY <4>5, <5>2
      <4>7. ASSUME NEW i \in 1 .. Len(t), t[i].p = q, t[i].val = Torn
            PROVE  OnTheWay(n, q, i)'
        <5>1. i + 1 \in 1 .. Len(s) /\ s[i + 1] = t[i] /\ i \in Nat
          BY <4>2
        <5>2. OnTheWay(n, q, i + 1)
          BY <4>4, <4>7, <5>1
        <5>3. QED
          BY <4>5, <5>1, <5>2
      <4>8. QED
        BY <3>3, <4>6, <4>7
    <3>4. QED
      BY <3>2, <3>3
  <2>7. QED
    BY <1>1, <1>2, <2>3, <2>4, <2>5, <2>6 DEF WholeInv
<1>5. QED
  BY <1>3, <1>4

LEMMA WholeStamp ==
  ASSUME WholeInv, TypeOK', NEW n \in Nodes, Stamp(n)
  PROVE  WholeInv'
<1> DEFINE p == rx[n].p
           t == Arriving(n).time
<1>1. /\ Arrived(n) /\ rx[n].open /\ rx[n].full /\ Done(n) /\ UNCHANGED <<stage, holder>>
      /\ disk' = [disk EXCEPT ![n][p] = [disk[n][p] EXCEPT !.time = t]] /\ rx' = [rx EXCEPT ![n] = Closed]
      /\ p = Arriving(n).p /\ Arriving(n).val # Absent
  BY DEF Stamp, WholeInv, Opened
<1>2. p \in Paths /\ disk \in [Nodes -> Tree] /\ rx \in [Nodes -> Receiving]
  BY <1>1, ArrivingTyped DEF WholeInv, TypeOK
<1> HIDE DEF p, t
<1>3. /\ ~rx'[n].open /\ \A k \in Nodes \ {n} : rx'[k] = rx[k]
      /\ \A k \in Nodes \ {n} : disk'[k] = disk[k]
  BY <1>1, <1>2 DEF Closed
<1>4. \A q \in Paths : disk'[n][q].val = disk[n][q].val
  <2>1. disk[n][p] \in [val : Vals, time : Times]
    BY <1>2 DEF Tree, Entry
  <2>2. [disk[n][p] EXCEPT !.time = t].val = disk[n][p].val
    BY <2>1
  <2>3. QED
    BY <1>1, <1>2, <2>2 DEF Tree
<1>5. ~InSession(n) => disk[n][p].val = Arriving(n).val
  BY <1>1 DEF WholeInv, Filled, Arrived, Arriving, FromQueue, p
<1>6. QED
  BY <1>1, <1>3, <1>4, <1>5, WholeDone

LEMMA WholeMakeDirectory ==
  ASSUME WholeInv, TypeOK', NEW n \in Nodes, MakeDirectory(n)
  PROVE  WholeInv'
<1> DEFINE p == Arriving(n).p
<1>1. /\ Arrived(n) /\ ~rx[n].open /\ Done(n) /\ UNCHANGED <<stage, holder, rx>>
      /\ disk' = [disk EXCEPT ![n][p] = Folder] /\ Arriving(n).val = Dir
  BY DEF MakeDirectory, WholeInv, Opened
<1>2. p \in Paths /\ disk \in [Nodes -> Tree] /\ Folder.val # Torn /\ Dir # Absent
  BY <1>1, ArrivingTyped, SyncAssumption DEF WholeInv, TypeOK, Folder
<1> HIDE DEF p
<1>3. /\ disk'[n][p].val # Torn
      /\ \A k \in Nodes \ {n} : disk'[k] = disk[k]
      /\ \A q \in Paths \ {p} : disk'[n][q] = disk[n][q]
  BY <1>1, <1>2 DEF Tree
<1>4. ASSUME NEW q \in Paths, disk'[n][q].val = Torn
      PROVE  q # p /\ disk[n][q].val = Torn
  <2>1. q # p
    BY <1>3, <1>4
  <2>2. disk'[n][q] = disk[n][q]
    BY <1>3, <2>1
  <2>3. QED
    BY <1>4, <2>1, <2>2
<1>5. QED
  BY <1>1, <1>2, <1>3, <1>4, WholeDone DEF p

-----------------------------------------------------------------------------

LEMMA WholeStep == WholeInv /\ [Next]_vars => WholeInv'
<1> SUFFICES ASSUME WholeInv, [Next]_vars PROVE WholeInv'
  OBVIOUS
<1>1. TypeOK'
  BY TypedStep DEF WholeInv
<1>2. CASE UNCHANGED vars
  <2>1. UNCHANGED <<disk, stage, holder, ses, rx, queue, down>>
    BY <1>2 DEF vars
  <2>2. Opened'
    <3>1. \A n \in Nodes : Arrived(n)' = Arrived(n) /\ Arriving(n)' = Arriving(n)
      BY <2>1 DEF Arrived, Arriving, InSession, FromQueue, Active, Other, Getting
    <3>2. QED
      BY <2>1, <3>1 DEF WholeInv, Opened
  <2>3. Calm' /\ Holds' /\ Unlisted' /\ BeingWritten' /\ WholeFilesWin' /\ Filled'
    BY <2>1 DEF WholeInv, Calm, Holds, Unlisted, BeingWritten, Writing, WholeFilesWin, Filled
  <2>4. Replaced'
    BY <2>1 DEF WholeInv, Replaced, Due, OnTheWay, Cut
  <2>5. QED
    BY <1>1, <2>2, <2>3, <2>4 DEF WholeInv
<1>3. CASE Next
  BY <1>1, <1>3, WholeUsers, WholeSession, WholeJoin, WholeSendQueued, WholeKillClient, WholeKillServer,
     WholeOpen, WholeFill, WholeStamp, WholeMakeDirectory
  DEF Next, Receive
<1>4. QED
  BY <1>2, <1>3

\* If programs are stopped only when nothing is going on, a synchronisation never sends a
\* part of a file: a file that does not exist at the other side, or is older there, is
\* replaced by one that a user wrote (the comment at DropboxServer.cpp:294).
THEOREM WholeFilesSent == Calm /\ Spec => []WholeFilesWin
<1>1. WholeInv => WholeFilesWin
  BY DEF WholeInv
<1>2. QED
  BY <1>1, WholeInit, WholeStep, PTL DEF Spec

-----------------------------------------------------------------------------
(* The server's versions only ever get newer *)

Files == Paths \ Dirs

\* A version of a file that is among vs, was written by a user and has a date; or none.
Proper(e, vs) == e = Nothing \/ (e \in vs /\ e.val \in Written /\ e.time > 0)

\* Programs are stopped only when nothing is going on, nobody edits during her own
\* synchronisation, times fit on the wire, and the files there are at the beginning are
\* those of users.
Undisturbed ==
    /\ Calm
    /\ EditsAt \cap {"get", "give"} = {}
    /\ MaxClock < Wrap /\ 0 < StartClock
    /\ \A n \in Nodes : \A tree \in Start[n] : \A p \in Files : Proper(tree[p], {tree[p]})

-----------------------------------------------------------------------------
(* The inductive invariant *)

\* The walk comes to what there is at the side that asks, and what it says of an entry
\* is so.
Walk == Active =>
    /\ todo \subseteq Used(disk[Asker])
    /\ ses.pc # "idle" => ses.p \in todo /\ ses.time = disk[Asker][ses.p].time
    /\ ses.pc \in {"content", "sent"} => ses.val = disk[Asker][ses.p].val

\* What the walk sends is written to the end as it was sent.
Copied == \A n \in Nodes : InSession(n) /\ rx[n].open /\ rx[n].full => disk[n][ses.p].val = ses.val

\* At the server, and at a client that is not in its list, a file is a user's or is
\* what is being received at this moment.
Own == \A n \in Nodes : (n \in Clients => stage[n] # "live") =>
    \A p \in Files : (rx[n].open /\ rx[n].p = p) \/ Proper(disk[n][p], known[p])

\* Whatever else is on its way to a client in the list, or lies there, will be replaced.
Entered(m) == [val |-> m.val, time |-> m.time]
Restored == \A c \in Clients : stage[c] = "live" /\ ~Cut(c) =>
    \A p \in Files :
        \/ Due(c, p)
        \/ /\ Proper(disk[c][p], known[p]) \/ OnTheWay(c, p, 0)
           /\ \A i \in 1 .. Len(down[c]) :
                 down[c][i].p = p => Proper(Entered(down[c][i]), known[p]) \/ OnTheWay(c, p, i)

\* What there is besides WholeInv.
Rest == Undisturbed /\ clock > 0 /\ Walk /\ Copied /\ Own /\ Restored

-----------------------------------------------------------------------------
(* Times and versions *)

LEMMA OnWireSame ==
  ASSUME Undisturbed, NEW t \in Times
  PROVE  OnWire(t) = t
<1> DEFINE q == t \div Wrap
           r == t % Wrap
<1>1. Wrap \in Nat /\ Wrap > 0 /\ t \in Nat /\ t < Wrap
  BY SyncAssumption DEF Times, Undisturbed
<1>2. r \in Nat /\ q \in Int /\ t = Wrap * q + r /\ r < Wrap
  BY <1>1, Z3
<1> HIDE DEF q, r
<1>3. q < 1
  <2> SUFFICES ASSUME q >= 1 PROVE FALSE
    BY <1>2
  <2>1. Wrap * q >= Wrap
    BY <1>1, <1>2, Z3
  <2>2. QED
    BY <1>1, <1>2, <2>1
<1>4. q > -1
  <2> SUFFICES ASSUME q <= -1 PROVE FALSE
    BY <1>2
  <2>1. Wrap * q <= -Wrap
    BY <1>1, <1>2, Z3
  <2>2. QED
    BY <1>1, <1>2, <2>1
<1>5. q = 0
  BY <1>2, <1>3, <1>4
<1>6. QED
  BY <1>1, <1>2, <1>5 DEF OnWire, r

\* What a user wrote stays a user's.
LEMMA ProperStays ==
  ASSUME NEW e, NEW vs, NEW ws, Proper(e, vs), vs \subseteq ws
  PROVE  Proper(e, ws)
  BY DEF Proper

\* The two sides of a synchronisation are not in the list.
LEMMA Sides ==
  ASSUME WholeInv, Active
  PROVE  /\ holder \in Clients /\ holder # Server /\ stage[holder] \in {"get", "give"}
         /\ Asker \in Nodes /\ Other \in Nodes /\ Asker # Other
         /\ Asker \in Clients => stage[Asker] # "live"
         /\ Other \in Clients => stage[Other] # "live"
         /\ Getting <=> stage[holder] = "get"
  BY Data, Ends DEF WholeInv, Holds, Active, Getting, Asker, Other

\* The side that asks receives nothing, and what it has is its users'.
LEMMA AskerReceivesNot ==
  ASSUME WholeInv, Active
  PROVE  ~Arrived(Asker) /\ ~rx[Asker].open
<1>1. ~InSession(Asker)
  BY Sides DEF InSession
<1>2. ~FromQueue(Asker)
  BY Sides DEF FromQueue
<1>3. QED
  BY <1>1, <1>2, Sides, OpenInSession DEF Arrived

LEMMA AskerProper ==
  ASSUME WholeInv, Rest, Active, NEW p \in Files
  PROVE  Proper(disk[Asker][p], known[p])
  BY Sides, AskerReceivesNot DEF Rest, Own

\* When a client is added to the list, or is not receiving.
LEMMA OwnProper ==
  ASSUME WholeInv, Rest, NEW n \in Nodes, n \in Clients => stage[n] # "live", ~rx[n].open, NEW p \in Files
  PROVE  Proper(disk[n][p], known[p])
  BY DEF Rest, Own

LEMMA RestInit == Init /\ Undisturbed => Rest
<1> SUFFICES ASSUME Init, Undisturbed PROVE Rest
  OBVIOUS
<1>1. holder = None /\ clock = StartClock /\ (\A c \in Clients : stage[c] = "off") /\ ses.pc = "idle"
  BY DEF Init, Quiet
<1>2. Own
  <2> SUFFICES ASSUME NEW n \in Nodes, NEW p \in Files PROVE Proper(disk[n][p], known[p])
    BY DEF Own
  <2>1. disk[n] \in Start[n] /\ p \in Paths
    BY DEF Init, Files
  <2>2. Proper(disk[n][p], {disk[n][p]})
    BY <2>1 DEF Undisturbed
  <2>3. disk[n][p] \in known[p]
    BY <2>1 DEF Init
  <2>4. QED
    BY <2>2, <2>3, ProperStays
<1>3. QED
  BY <1>1, <1>2 DEF Rest, Undisturbed, Walk, Copied, Restored, Active, InSession

\* Steps that leave both sides of the synchronisation and its state alone.
LEMMA SidesStay ==
  ASSUME WholeInv, Rest, UNCHANGED <<stage, holder, todo, ses, rx>>,
         Active => disk'[Asker] = disk[Asker] /\ disk'[Other] = disk[Other]
  PROVE  Walk' /\ Copied'
<1>1. Active' = Active /\ Asker' = Asker /\ Other' = Other
  BY DEF Active, Asker, Other, Getting
<1>2. Walk'
  BY <1>1 DEF Rest, Walk, Used
<1>3. Copied'
  BY <1>1 DEF Rest, Copied, InSession
<1>4. QED
  BY <1>2, <1>3

-----------------------------------------------------------------------------
(* The users *)

LEMMA RestUsers ==
  ASSUME WholeInv, Rest, TypeOK', UserStep
  PROVE  Rest'
<1>0. UNCHANGED <<stage, holder, todo, ses, rx, queue, down>> /\ disk \in [Nodes -> Tree] /\ Files \subseteq Paths
  BY DEF UserStep, Tick, Save, Remove, WholeInv, TypeOK, Files
<1>1. Undisturbed' /\ clock' > 0
  <2>1. clock \in Nat
    BY SyncAssumption DEF WholeInv, TypeOK, Times
  <2>2. clock' > 0
    BY <2>1 DEF Rest, UserStep, Tick, Save, Remove
  <2>3. QED
    BY <2>2 DEF Rest, Undisturbed, Calm
<1>2. CASE Tick
  <2>1. UNCHANGED <<disk, known>>
    BY <1>2 DEF Tick
  <2>2. Own' /\ Restored'
    BY <1>0, <2>1 DEF Rest, Own, Restored, Due, OnTheWay, Cut
  <2>3. QED
    BY <1>0, <1>1, <2>1, <2>2, SidesStay DEF Rest
<1>3. ASSUME NEW c \in Clients, NEW q \in Paths, Save(c, q) \/ Remove(c, q)
      PROVE  Rest'
  <2>1. c \in Nodes /\ c # Server /\ (Active => c # holder)
    BY <1>3, Data, Sides DEF Save, Remove, Rest, Undisturbed
  <2>2. PICK x : /\ disk' = [disk EXCEPT ![c][q] = x]
                 /\ q \in Files => Proper(x, known'[q])
    <3>1. CASE Save(c, q)
      <4> DEFINE y == [val |-> <<c, edits'>>, time |-> clock]
      <4>1. <<c, edits'>> \in Written /\ clock > 0
        BY <2>1, <3>1, SyncAssumption DEF Save, Written, WholeInv, TypeOK, Rest
      <4>2. disk' = [disk EXCEPT ![c][q] = y] /\ known' = [known EXCEPT ![q] = @ \cup {disk'[c][q]}]
        BY <3>1 DEF Save
      <4>3. disk'[c][q] = y
        BY <1>0, <2>1, <4>2 DEF Tree
      <4>4. y \in known'[q]
        BY <4>2, <4>3 DEF WholeInv, TypeOK
      <4>5. y.val = <<c, edits'>> /\ y.time = clock
        OBVIOUS
      <4> HIDE DEF y
      <4>6. QED
        BY <4>1, <4>2, <4>4, <4>5 DEF Proper
    <3>2. CASE Remove(c, q)
      BY <3>2 DEF Remove, Proper
    <3>3. QED
      BY <1>3, <3>1, <3>2
  <2>3. \A p \in Paths : known[p] \subseteq known'[p]
    <3>1. known \in [Paths -> SUBSET Entry]
      BY DEF WholeInv, TypeOK
    <3>2. QED
      BY <1>3, <3>1 DEF Save, Remove
  <2>4. \A n \in Nodes, p \in Paths : disk'[n][p] = IF n = c /\ p = q THEN x ELSE disk[n][p]
    BY <1>0, <2>1, <2>2 DEF Tree
  <2>5. \A n \in Nodes \ {c} : disk'[n] = disk[n]
    BY <1>0, <2>2
  <2>6. \A e : \A p \in Files : Proper(e, known[p]) => Proper(e, known'[p])
    BY <1>0, <2>3, ProperStays
  <2>7. \A n \in Nodes, p \in Files : Proper(disk[n][p], known[p]) => Proper(disk'[n][p], known'[p])
    BY <1>0, <2>2, <2>4, <2>6
  <2>8. Own'
    BY <1>0, <2>7 DEF Rest, Own
  <2>9. Restored'
    <3> SUFFICES ASSUME NEW d \in Clients, stage[d] = "live", ~Cut(d), NEW p \in Files, ~Due(d, p)
                 PROVE  /\ Proper(disk'[d][p], known'[p]) \/ OnTheWay(d, p, 0)
                        /\ \A i \in 1 .. Len(down[d]) :
                              down[d][i].p = p => Proper(Entered(down[d][i]), known'[p]) \/ OnTheWay(d, p, i)
      BY <1>0 DEF Restored, Due, OnTheWay, Cut
    <3>1. /\ Proper(disk[d][p], known[p]) \/ OnTheWay(d, p, 0)
          /\ \A i \in 1 .. Len(down[d]) :
                down[d][i].p = p => Proper(Entered(down[d][i]), known[p]) \/ OnTheWay(d, p, i)
      BY DEF Rest, Restored
    <3>2. QED
      BY <2>6, <2>7, <3>1, Data
  <2>10. Walk' /\ Copied'
    BY <1>0, <2>1, <2>5, Data, Sides, SidesStay DEF Asker, Other
  <2>11. QED
    BY <1>1, <2>8, <2>9, <2>10 DEF Rest
<1>4. QED
  BY <1>2, <1>3 DEF UserStep
-----------------------------------------------------------------------------
(* The synchronisation *)

\* Steps that nobody in the list takes part in.
LEMMA ListedStay ==
  ASSUME WholeInv, Rest, UNCHANGED <<rx, queue, down, known>>,
         \A c \in Clients : stage'[c] = "live" <=> stage[c] = "live",
         \A c \in Clients : stage[c] = "live" => disk'[c] = disk[c],
         \A n \in Nodes : \A p \in Files : disk'[n][p] = disk[n][p] \/ disk'[n][p] = Nothing
  PROVE  Own' /\ Restored'
<1>1. Own'
  <2>1. \A n \in Nodes : \A p \in Files : Proper(disk[n][p], known[p]) => Proper(disk'[n][p], known[p])
    BY DEF Proper
  <2>2. QED
    BY <2>1 DEF Rest, Own
<1>2. Restored'
  BY DEF Rest, Restored, Due, OnTheWay, Cut
<1>3. QED
  BY <1>1, <1>2

LEMMA RestAsk ==
  ASSUME WholeInv, Rest, NEW p \in Paths, Ask(p)
  PROVE  Rest'
<1>1. /\ Active /\ ses.pc = "idle" /\ p \in todo
      /\ ses' = [pc |-> "asked", p |-> p, time |-> OnWire(disk[Asker][p].time)]
      /\ UNCHANGED <<disk, clock, stage, holder, todo, rx, queue, down, known>>
  BY DEF Ask, Quiet
<1>2. OnWire(disk[Asker][p].time) = disk[Asker][p].time
  <2>1. disk[Asker][p].time \in Times
    BY <1>1, Sides DEF WholeInv, TypeOK, Tree, Entry
  <2>2. QED
    BY <2>1, OnWireSame DEF Rest
<1>3. ses'.pc = "asked" /\ ses'.p = p /\ ses'.time = disk[Asker][p].time
  BY <1>1, <1>2
<1>4. Walk' /\ Copied'
  BY <1>1, <1>3 DEF Rest, Walk, Copied, Active, Asker, Getting, InSession
<1>5. Own' /\ Restored'
  BY <1>1, ListedStay
<1>6. QED
  BY <1>1, <1>4, <1>5 DEF Rest, Undisturbed, Calm

\* What the other side removes is not there, which is as good as a user's file.
LEMMA RestAnswer ==
  ASSUME WholeInv, Rest, Answer
  PROVE  Rest'
<1>1. /\ Active /\ ses.pc = "asked" /\ todo' \subseteq todo
      /\ UNCHANGED <<clock, stage, holder, rx, queue, down, known>>
      /\ disk' = disk \/ disk' = [disk EXCEPT ![Other][ses.p] = Nothing]
      /\ ses' = Quiet \/ (ses' = [ses EXCEPT !.pc = "wanted"] /\ todo' = todo)
  BY DEF Answer
<1>2. ses \in [pc : {"asked", "wanted"}, p : Paths, time : Times] /\ disk \in [Nodes -> Tree]
  BY <1>1 DEF WholeInv, TypeOK, Session, Quiet
<1>3. /\ \A n \in Nodes \ {Other} : disk'[n] = disk[n]
      /\ \A n \in Nodes : \A p \in Paths : disk'[n][p] = disk[n][p] \/ disk'[n][p] = Nothing
  <2>1. CASE disk' = disk
    BY <2>1
  <2>2. CASE disk' = [disk EXCEPT ![Other][ses.p] = Nothing]
    BY <1>1, <1>2, <2>2, Sides DEF Tree
  <2>3. QED
    BY <1>1, <2>1, <2>2
<1>4. ses'.pc = "idle" \/ (ses'.pc = "wanted" /\ ses'.p = ses.p /\ ses'.time = ses.time /\ todo' = todo)
  BY <1>1, <1>2 DEF Quiet
<1>5. Active' /\ Asker' = Asker /\ disk'[Asker] = disk[Asker]
  BY <1>1, <1>3, Sides DEF Active, Asker, Getting
<1>6. Walk'
  <2>1. /\ todo \subseteq Used(disk[Asker]) /\ ses.p \in todo /\ ses.time = disk[Asker][ses.p].time
    BY <1>1 DEF Rest, Walk
  <2>2. QED
    BY <1>1, <1>4, <1>5, <2>1 DEF Walk, Used
<1>7. Copied'
  BY <1>4 DEF Copied, InSession
<1>8. Own' /\ Restored'
  <2>1. \A c \in Clients : stage[c] = "live" => disk'[c] = disk[c]
    BY <1>1, <1>3, Data, Sides
  <2>2. QED
    BY <1>1, <1>3, <2>1, ListedStay DEF Files
<1>9. QED
  BY <1>1, <1>6, <1>7, <1>8 DEF Rest, Undisturbed, Calm

LEMMA RestSendContent ==
  ASSUME WholeInv, Rest, SendContent
  PROVE  Rest'
<1>1. /\ Active /\ ses.pc = "wanted" /\ ses'.pc \in {"content", "sent"} /\ ses'.p = ses.p
      /\ ses'.val = disk[Asker][ses.p].val /\ ses'.time = ses.time
      /\ UNCHANGED <<disk, clock, stage, holder, todo, rx, queue, down, known>>
  BY DEF SendContent
<1>2. Active' /\ Asker' = Asker
  BY <1>1 DEF Active, Asker, Getting
<1>3. Walk'
  BY <1>1, <1>2 DEF Rest, Walk, Used
<1>4. Copied'
  <2>1. \A n \in Nodes : InSession(n)' => n = Other
    BY <1>1 DEF InSession, Other, Getting, Active
  <2>2. ~rx[Other].open
    BY <1>1, Sides, NotYetOpen
  <2>3. QED
    BY <1>1, <2>1, <2>2 DEF Copied
<1>5. Own' /\ Restored'
  BY <1>1, ListedStay
<1>6. QED
  BY <1>1, <1>3, <1>4, <1>5 DEF Rest, Undisturbed, Calm

\* The time is what it was when the walk asked: nobody has written the file since.
LEMMA RestSendTime ==
  ASSUME WholeInv, Rest, SendTime
  PROVE  Rest'
<1> DEFINE t == OnWire(disk[Asker][ses.p].time)
<1>1. /\ Active /\ ses.pc = "content" /\ ses' = [ses EXCEPT !.pc = "sent", !.time = t]
      /\ UNCHANGED <<disk, clock, stage, holder, todo, rx, queue, down, known>>
  BY DEF SendTime
<1>2. ses \in [pc : {"content", "sent"}, p : Paths, val : Vals, time : Times]
  BY <1>1 DEF WholeInv, TypeOK, Session, Quiet
<1>3. t = disk[Asker][ses.p].time
  <2>1. disk[Asker][ses.p].time \in Times
    BY <1>1, <1>2, Sides DEF WholeInv, TypeOK, Tree, Entry
  <2>2. QED
    BY <2>1, OnWireSame DEF Rest
<1> HIDE DEF t
<1>4. ses'.pc = "sent" /\ ses'.p = ses.p /\ ses'.val = ses.val /\ ses'.time = t
  BY <1>1, <1>2
<1>5. Active' /\ Asker' = Asker /\ \A n \in Nodes : InSession(n)' => InSession(n)
  BY <1>1, <1>4 DEF Active, Asker, Getting, InSession, Other
<1>6. Walk'
  BY <1>1, <1>3, <1>4, <1>5 DEF Rest, Walk, Used
<1>7. Copied'
  BY <1>1, <1>4, <1>5 DEF Rest, Copied
<1>8. Own' /\ Restored'
  BY <1>1, ListedStay
<1>9. QED
  BY <1>1, <1>6, <1>7, <1>8 DEF Rest, Undisturbed, Calm

LEMMA RestTurnAround ==
  ASSUME WholeInv, Rest, TurnAround
  PROVE  Rest'
<1>1. /\ Getting /\ ses.pc = "idle" /\ todo' = Used(disk[holder]) /\ ses' = ses
      /\ UNCHANGED <<disk, clock, holder, rx, queue, down, known>>
      /\ stage' = [stage EXCEPT ![holder] = "give"]
  BY DEF TurnAround, Quiet
<1>2. holder \in Clients /\ stage \in [Clients -> Stages] /\ stage[holder] = "get" /\ holder # None
  BY <1>1, Ends DEF Getting, Active, WholeInv, TypeOK
<1>3. stage'[holder] = "give" /\ \A c \in Clients \ {holder} : stage'[c] = stage[c]
  BY <1>1, <1>2
<1>4. Active' /\ Asker' = holder
  BY <1>1, <1>2, <1>3 DEF Active, Asker, Getting
<1>5. Walk' /\ Copied'
  BY <1>1, <1>4 DEF Walk, Copied, InSession
<1>6. Own' /\ Restored'
  BY <1>1, <1>2, <1>3, ListedStay
<1>7. QED
  BY <1>1, <1>5, <1>6 DEF Rest, Undisturbed, Calm

\* A client comes into the list with nothing but users' files.
LEMMA RestRegister ==
  ASSUME WholeInv, Rest, Register
  PROVE  Rest'
<1>1. /\ Active /\ ses.pc = "idle" /\ holder' = None
      /\ UNCHANGED <<disk, clock, ses, todo, rx, queue, down, known>>
      /\ stage' = [stage EXCEPT ![holder] = "live"]
  BY DEF Register, Quiet
<1>2. holder \in Clients /\ stage \in [Clients -> Stages] /\ stage[holder] # "live"
  BY <1>1, Sides DEF WholeInv, TypeOK
<1>3. stage'[holder] = "live" /\ \A c \in Clients \ {holder} : stage'[c] = stage[c]
  BY <1>1, <1>2
<1>4. Walk' /\ Copied'
  BY <1>1 DEF Walk, Copied, InSession, Active
<1>5. Own'
  BY <1>1, <1>3 DEF Rest, Own
<1>6. Restored'
  <2> SUFFICES ASSUME NEW c \in Clients, stage'[c] = "live", ~Cut(c), NEW p \in Files, ~Due(c, p)
               PROVE  /\ Proper(disk[c][p], known[p]) \/ OnTheWay(c, p, 0)
                      /\ \A i \in 1 .. Len(down[c]) :
                            down[c][i].p = p => Proper(Entered(down[c][i]), known[p]) \/ OnTheWay(c, p, i)
    BY <1>1 DEF Restored, Due, OnTheWay, Cut
  <2>1. CASE c = holder
    <3>1. down[c] = <<>> /\ c \in Nodes
      BY <1>2, <2>1, Data DEF WholeInv, Unlisted
    <3>2. ~rx[c].open
      BY <1>1, <1>2, <2>1, <3>1, NotYetOpen
    <3>3. Proper(disk[c][p], known[p])
      BY <1>2, <2>1, <3>1, <3>2, OwnProper
    <3>4. QED
      BY <3>1, <3>3
  <2>2. CASE c # holder
    BY <1>3, <2>2 DEF Rest, Restored
  <2>3. QED
    BY <2>1, <2>2
<1>7. QED
  BY <1>1, <1>4, <1>5, <1>6 DEF Rest, Undisturbed, Calm

LEMMA RestSession ==
  ASSUME WholeInv, Rest, SessionStep
  PROVE  Rest'
  BY RestAsk, RestAnswer, RestSendContent, RestSendTime, RestTurnAround, RestRegister DEF SessionStep

-----------------------------------------------------------------------------
(* Programs start and stop *)

LEMMA RestJoin ==
  ASSUME WholeInv, Rest, NEW c \in Clients, Join(c)
  PROVE  Rest'
<1>1. /\ stage[c] = "off" /\ holder' = c /\ ses'.pc = "idle" /\ todo' = Used(disk[Server])
      /\ UNCHANGED <<disk, clock, rx, queue, down, known>>
      /\ stage' = [stage EXCEPT ![c] = "get"] /\ stage \in [Clients -> Stages]
  BY DEF Join, Quiet, WholeInv, TypeOK
<1>2. stage'[c] = "get" /\ \A d \in Clients \ {c} : stage'[d] = stage[d]
  BY <1>1
<1>3. Active' => Asker' = Server
  BY <1>1, <1>2 DEF Active, Asker, Getting
<1>4. Walk' /\ Copied'
  BY <1>1, <1>3 DEF Walk, Copied, InSession
<1>5. Own' /\ Restored'
  BY <1>1, <1>2, ListedStay
<1>6. QED
  BY <1>1, <1>4, <1>5 DEF Rest, Undisturbed, Calm

\* A client for which nothing is on the way has users' files.
LEMMA IdleProper ==
  ASSUME WholeInv, Rest, holder = None, NEW c \in Clients, Idle(c) \/ stage[c] = "off", NEW p \in Files
  PROVE  Proper(disk[c][p], known[p])
<1>1. ~rx[c].open /\ c \in Nodes
  BY IdleWhole, Data
<1>2. CASE stage[c] # "live"
  BY <1>1, <1>2, OwnProper
<1>3. CASE stage[c] = "live"
  <2>1. queue[c] = <<>> /\ down[c] = <<>>
    BY <1>3 DEF Idle
  <2>2. ~rx[Server].open
    BY NotYetOpen, Data
  <2>3. ~Cut(c) /\ ~Due(c, p) /\ ~OnTheWay(c, p, 0)
    BY <2>1, <2>2 DEF Cut, Due, OnTheWay
  <2>4. QED
    BY <1>3, <2>3 DEF Rest, Restored
<1>4. QED
  BY <1>2, <1>3

LEMMA RestKillClient ==
  ASSUME WholeInv, Rest, NEW c \in Clients, KillClient(c)
  PROVE  Rest'
<1>1. Idle(c) /\ holder = None /\ holder \notin Clients
  BY SyncAssumption DEF KillClient, WholeInv, Calm, Nodes
<1>2. /\ UNCHANGED <<holder, disk, clock, ses, todo, known>> /\ rx' = [rx EXCEPT ![c] = Closed]
      /\ stage'[c] = "off"
      /\ \A d \in Clients \ {c} : stage'[d] = stage[d] /\ queue'[d] = queue[d] /\ down'[d] = down[d]
  BY <1>1 DEF KillClient, WholeInv, TypeOK
<1>3. \A n \in Nodes \ {c} : rx'[n] = rx[n]
  BY <1>2 DEF WholeInv, TypeOK
<1>4. Walk' /\ Copied'
  BY <1>1, <1>2 DEF Walk, Copied, InSession, Active
<1>5. Own'
  BY <1>1, <1>2, <1>3, IdleProper DEF Rest, Own
<1>6. Restored'
  <2> SUFFICES ASSUME NEW d \in Clients, stage'[d] = "live", ~Cut(d)', NEW p \in Files, ~Due(d, p)'
               PROVE  /\ Proper(disk'[d][p], known'[p]) \/ OnTheWay(d, p, 0)'
                      /\ \A i \in 1 .. Len(down'[d]) :
                            down'[d][i].p = p => Proper(Entered(down'[d][i]), known'[p]) \/ OnTheWay(d, p, i)'
    BY DEF Restored
  <2>1. stage[d] = "live" /\ queue'[d] = queue[d] /\ down'[d] = down[d] /\ rx'[Server] = rx[Server]
    BY <1>2, <1>3, Data
  <2>2. ~Cut(d) /\ ~Due(d, p) /\ \A k : OnTheWay(d, p, k)' = OnTheWay(d, p, k)
    BY <2>1 DEF Cut, Due, OnTheWay
  <2>3. QED
    BY <1>2, <2>1, <2>2 DEF Rest, Restored
<1>7. QED
  BY <1>2, <1>4, <1>5, <1>6 DEF Rest, Undisturbed, Calm

LEMMA RestKillServer ==
  ASSUME WholeInv, Rest, KillServer
  PROVE  Rest'
<1>1. holder = None /\ \A c \in Clients : Idle(c) \/ stage[c] = "off"
  BY DEF KillServer, WholeInv, Calm
<1>2. /\ holder' = None /\ UNCHANGED <<disk, clock, ses, todo, known>>
      /\ \A c \in Clients : stage'[c] = "off"
  BY DEF KillServer
<1>3. \A n \in Nodes : \A p \in Files : Proper(disk[n][p], known[p])
  <2>1. ~rx[Server].open
    BY <1>1, NotYetOpen, Data
  <2>2. \A p \in Files : Proper(disk[Server][p], known[p])
    BY <2>1, OwnProper, Data
  <2>3. QED
    BY <1>1, <2>2, IdleProper DEF Nodes
<1>4. QED
  BY <1>2, <1>3 DEF Rest, Undisturbed, Calm, Walk, Copied, InSession, Active, Own, Restored
-----------------------------------------------------------------------------
(* The list of clients *)

\* What is sent is a user's file, or is being received by the server, which will send it
\* once more.
LEMMA RestSendQueued ==
  ASSUME WholeInv, Rest, NEW c \in Clients, SendQueued(c)
  PROVE  Rest'
<1> DEFINE h == Head(queue[c])
           e == disk[Server][h]
           m == [p |-> h, val |-> e.val, time |-> OnWire(e.time)]
<1>1. /\ stage[c] = "live" /\ queue[c] # <<>> /\ UNCHANGED <<disk, clock, stage, holder, todo, ses, rx, known>>
      /\ down' = [down EXCEPT ![c] = Append(down[c], m)]
      /\ queue' = [queue EXCEPT ![c] = IF e = Nothing THEN <<>> ELSE Tail(queue[c])]
  BY DEF SendQueued
<1>2. /\ queue \in [Clients -> Seq(Paths)] /\ down \in [Clients -> Seq(Message)] /\ h \in Paths
      /\ Files \subseteq Paths
  BY <1>1 DEF WholeInv, TypeOK, Files
<1>3. e \in Entry
  BY <1>2, Data DEF WholeInv, TypeOK, Tree
<1>4. OnWire(e.time) = e.time
  BY <1>3, OnWireSame DEF Rest, Entry
<1>5. m.p = h /\ m.val = e.val /\ Entered(m) = e
  BY <1>3, <1>4 DEF Entered, Entry
<1>6. e = Nothing => m.val = Absent
  BY <1>5 DEF Nothing
<1>7. m \in Message
  BY <1>2, <1>3, <1>4 DEF Message, Entry
<1> HIDE DEF m
<1>8. \A d \in Clients \ {c} : down'[d] = down[d] /\ queue'[d] = queue[d]
  BY <1>1, <1>2
<1>9. down'[c] = Append(down[c], m) /\ queue'[c] = IF e = Nothing THEN <<>> ELSE Tail(queue[c])
  BY <1>1, <1>2
<1>10. /\ Len(down'[c]) = Len(down[c]) + 1 /\ Len(down[c]) \in Nat
       /\ \A i \in 1 .. Len(down[c]) : down'[c][i] = down[c][i]
       /\ down'[c][Len(down[c]) + 1] = m
  <2>1. down[c] \in Seq(Message)
    BY <1>2
  <2>2. QED
    BY <1>7, <1>9, <2>1
<1>11. Walk' /\ Copied'
  BY <1>1, SidesStay
<1>12. Own'
  BY <1>1 DEF Rest, Own
<1>13. Restored'
  <2> SUFFICES ASSUME NEW d \in Clients, stage[d] = "live", ~Cut(d)', NEW q \in Files, ~Due(d, q)'
               PROVE  /\ Proper(disk[d][q], known[q]) \/ OnTheWay(d, q, 0)'
                      /\ \A i \in 1 .. Len(down'[d]) :
                            down'[d][i].p = q => Proper(Entered(down'[d][i]), known[q]) \/ OnTheWay(d, q, i)'
    BY <1>1 DEF Restored
  <2>1. CASE d # c
    <3>1. down'[d] = down[d] /\ queue'[d] = queue[d]
      BY <1>8, <2>1
    <3>2. /\ Cut(d)' = Cut(d) /\ Due(d, q)' = Due(d, q)
          /\ \A k : OnTheWay(d, q, k)' = OnTheWay(d, q, k)
      BY <1>1, <3>1 DEF Cut, Due, OnTheWay
    <3>3. QED
      BY <3>1, <3>2 DEF Rest, Restored
  <2>2. CASE d = c
    <3> DEFINE L == Len(down[c])
    <3>1. ~Cut(c) /\ m.val # Absent
      <4>1. \A i \in 1 .. Len(down'[c]) : down'[c][i].val # Absent
        BY <2>2 DEF Cut
      <4>2. L + 1 \in 1 .. Len(down'[c]) /\ \A i \in 1 .. L : i \in 1 .. Len(down'[c])
        BY <1>10
      <4>3. QED
        BY <1>10, <4>1, <4>2 DEF Cut
    <3>2. queue'[c] = Tail(queue[c])
      BY <1>6, <1>9, <3>1
    <3>3. ~(rx[Server].open /\ rx[Server].p = q)
      BY <1>1, <2>2 DEF Due
    <3>4. CASE q = h
      <4>1. Proper(Entered(m), known[q])
        BY <1>5, <3>3, <3>4, Data DEF Rest, Own
      <4>2. \A k \in 0 .. L : OnTheWay(c, q, k)'
        BY <1>5, <1>10, <3>4 DEF OnTheWay
      <4>3. QED
        BY <1>10, <2>2, <4>1, <4>2
    <3>5. CASE q # h
      <4>1. ~Due(c, q)
        <5>1. \A i \in 1 .. Len(queue[c]) : i = 1 \/ (i - 1 \in 1 .. Len(queue'[c]) /\ queue'[c][i - 1] = queue[c][i])
          <6>1. queue[c] \in Seq(Paths) /\ queue[c] # <<>>
            BY <1>1, <1>2
          <6>2. QED
            BY <3>2, <6>1, TailAt
        <5>2. queue[c][1] = h
          BY <1>1, <1>2
        <5>3. QED
          BY <2>2, <3>3, <3>5, <5>1, <5>2 DEF Due
      <4>2. /\ Proper(disk[c][q], known[q]) \/ OnTheWay(c, q, 0)
            /\ \A i \in 1 .. L : down[c][i].p = q => Proper(Entered(down[c][i]), known[q]) \/ OnTheWay(c, q, i)
        BY <1>1, <3>1, <4>1 DEF Rest, Restored
      <4>3. \A k \in 0 .. L : OnTheWay(c, q, k) => OnTheWay(c, q, k)'
        BY <1>10 DEF OnTheWay
      <4>4. \A i \in 1 .. L + 1 : i = L + 1 \/ i \in 1 .. L
        BY <1>10
      <4>5. ASSUME NEW i \in 1 .. L + 1, down'[c][i].p = q
            PROVE  Proper(Entered(down'[c][i]), known[q]) \/ OnTheWay(c, q, i)'
        <5>1. i # L + 1
          BY <1>5, <1>10, <3>5, <4>5
        <5>2. i \in 1 .. L /\ i \in 0 .. L /\ down'[c][i] = down[c][i]
          BY <1>10, <4>4, <5>1
        <5>3. QED
          BY <4>2, <4>3, <4>5, <5>2
      <4>6. QED
        BY <1>10, <2>2, <4>2, <4>3, <4>5
    <3>6. QED
      BY <3>4, <3>5
  <2>3. QED
    BY <2>1, <2>2
<1>14. QED
  BY <1>1, <1>11, <1>12, <1>13 DEF Rest, Undisturbed, Calm

-----------------------------------------------------------------------------
(* Files are received *)

\* Writing a file at a client in the list is made good by the message that brings it.
LEMMA RestoredWriting ==
  ASSUME WholeInv, Rest, UNCHANGED <<stage, queue, down, known>>, NEW n \in Nodes, Arrived(n),
         rx[Server].open => rx'[Server].open /\ rx'[Server].p = rx[Server].p,
         \A k \in Nodes \ {n} : disk'[k] = disk[k],
         \A q \in Files \ {Arriving(n).p} : disk'[n][q] = disk[n][q]
  PROVE  Restored'
<1> SUFFICES ASSUME NEW d \in Clients, stage[d] = "live", ~Cut(d), NEW q \in Files, ~Due(d, q)'
             PROVE  /\ Proper(disk'[d][q], known[q]) \/ OnTheWay(d, q, 0)
                    /\ \A i \in 1 .. Len(down[d]) :
                          down[d][i].p = q => Proper(Entered(down[d][i]), known[q]) \/ OnTheWay(d, q, i)
  BY DEF Restored, Cut, OnTheWay
<1>1. ~Due(d, q)
  BY DEF Due
<1>2. /\ Proper(disk[d][q], known[q]) \/ OnTheWay(d, q, 0)
      /\ \A i \in 1 .. Len(down[d]) :
            down[d][i].p = q => Proper(Entered(down[d][i]), known[q]) \/ OnTheWay(d, q, i)
  BY <1>1 DEF Rest, Restored
<1>3. CASE d = n /\ q = Arriving(n).p
  <2>1. Arriving(n) = down[d][1] /\ Len(down[d]) \in Nat /\ Len(down[d]) > 0
    BY <1>3, ArrivesListed
  <2>2. OnTheWay(d, q, 0)
    BY <1>3, <2>1 DEF OnTheWay
  <2>3. QED
    BY <1>2, <2>2
<1>4. CASE ~(d = n /\ q = Arriving(n).p)
  <2>1. disk'[d][q] = disk[d][q]
    BY <1>4, Data
  <2>2. QED
    BY <1>2, <2>1
<1>5. QED
  BY <1>3, <1>4

\* The side that asks is not the one that writes.
LEMMA AskerApart ==
  ASSUME WholeInv, Rest, UNCHANGED <<stage, holder, todo, ses>>, NEW n \in Nodes, Arrived(n),
         \A k \in Nodes \ {n} : disk'[k] = disk[k]
  PROVE  Walk'
<1>1. Active' = Active /\ Asker' = Asker
  BY DEF Active, Asker, Getting
<1>2. Active => disk'[Asker] = disk[Asker]
  BY AskerReceivesNot, Sides
<1>3. QED
  BY <1>1, <1>2 DEF Rest, Walk, Used

LEMMA RestOpen ==
  ASSUME WholeInv, Rest, NEW n \in Nodes, Open(n)
  PROVE  Rest'
<1> DEFINE a == Arriving(n)
<1>1. /\ Arrived(n) /\ ~rx[n].open /\ UNCHANGED <<clock, stage, holder, todo, ses, queue, down, known>>
      /\ rx' = [rx EXCEPT ![n] = [open |-> TRUE, p |-> a.p, full |-> FALSE]]
      /\ disk' = [disk EXCEPT ![n][a.p] = [val |-> Torn, time |-> clock]]
  BY DEF Open
<1>2. a.p \in Paths /\ disk \in [Nodes -> Tree] /\ rx \in [Nodes -> Receiving] /\ Files \subseteq Paths
  BY <1>1, ArrivingTyped DEF WholeInv, TypeOK, Files
<1> HIDE DEF a
<1>3. /\ rx'[n].open /\ rx'[n].p = a.p /\ ~rx'[n].full /\ \A k \in Nodes \ {n} : rx'[k] = rx[k]
      /\ \A q \in Paths \ {a.p} : disk'[n][q] = disk[n][q]
      /\ \A k \in Nodes \ {n} : disk'[k] = disk[k]
  BY <1>1, <1>2 DEF Tree
<1>4. Walk'
  BY <1>1, <1>3, AskerApart
<1>5. Copied'
  BY <1>1, <1>3 DEF Rest, Copied, InSession, Active, Other, Getting
<1>6. Own'
  BY <1>1, <1>2, <1>3 DEF Rest, Own
<1>7. Restored'
  BY <1>1, <1>2, <1>3, RestoredWriting, Data DEF a
<1>8. QED
  BY <1>1, <1>4, <1>5, <1>6, <1>7 DEF Rest, Undisturbed, Calm

LEMMA RestFill ==
  ASSUME WholeInv, Rest, NEW n \in Nodes, Fill(n)
  PROVE  Rest'
<1> DEFINE a == Arriving(n)
<1>1. /\ Arrived(n) /\ rx[n].open /\ UNCHANGED <<clock, stage, holder, todo, ses, queue, down, known>>
      /\ rx' = [rx EXCEPT ![n].full = TRUE]
      /\ disk' = [disk EXCEPT ![n][rx[n].p] = [val |-> a.val, time |-> clock]]
      /\ rx[n].p = a.p
  BY DEF Fill, WholeInv, Opened
<1>2. /\ a.p \in Paths /\ disk \in [Nodes -> Tree] /\ Files \subseteq Paths
      /\ rx[n] \in [open : {TRUE}, p : Paths, full : BOOLEAN]
  BY <1>1, ArrivingTyped, OpenTyped DEF WholeInv, TypeOK, Files
<1>3. InSession(n) => a.val = ses.val /\ a.p = ses.p
  BY DEF Arriving
<1> HIDE DEF a
<1>4. /\ rx'[n].open /\ rx'[n].p = a.p /\ \A k \in Nodes \ {n} : rx'[k] = rx[k]
  BY <1>1, <1>2 DEF WholeInv, TypeOK
<1>5. /\ disk'[n][a.p].val = a.val
      /\ \A q \in Paths \ {a.p} : disk'[n][q] = disk[n][q]
      /\ \A k \in Nodes \ {n} : disk'[k] = disk[k]
  BY <1>1, <1>2 DEF Tree
<1>6. Walk'
  BY <1>1, <1>5, AskerApart
<1>7. Copied'
  <2> SUFFICES ASSUME NEW k \in Nodes, InSession(k), rx'[k].open, rx'[k].full
               PROVE  disk'[k][ses.p].val = ses.val
    BY <1>1 DEF Copied, InSession, Active, Other, Getting
  <2>1. CASE k = n
    BY <1>3, <1>5, <2>1
  <2>2. CASE k # n
    BY <1>4, <1>5, <2>2 DEF Rest, Copied
  <2>3. QED
    BY <2>1, <2>2
<1>8. Own'
  BY <1>1, <1>2, <1>4, <1>5 DEF Rest, Own
<1>9. Restored'
  <2>1. rx[Server].open => rx'[Server].open /\ rx'[Server].p = rx[Server].p
    BY <1>1, <1>4, Data
  <2>2. QED
    BY <1>1, <1>2, <1>5, <2>1, RestoredWriting DEF a
<1>10. QED
  BY <1>1, <1>6, <1>7, <1>8, <1>9 DEF Rest, Undisturbed, Calm
\* The end of a receive procedure.  What the server has received it sends to the list.
LEMMA RestDone ==
  ASSUME WholeInv, Rest, NEW n \in Nodes, Arrived(n), Done(n), UNCHANGED <<clock, stage, holder, known>>,
         ~rx'[n].open, \A k \in Nodes \ {n} : rx'[k] = rx[k], Arriving(n).val # Absent,
         \A k \in Nodes \ {n} : disk'[k] = disk[k],
         \A q \in Files \ {Arriving(n).p} : disk'[n][q] = disk[n][q],
         InSession(n) /\ ses.p \in Files => Proper(disk'[n][ses.p], known[ses.p]),
         ~InSession(n) /\ Arriving(n).p \in Files =>
            disk'[n][Arriving(n).p] = Entered(Arriving(n)) \/ ~Proper(Entered(Arriving(n)), known[Arriving(n).p])
  PROVE  Rest'
<1>0. /\ queue \in [Clients -> Seq(Paths)] /\ down \in [Clients -> Seq(Message)]
      /\ Clients \subseteq Nodes /\ Server \in Nodes /\ Server \notin Clients
  BY Data DEF WholeInv, TypeOK
<1>1. Undisturbed' /\ clock' > 0
  BY DEF Rest, Undisturbed, Calm
<1>2. CASE InSession(n)
  <2>1. /\ ses' = Quiet /\ todo' \subseteq todo /\ UNCHANGED down
        /\ queue' = IF n = Server THEN Broadcast(ses.p) ELSE queue
        /\ n \in Clients => stage[n] # "live"
        /\ Arriving(n) = ses /\ Active /\ n = Other /\ ses.p \in Paths
    BY <1>2, ListedApart, SessionTyped DEF Done, WholeInv, Arriving, InSession
  <2>2. Active' = Active /\ Asker' = Asker /\ disk'[Asker] = disk[Asker]
    BY <2>1, Sides DEF Active, Asker, Getting
  <2>3. Walk' /\ Copied'
    BY <2>1, <2>2 DEF Rest, Walk, Used, Copied, InSession, Quiet
  <2>4. Own'
    <3> SUFFICES ASSUME NEW k \in Nodes, k \in Clients => stage[k] # "live", NEW p \in Files,
                        ~(rx'[k].open /\ rx'[k].p = p)
                 PROVE  Proper(disk'[k][p], known[p])
      BY DEF Own
    <3>1. CASE k # n
      BY <3>1 DEF Rest, Own
    <3>2. CASE k = n
      <4>1. rx[n].open => rx[n].p = ses.p
        BY <2>1 DEF WholeInv, Opened
      <4>2. QED
        BY <1>2, <2>1, <3>2, <4>1 DEF Rest, Own
    <3>3. QED
      BY <3>1, <3>2
  <2>5. Restored'
    <3> SUFFICES ASSUME NEW d \in Clients, stage[d] = "live", ~Cut(d), NEW q \in Files, ~Due(d, q)'
                 PROVE  /\ Proper(disk'[d][q], known[q]) \/ OnTheWay(d, q, 0)
                        /\ \A i \in 1 .. Len(down[d]) :
                              down[d][i].p = q => Proper(Entered(down[d][i]), known[q]) \/ OnTheWay(d, q, i)
      BY <2>1 DEF Restored, Cut, OnTheWay
    <3>1. ~Due(d, q)
      <4>1. CASE n = Server
        <5>1. queue'[d] = Append(queue[d], ses.p)
          BY <2>1, <4>1 DEF Broadcast
        <5>2. rx[Server].open => rx[Server].p = ses.p
          BY <2>1, <4>1 DEF WholeInv, Opened
        <5>3. ses.p \in Paths /\ queue[d] \in Seq(Paths)
          BY <1>0, <2>1
        <5>4. /\ Len(queue[d]) \in Nat /\ Len(queue'[d]) = Len(queue[d]) + 1
              /\ \A i \in 1 .. Len(queue[d]) : queue'[d][i] = queue[d][i]
              /\ queue'[d][Len(queue[d]) + 1] = ses.p
          BY <5>1, <5>3
        <5>5. QED
          BY <5>2, <5>4 DEF Due
      <4>2. CASE n # Server
        BY <1>0, <2>1, <4>2 DEF Due
      <4>3. QED
        BY <4>1, <4>2
    <3>2. d # n /\ disk'[d] = disk[d]
      BY <1>0, <2>1
    <3>3. QED
      BY <3>1, <3>2 DEF Rest, Restored
  <2>6. QED
    BY <1>1, <2>3, <2>4, <2>5 DEF Rest
<1>3. CASE ~InSession(n)
  <2>1. n \in Clients /\ stage[n] = "live" /\ down[n] # <<>> /\ n # Server /\ Arriving(n) = Head(down[n])
    BY <1>0, <1>3 DEF Arrived, FromQueue, Arriving
  <2>2. /\ UNCHANGED <<ses, todo, queue>> /\ down'[n] = Tail(down[n])
        /\ \A d \in Clients \ {n} : down'[d] = down[d]
    BY <1>0, <1>3, <2>1 DEF Done
  <2>3. Walk'
    BY <2>2, AskerApart
  <2>4. Copied'
    <3>1. \A k \in Nodes : InSession(k)' => InSession(k) /\ k # n
      BY <1>3, <2>2 DEF InSession, Active, Other, Getting
    <3>2. QED
      BY <2>2, <3>1 DEF Rest, Copied
  <2>5. Own'
    BY <2>1 DEF Rest, Own
  <2>6. Restored'
    <3> SUFFICES ASSUME NEW d \in Clients, stage[d] = "live", ~Cut(d)', NEW q \in Files, ~Due(d, q)'
                 PROVE  /\ Proper(disk'[d][q], known[q]) \/ OnTheWay(d, q, 0)'
                        /\ \A i \in 1 .. Len(down'[d]) :
                              down'[d][i].p = q => Proper(Entered(down'[d][i]), known[q]) \/ OnTheWay(d, q, i)'
      BY DEF Restored
    <3>1. ~Due(d, q)
      BY <1>0, <2>1, <2>2 DEF Due
    <3>2. CASE d # n
      <4>1. down'[d] = down[d] /\ disk'[d] = disk[d]
        BY <1>0, <2>2, <3>2
      <4>2. ~Cut(d) /\ \A k : OnTheWay(d, q, k)' = OnTheWay(d, q, k)
        BY <4>1 DEF Cut, OnTheWay
      <4>3. QED
        BY <3>1, <4>1, <4>2 DEF Rest, Restored
    <3>3. CASE d = n
      <4> DEFINE s == down[n]
                 t == down'[n]
      <4>1. s \in Seq(Message) /\ s # <<>> /\ t = Tail(s)
        BY <1>0, <2>1, <2>2
      <4>2. /\ s[1] = Arriving(n) /\ Len(s) \in Nat /\ Len(t) = Len(s) - 1
            /\ \A i \in 1 .. Len(t) : t[i] = s[i + 1]
            /\ \A i \in 1 .. Len(s) : i = 1 \/ (i - 1 \in 1 .. Len(t) /\ t[i - 1] = s[i])
        BY <2>1, <4>1, TailAt
      <4>3. ~Cut(n)
        <5>1. \A i \in 1 .. Len(t) : t[i].val # Absent
          BY <3>3 DEF Cut
        <5>2. \A i \in 1 .. Len(s) : s[i].val # Absent
          BY <4>2, <5>1
        <5>3. QED
          BY <5>2 DEF Cut
      <4>4. /\ Proper(disk[n][q], known[q]) \/ OnTheWay(n, q, 0)
            /\ \A i \in 1 .. Len(s) : s[i].p = q => Proper(Entered(s[i]), known[q]) \/ OnTheWay(n, q, i)
        BY <2>1, <3>1, <3>3, <4>3 DEF Rest, Restored
      <4>5. ASSUME NEW k \in Nat, OnTheWay(n, q, k + 1)
            PROVE  OnTheWay(n, q, k)'
        <5>1. PICK j \in 1 .. Len(s) : j > k + 1 /\ s[j].p = q
          BY <4>5 DEF OnTheWay
        <5>2. j - 1 \in 1 .. Len(t) /\ t[j - 1] = s[j] /\ j - 1 > k
          BY <4>2, <5>1
        <5>3. QED
          BY <5>1, <5>2 DEF OnTheWay
      <4>6. ASSUME ~Proper(disk'[n][q], known[q])
            PROVE  OnTheWay(n, q, 0)'
        <5>1. OnTheWay(n, q, 1)
          <6>1. CASE q = Arriving(n).p
            <7>1. ~Proper(Entered(Arriving(n)), known[q])
              BY <1>3, <4>6, <6>1
            <7>2. 1 \in 1 .. Len(s)
              BY <4>1, <4>2
            <7>3. QED
              BY <4>2, <4>4, <6>1, <7>1, <7>2
          <6>2. CASE q # Arriving(n).p
            <7>1. OnTheWay(n, q, 0)
              BY <4>4, <4>6, <6>2
            <7>2. QED
              BY <4>2, <6>2, <7>1 DEF OnTheWay
          <6>3. QED
            BY <6>1, <6>2
        <5>2. QED
          BY <4>5, <5>1
      <4>7. ASSUME NEW i \in 1 .. Len(t), t[i].p = q, ~Proper(Entered(t[i]), known[q])
            PROVE  OnTheWay(n, q, i)'
        <5>1. i + 1 \in 1 .. Len(s) /\ s[i + 1] = t[i] /\ i \in Nat
          BY <4>2
        <5>2. OnTheWay(n, q, i + 1)
          BY <4>4, <4>7, <5>1
        <5>3. QED
          BY <4>5, <5>1, <5>2
      <4>8. QED
        BY <3>3, <4>6, <4>7
    <3>4. QED
      BY <3>2, <3>3
  <2>7. QED
    BY <1>1, <2>3, <2>4, <2>5, <2>6 DEF Rest
<1>4. QED
  BY <1>2, <1>3

\* The walk gives the other side the version of the side that asks.
LEMMA StampCopies ==
  ASSUME WholeInv, Rest, NEW n \in Nodes, Stamp(n), InSession(n)
  PROVE  disk'[n][ses.p] = disk[Asker][ses.p]
<1> DEFINE t == ses.time
           e == disk[n][ses.p]
<1>1. /\ Arriving(n) = ses /\ ses.pc = "sent" /\ rx[n].p = ses.p /\ rx[n].open /\ rx[n].full /\ Active
      /\ disk' = [disk EXCEPT ![n][ses.p] = [disk[n][ses.p] EXCEPT !.time = t]]
  BY DEF Stamp, Arriving, InSession, WholeInv, Opened
<1>2. /\ ses.p \in Paths /\ disk \in [Nodes -> Tree] /\ Asker \in Nodes
      /\ e \in Entry /\ disk[Asker][ses.p] \in Entry
  BY <1>1, Sides, SessionTyped DEF WholeInv, TypeOK, Tree
<1>3. t = disk[Asker][ses.p].time /\ e.val = disk[Asker][ses.p].val
  BY <1>1 DEF Rest, Walk, Copied
<1>4. disk'[n][ses.p] = [e EXCEPT !.time = t]
  BY <1>1, <1>2 DEF Tree
<1> HIDE DEF t, e
<1>5. [e EXCEPT !.time = t] = [val |-> e.val, time |-> t]
  BY <1>2 DEF Entry
<1>6. disk[Asker][ses.p] = [val |-> disk[Asker][ses.p].val, time |-> disk[Asker][ses.p].time]
  BY <1>2 DEF Entry
<1>7. QED
  BY <1>3, <1>4, <1>5, <1>6

LEMMA RestStamp ==
  ASSUME WholeInv, Rest, NEW n \in Nodes, Stamp(n)
  PROVE  Rest'
<1> DEFINE p == rx[n].p
           t == Arriving(n).time
<1>1. /\ Arrived(n) /\ rx[n].open /\ rx[n].full /\ Done(n) /\ UNCHANGED <<clock, stage, holder, known>>
      /\ disk' = [disk EXCEPT ![n][p] = [disk[n][p] EXCEPT !.time = t]] /\ rx' = [rx EXCEPT ![n] = Closed]
      /\ p = Arriving(n).p /\ Arriving(n).val # Absent
  BY DEF Stamp, WholeInv, Opened
<1>2. p \in Paths /\ disk \in [Nodes -> Tree] /\ rx \in [Nodes -> Receiving] /\ disk[n][p] \in Entry
  BY <1>1, ArrivingTyped DEF WholeInv, TypeOK, Tree
<1> HIDE DEF p, t
<1>3. /\ ~rx'[n].open /\ \A k \in Nodes \ {n} : rx'[k] = rx[k]
      /\ \A k \in Nodes \ {n} : disk'[k] = disk[k]
      /\ \A q \in Paths \ {p} : disk'[n][q] = disk[n][q]
      /\ disk'[n][p] = [disk[n][p] EXCEPT !.time = t]
  BY <1>1, <1>2 DEF Closed, Tree
<1>4. InSession(n) /\ ses.p \in Files => Proper(disk'[n][ses.p], known[ses.p])
  BY StampCopies, AskerProper DEF InSession
<1>5. ~InSession(n) => disk'[n][p] = Entered(Arriving(n))
  <2> SUFFICES ASSUME ~InSession(n) PROVE disk'[n][p] = Entered(Arriving(n))
    OBVIOUS
  <2>1. disk[n][p].val = Arriving(n).val
    BY <1>1 DEF WholeInv, Filled, Arrived, Arriving, FromQueue, p
  <2>2. [disk[n][p] EXCEPT !.time = t] = [val |-> disk[n][p].val, time |-> t]
    BY <1>2 DEF Entry
  <2>3. QED
    BY <1>3, <2>1, <2>2 DEF Entered, t
<1>6. QED
  BY <1>1, <1>3, <1>4, <1>5, RestDone DEF Files

\* A directory is not made in place of a file.
LEMMA DirectoryApart ==
  ASSUME WholeInv, Rest, NEW n \in Nodes, InSession(n), ses.val = Dir
  PROVE  ses.p \notin Files
<1>1. Active /\ disk[Asker][ses.p].val = Dir
  BY DEF InSession, Rest, Walk
<1>2. ~Proper(disk[Asker][ses.p], known[ses.p])
  BY <1>1, SyncAssumption DEF Proper, Nothing
<1>3. QED
  BY <1>1, <1>2, AskerProper

LEMMA RestMakeDirectory ==
  ASSUME WholeInv, Rest, NEW n \in Nodes, MakeDirectory(n)
  PROVE  Rest'
<1> DEFINE p == Arriving(n).p
<1>1. /\ Arrived(n) /\ ~rx[n].open /\ Done(n) /\ UNCHANGED <<clock, stage, holder, rx, known>>
      /\ disk' = [disk EXCEPT ![n][p] = Folder] /\ Arriving(n).val = Dir
  BY DEF MakeDirectory, WholeInv, Opened
<1>2. p \in Paths /\ disk \in [Nodes -> Tree] /\ Dir # Absent
  BY <1>1, ArrivingTyped, SyncAssumption DEF WholeInv, TypeOK
<1> HIDE DEF p
<1>3. /\ \A k \in Nodes \ {n} : disk'[k] = disk[k]
      /\ \A q \in Paths \ {p} : disk'[n][q] = disk[n][q]
  BY <1>1, <1>2 DEF Tree
<1>4. InSession(n) => ses.p \notin Files
  BY <1>1, DirectoryApart DEF Arriving
<1>5. ~Proper(Entered(Arriving(n)), known[p])
  BY <1>1, SyncAssumption DEF Proper, Entered, Nothing
<1>6. QED
  BY <1>1, <1>2, <1>3, <1>4, <1>5, RestDone DEF Files, p

-----------------------------------------------------------------------------

LEMMA ForwardInit == Init /\ Undisturbed => WholeInv /\ Rest
  BY WholeInit, RestInit DEF Undisturbed

LEMMA ForwardStep == WholeInv /\ Rest /\ [Next]_vars => WholeInv' /\ Rest'
<1> SUFFICES ASSUME WholeInv, Rest, [Next]_vars PROVE Rest'
  BY WholeStep
<1>1. CASE UNCHANGED vars
  <2>1. UNCHANGED <<disk, clock, stage, holder, todo, ses, rx, queue, down, known>>
    BY <1>1 DEF vars
  <2>2. Walk' /\ Copied'
    BY <2>1, SidesStay
  <2>3. Own' /\ Restored'
    BY <2>1, ListedStay
  <2>4. QED
    BY <2>1, <2>2, <2>3 DEF Rest, Undisturbed, Calm
<1>2. CASE Next
  <2>1. TypeOK'
    BY TypedStep DEF WholeInv
  <2>2. QED
    BY <1>2, <2>1, RestUsers, RestSession, RestJoin, RestSendQueued, RestKillClient, RestKillServer,
       RestOpen, RestFill, RestStamp, RestMakeDirectory
    DEF Next, Receive
<1>3. QED
  BY <1>1, <1>2
-----------------------------------------------------------------------------
(* Sync implements Merge: a save is Write, a walk that finds the server's file missing or  *)
(* older is Adopt, and all the rest, the transfer too, changes nothing that is shown.      *)

ShownFiles == [p \in Files |-> Shown(p)]
KnownFiles == [p \in Files |-> known[p]]

LEMMA MergeInit == Init => ServersCopy!Init
<1> SUFFICES ASSUME Init PROVE ServersCopy!Init
  OBVIOUS
<1>1. TypeOK
  BY TypedInit
<1>2. \A p \in Files : Shown(p) = disk[Server][p]
  BY DEF Init, Shown, Active
<1>3. \A p \in Files : Shown(p) \in known[p] /\ known[p] \in SUBSET Entry /\ Shown(p) \in Entry
  BY <1>1, <1>2, Data DEF Init, TypeOK, Tree, Files
<1>4. QED
  BY <1>3 DEF ServersCopy!Init, Files

\* What a client or the synchronisation does without changing what is shown.
LEMMA ShownStays ==
  ASSUME UNCHANGED known, \A p \in Files : Shown(p)' = Shown(p)
  PROVE  UNCHANGED <<ShownFiles, KnownFiles>>
  BY DEF ShownFiles, KnownFiles

LEMMA MergeUsers ==
  ASSUME WholeInv, Rest, UserStep
  PROVE  ServersCopy!Next \/ UNCHANGED <<ShownFiles, KnownFiles>>
<1>0. UNCHANGED <<stage, holder, ses>> /\ disk \in [Nodes -> Tree] /\ known \in [Paths -> SUBSET Entry]
  BY DEF UserStep, Tick, Save, Remove, WholeInv, TypeOK
<1>1. Active' = Active /\ Other' = Other
  BY <1>0 DEF Active, Other, Getting
<1>2. disk'[Server] = disk[Server] /\ (Active => disk'[holder] = disk[holder])
  <2>1. CASE Tick
    BY <2>1 DEF Tick
  <2>2. ASSUME NEW c \in Clients, NEW q \in Paths, Save(c, q) \/ Remove(c, q)
        PROVE  disk'[Server] = disk[Server] /\ (Active => disk'[holder] = disk[holder])
    <3>1. c \in Nodes /\ c # Server /\ (Active => c # holder /\ holder \in Nodes)
      BY <2>2, Data, Sides DEF Save, Remove, Rest, Undisturbed
    <3>2. PICK x : disk' = [disk EXCEPT ![c][q] = x]
      BY <2>2 DEF Save, Remove
    <3>3. QED
      BY <1>0, <3>1, <3>2, Data
  <2>3. QED
    BY <2>1, <2>2 DEF UserStep
<1>3. \A p \in Files : Shown(p)' = Shown(p)
  BY <1>0, <1>1, <1>2 DEF Shown
<1>4. CASE Tick
  BY <1>3, <1>4, ShownStays DEF Tick
<1>5. ASSUME NEW c \in Clients, NEW q \in Paths, Remove(c, q)
      PROVE  UNCHANGED <<ShownFiles, KnownFiles>>
  BY <1>3, <1>5, ShownStays DEF Remove
<1>6. ASSUME NEW c \in Clients, NEW q \in Paths, Save(c, q)
      PROVE  ServersCopy!Next
  <2> DEFINE y == [val |-> <<c, edits'>>, time |-> clock]
  <2>v. PICK v : v = disk'[c][q]
    OBVIOUS
  <2>1. q \in Files /\ known' = [known EXCEPT ![q] = @ \cup {v}]
    BY <1>6, <2>v DEF Save, Files
  <2>2. v = y
    <3>1. disk' = [disk EXCEPT ![c][q] = y] /\ c \in Nodes
      BY <1>6, Data DEF Save
    <3> HIDE DEF y
    <3>2. QED
      BY <1>0, <2>v, <3>1 DEF Tree
  <2>3. y \in Entry
    <3>1. <<c, edits'>> \in Written /\ clock \in Times
      BY <1>6, Data, SyncAssumption DEF Save, Written, WholeInv, TypeOK
    <3>2. QED
      BY <3>1 DEF Entry, Vals
  <2> HIDE DEF y
  <2>4. \A p \in Files : known'[p] = IF p = q THEN known[p] \cup {v} ELSE known[p]
    BY <1>0, <2>1 DEF Files
  <2>5. KnownFiles' = [KnownFiles EXCEPT ![q] = @ \cup {v}]
    BY <2>1, <2>4 DEF KnownFiles
  <2>6. ShownFiles' = ShownFiles
    BY <1>3 DEF ShownFiles
  <2>7. ServersCopy!Write(q, v)
    BY <2>5, <2>6 DEF ServersCopy!Write, KnownFiles, ShownFiles, Files
  <2>8. QED
    BY <2>1, <2>2, <2>3, <2>7 DEF ServersCopy!Next, Files
<1>7. QED
  BY <1>4, <1>5, <1>6 DEF UserStep

\* The answer "no" of the server is the moment at which the file is replaced.
LEMMA MergeAnswer ==
  ASSUME WholeInv, Rest, Answer
  PROVE  ServersCopy!Next \/ UNCHANGED <<ShownFiles, KnownFiles>>
<1>1. /\ Active /\ ses.pc = "asked" /\ UNCHANGED <<stage, holder, known>>
      /\ disk \in [Nodes -> Tree] /\ ses.p \in Paths
      /\ ses \in [pc : {"asked", "wanted"}, p : Paths, time : Times]
  BY DEF Answer, WholeInv, TypeOK, Session, Quiet
<1>2. Active' /\ Other' = Other /\ Asker' = Asker
  BY <1>1 DEF Active, Other, Asker, Getting
<1>3. \A p \in Files : Shown(p) = disk[Server][p]
  BY <1>1 DEF Shown
<1>4. CASE Valid(disk[Other][ses.p], ses.time)
  <2>1. disk' = disk /\ ses'.pc = "idle"
    BY <1>4 DEF Answer, Quiet
  <2>2. \A p \in Files : Shown(p)' = Shown(p)
    BY <1>3, <2>1 DEF Shown
  <2>3. QED
    BY <1>1, <2>2, ShownStays
<1>5. CASE ~Valid(disk[Other][ses.p], ses.time)
  <2>1. disk' = [disk EXCEPT ![Other][ses.p] = Nothing] /\ ses' = [ses EXCEPT !.pc = "wanted"]
    BY <1>5 DEF Answer
  <2>2. ses'.pc = "wanted" /\ ses'.p = ses.p
    BY <1>1, <2>1
  <2>3. \A n \in Nodes \ {Other} : disk'[n] = disk[n]
    BY <1>1, <2>1
  <2>4. CASE Getting
    <3>1. Other # Server /\ disk'[Server] = disk[Server]
      BY <2>3, <2>4, <1>1, Data, Sides DEF Other
    <3>2. \A p \in Files : Shown(p)' = Shown(p)
      BY <1>2, <1>3, <3>1 DEF Shown
    <3>3. QED
      BY <1>1, <3>2, ShownStays
  <2>5. CASE ~Getting
    <3>q. PICK q \in Paths : q = ses.p
      BY <1>1
    <3>v. PICK v : v = disk[holder][q]
      OBVIOUS
    <3>1. Other = Server /\ Asker = holder /\ holder # Server /\ holder \in Nodes
      BY <1>1, <2>5, Data, Sides DEF Other, Asker
    <3>2. \A p \in Files \ {q} : Shown(p)' = Shown(p)
      <4>1. \A p \in Paths \ {q} : disk'[Server][p] = disk[Server][p]
        BY <1>1, <2>1, <3>q, <3>1 DEF Tree
      <4>2. QED
        BY <1>3, <2>2, <3>q, <4>1 DEF Shown, Files
    <3>3. CASE q \notin Files
      BY <1>1, <3>2, <3>3, ShownStays
    <3>4. CASE q \in Files
      <4>1. Shown(q)' = v
        BY <1>1, <1>2, <2>2, <2>3, <3>q, <3>v, <3>1 DEF Shown
      <4>2. Proper(v, known[q]) /\ v # Nothing /\ ses.time = v.time
        <5>1. v # Nothing /\ ses.time = v.time
          BY <1>1, <3>q, <3>v, <3>1 DEF Rest, Walk, Used
        <5>2. QED
          BY <1>1, <3>v, <3>1, <3>4, <5>1, AskerProper
      <4>3. disk[Server][q] = Nothing \/ ~(disk[Server][q].time >= v.time)
        BY <1>5, <3>q, <3>1, <4>2 DEF Valid
      <4>4. Shown(q) = disk[Server][q] /\ Shown(q).time < v.time
        <5>1. disk[Server][q].time \in Nat /\ v.time \in Nat
          BY <1>1, <3>v, <3>1, Data, SyncAssumption DEF Tree, Entry, Times
        <5>2. Shown(q) = disk[Server][q]
          BY <1>3, <3>4
        <5>3. v.time > 0
          BY <4>2 DEF Proper
        <5>4. disk[Server][q].time < v.time
          BY <4>3, <5>1, <5>3 DEF Nothing
        <5>5. QED
          BY <5>2, <5>4
      <4>5. v \in known[q] /\ v \in Entry
        BY <1>1, <3>v, <3>1, <4>2 DEF Proper, Tree
      <4>6. ShownFiles' = [ShownFiles EXCEPT ![q] = v]
        BY <3>2, <3>4, <4>1 DEF ShownFiles
      <4>7. ServersCopy!Adopt(q, v)
        BY <1>1, <3>4, <4>4, <4>5, <4>6 DEF ServersCopy!Adopt, ShownFiles, Files
      <4>8. QED
        BY <3>4, <4>5, <4>7 DEF ServersCopy!Next, Files
    <3>5. QED
      BY <3>3, <3>4
  <2>6. QED
    BY <2>4, <2>5
<1>6. QED
  BY <1>4, <1>5

\* The rest of the walk moves nothing.
LEMMA MergeSession ==
  ASSUME WholeInv, Rest, SessionStep, ~Answer
  PROVE  UNCHANGED <<ShownFiles, KnownFiles>>
<1>1. UNCHANGED <<disk, known>>
  BY DEF SessionStep, Ask, SendContent, SendTime, TurnAround, Register
<1>2. CASE SendContent \/ SendTime
  <2>1. /\ ses.pc \in {"wanted", "content"} /\ ses'.pc \in {"content", "sent"} /\ ses'.p = ses.p
        /\ UNCHANGED <<stage, holder>>
    <3>1. CASE SendContent
      BY <3>1 DEF SendContent
    <3>2. CASE SendTime
      <4> DEFINE t == OnWire(disk[Asker][ses.p].time)
      <4>1. ses.pc = "content" /\ ses' = [ses EXCEPT !.pc = "sent", !.time = t] /\ UNCHANGED <<stage, holder>>
        BY <3>2 DEF SendTime
      <4>2. ses \in [pc : {"content", "sent"}, p : Paths, val : Vals, time : Times]
        BY <4>1 DEF WholeInv, TypeOK, Session, Quiet
      <4> HIDE DEF t
      <4>3. QED
        BY <4>1, <4>2
    <3>3. QED
      BY <1>2, <3>1, <3>2
  <2>2. Active' = Active /\ Other' = Other
    BY <2>1 DEF Active, Other, Getting
  <2>3. QED
    BY <1>1, <2>1, <2>2, ShownStays DEF Shown
<1>3. CASE ~(SendContent \/ SendTime)
  <2>1. ses.pc = "idle" /\ ses'.pc \in {"idle", "asked"}
    BY <1>3 DEF SessionStep, Ask, TurnAround, Register, Quiet
  <2>2. QED
    BY <1>1, <2>1, ShownStays DEF Shown
<1>4. QED
  BY <1>2, <1>3

\* Whatever a node receives: only the stamp ends the transfer.
LEMMA MergeReceive ==
  ASSUME WholeInv, Rest, NEW n \in Nodes, Receive(n)
  PROVE  UNCHANGED <<ShownFiles, KnownFiles>>
<1>1. UNCHANGED <<stage, holder, known>> /\ Arrived(n)
  BY DEF Receive, Open, Fill, Stamp, MakeDirectory
<1>2. Active' = Active /\ Other' = Other
  BY <1>1 DEF Active, Other, Getting
<1>3. /\ disk \in [Nodes -> Tree] /\ Server \in Nodes
      /\ Arriving(n).p \in Paths /\ (rx[n].open => rx[n].p = Arriving(n).p)
  BY <1>1, ArrivingTyped, Data DEF WholeInv, TypeOK, Opened
<1>4. PICK x : disk' = [disk EXCEPT ![n][Arriving(n).p] = x]
  <2>1. CASE Open(n)
    BY <2>1 DEF Open
  <2>2. CASE Fill(n)
    BY <1>3, <2>2 DEF Fill
  <2>3. CASE Stamp(n)
    <3> DEFINE y == [disk[n][rx[n].p] EXCEPT !.time = Arriving(n).time]
    <3>1. disk' = [disk EXCEPT ![n][rx[n].p] = y]
      BY <2>3 DEF Stamp
    <3>2. rx[n].p = Arriving(n).p
      BY <1>3, <2>3 DEF Stamp
    <3>3. QED
      BY <3>1, <3>2
  <2>4. CASE MakeDirectory(n)
    BY <2>4 DEF MakeDirectory
  <2>5. QED
    BY <2>1, <2>2, <2>3, <2>4 DEF Receive
<1>5. /\ \A k \in Nodes \ {n} : disk'[k] = disk[k]
      /\ \A p \in Paths \ {Arriving(n).p} : disk'[n][p] = disk[n][p]
  BY <1>3, <1>4 DEF Tree
<1>6. CASE n # Server
  <2>1. disk'[Server] = disk[Server]
    BY <1>3, <1>5, <1>6
  <2>2. (Active /\ Other = Server) => ~InSession(n) /\ disk'[holder] = disk[holder] /\ UNCHANGED ses
    <3> SUFFICES ASSUME Active, Other = Server
                 PROVE  ~InSession(n) /\ disk'[holder] = disk[holder] /\ UNCHANGED ses
      OBVIOUS
    <3>1. ~InSession(n)
      BY <1>6 DEF InSession
    <3>2. Asker = holder /\ n # Asker /\ holder \in Nodes
      BY <1>1, Sides, AskerReceivesNot DEF Asker, Other
    <3>3. UNCHANGED ses
      BY <3>1 DEF Receive, Open, Fill, Stamp, MakeDirectory, Done
    <3>4. QED
      BY <1>5, <3>1, <3>2, <3>3
  <2>3. \A p \in Files : Shown(p)' = Shown(p)
    BY <1>1, <1>2, <2>1, <2>2 DEF Shown
  <2>4. QED
    BY <1>1, <2>3, ShownStays
<1>7. CASE n = Server
  <2>1. /\ InSession(n) /\ Active /\ Other = Server /\ ses.pc \in {"content", "sent"}
        /\ Asker = holder /\ holder \in Nodes /\ holder # Server /\ Arriving(n) = ses
    BY <1>1, <1>7, Data, Sides DEF Arrived, FromQueue, InSession, Asker, Other, Arriving
  <2>2. disk'[holder] = disk[holder] /\ \A p \in Paths \ {ses.p} : disk'[Server][p] = disk[Server][p]
    BY <1>5, <1>7, <2>1
  <2>3. CASE Open(n) \/ Fill(n)
    <3>1. UNCHANGED ses
      BY <2>3 DEF Open, Fill
    <3>2. \A p \in Files : Shown(p)' = Shown(p)
      BY <1>1, <1>2, <2>1, <2>2, <3>1 DEF Shown, Files
    <3>3. QED
      BY <1>1, <3>2, ShownStays
  <2>4. CASE Stamp(n) \/ MakeDirectory(n)
    <3>1. ses'.pc = "idle"
      BY <2>1, <2>4 DEF Stamp, MakeDirectory, Done, Quiet
    <3>2. ses.p \in Files => disk'[Server][ses.p] = disk[holder][ses.p]
      <4>1. CASE Stamp(n)
        BY <1>7, <2>1, <4>1, StampCopies
      <4>2. CASE MakeDirectory(n)
        BY <2>1, <4>2, DirectoryApart DEF MakeDirectory
      <4>3. QED
        BY <2>4, <4>1, <4>2
    <3>3. \A p \in Files : Shown(p)' = Shown(p)
      BY <2>1, <2>2, <3>1, <3>2 DEF Shown, Files
    <3>4. QED
      BY <1>1, <3>3, ShownStays
  <2>5. QED
    BY <2>3, <2>4 DEF Receive
<1>8. QED
  BY <1>6, <1>7

\* Programs that start and stop move nothing.
LEMMA MergePrograms ==
  ASSUME WholeInv, Rest, NEW c \in Clients, Join(c) \/ SendQueued(c) \/ KillClient(c)
  PROVE  UNCHANGED <<ShownFiles, KnownFiles>>
<1>1. UNCHANGED <<disk, known>>
  BY DEF Join, SendQueued, KillClient
<1>2. CASE Join(c)
  <2>1. ~Active /\ ses'.pc = "idle"
    BY <1>2 DEF Join, Active, Quiet
  <2>2. QED
    BY <1>1, <2>1, ShownStays DEF Shown
<1>3. CASE SendQueued(c)
  <2>1. UNCHANGED <<stage, holder, ses>>
    BY <1>3 DEF SendQueued
  <2>2. Active' = Active /\ Other' = Other
    BY <2>1 DEF Active, Other, Getting
  <2>3. QED
    BY <1>1, <2>1, <2>2, ShownStays DEF Shown
<1>4. CASE KillClient(c)
  <2>1. holder = None /\ holder' = None
    BY <1>4, SyncAssumption DEF KillClient, WholeInv, Calm, Nodes
  <2>2. ~Active /\ ~Active'
    BY <2>1 DEF Active
  <2>3. QED
    BY <1>1, <2>2, ShownStays DEF Shown
<1>5. QED
  BY <1>2, <1>3, <1>4

LEMMA MergeStep == WholeInv /\ Rest /\ [Next]_vars => [ServersCopy!Next]_<<ShownFiles, KnownFiles>>
<1> SUFFICES ASSUME WholeInv, Rest, [Next]_vars
             PROVE  ServersCopy!Next \/ UNCHANGED <<ShownFiles, KnownFiles>>
  OBVIOUS
<1>1. CASE UNCHANGED vars
  <2>1. UNCHANGED <<disk, stage, holder, ses, known>>
    BY <1>1 DEF vars
  <2>2. Active' = Active /\ Other' = Other
    BY <2>1 DEF Active, Other, Getting
  <2>3. QED
    BY <2>1, <2>2, ShownStays DEF Shown
<1>2. CASE KillServer
  <2>1. holder = None /\ holder' = None /\ UNCHANGED <<disk, known>>
    BY <1>2 DEF KillServer, WholeInv, Calm
  <2>2. ~Active /\ ~Active'
    BY <2>1 DEF Active
  <2>3. QED
    BY <2>1, <2>2, ShownStays DEF Shown
<1>3. QED
  BY <1>1, <1>2, MergeUsers, MergeAnswer, MergeSession, MergeReceive, MergePrograms DEF Next

\* If programs are stopped only when nothing is going on, users keep away from the files
\* of a synchronisation and the clocks from the end of the 32 bits: whatever clients come
\* in whatever order, the server's version of a file is only ever replaced by a newer
\* version that a user wrote (answerIfValid, Dropbox.cpp).
THEOREM ServerGoesForward == Undisturbed /\ Spec => OnlyForward
<1>1. Undisturbed /\ Spec => [](WholeInv /\ Rest)
  BY ForwardInit, ForwardStep, PTL DEF Spec
<1>2. QED
  BY <1>1, MergeInit, MergeStep, PTL DEF Spec, OnlyForward, ServersCopy!Spec, ShownFiles, KnownFiles, Files

-----------------------------------------------------------------------------
(* A client for which nothing is on the way has what the server has. *)

\* Users edit only while their client is off, and a directory is a directory everywhere.
Settled ==
    /\ Undisturbed
    /\ EditsAt \subseteq {"off"}
    /\ \A n \in Nodes : \A tree \in Start[n] : \A p \in Dirs : tree[p] \in {Nothing, Folder}

-----------------------------------------------------------------------------
(* The inductive invariant *)

\* e answers "yes" to a question about f.
Fresh(e, f) == f = Nothing \/ Valid(e, f.time)
Level(e, f) == Fresh(e, f) /\ Fresh(f, e)

\* The server has removed its p and gets it from the client that is synchronised.
Coming(p) == Active /\ Other = Server /\ ses.pc \in {"wanted", "content", "sent"} /\ ses.p = p

\* The entries the walk has been at: first the client has what the server has, and then
\* the server what the client has.
Passed == Active =>
    /\ Getting => \A p \in Paths \ todo : Fresh(disk[holder][p], disk[Server][p])
    /\ ~Getting => \A p \in Paths :
                      /\ Fresh(disk[holder][p], disk[Server][p]) \/ Coming(p)
                      /\ p \notin todo => Fresh(disk[Server][p], disk[holder][p])

\* The last that a client in the list hears of p is what the server has now.
Queued(c, p) == \E i \in 1 .. Len(queue[c]) : queue[c][i] = p
Current == \A c \in Clients : stage[c] = "live" /\ ~Cut(c) =>
    \A p \in Paths :
        \/ Queued(c, p) \/ Coming(p)
        \/ /\ Level(disk[c][p], disk[Server][p]) \/ OnTheWay(c, p, 0)
           /\ \A i \in 1 .. Len(down[c]) :
                 down[c][i].p = p => Level(Entered(down[c][i]), disk[Server][p]) \/ OnTheWay(c, p, i)

\* Where there is a directory somewhere there is no file elsewhere.
Kinded ==
    /\ \A n \in Nodes : \A p \in Dirs :
          (n \in Clients /\ stage[n] = "live" /\ Cut(n)) \/ disk[n][p] \in {Nothing, Folder}
    /\ \A c \in Clients : stage[c] = "live" /\ ~Cut(c) =>
          \A i \in 1 .. Len(down[c]) : down[c][i].p \in Dirs => Entered(down[c][i]) = Folder

Agree == Settled /\ Passed /\ Current /\ Kinded
-----------------------------------------------------------------------------
(* Entries *)

LEMMA EntryTyped ==
  ASSUME WholeInv, NEW n \in Nodes, NEW p \in Paths
  PROVE  disk[n][p] \in Entry /\ disk[n][p].time \in Nat
  BY SyncAssumption DEF WholeInv, TypeOK, Tree, Entry, Times

LEMMA LevelSelf ==
  ASSUME NEW e, e.time \in Nat
  PROVE  Level(e, e)
  BY DEF Level, Fresh, Valid

\* A directory is as good as any other, whatever its time.
LEMMA FolderLevel ==
  ASSUME NEW e, NEW f, e.val = Dir, e.time \in Nat, f.time \in Nat, Level(e, f)
  PROVE  Level(Folder, f)
<1>1. Folder.val = Dir /\ Folder.time = 0 /\ Nothing.val = Absent /\ Absent # Dir
  BY SyncAssumption DEF Folder, Nothing
<1>2. Folder # Nothing /\ e # Nothing
  BY <1>1
<1>3. Fresh(Folder, f)
  BY <1>1, <1>2 DEF Fresh, Valid
<1>4. f # Nothing /\ (f.val = Dir \/ f.time >= e.time)
  BY <1>2 DEF Level, Fresh, Valid
<1>5. Fresh(f, Folder)
  BY <1>1, <1>4 DEF Fresh, Valid
<1>6. QED
  BY <1>3, <1>5 DEF Level

\* The entry a session is about.
LEMMA Asked ==
  ASSUME WholeInv, Rest, Active, ses.pc # "idle"
  PROVE  /\ ses.p \in todo /\ ses.p \in Paths /\ disk[Asker][ses.p] # Nothing
         /\ ses.time = disk[Asker][ses.p].time
         /\ ses.pc \in {"content", "sent"} => ses.val = disk[Asker][ses.p].val
  BY SessionTyped DEF Rest, Walk, Used, WholeInv

\* What is not announced as a directory is no directory.
LEMMA ArrivingKinds ==
  ASSUME WholeInv, Rest, Agree, NEW n \in Nodes, Arrived(n), Arriving(n).val # Dir,
         n \in Clients => stage[n] # "live" \/ ~Cut(n)
  PROVE  Arriving(n).p \notin Dirs
<1> SUFFICES ASSUME Arriving(n).p \in Dirs PROVE FALSE
  OBVIOUS
<1>0. Folder.val = Dir
  BY DEF Folder
<1>1. CASE InSession(n)
  <2>1. Active /\ Arriving(n) = ses /\ ses.pc \in {"content", "sent"}
    BY <1>1 DEF InSession, Arriving
  <2>2. ses.val = disk[Asker][ses.p].val /\ disk[Asker][ses.p] # Nothing
    BY <2>1, Asked
  <2>3. disk[Asker][ses.p] \in {Nothing, Folder}
    BY <2>1, Sides DEF Agree, Kinded
  <2>4. QED
    BY <1>0, <2>1, <2>2, <2>3
<1>2. CASE ~InSession(n)
  <2>1. /\ n \in Clients /\ stage[n] = "live" /\ down[n] # <<>> /\ ~Cut(n)
        /\ Arriving(n) = down[n][1] /\ 1 \in 1 .. Len(down[n])
    <3>1. n \in Clients /\ stage[n] = "live"
      BY <1>2 DEF Arrived, FromQueue
    <3>2. QED
      BY <3>1, ArrivesListed DEF Arrived, FromQueue
  <2>2. Entered(down[n][1]) = Folder
    BY <2>1 DEF Agree, Kinded
  <2>3. down[n][1].val = Dir
    BY <1>0, <2>2 DEF Entered
  <2>4. QED
    BY <2>1, <2>3
<1>3. QED
  BY <1>1, <1>2

LEMMA AgreeInit == Init /\ Settled => Agree
<1> SUFFICES ASSUME Init, Settled PROVE Agree
  OBVIOUS
<1>1. holder = None /\ \A c \in Clients : stage[c] = "off"
  BY DEF Init
<1>2. \A n \in Nodes : \A p \in Dirs : disk[n][p] \in {Nothing, Folder}
  BY DEF Init, Settled
<1>3. QED
  BY <1>1, <1>2 DEF Agree, Passed, Current, Kinded, Active

\* Steps that leave the server, the synchronisation and the list alone.
LEMMA AgreeApart ==
  ASSUME WholeInv, Rest, Agree, UNCHANGED <<stage, holder, todo, queue, down>>,
         \A p \in Paths : Coming(p)' = Coming(p),
         disk'[Server] = disk[Server], Active => disk'[holder] = disk[holder],
         \A c \in Clients : stage[c] = "live" => disk'[c] = disk[c],
         \A n \in Nodes : \A p \in Dirs : disk'[n][p] = disk[n][p]
  PROVE  Agree'
<1>1. Active' = Active /\ Getting' = Getting /\ \A c \in Clients : Cut(c)' = Cut(c)
  BY DEF Active, Getting, Cut
<1>2. Passed'
  BY <1>1 DEF Agree, Passed
<1>3. Current'
  <2> SUFFICES ASSUME NEW c \in Clients, stage[c] = "live", ~Cut(c), NEW p \in Paths,
                      ~Queued(c, p), ~Coming(p)
               PROVE  /\ Level(disk'[c][p], disk'[Server][p]) \/ OnTheWay(c, p, 0)
                      /\ \A i \in 1 .. Len(down[c]) :
                            down[c][i].p = p => Level(Entered(down[c][i]), disk'[Server][p]) \/ OnTheWay(c, p, i)
    BY <1>1 DEF Current, Queued, OnTheWay
  <2>1. QED
    BY DEF Agree, Current
<1>4. Kinded'
  BY <1>1 DEF Agree, Kinded
<1>5. QED
  BY <1>2, <1>3, <1>4 DEF Agree, Settled, Undisturbed, Calm

LEMMA AgreeUsers ==
  ASSUME WholeInv, Rest, Agree, UserStep
  PROVE  Agree'
<1>1. UNCHANGED <<stage, holder, todo, ses, queue, down>> /\ disk \in [Nodes -> Tree]
  BY DEF UserStep, Tick, Save, Remove, WholeInv, TypeOK
<1>2. \A p \in Paths : Coming(p)' = Coming(p)
  BY <1>1 DEF Coming, Active, Other, Getting
<1>3. CASE Tick
  BY <1>1, <1>2, <1>3, AgreeApart DEF Tick
<1>4. ASSUME NEW c \in Clients, NEW q \in Paths, Save(c, q) \/ Remove(c, q)
      PROVE  Agree'
  <2>1. c \in Nodes /\ c # Server /\ (Active => c # holder /\ holder \in Nodes) /\ stage[c] = "off" /\ q \notin Dirs
    BY <1>4, Data, Sides DEF Save, Remove, Agree, Settled
  <2>2. PICK x : disk' = [disk EXCEPT ![c][q] = x]
    BY <1>4 DEF Save, Remove
  <2>3. /\ \A n \in Nodes \ {c} : disk'[n] = disk[n]
        /\ \A n \in Nodes : \A p \in Paths \ {q} : disk'[n][p] = disk[n][p]
    BY <1>1, <2>1, <2>2 DEF Tree
  <2>4. Dirs \subseteq Paths
    BY SyncAssumption
  <2>5. QED
    BY <1>1, <1>2, <2>1, <2>3, <2>4, Data, AgreeApart
<1>5. QED
  BY <1>3, <1>4 DEF UserStep

-----------------------------------------------------------------------------
(* The synchronisation *)

LEMMA AgreeTelling ==
  ASSUME WholeInv, Rest, Agree, NEW p \in Paths, Ask(p) \/ SendContent \/ SendTime
  PROVE  Agree'
<1>1. UNCHANGED <<disk, stage, holder, todo, queue, down>>
  BY DEF Ask, SendContent, SendTime
<1>2. \A q \in Paths : Coming(q)' = Coming(q)
  <2>1. Active' = Active /\ Other' = Other
    BY <1>1 DEF Active, Other, Getting
  <2>2. CASE Ask(p)
    BY <2>2 DEF Ask, Coming, Quiet
  <2>3. CASE SendContent
    BY <2>1, <2>3 DEF SendContent, Coming
  <2>4. CASE SendTime
    <3> DEFINE t == OnWire(disk[Asker][ses.p].time)
    <3>1. ses.pc = "content" /\ ses' = [ses EXCEPT !.pc = "sent", !.time = t]
      BY <2>4 DEF SendTime
    <3>2. ses \in [pc : {"content", "sent"}, p : Paths, val : Vals, time : Times]
      BY <3>1 DEF WholeInv, TypeOK, Session, Quiet
    <3> HIDE DEF t
    <3>3. ses'.pc = "sent" /\ ses'.p = ses.p
      BY <3>1, <3>2
    <3>4. QED
      BY <2>1, <3>1, <3>3 DEF Coming
  <2>5. QED
    BY <2>2, <2>3, <2>4
<1>3. QED
  BY <1>1, <1>2, AgreeApart
\* A "yes" says that the entry is there and not older.
LEMMA AgreeAnswer ==
  ASSUME WholeInv, Rest, Agree, Answer
  PROVE  Agree'
<1>1. /\ Active /\ ses.pc = "asked" /\ UNCHANGED <<stage, holder, queue, down>>
      /\ disk \in [Nodes -> Tree] /\ Dirs \subseteq Paths
      /\ ses \in [pc : {"asked", "wanted"}, p : Paths, time : Times]
  BY SyncAssumption DEF Answer, WholeInv, TypeOK, Session, Quiet
<1>2. /\ Active' /\ Other' = Other /\ Getting' = Getting
      /\ \A c \in Clients : Cut(c)' = Cut(c)
  BY <1>1 DEF Active, Other, Asker, Getting, Cut
<1>3. \A p \in Paths : ~Coming(p)
  BY <1>1 DEF Coming
<1>4. /\ ses.p \in todo /\ ses.p \in Paths /\ disk[Asker][ses.p] # Nothing
      /\ ses.time = disk[Asker][ses.p].time
  BY <1>1, Asked
<1>5. Settled'
  BY DEF Agree, Settled, Undisturbed, Calm
<1>6. CASE Valid(disk[Other][ses.p], ses.time)
  <2>1. ses'.pc = "idle" /\ todo' = todo \ {ses.p} /\ disk' = disk
    BY <1>6 DEF Answer, Quiet
  <2>2. \A p \in Paths : ~Coming(p)'
    BY <2>1 DEF Coming
  <2>3. Fresh(disk[Other][ses.p], disk[Asker][ses.p])
    BY <1>4, <1>6 DEF Fresh
  <2>4. Passed'
    BY <1>1, <1>2, <1>3, <2>1, <2>3 DEF Agree, Passed, Asker, Other
  <2>5. Current' /\ Kinded'
    BY <1>1, <1>2, <1>3, <2>1, <2>2 DEF Agree, Current, Kinded, Queued, OnTheWay
  <2>6. QED
    BY <1>5, <2>4, <2>5 DEF Agree
<1>7. CASE ~Valid(disk[Other][ses.p], ses.time)
  <2>1. disk' = [disk EXCEPT ![Other][ses.p] = Nothing] /\ ses' = [ses EXCEPT !.pc = "wanted"] /\ todo' = todo
    BY <1>7 DEF Answer
  <2>2. ses'.pc = "wanted" /\ ses'.p = ses.p
    BY <1>1, <2>1
  <2>3. /\ \A n \in Nodes \ {Other} : disk'[n] = disk[n]
        /\ disk'[Other][ses.p] = Nothing
        /\ \A p \in Paths \ {ses.p} : disk'[Other][p] = disk[Other][p]
    BY <1>1, <1>4, <2>1, Sides DEF Tree
  <2>4. /\ holder \in Nodes /\ Server \in Nodes /\ holder # Server
        /\ Getting => Other = holder
        /\ ~Getting => Other = Server
    BY <1>1, Data, Sides DEF Other
  <2>5. Getting => \A p \in Paths : ~Coming(p)'
    BY <1>2, <2>4 DEF Coming
  <2>6. ~Getting => \A p \in Paths : Coming(p)' <=> p = ses.p
    BY <1>2, <2>2, <2>4 DEF Coming
  <2>7. Passed'
    <3>1. CASE Getting
      BY <1>1, <1>2, <1>4, <2>1, <2>3, <2>4, <3>1 DEF Agree, Passed
    <3>2. CASE ~Getting
      <4>1. disk'[holder] = disk[holder] /\ Other = Server
        BY <2>3, <2>4, <3>2
      <4>2. \A p \in Paths : Fresh(disk'[holder][p], disk'[Server][p]) \/ Coming(p)'
        BY <1>1, <1>3, <2>3, <2>6, <3>2, <4>1 DEF Agree, Passed
      <4>3. \A p \in Paths : p \notin todo => Fresh(disk'[Server][p], disk'[holder][p])
        BY <1>1, <1>4, <2>3, <3>2, <4>1 DEF Agree, Passed
      <4>4. QED
        BY <1>1, <1>2, <2>1, <3>2, <4>2, <4>3 DEF Passed
    <3>3. QED
      BY <3>1, <3>2
  <2>8. Current'
    <3> SUFFICES ASSUME NEW c \in Clients, stage[c] = "live", ~Cut(c), NEW p \in Paths,
                        ~Queued(c, p), ~Coming(p)'
                 PROVE  /\ Level(disk'[c][p], disk'[Server][p]) \/ OnTheWay(c, p, 0)
                        /\ \A i \in 1 .. Len(down[c]) :
                              down[c][i].p = p => Level(Entered(down[c][i]), disk'[Server][p]) \/ OnTheWay(c, p, i)
      BY <1>1, <1>2 DEF Current, Queued, OnTheWay
    <3>1. disk'[Server][p] = disk[Server][p]
      BY <2>3, <2>4, <2>6
    <3>2. disk'[c] = disk[c]
      BY <1>1, <2>3, Data, Sides
    <3>3. QED
      BY <1>3, <3>1, <3>2 DEF Agree, Current
  <2>9. Kinded'
    <3>1. \A n \in Nodes : \A p \in Paths : disk'[n][p] \in {disk[n][p], Nothing}
      BY <2>3
    <3>2. QED
      BY <1>1, <1>2, <3>1 DEF Agree, Kinded
  <2>10. QED
    BY <1>5, <2>7, <2>8, <2>9 DEF Agree
<1>8. QED
  BY <1>6, <1>7

\* The client has all that the server has; what it has not, the server has not.
LEMMA AgreeTurnAround ==
  ASSUME WholeInv, Rest, Agree, TurnAround
  PROVE  Agree'
<1>1. /\ Getting /\ Active /\ ses.pc = "idle" /\ todo = {} /\ todo' = Used(disk[holder]) /\ ses' = ses
      /\ UNCHANGED <<disk, holder, queue, down>>
      /\ stage' = [stage EXCEPT ![holder] = "give"]
  BY DEF TurnAround, Quiet, Getting
<1>2. holder \in Clients /\ stage \in [Clients -> Stages] /\ stage[holder] = "get" /\ holder # None
  BY <1>1, Sides DEF Active, WholeInv, TypeOK
<1>3. stage'[holder] = "give" /\ \A c \in Clients \ {holder} : stage'[c] = stage[c]
  BY <1>1, <1>2
<1>4. ~Getting' /\ \A p \in Paths : ~Coming(p) /\ ~Coming(p)'
  BY <1>1, <1>3 DEF Getting, Coming
<1>5. Passed'
  <2>1. \A p \in Paths : Fresh(disk[holder][p], disk[Server][p])
    BY <1>1 DEF Agree, Passed
  <2>2. \A p \in Paths : p \notin todo' => Fresh(disk[Server][p], disk[holder][p])
    BY <1>1 DEF Used, Fresh
  <2>3. QED
    BY <1>1, <1>4, <2>1, <2>2 DEF Passed
<1>6. Current'
  BY <1>1, <1>2, <1>3, <1>4 DEF Agree, Current, Queued, OnTheWay, Cut
<1>7. Kinded'
  BY <1>1, <1>2, <1>3 DEF Agree, Kinded, Cut
<1>8. QED
  BY <1>5, <1>6, <1>7 DEF Agree, Settled, Undisturbed, Calm

\* A client comes into the list with what the server has.
LEMMA AgreeRegister ==
  ASSUME WholeInv, Rest, Agree, Register
  PROVE  Agree'
<1>1. /\ Active /\ ~Getting /\ ses.pc = "idle" /\ todo = {} /\ holder' = None
      /\ UNCHANGED <<disk, ses, todo, queue, down>>
      /\ stage' = [stage EXCEPT ![holder] = "live"]
  BY DEF Register, Quiet
<1>2. holder \in Clients /\ stage \in [Clients -> Stages] /\ stage[holder] # "live"
  BY <1>1, Sides DEF WholeInv, TypeOK
<1>3. stage'[holder] = "live" /\ \A c \in Clients \ {holder} : stage'[c] = stage[c]
  BY <1>1, <1>2
<1>4. \A p \in Paths : ~Coming(p) /\ ~Coming(p)'
  BY <1>1 DEF Coming
<1>5. \A p \in Paths : Level(disk[holder][p], disk[Server][p])
  BY <1>1, <1>4 DEF Agree, Passed, Level
<1>6. down[holder] = <<>>
  BY <1>2 DEF WholeInv, Unlisted
<1>7. Passed'
  BY <1>1 DEF Passed, Active
<1>8. Current'
  <2>1. \A c \in Clients : Cut(c)' = Cut(c) /\ \A p : /\ Queued(c, p)' = Queued(c, p)
                                                     /\ \A k : OnTheWay(c, p, k)' = OnTheWay(c, p, k)
    BY <1>1 DEF Cut, Queued, OnTheWay
  <2> SUFFICES ASSUME NEW c \in Clients, stage'[c] = "live", ~Cut(c), NEW p \in Paths, ~Queued(c, p)
               PROVE  /\ Level(disk[c][p], disk[Server][p]) \/ OnTheWay(c, p, 0)
                      /\ \A i \in 1 .. Len(down[c]) :
                            down[c][i].p = p => Level(Entered(down[c][i]), disk[Server][p]) \/ OnTheWay(c, p, i)
    BY <1>1, <2>1 DEF Current
  <2>2. CASE c = holder
    BY <1>5, <1>6, <2>2
  <2>3. CASE c # holder
    BY <1>3, <1>4, <2>3 DEF Agree, Current
  <2>4. QED
    BY <2>2, <2>3
<1>9. Kinded'
  <2>1. \A c \in Clients : Cut(c)' = Cut(c)
    BY <1>1 DEF Cut
  <2>2. \A n \in Nodes : \A p \in Dirs :
           (n \in Clients /\ stage'[n] = "live" /\ Cut(n)) \/ disk[n][p] \in {Nothing, Folder}
    BY <1>3 DEF Agree, Kinded
  <2>3. \A c \in Clients : stage'[c] = "live" /\ ~Cut(c) =>
           \A i \in 1 .. Len(down[c]) : down[c][i].p \in Dirs => Entered(down[c][i]) = Folder
    BY <1>3, <1>6 DEF Agree, Kinded
  <2>4. QED
    BY <1>1, <2>1, <2>2, <2>3 DEF Kinded
<1>10. QED
  BY <1>7, <1>8, <1>9 DEF Agree, Settled, Undisturbed, Calm

-----------------------------------------------------------------------------
(* Programs start and stop *)

LEMMA AgreeJoin ==
  ASSUME WholeInv, Rest, Agree, NEW c \in Clients, Join(c)
  PROVE  Agree'
<1>1. /\ stage[c] = "off" /\ holder = None /\ holder' = c /\ ses'.pc = "idle" /\ todo' = Used(disk[Server])
      /\ UNCHANGED <<disk, queue, down>>
      /\ stage' = [stage EXCEPT ![c] = "get"] /\ stage \in [Clients -> Stages]
  BY DEF Join, Quiet, WholeInv, TypeOK
<1>2. stage'[c] = "get" /\ \A d \in Clients \ {c} : stage'[d] = stage[d]
  BY <1>1
<1>3. \A p \in Paths : ~Coming(p) /\ ~Coming(p)'
  BY <1>1 DEF Coming, Active
<1>4. Passed'
  BY <1>1, <1>2 DEF Passed, Active, Getting, Used, Fresh
<1>5. Current'
  BY <1>1, <1>2, <1>3 DEF Agree, Current, Queued, OnTheWay, Cut
<1>6. Kinded'
  BY <1>1, <1>2 DEF Agree, Kinded, Cut
<1>7. QED
  BY <1>4, <1>5, <1>6 DEF Agree, Settled, Undisturbed, Calm

LEMMA AgreeKills ==
  ASSUME WholeInv, Rest, Agree, KillServer \/ \E c \in Clients : KillClient(c)
  PROVE  Agree'
<1>0. Settled'
  BY DEF Agree, Settled, Undisturbed, Calm
<1>1. holder = None /\ UNCHANGED <<disk, holder>>
  BY SyncAssumption DEF KillServer, KillClient, WholeInv, Calm, Nodes
<1>2. Passed' /\ \A p \in Paths : ~Coming(p) /\ ~Coming(p)'
  BY <1>1 DEF Passed, Coming, Active
<1>3. CASE KillServer
  <2>1. /\ \A c \in Clients : stage'[c] = "off"
        /\ \A c \in Clients : Idle(c) \/ stage[c] = "off"
    BY <1>3 DEF KillServer, WholeInv, Calm
  <2>2. \A c \in Clients : ~(stage[c] = "live" /\ Cut(c))
    BY <2>1 DEF Idle, Cut
  <2>3. Current' /\ Kinded'
    BY <1>1, <2>1, <2>2 DEF Agree, Current, Kinded
  <2>4. QED
    BY <1>0, <1>2, <2>3 DEF Agree
<1>4. ASSUME NEW c \in Clients, KillClient(c)
      PROVE  Agree'
  <2>1. Idle(c) /\ stage'[c] = "off"
        /\ \A d \in Clients \ {c} : stage'[d] = stage[d] /\ queue'[d] = queue[d] /\ down'[d] = down[d]
    BY <1>1, <1>4, SyncAssumption DEF KillClient, WholeInv, TypeOK, Calm, Nodes
  <2>2. ~Cut(c) /\ \A d \in Clients \ {c} : Cut(d)' = Cut(d)
    BY <2>1 DEF Idle, Cut
  <2>3. Current'
    BY <1>1, <1>2, <2>1, <2>2 DEF Agree, Current, Queued, OnTheWay
  <2>4. Kinded'
    BY <1>1, <2>1, <2>2 DEF Agree, Kinded
  <2>5. QED
    BY <1>0, <1>2, <2>3, <2>4 DEF Agree
<1>5. QED
  BY <1>3, <1>4
-----------------------------------------------------------------------------
(* The list of clients *)

\* What is sent is what the server has, and what it has next will be sent after it.
LEMMA AgreeSendQueued ==
  ASSUME WholeInv, Rest, Agree, NEW c \in Clients, SendQueued(c)
  PROVE  Agree'
<1> DEFINE h == Head(queue[c])
           e == disk[Server][h]
           m == [p |-> h, val |-> e.val, time |-> OnWire(e.time)]
           L == Len(down[c])
<1>1. /\ stage[c] = "live" /\ queue[c] # <<>> /\ UNCHANGED <<disk, stage, holder, todo, ses>>
      /\ down' = [down EXCEPT ![c] = Append(down[c], m)]
      /\ queue' = [queue EXCEPT ![c] = IF e = Nothing THEN <<>> ELSE Tail(queue[c])]
  BY DEF SendQueued
<1>2. queue \in [Clients -> Seq(Paths)] /\ down \in [Clients -> Seq(Message)] /\ h \in Paths
  BY <1>1 DEF WholeInv, TypeOK
<1>3. e \in Entry /\ e.time \in Nat
  BY <1>2, Data, EntryTyped
<1>4. OnWire(e.time) = e.time /\ e.time \in Times
  BY <1>3, OnWireSame DEF Rest, Entry
<1>5. m.p = h /\ m.val = e.val /\ Entered(m) = e
  BY <1>3, <1>4 DEF Entered, Entry
<1>6. e = Nothing => m.val = Absent
  BY <1>5 DEF Nothing
<1>7. m \in Message
  BY <1>2, <1>3, <1>4 DEF Message, Entry
<1> HIDE DEF m
<1>8. \A d \in Clients \ {c} : down'[d] = down[d] /\ queue'[d] = queue[d]
  BY <1>1, <1>2
<1>9. down'[c] = Append(down[c], m) /\ queue'[c] = IF e = Nothing THEN <<>> ELSE Tail(queue[c])
  BY <1>1, <1>2
<1>10. /\ Len(down'[c]) = L + 1 /\ L \in Nat
       /\ \A i \in 1 .. L : down'[c][i] = down[c][i]
       /\ down'[c][L + 1] = m
       /\ L + 1 \in 1 .. Len(down'[c])
       /\ \A i \in 1 .. L : i \in 1 .. Len(down'[c])
       /\ \A i \in 1 .. Len(down'[c]) : i = L + 1 \/ i \in 1 .. L
  <2>1. down[c] \in Seq(Message)
    BY <1>2
  <2>2. /\ Len(down'[c]) = L + 1 /\ L \in Nat
        /\ \A i \in 1 .. L : down'[c][i] = down[c][i]
        /\ down'[c][L + 1] = m
    BY <1>7, <1>9, <2>1
  <2>3. QED
    BY <2>2
<1>11. \A p \in Paths : Coming(p)' = Coming(p)
  BY <1>1 DEF Coming, Active, Other, Getting
<1>12. \A d \in Clients \ {c} : Cut(d)' = Cut(d)
  BY <1>8 DEF Cut
<1>13. ~Cut(c)' => ~Cut(c) /\ m.val # Absent
  <2> SUFFICES ASSUME ~Cut(c)' PROVE ~Cut(c) /\ m.val # Absent
    OBVIOUS
  <2>1. \A i \in 1 .. Len(down'[c]) : down'[c][i].val # Absent
    BY DEF Cut
  <2>2. QED
    BY <1>10, <2>1 DEF Cut
<1>14. Passed'
  BY <1>1, <1>11 DEF Agree, Passed, Active, Getting
<1>15. Kinded'
  <2>1. \A n \in Nodes : \A p \in Dirs :
           (n \in Clients /\ stage[n] = "live" /\ Cut(n)') \/ disk[n][p] \in {Nothing, Folder}
    BY <1>12, <1>13 DEF Agree, Kinded
  <2>2. ASSUME NEW d \in Clients, stage[d] = "live", ~Cut(d)', NEW i \in 1 .. Len(down'[d]), down'[d][i].p \in Dirs
        PROVE  Entered(down'[d][i]) = Folder
    <3>1. CASE d # c
      BY <1>8, <1>12, <2>2, <3>1 DEF Agree, Kinded
    <3>2. CASE d = c /\ i \in 1 .. L
      BY <1>10, <1>13, <2>2, <3>2 DEF Agree, Kinded
    <3>3. CASE d = c /\ i = L + 1
      <4>1. down'[d][i] = m /\ h \in Dirs /\ e # Nothing
        BY <1>5, <1>6, <1>10, <1>13, <2>2, <3>3
      <4>2. e \in {Nothing, Folder}
        BY <4>1, Data DEF Agree, Kinded
      <4>3. QED
        BY <1>5, <4>1, <4>2
    <3>4. QED
      BY <1>10, <3>1, <3>2, <3>3
  <2>3. QED
    BY <1>1, <2>1, <2>2 DEF Kinded
<1>16. Current'
  <2> SUFFICES ASSUME NEW d \in Clients, stage[d] = "live", ~Cut(d)', NEW q \in Paths,
                      ~Queued(d, q)', ~Coming(q)
               PROVE  /\ Level(disk[d][q], disk[Server][q]) \/ OnTheWay(d, q, 0)'
                      /\ \A i \in 1 .. Len(down'[d]) :
                            down'[d][i].p = q => Level(Entered(down'[d][i]), disk[Server][q]) \/ OnTheWay(d, q, i)'
    BY <1>1, <1>11 DEF Current
  <2>1. CASE d # c
    <3>1. down'[d] = down[d] /\ queue'[d] = queue[d]
      BY <1>8, <2>1
    <3>2. /\ Cut(d)' = Cut(d) /\ Queued(d, q)' = Queued(d, q)
          /\ \A k : OnTheWay(d, q, k)' = OnTheWay(d, q, k)
      BY <3>1 DEF Cut, Queued, OnTheWay
    <3>3. QED
      BY <3>1, <3>2 DEF Agree, Current
  <2>2. CASE d = c
    <3>1. ~Cut(c) /\ m.val # Absent
      BY <1>13, <2>2
    <3>2. queue'[c] = Tail(queue[c])
      BY <1>6, <1>9, <3>1
    <3>3. CASE q = h
      <4>1. Level(Entered(m), disk[Server][q])
        BY <1>3, <1>5, <3>3, LevelSelf
      <4>2. \A k \in 0 .. L : OnTheWay(c, q, k)'
        BY <1>5, <1>10, <3>3 DEF OnTheWay
      <4>3. QED
        BY <1>10, <2>2, <4>1, <4>2
    <3>4. CASE q # h
      <4>1. ~Queued(c, q)
        <5>1. \A i \in 1 .. Len(queue[c]) : i = 1 \/ (i - 1 \in 1 .. Len(queue'[c]) /\ queue'[c][i - 1] = queue[c][i])
          <6>1. queue[c] \in Seq(Paths) /\ queue[c] # <<>>
            BY <1>1, <1>2
          <6>2. QED
            BY <3>2, <6>1, TailAt
        <5>2. queue[c][1] = h
          BY <1>1, <1>2
        <5>3. QED
          BY <2>2, <3>4, <5>1, <5>2 DEF Queued
      <4>2. /\ Level(disk[c][q], disk[Server][q]) \/ OnTheWay(c, q, 0)
            /\ \A i \in 1 .. L : down[c][i].p = q =>
                  Level(Entered(down[c][i]), disk[Server][q]) \/ OnTheWay(c, q, i)
        BY <1>1, <3>1, <4>1 DEF Agree, Current
      <4>3. \A k \in 0 .. L : OnTheWay(c, q, k) => OnTheWay(c, q, k)'
        BY <1>10 DEF OnTheWay
      <4>4. ASSUME NEW i \in 1 .. Len(down'[c]), down'[c][i].p = q
            PROVE  Level(Entered(down'[c][i]), disk[Server][q]) \/ OnTheWay(c, q, i)'
        <5>1. i # L + 1
          BY <1>5, <1>10, <3>4, <4>4
        <5>2. i \in 1 .. L /\ i \in 0 .. L /\ down'[c][i] = down[c][i]
          BY <1>10, <5>1
        <5>3. QED
          BY <4>2, <4>3, <4>4, <5>2
      <4>5. QED
        BY <1>10, <2>2, <4>2, <4>3, <4>4
    <3>5. QED
      BY <3>3, <3>4
  <2>3. QED
    BY <2>1, <2>2
<1>17. QED
  BY <1>14, <1>15, <1>16 DEF Agree, Settled, Undisturbed, Calm

-----------------------------------------------------------------------------
(* Files are received *)

\* While a file is written, its node is still to hear of it.
LEMMA AgreeWriting ==
  ASSUME WholeInv, Rest, Agree, UNCHANGED <<stage, holder, todo, ses, queue, down>>, NEW n \in Nodes,
         Arrived(n), Arriving(n).val # Dir,
         \A k \in Nodes \ {n} : disk'[k] = disk[k],
         \A q \in Paths \ {Arriving(n).p} : disk'[n][q] = disk[n][q]
  PROVE  Agree'
<1>1. /\ Active' = Active /\ Getting' = Getting /\ \A c \in Clients : Cut(c)' = Cut(c)
      /\ \A p \in Paths : Coming(p)' = Coming(p)
  BY DEF Active, Getting, Cut, Coming, Other
<1>2. /\ Active => holder \in Clients /\ holder \in Nodes /\ holder # Server
      /\ Server \in Nodes /\ Server \notin Clients /\ Clients \subseteq Nodes /\ Dirs \subseteq Paths
  BY Data, Sides, SyncAssumption
<1>3. InSession(n) => /\ Active /\ n = Other /\ Arriving(n).p = ses.p /\ ses.p \in todo /\ ses.p \in Paths
                      /\ ses.pc \in {"content", "sent"} /\ (n \in Clients => stage[n] # "live")
  BY Asked, ListedApart DEF InSession, Arriving, WholeInv
<1>4. InSession(n) /\ n = Server => Coming(ses.p)
  BY <1>3 DEF Coming
<1>5. ~InSession(n) => n \in Clients /\ stage[n] = "live" /\ n # Server /\ (Active => n # holder)
  BY <1>2, Sides DEF Arrived, FromQueue
<1>6. Passed'
  <2> SUFFICES ASSUME Active
               PROVE  /\ Getting => \A p \in Paths \ todo : Fresh(disk'[holder][p], disk'[Server][p])
                      /\ ~Getting => \A p \in Paths :
                            /\ Fresh(disk'[holder][p], disk'[Server][p]) \/ Coming(p)
                            /\ p \notin todo => Fresh(disk'[Server][p], disk'[holder][p])
    BY <1>1 DEF Passed
  <2>1. CASE ~InSession(n)
    BY <1>2, <1>5, <2>1 DEF Agree, Passed
  <2>2. CASE InSession(n) /\ Getting
    <3>1. n = holder /\ disk'[Server] = disk[Server]
      BY <1>2, <1>3, <2>2 DEF Other
    <3>2. \A p \in Paths \ todo : disk'[holder][p] = disk[holder][p]
      BY <1>3, <2>2, <3>1
    <3>3. QED
      BY <2>2, <3>1, <3>2 DEF Agree, Passed
  <2>3. CASE InSession(n) /\ ~Getting
    <3>1. n = Server /\ disk'[holder] = disk[holder] /\ Coming(ses.p)
      BY <1>2, <1>3, <1>4, <2>3 DEF Other
    <3>2. \A p \in Paths \ {ses.p} : disk'[Server][p] = disk[Server][p]
      BY <1>3, <2>3, <3>1
    <3>3. QED
      BY <1>3, <2>3, <3>1, <3>2 DEF Agree, Passed
  <2>4. QED
    BY <2>1, <2>2, <2>3
<1>7. Current'
  <2> SUFFICES ASSUME NEW c \in Clients, stage[c] = "live", ~Cut(c), NEW p \in Paths,
                      ~Queued(c, p), ~Coming(p)
               PROVE  /\ Level(disk'[c][p], disk'[Server][p]) \/ OnTheWay(c, p, 0)
                      /\ \A i \in 1 .. Len(down[c]) :
                            down[c][i].p = p => Level(Entered(down[c][i]), disk'[Server][p]) \/ OnTheWay(c, p, i)
    BY <1>1 DEF Current, Queued, OnTheWay
  <2>1. disk'[Server][p] = disk[Server][p]
    BY <1>2, <1>3, <1>4, <1>5
  <2>2. /\ Level(disk[c][p], disk[Server][p]) \/ OnTheWay(c, p, 0)
        /\ \A i \in 1 .. Len(down[c]) :
              down[c][i].p = p => Level(Entered(down[c][i]), disk[Server][p]) \/ OnTheWay(c, p, i)
    BY DEF Agree, Current
  <2>3. CASE c = n /\ p = Arriving(n).p
    <3>1. Arriving(n) = down[c][1] /\ Len(down[c]) \in Nat /\ Len(down[c]) > 0
      BY <2>3, ArrivesListed
    <3>2. OnTheWay(c, p, 0)
      BY <2>3, <3>1 DEF OnTheWay
    <3>3. QED
      BY <2>1, <2>2, <3>2
  <2>4. CASE ~(c = n /\ p = Arriving(n).p)
    BY <1>2, <2>1, <2>2, <2>4
  <2>5. QED
    BY <2>3, <2>4
<1>8. Kinded'
  <2>1. ASSUME NEW k \in Nodes, NEW p \in Dirs, ~(k \in Clients /\ stage[k] = "live" /\ Cut(k))
        PROVE  disk'[k][p] = disk[k][p]
    <3>1. CASE k # n
      BY <3>1
    <3>2. CASE k = n
      BY <1>2, <2>1, <3>2, ArrivingKinds
    <3>3. QED
      BY <3>1, <3>2
  <2>2. QED
    BY <1>1, <2>1 DEF Agree, Kinded
<1>9. QED
  BY <1>6, <1>7, <1>8 DEF Agree, Settled, Undisturbed, Calm

LEMMA AgreeOpenFill ==
  ASSUME WholeInv, Rest, Agree, NEW n \in Nodes, Open(n) \/ Fill(n)
  PROVE  Agree'
<1>1. /\ Arrived(n) /\ Arriving(n).val # Dir /\ UNCHANGED <<stage, holder, todo, ses, queue, down>>
      /\ rx[n].open => rx[n].p = Arriving(n).p
  BY DEF Open, Fill, WholeInv, Opened
<1>2. Arriving(n).p \in Paths /\ disk \in [Nodes -> Tree]
  BY <1>1, ArrivingTyped DEF WholeInv, TypeOK
<1>3. PICK x : disk' = [disk EXCEPT ![n][Arriving(n).p] = x]
  BY <1>1 DEF Open, Fill
<1>4. /\ \A k \in Nodes \ {n} : disk'[k] = disk[k]
      /\ \A q \in Paths \ {Arriving(n).p} : disk'[n][q] = disk[n][q]
  BY <1>2, <1>3 DEF Tree
<1>5. QED
  BY <1>1, <1>4, AgreeWriting
\* The end of a receive procedure in a synchronisation: both sides have the entry.
LEMMA AgreeDoneWalk ==
  ASSUME WholeInv, Rest, Agree, NEW n \in Nodes, InSession(n), Done(n), UNCHANGED <<stage, holder>>,
         \A k \in Nodes \ {n} : disk'[k] = disk[k],
         \A q \in Paths \ {ses.p} : disk'[n][q] = disk[n][q],
         Level(disk'[n][ses.p], disk[Asker][ses.p]),
         ses.p \in Dirs => disk'[n][ses.p] = Folder
  PROVE  Agree'
<1>1. /\ ses'.pc = "idle" /\ todo' = todo \ {ses.p} /\ UNCHANGED down
      /\ queue' = IF n = Server THEN Broadcast(ses.p) ELSE queue
      /\ n \in Clients => stage[n] # "live"
      /\ Active /\ n = Other /\ ses.p \in Paths
      /\ queue \in [Clients -> Seq(Paths)]
  BY ListedApart, SessionTyped DEF Done, WholeInv, TypeOK, InSession, Quiet
<1>2. /\ Active' /\ Getting' = Getting
      /\ \A c \in Clients : Cut(c)' = Cut(c)
      /\ \A p \in Paths : ~Coming(p)'
  BY <1>1 DEF Active, Getting, Cut, Coming
<1>3. /\ holder \in Clients /\ holder \in Nodes /\ holder # Server
      /\ Server \in Nodes /\ Server \notin Clients /\ Clients \subseteq Nodes /\ Dirs \subseteq Paths
  BY <1>1, Data, Sides, SyncAssumption
<1>4. Passed'
  <2>1. CASE Getting
    <3>1. n = holder /\ Asker = Server /\ disk'[Server] = disk[Server]
      BY <1>1, <1>3, <2>1 DEF Other, Asker
    <3>2. \A p \in Paths \ todo' : Fresh(disk'[holder][p], disk'[Server][p])
      BY <1>1, <2>1, <3>1 DEF Agree, Passed, Level
    <3>3. QED
      BY <1>2, <2>1, <3>2 DEF Passed
  <2>2. CASE ~Getting
    <3>1. n = Server /\ Asker = holder /\ disk'[holder] = disk[holder]
      BY <1>1, <1>3, <2>2 DEF Other, Asker
    <3>2. \A p \in Paths \ {ses.p} : ~Coming(p)
      BY DEF Coming
    <3>3. \A p \in Paths : /\ Fresh(disk'[holder][p], disk'[Server][p])
                           /\ p \notin todo' => Fresh(disk'[Server][p], disk'[holder][p])
      BY <1>1, <2>2, <3>1, <3>2 DEF Agree, Passed, Level
    <3>4. QED
      BY <1>2, <2>2, <3>3 DEF Passed
  <2>3. QED
    BY <2>1, <2>2
<1>5. Current'
  <2> SUFFICES ASSUME NEW c \in Clients, stage[c] = "live", ~Cut(c), NEW p \in Paths, ~Queued(c, p)'
               PROVE  /\ Level(disk'[c][p], disk'[Server][p]) \/ OnTheWay(c, p, 0)
                      /\ \A i \in 1 .. Len(down[c]) :
                            down[c][i].p = p => Level(Entered(down[c][i]), disk'[Server][p]) \/ OnTheWay(c, p, i)
    BY <1>1, <1>2 DEF Current, OnTheWay
  <2>1. c # n /\ disk'[c] = disk[c]
    BY <1>1, <1>3
  <2>2. CASE n = Server
    <3>1. queue'[c] = Append(queue[c], ses.p)
      BY <1>1, <2>2 DEF Broadcast
    <3>2. ses.p \in Paths /\ queue[c] \in Seq(Paths)
      BY <1>1
    <3>3. /\ Len(queue[c]) \in Nat /\ Len(queue'[c]) = Len(queue[c]) + 1
          /\ \A i \in 1 .. Len(queue[c]) : queue'[c][i] = queue[c][i]
          /\ queue'[c][Len(queue[c]) + 1] = ses.p
      BY <3>1, <3>2
    <3>4. p # ses.p /\ ~Queued(c, p)
      BY <3>3 DEF Queued
    <3>5. ~Coming(p) /\ disk'[Server][p] = disk[Server][p]
      BY <2>2, <3>4 DEF Coming
    <3>6. QED
      BY <2>1, <3>4, <3>5 DEF Agree, Current
  <2>3. CASE n # Server
    <3>1. ~Queued(c, p) /\ ~Coming(p) /\ disk'[Server] = disk[Server]
      BY <1>1, <1>3, <2>3 DEF Queued, Coming
    <3>2. QED
      BY <2>1, <3>1 DEF Agree, Current
  <2>4. QED
    BY <2>2, <2>3
<1>6. Kinded'
  <2>1. \A k \in Nodes : \A p \in Dirs : disk'[k][p] \in {disk[k][p], Folder}
    BY <1>3
  <2>2. QED
    BY <1>1, <1>2, <2>1 DEF Agree, Kinded
<1>7. QED
  BY <1>4, <1>5, <1>6 DEF Agree, Settled, Undisturbed, Calm

\* The end of a receive procedure at a client in the list: it has what it was sent.
LEMMA AgreeDoneListed ==
  ASSUME WholeInv, Rest, Agree, NEW n \in Nodes, Arrived(n), ~InSession(n), Done(n),
         UNCHANGED <<stage, holder>>, Arriving(n).val # Absent,
         \A k \in Nodes \ {n} : disk'[k] = disk[k],
         \A q \in Paths \ {Arriving(n).p} : disk'[n][q] = disk[n][q],
         \A q \in Paths : Level(Entered(Arriving(n)), disk[Server][q]) =>
                             Level(disk'[n][Arriving(n).p], disk[Server][q]),
         ~Cut(n) /\ Arriving(n).p \in Dirs => disk'[n][Arriving(n).p] = Folder
  PROVE  Agree'
<1>0. /\ down \in [Clients -> Seq(Message)] /\ Dirs \subseteq Paths
      /\ Clients \subseteq Nodes /\ Server \in Nodes /\ Server \notin Clients
  BY Data, SyncAssumption DEF WholeInv, TypeOK
<1>1. /\ n \in Clients /\ stage[n] = "live" /\ down[n] # <<>> /\ n # Server /\ Arriving(n) = Head(down[n])
      /\ Active => n # holder /\ holder \in Nodes
  BY <1>0, Sides DEF Arrived, FromQueue, Arriving
<1>2. /\ UNCHANGED <<ses, todo, queue>> /\ down'[n] = Tail(down[n])
      /\ \A d \in Clients \ {n} : down'[d] = down[d]
      /\ disk'[Server] = disk[Server] /\ (Active => disk'[holder] = disk[holder])
  BY <1>0, <1>1 DEF Done
<1>3. /\ Active' = Active /\ Getting' = Getting
      /\ \A p \in Paths : Coming(p)' = Coming(p)
      /\ \A p \in Paths : \A c \in Clients : Queued(c, p)' = Queued(c, p)
      /\ \A d \in Clients \ {n} : Cut(d)' = Cut(d)
  BY <1>2 DEF Active, Getting, Coming, Other, Queued, Cut
<1> DEFINE s == down[n]
           t == down'[n]
<1>4. s \in Seq(Message) /\ s # <<>> /\ t = Tail(s)
  BY <1>0, <1>1, <1>2
<1>5. /\ s[1] = Arriving(n) /\ Len(s) \in Nat /\ Len(t) = Len(s) - 1 /\ 1 \in 1 .. Len(s)
      /\ \A i \in 1 .. Len(t) : i + 1 \in 1 .. Len(s) /\ t[i] = s[i + 1]
      /\ \A i \in 1 .. Len(s) : i = 1 \/ (i - 1 \in 1 .. Len(t) /\ t[i - 1] = s[i])
  BY <1>1, <1>4, TailAt
<1>6. ~Cut(n)' => ~Cut(n)
  <2> SUFFICES ASSUME ~Cut(n)' PROVE ~Cut(n)
    OBVIOUS
  <2>1. \A i \in 1 .. Len(t) : t[i].val # Absent
    BY DEF Cut
  <2>2. ASSUME NEW i \in 1 .. Len(s) PROVE s[i].val # Absent
    <3>1. CASE i = 1
      BY <1>5, <3>1
    <3>2. CASE i # 1
      BY <1>5, <2>1, <3>2
    <3>3. QED
      BY <3>1, <3>2
  <2>3. QED
    BY <2>2 DEF Cut
<1>7. Passed'
  BY <1>2, <1>3 DEF Agree, Passed
<1>8. Kinded'
  <2>1. ASSUME NEW k \in Nodes, NEW p \in Dirs, ~(k \in Clients /\ stage[k] = "live" /\ Cut(k)')
        PROVE  disk'[k][p] \in {Nothing, Folder}
    <3>1. CASE k # n
      BY <1>3, <2>1, <3>1 DEF Agree, Kinded
    <3>2. CASE k = n
      <4>1. ~Cut(n)
        BY <1>1, <1>6, <2>1, <3>2
      <4>2. disk[n][p] \in {Nothing, Folder}
        BY <4>1 DEF Agree, Kinded
      <4>3. QED
        BY <1>0, <3>2, <4>1, <4>2
    <3>3. QED
      BY <3>1, <3>2
  <2>2. ASSUME NEW c \in Clients, stage[c] = "live", ~Cut(c)', NEW i \in 1 .. Len(down'[c]), down'[c][i].p \in Dirs
        PROVE  Entered(down'[c][i]) = Folder
    <3>1. CASE c # n
      BY <1>2, <1>3, <2>2, <3>1 DEF Agree, Kinded
    <3>2. CASE c = n
      BY <1>5, <1>6, <2>2, <3>2 DEF Agree, Kinded
    <3>3. QED
      BY <3>1, <3>2
  <2>3. QED
    BY <2>1, <2>2 DEF Kinded
<1>9. Current'
  <2> SUFFICES ASSUME NEW c \in Clients, stage[c] = "live", ~Cut(c)', NEW p \in Paths,
                      ~Queued(c, p), ~Coming(p)
               PROVE  /\ Level(disk'[c][p], disk[Server][p]) \/ OnTheWay(c, p, 0)'
                      /\ \A i \in 1 .. Len(down'[c]) :
                            down'[c][i].p = p => Level(Entered(down'[c][i]), disk[Server][p]) \/ OnTheWay(c, p, i)'
    BY <1>2, <1>3 DEF Current
  <2>1. CASE c # n
    <3>1. down'[c] = down[c] /\ disk'[c] = disk[c] /\ ~Cut(c) /\ \A k : OnTheWay(c, p, k)' = OnTheWay(c, p, k)
      BY <1>0, <1>2, <1>3, <2>1 DEF OnTheWay
    <3>2. QED
      BY <3>1 DEF Agree, Current
  <2>2. CASE c = n
    <3>1. /\ Level(disk[n][p], disk[Server][p]) \/ OnTheWay(n, p, 0)
          /\ \A i \in 1 .. Len(s) : s[i].p = p => Level(Entered(s[i]), disk[Server][p]) \/ OnTheWay(n, p, i)
      BY <1>1, <1>6, <2>2 DEF Agree, Current
    <3>2. ASSUME NEW k \in Nat, OnTheWay(n, p, k + 1)
          PROVE  OnTheWay(n, p, k)'
      <4>1. PICK j \in 1 .. Len(s) : j > k + 1 /\ s[j].p = p
        BY <3>2 DEF OnTheWay
      <4>2. j - 1 \in 1 .. Len(t) /\ t[j - 1] = s[j] /\ j - 1 > k
        BY <1>5, <4>1
      <4>3. QED
        BY <4>1, <4>2 DEF OnTheWay
    <3>3. ASSUME ~Level(disk'[n][p], disk[Server][p])
          PROVE  OnTheWay(n, p, 0)'
      <4>1. OnTheWay(n, p, 1)
        <5>1. CASE p = Arriving(n).p
          <6>1. ~Level(Entered(Arriving(n)), disk[Server][p])
            BY <3>3, <5>1
          <6>2. QED
            BY <1>5, <3>1, <5>1, <6>1
        <5>2. CASE p # Arriving(n).p
          <6>1. OnTheWay(n, p, 0)
            BY <3>1, <3>3, <5>2
          <6>2. QED
            BY <1>5, <5>2, <6>1 DEF OnTheWay
        <5>3. QED
          BY <5>1, <5>2
      <4>2. QED
        BY <3>2, <4>1
    <3>4. ASSUME NEW i \in 1 .. Len(t), t[i].p = p, ~Level(Entered(t[i]), disk[Server][p])
          PROVE  OnTheWay(n, p, i)'
      <4> DEFINE k == i + 1
      <4>0. i + 1 \in 1 .. Len(s) /\ t[i] = s[i + 1]
        BY <1>5
      <4>1. k \in 1 .. Len(s) /\ s[k] = t[i] /\ i \in Nat
        BY <4>0
      <4> HIDE DEF k
      <4>2. s[k].p = p /\ ~Level(Entered(s[k]), disk[Server][p])
        BY <3>4, <4>1
      <4>3. OnTheWay(n, p, k)
        BY <3>1, <4>1, <4>2
      <4>4. QED
        BY <3>2, <4>1, <4>3 DEF k
    <3>5. QED
      BY <2>2, <3>3, <3>4
  <2>3. QED
    BY <2>1, <2>2
<1>10. QED
  BY <1>7, <1>8, <1>9 DEF Agree, Settled, Undisturbed, Calm

LEMMA AgreeStamp ==
  ASSUME WholeInv, Rest, Agree, NEW n \in Nodes, Stamp(n)
  PROVE  Agree'
<1> DEFINE p == rx[n].p
           t == Arriving(n).time
<1>1. /\ Arrived(n) /\ rx[n].open /\ rx[n].full /\ Done(n) /\ UNCHANGED <<stage, holder>>
      /\ disk' = [disk EXCEPT ![n][p] = [disk[n][p] EXCEPT !.time = t]]
      /\ p = Arriving(n).p /\ Arriving(n).val # Absent /\ Arriving(n).val # Dir
  BY DEF Stamp, WholeInv, Opened
<1>2. p \in Paths /\ disk \in [Nodes -> Tree] /\ disk[n][p] \in Entry
  BY <1>1, ArrivingTyped DEF WholeInv, TypeOK, Tree
<1> HIDE DEF p, t
<1>3. /\ \A k \in Nodes \ {n} : disk'[k] = disk[k]
      /\ \A q \in Paths \ {p} : disk'[n][q] = disk[n][q]
      /\ disk'[n][p] = [disk[n][p] EXCEPT !.time = t]
  BY <1>1, <1>2 DEF Tree
<1>4. CASE InSession(n)
  <2>1. Arriving(n) = ses /\ p = ses.p /\ Active
    BY <1>1, <1>4 DEF Arriving, InSession
  <2>2. disk'[n][ses.p] = disk[Asker][ses.p]
    BY <1>4, StampCopies
  <2>3. Level(disk'[n][ses.p], disk[Asker][ses.p])
    BY <1>2, <2>1, <2>2, Sides, EntryTyped, LevelSelf
  <2>4. ses.p \notin Dirs
    BY <1>1, <1>4, <2>1, ListedApart, ArrivingKinds DEF WholeInv
  <2>5. QED
    BY <1>1, <1>3, <1>4, <2>1, <2>3, <2>4, AgreeDoneWalk
<1>5. CASE ~InSession(n)
  <2>1. disk'[n][p] = Entered(Arriving(n))
    <3>1. disk[n][p].val = Arriving(n).val
      BY <1>1, <1>5 DEF WholeInv, Filled, Arrived, Arriving, FromQueue, p
    <3>2. [disk[n][p] EXCEPT !.time = t] = [val |-> disk[n][p].val, time |-> t]
      BY <1>2 DEF Entry
    <3>3. QED
      BY <1>3, <3>1, <3>2 DEF Entered, t
  <2>2. ~Cut(n) => p \notin Dirs
    BY <1>1, ArrivingKinds
  <2>3. QED
    BY <1>1, <1>3, <1>5, <2>1, <2>2, AgreeDoneListed
<1>6. QED
  BY <1>4, <1>5

LEMMA AgreeMakeDirectory ==
  ASSUME WholeInv, Rest, Agree, NEW n \in Nodes, MakeDirectory(n)
  PROVE  Agree'
<1> DEFINE p == Arriving(n).p
<1>1. /\ Arrived(n) /\ Done(n) /\ UNCHANGED <<stage, holder>>
      /\ disk' = [disk EXCEPT ![n][p] = Folder] /\ Arriving(n).val = Dir
  BY DEF MakeDirectory
<1>2. /\ p \in Paths /\ disk \in [Nodes -> Tree] /\ Dir # Absent /\ Arriving(n).time \in Nat
  BY <1>1, ArrivingTyped, SyncAssumption DEF WholeInv, TypeOK, Times
<1>3. /\ \A k \in Nodes \ {n} : disk'[k] = disk[k]
      /\ \A q \in Paths \ {p} : disk'[n][q] = disk[n][q]
      /\ disk'[n][p] = Folder
  BY <1>1, <1>2 DEF Tree
<1>4. CASE InSession(n)
  <2>1. Arriving(n) = ses /\ Active /\ ses.pc \in {"content", "sent"}
    BY <1>4 DEF Arriving, InSession
  <2>2. disk[Asker][ses.p].val = Dir /\ disk[Asker][ses.p].time \in Nat
    BY <1>1, <1>2, <2>1, Asked, Sides, EntryTyped
  <2>3. Level(Folder, disk[Asker][ses.p])
    BY <2>2, LevelSelf, FolderLevel
  <2>4. QED
    BY <1>1, <1>3, <1>4, <2>1, <2>3, AgreeDoneWalk
<1>5. CASE ~InSession(n)
  <2>1. ASSUME NEW q \in Paths, Level(Entered(Arriving(n)), disk[Server][q])
        PROVE  Level(Folder, disk[Server][q])
    <3>1. Entered(Arriving(n)).val = Dir /\ Entered(Arriving(n)).time \in Nat
      BY <1>1, <1>2 DEF Entered
    <3>2. disk[Server][q].time \in Nat
      BY Data, EntryTyped
    <3>3. QED
      BY <2>1, <3>1, <3>2, FolderLevel
  <2>2. QED
    BY <1>1, <1>2, <1>3, <1>5, <2>1, AgreeDoneListed
<1>6. QED
  BY <1>4, <1>5

-----------------------------------------------------------------------------

LEMMA AgreeStep == WholeInv /\ Rest /\ Agree /\ [Next]_vars => Agree'
<1> SUFFICES ASSUME WholeInv, Rest, Agree, [Next]_vars PROVE Agree'
  OBVIOUS
<1>1. CASE UNCHANGED vars
  <2>1. UNCHANGED <<disk, stage, holder, todo, ses, queue, down>>
    BY <1>1 DEF vars
  <2>2. \A p \in Paths : Coming(p)' = Coming(p)
    BY <2>1 DEF Coming, Active, Other, Getting
  <2>3. QED
    BY <2>1, <2>2, AgreeApart
<1>2. CASE SessionStep
  BY <1>2, AgreeTelling, AgreeAnswer, AgreeTurnAround, AgreeRegister, Asked
  DEF SessionStep, SendContent, SendTime
<1>3. QED
  BY <1>1, <1>2, AgreeUsers, AgreeJoin, AgreeKills, AgreeSendQueued, AgreeOpenFill, AgreeStamp, AgreeMakeDirectory
  DEF Next, Receive

\* What is level is the same, but for the author of a file.
LEMMA LevelSame ==
  ASSUME NEW e \in Entry, NEW f \in Entry, Level(e, f),
         \/ e \in {Nothing, Folder} /\ f \in {Nothing, Folder}
         \/ \E vs, ws : Proper(e, vs) /\ Proper(f, ws)
  PROVE  e.time = f.time /\ (e.val = f.val \/ {e.val, f.val} \subseteq Written) /\ f.val # Torn
<1>0. /\ e.time \in Nat /\ f.time \in Nat /\ Nothing # Folder /\ Nothing.val # Torn /\ Folder.val # Torn
      /\ Nothing.time = 0 /\ Folder.time = 0 /\ Dir \notin Written /\ Torn \notin Written
  BY SyncAssumption DEF Entry, Times, Nothing, Folder
<1>1. CASE e \in {Nothing, Folder} /\ f \in {Nothing, Folder}
  BY <1>0, <1>1 DEF Level, Fresh, Valid
<1>2. CASE \E vs, ws : Proper(e, vs) /\ Proper(f, ws)
  BY <1>0, <1>2 DEF Level, Fresh, Valid, Proper
<1>3. QED
  BY <1>1, <1>2

LEMMA AgreeSame == WholeInv /\ Rest /\ Agree => SameVersions
<1> SUFFICES ASSUME WholeInv, Rest, Agree, NEW c \in Clients, Idle(c), holder = None, NEW p \in Paths
             PROVE  LET mine == disk[c][p]
                        its == disk[Server][p]
                    IN  /\ mine.time = its.time
                        /\ mine.val = its.val \/ {mine.val, its.val} \subseteq Written
                        /\ its.val # Torn
  BY DEF SameVersions
<1>1. c \in Nodes /\ Server \in Nodes /\ Server \notin Clients
  BY Data
<1>2. ~Cut(c) /\ ~Queued(c, p) /\ ~Coming(p) /\ ~OnTheWay(c, p, 0) /\ stage[c] = "live"
  BY DEF Idle, Cut, Queued, Coming, Active, OnTheWay
<1>3. Level(disk[c][p], disk[Server][p])
  BY <1>2 DEF Agree, Current
<1>4. CASE p \in Dirs
  <2>1. disk[c][p] \in {Nothing, Folder} /\ disk[Server][p] \in {Nothing, Folder}
    BY <1>1, <1>2, <1>4 DEF Agree, Kinded
  <2>2. QED
    BY <1>1, <1>3, <2>1, EntryTyped, LevelSame
<1>5. CASE p \notin Dirs
  <2>1. p \in Files /\ ~rx[Server].open
    BY <1>1, <1>5, NotYetOpen DEF Files
  <2>2. Proper(disk[c][p], known[p]) /\ Proper(disk[Server][p], known[p])
    BY <1>1, <2>1, IdleProper, OwnProper
  <2>3. QED
    BY <1>1, <1>3, <2>2, EntryTyped, LevelSame
<1>6. QED
  BY <1>4, <1>5

\* If programs are stopped only when nothing is going on, users edit only while their
\* client is off and the clocks keep away from the end of the 32 bits: a client for which
\* nothing is on the way has the versions that the server has, and whole files
\* (test/sync_test.sh, for any numbers of clients and files and any order of the starts).
THEOREM EverybodyAgrees == Settled /\ Spec => []SameVersions
<1>1. Init /\ Settled => WholeInv /\ Rest /\ Agree
  BY ForwardInit, AgreeInit DEF Settled
<1>2. WholeInv /\ Rest /\ Agree /\ [Next]_vars => WholeInv' /\ Rest' /\ Agree'
  BY ForwardStep, AgreeStep
<1>3. QED
  BY <1>1, <1>2, AgreeSame, PTL DEF Spec
=============================================================================
