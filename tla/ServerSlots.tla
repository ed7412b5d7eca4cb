------------------------------ MODULE ServerSlots ------------------------------
(***************************************************************************)
(* The server's table of clients and the threads that share it: the accept *)
(* loop (DropboxServer::run), one receiver and one sender thread for each  *)
(* connection, the slots (ClientData) they run on, the list `clients`, the *)
(* file descriptors and what the network and the peer do to them.          *)
(*                                                                         *)
(* A client is the script of what it writes to its socket.  The content of *)
(* files is left out, and the server's half of the synchronisation is one  *)
(* write: the client's answers to IS_VALID are not in its script.          *)
(***************************************************************************)
EXTENDS Naturals, Sequences, FiniteSets

CONSTANTS
    Conns,      \* connections; a client that comes back is a new one
    None,       \* no connection
    N,          \* maxClientsNumber
    MaxFd,      \* descriptors 1 .. MaxFd can be open
    Script,     \* Script[k]: what the client of k writes, in units
    LeaveAt     \* after how many units a client may break its connection

Slots == 1 .. N
Fds == 1 .. MaxFd

\* Units: HELLO is NEW_CLIENT, END is END_OF_SYNC; FILE is the event NEW_FILE and
\* PATH any of the other four; BODY is the rest of a message.
Units == {"HELLO", "END", "FILE", "PATH", "BODY"}

ASSUME SlotsAssumption ==
    /\ N \in Nat \ {0} /\ MaxFd \in Nat
    /\ None \notin Conns
    /\ Script \in [Conns -> Seq(Units)]
    /\ LeaveAt \subseteq Nat

\* DropboxClient::newClientProcedure is called once, before the two threads are started.
ASSUME GreetingAssumption ==
    \A k \in Conns : \A i \in DOMAIN Script[k] : Script[k][i] = "HELLO" => i = 1

\* What a client writes: NEW_CLIENT, what it has, END_OF_SYNC, its changes; and BODY
\* after each message that has one.
WellFormed(units) ==
    \A i \in DOMAIN units :
        /\ units[i] = "HELLO" <=> i = 1
        /\ units[i] = "BODY" <=> i > 1 /\ units[i - 1] \in {"FILE", "PATH"}
        /\ units[i] = "END" => \A j \in DOMAIN units : units[j] = "END" => j = i
Obeyed == \A k \in Conns : WellFormed(Script[k])

\* A client brings or sends one thing.
OneChange == \A k \in Conns : \A i, j \in DOMAIN Script[k] :
                 Script[k][i] \in {"FILE", "PATH"} /\ Script[k][j] \in {"FILE", "PATH"} => i = j

VARIABLES
    acc,        \* the accept loop: its program counter and the accepted connection
    it,         \* clientVectorIterator
    alive,      \* alive[s]: isAlive
    sock,       \* sock[s]: the descriptor in slot s
    occ,        \* occ[s]: the connection that slot s was last given to
    queue,      \* queue[s]: safeQueue, the originators of the messages
    mutex,      \* mutex[s]: sockMutex, "free", "rcv", "snd", or "lost" by a throw
    clients,    \* the list `clients`, of slots
    syncOwner,  \* the connection whose receiver thread holds syncMutex
    fdt,        \* fdt[fd]: the connection behind a descriptor
    net,        \* net[k]: the connection as the kernel sees it
    pos,        \* pos[k]: how much of its script the client of k has written
    inbox,      \* inbox[k]: what of that the server has not read
    greeted,    \* the clients that END_OF_SYNC has been sent to
    rcv,        \* rcv[k]: the receiver thread of k
    snd,        \* snd[k]: the sender thread of k
    slotOf,     \* slotOf[k]: the slot given to the threads of k
    fdOf,       \* fdOf[k]: their copy of its descriptor
    got         \* got[k]: history, what was enqueued in the slot of k for it

vars == <<acc, it, alive, sock, occ, queue, mutex, clients, syncOwner, fdt, net,
          pos, inbox, greeted, rcv, snd, slotOf, fdOf, got>>

slotVars == <<alive, sock, occ, queue, mutex, clients, got>>
peerVars == <<net, pos, inbox, greeted>>
threadVars == <<rcv, snd, slotOf, fdOf>>

-----------------------------------------------------------------------------
\* off: not connected yet; up; fin: the client closed it, reads return 0 and one
\* more write succeeds; broken: reads return 0, writes fail; reset: both fail.
Nets == {"off", "up", "fin", "broken", "reset"}

\* A receiver thread: reading an event; waiting for syncMutex; offering what the
\* server has; waiting for sockMutex; reading a body; done with it; in a broadcast
\* loop over `todo`; returned.  `kind` and `sync` are what it is working on and
\* whether it is inside newClientProcedure.  `reg` is history.
RcvPcs == {"none", "event", "wantsync", "offer", "wantlock", "body", "saved", "bcast", "gone"}
Receiver == [pc : RcvPcs, sync : BOOLEAN, kind : {"FILE", "PATH"},
             todo : Seq(Slots), reg : SUBSET Conns]
NoThread == [pc |-> "none", sync |-> FALSE, kind |-> "FILE", todo |-> <<>>, reg |-> {}]

\* A sender thread: in dequeue; waiting for sockMutex; sending; an exception
\* caught; the socket closed; returned.
SndPcs == {"none", "dequeue", "wantlock", "send", "failed", "closed", "gone"}

Init ==
    /\ acc = [pc |-> "accept", conn |-> None, fd |-> 0]
    /\ it = 1
    /\ alive = [s \in Slots |-> FALSE]
    /\ sock = [s \in Slots |-> 0]
    /\ occ = [s \in Slots |-> None]
    /\ queue = [s \in Slots |-> <<>>]
    /\ mutex = [s \in Slots |-> "free"]
    /\ clients = <<>>
    /\ syncOwner = None
    /\ fdt = [fd \in Fds |-> None]
    /\ net = [k \in Conns |-> "off"]
    /\ pos = [k \in Conns |-> 0]
    /\ inbox = [k \in Conns |-> <<>>]
    /\ greeted = {}
    /\ rcv = [k \in Conns |-> NoThread]
    /\ snd = [k \in Conns |-> "none"]
    /\ slotOf = [k \in Conns |-> 1]
    /\ fdOf = [k \in Conns |-> 0]
    /\ got = [k \in Conns |-> <<>>]

-----------------------------------------------------------------------------
(* Clients and network *)

Connect(k) ==
    /\ net[k] = "off"
    /\ net' = [net EXCEPT ![k] = "up"]
    /\ UNCHANGED <<acc, it, syncOwner, fdt, pos, inbox, greeted, slotVars, threadVars>>

\* After NEW_CLIENT a client writes nothing until it has read END_OF_SYNC.
Write(k) ==
    /\ net[k] = "up" /\ pos[k] < Len(Script[k])
    /\ pos[k] = 0 \/ k \in greeted
    /\ pos' = [pos EXCEPT ![k] = @ + 1]
    /\ inbox' = [inbox EXCEPT ![k] = Append(@, Script[k][pos[k] + 1])]
    /\ UNCHANGED <<acc, it, syncOwner, fdt, net, greeted, slotVars, threadVars>>

\* The client is stopped: its kernel closes the connection, or resets it when there
\* was something it had not read.
Leave(k) ==
    /\ net[k] = "up" /\ pos[k] \in LeaveAt
    /\ \E how \in {"fin", "reset"} : net' = [net EXCEPT ![k] = how]
    /\ UNCHANGED <<acc, it, syncOwner, fdt, pos, inbox, greeted, slotVars, threadVars>>

-----------------------------------------------------------------------------
(* The accept loop *)

\* doAccept: the kernel gives out the lowest free descriptor.
Accept(k, fd) ==
    /\ acc.pc = "accept" /\ net[k] # "off"
    /\ \A f \in Fds : fdt[f] # k
    /\ snd[k] = "none"
    /\ fdt[fd] = None /\ \A f \in 1 .. fd - 1 : fdt[f] # None
    /\ fdt' = [fdt EXCEPT ![fd] = k]
    /\ acc' = [pc |-> "search", conn |-> k, fd |-> fd]
    /\ UNCHANGED <<it, syncOwner, slotVars, peerVars, threadVars>>

Following(s) == IF s = N THEN 1 ELSE s + 1

\* The loop runs on, past the slots in use, for as long as there is no other.
Search ==
    /\ acc.pc = "search"
    /\ it' = Following(it)
    /\ acc' = IF alive[it'] THEN acc ELSE [acc EXCEPT !.pc = "clear"]
    /\ UNCHANGED <<syncOwner, fdt, slotVars, peerVars, threadVars>>

Clear ==
    /\ acc.pc = "clear"
    /\ queue' = [queue EXCEPT ![it] = <<>>]
    /\ acc' = [acc EXCEPT !.pc = "assign"]
    /\ UNCHANGED <<it, alive, sock, occ, mutex, clients, got, syncOwner, fdt, peerVars, threadVars>>

Assign ==
    /\ acc.pc = "assign"
    /\ sock' = [sock EXCEPT ![it] = acc.fd]
    /\ occ' = [occ EXCEPT ![it] = acc.conn]
    /\ acc' = [acc EXCEPT !.pc = "start"]
    /\ UNCHANGED <<it, alive, queue, mutex, clients, got, syncOwner, fdt, peerVars, threadVars>>

\* isAlive is set and the two threads are started and detached; each begins by
\* copying sock.
Start ==
    /\ acc.pc = "start"
    /\ LET k == acc.conn
       IN  /\ alive' = [alive EXCEPT ![it] = TRUE]
           /\ slotOf' = [slotOf EXCEPT ![k] = it]
           /\ fdOf' = [fdOf EXCEPT ![k] = sock[it]]
           /\ rcv' = [rcv EXCEPT ![k].pc = "event"]
           /\ snd' = [snd EXCEPT ![k] = "dequeue"]
    /\ acc' = [pc |-> "accept", conn |-> None, fd |-> 0]
    /\ UNCHANGED <<it, sock, occ, queue, mutex, clients, got, syncOwner, fdt, peerVars>>

-----------------------------------------------------------------------------
(* A receiver thread *)

\* newClientProcedure uses the slot's socket by reference, the rest a copy.
ReadFd(k) == IF rcv[k].sync THEN sock[slotOf[k]] ELSE fdOf[k]

\* The connection it reads from; None when the descriptor is closed (EBADF).
Source(k) == IF ReadFd(k) \in Fds THEN fdt[ReadFd(k)] ELSE None

ReadFails(k) == ~(Source(k) # None /\ (net[Source(k)] # "reset" \/ inbox[Source(k)] # <<>>))

\* At the end of file receiveData reads zero bytes again and again: no step.
CanRead(k) == Source(k) # None /\ inbox[Source(k)] # <<>>
Unit(k) == Head(inbox[Source(k)])
Consume(k) == inbox' = [inbox EXCEPT ![Source(k)] = Tail(@)]

\* An exception, or an event out of place: the thread returns.  lock_guard gives
\* syncMutex back; nothing gives sockMutex back, closes the socket or clears isAlive.
Return(k) ==
    /\ rcv' = [rcv EXCEPT ![k].pc = "gone"]
    /\ syncOwner' = IF rcv[k].sync THEN None ELSE syncOwner
    /\ mutex' = IF rcv[k].pc = "body" THEN [mutex EXCEPT ![slotOf[k]] = "lost"] ELSE mutex

ReadError(k) ==
    /\ rcv[k].pc \in {"event", "body"} /\ ReadFails(k)
    /\ Return(k)
    /\ UNCHANGED <<acc, it, alive, sock, occ, queue, clients, got, fdt, peerVars, snd, slotOf, fdOf>>

\* receiveEvent in clientReceiver.
ReadEvent(k) ==
    /\ rcv[k].pc = "event" /\ ~rcv[k].sync /\ CanRead(k)
    /\ Consume(k)
    /\ CASE Unit(k) = "HELLO" ->
              rcv' = [rcv EXCEPT ![k].pc = "wantsync"] /\ UNCHANGED <<syncOwner, mutex>>
         [] Unit(k) \in {"FILE", "PATH"} ->
              /\ rcv' = [rcv EXCEPT ![k].pc = "wantlock", ![k].kind = Unit(k)]
              /\ UNCHANGED <<syncOwner, mutex>>
         [] OTHER -> Return(k)
    /\ UNCHANGED <<acc, it, alive, sock, occ, queue, clients, got, fdt, net, pos, greeted, snd, slotOf, fdOf>>

LockSync(k) ==
    /\ rcv[k].pc = "wantsync" /\ syncOwner = None
    /\ syncOwner' = k
    /\ rcv' = [rcv EXCEPT ![k].pc = "offer", ![k].sync = TRUE]
    /\ UNCHANGED <<acc, it, fdt, slotVars, peerVars, snd, slotOf, fdOf>>

\* The walk of the server's folder and END_OF_SYNC.
Writable(k) == Source(k) # None /\ net[Source(k)] \in {"up", "fin"}
Written(k) == [net EXCEPT ![Source(k)] = IF @ = "fin" THEN "broken" ELSE @]

OfferAll(k) ==
    /\ rcv[k].pc = "offer"
    /\ IF Writable(k)
       THEN /\ net' = Written(k)
            /\ greeted' = greeted \cup {Source(k)}
            /\ rcv' = [rcv EXCEPT ![k].pc = "event"]
            /\ UNCHANGED <<syncOwner, mutex>>
       ELSE Return(k) /\ UNCHANGED <<net, greeted>>
    /\ UNCHANGED <<acc, it, alive, sock, occ, queue, clients, got, fdt, pos, inbox, snd, slotOf, fdOf>>

\* receiveEvent in newClientProcedure: files and directories of the client (a PATH is a
\* NEW_DIRECTORY here; the procedure throws for the others, which no client sends), and
\* the end, where the slot is put into the list (nothing ever takes it out).
\* Mutants: the list is replaced; the slot is put in twice; it is not put in; the
\* next one is.
ListedAlone(s) == <<s>>
ListedTwice(s) == clients \o <<s, s>>
ListedNot(s) == clients
ListedNext(s) == Append(clients, s + 1)

Listed(s) == Append(clients, s)

ReadInSync(k) ==
    /\ rcv[k].pc = "event" /\ rcv[k].sync /\ CanRead(k)
    /\ Consume(k)
    /\ CASE Unit(k) \in {"FILE", "PATH"} ->
              /\ rcv' = [rcv EXCEPT ![k].pc = "wantlock", ![k].kind = Unit(k)]
              /\ UNCHANGED <<syncOwner, mutex, clients>>
         [] Unit(k) = "END" ->
              /\ rcv' = [rcv EXCEPT ![k].sync = FALSE]
              /\ syncOwner' = None
              /\ clients' = Listed(slotOf[k])
              /\ UNCHANGED mutex
         [] OTHER -> Return(k) /\ UNCHANGED clients
    /\ UNCHANGED <<acc, it, alive, sock, occ, queue, got, fdt, net, pos, greeted, snd, slotOf, fdOf>>

LockForBody(k) ==
    /\ rcv[k].pc = "wantlock" /\ mutex[slotOf[k]] = "free"
    /\ mutex' = [mutex EXCEPT ![slotOf[k]] = "rcv"]
    /\ rcv' = [rcv EXCEPT ![k].pc = "body"]
    /\ UNCHANGED <<acc, it, alive, sock, occ, queue, clients, got, syncOwner, fdt, peerVars, snd, slotOf, fdOf>>

\* Mutant: sockMutex is not unlocked.
ReadBodyLocked(k) ==
    /\ rcv[k].pc = "body" /\ CanRead(k)
    /\ Consume(k)
    /\ rcv' = [rcv EXCEPT ![k].pc = "saved"]
    /\ UNCHANGED <<acc, it, alive, sock, occ, queue, mutex, clients, got, syncOwner, fdt, net, pos, greeted, snd, slotOf, fdOf>>

\* Whatever comes next on the socket is taken for the body.
ReadBody(k) ==
    /\ rcv[k].pc = "body" /\ CanRead(k)
    /\ Consume(k)
    /\ mutex' = [mutex EXCEPT ![slotOf[k]] = "free"]
    /\ rcv' = [rcv EXCEPT ![k].pc = "saved"]
    /\ UNCHANGED <<acc, it, alive, sock, occ, queue, clients, got, syncOwner, fdt, net, pos, greeted, snd, slotOf, fdOf>>

\* The clients that ought to get what k broadcasts now: END_OF_SYNC of each has been
\* read, and its threads are running.
EndRead(c) == \E i \in 1 .. pos[c] - Len(inbox[c]) : Script[c][i] = "END"
Present == {c \in Conns : /\ net[c] = "up" /\ EndRead(c)
                          /\ rcv[c].pc \notin {"none", "gone"} /\ ~rcv[c].sync}

StartBroadcast(k) ==
    /\ rcv[k].pc = "saved"
    /\ rcv' = [rcv EXCEPT ![k].pc = "bcast", ![k].todo = clients, ![k].reg = Present \ {k}]
    /\ UNCHANGED <<acc, it, syncOwner, fdt, slotVars, peerVars, snd, slotOf, fdOf>>

\* Mutant: the originator's own socket is not skipped.
SkippedDeadOnly(k, s) == rcv[k].kind = "FILE" /\ ~alive[s]

\* Only broadcastFile looks at isAlive; all compare descriptors.
Skipped(k, s) == \/ rcv[k].kind = "FILE" /\ ~alive[s]
                 \/ ReadFd(k) = sock[s]

BroadcastOne(k) ==
    /\ rcv[k].pc = "bcast" /\ rcv[k].todo # <<>>
    /\ rcv' = [rcv EXCEPT ![k].todo = Tail(@)]
    /\ LET s == Head(rcv[k].todo)
       IN  IF Skipped(k, s) THEN UNCHANGED <<queue, got>>
           ELSE /\ queue' = [queue EXCEPT ![s] = Append(@, k)]
                /\ got' = IF occ[s] = None THEN got ELSE [got EXCEPT ![occ[s]] = Append(@, k)]
    /\ UNCHANGED <<acc, it, alive, sock, occ, mutex, clients, syncOwner, fdt, peerVars, snd, slotOf, fdOf>>

EndBroadcast(k) ==
    /\ rcv[k].pc = "bcast" /\ rcv[k].todo = <<>>
    /\ rcv' = [rcv EXCEPT ![k].pc = "event", ![k].reg = {}]
    /\ UNCHANGED <<acc, it, syncOwner, fdt, slotVars, peerVars, snd, slotOf, fdOf>>

-----------------------------------------------------------------------------
(* A sender thread *)

Dequeue(k) ==
    /\ snd[k] = "dequeue" /\ queue[slotOf[k]] # <<>>
    /\ queue' = [queue EXCEPT ![slotOf[k]] = Tail(@)]
    /\ snd' = [snd EXCEPT ![k] = "wantlock"]
    /\ UNCHANGED <<acc, it, alive, sock, occ, mutex, clients, got, syncOwner, fdt, peerVars, rcv, slotOf, fdOf>>

LockToSend(k) ==
    /\ snd[k] = "wantlock" /\ mutex[slotOf[k]] = "free"
    /\ mutex' = [mutex EXCEPT ![slotOf[k]] = "snd"]
    /\ snd' = [snd EXCEPT ![k] = "send"]
    /\ UNCHANGED <<acc, it, alive, sock, occ, queue, clients, got, syncOwner, fdt, peerVars, rcv, slotOf, fdOf>>

\* write() to the descriptor the thread copied when it started.
Peer(k) == fdt[fdOf[k]]

SendDone(k) ==
    /\ snd[k] = "send" /\ Peer(k) # None /\ net[Peer(k)] \in {"up", "fin"}
    /\ net' = [net EXCEPT ![Peer(k)] = IF @ = "fin" THEN "broken" ELSE @]
    /\ mutex' = [mutex EXCEPT ![slotOf[k]] = "free"]
    /\ snd' = [snd EXCEPT ![k] = "dequeue"]
    /\ UNCHANGED <<acc, it, alive, sock, occ, queue, clients, got, syncOwner, fdt, pos, inbox, greeted, rcv, slotOf, fdOf>>

Fail(k) == snd[k] = "send" /\ ~(Peer(k) # None /\ net[Peer(k)] = "up")

\* Mutants: isAlive is cleared before the socket is closed; a lock_guard gives
\* sockMutex back.
SendFailsEarly(k) ==
    /\ Fail(k)
    /\ alive' = [alive EXCEPT ![slotOf[k]] = FALSE]
    /\ snd' = [snd EXCEPT ![k] = "failed"]
    /\ UNCHANGED <<acc, it, sock, occ, queue, mutex, clients, got, syncOwner, fdt, peerVars, rcv, slotOf, fdOf>>
SendFailsUnlocks(k) ==
    /\ Fail(k)
    /\ mutex' = [mutex EXCEPT ![slotOf[k]] = "free"]
    /\ snd' = [snd EXCEPT ![k] = "failed"]
    /\ UNCHANGED <<acc, it, alive, sock, occ, queue, clients, got, syncOwner, fdt, peerVars, rcv, slotOf, fdOf>>

\* sockMutex stays locked.
SendFails(k) ==
    /\ Fail(k)
    /\ mutex' = [mutex EXCEPT ![slotOf[k]] = "lost"]
    /\ snd' = [snd EXCEPT ![k] = "failed"]
    /\ UNCHANGED <<acc, it, alive, sock, occ, queue, clients, got, syncOwner, fdt, peerVars, rcv, slotOf, fdOf>>

\* terminateClientReceiver: close the slot's socket, then clear isAlive.
CloseSocket(k) ==
    /\ snd[k] = "failed"
    /\ fdt' = [fdt EXCEPT ![sock[slotOf[k]]] = None]
    /\ snd' = [snd EXCEPT ![k] = "closed"]
    /\ UNCHANGED <<acc, it, syncOwner, slotVars, peerVars, rcv, slotOf, fdOf>>

ClearAlive(k) ==
    /\ snd[k] = "closed"
    /\ alive' = [alive EXCEPT ![slotOf[k]] = FALSE]
    /\ snd' = [snd EXCEPT ![k] = "gone"]
    /\ UNCHANGED <<acc, it, sock, occ, queue, mutex, clients, got, syncOwner, fdt, peerVars, rcv, slotOf, fdOf>>

-----------------------------------------------------------------------------
ClientStep(k) == Connect(k) \/ Write(k)
AcceptLoop == (\E k \in Conns, fd \in Fds : Accept(k, fd)) \/ Search \/ Clear \/ Assign \/ Start
ReceiverThread(k) ==
    \/ ReadError(k) \/ ReadEvent(k)
    \/ LockSync(k) \/ OfferAll(k) \/ ReadInSync(k)
    \/ LockForBody(k) \/ ReadBody(k)
    \/ StartBroadcast(k) \/ BroadcastOne(k) \/ EndBroadcast(k)
SenderThread(k) ==
    \/ Dequeue(k) \/ LockToSend(k) \/ SendDone(k) \/ SendFails(k)
    \/ CloseSocket(k) \/ ClearAlive(k)

Next ==
    \/ AcceptLoop
    \/ \E k \in Conns : ClientStep(k) \/ Leave(k) \/ ReceiverThread(k) \/ SenderThread(k)

Spec == Init /\ [][Next]_vars

\* Clients do what their script says and threads run; nobody has to leave.
Fairness ==
    /\ WF_vars(AcceptLoop)
    /\ \A k \in Conns : /\ WF_vars(ClientStep(k))
                        /\ WF_vars(ReceiverThread(k)) /\ WF_vars(SenderThread(k))

FairSpec == Spec /\ Fairness

-----------------------------------------------------------------------------
(* Properties *)

\* Every variable keeps its type.
TypeOK ==
    /\ acc \in [pc : {"accept", "search", "clear", "assign", "start"},
                conn : Conns \cup {None}, fd : Fds \cup {0}]
    /\ it \in Slots
    /\ alive \in [Slots -> BOOLEAN] /\ sock \in [Slots -> Fds \cup {0}]
    /\ occ \in [Slots -> Conns \cup {None}]
    /\ queue \in [Slots -> Seq(Conns)]
    /\ mutex \in [Slots -> {"free", "rcv", "snd", "lost"}]
    /\ clients \in Seq(Slots)
    /\ syncOwner \in Conns \cup {None}
    /\ fdt \in [Fds -> Conns \cup {None}]
    /\ net \in [Conns -> Nets] /\ pos \in [Conns -> Nat]
    /\ inbox \in [Conns -> Seq(Units)] /\ greeted \subseteq Conns
    /\ rcv \in [Conns -> Receiver] /\ snd \in [Conns -> SndPcs]
    /\ slotOf \in [Conns -> Slots] /\ fdOf \in [Conns -> Fds \cup {0}]
    /\ got \in [Conns -> Seq(Conns)]

Sending == {"dequeue", "wantlock", "send", "failed"}

\* A sender thread always has its slot and its descriptor to itself: until it closes
\* the socket, the slot it reads messages from and the descriptor it writes to and
\* closes are those of its own connection, however often slots and descriptors
\* have been given out again.  (isAlive is cleared only after the close, and the
\* accept loop takes only slots where it is clear.)
SenderOwnsConnection ==
    \A k \in Conns : snd[k] \in Sending =>
        /\ fdt[fdOf[k]] = k
        /\ occ[slotOf[k]] = k /\ sock[slotOf[k]] = fdOf[k] /\ alive[slotOf[k]]

\* The originator of a change never gets it back, even when its message is
\* broadcast while connections go and descriptors are reused.
NoEcho == \A k \in Conns : \A i \in 1 .. Len(got[k]) : got[k][i] # k

\* A broadcast has reached every other client that was in the list when it began.
ReachesAll ==
    \A k \in Conns : rcv[k].pc = "bcast" /\ rcv[k].todo = <<>> =>
        \A c \in rcv[k].reg : net[c] = "up" => \E i \in DOMAIN got[c] : got[c][i] = k

\* A client is given each broadcast once (the scripts of MCServerSlots broadcast
\* once each).
NoDuplicates == \A k \in Conns : \A i, j \in DOMAIN got[k] : got[k][i] = got[k][j] => i = j

\* Nothing is sent to a client before newClientProcedure has finished with it: from the
\* start of its threads until its END_OF_SYNC has been read, its sender writes nothing,
\* not even before NEW_CLIENT is read (DropboxServer.cpp:34-36, 335).
NothingBeforeSync ==
    \A k \in Conns : snd[k] = "send" =>
        EndRead(k) /\ ~rcv[k].sync /\ rcv[k].pc # "wantsync"

\* Every client that stays connected gets through the synchronisation.
Listening(k) == \E i \in DOMAIN clients : clients[i] = slotOf[k] /\ snd[k] # "none"
Served == \A k \in Conns : (net[k] = "up") ~> (Listening(k) \/ net[k] # "up")

\* A message in a client's queue is sent, mutex and all, or the client has gone.
Pending(k) == \/ snd[k] \in {"wantlock", "send"}
              \/ snd[k] = "dequeue" /\ queue[slotOf[k]] # <<>>
Flushed == \A k \in Conns : Pending(k) ~> (~Pending(k) \/ net[k] # "up")
=============================================================================
