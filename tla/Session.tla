------------------------------ MODULE Session ------------------------------
(* One connection after its synchronisation, with both of its ends: at each a *)
(* sender thread that takes messages off a queue and a receiver thread, and a *)
(* mutex that both lock (ClientData::sockMutex at the server,                 *)
(* DropboxClient::serverMutex at the client).  A sender holds it while it     *)
(* writes a message, and write() blocks when the kernel's buffer is full; a   *)
(* receiver reads the event of a message without it and takes it for the rest.*)
(* A unit stands for the bytes of one sendData and receiveData: an event, a   *)
(* path, an integer or a chunk of a file.                                     *)
EXTENDS Naturals, FiniteSets, SequencesExt

CONSTANTS
    Plans,      \* what the ends have to send, and the room of the buffers
    MaxLen      \* bound: the chunks of a file

Ends == {"server", "client"}
Peer(e) == IF e = "server" THEN "client" ELSE "server"

\* Dropbox::ProtocolEvent, without those of the synchronisation
Events == {"NEW_FILE", "NEW_DIRECTORY", "DELETE", "MOVE", "COPY"}
Message == [event : Events, size : 0 .. MaxLen]
Kinds == {"EVENT", "PATH", "SIZE", "DATA", "TIME"}
Unit == [kind : Kinds, msg : Message]      \* msg: what an event or a size says

ASSUME PlansAssumption ==
    /\ MaxLen \in Nat
    /\ \A q \in Plans :
          /\ q.cap \in Nat \ {0} /\ q.send \in [Ends -> Seq(Message)]
          /\ \A e \in Ends : \A i \in 1 .. Len(q.send[e]) :       \* only files have a size
                q.send[e][i].event = "NEW_FILE" \/ q.send[e][i].size = 0

VARIABLES
    plan,       \* the member of Plans
    queue,      \* what the sender of an end has still to take off its queue
    mutex,      \* who has locked the mutex of an end
    snd, rcv,   \* the threads of an end: where they are, and the units left
    len,        \* the chunks the file has that an end is sending
    wire,       \* the units written by an end and not yet read by its peer
    sent, got   \* history: the messages announced by an end and received at it

vars == <<plan, queue, mutex, snd, rcv, len, wire, sent, got>>

Idle == [at |-> "event", left |-> <<>>, msg |-> [event |-> "DELETE", size |-> 0]]

\* The sender waits for its queue, the receiver for an event.
Init ==
    /\ plan \in Plans
    /\ queue = plan.send
    /\ mutex = [e \in Ends |-> "free"]
    /\ snd = [e \in Ends |-> [Idle EXCEPT !.at = "dequeue"]]
    /\ rcv = [e \in Ends |-> Idle]
    /\ len = [e \in Ends |-> 0]
    /\ wire = [e \in Ends |-> <<>>]
    /\ sent = [e \in Ends |-> <<>>]
    /\ got = [e \in Ends |-> <<>>]

-----------------------------------------------------------------------------
\* What send...Procedure writes for an event; what follows a file's size.
Written(event) ==
    CASE event = "NEW_FILE"        -> <<"EVENT", "PATH", "SIZE">>
      [] event \in {"MOVE", "COPY"} -> <<"EVENT", "PATH", "PATH">>
      [] OTHER                     -> <<"EVENT", "PATH">>
Chunks(n) == [i \in 1 .. n |-> "DATA"]
WrittenAfter(size, length) == Chunks(size) \o <<"TIME">>

\* What receive...Procedure reads after the event, and after the size.
Expected(event) ==
    CASE event = "NEW_FILE"        -> <<"PATH", "SIZE">>
      [] event \in {"MOVE", "COPY"} -> <<"PATH", "PATH">>
      [] OTHER                     -> <<"PATH">>
\* Mutant of ExpectedAfter: the time of modification is not read.
ExpectedAfterNoTime(size) == Chunks(size)
ExpectedAfter(size) == Chunks(size) \o <<"TIME">>

\* The most units a message can take.
Room(msg) == Len(Written(msg.event)) + (IF msg.event = "NEW_FILE" THEN MaxLen + 1 ELSE 0)

-----------------------------------------------------------------------------
\* Mutant of Dequeue: the size of a file is one short.
DequeueShort(e) ==
    /\ snd[e].at = "dequeue" /\ queue[e] # <<>>
    /\ snd' = [snd EXCEPT ![e] = [at |-> "lock", left |-> Written(Head(queue[e]).event),
                                  msg |-> Head(queue[e])]]
    /\ queue' = [queue EXCEPT ![e] = Tail(@)]
    /\ len' = [len EXCEPT ![e] = Head(queue[e]).size - 1]
    /\ UNCHANGED <<plan, mutex, rcv, wire, sent, got>>

\* A message comes off the queue; a file has some length by then.
Dequeue(e) ==
    /\ snd[e].at = "dequeue" /\ queue[e] # <<>>
    /\ snd' = [snd EXCEPT ![e] = [at |-> "lock", left |-> Written(Head(queue[e]).event),
                                  msg |-> Head(queue[e])]]
    /\ queue' = [queue EXCEPT ![e] = Tail(@)]
    /\ len' = [len EXCEPT ![e] = Head(queue[e]).size]
    /\ UNCHANGED <<plan, mutex, rcv, wire, sent, got>>

LockToSend(e) ==
    /\ snd[e].at = "lock" /\ mutex[e] = "free"
    /\ mutex' = [mutex EXCEPT ![e] = "sender"]
    /\ snd' = [snd EXCEPT ![e].at = "write"]
    /\ UNCHANGED <<plan, queue, rcv, len, wire, sent, got>>

\* The user changes the length of the file that is being sent (the bound: once
\* before its size is announced and once after).
Resize(e) ==
    /\ snd[e].at = "write" /\ snd[e].msg.event = "NEW_FILE"
    /\ \E n \in 0 .. MaxLen :
           /\ len[e] = snd[e].msg.size /\ n # len[e]
           /\ len' = [len EXCEPT ![e] = n]
    /\ UNCHANGED <<plan, queue, mutex, snd, rcv, wire, sent, got>>

\* sendData: one unit, once there is room.  The size is that of the moment, and
\* sendFile sends as much as was announced, whatever the file has become.
Write(e) ==
    /\ snd[e].at = "write" /\ snd[e].left # <<>> /\ Len(wire[e]) < plan.cap
    /\ LET kind == Head(snd[e].left)
           msg == IF kind = "SIZE" THEN [snd[e].msg EXCEPT !.size = len[e]] ELSE snd[e].msg
           left == Tail(snd[e].left)
                       \o (IF kind = "SIZE" THEN WrittenAfter(len[e], len[e]) ELSE <<>>)
           announced == kind = IF msg.event = "NEW_FILE" THEN "SIZE" ELSE "EVENT"
       IN  /\ snd' = [snd EXCEPT ![e].left = left, ![e].msg = msg]
           /\ wire' = [wire EXCEPT ![e] = Append(@, [kind |-> kind, msg |-> msg])]
           /\ sent' = [sent EXCEPT ![e] = IF announced THEN Append(@, msg) ELSE @]
    /\ UNCHANGED <<plan, queue, mutex, rcv, len, got>>

UnlockSent(e) ==
    /\ snd[e].at = "write" /\ snd[e].left = <<>>
    /\ mutex' = [mutex EXCEPT ![e] = "free"]
    /\ snd' = [snd EXCEPT ![e].at = "dequeue"]
    /\ UNCHANGED <<plan, queue, rcv, len, wire, sent, got>>

-----------------------------------------------------------------------------
Arrived(e) == wire[Peer(e)] # <<>>
Foremost(e) == Head(wire[Peer(e)])
Taken(e) == wire' = [wire EXCEPT ![Peer(e)] = Tail(@)]

\* Mutant of ReadEvent: the mutex is locked before the event is read.
ReadEventLocked(e) ==
    /\ rcv[e].at = "event" /\ mutex[e] = "free" /\ Arrived(e) /\ Taken(e)
    /\ mutex' = [mutex EXCEPT ![e] = "receiver"]
    /\ rcv' = [rcv EXCEPT ![e] = [at |-> "read", left |-> Expected(Foremost(e).msg.event),
                                  msg |-> [event |-> Foremost(e).msg.event, size |-> 0]]]
    /\ UNCHANGED <<plan, queue, snd, len, sent, got>>

\* receiveEvent, without the mutex.  What is no event ends the thread.
ReadEvent(e) ==
    /\ rcv[e].at = "event" /\ Arrived(e) /\ Taken(e)
    /\ rcv' = [rcv EXCEPT ![e] =
                  IF Foremost(e).kind = "EVENT"
                  THEN [at |-> "lock", left |-> Expected(Foremost(e).msg.event),
                        msg |-> [event |-> Foremost(e).msg.event, size |-> 0]]
                  ELSE [@ EXCEPT !.at = "dead"]]
    /\ UNCHANGED <<plan, queue, mutex, snd, len, sent, got>>

LockToReceive(e) ==
    /\ rcv[e].at = "lock" /\ mutex[e] = "free"
    /\ mutex' = [mutex EXCEPT ![e] = "receiver"]
    /\ rcv' = [rcv EXCEPT ![e].at = "read"]
    /\ UNCHANGED <<plan, queue, snd, len, wire, sent, got>>

\* receiveData: the next unit is taken for what the procedure expects.
Read(e) ==
    /\ rcv[e].at = "read" /\ rcv[e].left # <<>> /\ Arrived(e) /\ Taken(e)
    /\ rcv' = IF Head(rcv[e].left) = "SIZE"
              THEN [rcv EXCEPT ![e].left = ExpectedAfter(Foremost(e).msg.size),
                               ![e].msg.size = Foremost(e).msg.size]
              ELSE [rcv EXCEPT ![e].left = Tail(@)]
    /\ UNCHANGED <<plan, queue, mutex, snd, len, sent, got>>

\* Mutant of UnlockReceived: the procedure returns with the mutex locked.
UnlockReceivedNot(e) ==
    /\ rcv[e].at = "read" /\ rcv[e].left = <<>>
    /\ rcv' = [rcv EXCEPT ![e].at = "event"]
    /\ got' = [got EXCEPT ![e] = Append(@, rcv[e].msg)]
    /\ UNCHANGED <<plan, queue, mutex, snd, len, wire, sent>>

UnlockReceived(e) ==
    /\ rcv[e].at = "read" /\ rcv[e].left = <<>>
    /\ mutex' = [mutex EXCEPT ![e] = "free"]
    /\ rcv' = [rcv EXCEPT ![e].at = "event"]
    /\ got' = [got EXCEPT ![e] = Append(@, rcv[e].msg)]
    /\ UNCHANGED <<plan, queue, snd, len, wire, sent>>

SenderThread(e) == Dequeue(e) \/ LockToSend(e) \/ Write(e) \/ UnlockSent(e)
ReceiverThread(e) == ReadEvent(e) \/ LockToReceive(e) \/ Read(e) \/ UnlockReceived(e)

Next == \E e \in Ends : SenderThread(e) \/ ReceiverThread(e) \/ Resize(e)

Spec == Init /\ [][Next]_vars

\* Each thread is scheduled; no thread is promised the mutex.
Fairness == \A e \in Ends : WF_vars(SenderThread(e)) /\ WF_vars(ReceiverThread(e))
FairSpec == Spec /\ Fairness

-----------------------------------------------------------------------------
TypeOK ==
    /\ plan \in Plans
    /\ queue \in [Ends -> Seq(Message)]
    /\ mutex \in [Ends -> {"free", "sender", "receiver"}]
    /\ snd \in [Ends -> [at : {"dequeue", "lock", "write"}, left : Seq(Kinds), msg : Message]]
    /\ rcv \in [Ends -> [at : {"event", "lock", "read", "dead"}, left : Seq(Kinds), msg : Message]]
    /\ len \in [Ends -> 0 .. MaxLen]
    /\ wire \in [Ends -> Seq(Unit)] /\ \A e \in Ends : Len(wire[e]) <= plan.cap
    /\ sent \in [Ends -> Seq(Message)] /\ got \in [Ends -> Seq(Message)]

\* The ends agree on where a message begins and ends, however a file changes
\* while it is being sent: what an end has received is what its peer announced,
\* in the order of the peer's queue, and no receiver meets anything but an event
\* between messages (Dropbox.cpp, the send and receive procedures).
InStep ==
    \A e \in Ends : IsPrefix(got[e], sent[Peer(e)]) /\ rcv[e].at # "dead"

\* Who waits for whom: the sender holds the mutex and the buffer is full of what
\* the peer's receiver cannot read, because the peer's sender does the same.
Clasped(e) ==
    /\ snd[e].at = "write" /\ mutex[e] = "sender" /\ Len(wire[e]) = plan.cap
    /\ rcv[e].at = "lock"
Quiet(e) == snd[e].at = "dequeue" /\ queue[e] = <<>> /\ rcv[e].at = "event" /\ wire[e] = <<>>

\* A connection stops only when all is delivered or when all four threads wait
\* for one another, each sender for its peer's receiver, and each receiver for the
\* sender of its own end (sockMutex is held during write()).
StopsOnlyWhen ==
    ~(ENABLED \E e \in Ends : SenderThread(e) \/ ReceiverThread(e))
        => (\A e \in Ends : Quiet(e)) \/ (\A e \in Ends : Clasped(e))

\* What an end has to send goes through although its peer has too much for the
\* buffers, as long as one of the two has not: the event that the blocked receiver
\* has read and the full buffer leave room for it.
Fits(e) == FoldLeft(LAMBDA n, msg : n + Room(msg), 0, plan.send[e]) <= plan.cap + 1
Delivered ==
    (\E e \in Ends : Fits(e))
        => <>[](\A e \in Ends : Len(got[e]) = Len(plan.send[Peer(e)]))
=============================================================================
