--------------------------- MODULE ServerSlots_proofs ---------------------------
(***************************************************************************)
(* Theorems about ServerSlots, for any number of slots, descriptors and    *)
(* connections and whatever the clients write: types, the ownership of     *)
(* slots and descriptors by sender threads, the absence of echoes, and     *)
(* that nothing is sent before the synchronisation is over.  While nobody  *)
(* leaves: a broadcast reaches everybody, and everybody once.              *)
(***************************************************************************)
EXTENDS ServerSlots, TLAPS

-----------------------------------------------------------------------------
(* Types, one lemma for each thread *)

LEMMA TypedInit == Init => TypeOK
  BY SlotsAssumption
  DEF Init, TypeOK, Slots, Fds, Receiver, RcvPcs, NoThread, SndPcs, Nets, Units

\* The updates of its record that the steps of a receiver thread make.
LEMMA ReceiverPc ==
  ASSUME NEW r \in Receiver, NEW pc \in RcvPcs
  PROVE  [r EXCEPT !.pc = pc] \in Receiver
  BY DEF Receiver, RcvPcs

LEMMA ReceiverSync ==
  ASSUME NEW r \in Receiver
  PROVE  [r EXCEPT !.sync = FALSE] \in Receiver
  BY DEF Receiver, RcvPcs

LEMMA ReceiverTodo ==
  ASSUME NEW r \in Receiver, NEW todo \in Seq(Slots)
  PROVE  [r EXCEPT !.todo = todo] \in Receiver
  BY DEF Receiver, RcvPcs

LEMMA ReceiverLoop ==
  ASSUME NEW r \in Receiver, NEW pc \in RcvPcs, NEW todo \in Seq(Slots), NEW reg \in SUBSET Conns
  PROVE  [r EXCEPT !.pc = pc, !.todo = todo, !.reg = reg] \in Receiver
  BY DEF Receiver, RcvPcs

LEMMA TypedNetwork ==
  ASSUME TypeOK, NEW k \in Conns, ClientStep(k) \/ Leave(k)
  PROVE  TypeOK'
<1> USE DEF TypeOK, slotVars, threadVars
<1>1. CASE Connect(k) \/ Leave(k)
  BY <1>1, ZenonT(40) DEF Connect, Leave, Nets
<1>2. CASE Write(k)
  <2>1. Script[k][pos[k] + 1] \in Units
    <3>1. Script[k] \in Seq(Units)
      BY SlotsAssumption
    <3>2. pos[k] \in Nat /\ pos[k] < Len(Script[k])
      BY <1>2 DEF Write
    <3>3. QED
      BY <3>1, <3>2
  <2>2. inbox' \in [Conns -> Seq(Units)]
    BY <1>2, <2>1 DEF Write
  <2>3. pos' \in [Conns -> Nat]
    BY <1>2, SMTT(30) DEF Write
  <2>4. QED
    BY <1>2, <2>2, <2>3 DEF Write
<1>3. QED
  BY <1>1, <1>2 DEF ClientStep

LEMMA TypedAccept ==
  ASSUME TypeOK, AcceptLoop
  PROVE  TypeOK'
<1> USE DEF TypeOK, slotVars, threadVars, peerVars
<1>1. ASSUME NEW k \in Conns, NEW fd \in Fds, Accept(k, fd) PROVE TypeOK'
  BY <1>1 DEF Accept
<1>2. CASE Search
  <2>1. Following(it) \in Slots
    BY SlotsAssumption DEF Following, Slots
  <2>2. acc' \in [pc : {"accept", "search", "clear", "assign", "start"},
                  conn : Conns \cup {None}, fd : Fds \cup {0}]
    BY <1>2 DEF Search
  <2>3. QED
    BY <1>2, <2>1, <2>2 DEF Search
<1>3. CASE Clear
  <2>1. queue' \in [Slots -> Seq(Conns)]
    BY <1>3 DEF Clear
  <2>2. QED
    BY <1>3, <2>1 DEF Clear
<1>4. CASE Assign
  BY <1>4 DEF Assign
<1>5. CASE Start
  <2>1. rcv' \in [Conns -> Receiver]
    <3>1. acc.conn \in Conns \cup {None} /\ rcv \in [Conns -> Receiver]
      OBVIOUS
    <3>2. rcv' = [rcv EXCEPT ![acc.conn] = [rcv[acc.conn] EXCEPT !.pc = "event"]]
      BY <1>5 DEF Start
    <3>3. acc.conn \in Conns => [rcv[acc.conn] EXCEPT !.pc = "event"] \in Receiver
      BY <3>1, ReceiverPc DEF RcvPcs
    <3>4. QED
      BY <3>1, <3>2, <3>3
  <2>2. snd' \in [Conns -> SndPcs]
    BY <1>5 DEF Start, SndPcs
  <2>3. QED
    BY <1>5, <2>1, <2>2 DEF Start
<1>6. QED
  BY <1>1, <1>2, <1>3, <1>4, <1>5 DEF AcceptLoop

\* What the steps of a receiver thread have in common.
LEMMA TypedReturn ==
  ASSUME TypeOK, NEW k \in Conns, Return(k)
  PROVE  /\ rcv' \in [Conns -> Receiver]
         /\ syncOwner' \in Conns \cup {None}
         /\ mutex' \in [Slots -> {"free", "rcv", "snd", "lost"}]
<1> USE DEF TypeOK, Return
<1>1. rcv' \in [Conns -> Receiver]
  <2>1. rcv[k] \in Receiver /\ "gone" \in RcvPcs
    BY DEF RcvPcs
  <2>2. [rcv[k] EXCEPT !.pc = "gone"] \in Receiver
    BY <2>1 DEF Receiver
  <2>3. QED
    BY <2>2
<1>2. syncOwner' \in Conns \cup {None}
  OBVIOUS
<1>3. mutex' \in [Slots -> {"free", "rcv", "snd", "lost"}]
  OBVIOUS
<1>4. QED
  BY <1>1, <1>2, <1>3

LEMMA TypedConsume ==
  ASSUME TypeOK, NEW k \in Conns, CanRead(k), Consume(k)
  PROVE  inbox' \in [Conns -> Seq(Units)]
<1>1. Source(k) \in Conns
  BY DEF TypeOK, CanRead, Source
<1>2. Tail(inbox[Source(k)]) \in Seq(Units)
  BY <1>1 DEF TypeOK, CanRead
<1>3. QED
  BY <1>1, <1>2 DEF TypeOK, Consume

LEMMA TypedRead ==
  ASSUME TypeOK, NEW k \in Conns,
         ReadError(k) \/ ReadEvent(k) \/ ReadInSync(k) \/ ReadBody(k)
  PROVE  TypeOK'
<1>1. CASE ReadError(k)
  BY <1>1, TypedReturn DEF ReadError, TypeOK, peerVars
<1>2. CASE ReadEvent(k)
  <2>1. inbox' \in [Conns -> Seq(Units)]
    BY <1>2, TypedConsume DEF ReadEvent
  <2>2. CASE Unit(k) \in {"HELLO", "FILE", "PATH"}
    <3>1. rcv \in [Conns -> Receiver]
      BY DEF TypeOK
    <3>2. CASE Unit(k) = "HELLO"
      <4>1. rcv' = [rcv EXCEPT ![k].pc = "wantsync"] /\ UNCHANGED <<syncOwner, mutex>>
        BY <1>2, <3>2 DEF ReadEvent
      <4>2. rcv' \in [Conns -> Receiver]
        BY <3>1, <4>1 DEF Receiver, RcvPcs
      <4>3. QED
        BY <1>2, <2>1, <4>1, <4>2 DEF ReadEvent, TypeOK
    <3>3. CASE Unit(k) \in {"FILE", "PATH"}
      <4>1. /\ rcv' = [rcv EXCEPT ![k].pc = "wantlock", ![k].kind = Unit(k)]
            /\ UNCHANGED <<syncOwner, mutex>>
        BY <1>2, <3>3 DEF ReadEvent
      <4>2. rcv' \in [Conns -> Receiver]
        BY <3>1, <3>3, <4>1, ZenonT(40) DEF Receiver, RcvPcs
      <4>3. QED
        BY <1>2, <2>1, <4>1, <4>2 DEF ReadEvent, TypeOK
    <3>4. QED
      BY <2>2, <3>2, <3>3
  <2>3. CASE Unit(k) \notin {"HELLO", "FILE", "PATH"}
    <3>1. Return(k)
      BY <1>2, <2>3 DEF ReadEvent
    <3>2. QED
      BY <1>2, <2>1, <3>1, TypedReturn DEF ReadEvent, TypeOK
  <2>4. QED
    BY <2>2, <2>3
<1>3. CASE ReadInSync(k)
  <2>1. inbox' \in [Conns -> Seq(Units)]
    BY <1>3, TypedConsume DEF ReadInSync
  <2>2. rcv \in [Conns -> Receiver]
    BY DEF TypeOK
  <2>3. CASE Unit(k) \in {"FILE", "PATH"}
    <3>1. /\ rcv' = [rcv EXCEPT ![k].pc = "wantlock", ![k].kind = Unit(k)]
          /\ UNCHANGED <<syncOwner, mutex, clients>>
      BY <1>3, <2>3 DEF ReadInSync
    <3>2. rcv' \in [Conns -> Receiver]
      BY <2>2, <2>3, <3>1, ZenonT(40) DEF Receiver, RcvPcs
    <3>3. QED
      BY <1>3, <2>1, <3>1, <3>2 DEF ReadInSync, TypeOK
  <2>4. CASE Unit(k) = "END"
    <3>1. /\ rcv' = [rcv EXCEPT ![k].sync = FALSE] /\ syncOwner' = None
          /\ clients' = Append(clients, slotOf[k]) /\ mutex' = mutex
      BY <1>3, <2>4 DEF ReadInSync, Listed
    <3>2. rcv' \in [Conns -> Receiver]
      <4>1. [rcv[k] EXCEPT !.sync = FALSE] \in Receiver
        BY <2>2, ReceiverSync
      <4>2. QED
        BY <2>2, <3>1, <4>1
    <3>3. clients' \in Seq(Slots)
      BY <3>1 DEF TypeOK
    <3>4. QED
      BY <1>3, <2>1, <3>1, <3>2, <3>3 DEF ReadInSync, TypeOK
  <2>5. CASE Unit(k) \notin {"END", "FILE", "PATH"}
    <3>1. Return(k) /\ clients' = clients
      BY <1>3, <2>5 DEF ReadInSync
    <3>2. QED
      BY <1>3, <2>1, <3>1, TypedReturn DEF ReadInSync, TypeOK
  <2>6. QED
    BY <2>3, <2>4, <2>5
<1>4. CASE ReadBody(k)
  <2>1. inbox' \in [Conns -> Seq(Units)]
    BY <1>4, TypedConsume DEF ReadBody
  <2>2. rcv \in [Conns -> Receiver]
    BY DEF TypeOK
  <2>3. rcv' \in [Conns -> Receiver]
    BY <1>4, <2>2, ZenonT(40) DEF ReadBody, Receiver, RcvPcs
  <2>4. mutex' \in [Slots -> {"free", "rcv", "snd", "lost"}]
    BY <1>4 DEF ReadBody, TypeOK
  <2>5. QED
    BY <1>4, <2>1, <2>3, <2>4 DEF ReadBody, TypeOK
<1>5. QED
  BY <1>1, <1>2, <1>3, <1>4

LEMMA TypedReceiver ==
  ASSUME TypeOK, NEW k \in Conns, ReceiverThread(k)
  PROVE  TypeOK'
<1> USE DEF slotVars, peerVars
<1>1. rcv \in [Conns -> Receiver]
  BY DEF TypeOK
<1>2. CASE LockSync(k)
  <2>1. rcv' \in [Conns -> Receiver]
    BY <1>1, <1>2, ZenonT(40) DEF LockSync, Receiver, RcvPcs
  <2>2. QED
    BY <1>2, <2>1 DEF LockSync, TypeOK
<1>3. CASE OfferAll(k)
  <2>1. CASE Writable(k)
    <3>1. rcv' \in [Conns -> Receiver]
      <4>1. [rcv[k] EXCEPT !.pc = "event"] \in Receiver
        BY <1>1, ReceiverPc DEF RcvPcs
      <4>2. QED
        BY <1>1, <1>3, <2>1, <4>1 DEF OfferAll
    <3>2. Source(k) \in Conns
      BY <2>1 DEF Writable, Source, TypeOK
    <3>3. net' \in [Conns -> Nets] /\ greeted' \subseteq Conns
      <4>1. net \in [Conns -> Nets] /\ greeted \subseteq Conns
        BY DEF TypeOK
      <4>2. net' = Written(k) /\ greeted' = greeted \cup {Source(k)}
        BY <1>3, <2>1 DEF OfferAll
      <4>3. Written(k) \in [Conns -> Nets]
        BY <3>2, <4>1 DEF Written, Nets
      <4>4. QED
        BY <3>2, <4>1, <4>2, <4>3
    <3>4. QED
      BY <1>3, <2>1, <3>1, <3>3 DEF OfferAll, TypeOK
  <2>2. CASE ~Writable(k)
    BY <1>3, <2>2, TypedReturn DEF OfferAll, TypeOK
  <2>3. QED
    BY <2>1, <2>2
<1>4. CASE LockForBody(k)
  <2>1. rcv' \in [Conns -> Receiver]
    BY <1>1, <1>4 DEF LockForBody, Receiver, RcvPcs
  <2>2. mutex' \in [Slots -> {"free", "rcv", "snd", "lost"}]
    BY <1>4 DEF LockForBody, TypeOK
  <2>3. QED
    BY <1>4, <2>1, <2>2 DEF LockForBody, TypeOK
<1>5. CASE StartBroadcast(k)
  <2>1. Present \ {k} \in SUBSET Conns /\ clients \in Seq(Slots)
    BY DEF Present, TypeOK
  <2>2. rcv' \in [Conns -> Receiver]
    <3>1. /\ rcv[k] \in Receiver /\ "bcast" \in RcvPcs
      BY <1>1 DEF RcvPcs
    <3>2. [rcv[k] EXCEPT !.pc = "bcast", !.todo = clients, !.reg = Present \ {k}] \in Receiver
      BY <2>1, <3>1, ReceiverLoop
    <3>3. QED
      BY <1>1, <1>5, <3>2 DEF StartBroadcast
  <2>3. QED
    BY <1>5, <2>2 DEF StartBroadcast, TypeOK
<1>6. CASE BroadcastOne(k)
  <2>1. rcv[k].todo \in Seq(Slots) /\ rcv[k].todo # <<>>
    BY <1>1, <1>6 DEF BroadcastOne, Receiver
  <2>2. Head(rcv[k].todo) \in Slots /\ Tail(rcv[k].todo) \in Seq(Slots)
    BY <2>1
  <2>3. rcv' \in [Conns -> Receiver]
    <3>1. rcv' = [rcv EXCEPT ![k].todo = Tail(rcv[k].todo)]
      BY <1>6 DEF BroadcastOne
    <3>2. [rcv[k] EXCEPT !.todo = Tail(rcv[k].todo)] \in Receiver
      BY <1>1, <2>2, ReceiverTodo
    <3>3. QED
      BY <1>1, <3>1, <3>2
  <2>4. queue' \in [Slots -> Seq(Conns)] /\ got' \in [Conns -> Seq(Conns)]
    <3>1. CASE Skipped(k, Head(rcv[k].todo))
      BY <1>6, <3>1 DEF BroadcastOne, TypeOK
    <3>2. CASE ~Skipped(k, Head(rcv[k].todo))
      <4> DEFINE s == Head(rcv[k].todo)
      <4>1. queue' = [queue EXCEPT ![s] = Append(queue[s], k)]
        BY <1>6, <3>2 DEF BroadcastOne
      <4>2. \/ got' = got
            \/ occ[s] # None /\ got' = [got EXCEPT ![occ[s]] = Append(got[occ[s]], k)]
        BY <1>6, <3>2 DEF BroadcastOne
      <4>3. queue' \in [Slots -> Seq(Conns)]
        BY <2>2, <4>1 DEF TypeOK
      <4>4. got' \in [Conns -> Seq(Conns)]
        <5>1. got \in [Conns -> Seq(Conns)] /\ occ[s] \in Conns \cup {None}
          BY <2>2 DEF TypeOK
        <5>2. CASE got' = got
          BY <5>1, <5>2
        <5>3. CASE occ[s] # None /\ got' = [got EXCEPT ![occ[s]] = Append(got[occ[s]], k)]
          <6> DEFINE o == occ[s]
          <6>1. o \in Conns
            BY <5>1, <5>3
          <6>2. Append(got[o], k) \in Seq(Conns)
            BY <5>1, <6>1
          <6> HIDE DEF o
          <6>3. got' = [got EXCEPT ![o] = Append(got[o], k)]
            BY <5>3 DEF o
          <6>4. QED
            BY <5>1, <6>1, <6>2, <6>3
        <5>4. QED
          BY <4>2, <5>2, <5>3
      <4>5. QED
        BY <4>3, <4>4
    <3>3. QED
      BY <3>1, <3>2
  <2>5. QED
    BY <1>6, <2>3, <2>4 DEF BroadcastOne, TypeOK
<1>7. CASE EndBroadcast(k)
  <2>1. rcv' \in [Conns -> Receiver]
    <3>1. rcv' = [rcv EXCEPT ![k] = [rcv[k] EXCEPT !.pc = "event", !.reg = {}]]
      BY <1>1, <1>7 DEF EndBroadcast
    <3>2. rcv[k] \in Receiver /\ "event" \in RcvPcs
      BY <1>1 DEF RcvPcs
    <3>3. [rcv[k] EXCEPT !.pc = "event", !.reg = {}] \in Receiver
      BY <3>2 DEF Receiver
    <3>4. QED
      BY <1>1, <3>1, <3>3
  <2>2. QED
    BY <1>7, <2>1 DEF EndBroadcast, TypeOK
<1>8. QED
  BY <1>2, <1>3, <1>4, <1>5, <1>6, <1>7, TypedRead DEF ReceiverThread

LEMMA TypedSender ==
  ASSUME TypeOK, NEW k \in Conns, SenderThread(k)
  PROVE  TypeOK'
<1> DEFINE s == slotOf[k]
<1>0. s \in Slots /\ snd \in [Conns -> SndPcs] /\ mutex \in [Slots -> {"free", "rcv", "snd", "lost"}]
  BY DEF TypeOK
<1>1. CASE Dequeue(k)
  <2>1. queue \in [Slots -> Seq(Conns)] /\ queue[s] # <<>>
    BY <1>1 DEF Dequeue, TypeOK
  <2>2. Tail(queue[s]) \in Seq(Conns)
    BY <1>0, <2>1
  <2>3. queue' \in [Slots -> Seq(Conns)] /\ snd' \in [Conns -> SndPcs]
    <3>1. queue' = [queue EXCEPT ![s] = Tail(queue[s])] /\ snd' = [snd EXCEPT ![k] = "wantlock"]
      BY <1>1 DEF Dequeue
    <3> HIDE DEF s
    <3>2. QED
      BY <1>0, <2>1, <2>2, <3>1 DEF SndPcs
  <2>4. QED
    BY <1>1, <2>3 DEF Dequeue, TypeOK, peerVars
<1>2. CASE LockToSend(k) \/ SendFails(k)
  <2>1. mutex' \in [Slots -> {"free", "rcv", "snd", "lost"}] /\ snd' \in [Conns -> SndPcs]
    BY <1>0, <1>2 DEF LockToSend, SendFails, SndPcs
  <2>2. QED
    BY <1>2, <2>1, SMTT(30) DEF LockToSend, SendFails, TypeOK, peerVars
<1>3. CASE SendDone(k)
  <2>1. net' \in [Conns -> Nets]
    <3> DEFINE p == Peer(k)
    <3>1. net \in [Conns -> Nets] /\ "broken" \in Nets
      BY DEF Nets, TypeOK
    <3>2. net' = [net EXCEPT ![p] = IF @ = "fin" THEN "broken" ELSE @]
      BY <1>3 DEF SendDone
    <3> HIDE DEF p
    <3>3. CASE p \in Conns
      BY <3>1, <3>2, <3>3
    <3>4. CASE p \notin Conns
      BY <3>1, <3>2, <3>4
    <3>5. QED
      BY <3>3, <3>4
  <2>2. mutex' \in [Slots -> {"free", "rcv", "snd", "lost"}] /\ snd' \in [Conns -> SndPcs]
    BY <1>0, <1>3 DEF SendDone, SndPcs
  <2>3. QED
    BY <1>3, <2>1, <2>2 DEF SendDone, TypeOK
<1>4. CASE CloseSocket(k)
  <2>1. fdt' \in [Fds -> Conns \cup {None}]
    <3> DEFINE f == sock[s]
    <3>1. fdt \in [Fds -> Conns \cup {None}] /\ fdt' = [fdt EXCEPT ![f] = None]
      BY <1>4 DEF CloseSocket, TypeOK
    <3> HIDE DEF f
    <3>2. QED
      BY <3>1
  <2>2. snd' \in [Conns -> SndPcs]
    BY <1>0, <1>4 DEF CloseSocket, SndPcs
  <2>3. QED
    BY <1>4, <2>1, <2>2 DEF CloseSocket, TypeOK, slotVars, peerVars
<1>5. CASE ClearAlive(k)
  <2>1. alive' \in [Slots -> BOOLEAN] /\ snd' \in [Conns -> SndPcs]
    BY <1>0, <1>5 DEF ClearAlive, SndPcs, TypeOK
  <2>2. QED
    BY <1>5, <2>1 DEF ClearAlive, TypeOK, peerVars
<1>6. QED
  BY <1>1, <1>2, <1>3, <1>4, <1>5 DEF SenderThread

LEMMA TypedStep == TypeOK /\ [Next]_vars => TypeOK'
<1>1. CASE UNCHANGED vars
  BY <1>1 DEF vars, TypeOK
<1>2. QED
  BY <1>1, TypedNetwork, TypedAccept, TypedReceiver, TypedSender DEF Next

\* Types are right in every reachable state of the server.
THEOREM TypeCorrect == Spec => []TypeOK
  BY TypedInit, TypedStep, PTL DEF Spec

-----------------------------------------------------------------------------
(* Ownership of slots and descriptors.  SenderOwnsConnection is not inductive: it  *)
(* depends on what the accept loop has in its hands, on the thread that has    *)
(* closed its socket and not yet cleared isAlive, and on the kernel.         *)

\* No connection is behind two descriptors.
OneDescriptor == \A f, g \in Fds : fdt[f] = fdt[g] /\ fdt[f] # None => f = g

Owns(k) == /\ fdOf[k] \in Fds /\ fdt[fdOf[k]] = k
           /\ occ[slotOf[k]] = k /\ sock[slotOf[k]] = fdOf[k] /\ alive[slotOf[k]]
SendersOwn == \A k \in Conns : snd[k] \in Sending => Owns(k)

\* Between close and isAlive = false the slot cannot be given out.
CloserKeepsSlot ==
    \A k \in Conns : snd[k] = "closed" => occ[slotOf[k]] = k /\ alive[slotOf[k]]

Accepted ==
    acc.pc # "accept" => /\ acc.conn \in Conns /\ acc.fd \in Fds
                         /\ fdt[acc.fd] = acc.conn /\ snd[acc.conn] = "none"

FreeSlot ==
    /\ acc.pc \in {"clear", "assign", "start"} => ~alive[it]
    /\ acc.pc = "start" => sock[it] = acc.fd /\ occ[it] = acc.conn

Owned == TypeOK /\ OneDescriptor /\ SendersOwn /\ CloserKeepsSlot /\ Accepted /\ FreeSlot

LEMMA OwnedInit == Init => Owned
<1> SUFFICES ASSUME Init PROVE Owned
  OBVIOUS
<1>1. TypeOK
  BY TypedInit
<1>2. OneDescriptor /\ SendersOwn /\ CloserKeepsSlot /\ Accepted /\ FreeSlot
  BY DEF Init, OneDescriptor, SendersOwn, Owns, Sending, CloserKeepsSlot, Accepted, FreeSlot
<1>3. QED
  BY <1>1, <1>2 DEF Owned

\* The steps of clients, of receivers and of a sender that has nothing to close.
LEMMA OwnedElsewhere ==
  ASSUME Owned, TypeOK', UNCHANGED <<acc, it, alive, sock, occ, fdt, slotOf, fdOf>>,
         \A k \in Conns : snd'[k] = snd[k] \/ (snd[k] \in Sending /\ snd'[k] \in Sending)
  PROVE  Owned'
<1> USE DEF Owned
<1>1. OneDescriptor'
  BY DEF OneDescriptor
<1>2. SendersOwn'
  BY DEF SendersOwn, Owns
<1>3. CloserKeepsSlot'
  BY DEF CloserKeepsSlot, Sending
<1>4. Accepted'
  BY DEF Accepted, Sending
<1>5. FreeSlot'
  BY DEF FreeSlot
<1>6. QED
  BY <1>1, <1>2, <1>3, <1>4, <1>5

LEMMA OwnedAccept ==
  ASSUME Owned, TypeOK', NEW k \in Conns, NEW fd \in Fds, Accept(k, fd)
  PROVE  Owned'
<1> USE DEF Owned, TypeOK, Accept, slotVars, threadVars
<1>1. fdt[fd] = None /\ fdt' = [fdt EXCEPT ![fd] = k] /\ \A f \in Fds : fdt[f] # k
  OBVIOUS
<1>2. OneDescriptor'
  BY <1>1 DEF OneDescriptor
<1>3. SendersOwn'
  BY <1>1, SlotsAssumption DEF SendersOwn, Owns
<1>4. CloserKeepsSlot' /\ Accepted' /\ FreeSlot'
  BY <1>1 DEF CloserKeepsSlot, Accepted, FreeSlot
<1>5. QED
  BY <1>2, <1>3, <1>4

LEMMA OwnedTable ==
  ASSUME Owned, TypeOK', Search \/ Clear \/ Assign \/ Start
  PROVE  Owned'
<1> USE DEF Owned
<1>1. OneDescriptor'
  BY DEF OneDescriptor, Search, Clear, Assign, Start
<1>2. CASE Search
  <2>1. SendersOwn' /\ CloserKeepsSlot'
    BY <1>2 DEF Search, SendersOwn, Owns, CloserKeepsSlot, slotVars, threadVars
  <2>2. Accepted'
    BY <1>2 DEF Search, Accepted, slotVars, threadVars, TypeOK
  <2>3. FreeSlot'
    BY <1>2 DEF Search, FreeSlot, slotVars, TypeOK
  <2>4. QED
    BY <1>1, <2>1, <2>2, <2>3
<1>3. CASE Clear
  BY <1>1, <1>3
  DEF Clear, SendersOwn, Owns, CloserKeepsSlot, Accepted, FreeSlot, threadVars, TypeOK
<1>4. CASE Assign
  <2>1. ~alive[it] /\ it \in Slots
    BY <1>4 DEF Assign, FreeSlot, TypeOK
  <2>2. SendersOwn'
    <3>1. SUFFICES ASSUME NEW j \in Conns, snd'[j] \in Sending PROVE Owns(j)'
      BY DEF SendersOwn
    <3>2. Owns(j) /\ slotOf[j] \in Slots
      BY <1>4, <3>1 DEF Assign, SendersOwn, threadVars, TypeOK
    <3>3. slotOf[j] # it
      BY <2>1, <3>2 DEF Owns
    <3>4. /\ sock' = [sock EXCEPT ![it] = acc.fd] /\ occ' = [occ EXCEPT ![it] = acc.conn]
          /\ UNCHANGED <<alive, fdt, slotOf, fdOf>>
      BY <1>4 DEF Assign, threadVars
    <3>5. sock'[slotOf[j]] = sock[slotOf[j]] /\ occ'[slotOf[j]] = occ[slotOf[j]]
      BY <3>2, <3>3, <3>4 DEF TypeOK
    <3>6. QED
      BY <3>2, <3>4, <3>5 DEF Owns
  <2>3. CloserKeepsSlot'
    BY <1>4, <2>1 DEF Assign, CloserKeepsSlot, threadVars, TypeOK
  <2>4. Accepted' /\ FreeSlot'
    BY <1>4, <2>1 DEF Assign, Accepted, FreeSlot, threadVars, TypeOK
  <2>5. QED
    BY <1>1, <2>2, <2>3, <2>4
<1>5. CASE Start
  <2> DEFINE k == acc.conn
  <2>1. /\ k \in Conns /\ acc.fd \in Fds /\ fdt[acc.fd] = k /\ snd[k] = "none"
        /\ it \in Slots /\ sock[it] = acc.fd /\ occ[it] = k
    BY <1>5 DEF Start, Accepted, FreeSlot, TypeOK
  <2>2. /\ alive' = [alive EXCEPT ![it] = TRUE] /\ slotOf' = [slotOf EXCEPT ![k] = it]
        /\ fdOf' = [fdOf EXCEPT ![k] = acc.fd] /\ snd' = [snd EXCEPT ![k] = "dequeue"]
        /\ UNCHANGED <<fdt, occ, sock>>
    BY <1>5, <2>1 DEF Start
  <2>3. SendersOwn'
    <3>1. SUFFICES ASSUME NEW j \in Conns, snd'[j] \in Sending PROVE Owns(j)'
      BY DEF SendersOwn
    <3>2. slotOf \in [Conns -> Slots] /\ alive \in [Slots -> BOOLEAN] /\ fdOf \in [Conns -> Fds \cup {0}]
      BY DEF TypeOK
    <3>3. CASE j = k
      BY <2>1, <2>2, <3>2, <3>3 DEF Owns
    <3>4. CASE j # k
      <4>1. Owns(j)
        BY <2>2, <3>1, <3>4 DEF SendersOwn, TypeOK
      <4>2. slotOf'[j] = slotOf[j] /\ fdOf'[j] = fdOf[j] /\ alive'[slotOf[j]]
        BY <2>1, <2>2, <3>2, <3>4, <4>1 DEF Owns
      <4>3. QED
        BY <2>2, <4>1, <4>2 DEF Owns
    <3>5. QED
      BY <3>3, <3>4
  <2>4. CloserKeepsSlot'
    BY <2>1, <2>2 DEF CloserKeepsSlot, TypeOK
  <2>5. Accepted' /\ FreeSlot'
    BY <1>5 DEF Start, Accepted, FreeSlot
  <2>6. QED
    BY <1>1, <2>3, <2>4, <2>5
<1>6. QED
  BY <1>2, <1>3, <1>4, <1>5

\* The descriptor that is closed is the thread's own, and nobody else uses it.
LEMMA OwnedClose ==
  ASSUME Owned, TypeOK', NEW k \in Conns, CloseSocket(k)
  PROVE  Owned'
<1> USE DEF Owned
<1>1. /\ fdOf[k] \in Fds /\ fdt[fdOf[k]] = k /\ occ[slotOf[k]] = k
      /\ sock[slotOf[k]] = fdOf[k] /\ alive[slotOf[k]]
  BY DEF CloseSocket, SendersOwn, Owns, Sending
<1>2. /\ fdt' = [fdt EXCEPT ![fdOf[k]] = None] /\ snd' = [snd EXCEPT ![k] = "closed"]
      /\ UNCHANGED <<acc, it, alive, sock, occ, slotOf, fdOf>>
  BY <1>1 DEF CloseSocket, slotVars
<1>3. OneDescriptor'
  BY <1>1, <1>2 DEF OneDescriptor, TypeOK
<1>4. SendersOwn'
  <2>1. SUFFICES ASSUME NEW j \in Conns, snd'[j] \in Sending PROVE Owns(j)'
    BY DEF SendersOwn
  <2>2. j # k /\ Owns(j)
    BY <1>2, <2>1 DEF SendersOwn, Sending, TypeOK
  <2>3. fdOf[j] # fdOf[k] /\ fdOf[j] \in Fds
    BY <1>1, <2>2 DEF Owns
  <2>4. fdt'[fdOf[j]] = fdt[fdOf[j]]
    BY <1>2, <2>3 DEF TypeOK
  <2>5. QED
    BY <1>2, <2>2, <2>4 DEF Owns
<1>5. CloserKeepsSlot'
  BY <1>1, <1>2 DEF CloserKeepsSlot, TypeOK
<1>6. Accepted'
  <2>1. snd[k] = "failed"
    BY DEF CloseSocket
  <2>2. QED
    BY <1>1, <1>2, <2>1, SMTT(30) DEF Accepted, TypeOK
<1>7. FreeSlot'
  BY <1>2 DEF FreeSlot
<1>8. QED
  BY <1>3, <1>4, <1>5, <1>6, <1>7

LEMMA OwnedClear ==
  ASSUME Owned, TypeOK', NEW k \in Conns, ClearAlive(k)
  PROVE  Owned'
<1> USE DEF Owned
<1>1. /\ snd[k] = "closed" /\ occ[slotOf[k]] = k /\ slotOf[k] \in Slots
      /\ alive' = [alive EXCEPT ![slotOf[k]] = FALSE] /\ snd' = [snd EXCEPT ![k] = "gone"]
      /\ UNCHANGED <<acc, it, sock, occ, fdt, slotOf, fdOf>>
  BY DEF ClearAlive, CloserKeepsSlot, TypeOK
<1>2. OneDescriptor'
  BY <1>1 DEF OneDescriptor
<1>3. SendersOwn'
  <2>1. SUFFICES ASSUME NEW j \in Conns, snd'[j] \in Sending PROVE Owns(j)'
    BY DEF SendersOwn
  <2>2. j # k /\ Owns(j) /\ slotOf[j] \in Slots
    BY <1>1, <2>1 DEF SendersOwn, Sending, TypeOK
  <2>3. slotOf[j] # slotOf[k]
    BY <1>1, <2>2 DEF Owns
  <2>4. alive'[slotOf[j]] = alive[slotOf[j]]
    BY <1>1, <2>2, <2>3 DEF TypeOK
  <2>5. QED
    BY <1>1, <2>2, <2>4 DEF Owns
<1>4. CloserKeepsSlot'
  BY <1>1 DEF CloserKeepsSlot, TypeOK
<1>5. Accepted' /\ FreeSlot'
  BY <1>1 DEF Accepted, FreeSlot, TypeOK
<1>6. QED
  BY <1>2, <1>3, <1>4, <1>5

LEMMA OwnedStep == Owned /\ [Next]_vars => Owned'
<1> SUFFICES ASSUME Owned, [Next]_vars PROVE Owned'
  OBVIOUS
<1>1. TypeOK'
  BY TypedStep DEF Owned
<1>2. ASSUME NEW k \in Conns, ClientStep(k) \/ Leave(k) PROVE Owned'
  BY <1>1, <1>2, OwnedElsewhere
  DEF ClientStep, Connect, Write, Leave, slotVars, threadVars
<1>3. CASE AcceptLoop
  BY <1>1, <1>3, OwnedAccept, OwnedTable DEF AcceptLoop
<1>4. ASSUME NEW k \in Conns, ReceiverThread(k) PROVE Owned'
  <2>1. UNCHANGED <<acc, it, alive, sock, occ, fdt, snd, slotOf, fdOf>>
    BY <1>4
    DEF ReceiverThread, ReadError, ReadEvent, LockSync, OfferAll, ReadInSync, LockForBody, ReadBody,
        StartBroadcast, BroadcastOne, EndBroadcast, slotVars
  <2>2. QED
    BY <1>1, <2>1, OwnedElsewhere
<1>5. ASSUME NEW k \in Conns, SenderThread(k) PROVE Owned'
  <2>1. CASE Dequeue(k) \/ LockToSend(k) \/ SendDone(k) \/ SendFails(k)
    <3>1. /\ UNCHANGED <<acc, it, alive, sock, occ, fdt, slotOf, fdOf>>
          /\ snd[k] \in Sending /\ snd' = [snd EXCEPT ![k] = snd'[k]] /\ snd'[k] \in Sending
      BY <2>1 DEF Dequeue, LockToSend, SendDone, SendFails, Fail, Sending, Owned, TypeOK
    <3>2. \A j \in Conns : snd'[j] = snd[j] \/ (snd[j] \in Sending /\ snd'[j] \in Sending)
      BY <3>1 DEF Owned, TypeOK
    <3>3. QED
      BY <1>1, <3>1, <3>2, OwnedElsewhere
  <2>2. QED
    BY <1>1, <1>5, <2>1, OwnedClose, OwnedClear DEF SenderThread
<1>6. CASE UNCHANGED vars
  BY <1>1, <1>6, OwnedElsewhere DEF vars
<1>7. QED
  BY <1>2, <1>3, <1>4, <1>5, <1>6 DEF Next

\* Until it has closed its socket, a sender thread writes to, reads messages for and
\* closes its own connection only (DropboxServer.cpp:17-40, :452-456).
THEOREM Ownership == Spec => []SenderOwnsConnection
<1>1. Owned => SenderOwnsConnection
  BY DEF Owned, SendersOwn, Owns, SenderOwnsConnection
<1>2. QED
  BY <1>1, OwnedInit, OwnedStep, PTL DEF Spec

-----------------------------------------------------------------------------
(* No echoes.  Only the slot that a connection runs on is ever labelled with it,   *)
(* and while it is, the slot's descriptor is the one its receiver compares with.   *)

Occupied ==
    \A s \in Slots, k \in Conns : occ[s] = k =>
        IF snd[k] = "none" THEN acc.pc = "start" /\ acc.conn = k /\ it = s
        ELSE s = slotOf[k] /\ sock[s] = fdOf[k]

\* The two threads of a connection are started together.
Paired == \A k \in Conns : rcv[k].pc = "none" => snd[k] = "none"
Started == \A k \in Conns : snd[k] = "none" => rcv[k].pc = "none"

Quiet == Occupied /\ Paired /\ Started /\ NoEcho

LEMMA QuietInit == Init => Quiet
  BY SlotsAssumption DEF Init, Quiet, Occupied, Paired, Started, NoEcho, NoThread

\* Steps that leave the table, the threads' states and the history alone.
LEMMA QuietElsewhere ==
  ASSUME Quiet, UNCHANGED <<occ, sock, slotOf, fdOf, got>>,
         UNCHANGED <<acc, it>> \/ (acc.pc # "start" /\ acc'.pc # "start"),
         \A k \in Conns : /\ snd'[k] = "none" <=> snd[k] = "none"
                          /\ rcv'[k].pc = "none" <=> rcv[k].pc = "none"
  PROVE  Quiet'
<1> USE DEF Quiet
<1>1. Occupied'
  BY DEF Occupied
<1>2. Paired' /\ Started' /\ NoEcho'
  BY DEF Paired, Started, NoEcho
<1>3. QED
  BY <1>1, <1>2

LEMMA QuietTable ==
  ASSUME Owned, Quiet, Assign \/ Start
  PROVE  Quiet'
<1> USE DEF Quiet
<1>1. CASE Assign
  <2>1. /\ acc.pc = "assign" /\ acc'.pc = "start" /\ acc'.conn = acc.conn /\ it' = it
        /\ sock' = [sock EXCEPT ![it] = acc.fd] /\ occ' = [occ EXCEPT ![it] = acc.conn]
        /\ UNCHANGED <<rcv, snd, slotOf, fdOf, got>>
    BY <1>1 DEF Assign, threadVars, Owned, TypeOK
  <2>2. snd[acc.conn] = "none" /\ acc.conn \in Conns
    BY <2>1 DEF Owned, Accepted
  <2>3. Occupied'
    <3>1. SUFFICES ASSUME NEW s \in Slots, NEW k \in Conns, occ'[s] = k
                   PROVE  IF snd[k] = "none" THEN acc.conn = k /\ it = s
                          ELSE s = slotOf[k] /\ sock'[s] = fdOf[k]
      BY <2>1 DEF Occupied
    <3>2. CASE s = it
      BY <2>1, <2>2, <3>1, <3>2 DEF Owned, TypeOK
    <3>3. CASE s # it
      BY <2>1, <3>1, <3>3 DEF Occupied, Owned, TypeOK
    <3>4. QED
      BY <3>2, <3>3
  <2>4. Paired' /\ Started' /\ NoEcho'
    BY <2>1 DEF Paired, Started, NoEcho
  <2>5. QED
    BY <2>3, <2>4
<1>2. CASE Start
  <2> DEFINE c == acc.conn
  <2>1. /\ c \in Conns /\ snd[c] = "none" /\ acc.pc = "start"
        /\ it \in Slots /\ sock[it] = acc.fd
    BY <1>2 DEF Start, Owned, Accepted, FreeSlot, TypeOK
  <2>2. /\ slotOf' = [slotOf EXCEPT ![c] = it] /\ fdOf' = [fdOf EXCEPT ![c] = acc.fd]
        /\ rcv' = [rcv EXCEPT ![c].pc = "event"] /\ snd' = [snd EXCEPT ![c] = "dequeue"]
        /\ UNCHANGED <<occ, sock, got>>
    BY <1>2, <2>1 DEF Start
  <2>3. /\ slotOf \in [Conns -> Slots] /\ fdOf \in [Conns -> Fds \cup {0}]
        /\ rcv \in [Conns -> Receiver] /\ snd \in [Conns -> SndPcs]
    BY DEF Owned, TypeOK
  <2>4. Occupied'
    <3>1. SUFFICES ASSUME NEW s \in Slots, NEW k \in Conns, occ[s] = k
                   PROVE  snd'[k] # "none" /\ s = slotOf'[k] /\ sock[s] = fdOf'[k]
      BY <2>2 DEF Occupied
    <3>2. CASE k = c
      BY <2>1, <2>2, <2>3, <3>1, <3>2 DEF Occupied
    <3>3. CASE k # c
      BY <2>1, <2>2, <2>3, <3>1, <3>3 DEF Occupied
    <3>4. QED
      BY <3>2, <3>3
  <2>5. rcv'[c].pc = "event" /\ \A k \in Conns \ {c} : rcv'[k] = rcv[k]
    <3>1. rcv[c] \in Receiver
      BY <2>1, <2>3
    <3>2. QED
      BY <2>1, <2>2, <2>3, <3>1 DEF Receiver
  <2>6. Paired' /\ Started' /\ NoEcho'
    BY <2>1, <2>2, <2>3, <2>5 DEF Paired, Started, NoEcho
  <2>7. QED
    BY <2>4, <2>6
<1>3. QED
  BY <1>1, <1>2

\* The loop body of the broadcast procedures: were the slot the originator's, its
\* descriptor would be the one that is compared.
LEMMA QuietBroadcast ==
  ASSUME Owned, Quiet, NEW k \in Conns, BroadcastOne(k)
  PROVE  NoEcho'
<1> DEFINE s == Head(rcv[k].todo)
<1>1. rcv[k].pc = "bcast" /\ rcv[k].todo # <<>> /\ rcv[k] \in Receiver
  BY DEF BroadcastOne, Owned, TypeOK
<1>2. s \in Slots
  BY <1>1 DEF Receiver
<1>3. CASE got' = got
  BY <1>3 DEF Quiet, NoEcho
<1>4. CASE /\ ~Skipped(k, s) /\ occ[s] # None
           /\ got' = [got EXCEPT ![occ[s]] = Append(got[occ[s]], k)]
  <2>1. occ[s] # k
    <3>1. SUFFICES ASSUME occ[s] = k PROVE FALSE
      OBVIOUS
    <3>2. snd[k] # "none"
      BY <1>1 DEF Quiet, Started
    <3>3. s = slotOf[k] /\ sock[s] = fdOf[k]
      BY <1>2, <3>1, <3>2 DEF Quiet, Occupied
    <3>4. ReadFd(k) = sock[s]
      BY <3>3 DEF ReadFd
    <3>5. QED
      BY <1>4, <3>4 DEF Skipped
  <2>2. got \in [Conns -> Seq(Conns)] /\ occ[s] \in Conns
    BY <1>2, <1>4 DEF Owned, TypeOK
  <2> DEFINE o == occ[s]
  <2>3. o \in Conns /\ o # k /\ got' = [got EXCEPT ![o] = Append(got[o], k)]
    BY <1>4, <2>1, <2>2
  <2> HIDE DEF o
  <2>4. SUFFICES ASSUME NEW j \in Conns, NEW i \in 1 .. Len(got'[j]) PROVE got'[j][i] # j
    BY DEF NoEcho
  <2>5. CASE j = o
    <3>1. got'[o] = Append(got[o], k) /\ got[o] \in Seq(Conns)
      BY <2>2, <2>3
    <3>2. i \in 1 .. Len(got[o]) + 1
      BY <2>4, <2>5, <3>1
    <3>3. CASE i = Len(got[o]) + 1
      BY <2>3, <2>5, <3>1, <3>3
    <3>4. CASE i # Len(got[o]) + 1
      <4>1. i \in 1 .. Len(got[o]) /\ got'[o][i] = got[o][i]
        BY <3>1, <3>2, <3>4
      <4>2. QED
        BY <2>3, <2>5, <4>1 DEF Quiet, NoEcho
    <3>5. QED
      BY <3>3, <3>4
  <2>6. CASE j # o
    BY <2>2, <2>3, <2>4, <2>6 DEF Quiet, NoEcho
  <2>7. QED
    BY <2>5, <2>6
<1>5. QED
  BY <1>3, <1>4 DEF BroadcastOne

\* A receiver thread keeps running or returns; the other threads are not touched.
LEMMA ReceiverRuns ==
  ASSUME TypeOK, NEW k \in Conns, ReceiverThread(k)
  PROVE  \A j \in Conns : rcv'[j].pc = "none" <=> rcv[j].pc = "none"
<1>1. rcv \in [Conns -> Receiver] /\ rcv[k] \in Receiver
  BY DEF TypeOK
<1>2. ASSUME Return(k), rcv[k].pc # "none"
      PROVE  \A j \in Conns : rcv'[j].pc = "none" <=> rcv[j].pc = "none"
  BY <1>1, <1>2 DEF Return, Receiver
<1>3. CASE ReadError(k)
  BY <1>2, <1>3 DEF ReadError
<1>4. CASE ReadEvent(k)
  <2>1. \/ Return(k)
        \/ rcv' = [rcv EXCEPT ![k].pc = "wantsync"]
        \/ rcv' = [rcv EXCEPT ![k].pc = "wantlock", ![k].kind = Unit(k)]
    BY <1>4 DEF ReadEvent
  <2>2. QED
    BY <1>1, <1>2, <1>4, <2>1 DEF ReadEvent, Receiver
<1>5. CASE ReadInSync(k)
  <2>1. \/ Return(k)
        \/ rcv' = [rcv EXCEPT ![k].sync = FALSE]
        \/ rcv' = [rcv EXCEPT ![k].pc = "wantlock", ![k].kind = Unit(k)]
    BY <1>5 DEF ReadInSync
  <2>2. QED
    BY <1>1, <1>2, <1>5, <2>1, ZenonT(40) DEF ReadInSync, Receiver
<1>6. CASE OfferAll(k)
  <2>1. Return(k) \/ rcv' = [rcv EXCEPT ![k].pc = "event"]
    BY <1>6 DEF OfferAll
  <2>2. QED
    BY <1>1, <1>2, <1>6, <2>1 DEF OfferAll, Receiver
<1>7. CASE LockSync(k) \/ LockForBody(k) \/ ReadBody(k)
  BY <1>1, <1>7 DEF LockSync, LockForBody, ReadBody, Receiver
<1>8. CASE StartBroadcast(k)
  BY <1>1, <1>8 DEF StartBroadcast, Receiver
<1>9. CASE BroadcastOne(k)
  <2>1. rcv' = [rcv EXCEPT ![k].todo = Tail(rcv[k].todo)]
    BY <1>9 DEF BroadcastOne
  <2>2. QED
    BY <1>1, <2>1 DEF Receiver
<1>10. CASE EndBroadcast(k)
  BY <1>1, <1>10 DEF EndBroadcast, Receiver
<1>11. QED
  BY <1>3, <1>4, <1>5, <1>7, <1>8, <1>9, <1>10, <1>6 DEF ReceiverThread

LEMMA QuietStep == Owned /\ Quiet /\ [Next]_vars => Quiet'
<1> SUFFICES ASSUME Owned, Quiet, [Next]_vars PROVE Quiet'
  OBVIOUS
<1>1. ASSUME NEW k \in Conns, ClientStep(k) \/ Leave(k) PROVE Quiet'
  BY <1>1, QuietElsewhere DEF ClientStep, Connect, Write, Leave, slotVars, threadVars
<1>2. ASSUME NEW k \in Conns, NEW fd \in Fds, Accept(k, fd) PROVE Quiet'
  BY <1>2, QuietElsewhere DEF Accept, slotVars, threadVars
<1>3. CASE Search \/ Clear
  <2>1. acc.pc \in {"search", "clear"} /\ acc'.pc \in {"search", "clear", "assign"}
    BY <1>3 DEF Search, Clear, Owned, TypeOK
  <2>2. UNCHANGED <<occ, sock, rcv, snd, slotOf, fdOf, got>>
    BY <1>3 DEF Search, Clear, slotVars, threadVars
  <2>3. QED
    BY <2>1, <2>2, QuietElsewhere
<1>4. CASE Assign \/ Start
  BY <1>4, QuietTable
<1>5. ASSUME NEW k \in Conns, ReceiverThread(k) PROVE Quiet'
  <2>1. UNCHANGED <<acc, it, occ, sock, snd, slotOf, fdOf>>
    BY <1>5
    DEF ReceiverThread, ReadError, ReadEvent, LockSync, OfferAll, ReadInSync, LockForBody, ReadBody,
        StartBroadcast, BroadcastOne, EndBroadcast, slotVars
  <2>2. \A j \in Conns : rcv'[j].pc = "none" <=> rcv[j].pc = "none"
    BY <1>5, ReceiverRuns DEF Owned
  <2>3. CASE BroadcastOne(k)
    <3>1. NoEcho'
      BY <2>3, QuietBroadcast
    <3>2. Occupied' /\ Paired' /\ Started'
      BY <2>1, <2>2 DEF Quiet, Occupied, Paired, Started
    <3>3. QED
      BY <3>1, <3>2 DEF Quiet
  <2>4. CASE ~BroadcastOne(k)
    <3>1. got' = got
      BY <1>5, <2>4
      DEF ReceiverThread, ReadError, ReadEvent, LockSync, OfferAll, ReadInSync, LockForBody, ReadBody,
          StartBroadcast, EndBroadcast, slotVars
    <3>2. QED
      BY <2>1, <2>2, <3>1, QuietElsewhere
  <2>5. QED
    BY <2>3, <2>4
<1>6. ASSUME NEW k \in Conns, SenderThread(k) PROVE Quiet'
  <2>1. /\ UNCHANGED <<acc, it, occ, sock, rcv, slotOf, fdOf, got>>
        /\ snd[k] # "none" /\ \E r : r # "none" /\ snd' = [snd EXCEPT ![k] = r]
    BY <1>6
    DEF SenderThread, Dequeue, LockToSend, SendDone, SendFails, Fail, CloseSocket, ClearAlive,
        slotVars
  <2>2. \A j \in Conns : snd'[j] = "none" <=> snd[j] = "none"
    BY <2>1 DEF Owned, TypeOK
  <2>3. QED
    BY <2>1, <2>2, QuietElsewhere
<1>7. CASE UNCHANGED vars
  BY <1>7, QuietElsewhere DEF vars
<1>8. QED
  BY <1>1, <1>2, <1>3, <1>4, <1>5, <1>6, <1>7 DEF Next, AcceptLoop

\* However connections, slots and descriptors come and go, no client is sent back
\* what it has reported (the comparisons at DropboxServer.cpp:356, :378, :400, :422).
THEOREM NoEchoes == Spec => []NoEcho
<1>1. Spec => []Owned
  BY OwnedInit, OwnedStep, PTL DEF Spec
<1>2. Quiet => NoEcho
  BY DEF Quiet
<1>3. QED
  BY <1>1, <1>2, QuietInit, QuietStep, PTL DEF Spec

-----------------------------------------------------------------------------
(* No message is sent to a client before its synchronisation is over, although   *)
(* slots stay in the list `clients` when they are given to another client.       *)

InList(seq, s) == \E i \in DOMAIN seq : seq[i] = s

\* Nothing has been broadcast into s, and nothing is going to be.
Clean(s) == /\ queue[s] = <<>> /\ ~InList(clients, s)
            /\ \A j \in Conns : ~InList(rcv[j].todo, s)

\* k has not been synchronised: it has not greeted, is being synchronised, or its
\* END_OF_SYNC has not been read.
Greeting(k) == pos[k] = 0 \/ InList(inbox[k], "HELLO")
Unsynced(k) == Greeting(k) \/ rcv[k].pc = "wantsync" \/ rcv[k].sync \/ ~EndRead(k)

\* How many units of k the server has read.
Done(k) == pos[k] - Len(inbox[k])

\* What has been written and not read is in the inbox.
Unread == \A k \in Conns : /\ Len(inbox[k]) <= pos[k] /\ pos[k] <= Len(Script[k])
                           /\ \A i \in 1 .. Len(inbox[k]) : inbox[k][i] = Script[k][Done(k) + i]

Working == {"dequeue", "wantlock", "send"}

\* A client begins with NEW_CLIENT and does not repeat it, and only its own
\* receiver reads it as long as it has a sender.
GreetsFirst ==
    \A k \in Conns : /\ pos[k] = 0 => inbox[k] = <<>>
                     /\ \A i \in DOMAIN inbox[k] : inbox[k][i] = "HELLO" => i = 1
GreetsOnce ==
    \A k \in Conns : snd[k] \in Sending /\ Greeting(k) => rcv[k].pc # "wantsync" /\ ~rcv[k].sync
Asleep == \A k \in Conns : rcv[k].pc = "none" => ~rcv[k].sync

\* sockMutex: who has it, and that it is lost when a sender has failed.
MutexRight ==
    \A k \in Conns :
        /\ rcv[k].pc = "body" => mutex[slotOf[k]] = "rcv"
        /\ snd[k] = "send" => mutex[slotOf[k]] = "snd"
        /\ snd[k] \in {"failed", "closed", "gone"} => mutex[slotOf[k]] = "lost"
OneReads ==
    \A j, k \in Conns :
        rcv[j].pc = "body" /\ rcv[k].pc = "body" /\ slotOf[j] = slotOf[k] => j = k

\* A slot that broadcasts come to serves a synchronised client, unless its mutex is
\* lost: then nobody sends what they bring.
Reached ==
    \A s \in Slots :
        \/ mutex[s] = "lost" \/ Clean(s)
        \/ \E k \in Conns : snd[k] \in Working /\ slotOf[k] = s /\ ~Unsynced(k)
Ready ==
    \A k \in Conns :
        snd[k] \in {"wantlock", "send"} => mutex[slotOf[k]] = "lost" \/ ~Unsynced(k)

Patient == /\ GreetsFirst /\ GreetsOnce /\ Asleep /\ Unread
           /\ MutexRight /\ OneReads /\ Reached /\ Ready

LEMMA PatientInit == Init => Patient
  BY SlotsAssumption DEF Init, Patient, GreetsFirst, GreetsOnce, Asleep, Unread, Done, MutexRight,
       OneReads, Reached, Ready, Clean, InList, Sending, Slots, NoThread

-----------------------------------------------------------------------------
(* What the steps do to the parts of the state that the invariant is about *)

\* A client greets at most once: what it writes later, and what is read, is no greeting.
LEMMA TailList ==
  ASSUME NEW S, NEW q \in Seq(S), q # <<>>
  PROVE  /\ \A i \in DOMAIN Tail(q) : i + 1 \in DOMAIN q /\ Tail(q)[i] = q[i + 1] /\ i >= 1
         /\ \A s : InList(Tail(q), s) => InList(q, s)
<1>1. \A i \in DOMAIN Tail(q) : i + 1 \in DOMAIN q /\ Tail(q)[i] = q[i + 1] /\ i >= 1
  OBVIOUS
<1>2. QED
  BY <1>1 DEF InList

LEMMA NeverGreetsAgain ==
  ASSUME TypeOK, GreetsFirst,
         NEW k \in Conns,
         \/ Write(k)
         \/ UNCHANGED pos /\ (inbox' = inbox \/ (CanRead(k) /\ Consume(k)))
  PROVE  /\ GreetsFirst'
         /\ \A j \in Conns : Greeting(j)' => Greeting(j)
<1>1. pos \in [Conns -> Nat] /\ inbox \in [Conns -> Seq(Units)]
  BY DEF TypeOK
<1>2. CASE Write(k)
  <2> DEFINE u == Script[k][pos[k] + 1]
  <2>1. /\ pos' = [pos EXCEPT ![k] = pos[k] + 1] /\ inbox' = [inbox EXCEPT ![k] = Append(inbox[k], u)]
        /\ pos[k] \in Nat /\ pos[k] < Len(Script[k]) /\ inbox[k] \in Seq(Units)
    BY <1>1, <1>2 DEF Write
  <2>2. Script[k] \in Seq(Units)
    BY SlotsAssumption
  <2>3. u = "HELLO" => pos[k] = 0
    <3>1. pos[k] + 1 \in DOMAIN Script[k]
      BY <2>1, <2>2
    <3>2. QED
      BY <2>1, <3>1, GreetingAssumption
  <2> HIDE DEF u
  <2>4. /\ \A i \in DOMAIN inbox'[k] : \/ i \in DOMAIN inbox[k] /\ inbox'[k][i] = inbox[k][i]
                                       \/ i = Len(inbox[k]) + 1 /\ inbox'[k][i] = u
        /\ pos'[k] # 0
    BY <1>1, <2>1
  <2>5. \A j \in Conns \ {k} : pos'[j] = pos[j] /\ inbox'[j] = inbox[j]
    BY <1>1, <2>1
  <2>6. Greeting(k)' => Greeting(k)
    BY <2>3, <2>4 DEF Greeting, InList
  <2>7. \A i \in DOMAIN inbox'[k] : inbox'[k][i] = "HELLO" => i = 1
    <3>1. pos[k] = 0 => Len(inbox[k]) = 0
      BY DEF GreetsFirst
    <3>2. QED
      BY <2>3, <2>4, <3>1 DEF GreetsFirst
  <2>8. QED
    BY <2>4, <2>5, <2>6, <2>7 DEF GreetsFirst, Greeting, InList
<1>3. CASE UNCHANGED <<pos, inbox>>
  BY <1>3 DEF GreetsFirst, Greeting, InList
<1>4. CASE UNCHANGED pos /\ CanRead(k) /\ Consume(k)
  <2> DEFINE o == Source(k)
  <2>1. o \in Conns /\ inbox[o] # <<>> /\ inbox' = [inbox EXCEPT ![o] = Tail(inbox[o])]
    BY <1>4 DEF CanRead, Consume, Source, TypeOK
  <2> HIDE DEF o
  <2>2. inbox'[o] = Tail(inbox[o]) /\ \A j \in Conns \ {o} : inbox'[j] = inbox[j]
    BY <1>1, <2>1
  <2>3. /\ \A i \in DOMAIN inbox'[o] : i + 1 \in DOMAIN inbox[o] /\ inbox'[o][i] = inbox[o][i + 1] /\ i >= 1
        /\ InList(inbox'[o], "HELLO") => InList(inbox[o], "HELLO")
    BY <1>1, <2>1, <2>2, TailList
  <2>4. \A i \in DOMAIN inbox'[o] : inbox'[o][i] # "HELLO"
    <3>1. SUFFICES ASSUME NEW i \in DOMAIN inbox'[o], inbox'[o][i] = "HELLO" PROVE FALSE
      OBVIOUS
    <3>2. i + 1 \in DOMAIN inbox[o] /\ inbox[o][i + 1] = "HELLO" /\ i >= 1 /\ i \in Nat
      <4>1. inbox'[o] \in Seq(Units)
        BY <1>1, <2>1, <2>2
      <4>2. QED
        BY <2>3, <3>1, <4>1
    <3>3. i + 1 = 1
      BY <2>1, <3>2 DEF GreetsFirst
    <3>4. QED
      BY <3>2, <3>3
  <2>5. pos[o] # 0
    BY <2>1 DEF GreetsFirst
  <2>6. QED
    BY <1>4, <2>2, <2>4, <2>5 DEF GreetsFirst, Greeting, InList
<1>5. QED
  BY <1>2, <1>3, <1>4

\* The next unit of a client's script is the next to be read, whatever thread reads it.
LEMMA ReadsNext ==
  ASSUME TypeOK, Unread, NEW t \in Conns, NEW k \in Conns, Source(t) = k, CanRead(t), Consume(t), UNCHANGED pos
  PROVE  /\ Unread'
         /\ Done(k) \in Nat /\ Done(k)' = Done(k) + 1 /\ Done(k) + 1 \in DOMAIN Script[k]
         /\ Unit(t) = Script[k][Done(k) + 1]
         /\ \A j \in Conns \ {k} : Done(j)' = Done(j)
<1>1. /\ pos \in [Conns -> Nat] /\ inbox \in [Conns -> Seq(Units)] /\ inbox[k] # <<>>
      /\ inbox' = [inbox EXCEPT ![k] = Tail(inbox[k])] /\ Script[k] \in Seq(Units)
  BY SlotsAssumption DEF TypeOK, CanRead, Consume
<1> DEFINE q == inbox[k]
           m == Len(q)
<1>2. m \in Nat /\ m > 0 /\ Len(Tail(q)) = m - 1 /\ Head(q) = q[1] /\ \A i \in 1 .. m - 1 : Tail(q)[i] = q[i + 1]
  BY <1>1
<1>3. m <= pos[k] /\ pos[k] <= Len(Script[k]) /\ \A i \in 1 .. m : q[i] = Script[k][Done(k) + i]
  BY DEF Unread
<1>4. inbox'[k] = Tail(q) /\ \A j \in Conns \ {k} : inbox'[j] = inbox[j]
  BY <1>1
<1>5. Done(k) = pos[k] - m
  BY DEF Done
<1>6. Done(k)' = pos[k] - (m - 1)
  BY <1>2, <1>4 DEF Done
<1>7. Done(k) \in Nat /\ Done(k)' = Done(k) + 1 /\ Done(k) + 1 \in DOMAIN Script[k]
  <2>1. pos[k] \in Nat /\ DOMAIN Script[k] = 1 .. Len(Script[k]) /\ Len(Script[k]) \in Nat
    BY <1>1
  <2>2. pos[k] - m \in Nat /\ pos[k] - (m - 1) = (pos[k] - m) + 1 /\ (pos[k] - m) + 1 \in 1 .. Len(Script[k])
    BY <1>2, <1>3, <2>1
  <2>3. QED
    BY <1>5, <1>6, <2>1, <2>2
<1>8. Unit(t) = q[1] /\ 1 \in 1 .. m
  BY <1>2 DEF Unit
<1> HIDE DEF m, q
<1>9. \A j \in Conns \ {k} : Done(j)' = Done(j)
  BY <1>4 DEF Done
<1>10. Unread'
  <2> SUFFICES ASSUME NEW j \in Conns
               PROVE  /\ Len(inbox'[j]) <= pos[j] /\ pos[j] <= Len(Script[j])
                      /\ \A i \in 1 .. Len(inbox'[j]) : inbox'[j][i] = Script[j][Done(j)' + i]
    BY DEF Unread
  <2>1. CASE j = k
    <3>1. Len(inbox'[k]) = m - 1 /\ m - 1 <= pos[k]
      <4>1. pos[k] \in Nat
        BY <1>1
      <4>2. Len(inbox'[k]) = m - 1
        BY <1>2, <1>4, Zenon
      <4>3. QED
        BY <1>2, <1>3, <4>1, <4>2
    <3>2. ASSUME NEW i \in 1 .. m - 1 PROVE inbox'[k][i] = Script[k][Done(k)' + i]
      <4>1. i + 1 \in 1 .. m /\ Done(k) + (i + 1) = (Done(k) + 1) + i
        BY <1>2, <1>7
      <4>2. inbox'[k][i] = q[i + 1]
        BY <1>2, <1>4
      <4>3. QED
        BY <1>3, <1>7, <4>1, <4>2
    <3>3. QED
      BY <1>3, <2>1, <3>1, <3>2
  <2>2. CASE j # k
    BY <1>4, <1>9, <2>2 DEF Unread
  <2>3. QED
    BY <2>1, <2>2
<1>11. QED
  BY <1>3, <1>7, <1>8, <1>9, <1>10

LEMMA WritesNext ==
  ASSUME TypeOK, Unread, NEW k \in Conns, Write(k)
  PROVE  Unread' /\ \A j \in Conns : Done(j)' = Done(j)
<1> DEFINE u == Script[k][pos[k] + 1]
           q == inbox[k]
<1>1. /\ pos \in [Conns -> Nat] /\ inbox \in [Conns -> Seq(Units)] /\ Script[k] \in Seq(Units)
      /\ pos' = [pos EXCEPT ![k] = pos[k] + 1] /\ inbox' = [inbox EXCEPT ![k] = Append(q, u)]
      /\ pos[k] < Len(Script[k])
  BY SlotsAssumption DEF TypeOK, Write
<1>2. pos'[k] = pos[k] + 1 /\ inbox'[k] = Append(q, u) /\ \A j \in Conns \ {k} : pos'[j] = pos[j] /\ inbox'[j] = inbox[j]
  BY <1>1
<1>3. /\ Len(q) \in Nat /\ pos[k] \in Nat /\ q \in Seq(Units) /\ Len(q) <= pos[k]
      /\ \A i \in 1 .. Len(q) : q[i] = Script[k][Done(k) + i]
  BY <1>1 DEF Unread
<1> HIDE DEF u, q
<1>4. /\ Len(Append(q, u)) = Len(q) + 1 /\ Append(q, u)[Len(q) + 1] = u
      /\ \A i \in 1 .. Len(q) : Append(q, u)[i] = q[i]
  BY <1>3
<1>5. Done(k) = pos[k] - Len(q) /\ Done(k)' = Done(k)
  BY <1>2, <1>3, <1>4 DEF Done, q
<1>6. \A j \in Conns : Done(j)' = Done(j)
  BY <1>2, <1>5 DEF Done
<1>7. Unread'
  <2> SUFFICES ASSUME NEW j \in Conns
               PROVE  /\ Len(inbox'[j]) <= pos'[j] /\ pos'[j] <= Len(Script[j])
                      /\ \A i \in 1 .. Len(inbox'[j]) : inbox'[j][i] = Script[j][Done(j)' + i]
    BY DEF Unread
  <2>1. CASE j = k
    <3>1. Len(inbox'[k]) = Len(q) + 1 /\ Len(inbox'[k]) <= pos'[k] /\ pos'[k] <= Len(Script[k])
      BY <1>1, <1>2, <1>3, <1>4
    <3>2. ASSUME NEW i \in 1 .. Len(q) + 1 PROVE inbox'[k][i] = Script[k][Done(k)' + i]
      <4>1. CASE i = Len(q) + 1
        <5>1. Done(k) + i = pos[k] + 1
          BY <1>3, <1>5, <4>1
        <5>2. QED
          BY <1>2, <1>4, <1>5, <4>1, <5>1 DEF u
      <4>2. CASE i # Len(q) + 1
        <5>1. i \in 1 .. Len(q)
          BY <1>3, <4>2
        <5>2. QED
          BY <1>2, <1>3, <1>4, <1>5, <5>1
      <4>3. QED
        BY <4>1, <4>2
    <3>3. QED
      BY <2>1, <3>1, <3>2
  <2>2. CASE j # k
    BY <1>2, <1>6, <2>2 DEF Unread
  <2>3. QED
    BY <2>1, <2>2
<1>8. QED
  BY <1>6, <1>7

\* An END_OF_SYNC that has been read stays so.
LEMMA StaysRead ==
  ASSUME TypeOK, Unread, NEW k \in Conns,
         \/ Write(k)
         \/ UNCHANGED pos /\ (inbox' = inbox \/ (CanRead(k) /\ Consume(k)))
  PROVE  Unread' /\ \A j \in Conns : EndRead(j) => EndRead(j)'
<1>1. CASE Write(k)
  BY <1>1, WritesNext DEF EndRead, Done
<1>2. CASE UNCHANGED <<pos, inbox>>
  BY <1>2 DEF Unread, EndRead, Done
<1>3. CASE UNCHANGED pos /\ CanRead(k) /\ Consume(k)
  <2>1. PICK o \in Conns : Source(k) = o
    BY <1>3 DEF CanRead, Source, TypeOK
  <2>2. Unread' /\ Done(o) \in Nat /\ Done(o)' = Done(o) + 1 /\ \A j \in Conns \ {o} : Done(j)' = Done(j)
    BY <1>3, <2>1, ReadsNext
  <2>3. ASSUME NEW j \in Conns, EndRead(j) PROVE EndRead(j)'
    <3>1. PICK i \in 1 .. Done(j) : Script[j][i] = "END"
      BY <2>3 DEF EndRead, Done
    <3>2. CASE j = o
      <4>1. i \in 1 .. Done(o) + 1
        BY <2>2, <3>2
      <4>2. QED
        BY <2>2, <3>1, <3>2, <4>1 DEF EndRead, Done
    <3>3. CASE j # o
      BY <2>2, <3>1, <3>3 DEF EndRead, Done
    <3>4. QED
      BY <3>2, <3>3
  <2>4. QED
    BY <2>2, <2>3
<1>4. QED
  BY <1>1, <1>2, <1>3

LEMMA ReceiverEffect ==
  ASSUME TypeOK, NEW k \in Conns, ReceiverThread(k)
  PROVE  /\ UNCHANGED <<pos, snd, slotOf>> /\ \A j \in Conns \ {k} : rcv'[j] = rcv[j]
         /\ rcv[k].pc # "none" /\ rcv'[k].pc # "none"
         /\ rcv'[k].pc = "wantsync" => ReadEvent(k) /\ Unit(k) = "HELLO"
         /\ rcv'[k].sync => rcv[k].sync \/ rcv[k].pc = "wantsync"
         /\ rcv'[k].pc = "body" => LockForBody(k)
         /\ inbox' = inbox \/ (CanRead(k) /\ Consume(k))
         /\ clients' = clients \/ (ReadInSync(k) /\ Unit(k) = "END")
         /\ queue' = queue \/ BroadcastOne(k)
         /\ \/ UNCHANGED mutex \/ LockForBody(k)
            \/ /\ rcv[k].pc = "body" /\ rcv'[k].pc # "body"
               /\ \E m \in {"free", "lost"} : mutex' = [mutex EXCEPT ![slotOf[k]] = m]
<1> DEFINE r == rcv[k]
<1>1. rcv \in [Conns -> Receiver] /\ r \in Receiver
  BY DEF TypeOK
<1> USE DEF slotVars, peerVars
<1>2. ASSUME Return(k), r.pc # "none"
      PROVE  /\ \A j \in Conns \ {k} : rcv'[j] = rcv[j]
             /\ rcv'[k].pc = "gone" /\ rcv'[k].sync = r.sync
             /\ \/ UNCHANGED mutex
                \/ r.pc = "body" /\ mutex' = [mutex EXCEPT ![slotOf[k]] = "lost"]
  BY <1>1, <1>2 DEF Return, Receiver
<1>3. CASE ReadError(k)
  BY <1>2, <1>3 DEF ReadError
<1>4. CASE ReadEvent(k)
  <2>1. \/ Return(k)
        \/ Unit(k) = "HELLO" /\ rcv' = [rcv EXCEPT ![k].pc = "wantsync"] /\ UNCHANGED mutex
        \/ rcv' = [rcv EXCEPT ![k].pc = "wantlock", ![k].kind = Unit(k)] /\ UNCHANGED mutex
    BY <1>4 DEF ReadEvent
  <2>2. r.pc = "event" /\ CanRead(k) /\ Consume(k) /\ UNCHANGED <<pos, snd, slotOf, clients, queue>>
    BY <1>4 DEF ReadEvent
  <2>3. CASE Return(k)
    BY <1>2, <2>2, <2>3
  <2>4. CASE ~Return(k)
    BY <1>1, <1>4, <2>1, <2>2, <2>4 DEF Receiver
  <2>5. QED
    BY <2>3, <2>4
<1>5. CASE ReadInSync(k)
  <2>1. \/ Return(k) /\ UNCHANGED clients
        \/ Unit(k) = "END" /\ rcv' = [rcv EXCEPT ![k].sync = FALSE] /\ UNCHANGED mutex
        \/ /\ rcv' = [rcv EXCEPT ![k].pc = "wantlock", ![k].kind = Unit(k)]
           /\ UNCHANGED <<mutex, clients>>
    BY <1>5 DEF ReadInSync
  <2>2. r.pc = "event" /\ r.sync /\ CanRead(k) /\ Consume(k) /\ UNCHANGED <<pos, snd, slotOf, queue>>
    BY <1>5 DEF ReadInSync
  <2>3. CASE Return(k) /\ UNCHANGED clients
    BY <1>2, <2>2, <2>3
  <2>4. CASE ~(Return(k) /\ UNCHANGED clients)
    BY <1>1, <1>5, <2>1, <2>2, <2>4 DEF Receiver
  <2>5. QED
    BY <2>3, <2>4
<1>6. CASE OfferAll(k)
  <2>1. /\ r.pc = "offer" /\ UNCHANGED <<pos, inbox, snd, slotOf, clients, queue>>
        /\ Return(k) \/ (rcv' = [rcv EXCEPT ![k].pc = "event"] /\ UNCHANGED mutex)
    BY <1>6 DEF OfferAll
  <2>2. CASE Return(k)
    BY <1>2, <2>1, <2>2
  <2>3. CASE rcv' = [rcv EXCEPT ![k].pc = "event"] /\ UNCHANGED mutex
    BY <1>1, <2>1, <2>3 DEF Receiver
  <2>4. QED
    BY <2>1, <2>2, <2>3
<1>7. CASE LockSync(k)
  BY <1>1, <1>7 DEF LockSync, Receiver
<1>8. CASE LockForBody(k)
  BY <1>1, <1>8 DEF LockForBody, Receiver
<1>9. CASE ReadBody(k)
  BY <1>1, <1>9 DEF ReadBody, Receiver
<1>10. CASE StartBroadcast(k) \/ EndBroadcast(k)
  BY <1>1, <1>10 DEF StartBroadcast, EndBroadcast, Receiver
<1>11. CASE BroadcastOne(k)
  <2>1. rcv' = [rcv EXCEPT ![k].todo = Tail(r.todo)] /\ r.pc = "bcast"
    BY <1>11 DEF BroadcastOne
  <2>2. QED
    BY <1>1, <1>11, <2>1 DEF BroadcastOne, Receiver
<1>12. QED
  BY <1>3, <1>4, <1>5, <1>6, <1>7, <1>8, <1>9, <1>10, <1>11 DEF ReceiverThread

\* What a broadcast has still to do comes from the list of clients.
LEMMA TodoListed ==
  ASSUME TypeOK, NEW k \in Conns, ReceiverThread(k),
         NEW s, InList(rcv'[k].todo, s)
  PROVE  InList(rcv[k].todo, s) \/ InList(clients, s)
<1>1. rcv \in [Conns -> Receiver] /\ rcv[k] \in Receiver
  BY DEF TypeOK
<1>2. CASE ~StartBroadcast(k) /\ ~BroadcastOne(k)
  <2>1. rcv'[k].todo = rcv[k].todo
    BY <1>1, <1>2
    DEF ReceiverThread, ReadError, ReadEvent, LockSync, OfferAll, ReadInSync, LockForBody, ReadBody,
        EndBroadcast, Return, Receiver
  <2>2. QED
    BY <2>1
<1>3. CASE StartBroadcast(k)
  <2>1. rcv'[k].todo = clients
    BY <1>1, <1>3 DEF StartBroadcast, Receiver
  <2>2. QED
    BY <2>1
<1>4. CASE BroadcastOne(k)
  <2>1. rcv[k].todo \in Seq(Slots) /\ rcv[k].todo # <<>>
    BY <1>1, <1>4 DEF BroadcastOne, Receiver
  <2>2. rcv'[k].todo = Tail(rcv[k].todo)
    <3>1. rcv' = [rcv EXCEPT ![k].todo = Tail(rcv[k].todo)]
      BY <1>4 DEF BroadcastOne
    <3>2. QED
      BY <1>1, <3>1 DEF Receiver
  <2>3. QED
    BY <2>1, <2>2, TailList
<1>5. QED
  BY <1>2, <1>3, <1>4

-----------------------------------------------------------------------------
(* Receiver threads *)

\* As long as a client has a sender, what its receiver reads is its own.
LEMMA ReadsOwn ==
  ASSUME Owned, NEW k \in Conns, snd[k] \in Sending
  PROVE  Source(k) = k
  BY DEF Owned, SendersOwn, Owns, Source, ReadFd

\* A client that has been synchronised is not synchronised again.
LEMMA StaysSynced ==
  ASSUME Owned, Patient, NEW k \in Conns, ReceiverThread(k),
         NEW j \in Conns, snd[j] \in Sending, ~Unsynced(j)
  PROVE  ~Unsynced(j)'
<1>1. ~Greeting(j)' /\ EndRead(j)'
  BY ReceiverEffect, NeverGreetsAgain, StaysRead DEF Owned, Patient, Unsynced
<1>2. CASE j # k
  <2>1. rcv'[j] = rcv[j]
    BY <1>2, ReceiverEffect DEF Owned
  <2>2. QED
    BY <1>1, <2>1 DEF Unsynced
<1>3. CASE j = k
  <2>1. ~rcv'[k].sync
    BY <1>3, ReceiverEffect DEF Owned, Unsynced
  <2>2. rcv'[k].pc # "wantsync"
    <3>1. SUFFICES ASSUME ReadEvent(k), Unit(k) = "HELLO" PROVE FALSE
      BY ReceiverEffect DEF Owned
    <3>2. Source(k) = k /\ inbox[k] \in Seq(Units) /\ inbox[k] # <<>>
      BY <1>3, <3>1, ReadsOwn DEF ReadEvent, CanRead, Owned, TypeOK
    <3>3. inbox[k][1] = "HELLO" /\ 1 \in DOMAIN inbox[k]
      BY <3>1, <3>2 DEF Unit
    <3>4. QED
      BY <1>3, <3>3 DEF Unsynced, Greeting, InList
  <2>3. QED
    BY <1>1, <1>3, <2>1, <2>2 DEF Unsynced
<1>4. QED
  BY <1>2, <1>3

\* It greets, is synchronised, and has no second greeting to read.
LEMMA ReceiverGreetsOnce ==
  ASSUME Owned, Patient, NEW k \in Conns, ReceiverThread(k)
  PROVE  GreetsOnce'
<1>1. SUFFICES ASSUME NEW j \in Conns, snd'[j] \in Sending, Greeting(j)'
               PROVE  rcv'[j].pc # "wantsync" /\ ~rcv'[j].sync
  BY DEF GreetsOnce
<1>2. snd[j] \in Sending /\ Greeting(j)
  BY <1>1, ReceiverEffect, NeverGreetsAgain DEF Owned, Patient
<1>3. rcv[j].pc # "wantsync" /\ ~rcv[j].sync
  BY <1>2 DEF Patient, GreetsOnce
<1>4. CASE j # k
  BY <1>3, <1>4, ReceiverEffect DEF Owned
<1>5. CASE j = k
  <2>1. ~rcv'[k].sync
    BY <1>3, <1>5, ReceiverEffect DEF Owned
  <2>2. SUFFICES ASSUME ReadEvent(k), Unit(k) = "HELLO" PROVE FALSE
    BY <1>5, <2>1, ReceiverEffect DEF Owned
  <2>3. Source(k) = k /\ inbox \in [Conns -> Seq(Units)] /\ inbox[k] # <<>>
    BY <1>2, <1>5, <2>2, ReadsOwn DEF ReadEvent, CanRead, Owned, TypeOK
  <2>4. inbox'[k] = Tail(inbox[k])
    BY <2>2, <2>3 DEF ReadEvent, Consume
  <2>5. \A i \in DOMAIN inbox'[k] : inbox'[k][i] # "HELLO"
    <3>1. SUFFICES ASSUME NEW i \in DOMAIN Tail(inbox[k]), Tail(inbox[k])[i] = "HELLO" PROVE FALSE
      BY <2>4
    <3>2. i + 1 \in DOMAIN inbox[k] /\ inbox[k][i + 1] = "HELLO" /\ i >= 1 /\ i \in Nat
      <4>1. Tail(inbox[k]) \in Seq(Units) /\ inbox[k] \in Seq(Units)
        BY <2>3
      <4>2. QED
        BY <2>3, <3>1, <4>1, TailList
    <3>3. i + 1 = 1
      BY <3>2 DEF Patient, GreetsFirst
    <3>4. QED
      BY <3>2, <3>3
  <2>6. pos'[k] # 0
    <3>1. pos' = pos
      BY ReceiverEffect DEF Owned
    <3>2. QED
      BY <2>3, <3>1 DEF Patient, GreetsFirst
  <2>7. QED
    BY <1>1, <1>5, <2>5, <2>6 DEF Greeting, InList
<1>6. QED
  BY <1>4, <1>5

LEMMA ReceiverMutex ==
  ASSUME Owned, Patient, NEW k \in Conns, ReceiverThread(k)
  PROVE  /\ MutexRight' /\ OneReads'
         /\ \A s \in Slots : mutex[s] = "lost" => mutex'[s] = "lost"
<1>1. /\ UNCHANGED <<snd, slotOf>> /\ \A j \in Conns \ {k} : rcv'[j] = rcv[j]
      /\ rcv'[k].pc = "body" => LockForBody(k)
      /\ \/ UNCHANGED mutex \/ LockForBody(k)
         \/ /\ rcv[k].pc = "body" /\ rcv'[k].pc # "body"
            /\ \E m \in {"free", "lost"} : mutex' = [mutex EXCEPT ![slotOf[k]] = m]
  BY ReceiverEffect DEF Owned
<1>2. /\ slotOf[k] \in Slots /\ \A j \in Conns : slotOf[j] \in Slots
      /\ mutex \in [Slots -> {"free", "rcv", "snd", "lost"}]
  BY DEF Owned, TypeOK
<1>3. MutexRight /\ OneReads
  BY DEF Patient
<1>4. CASE LockForBody(k)
  <2>1. mutex[slotOf[k]] = "free" /\ mutex' = [mutex EXCEPT ![slotOf[k]] = "rcv"]
    BY <1>4 DEF LockForBody
  <2>2. mutex'[slotOf[k]] = "rcv" /\ \A s \in Slots \ {slotOf[k]} : mutex'[s] = mutex[s]
    BY <1>2, <2>1
  <2>3. QED
    BY <1>1, <1>2, <1>3, <2>1, <2>2 DEF MutexRight, OneReads
<1>5. CASE ~LockForBody(k) /\ UNCHANGED mutex
  BY <1>1, <1>2, <1>3, <1>5 DEF MutexRight, OneReads
<1>6. CASE ~LockForBody(k) /\ ~UNCHANGED mutex
  <2>1. PICK m \in {"free", "lost"} : mutex' = [mutex EXCEPT ![slotOf[k]] = m]
    BY <1>1, <1>6
  <2>2. mutex'[slotOf[k]] = m /\ \A s \in Slots \ {slotOf[k]} : mutex'[s] = mutex[s]
    BY <1>2, <2>1
  <2>3. rcv[k].pc = "body" /\ rcv'[k].pc # "body" /\ mutex[slotOf[k]] = "rcv"
    BY <1>1, <1>3, <1>6 DEF MutexRight
  <2>4. QED
    BY <1>1, <1>2, <1>3, <2>2, <2>3 DEF MutexRight, OneReads
<1>7. QED
  BY <1>4, <1>5, <1>6

\* A slot becomes a target of broadcasts when its client has been synchronised.
LEMMA ReceiverReached ==
  ASSUME Owned, Quiet, Patient, NEW k \in Conns, ReceiverThread(k)
  PROVE  Reached' /\ Ready'
<1>0. /\ UNCHANGED <<snd, slotOf>> /\ \A s \in Slots : mutex[s] = "lost" => mutex'[s] = "lost"
      /\ \A j \in Conns : slotOf[j] \in Slots
  BY ReceiverEffect, ReceiverMutex DEF Owned, TypeOK
<1>1. ASSUME NEW s \in Slots, Clean(s), mutex[s] # "lost", ~Clean(s)'
      PROVE  \E j \in Conns : snd[j] \in Working /\ slotOf[j] = s /\ ~Unsynced(j)'
  <2>1. queue'[s] = <<>>
    <3>1. CASE queue' = queue
      BY <1>1, <3>1 DEF Clean
    <3>2. CASE BroadcastOne(k)
      <4> DEFINE h == Head(rcv[k].todo)
      <4>1. rcv[k].todo \in Seq(Slots) /\ rcv[k].todo # <<>>
        BY <3>2 DEF BroadcastOne, Owned, TypeOK, Receiver
      <4>2. h = rcv[k].todo[1] /\ 1 \in DOMAIN rcv[k].todo
        BY <4>1
      <4>3. h # s
        BY <1>1, <4>2 DEF Clean, InList
      <4>4. \/ queue' = queue \/ queue' = [queue EXCEPT ![h] = Append(@, k)]
        BY <3>2 DEF BroadcastOne
      <4> HIDE DEF h
      <4>5. queue'[s] = queue[s]
        BY <4>3, <4>4 DEF Owned, TypeOK
      <4>6. QED
        BY <1>1, <4>5 DEF Clean
    <3>3. QED
      BY <3>1, <3>2, ReceiverEffect DEF Owned
  <2>2. \A j \in Conns : ~InList(rcv'[j].todo, s)
    BY <1>1, ReceiverEffect, TodoListed DEF Owned, Clean
  <2>3. ReadInSync(k) /\ Unit(k) = "END"
    <3>1. InList(clients', s)
      BY <1>1, <2>1, <2>2 DEF Clean
    <3>2. clients' # clients
      BY <1>1, <3>1 DEF Clean
    <3>3. QED
      BY <3>2, ReceiverEffect DEF Owned
  <2>4. slotOf[k] = s
    <3>1. clients' = Append(clients, slotOf[k]) /\ clients \in Seq(Slots) /\ slotOf[k] \in Slots
      BY <2>3 DEF ReadInSync, Listed, Owned, TypeOK
    <3>2. PICK i \in DOMAIN clients' : clients'[i] = s
      BY <1>1, <2>1, <2>2 DEF Clean, InList
    <3>3. ~(i \in DOMAIN clients /\ clients[i] = s)
      BY <1>1 DEF Clean, InList
    <3>4. QED
      BY <3>1, <3>2, <3>3
  <2>5. rcv[k].pc = "event" /\ rcv[k].sync
    BY <2>3 DEF ReadInSync
  <2>6. snd[k] \in Working
    <3>1. snd[k] # "none" /\ snd[k] \in SndPcs
      BY <2>5 DEF Quiet, Started, Owned, TypeOK
    <3>2. snd[k] \notin {"failed", "closed", "gone"}
      BY <1>1, <2>4 DEF Patient, MutexRight
    <3>3. QED
      BY <3>1, <3>2 DEF SndPcs, Working
  <2>7. ~Greeting(k)
    BY <2>5, <2>6 DEF Patient, GreetsOnce, Working, Sending
  <2>8. ~Greeting(k)'
    BY <2>7, ReceiverEffect, NeverGreetsAgain DEF Owned, Patient
  <2>9. rcv'[k].pc = "event" /\ ~rcv'[k].sync
    BY <2>3, <2>5 DEF ReadInSync, Owned, TypeOK, Receiver
  <2>10. EndRead(k)'
    <3>1. Source(k) = k /\ CanRead(k) /\ Consume(k)
      BY <2>3, <2>6, ReadsOwn DEF ReadInSync, Working, Sending
    <3>2. Done(k) \in Nat /\ Done(k)' = Done(k) + 1 /\ Script[k][Done(k) + 1] = "END"
      BY <2>3, <3>1, ReceiverEffect, ReadsNext DEF Owned, Patient
    <3>3. Done(k) + 1 \in 1 .. Done(k)'
      BY <3>2
    <3>4. QED
      BY <3>2, <3>3 DEF EndRead, Done
  <2>11. QED
    BY <2>4, <2>6, <2>8, <2>9, <2>10 DEF Unsynced
<1>2. \A j \in Conns : snd[j] \in Working /\ ~Unsynced(j) => ~Unsynced(j)'
  BY StaysSynced DEF Working, Sending
<1>3. Reached'
  <2>1. SUFFICES ASSUME NEW s \in Slots, mutex'[s] # "lost", ~Clean(s)'
                 PROVE  \E j \in Conns : snd'[j] \in Working /\ slotOf'[j] = s /\ ~Unsynced(j)'
    BY DEF Reached
  <2>2. mutex[s] # "lost"
    BY <1>0, <2>1
  <2>3. CASE Clean(s)
    BY <1>0, <1>1, <2>1, <2>2, <2>3
  <2>4. CASE \E j \in Conns : snd[j] \in Working /\ slotOf[j] = s /\ ~Unsynced(j)
    BY <1>0, <1>2, <2>4
  <2>5. QED
    BY <2>2, <2>3, <2>4 DEF Patient, Reached
<1>4. Ready'
  BY <1>0, <1>2 DEF Patient, Ready, Working
<1>5. QED
  BY <1>3, <1>4

LEMMA PatientReceiver ==
  ASSUME Owned, Quiet, Patient, NEW k \in Conns, ReceiverThread(k)
  PROVE  Patient'
<1>1. GreetsFirst' /\ Unread'
  BY ReceiverEffect, NeverGreetsAgain, StaysRead DEF Owned, Patient
<1>2. Asleep'
  BY ReceiverEffect DEF Owned, Patient, Asleep
<1>3. QED
  BY <1>1, <1>2, ReceiverGreetsOnce, ReceiverMutex, ReceiverReached DEF Patient

-----------------------------------------------------------------------------
(* Sender threads *)

LEMMA SenderMutex ==
  ASSUME Owned, Patient, NEW k \in Conns, SenderThread(k)
  PROVE  /\ MutexRight' /\ OneReads'
         /\ \A s \in Slots : mutex[s] = "lost" => mutex'[s] = "lost"
<1>1. /\ slotOf \in [Conns -> Slots] /\ snd \in [Conns -> SndPcs] /\ slotOf[k] \in Slots
      /\ mutex \in [Slots -> {"free", "rcv", "snd", "lost"}]
  BY DEF Owned, TypeOK
<1>2. MutexRight /\ OneReads
  BY DEF Patient
<1>3. UNCHANGED <<rcv, slotOf>> /\ \A j \in Conns \ {k} : snd'[j] = snd[j]
  BY <1>1 DEF SenderThread, Dequeue, LockToSend, SendDone, SendFails, CloseSocket, ClearAlive
<1>4. OneReads'
  BY <1>2, <1>3 DEF OneReads
<1>5. CASE Dequeue(k) \/ CloseSocket(k) \/ ClearAlive(k)
  <2>1. mutex' = mutex
    BY <1>5 DEF Dequeue, CloseSocket, ClearAlive, slotVars
  <2>2. \/ snd[k] = "dequeue" /\ snd'[k] = "wantlock"
        \/ snd[k] \in {"failed", "closed"} /\ snd'[k] \in {"closed", "gone"}
    BY <1>1, <1>5 DEF Dequeue, CloseSocket, ClearAlive
  <2>3. MutexRight'
    BY <1>2, <1>3, <2>1, <2>2 DEF MutexRight
  <2>4. QED
    BY <1>4, <2>1, <2>3
<1>6. CASE LockToSend(k)
  <2>1. /\ mutex[slotOf[k]] = "free" /\ snd'[k] = "send" /\ mutex'[slotOf[k]] = "snd"
        /\ \A s \in Slots \ {slotOf[k]} : mutex'[s] = mutex[s]
    BY <1>1, <1>6 DEF LockToSend
  <2>2. MutexRight'
    BY <1>1, <1>2, <1>3, <2>1 DEF MutexRight
  <2>3. QED
    BY <1>1, <1>4, <2>1, <2>2
<1>7. CASE SendDone(k) \/ SendFails(k)
  <2>1. /\ snd[k] = "send"
        /\ \/ snd'[k] = "dequeue" /\ mutex'[slotOf[k]] = "free"
           \/ snd'[k] = "failed" /\ mutex'[slotOf[k]] = "lost"
        /\ \A s \in Slots \ {slotOf[k]} : mutex'[s] = mutex[s]
    BY <1>1, <1>7 DEF SendDone, SendFails, Fail
  <2>2. mutex[slotOf[k]] = "snd"
    BY <1>2, <2>1 DEF MutexRight
  <2>3. \A j \in Conns \ {k} : snd[j] = "send" => slotOf[j] # slotOf[k]
    BY <2>1 DEF Owned, SendersOwn, Owns, Sending
  <2>4. MutexRight'
    BY <1>1, <1>2, <1>3, <2>1, <2>2, <2>3 DEF MutexRight
  <2>5. QED
    BY <1>1, <1>4, <2>1, <2>2, <2>4
<1>8. QED
  BY <1>5, <1>6, <1>7 DEF SenderThread

\* A sender finds a message only if its client has been synchronised, or if the
\* mutex it needs is lost.
LEMMA PatientSender ==
  ASSUME Owned, Patient, NEW k \in Conns, SenderThread(k)
  PROVE  Patient'
<1>0. /\ MutexRight' /\ OneReads' /\ \A s \in Slots : mutex[s] = "lost" => mutex'[s] = "lost"
  BY SenderMutex
<1>1. /\ UNCHANGED <<rcv, slotOf, pos, inbox, clients>> /\ \A j \in Conns \ {k} : snd'[j] = snd[j]
      /\ slotOf \in [Conns -> Slots]
  BY DEF SenderThread, Dequeue, LockToSend, SendDone, SendFails, CloseSocket, ClearAlive, slotVars,
         peerVars, Owned, TypeOK
<1>2. \A j \in Conns : Unsynced(j)' <=> Unsynced(j)
  BY <1>1 DEF Unsynced, Greeting, InList, EndRead
<1>3. \/ snd'[k] \in Working /\ snd[k] \in Working
      \/ SendFails(k) /\ snd'[k] = "failed" /\ snd[k] = "send"
      \/ snd[k] \in {"failed", "closed"} /\ snd'[k] \in {"closed", "gone"}
  BY ZenonT(40) DEF SenderThread, Dequeue, LockToSend, SendDone, SendFails, Fail, CloseSocket, ClearAlive, Working,
         Owned, TypeOK
<1>4. GreetsFirst' /\ Asleep' /\ Unread'
  BY <1>1 DEF Patient, GreetsFirst, Asleep, Unread, Done
<1>5. GreetsOnce'
  <2>1. \A j \in Conns : snd'[j] \in Sending => snd[j] \in Sending
    BY <1>1, <1>3 DEF Sending, Working
  <2>2. QED
    BY <1>1, <2>1 DEF Patient, GreetsOnce, Greeting, InList
<1>6. \A s \in Slots : Clean(s) => Clean(s)'
  <2>1. SUFFICES ASSUME NEW s \in Slots, queue[s] = <<>> PROVE queue'[s] = <<>>
    BY <1>1 DEF Clean, InList
  <2>2. CASE queue' = queue
    BY <2>1, <2>2
  <2>3. CASE Dequeue(k)
    <3> DEFINE t == slotOf[k]
    <3>1. t # s /\ queue' = [queue EXCEPT ![t] = Tail(@)]
      BY <2>1, <2>3 DEF Dequeue
    <3> HIDE DEF t
    <3>2. QED
      BY <2>1, <3>1 DEF Owned, TypeOK
  <2>4. QED
    BY <2>2, <2>3 DEF SenderThread, LockToSend, SendDone, SendFails, CloseSocket, ClearAlive, slotVars
<1>7. Reached'
  <2>1. SUFFICES ASSUME NEW s \in Slots, mutex'[s] # "lost", ~Clean(s)'
                 PROVE  \E j \in Conns : snd'[j] \in Working /\ slotOf'[j] = s /\ ~Unsynced(j)'
    BY DEF Reached
  <2>2. PICK j \in Conns : snd[j] \in Working /\ slotOf[j] = s /\ ~Unsynced(j)
    BY <1>0, <1>6, <2>1 DEF Patient, Reached
  <2>3. CASE j # k
    BY <1>1, <1>2, <2>2, <2>3
  <2>4. CASE j = k
    <3>1. ~SendFails(k)
      <4>1. SendFails(k) => mutex'[s] = "lost"
        BY <2>2, <2>4 DEF SendFails, Owned, TypeOK
      <4>2. QED
        BY <2>1, <4>1
    <3>2. snd'[k] \in Working
      BY <1>3, <2>2, <2>4, <3>1 DEF Working
    <3>3. QED
      BY <1>1, <1>2, <2>2, <2>4, <3>2
  <2>5. QED
    BY <2>3, <2>4
<1>8. Ready'
  <2>1. SUFFICES ASSUME NEW j \in Conns, snd'[j] \in {"wantlock", "send"}, mutex'[slotOf[j]] # "lost"
                 PROVE  ~Unsynced(j)
    BY <1>1, <1>2 DEF Ready
  <2>2. mutex[slotOf[j]] # "lost" /\ slotOf[j] \in Slots
    BY <1>0, <1>1, <2>1
  <2>3. CASE snd[j] \in {"wantlock", "send"}
    BY <2>2, <2>3 DEF Patient, Ready
  <2>4. CASE snd[j] \notin {"wantlock", "send"}
    <3>1. j = k /\ Dequeue(k)
      BY <1>1, <2>1, <2>4
      DEF SenderThread, Dequeue, LockToSend, SendDone, SendFails, Fail, CloseSocket, ClearAlive,
          Owned, TypeOK
    <3>2. snd[k] = "dequeue" /\ ~Clean(slotOf[k])
      BY <3>1 DEF Dequeue, Clean
    <3>3. PICK i \in Conns : snd[i] \in Working /\ slotOf[i] = slotOf[k] /\ ~Unsynced(i)
      BY <2>2, <3>1, <3>2 DEF Patient, Reached
    <3>4. i = k
      BY <3>2, <3>3 DEF Owned, SendersOwn, Owns, Sending, Working
    <3>5. QED
      BY <3>1, <3>3, <3>4
  <2>5. QED
    BY <2>3, <2>4
<1>9. QED
  BY <1>0, <1>4, <1>5, <1>7, <1>8 DEF Patient

-----------------------------------------------------------------------------
(* Clients and the accept loop *)

LEMMA PatientElsewhere ==
  ASSUME Owned, Patient, UNCHANGED <<rcv, snd, slotOf, mutex, clients>>,
         queue' = queue \/ Clear, NEW k \in Conns, UNCHANGED <<pos, inbox>> \/ Write(k)
  PROVE  Patient'
<1>1. /\ GreetsFirst' /\ Unread'
      /\ \A j \in Conns : (Greeting(j)' => Greeting(j)) /\ (EndRead(j) => EndRead(j)')
  BY NeverGreetsAgain, StaysRead DEF Owned, Patient
<1>2. \A j \in Conns : Unsynced(j)' => Unsynced(j)
  BY <1>1 DEF Unsynced
<1>3. GreetsOnce' /\ Asleep' /\ MutexRight' /\ OneReads' /\ Ready'
  BY <1>1, <1>2 DEF Patient, GreetsOnce, Asleep, MutexRight, OneReads, Ready
<1>4. \A s \in Slots : Clean(s) => Clean(s)'
  BY DEF Clean, InList, Clear, Owned, TypeOK
<1>5. Reached'
  BY <1>2, <1>4 DEF Patient, Reached
<1>6. QED
  BY <1>1, <1>3, <1>5 DEF Patient

\* The two threads of a connection start; the slot they start on may be in the list of
\* clients, but then its mutex is lost.
LEMMA PatientStart ==
  ASSUME Owned, Quiet, Patient, Start
  PROVE  Patient'
<1> DEFINE c == acc.conn
<1>1. c \in Conns /\ snd[c] = "none" /\ rcv[c].pc = "none" /\ ~rcv[c].sync /\ it \in Slots
  BY DEF Start, Owned, Accepted, TypeOK, Quiet, Started, Patient, Asleep
<1>2. /\ slotOf' = [slotOf EXCEPT ![c] = it] /\ snd' = [snd EXCEPT ![c] = "dequeue"]
      /\ rcv' = [rcv EXCEPT ![c].pc = "event"]
      /\ UNCHANGED <<pos, inbox, mutex, clients, queue>>
  BY DEF Start, peerVars
<1>3. /\ rcv \in [Conns -> Receiver] /\ snd \in [Conns -> SndPcs] /\ slotOf \in [Conns -> Slots]
  BY DEF Owned, TypeOK
<1> HIDE DEF c
<1>4. \A j \in Conns \ {c} : rcv'[j] = rcv[j] /\ snd'[j] = snd[j] /\ slotOf'[j] = slotOf[j]
  BY <1>1, <1>2, <1>3
<1>5. /\ rcv'[c].pc = "event" /\ ~rcv'[c].sync /\ rcv'[c].todo = rcv[c].todo
      /\ snd'[c] = "dequeue"
  BY <1>1, <1>2, <1>3 DEF Receiver
<1>6. GreetsFirst' /\ GreetsOnce' /\ Asleep' /\ Unread'
  BY <1>2, <1>4, <1>5 DEF Patient, GreetsFirst, GreetsOnce, Asleep, Greeting, InList, Unread, Done
<1>7. MutexRight' /\ OneReads' /\ Ready'
  BY <1>2, <1>4, <1>5 DEF Patient, MutexRight, OneReads, Ready, Unsynced, Greeting, InList, EndRead
<1>8. Reached'
  <2>1. \A s \in Slots : Clean(s) => Clean(s)'
    BY <1>2, <1>4, <1>5 DEF Clean, InList
  <2>2. \A j \in Conns : snd[j] \in Working => j # c
    BY <1>1 DEF Working
  <2>3. \A j \in Conns \ {c} : Unsynced(j)' => Unsynced(j)
    BY <1>2, <1>4 DEF Unsynced, Greeting, InList, EndRead
  <2>4. QED
    BY <1>2, <1>4, <2>1, <2>2, <2>3 DEF Patient, Reached
<1>9. QED
  BY <1>6, <1>7, <1>8 DEF Patient

LEMMA PatientStep == Owned /\ Quiet /\ Patient /\ [Next]_vars => Patient'
<1> SUFFICES ASSUME Owned, Quiet, Patient, [Next]_vars PROVE Patient'
  OBVIOUS
<1>1. ASSUME NEW k \in Conns, ClientStep(k) \/ Leave(k) PROVE Patient'
  BY <1>1, PatientElsewhere DEF ClientStep, Connect, Write, Leave, slotVars, threadVars
<1>2. ASSUME NEW k \in Conns, NEW fd \in Fds, Accept(k, fd) PROVE Patient'
  BY <1>2, PatientElsewhere DEF Accept, slotVars, threadVars, peerVars
<1>3. CASE Search \/ Clear \/ Assign
  <2>1. acc.conn \in Conns
    BY <1>3 DEF Owned, Accepted, Search, Clear, Assign
  <2>2. QED
    BY <1>3, <2>1, PatientElsewhere DEF Search, Clear, Assign, slotVars, threadVars, peerVars
<1>4. CASE Start
  BY <1>4, PatientStart
<1>5. ASSUME NEW k \in Conns, ReceiverThread(k) PROVE Patient'
  BY <1>5, PatientReceiver
<1>6. ASSUME NEW k \in Conns, SenderThread(k) PROVE Patient'
  BY <1>6, PatientSender
<1>7. CASE UNCHANGED vars
  BY <1>7 DEF vars, Patient, GreetsFirst, GreetsOnce, Asleep, MutexRight, OneReads, Reached, Ready,
              Clean, Unsynced, Greeting, InList, Unread, Done, EndRead
<1>8. QED
  BY <1>1, <1>2, <1>3, <1>4, <1>5, <1>6, <1>7 DEF Next, AcceptLoop

\* The sender thread of a client runs from the start and slots are never taken out of
\* the list, yet from that start until the client's END_OF_SYNC has been read it sends
\* nothing, not even before NEW_CLIENT is read: a slot that is used again has its mutex
\* locked for ever (DropboxServer.cpp:24-38, :64-71, :335).
THEOREM Patience == Spec => []NothingBeforeSync
<1>1. Spec => []Owned
  BY OwnedInit, OwnedStep, PTL DEF Spec
<1>2. Spec => []Quiet
  BY <1>1, QuietInit, QuietStep, PTL DEF Spec
<1>3. Patient => NothingBeforeSync
  BY DEF Patient, MutexRight, Ready, Unsynced, NothingBeforeSync
<1>4. QED
  BY <1>1, <1>2, <1>3, PatientInit, PatientStep, PTL DEF Spec

-----------------------------------------------------------------------------
(* Broadcasts while nobody leaves *)

\* Whether the i-th unit of k opens a message that is broadcast.
Opens(k, i) == Script[k][i] \in {"FILE", "PATH"}

\* Nobody has left and no thread has ended.
AllUp == /\ \A k \in Conns : /\ net[k] \in {"off", "up"}
                             /\ snd[k] # "none" => snd[k] \in Working /\ net[k] = "up"
                             /\ rcv[k].pc # "gone"
         /\ \A fd \in Fds : fdt[fd] # None => net[fdt[fd]] = "up"

\* How far a receiver has come says what it is doing.
Ended(k, n) == \E i \in 1 .. n : Script[k][i] = "END"
Place(r, k, n) ==
    /\ r.pc = "none" => n = 0 /\ ~r.sync
    /\ r.sync => n > 0 /\ ~Ended(k, n) /\ r.pc # "wantsync"
    /\ r.pc = "wantsync" => n = 1
    /\ r.pc = "offer" => r.sync
    /\ ~r.sync /\ r.pc \notin {"none", "wantsync"} => Ended(k, n) \/ (n = 0 /\ r.pc = "event")
    /\ r.pc \in {"wantlock", "body"} <=> n > 0 /\ Opens(k, n)
Places == \A k \in Conns : Place(rcv[k], k, Done(k))

\* A client that has been synchronised is in the list.
Registered == \A k \in Conns : EndRead(k) => InList(clients, slotOf[k])

\* A broadcast has reached those that were in the list, or is still to come to them.
Reaching ==
    \A k \in Conns : rcv[k].pc = "bcast" => \A c \in rcv[k].reg :
        c \in Conns \ {k} /\ snd[c] # "none" /\ (InList(rcv[k].todo, slotOf[c]) \/ InList(got[c], k))

Staying == Unread /\ AllUp /\ Places /\ Registered /\ Reaching

LEMMA StayInit == Init => Staying
<1> SUFFICES ASSUME Init PROVE Staying
  OBVIOUS
<1>1. \A k \in Conns : Len(inbox[k]) = 0 /\ pos[k] = 0 /\ Done(k) = 0 /\ rcv[k] = NoThread /\ snd[k] = "none"
  BY DEF Init, Done
<1>2. Unread
  BY <1>1, SlotsAssumption DEF Unread
<1>3. AllUp
  BY <1>1 DEF Init, AllUp, NoThread
<1>4. Places /\ Registered /\ Reaching
  BY <1>1 DEF Places, Place, NoThread, Ended, Registered, EndRead, Done, Reaching
<1>5. QED
  BY <1>2, <1>3, <1>4 DEF Staying

-----------------------------------------------------------------------------
(* How far a receiver has come *)

LEMMA EndedNext ==
  ASSUME NEW k, NEW n \in Nat
  PROVE  Ended(k, n + 1) <=> Ended(k, n) \/ Script[k][n + 1] = "END"
<1>1. 1 .. n + 1 = 1 .. n \cup {n + 1}
  OBVIOUS
<1>2. QED
  BY <1>1 DEF Ended

\* What comes next where a receiver waits for an event.
LEMMA NextUnit ==
  ASSUME Obeyed, NEW k \in Conns, NEW n \in Nat, n + 1 \in DOMAIN Script[k],
         NEW r, r.sync \in BOOLEAN, r.pc = "event", Place(r, k, n)
  PROVE  /\ \/ n = 0 /\ Script[k][n + 1] = "HELLO"
            \/ n > 0 /\ Opens(k, n + 1)
            \/ n > 0 /\ Script[k][n + 1] = "END" /\ ~Ended(k, n)
         /\ (n = 0 \/ Ended(k, n)) <=> ~r.sync
<1> DEFINE us == Script[k]
           u == us[n + 1]
<1>1. us \in Seq(Units) /\ u \in Units /\ WellFormed(us) /\ DOMAIN us = 1 .. Len(us) /\ Len(us) \in Nat
  BY SlotsAssumption DEF Obeyed
<1> HIDE DEF us
<1>2. (u = "HELLO" <=> n = 0) /\ (u = "BODY" <=> n > 0 /\ us[n] \in {"FILE", "PATH"})
  <2>1. n + 1 \in DOMAIN us /\ (n + 1) - 1 = n /\ (n + 1 = 1 <=> n = 0) /\ (n + 1 > 1 <=> n > 0)
    BY DEF us
  <2>2. QED
    BY <1>1, <2>1 DEF WellFormed
<1>3. u # "BODY"
  BY <1>2 DEF Place, Opens, us
<1>4. Ended(k, n) => u # "END"
  <2> SUFFICES ASSUME NEW i \in 1 .. n, us[i] = "END", u = "END" PROVE FALSE
    BY DEF Ended, us
  <2>1. i \in DOMAIN us /\ n + 1 \in DOMAIN us /\ i # n + 1
    BY <1>1 DEF us
  <2>2. QED
    BY <1>1, <2>1 DEF WellFormed
<1>5. (n = 0 \/ Ended(k, n)) <=> ~r.sync
  BY DEF Place
<1>7. u \in {"HELLO", "END", "FILE", "PATH"}
  BY <1>1, <1>3 DEF Units
<1>8. QED
  BY <1>2, <1>4, <1>5, <1>7 DEF Opens, us

\* An event is read.
LEMMA PlaceRead ==
  ASSUME Obeyed, NEW k \in Conns, NEW n \in Nat, n + 1 \in DOMAIN Script[k],
         NEW r, r.sync \in BOOLEAN, r.pc = "event", Place(r, k, n), NEW t, t.sync \in BOOLEAN,
         \/ Script[k][n + 1] = "HELLO" /\ ~r.sync /\ t.pc = "wantsync" /\ ~t.sync
         \/ Opens(k, n + 1) /\ t.pc = "wantlock" /\ t.sync = r.sync
         \/ Script[k][n + 1] = "END" /\ r.sync /\ t.pc = "event" /\ ~t.sync
  PROVE  Place(t, k, n + 1)
<1> DEFINE u == Script[k][n + 1]
<1>1. Ended(k, n + 1) <=> Ended(k, n) \/ u = "END"
  BY EndedNext
<1>2. n + 1 > 0 /\ (n = 0 => n + 1 = 1)
  OBVIOUS
<1>3. CASE u = "HELLO" /\ ~r.sync /\ t.pc = "wantsync" /\ ~t.sync
  <2>1. n = 0
    BY <1>3, NextUnit DEF Opens
  <2>2. QED
    BY <1>2, <1>3, <2>1 DEF Place, Opens
<1>4. CASE Opens(k, n + 1) /\ t.pc = "wantlock" /\ t.sync = r.sync
  <2>1. u # "END" /\ (~r.sync => Ended(k, n))
    BY <1>4, NextUnit DEF Opens
  <2>2. r.sync => ~Ended(k, n)
    BY DEF Place
  <2>3. QED
    BY <1>1, <1>2, <1>4, <2>1, <2>2 DEF Place
<1>5. CASE u = "END" /\ r.sync /\ t.pc = "event" /\ ~t.sync
  BY <1>1, <1>2, <1>5 DEF Place, Opens
<1>6. QED
  BY <1>3, <1>4, <1>5

\* After what opens a message comes the rest of it.
LEMMA BodyNext ==
  ASSUME Obeyed, NEW k \in Conns, NEW n \in Nat, n > 0, n + 1 \in DOMAIN Script[k], Opens(k, n)
  PROVE  Script[k][n + 1] = "BODY"
<1>1. (n + 1) - 1 = n /\ n + 1 > 1
  OBVIOUS
<1>2. Script[k][n + 1] = "BODY" <=> n + 1 > 1 /\ Script[k][(n + 1) - 1] \in {"FILE", "PATH"}
  BY DEF Obeyed, WellFormed
<1>3. QED
  BY <1>1, <1>2 DEF Opens

\* The rest of a message is read.
LEMMA PlaceBody ==
  ASSUME Obeyed, NEW k \in Conns, NEW n \in Nat, n + 1 \in DOMAIN Script[k],
         NEW r, r.sync \in BOOLEAN, r.pc = "body", Place(r, k, n), NEW t, t.pc = "saved", t.sync = r.sync
  PROVE  Place(t, k, n + 1)
<1>1. n > 0 /\ Opens(k, n)
  BY DEF Place
<1>2. Script[k][n + 1] = "BODY"
  BY <1>1, BodyNext
<1>3. Ended(k, n + 1) <=> Ended(k, n)
  BY <1>2, EndedNext
<1>4. n + 1 > 0
  OBVIOUS
<1>5. QED
  BY <1>2, <1>3, <1>4 DEF Place, Opens

\* Nothing is read.
LEMMA PlaceKept ==
  ASSUME Obeyed, NEW k \in Conns, NEW n \in Nat, n <= Len(Script[k]),
         NEW r, r.sync \in BOOLEAN, Place(r, k, n), NEW t, t.sync \in BOOLEAN,
         \/ r.pc = "wantsync" /\ t.pc = "offer" /\ t.sync
         \/ t.sync = r.sync /\ <<r.pc, t.pc>> \in {<<"offer", "event">>, <<"wantlock", "body">>, <<"saved", "bcast">>,
                                                   <<"bcast", "bcast">>, <<"bcast", "event">>}
  PROVE  Place(t, k, n)
<1>1. CASE r.pc = "wantsync" /\ t.pc = "offer" /\ t.sync
  <2>1. n = 1 /\ ~(n > 0 /\ Opens(k, n))
    BY <1>1 DEF Place
  <2>2. Script[k][1] = "HELLO"
    <3>1. 1 \in DOMAIN Script[k]
      BY <2>1, SlotsAssumption
    <3>2. QED
      BY <3>1 DEF Obeyed, WellFormed
  <2>3. ~Ended(k, 1)
    BY <2>2 DEF Ended
  <2>4. QED
    BY <1>1, <2>1, <2>3 DEF Place
<1>2. CASE r.pc # "wantsync"
  BY <1>2 DEF Place
<1>3. QED
  BY <1>1, <1>2

-----------------------------------------------------------------------------
(* The steps of a receiver, while nobody leaves *)

\* Each thread that runs has its connection, and that is up.
LEMMA Running ==
  ASSUME Owned, Quiet, Staying, NEW k \in Conns, snd[k] # "none"
  PROVE  /\ Source(k) = k /\ Peer(k) = k /\ net[k] = "up" /\ snd[k] \in Sending
         /\ ~ReadFails(k) /\ Writable(k) /\ ~Fail(k)
<1>1. snd[k] \in Working /\ net[k] = "up"
  BY DEF Staying, AllUp
<1>2. snd[k] \in Sending
  BY <1>1 DEF Working, Sending
<1>3. Source(k) = k /\ Peer(k) = k
  BY <1>2, ReadsOwn DEF Owned, SendersOwn, Owns, Peer
<1>4. k # None
  BY SlotsAssumption
<1>5. QED
  BY <1>1, <1>2, <1>3, <1>4 DEF ReadFails, Writable, Fail

LEMMA HasSender ==
  ASSUME Quiet, NEW k \in Conns, rcv[k].pc # "none"
  PROVE  snd[k] # "none"
BY DEF Quiet, Started

\* What the step of a receiver does to its record and to what it has read.
Reads(k) == /\ Done(k) + 1 \in DOMAIN Script[k] /\ Done(k)' = Done(k) + 1 /\ Unread'
            /\ \A j \in Conns \ {k} : Done(j)' = Done(j)

LEMMA ReceiverMoves ==
  ASSUME Owned, Quiet, Staying, Obeyed, NEW k \in Conns, ReceiverThread(k)
  PROVE  LET r == rcv[k]
             t == rcv'[k]
             u == Script[k][Done(k) + 1]
         IN  /\ net' = net /\ UNCHANGED <<snd, fdt, slotOf>>
             /\ \A j \in Conns \ {k} : rcv'[j] = rcv[j]
             /\ \/ /\ Reads(k) /\ UNCHANGED <<clients, got>> /\ r.pc = "event" /\ t.todo = r.todo
                   /\ \/ u = "HELLO" /\ ~r.sync /\ t.pc = "wantsync" /\ ~t.sync
                      \/ Opens(k, Done(k) + 1) /\ t.pc = "wantlock" /\ t.sync = r.sync
                \/ /\ Reads(k) /\ UNCHANGED got /\ r.pc = "event" /\ t.todo = r.todo
                   /\ u = "END" /\ r.sync /\ t.pc = "event" /\ ~t.sync /\ clients' = Append(clients, slotOf[k])
                \/ /\ Reads(k) /\ UNCHANGED <<clients, got>> /\ t.todo = r.todo
                   /\ r.pc = "body" /\ t.pc = "saved" /\ t.sync = r.sync
                \/ /\ UNCHANGED <<pos, inbox, clients, got>> /\ t.todo = r.todo
                   /\ \/ r.pc = "wantsync" /\ t.pc = "offer" /\ t.sync
                      \/ t.sync = r.sync /\ <<r.pc, t.pc>> \in {<<"offer", "event">>, <<"wantlock", "body">>, <<"bcast", "event">>}
                \/ /\ StartBroadcast(k) /\ UNCHANGED <<pos, inbox, clients, got>> /\ t.sync = r.sync
                   /\ r.pc = "saved" /\ t.pc = "bcast" /\ t.todo = clients /\ t.reg = Present \ {k}
                \/ /\ BroadcastOne(k) /\ UNCHANGED <<pos, inbox, clients>> /\ t.sync = r.sync
                   /\ r.pc = "bcast" /\ r.todo # <<>> /\ t.pc = "bcast" /\ t.todo = Tail(r.todo) /\ t.reg = r.reg
<1> DEFINE r == rcv[k]
           t == rcv'[k]
           u == Script[k][Done(k) + 1]
<1>1. rcv \in [Conns -> Receiver] /\ r \in Receiver /\ r.sync \in BOOLEAN /\ r.pc # "none" /\ TypeOK
  BY ReceiverEffect DEF Owned, TypeOK, Receiver
<1>2. snd[k] # "none"
  BY <1>1, HasSender
<1>3. Source(k) = k /\ ~ReadFails(k) /\ Writable(k) /\ net[k] = "up"
  BY <1>2, Running
<1>4. UNCHANGED <<snd, slotOf>> /\ \A j \in Conns \ {k} : rcv'[j] = rcv[j]
  BY <1>1, ReceiverEffect
<1>5. fdt' = fdt
  BY DEF ReceiverThread, ReadError, ReadEvent, LockSync, OfferAll, ReadInSync, LockForBody, ReadBody,
         StartBroadcast, BroadcastOne, EndBroadcast
<1>6. Unread /\ Place(r, k, Done(k))
  BY DEF Staying, Places
<1>7. ASSUME CanRead(k), Consume(k), UNCHANGED pos
      PROVE  Reads(k) /\ Unit(k) = u /\ Done(k) \in Nat
  BY <1>1, <1>3, <1>6, <1>7, ReadsNext DEF Reads
<1> USE DEF slotVars, peerVars
<1>8. CASE ReadError(k)
  BY <1>3, <1>8 DEF ReadError
<1>9. CASE ReadEvent(k)
  <2>1. r.pc = "event" /\ ~r.sync /\ CanRead(k) /\ Consume(k) /\ UNCHANGED <<pos, net, clients, got>>
    BY <1>9 DEF ReadEvent
  <2>2. Reads(k) /\ Unit(k) = u /\ Done(k) \in Nat
    BY <1>7, <2>1
  <2>3. u = "HELLO" \/ u \in {"FILE", "PATH"}
    BY <1>1, <1>6, <2>1, <2>2, NextUnit DEF Reads, Opens
  <2>4. CASE u = "HELLO"
    <3>1. rcv' = [rcv EXCEPT ![k].pc = "wantsync"]
      BY <1>9, <2>2, <2>4 DEF ReadEvent
    <3>2. t.pc = "wantsync" /\ t.sync = r.sync /\ t.todo = r.todo
      BY <1>1, <3>1 DEF Receiver
    <3>3. QED
      BY <1>4, <1>5, <2>1, <2>2, <2>4, <3>2
  <2>5. CASE u \in {"FILE", "PATH"}
    <3>1. rcv' = [rcv EXCEPT ![k].pc = "wantlock", ![k].kind = u]
      BY <1>9, <2>2, <2>5 DEF ReadEvent
    <3>2. t.pc = "wantlock" /\ t.sync = r.sync /\ t.todo = r.todo
      BY <1>1, <3>1 DEF Receiver
    <3>3. QED
      BY <1>4, <1>5, <2>1, <2>2, <2>5, <3>2 DEF Opens
  <2>6. QED
    BY <2>3, <2>4, <2>5
<1>10. CASE ReadInSync(k)
  <2>1. r.pc = "event" /\ r.sync /\ CanRead(k) /\ Consume(k) /\ UNCHANGED <<pos, net, got>>
    BY <1>10 DEF ReadInSync
  <2>2. Reads(k) /\ Unit(k) = u /\ Done(k) \in Nat
    BY <1>7, <2>1
  <2>3. u = "END" \/ u \in {"FILE", "PATH"}
    <3>1. Done(k) \in Nat /\ Done(k) + 1 \in DOMAIN Script[k]
      BY <2>2 DEF Reads
    <3>2. Done(k) # 0
      BY <1>6, <2>1, <3>1 DEF Place
    <3>3. \/ Done(k) = 0 \/ u = "END" \/ Opens(k, Done(k) + 1)
      <4>1. r.pc = "event"
        BY <2>1
      <4>2. QED
        BY <1>1, <1>6, <3>1, <4>1, NextUnit
    <3>4. QED
      BY <3>2, <3>3 DEF Opens
  <2>4. CASE u = "END"
    <3>1. rcv' = [rcv EXCEPT ![k].sync = FALSE] /\ clients' = Append(clients, slotOf[k])
      BY <1>10, <2>2, <2>4 DEF ReadInSync, Listed
    <3>2. t.pc = r.pc /\ ~t.sync /\ t.todo = r.todo
      BY <1>1, <3>1 DEF Receiver
    <3>3. QED
      BY <1>4, <1>5, <2>1, <2>2, <2>4, <3>1, <3>2
  <2>5. CASE u \in {"FILE", "PATH"}
    <3>1. rcv' = [rcv EXCEPT ![k].pc = "wantlock", ![k].kind = u] /\ clients' = clients
      BY <1>10, <2>2, <2>5 DEF ReadInSync
    <3>2. t.pc = "wantlock" /\ t.sync = r.sync /\ t.todo = r.todo
      BY <1>1, <3>1 DEF Receiver
    <3>3. QED
      BY <1>4, <1>5, <2>1, <2>2, <2>5, <3>1, <3>2 DEF Opens
  <2>6. QED
    BY <2>3, <2>4, <2>5
<1>11. CASE ReadBody(k)
  <2>1. r.pc = "body" /\ CanRead(k) /\ Consume(k) /\ UNCHANGED <<pos, net, clients, got>> /\ rcv' = [rcv EXCEPT ![k].pc = "saved"]
    BY <1>11 DEF ReadBody
  <2>2. t.pc = "saved" /\ t.sync = r.sync /\ t.todo = r.todo
    BY <1>1, <2>1 DEF Receiver
  <2>3. QED
    BY <1>4, <1>5, <1>7, <2>1, <2>2
<1>12. CASE OfferAll(k)
  <2>1. r.pc = "offer" /\ rcv' = [rcv EXCEPT ![k].pc = "event"] /\ net' = Written(k) /\ UNCHANGED <<pos, inbox, clients, got>>
    BY <1>3, <1>12 DEF OfferAll
  <2>2. net' = net
    <3>1. net \in [Conns -> Nets]
      BY <1>1 DEF TypeOK
    <3>2. QED
      BY <1>3, <2>1, <3>1 DEF Written
  <2>3. t.pc = "event" /\ t.sync = r.sync /\ t.todo = r.todo
    BY <1>1, <2>1 DEF Receiver
  <2>4. QED
    BY <1>4, <1>5, <2>1, <2>2, <2>3
<1>13. CASE LockSync(k)
  <2>1. /\ r.pc = "wantsync" /\ UNCHANGED <<pos, inbox, net, clients, got>>
        /\ rcv' = [rcv EXCEPT ![k].pc = "offer", ![k].sync = TRUE]
    BY <1>13 DEF LockSync
  <2>2. t.pc = "offer" /\ t.sync /\ t.todo = r.todo
    BY <1>1, <2>1 DEF Receiver
  <2>3. QED
    BY <1>4, <1>5, <2>1, <2>2
<1>14. CASE LockForBody(k)
  <2>1. r.pc = "wantlock" /\ UNCHANGED <<pos, inbox, net, clients, got>> /\ rcv' = [rcv EXCEPT ![k].pc = "body"]
    BY <1>14 DEF LockForBody
  <2>2. t.pc = "body" /\ t.sync = r.sync /\ t.todo = r.todo
    BY <1>1, <2>1 DEF Receiver
  <2>3. QED
    BY <1>4, <1>5, <2>1, <2>2
<1>15. CASE StartBroadcast(k)
  <2>1. /\ r.pc = "saved" /\ UNCHANGED <<pos, inbox, net, clients, got>>
        /\ rcv' = [rcv EXCEPT ![k].pc = "bcast", ![k].todo = clients, ![k].reg = Present \ {k}]
    BY <1>15 DEF StartBroadcast
  <2>2. t.pc = "bcast" /\ t.sync = r.sync /\ t.todo = clients /\ t.reg = Present \ {k}
    BY <1>1, <2>1 DEF Receiver
  <2>3. QED
    BY <1>4, <1>5, <1>15, <2>1, <2>2
<1>16. CASE BroadcastOne(k)
  <2>1. /\ r.pc = "bcast" /\ r.todo # <<>> /\ UNCHANGED <<pos, inbox, net, clients>>
        /\ rcv' = [rcv EXCEPT ![k].todo = Tail(r.todo)]
    BY <1>16 DEF BroadcastOne
  <2>2. t.pc = "bcast" /\ t.sync = r.sync /\ t.todo = Tail(r.todo) /\ t.reg = r.reg
    BY <1>1, <2>1 DEF Receiver
  <2>3. QED
    BY <1>4, <1>5, <1>16, <2>1, <2>2
<1>17. CASE EndBroadcast(k)
  <2>1. /\ r.pc = "bcast" /\ UNCHANGED <<pos, inbox, net, clients, got>>
        /\ rcv' = [rcv EXCEPT ![k].pc = "event", ![k].reg = {}]
    BY <1>17 DEF EndBroadcast
  <2>2. t.pc = "event" /\ t.sync = r.sync /\ t.todo = r.todo
    BY <1>1, <2>1 DEF Receiver
  <2>3. QED
    BY <1>4, <1>5, <2>1, <2>2
<1>18. QED
  BY <1>8, <1>9, <1>10, <1>11, <1>12, <1>13, <1>14, <1>15, <1>16, <1>17 DEF ReceiverThread

LEMMA AppendList ==
  ASSUME NEW S, NEW q \in Seq(S), NEW x \in S, NEW s
  PROVE  InList(Append(q, x), s) <=> InList(q, s) \/ x = s
<1> DEFINE p == Append(q, x)
           m == Len(q)
<1>1. DOMAIN p = 1 .. m + 1 /\ DOMAIN q = 1 .. m /\ m \in Nat /\ p[m + 1] = x /\ \A i \in 1 .. m : p[i] = q[i]
  OBVIOUS
<1> HIDE DEF p, m
<1>2. 1 .. m + 1 = 1 .. m \cup {m + 1}
  BY <1>1
<1>3. QED
  BY <1>1, <1>2 DEF InList, p

LEMMA HeadList ==
  ASSUME NEW S, NEW q \in Seq(S), q # <<>>, NEW s
  PROVE  InList(q, s) <=> Head(q) = s \/ InList(Tail(q), s)
<1> DEFINE p == Tail(q)
           m == Len(p)
<1>1. DOMAIN q = 1 .. m + 1 /\ DOMAIN p = 1 .. m /\ m \in Nat /\ Head(q) = q[1] /\ \A i \in 1 .. m : p[i] = q[i + 1]
  OBVIOUS
<1> HIDE DEF p, m
<1>2. ASSUME NEW i \in DOMAIN q, q[i] = s PROVE Head(q) = s \/ InList(p, s)
  <2>1. i = 1 \/ (i - 1 \in 1 .. m /\ (i - 1) + 1 = i)
    BY <1>1
  <2>2. QED
    BY <1>1, <1>2, <2>1 DEF InList
<1>3. ASSUME NEW i \in DOMAIN p, p[i] = s PROVE InList(q, s)
  <2>1. i + 1 \in 1 .. m + 1
    BY <1>1
  <2>2. QED
    BY <1>1, <1>3, <2>1 DEF InList
<1>4. Head(q) = s => InList(q, s)
  <2>1. 1 \in 1 .. m + 1
    BY <1>1
  <2>2. QED
    BY <1>1, <2>1 DEF InList
<1>5. QED
  BY <1>2, <1>3, <1>4 DEF InList, p

LEMMA DoneType ==
  ASSUME TypeOK, Unread, NEW k \in Conns
  PROVE  Done(k) \in Nat /\ Done(k) <= Len(Script[k]) /\ Len(Script[k]) \in Nat /\ (EndRead(k) <=> Ended(k, Done(k)))
<1>1. pos[k] \in Nat /\ inbox[k] \in Seq(Units) /\ Script[k] \in Seq(Units)
  BY SlotsAssumption DEF TypeOK
<1>2. Len(inbox[k]) \in Nat /\ Len(Script[k]) \in Nat
  BY <1>1
<1>3. Len(inbox[k]) <= pos[k] /\ pos[k] <= Len(Script[k])
  BY DEF Unread
<1>4. QED
  BY <1>1, <1>2, <1>3 DEF Done, EndRead, Ended

\* A slot that a running client has is passed over only by the client's own broadcast.
LEMMA NotSkipped ==
  ASSUME Owned, Quiet, Staying, NEW k \in Conns, snd[k] # "none", NEW c \in Conns \ {k}, snd[c] # "none"
  PROVE  ~Skipped(k, slotOf[c]) /\ occ[slotOf[c]] = c
<1>1. snd[k] \in Sending /\ snd[c] \in Sending
  BY Running
<1>2. Owns(k) /\ Owns(c)
  BY <1>1 DEF Owned, SendersOwn
<1>3. fdOf[k] # fdOf[c] /\ ReadFd(k) = fdOf[k]
  BY <1>2 DEF Owns, ReadFd
<1>4. QED
  BY <1>2, <1>3 DEF Owns, Skipped

LEMMA StayReceiver ==
  ASSUME Owned, Quiet, Staying, Obeyed, NEW k \in Conns, ReceiverThread(k)
  PROVE  Staying'
<1> DEFINE r == rcv[k]
           t == rcv'[k]
           n == Done(k)
           u == Script[k][n + 1]
<1>1. /\ TypeOK /\ TypeOK' /\ r \in Receiver /\ t \in Receiver /\ r.sync \in BOOLEAN /\ t.sync \in BOOLEAN
      /\ clients \in Seq(Slots) /\ slotOf[k] \in Slots /\ got \in [Conns -> Seq(Conns)] /\ r.todo \in Seq(Slots)
  <2>1. TypeOK /\ TypeOK'
    BY TypedReceiver DEF Owned
  <2>2. r \in Receiver /\ t \in Receiver
    BY <2>1 DEF TypeOK
  <2>3. QED
    BY <2>1, <2>2 DEF TypeOK, Receiver
<1>2. Unread /\ AllUp /\ Places /\ Registered /\ Reaching /\ Place(r, k, n)
  BY DEF Staying, Places
<1>3. n \in Nat /\ n <= Len(Script[k])
  BY <1>1, <1>2, DoneType
<1>4. /\ net' = net /\ UNCHANGED <<snd, fdt, slotOf>> /\ \A j \in Conns \ {k} : rcv'[j] = rcv[j]
  BY ReceiverMoves
<1>5. \/ Reads(k)
      \/ Unread' /\ \A j \in Conns : Done(j)' = Done(j)
  <2>1. Reads(k) \/ UNCHANGED <<pos, inbox>>
    BY ReceiverMoves
  <2>2. UNCHANGED <<pos, inbox>> => Unread' /\ \A j \in Conns : Done(j)' = Done(j)
    BY <1>2 DEF Unread, Done
  <2>3. QED
    BY <2>1, <2>2
<1>6. Unread' /\ \A j \in Conns \ {k} : Done(j)' = Done(j)
  BY <1>5 DEF Reads
<1>7. AllUp'
  <2>1. t.pc # "gone"
    BY <1>2, ReceiverMoves DEF AllUp
  <2>2. QED
    BY <1>2, <1>4, <2>1 DEF AllUp
<1>8. Place(t, k, Done(k)')
  <2>1. CASE /\ Reads(k) /\ r.pc = "event"
             /\ \/ u = "HELLO" /\ ~r.sync /\ t.pc = "wantsync" /\ ~t.sync
                \/ Opens(k, n + 1) /\ t.pc = "wantlock" /\ t.sync = r.sync
                \/ u = "END" /\ r.sync /\ t.pc = "event" /\ ~t.sync
    <3>1. Done(k)' = n + 1 /\ n + 1 \in DOMAIN Script[k]
      BY <2>1 DEF Reads
    <3> HIDE DEF n, r, t
    <3>2. Place(t, k, n + 1)
      BY <1>1, <1>2, <1>3, <2>1, <3>1, PlaceRead
    <3>3. QED
      BY <3>1, <3>2
  <2>2. CASE Reads(k) /\ r.pc = "body" /\ t.pc = "saved" /\ t.sync = r.sync
    <3>1. Done(k)' = n + 1 /\ n + 1 \in DOMAIN Script[k]
      BY <2>2 DEF Reads
    <3> HIDE DEF n, r, t
    <3>2. Place(t, k, n + 1)
      BY <1>1, <1>2, <1>3, <2>2, <3>1, PlaceBody
    <3>3. QED
      BY <3>1, <3>2
  <2>3. CASE /\ UNCHANGED <<pos, inbox>>
             /\ \/ r.pc = "wantsync" /\ t.pc = "offer" /\ t.sync
                \/ t.sync = r.sync /\ <<r.pc, t.pc>> \in {<<"offer", "event">>, <<"wantlock", "body">>, <<"saved", "bcast">>,
                                                          <<"bcast", "bcast">>, <<"bcast", "event">>}
    <3>1. Done(k)' = n
      BY <2>3 DEF Done
    <3> HIDE DEF n, r, t
    <3>2. Place(t, k, n)
      BY <1>1, <1>2, <1>3, <2>3, PlaceKept
    <3>3. QED
      BY <3>1, <3>2
  <2>4. \/ /\ Reads(k) /\ r.pc = "event"
           /\ \/ u = "HELLO" /\ ~r.sync /\ t.pc = "wantsync" /\ ~t.sync
              \/ Opens(k, n + 1) /\ t.pc = "wantlock" /\ t.sync = r.sync
              \/ u = "END" /\ r.sync /\ t.pc = "event" /\ ~t.sync
        \/ Reads(k) /\ r.pc = "body" /\ t.pc = "saved" /\ t.sync = r.sync
        \/ /\ UNCHANGED <<pos, inbox>>
           /\ \/ r.pc = "wantsync" /\ t.pc = "offer" /\ t.sync
              \/ t.sync = r.sync /\ <<r.pc, t.pc>> \in {<<"offer", "event">>, <<"wantlock", "body">>, <<"saved", "bcast">>,
                                                        <<"bcast", "bcast">>, <<"bcast", "event">>}
    BY ReceiverMoves, SMTT(60)
  <2>5. QED
    BY <2>1, <2>2, <2>3, <2>4, Zenon
<1>9. Places'
  <2>1. ASSUME NEW j \in Conns \ {k} PROVE Place(rcv'[j], j, Done(j)')
    <3>1. Place(rcv[j], j, Done(j)) /\ rcv'[j] = rcv[j] /\ Done(j)' = Done(j)
      BY <1>2, <1>4, <1>6 DEF Places
    <3>2. QED
      BY <3>1
  <2> HIDE DEF r, t, n
  <2>2. \A j \in Conns : Place(rcv'[j], j, Done(j)')
    <3>1. Place(rcv'[k], k, Done(k)')
      BY <1>8 DEF t
    <3>2. QED
      BY <2>1, <3>1, Zenon
  <2>3. QED
    BY <2>2 DEF Places
<1>10. \A s : InList(clients, s) => InList(clients', s)
  <2>1. clients' = clients \/ clients' = Append(clients, slotOf[k])
    BY ReceiverMoves
  <2>2. ASSUME NEW s, clients' = Append(clients, slotOf[k]), InList(clients, s) PROVE InList(clients', s)
    BY <1>1, <2>2, AppendList
  <2>3. QED
    BY <2>1, <2>2
<1>11. Registered'
  <2> SUFFICES ASSUME NEW j \in Conns, EndRead(j)' PROVE InList(clients', slotOf[j])
    BY <1>4 DEF Registered
  <2>1. (EndRead(j) <=> Ended(j, Done(j))) /\ (EndRead(j)' <=> Ended(j, Done(j)'))
    <3>1. (EndRead(j) <=> Ended(j, Done(j)))
      BY <1>1, <1>2, DoneType
    <3>2. (EndRead(j)' <=> Ended(j, Done(j)'))
      BY DEF EndRead, Ended, Done
    <3>3. QED
      BY <3>1, <3>2
  <2>2. CASE EndRead(j)
    BY <1>2, <1>10, <2>2 DEF Registered
  <2>3. CASE ~EndRead(j)
    <3>1. j = k /\ Reads(k) /\ Done(k)' = n + 1
      BY <1>5, <1>6, <2>1, <2>3 DEF Reads
    <3>2. u = "END"
      <4>1. Ended(k, n + 1) /\ ~Ended(k, n)
        BY <2>1, <2>3, <3>1
      <4> HIDE DEF n
      <4>2. QED
        BY <1>3, <4>1, EndedNext DEF u
    <3>3. clients' = Append(clients, slotOf[k])
      <4>1. r.pc = "body" => u = "BODY"
        <5>1. n + 1 \in DOMAIN Script[k]
          BY <3>1 DEF Reads
        <5> HIDE DEF n, r
        <5>2. ASSUME r.pc = "body" PROVE Script[k][n + 1] = "BODY"
          <6>1. n > 0 /\ Opens(k, n)
            BY <1>2, <5>2 DEF Place
          <6>2. QED
            BY <1>3, <5>1, <6>1, BodyNext
        <5>3. QED
          BY <5>2
      <4>2. UNCHANGED <<pos, inbox>> => Done(k)' = n
        BY DEF Done
      <4>3. Done(k)' # n
        BY <1>3, <3>1
      <4>4. ~Opens(k, n + 1)
        BY <3>2 DEF Opens
      <4>5. QED
        BY <3>2, <4>1, <4>2, <4>3, <4>4, ReceiverMoves
    <3>4. QED
      BY <1>1, <3>1, <3>3, AppendList
  <2>4. QED
    BY <2>2, <2>3
<1>12. snd[k] # "none"
  BY HasSender, ReceiverEffect DEF Owned
<1>13. ASSUME NEW c \in Conns, NEW j \in Conns, InList(got[c], j) PROVE InList(got'[c], j)
  <2>1. CASE got' = got
    BY <1>13, <2>1
  <2>2. CASE BroadcastOne(k)
    <3>1. PICK s : got' = got \/ got' = [got EXCEPT ![occ[s]] = Append(@, k)]
      BY <2>2 DEF BroadcastOne
    <3>2. CASE got' = [got EXCEPT ![occ[s]] = Append(@, k)]
      <4>1. got'[c] = got[c] \/ got'[c] = Append(got[c], k)
        BY <1>1, <3>2
      <4>2. got[c] \in Seq(Conns)
        BY <1>1
      <4>3. QED
        BY <1>13, <4>1, <4>2, AppendList
    <3>3. QED
      BY <1>13, <3>1, <3>2
  <2>3. QED
    BY <2>1, <2>2, ReceiverMoves
<1>14. Reaching'
  <2> SUFFICES ASSUME NEW j \in Conns, rcv'[j].pc = "bcast", NEW c \in rcv'[j].reg
               PROVE  c \in Conns \ {j} /\ snd[c] # "none" /\ (InList(rcv'[j].todo, slotOf[c]) \/ InList(got'[c], j))
    BY <1>4 DEF Reaching
  <2>1. CASE j # k
    BY <1>2, <1>4, <1>13, <2>1 DEF Reaching
  <2>2. CASE j = k /\ r.pc # "bcast"
    <3>1. t.todo = clients /\ t.reg = Present \ {k}
      BY <2>2, ReceiverMoves
    <3>2. c \in Conns \ {k} /\ EndRead(c) /\ rcv[c].pc # "none"
      BY <2>2, <3>1 DEF Present
    <3>3. QED
      BY <1>2, <2>2, <3>1, <3>2, HasSender DEF Registered
  <2>3. CASE j = k /\ r.pc = "bcast"
    <3>1. BroadcastOne(k) /\ r.todo # <<>> /\ t.todo = Tail(r.todo) /\ t.reg = r.reg
      BY <2>3, ReceiverMoves
    <3>2. c \in Conns \ {k} /\ snd[c] # "none" /\ (InList(r.todo, slotOf[c]) \/ InList(got[c], k))
      BY <1>2, <2>3, <3>1 DEF Reaching
    <3>3. CASE Head(r.todo) = slotOf[c]
      <4>1. ~Skipped(k, slotOf[c]) /\ occ[slotOf[c]] = c /\ c # None
        BY <1>12, <3>2, NotSkipped, SlotsAssumption
      <4>2. got' = [got EXCEPT ![c] = Append(@, k)]
        BY <3>1, <3>3, <4>1 DEF BroadcastOne
      <4>3. got'[c] = Append(got[c], k) /\ got[c] \in Seq(Conns)
        BY <1>1, <3>2, <4>2
      <4>4. QED
        BY <2>3, <3>2, <4>3, AppendList
    <3>4. CASE Head(r.todo) # slotOf[c]
      <4>1. InList(r.todo, slotOf[c]) => InList(t.todo, slotOf[c])
        BY <1>1, <3>1, <3>4, HeadList
      <4>2. QED
        BY <1>13, <2>3, <3>2, <4>1
    <3>5. QED
      BY <3>3, <3>4
  <2>4. QED
    BY <2>1, <2>2, <2>3
<1>15. QED
  BY <1>6, <1>7, <1>9, <1>11, <1>14 DEF Staying

\* Steps that leave the threads, the list and what has been read alone.
LEMMA StayElsewhere ==
  ASSUME Staying, Unread', AllUp', \A j \in Conns : Done(j)' = Done(j),
         UNCHANGED <<rcv, clients, slotOf, got>>, \A j \in Conns : snd[j] # "none" => snd'[j] # "none"
  PROVE  Staying'
<1>1. Unread /\ Places /\ Registered /\ Reaching
  BY DEF Staying
<1>2. Places'
  BY <1>1 DEF Places
<1>3. \A j \in Conns : EndRead(j)' => EndRead(j)
  BY DEF EndRead, Done
<1>4. Registered'
  BY <1>1, <1>3 DEF Registered, InList
<1>5. Reaching'
  BY <1>1 DEF Reaching, InList
<1>6. QED
  BY <1>2, <1>4, <1>5 DEF Staying

LEMMA StayNetwork ==
  ASSUME TypeOK, Staying, LeaveAt = {}, NEW k \in Conns, ClientStep(k) \/ Leave(k)
  PROVE  Staying'
<1>1. Unread /\ AllUp
  BY DEF Staying
<1>2. ~Leave(k)
  BY DEF Leave
<1>3. CASE Connect(k)
  <2>1. /\ net' = [net EXCEPT ![k] = "up"] /\ net \in [Conns -> Nets]
        /\ UNCHANGED <<rcv, snd, clients, slotOf, got, fdt, pos, inbox>>
    BY <1>3 DEF Connect, TypeOK, slotVars, threadVars
  <2>2. \A j \in Conns : net'[j] = net[j] \/ net'[j] = "up"
    BY <2>1
  <2>3. AllUp'
    <3>1. \A j \in Conns : /\ net'[j] \in {"off", "up"}
                           /\ snd'[j] # "none" => snd'[j] \in Working /\ net'[j] = "up"
                           /\ rcv'[j].pc # "gone"
      BY <1>1, <2>1, <2>2 DEF AllUp
    <3>2. \A fd \in Fds : fdt'[fd] # None => net'[fdt'[fd]] = "up"
      BY <1>1, <2>1, <2>2 DEF AllUp, TypeOK
    <3>3. QED
      BY <3>1, <3>2 DEF AllUp
  <2>4. Unread' /\ \A j \in Conns : Done(j)' = Done(j)
    BY <1>1, <2>1 DEF Unread, Done
  <2>5. QED
    BY <2>1, <2>3, <2>4, StayElsewhere
<1>4. CASE Write(k)
  <2>1. UNCHANGED <<rcv, snd, clients, slotOf, got, fdt, net>>
    BY <1>4 DEF Write, slotVars, threadVars
  <2>2. AllUp'
    BY <1>1, <2>1 DEF AllUp
  <2>3. QED
    BY <1>1, <1>4, <2>1, <2>2, WritesNext, StayElsewhere
<1>5. QED
  BY <1>2, <1>3, <1>4 DEF ClientStep

LEMMA PlaceStart ==
  ASSUME NEW k, NEW r, r.pc = "event", ~r.sync
  PROVE  Place(r, k, 0)
BY DEF Place

LEMMA StayAccept ==
  ASSUME Owned, Quiet, Staying, AcceptLoop
  PROVE  Staying'
<1>1. TypeOK /\ Unread /\ AllUp /\ Places /\ Registered /\ Reaching
  BY DEF Owned, Staying
<1>2. ASSUME UNCHANGED <<pos, inbox>>
      PROVE  /\ Unread' /\ \A j \in Conns : Done(j)' = Done(j)
             /\ \A j \in Conns : EndRead(j)' => EndRead(j)
  BY <1>1, <1>2 DEF Unread, Done, EndRead
<1>3. ASSUME NEW k \in Conns, NEW fd \in Fds, Accept(k, fd) PROVE Staying'
  <2>1. /\ fdt' = [fdt EXCEPT ![fd] = k] /\ net[k] # "off" /\ fdt \in [Fds -> Conns \cup {None}]
        /\ UNCHANGED <<rcv, snd, clients, slotOf, got, net, pos, inbox>>
    BY <1>1, <1>3 DEF Accept, TypeOK, slotVars, threadVars, peerVars
  <2>2. net[k] = "up"
    BY <1>1, <2>1 DEF AllUp
  <2>3. \A f \in Fds : fdt'[f] = fdt[f] \/ fdt'[f] = k
    BY <2>1
  <2>4. AllUp'
    BY <1>1, <2>1, <2>2, <2>3 DEF AllUp
  <2>5. QED
    BY <1>2, <2>1, <2>4, StayElsewhere
<1>4. CASE Search \/ Clear \/ Assign
  <2>1. UNCHANGED <<rcv, snd, clients, slotOf, got, net, pos, inbox, fdt>>
    BY <1>4 DEF Search, Clear, Assign, slotVars, threadVars, peerVars
  <2>2. AllUp'
    BY <1>1, <2>1 DEF AllUp
  <2>3. QED
    BY <1>2, <2>1, <2>2, StayElsewhere
<1>5. CASE Start
  <2>0. PICK c \in Conns : c = acc.conn
    BY <1>5 DEF Start, Owned, Accepted
  <2>1. /\ c \in Conns /\ snd[c] = "none" /\ rcv[c].pc = "none" /\ it \in Slots
        /\ acc.fd \in Fds /\ fdt[acc.fd] = c
    BY <1>1, <1>5, <2>0 DEF Start, Owned, Accepted, TypeOK, Quiet, Started
  <2>2. /\ slotOf' = [slotOf EXCEPT ![c] = it] /\ snd' = [snd EXCEPT ![c] = "dequeue"]
        /\ rcv' = [rcv EXCEPT ![c].pc = "event"]
        /\ UNCHANGED <<pos, inbox, clients, got, net, fdt>>
    BY <1>5, <2>0 DEF Start, peerVars
  <2>3. /\ rcv \in [Conns -> Receiver] /\ snd \in [Conns -> SndPcs] /\ slotOf \in [Conns -> Slots]
    BY <1>1 DEF TypeOK
  <2>4. Place(rcv[c], c, Done(c)) /\ net[c] = "up"
    <3>1. c # None
      BY <2>1, SlotsAssumption
    <3>2. QED
      BY <1>1, <2>1, <3>1 DEF AllUp, Places
  <2>5. \A j \in Conns \ {c} : rcv'[j] = rcv[j] /\ snd'[j] = snd[j] /\ slotOf'[j] = slotOf[j]
    BY <2>1, <2>2, <2>3
  <2>6. rcv'[c].pc = "event" /\ rcv'[c].sync = rcv[c].sync /\ snd'[c] = "dequeue"
    BY <2>1, <2>2, <2>3 DEF Receiver
  <2>7. AllUp'
    BY <1>1, <2>2, <2>4, <2>5, <2>6 DEF AllUp, Working
  <2>8. Done(c) = 0 /\ ~rcv[c].sync
    BY <2>1, <2>4, Zenon DEF Place
  <2>9. Place(rcv'[c], c, Done(c)')
    <3>1. Done(c)' = 0
      BY <1>2, <2>1, <2>2, <2>8
    <3>2. QED
      BY <2>6, <2>8, <3>1, PlaceStart
  <2>10. Places'
    <3>1. ASSUME NEW j \in Conns \ {c} PROVE Place(rcv'[j], j, Done(j)')
      <4>1. Place(rcv[j], j, Done(j)) /\ rcv'[j] = rcv[j] /\ Done(j)' = Done(j)
        BY <1>1, <1>2, <2>2, <2>5 DEF Places
      <4>2. QED
        BY <4>1
    <3>2. \A j \in Conns : Place(rcv'[j], j, Done(j)')
      BY <2>9, <3>1, Zenon
    <3>3. QED
      BY <3>2 DEF Places
  <2>11. ~EndRead(c)'
    <3>1. ~Ended(c, 0)
      BY DEF Ended
    <3>2. ~EndRead(c)
      BY <1>1, <2>1, <2>8, <3>1, DoneType
    <3>3. QED
      BY <1>2, <2>1, <2>2, <3>2
  <2>12. Registered'
    BY <1>1, <1>2, <2>2, <2>5, <2>11 DEF Registered, InList
  <2>13. Reaching'
    <3>1. ASSUME NEW j \in Conns, rcv'[j].pc = "bcast", NEW x \in rcv'[j].reg
          PROVE  x \in Conns \ {j} /\ snd'[x] # "none" /\ (InList(rcv'[j].todo, slotOf'[x]) \/ InList(got'[x], j))
      <4>1. j # c
        BY <2>6, <3>1
      <4>2. rcv'[j] = rcv[j]
        BY <2>5, <4>1
      <4>3. x \in Conns \ {j} /\ snd[x] # "none" /\ (InList(rcv[j].todo, slotOf[x]) \/ InList(got[x], j))
        BY <1>1, <3>1, <4>2 DEF Reaching
      <4>4. x # c
        BY <2>1, <4>3
      <4>5. snd'[x] = snd[x] /\ slotOf'[x] = slotOf[x]
        BY <2>5, <4>3, <4>4
      <4>6. QED
        BY <2>2, <4>2, <4>3, <4>5
    <3>2. QED
      BY <3>1 DEF Reaching
  <2>14. QED
    BY <1>2, <2>2, <2>7, <2>10, <2>12, <2>13 DEF Staying
<1>6. QED
  BY <1>3, <1>4, <1>5 DEF AcceptLoop

LEMMA StaySender ==
  ASSUME Owned, Quiet, Staying, NEW k \in Conns, SenderThread(k)
  PROVE  Staying'
<1>1. TypeOK /\ Unread /\ AllUp
  BY DEF Owned, Staying
<1>2. UNCHANGED <<rcv, clients, slotOf, got, pos, inbox>>
  BY DEF SenderThread, Dequeue, LockToSend, SendDone, SendFails, CloseSocket, ClearAlive, slotVars, peerVars
<1>3. snd[k] # "none"
  BY DEF SenderThread, Dequeue, LockToSend, SendDone, SendFails, CloseSocket, ClearAlive, Fail
<1>4. snd[k] \in Working /\ Peer(k) = k /\ net[k] = "up" /\ ~Fail(k)
  BY <1>1, <1>3, Running DEF AllUp
<1>5. Dequeue(k) \/ LockToSend(k) \/ SendDone(k)
  BY <1>4 DEF SenderThread, SendFails, CloseSocket, ClearAlive, Working
<1>6. \E pc \in Working : snd' = [snd EXCEPT ![k] = pc]
  BY <1>5 DEF Dequeue, LockToSend, SendDone, Working
<1>7. \A j \in Conns : snd'[j] = snd[j] \/ (j = k /\ snd'[j] \in Working)
  <2>1. snd \in [Conns -> SndPcs]
    BY <1>1 DEF TypeOK
  <2>2. QED
    BY <1>6, <2>1
<1>8. net' = net /\ fdt' = fdt
  <2>1. net \in [Conns -> Nets]
    BY <1>1 DEF TypeOK
  <2>2. QED
    BY <1>4, <1>5, <2>1 DEF Dequeue, LockToSend, SendDone, peerVars
<1>9. AllUp'
  BY <1>1, <1>2, <1>4, <1>7, <1>8 DEF AllUp
<1>10. Unread' /\ \A j \in Conns : Done(j)' = Done(j)
  BY <1>1, <1>2 DEF Unread, Done
<1>11. \A j \in Conns : snd[j] # "none" => snd'[j] # "none"
  BY <1>7 DEF Working
<1>12. QED
  BY <1>2, <1>9, <1>10, <1>11, StayElsewhere

LEMMA StayStep == LeaveAt = {} /\ Obeyed /\ Owned /\ Quiet /\ Staying /\ [Next]_vars => Staying'
<1> SUFFICES ASSUME LeaveAt = {}, Obeyed, Owned, Quiet, Staying, [Next]_vars PROVE Staying'
  OBVIOUS
<1>1. ASSUME NEW k \in Conns, ClientStep(k) \/ Leave(k) PROVE Staying'
  BY <1>1, StayNetwork DEF Owned
<1>2. CASE AcceptLoop
  BY <1>2, StayAccept
<1>3. ASSUME NEW k \in Conns, ReceiverThread(k) PROVE Staying'
  BY <1>3, StayReceiver
<1>4. ASSUME NEW k \in Conns, SenderThread(k) PROVE Staying'
  BY <1>4, StaySender
<1>5. CASE UNCHANGED vars
  BY <1>5 DEF vars, Staying, Unread, AllUp, Places, Registered, Reaching, Done, EndRead, InList
<1>6. QED
  BY <1>1, <1>2, <1>3, <1>4, <1>5 DEF Next

\* As long as nobody leaves and clients write what they should, a broadcast has reached
\* every other synchronised client when it ends: no slot of theirs is missing from
\* `clients`, passed over as not alive or taken for the originator's, and no client is
\* given the slot of another (DropboxServer.cpp:344-455).
THEOREM ReachesEverybody ==
  ASSUME LeaveAt = {}, Obeyed
  PROVE  Spec => []ReachesAll
<1>1. Spec => []Owned
  BY OwnedInit, OwnedStep, PTL DEF Spec
<1>2. Spec => []Quiet
  BY <1>1, QuietInit, QuietStep, PTL DEF Spec
<1>3. Owned /\ Staying => ReachesAll
  <2> SUFFICES ASSUME Staying, NEW k \in Conns, rcv[k].pc = "bcast", rcv[k].todo = <<>>, NEW c \in rcv[k].reg
               PROVE  \E i \in DOMAIN got[c] : got[c][i] = k
    BY DEF ReachesAll
  <2>1. InList(rcv[k].todo, slotOf[c]) \/ InList(got[c], k)
    BY DEF Staying, Reaching
  <2>2. ~InList(<<>>, slotOf[c])
    BY DEF InList
  <2>3. QED
    BY <2>1, <2>2 DEF InList
<1>4. Owned /\ Quiet /\ Staying /\ [Next]_vars => Staying'
  BY StayStep
<1>5. QED
  BY <1>1, <1>2, <1>3, <1>4, StayInit, PTL DEF Spec

-----------------------------------------------------------------------------
(* Nobody is given a change twice *)

\* The list names the slot of each synchronised client once.
Different(seq) == \A i, j \in DOMAIN seq : seq[i] = seq[j] => i = j
ListedOnce == /\ Different(clients) /\ \A k \in Conns : Different(rcv[k].todo)
              /\ \A k \in Conns, s \in Slots : InList(rcv[k].todo, s) => InList(clients, s)
              /\ \A s \in Slots : InList(clients, s) =>
                     \E c \in Conns : snd[c] # "none" /\ slotOf[c] = s /\ EndRead(c)

\* A change that is being received or broadcast has been read.
Sent == \A k \in Conns : rcv[k].pc \in {"wantlock", "body", "saved", "bcast"} => \E i \in 1 .. Done(k) : Opens(k, i)
\* Who has got the change of k: it has been read, and is not yet to come.
Given ==
    \A k, c \in Conns : InList(got[c], k) =>
        /\ snd[c] # "none" /\ \E i \in 1 .. Done(k) : Opens(k, i)
        /\ rcv[k].pc \notin {"wantlock", "body", "saved"}
        /\ rcv[k].pc = "bcast" => ~InList(rcv[k].todo, slotOf[c])
OnlyOnce == ListedOnce /\ Sent /\ Given /\ NoDuplicates

LEMMA OnlyOnceInit == Init => OnlyOnce
<1> SUFFICES ASSUME Init PROVE OnlyOnce
  OBVIOUS
<1>1. clients = <<>> /\ \A k \in Conns : rcv[k] = NoThread /\ got[k] = <<>>
  BY DEF Init
<1>2. ListedOnce
  BY <1>1 DEF ListedOnce, NoThread, Different, InList
<1>3. Sent /\ Given /\ NoDuplicates
  BY <1>1 DEF Sent, NoThread, Given, InList, NoDuplicates
<1>4. QED
  BY <1>2, <1>3 DEF OnlyOnce

LEMMA DifferentAppend ==
  ASSUME NEW S, NEW q \in Seq(S), NEW x \in S, Different(q), ~InList(q, x)
  PROVE  Different(Append(q, x))
<1> DEFINE p == Append(q, x)
           m == Len(q)
<1>1. DOMAIN p = 1 .. m + 1 /\ DOMAIN q = 1 .. m /\ m \in Nat /\ p[m + 1] = x /\ \A i \in 1 .. m : p[i] = q[i]
  OBVIOUS
<1> HIDE DEF p, m
<1>2. \A i \in 1 .. m + 1 : i = m + 1 \/ i \in 1 .. m
  BY <1>1
<1>3. \A i \in 1 .. m : q[i] # x
  BY <1>1 DEF InList
<1>4. QED
  BY <1>1, <1>2, <1>3 DEF Different, p

LEMMA DifferentTail ==
  ASSUME NEW S, NEW q \in Seq(S), q # <<>>, Different(q)
  PROVE  Different(Tail(q)) /\ ~InList(Tail(q), Head(q))
<1> DEFINE p == Tail(q)
<1>1. \A i \in DOMAIN p : i + 1 \in DOMAIN q /\ p[i] = q[i + 1] /\ i \in Nat /\ i >= 1
  OBVIOUS
<1>2. Head(q) = q[1] /\ 1 \in DOMAIN q
  OBVIOUS
<1> HIDE DEF p
<1>3. Different(p)
  <2> SUFFICES ASSUME NEW i \in DOMAIN p, NEW j \in DOMAIN p, p[i] = p[j] PROVE i = j
    BY DEF Different
  <2>1. i + 1 = j + 1
    BY <1>1 DEF Different
  <2>2. QED
    BY <1>1, <2>1
<1>4. ~InList(p, Head(q))
  <2> SUFFICES ASSUME NEW i \in DOMAIN p, p[i] = Head(q) PROVE FALSE
    BY DEF InList
  <2>1. i + 1 = 1
    BY <1>1, <1>2 DEF Different
  <2>2. QED
    BY <1>1, <2>1
<1>5. QED
  BY <1>3, <1>4 DEF p

\* Two threads that run are not on one slot.
LEMMA OneRuns ==
  ASSUME Owned, Quiet, Staying, NEW k \in Conns, NEW c \in Conns, snd[k] # "none", snd[c] # "none", slotOf[k] = slotOf[c]
  PROVE  k = c
<1>1. snd[k] \in Sending /\ snd[c] \in Sending
  BY Running
<1>2. QED
  BY <1>1 DEF Owned, SendersOwn, Owns

\* What has been read stays read.
LEMMA DoneGrows ==
  ASSUME Owned, Quiet, Staying, Obeyed, NEW k \in Conns, ReceiverThread(k), NEW j \in Conns
  PROVE  /\ Done(j) \in Nat /\ Done(j)' \in Nat /\ Done(j) <= Done(j)'
         /\ EndRead(j) => EndRead(j)'
<1>1. Done(j) \in Nat
  BY DoneType DEF Owned, Staying
<1>2. Done(j)' = Done(j) \/ (Reads(k) /\ j = k)
  <2>1. Reads(k) \/ UNCHANGED <<pos, inbox>>
    BY ReceiverMoves
  <2>2. UNCHANGED <<pos, inbox>> => Done(j)' = Done(j)
    BY DEF Done
  <2>3. QED
    BY <2>1, <2>2 DEF Reads
<1>3. Done(j)' = Done(j) \/ Done(j)' = Done(j) + 1
  BY <1>2 DEF Reads
<1>4. EndRead(j) => EndRead(j)'
  BY <1>1, <1>3 DEF EndRead, Done
<1>5. QED
  BY <1>1, <1>3, <1>4

LEMMA ListedReceiver ==
  ASSUME Owned, Quiet, Staying, Obeyed, ListedOnce, NEW k \in Conns, ReceiverThread(k)
  PROVE  ListedOnce'
<1> DEFINE r == rcv[k]
           t == rcv'[k]
<1>1. /\ TypeOK /\ clients \in Seq(Slots) /\ slotOf[k] \in Slots /\ \A j \in Conns : rcv[j].todo \in Seq(Slots)
  BY DEF Owned, TypeOK, Receiver
<1>2. UNCHANGED <<snd, slotOf>> /\ \A j \in Conns \ {k} : rcv'[j] = rcv[j]
  BY ReceiverMoves
<1>3. \/ clients' = clients
      \/ /\ clients' = Append(clients, slotOf[k]) /\ t.todo = r.todo /\ EndRead(k)'
         /\ ~InList(clients, slotOf[k])
  <2> SUFFICES ASSUME clients' # clients
               PROVE  /\ clients' = Append(clients, slotOf[k]) /\ t.todo = r.todo /\ EndRead(k)'
                      /\ ~InList(clients, slotOf[k])
    OBVIOUS
  <2>1. /\ clients' = Append(clients, slotOf[k]) /\ t.todo = r.todo /\ Reads(k) /\ r.sync
        /\ Script[k][Done(k) + 1] = "END"
    BY ReceiverMoves
  <2>2. EndRead(k)'
    <3>1. Done(k) \in Nat /\ Done(k)' = Done(k) + 1
      BY <2>1, DoneGrows DEF Reads
    <3>2. Ended(k, Done(k) + 1)
      BY <2>1, <3>1, EndedNext
    <3>3. QED
      BY <3>1, <3>2 DEF EndRead, Done, Ended
  <2>3. ~EndRead(k)
    <3>1. ~Ended(k, Done(k))
      BY <2>1 DEF Staying, Places, Place
    <3>2. QED
      BY <1>1, <3>1, DoneType DEF Staying
  <2>4. snd[k] # "none"
    BY HasSender, ReceiverEffect, <1>1
  <2>5. ~InList(clients, slotOf[k])
    BY <1>1, <2>3, <2>4, OneRuns DEF ListedOnce
  <2>6. QED
    BY <2>1, <2>2, <2>5
<1>4. Different(clients') /\ \A s \in Slots : InList(clients, s) => InList(clients', s)
  <2>1. CASE clients' = clients
    BY <2>1 DEF ListedOnce
  <2>2. CASE clients' = Append(clients, slotOf[k]) /\ ~InList(clients, slotOf[k])
    <3>1. Different(clients')
      BY <1>1, <2>2, DifferentAppend DEF ListedOnce
    <3>2. \A s \in Slots : InList(clients, s) => InList(clients', s)
      BY <1>1, <2>2, AppendList
    <3>3. QED
      BY <3>1, <3>2
  <2>3. QED
    BY <1>3, <2>1, <2>2
<1>5. \A s \in Slots : InList(clients', s) =>
          \E c \in Conns : snd'[c] # "none" /\ slotOf'[c] = s /\ EndRead(c)'
  <2> SUFFICES ASSUME NEW s \in Slots, InList(clients', s)
               PROVE  \E c \in Conns : snd[c] # "none" /\ slotOf[c] = s /\ EndRead(c)'
    BY <1>2
  <2>1. CASE InList(clients, s)
    BY <2>1, DoneGrows DEF ListedOnce
  <2>2. CASE ~InList(clients, s)
    <3>1. s = slotOf[k] /\ EndRead(k)'
      <4>1. clients' # clients
        BY <2>2
      <4>2. clients' = Append(clients, slotOf[k]) /\ EndRead(k)'
        BY <1>3, <4>1, Zenon
      <4>3. InList(Append(clients, slotOf[k]), s) => InList(clients, s) \/ slotOf[k] = s
        BY <1>1, AppendList
      <4>4. QED
        BY <2>2, <4>2, <4>3
    <3>2. snd[k] # "none"
      BY HasSender, ReceiverEffect, <1>1
    <3>3. QED
      BY <3>1, <3>2
  <2>3. QED
    BY <2>1, <2>2
<1>6. Different(t.todo) /\ \A s \in Slots : InList(t.todo, s) => InList(clients', s)
  <2>1. t.todo = r.todo \/ t.todo = clients \/ (r.todo # <<>> /\ t.todo = Tail(r.todo))
    BY ReceiverMoves
  <2>2. CASE t.todo = r.todo
    BY <1>4, <2>2 DEF ListedOnce
  <2>3. CASE t.todo = clients
    BY <1>4, <2>3 DEF ListedOnce
  <2>4. CASE r.todo # <<>> /\ t.todo = Tail(r.todo)
    <3>1. r.todo \in Seq(Slots) /\ Different(r.todo)
      BY <1>1 DEF ListedOnce
    <3>2. Different(t.todo)
      BY <2>4, <3>1, DifferentTail
    <3>3. \A s : InList(t.todo, s) => InList(r.todo, s)
      BY <2>4, <3>1, TailList
    <3>4. QED
      BY <1>4, <3>2, <3>3 DEF ListedOnce
  <2>5. QED
    BY <2>1, <2>2, <2>3, <2>4
<1>7. \A j \in Conns : Different(rcv'[j].todo) /\ \A s \in Slots : InList(rcv'[j].todo, s) => InList(clients', s)
  BY <1>2, <1>4, <1>6 DEF ListedOnce
<1>8. QED
  BY <1>4, <1>5, <1>7 DEF ListedOnce

\* What a broadcast gives to whom: the client of the slot it has come to, once.
LEMMA GivesTo ==
  ASSUME Owned, Quiet, Staying, ListedOnce, NEW k \in Conns, BroadcastOne(k)
  PROVE  \/ got' = got
         \/ \E c \in Conns : /\ snd[c] # "none" /\ slotOf[c] = Head(rcv[k].todo)
                             /\ got' = [got EXCEPT ![c] = Append(@, k)]
<1> DEFINE s == Head(rcv[k].todo)
<1>1. rcv[k].todo # <<>> /\ rcv[k].todo \in Seq(Slots) /\ (got' = got \/ got' = [got EXCEPT ![occ[s]] = Append(@, k)])
  BY DEF BroadcastOne, Owned, TypeOK, Receiver
<1>2. s \in Slots /\ InList(rcv[k].todo, s)
  BY <1>1, HeadList
<1>3. PICK c \in Conns : snd[c] # "none" /\ slotOf[c] = s
  BY <1>2 DEF ListedOnce
<1>4. snd[c] \in Sending
  BY <1>3, Running
<1>5. occ[s] = c
  BY <1>3, <1>4 DEF Owned, SendersOwn, Owns
<1>6. QED
  BY <1>1, <1>3, <1>5

LEMMA OnceReceiver ==
  ASSUME Owned, Quiet, Staying, Obeyed, OneChange, OnlyOnce, NEW k \in Conns, ReceiverThread(k)
  PROVE  OnlyOnce'
<1> DEFINE r == rcv[k]
           t == rcv'[k]
<1>1. /\ TypeOK /\ r.todo \in Seq(Slots) /\ got \in [Conns -> Seq(Conns)]
      /\ ListedOnce /\ Sent /\ Given /\ NoDuplicates
  BY DEF Owned, TypeOK, Receiver, OnlyOnce
<1>2. UNCHANGED <<snd, slotOf>> /\ \A j \in Conns \ {k} : rcv'[j] = rcv[j]
  BY ReceiverMoves
<1>3. ListedOnce'
  BY <1>1, ListedReceiver
<1>4. \A j \in Conns : (\E i \in 1 .. Done(j) : Opens(j, i)) => \E i \in 1 .. Done(j)' : Opens(j, i)
  <2> SUFFICES ASSUME NEW j \in Conns, NEW i \in 1 .. Done(j), Opens(j, i)
               PROVE  \E x \in 1 .. Done(j)' : Opens(j, x)
    OBVIOUS
  <2>1. i \in 1 .. Done(j)'
    BY DoneGrows
  <2>2. QED
    BY <2>1
<1>5. t.pc \in {"wantlock", "body", "saved", "bcast"} => \E i \in 1 .. Done(k)' : Opens(k, i)
  <2> SUFFICES ASSUME t.pc \in {"wantlock", "body", "saved", "bcast"} PROVE \E i \in 1 .. Done(k)' : Opens(k, i)
    OBVIOUS
  <2>1. CASE r.pc \in {"wantlock", "body", "saved", "bcast"}
    BY <1>1, <1>4, <2>1 DEF Sent
  <2>2. CASE r.pc \notin {"wantlock", "body", "saved", "bcast"}
    <3>1. Reads(k) /\ Opens(k, Done(k) + 1)
      BY <2>2, ReceiverMoves
    <3>2. Done(k)' = Done(k) + 1 /\ Done(k) \in Nat
      BY <3>1, DoneGrows DEF Reads
    <3>3. Done(k) + 1 \in 1 .. Done(k)'
      BY <3>2
    <3>4. QED
      BY <3>1, <3>3
  <2>3. QED
    BY <2>1, <2>2
<1>6. Sent'
  BY <1>1, <1>2, <1>4, <1>5 DEF Sent
<1>7. CASE BroadcastOne(k) /\ got' # got
  <2>1. PICK c \in Conns : snd[c] # "none" /\ slotOf[c] = Head(r.todo) /\ got' = [got EXCEPT ![c] = Append(@, k)]
    BY <1>1, <1>7, GivesTo
  <2>2. r.pc = "bcast" /\ r.todo # <<>> /\ t.pc = "bcast" /\ t.todo = Tail(r.todo)
    BY <1>7, ReceiverMoves
  <2>3. InList(r.todo, Head(r.todo)) /\ Different(r.todo) /\ ~InList(t.todo, Head(r.todo))
    BY <1>1, <2>2, HeadList, DifferentTail DEF ListedOnce
  <2>4. ~InList(got[c], k)
    BY <1>1, <2>1, <2>2, <2>3 DEF Given
  <2>5. got[c] \in Seq(Conns) /\ got'[c] = Append(got[c], k) /\ \A x \in Conns \ {c} : got'[x] = got[x]
    BY <1>1, <2>1
  <2>6. NoDuplicates'
    <3>1. Different(got[c]) /\ \A x \in Conns : Different(got[x])
      BY <1>1 DEF NoDuplicates, Different
    <3>2. Different(got'[c])
      BY <2>4, <2>5, <3>1, DifferentAppend
    <3>3. \A x \in Conns : Different(got'[x])
      BY <2>5, <3>1, <3>2
    <3>4. QED
      BY <3>3 DEF NoDuplicates, Different
  <2>7. Given'
    <3> SUFFICES ASSUME NEW j \in Conns, NEW x \in Conns, InList(got'[x], j)
                 PROVE  /\ snd[x] # "none" /\ \E i \in 1 .. Done(j)' : Opens(j, i)
                        /\ rcv'[j].pc \notin {"wantlock", "body", "saved"}
                        /\ rcv'[j].pc = "bcast" => ~InList(rcv'[j].todo, slotOf[x])
      BY <1>2 DEF Given
    <3>1. InList(got[x], j) \/ (x = c /\ j = k)
      <4>1. CASE x = c
        <5>1. InList(Append(got[c], k), j) => InList(got[c], j) \/ k = j
          BY <2>5, AppendList
        <5>2. QED
          BY <2>5, <4>1, <5>1
      <4>2. CASE x # c
        BY <2>5, <4>2
      <4>3. QED
        BY <4>1, <4>2
    <3>2. CASE x = c /\ j = k
      BY <1>1, <1>4, <2>1, <2>2, <2>3, <3>2 DEF Sent
    <3>3. CASE InList(got[x], j) /\ j # k
      BY <1>1, <1>2, <1>4, <3>3 DEF Given
    <3>4. CASE InList(got[x], j) /\ j = k
      <4>1. snd[x] # "none" /\ ~InList(r.todo, slotOf[x]) /\ \E i \in 1 .. Done(k) : Opens(k, i)
        BY <1>1, <2>2, <3>4 DEF Given
      <4>2. ~InList(t.todo, slotOf[x])
        BY <1>1, <2>2, <4>1, TailList
      <4>3. QED
        BY <1>4, <2>2, <3>4, <4>1, <4>2
    <3>5. QED
      BY <3>1, <3>2, <3>3, <3>4
  <2>8. QED
    BY <1>3, <1>6, <2>6, <2>7 DEF OnlyOnce
<1>8. CASE got' = got
  <2>1. NoDuplicates'
    BY <1>1, <1>8 DEF NoDuplicates
  <2>2. Given'
    <3> SUFFICES ASSUME NEW j \in Conns, NEW x \in Conns, InList(got[x], j)
                 PROVE  /\ snd[x] # "none" /\ \E i \in 1 .. Done(j)' : Opens(j, i)
                        /\ rcv'[j].pc \notin {"wantlock", "body", "saved"}
                        /\ rcv'[j].pc = "bcast" => ~InList(rcv'[j].todo, slotOf[x])
      BY <1>2, <1>8 DEF Given
    <3>1. /\ snd[x] # "none" /\ \E i \in 1 .. Done(j) : Opens(j, i)
          /\ rcv[j].pc \notin {"wantlock", "body", "saved"}
          /\ rcv[j].pc = "bcast" => ~InList(rcv[j].todo, slotOf[x])
      BY <1>1 DEF Given
    <3>2. CASE j # k
      BY <1>2, <1>4, <3>1, <3>2
    <3>3. CASE j = k
      <4>1. t.pc # "wantlock"
        <5> SUFFICES ASSUME t.pc = "wantlock" PROVE FALSE
          OBVIOUS
        <5>1. Reads(k) /\ Opens(k, Done(k) + 1)
          BY ReceiverMoves
        <5>2. PICK i \in 1 .. Done(k) : Opens(k, i)
          BY <3>1, <3>3
        <5>3. Done(k) + 1 \in DOMAIN Script[k] /\ Done(k) \in Nat
          BY <5>1, DoneGrows DEF Reads
        <5>4. i \in DOMAIN Script[k]
          <6>1. Script[k] \in Seq(Units)
            BY SlotsAssumption
          <6>2. QED
            BY <5>3, <6>1
        <5>5. i = Done(k) + 1
          BY <5>1, <5>2, <5>3, <5>4 DEF OneChange, Opens
        <5>6. QED
          BY <5>3, <5>5
      <4>2. t.pc \notin {"body", "saved"}
        BY <3>1, <3>3, ReceiverMoves
      <4>3. t.pc = "bcast" => ~InList(t.todo, slotOf[x])
        <5>1. t.pc = "bcast" => r.pc = "bcast" /\ r.todo # <<>> /\ t.todo = Tail(r.todo)
          BY <3>1, <3>3, ReceiverMoves
        <5>2. QED
          BY <1>1, <3>1, <3>3, <5>1, TailList
      <4>4. QED
        BY <1>4, <3>1, <3>3, <4>1, <4>2, <4>3
    <3>4. QED
      BY <3>2, <3>3
  <2>3. QED
    BY <1>3, <1>6, <2>1, <2>2 DEF OnlyOnce
<1>9. got' = got \/ BroadcastOne(k)
  BY ReceiverMoves
<1>10. QED
  BY <1>7, <1>8, <1>9

\* The other steps start threads and give them slots, and that is all.
LEMMA OnceElsewhere ==
  ASSUME OnlyOnce, UNCHANGED <<clients, got>>,
         \A j \in Conns : Done(j)' = Done(j) /\ (EndRead(j) => EndRead(j)') /\ rcv'[j].todo = rcv[j].todo,
         \A j \in Conns : snd[j] # "none" => snd'[j] # "none" /\ slotOf'[j] = slotOf[j],
         \A j \in Conns : rcv'[j].pc = rcv[j].pc \/ rcv'[j].pc = "event"
  PROVE  OnlyOnce'
<1>1. ListedOnce /\ Sent /\ Given /\ NoDuplicates
  BY DEF OnlyOnce
<1>2. ListedOnce'
  BY <1>1 DEF ListedOnce
<1>3. Sent'
  BY <1>1 DEF Sent
<1>4. Given'
  BY <1>1 DEF Given
<1>5. NoDuplicates'
  BY <1>1 DEF NoDuplicates
<1>6. QED
  BY <1>2, <1>3, <1>4, <1>5 DEF OnlyOnce

LEMMA OnceStep == LeaveAt = {} /\ Obeyed /\ OneChange /\ Owned /\ Quiet /\ Staying /\ OnlyOnce /\ [Next]_vars => OnlyOnce'
<1> SUFFICES ASSUME LeaveAt = {}, Obeyed, OneChange, Owned, Quiet, Staying, OnlyOnce, [Next]_vars PROVE OnlyOnce'
  OBVIOUS
<1> USE DEF slotVars, peerVars, threadVars
<1>1. TypeOK /\ Unread
  BY DEF Owned, Staying
<1>2. ASSUME UNCHANGED <<pos, inbox>>
      PROVE  \A j \in Conns : Done(j)' = Done(j) /\ (EndRead(j) => EndRead(j)')
  BY <1>2 DEF Done, EndRead
<1>3. ASSUME NEW k \in Conns, ClientStep(k) \/ Leave(k) PROVE OnlyOnce'
  <2>1. UNCHANGED <<clients, got, rcv, snd, slotOf>>
    BY <1>3 DEF ClientStep, Connect, Write, Leave
  <2>2. \A j \in Conns : Done(j)' = Done(j) /\ (EndRead(j) => EndRead(j)')
    <3>1. CASE Write(k)
      BY <1>1, <3>1, WritesNext DEF EndRead, Done
    <3>2. CASE ~Write(k)
      BY <1>2, <1>3, <3>2 DEF ClientStep, Connect, Leave
    <3>3. QED
      BY <3>1, <3>2
  <2>3. QED
    BY <2>1, <2>2, OnceElsewhere
<1>4. ASSUME NEW k \in Conns, NEW fd \in Fds, Accept(k, fd) PROVE OnlyOnce'
  BY <1>2, <1>4, OnceElsewhere DEF Accept
<1>5. CASE Search \/ Clear \/ Assign
  BY <1>2, <1>5, OnceElsewhere DEF Search, Clear, Assign
<1>6. CASE Start
  <2>1. PICK c \in Conns : c = acc.conn /\ snd[c] = "none"
    BY <1>6 DEF Start, Owned, Accepted
  <2>2. /\ slotOf' = [slotOf EXCEPT ![c] = it] /\ snd' = [snd EXCEPT ![c] = "dequeue"]
        /\ rcv' = [rcv EXCEPT ![c].pc = "event"]
        /\ UNCHANGED <<pos, inbox, clients, got>>
    BY <1>6, <2>1 DEF Start
  <2>3. rcv \in [Conns -> Receiver] /\ snd \in [Conns -> SndPcs] /\ slotOf \in [Conns -> Slots]
    BY <1>1 DEF TypeOK
  <2>4. \A j \in Conns : rcv'[j].todo = rcv[j].todo /\ (rcv'[j].pc = rcv[j].pc \/ rcv'[j].pc = "event")
    BY <2>2, <2>3 DEF Receiver
  <2>5. \A j \in Conns : snd[j] # "none" => snd'[j] # "none" /\ slotOf'[j] = slotOf[j]
    BY <2>1, <2>2, <2>3
  <2>6. QED
    BY <1>2, <2>2, <2>4, <2>5, OnceElsewhere
<1>7. ASSUME NEW k \in Conns, ReceiverThread(k) PROVE OnlyOnce'
  BY <1>7, OnceReceiver
<1>8. ASSUME NEW k \in Conns, SenderThread(k) PROVE OnlyOnce'
  <2>1. UNCHANGED <<clients, got, rcv, slotOf, pos, inbox>>
    BY <1>8 DEF SenderThread, Dequeue, LockToSend, SendDone, SendFails, CloseSocket, ClearAlive
  <2>2. \E pc \in SndPcs \ {"none"} : snd' = [snd EXCEPT ![k] = pc]
    BY <1>8 DEF SenderThread, Dequeue, LockToSend, SendDone, SendFails, CloseSocket, ClearAlive, SndPcs
  <2>3. \A j \in Conns : snd[j] # "none" => snd'[j] # "none"
    BY <1>1, <2>2 DEF TypeOK
  <2>4. QED
    BY <1>2, <2>1, <2>3, OnceElsewhere
<1>9. CASE UNCHANGED vars
  BY <1>2, <1>9, OnceElsewhere DEF vars
<1>10. QED
  BY <1>3, <1>4, <1>5, <1>6, <1>7, <1>8, <1>9 DEF Next, AcceptLoop

\* As long as nobody leaves, clients write what they should and each changes one thing,
\* nobody is given a change twice: newClientProcedure puts a slot into `clients` once
\* (:335), and every broadcast goes once through the list (DropboxServer.cpp:344-455).
THEOREM GivenOnce ==
  ASSUME LeaveAt = {}, Obeyed, OneChange
  PROVE  Spec => []NoDuplicates
<1>1. Spec => []Owned
  BY OwnedInit, OwnedStep, PTL DEF Spec
<1>2. Spec => []Quiet
  BY <1>1, QuietInit, QuietStep, PTL DEF Spec
<1>3. Owned /\ Quiet /\ Staying /\ [Next]_vars => Staying'
  BY StayStep
<1>4. Spec => []Staying
  BY <1>1, <1>2, <1>3, StayInit, PTL DEF Spec
<1>5. Owned /\ Quiet /\ Staying /\ OnlyOnce /\ [Next]_vars => OnlyOnce'
  BY OnceStep
<1>6. OnlyOnce => NoDuplicates
  BY DEF OnlyOnce
<1>7. QED
  BY <1>1, <1>2, <1>4, <1>5, <1>6, OnlyOnceInit, PTL DEF Spec
=============================================================================
