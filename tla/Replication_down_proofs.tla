--------------------------- MODULE Replication_down_proofs ---------------------------
(***************************************************************************)
(* Theorems about Replication, for any clients, files, directories and     *)
(* plans: no change is lost on its way to a client.  What has been sent to *)
(* it, is being sent, waits in its queue or is about to be broadcast turns *)
(* its folder into the server's, for the paths that one other user edits.  *)
(* First which paths there will be, then the contents of the files that    *)
(* are sent, then copies, whose content is what the client has at their    *)
(* source when they arrive.  Then: no receive procedure throws.  At the    *)
(* end, with moves: no name is lost on its way up or down.                 *)
(***************************************************************************)
EXTENDS Replication_up_proofs, FiniteSetTheorems

-----------------------------------------------------------------------------
(* What is on its way to a client *)

Sending(c) == IF snd[c].busy THEN <<snd[c].ev>> ELSE <<>>
Pipe(c) == (Evs(down[c]) \o Sending(c)) \o queue[c]

LEMMA JoinFacts ==
  ASSUME NEW E, NEW xa \in Seq(E), NEW xb \in Seq(E), NEW e \in E
  PROVE  /\ xa \o xb \in Seq(E)
         /\ xa # <<>> => xa \o xb # <<>> /\ Head(xa \o xb) = Head(xa) /\ Tail(xa \o xb) = Tail(xa) \o xb
         /\ xa \o Append(xb, e) = Append(xa \o xb, e)
         /\ Append(xa, e) \o xb = (xa \o <<e>>) \o xb
         /\ xb # <<>> => Append(xa, Head(xb)) \o Tail(xb) = xa \o xb
         /\ <<>> \o xb = xb /\ xa \o <<>> = xa
<1>1. xa \o xb \in Seq(E)
  OBVIOUS
<1>2. ASSUME xa # <<>> PROVE xa \o xb # <<>> /\ Head(xa \o xb) = Head(xa) /\ Tail(xa \o xb) = Tail(xa) \o xb
  BY <1>2
<1>3. xa \o Append(xb, e) = Append(xa \o xb, e)
  OBVIOUS
<1>4. Append(xa, e) \o xb = (xa \o <<e>>) \o xb
  OBVIOUS
<1>5. ASSUME xb # <<>> PROVE Append(xa, Head(xb)) \o Tail(xb) = xa \o xb
  BY <1>5
<1>6. <<>> \o xb = xb /\ xa \o <<>> = xa
  OBVIOUS
<1>7. QED
  BY <1>1, <1>2, <1>3, <1>4, <1>5, <1>6

LEMMA PipeType ==
  ASSUME Base, NEW c \in Clients
  PROVE  /\ Evs(down[c]) \in Seq(ByOthers(c)) /\ Sending(c) \in Seq(ByOthers(c)) /\ queue[c] \in Seq(ByOthers(c))
         /\ Pipe(c) \in Seq(ByOthers(c)) /\ Pipe(c) \in Seq(Event) /\ Len(Pipe(c)) \in Nat
         /\ down[c] \in Seq(Message) /\ queue[c] \in Seq(Event)
<1>1. /\ down[c] \in Seq(Message) /\ down[c] \in Seq(OthersMessage(c)) /\ queue[c] \in Seq(ByOthers(c))
      /\ snd[c].busy => snd[c].ev \in ByOthers(c)
      /\ queue[c] \in Seq(Event)
  BY DEF Base, TypeOK, EventsOK
<1>2. /\ Evs(down[c]) \in Seq(Event) /\ Len(Evs(down[c])) = Len(down[c])
      /\ \A i \in 1 .. Len(down[c]) : Evs(down[c])[i] = down[c][i].ev
  BY <1>1, EvsFacts
<1>3. \A i \in 1 .. Len(down[c]) : down[c][i].ev \in ByOthers(c)
  BY <1>1, Members
<1>4. Evs(down[c]) \in Seq(ByOthers(c))
  BY <1>2, <1>3
<1>5. Sending(c) \in Seq(ByOthers(c))
  BY <1>1 DEF Sending
<1>6. Pipe(c) \in Seq(ByOthers(c))
  BY <1>1, <1>4, <1>5 DEF Pipe
<1>7. Pipe(c) \in Seq(Event)
  BY <1>6, SeqGrows, Members
<1>8. QED
  BY <1>1, <1>4, <1>5, <1>6, <1>7

LEMMA PipeReceive ==
  ASSUME Base, NEW c \in Clients, ClientReceive(c)
  PROVE  Pipe(c) # <<>> /\ Head(Pipe(c)) = Head(down[c]).ev /\ Pipe(c)' = Tail(Pipe(c))
<1>1. down[c] # <<>> /\ down'[c] = Tail(down[c]) /\ snd' = snd /\ queue' = queue
  BY DEF ClientReceive, Base, TypeOK
<1> DEFINE xa == Evs(down[c])
           sg == Sending(c)
           q == queue[c]
<1>2. /\ xa \in Seq(Event) /\ xa # <<>> /\ Head(xa) = Head(down[c]).ev /\ Evs(down'[c]) = Tail(xa)
  BY <1>1, PipeType, EvsFacts
<1>3. xa \in Seq(Event) /\ sg \in Seq(Event) /\ q \in Seq(Event)
  BY PipeType, SeqGrows, Members
<1>4. Pipe(c)' = (Tail(xa) \o sg) \o q
  BY <1>1, <1>2 DEF Pipe, Sending
<1>5. Pipe(c) = (xa \o sg) \o q
  BY DEF Pipe
<1> HIDE DEF xa, sg, q
<1>6. xa \o sg \in Seq(Event) /\ xa \o sg # <<>> /\ Head(xa \o sg) = Head(xa) /\ Tail(xa \o sg) = Tail(xa) \o sg
  BY <1>2, <1>3, JoinFacts
<1>7. /\ (xa \o sg) \o q # <<>> /\ Head((xa \o sg) \o q) = Head(xa \o sg)
      /\ Tail((xa \o sg) \o q) = Tail(xa \o sg) \o q
  BY <1>3, <1>6, JoinFacts
<1>8. QED
  BY <1>2, <1>4, <1>5, <1>6, <1>7

LEMMA PipeEnqueue ==
  ASSUME Base, NEW j \in Clients, NEW c \in Clients, Enqueue(j, c), mode[c] = "live"
  PROVE  Pipe(c)' = Append(Pipe(c), rcv[j].ev) /\ rcv[j].ev \in Event
<1>1. rcv[j].pc = "bcast" /\ Wanted(c, rcv[j].ev) /\ rcv[j] \in Receiver
  BY DEF Enqueue, Wanted, Base, TypeOK
<1>2. rcv[j].ev \in Event
  BY <1>1, ReceiverFacts
<1>3. queue'[c] = Append(queue[c], rcv[j].ev) /\ snd' = snd /\ down' = down
  BY <1>1 DEF Enqueue, Base, TypeOK
<1> DEFINE xa == Evs(down[c]) \o Sending(c)
           q == queue[c]
<1>4. Evs(down[c]) \in Seq(Event) /\ Sending(c) \in Seq(Event) /\ q \in Seq(Event)
  BY PipeType, SeqGrows, Members
<1>5. xa \in Seq(Event)
  BY <1>4, JoinFacts, <1>2
<1>6. Pipe(c)' = xa \o Append(q, rcv[j].ev)
  BY <1>3 DEF Pipe, Sending
<1>7. Pipe(c) = xa \o q
  BY DEF Pipe
<1> HIDE DEF xa, q
<1>8. QED
  BY <1>2, <1>4, <1>5, <1>6, <1>7, JoinFacts

LEMMA PipeStartSend ==
  ASSUME Base, NEW c \in Clients, StartSend(c), mode'[c] # "dropped"
  PROVE  Pipe(c)' = Pipe(c)
<1> DEFINE e == Head(queue[c])
           xa == Evs(down[c])
           q == queue[c]
<1>0. mode \in [Clients -> Modes] /\ down \in [Clients -> Seq(Message)] /\ snd \in [Clients -> Sender] /\ folder \in Tree
      /\ queue \in [Clients -> Seq(Event)]
  BY DEF Base, TypeOK
<1>1. queue[c] # <<>> /\ queue'[c] = Tail(queue[c]) /\ ~snd[c].busy
  BY <1>0 DEF StartSend, MutexFree
<1>2. e \in Event /\ q \in Seq(Event) /\ xa \in Seq(Event)
  BY <1>0, <1>1, PipeType, EvsFacts
<1>3. Sending(c) = <<>> /\ xa \o <<>> = xa
  BY <1>1, <1>2 DEF Sending
<1>4. Pipe(c) = xa \o q
  BY <1>3 DEF Pipe
<1>5. ASSUME e.op # "NEW_FILE" PROVE Pipe(c)' = Append(xa, e) \o Tail(q)
  <2> DEFINE m == [ev |-> e, val |-> folder[e.dst]]
  <2>1. down'[c] = Append(down[c], m) /\ snd' = snd
    BY <1>0, <1>5 DEF StartSend
  <2>2. m \in Message /\ m.ev = e
    BY <1>0, <1>2 DEF Message, Tree, Event
  <2> HIDE DEF m
  <2>3. Evs(down'[c]) = Append(xa, e)
    BY <1>0, <2>1, <2>2, EvsFacts
  <2> HIDE DEF e, q, xa
  <2>4. Sending(c)' = <<>> /\ queue'[c] = Tail(q)
    BY <1>1, <2>1 DEF Sending, q
  <2>5. Pipe(c)' = (Append(xa, e) \o <<>>) \o Tail(q)
    BY <2>3, <2>4 DEF Pipe
  <2>6. Append(xa, e) \o <<>> = Append(xa, e)
    BY <1>2
  <2>7. QED
    BY <2>5, <2>6
<1>6. ASSUME e.op = "NEW_FILE" PROVE Pipe(c)' = (xa \o <<e>>) \o Tail(q)
  <2>1. folder[e.dst] # Absent
    <3>1. ASSUME folder[e.dst] = Absent PROVE FALSE
      BY <1>0, <1>6, <3>1 DEF StartSend, Closed
    <3>2. QED
      BY <3>1
  <2>2. down' = down /\ snd'[c] = [busy |-> TRUE, ev |-> e, val |-> folder[e.dst]]
    BY <1>0, <1>6, <2>1 DEF StartSend
  <2> HIDE DEF e
  <2>3. Sending(c)' = <<e>>
    BY <2>2 DEF Sending
  <2>4. QED
    BY <1>1, <2>2, <2>3 DEF Pipe
<1> HIDE DEF e, xa, q
<1>7. e = Head(q) /\ q # <<>>
  BY <1>1 DEF e, q
<1>8. Append(xa, e) \o Tail(q) = xa \o q /\ (xa \o <<e>>) \o Tail(q) = Append(xa, e) \o Tail(q)
  <2>1. Tail(q) \in Seq(Event)
    BY <1>2, <1>7
  <2>2. Append(xa, e) \o Tail(q) = xa \o q
    BY <1>2, <1>7, JoinFacts
  <2>3. (xa \o <<e>>) \o Tail(q) = Append(xa, e) \o Tail(q)
    BY <1>2, <2>1, JoinFacts
  <2>4. QED
    BY <2>2, <2>3
<1>9. QED
  BY <1>4, <1>5, <1>6, <1>8

LEMMA PipeFinishSend ==
  ASSUME Base, NEW c \in Clients, FinishSend(c), mode'[c] # "dropped"
  PROVE  Pipe(c)' = Pipe(c)
<1> DEFINE e == snd[c].ev
           xa == Evs(down[c])
           q == queue[c]
<1>0. mode \in [Clients -> Modes] /\ down \in [Clients -> Seq(Message)] /\ snd \in [Clients -> Sender] /\ folder \in Tree
      /\ queue \in [Clients -> Seq(Event)]
  BY DEF Base, TypeOK
<1>1. snd[c].busy /\ snd'[c] = NoSend /\ queue' = queue
  BY <1>0 DEF FinishSend
<1>2. e \in Event /\ snd[c].val \in Content /\ q \in Seq(Event) /\ xa \in Seq(Event)
  BY <1>0, <1>1, PipeType, EvsFacts, SenderFacts
<1>3. folder[e.dst] # Absent
  <2>1. ASSUME folder[e.dst] = Absent PROVE FALSE
    BY <1>0, <2>1 DEF FinishSend, Closed
  <2>2. QED
    BY <2>1
<1>4. PICK v \in Read(folder[e.dst], snd[c].val) : down' = [down EXCEPT ![c] = Append(@, [ev |-> e, val |-> v])]
  BY <1>3 DEF FinishSend
<1>5. v \in Content
  BY <1>0, <1>2, <1>4 DEF Read, Content, Tree, Event
<1>6. [ev |-> e, val |-> v] \in Message
  BY <1>2, <1>5 DEF Message
<1>7. Evs(down'[c]) = Append(xa, e)
  BY <1>0, <1>4, <1>6, EvsFacts
<1>8. Sending(c)' = <<>> /\ Sending(c) = <<e>>
  BY <1>1 DEF Sending, NoSend
<1>9. Pipe(c)' = (Append(xa, e) \o <<>>) \o q /\ Pipe(c) = (xa \o <<e>>) \o q
  BY <1>1, <1>7, <1>8 DEF Pipe
<1> HIDE DEF e, xa, q
<1>10. QED
  BY <1>2, <1>9, JoinFacts

LEMMA PipeKept ==
  ASSUME Base, Next, NEW c \in Clients, ~ClientReceive(c), \A j \in Clients : ~Enqueue(j, c), mode'[c] # "dropped"
  PROVE  Pipe(c)' = Pipe(c)
<1>0. mode \in [Clients -> Modes] /\ down \in [Clients -> Seq(Message)] /\ snd \in [Clients -> Sender]
      /\ queue \in [Clients -> Seq(Event)]
  BY DEF Base, TypeOK
<1>1. CASE StartSend(c) \/ FinishSend(c)
  BY <1>1, PipeStartSend, PipeFinishSend
<1>2. ASSUME ~StartSend(c), ~FinishSend(c) PROVE down'[c] = down[c] /\ snd'[c] = snd[c] /\ queue'[c] = queue[c]
  <2>1. ASSUME NEW k \in Clients, k # c, StartSend(k) \/ FinishSend(k) \/ ClientReceive(k)
        PROVE  down'[c] = down[c] /\ snd'[c] = snd[c] /\ queue'[c] = queue[c]
    BY <1>0, <2>1 DEF StartSend, FinishSend, ClientReceive
  <2>2. ASSUME NEW j \in Clients, NEW k \in Clients, Enqueue(j, k) PROVE queue'[c] = queue[c]
    BY <1>0, <2>2 DEF Enqueue
  <2>3. down'[c] = down[c]
    BY <1>2, <2>1, WhoChanges DEF Changes
  <2>4. snd'[c] = snd[c]
    BY <1>2, <2>1, WhoChanges DEF Changes
  <2>5. queue'[c] = queue[c]
    BY <1>2, <2>1, <2>2, WhoChanges DEF Changes
  <2>6. QED
    BY <2>3, <2>4, <2>5
<1>3. QED
  BY <1>1, <1>2 DEF Pipe, Sending

LEMMA ShapedFewer ==
  ASSUME NEW P, NEW Q, WithParents(P), WithParents(Q), Q \subseteq P, NEW S, S \subseteq P, NEW e
  PROVE  Shaped(Q, Q \cap S, e) = Q \cap Shaped(P, S, e)
<1>1. e.dst \in Q => (In[e.dst] = Root \/ In[e.dst] \in Q)
  BY DEF WithParents
<1>2. QED
  BY <1>1 DEF Shaped

LEMMA ShapedTwice ==
  ASSUME NEW P, P \subseteq Paths, NEW S, NEW e
  PROVE  Shaped(P, Shaped(P, S, e), e) = Shaped(P, S, e)
<1>1. ASSUME e.dst \in P PROVE In[e.dst] # e.dst
  <2>1. e.dst \in Paths
    BY <1>1
  <2>2. QED
    BY <2>1, ConstantFacts
<1>2. QED
  BY <1>1 DEF Shaped

LEMMA ShapedWithin ==
  ASSUME NEW P, NEW S, S \subseteq P, NEW e
  PROVE  Shaped(P, S, e) \subseteq P
BY DEF Shaped

-----------------------------------------------------------------------------
(* What becomes of the paths of one client in the server's folder *)

\* The folder changes at paths of k only by what k's receiver does.
LEMMA FolderHeld ==
  ASSUME Base, Tidy, Trees, ContentsKept, Writing, Next, NEW k \in Clients, NEW c \in Clients
  PROVE  \/ \A p \in Held(k, c)' : folder'[p] = folder[p]
         \/ StartFile(k) \/ ReceivePath(k) \/ FinishFile(k)
<1>1. Held(k, c)' \subseteq Held(k, c)
  BY HeldNext
<1>2. ASSUME NEW j \in Clients, j # k, StartFile(j) \/ StartCutFile(j) \/ ReceivePath(j) \/ FinishFile(j)
      PROVE  \A p \in Held(k, c)' : folder'[p] = folder[p]
  BY <1>1, <1>2, FolderForeign, ValueForeign
<1>3. ASSUME NEW j \in Clients, NEW q \in Paths, Return(j, q)
      PROVE  \A p \in Held(k, c)' : folder'[p] = folder[p]
  BY <1>3, FolderReturned
<1>4. ASSUME StartCutFile(k) PROVE \A p \in Held(k, c)' : folder'[p] = folder[p]
  <2>1. CASE folder' = folder
    BY <2>1
  <2>2. CASE folder' # folder
    <3> DEFINE e == Head(up[k]).ev
    <3>1. /\ folder' = [folder EXCEPT ![e.dst] = Torn]
          /\ missed' = [j \in Clients |-> missed[j] \cup {e.dst}]
      BY <1>4, <2>2 DEF StartCutFile
    <3>2. folder \in Tree
      BY DEF Base, TypeOK
    <3>3. \A p \in Held(k, c)' : p # e.dst
      BY <1>1, <3>1, HeldFacts DEF Held, Forgotten, Mine, Base
    <3>4. \A p \in Held(k, c)' : p \in Paths
      BY <1>1, HeldFacts DEF Base
    <3>5. QED
      BY <3>1, <3>2, <3>3, <3>4 DEF Tree
  <2>3. QED
    BY <2>1, <2>2
<1>5. ASSUME folder' = folder PROVE \A p \in Held(k, c)' : folder'[p] = folder[p]
  BY <1>5
<1>6. QED
  BY <1>2, <1>3, <1>4, <1>5, WhoChanges DEF Changes

\* What the receiver of k is about stays as it has made it.
LastingOf(k, c) == rcv[k].pc \in {"writing", "saved"} =>
                      Shaped(Held(k, c), Held(k, c) \cap Sp(folder), rcv[k].ev) = Held(k, c) \cap Sp(folder)
Lasting == \A k, c \in Clients : LastingOf(k, c)

\* k's receiver begins with the first message of k.
LEMMA ReceiverTakes ==
  ASSUME Base, Tidy, Trees, ContentsKept, Next, NEW k \in Clients, StartFile(k) \/ ReceivePath(k), rcv'[k].pc # "dead"
  PROVE  /\ up[k] # <<>> /\ rcv'[k].ev = Head(up[k]).ev /\ rcv'[k].pc \in {"writing", "saved"} /\ rcv[k].pc = "idle"
         /\ Plain(Head(up[k]).ev)
         /\ \A c \in Clients : Held(k, c) \cap Sp(folder') = Shaped(Held(k, c), Held(k, c) \cap Sp(folder), Head(up[k]).ev)
<1>0. TypeOK /\ EventsOK
  BY DEF Base
<1>1. up[k] # <<>> /\ rcv[k].pc = "idle" /\ rcv'[k].ev = Head(up[k]).ev /\ rcv'[k].pc \in {"writing", "saved"}
  <2>1. up[k] # <<>>
    BY DEF StartFile, ReceivePath
  <2>2. Dead(TRUE).pc = "dead"
    BY DEF Dead
  <2>3. CASE StartFile(k)
    BY <1>0, <2>1, <2>2, <2>3, OwnSteps
  <2>4. CASE ReceivePath(k)
    BY <1>0, <2>1, <2>4, OwnSteps
  <2>5. QED
    BY <2>3, <2>4
<1>2. PICK m : m.ev = Head(up[k]).ev /\ Arrives(m)
  BY FolderSteps
<1>3. Good(m) /\ folder' = Applied(folder, m)
  BY <1>2 DEF Arrives
<1>4. ASSUME NEW c \in Clients
      PROVE  Held(k, c) \cap Sp(folder') = Shaped(Held(k, c), Held(k, c) \cap Sp(folder), m.ev)
  <2>1. WithParents(Held(k, c))
    BY <1>0, HeldFacts
  <2>2. QED
    BY <1>3, <2>1, AppliedShape DEF Trees
<1>5. QED
  BY <1>1, <1>2, <1>3, <1>4 DEF Good

LEMMA FinishedFacts ==
  ASSUME Base, Trees, Writing, Next, NEW k \in Clients, FinishFile(k)
  PROVE  /\ Sp(folder') = Sp(folder) /\ rcv[k].pc = "writing" /\ rcv[k].ev.op = "NEW_FILE" /\ rcv[k].ev.dst \in Files
         /\ \/ rcv'[k].pc = "saved" /\ rcv'[k].ev = rcv[k].ev
            \/ rcv'[k].pc = "dead" /\ \A c \in Clients : rcv[k].ev.dst \notin Held(k, c)
<1>0. TypeOK /\ EventsOK /\ rcv[k] \in Receiver /\ rcv[k].pc = "writing" /\ rcv \in [Clients -> Receiver]
  BY DEF Base, TypeOK, FinishFile
<1>1. Sp(folder') = Sp(folder)
  BY FolderFinished
<1>2. rcv[k].ev.op = "NEW_FILE" /\ rcv[k].ev.dst \in Paths /\ rcv[k].ev.dst \in Files
  BY <1>0, Members DEF EventsOK, Handling, Well, Event
<1>3. CASE rcv'[k].pc = "dead"
  <2>1. ASSUME NEW c \in Clients, rcv[k].ev.dst \in Held(k, c) PROVE FALSE
    <3>1. rcv[k].ev.dst \in Mine(k) /\ ~Spoiled(rcv[k].ev.dst)
      BY <2>1 DEF Held, Forgotten, Spoiled, Mine
    <3>2. rcv[k].ino = rcv[k].ev.dst
      BY <1>0, <3>1 DEF Writing
    <3>3. folder[rcv[k].ev.dst] # Absent
      BY <1>0, <1>2, <3>2, ConstantFacts, ReplicationAssumption DEF Writing
    <3>4. folder'[rcv[k].ev.dst] # Absent
      BY <1>1, <1>2, <3>3 DEF Sp
    <3>5. rcv'[k].pc = "saved"
      BY <1>0, <3>4 DEF FinishFile
    <3>6. QED
      BY <1>3, <3>5
  <2>2. QED
    BY <1>0, <1>1, <1>2, <1>3, <2>1
<1>4. CASE rcv'[k].pc # "dead"
  <2>1. Dead(TRUE).pc = "dead"
    BY DEF Dead
  <2>2. QED
    BY <1>0, <1>1, <1>2, <1>4, <2>1, OwnSteps
<1>5. QED
  BY <1>3, <1>4

\* What a client brings back is missed by all.
LEMMA ReturnedFacts ==
  ASSUME Base, Trees, ContentsKept, Next, NEW k \in Clients, NEW q \in Paths, Return(k, q)
  PROVE  /\ rcv[k].pc = "idle"
         /\ \/ rcv'[k].pc \in {"idle", "dead"}
            \/ /\ rcv'[k].pc \in {"writing", "saved"} /\ rcv'[k].ev.dst = q /\ rcv'[k].ev.op \in {"NEW_FILE", "NEW_DIRECTORY"}
               /\ \A c \in Clients : q \notin Held(k, c)'
<1>0. TypeOK /\ EventsOK
  BY DEF Base
<1>1. CASE rcv'[k].pc \in {"idle", "dead"}
  BY <1>0, <1>1, OwnSteps
<1>2. CASE rcv'[k].pc \notin {"idle", "dead"}
  <2>1. /\ rcv[k].pc = "idle" /\ rcv'[k].pc \in {"writing", "saved"} /\ rcv'[k].ev.dst = q
        /\ rcv'[k].ev.op \in {"NEW_FILE", "NEW_DIRECTORY"}
    <3>1. /\ rcv[k].pc = "idle"
          /\ \/ rcv'[k] = rcv[k] /\ folder' = folder
             \/ rcv'[k].pc = "dead"
             \/ rcv'[k].pc = "writing" /\ rcv'[k].ev = [op |-> "NEW_FILE", src |-> q, dst |-> q]
             \/ rcv'[k].pc = "saved" /\ rcv'[k].ev = [op |-> "NEW_DIRECTORY", src |-> q, dst |-> q]
      BY <1>0, OwnSteps
    <3>2. CASE rcv'[k].ev = [op |-> "NEW_FILE", src |-> q, dst |-> q]
      BY <1>2, <3>1, <3>2
    <3>3. CASE rcv'[k].ev = [op |-> "NEW_DIRECTORY", src |-> q, dst |-> q]
      BY <1>2, <3>1, <3>3
    <3>4. QED
      BY <1>2, <3>1, <3>2, <3>3
  <2>2. folder[q] = Absent
    BY <1>2, <2>1 DEF Return
  <2>3. \A c \in Clients : q \in missed'[c]
    BY <2>2 DEF Return
  <2>4. QED
    BY <2>1, <2>3 DEF Held, Forgotten
<1>3. QED
  BY <1>1, <1>2

\* Nothing of it has to be done twice, of a smaller set of paths either.
LEMMA LastingFewer ==
  ASSUME Base, Tidy, Next, NEW k \in Clients, NEW c \in Clients, NEW e, NEW S,
         Shaped(Held(k, c), Held(k, c) \cap S, e) = Held(k, c) \cap S
  PROVE  Shaped(Held(k, c)', Held(k, c)' \cap S, e) = Held(k, c)' \cap S
<1> DEFINE P == Held(k, c)
           Q == Held(k, c)'
<1>1. WithParents(P) /\ WithParents(Q) /\ Q \subseteq P
  BY HeldFacts, HeldNext DEF Base
<1> HIDE DEF P, Q
<1>2. Shaped(Q, Q \cap (P \cap S), e) = Q \cap Shaped(P, P \cap S, e)
  BY <1>1, ShapedFewer
<1>3. Q \cap (P \cap S) = Q \cap S
  BY <1>1
<1>4. QED
  BY <1>2, <1>3 DEF P, Q

LEMMA LastingStep ==
  ASSUME Base, Tidy, Trees, ContentsKept, Writing, Lasting, Next
  PROVE  Lasting'
<1> SUFFICES ASSUME NEW k \in Clients, NEW c \in Clients, rcv'[k].pc \in {"writing", "saved"}
             PROVE  Shaped(Held(k, c)', Held(k, c)' \cap Sp(folder'), rcv'[k].ev) = Held(k, c)' \cap Sp(folder')
  BY DEF Lasting, LastingOf
<1>0. TypeOK /\ EventsOK
  BY DEF Base
<1>1. WithParents(Held(k, c)) /\ Held(k, c) \subseteq Paths /\ Held(k, c)' \subseteq Held(k, c)
  BY <1>0, HeldFacts, HeldNext
<1>2. CASE StartFile(k) \/ ReceivePath(k)
  <2> DEFINE e == Head(up[k]).ev
             P == Held(k, c)
  <2>1. rcv'[k].ev = e /\ P \cap Sp(folder') = Shaped(P, P \cap Sp(folder), e)
    BY <1>2, ReceiverTakes
  <2>2. Shaped(P, Shaped(P, P \cap Sp(folder), e), e) = Shaped(P, P \cap Sp(folder), e)
    BY <1>1, ShapedTwice
  <2> HIDE DEF e
  <2>3. Shaped(P, P \cap Sp(folder'), e) = P \cap Sp(folder')
    BY <2>1, <2>2
  <2>4. QED
    BY <2>1, <2>3, LastingFewer
<1>3. CASE FinishFile(k)
  <2>1. Sp(folder') = Sp(folder) /\ rcv[k].pc = "writing" /\ rcv'[k].ev = rcv[k].ev
    BY <1>3, FinishedFacts
  <2>2. Shaped(Held(k, c), Held(k, c) \cap Sp(folder'), rcv[k].ev) = Held(k, c) \cap Sp(folder')
    BY <2>1 DEF Lasting, LastingOf
  <2>3. QED
    BY <2>1, <2>2, LastingFewer
<1>4. ASSUME NEW q \in Paths, Return(k, q)
      PROVE  Shaped(Held(k, c)', Held(k, c)' \cap Sp(folder'), rcv'[k].ev) = Held(k, c)' \cap Sp(folder')
  <2>1. rcv'[k].ev.dst \notin Held(k, c)' /\ rcv'[k].ev.op # "DELETE"
    BY <1>4, ReturnedFacts
  <2>2. QED
    BY <2>1 DEF Shaped
<1>5. CASE Kept(k) /\ \A p \in Held(k, c)' : folder'[p] = folder[p]
  <2>1. rcv[k].pc \in {"writing", "saved"} /\ rcv'[k].ev = rcv[k].ev
    BY <1>5 DEF Kept
  <2>2. Shaped(Held(k, c), Held(k, c) \cap Sp(folder), rcv[k].ev) = Held(k, c) \cap Sp(folder)
    BY <2>1 DEF Lasting, LastingOf
  <2>3. Shaped(Held(k, c)', Held(k, c)' \cap Sp(folder), rcv[k].ev) = Held(k, c)' \cap Sp(folder)
    BY <2>2, LastingFewer
  <2>4. Held(k, c)' \cap Sp(folder) = Held(k, c)' \cap Sp(folder')
    BY <1>5 DEF Sp
  <2>5. QED
    BY <2>1, <2>3, <2>4
<1>6. ASSUME ~(StartFile(k) \/ ReceivePath(k)), ~FinishFile(k), \A q \in Paths : ~Return(k, q) PROVE Kept(k)
  <2>1. CASE StartCutFile(k)
    <3>1. Dead(TRUE).pc = "dead" /\ rcv'[k] = Dead(TRUE)
      BY <1>0, <2>1, OwnSteps DEF Dead
    <3>2. QED
      BY <3>1
  <2>2. CASE StartBroadcast(k)
    BY <1>0, <2>2, OwnSteps
  <2>3. ASSUME NEW j \in Clients, Enqueue(k, j) PROVE FALSE
    BY <1>0, <2>3, OwnSteps
  <2>4. CASE EndBroadcast(k)
    <3>1. rcv'[k] = Idle /\ Idle.pc = "idle"
      BY <1>0, <2>4, OwnSteps DEF Idle
    <3>2. QED
      BY <3>1
  <2>5. ASSUME NEW q \in Paths, Offer(k, q) PROVE FALSE
    BY <1>0, <2>5, OwnSteps
  <2>6. QED
    BY <1>0, <1>6, <2>1, <2>2, <2>3, <2>4, <2>5, WhoseStep DEF OwnStep
<1>7. QED
  BY <1>2, <1>3, <1>4, <1>5, <1>6, FolderHeld

\* The paths P of the folder f are those there will be at the copy t after the events es
\* and, when it is coming, the event e.
Under(P, t, es, h, e, f) ==
    (IF h THEN Shaped(P, Through(P, P \cap Sp(t), es), e) ELSE Through(P, P \cap Sp(t), es)) = P \cap Sp(f)

DnShapeOf(k, c) == Under(Held(k, c), copy[c], Pipe(c), Heading(k, c), rcv[k].ev, folder)
DnShape == \A c \in Clients : mode[c] = "live" => \A k \in Clients \ {c} : DnShapeOf(k, c)

LEMMA UnderFewer ==
  ASSUME NEW P, NEW Q, WithParents(P), WithParents(Q), Q \subseteq P, NEW t, NEW es, Len(es) \in Nat,
         NEW h, NEW e, NEW f, Under(P, t, es, h, e, f)
  PROVE  Under(Q, t, es, h, e, f)
<1> DEFINE S == P \cap Sp(t)
           R == Through(P, S, es)
<1>1. S \subseteq P /\ Q \cap S = Q \cap Sp(t)
  OBVIOUS
<1> HIDE DEF S
<1>2. R \subseteq P /\ Through(Q, Q \cap S, es) = Q \cap R
  BY <1>1, ThroughWithin, ThroughFewer
<1>3. (IF h THEN Shaped(P, R, e) ELSE R) = P \cap Sp(f)
  BY DEF Under, S
<1> HIDE DEF R
<1>4. Shaped(Q, Q \cap R, e) = Q \cap Shaped(P, R, e)
  BY <1>2, ShapedFewer
<1>5. QED
  BY <1>1, <1>2, <1>3, <1>4 DEF Under

LEMMA UnderSame ==
  ASSUME NEW P, NEW t, NEW u, NEW es, NEW h, NEW e, NEW f, NEW g, Under(P, t, es, h, e, f),
         P \cap Sp(t) = P \cap Sp(u), P \cap Sp(f) = P \cap Sp(g)
  PROVE  Under(P, u, es, h, e, g)
BY DEF Under

\* An event about to come, and its coming.
LEMMA UnderAppend ==
  ASSUME NEW P, NEW t, NEW es \in Seq(Event), NEW d \in Event
  PROVE  /\ \A e, f : Under(P, t, es, TRUE, d, f) => Under(P, t, Append(es, d), FALSE, e, f)
         /\ (\A S : S \subseteq P => Shaped(P, S, d) = S) =>
               \A h, e, f : Under(P, t, es, h, e, f) => Under(P, t, Append(es, d), h, e, f)
<1> DEFINE R == Through(P, P \cap Sp(t), es)
<1>1. Through(P, P \cap Sp(t), Append(es, d)) = Shaped(P, R, d)
  BY ThroughAppend
<1>2. R \subseteq P
  BY ThroughWithin
<1>3. QED
  BY <1>1, <1>2 DEF Under

LEMMA UnderReceived ==
  ASSUME NEW P, WithParents(P), NEW t, Sound(t), NEW es \in Seq(Event), es # <<>>, NEW m, Good(m), m.ev = Head(es),
         NEW h, NEW e, NEW f, Under(P, t, es, h, e, f)
  PROVE  Under(P, Applied(t, m), Tail(es), h, e, f)
<1>1. P \cap Sp(Applied(t, m)) = Shaped(P, P \cap Sp(t), Head(es))
  BY AppliedShape
<1>2. Through(P, P \cap Sp(t), es) = Through(P, P \cap Sp(Applied(t, m)), Tail(es))
  BY <1>1, ThroughHead
<1>3. QED
  BY <1>2 DEF Under

-----------------------------------------------------------------------------
(* What can happen to it *)

\* Others' paths in the folder of a user change by what she receives.
LEMMA CopyHeld ==
  ASSUME Base, Tidy, Trees, ContentsKept, Next, NEW c \in Clients, mode[c] = "live", NEW k \in Clients \ {c}, ~ClientReceive(c)
  PROVE  \A p \in Held(k, c) : copy'[c][p] = copy[c][p]
<1>0. TypeOK /\ copy \in [Clients -> Tree]
  BY DEF Base, TypeOK
<1>1. CASE Edits
  <2>1. PICK j \in Clients, op \in plan.ops, q1 \in Paths, q2 \in Paths : Edit(j, [op |-> op, src |-> q1, dst |-> q2])
    BY <1>1 DEF Edits
  <2>2. PICK e \in Own(j) : EditedAs(j, e)
    BY <2>1, EditSound
  <2>3. CASE j = c
    <3> DEFINE m == [ev |-> e, val |-> edits']
    <3>1. Good(m) /\ m.ev = e /\ copy'[c] = Applied(copy[c], m)
      BY <1>0, <2>2, <2>3 DEF EditedAs
    <3> HIDE DEF m
    <3>2. \A p \in Held(k, c) : p \in Paths /\ ~Touches(m.ev, p)
      BY <1>0, <2>2, <2>3, <3>1, Members, Foreign, HeldFacts
    <3>3. QED
      BY <3>1, <3>2, AppliedSound DEF Trees
  <2>4. CASE j # c
    BY <1>0, <2>2, <2>4 DEF EditedAs
  <2>5. QED
    BY <2>3, <2>4
<1>2. ASSUME NEW j \in Clients, ClientReceive(j) PROVE copy'[c] = copy[c]
  BY <1>0, <1>2 DEF ClientReceive
<1>3. ASSUME NEW j \in Clients, NEW q \in Paths, Offer(j, q) PROVE copy'[c] = copy[c]
  BY <1>0, <1>3 DEF Offer
<1>4. QED
  BY <1>1, <1>2, <1>3, WhoChanges DEF Changes

LEMMA HeadingSteps ==
  ASSUME Base, Next, NEW c \in Clients, mode[c] = "live", NEW k \in Clients \ {c}, ~Enqueue(k, c)
  PROVE  \/ StartFile(k) \/ ReceivePath(k) \/ FinishFile(k) \/ \E q \in Paths : Return(k, q)
         \/ (Heading(k, c)' <=> Heading(k, c)) /\ (Heading(k, c) => rcv'[k].ev = rcv[k].ev)
<1>0. TypeOK /\ EventsOK
  BY DEF Base
<1>1. CASE StartCutFile(k)
  <2>1. Dead(TRUE).pc = "dead" /\ rcv'[k] = Dead(TRUE) /\ rcv[k].pc = "idle"
    BY <1>0, <1>1, OwnSteps DEF Dead
  <2>2. QED
    BY <2>1 DEF Heading
<1>2. CASE StartBroadcast(k)
  <2>1. c \in Targets(k)
    BY DEF Targets, Registered
  <2>2. QED
    BY <1>0, <1>2, <2>1, OwnSteps DEF Heading
<1>3. ASSUME NEW j \in Clients, Enqueue(k, j)
      PROVE  (Heading(k, c)' <=> Heading(k, c)) /\ (Heading(k, c) => rcv'[k].ev = rcv[k].ev)
  <2>1. j # c
    BY <1>3
  <2>2. QED
    BY <1>0, <1>3, <2>1, OwnSteps DEF Heading
<1>4. CASE EndBroadcast(k)
  <2>1. rcv[k].todo = {} /\ rcv[k].pc = "bcast"
    BY <1>4 DEF EndBroadcast
  <2>2. rcv'[k] = Idle /\ Idle.pc = "idle"
    BY <1>0, <1>4, OwnSteps DEF Idle
  <2>3. QED
    BY <2>1, <2>2 DEF Heading
<1>5. ASSUME NEW q \in Paths, Offer(k, q)
      PROVE  (Heading(k, c)' <=> Heading(k, c)) /\ (Heading(k, c) => rcv'[k].ev = rcv[k].ev)
  BY <1>0, <1>5, OwnSteps DEF Heading
<1>6. CASE Kept(k)
  BY <1>6 DEF Kept, Heading
<1>7. QED
  BY <1>0, <1>1, <1>2, <1>3, <1>4, <1>5, <1>6, WhoseStep DEF OwnStep

\* What arrives there is soon coming here.
LEMMA ShapeTaken ==
  ASSUME Base, Tidy, Trees, ContentsKept, Next, NEW c \in Clients, NEW k \in Clients \ {c}, StartFile(k) \/ ReceivePath(k),
         NEW P, P = Held(k, c), NEW t, NEW es, Under(P, t, es, Heading(k, c), rcv[k].ev, folder)
  PROVE  Under(P, t, es, Heading(k, c)', rcv'[k].ev, folder')
<1>0. TypeOK /\ EventsOK
  BY DEF Base
<1>1. rcv[k].pc = "idle" /\ ~Heading(k, c)
  BY <1>0, OwnSteps DEF Heading
<1>2. Through(P, P \cap Sp(t), es) = P \cap Sp(folder)
  BY <1>1 DEF Under
<1>3. CASE rcv'[k].pc = "dead"
  <2>1. ASSUME StartFile(k) PROVE folder' = folder
    <3>1. Head(up[k]).ev \in Event /\ Open(k, Head(up[k])) /\ rcv \in [Clients -> Receiver]
      BY <1>0, <2>1, Heads, Members DEF StartFile, TypeOK
    <3>2. Head(up[k]) \in Message /\ Well(Head(up[k]).ev) /\ Head(up[k]).ev.op = "NEW_FILE" /\ rcv[k].pc # "writing"
      BY <1>0, <1>1, <2>1, Heads, Members DEF StartFile
    <3>3. Fails(folder, Head(up[k]).ev)
      BY <1>0, <1>3, <3>1, <3>2, OpenFacts
    <3>4. QED
      BY <3>1, <3>3 DEF Open
  <2>2. ASSUME ReceivePath(k) PROVE folder' = folder
    BY <1>3, <2>2 DEF ReceivePath
  <2>3. QED
    BY <1>2, <1>3, <2>1, <2>2 DEF Under, Heading
<1>4. CASE rcv'[k].pc # "dead"
  <2>1. /\ rcv'[k].ev = Head(up[k]).ev /\ rcv'[k].pc \in {"writing", "saved"}
        /\ P \cap Sp(folder') = Shaped(P, P \cap Sp(folder), Head(up[k]).ev)
    BY <1>4, ReceiverTakes
  <2>2. QED
    BY <1>2, <2>1 DEF Under, Heading
<1>5. QED
  BY <1>3, <1>4

LEMMA ShapeFinished ==
  ASSUME Base, Trees, Writing, Next, NEW c \in Clients, NEW k \in Clients \ {c}, FinishFile(k),
         NEW P, P = Held(k, c), NEW t, NEW es, Under(P, t, es, Heading(k, c), rcv[k].ev, folder)
  PROVE  Under(P, t, es, Heading(k, c)', rcv'[k].ev, folder')
<1> DEFINE R == Through(P, P \cap Sp(t), es)
           e == rcv[k].ev
<1>1. /\ Sp(folder') = Sp(folder) /\ rcv[k].pc = "writing" /\ e.op = "NEW_FILE"
      /\ \/ rcv'[k].pc = "saved" /\ rcv'[k].ev = e
         \/ rcv'[k].pc = "dead" /\ e.dst \notin P
  BY FinishedFacts
<1>2. Shaped(P, R, e) = P \cap Sp(folder')
  BY <1>1 DEF Under, Heading
<1> HIDE DEF R, e
<1>3. ASSUME e.dst \notin P PROVE Shaped(P, R, e) = R
  BY <1>1, <1>3 DEF Shaped
<1>4. QED
  BY <1>1, <1>2, <1>3 DEF Under, Heading, R, e

LEMMA ShapeReturned ==
  ASSUME Base, Trees, ContentsKept, Next, NEW c \in Clients, NEW k \in Clients \ {c}, NEW q \in Paths, Return(k, q),
         NEW P, P = Held(k, c)', NEW t, NEW es, NEW e, Under(P, t, es, Heading(k, c), e, folder'),
         Heading(k, c) => e = rcv[k].ev
  PROVE  Under(P, t, es, Heading(k, c)', rcv'[k].ev, folder')
<1> DEFINE R == Through(P, P \cap Sp(t), es)
<1>1. /\ rcv[k].pc = "idle"
      /\ \/ rcv'[k].pc \in {"idle", "dead"}
         \/ /\ rcv'[k].pc \in {"writing", "saved"} /\ rcv'[k].ev.dst = q /\ rcv'[k].ev.op \in {"NEW_FILE", "NEW_DIRECTORY"}
            /\ q \notin P
  BY ReturnedFacts
<1>2. R = P \cap Sp(folder')
  BY <1>1 DEF Under, Heading
<1> HIDE DEF R
<1>3. ASSUME rcv'[k].ev.dst \notin P, rcv'[k].ev.op # "DELETE" PROVE Shaped(P, R, rcv'[k].ev) = R
  BY <1>3 DEF Shaped
<1>4. QED
  BY <1>1, <1>2, <1>3 DEF Under, Heading, R

\* A client that comes into the list is in step.
LEMMA DnRegister ==
  ASSUME Base, Tidy, Trees, Writing, Walked, Lasting, ContentsKept, Next, NEW c \in Clients, Register(c),
         NEW k \in Clients \ {c}
  PROVE  DnShapeOf(k, c)'
<1>0. TypeOK /\ EventsOK
  BY DEF Base
<1>1. /\ folder' = folder /\ copy' = copy /\ down' = down /\ snd' = snd /\ queue' = queue /\ rcv' = rcv /\ missed' = missed
      /\ mode[c] = "offer" /\ rcv[c].pc = "idle"
  BY DEF Register
<1>2. down[c] = <<>> /\ queue[c] = <<>> /\ snd[c] = NoSend /\ down[c] \in Seq(Message)
  BY <1>1 DEF Base, Unlisted, Before, TypeOK
<1>3. Pipe(c)' = <<>>
  <2>1. Evs(<<>>) = <<>>
    BY <1>2, EvsFacts
  <2>2. Pipe(c)' = (<<>> \o <<>>) \o <<>>
    BY <1>1, <1>2, <2>1 DEF Pipe, Sending, NoSend
  <2>3. QED
    BY <2>2
<1> DEFINE P == Held(k, c)
<1>4. WithParents(P) /\ P \subseteq Paths
  BY <1>0, HeldFacts
<1>5. P \cap Sp(copy[c]) = P \cap Sp(folder)
  <2>1. \A p \in Paths \ Forgotten(c) : copy[c][p] = folder[p]
    BY <1>1 DEF Walked
  <2>2. QED
    BY <2>1 DEF P, Held, Sp
<1>6. Heading(k, c) => Shaped(P, P \cap Sp(folder), rcv[k].ev) = P \cap Sp(folder)
  <2>1. rcv[k].pc = "bcast" => c \notin rcv[k].todo
    BY <1>0, <1>1 DEF EventsOK, Before
  <2>2. QED
    BY <2>1 DEF Heading, Lasting, LastingOf
<1>7. Through(P, P \cap Sp(copy[c]), <<>>) = P \cap Sp(folder)
  BY <1>5, ThroughNone
<1> HIDE DEF P
<1>8. Under(P, copy[c], <<>>, Heading(k, c), rcv[k].ev, folder)
  BY <1>6, <1>7 DEF Under
<1>9. Held(k, c)' = P
  <2>1. plan' = plan
    BY DEF Register
  <2>2. QED
    BY <1>1, <2>1 DEF Held, Mine, Forgotten, P
<1>10. (Heading(k, c)' <=> Heading(k, c))
  BY <1>1 DEF Heading
<1>11. QED
  BY <1>1, <1>3, <1>8, <1>9, <1>10 DEF DnShapeOf, Under

LEMMA DnShapeStep ==
  ASSUME Base, Tidy, Trees, Writing, Walked, Lasting, ContentsKept, DnShape, Next
  PROVE  DnShape'
<1>0. TypeOK /\ EventsOK /\ copy \in [Clients -> Tree] /\ mode \in [Clients -> Modes]
  BY DEF Base, TypeOK
<1> SUFFICES ASSUME NEW c \in Clients, mode'[c] = "live", NEW k \in Clients \ {c} PROVE DnShapeOf(k, c)'
  BY DEF DnShape
<1>1. SUFFICES ASSUME mode[c] = "live" PROVE DnShapeOf(k, c)'
  BY <1>0, ModeSteps, DnRegister
<1> DEFINE P == Held(k, c)
           Q == Held(k, c)'
<1>2. WithParents(P) /\ P \subseteq Paths /\ WithParents(Q) /\ Q \subseteq P
  BY <1>0, HeldFacts, HeldNext
<1>3. Under(P, copy[c], Pipe(c), Heading(k, c), rcv[k].ev, folder)
  BY <1>1 DEF DnShape, DnShapeOf
<1>4. Pipe(c) \in Seq(Event) /\ Len(Pipe(c)) \in Nat /\ Len(Pipe(c)') \in Nat
  <2>1. Pipe(c) \in Seq(Event)
    BY PipeType
  <2>2. CASE ClientReceive(c)
    BY <2>1, <2>2, PipeReceive
  <2>3. ASSUME NEW j \in Clients, Enqueue(j, c) PROVE Len(Pipe(c)') \in Nat
    BY <1>1, <2>1, <2>3, PipeEnqueue
  <2>4. QED
    BY <2>1, <2>2, <2>3, PipeKept
<1> HIDE DEF P, Q
<1>5. SUFFICES Under(P, copy'[c], Pipe(c)', Heading(k, c)', rcv'[k].ev, folder') \/ DnShapeOf(k, c)'
  <2>1. ASSUME Under(P, copy'[c], Pipe(c)', Heading(k, c)', rcv'[k].ev, folder') PROVE DnShapeOf(k, c)'
    <3>1. Under(Q, copy'[c], Pipe(c)', Heading(k, c)', rcv'[k].ev, folder')
      BY <1>2, <1>4, <2>1, UnderFewer
    <3>2. QED
      BY <3>1 DEF DnShapeOf, Q
  <2>2. QED
    BY <2>1
<1>6. CASE ClientReceive(c)
  <2> DEFINE m == Head(down[c])
  <2>1. /\ folder' = folder /\ rcv' = rcv /\ down[c] # <<>> /\ copy'[c] = Applied(copy[c], m)
    BY <1>0, <1>6 DEF ClientReceive, Applied
  <2>2. Pipe(c) # <<>> /\ Head(Pipe(c)) = m.ev /\ Pipe(c)' = Tail(Pipe(c))
    BY <1>6, PipeReceive
  <2>3. Good(m)
    BY <1>0, <2>1, Heads, NoMoves
  <2> HIDE DEF m
  <2>4. Under(P, Applied(copy[c], m), Tail(Pipe(c)), Heading(k, c), rcv[k].ev, folder)
    BY <1>2, <1>3, <1>4, <2>2, <2>3, UnderReceived DEF Trees
  <2>5. (Heading(k, c)' <=> Heading(k, c))
    BY <2>1 DEF Heading
  <2>6. QED
    BY <2>1, <2>2, <2>4, <2>5 DEF Under
<1>7. ASSUME NEW j \in Clients, Enqueue(j, c) PROVE Under(P, copy'[c], Pipe(c)', Heading(k, c)', rcv'[k].ev, folder')
  <2> DEFINE d == rcv[j].ev
  <2>1. folder' = folder /\ copy' = copy /\ Pipe(c)' = Append(Pipe(c), d) /\ d \in Event
    BY <1>1, <1>7, PipeEnqueue DEF Enqueue
  <2>2. CASE j = k
    <3>1. Heading(k, c) /\ ~Heading(k, c)'
      <4>1. rcv[k].pc = "bcast" /\ c \in rcv[k].todo
        BY <1>7, <2>2 DEF Enqueue
      <4>2. rcv'[k].pc = "bcast" /\ rcv'[k].todo = rcv[k].todo \ {c}
        BY <1>0, <1>7, <2>2, OwnSteps
      <4>3. QED
        BY <4>1, <4>2 DEF Heading
    <3>2. Under(P, copy[c], Pipe(c), TRUE, d, folder)
      BY <1>3, <2>2, <3>1 DEF Under
    <3> HIDE DEF d
    <3>3. \A e, f : Under(P, copy[c], Pipe(c), TRUE, d, f) => Under(P, copy[c], Append(Pipe(c), d), FALSE, e, f)
      BY <1>4, <2>1, UnderAppend
    <3>4. Under(P, copy[c], Append(Pipe(c), d), FALSE, rcv'[k].ev, folder)
      BY <3>2, <3>3
    <3>5. QED
      BY <2>1, <3>1, <3>4 DEF Under
  <2>3. CASE j # k
    <3>1. d \in By(j)
      BY <1>0, <1>7 DEF EventsOK, Handling, Enqueue
    <3>2. \A S : S \subseteq P => Shaped(P, S, d) = S
      BY <1>0, <2>3, <3>1, ForeignShape DEF P
    <3>3. (Heading(k, c)' <=> Heading(k, c)) /\ (Heading(k, c) => rcv'[k].ev = rcv[k].ev)
      <4>1. Kept(k)
        BY <1>0, <1>7, <2>3, OthersKept DEF OwnStep
      <4>2. QED
        BY <4>1 DEF Kept, Heading
    <3> HIDE DEF d
    <3>4. \A h, e, f : Under(P, copy[c], Pipe(c), h, e, f) => Under(P, copy[c], Append(Pipe(c), d), h, e, f)
      BY <1>4, <2>1, <3>2, UnderAppend
    <3>5. Under(P, copy[c], Append(Pipe(c), d), Heading(k, c), rcv[k].ev, folder)
      BY <1>3, <3>4
    <3>6. QED
      BY <2>1, <3>3, <3>5 DEF Under
  <2>4. QED
    BY <2>2, <2>3
<1>8. ASSUME ~ClientReceive(c), \A j \in Clients : ~Enqueue(j, c)
      PROVE  Under(P, copy'[c], Pipe(c)', Heading(k, c)', rcv'[k].ev, folder') \/ DnShapeOf(k, c)'
  <2>1. Pipe(c)' = Pipe(c)
    BY <1>8, PipeKept
  <2>2. \A p \in P : copy'[c][p] = copy[c][p]
    BY <1>1, <1>8, CopyHeld DEF P
  <2>3. P \cap Sp(copy'[c]) = P \cap Sp(copy[c])
    BY <2>2 DEF Sp
  <2>4. Under(P, copy'[c], Pipe(c)', Heading(k, c), rcv[k].ev, folder)
    BY <1>3, <2>1, <2>3 DEF Under
  <2>5. CASE StartFile(k) \/ ReceivePath(k)
    BY <2>4, <2>5, ShapeTaken DEF P
  <2>6. CASE FinishFile(k)
    BY <2>4, <2>6, ShapeFinished DEF P
  <2>7. Under(Q, copy'[c], Pipe(c)', Heading(k, c), rcv[k].ev, folder)
    BY <1>2, <1>4, <2>4, UnderFewer
  <2>8. ASSUME \A p \in Q : folder'[p] = folder[p]
        PROVE  Under(Q, copy'[c], Pipe(c)', Heading(k, c), rcv[k].ev, folder')
    <3>1. Q \cap Sp(folder) = Q \cap Sp(folder')
      BY <2>8 DEF Sp
    <3>2. QED
      BY <2>7, <3>1 DEF Under
  <2>9. ASSUME NEW q \in Paths, Return(k, q) PROVE DnShapeOf(k, c)'
    <3>1. \A p \in Q : folder'[p] = folder[p]
      BY <2>9, FolderReturned DEF Q
    <3>2. Under(Q, copy'[c], Pipe(c)', Heading(k, c)', rcv'[k].ev, folder')
      BY <2>8, <2>9, <3>1, ShapeReturned DEF Q
    <3>3. QED
      BY <3>2 DEF DnShapeOf, Q
  <2>10. ASSUME (Heading(k, c)' <=> Heading(k, c)) /\ (Heading(k, c) => rcv'[k].ev = rcv[k].ev),
                \A p \in Q : folder'[p] = folder[p]
         PROVE  DnShapeOf(k, c)'
    <3>1. Under(Q, copy'[c], Pipe(c)', Heading(k, c)', rcv'[k].ev, folder')
      BY <2>8, <2>10 DEF Under
    <3>2. QED
      BY <3>1 DEF DnShapeOf, Q
  <2>11. \/ \A p \in Q : folder'[p] = folder[p]
         \/ StartFile(k) \/ ReceivePath(k) \/ FinishFile(k)
    BY FolderHeld DEF Q
  <2>12. \/ StartFile(k) \/ ReceivePath(k) \/ FinishFile(k) \/ \E q \in Paths : Return(k, q)
         \/ (Heading(k, c)' <=> Heading(k, c)) /\ (Heading(k, c) => rcv'[k].ev = rcv[k].ev)
    BY <1>1, <1>8, HeadingSteps
  <2>13. QED
    BY <2>5, <2>6, <2>9, <2>10, <2>11, <2>12
<1>9. QED
  BY <1>6, <1>7, <1>8

-----------------------------------------------------------------------------
(* Contents on their way to a client *)

\* The last of the messages that touches file p brings content v, removes p or copies.
Brings(ms, p, v) ==
    \A i \in 1 .. Len(ms) :
        Touches(ms[i].ev, p) /\ (\A j \in i + 1 .. Len(ms) : ~Touches(ms[j].ev, p)) =>
            \/ ms[i].ev.op \in {"DELETE", "COPY"}
            \/ ms[i].ev.op = "NEW_FILE" /\ ms[i].val = v

\* k's receiver is not about p.
Calm(k, c, p) == Heading(k, c) => ~Touches(rcv[k].ev, p)

\* A client with folder t, to which the messages d have been sent and the file of s is
\* being sent, comes to have content v at file p.
Coming(p, v, s, d, t) ==
    IF s.busy /\ s.ev.dst = p THEN s.val = v
    ELSE Brings(d, p, v) /\ (Spares(d, p) => t[p] \in {Absent, v})
DnValueOf(k, c, p) == folder[p] # Absent /\ Calm(k, c, p) /\ Quiet(queue[c], p) =>
                          Coming(p, folder[p], snd[c], down[c], copy[c])
DnValue == \A c \in Clients : mode[c] = "live" =>
               \A k \in Clients \ {c} : \A p \in Held(k, c) \cap Files : DnValueOf(k, c, p)

LEMMA BringsAppend ==
  ASSUME NEW ms \in Seq(Message), NEW m \in Message, NEW p, NEW v
  PROVE  /\ ~Touches(m.ev, p) => /\ Spares(Append(ms, m), p) => Spares(ms, p)
                                 /\ Brings(ms, p, v) => Brings(Append(ms, m), p, v)
         /\ Touches(m.ev, p) => /\ ~Spares(Append(ms, m), p)
                                /\ \/ m.ev.op \in {"DELETE", "COPY"}
                                   \/ m.ev.op = "NEW_FILE" /\ m.val = v
                                   => Brings(Append(ms, m), p, v)
<1> DEFINE ns == Append(ms, m)
<1>1. /\ Len(ms) \in Nat /\ Len(ns) = Len(ms) + 1 /\ ns[Len(ms) + 1] = m
      /\ \A i \in 1 .. Len(ms) : ns[i] = ms[i]
  OBVIOUS
<1> HIDE DEF ns
<1>2. ASSUME ~Touches(m.ev, p), Spares(ns, p) PROVE Spares(ms, p)
  BY <1>1, <1>2 DEF Spares
<1>3. ASSUME ~Touches(m.ev, p), Brings(ms, p, v) PROVE Brings(ns, p, v)
  <2> SUFFICES ASSUME NEW i \in 1 .. Len(ns), Touches(ns[i].ev, p),
                      \A j \in i + 1 .. Len(ns) : ~Touches(ns[j].ev, p)
               PROVE  ns[i].ev.op \in {"DELETE", "COPY"} \/ (ns[i].ev.op = "NEW_FILE" /\ ns[i].val = v)
    BY DEF Brings
  <2>1. i \in 1 .. Len(ms)
    BY <1>1, <1>3
  <2>2. \A j \in i + 1 .. Len(ms) : ~Touches(ms[j].ev, p)
    BY <1>1, <2>1
  <2>3. QED
    BY <1>1, <1>3, <2>1, <2>2 DEF Brings
<1>4. ASSUME Touches(m.ev, p) PROVE ~Spares(ns, p)
  BY <1>1, <1>4 DEF Spares
<1>5. ASSUME Touches(m.ev, p), m.ev.op \in {"DELETE", "COPY"} \/ (m.ev.op = "NEW_FILE" /\ m.val = v)
      PROVE  Brings(ns, p, v)
  <2> SUFFICES ASSUME NEW i \in 1 .. Len(ns), Touches(ns[i].ev, p),
                      \A j \in i + 1 .. Len(ns) : ~Touches(ns[j].ev, p)
               PROVE  ns[i].ev.op \in {"DELETE", "COPY"} \/ (ns[i].ev.op = "NEW_FILE" /\ ns[i].val = v)
    BY DEF Brings
  <2>1. i = Len(ns)
    BY <1>1, <1>5
  <2>2. QED
    BY <1>1, <1>5, <2>1
<1>6. QED
  BY <1>2, <1>3, <1>4, <1>5 DEF ns

LEMMA BringsTail ==
  ASSUME NEW ms \in Seq(Message), ms # <<>>, NEW p, NEW v, Brings(ms, p, v)
  PROVE  /\ Brings(Tail(ms), p, v)
         /\ Spares(Tail(ms), p) /\ ~Touches(Head(ms).ev, p) => Spares(ms, p)
         /\ Spares(Tail(ms), p) /\ Touches(Head(ms).ev, p) =>
               \/ Head(ms).ev.op \in {"DELETE", "COPY"}
               \/ Head(ms).ev.op = "NEW_FILE" /\ Head(ms).val = v
<1> DEFINE ns == Tail(ms)
<1>1. /\ Len(ms) \in Nat \ {0} /\ Len(ns) = Len(ms) - 1 /\ Head(ms) = ms[1]
      /\ \A i \in 1 .. Len(ms) - 1 : ns[i] = ms[i + 1]
  OBVIOUS
<1> HIDE DEF ns
<1>2. Brings(ns, p, v)
  <2> SUFFICES ASSUME NEW i \in 1 .. Len(ns), Touches(ns[i].ev, p),
                      \A j \in i + 1 .. Len(ns) : ~Touches(ns[j].ev, p)
               PROVE  ns[i].ev.op \in {"DELETE", "COPY"} \/ (ns[i].ev.op = "NEW_FILE" /\ ns[i].val = v)
    BY DEF Brings
  <2>1. i + 1 \in 1 .. Len(ms) /\ ns[i] = ms[i + 1]
    BY <1>1
  <2>2. \A j \in (i + 1) + 1 .. Len(ms) : ~Touches(ms[j].ev, p)
    <3> SUFFICES ASSUME NEW j \in (i + 1) + 1 .. Len(ms) PROVE ~Touches(ms[j].ev, p)
      OBVIOUS
    <3>1. j - 1 \in i + 1 .. Len(ns) /\ ns[j - 1] = ms[j]
      BY <1>1, <2>1
    <3>2. QED
      BY <3>1
  <2>3. QED
    BY <2>1, <2>2 DEF Brings
<1>3. ASSUME Spares(ns, p), ~Touches(ms[1].ev, p) PROVE Spares(ms, p)
  <2> SUFFICES ASSUME NEW j \in 1 .. Len(ms) PROVE ~Touches(ms[j].ev, p)
    BY DEF Spares
  <2>1. CASE j = 1
    BY <1>3, <2>1
  <2>2. CASE j # 1
    <3>1. j - 1 \in 1 .. Len(ns) /\ ns[j - 1] = ms[j]
      BY <1>1, <2>2
    <3>2. QED
      BY <1>3, <3>1 DEF Spares
  <2>3. QED
    BY <2>1, <2>2
<1>4. ASSUME Spares(ns, p), Touches(ms[1].ev, p)
      PROVE  ms[1].ev.op \in {"DELETE", "COPY"} \/ (ms[1].ev.op = "NEW_FILE" /\ ms[1].val = v)
  <2>1. \A j \in 1 + 1 .. Len(ms) : ~Touches(ms[j].ev, p)
    <3> SUFFICES ASSUME NEW j \in 1 + 1 .. Len(ms) PROVE ~Touches(ms[j].ev, p)
      OBVIOUS
    <3>1. j - 1 \in 1 .. Len(ns) /\ ns[j - 1] = ms[j]
      BY <1>1
    <3>2. QED
      BY <1>4, <3>1 DEF Spares
  <2>2. QED
    BY <1>1, <1>4, <2>1 DEF Brings
<1>5. QED
  BY <1>1, <1>2, <1>3, <1>4 DEF ns

\* While k's receiver is not about p, p does not change at the server.
LEMMA CalmBefore ==
  ASSUME Base, Tidy, Trees, ContentsKept, Writing, Next, NEW c \in Clients, mode[c] = "live", NEW k \in Clients \ {c},
         ~Enqueue(k, c), NEW p \in Held(k, c)', p \in Files, Calm(k, c, p)'
  PROVE  Calm(k, c, p) /\ folder'[p] = folder[p]
<1>0. TypeOK /\ EventsOK /\ p \in Held(k, c) /\ p \in Paths /\ folder \in Tree
  BY HeldNext, ConstantFacts DEF Base, TypeOK
<1>1. CASE StartFile(k) \/ ReceivePath(k)
  <2>1. rcv[k].pc = "idle" /\ Calm(k, c, p)
    BY <1>0, <1>1, OwnSteps DEF Heading, Calm
  <2>2. PICK m : m.ev = Head(up[k]).ev /\ Arrives(m)
    BY <1>1, FolderSteps
  <2>3. CASE rcv'[k].pc = "dead"
    <3>1. folder' = folder
      <4>1. ASSUME StartFile(k) PROVE folder' = folder
        <5>1. Head(up[k]) \in Message /\ Well(Head(up[k]).ev) /\ Head(up[k]).ev.op = "NEW_FILE" /\ Open(k, Head(up[k]))
          BY <1>0, <4>1, Heads, Members DEF StartFile
        <5>2. Fails(folder, Head(up[k]).ev)
          BY <1>0, <2>1, <2>3, <5>1, OpenFacts
        <5>3. QED
          BY <5>1, <5>2 DEF Open
      <4>2. ASSUME ReceivePath(k) PROVE folder' = folder
        BY <1>0, <2>3, <4>2 DEF ReceivePath, TypeOK
      <4>3. QED
        BY <1>1, <4>1, <4>2
    <3>2. QED
      BY <2>1, <3>1
  <2>4. CASE rcv'[k].pc # "dead"
    <3>1. rcv'[k].ev = m.ev /\ Heading(k, c)'
      BY <1>1, <2>2, <2>4, ReceiverTakes DEF Heading
    <3>2. ~Touches(m.ev, p)
      BY <3>1 DEF Calm
    <3>3. QED
      BY <1>0, <2>1, <2>2, <3>2, AppliedSound DEF Arrives, Trees
  <2>5. QED
    BY <2>3, <2>4
<1>2. CASE FinishFile(k)
  <2>1. /\ rcv[k].pc = "writing" /\ rcv[k].ev.op = "NEW_FILE"
        /\ \/ rcv'[k].pc = "saved" /\ rcv'[k].ev = rcv[k].ev
           \/ rcv'[k].pc = "dead" /\ rcv[k].ev.dst \notin Held(k, c)
    BY <1>2, FinishedFacts
  <2>2. rcv[k].ev.dst # p
    BY <1>0, <2>1 DEF Calm, Heading, Touches
  <2>3. Calm(k, c, p)
    BY <2>1, <2>2 DEF Calm, Touches
  <2>4. CASE folder' # folder
    <3>1. PICK w \in Content \ {Absent} : Leaves(k, w)
      BY <1>2, <2>4, FinishSteps
    <3>2. rcv[k].ino \in {rcv[k].ev.dst, Absent}
      BY <2>1 DEF Writing
    <3>3. rcv[k].ino # p
      BY <1>0, <2>2, <3>2, ReplicationAssumption
    <3>4. QED
      BY <1>0, <2>3, <3>1, <3>3 DEF Leaves, Tree
  <2>5. QED
    BY <2>3, <2>4
<1>3. ASSUME NEW q \in Paths, Return(k, q) PROVE Calm(k, c, p) /\ folder'[p] = folder[p]
  <2>1. rcv[k].pc = "idle"
    BY <1>3, ReturnedFacts
  <2>2. folder'[p] = folder[p]
    BY <1>3, FolderReturned
  <2>3. QED
    BY <2>1, <2>2 DEF Calm, Heading
<1>4. CASE /\ (Heading(k, c)' <=> Heading(k, c)) /\ (Heading(k, c) => rcv'[k].ev = rcv[k].ev)
           /\ \A q \in Held(k, c)' : folder'[q] = folder[q]
  BY <1>4 DEF Calm
<1>5. QED
  BY <1>1, <1>2, <1>3, <1>4, HeadingSteps, FolderHeld

LEMMA QuietAppend ==
  ASSUME NEW es \in Seq(Event), NEW e \in Event, NEW p, Quiet(Append(es, e), p)
  PROVE  Quiet(es, p) /\ ~Touches(e, p)
<1> DEFINE fs == Append(es, e)
<1>1. /\ Len(es) \in Nat /\ Len(fs) = Len(es) + 1 /\ fs[Len(es) + 1] = e
      /\ \A i \in 1 .. Len(es) : fs[i] = es[i]
  OBVIOUS
<1>2. \A i \in 1 .. Len(fs) : ~Touches(fs[i], p)
  BY DEF Quiet
<1> HIDE DEF fs
<1>3. QED
  BY <1>1, <1>2 DEF Quiet

LEMMA QuietMore ==
  ASSUME NEW es \in Seq(Event), es # <<>>, NEW p, Quiet(Tail(es), p), ~Touches(Head(es), p)
  PROVE  Quiet(es, p)
<1> DEFINE fs == Tail(es)
<1>1. /\ Len(es) \in Nat /\ Len(fs) = Len(es) - 1 /\ Head(es) = es[1]
      /\ \A i \in 1 .. Len(es) - 1 : fs[i] = es[i + 1]
  OBVIOUS
<1>2. \A i \in 1 .. Len(fs) : ~Touches(fs[i], p)
  BY DEF Quiet
<1> HIDE DEF fs
<1>3. SUFFICES ASSUME NEW i \in 1 .. Len(es), i # 1 PROVE ~Touches(es[i], p)
  BY <1>1 DEF Quiet
<1>4. i - 1 \in 1 .. Len(fs) /\ fs[i - 1] = es[i]
  BY <1>1, <1>3
<1>5. QED
  BY <1>2, <1>4

\* What comes with the next message.
LEMMA ComingReceived ==
  ASSUME NEW p \in Files, NEW v, NEW s, NEW d \in Seq(Message), d # <<>>, NEW t, Sound(t), Good(Head(d)),
         Coming(p, v, s, d, t),
         Head(d).ev.op = "COPY" /\ Head(d).ev.dst = p /\ Spares(Tail(d), p) /\ ~(s.busy /\ s.ev.dst = p) =>
             Applied(t, Head(d))[p] \in {Absent, v}
  PROVE  Coming(p, v, s, Tail(d), Applied(t, Head(d)))
<1>1. CASE s.busy /\ s.ev.dst = p
  BY <1>1 DEF Coming
<1>2. CASE ~(s.busy /\ s.ev.dst = p)
  <2> DEFINE m == Head(d)
             r == Tail(d)
  <2>1. Brings(d, p, v) /\ (Spares(d, p) => t[p] \in {Absent, v})
    BY <1>2 DEF Coming
  <2>2. /\ Brings(r, p, v)
        /\ Spares(r, p) /\ ~Touches(m.ev, p) => Spares(d, p)
        /\ Spares(r, p) /\ Touches(m.ev, p) =>
              \/ m.ev.op \in {"DELETE", "COPY"}
              \/ m.ev.op = "NEW_FILE" /\ m.val = v
    BY <2>1, BringsTail
  <2>3. Good(m) /\ p \in Paths /\ m \in Message /\ Plain(m.ev) /\ m.ev.dst \in Paths
    BY ConstantFacts DEF Good, Plain, Well, Event
  <2>4. m.ev.op = "COPY" /\ m.ev.dst = p /\ Spares(r, p) => Applied(t, m)[p] \in {Absent, v}
    BY <1>2
  <2> HIDE DEF m, r
  <2>5. ASSUME Spares(r, p) PROVE Applied(t, m)[p] \in {Absent, v}
    <3>1. CASE ~Touches(m.ev, p)
      BY <2>1, <2>2, <2>3, <2>5, <3>1, AppliedSound
    <3>2. CASE Touches(m.ev, p) /\ m.ev.op = "DELETE"
      BY <2>3, <3>2, AppliedAt
    <3>3. CASE Touches(m.ev, p) /\ m.ev.op = "COPY"
      BY <2>4, <2>5, <3>3 DEF Touches
    <3>4. CASE Touches(m.ev, p) /\ m.ev.op = "NEW_FILE" /\ m.val = v
      <4>1. m.ev.dst = p
        BY <3>4 DEF Touches
      <4>2. QED
        BY <2>3, <3>4, <4>1, AppliedSound
    <3>5. QED
      BY <2>2, <2>5, <3>1, <3>2, <3>3, <3>4
  <2>6. QED
    BY <1>2, <2>2, <2>5 DEF Coming, m, r
<1>3. QED
  BY <1>1, <1>2

LEMMA ComingSent ==
  ASSUME NEW p, NEW v, NEW d \in Seq(Message), NEW m \in Message, NEW t, NEW s, ~s.busy,
         ~Touches(m.ev, p) => Brings(d, p, v) /\ (Spares(d, p) => t[p] \in {Absent, v}),
         Touches(m.ev, p) => m.ev.op \in {"DELETE", "COPY"} \/ (m.ev.op = "NEW_FILE" /\ m.val = v)
  PROVE  Coming(p, v, s, Append(d, m), t)
<1> DEFINE g == Append(d, m)
<1>1. CASE Touches(m.ev, p)
  <2>1. Brings(g, p, v) /\ ~Spares(g, p)
    BY <1>1, BringsAppend
  <2> HIDE DEF g
  <2>2. Coming(p, v, s, g, t)
    BY <2>1 DEF Coming
  <2>3. QED
    BY <2>2 DEF g
<1>2. CASE ~Touches(m.ev, p)
  <2>1. Brings(g, p, v) /\ (Spares(g, p) => Spares(d, p))
    BY <1>2, BringsAppend
  <2> HIDE DEF g
  <2>2. Coming(p, v, s, g, t)
    BY <1>2, <2>1 DEF Coming
  <2>3. QED
    BY <2>2 DEF g
<1>3. QED
  BY <1>1, <1>2

\* A copy of a file that a client is about to make gives what the server has.
CopyComes ==
    \A c \in Clients : mode[c] = "live" /\ down[c] # <<>> /\ Head(down[c]).ev.op = "COPY" =>
        LET m == Head(down[c])
            p == m.ev.dst
        IN  \A k \in Clients \ {c} :
                p \in Held(k, c) /\ folder[p] # Absent /\ Calm(k, c, p) /\ Quiet(Tail(Pipe(c)), p) =>
                    Applied(copy[c], m)[p] \in {Absent, folder[p]}

\* Everything of w is in one of the three.
Places(w, xa, xb, xc) ==
    \A i \in 1 .. Len(w) : \/ i \in 1 .. Len(xa) /\ w[i] = xa[i]
                           \/ i - Len(xa) \in 1 .. Len(xb) /\ w[i] = xb[i - Len(xa)]
                           \/ i - (Len(xa) + Len(xb)) \in 1 .. Len(xc) /\ w[i] = xc[i - (Len(xa) + Len(xb))]

LEMMA ThreeJoined ==
  ASSUME NEW E, NEW xa \in Seq(E), NEW xb \in Seq(E), NEW xc \in Seq(E), NEW w, w = (xa \o xb) \o xc
  PROVE  /\ w \in Seq(E) /\ Len(xa) \in Nat /\ Len(xb) \in Nat /\ Len(xc) \in Nat
         /\ Len(w) = Len(xa) + Len(xb) + Len(xc)
         /\ Places(w, xa, xb, xc)
<1> DEFINE u == xa \o xb
<1>1. u \in Seq(E) /\ Len(u) = Len(xa) + Len(xb) /\ Len(xa) \in Nat /\ Len(xb) \in Nat
  OBVIOUS
<1>2. \A i \in 1 .. Len(u) : u[i] = IF i <= Len(xa) THEN xa[i] ELSE xb[i - Len(xa)]
  OBVIOUS
<1> HIDE DEF u
<1>3. w \in Seq(E) /\ Len(w) = Len(u) + Len(xc) /\ Len(xc) \in Nat
  BY <1>1 DEF u
<1>4. \A i \in 1 .. Len(w) : w[i] = IF i <= Len(u) THEN u[i] ELSE xc[i - Len(u)]
  <2>1. w = u \o xc
    BY DEF u
  <2>2. QED
    BY <1>1, <2>1
<1>5. ASSUME NEW i \in 1 .. Len(w)
      PROVE  \/ i \in 1 .. Len(xa) /\ w[i] = xa[i]
             \/ i - Len(xa) \in 1 .. Len(xb) /\ w[i] = xb[i - Len(xa)]
             \/ i - (Len(xa) + Len(xb)) \in 1 .. Len(xc) /\ w[i] = xc[i - (Len(xa) + Len(xb))]
  <2>1. CASE i <= Len(u)
    BY <1>1, <1>2, <1>3, <1>4, <2>1
  <2>2. CASE i > Len(u)
    BY <1>1, <1>3, <1>4, <2>2
  <2>3. QED
    BY <1>1, <1>3, <2>1, <2>2
<1>6. Places(w, xa, xb, xc)
  BY <1>5 DEF Places
<1>7. Len(w) = Len(xa) + Len(xb) + Len(xc)
  BY <1>1, <1>3
<1>8. QED
  BY <1>1, <1>3, <1>6, <1>7

LEMMA PipeQuiet ==
  ASSUME Base, NEW c \in Clients, NEW p, down[c] # <<>>, Spares(Tail(down[c]), p), Quiet(queue[c], p),
         ~(snd[c].busy /\ snd[c].ev.dst = p)
  PROVE  Quiet(Tail(Pipe(c)), p)
<1> DEFINE r == Tail(down[c])
           q == queue[c]
           sg == Sending(c)
<1>1. /\ r \in Seq(Message) /\ q \in Seq(Event) /\ sg \in Seq(ByOthers(c))
      /\ Evs(down[c]) \in Seq(ByOthers(c)) /\ q \in Seq(ByOthers(c))
  <2>1. down[c] \in Seq(Message) /\ r \in Seq(Message)
    BY DEF Base, TypeOK
  <2>2. QED
    BY <2>1, PipeType
<1>2. Evs(down[c]) # <<>> /\ Tail(Evs(down[c])) = Evs(r) /\ Evs(r) \in Seq(Event) /\ Len(Evs(r)) = Len(r)
      /\ Len(r) \in Nat /\ \A i \in 1 .. Len(r) : Evs(r)[i] = r[i].ev
  <2>1. down[c] \in Seq(Message)
    BY DEF Base, TypeOK
  <2>2. Evs(down[c]) # <<>> /\ Tail(Evs(down[c])) = Evs(r)
    BY <2>1, EvsFacts
  <2> HIDE DEF r
  <2>3. QED
    BY <1>1, <2>2, EvsFacts
<1>3. Tail(Pipe(c)) = (Evs(r) \o sg) \o q
  <2> DEFINE xa == Evs(down[c])
  <2>1. xa \o sg \in Seq(ByOthers(c)) /\ xa \o sg # <<>> /\ Tail(xa \o sg) = Tail(xa) \o sg
    BY <1>1, <1>2, JoinFacts
  <2>2. Tail((xa \o sg) \o q) = Tail(xa \o sg) \o q
    <3> DEFINE xc == xa \o sg
    <3>1. xc \in Seq(ByOthers(c)) /\ xc # <<>> /\ Tail(xc) = Tail(xa) \o sg /\ q \in Seq(ByOthers(c))
      BY <1>1, <2>1
    <3> HIDE DEF xc
    <3>2. Tail(xc \o q) = Tail(xc) \o q
      BY <3>1, JoinFacts
    <3>3. QED
      BY <3>1, <3>2 DEF xc
  <2>3. QED
    BY <1>2, <2>1, <2>2 DEF Pipe
<1>4. \A i \in 1 .. Len(sg) : ~Touches(sg[i], p)
  <2>1. snd[c].busy => snd[c].ev.op = "NEW_FILE"
    BY DEF Base, EventsOK
  <2>2. QED
    BY <2>1 DEF Sending, Touches
<1>5. \A i \in 1 .. Len(Evs(r)) : ~Touches(Evs(r)[i], p)
  BY <1>2 DEF Spares
<1>6. \A i \in 1 .. Len(q) : ~Touches(q[i], p)
  BY DEF Quiet
<1> DEFINE xb == Evs(r)
           w == (xb \o sg) \o q
<1>7. xb \in Seq(Event) /\ sg \in Seq(Event)
  BY <1>1, <1>2 DEF ByOthers
<1>a. w = (xb \o sg) \o q
  OBVIOUS
<1> HIDE DEF r, q, sg, xb, w
<1>8. Places(w, xb, sg, q)
  BY <1>1, <1>7, <1>a, ThreeJoined
<1>9. Quiet(w, p)
  BY <1>4, <1>5, <1>6, <1>8 DEF Quiet, Places, xb
<1>10. QED
  BY <1>3, <1>9 DEF w, xb

LEMMA ValueTaken ==
  ASSUME Base, Trees, ContentsKept, DnValue, CopyComes, NEW c \in Clients, mode[c] = "live", ClientReceive(c),
         NEW k \in Clients \ {c}, NEW p \in Held(k, c) \cap Files, folder[p] # Absent, Calm(k, c, p), Quiet(queue[c], p)
  PROVE  Coming(p, folder[p], snd'[c], down'[c], copy'[c])
<1> DEFINE m == Head(down[c])
<1>0. TypeOK /\ EventsOK /\ copy \in [Clients -> Tree] /\ down \in [Clients -> Seq(Message)] /\ down[c] \in Seq(Message)
  BY DEF Base, TypeOK
<1>1. /\ down[c] # <<>> /\ down'[c] = Tail(down[c]) /\ snd'[c] = snd[c] /\ copy'[c] = Applied(copy[c], m)
  BY <1>0 DEF ClientReceive, Applied
<1>2. Good(m)
  BY <1>0, <1>1, Heads, NoMoves
<1>3. Coming(p, folder[p], snd[c], down[c], copy[c])
  BY DEF DnValue, DnValueOf
<1>4. ASSUME m.ev.op = "COPY", m.ev.dst = p, Spares(Tail(down[c]), p), ~(snd[c].busy /\ snd[c].ev.dst = p)
      PROVE  Applied(copy[c], m)[p] \in {Absent, folder[p]}
  <2>1. Quiet(Tail(Pipe(c)), p)
    BY <1>1, <1>4, PipeQuiet
  <2>2. QED
    BY <1>1, <1>4, <2>1 DEF CopyComes
<1>5. Sound(copy[c]) /\ p \in Files
  BY DEF Trees
<1>6. Coming(p, folder[p], snd[c], Tail(down[c]), Applied(copy[c], Head(down[c])))
  BY <1>0, <1>1, <1>2, <1>3, <1>4, <1>5, ComingReceived
<1>7. QED
  BY <1>1, <1>6

LEMMA ValueQueued ==
  ASSUME Base, ContentsKept, NEW c \in Clients, StartSend(c), mode[c] = "live", mode'[c] = "live",
         NEW p \in Files, NEW v, folder[p] = v, Quiet(queue'[c], p),
         Quiet(queue[c], p) => Coming(p, v, snd[c], down[c], copy[c])
  PROVE  Coming(p, v, snd'[c], down'[c], copy[c])
<1> DEFINE e == Head(queue[c])
<1>0. /\ TypeOK /\ EventsOK /\ queue \in [Clients -> Seq(Event)] /\ down \in [Clients -> Seq(Message)]
      /\ queue[c] \in Seq(Event) /\ down[c] \in Seq(Message) /\ folder \in Tree /\ mode \in [Clients -> Modes]
      /\ snd \in [Clients -> Sender]
  BY DEF Base, TypeOK
<1>1. queue[c] # <<>> /\ queue'[c] = Tail(queue[c]) /\ ~snd[c].busy
  BY <1>0 DEF StartSend, MutexFree
<1>2. e \in ByOthers(c) /\ e \in Event /\ Plain(e) /\ e.dst \in Paths
  BY <1>0, <1>1, Heads, NoMoves, Members DEF Event
<1>3. ~Touches(e, p) => Brings(down[c], p, v) /\ (Spares(down[c], p) => copy[c][p] \in {Absent, v})
  <2>1. ~Touches(e, p) => Quiet(queue[c], p)
    BY <1>0, <1>1, QuietMore
  <2>2. QED
    BY <1>1, <2>1 DEF Coming
<1>4. Touches(e, p) => e.op \in {"DELETE", "COPY"} \/ (e.op = "NEW_FILE" /\ e.dst = p)
  BY <1>2, ConstantFacts DEF Touches, Plain, Well, Event, Events
<1>5. CASE e.op # "NEW_FILE"
  <2> DEFINE m == [ev |-> e, val |-> folder[e.dst]]
  <2>1. down'[c] = Append(down[c], m) /\ snd'[c] = snd[c]
    BY <1>0, <1>5 DEF StartSend
  <2>2. m \in Message /\ m.ev = e
    BY <1>0, <1>2 DEF Message, Tree
  <2> HIDE DEF m
  <2>3. Coming(p, v, snd[c], Append(down[c], m), copy[c])
    <3>1. ~Touches(m.ev, p) => Brings(down[c], p, v) /\ (Spares(down[c], p) => copy[c][p] \in {Absent, v})
      BY <1>3, <2>2
    <3>2. Touches(m.ev, p) => m.ev.op \in {"DELETE", "COPY"} \/ (m.ev.op = "NEW_FILE" /\ m.val = v)
      BY <1>4, <1>5, <2>2
    <3>3. QED
      BY <1>0, <1>1, <2>2, <3>1, <3>2, ComingSent
  <2>4. QED
    BY <2>1, <2>3
<1>6. CASE e.op = "NEW_FILE"
  <2>1. down'[c] = down[c] /\ snd'[c] = [busy |-> TRUE, ev |-> e, val |-> folder[e.dst]]
    <3>1. folder[e.dst] # Absent
      BY <1>0, <1>6 DEF StartSend, Closed
    <3>2. QED
      BY <1>0, <1>6, <3>1 DEF StartSend
  <2>2. snd'[c].busy /\ snd'[c].ev = e /\ snd'[c].val = folder[e.dst]
    BY <2>1
  <2>3. ~Touches(e, p) \/ e.dst = p
    BY <1>4, <1>6
  <2> HIDE DEF e
  <2>4. QED
    BY <1>3, <2>1, <2>2, <2>3 DEF Coming, Touches
<1>7. QED
  BY <1>5, <1>6

LEMMA ValueRead ==
  ASSUME Base, NEW c \in Clients, FinishSend(c), mode'[c] = "live",
         NEW p \in Files, NEW v, folder[p] = v, Coming(p, v, snd[c], down[c], copy[c])
  PROVE  Coming(p, v, snd'[c], down'[c], copy[c])
<1> DEFINE e == snd[c].ev
<1>0. /\ TypeOK /\ EventsOK /\ down \in [Clients -> Seq(Message)] /\ down[c] \in Seq(Message) /\ folder \in Tree
      /\ mode \in [Clients -> Modes] /\ snd \in [Clients -> Sender] /\ snd[c] \in Sender
  BY DEF Base, TypeOK
<1>1. snd[c].busy /\ e.op = "NEW_FILE" /\ e \in Event /\ e.dst \in Paths /\ snd[c].val \in Content
  BY <1>0, SenderFacts DEF FinishSend, EventsOK, Event
<1>2. folder[e.dst] # Absent
  BY <1>0 DEF FinishSend, Closed
<1>3. PICK w \in Read(folder[e.dst], snd[c].val) : down' = [down EXCEPT ![c] = Append(@, [ev |-> e, val |-> w])]
  BY <1>2 DEF FinishSend
<1> DEFINE m == [ev |-> e, val |-> w]
<1>4. m \in Message /\ m.ev = e /\ m.val = w /\ down'[c] = Append(down[c], m) /\ ~snd'[c].busy
  <2>1. w \in Content
    BY <1>0, <1>1, <1>3 DEF Read, Tree, Content
  <2>2. ~snd'[c].busy
    BY <1>0 DEF FinishSend, NoSend
  <2>3. QED
    BY <1>0, <1>1, <1>3, <2>1, <2>2 DEF Message
<1>5. e.dst = p => w = v
  BY <1>1, <1>3 DEF Coming, Read
<1>6. ~Touches(e, p) => Brings(down[c], p, v) /\ (Spares(down[c], p) => copy[c][p] \in {Absent, v})
  BY <1>1 DEF Coming, Touches
<1>7. Touches(e, p) => e.dst = p
  BY <1>1 DEF Touches
<1> HIDE DEF m, e
<1>8. Coming(p, v, snd'[c], Append(down[c], m), copy[c])
  <2>1. ~Touches(m.ev, p) => Brings(down[c], p, v) /\ (Spares(down[c], p) => copy[c][p] \in {Absent, v})
    BY <1>4, <1>6
  <2>2. Touches(m.ev, p) => m.ev.op \in {"DELETE", "COPY"} \/ (m.ev.op = "NEW_FILE" /\ m.val = v)
    BY <1>1, <1>4, <1>5, <1>7
  <2>3. QED
    BY <1>0, <1>4, <2>1, <2>2, ComingSent
<1>9. QED
  BY <1>4, <1>8

LEMMA DnValueStep ==
  ASSUME Base, Tidy, Trees, Writing, Walked, ContentsKept, DnValue, CopyComes, Next
  PROVE  DnValue'
<1>0. /\ TypeOK /\ EventsOK /\ copy \in [Clients -> Tree] /\ mode \in [Clients -> Modes] /\ snd \in [Clients -> Sender]
      /\ down \in [Clients -> Seq(Message)] /\ queue \in [Clients -> Seq(Event)]
  BY DEF Base, TypeOK
<1> SUFFICES ASSUME NEW c \in Clients, mode'[c] = "live", NEW k \in Clients \ {c}, NEW p \in Held(k, c)' \cap Files,
                    folder'[p] # Absent, Calm(k, c, p)', Quiet(queue'[c], p)
             PROVE  Coming(p, folder'[p], snd'[c], down'[c], copy'[c])
  BY DEF DnValue, DnValueOf
<1>1. p \in Held(k, c) /\ p \in Files /\ p \in Paths
  BY HeldNext, ConstantFacts
<1>2. CASE Register(c)
  <2>1. /\ folder' = folder /\ copy' = copy /\ down' = down /\ snd' = snd /\ mode[c] = "offer" /\ rcv[c].pc = "idle"
        /\ down[c] = <<>> /\ ~snd[c].busy
    BY <1>2 DEF Register, Base, Unlisted, Before, NoSend
  <2>2. copy[c][p] = folder[p]
    BY <1>1, <2>1 DEF Walked, Held
  <2>3. QED
    BY <2>1, <2>2 DEF Coming, Brings
<1>3. SUFFICES ASSUME mode[c] = "live" PROVE Coming(p, folder'[p], snd'[c], down'[c], copy'[c])
  BY <1>0, <1>2, ModeSteps
<1>4. ASSUME folder[p] # Absent, Calm(k, c, p), Quiet(queue[c], p)
      PROVE  Coming(p, folder[p], snd[c], down[c], copy[c])
  BY <1>1, <1>3, <1>4 DEF DnValue, DnValueOf
<1>5. CASE ClientReceive(c)
  <2>1. folder' = folder /\ rcv' = rcv /\ queue' = queue
    BY <1>5 DEF ClientReceive
  <2>2. Calm(k, c, p)
    BY <2>1 DEF Calm, Heading
  <2>3. QED
    BY <1>1, <1>3, <1>5, <2>1, <2>2, ValueTaken
<1>6. ASSUME NEW j \in Clients, Enqueue(j, c) PROVE Coming(p, folder'[p], snd'[c], down'[c], copy'[c])
  <2>1. folder' = folder /\ copy' = copy /\ snd' = snd /\ down' = down
    BY <1>6 DEF Enqueue
  <2>2. queue'[c] = Append(queue[c], rcv[j].ev) /\ rcv[j].ev \in Event
    <3>1. rcv[j].ev \in Event
      BY <1>0, <1>6, ReceiverFacts DEF Enqueue, TypeOK
    <3>2. QED
      BY <1>0, <1>3, <1>6, <3>1 DEF Enqueue, Wanted
  <2>3. Quiet(queue[c], p) /\ ~Touches(rcv[j].ev, p)
    BY <1>0, <2>2, QuietAppend
  <2>4. Calm(k, c, p)
    <3>1. CASE j = k
      BY <2>3, <3>1 DEF Calm
    <3>2. CASE j # k
      <4>1. Kept(k)
        BY <1>0, <1>6, <3>2, OthersKept DEF OwnStep
      <4>2. (Heading(k, c)' <=> Heading(k, c)) /\ (Heading(k, c) => rcv'[k].ev = rcv[k].ev)
        BY <4>1 DEF Kept, Heading
      <4>3. QED
        BY <4>2 DEF Calm
    <3>3. QED
      BY <3>1, <3>2
  <2>5. QED
    BY <1>4, <2>1, <2>3, <2>4
<1>7. ASSUME ~ClientReceive(c), \A j \in Clients : ~Enqueue(j, c)
      PROVE  Coming(p, folder'[p], snd'[c], down'[c], copy'[c])
  <2>1. Calm(k, c, p) /\ folder'[p] = folder[p]
    BY <1>1, <1>3, <1>7, CalmBefore
  <2>2. copy'[c][p] = copy[c][p]
    BY <1>1, <1>3, <1>7, CopyHeld
  <2>3. ASSUME NEW s, NEW d, Coming(p, folder[p], s, d, copy[c]) PROVE Coming(p, folder'[p], s, d, copy'[c])
    BY <2>1, <2>2, <2>3 DEF Coming
  <2>4. CASE StartSend(c)
    <3>1. Quiet(queue[c], p) => Coming(p, folder[p], snd[c], down[c], copy[c])
      BY <1>4, <2>1
    <3>2. Coming(p, folder[p], snd'[c], down'[c], copy[c])
      BY <1>1, <1>3, <2>4, <3>1, ValueQueued
    <3>3. QED
      BY <2>3, <3>2
  <2>5. CASE FinishSend(c)
    <3>1. Quiet(queue[c], p)
      BY <2>5 DEF FinishSend
    <3>2. Coming(p, folder[p], snd[c], down[c], copy[c])
      BY <1>4, <2>1, <3>1
    <3>3. Coming(p, folder[p], snd'[c], down'[c], copy[c])
      BY <1>1, <2>5, <3>2, ValueRead
    <3>4. QED
      BY <2>3, <3>3
  <2>6. CASE ~StartSend(c) /\ ~FinishSend(c)
    <3>1. down'[c] = down[c]
      <4>1. \A j \in Clients : ClientReceive(j) => j # c
        BY <1>7
      <4>2. \A j \in Clients : ClientReceive(j) \/ StartSend(j) \/ FinishSend(j) => down'[c] = down[c]
        BY <1>0, <2>6, <4>1 DEF ClientReceive, StartSend, FinishSend
      <4>3. QED
        BY <4>2, WhoChanges DEF Changes
    <3>2. snd'[c] = snd[c]
      <4>1. \A j \in Clients : StartSend(j) \/ FinishSend(j) => snd'[c] = snd[c]
        BY <1>0, <2>6 DEF StartSend, FinishSend
      <4>2. QED
        BY <4>1, WhoChanges DEF Changes
    <3>3. queue'[c] = queue[c]
      <4>1. \A j \in Clients : StartSend(j) => queue'[c] = queue[c]
        BY <1>0, <2>6 DEF StartSend
      <4>2. \A j \in Clients, i \in Clients : Enqueue(j, i) => queue'[c] = queue[c]
        <5> SUFFICES ASSUME NEW j \in Clients, NEW i \in Clients, Enqueue(j, i) PROVE queue'[c] = queue[c]
          OBVIOUS
        <5>1. i # c
          BY <1>7
        <5>2. QED
          BY <1>0, <5>1 DEF Enqueue
      <4>3. QED
        BY <4>1, <4>2, WhoChanges DEF Changes
    <3>4. Coming(p, folder[p], snd[c], down[c], copy[c])
      BY <1>4, <2>1, <3>3
    <3>5. QED
      BY <2>3, <3>1, <3>2, <3>4
  <2>7. QED
    BY <2>4, <2>5, <2>6
<1>8. QED
  BY <1>5, <1>6, <1>7

-----------------------------------------------------------------------------
(* Copies: what a client reports *)

\* The events of client k that the server has not dealt with.
Line(k) == Evs(up[k]) \o out[k]
Lines == \A k \in Clients : Paired(Line(k))

LEMMA JoinThree ==
  ASSUME NEW E, NEW xa \in Seq(E), NEW xb \in Seq(E), NEW xc \in Seq(E)
  PROVE  xa \o (xb \o xc) = (xa \o xb) \o xc
  OBVIOUS

LEMMA EventHead ==
  ASSUME NEW es \in Seq(Event), es # <<>>
  PROVE  /\ Head(es) \in Event /\ Head(es).dst \in Paths /\ Head(es) = es[1] /\ Len(es) \in Nat \ {0}
         /\ Len(Tail(es)) = Len(es) - 1 /\ \A i \in 1 .. Len(es) - 1 : Tail(es)[i] = es[i + 1]
<1>1. Head(es) \in Event /\ Head(es) = es[1] /\ Len(es) \in Nat \ {0}
  OBVIOUS
<1>2. Len(Tail(es)) = Len(es) - 1 /\ \A i \in 1 .. Len(es) - 1 : Tail(es)[i] = es[i + 1]
  OBVIOUS
<1>3. Head(es).dst \in Paths
  BY <1>1 DEF Event
<1>4. QED
  BY <1>1, <1>2, <1>3

LEMMA LineType ==
  ASSUME Base, NEW k \in Clients
  PROVE  Line(k) \in Seq(Event) /\ Evs(up[k]) \in Seq(Event) /\ out[k] \in Seq(Event) /\ up[k] \in Seq(Message)
<1>1. up[k] \in Seq(Message) /\ out[k] \in Seq(Event)
  BY DEF Base, TypeOK
<1>2. Evs(up[k]) \in Seq(Event)
  BY <1>1, EvsFacts
<1>3. QED
  BY <1>1, <1>2 DEF Line

Lengthens(k, e) == Well(e) /\ Line(k)' = Line(k) \o Reports(e)
LineTaken(k) == /\ StartFile(k) \/ StartCutFile(k) \/ ReceivePath(k)
                /\ Line(k) # <<>> /\ Head(Line(k)) = Head(up[k]).ev /\ Line(k)' = Tail(Line(k))

LEMMA LineIsTaken ==
  ASSUME Base, NEW k \in Clients, StartFile(k) \/ StartCutFile(k) \/ ReceivePath(k)
  PROVE  LineTaken(k)
<1>0. /\ out \in [Clients -> Seq(Event)] /\ up \in [Clients -> Seq(Message)]
      /\ Evs(up[k]) \in Seq(Event) /\ out[k] \in Seq(Event) /\ up[k] \in Seq(Message)
  BY LineType DEF Base, TypeOK
<1>1. up[k] # <<>> /\ up'[k] = Tail(up[k]) /\ out'[k] = out[k]
  BY <1>0 DEF StartFile, StartCutFile, ReceivePath
<1>2. Head(Evs(up[k])) = Head(up[k]).ev /\ Evs(Tail(up[k])) = Tail(Evs(up[k])) /\ Evs(up[k]) # <<>>
  BY <1>0, <1>1, EvsFacts
<1>3. Line(k)' = Evs(Tail(up[k])) \o out[k]
  BY <1>1 DEF Line
<1>4. /\ Evs(up[k]) \o out[k] # <<>> /\ Head(Evs(up[k]) \o out[k]) = Head(Evs(up[k]))
      /\ Tail(Evs(up[k]) \o out[k]) = Tail(Evs(up[k])) \o out[k]
  BY <1>0, <1>2, JoinFacts
<1>5. QED
  BY <1>2, <1>3, <1>4 DEF LineTaken, Line

LEMMA LineSteps ==
  ASSUME Base, Trees, ContentsKept, Next, NEW k \in Clients
  PROVE  Line(k)' = Line(k) \/ (\E e \in Event : Lengthens(k, e)) \/ LineTaken(k)
<1>0. /\ TypeOK /\ EventsOK /\ out \in [Clients -> Seq(Event)] /\ up \in [Clients -> Seq(Message)] /\ copy \in [Clients -> Tree]
      /\ Evs(up[k]) \in Seq(Event) /\ out[k] \in Seq(Event) /\ up[k] \in Seq(Message)
  BY LineType DEF Base, TypeOK
<1>1. CASE Edits
  <2>1. PICK c \in Clients, op \in plan.ops, p \in Paths, q \in Paths : Edit(c, [op |-> op, src |-> p, dst |-> q])
    BY <1>1 DEF Edits
  <2>2. PICK e \in Own(c) : EditedAs(c, e)
    BY <2>1, EditSound
  <2>3. Well(e) /\ e \in Event /\ up' = up /\ out'[k] = IF k = c THEN out[k] \o Reports(e) ELSE out[k]
    BY <1>0, <2>1, <2>2, Members DEF EditedAs, Edit
  <2>4. CASE k = c
    <3>1. Reports(e) \in Seq(Event)
      BY <2>3, ReportsFacts
    <3> DEFINE xa == Evs(up[k])
               xb == out[k]
               xc == Reports(e)
    <3>a. xa \in Seq(Event) /\ xb \in Seq(Event) /\ xc \in Seq(Event)
      BY <1>0, <3>1
    <3> HIDE DEF xa, xb, xc
    <3>b. xa \o (xb \o xc) = (xa \o xb) \o xc
      BY <3>a, JoinThree
    <3>2. Evs(up[k]) \o (out[k] \o Reports(e)) = (Evs(up[k]) \o out[k]) \o Reports(e)
      BY <3>b DEF xa, xb, xc
    <3>3. Lengthens(k, e)
      BY <2>3, <2>4, <3>2 DEF Lengthens, Line
    <3>4. QED
      BY <2>3, <3>3
  <2>5. CASE k # c
    BY <2>3, <2>5 DEF Line
  <2>6. QED
    BY <2>4, <2>5
<1>2. ASSUME NEW c \in Clients, ClientSend(c) PROVE Line(k)' = Line(k)
  <2>1. CASE c = k
    <3> DEFINE m == [ev |-> Head(out[k]), val |-> copy[k][Head(out[k]).dst]]
    <3>1. out[k] # <<>> /\ out'[k] = Tail(out[k]) /\ up'[k] = Append(up[k], m)
      BY <1>0, <1>2, <2>1 DEF ClientSend
    <3>2. m \in Message /\ m.ev = Head(out[k])
      <4>1. Head(out[k]) \in Event /\ Head(out[k]).dst \in Paths
        BY <1>0, <3>1, EventHead
      <4>2. QED
        BY <1>0, <4>1 DEF Message, Tree
    <3> HIDE DEF m
    <3>3. Evs(Append(up[k], m)) = Append(Evs(up[k]), Head(out[k]))
      BY <1>0, <3>2, EvsFacts
    <3>4. Append(Evs(up[k]), Head(out[k])) \o Tail(out[k]) = Evs(up[k]) \o out[k]
      <4>1. Head(out[k]) \in Event
        BY <1>0, <3>1, EventHead
      <4>2. QED
        <5> DEFINE xa == Evs(up[k])
                   xb == out[k]
        <5>1. xa \in Seq(Event) /\ xb \in Seq(Event) /\ xb # <<>> /\ Head(xb) \in Event
          BY <1>0, <3>1, <4>1
        <5> HIDE DEF xa, xb
        <5>2. Append(xa, Head(xb)) \o Tail(xb) = xa \o xb
          BY <5>1, JoinFacts
        <5>3. QED
          BY <5>2 DEF xa, xb
    <3>5. QED
      BY <3>1, <3>3, <3>4 DEF Line
  <2>2. CASE c # k
    BY <1>0, <1>2, <2>2 DEF ClientSend, Line
  <2>3. QED
    BY <2>1, <2>2
<1>3. ASSUME NEW c \in Clients, StartFile(c) \/ StartCutFile(c) \/ ReceivePath(c) PROVE Line(k)' = Line(k) \/ LineTaken(k)
  <2>1. CASE c # k
    BY <1>0, <1>3, <2>1 DEF StartFile, StartCutFile, ReceivePath, Line
  <2>2. CASE c = k
    BY <1>3, <2>2, LineIsTaken
  <2>3. QED
    BY <2>1, <2>2
<1>4. ASSUME out' = out, up' = up PROVE Line(k)' = Line(k)
  BY <1>4 DEF Line
<1>5. QED
  BY <1>1, <1>2, <1>3, <1>4, WhoChanges DEF Changes

LEMMA LinesStep ==
  ASSUME Base, Trees, ContentsKept, Lines, Next
  PROVE  Lines'
<1> SUFFICES ASSUME NEW k \in Clients PROVE Paired(Line(k)')
  BY DEF Lines
<1>1. Paired(Line(k)) /\ Line(k) \in Seq(Event)
  BY LineType DEF Lines
<1>2. ASSUME NEW e \in Event, Lengthens(k, e) PROVE Paired(Line(k)')
  BY <1>1, <1>2, PairedReports DEF Lengthens
<1>3. CASE LineTaken(k)
  BY <1>1, <1>3, PairedTail DEF LineTaken
<1>4. QED
  BY <1>1, <1>2, <1>3, LineSteps

\* A copy is followed by its file.
LEMMA CopyPaired ==
  ASSUME NEW es \in Seq(Event), es # <<>>, Paired(es), Head(es).op = "COPY"
  PROVE  Tail(es) # <<>> /\ Head(Tail(es)).op = "NEW_FILE" /\ Head(Tail(es)).dst = Head(es).dst
<1>1. 1 \in 1 .. Len(es) /\ Head(es) = es[1]
  OBVIOUS
<1>2. 1 < Len(es) /\ es[1 + 1].op = "NEW_FILE" /\ es[1 + 1].dst = es[1].dst
  BY <1>1 DEF Paired
<1>3. Tail(es) # <<>> /\ Head(Tail(es)) = es[1 + 1]
  <2>1. Len(Tail(es)) # 0 /\ Tail(es)[1] = es[1 + 1]
    BY <1>2, EventHead
  <2>2. Tail(es) \in Seq(Event)
    OBVIOUS
  <2>3. Tail(es) # <<>>
    <3> DEFINE fs == Tail(es)
    <3>1. Len(fs) # 0
      BY <2>1
    <3> HIDE DEF fs
    <3>2. fs # <<>>
      BY <3>1
    <3>3. QED
      BY <3>2 DEF fs
  <2>4. QED
    BY <2>1, <2>2, <2>3, EventHead
<1>4. QED
  BY <1>1, <1>2, <1>3

\* What is first stays first until it is taken.
LEMMA HeadKept ==
  ASSUME NEW es \in Seq(Event), es # <<>>, NEW fs \in Seq(Event)
  PROVE  es \o fs # <<>> /\ Head(es \o fs) = Head(es)
  BY JoinFacts

-----------------------------------------------------------------------------
(* Copies: nobody joins, and no path has two users *)

Copying == "COPY" \in plan.ops

\* What is missed is a file whose upload was cut off, and its client's receiver is gone.
Cut(p) == p \in Files /\ \E j \in Clients : rcv[j].pc = "dead" /\ j \in plan.editors[p]
NoJoins == Copying => \A c \in Clients : /\ mode[c] \notin {"sync", "offer"}
                                         /\ \A p \in missed[c] : Cut(p)

LEMMA DeadStays ==
  ASSUME Base, Next, NEW j \in Clients, rcv[j].pc = "dead"
  PROVE  rcv'[j].pc = "dead"
<1>1. Kept(j) \/ OwnStep(j)
  BY WhoseStep DEF Base
<1>2. ~OwnStep(j)
  BY OwnSteps DEF Base, OwnStep
<1>3. QED
  BY <1>1, <1>2 DEF Kept

\* Without newcomers, paths are missed only by cut uploads.
LEMMA MissedCut ==
  ASSUME Base, NoJoins, Copying, Next
  PROVE  \/ missed' = missed
         \/ \E j \in Clients : /\ StartCutFile(j) /\ up[j] # <<>> /\ Head(up[j]).ev \in Own(j) /\ Head(up[j]).ev.dst \in Files
                               /\ rcv'[j].pc = "dead"
                               /\ missed' = [c \in Clients |-> missed[c] \cup {Head(up[j]).ev.dst}]
<1>0. TypeOK /\ EventsOK /\ missed \in [Clients -> SUBSET Paths]
  BY DEF Base, TypeOK
<1>1. Syncing = {}
  BY DEF NoJoins, Syncing
<1>2. ASSUME missed' = Behind PROVE missed' = missed
  <2>1. missed' = [k \in Clients |-> missed[k]]
    BY <1>1, <1>2 DEF Behind
  <2>2. QED
    BY <1>0, <2>1
<1>3. ASSUME NEW j \in Clients, StartCutFile(j), missed' # missed
      PROVE  /\ StartCutFile(j) /\ up[j] # <<>> /\ Head(up[j]).ev \in Own(j) /\ Head(up[j]).ev.dst \in Files
             /\ rcv'[j].pc = "dead"
             /\ missed' = [c \in Clients |-> missed[c] \cup {Head(up[j]).ev.dst}]
  <2>1. up[j] # <<>> /\ Head(up[j]).ev.op = "NEW_FILE" /\ missed' = [c \in Clients |-> missed[c] \cup {Head(up[j]).ev.dst}]
    BY <1>3 DEF StartCutFile
  <2>2. Head(up[j]) \in OwnMessage(j)
    BY <1>0, <2>1, Heads
  <2>3. Head(up[j]).ev \in Own(j) /\ Head(up[j]).ev.dst \in Files
    BY <2>1, <2>2, Members DEF Well
  <2>4. rcv'[j] = Dead(TRUE) /\ Dead(TRUE).pc = "dead"
    BY <1>0, <1>3, OwnSteps DEF Dead
  <2>5. QED
    BY <1>3, <2>1, <2>3, <2>4
<1>4. ASSUME NEW j \in Clients, NEW p \in Paths, Return(j, p) PROVE FALSE
  BY <1>4 DEF Return, NoJoins
<1>5. ASSUME NEW j \in Clients, StartFile(j) \/ FinishFile(j) \/ ReceivePath(j) PROVE missed' = missed
  BY <1>2, <1>5 DEF StartFile, FinishFile, ReceivePath
<1>6. QED
  BY <1>3, <1>4, <1>5, WhoChanges DEF Changes

LEMMA NoJoinsStep ==
  ASSUME CopiesOwn, Base, NoJoins, Next
  PROVE  NoJoins'
<1>0. TypeOK /\ EventsOK /\ mode \in [Clients -> Modes] /\ missed \in [Clients -> SUBSET Paths] /\ plan \in Plans
  BY DEF Base, TypeOK
<1>1. plan' = plan
  BY WhoChanges DEF Changes
<1> SUFFICES ASSUME Copying, NEW c \in Clients
             PROVE  mode'[c] \notin {"sync", "offer"} /\ \A p \in missed'[c] : Cut(p)'
  BY <1>1 DEF NoJoins, Copying
<1>2. mode[c] \notin {"sync", "offer"} /\ \A p \in missed[c] : Cut(p)
  BY DEF NoJoins
<1>3. plan.joiners = {}
  BY <1>0 DEF CopiesOwn, Alone, Copying
<1>4. mode'[c] \notin {"sync", "offer"}
  <2>1. ~Join(c)
    BY <1>3 DEF Join
  <2>2. ~TurnAround(c)
    BY <1>2 DEF TurnAround
  <2>3. QED
    BY <1>0, <1>2, <2>1, <2>2, ModeSteps
<1>5. ASSUME NEW p \in missed'[c] PROVE Cut(p)'
  <2>1. CASE p \in missed[c]
    <3>1. p \in Files
      BY <1>2, <2>1 DEF Cut
    <3>2. PICK j \in Clients : rcv[j].pc = "dead" /\ j \in plan.editors[p]
      BY <1>2, <2>1 DEF Cut
    <3>3. rcv'[j].pc = "dead"
      BY <3>2, DeadStays
    <3>4. QED
      BY <1>1, <3>1, <3>2, <3>3 DEF Cut
  <2>2. CASE p \notin missed[c]
    <3>1. PICK j \in Clients :
                  /\ Head(up[j]).ev \in Own(j) /\ Head(up[j]).ev.dst \in Files
                  /\ rcv'[j].pc = "dead"
                  /\ missed' = [k \in Clients |-> missed[k] \cup {Head(up[j]).ev.dst}]
      BY <1>5, <2>2, MissedCut
    <3>2. p = Head(up[j]).ev.dst
      BY <1>5, <2>2, <3>1
    <3>3. j \in plan.editors[p] /\ p \in Files
      BY <3>1, <3>2 DEF Own
    <3>4. QED
      BY <1>1, <3>1, <3>3 DEF Cut
  <2>3. QED
    BY <2>1, <2>2
<1>6. QED
  BY <1>4, <1>5

\* What a client copies is as much hers, and as much in step, as what she copies it to.
LEMMA SourceHeld ==
  ASSUME CopiesOwn, Base, NoJoins, Copying, NEW k \in Clients, NEW c \in Clients, rcv[k].pc # "dead",
         NEW e \in Own(k), e.op = "COPY"
  PROVE  e.src \in Held(k, c) /\ e.src \in Files /\ e.src # e.dst
<1>0. TypeOK /\ plan \in Plans
  BY DEF Base, TypeOK
<1>1. e.src \in Files /\ e.dst \in Files /\ e.src # e.dst /\ k \in plan.editors[e.src] /\ e.src \in Paths
  BY Members, ConstantFacts DEF Own, Well
<1>2. plan.editors[e.src] \subseteq {k}
  BY <1>0, <1>1 DEF CopiesOwn, Alone, Copying
<1>3. e.src \notin missed[c]
  BY <1>2 DEF NoJoins, Cut
<1>4. In[e.src] \notin missed[c]
  <2>1. In[e.src] \notin Files
    BY <1>1, ConstantFacts
  <2>2. QED
    BY <2>1 DEF NoJoins, Cut
<1>5. QED
  BY <1>1, <1>2, <1>3, <1>4 DEF Held, Mine, Forgotten

\* And it is so for as long as there is somebody to receive it.
LEMMA StillHeld ==
  ASSUME Base, NoJoins, Copying, Next, NEW k \in Clients, NEW c \in Clients, rcv'[k].pc # "dead",
         NEW p \in Held(k, c), p \in Files
  PROVE  p \in Held(k, c)'
<1>0. TypeOK /\ missed \in [Clients -> SUBSET Paths] /\ Mine(k)' = Mine(k)
  BY HeldShrinks DEF Base, TypeOK
<1>1. p \in Mine(k) /\ p \in Paths /\ p \notin missed[c] /\ In[p] \notin missed[c]
  BY DEF Held, Mine, Forgotten
<1>2. CASE missed' = missed
  BY <1>0, <1>1, <1>2 DEF Held, Forgotten
<1>3. CASE missed' # missed
  <2>1. PICK j \in Clients :
                /\ Head(up[j]).ev \in Own(j) /\ Head(up[j]).ev.dst \in Files
                /\ rcv'[j].pc = "dead"
                /\ missed' = [i \in Clients |-> missed[i] \cup {Head(up[j]).ev.dst}]
    BY <1>3, MissedCut
  <2>2. Head(up[j]).ev.dst # p
    BY <1>1, <2>1 DEF Own, Mine
  <2>3. Head(up[j]).ev.dst # In[p]
    BY <1>1, <2>1, ConstantFacts
  <2>4. missed'[c] = missed[c] \cup {Head(up[j]).ev.dst}
    BY <2>1
  <2>5. QED
    BY <1>0, <1>1, <2>2, <2>3, <2>4 DEF Held, Forgotten
<1>4. QED
  BY <1>2, <1>3

-----------------------------------------------------------------------------
(* Copies: the file of a copy follows it *)

\* The server's folder has what a copy e of k gives, and nothing happens to it before
\* the receiver of k comes to the file of the copy.
Copied(f, e) == f[e.dst] = IF f[e.src] = Absent THEN Torn ELSE f[e.src]
CopyFacts(k, c, e) ==
    /\ e.src \in Held(k, c) /\ e.src \in Files /\ e.dst \in Files /\ e.src # e.dst
    /\ rcv[k].pc \notin {"writing", "dead"}
    /\ Line(k) # <<>> /\ Head(Line(k)).op = "NEW_FILE" /\ Head(Line(k)).dst = e.dst
    /\ Copied(folder, e)
CopyFactsNext(k, c, e) ==
    /\ e.src \in Held(k, c)' /\ e.src \in Files /\ e.dst \in Files /\ e.src # e.dst
    /\ rcv'[k].pc \notin {"writing", "dead"}
    /\ Line(k)' # <<>> /\ Head(Line(k)').op = "NEW_FILE" /\ Head(Line(k)').dst = e.dst
    /\ Copied(folder', e)

LEMMA FileOpened ==
  ASSUME Base, Trees, ContentsKept, Next, NEW k \in Clients, StartFile(k), folder[Head(up[k]).ev.dst] # Absent
  PROVE  rcv'[k].pc = "writing" /\ rcv'[k].ev = Head(up[k]).ev
<1>0. TypeOK /\ EventsOK /\ rcv[k].pc = "idle"
  BY OwnSteps DEF Base
<1>1. Head(up[k]) \in Message /\ Well(Head(up[k]).ev) /\ Head(up[k]).ev.op = "NEW_FILE" /\ Open(k, Head(up[k]))
  BY <1>0, Heads, Members DEF StartFile
<1>2. Head(up[k]).ev.dst \in Paths
  BY <1>1 DEF Well, Event
<1>3. ~Fails(folder, Head(up[k]).ev)
  BY <1>1, <1>2 DEF Fails, NoParent, Trees, Sound, Nested
<1>4. QED
  BY <1>0, <1>1, <1>3, OpenFacts

LEMMA CopyFactsKept ==
  ASSUME Base, Tidy, Trees, ContentsKept, Writing, NoJoins, Copying, Next, NEW k \in Clients, NEW c \in Clients,
         NEW e, CopyFacts(k, c, e), e.dst \in Held(k, c)', folder[e.dst] # Absent
  PROVE  \/ CopyFactsNext(k, c, e)
         \/ StartFile(k) /\ rcv'[k].pc = "writing" /\ rcv'[k].ev.dst = e.dst
<1>0. TypeOK /\ EventsOK /\ up \in [Clients -> Seq(Message)] /\ missed \in [Clients -> SUBSET Paths]
  BY DEF Base, TypeOK
<1>1. /\ e.src \in Held(k, c) /\ e.src \in Files /\ e.dst \in Files /\ e.src # e.dst
      /\ rcv[k].pc \notin {"writing", "dead"}
      /\ Line(k) # <<>> /\ Head(Line(k)).op = "NEW_FILE" /\ Head(Line(k)).dst = e.dst
      /\ Copied(folder, e)
  BY DEF CopyFacts
<1>2. CASE LineTaken(k)
  <2>1. Head(up[k]).ev = Head(Line(k))
    BY <1>2 DEF LineTaken
  <2>2. ~ReceivePath(k)
    BY <1>1, <2>1 DEF ReceivePath
  <2>3. ~StartCutFile(k)
    <3>1. SUFFICES ASSUME StartCutFile(k) PROVE FALSE
      OBVIOUS
    <3>2. folder' # folder \/ missed' = [i \in Clients |-> missed[i] \cup {e.dst}] \/ Fails(folder, Head(up[k]).ev)
      BY <1>1, <2>1, <3>1 DEF StartCutFile
    <3>3. ~Fails(folder, Head(up[k]).ev)
      BY <1>1, <2>1, ConstantFacts DEF Fails, NoParent, Trees, Sound, Nested
    <3>4. missed' = [i \in Clients |-> missed[i] \cup {e.dst}]
      BY <1>1, <2>1, <3>1, <3>3 DEF StartCutFile
    <3>5. e.dst \in missed'[c]
      BY <3>4
    <3>6. e.dst \in Paths /\ {e.dst, In[e.dst]} \cap missed'[c] # {}
      BY <1>1, <3>5, ConstantFacts
    <3>7. e.dst \in Forgotten(c)'
      BY <3>6 DEF Forgotten
    <3>8. QED
      BY <3>7 DEF Held
  <2>4. StartFile(k)
    BY <1>2, <2>2, <2>3 DEF LineTaken
  <2>5. rcv'[k].pc = "writing" /\ rcv'[k].ev = Head(up[k]).ev
    BY <1>1, <2>1, <2>4, FileOpened
  <2>6. QED
    BY <1>1, <2>1, <2>4, <2>5
<1>3. CASE ~LineTaken(k)
  <2>1. Line(k)' # <<>> /\ Head(Line(k)') = Head(Line(k))
    <3>1. Line(k) \in Seq(Event)
      BY LineType
    <3>2. ASSUME NEW d \in Event, Lengthens(k, d) PROVE Line(k)' # <<>> /\ Head(Line(k)') = Head(Line(k))
      BY <1>1, <3>1, <3>2, ReportsFacts, HeadKept DEF Lengthens
    <3>3. QED
      BY <1>1, <1>3, <3>2, LineSteps
  <2>2. ~StartFile(k) /\ ~StartCutFile(k) /\ ~ReceivePath(k)
    BY <1>3, LineIsTaken
  <2>3. ~FinishFile(k)
    BY <1>1 DEF FinishFile
  <2>4. \A q \in Paths : ~Offer(k, q) /\ ~Return(k, q)
    BY DEF NoJoins, Offer, Return
  <2>5. rcv'[k].pc \notin {"writing", "dead"}
    <3>1. CASE Kept(k)
      BY <1>1, <3>1 DEF Kept
    <3>2. CASE OwnStep(k)
      <4>1. Idle.pc = "idle"
        BY DEF Idle
      <4>2. QED
        BY <1>0, <2>2, <2>3, <2>4, <3>2, <4>1, OwnSteps DEF OwnStep
    <3>3. QED
      BY <1>0, <3>1, <3>2, WhoseStep
  <2>6. e.src \in Held(k, c)'
    BY <1>1, <2>5, StillHeld
  <2>7. Copied(folder', e)
    <3>1. \A p \in Held(k, c)' : folder'[p] = folder[p]
      BY <2>2, <2>3, FolderHeld
    <3>2. QED
      BY <1>1, <2>6, <3>1 DEF Copied
  <2>8. QED
    BY <1>1, <2>1, <2>5, <2>6, <2>7 DEF CopyFactsNext
<1>4. QED
  BY <1>2, <1>3

\* A copy that the receiver of k broadcasts.
CopyingOf(k, c) ==
    rcv[k].pc \in {"saved", "bcast"} /\ rcv[k].ev.op = "COPY" /\ rcv[k].ev.dst \in Held(k, c) /\ folder[rcv[k].ev.dst] # Absent =>
        CopyFacts(k, c, rcv[k].ev)
DnCopying == Copying => \A c \in Clients : mode[c] = "live" => \A k \in Clients \ {c} : CopyingOf(k, c)

\* A copy that is on its way to c, with nothing behind it for the same path.
CopyOf(k, c, e, fs) ==
    e.op = "COPY" /\ e.dst \in Held(k, c) /\ folder[e.dst] # Absent /\ Calm(k, c, e.dst) /\ Quiet(fs, e.dst) =>
        CopyFacts(k, c, e) /\ ~Heading(k, c) /\ Quiet(fs, e.src)
After(es, i) == [j \in 1 .. Len(es) - i |-> es[i + j]]
DnCopy == Copying => \A c \in Clients : mode[c] = "live" =>
              \A k \in Clients \ {c} : \A i \in 1 .. Len(Pipe(c)) : CopyOf(k, c, Pipe(c)[i], After(Pipe(c), i))

LEMMA CopyingEvents ==
  ASSUME Base, NEW k \in Clients, NEW e, e \in By(k) \/ e \in Own(k) \/ e \in ByOthers(k), e.op = "COPY"
  PROVE  Copying /\ e.dst \in Files /\ e.src \in Files /\ e.src # e.dst
  BY Members DEF By, Own, ByOthers, Ordinary, Well, Copying

LEMMA StaysLive ==
  ASSUME Base, NoJoins, Copying, Next, NEW c \in Clients, mode'[c] = "live"
  PROVE  mode[c] = "live"
<1>1. ~Register(c)
  BY DEF Register, NoJoins
<1>2. QED
  BY <1>1, ModeSteps DEF Base

LEMMA CopyingStep ==
  ASSUME CopiesOwn, Base, Tidy, Trees, ContentsKept, Writing, NoJoins, Lines, DnCopying, Next
  PROVE  DnCopying'
<1>0. TypeOK /\ EventsOK /\ plan' = plan
  BY WhoChanges DEF Base, Changes
<1> SUFFICES ASSUME Copying, NEW c \in Clients, mode'[c] = "live", NEW k \in Clients \ {c},
                    rcv'[k].pc \in {"saved", "bcast"}, rcv'[k].ev.op = "COPY", rcv'[k].ev.dst \in Held(k, c)',
                    folder'[rcv'[k].ev.dst] # Absent
             PROVE  CopyFactsNext(k, c, rcv'[k].ev)
  BY <1>0 DEF DnCopying, CopyingOf, Copying, CopyFacts, CopyFactsNext, Copied
<1> DEFINE e == rcv'[k].ev
<1>1. mode[c] = "live"
  BY StaysLive
<1>2. CASE rcv[k].pc \in {"saved", "bcast"} /\ rcv[k].ev = e
  <2>1. ~StartFile(k) /\ ~ReceivePath(k) /\ ~FinishFile(k)
    BY <1>0, <1>2, OwnSteps
  <2>2. folder'[e.dst] = folder[e.dst] /\ e.dst \in Held(k, c)
    BY <2>1, FolderHeld, HeldNext
  <2>3. CopyFacts(k, c, rcv[k].ev)
    BY <1>1, <1>2, <2>2 DEF DnCopying, CopyingOf
  <2>4. CopyFacts(k, c, e)
    BY <1>2, <2>3
  <2>5. e.dst \in Held(k, c)' /\ folder[e.dst] # Absent
    BY <2>2
  <2> HIDE DEF e
  <2>6. CopyFactsNext(k, c, e)
    BY <2>1, <2>4, <2>5, CopyFactsKept
  <2>7. QED
    BY <2>6 DEF e
<1>3. CASE ReceivePath(k) /\ e = Head(up[k]).ev
  <2> DEFINE m == Head(up[k])
  <2>1. up[k] # <<>> /\ Arrives(m) /\ rcv[k].pc = "idle" /\ m \in OwnMessage(k)
    BY <1>0, <1>3, FolderSteps, OwnSteps, Heads DEF Base
  <2>2. m.ev \in Own(k) /\ m.ev.op = "COPY"
    BY <1>3, <2>1, Members
  <2>3. m.ev.src \in Held(k, c) /\ m.ev.src \in Files /\ m.ev.src # m.ev.dst /\ m.ev.dst \in Files /\ m.ev.src \in Paths
    BY <2>1, <2>2, SourceHeld, CopyingEvents, ConstantFacts
  <2>4. m.ev.src \in Held(k, c)'
    BY <2>3, StillHeld
  <2>5. /\ Line(k) # <<>> /\ Head(Line(k)) = m.ev /\ Line(k)' = Tail(Line(k)) /\ Line(k) \in Seq(Event) /\ Paired(Line(k))
    BY <1>3, LineIsTaken, LineType DEF LineTaken, Lines
  <2>6. Line(k)' # <<>> /\ Head(Line(k)').op = "NEW_FILE" /\ Head(Line(k)').dst = m.ev.dst
    BY <2>2, <2>5, CopyPaired
  <2>7. Copied(folder', m.ev)
    <3>1. Good(m) /\ folder' = Applied(folder, m) /\ Sound(folder)
      BY <2>1 DEF Arrives, Trees
    <3>2. folder'[m.ev.dst] # Absent
      BY <1>3
    <3> HIDE DEF m
    <3>3. folder'[m.ev.dst] = IF folder[m.ev.src] = Absent THEN Torn ELSE folder[m.ev.src]
      BY <2>2, <3>1, <3>2, AppliedSound
    <3>4. ~Touches(m.ev, m.ev.src)
      BY <2>2, <2>3 DEF Touches
    <3>5. folder'[m.ev.src] = folder[m.ev.src]
      BY <2>3, <3>1, <3>4, AppliedSound
    <3>6. QED
      BY <3>3, <3>5 DEF Copied
  <2>8. rcv'[k].ev = m.ev
    BY <1>3
  <2> HIDE DEF m
  <2>9. QED
    BY <2>3, <2>4, <2>6, <2>7, <2>8 DEF CopyFactsNext
<1>4. (rcv[k].pc \in {"saved", "bcast"} /\ rcv[k].ev = e) \/ (ReceivePath(k) /\ e = Head(up[k]).ev)
  <2>1. CASE Kept(k)
    BY <2>1 DEF Kept
  <2>2. CASE OwnStep(k)
    <3>1. ~StartFile(k) /\ ~StartCutFile(k) /\ ~EndBroadcast(k)
      BY <1>0, OwnSteps DEF Dead, Idle
    <3>2. ~FinishFile(k)
      <4>1. SUFFICES ASSUME FinishFile(k) PROVE FALSE
        OBVIOUS
      <4>2. rcv[k].pc = "writing" /\ (rcv'[k] = Dead(TRUE) \/ rcv'[k].ev = rcv[k].ev)
        BY <1>0, <4>1, OwnSteps
      <4>3. rcv[k].ev.op = "NEW_FILE" /\ Dead(TRUE).pc = "dead"
        BY <1>0, <4>2 DEF EventsOK, Dead
      <4>4. QED
        BY <4>2, <4>3
    <3>3. \A q \in Paths : ~Offer(k, q) /\ ~Return(k, q)
      BY DEF NoJoins, Offer, Return
    <3>4. QED
      BY <1>0, <2>2, <3>1, <3>2, <3>3, OwnSteps DEF OwnStep
  <2>3. QED
    BY <1>0, <2>1, <2>2, WhoseStep
<1>5. QED
  BY <1>2, <1>3, <1>4

LEMMA AfterFacts ==
  ASSUME NEW E, NEW es \in Seq(E)
  PROVE  /\ Len(es) \in Nat
         /\ \A i \in 1 .. Len(es) : After(es, i) \in Seq(E)
         /\ es # <<>> => Len(Tail(es)) = Len(es) - 1
         /\ es # <<>> => \A i \in 1 .. Len(Tail(es)) : /\ i + 1 \in 1 .. Len(es) /\ Tail(es)[i] = es[i + 1]
                                                       /\ After(Tail(es), i) = After(es, i + 1)
         /\ \A e \in E : /\ Len(Append(es, e)) = Len(es) + 1
                         /\ Append(es, e)[Len(es) + 1] = e /\ After(Append(es, e), Len(es) + 1) = <<>>
                         /\ \A i \in 1 .. Len(es) : /\ Append(es, e)[i] = es[i]
                                                    /\ After(Append(es, e), i) = Append(After(es, i), e)
<1>1. Len(es) \in Nat
  OBVIOUS
<1>2. ASSUME NEW i \in 1 .. Len(es) PROVE After(es, i) \in Seq(E)
  BY <1>1, <1>2 DEF After
<1>3. ASSUME es # <<>>, NEW i \in 1 .. Len(Tail(es))
      PROVE  i + 1 \in 1 .. Len(es) /\ Tail(es)[i] = es[i + 1] /\ After(Tail(es), i) = After(es, i + 1)
  <2> DEFINE fs == Tail(es)
  <2>1. Len(fs) = Len(es) - 1 /\ \A j \in 1 .. Len(es) - 1 : fs[j] = es[j + 1]
    BY <1>3
  <2>a. i \in 1 .. Len(fs)
    OBVIOUS
  <2> HIDE DEF fs
  <2>2. i + 1 \in 1 .. Len(es) /\ fs[i] = es[i + 1]
    BY <1>1, <2>1, <2>a
  <2>3. Len(fs) - i = Len(es) - (i + 1)
    BY <1>1, <2>1, <2>a
  <2>4. \A j \in 1 .. Len(fs) - i : fs[i + j] = es[(i + 1) + j]
    <3> SUFFICES ASSUME NEW j \in 1 .. Len(fs) - i PROVE fs[i + j] = es[(i + 1) + j]
      OBVIOUS
    <3>1. i + j \in 1 .. Len(es) - 1 /\ (i + j) + 1 = (i + 1) + j
      BY <1>1, <2>1, <2>a
    <3>2. QED
      BY <2>1, <3>1
  <2>5. After(fs, i) = After(es, i + 1)
    BY <2>3, <2>4 DEF After
  <2>6. QED
    BY <2>2, <2>5 DEF fs
<1>4. ASSUME NEW e \in E
      PROVE  /\ Len(Append(es, e)) = Len(es) + 1
             /\ Append(es, e)[Len(es) + 1] = e /\ After(Append(es, e), Len(es) + 1) = <<>>
             /\ \A i \in 1 .. Len(es) : /\ Append(es, e)[i] = es[i]
                                        /\ After(Append(es, e), i) = Append(After(es, i), e)
  <2> DEFINE fs == Append(es, e)
  <2>1. Len(fs) = Len(es) + 1 /\ fs[Len(es) + 1] = e /\ \A i \in 1 .. Len(es) : fs[i] = es[i]
    BY <1>1
  <2> HIDE DEF fs
  <2>2. After(fs, Len(es) + 1) = <<>>
    <3>1. Len(fs) - (Len(es) + 1) = 0
      BY <1>1, <2>1
    <3>2. After(fs, Len(es) + 1) = [j \in 1 .. 0 |-> fs[(Len(es) + 1) + j]]
      BY <3>1 DEF After
    <3>3. QED
      BY <3>2
  <2>3. ASSUME NEW i \in 1 .. Len(es) PROVE After(fs, i) = Append(After(es, i), e)
    <3> DEFINE n == Len(es) - i
               g == After(es, i)
               h == After(fs, i)
    <3>1. n \in Nat /\ Len(fs) - i = n + 1
      BY <1>1, <2>1
    <3>2. g = [j \in 1 .. n |-> es[i + j]] /\ h = [j \in 1 .. n + 1 |-> fs[i + j]]
      BY <3>1 DEF After
    <3>3. \A j \in 1 .. n : fs[i + j] = es[i + j] /\ i + j \in 1 .. Len(es)
      BY <1>1, <2>1, <3>1
    <3>4. fs[i + (n + 1)] = e
      BY <1>1, <2>1, <3>1
    <3>5. \A j \in 1 .. n : es[i + j] \in E
      BY <3>3
    <3> HIDE DEF n, g, h
    <3>6. g \in Seq(E) /\ Len(g) = n /\ \A j \in 1 .. n : g[j] = es[i + j]
      BY <3>1, <3>2, <3>5
    <3>a. Append(g, e) \in Seq(E) /\ Len(Append(g, e)) = n + 1 /\ Append(g, e)[n + 1] = e
          /\ \A j \in 1 .. n : Append(g, e)[j] = g[j]
      BY <3>1, <3>6
    <3>7. \A j \in 1 .. n + 1 : h[j] = Append(g, e)[j]
      <4> SUFFICES ASSUME NEW j \in 1 .. n + 1 PROVE h[j] = Append(g, e)[j]
        OBVIOUS
      <4>1. CASE j = n + 1
        BY <3>1, <3>2, <3>4, <3>a, <4>1
      <4>2. CASE j # n + 1
        <5>1. j \in 1 .. n
          BY <3>1, <4>2
        <5>2. QED
          <6>1. h[j] = fs[i + j]
            BY <3>2
          <6>2. fs[i + j] = es[i + j] /\ Append(g, e)[j] = g[j] /\ g[j] = es[i + j]
            BY <3>3, <3>6, <3>a, <5>1
          <6>3. QED
            BY <6>1, <6>2
      <4>3. QED
        BY <4>1, <4>2
    <3>8. h = [j \in 1 .. n + 1 |-> Append(g, e)[j]]
      BY <3>2, <3>7
    <3>9. Append(g, e) = [j \in 1 .. n + 1 |-> Append(g, e)[j]]
      <4>1. Append(g, e) = [j \in 1 .. Len(Append(g, e)) |-> Append(g, e)[j]]
        BY <3>a, SequenceIsFunction
      <4>2. QED
        BY <3>a, <4>1
    <3>10. QED
      BY <3>8, <3>9 DEF g, h
  <2>4. QED
    BY <2>1, <2>2, <2>3 DEF fs
<1>5. QED
  BY <1>1, <1>2, <1>3, <1>4

LEMMA QuietLonger ==
  ASSUME NEW es \in Seq(Event), NEW e \in Event, NEW p, Quiet(es, p), ~Touches(e, p)
  PROVE  Quiet(Append(es, e), p)
<1> DEFINE fs == Append(es, e)
<1>1. /\ Len(es) \in Nat /\ Len(fs) = Len(es) + 1 /\ fs[Len(es) + 1] = e
      /\ \A i \in 1 .. Len(es) : fs[i] = es[i]
  OBVIOUS
<1> HIDE DEF fs
<1>2. Quiet(fs, p)
  BY <1>1 DEF Quiet
<1>3. QED
  BY <1>2 DEF fs

\* The hypothesis of CopyOf and its conclusion, after a step.
LEMMA CopyOfKept ==
  ASSUME Base, Tidy, Trees, ContentsKept, Writing, NoJoins, Copying, Next, NEW c \in Clients, mode[c] = "live",
         NEW k \in Clients \ {c}, ~Enqueue(k, c), NEW e, e.dst \in Files, NEW fs,
         CopyOf(k, c, e, fs), e.op = "COPY", e.dst \in Held(k, c)', folder'[e.dst] # Absent, Quiet(fs, e.dst),
         Heading(k, c)' => ~Touches(rcv'[k].ev, e.dst)
  PROVE  CopyFactsNext(k, c, e) /\ ~Heading(k, c)' /\ Quiet(fs, e.src) /\ e.src \in Held(k, c)
<1>0. TypeOK /\ EventsOK
  BY DEF Base
<1> DEFINE p == e.dst
<1>1. Calm(k, c, p) /\ folder'[p] = folder[p] /\ p \in Held(k, c)
  <2>1. p \in Held(k, c)' /\ p \in Files
    OBVIOUS
  <2>2. Calm(k, c, p)'
    BY DEF Calm
  <2> HIDE DEF p
  <2>3. QED
    BY <2>1, <2>2, CalmBefore, HeldNext
<1>2. CopyFacts(k, c, e) /\ ~Heading(k, c) /\ Quiet(fs, e.src)
  BY <1>1 DEF CopyOf
<1>3. CopyFactsNext(k, c, e)
  <2>1. ASSUME rcv'[k].pc = "writing", rcv'[k].ev.dst = e.dst PROVE FALSE
    BY <2>1 DEF Heading, Touches
  <2>2. QED
    BY <1>1, <1>2, <2>1, CopyFactsKept
<1>4. ~Heading(k, c)'
  <2>1. ~StartFile(k)
    BY <1>0, <1>3, OwnSteps DEF CopyFactsNext, Dead
  <2>2. ~ReceivePath(k)
    <3>1. ReceivePath(k) => Head(Line(k)) = Head(up[k]).ev
      BY LineIsTaken DEF LineTaken
    <3>2. QED
      BY <1>2, <3>1 DEF CopyFacts, ReceivePath
  <2>3. ~FinishFile(k)
    BY <1>2 DEF CopyFacts, FinishFile
  <2>4. \A q \in Paths : ~Return(k, q)
    BY DEF Return, NoJoins
  <2>5. QED
    BY <1>2, <2>1, <2>2, <2>3, <2>4, HeadingSteps
<1>5. QED
  BY <1>2, <1>3, <1>4 DEF CopyFacts

LEMMA CopyStep ==
  ASSUME Base, Tidy, Trees, ContentsKept, Writing, NoJoins, DnCopying, DnCopy, Next
  PROVE  DnCopy'
<1>0. TypeOK /\ EventsOK /\ plan' = plan
  BY WhoChanges DEF Base, Changes
<1> SUFFICES ASSUME Copying, NEW c \in Clients, mode'[c] = "live", NEW k \in Clients \ {c}, NEW i \in 1 .. Len(Pipe(c)'),
                    Pipe(c)'[i].op = "COPY", Pipe(c)'[i].dst \in Held(k, c)', folder'[Pipe(c)'[i].dst] # Absent,
                    Heading(k, c)' => ~Touches(rcv'[k].ev, Pipe(c)'[i].dst), Quiet(After(Pipe(c)', i), Pipe(c)'[i].dst)
             PROVE  CopyFactsNext(k, c, Pipe(c)'[i]) /\ ~Heading(k, c)' /\ Quiet(After(Pipe(c)', i), Pipe(c)'[i].src)
  BY <1>0 DEF DnCopy, CopyOf, Copying, CopyFacts, CopyFactsNext, Copied, Calm
<1>1. mode[c] = "live"
  BY StaysLive
<1> DEFINE es == Pipe(c)
           e == Pipe(c)'[i]
           fs == After(Pipe(c)', i)
<1>2. es \in Seq(Event) /\ es \in Seq(ByOthers(c)) /\ Len(es) \in Nat
  BY PipeType
<1>3. ASSUME NEW j \in 1 .. Len(es) PROVE CopyOf(k, c, es[j], After(es, j)) /\ es[j] \in ByOthers(c)
  BY <1>1, <1>2 DEF DnCopy
<1>4. ASSUME NEW d \in ByOthers(c), d.op = "COPY" PROVE d.dst \in Files
  BY <1>4, CopyingEvents
<1>5. ASSUME ~Enqueue(k, c), e.dst \in Files, NEW gs, CopyOf(k, c, e, gs), Quiet(gs, e.dst)
      PROVE  CopyFactsNext(k, c, e) /\ ~Heading(k, c)' /\ Quiet(gs, e.src) /\ e.src \in Held(k, c)
  BY <1>1, <1>5, CopyOfKept
<1>6. CASE ClientReceive(c)
  <2>1. es # <<>> /\ Pipe(c)' = Tail(es)
    BY <1>6, PipeReceive
  <2>2. i + 1 \in 1 .. Len(es) /\ e = es[i + 1] /\ fs = After(es, i + 1)
    BY <1>2, <2>1, AfterFacts
  <2>3. CopyOf(k, c, e, fs) /\ e.dst \in Files /\ ~Enqueue(k, c)
    <3>1. rcv' = rcv
      BY <1>6 DEF ClientReceive
    <3>2. ~Enqueue(k, c)
      <4>1. Enqueue(k, c) => rcv'[k].todo = rcv[k].todo \ {c} /\ c \in rcv[k].todo
        BY <1>0, OwnSteps DEF Enqueue
      <4>2. QED
        BY <3>1, <4>1
    <3>3. QED
      BY <1>3, <1>4, <2>2, <3>2
  <2>4. Quiet(fs, e.dst)
    OBVIOUS
  <2> HIDE DEF fs, e, es
  <2>5. QED
    BY <1>5, <2>3, <2>4 DEF fs, e
<1>7. ASSUME NEW j \in Clients, Enqueue(j, c)
      PROVE  CopyFactsNext(k, c, e) /\ ~Heading(k, c)' /\ Quiet(fs, e.src)
  <2> DEFINE d == rcv[j].ev
  <2>1. Pipe(c)' = Append(es, d) /\ d \in Event /\ folder' = folder
    BY <1>1, <1>7, PipeEnqueue DEF Enqueue
  <2>2. d \in By(j)
    BY <1>0, <1>7 DEF EventsOK, Handling, Enqueue
  <2>3. Held(k, c)' \subseteq Held(k, c)
    BY HeldNext
  <2>a. /\ Len(Append(es, d)) = Len(es) + 1
        /\ Append(es, d)[Len(es) + 1] = d /\ After(Append(es, d), Len(es) + 1) = <<>>
        /\ \A l \in 1 .. Len(es) : /\ Append(es, d)[l] = es[l]
                                   /\ After(Append(es, d), l) = Append(After(es, l), d)
                                   /\ After(es, l) \in Seq(Event)
    BY <1>2, <2>1, AfterFacts
  <2>4. CASE i \in 1 .. Len(es)
    <3> DEFINE gs == After(es, i)
    <3>1. e = es[i] /\ fs = Append(gs, d) /\ gs \in Seq(Event)
      BY <2>1, <2>4, <2>a
    <3>2. CopyOf(k, c, e, gs) /\ e.dst \in Files
      BY <1>3, <1>4, <2>4, <3>1
    <3>3. Quiet(fs, e.dst) /\ e.op = "COPY" /\ e.dst \in Held(k, c) /\ folder[e.dst] # Absent
      BY <2>1, <2>3
    <3> HIDE DEF gs, d, e, fs
    <3>4. Quiet(gs, e.dst) /\ ~Touches(d, e.dst)
      BY <2>1, <3>1, <3>3, QuietAppend
    <3>5. CASE j = k
      <4>1. Heading(k, c)
        BY <1>7, <3>5 DEF Enqueue, Heading
      <4>2. Calm(k, c, e.dst)
        BY <3>4, <3>5 DEF Calm, d
      <4>3. QED
        BY <3>2, <3>3, <3>4, <4>1, <4>2 DEF CopyOf
    <3>6. CASE j # k
      <4>1. ~Enqueue(k, c)
        <5>1. Enqueue(k, c) => rcv'[k].todo = rcv[k].todo \ {c} /\ c \in rcv[k].todo /\ rcv[k].pc = "bcast"
          BY <1>0, OwnSteps DEF Enqueue
        <5>2. Kept(k)
          BY <1>0, <1>7, <3>6, OthersKept DEF OwnStep
        <5>3. QED
          BY <5>1, <5>2 DEF Kept
      <4>2. CopyFactsNext(k, c, e) /\ ~Heading(k, c)' /\ Quiet(gs, e.src) /\ e.src \in Held(k, c)
        BY <1>5, <3>2, <3>4, <4>1
      <4>3. ~Touches(d, e.src)
        BY <1>0, <2>2, <3>6, <4>2, Foreign
      <4>4. Quiet(Append(gs, d), e.src)
        BY <2>1, <3>1, <4>2, <4>3, QuietLonger
      <4>5. QED
        BY <3>1, <4>2, <4>4
    <3>7. QED
      BY <3>5, <3>6
  <2>5. CASE i = Len(es) + 1
    <3>1. e = d /\ fs = <<>>
      BY <2>1, <2>5, <2>a
    <3>2. d.op = "COPY" /\ d.dst \in Held(k, c) /\ folder[d.dst] # Absent /\ d.dst \in Held(k, c)'
      BY <2>1, <2>3, <3>1
    <3>3. j = k
      <4>1. SUFFICES ASSUME j # k PROVE FALSE
        OBVIOUS
      <4>2. ~Touches(d, d.dst)
        BY <1>0, <2>2, <3>2, <4>1, Foreign
      <4>3. QED
        BY <4>2 DEF Touches
    <3>4. rcv[k].pc = "bcast" /\ c \in rcv[k].todo /\ rcv'[k].pc = "bcast" /\ rcv'[k].todo = rcv[k].todo \ {c}
      BY <1>0, <1>7, <3>3, OwnSteps DEF Enqueue
    <3>5. CopyFacts(k, c, d)
      BY <1>1, <3>2, <3>3, <3>4 DEF DnCopying, CopyingOf
    <3>6. CopyFactsNext(k, c, d)
      BY <3>2, <3>4, <3>5, CopyFactsKept
    <3>7. ~Heading(k, c)'
      BY <3>4 DEF Heading
    <3>8. Quiet(fs, e.src)
      BY <3>1 DEF Quiet
    <3>9. QED
      BY <3>1, <3>6, <3>7, <3>8
  <2>6. QED
    BY <1>2, <2>1, <2>4, <2>5, <2>a
<1>8. ASSUME ~ClientReceive(c), \A j \in Clients : ~Enqueue(j, c)
      PROVE  CopyFactsNext(k, c, e) /\ ~Heading(k, c)' /\ Quiet(fs, e.src)
  <2>1. Pipe(c)' = es
    BY <1>8, PipeKept
  <2>2. i \in 1 .. Len(es) /\ e = es[i] /\ fs = After(es, i) /\ Quiet(fs, e.dst)
    BY <2>1
  <2>3. CopyOf(k, c, e, fs) /\ e.dst \in Files
    BY <1>3, <1>4, <2>2
  <2> HIDE DEF e, fs
  <2>4. QED
    BY <1>5, <1>8, <2>2, <2>3
<1>9. QED
  BY <1>6, <1>7, <1>8

LEMMA PipeHead ==
  ASSUME Base, NEW c \in Clients, down[c] # <<>>
  PROVE  /\ Pipe(c) # <<>> /\ Head(Pipe(c)) = Head(down[c]).ev /\ Head(Pipe(c)) = Pipe(c)[1] /\ 1 \in 1 .. Len(Pipe(c))
         /\ After(Pipe(c), 1) = Tail(Pipe(c))
<1> DEFINE xa == Evs(down[c])
           sg == Sending(c)
           q == queue[c]
           es == Pipe(c)
<1>1. /\ xa \in Seq(ByOthers(c)) /\ sg \in Seq(ByOthers(c)) /\ q \in Seq(ByOthers(c)) /\ down[c] \in Seq(Message)
      /\ es \in Seq(Event)
  BY PipeType
<1>2. xa # <<>> /\ Head(xa) = Head(down[c]).ev
  BY <1>1, EvsFacts
<1>3. es = (xa \o sg) \o q
  BY DEF Pipe
<1> HIDE DEF xa, sg, q, es
<1>4. xa \o sg \in Seq(ByOthers(c)) /\ xa \o sg # <<>> /\ Head(xa \o sg) = Head(xa)
  BY <1>1, <1>2, JoinFacts
<1> DEFINE xc == xa \o sg
<1>5. xc \in Seq(ByOthers(c)) /\ xc # <<>> /\ Head(xc) = Head(xa) /\ es = xc \o q
  BY <1>3, <1>4
<1> HIDE DEF xc
<1>6. es # <<>> /\ Head(es) = Head(xa)
  BY <1>1, <1>5, JoinFacts
<1>7. Head(es) = es[1] /\ Len(es) \in Nat \ {0} /\ Len(Tail(es)) = Len(es) - 1
      /\ \A i \in 1 .. Len(es) - 1 : Tail(es)[i] = es[i + 1]
  BY <1>1, <1>6, EventHead
<1>8. After(es, 1) = Tail(es)
  <2> DEFINE g == Tail(es)
  <2>1. g \in Seq(Event) /\ Len(g) = Len(es) - 1
    BY <1>1, <1>6, <1>7
  <2>2. \A i \in 1 .. Len(es) - 1 : g[i] = es[1 + i]
    BY <1>7
  <2> HIDE DEF g
  <2>3. g = [i \in 1 .. Len(es) - 1 |-> g[i]]
    BY <2>1, SequenceIsFunction
  <2>4. g = After(es, 1)
    BY <2>2, <2>3 DEF After
  <2>5. QED
    BY <2>4 DEF g
<1>9. 1 \in 1 .. Len(es)
  BY <1>7
<1>10. QED
  BY <1>2, <1>6, <1>7, <1>8, <1>9 DEF es

\* Everything of the three is in w.
LEMMA ThreeKept ==
  ASSUME NEW E, NEW xa \in Seq(E), NEW xb \in Seq(E), NEW xc \in Seq(E), NEW w, w = (xa \o xb) \o xc
  PROVE  /\ \A i \in 1 .. Len(xa) : i \in 1 .. Len(w) /\ w[i] = xa[i]
         /\ \A i \in 1 .. Len(xb) : Len(xa) + i \in 1 .. Len(w) /\ w[Len(xa) + i] = xb[i]
         /\ \A i \in 1 .. Len(xc) : Len(xa) + Len(xb) + i \in 1 .. Len(w) /\ w[Len(xa) + Len(xb) + i] = xc[i]
<1> DEFINE u == xa \o xb
<1>1. u \in Seq(E) /\ Len(u) = Len(xa) + Len(xb) /\ Len(xa) \in Nat /\ Len(xb) \in Nat /\ Len(xc) \in Nat
  OBVIOUS
<1>2. (\A i \in 1 .. Len(xa) : u[i] = xa[i]) /\ (\A i \in 1 .. Len(xb) : u[Len(xa) + i] = xb[i])
  OBVIOUS
<1>3. w = u \o xc
  OBVIOUS
<1> HIDE DEF u
<1>4. Len(w) = Len(u) + Len(xc)
  BY <1>1, <1>3, BothFacts
<1>5. \A i \in 1 .. Len(u) : w[i] = u[i]
  BY <1>1, <1>3, BothFacts
<1>6. \A i \in 1 .. Len(xc) : w[Len(u) + i] = xc[i]
  BY <1>1, <1>3, BothFacts
<1>7. ASSUME NEW i \in 1 .. Len(xa) PROVE i \in 1 .. Len(w) /\ w[i] = xa[i]
  <2>1. i \in 1 .. Len(u) /\ i \in 1 .. Len(w)
    BY <1>1, <1>4
  <2>2. QED
    BY <1>2, <1>5, <2>1
<1>8. ASSUME NEW i \in 1 .. Len(xb) PROVE Len(xa) + i \in 1 .. Len(w) /\ w[Len(xa) + i] = xb[i]
  <2>1. Len(xa) + i \in 1 .. Len(u) /\ Len(xa) + i \in 1 .. Len(w)
    BY <1>1, <1>4
  <2>2. QED
    BY <1>2, <1>5, <2>1
<1>9. ASSUME NEW i \in 1 .. Len(xc) PROVE Len(xa) + Len(xb) + i \in 1 .. Len(w) /\ w[Len(xa) + Len(xb) + i] = xc[i]
  <2>1. Len(u) + i = Len(xa) + Len(xb) + i /\ Len(u) + i \in 1 .. Len(w)
    BY <1>1, <1>4
  <2>2. QED
    BY <1>6, <2>1
<1>10. QED
  BY <1>7, <1>8, <1>9

LEMMA QuietParts ==
  ASSUME NEW xa \in Seq(Event), NEW xb \in Seq(Event), NEW xc \in Seq(Event), NEW w, w = (xa \o xb) \o xc, NEW p
  PROVE  Quiet(w, p) <=> Quiet(xa, p) /\ Quiet(xb, p) /\ Quiet(xc, p)
<1>1. /\ \A i \in 1 .. Len(xa) : i \in 1 .. Len(w) /\ w[i] = xa[i]
      /\ \A i \in 1 .. Len(xb) : Len(xa) + i \in 1 .. Len(w) /\ w[Len(xa) + i] = xb[i]
      /\ \A i \in 1 .. Len(xc) : Len(xa) + Len(xb) + i \in 1 .. Len(w) /\ w[Len(xa) + Len(xb) + i] = xc[i]
  BY ThreeKept
<1>2. Places(w, xa, xb, xc)
  BY ThreeJoined
<1>3. ASSUME Quiet(w, p) PROVE Quiet(xa, p) /\ Quiet(xb, p) /\ Quiet(xc, p)
  <2>1. Quiet(xa, p)
    BY <1>1, <1>3 DEF Quiet
  <2>2. Quiet(xb, p)
    BY <1>1, <1>3 DEF Quiet
  <2>3. Quiet(xc, p)
    BY <1>1, <1>3 DEF Quiet
  <2>4. QED
    BY <2>1, <2>2, <2>3
<1>4. ASSUME Quiet(xa, p), Quiet(xb, p), Quiet(xc, p) PROVE Quiet(w, p)
  BY <1>2, <1>4 DEF Quiet, Places
<1>5. QED
  BY <1>3, <1>4

LEMMA PipeParts ==
  ASSUME Base, NEW c \in Clients, NEW p, Quiet(Pipe(c), p)
  PROVE  Spares(down[c], p) /\ Quiet(queue[c], p) /\ ~(snd[c].busy /\ snd[c].ev.dst = p)
<1> DEFINE xa == Evs(down[c])
           sg == Sending(c)
           q == queue[c]
           es == Pipe(c)
<1>1. /\ xa \in Seq(Event) /\ sg \in Seq(Event) /\ q \in Seq(Event) /\ down[c] \in Seq(Message)
  <2>1. xa \in Seq(ByOthers(c)) /\ sg \in Seq(ByOthers(c)) /\ q \in Seq(ByOthers(c)) /\ down[c] \in Seq(Message)
    BY PipeType
  <2> HIDE DEF xa, sg, q
  <2>2. ByOthers(c) \subseteq Event
    BY DEF ByOthers
  <2>3. Seq(ByOthers(c)) \subseteq Seq(Event)
    BY <2>2
  <2>4. QED
    BY <2>1, <2>3
<1>2. es = (xa \o sg) \o q
  BY DEF Pipe
<1>3. Quiet(xa, p) /\ Quiet(sg, p) /\ Quiet(q, p)
  <2>1. Quiet(es, p)
    OBVIOUS
  <2> HIDE DEF xa, sg, q, es
  <2>2. QED
    BY <1>1, <1>2, <2>1, QuietParts
<1>4. Spares(down[c], p)
  <2>1. Len(xa) = Len(down[c]) /\ \A i \in 1 .. Len(down[c]) : xa[i] = down[c][i].ev
    BY <1>1, EvsFacts
  <2> HIDE DEF xa
  <2>2. QED
    BY <1>3, <2>1 DEF Spares, Quiet
<1>5. ASSUME snd[c].busy, snd[c].ev.dst = p PROVE FALSE
  <2>1. sg = <<snd[c].ev>>
    BY <1>5 DEF Sending
  <2>2. Len(sg) = 1 /\ sg[1] = snd[c].ev
    BY <2>1
  <2> HIDE DEF sg
  <2>3. ~Touches(snd[c].ev, p)
    BY <1>3, <2>2 DEF Quiet
  <2>4. QED
    BY <1>5, <2>3 DEF Touches
<1>6. QED
  BY <1>3, <1>4, <1>5

\* What a client has of a path that nothing is on its way for.
LEMMA SourceThere ==
  ASSUME Base, Tidy, DnShape, DnValue, NEW c \in Clients, mode[c] = "live", NEW k \in Clients \ {c}, ~Heading(k, c),
         NEW s \in Held(k, c), s \in Files, Quiet(Pipe(c), s)
  PROVE  copy[c][s] = folder[s]
<1>1. s \in Paths /\ Pipe(c) \in Seq(Event) /\ Len(Pipe(c)) \in Nat
  BY ConstantFacts, PipeType
<1> DEFINE P == Held(k, c)
<1>2. Through(P, P \cap Sp(copy[c]), Pipe(c)) = P \cap Sp(folder)
  BY DEF DnShape, DnShapeOf, Under
<1>3. s \in P
  OBVIOUS
<1> HIDE DEF P
<1>4. s \in Through(P, P \cap Sp(copy[c]), Pipe(c)) <=> s \in P \cap Sp(copy[c])
  BY <1>1, ThroughUntouched DEF Quiet
<1>5. copy[c][s] = Absent <=> folder[s] = Absent
  BY <1>1, <1>2, <1>3, <1>4 DEF Sp
<1>6. ASSUME folder[s] # Absent PROVE copy[c][s] \in {Absent, folder[s]}
  <2>1. Spares(down[c], s) /\ Quiet(queue[c], s) /\ ~(snd[c].busy /\ snd[c].ev.dst = s)
    BY PipeParts
  <2>2. Coming(s, folder[s], snd[c], down[c], copy[c])
    BY <1>6, <2>1 DEF DnValue, DnValueOf, Calm
  <2>3. QED
    BY <2>1, <2>2 DEF Coming
<1>7. QED
  BY <1>5, <1>6

LEMMA CopiesCome ==
  ASSUME Base, Tidy, Trees, ContentsKept, DnShape, DnValue, DnCopy
  PROVE  CopyComes
<1> DEFINE m(c) == Head(down[c])
<1> SUFFICES ASSUME NEW c \in Clients, mode[c] = "live", down[c] # <<>>, m(c).ev.op = "COPY", NEW k \in Clients \ {c},
                    m(c).ev.dst \in Held(k, c), folder[m(c).ev.dst] # Absent, Calm(k, c, m(c).ev.dst),
                    Quiet(Tail(Pipe(c)), m(c).ev.dst)
             PROVE  Applied(copy[c], m(c))[m(c).ev.dst] \in {Absent, folder[m(c).ev.dst]}
  BY DEF CopyComes
<1> DEFINE e == m(c).ev
<1>1. m(c) \in OthersMessage(c) /\ Good(m(c)) /\ e \in ByOthers(c)
  BY Heads, NoMoves, Members DEF Base
<1>2. Copying
  BY <1>1, CopyingEvents
<1>3. /\ Head(Pipe(c)) = e /\ Pipe(c)[1] = e /\ 1 \in 1 .. Len(Pipe(c)) /\ After(Pipe(c), 1) = Tail(Pipe(c))
      /\ Pipe(c) # <<>> /\ Pipe(c) \in Seq(Event)
  BY PipeHead, PipeType
<1>4. CopyOf(k, c, Pipe(c)[1], After(Pipe(c), 1))
  BY <1>2, <1>3 DEF DnCopy
<1>5. CopyOf(k, c, e, Tail(Pipe(c)))
  BY <1>3, <1>4
<1>6. CopyFacts(k, c, e) /\ ~Heading(k, c) /\ Quiet(Tail(Pipe(c)), e.src)
  BY <1>5 DEF CopyOf
<1>7. ~Touches(e, e.src)
  BY <1>6 DEF Touches, CopyFacts
<1>8. Quiet(Pipe(c), e.src)
  BY <1>3, <1>6, <1>7, QuietMore
<1>9. copy[c][e.src] = folder[e.src]
  BY <1>6, <1>8, SourceThere DEF CopyFacts
<1>10. Sound(copy[c])
  BY DEF Trees
<1>11. Applied(copy[c], m(c))[e.dst] # Absent =>
          Applied(copy[c], m(c))[e.dst] = IF copy[c][e.src] = Absent THEN Torn ELSE copy[c][e.src]
  BY <1>1, <1>10, AppliedSound
<1>12. folder[e.dst] = IF folder[e.src] = Absent THEN Torn ELSE folder[e.src]
  BY <1>6 DEF CopyFacts, Copied
<1>13. QED
  BY <1>9, <1>11, <1>12

-----------------------------------------------------------------------------
(* What the receivers are about to broadcast, in any order *)

Bound(c) == {j \in Clients \ {c} : Heading(j, c)}
ComingTo(c) == SetToSeq({rcv[j].ev : j \in Bound(c)})

\* A finite set as a sequence of its elements.
LEMMA SequenceOfSet ==
  ASSUME NEW S, IsFiniteSet(S)
  PROVE  /\ SetToSeq(S) \in Seq(S)
         /\ \A x \in S : \E i \in 1 .. Len(SetToSeq(S)) : SetToSeq(S)[i] = x
         /\ \A i, j \in 1 .. Len(SetToSeq(S)) : SetToSeq(S)[i] = SetToSeq(S)[j] => i = j
<1> DEFINE n == Cardinality(S)
           q == SetToSeq(S)
<1>1. n \in Nat /\ ExistsBijection(1 .. n, S)
  BY FS_CardinalityType
<1>2. PICK b : b \in Bijection(1 .. n, S)
  BY <1>1 DEF ExistsBijection
<1>3. b \in [1 .. n -> S] /\ IsInjective(b)
  BY <1>2 DEF Bijection, Injection
<1>4. q \in [1 .. n -> S] /\ IsInjective(q)
  BY <1>3 DEF SetToSeq
<1> HIDE DEF q
<1>5. q \in Injection(1 .. n, S)
  BY <1>4 DEF Injection
<1>6. Cardinality(1 .. n) = n
  BY <1>1, FS_Interval
<1> HIDE DEF n
<1>7. q \in Surjection(1 .. n, S)
  BY <1>5, <1>6, FS_Injection DEF n
<1>8. q \in Seq(S) /\ Len(q) = n
  BY <1>1, <1>4
<1>9. \A x \in S : \E i \in 1 .. n : q[i] = x
  BY <1>7 DEF Surjection
<1>10. \A i, j \in 1 .. n : q[i] = q[j] => i = j
  BY <1>4 DEF IsInjective
<1>11. QED
  BY <1>8, <1>9, <1>10 DEF q

LEMMA ComingFinite ==
  ASSUME NEW c \in Clients
  PROVE  IsFiniteSet({rcv[j].ev : j \in Bound(c)})
<1> DEFINE B == Bound(c)
           f == [j \in B |-> rcv[j].ev]
           T == {rcv[j].ev : j \in B}
<1>1. IsFiniteSet(B)
  <2>1. B \in SUBSET Clients
    BY DEF Bound
  <2> HIDE DEF B
  <2>2. QED
    BY <2>1, ReplicationAssumption, FS_Subset
<1> HIDE DEF B
<1>2. f \in Surjection(B, T)
  BY DEF Surjection
<1>3. IsFiniteSet(T)
  <2> HIDE DEF f, T
  <2>1. QED
    BY <1>1, <1>2, FS_Surjection
<1>4. QED
  BY <1>3 DEF B

\* What comes is what somebody broadcasts; and what somebody broadcasts comes.
LEMMA ComingFacts ==
  ASSUME Base, NEW c \in Clients
  PROVE  /\ ComingTo(c) \in Seq(ByOthers(c)) /\ ComingTo(c) \in Seq(Event) /\ Len(ComingTo(c)) \in Nat
         /\ \A i \in 1 .. Len(ComingTo(c)) :
               \E j \in Clients \ {c} : Heading(j, c) /\ ComingTo(c)[i] = rcv[j].ev /\ rcv[j].ev \in By(j)
         /\ \A k \in Clients \ {c} : Heading(k, c) => \E i \in 1 .. Len(ComingTo(c)) : ComingTo(c)[i] = rcv[k].ev
<1> DEFINE T == {rcv[j].ev : j \in Bound(c)}
           q == ComingTo(c)
<1>1. q \in Seq(T) /\ \A x \in T : \E i \in 1 .. Len(q) : q[i] = x
  BY ComingFinite, SequenceOfSet DEF ComingTo
<1>2. \A j \in Bound(c) : j \in Clients \ {c} /\ Heading(j, c) /\ rcv[j].ev \in By(j)
  BY DEF Bound, Heading, Base, EventsOK, Handling
<1>3. T \subseteq ByOthers(c)
  BY <1>2, Members DEF ByOthers
<1>4. \A k \in Clients \ {c} : Heading(k, c) => rcv[k].ev \in T
  BY DEF Bound
<1>5. \A x \in T : \E j \in Clients \ {c} : Heading(j, c) /\ x = rcv[j].ev /\ rcv[j].ev \in By(j)
  BY <1>2
<1> HIDE DEF T, q
<1>6. ByOthers(c) \subseteq Event
  BY DEF ByOthers
<1>7. q \in Seq(ByOthers(c)) /\ Len(q) \in Nat /\ \A i \in 1 .. Len(q) : q[i] \in T
  BY <1>1, <1>3, SeqGrows
<1>8. q \in Seq(Event)
  BY <1>6, <1>7, SeqGrows
<1>9. QED
  BY <1>1, <1>4, <1>5, <1>7, <1>8 DEF q

\* Of what comes, only the event of the one who edits them touches her paths.
LEMMA ComingTouches ==
  ASSUME Base, Tidy, NEW c \in Clients, NEW k \in Clients \ {c}, NEW i \in 1 .. Len(ComingTo(c))
  PROVE  \/ Heading(k, c) /\ ComingTo(c)[i] = rcv[k].ev
         \/ /\ \A p \in Held(k, c) : ~Touches(ComingTo(c)[i], p)
            /\ \A S : S \subseteq Held(k, c) => Shaped(Held(k, c), S, ComingTo(c)[i]) = S
<1>1. PICK j \in Clients \ {c} : Heading(j, c) /\ ComingTo(c)[i] = rcv[j].ev /\ rcv[j].ev \in By(j)
  BY ComingFacts
<1>2. CASE j = k
  BY <1>1, <1>2
<1>3. CASE j # k
  <2> DEFINE e == ComingTo(c)[i]
  <2>1. e \in By(j) /\ j \in Clients \ {k} /\ TypeOK
    BY <1>1, <1>3 DEF Base
  <2> HIDE DEF e
  <2>2. \A p \in Held(k, c) : ~Touches(e, p)
    BY <2>1, Foreign
  <2>3. \A S : S \subseteq Held(k, c) => Shaped(Held(k, c), S, e) = S
    BY <2>1, ForeignShape
  <2>4. QED
    BY <2>2, <2>3 DEF e
<1>4. QED
  BY <1>2, <1>3

\* Events that do all the same, or nothing.  
LEMMA ThroughDone ==
  ASSUME NEW P, P \subseteq Paths, NEW S, S \subseteq P, NEW es, Len(es) \in Nat, NEW e,
         \A i \in 1 .. Len(es) : es[i] = e \/ \A R : R \subseteq P => Shaped(P, R, es[i]) = R,
         NEW m \in 1 .. Len(es), es[m] = e
  PROVE  Through(P, S, es) = Shaped(P, S, e)
<1> DEFINE n == Len(es)
           r == Run(P, S, es)
           T == {i \in 0 .. n : r[i] \subseteq P /\ (r[i] = S \/ r[i] = Shaped(P, S, e)) /\ (m <= i => r[i] = Shaped(P, S, e))}
<1>1. n \in Nat /\ r[0] = S /\ \A i \in 1 .. n : r[i] = Shaped(P, r[i - 1], es[i])
  BY RunSteps
<1>2. /\ \A i \in 1 .. n : es[i] = e \/ \A R : R \subseteq P => Shaped(P, R, es[i]) = R
      /\ m \in 1 .. n
  OBVIOUS
<1>3. Shaped(P, Shaped(P, S, e), e) = Shaped(P, S, e) /\ Shaped(P, S, e) \subseteq P
  BY ShapedTwice, ShapedWithin
<1> HIDE DEF n, r
<1>4. 0 \in T
  BY <1>1, <1>2
<1>5. ASSUME NEW i \in 0 .. n - 1, i \in T PROVE i + 1 \in T
  <2>1. i + 1 \in 1 .. n /\ (i + 1) - 1 = i /\ i + 1 \in 0 .. n
    BY <1>1
  <2>2. r[i + 1] = Shaped(P, r[i], es[i + 1])
    BY <1>1, <2>1
  <2>3. r[i] \subseteq P /\ (r[i] = S \/ r[i] = Shaped(P, S, e)) /\ (m <= i => r[i] = Shaped(P, S, e))
    BY <1>5
  <2>4. CASE es[i + 1] = e
    BY <1>3, <2>1, <2>2, <2>3, <2>4
  <2>5. CASE es[i + 1] # e
    <3>1. r[i + 1] = r[i]
      BY <1>2, <2>1, <2>2, <2>3, <2>5
    <3>2. m <= i + 1 => m <= i
      BY <1>1, <1>2, <2>1, <2>5
    <3>3. QED
      BY <2>1, <2>3, <3>1, <3>2
  <2>6. QED
    BY <2>4, <2>5
<1>6. n \in T
  <2>1. n \in Nat /\ n \in 0 .. n
    BY <1>1
  <2> HIDE DEF T
  <2>2. \A i \in 0 .. n : i \in T
    BY <1>4, <1>5, <2>1, AllUpTo
  <2>3. QED
    BY <2>1, <2>2
<1>7. r[n] = Shaped(P, S, e)
  BY <1>1, <1>2, <1>6
<1>8. QED
  BY <1>7 DEF Through, r, n

LEMMA ComingThrough ==
  ASSUME Base, Tidy, NEW c \in Clients, NEW k \in Clients \ {c}, NEW S, S \subseteq Held(k, c)
  PROVE  Through(Held(k, c), S, ComingTo(c)) = IF Heading(k, c) THEN Shaped(Held(k, c), S, rcv[k].ev) ELSE S
<1> DEFINE P == Held(k, c)
           q == ComingTo(c)
           e == rcv[k].ev
<1>1. P \subseteq Paths /\ Len(q) \in Nat
  BY HeldFacts, ComingFacts DEF Base
<1>2. \A i \in 1 .. Len(q) : (Heading(k, c) /\ q[i] = e) \/ \A R : R \subseteq P => Shaped(P, R, q[i]) = R
  BY ComingTouches
<1>3. Heading(k, c) => \E i \in 1 .. Len(q) : q[i] = e
  BY ComingFacts
<1>4. S \subseteq P
  OBVIOUS
<1>a. q \in Seq(Event)
  BY ComingFacts
<1> HIDE DEF P, q, e
<1>5. CASE Heading(k, c)
  <2>1. PICK m \in 1 .. Len(q) : q[m] = e
    BY <1>3, <1>5
  <2>2. Through(P, S, q) = Shaped(P, S, e)
    BY <1>1, <1>2, <1>4, <2>1, ThroughDone
  <2>3. QED
    BY <1>5, <2>2 DEF P, q, e
<1>6. CASE ~Heading(k, c)
  <2>1. CASE Len(q) = 0
    <3>1. q = <<>>
      BY <1>a, <2>1
    <3>2. QED
      BY <1>6, <3>1, ThroughNone DEF P, q
  <2>2. CASE Len(q) # 0
    <3> DEFINE d == q[1]
    <3>1. 1 \in 1 .. Len(q) /\ q[1] = d
      BY <1>1, <2>2
    <3>2. \A i \in 1 .. Len(q) : q[i] = d \/ \A R : R \subseteq P => Shaped(P, R, q[i]) = R
      BY <1>2, <1>6
    <3>a. Shaped(P, S, d) = S
      BY <1>2, <1>4, <1>6, <3>1
    <3> HIDE DEF d
    <3>3. Through(P, S, q) = Shaped(P, S, d)
      BY <1>1, <1>4, <3>1, <3>2, ThroughDone
    <3>4. QED
      BY <1>6, <3>3, <3>a DEF P, q
  <2>3. QED
    BY <2>1, <2>2
<1>7. QED
  BY <1>5, <1>6

-----------------------------------------------------------------------------
(* All that is on its way to a client *)

Rest(c) == (Sending(c) \o queue[c]) \o ComingTo(c)
OnTheWay(c) == down[c] \o Reading(folder, Rest(c))

LEMMA EvsBoth ==
  ASSUME NEW ma \in Seq(Message), NEW mb \in Seq(Message)
  PROVE  Evs(ma \o mb) = Evs(ma) \o Evs(mb)
<1> DEFINE es == Evs(ma)
           fs == Evs(mb)
           ms == ma \o mb
<1>1. es \in Seq(Event) /\ Len(es) = Len(ma) /\ \A i \in 1 .. Len(ma) : es[i] = ma[i].ev
  BY EvsFacts
<1>2. fs \in Seq(Event) /\ Len(fs) = Len(mb) /\ \A i \in 1 .. Len(mb) : fs[i] = mb[i].ev
  BY EvsFacts
<1>3. /\ Len(ma) \in Nat /\ Len(mb) \in Nat /\ ms \in Seq(Message) /\ Len(ms) = Len(ma) + Len(mb)
      /\ \A i \in 1 .. Len(ma) : ms[i] = ma[i]
      /\ \A i \in 1 .. Len(mb) : ms[Len(ma) + i] = mb[i]
  BY BothFacts
<1>4. Evs(ms) = [i \in 1 .. Len(ms) |-> ms[i].ev]
  BY DEF Evs
<1>a. es \in Seq(Event) /\ fs \in Seq(Event)
  BY <1>1, <1>2
<1> HIDE DEF es, fs, ms
<1>5. /\ es \o fs \in Seq(Event) /\ Len(es \o fs) = Len(es) + Len(fs)
      /\ \A i \in 1 .. Len(es) : (es \o fs)[i] = es[i]
      /\ \A i \in 1 .. Len(fs) : (es \o fs)[Len(es) + i] = fs[i]
  BY <1>a, BothFacts
<1> DEFINE w == es \o fs
<1>6. /\ w \in Seq(Event) /\ Len(w) = Len(es) + Len(fs)
      /\ \A i \in 1 .. Len(es) : w[i] = es[i]
      /\ \A i \in 1 .. Len(fs) : w[Len(es) + i] = fs[i]
  BY <1>5
<1> HIDE DEF w
<1>7. ASSUME NEW i \in 1 .. Len(ms) PROVE w[i] = ms[i].ev
  <2>1. CASE i \in 1 .. Len(ma)
    BY <1>1, <1>3, <1>6, <2>1
  <2>2. CASE i \notin 1 .. Len(ma)
    <3>1. i - Len(ma) \in 1 .. Len(mb) /\ i = Len(ma) + (i - Len(ma))
      BY <1>3, <2>2
    <3> DEFINE l == i - Len(ma)
    <3>2. l \in 1 .. Len(mb) /\ i = Len(ma) + l
      BY <3>1
    <3> HIDE DEF l
    <3>3. QED
      BY <1>1, <1>2, <1>3, <1>6, <3>2
  <2>3. QED
    BY <2>1, <2>2
<1>8. w = [i \in 1 .. Len(w) |-> w[i]] /\ Len(w) = Len(ms)
  BY <1>1, <1>2, <1>3, <1>6, SequenceIsFunction
<1>9. w = Evs(ms)
  BY <1>4, <1>7, <1>8
<1>10. QED
  BY <1>9 DEF w, es, fs, ms

\* The events of all that is on its way to c.
LEMMA WayJoins ==
  ASSUME Base, NEW c \in Clients
  PROVE  /\ Rest(c) \in Seq(Event) /\ Evs(down[c]) \o Rest(c) = Pipe(c) \o ComingTo(c)
         /\ Len(Pipe(c) \o ComingTo(c)) = Len(Pipe(c)) + Len(ComingTo(c))
<1> DEFINE xa == Evs(down[c])
           xb == Sending(c)
           xq == queue[c]
           xc == ComingTo(c)
           es == Rest(c)
<1>1. xa \in Seq(ByOthers(c)) /\ xb \in Seq(ByOthers(c)) /\ xq \in Seq(ByOthers(c)) /\ xc \in Seq(ByOthers(c))
  BY PipeType, ComingFacts
<1>2. es = (xb \o xq) \o xc /\ Pipe(c) = (xa \o xb) \o xq
  BY DEF Rest, Pipe
<1>a. ByOthers(c) \subseteq Event
  BY DEF ByOthers
<1> HIDE DEF xa, xb, xq, xc, es
<1> DEFINE y == xb \o xq
           z == xa \o xb
<1>3. y \in Seq(ByOthers(c)) /\ z \in Seq(ByOthers(c)) /\ xa \o y = z \o xq
  BY <1>1, JoinThree
<1>4. es = y \o xc /\ Pipe(c) = z \o xq
  BY <1>2
<1> HIDE DEF y, z
<1>b. xa \in Seq(ByOthers(c)) /\ y \in Seq(ByOthers(c)) /\ xc \in Seq(ByOthers(c))
  BY <1>1, <1>3
<1>5. xa \o (y \o xc) = (xa \o y) \o xc
  BY <1>b, JoinThree
<1>6. xa \o es = Pipe(c) \o xc
  BY <1>3, <1>4, <1>5
<1>7. Pipe(c) \in Seq(ByOthers(c))
  BY PipeType
<1>8. Len(Pipe(c) \o xc) = Len(Pipe(c)) + Len(xc)
  BY <1>1, <1>7, BothFacts
<1>9. es \in Seq(ByOthers(c))
  BY <1>4, <1>b, BothFacts
<1>10. es \in Seq(Event)
  BY <1>9, <1>a, SeqGrows
<1>11. QED
  BY <1>6, <1>8, <1>10 DEF xa, xc, es

LEMMA FullDown ==
  ASSUME Base, ContentsKept, NEW c \in Clients
  PROVE  /\ down[c] \in Seq(Message) /\ Len(down[c]) \in Nat /\ \A i \in 1 .. Len(down[c]) : Good(down[c][i])
         /\ Rest(c) \in Seq({e \in Event : Plain(e)})
<1>1. down[c] \in Seq(Message) /\ down[c] \in Seq(OthersMessage(c))
  BY DEF Base, TypeOK, EventsOK
<1>2. \A i \in 1 .. Len(down[c]) : Good(down[c][i])
  BY <1>1, NoMoves
<1>3. ByOthers(c) \subseteq {e \in Event : Plain(e)}
  BY NoMoves, Members
<1> DEFINE xa == Sending(c)
           xb == queue[c]
           xc == ComingTo(c)
<1>4. xa \in Seq(ByOthers(c)) /\ xb \in Seq(ByOthers(c)) /\ xc \in Seq(ByOthers(c))
  BY PipeType, ComingFacts
<1>5. Rest(c) = (xa \o xb) \o xc
  BY DEF Rest
<1> HIDE DEF xa, xb, xc
<1>6. Rest(c) \in Seq(ByOthers(c))
  BY <1>4, <1>5
<1>7. QED
  BY <1>1, <1>2, <1>3, <1>6, SeqGrows

LEMMA WayEvents ==
  ASSUME Base, Trees, ContentsKept, NEW c \in Clients
  PROVE  /\ OnTheWay(c) \in Seq(Message) /\ Evs(OnTheWay(c)) = Pipe(c) \o ComingTo(c)
         /\ Len(OnTheWay(c)) = Len(Pipe(c)) + Len(ComingTo(c))
         /\ \A i \in 1 .. Len(OnTheWay(c)) : /\ Good(OnTheWay(c)[i])
                                             /\ i \in 1 .. Len(down[c]) => OnTheWay(c)[i] = down[c][i]
                                             /\ i \notin 1 .. Len(down[c]) /\ folder[OnTheWay(c)[i].ev.dst] # Absent =>
                                                    OnTheWay(c)[i].val = folder[OnTheWay(c)[i].ev.dst]
<1> DEFINE d == down[c]
           es == Rest(c)
           rd == Reading(folder, es)
           ms == OnTheWay(c)
<1>0. folder \in Tree
  BY DEF Base, TypeOK
<1>1. d \in Seq(Message) /\ Len(d) \in Nat /\ (\A i \in 1 .. Len(d) : Good(d[i])) /\ es \in Seq({e \in Event : Plain(e)})
  BY FullDown
<1>2. ms = d \o rd
  BY DEF OnTheWay
<1> HIDE DEF d, es
<1>3. /\ rd \in Seq(Message) /\ Evs(rd) = es /\ Len(rd) = Len(es) /\ Len(es) \in Nat /\ es \in Seq(Event)
      /\ \A i \in 1 .. Len(es) : /\ Good(rd[i]) /\ rd[i].ev = es[i]
                                 /\ folder[es[i].dst] # Absent => rd[i].val = folder[es[i].dst]
  BY <1>0, <1>1, ReadingFacts
<1> HIDE DEF rd
<1>4. /\ ms \in Seq(Message) /\ Len(ms) = Len(d) + Len(rd)
      /\ \A i \in 1 .. Len(d) : ms[i] = d[i]
      /\ \A i \in 1 .. Len(rd) : ms[Len(d) + i] = rd[i]
  <2> HIDE DEF ms
  <2>1. d \in Seq(Message) /\ rd \in Seq(Message)
    BY <1>1, <1>3
  <2>2. /\ d \o rd \in Seq(Message) /\ Len(d \o rd) = Len(d) + Len(rd)
        /\ \A i \in 1 .. Len(d) : (d \o rd)[i] = d[i]
        /\ \A i \in 1 .. Len(rd) : (d \o rd)[Len(d) + i] = rd[i]
    BY <2>1, BothFacts
  <2>3. QED
    BY <1>2, <2>2
<1>5. Evs(ms) = Evs(d) \o es
  <2> HIDE DEF ms
  <2>1. QED
    BY <1>1, <1>2, <1>3, EvsBoth
<1>6. Evs(ms) = Pipe(c) \o ComingTo(c) /\ Len(ms) = Len(Pipe(c)) + Len(ComingTo(c))
  <2>1. Evs(d) \o es = Pipe(c) \o ComingTo(c) /\ Len(Pipe(c) \o ComingTo(c)) = Len(Pipe(c)) + Len(ComingTo(c))
    BY WayJoins DEF d, es
  <2>2. Len(Evs(ms)) = Len(ms)
    BY <1>4, EvsFacts
  <2>3. QED
    BY <1>5, <2>1, <2>2
<1>7. ASSUME NEW i \in 1 .. Len(ms)
      PROVE  /\ Good(ms[i])
             /\ i \in 1 .. Len(d) => ms[i] = d[i]
             /\ i \notin 1 .. Len(d) /\ folder[ms[i].ev.dst] # Absent => ms[i].val = folder[ms[i].ev.dst]
  <2> HIDE DEF ms
  <2>1. CASE i \in 1 .. Len(d)
    BY <1>1, <1>4, <2>1
  <2>2. CASE i \notin 1 .. Len(d)
    <3> DEFINE l == i - Len(d)
    <3>1. l \in 1 .. Len(es) /\ i = Len(d) + l
      BY <1>1, <1>3, <1>4, <2>2
    <3> HIDE DEF l
    <3>2. ms[i] = rd[l]
      BY <1>3, <1>4, <3>1
    <3>3. QED
      BY <1>3, <2>2, <3>1, <3>2
  <2>3. QED
    BY <2>1, <2>2
<1>8. QED
  BY <1>4, <1>6, <1>7 DEF d

\* Where the events of the two are.
LEMMA WayPlaces ==
  ASSUME Base, Trees, ContentsKept, NEW c \in Clients
  PROVE  /\ Len(OnTheWay(c)) \in Nat /\ Len(Pipe(c)) \in Nat /\ Len(ComingTo(c)) \in Nat
         /\ \A i \in 1 .. Len(Pipe(c)) : i \in 1 .. Len(OnTheWay(c)) /\ OnTheWay(c)[i].ev = Pipe(c)[i]
         /\ \A i \in 1 .. Len(ComingTo(c)) : /\ Len(Pipe(c)) + i \in 1 .. Len(OnTheWay(c))
                                             /\ OnTheWay(c)[Len(Pipe(c)) + i].ev = ComingTo(c)[i]
<1> DEFINE xa == Pipe(c)
           xb == ComingTo(c)
           ms == OnTheWay(c)
<1>1. xa \in Seq(Event) /\ xb \in Seq(Event)
  BY PipeType, ComingFacts
<1>2. ms \in Seq(Message) /\ Evs(ms) = xa \o xb /\ Len(ms) = Len(xa) + Len(xb)
  BY WayEvents
<1> HIDE DEF xa, xb, ms
<1>3. /\ Len(xa) \in Nat /\ Len(xb) \in Nat
      /\ \A i \in 1 .. Len(xa) : (xa \o xb)[i] = xa[i]
      /\ \A i \in 1 .. Len(xb) : (xa \o xb)[Len(xa) + i] = xb[i]
  BY <1>1, BothFacts
<1>4. \A i \in 1 .. Len(ms) : Evs(ms)[i] = ms[i].ev
  BY <1>2, EvsFacts
<1>5. ASSUME NEW i \in 1 .. Len(xa) PROVE i \in 1 .. Len(ms) /\ ms[i].ev = xa[i]
  <2>1. i \in 1 .. Len(ms)
    BY <1>2, <1>3
  <2>2. QED
    BY <1>2, <1>3, <1>4, <2>1
<1>6. ASSUME NEW i \in 1 .. Len(xb) PROVE Len(xa) + i \in 1 .. Len(ms) /\ ms[Len(xa) + i].ev = xb[i]
  <2>1. Len(xa) + i \in 1 .. Len(ms)
    BY <1>2, <1>3
  <2>2. QED
    BY <1>2, <1>3, <1>4, <2>1
<1>7. QED
  BY <1>2, <1>3, <1>5, <1>6 DEF xa, xb, ms

LEMMA ThroughBoth ==
  ASSUME NEW P, NEW S, NEW xa \in Seq(Event), NEW xb \in Seq(Event)
  PROVE  Through(P, S, xa \o xb) = Through(P, Through(P, S, xa), xb)
<1> DEFINE all == xa \o xb
           m == Len(xa)
           n == Len(xb)
<1>0. Len(xa) \in Nat /\ Len(xb) \in Nat /\ m = Len(xa) /\ n = Len(xb)
  BY BothFacts
<1>1. /\ m \in Nat /\ n \in Nat /\ Len(all) = m + n
      /\ \A i \in 1 .. m : all[i] = xa[i]
      /\ \A i \in 1 .. n : all[m + i] = xb[i]
  BY BothFacts
<1> DEFINE r == Run(P, S, all)
<1>a. Through(P, S, all) = r[Len(all)]
  BY DEF Through
<1> HIDE DEF all, m, n
<1>2. r[0] = S /\ \A i \in 1 .. m + n : r[i] = Shaped(P, r[i - 1], all[i])
  <2>1. Len(all) \in Nat
    BY <1>1
  <2>2. r[0] = S /\ \A i \in 1 .. Len(all) : r[i] = Shaped(P, r[i - 1], all[i])
    BY <2>1, RunSteps
  <2>3. QED
    BY <1>1, <2>2
<1> HIDE DEF r
<1>3. r[m] = Through(P, S, xa)
  <2>1. \A i \in 1 .. m : r[i] = Shaped(P, r[i - 1], xa[i])
    <3>1. \A i \in 1 .. m : i \in 1 .. m + n
      BY <1>1
    <3>2. QED
      BY <1>1, <1>2, <3>1
  <2>2. m \in 0 .. Len(xa) /\ Len(xa) \in Nat
    BY <1>0
  <2>3. r[m] = Run(P, S, xa)[m]
    <3>1. r[0] = S
      BY <1>2
    <3>2. QED
      BY <3>1, <2>1, <2>2, RunUnique
  <2>4. QED
    BY <1>0, <2>3 DEF Through
<1> DEFINE g == [i \in 0 .. n |-> r[m + i]]
<1>4. ASSUME NEW i \in 1 .. n PROVE g[i] = Shaped(P, g[i - 1], xb[i])
  <2>1. m + i \in 1 .. m + n /\ i \in 0 .. n /\ i - 1 \in 0 .. n /\ (m + i) - 1 = m + (i - 1)
    BY <1>1
  <2>2. QED
    BY <1>1, <1>2, <2>1
<1> DEFINE start == Through(P, S, xa)
<1>5. g[0] = start /\ g[n] = r[m + n] /\ n \in 0 .. Len(xb) /\ Len(xb) \in Nat
  <2>1. 0 \in 0 .. n /\ n \in 0 .. n /\ m + 0 = m
    BY <1>1
  <2>2. g[0] = start /\ g[n] = r[m + n]
    BY <1>3, <2>1
  <2>3. QED
    BY <1>0, <2>2
<1> HIDE DEF g, start
<1>6. g[n] = Run(P, start, xb)[n]
  BY <1>4, <1>5, RunUnique
<1>7. Through(P, start, xb) = Run(P, start, xb)[n]
  BY <1>0 DEF Through
<1>8. QED
  BY <1>1, <1>5, <1>6, <1>7, <1>a DEF all, start

LEMMA PlayedSound ==
  ASSUME NEW t, Sound(t), NEW ms, Len(ms) \in Nat, \A i \in 1 .. Len(ms) : Good(ms[i])
  PROVE  \A i \in 0 .. Len(ms) : Sound(Played(t, ms)[i])
<1> DEFINE n == Len(ms)
           r == Played(t, ms)
           T == {i \in 0 .. n : Sound(r[i])}
<1>1. /\ n \in Nat /\ r[0] = t /\ \A i \in 1 .. n : r[i] = Applied(r[i - 1], ms[i])
      /\ \A i \in 1 .. n : Good(ms[i])
  BY PlaySteps
<1> HIDE DEF n, r
<1>2. 0 \in T
  BY <1>1
<1>3. ASSUME NEW i \in 0 .. n - 1, i \in T PROVE i + 1 \in T
  <2>1. i + 1 \in 1 .. n /\ (i + 1) - 1 = i /\ i + 1 \in 0 .. n
    BY <1>1
  <2>2. r[i + 1] = Applied(r[i], ms[i + 1]) /\ Good(ms[i + 1]) /\ Sound(r[i])
    BY <1>1, <1>3, <2>1
  <2>3. Sound(r[i + 1])
    BY <2>2, AppliedSound
  <2>4. QED
    BY <2>1, <2>3
<1>4. \A i \in 0 .. n : i \in T
  <2> HIDE DEF T
  <2>1. QED
    BY <1>1, <1>2, <1>3, AllUpTo
<1>5. QED
  BY <1>4 DEF n, r

\* What the rest of the messages do not touch stays.
LEMMA PlayedRest ==
  ASSUME NEW t, Sound(t), NEW ms, Len(ms) \in Nat, \A i \in 1 .. Len(ms) : Good(ms[i]),
         NEW m \in 0 .. Len(ms), NEW p \in Paths, \A i \in m + 1 .. Len(ms) : ~Touches(ms[i].ev, p)
  PROVE  Play(t, ms)[p] = Played(t, ms)[m][p]
<1> DEFINE n == Len(ms)
           r == Played(t, ms)
           T == {i \in 0 .. n : m <= i => r[i][p] = r[m][p]}
<1>1. /\ n \in Nat /\ r[0] = t /\ \A i \in 1 .. n : r[i] = Applied(r[i - 1], ms[i])
      /\ \A i \in 1 .. n : Good(ms[i])
      /\ Play(t, ms) = r[n]
  BY PlaySteps
<1>2. \A i \in 0 .. n : Sound(r[i])
  BY PlayedSound
<1>3. m \in 0 .. n /\ \A i \in m + 1 .. n : ~Touches(ms[i].ev, p)
  OBVIOUS
<1> HIDE DEF n, r
<1>4. 0 \in T
  BY <1>1, <1>3
<1>5. ASSUME NEW i \in 0 .. n - 1, i \in T PROVE i + 1 \in T
  <2>1. i + 1 \in 1 .. n /\ (i + 1) - 1 = i /\ i + 1 \in 0 .. n /\ i \in 0 .. n
    BY <1>1
  <2>2. r[i + 1] = Applied(r[i], ms[i + 1]) /\ Good(ms[i + 1]) /\ Sound(r[i])
    BY <1>1, <1>2, <2>1
  <2>3. CASE m = i + 1
    BY <2>1, <2>3
  <2>4. CASE m > i + 1
    BY <1>3, <2>1, <2>4
  <2>5. CASE m <= i
    <3>1. i + 1 \in m + 1 .. n
      BY <1>3, <2>1, <2>5
    <3>2. r[i + 1][p] = r[i][p]
      BY <1>3, <2>2, <3>1, AppliedSound
    <3>3. QED
      BY <1>5, <2>1, <2>5, <3>2
  <2>6. QED
    BY <1>3, <2>1, <2>3, <2>4, <2>5
<1>6. n \in T
  <2>1. n \in Nat /\ n \in 0 .. n
    BY <1>1
  <2> HIDE DEF T
  <2>2. \A i \in 0 .. n : i \in T
    BY <1>4, <1>5, <2>1, AllUpTo
  <2>3. QED
    BY <2>1, <2>2
<1>7. QED
  BY <1>1, <1>3, <1>6 DEF r

\* The last message about p is a copy, and none after it is about what it copies.
LEMMA PlayCopy ==
  ASSUME NEW t, Sound(t), NEW ms, Len(ms) \in Nat, \A i \in 1 .. Len(ms) : Good(ms[i]),
         NEW m \in 1 .. Len(ms), NEW p, NEW s, ms[m].ev.op = "COPY", ms[m].ev.dst = p, ms[m].ev.src = s,
         \A i \in m + 1 .. Len(ms) : ~Touches(ms[i].ev, p) /\ ~Touches(ms[i].ev, s)
  PROVE  Play(t, ms)[p] # Absent =>
            Play(t, ms)[p] = IF Play(t, ms)[s] = Absent THEN Torn ELSE Play(t, ms)[s]
<1> DEFINE r == Played(t, ms)
<1>1. Good(ms[m]) /\ p \in Paths /\ s \in Paths /\ s # p
  BY ConstantFacts DEF Good, Plain, Well
<1>2. m \in 0 .. Len(ms) /\ m - 1 \in 0 .. Len(ms)
  OBVIOUS
<1>3. r[m] = Applied(r[m - 1], ms[m]) /\ Sound(r[m - 1])
  BY <1>2, PlaySteps, PlayedSound
<1>4. Play(t, ms)[p] = r[m][p] /\ Play(t, ms)[s] = r[m][s]
  BY <1>1, <1>2, PlayedRest
<1> HIDE DEF r
<1>5. r[m][s] = r[m - 1][s]
  <2>1. ~Touches(ms[m].ev, s)
    BY <1>1 DEF Touches
  <2>2. QED
    BY <1>1, <1>3, <2>1, AppliedSound
<1>6. r[m][p] # Absent => r[m][p] = IF r[m - 1][s] = Absent THEN Torn ELSE r[m - 1][s]
  BY <1>1, <1>3, AppliedSound
<1>7. QED
  BY <1>4, <1>5, <1>6

-----------------------------------------------------------------------------
(* What it says of a client's folder once everything has arrived *)

LEMMA WayShape ==
  ASSUME Base, Tidy, Trees, ContentsKept, DnShape, NEW c \in Clients, mode[c] = "live", NEW k \in Clients \ {c}
  PROVE  /\ Sound(Play(copy[c], OnTheWay(c)))
         /\ Held(k, c) \cap Sp(Play(copy[c], OnTheWay(c))) = Held(k, c) \cap Sp(folder)
<1> DEFINE P == Held(k, c)
           ms == OnTheWay(c)
           t == copy[c]
           xa == Pipe(c)
           xb == ComingTo(c)
           S == P \cap Sp(t)
<1>1. WithParents(P) /\ P \subseteq Paths
  BY HeldFacts DEF Base
<1>2. Sound(t)
  BY DEF Trees
<1>3. ms \in Seq(Message) /\ (\A i \in 1 .. Len(ms) : Good(ms[i])) /\ Evs(ms) = xa \o xb
  BY WayEvents
<1>4. xa \in Seq(Event) /\ xb \in Seq(Event) /\ Len(xa) \in Nat
  BY PipeType, ComingFacts
<1>5. Under(P, t, xa, Heading(k, c), rcv[k].ev, folder)
  BY DEF DnShape, DnShapeOf
<1>a. S \subseteq P
  OBVIOUS
<1> HIDE DEF ms
<1>6. Sound(Play(t, ms)) /\ P \cap Sp(Play(t, ms)) = Through(P, S, Evs(ms))
  <2> HIDE DEF P, t
  <2>1. QED
    BY <1>1, <1>2, <1>3, PlayShape
<1> DEFINE R == Through(P, S, xa)
<1>7. R \subseteq P
  <2> HIDE DEF P, S, xa
  <2>1. QED
    BY <1>4, <1>a, ThroughWithin
<1>8. Through(P, S, xa \o xb) = Through(P, R, xb)
  <2> HIDE DEF P, S, xa, xb
  <2>1. QED
    BY <1>4, ThroughBoth
<1>9. Through(P, R, xb) = IF Heading(k, c) THEN Shaped(P, R, rcv[k].ev) ELSE R
  <2> HIDE DEF R
  <2>1. QED
    BY <1>7, ComingThrough
<1>10. P \cap Sp(Play(t, ms)) = P \cap Sp(folder)
  BY <1>3, <1>5, <1>6, <1>8, <1>9 DEF Under
<1>11. QED
  BY <1>6, <1>10 DEF ms

\* A copy that is the last about a file is as fresh as it is in the server's folder.
LEMMA CopyIsFresh ==
  ASSUME Base, Tidy, Trees, ContentsKept, DnCopy, DnCopying, NEW c \in Clients, mode[c] = "live", NEW k \in Clients \ {c},
         NEW p \in Held(k, c), folder[p] # Absent,
         NEW m \in 1 .. Len(OnTheWay(c)), OnTheWay(c)[m].ev.op = "COPY", OnTheWay(c)[m].ev.dst = p,
         \A i \in m + 1 .. Len(OnTheWay(c)) : ~Touches(OnTheWay(c)[i].ev, p)
  PROVE  /\ CopyFacts(k, c, OnTheWay(c)[m].ev)
         /\ \A i \in m + 1 .. Len(OnTheWay(c)) : ~Touches(OnTheWay(c)[i].ev, OnTheWay(c)[m].ev.src)
<1> DEFINE ms == OnTheWay(c)
           xa == Pipe(c)
           xb == ComingTo(c)
           e == ms[m].ev
           la == Len(xa)
<1>1. /\ Len(ms) \in Nat /\ la \in Nat /\ Len(xb) \in Nat /\ Len(ms) = la + Len(xb)
      /\ \A i \in 1 .. la : i \in 1 .. Len(ms) /\ ms[i].ev = xa[i]
      /\ \A i \in 1 .. Len(xb) : la + i \in 1 .. Len(ms) /\ ms[la + i].ev = xb[i]
  BY WayPlaces, WayEvents
<1>2. xa \in Seq(ByOthers(c)) /\ xb \in Seq(ByOthers(c))
  BY PipeType, ComingFacts
<1>3. \A i \in 1 .. Len(xb) : \/ Heading(k, c) /\ xb[i] = rcv[k].ev
                              \/ \A q \in Held(k, c) : ~Touches(xb[i], q)
  BY ComingTouches
<1>4. Heading(k, c) => \E i \in 1 .. Len(xb) : xb[i] = rcv[k].ev
  BY ComingFacts
<1>5. e.op = "COPY" /\ e.dst = p /\ m \in 1 .. Len(ms) /\ \A i \in m + 1 .. Len(ms) : ~Touches(ms[i].ev, p)
  OBVIOUS
<1>6. \A i \in 1 .. Len(ms) : i \notin 1 .. la => i - la \in 1 .. Len(xb) /\ ms[i].ev = xb[i - la]
  <2> SUFFICES ASSUME NEW i \in 1 .. Len(ms), i \notin 1 .. la PROVE i - la \in 1 .. Len(xb) /\ ms[i].ev = xb[i - la]
    OBVIOUS
  <2> DEFINE l == i - la
  <2> HIDE DEF ms, xa, xb, la
  <2>1. l \in 1 .. Len(xb) /\ i = la + l
    BY <1>1
  <2> HIDE DEF l
  <2>2. ms[i].ev = xb[l]
    BY <1>1, <2>1
  <2>3. QED
    BY <2>1, <2>2 DEF l
<1>b. la = Len(xa)
  OBVIOUS
<1> HIDE DEF ms, xa, xb, la
<1>7. e \in ByOthers(c)
  <2>1. CASE m \in 1 .. la
    BY <1>1, <1>2, <1>5, <1>b, <2>1
  <2>2. CASE m \notin 1 .. la
    BY <1>2, <1>5, <1>6, <2>2
  <2>3. QED
    BY <2>1, <2>2
<1>8. Copying
  BY <1>5, <1>7, CopyingEvents
<1>9. CASE m \in 1 .. la
  <2> DEFINE fs == After(xa, m)
  <2>1. fs = [j \in 1 .. la - m |-> xa[m + j]] /\ fs \in Seq(ByOthers(c)) /\ Len(fs) = la - m
    <3>1. fs \in Seq(ByOthers(c))
      BY <1>2, <1>9, <1>b, AfterFacts
    <3>2. fs = [j \in 1 .. la - m |-> xa[m + j]]
      BY <1>b DEF After
    <3>3. la - m \in Nat
      BY <1>1, <1>9
    <3> HIDE DEF fs
    <3>4. Len(fs) = la - m
      BY <3>1, <3>2, <3>3
    <3>5. QED
      BY <3>1, <3>2, <3>4
  <2> HIDE DEF fs
  <2>2. \A j \in 1 .. la - m : m + j \in 1 .. la /\ m + j \in m + 1 .. Len(ms) /\ fs[j] = xa[m + j]
    BY <1>1, <1>9, <2>1
  <2>3. Quiet(fs, p)
    BY <1>1, <1>5, <2>1, <2>2 DEF Quiet
  <2>4. Calm(k, c, p)
    <3> SUFFICES ASSUME Heading(k, c) PROVE ~Touches(rcv[k].ev, p)
      BY DEF Calm
    <3>1. PICK i \in 1 .. Len(xb) : xb[i] = rcv[k].ev
      BY <1>4
    <3>2. la + i \in m + 1 .. Len(ms) /\ ms[la + i].ev = rcv[k].ev
      BY <1>1, <1>9, <3>1
    <3>3. QED
      BY <1>5, <3>2
  <2>5. e = xa[m]
    BY <1>1, <1>9
  <2>6. CopyOf(k, c, xa[m], After(xa, m))
    BY <1>8, <1>9, <1>b DEF DnCopy, xa
  <2>7. CopyFacts(k, c, e) /\ ~Heading(k, c) /\ Quiet(fs, e.src)
    BY <1>5, <2>3, <2>4, <2>5, <2>6 DEF CopyOf, fs
  <2>8. e.src \in Held(k, c)
    BY <2>7 DEF CopyFacts
  <2> HIDE DEF e
  <2>9. ASSUME NEW i \in m + 1 .. Len(ms) PROVE ~Touches(ms[i].ev, e.src)
    <3>1. CASE i \in 1 .. la
      <4> DEFINE j == i - m
      <4>1. j \in 1 .. la - m /\ i = m + j
        BY <1>1, <1>9, <3>1
      <4> HIDE DEF j
      <4>2. ms[i].ev = fs[j]
        BY <1>1, <2>2, <3>1, <4>1
      <4>3. QED
        BY <2>1, <2>7, <4>1, <4>2 DEF Quiet
    <3>2. CASE i \notin 1 .. la
      <4>1. i \in 1 .. Len(ms)
        BY <1>1, <1>9
      <4>2. QED
        BY <1>3, <1>6, <2>7, <2>8, <3>2, <4>1
    <3>3. QED
      BY <3>1, <3>2
  <2>10. QED
    BY <2>7, <2>9 DEF e, ms
<1>10. CASE m \notin 1 .. la
  <2>1. m - la \in 1 .. Len(xb) /\ e = xb[m - la]
    BY <1>5, <1>6, <1>10
  <2>2. Touches(e, p)
    BY <1>5 DEF Touches
  <2>3. Heading(k, c) /\ e = rcv[k].ev
    BY <1>3, <2>1, <2>2
  <2>4. rcv[k].pc \in {"saved", "bcast"}
    BY <1>5, <2>3 DEF Heading, Base, EventsOK
  <2>5. CopyFacts(k, c, e)
    BY <1>5, <1>8, <2>3, <2>4 DEF DnCopying, CopyingOf
  <2>6. e.src \in Held(k, c) /\ ~Touches(e, e.src)
    BY <1>5, <2>5 DEF CopyFacts, Touches
  <2> HIDE DEF e
  <2>7. ASSUME NEW i \in m + 1 .. Len(ms) PROVE ~Touches(ms[i].ev, e.src)
    <3>1. i \in 1 .. Len(ms) /\ i \notin 1 .. la
      BY <1>1, <1>5, <1>10
    <3>2. i - la \in 1 .. Len(xb) /\ ms[i].ev = xb[i - la]
      BY <1>6, <3>1
    <3>3. QED
      BY <1>3, <2>3, <2>6, <3>2
  <2>8. QED
    BY <2>5, <2>7 DEF e, ms
<1>11. QED
  BY <1>9, <1>10

LEMMA PipePlaces ==
  ASSUME Base, NEW c \in Clients
  PROVE  /\ Len(down[c]) \in Nat /\ Len(Sending(c)) \in Nat /\ Len(queue[c]) \in Nat
         /\ \A i \in 1 .. Len(down[c]) : i \in 1 .. Len(Pipe(c)) /\ Pipe(c)[i] = down[c][i].ev
         /\ \A i \in 1 .. Len(Sending(c)) : Len(down[c]) + i \in 1 .. Len(Pipe(c)) /\ Pipe(c)[Len(down[c]) + i] = Sending(c)[i]
         /\ \A i \in 1 .. Len(queue[c]) : /\ Len(down[c]) + Len(Sending(c)) + i \in 1 .. Len(Pipe(c))
                                          /\ Pipe(c)[Len(down[c]) + Len(Sending(c)) + i] = queue[c][i]
<1> DEFINE xa == Evs(down[c])
           xb == Sending(c)
           xc == queue[c]
           w == Pipe(c)
<1>1. xa \in Seq(ByOthers(c)) /\ xb \in Seq(ByOthers(c)) /\ xc \in Seq(ByOthers(c)) /\ down[c] \in Seq(Message)
  BY PipeType
<1>2. w = (xa \o xb) \o xc
  BY DEF Pipe
<1>3. Len(xa) = Len(down[c]) /\ \A i \in 1 .. Len(down[c]) : xa[i] = down[c][i].ev
  BY <1>1, EvsFacts
<1> HIDE DEF xa, xb, xc, w
<1>4. /\ \A i \in 1 .. Len(xa) : i \in 1 .. Len(w) /\ w[i] = xa[i]
      /\ \A i \in 1 .. Len(xb) : Len(xa) + i \in 1 .. Len(w) /\ w[Len(xa) + i] = xb[i]
      /\ \A i \in 1 .. Len(xc) : Len(xa) + Len(xb) + i \in 1 .. Len(w) /\ w[Len(xa) + Len(xb) + i] = xc[i]
  BY <1>1, <1>2, ThreeKept
<1>5. Len(xa) \in Nat /\ Len(xb) \in Nat /\ Len(xc) \in Nat
  BY <1>1
<1>6. QED
  BY <1>3, <1>4, <1>5 DEF xb, xc, w

\* When nothing after the first m messages, all of them sent, is about p.
LEMMA RestQuiet ==
  ASSUME Base, Trees, ContentsKept, NEW c \in Clients, NEW k \in Clients \ {c}, NEW m \in 0 .. Len(down[c]), NEW p,
         \A i \in m + 1 .. Len(OnTheWay(c)) : ~Touches(OnTheWay(c)[i].ev, p)
  PROVE  /\ Calm(k, c, p) /\ Quiet(queue[c], p) /\ ~(snd[c].busy /\ snd[c].ev.dst = p)
         /\ \A i \in m + 1 .. Len(down[c]) : ~Touches(down[c][i].ev, p)
<1> DEFINE ms == OnTheWay(c)
           w == Pipe(c)
           xb == ComingTo(c)
           d == down[c]
           sg == Sending(c)
           q == queue[c]
<1>1. /\ Len(ms) \in Nat /\ Len(w) \in Nat /\ Len(xb) \in Nat
      /\ \A i \in 1 .. Len(w) : i \in 1 .. Len(ms) /\ ms[i].ev = w[i]
      /\ \A i \in 1 .. Len(xb) : Len(w) + i \in 1 .. Len(ms) /\ ms[Len(w) + i].ev = xb[i]
  BY WayPlaces
<1>2. /\ Len(d) \in Nat /\ Len(sg) \in Nat /\ Len(q) \in Nat
      /\ \A i \in 1 .. Len(d) : i \in 1 .. Len(w) /\ w[i] = d[i].ev
      /\ \A i \in 1 .. Len(sg) : Len(d) + i \in 1 .. Len(w) /\ w[Len(d) + i] = sg[i]
      /\ \A i \in 1 .. Len(q) : Len(d) + Len(sg) + i \in 1 .. Len(w) /\ w[Len(d) + Len(sg) + i] = q[i]
  BY PipePlaces
<1>3. Heading(k, c) => \E i \in 1 .. Len(xb) : xb[i] = rcv[k].ev
  BY ComingFacts
<1>4. m \in 0 .. Len(d) /\ \A i \in m + 1 .. Len(ms) : ~Touches(ms[i].ev, p)
  OBVIOUS
<1>a. snd[c].busy => Len(sg) = 1 /\ sg[1] = snd[c].ev
  BY DEF Sending
<1> HIDE DEF ms, w, xb, d, sg, q
<1>5. Len(d) <= Len(w)
  <2>1. CASE Len(d) = 0
    BY <1>1, <2>1
  <2>2. CASE Len(d) # 0
    <3>1. Len(d) \in 1 .. Len(d)
      BY <1>2, <2>2
    <3>2. QED
      BY <1>1, <1>2, <3>1
  <2>3. QED
    BY <2>1, <2>2
<1>6. ASSUME NEW i \in m + 1 .. Len(w) PROVE ~Touches(w[i], p)
  <2>1. i \in 1 .. Len(w) /\ i \in m + 1 .. Len(ms)
    <3>1. i \in 1 .. Len(w)
      BY <1>2, <1>4
    <3>2. i \in 1 .. Len(ms)
      BY <1>1, <3>1
    <3>3. QED
      BY <1>1, <1>2, <1>4, <3>1, <3>2
  <2>2. QED
    BY <1>1, <1>4, <2>1
<1>7. Calm(k, c, p)
  <2> SUFFICES ASSUME Heading(k, c) PROVE ~Touches(rcv[k].ev, p)
    BY DEF Calm
  <2>1. PICK i \in 1 .. Len(xb) : xb[i] = rcv[k].ev
    BY <1>3
  <2>2. Len(w) + i \in m + 1 .. Len(ms) /\ ms[Len(w) + i].ev = rcv[k].ev
    BY <1>1, <1>2, <1>4, <1>5, <2>1
  <2>3. QED
    BY <1>4, <2>2
<1>8. Quiet(q, p)
  <2> SUFFICES ASSUME NEW i \in 1 .. Len(q) PROVE ~Touches(q[i], p)
    BY DEF Quiet
  <2>1. Len(d) + Len(sg) + i \in m + 1 .. Len(w) /\ w[Len(d) + Len(sg) + i] = q[i]
    BY <1>1, <1>2, <1>4
  <2>2. QED
    BY <1>6, <2>1
<1>9. ASSUME snd[c].busy, snd[c].ev.dst = p PROVE FALSE
  <2>a. Len(sg) = 1 /\ sg[1] = snd[c].ev
    BY <1>9, <1>a
  <2>1. 1 \in 1 .. Len(sg) /\ sg[1] = snd[c].ev
    BY <2>a
  <2>2. Len(d) + 1 \in m + 1 .. Len(w) /\ w[Len(d) + 1] = snd[c].ev
    BY <1>1, <1>2, <1>4, <2>1
  <2>3. QED
    BY <1>6, <1>9, <2>2 DEF Touches
<1>10. ASSUME NEW i \in m + 1 .. Len(d) PROVE ~Touches(d[i].ev, p)
  <2>1. i \in 1 .. Len(d)
    BY <1>2, <1>4
  <2>2. i \in m + 1 .. Len(w) /\ w[i] = d[i].ev
    BY <1>1, <1>2, <1>4, <2>1
  <2>3. QED
    BY <1>6, <2>2
<1>11. QED
  BY <1>7, <1>8, <1>9, <1>10 DEF d, q

\* A file about which the last message is not a copy.
LEMMA PlainArrives ==
  ASSUME Base, Tidy, Trees, ContentsKept, DnShape, DnValue, NEW c \in Clients, mode[c] = "live", NEW k \in Clients \ {c},
         NEW p \in Held(k, c), p \in Files,
         \A m \in 1 .. Len(OnTheWay(c)) :
             Touches(OnTheWay(c)[m].ev, p) /\ (\A i \in m + 1 .. Len(OnTheWay(c)) : ~Touches(OnTheWay(c)[i].ev, p)) =>
                 OnTheWay(c)[m].ev.op # "COPY"
  PROVE  Play(copy[c], OnTheWay(c))[p] = folder[p]
<1> DEFINE ms == OnTheWay(c)
           v == folder[p]
           d == down[c]
<1>1. Sound(Play(copy[c], ms)) /\ Held(k, c) \cap Sp(Play(copy[c], ms)) = Held(k, c) \cap Sp(folder) /\ p \in Paths
  BY WayShape, ConstantFacts
<1>2. Play(copy[c], ms)[p] = Absent <=> v = Absent
  BY <1>1 DEF Sp
<1>3. /\ ms \in Seq(Message) /\ Len(d) \in Nat /\ Sound(copy[c])
      /\ \A i \in 1 .. Len(ms) : /\ Good(ms[i])
                                 /\ i \in 1 .. Len(d) => ms[i] = d[i]
                                 /\ i \notin 1 .. Len(d) /\ folder[ms[i].ev.dst] # Absent => ms[i].val = folder[ms[i].ev.dst]
  BY WayEvents, PipePlaces DEF Trees
<1>4. \A m \in 1 .. Len(ms) :
          Touches(ms[m].ev, p) /\ (\A i \in m + 1 .. Len(ms) : ~Touches(ms[i].ev, p)) => ms[m].ev.op # "COPY"
  OBVIOUS
<1>5. \A m \in 0 .. Len(d) : (\A i \in m + 1 .. Len(ms) : ~Touches(ms[i].ev, p)) =>
          /\ Calm(k, c, p) /\ Quiet(queue[c], p) /\ ~(snd[c].busy /\ snd[c].ev.dst = p)
          /\ \A i \in m + 1 .. Len(d) : ~Touches(d[i].ev, p)
  BY RestQuiet
<1> HIDE DEF ms
<1>6. ASSUME v # Absent PROVE Play(copy[c], ms)[p] \in {Absent, v}
  <2>1. Calm(k, c, p) /\ Quiet(queue[c], p) /\ ~(snd[c].busy /\ snd[c].ev.dst = p) =>
            Brings(d, p, v) /\ (Spares(d, p) => copy[c][p] \in {Absent, v})
    BY <1>6 DEF DnValue, DnValueOf, Coming
  <2> HIDE DEF d
  <2>2. Gives(ms, p, v)
    <3> SUFFICES ASSUME NEW i \in 1 .. Len(ms), Touches(ms[i].ev, p), \A j \in i + 1 .. Len(ms) : ~Touches(ms[j].ev, p)
                 PROVE  ms[i].ev.op = "DELETE" \/ (ms[i].ev.op = "NEW_FILE" /\ ms[i].val = v)
      BY DEF Gives
    <3> DEFINE e == ms[i].ev
    <3>1. Plain(e) /\ e.op # "COPY"
      BY <1>3, <1>4 DEF Good
    <3>2. e.op \in {"NEW_FILE", "DELETE"} /\ (e.op = "NEW_FILE" => e.dst = p)
      <4>1. Touches(e, p)
        OBVIOUS
      <4> HIDE DEF e
      <4>2. QED
        BY <3>1, <4>1, ConstantFacts DEF Plain, Well, Touches, Event, Events
    <3>3. CASE i \in 1 .. Len(d)
      <4>1. i \in 0 .. Len(d)
        BY <3>3
      <4>2. /\ Calm(k, c, p) /\ Quiet(queue[c], p) /\ ~(snd[c].busy /\ snd[c].ev.dst = p)
            /\ \A j \in i + 1 .. Len(d) : ~Touches(d[j].ev, p)
        BY <1>5, <4>1
      <4>3. ms[i] = d[i] /\ Brings(d, p, v)
        BY <1>3, <2>1, <3>3, <4>2
      <4>4. d[i].ev.op \in {"DELETE", "COPY"} \/ (d[i].ev.op = "NEW_FILE" /\ d[i].val = v)
        BY <3>3, <4>2, <4>3 DEF Brings
      <4>5. QED
        BY <3>1, <4>3, <4>4
    <3>4. CASE i \notin 1 .. Len(d)
      BY <1>3, <1>6, <3>2, <3>4
    <3>5. QED
      BY <3>3, <3>4
  <2>3. Spares(ms, p) => copy[c][p] \in {Absent, v}
    <3> SUFFICES ASSUME Spares(ms, p) PROVE copy[c][p] \in {Absent, v}
      OBVIOUS
    <3>1. 0 \in 0 .. Len(d) /\ \A i \in 0 + 1 .. Len(ms) : ~Touches(ms[i].ev, p)
      BY <1>3 DEF Spares
    <3>2. /\ Calm(k, c, p) /\ Quiet(queue[c], p) /\ ~(snd[c].busy /\ snd[c].ev.dst = p)
          /\ \A i \in 0 + 1 .. Len(d) : ~Touches(d[i].ev, p)
      BY <1>5, <3>1
    <3>3. Spares(d, p)
      BY <3>2 DEF Spares
    <3>4. QED
      BY <2>1, <3>2, <3>3
  <2> HIDE DEF v
  <2>4. QED
    BY <1>3, <2>2, <2>3, PlayGives
<1>7. QED
  BY <1>2, <1>6 DEF ms

\* Any file of k's.
LEMMA FileArrives ==
  ASSUME Base, Tidy, Trees, ContentsKept, DnShape, DnValue, DnCopy, DnCopying, NEW c \in Clients, mode[c] = "live",
         NEW k \in Clients \ {c}, NEW p \in Held(k, c), p \in Files
  PROVE  Play(copy[c], OnTheWay(c))[p] = folder[p]
<1> DEFINE ms == OnTheWay(c)
           L(m, q) == /\ m \in 1 .. Len(ms) /\ ms[m].ev.op = "COPY" /\ Touches(ms[m].ev, q)
                      /\ \A i \in m + 1 .. Len(ms) : ~Touches(ms[i].ev, q)
<1>1. \A q \in Held(k, c) : q \in Files /\ (\A m \in 1 .. Len(ms) : ~L(m, q)) => Play(copy[c], ms)[q] = folder[q]
  BY PlainArrives
<1>2. CASE \A m \in 1 .. Len(ms) : ~L(m, p)
  BY <1>1, <1>2
<1>3. CASE \E m \in 1 .. Len(ms) : L(m, p)
  <2>1. PICK m \in 1 .. Len(ms) : L(m, p)
    BY <1>3
  <2> DEFINE e == ms[m].ev
             s == e.src
  <2>2. e.op = "COPY" /\ e.dst = p
    BY <2>1 DEF Touches
  <2>3. Sound(Play(copy[c], ms)) /\ (Play(copy[c], ms)[p] = Absent <=> folder[p] = Absent)
    BY WayShape, ConstantFacts DEF Sp
  <2>4. CASE folder[p] = Absent
    BY <2>3, <2>4
  <2>5. CASE folder[p] # Absent
    <3>1. CopyFacts(k, c, e) /\ \A i \in m + 1 .. Len(ms) : ~Touches(ms[i].ev, s)
      BY <2>1, <2>2, <2>5, CopyIsFresh
    <3>2. s \in Held(k, c) /\ s \in Files /\ s # p /\ Head(Line(k)).dst = p
          /\ folder[p] = IF folder[s] = Absent THEN Torn ELSE folder[s]
      BY <2>2, <3>1 DEF CopyFacts, Copied
    <3>3. Sound(copy[c]) /\ Len(ms) \in Nat /\ \A i \in 1 .. Len(ms) : Good(ms[i])
      BY WayEvents, WayPlaces DEF Trees
    <3>4. Play(copy[c], ms)[p] # Absent =>
              Play(copy[c], ms)[p] = IF Play(copy[c], ms)[s] = Absent THEN Torn ELSE Play(copy[c], ms)[s]
      <4>1. \A i \in m + 1 .. Len(ms) : ~Touches(ms[i].ev, p) /\ ~Touches(ms[i].ev, s)
        BY <2>1, <3>1
      <4> HIDE DEF ms, L
      <4>2. QED
        BY <2>2, <3>3, <4>1, PlayCopy
    <3>5. Play(copy[c], ms)[s] = folder[s]
      <4>1. CASE folder[s] = Absent
        BY <3>2, <4>1, WayShape, ConstantFacts DEF Sp
      <4>2. CASE folder[s] # Absent
        <5> SUFFICES ASSUME NEW n \in 1 .. Len(ms), L(n, s) PROVE FALSE
          BY <1>1, <3>2
        <5>1. ms[n].ev.op = "COPY" /\ ms[n].ev.dst = s
          BY DEF Touches
        <5>2. CopyFacts(k, c, ms[n].ev)
          BY <3>2, <4>2, <5>1, CopyIsFresh
        <5>3. Head(Line(k)).dst = s
          BY <5>1, <5>2 DEF CopyFacts
        <5>4. QED
          BY <3>2, <5>3
      <4>3. QED
        BY <4>1, <4>2
    <3>6. QED
      BY <2>3, <2>5, <3>2, <3>4, <3>5
  <2>6. QED
    BY <2>4, <2>5
<1>4. QED
  BY <1>2, <1>3

-----------------------------------------------------------------------------
(* No change is lost on its way to a client *)

Downwards == /\ Trees /\ Writing /\ Walked /\ Lasting /\ DnShape /\ DnValue
             /\ NoJoins /\ Lines /\ DnCopying /\ DnCopy
DnInv == Base /\ (ContentsKept => Downwards)

LEMMA DnInit ==
  ASSUME Init
  PROVE  DnInv
<1>1. Base
  BY BaseInit
<1>2. /\ folder = EmptyTree /\ \A c \in Clients : copy[c] = EmptyTree /\ rcv[c] = Idle /\ out[c] = <<>> /\ up[c] = <<>>
      /\ \A c \in Clients : down[c] = <<>> /\ queue[c] = <<>> /\ ~snd[c].busy /\ missed[c] = {}
      /\ \A c \in Clients : mode[c] \in {"live", "off"}
  BY DEF Init, NoSend
<1>3. (\A p \in Paths : EmptyTree[p] = Absent) /\ Idle.pc = "idle"
  BY DEF EmptyTree, Idle
<1>4. Sound(EmptyTree)
  BY <1>3, ConstantFacts DEF Sound, Tree, Content, Nested, Kind, EmptyTree
<1>5. Trees
  BY <1>2, <1>4 DEF Trees
<1>6. Writing /\ Walked
  BY <1>2, <1>3 DEF Writing, Walked
<1>7. Lasting /\ DnCopying /\ \A k, c \in Clients : ~Heading(k, c)
  BY <1>2, <1>3 DEF Lasting, LastingOf, DnCopying, CopyingOf, Heading
<1>8. NoJoins
  BY <1>2 DEF NoJoins
<1>9. ASSUME NEW c \in Clients PROVE Pipe(c) = <<>> /\ Line(c) = <<>>
  <2>1. Evs(up[c]) = <<>> /\ Evs(down[c]) = <<>>
    BY <1>1, <1>2, EvsFacts DEF Base, TypeOK
  <2>2. Sending(c) = <<>>
    BY <1>2 DEF Sending
  <2>3. Pipe(c) = (<<>> \o <<>>) \o <<>> /\ Line(c) = <<>> \o <<>>
    BY <1>2, <2>1, <2>2 DEF Pipe, Line
  <2>4. QED
    BY <2>3
<1>10. Lines
  BY <1>9 DEF Lines, Paired
<1>11. DnShape
  <2> SUFFICES ASSUME NEW c \in Clients, NEW k \in Clients \ {c} PROVE DnShapeOf(k, c)
    BY DEF DnShape
  <2> DEFINE P == Held(k, c)
  <2>1. P \cap Sp(copy[c]) = P \cap Sp(folder)
    BY <1>2 DEF Sp
  <2>2. ~Heading(k, c) /\ Pipe(c) = <<>>
    BY <1>7, <1>9
  <2>3. Through(P, P \cap Sp(copy[c]), <<>>) = P \cap Sp(copy[c])
    <3> HIDE DEF P
    <3>1. QED
      BY ThroughNone
  <2>4. QED
    BY <2>1, <2>2, <2>3 DEF DnShapeOf, Under
<1>12. DnValue
  <2>1. \A p \in Files : folder[p] = Absent
    BY <1>2, <1>3, ConstantFacts
  <2>2. QED
    BY <2>1 DEF DnValue, DnValueOf
<1>13. DnCopy
  <2>1. \A c \in Clients : 1 .. Len(Pipe(c)) = {}
    BY <1>9
  <2>2. QED
    BY <2>1 DEF DnCopy
<1>14. QED
  BY <1>1, <1>5, <1>6, <1>7, <1>8, <1>10, <1>11, <1>12, <1>13 DEF DnInv, Downwards

LEMMA DnStay ==
  ASSUME DnInv, UNCHANGED vars, ContentsKept
  PROVE  Downwards'
<1>0. Downwards
  BY DEF DnInv
<1> USE <1>0 DEF Downwards
<1>1. Trees' /\ Writing' /\ Walked'
  BY DEF Trees, Writing, Walked, vars, Mine, Spoiled, Forgotten
<1>a. /\ plan' = plan /\ folder' = folder /\ copy' = copy /\ mode' = mode /\ out' = out /\ up' = up /\ down' = down
      /\ rcv' = rcv /\ queue' = queue /\ snd' = snd /\ walk' = walk /\ missed' = missed
  BY DEF vars
<1>b. \A k, c : Held(k, c)' = Held(k, c) /\ (Heading(k, c)' <=> Heading(k, c))
  BY <1>a DEF Held, Mine, Forgotten, Heading
<1>c. \A c : Pipe(c)' = Pipe(c) /\ Line(c)' = Line(c)
  BY <1>a DEF Pipe, Sending, Line
<1>2. Lasting'
  BY <1>a, <1>b DEF Lasting, LastingOf
<1>3. DnShape'
  BY <1>a, <1>b, <1>c DEF DnShape, DnShapeOf, Under
<1>4. DnValue'
  BY DEF DnValue, DnValueOf, Calm, Heading, vars, Held, Mine, Forgotten
<1>5. NoJoins' /\ Lines'
  BY DEF NoJoins, Copying, Cut, Lines, Line, vars
<1>6. \A k, c, e : CopyFacts(k, c, e) => CopyFactsNext(k, c, e)
  BY <1>a, <1>b, <1>c DEF CopyFacts, CopyFactsNext, Copied
<1>7. DnCopying'
  <2> SUFFICES ASSUME Copying, NEW c \in Clients, mode[c] = "live", NEW k \in Clients \ {c},
                      rcv[k].pc \in {"saved", "bcast"}, rcv[k].ev.op = "COPY", rcv[k].ev.dst \in Held(k, c),
                      folder[rcv[k].ev.dst] # Absent
               PROVE  CopyFactsNext(k, c, rcv[k].ev)
    BY <1>a, <1>b DEF DnCopying, CopyingOf, CopyFacts, CopyFactsNext, Copying
  <2>1. QED
    BY <1>6 DEF DnCopying, CopyingOf
<1>8. DnCopy'
  <2> SUFFICES ASSUME Copying, NEW c \in Clients, mode[c] = "live", NEW k \in Clients \ {c}, NEW i \in 1 .. Len(Pipe(c)),
                      NEW e, e = Pipe(c)[i], NEW fs, fs = After(Pipe(c), i),
                      e.op = "COPY", e.dst \in Held(k, c), folder[e.dst] # Absent, Calm(k, c, e.dst), Quiet(fs, e.dst)
               PROVE  CopyFactsNext(k, c, e) /\ ~Heading(k, c) /\ Quiet(fs, e.src)
    BY <1>a, <1>b, <1>c DEF DnCopy, CopyOf, CopyFacts, CopyFactsNext, Copying, Calm
  <2>1. QED
    BY <1>6 DEF DnCopy, CopyOf
<1>9. QED
  BY <1>1, <1>2, <1>3, <1>4, <1>5, <1>7, <1>8

LEMMA DnStep ==
  ASSUME Tidy, CopiesOwn, DnInv, [Next]_vars
  PROVE  DnInv'
<1>1. Base'
  BY BaseStep DEF DnInv
<1>2. CASE UNCHANGED vars
  <2>1. ContentsKept' <=> ContentsKept
    BY <1>2 DEF ContentsKept, vars
  <2>2. QED
    BY <1>1, <1>2, <2>1, DnStay DEF DnInv
<1>3. CASE Next
  <2>1. ContentsKept' => ContentsKept
    BY <1>3, WhoChanges DEF ContentsKept, Changes
  <2>2. ContentsKept => Downwards /\ Base
    BY DEF DnInv
  <2>3. ASSUME ContentsKept PROVE Downwards'
    <3>1. Trees' /\ Writing' /\ Walked' /\ Lasting' /\ DnShape'
      BY <1>3, <2>2, <2>3, TreesStep, WritingStep, WalkedStep, LastingStep, DnShapeStep DEF Downwards
    <3>2. CopyComes
      BY <2>2, <2>3, CopiesCome DEF Downwards
    <3>3. DnValue'
      BY <1>3, <2>2, <2>3, <3>2, DnValueStep DEF Downwards
    <3>4. NoJoins' /\ Lines' /\ DnCopying' /\ DnCopy'
      BY <1>3, <2>2, <2>3, NoJoinsStep, LinesStep, CopyingStep, CopyStep DEF Downwards
    <3>5. QED
      BY <3>1, <3>3, <3>4 DEF Downwards
  <2>4. QED
    BY <1>1, <2>1, <2>3 DEF DnInv
<1>4. QED
  BY <1>2, <1>3

LEMMA DnSafe ==
  ASSUME DnInv, Tidy
  PROVE  NothingLostDownwards
<1> SUFFICES ASSUME ContentsKept, NEW c \in Clients, mode[c] = "live", NEW p \in OwnedByOthers(c) \ Forgotten(c)
             PROVE  Delivered(c)[p] = folder[p]
  BY DEF NothingLostDownwards
<1>0. Base /\ Downwards
  BY DEF DnInv
<1>1. PICK k \in Clients \ {c} : plan.editors[p] = {k}
  BY DEF OwnedByOthers
<1>2. p \in Held(k, c) /\ p \in Paths
  BY <1>1 DEF OwnedByOthers, Held, Mine
<1>3. Delivered(c) = Play(copy[c], OnTheWay(c))
  BY DEF Delivered, OnTheWay, Rest, Sending, ComingTo, Bound
<1>4. CASE p \in Files
  BY <1>0, <1>2, <1>3, <1>4, FileArrives DEF Downwards
<1>5. CASE p \in Dirs
  <2>1. /\ Sound(Play(copy[c], OnTheWay(c)))
        /\ Held(k, c) \cap Sp(Play(copy[c], OnTheWay(c))) = Held(k, c) \cap Sp(folder)
        /\ Sound(folder)
    BY <1>0, WayShape DEF Downwards, Trees
  <2> DEFINE t == Play(copy[c], OnTheWay(c))
  <2> HIDE DEF t
  <2>2. t[p] = Absent <=> folder[p] = Absent
    BY <1>2, <2>1 DEF Sp, t
  <2>3. t[p] \in {Absent, Dir} /\ folder[p] \in {Absent, Dir}
    BY <1>5, <2>1 DEF Sound, Kind, t
  <2>4. QED
    BY <1>3, <2>2, <2>3 DEF t
<1>6. QED
  BY <1>2, <1>4, <1>5, ConstantFacts

\* What is on its way to a client is enough: played on its folder it gives what the server
\* has on the paths that one other user edits, although the broadcasts of the receivers are
\* interleaved in its queue (DropboxServer.cpp:344-455), a file is read from the server's
\* folder only when its event is sent (:42-148), and a copy takes what the client has at
\* its source when it arrives (Dropbox.cpp:308-320).
THEOREM ChangesArrive ==
  ASSUME Tidy, CopiesOwn
  PROVE  Spec => []NothingLostDownwards
<1>1. Init => DnInv
  BY DnInit
<1>2. DnInv /\ [Next]_vars => DnInv'
  BY DnStep
<1>3. DnInv => NothingLostDownwards
  BY DnSafe
<1>4. QED
  BY <1>1, <1>2, <1>3, PTL DEF Spec

\* A receiver thread dies of an event that finds not what it needs.
LEMMA TakesFit ==
  ASSUME Base, NEW k \in Clients, StartFile(k) \/ ReceivePath(k)
  PROVE  /\ up[k] # <<>> /\ Head(up[k]) \in OwnMessage(k)
         /\ rcv'[k].pc = "dead" <=> Fails(folder, Head(up[k]).ev)
<1>0. TypeOK /\ EventsOK /\ rcv \in [Clients -> Receiver] /\ \A b : Dead(b).pc = "dead"
  BY DEF Base, TypeOK, Dead
<1>1. up[k] # <<>> /\ Head(up[k]) \in OwnMessage(k)
  BY <1>0, Heads DEF StartFile, ReceivePath
<1>2. CASE StartFile(k)
  <2> DEFINE m == Head(up[k])
  <2>1. m \in Message /\ Well(m.ev) /\ m.ev.op = "NEW_FILE" /\ Open(k, m) /\ rcv[k].pc = "idle"
    BY <1>1, <1>2, Members DEF StartFile
  <2> HIDE DEF m
  <2>2. rcv'[k].pc = "dead" <=> Fails(folder, m.ev)
    BY <1>0, <2>1, OpenFacts
  <2>3. QED
    BY <1>1, <2>2 DEF m
<1>3. CASE ReceivePath(k)
  <2> DEFINE e == Head(up[k]).ev
  <2>1. CASE Fails(folder, e)
    <3>1. \E b : rcv' = [rcv EXCEPT ![k] = Dead(b)]
      BY <1>3, <2>1 DEF ReceivePath
    <3>2. QED
      BY <1>0, <1>1, <2>1, <3>1
  <2>2. CASE ~Fails(folder, e)
    <3>1. rcv'[k] = [pc |-> "saved", ev |-> e]
      BY <1>3, <2>2 DEF ReceivePath
    <3>2. rcv'[k].pc = "saved"
      BY <3>1
    <3>3. QED
      BY <1>1, <2>2, <3>2
  <2>3. QED
    BY <2>1, <2>2
<1>4. QED
  BY <1>2, <1>3

\* Nothing is missed: an event is about a path that its client edits.
LEMMA EditorsPath ==
  ASSUME Base, NEW c \in Clients, missed[c] = {}, NEW k \in Clients, NEW e \in By(k)
  PROVE  e.dst \in Paths /\ k \in plan.editors[e.dst]
BY DEF By, Spoiled, Event

\* ... and nobody else does.
LEMMA EditorsOwn ==
  ASSUME Base, Apart, NEW c \in Clients, missed[c] = {}, NEW k \in Clients, NEW e \in By(k)
  PROVE  e.dst \in Mine(k)
<1>1. e.dst \in Paths /\ k \in plan.editors[e.dst]
  BY EditorsPath
<1>2. plan \in Plans
  BY DEF Base, TypeOK
<1>3. QED
  BY <1>1, <1>2 DEF Apart, Mine

-----------------------------------------------------------------------------
(* Nothing fails at the server *)

LEMMA ServerFits ==
  ASSUME Base, Tidy, Apart, Trees, ContentsKept, UpFits, NEW c \in Clients, missed[c] = {},
         up[c] # <<>>, Head(up[c]) \in OwnMessage(c)
  PROVE  ~Fails(folder, Head(up[c]).ev)
<1> DEFINE e == Head(up[c]).ev
           P == Mine(c)
<1>1. e \in By(c) /\ Plain(e) /\ up[c] \in Seq(Message)
  BY Members, NoMoves DEF Base, TypeOK
<1>2. e.dst \in P
  BY <1>1, EditorsOwn
<1>3. Held(c, c) = P
  BY DEF Held, Forgotten
<1>4. WithParents(P)
  BY <1>3, HeldFacts DEF Base
<1>5. Fitting(P, P \cap Sp(folder), Evs(up[c]))
  BY DEF UpFits, FitsOf
<1>6. Evs(up[c]) \in Seq(Event) /\ Evs(up[c]) # <<>> /\ Head(Evs(up[c])) = e
  BY <1>1, EvsFacts
<1> HIDE DEF P, e
<1>7. Fit(P \cap Sp(folder), e)
  BY <1>2, <1>5, <1>6, FittingTail
<1>8. ~Fails(folder, e)
  BY <1>1, <1>2, <1>4, <1>7, FitFails
<1>9. QED
  BY <1>8 DEF e

Listed == \A c \in plan.there : ~Before(c)
ServerAlive == \A c \in plan.there : missed[c] = {} => rcv[c].pc # "dead"

LEMMA ListedStep ==
  ASSUME Base, Listed, Next
  PROVE  Listed'
<1>1. plan' = plan /\ plan.there \subseteq Clients
  BY WhoChanges, PlanType DEF Base, Changes
<1>2. QED
  BY <1>1, ModeSteps DEF Listed, Base

LEMMA ServerAliveStep ==
  ASSUME Base, Tidy, Apart, Trees, Writing, ContentsKept, UpFits, Listed, ServerAlive, Next
  PROVE  ServerAlive'
<1>0. TypeOK /\ EventsOK /\ plan' = plan /\ plan.there \subseteq Clients /\ rcv \in [Clients -> Receiver]
  BY WhoChanges, PlanType DEF Base, Changes, TypeOK
<1> SUFFICES ASSUME NEW c \in Clients, c \in plan.there, missed'[c] = {} PROVE rcv'[c].pc # "dead"
  BY <1>0 DEF ServerAlive
<1>1. missed[c] = {} /\ rcv[c].pc # "dead" /\ ~Before(c) /\ Held(c, c) = Mine(c)
  BY NothingMissed DEF ServerAlive, Listed
<1>2. CASE StartFile(c) \/ ReceivePath(c)
  BY <1>1, <1>2, TakesFit, ServerFits
<1>3. CASE StartCutFile(c)
  <2>1. up[c] # <<>> /\ Head(up[c]) \in OwnMessage(c)
    BY <1>0, <1>3, Heads DEF StartCutFile
  <2>2. ~Fails(folder, Head(up[c]).ev)
    BY <1>1, <2>1, ServerFits
  <2>3. Head(up[c]).ev.dst \in missed'[c]
    BY <1>3, <2>2 DEF StartCutFile
  <2>4. QED
    BY <2>3
<1>4. CASE FinishFile(c)
  <2>1. rcv[c].pc = "writing"
    BY <1>4 DEF FinishFile
  <2>2. rcv[c].ev.dst \in Held(c, c)
    BY <1>0, <1>1, <2>1, EditorsOwn DEF EventsOK, Handling
  <2>3. QED
    BY <1>4, <2>2, FinishedFacts
<1>5. ASSUME NEW p \in Paths, Offer(c, p) \/ Return(c, p) PROVE FALSE
  BY <1>1, <1>5 DEF Offer, Return, Before
<1>6. CASE StartBroadcast(c) \/ EndBroadcast(c) \/ \E k \in Clients : Enqueue(c, k)
  <2>1. CASE EndBroadcast(c)
    <3>1. rcv'[c] = Idle /\ Idle.pc = "idle"
      BY <1>0, <2>1, OwnSteps DEF Idle
    <3>2. QED
      BY <3>1
  <2>2. CASE StartBroadcast(c)
    BY <1>0, <2>2, OwnSteps
  <2>3. ASSUME NEW k \in Clients, Enqueue(c, k) PROVE rcv'[c].pc # "dead"
    BY <1>0, <2>3, OwnSteps
  <2>4. QED
    BY <1>6, <2>1, <2>2, <2>3
<1>7. CASE Kept(c)
  BY <1>1, <1>7 DEF Kept
<1>8. QED
  BY <1>0, <1>2, <1>3, <1>4, <1>5, <1>6, <1>7, WhoseStep DEF OwnStep

-----------------------------------------------------------------------------
(* Nothing fails at a client *)

\* What is on its way to client c, and the event e when it is coming, does so at its copy t.
FittedOf(P, t, es, h, e) == /\ Fitting(P, P \cap Sp(t), es)
                            /\ h /\ e.dst \in P => Fit(Through(P, P \cap Sp(t), es), e)
DnFits == \A c \in plan.there : mode[c] = "live" /\ missed[c] = {} =>
              \A k \in Clients \ {c} : FittedOf(Mine(k), copy[c], Pipe(c), Heading(k, c), rcv[k].ev)

LEMMA FittedReceived ==
  ASSUME NEW P, WithParents(P), NEW t, Sound(t), NEW es \in Seq(Event), es # <<>>, NEW m, Good(m), m.ev = Head(es),
         NEW h, NEW e, FittedOf(P, t, es, h, e)
  PROVE  FittedOf(P, Applied(t, m), Tail(es), h, e) /\ (m.ev.dst \in P => ~Fails(t, m.ev))
<1> DEFINE S == P \cap Sp(t)
<1>1. P \cap Sp(Applied(t, m)) = Shaped(P, S, Head(es))
  BY AppliedShape
<1>2. Fitting(P, S, es) /\ (h /\ e.dst \in P => Fit(Through(P, S, es), e))
  BY DEF FittedOf
<1> HIDE DEF S
<1>3. Through(P, S, es) = Through(P, Shaped(P, S, Head(es)), Tail(es))
  BY ThroughHead
<1>4. (Head(es).dst \in P => Fit(S, Head(es))) /\ Fitting(P, Shaped(P, S, Head(es)), Tail(es))
  BY <1>2, FittingTail
<1>5. m.ev.dst \in P => ~Fails(t, m.ev)
  BY <1>4, FitFails DEF Good, S
<1>6. QED
  BY <1>1, <1>2, <1>3, <1>4, <1>5 DEF FittedOf

\* An event that was coming has come.
LEMMA FittedCome ==
  ASSUME NEW P, NEW t, NEW es \in Seq(Event), NEW d \in Event, FittedOf(P, t, es, TRUE, d), NEW e
  PROVE  FittedOf(P, t, Append(es, d), FALSE, e)
<1>1. Fitting(P, P \cap Sp(t), Append(es, d))
  BY FittingAppend DEF FittedOf
<1>2. QED
  BY <1>1 DEF FittedOf

\* An event about other paths has come.
LEMMA FittedForeign ==
  ASSUME NEW P, NEW t, NEW es \in Seq(Event), NEW d \in Event, d.dst \notin P, \A S : S \subseteq P => Shaped(P, S, d) = S,
         NEW h, NEW e, FittedOf(P, t, es, h, e)
  PROVE  FittedOf(P, t, Append(es, d), h, e)
<1> DEFINE S == P \cap Sp(t)
<1>1. Fitting(P, S, es)
  BY DEF FittedOf
<1>2. Fitting(P, S, Append(es, d))
  BY <1>1, FittingAppend
<1>3. Through(P, S, es) \subseteq P
  <2>1. Len(es) \in Nat /\ S \subseteq P
    OBVIOUS
  <2> HIDE DEF S
  <2>2. QED
    BY <2>1, ThroughWithin
<1>4. Through(P, S, Append(es, d)) = Shaped(P, Through(P, S, es), d)
  BY ThroughAppend
<1>5. Through(P, S, Append(es, d)) = Through(P, S, es)
  BY <1>3, <1>4
<1>6. QED
  BY <1>2, <1>5 DEF FittedOf

LEMMA FittedSame ==
  ASSUME NEW P, NEW t, NEW u, NEW es, NEW h, NEW e, FittedOf(P, t, es, h, e), P \cap Sp(t) = P \cap Sp(u)
  PROVE  FittedOf(P, u, es, h, e)
BY DEF FittedOf

FittedAt(k, c) == FittedOf(Mine(k), copy[c], Pipe(c), Heading(k, c), rcv[k].ev)

\* What the server has applied can be applied at the client, which then has the same paths.
LEMMA FittedTaken ==
  ASSUME Base, Tidy, Trees, ContentsKept, Next, NEW c \in Clients, NEW k \in Clients \ {c}, StartFile(k) \/ ReceivePath(k),
         NEW P, P = Mine(k), P = Held(k, c), NEW t, NEW es, Under(P, t, es, Heading(k, c), rcv[k].ev, folder),
         FittedOf(P, t, es, Heading(k, c), rcv[k].ev)
  PROVE  FittedOf(P, t, es, Heading(k, c)', rcv'[k].ev)
<1>0. TypeOK /\ EventsOK
  BY DEF Base
<1>1. rcv[k].pc = "idle" /\ ~Heading(k, c)
  BY <1>0, OwnSteps DEF Heading
<1>2. Through(P, P \cap Sp(t), es) = P \cap Sp(folder)
  BY <1>1 DEF Under
<1>3. CASE rcv'[k].pc = "dead"
  BY <1>3 DEF FittedOf, Heading
<1>4. CASE rcv'[k].pc # "dead"
  <2> DEFINE e == Head(up[k]).ev
  <2>1. rcv'[k].ev = e
    BY <1>4, ReceiverTakes
  <2>2. ~Fails(folder, e) /\ Plain(e)
    BY <1>4, TakesFit, NoMoves
  <2>3. WithParents(P)
    BY <1>0, HeldFacts
  <2> HIDE DEF e
  <2>4. e.dst \in P => Fit(P \cap Sp(folder), e)
    BY <2>2, <2>3, FitFails
  <2>5. QED
    BY <1>2, <2>1, <2>4 DEF FittedOf
<1>5. QED
  BY <1>3, <1>4

LEMMA DnFitsStep ==
  ASSUME Base, Tidy, Trees, Writing, ContentsKept, DnShape, Listed, DnFits, Next
  PROVE  DnFits'
<1>0. /\ TypeOK /\ EventsOK /\ copy \in [Clients -> Tree] /\ mode \in [Clients -> Modes]
      /\ plan' = plan /\ plan.there \subseteq Clients
  BY WhoChanges, PlanType DEF Base, TypeOK, Changes
<1> SUFFICES ASSUME NEW c \in Clients, c \in plan.there, mode'[c] = "live", missed'[c] = {}, NEW k \in Clients \ {c}
             PROVE  FittedAt(k, c)'
  BY <1>0 DEF DnFits, FittedAt
<1>1. mode[c] = "live" /\ missed[c] = {}
  <2>1. ~Register(c)
    BY DEF Register, Listed, Before
  <2>2. QED
    BY <1>0, <2>1, ModeSteps, NothingMissed
<1> DEFINE P == Mine(k)
<1>2. Held(k, c) = P /\ Held(k, c)' = P /\ Mine(k)' = P
  BY NothingMissed
<1>3. WithParents(P) /\ P \subseteq Paths
  BY <1>0, <1>2, HeldFacts
<1>4. /\ Under(P, copy[c], Pipe(c), Heading(k, c), rcv[k].ev, folder)
      /\ FittedOf(P, copy[c], Pipe(c), Heading(k, c), rcv[k].ev)
  BY <1>1, <1>2 DEF DnShape, DnShapeOf, DnFits
<1>5. Pipe(c) \in Seq(Event)
  BY PipeType
<1> HIDE DEF P
<1>6. SUFFICES FittedOf(P, copy'[c], Pipe(c)', Heading(k, c)', rcv'[k].ev)
  BY <1>2 DEF FittedAt, FittedOf
<1>7. CASE ClientReceive(c)
  <2> DEFINE m == Head(down[c])
  <2>1. rcv' = rcv /\ down[c] # <<>> /\ copy'[c] = Applied(copy[c], m)
    BY <1>0, <1>7 DEF ClientReceive, Applied
  <2>2. Pipe(c) # <<>> /\ Head(Pipe(c)) = m.ev /\ Pipe(c)' = Tail(Pipe(c))
    BY <1>7, PipeReceive
  <2>3. Good(m)
    BY <1>0, <2>1, Heads, NoMoves
  <2> HIDE DEF m
  <2>4. FittedOf(P, Applied(copy[c], m), Tail(Pipe(c)), Heading(k, c), rcv[k].ev)
    BY <1>3, <1>4, <1>5, <2>2, <2>3, FittedReceived DEF Trees
  <2>5. (Heading(k, c)' <=> Heading(k, c))
    BY <2>1 DEF Heading
  <2>6. QED
    BY <2>1, <2>2, <2>4, <2>5 DEF FittedOf
<1>8. ASSUME NEW j \in Clients, Enqueue(j, c) PROVE FittedOf(P, copy'[c], Pipe(c)', Heading(k, c)', rcv'[k].ev)
  <2> DEFINE d == rcv[j].ev
  <2>1. copy' = copy /\ Pipe(c)' = Append(Pipe(c), d) /\ d \in Event
    BY <1>1, <1>8, PipeEnqueue DEF Enqueue
  <2>2. CASE j = k
    <3>1. Heading(k, c) /\ ~Heading(k, c)'
      <4>1. rcv[k].pc = "bcast" /\ c \in rcv[k].todo
        BY <1>8, <2>2 DEF Enqueue
      <4>2. rcv'[k].pc = "bcast" /\ rcv'[k].todo = rcv[k].todo \ {c}
        BY <1>0, <1>8, <2>2, OwnSteps
      <4>3. QED
        BY <4>1, <4>2 DEF Heading
    <3>2. FittedOf(P, copy[c], Pipe(c), TRUE, d)
      BY <1>4, <2>2, <3>1 DEF FittedOf
    <3> HIDE DEF d
    <3>3. FittedOf(P, copy[c], Append(Pipe(c), d), FALSE, rcv'[k].ev)
      BY <1>5, <2>1, <3>2, FittedCome
    <3>4. QED
      BY <2>1, <3>1, <3>3 DEF FittedOf
  <2>3. CASE j # k
    <3>1. d \in By(j)
      BY <1>0, <1>8 DEF EventsOK, Handling, Enqueue
    <3>2. \A S : S \subseteq P => Shaped(P, S, d) = S
      BY <1>0, <1>2, <2>3, <3>1, ForeignShape
    <3>3. (Heading(k, c)' <=> Heading(k, c)) /\ (Heading(k, c) => rcv'[k].ev = rcv[k].ev)
      <4>1. Kept(k)
        BY <1>0, <1>8, <2>3, OthersKept DEF OwnStep
      <4>2. QED
        BY <4>1 DEF Kept, Heading
    <3>4. d.dst \notin P
      <4>1. \A p \in P : ~Touches(d, p)
        BY <1>0, <1>2, <2>3, <3>1, Foreign
      <4>2. QED
        BY <4>1 DEF Touches
    <3> HIDE DEF d
    <3>5. FittedOf(P, copy[c], Append(Pipe(c), d), Heading(k, c), rcv[k].ev)
      BY <1>4, <1>5, <2>1, <3>2, <3>4, FittedForeign
    <3>6. QED
      BY <2>1, <3>3, <3>5 DEF FittedOf
  <2>4. QED
    BY <2>2, <2>3
<1>9. ASSUME ~ClientReceive(c), \A j \in Clients : ~Enqueue(j, c)
      PROVE  FittedOf(P, copy'[c], Pipe(c)', Heading(k, c)', rcv'[k].ev)
  <2>1. Pipe(c)' = Pipe(c)
    BY <1>9, PipeKept
  <2>2. \A p \in P : copy'[c][p] = copy[c][p]
    BY <1>1, <1>2, <1>9, CopyHeld
  <2>3. P \cap Sp(copy'[c]) = P \cap Sp(copy[c])
    BY <2>2 DEF Sp
  <2>4. /\ Under(P, copy'[c], Pipe(c)', Heading(k, c), rcv[k].ev, folder)
        /\ FittedOf(P, copy'[c], Pipe(c)', Heading(k, c), rcv[k].ev)
    BY <1>4, <2>1, <2>3 DEF Under, FittedOf
  <2>5. CASE StartFile(k) \/ ReceivePath(k)
    BY <1>2, <2>4, <2>5, FittedTaken DEF P
  <2>6. CASE FinishFile(k)
    <3>1. Heading(k, c) /\ (Heading(k, c)' => rcv'[k].ev = rcv[k].ev)
      BY <2>6, FinishedFacts DEF Heading
    <3>2. QED
      BY <2>4, <3>1 DEF FittedOf
  <2>7. ASSUME NEW q \in Paths, Return(k, q) PROVE FittedOf(P, copy'[c], Pipe(c)', Heading(k, c)', rcv'[k].ev)
    <3>1. Heading(k, c)' => rcv'[k].ev.dst \notin P
      BY <1>2, <2>7, ReturnedFacts DEF Heading
    <3>2. QED
      BY <2>4, <3>1 DEF FittedOf
  <2>8. CASE (Heading(k, c)' <=> Heading(k, c)) /\ (Heading(k, c) => rcv'[k].ev = rcv[k].ev)
    BY <2>4, <2>8 DEF FittedOf
  <2>9. QED
    BY <1>1, <1>9, <2>5, <2>6, <2>7, <2>8, HeadingSteps
<1>10. QED
  BY <1>7, <1>8, <1>9

ClientAlive == \A c \in plan.there : missed[c] = {} => mode[c] # "stuck"

LEMMA ClientAliveStep ==
  ASSUME Base, Tidy, Apart, Trees, ContentsKept, DnFits, ClientAlive, Next
  PROVE  ClientAlive'
<1>0. TypeOK /\ EventsOK /\ plan' = plan /\ plan.there \subseteq Clients /\ mode \in [Clients -> Modes]
  BY WhoChanges, PlanType DEF Base, Changes, TypeOK
<1> SUFFICES ASSUME NEW c \in Clients, c \in plan.there, missed'[c] = {}, mode'[c] = "stuck" PROVE FALSE
  BY <1>0 DEF ClientAlive
<1>1. missed[c] = {} /\ mode[c] # "stuck" /\ \A j \in Clients : Held(j, c) = Mine(j)
  BY NothingMissed DEF ClientAlive
<1>2. ClientReceive(c)
  <2>1. ASSUME NEW j \in Clients, ClientSend(j) \/ StartSend(j) \/ FinishSend(j) \/ Join(j) \/ TurnAround(j) \/ Register(j)
        PROVE  mode'[c] # "stuck"
    BY <1>0, <1>1, <2>1 DEF ClientSend, StartSend, FinishSend, Closed, Join, TurnAround, Register
  <2>2. ASSUME NEW j \in Clients, ClientReceive(j), j # c PROVE mode'[c] # "stuck"
    BY <1>0, <1>1, <2>2 DEF ClientReceive
  <2>3. QED
    BY <1>1, <2>1, <2>2, WhoChanges DEF Changes
<1> DEFINE m == Head(down[c])
<1>3. mode[c] = "live" /\ down[c] # <<>> /\ Fails(copy[c], m.ev)
  BY <1>0, <1>1, <1>2 DEF ClientReceive
<1>4. Good(m) /\ m \in OthersMessage(c)
  BY <1>0, <1>3, Heads, NoMoves
<1>5. PICK j \in Clients \ {c} : m.ev \in By(j)
  BY <1>4 DEF OthersMessage, ByOthers
<1>6. m.ev.dst \in Mine(j)
  BY <1>1, <1>5, EditorsOwn
<1>7. WithParents(Mine(j))
  BY <1>0, <1>1, HeldFacts
<1>8. Pipe(c) # <<>> /\ Head(Pipe(c)) = m.ev /\ Pipe(c) \in Seq(Event)
  BY <1>2, PipeReceive, PipeType
<1>9. FittedOf(Mine(j), copy[c], Pipe(c), Heading(j, c), rcv[j].ev)
  BY <1>1, <1>3 DEF DnFits
<1> HIDE DEF m
<1>10. ~Fails(copy[c], m.ev)
  BY <1>4, <1>6, <1>7, <1>8, <1>9, FittedReceived DEF Trees
<1>11. QED
  BY <1>3, <1>10

-----------------------------------------------------------------------------
(* The invariant *)

Orderly == /\ Trees /\ Writing /\ Walked /\ UpShape /\ Lasting /\ DnShape
           /\ Listed /\ UpFits /\ DnFits /\ ServerAlive /\ ClientAlive
OrderInv == Base /\ (ContentsKept => Orderly)

LEMMA OrderInit ==
  ASSUME Init
  PROVE  OrderInv
<1>1. Base
  BY BaseInit
<1>2. /\ folder = EmptyTree /\ \A c \in Clients : copy[c] = EmptyTree /\ rcv[c] = Idle /\ out[c] = <<>> /\ up[c] = <<>>
      /\ \A c \in Clients : down[c] = <<>> /\ queue[c] = <<>> /\ ~snd[c].busy /\ missed[c] = {}
      /\ \A c \in Clients : mode[c] \in {"live", "off"}
      /\ \A c \in Clients : c \in plan.there => mode[c] = "live"
      /\ plan.there \subseteq Clients
  BY <1>1, PlanType DEF Init, NoSend, Base, TypeOK
<1>3. (\A p \in Paths : EmptyTree[p] = Absent) /\ Idle.pc = "idle"
  BY DEF EmptyTree, Idle
<1>4. Sound(EmptyTree)
  BY <1>3, ConstantFacts DEF Sound, Tree, Content, Nested, Kind, EmptyTree
<1>5. Trees
  BY <1>2, <1>4 DEF Trees
<1>6. Writing /\ Walked
  BY <1>2, <1>3 DEF Writing, Walked
<1>7. Lasting /\ \A k, c \in Clients : ~Heading(k, c)
  BY <1>2, <1>3 DEF Lasting, LastingOf, Heading
<1>8. \A c \in Clients : Evs(up[c]) = <<>> /\ Evs(down[c]) = <<>>
  BY <1>1, <1>2, EvsFacts DEF Base, TypeOK
<1>9. ASSUME NEW c \in Clients PROVE Pipe(c) = <<>>
  <2>1. Sending(c) = <<>>
    BY <1>2 DEF Sending
  <2>2. Pipe(c) = (<<>> \o <<>>) \o <<>>
    BY <1>2, <1>8, <2>1 DEF Pipe
  <2>3. QED
    BY <2>2
<1>10. UpShape /\ UpFits
  <2> SUFFICES ASSUME NEW c \in Clients, NEW P
               PROVE  Shape(P, folder, up[c], out[c], copy[c]) /\ FitsOf(P, folder, up[c], out[c])
    BY DEF UpShape, UpFits
  <2>1. Through(P, Through(P, P \cap Sp(folder), <<>>), <<>>) = P \cap Sp(folder)
    BY ThroughNone
  <2>2. QED
    BY <1>2, <1>8, <2>1, FittingNone DEF Shape, FitsOf
<1>11. DnShape /\ DnFits
  <2> SUFFICES ASSUME NEW c \in Clients, NEW k \in Clients \ {c}, NEW P
               PROVE  /\ Under(P, copy[c], Pipe(c), Heading(k, c), rcv[k].ev, folder)
                      /\ FittedOf(P, copy[c], Pipe(c), Heading(k, c), rcv[k].ev)
    BY <1>2 DEF DnShape, DnShapeOf, DnFits
  <2>1. P \cap Sp(copy[c]) = P \cap Sp(folder) /\ ~Heading(k, c) /\ Pipe(c) = <<>>
    BY <1>2, <1>7, <1>9
  <2>2. Through(P, P \cap Sp(copy[c]), <<>>) = P \cap Sp(copy[c])
    BY ThroughNone
  <2>3. QED
    BY <2>1, <2>2, FittingNone DEF Under, FittedOf
<1>12. Listed /\ ServerAlive /\ ClientAlive
  BY <1>2, <1>3 DEF Listed, Before, ServerAlive, ClientAlive
<1>13. QED
  BY <1>1, <1>5, <1>6, <1>7, <1>10, <1>11, <1>12 DEF OrderInv, Orderly

LEMMA OrderStay ==
  ASSUME OrderInv, UNCHANGED vars, ContentsKept
  PROVE  Orderly'
<1>0. Orderly
  BY DEF OrderInv
<1> USE <1>0 DEF Orderly
<1>1. Trees' /\ Writing' /\ Walked'
  BY DEF Trees, Writing, Walked, vars, Mine, Spoiled, Forgotten
<1>2. /\ plan' = plan /\ folder' = folder /\ copy' = copy /\ mode' = mode /\ out' = out /\ up' = up /\ down' = down
      /\ rcv' = rcv /\ queue' = queue /\ snd' = snd /\ missed' = missed
  BY DEF vars
<1>3. \A k, c : Held(k, c)' = Held(k, c) /\ (Heading(k, c)' <=> Heading(k, c)) /\ Mine(k)' = Mine(k)
  BY <1>2 DEF Held, Mine, Forgotten, Heading
<1>4. \A c : Pipe(c)' = Pipe(c)
  BY <1>2 DEF Pipe, Sending
<1>5. Lasting'
  BY <1>2, <1>3 DEF Lasting, LastingOf
<1>6. UpShape' /\ UpFits'
  BY <1>2, <1>3 DEF UpShape, UpFits
<1>7. DnShape' /\ DnFits'
  BY <1>2, <1>3, <1>4 DEF DnShape, DnShapeOf, Under, DnFits, FittedOf
<1>8. Listed' /\ ServerAlive' /\ ClientAlive'
  BY <1>2 DEF Listed, Before, ServerAlive, ClientAlive
<1>9. QED
  BY <1>1, <1>5, <1>6, <1>7, <1>8

LEMMA OrderStep ==
  ASSUME Tidy, Apart, OrderInv, [Next]_vars
  PROVE  OrderInv'
<1>1. Base'
  BY BaseStep DEF OrderInv
<1>2. CASE UNCHANGED vars
  <2>1. ContentsKept' <=> ContentsKept
    BY <1>2 DEF ContentsKept, vars
  <2>2. QED
    BY <1>1, <1>2, <2>1, OrderStay DEF OrderInv
<1>3. CASE Next
  <2>1. ContentsKept' => ContentsKept
    BY <1>3, WhoChanges DEF ContentsKept, Changes
  <2>2. ContentsKept => Orderly /\ Base
    BY DEF OrderInv
  <2>3. ASSUME ContentsKept PROVE Orderly'
    <3>1. Trees' /\ Writing' /\ Walked' /\ UpShape' /\ Lasting' /\ DnShape'
      BY <1>3, <2>2, <2>3, TreesStep, WritingStep, WalkedStep, UpShapeStep, LastingStep, DnShapeStep DEF Orderly
    <3>2. Listed' /\ UpFits' /\ DnFits'
      BY <1>3, <2>2, <2>3, ListedStep, UpFitsStep, DnFitsStep DEF Orderly
    <3>3. ServerAlive' /\ ClientAlive'
      BY <1>3, <2>2, <2>3, ServerAliveStep, ClientAliveStep DEF Orderly
    <3>4. QED
      BY <3>1, <3>2, <3>3 DEF Orderly
  <2>4. QED
    BY <1>1, <2>1, <2>3 DEF OrderInv
<1>4. QED
  BY <1>2, <1>3

\* Events reach every folder in an order in which they can be applied: no receive
\* procedure throws (deleteFile, receiveFile and receiveDirectory find what they need,
\* Dropbox.cpp), so neither the clientReceiver of a client that was there from the start
\* (DropboxServer.cpp) nor that client's own receiver dies, although the broadcasts of the
\* receivers are interleaved and a directory and its files travel as events of their own.
THEOREM EventsApply ==
  ASSUME Tidy, Apart
  PROVE  Spec => []NoReceiverDies
<1>1. Init => OrderInv
  BY OrderInit
<1>2. OrderInv /\ [Next]_vars => OrderInv'
  BY OrderStep
<1>3. OrderInv => NoReceiverDies
  BY DEF OrderInv, Orderly, ServerAlive, ClientAlive, NoReceiverDies
<1>4. QED
  BY <1>1, <1>2, <1>3, PTL DEF Spec

-----------------------------------------------------------------------------
(* Names: what events, moves among them, do to which paths there are *)

\* A message that can be on the wire, moves included, but for a file that its client has lost.
Sane(m) == m \in Message /\ Well(m.ev) /\ Full(m)

\* Of the paths P, two folders have the same.
Alike(P, t, u) == \A p \in P : t[p] = Absent <=> u[p] = Absent

Inside(P, e) == e.src \in P /\ e.dst \in P
Outside(P, e) == \A p \in Affected(e) : p \notin P

\* Whether nothing is at p once e has come to the folder t.
Gone(t, e, p) ==
    IF Fails(t, e) \/ p \notin Affected(e) THEN t[p] = Absent
    ELSE \/ e.op = "DELETE"
         \/ e.op = "MOVE" /\ p = e.src
         \/ e.op # "MOVE" /\ p # e.dst /\ t[p] = Absent
         \/ e.op = "COPY" /\ p = e.dst /\ NoParent(t, p) /\ t[p] = Absent

LEMMA AppliedType ==
  ASSUME NEW t \in Tree, NEW m, Sane(m)
  PROVE  Applied(t, m) \in Tree
<1>1. m.val \in Content /\ Well(m.ev)
  BY DEF Sane, Message
<1>2. Effect(t, m.ev, m.val) \in Tree
  BY <1>1, EffectType
<1>3. QED
  BY <1>2 DEF Applied

LEMMA AppliedGone ==
  ASSUME NEW t \in Tree, NEW m, Sane(m), NEW p \in Paths
  PROVE  Applied(t, m)[p] = Absent <=> Gone(t, m.ev, p)
<1> DEFINE e == m.ev
           val == m.val
<1>1. /\ e.dst \in Paths /\ e.src \in Paths /\ e.op \in Events /\ val \in Content
      /\ t = [q \in Paths |-> t[q]] /\ \A q \in Paths : t[q] \in Content
      /\ e.op \in {"COPY", "MOVE"} => e.src # e.dst
      /\ e.op = "DELETE" => e.src = e.dst
      /\ e.op = "NEW_FILE" => val # Absent
  BY DEF Sane, Full, Well, Event, Message, Tree
<1>2. CASE Fails(t, e)
  BY <1>2 DEF Applied, Gone
<1>3. CASE ~Fails(t, e)
  <2>1. Applied(t, m) = Effect(t, e, val)
    BY <1>3 DEF Applied
  <2>2. Affected(e) = {e.src, e.dst} \cup {q \in Paths : e.op = "DELETE" /\ In[q] = e.dst}
    BY DEF Affected
  <2>3. Gone(t, e, p) <=> IF p \notin Affected(e) THEN t[p] = Absent
                          ELSE \/ e.op = "DELETE"
                               \/ e.op = "MOVE" /\ p = e.src
                               \/ e.op # "MOVE" /\ p # e.dst /\ t[p] = Absent
                               \/ e.op = "COPY" /\ p = e.dst /\ NoParent(t, p) /\ t[p] = Absent
    BY <1>3 DEF Gone
  <2>a. Absent # Torn /\ Absent # Dir
    BY ConstantFacts
  <2> HIDE DEF e, val
  <2>4. CASE e.op = "NEW_FILE"
    <3>1. Effect(t, e, val) = [t EXCEPT ![e.dst] = val]
      BY <2>4 DEF Effect
    <3>2. QED
      BY <1>1, <2>1, <2>2, <2>3, <2>4, <3>1 DEF e
  <2>5. CASE e.op = "NEW_DIRECTORY"
    <3>1. Effect(t, e, val) = [t EXCEPT ![e.dst] = Dir]
      BY <2>5 DEF Effect
    <3>2. QED
      BY <1>1, <2>a, <2>1, <2>2, <2>3, <2>5, <3>1 DEF e
  <2>6. CASE e.op = "DELETE"
    <3>1. Effect(t, e, val) = [q \in Paths |-> IF q \in Affected(e) THEN Absent ELSE t[q]]
      BY <2>6 DEF Effect
    <3>2. QED
      BY <1>1, <2>1, <2>3, <2>6, <3>1 DEF e
  <2>7. CASE e.op = "MOVE"
    <3>1. Effect(t, e, val) = [t EXCEPT ![e.dst] = t[e.src], ![e.src] = Absent]
      BY <2>7 DEF Effect
    <3>2. t[e.src] # Absent
      BY <1>3, <2>7 DEF Fails, e
    <3>3. QED
      BY <1>1, <2>1, <2>2, <2>3, <2>7, <3>1, <3>2 DEF e
  <2>8. CASE e.op = "COPY"
    <3>1. Effect(t, e, val) = [t EXCEPT ![e.dst] = IF NoParent(t, e.dst) THEN @
                                                   ELSE IF t[e.src] = Absent THEN Torn ELSE t[e.src]]
      BY <2>8 DEF Effect
    <3>2. QED
      BY <1>1, <2>a, <2>1, <2>2, <2>3, <2>8, <3>1 DEF e
  <2>9. QED
    BY <1>1, <2>4, <2>5, <2>6, <2>7, <2>8 DEF Events
<1>4. QED
  BY <1>2, <1>3

LEMMA GoneAlike ==
  ASSUME NEW P, WithParents(P), NEW t, NEW u, Alike(P, t, u), NEW e, Well(e), Inside(P, e), NEW p \in P
  PROVE  Gone(t, e, p) <=> Gone(u, e, p)
<1>1. /\ t[p] = Absent <=> u[p] = Absent
      /\ t[e.src] = Absent <=> u[e.src] = Absent
      /\ t[e.dst] = Absent <=> u[e.dst] = Absent
      /\ \A q \in P : NoParent(t, q) <=> NoParent(u, q)
  BY DEF Alike, Inside, WithParents, NoParent
<1>2. NoParent(t, e.dst) <=> NoParent(u, e.dst)
  BY <1>1 DEF Inside
<1>3. Fails(t, e) <=> Fails(u, e)
  BY <1>1, <1>2 DEF Fails
<1>4. QED
  BY <1>1, <1>3 DEF Gone

\* Folders that are alike stay so when the same event comes to both, or one of somebody else.
LEMMA AppliedAlike ==
  ASSUME NEW P, WithParents(P), NEW t \in Tree, NEW u \in Tree, Alike(P, t, u), NEW m, Sane(m), NEW n, Sane(n),
         m.ev = n.ev, Inside(P, m.ev) \/ Outside(P, m.ev)
  PROVE  Alike(P, Applied(t, m), Applied(u, n))
<1> SUFFICES ASSUME NEW p \in P PROVE Applied(t, m)[p] = Absent <=> Applied(u, n)[p] = Absent
  BY DEF Alike
<1>1. p \in Paths
  BY DEF WithParents
<1>2. /\ Applied(t, m)[p] = Absent <=> Gone(t, m.ev, p)
      /\ Applied(u, n)[p] = Absent <=> Gone(u, m.ev, p)
  BY <1>1, AppliedGone
<1>3. CASE Inside(P, m.ev)
  BY <1>2, <1>3, GoneAlike DEF Sane
<1>4. CASE Outside(P, m.ev)
  <2>1. p \notin Affected(m.ev)
    BY <1>4 DEF Outside
  <2>2. QED
    BY <1>2, <2>1 DEF Gone, Alike
<1>5. QED
  BY <1>3, <1>4

LEMMA AppliedOutside ==
  ASSUME NEW P, P \subseteq Paths, NEW t \in Tree, NEW m, Sane(m), Outside(P, m.ev)
  PROVE  Alike(P, Applied(t, m), t)
<1> SUFFICES ASSUME NEW p \in P PROVE Applied(t, m)[p] = Absent <=> t[p] = Absent
  BY DEF Alike
<1>1. p \notin Affected(m.ev) /\ p \in Paths
  BY DEF Outside
<1>2. QED
  BY <1>1, AppliedGone DEF Gone

LEMMA AlikeFacts ==
  ASSUME NEW P
  PROVE  /\ \A t : Alike(P, t, t)
         /\ \A t, u : Alike(P, t, u) => Alike(P, u, t)
         /\ \A t, u, w : Alike(P, t, u) /\ Alike(P, u, w) => Alike(P, t, w)
         /\ \A Q, t, u : Q \subseteq P /\ Alike(P, t, u) => Alike(Q, t, u)
  BY DEF Alike

-----------------------------------------------------------------------------
(* Sequences of them *)

LEMMA PlayAlike ==
  ASSUME NEW P, WithParents(P), NEW t \in Tree, NEW u \in Tree, Alike(P, t, u),
         NEW ms \in Seq(Message), NEW ns \in Seq(Message), Len(ms) = Len(ns),
         \A i \in 1 .. Len(ms) : /\ Sane(ms[i]) /\ Sane(ns[i]) /\ ms[i].ev = ns[i].ev
                                 /\ Inside(P, ms[i].ev) \/ Outside(P, ms[i].ev)
  PROVE  Alike(P, Play(t, ms), Play(u, ns)) /\ Play(t, ms) \in Tree /\ Play(u, ns) \in Tree
<1> DEFINE n == Len(ms)
           r == Played(t, ms)
           s == Played(u, ns)
           T == {i \in 0 .. n : r[i] \in Tree /\ s[i] \in Tree /\ Alike(P, r[i], s[i])}
<1>0. Len(ms) \in Nat /\ Len(ns) \in Nat
  OBVIOUS
<1>1. n \in Nat /\ r[0] = t /\ (\A i \in 1 .. n : r[i] = Applied(r[i - 1], ms[i])) /\ Play(t, ms) = r[n]
  BY <1>0, PlaySteps
<1>2. s[0] = u /\ (\A i \in 1 .. n : s[i] = Applied(s[i - 1], ns[i])) /\ Play(u, ns) = s[n]
  BY <1>0, PlaySteps
<1>3. \A i \in 1 .. n : /\ Sane(ms[i]) /\ Sane(ns[i]) /\ ms[i].ev = ns[i].ev
                        /\ Inside(P, ms[i].ev) \/ Outside(P, ms[i].ev)
  OBVIOUS
<1> HIDE DEF n, r, s
<1>4. 0 \in T
  BY <1>1, <1>2
<1>5. ASSUME NEW i \in 0 .. n - 1, i \in T PROVE i + 1 \in T
  <2>1. i + 1 \in 1 .. n /\ (i + 1) - 1 = i /\ i + 1 \in 0 .. n
    BY <1>1
  <2>2. r[i + 1] = Applied(r[i], ms[i + 1]) /\ s[i + 1] = Applied(s[i], ns[i + 1])
    BY <1>1, <1>2, <2>1
  <2>3. r[i] \in Tree /\ s[i] \in Tree /\ Alike(P, r[i], s[i])
    BY <1>5
  <2>4. r[i + 1] \in Tree /\ s[i + 1] \in Tree
    BY <1>3, <2>1, <2>2, <2>3, AppliedType
  <2>5. Alike(P, r[i + 1], s[i + 1])
    BY <1>3, <2>1, <2>2, <2>3, AppliedAlike
  <2>6. QED
    BY <2>1, <2>4, <2>5
<1>6. n \in T
  <2>1. n \in Nat /\ n \in 0 .. n
    BY <1>1
  <2> HIDE DEF T
  <2>2. \A i \in 0 .. n : i \in T
    BY <1>4, <1>5, <2>1, AllUpTo
  <2>3. QED
    BY <2>1, <2>2
<1>7. QED
  BY <1>1, <1>2, <1>6

LEMMA PlayOutside ==
  ASSUME NEW P, WithParents(P), NEW t \in Tree, NEW ms \in Seq(Message),
         \A i \in 1 .. Len(ms) : Sane(ms[i]) /\ Outside(P, ms[i].ev)
  PROVE  Alike(P, Play(t, ms), t) /\ Play(t, ms) \in Tree
<1> DEFINE n == Len(ms)
           r == Played(t, ms)
           T == {i \in 0 .. n : r[i] \in Tree /\ Alike(P, r[i], t)}
<1>0. Len(ms) \in Nat
  OBVIOUS
<1>1. n \in Nat /\ r[0] = t /\ (\A i \in 1 .. n : r[i] = Applied(r[i - 1], ms[i])) /\ Play(t, ms) = r[n]
  BY <1>0, PlaySteps
<1>2. \A i \in 1 .. n : Sane(ms[i]) /\ Outside(P, ms[i].ev)
  OBVIOUS
<1> HIDE DEF n, r
<1>3. 0 \in T
  BY <1>1, AlikeFacts
<1>4. ASSUME NEW i \in 0 .. n - 1, i \in T PROVE i + 1 \in T
  <2>1. i + 1 \in 1 .. n /\ (i + 1) - 1 = i /\ i + 1 \in 0 .. n
    BY <1>1
  <2>2. r[i + 1] = Applied(r[i], ms[i + 1]) /\ r[i] \in Tree /\ Alike(P, r[i], t)
    BY <1>1, <1>4, <2>1
  <2>3. r[i + 1] \in Tree
    BY <1>2, <2>1, <2>2, AppliedType
  <2>4. Alike(P, r[i + 1], r[i])
    BY <1>2, <2>1, <2>2, AppliedOutside DEF WithParents
  <2>5. QED
    BY <2>1, <2>2, <2>3, <2>4, AlikeFacts
<1>5. n \in T
  <2>1. n \in Nat /\ n \in 0 .. n
    BY <1>1
  <2> HIDE DEF T
  <2>2. \A i \in 0 .. n : i \in T
    BY <1>3, <1>4, <2>1, AllUpTo
  <2>3. QED
    BY <2>1, <2>2
<1>6. QED
  BY <1>1, <1>5

LEMMA PlayOne ==
  ASSUME NEW t, NEW m \in Message
  PROVE  Play(t, <<m>>) = Applied(t, m) /\ Play(t, <<>>) = t
<1>1. Len(<<m>>) = 1 /\ Len(<<>>) = 0 /\ <<m>>[1] = m /\ 1 - 1 = 0 /\ 1 \in 1 .. 1
  OBVIOUS
<1>2. Play(t, <<>>) = t
  BY <1>1, PlaySteps
<1>3. Played(t, <<m>>)[1] = Applied(t, m) /\ Play(t, <<m>>) = Played(t, <<m>>)[1]
  <2> DEFINE ms == <<m>>
  <2>1. Len(ms) = 1 /\ Len(ms) \in Nat /\ ms[1] = m
    OBVIOUS
  <2> HIDE DEF ms
  <2>2. Played(t, ms)[0] = t /\ (\A i \in 1 .. 1 : Played(t, ms)[i] = Applied(Played(t, ms)[i - 1], ms[i]))
        /\ Play(t, ms) = Played(t, ms)[1]
    BY <2>1, PlaySteps
  <2>3. QED
    BY <1>1, <2>1, <2>2 DEF ms
<1>4. QED
  BY <1>2, <1>3

\* What the events es make of the folder t, as far as names go.
Bare(es) == [i \in 1 .. Len(es) |-> [ev |-> es[i], val |-> Torn]]
Shows(t, es) == Play(t, Bare(es))
Token(e) == [ev |-> e, val |-> Torn]
WellEvents == {e \in Event : Well(e)}

LEMMA TokenFacts ==
  ASSUME NEW e \in WellEvents
  PROVE  Sane(Token(e)) /\ Token(e).ev = e /\ Token(e) \in Message
<1>1. Torn \in Content /\ Torn # Absent
  BY ConstantFacts DEF Content
<1>2. QED
  BY <1>1 DEF Sane, Full, Token, Message, WellEvents

LEMMA BareFacts ==
  ASSUME NEW es \in Seq(WellEvents)
  PROVE  /\ Bare(es) \in Seq(Message) /\ Len(Bare(es)) = Len(es) /\ Len(es) \in Nat
         /\ \A i \in 1 .. Len(es) : es[i] \in WellEvents /\ Bare(es)[i] = Token(es[i])
<1>1. Len(es) \in Nat /\ \A i \in 1 .. Len(es) : es[i] \in WellEvents
  OBVIOUS
<1>2. \A i \in 1 .. Len(es) : Token(es[i]) \in Message
  BY <1>1, TokenFacts
<1>3. Bare(es) = [i \in 1 .. Len(es) |-> Token(es[i])]
  BY DEF Bare, Token
<1>4. QED
  BY <1>1, <1>2, <1>3

LEMMA ShowsNone ==
  ASSUME NEW t
  PROVE  Shows(t, <<>>) = t
<1>1. Len(Bare(<<>>)) = 0
  BY DEF Bare
<1>2. QED
  BY <1>1, PlaySteps DEF Shows

LEMMA ShowsAppend ==
  ASSUME NEW t, NEW es \in Seq(WellEvents), NEW e \in WellEvents
  PROVE  Shows(t, Append(es, e)) = Applied(Shows(t, es), Token(e))
<1> DEFINE ms == Bare(es)
           n == Len(es)
           all == Append(es, e)
           mt == Token(e)
           both == ms \o <<mt>>
<1>1. ms \in Seq(Message) /\ Len(ms) = n /\ n \in Nat /\ \A i \in 1 .. n : ms[i] = Token(es[i])
  BY BareFacts
<1>2. mt \in Message
  BY TokenFacts
<1>3. Len(all) = n + 1 /\ all[n + 1] = e /\ \A i \in 1 .. n : all[i] = es[i]
  OBVIOUS
<1>4. Bare(all) = [i \in 1 .. Len(all) |-> Token(all[i])]
  BY DEF Bare, Token
<1> HIDE DEF ms, mt, all, n
<1>5. both \in Seq(Message) /\ Len(both) = n + 1 /\ both[n + 1] = mt /\ \A i \in 1 .. n : both[i] = ms[i]
  BY <1>1, <1>2
<1>6. both = [i \in 1 .. n + 1 |-> both[i]]
  BY <1>5
<1> HIDE DEF both
<1>7. \A i \in 1 .. n + 1 : both[i] = Token(all[i])
  BY <1>1, <1>3, <1>5 DEF mt
<1>8. Bare(all) = both
  BY <1>3, <1>4, <1>6, <1>7
<1>9. Play(t, both) = Play(Play(t, ms), <<mt>>)
  <2> DEFINE mb == <<mt>>
  <2>1. mb \in Seq(Message)
    BY <1>2
  <2> HIDE DEF mb
  <2>2. Play(t, ms \o mb) = Play(Play(t, ms), mb)
    BY <1>1, <2>1, PlayBoth
  <2>3. QED
    BY <2>2 DEF both, mb
<1>10. Play(Play(t, ms), <<mt>>) = Applied(Play(t, ms), mt)
  BY <1>2, PlayOne
<1>11. QED
  BY <1>8, <1>9, <1>10 DEF Shows, all, mt, ms

LEMMA ShowsHead ==
  ASSUME NEW t, NEW es \in Seq(WellEvents), es # <<>>
  PROVE  Shows(t, es) = Shows(Applied(t, Token(Head(es))), Tail(es))
<1> DEFINE rest == Tail(es)
           e == Head(es)
           n == Len(rest)
           mt == Token(e)
           ms == Bare(rest)
           both == <<mt>> \o ms
<1>1. n \in Nat /\ Len(es) = n + 1 /\ es[1] = e /\ e \in WellEvents /\ rest \in Seq(WellEvents)
      /\ \A i \in 1 .. n : rest[i] = es[i + 1]
  OBVIOUS
<1>2. mt \in Message
  BY <1>1, TokenFacts
<1>3. ms \in Seq(Message) /\ Len(ms) = n /\ \A i \in 1 .. n : ms[i] = Token(rest[i])
  BY <1>1, BareFacts
<1>4. Bare(es) = [i \in 1 .. Len(es) |-> Token(es[i])]
  BY DEF Bare, Token
<1> HIDE DEF ms, mt, rest, n, e
<1>5. both \in Seq(Message) /\ Len(both) = n + 1 /\ both[1] = mt /\ \A i \in 1 .. n : both[i + 1] = ms[i]
  BY <1>1, <1>2, <1>3
<1>6. both = [i \in 1 .. n + 1 |-> both[i]]
  BY <1>5
<1> HIDE DEF both
<1>7. ASSUME NEW i \in 1 .. n + 1 PROVE both[i] = Token(es[i])
  <2>1. CASE i = 1
    BY <1>1, <1>5, <2>1 DEF mt
  <2>2. CASE i # 1
    <3>1. i - 1 \in 1 .. n /\ (i - 1) + 1 = i
      BY <1>1, <2>2
    <3> DEFINE l == i - 1
    <3>2. l \in 1 .. n /\ l + 1 = i
      BY <3>1
    <3> HIDE DEF l
    <3>3. QED
      BY <1>1, <1>3, <1>5, <3>2
  <2>3. QED
    BY <2>1, <2>2
<1>8. Bare(es) = both
  BY <1>1, <1>4, <1>6, <1>7
<1>9. Play(t, both) = Play(Play(t, <<mt>>), ms)
  <2> DEFINE ma == <<mt>>
  <2>1. ma \in Seq(Message)
    BY <1>2
  <2> HIDE DEF ma
  <2>2. Play(t, ma \o ms) = Play(Play(t, ma), ms)
    BY <1>3, <2>1, PlayBoth
  <2>3. QED
    BY <2>2 DEF both, ma
<1>10. Play(t, <<mt>>) = Applied(t, mt)
  BY <1>2, PlayOne
<1>11. QED
  BY <1>8, <1>9, <1>10 DEF Shows, ms, mt, rest, e

\* Folders that are alike, with the same events.
LEMMA ShowsAlike ==
  ASSUME NEW P, WithParents(P), NEW t \in Tree, NEW u \in Tree, Alike(P, t, u), NEW es \in Seq(WellEvents),
         \A i \in 1 .. Len(es) : Inside(P, es[i]) \/ Outside(P, es[i])
  PROVE  Alike(P, Shows(t, es), Shows(u, es)) /\ Shows(t, es) \in Tree /\ Shows(u, es) \in Tree
<1> DEFINE ms == Bare(es)
<1>1. ms \in Seq(Message) /\ Len(ms) = Len(es) /\ \A i \in 1 .. Len(es) : es[i] \in WellEvents /\ ms[i] = Token(es[i])
  BY BareFacts
<1>2. \A i \in 1 .. Len(es) : Sane(Token(es[i])) /\ Token(es[i]).ev = es[i]
  BY <1>1, TokenFacts
<1> HIDE DEF ms
<1>3. \A i \in 1 .. Len(ms) : Sane(ms[i]) /\ (Inside(P, ms[i].ev) \/ Outside(P, ms[i].ev))
  BY <1>1, <1>2
<1>4. Alike(P, Play(t, ms), Play(u, ms)) /\ Play(t, ms) \in Tree /\ Play(u, ms) \in Tree
  BY <1>1, <1>3, PlayAlike
<1>5. QED
  BY <1>4 DEF Shows, ms

-----------------------------------------------------------------------------
(* Moves: every event is about paths of its own client *)

Moving == "MOVE" \in plan.ops

Hers(k) == {e \in WellEvents : k \in plan.editors[e.dst] /\ k \in plan.editors[e.src]}
Theirs(c) == {e \in WellEvents : \E j \in Clients \ {c} : e \in Hers(j)}

OwnedOf(c) ==
    /\ mode[c] \notin {"sync", "offer"}
    /\ Line(c) \in Seq(Hers(c))
    /\ mode[c] = "live" => Pipe(c) \in Seq(Theirs(c))
    /\ Handling(c) => rcv[c].ev \in Hers(c)
    /\ rcv[c].pc = "writing" => rcv[c].ino = rcv[c].ev.dst /\ folder[rcv[c].ino] # Absent
Owned == \A c \in Clients : OwnedOf(c)

LEMMA MovingPlan ==
  ASSUME Base, Tidy, MovesOwn, Moving
  PROVE  /\ plan.joiners = {}
         /\ \A p \in Paths : \E k \in Clients : plan.editors[p] \subseteq {k}
         /\ \A p \in Paths : In[p] # Root => plan.editors[In[p]] \subseteq plan.editors[p]
  BY DEF Base, TypeOK, MovesOwn, Alone, Moving, Tidy

LEMMA MineFacts ==
  ASSUME Base, Tidy, NEW k \in Clients
  PROVE  WithParents(Mine(k)) /\ Mine(k) \subseteq Paths
<1>1. plan \in Plans
  BY DEF Base, TypeOK
<1>2. ASSUME NEW p \in Mine(k), In[p] # Root PROVE In[p] \in Mine(k)
  <2>1. p \in Paths /\ plan.editors[p] \subseteq {k}
    BY DEF Mine
  <2>2. In[p] \in Paths /\ plan.editors[In[p]] \subseteq plan.editors[p]
    BY <1>1, <1>2, <2>1, ConstantFacts DEF Tidy
  <2>3. QED
    BY <2>1, <2>2 DEF Mine
<1>3. QED
  BY <1>2 DEF WithParents, Mine

LEMMA HersFacts ==
  ASSUME Base, Tidy, MovesOwn, Moving, NEW k \in Clients, NEW e \in Hers(k)
  PROVE  /\ e \in WellEvents /\ Well(e) /\ e \in Event /\ e.dst \in Paths /\ e.src \in Paths
         /\ Inside(Mine(k), e)
         /\ \A j \in Clients \ {k} : Outside(Mine(j), e)
<1>1. e \in WellEvents /\ Well(e) /\ e \in Event /\ e.dst \in Paths /\ e.src \in Paths
      /\ k \in plan.editors[e.dst] /\ k \in plan.editors[e.src]
  BY DEF Hers, WellEvents, Event
<1>2. Inside(Mine(k), e)
  BY <1>1, MovingPlan DEF Inside, Mine
<1>3. ASSUME NEW j \in Clients \ {k}, NEW p \in Affected(e), p \in Mine(j) PROVE FALSE
  <2>1. p \in Paths /\ plan.editors[p] \subseteq {j}
    BY <1>3 DEF Mine
  <2>2. p = e.src \/ p = e.dst \/ In[p] = e.dst
    BY DEF Affected
  <2>3. k \in plan.editors[p]
    <3>1. CASE In[p] = e.dst
      <4>1. plan.editors[e.dst] \subseteq plan.editors[p]
        BY <1>1, <2>1, <3>1, MovingPlan, ConstantFacts
      <4>2. QED
        BY <1>1, <4>1
    <3>2. QED
      BY <1>1, <2>2, <3>1
  <2>4. QED
    BY <2>1, <2>3
<1>4. QED
  BY <1>1, <1>2, <1>3 DEF Outside

LEMMA TheirsFacts ==
  ASSUME Base, Tidy, MovesOwn, Moving, NEW c \in Clients, NEW e \in Theirs(c)
  PROVE  /\ e \in WellEvents /\ Outside(Mine(c), e)
         /\ \A k \in Clients : Inside(Mine(k), e) \/ Outside(Mine(k), e)
<1>1. PICK j \in Clients \ {c} : e \in Hers(j)
  BY DEF Theirs
<1>2. QED
  BY <1>1, HersFacts

LEMMA HersKept ==
  ASSUME Next
  PROVE  /\ (Moving)' <=> Moving
         /\ \A k \in Clients : Hers(k)' = Hers(k) /\ Theirs(k)' = Theirs(k) /\ Mine(k)' = Mine(k)
<1>1. plan' = plan
  BY WhoChanges DEF Changes
<1>2. QED
  BY <1>1 DEF Moving, Hers, Theirs, Mine

LEMMA NobodyJoins ==
  ASSUME Base, Tidy, MovesOwn, Moving, Owned, Next, NEW c \in Clients
  PROVE  /\ mode'[c] \notin {"sync", "offer"}
         /\ mode'[c] = "live" => mode[c] = "live"
         /\ \A p \in Paths : ~Return(c, p) /\ ~Offer(c, p)
<1>1. mode[c] \notin {"sync", "offer"} /\ TypeOK
  BY DEF Owned, OwnedOf, Base
<1>2. ~Join(c)
  BY MovingPlan DEF Join
<1>3. ~TurnAround(c) /\ ~Register(c) /\ \A p \in Paths : ~Return(c, p) /\ ~Offer(c, p)
  BY <1>1 DEF TurnAround, Register, Return, Offer
<1>4. QED
  BY <1>1, <1>2, <1>3, ModeSteps

\* What an edit does to the user's folder and to her client's queue.
EditedHers(c, e) == /\ e \in Hers(c) /\ edits' \in Content \ {Absent} /\ Editable(copy[c], e)
                    /\ copy' = [copy EXCEPT ![c] = Applied(copy[c], [ev |-> e, val |-> edits'])]
                    /\ out' = [out EXCEPT ![c] = @ \o Reports(e)]
                    /\ up' = up

LEMMA EditIsHers ==
  ASSUME Base, NEW c \in Clients, NEW op \in plan.ops, NEW p \in Paths, NEW q \in Paths,
         Edit(c, [op |-> op, src |-> p, dst |-> q])
  PROVE  \E e \in Hers(c) : EditedHers(c, e)
<1> DEFINE e == [op |-> op, src |-> p, dst |-> q]
<1>1. e \in Event /\ e.op \in plan.ops /\ c \in plan.editors[e.dst] /\ c \in plan.editors[e.src]
  BY PlanType DEF Event, Edit, Base
<1>2. Editable(copy[c], e)
  BY DEF Edit
<1>3. Well(e)
  BY <1>1, <1>2 DEF Editable, Well, Event, Events
<1>4. e \in Hers(c)
  BY <1>1, <1>3 DEF Hers, WellEvents
<1>5. edits' \in Content \ {Absent}
  <2>1. edits' = edits + 1 /\ edits \in Nat
    BY PlanType DEF Edit, Base, TypeOK
  <2>2. QED
    BY <2>1, ConstantFacts DEF Content
<1>7. copy' = [copy EXCEPT ![c] = Effect(@, e, edits')] /\ out' = [out EXCEPT ![c] = @ \o Reports(e)] /\ up' = up
  BY DEF Edit
<1> HIDE DEF e
<1>8. ~Fails(copy[c], e)
  BY <1>2, <1>3 DEF Editable, Fails, Well
<1>9. Applied(copy[c], [ev |-> e, val |-> edits']) = Effect(copy[c], e, edits')
  BY <1>8 DEF Applied
<1>10. EditedHers(c, e)
  BY <1>2, <1>4, <1>5, <1>7, <1>9 DEF EditedHers
<1>11. QED
  BY <1>4, <1>10

LEMMA ReportsHers ==
  ASSUME NEW k \in Clients, NEW e \in Hers(k)
  PROVE  /\ Reports(e) \in Seq(Hers(k))
         /\ e.op = "COPY" => NewFile(e.dst) \in Hers(k)
<1>1. Well(e) /\ e \in Event /\ k \in plan.editors[e.dst]
  BY DEF Hers, WellEvents
<1>2. CASE e.op # "COPY"
  <2>1. Reports(e) = <<e>>
    BY <1>1, <1>2, ReportsFacts
  <2>2. QED
    BY <1>2, <2>1
<1>3. CASE e.op = "COPY"
  <2>1. Reports(e) = <<e, NewFile(e.dst)>> /\ Well(NewFile(e.dst)) /\ NewFile(e.dst) \in Event
    BY <1>1, <1>3, ReportsFacts
  <2>2. NewFile(e.dst).dst = e.dst /\ NewFile(e.dst).src = e.dst
    BY DEF NewFile
  <2>3. NewFile(e.dst) \in Hers(k)
    BY <1>1, <2>1, <2>2 DEF Hers, WellEvents
  <2>4. QED
    BY <2>1, <2>3
<1>4. QED
  BY <1>2, <1>3

\* How the line of k and its folder change: by an edit of k, or because its first event is
\* taken, or a message comes to k.
LEMMA LineEdited ==
  ASSUME Base, Next, Edits, NEW k \in Clients
  PROVE  /\ folder' = folder /\ down' = down /\ snd' = snd /\ queue' = queue /\ rcv' = rcv /\ mode' = mode
         /\ \/ Line(k)' = Line(k) /\ copy'[k] = copy[k]
            \/ \E e \in Hers(k) : EditedHers(k, e) /\ Line(k)' = Line(k) \o Reports(e)
<1>0. /\ TypeOK /\ EventsOK /\ out \in [Clients -> Seq(Event)] /\ up \in [Clients -> Seq(Message)] /\ copy \in [Clients -> Tree]
      /\ Evs(up[k]) \in Seq(Event) /\ out[k] \in Seq(Event) /\ up[k] \in Seq(Message)
  BY LineType DEF Base, TypeOK
<1>1. PICK c \in Clients, op \in plan.ops, p \in Paths, q \in Paths : Edit(c, [op |-> op, src |-> p, dst |-> q])
  BY DEF Edits
<1>2. PICK e \in Hers(c) : EditedHers(c, e)
  BY <1>1, EditIsHers
<1>3. folder' = folder /\ down' = down /\ snd' = snd /\ queue' = queue /\ rcv' = rcv /\ mode' = mode
  BY <1>1 DEF Edit
<1>4. Well(e) /\ up' = up /\ out'[k] = IF k = c THEN out[k] \o Reports(e) ELSE out[k]
  BY <1>0, <1>2 DEF EditedHers, Hers, WellEvents
<1>5. CASE k = c
  <2>1. Reports(e) \in Seq(Event)
    BY <1>4, ReportsFacts
  <2> DEFINE xa == Evs(up[k])
             xb == out[k]
             xc == Reports(e)
  <2>2. xa \in Seq(Event) /\ xb \in Seq(Event) /\ xc \in Seq(Event)
    BY <1>0, <2>1
  <2> HIDE DEF xa, xb, xc
  <2>3. xa \o (xb \o xc) = (xa \o xb) \o xc
    BY <2>2, JoinThree
  <2>4. Evs(up[k]) \o (out[k] \o Reports(e)) = (Evs(up[k]) \o out[k]) \o Reports(e)
    BY <2>3 DEF xa, xb, xc
  <2>5. Line(k)' = Line(k) \o Reports(e)
    BY <1>4, <1>5, <2>4 DEF Line
  <2>6. QED
    BY <1>2, <1>3, <1>5, <2>5
<1>6. CASE k # c
  <2>1. copy'[k] = copy[k]
    BY <1>0, <1>2, <1>6 DEF EditedHers
  <2>2. QED
    BY <1>3, <1>4, <1>6, <2>1 DEF Line
<1>7. QED
  BY <1>5, <1>6

LEMMA LineUnedited ==
  ASSUME Base, Next, ~Edits, NEW k \in Clients
  PROVE  Line(k)' = Line(k) \/ LineTaken(k)
<1>0. /\ TypeOK /\ EventsOK /\ out \in [Clients -> Seq(Event)] /\ up \in [Clients -> Seq(Message)] /\ copy \in [Clients -> Tree]
      /\ Evs(up[k]) \in Seq(Event) /\ out[k] \in Seq(Event) /\ up[k] \in Seq(Message)
  BY LineType DEF Base, TypeOK
<1>1. ASSUME NEW c \in Clients, ClientSend(c) PROVE Line(k)' = Line(k)
  <2>1. CASE c = k
    <3> DEFINE m == [ev |-> Head(out[k]), val |-> copy[k][Head(out[k]).dst]]
    <3>1. out[k] # <<>> /\ out'[k] = Tail(out[k]) /\ up'[k] = Append(up[k], m)
      BY <1>0, <1>1, <2>1 DEF ClientSend
    <3>2. m \in Message /\ m.ev = Head(out[k]) /\ Head(out[k]) \in Event
      <4>1. Head(out[k]) \in Event /\ Head(out[k]).dst \in Paths
        BY <1>0, <3>1, EventHead
      <4>2. QED
        BY <1>0, <4>1 DEF Message, Tree
    <3> HIDE DEF m
    <3>3. Evs(Append(up[k], m)) = Append(Evs(up[k]), Head(out[k]))
      BY <1>0, <3>2, EvsFacts
    <3>4. Append(Evs(up[k]), Head(out[k])) \o Tail(out[k]) = Evs(up[k]) \o out[k]
      <4> DEFINE xa == Evs(up[k])
                 xb == out[k]
      <4>1. xa \in Seq(Event) /\ xb \in Seq(Event) /\ xb # <<>> /\ Head(xb) \in Event
        BY <1>0, <3>1, <3>2
      <4> HIDE DEF xa, xb
      <4>2. Append(xa, Head(xb)) \o Tail(xb) = xa \o xb
        BY <4>1, JoinFacts
      <4>3. QED
        BY <4>2 DEF xa, xb
    <3>5. QED
      BY <3>1, <3>3, <3>4 DEF Line
  <2>2. CASE c # k
    BY <1>0, <1>1, <2>2 DEF ClientSend, Line
  <2>3. QED
    BY <2>1, <2>2
<1>2. ASSUME NEW c \in Clients, StartFile(c) \/ StartCutFile(c) \/ ReceivePath(c) PROVE Line(k)' = Line(k) \/ LineTaken(k)
  <2>1. CASE c # k
    BY <1>0, <1>2, <2>1 DEF StartFile, StartCutFile, ReceivePath, Line
  <2>2. CASE c = k
    BY <1>2, <2>2, LineIsTaken
  <2>3. QED
    BY <2>1, <2>2
<1>3. ASSUME out' = out, up' = up PROVE Line(k)' = Line(k)
  BY <1>3 DEF Line
<1>4. QED
  BY <1>1, <1>2, <1>3, WhoChanges DEF Changes

\* How what is on the way to c changes.
LEMMA PipeCases ==
  ASSUME Base, Next, NEW c \in Clients, mode[c] = "live", mode'[c] = "live"
  PROVE  \/ Pipe(c)' = Pipe(c) /\ \A j \in Clients : ~Enqueue(j, c)
         \/ ClientReceive(c) /\ Pipe(c) # <<>> /\ Head(Pipe(c)) = Head(down[c]).ev /\ Pipe(c)' = Tail(Pipe(c))
         \/ \E j \in Clients \ {c} : Enqueue(j, c) /\ Pipe(c)' = Append(Pipe(c), rcv[j].ev) /\ Handling(j)
<1>1. CASE ClientReceive(c)
  BY <1>1, PipeReceive
<1>2. ASSUME NEW j \in Clients, Enqueue(j, c)
      PROVE  j # c /\ Pipe(c)' = Append(Pipe(c), rcv[j].ev) /\ Handling(j)
  <2>1. rcv[j].pc = "bcast" /\ c \in rcv[j].todo
    BY <1>2 DEF Enqueue
  <2>2. rcv[j].todo \subseteq Clients \ {j}
    BY <2>1 DEF Base, EventsOK
  <2>3. QED
    BY <1>2, <2>1, <2>2, PipeEnqueue DEF Handling
<1>3. CASE ~ClientReceive(c) /\ \A j \in Clients : ~Enqueue(j, c)
  BY <1>3, PipeKept
<1>4. QED
  BY <1>1, <1>2, <1>3

\* An event of j that has come to the server's folder.
Lands(j, m) == /\ Sane(m) /\ folder' = Applied(folder, m) /\ m.ev \in Hers(j)
               /\ StartFile(j) \/ StartCutFile(j) \/ ReceivePath(j)
               /\ LineTaken(j) /\ m.ev = Head(Line(j)) /\ m.ev = Head(up[j]).ev

LEMMA LandsFacts ==
  ASSUME Base, Owned, NEW j \in Clients, StartFile(j) \/ StartCutFile(j) \/ ReceivePath(j)
  PROVE  \E m : Lands(j, m)
<1>0. TypeOK /\ EventsOK /\ folder \in Tree /\ rcv[j] \in Receiver
  BY DEF Base, TypeOK
<1>1. LineTaken(j) /\ Line(j) # <<>> /\ Head(Line(j)) = Head(up[j]).ev
  BY LineIsTaken DEF LineTaken
<1>2. Head(Line(j)) \in Hers(j)
  <2>1. Line(j) \in Seq(Hers(j))
    BY DEF Owned, OwnedOf
  <2> DEFINE es == Line(j)
             S == Hers(j)
  <2>2. es \in Seq(S) /\ es # <<>>
    BY <1>1, <2>1
  <2> HIDE DEF es, S
  <2>3. Head(es) \in S
    BY <2>2
  <2>4. QED
    BY <2>3 DEF es, S
<1>3. Torn \in Content /\ Torn # Absent
  BY ConstantFacts DEF Content
<1>4. up[j] # <<>> /\ Head(up[j]) \in OwnMessage(j)
  BY <1>0, Heads DEF StartFile, StartCutFile, ReceivePath
<1> DEFINE m == Head(up[j])
           mt == [ev |-> m.ev, val |-> Torn]
<1>5. m \in Message /\ Well(m.ev) /\ m.ev \in Event
  BY <1>4, Members
<1>6. Sane(mt) /\ mt.ev = m.ev
  BY <1>3, <1>5 DEF Sane, Full, Message
<1>7. CASE StartFile(j)
  <2>1. m.ev.op = "NEW_FILE" /\ Open(j, m) /\ rcv[j].pc = "idle"
    BY <1>7 DEF StartFile
  <2>2. rcv[j].pc # "writing"
    BY <2>1
  <2> HIDE DEF m
  <2>3. folder' = Applied(folder, mt)
    BY <1>0, <1>5, <2>1, <2>2, OpenFacts
  <2>4. Lands(j, mt)
    BY <1>1, <1>2, <1>6, <1>7, <2>3 DEF Lands, m
  <2>5. QED
    BY <2>4
<1>8. CASE StartCutFile(j)
  <2>1. m.ev.op = "NEW_FILE"
    BY <1>8 DEF StartCutFile
  <2>2. IF Fails(folder, m.ev) THEN folder' = folder ELSE folder' = [folder EXCEPT ![m.ev.dst] = Torn]
    BY <1>8 DEF StartCutFile
  <2> HIDE DEF m
  <2>3. folder' = Applied(folder, mt)
    BY <2>1, <2>2 DEF Applied, Effect
  <2>4. Lands(j, mt)
    BY <1>1, <1>2, <1>6, <1>8, <2>3 DEF Lands, m
  <2>5. QED
    BY <2>4
<1>9. CASE ReceivePath(j)
  <2>1. m.ev.op # "NEW_FILE"
    BY <1>9 DEF ReceivePath
  <2>2. IF Fails(folder, m.ev) THEN folder' = folder ELSE folder' = Effect(folder, m.ev, m.val)
    BY <1>9 DEF ReceivePath
  <2> HIDE DEF m
  <2>3. folder' = Applied(folder, m) /\ Sane(m)
    BY <1>5, <2>1, <2>2 DEF Applied, Sane, Full
  <2>4. Lands(j, m)
    BY <1>1, <1>2, <1>9, <2>3 DEF Lands, m
  <2>5. QED
    BY <2>4
<1>10. QED
  BY <1>7, <1>8, <1>9

\* The end of an upload changes no name.
LEMMA FinishAlike ==
  ASSUME Base, Owned, NEW j \in Clients, FinishFile(j)
  PROVE  /\ Alike(Paths, folder', folder)
         /\ rcv[j].pc = "writing" /\ rcv'[j].pc = "saved" /\ rcv'[j].ev = rcv[j].ev
<1>0. TypeOK /\ EventsOK /\ folder \in Tree /\ rcv \in [Clients -> Receiver]
  BY DEF Base, TypeOK
<1>1. rcv[j].pc = "writing" /\ rcv[j].ino = rcv[j].ev.dst /\ folder[rcv[j].ino] # Absent
      /\ rcv[j].ev \in Hers(j) /\ rcv[j].val # Absent
  BY <1>0 DEF FinishFile, Owned, OwnedOf, Handling, EventsOK
<1>2. rcv[j].ev.dst \in Paths
  BY <1>1 DEF Hers, WellEvents, Event
<1>3. rcv[j].ino # Absent
  BY <1>1, <1>2, ReplicationAssumption
<1>4. PICK v \in {rcv[j].val} \cup (IF rcv[j].clash THEN {Torn} ELSE {}) : folder' = [folder EXCEPT ![rcv[j].ino] = v]
  BY <1>3 DEF FinishFile
<1>5. v # Absent
  BY <1>1, <1>4, ConstantFacts
<1>6. Alike(Paths, folder', folder) /\ folder'[rcv[j].ev.dst] # Absent
  BY <1>0, <1>1, <1>2, <1>4, <1>5 DEF Alike, Tree
<1>7. rcv' = [rcv EXCEPT ![j] = IF folder'[@.ev.dst] = Absent THEN Dead(TRUE) ELSE [pc |-> "saved", ev |-> @.ev]]
  BY DEF FinishFile
<1>8. rcv'[j] = [pc |-> "saved", ev |-> rcv[j].ev]
  BY <1>0, <1>6, <1>7
<1>9. QED
  BY <1>1, <1>6, <1>8

\* What the server's folder has to do with its receivers.
LEMMA FolderCases ==
  ASSUME Base, Tidy, MovesOwn, Moving, Owned, Next
  PROVE  \/ folder' = folder
         \/ \E j \in Clients : FinishFile(j) /\ Alike(Paths, folder', folder)
         \/ \E j \in Clients : \E m : Lands(j, m)
  BY LandsFacts, FinishAlike, NobodyJoins, WhoChanges DEF Changes

\* The other receivers leave the file alone that k is writing.
LEMMA FileKept ==
  ASSUME Base, Tidy, MovesOwn, Moving, Owned, Next, NEW k \in Clients, rcv[k].pc = "writing", rcv'[k].pc = "writing"
  PROVE  rcv'[k].ino = rcv[k].ino /\ rcv'[k].ev = rcv[k].ev
<1>0. TypeOK /\ EventsOK /\ rcv \in [Clients -> Receiver] /\ rcv[k] \in Receiver
  BY DEF Base, TypeOK
<1>1. rcv[k].ino = rcv[k].ev.dst /\ rcv[k].ev \in Hers(k)
  BY DEF Owned, OwnedOf, Handling
<1>2. ASSUME NEW j \in Clients, NEW m, Open(j, m), j # k PROVE rcv'[k].ino = rcv[k].ino /\ rcv'[k].ev = rcv[k].ev
  <2>1. rcv'[k] = rcv[k] \/ rcv'[k] = [rcv[k] EXCEPT !.clash = TRUE]
    BY <1>0, <1>2 DEF Open
  <2>2. QED
    BY <1>0, <2>1, ClashFacts
<1>3. ASSUME NEW j \in Clients, StartFile(j) PROVE rcv'[k].ino = rcv[k].ino /\ rcv'[k].ev = rcv[k].ev
  BY <1>2, <1>3 DEF StartFile
<1>4. ASSUME NEW j \in Clients, StartCutFile(j) PROVE rcv'[k].ino = rcv[k].ino /\ rcv'[k].ev = rcv[k].ev
  <2>1. j # k
    BY <1>4 DEF StartCutFile
  <2>2. rcv'[k] = rcv[k] \/ rcv'[k] = [rcv[k] EXCEPT !.clash = TRUE]
    BY <1>0, <1>4, <2>1 DEF StartCutFile
  <2>3. QED
    BY <1>0, <2>2, ClashFacts
<1>5. ASSUME NEW j \in Clients, ReceivePath(j) PROVE rcv'[k].ino = rcv[k].ino /\ rcv'[k].ev = rcv[k].ev
  <2>1. j # k
    BY <1>5 DEF ReceivePath
  <2>2. PICK m : Lands(j, m)
    BY <1>5, LandsFacts
  <2> DEFINE e == Head(up[j]).ev
  <2>3. e \in Hers(j)
    BY <2>2 DEF Lands
  <2>4. rcv'[k] = rcv[k] \/ rcv'[k] = Retarget(e, rcv[k])
    BY <1>0, <1>5, <2>1 DEF ReceivePath
  <2> HIDE DEF e
  <2>5. Outside(Mine(k), e) /\ rcv[k].ino \in Mine(k)
    BY <1>1, <2>1, <2>3, HersFacts DEF Inside
  <2>6. rcv[k].ino \notin Affected(e) /\ e.src \in Affected(e) /\ e.dst \in Affected(e)
    BY <2>5 DEF Outside, Affected
  <2>7. Retarget(e, rcv[k]) = rcv[k]
    BY <2>6 DEF Retarget
  <2>8. QED
    BY <2>4, <2>7
<1>6. ASSUME NEW j \in Clients,
             FinishFile(j) \/ StartBroadcast(j) \/ (\E i \in Clients : Enqueue(j, i)) \/ EndBroadcast(j)
      PROVE  rcv'[k] = rcv[k]
  <2>1. CASE j # k
    BY <1>0, <1>6, <2>1 DEF FinishFile, StartBroadcast, Enqueue, EndBroadcast
  <2>2. CASE j = k
    BY <1>0, <1>6, <2>2, OwnSteps DEF Dead
  <2>3. QED
    BY <2>1, <2>2
<1>7. QED
  BY <1>3, <1>4, <1>5, <1>6, NobodyJoins, WhoChanges DEF Changes

LEMMA FileThere ==
  ASSUME Base, Base', Tidy, MovesOwn, Moving, Owned, Next, NEW k \in Clients, rcv'[k].pc = "writing"
  PROVE  rcv'[k].ino = rcv'[k].ev.dst /\ folder'[rcv'[k].ino] # Absent
<1>0. TypeOK /\ EventsOK /\ rcv \in [Clients -> Receiver] /\ rcv[k] \in Receiver /\ folder \in Tree
  BY DEF Base, TypeOK
<1>1. CASE rcv[k].pc = "writing"
  <2>1. rcv[k].ino = rcv[k].ev.dst /\ folder[rcv[k].ino] # Absent /\ rcv[k].ev \in Hers(k)
    BY <1>1 DEF Owned, OwnedOf, Handling
  <2>2. rcv'[k].ino = rcv[k].ino /\ rcv'[k].ev = rcv[k].ev
    BY <1>1, FileKept
  <2>3. rcv[k].ino \in Mine(k) /\ rcv[k].ino \in Paths
    BY <2>1, HersFacts DEF Inside
  <2>4. ASSUME Alike(Paths, folder', folder) PROVE folder'[rcv[k].ino] # Absent
    BY <2>1, <2>3, <2>4 DEF Alike
  <2>5. ASSUME NEW j \in Clients, NEW m, Lands(j, m) PROVE folder'[rcv[k].ino] # Absent
    <3>1. j # k
      BY <1>1, <2>5 DEF Lands, StartFile, StartCutFile, ReceivePath
    <3>2. Outside(Mine(k), m.ev) /\ Mine(k) \subseteq Paths
      BY <2>5, <3>1, HersFacts DEF Lands, Mine
    <3>3. Alike(Mine(k), folder', folder)
      BY <1>0, <2>5, <3>2, AppliedOutside DEF Lands
    <3>4. QED
      BY <2>1, <2>3, <3>3 DEF Alike
  <2>6. folder'[rcv[k].ino] # Absent
    BY <2>1, <2>4, <2>5, FolderCases
  <2>7. QED
    BY <2>1, <2>2, <2>6
<1>2. CASE rcv[k].pc # "writing"
  <2>1. OwnStep(k)
    BY <1>2, WhoseStep DEF Base, Kept
  <2>2. StartFile(k)
    <3>1. ~StartCutFile(k) /\ ~ReceivePath(k) /\ ~FinishFile(k) /\ ~StartBroadcast(k) /\ ~EndBroadcast(k)
          /\ \A i \in Clients : ~Enqueue(k, i)
      BY <1>0, OwnSteps DEF Base, Dead, Idle
    <3>2. QED
      BY <2>1, <3>1, NobodyJoins DEF OwnStep
  <2> DEFINE m == Head(up[k])
  <2>3. Open(k, m)
    BY <2>2 DEF StartFile
  <2>4. m.ev.dst \in Paths
    <3>1. \E n : Lands(k, n)
      BY <2>2, LandsFacts
    <3>2. m.ev \in Hers(k)
      BY <3>1 DEF Lands
    <3>3. QED
      BY <3>2, HersFacts
  <2> HIDE DEF m
  <2>5. CASE Fails(folder, m.ev)
    <3>1. rcv'[k] = Dead(TRUE)
      BY <1>0, <2>3, <2>5 DEF Open
    <3>2. QED
      BY <3>1 DEF Dead
  <2>6. CASE ~Fails(folder, m.ev)
    <3>1. folder' = [folder EXCEPT ![m.ev.dst] = Torn]
      BY <2>3, <2>6 DEF Open
    <3>2. rcv'[k].ino = m.ev.dst /\ rcv'[k].ev = m.ev
      BY <1>0, <2>3, <2>6 DEF Open
    <3>3. folder'[m.ev.dst] = Torn
      BY <1>0, <2>4, <3>1 DEF Tree
    <3>4. QED
      BY <3>2, <3>3, ConstantFacts
  <2>7. QED
    BY <2>5, <2>6
<1>3. QED
  BY <1>1, <1>2

LEMMA SeqParts ==
  ASSUME NEW S, NEW es \in Seq(S)
  PROVE  /\ es # <<>> => Head(es) \in S /\ Tail(es) \in Seq(S)
         /\ \A e \in S : Append(es, e) \in Seq(S)
         /\ \A fs \in Seq(S) : es \o fs \in Seq(S)
         /\ \A T : S \subseteq T => es \in Seq(T)
  OBVIOUS

LEMMA OwnedLine ==
  ASSUME Base, Owned, Next, NEW k \in Clients
  PROVE  Line(k)' \in Seq(Hers(k))
<1>1. Line(k) \in Seq(Hers(k))
  BY DEF Owned, OwnedOf
<1>2. ASSUME NEW e \in Hers(k), Line(k)' = Line(k) \o Reports(e) PROVE Line(k)' \in Seq(Hers(k))
  <2>1. Reports(e) \in Seq(Hers(k))
    BY ReportsHers
  <2>2. QED
    BY <1>1, <1>2, <2>1, SeqParts
<1>3. CASE LineTaken(k)
  <2>1. Line(k)' = Tail(Line(k)) /\ Line(k) # <<>>
    BY <1>3 DEF LineTaken
  <2>2. QED
    BY <1>1, <2>1, SeqParts
<1>4. QED
  BY <1>1, <1>2, <1>3, LineEdited, LineUnedited

LEMMA OwnedPipe ==
  ASSUME Base, Owned, Next, NEW c \in Clients, mode[c] = "live", mode'[c] = "live"
  PROVE  Pipe(c)' \in Seq(Theirs(c))
<1>1. Pipe(c) \in Seq(Theirs(c))
  BY DEF Owned, OwnedOf
<1>2. CASE Pipe(c) # <<>> /\ Pipe(c)' = Tail(Pipe(c))
  BY <1>1, <1>2, SeqParts
<1>3. ASSUME NEW j \in Clients \ {c}, Handling(j), Pipe(c)' = Append(Pipe(c), rcv[j].ev) PROVE Pipe(c)' \in Seq(Theirs(c))
  <2>1. rcv[j].ev \in Hers(j)
    BY <1>3 DEF Owned, OwnedOf
  <2>2. rcv[j].ev \in Theirs(c)
    BY <2>1 DEF Theirs, Hers
  <2>3. QED
    BY <1>1, <1>3, <2>2, SeqParts
<1>4. QED
  BY <1>1, <1>2, <1>3, PipeCases

LEMMA OwnedHandling ==
  ASSUME Base, Tidy, MovesOwn, Moving, Owned, Next, NEW k \in Clients, Handling(k)'
  PROVE  rcv'[k].ev \in Hers(k)
<1>0. TypeOK /\ EventsOK
  BY DEF Base
<1>1. Handling(k) => rcv[k].ev \in Hers(k)
  BY DEF Owned, OwnedOf
<1>2. rcv'[k].pc \in {"writing", "saved", "bcast"}
  BY DEF Handling
<1>3. ASSUME rcv'[k].pc = rcv[k].pc, rcv'[k].ev = rcv[k].ev PROVE rcv'[k].ev \in Hers(k)
  BY <1>1, <1>2, <1>3 DEF Handling
<1>4. CASE Kept(k)
  BY <1>3, <1>4 DEF Kept
<1>5. ASSUME StartFile(k) \/ ReceivePath(k) PROVE rcv'[k].ev \in Hers(k)
  <2>1. \E m : Lands(k, m)
    BY <1>5, LandsFacts
  <2>2. Head(up[k]).ev \in Hers(k)
    BY <2>1 DEF Lands
  <2>3. rcv'[k].ev = Head(up[k]).ev
    BY <1>0, <1>2, <1>5, OwnSteps DEF Dead
  <2>4. QED
    BY <2>2, <2>3
<1>6. ASSUME FinishFile(k) \/ StartBroadcast(k) \/ \E i \in Clients : Enqueue(k, i) PROVE rcv'[k].ev \in Hers(k)
  <2>1. rcv'[k].ev = rcv[k].ev /\ Handling(k)
    BY <1>0, <1>2, <1>6, OwnSteps DEF Dead, Handling
  <2>2. QED
    BY <1>1, <2>1
<1>7. ~StartCutFile(k) /\ ~EndBroadcast(k)
  BY <1>0, <1>2, OwnSteps DEF Dead, Idle
<1>8. QED
  BY <1>0, <1>4, <1>5, <1>6, <1>7, WhoseStep, NobodyJoins DEF OwnStep, Base

LEMMA OwnedStep ==
  ASSUME Base, Base', Tidy, MovesOwn, Moving, Owned, Next
  PROVE  Owned'
<1> SUFFICES ASSUME NEW c \in Clients PROVE OwnedOf(c)'
  BY DEF Owned
<1>1. Hers(c)' = Hers(c) /\ Theirs(c)' = Theirs(c)
  BY HersKept
<1>2. mode'[c] \notin {"sync", "offer"} /\ (mode'[c] = "live" => mode[c] = "live")
  BY NobodyJoins
<1>3. Line(c)' \in Seq(Hers(c)')
  BY <1>1, OwnedLine
<1>4. mode'[c] = "live" => Pipe(c)' \in Seq(Theirs(c)')
  BY <1>1, <1>2, OwnedPipe
<1>5. Handling(c)' => rcv'[c].ev \in Hers(c)'
  BY <1>1, OwnedHandling
<1>6. rcv'[c].pc = "writing" => rcv'[c].ino = rcv'[c].ev.dst /\ folder'[rcv'[c].ino] # Absent
  BY FileThere
<1>7. QED
  BY <1>2, <1>3, <1>4, <1>5, <1>6 DEF OwnedOf

-----------------------------------------------------------------------------
(* Moves: names on their way to the server *)

UpNamesOf(k) == mode[k] = "live" => Alike(Mine(k), Shows(folder, Line(k)), copy[k])
UpNames == \A k \in Clients : UpNamesOf(k)

LEMMA LineSeq ==
  ASSUME Base, Tidy, MovesOwn, Moving, NEW k \in Clients, NEW es \in Seq(Hers(k))
  PROVE  es \in Seq(WellEvents) /\ \A i \in 1 .. Len(es) : Inside(Mine(k), es[i]) \/ Outside(Mine(k), es[i])
<1>1. Hers(k) \subseteq WellEvents
  BY DEF Hers
<1>2. \A i \in 1 .. Len(es) : es[i] \in Hers(k)
  OBVIOUS
<1>3. \A i \in 1 .. Len(es) : Inside(Mine(k), es[i])
  BY <1>2, HersFacts
<1>4. QED
  BY <1>1, <1>3, SeqParts

LEMMA PipeSeq ==
  ASSUME Base, Tidy, MovesOwn, Moving, NEW c \in Clients, NEW es \in Seq(Theirs(c)), NEW k \in Clients
  PROVE  es \in Seq(WellEvents) /\ \A i \in 1 .. Len(es) : Inside(Mine(k), es[i]) \/ Outside(Mine(k), es[i])
<1>1. Theirs(c) \subseteq WellEvents
  BY DEF Theirs
<1>2. \A i \in 1 .. Len(es) : es[i] \in Theirs(c)
  OBVIOUS
<1>3. \A i \in 1 .. Len(es) : Inside(Mine(k), es[i]) \/ Outside(Mine(k), es[i])
  BY <1>2, TheirsFacts
<1>4. QED
  BY <1>1, <1>3, SeqParts

\* A message on the way to c is about paths of others, or is not for c.
LEMMA MessageTheirs ==
  ASSUME Base, Owned, NEW c \in Clients, mode[c] = "live", ClientReceive(c)
  PROVE  /\ Sane(Head(down[c])) /\ Head(down[c]).ev \in Theirs(c)
         /\ Pipe(c) # <<>> /\ Head(Pipe(c)) = Head(down[c]).ev /\ Pipe(c)' = Tail(Pipe(c))
         /\ mode'[c] = "live" => copy' = [copy EXCEPT ![c] = Applied(copy[c], Head(down[c]))]
<1>0. TypeOK /\ EventsOK /\ mode \in [Clients -> Modes]
  BY DEF Base, TypeOK
<1>1. Pipe(c) # <<>> /\ Head(Pipe(c)) = Head(down[c]).ev /\ Pipe(c)' = Tail(Pipe(c))
  BY PipeReceive
<1>2. Pipe(c) \in Seq(Theirs(c))
  BY DEF Owned, OwnedOf
<1>3. Head(Pipe(c)) \in Theirs(c)
  BY <1>1, <1>2, SeqParts
<1>4. Head(down[c]) \in OthersMessage(c)
  BY <1>0, Heads DEF ClientReceive
<1>5. Sane(Head(down[c]))
  BY <1>4, Members DEF Sane, OthersMessage
<1>6. mode'[c] = "live" => copy' = [copy EXCEPT ![c] = Applied(copy[c], Head(down[c]))]
  <2>1. CASE Fails(copy[c], Head(down[c]).ev)
    BY <1>0, <2>1 DEF ClientReceive
  <2>2. CASE ~Fails(copy[c], Head(down[c]).ev)
    BY <2>2 DEF ClientReceive, Applied
  <2>3. QED
    BY <2>1, <2>2
<1>7. QED
  BY <1>1, <1>3, <1>5, <1>6

\* How the folder of k changes on the paths of another client, or on her own when she does not edit.
LEMMA CopyCases ==
  ASSUME Base, Tidy, MovesOwn, Moving, Owned, Next, ~Edits, NEW k \in Clients, mode[k] = "live", mode'[k] = "live"
  PROVE  (copy'[k] = copy[k] /\ ~ClientReceive(k))
         \/ (ClientReceive(k) /\ Alike(Mine(k), copy'[k], copy[k]))
<1>0. TypeOK /\ copy \in [Clients -> Tree]
  BY DEF Base, TypeOK
<1>1. CASE ClientReceive(k)
  <2>1. Sane(Head(down[k])) /\ Head(down[k]).ev \in Theirs(k) /\ copy'[k] = Applied(copy[k], Head(down[k]))
    BY <1>0, <1>1, MessageTheirs
  <2>2. Outside(Mine(k), Head(down[k]).ev) /\ Mine(k) \subseteq Paths
    BY <2>1, TheirsFacts DEF Mine
  <2> DEFINE m == Head(down[k])
  <2>3. Sane(m) /\ Outside(Mine(k), m.ev) /\ copy'[k] = Applied(copy[k], m)
    BY <2>1, <2>2
  <2> HIDE DEF m
  <2>4. Alike(Mine(k), copy'[k], copy[k])
    BY <1>0, <2>2, <2>3, AppliedOutside
  <2>5. QED
    BY <1>1, <2>4
<1>2. CASE ~ClientReceive(k)
  <2>1. ASSUME NEW c \in Clients, ClientReceive(c) PROVE copy'[k] = copy[k]
    BY <1>0, <1>2, <2>1 DEF ClientReceive
  <2>2. copy'[k] = copy[k]
    BY <2>1, NobodyJoins, WhoChanges DEF Changes
  <2>3. QED
    BY <1>2, <2>2
<1>3. QED
  BY <1>1, <1>2

\* What an edit of k makes of two folders that were alike.
LEMMA EditAlike ==
  ASSUME Base, Tidy, MovesOwn, Moving, NEW k \in Clients, NEW e \in Hers(k), NEW es \in Seq(WellEvents),
         NEW t, Shows(t, es) \in Tree, NEW u \in Tree, Alike(Mine(k), Shows(t, es), u),
         Editable(u, e), NEW v \in Content \ {Absent}
  PROVE  Alike(Mine(k), Shows(t, es \o Reports(e)), Applied(u, [ev |-> e, val |-> v]))
<1> DEFINE P == Mine(k)
           m == [ev |-> e, val |-> v]
           s == Shows(t, es)
<1>1. WithParents(P) /\ P \subseteq Paths
  BY MineFacts
<1>2. e \in WellEvents /\ Well(e) /\ e \in Event /\ Inside(P, e) /\ e.dst \in Paths
  BY HersFacts
<1>3. Sane(m) /\ m.ev = e
  BY <1>2 DEF Sane, Full, Message
<1>4. Sane(Token(e)) /\ Token(e).ev = e
  BY <1>2, TokenFacts
<1>5. s \in Tree /\ Alike(P, s, u)
  OBVIOUS
<1> HIDE DEF P, m, s
<1>6. Alike(P, Applied(s, Token(e)), Applied(u, m))
  BY <1>1, <1>2, <1>3, <1>4, <1>5, AppliedAlike
<1>7. Shows(t, Append(es, e)) = Applied(s, Token(e))
  BY <1>2, ShowsAppend DEF s
<1>8. CASE e.op # "COPY"
  <2>1. Reports(e) = <<e>>
    BY <1>2, <1>8, ReportsFacts
  <2>2. es \o <<e>> = Append(es, e)
    BY <1>2, AppendBoth
  <2>3. QED
    BY <1>6, <1>7, <2>1, <2>2 DEF P, m
<1>9. CASE e.op = "COPY"
  <2> DEFINE f == NewFile(e.dst)
             w == Applied(s, Token(e))
  <2>1. Reports(e) = <<e, f>> /\ f \in Hers(k) /\ f.op = "NEW_FILE" /\ f.dst = e.dst /\ f.src = e.dst
    BY <1>2, <1>9, ReportsFacts, ReportsHers DEF NewFile
  <2>2. f \in WellEvents
    BY <2>1, HersFacts
  <2> HIDE DEF f
  <2>3. es \o <<e, f>> = Append(Append(es, e), f)
    BY <1>2, <2>2, AppendBoth
  <2>4. Append(es, e) \in Seq(WellEvents)
    BY <1>2
  <2>5. Shows(t, Append(Append(es, e), f)) = Applied(w, Token(f))
    <3> DEFINE fs == Append(es, e)
    <3>1. fs \in Seq(WellEvents)
      BY <2>4
    <3>2. Shows(t, fs) = w
      BY <1>7
    <3> HIDE DEF fs, w
    <3>3. Shows(t, Append(fs, f)) = Applied(Shows(t, fs), Token(f))
      BY <2>2, <3>1, ShowsAppend
    <3>4. QED
      BY <3>2, <3>3 DEF fs
  <2>6. w \in Tree
    BY <1>4, <1>5, AppliedType
  <2>7. w[e.dst] # Absent
    <3>1. ~NoParent(u, e.dst)
      BY DEF Editable
    <3>2. ~NoParent(s, e.dst)
      BY <1>1, <1>2, <1>5, <3>1 DEF NoParent, Alike, Inside, WithParents
    <3>3. ~Fails(s, e) /\ e.dst \in Affected(e)
      BY <1>9 DEF Fails, Affected
    <3>4. ~Gone(s, e, e.dst)
      BY <1>2, <1>9, <3>2, <3>3 DEF Gone, Well
    <3>5. QED
      BY <1>2, <1>4, <1>5, <3>4, AppliedGone
  <2>8. Alike(P, Applied(w, Token(f)), w)
    <3> HIDE DEF w
    <3> SUFFICES ASSUME NEW p \in P PROVE Applied(w, Token(f))[p] = Absent <=> w[p] = Absent
      BY DEF Alike
    <3>1. Applied(w, Token(f))[p] = Absent <=> Gone(w, f, p)
      BY <1>1, <2>2, <2>6, TokenFacts, AppliedGone
    <3>2. Affected(f) = {e.dst}
      BY <2>1 DEF Affected
    <3>3. QED
      BY <2>1, <2>7, <3>1, <3>2 DEF Gone
  <2>9. Alike(P, Applied(w, Token(f)), Applied(u, m))
    BY <1>6, <2>8, AlikeFacts
  <2>10. QED
    BY <2>1, <2>3, <2>5, <2>9 DEF P, m
<1>10. QED
  BY <1>8, <1>9

LEMMA UpNamesStep ==
  ASSUME Base, Base', Tidy, MovesOwn, Moving, Owned, UpNames, Next
  PROVE  UpNames'
<1> SUFFICES ASSUME NEW k \in Clients, mode'[k] = "live"
             PROVE  Alike(Mine(k)', Shows(folder', Line(k)'), copy'[k])
  BY DEF UpNames, UpNamesOf
<1>0. /\ folder \in Tree /\ copy \in [Clients -> Tree] /\ folder' \in Tree /\ copy[k] \in Tree
      /\ Mine(k)' = Mine(k) /\ WithParents(Mine(k)) /\ Mine(k) \subseteq Paths
      /\ mode[k] = "live"
  BY HersKept, MineFacts, NobodyJoins DEF Base, TypeOK
<1> DEFINE P == Mine(k)
           es == Line(k)
           s == Shows(folder, es)
<1>1. es \in Seq(Hers(k))
  BY DEF Owned, OwnedOf
<1>2. es \in Seq(WellEvents) /\ \A i \in 1 .. Len(es) : Inside(P, es[i]) \/ Outside(P, es[i])
  <2> HIDE DEF es
  <2>1. QED
    BY <1>1, LineSeq
<1>3. Alike(P, s, copy[k]) /\ WithParents(P)
  BY <1>0 DEF UpNames, UpNamesOf
<1>4. s \in Tree
  <2> HIDE DEF P, es
  <2>1. QED
    BY <1>0, <1>2, <1>3, ShowsAlike, AlikeFacts DEF s
<1>5. CASE Edits
  <2>1. folder' = folder
    BY <1>5, LineEdited
  <2>2. CASE Line(k)' = Line(k) /\ copy'[k] = copy[k]
    BY <1>0, <1>3, <2>1, <2>2
  <2>3. ASSUME NEW e \in Hers(k), EditedHers(k, e), Line(k)' = Line(k) \o Reports(e)
        PROVE  Alike(P, Shows(folder', Line(k)'), copy'[k])
    <3> DEFINE v == edits'
    <3>1. copy'[k] = Applied(copy[k], [ev |-> e, val |-> v]) /\ v \in Content \ {Absent} /\ Editable(copy[k], e)
      BY <1>0, <2>3 DEF EditedHers
    <3>2. es \in Seq(WellEvents) /\ Shows(folder, es) \in Tree /\ Alike(Mine(k), Shows(folder, es), copy[k])
      BY <1>2, <1>3, <1>4
    <3> HIDE DEF v, es, P, s
    <3>3. Alike(Mine(k), Shows(folder, es \o Reports(e)), Applied(copy[k], [ev |-> e, val |-> v]))
      BY <1>0, <3>1, <3>2, EditAlike
    <3>4. QED
      BY <2>1, <2>3, <3>1, <3>3 DEF es, P
  <2>4. QED
    BY <1>0, <1>5, <2>2, <2>3, LineEdited
<1>6. CASE ~Edits
  <2>1. Alike(P, copy'[k], copy[k])
    BY <1>0, <1>6, CopyCases, AlikeFacts
  <2>2. ASSUME NEW m, Lands(k, m) PROVE Alike(P, Shows(folder', Line(k)'), s)
    <3>1. Line(k)' = Tail(es) /\ es # <<>> /\ m.ev = Head(es) /\ Sane(m) /\ folder' = Applied(folder, m)
      BY <2>2 DEF Lands, LineTaken
    <3> HIDE DEF es, P
    <3>2. Head(es) \in Hers(k) /\ Tail(es) \in Seq(Hers(k))
      BY <1>1, <3>1, SeqParts
    <3>3. Head(es) \in WellEvents /\ Inside(P, Head(es))
      BY <3>2, HersFacts DEF P
    <3>4. Sane(Token(Head(es))) /\ Token(Head(es)).ev = Head(es)
      BY <3>3, TokenFacts
    <3> DEFINE t == Applied(folder, Token(Head(es)))
    <3>5. Alike(P, folder', t)
      BY <1>0, <1>3, <3>1, <3>3, <3>4, AppliedAlike, AlikeFacts
    <3>6. t \in Tree
      BY <1>0, <3>4, AppliedType
    <3>7. s = Shows(t, Tail(es))
      BY <1>2, <3>1, ShowsHead DEF s
    <3> DEFINE fs == Tail(es)
    <3>8. fs \in Seq(WellEvents) /\ \A i \in 1 .. Len(fs) : Inside(P, fs[i]) \/ Outside(P, fs[i])
      <4>1. fs \in Seq(Hers(k))
        BY <3>2
      <4> HIDE DEF fs
      <4>2. QED
        BY <4>1, LineSeq DEF P
    <3> HIDE DEF t, fs
    <3>9. Alike(P, Shows(folder', fs), Shows(t, fs))
      BY <1>0, <1>3, <3>5, <3>6, <3>8, ShowsAlike
    <3>10. QED
      BY <3>1, <3>7, <3>9 DEF fs
  <2>3. ASSUME ~(StartFile(k) \/ StartCutFile(k) \/ ReceivePath(k)) PROVE Alike(P, Shows(folder', Line(k)'), s)
    <3>1. Line(k)' = es
      BY <1>6, <2>3, LineUnedited DEF LineTaken
    <3>2. Alike(P, folder', folder)
      <4>1. ASSUME NEW j \in Clients, NEW m, Lands(j, m) PROVE Alike(P, folder', folder)
        <5>1. j # k /\ Sane(m) /\ folder' = Applied(folder, m) /\ m.ev \in Hers(j)
          BY <2>3, <4>1 DEF Lands
        <5>2. Outside(P, m.ev)
          BY <5>1, HersFacts
        <5> HIDE DEF P
        <5>3. QED
          BY <1>0, <5>1, <5>2, AppliedOutside DEF P
      <4>2. QED
        BY <1>0, <4>1, FolderCases, AlikeFacts
    <3> HIDE DEF P, es
    <3>3. Alike(P, Shows(folder', es), Shows(folder, es))
      BY <1>0, <1>2, <1>3, <3>2, ShowsAlike
    <3>4. QED
      BY <3>1, <3>3 DEF s
  <2>4. Alike(P, Shows(folder', Line(k)'), s)
    BY <2>2, <2>3, LandsFacts
  <2>5. QED
    <3> HIDE DEF s
    <3>1. Alike(P, Shows(folder', Line(k)'), copy'[k])
      BY <1>3, <2>1, <2>4, AlikeFacts
    <3>2. QED
      BY <1>0, <3>1
<1>7. QED
  BY <1>5, <1>6

-----------------------------------------------------------------------------
(* Moves: names on their way to a client *)

\* The paths of k on which c is in step: all of them, until an upload of k is cut off.
Still(k, c) == IF rcv[k].pc = "dead" THEN Held(k, c) ELSE Mine(k)

\* The names that c will have, but for the event its receiver at the server is busy with.
Known(c) == Shows(copy[c], Pipe(c))
DnNamesOf(k, c) == Alike(Still(k, c), IF Heading(k, c) THEN Applied(Known(c), Token(rcv[k].ev)) ELSE Known(c), folder)
DnNames == \A c \in Clients : mode[c] = "live" => \A k \in Clients \ {c} : DnNamesOf(k, c)

LEMMA StillFacts ==
  ASSUME Base, Next, NEW k \in Clients, NEW c \in Clients
  PROVE  /\ Still(k, c)' \subseteq Still(k, c) /\ Still(k, c) \subseteq Mine(k)
         /\ Heading(k, c) => Still(k, c) = Mine(k)
<1>1. Held(k, c)' \subseteq Held(k, c) /\ Mine(k)' = Mine(k)
  BY HeldShrinks DEF Base
<1>2. Held(k, c) \subseteq Mine(k) /\ Held(k, c)' \subseteq Mine(k)'
  BY DEF Held
<1>3. rcv[k].pc = "dead" => rcv'[k].pc = "dead"
  BY DeadStays
<1>4. QED
  BY <1>1, <1>2, <1>3 DEF Still, Heading

LEMMA KnownType ==
  ASSUME Base, Tidy, MovesOwn, Moving, Owned, NEW c \in Clients, mode[c] = "live"
  PROVE  Known(c) \in Tree
<1>1. Pipe(c) \in Seq(Theirs(c)) /\ copy[c] \in Tree /\ WithParents(Mine(c))
  BY MineFacts DEF Owned, OwnedOf, Base, TypeOK
<1> DEFINE es == Pipe(c)
<1>2. es \in Seq(WellEvents) /\ \A i \in 1 .. Len(es) : Inside(Mine(c), es[i]) \/ Outside(Mine(c), es[i])
  <2>1. es \in Seq(Theirs(c))
    BY <1>1
  <2> HIDE DEF es
  <2>2. QED
    BY <2>1, PipeSeq
<1> HIDE DEF es
<1>3. Shows(copy[c], es) \in Tree
  BY <1>1, <1>2, ShowsAlike, AlikeFacts
<1>4. QED
  BY <1>3 DEF Known, es

\* On the paths of k, only the broadcast of k changes what c will have.
LEMMA KnownKept ==
  ASSUME Base, Base', Tidy, MovesOwn, Moving, Owned, Next, NEW c \in Clients, mode[c] = "live", mode'[c] = "live",
         NEW k \in Clients \ {c}, ~Enqueue(k, c)
  PROVE  Alike(Mine(k), Known(c)', Known(c))
<1> DEFINE P == Mine(k)
           es == Pipe(c)
<1>0. /\ copy \in [Clients -> Tree] /\ copy[c] \in Tree /\ WithParents(P) /\ P \subseteq Paths /\ copy'[c] \in Tree
      /\ es \in Seq(Theirs(c)) /\ Known(c)' = Shows(copy'[c], Pipe(c)') /\ Known(c) = Shows(copy[c], es) /\ Known(c) \in Tree
  BY MineFacts, KnownType DEF Owned, OwnedOf, Base, TypeOK, Known
<1>1. es \in Seq(WellEvents) /\ \A i \in 1 .. Len(es) : Inside(P, es[i]) \/ Outside(P, es[i])
  <2> HIDE DEF es
  <2>1. QED
    BY <1>0, PipeSeq
<1>2. ASSUME Alike(P, copy'[c], copy[c]), Pipe(c)' = es PROVE Alike(P, Known(c)', Known(c))
  <2> HIDE DEF P, es
  <2>1. QED
    BY <1>0, <1>1, <1>2, ShowsAlike
<1>3. CASE Edits
  <2>1. down' = down /\ snd' = snd /\ queue' = queue
    BY <1>3, LineEdited
  <2>2. Pipe(c)' = es
    BY <2>1 DEF Pipe, Sending
  <2>3. ASSUME NEW e \in Hers(c), EditedHers(c, e) PROVE Alike(P, copy'[c], copy[c])
    <3> DEFINE m == [ev |-> e, val |-> edits']
    <3>1. copy'[c] = Applied(copy[c], m) /\ edits' \in Content \ {Absent}
      BY <1>0, <2>3 DEF EditedHers
    <3>2. e \in Event /\ Well(e) /\ Outside(P, e)
      BY HersFacts
    <3>3. Sane(m) /\ Outside(P, m.ev)
      BY <3>1, <3>2 DEF Sane, Full, Message
    <3> HIDE DEF m, P
    <3>4. QED
      BY <1>0, <3>1, <3>3, AppliedOutside
  <2>4. Alike(P, copy'[c], copy[c])
    BY <1>3, <2>3, LineEdited, AlikeFacts
  <2>5. QED
    BY <1>2, <2>2, <2>4
<1>4. CASE ~Edits /\ ClientReceive(c)
  <2> DEFINE m == Head(down[c])
  <2>1. /\ Sane(m) /\ m.ev \in Theirs(c) /\ es # <<>> /\ Head(es) = m.ev /\ Pipe(c)' = Tail(es)
        /\ copy'[c] = Applied(copy[c], m)
    BY <1>0, <1>4, MessageTheirs
  <2> HIDE DEF m, P, es
  <2>2. Head(es) \in WellEvents /\ (Inside(P, Head(es)) \/ Outside(P, Head(es)))
    BY <2>1, TheirsFacts DEF P
  <2>3. Sane(Token(Head(es))) /\ Token(Head(es)).ev = Head(es)
    BY <2>2, TokenFacts
  <2> DEFINE t == Applied(copy[c], Token(Head(es)))
  <2>4. Alike(P, copy'[c], t) /\ t \in Tree
    <3> DEFINE mt == Token(Head(es))
               b == copy[c]
    <3>1. Sane(mt) /\ mt.ev = m.ev /\ (Inside(P, m.ev) \/ Outside(P, m.ev)) /\ b \in Tree /\ WithParents(P)
          /\ copy'[c] = Applied(b, m) /\ t = Applied(b, mt)
      BY <1>0, <2>1, <2>2, <2>3 DEF P
    <3> HIDE DEF mt, b, t
    <3>2. Alike(P, b, b)
      BY AlikeFacts
    <3>3. Alike(P, Applied(b, m), Applied(b, mt))
      BY <2>1, <3>1, <3>2, AppliedAlike
    <3>4. Applied(b, mt) \in Tree
      BY <3>1, AppliedType
    <3>5. QED
      BY <3>1, <3>3, <3>4
  <2>5. Known(c) = Shows(t, Tail(es))
    BY <1>0, <1>1, <2>1, ShowsHead
  <2> DEFINE fs == Tail(es)
  <2>6. fs \in Seq(WellEvents) /\ \A i \in 1 .. Len(fs) : Inside(P, fs[i]) \/ Outside(P, fs[i])
    <3>1. fs \in Seq(Theirs(c))
      BY <1>0, <2>1, SeqParts
    <3> HIDE DEF fs
    <3>2. QED
      BY <3>1, PipeSeq DEF P
  <2>7. Known(c)' = Shows(copy'[c], fs) /\ Known(c) = Shows(t, fs)
    BY <1>0, <2>1, <2>5
  <2> HIDE DEF t, fs
  <2>8. Alike(P, Shows(copy'[c], fs), Shows(t, fs))
    BY <1>0, <2>4, <2>6, ShowsAlike
  <2>9. QED
    BY <2>7, <2>8 DEF P
<1>5. CASE ~Edits /\ ~ClientReceive(c)
  <2>1. copy'[c] = copy[c]
    BY <1>5, CopyCases
  <2>2. ASSUME NEW j \in Clients \ {c}, Enqueue(j, c), Pipe(c)' = Append(es, rcv[j].ev), Handling(j)
        PROVE  Alike(P, Known(c)', Known(c))
    <3>1. j # k /\ rcv[j].ev \in Hers(j)
      BY <2>2 DEF Owned, OwnedOf
    <3> DEFINE e == rcv[j].ev
    <3>2. e \in WellEvents /\ Outside(P, e)
      BY <3>1, HersFacts
    <3> HIDE DEF P, es, e
    <3>3. Known(c)' = Applied(Known(c), Token(e))
      BY <1>0, <1>1, <2>1, <2>2, <3>2, ShowsAppend DEF e
    <3>4. Sane(Token(e)) /\ Token(e).ev = e
      BY <3>2, TokenFacts
    <3>5. Alike(P, Applied(Known(c), Token(e)), Known(c))
      BY <1>0, <3>2, <3>4, AppliedOutside
    <3>6. QED
      BY <3>3, <3>5
  <2>3. CASE Pipe(c)' = es
    BY <1>2, <2>1, <2>3, AlikeFacts
  <2>4. QED
    BY <1>5, <2>2, <2>3, PipeCases
<1>6. QED
  BY <1>3, <1>4, <1>5

\* What the folder does on the paths of k when it is not the receiver of k that works.
LEMMA FolderKept ==
  ASSUME Base, Tidy, MovesOwn, Moving, Owned, Next, NEW k \in Clients,
         ~(StartFile(k) \/ StartCutFile(k) \/ ReceivePath(k))
  PROVE  Alike(Mine(k), folder', folder)
<1>0. folder \in Tree /\ WithParents(Mine(k)) /\ Mine(k) \subseteq Paths
  BY MineFacts DEF Base, TypeOK
<1>1. ASSUME NEW j \in Clients, NEW m, Lands(j, m) PROVE Alike(Mine(k), folder', folder)
  <2>1. j # k /\ Sane(m) /\ folder' = Applied(folder, m) /\ m.ev \in Hers(j)
    BY <1>1 DEF Lands
  <2>2. Outside(Mine(k), m.ev)
    BY <2>1, HersFacts
  <2>3. QED
    BY <1>0, <2>1, <2>2, AppliedOutside
<1>2. QED
  BY <1>0, <1>1, FolderCases, AlikeFacts

\* An upload that is cut off leaves an empty file, and its path is forgotten.
LEMMA CutAlike ==
  ASSUME Base, Next, NEW k \in Clients, StartCutFile(k), NEW c \in Clients
  PROVE  Alike(Still(k, c)', folder', folder) /\ rcv[k].pc = "idle" /\ rcv'[k].pc = "dead"
<1>0. TypeOK /\ EventsOK /\ folder \in Tree /\ missed \in [Clients -> SUBSET Paths]
  BY DEF Base, TypeOK
<1>1. rcv[k].pc = "idle" /\ rcv'[k].pc = "dead"
  BY <1>0, OwnSteps DEF Dead
<1> DEFINE e == Head(up[k]).ev
<1>2. CASE Fails(folder, e)
  <2>1. folder' = folder
    BY <1>2 DEF StartCutFile
  <2>2. QED
    BY <1>1, <2>1, AlikeFacts
<1>3. CASE ~Fails(folder, e)
  <2>1. folder' = [folder EXCEPT ![e.dst] = Torn] /\ missed' = [i \in Clients |-> missed[i] \cup {e.dst}]
    BY <1>3 DEF StartCutFile
  <2> HIDE DEF e
  <2>2. e.dst \in missed'[c]
    BY <2>1
  <2>3. e.dst \notin Held(k, c)'
    <3>1. Held(k, c)' = Mine(k)' \ Forgotten(c)'
      BY DEF Held
    <3>2. Forgotten(c)' = {p \in Paths : {p, In[p]} \cap missed'[c] # {}}
      BY DEF Forgotten
    <3>3. Mine(k)' \subseteq Paths
      BY DEF Mine
    <3>4. QED
      BY <2>2, <3>1, <3>2, <3>3
  <2>4. Held(k, c)' \subseteq Paths
    BY DEF Held, Mine
  <2>5. \A p \in Held(k, c)' : folder'[p] = folder[p]
    BY <1>0, <2>1, <2>3, <2>4 DEF Tree
  <2>6. Still(k, c)' = Held(k, c)'
    BY <1>1 DEF Still
  <2>7. QED
    BY <1>1, <2>5, <2>6 DEF Alike
<1>4. QED
  BY <1>2, <1>3

LEMMA DnNamesStep ==
  ASSUME Base, Base', Tidy, MovesOwn, Moving, Owned, Owned', DnNames, Next
  PROVE  DnNames'
<1> SUFFICES ASSUME NEW c \in Clients, mode'[c] = "live", NEW k \in Clients \ {c} PROVE DnNamesOf(k, c)'
  BY DEF DnNames
<1>0. /\ TypeOK /\ EventsOK /\ folder \in Tree /\ folder' \in Tree /\ mode[c] = "live" /\ rcv \in [Clients -> Receiver]
      /\ WithParents(Mine(k)) /\ Mine(k) \subseteq Paths /\ Mine(k)' = Mine(k)
  BY HersKept, MineFacts, NobodyJoins DEF Base, TypeOK
<1>1. DnNamesOf(k, c)
  BY <1>0 DEF DnNames
<1>2. Still(k, c)' \subseteq Still(k, c) /\ Still(k, c) \subseteq Mine(k) /\ (Heading(k, c) => Still(k, c) = Mine(k))
  BY StillFacts
<1>3. Known(c) \in Tree
  BY <1>0, KnownType
<1> DEFINE P == Mine(k)
           Q == Still(k, c)
           R == Still(k, c)'
           s == Known(c)
           u == Known(c)'
           e == rcv[k].ev
<1>4. R \subseteq Q /\ Q \subseteq P /\ s \in Tree
  BY <1>2, <1>3
<1>5. Heading(k, c) => e \in Hers(k) /\ e \in WellEvents /\ Inside(P, e) /\ Sane(Token(e)) /\ Token(e).ev = e
  <2>1. Heading(k, c) => e \in Hers(k)
    BY DEF Owned, OwnedOf, Heading, Handling
  <2>2. QED
    BY <2>1, HersFacts, TokenFacts
<1>6. u \in Tree
  <2>1. copy'[c] \in Tree /\ Pipe(c)' \in Seq(Theirs(c)')
    BY DEF Owned, OwnedOf, Base, TypeOK
  <2>2. Theirs(c)' = Theirs(c)
    BY HersKept
  <2> DEFINE es == Pipe(c)'
             t == copy'[c]
  <2>3. es \in Seq(Theirs(c)) /\ t \in Tree /\ u = Shows(t, es)
    BY <2>1, <2>2 DEF Known
  <2> HIDE DEF es, t, u, P
  <2>4. es \in Seq(WellEvents) /\ \A i \in 1 .. Len(es) : Inside(P, es[i]) \/ Outside(P, es[i])
    BY <2>3, PipeSeq DEF P
  <2>5. QED
    BY <1>0, <2>3, <2>4, ShowsAlike, AlikeFacts DEF P
<1>7. CASE Enqueue(k, c)
  <2>1. folder' = folder /\ copy' = copy /\ rcv[k].pc = "bcast" /\ c \in rcv[k].todo
    BY <1>7 DEF Enqueue
  <2>2. rcv'[k].pc = "bcast" /\ rcv'[k].todo = rcv[k].todo \ {c}
    BY <1>0, <1>7, OwnSteps
  <2>3. Heading(k, c) /\ ~Heading(k, c)'
    BY <2>1, <2>2 DEF Heading
  <2>4. Pipe(c)' = Append(Pipe(c), e)
    BY <1>0, <1>7, PipeEnqueue
  <2>5. Pipe(c) \in Seq(WellEvents)
    <3> DEFINE es == Pipe(c)
    <3>1. es \in Seq(Theirs(c))
      BY <1>0 DEF Owned, OwnedOf
    <3> HIDE DEF es
    <3>2. es \in Seq(WellEvents)
      BY <3>1, PipeSeq
    <3>3. QED
      BY <3>2 DEF es
  <2>6. u = Applied(s, Token(e))
    <3> DEFINE es == Pipe(c)
               t == copy[c]
    <3>1. es \in Seq(WellEvents) /\ e \in WellEvents
      BY <1>5, <2>3, <2>5
    <3>2. u = Shows(t, Append(es, e)) /\ s = Shows(t, es)
      BY <2>1, <2>4 DEF Known
    <3> HIDE DEF es, t, e, u, s
    <3>3. QED
      BY <3>1, <3>2, ShowsAppend
  <2>7. Alike(Q, u, folder')
    BY <1>1, <2>1, <2>3, <2>6 DEF DnNamesOf
  <2>8. Alike(R, u, folder')
    <3> HIDE DEF Q, R, u
    <3>1. QED
      BY <1>4, <2>7, AlikeFacts
  <2>9. QED
    BY <2>3, <2>8 DEF DnNamesOf
<1>8. CASE ~Enqueue(k, c)
  <2>1. Alike(P, u, s)
    BY <1>0, <1>8, KnownKept
  <2>2. ASSUME Alike(R, folder', folder), Heading(k, c)' <=> Heading(k, c), Heading(k, c) => rcv'[k].ev = e
        PROVE  DnNamesOf(k, c)'
    <3>1. CASE Heading(k, c)
      <4>1. Alike(Q, Applied(s, Token(e)), folder)
        BY <1>1, <3>1 DEF DnNamesOf
      <4> HIDE DEF P, Q, R, s, u, e
      <4>2. Alike(P, Applied(u, Token(e)), Applied(s, Token(e)))
        BY <1>0, <1>4, <1>5, <1>6, <2>1, <3>1, AppliedAlike DEF P
      <4>3. Alike(R, Applied(u, Token(e)), Applied(s, Token(e))) /\ Alike(R, Applied(s, Token(e)), folder)
        BY <1>4, <4>1, <4>2, AlikeFacts
      <4>4. Alike(R, Applied(u, Token(e)), folder')
        BY <2>2, <4>3, AlikeFacts
      <4>5. QED
        BY <2>2, <3>1, <4>4 DEF DnNamesOf, P, Q, R, s, u, e
    <3>2. CASE ~Heading(k, c)
      <4>1. Alike(Q, s, folder)
        BY <1>1, <3>2 DEF DnNamesOf
      <4> HIDE DEF P, Q, R, s, u, e
      <4>2. Alike(R, u, s) /\ Alike(R, s, folder)
        BY <1>4, <2>1, <4>1, AlikeFacts
      <4>3. Alike(R, u, folder')
        BY <2>2, <4>2, AlikeFacts
      <4>4. QED
        BY <2>2, <3>2, <4>3 DEF DnNamesOf, P, Q, R, s, u, e
    <3>3. QED
      BY <3>1, <3>2
  <2>3. ASSUME StartFile(k) \/ ReceivePath(k) PROVE DnNamesOf(k, c)'
    <3>1. PICK m : Lands(k, m)
      BY <2>3, LandsFacts
    <3>2. Sane(m) /\ folder' = Applied(folder, m) /\ m.ev \in Hers(k) /\ m.ev = Head(up[k]).ev
      BY <3>1 DEF Lands
    <3>3. rcv[k].pc = "idle" /\ ~Heading(k, c)
      BY <2>3 DEF StartFile, ReceivePath, Heading
    <3>4. CASE rcv'[k].pc = "dead"
      <4>1. Fails(folder, m.ev)
        BY <2>3, <3>2, <3>4, TakesFit
      <4>2. folder' = folder
        BY <3>2, <4>1 DEF Applied
      <4>3. ~Heading(k, c)'
        BY <3>4 DEF Heading
      <4>4. QED
        BY <2>2, <3>3, <4>2, <4>3, AlikeFacts
    <3>5. CASE rcv'[k].pc # "dead"
      <4>1. rcv'[k].pc \in {"writing", "saved"} /\ rcv'[k].ev = m.ev
        BY <1>0, <2>3, <3>2, <3>5, OwnSteps DEF Dead
      <4>2. Heading(k, c)'
        BY <4>1 DEF Heading
      <4>3. m.ev \in WellEvents /\ Inside(P, m.ev) /\ Sane(Token(m.ev)) /\ Token(m.ev).ev = m.ev
        BY <3>2, HersFacts, TokenFacts
      <4>4. Q = P
        BY <3>3 DEF Still
      <4>5. Alike(P, s, folder)
        BY <1>1, <3>3, <4>4 DEF DnNamesOf
      <4> HIDE DEF P, Q, R, s, u
      <4>6. Alike(P, u, folder)
        BY <2>1, <4>5, AlikeFacts
      <4>7. Alike(P, Applied(u, Token(m.ev)), folder')
        BY <1>0, <1>6, <3>2, <4>3, <4>6, AppliedAlike DEF P
      <4>8. Alike(R, Applied(u, Token(m.ev)), folder')
        BY <1>4, <4>7, AlikeFacts
      <4>9. QED
        BY <4>1, <4>2, <4>8 DEF DnNamesOf, R, u
    <3>6. QED
      BY <3>4, <3>5
  <2>4. ASSUME FinishFile(k) PROVE DnNamesOf(k, c)'
    <3>1. Alike(Paths, folder', folder) /\ rcv[k].pc = "writing" /\ rcv'[k].pc = "saved" /\ rcv'[k].ev = rcv[k].ev
      BY <2>4, FinishAlike
    <3>2. Heading(k, c) /\ Heading(k, c)'
      BY <3>1 DEF Heading
    <3>3. R \subseteq Paths
      BY <1>0, <1>4
    <3>4. Alike(R, folder', folder)
      BY <3>1, <3>3, AlikeFacts
    <3>5. QED
      BY <2>2, <3>1, <3>2, <3>4
  <2>5. ASSUME ~StartFile(k), ~ReceivePath(k), ~FinishFile(k) PROVE DnNamesOf(k, c)'
    <3>1. (Heading(k, c)' <=> Heading(k, c)) /\ (Heading(k, c) => rcv'[k].ev = rcv[k].ev)
      BY <1>0, <1>8, <2>5, HeadingSteps, NobodyJoins
    <3>2. CASE StartCutFile(k)
      BY <2>2, <3>1, <3>2, CutAlike
    <3>3. CASE ~StartCutFile(k)
      <4>1. Alike(P, folder', folder)
        BY <2>5, <3>3, FolderKept
      <4>2. Alike(R, folder', folder)
        <5> HIDE DEF P, Q, R
        <5>1. QED
          BY <1>4, <4>1, AlikeFacts
      <4>3. QED
        BY <2>2, <3>1, <4>2
    <3>4. QED
      BY <3>2, <3>3
  <2>6. QED
    BY <2>3, <2>4, <2>5
<1>9. QED
  BY <1>7, <1>8

-----------------------------------------------------------------------------
(* Moves: no name is lost *)

\* Events whose files are read from the folder t.
LEMMA ReadingFull ==
  ASSUME NEW t \in Tree, NEW es \in Seq(Event)
  PROVE  /\ Reading(t, es) \in Seq(Message) /\ Evs(Reading(t, es)) = es /\ Len(Reading(t, es)) = Len(es)
         /\ \A i \in 1 .. Len(Reading(t, es)) : Full(Reading(t, es)[i])
<1> DEFINE ms == Reading(t, es)
           M(i) == [ev |-> es[i], val |-> IF t[es[i].dst] = Absent THEN Torn ELSE t[es[i].dst]]
<1>1. ms = [i \in 1 .. Len(es) |-> M(i)]
  BY DEF Reading
<1>2. Len(es) \in Nat /\ \A i \in 1 .. Len(es) : es[i] \in Event
  OBVIOUS
<1>3. ASSUME NEW i \in 1 .. Len(es) PROVE M(i) \in Message /\ Full(M(i)) /\ M(i).ev = es[i]
  <2>1. es[i].dst \in Paths
    BY <1>2 DEF Event
  <2>2. M(i).val \in Content /\ M(i).val # Absent
    BY <2>1, ConstantFacts DEF Tree, Content
  <2>3. QED
    BY <1>2, <2>2 DEF Message, Full
<1> HIDE DEF M, ms
<1>4. ms \in Seq(Message) /\ Len(ms) = Len(es) /\ \A i \in 1 .. Len(es) : ms[i] = M(i)
  BY <1>1, <1>2, <1>3
<1>5. Evs(ms) = [i \in 1 .. Len(es) |-> es[i]]
  BY <1>3, <1>4 DEF Evs
<1>6. es = [i \in 1 .. Len(es) |-> es[i]]
  BY SequenceIsFunction
<1>7. QED
  BY <1>3, <1>4, <1>5, <1>6 DEF ms

\* The names that messages make are those their events make.
LEMMA PlayShows ==
  ASSUME NEW P, WithParents(P), NEW t \in Tree, NEW u \in Tree, Alike(P, t, u), NEW ms \in Seq(Message),
         \A i \in 1 .. Len(ms) : Full(ms[i]),
         NEW es \in Seq(WellEvents), Evs(ms) = es, \A i \in 1 .. Len(es) : Inside(P, es[i]) \/ Outside(P, es[i])
  PROVE  Alike(P, Play(t, ms), Shows(u, es))
<1> DEFINE ns == Bare(es)
<1>1. ns \in Seq(Message) /\ Len(ns) = Len(es) /\ \A i \in 1 .. Len(es) : es[i] \in WellEvents /\ ns[i] = Token(es[i])
  BY BareFacts
<1>2. Len(es) = Len(ms) /\ \A i \in 1 .. Len(ms) : ms[i].ev = es[i]
  BY EvsFacts
<1>3. \A i \in 1 .. Len(es) : Sane(Token(es[i])) /\ Token(es[i]).ev = es[i]
  BY <1>1, TokenFacts
<1>4. \A i \in 1 .. Len(ms) : ms[i] \in Message
  OBVIOUS
<1>5. \A i \in 1 .. Len(ms) : Sane(ms[i])
  BY <1>1, <1>2, <1>4 DEF Sane, WellEvents
<1> HIDE DEF ns
<1>6. \A i \in 1 .. Len(ms) : /\ Sane(ms[i]) /\ Sane(ns[i]) /\ ms[i].ev = ns[i].ev
                              /\ Inside(P, ms[i].ev) \/ Outside(P, ms[i].ev)
  BY <1>1, <1>2, <1>3, <1>5
<1>7. Alike(P, Play(t, ms), Play(u, ns))
  BY <1>1, <1>2, <1>6, PlayAlike
<1>8. QED
  BY <1>7 DEF Shows, ns

LEMMA ShowsBoth ==
  ASSUME NEW t, NEW es \in Seq(WellEvents), NEW fs \in Seq(WellEvents)
  PROVE  Shows(t, es \o fs) = Shows(Shows(t, es), fs)
<1> DEFINE xa == Bare(es)
           xb == Bare(fs)
           all == es \o fs
           both == xa \o xb
<1>1. xa \in Seq(Message) /\ Len(xa) = Len(es) /\ \A i \in 1 .. Len(es) : xa[i] = Token(es[i])
  BY BareFacts
<1>2. xb \in Seq(Message) /\ Len(xb) = Len(fs) /\ \A i \in 1 .. Len(fs) : xb[i] = Token(fs[i])
  BY BareFacts
<1>3. /\ Len(es) \in Nat /\ Len(fs) \in Nat /\ Len(all) = Len(es) + Len(fs)
      /\ \A i \in 1 .. Len(es) : all[i] = es[i]
      /\ \A i \in 1 .. Len(fs) : all[Len(es) + i] = fs[i]
  BY BothFacts
<1>4. Bare(all) = [i \in 1 .. Len(all) |-> Token(all[i])]
  BY DEF Bare, Token
<1>a. xa \in Seq(Message) /\ xb \in Seq(Message)
  BY <1>1, <1>2
<1> HIDE DEF xa, xb, all
<1>5. /\ both \in Seq(Message) /\ Len(both) = Len(xa) + Len(xb)
      /\ \A i \in 1 .. Len(xa) : both[i] = xa[i]
      /\ \A i \in 1 .. Len(xb) : both[Len(xa) + i] = xb[i]
  BY <1>a, BothFacts
<1>6. both = [i \in 1 .. Len(both) |-> both[i]]
  BY <1>5, SequenceIsFunction
<1> HIDE DEF both
<1>7. ASSUME NEW i \in 1 .. Len(both) PROVE both[i] = Token(all[i])
  <2>1. CASE i \in 1 .. Len(es)
    BY <1>1, <1>3, <1>5, <2>1
  <2>2. CASE i \notin 1 .. Len(es)
    <3> DEFINE l == i - Len(es)
    <3>1. l \in 1 .. Len(fs) /\ i = Len(es) + l
      BY <1>1, <1>2, <1>3, <1>5, <2>2
    <3> HIDE DEF l
    <3>2. QED
      BY <1>1, <1>2, <1>3, <1>5, <3>1
  <2>3. QED
    BY <2>1, <2>2
<1>8. Bare(all) = both
  BY <1>1, <1>2, <1>3, <1>4, <1>5, <1>6, <1>7
<1>9. Play(t, xa \o xb) = Play(Play(t, xa), xb)
  BY <1>a, PlayBoth
<1>10. QED
  BY <1>8, <1>9 DEF Shows, all, both, xa, xb

\* Of the events, only the one at m is about the paths P.
LEMMA ShowsOnce ==
  ASSUME NEW P, WithParents(P), NEW t \in Tree, NEW es \in Seq(WellEvents), NEW m \in 1 .. Len(es),
         Inside(P, es[m]), \A i \in 1 .. Len(es) : i # m => Outside(P, es[i])
  PROVE  Alike(P, Shows(t, es), Applied(t, Token(es[m])))
<1> DEFINE ms == Bare(es)
           n == Len(es)
           r == Played(t, ms)
           e == es[m]
           u == Applied(t, Token(e))
           w(i) == IF i < m THEN t ELSE u
           T == {i \in 0 .. n : r[i] \in Tree /\ Alike(P, r[i], w(i))}
<1>1. ms \in Seq(Message) /\ Len(ms) = n /\ n \in Nat /\ \A i \in 1 .. n : es[i] \in WellEvents /\ ms[i] = Token(es[i])
  BY BareFacts
<1>2. r[0] = t /\ (\A i \in 1 .. n : r[i] = Applied(r[i - 1], ms[i])) /\ Play(t, ms) = r[n]
  BY <1>1, PlaySteps
<1>3. m \in 1 .. n /\ Inside(P, e) /\ \A i \in 1 .. n : i # m => Outside(P, es[i])
  OBVIOUS
<1>4. \A i \in 1 .. n : Sane(Token(es[i])) /\ Token(es[i]).ev = es[i]
  BY <1>1, TokenFacts
<1>5. ms[m] = Token(e) /\ Sane(Token(e)) /\ Token(e).ev = e
  BY <1>1, <1>4
<1>6. WithParents(P) /\ P \subseteq Paths
  BY DEF WithParents
<1>a. Shows(t, es) = Play(t, ms)
  BY DEF Shows
<1>b. \A i \in 1 .. n : ms[i] = Token(es[i])
  BY <1>1
<1> HIDE DEF ms, n, r, e
<1>7. 0 \in T
  <2>1. w(0) = t
    BY <1>3
  <2>2. Alike(P, t, t)
    BY AlikeFacts
  <2>3. QED
    BY <1>1, <1>2, <2>1, <2>2
<1>8. ASSUME NEW i \in 0 .. n - 1, i \in T PROVE i + 1 \in T
  <2>1. i + 1 \in 1 .. n /\ (i + 1) - 1 = i /\ i + 1 \in 0 .. n
    BY <1>1
  <2>2. r[i] \in Tree /\ Alike(P, r[i], w(i)) /\ r[i + 1] = Applied(r[i], ms[i + 1])
    BY <1>2, <1>8, <2>1
  <2> DEFINE l == i + 1
  <2>3. l \in 1 .. n /\ l \in 0 .. n /\ r[l] = Applied(r[i], ms[l]) /\ l = i + 1
    BY <2>1, <2>2
  <2> HIDE DEF l
  <2>4. r[l] \in Tree
    BY <1>4, <1>b, <2>2, <2>3, AppliedType
  <2>5. CASE l = m
    <3>1. w(i) = t /\ w(l) = u
      BY <1>3, <2>3, <2>5
    <3>2. Alike(P, Applied(r[i], Token(e)), Applied(t, Token(e)))
      BY <1>3, <1>5, <1>6, <2>2, <3>1, AppliedAlike
    <3>3. QED
      BY <1>5, <2>3, <2>4, <2>5, <3>1, <3>2
  <2>6. CASE l # m
    <3>1. Outside(P, es[l]) /\ ms[l] = Token(es[l]) /\ Sane(Token(es[l])) /\ Token(es[l]).ev = es[l]
      BY <1>3, <1>4, <1>b, <2>3, <2>6
    <3>2. Alike(P, r[l], r[i])
      BY <1>6, <2>2, <2>3, <3>1, AppliedOutside
    <3>3. w(l) = w(i)
      BY <1>3, <2>3, <2>6
    <3> HIDE DEF w
    <3>4. Alike(P, r[l], w(l))
      BY <2>2, <3>2, <3>3, AlikeFacts
    <3>5. QED
      BY <2>3, <2>4, <3>4
  <2>7. QED
    BY <2>3, <2>5, <2>6
<1>9. n \in T
  <2>1. n \in Nat /\ n \in 0 .. n
    BY <1>1
  <2> HIDE DEF T
  <2>2. \A i \in 0 .. n : i \in T
    BY <1>7, <1>8, <2>1, AllUpTo
  <2>3. QED
    BY <2>1, <2>2
<1>10. w(n) = u
  BY <1>1, <1>3
<1>11. QED
  BY <1>2, <1>9, <1>10, <1>a DEF e

\* Nothing comes twice.
LEMMA ComingOnce ==
  ASSUME NEW c \in Clients
  PROVE  \A i, j \in 1 .. Len(ComingTo(c)) : ComingTo(c)[i] = ComingTo(c)[j] => i = j
BY ComingFinite, SequenceOfSet DEF ComingTo

LEMMA ComingTheirs ==
  ASSUME Base, Owned, NEW c \in Clients
  PROVE  /\ ComingTo(c) \in Seq(Theirs(c))
         /\ \A k \in Clients \ {c} : \A i \in 1 .. Len(ComingTo(c)) :
               (Heading(k, c) /\ ComingTo(c)[i] = rcv[k].ev) \/ \E j \in Clients \ {c, k} : ComingTo(c)[i] \in Hers(j)
<1> DEFINE q == ComingTo(c)
<1>0. ComingTo(c) \in Seq(Event) /\ Len(ComingTo(c)) \in Nat
  BY ComingFacts
<1>1. \A i \in 1 .. Len(q) : \E j \in Clients \ {c} : Heading(j, c) /\ q[i] = rcv[j].ev
  BY ComingFacts
<1>2. \A j \in Clients : Heading(j, c) => rcv[j].ev \in Hers(j)
  BY DEF Owned, OwnedOf, Heading, Handling
<1>a. q \in Seq(Event) /\ Len(q) \in Nat
  BY <1>0
<1> HIDE DEF q
<1>3. \A i \in 1 .. Len(q) : q[i] \in Theirs(c)
  BY <1>1, <1>2 DEF Theirs, Hers
<1>4. q = [i \in 1 .. Len(q) |-> q[i]]
  BY <1>a, SequenceIsFunction
<1>5. q \in Seq(Theirs(c))
  BY <1>a, <1>3, <1>4
<1>6. ASSUME NEW k \in Clients \ {c}, NEW i \in 1 .. Len(q)
      PROVE  (Heading(k, c) /\ q[i] = rcv[k].ev) \/ \E j \in Clients \ {c, k} : q[i] \in Hers(j)
  BY <1>1, <1>2
<1>7. QED
  BY <1>5, <1>6 DEF q

\* What comes to c does, on the paths of k, what the event of k does.
LEMMA ComingNames ==
  ASSUME Base, Tidy, MovesOwn, Moving, Owned, NEW c \in Clients, NEW k \in Clients \ {c}, NEW t \in Tree
  PROVE  Alike(Mine(k), Shows(t, ComingTo(c)), IF Heading(k, c) THEN Applied(t, Token(rcv[k].ev)) ELSE t)
<1> DEFINE P == Mine(k)
           q == ComingTo(c)
           e == rcv[k].ev
<1>1. WithParents(P)
  BY MineFacts
<1>2. q \in Seq(Theirs(c)) /\ \A i \in 1 .. Len(q) : (Heading(k, c) /\ q[i] = e) \/ \E j \in Clients \ {c, k} : q[i] \in Hers(j)
  BY ComingTheirs
<1>3. \A i, j \in 1 .. Len(q) : q[i] = q[j] => i = j
  BY ComingOnce
<1>4. Heading(k, c) => \E i \in 1 .. Len(q) : q[i] = e
  BY ComingFacts
<1>5. Heading(k, c) => e \in Hers(k)
  BY DEF Owned, OwnedOf, Heading, Handling
<1> HIDE DEF q
<1>6. q \in Seq(WellEvents)
  BY <1>2, PipeSeq
<1>7. \A j \in Clients \ {c, k} : \A f \in Hers(j) : Outside(P, f)
  BY HersFacts
<1>8. \A i \in 1 .. Len(q) : (Heading(k, c) /\ q[i] = e) \/ Outside(P, q[i])
  BY <1>2, <1>7
<1>9. CASE Heading(k, c)
  <2>1. PICK m \in 1 .. Len(q) : q[m] = e
    BY <1>4, <1>9
  <2>2. Inside(P, e)
    BY <1>5, <1>9, HersFacts
  <2>3. \A i \in 1 .. Len(q) : i # m => Outside(P, q[i])
    BY <1>3, <1>8, <2>1
  <2> HIDE DEF P, e
  <2>4. Alike(P, Shows(t, q), Applied(t, Token(q[m])))
    BY <1>1, <1>6, <2>1, <2>2, <2>3, ShowsOnce
  <2>5. QED
    BY <1>9, <2>1, <2>4 DEF P, e, q
<1>10. CASE ~Heading(k, c)
  <2> DEFINE ms == Bare(q)
  <2>1. ms \in Seq(Message) /\ Len(ms) = Len(q) /\ \A i \in 1 .. Len(q) : q[i] \in WellEvents /\ ms[i] = Token(q[i])
    BY <1>6, BareFacts
  <2>2. \A i \in 1 .. Len(q) : Sane(Token(q[i])) /\ Token(q[i]).ev = q[i]
    BY <2>1, TokenFacts
  <2> HIDE DEF ms, P
  <2>3. \A i \in 1 .. Len(ms) : Sane(ms[i]) /\ Outside(P, ms[i].ev)
    BY <1>8, <1>10, <2>1, <2>2
  <2>4. Alike(P, Play(t, ms), t)
    BY <1>1, <2>1, <2>3, PlayOutside
  <2>5. QED
    BY <1>10, <2>4 DEF Shows, ms, P, q
<1>11. QED
  BY <1>9, <1>10

LEMMA WayShows ==
  ASSUME Base, Tidy, MovesOwn, Moving, Owned, NEW c \in Clients, mode[c] = "live", NEW k \in Clients \ {c}
  PROVE  Alike(Mine(k), Play(copy[c], OnTheWay(c)), Shows(Known(c), ComingTo(c)))
<1> DEFINE P == Mine(k)
           d == down[c]
           t == copy[c]
           rd == Reading(folder, Rest(c))
           es == Pipe(c)
           fs == ComingTo(c)
           ms == OnTheWay(c)
           all == es \o fs
<1>1. folder \in Tree /\ t \in Tree /\ WithParents(P) /\ d \in Seq(Message)
  BY MineFacts DEF Base, TypeOK
<1>2. /\ rd \in Seq(Message) /\ Evs(rd) = Rest(c) /\ \A i \in 1 .. Len(rd) : Full(rd[i])
  BY <1>1, WayJoins, ReadingFull
<1>3. \A i \in 1 .. Len(d) : Full(d[i])
  <2>1. d \in Seq(OthersMessage(c))
    BY DEF Base, EventsOK
  <2> HIDE DEF d
  <2>2. \A i \in 1 .. Len(d) : d[i] \in OthersMessage(c)
    BY <2>1
  <2>3. QED
    BY <2>2 DEF OthersMessage
<1>4. ms = d \o rd /\ Known(c) = Shows(t, es)
  BY DEF OnTheWay, Known
<1>5. es \in Seq(Theirs(c)) /\ fs \in Seq(Theirs(c))
  BY ComingTheirs DEF Owned, OwnedOf
<1>6. Evs(d) \o Rest(c) = all
  BY WayJoins
<1> HIDE DEF d, t, rd, es, fs, ms
<1>7. /\ ms \in Seq(Message) /\ Len(ms) = Len(d) + Len(rd) /\ Len(d) \in Nat /\ Len(rd) \in Nat
      /\ \A i \in 1 .. Len(d) : ms[i] = d[i]
      /\ \A i \in 1 .. Len(rd) : ms[Len(d) + i] = rd[i]
  BY <1>1, <1>2, <1>4, BothFacts
<1>8. ASSUME NEW i \in 1 .. Len(ms) PROVE Full(ms[i])
  <2>1. CASE i \in 1 .. Len(d)
    BY <1>3, <1>7, <2>1
  <2>2. CASE i \notin 1 .. Len(d)
    <3> DEFINE l == i - Len(d)
    <3>1. l \in 1 .. Len(rd) /\ i = Len(d) + l
      BY <1>7, <2>2
    <3> HIDE DEF l
    <3>2. QED
      BY <1>2, <1>7, <3>1
  <2>3. QED
    BY <2>1, <2>2
<1>9. Evs(ms) = all
  BY <1>1, <1>2, <1>4, <1>6, EvsBoth
<1>10. all \in Seq(Theirs(c))
  BY <1>5
<1> HIDE DEF all
<1>11. all \in Seq(WellEvents) /\ \A i \in 1 .. Len(all) : Inside(P, all[i]) \/ Outside(P, all[i])
  BY <1>10, PipeSeq
<1>12. es \in Seq(WellEvents) /\ fs \in Seq(WellEvents)
  BY <1>5, PipeSeq
<1> HIDE DEF P
<1>13. Alike(P, Play(t, ms), Shows(t, all))
  BY <1>1, <1>7, <1>8, <1>9, <1>11, PlayShows, AlikeFacts
<1>14. Shows(t, es \o fs) = Shows(Shows(t, es), fs)
  BY <1>12, ShowsBoth
<1>15. QED
  BY <1>4, <1>13, <1>14 DEF P, t, ms, all, fs

LEMMA DeliveredNames ==
  ASSUME Base, Tidy, MovesOwn, Moving, Owned, DnNames, NEW c \in Clients, mode[c] = "live",
         NEW p \in OwnedByOthers(c) \ Forgotten(c)
  PROVE  Delivered(c)[p] = Absent <=> folder[p] = Absent
<1>1. PICK k \in Clients \ {c} : plan.editors[p] = {k}
  BY DEF OwnedByOthers
<1>2. p \in Held(k, c) /\ p \in Mine(k)
  BY <1>1 DEF OwnedByOthers, Held, Mine
<1>3. p \in Still(k, c) /\ Still(k, c) \subseteq Mine(k)
  BY <1>2 DEF Still, Held
<1>4. Delivered(c) = Play(copy[c], OnTheWay(c))
  BY DEF Delivered, OnTheWay, Rest, Sending, ComingTo, Bound
<1>5. Alike(Mine(k), Delivered(c), Shows(Known(c), ComingTo(c)))
  BY <1>4, WayShows
<1> DEFINE u == IF Heading(k, c) THEN Applied(Known(c), Token(rcv[k].ev)) ELSE Known(c)
           s == Shows(Known(c), ComingTo(c))
           d == Delivered(c)
<1>6. Alike(Mine(k), s, u)
  BY KnownType, ComingNames
<1>7. Alike(Still(k, c), u, folder)
  BY DEF DnNames, DnNamesOf
<1>8. Alike(Mine(k), d, s)
  BY <1>5
<1> HIDE DEF u, s, d
<1>9. d[p] = Absent <=> folder[p] = Absent
  BY <1>2, <1>3, <1>6, <1>7, <1>8 DEF Alike
<1>10. QED
  BY <1>9 DEF d

LEMMA UploadedNames ==
  ASSUME Base, Tidy, MovesOwn, Moving, Owned, UpNames, NEW c \in Clients, mode[c] = "live",
         NEW p \in OwnedBy(c)
  PROVE  Uploaded(c)[p] = Absent <=> copy[c][p] = Absent
<1> DEFINE P == Mine(c)
           pre == IF rcv[c].pc = "writing" THEN <<[ev |-> rcv[c].ev, val |-> rcv[c].val]>> ELSE <<>>
           rd == Reading(copy[c], out[c])
           u == up[c]
           ms == u \o rd
           es == Line(c)
           t == Play(folder, pre)
<1>1. /\ folder \in Tree /\ copy[c] \in Tree /\ WithParents(P) /\ P \subseteq Paths /\ u \in Seq(Message) /\ out[c] \in Seq(Event)
      /\ rcv[c] \in Receiver
  BY MineFacts DEF Base, TypeOK
<1>2. p \in P
  BY DEF OwnedBy, Mine
<1>3. \A i \in 1 .. Len(u) : Full(u[i])
  <2>1. u \in Seq({m \in OwnMessage(c) : Full(m)})
    BY DEF Base, EventsOK
  <2> HIDE DEF u
  <2>2. QED
    BY <2>1
<1>4. rd \in Seq(Message) /\ Evs(rd) = out[c] /\ \A i \in 1 .. Len(rd) : Full(rd[i])
  BY <1>1, ReadingFull
<1>5. es = Evs(u) \o out[c] /\ es \in Seq(Hers(c))
  BY DEF Line, Owned, OwnedOf
<1>6. es \in Seq(WellEvents) /\ \A i \in 1 .. Len(es) : Inside(P, es[i]) \/ Outside(P, es[i])
  <2> HIDE DEF es
  <2>1. QED
    BY <1>5, LineSeq
<1>7. pre \in Seq(Message) /\ t \in Tree /\ Alike(P, t, folder)
  <2>1. CASE rcv[c].pc # "writing"
    <3>1. pre = <<>> /\ pre \in Seq(Message)
      BY <2>1
    <3>2. Len(<<>>) = 0 /\ 0 \in Nat
      OBVIOUS
    <3>3. Play(folder, <<>>) = folder
      BY <3>2, PlaySteps
    <3>4. QED
      BY <1>1, <3>1, <3>3, AlikeFacts
  <2>2. CASE rcv[c].pc = "writing"
    <3> DEFINE m == [ev |-> rcv[c].ev, val |-> rcv[c].val]
    <3>1. /\ rcv[c].ev \in Event /\ rcv[c].val \in Content /\ rcv[c].ev.op = "NEW_FILE" /\ rcv[c].val # Absent
          /\ rcv[c].ev \in Hers(c) /\ folder[rcv[c].ev.dst] # Absent
      BY <1>1, <2>2, ReceiverFacts DEF Base, EventsOK, Handling, Owned, OwnedOf
    <3>2. Sane(m) /\ m \in Message /\ m.ev = rcv[c].ev /\ m.val = rcv[c].val /\ pre = <<m>>
      BY <2>2, <3>1 DEF Sane, Message, Full, Hers, WellEvents
    <3> HIDE DEF m, P
    <3>3. t = Applied(folder, m) /\ pre \in Seq(Message)
      BY <3>2, PlayOne
    <3>4. t \in Tree
      BY <1>1, <3>2, <3>3, AppliedType
    <3>5. m.ev.dst \in Paths
      BY <3>1, <3>2 DEF Event
    <3>6. \A q \in Paths : t[q] = Absent <=> folder[q] = Absent
      BY <1>1, <3>1, <3>2, <3>3, <3>5 DEF Applied, Effect, Tree
    <3>7. QED
      BY <1>1, <3>3, <3>4, <3>6 DEF Alike
  <2>3. QED
    BY <2>1, <2>2
<1>a. Uploaded(c) = Play(folder, (pre \o u) \o rd)
  BY DEF Uploaded
<1>b. t = Play(folder, pre)
  OBVIOUS
<1> HIDE DEF pre, rd, u, es, t, P
<1>8. pre \o ms = (pre \o u) \o rd
  BY <1>1, <1>4, <1>7, JoinThree
<1>9. /\ ms \in Seq(Message) /\ Len(ms) = Len(u) + Len(rd) /\ Len(u) \in Nat /\ Len(rd) \in Nat
      /\ \A i \in 1 .. Len(u) : ms[i] = u[i]
      /\ \A i \in 1 .. Len(rd) : ms[Len(u) + i] = rd[i]
  BY <1>1, <1>4, BothFacts
<1>10. Evs(ms) = es
  BY <1>1, <1>4, <1>5, EvsBoth
<1> HIDE DEF ms
<1>11. ASSUME NEW i \in 1 .. Len(ms) PROVE Full(ms[i])
  <2>1. CASE i \in 1 .. Len(u)
    BY <1>3, <1>9, <2>1
  <2>2. CASE i \notin 1 .. Len(u)
    <3> DEFINE l == i - Len(u)
    <3>1. l \in 1 .. Len(rd) /\ i = Len(u) + l
      BY <1>9, <2>2
    <3> HIDE DEF l
    <3>2. QED
      BY <1>4, <1>9, <3>1
  <2>3. QED
    BY <2>1, <2>2
<1>12. Uploaded(c) = Play(t, ms)
  <2>1. Play(folder, pre \o ms) = Play(Play(folder, pre), ms)
    BY <1>7, <1>9, PlayBoth
  <2>2. QED
    BY <1>8, <1>a, <1>b, <2>1
<1>13. Alike(P, Play(t, ms), Shows(folder, es))
  BY <1>1, <1>6, <1>7, <1>9, <1>10, <1>11, PlayShows
<1>14. Alike(P, Shows(folder, es), copy[c])
  BY DEF UpNames, UpNamesOf, P, es
<1>15. QED
  BY <1>2, <1>12, <1>13, <1>14 DEF Alike

\* What keeps the names, when the users move files.
Named == Owned /\ UpNames /\ DnNames
NamesInv == Base /\ (Moving => Named)

LEMMA NamesInit ==
  ASSUME Init, Tidy, MovesOwn
  PROVE  NamesInv
<1>1. Base
  BY BaseInit
<1>2. /\ folder = EmptyTree /\ \A c \in Clients : copy[c] = EmptyTree /\ rcv[c] = Idle /\ out[c] = <<>> /\ up[c] = <<>>
      /\ \A c \in Clients : down[c] = <<>> /\ queue[c] = <<>> /\ ~snd[c].busy
      /\ \A c \in Clients : mode[c] \in {"live", "off"}
  BY DEF Init, NoSend
<1>3. Idle.pc = "idle"
  BY DEF Idle
<1>4. ASSUME NEW c \in Clients PROVE Pipe(c) = <<>> /\ Line(c) = <<>>
  <2>1. Evs(up[c]) = <<>> /\ Evs(down[c]) = <<>>
    BY <1>1, <1>2, EvsFacts DEF Base, TypeOK
  <2>2. Sending(c) = <<>>
    BY <1>2 DEF Sending
  <2>3. Pipe(c) = (<<>> \o <<>>) \o <<>> /\ Line(c) = <<>> \o <<>>
    BY <1>2, <2>1, <2>2 DEF Pipe, Line
  <2>4. QED
    BY <2>3
<1>5. Owned
  <2>1. \A S : <<>> \in Seq(S)
    OBVIOUS
  <2>2. QED
    BY <1>2, <1>3, <1>4, <2>1 DEF Owned, OwnedOf, Handling
<1>6. UpNames
  BY <1>2, <1>4, ShowsNone, AlikeFacts DEF UpNames, UpNamesOf
<1>7. DnNames
  <2> SUFFICES ASSUME NEW c \in Clients, NEW k \in Clients \ {c} PROVE DnNamesOf(k, c)
    BY DEF DnNames
  <2>1. ~Heading(k, c)
    BY <1>2, <1>3 DEF Heading
  <2>2. Known(c) = folder
    BY <1>2, <1>4, ShowsNone DEF Known
  <2>3. QED
    BY <2>1, <2>2, AlikeFacts DEF DnNamesOf
<1>8. QED
  BY <1>1, <1>5, <1>6, <1>7 DEF NamesInv, Named

LEMMA NamesIdle ==
  ASSUME Named, UNCHANGED vars
  PROVE  Named'
<1>1. /\ plan' = plan /\ folder' = folder /\ copy' = copy /\ mode' = mode /\ out' = out /\ up' = up /\ down' = down
      /\ rcv' = rcv /\ queue' = queue /\ snd' = snd /\ missed' = missed
  BY DEF vars
<1>2. \A k : Mine(k)' = Mine(k) /\ Hers(k)' = Hers(k) /\ Theirs(k)' = Theirs(k)
  BY <1>1 DEF Mine, Hers, Theirs
<1>3. \A k, c : Still(k, c)' = Still(k, c) /\ (Heading(k, c)' <=> Heading(k, c))
  BY <1>1, <1>2 DEF Still, Held, Forgotten, Heading
<1>4. \A c : Pipe(c)' = Pipe(c) /\ Line(c)' = Line(c)
  BY <1>1 DEF Pipe, Sending, Line
<1>5. \A c : Known(c)' = Known(c)
  BY <1>1, <1>4 DEF Known
<1>6. Owned'
  BY <1>1, <1>2, <1>4 DEF Named, Owned, OwnedOf, Handling
<1>7. UpNames'
  BY <1>1, <1>2, <1>4 DEF Named, UpNames, UpNamesOf
<1>8. DnNames'
  BY <1>1, <1>3, <1>5 DEF Named, DnNames, DnNamesOf
<1>9. QED
  BY <1>6, <1>7, <1>8 DEF Named

LEMMA NamesStep ==
  ASSUME Tidy, MovesOwn, NamesInv, [Next]_vars
  PROVE  NamesInv'
<1>1. Base /\ Base'
  BY BaseStep DEF NamesInv
<1>2. CASE UNCHANGED vars
  <2>1. Moving' <=> Moving
    BY <1>2 DEF Moving, vars
  <2>2. QED
    BY <1>1, <1>2, <2>1, NamesIdle DEF NamesInv
<1>3. CASE Next
  <2>1. Moving' <=> Moving
    BY <1>3, HersKept
  <2>2. ASSUME Moving PROVE Named'
    <3>1. Owned /\ UpNames /\ DnNames
      BY <2>2 DEF NamesInv, Named
    <3>2. Owned'
      BY <1>1, <1>3, <2>2, <3>1, OwnedStep
    <3>3. UpNames'
      BY <1>1, <1>3, <2>2, <3>1, UpNamesStep
    <3>4. DnNames'
      BY <1>1, <1>3, <2>2, <3>1, <3>2, DnNamesStep
    <3>5. QED
      BY <3>2, <3>3, <3>4 DEF Named
  <2>3. QED
    BY <1>1, <2>1, <2>2 DEF NamesInv
<1>4. QED
  BY <1>2, <1>3

LEMMA NamesSafe ==
  ASSUME Tidy, MovesOwn, NamesInv, NothingLostUpwards, NothingLostDownwards
  PROVE  NamesNotLost
<1>1. CASE Moving
  <2>1. Base /\ Owned /\ UpNames /\ DnNames
    BY <1>1 DEF NamesInv, Named
  <2>2. ASSUME NEW c \in Clients, mode[c] = "live", NEW p \in OwnedBy(c) PROVE (Uploaded(c)[p] = Absent) = (copy[c][p] = Absent)
    BY <1>1, <2>1, <2>2, UploadedNames
  <2>3. ASSUME NEW c \in Clients, mode[c] = "live", NEW p \in OwnedByOthers(c) \ Forgotten(c)
        PROVE  (Delivered(c)[p] = Absent) = (folder[p] = Absent)
    BY <1>1, <2>1, <2>3, DeliveredNames
  <2>4. QED
    BY <2>2, <2>3 DEF NamesNotLost
<1>2. CASE ~Moving
  <2>1. ContentsKept
    BY <1>2 DEF ContentsKept, Moving
  <2>2. QED
    BY <2>1 DEF NamesNotLost, NothingLostUpwards, NothingLostDownwards
<1>3. QED
  BY <1>1, <1>2

\* No name is lost on its way, up or down, also when the users move files: what is on its way
\* makes the same paths exist.  A move takes whatever lies at its source when it comes
\* (moveFile, Dropbox.cpp:156-180), often another content than the user's, and it takes a file
\* away from under a receiver that still writes it (receiveNewFileProcedure, :485-517); which
\* paths there are depends on neither.
THEOREM NamesStay ==
  ASSUME Tidy, CopiesOwn, MovesOwn
  PROVE  Spec => []NamesNotLost
<1>1. Init => NamesInv
  BY NamesInit
<1>2. NamesInv /\ [Next]_vars => NamesInv'
  BY NamesStep
<1>3. Spec => []NothingLostUpwards /\ []NothingLostDownwards
  BY UploadsArrive, ChangesArrive
<1>4. NamesInv /\ NothingLostUpwards /\ NothingLostDownwards => NamesNotLost
  BY NamesSafe
<1>5. QED
  BY <1>1, <1>2, <1>3, <1>4, PTL DEF Spec
=============================================================================
