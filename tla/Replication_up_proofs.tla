--------------------------- MODULE Replication_up_proofs ---------------------------
(***************************************************************************)
(* Theorem about Replication, for any clients, files, directories and      *)
(* plans: no edit is lost on its way to the server.  What is still on the  *)
(* way turns the server's folder into what the user sees.  At the end, for *)
(* the theorem EventsApply: each event on that way finds what it needs     *)
(* when its turn comes.                                                    *)
(***************************************************************************)
EXTENDS Replication_proofs

-----------------------------------------------------------------------------
(* What is on its way to the server *)

\* A COPY is followed by the NEW_FILE of the same file.
Paired(es) == \A i \in 1 .. Len(es) : es[i].op = "COPY" =>
                  i < Len(es) /\ es[i + 1].op = "NEW_FILE" /\ es[i + 1].dst = es[i].dst
Pairs == \A c \in Clients : Paired(out[c])

\* The paths P that there are once the messages u and the events o have arrived at the
\* folder f are those of the copy k.
Shape(P, f, u, o, k) == Through(P, Through(P, P \cap Sp(f), Evs(u)), o) = P \cap Sp(k)
UpShape == \A c \in Clients : mode[c] = "live" => Shape(Held(c, c), folder, up[c], out[c], copy[c])

LEMMA ShapeFewer ==
  ASSUME NEW P, NEW Q, WithParents(P), WithParents(Q), Q \subseteq P, NEW f, NEW k,
         NEW u \in Seq(Message), NEW o \in Seq(Event), Shape(P, f, u, o, k)
  PROVE  Shape(Q, f, u, o, k)
<1> DEFINE S == P \cap Sp(f)
           R == Through(P, S, Evs(u))
<1>1. Evs(u) \in Seq(Event) /\ Len(Evs(u)) \in Nat /\ Len(o) \in Nat
  BY EvsFacts
<1>2. S \subseteq P /\ Q \cap S = Q \cap Sp(f)
  OBVIOUS
<1>3. R \subseteq P
  BY <1>1, <1>2, ThroughWithin
<1> HIDE DEF S
<1>4. Through(Q, Q \cap S, Evs(u)) = Q \cap R
  BY <1>1, <1>2, ThroughFewer
<1>5. Through(P, R, o) = P \cap Sp(k)
  BY DEF Shape, S
<1> HIDE DEF R
<1>6. Through(Q, Q \cap R, o) = Q \cap Through(P, R, o)
  BY <1>1, <1>3, ThroughFewer
<1>7. QED
  BY <1>2, <1>4, <1>5, <1>6 DEF Shape

LEMMA PairedTail ==
  ASSUME NEW es \in Seq(Event), es # <<>>, Paired(es)
  PROVE  Paired(Tail(es))
<1>1. Len(es) \in Nat /\ Len(Tail(es)) = Len(es) - 1 /\ \A i \in 1 .. Len(es) - 1 : Tail(es)[i] = es[i + 1]
  OBVIOUS
<1> SUFFICES ASSUME NEW i \in 1 .. Len(Tail(es)), Tail(es)[i].op = "COPY"
             PROVE  /\ i < Len(Tail(es)) /\ Tail(es)[i + 1].op = "NEW_FILE"
                    /\ Tail(es)[i + 1].dst = Tail(es)[i].dst
  BY DEF Paired
<1>2. i + 1 \in 1 .. Len(es) /\ Tail(es)[i] = es[i + 1]
  BY <1>1
<1>3. i + 1 < Len(es) /\ es[(i + 1) + 1].op = "NEW_FILE" /\ es[(i + 1) + 1].dst = es[i + 1].dst
  BY <1>2 DEF Paired
<1>4. i + 1 \in 1 .. Len(es) - 1
  BY <1>1, <1>2, <1>3
<1>5. Tail(es)[i + 1] = es[(i + 1) + 1]
  BY <1>1, <1>4
<1>6. QED
  BY <1>1, <1>2, <1>3, <1>5

NewFile(p) == [op |-> "NEW_FILE", src |-> p, dst |-> p]

LEMMA ReportsFacts ==
  ASSUME NEW e, Well(e)
  PROVE  /\ e.op # "COPY" => Reports(e) = <<e>>
         /\ e.op = "COPY" => Reports(e) = <<e, NewFile(e.dst)>> /\ Well(NewFile(e.dst)) /\ e.dst \in Files
         /\ NewFile(e.dst) \in Event /\ e \in Event /\ Reports(e) \in Seq(Event)
<1>1. e \in Event /\ e.dst \in Paths
  BY DEF Well, Event
<1>2. NewFile(e.dst) \in Event
  BY <1>1 DEF Event, Events, NewFile
<1>3. e.op = "COPY" => e.dst \in Files
  BY DEF Well
<1>4. QED
  BY <1>1, <1>2, <1>3 DEF Reports, Well, NewFile

LEMMA AppendBoth ==
  ASSUME NEW E, NEW es \in Seq(E), NEW a \in E, NEW b \in E
  PROVE  /\ es \o <<a>> = Append(es, a)
         /\ es \o <<a, b>> = Append(Append(es, a), b)
  OBVIOUS

LEMMA PairedReports ==
  ASSUME NEW es \in Seq(Event), Paired(es), NEW e, Well(e)
  PROVE  Paired(es \o Reports(e))
<1>1. e \in Event /\ NewFile(e.dst) \in Event
  BY ReportsFacts
<1>2. CASE e.op # "COPY"
  <2>1. Reports(e) = <<e>>
    BY <1>2, ReportsFacts
  <2>2. /\ Len(es \o <<e>>) = Len(es) + 1 /\ Len(es) \in Nat /\ (es \o <<e>>)[Len(es) + 1] = e
        /\ \A i \in 1 .. Len(es) : (es \o <<e>>)[i] = es[i]
    BY <1>1
  <2>3. QED
    BY <1>2, <2>1, <2>2 DEF Paired
<1>3. CASE e.op = "COPY"
  <2> DEFINE n == NewFile(e.dst)
             fs == es \o <<e, n>>
  <2>1. Reports(e) = <<e, n>>
    BY <1>3, ReportsFacts
  <2>2. n.op = "NEW_FILE" /\ n.dst = e.dst
    BY DEF NewFile
  <2> HIDE DEF n
  <2>3. /\ Len(fs) = Len(es) + 2 /\ Len(es) \in Nat /\ fs[Len(es) + 1] = e /\ fs[Len(es) + 2] = n
        /\ \A i \in 1 .. Len(es) : fs[i] = es[i]
    BY <1>1 DEF n
  <2> HIDE DEF fs
  <2>4. Paired(fs)
    <3> SUFFICES ASSUME NEW i \in 1 .. Len(fs), fs[i].op = "COPY"
                 PROVE  i < Len(fs) /\ fs[i + 1].op = "NEW_FILE" /\ fs[i + 1].dst = fs[i].dst
      BY DEF Paired
    <3>1. CASE i \in 1 .. Len(es)
      <4>1. es[i].op = "COPY"
        BY <3>1, <2>3
      <4>2. i < Len(es) /\ es[i + 1].op = "NEW_FILE" /\ es[i + 1].dst = es[i].dst
        BY <3>1, <4>1 DEF Paired
      <4>3. i + 1 \in 1 .. Len(es)
        BY <2>3, <3>1, <4>2
      <4>4. QED
        BY <2>3, <3>1, <4>2, <4>3
    <3>2. CASE i = Len(es) + 1
      BY <2>2, <2>3, <3>2
    <3>3. CASE i = Len(es) + 2
      BY <2>2, <2>3, <3>3
    <3>4. QED
      BY <2>3, <3>1, <3>2, <3>3
  <2>5. QED
    BY <2>1, <2>4 DEF fs
<1>4. QED
  BY <1>2, <1>3

LEMMA PairsStep ==
  ASSUME Base, Pairs, Trees, ContentsKept, Next
  PROVE  Pairs'
<1>0. TypeOK /\ EventsOK /\ out \in [Clients -> Seq(Event)]
  BY DEF Base, TypeOK
<1> SUFFICES ASSUME NEW k \in Clients PROVE Paired(out'[k])
  BY DEF Pairs
<1>1. Paired(out[k])
  BY DEF Pairs
<1>2. CASE Edits
  <2>1. PICK c \in Clients, op \in plan.ops, p \in Paths, q \in Paths : Edit(c, [op |-> op, src |-> p, dst |-> q])
    BY <1>2 DEF Edits
  <2>2. PICK e \in Own(c) : EditedAs(c, e)
    BY <2>1, EditSound
  <2>3. Well(e) /\ out'[k] = IF k = c THEN out[k] \o Reports(e) ELSE out[k]
    BY <1>0, <2>2, Members DEF EditedAs
  <2>4. QED
    BY <1>0, <1>1, <2>3, PairedReports
<1>3. ASSUME NEW c \in Clients, ClientSend(c) PROVE Paired(out'[k])
  <2>1. out[c] # <<>> /\ out'[k] = IF k = c THEN Tail(out[k]) ELSE out[k]
    BY <1>0, <1>3 DEF ClientSend
  <2>2. QED
    BY <1>0, <1>1, <2>1, PairedTail
<1>4. QED
  BY <1>1, <1>2, <1>3, WhoChanges DEF Changes

LEMMA HeldNext ==
  ASSUME Base, Tidy, Next, NEW k \in Clients, NEW c \in Clients
  PROVE  WithParents(Held(k, c)') /\ Held(k, c)' \subseteq Held(k, c)
<1>1. TypeOK /\ TypeOK' /\ plan' = plan /\ plan \in Plans
  BY TypeStep, WhoChanges DEF Base, Changes, TypeOK
<1>2. ASSUME NEW p \in Held(k, c)', In[p] # Root PROVE In[p] \in Held(k, c)'
  <2>1. p \in Paths /\ plan.editors[p] \subseteq {k} /\ p \notin missed'[c] /\ In[p] \notin missed'[c]
    BY <1>1, <1>2 DEF Held, Mine, Forgotten
  <2>2. In[p] \in Paths /\ In[In[p]] = Root /\ plan.editors[In[p]] \subseteq plan.editors[p]
    BY <1>1, <1>2, <2>1, ConstantFacts DEF Tidy
  <2>3. Root \notin missed'[c]
    BY <1>1, ConstantFacts DEF TypeOK
  <2>4. QED
    BY <1>1, <2>1, <2>2, <2>3 DEF Held, Mine, Forgotten
<1>3. Held(k, c)' \subseteq Held(k, c) /\ Held(k, c)' \subseteq Paths
  BY <1>1, HeldShrinks DEF Held, Mine
<1>4. QED
  BY <1>2, <1>3 DEF WithParents

LEMMA ShapeKept ==
  ASSUME Base, Tidy, Next, NEW c \in Clients,
         Shape(Held(c, c), folder', up'[c], out'[c], copy'[c])
  PROVE  Shape(Held(c, c)', folder', up'[c], out'[c], copy'[c])
<1>1. up'[c] \in Seq(Message) /\ out'[c] \in Seq(Event)
  BY TypeStep DEF Base, TypeOK
<1>2. WithParents(Held(c, c)) /\ WithParents(Held(c, c)') /\ Held(c, c)' \subseteq Held(c, c)
  BY HeldFacts, HeldNext DEF Base
<1>3. QED
  BY <1>1, <1>2, ShapeFewer

\* The same, said of one of them.
UpShapeOf(c) == Shape(Held(c, c), folder, up[c], out[c], copy[c])

\* The paths that there are, not their contents, matter.
LEMMA ShapeSame ==
  ASSUME NEW P, NEW u, NEW o, NEW f, NEW g, NEW k, NEW l, Shape(P, f, u, o, k),
         P \cap Sp(f) = P \cap Sp(g), P \cap Sp(k) = P \cap Sp(l)
  PROVE  Shape(P, g, u, o, l)
  BY DEF Shape

\* The first message arrives.
LEMMA ShapeArrives ==
  ASSUME NEW P, WithParents(P), NEW f, Sound(f), NEW u \in Seq(Message), u # <<>>, NEW o, NEW k, Shape(P, f, u, o, k),
         NEW m, Good(m), m.ev = Head(u).ev
  PROVE  Shape(P, Applied(f, m), Tail(u), o, k)
<1>1. P \cap Sp(Applied(f, m)) = Shaped(P, P \cap Sp(f), m.ev)
  BY AppliedShape
<1> DEFINE S == P \cap Sp(f)
<1>2. Evs(u) \in Seq(Event) /\ Evs(u) # <<>> /\ Head(Evs(u)) = m.ev /\ Evs(Tail(u)) = Tail(Evs(u))
  BY EvsFacts
<1> HIDE DEF S
<1>3. Through(P, S, Evs(u)) = Through(P, Shaped(P, S, m.ev), Tail(Evs(u)))
  BY <1>2, ThroughHead
<1>4. QED
  BY <1>1, <1>2, <1>3 DEF Shape, S

\* An event is sent.
LEMMA ShapeSent ==
  ASSUME NEW P, NEW f, NEW u \in Seq(Message), NEW o \in Seq(Event), o # <<>>, NEW k, Shape(P, f, u, o, k),
         NEW m \in Message, m.ev = Head(o)
  PROVE  Shape(P, f, Append(u, m), Tail(o), k)
<1> DEFINE S == P \cap Sp(f)
<1>1. Evs(u) \in Seq(Event) /\ Evs(Append(u, m)) = Append(Evs(u), m.ev) /\ m.ev \in Event
  BY EvsFacts DEF Message
<1> HIDE DEF S
<1>2. Through(P, S, Append(Evs(u), m.ev)) = Shaped(P, Through(P, S, Evs(u)), m.ev)
  BY <1>1, ThroughAppend
<1> DEFINE R == Through(P, S, Evs(u))
<1> HIDE DEF R
<1>3. Through(P, R, o) = Through(P, Shaped(P, R, Head(o)), Tail(o))
  BY ThroughHead
<1>4. QED
  BY <1>1, <1>2, <1>3 DEF Shape, S, R

\* The user edits.
LEMMA ShapeEdited ==
  ASSUME NEW P, WithParents(P), NEW f, NEW u \in Seq(Message), NEW o \in Seq(Event), NEW k, Sound(k), Shape(P, f, u, o, k),
         NEW m, Good(m)
  PROVE  Shape(P, f, u, o \o Reports(m.ev), Applied(k, m))
<1> DEFINE R == Through(P, P \cap Sp(f), Evs(u))
           e == m.ev
           n == NewFile(e.dst)
           S == P \cap Sp(k)
<1>1. Well(e) /\ e \in Event /\ n \in Event /\ e.op # "MOVE"
  BY ReportsFacts DEF Good, Plain
<1>2. Through(P, R, o) = S
  BY DEF Shape
<1>3. P \cap Sp(Applied(k, m)) = Shaped(P, S, e)
  BY AppliedShape
<1> HIDE DEF R, S
<1>4. Through(P, R, Append(o, e)) = Shaped(P, S, e)
  BY <1>1, <1>2, ThroughAppend
<1>5. CASE e.op # "COPY"
  <2>1. o \o Reports(e) = Append(o, e)
    BY <1>1, <1>5, ReportsFacts, AppendBoth
  <2>2. QED
    BY <1>3, <1>4, <2>1 DEF Shape, R
<1>6. CASE e.op = "COPY"
  <2> DEFINE oe == Append(o, e)
  <2>0. Reports(e) = <<e, n>> /\ e.dst \in Files
    BY <1>1, <1>6, ReportsFacts
  <2>2. n.op = "NEW_FILE" /\ n.dst = e.dst
    BY DEF NewFile
  <2> HIDE DEF n
  <2>1. o \o Reports(e) = Append(oe, n)
    BY <1>1, <2>0, AppendBoth
  <2>3. oe \in Seq(Event) /\ Through(P, R, oe) = Shaped(P, S, e)
    BY <1>1, <1>4
  <2> HIDE DEF oe
  <2>4. Through(P, R, Append(oe, n)) = Shaped(P, Shaped(P, S, e), n)
    BY <1>1, <2>3, ThroughAppend
  <2>5. In[e.dst] # e.dst
    BY <1>1, <2>0, ConstantFacts
  <2>6. Shaped(P, Shaped(P, S, e), n) = Shaped(P, S, e)
    BY <1>6, <2>2, <2>5 DEF Shaped
  <2>7. QED
    BY <1>3, <2>1, <2>4, <2>6 DEF Shape, R
<1>7. QED
  BY <1>5, <1>6

LEMMA ShapeStart ==
  ASSUME Base, Tidy, Trees, Writing, Walked, ContentsKept, Next, NEW c \in Clients, Register(c)
  PROVE  UpShapeOf(c)'
<1>1. /\ folder' = folder /\ copy' = copy /\ up' = up /\ out' = out /\ mode[c] = "offer" /\ rcv[c].pc = "idle"
      /\ up[c] = <<>> /\ out[c] = <<>>
  BY DEF Register, Base, Unlisted, Before
<1>2. \A p \in Paths \ Forgotten(c) : copy[c][p] = folder[p]
  BY <1>1 DEF Walked
<1> DEFINE P == Held(c, c)
<1>3. P \cap Sp(folder) = P \cap Sp(copy[c])
  BY <1>2 DEF Sp, Held
<1>4. Evs(up[c]) = <<>>
  BY <1>1, EvsFacts DEF Base, TypeOK
<1> HIDE DEF P
<1>5. Through(P, Through(P, P \cap Sp(folder), Evs(up[c])), out[c]) = P \cap Sp(folder)
  BY <1>1, <1>4, ThroughNone
<1>6. Shape(P, folder', up'[c], out'[c], copy'[c])
  BY <1>1, <1>3, <1>5 DEF Shape
<1>7. QED
  BY <1>6, ShapeKept DEF UpShapeOf, P

\* What the others do to the server's folder.
LEMMA FolderForeign ==
  ASSUME Base, Tidy, Trees, ContentsKept, Next, NEW k \in Clients, NEW c \in Clients, NEW j \in Clients \ {k},
         StartFile(j) \/ StartCutFile(j) \/ ReceivePath(j)
  PROVE  \A p \in Held(k, c) : folder'[p] = folder[p]
<1>1. up[j] # <<>> /\ Head(up[j]) \in OwnMessage(j)
  BY Heads DEF StartFile, StartCutFile, ReceivePath, Base
<1>2. PICK m : m.ev = Head(up[j]).ev /\ Arrives(m)
  BY FolderSteps
<1>3. m.ev \in By(j)
  BY <1>1, <1>2, Members
<1>4. \A p \in Held(k, c) : p \in Paths /\ ~Touches(m.ev, p)
  BY <1>3, Foreign, HeldFacts DEF Base
<1>5. QED
  BY <1>2, <1>4, AppliedSound DEF Arrives, Trees

LEMMA FolderReturned ==
  ASSUME Base, Trees, Tidy, ContentsKept, Next, NEW j \in Clients, NEW q \in Paths, Return(j, q)
  PROVE  \A k, c \in Clients : \A p \in Held(k, c)' : folder'[p] = folder[p]
<1>1. CASE folder' = folder
  BY <1>1
<1>2. CASE folder' # folder
  <2>1. PICK e \in Event : BringsBack(q, e)
    BY <1>2, ReturnSteps
  <2>2. \A k, c \in Clients : \A p \in Held(k, c)' : p \in Paths /\ p # q
    BY <2>1, HeldNext, HeldFacts DEF BringsBack, Held, Forgotten, Mine
  <2>3. \A p \in Paths : p # q => ~Touches(e, p)
    BY <2>1 DEF BringsBack, Touches
  <2>4. QED
    BY <2>1, <2>2, <2>3, AppliedSound DEF BringsBack, Arrives, Trees
<1>3. QED
  BY <1>1, <1>2

LEMMA FolderFinished ==
  ASSUME Base, Trees, Writing, Next, NEW j \in Clients, FinishFile(j)
  PROVE  Sp(folder') = Sp(folder)
<1>1. CASE folder' = folder
  BY <1>1
<1>2. CASE folder' # folder
  <2>1. PICK v \in Content \ {Absent} : Leaves(j, v)
    BY <1>2, FinishSteps
  <2>2. folder[rcv[j].ino] # Absent
    BY <2>1, ReplicationAssumption DEF Writing, FinishFile, Leaves, Paths
  <2>3. folder \in Tree
    BY DEF Base, TypeOK
  <2>4. QED
    BY <2>1, <2>2, <2>3 DEF Leaves, Sp, Tree
<1>3. QED
  BY <1>1, <1>2

LEMMA UpShapeStep ==
  ASSUME Base, Tidy, Trees, Writing, Walked, ContentsKept, UpShape, Next
  PROVE  UpShape'
<1>0. /\ TypeOK /\ EventsOK /\ folder \in Tree /\ copy \in [Clients -> Tree] /\ out \in [Clients -> Seq(Event)]
      /\ up \in [Clients -> Seq(Message)] /\ mode \in [Clients -> Modes] /\ Sound(folder)
  BY DEF Base, TypeOK, Trees
<1> SUFFICES ASSUME NEW c \in Clients, mode'[c] = "live" PROVE UpShapeOf(c)'
  BY DEF UpShape, UpShapeOf
<1>1. SUFFICES ASSUME mode[c] = "live" PROVE UpShapeOf(c)'
  BY <1>0, ModeSteps, ShapeStart
<1> DEFINE P == Held(c, c)
<1>2. WithParents(P) /\ P \subseteq Paths
  BY <1>0, HeldFacts
<1>3. Shape(P, folder, up[c], out[c], copy[c])
  BY <1>1 DEF UpShape
<1>4. SUFFICES Shape(P, folder', up'[c], out'[c], copy'[c]) \/ UpShapeOf(c)'
  BY ShapeKept DEF UpShapeOf
<1> HIDE DEF P
<1>5. CASE Edits
  <2>1. PICK k \in Clients, op \in plan.ops, p \in Paths, q \in Paths : Edit(k, [op |-> op, src |-> p, dst |-> q])
    BY <1>5 DEF Edits
  <2>2. PICK e \in Own(k) : EditedAs(k, e)
    BY <2>1, EditSound
  <2>3. folder' = folder /\ up' = up
    BY <2>1 DEF Edit
  <2>4. CASE k = c
    <3> DEFINE m == [ev |-> e, val |-> edits']
    <3>1. Good(m) /\ m.ev = e /\ copy'[c] = Applied(copy[c], m) /\ out'[c] = out[c] \o Reports(m.ev)
      BY <1>0, <2>2, <2>4 DEF EditedAs
    <3> HIDE DEF m
    <3>2. Shape(P, folder, up[c], out[c] \o Reports(m.ev), Applied(copy[c], m))
      BY <1>0, <1>2, <1>3, <3>1, ShapeEdited DEF Trees
    <3>3. QED
      BY <2>3, <3>1, <3>2
  <2>5. CASE k # c
    <3>1. copy'[c] = copy[c] /\ out'[c] = out[c]
      BY <1>0, <2>2, <2>5 DEF EditedAs
    <3>2. QED
      BY <1>3, <2>3, <3>1
  <2>6. QED
    BY <2>4, <2>5
<1>6. ASSUME NEW k \in Clients, ClientSend(k) PROVE Shape(P, folder', up'[c], out'[c], copy'[c])
  <2>1. folder' = folder /\ copy' = copy
    BY <1>6 DEF ClientSend
  <2>2. CASE k = c
    <3> DEFINE m == [ev |-> Head(out[c]), val |-> copy[c][Head(out[c]).dst]]
    <3>1. out[c] # <<>> /\ out'[c] = Tail(out[c]) /\ up'[c] = Append(up[c], m)
      BY <1>0, <1>6, <2>2 DEF ClientSend
    <3>2. m \in Message /\ m.ev = Head(out[c])
      <4>1. Head(out[c]) \in Event
        BY <1>0, <3>1
      <4>2. copy[c][Head(out[c]).dst] \in Content
        BY <1>0, <4>1 DEF Tree, Event
      <4>3. QED
        BY <4>1, <4>2 DEF Message
    <3> HIDE DEF m
    <3>3. Shape(P, folder, Append(up[c], m), Tail(out[c]), copy[c])
      BY <1>0, <1>3, <3>1, <3>2, ShapeSent
    <3>4. QED
      BY <2>1, <3>1, <3>3
  <2>3. CASE k # c
    BY <1>0, <1>3, <1>6, <2>1, <2>3 DEF ClientSend
  <2>4. QED
    BY <2>2, <2>3
<1>7. ASSUME NEW k \in Clients, ClientReceive(k) PROVE Shape(P, folder', up'[c], out'[c], copy'[c])
  <2>1. folder' = folder /\ up' = up /\ out' = out
    BY <1>7 DEF ClientReceive
  <2>2. CASE copy'[c] = copy[c]
    BY <1>3, <2>1, <2>2
  <2>3. CASE copy'[c] # copy[c]
    <3> DEFINE m == Head(down[c])
    <3>1. k = c /\ down[c] # <<>> /\ copy'[c] = Applied(copy[c], m)
      BY <1>0, <1>7, <2>3 DEF ClientReceive, Applied
    <3>2. m \in OthersMessage(c) /\ Good(m)
      BY <1>0, <3>1, Heads, NoMoves
    <3>3. PICK j \in Clients \ {c} : m.ev \in By(j)
      BY <3>2 DEF OthersMessage, ByOthers
    <3> HIDE DEF m
    <3>4. \A p \in P : p \in Paths /\ ~Touches(m.ev, p)
      BY <1>0, <1>2, <3>3, Foreign DEF P
    <3>5. \A p \in P : copy'[c][p] = copy[c][p]
      BY <3>1, <3>2, <3>4, AppliedSound DEF Trees
    <3>6. QED
      BY <1>3, <2>1, <3>5, ShapeSame DEF Sp
  <2>4. QED
    BY <2>2, <2>3
<1>8. ASSUME NEW k \in Clients, StartFile(k) \/ StartCutFile(k) \/ ReceivePath(k)
      PROVE  Shape(P, folder', up'[c], out'[c], copy'[c])
  <2>1. out' = out /\ copy' = copy
    BY <1>8 DEF StartFile, StartCutFile, ReceivePath
  <2>2. CASE k = c
    <3>1. ~StartCutFile(c)
      BY <1>1 DEF StartCutFile
    <3>2. up[c] # <<>> /\ up'[c] = Tail(up[c])
      BY <1>0, <1>8, <2>2 DEF StartFile, StartCutFile, ReceivePath
    <3>3. PICK m : m.ev = Head(up[c]).ev /\ Arrives(m)
      BY <1>8, <2>2, FolderSteps
    <3>4. Good(m) /\ folder' = Applied(folder, m)
      BY <3>3 DEF Arrives
    <3>5. Shape(P, Applied(folder, m), Tail(up[c]), out[c], copy[c])
      BY <1>0, <1>2, <1>3, <3>2, <3>3, <3>4, ShapeArrives
    <3>6. QED
      BY <2>1, <3>2, <3>4, <3>5
  <2>3. CASE k # c
    <3>1. up'[c] = up[c]
      BY <1>0, <1>8, <2>3 DEF StartFile, StartCutFile, ReceivePath
    <3>2. \A p \in P : folder'[p] = folder[p]
      BY <1>8, <2>3, FolderForeign DEF P
    <3>3. QED
      BY <1>3, <2>1, <3>1, <3>2, ShapeSame DEF Sp
  <2>4. QED
    BY <2>2, <2>3
<1>9. ASSUME NEW k \in Clients, FinishFile(k) PROVE Shape(P, folder', up'[c], out'[c], copy'[c])
  <2>1. out' = out /\ copy' = copy /\ up' = up
    BY <1>9 DEF FinishFile
  <2>2. QED
    BY <1>3, <1>9, <2>1, FolderFinished, ShapeSame
<1>10. ASSUME NEW k \in Clients, NEW q \in Paths, Return(k, q) PROVE UpShapeOf(c)'
  <2>1. out' = out /\ copy' = copy /\ up' = up
    BY <1>10 DEF Return
  <2>2. \A p \in Held(c, c)' : folder'[p] = folder[p]
    BY <1>10, FolderReturned
  <2>3. WithParents(Held(c, c)') /\ Held(c, c)' \subseteq P
    BY HeldNext DEF P
  <2>4. Shape(Held(c, c)', folder, up[c], out[c], copy[c])
    BY <1>0, <1>2, <1>3, <2>3, ShapeFewer
  <2>5. Shape(Held(c, c)', folder', up[c], out[c], copy[c])
    BY <2>2, <2>4, ShapeSame DEF Sp
  <2>6. QED
    BY <2>1, <2>5 DEF UpShapeOf
<1>11. ASSUME NEW k \in Clients, NEW q \in Paths, Offer(k, q) PROVE Shape(P, folder', up'[c], out'[c], copy'[c])
  <2>1. folder' = folder /\ up' = up /\ out' = out
    BY <1>11 DEF Offer
  <2>2. k # c
    BY <1>1, <1>11 DEF Offer
  <2>3. copy'[c] = copy[c]
    BY <1>0, <1>11, <2>2 DEF Offer
  <2>4. QED
    BY <1>3, <2>1, <2>3
<1>12. QED
  BY <1>3, <1>5, <1>6, <1>7, <1>8, <1>9, <1>10, <1>11, WhoChanges DEF Changes

LEMMA GivesAppend ==
  ASSUME NEW ms \in Seq(Message), NEW m \in Message, NEW p, NEW v
  PROVE  /\ ~Touches(m.ev, p) => /\ Spares(Append(ms, m), p) => Spares(ms, p)
                                 /\ Gives(ms, p, v) => Gives(Append(ms, m), p, v)
         /\ Touches(m.ev, p) => /\ ~Spares(Append(ms, m), p)
                                /\ \/ m.ev.op = "DELETE"
                                   \/ m.ev.op = "NEW_FILE" /\ m.val = v
                                   => Gives(Append(ms, m), p, v)
<1> DEFINE ns == Append(ms, m)
<1>1. /\ Len(ms) \in Nat /\ Len(ns) = Len(ms) + 1 /\ ns[Len(ms) + 1] = m
      /\ \A i \in 1 .. Len(ms) : ns[i] = ms[i]
  OBVIOUS
<1> HIDE DEF ns
<1>2. ASSUME ~Touches(m.ev, p), Spares(ns, p) PROVE Spares(ms, p)
  BY <1>1, <1>2 DEF Spares
<1>3. ASSUME ~Touches(m.ev, p), Gives(ms, p, v) PROVE Gives(ns, p, v)
  <2> SUFFICES ASSUME NEW i \in 1 .. Len(ns), Touches(ns[i].ev, p),
                      \A j \in i + 1 .. Len(ns) : ~Touches(ns[j].ev, p)
               PROVE  ns[i].ev.op = "DELETE" \/ (ns[i].ev.op = "NEW_FILE" /\ ns[i].val = v)
    BY DEF Gives
  <2>1. i \in 1 .. Len(ms)
    BY <1>1, <1>3
  <2>2. \A j \in i + 1 .. Len(ms) : ~Touches(ms[j].ev, p)
    BY <1>1, <2>1
  <2>3. QED
    BY <1>1, <1>3, <2>1, <2>2 DEF Gives
<1>4. ASSUME Touches(m.ev, p) PROVE ~Spares(ns, p)
  BY <1>1, <1>4 DEF Spares
<1>5. ASSUME Touches(m.ev, p), m.ev.op = "DELETE" \/ (m.ev.op = "NEW_FILE" /\ m.val = v) PROVE Gives(ns, p, v)
  <2> SUFFICES ASSUME NEW i \in 1 .. Len(ns), Touches(ns[i].ev, p),
                      \A j \in i + 1 .. Len(ns) : ~Touches(ns[j].ev, p)
               PROVE  ns[i].ev.op = "DELETE" \/ (ns[i].ev.op = "NEW_FILE" /\ ns[i].val = v)
    BY DEF Gives
  <2>1. i = Len(ns)
    BY <1>1, <1>5
  <2>2. QED
    BY <1>1, <1>5, <2>1
<1>6. QED
  BY <1>2, <1>3, <1>4, <1>5 DEF ns

LEMMA GivesTail ==
  ASSUME NEW ms \in Seq(Message), ms # <<>>, NEW p, NEW v, Gives(ms, p, v)
  PROVE  /\ Gives(Tail(ms), p, v)
         /\ Spares(Tail(ms), p) /\ ~Touches(Head(ms).ev, p) => Spares(ms, p)
         /\ Spares(Tail(ms), p) /\ Touches(Head(ms).ev, p) =>
               \/ Head(ms).ev.op = "DELETE"
               \/ Head(ms).ev.op = "NEW_FILE" /\ Head(ms).val = v
<1> DEFINE ns == Tail(ms)
<1>1. /\ Len(ms) \in Nat \ {0} /\ Len(ns) = Len(ms) - 1 /\ Head(ms) = ms[1]
      /\ \A i \in 1 .. Len(ms) - 1 : ns[i] = ms[i + 1]
  OBVIOUS
<1> HIDE DEF ns
<1>2. Gives(ns, p, v)
  <2> SUFFICES ASSUME NEW i \in 1 .. Len(ns), Touches(ns[i].ev, p),
                      \A j \in i + 1 .. Len(ns) : ~Touches(ns[j].ev, p)
               PROVE  ns[i].ev.op = "DELETE" \/ (ns[i].ev.op = "NEW_FILE" /\ ns[i].val = v)
    BY DEF Gives
  <2>1. i + 1 \in 1 .. Len(ms) /\ ns[i] = ms[i + 1]
    BY <1>1
  <2>2. ASSUME NEW j \in (i + 1) + 1 .. Len(ms) PROVE ~Touches(ms[j].ev, p)
    <3>1. j - 1 \in i + 1 .. Len(ns) /\ j - 1 \in 1 .. Len(ms) - 1 /\ (j - 1) + 1 = j
      BY <1>1, <2>2
    <3>2. ns[j - 1] = ms[(j - 1) + 1]
      BY <1>1, <3>1
    <3>3. QED
      BY <3>1, <3>2
  <2>3. QED
    BY <2>1, <2>2 DEF Gives
<1>3. ASSUME Spares(ns, p), NEW j \in 2 .. Len(ms) PROVE ~Touches(ms[j].ev, p)
  <2>1. j - 1 \in 1 .. Len(ns) /\ j - 1 \in 1 .. Len(ms) - 1 /\ (j - 1) + 1 = j
    BY <1>1
  <2>2. ns[j - 1] = ms[(j - 1) + 1]
    BY <1>1, <2>1
  <2>3. QED
    BY <1>3, <2>1, <2>2 DEF Spares
<1>4. ASSUME Spares(ns, p), ~Touches(ms[1].ev, p) PROVE Spares(ms, p)
  BY <1>1, <1>3, <1>4 DEF Spares
<1>5. ASSUME Spares(ns, p), Touches(ms[1].ev, p)
      PROVE  ms[1].ev.op = "DELETE" \/ (ms[1].ev.op = "NEW_FILE" /\ ms[1].val = v)
  <2>1. 1 \in 1 .. Len(ms) /\ 1 + 1 = 2
    BY <1>1
  <2>2. QED
    BY <1>3, <1>5, <2>1 DEF Gives
<1>6. QED
  BY <1>1, <1>2, <1>4, <1>5 DEF ns

-----------------------------------------------------------------------------
(* What a file will be once everything has arrived *)

Quiet(es, p) == \A i \in 1 .. Len(es) : ~Touches(es[i], p)

\* v is what the server has of file p, is writing there, or is sent.
Arriving(p, v, f, r, u) ==
    /\ Gives(u, p, v)
    /\ Spares(u, p) => IF r.pc = "writing" /\ r.ev.dst = p THEN r.val = v ELSE f[p] \in {Absent, v}
ValueOf(c, p) == Quiet(out[c], p) /\ copy[c][p] # Absent => Arriving(p, copy[c][p], folder, rcv[c], up[c])
UpValue == \A c \in Clients : mode[c] = "live" => \A p \in Held(c, c) \cap Files : ValueOf(c, p)

LEMMA QuietTail ==
  ASSUME NEW es \in Seq(Event), es # <<>>, NEW p, Quiet(Tail(es), p)
  PROVE  /\ ~Touches(Head(es), p) => Quiet(es, p)
         /\ Touches(Head(es), p) /\ Paired(es) /\ p \in Files /\ Head(es) \in Event => Head(es).op # "COPY"
<1>1. Len(es) \in Nat \ {0} /\ Len(Tail(es)) = Len(es) - 1 /\ Head(es) = es[1]
      /\ \A i \in 1 .. Len(es) - 1 : Tail(es)[i] = es[i + 1]
  OBVIOUS
<1>2. ASSUME NEW j \in 2 .. Len(es) PROVE ~Touches(es[j], p)
  <2>1. j - 1 \in 1 .. Len(Tail(es)) /\ j - 1 \in 1 .. Len(es) - 1 /\ (j - 1) + 1 = j
    BY <1>1
  <2>2. Tail(es)[j - 1] = es[(j - 1) + 1]
    BY <1>1, <2>1
  <2>3. QED
    BY <2>1, <2>2 DEF Quiet
<1>3. ~Touches(Head(es), p) => Quiet(es, p)
  BY <1>1, <1>2 DEF Quiet
<1>4. ASSUME Touches(es[1], p), Paired(es), es[1].op = "COPY" PROVE FALSE
  <2>1. 1 \in 1 .. Len(es) /\ 1 + 1 = 2
    BY <1>1
  <2>2. 1 < Len(es) /\ es[2].dst = es[1].dst
    BY <1>4, <2>1 DEF Paired
  <2>3. Touches(es[2], p) /\ 2 \in 2 .. Len(es)
    BY <1>1, <1>4, <2>2 DEF Touches
  <2>4. QED
    BY <1>2, <2>3
<1>5. QED
  BY <1>1, <1>3, <1>4

LEMMA QuietReports ==
  ASSUME NEW es \in Seq(Event), NEW e, Well(e), NEW p, Quiet(es \o Reports(e), p)
  PROVE  Quiet(es, p) /\ ~Touches(e, p)
<1>1. Reports(e) \in Seq(Event) /\ Len(Reports(e)) >= 1 /\ Reports(e)[1] = e
  BY ReportsFacts
<1> DEFINE fs == es \o Reports(e)
<1>2. /\ Len(fs) = Len(es) + Len(Reports(e)) /\ Len(es) \in Nat /\ Len(Reports(e)) \in Nat
      /\ (\A i \in 1 .. Len(es) : fs[i] = es[i]) /\ fs[Len(es) + 1] = e
  <2>1. /\ Len(fs) = Len(es) + Len(Reports(e)) /\ Len(es) \in Nat /\ Len(Reports(e)) \in Nat
        /\ (\A i \in 1 .. Len(es) : fs[i] = es[i]) /\ \A i \in 1 .. Len(Reports(e)) : fs[Len(es) + i] = Reports(e)[i]
    BY <1>1, BothFacts
  <2>2. 1 \in 1 .. Len(Reports(e))
    BY <1>1, <2>1
  <2>3. QED
    BY <1>1, <2>1, <2>2
<1> HIDE DEF fs
<1>3. \A i \in 1 .. Len(fs) : ~Touches(fs[i], p)
  BY DEF Quiet, fs
<1>4. Len(es) + 1 \in 1 .. Len(fs)
  BY <1>1, <1>2
<1>5. QED
  BY <1>2, <1>3, <1>4 DEF Quiet

LEMMA ArrivingKept ==
  ASSUME NEW p, NEW v, NEW f, NEW g, NEW r, NEW s, NEW u, Arriving(p, v, f, r, u), g[p] = f[p], s.pc = r.pc,
         r.pc = "writing" => s.ev = r.ev /\ s.val = r.val
  PROVE  Arriving(p, v, g, s, u)
BY DEF Arriving

\* The client sends the first of its events.
LEMMA ValueSent ==
  ASSUME Base, ContentsKept, UpValue, Pairs, NEW c \in Clients, ClientSend(c), NEW p \in Held(c, c) \cap Files,
         Quiet(out'[c], p), copy[c][p] # Absent
  PROVE  Arriving(p, copy[c][p], folder, rcv[c], up'[c])
<1> DEFINE e == Head(out[c])
           m == [ev |-> e, val |-> copy[c][e.dst]]
           v == copy[c][p]
<1>0. /\ TypeOK /\ EventsOK /\ copy \in [Clients -> Tree] /\ out[c] \in Seq(Event) /\ up[c] \in Seq(Message)
      /\ mode[c] = "live" /\ out[c] # <<>> /\ Paired(out[c]) /\ p \in Paths /\ p \notin Dirs
  BY ConstantFacts DEF Base, TypeOK, ClientSend, Pairs
<1>1. out'[c] = Tail(out[c]) /\ up'[c] = Append(up[c], m)
  BY DEF ClientSend, Base, TypeOK
<1>2. e \in Own(c) /\ e \in Event /\ Plain(e) /\ m.ev = e /\ m.val = copy[c][e.dst]
  BY <1>0, Heads, Members, NoMoves
<1>3. m \in Message
  BY <1>0, <1>2 DEF Message, Tree, Event
<1> HIDE DEF e, m
<1>4. CASE Touches(e, p)
  <2>1. e.op # "COPY"
    BY <1>0, <1>1, <1>2, <1>4, QuietTail DEF e
  <2>2. e.op \in {"NEW_FILE", "DELETE"}
    BY <1>0, <1>2, <1>4, <2>1, ConstantFacts DEF Plain, Well, Touches, Event, Events
  <2>3. e.op = "NEW_FILE" => e.dst = p
    BY <1>4 DEF Touches
  <2>4. m.ev.op = "DELETE" \/ (m.ev.op = "NEW_FILE" /\ m.val = v)
    BY <1>2, <2>2, <2>3
  <2> HIDE DEF v
  <2>5. Gives(up'[c], p, v) /\ ~Spares(up'[c], p)
    BY <1>0, <1>1, <1>2, <1>3, <1>4, <2>4, GivesAppend
  <2>6. QED
    BY <2>5 DEF Arriving, v
<1>5. CASE ~Touches(e, p)
  <2>1. Quiet(out[c], p)
    BY <1>0, <1>1, <1>5, QuietTail DEF e
  <2>2. Arriving(p, v, folder, rcv[c], up[c])
    BY <1>0, <2>1 DEF UpValue, ValueOf
  <2> HIDE DEF v
  <2>3. Gives(up'[c], p, v) /\ (Spares(up'[c], p) => Spares(up[c], p))
    BY <1>0, <1>1, <1>2, <1>3, <1>5, <2>2, GivesAppend DEF Arriving
  <2>4. QED
    BY <2>2, <2>3 DEF Arriving, v
<1>6. QED
  BY <1>4, <1>5

\* The server opens the file of the first message of the client.
LEMMA ValueOpened ==
  ASSUME Base, ContentsKept, Trees, NEW c \in Clients, StartFile(c), NEW p \in Files, NEW v,
         Arriving(p, v, folder, rcv[c], up[c])
  PROVE  Arriving(p, v, folder', rcv'[c], up'[c])
<1> DEFINE m == Head(up[c])
<1>a. /\ TypeOK /\ EventsOK /\ up[c] \in Seq(Message) /\ up[c] # <<>> /\ up'[c] = Tail(up[c]) /\ rcv[c].pc = "idle"
      /\ Sound(folder) /\ p \in Paths /\ m.ev.op = "NEW_FILE" /\ Open(c, m)
  BY ConstantFacts DEF Base, TypeOK, StartFile, Trees
<1>b. m \in OwnMessage(c)
  BY <1>a, Heads
<1>c. m \in Message /\ Plain(m.ev) /\ m.ev \in Event
  BY <1>b, NoMoves, Members
<1>0. /\ TypeOK /\ EventsOK /\ up[c] \in Seq(Message) /\ up[c] # <<>> /\ up'[c] = Tail(up[c]) /\ rcv[c].pc = "idle"
      /\ Sound(folder) /\ m \in Message /\ Plain(m.ev) /\ m.ev.op = "NEW_FILE" /\ Open(c, m) /\ p \in Paths
      /\ m.ev.dst \in Paths
  BY <1>a, <1>c DEF Event
<1>1. folder' = Applied(folder, [ev |-> m.ev, val |-> Torn]) /\ Good([ev |-> m.ev, val |-> Torn])
  BY FolderSteps DEF Arrives
<1>2. IF Fails(folder, m.ev) THEN rcv'[c] = Dead(TRUE)
      ELSE rcv'[c].pc = "writing" /\ rcv'[c].ev = m.ev /\ rcv'[c].val = m.val
  BY <1>0, OpenFacts DEF Plain
<1>3. /\ Gives(Tail(up[c]), p, v)
      /\ Spares(Tail(up[c]), p) /\ ~Touches(m.ev, p) => Spares(up[c], p)
      /\ Spares(Tail(up[c]), p) /\ Touches(m.ev, p) => m.val = v
  BY <1>0, GivesTail DEF Arriving
<1>4. Touches(m.ev, p) <=> m.ev.dst = p
  BY <1>0 DEF Touches
<1> HIDE DEF m
<1>5. ASSUME Spares(Tail(up[c]), p)
      PROVE  IF rcv'[c].pc = "writing" /\ rcv'[c].ev.dst = p THEN rcv'[c].val = v ELSE folder'[p] \in {Absent, v}
  <2>1. CASE m.ev.dst = p /\ ~Fails(folder, m.ev)
    BY <1>2, <1>3, <1>4, <1>5, <2>1
  <2>2. CASE m.ev.dst = p /\ Fails(folder, m.ev)
    <3>1. NoParent(folder, p)
      BY <1>0, <2>2 DEF Fails
    <3>2. folder'[p] = Absent
      BY <1>0, <1>1, <2>2, <3>1 DEF Applied, NoParent, Sound, Nested
    <3>3. QED
      BY <1>2, <2>2, <3>2 DEF Dead
  <2>3. CASE m.ev.dst # p
    <3>1. folder[p] \in {Absent, v}
      BY <1>0, <1>3, <1>4, <1>5, <2>3 DEF Arriving
    <3>2. folder'[p] = folder[p]
      BY <1>0, <1>1, <1>4, <2>3, AppliedSound
    <3>3. ~(rcv'[c].pc = "writing" /\ rcv'[c].ev.dst = p)
      BY <1>2, <2>3 DEF Dead
    <3>4. QED
      BY <3>1, <3>2, <3>3
  <2>4. QED
    BY <2>1, <2>2, <2>3
<1>6. QED
  BY <1>0, <1>3, <1>5 DEF Arriving

\* The server applies the first message of the client.
LEMMA ValueApplied ==
  ASSUME Base, ContentsKept, Trees, NEW c \in Clients, ReceivePath(c), NEW p \in Files, NEW v,
         Arriving(p, v, folder, rcv[c], up[c])
  PROVE  Arriving(p, v, folder', rcv'[c], up'[c])
<1> DEFINE m == Head(up[c])
<1>a. /\ TypeOK /\ EventsOK /\ up[c] \in Seq(Message) /\ up[c] # <<>> /\ up'[c] = Tail(up[c]) /\ rcv[c].pc = "idle"
      /\ Sound(folder) /\ p \in Paths /\ m.ev.op # "NEW_FILE"
  BY ConstantFacts DEF Base, TypeOK, ReceivePath, Trees
<1>b. m \in OwnMessage(c)
  BY <1>a, Heads
<1>c. m \in Message /\ Plain(m.ev) /\ m.ev \in Event
  BY <1>b, NoMoves, Members
<1>0. /\ TypeOK /\ EventsOK /\ up[c] \in Seq(Message) /\ up[c] # <<>> /\ up'[c] = Tail(up[c]) /\ rcv[c].pc = "idle"
      /\ Sound(folder) /\ m \in Message /\ Plain(m.ev) /\ m.ev.op # "NEW_FILE" /\ p \in Paths
      /\ m.ev.dst \in Paths
  BY <1>a, <1>c DEF Event
<1>1. folder' = Applied(folder, m) /\ Good(m)
  BY FolderSteps DEF Arrives
<1>2. rcv'[c].pc \in {"dead", "saved"}
  BY <1>0, OwnSteps
<1>3. /\ Gives(Tail(up[c]), p, v)
      /\ Spares(Tail(up[c]), p) /\ ~Touches(m.ev, p) => Spares(up[c], p)
      /\ Spares(Tail(up[c]), p) /\ Touches(m.ev, p) => m.ev.op = "DELETE"
  BY <1>0, GivesTail DEF Arriving
<1> HIDE DEF m
<1>4. ASSUME Spares(Tail(up[c]), p) PROVE folder'[p] \in {Absent, v}
  <2>1. CASE Touches(m.ev, p)
    BY <1>0, <1>1, <1>3, <1>4, <2>1, AppliedAt
  <2>2. CASE ~Touches(m.ev, p)
    <3>1. folder[p] \in {Absent, v}
      BY <1>0, <1>3, <1>4, <2>2 DEF Arriving
    <3>2. folder'[p] = folder[p]
      BY <1>0, <1>1, <2>2, AppliedSound
    <3>3. QED
      BY <3>1, <3>2
  <2>3. QED
    BY <2>1, <2>2
<1>5. QED
  BY <1>0, <1>2, <1>3, <1>4 DEF Arriving

\* The server finishes a file of the client.
LEMMA ValueFinished ==
  ASSUME Base, ContentsKept, Trees, Writing, Next, NEW c \in Clients, FinishFile(c), NEW p \in Held(c, c) \cap Files, NEW v,
         Arriving(p, v, folder, rcv[c], up[c])
  PROVE  Arriving(p, v, folder', rcv'[c], up'[c])
<1>0. /\ TypeOK /\ EventsOK /\ rcv[c].pc = "writing" /\ up' = up /\ p \in Paths /\ p \in Mine(c) /\ p \notin missed[c]
      /\ folder \in Tree
  BY ConstantFacts DEF Base, TypeOK, FinishFile, Held, Forgotten
<1>1. rcv'[c].pc # "writing"
  BY <1>0, OwnSteps DEF Dead
<1>2. /\ WritingOf(c) /\ (rcv[c].ino # Absent => rcv[c].ino = rcv[c].ev.dst)
  BY <1>0, WritingFacts
<1>3. ASSUME Spares(up[c], p) PROVE folder'[p] \in {Absent, v}
  <2>1. CASE rcv[c].ev.dst = p
    <3>1. rcv[c].ino = p /\ ~rcv[c].clash /\ rcv[c].val = v
      BY <1>0, <1>2, <1>3, <2>1 DEF WritingOf, Spoiled, Arriving
    <3>2. folder' = [folder EXCEPT ![p] = v]
      BY <1>0, <3>1, ReplicationAssumption DEF FinishFile
    <3>3. QED
      BY <1>0, <3>2 DEF Tree
  <2>2. CASE rcv[c].ev.dst # p
    <3>1. folder[p] \in {Absent, v}
      BY <1>3, <2>2 DEF Arriving
    <3>2. folder'[p] = folder[p]
      <4>1. CASE folder' = folder
        BY <4>1
      <4>2. CASE folder' # folder
        <5>1. PICK w \in Content \ {Absent} : Leaves(c, w)
          BY <4>2, FinishSteps
        <5>2. rcv[c].ino # p
          BY <1>0, <1>2, <2>2, ReplicationAssumption
        <5>3. QED
          BY <1>0, <5>1, <5>2 DEF Leaves, Tree
      <4>3. QED
        BY <4>1, <4>2
    <3>3. QED
      BY <3>1, <3>2
  <2>3. QED
    BY <2>1, <2>2
<1>4. QED
  BY <1>0, <1>1, <1>3 DEF Arriving

LEMMA ValueForeign ==
  ASSUME Base, ContentsKept, Tidy, Trees, Writing, Next, NEW k \in Clients, NEW c \in Clients,
         NEW j \in Clients \ {k}, FinishFile(j), NEW p \in Held(k, c)
  PROVE  folder'[p] = folder[p]
<1>1. CASE folder' = folder
  BY <1>1
<1>2. CASE folder' # folder
  <2>1. PICK w \in Content \ {Absent} : Leaves(j, w)
    BY <1>2, FinishSteps
  <2>2. rcv[j].ev \in By(j) /\ (rcv[j].ino # Absent => rcv[j].ino = rcv[j].ev.dst)
    BY WritingFacts DEF FinishFile
  <2>3. ~Touches(rcv[j].ev, p) /\ p \in Paths
    BY <2>2, Foreign, HeldFacts DEF Base
  <2>4. rcv[j].ino # p
    BY <2>2, <2>3, ReplicationAssumption DEF Touches
  <2>5. QED
    BY <2>1, <2>3, <2>4 DEF Leaves, Base, TypeOK, Tree
<1>3. QED
  BY <1>1, <1>2

LEMMA UpValueStep ==
  ASSUME Base, Tidy, Trees, Writing, Walked, Pairs, ContentsKept, UpValue, Next
  PROVE  UpValue'
<1>0. /\ TypeOK /\ EventsOK /\ copy \in [Clients -> Tree] /\ out \in [Clients -> Seq(Event)]
      /\ up \in [Clients -> Seq(Message)] /\ mode \in [Clients -> Modes] /\ rcv \in [Clients -> Receiver]
  BY DEF Base, TypeOK
<1> SUFFICES ASSUME NEW c \in Clients, mode'[c] = "live", NEW p \in Held(c, c)' \cap Files,
                    Quiet(out'[c], p), copy'[c][p] # Absent
             PROVE  Arriving(p, copy'[c][p], folder', rcv'[c], up'[c])
  BY DEF UpValue, ValueOf
<1>1. p \in Held(c, c) \cap Files /\ p \in Paths
  BY HeldNext, ConstantFacts
<1>2. CASE Register(c)
  <2>1. /\ folder' = folder /\ copy' = copy /\ up' = up /\ rcv' = rcv /\ mode[c] = "offer" /\ rcv[c].pc = "idle"
        /\ up[c] = <<>>
    BY <1>2 DEF Register, Base, Unlisted, Before
  <2>2. copy[c][p] = folder[p]
    BY <1>1, <2>1 DEF Walked, Held
  <2>3. QED
    BY <2>1, <2>2 DEF Arriving, Gives
<1>3. SUFFICES ASSUME mode[c] = "live" PROVE Arriving(p, copy'[c][p], folder', rcv'[c], up'[c])
  BY <1>0, <1>2, ModeSteps
<1>4. ASSUME Quiet(out[c], p), copy[c][p] # Absent PROVE Arriving(p, copy[c][p], folder, rcv[c], up[c])
  BY <1>1, <1>3, <1>4 DEF UpValue, ValueOf
<1>5. CASE Edits
  <2>1. PICK k \in Clients, op \in plan.ops, f \in Paths, q \in Paths : Edit(k, [op |-> op, src |-> f, dst |-> q])
    BY <1>5 DEF Edits
  <2>2. PICK e \in Own(k) : EditedAs(k, e)
    BY <2>1, EditSound
  <2>3. folder' = folder /\ up' = up /\ rcv' = rcv
    BY <2>1 DEF Edit
  <2>4. Quiet(out[c], p) /\ copy'[c][p] = copy[c][p]
    <3>1. CASE k = c
      <4> DEFINE m == [ev |-> e, val |-> edits']
      <4>1. Good(m) /\ m.ev = e /\ copy'[c] = Applied(copy[c], m) /\ out'[c] = out[c] \o Reports(e) /\ Well(e)
        BY <1>0, <2>2, <3>1, Members DEF EditedAs
      <4> HIDE DEF m
      <4>2. Quiet(out[c], p) /\ ~Touches(e, p)
        BY <1>0, <4>1, QuietReports
      <4>3. QED
        BY <1>1, <4>1, <4>2, AppliedSound DEF Trees
    <3>2. CASE k # c
      BY <1>0, <2>2, <3>2 DEF EditedAs
    <3>3. QED
      BY <3>1, <3>2
  <2>5. QED
    BY <1>4, <2>3, <2>4
<1>6. ASSUME NEW k \in Clients, ClientSend(k) PROVE Arriving(p, copy'[c][p], folder', rcv'[c], up'[c])
  <2>1. folder' = folder /\ copy' = copy /\ rcv' = rcv
    BY <1>6 DEF ClientSend
  <2>2. CASE k = c
    BY <1>1, <1>6, <2>1, <2>2, ValueSent
  <2>3. CASE k # c
    <3>1. out'[c] = out[c] /\ up'[c] = up[c]
      BY <1>0, <1>6, <2>3 DEF ClientSend
    <3>2. QED
      BY <1>4, <2>1, <3>1
  <2>4. QED
    BY <2>2, <2>3
<1>7. ASSUME NEW k \in Clients, ClientReceive(k) PROVE Arriving(p, copy'[c][p], folder', rcv'[c], up'[c])
  <2>1. folder' = folder /\ up' = up /\ out' = out /\ rcv' = rcv
    BY <1>7 DEF ClientReceive
  <2>2. CASE copy'[c] = copy[c]
    BY <1>4, <2>1, <2>2
  <2>3. CASE copy'[c] # copy[c]
    <3> DEFINE m == Head(down[c])
    <3>1. k = c /\ down[c] # <<>> /\ copy'[c] = Applied(copy[c], m)
      BY <1>0, <1>7, <2>3 DEF ClientReceive, Applied
    <3>2. m \in OthersMessage(c) /\ Good(m)
      BY <1>0, <3>1, Heads, NoMoves
    <3>3. PICK j \in Clients \ {c} : m.ev \in By(j)
      BY <3>2 DEF OthersMessage, ByOthers
    <3> HIDE DEF m
    <3>4. ~Touches(m.ev, p)
      BY <1>0, <1>1, <3>3, Foreign
    <3>5. copy'[c][p] = copy[c][p]
      BY <1>1, <3>1, <3>2, <3>4, AppliedSound DEF Trees
    <3>6. QED
      BY <1>4, <2>1, <3>5
  <2>4. QED
    BY <2>2, <2>3
<1>8. ASSUME NEW k \in Clients, StartFile(k) \/ StartCutFile(k) \/ ReceivePath(k)
      PROVE  Arriving(p, copy'[c][p], folder', rcv'[c], up'[c])
  <2>1. out' = out /\ copy' = copy
    BY <1>8 DEF StartFile, StartCutFile, ReceivePath
  <2>2. Arriving(p, copy[c][p], folder, rcv[c], up[c])
    BY <1>4, <2>1
  <2>3. CASE k = c
    <3>1. ~StartCutFile(c)
      BY <1>3 DEF StartCutFile
    <3>2. QED
      BY <1>1, <1>8, <2>1, <2>2, <2>3, <3>1, ValueOpened, ValueApplied
  <2>4. CASE k # c
    <3>1. up'[c] = up[c]
      BY <1>0, <1>8, <2>4 DEF StartFile, StartCutFile, ReceivePath
    <3>2. folder'[p] = folder[p]
      BY <1>1, <1>8, <2>4, FolderForeign
    <3>3. Kept(c)
      BY <1>0, <1>8, <2>4, OthersKept DEF OwnStep
    <3>4. QED
      BY <2>1, <2>2, <3>1, <3>2, <3>3, ArrivingKept DEF Kept
  <2>5. QED
    BY <2>3, <2>4
<1>9. ASSUME NEW k \in Clients, FinishFile(k) PROVE Arriving(p, copy'[c][p], folder', rcv'[c], up'[c])
  <2>1. out' = out /\ copy' = copy /\ up' = up
    BY <1>9 DEF FinishFile
  <2>2. Arriving(p, copy[c][p], folder, rcv[c], up[c])
    BY <1>4, <2>1
  <2>3. CASE k = c
    BY <1>1, <1>9, <2>1, <2>2, <2>3, ValueFinished
  <2>4. CASE k # c
    <3>1. folder'[p] = folder[p]
      BY <1>1, <1>9, <2>4, ValueForeign
    <3>2. Kept(c)
      BY <1>0, <1>9, <2>4, OthersKept DEF OwnStep
    <3>3. QED
      BY <2>1, <2>2, <3>1, <3>2, ArrivingKept DEF Kept
  <2>5. QED
    BY <2>3, <2>4
<1>10. ASSUME NEW k \in Clients, NEW q \in Paths, Return(k, q) PROVE Arriving(p, copy'[c][p], folder', rcv'[c], up'[c])
  <2>1. out' = out /\ copy' = copy /\ up' = up /\ k # c
    BY <1>3, <1>10 DEF Return
  <2>2. folder'[p] = folder[p]
    BY <1>10, FolderReturned
  <2>3. Kept(c)
    BY <1>0, <1>10, <2>1, OthersKept DEF OwnStep
  <2>4. QED
    BY <1>4, <2>1, <2>2, <2>3, ArrivingKept DEF Kept
<1>11. ASSUME NEW k \in Clients, \/ StartBroadcast(k) \/ (\E j \in Clients : Enqueue(k, j)) \/ EndBroadcast(k)
                                 \/ \E q \in Paths : Offer(k, q)
       PROVE  Arriving(p, copy'[c][p], folder', rcv'[c], up'[c])
  <2>1. out' = out /\ up' = up /\ folder' = folder
    BY <1>11 DEF StartBroadcast, Enqueue, EndBroadcast, Offer
  <2>2. copy'[c] = copy[c]
    BY <1>0, <1>3, <1>11 DEF StartBroadcast, Enqueue, EndBroadcast, Offer
  <2>3. Arriving(p, copy[c][p], folder, rcv[c], up[c])
    BY <1>4, <2>1, <2>2
  <2>4. rcv'[c] = rcv[c] \/ (rcv[c].pc # "writing" /\ rcv'[c].pc # "writing")
    <3>1. CASE k # c
      BY <1>0, <1>11, <3>1 DEF StartBroadcast, Enqueue, EndBroadcast, Offer
    <3>2. CASE k = c
      <4>1. StartBroadcast(c) => rcv[c].pc = "saved" /\ rcv'[c].pc = "bcast"
        BY <1>0, OwnSteps
      <4>2. (\E j \in Clients : Enqueue(c, j)) => rcv[c].pc = "bcast" /\ rcv'[c].pc = "bcast"
        BY <1>0, OwnSteps
      <4>3. EndBroadcast(c) => rcv[c].pc = "bcast" /\ rcv'[c].pc = "idle"
        BY <1>0 DEF EndBroadcast, Idle
      <4>4. ~(\E q \in Paths : Offer(c, q))
        BY <1>3 DEF Offer
      <4>5. QED
        BY <1>11, <3>2, <4>1, <4>2, <4>3, <4>4
    <3>3. QED
      BY <3>1, <3>2
  <2>5. QED
    BY <2>1, <2>2, <2>3, <2>4 DEF Arriving
<1>12. ASSUME copy' = copy, out' = out, up' = up, folder' = folder, rcv' = rcv
       PROVE  Arriving(p, copy'[c][p], folder', rcv'[c], up'[c])
  BY <1>4, <1>12
<1>13. QED
  BY <1>5, <1>6, <1>7, <1>8, <1>9, <1>10, <1>11, <1>12, WhoChanges DEF Changes

-----------------------------------------------------------------------------
(* The invariant *)

Upwards == Trees /\ Writing /\ Walked /\ Pairs /\ UpShape /\ UpValue
UpInv == Base /\ (ContentsKept => Upwards)

LEMMA UpInit ==
  ASSUME Init
  PROVE  UpInv
<1>1. Base
  BY BaseInit
<1>2. /\ folder = EmptyTree /\ \A c \in Clients : copy[c] = EmptyTree /\ rcv[c] = Idle /\ out[c] = <<>> /\ up[c] = <<>>
      /\ \A c \in Clients : mode[c] \in {"live", "off"}
  BY DEF Init
<1>3. \A p \in Paths : EmptyTree[p] = Absent
  BY DEF EmptyTree
<1>4. Sound(EmptyTree)
  BY <1>3, ConstantFacts DEF Sound, Tree, Content, Nested, Kind, EmptyTree
<1>5. Trees
  BY <1>2, <1>4 DEF Trees
<1>6. Writing /\ Walked
  BY <1>2 DEF Writing, Walked, Idle
<1>7. Pairs
  BY <1>2 DEF Pairs, Paired
<1>8. UpShape
  <2> SUFFICES ASSUME NEW c \in Clients PROVE Shape(Held(c, c), folder, up[c], out[c], copy[c])
    BY DEF UpShape
  <2>1. Evs(up[c]) = <<>>
    BY <1>1, <1>2, EvsFacts DEF Base, TypeOK
  <2> DEFINE P == Held(c, c)
  <2> HIDE DEF P
  <2>2. Through(P, Through(P, P \cap Sp(folder), <<>>), <<>>) = P \cap Sp(folder)
    BY ThroughNone
  <2>3. QED
    BY <1>2, <2>1, <2>2 DEF Shape, P
<1>9. UpValue
  <2>1. \A c \in Clients, p \in Files : copy[c][p] = Absent
    BY <1>2, <1>3, ConstantFacts
  <2>2. QED
    BY <2>1 DEF UpValue, ValueOf
<1>10. QED
  BY <1>1, <1>5, <1>6, <1>7, <1>8, <1>9 DEF UpInv, Upwards

LEMMA UpStep ==
  ASSUME Tidy, UpInv, [Next]_vars
  PROVE  UpInv'
<1>1. Base'
  BY BaseStep DEF UpInv
<1>2. CASE UNCHANGED vars
  <2>1. ContentsKept' <=> ContentsKept
    BY <1>2 DEF ContentsKept, vars
  <2>2. Upwards => Trees' /\ Writing' /\ Walked' /\ Pairs'
    BY <1>2 DEF Upwards, Trees, Writing, Walked, Pairs, vars, Mine, Spoiled, Forgotten
  <2>3. Upwards => UpShape' /\ UpValue'
    BY <1>2 DEF Upwards, UpShape, UpValue, ValueOf, vars, Held, Mine, Forgotten
  <2>4. QED
    BY <1>1, <2>1, <2>2, <2>3 DEF UpInv, Upwards
<1>3. CASE Next
  <2>1. ContentsKept' => ContentsKept
    BY <1>3, WhoChanges DEF ContentsKept, Changes
  <2>2. ContentsKept => Upwards /\ Base
    BY DEF UpInv
  <2>3. ContentsKept => Trees' /\ Writing' /\ Walked' /\ Pairs' /\ UpShape' /\ UpValue'
    BY <1>3, <2>2, TreesStep, WritingStep, WalkedStep, PairsStep, UpShapeStep, UpValueStep DEF Upwards
  <2>4. QED
    BY <1>1, <2>1, <2>3 DEF UpInv, Upwards
<1>4. QED
  BY <1>2, <1>3

-----------------------------------------------------------------------------
(* What it says of the folder once everything has arrived *)

LEMMA ReadingFacts ==
  ASSUME NEW t \in Tree, NEW es \in Seq({e \in Event : Plain(e)})
  PROVE  /\ Reading(t, es) \in Seq(Message) /\ Evs(Reading(t, es)) = es
         /\ Len(Reading(t, es)) = Len(es) /\ Len(es) \in Nat /\ es \in Seq(Event)
         /\ \A i \in 1 .. Len(es) : /\ Good(Reading(t, es)[i]) /\ Reading(t, es)[i].ev = es[i]
                                    /\ t[es[i].dst] # Absent => Reading(t, es)[i].val = t[es[i].dst]
<1> DEFINE ms == Reading(t, es)
           M(i) == [ev |-> es[i], val |-> IF t[es[i].dst] = Absent THEN Torn ELSE t[es[i].dst]]
<1>1. ms = [i \in 1 .. Len(es) |-> M(i)]
  BY DEF Reading
<1>2. Len(es) \in Nat /\ \A i \in 1 .. Len(es) : es[i] \in Event /\ Plain(es[i])
  OBVIOUS
<1>3. ASSUME NEW i \in 1 .. Len(es)
      PROVE  M(i) \in Message /\ Good(M(i)) /\ M(i).ev = es[i] /\ (t[es[i].dst] # Absent => M(i).val = t[es[i].dst])
  <2>1. es[i].dst \in Paths
    BY <1>2 DEF Event
  <2>2. M(i).val \in Content /\ M(i).val # Absent
    BY <2>1, ConstantFacts DEF Tree, Content
  <2>3. QED
    BY <1>2, <2>2 DEF Message, Good
<1> HIDE DEF M, ms
<1>4. ms \in Seq(Message) /\ Len(ms) = Len(es) /\ \A i \in 1 .. Len(es) : ms[i] = M(i)
  BY <1>1, <1>2, <1>3
<1>5. Evs(ms) = [i \in 1 .. Len(es) |-> es[i]]
  BY <1>3, <1>4 DEF Evs
<1>6. es = [i \in 1 .. Len(es) |-> es[i]] /\ es \in Seq(Event)
  <2>1. es \in Seq(Event)
    BY SeqGrows
  <2>2. QED
    BY <2>1, SequenceIsFunction
<1>7. QED
  BY <1>2, <1>3, <1>4, <1>5, <1>6 DEF ms

LEMMA FullUp ==
  ASSUME Base, ContentsKept, NEW c \in Clients, mode[c] = "live"
  PROVE  /\ up[c] \in Seq(Message) /\ Len(up[c]) \in Nat /\ \A i \in 1 .. Len(up[c]) : Good(up[c][i])
         /\ out[c] \in Seq({e \in Event : Plain(e)})
<1>1. up[c] \in Seq(Message) /\ up[c] \in Seq({m \in OwnMessage(c) : Full(m)}) /\ out[c] \in Seq(Own(c))
  BY DEF Base, TypeOK, EventsOK
<1>2. \A i \in 1 .. Len(up[c]) : up[c][i] \in OwnMessage(c) /\ Full(up[c][i])
  BY <1>1
<1>3. \A i \in 1 .. Len(up[c]) : Good(up[c][i])
  BY <1>2, NoMoves DEF Good, Full
<1>4. Own(c) \subseteq {e \in Event : Plain(e)}
  BY NoMoves, Members
<1>5. QED
  BY <1>1, <1>3, <1>4, SeqGrows

\* What is being written is there already.
LEMMA Pending ==
  ASSUME UpInv, Tidy, ContentsKept, NEW c \in Clients, NEW ms,
         ms = IF rcv[c].pc = "writing" THEN <<[ev |-> rcv[c].ev, val |-> rcv[c].val]>> ELSE <<>>
  PROVE  /\ ms \in Seq(Message) /\ Sound(Play(folder, ms))
         /\ Held(c, c) \cap Sp(Play(folder, ms)) = Held(c, c) \cap Sp(folder)
         /\ \A v : \A p \in Held(c, c) \cap Files :
               (IF rcv[c].pc = "writing" /\ rcv[c].ev.dst = p THEN rcv[c].val = v ELSE folder[p] \in {Absent, v})
               => Play(folder, ms)[p] \in {Absent, v}
<1>0. /\ TypeOK /\ EventsOK /\ Writing /\ Sound(folder) /\ rcv[c] \in Receiver
  BY DEF UpInv, Upwards, Base, TypeOK, Trees
<1> DEFINE P == Held(c, c)
<1>1. WithParents(P) /\ P \subseteq Paths
  BY <1>0, HeldFacts
<1>2. CASE rcv[c].pc # "writing"
  <2>1. ms = <<>> /\ Len(ms) = 0 /\ ms \in Seq(Message)
    BY <1>2
  <2>2. Play(folder, ms) = folder
    BY <2>1, PlaySteps
  <2>3. QED
    BY <1>0, <1>2, <2>1, <2>2
<1>3. CASE rcv[c].pc = "writing"
  <2> DEFINE m == [ev |-> rcv[c].ev, val |-> rcv[c].val]
  <2>1. rcv[c].ev \in Event /\ rcv[c].val \in Content /\ rcv[c].ev \in By(c) /\ rcv[c].ev.op = "NEW_FILE" /\ rcv[c].val # Absent
    BY <1>0, <1>3, ReceiverFacts DEF EventsOK, Handling
  <2>2. m \in Message /\ Good(m)
    BY <2>1, NoMoves DEF Good, Message
  <2>3. m.ev = rcv[c].ev /\ m.val = rcv[c].val /\ ms = <<m>>
    BY <1>3
  <2> HIDE DEF m, P
  <2>4. ms \in Seq(Message) /\ Len(ms) = 1 /\ ms[1] = m
    BY <2>2, <2>3
  <2>5. Play(folder, ms) = Applied(folder, m)
    BY <2>4, PlaySteps
  <2>6. Sound(Applied(folder, m)) /\ P \cap Sp(Applied(folder, m)) = Shaped(P, P \cap Sp(folder), m.ev)
    BY <1>0, <1>1, <2>2, AppliedSound
  <2>7. m.ev.dst \in P => m.ev.dst \in P \cap Sp(folder)
    <3>1. ASSUME m.ev.dst \in P PROVE rcv[c].ino = m.ev.dst
      BY <1>0, <1>3, <2>3, <3>1 DEF Writing, P, Held, Mine, Forgotten, Spoiled
    <3>2. QED
      BY <1>0, <1>1, <1>3, <2>3, <3>1, ReplicationAssumption DEF Writing, Sp
  <2>8. Shaped(P, P \cap Sp(folder), m.ev) = P \cap Sp(folder)
    BY <2>1, <2>3, <2>7 DEF Shaped
  <2>9. ASSUME NEW p \in P \cap Files, NEW v,
               IF rcv[c].ev.dst = p THEN rcv[c].val = v ELSE folder[p] \in {Absent, v}
        PROVE  Applied(folder, m)[p] \in {Absent, v}
    <3>1. CASE rcv[c].ev.dst = p
      BY <1>0, <2>1, <2>2, <2>3, <2>9, <3>1, AppliedSound
    <3>2. CASE rcv[c].ev.dst # p
      <4>1. ~Touches(m.ev, p) /\ p \in Paths
        BY <1>1, <2>1, <2>3, <3>2 DEF Touches
      <4>2. QED
        BY <1>0, <2>2, <2>9, <3>2, <4>1, AppliedSound
    <3>3. QED
      BY <3>1, <3>2
  <2>10. QED
    BY <1>3, <2>4, <2>5, <2>6, <2>8, <2>9 DEF P
<1>4. QED
  BY <1>2, <1>3

LEMMA UpSafe ==
  ASSUME UpInv, Tidy
  PROVE  NothingLostUpwards
<1> SUFFICES ASSUME ContentsKept, NEW c \in Clients, mode[c] = "live", NEW p \in OwnedBy(c) \ Forgotten(c)
             PROVE  Uploaded(c)[p] = copy[c][p]
  BY DEF NothingLostUpwards
<1> DEFINE P == Held(c, c)
           pre == IF rcv[c].pc = "writing" THEN <<[ev |-> rcv[c].ev, val |-> rcv[c].val]>> ELSE <<>>
           rd == Reading(copy[c], out[c])
           t1 == Play(folder, pre)
           t2 == Play(t1, up[c])
           t3 == Play(t2, rd)
<1>0. /\ Base /\ Upwards /\ TypeOK /\ Sound(copy[c]) /\ copy[c] \in Tree
  BY DEF UpInv, Upwards, Trees, Sound, Base
<1>1. p \in P /\ P \subseteq Paths /\ WithParents(P)
  BY <1>0, HeldFacts DEF OwnedBy, Held, Mine
<1>2. Uploaded(c) = Play(folder, (pre \o up[c]) \o rd)
  BY DEF Uploaded
<1>a. pre = IF rcv[c].pc = "writing" THEN <<[ev |-> rcv[c].ev, val |-> rcv[c].val]>> ELSE <<>>
  OBVIOUS
<1> HIDE DEF pre
<1>3. /\ pre \in Seq(Message) /\ Sound(t1) /\ P \cap Sp(t1) = P \cap Sp(folder)
      /\ \A v : \A q \in P \cap Files :
            (IF rcv[c].pc = "writing" /\ rcv[c].ev.dst = q THEN rcv[c].val = v ELSE folder[q] \in {Absent, v})
            => t1[q] \in {Absent, v}
  BY <1>a, Pending
<1> HIDE DEF P
<1>4. /\ up[c] \in Seq(Message) /\ \A i \in 1 .. Len(up[c]) : Good(up[c][i])
      /\ out[c] \in Seq({e \in Event : Plain(e)})
  BY <1>0, FullUp
<1>5. /\ rd \in Seq(Message) /\ Evs(rd) = out[c] /\ Len(rd) = Len(out[c])
      /\ \A i \in 1 .. Len(rd) : Good(rd[i])
      /\ \A i \in 1 .. Len(rd) : rd[i].ev = out[c][i]
      /\ \A i \in 1 .. Len(rd) : copy[c][out[c][i].dst] # Absent => rd[i].val = copy[c][out[c][i].dst]
      /\ \A i \in 1 .. Len(rd) : Plain(out[c][i])
  <2>1. copy[c] \in Tree /\ out[c] \in Seq({e \in Event : Plain(e)})
    BY <1>0, <1>4
  <2>2. /\ rd \in Seq(Message) /\ Evs(rd) = out[c] /\ Len(rd) = Len(out[c])
        /\ \A i \in 1 .. Len(out[c]) : /\ Good(rd[i]) /\ rd[i].ev = out[c][i]
                                       /\ copy[c][out[c][i].dst] # Absent => rd[i].val = copy[c][out[c][i].dst]
    BY <2>1, ReadingFacts
  <2>3. \A i \in 1 .. Len(out[c]) : Plain(out[c][i])
    BY <2>1
  <2> HIDE DEF rd
  <2>4. QED
    BY <2>2, <2>3
<1> HIDE DEF rd
<1>6. Uploaded(c) = t3
  <2>1. pre \o up[c] \in Seq(Message)
    BY <1>3, <1>4
  <2>2. Play(folder, (pre \o up[c]) \o rd) = Play(Play(folder, pre \o up[c]), rd)
    BY <1>5, <2>1, PlayBoth
  <2>3. Play(folder, pre \o up[c]) = t2
    BY <1>3, <1>4, PlayBoth
  <2>4. QED
    BY <1>2, <2>2, <2>3
<1> HIDE DEF t1
<1>7. Sound(t2) /\ P \cap Sp(t2) = Through(P, P \cap Sp(t1), Evs(up[c]))
  BY <1>1, <1>3, <1>4, PlayShape
<1> HIDE DEF t2
<1>8. Sound(t3) /\ P \cap Sp(t3) = Through(P, P \cap Sp(t2), Evs(rd))
  BY <1>1, <1>5, <1>7, PlayShape
<1> HIDE DEF t3
<1>9. P \cap Sp(t3) = P \cap Sp(copy[c])
  <2>1. Shape(P, folder, up[c], out[c], copy[c])
    BY <1>0 DEF Upwards, UpShape, P
  <2>2. QED
    BY <1>3, <1>5, <1>7, <1>8, <2>1 DEF Shape
<1>10. t3[p] = Absent <=> copy[c][p] = Absent
  BY <1>1, <1>9 DEF Sp
<1>11. CASE p \in Dirs
  BY <1>0, <1>6, <1>8, <1>10, <1>11 DEF Sound, Kind
<1>12. CASE p \in Files /\ copy[c][p] # Absent
  <2> DEFINE v == copy[c][p]
  <2>1. ValueOf(c, p)
    BY <1>0, <1>1, <1>12 DEF Upwards, UpValue, P
  <2>2. Gives(rd, p, v)
    <3> SUFFICES ASSUME NEW i \in 1 .. Len(rd), Touches(rd[i].ev, p), \A j \in i + 1 .. Len(rd) : ~Touches(rd[j].ev, p)
                 PROVE  rd[i].ev.op = "DELETE" \/ (rd[i].ev.op = "NEW_FILE" /\ rd[i].val = v)
      BY DEF Gives
    <3> DEFINE e == out[c][i]
    <3>1. rd[i].ev = e /\ Plain(e) /\ (copy[c][e.dst] # Absent => rd[i].val = copy[c][e.dst])
      BY <1>5
    <3>2. e.op # "COPY"
      <4>1. SUFFICES ASSUME e.op = "COPY" PROVE FALSE
        OBVIOUS
      <4>2. i < Len(out[c]) /\ out[c][i + 1].dst = e.dst
        BY <1>0, <1>5, <4>1 DEF Upwards, Pairs, Paired
      <4>3. i + 1 \in 1 .. Len(rd) /\ i + 1 \in i + 1 .. Len(rd)
        BY <1>5, <4>2
      <4>4. Touches(rd[i + 1].ev, p)
        BY <1>5, <3>1, <4>1, <4>2, <4>3 DEF Touches
      <4>5. QED
        BY <4>3, <4>4
    <3>3. e.op \in {"NEW_FILE", "DELETE"} /\ (e.op = "NEW_FILE" => e.dst = p)
      <4>1. Touches(e, p)
        BY <3>1
      <4> HIDE DEF e
      <4>2. QED
        BY <1>12, <3>1, <3>2, <4>1, ConstantFacts DEF Plain, Well, Touches, Event, Events
    <3>4. QED
      BY <1>12, <3>1, <3>3
  <2>3. Spares(rd, p) => Quiet(out[c], p)
    BY <1>5 DEF Spares, Quiet
  <2>4. ASSUME Spares(rd, p) PROVE t2[p] \in {Absent, v}
    <3>1. Arriving(p, v, folder, rcv[c], up[c])
      BY <1>12, <2>1, <2>3, <2>4 DEF ValueOf
    <3>2. Spares(up[c], p) => t1[p] \in {Absent, v}
      BY <1>1, <1>3, <1>12, <3>1 DEF Arriving
    <3> HIDE DEF v
    <3>3. QED
      BY <1>3, <1>4, <1>12, <3>1, <3>2, PlayGives DEF Arriving, t2
  <2> HIDE DEF v
  <2>5. t3[p] \in {Absent, v}
    BY <1>5, <1>7, <1>12, <2>2, <2>4, PlayGives DEF t3
  <2>6. QED
    BY <1>6, <1>10, <1>12, <2>5 DEF v
<1>13. QED
  BY <1>1, <1>6, <1>10, <1>11, <1>12, ConstantFacts

\* Whatever a client has reported and the server has not dealt with yet is enough: played
\* on the server's folder it gives what the user sees on the paths only she edits, although
\* the content of a file is read only when its event leaves the queue
\* (DropboxClient.cpp:111-204) and no lock guards the files that are written (Dropbox.cpp:485-517).
THEOREM UploadsArrive ==
  ASSUME Tidy
  PROVE  Spec => []NothingLostUpwards
<1>1. Init => UpInv
  BY UpInit
<1>2. UpInv /\ [Next]_vars => UpInv'
  BY UpStep
<1>3. UpInv => NothingLostUpwards
  BY UpSafe
<1>4. QED
  BY <1>1, <1>2, <1>3, PTL DEF Spec

-----------------------------------------------------------------------------
(* Events that can be applied *)

\* What e needs of the paths S there are.
Fit(S, e) == /\ e.op = "DELETE" => e.dst \in S
             /\ e.op \in {"NEW_FILE", "NEW_DIRECTORY"} => In[e.dst] = Root \/ In[e.dst] \in S

\* Each of the events finds what it needs, when it is about one of the paths P.
Fitting(P, S, es) == \A i \in 1 .. Len(es) : es[i].dst \in P => Fit(Run(P, S, es)[i - 1], es[i])

\* What is on its way to the server does so there.
FitsOf(P, f, u, o) == Fitting(P, P \cap Sp(f), Evs(u)) /\ Fitting(P, Through(P, P \cap Sp(f), Evs(u)), o)
UpFits == \A c \in Clients : missed[c] = {} => FitsOf(Mine(c), folder, up[c], out[c])

LEMMA FittingNone ==
  ASSUME NEW P, NEW S
  PROVE  Fitting(P, S, <<>>)
BY DEF Fitting

LEMMA FittingAppend ==
  ASSUME NEW P, NEW S, NEW E, NEW es \in Seq(E), NEW e \in E,
         Fitting(P, S, es), e.dst \in P => Fit(Through(P, S, es), e)
  PROVE  Fitting(P, S, Append(es, e))
<1> DEFINE all == Append(es, e)
           n == Len(es)
           r == Run(P, S, all)
<1>1. n \in Nat /\ Len(all) = n + 1 /\ all[n + 1] = e /\ \A i \in 1 .. n : all[i] = es[i]
  OBVIOUS
<1> HIDE DEF all, n
<1>2. r[0] = S /\ \A i \in 1 .. n + 1 : r[i] = Shaped(P, r[i - 1], all[i])
  BY <1>1, RunSteps
<1> HIDE DEF r
<1>3. \A i \in 1 .. n : r[i] = Shaped(P, r[i - 1], es[i])
  BY <1>1, <1>2
<1>4. ASSUME NEW k \in 0 .. n PROVE r[k] = Run(P, S, es)[k]
  <2>1. \A i \in 1 .. k : r[i] = Shaped(P, r[i - 1], es[i])
    BY <1>1, <1>3
  <2>2. k \in 0 .. Len(es) /\ Len(es) \in Nat
    BY <1>1 DEF n
  <2>3. QED
    BY <1>2, <2>1, <2>2, RunUnique
<1>5. ASSUME NEW i \in 1 .. n + 1, all[i].dst \in P PROVE Fit(r[i - 1], all[i])
  <2>1. CASE i = n + 1
    <3>1. all[i] = e /\ i - 1 = n /\ n \in 0 .. n
      BY <1>1, <2>1
    <3>2. r[n] = Through(P, S, es)
      BY <1>4, <3>1 DEF Through, n
    <3>3. QED
      BY <1>5, <3>1, <3>2
  <2>2. CASE i # n + 1
    <3>1. i \in 1 .. n /\ i - 1 \in 0 .. n
      BY <1>1, <2>2
    <3>2. all[i] = es[i] /\ r[i - 1] = Run(P, S, es)[i - 1]
      BY <1>1, <1>4, <3>1
    <3>3. QED
      BY <1>5, <3>1, <3>2 DEF Fitting, n
  <2>3. QED
    BY <2>1, <2>2
<1>6. QED
  BY <1>1, <1>5 DEF Fitting, all, r

LEMMA FittingTail ==
  ASSUME NEW P, NEW S, NEW E, NEW es \in Seq(E), es # <<>>, Fitting(P, S, es)
  PROVE  /\ Head(es).dst \in P => Fit(S, Head(es))
         /\ Fitting(P, Shaped(P, S, Head(es)), Tail(es))
<1> DEFINE rest == Tail(es)
           n == Len(rest)
           r == Run(P, S, es)
           g == [i \in 0 .. n |-> r[i + 1]]
<1>1. n \in Nat /\ Len(es) = n + 1 /\ es[1] = Head(es) /\ \A i \in 1 .. n : rest[i] = es[i + 1]
  OBVIOUS
<1> HIDE DEF rest, n
<1>2. r[0] = S /\ \A i \in 1 .. n + 1 : r[i] = Shaped(P, r[i - 1], es[i])
  BY <1>1, RunSteps
<1>3. \A i \in 1 .. n + 1 : es[i].dst \in P => Fit(r[i - 1], es[i])
  BY <1>1 DEF Fitting
<1> HIDE DEF r
<1>4. g[0] = Shaped(P, S, Head(es))
  BY <1>1, <1>2
<1>5. ASSUME NEW i \in 1 .. n PROVE g[i] = Shaped(P, g[i - 1], rest[i])
  <2>1. i + 1 \in 1 .. n + 1 /\ i \in 0 .. n /\ i - 1 \in 0 .. n /\ (i + 1) - 1 = i /\ (i - 1) + 1 = i
    BY <1>1
  <2>2. QED
    BY <1>1, <1>2, <2>1
<1>6. \A i \in 0 .. n : g[i] = r[i + 1]
  OBVIOUS
<1> HIDE DEF g
<1> DEFINE start == Shaped(P, S, Head(es))
<1> HIDE DEF start
<1>7. ASSUME NEW k \in 0 .. n PROVE g[k] = Run(P, start, rest)[k]
  <2>1. g[0] = start /\ k \in 0 .. Len(rest) /\ Len(rest) \in Nat /\ \A i \in 1 .. k : g[i] = Shaped(P, g[i - 1], rest[i])
    BY <1>1, <1>4, <1>5 DEF n, start
  <2>2. QED
    BY <2>1, RunUnique
<1>8. ASSUME NEW i \in 1 .. n, rest[i].dst \in P PROVE Fit(Run(P, start, rest)[i - 1], rest[i])
  <2>1. i + 1 \in 1 .. n + 1 /\ i - 1 \in 0 .. n /\ (i + 1) - 1 = i /\ (i - 1) + 1 = i
    BY <1>1
  <2>2. rest[i] = es[i + 1] /\ Run(P, start, rest)[i - 1] = r[i]
    BY <1>1, <1>6, <1>7, <2>1
  <2>3. Fit(r[(i + 1) - 1], es[i + 1])
    BY <1>3, <1>8, <2>1, <2>2
  <2>4. QED
    BY <2>1, <2>2, <2>3
<1>9. Head(es).dst \in P => Fit(S, Head(es))
  <2>1. 1 \in 1 .. n + 1 /\ 1 - 1 = 0
    BY <1>1
  <2>2. QED
    BY <1>1, <1>2, <1>3, <2>1
<1>10. QED
  BY <1>8, <1>9 DEF Fitting, start, rest, n

\* An event that finds what it needs in a folder does not fail there.
LEMMA FitFails ==
  ASSUME NEW t, NEW e, Plain(e), NEW P, WithParents(P), e.dst \in P
  PROVE  Fails(t, e) <=> ~Fit(P \cap Sp(t), e)
<1>1. e.dst \in Paths /\ e.op # "MOVE" /\ e.dst # Root
  BY ConstantFacts DEF Plain, WithParents
<1>2. In[e.dst] # Root => In[e.dst] \in P /\ In[e.dst] \in Paths
  BY <1>1 DEF WithParents
<1>3. QED
  BY <1>1, <1>2 DEF Fails, NoParent, Fit, Sp

LEMMA NothingMissed ==
  ASSUME Base, Next, NEW c \in Clients, missed'[c] = {}
  PROVE  /\ missed[c] = {} /\ plan' = plan
         /\ \A k \in Clients : Held(k, c) = Mine(k) /\ Held(k, c)' = Mine(k) /\ Mine(k)' = Mine(k)
<1>1. missed[c] = {} /\ plan' = plan
  BY MissedGrows, WhoChanges DEF Changes, Base
<1>2. \A k \in Clients : Mine(k)' = Mine(k)
  BY HeldShrinks DEF Base
<1>3. QED
  BY <1>1, <1>2 DEF Held, Forgotten

\* What she sends and is behind her edits can be applied in turn.
LEMMA FitsArrives ==
  ASSUME NEW P, WithParents(P), NEW f, Sound(f), NEW u \in Seq(Message), u # <<>>, NEW o, FitsOf(P, f, u, o),
         NEW m, Good(m), m.ev = Head(u).ev
  PROVE  FitsOf(P, Applied(f, m), Tail(u), o)
<1>1. P \cap Sp(Applied(f, m)) = Shaped(P, P \cap Sp(f), m.ev)
  BY AppliedShape
<1> DEFINE S == P \cap Sp(f)
<1>2. Evs(u) \in Seq(Event) /\ Evs(u) # <<>> /\ Head(Evs(u)) = m.ev /\ Evs(Tail(u)) = Tail(Evs(u))
  BY EvsFacts
<1>3. Fitting(P, S, Evs(u)) /\ Fitting(P, Through(P, S, Evs(u)), o)
  BY DEF FitsOf
<1> HIDE DEF S
<1>4. Through(P, S, Evs(u)) = Through(P, Shaped(P, S, m.ev), Tail(Evs(u)))
  BY <1>2, ThroughHead
<1>5. Fitting(P, Shaped(P, S, m.ev), Tail(Evs(u)))
  BY <1>2, <1>3, FittingTail
<1>6. QED
  BY <1>1, <1>2, <1>3, <1>4, <1>5 DEF FitsOf, S

LEMMA FitsSent ==
  ASSUME NEW P, NEW f, NEW u \in Seq(Message), NEW o \in Seq(Event), o # <<>>, FitsOf(P, f, u, o),
         NEW m \in Message, m.ev = Head(o)
  PROVE  FitsOf(P, f, Append(u, m), Tail(o))
<1> DEFINE S == P \cap Sp(f)
           R == Through(P, S, Evs(u))
<1>1. Evs(u) \in Seq(Event) /\ Evs(Append(u, m)) = Append(Evs(u), m.ev) /\ m.ev \in Event
  BY EvsFacts DEF Message
<1>2. Fitting(P, S, Evs(u)) /\ Fitting(P, R, o)
  BY DEF FitsOf
<1> HIDE DEF S
<1>3. Through(P, S, Append(Evs(u), m.ev)) = Shaped(P, R, m.ev)
  BY <1>1, ThroughAppend
<1>4. (m.ev.dst \in P => Fit(R, m.ev)) /\ Fitting(P, Shaped(P, R, m.ev), Tail(o))
  <2> HIDE DEF R
  <2>1. QED
    BY <1>2, FittingTail
<1>5. Fitting(P, S, Append(Evs(u), m.ev))
  BY <1>1, <1>2, <1>4, FittingAppend DEF R
<1>6. QED
  BY <1>1, <1>3, <1>4, <1>5 DEF FitsOf, S

LEMMA EditFits ==
  ASSUME NEW k, Sound(k), NEW e, Plain(e), Editable(k, e), NEW P, WithParents(P), e.dst \in P
  PROVE  Fit(P \cap Sp(k), e)
<1>1. ~Fails(k, e)
  BY DEF Editable, Fails, Plain
<1>2. QED
  BY <1>1, FitFails

LEMMA FitsEdited ==
  ASSUME NEW P, WithParents(P), NEW f, NEW u \in Seq(Message), NEW o \in Seq(Event), NEW k, Sound(k),
         Shape(P, f, u, o, k), FitsOf(P, f, u, o), NEW e, Plain(e), Editable(k, e)
  PROVE  FitsOf(P, f, u, o \o Reports(e))
<1> DEFINE R == Through(P, P \cap Sp(f), Evs(u))
           n == NewFile(e.dst)
           S == P \cap Sp(k)
<1>1. Well(e) /\ e \in Event /\ n \in Event /\ e.op # "MOVE" /\ e.dst \in Paths
  BY ReportsFacts DEF Plain, Event
<1>2. Through(P, R, o) = S
  BY DEF Shape
<1>3. Fitting(P, P \cap Sp(f), Evs(u)) /\ Fitting(P, R, o)
  BY DEF FitsOf
<1>4. e.dst \in P => Fit(S, e)
  BY EditFits
<1>5. e.dst \in P => In[e.dst] = Root \/ In[e.dst] \in S
  <2> SUFFICES ASSUME e.dst \in P, In[e.dst] # Root PROVE In[e.dst] \in P \cap Sp(k)
    OBVIOUS
  <2>1. ~NoParent(k, e.dst)
    BY DEF Editable
  <2>2. In[e.dst] \in P /\ In[e.dst] \in Paths
    BY DEF WithParents
  <2>3. QED
    BY <2>1, <2>2 DEF NoParent, Sp
<1> HIDE DEF R, S
<1> DEFINE oe == Append(o, e)
<1>6. Fitting(P, R, oe)
  BY <1>1, <1>2, <1>3, <1>4, FittingAppend
<1>7. CASE e.op # "COPY"
  <2>1. o \o Reports(e) = oe
    BY <1>1, <1>7, ReportsFacts, AppendBoth
  <2>2. QED
    BY <1>3, <1>6, <2>1 DEF FitsOf, R
<1>8. CASE e.op = "COPY"
  <2>1. Reports(e) = <<e, n>>
    BY <1>1, <1>8, ReportsFacts
  <2>2. n.op = "NEW_FILE" /\ n.dst = e.dst
    BY DEF NewFile
  <2> HIDE DEF n
  <2>3. o \o Reports(e) = Append(oe, n)
    BY <1>1, <2>1, AppendBoth
  <2>4. oe \in Seq(Event) /\ Through(P, R, oe) = Shaped(P, S, e)
    BY <1>1, <1>2, ThroughAppend
  <2> HIDE DEF oe
  <2>5. S \subseteq Shaped(P, S, e)
    BY <1>8 DEF Shaped
  <2>6. n.dst \in P => Fit(Shaped(P, S, e), n)
    BY <1>5, <2>2, <2>5 DEF Fit
  <2>7. Fitting(P, R, Append(oe, n))
    BY <1>1, <1>6, <2>4, <2>6, FittingAppend
  <2>8. QED
    BY <1>3, <2>3, <2>7 DEF FitsOf, R
<1>9. QED
  BY <1>7, <1>8

LEMMA FitsSame ==
  ASSUME NEW P, NEW u, NEW o, NEW f, NEW g, FitsOf(P, f, u, o), P \cap Sp(f) = P \cap Sp(g)
  PROVE  FitsOf(P, g, u, o)
BY DEF FitsOf

LEMMA UpFitsStep ==
  ASSUME Base, Tidy, Trees, Writing, ContentsKept, UpShape, UpFits, Next
  PROVE  UpFits'
<1>0. /\ TypeOK /\ EventsOK /\ folder \in Tree /\ copy \in [Clients -> Tree] /\ out \in [Clients -> Seq(Event)]
      /\ up \in [Clients -> Seq(Message)] /\ mode \in [Clients -> Modes] /\ Sound(folder)
  BY DEF Base, TypeOK, Trees
<1> SUFFICES ASSUME NEW c \in Clients, missed'[c] = {} PROVE FitsOf(Mine(c)', folder', up'[c], out'[c])
  BY DEF UpFits
<1> DEFINE P == Mine(c)
<1>1. Mine(c)' = P /\ missed[c] = {} /\ Held(c, c) = P /\ Held(c, c)' = P
  BY NothingMissed
<1>2. WithParents(P) /\ P \subseteq Paths
  BY <1>0, <1>1, HeldFacts
<1>3. FitsOf(P, folder, up[c], out[c])
  BY <1>1 DEF UpFits
<1> HIDE DEF P
<1>4. SUFFICES FitsOf(P, folder', up'[c], out'[c])
  BY <1>1
<1>5. CASE Edits
  <2>1. PICK k \in Clients, op \in plan.ops, p \in Paths, q \in Paths : Edit(k, [op |-> op, src |-> p, dst |-> q])
    BY <1>5 DEF Edits
  <2>2. PICK e \in Own(k) : EditedAs(k, e)
    BY <2>1, EditSound
  <2>3. folder' = folder /\ up' = up
    BY <2>1 DEF Edit
  <2>4. CASE k = c
    <3>1. mode[c] = "live" /\ Editable(copy[c], e) /\ out'[c] = out[c] \o Reports(e)
      BY <1>0, <2>1, <2>2, <2>4 DEF EditedAs, Edit
    <3>2. Plain(e)
      BY NoMoves
    <3>3. Shape(P, folder, up[c], out[c], copy[c])
      BY <1>1, <3>1 DEF UpShape
    <3>4. FitsOf(P, folder, up[c], out[c] \o Reports(e))
      BY <1>0, <1>2, <1>3, <3>1, <3>2, <3>3, FitsEdited DEF Trees
    <3>5. QED
      BY <2>3, <3>1, <3>4
  <2>5. CASE k # c
    <3>1. out'[c] = out[c]
      BY <1>0, <2>2, <2>5 DEF EditedAs
    <3>2. QED
      BY <1>3, <2>3, <3>1
  <2>6. QED
    BY <2>4, <2>5
<1>6. ASSUME NEW k \in Clients, ClientSend(k) PROVE FitsOf(P, folder', up'[c], out'[c])
  <2>1. folder' = folder
    BY <1>6 DEF ClientSend
  <2>2. CASE k = c
    <3> DEFINE m == [ev |-> Head(out[c]), val |-> copy[c][Head(out[c]).dst]]
    <3>1. out[c] # <<>> /\ out'[c] = Tail(out[c]) /\ up'[c] = Append(up[c], m)
      BY <1>0, <1>6, <2>2 DEF ClientSend
    <3>2. m \in Message /\ m.ev = Head(out[c])
      <4>1. Head(out[c]) \in Event
        BY <1>0, <3>1
      <4>2. copy[c][Head(out[c]).dst] \in Content
        BY <1>0, <4>1 DEF Tree, Event
      <4>3. QED
        BY <4>1, <4>2 DEF Message
    <3> HIDE DEF m
    <3>3. FitsOf(P, folder, Append(up[c], m), Tail(out[c]))
      BY <1>0, <1>3, <3>1, <3>2, FitsSent
    <3>4. QED
      BY <2>1, <3>1, <3>3
  <2>3. CASE k # c
    BY <1>0, <1>3, <1>6, <2>1, <2>3 DEF ClientSend
  <2>4. QED
    BY <2>2, <2>3
<1>7. ASSUME NEW k \in Clients, StartFile(k) \/ StartCutFile(k) \/ ReceivePath(k)
      PROVE  FitsOf(P, folder', up'[c], out'[c])
  <2>1. out' = out
    BY <1>7 DEF StartFile, StartCutFile, ReceivePath
  <2>2. CASE k = c
    <3>1. up[c] # <<>> /\ up'[c] = Tail(up[c])
      BY <1>0, <1>7, <2>2 DEF StartFile, StartCutFile, ReceivePath
    <3>2. PICK m : m.ev = Head(up[c]).ev /\ Arrives(m)
      BY <1>7, <2>2, FolderSteps
    <3>3. Good(m) /\ folder' = Applied(folder, m)
      BY <3>2 DEF Arrives
    <3>4. FitsOf(P, Applied(folder, m), Tail(up[c]), out[c])
      BY <1>0, <1>2, <1>3, <3>1, <3>2, <3>3, FitsArrives
    <3>5. QED
      BY <2>1, <3>1, <3>3, <3>4
  <2>3. CASE k # c
    <3>1. up'[c] = up[c]
      BY <1>0, <1>7, <2>3 DEF StartFile, StartCutFile, ReceivePath
    <3>2. \A p \in P : folder'[p] = folder[p]
      BY <1>1, <1>7, <2>3, FolderForeign
    <3>3. P \cap Sp(folder) = P \cap Sp(folder')
      BY <3>2 DEF Sp
    <3>4. QED
      BY <1>3, <2>1, <3>1, <3>3, FitsSame
  <2>4. QED
    BY <2>2, <2>3
<1>8. ASSUME NEW k \in Clients, FinishFile(k) PROVE FitsOf(P, folder', up'[c], out'[c])
  <2>1. out' = out /\ up' = up
    BY <1>8 DEF FinishFile
  <2>2. Sp(folder') = Sp(folder)
    BY <1>8, FolderFinished
  <2>3. QED
    BY <1>3, <2>1, <2>2, FitsSame
<1>9. ASSUME NEW k \in Clients, NEW q \in Paths, Return(k, q) PROVE FitsOf(P, folder', up'[c], out'[c])
  <2>1. out' = out /\ up' = up
    BY <1>9 DEF Return
  <2>2. \A p \in P : folder'[p] = folder[p]
    BY <1>1, <1>9, FolderReturned
  <2>3. P \cap Sp(folder) = P \cap Sp(folder')
    BY <2>2 DEF Sp
  <2>4. QED
    BY <1>3, <2>1, <2>3, FitsSame
<1>10. CASE folder' = folder /\ up' = up /\ out' = out
  BY <1>3, <1>10
<1>11. QED
  BY <1>5, <1>6, <1>7, <1>8, <1>9, <1>10, WhoChanges DEF Changes
=============================================================================
