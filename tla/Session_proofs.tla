---------------------------- MODULE Session_proofs ----------------------------
(* Theorems about Session: the variables keep their types, and the two ends  *)
(* agree on where messages begin and end, for any messages, files of any     *)
(* length, any buffers, and whatever the files become while they are sent.   *)
EXTENDS Session, Integers, TLAPS

-----------------------------------------------------------------------------
(* Lists of units *)

\* What can be left of a message once its event is written: a size only at the end,
\* because what follows it is not known before.
Rests == {l \in Seq(Kinds \ {"EVENT"}) : \A i \in 1 .. Len(l) : l[i] = "SIZE" => i = Len(l)}

HasSize(l) == l # <<>> /\ l[Len(l)] = "SIZE"

\* A sequence without its first element.
LEMMA TailOf ==
  ASSUME NEW S, NEW l \in Seq(S), l # <<>>
  PROVE  /\ Len(l) \in Nat /\ Len(l) > 0 /\ Head(l) = l[1] /\ Head(l) \in S
         /\ Tail(l) \in Seq(S) /\ Len(Tail(l)) = Len(l) - 1
         /\ \A i \in 1 .. Len(l) - 1 : Tail(l)[i] = l[i + 1]
  OBVIOUS

LEMMA RestsAreLists == \A l \in Rests : l \in Seq(Kinds)
  BY DEF Rests, Kinds

LEMMA PeerOfPeer == \A e \in Ends : Peer(e) \in Ends /\ Peer(Peer(e)) = e /\ Peer(e) # e
  BY DEF Peer, Ends

\* Lists of one and of two units.
LEMMA ShortLists ==
  ASSUME NEW a \in Kinds \ {"EVENT", "SIZE"}, NEW b \in Kinds \ {"EVENT"}
  PROVE  /\ <<a>> \in Rests /\ <<a>> # <<>> /\ ~HasSize(<<a>>)
         /\ <<a, b>> \in Rests /\ <<a, b>> # <<>> /\ (HasSize(<<a, b>>) <=> b = "SIZE")
<1> DEFINE K == Kinds \ {"EVENT"}
<1>1. a \in K /\ b \in K /\ a # "SIZE"
  OBVIOUS
<1>2. \A l : l \in Rests <=> l \in Seq(K) /\ \A i \in 1 .. Len(l) : l[i] = "SIZE" => i = Len(l)
  BY DEF Rests
<1> HIDE DEF K
<1>3. <<a>> \in Seq(K) /\ <<a>> # <<>> /\ Len(<<a>>) = 1 /\ <<a>>[1] = a
  BY <1>1
<1>4. <<a, b>> \in Seq(K) /\ <<a, b>> # <<>> /\ Len(<<a, b>>) = 2 /\ <<a, b>>[1] = a /\ <<a, b>>[2] = b
  BY <1>1
<1>5. <<a>> \in Rests /\ ~HasSize(<<a>>)
  <2>1. \A i \in 1 .. 1 : i = 1
    OBVIOUS
  <2>2. QED
    BY <1>1, <1>2, <1>3, <2>1 DEF HasSize
<1>6. <<a, b>> \in Rests
  <2>1. \A i \in 1 .. 2 : i = 1 \/ i = 2
    OBVIOUS
  <2>2. QED
    BY <1>1, <1>2, <1>4, <2>1
<1>7. HasSize(<<a, b>>) <=> b = "SIZE"
  BY <1>4 DEF HasSize
<1>8. QED
  BY <1>3, <1>4, <1>5, <1>6, <1>7

\* The receiver expects what the sender writes behind the event.
LEMMA EventWritten ==
  ASSUME NEW event \in Events
  PROVE  /\ Written(event) \in Seq(Kinds) /\ Written(event) # <<>> /\ Head(Written(event)) = "EVENT"
         /\ Tail(Written(event)) = Expected(event)
         /\ Expected(event) \in Rests /\ Expected(event) # <<>>
         /\ (HasSize(Expected(event)) <=> event = "NEW_FILE")
<1>0. "PATH" \in Kinds \ {"EVENT", "SIZE"} /\ {"PATH", "SIZE"} \subseteq Kinds \ {"EVENT"}
  BY DEF Kinds
<1>1. CASE event = "NEW_FILE"
  <2>1. Written(event) = <<"EVENT", "PATH", "SIZE">> /\ Expected(event) = <<"PATH", "SIZE">>
    BY <1>1 DEF Written, Expected
  <2>2. <<"PATH", "SIZE">> \in Rests /\ <<"PATH", "SIZE">> # <<>> /\ HasSize(<<"PATH", "SIZE">>)
    BY <1>0, ShortLists, Zenon
  <2>3. /\ Written(event) \in Seq(Kinds) /\ Written(event) # <<>> /\ Head(Written(event)) = "EVENT"
        /\ Tail(Written(event)) = Expected(event)
    BY <2>1 DEF Kinds
  <2>4. QED
    BY <1>1, <2>1, <2>2, <2>3
<1>2. CASE event \in {"MOVE", "COPY"}
  <2>1. Written(event) = <<"EVENT", "PATH", "PATH">> /\ Expected(event) = <<"PATH", "PATH">>
    BY <1>2 DEF Written, Expected
  <2>2. Expected(event) \in Rests /\ Expected(event) # <<>> /\ ~HasSize(Expected(event))
    BY <1>0, <2>1, ShortLists
  <2>3. QED
    BY <1>2, <2>1, <2>2 DEF Kinds
<1>3. CASE event \in {"NEW_DIRECTORY", "DELETE"}
  <2>1. Written(event) = <<"EVENT", "PATH">> /\ Expected(event) = <<"PATH">>
    BY <1>3 DEF Written, Expected
  <2>2. Expected(event) \in Rests /\ Expected(event) # <<>> /\ ~HasSize(Expected(event))
    BY <1>0, <2>1, ShortLists
  <2>3. QED
    BY <1>3, <2>1, <2>2 DEF Kinds
<1>4. QED
  BY <1>1, <1>2, <1>3 DEF Events

LEMMA SizeWritten ==
  ASSUME NEW n \in Nat
  PROVE  /\ ExpectedAfter(n) \in Rests /\ ~HasSize(ExpectedAfter(n)) /\ ExpectedAfter(n) # <<>>
         /\ \A m : WrittenAfter(n, m) = ExpectedAfter(n)
<1> DEFINE K == Kinds \ {"EVENT"}
           l == ExpectedAfter(n)
<1>1. Chunks(n) \in Seq(K) /\ Len(Chunks(n)) = n /\ \A i \in 1 .. n : Chunks(n)[i] = "DATA"
  BY DEF Chunks, Kinds
<1>2. <<"TIME">> \in Seq(K) /\ Len(<<"TIME">>) = 1
  BY DEF Kinds
<1>3. /\ l \in Seq(K)
      /\ Len(l) = n + 1
      /\ \A i \in 1 .. n : l[i] = "DATA"
      /\ l[n + 1] = "TIME"
  BY <1>1, <1>2 DEF ExpectedAfter
<1>4. \A m : WrittenAfter(n, m) = ExpectedAfter(n)
  BY DEF WrittenAfter, ExpectedAfter
<1> HIDE DEF l
<1>5. \A i \in 1 .. Len(l) : l[i] # "SIZE"
  <2> SUFFICES ASSUME NEW i \in 1 .. Len(l) PROVE l[i] # "SIZE"
    OBVIOUS
  <2>1. i \in 1 .. n \/ i = n + 1
    BY <1>3
  <2>2. QED
    BY <1>3, <2>1
<1>6. l \in Rests
  BY <1>3, <1>5 DEF Rests
<1>7. l # <<>>
  BY <1>3
<1>8. ~HasSize(l)
  <2>1. Len(l) \in 1 .. Len(l)
    BY <1>3
  <2>2. QED
    BY <1>5, <2>1 DEF HasSize
<1>9. QED
  BY <1>4, <1>6, <1>7, <1>8 DEF l

LEMMA NextOfRest ==
  ASSUME NEW l \in Rests, l # <<>>
  PROVE  /\ Head(l) \in Kinds \ {"EVENT"}
         /\ Head(l) = "SIZE" => Tail(l) = <<>> /\ HasSize(l)
         /\ Head(l) # "SIZE" => Tail(l) \in Rests /\ (HasSize(Tail(l)) <=> HasSize(l))
<1> DEFINE K == Kinds \ {"EVENT"}
           t == Tail(l)
           n == Len(l)
<1>0. l \in Seq(K)
  BY DEF Rests
<1> HIDE DEF K
<1>1. /\ n \in Nat /\ n > 0 /\ Head(l) = l[1] /\ Head(l) \in K
      /\ t \in Seq(K) /\ Len(t) = n - 1
      /\ \A i \in 1 .. n - 1 : t[i] = l[i + 1]
  BY <1>0, TailOf
<1>2. \A i \in 1 .. n : l[i] = "SIZE" => i = n
  BY DEF Rests
<1>3. t = <<>> <=> Len(t) = 0
  BY <1>1
<1>4. HasSize(l) <=> l[n] = "SIZE"
  BY DEF HasSize
<1>5. HasSize(t) <=> t # <<>> /\ t[Len(t)] = "SIZE"
  BY DEF HasSize
<1>6. t \in Rests <=> \A i \in 1 .. Len(t) : t[i] = "SIZE" => i = Len(t)
  BY <1>1 DEF Rests, K
<1> HIDE DEF t, n
<1>7. ASSUME Head(l) = "SIZE"
      PROVE  t = <<>> /\ HasSize(l)
  <2>1. 1 \in 1 .. n
    BY <1>1
  <2>2. n = 1
    BY <1>1, <1>2, <1>7, <2>1
  <2>3. QED
    BY <1>1, <1>3, <1>4, <1>7, <2>2
<1>8. ASSUME Head(l) # "SIZE"
      PROVE  t \in Rests /\ (HasSize(t) <=> HasSize(l))
  <2>1. t \in Rests
    <3> SUFFICES ASSUME NEW i \in 1 .. Len(t), t[i] = "SIZE" PROVE i = Len(t)
      BY <1>6
    <3>1. i + 1 \in 1 .. n /\ l[i + 1] = "SIZE"
      BY <1>1
    <3>2. i + 1 = n
      BY <1>2, <3>1
    <3>3. QED
      BY <1>1, <3>2
  <2>2. CASE n = 1
    BY <1>1, <1>3, <1>4, <1>5, <1>8, <2>1, <2>2
  <2>3. CASE n # 1
    <3>1. Len(t) \in 1 .. n - 1 /\ Len(t) + 1 = n
      BY <1>1, <2>3
    <3>2. t[Len(t)] = l[n]
      BY <1>1, <3>1
    <3>3. QED
      BY <1>3, <1>4, <1>5, <2>1, <3>1, <3>2
  <2>4. QED
    BY <2>2, <2>3
<1>9. QED
  BY <1>1, <1>7, <1>8 DEF K, t

-----------------------------------------------------------------------------
(* Positions in a stream of units *)

\* Where a reader is: what is left of the message, the message as it is known so
\* far, and how many messages have been announced up to there.
Pos == [left : Rests, msg : Message, n : Nat]

\* The kind of the unit at a position, and the position behind it.
Kind(p) == IF p.left = <<>> THEN "EVENT" ELSE Head(p.left)
Step(p, u) ==
    CASE Kind(p) = "EVENT" ->
             [left |-> Expected(u.msg.event), msg |-> [event |-> u.msg.event, size |-> 0],
              n |-> p.n + (IF u.msg.event = "NEW_FILE" THEN 0 ELSE 1)]
      [] Kind(p) = "SIZE" ->
             [left |-> ExpectedAfter(u.msg.size),
              msg |-> [event |-> p.msg.event, size |-> u.msg.size], n |-> p.n + 1]
      [] OTHER -> [left |-> Tail(p.left), msg |-> p.msg, n |-> p.n]

\* What is known at a position agrees with the announced messages s.
Sound(p, s) ==
    /\ p.n <= Len(s)
    /\ HasSize(p.left) => p.msg.event = "NEW_FILE"
    /\ ~HasSize(p.left) /\ p.n > 0 => p.msg = s[p.n]
    /\ ~HasSize(p.left) /\ p.left # <<>> => p.n > 0

\* The position at which the sender of s is, with l left of a message of `event'.
End(p, s, l, event) ==
    /\ p.left = l /\ p.n = Len(s) /\ Sound(p, s)
    /\ l # <<>> => p.msg.event = event

\* The units w lead from the reader's position a to the sender's.
Linked(w, s, a, l, event) ==
    \E c \in [0 .. Len(w) -> Pos] :
        /\ c[0] = a /\ End(c[Len(w)], s, l, event)
        /\ \A k \in 0 .. Len(w) : Sound(c[k], s)
        /\ \A k \in 1 .. Len(w) : w[k].kind = Kind(c[k - 1]) /\ c[k] = Step(c[k - 1], w[k])

\* Another event is to be sent: nothing is left of the one before.
LEMMA LinkedNext ==
  ASSUME NEW w, NEW s, NEW a, NEW v1, NEW v2, Linked(w, s, a, <<>>, v1)
  PROVE  Linked(w, s, a, <<>>, v2)
  BY DEF Linked, End

\* Reading a unit.
LEMMA LinkedTail ==
  ASSUME NEW w \in Seq(Unit), w # <<>>, NEW s, NEW a, NEW l, NEW event, Linked(w, s, a, l, event)
  PROVE  /\ Head(w).kind = Kind(a)
         /\ Linked(Tail(w), s, Step(a, Head(w)), l, event)
<1> DEFINE t == Tail(w)
           m == Len(w)
<1>1. /\ m \in Nat /\ m > 0 /\ Head(w) = w[1]
      /\ Len(t) = m - 1 /\ \A i \in 1 .. m - 1 : t[i] = w[i + 1]
  BY TailOf
<1>2. PICK c \in [0 .. m -> Pos] :
          /\ c[0] = a /\ End(c[m], s, l, event)
          /\ \A k \in 0 .. m : Sound(c[k], s)
          /\ \A k \in 1 .. m : w[k].kind = Kind(c[k - 1]) /\ c[k] = Step(c[k - 1], w[k])
  BY DEF Linked
<1> DEFINE d == [k \in 0 .. m - 1 |-> c[k + 1]]
<1> HIDE DEF t, m
<1>3. 1 \in 1 .. m /\ 1 - 1 = 0
  BY <1>1
<1>4. w[1].kind = Kind(a) /\ c[1] = Step(a, w[1])
  BY <1>2, <1>3
<1>5. d \in [0 .. m - 1 -> Pos]
  <2>1. \A k \in 0 .. m - 1 : k + 1 \in 0 .. m
    BY <1>1
  <2>2. QED
    BY <1>2, <2>1
<1>6. d[0] = c[1] /\ d[m - 1] = c[m]
  BY <1>1
<1>7. \A k \in 0 .. m - 1 : Sound(d[k], s)
  <2>1. \A k \in 0 .. m - 1 : k + 1 \in 0 .. m /\ d[k] = c[k + 1]
    BY <1>1
  <2>2. QED
    BY <1>2, <2>1
<1>8. \A k \in 1 .. m - 1 : t[k].kind = Kind(d[k - 1]) /\ d[k] = Step(d[k - 1], t[k])
  <2> SUFFICES ASSUME NEW k \in 1 .. m - 1
               PROVE  t[k].kind = Kind(d[k - 1]) /\ d[k] = Step(d[k - 1], t[k])
    OBVIOUS
  <2>1. k + 1 \in 1 .. m /\ (k + 1) - 1 = k /\ t[k] = w[k + 1]
    BY <1>1
  <2>2. d[k - 1] = c[k] /\ d[k] = c[k + 1]
    BY <1>1
  <2> HIDE DEF d
  <2>3. w[k + 1].kind = Kind(c[k]) /\ c[k + 1] = Step(c[k], w[k + 1])
    BY <1>2, <2>1
  <2>4. QED
    BY <2>1, <2>2, <2>3
<1> HIDE DEF d
<1>9. Linked(t, s, c[1], l, event)
  <2>1. d \in [0 .. Len(t) -> Pos] /\ d[0] = c[1] /\ End(d[Len(t)], s, l, event)
    BY <1>1, <1>2, <1>5, <1>6
  <2>2. QED
    BY <1>1, <1>7, <1>8, <2>1 DEF Linked
<1>10. QED
  BY <1>1, <1>4, <1>9 DEF t

\* Writing a unit: wherever the sender can be, it is one step further after it.
LEMMA LinkedAppend ==
  ASSUME NEW w \in Seq(Unit), NEW u \in Unit, NEW s, NEW s2, NEW a,
         NEW l, NEW event, NEW l2, NEW event2,
         Linked(w, s, a, l, event),
         \A p \in Pos : Sound(p, s) => Sound(p, s2),
         \A p \in Pos : End(p, s, l, event) =>
             u.kind = Kind(p) /\ Step(p, u) \in Pos /\ End(Step(p, u), s2, l2, event2)
  PROVE  Linked(Append(w, u), s2, a, l2, event2)
<1> DEFINE m == Len(w)
           x == Append(w, u)
<1>1. m \in Nat /\ Len(x) = m + 1 /\ x[m + 1] = u /\ \A i \in 1 .. m : x[i] = w[i]
  OBVIOUS
<1>2. PICK c \in [0 .. m -> Pos] :
          /\ c[0] = a /\ End(c[m], s, l, event)
          /\ \A k \in 0 .. m : Sound(c[k], s)
          /\ \A k \in 1 .. m : w[k].kind = Kind(c[k - 1]) /\ c[k] = Step(c[k - 1], w[k])
  BY DEF Linked
<1> DEFINE q == Step(c[m], u)
           d == [k \in 0 .. m + 1 |-> IF k = m + 1 THEN q ELSE c[k]]
<1> HIDE DEF m, x
<1>3. u.kind = Kind(c[m]) /\ q \in Pos /\ End(q, s2, l2, event2)
  BY <1>1, <1>2
<1>4. q = Step(c[m], u) /\ Sound(q, s2)
  BY <1>3 DEF End
<1> HIDE DEF q
<1>5. d[m + 1] = q /\ \A k \in 0 .. m : d[k] = c[k] /\ k # m + 1
  BY <1>1
<1>6. d \in [0 .. m + 1 -> Pos]
  <2>1. \A k \in 0 .. m + 1 : k = m + 1 \/ k \in 0 .. m
    BY <1>1
  <2>2. QED
    BY <1>2, <1>3, <2>1
<1> HIDE DEF d
<1>7. \A k \in 0 .. m + 1 : Sound(d[k], s2)
  <2> SUFFICES ASSUME NEW k \in 0 .. m + 1 PROVE Sound(d[k], s2)
    OBVIOUS
  <2>1. k = m + 1 \/ k \in 0 .. m
    BY <1>1
  <2>2. QED
    BY <1>2, <1>4, <1>5, <2>1
<1>8. \A k \in 1 .. m + 1 : x[k].kind = Kind(d[k - 1]) /\ d[k] = Step(d[k - 1], x[k])
  <2> SUFFICES ASSUME NEW k \in 1 .. m + 1
               PROVE  x[k].kind = Kind(d[k - 1]) /\ d[k] = Step(d[k - 1], x[k])
    OBVIOUS
  <2>1. k = m + 1 \/ k \in 1 .. m
    BY <1>1
  <2>2. k - 1 \in 0 .. m
    BY <1>1
  <2>3. d[k - 1] = c[k - 1]
    BY <1>5, <2>2
  <2>4. CASE k = m + 1
    <3>1. k - 1 = m
      BY <1>1, <2>4
    <3>2. QED
      BY <1>1, <1>3, <1>4, <1>5, <2>3, <2>4, <3>1
  <2>5. CASE k \in 1 .. m
    <3>1. k \in 0 .. m
      BY <1>1, <2>5
    <3>2. QED
      BY <1>1, <1>2, <1>5, <2>3, <2>5, <3>1
  <2>6. QED
    BY <2>1, <2>4, <2>5
<1>9. d[0] = a
  <2>1. 0 \in 0 .. m
    BY <1>1
  <2>2. QED
    BY <1>2, <1>5, <2>1
<1>10. Linked(x, s2, a, l2, event2)
  BY <1>1, <1>3, <1>5, <1>6, <1>7, <1>8, <1>9 DEF Linked
<1>11. QED
  BY <1>10 DEF x

\* What is true of the positions stays true when another message is announced.
LEMMA SoundLonger ==
  ASSUME NEW s \in Seq(Message), NEW msg \in Message, NEW p \in Pos, Sound(p, s)
  PROVE  Sound(p, Append(s, msg))
<1>1. p.n \in Nat
  BY DEF Pos
<1>2. Len(Append(s, msg)) = Len(s) + 1 /\ \A i \in 1 .. Len(s) : Append(s, msg)[i] = s[i]
  OBVIOUS
<1>3. Len(s) \in Nat
  OBVIOUS
<1> HIDE DEF Message
<1>4. p.n > 0 => p.n \in 1 .. Len(s)
  BY <1>1, <1>3 DEF Sound
<1>5. QED
  BY <1>1, <1>2, <1>3, <1>4 DEF Sound

\* The three kinds of a step.
LEMMA StepAtEvent ==
  ASSUME NEW p, NEW u \in Unit, p.left = <<>>
  PROVE  /\ Kind(p) = "EVENT"
         /\ Step(p, u) = [left |-> Expected(u.msg.event), msg |-> [event |-> u.msg.event, size |-> 0],
                          n |-> p.n + (IF u.msg.event = "NEW_FILE" THEN 0 ELSE 1)]
  BY DEF Kind, Step

LEMMA StepAtSize ==
  ASSUME NEW p, NEW u \in Unit, p.left # <<>>, Head(p.left) = "SIZE"
  PROVE  /\ Kind(p) = "SIZE"
         /\ Step(p, u) = [left |-> ExpectedAfter(u.msg.size),
                          msg |-> [event |-> p.msg.event, size |-> u.msg.size], n |-> p.n + 1]
  BY DEF Kind, Step

LEMMA StepElsewhere ==
  ASSUME NEW p, NEW u \in Unit, p.left # <<>>, Head(p.left) \notin {"EVENT", "SIZE"}
  PROVE  /\ Kind(p) = Head(p.left)
         /\ Step(p, u) = [left |-> Tail(p.left), msg |-> p.msg, n |-> p.n]
  BY DEF Kind, Step

LEMMA UnitTypes ==
  /\ \A u \in Unit : u.kind \in Kinds /\ u.msg \in Message
  /\ \A v \in Message : v.event \in Events /\ v.size \in 0 .. MaxLen /\ v.size \in Nat
  /\ \A v \in Events : [event |-> v, size |-> 0] \in Message
  /\ \A v \in Message : \A n \in 0 .. MaxLen : [v EXCEPT !.size = n] = [event |-> v.event, size |-> n]
  /\ \A v \in Events : \A n \in 0 .. MaxLen : [event |-> v, size |-> n] \in Message
<1>1. MaxLen \in Nat
  BY PlansAssumption
<1>2. QED
  BY <1>1 DEF Unit, Message

-----------------------------------------------------------------------------
(* The inductive invariant *)

\* What an end has still to write of a message whose event is written.
Pending(e) == IF snd[e].left = <<>> \/ Head(snd[e].left) = "EVENT" THEN <<>> ELSE snd[e].left

\* The position of the receiver of an end.
Here(e) ==
    [left |-> rcv[e].left, msg |-> rcv[e].msg,
     n |-> Len(got[e]) + (IF rcv[e].at = "event" \/ HasSize(rcv[e].left) THEN 0 ELSE 1)]

\* The threads of an end: what is left of a message in each of their states.
Shapes(e) ==
    /\ snd[e].at = "dequeue" => snd[e].left = <<>>
    /\ snd[e].at = "lock" => snd[e].left = Written(snd[e].msg.event)
    /\ snd[e].at = "write" => snd[e].left = Written(snd[e].msg.event) \/ snd[e].left \in Rests
    /\ snd[e].left = Written(snd[e].msg.event) =>
           snd[e].msg.event = "NEW_FILE" \/ snd[e].msg.size = 0
    /\ \A i \in 1 .. Len(queue[e]) : queue[e][i].event = "NEW_FILE" \/ queue[e][i].size = 0
    /\ rcv[e].left \in Rests /\ rcv[e].at # "dead"
    /\ rcv[e].at = "event" => rcv[e].left = <<>>

\* The way from an end to its peer.
Announced(s, g) == Len(g) <= Len(s) /\ \A i \in 1 .. Len(g) : g[i] = s[i]
Way(e) ==
    /\ Linked(wire[e], sent[e], Here(Peer(e)), Pending(e), snd[e].msg.event)
    /\ Announced(sent[e], got[Peer(e)])

IInv == TypeOK /\ \A e \in Ends : Shapes(e) /\ Way(e)

LEMMA TypesOfEnd ==
  ASSUME TypeOK, NEW e \in Ends
  PROVE  /\ queue[e] \in Seq(Message) /\ len[e] \in 0 .. MaxLen
         /\ wire[e] \in Seq(Unit) /\ sent[e] \in Seq(Message) /\ got[e] \in Seq(Message)
         /\ snd[e].at \in {"dequeue", "lock", "write"} /\ snd[e].left \in Seq(Kinds)
         /\ snd[e].msg \in Message
         /\ rcv[e].at \in {"event", "lock", "read", "dead"} /\ rcv[e].left \in Seq(Kinds)
         /\ rcv[e].msg \in Message
<1>1. /\ snd[e] \in [at : {"dequeue", "lock", "write"}, left : Seq(Kinds), msg : Message]
      /\ rcv[e] \in [at : {"event", "lock", "read", "dead"}, left : Seq(Kinds), msg : Message]
  BY DEF TypeOK
<1>2. QED
  BY <1>1 DEF TypeOK

\* A step leaves the way from e alone when it changes neither of the two threads.
LEMMA WayUnchanged ==
  ASSUME NEW e \in Ends, Way(e), wire'[e] = wire[e], sent'[e] = sent[e], snd'[e] = snd[e],
         rcv'[Peer(e)] = rcv[Peer(e)], got'[Peer(e)] = got[Peer(e)]
  PROVE  Way(e)'
<1>1. Here(Peer(e))' = Here(Peer(e)) /\ Pending(e)' = Pending(e)
  BY DEF Here, Pending
<1>2. QED
  BY <1>1 DEF Way

LEMMA ShapesUnchanged ==
  ASSUME NEW e \in Ends, Shapes(e), queue'[e] = queue[e], snd'[e] = snd[e], rcv'[e] = rcv[e]
  PROVE  Shapes(e)'
  BY DEF Shapes

\* It is enough to look at one end, its peer and the way between them.
LEMMA OneEnd ==
  ASSUME NEW e \in Ends, NEW d \in Ends
  PROVE  d = e \/ d = Peer(e)
  BY DEF Ends, Peer

-----------------------------------------------------------------------------
(* Types *)

LEMMA InitTypes == Init => TypeOK
<1> SUFFICES ASSUME Init PROVE TypeOK
  OBVIOUS
<1>1. plan \in Plans /\ plan.send \in [Ends -> Seq(Message)] /\ plan.cap \in Nat /\ MaxLen \in Nat
  BY PlansAssumption DEF Init
<1>2. Idle \in [at : {"event"}, left : Seq(Kinds), msg : Message]
  <2>1. [event |-> "DELETE", size |-> 0] \in Message
    BY UnitTypes DEF Events
  <2>2. <<>> \in Seq(Kinds)
    OBVIOUS
  <2>3. QED
    BY <2>1, <2>2 DEF Idle
<1>3. [Idle EXCEPT !.at = "dequeue"] \in [at : {"dequeue"}, left : Seq(Kinds), msg : Message]
  BY <1>2
<1>4. wire \in [Ends -> Seq(Unit)] /\ \A e \in Ends : Len(wire[e]) <= plan.cap
  BY <1>1 DEF Init
<1>5. /\ sent \in [Ends -> Seq(Message)] /\ got \in [Ends -> Seq(Message)]
      /\ len \in [Ends -> 0 .. MaxLen] /\ mutex \in [Ends -> {"free", "sender", "receiver"}]
      /\ queue \in [Ends -> Seq(Message)]
  BY <1>1 DEF Init
<1>6. snd \in [Ends -> [at : {"dequeue", "lock", "write"}, left : Seq(Kinds), msg : Message]]
  BY <1>3 DEF Init
<1>7. rcv \in [Ends -> [at : {"event", "lock", "read", "dead"}, left : Seq(Kinds), msg : Message]]
  BY <1>2 DEF Init
<1>8. QED
  BY <1>1, <1>4, <1>5, <1>6, <1>7 DEF TypeOK

SenderTypes == [at : {"dequeue", "lock", "write"}, left : Seq(Kinds), msg : Message]
ReceiverTypes == [at : {"event", "lock", "read", "dead"}, left : Seq(Kinds), msg : Message]

\* The list a sender has still to write, whatever it has written.
LEMMA RestWritten ==
  ASSUME NEW l \in Seq(Kinds), l # <<>>, NEW n \in 0 .. MaxLen
  PROVE  Tail(l) \o (IF Head(l) = "SIZE" THEN WrittenAfter(n, n) ELSE <<>>) \in Seq(Kinds)
<1>1. n \in Nat
  BY PlansAssumption
<1>2. WrittenAfter(n, n) \in Seq(Kinds)
  BY <1>1, SizeWritten, RestsAreLists
<1>3. Tail(l) \in Seq(Kinds) /\ <<>> \in Seq(Kinds)
  BY TailOf
<1>4. QED
  BY <1>2, <1>3

LEMMA WriteTypes ==
  ASSUME TypeOK, NEW e \in Ends, Write(e)
  PROVE  TypeOK'
<1> DEFINE kind == Head(snd[e].left)
           msg == IF kind = "SIZE" THEN [snd[e].msg EXCEPT !.size = len[e]] ELSE snd[e].msg
           left == Tail(snd[e].left)
                       \o (IF kind = "SIZE" THEN WrittenAfter(len[e], len[e]) ELSE <<>>)
           announced == kind = IF msg.event = "NEW_FILE" THEN "SIZE" ELSE "EVENT"
<1>1. /\ snd' = [snd EXCEPT ![e].left = left, ![e].msg = msg]
      /\ wire' = [wire EXCEPT ![e] = Append(@, [kind |-> kind, msg |-> msg])]
      /\ sent' = [sent EXCEPT ![e] = IF announced THEN Append(@, msg) ELSE @]
      /\ UNCHANGED <<plan, queue, mutex, rcv, len, got>>
      /\ snd[e].left # <<>> /\ Len(wire[e]) < plan.cap
  BY DEF Write
<1>2. /\ snd[e].left \in Seq(Kinds) /\ snd[e].msg \in Message /\ len[e] \in 0 .. MaxLen
      /\ wire[e] \in Seq(Unit) /\ sent[e] \in Seq(Message)
  BY TypesOfEnd
<1>3. msg \in Message
  <2>1. /\ [snd[e].msg EXCEPT !.size = len[e]] = [event |-> snd[e].msg.event, size |-> len[e]]
        /\ [event |-> snd[e].msg.event, size |-> len[e]] \in Message
    BY <1>2, UnitTypes, Zenon
  <2>2. QED
    BY <1>2, <2>1
<1>4. left \in Seq(Kinds)
  BY <1>1, <1>2, RestWritten
<1>5. kind \in Kinds
  BY <1>1, <1>2, TailOf
<1> HIDE DEF kind, msg, left, announced
<1>6. [kind |-> kind, msg |-> msg] \in Unit
  BY <1>3, <1>5 DEF Unit
<1>7. snd' \in [Ends -> SenderTypes]
  <2>1. snd \in [Ends -> SenderTypes]
    BY DEF TypeOK, SenderTypes
  <2>2. QED
    BY <1>1, <1>3, <1>4, <2>1 DEF SenderTypes
<1>8. sent' \in [Ends -> Seq(Message)]
  BY <1>1, <1>2, <1>3 DEF TypeOK
<1>9. wire' \in [Ends -> Seq(Unit)] /\ \A d \in Ends : Len(wire'[d]) <= plan.cap
  <2> DEFINE x == Append(wire[e], [kind |-> kind, msg |-> msg])
  <2>1. /\ wire \in [Ends -> Seq(Unit)] /\ \A d \in Ends : Len(wire[d]) <= plan.cap
        /\ plan.cap \in Nat /\ Len(wire[e]) \in Nat
    BY <1>2, PlansAssumption DEF TypeOK
  <2>2. x \in Seq(Unit) /\ Len(x) = Len(wire[e]) + 1
    BY <1>2, <1>6
  <2> HIDE DEF x
  <2>3. wire' = [wire EXCEPT ![e] = x]
    BY <1>1 DEF x
  <2>4. Len(x) <= plan.cap
    BY <1>1, <2>1, <2>2
  <2>5. QED
    BY <2>1, <2>2, <2>3, <2>4
<1>10. QED
  BY <1>1, <1>7, <1>8, <1>9 DEF TypeOK, SenderTypes

\* Taking a unit off leaves a stream of units that fits.
LEMMA TakenTypes ==
  ASSUME TypeOK, NEW e \in Ends, Arrived(e), Taken(e)
  PROVE  /\ wire' \in [Ends -> Seq(Unit)] /\ \A d \in Ends : Len(wire'[d]) <= plan.cap
         /\ Foremost(e).msg \in Message /\ Foremost(e) \in Unit
<1> DEFINE w == wire[Peer(e)]
           t == Tail(w)
<1>1. Peer(e) \in Ends
  BY PeerOfPeer
<1>2. /\ wire \in [Ends -> Seq(Unit)] /\ \A d \in Ends : Len(wire[d]) <= plan.cap
      /\ plan.cap \in Nat
  BY PlansAssumption DEF TypeOK
<1>3. w \in Seq(Unit) /\ w # <<>> /\ Len(w) <= plan.cap
  BY <1>1, <1>2 DEF Arrived
<1>4. wire' = [wire EXCEPT ![Peer(e)] = t]
  BY DEF Taken
<1>5. Foremost(e) = Head(w)
  BY DEF Foremost
<1> HIDE DEF w
<1>6. Head(w) \in Unit /\ t \in Seq(Unit) /\ Len(t) = Len(w) - 1 /\ Len(w) \in Nat
  BY <1>3, TailOf
<1> HIDE DEF t
<1>7. Len(t) <= plan.cap
  BY <1>2, <1>3, <1>6
<1>8. wire' \in [Ends -> Seq(Unit)] /\ \A d \in Ends : Len(wire'[d]) <= plan.cap
  BY <1>1, <1>2, <1>4, <1>6, <1>7
<1>9. QED
  BY <1>5, <1>6, <1>8, UnitTypes

\* What a message taken off a queue is, and what is left of the queue.
LEMMA FromQueue ==
  ASSUME TypeOK, NEW e \in Ends, queue[e] # <<>>
  PROVE  /\ Head(queue[e]) \in Message /\ Tail(queue[e]) \in Seq(Message)
         /\ Head(queue[e]).event \in Events /\ Head(queue[e]).size \in 0 .. MaxLen
         /\ Written(Head(queue[e]).event) \in Seq(Kinds)
<1>1. queue[e] \in Seq(Message)
  BY TypesOfEnd
<1>2. Head(queue[e]) \in Message /\ Tail(queue[e]) \in Seq(Message)
  BY <1>1, TailOf
<1>3. Head(queue[e]).event \in Events /\ Head(queue[e]).size \in 0 .. MaxLen
  BY <1>2, UnitTypes
<1>4. QED
  BY <1>2, <1>3, EventWritten

LEMMA SenderStepTypes ==
  ASSUME TypeOK, NEW e \in Ends, SenderThread(e) \/ Resize(e)
  PROVE  TypeOK'
<1>1. CASE Dequeue(e)
  <2> DEFINE h == Head(queue[e])
             t == Tail(queue[e])
             x == [at |-> "lock", left |-> Written(h.event), msg |-> h]
  <2>1. /\ snd' = [snd EXCEPT ![e] = x] /\ queue' = [queue EXCEPT ![e] = t]
        /\ len' = [len EXCEPT ![e] = h.size]
        /\ UNCHANGED <<plan, mutex, rcv, wire, sent, got>>
    BY <1>1 DEF Dequeue
  <2>2. h \in Message /\ t \in Seq(Message) /\ h.size \in 0 .. MaxLen /\ Written(h.event) \in Seq(Kinds)
    BY <1>1, FromQueue DEF Dequeue
  <2> HIDE DEF h, t
  <2>3. x \in SenderTypes
    BY <2>2 DEF SenderTypes
  <2> HIDE DEF x
  <2>4. QED
    BY <2>1, <2>2, <2>3 DEF TypeOK, SenderTypes
<1>2. CASE LockToSend(e)
  <2>0. snd \in [Ends -> SenderTypes]
    BY DEF TypeOK, SenderTypes
  <2>1. snd' \in [Ends -> SenderTypes]
    BY <1>2, <2>0 DEF LockToSend, SenderTypes
  <2>2. mutex' \in [Ends -> {"free", "sender", "receiver"}]
    BY <1>2 DEF LockToSend, TypeOK
  <2>3. QED
    BY <1>2, <2>1, <2>2 DEF LockToSend, TypeOK, SenderTypes
<1>3. CASE Write(e)
  BY <1>3, WriteTypes
<1>4. CASE UnlockSent(e)
  <2>0. snd \in [Ends -> SenderTypes]
    BY DEF TypeOK, SenderTypes
  <2>1. snd' \in [Ends -> SenderTypes]
    BY <1>4, <2>0 DEF UnlockSent, SenderTypes
  <2>2. mutex' \in [Ends -> {"free", "sender", "receiver"}]
    BY <1>4 DEF UnlockSent, TypeOK
  <2>3. QED
    BY <1>4, <2>1, <2>2 DEF UnlockSent, TypeOK, SenderTypes
<1>5. CASE Resize(e)
  <2>1. len' \in [Ends -> 0 .. MaxLen]
    BY <1>5 DEF Resize, TypeOK
  <2>2. QED
    BY <1>5, <2>1 DEF Resize, TypeOK
<1>6. QED
  BY <1>1, <1>2, <1>3, <1>4, <1>5 DEF SenderThread

LEMMA ReceiverStepTypes ==
  ASSUME TypeOK, NEW e \in Ends, ReceiverThread(e)
  PROVE  TypeOK'
<1>0. rcv \in [Ends -> ReceiverTypes] /\ rcv[e] \in ReceiverTypes
  BY DEF TypeOK, ReceiverTypes
<1>1. CASE ReadEvent(e)
  <2>1. /\ wire' \in [Ends -> Seq(Unit)] /\ \A d \in Ends : Len(wire'[d]) <= plan.cap
        /\ Foremost(e).msg \in Message
    BY <1>1, TakenTypes DEF ReadEvent
  <2>2. Foremost(e).msg.event \in Events
    BY <2>1, UnitTypes
  <2> DEFINE x == [at |-> "lock", left |-> Expected(Foremost(e).msg.event),
                   msg |-> [event |-> Foremost(e).msg.event, size |-> 0]]
             y == [rcv[e] EXCEPT !.at = "dead"]
  <2>3. x \in ReceiverTypes
    <3>1. Expected(Foremost(e).msg.event) \in Seq(Kinds)
      BY <2>2, EventWritten, RestsAreLists
    <3>2. [event |-> Foremost(e).msg.event, size |-> 0] \in Message
      BY <2>2, UnitTypes
    <3>3. QED
      BY <3>1, <3>2 DEF ReceiverTypes
  <2>4. y \in ReceiverTypes
    BY <1>0 DEF ReceiverTypes
  <2>5. /\ rcv' = [rcv EXCEPT ![e] = x] \/ rcv' = [rcv EXCEPT ![e] = y]
        /\ UNCHANGED <<plan, queue, mutex, snd, len, sent, got>>
    BY <1>1 DEF ReadEvent
  <2> HIDE DEF x, y
  <2>6. rcv' \in [Ends -> ReceiverTypes]
    BY <1>0, <2>3, <2>4, <2>5
  <2>7. QED
    BY <2>1, <2>5, <2>6 DEF TypeOK, ReceiverTypes
<1>2. CASE LockToReceive(e)
  <2>1. rcv' \in [Ends -> ReceiverTypes]
    BY <1>0, <1>2 DEF LockToReceive, ReceiverTypes
  <2>2. mutex' \in [Ends -> {"free", "sender", "receiver"}]
    BY <1>2 DEF LockToReceive, TypeOK
  <2>3. QED
    BY <1>2, <2>1, <2>2 DEF LockToReceive, TypeOK, ReceiverTypes
<1>3. CASE Read(e)
  <2>1. /\ wire' \in [Ends -> Seq(Unit)] /\ \A d \in Ends : Len(wire'[d]) <= plan.cap
        /\ Foremost(e).msg \in Message
    BY <1>3, TakenTypes DEF Read
  <2>2. Foremost(e).msg.size \in 0 .. MaxLen /\ Foremost(e).msg.size \in Nat
    BY <2>1, UnitTypes
  <2>3. ExpectedAfter(Foremost(e).msg.size) \in Seq(Kinds)
    BY <2>2, SizeWritten, RestsAreLists
  <2>4. Tail(rcv[e].left) \in Seq(Kinds)
    BY <1>3, TypesOfEnd, TailOf DEF Read
  <2>5. rcv[e].msg.event \in Events /\ rcv[e].msg \in Message
    BY TypesOfEnd, UnitTypes
  <2>6. rcv' \in [Ends -> ReceiverTypes]
    <3>1. CASE Head(rcv[e].left) = "SIZE"
      <4> DEFINE m == [rcv[e].msg EXCEPT !.size = Foremost(e).msg.size]
                 l == ExpectedAfter(Foremost(e).msg.size)
                 x == [rcv[e] EXCEPT !.left = l, !.msg = m]
      <4>1. m \in Message
        <5>1. m = [event |-> rcv[e].msg.event, size |-> Foremost(e).msg.size]
          BY <2>2, <2>5, UnitTypes, Zenon
        <5>2. QED
          BY <2>2, <2>5, <5>1, UnitTypes
      <4>2. rcv' = [rcv EXCEPT ![e] = x]
        BY <1>0, <1>3, <3>1 DEF Read
      <4> HIDE DEF m, l
      <4>3. x \in ReceiverTypes
        BY <1>0, <2>3, <4>1 DEF ReceiverTypes, l
      <4> HIDE DEF x
      <4>4. QED
        BY <1>0, <4>2, <4>3
    <3>2. CASE Head(rcv[e].left) # "SIZE"
      <4> DEFINE l == Tail(rcv[e].left)
      <4>1. rcv' = [rcv EXCEPT ![e].left = l]
        BY <1>3, <3>2 DEF Read
      <4> HIDE DEF l
      <4>2. QED
        BY <1>0, <2>4, <4>1 DEF ReceiverTypes, l
    <3>3. QED
      BY <3>1, <3>2
  <2>7. QED
    BY <1>3, <2>1, <2>6 DEF Read, TypeOK, ReceiverTypes
<1>4. CASE UnlockReceived(e)
  <2>1. rcv' \in [Ends -> ReceiverTypes]
    BY <1>0, <1>4 DEF UnlockReceived, ReceiverTypes
  <2>2. mutex' \in [Ends -> {"free", "sender", "receiver"}]
    BY <1>4 DEF UnlockReceived, TypeOK
  <2>3. got' \in [Ends -> Seq(Message)]
    <3>1. rcv[e].msg \in Message /\ got[e] \in Seq(Message)
      BY TypesOfEnd
    <3>2. QED
      BY <1>4, <3>1 DEF UnlockReceived, TypeOK
  <2>4. QED
    BY <1>4, <2>1, <2>2, <2>3 DEF UnlockReceived, TypeOK, ReceiverTypes
<1>5. QED
  BY <1>1, <1>2, <1>3, <1>4 DEF ReceiverThread

\* The variables of a session keep their types, and no buffer holds more than it
\* has room for (TcpSocket.cpp, the kernel's buffers).
THEOREM TypeCorrect == Spec => []TypeOK
<1>1. Init => TypeOK
  BY InitTypes
<1>2. TypeOK /\ [Next]_vars => TypeOK'
  <2> SUFFICES ASSUME TypeOK, [Next]_vars PROVE TypeOK'
    OBVIOUS
  <2>1. CASE Next
    BY <2>1, SenderStepTypes, ReceiverStepTypes DEF Next
  <2>2. CASE UNCHANGED vars
    BY <2>2 DEF vars, TypeOK
  <2>3. QED
    BY <2>1, <2>2
<1>3. QED
  BY <1>1, <1>2, PTL DEF Spec

-----------------------------------------------------------------------------
(* Writing keeps the way *)

LEMMA LinkedEnd ==
  ASSUME NEW w \in Seq(Unit), NEW s, NEW a, NEW l, NEW event, Linked(w, s, a, l, event)
  PROVE  /\ \E p \in Pos : End(p, s, l, event)
         /\ a \in Pos /\ Sound(a, s)
<1>1. Len(w) \in Nat
  OBVIOUS
<1>2. Len(w) \in 0 .. Len(w) /\ 0 \in 0 .. Len(w)
  BY <1>1
<1>3. QED
  BY <1>2 DEF Linked

\* The event is written: a file is announced only with its size.
LEMMA EndEvent ==
  ASSUME NEW s \in Seq(Message), NEW msg \in Message, msg.event = "NEW_FILE" \/ msg.size = 0,
         NEW p \in Pos, NEW event, End(p, s, <<>>, event),
         NEW u \in Unit, u.kind = "EVENT", u.msg = msg
  PROVE  /\ u.kind = Kind(p) /\ Step(p, u) \in Pos
         /\ End(Step(p, u), IF msg.event = "NEW_FILE" THEN s ELSE Append(s, msg),
                Expected(msg.event), msg.event)
<1> DEFINE s2 == IF msg.event = "NEW_FILE" THEN s ELSE Append(s, msg)
<1>1. p.left = <<>> /\ p.n = Len(s) /\ p.n \in Nat /\ Len(s) \in Nat
  BY DEF End, Pos
<1>2. u.kind = "EVENT" /\ u.msg = msg /\ msg.event \in Events
  BY UnitTypes
<1>3. [event |-> msg.event, size |-> 0] \in Message
  BY <1>2, UnitTypes
<1>4. /\ Expected(msg.event) \in Rests /\ Expected(msg.event) # <<>>
      /\ (HasSize(Expected(msg.event)) <=> msg.event = "NEW_FILE")
  BY <1>2, EventWritten
<1> DEFINE l == Expected(msg.event)
           m == [event |-> msg.event, size |-> 0]
           q == [left |-> l, msg |-> m, n |-> p.n + (IF msg.event = "NEW_FILE" THEN 0 ELSE 1)]
<1>5. Kind(p) = "EVENT" /\ Step(p, u) = q
  BY <1>1, <1>2, StepAtEvent
<1>6. msg.event # "NEW_FILE" => m = msg
  BY DEF Message
<1>7. m.event = msg.event
  OBVIOUS
<1> HIDE DEF l, m
<1>8. q \in Pos
  BY <1>1, <1>3, <1>4 DEF Pos, l, m
<1>9. q.left = l /\ q.msg = m /\ q.n = p.n + (IF msg.event = "NEW_FILE" THEN 0 ELSE 1)
  OBVIOUS
<1> HIDE DEF q
<1>10. Len(s2) = Len(s) + (IF msg.event = "NEW_FILE" THEN 0 ELSE 1)
  <2>1. Len(Append(s, msg)) = Len(s) + 1
    OBVIOUS
  <2>2. QED
    BY <1>1, <2>1
<1>11. q.n = Len(s2) /\ Len(s2) \in Nat
  BY <1>1, <1>9, <1>10
<1>12. msg.event # "NEW_FILE" => q.n > 0 /\ q.msg = s2[q.n]
  <2> SUFFICES ASSUME msg.event # "NEW_FILE" PROVE q.n > 0 /\ q.msg = s2[q.n]
    OBVIOUS
  <2>1. q.n = Len(s) + 1 /\ s2 = Append(s, msg)
    BY <1>1, <1>9
  <2>2. Append(s, msg)[Len(s) + 1] = msg
    OBVIOUS
  <2>3. QED
    BY <1>1, <1>6, <1>9, <2>1, <2>2
<1>13. Sound(q, s2)
  BY <1>4, <1>7, <1>9, <1>11, <1>12 DEF Sound, l
<1>14. QED
  BY <1>2, <1>5, <1>7, <1>8, <1>9, <1>11, <1>13 DEF End, l

\* The size is written, and with it the file is announced.
LEMMA EndSize ==
  ASSUME NEW s \in Seq(Message), NEW event \in Events, NEW n \in 0 .. MaxLen,
         NEW l \in Rests, l # <<>>, Head(l) = "SIZE",
         NEW p \in Pos, End(p, s, l, event),
         NEW u \in Unit, u = [kind |-> "SIZE", msg |-> [event |-> event, size |-> n]]
  PROVE  /\ event = "NEW_FILE" /\ u.kind = Kind(p) /\ Step(p, u) \in Pos
         /\ End(Step(p, u), Append(s, [event |-> event, size |-> n]), ExpectedAfter(n), event)
<1>1. /\ p.left = l /\ p.n = Len(s) /\ p.n \in Nat /\ Len(s) \in Nat /\ p.msg.event = event
      /\ HasSize(p.left) => p.msg.event = "NEW_FILE"
  BY DEF End, Pos, Sound
<1>2. event = "NEW_FILE"
  BY <1>1, NextOfRest
<1> DEFINE m == [event |-> event, size |-> n]
<1>3. u.kind = "SIZE" /\ u.msg = m /\ u.msg.size = n /\ m.event = event
  OBVIOUS
<1>4. m \in Message /\ n \in Nat
  BY UnitTypes, PlansAssumption
<1> HIDE DEF m
<1>5. ExpectedAfter(n) \in Rests /\ ~HasSize(ExpectedAfter(n)) /\ ExpectedAfter(n) # <<>>
  BY <1>4, SizeWritten
<1> DEFINE q == [left |-> ExpectedAfter(n), msg |-> m, n |-> p.n + 1]
<1>6. Kind(p) = "SIZE" /\ Step(p, u) = q
  BY <1>1, <1>3, StepAtSize DEF m
<1>7. q \in Pos
  BY <1>1, <1>4, <1>5 DEF Pos
<1>8. q.left = ExpectedAfter(n) /\ q.msg = m /\ q.n = p.n + 1
  OBVIOUS
<1> HIDE DEF q
<1>9. Len(Append(s, m)) = Len(s) + 1 /\ Append(s, m)[Len(s) + 1] = m
  BY <1>4
<1>10. Sound(q, Append(s, m))
  BY <1>1, <1>5, <1>8, <1>9 DEF Sound
<1>11. End(q, Append(s, m), ExpectedAfter(n), event)
  BY <1>1, <1>3, <1>8, <1>9, <1>10 DEF End
<1>12. QED
  BY <1>2, <1>3, <1>6, <1>7, <1>11 DEF m

\* Any other unit brings the sender nearer to the end of the message.
LEMMA EndRest ==
  ASSUME NEW s \in Seq(Message), NEW event, NEW l \in Rests, l # <<>>, Head(l) # "SIZE",
         NEW p \in Pos, End(p, s, l, event), NEW u \in Unit, u.kind = Head(l)
  PROVE  u.kind = Kind(p) /\ Step(p, u) \in Pos /\ End(Step(p, u), s, Tail(l), event)
<1>1. p.left = l /\ p.n = Len(s) /\ p.n \in Nat /\ p.msg \in Message /\ p.msg.event = event /\ Sound(p, s)
  BY DEF End, Pos
<1>2. Head(l) \notin {"EVENT", "SIZE"} /\ Tail(l) \in Rests /\ (HasSize(Tail(l)) <=> HasSize(l))
  BY NextOfRest
<1> DEFINE t == Tail(l)
           q == [left |-> t, msg |-> p.msg, n |-> p.n]
<1>3. Kind(p) = Head(l) /\ Step(p, u) = q
  BY <1>1, <1>2, StepElsewhere
<1> HIDE DEF t
<1>4. q \in Pos
  BY <1>1, <1>2 DEF Pos, t
<1>5. q.left = t /\ q.msg = p.msg /\ q.n = p.n
  OBVIOUS
<1> HIDE DEF q
<1>6. Sound(q, s)
  <2>1. ~HasSize(l) => p.n > 0
    BY <1>1 DEF Sound
  <2>2. QED
    BY <1>1, <1>2, <1>5, <2>1 DEF Sound, t
<1>7. QED
  BY <1>1, <1>3, <1>4, <1>5, <1>6 DEF End, t

LEMMA AnnouncedLonger ==
  ASSUME NEW s \in Seq(Message), NEW g \in Seq(Message), Announced(s, g), NEW msg \in Message
  PROVE  Announced(Append(s, msg), g)
<1>1. Len(Append(s, msg)) = Len(s) + 1 /\ \A i \in 1 .. Len(s) : Append(s, msg)[i] = s[i]
  OBVIOUS
<1>2. Len(s) \in Nat /\ Len(g) \in Nat
  OBVIOUS
<1>3. \A i \in 1 .. Len(g) : i \in 1 .. Len(s)
  BY <1>2 DEF Announced
<1>4. QED
  BY <1>1, <1>2, <1>3 DEF Announced

\* A list that begins with an event is none that is left behind one.
LEMMA RestsNotWritten ==
  ASSUME NEW l \in Rests, NEW event \in Events
  PROVE  l # Written(event) /\ (l # <<>> => Head(l) # "EVENT")
<1>1. l # <<>> => Head(l) # "EVENT"
  BY NextOfRest
<1>2. Written(event) # <<>> /\ Head(Written(event)) = "EVENT"
  BY EventWritten
<1>3. QED
  BY <1>1, <1>2

LEMMA PendingIs ==
  ASSUME NEW e \in Ends, NEW event \in Events
  PROVE  /\ snd[e].left \in Rests => Pending(e) = snd[e].left
         /\ snd[e].left = Written(event) => Pending(e) = <<>>
<1>1. Written(event) # <<>> /\ Head(Written(event)) = "EVENT"
  BY EventWritten
<1>2. ASSUME snd[e].left \in Rests PROVE Pending(e) = snd[e].left
  BY <1>2, RestsNotWritten DEF Pending
<1>3. QED
  BY <1>1, <1>2 DEF Pending

\* How a Write changes the end that writes, by the unit it writes.
LEMMA WriteOf ==
  ASSUME TypeOK, NEW e \in Ends, Write(e)
  PROVE  /\ rcv' = rcv /\ got' = got /\ queue' = queue /\ snd'[e].at = "write"
         /\ snd[e].at = "write" /\ snd[e].left # <<>>
         /\ \A d \in Ends : d # e => snd'[d] = snd[d] /\ wire'[d] = wire[d] /\ sent'[d] = sent[d]
         /\ LET kind == Head(snd[e].left)
                msg == IF kind = "SIZE" THEN [event |-> snd[e].msg.event, size |-> len[e]]
                       ELSE snd[e].msg
            IN  /\ snd'[e].msg = msg
                /\ snd'[e].left = Tail(snd[e].left)
                       \o (IF kind = "SIZE" THEN WrittenAfter(len[e], len[e]) ELSE <<>>)
                /\ wire'[e] = Append(wire[e], [kind |-> kind, msg |-> msg])
                /\ sent'[e] = IF kind = IF msg.event = "NEW_FILE" THEN "SIZE" ELSE "EVENT"
                              THEN Append(sent[e], msg) ELSE sent[e]
                /\ kind \in Kinds /\ msg \in Message /\ [kind |-> kind, msg |-> msg] \in Unit
<1> DEFINE kind == Head(snd[e].left)
           m == [event |-> snd[e].msg.event, size |-> len[e]]
           msg == IF kind = "SIZE" THEN m ELSE snd[e].msg
           left == Tail(snd[e].left)
                       \o (IF kind = "SIZE" THEN WrittenAfter(len[e], len[e]) ELSE <<>>)
           announced == kind = IF msg.event = "NEW_FILE" THEN "SIZE" ELSE "EVENT"
<1>1. /\ snd[e].left \in Seq(Kinds) /\ snd[e].msg \in Message /\ len[e] \in 0 .. MaxLen
  BY TypesOfEnd
<1>2. [snd[e].msg EXCEPT !.size = len[e]] = m /\ m \in Message
  <2>1. [snd[e].msg EXCEPT !.size = len[e]] = m
    BY <1>1, UnitTypes, Zenon
  <2>2. QED
    BY <1>1, <2>1, UnitTypes
<1>3. snd[e].left # <<>> /\ kind \in Kinds
  BY <1>1, TailOf DEF Write
<1>4. msg \in Message
  BY <1>1, <1>2
<1>5. (IF kind = "SIZE" THEN [snd[e].msg EXCEPT !.size = len[e]] ELSE snd[e].msg) = msg
  BY <1>2
<1>6. /\ snd' = [snd EXCEPT ![e].left = left, ![e].msg = msg]
      /\ wire' = [wire EXCEPT ![e] = Append(@, [kind |-> kind, msg |-> msg])]
      /\ sent' = [sent EXCEPT ![e] = IF announced THEN Append(@, msg) ELSE @]
      /\ UNCHANGED <<plan, queue, mutex, rcv, len, got>>
      /\ snd[e].at = "write"
  BY <1>5, Zenon DEF Write
<1> HIDE DEF kind, m, msg, left, announced
<1>7. [kind |-> kind, msg |-> msg] \in Unit
  BY <1>3, <1>4 DEF Unit
<1>8. /\ snd'[e].at = "write" /\ snd'[e].left = left /\ snd'[e].msg = msg
      /\ \A d \in Ends : d # e => snd'[d] = snd[d]
  <2>1. snd \in [Ends -> SenderTypes]
    BY DEF TypeOK, SenderTypes
  <2>2. QED
    BY <1>6, <2>1 DEF SenderTypes
<1>9. /\ wire'[e] = Append(wire[e], [kind |-> kind, msg |-> msg])
      /\ sent'[e] = IF announced THEN Append(sent[e], msg) ELSE sent[e]
      /\ \A d \in Ends : d # e => wire'[d] = wire[d] /\ sent'[d] = sent[d]
  BY <1>6 DEF TypeOK
<1>10. QED
  BY <1>3, <1>4, <1>6, <1>7, <1>8, <1>9 DEF kind, m, msg, left, announced

LEMMA WriteWay ==
  ASSUME IInv, NEW e \in Ends, Write(e)
  PROVE  Way(e)' /\ snd'[e].left \in Rests
<1> DEFINE r == Peer(e)
           kind == Head(snd[e].left)
           v == snd[e].msg.event
           msg == IF kind = "SIZE" THEN [event |-> v, size |-> len[e]] ELSE snd[e].msg
           u == [kind |-> kind, msg |-> msg]
<1>1. TypeOK /\ Shapes(e) /\ Way(e) /\ r \in Ends
  BY PeerOfPeer DEF IInv
<1>2. /\ rcv' = rcv /\ got' = got /\ queue' = queue /\ snd'[e].at = "write"
      /\ snd[e].at = "write" /\ snd[e].left # <<>>
      /\ snd'[e].msg = msg
      /\ snd'[e].left = Tail(snd[e].left)
                       \o (IF kind = "SIZE" THEN WrittenAfter(len[e], len[e]) ELSE <<>>)
      /\ wire'[e] = Append(wire[e], u)
      /\ sent'[e] = IF kind = IF msg.event = "NEW_FILE" THEN "SIZE" ELSE "EVENT"
                    THEN Append(sent[e], msg) ELSE sent[e]
      /\ kind \in Kinds /\ msg \in Message /\ u \in Unit
  BY <1>1, WriteOf
<1>3. /\ wire[e] \in Seq(Unit) /\ sent[e] \in Seq(Message) /\ got[r] \in Seq(Message)
      /\ len[e] \in 0 .. MaxLen /\ len[e] \in Nat /\ snd[e].msg \in Message /\ v \in Events
  BY <1>1, TypesOfEnd, UnitTypes, PlansAssumption
<1>4. Here(r)' = Here(r)
  BY <1>2 DEF Here
<1>5. Linked(wire[e], sent[e], Here(r), Pending(e), v) /\ Announced(sent[e], got[r])
  BY <1>1 DEF Way
<1>6. Announced(sent'[e], got'[r])
  BY <1>2, <1>3, <1>5, AnnouncedLonger
<1>7. \A p \in Pos : Sound(p, sent[e]) => Sound(p, sent'[e])
  BY <1>2, <1>3, SoundLonger
\* It remains to show that the sender is where the unit leads to.
<1>8. ASSUME snd'[e].left \in Rests,
             \A p \in Pos : End(p, sent[e], Pending(e), v) =>
                 u.kind = Kind(p) /\ Step(p, u) \in Pos /\ End(Step(p, u), sent'[e], snd'[e].left, v)
      PROVE  Way(e)' /\ snd'[e].left \in Rests
  <2> HIDE DEF u, v
  <2>1. Linked(Append(wire[e], u), sent'[e], Here(r), snd'[e].left, v)
    BY <1>2, <1>3, <1>5, <1>7, <1>8, LinkedAppend
  <2>2. Pending(e)' = snd'[e].left
    <3>1. snd'[e].left # <<>> => Head(snd'[e].left) # "EVENT"
      BY <1>3, <1>8, RestsNotWritten
    <3>2. QED
      BY <3>1 DEF Pending
  <2>3. snd'[e].msg.event = v
    BY <1>2 DEF v
  <2>4. QED
    BY <1>2, <1>4, <1>6, <1>8, <2>1, <2>2, <2>3 DEF Way
<1>9. snd[e].left = Written(v) \/ snd[e].left \in Rests
  BY <1>1, <1>2 DEF Shapes
<1>10. \A l \in Seq(Kinds) : l \o <<>> = l /\ <<>> \o l = l
  OBVIOUS
<1>11. CASE snd[e].left = Written(v)
  <2>1. /\ kind = "EVENT" /\ Tail(snd[e].left) = Expected(v) /\ Pending(e) = <<>>
        /\ Expected(v) \in Rests /\ Expected(v) \in Seq(Kinds)
    BY <1>3, <1>11, EventWritten, PendingIs, RestsAreLists
  <2>2. msg = snd[e].msg
    BY <2>1
  <2>3. snd'[e].left = Expected(v)
    BY <1>2, <1>10, <2>1
  <2>4. sent'[e] = IF msg.event = "NEW_FILE" THEN sent[e] ELSE Append(sent[e], msg)
    BY <1>2, <2>1
  <2>5. msg.event = "NEW_FILE" \/ msg.size = 0
    BY <1>1, <1>11, <2>2 DEF Shapes
  <2>6. u = [kind |-> "EVENT", msg |-> msg] /\ msg.event = v
    BY <2>1, <2>2
  <2> HIDE DEF u, msg, v
  <2>7. \A p \in Pos : End(p, sent[e], Pending(e), v) =>
            u.kind = Kind(p) /\ Step(p, u) \in Pos /\ End(Step(p, u), sent'[e], snd'[e].left, v)
    <3> SUFFICES ASSUME NEW p \in Pos, End(p, sent[e], <<>>, v)
                 PROVE  /\ u.kind = Kind(p) /\ Step(p, u) \in Pos
                        /\ End(Step(p, u), sent'[e], Expected(msg.event), msg.event)
      BY <2>1, <2>3, <2>6
    <3>1. /\ sent[e] \in Seq(Message) /\ msg \in Message /\ u \in Unit
          /\ u.kind = "EVENT" /\ u.msg = msg /\ (msg.event = "NEW_FILE" \/ msg.size = 0)
      BY <1>2, <1>3, <2>5, <2>6
    <3>2. /\ u.kind = Kind(p) /\ Step(p, u) \in Pos
          /\ End(Step(p, u), IF msg.event = "NEW_FILE" THEN sent[e] ELSE Append(sent[e], msg),
                 Expected(msg.event), msg.event)
      BY <3>1, EndEvent
    <3>3. QED
      BY <2>4, <3>2
  <2>8. QED
    BY <1>8, <2>1, <2>3, <2>7
<1>12. CASE snd[e].left \in Rests /\ kind = "SIZE"
  <2>1. Tail(snd[e].left) = <<>> /\ Pending(e) = snd[e].left
    BY <1>2, <1>3, <1>12, NextOfRest, PendingIs
  <2>2. /\ WrittenAfter(len[e], len[e]) = ExpectedAfter(len[e])
        /\ ExpectedAfter(len[e]) \in Rests /\ ExpectedAfter(len[e]) \in Seq(Kinds)
    BY <1>3, SizeWritten, RestsAreLists
  <2>3. snd'[e].left = ExpectedAfter(len[e])
    BY <1>2, <1>10, <1>12, <2>1, <2>2
  <2>4. u = [kind |-> "SIZE", msg |-> [event |-> v, size |-> len[e]]]
        /\ msg = [event |-> v, size |-> len[e]] /\ msg.event = v
    BY <1>12
  <2>5. PICK p \in Pos : End(p, sent[e], Pending(e), v)
    BY <1>3, <1>5, LinkedEnd
  <2> HIDE DEF u, v
  <2>6. v = "NEW_FILE"
    <3>1. End(p, sent[e], snd[e].left, v)
      BY <2>1, <2>5
    <3>2. QED
      BY <1>2, <1>3, <1>12, <2>4, <3>1, EndSize
  <2>7. sent'[e] = Append(sent[e], [event |-> v, size |-> len[e]])
    BY <1>2, <1>12, <2>4, <2>6
  <2>8. \A q \in Pos : End(q, sent[e], Pending(e), v) =>
            u.kind = Kind(q) /\ Step(q, u) \in Pos /\ End(Step(q, u), sent'[e], snd'[e].left, v)
    <3> SUFFICES ASSUME NEW q \in Pos, End(q, sent[e], snd[e].left, v)
                 PROVE  /\ u.kind = Kind(q) /\ Step(q, u) \in Pos
                        /\ End(Step(q, u), Append(sent[e], [event |-> v, size |-> len[e]]),
                               ExpectedAfter(len[e]), v)
      BY <2>1, <2>3, <2>7
    <3>1. QED
      BY <1>2, <1>3, <1>12, <2>4, EndSize
  <2>9. QED
    BY <1>8, <2>2, <2>3, <2>8
<1>13. CASE snd[e].left \in Rests /\ kind # "SIZE"
  <2>1. Tail(snd[e].left) \in Rests /\ Tail(snd[e].left) \in Seq(Kinds) /\ Pending(e) = snd[e].left
    BY <1>2, <1>3, <1>13, NextOfRest, PendingIs, RestsAreLists
  <2>2. snd'[e].left = Tail(snd[e].left)
    BY <1>2, <1>10, <1>13, <2>1
  <2>3. kind # "EVENT"
    BY <1>2, <1>3, <1>13, RestsNotWritten
  <2>4. sent'[e] = sent[e]
    BY <1>2, <1>13, <2>3
  <2>5. u.kind = kind
    OBVIOUS
  <2> HIDE DEF u, v, msg
  <2>6. \A p \in Pos : End(p, sent[e], Pending(e), v) =>
            u.kind = Kind(p) /\ Step(p, u) \in Pos /\ End(Step(p, u), sent'[e], snd'[e].left, v)
    <3> SUFFICES ASSUME NEW p \in Pos, End(p, sent[e], snd[e].left, v)
                 PROVE  /\ u.kind = Kind(p) /\ Step(p, u) \in Pos
                        /\ End(Step(p, u), sent[e], Tail(snd[e].left), v)
      BY <2>1, <2>2, <2>4
    <3>1. QED
      BY <1>2, <1>3, <1>13, <2>5, EndRest
  <2>7. QED
    BY <1>8, <2>1, <2>2, <2>6
<1>14. QED
  BY <1>9, <1>11, <1>12, <1>13

-----------------------------------------------------------------------------
(* The steps of a sender *)

\* A sender that goes on without writing stays where it is.
LEMMA SenderStays ==
  ASSUME NEW e \in Ends, Way(e), Pending(e)' = Pending(e),
         Pending(e) = <<>> \/ snd'[e].msg = snd[e].msg,
         wire' = wire, sent' = sent, rcv' = rcv, got' = got
  PROVE  Way(e)'
<1>1. Here(Peer(e))' = Here(Peer(e))
  BY DEF Here
<1>2. Linked(wire[e], sent[e], Here(Peer(e)), Pending(e), snd'[e].msg.event)
  BY LinkedNext DEF Way
<1>3. QED
  BY <1>1, <1>2 DEF Way

LEMMA SenderStep ==
  ASSUME IInv, NEW e \in Ends, SenderThread(e) \/ Resize(e)
  PROVE  Shapes(e)' /\ Way(e)'
<1>1. /\ TypeOK /\ Shapes(e) /\ Way(e) /\ snd \in [Ends -> SenderTypes]
      /\ queue \in [Ends -> Seq(Message)] /\ snd[e].msg.event \in Events
  BY TypesOfEnd, UnitTypes DEF IInv, TypeOK, SenderTypes
<1>2. CASE Dequeue(e)
  <2> DEFINE h == Head(queue[e])
             t == Tail(queue[e])
  <2>1. /\ snd'[e] = [at |-> "lock", left |-> Written(h.event), msg |-> h] /\ queue'[e] = t
        /\ wire' = wire /\ sent' = sent /\ rcv' = rcv /\ got' = got
        /\ snd[e].at = "dequeue" /\ queue[e] # <<>>
    BY <1>1, <1>2 DEF Dequeue
  <2>2. /\ queue[e] \in Seq(Message) /\ h.event \in Events
        /\ Len(queue[e]) \in Nat /\ Len(queue[e]) > 0 /\ h = queue[e][1] /\ Len(t) = Len(queue[e]) - 1
        /\ \A i \in 1 .. Len(queue[e]) - 1 : t[i] = queue[e][i + 1]
    BY <1>1, <2>1, TypesOfEnd, FromQueue, TailOf
  <2> HIDE DEF h, t
  <2>3. \A i \in 1 .. Len(queue[e]) : queue[e][i].event = "NEW_FILE" \/ queue[e][i].size = 0
    BY <1>1 DEF Shapes
  <2>4. h.event = "NEW_FILE" \/ h.size = 0
    <3>1. 1 \in 1 .. Len(queue[e])
      BY <2>2
    <3>2. QED
      BY <2>2, <2>3, <3>1
  <2>5. \A i \in 1 .. Len(t) : t[i].event = "NEW_FILE" \/ t[i].size = 0
    <3>1. \A i \in 1 .. Len(t) : i + 1 \in 1 .. Len(queue[e]) /\ t[i] = queue[e][i + 1]
      BY <2>2
    <3>2. QED
      BY <2>3, <3>1
  <2>6. Shapes(e)'
    BY <1>1, <2>1, <2>4, <2>5 DEF Shapes
  <2>7. Pending(e) = <<>>
    BY <1>1, <2>1 DEF Shapes, Pending
  <2>8. Pending(e)' = <<>>
    <3>1. Head(Written(h.event)) = "EVENT"
      BY <2>2, EventWritten
    <3>2. QED
      BY <2>1, <3>1 DEF Pending
  <2>9. QED
    BY <1>1, <2>1, <2>6, <2>7, <2>8, SenderStays
<1>3. CASE LockToSend(e)
  <2>1. /\ snd'[e].left = snd[e].left /\ snd'[e].msg = snd[e].msg /\ snd'[e].at = "write"
        /\ wire' = wire /\ sent' = sent /\ rcv' = rcv /\ got' = got /\ queue' = queue
        /\ snd[e].at = "lock"
    BY <1>1, <1>3 DEF LockToSend, SenderTypes
  <2>2. Shapes(e)'
    BY <1>1, <2>1 DEF Shapes
  <2>3. Pending(e)' = Pending(e)
    BY <2>1 DEF Pending
  <2>4. QED
    BY <1>1, <2>1, <2>2, <2>3, SenderStays
<1>4. CASE Write(e)
  <2>1. Way(e)' /\ snd'[e].left \in Rests
    BY <1>4, WriteWay
  <2>2. /\ rcv' = rcv /\ queue' = queue /\ snd'[e].at = "write"
        /\ snd'[e].msg.event \in Events
    <3>1. rcv' = rcv /\ queue' = queue /\ snd'[e].at = "write" /\ snd'[e].msg \in Message
      BY <1>1, <1>4, WriteOf
    <3>2. QED
      BY <3>1, UnitTypes
  <2>3. snd'[e].left # Written(snd'[e].msg.event)
    BY <2>1, <2>2, RestsNotWritten
  <2>4. Shapes(e)'
    BY <1>1, <2>1, <2>2, <2>3 DEF Shapes
  <2>5. QED
    BY <2>1, <2>4
<1>5. CASE UnlockSent(e)
  <2>1. /\ snd'[e].left = snd[e].left /\ snd'[e].msg = snd[e].msg /\ snd'[e].at = "dequeue"
        /\ wire' = wire /\ sent' = sent /\ rcv' = rcv /\ got' = got /\ queue' = queue
        /\ snd[e].left = <<>>
    BY <1>1, <1>5 DEF UnlockSent, SenderTypes
  <2>2. Shapes(e)'
    BY <1>1, <2>1 DEF Shapes
  <2>3. Pending(e)' = Pending(e)
    BY <2>1 DEF Pending
  <2>4. QED
    BY <1>1, <2>1, <2>2, <2>3, SenderStays
<1>6. CASE Resize(e)
  <2>1. snd' = snd /\ wire' = wire /\ sent' = sent /\ rcv' = rcv /\ got' = got /\ queue' = queue
    BY <1>6 DEF Resize
  <2>2. Shapes(e)'
    BY <1>1, <2>1, ShapesUnchanged
  <2>3. Pending(e)' = Pending(e)
    BY <2>1 DEF Pending
  <2>4. QED
    BY <1>1, <2>1, <2>2, <2>3, SenderStays
<1>7. QED
  BY <1>2, <1>3, <1>4, <1>5, <1>6 DEF SenderThread

-----------------------------------------------------------------------------
(* The steps of a receiver *)

\* What arrives is of the kind the receiver expects, and takes it one step further.
LEMMA ReadUnit ==
  ASSUME IInv, NEW e \in Ends, Arrived(e), Taken(e), sent' = sent, snd' = snd, got' = got
  PROVE  /\ Foremost(e).kind = Kind(Here(e)) /\ Foremost(e) \in Unit
         /\ Here(e)' = Step(Here(e), Foremost(e)) => Way(Peer(e))'
<1> DEFINE d == Peer(e)
           w == wire[d]
<1>1. d \in Ends /\ Peer(d) = e /\ TypeOK /\ Way(d)
  BY PeerOfPeer DEF IInv
<1>2. w \in Seq(Unit) /\ w # <<>> /\ Foremost(e) = Head(w) /\ wire'[d] = Tail(w)
  BY <1>1 DEF TypeOK, Arrived, Foremost, Taken
<1>3. Linked(w, sent[d], Here(e), Pending(d), snd[d].msg.event) /\ Announced(sent[d], got[e])
  BY <1>1 DEF Way
<1>4. Pending(d)' = Pending(d)
  BY DEF Pending
<1> HIDE DEF d, w
<1>5. /\ Head(w).kind = Kind(Here(e))
      /\ Linked(Tail(w), sent[d], Step(Here(e), Head(w)), Pending(d), snd[d].msg.event)
  BY <1>2, <1>3, LinkedTail
<1>6. Head(w) \in Unit
  BY <1>2, TailOf
<1>7. ASSUME Here(e)' = Step(Here(e), Foremost(e)) PROVE Way(d)'
  BY <1>1, <1>2, <1>3, <1>4, <1>5, <1>7 DEF Way
<1>8. QED
  BY <1>2, <1>5, <1>6, <1>7 DEF d

LEMMA ReceiverStep ==
  ASSUME IInv, NEW e \in Ends, ReceiverThread(e)
  PROVE  Shapes(e)' /\ Way(Peer(e))'
<1> DEFINE u == Foremost(e)
<1>1. /\ TypeOK /\ Shapes(e) /\ rcv \in [Ends -> ReceiverTypes] /\ rcv[e] \in ReceiverTypes
      /\ rcv[e].msg \in Message /\ got[e] \in Seq(Message) /\ Len(got[e]) \in Nat
      /\ rcv[e].left \in Rests
  BY TypesOfEnd DEF IInv, TypeOK, ReceiverTypes, Shapes
<1>2. Here(e).left = rcv[e].left /\ Here(e).msg = rcv[e].msg
      /\ Here(e).n = Len(got[e]) + (IF rcv[e].at = "event" \/ HasSize(rcv[e].left) THEN 0 ELSE 1)
  BY DEF Here
<1>3. CASE ReadEvent(e)
  <2> DEFINE l == Expected(u.msg.event)
             m == [event |-> u.msg.event, size |-> 0]
  <2>1. /\ snd' = snd /\ sent' = sent /\ got' = got /\ queue' = queue
        /\ rcv[e].at = "event" /\ Arrived(e) /\ Taken(e)
    BY <1>3 DEF ReadEvent
  <2>2. rcv[e].left = <<>>
    BY <1>1, <2>1 DEF Shapes
  <2>3. u.kind = Kind(Here(e)) /\ u \in Unit
    BY <2>1, ReadUnit
  <2>4. /\ u.kind = "EVENT" /\ u.msg.event \in Events
        /\ Step(Here(e), u) = [left |-> l, msg |-> m,
               n |-> Here(e).n + (IF u.msg.event = "NEW_FILE" THEN 0 ELSE 1)]
    BY <1>2, <2>2, <2>3, StepAtEvent, UnitTypes
  <2>5. l \in Rests /\ (HasSize(l) <=> u.msg.event = "NEW_FILE")
    BY <2>4, EventWritten
  <2>6. rcv'[e] = [at |-> "lock", left |-> l, msg |-> m]
    <3> DEFINE x == [at |-> "lock", left |-> l, msg |-> m]
    <3>1. rcv' = [rcv EXCEPT ![e] = IF u.kind = "EVENT" THEN x ELSE [@ EXCEPT !.at = "dead"]]
      BY <1>3 DEF ReadEvent
    <3> HIDE DEF x, u
    <3>2. rcv'[e] = x
      BY <1>1, <2>4, <3>1
    <3>3. QED
      BY <3>2 DEF x
  <2> HIDE DEF u, l, m
  <2>7. Shapes(e)'
    BY <1>1, <2>1, <2>5, <2>6 DEF Shapes
  <2>8. Here(e)' = [left |-> l, msg |-> m, n |-> Len(got[e]) + (IF HasSize(l) THEN 0 ELSE 1)]
    BY <2>1, <2>6 DEF Here
  <2>9. Here(e).n = Len(got[e])
    BY <1>1, <1>2, <2>1
  <2>10. Here(e)' = Step(Here(e), u)
    <3> DEFINE n1 == Here(e).n + (IF u.msg.event = "NEW_FILE" THEN 0 ELSE 1)
               n2 == Len(got[e]) + (IF HasSize(l) THEN 0 ELSE 1)
    <3>1. n1 = n2
      BY <2>5, <2>9
    <3>2. /\ Step(Here(e), u) = [left |-> l, msg |-> m, n |-> n1]
          /\ Here(e)' = [left |-> l, msg |-> m, n |-> n2]
      BY <2>4, <2>8
    <3> HIDE DEF n1, n2
    <3>3. QED
      BY <3>1, <3>2
  <2>11. QED
    BY <2>1, <2>7, <2>10, ReadUnit DEF u
<1>4. CASE LockToReceive(e)
  <2>1. /\ snd' = snd /\ sent' = sent /\ got' = got /\ queue' = queue /\ wire' = wire
        /\ rcv[e].at = "lock" /\ rcv'[e].at = "read" /\ rcv'[e].left = rcv[e].left
        /\ rcv'[e].msg = rcv[e].msg
    BY <1>1, <1>4 DEF LockToReceive, ReceiverTypes
  <2>2. Here(e)' = Here(e)
    BY <2>1 DEF Here
  <2>3. Way(Peer(e)) /\ Peer(Peer(e)) = e
    BY PeerOfPeer DEF IInv
  <2>4. Pending(Peer(e))' = Pending(Peer(e))
    BY <2>1 DEF Pending
  <2>5. Shapes(e)'
    BY <1>1, <2>1 DEF Shapes
  <2>6. QED
    BY <2>1, <2>2, <2>3, <2>4, <2>5 DEF Way
<1>5. CASE Read(e)
  <2>1. /\ snd' = snd /\ sent' = sent /\ got' = got /\ queue' = queue
        /\ rcv[e].at = "read" /\ Arrived(e) /\ Taken(e) /\ rcv[e].left # <<>>
    BY <1>5 DEF Read
  <2>2. u.kind = Kind(Here(e)) /\ u \in Unit /\ u.msg.size \in Nat /\ u.msg.size \in 0 .. MaxLen
    BY <2>1, ReadUnit, UnitTypes
  <2>3. CASE Head(rcv[e].left) = "SIZE"
    <3> DEFINE l == ExpectedAfter(u.msg.size)
               m == [event |-> rcv[e].msg.event, size |-> u.msg.size]
    <3>1. HasSize(rcv[e].left)
      BY <1>1, <2>1, <2>3, NextOfRest
    <3>2. l \in Rests /\ ~HasSize(l)
      BY <2>2, SizeWritten
    <3>3. Step(Here(e), u) = [left |-> l, msg |-> m, n |-> Here(e).n + 1]
      BY <1>2, <2>1, <2>2, <2>3, StepAtSize
    <3>4. [rcv[e].msg EXCEPT !.size = u.msg.size] = m
      BY <1>1, <2>2, UnitTypes, Zenon
    <3>5. rcv'[e].at = "read" /\ rcv'[e].left = l /\ rcv'[e].msg = [rcv[e].msg EXCEPT !.size = u.msg.size]
      BY <1>1, <1>5, <2>1, <2>3 DEF Read, ReceiverTypes
    <3> HIDE DEF u, l, m
    <3>6. Shapes(e)'
      BY <1>1, <2>1, <3>2, <3>5 DEF Shapes
    <3>7. Here(e)' = [left |-> l, msg |-> m, n |-> Len(got[e]) + 1]
      BY <2>1, <3>2, <3>4, <3>5 DEF Here
    <3>8. Here(e).n = Len(got[e])
      BY <1>1, <1>2, <3>1
    <3>9. Here(e)' = Step(Here(e), u)
      BY <3>3, <3>7, <3>8
    <3>10. QED
      BY <2>1, <3>6, <3>9, ReadUnit DEF u
  <2>4. CASE Head(rcv[e].left) # "SIZE"
    <3> DEFINE l == Tail(rcv[e].left)
    <3>1. l \in Rests /\ (HasSize(l) <=> HasSize(rcv[e].left)) /\ Head(rcv[e].left) # "EVENT"
      BY <1>1, <2>1, <2>4, NextOfRest
    <3>2. Step(Here(e), u) = [left |-> l, msg |-> rcv[e].msg, n |-> Here(e).n]
      BY <1>2, <2>1, <2>2, <2>4, <3>1, StepElsewhere
    <3>3. rcv'[e].at = "read" /\ rcv'[e].left = l /\ rcv'[e].msg = rcv[e].msg
      BY <1>1, <1>5, <2>1, <2>4 DEF Read, ReceiverTypes
    <3> HIDE DEF u, l
    <3>4. Shapes(e)'
      BY <1>1, <2>1, <3>1, <3>3 DEF Shapes
    <3>5. Here(e)' = [left |-> l, msg |-> rcv[e].msg, n |-> Here(e).n]
      BY <1>2, <2>1, <3>1, <3>3 DEF Here
    <3>6. QED
      BY <2>1, <3>2, <3>4, <3>5, ReadUnit DEF u
  <2>5. QED
    BY <2>3, <2>4
<1>6. CASE UnlockReceived(e)
  <2> DEFINE d == Peer(e)
             s == sent[d]
             g == got[e]
             x == rcv[e].msg
  <2>1. /\ snd' = snd /\ sent' = sent /\ got'[e] = Append(g, x) /\ queue' = queue /\ wire' = wire
        /\ rcv[e].at = "read" /\ rcv[e].left = <<>>
        /\ rcv'[e].at = "event" /\ rcv'[e].left = <<>> /\ rcv'[e].msg = rcv[e].msg
    BY <1>1, <1>6 DEF UnlockReceived, ReceiverTypes, TypeOK
  <2>2. d \in Ends /\ Peer(d) = e /\ Way(d) /\ wire[d] \in Seq(Unit)
    BY PeerOfPeer, <1>1, TypesOfEnd DEF IInv
  <2>3. ~HasSize(rcv[e].left)
    BY <2>1 DEF HasSize
  <2>4. Linked(wire[d], s, Here(e), Pending(d), snd[d].msg.event) /\ Announced(s, g)
    BY <2>2 DEF Way
  <2>5. Sound(Here(e), s)
    BY <2>2, <2>4, LinkedEnd
  <2>6. Here(e).n = Len(g) + 1
    BY <1>2, <2>1, <2>3
  <2>7. Len(g) + 1 <= Len(s) /\ x = s[Len(g) + 1]
    <3>1. /\ Here(e).n <= Len(s)
          /\ ~HasSize(Here(e).left) /\ Here(e).n > 0 => Here(e).msg = s[Here(e).n]
      BY <2>5 DEF Sound
    <3>2. Here(e).n > 0
      BY <1>1, <2>6
    <3> HIDE DEF s, g, x
    <3>3. Here(e).msg = s[Here(e).n]
      BY <1>2, <2>3, <3>1, <3>2
    <3>4. QED
      BY <1>2, <2>6, <3>1, <3>3 DEF x
  <2> HIDE DEF d, s, g, x
  <2>8. /\ Len(Append(g, x)) = Len(g) + 1 /\ Append(g, x)[Len(g) + 1] = x
        /\ \A i \in 1 .. Len(g) : Append(g, x)[i] = g[i]
    BY <1>1 DEF g, x
  <2>9. Announced(s, Append(g, x))
    <3>1. \A i \in 1 .. Len(g) + 1 : i \in 1 .. Len(g) \/ i = Len(g) + 1
      BY <1>1 DEF g
    <3>2. QED
      BY <2>4, <2>7, <2>8, <3>1 DEF Announced
  <2>10. Here(e)' = Here(e)
    <3>1. Here(e)' = [left |-> <<>>, msg |-> rcv[e].msg, n |-> Len(g) + 1 + 0]
      BY <2>1, <2>8 DEF Here
    <3>2. Here(e) = [left |-> <<>>, msg |-> rcv[e].msg, n |-> Len(g) + 1]
      BY <2>1, <2>3 DEF Here, g
    <3>3. QED
      BY <1>1, <3>1, <3>2 DEF g
  <2>11. Pending(d)' = Pending(d)
    BY <2>1 DEF Pending
  <2>12. Shapes(e)'
    <3>1. <<>> \in Rests
      BY <1>1, <2>1
    <3>2. QED
      BY <1>1, <2>1, <3>1 DEF Shapes
  <2>13. Way(d)'
    BY <2>1, <2>2, <2>4, <2>9, <2>10, <2>11 DEF Way, s, g
  <2>14. QED
    BY <2>12, <2>13 DEF d
<1>7. QED
  BY <1>3, <1>4, <1>5, <1>6 DEF ReceiverThread

-----------------------------------------------------------------------------
(* The ends stay in step *)

LEMMA InitWay == Init => IInv
<1> SUFFICES ASSUME Init PROVE IInv
  OBVIOUS
<1>1. TypeOK
  BY InitTypes
<1>2. ASSUME NEW e \in Ends PROVE Shapes(e) /\ Way(e)
  <2> DEFINE r == Peer(e)
             m == [event |-> "DELETE", size |-> 0]
             a == [left |-> <<>>, msg |-> m, n |-> 0]
  <2>1. /\ r \in Ends /\ plan \in Plans /\ queue = plan.send
        /\ \A i \in 1 .. Len(queue[e]) : queue[e][i].event = "NEW_FILE" \/ queue[e][i].size = 0
    BY <1>2, PeerOfPeer, PlansAssumption DEF Init
  <2>2. /\ wire[e] = <<>> /\ sent[e] = <<>> /\ got[r] = <<>>
        /\ snd[e].at = "dequeue" /\ snd[e].left = <<>>
        /\ \A d \in Ends : rcv[d].at = "event" /\ rcv[d].left = <<>> /\ rcv[d].msg = m
    BY <1>2, <2>1 DEF Init, Idle
  <2>3. <<>> \in Rests /\ ~HasSize(<<>>)
    BY DEF Rests, HasSize
  <2>4. m \in Message
    BY UnitTypes DEF Events
  <2>5. Here(r) = a
    BY <2>1, <2>2 DEF Here
  <2>6. a \in Pos
    BY <2>3, <2>4 DEF Pos
  <2>7. a.left = <<>> /\ a.n = 0
    OBVIOUS
  <2> HIDE DEF a, m
  <2>8. \A v : End(a, <<>>, <<>>, v) /\ Sound(a, <<>>)
    BY <2>3, <2>7 DEF End, Sound
  <2>9. \A v : Linked(<<>>, <<>>, a, <<>>, v)
    <3> SUFFICES ASSUME NEW v PROVE Linked(<<>>, <<>>, a, <<>>, v)
      OBVIOUS
    <3> DEFINE c == [k \in 0 .. 0 |-> a]
    <3>1. c \in [0 .. 0 -> Pos] /\ c[0] = a /\ \A k \in 0 .. 0 : c[k] = a
      BY <2>6
    <3>2. Len(<<>>) = 0 /\ \A k \in 1 .. 0 : FALSE
      OBVIOUS
    <3> HIDE DEF c
    <3>3. QED
      BY <2>8, <3>1, <3>2 DEF Linked
  <2>10. Pending(e) = <<>>
    BY <2>2 DEF Pending
  <2>11. Announced(<<>>, <<>>)
    BY DEF Announced
  <2>12. Way(e)
    BY <2>2, <2>5, <2>9, <2>10, <2>11 DEF Way
  <2>13. snd[e].left # Written(snd[e].msg.event)
    <3>1. snd[e].msg.event \in Events
      BY <1>1, <1>2, TypesOfEnd, UnitTypes
    <3>2. QED
      BY <2>2, <3>1, EventWritten
  <2>14. Shapes(e)
    BY <1>2, <2>1, <2>2, <2>3, <2>13 DEF Shapes
  <2>15. QED
    BY <2>12, <2>14
<1>3. QED
  BY <1>1, <1>2 DEF IInv

\* The threads of an end, and of which ways they are.
LEMMA SenderLeaves ==
  ASSUME TypeOK, NEW e \in Ends, NEW d \in Ends, d # e, SenderThread(e) \/ Resize(e)
  PROVE  /\ queue'[d] = queue[d] /\ snd'[d] = snd[d] /\ rcv' = rcv /\ got' = got
         /\ wire'[d] = wire[d] /\ sent'[d] = sent[d]
<1>1. CASE Write(e)
  BY <1>1, WriteOf
<1>2. CASE Dequeue(e) \/ LockToSend(e) \/ UnlockSent(e) \/ Resize(e)
  BY <1>2 DEF TypeOK, Dequeue, LockToSend, UnlockSent, Resize
<1>3. QED
  BY <1>1, <1>2 DEF SenderThread

LEMMA ReceiverLeaves ==
  ASSUME TypeOK, NEW e \in Ends, NEW d \in Ends, d # e, ReceiverThread(e)
  PROVE  /\ queue' = queue /\ snd' = snd /\ rcv'[d] = rcv[d] /\ got'[d] = got[d]
         /\ wire'[e] = wire[e] /\ sent' = sent
<1>1. Peer(e) # e
  BY PeerOfPeer
<1>2. CASE ReadEvent(e)
  BY <1>1, <1>2 DEF TypeOK, ReadEvent, Taken
<1>3. CASE Read(e)
  BY <1>1, <1>3 DEF TypeOK, Read, Taken
<1>4. CASE LockToReceive(e) \/ UnlockReceived(e)
  BY <1>4 DEF TypeOK, LockToReceive, UnlockReceived
<1>5. QED
  BY <1>2, <1>3, <1>4 DEF ReceiverThread

LEMMA NextWay == IInv /\ [Next]_vars => IInv'
<1> SUFFICES ASSUME IInv, [Next]_vars PROVE IInv'
  OBVIOUS
<1>0. TypeOK /\ \A e \in Ends : Shapes(e) /\ Way(e) /\ Peer(e) \in Ends /\ Peer(e) # e /\ Peer(Peer(e)) = e
  BY PeerOfPeer DEF IInv
<1>1. ASSUME NEW e \in Ends, SenderThread(e) \/ Resize(e) PROVE IInv'
  <2>1. TypeOK' /\ Shapes(e)' /\ Way(e)'
    BY <1>0, <1>1, SenderStepTypes, SenderStep
  <2> DEFINE d == Peer(e)
  <2>2. d \in Ends /\ d # e /\ Shapes(d) /\ Way(d)
    BY <1>0, <1>1
  <2>3. /\ queue'[d] = queue[d] /\ snd'[d] = snd[d] /\ rcv' = rcv /\ got' = got
        /\ wire'[d] = wire[d] /\ sent'[d] = sent[d]
    BY <1>0, <1>1, <2>2, SenderLeaves
  <2> HIDE DEF d
  <2>4. Shapes(d)' /\ Way(d)'
    BY <2>2, <2>3, ShapesUnchanged, WayUnchanged
  <2>5. \A x \in Ends : x = e \/ x = d
    BY <1>1, OneEnd DEF d
  <2>6. QED
    BY <2>1, <2>4, <2>5 DEF IInv
<1>2. ASSUME NEW e \in Ends, ReceiverThread(e) PROVE IInv'
  <2> DEFINE d == Peer(e)
  <2>1. TypeOK' /\ Shapes(e)' /\ Way(d)'
    BY <1>0, <1>2, ReceiverStepTypes, ReceiverStep
  <2>2. d \in Ends /\ d # e /\ Shapes(d) /\ Way(e) /\ Peer(e) = d
    BY <1>0, <1>2
  <2>3. /\ queue' = queue /\ snd' = snd /\ rcv'[d] = rcv[d] /\ got'[d] = got[d]
        /\ wire'[e] = wire[e] /\ sent' = sent
    BY <1>0, <1>2, <2>2, ReceiverLeaves
  <2> HIDE DEF d
  <2>4. Shapes(d)' /\ Way(e)'
    BY <1>2, <2>2, <2>3, ShapesUnchanged, WayUnchanged
  <2>5. \A x \in Ends : x = e \/ x = d
    BY <1>2, OneEnd DEF d
  <2>6. QED
    BY <2>1, <2>4, <2>5 DEF IInv
<1>3. CASE UNCHANGED vars
  <2>1. TypeOK'
    BY <1>0, <1>3 DEF vars, TypeOK
  <2>2. ASSUME NEW e \in Ends PROVE Shapes(e)' /\ Way(e)'
    BY <1>0, <1>3, <2>2, ShapesUnchanged, WayUnchanged DEF vars
  <2>3. QED
    BY <2>1, <2>2 DEF IInv
<1>4. QED
  BY <1>1, <1>2, <1>3 DEF Next

\* What is received agrees with what is announced, one by one and so as a prefix.
LEMMA WayInStep == IInv => InStep
<1> SUFFICES ASSUME IInv, NEW e \in Ends PROVE IsPrefix(got[e], sent[Peer(e)]) /\ rcv[e].at # "dead"
  BY DEF InStep
<1>1. /\ Peer(e) \in Ends /\ Peer(Peer(e)) = e /\ TypeOK /\ Shapes(e) /\ Way(Peer(e))
  BY PeerOfPeer DEF IInv
<1> DEFINE g == got[e]
           s == sent[Peer(e)]
<1>2. Announced(s, g) /\ g \in Seq(Message) /\ s \in Seq(Message)
  BY <1>1, TypesOfEnd DEF Way
<1> HIDE DEF g, s
<1>3. IsPrefix(g, s)
  <2>1. Len(g) \in Nat /\ Len(s) \in Nat /\ Len(g) <= Len(s) /\ \A i \in 1 .. Len(g) : g[i] = s[i]
    BY <1>2 DEF Announced
  <2>2. SubSeq(g, 1, Len(g)) = [i \in 1 .. Len(g) |-> g[i]]
    BY <1>2, <2>1
  <2>3. SubSeq(s, 1, Len(g)) = [i \in 1 .. Len(g) |-> s[i]]
    BY <1>2, <2>1
  <2>4. QED
    BY <2>1, <2>2, <2>3 DEF IsPrefix
<1>4. QED
  BY <1>1, <1>3 DEF Shapes, g, s

\* Whatever the two ends send, and however the files change while they are sent,
\* what an end receives is what its peer announced, in that order, and no receiver
\* takes anything but an event for one (Dropbox.cpp, the send and receive procedures).
THEOREM StaysInStep == Spec => []InStep
<1>1. Init => IInv
  BY InitWay
<1>2. IInv /\ [Next]_vars => IInv'
  BY NextWay
<1>3. IInv => InStep
  BY WayInStep
<1>4. QED
  BY <1>1, <1>2, <1>3, PTL DEF Spec
=============================================================================
