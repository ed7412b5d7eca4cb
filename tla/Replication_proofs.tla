--------------------------- MODULE Replication_proofs ---------------------------
(***************************************************************************)
(* Theorems about Replication, for any clients, files, directories and     *)
(* plans: types, and what is needed to say what sequences of messages do   *)
(* to a folder.  First lemmas about the data (what an event, and a         *)
(* sequence of messages played on a folder, does to a path), then the      *)
(* events that may be under way, then the folders, the files that are      *)
(* being written and the walks of newClientProcedure.                      *)
(***************************************************************************)
EXTENDS Replication, Integers, WellFoundedInduction, TLAPS

-----------------------------------------------------------------------------
(* Induction over the natural numbers, by the least of a set of them *)

LEMMA LessIsWellFounded == IsWellFoundedOn({ss \in Nat \X Nat : ss[1] < ss[2]}, Nat)
  BY NatLessThanWellFounded DEF OpToRel

LEMMA LeastNumber ==
  ASSUME NEW T, T \subseteq Nat, T # {}
  PROVE  \E m \in T : \A i \in T : m <= i
<1> DEFINE R == {ss \in Nat \X Nat : ss[1] < ss[2]}
<1>1. \E m \in T : \A i \in T : ~ (<<i, m>> \in R)
  <2>1. IsWellFoundedOn(R, Nat)
    BY LessIsWellFounded
  <2> HIDE DEF R
  <2>2. QED
    BY <2>1, WFMin
<1>2. PICK m \in T : \A i \in T : ~ (<<i, m>> \in R)
  BY <1>1
<1>3. ASSUME NEW i \in T PROVE m <= i
  <2>1. m \in Nat /\ i \in Nat /\ (i < m => <<i, m>> \in R)
    OBVIOUS
  <2>2. QED
    BY <1>2, <2>1
<1>4. QED
  BY <1>3

\* A set of numbers up to n that has 0 and, with a number below n, the next one, has all.
LEMMA AllUpTo ==
  ASSUME NEW n \in Nat, NEW T, 0 \in T, \A i \in 0 .. n - 1 : i \in T => i + 1 \in T
  PROVE  \A i \in 0 .. n : i \in T
<1> SUFFICES ASSUME {i \in 0 .. n : i \notin T} # {} PROVE FALSE
  OBVIOUS
<1> DEFINE U == {i \in 0 .. n : i \notin T}
<1>1. U \subseteq Nat /\ U # {}
  OBVIOUS
<1>2. PICK m \in U : \A i \in U : m <= i
  <2> HIDE DEF U
  <2>1. QED
    BY <1>1, LeastNumber
<1>3. m \in 0 .. n /\ m # 0 /\ m - 1 \in 0 .. n - 1 /\ m - 1 \notin U
  BY <1>2
<1>4. m - 1 \in T
  BY <1>3
<1>5. QED
  BY <1>2, <1>3, <1>4

-----------------------------------------------------------------------------
(* What events do to the set of paths there are *)

Touches(e, p) == e.dst = p \/ (e.op = "DELETE" /\ In[p] = e.dst)

\* Of the paths P, those that there are after e when there were S before.
Shaped(P, S, e) ==
    IF e.op = "DELETE" THEN {p \in S : ~Touches(e, p)}
    ELSE IF e.dst \in P /\ (In[e.dst] = Root \/ In[e.dst] \in S) THEN S \cup {e.dst}
    ELSE S

Run(P, S, es) ==
    LET after[i \in 0 .. Len(es)] == IF i = 0 THEN S ELSE Shaped(P, after[i - 1], es[i])
    IN  after
Through(P, S, es) == Run(P, S, es)[Len(es)]

WithParents(P) == P \subseteq Paths /\ \A p \in P : In[p] = Root \/ In[p] \in P

IsRun(f, P, S, es, n) == f = [i \in 0 .. n |-> IF i = 0 THEN S ELSE Shaped(P, f[i - 1], es[i])]

LEMMA RunExists ==
  ASSUME NEW P, NEW S, NEW es, NEW n \in Nat
  PROVE  \E f : IsRun(f, P, S, es, n)
<1> DEFINE Is(f, k) == IsRun(f, P, S, es, k)
           T == {k \in Nat : \E f : Is(f, k)}
<1>1. 0 \in T
  <2> DEFINE f == [i \in 0 .. 0 |-> S]
  <2>1. Is(f, 0)
    BY DEF IsRun
  <2> HIDE DEF f, Is
  <2>2. QED
    BY <2>1
<1>2. ASSUME NEW k \in T PROVE k + 1 \in T
  <2>1. PICK f : Is(f, k)
    OBVIOUS
  <2> DEFINE g == [i \in 0 .. k + 1 |-> IF i = k + 1 THEN Shaped(P, f[k], es[k + 1]) ELSE f[i]]
  <2>2. ASSUME NEW i \in 0 .. k + 1 PROVE g[i] = IF i = 0 THEN S ELSE Shaped(P, g[i - 1], es[i])
    BY <2>1 DEF IsRun
  <2>3. Is(g, k + 1)
    <3>1. g = [i \in 0 .. k + 1 |-> g[i]]
      OBVIOUS
    <3> HIDE DEF g
    <3>2. QED
      BY <2>2, <3>1 DEF IsRun
  <2> HIDE DEF g, Is
  <2>4. QED
    BY <2>3
<1>3. \A i \in 0 .. n : i \in T
  <2> HIDE DEF T
  <2>1. QED
    BY <1>1, <1>2, AllUpTo
<1>4. n \in T
  <2> HIDE DEF T
  <2>1. QED
    BY <1>3
<1>5. QED
  BY <1>4

LEMMA RunSteps ==
  ASSUME NEW P, NEW S, NEW es, Len(es) \in Nat
  PROVE  /\ Run(P, S, es)[0] = S
         /\ \A i \in 1 .. Len(es) : Run(P, S, es)[i] = Shaped(P, Run(P, S, es)[i - 1], es[i])
<1>1. \E f : IsRun(f, P, S, es, Len(es))
  BY RunExists
<1>2. Run(P, S, es) = [i \in 0 .. Len(es) |-> IF i = 0 THEN S ELSE Shaped(P, Run(P, S, es)[i - 1], es[i])]
  BY <1>1, Zenon DEF Run, IsRun
<1> DEFINE r == Run(P, S, es)
<1> HIDE DEF r
<1>3. r = [i \in 0 .. Len(es) |-> IF i = 0 THEN S ELSE Shaped(P, r[i - 1], es[i])]
  BY <1>2 DEF r
<1>4. r[0] = S /\ \A i \in 1 .. Len(es) : r[i] = Shaped(P, r[i - 1], es[i])
  BY <1>3
<1>5. QED
  BY <1>4 DEF r

\* There is only one run.
LEMMA RunUnique ==
  ASSUME NEW P, NEW S, NEW es, Len(es) \in Nat, NEW n \in 0 .. Len(es), NEW g,
         g[0] = S, \A i \in 1 .. n : g[i] = Shaped(P, g[i - 1], es[i])
  PROVE  g[n] = Run(P, S, es)[n]
<1> DEFINE r == Run(P, S, es)
           T == {i \in 0 .. n : g[i] = r[i]}
<1>1. r[0] = S /\ \A i \in 1 .. Len(es) : r[i] = Shaped(P, r[i - 1], es[i])
  BY RunSteps
<1> HIDE DEF r
<1>2. 0 \in T
  BY <1>1
<1>3. ASSUME NEW i \in 0 .. n - 1, i \in T PROVE i + 1 \in T
  <2>1. i + 1 \in 1 .. n /\ i + 1 \in 1 .. Len(es) /\ (i + 1) - 1 = i
    OBVIOUS
  <2>2. g[i + 1] = Shaped(P, g[i], es[i + 1]) /\ r[i + 1] = Shaped(P, r[i], es[i + 1])
    BY <1>1, <2>1
  <2>3. QED
    BY <1>3, <2>1, <2>2
<1>4. n \in T
  <2>1. n \in Nat /\ n \in 0 .. n
    OBVIOUS
  <2> HIDE DEF T
  <2>2. \A i \in 0 .. n : i \in T
    BY <1>2, <1>3, <2>1, AllUpTo
  <2>3. QED
    BY <2>1, <2>2
<1>5. QED
  BY <1>4 DEF r

LEMMA ThroughNone ==
  ASSUME NEW P, NEW S
  PROVE  Through(P, S, <<>>) = S
  BY RunSteps DEF Through

LEMMA ThroughAppend ==
  ASSUME NEW P, NEW S, NEW E, NEW es \in Seq(E), NEW e \in E
  PROVE  Through(P, S, Append(es, e)) = Shaped(P, Through(P, S, es), e)
<1> DEFINE all == Append(es, e)
           n == Len(es)
           r == Run(P, S, all)
<1>1. n \in Nat /\ Len(all) = n + 1 /\ all[n + 1] = e /\ \A i \in 1 .. n : all[i] = es[i]
  OBVIOUS
<1> HIDE DEF all, n
<1>2. r[0] = S /\ \A i \in 1 .. n + 1 : r[i] = Shaped(P, r[i - 1], all[i])
  BY <1>1, RunSteps
<1> HIDE DEF r
<1>3. \A i \in 1 .. n : r[i] = Shaped(P, r[i - 1], es[i])
  BY <1>1, <1>2
<1>4. r[n] = Run(P, S, es)[n]
  BY <1>1, <1>2, <1>3, RunUnique DEF n
<1>5. r[n + 1] = Shaped(P, r[n], e)
  BY <1>1, <1>2
<1>6. QED
  BY <1>1, <1>4, <1>5 DEF Through, r, all, n

LEMMA ThroughHead ==
  ASSUME NEW P, NEW S, NEW E, NEW es \in Seq(E), es # <<>>
  PROVE  Through(P, S, es) = Through(P, Shaped(P, S, Head(es)), Tail(es))
<1> DEFINE rest == Tail(es)
           n == Len(rest)
           r == Run(P, S, es)
           g == [i \in 0 .. n |-> r[i + 1]]
<1>1. n \in Nat /\ Len(es) = n + 1 /\ es[1] = Head(es) /\ \A i \in 1 .. n : rest[i] = es[i + 1]
  OBVIOUS
<1> HIDE DEF rest, n
<1>2. r[0] = S /\ \A i \in 1 .. n + 1 : r[i] = Shaped(P, r[i - 1], es[i])
  BY <1>1, RunSteps
<1> HIDE DEF r
<1>3. g[0] = Shaped(P, S, Head(es))
  BY <1>1, <1>2
<1>4. ASSUME NEW i \in 1 .. n PROVE g[i] = Shaped(P, g[i - 1], rest[i])
  <2>1. i + 1 \in 1 .. n + 1 /\ i \in 0 .. n /\ i - 1 \in 0 .. n /\ (i + 1) - 1 = i /\ (i - 1) + 1 = i
    BY <1>1
  <2>2. QED
    BY <1>1, <1>2, <2>1
<1>5. g[n] = r[n + 1]
  BY <1>1
<1> HIDE DEF g
<1>6. g[n] = Run(P, Shaped(P, S, Head(es)), rest)[n]
  BY <1>1, <1>3, <1>4, RunUnique DEF n
<1>7. QED
  BY <1>1, <1>5, <1>6 DEF Through, r, rest, n

LEMMA ThroughWithin ==
  ASSUME NEW P, NEW S, S \subseteq P, NEW es, Len(es) \in Nat
  PROVE  Through(P, S, es) \subseteq P
<1> DEFINE n == Len(es)
           r == Run(P, S, es)
           T == {i \in 0 .. n : r[i] \subseteq P}
<1>1. n \in Nat /\ r[0] = S /\ \A i \in 1 .. n : r[i] = Shaped(P, r[i - 1], es[i])
  BY RunSteps
<1> HIDE DEF n, r
<1>2. 0 \in T
  BY <1>1
<1>3. ASSUME NEW i \in 0 .. n - 1, i \in T PROVE i + 1 \in T
  <2>1. i + 1 \in 1 .. n /\ (i + 1) - 1 = i /\ i + 1 \in 0 .. n
    BY <1>1
  <2>2. r[i + 1] = Shaped(P, r[i], es[i + 1])
    BY <1>1, <2>1
  <2>3. r[i + 1] \subseteq P
    BY <1>3, <2>2 DEF Shaped
  <2>4. QED
    BY <2>1, <2>3
<1>4. n \in T
  <2>1. n \in Nat /\ n \in 0 .. n
    BY <1>1
  <2> HIDE DEF T
  <2>2. \A i \in 0 .. n : i \in T
    BY <1>2, <1>3, <2>1, AllUpTo
  <2>3. QED
    BY <2>1, <2>2
<1>5. QED
  BY <1>4 DEF Through, r, n

\* A smaller set of paths sees the same.
LEMMA ThroughFewer ==
  ASSUME NEW P, NEW Q, WithParents(P), WithParents(Q), Q \subseteq P, NEW S, S \subseteq P,
         NEW es, Len(es) \in Nat
  PROVE  Through(Q, Q \cap S, es) = Q \cap Through(P, S, es)
<1> DEFINE n == Len(es)
           r == Run(P, S, es)
           g == [i \in 0 .. n |-> Q \cap r[i]]
<1>1. n \in Nat /\ r[0] = S /\ \A i \in 1 .. n : r[i] = Shaped(P, r[i - 1], es[i])
  BY RunSteps
<1> HIDE DEF n, r
<1>2. ASSUME NEW i \in 1 .. n PROVE g[i] = Shaped(Q, g[i - 1], es[i])
  <2>1. i \in 0 .. n /\ i - 1 \in 0 .. n
    BY <1>1
  <2>2. g[i] = Q \cap Shaped(P, r[i - 1], es[i]) /\ g[i - 1] = Q \cap r[i - 1]
    BY <1>1, <2>1
  <2>3. Q \cap Shaped(P, r[i - 1], es[i]) = Shaped(Q, Q \cap r[i - 1], es[i])
    <3>1. CASE es[i].op = "DELETE"
      BY <3>1 DEF Shaped
    <3>2. CASE es[i].op # "DELETE" /\ es[i].dst \in Q
      BY <3>2 DEF Shaped, WithParents
    <3>3. CASE es[i].op # "DELETE" /\ es[i].dst \notin Q
      BY <3>3 DEF Shaped, WithParents
    <3>4. QED
      BY <3>1, <3>2, <3>3
  <2>4. QED
    BY <2>2, <2>3
<1>3. g[0] = Q \cap S /\ n \in 0 .. n /\ g[n] = Q \cap r[n]
  BY <1>1
<1> DEFINE start == Q \cap S
<1>4. g[0] = start /\ n \in 0 .. Len(es)
  BY <1>1, <1>3 DEF n
<1> HIDE DEF g, start
<1>5. g[n] = Run(Q, start, es)[n]
  BY <1>2, <1>4, RunUnique
<1>6. QED
  BY <1>3, <1>5 DEF Through, r, n, start

\* What no event touches stays.
LEMMA ThroughUntouched ==
  ASSUME NEW P, NEW S, NEW es, Len(es) \in Nat, NEW p,
         \A i \in 1 .. Len(es) : ~Touches(es[i], p)
  PROVE  p \in Through(P, S, es) <=> p \in S
<1> DEFINE n == Len(es)
           r == Run(P, S, es)
           T == {i \in 0 .. n : p \in r[i] <=> p \in S}
<1>1. n \in Nat /\ r[0] = S /\ \A i \in 1 .. n : r[i] = Shaped(P, r[i - 1], es[i])
  BY RunSteps
<1>0. \A i \in 1 .. n : ~Touches(es[i], p)
  OBVIOUS
<1> HIDE DEF n, r
<1>2. 0 \in T
  BY <1>1
<1>3. ASSUME NEW i \in 0 .. n - 1, i \in T PROVE i + 1 \in T
  <2>1. i + 1 \in 1 .. n /\ (i + 1) - 1 = i /\ i + 1 \in 0 .. n
    BY <1>1
  <2>2. r[i + 1] = Shaped(P, r[i], es[i + 1]) /\ ~Touches(es[i + 1], p)
    BY <1>0, <1>1, <2>1
  <2>3. p \in r[i + 1] <=> p \in r[i]
    BY <2>2 DEF Shaped, Touches
  <2>4. QED
    BY <1>3, <2>1, <2>3
<1>4. n \in T
  <2>1. n \in Nat /\ n \in 0 .. n
    BY <1>1
  <2> HIDE DEF T
  <2>2. \A i \in 0 .. n : i \in T
    BY <1>2, <1>3, <2>1, AllUpTo
  <2>3. QED
    BY <2>1, <2>2
<1>5. QED
  BY <1>4 DEF Through, r, n

-----------------------------------------------------------------------------
(* What messages do to a folder *)

Sp(tree) == {p \in Paths : tree[p] # Absent}
Nested(tree) == \A p \in Paths : In[p] # Root /\ tree[p] # Absent => tree[In[p]] # Absent
Kind(tree) == \A p \in Dirs : tree[p] \in {Absent, Dir}
Sound(tree) == tree \in Tree /\ Nested(tree) /\ Kind(tree)

Well(e) ==
    /\ e \in Event
    /\ e.op = "NEW_FILE" => e.dst \in Files
    /\ e.op = "NEW_DIRECTORY" => e.dst \in Dirs
    /\ e.op \in {"COPY", "MOVE"} => e.dst \in Files /\ e.src \in Files /\ e.src # e.dst
    /\ e.op = "DELETE" => e.src = e.dst
Plain(e) == Well(e) /\ e.op # "MOVE"

\* A message that can be on the wire, but for a file that its client has lost.
Good(m) == m \in Message /\ Plain(m.ev) /\ (m.ev.op = "NEW_FILE" => m.val # Absent)

\* What an event other than a deletion puts at its path.
Brought(tree, e, val) ==
    CASE e.op = "NEW_FILE"      -> val
      [] e.op = "NEW_DIRECTORY" -> Dir
      [] OTHER                  -> IF tree[e.src] = Absent THEN Torn ELSE tree[e.src]

LEMMA ConstantFacts ==
  /\ Torn # Absent /\ Dir # Absent /\ Torn # Dir /\ Absent \notin Nat /\ Torn \notin Nat /\ Dir \notin Nat
  /\ Paths = Files \cup Dirs /\ Files \cap Dirs = {} /\ Root \notin Paths
  /\ \A p \in Paths : In[p] = Root \/ In[p] \in Dirs
  /\ \A d \in Dirs : In[d] = Root
  BY ReplicationAssumption DEF Paths

LEMMA AppliedAt ==
  ASSUME NEW t, Sound(t), NEW m \in Message, Plain(m.ev), NEW p \in Paths
  PROVE  Applied(t, m)[p] =
            IF m.ev.op = "DELETE" THEN (IF Touches(m.ev, p) THEN Absent ELSE t[p])
            ELSE IF p = m.ev.dst /\ ~NoParent(t, p) THEN Brought(t, m.ev, m.val) ELSE t[p]
<1> DEFINE e == m.ev
<1>1. t \in Tree /\ e \in Event /\ e.dst \in Paths /\ e.src \in Paths /\ m.val \in Content
  BY DEF Sound, Message, Event
<1>2. CASE e.op = "DELETE"
  <2>1. Touches(e, p) <=> p \in Affected(e)
    BY <1>2, <1>1 DEF Touches, Affected, Well, Plain
  <2>2. CASE t[e.dst] = Absent
    <3>1. Applied(t, m) = t
      BY <1>2, <2>2 DEF Applied, Fails
    <3>2. Touches(e, p) => t[p] = Absent
      BY <1>1, <2>2, ConstantFacts DEF Touches, Sound, Nested
    <3>3. QED
      BY <1>2, <3>1, <3>2
  <2>3. CASE t[e.dst] # Absent
    <3>1. ~Fails(t, e)
      BY <1>2, <2>3 DEF Fails
    <3>2. Applied(t, m) = [q \in Paths |-> IF q \in Affected(e) THEN Absent ELSE t[q]]
      BY <1>2, <3>1 DEF Applied, Effect
    <3>3. QED
      BY <1>2, <2>1, <3>2
  <2>4. QED
    BY <2>2, <2>3
<1>3. CASE e.op \in {"NEW_FILE", "NEW_DIRECTORY"}
  <2>1. Fails(t, e) <=> NoParent(t, e.dst)
    BY <1>3 DEF Fails
  <2>2. Effect(t, e, m.val) = [t EXCEPT ![e.dst] = Brought(t, e, m.val)]
    BY <1>3 DEF Effect, Brought
  <2>3. QED
    BY <1>1, <1>3, <2>1, <2>2 DEF Applied, Tree
<1>4. CASE e.op = "COPY"
  <2>1. ~Fails(t, e)
    BY <1>4 DEF Fails
  <2>2. Effect(t, e, m.val) = [t EXCEPT ![e.dst] = IF NoParent(t, e.dst) THEN t[e.dst] ELSE Brought(t, e, m.val)]
    BY <1>1, <1>4 DEF Effect, Brought, Tree
  <2>3. QED
    BY <1>1, <1>4, <2>1, <2>2 DEF Applied, Tree
<1>5. QED
  BY <1>1, <1>2, <1>3, <1>4 DEF Event, Events, Well, Plain

LEMMA AppliedSound ==
  ASSUME NEW t, Sound(t), NEW m, Good(m)
  PROVE  /\ Sound(Applied(t, m))
         /\ \A P : WithParents(P) => P \cap Sp(Applied(t, m)) = Shaped(P, P \cap Sp(t), m.ev)
         /\ \A p \in Paths : ~Touches(m.ev, p) => Applied(t, m)[p] = t[p]
         /\ m.ev.op = "NEW_FILE" /\ Applied(t, m)[m.ev.dst] # Absent => Applied(t, m)[m.ev.dst] = m.val
         /\ m.ev.op = "COPY" /\ Applied(t, m)[m.ev.dst] # Absent =>
               Applied(t, m)[m.ev.dst] = IF t[m.ev.src] = Absent THEN Torn ELSE t[m.ev.src]
<1> DEFINE e == m.ev
           u == Applied(t, m)
           new == Brought(t, e, m.val)
<1>1. /\ t \in Tree /\ e \in Event /\ e.dst \in Paths /\ e.src \in Paths /\ m.val \in Content
      /\ Nested(t) /\ Kind(t) /\ e.op \in Events
  BY DEF Sound, Good, Plain, Message, Event
<1>2. \A p \in Paths : t[p] \in Content
  BY <1>1 DEF Tree
<1>3. new \in Content /\ (e.op # "DELETE" => new # Absent)
  BY <1>1, <1>2, ConstantFacts DEF Brought, Content, Good, Plain
<1>4. u = [p \in Paths |-> u[p]]
  <2>1. t = [p \in Paths |-> t[p]]
    BY <1>1 DEF Tree
  <2>2. Effect(t, e, m.val) = [p \in Paths |-> Effect(t, e, m.val)[p]]
    BY <1>1, <2>1 DEF Effect, Events, Tree, Well, Plain, Good
  <2>3. QED
    BY <2>1, <2>2 DEF Applied
<1>5. \A p \in Paths : u[p] = IF e.op = "DELETE" THEN (IF Touches(e, p) THEN Absent ELSE t[p])
                             ELSE IF p = e.dst /\ ~NoParent(t, p) THEN new ELSE t[p]
  BY AppliedAt DEF Good
<1>6. /\ e.op = "NEW_FILE" => new = m.val
      /\ e.op = "NEW_DIRECTORY" => new = Dir
      /\ e.op = "COPY" => new = IF t[e.src] = Absent THEN Torn ELSE t[e.src]
      /\ e.op \in {"NEW_FILE", "COPY"} => e.dst \in Files
  BY DEF Brought, Well, Plain, Good
<1> HIDE DEF u, new
<1>7. u \in Tree
  <2>1. \A p \in Paths : u[p] \in Content
    BY <1>2, <1>3, <1>5 DEF Content
  <2>2. QED
    BY <1>4, <2>1 DEF Tree
<1>8. Kind(u)
  BY <1>1, <1>5, <1>6, ConstantFacts DEF Kind, Events, Well, Plain, Good
<1>9. Nested(u)
  <2> SUFFICES ASSUME NEW p \in Paths, In[p] # Root, u[p] # Absent
               PROVE  u[In[p]] # Absent
    BY DEF Nested
  <2>1. In[p] \in Paths /\ In[p] \in Dirs /\ In[In[p]] = Root
    BY ConstantFacts
  <2>2. CASE e.op = "DELETE"
    <3>1. ~Touches(e, p) /\ t[p] # Absent
      BY <1>5, <2>2
    <3>2. ~Touches(e, In[p])
      BY <2>1, <2>2, <3>1, <1>1, ConstantFacts DEF Touches
    <3>3. QED
      BY <1>1, <1>5, <2>1, <2>2, <3>1, <3>2 DEF Nested
  <2>3. CASE e.op # "DELETE"
    <3>1. t[In[p]] # Absent
      <4>1. CASE p = e.dst /\ ~NoParent(t, p)
        BY <4>1 DEF NoParent
      <4>2. CASE ~(p = e.dst /\ ~NoParent(t, p))
        BY <1>1, <1>5, <2>3, <4>2 DEF Nested
      <4>3. QED
        BY <4>1, <4>2
    <3>2. QED
      BY <1>3, <1>5, <2>1, <2>3, <3>1
  <2>4. QED
    BY <2>2, <2>3
<1>10. ASSUME NEW P, WithParents(P) PROVE P \cap Sp(u) = Shaped(P, P \cap Sp(t), e)
  <2>0. P \subseteq Paths /\ \A p \in P : In[p] = Root \/ In[p] \in P
    BY <1>10 DEF WithParents
  <2>1. CASE e.op = "DELETE"
    BY <1>5, <2>0, <2>1 DEF Shaped, Sp
  <2>2. CASE e.op # "DELETE"
    <3>1. \A p \in P : u[p] # Absent <=> (t[p] # Absent \/ (p = e.dst /\ ~NoParent(t, p)))
      BY <1>3, <1>5, <2>0, <2>2
    <3>2. \A p \in P : ~NoParent(t, p) <=> (In[p] = Root \/ In[p] \in P \cap Sp(t))
      BY <2>0, ConstantFacts DEF NoParent, Sp
    <3>3. QED
      BY <2>0, <2>2, <3>1, <3>2 DEF Shaped, Sp
  <2>3. QED
    BY <2>1, <2>2
<1>11. \A p \in Paths : ~Touches(e, p) => u[p] = t[p]
  BY <1>5 DEF Touches
<1>12. e.op \in {"NEW_FILE", "COPY"} /\ u[e.dst] # Absent => u[e.dst] = new
  <2>1. NoParent(t, e.dst) => t[e.dst] = Absent
    BY <1>1 DEF Nested, NoParent
  <2>2. QED
    BY <1>1, <1>5, <2>1
<1>13. QED
  BY <1>6, <1>7, <1>8, <1>9, <1>10, <1>11, <1>12 DEF Sound, u

LEMMA AppliedShape ==
  ASSUME NEW t, Sound(t), NEW m, Good(m), NEW P, WithParents(P)
  PROVE  P \cap Sp(Applied(t, m)) = Shaped(P, P \cap Sp(t), m.ev)
<1>1. \A Q : WithParents(Q) => Q \cap Sp(Applied(t, m)) = Shaped(Q, Q \cap Sp(t), m.ev)
  BY AppliedSound
<1>2. QED
  BY <1>1

\* The folder after each of the messages.
Played(tree, ms) ==
    LET after[i \in 0 .. Len(ms)] == IF i = 0 THEN tree ELSE Applied(after[i - 1], ms[i])
    IN  after

IsPlay(f, t, ms, n) == f = [i \in 0 .. n |-> IF i = 0 THEN t ELSE Applied(f[i - 1], ms[i])]

LEMMA PlayExists ==
  ASSUME NEW t, NEW ms, NEW n \in Nat
  PROVE  \E f : IsPlay(f, t, ms, n)
<1> DEFINE Is(f, k) == IsPlay(f, t, ms, k)
           T == {k \in Nat : \E f : Is(f, k)}
<1>1. 0 \in T
  <2> DEFINE f == [i \in 0 .. 0 |-> t]
  <2>1. Is(f, 0)
    BY DEF IsPlay
  <2> HIDE DEF f, Is
  <2>2. QED
    BY <2>1
<1>2. ASSUME NEW k \in T PROVE k + 1 \in T
  <2>1. PICK f : Is(f, k)
    OBVIOUS
  <2> DEFINE g == [i \in 0 .. k + 1 |-> IF i = k + 1 THEN Applied(f[k], ms[k + 1]) ELSE f[i]]
  <2>2. ASSUME NEW i \in 0 .. k + 1 PROVE g[i] = IF i = 0 THEN t ELSE Applied(g[i - 1], ms[i])
    BY <2>1 DEF IsPlay
  <2>3. Is(g, k + 1)
    <3>1. g = [i \in 0 .. k + 1 |-> g[i]]
      OBVIOUS
    <3> HIDE DEF g
    <3>2. QED
      BY <2>2, <3>1 DEF IsPlay
  <2> HIDE DEF g, Is
  <2>4. QED
    BY <2>3
<1>3. \A i \in 0 .. n : i \in T
  <2> HIDE DEF T
  <2>1. QED
    BY <1>1, <1>2, AllUpTo
<1>4. n \in T
  <2> HIDE DEF T
  <2>1. QED
    BY <1>3
<1>5. QED
  BY <1>4

LEMMA PlaySteps ==
  ASSUME NEW t, NEW ms, Len(ms) \in Nat
  PROVE  /\ Played(t, ms)[0] = t
         /\ \A i \in 1 .. Len(ms) : Played(t, ms)[i] = Applied(Played(t, ms)[i - 1], ms[i])
         /\ Play(t, ms) = Played(t, ms)[Len(ms)]
<1>1. \E f : IsPlay(f, t, ms, Len(ms))
  BY PlayExists
<1>2. Played(t, ms) = [i \in 0 .. Len(ms) |-> IF i = 0 THEN t ELSE Applied(Played(t, ms)[i - 1], ms[i])]
  BY <1>1, Zenon DEF Played, IsPlay
<1> DEFINE r == Played(t, ms)
<1> HIDE DEF r
<1>3. r = [i \in 0 .. Len(ms) |-> IF i = 0 THEN t ELSE Applied(r[i - 1], ms[i])]
  BY <1>2 DEF r
<1>4. r[0] = t /\ \A i \in 1 .. Len(ms) : r[i] = Applied(r[i - 1], ms[i])
  BY <1>3
<1>5. Play(t, ms) = Played(t, ms)[Len(ms)]
  BY Zenon DEF Play, Played
<1>6. QED
  BY <1>4, <1>5 DEF r

LEMMA PlayUnique ==
  ASSUME NEW t, NEW ms, Len(ms) \in Nat, NEW n \in 0 .. Len(ms), NEW g,
         g[0] = t, \A i \in 1 .. n : g[i] = Applied(g[i - 1], ms[i])
  PROVE  g[n] = Played(t, ms)[n]
<1> DEFINE r == Played(t, ms)
           T == {i \in 0 .. n : g[i] = r[i]}
<1>1. r[0] = t /\ \A i \in 1 .. Len(ms) : r[i] = Applied(r[i - 1], ms[i])
  BY PlaySteps
<1> HIDE DEF r
<1>2. 0 \in T
  BY <1>1
<1>3. ASSUME NEW i \in 0 .. n - 1, i \in T PROVE i + 1 \in T
  <2>1. i + 1 \in 1 .. n /\ i + 1 \in 1 .. Len(ms) /\ (i + 1) - 1 = i
    OBVIOUS
  <2>2. g[i + 1] = Applied(g[i], ms[i + 1]) /\ r[i + 1] = Applied(r[i], ms[i + 1])
    BY <1>1, <2>1
  <2>3. QED
    BY <1>3, <2>1, <2>2
<1>4. n \in T
  <2>1. n \in Nat /\ n \in 0 .. n
    OBVIOUS
  <2> HIDE DEF T
  <2>2. \A i \in 0 .. n : i \in T
    BY <1>2, <1>3, <2>1, AllUpTo
  <2>3. QED
    BY <2>1, <2>2
<1>5. QED
  BY <1>4 DEF r

Evs(ms) == [i \in 1 .. Len(ms) |-> ms[i].ev]

LEMMA SequenceIsFunction ==
  ASSUME NEW E, NEW es \in Seq(E)
  PROVE  es = [i \in 1 .. Len(es) |-> es[i]]
  OBVIOUS

LEMMA EvsFacts ==
  ASSUME NEW ms \in Seq(Message)
  PROVE  /\ Evs(ms) \in Seq(Event) /\ Len(Evs(ms)) = Len(ms) /\ Len(ms) \in Nat
         /\ \A i \in 1 .. Len(ms) : Evs(ms)[i] = ms[i].ev
         /\ ms = <<>> => Evs(ms) = <<>>
         /\ ms # <<>> => Head(Evs(ms)) = Head(ms).ev /\ Evs(Tail(ms)) = Tail(Evs(ms)) /\ Evs(ms) # <<>>
         /\ \A m \in Message : Evs(Append(ms, m)) = Append(Evs(ms), m.ev)
<1> DEFINE n == Len(ms)
<1>1. n \in Nat /\ \A i \in 1 .. n : ms[i] \in Message /\ ms[i].ev \in Event
  <2>1. n \in Nat /\ \A i \in 1 .. n : ms[i] \in Message
    OBVIOUS
  <2>2. \A m \in Message : m.ev \in Event
    BY DEF Message
  <2>3. QED
    BY <2>1, <2>2
<1>2. Evs(ms) \in Seq(Event) /\ Len(Evs(ms)) = n /\ \A i \in 1 .. n : Evs(ms)[i] = ms[i].ev
  BY <1>1 DEF Evs
<1>3. ms = <<>> => Evs(ms) = <<>>
  BY <1>2
<1>4. ASSUME ms # <<>>
      PROVE  Head(Evs(ms)) = Head(ms).ev /\ Evs(Tail(ms)) = Tail(Evs(ms)) /\ Evs(ms) # <<>>
  <2>1. Evs(ms) # <<>> /\ Head(Evs(ms)) = Head(ms).ev
    BY <1>1, <1>2, <1>4
  <2>2. Tail(ms) \in Seq(Message) /\ Len(Tail(ms)) = n - 1 /\ \A i \in 1 .. n - 1 : Tail(ms)[i] = ms[i + 1]
    BY <1>4
  <2>3. Evs(Tail(ms)) = [i \in 1 .. n - 1 |-> Tail(ms)[i].ev]
    BY <2>2 DEF Evs
  <2>4. Tail(Evs(ms)) = [i \in 1 .. n - 1 |-> Evs(ms)[i + 1]]
    <3> DEFINE es == Evs(ms)
    <3>1. es \in Seq(Event) /\ Len(es) = n /\ es # <<>>
      BY <1>2, <2>1
    <3> HIDE DEF es, n
    <3>2. Tail(es) \in Seq(Event) /\ Len(Tail(es)) = n - 1 /\ \A i \in 1 .. n - 1 : Tail(es)[i] = es[i + 1]
      BY <1>1, <3>1
    <3>3. Tail(es) = [i \in 1 .. n - 1 |-> Tail(es)[i]]
      BY <3>2, SequenceIsFunction
    <3>4. QED
      BY <3>2, <3>3 DEF es
  <2>5. \A i \in 1 .. n - 1 : Tail(ms)[i].ev = Evs(ms)[i + 1]
    BY <1>1, <1>2, <2>2
  <2>6. QED
    BY <2>1, <2>3, <2>4, <2>5
<1>5. ASSUME NEW m \in Message PROVE Evs(Append(ms, m)) = Append(Evs(ms), m.ev)
  <2> DEFINE all == Append(ms, m)
             es == Append(Evs(ms), m.ev)
  <2>1. Len(all) = n + 1 /\ \A i \in 1 .. n + 1 : all[i] = IF i = n + 1 THEN m ELSE ms[i]
    BY <1>1
  <2>2. m.ev \in Event
    BY DEF Message
  <2>3. es \in Seq(Event) /\ Len(es) = n + 1 /\ \A i \in 1 .. n + 1 : es[i] = IF i = n + 1 THEN m.ev ELSE Evs(ms)[i]
    BY <1>1, <1>2, <2>2
  <2>4. es = [i \in 1 .. n + 1 |-> es[i]]
    BY <2>3
  <2> HIDE DEF all, es
  <2>5. Evs(all) = [i \in 1 .. n + 1 |-> all[i].ev]
    BY <2>1 DEF Evs
  <2>6. \A i \in 1 .. n + 1 : all[i].ev = es[i]
    BY <1>1, <1>2, <2>1, <2>3
  <2>7. Evs(all) = es
    BY <2>4, <2>5, <2>6
  <2>8. QED
    BY <2>7 DEF all, es
<1>6. QED
  BY <1>1, <1>2, <1>3, <1>4, <1>5

\* What messages that are good do to a folder that is sound.
LEMMA PlayShape ==
  ASSUME NEW t, Sound(t), NEW ms \in Seq(Message), \A i \in 1 .. Len(ms) : Good(ms[i]),
         NEW P, WithParents(P)
  PROVE  /\ Sound(Play(t, ms))
         /\ P \cap Sp(Play(t, ms)) = Through(P, P \cap Sp(t), Evs(ms))
<1> DEFINE n == Len(ms)
           r == Played(t, ms)
           es == Evs(ms)
           g == [i \in 0 .. n |-> P \cap Sp(r[i])]
           T == {i \in 0 .. n : Sound(r[i])}
<1>1. n \in Nat /\ Len(es) = n /\ \A i \in 1 .. n : es[i] = ms[i].ev /\ Good(ms[i])
  BY EvsFacts
<1>2. /\ r[0] = t /\ \A i \in 1 .. n : r[i] = Applied(r[i - 1], ms[i])
      /\ Play(t, ms) = r[n]
  BY <1>1, PlaySteps
<1> HIDE DEF n, r, es
<1>3. ASSUME NEW i \in 0 .. n - 1, i \in T PROVE i + 1 \in T
  <2>1. i + 1 \in 1 .. n /\ (i + 1) - 1 = i /\ i + 1 \in 0 .. n
    BY <1>1
  <2>2. r[i + 1] = Applied(r[i], ms[i + 1]) /\ Good(ms[i + 1]) /\ Sound(r[i])
    BY <1>1, <1>2, <1>3, <2>1
  <2>3. Sound(r[i + 1])
    BY <2>2, AppliedSound
  <2>4. QED
    BY <2>1, <2>3
<1>4. \A i \in 0 .. n : i \in T
  <2>1. 0 \in T
    BY <1>1, <1>2
  <2> HIDE DEF T
  <2>2. QED
    BY <1>1, <1>3, <2>1, AllUpTo
<1>5. \A i \in 0 .. n : Sound(r[i])
  BY <1>4
<1>6. ASSUME NEW i \in 1 .. n PROVE g[i] = Shaped(P, g[i - 1], es[i])
  <2>1. i \in 0 .. n /\ i - 1 \in 0 .. n
    BY <1>1
  <2>2. r[i] = Applied(r[i - 1], ms[i]) /\ Good(ms[i]) /\ Sound(r[i - 1]) /\ es[i] = ms[i].ev
    BY <1>1, <1>2, <1>5, <2>1
  <2>3. P \cap Sp(Applied(r[i - 1], ms[i])) = Shaped(P, P \cap Sp(r[i - 1]), ms[i].ev)
    BY <2>2, AppliedShape
  <2>4. P \cap Sp(r[i]) = Shaped(P, P \cap Sp(r[i - 1]), es[i])
    BY <2>2, <2>3
  <2>5. QED
    BY <2>1, <2>4
<1> DEFINE start == P \cap Sp(t)
<1>7. g[0] = start /\ g[n] = P \cap Sp(r[n]) /\ n \in 0 .. Len(es) /\ Len(es) \in Nat /\ n \in 0 .. n
  BY <1>1, <1>2
<1> HIDE DEF g, start
<1>8. g[n] = Run(P, start, es)[n]
  BY <1>6, <1>7, RunUnique
<1>9. QED
  BY <1>1, <1>2, <1>5, <1>7, <1>8 DEF Through, start, es

Spares(ms, p) == \A i \in 1 .. Len(ms) : ~Touches(ms[i].ev, p)

\* The last of the messages that touches file p brings content v, or removes p.
Gives(ms, p, v) ==
    \A i \in 1 .. Len(ms) :
        Touches(ms[i].ev, p) /\ (\A j \in i + 1 .. Len(ms) : ~Touches(ms[j].ev, p)) =>
            \/ ms[i].ev.op = "DELETE"
            \/ ms[i].ev.op = "NEW_FILE" /\ ms[i].val = v

LEMMA PlayGives ==
  ASSUME NEW t, Sound(t), NEW ms \in Seq(Message), \A i \in 1 .. Len(ms) : Good(ms[i]),
         NEW p \in Files, NEW v, Gives(ms, p, v), Spares(ms, p) => t[p] \in {Absent, v}
  PROVE  Play(t, ms)[p] \in {Absent, v}
<1> DEFINE n == Len(ms)
           r == Played(t, ms)
           T == {i \in 0 .. n : Sound(r[i]) /\
                    ((\A j \in i + 1 .. n : ~Touches(ms[j].ev, p)) => r[i][p] \in {Absent, v})}
<1>1. n \in Nat /\ p \in Paths /\ \A i \in 1 .. n : Good(ms[i])
  BY DEF Paths
<1>2. /\ r[0] = t /\ \A i \in 1 .. n : r[i] = Applied(r[i - 1], ms[i])
      /\ Play(t, ms) = r[n]
  BY <1>1, PlaySteps
<1>3. /\ (\A j \in 1 .. n : ~Touches(ms[j].ev, p)) => t[p] \in {Absent, v}
      /\ \A i \in 1 .. n :
           Touches(ms[i].ev, p) /\ (\A j \in i + 1 .. n : ~Touches(ms[j].ev, p)) =>
               ms[i].ev.op = "DELETE" \/ (ms[i].ev.op = "NEW_FILE" /\ ms[i].val = v)
  BY DEF Gives, Spares
<1> HIDE DEF n, r
<1>4. 0 \in T
  BY <1>1, <1>2, <1>3
<1>5. ASSUME NEW i \in 0 .. n - 1, i \in T PROVE i + 1 \in T
  <2>1. i + 1 \in 1 .. n /\ (i + 1) - 1 = i /\ i + 1 \in 0 .. n
    BY <1>1
  <2>2. r[i + 1] = Applied(r[i], ms[i + 1]) /\ Good(ms[i + 1]) /\ Sound(r[i])
    BY <1>1, <1>2, <1>5, <2>1
  <2>3. Sound(r[i + 1])
    BY <2>2, AppliedSound
  <2>4. ASSUME \A j \in (i + 1) + 1 .. n : ~Touches(ms[j].ev, p)
        PROVE  r[i + 1][p] \in {Absent, v}
    <3>1. CASE ~Touches(ms[i + 1].ev, p)
      <4>1. \A j \in i + 1 .. n : ~Touches(ms[j].ev, p)
        <5>1. \A j \in i + 1 .. n : j = i + 1 \/ j \in (i + 1) + 1 .. n
          BY <1>1
        <5>2. QED
          BY <2>4, <3>1, <5>1
      <4>2. r[i][p] \in {Absent, v}
        BY <1>5, <4>1
      <4>3. r[i + 1][p] \in {Absent, r[i][p]}
        <5> HIDE DEF T
        <5>1. QED
          BY <2>2, <3>1, <1>1, AppliedSound
      <4>4. QED
        BY <4>2, <4>3
    <3>2. CASE Touches(ms[i + 1].ev, p)
      <4>1. ms[i + 1].ev.op = "DELETE" \/ (ms[i + 1].ev.op = "NEW_FILE" /\ ms[i + 1].val = v)
        BY <1>3, <2>1, <2>4, <3>2
      <4>2. r[i + 1][p] = IF ms[i + 1].ev.op = "DELETE" THEN (IF Touches(ms[i + 1].ev, p) THEN Absent ELSE r[i][p])
                          ELSE IF p = ms[i + 1].ev.dst /\ ~NoParent(r[i], p)
                               THEN Brought(r[i], ms[i + 1].ev, ms[i + 1].val) ELSE r[i][p]
        BY <1>1, <2>2, AppliedAt DEF Good
      <4>3. NoParent(r[i], p) => r[i][p] = Absent
        BY <1>1, <2>2 DEF NoParent, Sound, Nested
      <4>4. QED
        BY <3>2, <4>1, <4>2, <4>3 DEF Brought, Touches
    <3>3. QED
      BY <3>1, <3>2
  <2>5. QED
    BY <2>1, <2>3, <2>4
<1>6. n \in T
  <2>1. n \in Nat /\ n \in 0 .. n
    BY <1>1
  <2> HIDE DEF T
  <2>2. \A i \in 0 .. n : i \in T
    BY <1>4, <1>5, <2>1, AllUpTo
  <2>3. QED
    BY <2>1, <2>2
<1>7. \A j \in n + 1 .. n : ~Touches(ms[j].ev, p)
  BY <1>1
<1>8. QED
  BY <1>2, <1>6, <1>7

LEMMA BothFacts ==
  ASSUME NEW E, NEW xa \in Seq(E), NEW xb \in Seq(E)
  PROVE  /\ Len(xa) \in Nat /\ Len(xb) \in Nat /\ xa \o xb \in Seq(E) /\ Len(xa \o xb) = Len(xa) + Len(xb)
         /\ \A i \in 1 .. Len(xa) : (xa \o xb)[i] = xa[i]
         /\ \A i \in 1 .. Len(xb) : (xa \o xb)[Len(xa) + i] = xb[i]
<1>1. Len(xa) \in Nat /\ Len(xb) \in Nat /\ Len(xa \o xb) = Len(xa) + Len(xb) /\ xa \o xb \in Seq(E)
  OBVIOUS
<1>2. \A i \in 1 .. Len(xa) : (xa \o xb)[i] = xa[i]
  OBVIOUS
<1>3. \A i \in 1 .. Len(xb) : (xa \o xb)[Len(xa) + i] = xb[i]
  OBVIOUS
<1>4. QED
  BY <1>1, <1>2, <1>3

\* One after the other is both.
LEMMA PlayBoth ==
  ASSUME NEW t, NEW ma \in Seq(Message), NEW mb \in Seq(Message)
  PROVE  Play(t, ma \o mb) = Play(Play(t, ma), mb)
<1> DEFINE all == ma \o mb
           m == Len(ma)
           n == Len(mb)
<1>0. Len(ma) \in Nat /\ Len(mb) \in Nat /\ m = Len(ma) /\ n = Len(mb)
  BY BothFacts
<1>1. /\ m \in Nat /\ n \in Nat /\ Len(all) = m + n
      /\ \A i \in 1 .. m : all[i] = ma[i]
      /\ \A i \in 1 .. n : all[m + i] = mb[i]
  BY BothFacts
<1> DEFINE r == Played(t, all)
<1> HIDE DEF all, m, n
<1>2. /\ r[0] = t /\ \A i \in 1 .. m + n : r[i] = Applied(r[i - 1], all[i])
      /\ Play(t, all) = r[m + n]
  <2>1. Len(all) \in Nat
    BY <1>1
  <2>2. /\ r[0] = t /\ \A i \in 1 .. Len(all) : r[i] = Applied(r[i - 1], all[i])
        /\ Play(t, all) = r[Len(all)]
    BY <2>1, PlaySteps
  <2>3. QED
    BY <1>1, <2>2
<1> HIDE DEF r
<1>3. r[m] = Play(t, ma)
  <2>1. \A i \in 1 .. m : r[i] = Applied(r[i - 1], ma[i])
    <3>1. \A i \in 1 .. m : i \in 1 .. m + n
      BY <1>1
    <3>2. QED
      BY <1>1, <1>2, <3>1
  <2>2. m \in 0 .. Len(ma) /\ Len(ma) \in Nat
    BY <1>0
  <2>3. r[m] = Played(t, ma)[m]
    <3>1. r[0] = t
      BY <1>2
    <3>2. QED
      BY <3>1, <2>1, <2>2, PlayUnique
  <2>4. QED
    BY <1>0, <2>2, <2>3, PlaySteps
<1> DEFINE g == [i \in 0 .. n |-> r[m + i]]
<1>4. ASSUME NEW i \in 1 .. n PROVE g[i] = Applied(g[i - 1], mb[i])
  <2>1. m + i \in 1 .. m + n /\ i \in 0 .. n /\ i - 1 \in 0 .. n /\ (m + i) - 1 = m + (i - 1)
    BY <1>1
  <2>2. QED
    BY <1>1, <1>2, <2>1
<1> DEFINE start == Play(t, ma)
<1>5. g[0] = start /\ g[n] = r[m + n] /\ n \in 0 .. Len(mb) /\ Len(mb) \in Nat
  <2>1. 0 \in 0 .. n /\ n \in 0 .. n /\ m + 0 = m
    BY <1>1
  <2>2. g[0] = start /\ g[n] = r[m + n]
    BY <1>3, <2>1
  <2>3. QED
    BY <1>0, <2>2
<1> HIDE DEF g, start
<1>6. g[n] = Played(start, mb)[n]
  BY <1>4, <1>5, PlayUnique
<1>7. Play(start, mb) = Played(start, mb)[n]
  BY <1>1, <1>0, PlaySteps
<1>8. QED
  BY <1>2, <1>5, <1>6, <1>7 DEF all, start

-----------------------------------------------------------------------------
(* Types *)

Ordinary(e) == Well(e) /\ (e.op \in {"MOVE", "COPY"} => e.op \in plan.ops)

\* An event that client c may give rise to: it is about a path that c edits, or
\* about one that its synchronisation brought back.
Spoiled(p) == \A c \in Clients : p \in missed[c]
By(c) == {e \in Event : Ordinary(e) /\ (c \in plan.editors[e.dst] \/ Spoiled(e.dst))}
Own(c) == {e \in Event : Ordinary(e) /\ c \in plan.editors[e.dst] /\ (e.op = "COPY" => c \in plan.editors[e.src])}
ByOthers(c) == {e \in Event : \E j \in Clients \ {c} : e \in By(j)}

Full(m) == m.ev.op = "NEW_FILE" => m.val # Absent
OwnMessage(c) == {m \in Message : m.ev \in Own(c)}
OthersMessage(c) == {m \in Message : m.ev \in ByOthers(c) /\ Full(m)}

Handling(c) == rcv[c].pc \in {"writing", "saved", "bcast"}
Before(c) == mode[c] \in {"off", "sync", "offer"}

EventsOK ==
    \A c \in Clients :
        /\ out[c] \in Seq(Own(c))
        /\ up[c] \in Seq(OwnMessage(c))
        /\ mode[c] = "live" => up[c] \in Seq({m \in OwnMessage(c) : Full(m)})
        /\ down[c] \in Seq(OthersMessage(c))
        /\ queue[c] \in Seq(ByOthers(c))
        /\ snd[c].busy => snd[c].ev \in ByOthers(c) /\ snd[c].ev.op = "NEW_FILE" /\ snd[c].val # Absent
        /\ Handling(c) => rcv[c].ev \in By(c)
        /\ rcv[c].pc = "bcast" => rcv[c].todo \subseteq {k \in Clients \ {c} : ~Before(k)}
        /\ rcv[c].pc = "writing" => rcv[c].ev.op = "NEW_FILE" /\ rcv[c].val # Absent

LEMMA SeqGrows ==
  ASSUME NEW S, NEW T, S \subseteq T, NEW s \in Seq(S)
  PROVE  s \in Seq(T)
  OBVIOUS

LEMMA PlanType ==
  ASSUME TypeOK
  PROVE  /\ plan.there \subseteq Clients /\ plan.joiners \subseteq Clients /\ plan.ops \subseteq Events
         /\ plan.editors \in [Paths -> SUBSET Clients] /\ plan.edits \in Nat
  BY PlansAssumption DEF TypeOK

LEMMA ReceiverFacts ==
  ASSUME NEW r \in Receiver
  PROVE  /\ r.pc \in {"idle", "dead", "writing", "saved", "bcast"}
         /\ r.pc = "idle" => r = Idle
         /\ r.pc = "writing" => /\ r \in [pc : {"writing"}, ev : Event, val : Content,
                                          ino : Files \cup {Absent}, clash : BOOLEAN]
                                /\ r.ev \in Event /\ r.val \in Content
                                /\ r.ino \in Files \cup {Absent} /\ r.clash \in BOOLEAN
         /\ r.pc = "saved" => r.ev \in Event
         /\ r.pc = "bcast" => r.ev \in Event /\ r.todo \subseteq Clients
  BY DEF Receiver, Idle, Dead

LEMMA ReceiverTypes ==
  /\ Idle \in Receiver /\ \A b \in BOOLEAN : Dead(b) \in Receiver
  /\ \A e \in Event, v \in Content, i \in Files \cup {Absent}, b \in BOOLEAN :
        [pc |-> "writing", ev |-> e, val |-> v, ino |-> i, clash |-> b] \in Receiver
  /\ \A e \in Event : [pc |-> "saved", ev |-> e] \in Receiver
  /\ \A e \in Event, s \in SUBSET Clients : [pc |-> "bcast", ev |-> e, todo |-> s] \in Receiver
  BY DEF Receiver, Idle, Dead

\* What another thread does to a file that is being written.
LEMMA RetargetFacts ==
  ASSUME NEW e, Well(e), NEW w \in Receiver, w.pc = "writing"
  PROVE  /\ Retarget(e, w) \in Receiver
         /\ Retarget(e, w).pc = "writing" /\ Retarget(e, w).ev = w.ev /\ Retarget(e, w).val = w.val
<1>1. w \in [pc : {"writing"}, ev : Event, val : Content, ino : Files \cup {Absent}, clash : BOOLEAN]
  BY ReceiverFacts
<1>2. e.op = "MOVE" => e.dst \in Files
  BY DEF Well
<1>3. /\ Retarget(e, w) \in [pc : {"writing"}, ev : Event, val : Content, ino : Files \cup {Absent}, clash : BOOLEAN]
      /\ Retarget(e, w).ev = w.ev /\ Retarget(e, w).val = w.val
  BY <1>1, <1>2 DEF Retarget
<1>4. QED
  BY <1>3 DEF Receiver

LEMMA EffectType ==
  ASSUME NEW t \in Tree, NEW e, Well(e), NEW v \in Content
  PROVE  Effect(t, e, v) \in Tree
<1>1. /\ e.dst \in Paths /\ e.src \in Paths /\ e.op \in Events
      /\ t = [p \in Paths |-> t[p]] /\ \A p \in Paths : t[p] \in Content
      /\ Absent \in Content /\ Torn \in Content /\ Dir \in Content
  BY DEF Well, Event, Tree, Content
<1> DEFINE at(p) == Effect(t, e, v)[p]
<1>2. CASE e.op \in {"NEW_FILE", "NEW_DIRECTORY"}
  BY <1>1, <1>2 DEF Effect, Tree
<1>3. CASE e.op = "DELETE"
  BY <1>1, <1>3 DEF Effect, Tree
<1>4. CASE e.op = "MOVE"
  BY <1>1, <1>4 DEF Effect, Tree
<1>5. CASE e.op = "COPY"
  BY <1>1, <1>5 DEF Effect, Tree
<1>6. QED
  BY <1>1, <1>2, <1>3, <1>4, <1>5 DEF Events

\* The state of the other receivers is what it was, but for the file being written.
Kept(k) ==
    /\ rcv'[k].pc = rcv[k].pc
    /\ rcv'[k] = rcv[k] \/ rcv[k].pc = "writing"
    /\ rcv[k].pc = "writing" => rcv'[k].ev = rcv[k].ev /\ rcv'[k].val = rcv[k].val

LEMMA ClashFacts ==
  ASSUME NEW w \in Receiver, w.pc = "writing"
  PROVE  /\ [w EXCEPT !.clash = TRUE] \in Receiver
         /\ [w EXCEPT !.clash = TRUE].pc = w.pc /\ [w EXCEPT !.clash = TRUE].ev = w.ev
         /\ [w EXCEPT !.clash = TRUE].val = w.val /\ [w EXCEPT !.clash = TRUE].ino = w.ino
<1>1. w \in [pc : {"writing"}, ev : Event, val : Content, ino : Files \cup {Absent}, clash : BOOLEAN]
  BY ReceiverFacts
<1>2. [w EXCEPT !.clash = TRUE] \in [pc : {"writing"}, ev : Event, val : Content, ino : Files \cup {Absent}, clash : BOOLEAN]
  BY <1>1
<1>3. QED
  BY <1>1, <1>2 DEF Receiver

LEMMA OpenFacts ==
  ASSUME TypeOK, NEW c \in Clients, NEW m \in Message, Well(m.ev), m.ev.op = "NEW_FILE",
         rcv[c].pc # "writing", Open(c, m)
  PROVE  /\ folder' \in Tree /\ rcv' \in [Clients -> Receiver]
         /\ folder' = Applied(folder, [ev |-> m.ev, val |-> Torn])
         /\ \A k \in Clients \ {c} : Kept(k)
         /\ IF Fails(folder, m.ev) THEN rcv'[c] = Dead(TRUE)
            ELSE /\ rcv'[c].pc = "writing" /\ rcv'[c].ev = m.ev /\ rcv'[c].val = m.val
                 /\ rcv'[c].ino = m.ev.dst /\ (rcv'[c].clash <=> Writers(m.ev.dst) # {})
<1>1. m.ev \in Event /\ m.val \in Content /\ m.ev.dst \in Files
  BY DEF Message, Well
<1>2. folder \in Tree /\ rcv \in [Clients -> Receiver] /\ \A k \in Clients : rcv[k] \in Receiver
  BY DEF TypeOK
<1>3. CASE Fails(folder, m.ev)
  <2>1. folder' = folder /\ rcv' = [rcv EXCEPT ![c] = Dead(TRUE)]
    BY <1>3 DEF Open
  <2>2. folder' = Applied(folder, [ev |-> m.ev, val |-> Torn])
    BY <1>3, <2>1 DEF Applied
  <2>3. QED
    BY <1>2, <1>3, <2>1, <2>2, ReceiverTypes DEF Kept
<1>4. CASE ~Fails(folder, m.ev)
  <2>1. folder' = [folder EXCEPT ![m.ev.dst] = Torn]
    BY <1>4 DEF Open
  <2>2. folder' = Effect(folder, m.ev, Torn)
    BY <2>1 DEF Effect
  <2>3. folder' = Applied(folder, [ev |-> m.ev, val |-> Torn])
    BY <1>4, <2>2 DEF Applied
  <2>4. folder' \in Tree
    <3>1. Torn \in Content
      BY DEF Content
    <3>2. QED
      BY <1>2, <2>2, <3>1, EffectType
  <2> DEFINE new == [pc |-> "writing", ev |-> m.ev, val |-> m.val, ino |-> m.ev.dst, clash |-> Writers(m.ev.dst) # {}]
  <2>5. new \in Receiver
    BY <1>1, ReceiverTypes
  <2>5a. /\ new.pc = "writing" /\ new.ev = m.ev /\ new.val = m.val
         /\ new.ino = m.ev.dst /\ (new.clash <=> Writers(m.ev.dst) # {})
    OBVIOUS
  <2> HIDE DEF new
  <2>6. rcv' = [k \in Clients |-> IF k = c THEN new
                                 ELSE IF k \in Writers(m.ev.dst) THEN [rcv[k] EXCEPT !.clash = TRUE]
                                 ELSE rcv[k]]
    BY <1>4 DEF Open, new
  <2>7. ASSUME NEW k \in Clients \ {c} PROVE rcv'[k] \in Receiver /\ Kept(k)
    <3>1. CASE k \in Writers(m.ev.dst)
      <4>1. rcv[k].pc = "writing" /\ rcv'[k] = [rcv[k] EXCEPT !.clash = TRUE]
        BY <2>6, <3>1 DEF Writers
      <4>2. QED
        BY <1>2, <4>1, ClashFacts DEF Kept
    <3>2. CASE k \notin Writers(m.ev.dst)
      BY <1>2, <2>6, <3>2 DEF Kept
    <3>3. QED
      BY <3>1, <3>2
  <2>8. rcv'[c] = new
    BY <2>6
  <2>9. rcv' \in [Clients -> Receiver]
    BY <2>5, <2>6, <2>7, <2>8
  <2>10. QED
    BY <1>4, <2>3, <2>4, <2>5a, <2>7, <2>8, <2>9
<1>5. QED
  BY <1>3, <1>4

LEMMA BehindType ==
  ASSUME TypeOK, missed' = Behind
  PROVE  missed' \in [Clients -> SUBSET Paths] /\ \A c \in Clients : missed[c] \subseteq missed'[c]
  BY DEF TypeOK, Behind

LEMMA Heads ==
  ASSUME TypeOK, EventsOK, NEW c \in Clients
  PROVE  /\ out[c] # <<>> => Head(out[c]) \in Own(c) /\ Tail(out[c]) \in Seq(Own(c))
         /\ up[c] # <<>> => Head(up[c]) \in OwnMessage(c) /\ Tail(up[c]) \in Seq(OwnMessage(c))
         /\ down[c] # <<>> => Head(down[c]) \in OthersMessage(c) /\ Tail(down[c]) \in Seq(OthersMessage(c))
         /\ queue[c] # <<>> => Head(queue[c]) \in ByOthers(c) /\ Tail(queue[c]) \in Seq(ByOthers(c))
         /\ out[c] # <<>> => Tail(out[c]) \in Seq(Event)
         /\ up[c] # <<>> => Tail(up[c]) \in Seq(Message)
         /\ down[c] # <<>> => Tail(down[c]) \in Seq(Message)
         /\ queue[c] # <<>> => Tail(queue[c]) \in Seq(Event)
<1>1. /\ out[c] \in Seq(Own(c)) /\ up[c] \in Seq(OwnMessage(c))
      /\ down[c] \in Seq(OthersMessage(c)) /\ queue[c] \in Seq(ByOthers(c))
  BY DEF EventsOK
<1>2. out[c] \in Seq(Event) /\ up[c] \in Seq(Message) /\ down[c] \in Seq(Message) /\ queue[c] \in Seq(Event)
  BY DEF TypeOK
<1>3. QED
  BY <1>1, <1>2

LEMMA Members ==
  ASSUME NEW c \in Clients
  PROVE  /\ \A e \in Own(c) : e \in Event /\ Well(e) /\ e \in By(c)
         /\ \A e \in By(c) : e \in Event /\ Well(e)
         /\ \A e \in ByOthers(c) : e \in Event /\ Well(e)
         /\ \A m \in OwnMessage(c) : m \in Message /\ m.ev \in Own(c) /\ Well(m.ev) /\ m.ev \in Event /\ m.val \in Content
         /\ \A m \in OthersMessage(c) : m \in Message /\ m.ev \in ByOthers(c) /\ Well(m.ev) /\ m.ev \in Event /\ m.val \in Content
<1>1. /\ \A e \in Own(c) : e \in Event /\ Well(e) /\ e \in By(c)
      /\ \A e \in By(c) : e \in Event /\ Well(e)
  BY DEF Own, By, Ordinary
<1>2. \A e \in ByOthers(c) : e \in Event /\ Well(e)
  BY DEF ByOthers, By, Ordinary
<1>3. \A m \in Message : m.ev \in Event /\ m.val \in Content
  BY DEF Message
<1>4. QED
  BY <1>1, <1>2, <1>3 DEF OwnMessage, OthersMessage

LEMMA SenderFacts ==
  ASSUME NEW r \in Sender, r.busy
  PROVE  r.ev \in Event /\ r.val \in Content
<1>1. r # NoSend
  BY DEF NoSend
<1>2. r \in [busy : {TRUE}, ev : Event, val : Content]
  BY <1>1 DEF Sender
<1>3. QED
  BY <1>2

LEMMA TypeStep ==
  ASSUME TypeOK, EventsOK, Next
  PROVE  TypeOK'
<1> USE DEF TypeOK
<1>0. /\ \A c \in Clients : /\ rcv[c] \in Receiver /\ copy[c] \in Tree /\ up[c] \in Seq(Message)
                            /\ snd[c] \in Sender /\ down[c] \in Seq(Message) /\ walk[c] \in Walk
      /\ folder \in Tree /\ \A c \in Clients, p \in Paths : copy[c][p] \in Content /\ folder[p] \in Content
      /\ Torn \in Content /\ Dir \in Content
  BY DEF Tree, Content
<1>1. ASSUME NEW c \in Clients, NEW op \in plan.ops, NEW p \in Paths, NEW q \in Paths,
             Edit(c, [op |-> op, src |-> p, dst |-> q])
      PROVE  TypeOK'
  <2> DEFINE e == [op |-> op, src |-> p, dst |-> q]
  <2>1. e \in Event /\ e.op \in Events
    BY PlanType DEF Event
  <2>2. Editable(copy[c], e)
    BY <1>1 DEF Edit
  <2>3. Well(e)
    BY <2>1, <2>2 DEF Editable, Well, Events
  <2>4. edits' = edits + 1 /\ edits < plan.edits /\ edits' \in Content /\ edits' \in 0 .. plan.edits
    <3>1. edits' = edits + 1 /\ edits < plan.edits /\ plan.edits \in Nat /\ edits \in 0 .. plan.edits
      BY <1>1, PlanType DEF Edit
    <3>2. QED
      BY <3>1 DEF Content
  <2>5. Effect(copy[c], e, edits') \in Tree
    BY <1>0, <2>3, <2>4, EffectType
  <2>6. copy' \in [Clients -> Tree]
    BY <1>1, <2>5 DEF Edit
  <2>7. Reports(e) \in Seq(Event)
    <3>1. [op |-> "NEW_FILE", src |-> e.dst, dst |-> e.dst] \in Event
      BY <2>1 DEF Event, Events
    <3> HIDE DEF e
    <3>2. QED
      BY <2>1, <3>1 DEF Reports
  <2> HIDE DEF e
  <2>8. out' \in [Clients -> Seq(Event)]
    BY <1>1, <2>7 DEF Edit, e
  <2>9. QED
    BY <1>1, <2>4, <2>6, <2>8 DEF Edit
<1>2. ASSUME NEW c \in Clients, ClientSend(c) PROVE TypeOK'
  <2> DEFINE e == Head(out[c])
             m == [ev |-> e, val |-> copy[c][e.dst]]
  <2>1. out[c] # <<>> /\ e \in Event /\ Tail(out[c]) \in Seq(Event)
    BY <1>2, Heads, Members DEF ClientSend
  <2>2. m \in Message
    BY <1>0, <2>1 DEF Message, Event
  <2>3. Append(up[c], m) \in Seq(Message)
    BY <1>0, <2>2
  <2>4. out' \in [Clients -> Seq(Event)] /\ up' \in [Clients -> Seq(Message)]
    BY <1>2, <2>1, <2>3 DEF ClientSend
  <2>5. mode' \in [Clients -> Modes]
    BY <1>2 DEF ClientSend, Modes
  <2>6. QED
    BY <1>2, <2>4, <2>5 DEF ClientSend
<1>3. ASSUME NEW c \in Clients, ClientReceive(c) PROVE TypeOK'
  <2> DEFINE m == Head(down[c])
  <2>1. m \in Message /\ Well(m.ev) /\ m.val \in Content /\ Tail(down[c]) \in Seq(Message)
    BY <1>3, Heads, Members DEF ClientReceive
  <2>2. Effect(copy[c], m.ev, m.val) \in Tree
    BY <1>0, <2>1, EffectType
  <2>3. copy' \in [Clients -> Tree]
    BY <1>3, <2>2 DEF ClientReceive
  <2>4. mode' \in [Clients -> Modes]
    BY <1>3 DEF ClientReceive, Modes
  <2>5. QED
    BY <1>3, <2>1, <2>3, <2>4 DEF ClientReceive
<1>4. ASSUME NEW c \in Clients, StartFile(c) PROVE TypeOK'
  <2>1. Head(up[c]) \in Message /\ Well(Head(up[c]).ev) /\ Tail(up[c]) \in Seq(Message)
    BY <1>4, Heads, Members DEF StartFile
  <2>2. folder' \in Tree /\ rcv' \in [Clients -> Receiver]
    BY <1>4, <2>1, OpenFacts DEF StartFile
  <2>3. missed' \in [Clients -> SUBSET Paths]
    BY <1>4, BehindType DEF StartFile
  <2>4. QED
    BY <1>4, <2>1, <2>2, <2>3 DEF StartFile
<1>5. ASSUME NEW c \in Clients, StartCutFile(c) PROVE TypeOK'
  <2> DEFINE e == Head(up[c]).ev
  <2>1. e \in Event /\ Tail(up[c]) \in Seq(Message) /\ e.dst \in Paths
    BY <1>5, Heads, Members DEF StartCutFile, Event
  <2>2. CASE Fails(folder, e)
    BY <1>5, <2>1, <2>2, ReceiverTypes DEF StartCutFile
  <2>3. CASE ~Fails(folder, e)
    <3>1. folder' = [folder EXCEPT ![e.dst] = Torn] /\ missed' = [k \in Clients |-> missed[k] \cup {e.dst}]
      BY <1>5, <2>3 DEF StartCutFile
    <3>2. folder' \in Tree /\ missed' \in [Clients -> SUBSET Paths]
      BY <1>0, <2>1, <3>1 DEF Tree
    <3>3. rcv' = [k \in Clients |-> IF k = c THEN Dead(TRUE)
                                   ELSE IF k \in Writers(e.dst) THEN [rcv[k] EXCEPT !.clash = TRUE]
                                   ELSE rcv[k]]
      BY <1>5, <2>3 DEF StartCutFile
    <3>4. \A k \in Writers(e.dst) : k \in Clients /\ rcv[k].pc = "writing"
      BY DEF Writers
    <3>5. \A k \in Clients : rcv'[k] \in Receiver
      BY <1>0, <3>3, <3>4, ReceiverTypes, ClashFacts
    <3>6. rcv' \in [Clients -> Receiver]
      BY <3>3, <3>5
    <3>7. QED
      BY <1>5, <2>1, <3>2, <3>6 DEF StartCutFile
  <2>4. QED
    BY <2>2, <2>3
<1>6. ASSUME NEW c \in Clients, FinishFile(c) PROVE TypeOK'
  <2>1. rcv[c].ev \in Event /\ rcv[c].val \in Content /\ rcv[c].ino \in Files \cup {Absent}
    BY <1>0, <1>6, ReceiverFacts DEF FinishFile
  <2>2. PICK v \in {rcv[c].val} \cup (IF rcv[c].clash THEN {Torn} ELSE {}) :
            folder' = IF rcv[c].ino = Absent THEN folder ELSE [folder EXCEPT ![rcv[c].ino] = v]
    BY <1>6 DEF FinishFile
  <2>3. v \in Content
    BY <1>0, <2>1, <2>2
  <2>4. folder' \in Tree
    BY <1>0, <2>1, <2>2, <2>3 DEF Tree, Paths
  <2>5. rcv' = [rcv EXCEPT ![c] = IF folder'[rcv[c].ev.dst] = Absent THEN Dead(TRUE)
                                  ELSE [pc |-> "saved", ev |-> rcv[c].ev]]
    BY <1>6 DEF FinishFile
  <2>6. rcv' \in [Clients -> Receiver]
    BY <2>1, <2>5, ReceiverTypes
  <2>7. missed' \in [Clients -> SUBSET Paths]
    BY <1>6, BehindType DEF FinishFile
  <2>8. QED
    BY <1>6, <2>4, <2>6, <2>7 DEF FinishFile
<1>7. ASSUME NEW c \in Clients, ReceivePath(c) PROVE TypeOK'
  <2> DEFINE e == Head(up[c]).ev
             v == Head(up[c]).val
  <2>1. e \in Event /\ Well(e) /\ v \in Content /\ Tail(up[c]) \in Seq(Message)
    BY <1>7, Heads, Members DEF ReceivePath
  <2>2. missed' \in [Clients -> SUBSET Paths]
    BY <1>7, BehindType DEF ReceivePath
  <2>3. CASE Fails(folder, e)
    <3>1. rcv' = [rcv EXCEPT ![c] = Dead(e.op # "NEW_DIRECTORY")] /\ folder' = folder
      BY <1>7, <2>3 DEF ReceivePath
    <3>2. rcv' \in [Clients -> Receiver]
      BY <3>1, ReceiverTypes
    <3>3. QED
      BY <1>7, <2>1, <2>2, <3>1, <3>2 DEF ReceivePath
  <2>4. CASE ~Fails(folder, e)
    <3>1. folder' = Effect(folder, e, v)
      BY <1>7, <2>4 DEF ReceivePath
    <3>2. folder' \in Tree
      BY <1>0, <2>1, <3>1, EffectType
    <3>3. rcv' = [k \in Clients |-> IF k = c THEN [pc |-> "saved", ev |-> e]
                                   ELSE IF rcv[k].pc = "writing" THEN Retarget(e, rcv[k])
                                   ELSE rcv[k]]
      BY <1>7, <2>4 DEF ReceivePath
    <3> HIDE DEF e
    <3>4. \A k \in Clients : rcv'[k] \in Receiver
      BY <1>0, <2>1, <3>3, RetargetFacts, ReceiverTypes
    <3>5. rcv' \in [Clients -> Receiver]
      BY <3>3, <3>4
    <3>6. QED
      BY <1>7, <2>1, <2>2, <3>2, <3>5 DEF ReceivePath
  <2>5. QED
    BY <2>3, <2>4
<1>8. ASSUME NEW c \in Clients, StartBroadcast(c) PROVE TypeOK'
  <2>1. rcv' = [rcv EXCEPT ![c] = [pc |-> "bcast", ev |-> rcv[c].ev, todo |-> Targets(c)]] /\ rcv[c].pc = "saved"
    BY <1>8 DEF StartBroadcast
  <2>2. rcv[c].ev \in Event /\ Targets(c) \in SUBSET Clients
    BY <1>0, <2>1, ReceiverFacts DEF Targets, Registered
  <2>3. rcv' \in [Clients -> Receiver]
    BY <2>1, <2>2, ReceiverTypes
  <2>4. QED
    BY <1>8, <2>3 DEF StartBroadcast
<1>9. ASSUME NEW c \in Clients, NEW k \in Clients, Enqueue(c, k) PROVE TypeOK'
  <2>1. rcv[c].pc = "bcast" /\ rcv' = [rcv EXCEPT ![c].todo = @ \ {k}]
    BY <1>9 DEF Enqueue
  <2>2. rcv[c] \in [pc : {"bcast"}, ev : Event, todo : SUBSET Clients]
    BY <1>0, <2>1 DEF Receiver, Idle, Dead
  <2>3. [rcv[c] EXCEPT !.todo = rcv[c].todo \ {k}] \in [pc : {"bcast"}, ev : Event, todo : SUBSET Clients]
    BY <2>2
  <2>4. [rcv[c] EXCEPT !.todo = rcv[c].todo \ {k}] \in Receiver
    BY <2>3 DEF Receiver
  <2>5. rcv' \in [Clients -> Receiver]
    BY <2>1, <2>4
  <2>6. Append(queue[k], rcv[c].ev) \in Seq(Event)
    BY <2>2
  <2>7. queue' \in [Clients -> Seq(Event)]
    BY <1>9, <2>6 DEF Enqueue
  <2>8. QED
    BY <1>9, <2>5, <2>7 DEF Enqueue
<1>10. ASSUME NEW c \in Clients, EndBroadcast(c) PROVE TypeOK'
  BY <1>10, ReceiverTypes DEF EndBroadcast
<1>11. ASSUME NEW c \in Clients, StartSend(c) PROVE TypeOK'
  <2> DEFINE e == Head(queue[c])
  <2>1. e \in Event /\ e.dst \in Paths /\ Tail(queue[c]) \in Seq(Event) /\ folder[e.dst] \in Content
    BY <1>0, <1>11, Heads, Members DEF StartSend, Event
  <2>2. queue' \in [Clients -> Seq(Event)]
    BY <1>11, <2>1 DEF StartSend
  <2>3. [ev |-> e, val |-> folder[e.dst]] \in Message /\ [busy |-> TRUE, ev |-> e, val |-> folder[e.dst]] \in Sender
    BY <2>1 DEF Message, Sender
  <2>4. Append(down[c], [ev |-> e, val |-> folder[e.dst]]) \in Seq(Message)
    BY <2>3
  <2>5. down' \in [Clients -> Seq(Message)] /\ snd' \in [Clients -> Sender] /\ mode' \in [Clients -> Modes]
    BY <1>11, <2>3, <2>4 DEF StartSend, Closed, Modes
  <2>6. QED
    BY <1>11, <2>2, <2>5 DEF StartSend
<1>12. ASSUME NEW c \in Clients, FinishSend(c) PROVE TypeOK'
  <2> DEFINE e == snd[c].ev
  <2>1. e \in Event /\ snd[c].val \in Content /\ e.dst \in Paths
    <3>1. snd[c] \in Sender /\ snd[c].busy
      BY <1>0, <1>12 DEF FinishSend
    <3>2. QED
      BY <3>1, SenderFacts DEF Event
  <2>2. \A v \in Read(folder[e.dst], snd[c].val) : v \in Content
    BY <1>0, <2>1 DEF Read
  <2>3. \A v \in Content : Append(down[c], [ev |-> e, val |-> v]) \in Seq(Message)
    <3>1. \A v \in Content : [ev |-> e, val |-> v] \in Message
      BY <2>1 DEF Message
    <3>2. QED
      BY <1>0, <3>1
  <2>4. snd' \in [Clients -> Sender]
    BY <1>12 DEF FinishSend, Sender
  <2> HIDE DEF e
  <2>5. down' \in [Clients -> Seq(Message)] /\ mode' \in [Clients -> Modes]
    <3>1. CASE folder[e.dst] = Absent
      BY <1>12, <3>1 DEF FinishSend, Closed, Modes, e
    <3>2. CASE folder[e.dst] # Absent
      <4>1. PICK v \in Read(folder[e.dst], snd[c].val) : down' = [down EXCEPT ![c] = Append(@, [ev |-> e, val |-> v])]
        BY <1>12, <3>2 DEF FinishSend, e
      <4>2. QED
        BY <1>12, <2>2, <2>3, <3>2, <4>1 DEF FinishSend, e
    <3>3. QED
      BY <3>1, <3>2
  <2>6. QED
    BY <1>12, <2>4, <2>5 DEF FinishSend
<1>13. ASSUME NEW c \in Clients, Join(c) PROVE TypeOK'
  <2>1. mode' \in [Clients -> Modes]
    BY <1>13 DEF Join, Modes
  <2>2. PICK seen \in SUBSET {p \in Paths : plan.editors[p] # {}} : walk' = [walk EXCEPT ![c] = [todo |-> seen, at |-> {}]]
    BY <1>13 DEF Join
  <2>3. walk' \in [Clients -> Walk]
    BY <2>2 DEF Walk
  <2>4. QED
    BY <1>13, <2>1, <2>3 DEF Join
<1>14. ASSUME NEW c \in Clients, NEW p \in Paths, Visit(c, p) PROVE TypeOK'
  <2>1. walk' \in [Clients -> Walk]
    BY <1>0, <1>14 DEF Visit, Walk
  <2>2. QED
    BY <1>14, <2>1 DEF Visit
<1>15. ASSUME NEW c \in Clients, NEW p \in Paths, Offer(c, p) PROVE TypeOK'
  <2>1. walk' \in [Clients -> Walk]
    BY <1>0, <1>15 DEF Offer, Walk
  <2>2. CASE folder[p] = Absent
    BY <1>15, <2>1, <2>2, ReceiverTypes DEF Offer
  <2>3. CASE folder[p] # Absent
    <3>1. PICK v \in {folder[p]} \cup (IF p \in Files \cap missed[c] THEN {Torn} ELSE {}) : copy' = [copy EXCEPT ![c][p] = v]
      BY <1>15, <2>3 DEF Offer
    <3>2. v \in Content
      BY <1>0, <3>1
    <3>3. copy' \in [Clients -> Tree]
      BY <3>1, <3>2 DEF Tree
    <3>4. QED
      BY <1>15, <2>1, <2>3, <3>3 DEF Offer
  <2>4. QED
    BY <2>2, <2>3
<1>16. ASSUME NEW c \in Clients, TurnAround(c) PROVE TypeOK'
  <2>1. walk' \in [Clients -> Walk] /\ mode' \in [Clients -> Modes]
    BY <1>0, <1>16 DEF TurnAround, Walk, Modes
  <2>2. QED
    BY <1>16, <2>1 DEF TurnAround
<1>17. ASSUME NEW c \in Clients, NEW p \in Paths, Return(c, p) PROVE TypeOK'
  <2>1. walk' \in [Clients -> Walk]
    BY <1>0, <1>17 DEF Return, Walk
  <2>2. missed' \in [Clients -> SUBSET Paths]
    BY <1>17 DEF Return
  <2>3. folder' \in Tree /\ rcv' \in [Clients -> Receiver]
    <3>1. CASE folder[p] # Absent
      BY <1>17, <3>1 DEF Return
    <3>2. CASE folder[p] = Absent /\ p \in Files
      <4> DEFINE m == [ev |-> [op |-> "NEW_FILE", src |-> p, dst |-> p], val |-> copy[c][p]]
      <4>1. m \in Message /\ Well(m.ev) /\ m.ev.op = "NEW_FILE"
        BY <1>0, <3>2 DEF Message, Well, Event, Events
      <4>2. Open(c, m) /\ rcv[c].pc = "idle"
        BY <1>17, <3>2 DEF Return
      <4> HIDE DEF m
      <4>3. QED
        BY <4>1, <4>2, OpenFacts
    <3>3. CASE folder[p] = Absent /\ p \notin Files
      <4>1. [op |-> "NEW_DIRECTORY", src |-> p, dst |-> p] \in Event
        BY DEF Event, Events
      <4>2. folder' = [folder EXCEPT ![p] = Dir]
            /\ rcv' = [rcv EXCEPT ![c] = [pc |-> "saved", ev |-> [op |-> "NEW_DIRECTORY", src |-> p, dst |-> p]]]
        BY <1>17, <3>3 DEF Return
      <4>3. QED
        BY <1>0, <4>1, <4>2, ReceiverTypes DEF Tree
    <3>4. QED
      BY <3>1, <3>2, <3>3
  <2>4. QED
    BY <1>17, <2>1, <2>2, <2>3 DEF Return
<1>18. ASSUME NEW c \in Clients, Register(c) PROVE TypeOK'
  BY <1>18 DEF Register, Modes
<1>19. QED
  BY <1>1, <1>2, <1>3, <1>4, <1>5, <1>6, <1>7, <1>8, <1>9, <1>10, <1>11, <1>12, <1>13, <1>14, <1>15,
     <1>16, <1>17, <1>18 DEF Next, UserStep, ClientStep, ReceiverStep, SenderStep, SyncStep

Edits == \E c \in Clients, op \in plan.ops, p, q \in Paths : Edit(c, [op |-> op, src |-> p, dst |-> q])

\* The actions that change each of the variables.
Changes ==
    /\ plan' = plan
    /\ folder' = folder \/ \E c \in Clients : \/ StartFile(c) \/ StartCutFile(c) \/ FinishFile(c)
                                              \/ ReceivePath(c) \/ \E p \in Paths : Return(c, p)
    /\ copy' = copy \/ Edits \/ \E c \in Clients : ClientReceive(c) \/ \E p \in Paths : Offer(c, p)
    /\ mode' = mode \/ \E c \in Clients : \/ ClientSend(c) \/ ClientReceive(c) \/ StartSend(c) \/ FinishSend(c)
                                          \/ Join(c) \/ TurnAround(c) \/ Register(c)
    /\ out' = out \/ Edits \/ \E c \in Clients : ClientSend(c)
    /\ up' = up \/ \E c \in Clients : ClientSend(c) \/ StartFile(c) \/ StartCutFile(c) \/ ReceivePath(c)
    /\ down' = down \/ \E c \in Clients : ClientReceive(c) \/ StartSend(c) \/ FinishSend(c)
    /\ rcv' = rcv \/ \E c \in Clients : \/ StartFile(c) \/ StartCutFile(c) \/ FinishFile(c) \/ ReceivePath(c)
                                        \/ StartBroadcast(c) \/ (\E k \in Clients : Enqueue(c, k)) \/ EndBroadcast(c)
                                        \/ \E p \in Paths : Offer(c, p) \/ Return(c, p)
    /\ queue' = queue \/ \E c \in Clients : StartSend(c) \/ \E k \in Clients : Enqueue(c, k)
    /\ snd' = snd \/ \E c \in Clients : StartSend(c) \/ FinishSend(c)
    /\ walk' = walk \/ \E c \in Clients : \/ Join(c) \/ TurnAround(c)
                                          \/ \E p \in Paths : Visit(c, p) \/ Offer(c, p) \/ Return(c, p)
    /\ missed' = missed \/ \E c \in Clients : \/ StartFile(c) \/ StartCutFile(c) \/ FinishFile(c)
                                              \/ ReceivePath(c) \/ \E p \in Paths : Return(c, p)

LEMMA WhoChanges ==
  ASSUME Next
  PROVE  Changes
<1>1. CASE Edits
  <2>1. PICK c \in Clients, op \in plan.ops, p \in Paths, q \in Paths : Edit(c, [op |-> op, src |-> p, dst |-> q])
    BY <1>1 DEF Edits
  <2>2. UNCHANGED <<folder, mode, up, down, rcv, queue, snd, walk, missed, plan>>
    BY <2>1 DEF Edit
  <2>3. QED
    BY <1>1, <2>2 DEF Changes
<1>2. ASSUME NEW c \in Clients, ClientSend(c)
      PROVE  Changes
  <2>1. UNCHANGED <<folder, copy, down, rcv, queue, snd, walk, missed, edits, plan>>
    BY <1>2 DEF ClientSend
  <2>2. QED
    BY <1>2, <2>1 DEF Changes
<1>3. ASSUME NEW c \in Clients, ClientReceive(c)
      PROVE  Changes
  <2>1. UNCHANGED <<folder, out, up, rcv, queue, snd, walk, missed, edits, plan>>
    BY <1>3 DEF ClientReceive
  <2>2. QED
    BY <1>3, <2>1 DEF Changes
<1>4. ASSUME NEW c \in Clients, StartFile(c) \/ StartCutFile(c) \/ ReceivePath(c)
      PROVE  Changes
  <2>1. UNCHANGED <<copy, mode, out, down, queue, snd, walk, edits, plan>>
    BY <1>4 DEF StartFile, StartCutFile, ReceivePath
  <2>2. QED
    BY <1>4, <2>1 DEF Changes
<1>5. ASSUME NEW c \in Clients, FinishFile(c)
      PROVE  Changes
  <2>1. UNCHANGED <<copy, mode, out, up, down, queue, snd, walk, edits, plan>>
    BY <1>5 DEF FinishFile
  <2>2. QED
    BY <1>5, <2>1 DEF Changes
<1>6. ASSUME NEW c \in Clients, StartBroadcast(c) \/ EndBroadcast(c)
      PROVE  Changes
  <2>1. UNCHANGED <<folder, copy, mode, out, up, down, queue, snd, walk, missed, edits, plan>>
    BY <1>6 DEF StartBroadcast, EndBroadcast
  <2>2. QED
    BY <1>6, <2>1 DEF Changes
<1>7. ASSUME NEW c \in Clients, NEW k \in Clients, Enqueue(c, k)
      PROVE  Changes
  <2>1. UNCHANGED <<folder, copy, mode, out, up, down, snd, walk, missed, edits, plan>>
    BY <1>7 DEF Enqueue
  <2>2. QED
    BY <1>7, <2>1 DEF Changes
<1>8. ASSUME NEW c \in Clients, StartSend(c)
      PROVE  Changes
  <2>1. UNCHANGED <<folder, copy, out, up, rcv, walk, missed, edits, plan>>
    BY <1>8 DEF StartSend
  <2>2. QED
    BY <1>8, <2>1 DEF Changes
<1>9. ASSUME NEW c \in Clients, FinishSend(c)
      PROVE  Changes
  <2>1. UNCHANGED <<folder, copy, out, up, rcv, queue, walk, missed, edits, plan>>
    BY <1>9 DEF FinishSend
  <2>2. QED
    BY <1>9, <2>1 DEF Changes
<1>10. ASSUME NEW c \in Clients, Join(c) \/ TurnAround(c) \/ Register(c)
      PROVE  Changes
  <2>1. UNCHANGED <<folder, copy, out, up, down, rcv, queue, snd, missed, edits, plan>>
        /\ (Register(c) => walk' = walk)
    BY <1>10 DEF Join, TurnAround, Register
  <2>2. QED
    BY <1>10, <2>1 DEF Changes
<1>11. ASSUME NEW c \in Clients, NEW p \in Paths, Visit(c, p)
      PROVE  Changes
  <2>1. UNCHANGED <<folder, copy, mode, out, up, down, rcv, queue, snd, missed, edits, plan>>
    BY <1>11 DEF Visit
  <2>2. QED
    BY <1>11, <2>1 DEF Changes
<1>12. ASSUME NEW c \in Clients, NEW p \in Paths, Offer(c, p)
      PROVE  Changes
  <2>1. UNCHANGED <<folder, mode, out, up, down, queue, snd, missed, edits, plan>>
    BY <1>12 DEF Offer
  <2>2. QED
    BY <1>12, <2>1 DEF Changes
<1>13. ASSUME NEW c \in Clients, NEW p \in Paths, Return(c, p)
      PROVE  Changes
  <2>1. UNCHANGED <<copy, mode, out, up, down, queue, snd, edits, plan>>
    BY <1>13 DEF Return
  <2>2. QED
    BY <1>13, <2>1 DEF Changes
<1>14. QED
  BY <1>1, <1>2, <1>3, <1>4, <1>5, <1>6, <1>7, <1>8, <1>9, <1>10, <1>11, <1>12, <1>13
  DEF Next, UserStep, Edits, ClientStep, ReceiverStep, SenderStep, SyncStep

LEMMA MissedGrows ==
  ASSUME TypeOK, Next
  PROVE  \A c \in Clients : missed[c] \subseteq missed'[c]
<1>1. missed \in [Clients -> SUBSET Paths]
  BY DEF TypeOK
<1>2. ASSUME NEW c \in Clients, StartFile(c) \/ FinishFile(c) \/ ReceivePath(c)
      PROVE  \A k \in Clients : missed[k] \subseteq missed'[k]
  <2>1. missed' = Behind
    BY <1>2 DEF StartFile, FinishFile, ReceivePath
  <2>2. QED
    BY <2>1, BehindType
<1>3. ASSUME NEW c \in Clients, StartCutFile(c)
      PROVE  \A k \in Clients : missed[k] \subseteq missed'[k]
  BY <1>1, <1>3 DEF StartCutFile
<1>4. ASSUME NEW c \in Clients, NEW p \in Paths, Return(c, p)
      PROVE  \A k \in Clients : missed[k] \subseteq missed'[k]
  BY <1>1, <1>4 DEF Return
<1>5. QED
  BY <1>2, <1>3, <1>4, WhoChanges DEF Changes

LEMMA Grows ==
  ASSUME TypeOK, Next
  PROVE  /\ \A c \in Clients : Own(c)' = Own(c) /\ By(c) \subseteq By(c)' /\ ByOthers(c) \subseteq ByOthers(c)'
         /\ \A c \in Clients : OwnMessage(c)' = OwnMessage(c) /\ OthersMessage(c) \subseteq OthersMessage(c)'
         /\ \A p \in Paths : Spoiled(p) => Spoiled(p)'
<1>1. plan' = plan
  BY WhoChanges DEF Changes
<1>2. \A p \in Paths : Spoiled(p) => Spoiled(p)'
  BY MissedGrows DEF Spoiled
<1>3. \A e \in Event : e.dst \in Paths
  BY DEF Event
<1>4. \A c \in Clients : Own(c)' = Own(c) /\ By(c) \subseteq By(c)'
  BY <1>1, <1>2, <1>3 DEF Own, By, Ordinary
<1>5. \A c \in Clients : ByOthers(c) \subseteq ByOthers(c)'
  BY <1>4 DEF ByOthers
<1>6. \A c \in Clients : OwnMessage(c)' = OwnMessage(c)
  BY <1>4 DEF OwnMessage
<1>7. \A c \in Clients : OthersMessage(c) \subseteq OthersMessage(c)'
  BY <1>5 DEF OthersMessage
<1>8. QED
  BY <1>2, <1>4, <1>5, <1>6, <1>7

\* Nobody is synchronised twice.
LEMMA ModeSteps ==
  ASSUME TypeOK, Next, NEW k \in Clients
  PROVE  /\ ~Before(k) => ~Before(k)'
         /\ mode'[k] = "live" => mode[k] = "live" \/ Register(k)
         /\ mode'[k] = "off" => mode[k] = "off"
         /\ mode'[k] = "sync" => mode[k] = "sync" \/ Join(k)
         /\ mode'[k] = "offer" => mode[k] = "offer" \/ TurnAround(k)
<1>1. mode \in [Clients -> Modes]
  BY DEF TypeOK
<1>2. ASSUME NEW c \in Clients,
             ClientSend(c) \/ ClientReceive(c) \/ StartSend(c) \/ FinishSend(c)
      PROVE  mode' = mode \/ mode' = [mode EXCEPT ![c] = "exited"] \/ mode' = [mode EXCEPT ![c] = "stuck"]
             \/ mode' = [mode EXCEPT ![c] = "dropped"]
  BY <1>2 DEF ClientSend, ClientReceive, StartSend, FinishSend, Closed
<1>3. ASSUME NEW c \in Clients, Join(c)
      PROVE  Before(c) /\ mode' = [mode EXCEPT ![c] = "sync"]
  BY <1>3 DEF Join, Before
<1>4. ASSUME NEW c \in Clients, TurnAround(c)
      PROVE  Before(c) /\ mode' = [mode EXCEPT ![c] = "offer"]
  BY <1>4 DEF TurnAround, Before
<1>5. ASSUME NEW c \in Clients, Register(c)
      PROVE  Before(c) /\ mode' = [mode EXCEPT ![c] = "live"]
  BY <1>5 DEF Register, Before
<1>6. QED
  BY <1>1, <1>2, <1>3, <1>4, <1>5, WhoChanges DEF Changes, Before

LEMMA EventsUsers ==
  ASSUME TypeOK, EventsOK, Next, NEW k \in Clients
  PROVE  out'[k] \in Seq(Own(k))
<1>1. out[k] \in Seq(Own(k)) /\ out \in [Clients -> Seq(Event)]
  BY DEF TypeOK, EventsOK
<1>2. ASSUME NEW c \in Clients, NEW op \in plan.ops, NEW p \in Paths, NEW q \in Paths,
             Edit(c, [op |-> op, src |-> p, dst |-> q])
      PROVE  out'[k] \in Seq(Own(k))
  <2> DEFINE e == [op |-> op, src |-> p, dst |-> q]
             f == [op |-> "NEW_FILE", src |-> e.dst, dst |-> e.dst]
  <2>1. e \in Event /\ e.op \in plan.ops /\ c \in plan.editors[e.dst] /\ c \in plan.editors[e.src]
    BY <1>2, PlanType DEF Event, Edit
  <2>2. Editable(copy[c], e)
    BY <1>2 DEF Edit
  <2>3. Well(e)
    BY <2>1, <2>2 DEF Editable, Well, Event, Events
  <2>4. e \in Own(c)
    BY <2>1, <2>3 DEF Own, Ordinary
  <2>5. e.op = "COPY" => f \in Own(c)
    BY <2>1, <2>3 DEF Own, Ordinary, Well, Event, Events
  <2>6. out' = [out EXCEPT ![c] = @ \o Reports(e)]
    BY <1>2 DEF Edit
  <2> HIDE DEF e, f
  <2>7. Reports(e) \in Seq(Own(c))
    <3>1. CASE e.op = "COPY"
      BY <2>4, <2>5, <3>1 DEF Reports, f
    <3>2. CASE e.op # "COPY"
      BY <2>4, <3>2 DEF Reports
    <3>3. QED
      BY <3>1, <3>2
  <2>8. CASE k = c
    <3>1. out'[k] = out[k] \o Reports(e)
      BY <1>1, <2>6, <2>8
    <3>2. QED
      BY <1>1, <2>7, <2>8, <3>1
  <2>9. QED
    BY <1>1, <2>6, <2>8
<1>3. ASSUME NEW c \in Clients, ClientSend(c) PROVE out'[k] \in Seq(Own(k))
  BY <1>1, <1>3, Heads DEF ClientSend
<1>4. QED
  BY <1>1, <1>2, <1>3, WhoChanges DEF Changes, Edits

LEMMA EventsUp ==
  ASSUME TypeOK, EventsOK, Next, NEW k \in Clients
  PROVE  /\ up'[k] \in Seq(OwnMessage(k))
         /\ mode'[k] = "live" /\ mode[k] = "live" => up'[k] \in Seq({m \in OwnMessage(k) : Full(m)})
<1>1. /\ up[k] \in Seq(OwnMessage(k)) /\ up \in [Clients -> Seq(Message)]
      /\ mode[k] = "live" => up[k] \in Seq({m \in OwnMessage(k) : Full(m)})
      /\ mode \in [Clients -> Modes] /\ copy \in [Clients -> Tree]
  BY DEF TypeOK, EventsOK
<1>2. ASSUME NEW c \in Clients, ClientSend(c)
      PROVE  /\ up'[k] \in Seq(OwnMessage(k))
             /\ mode'[k] = "live" => up'[k] \in Seq({m \in OwnMessage(k) : Full(m)})
  <2> DEFINE e == Head(out[c])
             m == [ev |-> e, val |-> copy[c][e.dst]]
  <2>1. e \in Own(c) /\ e \in Event /\ mode[c] = "live"
    BY <1>2, Heads, Members DEF ClientSend
  <2>2. m.ev = e /\ m \in Message
    BY <1>1, <2>1 DEF Message, Event, Tree
  <2>3. m \in OwnMessage(c)
    BY <2>1, <2>2 DEF OwnMessage
  <2>4. up' = [up EXCEPT ![c] = Append(@, m)]
    BY <1>2 DEF ClientSend
  <2>5. mode' = IF e.op = "NEW_FILE" /\ copy[c][e.dst] = Absent THEN [mode EXCEPT ![c] = "exited"] ELSE mode
    BY <1>2 DEF ClientSend
  <2>6. mode'[c] = "live" => Full(m)
    BY <1>1, <2>5 DEF Full
  <2> HIDE DEF e, m
  <2>7. CASE k = c
    <3>1. up'[k] = Append(up[k], m)
      BY <1>1, <2>4, <2>7
    <3>2. QED
      BY <1>1, <2>1, <2>3, <2>6, <2>7, <3>1
  <2>8. CASE k # c
    BY <1>1, <2>4, <2>5, <2>8
  <2>9. QED
    BY <2>7, <2>8
<1>3. ASSUME NEW c \in Clients, StartFile(c) \/ StartCutFile(c) \/ ReceivePath(c)
      PROVE  /\ up'[k] \in Seq(OwnMessage(k))
             /\ mode'[k] = "live" => up'[k] \in Seq({m \in OwnMessage(k) : Full(m)})
  <2>1. up[c] # <<>> /\ up' = [up EXCEPT ![c] = Tail(@)] /\ mode' = mode
    BY <1>3 DEF StartFile, StartCutFile, ReceivePath
  <2>2. up'[k] = IF k = c THEN Tail(up[k]) ELSE up[k]
    BY <1>1, <2>1
  <2>3. QED
    BY <1>1, <2>1, <2>2
<1>4. QED
  BY <1>1, <1>2, <1>3, WhoChanges DEF Changes

LEMMA EventsDown ==
  ASSUME TypeOK, EventsOK, Next, NEW k \in Clients
  PROVE  /\ down'[k] \in Seq(OthersMessage(k)')
         /\ queue'[k] \in Seq(ByOthers(k)')
         /\ snd'[k].busy => snd'[k].ev \in ByOthers(k)' /\ snd'[k].ev.op = "NEW_FILE" /\ snd'[k].val # Absent
<1>1. /\ down[k] \in Seq(OthersMessage(k)) /\ down \in [Clients -> Seq(Message)]
      /\ queue[k] \in Seq(ByOthers(k)) /\ queue \in [Clients -> Seq(Event)]
      /\ snd \in [Clients -> Sender] /\ folder \in Tree
      /\ snd[k].busy => snd[k].ev \in ByOthers(k) /\ snd[k].ev.op = "NEW_FILE" /\ snd[k].val # Absent
  BY DEF TypeOK, EventsOK
<1>2. /\ OthersMessage(k) \subseteq OthersMessage(k)' /\ ByOthers(k) \subseteq ByOthers(k)'
      /\ \A c \in Clients : By(c) \subseteq By(c)'
  BY Grows
<1>3. down[k] \in Seq(OthersMessage(k)') /\ queue[k] \in Seq(ByOthers(k)')
  BY <1>1, <1>2, SeqGrows
<1>4. \A p \in Paths : folder[p] \in Content
  BY <1>1 DEF Tree
<1>5. ASSUME NEW e \in ByOthers(k), NEW v \in Content, e.op = "NEW_FILE" => v # Absent
      PROVE  Append(down[k], [ev |-> e, val |-> v]) \in Seq(OthersMessage(k)')
  <2>1. [ev |-> e, val |-> v] \in OthersMessage(k)
    BY <1>5, Members DEF OthersMessage, Message, Full
  <2>2. QED
    BY <1>2, <1>3, <2>1
<1>6. down'[k] \in Seq(OthersMessage(k)')
  <2>1. ASSUME NEW c \in Clients, ClientReceive(c) PROVE down'[k] \in Seq(OthersMessage(k)')
    <3>1. down[c] # <<>> /\ down' = [down EXCEPT ![c] = Tail(@)]
      BY <2>1 DEF ClientReceive
    <3>2. QED
      BY <1>1, <1>3, <3>1
  <2>2. ASSUME NEW c \in Clients, StartSend(c) PROVE down'[k] \in Seq(OthersMessage(k)')
    <3> DEFINE e == Head(queue[c])
    <3>1. e \in ByOthers(c) /\ e.dst \in Paths
      BY <2>2, Heads, Members DEF StartSend, Event
    <3>2. down' = down \/ (e.op # "NEW_FILE" /\ down' = [down EXCEPT ![c] = Append(@, [ev |-> e, val |-> folder[e.dst]])])
      BY <2>2 DEF StartSend
    <3> HIDE DEF e
    <3>3. CASE down' = down \/ k # c
      BY <1>1, <1>3, <3>2, <3>3
    <3>4. CASE down' # down /\ k = c
      <4>1. down'[k] = Append(down[k], [ev |-> e, val |-> folder[e.dst]]) /\ e.op # "NEW_FILE"
        BY <1>1, <3>2, <3>4
      <4>2. e \in ByOthers(k) /\ folder[e.dst] \in Content
        BY <1>4, <3>1, <3>4
      <4>3. QED
        BY <1>5, <4>1, <4>2
    <3>5. QED
      BY <3>3, <3>4
  <2>3. ASSUME NEW c \in Clients, FinishSend(c) PROVE down'[k] \in Seq(OthersMessage(k)')
    <3> DEFINE e == snd[c].ev
    <3>1. snd[c].busy /\ snd[c] \in Sender
      BY <2>3 DEF FinishSend, TypeOK
    <3>2. e \in ByOthers(c) /\ snd[c].val \in Content /\ snd[c].val # Absent /\ e.dst \in Paths
      BY <3>1, Members, SenderFacts DEF EventsOK, Event
    <3>3. CASE folder[e.dst] = Absent
      BY <1>3, <2>3, <3>3 DEF FinishSend
    <3>4. CASE folder[e.dst] # Absent
      <4>1. PICK v \in Read(folder[e.dst], snd[c].val) : down' = [down EXCEPT ![c] = Append(@, [ev |-> e, val |-> v])]
        BY <2>3, <3>4 DEF FinishSend
      <4>2. v \in Content /\ v # Absent
        BY <1>4, <3>2, <3>4, <4>1, ConstantFacts DEF Read, Content
      <4> HIDE DEF e
      <4>3. QED
        BY <1>1, <1>3, <1>5, <3>2, <4>1, <4>2
    <3>5. QED
      BY <3>3, <3>4
  <2>4. QED
    BY <1>3, <2>1, <2>2, <2>3, WhoChanges DEF Changes
<1>7. queue'[k] \in Seq(ByOthers(k)')
  <2>1. ASSUME NEW c \in Clients, StartSend(c) PROVE queue'[k] \in Seq(ByOthers(k)')
    <3>1. queue[c] # <<>> /\ queue' = [queue EXCEPT ![c] = Tail(@)]
      BY <2>1 DEF StartSend
    <3>2. QED
      BY <1>1, <1>3, <3>1
  <2>2. ASSUME NEW c \in Clients, NEW j \in Clients, Enqueue(c, j) PROVE queue'[k] \in Seq(ByOthers(k)')
    <3>1. /\ rcv[c].pc = "bcast" /\ j \in rcv[c].todo
          /\ queue' = queue \/ queue' = [queue EXCEPT ![j] = Append(@, rcv[c].ev)]
      BY <2>2 DEF Enqueue
    <3>2. rcv[c].ev \in By(c) /\ rcv[c].todo \subseteq Clients \ {c}
      BY <3>1 DEF EventsOK, Handling
    <3>3. rcv[c].ev \in ByOthers(j)
      BY <3>1, <3>2, Members DEF ByOthers
    <3>4. CASE queue' = queue \/ k # j
      BY <1>1, <1>3, <3>1, <3>4
    <3>5. CASE queue' # queue /\ k = j
      <4>1. queue'[k] = Append(queue[k], rcv[c].ev)
        BY <1>1, <3>1, <3>5
      <4>2. rcv[c].ev \in ByOthers(k)'
        BY <1>2, <3>3, <3>5
      <4>3. QED
        BY <1>3, <4>1, <4>2
    <3>6. QED
      BY <3>4, <3>5
  <2>3. QED
    BY <1>3, <2>1, <2>2, WhoChanges DEF Changes
<1>8. snd'[k].busy => snd'[k].ev \in ByOthers(k)' /\ snd'[k].ev.op = "NEW_FILE" /\ snd'[k].val # Absent
  <2>1. ASSUME NEW c \in Clients, StartSend(c), snd'[k].busy
        PROVE  snd'[k].ev \in ByOthers(k)' /\ snd'[k].ev.op = "NEW_FILE" /\ snd'[k].val # Absent
    <3> DEFINE e == Head(queue[c])
    <3>1. e \in ByOthers(c)
      BY <2>1, Heads DEF StartSend
    <3>2. snd' = snd \/ (e.op = "NEW_FILE" /\ folder[e.dst] # Absent
                         /\ snd' = [snd EXCEPT ![c] = [busy |-> TRUE, ev |-> e, val |-> folder[e.dst]]])
      BY <2>1 DEF StartSend
    <3> HIDE DEF e
    <3>3. CASE snd' = snd \/ k # c
      <4>1. snd'[k] = snd[k]
        BY <1>1, <3>2, <3>3
      <4>2. QED
        BY <1>1, <1>2, <2>1, <4>1
    <3>4. CASE snd' # snd /\ k = c
      <4>1. snd'[k] = [busy |-> TRUE, ev |-> e, val |-> folder[e.dst]] /\ e.op = "NEW_FILE" /\ folder[e.dst] # Absent
        BY <1>1, <3>2, <3>4
      <4>2. e \in ByOthers(k)'
        BY <1>2, <3>1, <3>4
      <4>3. QED
        BY <4>1, <4>2
    <3>5. QED
      BY <3>3, <3>4
  <2>2. ASSUME NEW c \in Clients, FinishSend(c), snd'[k].busy
        PROVE  snd'[k].ev \in ByOthers(k)' /\ snd'[k].ev.op = "NEW_FILE" /\ snd'[k].val # Absent
    <3>1. snd' = [snd EXCEPT ![c] = NoSend]
      BY <2>2 DEF FinishSend
    <3>2. k # c /\ snd'[k] = snd[k]
      BY <1>1, <2>2, <3>1 DEF NoSend
    <3>3. QED
      BY <1>1, <1>2, <2>2, <3>2
  <2>3. QED
    BY <1>1, <1>2, <2>1, <2>2, WhoChanges DEF Changes
<1>9. QED
  BY <1>6, <1>7, <1>8

OwnStep(c) ==
    \/ StartFile(c) \/ StartCutFile(c) \/ FinishFile(c) \/ ReceivePath(c)
    \/ StartBroadcast(c) \/ (\E k \in Clients : Enqueue(c, k)) \/ EndBroadcast(c)
    \/ \E p \in Paths : Offer(c, p) \/ Return(c, p)

LEMMA ReturnOpens ==
  ASSUME TypeOK, NEW c \in Clients, NEW p \in Paths, Return(c, p), folder[p] = Absent, p \in Files
  PROVE  \E m \in Message : /\ Open(c, m) /\ m.ev = [op |-> "NEW_FILE", src |-> p, dst |-> p]
                            /\ Well(m.ev) /\ m.ev.op = "NEW_FILE" /\ m.val = copy[c][p]
<1> DEFINE m == [ev |-> [op |-> "NEW_FILE", src |-> p, dst |-> p], val |-> copy[c][p]]
<1>1. copy[c][p] \in Content
  BY DEF TypeOK, Tree
<1>2. m \in Message /\ Well(m.ev) /\ m.ev.op = "NEW_FILE"
  BY <1>1 DEF Message, Well, Event, Events
<1>3. Open(c, m)
  BY DEF Return
<1> HIDE DEF m
<1>4. m.ev = [op |-> "NEW_FILE", src |-> p, dst |-> p] /\ m.val = copy[c][p]
  BY DEF m
<1>5. QED
  BY <1>2, <1>3, <1>4

LEMMA OthersKept ==
  ASSUME TypeOK, EventsOK, NEW c \in Clients, OwnStep(c)
  PROVE  \A k \in Clients \ {c} : Kept(k)
<1>1. rcv \in [Clients -> Receiver] /\ \A k \in Clients : rcv[k] \in Receiver
  BY DEF TypeOK
<1>2. CASE StartFile(c)
  <2>1. Head(up[c]) \in Message /\ Well(Head(up[c]).ev) /\ Head(up[c]).ev.op = "NEW_FILE"
    BY <1>2, Heads, Members DEF StartFile
  <2>2. Open(c, Head(up[c])) /\ rcv[c].pc = "idle"
    BY <1>2 DEF StartFile
  <2>3. QED
    BY <2>1, <2>2, OpenFacts
<1>3. CASE StartCutFile(c)
  <2> DEFINE e == Head(up[c]).ev
  <2>1. \/ rcv' = [rcv EXCEPT ![c] = Dead(TRUE)]
        \/ rcv' = [k \in Clients |-> IF k = c THEN Dead(TRUE)
                                     ELSE IF k \in Writers(e.dst) THEN [rcv[k] EXCEPT !.clash = TRUE]
                                     ELSE rcv[k]]
    BY <1>3 DEF StartCutFile
  <2>2. \A k \in Writers(e.dst) : k \in Clients /\ rcv[k].pc = "writing"
    BY DEF Writers
  <2> HIDE DEF e
  <2>3. QED
    BY <1>1, <2>1, <2>2, ClashFacts DEF Kept
<1>4. CASE FinishFile(c)
  <2>1. \A k \in Clients \ {c} : rcv'[k] = rcv[k]
    BY <1>1, <1>4 DEF FinishFile
  <2>2. QED
    BY <2>1 DEF Kept
<1>5. CASE ReceivePath(c)
  <2> DEFINE e == Head(up[c]).ev
  <2>1. Well(e)
    BY <1>5, Heads, Members DEF ReceivePath
  <2>2. CASE Fails(folder, e)
    <3>1. rcv' = [rcv EXCEPT ![c] = Dead(e.op # "NEW_DIRECTORY")]
      BY <1>5, <2>2 DEF ReceivePath
    <3>2. QED
      BY <1>1, <3>1 DEF Kept
  <2>3. CASE ~Fails(folder, e)
    <3>1. rcv' = [k \in Clients |-> IF k = c THEN [pc |-> "saved", ev |-> e]
                                   ELSE IF rcv[k].pc = "writing" THEN Retarget(e, rcv[k])
                                   ELSE rcv[k]]
      BY <1>5, <2>3 DEF ReceivePath
    <3> HIDE DEF e
    <3>2. QED
      BY <1>1, <2>1, <3>1, RetargetFacts DEF Kept
  <2>4. QED
    BY <2>2, <2>3
<1>6. CASE StartBroadcast(c) \/ (\E k \in Clients : Enqueue(c, k)) \/ EndBroadcast(c)
  <2>1. \A k \in Clients \ {c} : rcv'[k] = rcv[k]
    BY <1>1, <1>6 DEF StartBroadcast, Enqueue, EndBroadcast
  <2>2. QED
    BY <2>1 DEF Kept
<1>7. ASSUME NEW p \in Paths, Offer(c, p)
      PROVE  \A k \in Clients \ {c} : Kept(k)
  <2>1. \A k \in Clients \ {c} : rcv'[k] = rcv[k]
    BY <1>1, <1>7 DEF Offer
  <2>2. QED
    BY <2>1 DEF Kept
<1>8. ASSUME NEW p \in Paths, Return(c, p)
      PROVE  \A k \in Clients \ {c} : Kept(k)
  <2>1. CASE folder[p] # Absent
    BY <1>8, <2>1 DEF Return, Kept
  <2>2. CASE folder[p] = Absent /\ p \in Files
    <3>1. PICK m \in Message : Open(c, m) /\ Well(m.ev) /\ m.ev.op = "NEW_FILE"
      BY <1>8, <2>2, ReturnOpens
    <3>2. rcv[c].pc = "idle"
      BY <1>8 DEF Return
    <3>3. QED
      BY <3>1, <3>2, OpenFacts
  <2>3. CASE folder[p] = Absent /\ p \notin Files
    <3>1. \A k \in Clients \ {c} : rcv'[k] = rcv[k]
      BY <1>1, <1>8, <2>3 DEF Return
    <3>2. QED
      BY <3>1 DEF Kept
  <2>4. QED
    BY <2>1, <2>2, <2>3
<1>9. QED
  BY <1>2, <1>3, <1>4, <1>5, <1>6, <1>7, <1>8 DEF OwnStep

\* A receiver thread goes on by itself only.
LEMMA WhoseStep ==
  ASSUME TypeOK, EventsOK, Next, NEW k \in Clients
  PROVE  Kept(k) \/ OwnStep(k)
<1>1. rcv' = rcv => Kept(k)
  BY DEF Kept
<1>2. rcv' = rcv \/ \E c \in Clients : OwnStep(c)
  BY WhoChanges DEF Changes, OwnStep
<1>3. QED
  BY <1>1, <1>2, OthersKept

\* How a receiver thread goes on.
LEMMA OwnSteps ==
  ASSUME TypeOK, EventsOK, NEW c \in Clients
  PROVE  /\ StartFile(c) => /\ rcv[c].pc = "idle"
                            /\ \/ rcv'[c] = Dead(TRUE)
                               \/ /\ rcv'[c].pc = "writing" /\ rcv'[c].ev = Head(up[c]).ev
                                  /\ rcv'[c].val = Head(up[c]).val
         /\ StartCutFile(c) => rcv[c].pc = "idle" /\ rcv'[c] = Dead(TRUE)
         /\ FinishFile(c) => /\ rcv[c].pc = "writing"
                             /\ rcv'[c] = Dead(TRUE) \/ (rcv'[c].pc = "saved" /\ rcv'[c].ev = rcv[c].ev)
         /\ ReceivePath(c) => /\ rcv[c].pc = "idle"
                              /\ rcv'[c].pc = "dead" \/ (rcv'[c].pc = "saved" /\ rcv'[c].ev = Head(up[c]).ev)
         /\ StartBroadcast(c) => /\ rcv[c].pc = "saved" /\ rcv'[c].pc = "bcast" /\ rcv'[c].ev = rcv[c].ev
                                 /\ rcv'[c].todo = Targets(c)
         /\ \A k \in Clients : Enqueue(c, k) => /\ rcv[c].pc = "bcast" /\ rcv'[c].pc = "bcast"
                                                /\ rcv'[c].ev = rcv[c].ev /\ rcv'[c].todo = rcv[c].todo \ {k}
         /\ EndBroadcast(c) => rcv[c].pc = "bcast" /\ rcv'[c] = Idle
         /\ \A p \in Paths : Offer(c, p) => rcv[c].pc = "idle" /\ (rcv'[c] = rcv[c] \/ rcv'[c].pc = "dead")
         /\ \A p \in Paths : Return(c, p) =>
                /\ rcv[c].pc = "idle"
                /\ \/ rcv'[c] = rcv[c] /\ folder' = folder
                   \/ rcv'[c].pc = "dead"
                   \/ /\ rcv'[c].pc = "writing" /\ rcv'[c].ev = [op |-> "NEW_FILE", src |-> p, dst |-> p]
                      /\ p \in Files /\ rcv'[c].val = copy[c][p]
                   \/ /\ rcv'[c].pc = "saved" /\ rcv'[c].ev = [op |-> "NEW_DIRECTORY", src |-> p, dst |-> p]
                      /\ p \in Dirs
<1>1. rcv \in [Clients -> Receiver] /\ rcv[c] \in Receiver /\ \A b : Dead(b).pc = "dead"
  BY DEF TypeOK, Dead
<1>2. ASSUME StartFile(c)
      PROVE  /\ rcv[c].pc = "idle"
             /\ \/ rcv'[c] = Dead(TRUE)
                \/ /\ rcv'[c].pc = "writing" /\ rcv'[c].ev = Head(up[c]).ev
                   /\ rcv'[c].val = Head(up[c]).val
  <2>1. Head(up[c]) \in Message /\ Well(Head(up[c]).ev) /\ Head(up[c]).ev.op = "NEW_FILE"
    BY <1>2, Heads, Members DEF StartFile
  <2>2. Open(c, Head(up[c])) /\ rcv[c].pc = "idle"
    BY <1>2 DEF StartFile
  <2> DEFINE m == Head(up[c])
  <2> HIDE DEF m
  <2>3. rcv'[c] = Dead(TRUE) \/ (rcv'[c].pc = "writing" /\ rcv'[c].ev = m.ev /\ rcv'[c].val = m.val)
    BY <2>1, <2>2, OpenFacts DEF m
  <2>4. QED
    BY <2>2, <2>3 DEF m
<1>3. StartCutFile(c) => rcv[c].pc = "idle" /\ rcv'[c] = Dead(TRUE)
  BY <1>1 DEF StartCutFile
<1>4. FinishFile(c) => /\ rcv[c].pc = "writing"
                       /\ rcv'[c] = Dead(TRUE) \/ (rcv'[c].pc = "saved" /\ rcv'[c].ev = rcv[c].ev)
  <2>1. ASSUME FinishFile(c)
        PROVE  rcv' = [rcv EXCEPT ![c] = IF folder'[rcv[c].ev.dst] = Absent THEN Dead(TRUE)
                                         ELSE [pc |-> "saved", ev |-> rcv[c].ev]]
    BY <2>1 DEF FinishFile
  <2>2. ASSUME FinishFile(c), folder'[rcv[c].ev.dst] = Absent PROVE rcv'[c] = Dead(TRUE)
    BY <1>1, <2>1, <2>2
  <2>3. ASSUME FinishFile(c), folder'[rcv[c].ev.dst] # Absent
        PROVE  rcv'[c].pc = "saved" /\ rcv'[c].ev = rcv[c].ev
    BY <1>1, <2>1, <2>3
  <2>4. QED
    BY <2>2, <2>3 DEF FinishFile
<1>5. ReceivePath(c) => /\ rcv[c].pc = "idle"
                        /\ rcv'[c].pc = "dead" \/ (rcv'[c].pc = "saved" /\ rcv'[c].ev = Head(up[c]).ev)
  BY <1>1 DEF ReceivePath
<1>6. StartBroadcast(c) => /\ rcv[c].pc = "saved" /\ rcv'[c].pc = "bcast" /\ rcv'[c].ev = rcv[c].ev
                           /\ rcv'[c].todo = Targets(c)
  BY <1>1 DEF StartBroadcast
<1>7. ASSUME NEW k \in Clients, Enqueue(c, k)
      PROVE  /\ rcv[c].pc = "bcast" /\ rcv'[c].pc = "bcast"
             /\ rcv'[c].ev = rcv[c].ev /\ rcv'[c].todo = rcv[c].todo \ {k}
  <2>1. rcv[c].pc = "bcast" /\ rcv' = [rcv EXCEPT ![c].todo = @ \ {k}]
    BY <1>7 DEF Enqueue
  <2>2. rcv[c] \in [pc : {"bcast"}, ev : Event, todo : SUBSET Clients]
    BY <1>1, <2>1 DEF Receiver, Idle, Dead
  <2>3. QED
    BY <1>1, <2>1, <2>2
<1>8. EndBroadcast(c) => rcv[c].pc = "bcast" /\ rcv'[c] = Idle
  BY <1>1 DEF EndBroadcast
<1>9. \A p \in Paths : Offer(c, p) => rcv[c].pc = "idle" /\ (rcv'[c] = rcv[c] \/ rcv'[c].pc = "dead")
  BY <1>1 DEF Offer
<1>10. ASSUME NEW p \in Paths, Return(c, p)
       PROVE  /\ rcv[c].pc = "idle"
              /\ \/ rcv'[c] = rcv[c] /\ folder' = folder
                 \/ rcv'[c].pc = "dead"
                 \/ /\ rcv'[c].pc = "writing" /\ rcv'[c].ev = [op |-> "NEW_FILE", src |-> p, dst |-> p]
                    /\ p \in Files /\ rcv'[c].val = copy[c][p]
                 \/ /\ rcv'[c].pc = "saved" /\ rcv'[c].ev = [op |-> "NEW_DIRECTORY", src |-> p, dst |-> p]
                    /\ p \in Dirs
  <2>0. rcv[c].pc = "idle"
    BY <1>10 DEF Return
  <2>1. CASE folder[p] # Absent
    BY <1>10, <2>0, <2>1 DEF Return
  <2>2. CASE folder[p] = Absent /\ p \in Files
    <3>1. PICK m \in Message : /\ Open(c, m) /\ m.ev = [op |-> "NEW_FILE", src |-> p, dst |-> p]
                               /\ Well(m.ev) /\ m.ev.op = "NEW_FILE" /\ m.val = copy[c][p]
      BY <1>10, <2>2, ReturnOpens
    <3>2. rcv'[c] = Dead(TRUE) \/ (rcv'[c].pc = "writing" /\ rcv'[c].ev = m.ev /\ rcv'[c].val = m.val)
      BY <2>0, <3>1, OpenFacts
    <3>3. QED
      BY <1>1, <2>0, <2>2, <3>1, <3>2
  <2>3. CASE folder[p] = Absent /\ p \notin Files
    BY <1>1, <1>10, <2>0, <2>3 DEF Return, Paths
  <2>4. QED
    BY <2>1, <2>2, <2>3
<1>11. QED
  BY <1>2, <1>3, <1>4, <1>5, <1>6, <1>7, <1>8, <1>9, <1>10

\* A client that is not in the list has no events.
Unlisted ==
    \A c \in Clients : Before(c) =>
        /\ out[c] = <<>> /\ up[c] = <<>> /\ down[c] = <<>> /\ queue[c] = <<>> /\ snd[c] = NoSend
        /\ mode[c] = "off" => rcv[c] = Idle /\ copy[c] = EmptyTree
        /\ mode[c] = "sync" => rcv[c].pc \in {"idle", "dead"}
        /\ mode[c] = "offer" => \A p \in walk[c].todo : copy[c][p] # Absent

LEMMA EventsReceivers ==
  ASSUME TypeOK, EventsOK, Unlisted, Next, NEW k \in Clients
  PROVE  /\ Handling(k)' => rcv'[k].ev \in By(k)'
         /\ rcv'[k].pc = "bcast" => rcv'[k].todo \subseteq {j \in Clients \ {k} : ~Before(j)'}
         /\ rcv'[k].pc = "writing" => rcv'[k].ev.op = "NEW_FILE" /\ rcv'[k].val # Absent
<1>1. /\ Handling(k) => rcv[k].ev \in By(k)
      /\ rcv[k].pc = "bcast" => rcv[k].todo \subseteq {j \in Clients \ {k} : ~Before(j)}
      /\ rcv[k].pc = "writing" => rcv[k].ev.op = "NEW_FILE" /\ rcv[k].val # Absent
  BY DEF EventsOK
<1>2. By(k) \subseteq By(k)' /\ Own(k) \subseteq By(k)
  BY Grows, Members
<1>3. \A j \in Clients : ~Before(j) => ~Before(j)'
  BY ModeSteps
<1>0. up[k] # <<>> => Head(up[k]).ev \in Own(k)
  BY Heads, Members
<1> DEFINE Goal == /\ Handling(k)' => rcv'[k].ev \in By(k)'
                   /\ rcv'[k].pc = "bcast" => rcv'[k].todo \subseteq {j \in Clients \ {k} : ~Before(j)'}
                   /\ rcv'[k].pc = "writing" => rcv'[k].ev.op = "NEW_FILE" /\ rcv'[k].val # Absent
<1>4. CASE Kept(k)
  BY <1>1, <1>2, <1>3, <1>4 DEF Kept, Handling
<1>5. CASE StartFile(k)
  <2>1. /\ rcv'[k] = Dead(TRUE) \/ (rcv'[k].pc = "writing" /\ rcv'[k].ev = Head(up[k]).ev /\ rcv'[k].val = Head(up[k]).val)
    BY <1>5, OwnSteps
  <2>2. up[k] # <<>> /\ Head(up[k]).val # Absent /\ Head(up[k]).ev.op = "NEW_FILE"
    BY <1>5 DEF StartFile
  <2>3. QED
    BY <1>0, <1>2, <2>1, <2>2 DEF Dead, Handling
<1>6. CASE StartCutFile(k) \/ EndBroadcast(k) \/ (\E p \in Paths : Offer(k, p))
  <2>1. rcv'[k] = Dead(TRUE) \/ rcv'[k] = Idle \/ rcv'[k].pc = "dead" \/ rcv'[k] = rcv[k]
    BY <1>6, OwnSteps
  <2>2. QED
    BY <1>1, <1>2, <1>3, <2>1 DEF Dead, Idle, Handling
<1>7. CASE FinishFile(k)
  <2>1. rcv[k].pc = "writing" /\ (rcv'[k] = Dead(TRUE) \/ (rcv'[k].pc = "saved" /\ rcv'[k].ev = rcv[k].ev))
    BY <1>7, OwnSteps
  <2>2. QED
    BY <1>1, <1>2, <2>1 DEF Dead, Handling
<1>8. CASE ReceivePath(k)
  <2>1. rcv'[k].pc = "dead" \/ (rcv'[k].pc = "saved" /\ rcv'[k].ev = Head(up[k]).ev)
    BY <1>8, OwnSteps
  <2>2. up[k] # <<>>
    BY <1>8 DEF ReceivePath
  <2>3. QED
    BY <1>0, <1>2, <2>1, <2>2 DEF Handling
<1>9. CASE StartBroadcast(k)
  <2>1. rcv[k].pc = "saved" /\ rcv'[k].pc = "bcast" /\ rcv'[k].ev = rcv[k].ev /\ rcv'[k].todo = Targets(k)
    BY <1>9, OwnSteps
  <2>2. Targets(k) \subseteq {j \in Clients \ {k} : ~Before(j)}
    BY DEF Targets, Registered, Before
  <2>3. QED
    BY <1>1, <1>2, <1>3, <2>1, <2>2 DEF Handling
<1>10. ASSUME NEW j \in Clients, Enqueue(k, j) PROVE Goal
  <2>1. rcv[k].pc = "bcast" /\ rcv'[k].pc = "bcast" /\ rcv'[k].ev = rcv[k].ev /\ rcv'[k].todo = rcv[k].todo \ {j}
    BY <1>10, OwnSteps
  <2>2. QED
    BY <1>1, <1>2, <1>3, <2>1 DEF Handling
<1>11. ASSUME NEW p \in Paths, Return(k, p), rcv'[k].pc # "dead", rcv'[k] # rcv[k] PROVE Goal
  <2>1. folder[p] = Absent
    BY <1>11 DEF Return
  <2>2. missed' = [j \in Clients |-> missed[j] \cup {p}]
    BY <1>11, <2>1 DEF Return
  <2>3. Spoiled(p)'
    BY <2>2 DEF Spoiled
  <2>4. \/ rcv'[k].pc = "writing" /\ rcv'[k].ev = [op |-> "NEW_FILE", src |-> p, dst |-> p]
           /\ p \in Files /\ rcv'[k].val = copy[k][p]
        \/ rcv'[k].pc = "saved" /\ rcv'[k].ev = [op |-> "NEW_DIRECTORY", src |-> p, dst |-> p] /\ p \in Dirs
    BY <1>11, OwnSteps
  <2>5. PICK e : rcv'[k].ev = e /\ e \in Event /\ e.dst = p /\ Well(e) /\ e.op \in {"NEW_FILE", "NEW_DIRECTORY"}
    BY <2>4 DEF Event, Events, Well
  <2>6. e \in By(k)'
    BY <2>3, <2>5 DEF By, Ordinary
  <2>7. copy[k][p] # Absent
    BY <1>11 DEF Return, Unlisted, Before
  <2>8. QED
    BY <2>4, <2>5, <2>6, <2>7
<1>12. ASSUME NEW p \in Paths, Return(k, p) PROVE Goal
  <2>1. CASE rcv'[k] = rcv[k]
    BY <1>1, <1>2, <1>3, <2>1 DEF Handling
  <2>2. CASE rcv'[k].pc = "dead"
    BY <2>2 DEF Handling
  <2>3. QED
    BY <1>11, <1>12, <2>1, <2>2
<1>13. QED
  BY <1>4, <1>5, <1>6, <1>7, <1>8, <1>9, <1>10, <1>12, WhoseStep DEF OwnStep

LEMMA UnlistedStep ==
  ASSUME TypeOK, EventsOK, Unlisted, Next
  PROVE  Unlisted'
<1> SUFFICES ASSUME NEW k \in Clients, Before(k)'
             PROVE  /\ out'[k] = <<>> /\ up'[k] = <<>> /\ down'[k] = <<>> /\ queue'[k] = <<>> /\ snd'[k] = NoSend
                    /\ mode'[k] = "off" => rcv'[k] = Idle /\ copy'[k] = EmptyTree
                    /\ mode'[k] = "sync" => rcv'[k].pc \in {"idle", "dead"}
                    /\ mode'[k] = "offer" => \A p \in walk'[k].todo : copy'[k][p] # Absent
  BY DEF Unlisted
<1>1. Before(k)
  BY ModeSteps
<1>2. /\ out[k] = <<>> /\ up[k] = <<>> /\ down[k] = <<>> /\ queue[k] = <<>> /\ snd[k] = NoSend
      /\ mode[k] = "off" => rcv[k] = Idle /\ copy[k] = EmptyTree
      /\ mode[k] = "sync" => rcv[k].pc \in {"idle", "dead"}
      /\ mode[k] = "offer" => \A p \in walk[k].todo : copy[k][p] # Absent
  BY <1>1 DEF Unlisted
<1>3. /\ out \in [Clients -> Seq(Event)] /\ up \in [Clients -> Seq(Message)] /\ down \in [Clients -> Seq(Message)]
      /\ queue \in [Clients -> Seq(Event)] /\ snd \in [Clients -> Sender] /\ mode \in [Clients -> Modes]
      /\ rcv \in [Clients -> Receiver] /\ copy \in [Clients -> Tree]
  BY DEF TypeOK
<1>4. out'[k] = <<>>
  <2>1. ASSUME NEW c \in Clients, ClientSend(c) PROVE out'[k] = <<>>
    BY <1>2, <1>3, <2>1 DEF ClientSend
  <2>2. CASE Edits
    <3>1. PICK c \in Clients, op \in plan.ops, p \in Paths, q \in Paths : Edit(c, [op |-> op, src |-> p, dst |-> q])
      BY <2>2 DEF Edits
    <3>2. c # k
      BY <1>1, <3>1 DEF Edit, Before
    <3>3. out'[k] = out[k]
      BY <1>3, <3>1, <3>2 DEF Edit
    <3>4. QED
      BY <1>2, <3>3
  <2>3. QED
    BY <1>2, <2>1, <2>2, WhoChanges DEF Changes
<1>5. up'[k] = <<>>
  <2>1. ASSUME NEW c \in Clients, ClientSend(c) PROVE up'[k] = <<>>
    BY <1>1, <1>2, <1>3, <2>1 DEF ClientSend, Before
  <2>2. ASSUME NEW c \in Clients, StartFile(c) \/ StartCutFile(c) \/ ReceivePath(c) PROVE up'[k] = <<>>
    BY <1>2, <1>3, <2>2 DEF StartFile, StartCutFile, ReceivePath
  <2>3. QED
    BY <1>2, <2>1, <2>2, WhoChanges DEF Changes
<1>6. down'[k] = <<>>
  <2>1. ASSUME NEW c \in Clients, ClientReceive(c) \/ StartSend(c) PROVE down'[k] = <<>>
    BY <1>1, <1>2, <1>3, <2>1 DEF ClientReceive, StartSend, Before
  <2>2. ASSUME NEW c \in Clients, FinishSend(c) PROVE down'[k] = <<>>
    <3>1. c # k
      BY <1>2, <2>2 DEF FinishSend, NoSend
    <3>2. down'[k] = down[k]
      BY <1>3, <2>2, <3>1 DEF FinishSend
    <3>3. QED
      BY <1>2, <3>2
  <2>3. QED
    BY <1>2, <2>1, <2>2, WhoChanges DEF Changes
<1>7. queue'[k] = <<>>
  <2>1. ASSUME NEW c \in Clients, StartSend(c) PROVE queue'[k] = <<>>
    BY <1>2, <1>3, <2>1 DEF StartSend
  <2>2. ASSUME NEW c \in Clients, NEW j \in Clients, Enqueue(c, j) PROVE queue'[k] = <<>>
    <3>1. rcv[c].pc = "bcast" /\ j \in rcv[c].todo
      BY <2>2 DEF Enqueue
    <3>2. j # k
      BY <1>1, <3>1 DEF EventsOK
    <3>3. queue'[k] = queue[k]
      BY <1>3, <2>2, <3>2 DEF Enqueue
    <3>4. QED
      BY <1>2, <3>3
  <2>3. QED
    BY <1>2, <2>1, <2>2, WhoChanges DEF Changes
<1>8. snd'[k] = NoSend
  <2>1. ASSUME NEW c \in Clients, StartSend(c) PROVE snd'[k] = NoSend
    BY <1>1, <1>2, <1>3, <2>1 DEF StartSend, Before
  <2>2. ASSUME NEW c \in Clients, FinishSend(c) PROVE snd'[k] = NoSend
    BY <1>2, <1>3, <2>2 DEF FinishSend
  <2>3. QED
    BY <1>2, <2>1, <2>2, WhoChanges DEF Changes
<1>9. mode'[k] = "off" => mode[k] = "off"
  BY ModeSteps
<1>10. mode[k] = "off" => Kept(k)
  <2> SUFFICES ASSUME mode[k] = "off", OwnStep(k) PROVE FALSE
    BY WhoseStep
  <2>1. rcv[k].pc = "idle"
    BY <1>2 DEF Idle
  <2>2. QED
    BY <2>1, OwnSteps DEF OwnStep, StartFile, StartCutFile, ReceivePath, Offer, Return
<1>11. mode'[k] = "off" => rcv'[k] = Idle
  BY <1>2, <1>9, <1>10 DEF Kept, Idle
<1>12. mode'[k] = "off" => copy'[k] = EmptyTree
  <2> SUFFICES ASSUME mode[k] = "off" PROVE copy'[k] = copy[k]
    BY <1>2, <1>9
  <2>1. ASSUME NEW c \in Clients, ClientReceive(c) PROVE copy'[k] = copy[k]
    BY <1>3, <2>1 DEF ClientReceive
  <2>2. ASSUME NEW c \in Clients, NEW p \in Paths, Offer(c, p) PROVE copy'[k] = copy[k]
    BY <1>3, <2>2 DEF Offer
  <2>3. CASE Edits
    <3>1. PICK c \in Clients, op \in plan.ops, p \in Paths, q \in Paths : Edit(c, [op |-> op, src |-> p, dst |-> q])
      BY <2>3 DEF Edits
    <3>2. QED
      BY <1>3, <3>1 DEF Edit
  <2>4. QED
    BY <2>1, <2>2, <2>3, WhoChanges DEF Changes
<1>13. ASSUME mode'[k] = "sync" PROVE rcv'[k].pc \in {"idle", "dead"}
  <2>1. mode[k] \in {"off", "sync"}
    BY <1>13, ModeSteps DEF Join
  <2>2. CASE Kept(k)
    BY <1>2, <2>1, <2>2 DEF Kept, Idle
  <2>3. CASE ~Kept(k)
    <3>1. mode[k] = "sync" /\ rcv[k].pc \in {"idle", "dead"} /\ OwnStep(k)
      BY <1>2, <1>10, <2>1, <2>3, WhoseStep
    <3>2. \E p \in Paths : Offer(k, p)
      BY <3>1, OwnSteps DEF OwnStep, StartFile, StartCutFile, ReceivePath, Return
    <3>3. QED
      BY <3>1, <3>2, OwnSteps
  <2>4. QED
    BY <2>2, <2>3
<1>14. ASSUME mode'[k] = "offer", NEW p \in walk'[k].todo PROVE copy'[k][p] # Absent
  <2>1. CASE TurnAround(k)
    <3>1. walk'[k].todo = {q \in Paths : copy[k][q] # Absent} /\ copy' = copy
      BY <2>1 DEF TurnAround, TypeOK, Walk
    <3>2. QED
      BY <1>14, <3>1
  <2>2. CASE mode[k] = "offer"
    <3>1. copy'[k] = copy[k]
      <4>1. ASSUME NEW c \in Clients, ClientReceive(c) PROVE copy'[k] = copy[k]
        BY <1>3, <2>2, <4>1 DEF ClientReceive
      <4>2. ASSUME NEW c \in Clients, NEW q \in Paths, Offer(c, q) PROVE copy'[k] = copy[k]
        BY <1>3, <2>2, <4>2 DEF Offer
      <4>3. CASE Edits
        <5>1. PICK c \in Clients, op \in plan.ops, r \in Paths, q \in Paths : Edit(c, [op |-> op, src |-> r, dst |-> q])
          BY <4>3 DEF Edits
        <5>2. c # k /\ \A j \in Clients : j # c => copy'[j] = copy[j]
          BY <1>3, <2>2, <5>1 DEF Edit
        <5>3. QED
          BY <5>2
      <4>4. QED
        BY <4>1, <4>2, <4>3, WhoChanges DEF Changes
    <3>2. walk'[k].todo \subseteq walk[k].todo
      <4>1. walk \in [Clients -> Walk]
        BY DEF TypeOK
      <4>2. ASSUME NEW c \in Clients, Join(c) \/ TurnAround(c) PROVE walk'[k] = walk[k]
        BY <2>2, <4>1, <4>2 DEF Join, TurnAround
      <4>3. ASSUME NEW c \in Clients, NEW q \in Paths, Visit(c, q) PROVE walk'[k].todo \subseteq walk[k].todo
        BY <2>2, <4>1, <4>3 DEF Visit
      <4>4. ASSUME NEW c \in Clients, NEW q \in Paths, Offer(c, q) PROVE walk'[k].todo \subseteq walk[k].todo
        BY <2>2, <4>1, <4>4 DEF Offer
      <4>5. ASSUME NEW c \in Clients, NEW q \in Paths, Return(c, q) PROVE walk'[k].todo \subseteq walk[k].todo
        BY <4>1, <4>5 DEF Return, Walk
      <4>6. QED
        BY <4>2, <4>3, <4>4, <4>5, WhoChanges DEF Changes
    <3>3. QED
      BY <1>2, <1>14, <2>2, <3>1, <3>2
  <2>3. QED
    BY <1>14, <2>1, <2>2, ModeSteps
<1>15. QED
  BY <1>4, <1>5, <1>6, <1>7, <1>8, <1>11, <1>12, <1>13, <1>14

LEMMA EventsStep ==
  ASSUME TypeOK, EventsOK, Unlisted, Next
  PROVE  EventsOK'
<1> SUFFICES ASSUME NEW k \in Clients
             PROVE  /\ out'[k] \in Seq(Own(k)')
                    /\ up'[k] \in Seq(OwnMessage(k)')
                    /\ mode'[k] = "live" => up'[k] \in Seq({m \in OwnMessage(k)' : Full(m)})
                    /\ down'[k] \in Seq(OthersMessage(k)')
                    /\ queue'[k] \in Seq(ByOthers(k)')
                    /\ snd'[k].busy => snd'[k].ev \in ByOthers(k)' /\ snd'[k].ev.op = "NEW_FILE" /\ snd'[k].val # Absent
                    /\ Handling(k)' => rcv'[k].ev \in By(k)'
                    /\ rcv'[k].pc = "bcast" => rcv'[k].todo \subseteq {j \in Clients \ {k} : ~Before(j)'}
                    /\ rcv'[k].pc = "writing" => rcv'[k].ev.op = "NEW_FILE" /\ rcv'[k].val # Absent
  BY DEF EventsOK, Full
<1>1. Own(k)' = Own(k) /\ OwnMessage(k)' = OwnMessage(k)
  BY Grows
<1>2. mode[k] # "live" /\ mode'[k] = "live" => up'[k] = <<>>
  <2>1. mode[k] # "live" /\ mode'[k] = "live" => Register(k)
    BY ModeSteps
  <2>2. Register(k) => Before(k) /\ up' = up
    BY DEF Register, Before
  <2>3. QED
    BY <2>1, <2>2 DEF Unlisted
<1>3. mode'[k] = "live" => up'[k] \in Seq({m \in OwnMessage(k)' : Full(m)})
  <2>1. CASE mode[k] = "live"
    BY <1>1, <2>1, EventsUp
  <2>2. CASE mode[k] # "live"
    <3> DEFINE S == {m \in OwnMessage(k)' : Full(m)}
    <3>1. <<>> \in Seq(S)
      OBVIOUS
    <3> HIDE DEF S
    <3>2. mode'[k] = "live" => up'[k] \in Seq(S)
      BY <1>2, <2>2, <3>1
    <3>3. QED
      BY <3>2 DEF S
  <2>3. QED
    BY <2>1, <2>2
<1>4. out'[k] \in Seq(Own(k)') /\ up'[k] \in Seq(OwnMessage(k)')
  BY <1>1, EventsUsers, EventsUp
<1>5. QED
  BY <1>3, <1>4, EventsDown, EventsReceivers

Base == TypeOK /\ EventsOK /\ Unlisted

LEMMA BaseInit ==
  ASSUME Init
  PROVE  Base
<1>1. plan \in Plans /\ plan.edits \in Nat
  BY PlansAssumption DEF Init
<1>2. EmptyTree \in Tree
  BY DEF EmptyTree, Tree, Content
<1>3. Idle \in Receiver /\ NoSend \in Sender /\ NoWalk \in Walk
  BY DEF Receiver, Sender, NoWalk, Walk
<1>4. TypeOK
  BY <1>1, <1>2, <1>3 DEF Init, TypeOK, Modes
<1>5. EventsOK
  BY DEF Init, EventsOK, Idle, NoSend, Handling
<1>6. Unlisted
  BY DEF Init, Unlisted, Idle
<1>7. QED
  BY <1>4, <1>5, <1>6 DEF Base

LEMMA BaseStep ==
  ASSUME Base, [Next]_vars
  PROVE  Base'
<1>1. CASE Next
  BY <1>1, TypeStep, EventsStep, UnlistedStep DEF Base
<1>2. CASE UNCHANGED vars
  <2>1. /\ folder' = folder /\ copy' = copy /\ mode' = mode /\ out' = out /\ up' = up /\ down' = down /\ rcv' = rcv
        /\ queue' = queue /\ snd' = snd /\ walk' = walk /\ missed' = missed /\ edits' = edits /\ plan' = plan
    BY <1>2 DEF vars
  <2>2. TypeOK'
    BY <2>1 DEF Base, TypeOK
  <2>3. Unlisted'
    BY <2>1 DEF Base, Unlisted, Before
  <2>4. \A c \in Clients : Own(c)' = Own(c) /\ By(c)' = By(c)
    BY <2>1 DEF Own, By, Ordinary, Spoiled
  <2>5. \A c \in Clients : ByOthers(c)' = ByOthers(c) /\ OwnMessage(c)' = OwnMessage(c)
    BY <2>4 DEF ByOthers, OwnMessage
  <2>6. \A c \in Clients : OthersMessage(c)' = OthersMessage(c)
    BY <2>5 DEF OthersMessage
  <2>7. EventsOK'
    BY <2>1, <2>4, <2>5, <2>6 DEF Base, EventsOK, Handling, Before
  <2>8. QED
    BY <2>2, <2>3, <2>7 DEF Base
<1>3. QED
  BY <1>1, <1>2

\* The variables keep their types, whatever is joined, cut off or written meanwhile.
THEOREM TypeCorrect == Spec => []TypeOK
<1>1. Spec => []Base
  BY BaseInit, BaseStep, PTL DEF Spec
<1>2. Base => TypeOK
  BY DEF Base
<1>3. QED
  BY <1>1, <1>2, PTL

-----------------------------------------------------------------------------
(* Whose paths are whose *)

\* The paths that nobody but k edits; those of them that are in step at c.
Mine(k) == {p \in Paths : plan.editors[p] \subseteq {k}}
Held(k, c) == Mine(k) \ Forgotten(c)

LEMMA HeldFacts ==
  ASSUME TypeOK, Tidy, NEW k \in Clients, NEW c \in Clients
  PROVE  WithParents(Held(k, c)) /\ Held(k, c) \subseteq Paths
<1>1. plan \in Plans
  BY DEF TypeOK
<1>2. ASSUME NEW p \in Held(k, c), In[p] # Root PROVE In[p] \in Held(k, c)
  <2>1. p \in Paths /\ plan.editors[p] \subseteq {k} /\ p \notin missed[c] /\ In[p] \notin missed[c]
    BY DEF Held, Mine, Forgotten
  <2>2. In[p] \in Paths /\ In[In[p]] = Root /\ plan.editors[In[p]] \subseteq plan.editors[p]
    BY <1>1, <1>2, <2>1, ConstantFacts DEF Tidy
  <2>3. Root \notin missed[c]
    BY ConstantFacts DEF TypeOK
  <2>4. QED
    BY <2>1, <2>2, <2>3 DEF Held, Mine, Forgotten
<1>3. QED
  BY <1>2 DEF WithParents, Held, Mine

LEMMA HeldShrinks ==
  ASSUME TypeOK, Next
  PROVE  \A k \in Clients, c \in Clients : /\ Held(k, c)' \subseteq Held(k, c)
                                           /\ Mine(k)' = Mine(k) /\ Forgotten(c) \subseteq Forgotten(c)'
<1>1. plan' = plan /\ \A c \in Clients : missed[c] \subseteq missed'[c]
  BY MissedGrows, WhoChanges DEF Changes
<1>2. QED
  BY <1>1 DEF Held, Mine, Forgotten

\* What others do does not touch them.
LEMMA Foreign ==
  ASSUME TypeOK, Tidy, NEW k \in Clients, NEW c \in Clients, NEW j \in Clients \ {k}, NEW e \in By(j)
  PROVE  \A p \in Held(k, c) : ~Touches(e, p)
<1> SUFFICES ASSUME NEW p \in Held(k, c), Touches(e, p) PROVE FALSE
  OBVIOUS
<1>1. e \in Event /\ e.dst \in Paths /\ (j \in plan.editors[e.dst] \/ e.dst \in missed[c])
  BY DEF By, Spoiled, Event
<1>2. e.dst \in Held(k, c)
  BY <1>1, HeldFacts, ConstantFacts DEF Touches, WithParents
<1>3. plan.editors[e.dst] \subseteq {k} /\ e.dst \notin missed[c]
  BY <1>2 DEF Held, Mine, Forgotten
<1>4. QED
  BY <1>1, <1>3

LEMMA ForeignShape ==
  ASSUME TypeOK, Tidy, NEW k \in Clients, NEW c \in Clients, NEW j \in Clients \ {k}, NEW e \in By(j),
         NEW S, S \subseteq Held(k, c)
  PROVE  Shaped(Held(k, c), S, e) = S
<1>1. \A p \in Held(k, c) : ~Touches(e, p)
  BY Foreign
<1>2. QED
  BY <1>1 DEF Shaped, Touches

-----------------------------------------------------------------------------
(* The folders *)

Trees == Sound(folder) /\ \A c \in Clients : Sound(copy[c])

\* The server opens a file for m, or applies it.
Arrives(m) == Good(m) /\ folder' = Applied(folder, m)

LEMMA NoMoves ==
  ASSUME ContentsKept, NEW c \in Clients
  PROVE  /\ \A e \in By(c) : Plain(e)
         /\ \A e \in Own(c) : Plain(e)
         /\ \A e \in ByOthers(c) : Plain(e)
         /\ \A m \in OwnMessage(c) : Plain(m.ev) /\ m \in Message
         /\ \A m \in OthersMessage(c) : Good(m)
<1>1. /\ \A e \in Own(c) : Plain(e)
      /\ \A k \in Clients : \A e \in By(k) : Plain(e)
  BY DEF ContentsKept, Own, By, Ordinary, Plain
<1>2. \A e \in ByOthers(c) : Plain(e)
  BY <1>1 DEF ByOthers
<1>3. QED
  BY <1>1, <1>2 DEF OwnMessage, OthersMessage, Good, Full

LEMMA FolderSteps ==
  ASSUME Base, ContentsKept, NEW c \in Clients
  PROVE  /\ StartFile(c) \/ StartCutFile(c) =>
               /\ up[c] # <<>> /\ Head(up[c]).ev.op = "NEW_FILE"
               /\ Arrives([ev |-> Head(up[c]).ev, val |-> Torn])
         /\ ReceivePath(c) => up[c] # <<>> /\ Head(up[c]).ev.op # "NEW_FILE" /\ Arrives(Head(up[c]))
<1>0. TypeOK /\ EventsOK /\ folder \in Tree /\ rcv[c] \in Receiver
  BY DEF Base, TypeOK
<1>1. ASSUME NEW m \in OwnMessage(c), NEW v \in Content, v # Absent
      PROVE  Good([ev |-> m.ev, val |-> v])
  BY <1>1, NoMoves DEF Good, Message
<1>2. Torn \in Content /\ Torn # Absent
  BY ConstantFacts DEF Content
<1>3. ASSUME StartFile(c)
      PROVE  /\ up[c] # <<>> /\ Head(up[c]).ev.op = "NEW_FILE"
             /\ Arrives([ev |-> Head(up[c]).ev, val |-> Torn])
  <2> DEFINE m == Head(up[c])
  <2>1. m \in OwnMessage(c) /\ m \in Message /\ Well(m.ev) /\ m.ev.op = "NEW_FILE" /\ Open(c, m) /\ rcv[c].pc = "idle"
    BY <1>0, <1>3, Heads, Members DEF StartFile
  <2> HIDE DEF m
  <2>2. folder' = Applied(folder, [ev |-> m.ev, val |-> Torn])
    BY <1>0, <2>1, OpenFacts
  <2>3. QED
    BY <1>1, <1>2, <1>3, <2>1, <2>2 DEF Arrives, StartFile, m
<1>4. ASSUME StartCutFile(c)
      PROVE  /\ up[c] # <<>> /\ Head(up[c]).ev.op = "NEW_FILE"
             /\ Arrives([ev |-> Head(up[c]).ev, val |-> Torn])
  <2> DEFINE e == Head(up[c]).ev
  <2>1. Head(up[c]) \in OwnMessage(c) /\ e.op = "NEW_FILE"
    BY <1>0, <1>4, Heads DEF StartCutFile
  <2>2. IF Fails(folder, e) THEN folder' = folder ELSE folder' = [folder EXCEPT ![e.dst] = Torn]
    BY <1>4 DEF StartCutFile
  <2>3. folder' = Applied(folder, [ev |-> e, val |-> Torn])
    BY <2>1, <2>2 DEF Applied, Effect
  <2>4. QED
    BY <1>1, <1>2, <1>4, <2>1, <2>3 DEF Arrives, StartCutFile
<1>5. ASSUME ReceivePath(c)
      PROVE  up[c] # <<>> /\ Head(up[c]).ev.op # "NEW_FILE" /\ Arrives(Head(up[c]))
  <2> DEFINE m == Head(up[c])
  <2>1. m \in OwnMessage(c) /\ m.ev.op # "NEW_FILE"
    BY <1>0, <1>5, Heads DEF ReceivePath
  <2>2. IF Fails(folder, m.ev) THEN folder' = folder ELSE folder' = Effect(folder, m.ev, m.val)
    BY <1>5 DEF ReceivePath
  <2>3. folder' = Applied(folder, m)
    BY <2>2 DEF Applied
  <2>4. Good(m)
    BY <2>1, NoMoves DEF Good
  <2>5. QED
    BY <1>5, <2>1, <2>3, <2>4 DEF Arrives, ReceivePath
<1>6. QED
  BY <1>3, <1>4, <1>5

\* The content that the receiver of c leaves in a file.
Leaves(c, v) == /\ rcv[c].ino \in Files /\ folder' = [folder EXCEPT ![rcv[c].ino] = v]
                /\ v = rcv[c].val \/ rcv[c].clash

LEMMA FinishSteps ==
  ASSUME Base, NEW c \in Clients, FinishFile(c), folder' # folder
  PROVE  \E v \in Content \ {Absent} : Leaves(c, v)
<1>1. PICK v \in {rcv[c].val} \cup (IF rcv[c].clash THEN {Torn} ELSE {}) :
          folder' = IF rcv[c].ino = Absent THEN folder ELSE [folder EXCEPT ![rcv[c].ino] = v]
  BY DEF FinishFile
<1>2. rcv[c] \in Receiver /\ rcv[c].pc = "writing" /\ rcv[c].val # Absent
  BY DEF Base, TypeOK, EventsOK, FinishFile
<1>3. rcv[c].val \in Content /\ rcv[c].ino \in Files \cup {Absent}
  BY <1>2, ReceiverFacts
<1>4. v \in Content \ {Absent}
  BY <1>1, <1>2, <1>3, ConstantFacts DEF Content
<1>5. rcv[c].ino # Absent
  BY <1>1
<1>6. v = rcv[c].val \/ rcv[c].clash
  BY <1>1
<1>7. Leaves(c, v)
  BY <1>1, <1>3, <1>5, <1>6 DEF Leaves
<1>8. QED
  BY <1>4, <1>7

\* What a client brings back is missed by all.
BringsBack(p, e) == /\ e.dst = p /\ (\A k \in Clients : missed'[k] = missed[k] \cup {p})
                    /\ e.op \in {"NEW_FILE", "NEW_DIRECTORY"}
                    /\ Arrives([ev |-> e, val |-> Torn])

LEMMA ReturnSteps ==
  ASSUME Base, NEW c \in Clients, NEW p \in Paths, Return(c, p), folder' # folder
  PROVE  \E e \in Event : BringsBack(p, e)
<1>a. TypeOK /\ EventsOK /\ folder \in Tree /\ rcv[c] \in Receiver
  BY DEF Base, TypeOK
<1>b. Torn \in Content /\ Torn # Absent
  BY ConstantFacts DEF Content
<1>0. folder[p] = Absent /\ rcv[c].pc = "idle"
  BY DEF Return
<1>1. \A k \in Clients : missed'[k] = missed[k] \cup {p}
  BY <1>0 DEF Return
<1>2. CASE p \in Files
  <2>1. PICK m \in Message : /\ Open(c, m) /\ m.ev = [op |-> "NEW_FILE", src |-> p, dst |-> p]
                             /\ Well(m.ev) /\ m.ev.op = "NEW_FILE" /\ m.val = copy[c][p]
    BY <1>a, <1>0, <1>2, ReturnOpens
  <2>2. folder' = Applied(folder, [ev |-> m.ev, val |-> Torn])
    BY <1>a, <1>0, <2>1, OpenFacts
  <2>3. m.ev \in Event /\ m.ev.dst = p
    BY <2>1 DEF Message
  <2>4. Good([ev |-> m.ev, val |-> Torn])
    BY <1>b, <2>1, <2>3 DEF Good, Plain, Message
  <2>5. BringsBack(p, m.ev)
    BY <1>1, <2>1, <2>2, <2>3, <2>4 DEF Arrives, BringsBack
  <2>6. QED
    BY <2>3, <2>5
<1>3. CASE p \notin Files
  <2> DEFINE e == [op |-> "NEW_DIRECTORY", src |-> p, dst |-> p]
  <2>1. p \in Dirs /\ In[p] = Root
    BY <1>3, ConstantFacts
  <2>2. e \in Event /\ e.dst = p /\ Plain(e) /\ e.op = "NEW_DIRECTORY"
    BY <2>1 DEF Event, Events, Plain, Well
  <2>3. folder' = [folder EXCEPT ![p] = Dir]
    BY <1>0, <1>3 DEF Return
  <2> HIDE DEF e
  <2>4. ~Fails(folder, e)
    BY <2>1, <2>2 DEF Fails, NoParent
  <2>5. folder' = Applied(folder, [ev |-> e, val |-> Torn])
    BY <2>2, <2>3, <2>4 DEF Applied, Effect
  <2>6. Good([ev |-> e, val |-> Torn])
    BY <1>b, <2>2 DEF Good, Message
  <2>7. BringsBack(p, e)
    BY <1>1, <2>2, <2>5, <2>6 DEF Arrives, BringsBack
  <2>8. QED
    BY <2>2, <2>7
<1>4. QED
  BY <1>2, <1>3

\* A path that changes under a walk that has passed it is missed.
LEMMA ChangesSeen ==
  ASSUME Base, ContentsKept, Trees, Next, NEW k \in Clients, mode[k] \in {"sync", "offer"}, rcv[k].pc # "dead",
         NEW p \in Paths, folder'[p] # folder[p]
  PROVE  p \in missed'[k] \/ (mode[k] = "sync" /\ p \in walk[k].todo)
<1>0. folder \in Tree /\ missed \in [Clients -> SUBSET Paths]
  BY DEF Base, TypeOK
<1>1. ASSUME missed' = Behind PROVE p \in missed'[k] \/ (mode[k] = "sync" /\ p \in walk[k].todo)
  BY <1>1 DEF Behind, Syncing
<1>2. ASSUME NEW c \in Clients, StartFile(c) \/ FinishFile(c) \/ ReceivePath(c) PROVE missed' = Behind
  BY <1>2 DEF StartFile, FinishFile, ReceivePath
<1>3. ASSUME NEW c \in Clients, StartCutFile(c) PROVE p \in missed'[k]
  <2> DEFINE e == Head(up[c]).ev
  <2>1. ~Fails(folder, e) /\ folder' = [folder EXCEPT ![e.dst] = Torn] /\ missed' = [j \in Clients |-> missed[j] \cup {e.dst}]
    BY <1>3 DEF StartCutFile
  <2>2. p = e.dst
    BY <1>0, <2>1 DEF Tree
  <2>3. QED
    BY <2>1, <2>2
<1>4. ASSUME NEW c \in Clients, NEW q \in Paths, Return(c, q) PROVE p \in missed'[k]
  <2>1. PICK e \in Event : BringsBack(q, e)
    BY <1>4, ReturnSteps
  <2>2. ~Touches(e, p) => folder'[p] = folder[p]
    BY <2>1, AppliedSound DEF Arrives, Trees, BringsBack
  <2>3. p = q
    BY <2>1, <2>2 DEF Touches, BringsBack
  <2>4. QED
    BY <2>1, <2>3 DEF BringsBack
<1>5. QED
  BY <1>1, <1>2, <1>3, <1>4, WhoChanges DEF Changes

\* What a walk that goes on has passed is in step, what is before it is not there.
Walked ==
    \A c \in Clients : rcv[c].pc # "dead" =>
        /\ mode[c] = "sync" =>
              /\ \A p \in Paths \ Forgotten(c) : p \notin walk[c].todo \cup walk[c].at => copy[c][p] = folder[p]
              /\ \A p \in walk[c].todo \cup walk[c].at : copy[c][p] = Absent
              /\ \A p \in walk[c].at : ~NoParent(copy[c], p) /\ p \notin walk[c].todo
        /\ mode[c] = "offer" => \A p \in Paths \ Forgotten(c) : copy[c][p] = folder[p]

\* What is being written.
Writing ==
    \A k \in Clients : rcv[k].pc = "writing" =>
        /\ rcv[k].ino \in {rcv[k].ev.dst, Absent}
        /\ rcv[k].ino # Absent => folder[rcv[k].ino] # Absent
        /\ rcv[k].ev.dst \in Mine(k) /\ ~Spoiled(rcv[k].ev.dst) => rcv[k].ino = rcv[k].ev.dst /\ ~rcv[k].clash

\* A path at which something appears or changes, in a directory that is there.
LEMMA PutSound ==
  ASSUME NEW t, Sound(t), NEW p \in Paths, NEW v \in Content \ {Absent}, ~NoParent(t, p), p \in Dirs => v = Dir
  PROVE  Sound([t EXCEPT ![p] = v])
<1> DEFINE u == [t EXCEPT ![p] = v]
<1>1. t \in Tree /\ Nested(t) /\ Kind(t)
  BY DEF Sound
<1>2. u \in Tree /\ \A q \in Paths : u[q] = IF q = p THEN v ELSE t[q]
  BY <1>1 DEF Tree
<1> HIDE DEF u
<1>3. Kind(u)
  BY <1>1, <1>2, ConstantFacts DEF Kind
<1>4. Nested(u)
  BY <1>1, <1>2, ConstantFacts DEF Nested, NoParent
<1>5. QED
  BY <1>2, <1>3, <1>4 DEF Sound, u

\* What an edit does to the user's folder and to her client's queue.
EditedAs(c, e) == /\ Good([ev |-> e, val |-> edits']) /\ edits' \in Nat \ {0} /\ Editable(copy[c], e)
                  /\ copy' = [copy EXCEPT ![c] = Applied(copy[c], [ev |-> e, val |-> edits'])]
                  /\ out' = [out EXCEPT ![c] = @ \o Reports(e)]

LEMMA EditSound ==
  ASSUME Base, Trees, ContentsKept, NEW c \in Clients, NEW op \in plan.ops, NEW p \in Paths, NEW q \in Paths,
         Edit(c, [op |-> op, src |-> p, dst |-> q])
  PROVE  \E e \in Own(c) : EditedAs(c, e)
<1> DEFINE e == [op |-> op, src |-> p, dst |-> q]
<1>1. e \in Event /\ e.op \in plan.ops /\ c \in plan.editors[e.dst] /\ c \in plan.editors[e.src]
  BY PlanType DEF Event, Edit, Base
<1>2. Editable(copy[c], e)
  BY DEF Edit
<1>3. Well(e)
  BY <1>1, <1>2 DEF Editable, Well, Event, Events
<1>4. e \in Own(c)
  BY <1>1, <1>3 DEF Own, Ordinary
<1>5. edits' \in Nat \ {0} /\ edits' \in Content /\ edits' # Absent
  <2>1. edits' = edits + 1 /\ edits \in Nat
    BY PlanType DEF Edit, Base, TypeOK
  <2>2. QED
    BY <2>1, ConstantFacts DEF Content
<1>6. Good([ev |-> e, val |-> edits'])
  BY <1>1, <1>4, <1>5, NoMoves DEF Good, Message
<1>7. copy' = [copy EXCEPT ![c] = Effect(@, e, edits')] /\ out' = [out EXCEPT ![c] = @ \o Reports(e)]
  BY DEF Edit
<1> HIDE DEF e
<1>8. ~Fails(copy[c], e)
  BY <1>2, <1>3, <1>6 DEF Editable, Fails, Good, Plain
<1>9. Applied(copy[c], [ev |-> e, val |-> edits']) = Effect(copy[c], e, edits')
  BY <1>8 DEF Applied
<1>10. EditedAs(c, e)
  BY <1>2, <1>5, <1>6, <1>7, <1>9 DEF EditedAs
<1>11. QED
  BY <1>4, <1>10

LEMMA FolderSound ==
  ASSUME Base, Trees, ContentsKept, Writing, Next
  PROVE  Sound(folder')
<1>0. folder \in Tree /\ TypeOK
  BY DEF Base, TypeOK
<1>1. ASSUME NEW m, Arrives(m) PROVE Sound(folder')
  BY <1>1, AppliedSound DEF Arrives, Trees
<1>2. ASSUME NEW c \in Clients, FinishFile(c) PROVE Sound(folder')
  <2>1. CASE folder' = folder
    BY <2>1 DEF Trees
  <2>2. CASE folder' # folder
    <3>1. PICK v \in Content \ {Absent} : Leaves(c, v)
      BY <1>2, <2>2, FinishSteps
    <3>2. rcv[c].pc = "writing" /\ rcv[c].ino # Absent /\ rcv[c].ino \in Paths /\ rcv[c].ino \notin Dirs
      BY <1>2, <3>1, ReplicationAssumption DEF FinishFile, Leaves, Paths
    <3>3. ~NoParent(folder, rcv[c].ino)
      BY <3>2 DEF Writing, Trees, Sound, Nested, NoParent
    <3>4. QED
      BY <3>1, <3>2, <3>3, PutSound DEF Trees, Leaves
  <2>3. QED
    BY <2>1, <2>2
<1>3. ASSUME NEW c \in Clients, StartFile(c) \/ StartCutFile(c) \/ ReceivePath(c) PROVE Sound(folder')
  BY <1>1, <1>3, FolderSteps
<1>4. ASSUME NEW c \in Clients, NEW p \in Paths, Return(c, p) PROVE Sound(folder')
  <2>1. CASE folder' = folder
    BY <2>1 DEF Trees
  <2>2. CASE folder' # folder
    <3>1. PICK e \in Event : BringsBack(p, e)
      BY <1>4, <2>2, ReturnSteps
    <3>2. QED
      BY <1>1, <3>1 DEF BringsBack
  <2>3. QED
    BY <2>1, <2>2
<1>5. QED
  BY <1>2, <1>3, <1>4, WhoChanges DEF Changes, Trees

LEMMA CopySound ==
  ASSUME Base, Trees, ContentsKept, Walked, Next, NEW k \in Clients
  PROVE  Sound(copy'[k])
<1>0. TypeOK /\ EventsOK /\ copy \in [Clients -> Tree] /\ Sound(copy[k])
  BY DEF Base, TypeOK, Trees
<1>1. CASE Edits
  <2>1. PICK c \in Clients, op \in plan.ops, p \in Paths, q \in Paths : Edit(c, [op |-> op, src |-> p, dst |-> q])
    BY <1>1 DEF Edits
  <2>2. PICK e \in Own(c) : EditedAs(c, e)
    BY <2>1, EditSound
  <2>3. Sound(Applied(copy[c], [ev |-> e, val |-> edits']))
    BY <2>2, AppliedSound DEF Trees, EditedAs
  <2>4. QED
    BY <1>0, <2>2, <2>3 DEF EditedAs
<1>2. ASSUME NEW c \in Clients, ClientReceive(c) PROVE Sound(copy'[k])
  <2> DEFINE m == Head(down[c])
  <2>1. Good(m)
    BY <1>0, <1>2, Heads, NoMoves DEF ClientReceive
  <2>2. copy' = copy \/ copy' = [copy EXCEPT ![c] = Applied(@, m)]
    BY <1>2 DEF ClientReceive, Applied
  <2> HIDE DEF m
  <2>3. Sound(Applied(copy[c], m))
    BY <2>1, AppliedSound DEF Trees
  <2>4. QED
    BY <1>0, <2>2, <2>3
<1>3. ASSUME NEW c \in Clients, NEW p \in Paths, Offer(c, p) PROVE Sound(copy'[k])
  <2>1. CASE copy'[k] = copy[k]
    BY <1>0, <2>1
  <2>2. CASE copy'[k] # copy[k]
    <3>1. folder[p] # Absent
      BY <1>3, <2>2 DEF Offer
    <3>2. PICK v \in {folder[p]} \cup (IF p \in Files \cap missed[c] THEN {Torn} ELSE {}) : copy' = [copy EXCEPT ![c][p] = v]
      BY <1>3, <3>1 DEF Offer
    <3>3. c = k /\ copy'[k] = [copy[k] EXCEPT ![p] = v]
      BY <1>0, <2>2, <3>2
    <3>4. mode[k] = "sync" /\ rcv[k].pc = "idle" /\ walk[k].at = {p}
      BY <1>3, <3>3 DEF Offer
    <3>5. ~NoParent(copy[k], p)
      BY <3>4 DEF Walked
    <3>6. v \in Content \ {Absent} /\ (p \in Dirs => v = Dir)
      BY <3>1, <3>2, ConstantFacts DEF Trees, Sound, Tree, Kind, Content
    <3>7. QED
      BY <1>0, <3>3, <3>5, <3>6, PutSound
  <2>3. QED
    BY <2>1, <2>2
<1>4. QED
  BY <1>0, <1>1, <1>2, <1>3, WhoChanges DEF Changes

LEMMA TreesStep ==
  ASSUME Base, Trees, ContentsKept, Writing, Walked, Next
  PROVE  Trees'
<1>1. Sound(folder')
  BY FolderSound
<1>2. \A k \in Clients : Sound(copy'[k])
  BY CopySound
<1>3. QED
  BY <1>1, <1>2 DEF Trees

WritingOf(k) ==
    rcv[k].pc = "writing" =>
        /\ rcv[k].ino \in {rcv[k].ev.dst, Absent}
        /\ rcv[k].ino # Absent => folder[rcv[k].ino] # Absent
        /\ rcv[k].ev.dst \in Mine(k) /\ ~Spoiled(rcv[k].ev.dst) => rcv[k].ino = rcv[k].ev.dst /\ ~rcv[k].clash

LEMMA WritingFacts ==
  ASSUME Base, Writing, Next, NEW k \in Clients, rcv[k].pc = "writing"
  PROVE  /\ WritingOf(k) /\ rcv[k].ev \in By(k) /\ rcv[k].ev \in Event /\ rcv[k].ev.dst \in Paths
         /\ Mine(k)' = Mine(k) /\ (Spoiled(rcv[k].ev.dst) => \A c \in Clients : rcv[k].ev.dst \in missed'[c])
         /\ rcv[k].ino # Absent => rcv[k].ino \in Files /\ rcv[k].ino = rcv[k].ev.dst
<1>1. WritingOf(k) /\ rcv[k].ev \in By(k) /\ plan' = plan /\ TypeOK /\ rcv[k] \in Receiver
  BY WhoChanges DEF Base, Writing, WritingOf, EventsOK, Handling, Changes, TypeOK
<1>2. rcv[k].ev \in Event /\ rcv[k].ino \in Files \cup {Absent}
  BY <1>1, ReceiverFacts
<1>3. rcv[k].ev.dst \in Paths
  BY <1>2 DEF Event
<1>4. Mine(k)' = Mine(k)
  BY <1>1 DEF Mine
<1>5. Spoiled(rcv[k].ev.dst) => (\A c \in Clients : rcv[k].ev.dst \in missed'[c])
  BY <1>1, <1>3, MissedGrows DEF Spoiled
<1>6. QED
  BY <1>1, <1>2, <1>3, <1>4, <1>5 DEF WritingOf

\* What others do to a file that is being written.
LEMMA WritingKept ==
  ASSUME Base, Writing, Next, NEW k \in Clients, rcv[k].pc = "writing", rcv'[k].ev = rcv[k].ev,
         rcv'[k].ino \in {rcv[k].ino, Absent}, rcv'[k].ino # Absent => folder'[rcv'[k].ino] # Absent,
         \/ rcv'[k].ino = rcv[k].ino /\ rcv'[k].clash = rcv[k].clash
         \/ rcv[k].ev.dst \notin Mine(k)
         \/ \A c \in Clients : rcv[k].ev.dst \in missed'[c]
  PROVE  WritingOf(k)'
<1>1. /\ WritingOf(k) /\ Mine(k)' = Mine(k) /\ (Spoiled(rcv[k].ev.dst) => \A c \in Clients : rcv[k].ev.dst \in missed'[c])
  BY WritingFacts
<1>2. rcv'[k].ino \in {rcv'[k].ev.dst, Absent}
  BY <1>1 DEF WritingOf
<1>3. ASSUME rcv'[k].ev.dst \in Mine(k)', \E c \in Clients : rcv'[k].ev.dst \notin missed'[c]
      PROVE  rcv'[k].ino = rcv'[k].ev.dst /\ ~rcv'[k].clash
  <2>1. rcv[k].ev.dst \in Mine(k) /\ ~Spoiled(rcv[k].ev.dst)
    BY <1>1, <1>3 DEF Spoiled
  <2>2. rcv'[k].ino = rcv[k].ino /\ rcv'[k].clash = rcv[k].clash
    BY <1>3, <2>1 DEF Spoiled
  <2>3. QED
    BY <1>1, <2>1, <2>2 DEF WritingOf
<1>4. QED
  BY <1>2, <1>3 DEF WritingOf, Spoiled

\* Where an event of one client has an effect, nobody else is alone.
LEMMA NotMine ==
  ASSUME TypeOK, Tidy, NEW c \in Clients, NEW e \in Own(c), NEW k \in Clients \ {c}, NEW p \in Paths, Touches(e, p)
  PROVE  p \notin Mine(k)
<1>1. e \in Event /\ c \in plan.editors[e.dst] /\ plan \in Plans /\ e.dst \in Paths
  BY DEF Own, TypeOK, Event
<1>2. e.dst # p => In[p] = e.dst /\ plan.editors[e.dst] \subseteq plan.editors[p]
  BY <1>1, ConstantFacts DEF Touches, Tidy
<1>3. QED
  BY <1>1, <1>2 DEF Mine

\* A file is opened: what becomes of the others that are being written.
LEMMA WritingOpened ==
  ASSUME Base, Tidy, Writing, Next, NEW c \in Clients, NEW m \in Message, Well(m.ev), m.ev.op = "NEW_FILE",
         rcv[c].pc # "writing", Open(c, m),
         m.ev \in Own(c) \/ \A k \in Clients : m.ev.dst \in missed'[k],
         NEW k \in Clients
  PROVE  WritingOf(k)'
<1> DEFINE p == m.ev.dst
<1>0. TypeOK /\ EventsOK /\ folder \in Tree /\ p \in Paths /\ plan' = plan /\ rcv \in [Clients -> Receiver]
  BY WhoChanges DEF Base, TypeOK, Message, Event, Changes
<1> HIDE DEF p
<1>1. CASE Fails(folder, m.ev)
  <2>1. folder' = folder /\ rcv' = [rcv EXCEPT ![c] = Dead(TRUE)]
    BY <1>1 DEF Open
  <2>2. CASE k = c
    BY <1>0, <2>1, <2>2 DEF WritingOf, Dead
  <2>3. CASE k # c
    <3>1. rcv'[k] = rcv[k]
      BY <1>0, <2>1, <2>3
    <3>2. rcv[k].pc = "writing" => WritingOf(k)
      BY DEF Writing, WritingOf
    <3>3. QED
      BY <2>1, <3>1, <3>2, WritingKept DEF WritingOf
  <2>4. QED
    BY <2>2, <2>3
<1>2. CASE ~Fails(folder, m.ev)
  <2>1. folder' = [folder EXCEPT ![p] = Torn]
    BY <1>2 DEF Open, p
  <2>2. \A q \in Paths : folder'[q] = IF q = p THEN Torn ELSE folder[q]
    BY <1>0, <2>1 DEF Tree
  <2>3. CASE k = c
    <3>1. /\ rcv'[c].pc = "writing" /\ rcv'[c].ev = m.ev
          /\ rcv'[c].ino = p /\ (rcv'[c].clash <=> Writers(p) # {})
      BY <1>0, <1>2, OpenFacts DEF p
    <3>2. folder'[p] # Absent
      BY <1>0, <2>2, ConstantFacts
    <3>3. ASSUME p \in Mine(c)', \E i \in Clients : p \notin missed'[i], NEW j \in Writers(p) PROVE FALSE
      <4>1. j \in Clients /\ j # c /\ rcv[j].pc = "writing" /\ rcv[j].ino = p
        BY <3>3 DEF Writers
      <4>2. rcv[j].ev.dst = p /\ rcv[j].ev \in By(j) /\ (Spoiled(p) => \A i \in Clients : p \in missed'[i])
        BY <1>0, <4>1, WritingFacts, ReplicationAssumption
      <4>3. j \in plan.editors[p]
        BY <3>3, <4>2 DEF By, Spoiled
      <4>4. QED
        BY <1>0, <3>3, <4>1, <4>3 DEF Mine
    <3>4. QED
      BY <2>3, <3>1, <3>2, <3>3 DEF WritingOf, p, Spoiled
  <2>4. CASE k # c
    <3>1. rcv'[k] = IF k \in Writers(p) THEN [rcv[k] EXCEPT !.clash = TRUE] ELSE rcv[k]
      BY <1>0, <1>2, <2>4 DEF Open, p
    <3>2. SUFFICES ASSUME rcv[k].pc = "writing" PROVE WritingOf(k)'
      <4>1. rcv'[k].pc = "writing" => rcv[k].pc = "writing"
        BY <1>0, <1>2, <2>4, OpenFacts DEF Kept
      <4>2. QED
        BY <3>2, <4>1 DEF WritingOf
    <3>3. /\ WritingOf(k) /\ rcv[k].ev.dst \in Paths
          /\ (rcv[k].ino # Absent => rcv[k].ino \in Files /\ rcv[k].ino = rcv[k].ev.dst)
      BY <3>2, WritingFacts
    <3>4. rcv'[k].ev = rcv[k].ev /\ rcv'[k].ino = rcv[k].ino
      BY <1>0, <3>1, <3>2, ClashFacts
    <3>5. rcv'[k].ino # Absent => folder'[rcv'[k].ino] # Absent
      BY <2>2, <3>2, <3>3, <3>4, ConstantFacts DEF WritingOf
    <3>6. CASE k \notin Writers(p)
      BY <3>1, <3>2, <3>4, <3>5, <3>6, WritingKept
    <3>7. CASE k \in Writers(p)
      <4>1. rcv[k].ino = p /\ rcv[k].ev.dst = p
        BY <1>0, <3>3, <3>7, ReplicationAssumption DEF Writers
      <4>2. p \notin Mine(k) \/ \A j \in Clients : p \in missed'[j]
        BY <1>0, <2>4, NotMine DEF p, Touches
      <4>3. QED
        BY <3>2, <3>4, <3>5, <4>1, <4>2, WritingKept
    <3>8. QED
      BY <3>6, <3>7
  <2>5. QED
    BY <2>3, <2>4
<1>3. QED
  BY <1>1, <1>2

\* A path changes hands: what becomes of the files that are being written.
LEMMA WritingRetarget ==
  ASSUME Base, Tidy, Trees, ContentsKept, Writing, Next, NEW c \in Clients, ReceivePath(c), NEW k \in Clients
  PROVE  WritingOf(k)'
<1> DEFINE m == Head(up[c])
<1>0. /\ TypeOK /\ EventsOK /\ folder \in Tree /\ rcv \in [Clients -> Receiver] /\ Sound(folder)
      /\ m \in OwnMessage(c) /\ m \in Message /\ m.ev \in Own(c) /\ Plain(m.ev) /\ m.ev \in Event /\ m.ev.op # "NEW_FILE"
  BY Heads, NoMoves, Members DEF Base, TypeOK, ReceivePath, Trees, Message
<1>1. folder' = Applied(folder, m) /\ Good(m)
  BY FolderSteps DEF Arrives
<1>2. /\ Fails(folder, m.ev) => rcv' = [rcv EXCEPT ![c] = Dead(m.ev.op # "NEW_DIRECTORY")]
      /\ ~Fails(folder, m.ev) =>
            rcv' = [j \in Clients |-> IF j = c THEN [pc |-> "saved", ev |-> m.ev]
                                      ELSE IF rcv[j].pc = "writing" THEN Retarget(m.ev, rcv[j])
                                      ELSE rcv[j]]
  BY DEF ReceivePath
<1>3. rcv[c].pc = "idle"
  BY DEF ReceivePath
<1> HIDE DEF m
<1>4. ASSUME rcv[k].pc # "writing" PROVE rcv'[k].pc # "writing"
  <2>1. CASE k = c
    BY <1>0, <1>2, <2>1 DEF Dead
  <2>2. CASE k # c
    BY <1>0, <1>2, <1>4, <2>2
  <2>3. QED
    BY <2>1, <2>2
<1>5. SUFFICES ASSUME rcv[k].pc = "writing" PROVE WritingOf(k)'
  BY <1>4 DEF WritingOf
<1>6. k # c /\ rcv[k] \in Receiver
  BY <1>0, <1>3, <1>5
<1>7. /\ WritingOf(k) /\ rcv[k].ev.dst \in Paths
      /\ (rcv[k].ino # Absent => rcv[k].ino \in Files /\ rcv[k].ino = rcv[k].ev.dst)
  BY <1>5, WritingFacts
<1>8. CASE Fails(folder, m.ev)
  <2>1. rcv'[k] = rcv[k] /\ folder' = folder
    BY <1>0, <1>1, <1>2, <1>6, <1>8 DEF Applied
  <2>2. QED
    BY <1>5, <1>7, <2>1, WritingKept DEF WritingOf
<1>9. CASE ~Fails(folder, m.ev)
  <2>1. rcv'[k] = Retarget(m.ev, rcv[k])
    BY <1>2, <1>5, <1>6, <1>9
  <2>2. rcv'[k].ev = rcv[k].ev
    BY <1>0, <1>5, <1>6, <2>1, RetargetFacts DEF Plain
  <2>3. /\ m.ev.dst \in Paths /\ m.ev.src \in Paths /\ (m.ev.op = "DELETE" => m.ev.src = m.ev.dst)
        /\ m.ev.op \in {"NEW_DIRECTORY", "DELETE", "COPY"}
    BY <1>0 DEF Plain, Well, Event, Events
  <2>4. CASE Touches(m.ev, rcv[k].ev.dst)
    <3>1. rcv[k].ev.dst \notin Mine(k)
      BY <1>0, <1>6, <1>7, <2>4, NotMine
    <3>2. CASE m.ev.op = "DELETE"
      <4>1. /\ rcv[k].ino \in Affected(m.ev) => rcv'[k] = [rcv[k] EXCEPT !.ino = Absent]
            /\ rcv[k].ino \notin Affected(m.ev) => rcv'[k] = rcv[k]
        BY <2>1, <3>2 DEF Retarget
      <4>2. rcv'[k].ino = Absent
        <5>1. rcv[k].ino = Absent => rcv[k].ino \notin Affected(m.ev)
          BY <2>3, ReplicationAssumption DEF Affected
        <5>2. rcv[k].ino # Absent => rcv[k].ino \in Affected(m.ev)
          BY <1>7, <2>3, <2>4, <3>2 DEF Affected, Touches
        <5>3. rcv[k].ino \in Affected(m.ev) => rcv'[k].ino = Absent
          BY <1>6, <1>5, <4>1, ReceiverFacts
        <5>4. QED
          BY <4>1, <5>1, <5>2, <5>3
      <4>3. QED
        BY <1>5, <2>2, <3>1, <4>2, WritingKept
    <3>3. CASE m.ev.op # "DELETE"
      <4>1. rcv'[k].ino = rcv[k].ino
        BY <1>5, <1>6, <2>1, <2>3, <3>3, ClashFacts DEF Retarget
      <4>2. folder'[m.ev.dst] = folder[m.ev.dst] \/ folder'[m.ev.dst] # Absent
        <5>1. folder'[m.ev.dst] = IF m.ev.dst = m.ev.dst /\ ~NoParent(folder, m.ev.dst)
                                  THEN Brought(folder, m.ev, m.val) ELSE folder[m.ev.dst]
          BY <1>0, <1>1, <2>3, <3>3, AppliedAt
        <5>2. Brought(folder, m.ev, m.val) # Absent
          BY <1>0, <2>3, <3>3, ConstantFacts DEF Brought
        <5>3. QED
          BY <5>1, <5>2
      <4>3. rcv[k].ev.dst = m.ev.dst
        BY <2>4, <3>3 DEF Touches
      <4>4. rcv'[k].ino # Absent => folder'[rcv'[k].ino] # Absent
        BY <1>5, <1>7, <4>1, <4>2, <4>3 DEF WritingOf
      <4>5. QED
        BY <1>5, <2>2, <3>1, <4>1, <4>4, WritingKept
    <3>4. QED
      BY <3>2, <3>3
  <2>5. CASE ~Touches(m.ev, rcv[k].ev.dst)
    <3>1. rcv'[k] = rcv[k]
      <4>1. rcv[k].ino = Absent \/ rcv[k].ino = rcv[k].ev.dst
        BY <1>7
      <4>2. rcv[k].ino \notin Affected(m.ev) \/ m.ev.op # "DELETE"
        BY <2>3, <2>5, <4>1, ReplicationAssumption DEF Affected, Touches
      <4>3. rcv[k].ino # m.ev.dst
        BY <2>3, <2>5, <4>1, ReplicationAssumption DEF Touches
      <4>4. QED
        BY <2>1, <2>3, <4>2, <4>3 DEF Retarget
    <3>2. folder'[rcv[k].ev.dst] = folder[rcv[k].ev.dst]
      BY <1>0, <1>1, <1>7, <2>5, AppliedSound
    <3>3. QED
      BY <1>5, <1>7, <3>1, <3>2, WritingKept DEF WritingOf
  <2>6. QED
    BY <2>4, <2>5
<1>10. QED
  BY <1>8, <1>9

LEMMA WritingFinished ==
  ASSUME Base, Trees, Tidy, Writing, ContentsKept, Next, NEW c \in Clients, FinishFile(c), NEW k \in Clients
  PROVE  WritingOf(k)'
<1>0. TypeOK /\ EventsOK /\ folder \in Tree /\ rcv \in [Clients -> Receiver]
  BY DEF Base, TypeOK
<1>1. CASE k = c
  BY <1>0, <1>1, OwnSteps DEF WritingOf, Dead
<1>2. CASE k # c
  <2>1. rcv'[k] = rcv[k]
    BY <1>0, <1>2 DEF FinishFile
  <2>2. SUFFICES ASSUME rcv[k].pc = "writing" PROVE WritingOf(k)'
    BY <2>1 DEF WritingOf
  <2>3. \A q \in Paths : folder[q] # Absent => folder'[q] # Absent
    <3>1. CASE folder' = folder
      BY <3>1
    <3>2. CASE folder' # folder
      <4>1. PICK v \in Content \ {Absent} : Leaves(c, v)
        BY <3>2, FinishSteps
      <4>2. QED
        BY <1>0, <4>1 DEF Leaves, Tree
    <3>3. QED
      BY <3>1, <3>2
  <2>4. /\ WritingOf(k) /\ rcv[k].ev.dst \in Paths
        /\ (rcv[k].ino # Absent => rcv[k].ino \in Files /\ rcv[k].ino = rcv[k].ev.dst)
    BY <2>2, WritingFacts
  <2>5. QED
    BY <2>1, <2>2, <2>3, <2>4, WritingKept DEF WritingOf
<1>3. QED
  BY <1>1, <1>2

LEMMA WritingCut ==
  ASSUME Base, Trees, Tidy, Writing, ContentsKept, Next, NEW c \in Clients, StartCutFile(c), NEW k \in Clients
  PROVE  WritingOf(k)'
<1> DEFINE e == Head(up[c]).ev
<1>0. /\ TypeOK /\ EventsOK /\ folder \in Tree /\ rcv \in [Clients -> Receiver] /\ e \in Own(c)
      /\ e.op = "NEW_FILE" /\ e.dst \in Paths
  BY Heads, Members DEF Base, TypeOK, StartCutFile, OwnMessage, Event
<1>1. /\ Fails(folder, e) => folder' = folder /\ rcv' = [rcv EXCEPT ![c] = Dead(TRUE)]
      /\ ~Fails(folder, e) => /\ folder' = [folder EXCEPT ![e.dst] = Torn]
                              /\ rcv' = [j \in Clients |->
                                            IF j = c THEN Dead(TRUE)
                                            ELSE IF j \in Writers(e.dst) THEN [rcv[j] EXCEPT !.clash = TRUE]
                                            ELSE rcv[j]]
  BY DEF StartCutFile
<1> HIDE DEF e
<1>2. CASE k = c
  BY <1>0, <1>1, <1>2 DEF WritingOf, Dead
<1>3. CASE k # c
  <2>1. rcv'[k] = rcv[k] \/ (k \in Writers(e.dst) /\ rcv'[k] = [rcv[k] EXCEPT !.clash = TRUE])
    BY <1>0, <1>1, <1>3
  <2>2. SUFFICES ASSUME rcv[k].pc = "writing" PROVE WritingOf(k)'
    BY <2>1 DEF WritingOf, Writers
  <2>3. /\ WritingOf(k) /\ rcv[k].ev.dst \in Paths
        /\ (rcv[k].ino # Absent => rcv[k].ino \in Files /\ rcv[k].ino = rcv[k].ev.dst)
    BY <2>2, WritingFacts
  <2>4. rcv'[k].ev = rcv[k].ev /\ rcv'[k].ino = rcv[k].ino
    BY <1>0, <2>1, <2>2, ClashFacts
  <2>5. \A q \in Paths : folder[q] # Absent => folder'[q] # Absent
    BY <1>0, <1>1, ConstantFacts DEF Tree
  <2>6. CASE rcv'[k] = rcv[k]
    BY <2>2, <2>3, <2>5, <2>6, WritingKept DEF WritingOf
  <2>7. CASE k \in Writers(e.dst)
    <3>1. rcv[k].ev.dst = e.dst
      BY <1>0, <2>3, <2>7, ReplicationAssumption DEF Writers
    <3>2. rcv[k].ev.dst \notin Mine(k)
      BY <1>0, <1>3, <3>1, NotMine DEF Touches
    <3>3. QED
      BY <2>2, <2>3, <2>4, <2>5, <3>2, WritingKept DEF WritingOf
  <2>8. QED
    BY <2>1, <2>6, <2>7
<1>4. QED
  BY <1>2, <1>3

LEMMA WritingStep ==
  ASSUME Base, Trees, Tidy, Writing, ContentsKept, Next
  PROVE  Writing'
<1>0. TypeOK /\ EventsOK /\ folder \in Tree /\ rcv \in [Clients -> Receiver]
  BY DEF Base, TypeOK
<1> SUFFICES ASSUME NEW k \in Clients PROVE WritingOf(k)'
  BY DEF Writing, WritingOf
<1>1. ASSUME folder' = folder, rcv'[k] = rcv[k] \/ rcv'[k].pc # "writing" PROVE WritingOf(k)'
  <2>1. CASE rcv'[k].pc # "writing"
    BY <2>1 DEF WritingOf
  <2>2. CASE rcv'[k] = rcv[k] /\ rcv[k].pc = "writing"
    <3>1. WritingOf(k)
      BY <2>2, WritingFacts
    <3>2. QED
      BY <1>1, <2>2, <3>1, WritingKept DEF WritingOf
  <2>3. QED
    BY <1>1, <2>1, <2>2
<1>2. ASSUME NEW c \in Clients, StartFile(c) PROVE WritingOf(k)'
  <2>1. Head(up[c]) \in OwnMessage(c) /\ Open(c, Head(up[c])) /\ rcv[c].pc = "idle"
    BY <1>0, <1>2, Heads DEF StartFile
  <2>2. Head(up[c]) \in Message /\ Well(Head(up[c]).ev) /\ Head(up[c]).ev.op = "NEW_FILE" /\ Head(up[c]).ev \in Own(c)
    BY <1>2, <2>1, Members DEF StartFile
  <2>3. QED
    BY <2>1, <2>2, WritingOpened
<1>3. ASSUME NEW c \in Clients, NEW p \in Paths, Return(c, p) PROVE WritingOf(k)'
  <2>1. rcv[c].pc = "idle"
    BY <1>3 DEF Return
  <2>2. CASE folder[p] # Absent
    BY <1>1, <1>3, <2>2 DEF Return
  <2>3. CASE folder[p] = Absent /\ p \in Files
    <3>1. PICK m \in Message : /\ Open(c, m) /\ m.ev = [op |-> "NEW_FILE", src |-> p, dst |-> p]
                               /\ Well(m.ev) /\ m.ev.op = "NEW_FILE" /\ m.val = copy[c][p]
      BY <1>0, <1>3, <2>3, ReturnOpens
    <3>2. \A j \in Clients : m.ev.dst \in missed'[j]
      BY <1>3, <2>3, <3>1 DEF Return
    <3>3. QED
      BY <2>1, <3>1, <3>2, WritingOpened
  <2>4. CASE folder[p] = Absent /\ p \notin Files
    <3>1. /\ folder' = [folder EXCEPT ![p] = Dir]
          /\ rcv' = [rcv EXCEPT ![c] = [pc |-> "saved", ev |-> [op |-> "NEW_DIRECTORY", src |-> p, dst |-> p]]]
      BY <1>3, <2>4 DEF Return
    <3>2. CASE k = c
      BY <1>0, <3>1, <3>2 DEF WritingOf
    <3>3. CASE k # c
      <4>1. rcv'[k] = rcv[k] /\ \A q \in Paths : folder[q] # Absent => folder'[q] # Absent
        BY <1>0, <3>1, <3>3, ConstantFacts DEF Tree
      <4>2. SUFFICES ASSUME rcv[k].pc = "writing" PROVE WritingOf(k)'
        BY <4>1 DEF WritingOf
      <4>3. /\ WritingOf(k) /\ rcv[k].ev.dst \in Paths
            /\ (rcv[k].ino # Absent => rcv[k].ino \in Files /\ rcv[k].ino = rcv[k].ev.dst)
        BY <4>2, WritingFacts
      <4>4. QED
        BY <4>1, <4>2, <4>3, WritingKept DEF WritingOf
    <3>4. QED
      BY <3>2, <3>3
  <2>5. QED
    BY <2>2, <2>3, <2>4
<1>4. ASSUME NEW c \in Clients, StartCutFile(c) \/ FinishFile(c) \/ ReceivePath(c) PROVE WritingOf(k)'
  BY <1>4, WritingCut, WritingFinished, WritingRetarget
<1>5. ASSUME NEW c \in Clients,
             StartBroadcast(c) \/ (\E j \in Clients : Enqueue(c, j)) \/ EndBroadcast(c) \/ \E p \in Paths : Offer(c, p)
      PROVE  WritingOf(k)'
  <2>1. folder' = folder
    BY <1>5 DEF StartBroadcast, Enqueue, EndBroadcast, Offer
  <2>2. CASE k = c
    <3>1. rcv'[c].pc \in {"idle", "bcast", "dead"} \/ rcv'[c] = rcv[c]
      <4>1. StartBroadcast(c) => rcv'[c].pc = "bcast"
        BY <1>0, OwnSteps
      <4>2. (\E j \in Clients : Enqueue(c, j)) => rcv'[c].pc = "bcast"
        BY <1>0, OwnSteps
      <4>3. EndBroadcast(c) => rcv'[c].pc = "idle"
        BY <1>0 DEF EndBroadcast, Idle
      <4>4. (\E p \in Paths : Offer(c, p)) => rcv'[c] = rcv[c] \/ rcv'[c].pc = "dead"
        BY <1>0, OwnSteps
      <4>5. QED
        BY <1>5, <4>1, <4>2, <4>3, <4>4
    <3>2. QED
      BY <1>1, <2>1, <2>2, <3>1
  <2>3. CASE k # c
    <3>1. rcv'[k] = rcv[k]
      BY <1>0, <1>5, <2>3 DEF StartBroadcast, Enqueue, EndBroadcast, Offer
    <3>2. QED
      BY <1>1, <2>1, <3>1
  <2>4. QED
    BY <2>2, <2>3
<1>6. QED
  BY <1>1, <1>2, <1>3, <1>4, <1>5, WhoChanges DEF Changes

WalkedOf(c) ==
    rcv[c].pc # "dead" =>
        /\ mode[c] = "sync" =>
              /\ \A p \in Paths \ Forgotten(c) : p \notin walk[c].todo \cup walk[c].at => copy[c][p] = folder[p]
              /\ \A p \in walk[c].todo \cup walk[c].at : copy[c][p] = Absent
              /\ \A p \in walk[c].at : ~NoParent(copy[c], p) /\ p \notin walk[c].todo
        /\ mode[c] = "offer" => \A p \in Paths \ Forgotten(c) : copy[c][p] = folder[p]

\* Until it is in the list, the folder of a client changes by the walk only.
LEMMA WalkAlone ==
  ASSUME Base, Next, NEW c \in Clients
  PROVE  /\ rcv[c].pc = "dead" => rcv'[c].pc = "dead"
         /\ mode[c] \in {"off", "sync", "offer"} => copy'[c] = copy[c] \/ \E p \in Paths : Offer(c, p)
         /\ walk'[c] = walk[c] \/ Join(c) \/ TurnAround(c) \/ \E p \in Paths : Visit(c, p) \/ Offer(c, p) \/ Return(c, p)
<1>0. TypeOK /\ EventsOK /\ copy \in [Clients -> Tree] /\ walk \in [Clients -> Walk]
  BY DEF Base, TypeOK
<1>1. rcv[c].pc = "dead" => rcv'[c].pc = "dead"
  <2>1. ~(rcv[c].pc = "dead" /\ OwnStep(c))
    BY DEF OwnStep, StartFile, StartCutFile, FinishFile, ReceivePath, StartBroadcast, Enqueue, EndBroadcast, Offer, Return
  <2>2. QED
    BY <1>0, <2>1, WhoseStep DEF Kept
<1>2. ASSUME mode[c] \in {"off", "sync", "offer"} PROVE copy'[c] = copy[c] \/ \E p \in Paths : Offer(c, p)
  <2>1. ASSUME Edits PROVE copy'[c] = copy[c]
    <3>1. PICK k \in Clients, op \in plan.ops, p \in Paths, q \in Paths : Edit(k, [op |-> op, src |-> p, dst |-> q])
      BY <2>1 DEF Edits
    <3>2. k # c
      BY <1>2, <3>1 DEF Edit
    <3>3. QED
      BY <1>0, <3>1, <3>2 DEF Edit
  <2>2. ASSUME NEW k \in Clients, ClientReceive(k) PROVE copy'[c] = copy[c]
    <3>1. k # c
      BY <1>2, <2>2 DEF ClientReceive
    <3>2. QED
      BY <1>0, <2>2, <3>1 DEF ClientReceive
  <2>3. ASSUME NEW k \in Clients, k # c, NEW p \in Paths, Offer(k, p) PROVE copy'[c] = copy[c]
    BY <1>0, <2>3 DEF Offer
  <2>4. QED
    BY <2>1, <2>2, <2>3, WhoChanges DEF Changes
<1>3. ASSUME NEW k \in Clients, k # c, Join(k) \/ TurnAround(k) \/ \E p \in Paths : Visit(k, p) \/ Offer(k, p) \/ Return(k, p)
      PROVE  walk'[c] = walk[c]
  BY <1>0, <1>3 DEF Join, TurnAround, Visit, Offer, Return
<1>4. QED
  BY <1>1, <1>2, <1>3, WhoChanges DEF Changes

LEMMA ForgottenGrows ==
  ASSUME TypeOK, Next, NEW c \in Clients
  PROVE  Forgotten(c) \subseteq Forgotten(c)' /\ missed[c] \subseteq missed'[c]
<1>1. missed[c] \subseteq missed'[c]
  BY MissedGrows
<1>2. QED
  BY <1>1 DEF Forgotten

\* A step that leaves the walk alone.
LEMMA WalkedKept ==
  ASSUME Base, ContentsKept, Trees, Walked, Next, NEW c \in Clients, mode'[c] = mode[c], copy'[c] = copy[c],
         walk'[c] = walk[c] \/ mode[c] = "offer"
  PROVE  WalkedOf(c)'
<1>1. WalkedOf(c) /\ Forgotten(c) \subseteq Forgotten(c)'
  BY ForgottenGrows DEF Walked, WalkedOf, Base
<1>2. SUFFICES ASSUME rcv'[c].pc # "dead" PROVE WalkedOf(c)'
  BY DEF WalkedOf
<1>3. rcv[c].pc # "dead"
  BY <1>2, WalkAlone
<1>4. ASSUME mode[c] \in {"sync", "offer"}, NEW p \in Paths, p \notin Forgotten(c)', folder'[p] # folder[p]
      PROVE  mode[c] = "sync" /\ p \in walk[c].todo
  <2>1. p \notin missed'[c]
    BY <1>4 DEF Forgotten
  <2>2. QED
    BY <1>3, <1>4, <2>1, ChangesSeen
<1>5. CASE mode[c] = "sync"
  BY <1>1, <1>3, <1>4, <1>5 DEF WalkedOf
<1>6. CASE mode[c] = "offer"
  BY <1>1, <1>3, <1>4, <1>6 DEF WalkedOf
<1>7. CASE mode[c] \notin {"sync", "offer"}
  BY <1>7 DEF WalkedOf
<1>8. QED
  BY <1>5, <1>6, <1>7

LEMMA WalkedJoin ==
  ASSUME Base, NEW c \in Clients, Join(c)
  PROVE  WalkedOf(c)'
<1>1. /\ mode' = [mode EXCEPT ![c] = "sync"] /\ mode \in [Clients -> Modes] /\ walk \in [Clients -> Walk]
      /\ folder \in Tree /\ copy[c] = EmptyTree /\ folder' = folder /\ copy' = copy /\ Before(c)
  BY DEF Base, TypeOK, Join, Unlisted, Before
<1>2. PICK seen \in SUBSET Paths : /\ {p \in Paths : folder[p] # Absent} \subseteq seen
                                   /\ walk' = [walk EXCEPT ![c] = [todo |-> seen, at |-> {}]]
  BY DEF Join
<1>3. mode'[c] = "sync" /\ walk'[c].todo = seen /\ walk'[c].at = {} /\ \A p \in Paths : copy[c][p] = Absent
  BY <1>1, <1>2 DEF EmptyTree
<1>4. QED
  BY <1>1, <1>2, <1>3 DEF WalkedOf

LEMMA WalkedVisit ==
  ASSUME Base, ContentsKept, Trees, Walked, Next, NEW c \in Clients, NEW p \in Paths, Visit(c, p)
  PROVE  WalkedOf(c)'
<1>1. /\ WalkedOf(c) /\ folder' = folder /\ copy' = copy /\ mode' = mode /\ missed' = missed /\ Nested(folder)
      /\ folder \in Tree /\ rcv[c].pc # "dead" /\ mode[c] = "sync" /\ p \in walk[c].todo /\ In[p] \notin walk[c].todo
      /\ walk[c].at = {} /\ missed[c] \subseteq Paths
  BY DEF Walked, WalkedOf, Visit, Trees, Sound, Base, TypeOK
<1>2. walk'[c].todo = walk[c].todo \ {p} /\ walk'[c].at = IF folder[p] = Absent \/ NoParent(copy[c], p) THEN {} ELSE {p}
  BY DEF Visit, Base, TypeOK
<1>3. Forgotten(c)' = Forgotten(c)
  BY <1>1 DEF Forgotten
<1>4. copy[c][p] = Absent
  BY <1>1 DEF WalkedOf
<1>5. ASSUME p \notin Forgotten(c), NoParent(copy[c], p) PROVE folder[p] = Absent
  <2>1. In[p] \in Paths /\ In[p] # Root /\ copy[c][In[p]] = Absent /\ In[In[p]] = Root
    BY <1>5, ConstantFacts DEF NoParent
  <2>2. In[p] \notin Forgotten(c)
    BY <1>1, <1>5, <2>1, ConstantFacts DEF Forgotten
  <2>3. folder[In[p]] = Absent
    BY <1>1, <2>1, <2>2 DEF WalkedOf
  <2>4. QED
    BY <1>1, <2>1, <2>3 DEF Nested
<1>6. \A q \in Paths \ Forgotten(c) : q \notin walk'[c].todo \cup walk'[c].at => copy[c][q] = folder[q]
  BY <1>1, <1>2, <1>4, <1>5 DEF WalkedOf
<1>7. \A q \in walk'[c].todo \cup walk'[c].at : copy[c][q] = Absent
  BY <1>1, <1>2, <1>4 DEF WalkedOf
<1>8. \A q \in walk'[c].at : ~NoParent(copy[c], q) /\ q \notin walk'[c].todo
  BY <1>2
<1>9. QED
  BY <1>1, <1>3, <1>6, <1>7, <1>8 DEF WalkedOf

LEMMA WalkedOffer ==
  ASSUME Base, ContentsKept, Trees, Walked, Next, NEW c \in Clients, NEW p \in Paths, Offer(c, p)
  PROVE  WalkedOf(c)'
<1>1. /\ WalkedOf(c) /\ folder' = folder /\ mode' = mode /\ missed' = missed /\ copy \in [Clients -> Tree]
      /\ rcv \in [Clients -> Receiver]
      /\ rcv[c].pc # "dead" /\ mode[c] = "sync" /\ walk[c].at = {p}
  BY DEF Walked, WalkedOf, Offer, Base, TypeOK
<1>2. walk'[c].todo = walk[c].todo /\ walk'[c].at = {}
  BY DEF Offer, Base, TypeOK
<1>3. Forgotten(c)' = Forgotten(c)
  BY <1>1 DEF Forgotten
<1>4. p \notin walk[c].todo
  BY <1>1 DEF WalkedOf
<1>5. CASE folder[p] = Absent
  <2>1. PICK locked \in BOOLEAN : rcv' = [rcv EXCEPT ![c] = Dead(locked)]
    BY <1>5 DEF Offer
  <2>2. QED
    BY <1>1, <2>1 DEF WalkedOf, Dead
<1>6. CASE folder[p] # Absent
  <2>1. PICK v \in {folder[p]} \cup (IF p \in Files \cap missed[c] THEN {Torn} ELSE {}) : copy' = [copy EXCEPT ![c][p] = v]
    BY <1>6 DEF Offer
  <2>2. \A q \in Paths : copy'[c][q] = IF q = p THEN v ELSE copy[c][q]
    BY <1>1, <2>1 DEF Tree
  <2>3. v = folder[p] \/ p \in Forgotten(c)
    BY <2>1 DEF Forgotten
  <2>4. \A q \in Paths \ Forgotten(c) : q \notin walk[c].todo => copy'[c][q] = folder[q]
    BY <1>1, <2>2, <2>3 DEF WalkedOf
  <2>5. walk[c].todo \subseteq Paths
    BY DEF Base, TypeOK, Walk
  <2>6. \A q \in walk[c].todo : copy'[c][q] = Absent
    BY <1>1, <1>4, <2>2, <2>5 DEF WalkedOf
  <2>7. QED
    BY <1>1, <1>2, <1>3, <2>4, <2>6 DEF WalkedOf
<1>7. QED
  BY <1>5, <1>6

LEMMA WalkedTurn ==
  ASSUME Base, Walked, NEW c \in Clients, TurnAround(c)
  PROVE  WalkedOf(c)'
<1>1. /\ WalkedOf(c) /\ folder' = folder /\ copy' = copy /\ missed' = missed /\ rcv[c].pc # "dead"
      /\ mode[c] = "sync" /\ walk[c] = NoWalk /\ mode'[c] = "offer"
  BY DEF Walked, WalkedOf, TurnAround, Base, TypeOK
<1>2. Forgotten(c)' = Forgotten(c)
  BY <1>1 DEF Forgotten
<1>3. \A p \in Paths \ Forgotten(c) : copy[c][p] = folder[p]
  BY <1>1 DEF WalkedOf, NoWalk
<1>4. QED
  BY <1>1, <1>2, <1>3 DEF WalkedOf

LEMMA WalkedStep ==
  ASSUME Base, ContentsKept, Trees, Walked, Next
  PROVE  Walked'
<1> SUFFICES ASSUME NEW c \in Clients PROVE WalkedOf(c)'
  BY DEF Walked, WalkedOf
<1>0. TypeOK
  BY DEF Base
<1>1. ASSUME Join(c) \/ TurnAround(c) \/ \E p \in Paths : Visit(c, p) \/ Offer(c, p) PROVE WalkedOf(c)'
  BY <1>1, WalkedJoin, WalkedTurn, WalkedVisit, WalkedOffer
<1>2. SUFFICES ASSUME ~(Join(c) \/ TurnAround(c) \/ \E p \in Paths : Visit(c, p) \/ Offer(c, p)),
                      mode'[c] \in {"sync", "offer"}
               PROVE  WalkedOf(c)'
  BY <1>1 DEF WalkedOf
<1>3. mode'[c] = mode[c]
  BY <1>0, <1>2, ModeSteps
<1>4. copy'[c] = copy[c]
  BY <1>2, <1>3, WalkAlone
<1>5. walk'[c] = walk[c] \/ mode[c] = "offer"
  BY <1>2, WalkAlone DEF Return
<1>6. QED
  BY <1>3, <1>4, <1>5, WalkedKept
=============================================================================
