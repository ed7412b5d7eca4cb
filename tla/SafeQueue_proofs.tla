---------------------------- MODULE SafeQueue_proofs ----------------------------
(***************************************************************************)
(* Theorems about SafeQueue, for any number of threads and elements: its   *)
(* type invariant, the ownership of the mutex, the absence of lost         *)
(* wake-ups, and that it implements Fifo.                                  *)
(***************************************************************************)
EXTENDS SafeQueue, FiniteSetTheorems, TLAPS

\* A producer in front of push has not used up its calls.
SentBound == \A p \in Producers : ppc[p] = "push" => sent[p] < MaxSent

Typed == TypeOK /\ MutexHeld /\ SentBound

-----------------------------------------------------------------------------
LEMMA TypedInit == Init => Typed
  BY SafeQueueAssumption DEF Init, Typed, TypeOK, MutexHeld, SentBound

\* Each of the four steps of enqueue keeps types and the ownership of the mutex.
LEMMA TypedEnqueue ==
  ASSUME Typed, NEW p \in Producers, Enqueue(p)
  PROVE  Typed'
<1> USE SafeQueueAssumption DEF Typed, TypeOK, MutexHeld, SentBound
<1>1. CASE LockToPush(p)
  BY <1>1 DEF LockToPush
<1>2. CASE Push(p)
  <2>1. sent[p] + 1 \in 1 .. MaxSent /\ sent[p] + 1 \in 0 .. MaxSent
    BY <1>2 DEF Push
  <2>2. [from |-> p, n |-> sent[p] + 1] \in Elements
    BY <2>1 DEF Elements
  <2>3. q' \in Seq(Elements)
    BY <1>2, <2>2 DEF Push
  <2>4. QED
    BY <1>2, <2>1, <2>3 DEF Push
<1>3. CASE Notify(p)
  BY <1>3 DEF Notify, Waiting
<1>4. CASE UnlockPushed(p)
  BY <1>4 DEF UnlockPushed
<1>5. QED
  BY <1>1, <1>2, <1>3, <1>4 DEF Enqueue

\* So does each step of a consumer.
LEMMA TypedDequeue ==
  ASSUME Typed, NEW c \in Consumers, Dequeue(c) \/ WakeUp(c) \/ Start(c) \/ Stop(c)
  PROVE  Typed'
<1> USE SafeQueueAssumption DEF Typed, TypeOK, MutexHeld, SentBound
<1>1. CASE LockToPop(c)
  BY <1>1 DEF LockToPop
<1>2. CASE Sleep(c)
  BY <1>2 DEF Sleep
<1>3. CASE Relock(c)
  BY <1>3 DEF Relock
<1>4. CASE Pop(c)
  <2>1. Head(q) \in Elements /\ Tail(q) \in Seq(Elements)
    BY <1>4 DEF Pop
  <2>2. QED
    BY <1>4, <2>1 DEF Pop
<1>5. CASE UnlockPopped(c)
  BY <1>5 DEF UnlockPopped
<1>6. CASE WakeUp(c)
  BY <1>6 DEF WakeUp
<1>7. CASE Start(c) \/ Stop(c)
  BY <1>7 DEF Start, Stop
<1>8. QED
  BY <1>1, <1>2, <1>3, <1>4, <1>5, <1>6, <1>7 DEF Dequeue

LEMMA TypedStep == Typed /\ [Next]_vars => Typed'
<1> SUFFICES ASSUME Typed, [Next]_vars PROVE Typed'
  OBVIOUS
<1>1. ASSUME NEW p \in Producers, Enqueue(p) PROVE Typed'
  BY <1>1, TypedEnqueue
<1>2. ASSUME NEW c \in Consumers, Dequeue(c) \/ WakeUp(c) \/ Start(c) \/ Stop(c)
      PROVE  Typed'
  BY <1>2, TypedDequeue
<1>3. CASE ClearOne
  <2>1. Tail(q) \in Seq(Elements)
    BY <1>3 DEF ClearOne, Typed, TypeOK
  <2>2. QED
    BY <1>3, <2>1 DEF ClearOne, Typed, TypeOK, MutexHeld, SentBound
<1>4. CASE UNCHANGED vars
  BY <1>4 DEF vars, Typed, TypeOK, MutexHeld, SentBound
<1>5. QED
  BY <1>1, <1>2, <1>3, <1>4 DEF Next

\* The variables keep their types, whichever threads call, sleep and are woken.
THEOREM TypeCorrect == Spec => []TypeOK
<1>1. Typed => TypeOK
  BY DEF Typed
<1>2. QED
  BY <1>1, TypedInit, TypedStep, PTL DEF Spec

\* The mutex is held by the one thread inside enqueue or dequeue, and by none when all
\* are outside or asleep (SafeQueue.h:29, :37).
THEOREM MutexRight == Spec => []MutexHeld
<1>1. Typed => MutexHeld
  BY DEF Typed
<1>2. QED
  BY <1>1, TypedInit, TypedStep, PTL DEF Spec

-----------------------------------------------------------------------------
(* No lost wake-up.  NoLostWakeup is inductive relative to Typed: the mutex makes  *)
(* at most one producer stand between push and notify_one.                   *)

LEMMA AwakeFinite ==
  /\ IsFiniteSet(Awake)
  /\ Cardinality(Awake) \in Nat /\ Unannounced \in {0, 1}
<1>1. Awake \subseteq Consumers
  BY DEF Awake
<1>2. IsFiniteSet(Awake)
  BY <1>1, FS_Subset, SafeQueueAssumption
<1>3. Cardinality(Awake) \in Nat
  BY <1>2, FS_CardinalityType
<1>4. QED
  BY <1>2, <1>3 DEF Unannounced

LEMMA WakeupInit == Init => NoLostWakeup
  BY DEF Init, NoLostWakeup, Waiting

LEMMA WakeupEnqueue ==
  ASSUME Typed, NoLostWakeup, NEW p \in Producers, Enqueue(p)
  PROVE  NoLostWakeup'
<1> USE SafeQueueAssumption, AwakeFinite DEF Typed, TypeOK, MutexHeld
<1>1. CASE LockToPush(p) \/ UnlockPushed(p)
  BY <1>1, ZenonT(40) DEF LockToPush, UnlockPushed, NoLostWakeup, Waiting, Awake, Unannounced
<1>2. CASE Push(p)
  <2>1. Waiting' = Waiting /\ Awake' = Awake
    BY <1>2 DEF Push, Waiting, Awake
  <2>2. Unannounced = 0
    BY <1>2 DEF Push, Unannounced
  <2>3. Unannounced' = 1
    BY <1>2 DEF Push, Unannounced
  <2>4. Len(q') = Len(q) + 1 /\ Len(q) \in Nat
    BY <1>2 DEF Push
  <2>5. QED
    BY <2>1, <2>2, <2>3, <2>4 DEF NoLostWakeup
<1>3. CASE Notify(p)
  <2>1. Unannounced = 1
    BY <1>3 DEF Notify, Unannounced
  <2>2. Unannounced' = 0
    BY <1>3 DEF Notify, Unannounced
  <2>3. CASE Waiting = {}
    BY <1>3, <2>3 DEF Notify, NoLostWakeup, Waiting
  <2>4. CASE Waiting # {}
    <3>1. PICK c \in Waiting : cpc' = [cpc EXCEPT ![c] = "woken"]
      BY <1>3, <2>4 DEF Notify
    <3>2. c \in Consumers /\ c \notin Awake
      BY <3>1 DEF Waiting, Awake
    <3>3. Awake' = Awake \cup {c}
      BY <3>1, <3>2 DEF Awake
    <3>4. Cardinality(Awake') = Cardinality(Awake) + 1
      BY <3>2, <3>3, FS_AddElement
    <3>5. q' = q /\ Len(q) \in Nat
      BY <1>3 DEF Notify
    <3>6. QED
      BY <2>1, <2>2, <2>4, <3>4, <3>5 DEF NoLostWakeup
  <2>5. QED
    BY <2>3, <2>4
<1>4. QED
  BY <1>1, <1>2, <1>3 DEF Enqueue

LEMMA WakeupDequeue ==
  ASSUME Typed, NoLostWakeup,
         NEW c \in Consumers, Dequeue(c) \/ WakeUp(c) \/ Start(c) \/ Stop(c)
  PROVE  NoLostWakeup'
<1> USE SafeQueueAssumption, AwakeFinite DEF Typed, TypeOK, MutexHeld
<1>1. ASSUME UNCHANGED <<q, ppc>>, cpc' = [cpc EXCEPT ![c] = cpc'[c]],
             cpc[c] \notin {"woken", "test"}, cpc'[c] \in {"woken", "test"}
      PROVE  NoLostWakeup'
  <2>1. Awake' = Awake \cup {c} /\ c \notin Awake
    BY <1>1 DEF Awake
  <2>2. Cardinality(Awake') = Cardinality(Awake) + 1
    BY <2>1, FS_AddElement
  <2>3. Waiting' \subseteq Waiting /\ Unannounced' = Unannounced
    BY <1>1 DEF Waiting, Unannounced
  <2>4. Len(q) \in Nat
    OBVIOUS
  <2>5. QED
    BY <1>1, <2>2, <2>3, <2>4 DEF NoLostWakeup
<1>2. CASE LockToPop(c) \/ WakeUp(c)
  BY <1>1, <1>2 DEF LockToPop, WakeUp
<1>3. CASE Relock(c)
  <2>1. Awake' = Awake /\ Waiting' = Waiting /\ Unannounced' = Unannounced
    BY <1>3 DEF Relock, Awake, Waiting, Unannounced
  <2>2. QED
    BY <1>3, <2>1 DEF Relock, NoLostWakeup
<1>4. CASE Sleep(c)
  <2>1. Len(q') = 0
    BY <1>4 DEF Sleep
  <2>2. Cardinality(Awake') \in Nat
    <3>1. Awake' \subseteq Consumers
      BY DEF Awake
    <3>2. QED
      BY <3>1, FS_Subset, FS_CardinalityType
  <2>3. Unannounced' \in {0, 1}
    BY DEF Unannounced
  <2>4. QED
    BY <2>1, <2>2, <2>3 DEF NoLostWakeup
<1>5. CASE Pop(c)
  <2>1. Awake' = Awake \ {c} /\ c \in Awake
    BY <1>5 DEF Pop, Awake
  <2>2. Cardinality(Awake') = Cardinality(Awake) - 1
    BY <2>1, FS_RemoveElement
  <2>3. Len(q') = Len(q) - 1 /\ Len(q) \in Nat
    BY <1>5 DEF Pop
  <2>4. Waiting' = Waiting /\ Unannounced' = Unannounced
    BY <1>5 DEF Pop, Waiting, Unannounced
  <2>5. QED
    BY <2>2, <2>3, <2>4 DEF NoLostWakeup
<1>6. CASE UnlockPopped(c) \/ Start(c) \/ Stop(c)
  <2>1. Awake' = Awake /\ Waiting' = Waiting /\ Unannounced' = Unannounced /\ q' = q
    BY <1>6 DEF UnlockPopped, Start, Stop, Awake, Waiting, Unannounced
  <2>2. QED
    BY <2>1 DEF NoLostWakeup
<1>7. QED
  BY <1>2, <1>3, <1>4, <1>5, <1>6 DEF Dequeue

LEMMA WakeupStep == Typed /\ NoLostWakeup /\ [Next]_vars => NoLostWakeup'
<1> SUFFICES ASSUME Typed, NoLostWakeup, [Next]_vars PROVE NoLostWakeup'
  OBVIOUS
<1>1. CASE ClearOne
  <2>1. Waiting = {} /\ Waiting' = {}
    BY <1>1 DEF ClearOne, Waiting
  <2>2. QED
    BY <2>1 DEF NoLostWakeup
<1>2. CASE UNCHANGED vars
  BY <1>2 DEF vars, NoLostWakeup, Waiting, Awake, Unannounced
<1>3. QED
  BY <1>1, <1>2, WakeupEnqueue, WakeupDequeue DEF Next

\* One notify_one for each push is enough, whatever the number of sender threads.
THEOREM NoWakeupIsLost == Spec => []NoLostWakeup
  BY TypedInit, TypedStep, WakeupInit, WakeupStep, PTL DEF Spec

-----------------------------------------------------------------------------
(* SafeQueue implements Fifo: push is Put, pop is Take, and all the rest, the      *)
(* mutex and the sleeping included, is invisible.                            *)

Attached == {c \in Consumers : cpc[c] # "off"}

LEMMA FifoInit == Init => Abstract!Init
  BY DEF Init, Abstract!Init

LEMMA FifoEnqueue ==
  ASSUME Typed, NEW p \in Producers, Enqueue(p)
  PROVE  Abstract!Next \/ UNCHANGED Abstract!vars
<1> USE DEF Typed, TypeOK
<1>1. CASE LockToPush(p) \/ UnlockPushed(p)
  BY <1>1 DEF LockToPush, UnlockPushed, Abstract!vars
<1>2. CASE Push(p)
  <2>1. [from |-> p, n |-> sent[p] + 1] \in Elements
    BY <1>2, SafeQueueAssumption DEF Push, Elements, SentBound
  <2>2. Abstract!Put([from |-> p, n |-> sent[p] + 1])
    BY <1>2 DEF Push, Abstract!Put
  <2>3. QED
    BY <2>1, <2>2 DEF Abstract!Next
<1>3. CASE Notify(p)
  <2>1. Attached' = Attached
    BY <1>3 DEF Notify, Waiting, Attached
  <2>2. QED
    BY <1>3, <2>1 DEF Notify, Abstract!vars, Attached
<1>4. QED
  BY <1>1, <1>2, <1>3 DEF Enqueue

LEMMA FifoDequeue ==
  ASSUME Typed, NEW c \in Consumers, Dequeue(c) \/ WakeUp(c) \/ Start(c) \/ Stop(c)
  PROVE  Abstract!Next \/ UNCHANGED Abstract!vars
<1> USE DEF Typed, TypeOK
<1>1. CASE LockToPop(c) \/ Sleep(c) \/ Relock(c) \/ UnlockPopped(c) \/ WakeUp(c)
  <2>1. Attached' = Attached
    BY <1>1 DEF LockToPop, Sleep, Relock, UnlockPopped, WakeUp, Attached
  <2>2. QED
    BY <1>1, <2>1
    DEF LockToPop, Sleep, Relock, UnlockPopped, WakeUp, Abstract!vars, Attached
<1>2. CASE Pop(c)
  <2>1. Attached' = Attached /\ c \in Attached
    BY <1>2 DEF Pop, Attached
  <2>2. Abstract!Take(c)
    BY <1>2, <2>1 DEF Pop, Abstract!Take, Attached
  <2>3. QED
    BY <2>2 DEF Abstract!Next
<1>3. CASE Start(c)
  <2>1. Attached' = Attached \cup {c}
    BY <1>3 DEF Start, Attached
  <2>2. Abstract!Attach(c)
    BY <1>3, <2>1 DEF Start, Abstract!Attach, Attached
  <2>3. QED
    BY <2>2 DEF Abstract!Next
<1>4. CASE Stop(c)
  <2>1. Attached' = Attached \ {c}
    BY <1>4 DEF Stop, Attached
  <2>2. Abstract!Detach(c)
    BY <1>4, <2>1 DEF Stop, Abstract!Detach, Attached
  <2>3. QED
    BY <2>2 DEF Abstract!Next
<1>5. QED
  BY <1>1, <1>2, <1>3, <1>4 DEF Dequeue

LEMMA FifoStep == Typed /\ [Next]_vars => [Abstract!Next]_(Abstract!vars)
<1> SUFFICES ASSUME Typed, [Next]_vars PROVE Abstract!Next \/ UNCHANGED Abstract!vars
  OBVIOUS
<1>1. CASE ClearOne
  <2>1. Abstract!Drop
    BY <1>1 DEF ClearOne, Abstract!Drop
  <2>2. QED
    BY <2>1 DEF Abstract!Next
<1>2. CASE UNCHANGED vars
  BY <1>2 DEF vars, Abstract!vars
<1>3. QED
  BY <1>1, <1>2, FifoEnqueue, FifoDequeue DEF Next

\* Elements come out in the order they were put in, each to one thread.
THEOREM Implements == Spec => ImplementsFifo
<1>1. Spec => []Typed
  BY TypedInit, TypedStep, PTL DEF Spec
<1>2. QED
  BY <1>1, FifoInit, FifoStep, PTL DEF Spec, ImplementsFifo, Abstract!Spec
=============================================================================
