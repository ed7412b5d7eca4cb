------------------------------- MODULE SafeQueue -------------------------------
(***************************************************************************)
(* SafeQueue.h: a std::queue behind a mutex, with a condition variable for *)
(* the threads that find it empty.  On the server every client's slot has  *)
(* one: the producers are the receiver threads of the other clients, the   *)
(* consumer is the sender thread that runs on the slot, and the accept     *)
(* loop clears it for the next one.  On a client the producer is the       *)
(* notifier thread, the consumer DropboxClient::sender.                    *)
(*                                                                         *)
(* The mutex is held from the first line of enqueue and dequeue to the     *)
(* last; clear() does not take it.                                         *)
(***************************************************************************)
EXTENDS Naturals, Sequences, FiniteSets

CONSTANTS
    Producers,  \* threads that call enqueue
    Consumers,  \* threads that call dequeue
    MaxSent,    \* bound: calls of enqueue by each producer
    None        \* nobody holds the mutex; nothing dequeued yet

ASSUME SafeQueueAssumption ==
    /\ IsFiniteSet(Consumers) /\ Producers \cap Consumers = {}
    /\ None \notin Producers \cup Consumers
    /\ MaxSent \in Nat

VARIABLES
    q,          \* the std::queue
    m,          \* who holds the mutex
    ppc,        \* ppc[p]: where producer p is in enqueue
    cpc,        \* cpc[c]: where consumer c is in dequeue
    sent,       \* sent[p]: how many elements p has pushed
    element     \* element[c]: what c dequeued last

vars == <<q, m, ppc, cpc, sent, element>>

Elements == [from : Producers, n : 1 .. MaxSent]

Init ==
    /\ q = <<>>
    /\ m = None
    /\ ppc = [p \in Producers |-> "idle"]
    /\ cpc = [c \in Consumers |-> "off"]
    /\ sent = [p \in Producers |-> 0]
    /\ element = [c \in Consumers |-> None]

Waiting == {c \in Consumers : cpc[c] = "waiting"}

-----------------------------------------------------------------------------
(* enqueue *)

LockToPush(p) ==
    /\ ppc[p] = "idle" /\ sent[p] < MaxSent
    /\ m = None
    /\ m' = p
    /\ ppc' = [ppc EXCEPT ![p] = "push"]
    /\ UNCHANGED <<q, cpc, sent, element>>

\* Mutant: the element is pushed twice.
PushTwice(p) ==
    /\ ppc[p] = "push"
    /\ sent' = [sent EXCEPT ![p] = @ + 2]
    /\ q' = q \o <<[from |-> p, n |-> sent[p] + 1], [from |-> p, n |-> sent[p] + 2]>>
    /\ ppc' = [ppc EXCEPT ![p] = "notify"]
    /\ UNCHANGED <<m, cpc, element>>

Push(p) ==
    /\ ppc[p] = "push"
    /\ sent' = [sent EXCEPT ![p] = @ + 1]
    /\ q' = Append(q, [from |-> p, n |-> sent[p] + 1])
    /\ ppc' = [ppc EXCEPT ![p] = "notify"]
    /\ UNCHANGED <<m, cpc, element>>

\* Mutants: nobody is notified at all, or not unless the queue was empty before.
NotifyNobody(p) ==
    /\ ppc[p] = "notify"
    /\ ppc' = [ppc EXCEPT ![p] = "unlock"]
    /\ UNCHANGED <<q, m, cpc, sent, element>>
NotifyIfFirst(p) ==
    /\ ppc[p] = "notify"
    /\ ppc' = [ppc EXCEPT ![p] = "unlock"]
    /\ IF Waiting = {} \/ Len(q) > 1 THEN cpc' = cpc
       ELSE \E c \in Waiting : cpc' = [cpc EXCEPT ![c] = "woken"]
    /\ UNCHANGED <<q, m, sent, element>>

\* notify_one wakes one of the threads in wait, if there is any.
Notify(p) ==
    /\ ppc[p] = "notify"
    /\ ppc' = [ppc EXCEPT ![p] = "unlock"]
    /\ IF Waiting = {} THEN cpc' = cpc
       ELSE \E c \in Waiting : cpc' = [cpc EXCEPT ![c] = "woken"]
    /\ UNCHANGED <<q, m, sent, element>>

UnlockPushed(p) ==
    /\ ppc[p] = "unlock"
    /\ m' = None
    /\ ppc' = [ppc EXCEPT ![p] = "idle"]
    /\ UNCHANGED <<q, cpc, sent, element>>

-----------------------------------------------------------------------------
(* dequeue *)

LockToPop(c) ==
    /\ cpc[c] = "idle"
    /\ m = None
    /\ m' = c
    /\ cpc' = [cpc EXCEPT ![c] = "test"]
    /\ UNCHANGED <<q, ppc, sent, element>>

\* while (q.empty()) c.wait(l): wait() releases the mutex and sleeps in one step.
Sleep(c) ==
    /\ cpc[c] = "test" /\ q = <<>>
    /\ m' = None
    /\ cpc' = [cpc EXCEPT ![c] = "waiting"]
    /\ UNCHANGED <<q, ppc, sent, element>>

\* A thread in wait may wake up although nobody notified it.
WakeUp(c) ==
    /\ cpc[c] = "waiting"
    /\ cpc' = [cpc EXCEPT ![c] = "woken"]
    /\ UNCHANGED <<q, m, ppc, sent, element>>

\* wait() returns only with the mutex, and the loop tests again.
Relock(c) ==
    /\ cpc[c] = "woken"
    /\ m = None
    /\ m' = c
    /\ cpc' = [cpc EXCEPT ![c] = "test"]
    /\ UNCHANGED <<q, ppc, sent, element>>

\* Mutants: the last element pushed is taken; the mutex stays locked.
PopLast(c) ==
    /\ cpc[c] = "test" /\ q # <<>>
    /\ element' = [element EXCEPT ![c] = q[Len(q)]]
    /\ q' = SubSeq(q, 1, Len(q) - 1)
    /\ cpc' = [cpc EXCEPT ![c] = "unlock"]
    /\ UNCHANGED <<m, ppc, sent>>

Pop(c) ==
    /\ cpc[c] = "test" /\ q # <<>>
    /\ element' = [element EXCEPT ![c] = Head(q)]
    /\ q' = Tail(q)
    /\ cpc' = [cpc EXCEPT ![c] = "unlock"]
    /\ UNCHANGED <<m, ppc, sent>>

\* Mutant: the mutex is not released on return.
UnlockPoppedNot(c) ==
    /\ cpc[c] = "unlock"
    /\ cpc' = [cpc EXCEPT ![c] = "idle"]
    /\ UNCHANGED <<q, m, ppc, sent, element>>

UnlockPopped(c) ==
    /\ cpc[c] = "unlock"
    /\ m' = None
    /\ cpc' = [cpc EXCEPT ![c] = "idle"]
    /\ UNCHANGED <<q, ppc, sent, element>>

-----------------------------------------------------------------------------
(* The life of a queue: sender threads come and go, and clear() is called      *)
(* only while there is none.                                                 *)

Start(c) ==
    /\ cpc[c] = "off"
    /\ cpc' = [cpc EXCEPT ![c] = "idle"]
    /\ UNCHANGED <<q, m, ppc, sent, element>>

\* A thread leaves between two calls of dequeue.
Stop(c) ==
    /\ cpc[c] = "idle"
    /\ cpc' = [cpc EXCEPT ![c] = "off"]
    /\ UNCHANGED <<q, m, ppc, sent, element>>

\* One round of the loop in clear(), which takes no lock; an enqueue at the very
\* same time is undefined behaviour and not modelled.
ClearOne ==
    /\ \A c \in Consumers : cpc[c] = "off"
    /\ \A p \in Producers : ppc[p] # "push"
    /\ q # <<>>
    /\ q' = Tail(q)
    /\ UNCHANGED <<m, ppc, cpc, sent, element>>

Enqueue(p) == LockToPush(p) \/ Push(p) \/ Notify(p) \/ UnlockPushed(p)
Dequeue(c) == LockToPop(c) \/ Sleep(c) \/ Relock(c) \/ Pop(c) \/ UnlockPopped(c)

Next ==
    \/ \E p \in Producers : Enqueue(p)
    \/ \E c \in Consumers : Dequeue(c) \/ WakeUp(c) \/ Start(c) \/ Stop(c)
    \/ ClearOne

Spec == Init /\ [][Next]_vars

\* Threads run, and call dequeue again; they are not made to start or to leave.
FairSpec ==
    /\ Spec
    /\ \A p \in Producers : WF_vars(Enqueue(p))
    /\ \A c \in Consumers : WF_vars(Dequeue(c))

-----------------------------------------------------------------------------
(* Properties *)

\* Every variable keeps its type.
TypeOK ==
    /\ q \in Seq(Elements)
    /\ m \in Producers \cup Consumers \cup {None}
    /\ ppc \in [Producers -> {"idle", "push", "notify", "unlock"}]
    /\ cpc \in [Consumers -> {"off", "idle", "test", "waiting", "woken", "unlock"}]
    /\ sent \in [Producers -> 0 .. MaxSent]
    /\ element \in [Consumers -> Elements \cup {None}]

\* The mutex is held by the thread that is in its critical section, and by no other.
MutexHeld ==
    /\ \A p \in Producers : ppc[p] # "idle" <=> m = p
    /\ \A c \in Consumers : cpc[c] \in {"test", "unlock"} <=> m = c

\* No wake-up is lost: while threads sleep in dequeue, there are at least as many
\* threads on their way to test the queue as there are elements in it (an element
\* whose notify_one is still to come excepted).  notify_one per push is enough.
Awake == {c \in Consumers : cpc[c] \in {"woken", "test"}}
Unannounced == IF \E p \in Producers : ppc[p] = "notify" THEN 1 ELSE 0
NoLostWakeup == Waiting # {} => Len(q) <= Cardinality(Awake) + Unannounced

\* SafeQueue implements Fifo: elements come out in the order of the calls of enqueue,
\* each to one caller of dequeue, however the threads interleave.
Abstract == INSTANCE Fifo WITH Takers <- Consumers, Nothing <- None, items <- q,
                attached <- {c \in Consumers : cpc[c] # "off"}, last <- element
ImplementsFifo == Abstract!Spec

\* As long as all the consumers stay, every element is dequeued.
Taken ==
    \A e \in Elements :
        (\E i \in DOMAIN q : q[i] = e)
            ~> ((\A i \in DOMAIN q : q[i] # e) \/ \E c \in Consumers : cpc[c] = "off")
=============================================================================
