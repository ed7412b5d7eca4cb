--------------------------------- MODULE Fifo ---------------------------------
(***************************************************************************)
(* What SafeQueue promises: a queue that gives every element, in the order *)
(* in which they were put in, to exactly one of those who ask; elements    *)
(* are thrown away only while nobody does.                                 *)
(***************************************************************************)
EXTENDS Sequences

CONSTANTS Elements, Takers, Nothing

VARIABLES
    items,      \* what has been put in and not been taken
    attached,   \* those who may take
    last        \* last[c]: what c took last

vars == <<items, attached, last>>

Init ==
    /\ items = <<>>
    /\ attached = {}
    /\ last = [c \in Takers |-> Nothing]

Put(e) ==
    /\ items' = Append(items, e)
    /\ UNCHANGED <<attached, last>>

Take(c) ==
    /\ c \in attached /\ items # <<>>
    /\ last' = [last EXCEPT ![c] = Head(items)]
    /\ items' = Tail(items)
    /\ UNCHANGED attached

Drop ==
    /\ attached = {} /\ items # <<>>
    /\ items' = Tail(items)
    /\ UNCHANGED <<attached, last>>

Attach(c) ==
    /\ attached' = attached \cup {c}
    /\ UNCHANGED <<items, last>>

Detach(c) ==
    /\ attached' = attached \ {c}
    /\ UNCHANGED <<items, last>>

Next ==
    \/ \E e \in Elements : Put(e)
    \/ Drop
    \/ \E c \in Takers : Take(c) \/ Attach(c) \/ Detach(c)

Spec == Init /\ [][Next]_vars
=============================================================================
