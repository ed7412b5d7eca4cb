------------------------------- MODULE MCSync -------------------------------
(* Small instances of Sync for TLC. *)
EXTENDS Sync

CONSTANTS c1, c2, c3, d1, f1, g1

\* A directory with a file in it, and a file beside it.
NestedIn == [p \in Paths |-> IF p = f1 /\ d1 \in Dirs THEN d1 ELSE Root]

\* The entries a path may begin with at n: the files are of two different seconds.
Begin(n, p) == IF p \in Dirs THEN {Nothing, Folder}
               ELSE {Nothing} \cup {[val |-> <<n, 0>>, time |-> t] : t \in 1 .. 2}

AnyStart == [n \in Nodes |->
                {tree \in [Paths -> UNION {Begin(n, p) : p \in Paths}] :
                    \A p \in Paths : /\ tree[p] \in Begin(n, p)
                                     /\ In[p] # Root /\ tree[p] # Nothing => tree[In[p]] = Folder}]
=============================================================================
