--------------------------------- MODULE Merge ---------------------------------
(* What the synchronisations promise for the server's folder: each file is a        *)
(* register that only ever takes a newer version, and one that a user wrote.        *)
EXTENDS Naturals

CONSTANTS
    Files,
    Versions    \* records with a modification time; no file is a version too

VARIABLES
    shown,      \* shown[p]: the version of p at the server
    known       \* known[p]: the versions that there are of p anywhere

Init == /\ known \in [Files -> SUBSET Versions]
        /\ shown \in [Files -> Versions]
        /\ \A p \in Files : shown[p] \in known[p]

\* A user writes a version at a client.
Write(p, v) == known' = [known EXCEPT ![p] = @ \cup {v}] /\ UNCHANGED shown

\* A synchronisation brings a newer one.
Adopt(p, v) ==
    /\ v \in known[p] /\ shown[p].time < v.time
    /\ shown' = [shown EXCEPT ![p] = v]
    /\ UNCHANGED known

Next == \E p \in Files, v \in Versions : Write(p, v) \/ Adopt(p, v)

Spec == Init /\ [][Next]_<<shown, known>>
=============================================================================
