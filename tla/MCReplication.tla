---------------------------- MODULE MCReplication ----------------------------
(* Small instances of Replication for TLC. *)
EXTENDS Replication

CONSTANTS c1, c2, c3, f1, f2, g1, d1, n1

\* d1 holds n1, everything else is at the top.
TreeIn == [p \in Paths |-> IF p = n1 THEN d1 ELSE Root]

Plan(there, joiners, ops, mine, hers, n) ==
    [there |-> there, joiners |-> joiners, ops |-> ops, edits |-> n,
     editors |-> [p \in Paths |-> IF p \in mine THEN {c1} ELSE IF p \in hers THEN {c2} ELSE {}]]

\* Two clients: both write, delete and copy, or one also moves.
Contents == Plan({c1, c2}, {}, {"NEW_FILE", "DELETE", "COPY"}, {f1, f2}, {g1}, 3)
Moves == Plan({c1, c2}, {}, {"NEW_FILE", "NEW_DIRECTORY", "DELETE", "MOVE"}, {n1, f2, d1}, {}, 4)
TwoClients == {Contents, Moves}

\* Three clients that are there, or one and two that are synchronised meanwhile.
Three == Plan({c1, c2, c3}, {}, {"NEW_FILE", "DELETE"}, {f1}, {g1}, 3)
Joins == Plan({c1}, {c2, c3}, {"NEW_FILE", "NEW_DIRECTORY", "DELETE"}, {n1, d1}, {}, 3)
ManyClients == {Three, Joins}

\* test/test.sh:94-102
Test7 == {Plan({c1, c2}, {}, {"NEW_FILE", "NEW_DIRECTORY", "MOVE"}, {n1, f2, d1}, {}, 3)}

\* The hypothesis of the theorem UploadsArrive about the plans.
ASSUME TidyPlans == Tidy

\* The hypothesis that the theorem ChangesArrive has besides.
ASSUME CopiesOwnPlans == CopiesOwn

\* The hypothesis that the theorem NamesStay has besides.
ASSUME MovesOwnPlans == MovesOwn

\* The hypothesis that the theorem EventsApply has besides Tidy.
ASSUME ApartPlans == Apart
=============================================================================
