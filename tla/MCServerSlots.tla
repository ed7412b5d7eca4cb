---------------------------- MODULE MCServerSlots ----------------------------
(* Small instances of ServerSlots for TLC. *)
EXTENDS ServerSlots

CONSTANTS a, b, c

\* a and b bring a file or a directory with them or send one later; c only listens.
Session == <<"HELLO", "END", "FILE", "BODY">>
Early == <<"HELLO", "PATH", "BODY", "END">>
Silent == <<"HELLO", "END">>

ThreeScripts == [k \in Conns |-> CASE k = a -> Session [] k = b -> Early [] OTHER -> Silent]

\* These are what a client writes, and each changes one thing.
ASSUME Scripts == Obeyed /\ OneChange
=============================================================================
