----------------------------- MODULE MCSession -----------------------------
(* Small instances of Session for TLC. *)
EXTENDS Session

File == [event |-> "NEW_FILE", size |-> 1]
Delete == [event |-> "DELETE", size |-> 0]
Move == [event |-> "MOVE", size |-> 0]

\* Up to two messages each way and small buffers: one message, two of them and
\* neither fit, at one end, at the other or at both.
Loads == {<<>>, <<Delete>>, <<Move>>, <<File>>, <<Delete, Delete>>, <<Delete, File>>, <<File, Move>>}
Crossing == {[cap |-> c, send |-> [server |-> s, client |-> k]] : c \in 1 .. 4, s \in Loads, k \in Loads}
=============================================================================
