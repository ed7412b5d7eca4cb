---------------------------- MODULE MCSafeQueue ----------------------------
(* Small instances of SafeQueue for TLC. *)
EXTENDS SafeQueue

CONSTANTS p1, p2, s1, s2
=============================================================================
