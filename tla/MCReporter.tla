----------------------------- MODULE MCReporter -----------------------------
(* Small instances of Reporter for TLC. *)
EXTENDS Reporter

CONSTANTS f, g, h

Setting(lag, ops, files, remote, n) ==
    [lag |-> lag, ops |-> ops, files |-> files, remote |-> remote, edits |-> n]

\* The threads run in any order, and nobody else changes the folder.
Alone == Setting(TRUE, {"create", "write", "remove"}, {f}, {}, 3)
Pair == Setting(TRUE, {"create", "write", "remove"}, {f, g}, {}, 2)

\* The notifier keeps up with the user and the other threads.
Moving == Setting(FALSE, {"create", "write", "remove", "move"}, {f, g, h}, {}, 4)
Outside == Setting(FALSE, {"create", "out", "in"}, {f, g}, {}, 4)
Shared == Setting(FALSE, {"create", "write", "remove"}, {f, g}, {g}, 3)

Favourable == {Alone, Pair, Moving, Outside, Shared}

\* The server changes names of its own, and the notifier keeps up or not; or both it and
\* the user change the same name, and the notifier lags.
Apart == Setting(FALSE, {"create", "write", "remove"}, {f}, {g}, 2)
Watching == Setting(TRUE, {}, {}, {g}, 0)
Lagging == Setting(TRUE, {"remove"}, {f}, {f}, 1)

Served == {Shared, Apart, Watching, Lagging}

Chosen == Favourable \cup Served

\* What Reporter_proofs assumes of the settings.
ASSUME FavourableAssumption == \A s \in Favourable : Orderly(s)
ASSUME ServedAssumption == \A s \in Served : Watchful(s)

Plain == {Setting(FALSE, {"create", "write"}, {f}, {}, 3)}
=============================================================================
