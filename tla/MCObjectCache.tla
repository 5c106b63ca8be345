---------------------------- MODULE MCObjectCache ----------------------------
(* Instances of the object cache for TLC: a file, two objects, a reader.    *)
EXTENDS ObjectCache

CONSTANTS f1, x, y, r1

\* The logs explored: the objects are interchangeable, so the first message is
\* of x, and three messages, the fewest of which a replay stores an older one
\* after a newer, are of x only, the first an Add.
ExploredLogs(messages) ==
    /\ messages[1].id = x
    /\ Len(messages) = 3 =>
         /\ messages[1].change = "Add"
         /\ \A k \in 2 .. 3 : /\ messages[k].id = x
                              /\ messages[k].change \in {"Modify", "Delete"}
=============================================================================
