----------------------------- MODULE MCFileView ------------------------------
(* An instance of a client that opens a file for TLC. *)
EXTENDS FileView

CONSTANTS x, y

\* The logs explored: the objects are interchangeable, so the first message is
\* of x, and three messages, the fewest of which a replay sends an older one
\* after a newer, are an Add of x and two Modify.
ExploredLogs(messages) ==
    /\ messages[1].id = x
    /\ Len(messages) = 3 =>
         \A k \in 1 .. 3 : /\ messages[k].id = x
                           /\ messages[k].change = IF k = 1 THEN "Add" ELSE "Modify"
=============================================================================
