-------------------------- MODULE MCDependencyCache --------------------------
(* Instances of the dependencies service for TLC. *)
EXTENDS DependencyCache

CONSTANTS x, y, s1

Pieces == {"first_pt", "second_pt", "line"}

Other(w) == CHOOSE v \in Obj : v # w
Refer(w, piece, r) == [owner |-> <<w, piece>>, other |-> r]

\* What a wall refers to: with one end, the other end, pointed elsewhere, or
\* with its own line; an undo can also take slots away again.
EndRefs(w) ==
    LET end == <<Other(w), "first_pt">>
        line == <<Other(w), "line">>
    IN  {<< >>, <<Refer(w, "first_pt", end)>>, <<Refer(w, "first_pt", line)>>,
         <<NoRef, Refer(w, "second_pt", end)>>,
         <<NoRef, NoRef, Refer(w, "line", <<w, "first_pt">>)>>}

\* One wall refers with no end or one to the first end of the other; the other
\* with none, one or both, and its line refers to its own ends.
WallRefs(w) ==
    LET end == <<Other(w), "first_pt">>
        One == {<<NoRef, NoRef>>, <<Refer(w, "first_pt", end), NoRef>>}
        Both == {<<Refer(w, "first_pt", end), Refer(w, "second_pt", end)>>}
        Line == <<Refer(w, "line", <<w, "first_pt">>), Refer(w, "line", <<w, "second_pt">>)>>
    IN  IF w = x THEN One ELSE {ends \o Line : ends \in One \cup Both}

OneEnd == {<<x, "first_pt">>}

Swap == Permutations(Obj)
=============================================================================
