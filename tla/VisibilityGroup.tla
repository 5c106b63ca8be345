--------------------------- MODULE VisibilityGroup ---------------------------
(* A group of drawable objects: references without information. *)
EXTENDS References

New(x) == [kind |-> "VisibilityGroup", id |-> x, children |-> << >>]

GetRefs(group) ==
    [i \in DOMAIN group.children |->
        IF group.children[i] = None THEN None
        ELSE Reference(RefID(group.id, "Drawable", i), group.children[i])]

\* None when nothing could be added.
AddRef(group, t, other) ==
    IF t = "Drawable" THEN [group EXCEPT !.children = Append(@, other)] ELSE None

\* The slot stays, so that the indexes of the others still name them.
DeleteRef(group, t, i) ==
    IF t = "Drawable" /\ i \in DOMAIN group.children
    THEN [group EXCEPT !.children[i] = None] ELSE group

SetAssociatedResult(group, t, i, result) ==
    IF t = "Drawable" /\ i \in DOMAIN group.children /\ result = None
    THEN [group EXCEPT !.children[i] = None] ELSE group
=============================================================================
