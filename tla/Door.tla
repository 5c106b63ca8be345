-------------------------------- MODULE Door ---------------------------------
(***************************************************************************)
(* A door: a segment of fixed length that may lie on the line of another   *)
(* object.  Box, points and plane are derived from the segment.            *)
(***************************************************************************)
EXTENDS References

New(x, first, second) == [kind |-> "Door", id |-> x, dir |-> NewLineSeg(first, second)]

GetResultsForType(door, t) ==
    LET p == door.dir.line.pt_1
        q == door.dir.line.pt_2
    IN  CASE t \in {"Drawable", "Existence"} -> <<Empty>>
          [] t = "AxisAlignedBoundBox"       -> <<Cube(p, q)>>
          [] t = "ProfilePoint"              -> <<Point(p), Point(q)>>
          [] t = "ProfileLine"               -> <<door.dir.line>>
          [] t = "ProfilePlane"              -> <<Plane(p, q)>>
          [] OTHER                           -> << >>

\* Every index names the door for the two types without one.
GetResult(door, t, i) ==
    LET results == GetResultsForType(door, t)
    IN  IF t \in {"Drawable", "Existence"} THEN Empty
        ELSE IF i \in DOMAIN results THEN results[i] ELSE None

GetRefs(door) ==
    LET Own(t, i) == RefID(door.id, t, i)
        line == Own("ProfileLine", 1)
    IN  <<IF door.dir.refer = None THEN None ELSE Reference(line, door.dir.refer),
          Reference(Own("AxisAlignedBoundBox", 1), line),
          Reference(Own("ProfilePoint", 1), line),
          Reference(Own("ProfilePoint", 2), line),
          Reference(Own("ProfilePlane", 1), line)>>

GetAvailableRefs(door, t) ==
    IF t = "ProfileLine" /\ door.dir.refer = None THEN {1} ELSE {}

SetRef(door, t, i, result, other, snap_pt) ==
    IF t = "ProfileLine" /\ i = 1
    THEN [door EXCEPT !.dir = LineSegSetReference(@, result, other, snap_pt)]
    ELSE door

DeleteRef(door, t, i) ==
    IF t = "ProfileLine" /\ i = 1 THEN [door EXCEPT !.dir.refer = None] ELSE door

\* Unlike a wall's, a door's reference is kept when there is no result.
SetAssociatedResult(door, t, i, result) ==
    IF t = "ProfileLine" /\ i = 1 /\ result # None
    THEN [door EXCEPT !.dir = LineSegUpdated(@, result, None)]
    ELSE door

MoveObj(door, delta) ==
    [door EXCEPT !.dir.line = Line(Plus(@.pt_1, delta), Plus(@.pt_2, delta))]
=============================================================================
