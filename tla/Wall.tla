-------------------------------- MODULE Wall ---------------------------------
(***************************************************************************)
(* A wall: two ends that may be joined to other objects, and openings for  *)
(* what is set into it.  pts holds first_pt and second_pt.                 *)
(***************************************************************************)
EXTENDS References

New(x, first, second) ==
    [kind |-> "Wall", id |-> x,
     pts |-> <<Updatable(Point(first)), Updatable(Point(second))>>,
     openings |-> << >>]

First(wall) == wall.pts[1].info.at
Second(wall) == wall.pts[2].info.at

GetResult(wall, t, i) ==
    CASE t \in {"Drawable", "Existence"}           -> Empty
      [] t = "AxisAlignedBoundBox" /\ i = 1        -> Cube(First(wall), Second(wall))
      [] t = "ProfilePoint" /\ i \in DOMAIN wall.pts -> wall.pts[i].info
      [] t = "ProfileLine" /\ i = 1                -> Line(First(wall), Second(wall))
      [] /\ t = "ProfilePlane"
         /\ i \in DOMAIN wall.openings
         /\ wall.openings[i] # None                -> wall.openings[i].info
      [] OTHER                                     -> None

\* The openings that were emptied are skipped here.
GetResultsForType(wall, t) ==
    LET openings == Subsequence(wall.openings,
                                {i \in DOMAIN wall.openings : wall.openings[i] # None})
    IN  CASE t \in {"Drawable", "Existence"} -> <<Empty>>
          [] t = "AxisAlignedBoundBox"       -> <<Cube(First(wall), Second(wall))>>
          [] t = "ProfilePoint"              -> [i \in 1 .. 2 |-> wall.pts[i].info]
          [] t = "ProfileLine"               -> <<Line(First(wall), Second(wall))>>
          [] t = "ProfilePlane"              -> [i \in DOMAIN openings |-> openings[i].info]
          [] OTHER                           -> << >>

\* Box and line refer to the wall's own ends.
GetRefs(wall) ==
    LET Own(t, i) == RefID(wall.id, t, i)
        Of(u, owner) ==
            IF u = None THEN None
            ELSE IF u.refer = None THEN None ELSE Reference(owner, u.refer)
        ToEnds(t) == <<Reference(Own(t, 1), Own("ProfilePoint", 1)),
                       Reference(Own(t, 1), Own("ProfilePoint", 2))>>
    IN  [i \in 1 .. 2 |-> Of(wall.pts[i], Own("ProfilePoint", i))]
            \o ToEnds("AxisAlignedBoundBox") \o ToEnds("ProfileLine")
            \o [i \in DOMAIN wall.openings |-> Of(wall.openings[i], Own("ProfilePlane", i))]

\* The ends without a reference; the openings without one or emptied.
GetAvailableRefs(wall, t) ==
    CASE t = "ProfilePoint" -> {i \in 1 .. 2 : wall.pts[i].refer = None}
      [] t = "ProfilePlane" ->
             {i \in DOMAIN wall.openings :
                 IF wall.openings[i] = None THEN TRUE ELSE wall.openings[i].refer = None}
      [] OTHER -> {}

SetRef(wall, t, i, result, other) ==
    CASE t = "ProfilePoint" /\ i \in 1 .. 2 ->
             [wall EXCEPT !.pts[i] = SetReference(@, result, other)]
      [] t = "ProfilePlane" /\ i \in DOMAIN wall.openings ->
             IF wall.openings[i] # None
             THEN [wall EXCEPT !.openings[i] = SetReference(@, result, other)]
             ELSE IF result.kind = "Plane"
             THEN [wall EXCEPT !.openings[i] = SetReference(Updatable(result), result, other)]
             ELSE wall
      [] OTHER -> wall

\* None when nothing could be added.
AddRef(wall, t, result, other) ==
    IF t = "ProfilePlane" /\ result.kind = "Plane"
    THEN [wall EXCEPT !.openings = Append(@, SetReference(Updatable(result), result, other))]
    ELSE None

\* Mutant: the opening is taken out, and the later ones move up.
DeleteRefAndShift(wall, t, i) ==
    CASE t = "ProfilePoint" /\ i \in 1 .. 2 -> [wall EXCEPT !.pts[i].refer = None]
      [] t = "ProfilePlane" /\ i \in DOMAIN wall.openings ->
             [wall EXCEPT !.openings = SubSeq(@, 1, i - 1) \o SubSeq(@, i + 1, Len(@))]
      [] OTHER -> wall
DeleteRef(wall, t, i) ==
    CASE t = "ProfilePoint" /\ i \in 1 .. 2 -> [wall EXCEPT !.pts[i].refer = None]
      [] t = "ProfilePlane" /\ i \in DOMAIN wall.openings -> [wall EXCEPT !.openings[i] = None]
      [] OTHER -> wall

SetAssociatedResult(wall, t, i, result) ==
    CASE t = "ProfilePoint" /\ i \in 1 .. 2 -> [wall EXCEPT !.pts[i] = Updated(@, result)]
      [] t = "ProfilePlane" /\ i \in DOMAIN wall.openings ->
             IF wall.openings[i] = None THEN wall
             ELSE [wall EXCEPT !.openings[i] = Updated(@, result)]
      [] OTHER -> wall

MoveObj(wall, delta) ==
    [wall EXCEPT !.pts[1].info.at = Plus(@, delta), !.pts[2].info.at = Plus(@, delta)]
=============================================================================
