------------------------------ MODULE MCEditing ------------------------------
(* An instance of the operations library for TLC. *)
EXTENDS Editing

CONSTANTS a, b, d, g

\* Even coordinates: the middle of a wall of length 4 is a place of its own.
EvenCoord == {0, 2, 4}
Place(x) == IF x = b THEN <<4, 2>> ELSE <<0, 2>>

Selected == {{a}, {a, b, d}}

\* Walls join at their ends or share openings; a door stands in a wall's line
\* and the wall has an opening for the door's plane.  (A wall that ends on a
\* door in its own line has no place both agree on.)
Kinds == {<<"Wall", "Wall", "ProfilePoint">>, <<"Wall", "Wall", "ProfilePlane">>,
          <<"Wall", "Door", "ProfilePlane">>, <<"Door", "Wall", "ProfileLine">>}
Pairs == {<<"ProfilePoint", "ProfilePoint">>, <<"ProfilePlane", "ProfileLine">>}
=============================================================================
