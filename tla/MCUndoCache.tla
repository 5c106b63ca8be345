----------------------------- MODULE MCUndoCache -----------------------------
(* Instances of the undo service for TLC. *)
EXTENDS UndoCache

CONSTANTS u1, x, y

\* The objects are interchangeable.
ObjSymmetry == Permutations(Obj)
=============================================================================
