------------------------------ MODULE Viewport -------------------------------
(***************************************************************************)
(* A view of the model on a sheet.  What follows a reference does not      *)
(* concern it: that its sheet is gone is not told to it.                   *)
(***************************************************************************)
EXTENDS References

New(x, sheet) == [kind |-> "Viewport", id |-> x, sheet |-> sheet]

GetResultsForType(view, t) == IF t = "Existence" THEN <<Empty>> ELSE << >>
GetResult(view, t, i) == IF t = "Existence" THEN Empty ELSE None

GetRefs(view) ==
    <<IF view.sheet = None THEN None
      ELSE Reference(RefID(view.id, "Existence", 1), RefID(view.sheet, "Existence", 1))>>

SetRef(view, t, other) == IF t = "Existence" THEN [view EXCEPT !.sheet = other.id] ELSE view
DeleteRef(view, t) == IF t = "Existence" THEN [view EXCEPT !.sheet = None] ELSE view
=============================================================================
