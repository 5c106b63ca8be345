-------------------------------- MODULE Sheet --------------------------------
(* A sheet of paper: it refers to nothing, and only to it can be referred. *)
EXTENDS References

New(x) == [kind |-> "Sheet", id |-> x]

GetResultsForType(sheet, t) == IF t = "Existence" THEN <<Empty>> ELSE << >>
GetResult(sheet, t, i) == IF t = "Existence" THEN Empty ELSE None
=============================================================================
