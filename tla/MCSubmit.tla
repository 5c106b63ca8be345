------------------------------ MODULE MCSubmit -------------------------------
(* An instance of the requests for TLC. *)
EXTENDS Submit

CONSTANTS a, b, c, s, v, c1, c2

\* Three walls: b starts where a ends, and c ends where b starts.
Corner(w) == CASE w = a -> <<0, 4>> [] w = b -> <<4, 8>> [] w = c -> <<2, 4>>

Opened == <<a, b>>
Selected == {<<a>>, <<c>>, <<a, b>>, <<s>>}

Swap == Permutations(Client)
=============================================================================
