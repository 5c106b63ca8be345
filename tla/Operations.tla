----------------------------- MODULE Operations ------------------------------
(***************************************************************************)
(* The operations library: what a user's request does to the objects it    *)
(* names, and how the objects that refer to them follow.  An object is a   *)
(* wall, a door, a group, a sheet or a viewport; objects are passed as a   *)
(* function from their ids, with None for a deleted one.                   *)
(***************************************************************************)
EXTENDS References, SequencesExt, FiniteSetsExt

W == INSTANCE Wall
D == INSTANCE Door
G == INSTANCE VisibilityGroup
P == INSTANCE Sheet
V == INSTANCE Viewport

RefType == {"Drawable", "Existence", "AxisAlignedBoundBox",
            "ProfilePoint", "ProfileLine", "ProfilePlane"}

\* Results that a distance can be from, and what holds a reference to a piece
\* of R.
Number == Int \cup {NaN}
PointResults == [kind : {"Point"}, at : Number]
LineResults == [kind : {"Line"}, pt_1 : Number, pt_2 : Number]
PlaneResults == [kind : {"Plane"}, pt_1 : Number, pt_2 : Number]
Slot(R) == R \cup {None}

\* None is not a value of an Option: an index, a piece, a reference, a result
\* or information that may follow one.
NoneIsApart(R) ==
    None \notin Int \cup R \cup [owner : R, other : R]
                \cup PointResults \cup LineResults \cup PlaneResults
                \cup [refer : Slot(R), info : PointResults \cup PlaneResults]

-----------------------------------------------------------------------------
(* The trait Data, whose functions do nothing where a kind has none of its *)
(* own: a group has no results and nothing to set, a sheet no references, *)
(* and a viewport nothing that follows.                                    *)

GetResult(obj, t, i) ==
    CASE obj.kind = "Wall"     -> W!GetResult(obj, t, i)
      [] obj.kind = "Door"     -> D!GetResult(obj, t, i)
      [] obj.kind = "Sheet"    -> P!GetResult(obj, t, i)
      [] obj.kind = "Viewport" -> V!GetResult(obj, t, i)
      [] OTHER                 -> None

GetResultsForType(obj, t) ==
    CASE obj.kind = "Wall"     -> W!GetResultsForType(obj, t)
      [] obj.kind = "Door"     -> D!GetResultsForType(obj, t)
      [] obj.kind = "Sheet"    -> P!GetResultsForType(obj, t)
      [] obj.kind = "Viewport" -> V!GetResultsForType(obj, t)
      [] OTHER                 -> << >>

GetRefs(obj) ==
    CASE obj.kind = "Wall"            -> W!GetRefs(obj)
      [] obj.kind = "Door"            -> D!GetRefs(obj)
      [] obj.kind = "VisibilityGroup" -> G!GetRefs(obj)
      [] obj.kind = "Viewport"        -> V!GetRefs(obj)
      [] OTHER                        -> << >>

GetAvailableRefs(obj, t) ==
    CASE obj.kind = "Wall" -> W!GetAvailableRefs(obj, t)
      [] obj.kind = "Door" -> D!GetAvailableRefs(obj, t)
      [] OTHER             -> {}

SetRef(obj, t, i, result, other, snap_pt) ==
    CASE obj.kind = "Wall"     -> W!SetRef(obj, t, i, result, other)
      [] obj.kind = "Door"     -> D!SetRef(obj, t, i, result, other, snap_pt)
      [] obj.kind = "Viewport" -> V!SetRef(obj, t, other)
      [] OTHER                 -> obj

AddRef(obj, t, result, other) ==
    CASE obj.kind = "Wall"            -> W!AddRef(obj, t, result, other)
      [] obj.kind = "VisibilityGroup" -> G!AddRef(obj, t, other)
      [] OTHER                        -> None

DeleteRef(obj, t, i) ==
    CASE obj.kind = "Wall"            -> W!DeleteRef(obj, t, i)
      [] obj.kind = "Door"            -> D!DeleteRef(obj, t, i)
      [] obj.kind = "VisibilityGroup" -> G!DeleteRef(obj, t, i)
      [] obj.kind = "Viewport"        -> V!DeleteRef(obj, t)
      [] OTHER                        -> obj

SetAssociatedResult(obj, t, i, result) ==
    CASE obj.kind = "Wall"            -> W!SetAssociatedResult(obj, t, i, result)
      [] obj.kind = "Door"            -> D!SetAssociatedResult(obj, t, i, result)
      [] obj.kind = "VisibilityGroup" -> G!SetAssociatedResult(obj, t, i, result)
      [] OTHER                        -> obj

\* What has no position is skipped.
MoveObj(obj, delta) ==
    CASE obj.kind = "Wall" -> W!MoveObj(obj, delta)
      [] obj.kind = "Door" -> D!MoveObj(obj, delta)
      [] OTHER             -> obj

-----------------------------------------------------------------------------
(* Joins *)

\* The first of the candidates nearest to the guess.
IsNearest(i, S, Dist(_)) ==
    /\ i \in S
    /\ \A j \in S : Dist(i) < Dist(j) \/ (Dist(i) = Dist(j) /\ i <= j)
Nearest(S, Dist(_)) == IF S = {} THEN None ELSE CHOOSE i \in S : IsNearest(i, S, Dist)

\* The index of the result nearest to the guess, among all of its type.
GetClosestResult(obj, t, guess) ==
    LET results == GetResultsForType(obj, t)
        Dist(i) == Distance(results[i], guess)
    IN  Nearest({i \in DOMAIN results : HasDistance(results[i])}, Dist)

\* The index of the free reference nearest to the guess.
GetClosestRef(obj, t, guess) ==
    LET result(i) == GetResult(obj, t, i)
        Dist(i) == Distance(result(i), guess)
    IN  Nearest({i \in GetAvailableRefs(obj, t) :
                    IF result(i) = None THEN FALSE ELSE HasDistance(result(i))}, Dist)

\* Mutant: the reference is given the index of what refers.
SnapToOwnIndex(obj, other, t, guess) ==
    LET found == GetClosestResult(other, t, guess)
        free == GetClosestRef(obj, t, guess)
        which == RefID(other.id, t, free)
        result == GetResultsForType(other, t)[found]
    IN  IF found = None THEN None
        ELSE IF free # None THEN SetRef(obj, t, free, result, which, guess)
        ELSE AddRef(obj, t, result, which)
\* None is the error: nothing to snap to, or no reference that could be added.
SnapToRef(obj, other, t, guess) ==
    LET found == GetClosestResult(other, t, guess)
        which == RefID(other.id, t, found)
        result == GetResultsForType(other, t)[found]
        free == GetClosestRef(obj, t, guess)
    IN  IF found = None THEN None
        ELSE IF free # None THEN SetRef(obj, t, free, result, which, guess)
        ELSE AddRef(obj, t, result, which)

\* Mutant: both snap to where the other was.
JoinRefsAtOnce(first, second, first_wants, second_wants, guess) ==
    LET second2 == SnapToRef(second, first, second_wants, guess)
        first2 == SnapToRef(first, second, first_wants, guess)
    IN  IF second2 = None \/ first2 = None THEN None ELSE <<first2, second2>>
\* The second object snaps to the first, then the first to where the second is
\* now.
JoinRefs(first, second, first_wants, second_wants, guess) ==
    LET second2 == SnapToRef(second, first, second_wants, guess)
        first2 == SnapToRef(first, second2, first_wants, guess)
    IN  IF second2 = None THEN None
        ELSE IF first2 = None THEN None ELSE <<first2, second2>>

-----------------------------------------------------------------------------
(* Updates *)

\* An object that is not passed, is deleted or lacks the piece has no result.
GetRefResult(objs, r) ==
    IF r.id \notin DOMAIN objs THEN None
    ELSE IF objs[r.id] = None THEN None
    ELSE GetResult(objs[r.id], r.ref_type, r.index)

\* What an object owes to its own pieces is computed, not stored.
UpdateReference(objs, ref) ==
    LET owner == ref.owner
    IN  IF owner.id = ref.other.id \/ owner.id \notin DOMAIN objs THEN objs
        ELSE IF objs[owner.id] = None THEN objs
        ELSE [objs EXCEPT ![owner.id] =
                 SetAssociatedResult(@, owner.ref_type, owner.index, GetRefResult(objs, ref.other))]

\* Mutant: the references are followed in the opposite order.
UpdateAllBackwards(objs, refs) == FoldLeft(UpdateReference, objs, Reverse(refs))
UpdateAll(objs, refs) ==
    LET after[n \in 0 .. Len(refs)] ==
            IF n = 0 THEN objs ELSE UpdateReference(after[n - 1], refs[n])
    IN  after[Len(refs)]

-----------------------------------------------------------------------------
(* Visibility groups *)

\* None is the error: not a visibility group.
AddObjsToVisibilityGroup(group, objs) ==
    LET Add(g, obj) ==
            IF GetResult(obj, "Drawable", 1) = None THEN g
            ELSE AddRef(g, "Drawable", Empty, RefID(obj.id, "Drawable", 1))
        after[n \in 0 .. Len(objs)] == IF n = 0 THEN group ELSE Add(after[n - 1], objs[n])
    IN  IF group.kind # "VisibilityGroup" THEN None ELSE after[Len(objs)]

RemoveObjsFromVisibilityGroup(group, ids) ==
    LET Without(g, ref) ==
            IF ref = None THEN g
            ELSE IF ref.other.id \in ids THEN DeleteRef(g, "Drawable", ref.owner.index) ELSE g
        refs == GetRefs(group)
        after[n \in 0 .. Len(refs)] == IF n = 0 THEN group ELSE Without(after[n - 1], refs[n])
    IN  IF group.kind # "VisibilityGroup" THEN None ELSE after[Len(refs)]

-----------------------------------------------------------------------------
(* The references the dependencies service finds among those it holds *)

\* The members in some order.
InOrder(S) == CHOOSE order \in SetToSeqs(S) : TRUE

\* The next piece of the queue is visited: what refers to it and was not found
\* yet is noted and queued, in the order of a hash set.  An object's own pieces
\* that nothing refers to come last: wherever they are, they change nothing.
VisitNext(refs, search) ==
    LET r == Head(search.queue)
        found == {ref.owner : ref \in {q \in refs : q.other = r}} \ search.visited
        own == {p \in found : p.id = r.id /\ \A ref \in refs : ref.other # p}
    IN  {LET order == some \o InOrder(own)
         IN  [queue |-> Tail(search.queue) \o order,
              visited |-> search.visited \cup found,
              result |-> search.result \o [n \in DOMAIN order |-> Reference(order[n], r)]] :
         some \in SetToSeqs(found \ own)}

\* What a search from a piece may answer.
BreadthFirst(refs, start) ==
    LET Next(search) == IF search.queue = << >> THEN {search} ELSE VisitNext(refs, search)
        After[n \in 0 .. Cardinality(refs) + 1] ==
            IF n = 0 THEN {[queue |-> <<start>>, visited |-> {start}, result |-> << >>]}
            ELSE UNION {Next(search) : search \in After[n - 1]}
    IN  {search.result : search \in After[Cardinality(refs) + 1]}

\* One search after the other; what an earlier one found keeps its place.
GetAllDeps(refs, starts) ==
    LET Extend(known, found) ==
            known \o Subsequence(found, {n \in DOMAIN found : found[n] \notin Range(known)})
        Search(known, start) == {Extend(known, found) : found \in BreadthFirst(refs, start)}
        After[n \in 0 .. Len(starts)] ==
            IF n = 0 THEN {<< >>}
            ELSE UNION {Search(known, starts[n]) : known \in After[n - 1]}
    IN  After[Len(starts)]
=============================================================================
