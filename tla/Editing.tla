------------------------------- MODULE Editing -------------------------------
(***************************************************************************)
(* A caller of the operations library and the objects it created: objects  *)
(* are moved, joined, grouped and deleted one call at a time, and what     *)
(* refers to a piece is updated when the caller asks for it.  There is no  *)
(* concurrency here; Submit composes the library with the services.        *)
(***************************************************************************)
EXTENDS Operations

CONSTANTS
    Walls, Doors, Groups,  \* object ids
    Segment(_),            \* the points a wall or a door is created with
    Coord,                 \* bound: where walls and doors may be
    Guesses,               \* the points the caller snaps and joins at
    Delta,                 \* how far objects are moved
    Selections,            \* the sets of objects that are moved or grouped
    SnapKinds,             \* by what type which kind of object snaps to which
    JoinTypes,             \* the pairs of types objects are joined by
    MaxSlots,              \* bound: openings of a wall, children of a group
    MaxCalls               \* bound: calls

Obj == Walls \cup Doors \cup Groups
Piece == [id : Obj, ref_type : RefType, index : 1 .. MaxSlots + 2]

ASSUME EditingAssumption ==
    /\ IsFiniteSet(Obj)
    /\ Walls \cap Doors = {} /\ Walls \cap Groups = {} /\ Doors \cap Groups = {}
    /\ None \notin Obj /\ NoneIsApart(Piece) /\ NaN \notin Int
    /\ Coord \subseteq Int
    /\ Delta \subseteq Int
    /\ Guesses \subseteq Coord
    /\ \A x \in Walls \cup Doors : Segment(x) \in Coord \X Coord
    /\ Selections \subseteq SUBSET Obj
    /\ JoinTypes \subseteq RefType \X RefType
    /\ MaxSlots \in Nat
    /\ MaxCalls \in Nat

VARIABLES
    objs,   \* the objects; None for a deleted one
    last,   \* history: the last call and the references it was about
    calls   \* the number of calls made

vars == <<objs, last, calls>>

Held == {x \in Obj : objs[x] # None}
RefsOf(obj) == Range(GetRefs(obj)) \ {None}
First(wall) == wall.pts[1].info.at
Second(wall) == wall.pts[2].info.at
AllRefs == UNION {RefsOf(objs[x]) : x \in Held}

\* The caller keeps to the bounds.
Bounded(obj) ==
    CASE obj.kind = "Wall" -> /\ \A i \in 1 .. 2 : obj.pts[i].info.at \in Coord
                              /\ Len(obj.openings) <= MaxSlots
      [] obj.kind = "Door" -> obj.dir.line.pt_1 \in {p + 1 : p \in Coord} \cup Coord \cup {NaN}
      [] OTHER             -> Len(obj.children) <= MaxSlots

Init ==
    /\ objs = [x \in Obj |->
           CASE x \in Walls  -> W!New(x, Segment(x)[1], Segment(x)[2])
             [] x \in Doors  -> D!New(x, Segment(x)[1], Segment(x)[2])
             [] x \in Groups -> G!New(x)]
    /\ last = [op |-> "none", refs |-> << >>]
    /\ calls = 0

MayCall == calls < MaxCalls
Return(op, refs) ==
    /\ calls' = calls + 1
    /\ last' = [op |-> op, refs |-> refs]

MoveObjects(S, delta) ==
    /\ MayCall
    /\ objs' = [x \in Obj |-> IF x \in S THEN MoveObj(objs[x], delta) ELSE objs[x]]
    /\ \A x \in S : Bounded(objs'[x])
    /\ Return("move", << >>)

\* The references of an object that were not there before.
NewRefs(before, after) == InOrder(RefsOf(after) \ RefsOf(before))

Snap(x, y, t, guess) ==
    /\ MayCall
    /\ <<objs[x].kind, objs[y].kind, t>> \in SnapKinds
    /\ \E after \in {SnapToRef(objs[x], objs[y], t, guess)} \ {None} :
           /\ Bounded(after)
           /\ objs' = [objs EXCEPT ![x] = after]
           /\ Return("snap", NewRefs(objs[x], after))

\* For history: two walls are joined where the first has a free end, and the
\* nearest end of the second is free.
NearestIsFree(wall, guess) ==
    GetClosestResult(wall, "ProfilePoint", guess) = GetClosestRef(wall, "ProfilePoint", guess)
BetweenEnds(first, second, tx, ty, guess) ==
    /\ first.kind = "Wall" /\ second.kind = "Wall"
    /\ tx = "ProfilePoint" /\ ty = "ProfilePoint"
    /\ guess \in {First(first), Second(first)}
    /\ NearestIsFree(first, guess) /\ NearestIsFree(second, guess)

Join(x, y, tx, ty, guess) ==
    /\ MayCall
    /\ {<<objs[x].kind, objs[y].kind, tx>>, <<objs[y].kind, objs[x].kind, ty>>} \subseteq SnapKinds
    /\ \E after \in {JoinRefs(objs[x], objs[y], tx, ty, guess)} \ {None} :
           /\ Bounded(after[1]) /\ Bounded(after[2])
           /\ objs' = [objs EXCEPT ![x] = after[1], ![y] = after[2]]
           /\ Return(IF BetweenEnds(objs[x], objs[y], tx, ty, guess) THEN "join_ends" ELSE "join",
                     NewRefs(objs[x], after[1]) \o NewRefs(objs[y], after[2]))

\* The trait's delete_ref, of an end or an opening.
ClearRef(ref) ==
    LET owner == ref.owner
    IN  /\ MayCall
        /\ objs' = [objs EXCEPT ![owner.id] = DeleteRef(@, owner.ref_type, owner.index)]
        /\ Return("clear", << >>)

Delete(x) ==
    /\ MayCall
    /\ objs' = [objs EXCEPT ![x] = None]
    /\ Return("delete", << >>)

AddToGroup(g, S) ==
    LET members == InOrder(S)
        held == [n \in DOMAIN members |-> objs[members[n]]]
    IN  /\ MayCall
        /\ \E after \in {AddObjsToVisibilityGroup(objs[g], held)} \ {None} :
               /\ Bounded(after)
               /\ objs' = [objs EXCEPT ![g] = after]
               /\ Return("group", NewRefs(objs[g], after))

RemoveFromGroup(g, S) ==
    /\ MayCall
    /\ \E after \in {RemoveObjsFromVisibilityGroup(objs[g], S)} \ {None} :
           /\ objs' = [objs EXCEPT ![g] = after]
           /\ Return("ungroup", << >>)

\* update_objects with everything found from a piece, which may be one of a
\* deleted object.
UpdateFrom(r) ==
    /\ MayCall
    /\ \E refs \in GetAllDeps(AllRefs, <<r>>) :
           /\ objs' = UpdateAll(objs, refs)
           /\ \A x \in Held : Bounded(objs'[x])
           /\ Return("update", refs)

Next ==
    \/ \E S \in Selections \cap SUBSET Held, delta \in Delta : MoveObjects(S, delta)
    \/ \E x, y \in Held : \E guess \in Guesses :
           /\ x # y
           /\ \/ \E t \in RefType : Snap(x, y, t, guess)
              \/ \E t \in JoinTypes : Join(x, y, t[1], t[2], guess)
    \/ \E ref \in AllRefs : ClearRef(ref)
    \/ \E r \in {ref.other : ref \in AllRefs} : UpdateFrom(r)
    \/ \E x \in Held : Delete(x)
    \/ \E g \in Groups \cap Held, S \in Selections :
           \/ S \subseteq Held /\ AddToGroup(g, S)
           \/ RemoveFromGroup(g, S)

Spec == Init /\ [][Next]_vars
-----------------------------------------------------------------------------
(* Properties *)

\* Types; what can be referred to is of the type its owner stores; a door keeps
\* its place along the line as a fraction of it, and where it ends is unknown
\* when where it starts is.
TypeOK ==
    /\ DOMAIN objs = Obj
    /\ \A x \in Held :
          /\ objs[x].id = x
          /\ objs[x].kind = (CASE x \in Walls -> "Wall" [] x \in Doors -> "Door"
                                [] x \in Groups -> "VisibilityGroup")
          /\ \A ref \in RefsOf(objs[x]) : ref.owner.id = x /\ {ref.owner, ref.other} \subseteq Piece
    /\ \A x \in Held \cap Walls :
          /\ \A i \in 1 .. 2 : objs[x].pts[i].info \in [kind : {"Point"}, at : Int]
          /\ \A i \in DOMAIN objs[x].openings :
                objs[x].openings[i] # None => objs[x].openings[i].info.kind = "Plane"
    /\ \A x \in Held \cap Doors :
          /\ objs[x].dir.interp[2] > 0
          /\ objs[x].dir.interp[1] \in 0 .. objs[x].dir.interp[2]
          /\ objs[x].dir.line.pt_1 = NaN => objs[x].dir.line.pt_2 = NaN

\* An operation sets a reference in a free slot or clears one; it never points
\* a slot elsewhere, nor moves a reference to another slot.  What depends on
\* slots is get_ref_diffs (dependencies), which takes out of a subscriber set
\* only what a slot has lost.
SlotsNeverRepointed ==
    [][\A x \in Held \cap Held' :
          LET before == GetRefs(objs[x])
              after == GetRefs(objs'[x])
          IN  \A i \in DOMAIN before :
                 /\ i \in DOMAIN after
                 /\ before[i] # None => after[i] \in {before[i], None}]_vars

\* The object that reference n refers to is moved later in the update.
IsOvertaken(n) ==
    \E m \in n + 1 .. Len(last.refs) :
        /\ last.refs[m].owner.id = last.refs[n].other.id
        /\ last.refs[m].other.id # last.refs[n].other.id

\* After an update everything that was updated agrees with what it refers to,
\* whatever cycles joined walls form, unless it was overtaken: the search
\* answers by distance, not by what depends on what.
UpdateSettles ==
    last.op = "update" =>
        \A n \in DOMAIN last.refs :
            UpdateReference(objs, last.refs[n]) = objs \/ IsOvertaken(n)

\* A piece that was joined has the place of the result its reference names,
\* unless an opening was emptied: the indexes of the results found skip those.
HasGap(x) == x \in Walls /\ \E i \in DOMAIN objs[x].openings : objs[x].openings[i] = None
SnapNamesResult ==
    last.op = "snap" =>
        \A n \in DOMAIN last.refs :
            HasGap(last.refs[n].other.id) \/ UpdateReference(objs, last.refs[n]) = objs

\* Two walls joined where the first ends, if the nearest end of each is free,
\* are joined to each other: each refers to the other's end, and the two ends
\* have one place.
JoinIsMutual ==
    last.op = "join_ends" =>
        LET first == last.refs[1]
            second == last.refs[2]
        IN  /\ first.owner = second.other /\ first.other = second.owner
            /\ GetRefResult(objs, first.owner) = GetRefResult(objs, second.owner)

\* A door that was put on a line or followed it starts on it, between its ends,
\* unless it was overtaken or the line's own place is unknown.
DoorOnLine ==
    last.op \in {"snap", "update"} =>
        \A n \in DOMAIN last.refs :
            LET door == objs[last.refs[n].owner.id]
                on == GetRefResult(objs, last.refs[n].other)
            IN  /\ last.refs[n].owner.id \in Held \cap Doors
                /\ last.refs[n].owner.id # last.refs[n].other.id
                /\ on # None /\ NaN \notin {on.pt_1, on.pt_2}
                /\ ~IsOvertaken(n)
                => \/ on.pt_1 <= door.dir.line.pt_1 /\ door.dir.line.pt_1 <= on.pt_2
                   \/ on.pt_2 <= door.dir.line.pt_1 /\ door.dir.line.pt_1 <= on.pt_1
=============================================================================
