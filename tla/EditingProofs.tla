---------------------------- MODULE EditingProofs ----------------------------
(***************************************************************************)
(* Proofs about a caller of the operations library.  What holds of every   *)
(* object (IsObj) is inductive: each call is one of the lemmas of          *)
(* OperationsProofs with the bounds the caller keeps to.  What a call      *)
(* promises of the references it was about follows from what it does to    *)
(* the objects, for whatever objects it is called with.                    *)
(***************************************************************************)
EXTENDS Editing, OperationsProofs

KindOf(x) == CASE x \in Walls -> "Wall" [] x \in Doors -> "Door" [] OTHER -> "VisibilityGroup"

\* An object is of the type and the kind its id stands for, and refers to pieces
\* that may be there.  A door stands on lines only.
WallIs(wall) ==
    /\ \A i \in 1 .. 2 : wall.pts[i].info.at \in Int
    /\ Len(wall.openings) <= MaxSlots
DoorIs(door) ==
    /\ door.dir.refer # None => door.dir.refer.ref_type = "ProfileLine"
    /\ door.dir.line.pt_1 = NaN => door.dir.line.pt_2 = NaN
GroupIs(group) == Len(group.children) <= MaxSlots
IsObj(x, obj) ==
    /\ obj \in Objects(x, Piece) /\ obj.kind = KindOf(x)
    /\ obj.kind = "Wall" => WallIs(obj)
    /\ obj.kind = "Door" => DoorIs(obj)
    /\ obj.kind = "VisibilityGroup" => GroupIs(obj)
ObjsAre(objects) ==
    /\ objects \in ObjectsOn(Obj, Piece)
    /\ \A x \in Obj : objects[x] # None => IsObj(x, objects[x])
ObjsOK == ObjsAre(objs)

\* What the assumption says of pieces and numbers.
LEMMA Assumed ==
    /\ NoneIsApart(Piece) /\ NaN \notin Int /\ None \notin Obj
    /\ MaxSlots \in Nat /\ Guesses \subseteq Int /\ Delta \subseteq Int /\ Coord \subseteq Int
    /\ IsFiniteSet(Obj)
    /\ JoinTypes \subseteq RefType \X RefType
    /\ Walls \cap Doors = {} /\ Walls \cap Groups = {} /\ Doors \cap Groups = {}
  BY EditingAssumption DEF EditingAssumption

\* The kinds and their ids.
LEMMA Kinds ==
    ASSUME NEW x \in Obj
    PROVE  /\ KindOf(x) \in {"Wall", "Door", "VisibilityGroup"}
           /\ x \in Walls <=> KindOf(x) = "Wall"
           /\ x \in Doors <=> KindOf(x) = "Door"
           /\ x \in Groups <=> KindOf(x) = "VisibilityGroup"
  BY Assumed DEF KindOf, Obj

\* What an object of each kind is.
LEMMA KindIs ==
    ASSUME NEW x \in Obj, NEW obj, IsObj(x, obj)
    PROVE  \/ obj.kind = "Wall" /\ obj \in WallsOf(x, Piece) /\ WallIs(obj)
           \/ obj.kind = "Door" /\ obj \in DoorsOf(x, Piece) /\ DoorIs(obj)
           \/ obj.kind = "VisibilityGroup" /\ obj \in GroupsOf(x, Piece) /\ GroupIs(obj)
  BY ObjectKinds, Kinds, Zenon DEF IsObj

\* The objects of each kind are as they should be.
LEMMA IsObjOf ==
    ASSUME NEW x \in Obj, NEW obj, obj.kind = KindOf(x)
    PROVE  /\ obj \in WallsOf(x, Piece) /\ WallIs(obj) => IsObj(x, obj)
           /\ obj \in DoorsOf(x, Piece) /\ DoorIs(obj) => IsObj(x, obj)
           /\ obj \in GroupsOf(x, Piece) /\ GroupIs(obj) => IsObj(x, obj)
  <1>1. obj \in WallsOf(x, Piece) => obj.kind = "Wall"
    BY DEF WallsOf
  <1>2. obj \in DoorsOf(x, Piece) => obj.kind = "Door"
    BY DEF DoorsOf
  <1>3. obj \in GroupsOf(x, Piece) => obj.kind = "VisibilityGroup"
    BY DEF GroupsOf
  <1> QED
    BY <1>1, <1>2, <1>3, Zenon DEF IsObj, Objects

\* A piece that may be referred to.
LEMMA PieceIs ==
    ASSUME NEW x \in Obj, NEW t \in RefType, NEW i \in 1 .. MaxSlots + 2
    PROVE  RefID(x, t, i) \in Piece
  BY DEF Piece, RefID

-----------------------------------------------------------------------------
(* What objects refer to *)

\* A reference of an object: its own piece refers to one that may be there; what
\* a door refers to, apart from itself, is a line.
IsRefOf(ref, x) ==
    /\ ref = Reference(ref.owner, ref.other)
    /\ ref.owner \in Piece /\ ref.other \in Piece /\ ref.owner.id = x
    /\ x \in Doors /\ ref.other.id # x =>
          ref.owner = RefID(x, "ProfileLine", 1) /\ ref.other.ref_type = "ProfileLine"

\* A reference is made of two pieces.
LEMMA RefOfIs ==
    ASSUME NEW x \in Obj, NEW t \in RefType, NEW i \in 1 .. MaxSlots + 2, NEW other \in Piece,
           x \in Doors /\ other.id # x =>
               t = "ProfileLine" /\ i = 1 /\ other.ref_type = "ProfileLine"
    PROVE  IsRefOf(Reference(RefID(x, t, i), other), x)
  <1>1. RefID(x, t, i) \in Piece /\ RefID(x, t, i).id = x
    BY PieceIs DEF RefID
  <1> QED
    BY <1>1 DEF IsRefOf, Reference

\* A slot without a reference has none; one with a reference, that reference.
LEMMA SlotRef ==
    ASSUME NEW u, NEW owner
    PROVE  SlotOf(u, owner) # None =>
               u # None /\ u.refer # None /\ SlotOf(u, owner) = Reference(owner, u.refer)
  BY Zenon DEF SlotOf

\* The references of a wall.
LEMMA WallRefsOf ==
    ASSUME NEW x \in Walls, NEW wall \in WallsOf(x, Piece), WallIs(wall),
           NEW i \in DOMAIN GetRefs(wall), GetRefs(wall)[i] # None
    PROVE  IsRefOf(GetRefs(wall)[i], x)
  <1>1. AreWallRefs(GetRefs(wall), wall, x)
    <2>1. GetRefs(wall) = W!GetRefs(wall)
      BY OfWall DEF WallsOf
    <2> QED
      BY <2>1, WallRefs
  <1>2. x \in Obj /\ x \notin Doors /\ MaxSlots \in Nat
    BY Assumed DEF Obj
  <1>3. Len(wall.openings) \in Nat /\ i \in 1 .. Len(wall.openings) + 6
        /\ Len(wall.openings) <= MaxSlots
    BY <1>1 DEF AreWallRefs, WallIs
  <1>4. CASE i \in 1 .. 2
    <2>1. GetRefs(wall)[i] = SlotOf(wall.pts[i], RefID(x, "ProfilePoint", i))
      BY <1>1, <1>4 DEF AreWallRefs
    <2>2. /\ wall.pts[i].refer # None
          /\ GetRefs(wall)[i] = Reference(RefID(x, "ProfilePoint", i), wall.pts[i].refer)
      BY <2>1, SlotRef
    <2>3. wall.pts[i].refer \in Piece
      BY <1>4, <2>2 DEF WallsOf, Slot
    <2> QED
      BY <1>2, <1>4, <2>2, <2>3, RefOfIs DEF RefType
  <1>5. CASE i \in 3 .. 6
    <2>1. \A k \in 1 .. 2 : RefID(x, "ProfilePoint", k) \in Piece
      BY <1>2, PieceIs DEF RefType
    <2>2. \E t \in RefType, k \in 1 .. 2 :
              GetRefs(wall)[i] = Reference(RefID(x, t, 1), RefID(x, "ProfilePoint", k))
      BY <1>1, <1>5 DEF AreWallRefs, RefType
    <2> QED
      BY <1>2, <2>1, <2>2, RefOfIs
  <1>6. CASE i \in 7 .. Len(wall.openings) + 6
    <2> DEFINE k == i - 6
    <2>1. k \in 1 .. Len(wall.openings) /\ i = k + 6 /\ k \in 1 .. MaxSlots + 2
      BY <1>2, <1>3, <1>6
    <2> HIDE DEF k
    <2>2. GetRefs(wall)[i] = SlotOf(wall.openings[k], RefID(x, "ProfilePlane", k))
      BY <1>1, <2>1 DEF AreWallRefs
    <2>3. /\ wall.openings[k] # None /\ wall.openings[k].refer # None
          /\ GetRefs(wall)[i] = Reference(RefID(x, "ProfilePlane", k), wall.openings[k].refer)
      BY <2>2, SlotRef
    <2>4. wall.openings[k].refer \in Piece
      BY <2>1, <2>3 DEF WallsOf, Slot
    <2> QED
      BY <1>2, <2>1, <2>3, <2>4, RefOfIs DEF RefType
  <1> QED
    BY <1>3, <1>4, <1>5, <1>6

\* The references of a door.
LEMMA DoorRefsOf ==
    ASSUME NEW x \in Doors, NEW door \in DoorsOf(x, Piece), DoorIs(door),
           NEW i \in DOMAIN GetRefs(door), GetRefs(door)[i] # None
    PROVE  IsRefOf(GetRefs(door)[i], x)
  <1>1. AreDoorRefs(GetRefs(door), door, x)
    BY DoorRefs, OfDoor DEF DoorsOf
  <1>2. x \in Obj /\ MaxSlots \in Nat
    BY Assumed DEF Obj
  <1>3. CASE i = 1
    <2>1. /\ door.dir.refer # None
          /\ GetRefs(door)[i] = Reference(RefID(x, "ProfileLine", 1), door.dir.refer)
      BY <1>1, <1>3 DEF AreDoorRefs
    <2>2. door.dir.refer \in Piece /\ door.dir.refer.ref_type = "ProfileLine"
      BY <2>1 DEF DoorsOf, Segments, Slot, DoorIs
    <2> QED
      BY <1>2, <2>1, <2>2, RefOfIs DEF RefType
  <1>4. CASE i \in 2 .. 5
    <2>1. RefID(x, "ProfileLine", 1) \in Piece /\ RefID(x, "ProfileLine", 1).id = x
      BY <1>2, PieceIs DEF RefType, RefID
    <2>2. \E t \in RefType, k \in 1 .. 2 :
              GetRefs(door)[i] = Reference(RefID(x, t, k), RefID(x, "ProfileLine", 1))
      BY <1>1, <1>4 DEF AreDoorRefs, RefType
    <2> QED
      BY <1>2, <2>1, <2>2, RefOfIs
  <1> QED
    BY <1>1, <1>3, <1>4 DEF AreDoorRefs

\* The references of a group.
LEMMA GroupRefsOf ==
    ASSUME NEW x \in Groups, NEW group \in GroupsOf(x, Piece), GroupIs(group),
           NEW i \in DOMAIN GetRefs(group), GetRefs(group)[i] # None
    PROVE  IsRefOf(GetRefs(group)[i], x)
  <1>1. GetRefs(group) = G!GetRefs(group)
    BY OfGroup DEF GroupsOf
  <1>2. x \in Obj /\ x \notin Doors /\ MaxSlots \in Nat
    BY Assumed DEF Obj
  <1>3. /\ i \in 1 .. Len(group.children) /\ Len(group.children) \in Nat
        /\ GetRefs(group)[i] = IF group.children[i] = None THEN None
                               ELSE Reference(RefID(x, "Drawable", i), group.children[i])
    BY <1>1, GroupRefs
  <1>4. group.children[i] \in Piece /\ i \in 1 .. MaxSlots + 2
    BY <1>2, <1>3 DEF GroupsOf, Slot, GroupIs
  <1> QED
    BY <1>2, <1>3, <1>4, RefOfIs DEF RefType

\* Whatever an object refers to, with its own pieces.
LEMMA RefsAre ==
    ASSUME NEW x \in Obj, NEW obj, IsObj(x, obj), NEW ref \in RefsOf(obj)
    PROVE  IsRefOf(ref, x)
  <1>1. PICK i \in DOMAIN GetRefs(obj) : ref = GetRefs(obj)[i] /\ GetRefs(obj)[i] # None
    BY Zenon DEF RefsOf, Range
  <1> QED
    BY <1>1, KindIs, Kinds, WallRefsOf, DoorRefsOf, GroupRefsOf, Zenon DEF IsObj

-----------------------------------------------------------------------------
(* What calls do to an object *)

\* Slots stay, and none gets another reference than the one it has.
SlotsKept(before, after) ==
    \A i \in DOMAIN GetRefs(before) :
        /\ i \in DOMAIN GetRefs(after)
        /\ GetRefs(before)[i] # None => GetRefs(after)[i] \in {GetRefs(before)[i], None}
SlotsStay(before, after) ==
    \A x \in Obj : before[x] # None /\ after[x] # None => SlotsKept(before[x], after[x])

\* To clear a slot, to set a free one and to add children keeps the slots.
LEMMA ClearsKeep ==
    ASSUME NEW before, NEW after, OnlyClears(before, after)
    PROVE  SlotsKept(before, after)
  BY Zenon DEF OnlyClears, SlotsKept

\* The same of a reference that is set.
LEMMA SetsKeep ==
    ASSUME NEW before, NEW after, NEW ref, OnlySets(before, after, ref)
    PROVE  SlotsKept(before, after)
  BY Zenon DEF OnlySets, SlotsKept

\* The same of children that are added to a group.
LEMMA AddsKeep ==
    ASSUME NEW x, NEW before \in GroupsOf(x, Piece), NEW after \in GroupsOf(x, Piece),
           Adds(before, after)
    PROVE  SlotsKept(before, after)
  <1>1. GetRefs(before) = G!GetRefs(before) /\ GetRefs(after) = G!GetRefs(after)
    BY OfGroup DEF GroupsOf
  <1>2. /\ DOMAIN before.children = 1 .. Len(before.children)
        /\ DOMAIN after.children = 1 .. Len(after.children)
        /\ DOMAIN GetRefs(before) = DOMAIN before.children
        /\ DOMAIN GetRefs(after) = DOMAIN after.children
    BY <1>1, GroupRefs
  <1>3. ASSUME NEW i \in DOMAIN before.children
        PROVE  i \in DOMAIN after.children /\ GetRefs(after)[i] = GetRefs(before)[i]
    <2>1. i \in DOMAIN after.children /\ after.children[i] = before.children[i]
      BY <1>3 DEF Adds
    <2>2. GetRefs(before)[i] = IF before.children[i] = None THEN None
                               ELSE Reference(RefID(x, "Drawable", i), before.children[i])
      BY <1>1, <1>2, <1>3, GroupRefs
    <2>3. GetRefs(after)[i] = IF after.children[i] = None THEN None
                              ELSE Reference(RefID(x, "Drawable", i), after.children[i])
      BY <1>1, <1>2, <2>1, GroupRefs
    <2> QED
      BY <2>1, <2>2, <2>3
  <1> QED
    BY <1>2, <1>3, Zenon DEF SlotsKept

\* A reference is not None.
LEMMA ReferenceIsNotNone ==
    ASSUME NEW owner \in Piece, NEW other \in Piece
    PROVE  Reference(owner, other) # None
  <1>1. Reference(owner, other) \in [owner : Piece, other : Piece]
    BY DEF Reference
  <1> QED
    BY <1>1, Assumed DEF NoneIsApart

\* What a door refers to, when its slot is cleared or set.
LEMMA DoorRefers ==
    ASSUME NEW x \in Doors, NEW before \in DoorsOf(x, Piece), NEW after \in DoorsOf(x, Piece),
           NEW t, NEW i, NEW which,
           \/ OnlyClears(before, after)
           \/ OnlySets(before, after, Reference(RefID(x, t, i), which))
    PROVE  \/ after.dir.refer \in {before.dir.refer, None}
           \/ after.dir.refer = which /\ t = "ProfileLine"
  <1> SUFFICES ASSUME after.dir.refer # None
               PROVE  \/ after.dir.refer = before.dir.refer
                      \/ after.dir.refer = which /\ t = "ProfileLine"
    OBVIOUS
  <1> DEFINE owner == RefID(x, "ProfileLine", 1)
  <1>1. AreDoorRefs(GetRefs(before), before, x) /\ AreDoorRefs(GetRefs(after), after, x)
    <2>1. GetRefs(before) = D!GetRefs(before) /\ GetRefs(after) = D!GetRefs(after)
      BY OfDoor DEF DoorsOf
    <2> QED
      BY <2>1, DoorRefs
  <1>2. /\ 1 \in DOMAIN GetRefs(before) /\ 1 \in DOMAIN GetRefs(after)
        /\ GetRefs(after)[1] = Reference(owner, after.dir.refer)
        /\ GetRefs(before)[1] # None => GetRefs(before)[1] = Reference(owner, before.dir.refer)
    BY <1>1 DEF AreDoorRefs
  <1>3. GetRefs(after)[1] # None
    <2>1. after.dir.refer \in Piece
      BY DEF DoorsOf, Segments, Slot
    <2>2. x \in Obj /\ MaxSlots \in Nat
      BY Assumed DEF Obj
    <2>3. owner \in Piece
      BY <2>2, PieceIs DEF RefType
    <2> HIDE DEF owner
    <2> QED
      BY <1>2, <2>1, <2>3, ReferenceIsNotNone
  <1>4. \/ GetRefs(after)[1] = GetRefs(before)[1]
        \/ GetRefs(after)[1] = Reference(RefID(x, t, i), which)
    BY <1>2, <1>3 DEF OnlyClears, OnlySets
  <1> QED
    BY <1>2, <1>3, <1>4 DEF Reference, RefID

\* An object within the caller's bounds.
LEMMA BoundedIs ==
    ASSUME NEW obj, Bounded(obj)
    PROVE  /\ obj.kind = "Wall" => WallIs(obj)
           /\ obj.kind = "VisibilityGroup" => GroupIs(obj)
  BY Assumed DEF Bounded, WallIs, GroupIs

\* Where a door's line ends is known only when where it starts is.
EndsOK(seg) == seg.line.pt_1 = NaN => seg.line.pt_2 = NaN

\* A line segment that follows a line knows where it starts if the line does.
LEMMA SegmentEnds ==
    ASSUME NEW seg \in Segments(Piece), NEW result \in LineResults
    PROVE  /\ EndsOK(seg) => EndsOK(D!LineSegUpdated(seg, result, None))
           /\ result.pt_1 # NaN /\ result.pt_2 # NaN =>
                  EndsOK(D!LineSegUpdated(seg, result, None))
  <1> DEFINE after == D!LineSegUpdated(seg, result, None)
  <1>0. result.kind = "Line" /\ seg.interp \in Fractions
    BY DEF LineResults, Segments
  <1>1. CASE result.pt_1 = NaN \/ result.pt_2 = NaN
    <2>1. after = [seg EXCEPT !.line = D!Line(NaN, NaN)]
      BY <1>0, <1>1 DEF D!LineSegUpdated
    <2>2. after.line = D!Line(NaN, NaN)
      BY <2>1 DEF Segments
    <2> QED
      BY <1>1, <2>2 DEF EndsOK, D!Line
  <1>2. CASE result.pt_1 # NaN /\ result.pt_2 # NaN
    <2> DEFINE dir == result.pt_2 - result.pt_1
               start == result.pt_1 + (dir * seg.interp[1]) \div seg.interp[2]
               end == IF dir = 0 THEN NaN
                      ELSE start + (dir \div D!Abs(dir)) * seg.length
    <2>1. dir \in Int /\ result.pt_1 \in Int
      BY <1>2 DEF LineResults, Number
    <2>2. start \in Int
      BY <1>0, <2>1, FractionOf
    <2>3. after = [seg EXCEPT !.interp = seg.interp, !.line = D!Line(start, end)]
      BY <1>0, <1>2 DEF D!LineSegUpdated
    <2> HIDE DEF start, end
    <2>4. after.line = D!Line(start, end)
      BY <2>3 DEF Segments
    <2> QED
      BY <2>2, <2>4, Assumed DEF EndsOK, D!Line
  <1> QED
    BY <1>1, <1>2

\* An object is moved.
LEMMA MoveIs ==
    ASSUME NEW x \in Obj, NEW obj, IsObj(x, obj), NEW delta \in Delta,
           NEW after, after = MoveObj(obj, delta), Bounded(after)
    PROVE  IsObj(x, after) /\ SlotsKept(obj, after)
  <1>0. delta \in Int /\ NoneIsApart(Piece) /\ obj.kind = KindOf(x)
    BY Assumed DEF IsObj
  <1>1. CASE obj.kind = "Wall" /\ obj \in WallsOf(x, Piece) /\ WallIs(obj)
    <2>1. after = W!MoveObj(obj, delta)
      BY <1>1 DEF MoveObj
    <2>2. after \in WallsOf(x, Piece) /\ OnlyClears(obj, after)
      BY <1>0, <1>1, <2>1, WallMoved
    <2>3. after.kind = "Wall"
      BY <2>2 DEF WallsOf
    <2> QED
      BY <1>0, <1>1, <2>2, <2>3, BoundedIs, IsObjOf, ClearsKeep
  <1>2. CASE obj.kind = "Door" /\ obj \in DoorsOf(x, Piece) /\ DoorIs(obj)
    <2>1. after = D!MoveObj(obj, delta)
      BY <1>2 DEF MoveObj
    <2>2. after \in DoorsOf(x, Piece) /\ OnlyClears(obj, after)
      BY <1>0, <1>2, <2>1, DoorMoved
    <2>3. after.kind = "Door"
      BY <2>2 DEF DoorsOf
    <2>4. /\ after.dir.refer = obj.dir.refer
          /\ after.dir.line.pt_1 = D!Plus(obj.dir.line.pt_1, delta)
          /\ after.dir.line.pt_2 = D!Plus(obj.dir.line.pt_2, delta)
      BY <1>2, <2>1 DEF D!MoveObj, D!Line, DoorsOf, Segments
    <2>5. obj.dir.line.pt_1 \in Number
      BY <1>2 DEF DoorsOf, Segments, LineResults
    <2>6. DoorIs(after)
      BY <1>0, <1>2, <2>4, <2>5, Assumed DEF DoorIs, D!Plus, Number
    <2> QED
      BY <1>0, <1>2, <2>2, <2>3, <2>6, IsObjOf, ClearsKeep
  <1>3. CASE obj.kind = "VisibilityGroup" /\ obj \in GroupsOf(x, Piece) /\ GroupIs(obj)
    <2>1. after = obj
      BY <1>3 DEF MoveObj
    <2> QED
      BY <2>1, Zenon DEF SlotsKept
  <1> QED
    BY <1>1, <1>2, <1>3, KindIs, Zenon

\* A slot is cleared.
LEMMA ClearIs ==
    ASSUME NEW x \in Obj, NEW obj, IsObj(x, obj), NEW t, NEW i,
           NEW after, after = DeleteRef(obj, t, i)
    PROVE  IsObj(x, after) /\ SlotsKept(obj, after)
  <1>0. NoneIsApart(Piece) /\ obj.kind = KindOf(x)
    BY Assumed DEF IsObj
  <1>1. CASE obj.kind = "Wall" /\ obj \in WallsOf(x, Piece) /\ WallIs(obj)
    <2>1. after = W!DeleteRef(obj, t, i)
      BY <1>1 DEF DeleteRef
    <2>2. /\ after \in WallsOf(x, Piece) /\ OnlyClears(obj, after)
          /\ Len(after.openings) = Len(obj.openings)
          /\ \A k \in 1 .. 2 : after.pts[k].info = obj.pts[k].info
      BY <1>0, <1>1, <2>1, WallRefDeleted
    <2>3. after.kind = "Wall"
      BY <2>2 DEF WallsOf
    <2>4. WallIs(after)
      BY <1>1, <2>2 DEF WallIs
    <2> QED
      BY <1>0, <1>1, <2>2, <2>3, <2>4, IsObjOf, ClearsKeep
  <1>2. CASE obj.kind = "Door" /\ obj \in DoorsOf(x, Piece) /\ DoorIs(obj)
    <2>1. after = D!DeleteRef(obj, t, i)
      BY <1>2 DEF DeleteRef
    <2>2. after \in DoorsOf(x, Piece) /\ OnlyClears(obj, after)
      BY <1>2, <2>1, DoorRefDeleted
    <2>3. after.kind = "Door"
      BY <2>2 DEF DoorsOf
    <2>4. after.dir.refer \in {obj.dir.refer, None} /\ after.dir.line = obj.dir.line
      BY <1>2, <2>1 DEF D!DeleteRef, DoorsOf, Segments
    <2>5. DoorIs(after)
      BY <1>2, <2>4 DEF DoorIs
    <2> QED
      BY <1>0, <1>2, <2>2, <2>3, <2>5, IsObjOf, ClearsKeep
  <1>3. CASE obj.kind = "VisibilityGroup" /\ obj \in GroupsOf(x, Piece) /\ GroupIs(obj)
    <2>1. after = G!DeleteRef(obj, t, i)
      BY <1>3 DEF DeleteRef
    <2>2. /\ after \in GroupsOf(x, Piece) /\ OnlyClears(obj, after)
          /\ DOMAIN after.children = DOMAIN obj.children
      BY <1>3, <2>1, GroupRefDeleted
    <2>3. after.kind = "VisibilityGroup"
      BY <2>2 DEF GroupsOf
    <2>4. Len(after.children) = Len(obj.children)
      BY <1>3, <2>2, LenProperties DEF GroupsOf
    <2> QED
      BY <1>0, <1>3, <2>2, <2>3, <2>4, IsObjOf, ClearsKeep DEF GroupIs
  <1> QED
    BY <1>1, <1>2, <1>3, KindIs, Zenon

\* Objects are added to a group.
LEMMA AddedIs ==
    ASSUME NEW g \in Groups, NEW group, IsObj(g, group), NEW held, Len(held) \in Nat,
           \A n \in 1 .. Len(held) : held[n].id \in Obj,
           NEW after, after = AddObjsToVisibilityGroup(group, held), Bounded(after)
    PROVE  IsObj(g, after) /\ SlotsKept(group, after)
  <1>1. g \in Obj /\ group.kind = KindOf(g) /\ MaxSlots \in Nat
    BY Assumed DEF Obj, IsObj
  <1>2. KindOf(g) = "VisibilityGroup"
    BY <1>1, Kinds
  <1>3. group \in GroupsOf(g, Piece)
    BY <1>1, <1>2, ObjectKinds DEF IsObj
  <1>4. \A n \in 1 .. Len(held) : RefID(held[n].id, "Drawable", 1) \in Piece
    BY <1>1, PieceIs DEF RefType
  <1>5. after \in GroupsOf(g, Piece) /\ Adds(group, after)
    BY <1>3, <1>4, ObjsAdded
  <1>6. after.kind = "VisibilityGroup"
    BY <1>5 DEF GroupsOf
  <1> QED
    BY <1>1, <1>2, <1>3, <1>5, <1>6, BoundedIs, IsObjOf, AddsKeep

\* Objects are removed from a group.
LEMMA RemovedIs ==
    ASSUME NEW g \in Groups, NEW group, IsObj(g, group), NEW ids,
           NEW after, after = RemoveObjsFromVisibilityGroup(group, ids)
    PROVE  IsObj(g, after) /\ SlotsKept(group, after)
  <1>1. g \in Obj /\ group.kind = KindOf(g)
    BY DEF Obj, IsObj
  <1>2. KindOf(g) = "VisibilityGroup"
    BY <1>1, Kinds
  <1>3. group \in GroupsOf(g, Piece) /\ GroupIs(group)
    BY <1>1, <1>2, ObjectKinds DEF IsObj
  <1>4. /\ after \in GroupsOf(g, Piece) /\ OnlyClears(group, after)
        /\ DOMAIN after.children = DOMAIN group.children
    BY <1>3, ObjsRemoved
  <1>5. Len(after.children) = Len(group.children)
    BY <1>3, <1>4, LenProperties DEF GroupsOf
  <1>6. after.kind = "VisibilityGroup" /\ GroupIs(after)
    BY <1>3, <1>4, <1>5 DEF GroupsOf, GroupIs
  <1> QED
    BY <1>1, <1>2, <1>4, <1>6, IsObjOf, ClearsKeep

\* A result that is near is one of its type's kind, and the piece it is of may
\* be referred to.
LEMMA NearIs ==
    ASSUME NEW y \in Obj, NEW other, IsObj(y, other), NEW t \in RefType,
           NEW found \in NearResults(other, t)
    PROVE  /\ RefID(y, t, found) \in Piece
           /\ HasDistance(GetResultsForType(other, t)[found])
           /\ t \in {"ProfilePoint", "ProfileLine", "ProfilePlane"}
           /\ t = "ProfileLine" => GetResultsForType(other, t)[found] \in LineResults
           /\ t \in {"ProfilePoint", "ProfileLine"} \/ ~ HasEmptied(other) =>
                 GetResult(other, t, found) = GetResultsForType(other, t)[found]
  <1> DEFINE results == GetResultsForType(other, t)
  <1>1. other \in Objects(y, Piece)
    BY DEF IsObj
  <1>2. PICK n \in Nat : AreResultsTo(n, results, other, t)
    BY <1>1, ObjectResults, Zenon DEF AreResults
  <1>3. found \in 1 .. n /\ HasDistance(results[found])
    BY <1>2 DEF NearResults, AreResultsTo
  <1> HIDE DEF results
  <1>4. found \in 1 .. MaxSlots + 2
    <2>1. MaxSlots \in Nat
      BY Assumed
    <2>2. CASE other.kind = "Wall"
      <3>1. Len(other.openings) <= MaxSlots /\ other \in WallsOf(y, Piece)
        BY <2>2, KindIs DEF WallIs
      <3>2. Len(other.openings) \in Nat
        BY <3>1, LenProperties DEF WallsOf
      <3>3. n <= Len(other.openings) + 2
        BY <1>2, <2>2 DEF AreResultsTo
      <3> QED
        BY <1>3, <2>1, <3>1, <3>2, <3>3
    <2>3. CASE other.kind # "Wall"
      <3>1. n <= 2
        BY <1>2, <2>3 DEF AreResultsTo
      <3> QED
        BY <1>3, <2>1, <3>1
    <2> QED
      BY <2>2, <2>3
  <1>5. t \in {"ProfilePoint", "ProfileLine", "ProfilePlane"}
    BY <1>2, <1>3 DEF AreResultsTo
  <1>6. t = "ProfileLine" => results[found] \in LineResults
    BY <1>2, <1>3 DEF AreResultsTo
  <1>7. t \in {"ProfilePoint", "ProfileLine"} \/ ~ HasEmptied(other) =>
            GetResult(other, t, found) = results[found]
    BY <1>2, <1>3, <1>5 DEF AreResultsTo
  <1> QED
    BY <1>3, <1>4, <1>5, <1>6, <1>7, PieceIs DEF results

\* What a line is put on that has the direction it needs.
LEMMA LineHasEnds ==
    ASSUME NEW line \in LineResults, HasDistance(line)
    PROVE  line.pt_1 # NaN /\ line.pt_2 # NaN
  BY DEF LineResults, HasDistance, IsDegenerate

\* A door that is set follows a line.
LEMMA DoorOnlySnapsToLines ==
    ASSUME NEW x \in Obj, NEW door \in DoorsOf(x, Piece), NEW other, NEW t, NEW guess \in Int,
           SnapToRef(door, other, t, guess) # None
    PROVE  t = "ProfileLine"
  <1>1. door.kind = "Door" /\ door \in Objects(x, Piece)
    BY DEF DoorsOf, Objects
  <1>2. SUFFICES ASSUME t # "ProfileLine" PROVE FALSE
    OBVIOUS
  <1>3. GetAvailableRefs(door, t) = {}
    BY <1>1, <1>2 DEF GetAvailableRefs, D!GetAvailableRefs
  <1>4. GetClosestRef(door, t, guess) = None
    BY <1>1, <1>3, ClosestRefIs DEF NearRefs
  <1>5. \A result, which : AddRef(door, t, result, which) = None
    BY <1>1 DEF AddRef
  <1> QED
    BY <1>4, <1>5 DEF SnapToRef

\* An object is snapped to another.
SnapsTo(obj, other, x, y, t, guess, after, found, i) ==
    /\ found \in NearResults(other, t) /\ found = GetClosestResult(other, t, guess)
    /\ Snapped(obj, after, x, Piece, t, i, RefID(y, t, found), GetResultsForType(other, t)[found])

\* snap_to_ref, when it succeeds, takes the result nearest to the guess.
LEMMA SnapsIs ==
    ASSUME NEW x \in Obj, NEW y \in Obj, NEW obj, IsObj(x, obj), NEW other, IsObj(y, other),
           NEW t \in RefType, NEW guess \in Int,
           NEW after, after = SnapToRef(obj, other, t, guess), after # None, Bounded(after)
    PROVE  /\ IsObj(x, after) /\ SlotsKept(obj, after)
           /\ \E found, i : SnapsTo(obj, other, x, y, t, guess, after, found, i)
  <1> DEFINE found == GetClosestResult(other, t, guess)
             result == GetResultsForType(other, t)[found]
             which == RefID(y, t, found)
  <1>1. obj \in Objects(x, Piece) /\ other \in Objects(y, Piece) /\ obj.kind = KindOf(x)
        /\ NoneIsApart(Piece)
    BY Assumed DEF IsObj
  <1>2. found \in NearResults(other, t) => which \in Piece
    BY NearIs
  <1>3. /\ found \in NearResults(other, t)
        /\ \E i : Snapped(obj, after, x, Piece, t, i, which, result)
    BY <1>1, <1>2, SnapIs
  <1>4. PICK i : Snapped(obj, after, x, Piece, t, i, which, result)
    BY <1>3
  <1>5. SnapsTo(obj, other, x, y, t, guess, after, found, i)
    BY <1>3, <1>4, Zenon DEF SnapsTo
  <1>6. /\ HasDistance(result)
        /\ t = "ProfileLine" => result \in LineResults
        /\ which.ref_type = t
    BY <1>3, NearIs DEF RefID
  <1> HIDE DEF found, result, which
  <1>7. /\ after \in Objects(x, Piece) /\ after.kind = KindOf(x)
        /\ OnlySets(obj, after, Reference(RefID(x, t, i), which))
    BY <1>1, <1>4 DEF Snapped
  <1>8. SlotsKept(obj, after)
    BY <1>7, SetsKeep
  <1>9. IsObj(x, after)
    <2>1. CASE after.kind # "Door"
      BY <1>7, <2>1, BoundedIs DEF IsObj
    <2>2. CASE after.kind = "Door"
      <3>1. x \in Doors /\ obj.kind = "Door" /\ after \in DoorsOf(x, Piece)
        BY <1>1, <1>7, <2>2, Kinds, ObjectKinds
      <3>2. obj \in DoorsOf(x, Piece) /\ DoorIs(obj)
        BY <1>1, <3>1, ObjectKinds DEF IsObj
      <3>3. t = "ProfileLine"
        BY <3>2, DoorOnlySnapsToLines
      <3>4. i = 1 /\ SetAssociatedResult(after, t, i, result) = after
        BY <1>4, <2>2 DEF Snapped
      <3>5. after.dir \in Segments(Piece)
        BY <3>1 DEF DoorsOf
      <3>6. after.dir = D!LineSegUpdated(after.dir, result, None)
        <4>0. result # None
          BY <1>1, <1>6, <3>3 DEF NoneIsApart
        <4>1. SetAssociatedResult(after, t, i, result) = D!SetAssociatedResult(after, t, i, result)
          BY <2>2 DEF SetAssociatedResult
        <4>2. after = [after EXCEPT !.dir = D!LineSegUpdated(after.dir, result, None)]
          BY <3>3, <3>4, <4>0, <4>1 DEF D!SetAssociatedResult
        <4> DEFINE updated == D!LineSegUpdated(after.dir, result, None)
        <4> HIDE DEF updated
        <4>3. [after EXCEPT !.dir = updated].dir = updated
          BY <3>1 DEF DoorsOf
        <4> QED
          BY <4>2, <4>3 DEF updated
      <3>7. EndsOK(after.dir)
        <4>1. result \in LineResults /\ result.pt_1 # NaN /\ result.pt_2 # NaN
          BY <1>6, <3>3, LineHasEnds
        <4> QED
          BY <3>5, <3>6, <4>1, SegmentEnds
      <3>8. after.dir.refer # None => after.dir.refer.ref_type = "ProfileLine"
        BY <1>6, <1>7, <3>1, <3>2, <3>3, DoorRefers DEF DoorIs
      <3> QED
        BY <1>7, <3>1, <3>7, <3>8, IsObjOf DEF DoorIs, EndsOK
    <2> QED
      BY <2>1, <2>2
  <1> QED
    BY <1>5, <1>8, <1>9

-----------------------------------------------------------------------------
(* Updates *)

\* The doors of some objects end somewhere only if they start somewhere.
DoorsEnd(objects) ==
    \A x \in Obj : objects[x] # None /\ objects[x].kind = "Door" => EndsOK(objects[x].dir)

\* Doors that follow a result.
LEMMA DoorEndFollows ==
    ASSUME NEW x \in Obj, NEW door \in DoorsOf(x, Piece), EndsOK(door.dir),
           NEW t, NEW i, NEW result \in Results
    PROVE  EndsOK(D!SetAssociatedResult(door, t, i, result).dir)
  <1>1. CASE ~ (t = "ProfileLine" /\ i = 1 /\ result # None)
    BY <1>1 DEF D!SetAssociatedResult
  <1>2. CASE t = "ProfileLine" /\ i = 1 /\ result # None
    <2> DEFINE updated == D!LineSegUpdated(door.dir, result, None)
    <2>1. D!SetAssociatedResult(door, t, i, result) = [door EXCEPT !.dir = updated]
      BY <1>2 DEF D!SetAssociatedResult
    <2>2. EndsOK(updated)
      <3>1. CASE result.kind # "Line"
        BY <3>1 DEF D!LineSegUpdated
      <3>2. CASE result.kind = "Line"
        <4>1. result \in LineResults /\ door.dir \in Segments(Piece)
          BY <1>2, <3>2, ResultKinds DEF DoorsOf
        <4> QED
          BY <4>1, SegmentEnds
      <3> QED
        BY <3>1, <3>2
    <2> HIDE DEF updated
    <2>3. [door EXCEPT !.dir = updated].dir = updated
      BY DEF DoorsOf
    <2> QED
      BY <2>1, <2>2, <2>3
  <1> QED
    BY <1>1, <1>2

\* The same of an update by a reference.
LEMMA ReferenceEnds ==
    ASSUME NEW objects \in ObjectsOn(Obj, Piece), DoorsEnd(objects), NEW ref
    PROVE  DoorsEnd(UpdateReference(objects, ref))
  <1>0. NoneIsApart(Piece)
    BY Assumed
  <1>1. CASE ~ Affects(objects, ref, Obj)
    BY <1>1, ReferenceSkipped
  <1>2. CASE Affects(objects, ref, Obj)
    <2> DEFINE after == UpdateReference(objects, ref)
               result == GetRefResult(objects, ref.other)
               o == ref.owner
    <2>1. /\ \A x \in Obj : x # o.id => after[x] = objects[x]
          /\ after[o.id] = SetAssociatedResult(objects[o.id], o.ref_type, o.index, result)
      BY <1>0, <1>2, ReferenceFollowed
    <2>2. result \in Results
      BY ResultOfPiece
    <2>3. o.id \in Obj /\ objects[o.id] # None /\ objects[o.id] \in Objects(o.id, Piece)
      BY <1>2 DEF Affects, ObjectsOn
    <2> HIDE DEF after, result, o
    <2>4. ASSUME after[o.id].kind = "Door"
          PROVE  EndsOK(after[o.id].dir)
      <3>1. objects[o.id].kind = "Door"
        BY <1>0, <2>1, <2>2, <2>3, <2>4, ObjectFollows
      <3>2. objects[o.id] \in DoorsOf(o.id, Piece) /\ EndsOK(objects[o.id].dir)
        BY <2>3, <3>1, ObjectKinds DEF DoorsEnd
      <3>3. after[o.id] = D!SetAssociatedResult(objects[o.id], o.ref_type, o.index, result)
        BY <2>1, <3>1 DEF SetAssociatedResult
      <3> QED
        BY <2>2, <2>3, <3>2, <3>3, DoorEndFollows
    <2>5. DoorsEnd(after)
      BY <2>1, <2>4, Zenon DEF DoorsEnd
    <2> QED
      BY <2>5 DEF after
  <1> QED
    BY <1>1, <1>2

\* The same of update_objects.
LEMMA UpdateEnds ==
    ASSUME NEW objects \in ObjectsOn(Obj, Piece), DoorsEnd(objects), NEW refs, Len(refs) \in Nat
    PROVE  DoorsEnd(UpdateAll(objects, refs))
  <1>0. NoneIsApart(Piece)
    BY Assumed
  <1>1. PICK after : UpdatesBy(after, objects, refs)
    BY <1>0, UpdatedInSteps
  <1> DEFINE I == {n \in 0 .. Len(refs) : DoorsEnd(after[n])}
  <1>2. 0 \in I
    BY <1>1 DEF UpdatesBy
  <1>3. ASSUME NEW n \in 0 .. Len(refs) - 1, n \in I
        PROVE  n + 1 \in I
    <2>1. n \in 0 .. Len(refs) /\ n + 1 \in 1 .. Len(refs) /\ (n + 1) - 1 = n
          /\ n + 1 \in 0 .. Len(refs)
      OBVIOUS
    <2>2. after[n + 1] = UpdateReference(after[n], refs[n + 1])
      BY <1>1, <2>1 DEF UpdatesBy
    <2>3. after[n] \in ObjectsOn(Obj, Piece)
      BY <1>0, <1>1, <2>1, UpdatedTyped
    <2>4. DoorsEnd(after[n + 1])
      BY <1>3, <2>2, <2>3, ReferenceEnds
    <2> QED
      BY <2>1, <2>4
  <1> HIDE DEF I
  <1>4. 0 .. Len(refs) \subseteq I
    BY <1>2, <1>3, UpTo
  <1>5. DoorsEnd(after[Len(refs)])
    BY <1>4 DEF I
  <1> QED
    BY <1>1, <1>5 DEF UpdatesBy

\* After an update within the bounds every object is as it should be.
LEMMA UpdateTyped ==
    ASSUME NEW before, ObjsAre(before),
           NEW refs, Len(refs) \in Nat, NEW after, after = UpdateAll(before, refs),
           \A x \in Obj : before[x] # None => Bounded(after[x])
    PROVE  ObjsAre(after) /\ SlotsStay(before, after)
  <1>0. NoneIsApart(Piece) /\ before \in ObjectsOn(Obj, Piece)
        /\ \A x \in Obj : before[x] # None => IsObj(x, before[x])
    BY Assumed DEF ObjsAre
  <1>1. after \in ObjectsOn(Obj, Piece) /\ Keeps(before, after, Obj)
    BY <1>0, UpdateAllKeeps
  <1>2. DoorsEnd(after)
    <2>1. DoorsEnd(before)
      BY <1>0, KindIs DEF DoorsEnd, IsObj, DoorIs, EndsOK
    <2> QED
      BY <1>0, <2>1, UpdateEnds
  <1>3. ASSUME NEW x \in Obj, after[x] # None
        PROVE  before[x] # None /\ IsObj(x, after[x]) /\ SlotsKept(before[x], after[x])
    <2>1. /\ before[x] # None /\ after[x].kind = before[x].kind /\ OnlyClears(before[x], after[x])
          /\ IsObj(x, before[x]) /\ Bounded(after[x])
      BY <1>0, <1>1, <1>3 DEF Keeps
    <2>2. after[x] \in Objects(x, Piece) /\ after[x].kind = KindOf(x)
      BY <1>1, <1>3, <2>1 DEF ObjectsOn, IsObj
    <2>3. CASE after[x].kind # "Door"
      BY <2>1, <2>2, <2>3, BoundedIs, ClearsKeep DEF IsObj
    <2>4. CASE after[x].kind = "Door"
      <3>1. /\ x \in Doors /\ before[x] \in DoorsOf(x, Piece) /\ DoorIs(before[x])
            /\ after[x] \in DoorsOf(x, Piece)
        BY <2>1, <2>2, <2>4, Kinds, ObjectKinds DEF IsObj
      <3>2. after[x].dir.refer \in {before[x].dir.refer, None}
        <4>1. \A t, i, which :
                \/ after[x].dir.refer \in {before[x].dir.refer, None}
                \/ after[x].dir.refer = which /\ t = "ProfileLine"
          BY <2>1, <3>1, DoorRefers
        <4> QED
          BY <4>1
      <3>3. EndsOK(after[x].dir)
        BY <1>2, <1>3, <2>4 DEF DoorsEnd
      <3>4. DoorIs(after[x])
        BY <3>1, <3>2, <3>3 DEF DoorIs, EndsOK
      <3> QED
        BY <2>1, <2>2, <3>1, <3>4, IsObjOf, ClearsKeep
    <2> QED
      BY <2>3, <2>4
  <1> QED
    BY <1>1, <1>3, Zenon DEF ObjsAre, SlotsStay

-----------------------------------------------------------------------------
(* Type correctness *)

\* What an object refers to is finite.
LEMMA RefsFinite ==
    ASSUME NEW x \in Obj, NEW obj, IsObj(x, obj)
    PROVE  IsFiniteSet(RefsOf(obj))
  <1>1. \E n \in Nat : DOMAIN GetRefs(obj) = 1 .. n
    <2>1. CASE obj.kind = "Wall" /\ obj \in WallsOf(x, Piece)
      <3>1. GetRefs(obj) = W!GetRefs(obj)
        BY <2>1, OfWall
      <3>2. AreWallRefs(GetRefs(obj), obj, x)
        BY <2>1, <3>1, WallRefs
      <3> QED
        BY <3>2 DEF AreWallRefs
    <2>2. CASE obj.kind = "Door" /\ obj \in DoorsOf(x, Piece)
      <3>1. GetRefs(obj) = D!GetRefs(obj)
        BY <2>2, OfDoor
      <3>2. AreDoorRefs(GetRefs(obj), obj, x)
        BY <2>2, <3>1, DoorRefs
      <3> QED
        BY <3>2 DEF AreDoorRefs
    <2>3. CASE obj.kind = "VisibilityGroup" /\ obj \in GroupsOf(x, Piece)
      <3>1. GetRefs(obj) = G!GetRefs(obj)
        BY <2>3, OfGroup
      <3> QED
        BY <2>3, <3>1, GroupRefs
    <2> QED
      BY <2>1, <2>2, <2>3, KindIs, Zenon
  <1>2. PICK n \in Nat : DOMAIN GetRefs(obj) = 1 .. n
    BY <1>1
  <1> DEFINE refs == GetRefs(obj)
  <1>3. IsFiniteSet(DOMAIN refs)
    BY <1>2, FS_Interval
  <1>4. IsFiniteSet({refs[i] : i \in DOMAIN refs})
    BY <1>3, ImageIsFinite
  <1>5. RefsOf(obj) = {refs[i] : i \in DOMAIN refs} \ {None}
    BY Zenon DEF RefsOf, Range
  <1> HIDE DEF refs
  <1> QED
    BY <1>4, <1>5, FS_Difference

\* All references that are held are of objects that are there, and finite.
LEMMA AllRefsAre ==
    ASSUME ObjsOK
    PROVE  /\ AllRefs \in SUBSET [owner : Piece, other : Piece]
           /\ IsFiniteSet(AllRefs)
           /\ \A ref \in AllRefs : ref.owner.id \in Held /\ IsRefOf(ref, ref.owner.id)
  <1>1. ASSUME NEW ref \in AllRefs
        PROVE  /\ ref.owner.id \in Held /\ IsRefOf(ref, ref.owner.id)
               /\ ref \in [owner : Piece, other : Piece]
    <2>1. PICK x \in Held : ref \in RefsOf(objs[x])
      BY <1>1, Zenon DEF AllRefs
    <2>2. x \in Obj /\ IsObj(x, objs[x])
      BY <2>1 DEF Held, ObjsOK, ObjsAre
    <2>3. IsRefOf(ref, x)
      BY <2>1, <2>2, RefsAre
    <2> QED
      BY <2>1, <2>3 DEF IsRefOf, Reference
  <1>2. IsFiniteSet(AllRefs)
    <2> DEFINE parts == [x \in Held |-> RefsOf(objs[x])]
               all == {parts[x] : x \in Held}
    <2>1. IsFiniteSet(Held)
      BY Assumed, FS_Subset DEF Held
    <2>2. IsFiniteSet(all)
      BY <2>1, ImageIsFinite
    <2>3. \A s \in all : IsFiniteSet(s)
      <3>1. \A x \in Held : IsFiniteSet(RefsOf(objs[x]))
        BY RefsFinite DEF Held, ObjsOK, ObjsAre
      <3> QED
        BY <3>1, Zenon
    <2>4. AllRefs = UNION all
      BY Zenon DEF AllRefs
    <2> HIDE DEF all
    <2> QED
      BY <2>2, <2>3, <2>4, FS_UNION
  <1> QED
    BY <1>1, <1>2

\* One object takes the place of another with its slots.
LEMMA Replaced ==
    ASSUME NEW before, ObjsAre(before), NEW x \in Obj, NEW obj, IsObj(x, obj),
           SlotsKept(before[x], obj), NEW after, after = [before EXCEPT ![x] = obj]
    PROVE  ObjsAre(after) /\ SlotsStay(before, after)
  <1>1. obj \in Objects(x, Piece)
    BY DEF IsObj
  <1>2. /\ before \in [Obj -> (UNION {Objects(y, Piece) : y \in Obj}) \cup {None}]
        /\ \A y \in Obj : before[y] = None \/ before[y] \in Objects(y, Piece)
        /\ \A y \in Obj : before[y] # None => IsObj(y, before[y])
    BY DEF ObjsAre, ObjectsOn
  <1>3. after[x] = obj /\ \A y \in Obj \ {x} : after[y] = before[y]
    BY <1>2
  <1>4. obj \in UNION {Objects(y, Piece) : y \in Obj}
    BY <1>1, Zenon
  <1>5. after \in [Obj -> (UNION {Objects(y, Piece) : y \in Obj}) \cup {None}]
    BY <1>2, <1>4
  <1>6. after \in ObjectsOn(Obj, Piece)
    BY <1>1, <1>2, <1>3, <1>5, Zenon DEF ObjectsOn
  <1>7. ObjsAre(after)
    BY <1>2, <1>3, <1>6 DEF ObjsAre
  <1>8. \A y \in Obj : SlotsKept(before[y], before[y])
    BY Zenon DEF SlotsKept
  <1> QED
    BY <1>3, <1>7, <1>8 DEF SlotsStay

\* An object is deleted.
LEMMA Deleted ==
    ASSUME NEW before, ObjsAre(before), NEW x \in Obj,
           NEW after, after = [before EXCEPT ![x] = None]
    PROVE  ObjsAre(after) /\ SlotsStay(before, after)
  <1>1. /\ before \in [Obj -> (UNION {Objects(y, Piece) : y \in Obj}) \cup {None}]
        /\ \A y \in Obj : before[y] = None \/ before[y] \in Objects(y, Piece)
        /\ \A y \in Obj : before[y] # None => IsObj(y, before[y])
    BY DEF ObjsAre, ObjectsOn
  <1>2. after[x] = None /\ \A y \in Obj \ {x} : after[y] = before[y]
    BY <1>1
  <1>3. after \in [Obj -> (UNION {Objects(y, Piece) : y \in Obj}) \cup {None}]
    BY <1>1
  <1>4. after \in ObjectsOn(Obj, Piece)
    BY <1>1, <1>2, <1>3, Zenon DEF ObjectsOn
  <1>5. ObjsAre(after)
    BY <1>1, <1>2, <1>4 DEF ObjsAre
  <1>6. \A y \in Obj : SlotsKept(before[y], before[y])
    BY Zenon DEF SlotsKept
  <1> QED
    BY <1>2, <1>5, <1>6 DEF SlotsStay

\* Objects that stay as they are.
LEMMA Unchanged ==
    ASSUME ObjsOK, UNCHANGED vars
    PROVE  ObjsOK' /\ SlotsStay(objs, objs')
  <1>1. \A y \in Obj : objs[y] # None => SlotsKept(objs[y], objs[y])
    BY Zenon DEF SlotsKept
  <1> QED
    BY <1>1 DEF ObjsOK, ObjsAre, SlotsStay, vars

\* Objects are moved.
LEMMA MovesKeep ==
    ASSUME ObjsOK, NEW S \in SUBSET Held, NEW delta \in Delta, MoveObjects(S, delta)
    PROVE  ObjsOK' /\ SlotsStay(objs, objs')
  <1>1. /\ objs \in [Obj -> (UNION {Objects(y, Piece) : y \in Obj}) \cup {None}]
        /\ \A y \in Obj : objs[y] = None \/ objs[y] \in Objects(y, Piece)
        /\ \A y \in Obj : objs[y] # None => IsObj(y, objs[y])
    BY DEF ObjsOK, ObjsAre, ObjectsOn
  <1>2. /\ objs' = [x \in Obj |-> IF x \in S THEN MoveObj(objs[x], delta) ELSE objs[x]]
        /\ \A x \in S : Bounded(objs'[x])
    BY DEF MoveObjects
  <1>3. ASSUME NEW x \in S
        PROVE  IsObj(x, objs'[x]) /\ SlotsKept(objs[x], objs'[x])
    <2>1. x \in Obj /\ IsObj(x, objs[x])
      BY <1>1 DEF Held
    <2>2. objs'[x] = MoveObj(objs[x], delta) /\ Bounded(objs'[x])
      BY <1>2, <2>1
    <2> QED
      BY <2>1, <2>2, MoveIs
  <1>4. \A x \in Obj \ S : objs'[x] = objs[x]
    BY <1>2
  <1>5. \A x \in Obj : objs'[x] # None => IsObj(x, objs'[x])
    BY <1>1, <1>3, <1>4
  <1>6. objs' \in ObjectsOn(Obj, Piece)
    <2>1. \A x \in Obj : objs'[x] = None \/ objs'[x] \in Objects(x, Piece)
      BY <1>5 DEF IsObj
    <2>2. \A x \in Obj : objs'[x] \in (UNION {Objects(y, Piece) : y \in Obj}) \cup {None}
      BY <2>1, Zenon
    <2>3. objs' \in [Obj -> (UNION {Objects(y, Piece) : y \in Obj}) \cup {None}]
      BY <1>2, <2>2
    <2> QED
      BY <2>1, <2>3, Zenon DEF ObjectsOn
  <1>7. \A x \in Obj : SlotsKept(objs[x], objs[x])
    BY Zenon DEF SlotsKept
  <1> QED
    BY <1>3, <1>4, <1>5, <1>6, <1>7 DEF ObjsOK, ObjsAre, SlotsStay

\* An object is snapped.
SnapStep(x, y, t, guess, after) ==
    /\ objs' = [objs EXCEPT ![x] = after]
    /\ after # None /\ after = SnapToRef(objs[x], objs[y], t, guess)
    /\ IsObj(x, after) /\ SlotsKept(objs[x], after)
    /\ \E found, i : SnapsTo(objs[x], objs[y], x, y, t, guess, after, found, i)
    /\ last' = [op |-> "snap", refs |-> NewRefs(objs[x], after)]

\* A call that snaps an object keeps the objects correct and their slots.
LEMMA SnapKeeps ==
    ASSUME ObjsOK, NEW x \in Held, NEW y \in Held, NEW t \in RefType, NEW guess \in Guesses,
           Snap(x, y, t, guess)
    PROVE  /\ ObjsOK' /\ SlotsStay(objs, objs')
           /\ \E after : SnapStep(x, y, t, guess, after)
  <1>1. /\ x \in Obj /\ y \in Obj /\ IsObj(x, objs[x]) /\ IsObj(y, objs[y])
        /\ guess \in Int
    BY Assumed DEF ObjsOK, ObjsAre, Held
  <1>2. PICK after \in {SnapToRef(objs[x], objs[y], t, guess)} \ {None} :
            /\ Bounded(after) /\ objs' = [objs EXCEPT ![x] = after]
            /\ Return("snap", NewRefs(objs[x], after))
    BY DEF Snap
  <1>3. /\ IsObj(x, after) /\ SlotsKept(objs[x], after)
        /\ \E found, i : SnapsTo(objs[x], objs[y], x, y, t, guess, after, found, i)
    BY <1>1, <1>2, SnapsIs
  <1>4. ObjsOK' /\ SlotsStay(objs, objs')
    <2>1. ObjsAre(objs)
      BY DEF ObjsOK
    <2>2. ObjsAre(objs') /\ SlotsStay(objs, objs')
      BY <1>1, <1>2, <1>3, <2>1, Replaced
    <2> QED
      BY <2>2 DEF ObjsOK
  <1>5. SnapStep(x, y, t, guess, after)
    BY <1>2, <1>3, Zenon DEF SnapStep, Return
  <1> QED
    BY <1>4, <1>5

\* Two objects are joined: the second snaps to the first, the first to what the
\* second is then.
JoinStep(x, y, tx, ty, guess, first, second) ==
    /\ objs' = [objs EXCEPT ![x] = first, ![y] = second]
    /\ second # None /\ second = SnapToRef(objs[y], objs[x], ty, guess)
    /\ first # None /\ first = SnapToRef(objs[x], second, tx, guess)
    /\ IsObj(x, first) /\ IsObj(y, second)
    /\ last' = [op |-> IF BetweenEnds(objs[x], objs[y], tx, ty, guess) THEN "join_ends" ELSE "join",
                refs |-> NewRefs(objs[x], first) \o NewRefs(objs[y], second)]

\* A call that joins two objects keeps the objects correct and their slots.
LEMMA JoinKeeps ==
    ASSUME ObjsOK, NEW x \in Held, NEW y \in Held, x # y,
           NEW tx \in RefType, NEW ty \in RefType, NEW guess \in Guesses,
           Join(x, y, tx, ty, guess)
    PROVE  /\ ObjsOK' /\ SlotsStay(objs, objs')
           /\ \E first, second : JoinStep(x, y, tx, ty, guess, first, second)
  <1>1. /\ x \in Obj /\ y \in Obj /\ IsObj(x, objs[x]) /\ IsObj(y, objs[y])
        /\ guess \in Int
    BY Assumed DEF ObjsOK, ObjsAre, Held
  <1>2. PICK after \in {JoinRefs(objs[x], objs[y], tx, ty, guess)} \ {None} :
            /\ Bounded(after[1]) /\ Bounded(after[2])
            /\ objs' = [objs EXCEPT ![x] = after[1], ![y] = after[2]]
            /\ Return(IF BetweenEnds(objs[x], objs[y], tx, ty, guess) THEN "join_ends" ELSE "join",
                      NewRefs(objs[x], after[1]) \o NewRefs(objs[y], after[2]))
    BY DEF Join
  <1> DEFINE second == SnapToRef(objs[y], objs[x], ty, guess)
             first == SnapToRef(objs[x], second, tx, guess)
  <1>3. /\ second # None /\ first # None
        /\ after = <<first, second>>
    BY <1>2 DEF JoinRefs
  <1> HIDE DEF second, first
  <1>4. after[1] = first /\ after[2] = second
    BY <1>3
  <1>5. IsObj(y, second) /\ SlotsKept(objs[y], second)
    BY <1>1, <1>2, <1>3, <1>4, SnapsIs DEF second
  <1>6. IsObj(x, first) /\ SlotsKept(objs[x], first)
    BY <1>1, <1>2, <1>3, <1>4, <1>5, SnapsIs DEF first
  <1>7. PICK middle : middle = [objs EXCEPT ![x] = first] /\ objs' = [middle EXCEPT ![y] = second]
    BY <1>2, <1>4
  <1>8. ObjsOK' /\ SlotsStay(objs, objs')
    <2>1. ObjsAre(objs)
      BY DEF ObjsOK
    <2>2. ObjsAre(middle)
      BY <1>1, <1>6, <1>7, <2>1, Replaced
    <2>3. DOMAIN objs = Obj /\ DOMAIN middle = Obj
      BY <1>7, <2>1 DEF ObjsAre, ObjectsOn
    <2>4. /\ middle[x] = first /\ \A z \in Obj \ {x} : middle[z] = objs[z]
          /\ objs'[y] = second /\ \A z \in Obj \ {y} : objs'[z] = middle[z]
      BY <1>1, <1>7, <2>3
    <2>5. SlotsKept(middle[y], second)
      BY <1>1, <1>5, <2>4
    <2>6. ObjsAre(objs')
      BY <1>1, <1>5, <1>7, <2>2, <2>5, Replaced
    <2>7. \A z \in Obj : SlotsKept(objs[z], objs[z])
      BY Zenon DEF SlotsKept
    <2>8. SlotsStay(objs, objs')
      BY <1>1, <1>5, <1>6, <2>4, <2>7 DEF SlotsStay
    <2> QED
      BY <2>6, <2>8 DEF ObjsOK
  <1>9. JoinStep(x, y, tx, ty, guess, first, second)
    <2>1. objs' = [objs EXCEPT ![x] = first, ![y] = second]
      BY <1>2, <1>4
    <2> QED
      BY <1>2, <1>3, <1>4, <1>5, <1>6, <2>1, Zenon DEF JoinStep, Return, first, second
  <1> QED
    BY <1>8, <1>9

\* What a search from a piece finds.
LEMMA FoundIs ==
    ASSUME ObjsOK, NEW r \in {ref.other : ref \in AllRefs}, NEW refs \in GetAllDeps(AllRefs, <<r>>)
    PROVE  /\ refs \in Seq(AllRefs) /\ Len(refs) \in Nat
           /\ OwnersApart(refs)
  <1>1. AllRefs \in SUBSET [owner : Piece, other : Piece] /\ IsFiniteSet(AllRefs)
    BY AllRefsAre
  <1>2. r \in Piece
    BY <1>1
  <1>3. <<r>> \in Seq(Piece) /\ Len(<<r>>) = 1
    BY <1>2
  <1>4. refs \in Seq(AllRefs) /\ Len(refs) \in Nat
    BY <1>1, <1>3, GetAllDepsIs
  <1>5. OwnersApart(refs)
    BY <1>1, <1>3, GetAllDepsIs
  <1> QED
    BY <1>4, <1>5

\* Objects are updated from a piece.
LEMMA UpdateKeeps ==
    ASSUME ObjsOK, NEW r \in {ref.other : ref \in AllRefs}, UpdateFrom(r)
    PROVE  /\ ObjsOK' /\ SlotsStay(objs, objs')
           /\ \E refs \in GetAllDeps(AllRefs, <<r>>) :
                 /\ objs' = UpdateAll(objs, refs)
                 /\ last' = [op |-> "update", refs |-> refs]
  <1>1. PICK refs \in GetAllDeps(AllRefs, <<r>>) :
            /\ objs' = UpdateAll(objs, refs)
            /\ \A x \in Held : Bounded(objs'[x])
            /\ Return("update", refs)
    BY DEF UpdateFrom
  <1>2. Len(refs) \in Nat
    BY FoundIs
  <1>3. \A x \in Obj : objs[x] # None => Bounded(objs'[x])
    BY <1>1 DEF Held
  <1>4. ObjsAre(objs)
    BY DEF ObjsOK
  <1>5. ObjsAre(objs') /\ SlotsStay(objs, objs')
    BY <1>1, <1>2, <1>3, <1>4, UpdateTyped
  <1>6. last' = [op |-> "update", refs |-> refs]
    BY <1>1 DEF Return
  <1> QED
    BY <1>1, <1>5, <1>6 DEF ObjsOK

\* The other calls: a reference is cleared, an object deleted, a group changed.
LEMMA ClearKeeps ==
    ASSUME ObjsOK, NEW ref \in AllRefs, ClearRef(ref)
    PROVE  ObjsOK' /\ SlotsStay(objs, objs')
  <1> DEFINE x == ref.owner.id
             after == DeleteRef(objs[x], ref.owner.ref_type, ref.owner.index)
  <1>1. x \in Obj /\ IsObj(x, objs[x]) /\ ObjsAre(objs)
    BY AllRefsAre DEF Held, ObjsOK, ObjsAre
  <1>2. objs' = [objs EXCEPT ![x] = after]
    BY DEF ClearRef
  <1>3. IsObj(x, after) /\ SlotsKept(objs[x], after)
    BY <1>1, ClearIs
  <1> HIDE DEF x, after
  <1>4. ObjsAre(objs') /\ SlotsStay(objs, objs')
    BY <1>1, <1>2, <1>3, Replaced
  <1> QED
    BY <1>4 DEF ObjsOK

\* The same of objects that are added to a group.
LEMMA AddKeeps ==
    ASSUME ObjsOK, NEW g \in Groups \cap Held, NEW S \in Selections, S \subseteq Held, AddToGroup(g, S)
    PROVE  ObjsOK' /\ SlotsStay(objs, objs')
  <1> DEFINE members == InOrder(S)
             held == [n \in DOMAIN members |-> objs[members[n]]]
  <1>1. PICK after \in {AddObjsToVisibilityGroup(objs[g], held)} \ {None} :
            Bounded(after) /\ objs' = [objs EXCEPT ![g] = after]
    BY DEF AddToGroup
  <1>2. g \in Obj /\ IsObj(g, objs[g]) /\ ObjsAre(objs)
    BY DEF Held, ObjsOK, ObjsAre
  <1>3. S \subseteq Obj /\ IsFiniteSet(S)
    BY Assumed, FS_Subset DEF Held
  <1>4. members \in Seq(S) /\ members \in [1 .. Cardinality(S) -> S] /\ Cardinality(S) \in Nat
    BY <1>3, InOrderIs
  <1> HIDE DEF members
  <1>5. held \in [1 .. Cardinality(S) -> {objs[x] : x \in S}]
    BY <1>4
  <1>6. Len(held) \in Nat /\ Len(held) = Cardinality(S)
    BY <1>4, <1>5, IsSeq
  <1>7. ASSUME NEW n \in 1 .. Len(held)
        PROVE  held[n].id \in Obj
    <2>1. members[n] \in S /\ held[n] = objs[members[n]]
      BY <1>4, <1>6, <1>7
    <2>2. members[n] \in Obj /\ objs[members[n]] \in Objects(members[n], Piece)
      BY <1>2, <1>3, <2>1 DEF Held, ObjsAre, IsObj
    <2>3. objs[members[n]].id = members[n]
      BY <2>2 DEF Objects, WallsOf, DoorsOf, GroupsOf, SheetsOf, ViewportsOf
    <2> QED
      BY <2>1, <2>2, <2>3
  <1> HIDE DEF held
  <1>8. IsObj(g, after) /\ SlotsKept(objs[g], after)
    BY <1>1, <1>2, <1>6, <1>7, AddedIs
  <1>9. ObjsAre(objs') /\ SlotsStay(objs, objs')
    BY <1>1, <1>2, <1>8, Replaced
  <1> QED
    BY <1>9 DEF ObjsOK

\* The same of objects that are removed from a group.
LEMMA RemoveKeeps ==
    ASSUME ObjsOK, NEW g \in Groups \cap Held, NEW S \in Selections, RemoveFromGroup(g, S)
    PROVE  ObjsOK' /\ SlotsStay(objs, objs')
  <1>1. PICK after \in {RemoveObjsFromVisibilityGroup(objs[g], S)} \ {None} :
            objs' = [objs EXCEPT ![g] = after]
    BY DEF RemoveFromGroup
  <1>2. g \in Obj /\ IsObj(g, objs[g]) /\ ObjsAre(objs)
    BY DEF Held, ObjsOK, ObjsAre
  <1>3. IsObj(g, after) /\ SlotsKept(objs[g], after)
    BY <1>1, <1>2, RemovedIs
  <1>4. ObjsAre(objs') /\ SlotsStay(objs, objs')
    BY <1>1, <1>2, <1>3, Replaced
  <1> QED
    BY <1>4 DEF ObjsOK

\* The same of an object that is deleted.
LEMMA DeleteKeeps ==
    ASSUME ObjsOK, NEW x \in Held, Delete(x)
    PROVE  ObjsOK' /\ SlotsStay(objs, objs')
  <1>1. x \in Obj /\ ObjsAre(objs) /\ objs' = [objs EXCEPT ![x] = None]
    BY DEF Held, ObjsOK, Delete
  <1>2. ObjsAre(objs') /\ SlotsStay(objs, objs')
    BY <1>1, Deleted
  <1> QED
    BY <1>2 DEF ObjsOK

\* Every call keeps objects as they should be and their slots.
LEMMA NextKeeps ==
    ASSUME ObjsOK, [Next]_vars
    PROVE  ObjsOK' /\ SlotsStay(objs, objs')
  <1>1. ASSUME NEW S \in Selections \cap SUBSET Held, NEW delta \in Delta, MoveObjects(S, delta)
        PROVE  ObjsOK' /\ SlotsStay(objs, objs')
    BY <1>1, MovesKeep
  <1>2. ASSUME NEW x \in Held, NEW y \in Held, NEW guess \in Guesses, NEW t \in RefType,
               Snap(x, y, t, guess)
        PROVE  ObjsOK' /\ SlotsStay(objs, objs')
    BY <1>2, SnapKeeps
  <1>3. ASSUME NEW x \in Held, NEW y \in Held, NEW guess \in Guesses, x # y, NEW t \in JoinTypes,
               Join(x, y, t[1], t[2], guess)
        PROVE  ObjsOK' /\ SlotsStay(objs, objs')
    <2>1. t[1] \in RefType /\ t[2] \in RefType
      BY Assumed
    <2> QED
      BY <1>3, <2>1, JoinKeeps
  <1>4. ASSUME NEW ref \in AllRefs, ClearRef(ref)
        PROVE  ObjsOK' /\ SlotsStay(objs, objs')
    BY <1>4, ClearKeeps
  <1>5. ASSUME NEW r \in {ref.other : ref \in AllRefs}, UpdateFrom(r)
        PROVE  ObjsOK' /\ SlotsStay(objs, objs')
    BY <1>5, UpdateKeeps
  <1>6. ASSUME NEW x \in Held, Delete(x)
        PROVE  ObjsOK' /\ SlotsStay(objs, objs')
    BY <1>6, DeleteKeeps
  <1>7. ASSUME NEW g \in Groups \cap Held, NEW S \in Selections,
               (S \subseteq Held /\ AddToGroup(g, S)) \/ RemoveFromGroup(g, S)
        PROVE  ObjsOK' /\ SlotsStay(objs, objs')
    BY <1>7, AddKeeps, RemoveKeeps
  <1>8. CASE UNCHANGED vars
    BY <1>8, Unchanged
  <1> QED
    BY <1>1, <1>2, <1>3, <1>4, <1>5, <1>6, <1>7, <1>8, Zenon DEF Next

\* The objects that are created.
LEMMA NewWall ==
    ASSUME NEW x \in Walls
    PROVE  IsObj(x, W!New(x, Segment(x)[1], Segment(x)[2]))
  <1>1. /\ Segment(x)[1] \in Int /\ Segment(x)[2] \in Int /\ MaxSlots \in Nat /\ x \in Obj
    BY EditingAssumption DEF EditingAssumption, Obj
  <1>2. \A p \in Int : W!Updatable(W!Point(p)) \in [refer : Slot(Piece), info : PointResults]
    BY DEF W!Updatable, W!Point, Slot, PointResults, Number
  <1> DEFINE wall == W!New(x, Segment(x)[1], Segment(x)[2])
             ends == <<W!Updatable(W!Point(Segment(x)[1])), W!Updatable(W!Point(Segment(x)[2]))>>
  <1>3. ends \in [1 .. 2 -> [refer : Slot(Piece), info : PointResults]]
    BY <1>1, <1>2
  <1>4. \A i \in 1 .. 2 : ends[i].info.at \in Int
    BY <1>1 DEF W!Updatable, W!Point
  <1>5. << >> \in Seq([refer : Slot(Piece), info : PlaneResults] \cup {None}) /\ Len(<< >>) = 0
    OBVIOUS
  <1> HIDE DEF ends
  <1>6. wall = [kind |-> "Wall", id |-> x, pts |-> ends, openings |-> << >>]
    BY DEF W!New, ends
  <1>7. wall \in WallsOf(x, Piece)
    BY <1>3, <1>5, <1>6 DEF WallsOf
  <1>8. wall.kind = "Wall" /\ wall.pts = ends /\ wall.openings = << >>
    BY <1>6
  <1>9. WallIs(wall)
    BY <1>1, <1>4, <1>5, <1>8 DEF WallIs
  <1>10. wall.kind = KindOf(x)
    BY <1>1, <1>8, Kinds
  <1> HIDE DEF wall
  <1>11. IsObj(x, wall)
    BY <1>1, <1>7, <1>9, <1>10, IsObjOf
  <1> QED
    BY <1>11 DEF wall

\* A new door has its own length and refers to nothing.
LEMMA NewDoor ==
    ASSUME NEW x \in Doors
    PROVE  IsObj(x, D!New(x, Segment(x)[1], Segment(x)[2]))
  <1>1. /\ Segment(x)[1] \in Int /\ Segment(x)[2] \in Int /\ x \in Obj /\ NaN \notin Int
    BY EditingAssumption DEF EditingAssumption, Obj
  <1> DEFINE door == D!New(x, Segment(x)[1], Segment(x)[2])
             dir == D!NewLineSeg(Segment(x)[1], Segment(x)[2])
  <1>2. dir = [refer |-> None, line |-> D!Line(Segment(x)[1], Segment(x)[2]),
               length |-> D!Abs(Segment(x)[2] - Segment(x)[1]), interp |-> <<0, 1>>]
    BY DEF D!NewLineSeg
  <1>3. D!Line(Segment(x)[1], Segment(x)[2]) \in LineResults
    BY <1>1 DEF D!Line, LineResults, Number
  <1>4. D!Abs(Segment(x)[2] - Segment(x)[1]) \in Nat
    BY <1>1 DEF D!Abs
  <1>5. <<0, 1>> \in Fractions
    BY DEF Fractions
  <1>6. dir \in Segments(Piece) /\ dir.refer = None
        /\ dir.line = D!Line(Segment(x)[1], Segment(x)[2])
    BY <1>2, <1>3, <1>4, <1>5 DEF Segments, Slot
  <1> HIDE DEF dir
  <1>7. door = [kind |-> "Door", id |-> x, dir |-> dir]
    BY DEF D!New, dir
  <1>8. door \in DoorsOf(x, Piece) /\ door.kind = "Door" /\ door.dir = dir
    BY <1>6, <1>7 DEF DoorsOf
  <1>9. DoorIs(door)
    BY <1>1, <1>6, <1>8 DEF DoorIs, D!Line
  <1>10. door.kind = KindOf(x)
    BY <1>1, <1>8, Kinds
  <1> HIDE DEF door
  <1>11. IsObj(x, door)
    BY <1>1, <1>8, <1>9, <1>10, IsObjOf
  <1> QED
    BY <1>11 DEF door

\* A new group has no children.
LEMMA NewGroup ==
    ASSUME NEW x \in Groups
    PROVE  IsObj(x, G!New(x))
  <1> DEFINE group == G!New(x)
  <1>1. group = [kind |-> "VisibilityGroup", id |-> x, children |-> << >>]
    BY DEF G!New
  <1>2. << >> \in Seq(Slot(Piece)) /\ Len(<< >>) = 0 /\ MaxSlots \in Nat /\ x \in Obj
    BY Assumed DEF Obj
  <1>3. group \in GroupsOf(x, Piece) /\ group.kind = "VisibilityGroup" /\ group.children = << >>
    BY <1>1, <1>2 DEF GroupsOf
  <1>4. GroupIs(group) /\ group.kind = KindOf(x)
    BY <1>2, <1>3, Kinds DEF GroupIs
  <1> HIDE DEF group
  <1>5. IsObj(x, group)
    BY <1>2, <1>3, <1>4, IsObjOf
  <1> QED
    BY <1>5 DEF group

\* The objects at first.
LEMMA InitObjs ==
    ASSUME Init
    PROVE  ObjsOK
  <1>1. ASSUME NEW x \in Obj
        PROVE  IsObj(x, objs[x])
    <2>1. /\ x \in Walls => objs[x] = W!New(x, Segment(x)[1], Segment(x)[2])
          /\ x \in Doors => objs[x] = D!New(x, Segment(x)[1], Segment(x)[2])
          /\ x \in Groups => objs[x] = G!New(x)
      BY Assumed DEF Init
    <2> QED
      BY <2>1, NewWall, NewDoor, NewGroup DEF Obj
  <1>2. \A x \in Obj : objs[x] \in Objects(x, Piece)
    BY <1>1 DEF IsObj
  <1>3. \A x \in Obj : objs[x] \in UNION {Objects(y, Piece) : y \in Obj}
    BY <1>2, Zenon
  <1> DEFINE new(x) == CASE x \in Walls  -> W!New(x, Segment(x)[1], Segment(x)[2])
                         [] x \in Doors  -> D!New(x, Segment(x)[1], Segment(x)[2])
                         [] x \in Groups -> G!New(x)
  <1>4. objs = [x \in Obj |-> new(x)]
    BY Zenon DEF Init
  <1> HIDE DEF new
  <1>5. objs \in [Obj -> (UNION {Objects(y, Piece) : y \in Obj}) \cup {None}]
    BY <1>3, <1>4
  <1>6. objs \in ObjectsOn(Obj, Piece)
    BY <1>2, <1>5, Zenon DEF ObjectsOn
  <1> QED
    BY <1>1, <1>6 DEF ObjsOK, ObjsAre

\* Objects are as they should be after any calls.
THEOREM ObjectsCorrect == Spec => []ObjsOK
  <1>1. Init => ObjsOK
    BY InitObjs
  <1>2. ObjsOK /\ [Next]_vars => ObjsOK'
    BY NextKeeps
  <1> QED
    BY <1>1, <1>2, PTL DEF Spec

\* The type invariant is part of what holds of every object.
LEMMA ObjsTyped ==
    ASSUME ObjsOK
    PROVE  TypeOK
  <1>0. DOMAIN objs = Obj
    BY DEF ObjsOK, ObjsAre, ObjectsOn
  <1>1. ASSUME NEW x \in Held
        PROVE  x \in Obj /\ IsObj(x, objs[x])
    BY <1>1 DEF Held, ObjsOK, ObjsAre
  <1>2. ASSUME NEW x \in Held
        PROVE  /\ objs[x].id = x
               /\ objs[x].kind = (CASE x \in Walls -> "Wall" [] x \in Doors -> "Door"
                                    [] x \in Groups -> "VisibilityGroup")
    <2>1. x \in Obj /\ IsObj(x, objs[x])
      BY <1>1, <1>2
    <2>2. objs[x].id = x
      BY <2>1, KindIs DEF WallsOf, DoorsOf, GroupsOf
    <2>3. objs[x].kind = KindOf(x)
      BY <2>1 DEF IsObj
    <2> QED
      BY <2>1, <2>2, <2>3, Assumed DEF KindOf, Obj
  <1>3. ASSUME NEW x \in Held, NEW ref \in RefsOf(objs[x])
        PROVE  ref.owner.id = x /\ {ref.owner, ref.other} \subseteq Piece
    BY <1>1, <1>3, RefsAre DEF IsRefOf
  <1>4. ASSUME NEW x \in Held \cap Walls
        PROVE  /\ \A i \in 1 .. 2 : objs[x].pts[i].info \in [kind : {"Point"}, at : Int]
               /\ \A i \in DOMAIN objs[x].openings :
                     objs[x].openings[i] # None => objs[x].openings[i].info.kind = "Plane"
    <2>1. objs[x] \in WallsOf(x, Piece) /\ WallIs(objs[x])
      BY <1>1, <1>4, KindIs, Kinds DEF IsObj
    <2>2. ASSUME NEW i \in 1 .. 2
          PROVE  objs[x].pts[i].info \in [kind : {"Point"}, at : Int]
      <3>1. objs[x].pts[i].info \in PointResults
        BY <2>1, <2>2 DEF WallsOf
      <3> QED
        BY <2>1, <2>2, <3>1 DEF PointResults, WallIs
    <2>3. ASSUME NEW i \in DOMAIN objs[x].openings, objs[x].openings[i] # None
          PROVE  objs[x].openings[i].info.kind = "Plane"
      <3>1. objs[x].openings \in Seq([refer : Slot(Piece), info : PlaneResults] \cup {None})
        BY <2>1 DEF WallsOf
      <3>2. objs[x].openings[i] \in [refer : Slot(Piece), info : PlaneResults]
        BY <2>3, <3>1
      <3> QED
        BY <3>2 DEF PlaneResults
    <2> QED
      BY <2>2, <2>3
  <1>5. ASSUME NEW x \in Held \cap Doors
        PROVE  /\ objs[x].dir.interp[2] > 0
               /\ objs[x].dir.interp[1] \in 0 .. objs[x].dir.interp[2]
               /\ objs[x].dir.line.pt_1 = NaN => objs[x].dir.line.pt_2 = NaN
    <2>1. objs[x] \in DoorsOf(x, Piece) /\ DoorIs(objs[x])
      BY <1>1, <1>5, KindIs, Kinds DEF IsObj
    <2>2. objs[x].dir.interp \in Fractions
      BY <2>1 DEF DoorsOf, Segments
    <2> QED
      BY <2>1, <2>2 DEF DoorIs, Fractions
  <1> QED
    BY <1>0, <1>2, <1>3, <1>4, <1>5 DEF TypeOK

\* The type invariant of a caller of the operations library.
THEOREM TypeCorrect == Spec => []TypeOK
  <1>1. ObjsOK => TypeOK
    BY ObjsTyped
  <1> QED
    BY <1>1, ObjectsCorrect, PTL

\* No call points a slot elsewhere or moves a reference to another slot, which
\* is what get_ref_diffs (dependencies) relies on.
THEOREM SlotsFixed == Spec => SlotsNeverRepointed
  <1> DEFINE Kept ==
        \A x \in Held \cap Held' :
            LET before == GetRefs(objs[x])
                after == GetRefs(objs'[x])
            IN  \A i \in DOMAIN before :
                   /\ i \in DOMAIN after
                   /\ before[i] # None => after[i] \in {before[i], None}
  <1>1. SlotsStay(objs, objs') => Kept
    BY DEF SlotsStay, SlotsKept, Held
  <1>2. ObjsOK /\ [Next]_vars => [Kept]_vars
    BY <1>1, NextKeeps
  <1> HIDE DEF Kept
  <1>3. ObjsOK /\ [Next]_vars => ObjsOK'
    BY NextKeeps
  <1>4. Init => ObjsOK
    BY InitObjs
  <1>5. Init /\ [][Next]_vars => [][Kept]_vars
    BY <1>2, <1>3, <1>4, PTL
  <1> QED
    BY <1>5 DEF Spec, SlotsNeverRepointed, Kept

-----------------------------------------------------------------------------
(* What the last call did *)

\* What the calls are that a property is about.
LEMMA CallIs ==
    ASSUME Next
    PROVE  \/ last'.op \in {"move", "clear", "delete", "group", "ungroup"}
           \/ \E x \in Held, y \in Held, t \in RefType, guess \in Guesses :
                  x # y /\ Snap(x, y, t, guess)
           \/ \E x \in Held, y \in Held, t \in JoinTypes, guess \in Guesses :
                  x # y /\ Join(x, y, t[1], t[2], guess)
           \/ \E r \in {ref.other : ref \in AllRefs} : UpdateFrom(r)
  <1>1. ASSUME NEW S \in Selections \cap SUBSET Held, NEW delta \in Delta, MoveObjects(S, delta)
        PROVE  last'.op = "move"
    BY <1>1 DEF MoveObjects, Return
  <1>2. ASSUME NEW ref \in AllRefs, ClearRef(ref)
        PROVE  last'.op = "clear"
    BY <1>2 DEF ClearRef, Return
  <1>3. ASSUME NEW x \in Held, Delete(x)
        PROVE  last'.op = "delete"
    BY <1>3 DEF Delete, Return
  <1>4. ASSUME NEW g \in Groups \cap Held, NEW S \in Selections, AddToGroup(g, S)
        PROVE  last'.op = "group"
    <2> DEFINE all == {AddObjsToVisibilityGroup(objs[g],
                           [n \in DOMAIN InOrder(S) |-> objs[InOrder(S)[n]]])} \ {None}
    <2>1. \E after \in all : Return("group", NewRefs(objs[g], after))
      BY <1>4 DEF AddToGroup
    <2> QED
      BY <2>1 DEF Return
  <1>5. ASSUME NEW g \in Groups \cap Held, NEW S \in Selections, RemoveFromGroup(g, S)
        PROVE  last'.op = "ungroup"
    BY <1>5 DEF RemoveFromGroup, Return
  <1> QED
    BY <1>1, <1>2, <1>3, <1>4, <1>5, Zenon DEF Next

\* The call that a property of the last call is about.
LEMMA OpIs ==
    ASSUME Next
    PROVE  /\ last'.op = "snap" =>
                 \E x \in Held, y \in Held, t \in RefType, guess \in Guesses :
                     x # y /\ Snap(x, y, t, guess)
           /\ last'.op = "join_ends" =>
                 \E x \in Held, y \in Held, t \in JoinTypes, guess \in Guesses :
                     x # y /\ Join(x, y, t[1], t[2], guess)
           /\ last'.op = "update" =>
                 \E r \in {ref.other : ref \in AllRefs} : UpdateFrom(r)
  <1>1. \A x, y, t, guess : Snap(x, y, t, guess) => last'.op = "snap"
    BY DEF Snap, Return
  <1>2. \A x, y, t, t2, guess : Join(x, y, t, t2, guess) => last'.op \in {"join", "join_ends"}
    BY DEF Join, Return
  <1>3. \A r : UpdateFrom(r) => last'.op = "update"
    BY DEF UpdateFrom, Return
  <1> QED
    BY <1>1, <1>2, <1>3, CallIs

-----------------------------------------------------------------------------
(* Updates settle *)

\* Different pieces are different slots of one object or of two.
LEMMA PiecesApart ==
    ASSUME NEW p \in Piece, NEW q \in Piece, p # q
    PROVE  p.id # q.id \/ p.ref_type # q.ref_type \/ p.index # q.index
  BY DEF Piece

\* What was updated agrees with what it refers to.
LEMMA Settled ==
    ASSUME ObjsOK, NEW refs \in Seq(AllRefs), Len(refs) \in Nat, OwnersApart(refs),
           objs' = UpdateAll(objs, refs), NEW n \in 1 .. Len(refs),
           \A m \in n + 1 .. Len(refs) :
               refs[m].owner.id = refs[n].other.id => refs[m].other.id = refs[n].other.id
    PROVE  UpdateReference(objs', refs[n]) = objs'
  <1>1. objs \in ObjectsOn(Obj, Piece) /\ NoneIsApart(Piece)
    BY Assumed DEF ObjsOK, ObjsAre
  <1>2. \A m \in 1 .. Len(refs) : refs[m].owner \in Piece
    BY AllRefsAre DEF IsRefOf
  <1>3. ASSUME NEW m \in n + 1 .. Len(refs)
        PROVE  /\ ApartFrom(refs[m], refs[n])
               /\ refs[m].owner.id = refs[n].other.id => refs[m].other.id = refs[m].owner.id
    <2>1. m \in 1 .. Len(refs) /\ m # n
      OBVIOUS
    <2>2. refs[m].owner # refs[n].owner
      BY <2>1 DEF OwnersApart
    <2>3. ApartFrom(refs[m], refs[n])
      BY <1>2, <2>1, <2>2, PiecesApart DEF ApartFrom
    <2> QED
      BY <2>3
  <1> QED
    BY <1>1, <1>3, UpdateSettled

\* An update establishes what it promises.
LEMMA UpdateEstablishes ==
    ASSUME ObjsOK, NEW r \in {ref.other : ref \in AllRefs}, UpdateFrom(r)
    PROVE  UpdateSettles'
  <1>1. PICK refs \in GetAllDeps(AllRefs, <<r>>) :
            objs' = UpdateAll(objs, refs) /\ last' = [op |-> "update", refs |-> refs]
    BY UpdateKeeps
  <1>2. refs \in Seq(AllRefs) /\ Len(refs) \in Nat /\ OwnersApart(refs)
    BY FoundIs
  <1>3. last'.refs = refs /\ DOMAIN refs = 1 .. Len(refs)
    BY <1>1, <1>2
  <1>4. ASSUME NEW n \in 1 .. Len(refs), ~ IsOvertaken(n)'
        PROVE  UpdateReference(objs', refs[n]) = objs'
    <2>1. \A m \in n + 1 .. Len(refs) :
              refs[m].owner.id = refs[n].other.id => refs[m].other.id = refs[n].other.id
      BY <1>3, <1>4 DEF IsOvertaken
    <2> QED
      BY <1>1, <1>2, <2>1, Settled
  <1> QED
    BY <1>3, <1>4 DEF UpdateSettles

\* After an update everything that was updated agrees with what it refers to,
\* unless that was overtaken, for whatever objects and references there are and
\* in whatever order the search finds them.
THEOREM UpdatesSettle == Spec => []UpdateSettles
  <1>1. Init => UpdateSettles
    BY DEF Init, UpdateSettles
  <1>2. ASSUME ObjsOK, UpdateSettles, [Next]_vars
        PROVE  UpdateSettles'
    <2>1. CASE UNCHANGED vars
      BY <1>2, <2>1 DEF vars, UpdateSettles, IsOvertaken
    <2>2. CASE last'.op # "update"
      BY <2>2 DEF UpdateSettles
    <2>3. CASE \E r \in {ref.other : ref \in AllRefs} : UpdateFrom(r)
      BY <1>2, <2>3, UpdateEstablishes
    <2> QED
      BY <1>2, <2>1, <2>2, <2>3, OpIs
  <1> QED
    BY <1>1, <1>2, ObjectsCorrect, PTL DEF Spec

-----------------------------------------------------------------------------
(* A snapped object has the place of what it refers to *)

\* The references an object got are at most the one that was set, and that one
\* if it was not there.
LEMMA NewRefsAre ==
    ASSUME NEW before, NEW after, NEW ref, OnlySets(before, after, ref)
    PROVE  /\ \A n \in DOMAIN NewRefs(before, after) : NewRefs(before, after)[n] = ref
           /\ ref \in RefsOf(after) \ RefsOf(before) => NewRefs(before, after) = <<ref>>
  <1> DEFINE new == RefsOf(after) \ RefsOf(before)
  <1>1. new \subseteq {ref}
    <2>1. ASSUME NEW q \in new
          PROVE  q = ref
      <3>1. PICK i \in DOMAIN GetRefs(after) : q = GetRefs(after)[i] /\ q # None
        BY <2>1, Zenon DEF RefsOf, Range
      <3>2. \/ i \in DOMAIN GetRefs(before) /\ q = GetRefs(before)[i]
            \/ q = ref
        BY <3>1 DEF OnlySets
      <3>3. i \in DOMAIN GetRefs(before) /\ q = GetRefs(before)[i] => q \in RefsOf(before)
        BY <3>1, Zenon DEF RefsOf, Range
      <3> QED
        BY <2>1, <3>2, <3>3
    <2> QED
      BY <2>1
  <1> HIDE DEF new
  <1>2. IsFiniteSet(new)
    BY <1>1, FS_Singleton, FS_Subset
  <1>3. InOrder(new) \in [1 .. Cardinality(new) -> new]
    BY <1>2, InOrderIs
  <1>4. NewRefs(before, after) = InOrder(new)
    BY DEF NewRefs, new
  <1>5. ref \in new => InOrder(new) = <<ref>>
    <2>1. ref \in new => new = {ref}
      BY <1>1
    <2>2. Cardinality({ref}) = 1
      BY FS_Singleton
    <2> QED
      BY <1>3, <2>1, <2>2
  <1> QED
    BY <1>1, <1>3, <1>4, <1>5 DEF new

\* What a snapped object refers to is the result that was found, when the piece
\* of its index evaluates to it.
Names(ref, x, y, t, after, found, i) ==
    LET result == GetResultsForType(objs[y], t)[found]
    IN  /\ found \in NearResults(objs[y], t)
        /\ ref = Reference(RefID(x, t, i), RefID(y, t, found))
        /\ SetAssociatedResult(after, t, i, result) = after
        /\ i \in 1 .. (IF after.kind = "Wall" THEN Len(after.openings) + 2 ELSE 1)
        /\ GetResult(objs[y], t, found) = result =>
              GetRefResult(objs', ref.other) = result /\ UpdateReference(objs', ref) = objs'

\* Each reference a snap reports names the result that was found.
LEMMA SnapSettled ==
    ASSUME ObjsOK, NEW x \in Held, NEW y \in Held, x # y, NEW t \in RefType, NEW guess \in Guesses,
           NEW after, SnapStep(x, y, t, guess, after), NEW n \in DOMAIN last'.refs
    PROVE  \E found, i : Names(last'.refs[n], x, y, t, after, found, i)
  <1>1. PICK found, i : SnapsTo(objs[x], objs[y], x, y, t, guess, after, found, i)
    BY Zenon DEF SnapStep
  <1> DEFINE result == GetResultsForType(objs[y], t)[found]
             ref == Reference(RefID(x, t, i), RefID(y, t, found))
  <1>2. /\ found \in NearResults(objs[y], t)
        /\ SetAssociatedResult(after, t, i, result) = after
        /\ i \in 1 .. (IF after.kind = "Wall" THEN Len(after.openings) + 2 ELSE 1)
        /\ OnlySets(objs[x], after, ref)
    BY <1>1, Zenon DEF SnapsTo, Snapped
  <1> HIDE DEF result
  <1>3. /\ last'.refs = NewRefs(objs[x], after)
        /\ after # None /\ objs' = [objs EXCEPT ![x] = after]
    BY DEF SnapStep
  <1>4. last'.refs[n] = ref
    BY <1>2, <1>3, NewRefsAre
  <1>5. x \in Obj /\ y \in Obj /\ objs[y] # None /\ DOMAIN objs = Obj
    BY DEF ObjsOK, ObjsAre, ObjectsOn, Held
  <1>6. objs'[x] = after /\ objs'[y] = objs[y] /\ DOMAIN objs' = Obj
    BY <1>3, <1>5
  <1>7. /\ ref.owner.id = x /\ ref.owner.ref_type = t /\ ref.owner.index = i
        /\ ref.other.id = y /\ ref.other.ref_type = t /\ ref.other.index = found
    BY DEF Reference, RefID
  <1> HIDE DEF ref
  <1>8. ASSUME GetResult(objs[y], t, found) = result
        PROVE  GetRefResult(objs', ref.other) = result /\ UpdateReference(objs', ref) = objs'
    <2>1. GetRefResult(objs', ref.other) = result
      BY <1>5, <1>6, <1>7, <1>8 DEF GetRefResult
    <2>2. UpdateReference(objs', ref) =
              [objs' EXCEPT ![x] = SetAssociatedResult(objs'[x], t, i, result)]
      BY <1>3, <1>5, <1>6, <1>7, <2>1 DEF UpdateReference
    <2>3. [objs' EXCEPT ![x] = after] = objs'
      BY <1>3, <1>5, <1>6
    <2> QED
      BY <1>2, <1>6, <2>1, <2>2, <2>3
  <1> QED
    BY <1>2, <1>4, <1>8, Zenon DEF Names, result, ref

\* A snap establishes what it promises.
LEMMA SnapEstablishes ==
    ASSUME ObjsOK, NEW x \in Held, NEW y \in Held, x # y, NEW t \in RefType, NEW guess \in Guesses,
           Snap(x, y, t, guess)
    PROVE  SnapNamesResult'
  <1>1. PICK after : SnapStep(x, y, t, guess, after)
    BY SnapKeeps
  <1>2. ASSUME NEW n \in DOMAIN last'.refs
        PROVE  (HasGap(last.refs[n].other.id) \/ UpdateReference(objs, last.refs[n]) = objs)'
    <2>0. PICK found, i : Names(last'.refs[n], x, y, t, after, found, i)
      BY <1>1, SnapSettled
    <2>1. /\ found \in NearResults(objs[y], t)
          /\ last'.refs[n] = Reference(RefID(x, t, i), RefID(y, t, found))
          /\ GetResult(objs[y], t, found) = GetResultsForType(objs[y], t)[found] =>
                UpdateReference(objs', last'.refs[n]) = objs'
      BY <2>0, Zenon DEF Names
    <2>2. last'.refs[n].other.id = y
      BY <2>1 DEF Reference, RefID
    <2>3. y \in Obj /\ IsObj(y, objs[y]) /\ objs'[y] = objs[y]
      <3>1. x \in Obj /\ y \in Obj /\ IsObj(y, objs[y]) /\ DOMAIN objs = Obj
        BY DEF ObjsOK, ObjsAre, ObjectsOn, Held
      <3>2. objs' = [objs EXCEPT ![x] = after]
        BY <1>1 DEF SnapStep
      <3> QED
        BY <3>1, <3>2
    <2>4. CASE HasEmptied(objs[y])
      <3>1. y \in Walls
        BY <2>3, <2>4, Kinds DEF HasEmptied, IsObj
      <3>2. HasGap(y)'
        BY <2>3, <2>4, <3>1 DEF HasGap, HasEmptied
      <3> QED
        BY <2>2, <3>2
    <2>5. CASE ~ HasEmptied(objs[y])
      BY <2>1, <2>3, <2>5, NearIs
    <2> QED
      BY <2>4, <2>5
  <1> QED
    BY <1>2 DEF SnapNamesResult

\* What was snapped to another object has the place of the result its reference
\* names, unless an opening of that object was emptied.
THEOREM SnapsNameResults == Spec => []SnapNamesResult
  <1>1. Init => SnapNamesResult
    BY DEF Init, SnapNamesResult
  <1>2. ASSUME ObjsOK, SnapNamesResult, [Next]_vars
        PROVE  SnapNamesResult'
    <2>1. CASE UNCHANGED vars
      BY <1>2, <2>1 DEF vars, SnapNamesResult, HasGap
    <2>2. CASE last'.op # "snap"
      BY <2>2 DEF SnapNamesResult
    <2>3. CASE \E x \in Held, y \in Held, t \in RefType, guess \in Guesses :
                   x # y /\ Snap(x, y, t, guess)
      BY <1>2, <2>3, SnapEstablishes
    <2> QED
      BY <1>2, <2>1, <2>2, <2>3, OpIs
  <1> QED
    BY <1>1, <1>2, ObjectsCorrect, PTL DEF Spec

-----------------------------------------------------------------------------
(* A door stands on the line it was put on *)

\* A door that agrees with a line starts on it.
LEMMA DoorBetween ==
    ASSUME NEW x, NEW door \in DoorsOf(x, Piece), NEW line \in LineResults,
           NaN \notin {line.pt_1, line.pt_2},
           SetAssociatedResult(door, "ProfileLine", 1, line) = door
    PROVE  IsBetween(door.dir.line.pt_1, line)
  <1>1. door.kind = "Door" /\ door.dir \in Segments(Piece)
    BY DEF DoorsOf
  <1>2. line # None
    BY Assumed DEF NoneIsApart
  <1> DEFINE updated == D!LineSegUpdated(door.dir, line, None)
  <1>3. door = [door EXCEPT !.dir = updated]
    BY <1>1, <1>2 DEF SetAssociatedResult, D!SetAssociatedResult
  <1>4. IsBetween(updated.line.pt_1, line)
    BY <1>1, SegmentFollows
  <1> HIDE DEF updated
  <1>5. [door EXCEPT !.dir = updated].dir = updated
    BY DEF DoorsOf
  <1> QED
    BY <1>3, <1>4, <1>5

\* The property for one reference.
OnLine(ref) ==
    LET on == GetRefResult(objs, ref.other)
    IN  /\ ref.owner.id \in Held \cap Doors
        /\ ref.owner.id # ref.other.id
        /\ on # None /\ NaN \notin {on.pt_1, on.pt_2}
        => IsBetween(objs[ref.owner.id].dir.line.pt_1, on)

\* A snap puts a door on a line.
LEMMA SnapOnLine ==
    ASSUME ObjsOK, NEW x \in Held, NEW y \in Held, x # y, NEW t \in RefType, NEW guess \in Guesses,
           Snap(x, y, t, guess), NEW n \in DOMAIN last'.refs
    PROVE  OnLine(last.refs[n])'
  <1>1. PICK after : SnapStep(x, y, t, guess, after)
    BY SnapKeeps
  <1>2. PICK found, i : Names(last'.refs[n], x, y, t, after, found, i)
    BY <1>1, SnapSettled
  <1>3. /\ found \in NearResults(objs[y], t)
        /\ last'.refs[n] = Reference(RefID(x, t, i), RefID(y, t, found))
        /\ SetAssociatedResult(after, t, i, GetResultsForType(objs[y], t)[found]) = after
        /\ i \in 1 .. (IF after.kind = "Wall" THEN Len(after.openings) + 2 ELSE 1)
        /\ GetResult(objs[y], t, found) = GetResultsForType(objs[y], t)[found] =>
              GetRefResult(objs', last'.refs[n].other) = GetResultsForType(objs[y], t)[found]
    BY <1>2, Zenon DEF Names
  <1>4. last'.refs[n].owner.id = x /\ last'.refs[n].other.id = y
    BY <1>3 DEF Reference, RefID
  <1>5. /\ x \in Obj /\ y \in Obj /\ DOMAIN objs = Obj
        /\ IsObj(x, objs[x]) /\ IsObj(y, objs[y])
    BY DEF ObjsOK, ObjsAre, ObjectsOn, Held
  <1>6. /\ objs'[x] = after /\ IsObj(x, after)
        /\ after = SnapToRef(objs[x], objs[y], t, guess) /\ after # None
    <2>1. objs' = [objs EXCEPT ![x] = after]
      BY <1>1 DEF SnapStep
    <2> QED
      BY <1>1, <1>5, <2>1 DEF SnapStep
  <1>7. SUFFICES ASSUME x \in Doors,
                        LET on == GetRefResult(objs', last'.refs[n].other)
                        IN  on # None /\ NaN \notin {on.pt_1, on.pt_2}
                 PROVE  IsBetween(after.dir.line.pt_1, GetRefResult(objs', last'.refs[n].other))
    BY <1>4, <1>6 DEF OnLine
  <1>8. objs[x] \in DoorsOf(x, Piece) /\ after \in DoorsOf(x, Piece) /\ after.kind = "Door"
    BY <1>5, <1>6, <1>7, Kinds, ObjectKinds DEF IsObj
  <1>9. t = "ProfileLine" /\ i = 1
    <2>1. guess \in Int
      BY Assumed
    <2> QED
      BY <1>3, <1>5, <1>6, <1>8, <2>1, DoorOnlySnapsToLines
  <1>10. /\ GetResultsForType(objs[y], t)[found] \in LineResults
         /\ GetResult(objs[y], t, found) = GetResultsForType(objs[y], t)[found]
    BY <1>3, <1>5, <1>9, NearIs
  <1> QED
    BY <1>3, <1>7, <1>8, <1>9, <1>10, DoorBetween

\* An update leaves a door on the line it follows.
LEMMA UpdateOnLine ==
    ASSUME ObjsOK, NEW r \in {ref.other : ref \in AllRefs}, UpdateFrom(r),
           NEW n \in DOMAIN last'.refs, ~ IsOvertaken(n)'
    PROVE  OnLine(last.refs[n])'
  <1>1. PICK refs \in GetAllDeps(AllRefs, <<r>>) :
            objs' = UpdateAll(objs, refs) /\ last' = [op |-> "update", refs |-> refs]
    BY UpdateKeeps
  <1>2. refs \in Seq(AllRefs) /\ Len(refs) \in Nat /\ OwnersApart(refs)
    BY FoundIs
  <1>3. last'.refs = refs /\ DOMAIN refs = 1 .. Len(refs)
    BY <1>1, <1>2
  <1> DEFINE x == refs[n].owner.id
             on == GetRefResult(objs', refs[n].other)
  <1>4. ObjsOK'
    BY UpdateKeeps
  <1>5. SUFFICES ASSUME x \in Held' \cap Doors, x # refs[n].other.id,
                        on # None, NaN \notin {on.pt_1, on.pt_2}
                 PROVE  IsBetween(objs'[x].dir.line.pt_1, on)
    BY <1>3 DEF OnLine
  <1>6. UpdateReference(objs', refs[n]) = objs'
    <2>1. \A m \in n + 1 .. Len(refs) :
              refs[m].owner.id = refs[n].other.id => refs[m].other.id = refs[n].other.id
      BY <1>3 DEF IsOvertaken
    <2> QED
      BY <1>1, <1>2, <1>3, <2>1, Settled
  <1>7. refs[n].owner = RefID(x, "ProfileLine", 1) /\ refs[n].other.ref_type = "ProfileLine"
    <2>1. refs[n] \in AllRefs
      BY <1>2, <1>3
    <2>2. IsRefOf(refs[n], x)
      BY <2>1, AllRefsAre
    <2> QED
      BY <1>5, <2>2 DEF IsRefOf
  <1>8. /\ objs' \in ObjectsOn(Obj, Piece) /\ NoneIsApart(Piece)
        /\ x \in Obj /\ objs'[x] # None /\ IsObj(x, objs'[x])
    BY <1>4, <1>5, Assumed DEF ObjsOK, ObjsAre, Held
  <1>9. objs'[x] \in DoorsOf(x, Piece)
    BY <1>5, <1>8, Kinds, ObjectKinds DEF IsObj
  <1>10. on \in LineResults
    BY <1>5, <1>7, <1>8, ResultOfPiece
  <1>11. SetAssociatedResult(objs'[x], "ProfileLine", 1, on) = objs'[x]
    <2>1. Affects(objs', refs[n], Obj)
      BY <1>5, <1>8 DEF Affects
    <2>2. UpdateReference(objs', refs[n])[x] =
              SetAssociatedResult(objs'[x], refs[n].owner.ref_type, refs[n].owner.index, on)
      BY <1>8, <2>1, UpdateIs
    <2>3. refs[n].owner.ref_type = "ProfileLine" /\ refs[n].owner.index = 1
      BY <1>7 DEF RefID
    <2> QED
      BY <1>6, <2>2, <2>3
  <1> QED
    BY <1>5, <1>9, <1>10, <1>11, DoorBetween

\* A door that was put on a line or followed it starts on it, between its ends.
THEOREM DoorsOnLines == Spec => []DoorOnLine
  <1>0. (\A n \in DOMAIN last.refs : ~ IsOvertaken(n) => OnLine(last.refs[n]))' => DoorOnLine'
    BY SMTT(30) DEF DoorOnLine, OnLine, IsBetween
  <1>1. Init => DoorOnLine
    BY DEF Init, DoorOnLine
  <1>2. ASSUME ObjsOK, DoorOnLine, [Next]_vars
        PROVE  DoorOnLine'
    <2>1. CASE UNCHANGED vars
      BY <1>2, <2>1 DEF vars, DoorOnLine, IsOvertaken, Held
    <2>2. CASE last'.op \notin {"snap", "update"}
      BY <2>2 DEF DoorOnLine
    <2>3. CASE \E x \in Held, y \in Held, t \in RefType, guess \in Guesses :
                   x # y /\ Snap(x, y, t, guess)
      BY <1>0, <1>2, <2>3, SnapOnLine
    <2>4. CASE \E r \in {ref.other : ref \in AllRefs} : UpdateFrom(r)
      BY <1>0, <1>2, <2>4, UpdateOnLine
    <2> QED
      BY SMTT(30), <1>2, <2>1, <2>2, <2>3, <2>4, OpIs
  <1> QED
    BY <1>1, <1>2, ObjectsCorrect, PTL DEF Spec

-----------------------------------------------------------------------------
(* Walls that were joined at their ends refer to each other *)

At(wall, i) == wall.pts[i].info.at
IsNearestEnd(c, wall, guess) ==
    /\ c \in 1 .. 2
    /\ \A k \in 1 .. 2 :
          \/ W!Abs(At(wall, c) - guess) < W!Abs(At(wall, k) - guess)
          \/ W!Abs(At(wall, c) - guess) = W!Abs(At(wall, k) - guess) /\ c <= k

\* The nearest of a wall's ends is the first of those with the smallest
\* distance.
LEMMA NearestEnd ==
    ASSUME NEW x \in Walls, NEW wall \in WallsOf(x, Piece), WallIs(wall), NEW guess \in Int
    PROVE  /\ IsNearestEnd(GetClosestResult(wall, "ProfilePoint", guess), wall, guess)
           /\ \A i \in 1 .. 2 : GetResultsForType(wall, "ProfilePoint")[i] = wall.pts[i].info
  <1> DEFINE results == GetResultsForType(wall, "ProfilePoint")
             c == GetClosestResult(wall, "ProfilePoint", guess)
  <1>1. wall.kind = "Wall" /\ wall \in Objects(x, Piece)
    BY DEF WallsOf, Objects
  <1>2. results = [i \in 1 .. 2 |-> wall.pts[i].info]
    BY <1>1 DEF GetResultsForType, W!GetResultsForType
  <1>3. \A i \in 1 .. 2 : /\ results[i] = wall.pts[i].info
                          /\ results[i].kind = "Point"
                          /\ results[i].at = At(wall, i) /\ At(wall, i) \in Int
    BY <1>2 DEF WallsOf, PointResults, At, WallIs
  <1> HIDE DEF results
  <1>4. DOMAIN results = 1 .. 2
    BY <1>2
  <1>5. \A i \in 1 .. 2 : HasDistance(results[i])
    BY <1>3, Assumed DEF HasDistance
  <1>6. NearResults(wall, "ProfilePoint") = 1 .. 2
    BY <1>4, <1>5 DEF NearResults, results
  <1>7. \A i \in 1 .. 2 : Distances(wall, "ProfilePoint", guess)[i] = W!Abs(At(wall, i) - guess)
    <2>1. \A i \in 1 .. 2 : Distances(wall, "ProfilePoint", guess)[i] = Distance(results[i], guess)
      BY <1>6 DEF Distances, results
    <2>2. \A i \in 1 .. 2 : Distance(results[i], guess) = W!Abs(At(wall, i) - guess)
      BY <1>3 DEF Distance, Abs, W!Abs
    <2> QED
      BY <2>1, <2>2
  <1>8. 1 \in NearResults(wall, "ProfilePoint")
    BY <1>6
  <1>9. IsFirstOf(c, NearResults(wall, "ProfilePoint"), Distances(wall, "ProfilePoint", guess))
    BY <1>1, <1>8, ClosestResultIs
  <1> HIDE DEF c
  <1>10. IsNearestEnd(c, wall, guess)
    BY <1>6, <1>7, <1>9 DEF IsFirstOf, IsNearestEnd
  <1> QED
    BY <1>3, <1>10 DEF c, results

\* If the nearest end is free it has no reference.
LEMMA NearestEndIsFree ==
    ASSUME NEW x \in Walls, NEW wall \in WallsOf(x, Piece), WallIs(wall), NEW guess \in Int,
           NearestIsFree(wall, guess)
    PROVE  wall.pts[GetClosestResult(wall, "ProfilePoint", guess)].refer = None
  <1> DEFINE c == GetClosestResult(wall, "ProfilePoint", guess)
  <1>1. wall.kind = "Wall" /\ wall \in Objects(x, Piece)
    BY DEF WallsOf, Objects
  <1>2. c \in 1 .. 2 /\ c = GetClosestRef(wall, "ProfilePoint", guess)
    BY NearestEnd DEF IsNearestEnd, NearestIsFree
  <1> HIDE DEF c
  <1>3. c # None
    BY <1>2, Assumed DEF NoneIsApart
  <1>4. c \in NearRefs(wall, "ProfilePoint")
    BY <1>1, <1>2, <1>3, ClosestRefIs DEF IsFirstOf
  <1>5. c \in {i \in 1 .. 2 : wall.pts[i].refer = None}
    BY <1>1, <1>4 DEF NearRefs, GetAvailableRefs, W!GetAvailableRefs
  <1> QED
    BY <1>5 DEF c

\* A wall of which an end was set has one new reference.
LEMMA EndRefIsNew ==
    ASSUME NEW x \in Walls, NEW wall \in WallsOf(x, Piece), NEW i \in 1 .. 2,
           wall.pts[i].refer = None, NEW result \in PointResults, NEW which \in Piece,
           NEW after, after = W!SetRef(wall, "ProfilePoint", i, result, which)
    PROVE  /\ NewRefs(wall, after) = <<Reference(RefID(x, "ProfilePoint", i), which)>>
           /\ after.pts[i].info = result
           /\ \A k \in (1 .. 2) \ {i} : after.pts[k] = wall.pts[k]
           /\ after \in WallsOf(x, Piece)
  <1> DEFINE owner == RefID(x, "ProfilePoint", i)
             ref == Reference(owner, which)
  <1>0. NoneIsApart(Piece) /\ x \in Obj /\ MaxSlots \in Nat
    BY Assumed DEF Obj
  <1>1. /\ EndSet(wall, after, i, which, result) /\ after \in WallsOf(x, Piece)
        /\ Snapped(wall, after, x, Piece, "ProfilePoint", i, which, result)
    BY <1>0, WallEndSet
  <1>2. /\ after.pts[i] = [refer |-> which, info |-> result]
        /\ \A k \in (1 .. 2) \ {i} : after.pts[k] = wall.pts[k]
    BY <1>1 DEF EndSet, WallsOf
  <1>3. OnlySets(wall, after, ref)
    BY <1>1 DEF Snapped
  <1>4. AreWallRefs(GetRefs(wall), wall, x) /\ AreWallRefs(GetRefs(after), after, x)
    <2>1. GetRefs(wall) = W!GetRefs(wall) /\ GetRefs(after) = W!GetRefs(after)
      BY <1>1, OfWall DEF WallsOf
    <2> QED
      BY <1>1, <2>1, WallRefs
  <1>5. owner \in Piece
    BY <1>0, PieceIs DEF RefType
  <1>6. ref # None
    BY <1>5, ReferenceIsNotNone
  <1>7. which # None /\ [refer |-> which, info |-> result] # None
    <2>1. [refer |-> which, info |-> result] \in
              [refer : Slot(Piece), info : PointResults \cup PlaneResults]
      BY DEF Slot
    <2> QED
      BY <1>0, <2>1 DEF NoneIsApart
  <1>8. i \in DOMAIN GetRefs(after) /\ GetRefs(after)[i] = ref
    <2>1. i \in DOMAIN GetRefs(after)
      BY <1>4 DEF AreWallRefs
    <2>2. GetRefs(after)[i] = SlotOf(after.pts[i], owner)
      BY <1>4 DEF AreWallRefs
    <2> QED
      BY <1>2, <1>7, <2>1, <2>2 DEF SlotOf
  <1>9. ASSUME NEW k \in DOMAIN GetRefs(wall)
        PROVE  GetRefs(wall)[k] # ref
    <2>1. k \in 1 .. Len(wall.openings) + 6 /\ Len(wall.openings) \in Nat
      BY <1>4 DEF AreWallRefs
    <2>2. CASE k = i
      <3>1. GetRefs(wall)[k] = SlotOf(wall.pts[k], RefID(x, "ProfilePoint", k))
        BY <1>4, <2>2 DEF AreWallRefs
      <3>2. SlotOf(wall.pts[k], RefID(x, "ProfilePoint", k)) = None
        BY <2>2 DEF SlotOf
      <3> QED
        BY <1>6, <3>1, <3>2
    <2>3. CASE k \in 1 .. 2 /\ k # i
      <3>1. GetRefs(wall)[k] = SlotOf(wall.pts[k], RefID(x, "ProfilePoint", k))
        BY <1>4, <2>3 DEF AreWallRefs
      <3>2. SlotOf(wall.pts[k], RefID(x, "ProfilePoint", k)) # None =>
                SlotOf(wall.pts[k], RefID(x, "ProfilePoint", k)).owner.index = k
        BY SlotRef DEF Reference, RefID
      <3>3. ref.owner.index = i
        BY DEF Reference, RefID
      <3> QED
        BY <1>6, <2>3, <3>1, <3>2, <3>3
    <2>4. CASE k \in 3 .. 6
      <3>1. GetRefs(wall)[k].owner.ref_type \in {"AxisAlignedBoundBox", "ProfileLine"}
        BY <1>4, <2>4 DEF AreWallRefs, Reference, RefID
      <3>2. ref.owner.ref_type = "ProfilePoint"
        BY DEF Reference, RefID
      <3> QED
        BY <3>1, <3>2
    <2>5. CASE k \in 7 .. Len(wall.openings) + 6
      <3> DEFINE m == k - 6
                 slot == SlotOf(wall.openings[m], RefID(x, "ProfilePlane", m))
      <3>1. m \in 1 .. Len(wall.openings) /\ k = m + 6
        BY <2>1, <2>5
      <3> HIDE DEF m
      <3>2. GetRefs(wall)[k] = slot
        BY <1>4, <3>1 DEF AreWallRefs
      <3>3. slot # None => slot.owner.ref_type = "ProfilePlane"
        BY SlotRef DEF Reference, RefID
      <3>4. ref.owner.ref_type = "ProfilePoint"
        BY DEF Reference, RefID
      <3> HIDE DEF slot
      <3> QED
        BY <1>6, <3>2, <3>3, <3>4
    <2> QED
      BY <2>1, <2>2, <2>3, <2>4, <2>5
  <1> HIDE DEF ref
  <1>10. ref \in RefsOf(after)
    BY <1>6, <1>8, Zenon DEF RefsOf, Range
  <1>11. ref \notin RefsOf(wall)
    BY <1>9, Zenon DEF RefsOf, Range
  <1>12. NewRefs(wall, after) = <<ref>>
    BY <1>3, <1>10, <1>11, NewRefsAre
  <1> QED
    BY <1>1, <1>2, <1>12 DEF ref

\* A wall whose nearest end is free snaps that end to the nearest of another's.
LEMMA EndSnaps ==
    ASSUME NEW x \in Walls, NEW wall \in WallsOf(x, Piece), WallIs(wall),
           NEW y \in Walls, NEW other \in WallsOf(y, Piece), WallIs(other),
           NEW guess \in Int, NearestIsFree(wall, guess),
           NEW f, f = GetClosestResult(wall, "ProfilePoint", guess),
           NEW c, c = GetClosestResult(other, "ProfilePoint", guess),
           NEW after, after = SnapToRef(wall, other, "ProfilePoint", guess)
    PROVE  /\ NewRefs(wall, after) =
                  <<Reference(RefID(x, "ProfilePoint", f), RefID(y, "ProfilePoint", c))>>
           /\ after.pts[f].info = other.pts[c].info
           /\ \A k \in (1 .. 2) \ {f} : after.pts[k] = wall.pts[k]
           /\ after \in WallsOf(x, Piece)
  <1>0. x \in Obj /\ y \in Obj /\ MaxSlots \in Nat /\ NoneIsApart(Piece)
    BY Assumed DEF Obj
  <1>1. /\ f \in 1 .. 2 /\ c \in 1 .. 2
        /\ GetResultsForType(other, "ProfilePoint")[c] = other.pts[c].info
        /\ wall.pts[f].refer = None
        /\ f = GetClosestRef(wall, "ProfilePoint", guess)
    BY NearestEnd, NearestEndIsFree DEF IsNearestEnd, NearestIsFree
  <1>2. f # None /\ c # None
    BY <1>0, <1>1 DEF NoneIsApart
  <1>3. wall.kind = "Wall" /\ other.id = y
    BY DEF WallsOf
  <1>4. after = SetRef(wall, "ProfilePoint", f, other.pts[c].info,
                       RefID(y, "ProfilePoint", c), guess)
    BY <1>1, <1>2, <1>3 DEF SnapToRef
  <1>5. after = W!SetRef(wall, "ProfilePoint", f, other.pts[c].info, RefID(y, "ProfilePoint", c))
    BY <1>3, <1>4 DEF SetRef
  <1>6. other.pts[c].info \in PointResults /\ RefID(y, "ProfilePoint", c) \in Piece
    BY <1>0, <1>1, PieceIs DEF WallsOf, RefType
  <1>7. NewRefs(wall, after) =
            <<Reference(RefID(x, "ProfilePoint", f), RefID(y, "ProfilePoint", c))>>
    BY <1>1, <1>5, <1>6, EndRefIsNew
  <1>8. after.pts[f].info = other.pts[c].info /\ after \in WallsOf(x, Piece)
    BY <1>1, <1>5, <1>6, EndRefIsNew
  <1>9. \A k \in (1 .. 2) \ {f} : after.pts[k] = wall.pts[k]
    BY <1>1, <1>5, <1>6, EndRefIsNew
  <1> QED
    BY <1>7, <1>8, <1>9

\* The end that snapped to the guess is then the nearest of its wall.
LEMMA StaysNearest ==
    ASSUME NEW j, NEW wall, NEW after, NEW guess \in Int, IsNearestEnd(j, wall, guess),
           NEW k, IsNearestEnd(k, after, guess),
           \A e \in 1 .. 2 : At(wall, e) \in Int /\ At(after, e) \in Int,
           At(after, j) = guess, \A e \in (1 .. 2) \ {j} : At(after, e) = At(wall, e)
    PROVE  k = j
  BY DEF IsNearestEnd, W!Abs

\* Joining walls at their ends establishes what it promises.
LEMMA JoinEstablishes ==
    ASSUME ObjsOK, NEW x \in Held, NEW y \in Held, x # y, NEW tx \in RefType, NEW ty \in RefType,
           NEW guess \in Guesses, Join(x, y, tx, ty, guess), last'.op = "join_ends"
    PROVE  JoinIsMutual'
  <1>1. PICK first, second : JoinStep(x, y, tx, ty, guess, first, second)
    BY JoinKeeps
  <1>2. /\ tx = "ProfilePoint" /\ ty = "ProfilePoint"
        /\ objs[x].kind = "Wall" /\ objs[y].kind = "Wall"
        /\ guess \in {First(objs[x]), Second(objs[x])}
        /\ NearestIsFree(objs[x], guess) /\ NearestIsFree(objs[y], guess)
    BY <1>1 DEF JoinStep, BetweenEnds
  <1>3. /\ x \in Obj /\ y \in Obj /\ DOMAIN objs = Obj /\ guess \in Int /\ None \notin Int
        /\ IsObj(x, objs[x]) /\ IsObj(y, objs[y])
    BY Assumed DEF ObjsOK, ObjsAre, ObjectsOn, Held, NoneIsApart
  <1>4. /\ x \in Walls /\ objs[x] \in WallsOf(x, Piece) /\ WallIs(objs[x])
        /\ y \in Walls /\ objs[y] \in WallsOf(y, Piece) /\ WallIs(objs[y])
    BY <1>2, <1>3, Kinds, KindIs DEF IsObj
  <1>5. /\ second = SnapToRef(objs[y], objs[x], "ProfilePoint", guess)
        /\ first = SnapToRef(objs[x], second, "ProfilePoint", guess)
        /\ first # None /\ second # None /\ IsObj(y, second)
    BY <1>1, <1>2 DEF JoinStep
  <1> DEFINE i == GetClosestResult(objs[x], "ProfilePoint", guess)
             j == GetClosestResult(objs[y], "ProfilePoint", guess)
             k == GetClosestResult(second, "ProfilePoint", guess)
  <1>6. IsNearestEnd(i, objs[x], guess) /\ IsNearestEnd(j, objs[y], guess)
    BY <1>3, <1>4, NearestEnd
  <1>7. /\ NewRefs(objs[y], second) =
               <<Reference(RefID(y, "ProfilePoint", j), RefID(x, "ProfilePoint", i))>>
        /\ second.pts[j].info = objs[x].pts[i].info
        /\ \A e \in (1 .. 2) \ {j} : second.pts[e] = objs[y].pts[e]
        /\ second \in WallsOf(y, Piece)
    BY <1>2, <1>3, <1>4, <1>5, EndSnaps
  <1>8. WallIs(second)
    BY <1>5, <1>7, KindIs DEF WallsOf, IsObj
  <1>9. IsNearestEnd(k, second, guess)
    BY <1>3, <1>4, <1>7, <1>8, NearestEnd
  <1>10. /\ NewRefs(objs[x], first) =
                <<Reference(RefID(x, "ProfilePoint", i), RefID(y, "ProfilePoint", k))>>
         /\ first.pts[i].info = second.pts[k].info
         /\ first \in WallsOf(x, Piece)
    BY <1>2, <1>3, <1>4, <1>5, <1>7, <1>8, EndSnaps
  <1> HIDE DEF i, j, k
  <1>11. At(objs[x], i) = guess
    <2>1. At(objs[x], 1) = guess \/ At(objs[x], 2) = guess
      BY <1>2 DEF First, Second, At
    <2>2. At(objs[x], 1) \in Int /\ At(objs[x], 2) \in Int
      BY <1>4 DEF WallIs, At
    <2> QED
      BY <1>3, <1>6, <2>1, <2>2 DEF IsNearestEnd, W!Abs
  <1>12. k = j
    <2>1. \A e \in 1 .. 2 : At(objs[y], e) \in Int /\ At(second, e) \in Int
      BY <1>4, <1>8 DEF WallIs, At
    <2>2. At(second, j) = guess /\ \A e \in (1 .. 2) \ {j} : At(second, e) = At(objs[y], e)
      BY <1>7, <1>11 DEF At
    <2> QED
      BY <1>3, <1>6, <1>9, <2>1, <2>2, StaysNearest
  <1> DEFINE a == RefID(x, "ProfilePoint", i)
             b == RefID(y, "ProfilePoint", j)
  <1>13. last'.refs = <<Reference(a, b)>> \o <<Reference(b, a)>>
    BY <1>1, <1>7, <1>10, <1>12 DEF JoinStep
  <1>14. last'.refs[1] = Reference(a, b) /\ last'.refs[2] = Reference(b, a)
    BY <1>13
  <1>15. objs'[x] = first /\ objs'[y] = second /\ DOMAIN objs' = Obj
    <2>1. objs' = [objs EXCEPT ![x] = first, ![y] = second]
      BY <1>1 DEF JoinStep
    <2> QED
      BY <1>3, <2>1
  <1>16. /\ GetRefResult(objs', a) = first.pts[i].info
         /\ GetRefResult(objs', b) = second.pts[j].info
    <2>1. /\ a.id = x /\ a.ref_type = "ProfilePoint" /\ a.index = i
          /\ b.id = y /\ b.ref_type = "ProfilePoint" /\ b.index = j
      BY DEF RefID
    <2> HIDE DEF a, b
    <2>2. first.kind = "Wall" /\ second.kind = "Wall" /\ i \in 1 .. 2 /\ j \in 1 .. 2
      BY <1>6, <1>7, <1>10 DEF WallsOf, IsNearestEnd
    <2>3. /\ GetRefResult(objs', a) = W!GetResult(first, "ProfilePoint", i)
          /\ GetRefResult(objs', b) = W!GetResult(second, "ProfilePoint", j)
      BY <1>3, <1>5, <1>15, <2>1, <2>2 DEF GetRefResult, GetResult
    <2> QED
      BY <1>7, <1>10, <2>2, <2>3, WallResult
  <1> HIDE DEF a, b
  <1>17. GetRefResult(objs', a) = GetRefResult(objs', b)
    BY <1>10, <1>12, <1>16
  <1>18. /\ Reference(a, b).owner = a /\ Reference(a, b).other = b
         /\ Reference(b, a).owner = b /\ Reference(b, a).other = a
    BY DEF Reference
  <1> QED
    BY <1>14, <1>17, <1>18 DEF JoinIsMutual

\* Two walls joined at free ends refer to each other's end and the two ends have
\* one place, for whatever other walls, openings and references there are.
THEOREM JoinsAreMutual == Spec => []JoinIsMutual
  <1>1. Init => JoinIsMutual
    BY DEF Init, JoinIsMutual
  <1>2. ASSUME ObjsOK, JoinIsMutual, [Next]_vars
        PROVE  JoinIsMutual'
    <2>1. CASE UNCHANGED vars
      BY <1>2, <2>1 DEF vars, JoinIsMutual
    <2>2. CASE last'.op # "join_ends"
      BY <2>2 DEF JoinIsMutual
    <2>3. ASSUME NEW x \in Held, NEW y \in Held, x # y, NEW t \in JoinTypes, NEW guess \in Guesses,
                 Join(x, y, t[1], t[2], guess), last'.op = "join_ends"
          PROVE  JoinIsMutual'
      <3>1. t[1] \in RefType /\ t[2] \in RefType
        BY Assumed
      <3> QED
        BY <1>2, <2>3, <3>1, JoinEstablishes
    <2> QED
      BY <1>2, <2>1, <2>2, <2>3, OpIs
  <1> QED
    BY <1>1, <1>2, ObjectsCorrect, PTL DEF Spec
==============================================================================
