----------------------------- MODULE References ------------------------------
(***************************************************************************)
(* Pieces of objects, what they evaluate to and how information follows a  *)
(* reference (obj-traits).  A point is its coordinate on a line and its    *)
(* height is left out of a plane; indexes start at 1.                      *)
(***************************************************************************)
EXTENDS Integers, Sequences

CONSTANTS
    None,  \* the Option without a value
    NaN    \* what a division by the length of a line of no length leaves

\* A part of an object: of type Drawable, Existence, AxisAlignedBoundBox,
\* ProfilePoint, ProfileLine or ProfilePlane, and an index into the results of
\* that type.
RefID(x, t, i) == [id |-> x, ref_type |-> t, index |-> i]
Reference(owner, other) == [owner |-> owner, other |-> other]

Empty == [kind |-> "Empty"]
Point(p) == [kind |-> "Point", at |-> p]
Line(p, q) == [kind |-> "Line", pt_1 |-> p, pt_2 |-> q]
Plane(p, q) == [kind |-> "Plane", pt_1 |-> p, pt_2 |-> q]
Cube(p, q) == [kind |-> "Cube"]

Abs(n) == IF n < 0 THEN -n ELSE n
Plus(p, delta) == IF p = NaN THEN NaN ELSE p + delta
IsDegenerate(line) == line.pt_1 = line.pt_2 \/ line.pt_2 = NaN \/ line.pt_1 = NaN

\* distance2 by rank: a point projects on every line that has a direction, and
\* a distance that is NaN is never the smaller one.  Nothing is joined to boxes.
HasDistance(result) ==
    \/ result.kind = "Point" /\ result.at # NaN
    \/ result.kind = "Line" /\ ~IsDegenerate(result)
    \/ result.kind = "Plane" /\ result.pt_1 # NaN
Distance(result, guess) ==
    CASE result.kind = "Point" -> Abs(result.at - guess)
      [] result.kind = "Line"  -> 0
      [] result.kind = "Plane" -> Abs(result.pt_1 - guess)

\* What a sequence has at the indexes in I.
Subsequence(s, I) ==
    LET upTo[n \in 0 .. Len(s)] ==
            IF n = 0 THEN << >>
            ELSE IF n \in I THEN Append(upTo[n - 1], s[n])
            ELSE upTo[n - 1]
    IN  upTo[Len(s)]

-----------------------------------------------------------------------------
(* UpdatableInfo: information that may follow a reference *)

Updatable(info) == [refer |-> None, info |-> info]

\* from_result takes results of the information's own type only.
SetReference(u, result, refer) ==
    IF result.kind = u.info.kind THEN [refer |-> refer, info |-> result] ELSE u

\* Without a result the reference is given up and the information stays.
Updated(u, result) ==
    IF result = None THEN [u EXCEPT !.refer = None]
    ELSE IF result.kind = u.info.kind THEN [u EXCEPT !.info = result] ELSE u

-----------------------------------------------------------------------------
(* RefLineSeg: a segment of fixed length that starts somewhere on a line *)

NewLineSeg(p, q) ==
    [refer |-> None, line |-> Line(p, q), length |-> Abs(q - p), interp |-> <<0, 1>>]

\* Mutant: a point may be beyond the end.
InterpUnbounded(line, p) == <<Abs(p - line.pt_1), Abs(line.pt_2 - line.pt_1)>>
\* How far along the line the point is, as a fraction that is at most one.
\* Its distance is taken, so a point before the line counts as one on it.
InterpAlongLine(line, p) ==
    LET dir == Abs(line.pt_2 - line.pt_1)
        from == Abs(p - line.pt_1)
    IN  <<IF from > dir THEN dir ELSE from, dir>>

\* A line of no length has no direction to put the second point in.
LineSegUpdated(seg, result, snap_pt) ==
    IF result.kind # "Line" THEN seg
    ELSE IF result.pt_1 = NaN \/ result.pt_2 = NaN THEN [seg EXCEPT !.line = Line(NaN, NaN)]
    ELSE LET interp == IF snap_pt = None THEN seg.interp ELSE InterpAlongLine(result, snap_pt)
             dir == result.pt_2 - result.pt_1
             start == result.pt_1 + (dir * interp[1]) \div interp[2]
             end == IF dir = 0 THEN NaN
                    ELSE start + (dir \div Abs(dir)) * seg.length
         IN  [seg EXCEPT !.interp = interp, !.line = Line(start, end)]

LineSegSetReference(seg, result, refer, snap_pt) ==
    IF result.kind # "Line" THEN seg
    ELSE LineSegUpdated([seg EXCEPT !.refer = refer], result, snap_pt)
=============================================================================
