--------------------------- MODULE OperationsProofs ---------------------------
(***************************************************************************)
(* Lemmas about the operations library, for any objects and references:    *)
(* what its functions return is well typed, how they treat the slots of an *)
(* object, and what searches and updates do.  Editing and Submit, which    *)
(* use the library, are proved from them.                                  *)
(*                                                                         *)
(* The library's loops are recursive functions.  UpTo is induction over    *)
(* the numbers up to one, for a set instead of a formula; Recursion says   *)
(* that a function that is defined by steps exists.                        *)
(***************************************************************************)
EXTENDS Operations, SequenceTheorems, FiniteSetTheorems, WellFoundedInduction, TLAPS

-----------------------------------------------------------------------------
(* Induction and recursion *)

\* The numbers up to n are in a set that has 0 and, with a number, the next.
LEMMA UpTo ==
    ASSUME NEW n \in Nat, NEW I, 0 \in I, \A i \in 0 .. n - 1 : i \in I => i + 1 \in I
    PROVE  0 .. n \subseteq I
<1> SUFFICES ASSUME NEW k \in 0 .. n, k \notin I PROVE FALSE
  OBVIOUS
<1> DEFINE R == {ss \in Nat \X Nat : ss[1] < ss[2]}
           B == {j \in 0 .. n : j \notin I}
<1>1. OpToRel(<, Nat) = R
  BY Zenon DEF OpToRel
<1>2. IsWellFoundedOn(R, Nat)
  BY Zenon, <1>1, NatLessThanWellFounded
<1>3. B \subseteq Nat /\ B # {}
  OBVIOUS
<1>4. PICK x \in B : \A y \in B : ~ (<<y, x>> \in R)
  <2> HIDE DEF R, B
  <2> QED
    BY <1>2, <1>3, WFMin
<1>5. x \in 1 .. n
  OBVIOUS
<1>6. x - 1 \in 0 .. n - 1 /\ x - 1 \in Nat /\ x \in Nat /\ (x - 1) + 1 = x
  BY <1>5
<1>7. x - 1 \in B
  BY <1>6
<1>8. ~ (<<x - 1, x>> \in R)
  BY <1>4, <1>7
<1>9. <<x - 1, x>> \in Nat \X Nat /\ <<x - 1, x>>[1] < <<x - 1, x>>[2]
  BY <1>6
<1>10. QED
  BY <1>8, <1>9

\* A function that starts with a value and makes a step at every number.
Steps(f, n, T, v, step) ==
    /\ f \in [0 .. n -> T]
    /\ f[0] = v
    /\ \A i \in 1 .. n : f[i] = step[i][f[i - 1]]

\* What is defined by steps from a value is a function.
LEMMA Recursion ==
    ASSUME NEW n \in Nat, NEW T, NEW v \in T, NEW step \in [1 .. n -> [T -> T]]
    PROVE  \E f : Steps(f, n, T, v, step)
<1> DEFINE Is(f, k) == f[0] = v /\ \A i \in 1 .. k : f[i] = step[i][f[i - 1]]
           I == {k \in 0 .. n : \E f \in [0 .. k -> T] : Is(f, k)}
<1>1. 0 \in I
  <2>1. PICK f \in [0 .. 0 -> T] : f = [k \in 0 .. 0 |-> v]
    OBVIOUS
  <2>2. Is(f, 0)
    BY <2>1
  <2>3. QED
    BY <2>1, <2>2
<1>2. ASSUME NEW k \in 0 .. n - 1, k \in I PROVE k + 1 \in I
  <2>1. PICK f \in [0 .. k -> T] : Is(f, k)
    BY <1>2
  <2>2. k \in 0 .. k /\ k + 1 \in 1 .. n /\ k + 1 \in 0 .. n
    OBVIOUS
  <2>3. step[k + 1][f[k]] \in T
    BY <2>1, <2>2
  <2>4. PICK g : g = [i \in 0 .. k + 1 |-> IF i = k + 1 THEN step[k + 1][f[k]] ELSE f[i]]
    OBVIOUS
  <2>5. g \in [0 .. k + 1 -> T]
    <3>1. ASSUME NEW i \in 0 .. k + 1, i # k + 1 PROVE f[i] \in T
      <4>1. i \in 0 .. k
        BY <3>1
      <4>2. QED
        BY <2>1, <4>1
    <3>2. QED
      BY <2>3, <2>4, <3>1
  <2>6. ASSUME NEW i \in 1 .. k + 1 PROVE g[i] = step[i][g[i - 1]]
    <3>1. i - 1 \in 0 .. k /\ i - 1 \in 0 .. k + 1 /\ i - 1 # k + 1 /\ i \in 0 .. k + 1
      BY <2>6
    <3>2. g[i - 1] = f[i - 1]
      BY <2>4, <3>1
    <3>3. CASE i = k + 1
      <4>1. g[i] = step[k + 1][f[k]] /\ i - 1 = k
        BY <2>4, <3>1, <3>3
      <4>2. QED
        BY <3>2, <3>3, <4>1
    <3>4. CASE i # k + 1
      <4>1. i \in 1 .. k
        BY <3>4
      <4>2. g[i] = f[i] /\ f[i] = step[i][f[i - 1]]
        BY <2>1, <2>4, <3>1, <3>4, <4>1
      <4>3. QED
        BY <3>2, <4>2
    <3>5. QED
      BY <3>3, <3>4
  <2>7. g[0] = v
    BY <2>1, <2>4
  <2>8. QED
    BY <2>2, <2>5, <2>6, <2>7
<1>3. 0 .. n \subseteq I
  <2> HIDE DEF I
  <2> QED
    BY <1>1, <1>2, UpTo
<1>4. \E f \in [0 .. n -> T] : Is(f, n)
  BY <1>3
<1>5. QED
  BY <1>4 DEF Steps

-----------------------------------------------------------------------------
(* Sequences *)

\* Any order of a finite set has all its members.
LEMMA OrderHasAll ==
    ASSUME NEW S, IsFiniteSet(S), NEW order \in SetToSeqs(S)
    PROVE  /\ order \in Seq(S) /\ Len(order) = Cardinality(S) /\ Range(order) = S
<1>1. PICK n : n = Cardinality(S)
  OBVIOUS
<1>2. n \in Nat
  BY <1>1, FS_CardinalityType
<1>3. order \in Injection(1 .. n, S) /\ order \in [1 .. n -> S]
  BY <1>1 DEF SetToSeqs, Injection, IsInjective
<1>4. IsFiniteSet(1 .. n) /\ Cardinality(1 .. n) = n
  BY <1>2, FS_Interval
<1>5. order \in Surjection(1 .. n, S)
  BY <1>1, <1>3, <1>4, FS_Injection
<1>6. order \in Seq(S) /\ Len(order) = n
  BY <1>2, <1>3, SeqDef, LenProperties
<1>7. Range(order) = S
  BY <1>3, <1>5 DEF Surjection, Range
<1>8. QED
  BY <1>1, <1>6, <1>7

\* The members of a finite set in order: each of them once.
LEMMA InOrderIs ==
    ASSUME NEW S, IsFiniteSet(S)
    PROVE  /\ Cardinality(S) \in Nat
           /\ InOrder(S) \in SetToSeqs(S)
           /\ InOrder(S) \in [1 .. Cardinality(S) -> S]
           /\ InOrder(S) \in Seq(S) /\ Len(InOrder(S)) = Cardinality(S)
           /\ Range(InOrder(S)) = S
<1> DEFINE n == Cardinality(S)
           order == InOrder(S)
<1>1. n \in Nat
  BY FS_CardinalityType
<1>2. PICK f : f \in Bijection(1 .. n, S)
  BY FS_CardinalityType DEF ExistsBijection
<1>3. f \in SetToSeqs(S)
  BY <1>2 DEF SetToSeqs, Bijection, Injection, IsInjective
<1>4. order \in SetToSeqs(S)
  BY <1>3 DEF InOrder
<1>5. order \in [1 .. n -> S]
  BY <1>4 DEF SetToSeqs
<1>6. QED
  BY <1>1, <1>4, <1>5, OrderHasAll

\* Where the elements of a subsequence come from: from the indexes in I up to
\* k, in their order, each of them once.
Selects(at, r, s, I, k) ==
    /\ at \in [1 .. Len(r) -> {i \in 1 .. k : i \in I}]
    /\ \A m, n \in 1 .. Len(r) : m < n => at[m] < at[n]
    /\ \A m \in 1 .. Len(r) : r[m] = s[at[m]]
    /\ \A i \in 1 .. k : i \in I => \E m \in 1 .. Len(r) : at[m] = i

\* What a sequence has at the indexes in I.
LEMMA SubsequenceIs ==
    ASSUME NEW T, NEW s \in Seq(T), NEW I
    PROVE  /\ Subsequence(s, I) \in Seq(T)
           /\ \E at : Selects(at, Subsequence(s, I), s, I, Len(s))
<1>1. PICK n : n = Len(s)
  OBVIOUS
<1>2. n \in Nat /\ \A i \in 1 .. n : s[i] \in T
  BY <1>1, LenProperties, ElementOfSeq
<1> DEFINE Step(i, r) == IF i \in I THEN Append(r, s[i]) ELSE r
           Is(f) == f = [i \in 0 .. Len(s) |-> IF i = 0 THEN << >>
                                               ELSE IF i \in I THEN Append(f[i - 1], s[i])
                                               ELSE f[i - 1]]
<1>3. PICK step : step = [i \in 1 .. n |-> [r \in Seq(T) |-> Step(i, r)]]
  OBVIOUS
<1>4. \A i \in 1 .. n : \A r \in Seq(T) : Step(i, r) \in Seq(T)
  BY <1>2, AppendProperties
<1>5. step \in [1 .. n -> [Seq(T) -> Seq(T)]]
  <2> HIDE DEF Step
  <2> QED
    BY <1>3, <1>4
<1>6. << >> \in Seq(T)
  OBVIOUS
<1>7. PICK f \in [0 .. n -> Seq(T)] :
          f[0] = << >> /\ \A i \in 1 .. n : f[i] = step[i][f[i - 1]]
  <2>1. \E f : Steps(f, n, Seq(T), << >>, step)
    BY <1>2, <1>5, <1>6, Recursion
  <2>2. QED
    BY <2>1 DEF Steps
<1>8. \A i \in 1 .. n : f[i - 1] \in Seq(T) /\ f[i] = Step(i, f[i - 1])
  <2> SUFFICES ASSUME NEW i \in 1 .. n PROVE f[i - 1] \in Seq(T) /\ f[i] = Step(i, f[i - 1])
    OBVIOUS
  <2>1. i - 1 \in 0 .. n
    BY <1>2
  <2>2. f[i - 1] \in Seq(T)
    BY <1>7, <2>1
  <2> HIDE DEF Step
  <2>3. QED
    BY <1>3, <1>7, <2>2
<1>9. Is(f)
  <2>1. \A i \in 0 .. n : f[i] = IF i = 0 THEN << >> ELSE Step(i, f[i - 1])
    <3> HIDE DEF Is, Step
    <3>1. \A i \in 0 .. n : i = 0 \/ i \in 1 .. n
      BY <1>2
    <3>2. QED
      BY <1>7, <1>8, <3>1
  <2>2. f = [i \in 0 .. n |-> IF i = 0 THEN << >> ELSE Step(i, f[i - 1])]
    BY <1>7, <2>1
  <2>3. QED
    BY <1>1, <2>2
<1>10. PICK g : Is(g) /\ Subsequence(s, I) = g[Len(s)]
  <2>1. PICK g : g = CHOOSE h : Is(h)
    OBVIOUS
  <2>2. Is(g)
    <3> HIDE DEF Is
    <3> QED
      BY <1>9, <2>1
  <2>3. Subsequence(s, I) = g[Len(s)]
    BY <2>1 DEF Subsequence
  <2>4. QED
    BY <2>2, <2>3
<1> DEFINE r == Subsequence(s, I)
           J == {k \in 0 .. n : g[k] \in Seq(T) /\ \E at : Selects(at, g[k], s, I, k)}
<1>11. g[0] = << >> /\ \A i \in 1 .. n : g[i] = Step(i, g[i - 1])
  <2>1. \A i \in 0 .. n : g[i] = IF i = 0 THEN << >> ELSE Step(i, g[i - 1])
    BY <1>1, <1>10
  <2>2. 0 \in 0 .. n /\ \A i \in 1 .. n : i \in 0 .. n /\ i # 0
    BY <1>2
  <2> HIDE DEF Is, Step
  <2>3. QED
    BY <2>1, <2>2
<1> HIDE DEF Is
<1>12. 0 \in J
  <2>1. g[0] \in Seq(T) /\ Len(g[0]) = 0
    BY <1>6, <1>11
  <2>2. PICK at : at = [k \in 1 .. 0 |-> 0]
    OBVIOUS
  <2>3. Selects(at, g[0], s, I, 0)
    BY <2>1, <2>2 DEF Selects
  <2>4. QED
    BY <1>2, <2>1, <2>3
<1>13. ASSUME NEW k \in 0 .. n - 1, k \in J PROVE k + 1 \in J
  <2>1. g[k] \in Seq(T) /\ k \in Nat /\ k + 1 \in 1 .. n /\ k + 1 \in 0 .. n /\ (k + 1) - 1 = k
    BY <1>2, <1>13
  <2>2. PICK at : Selects(at, g[k], s, I, k)
    BY <1>13
  <2>3. Len(g[k]) \in Nat
    BY <2>1, LenProperties
  <2>4. CASE k + 1 \notin I
    <3>1. g[k + 1] = g[k]
      BY <1>11, <2>1, <2>4
    <3>2. {i \in 1 .. k + 1 : i \in I} = {i \in 1 .. k : i \in I}
      BY <2>1, <2>4
    <3>3. \A i \in 1 .. k + 1 : i \in I => i \in 1 .. k
      BY <2>1, <2>4
    <3>4. Selects(at, g[k + 1], s, I, k + 1)
      BY <2>2, <3>1, <3>2, <3>3 DEF Selects
    <3>5. QED
      BY <2>1, <3>1, <3>4
  <2>5. CASE k + 1 \in I
    <3>1. g[k + 1] = Append(g[k], s[k + 1]) /\ s[k + 1] \in T
      BY <1>2, <1>11, <2>1, <2>5
    <3>2. PICK m, u : m = Len(g[k]) /\ u = g[k + 1]
      OBVIOUS
    <3>3. /\ u \in Seq(T) /\ Len(u) = m + 1
          /\ \A i \in 1 .. m : u[i] = g[k][i]
          /\ u[m + 1] = s[k + 1]
      BY <2>1, <3>1, <3>2, AppendProperties
    <3>4. PICK new : new = [i \in 1 .. m + 1 |-> IF i = m + 1 THEN k + 1 ELSE at[i]]
      OBVIOUS
    <3>5. \A i \in 1 .. m : at[i] \in 1 .. k /\ at[i] \in I
      BY <2>2, <3>2 DEF Selects
    <3>6. \A i \in 1 .. m : new[i] = at[i]
      BY <2>3, <3>2, <3>4
    <3>7. new[m + 1] = k + 1
      BY <2>3, <3>2, <3>4
    <3>8. \A i \in 1 .. m + 1 : i = m + 1 \/ i \in 1 .. m
      BY <2>3, <3>2
    <3>9. \A i \in 1 .. m + 1 : new[i] \in {j \in 1 .. k + 1 : j \in I}
      BY <2>1, <2>5, <3>5, <3>6, <3>7, <3>8
    <3>10. new \in [1 .. m + 1 -> {j \in 1 .. k + 1 : j \in I}]
      BY <3>4, <3>9
    <3>11. \A i, j \in 1 .. m + 1 : i < j => new[i] < new[j]
      <4> SUFFICES ASSUME NEW i \in 1 .. m + 1, NEW j \in 1 .. m + 1, i < j
                   PROVE  new[i] < new[j]
        OBVIOUS
      <4>1. i \in 1 .. m
        BY <2>3, <3>2
      <4>2. CASE j = m + 1
        BY <2>1, <3>5, <3>6, <3>7, <4>1, <4>2
      <4>3. CASE j \in 1 .. m
        BY <2>2, <3>2, <3>6, <4>1, <4>3 DEF Selects
      <4>4. QED
        BY <3>8, <4>2, <4>3
    <3>12. \A i \in 1 .. m + 1 : u[i] = s[new[i]]
      <4>1. \A i \in 1 .. m : u[i] = s[new[i]]
        BY <2>2, <3>2, <3>3, <3>6 DEF Selects
      <4>2. QED
        BY <3>3, <3>7, <3>8, <4>1
    <3>13. ASSUME NEW i \in 1 .. k + 1, i \in I
           PROVE  \E j \in 1 .. m + 1 : new[j] = i
      <4>1. CASE i = k + 1
        <5>1. m + 1 \in 1 .. m + 1
          BY <2>3, <3>2
        <5>2. QED
          BY <3>7, <4>1, <5>1
      <4>2. CASE i # k + 1
        <5>1. i \in 1 .. k
          BY <2>1, <4>2
        <5>2. PICK j \in 1 .. m : at[j] = i
          BY <2>2, <3>2, <3>13, <5>1 DEF Selects
        <5>3. j \in 1 .. m + 1
          BY <2>3, <3>2
        <5>4. QED
          BY <3>6, <5>2, <5>3
      <4>3. QED
        BY <4>1, <4>2
    <3>14. Selects(new, u, s, I, k + 1)
      BY <3>3, <3>10, <3>11, <3>12, <3>13 DEF Selects
    <3>15. QED
      BY <2>1, <3>2, <3>3, <3>14
  <2>6. QED
    BY <2>4, <2>5
<1>14. n \in J
  <2> HIDE DEF J
  <2>1. n \in 0 .. n
    BY <1>2
  <2>2. QED
    BY <1>2, <1>12, <1>13, <2>1, UpTo
<1>15. QED
  BY <1>1, <1>10, <1>14

\* A function on the numbers up to n is a sequence.
LEMMA IsSeq ==
    ASSUME NEW n \in Nat, NEW T, NEW s \in [1 .. n -> T]
    PROVE  s \in Seq(T) /\ Len(s) = n
<1>1. s \in Seq(T)
  BY SeqDef
<1>2. Len(s) \in Nat /\ DOMAIN s = 1 .. Len(s)
  BY <1>1, LenProperties
<1>3. 1 .. Len(s) = 1 .. n
  BY <1>2
<1>4. QED
  BY <1>1, <1>2, <1>3

\* A concatenation has the elements of one sequence, then those of the other.
Joins(u, s, t) ==
    /\ Len(s) \in Nat /\ Len(t) \in Nat /\ Len(u) = Len(s) + Len(t)
    /\ \A i \in 1 .. Len(s) : u[i] = s[i]
    /\ \A i \in 1 .. Len(t) : u[Len(s) + i] = t[i]

\* A concatenation of sequences is one.
LEMMA ConcatIs ==
    ASSUME NEW T, NEW s \in Seq(T), NEW t \in Seq(T)
    PROVE  s \o t \in Seq(T) /\ Joins(s \o t, s, t)
<1>1. PICK m, n, u : m = Len(s) /\ n = Len(t) /\ u = s \o t
  OBVIOUS
<1>2. m \in Nat /\ n \in Nat
  BY <1>1, LenProperties
<1>3. /\ u \in Seq(T) /\ Len(u) = m + n
      /\ \A i \in 1 .. m + n : u[i] = IF i <= m THEN s[i] ELSE t[i - m]
  BY <1>1, ConcatProperties
<1>4. \A i \in 1 .. m : u[i] = s[i]
  BY <1>2, <1>3
<1>5. ASSUME NEW i \in 1 .. n PROVE u[m + i] = t[i]
  <2>1. m + i \in 1 .. m + n /\ ~ (m + i <= m) /\ (m + i) - m = i
    BY <1>2
  <2>2. QED
    BY <1>3, <2>1
<1>6. QED
  BY <1>1, <1>2, <1>3, <1>4, <1>5 DEF Joins

-----------------------------------------------------------------------------
(* The trait Data for each kind of object *)

\* The trait of a wall is what wall.rs implements.
LEMMA OfWall ==
    ASSUME NEW obj, obj.kind = "Wall"
    PROVE  /\ \A t, i : GetResult(obj, t, i) = W!GetResult(obj, t, i)
           /\ \A t : GetResultsForType(obj, t) = W!GetResultsForType(obj, t)
           /\ GetRefs(obj) = W!GetRefs(obj)
           /\ \A t : GetAvailableRefs(obj, t) = W!GetAvailableRefs(obj, t)
           /\ \A t, i, result, other, snap_pt :
                 SetRef(obj, t, i, result, other, snap_pt) = W!SetRef(obj, t, i, result, other)
           /\ \A t, result, other : AddRef(obj, t, result, other) = W!AddRef(obj, t, result, other)
           /\ \A t, i : DeleteRef(obj, t, i) = W!DeleteRef(obj, t, i)
           /\ \A t, i, result :
                 SetAssociatedResult(obj, t, i, result) = W!SetAssociatedResult(obj, t, i, result)
           /\ \A delta : MoveObj(obj, delta) = W!MoveObj(obj, delta)
  BY DEF GetResult, GetResultsForType, GetRefs, GetAvailableRefs, SetRef, AddRef, DeleteRef,
         SetAssociatedResult, MoveObj

\* The trait of a door is what door.rs implements; nothing is added to it.
LEMMA OfDoor ==
    ASSUME NEW obj, obj.kind = "Door"
    PROVE  /\ \A t, i : GetResult(obj, t, i) = D!GetResult(obj, t, i)
           /\ \A t : GetResultsForType(obj, t) = D!GetResultsForType(obj, t)
           /\ GetRefs(obj) = D!GetRefs(obj)
           /\ \A t : GetAvailableRefs(obj, t) = D!GetAvailableRefs(obj, t)
           /\ \A t, i, result, other, snap_pt :
                 SetRef(obj, t, i, result, other, snap_pt) =
                     D!SetRef(obj, t, i, result, other, snap_pt)
           /\ \A t, result, other : AddRef(obj, t, result, other) = None
           /\ \A t, i : DeleteRef(obj, t, i) = D!DeleteRef(obj, t, i)
           /\ \A t, i, result :
                 SetAssociatedResult(obj, t, i, result) = D!SetAssociatedResult(obj, t, i, result)
           /\ \A delta : MoveObj(obj, delta) = D!MoveObj(obj, delta)
  BY DEF GetResult, GetResultsForType, GetRefs, GetAvailableRefs, SetRef, AddRef, DeleteRef,
         SetAssociatedResult, MoveObj

\* The trait of a group: it has no results and nothing to set.
LEMMA OfGroup ==
    ASSUME NEW obj, obj.kind = "VisibilityGroup"
    PROVE  /\ \A t, i : GetResult(obj, t, i) = None
           /\ \A t : GetResultsForType(obj, t) = << >>
           /\ GetRefs(obj) = G!GetRefs(obj)
           /\ \A t : GetAvailableRefs(obj, t) = {}
           /\ \A t, i, result, other, snap_pt : SetRef(obj, t, i, result, other, snap_pt) = obj
           /\ \A t, result, other : AddRef(obj, t, result, other) = G!AddRef(obj, t, other)
           /\ \A t, i : DeleteRef(obj, t, i) = G!DeleteRef(obj, t, i)
           /\ \A t, i, result :
                 SetAssociatedResult(obj, t, i, result) = G!SetAssociatedResult(obj, t, i, result)
           /\ \A delta : MoveObj(obj, delta) = obj
  BY DEF GetResult, GetResultsForType, GetRefs, GetAvailableRefs, SetRef, AddRef, DeleteRef,
         SetAssociatedResult, MoveObj

\* The trait of a sheet: it refers to nothing.
LEMMA OfSheet ==
    ASSUME NEW obj, obj.kind = "Sheet"
    PROVE  /\ \A t, i : GetResult(obj, t, i) = P!GetResult(obj, t, i)
           /\ \A t : GetResultsForType(obj, t) = P!GetResultsForType(obj, t)
           /\ GetRefs(obj) = << >>
           /\ \A t, i, result : SetAssociatedResult(obj, t, i, result) = obj
           /\ \A delta : MoveObj(obj, delta) = obj
  BY DEF GetResult, GetResultsForType, GetRefs, SetAssociatedResult, MoveObj

\* The trait of a viewport: it has one reference and nothing that follows.
LEMMA OfViewport ==
    ASSUME NEW obj, obj.kind = "Viewport"
    PROVE  /\ \A t, i : GetResult(obj, t, i) = V!GetResult(obj, t, i)
           /\ \A t : GetResultsForType(obj, t) = V!GetResultsForType(obj, t)
           /\ GetRefs(obj) = V!GetRefs(obj)
           /\ \A t, i, result : SetAssociatedResult(obj, t, i, result) = obj
           /\ \A delta : MoveObj(obj, delta) = obj
  BY DEF GetResult, GetResultsForType, GetRefs, SetAssociatedResult, MoveObj

-----------------------------------------------------------------------------
(* Types: R is the set of the pieces that may be referred to *)

Results == {None, Empty, Cube(0, 0)} \cup PointResults \cup LineResults \cup PlaneResults

Fractions == {f \in Nat \X Nat : f[2] > 0 /\ f[1] <= f[2]}
WallsOf(x, R) ==
    [kind : {"Wall"}, id : {x},
     pts : [1 .. 2 -> [refer : Slot(R), info : PointResults]],
     openings : Seq([refer : Slot(R), info : PlaneResults] \cup {None})]
Segments(R) == [refer : Slot(R), line : LineResults, length : Nat, interp : Fractions]
DoorsOf(x, R) == [kind : {"Door"}, id : {x}, dir : Segments(R)]
GroupsOf(x, R) == [kind : {"VisibilityGroup"}, id : {x}, children : Seq(Slot(R))]
SheetsOf(x) == [kind : {"Sheet"}, id : {x}]
ViewportsOf(x, R) == [kind : {"Viewport"}, id : {x}, sheet : {r.id : r \in R} \cup {None}]
Objects(x, R) ==
    WallsOf(x, R) \cup DoorsOf(x, R) \cup GroupsOf(x, R) \cup SheetsOf(x) \cup ViewportsOf(x, R)

\* The results of a wall are well typed.
LEMMA WallResult ==
    ASSUME NEW x, NEW R, NEW wall \in WallsOf(x, R), NEW t, NEW i
    PROVE  /\ W!GetResult(wall, t, i) \in Results
           /\ t = "ProfilePoint" /\ i \in 1 .. 2 => W!GetResult(wall, t, i) = wall.pts[i].info
           /\ t = "ProfilePlane" /\ i \in DOMAIN wall.openings =>
                 W!GetResult(wall, t, i) =
                     IF wall.openings[i] # None THEN wall.openings[i].info ELSE None
           /\ t = "ProfileLine" =>
                 W!GetResult(wall, t, i) =
                     IF i = 1 THEN Line(wall.pts[1].info.at, wall.pts[2].info.at) ELSE None
<1>1. /\ \A k \in 1 .. 2 : wall.pts[k].info \in PointResults
      /\ 1 \in 1 .. 2 /\ 2 \in 1 .. 2 /\ DOMAIN wall.pts = 1 .. 2
  BY DEF WallsOf
<1>2. \A k \in DOMAIN wall.openings : wall.openings[k] # None => wall.openings[k].info \in PlaneResults
  <2>1. wall.openings \in Seq([refer : Slot(R), info : PlaneResults] \cup {None})
    BY DEF WallsOf
  <2>2. \A k \in DOMAIN wall.openings :
            wall.openings[k] \in [refer : Slot(R), info : PlaneResults] \cup {None}
    BY <2>1, ElementOfSeq, LenProperties
  <2>3. QED
    BY <2>2
<1>3. Line(W!First(wall), W!Second(wall)) \in LineResults
  BY <1>1 DEF PointResults, LineResults, Line, W!First, W!Second
<1>4. CASE t \in {"Drawable", "Existence"}
  <2>1. W!GetResult(wall, t, i) = Empty
    BY <1>4 DEF W!GetResult, W!Empty, Empty
  <2>2. QED
    BY <1>4, <2>1 DEF Results
<1>5. CASE t = "AxisAlignedBoundBox"
  <2>1. W!GetResult(wall, t, i) \in {Cube(0, 0), None}
    BY <1>5 DEF W!GetResult, W!Cube, Cube
  <2>2. QED
    BY <1>5, <2>1 DEF Results
<1>6. CASE t = "ProfilePoint"
  <2>1. W!GetResult(wall, t, i) = IF i \in DOMAIN wall.pts THEN wall.pts[i].info ELSE None
    BY <1>6 DEF W!GetResult
  <2>2. QED
    BY <1>1, <1>6, <2>1 DEF Results
<1>7. CASE t = "ProfileLine"
  <2>1. W!GetResult(wall, t, i) = IF i = 1 THEN Line(W!First(wall), W!Second(wall)) ELSE None
    BY <1>7 DEF W!GetResult, W!Line, Line
  <2>2. QED
    BY <1>3, <1>7, <2>1 DEF Results, W!First, W!Second
<1>8. CASE t = "ProfilePlane"
  <2>1. W!GetResult(wall, t, i) =
            IF i \in DOMAIN wall.openings /\ wall.openings[i] # None
            THEN wall.openings[i].info ELSE None
    BY <1>8 DEF W!GetResult
  <2>2. QED
    BY <1>2, <1>8, <2>1 DEF Results
<1>9. CASE t \notin RefType
  <2>1. W!GetResult(wall, t, i) = None
    BY <1>9 DEF W!GetResult, RefType
  <2>2. QED
    BY <1>9, <2>1 DEF Results, RefType
<1>10. QED
  BY <1>4, <1>5, <1>6, <1>7, <1>8, <1>9 DEF RefType

\* What a kind of result is.
LEMMA ResultKinds ==
    ASSUME NEW result \in Results, result # None
    PROVE  /\ result.kind = "Point" => result \in PointResults
           /\ result.kind = "Line" => result \in LineResults
           /\ result.kind = "Plane" => result \in PlaneResults
  BY DEF Results, Empty, Cube, PointResults, LineResults, PlaneResults

\* Information keeps its type when it follows a reference, which is kept or
\* given up; to follow the same result again changes nothing.
LEMMA FollowingPoint ==
    ASSUME NEW R, NEW u \in [refer : Slot(R), info : PointResults], NEW result \in Results
    PROVE  /\ W!Updated(u, result) \in [refer : Slot(R), info : PointResults]
           /\ W!Updated(u, result).refer \in {u.refer, None}
           /\ W!Updated(W!Updated(u, result), result) = W!Updated(u, result)
<1>1. CASE result = None
  <2>1. W!Updated(u, result) = [u EXCEPT !.refer = None]
    BY <1>1 DEF W!Updated
  <2>2. W!Updated(W!Updated(u, result), result) = [[u EXCEPT !.refer = None] EXCEPT !.refer = None]
    BY <1>1, <2>1 DEF W!Updated
  <2>3. QED
    BY <2>1, <2>2 DEF Slot
<1>2. CASE result # None /\ result.kind = u.info.kind
  <2>1. W!Updated(u, result) = [u EXCEPT !.info = result]
    BY <1>2 DEF W!Updated
  <2>2. result \in PointResults /\ result.kind = "Point"
    BY <1>2, ResultKinds DEF PointResults
  <2>3. W!Updated(W!Updated(u, result), result) = [[u EXCEPT !.info = result] EXCEPT !.info = result]
    BY <1>2, <2>1, <2>2 DEF W!Updated
  <2>4. QED
    BY <2>1, <2>2, <2>3 DEF Slot
<1>3. CASE result # None /\ result.kind # u.info.kind
  <2>1. W!Updated(u, result) = u
    BY <1>3 DEF W!Updated
  <2>2. QED
    BY <2>1
<1>4. QED
  BY <1>1, <1>2, <1>3

\* An opening gives up its reference or follows it, and following again changes
\* nothing.
LEMMA FollowingPlane ==
    ASSUME NEW R, NEW u \in [refer : Slot(R), info : PlaneResults], NEW result \in Results
    PROVE  /\ W!Updated(u, result) \in [refer : Slot(R), info : PlaneResults]
           /\ W!Updated(u, result).refer \in {u.refer, None}
           /\ W!Updated(W!Updated(u, result), result) = W!Updated(u, result)
<1>1. CASE result = None
  <2>1. W!Updated(u, result) = [u EXCEPT !.refer = None]
    BY <1>1 DEF W!Updated
  <2>2. W!Updated(W!Updated(u, result), result) = [[u EXCEPT !.refer = None] EXCEPT !.refer = None]
    BY <1>1, <2>1 DEF W!Updated
  <2>3. QED
    BY <2>1, <2>2 DEF Slot
<1>2. CASE result # None /\ result.kind = u.info.kind
  <2>1. W!Updated(u, result) = [u EXCEPT !.info = result]
    BY <1>2 DEF W!Updated
  <2>2. result \in PlaneResults /\ result.kind = "Plane"
    BY <1>2, ResultKinds DEF PlaneResults
  <2>3. W!Updated(W!Updated(u, result), result) = [[u EXCEPT !.info = result] EXCEPT !.info = result]
    BY <1>2, <2>1, <2>2 DEF W!Updated
  <2>4. QED
    BY <2>1, <2>2, <2>3 DEF Slot
<1>3. CASE result # None /\ result.kind # u.info.kind
  <2>1. W!Updated(u, result) = u
    BY <1>3 DEF W!Updated
  <2>2. QED
    BY <2>1
<1>4. QED
  BY <1>1, <1>2, <1>3

\* What a wall refers to: its ends in the slots 1 and 2, its openings in those
\* from 7 on, and in between box and line, which refer to its own ends.
SlotOf(u, owner) ==
    IF u = None THEN None ELSE IF u.refer = None THEN None ELSE Reference(owner, u.refer)
AreWallRefs(refs, wall, x) ==
    /\ Len(wall.openings) \in Nat
    /\ DOMAIN refs = 1 .. Len(wall.openings) + 6
    /\ Len(refs) = Len(wall.openings) + 6
    /\ \A i \in 1 .. 2 : refs[i] = SlotOf(wall.pts[i], RefID(x, "ProfilePoint", i))
    /\ refs[3] = Reference(RefID(x, "AxisAlignedBoundBox", 1), RefID(x, "ProfilePoint", 1))
    /\ refs[4] = Reference(RefID(x, "AxisAlignedBoundBox", 1), RefID(x, "ProfilePoint", 2))
    /\ refs[5] = Reference(RefID(x, "ProfileLine", 1), RefID(x, "ProfilePoint", 1))
    /\ refs[6] = Reference(RefID(x, "ProfileLine", 1), RefID(x, "ProfilePoint", 2))
    /\ \A i \in 1 .. Len(wall.openings) :
          refs[i + 6] = SlotOf(wall.openings[i], RefID(x, "ProfilePlane", i))

\* What get_refs returns for a wall.
LEMMA WallRefs ==
    ASSUME NEW x, NEW R, NEW wall \in WallsOf(x, R)
    PROVE  AreWallRefs(W!GetRefs(wall), wall, x)
<1>1. /\ wall.id = x /\ DOMAIN wall.pts = 1 .. 2
      /\ wall.openings \in Seq([refer : Slot(R), info : PlaneResults] \cup {None})
  BY DEF WallsOf
<1>2. PICK n : n = Len(wall.openings)
  OBVIOUS
<1>3. n \in Nat /\ DOMAIN wall.openings = 1 .. n
  BY <1>1, <1>2, LenProperties
<1>4. PICK ends, box, line, planes :
          /\ ends = [i \in 1 .. 2 |-> SlotOf(wall.pts[i], RefID(x, "ProfilePoint", i))]
          /\ box = <<Reference(RefID(x, "AxisAlignedBoundBox", 1), RefID(x, "ProfilePoint", 1)),
                     Reference(RefID(x, "AxisAlignedBoundBox", 1), RefID(x, "ProfilePoint", 2))>>
          /\ line = <<Reference(RefID(x, "ProfileLine", 1), RefID(x, "ProfilePoint", 1)),
                      Reference(RefID(x, "ProfileLine", 1), RefID(x, "ProfilePoint", 2))>>
          /\ planes = [i \in 1 .. n |-> SlotOf(wall.openings[i], RefID(x, "ProfilePlane", i))]
  OBVIOUS
<1>5. W!GetRefs(wall) = ends \o box \o line \o planes
  BY <1>1, <1>3, <1>4 DEF W!GetRefs, W!RefID, W!Reference, RefID, Reference, SlotOf
<1> DEFINE T == Range(ends) \cup Range(box) \cup Range(line) \cup Range(planes)
<1>6. ends \in Seq(T) /\ Len(ends) = 2
  <2>1. ends \in [1 .. 2 -> T]
    BY <1>4 DEF Range
  <2> HIDE DEF T
  <2>2. QED
    BY <2>1, IsSeq
<1>7. box \in Seq(T) /\ Len(box) = 2 /\ line \in Seq(T) /\ Len(line) = 2
  <2>1. box[1] \in T /\ box[2] \in T /\ line[1] \in T /\ line[2] \in T
    BY <1>4 DEF Range
  <2>2. QED
    BY <1>4, <2>1
<1>8. planes \in Seq(T) /\ Len(planes) = n
  <2>1. planes \in [1 .. n -> T]
    BY <1>4 DEF Range
  <2> HIDE DEF T
  <2>2. QED
    BY <1>3, <2>1, IsSeq
<1> HIDE DEF T
<1>9. PICK s : s = ends \o box
  OBVIOUS
<1>10. /\ s \in Seq(T) /\ Len(s) = 4
       /\ \A i \in 1 .. 2 : s[i] = ends[i]
       /\ \A i \in 1 .. 2 : s[2 + i] = box[i]
  <2>1. s \in Seq(T) /\ Joins(s, ends, box)
    BY <1>6, <1>7, <1>9, ConcatIs
  <2>2. QED
    BY <1>6, <1>7, <2>1 DEF Joins
<1>11. PICK t : t = s \o line
  OBVIOUS
<1>12. /\ t \in Seq(T) /\ Len(t) = 6
       /\ \A i \in 1 .. 4 : t[i] = s[i]
       /\ \A i \in 1 .. 2 : t[4 + i] = line[i]
  <2>1. t \in Seq(T) /\ Joins(t, s, line)
    BY <1>7, <1>10, <1>11, ConcatIs
  <2>2. QED
    BY <1>7, <1>10, <2>1 DEF Joins
<1>13. PICK refs : refs = t \o planes
  OBVIOUS
<1>14. /\ refs \in Seq(T) /\ Len(refs) = 6 + n
       /\ \A i \in 1 .. 6 : refs[i] = t[i]
       /\ \A i \in 1 .. n : refs[6 + i] = planes[i]
  <2>1. refs \in Seq(T) /\ Joins(refs, t, planes)
    BY <1>8, <1>12, <1>13, ConcatIs
  <2>2. QED
    BY <1>8, <1>12, <2>1 DEF Joins
<1>15. refs = W!GetRefs(wall)
  BY <1>5, <1>9, <1>11, <1>13
<1>16. DOMAIN refs = 1 .. n + 6 /\ Len(refs) = n + 6
  BY <1>3, <1>14, LenProperties
<1>17. \A i \in 1 .. 2 : refs[i] = SlotOf(wall.pts[i], RefID(x, "ProfilePoint", i))
  <2>1. \A i \in 1 .. 2 : refs[i] = ends[i]
    BY <1>10, <1>12, <1>14
  <2>2. QED
    BY <1>4, <2>1
<1>18. refs[3] = box[1] /\ refs[4] = box[2] /\ refs[5] = line[1] /\ refs[6] = line[2]
  <2>1. refs[3] = t[3] /\ refs[4] = t[4] /\ refs[5] = t[5] /\ refs[6] = t[6]
    BY <1>14
  <2>2. t[3] = s[3] /\ t[4] = s[4]
    BY <1>12
  <2>3. s[2 + 1] = box[1] /\ s[2 + 2] = box[2] /\ t[4 + 1] = line[1] /\ t[4 + 2] = line[2]
    BY <1>10, <1>12
  <2>4. QED
    BY <2>1, <2>2, <2>3
<1>19. \A i \in 1 .. n : refs[i + 6] = SlotOf(wall.openings[i], RefID(x, "ProfilePlane", i))
  <2> SUFFICES ASSUME NEW i \in 1 .. n
               PROVE  refs[i + 6] = SlotOf(wall.openings[i], RefID(x, "ProfilePlane", i))
    OBVIOUS
  <2>1. refs[6 + i] = planes[i] /\ 6 + i = i + 6
    BY <1>14
  <2>2. QED
    BY <1>4, <2>1
<1>20. QED
  BY <1>2, <1>3, <1>4, <1>15, <1>16, <1>17, <1>18, <1>19 DEF AreWallRefs

-----------------------------------------------------------------------------
(* Slots: where an object refers to others *)

\* Slots stay, and keep their reference or lose it.
OnlyClears(before, after) ==
    /\ DOMAIN GetRefs(after) = DOMAIN GetRefs(before)
    /\ \A i \in DOMAIN GetRefs(before) : GetRefs(after)[i] \in {GetRefs(before)[i], None}

\* Walls of which one's slots have the references of the other's, or none.
LEMMA WallOnlyClears ==
    ASSUME NEW x, NEW R, NoneIsApart(R),
           NEW before \in WallsOf(x, R), NEW after \in WallsOf(x, R),
           Len(after.openings) = Len(before.openings),
           \A i \in 1 .. 2 : after.pts[i].refer \in {before.pts[i].refer, None},
           \A i \in 1 .. Len(before.openings) :
               \/ after.openings[i] = None
               \/ /\ before.openings[i] # None
                  /\ after.openings[i].refer \in {before.openings[i].refer, None}
    PROVE  OnlyClears(before, after)
<1> DEFINE old == W!GetRefs(before)
           new == W!GetRefs(after)
<1>1. PICK n : n = Len(before.openings)
  OBVIOUS
<1>2. /\ n \in Nat /\ DOMAIN old = 1 .. n + 6 /\ DOMAIN new = 1 .. n + 6
      /\ \A i \in 1 .. 2 : /\ old[i] = SlotOf(before.pts[i], RefID(x, "ProfilePoint", i))
                           /\ new[i] = SlotOf(after.pts[i], RefID(x, "ProfilePoint", i))
      /\ old[3] = new[3] /\ old[4] = new[4] /\ old[5] = new[5] /\ old[6] = new[6]
      /\ \A i \in 1 .. n :
            /\ old[i + 6] = SlotOf(before.openings[i], RefID(x, "ProfilePlane", i))
            /\ new[i + 6] = SlotOf(after.openings[i], RefID(x, "ProfilePlane", i))
  <2>1. AreWallRefs(old, before, x) /\ AreWallRefs(new, after, x)
    BY WallRefs
  <2> HIDE DEF old, new
  <2>2. QED
    BY <1>1, <2>1 DEF AreWallRefs
<1>3. \A u, v, owner : v = None \/ (u # None /\ v.refer \in {u.refer, None}) =>
                           SlotOf(v, owner) \in {SlotOf(u, owner), None}
  BY DEF SlotOf
<1>4. \A i \in 1 .. 2 : before.pts[i] # None
  BY DEF WallsOf, NoneIsApart
<1>5. \A i \in 1 .. 2 : new[i] \in {old[i], None}
  BY <1>2, <1>3, <1>4
<1>6. ASSUME NEW i \in 1 .. n PROVE new[i + 6] \in {old[i + 6], None}
  <2>1. /\ old[i + 6] = SlotOf(before.openings[i], RefID(x, "ProfilePlane", i))
        /\ new[i + 6] = SlotOf(after.openings[i], RefID(x, "ProfilePlane", i))
    BY <1>2
  <2> HIDE DEF old, new
  <2>2. QED
    BY <1>1, <1>3, <2>1
<1>7. ASSUME NEW i \in 1 .. n + 6 PROVE new[i] \in {old[i], None}
  <2>1. CASE i \in 1 .. 2
    BY <1>5, <2>1
  <2>2. CASE i \in {3, 4, 5, 6}
    BY <1>2, <2>2
  <2>3. CASE i > 6
    <3>1. i - 6 \in 1 .. n /\ (i - 6) + 6 = i
      BY <1>2, <2>3
    <3>2. QED
      BY <1>6, <3>1
  <2>4. QED
    BY <1>2, <2>1, <2>2, <2>3
<1>8. GetRefs(before) = old /\ GetRefs(after) = new
  <2>1. before.kind = "Wall" /\ after.kind = "Wall"
    BY DEF WallsOf
  <2>2. QED
    BY <2>1, OfWall
<1>9. QED
  BY <1>2, <1>7, <1>8 DEF OnlyClears

\* A wall stays a wall when one of its ends or openings follows a result, in
\* whatever slot, and following the same result again changes nothing.
LEMMA WallFollows ==
    ASSUME NEW x, NEW R, NoneIsApart(R),
           NEW wall \in WallsOf(x, R), NEW t, NEW i, NEW result \in Results
    PROVE  LET after == W!SetAssociatedResult(wall, t, i, result)
           IN  /\ after \in WallsOf(x, R)
               /\ OnlyClears(wall, after)
               /\ W!SetAssociatedResult(after, t, i, result) = after
<1> DEFINE after == W!SetAssociatedResult(wall, t, i, result)
           Openings == [refer : Slot(R), info : PlaneResults] \cup {None}
<1>1. /\ wall = [kind |-> "Wall", id |-> x, pts |-> wall.pts, openings |-> wall.openings]
      /\ wall.pts \in [1 .. 2 -> [refer : Slot(R), info : PointResults]]
      /\ wall.openings \in Seq(Openings)
  BY DEF WallsOf
<1>2. /\ Len(wall.openings) \in Nat /\ DOMAIN wall.openings = 1 .. Len(wall.openings)
      /\ \A k \in 1 .. Len(wall.openings) : wall.openings[k] \in Openings
  BY <1>1, LenProperties, ElementOfSeq
<1>3. CASE t = "ProfilePoint" /\ i \in 1 .. 2
  <2>1. PICK u, v : u = wall.pts[i] /\ v = W!Updated(u, result)
    OBVIOUS
  <2>2. /\ v \in [refer : Slot(R), info : PointResults]
        /\ v.refer \in {u.refer, None} /\ W!Updated(v, result) = v
    BY <1>1, <1>3, <2>1, FollowingPoint
  <2>3. after = [wall EXCEPT !.pts[i] = v]
    BY <1>3, <2>1 DEF W!SetAssociatedResult
  <2>4. after \in WallsOf(x, R)
    BY <1>1, <1>3, <2>2, <2>3 DEF WallsOf
  <2>5. OnlyClears(wall, after)
    <3>1. after.openings = wall.openings
      BY <1>1, <2>3
    <3>2. \A k \in 1 .. 2 : after.pts[k].refer \in {wall.pts[k].refer, None}
      BY <1>1, <1>3, <2>1, <2>2, <2>3
    <3>3. \A k \in 1 .. Len(wall.openings) :
              \/ after.openings[k] = None
              \/ /\ wall.openings[k] # None
                 /\ after.openings[k].refer \in {wall.openings[k].refer, None}
      BY <3>1
    <3>4. QED
      BY <2>4, <3>1, <3>2, <3>3, WallOnlyClears
  <2>6. W!SetAssociatedResult(after, t, i, result) = [after EXCEPT !.pts[i] = W!Updated(after.pts[i], result)]
    BY <1>3 DEF W!SetAssociatedResult
  <2>7. after.pts[i] = v
    BY <1>1, <1>3, <2>3
  <2>8. [after EXCEPT !.pts[i] = v] = after
    BY <1>1, <1>3, <2>3
  <2>9. QED
    BY <2>2, <2>4, <2>5, <2>6, <2>7, <2>8
<1>4. CASE t = "ProfilePlane" /\ i \in DOMAIN wall.openings /\ wall.openings[i] # None
  <2>1. PICK u, v : u = wall.openings[i] /\ v = W!Updated(u, result)
    OBVIOUS
  <2>2. u \in [refer : Slot(R), info : PlaneResults]
    BY <1>2, <1>4, <2>1
  <2>3. /\ v \in [refer : Slot(R), info : PlaneResults]
        /\ v.refer \in {u.refer, None} /\ W!Updated(v, result) = v
    BY <2>1, <2>2, FollowingPlane
  <2>4. after = [wall EXCEPT !.openings[i] = v]
    BY <1>4, <2>1 DEF W!SetAssociatedResult
  <2>5. PICK o : o = [wall.openings EXCEPT ![i] = v]
    OBVIOUS
  <2>6. o \in Seq(Openings) /\ Len(o) = Len(wall.openings)
    BY <1>1, <1>2, <1>4, <2>3, <2>5, ExceptSeq
  <2>7. after = [wall EXCEPT !.openings = o]
    BY <2>4, <2>5
  <2>8. after \in WallsOf(x, R)
    BY <1>1, <2>6, <2>7 DEF WallsOf
  <2>9. OnlyClears(wall, after)
    <3>1. after.openings = o /\ after.pts = wall.pts
      BY <1>1, <2>7
    <3>2. \A k \in 1 .. Len(wall.openings) :
              \/ after.openings[k] = None
              \/ /\ wall.openings[k] # None
                 /\ after.openings[k].refer \in {wall.openings[k].refer, None}
      BY <1>2, <1>4, <2>1, <2>3, <2>5, <3>1
    <3>3. QED
      BY <2>6, <2>8, <3>1, <3>2, WallOnlyClears
  <2>10. W!SetAssociatedResult(after, t, i, result) = after
    <3>1. after.openings = o /\ i \in DOMAIN o /\ o[i] = v
      BY <1>1, <1>2, <1>4, <2>5, <2>7
    <3>2. CASE v = None
      BY <1>4, <3>1, <3>2 DEF W!SetAssociatedResult
    <3>3. CASE v # None
      <4>1. W!SetAssociatedResult(after, t, i, result) =
                [after EXCEPT !.openings[i] = W!Updated(after.openings[i], result)]
        BY <1>4, <3>1, <3>3 DEF W!SetAssociatedResult
      <4>2. [after EXCEPT !.openings[i] = v] = after
        <5>1. [o EXCEPT ![i] = v] = o
          BY <2>5, <3>1
        <5>2. [after EXCEPT !.openings = o] = after
          BY <1>1, <2>7
        <5>3. QED
          BY <3>1, <5>1, <5>2
      <4>3. QED
        BY <2>3, <3>1, <4>1, <4>2
    <3>4. QED
      BY <3>2, <3>3
  <2>11. QED
    BY <2>8, <2>9, <2>10
<1>5. CASE ~ (t = "ProfilePoint" /\ i \in 1 .. 2) /\
           ~ (t = "ProfilePlane" /\ i \in DOMAIN wall.openings /\ wall.openings[i] # None)
  <2>1. after = wall
    BY <1>5 DEF W!SetAssociatedResult
  <2>2. OnlyClears(wall, wall)
    BY DEF OnlyClears
  <2>3. QED
    BY <2>1, <2>2
<1>6. QED
  BY <1>3, <1>4, <1>5

\* What follows in one slot of a wall does not disturb what another slot holds.
LEMMA WallSlotsApart ==
    ASSUME NEW x, NEW R, NEW wall \in WallsOf(x, R),
           NEW t, NEW i, NEW result, NEW t2, NEW i2, NEW result2,
           t # t2 \/ i # i2,
           W!SetAssociatedResult(wall, t, i, result) = wall
    PROVE  LET after == W!SetAssociatedResult(wall, t2, i2, result2)
           IN  W!SetAssociatedResult(after, t, i, result) = after
<1> DEFINE after == W!SetAssociatedResult(wall, t2, i2, result2)
<1>1. /\ wall = [kind |-> "Wall", id |-> x, pts |-> wall.pts, openings |-> wall.openings]
      /\ DOMAIN wall.pts = 1 .. 2
      /\ wall.pts = [k \in 1 .. 2 |-> wall.pts[k]]
      /\ wall.openings = [k \in DOMAIN wall.openings |-> wall.openings[k]]
  <2>1. wall.openings \in Seq([refer : Slot(R), info : PlaneResults] \cup {None})
    BY DEF WallsOf
  <2>2. wall.openings = [k \in DOMAIN wall.openings |-> wall.openings[k]]
    BY <2>1, LenProperties
  <2>3. QED
    BY <2>2 DEF WallsOf
<1> DEFINE Only(p, o) ==
               /\ after = [wall EXCEPT !.pts = p, !.openings = o]
               /\ DOMAIN p = 1 .. 2 /\ DOMAIN o = DOMAIN wall.openings
               /\ p = [k \in 1 .. 2 |-> p[k]] /\ o = [k \in DOMAIN wall.openings |-> o[k]]
               /\ \A k \in 1 .. 2 : ~ (t2 = "ProfilePoint" /\ i2 = k) => p[k] = wall.pts[k]
               /\ \A k \in DOMAIN wall.openings :
                     ~ (t2 = "ProfilePlane" /\ i2 = k) => o[k] = wall.openings[k]
<1>2. PICK p, o : Only(p, o)
  <2>1. CASE t2 = "ProfilePoint" /\ i2 \in 1 .. 2
    <3>1. after = [wall EXCEPT !.pts[i2] = W!Updated(@, result2)]
      BY <2>1 DEF W!SetAssociatedResult
    <3>2. PICK p : p = [wall.pts EXCEPT ![i2] = W!Updated(@, result2)]
      OBVIOUS
    <3>3. /\ DOMAIN p = 1 .. 2 /\ p = [k \in 1 .. 2 |-> p[k]]
          /\ \A k \in 1 .. 2 : k # i2 => p[k] = wall.pts[k]
      BY <1>1, <3>2
    <3>4. after = [wall EXCEPT !.pts = p, !.openings = wall.openings]
      BY <1>1, <3>1, <3>2
    <3>5. Only(p, wall.openings)
      BY <1>1, <2>1, <3>3, <3>4
    <3> HIDE DEF Only
    <3>6. QED
      BY <3>5
  <2>2. CASE t2 = "ProfilePlane" /\ i2 \in DOMAIN wall.openings /\ wall.openings[i2] # None
    <3>1. after = [wall EXCEPT !.openings[i2] = W!Updated(@, result2)]
      BY <2>2 DEF W!SetAssociatedResult
    <3>2. PICK o : o = [wall.openings EXCEPT ![i2] = W!Updated(@, result2)]
      OBVIOUS
    <3>3. /\ DOMAIN o = DOMAIN wall.openings /\ o = [k \in DOMAIN wall.openings |-> o[k]]
          /\ \A k \in DOMAIN wall.openings : k # i2 => o[k] = wall.openings[k]
      BY <1>1, <3>2
    <3>4. after = [wall EXCEPT !.pts = wall.pts, !.openings = o]
      BY <1>1, <3>1, <3>2
    <3>5. Only(wall.pts, o)
      BY <1>1, <2>2, <3>3, <3>4
    <3> HIDE DEF Only
    <3>6. QED
      BY <3>5
  <2>3. CASE ~ (t2 = "ProfilePoint" /\ i2 \in 1 .. 2) /\
             ~ (t2 = "ProfilePlane" /\ i2 \in DOMAIN wall.openings /\ wall.openings[i2] # None)
    <3>1. after = wall
      BY <2>3 DEF W!SetAssociatedResult
    <3>2. after = [wall EXCEPT !.pts = wall.pts, !.openings = wall.openings]
      BY <1>1, <3>1
    <3>3. Only(wall.pts, wall.openings)
      BY <1>1, <3>2
    <3> HIDE DEF Only
    <3>4. QED
      BY <3>3
  <2>4. QED
    BY <2>1, <2>2, <2>3
<1>3. after.pts = p /\ after.openings = o
  BY <1>1, <1>2
<1> HIDE DEF after
<1>4. CASE t = "ProfilePoint" /\ i \in 1 .. 2
  <2>1. p[i] = wall.pts[i]
    BY <1>2, <1>4
  <2>2. [wall EXCEPT !.pts[i] = W!Updated(wall.pts[i], result)] = wall
    BY <1>4 DEF W!SetAssociatedResult
  <2>3. wall.pts[i] = W!Updated(wall.pts[i], result)
    BY <1>1, <1>4, <2>2
  <2>4. W!SetAssociatedResult(after, t, i, result) = [after EXCEPT !.pts[i] = p[i]]
    BY <1>3, <1>4, <2>1, <2>3 DEF W!SetAssociatedResult
  <2>5. [p EXCEPT ![i] = p[i]] = p
    BY <1>2, <1>4
  <2>6. [after EXCEPT !.pts[i] = p[i]] = after
    BY <1>1, <1>2, <1>3, <2>5
  <2>7. QED
    BY <2>4, <2>6 DEF after
<1>5. CASE t = "ProfilePlane" /\ i \in DOMAIN wall.openings /\ wall.openings[i] # None
  <2>1. o[i] = wall.openings[i] /\ o[i] # None /\ i \in DOMAIN o
    BY <1>2, <1>5
  <2>2. [wall EXCEPT !.openings[i] = W!Updated(wall.openings[i], result)] = wall
    BY <1>5 DEF W!SetAssociatedResult
  <2>3. wall.openings[i] = W!Updated(wall.openings[i], result)
    BY <1>1, <1>5, <2>2
  <2>4. W!SetAssociatedResult(after, t, i, result) = [after EXCEPT !.openings[i] = o[i]]
    BY <1>3, <1>5, <2>1, <2>3 DEF W!SetAssociatedResult
  <2>5. [o EXCEPT ![i] = o[i]] = o
    BY <1>2, <2>1
  <2>6. [after EXCEPT !.openings[i] = o[i]] = after
    BY <1>1, <1>2, <1>3, <2>5
  <2>7. QED
    BY <2>4, <2>6 DEF after
<1>6. CASE t = "ProfilePlane" /\ i \in DOMAIN wall.openings /\ wall.openings[i] = None
  <2>1. o[i] = None /\ i \in DOMAIN o
    BY <1>2, <1>6
  <2>2. W!SetAssociatedResult(after, t, i, result) = after
    BY <1>3, <1>6, <2>1 DEF W!SetAssociatedResult
  <2>3. QED
    BY <2>2 DEF after
<1>7. CASE ~ (t = "ProfilePoint" /\ i \in 1 .. 2) /\ ~ (t = "ProfilePlane" /\ i \in DOMAIN wall.openings)
  <2>1. W!SetAssociatedResult(after, t, i, result) = after
    BY <1>2, <1>3, <1>7 DEF W!SetAssociatedResult
  <2>2. QED
    BY <2>1 DEF after
<1>8. QED
  BY <1>4, <1>5, <1>6, <1>7

-----------------------------------------------------------------------------
(* The segment of a door *)

\* What lies between the ends of a line, whichever comes first.
IsBetween(p, line) ==
    \/ line.pt_1 <= p /\ p <= line.pt_2
    \/ line.pt_2 <= p /\ p <= line.pt_1

\* A fraction of a number is between zero and the number.
LEMMA FractionOf ==
    ASSUME NEW n \in Int, NEW f \in Fractions
    PROVE  /\ (n * f[1]) \div f[2] \in Int
           /\ n >= 0 => 0 <= (n * f[1]) \div f[2] /\ (n * f[1]) \div f[2] <= n
           /\ n <= 0 => n <= (n * f[1]) \div f[2] /\ (n * f[1]) \div f[2] <= 0
<1>1. PICK a, b : a = f[1] /\ b = f[2]
  OBVIOUS
<1>2. a \in Nat /\ b \in Nat /\ b > 0 /\ a <= b
  BY <1>1 DEF Fractions
<1>3. PICK m : m = n * a
  OBVIOUS
<1>4. PICK q : q = m \div b
  OBVIOUS
<1>5. m \in Int /\ q \in Int
  BY <1>2, <1>3, <1>4
<1>6. b * q <= m /\ m < b * q + b
  BY <1>2, <1>4, <1>5
<1>7. ASSUME n >= 0 PROVE 0 <= q /\ q <= n
  <2>1. 0 <= m /\ m <= n * b
    BY <1>2, <1>3, <1>7
  <2>2. 0 <= q
    <3>1. ASSUME q <= -1 PROVE FALSE
      <4>1. b * q <= -b
        BY <1>2, <1>5, <3>1
      <4>2. QED
        BY <1>2, <1>5, <1>6, <2>1, <4>1
    <3>2. QED
      BY <1>5, <3>1
  <2>3. q <= n
    <3>1. ASSUME q >= n + 1 PROVE FALSE
      <4>1. b * q >= b * n + b
        BY <1>2, <1>5, <3>1
      <4>2. b * n = n * b /\ b * n \in Int
        BY <1>2
      <4>3. QED
        BY <1>2, <1>5, <1>6, <2>1, <4>1, <4>2
    <3>2. QED
      BY <1>5, <3>1
  <2>4. QED
    BY <2>2, <2>3
<1>8. ASSUME n <= 0 PROVE n <= q /\ q <= 0
  <2>1. n * b <= m /\ m <= 0
    BY <1>2, <1>3, <1>8
  <2>2. q <= 0
    <3>1. ASSUME q >= 1 PROVE FALSE
      <4>1. b * q >= b
        BY <1>2, <1>5, <3>1
      <4>2. QED
        BY <1>2, <1>5, <1>6, <2>1, <4>1
    <3>2. QED
      BY <1>5, <3>1
  <2>3. n <= q
    <3>1. ASSUME q <= n - 1 PROVE FALSE
      <4>1. b * q <= b * n - b
        BY <1>2, <1>5, <3>1
      <4>2. b * n = n * b /\ b * n \in Int
        BY <1>2
      <4>3. QED
        BY <1>2, <1>5, <1>6, <2>1, <4>1, <4>2
    <3>2. QED
      BY <1>5, <3>1
  <2>4. QED
    BY <2>2, <2>3
<1>9. QED
  BY <1>1, <1>3, <1>4, <1>5, <1>7, <1>8

\* A segment keeps its type, its reference, and its place along the line it
\* follows; it starts on the line, and following the same line again changes
\* nothing.
LEMMA SegmentFollows ==
    ASSUME NEW R, NEW seg \in Segments(R), NEW result \in LineResults
    PROVE  LET after == D!LineSegUpdated(seg, result, None)
           IN  /\ after \in Segments(R)
               /\ after.refer = seg.refer /\ after.interp = seg.interp
               /\ D!LineSegUpdated(after, result, None) = after
               /\ result.pt_1 # NaN /\ result.pt_2 # NaN => IsBetween(after.line.pt_1, result)
<1> DEFINE after == D!LineSegUpdated(seg, result, None)
<1>1. /\ result.kind = "Line" /\ result.pt_1 \in Number /\ result.pt_2 \in Number
      /\ seg = [refer |-> seg.refer, line |-> seg.line, length |-> seg.length, interp |-> seg.interp]
      /\ seg.refer \in Slot(R) /\ seg.length \in Nat /\ seg.interp \in Fractions
  BY DEF LineResults, Segments
<1>2. CASE result.pt_1 = NaN \/ result.pt_2 = NaN
  <2>1. /\ after = [seg EXCEPT !.line = D!Line(NaN, NaN)]
        /\ D!LineSegUpdated(after, result, None) = [after EXCEPT !.line = D!Line(NaN, NaN)]
    BY <1>1, <1>2 DEF D!LineSegUpdated
  <2>2. D!Line(NaN, NaN) \in LineResults
    BY DEF LineResults, D!Line, Number
  <2>3. QED
    BY <1>1, <1>2, <2>1, <2>2 DEF Segments
<1>3. CASE result.pt_1 # NaN /\ result.pt_2 # NaN
  <2>1. PICK dir, at, length :
            /\ dir = result.pt_2 - result.pt_1
            /\ at = result.pt_1 + (dir * seg.interp[1]) \div seg.interp[2]
            /\ length = seg.length
    OBVIOUS
  <2>2. PICK end : end = IF dir = 0 THEN NaN ELSE at + (dir \div D!Abs(dir)) * length
    OBVIOUS
  <2>3. result.pt_1 \in Int /\ result.pt_2 \in Int /\ dir \in Int /\ length \in Nat
    BY <1>1, <1>3, <2>1 DEF Number
  <2>4. /\ (dir * seg.interp[1]) \div seg.interp[2] \in Int
        /\ dir >= 0 => /\ 0 <= (dir * seg.interp[1]) \div seg.interp[2]
                       /\ (dir * seg.interp[1]) \div seg.interp[2] <= dir
        /\ dir <= 0 => /\ dir <= (dir * seg.interp[1]) \div seg.interp[2]
                       /\ (dir * seg.interp[1]) \div seg.interp[2] <= 0
    BY <1>1, <2>3, FractionOf
  <2>5. at \in Int
    BY <2>1, <2>3, <2>4
  <2>6. IsBetween(at, result)
    BY <2>1, <2>3, <2>4 DEF IsBetween
  <2>7. end \in Number
    <3>1. CASE dir = 0
      BY <2>2, <3>1 DEF Number
    <3>2. CASE dir # 0
      <4>1. D!Abs(dir) \in Int /\ D!Abs(dir) > 0
        BY <2>3, <3>2 DEF D!Abs
      <4>2. dir \div D!Abs(dir) \in Int
        BY <2>3, <4>1
      <4>3. at + (dir \div D!Abs(dir)) * length \in Int
        BY <2>3, <2>5, <4>2
      <4>4. QED
        BY <2>2, <3>2, <4>3 DEF Number
    <3>3. QED
      BY <3>1, <3>2
  <2>8. after = [seg EXCEPT !.interp = seg.interp, !.line = D!Line(at, end)]
    BY <1>1, <1>3, <2>1, <2>2 DEF D!LineSegUpdated
  <2>9. D!Line(at, end) \in LineResults /\ D!Line(at, end).pt_1 = at
    BY <2>5, <2>7 DEF LineResults, D!Line, Number
  <2>10. /\ after \in Segments(R) /\ after.refer = seg.refer /\ after.interp = seg.interp
         /\ after.length = seg.length /\ after.line.pt_1 = at
    BY <1>1, <2>8, <2>9 DEF Segments
  <2>11. D!LineSegUpdated(after, result, None) = [after EXCEPT !.interp = after.interp, !.line = D!Line(at, end)]
    BY <1>1, <1>3, <2>1, <2>2, <2>10 DEF D!LineSegUpdated
  <2>12. [after EXCEPT !.interp = after.interp, !.line = D!Line(at, end)] = after
    BY <1>1, <2>8
  <2>13. QED
    BY <2>6, <2>10, <2>11, <2>12
<1>4. QED
  BY <1>2, <1>3

\* A segment that is put on a line near a point follows the line from there.
LEMMA SegmentSnaps ==
    ASSUME NEW R, NoneIsApart(R), NEW seg \in Segments(R), NEW result \in LineResults,
           ~ IsDegenerate(result), NEW guess \in Int, NEW which \in R
    PROVE  \E placed \in Segments(R) :
               /\ placed.refer = which
               /\ D!LineSegSetReference(seg, result, which, guess) =
                      D!LineSegUpdated(placed, result, None)
<1>1. /\ result.kind = "Line" /\ result.pt_1 \in Int /\ result.pt_2 \in Int
      /\ result.pt_1 # NaN /\ result.pt_2 # NaN /\ result.pt_1 # result.pt_2
      /\ seg = [refer |-> seg.refer, line |-> seg.line, length |-> seg.length, interp |-> seg.interp]
      /\ seg.refer \in Slot(R) /\ seg.line \in LineResults /\ seg.length \in Nat
  BY DEF LineResults, Segments, IsDegenerate, Number
<1>2. guess # None
  BY DEF NoneIsApart
<1>3. PICK f : f = D!InterpAlongLine(result, guess)
  OBVIOUS
<1>4. f \in Fractions
  <2>1. PICK dir, from : dir = D!Abs(result.pt_2 - result.pt_1) /\ from = D!Abs(guess - result.pt_1)
    OBVIOUS
  <2>2. dir \in Nat /\ dir > 0 /\ from \in Nat
    BY <1>1, <2>1 DEF D!Abs
  <2>3. f = <<IF from > dir THEN dir ELSE from, dir>>
    BY <1>3, <2>1 DEF D!InterpAlongLine
  <2>4. QED
    BY <2>2, <2>3 DEF Fractions
<1>5. PICK placed : placed = [seg EXCEPT !.refer = which, !.interp = f]
  OBVIOUS
<1>6. placed \in Segments(R) /\ placed.refer = which
  BY <1>1, <1>4, <1>5 DEF Segments, Slot
<1>7. PICK middle : middle = [seg EXCEPT !.refer = which]
  OBVIOUS
<1>8. D!LineSegSetReference(seg, result, which, guess) = D!LineSegUpdated(middle, result, guess)
  BY <1>1, <1>7 DEF D!LineSegSetReference
<1>9. D!LineSegUpdated(middle, result, guess) = D!LineSegUpdated(placed, result, None)
  <2>1. PICK at, end : /\ at = result.pt_1 + ((result.pt_2 - result.pt_1) * f[1]) \div f[2]
                       /\ end = IF (result.pt_2 - result.pt_1) = 0 THEN NaN
                                ELSE at + ((result.pt_2 - result.pt_1)
                                            \div D!Abs(result.pt_2 - result.pt_1)) * seg.length
    OBVIOUS
  <2>2. D!LineSegUpdated(middle, result, guess) =
            [middle EXCEPT !.interp = f, !.line = D!Line(at, end)]
    BY <1>1, <1>2, <1>3, <1>7, <2>1 DEF D!LineSegUpdated
  <2>3. placed.interp = f /\ placed.length = seg.length
    BY <1>1, <1>5
  <2>4. D!LineSegUpdated(placed, result, None) =
            [placed EXCEPT !.interp = f, !.line = D!Line(at, end)]
    BY <1>1, <2>1, <2>3 DEF D!LineSegUpdated
  <2>5. QED
    BY <1>1, <1>5, <1>7, <2>2, <2>4
<1>10. QED
  BY <1>6, <1>8, <1>9

-----------------------------------------------------------------------------
(* Doors and groups *)

\* A door has one slot, its line's; what else refers is its own.
AreDoorRefs(refs, door, x) ==
    /\ DOMAIN refs = 1 .. 5 /\ Len(refs) = 5
    /\ refs[1] = IF door.dir.refer = None THEN None
                 ELSE Reference(RefID(x, "ProfileLine", 1), door.dir.refer)
    /\ refs[2] = Reference(RefID(x, "AxisAlignedBoundBox", 1), RefID(x, "ProfileLine", 1))
    /\ refs[3] = Reference(RefID(x, "ProfilePoint", 1), RefID(x, "ProfileLine", 1))
    /\ refs[4] = Reference(RefID(x, "ProfilePoint", 2), RefID(x, "ProfileLine", 1))
    /\ refs[5] = Reference(RefID(x, "ProfilePlane", 1), RefID(x, "ProfileLine", 1))

\* What get_refs returns for a door.
LEMMA DoorRefs ==
    ASSUME NEW x, NEW R, NEW door \in DoorsOf(x, R)
    PROVE  AreDoorRefs(D!GetRefs(door), door, x)
<1>1. door.id = x
  BY DEF DoorsOf
<1>2. PICK a, b, c, d, e :
          /\ a = IF door.dir.refer = None THEN None
                 ELSE Reference(RefID(x, "ProfileLine", 1), door.dir.refer)
          /\ b = Reference(RefID(x, "AxisAlignedBoundBox", 1), RefID(x, "ProfileLine", 1))
          /\ c = Reference(RefID(x, "ProfilePoint", 1), RefID(x, "ProfileLine", 1))
          /\ d = Reference(RefID(x, "ProfilePoint", 2), RefID(x, "ProfileLine", 1))
          /\ e = Reference(RefID(x, "ProfilePlane", 1), RefID(x, "ProfileLine", 1))
  OBVIOUS
<1>3. D!GetRefs(door) = <<a, b, c, d, e>>
  BY <1>1, <1>2 DEF D!GetRefs, D!RefID, D!Reference, RefID, Reference
<1>4. PICK refs : refs = <<a, b, c, d, e>>
  OBVIOUS
<1>5. /\ DOMAIN refs = 1 .. 5 /\ Len(refs) = 5
      /\ refs[1] = a /\ refs[2] = b /\ refs[3] = c /\ refs[4] = d /\ refs[5] = e
  BY <1>4
<1>6. QED
  BY <1>2, <1>3, <1>4, <1>5 DEF AreDoorRefs

\* A door that keeps or gives up its line clears that slot at most.
LEMMA DoorOnlyClears ==
    ASSUME NEW x, NEW R, NEW before \in DoorsOf(x, R), NEW after \in DoorsOf(x, R),
           after.dir.refer \in {before.dir.refer, None}
    PROVE  OnlyClears(before, after)
<1> DEFINE old == D!GetRefs(before)
           new == D!GetRefs(after)
<1>1. AreDoorRefs(old, before, x) /\ AreDoorRefs(new, after, x)
  BY DoorRefs
<1>2. GetRefs(before) = old /\ GetRefs(after) = new
  <2>1. before.kind = "Door" /\ after.kind = "Door"
    BY DEF DoorsOf
  <2>2. QED
    BY <2>1, OfDoor
<1> HIDE DEF old, new
<1>3. new[1] \in {old[1], None}
  BY <1>1 DEF AreDoorRefs
<1>4. \A i \in 2 .. 5 : new[i] = old[i]
  BY <1>1 DEF AreDoorRefs
<1>5. DOMAIN old = 1 .. 5 /\ DOMAIN new = 1 .. 5 /\ \A i \in 1 .. 5 : i = 1 \/ i \in 2 .. 5
  BY <1>1 DEF AreDoorRefs
<1>6. QED
  BY <1>2, <1>3, <1>4, <1>5 DEF OnlyClears

\* A door stays a door, and its reference is kept.
LEMMA DoorFollows ==
    ASSUME NEW x, NEW R, NEW door \in DoorsOf(x, R), NEW t, NEW i, NEW result \in Results
    PROVE  LET after == D!SetAssociatedResult(door, t, i, result)
           IN  /\ after \in DoorsOf(x, R)
               /\ OnlyClears(door, after)
               /\ D!SetAssociatedResult(after, t, i, result) = after
<1> DEFINE after == D!SetAssociatedResult(door, t, i, result)
<1>1. door = [kind |-> "Door", id |-> x, dir |-> door.dir] /\ door.dir \in Segments(R)
  BY DEF DoorsOf
<1>2. CASE t = "ProfileLine" /\ i = 1 /\ result # None /\ result.kind = "Line"
  <2>1. result \in LineResults
    BY <1>2, ResultKinds
  <2>2. PICK seg : seg = D!LineSegUpdated(door.dir, result, None)
    OBVIOUS
  <2>3. seg \in Segments(R) /\ seg.refer = door.dir.refer /\ D!LineSegUpdated(seg, result, None) = seg
    BY <1>1, <2>1, <2>2, SegmentFollows
  <2>4. after = [door EXCEPT !.dir = seg]
    BY <1>2, <2>2 DEF D!SetAssociatedResult
  <2>5. after \in DoorsOf(x, R) /\ after.dir = seg
    BY <1>1, <2>3, <2>4 DEF DoorsOf
  <2>6. D!SetAssociatedResult(after, t, i, result) = [after EXCEPT !.dir = seg]
    BY <1>2, <2>3, <2>5 DEF D!SetAssociatedResult
  <2>7. [after EXCEPT !.dir = seg] = after
    BY <1>1, <2>4
  <2>8. OnlyClears(door, after)
    BY <2>3, <2>5, DoorOnlyClears
  <2>9. QED
    BY <2>5, <2>6, <2>7, <2>8
<1>3. CASE ~ (t = "ProfileLine" /\ i = 1 /\ result # None /\ result.kind = "Line")
  <2>1. after = door
    <3>1. CASE t = "ProfileLine" /\ i = 1 /\ result # None
      <4>1. result.kind # "Line"
        BY <1>3, <3>1
      <4>2. D!LineSegUpdated(door.dir, result, None) = door.dir
        BY <4>1 DEF D!LineSegUpdated
      <4>3. after = [door EXCEPT !.dir = door.dir]
        BY <3>1, <4>2 DEF D!SetAssociatedResult
      <4>4. QED
        BY <1>1, <4>3
    <3>2. CASE ~ (t = "ProfileLine" /\ i = 1 /\ result # None)
      BY <3>2 DEF D!SetAssociatedResult
    <3>3. QED
      BY <3>1, <3>2
  <2>2. OnlyClears(door, door)
    BY DEF OnlyClears
  <2>3. QED
    BY <2>1, <2>2
<1>4. QED
  BY <1>2, <1>3

\* A door has one slot only that follows.
LEMMA DoorSlotsApart ==
    ASSUME NEW door, NEW t, NEW i, NEW result, NEW t2, NEW i2, NEW result2,
           t # t2 \/ i # i2,
           D!SetAssociatedResult(door, t, i, result) = door
    PROVE  LET after == D!SetAssociatedResult(door, t2, i2, result2)
           IN  D!SetAssociatedResult(after, t, i, result) = after
<1>1. CASE ~ (t = "ProfileLine" /\ i = 1)
  BY <1>1 DEF D!SetAssociatedResult
<1>2. CASE t = "ProfileLine" /\ i = 1
  <2>1. D!SetAssociatedResult(door, t2, i2, result2) = door
    BY <1>2 DEF D!SetAssociatedResult
  <2>2. QED
    BY <2>1
<1>3. QED
  BY <1>1, <1>2

\* The slots of a group are its children.
LEMMA GroupRefs ==
    ASSUME NEW x, NEW R, NEW group \in GroupsOf(x, R)
    PROVE  /\ Len(group.children) \in Nat
           /\ DOMAIN group.children = 1 .. Len(group.children)
           /\ G!GetRefs(group) =
                  [i \in 1 .. Len(group.children) |->
                      IF group.children[i] = None THEN None
                      ELSE Reference(RefID(x, "Drawable", i), group.children[i])]
           /\ Len(G!GetRefs(group)) = Len(group.children)
<1>1. group.id = x /\ group.children \in Seq(Slot(R))
  BY DEF GroupsOf
<1>2. Len(group.children) \in Nat /\ DOMAIN group.children = 1 .. Len(group.children)
  BY <1>1, LenProperties
<1>3. PICK refs : refs = [i \in 1 .. Len(group.children) |->
                             IF group.children[i] = None THEN None
                             ELSE Reference(RefID(x, "Drawable", i), group.children[i])]
  OBVIOUS
<1>4. G!GetRefs(group) = refs
  BY <1>1, <1>2, <1>3 DEF G!GetRefs, G!RefID, G!Reference, RefID, Reference
<1>5. refs \in [1 .. Len(group.children) -> Range(refs)]
  BY <1>3 DEF Range
<1>6. Len(refs) = Len(group.children)
  BY <1>2, <1>5, IsSeq
<1>7. QED
  BY <1>2, <1>3, <1>4, <1>6

\* A group whose children stay or go clears their slots only.
LEMMA GroupOnlyClears ==
    ASSUME NEW x, NEW R, NEW before \in GroupsOf(x, R), NEW after \in GroupsOf(x, R),
           Len(after.children) = Len(before.children),
           \A i \in 1 .. Len(before.children) :
               after.children[i] \in {before.children[i], None}
    PROVE  OnlyClears(before, after)
<1> DEFINE old == G!GetRefs(before)
           new == G!GetRefs(after)
<1>1. PICK n : n = Len(before.children)
  OBVIOUS
<1>2. /\ old = [i \in 1 .. n |-> IF before.children[i] = None THEN None
                                  ELSE Reference(RefID(x, "Drawable", i), before.children[i])]
      /\ new = [i \in 1 .. n |-> IF after.children[i] = None THEN None
                                  ELSE Reference(RefID(x, "Drawable", i), after.children[i])]
  BY <1>1, GroupRefs
<1>3. GetRefs(before) = old /\ GetRefs(after) = new
  <2>1. before.kind = "VisibilityGroup" /\ after.kind = "VisibilityGroup"
    BY DEF GroupsOf
  <2>2. QED
    BY <2>1, OfGroup
<1> HIDE DEF old, new
<1>4. \A i \in 1 .. n : new[i] \in {old[i], None}
  BY <1>1, <1>2
<1>5. QED
  BY <1>2, <1>3, <1>4 DEF OnlyClears

\* To take a child out of a group leaves the others' slots.
LEMMA ChildTaken ==
    ASSUME NEW x, NEW R, NEW group \in GroupsOf(x, R), NEW i \in DOMAIN group.children,
           NEW after, after = [group EXCEPT !.children[i] = None]
    PROVE  /\ after \in GroupsOf(x, R) /\ OnlyClears(group, after)
           /\ [after EXCEPT !.children[i] = None] = after
           /\ DOMAIN after.children = DOMAIN group.children
           /\ \A k \in DOMAIN group.children : k # i => after.children[k] = group.children[k]
<1>1. /\ group = [kind |-> "VisibilityGroup", id |-> x, children |-> group.children]
      /\ group.children \in Seq(Slot(R))
  BY DEF GroupsOf
<1>2. PICK s : s = [group.children EXCEPT ![i] = None]
  OBVIOUS
<1>3. /\ Len(group.children) \in Nat /\ DOMAIN group.children = 1 .. Len(group.children)
      /\ \A k \in 1 .. Len(group.children) : group.children[k] \in Slot(R)
  BY <1>1, LenProperties, ElementOfSeq
<1>4. s \in Seq(Slot(R)) /\ Len(s) = Len(group.children) /\ DOMAIN s = DOMAIN group.children
  <2>1. None \in Slot(R)
    BY DEF Slot
  <2>2. s \in Seq(Slot(R)) /\ Len(s) = Len(group.children)
    BY <1>1, <1>2, <1>3, <2>1, ExceptSeq
  <2>3. QED
    BY <1>2, <2>2
<1>5. after = [group EXCEPT !.children = s]
  BY <1>2
<1>6. after \in GroupsOf(x, R) /\ after.children = s
  BY <1>1, <1>4, <1>5 DEF GroupsOf
<1>7. \A k \in DOMAIN group.children : s[k] = IF k = i THEN None ELSE group.children[k]
  BY <1>2
<1>8. OnlyClears(group, after)
  BY <1>3, <1>4, <1>6, <1>7, GroupOnlyClears
<1>9. [after EXCEPT !.children[i] = None] = after
  <2>1. [s EXCEPT ![i] = None] = s
    BY <1>2
  <2>2. [after EXCEPT !.children = s] = after
    BY <1>1, <1>5
  <2>3. QED
    BY <1>6, <2>1, <2>2
<1>10. QED
  BY <1>4, <1>6, <1>7, <1>8, <1>9

\* A group follows a reference by giving up the child, and not a second time.
LEMMA GroupFollows ==
    ASSUME NEW x, NEW R, NEW group \in GroupsOf(x, R), NEW t, NEW i, NEW result
    PROVE  LET after == G!SetAssociatedResult(group, t, i, result)
           IN  /\ after \in GroupsOf(x, R)
               /\ OnlyClears(group, after)
               /\ G!SetAssociatedResult(after, t, i, result) = after
<1> DEFINE after == G!SetAssociatedResult(group, t, i, result)
<1>1. CASE t = "Drawable" /\ i \in DOMAIN group.children /\ result = None
  <2>1. after = [group EXCEPT !.children[i] = None]
    BY <1>1 DEF G!SetAssociatedResult
  <2>2. /\ after \in GroupsOf(x, R) /\ OnlyClears(group, after)
        /\ [after EXCEPT !.children[i] = None] = after
        /\ DOMAIN after.children = DOMAIN group.children
    BY <1>1, <2>1, ChildTaken
  <2> HIDE DEF after
  <2>3. G!SetAssociatedResult(after, t, i, result) = [after EXCEPT !.children[i] = None]
    BY <1>1, <2>2 DEF G!SetAssociatedResult
  <2>4. QED
    BY <2>2, <2>3 DEF after
<1>2. CASE ~ (t = "Drawable" /\ i \in DOMAIN group.children /\ result = None)
  <2>1. after = group
    BY <1>2 DEF G!SetAssociatedResult
  <2>2. OnlyClears(group, group)
    BY DEF OnlyClears
  <2>3. QED
    BY <2>1, <2>2
<1>3. QED
  BY <1>1, <1>2

\* What one child of a group is updated with leaves the others as they follow.
LEMMA GroupSlotsApart ==
    ASSUME NEW x, NEW R, NEW group \in GroupsOf(x, R),
           NEW t, NEW i, NEW result, NEW t2, NEW i2, NEW result2,
           t # t2 \/ i # i2,
           G!SetAssociatedResult(group, t, i, result) = group
    PROVE  LET after == G!SetAssociatedResult(group, t2, i2, result2)
           IN  G!SetAssociatedResult(after, t, i, result) = after
<1> DEFINE after == G!SetAssociatedResult(group, t2, i2, result2)
<1>1. CASE ~ (t = "Drawable" /\ i \in DOMAIN group.children /\ result = None)
  <2>1. DOMAIN after.children = DOMAIN group.children
    <3>1. CASE t2 = "Drawable" /\ i2 \in DOMAIN group.children /\ result2 = None
      <4>1. after = [group EXCEPT !.children[i2] = None]
        BY <3>1 DEF G!SetAssociatedResult
      <4>2. QED
        BY <3>1, <4>1, ChildTaken
    <3>2. CASE ~ (t2 = "Drawable" /\ i2 \in DOMAIN group.children /\ result2 = None)
      BY <3>2 DEF G!SetAssociatedResult
    <3>3. QED
      BY <3>1, <3>2
  <2> HIDE DEF after
  <2>2. G!SetAssociatedResult(after, t, i, result) = after
    BY <1>1, <2>1 DEF G!SetAssociatedResult
  <2>3. QED
    BY <2>2 DEF after
<1>2. CASE t = "Drawable" /\ i \in DOMAIN group.children /\ result = None
  <2>1. [group EXCEPT !.children[i] = None] = group
    BY <1>2 DEF G!SetAssociatedResult
  <2>2. group = [kind |-> "VisibilityGroup", id |-> x, children |-> group.children]
    BY DEF GroupsOf
  <2>3. group.children[i] = None
    BY <1>2, <2>1, <2>2
  <2>4. CASE t2 = "Drawable" /\ i2 \in DOMAIN group.children /\ result2 = None
    <3>1. after = [group EXCEPT !.children[i2] = None] /\ i # i2
      BY <1>2, <2>4 DEF G!SetAssociatedResult
    <3>2. /\ DOMAIN after.children = DOMAIN group.children /\ after.children[i] = None
          /\ after \in GroupsOf(x, R)
      BY <1>2, <2>3, <2>4, <3>1, ChildTaken
    <3> HIDE DEF after
    <3>3. G!SetAssociatedResult(after, t, i, result) = [after EXCEPT !.children[i] = None]
      BY <1>2, <3>2 DEF G!SetAssociatedResult
    <3>4. /\ after = [kind |-> "VisibilityGroup", id |-> x, children |-> after.children]
          /\ after.children = [k \in DOMAIN after.children |-> after.children[k]]
      <4>1. after.children \in Seq(Slot(R))
        BY <3>2 DEF GroupsOf
      <4>2. after.children = [k \in DOMAIN after.children |-> after.children[k]]
        BY <4>1, LenProperties
      <4>3. QED
        BY <3>2, <4>2 DEF GroupsOf
    <3>5. [after.children EXCEPT ![i] = None] = after.children
      BY <1>2, <3>2, <3>4
    <3>6. QED
      BY <3>3, <3>4, <3>5 DEF after
  <2>5. CASE ~ (t2 = "Drawable" /\ i2 \in DOMAIN group.children /\ result2 = None)
    BY <2>5 DEF G!SetAssociatedResult
  <2>6. QED
    BY <2>4, <2>5
<1>3. QED
  BY <1>1, <1>2

\* The results of a door are well typed.
LEMMA DoorResult ==
    ASSUME NEW x, NEW R, NEW door \in DoorsOf(x, R), NEW t, NEW i
    PROVE  /\ D!GetResult(door, t, i) \in Results
           /\ t = "ProfileLine" =>
                 D!GetResult(door, t, i) = IF i = 1 THEN door.dir.line ELSE None
           /\ DOMAIN D!GetResultsForType(door, t) \in {{}, {1}, {1, 2}}
           /\ t \notin {"Drawable", "Existence"} =>
                 \A k \in DOMAIN D!GetResultsForType(door, t) :
                     D!GetResult(door, t, k) = D!GetResultsForType(door, t)[k]
<1>1. PICK p, q : p = door.dir.line.pt_1 /\ q = door.dir.line.pt_2
  OBVIOUS
<1>2. p \in Number /\ q \in Number /\ door.dir.line \in LineResults
  BY <1>1 DEF DoorsOf, Segments, LineResults
<1>3. PICK results : results = D!GetResultsForType(door, t)
  OBVIOUS
<1>4. PICK point_1, point_2, plane :
          /\ point_1 = [kind |-> "Point", at |-> p] /\ point_2 = [kind |-> "Point", at |-> q]
          /\ plane = [kind |-> "Plane", pt_1 |-> p, pt_2 |-> q]
  OBVIOUS
<1>5. point_1 \in PointResults /\ point_2 \in PointResults /\ plane \in PlaneResults
  BY <1>2, <1>4 DEF PointResults, PlaneResults
<1>6. CASE t \in {"Drawable", "Existence"}
  <2>1. D!GetResult(door, t, i) = Empty
    BY <1>6 DEF D!GetResult, D!Empty, Empty
  <2>2. results = <<Empty>>
    BY <1>3, <1>6 DEF D!GetResultsForType, D!Empty, Empty
  <2>3. DOMAIN results = {1}
    BY <2>2
  <2>4. QED
    BY <1>3, <1>6, <2>1, <2>3 DEF Results
<1>7. CASE t = "AxisAlignedBoundBox"
  <2>1. results = <<Cube(0, 0)>>
    BY <1>3, <1>7 DEF D!GetResultsForType, D!Cube, Cube
  <2>2. DOMAIN results = {1} /\ results[1] = Cube(0, 0)
    BY <2>1
  <2>3. \A k : D!GetResult(door, t, k) = IF k = 1 THEN results[1] ELSE None
    BY <1>3, <1>7, <2>2 DEF D!GetResult
  <2>4. QED
    BY <1>3, <1>7, <2>2, <2>3 DEF Results
<1>8. CASE t = "ProfilePoint"
  <2>1. results = <<point_1, point_2>>
    BY <1>1, <1>3, <1>4, <1>8 DEF D!GetResultsForType, D!Point
  <2>2. DOMAIN results = {1, 2} /\ results[1] = point_1 /\ results[2] = point_2
    BY <2>1
  <2>3. \A k : D!GetResult(door, t, k) =
               IF k = 1 THEN results[1] ELSE IF k = 2 THEN results[2] ELSE None
    BY <1>3, <1>8, <2>2 DEF D!GetResult
  <2>4. QED
    BY <1>3, <1>5, <1>8, <2>2, <2>3 DEF Results
<1>9. CASE t = "ProfileLine"
  <2>1. results = <<door.dir.line>>
    BY <1>3, <1>9 DEF D!GetResultsForType
  <2>2. DOMAIN results = {1} /\ results[1] = door.dir.line
    BY <2>1
  <2>3. \A k : D!GetResult(door, t, k) = IF k = 1 THEN results[1] ELSE None
    BY <1>3, <1>9, <2>2 DEF D!GetResult
  <2>4. QED
    BY <1>2, <1>3, <1>9, <2>2, <2>3 DEF Results
<1>10. CASE t = "ProfilePlane"
  <2>1. results = <<plane>>
    BY <1>1, <1>3, <1>4, <1>10 DEF D!GetResultsForType, D!Plane
  <2>2. DOMAIN results = {1} /\ results[1] = plane
    BY <2>1
  <2>3. \A k : D!GetResult(door, t, k) = IF k = 1 THEN results[1] ELSE None
    BY <1>3, <1>10, <2>2 DEF D!GetResult
  <2>4. QED
    BY <1>3, <1>5, <1>10, <2>2, <2>3 DEF Results
<1>11. CASE t \notin RefType
  <2>1. results = << >>
    BY <1>3, <1>11 DEF D!GetResultsForType, RefType
  <2>2. DOMAIN results = {}
    BY <2>1
  <2>3. \A k : D!GetResult(door, t, k) = None
    BY <1>3, <1>11, <2>2 DEF D!GetResult, RefType
  <2>4. QED
    BY <1>3, <1>11, <2>2, <2>3 DEF Results, RefType
<1>12. QED
  BY <1>6, <1>7, <1>8, <1>9, <1>10, <1>11 DEF RefType

-----------------------------------------------------------------------------
(* Objects of any kind *)

\* What an object is.
LEMMA ObjectKinds ==
    ASSUME NEW x, NEW R, NEW obj \in Objects(x, R)
    PROVE  \/ obj.kind = "Wall" /\ obj \in WallsOf(x, R)
           \/ obj.kind = "Door" /\ obj \in DoorsOf(x, R)
           \/ obj.kind = "VisibilityGroup" /\ obj \in GroupsOf(x, R)
           \/ obj.kind = "Sheet" /\ obj \in SheetsOf(x)
           \/ obj.kind = "Viewport" /\ obj \in ViewportsOf(x, R)
  BY DEF Objects, WallsOf, DoorsOf, GroupsOf, SheetsOf, ViewportsOf

\* The results of an object are well typed, and a result for a line is a line.
LEMMA ResultsTyped ==
    ASSUME NEW x, NEW R, NEW obj \in Objects(x, R), NEW t, NEW i
    PROVE  /\ GetResult(obj, t, i) \in Results
           /\ t = "ProfileLine" => GetResult(obj, t, i) \in LineResults \cup {None}
<1>1. CASE obj.kind = "Wall" /\ obj \in WallsOf(x, R)
  <2>1. W!GetResult(obj, t, i) \in Results
    BY <1>1, WallResult
  <2>2. ASSUME t = "ProfileLine" PROVE W!GetResult(obj, t, i) \in LineResults \cup {None}
    <3>1. W!GetResult(obj, t, i) =
              IF i = 1 THEN Line(obj.pts[1].info.at, obj.pts[2].info.at) ELSE None
      BY <1>1, <2>2, WallResult
    <3>2. \A k \in 1 .. 2 : obj.pts[k].info.at \in Number
      BY <1>1 DEF WallsOf, PointResults
    <3>3. QED
      BY <3>1, <3>2 DEF Line, LineResults
  <2>3. QED
    BY <1>1, <2>1, <2>2, OfWall
<1>2. CASE obj.kind = "Door" /\ obj \in DoorsOf(x, R)
  <2>1. D!GetResult(obj, t, i) \in Results
    BY <1>2, DoorResult
  <2>2. ASSUME t = "ProfileLine" PROVE D!GetResult(obj, t, i) \in LineResults \cup {None}
    <3>1. D!GetResult(obj, t, i) = IF i = 1 THEN obj.dir.line ELSE None
      BY <1>2, <2>2, DoorResult
    <3>2. obj.dir.line \in LineResults
      BY <1>2 DEF DoorsOf, Segments
    <3>3. QED
      BY <3>1, <3>2
  <2>3. QED
    BY <1>2, <2>1, <2>2, OfDoor
<1>3. CASE obj.kind = "VisibilityGroup"
  BY <1>3, OfGroup DEF Results
<1>4. CASE obj.kind = "Sheet"
  <2>1. P!GetResult(obj, t, i) = IF t = "Existence" THEN Empty ELSE None
    BY DEF P!GetResult, P!Empty, Empty
  <2>2. QED
    BY <1>4, <2>1, OfSheet DEF Results
<1>5. CASE obj.kind = "Viewport"
  <2>1. V!GetResult(obj, t, i) = IF t = "Existence" THEN Empty ELSE None
    BY DEF V!GetResult, V!Empty, Empty
  <2>2. QED
    BY <1>5, <2>1, OfViewport DEF Results
<1>6. QED
  BY <1>1, <1>2, <1>3, <1>4, <1>5, ObjectKinds

\* What follows in a slot keeps the object's kind, type and other slots; to
\* follow the same result again changes nothing.
LEMMA ObjectFollows ==
    ASSUME NEW x, NEW R, NoneIsApart(R), NEW obj \in Objects(x, R),
           NEW t, NEW i, NEW result \in Results
    PROVE  LET after == SetAssociatedResult(obj, t, i, result)
           IN  /\ after \in Objects(x, R) /\ after.kind = obj.kind
               /\ OnlyClears(obj, after)
               /\ SetAssociatedResult(after, t, i, result) = after
<1> DEFINE after == SetAssociatedResult(obj, t, i, result)
<1>1. CASE obj.kind = "Wall" /\ obj \in WallsOf(x, R)
  <2>1. PICK wall : wall = W!SetAssociatedResult(obj, t, i, result)
    OBVIOUS
  <2>2. /\ wall \in WallsOf(x, R) /\ OnlyClears(obj, wall)
        /\ W!SetAssociatedResult(wall, t, i, result) = wall
    BY <1>1, <2>1, WallFollows
  <2>3. wall.kind = "Wall" /\ after = wall
    BY <1>1, <2>1, <2>2, OfWall DEF WallsOf
  <2>4. QED
    BY <1>1, <2>2, <2>3, OfWall DEF Objects
<1>2. CASE obj.kind = "Door" /\ obj \in DoorsOf(x, R)
  <2>1. PICK door : door = D!SetAssociatedResult(obj, t, i, result)
    OBVIOUS
  <2>2. /\ door \in DoorsOf(x, R) /\ OnlyClears(obj, door)
        /\ D!SetAssociatedResult(door, t, i, result) = door
    BY <1>2, <2>1, DoorFollows
  <2>3. door.kind = "Door" /\ after = door
    BY <1>2, <2>1, <2>2, OfDoor DEF DoorsOf
  <2>4. QED
    BY <1>2, <2>2, <2>3, OfDoor DEF Objects
<1>3. CASE obj.kind = "VisibilityGroup" /\ obj \in GroupsOf(x, R)
  <2>1. PICK group : group = G!SetAssociatedResult(obj, t, i, result)
    OBVIOUS
  <2>2. /\ group \in GroupsOf(x, R) /\ OnlyClears(obj, group)
        /\ G!SetAssociatedResult(group, t, i, result) = group
    BY <1>3, <2>1, GroupFollows
  <2>3. group.kind = "VisibilityGroup" /\ after = group
    BY <1>3, <2>1, <2>2, OfGroup DEF GroupsOf
  <2>4. QED
    BY <1>3, <2>2, <2>3, OfGroup DEF Objects
<1>4. CASE obj.kind \in {"Sheet", "Viewport"}
  <2>1. after = obj
    BY <1>4, OfSheet, OfViewport
  <2>2. OnlyClears(obj, obj)
    BY DEF OnlyClears
  <2>3. QED
    BY <2>1, <2>2
<1>5. QED
  BY <1>1, <1>2, <1>3, <1>4, ObjectKinds

\* What follows in one slot does not disturb another.
LEMMA SlotsApart ==
    ASSUME NEW x, NEW R, NEW obj \in Objects(x, R),
           NEW t, NEW i, NEW result, NEW t2, NEW i2, NEW result2 \in Results,
           NoneIsApart(R), t # t2 \/ i # i2,
           SetAssociatedResult(obj, t, i, result) = obj
    PROVE  LET after == SetAssociatedResult(obj, t2, i2, result2)
           IN  SetAssociatedResult(after, t, i, result) = after
<1> DEFINE after == SetAssociatedResult(obj, t2, i2, result2)
<1>1. after.kind = obj.kind
  BY ObjectFollows
<1>2. CASE obj.kind = "Wall" /\ obj \in WallsOf(x, R)
  <2>1. after = W!SetAssociatedResult(obj, t2, i2, result2)
    BY <1>2, OfWall
  <2>2. W!SetAssociatedResult(obj, t, i, result) = obj
    BY <1>2, OfWall
  <2>3. W!SetAssociatedResult(after, t, i, result) = after
    BY <1>2, <2>1, <2>2, WallSlotsApart
  <2>4. QED
    BY <1>1, <1>2, <2>3, OfWall
<1>3. CASE obj.kind = "Door"
  <2>1. after = D!SetAssociatedResult(obj, t2, i2, result2)
    BY <1>3, OfDoor
  <2>2. D!SetAssociatedResult(obj, t, i, result) = obj
    BY <1>3, OfDoor
  <2>3. D!SetAssociatedResult(after, t, i, result) = after
    BY <2>1, <2>2, DoorSlotsApart
  <2>4. QED
    BY <1>1, <1>3, <2>3, OfDoor
<1>4. CASE obj.kind = "VisibilityGroup" /\ obj \in GroupsOf(x, R)
  <2>1. after = G!SetAssociatedResult(obj, t2, i2, result2)
    BY <1>4, OfGroup
  <2>2. G!SetAssociatedResult(obj, t, i, result) = obj
    BY <1>4, OfGroup
  <2>3. G!SetAssociatedResult(after, t, i, result) = after
    BY <1>4, <2>1, <2>2, GroupSlotsApart
  <2>4. QED
    BY <1>1, <1>4, <2>3, OfGroup
<1>5. CASE obj.kind \in {"Sheet", "Viewport"}
  <2>1. after = obj
    BY <1>5, OfSheet, OfViewport
  <2>2. QED
    BY <2>1
<1>6. QED
  BY <1>2, <1>3, <1>4, <1>5, ObjectKinds

-----------------------------------------------------------------------------
(* Updates *)

\* Objects by their ids, None for those that are deleted.
ObjectsOn(S, R) ==
    {objs \in [S -> (UNION {Objects(x, R) : x \in S}) \cup {None}] :
        \A x \in S : objs[x] = None \/ objs[x] \in Objects(x, R)}

\* What an update keeps: no object comes or goes, and slots are cleared only.
Keeps(before, after, S) ==
    \A x \in S : after[x] # None =>
        /\ before[x] # None
        /\ after[x].kind = before[x].kind
        /\ OnlyClears(before[x], after[x])

\* What a piece evaluates to is a result, that of a line a line or none.
LEMMA ResultOfPiece ==
    ASSUME NEW S, NEW R, NEW objs \in ObjectsOn(S, R), NEW r
    PROVE  /\ GetRefResult(objs, r) \in Results
           /\ r.ref_type = "ProfileLine" => GetRefResult(objs, r) \in LineResults \cup {None}
<1>1. CASE r.id \in S /\ objs[r.id] # None
  <2>1. objs[r.id] \in Objects(r.id, R) /\ DOMAIN objs = S
    BY <1>1 DEF ObjectsOn
  <2>2. GetRefResult(objs, r) = GetResult(objs[r.id], r.ref_type, r.index)
    BY <1>1, <2>1 DEF GetRefResult
  <2>3. QED
    BY <2>1, <2>2, ResultsTyped
<1>2. CASE ~ (r.id \in S /\ objs[r.id] # None)
  <2>1. DOMAIN objs = S
    BY DEF ObjectsOn
  <2>2. GetRefResult(objs, r) = None
    BY <1>2, <2>1 DEF GetRefResult
  <2>3. QED
    BY <2>2 DEF Results
<1>3. QED
  BY <1>1, <1>2

\* Whether an update by a reference looks at an object of S.
Affects(objs, ref, S) ==
    ref.owner.id # ref.other.id /\ ref.owner.id \in S /\ objs[ref.owner.id] # None

\* A reference of an object that is not loaded, or to itself, updates nothing.
LEMMA ReferenceSkipped ==
    ASSUME NEW S, NEW R, NEW objs \in ObjectsOn(S, R), NEW ref, ~ Affects(objs, ref, S)
    PROVE  UpdateReference(objs, ref) = objs
  BY DEF UpdateReference, Affects, ObjectsOn

\* One reference is followed: its owner alone changes, and following it again
\* changes nothing.
LEMMA ReferenceFollowed ==
    ASSUME NEW S, NEW R, NoneIsApart(R), NEW objs \in ObjectsOn(S, R), NEW ref
    PROVE  LET after == UpdateReference(objs, ref)
           IN  /\ after \in ObjectsOn(S, R) /\ Keeps(objs, after, S)
               /\ \A x \in S : x # ref.owner.id => after[x] = objs[x]
               /\ UpdateReference(after, ref) = after
               /\ Affects(objs, ref, S) =>
                     after[ref.owner.id] =
                         SetAssociatedResult(objs[ref.owner.id], ref.owner.ref_type,
                                             ref.owner.index, GetRefResult(objs, ref.other))
<1> DEFINE after == UpdateReference(objs, ref)
<1>1. /\ DOMAIN objs = S /\ objs = [x \in S |-> objs[x]]
      /\ \A x \in S : objs[x] = None \/ objs[x] \in Objects(x, R)
  BY DEF ObjectsOn
<1>2. CASE ~ Affects(objs, ref, S)
  <2>1. after = objs
    BY <1>2, ReferenceSkipped
  <2>2. Keeps(objs, objs, S)
    BY DEF Keeps, OnlyClears
  <2>3. QED
    BY <1>2, <2>1, <2>2
<1>3. CASE Affects(objs, ref, S)
  <2>1. PICK x, t, i, result :
            /\ x = ref.owner.id /\ t = ref.owner.ref_type /\ i = ref.owner.index
            /\ result = GetRefResult(objs, ref.other)
    OBVIOUS
  <2>2. PICK obj : obj = SetAssociatedResult(objs[x], t, i, result)
    OBVIOUS
  <2>3. x \in S /\ objs[x] # None /\ objs[x] \in Objects(x, R) /\ x # ref.other.id
    BY <1>1, <1>3, <2>1 DEF Affects
  <2>4. result \in Results
    BY <2>1, ResultOfPiece
  <2>5. /\ obj \in Objects(x, R) /\ obj.kind = objs[x].kind /\ OnlyClears(objs[x], obj)
        /\ SetAssociatedResult(obj, t, i, result) = obj
    BY <2>2, <2>3, <2>4, ObjectFollows
  <2>6. after = [objs EXCEPT ![x] = obj]
    BY <1>1, <2>1, <2>2, <2>3 DEF UpdateReference
  <2>7. /\ DOMAIN after = S /\ after[x] = obj
        /\ \A y \in S : y # x => after[y] = objs[y]
    BY <1>1, <2>3, <2>6
  <2> HIDE DEF after
  <2>8. \A y \in S : after[y] = None \/ after[y] \in Objects(y, R)
    BY <1>1, <2>5, <2>7
  <2>9. after \in ObjectsOn(S, R)
    <3>1. after = [y \in S |-> after[y]]
      BY <1>1, <2>6
    <3>2. PICK U : U = (UNION {Objects(y, R) : y \in S}) \cup {None}
      OBVIOUS
    <3>3. \A y \in S : Objects(y, R) \subseteq U /\ None \in U
      BY <3>2
    <3>4. \A y \in S : after[y] \in U
      BY <2>8, <3>3
    <3>5. after \in [S -> U]
      BY <3>1, <3>4
    <3>6. QED
      BY <2>8, <3>2, <3>5 DEF ObjectsOn
  <2>10. Keeps(objs, after, S)
    <3> SUFFICES ASSUME NEW y \in S, after[y] # None
                 PROVE  /\ objs[y] # None /\ after[y].kind = objs[y].kind
                        /\ OnlyClears(objs[y], after[y])
      BY DEF Keeps
    <3>1. CASE y = x
      BY <2>3, <2>5, <2>7, <3>1
    <3>2. CASE y # x
      BY <2>7, <3>2 DEF OnlyClears
    <3>3. QED
      BY <3>1, <3>2
  <2>11. UpdateReference(after, ref) = after
    <3>1. CASE obj = None
      BY <2>1, <2>7, <2>9, <3>1, ReferenceSkipped DEF Affects
    <3>2. CASE obj # None
      <4>1. GetRefResult(after, ref.other) = result
        BY <1>1, <2>1, <2>3, <2>7 DEF GetRefResult
      <4>2. UpdateReference(after, ref) =
                [after EXCEPT ![x] = SetAssociatedResult(after[x], t, i, result)]
        BY <2>1, <2>3, <2>7, <3>2, <4>1 DEF UpdateReference
      <4>3. [after EXCEPT ![x] = obj] = after
        BY <1>1, <2>6
      <4>4. QED
        BY <2>5, <2>7, <4>2, <4>3
    <3>3. QED
      BY <3>1, <3>2
  <2>12. QED
    BY <2>1, <2>2, <2>7, <2>9, <2>10, <2>11 DEF after
<1>4. QED
  BY <1>2, <1>3

\* What is kept by one update and by the next is kept by both.
LEMMA KeepsBoth ==
    ASSUME NEW S, NEW before, NEW middle, NEW after,
           Keeps(before, middle, S), Keeps(middle, after, S)
    PROVE  Keeps(before, after, S)
<1> SUFFICES ASSUME NEW x \in S, after[x] # None
             PROVE  /\ before[x] # None /\ after[x].kind = before[x].kind
                    /\ OnlyClears(before[x], after[x])
  BY DEF Keeps
<1>1. /\ middle[x] # None /\ after[x].kind = middle[x].kind /\ OnlyClears(middle[x], after[x])
  BY DEF Keeps
<1>2. /\ before[x] # None /\ middle[x].kind = before[x].kind /\ OnlyClears(before[x], middle[x])
  BY <1>1 DEF Keeps
<1>3. OnlyClears(before[x], after[x])
  BY <1>1, <1>2 DEF OnlyClears
<1>4. QED
  BY <1>1, <1>2, <1>3

\* The states that update_all goes through.
UpdatesBy(after, objs, refs) ==
    /\ after[0] = objs
    /\ \A n \in 1 .. Len(refs) : after[n] = UpdateReference(after[n - 1], refs[n])
    /\ UpdateAll(objs, refs) = after[Len(refs)]

\* update_all goes through the states of its references one by one.
LEMMA UpdatedInSteps ==
    ASSUME NEW S, NEW R, NoneIsApart(R), NEW objs \in ObjectsOn(S, R),
           NEW refs, Len(refs) \in Nat
    PROVE  \E after : UpdatesBy(after, objs, refs)
<1>1. PICK n, T : n = Len(refs) /\ T = ObjectsOn(S, R)
  OBVIOUS
<1> DEFINE Is(f) == f = [i \in 0 .. Len(refs) |->
                            IF i = 0 THEN objs ELSE UpdateReference(f[i - 1], refs[i])]
<1>2. PICK step : step = [i \in 1 .. n |-> [o \in T |-> UpdateReference(o, refs[i])]]
  OBVIOUS
<1>3. \A i \in 1 .. n : \A o \in T : UpdateReference(o, refs[i]) \in T
  BY <1>1, ReferenceFollowed
<1>4. step \in [1 .. n -> [T -> T]]
  BY <1>2, <1>3
<1>5. PICK f : Steps(f, n, T, objs, step)
  BY <1>1, <1>4, Recursion
<1>6. Is(f)
  <2>1. f \in [0 .. n -> T] /\ f[0] = objs /\ n \in Nat
    BY <1>1, <1>5 DEF Steps
  <2>2. ASSUME NEW i \in 0 .. n, i # 0 PROVE f[i] = UpdateReference(f[i - 1], refs[i])
    <3>1. i \in 1 .. n /\ i - 1 \in 0 .. n
      BY <2>1, <2>2
    <3>2. f[i] = step[i][f[i - 1]] /\ f[i - 1] \in T
      BY <1>5, <2>1, <3>1 DEF Steps
    <3>3. QED
      BY <1>2, <3>1, <3>2
  <2>3. QED
    BY <1>1, <2>1, <2>2
<1>7. PICK after : after = CHOOSE f_1 : Is(f_1)
  OBVIOUS
<1>8. Is(after)
  <2> HIDE DEF Is
  <2>1. QED
    BY <1>6, <1>7
<1>9. UpdateAll(objs, refs) = after[Len(refs)]
  BY <1>7 DEF UpdateAll
<1>10. after[0] = objs
  <2>1. 0 \in 0 .. Len(refs)
    OBVIOUS
  <2>2. QED
    BY <1>8, <2>1
<1>11. ASSUME NEW i \in 1 .. Len(refs) PROVE after[i] = UpdateReference(after[i - 1], refs[i])
  <2>1. i \in 0 .. Len(refs) /\ i # 0
    BY <1>11
  <2>2. QED
    BY <1>8, <2>1
<1>12. UpdatesBy(after, objs, refs)
  <2> HIDE DEF Is
  <2>1. QED
    BY <1>9, <1>10, <1>11 DEF UpdatesBy
<1>13. QED
  BY <1>12

\* Objects stay objects in every state of an update.
LEMMA UpdatedTyped ==
    ASSUME NEW S, NEW R, NoneIsApart(R), NEW objs \in ObjectsOn(S, R),
           NEW refs, Len(refs) \in Nat, NEW after, UpdatesBy(after, objs, refs)
    PROVE  \A n \in 0 .. Len(refs) : after[n] \in ObjectsOn(S, R) /\ Keeps(objs, after[n], S)
<1> DEFINE J == {n \in 0 .. Len(refs) : after[n] \in ObjectsOn(S, R) /\ Keeps(objs, after[n], S)}
<1>1. 0 \in J
  <2>1. Keeps(objs, objs, S)
    BY DEF Keeps, OnlyClears
  <2>2. QED
    BY <2>1 DEF UpdatesBy
<1>2. ASSUME NEW n \in 0 .. Len(refs) - 1, n \in J PROVE n + 1 \in J
  <2>1. n + 1 \in 1 .. Len(refs) /\ n + 1 \in 0 .. Len(refs) /\ (n + 1) - 1 = n
    BY <1>2
  <2>2. after[n + 1] = UpdateReference(after[n], refs[n + 1])
    BY <2>1 DEF UpdatesBy
  <2>3. /\ after[n + 1] \in ObjectsOn(S, R) /\ Keeps(after[n], after[n + 1], S)
    BY <1>2, <2>2, ReferenceFollowed
  <2>4. QED
    BY <1>2, <2>1, <2>3, KeepsBoth
<1>3. 0 .. Len(refs) \subseteq J
  <2> HIDE DEF J
  <2>1. QED
    BY <1>1, <1>2, UpTo
<1>4. QED
  BY <1>3

\* update_all leaves objects of the same kinds and clears slots at most.
LEMMA UpdateAllKeeps ==
    ASSUME NEW S, NEW R, NoneIsApart(R), NEW objs \in ObjectsOn(S, R),
           NEW refs, Len(refs) \in Nat
    PROVE  /\ UpdateAll(objs, refs) \in ObjectsOn(S, R)
           /\ Keeps(objs, UpdateAll(objs, refs), S)
<1>1. PICK after : UpdatesBy(after, objs, refs)
  BY UpdatedInSteps
<1>2. Len(refs) \in 0 .. Len(refs)
  OBVIOUS
<1>3. after[Len(refs)] \in ObjectsOn(S, R) /\ Keeps(objs, after[Len(refs)], S)
  BY <1>1, <1>2, UpdatedTyped
<1>4. QED
  BY <1>1, <1>3 DEF UpdatesBy

\* An update by a reference, of an object that it looks at.
LEMMA UpdateIs ==
    ASSUME NEW S, NEW R, NEW objs \in ObjectsOn(S, R), NEW ref, Affects(objs, ref, S)
    PROVE  /\ UpdateReference(objs, ref) =
                  [objs EXCEPT ![ref.owner.id] =
                      SetAssociatedResult(objs[ref.owner.id], ref.owner.ref_type,
                                          ref.owner.index, GetRefResult(objs, ref.other))]
           /\ UpdateReference(objs, ref)[ref.owner.id] =
                  SetAssociatedResult(objs[ref.owner.id], ref.owner.ref_type,
                                      ref.owner.index, GetRefResult(objs, ref.other))
<1>1. DOMAIN objs = S
  BY DEF ObjectsOn
<1>2. PICK x, obj : /\ x = ref.owner.id
                    /\ obj = SetAssociatedResult(objs[x], ref.owner.ref_type, ref.owner.index,
                                                 GetRefResult(objs, ref.other))
  OBVIOUS
<1>3. x \in S /\ objs[x] # None /\ x # ref.other.id
  BY <1>2 DEF Affects
<1>4. UpdateReference(objs, ref) = [objs EXCEPT ![x] = obj]
  BY <1>1, <1>2, <1>3 DEF UpdateReference
<1>5. [objs EXCEPT ![x] = obj][x] = obj
  BY <1>1, <1>3
<1>6. QED
  BY <1>2, <1>4, <1>5

\* What agrees with what it refers to still does after another reference is
\* followed that has another owner and does not change what is referred to.
ApartFrom(q, r) ==
    \/ q.owner.id # r.owner.id
    \/ q.owner.ref_type # r.owner.ref_type
    \/ q.owner.index # r.owner.index

\* A reference that has been followed stays so when one apart from it is
\* followed.
LEMMA StaysSettled ==
    ASSUME NEW S, NEW R, NoneIsApart(R), NEW objs \in ObjectsOn(S, R), NEW r, NEW q,
           UpdateReference(objs, r) = objs,
           ApartFrom(q, r),
           q.owner.id = r.other.id => q.other.id = q.owner.id
    PROVE  UpdateReference(UpdateReference(objs, q), r) = UpdateReference(objs, q)
<1>1. PICK after : after = UpdateReference(objs, q)
  OBVIOUS
<1>2. after \in ObjectsOn(S, R) /\ \A y \in S : y # q.owner.id => after[y] = objs[y]
  <2>1. UpdateReference(objs, q) \in ObjectsOn(S, R)
    BY ReferenceFollowed
  <2>2. \A y \in S : y # q.owner.id => UpdateReference(objs, q)[y] = objs[y]
    BY ReferenceFollowed
  <2>3. QED
    BY <1>1, <2>1, <2>2
<1>3. CASE ~ Affects(objs, q, S)
  BY <1>3, ReferenceSkipped
<1>4. CASE ~ Affects(after, r, S)
  BY <1>1, <1>2, <1>4, ReferenceSkipped
<1>5. CASE Affects(objs, q, S) /\ Affects(after, r, S)
  <2>1. PICK x, result : x = r.owner.id /\ result = GetRefResult(objs, r.other)
    OBVIOUS
  <2>2. DOMAIN after = S /\ DOMAIN objs = S /\ after = [y \in S |-> after[y]] /\ x \in S
    BY <1>2, <1>5, <2>1 DEF ObjectsOn, Affects
  <2>3. q.owner.id # r.other.id
    BY <1>5 DEF Affects
  <2>4. GetRefResult(after, r.other) = result
    BY <1>2, <2>1, <2>2, <2>3 DEF GetRefResult
  <2>5. UpdateReference(after, r) =
            [after EXCEPT ![x] = SetAssociatedResult(after[x], r.owner.ref_type, r.owner.index, result)]
    BY <1>2, <1>5, <2>1, <2>4, UpdateIs
  <2>6. Affects(objs, r, S)
    BY <1>2, <1>5, <2>1, <2>2 DEF Affects
  <2>7. SetAssociatedResult(objs[x], r.owner.ref_type, r.owner.index, result) = objs[x]
    BY <2>1, <2>6, UpdateIs
  <2>8. SetAssociatedResult(after[x], r.owner.ref_type, r.owner.index, result) = after[x]
    <3>1. CASE x # q.owner.id
      BY <1>2, <2>2, <2>7, <3>1
    <3>2. CASE x = q.owner.id
      <4>1. PICK result2 : result2 = GetRefResult(objs, q.other)
        OBVIOUS
      <4>2. after[x] = SetAssociatedResult(objs[x], q.owner.ref_type, q.owner.index, result2)
        BY <1>1, <1>5, <3>2, <4>1, UpdateIs
      <4>3. result2 \in Results
        BY <4>1, ResultOfPiece
      <4>4. objs[x] \in Objects(x, R)
        BY <2>1, <2>2, <2>6 DEF ObjectsOn, Affects
      <4>5. r.owner.ref_type # q.owner.ref_type \/ r.owner.index # q.owner.index
        BY <2>1, <3>2 DEF ApartFrom
      <4>6. QED
        BY <2>7, <4>2, <4>3, <4>4, <4>5, SlotsApart
    <3>3. QED
      BY <3>1, <3>2
  <2>9. QED
    BY <1>1, <2>2, <2>5, <2>8
<1>6. QED
  BY <1>3, <1>4, <1>5

\* After an update by references of different owners, what a reference is
\* about agrees with what it refers to, unless the latter was updated later.
LEMMA UpdateSettled ==
    ASSUME NEW S, NEW R, NoneIsApart(R), NEW objs \in ObjectsOn(S, R),
           NEW refs, Len(refs) \in Nat, NEW n \in 1 .. Len(refs),
           \A m \in n + 1 .. Len(refs) :
               /\ ApartFrom(refs[m], refs[n])
               /\ refs[m].owner.id = refs[n].other.id => refs[m].other.id = refs[m].owner.id
    PROVE  UpdateReference(UpdateAll(objs, refs), refs[n]) = UpdateAll(objs, refs)
<1>1. PICK after : UpdatesBy(after, objs, refs)
  BY UpdatedInSteps
<1> DEFINE J == {k \in 0 .. Len(refs) : n <= k => UpdateReference(after[k], refs[n]) = after[k]}
<1>2. 0 \in J
  OBVIOUS
<1>3. ASSUME NEW k \in 0 .. Len(refs) - 1, k \in J PROVE k + 1 \in J
  <2>1. /\ k + 1 \in 1 .. Len(refs) /\ k + 1 \in 0 .. Len(refs) /\ (k + 1) - 1 = k
        /\ k \in 0 .. Len(refs)
    BY <1>3
  <2>2. after[k + 1] = UpdateReference(after[k], refs[k + 1])
    BY <1>1, <2>1 DEF UpdatesBy
  <2>3. after[k] \in ObjectsOn(S, R)
    BY <1>1, <2>1, UpdatedTyped
  <2>4. CASE k + 1 = n
    <3>1. UpdateReference(after[k + 1], refs[n]) = after[k + 1]
      BY <2>2, <2>3, <2>4, ReferenceFollowed
    <3>2. QED
      BY <2>1, <3>1
  <2>5. CASE k + 1 < n
    BY <2>1, <2>5
  <2>6. CASE n < k + 1
    <3>1. k + 1 \in n + 1 .. Len(refs) /\ n <= k
      BY <2>1, <2>6
    <3>2. UpdateReference(after[k], refs[n]) = after[k]
      BY <1>3, <3>1
    <3>3. /\ ApartFrom(refs[k + 1], refs[n])
          /\ refs[k + 1].owner.id = refs[n].other.id =>
                refs[k + 1].other.id = refs[k + 1].owner.id
      BY <3>1
    <3>4. UpdateReference(after[k + 1], refs[n]) = after[k + 1]
      BY <2>2, <2>3, <3>2, <3>3, StaysSettled
    <3>5. QED
      BY <2>1, <3>4
  <2>7. QED
    BY <2>1, <2>4, <2>5, <2>6
<1>4. 0 .. Len(refs) \subseteq J
  <2> HIDE DEF J
  <2>1. QED
    BY <1>2, <1>3, UpTo
<1>5. Len(refs) \in J
  BY <1>4
<1>6. QED
  BY <1>1, <1>5 DEF UpdatesBy

-----------------------------------------------------------------------------
(* What a search among references answers *)

\* The image of a finite set is finite.
LEMMA ImageIsFinite ==
    ASSUME NEW S, IsFiniteSet(S), NEW f, DOMAIN f = S
    PROVE  IsFiniteSet({f[x] : x \in S})
<1>1. PICK T : T = {f[x] : x \in S}
  OBVIOUS
<1>2. PICK g : g = [x \in S |-> f[x]]
  OBVIOUS
<1>3. g \in Surjection(S, T)
  BY <1>1, <1>2 DEF Surjection
<1>4. QED
  BY <1>1, <1>3, FS_Surjection

\* A search that goes on: every piece it found is the owner of one reference.
OwnersApart(refs) == \A m, n \in 1 .. Len(refs) : m # n => refs[m].owner # refs[n].owner
Searches(refs, R) ==
    {s \in [queue : Seq(R), visited : SUBSET R, result : Seq(refs)] :
        /\ \A n \in 1 .. Len(s.result) : s.result[n].owner \in s.visited
        /\ OwnersApart(s.result)}

\* Two sequences without common elements, each of different ones.
LEMMA ConcatApart ==
    ASSUME NEW T, NEW s \in Seq(T), NEW t \in Seq(T),
           \A m, n \in 1 .. Len(s) : m # n => s[m] # s[n],
           \A m, n \in 1 .. Len(t) : m # n => t[m] # t[n],
           \A m \in 1 .. Len(s), n \in 1 .. Len(t) : s[m] # t[n]
    PROVE  \A m, n \in 1 .. Len(s \o t) : m # n => (s \o t)[m] # (s \o t)[n]
<1>1. PICK u : u = s \o t
  OBVIOUS
<1>2. Joins(u, s, t)
  BY <1>1, ConcatIs
<1>3. PICK j, k : j = Len(s) /\ k = Len(t)
  OBVIOUS
<1>4. /\ j \in Nat /\ k \in Nat /\ Len(u) = j + k
      /\ \A i \in 1 .. j : u[i] = s[i]
      /\ \A i \in 1 .. k : u[j + i] = t[i]
  BY <1>2, <1>3 DEF Joins
<1>5. \A i \in 1 .. j + k : i \in 1 .. j \/ (i - j \in 1 .. k /\ j + (i - j) = i)
  BY <1>4
<1>6. ASSUME NEW m \in 1 .. j + k, NEW n \in 1 .. j + k, m # n PROVE u[m] # u[n]
  <2>1. CASE m \in 1 .. j /\ n \in 1 .. j
    BY <1>3, <1>4, <1>6, <2>1
  <2>2. CASE m \in 1 .. j /\ n - j \in 1 .. k /\ j + (n - j) = n
    <3>1. u[n] = t[n - j] /\ u[m] = s[m]
      BY <1>4, <2>2
    <3>2. QED
      BY <1>3, <2>2, <3>1
  <2>3. CASE n \in 1 .. j /\ m - j \in 1 .. k /\ j + (m - j) = m
    <3>1. u[m] = t[m - j] /\ u[n] = s[n]
      BY <1>4, <2>3
    <3>2. QED
      BY <1>3, <2>3, <3>1
  <2>4. CASE /\ m - j \in 1 .. k /\ j + (m - j) = m
             /\ n - j \in 1 .. k /\ j + (n - j) = n
    <3>1. u[m] = t[m - j] /\ u[n] = t[n - j] /\ m - j # n - j
      BY <1>4, <1>6, <2>4
    <3>2. QED
      BY <1>3, <2>4, <3>1
  <2>5. QED
    BY <1>5, <2>1, <2>2, <2>3, <2>4
<1>7. QED
  BY <1>1, <1>4, <1>6

\* A visit notes new owners, each once, with the reference that led to it.
LEMMA VisitNextIs ==
    ASSUME NEW R, NEW refs \in SUBSET [owner : R, other : R], IsFiniteSet(refs),
           NEW search \in Searches(refs, R), search.queue # << >>
    PROVE  \A next \in VisitNext(refs, search) :
               next \in Searches(refs, R) /\ Range(search.result) \subseteq Range(next.result)
<1>1. /\ search.queue \in Seq(R) /\ search.visited \subseteq R /\ search.result \in Seq(refs)
      /\ \A n \in 1 .. Len(search.result) : search.result[n].owner \in search.visited
      /\ OwnersApart(search.result)
  BY DEF Searches
<1>2. PICK r : r = Head(search.queue)
  OBVIOUS
<1>3. r \in R /\ Tail(search.queue) \in Seq(R)
  BY <1>1, <1>2, HeadTailProperties
<1>4. PICK found : found = {ref.owner : ref \in {q \in refs : q.other = r}} \ search.visited
  OBVIOUS
<1>5. PICK own : own = {p \in found : p.id = r.id /\ \A ref \in refs : ref.other # p}
  OBVIOUS
<1>6. IsFiniteSet(found)
  <2>1. PICK Q : Q = {q \in refs : q.other = r}
    OBVIOUS
  <2>2. IsFiniteSet(Q)
    BY <2>1, FS_Subset
  <2>3. PICK f : f = [q \in Q |-> q.owner]
    OBVIOUS
  <2>4. IsFiniteSet({f[q] : q \in Q})
    BY <2>2, <2>3, ImageIsFinite
  <2>5. {f[q] : q \in Q} = {ref.owner : ref \in Q}
    BY <2>3
  <2>6. found \subseteq {f[q] : q \in Q}
    BY <1>4, <2>1, <2>5
  <2>7. QED
    BY <2>4, <2>6, FS_Subset
<1>7. \A p \in found : p \in R /\ Reference(p, r) \in refs /\ p \notin search.visited
  <2> SUFFICES ASSUME NEW p \in found
               PROVE  p \in R /\ Reference(p, r) \in refs /\ p \notin search.visited
    OBVIOUS
  <2>1. PICK ref \in refs : ref.other = r /\ ref.owner = p
    BY <1>4
  <2>2. ref = [owner |-> p, other |-> r] /\ p \in R
    BY <2>1
  <2>3. QED
    BY <1>4, <2>2 DEF Reference
<1> SUFFICES ASSUME NEW some \in SetToSeqs(found \ own), NEW order, NEW noted,
                    order = some \o InOrder(own),
                    noted = [n \in DOMAIN order |-> Reference(order[n], r)]
             PROVE  LET next == [queue |-> Tail(search.queue) \o order,
                                 visited |-> search.visited \cup found,
                                 result |-> search.result \o noted]
                    IN  /\ next \in Searches(refs, R)
                        /\ Range(search.result) \subseteq Range(next.result)
  BY <1>2, <1>4, <1>5 DEF VisitNext
<1>8. /\ some \in Seq(found) /\ \A n \in 1 .. Len(some) : some[n] \in found \ own
      /\ \A m, n \in 1 .. Len(some) : m # n => some[m] # some[n]
  <2>1. PICK k : k = Cardinality(found \ own)
    OBVIOUS
  <2>2. k \in Nat
    BY <1>6, <2>1, FS_Subset, FS_CardinalityType
  <2>3. /\ some \in [1 .. k -> found \ own]
        /\ \A m, n \in 1 .. k : m # n => some[m] # some[n]
    BY <2>1 DEF SetToSeqs
  <2>4. some \in [1 .. k -> found]
    BY <2>3
  <2>5. some \in Seq(found) /\ Len(some) = k
    BY <2>2, <2>4, IsSeq
  <2>6. QED
    BY <2>3, <2>5
<1>9. PICK last : last = InOrder(own)
  OBVIOUS
<1>10. /\ last \in Seq(found) /\ \A n \in 1 .. Len(last) : last[n] \in own
       /\ \A m, n \in 1 .. Len(last) : m # n => last[m] # last[n]
  <2>1. IsFiniteSet(own)
    BY <1>5, <1>6, FS_Subset
  <2>2. PICK k : k = Cardinality(own)
    OBVIOUS
  <2>3. /\ last \in SetToSeqs(own) /\ last \in [1 .. k -> own] /\ Len(last) = k /\ k \in Nat
    BY <1>9, <2>1, <2>2, InOrderIs
  <2>4. \A m, n \in 1 .. k : m # n => last[m] # last[n]
    BY <2>2, <2>3 DEF SetToSeqs
  <2>5. last \in [1 .. k -> found]
    BY <1>5, <2>3
  <2>6. last \in Seq(found)
    BY <2>3, <2>5, IsSeq
  <2>7. QED
    BY <2>3, <2>4, <2>6
<1>11. /\ order \in Seq(found)
       /\ \A m, n \in 1 .. Len(order) : m # n => order[m] # order[n]
  <2>1. \A m \in 1 .. Len(some), n \in 1 .. Len(last) : some[m] # last[n]
    BY <1>8, <1>10
  <2>2. QED
    BY <1>8, <1>9, <1>10, <2>1, ConcatIs, ConcatApart
<1>12. PICK k : k = Len(order)
  OBVIOUS
<1>13. k \in Nat /\ DOMAIN order = 1 .. k /\ \A n \in 1 .. k : order[n] \in found
  BY <1>11, <1>12, LenProperties, ElementOfSeq
<1>14. /\ noted \in Seq(refs) /\ Len(noted) = k
       /\ \A n \in 1 .. k : noted[n].owner = order[n]
  <2>1. \A n \in 1 .. k : noted[n] \in refs /\ noted[n].owner = order[n]
    BY <1>7, <1>13 DEF Reference
  <2>2. noted \in [1 .. k -> refs]
    BY <1>13, <2>1
  <2>3. QED
    BY <1>13, <2>1, <2>2, IsSeq
<1>15. PICK result : result = search.result \o noted
  OBVIOUS
<1>16. result \in Seq(refs) /\ Joins(result, search.result, noted)
  BY <1>1, <1>14, <1>15, ConcatIs
<1>17. Tail(search.queue) \o order \in Seq(R)
  <2>1. order \in Seq(R)
    BY <1>7, <1>11, SeqMonotonic
  <2>2. QED
    BY <1>3, <2>1, ConcatIs
<1>18. PICK j : j = Len(search.result)
  OBVIOUS
<1>19. /\ j \in Nat /\ Len(result) = j + k
       /\ \A i \in 1 .. j : result[i] = search.result[i]
       /\ \A i \in 1 .. k : result[j + i] = noted[i]
  BY <1>13, <1>14, <1>16, <1>18 DEF Joins
<1>20. \A i \in 1 .. j + k : i \in 1 .. j \/ (i - j \in 1 .. k /\ j + (i - j) = i)
  BY <1>13, <1>19
<1>21. \A n \in 1 .. j : result[n].owner \in search.visited
  BY <1>1, <1>18, <1>19
<1>22. \A n \in 1 .. k : result[j + n].owner = order[n] /\ order[n] \in found
  BY <1>13, <1>14, <1>19
<1>23. \A n \in 1 .. Len(result) : result[n].owner \in search.visited \cup found
  <2> SUFFICES ASSUME NEW n \in 1 .. j + k PROVE result[n].owner \in search.visited \cup found
    BY <1>19
  <2>1. CASE n \in 1 .. j
    BY <1>21, <2>1
  <2>2. CASE n - j \in 1 .. k /\ j + (n - j) = n
    BY <1>22, <2>2
  <2>3. QED
    BY <1>20, <2>1, <2>2
<1>24. OwnersApart(result)
  <2> SUFFICES ASSUME NEW m \in 1 .. j + k, NEW n \in 1 .. j + k, m # n
               PROVE  result[m].owner # result[n].owner
    BY <1>19 DEF OwnersApart
  <2>1. CASE m \in 1 .. j /\ n \in 1 .. j
    BY <1>1, <1>18, <1>19, <2>1 DEF OwnersApart
  <2>2. CASE m \in 1 .. j /\ n - j \in 1 .. k /\ j + (n - j) = n
    <3>1. result[n].owner \in found
      BY <1>22, <2>2
    <3>2. QED
      BY <1>7, <1>21, <2>2, <3>1
  <2>3. CASE n \in 1 .. j /\ m - j \in 1 .. k /\ j + (m - j) = m
    <3>1. result[m].owner \in found
      BY <1>22, <2>3
    <3>2. QED
      BY <1>7, <1>21, <2>3, <3>1
  <2>4. CASE /\ m - j \in 1 .. k /\ j + (m - j) = m
             /\ n - j \in 1 .. k /\ j + (n - j) = n
    <3>1. result[m].owner = order[m - j] /\ result[n].owner = order[n - j] /\ m - j # n - j
      BY <1>19, <1>22, <2>4
    <3>2. QED
      BY <1>11, <1>12, <2>4, <3>1
  <2>5. QED
    BY <1>20, <2>1, <2>2, <2>3, <2>4
<1>25. search.visited \cup found \subseteq R
  BY <1>1, <1>7
<1>26. Range(search.result) \subseteq Range(result)
  <2>1. DOMAIN search.result = 1 .. j /\ DOMAIN result = 1 .. j + k
    BY <1>1, <1>16, <1>18, <1>19, LenProperties
  <2>2. \A i \in 1 .. j : i \in 1 .. j + k /\ result[i] = search.result[i]
    BY <1>13, <1>19
  <2>3. QED
    BY <2>1, <2>2 DEF Range
<1>27. PICK next : next = [queue |-> Tail(search.queue) \o order,
                           visited |-> search.visited \cup found, result |-> result]
  OBVIOUS
<1>28. next \in Searches(refs, R)
  BY <1>16, <1>17, <1>23, <1>24, <1>25, <1>27 DEF Searches
<1>29. QED
  BY <1>15, <1>26, <1>27, <1>28

\* The states that a search goes through.
FirstSearch(start) == [queue |-> <<start>>, visited |-> {start}, result |-> << >>]
SearchStep(refs, search) == IF search.queue = << >> THEN {search} ELSE VisitNext(refs, search)
SearchesBy(after, refs, start, R) ==
    /\ after[0] = {FirstSearch(start)}
    /\ \A k \in 1 .. Cardinality(refs) + 1 :
          after[k] = UNION {SearchStep(refs, search) : search \in after[k - 1]}
    /\ BreadthFirst(refs, start) = {search.result : search \in after[Cardinality(refs) + 1]}
    /\ \A k \in 0 .. Cardinality(refs) + 1 : after[k] \subseteq Searches(refs, R)

\* A search goes through its states one by one.
LEMMA SearchedInSteps ==
    ASSUME NEW R, NEW refs \in SUBSET [owner : R, other : R], IsFiniteSet(refs), NEW start \in R
    PROVE  \E after : SearchesBy(after, refs, start, R)
<1>1. PICK n, T : n = Cardinality(refs) + 1 /\ T = SUBSET Searches(refs, R)
  OBVIOUS
<1>2. n \in Nat
  BY <1>1, FS_CardinalityType
<1> DEFINE Next(search) == IF search.queue = << >> THEN {search} ELSE VisitNext(refs, search)
           First == {[queue |-> <<start>>, visited |-> {start}, result |-> << >>]}
           Is(f) == f = [k \in 0 .. Cardinality(refs) + 1 |->
                            IF k = 0
                            THEN {[queue |-> <<start>>, visited |-> {start}, result |-> << >>]}
                            ELSE UNION {Next(search) : search \in f[k - 1]}]
<1>3. First \in T
  <2>1. <<start>> \in Seq(R) /\ {start} \in SUBSET R /\ << >> \in Seq(refs) /\ Len(<< >>) = 0
    OBVIOUS
  <2>2. PICK s : s = [queue |-> <<start>>, visited |-> {start}, result |-> << >>]
    OBVIOUS
  <2>3. s \in [queue : Seq(R), visited : SUBSET R, result : Seq(refs)]
    BY <2>1, <2>2
  <2>4. OwnersApart(s.result) /\ \A k \in 1 .. Len(s.result) : s.result[k].owner \in s.visited
    BY <2>1, <2>2 DEF OwnersApart
  <2>5. s \in Searches(refs, R)
    BY <2>3, <2>4 DEF Searches
  <2>6. QED
    BY <1>1, <2>2, <2>5
<1>4. \A S \in T : UNION {Next(search) : search \in S} \in T
  <2>1. ASSUME NEW search \in Searches(refs, R) PROVE Next(search) \subseteq Searches(refs, R)
    <3>1. CASE search.queue = << >>
      BY <3>1
    <3>2. CASE search.queue # << >>
      BY <3>2, VisitNextIs
    <3>3. QED
      BY <3>1, <3>2
  <2> HIDE DEF Next
  <2>2. QED
    BY <1>1, <2>1
<1>5. PICK step : step = [k \in 1 .. n |-> [S \in T |-> UNION {Next(search) : search \in S}]]
  OBVIOUS
<1>6. step \in [1 .. n -> [T -> T]]
  <2> HIDE DEF Next
  <2> QED
    BY <1>4, <1>5
<1>7. PICK f : Steps(f, n, T, First, step)
  <2> HIDE DEF First
  <2> QED
    BY <1>2, <1>3, <1>6, Recursion
<1>8. \A k \in 1 .. n : f[k] = UNION {Next(search) : search \in f[k - 1]}
  <2> SUFFICES ASSUME NEW k \in 1 .. n PROVE f[k] = UNION {Next(search) : search \in f[k - 1]}
    OBVIOUS
  <2>1. k - 1 \in 0 .. n
    BY <1>2
  <2>2. f[k - 1] \in T /\ f[k] = step[k][f[k - 1]]
    BY <1>7, <2>1 DEF Steps
  <2> HIDE DEF Next
  <2>3. QED
    BY <1>5, <2>2
<1>9. Is(f)
  <2>1. f \in [0 .. n -> T] /\ f[0] = First
    BY <1>7 DEF Steps
  <2>2. \A k \in 0 .. n : k = 0 \/ k \in 1 .. n
    BY <1>2
  <2> HIDE DEF Next
  <2>3. QED
    BY <1>1, <1>8, <2>1, <2>2
<1>10. PICK after : after = CHOOSE h : Is(h)
  OBVIOUS
<1>11. Is(after)
  <2> HIDE DEF Is
  <2> QED
    BY <1>9, <1>10
<1>12. BreadthFirst(refs, start) = {search.result : search \in after[Cardinality(refs) + 1]}
  BY <1>10 DEF BreadthFirst
<1> DEFINE J == {k \in 0 .. n : after[k] \in T}
<1>13. /\ after[0] = First
       /\ \A k \in 1 .. n : after[k] = UNION {Next(search) : search \in after[k - 1]}
  <2>1. 0 \in 0 .. n /\ \A k \in 1 .. n : k \in 0 .. n /\ k # 0
    BY <1>2
  <2> HIDE DEF Next
  <2>2. QED
    BY <1>1, <1>11, <2>1
<1> HIDE DEF Is, First
<1>14. 0 \in J
  BY <1>2, <1>3, <1>13
<1>15. ASSUME NEW k \in 0 .. n - 1, k \in J PROVE k + 1 \in J
  <2>1. k + 1 \in 1 .. n /\ k + 1 \in 0 .. n /\ (k + 1) - 1 = k
    BY <1>2
  <2> HIDE DEF Next
  <2>2. after[k + 1] = UNION {Next(search) : search \in after[k]} /\ after[k] \in T
    BY <1>13, <1>15, <2>1
  <2>3. QED
    BY <1>4, <2>1, <2>2
<1>16. 0 .. n \subseteq J
  <2> HIDE DEF J
  <2>1. QED
    BY <1>2, <1>14, <1>15, UpTo
<1>17. \A k \in 0 .. n : after[k] \subseteq Searches(refs, R)
  BY <1>1, <1>16
<1>18. after[0] = {FirstSearch(start)}
  BY <1>13 DEF First, FirstSearch
<1>19. \A k \in 1 .. n : after[k] = UNION {SearchStep(refs, search) : search \in after[k - 1]}
  BY <1>13 DEF SearchStep
<1>20. SearchesBy(after, refs, start, R)
  BY <1>1, <1>12, <1>17, <1>18, <1>19 DEF SearchesBy
<1>21. QED
  BY <1>20

\* Whatever refers to a piece, but itself.
DirectlyFound(refs, start, found) ==
    \A ref \in refs : ref.other = start /\ ref.owner # start => ref \in Range(found)

\* The visit of the first piece notes whatever refers to it.
LEMMA FirstVisit ==
    ASSUME NEW R, NEW refs \in SUBSET [owner : R, other : R], IsFiniteSet(refs), NEW start \in R,
           NEW search \in SearchStep(refs, FirstSearch(start))
    PROVE  DirectlyFound(refs, start, search.result)
<1> SUFFICES ASSUME NEW ref \in refs, ref.other = start, ref.owner # start
             PROVE  ref \in Range(search.result)
  BY DEF DirectlyFound
<1>1. PICK first : first = FirstSearch(start)
  OBVIOUS
<1>2. /\ first.queue = <<start>> /\ first.visited = {start} /\ first.result = << >>
      /\ first.queue # << >> /\ Head(first.queue) = start
  BY <1>1 DEF FirstSearch
<1>3. search \in VisitNext(refs, first)
  BY <1>1, <1>2 DEF SearchStep
<1>4. PICK r, visited : r = Head(first.queue) /\ visited = first.visited
  OBVIOUS
<1>5. PICK found, own :
          /\ found = {q.owner : q \in {q \in refs : q.other = r}} \ visited
          /\ own = {p \in found : p.id = r.id /\ \A q \in refs : q.other # p}
  OBVIOUS
<1>6. PICK some \in SetToSeqs(found \ own) :
          search = LET order == some \o InOrder(own)
                   IN  [queue |-> Tail(first.queue) \o order,
                        visited |-> visited \cup found,
                        result |-> first.result \o [n \in DOMAIN order |-> Reference(order[n], r)]]
  BY <1>3, <1>4, <1>5 DEF VisitNext
<1>7. PICK order, noted : /\ order = some \o InOrder(own)
                          /\ noted = [n \in DOMAIN order |-> Reference(order[n], start)]
  OBVIOUS
<1>8. search.result = << >> \o noted /\ r = start /\ visited = {start}
  BY <1>2, <1>4, <1>6, <1>7
<1>9. IsFiniteSet(found) /\ found \subseteq R
  <2>1. PICK Q : Q = {q \in refs : q.other = start}
    OBVIOUS
  <2>2. IsFiniteSet(Q)
    BY <2>1, FS_Subset
  <2>3. PICK f : f = [q \in Q |-> q.owner]
    OBVIOUS
  <2>4. IsFiniteSet({f[q] : q \in Q})
    BY <2>2, <2>3, ImageIsFinite
  <2>5. {f[q] : q \in Q} = {q.owner : q \in Q}
    BY <2>3
  <2>6. found \subseteq {f[q] : q \in Q}
    BY <1>5, <1>8, <2>1, <2>5
  <2>7. \A q \in refs : q.owner \in R
    OBVIOUS
  <2>8. found \subseteq R
    BY <1>5, <2>7
  <2>9. QED
    BY <2>4, <2>6, <2>8, FS_Subset
<1>10. IsFiniteSet(own) /\ IsFiniteSet(found \ own)
  BY <1>5, <1>9, FS_Subset
<1>11. InOrder(own) \in Seq(R) /\ Range(InOrder(own)) = own
  <2>1. InOrder(own) \in Seq(own) /\ Range(InOrder(own)) = own
    BY <1>10, InOrderIs
  <2>2. own \subseteq R
    BY <1>5, <1>9
  <2>3. QED
    BY <2>1, <2>2, SeqMonotonic
<1>12. some \in Seq(R) /\ Range(some) = found \ own
  <2>1. some \in [1 .. Cardinality(found \ own) -> found \ own] /\ Cardinality(found \ own) \in Nat
    BY <1>10, FS_CardinalityType DEF SetToSeqs
  <2>2. some \in Seq(found \ own)
    BY <2>1, IsSeq
  <2>3. some \in Seq(R)
    BY <1>9, <2>2, SeqMonotonic
  <2>4. Range(some) = found \ own
    BY <1>10, OrderHasAll
  <2>5. QED
    BY <2>3, <2>4
<1>13. order \in Seq(R) /\ Joins(order, some, InOrder(own))
  BY <1>7, <1>11, <1>12, ConcatIs
<1>14. DOMAIN order = 1 .. Len(order) /\ Len(order) \in Nat
  BY <1>13, LenProperties
<1>15. \A p \in found : \E n \in DOMAIN order : order[n] = p
  <2> SUFFICES ASSUME NEW p \in found PROVE \E n \in DOMAIN order : order[n] = p
    OBVIOUS
  <2>1. CASE p \in own
    <3>1. PICK n \in DOMAIN InOrder(own) : InOrder(own)[n] = p
      BY <1>11, <2>1 DEF Range
    <3>2. DOMAIN InOrder(own) = 1 .. Len(InOrder(own))
      BY <1>11, LenProperties
    <3>3. Len(some) + n \in DOMAIN order /\ order[Len(some) + n] = p
      BY <1>13, <1>14, <3>1, <3>2 DEF Joins
    <3>4. QED
      BY <3>3
  <2>2. CASE p \notin own
    <3>1. PICK n \in DOMAIN some : some[n] = p
      BY <1>12, <2>2 DEF Range
    <3>2. DOMAIN some = 1 .. Len(some)
      BY <1>12, LenProperties
    <3>3. n \in DOMAIN order /\ order[n] = p
      BY <1>13, <1>14, <3>1, <3>2 DEF Joins
    <3>4. QED
      BY <3>3
  <2>3. QED
    BY <2>1, <2>2
<1>16. ref.owner \in found
  BY <1>5, <1>8
<1>17. PICK n \in DOMAIN order : order[n] = ref.owner
  BY <1>15, <1>16
<1>18. n \in DOMAIN noted /\ noted[n] = ref
  <2>1. noted[n] = Reference(ref.owner, start) /\ n \in DOMAIN noted
    BY <1>7, <1>17
  <2>2. ref = [owner |-> ref.owner, other |-> ref.other]
    OBVIOUS
  <2>3. QED
    BY <2>1, <2>2 DEF Reference
<1>19. << >> \o noted = noted
  <2>1. noted \in [1 .. Len(order) -> Range(noted)]
    BY <1>7, <1>14 DEF Range
  <2>2. noted \in Seq(Range(noted))
    BY <1>14, <2>1, IsSeq
  <2>3. QED
    BY <2>2, ConcatEmptySeq
<1>20. QED
  BY <1>8, <1>18, <1>19 DEF Range

\* What a search has noted stays noted.
LEMMA NotedKept ==
    ASSUME NEW R, NEW refs \in SUBSET [owner : R, other : R], IsFiniteSet(refs),
           NEW search \in Searches(refs, R), NEW next \in SearchStep(refs, search)
    PROVE  Range(search.result) \subseteq Range(next.result)
<1>1. CASE search.queue = << >>
  BY <1>1 DEF SearchStep
<1>2. CASE search.queue # << >>
  BY <1>2, VisitNextIs DEF SearchStep
<1>3. QED
  BY <1>1, <1>2

\* The answers to a search from a piece: references that are there, of
\* different owners, with those to the piece.
LEMMA BreadthFirstIs ==
    ASSUME NEW R, NEW refs \in SUBSET [owner : R, other : R], IsFiniteSet(refs), NEW start \in R
    PROVE  \A found \in BreadthFirst(refs, start) :
               found \in Seq(refs) /\ OwnersApart(found) /\ DirectlyFound(refs, start, found)
<1>1. PICK after : SearchesBy(after, refs, start, R)
  BY SearchedInSteps
<1>2. PICK n : n = Cardinality(refs)
  OBVIOUS
<1>3. n \in Nat
  BY <1>2, FS_CardinalityType
<1>4. /\ after[0] = {FirstSearch(start)}
      /\ \A k \in 1 .. n + 1 : after[k] = UNION {SearchStep(refs, search) : search \in after[k - 1]}
      /\ BreadthFirst(refs, start) = {search.result : search \in after[n + 1]}
      /\ \A k \in 0 .. n + 1 : after[k] \subseteq Searches(refs, R)
  BY <1>1, <1>2 DEF SearchesBy
<1> DEFINE J == {k \in 0 .. n : \A search \in after[k + 1] : DirectlyFound(refs, start, search.result)}
<1>5. 0 \in J
  <2>1. 0 \in 0 .. n /\ 1 \in 1 .. n + 1 /\ 1 - 1 = 0 /\ 0 + 1 = 1
    BY <1>3
  <2>2. after[1] = SearchStep(refs, FirstSearch(start))
    <3>1. after[1] = UNION {SearchStep(refs, search) : search \in after[0]}
      BY <1>4, <2>1
    <3>2. QED
      BY <1>4, <3>1
  <2>3. \A search \in after[1] : DirectlyFound(refs, start, search.result)
    BY <2>2, FirstVisit
  <2>4. QED
    BY <2>1, <2>3
<1>6. ASSUME NEW k \in 0 .. n - 1, k \in J PROVE k + 1 \in J
  <2>1. PICK l : l = k + 1
    OBVIOUS
  <2>2. l \in 0 .. n /\ l \in 0 .. n + 1 /\ l + 1 \in 1 .. n + 1 /\ (l + 1) - 1 = l
    BY <1>3, <2>1
  <2>3. ASSUME NEW next \in after[l + 1] PROVE DirectlyFound(refs, start, next.result)
    <3>1. PICK search \in after[l] : next \in SearchStep(refs, search)
      BY <1>4, <2>2, <2>3
    <3>2. DirectlyFound(refs, start, search.result)
      BY <1>6, <2>1, <3>1
    <3>3. search \in Searches(refs, R)
      BY <1>4, <2>2, <3>1
    <3>4. Range(search.result) \subseteq Range(next.result)
      BY <3>1, <3>3, NotedKept
    <3>5. QED
      BY <3>2, <3>4 DEF DirectlyFound
  <2>4. QED
    BY <2>1, <2>2, <2>3
<1>7. n \in J
  <2> HIDE DEF J
  <2>1. n \in 0 .. n
    BY <1>3
  <2>2. QED
    BY <1>3, <1>5, <1>6, <2>1, UpTo
<1>8. ASSUME NEW search \in after[n + 1]
      PROVE  /\ search.result \in Seq(refs) /\ OwnersApart(search.result)
             /\ DirectlyFound(refs, start, search.result)
  <2>1. n + 1 \in 0 .. n + 1
    BY <1>3
  <2>2. search \in Searches(refs, R)
    BY <1>4, <1>8, <2>1
  <2>3. QED
    BY <1>7, <1>8, <2>2 DEF Searches
<1>9. QED
  BY <1>4, <1>8

\* The new ones of the references found follow those known.
Extends(all, known, found) ==
    all = known \o Subsequence(found, {n \in DOMAIN found : found[n] \notin Range(known)})

\* What an earlier search found is followed by what the next one adds.
LEMMA DepsExtended ==
    ASSUME NEW refs, NEW known \in Seq(refs), NEW found \in Seq(refs), NEW all,
           Extends(all, known, found)
    PROVE  /\ all \in Seq(refs)
           /\ Range(known) \cup Range(found) \subseteq Range(all)
           /\ known = << >> /\ OwnersApart(found) => OwnersApart(all)
<1>1. PICK I : I = {n \in DOMAIN found : found[n] \notin Range(known)}
  OBVIOUS
<1>2. PICK some : some = Subsequence(found, I)
  OBVIOUS
<1>3. some \in Seq(refs) /\ \E at : Selects(at, some, found, I, Len(found))
  BY <1>2, SubsequenceIs
<1>4. all \in Seq(refs) /\ Joins(all, known, some)
  BY <1>1, <1>2, <1>3, ConcatIs DEF Extends
<1>5. ASSUME known = << >>, OwnersApart(found) PROVE OwnersApart(all)
  <2>1. all = some
    BY <1>1, <1>2, <1>3, <1>5, ConcatEmptySeq DEF Extends
  <2>2. PICK at : Selects(at, some, found, I, Len(found))
    BY <1>3
  <2>3. Len(some) \in Nat /\ Len(found) \in Nat
    BY <1>3, LenProperties
  <2>4. /\ \A m \in 1 .. Len(some) : at[m] \in 1 .. Len(found) /\ some[m] = found[at[m]]
        /\ \A m, n \in 1 .. Len(some) : m < n => at[m] < at[n]
    BY <2>2 DEF Selects
  <2>5. \A m, n \in 1 .. Len(some) : m # n => at[m] # at[n]
    BY <2>3, <2>4
  <2>6. QED
    BY <1>5, <2>1, <2>4, <2>5 DEF OwnersApart
<1>6. PICK j, k : j = Len(known) /\ k = Len(some)
  OBVIOUS
<1>7. /\ j \in Nat /\ k \in Nat /\ DOMAIN all = 1 .. j + k /\ DOMAIN known = 1 .. j
      /\ \A i \in 1 .. j : all[i] = known[i]
      /\ \A i \in 1 .. k : all[j + i] = some[i]
  BY <1>4, <1>6, LenProperties DEF Joins
<1>8. Range(known) \subseteq Range(all)
  <2>1. \A i \in 1 .. j : i \in 1 .. j + k
    BY <1>7
  <2>2. QED
    BY <1>7, <2>1 DEF Range
<1>9. ASSUME NEW n \in DOMAIN found PROVE found[n] \in Range(all)
  <2>1. CASE found[n] \in Range(known)
    BY <1>8, <2>1
  <2>2. CASE found[n] \notin Range(known)
    <3>1. PICK at : Selects(at, some, found, I, Len(found))
      BY <1>3
    <3>2. n \in 1 .. Len(found) /\ n \in I
      BY <1>1, <2>2, LenProperties
    <3>3. PICK m \in 1 .. k : at[m] = n
      BY <1>6, <3>1, <3>2 DEF Selects
    <3>4. some[m] = found[n]
      BY <1>6, <3>1, <3>3 DEF Selects
    <3>5. j + m \in 1 .. j + k
      BY <1>7
    <3>6. all[j + m] = found[n]
      BY <1>7, <3>4
    <3>7. QED
      BY <1>7, <3>5, <3>6 DEF Range
  <2>3. QED
    BY <2>1, <2>2
<1>10. Range(known) \cup Range(found) \subseteq Range(all)
  BY <1>8, <1>9 DEF Range
<1>11. QED
  BY <1>4, <1>5, <1>10

\* The answers to several searches; to one, of different owners.
LEMMA GetAllDepsIs ==
    ASSUME NEW R, NEW refs \in SUBSET [owner : R, other : R], IsFiniteSet(refs),
           NEW starts \in Seq(R)
    PROVE  \A found \in GetAllDeps(refs, starts) :
               /\ found \in Seq(refs) /\ Len(found) \in Nat
               /\ \A k \in 1 .. Len(starts) : DirectlyFound(refs, starts[k], found)
               /\ Len(starts) = 1 => OwnersApart(found)
               /\ Len(starts) = 0 => found = << >>
<1>1. PICK n, T : n = Len(starts) /\ T = SUBSET Seq(refs)
  OBVIOUS
<1>2. n \in Nat /\ \A k \in 1 .. n : starts[k] \in R
  BY <1>1, LenProperties, ElementOfSeq
<1> DEFINE Extend(known, found) ==
               known \o Subsequence(found, {k \in DOMAIN found : found[k] \notin Range(known)})
           Search(known, start) == {Extend(known, found) : found \in BreadthFirst(refs, start)}
           Next(S, k) == UNION {Search(known, starts[k]) : known \in S}
           Is(f) == f = [k \in 0 .. Len(starts) |->
                            IF k = 0 THEN {<< >>}
                            ELSE UNION {Search(known, starts[k]) : known \in f[k - 1]}]
<1>3. \A k \in 1 .. n : \A found \in BreadthFirst(refs, starts[k]) :
          found \in Seq(refs) /\ OwnersApart(found) /\ DirectlyFound(refs, starts[k], found)
  BY <1>2, BreadthFirstIs
<1>4. \A known, found \in Seq(refs) :
          /\ Extend(known, found) \in Seq(refs)
          /\ Range(known) \cup Range(found) \subseteq Range(Extend(known, found))
          /\ known = << >> /\ OwnersApart(found) => OwnersApart(Extend(known, found))
  <2> SUFFICES ASSUME NEW known \in Seq(refs), NEW found \in Seq(refs), NEW all,
                      Extends(all, known, found)
               PROVE  /\ all \in Seq(refs)
                      /\ Range(known) \cup Range(found) \subseteq Range(all)
                      /\ known = << >> /\ OwnersApart(found) => OwnersApart(all)
    BY DEF Extends
  <2>1. QED
    BY DepsExtended
<1>5. \A k \in 1 .. n : \A S \in T : Next(S, k) \in T
  <2> HIDE DEF Extend
  <2> QED
    BY <1>1, <1>3, <1>4
<1>6. PICK step : step = [k \in 1 .. n |-> [S \in T |-> Next(S, k)]]
  OBVIOUS
<1>7. step \in [1 .. n -> [T -> T]]
  <2> HIDE DEF Next
  <2> QED
    BY <1>5, <1>6
<1>8. {<< >>} \in T
  BY <1>1
<1>9. PICK f : Steps(f, n, T, {<< >>}, step)
  BY <1>2, <1>7, <1>8, Recursion
<1>10. \A k \in 1 .. n : f[k] = Next(f[k - 1], k)
  <2> SUFFICES ASSUME NEW k \in 1 .. n PROVE f[k] = Next(f[k - 1], k)
    OBVIOUS
  <2>1. k - 1 \in 0 .. n
    BY <1>2
  <2>2. f[k - 1] \in T /\ f[k] = step[k][f[k - 1]]
    BY <1>9, <2>1 DEF Steps
  <2> HIDE DEF Next
  <2>3. QED
    BY <1>6, <2>2
<1>11. Is(f)
  <2>1. f \in [0 .. n -> T] /\ f[0] = {<< >>}
    BY <1>9 DEF Steps
  <2>2. \A k \in 0 .. n : k = 0 \/ k \in 1 .. n
    BY <1>2
  <2> HIDE DEF Search
  <2>3. QED
    BY <1>1, <1>10, <2>1, <2>2
<1>12. PICK after : after = CHOOSE h : Is(h)
  OBVIOUS
<1>13. Is(after)
  <2> HIDE DEF Is
  <2> QED
    BY <1>11, <1>12
<1>14. GetAllDeps(refs, starts) = after[Len(starts)]
  BY <1>12 DEF GetAllDeps
<1>15. after[0] = {<< >>} /\ \A k \in 1 .. n : after[k] = Next(after[k - 1], k)
  <2>1. 0 \in 0 .. n /\ \A k \in 1 .. n : k \in 0 .. n /\ k # 0
    BY <1>2
  <2> HIDE DEF Search
  <2>2. QED
    BY <1>1, <1>13, <2>1
<1> HIDE DEF Is
<1> DEFINE J == {k \in 0 .. n : after[k] \in T}
<1>16. 0 \in J
  <2> HIDE DEF Next
  <2>1. after[0] \in T /\ 0 \in 0 .. n
    BY <1>2, <1>8, <1>15
  <2>2. QED
    BY <2>1
<1>17. ASSUME NEW k \in 0 .. n - 1, k \in J PROVE k + 1 \in J
  <2>1. k + 1 \in 1 .. n /\ k + 1 \in 0 .. n /\ (k + 1) - 1 = k
    BY <1>2
  <2> HIDE DEF Next
  <2>2. after[k + 1] = Next(after[k], k + 1) /\ after[k] \in T
    BY <1>15, <1>17, <2>1
  <2>3. QED
    BY <1>5, <2>1, <2>2
<1>18. 0 .. n \subseteq J
  <2> HIDE DEF J
  <2>1. QED
    BY <1>2, <1>16, <1>17, UpTo
<1>19. \A k \in 0 .. n : after[k] \subseteq Seq(refs)
  BY <1>1, <1>18
<1>20. ASSUME NEW k \in 1 .. n, NEW all \in after[k]
       PROVE  \E known \in after[k - 1], found \in BreadthFirst(refs, starts[k]) :
                  /\ known \in Seq(refs) /\ found \in Seq(refs)
                  /\ all = Extend(known, found)
  <2>1. k - 1 \in 0 .. n
    BY <1>2
  <2>2. after[k] = Next(after[k - 1], k)
    BY <1>15
  <2>3. PICK known \in after[k - 1], found \in BreadthFirst(refs, starts[k]) :
            all = Extend(known, found)
    <3> HIDE DEF Extend
    <3>1. QED
      BY <1>20, <2>2
  <2>4. known \in Seq(refs) /\ found \in Seq(refs)
    BY <1>3, <1>19, <2>1, <2>3
  <2> HIDE DEF Extend
  <2>5. QED
    BY <2>3, <2>4
<1> HIDE DEF Extend, Next
<1> DEFINE K == {k \in 0 .. n : \A l \in 1 .. k : \A all \in after[k] :
                                   DirectlyFound(refs, starts[l], all)}
<1>21. 0 \in K
  BY <1>2
<1>22. ASSUME NEW k \in 0 .. n - 1, k \in K PROVE k + 1 \in K
  <2>1. PICK j : j = k + 1
    OBVIOUS
  <2>2. j \in 1 .. n /\ j \in 0 .. n /\ j - 1 = k /\ \A l \in 1 .. j : l = j \/ l \in 1 .. k
    BY <1>2, <2>1
  <2>3. ASSUME NEW l \in 1 .. j, NEW all \in after[j] PROVE DirectlyFound(refs, starts[l], all)
    <3>1. PICK known \in after[k], found \in BreadthFirst(refs, starts[j]) :
              /\ known \in Seq(refs) /\ found \in Seq(refs)
              /\ all = Extend(known, found)
      BY <1>20, <2>2, <2>3
    <3>2. Range(known) \cup Range(found) \subseteq Range(all)
      BY <1>4, <3>1
    <3>3. DirectlyFound(refs, starts[l], known) \/ DirectlyFound(refs, starts[l], found)
      BY <1>3, <1>22, <2>2, <2>3, <3>1
    <3>4. QED
      BY <3>2, <3>3 DEF DirectlyFound
  <2>4. QED
    BY <2>1, <2>2, <2>3
<1>23. n \in K
  <2> HIDE DEF K
  <2>1. n \in 0 .. n
    BY <1>2
  <2>2. QED
    BY <1>2, <1>21, <1>22, <2>1, UpTo
<1>24. ASSUME n = 1, NEW all \in after[n] PROVE OwnersApart(all)
  <2>1. 1 \in 1 .. n /\ 1 - 1 = 0
    BY <1>24
  <2>2. PICK known \in after[0], found \in BreadthFirst(refs, starts[1]) :
            /\ known \in Seq(refs) /\ found \in Seq(refs)
            /\ all = Extend(known, found)
    BY <1>20, <1>24, <2>1
  <2>3. known = << >> /\ OwnersApart(found)
    BY <1>3, <1>15, <2>1, <2>2
  <2>4. QED
    BY <1>4, <2>2, <2>3
<1>25. n \in 0 .. n
  BY <1>2
<1>26. QED
  BY <1>1, <1>14, <1>15, <1>19, <1>23, <1>24, <1>25, LenProperties

-----------------------------------------------------------------------------
(* The results of a type, and the one that is nearest *)

\* Numbers that increase are at least their places, and are their places when
\* no number is left out.
Covers(at, k, n) == \A i \in 1 .. n : \E m \in 1 .. k : at[m] = i

\* Such numbers, by induction on their places.
LEMMA PlacesIncrease ==
    ASSUME NEW k \in Nat, NEW n \in Nat, NEW at, \A m \in 1 .. k : at[m] \in 1 .. n,
           \A m, j \in 1 .. k : m < j => at[m] < at[j]
    PROVE  /\ k <= n
           /\ Covers(at, k, n) => k = n /\ \A m \in 1 .. k : at[m] = m
<1> DEFINE J == {m \in 0 .. k : \A j \in 1 .. m : at[j] >= j}
<1>1. 0 \in J
  OBVIOUS
<1>2. ASSUME NEW m \in 0 .. k - 1, m \in J PROVE m + 1 \in J
  <2>1. m + 1 \in 1 .. k /\ m + 1 \in 0 .. k
    BY <1>2
  <2>2. at[m + 1] >= m + 1
    <3>1. CASE m = 0
      BY <2>1, <3>1
    <3>2. CASE m # 0
      <4>1. m \in 1 .. k /\ m \in 1 .. m /\ m < m + 1
        BY <1>2, <3>2
      <4>2. at[m] >= m /\ at[m] < at[m + 1] /\ at[m] \in 1 .. n /\ at[m + 1] \in 1 .. n
        BY <1>2, <2>1, <4>1
      <4>3. QED
        BY <4>2
    <3>3. QED
      BY <3>1, <3>2
  <2>3. \A j \in 1 .. m + 1 : j = m + 1 \/ j \in 1 .. m
    BY <1>2
  <2>4. QED
    BY <1>2, <2>1, <2>2, <2>3
<1>3. k \in J
  <2> HIDE DEF J
  <2>1. QED
    BY <1>1, <1>2, UpTo, SMTT(30)
<1>4. \A m \in 1 .. k : at[m] >= m
  BY <1>3
<1>5. k <= n
  <2>1. CASE k = 0
    BY <2>1
  <2>2. CASE k # 0
    <3>1. k \in 1 .. k
      BY <2>2
    <3>2. at[k] >= k /\ at[k] \in 1 .. n
      BY <1>4, <3>1
    <3>3. QED
      BY <3>2
  <2>3. QED
    BY <2>1, <2>2
<1>6. ASSUME Covers(at, k, n) PROVE k = n /\ \A m \in 1 .. k : at[m] = m
  <2> DEFINE I == {m \in 0 .. k : \A j \in 1 .. m : at[j] = j}
  <2>1. 0 \in I
    OBVIOUS
  <2>2. ASSUME NEW m \in 0 .. k - 1, m \in I PROVE m + 1 \in I
    <3>1. m + 1 \in 1 .. k /\ m + 1 \in 0 .. k /\ m + 1 \in 1 .. n
      BY <1>5, <2>2
    <3>2. PICK j \in 1 .. k : at[j] = m + 1
      BY <1>6, <3>1 DEF Covers
    <3>3. CASE j \in 1 .. m
      <4>1. at[j] = j
        BY <2>2, <3>3
      <4>2. QED
        BY <3>2, <3>3, <4>1
    <3>4. CASE j > m + 1
      <4>1. at[m + 1] < at[j] /\ at[m + 1] >= m + 1 /\ at[m + 1] \in 1 .. n
        BY <1>4, <3>1, <3>4
      <4>2. QED
        BY <3>2, <4>1
    <3>5. CASE j = m + 1
      <4>1. \A i \in 1 .. m + 1 : i = m + 1 \/ i \in 1 .. m
        BY <2>2
      <4>2. at[m + 1] = m + 1
        BY <3>2, <3>5
      <4>3. QED
        BY <2>2, <3>1, <4>1, <4>2
    <3>6. QED
      BY <2>2, <3>3, <3>4, <3>5
  <2>3. k \in I
    <3> HIDE DEF I
    <3>1. QED
      BY <2>1, <2>2, UpTo
  <2>4. \A m \in 1 .. k : at[m] = m
    BY <2>3
  <2>5. ASSUME k < n PROVE FALSE
    <3>1. k + 1 \in 1 .. n
      BY <2>5
    <3>2. PICK j \in 1 .. k : at[j] = k + 1
      BY <1>6, <3>1 DEF Covers
    <3>3. QED
      BY <2>4, <3>2
  <2>6. QED
    BY <1>5, <2>4, <2>5
<1>7. QED
  BY <1>5, <1>6

\* A sequence of which nothing is left out.
LEMMA SelectsAll ==
    ASSUME NEW T, NEW s \in Seq(T), NEW r \in Seq(T), NEW at, NEW I,
           Selects(at, r, s, I, Len(s))
    PROVE  /\ Len(r) <= Len(s)
           /\ I = DOMAIN s => r = s
<1>1. PICK k, n : k = Len(r) /\ n = Len(s)
  OBVIOUS
<1>2. k \in Nat /\ n \in Nat /\ DOMAIN s = 1 .. n
  BY <1>1, LenProperties
<1>3. /\ \A m \in 1 .. k : at[m] \in 1 .. n /\ r[m] = s[at[m]]
      /\ \A m, j \in 1 .. k : m < j => at[m] < at[j]
      /\ \A i \in 1 .. n : i \in I => \E m \in 1 .. k : at[m] = i
  BY <1>1 DEF Selects
<1>4. k <= n
  BY <1>2, <1>3, PlacesIncrease
<1>5. ASSUME I = DOMAIN s PROVE r = s
  <2>1. Covers(at, k, n)
    BY <1>2, <1>3, <1>5 DEF Covers
  <2>2. k = n /\ \A m \in 1 .. k : at[m] = m
    BY <1>2, <1>3, <2>1, PlacesIncrease
  <2>3. \A m \in 1 .. k : r[m] = s[m]
    BY <1>3, <2>2
  <2>4. QED
    BY <1>1, <2>2, <2>3, SeqEqual
<1>6. QED
  BY <1>1, <1>4, <1>5

\* The results of a type are a sequence, and those a distance can be from are
\* of the type's kind.  They are what the piece of their index evaluates to,
\* unless an opening was emptied.
HasEmptied(obj) == obj.kind = "Wall" /\ \E i \in DOMAIN obj.openings : obj.openings[i] = None
AreResultsTo(n, results, obj, t) ==
    /\ DOMAIN results = 1 .. n
    /\ n <= (IF obj.kind = "Wall" THEN Len(obj.openings) + 2 ELSE 2)
    /\ \A i \in 1 .. n :
          /\ t = "ProfilePoint" => results[i] \in PointResults
          /\ t = "ProfileLine" => results[i] \in LineResults
          /\ t = "ProfilePlane" => results[i] \in PlaneResults
          /\ t \notin {"ProfilePoint", "ProfileLine", "ProfilePlane"} => ~ HasDistance(results[i])
          /\ t \in {"ProfilePoint", "ProfileLine"} \/ (t = "ProfilePlane" /\ ~ HasEmptied(obj)) =>
                GetResult(obj, t, i) = results[i]
AreResults(results, obj, t) == \E n \in Nat : AreResultsTo(n, results, obj, t)

\* The results of a type of a wall are of that type, and those of points, lines
\* and, without an emptied opening, planes are at their own indexes.
LEMMA WallResults ==
    ASSUME NEW x, NEW R, NEW wall \in WallsOf(x, R), NEW t
    PROVE  AreResults(W!GetResultsForType(wall, t), wall, t)
<1>1. PICK results : results = W!GetResultsForType(wall, t)
  OBVIOUS
<1>2. /\ \A k \in 1 .. 2 : wall.pts[k].info \in PointResults
      /\ DOMAIN wall.pts = 1 .. 2 /\ wall.kind = "Wall"
      /\ wall.openings \in Seq([refer : Slot(R), info : PlaneResults] \cup {None})
  BY DEF WallsOf
<1>3. PICK openings : openings = Subsequence(wall.openings,
                                             {i \in DOMAIN wall.openings : wall.openings[i] # None})
  OBVIOUS
<1>4. Len(wall.openings) \in Nat
  BY <1>2, LenProperties
<1>5. \A i : GetResult(wall, t, i) = W!GetResult(wall, t, i)
  BY <1>2, OfWall
<1>6. CASE t \in {"Drawable", "Existence", "AxisAlignedBoundBox"}
  <2>1. results = <<Empty>> \/ results = <<Cube(0, 0)>>
    BY <1>1, <1>6 DEF W!GetResultsForType, W!Empty, Empty, W!Cube, Cube
  <2>2. DOMAIN results = 1 .. 1 /\ results[1].kind \in {"Empty", "Cube"}
    BY <2>1 DEF Empty, Cube
  <2>3. \A i \in 1 .. 1 : ~ HasDistance(results[i])
    BY <2>2 DEF HasDistance
  <2>4. AreResultsTo(1, results, wall, t)
    BY <1>2, <1>4, <1>6, <2>2, <2>3 DEF AreResultsTo
  <2>5. QED
    BY <1>1, <2>4 DEF AreResults
<1>7. CASE t = "ProfilePoint"
  <2>1. results = [i \in 1 .. 2 |-> wall.pts[i].info]
    BY <1>1, <1>7 DEF W!GetResultsForType
  <2>2. \A i \in 1 .. 2 : results[i] \in PointResults /\ GetResult(wall, t, i) = results[i]
    BY <1>2, <1>5, <1>7, <2>1, WallResult
  <2>3. AreResultsTo(2, results, wall, t)
    BY <1>2, <1>4, <1>7, <2>1, <2>2 DEF AreResultsTo
  <2>4. QED
    BY <1>1, <2>3 DEF AreResults
<1>8. CASE t = "ProfileLine"
  <2>1. results = <<Line(wall.pts[1].info.at, wall.pts[2].info.at)>>
    BY <1>1, <1>8 DEF W!GetResultsForType, W!Line, Line, W!First, W!Second
  <2>2. DOMAIN results = 1 .. 1 /\ results[1] = Line(wall.pts[1].info.at, wall.pts[2].info.at)
    BY <2>1
  <2>3. \A i \in 1 .. 1 : results[i] \in LineResults /\ GetResult(wall, t, i) = results[i]
    BY <1>2, <1>5, <1>8, <2>2, WallResult DEF Line, LineResults, PointResults
  <2>4. AreResultsTo(1, results, wall, t)
    BY <1>2, <1>4, <1>8, <2>2, <2>3 DEF AreResultsTo
  <2>5. QED
    BY <1>1, <2>4 DEF AreResults
<1>9. CASE t = "ProfilePlane"
  <2>1. results = [i \in DOMAIN openings |-> openings[i].info]
    <3>1. W!Subsequence(wall.openings, {i \in DOMAIN wall.openings : wall.openings[i] # None}) =
              Subsequence(wall.openings, {i \in DOMAIN wall.openings : wall.openings[i] # None})
      BY DEF W!Subsequence, Subsequence
    <3>2. QED
      BY <1>1, <1>3, <1>9, <3>1 DEF W!GetResultsForType
  <2>2. PICK I : I = {i \in DOMAIN wall.openings : wall.openings[i] # None}
    OBVIOUS
  <2>3. /\ openings \in Seq([refer : Slot(R), info : PlaneResults] \cup {None})
        /\ \E at : Selects(at, openings, wall.openings, I, Len(wall.openings))
    BY <1>2, <1>3, <2>2, SubsequenceIs
  <2>4. PICK at : Selects(at, openings, wall.openings, I, Len(wall.openings))
    BY <2>3
  <2>5. PICK n : n = Len(openings)
    OBVIOUS
  <2>6. n \in Nat /\ DOMAIN openings = 1 .. n
    BY <2>3, <2>5, LenProperties
  <2>7. n <= Len(wall.openings) /\ (I = DOMAIN wall.openings => openings = wall.openings)
    BY <1>2, <2>3, <2>4, <2>5, SelectsAll
  <2>8. ASSUME NEW i \in 1 .. n PROVE results[i] \in PlaneResults /\ results[i] = openings[i].info
    <3>1. openings[i] = wall.openings[at[i]] /\ at[i] \in I
      BY <2>4, <2>5 DEF Selects
    <3>2. openings[i] # None
      BY <2>2, <3>1
    <3>3. openings[i] \in [refer : Slot(R), info : PlaneResults] \cup {None}
      BY <2>3, <2>5, ElementOfSeq
    <3>4. QED
      BY <2>1, <2>6, <3>2, <3>3
  <2>9. ASSUME NEW i \in 1 .. n, ~ HasEmptied(wall) PROVE GetResult(wall, t, i) = results[i]
    <3>1. I = DOMAIN wall.openings
      BY <1>2, <2>2, <2>9 DEF HasEmptied
    <3>2. i \in DOMAIN wall.openings /\ wall.openings[i] # None
      BY <1>2, <2>2, <2>6, <2>7, <3>1
    <3>3. QED
      BY <1>5, <1>9, <2>7, <2>8, <3>1, <3>2, WallResult
  <2>10. n <= Len(wall.openings) + 2 /\ DOMAIN results = 1 .. n
    BY <1>4, <2>1, <2>6, <2>7
  <2>11. QED
    <3>1. AreResultsTo(n, results, wall, t)
      BY <1>2, <1>9, <2>6, <2>8, <2>9, <2>10 DEF AreResultsTo
    <3>2. QED
      BY <1>1, <2>6, <3>1 DEF AreResults
<1>10. CASE t \notin RefType
  <2>1. results = << >>
    BY <1>1, <1>10 DEF W!GetResultsForType, RefType
  <2>2. DOMAIN results = 1 .. 0
    BY <2>1
  <2>3. AreResultsTo(0, results, wall, t)
    BY <1>2, <1>4, <1>10, <2>2 DEF AreResultsTo, RefType
  <2>4. QED
    BY <1>1, <2>3 DEF AreResults
<1>11. QED
  BY <1>6, <1>7, <1>8, <1>9, <1>10 DEF RefType

\* The same of any object.
LEMMA ObjectResults ==
    ASSUME NEW x, NEW R, NEW obj \in Objects(x, R), NEW t
    PROVE  AreResults(GetResultsForType(obj, t), obj, t)
<1>1. PICK results : results = GetResultsForType(obj, t)
  OBVIOUS
<1>2. CASE obj.kind = "Wall" /\ obj \in WallsOf(x, R)
  BY <1>2, OfWall, WallResults
<1>3. CASE obj.kind = "Door" /\ obj \in DoorsOf(x, R)
  <2>1. results = D!GetResultsForType(obj, t) /\ \A i : GetResult(obj, t, i) = D!GetResult(obj, t, i)
    BY <1>1, <1>3, OfDoor
  <2>2. DOMAIN results \in {{}, {1}, {1, 2}}
    BY <1>3, <2>1, DoorResult
  <2>3. t \notin {"Drawable", "Existence"} =>
            \A i \in DOMAIN results : GetResult(obj, t, i) = results[i]
    BY <1>3, <2>1, DoorResult
  <2>4. PICK p, q : p = obj.dir.line.pt_1 /\ q = obj.dir.line.pt_2
    OBVIOUS
  <2>5. p \in Number /\ q \in Number /\ obj.dir.line \in LineResults
    BY <1>3, <2>4 DEF DoorsOf, Segments, LineResults
  <2>6. ASSUME NEW i \in DOMAIN results
        PROVE  /\ t = "ProfilePoint" => results[i] \in PointResults
               /\ t = "ProfileLine" => results[i] \in LineResults
               /\ t = "ProfilePlane" => results[i] \in PlaneResults
               /\ t \notin {"ProfilePoint", "ProfileLine", "ProfilePlane"} =>
                     ~ HasDistance(results[i])
    <3>1. CASE t = "ProfilePoint"
      <4>1. results = <<D!Point(p), D!Point(q)>>
        BY <2>1, <2>4, <3>1 DEF D!GetResultsForType
      <4>2. D!Point(p) \in PointResults /\ D!Point(q) \in PointResults
        BY <2>5 DEF D!Point, PointResults
      <4>3. QED
        BY <3>1, <4>1, <4>2
    <3>2. CASE t = "ProfileLine"
      <4>1. results = <<obj.dir.line>>
        BY <2>1, <3>2 DEF D!GetResultsForType
      <4>2. QED
        BY <2>5, <3>2, <4>1
    <3>3. CASE t = "ProfilePlane"
      <4>1. results = <<D!Plane(p, q)>>
        BY <2>1, <2>4, <3>3 DEF D!GetResultsForType
      <4>2. D!Plane(p, q) \in PlaneResults
        BY <2>5 DEF D!Plane, PlaneResults
      <4>3. QED
        BY <3>3, <4>1, <4>2
    <3>4. CASE t \notin {"ProfilePoint", "ProfileLine", "ProfilePlane"}
      <4>1. results = <<Empty>> \/ results = <<Cube(0, 0)>> \/ results = << >>
        BY <2>1, <3>4 DEF D!GetResultsForType, D!Empty, Empty, D!Cube, Cube
      <4>2. results[i].kind \in {"Empty", "Cube"}
        BY <4>1 DEF Empty, Cube
      <4>3. QED
        BY <3>4, <4>2 DEF HasDistance
    <3>5. QED
      BY <3>1, <3>2, <3>3, <3>4
  <2>7. PICK n \in {0, 1, 2} : DOMAIN results = 1 .. n
    <3>1. {} = 1 .. 0 /\ {1} = 1 .. 1 /\ {1, 2} = 1 .. 2
      OBVIOUS
    <3>2. QED
      BY <2>2, <3>1
  <2>8. AreResultsTo(n, results, obj, t)
    BY <1>3, <2>3, <2>6, <2>7 DEF AreResultsTo
  <2>9. QED
    BY <1>1, <2>8 DEF AreResults
<1>4. CASE obj.kind \in {"VisibilityGroup", "Sheet", "Viewport"}
  <2>1. results = << >> \/ (t = "Existence" /\ results = <<Empty>>)
    BY <1>1, <1>4, OfGroup, OfSheet, OfViewport
    DEF P!GetResultsForType, V!GetResultsForType, P!Empty, V!Empty, Empty
  <2>2. CASE results = << >>
    <3>1. DOMAIN results = 1 .. 0
      BY <2>2
    <3>2. AreResultsTo(0, results, obj, t)
      BY <1>4, <3>1 DEF AreResultsTo
    <3>3. QED
      BY <1>1, <3>2 DEF AreResults
  <2>3. CASE t = "Existence" /\ results = <<Empty>>
    <3>1. DOMAIN results = 1 .. 1 /\ results[1].kind = "Empty"
      BY <2>3 DEF Empty
    <3>2. \A i \in 1 .. 1 : ~ HasDistance(results[i])
      BY <3>1 DEF HasDistance
    <3>3. AreResultsTo(1, results, obj, t)
      BY <1>4, <2>3, <3>1, <3>2 DEF AreResultsTo
    <3>4. QED
      BY <1>1, <3>3 DEF AreResults
  <2>4. QED
    BY <2>1, <2>2, <2>3
<1>5. QED
  BY <1>2, <1>3, <1>4, ObjectKinds

\* Among numbers there is a first one of those with the smallest value.
IsFirstOf(i, S, f) ==
    i \in S /\ \A j \in S : f[i] < f[j] \/ (f[i] = f[j] /\ i <= j)

\* A set of numbers has a smallest one.
LEMMA SmallestIsThere ==
    ASSUME NEW S, S # {}, S \subseteq Nat
    PROVE  \E i \in S : \A j \in S : i <= j
<1> DEFINE R == {ss \in Nat \X Nat : ss[1] < ss[2]}
<1>1. OpToRel(<, Nat) = R
  BY Zenon DEF OpToRel
<1>2. IsWellFoundedOn(R, Nat)
  BY Zenon, <1>1, NatLessThanWellFounded
<1>3. PICK i \in S : \A j \in S : ~ (<<j, i>> \in R)
  <2> HIDE DEF R
  <2> QED
    BY <1>2, WFMin
<1>4. ASSUME NEW j \in S PROVE i <= j
  <2>1. i \in Nat /\ j \in Nat /\ ~ (<<j, i>> \in R)
    BY <1>3
  <2>2. ~ (j < i)
    BY <2>1
  <2>3. QED
    BY <2>1, <2>2
<1>5. QED
  BY <1>4

\* Candidates have a first one of those nearest.
LEMMA FirstIsThere ==
    ASSUME NEW S, S # {}, S \subseteq Nat, NEW f, \A i \in S : f[i] \in Nat
    PROVE  \E i : IsFirstOf(i, S, f)
<1>1. PICK T : T = {f[i] : i \in S}
  OBVIOUS
<1>2. T # {} /\ T \subseteq Nat
  BY <1>1
<1>3. PICK d \in T : \A e \in T : d <= e
  BY <1>2, SmallestIsThere
<1>4. PICK U : U = {i \in S : f[i] = d}
  OBVIOUS
<1>5. U # {} /\ U \subseteq Nat
  BY <1>1, <1>3, <1>4
<1>6. PICK i \in U : \A j \in U : i <= j
  BY <1>5, SmallestIsThere
<1>7. ASSUME NEW j \in S PROVE f[i] < f[j] \/ (f[i] = f[j] /\ i <= j)
  <2>1. f[i] = d /\ d <= f[j] /\ f[j] \in Nat /\ d \in Nat
    BY <1>1, <1>2, <1>3, <1>4, <1>6
  <2>2. f[j] = d => i <= j
    BY <1>4, <1>6
  <2>3. QED
    BY <2>1, <2>2
<1>8. QED
  BY <1>4, <1>6, <1>7 DEF IsFirstOf

\* A distance is a number.
LEMMA DistanceIs ==
    ASSUME NEW result, HasDistance(result), NEW guess \in Int,
           result \in PointResults \cup LineResults \cup PlaneResults
    PROVE  Distance(result, guess) \in Nat
<1>1. CASE result \in PointResults
  <2>1. result.kind = "Point" /\ result.at \in Int
    BY <1>1 DEF PointResults, Number, HasDistance
  <2>2. Distance(result, guess) = Abs(result.at - guess)
    BY <2>1 DEF Distance
  <2>3. QED
    BY <2>1, <2>2 DEF Abs
<1>2. CASE result \in LineResults
  <2>1. result.kind = "Line"
    BY <1>2 DEF LineResults
  <2>2. Distance(result, guess) = 0
    BY <2>1 DEF Distance
  <2>3. QED
    BY <2>2
<1>3. CASE result \in PlaneResults
  <2>1. result.kind = "Plane" /\ result.pt_1 \in Int
    BY <1>3 DEF PlaneResults, Number, HasDistance
  <2>2. Distance(result, guess) = Abs(result.pt_1 - guess)
    BY <2>1 DEF Distance
  <2>3. QED
    BY <2>1, <2>2 DEF Abs
<1>4. QED
  BY <1>1, <1>2, <1>3

\* The nearest result is one of those a distance can be from.
NearResults(obj, t) == {i \in DOMAIN GetResultsForType(obj, t) :
                           HasDistance(GetResultsForType(obj, t)[i])}
Distances(obj, t, guess) ==
    [i \in NearResults(obj, t) |-> Distance(GetResultsForType(obj, t)[i], guess)]

\* get_closest_result returns the first of the nearest results, or none.
LEMMA ClosestResultIs ==
    ASSUME NEW x, NEW R, NEW obj \in Objects(x, R), NEW t, NEW guess \in Int
    PROVE  /\ NearResults(obj, t) = {} => GetClosestResult(obj, t, guess) = None
           /\ NearResults(obj, t) # {} =>
                 IsFirstOf(GetClosestResult(obj, t, guess), NearResults(obj, t),
                           Distances(obj, t, guess))
<1>1. PICK results, S, f :
          /\ results = GetResultsForType(obj, t)
          /\ S = NearResults(obj, t) /\ f = Distances(obj, t, guess)
  OBVIOUS
<1>2. S = {i \in DOMAIN results : HasDistance(results[i])}
  BY <1>1 DEF NearResults
<1>3. f = [i \in S |-> Distance(results[i], guess)]
  BY <1>1 DEF Distances
<1> DEFINE Near(i) ==
               /\ i \in NearResults(obj, t)
               /\ \A j \in NearResults(obj, t) :
                     \/ Distance(GetResultsForType(obj, t)[i], guess) <
                            Distance(GetResultsForType(obj, t)[j], guess)
                     \/ (/\ Distance(GetResultsForType(obj, t)[i], guess) =
                               Distance(GetResultsForType(obj, t)[j], guess)
                         /\ i <= j)
<1>4. GetClosestResult(obj, t, guess) =
          IF NearResults(obj, t) = {} THEN None ELSE CHOOSE i \in NearResults(obj, t) : Near(i)
  BY DEF GetClosestResult, Nearest, IsNearest, NearResults
<1> HIDE DEF Near
<1>5. CASE S = {}
  BY <1>1, <1>4, <1>5
<1>6. CASE S # {}
  <2>1. PICK n \in Nat : AreResultsTo(n, results, obj, t)
    BY <1>1, ObjectResults DEF AreResults
  <2>2. S \subseteq Nat
    BY <1>2, <2>1 DEF AreResultsTo
  <2>3. \A i \in S : f[i] \in Nat
    <3> SUFFICES ASSUME NEW i \in S PROVE f[i] \in Nat
      OBVIOUS
    <3>1. HasDistance(results[i]) /\ results[i] \in PointResults \cup LineResults \cup PlaneResults
      BY <1>2, <2>1 DEF AreResultsTo
    <3>2. QED
      BY <1>3, <3>1, DistanceIs
  <2>4. PICK k : IsFirstOf(k, S, f)
    BY <1>6, <2>2, <2>3, FirstIsThere
  <2>5. Near(k)
    BY <1>1, <1>3, <2>4 DEF IsFirstOf, Near
  <2>6. k \in NearResults(obj, t)
    BY <1>1, <2>4 DEF IsFirstOf
  <2>7. Near(GetClosestResult(obj, t, guess))
    BY <1>1, <1>4, <1>6, <2>5, <2>6
  <2>8. IsFirstOf(GetClosestResult(obj, t, guess), S, f)
    BY <1>1, <1>3, <2>7 DEF IsFirstOf, Near
  <2>9. QED
    BY <1>1, <1>6, <2>8
<1>7. QED
  BY <1>5, <1>6

\* What can be set in an object: an end or an opening of a wall, the line of a
\* door.
LEMMA AvailableRefs ==
    ASSUME NEW x, NEW R, NEW obj \in Objects(x, R), NEW t
    PROVE  /\ GetAvailableRefs(obj, t) \subseteq Nat
           /\ GetAvailableRefs(obj, t) # {} => obj.kind \in {"Wall", "Door"}
<1>1. CASE obj.kind = "Wall" /\ obj \in WallsOf(x, R)
  <2>1. obj.openings \in Seq([refer : Slot(R), info : PlaneResults] \cup {None})
    BY <1>1 DEF WallsOf
  <2>2. DOMAIN obj.openings \subseteq Nat
    <3>1. DOMAIN obj.openings = 1 .. Len(obj.openings)
      BY <2>1, LenProperties
    <3>2. QED
      BY <3>1
  <2>3. W!GetAvailableRefs(obj, t) \subseteq Nat
    BY <2>2 DEF W!GetAvailableRefs
  <2>4. QED
    BY <1>1, <2>3, OfWall
<1>2. CASE obj.kind = "Door"
  <2>1. D!GetAvailableRefs(obj, t) \subseteq Nat
    BY DEF D!GetAvailableRefs
  <2>2. QED
    BY <1>2, <2>1, OfDoor
<1>3. CASE obj.kind \notin {"Wall", "Door"}
  BY <1>3 DEF GetAvailableRefs
<1>4. QED
  BY <1>1, <1>2, <1>3, ObjectKinds

\* The nearest reference that can be set is one of those that have a place.
NearRefs(obj, t) ==
    {i \in GetAvailableRefs(obj, t) :
        IF GetResult(obj, t, i) = None THEN FALSE ELSE HasDistance(GetResult(obj, t, i))}
RefDistances(obj, t, guess) == [i \in NearRefs(obj, t) |-> Distance(GetResult(obj, t, i), guess)]

\* get_closest_ref returns the first of the nearest free references, or none.
LEMMA ClosestRefIs ==
    ASSUME NEW x, NEW R, NEW obj \in Objects(x, R), NEW t, NEW guess \in Int
    PROVE  /\ NearRefs(obj, t) = {} => GetClosestRef(obj, t, guess) = None
           /\ NearRefs(obj, t) # {} =>
                 IsFirstOf(GetClosestRef(obj, t, guess), NearRefs(obj, t),
                           RefDistances(obj, t, guess))
<1>1. PICK S, f : S = NearRefs(obj, t) /\ f = RefDistances(obj, t, guess)
  OBVIOUS
<1>2. f = [i \in S |-> Distance(GetResult(obj, t, i), guess)]
  BY <1>1 DEF RefDistances
<1> DEFINE Near(i) ==
               /\ i \in NearRefs(obj, t)
               /\ \A j \in NearRefs(obj, t) :
                     \/ Distance(GetResult(obj, t, i), guess) <
                            Distance(GetResult(obj, t, j), guess)
                     \/ (/\ Distance(GetResult(obj, t, i), guess) =
                               Distance(GetResult(obj, t, j), guess)
                         /\ i <= j)
<1>3. GetClosestRef(obj, t, guess) =
          IF NearRefs(obj, t) = {} THEN None ELSE CHOOSE i \in NearRefs(obj, t) : Near(i)
  BY DEF GetClosestRef, Nearest, IsNearest, NearRefs
<1> HIDE DEF Near
<1>4. CASE S = {}
  BY <1>1, <1>3, <1>4
<1>5. CASE S # {}
  <2>1. S \subseteq Nat
    BY <1>1, AvailableRefs DEF NearRefs
  <2>2. \A i \in S : f[i] \in Nat
    <3> SUFFICES ASSUME NEW i \in S PROVE f[i] \in Nat
      OBVIOUS
    <3>1. PICK result : result = GetResult(obj, t, i)
      OBVIOUS
    <3>2. result \in Results /\ result # None /\ HasDistance(result)
      BY <1>1, <3>1, ResultsTyped DEF NearRefs
    <3>3. result.kind \in {"Point", "Line", "Plane"}
      BY <3>2 DEF HasDistance
    <3>4. result \in PointResults \cup LineResults \cup PlaneResults
      BY <3>2, <3>3, ResultKinds
    <3>5. Distance(result, guess) \in Nat
      BY <3>2, <3>4, DistanceIs
    <3>6. QED
      BY <1>2, <3>1, <3>5
  <2>3. PICK k : IsFirstOf(k, S, f)
    BY <1>5, <2>1, <2>2, FirstIsThere
  <2>4. Near(k) /\ k \in NearRefs(obj, t)
    BY <1>1, <1>2, <2>3 DEF IsFirstOf, Near
  <2>5. Near(GetClosestRef(obj, t, guess))
    BY <1>1, <1>3, <1>5, <2>4
  <2>6. IsFirstOf(GetClosestRef(obj, t, guess), S, f)
    BY <1>1, <1>2, <2>5 DEF IsFirstOf, Near
  <2>7. QED
    BY <1>1, <1>5, <2>6
<1>6. QED
  BY <1>4, <1>5

-----------------------------------------------------------------------------
(* Setting a reference *)

\* Slots stay as they are; one without a reference may get this one.
OnlySets(before, after, ref) ==
    /\ DOMAIN GetRefs(before) \subseteq DOMAIN GetRefs(after)
    /\ \A i \in DOMAIN GetRefs(after) :
          \/ i \in DOMAIN GetRefs(before) /\ GetRefs(after)[i] = GetRefs(before)[i]
          \/ /\ GetRefs(after)[i] = ref
             /\ i \in DOMAIN GetRefs(before) => GetRefs(before)[i] = None

\* Walls of which one has a reference more than the other, in an end or in an
\* opening, which may be new.
MaySet(new, old, ref) == new = old \/ (new = ref /\ old = None)

\* Such walls have the same slots but for the one that got the reference.
LEMMA WallOnlySets ==
    ASSUME NEW x, NEW R, NEW before \in WallsOf(x, R), NEW after \in WallsOf(x, R), NEW ref,
           Len(before.openings) <= Len(after.openings),
           \A i \in 1 .. 2 : MaySet(SlotOf(after.pts[i], RefID(x, "ProfilePoint", i)),
                                    SlotOf(before.pts[i], RefID(x, "ProfilePoint", i)), ref),
           \A i \in 1 .. Len(before.openings) :
               MaySet(SlotOf(after.openings[i], RefID(x, "ProfilePlane", i)),
                      SlotOf(before.openings[i], RefID(x, "ProfilePlane", i)), ref),
           \A i \in Len(before.openings) + 1 .. Len(after.openings) :
               SlotOf(after.openings[i], RefID(x, "ProfilePlane", i)) = ref
    PROVE  OnlySets(before, after, ref)
<1>1. PICK old, new, m, n : /\ old = W!GetRefs(before) /\ new = W!GetRefs(after)
                            /\ m = Len(before.openings) /\ n = Len(after.openings)
  OBVIOUS
<1>2. AreWallRefs(old, before, x) /\ AreWallRefs(new, after, x)
  BY <1>1, WallRefs
<1>3. /\ m \in Nat /\ n \in Nat /\ m <= n /\ DOMAIN old = 1 .. m + 6 /\ DOMAIN new = 1 .. n + 6
      /\ \A i \in 1 .. 2 : /\ old[i] = SlotOf(before.pts[i], RefID(x, "ProfilePoint", i))
                           /\ new[i] = SlotOf(after.pts[i], RefID(x, "ProfilePoint", i))
      /\ old[3] = new[3] /\ old[4] = new[4] /\ old[5] = new[5] /\ old[6] = new[6]
      /\ \A i \in 1 .. m : old[i + 6] = SlotOf(before.openings[i], RefID(x, "ProfilePlane", i))
      /\ \A i \in 1 .. n : new[i + 6] = SlotOf(after.openings[i], RefID(x, "ProfilePlane", i))
  BY <1>1, <1>2 DEF AreWallRefs
<1>4. ASSUME NEW i \in 1 .. n + 6
      PROVE  \/ i \in 1 .. m + 6 /\ new[i] = old[i]
             \/ new[i] = ref /\ (i \in 1 .. m + 6 => old[i] = None)
  <2>1. CASE i \in 1 .. 2
    BY <1>3, <2>1 DEF MaySet
  <2>2. CASE i \in {3, 4, 5, 6}
    BY <1>3, <2>2
  <2>3. CASE i - 6 \in 1 .. m /\ (i - 6) + 6 = i
    <3>1. i - 6 \in 1 .. n
      BY <1>3, <2>3
    <3>2. /\ new[i] = SlotOf(after.openings[i - 6], RefID(x, "ProfilePlane", i - 6))
          /\ old[i] = SlotOf(before.openings[i - 6], RefID(x, "ProfilePlane", i - 6))
      BY <1>3, <2>3, <3>1
    <3>3. MaySet(new[i], old[i], ref)
      BY <1>1, <2>3, <3>2
    <3>4. i \in 1 .. m + 6
      BY <1>3, <2>3
    <3>5. QED
      BY <3>3, <3>4 DEF MaySet
  <2>4. CASE i - 6 \in m + 1 .. n /\ (i - 6) + 6 = i
    <3>1. i - 6 \in 1 .. n /\ i \notin 1 .. m + 6
      BY <1>3, <2>4
    <3>2. new[i] = SlotOf(after.openings[i - 6], RefID(x, "ProfilePlane", i - 6))
      BY <1>3, <2>4, <3>1
    <3>3. QED
      BY <1>1, <2>4, <3>1, <3>2
  <2>5. QED
    BY <1>3, <2>1, <2>2, <2>3, <2>4
<1>5. GetRefs(before) = old /\ GetRefs(after) = new
  <2>1. before.kind = "Wall" /\ after.kind = "Wall"
    BY DEF WallsOf
  <2>2. QED
    BY <1>1, <2>1, OfWall
<1>6. 1 .. m + 6 \subseteq 1 .. n + 6
  BY <1>3
<1>7. QED
  BY <1>3, <1>4, <1>5, <1>6 DEF OnlySets

\* An object that was snapped: it got a reference to a piece, of which it has
\* the result.
Snapped(before, after, x, R, t, i, which, result) ==
    /\ after \in Objects(x, R) /\ after.kind = before.kind
    /\ OnlySets(before, after, Reference(RefID(x, t, i), which))
    /\ SetAssociatedResult(after, t, i, result) = after
    /\ i \in 1 .. (IF after.kind = "Wall" THEN Len(after.openings) + 2 ELSE 1)

\* An end of a wall is set.
EndSet(wall, after, i, which, result) ==
    after = [wall EXCEPT !.pts[i] = [refer |-> which, info |-> result]]

\* set_ref of a free end of a wall snaps that end.
LEMMA WallEndSet ==
    ASSUME NEW x, NEW R, NoneIsApart(R), NEW wall \in WallsOf(x, R), NEW which \in R,
           NEW i \in 1 .. 2, wall.pts[i].refer = None, NEW result \in PointResults
    PROVE  LET after == W!SetRef(wall, "ProfilePoint", i, result, which)
           IN  /\ EndSet(wall, after, i, which, result)
               /\ after \in WallsOf(x, R)
               /\ Snapped(wall, after, x, R, "ProfilePoint", i, which, result)
<1>1. /\ wall = [kind |-> "Wall", id |-> x, pts |-> wall.pts, openings |-> wall.openings]
      /\ wall.pts \in [1 .. 2 -> [refer : Slot(R), info : PointResults]]
      /\ wall.openings \in Seq([refer : Slot(R), info : PlaneResults] \cup {None})
  BY DEF WallsOf
<1>2. PICK u, pts, after :
          /\ u = [refer |-> which, info |-> result]
          /\ pts = [wall.pts EXCEPT ![i] = u]
          /\ after = [wall EXCEPT !.pts = pts]
  OBVIOUS
<1>3. /\ u \in [refer : Slot(R), info : PointResults] /\ u.refer = which
      /\ result.kind = "Point" /\ result.kind = wall.pts[i].info.kind
  BY <1>1, <1>2 DEF Slot, PointResults
<1>4. /\ pts \in [1 .. 2 -> [refer : Slot(R), info : PointResults]] /\ pts[i] = u
      /\ \A k \in 1 .. 2 : k # i => pts[k] = wall.pts[k]
  BY <1>1, <1>2, <1>3
<1>5. W!SetReference(wall.pts[i], result, which) = u
  BY <1>2, <1>3 DEF W!SetReference
<1>6. W!SetRef(wall, "ProfilePoint", i, result, which) = after
  BY <1>2, <1>5 DEF W!SetRef
<1>7. EndSet(wall, after, i, which, result)
  BY <1>2 DEF EndSet
<1>8. /\ after = [kind |-> "Wall", id |-> x, pts |-> pts, openings |-> wall.openings]
      /\ after \in WallsOf(x, R) /\ after.kind = "Wall" /\ wall.kind = "Wall"
  BY <1>1, <1>2, <1>4 DEF WallsOf
<1>9. /\ Len(wall.openings) \in Nat /\ after.openings = wall.openings /\ after.pts = pts
      /\ \A k \in 1 .. Len(wall.openings) :
            wall.openings[k] \in [refer : Slot(R), info : PlaneResults] \cup {None}
  BY <1>1, <1>8, LenProperties, ElementOfSeq
<1>10. OnlySets(wall, after, Reference(RefID(x, "ProfilePoint", i), which))
  <2>1. \A k \in 1 .. 2 : MaySet(SlotOf(after.pts[k], RefID(x, "ProfilePoint", k)),
                                 SlotOf(wall.pts[k], RefID(x, "ProfilePoint", k)),
                                 Reference(RefID(x, "ProfilePoint", i), which))
    <3> SUFFICES ASSUME NEW k \in 1 .. 2
                 PROVE  MaySet(SlotOf(after.pts[k], RefID(x, "ProfilePoint", k)),
                               SlotOf(wall.pts[k], RefID(x, "ProfilePoint", k)),
                               Reference(RefID(x, "ProfilePoint", i), which))
      OBVIOUS
    <3>1. CASE k # i
      BY <1>4, <1>9, <3>1 DEF MaySet
    <3>2. CASE k = i
      <4>1. u # None /\ which # None
        BY <1>3 DEF NoneIsApart
      <4>2. SlotOf(after.pts[k], RefID(x, "ProfilePoint", k)) =
                Reference(RefID(x, "ProfilePoint", i), which)
        BY <1>3, <1>4, <1>9, <3>2, <4>1 DEF SlotOf
      <4>3. SlotOf(wall.pts[k], RefID(x, "ProfilePoint", k)) = None
        BY <3>2 DEF SlotOf
      <4>4. QED
        BY <4>2, <4>3 DEF MaySet
    <3>3. QED
      BY <3>1, <3>2
  <2>2. \A k \in 1 .. Len(wall.openings) :
            MaySet(SlotOf(after.openings[k], RefID(x, "ProfilePlane", k)),
                   SlotOf(wall.openings[k], RefID(x, "ProfilePlane", k)),
                   Reference(RefID(x, "ProfilePoint", i), which))
    BY <1>9 DEF MaySet
  <2>3. \A k \in Len(wall.openings) + 1 .. Len(after.openings) :
            SlotOf(after.openings[k], RefID(x, "ProfilePlane", k)) =
                Reference(RefID(x, "ProfilePoint", i), which)
    BY <1>9
  <2>4. QED
    BY <1>8, <1>9, <2>1, <2>2, <2>3, WallOnlySets
<1>11. W!SetAssociatedResult(after, "ProfilePoint", i, result) = after
  <2>1. result # None
    BY DEF NoneIsApart
  <2>2. W!Updated(u, result) = [u EXCEPT !.info = result]
    BY <1>2, <2>1 DEF W!Updated
  <2>3. W!Updated(u, result) = u
    BY <1>2, <2>2
  <2>4. W!SetAssociatedResult(after, "ProfilePoint", i, result) = [after EXCEPT !.pts[i] = u]
    BY <1>4, <1>9, <2>3 DEF W!SetAssociatedResult
  <2>5. [pts EXCEPT ![i] = u] = pts
    BY <1>4
  <2>6. QED
    BY <1>8, <2>4, <2>5
<1>12. SetAssociatedResult(after, "ProfilePoint", i, result) = after
  BY <1>8, <1>11, OfWall
<1>13. i \in 1 .. Len(after.openings) + 2
  BY <1>9
<1>14. QED
  BY <1>6, <1>7, <1>8, <1>10, <1>12, <1>13 DEF Snapped, Objects

\* A wall of which one opening has a reference and the result of its piece.
OpeningSet(wall, openings, x, R, which, result, i) ==
    /\ openings \in Seq([refer : Slot(R), info : PlaneResults] \cup {None})
    /\ i \in 1 .. Len(openings) /\ openings[i] = [refer |-> which, info |-> result]
    /\ Len(wall.openings) <= Len(openings)
    /\ \A k \in 1 .. Len(wall.openings) :
          \/ openings[k] = wall.openings[k]
          \/ k = i /\ SlotOf(wall.openings[k], RefID(x, "ProfilePlane", k)) = None
    /\ \A k \in Len(wall.openings) + 1 .. Len(openings) : k = i

\* A wall that got such openings is snapped in one of them.
LEMMA WallOpening ==
    ASSUME NEW x, NEW R, NoneIsApart(R), NEW wall \in WallsOf(x, R), NEW which \in R,
           NEW result \in PlaneResults, NEW openings, NEW i,
           OpeningSet(wall, openings, x, R, which, result, i),
           NEW after, after = [wall EXCEPT !.openings = openings]
    PROVE  /\ after \in WallsOf(x, R) /\ after.openings = openings
           /\ Snapped(wall, after, x, R, "ProfilePlane", i, which, result)
<1>0. /\ openings \in Seq([refer : Slot(R), info : PlaneResults] \cup {None})
      /\ i \in 1 .. Len(openings) /\ openings[i] = [refer |-> which, info |-> result]
      /\ Len(wall.openings) <= Len(openings)
      /\ \A k \in 1 .. Len(wall.openings) :
            \/ openings[k] = wall.openings[k]
            \/ k = i /\ SlotOf(wall.openings[k], RefID(x, "ProfilePlane", k)) = None
      /\ \A k \in Len(wall.openings) + 1 .. Len(openings) : k = i
  BY DEF OpeningSet
<1>1. /\ wall = [kind |-> "Wall", id |-> x, pts |-> wall.pts, openings |-> wall.openings]
      /\ wall.pts \in [1 .. 2 -> [refer : Slot(R), info : PointResults]]
  BY DEF WallsOf
<1>2. PICK u : u = [refer |-> which, info |-> result]
  OBVIOUS
<1>3. u.refer = which /\ result.kind = "Plane" /\ openings[i] = u
  BY <1>0, <1>2 DEF PlaneResults
<1>4. /\ after = [kind |-> "Wall", id |-> x, pts |-> wall.pts, openings |-> openings]
      /\ after \in WallsOf(x, R) /\ after.kind = "Wall" /\ wall.kind = "Wall"
      /\ after.openings = openings /\ after.pts = wall.pts
  BY <1>0, <1>1 DEF WallsOf
<1>5. Len(openings) \in Nat /\ DOMAIN openings = 1 .. Len(openings)
  BY <1>0, LenProperties
<1>6. SlotOf(openings[i], RefID(x, "ProfilePlane", i)) = Reference(RefID(x, "ProfilePlane", i), which)
  <2>1. u # None /\ which # None
    BY <1>2 DEF NoneIsApart, Slot
  <2>2. QED
    BY <1>3, <2>1 DEF SlotOf
<1>7. OnlySets(wall, after, Reference(RefID(x, "ProfilePlane", i), which))
  <2>1. \A k \in 1 .. 2 : MaySet(SlotOf(after.pts[k], RefID(x, "ProfilePoint", k)),
                                 SlotOf(wall.pts[k], RefID(x, "ProfilePoint", k)),
                                 Reference(RefID(x, "ProfilePlane", i), which))
    BY <1>4 DEF MaySet
  <2>2. ASSUME NEW k \in 1 .. Len(wall.openings)
        PROVE  MaySet(SlotOf(after.openings[k], RefID(x, "ProfilePlane", k)),
                      SlotOf(wall.openings[k], RefID(x, "ProfilePlane", k)),
                      Reference(RefID(x, "ProfilePlane", i), which))
    <3>1. CASE openings[k] = wall.openings[k]
      BY <1>4, <3>1 DEF MaySet
    <3>2. CASE k = i /\ SlotOf(wall.openings[k], RefID(x, "ProfilePlane", k)) = None
      BY <1>4, <1>6, <3>2 DEF MaySet
    <3>3. QED
      BY <1>0, <3>1, <3>2
  <2>3. \A k \in Len(wall.openings) + 1 .. Len(after.openings) :
            SlotOf(after.openings[k], RefID(x, "ProfilePlane", k)) =
                Reference(RefID(x, "ProfilePlane", i), which)
    BY <1>0, <1>4, <1>6
  <2>4. QED
    BY <1>0, <1>4, <2>1, <2>2, <2>3, WallOnlySets
<1>8. W!SetAssociatedResult(after, "ProfilePlane", i, result) = after
  <2>1. result # None /\ u # None
    BY <1>2 DEF NoneIsApart, Slot
  <2>2. W!Updated(u, result) = [u EXCEPT !.info = result]
    BY <1>2, <1>3, <2>1 DEF W!Updated
  <2>3. W!Updated(u, result) = u
    BY <1>2, <2>2
  <2>4. W!SetAssociatedResult(after, "ProfilePlane", i, result) = [after EXCEPT !.openings[i] = u]
    BY <1>0, <1>3, <1>4, <1>5, <2>1, <2>3 DEF W!SetAssociatedResult
  <2>5. [openings EXCEPT ![i] = u] = openings
    BY <1>0, <1>3, <1>5
  <2>6. QED
    BY <1>4, <2>4, <2>5
<1>9. SetAssociatedResult(after, "ProfilePlane", i, result) = after
  <2>1. SetAssociatedResult(after, "ProfilePlane", i, result) =
            W!SetAssociatedResult(after, "ProfilePlane", i, result)
    BY <1>4 DEF SetAssociatedResult
  <2>2. QED
    BY <1>8, <2>1
<1>10. i \in 1 .. Len(after.openings) + 2
  BY <1>0, <1>4, <1>5
<1>11. QED
  BY <1>4, <1>7, <1>9, <1>10 DEF Snapped, Objects

\* An opening that has no reference is set.
LEMMA WallOpeningSet ==
    ASSUME NEW x, NEW R, NoneIsApart(R), NEW wall \in WallsOf(x, R), NEW which \in R,
           NEW result \in PlaneResults,
           NEW i \in DOMAIN wall.openings, wall.openings[i] # None, wall.openings[i].refer = None
    PROVE  LET after == W!SetRef(wall, "ProfilePlane", i, result, which)
           IN  /\ after \in WallsOf(x, R) /\ Len(after.openings) = Len(wall.openings)
               /\ after.pts = wall.pts
               /\ Snapped(wall, after, x, R, "ProfilePlane", i, which, result)
<1> DEFINE Openings == [refer : Slot(R), info : PlaneResults] \cup {None}
<1>1. /\ wall = [kind |-> "Wall", id |-> x, pts |-> wall.pts, openings |-> wall.openings]
      /\ wall.openings \in Seq(Openings)
  BY DEF WallsOf
<1>2. i \in 1 .. Len(wall.openings) /\ wall.openings[i] \in Openings
  BY <1>1, LenProperties, ElementOfSeq
<1>3. PICK u : u = [refer |-> which, info |-> result]
  OBVIOUS
<1>4. u \in Openings /\ result.kind = wall.openings[i].info.kind
  BY <1>2, <1>3 DEF Slot, PlaneResults
<1>5. PICK openings : openings = [wall.openings EXCEPT ![i] = u]
  OBVIOUS
<1>6. /\ openings \in Seq(Openings) /\ Len(openings) = Len(wall.openings)
      /\ \A k \in 1 .. Len(wall.openings) :
            openings[k] = IF k = i THEN u ELSE wall.openings[k]
  <2> HIDE DEF Openings
  <2>1. QED
    BY <1>1, <1>2, <1>4, <1>5, ExceptSeq
<1>7. PICK after : after = W!SetRef(wall, "ProfilePlane", i, result, which)
  OBVIOUS
<1>8. after = [wall EXCEPT !.openings = openings]
  <2>1. W!SetReference(wall.openings[i], result, which) = u
    BY <1>3, <1>4 DEF W!SetReference
  <2>2. QED
    BY <1>1, <1>5, <1>7, <2>1 DEF W!SetRef
<1>9. SlotOf(wall.openings[i], RefID(x, "ProfilePlane", i)) = None
  BY DEF SlotOf
<1>10. i \in 1 .. Len(openings) /\ openings[i] = [refer |-> which, info |-> result]
  BY <1>2, <1>3, <1>6
<1>11. \A k \in 1 .. Len(wall.openings) :
           \/ openings[k] = wall.openings[k]
           \/ k = i /\ SlotOf(wall.openings[k], RefID(x, "ProfilePlane", k)) = None
  BY <1>6, <1>9
<1>12. Len(wall.openings) <= Len(openings)
  BY <1>1, <1>6, LenProperties
<1>13. \A k \in Len(wall.openings) + 1 .. Len(openings) : k = i
  BY <1>1, <1>6, LenProperties
<1>14. /\ after \in WallsOf(x, R) /\ after.openings = openings
       /\ Snapped(wall, after, x, R, "ProfilePlane", i, which, result)
  <2>1. OpeningSet(wall, openings, x, R, which, result, i)
    BY <1>6, <1>10, <1>11, <1>12, <1>13 DEF OpeningSet
  <2>2. QED
    BY <1>8, <2>1, WallOpening
<1>15. after.pts = wall.pts
  BY <1>1, <1>8
<1>16. QED
  BY <1>6, <1>7, <1>14, <1>15

\* An opening is added.
LEMMA WallOpeningAdded ==
    ASSUME NEW x, NEW R, NoneIsApart(R), NEW wall \in WallsOf(x, R), NEW which \in R,
           NEW result \in PlaneResults
    PROVE  LET after == W!AddRef(wall, "ProfilePlane", result, which)
           IN  /\ after \in WallsOf(x, R) /\ after.pts = wall.pts
               /\ \E i : Snapped(wall, after, x, R, "ProfilePlane", i, which, result)
<1> DEFINE Openings == [refer : Slot(R), info : PlaneResults] \cup {None}
<1>1. /\ wall = [kind |-> "Wall", id |-> x, pts |-> wall.pts, openings |-> wall.openings]
      /\ wall.openings \in Seq(Openings)
  BY DEF WallsOf
<1>2. PICK u : u = [refer |-> which, info |-> result]
  OBVIOUS
<1>3. u \in Openings /\ result.kind = "Plane"
  BY <1>2 DEF Slot, PlaneResults
<1>4. PICK openings, i : openings = Append(wall.openings, u) /\ i = Len(wall.openings) + 1
  OBVIOUS
<1>5. /\ openings \in Seq(Openings) /\ Len(openings) = i /\ Len(wall.openings) \in Nat
      /\ \A k \in 1 .. Len(wall.openings) : openings[k] = wall.openings[k]
      /\ openings[i] = u
  <2> HIDE DEF Openings
  <2>1. Len(wall.openings) \in Nat
    BY <1>1, LenProperties
  <2>2. QED
    BY <1>1, <1>3, <1>4, <2>1, AppendProperties
<1>6. PICK after : after = W!AddRef(wall, "ProfilePlane", result, which)
  OBVIOUS
<1>7. after = [wall EXCEPT !.openings = openings]
  <2>1. W!SetReference(W!Updatable(result), result, which) = u
    BY <1>2 DEF W!SetReference, W!Updatable
  <2>2. QED
    BY <1>1, <1>3, <1>4, <1>6, <2>1 DEF W!AddRef
<1>8. i \in 1 .. Len(openings) /\ openings[i] = [refer |-> which, info |-> result]
  BY <1>2, <1>4, <1>5
<1>9. Len(wall.openings) <= Len(openings) /\ \A k \in Len(wall.openings) + 1 .. Len(openings) : k = i
  BY <1>4, <1>5
<1>10. /\ after \in WallsOf(x, R)
       /\ Snapped(wall, after, x, R, "ProfilePlane", i, which, result)
  <2>1. OpeningSet(wall, openings, x, R, which, result, i)
    BY <1>5, <1>8, <1>9 DEF OpeningSet
  <2>2. QED
    BY <1>7, <2>1, WallOpening
<1>11. after.pts = wall.pts
  BY <1>1, <1>7
<1>12. QED
  BY <1>6, <1>10, <1>11

\* A door is put on a line.
LEMMA DoorSnapped ==
    ASSUME NEW x, NEW R, NoneIsApart(R), NEW door \in DoorsOf(x, R), NEW which \in R,
           door.dir.refer = None, NEW result \in LineResults, ~ IsDegenerate(result),
           NEW guess \in Int
    PROVE  LET after == D!SetRef(door, "ProfileLine", 1, result, which, guess)
           IN  Snapped(door, after, x, R, "ProfileLine", 1, which, result)
<1>1. /\ door = [kind |-> "Door", id |-> x, dir |-> door.dir]
      /\ door.dir \in Segments(R)
  BY DEF DoorsOf
<1>2. PICK placed \in Segments(R) :
          /\ placed.refer = which
          /\ D!LineSegSetReference(door.dir, result, which, guess) =
                 D!LineSegUpdated(placed, result, None)
  BY <1>1, SegmentSnaps
<1>3. PICK seg, after :
          /\ seg = D!LineSegUpdated(placed, result, None)
          /\ after = D!SetRef(door, "ProfileLine", 1, result, which, guess)
  OBVIOUS
<1>4. seg \in Segments(R) /\ seg.refer = which /\ D!LineSegUpdated(seg, result, None) = seg
  BY <1>2, <1>3, SegmentFollows
<1>5. after = [door EXCEPT !.dir = seg]
  BY <1>2, <1>3 DEF D!SetRef
<1>6. /\ after \in DoorsOf(x, R) /\ after.dir = seg /\ after.kind = "Door" /\ door.kind = "Door"
      /\ after = [kind |-> "Door", id |-> x, dir |-> seg]
  BY <1>1, <1>4, <1>5 DEF DoorsOf
<1>7. D!SetAssociatedResult(after, "ProfileLine", 1, result) = after
  <2>1. result # None
    BY DEF NoneIsApart
  <2>2. D!SetAssociatedResult(after, "ProfileLine", 1, result) = [after EXCEPT !.dir = seg]
    BY <1>4, <1>6, <2>1 DEF D!SetAssociatedResult
  <2>3. QED
    BY <1>6, <2>2
<1>8. OnlySets(door, after, Reference(RefID(x, "ProfileLine", 1), which))
  <2>1. PICK old, new : old = D!GetRefs(door) /\ new = D!GetRefs(after)
    OBVIOUS
  <2>2. AreDoorRefs(old, door, x) /\ AreDoorRefs(new, after, x)
    BY <1>6, <2>1, DoorRefs
  <2>3. which # None
    BY DEF NoneIsApart
  <2>4. /\ DOMAIN old = 1 .. 5 /\ DOMAIN new = 1 .. 5
        /\ old[1] = None /\ new[1] = Reference(RefID(x, "ProfileLine", 1), which)
        /\ \A i \in 2 .. 5 : new[i] = old[i]
    BY <1>4, <1>6, <2>2, <2>3 DEF AreDoorRefs
  <2>5. \A i \in 1 .. 5 : i = 1 \/ i \in 2 .. 5
    OBVIOUS
  <2>6. GetRefs(door) = old /\ GetRefs(after) = new
    BY <1>6, <2>1, OfDoor
  <2>7. QED
    BY <2>4, <2>5, <2>6 DEF OnlySets
<1>9. SetAssociatedResult(after, "ProfileLine", 1, result) = after
  BY <1>6, <1>7, OfDoor
<1>10. QED
  BY <1>3, <1>6, <1>8, <1>9 DEF Snapped, Objects

\* A call of snap_to_ref that succeeds finds a result and sets one reference to
\* its piece.
LEMMA SnapIs ==
    ASSUME NEW x, NEW y, NEW R, NoneIsApart(R),
           NEW obj \in Objects(x, R), NEW other \in Objects(y, R), NEW t, NEW guess \in Int,
           NEW found, found = GetClosestResult(other, t, guess),
           found \in NearResults(other, t) => RefID(y, t, found) \in R,
           NEW after, after = SnapToRef(obj, other, t, guess), after # None
    PROVE  /\ found \in NearResults(other, t)
           /\ \E i : Snapped(obj, after, x, R, t, i, RefID(y, t, found),
                             GetResultsForType(other, t)[found])
<1>1. PICK which, result, free :
          /\ which = RefID(y, t, found) /\ result = GetResultsForType(other, t)[found]
          /\ free = GetClosestRef(obj, t, guess)
  OBVIOUS
<1>2. other.id = y
  BY DEF Objects, WallsOf, DoorsOf, GroupsOf, SheetsOf, ViewportsOf
<1>3. found # None /\ after = IF free # None THEN SetRef(obj, t, free, result, which, guess)
                              ELSE AddRef(obj, t, result, which)
  BY <1>1, <1>2 DEF SnapToRef
<1>4. NearResults(other, t) # {}
  BY <1>3, ClosestResultIs
<1>5. found \in NearResults(other, t)
  BY <1>4, ClosestResultIs DEF IsFirstOf
<1>6. which \in R
  BY <1>1, <1>5
<1>7. HasDistance(result) /\ found \in DOMAIN GetResultsForType(other, t)
  BY <1>1, <1>5 DEF NearResults
<1>8. /\ t \in {"ProfilePoint", "ProfileLine", "ProfilePlane"}
      /\ t = "ProfilePoint" => result \in PointResults
      /\ t = "ProfileLine" => result \in LineResults
      /\ t = "ProfilePlane" => result \in PlaneResults
  <2>1. PICK results : results = GetResultsForType(other, t)
    OBVIOUS
  <2>2. PICK n \in Nat : AreResultsTo(n, results, other, t)
    BY <2>1, ObjectResults DEF AreResults
  <2>3. found \in 1 .. n /\ result = results[found]
    BY <1>1, <1>7, <2>1, <2>2 DEF AreResultsTo
  <2>4. QED
    BY <1>7, <2>2, <2>3 DEF AreResultsTo
<1>9. CASE free # None
  <2>1. free \in NearRefs(obj, t)
    BY <1>1, <1>9, ClosestRefIs DEF IsFirstOf
  <2>2. free \in GetAvailableRefs(obj, t) /\ GetResult(obj, t, free) # None
    BY <2>1 DEF NearRefs
  <2>3. obj.kind \in {"Wall", "Door"} /\ after = SetRef(obj, t, free, result, which, guess)
    BY <1>3, <1>9, <2>2, AvailableRefs
  <2>4. CASE obj.kind = "Wall" /\ obj \in WallsOf(x, R)
    <3>1. /\ free \in W!GetAvailableRefs(obj, t) /\ W!GetResult(obj, t, free) # None
          /\ after = W!SetRef(obj, t, free, result, which)
      BY <2>2, <2>3, <2>4, OfWall
    <3>2. CASE t = "ProfilePoint"
      <4>1. free \in 1 .. 2 /\ obj.pts[free].refer = None
        BY <3>1, <3>2 DEF W!GetAvailableRefs
      <4>2. Snapped(obj, after, x, R, "ProfilePoint", free, which, result)
        BY <1>6, <1>8, <2>4, <3>1, <3>2, <4>1, WallEndSet
      <4>3. QED
        BY <1>1, <1>5, <3>2, <4>2
    <3>3. CASE t = "ProfilePlane"
      <4>1. /\ free \in DOMAIN obj.openings
            /\ IF obj.openings[free] = None THEN TRUE ELSE obj.openings[free].refer = None
        BY <3>1, <3>3 DEF W!GetAvailableRefs
      <4>2. obj.openings[free] # None
        BY <2>4, <3>1, <3>3, <4>1, WallResult
      <4>3. Snapped(obj, after, x, R, "ProfilePlane", free, which, result)
        BY <1>6, <1>8, <2>4, <3>1, <3>3, <4>1, <4>2, WallOpeningSet
      <4>4. QED
        BY <1>1, <1>5, <3>3, <4>3
    <3>4. CASE t = "ProfileLine"
      BY <3>1, <3>4 DEF W!GetAvailableRefs
    <3>5. QED
      BY <1>8, <3>2, <3>3, <3>4
  <2>5. CASE obj.kind = "Door" /\ obj \in DoorsOf(x, R)
    <3>1. /\ free \in D!GetAvailableRefs(obj, t)
          /\ after = D!SetRef(obj, t, free, result, which, guess)
      BY <2>2, <2>3, <2>5, OfDoor
    <3>2. t = "ProfileLine" /\ free = 1 /\ obj.dir.refer = None
      BY <3>1 DEF D!GetAvailableRefs
    <3>3. result \in LineResults /\ ~ IsDegenerate(result)
      BY <1>7, <1>8, <3>2 DEF HasDistance, LineResults
    <3>4. Snapped(obj, after, x, R, "ProfileLine", 1, which, result)
      BY <1>6, <2>5, <3>1, <3>2, <3>3, DoorSnapped
    <3>5. QED
      BY <1>1, <1>5, <3>2, <3>4
  <2>6. QED
    BY <2>3, <2>4, <2>5, ObjectKinds
<1>10. CASE free = None
  <2>1. after = AddRef(obj, t, result, which)
    BY <1>3, <1>10
  <2>2. CASE obj.kind = "Wall" /\ obj \in WallsOf(x, R)
    <3>1. after = W!AddRef(obj, t, result, which)
      BY <2>1, <2>2, OfWall
    <3>2. t = "ProfilePlane"
      BY <3>1 DEF W!AddRef
    <3>3. \E i : Snapped(obj, after, x, R, "ProfilePlane", i, which, result)
      BY <1>6, <1>8, <2>2, <3>1, <3>2, WallOpeningAdded
    <3>4. QED
      BY <1>1, <1>5, <3>2, <3>3
  <2>3. CASE obj.kind # "Wall"
    <3>1. after = None
      BY <1>8, <2>1, <2>3 DEF AddRef, G!AddRef
    <3>2. QED
      BY <3>1
  <2>4. QED
    BY <2>2, <2>3, ObjectKinds
<1>11. QED
  BY <1>9, <1>10

-----------------------------------------------------------------------------
(* Moving objects and deleting references *)

\* A wall that lost one reference keeps its place and its other slots.
LEMMA WallRefDeleted ==
    ASSUME NEW x, NEW R, NoneIsApart(R), NEW wall \in WallsOf(x, R), NEW t, NEW i
    PROVE  LET after == W!DeleteRef(wall, t, i)
           IN  /\ after \in WallsOf(x, R) /\ OnlyClears(wall, after)
               /\ Len(after.openings) = Len(wall.openings)
               /\ \A k \in 1 .. 2 : after.pts[k].info = wall.pts[k].info
<1> DEFINE Openings == [refer : Slot(R), info : PlaneResults] \cup {None}
<1>1. PICK after : after = W!DeleteRef(wall, t, i)
  OBVIOUS
<1>2. /\ wall = [kind |-> "Wall", id |-> x, pts |-> wall.pts, openings |-> wall.openings]
      /\ wall.pts \in [1 .. 2 -> [refer : Slot(R), info : PointResults]]
      /\ wall.openings \in Seq(Openings)
  BY DEF WallsOf
<1>3. DOMAIN wall.openings = 1 .. Len(wall.openings) /\ None \in Slot(R) /\ None \in Openings
  BY <1>2, LenProperties DEF Slot
<1>4. CASE t = "ProfilePoint" /\ i \in 1 .. 2
  <2>1. PICK pts : pts = [wall.pts EXCEPT ![i].refer = None]
    OBVIOUS
  <2>2. after = [wall EXCEPT !.pts = pts]
    BY <1>1, <1>2, <1>4, <2>1 DEF W!DeleteRef
  <2>3. /\ pts \in [1 .. 2 -> [refer : Slot(R), info : PointResults]]
        /\ \A k \in 1 .. 2 : /\ pts[k].info = wall.pts[k].info
                             /\ pts[k].refer \in {wall.pts[k].refer, None}
    BY <1>2, <1>3, <1>4, <2>1
  <2>4. after \in WallsOf(x, R) /\ after.pts = pts /\ after.openings = wall.openings
    BY <1>2, <2>2, <2>3 DEF WallsOf
  <2>5. OnlyClears(wall, after)
    BY <2>3, <2>4, WallOnlyClears
  <2>6. QED
    BY <1>1, <2>3, <2>4, <2>5
<1>5. CASE t = "ProfilePlane" /\ i \in DOMAIN wall.openings
  <2>1. PICK openings : openings = [wall.openings EXCEPT ![i] = None]
    OBVIOUS
  <2>2. after = [wall EXCEPT !.openings = openings]
    BY <1>1, <1>2, <1>5, <2>1 DEF W!DeleteRef
  <2>3. /\ openings \in Seq(Openings) /\ Len(openings) = Len(wall.openings)
        /\ \A k \in 1 .. Len(wall.openings) :
              openings[k] = IF k = i THEN None ELSE wall.openings[k]
    <3> HIDE DEF Openings
    <3>1. QED
      BY <1>2, <1>3, <1>5, <2>1, ExceptSeq
  <2>4. after \in WallsOf(x, R) /\ after.pts = wall.pts /\ after.openings = openings
    BY <1>2, <2>2, <2>3 DEF WallsOf
  <2>5. OnlyClears(wall, after)
    BY <2>3, <2>4, WallOnlyClears
  <2>6. QED
    BY <1>1, <2>3, <2>4, <2>5
<1>6. CASE ~ (t = "ProfilePoint" /\ i \in 1 .. 2) /\ ~ (t = "ProfilePlane" /\ i \in DOMAIN wall.openings)
  <2>1. after = wall
    BY <1>1, <1>6 DEF W!DeleteRef
  <2>2. OnlyClears(wall, wall)
    BY DEF OnlyClears
  <2>3. QED
    BY <1>1, <2>1, <2>2
<1>7. QED
  BY <1>4, <1>5, <1>6

\* A door that lost its reference keeps its place.
LEMMA DoorRefDeleted ==
    ASSUME NEW x, NEW R, NEW door \in DoorsOf(x, R), NEW t, NEW i
    PROVE  LET after == D!DeleteRef(door, t, i)
           IN  after \in DoorsOf(x, R) /\ OnlyClears(door, after)
<1>1. PICK after : after = D!DeleteRef(door, t, i)
  OBVIOUS
<1>2. door = [kind |-> "Door", id |-> x, dir |-> door.dir] /\ door.dir \in Segments(R)
  BY DEF DoorsOf
<1>3. CASE t = "ProfileLine" /\ i = 1
  <2>1. PICK dir : dir = [door.dir EXCEPT !.refer = None]
    OBVIOUS
  <2>2. dir \in Segments(R) /\ dir.refer = None
    BY <1>2, <2>1 DEF Segments, Slot
  <2>3. after = [door EXCEPT !.dir = dir]
    BY <1>1, <1>2, <1>3, <2>1 DEF D!DeleteRef
  <2>4. after \in DoorsOf(x, R) /\ after.dir = dir
    BY <1>2, <2>2, <2>3 DEF DoorsOf
  <2>5. QED
    BY <1>1, <2>2, <2>4, DoorOnlyClears
<1>4. CASE ~ (t = "ProfileLine" /\ i = 1)
  <2>1. after = door
    BY <1>1, <1>4 DEF D!DeleteRef
  <2>2. QED
    BY <1>1, <2>1 DEF OnlyClears
<1>5. QED
  BY <1>3, <1>4

\* A group that lost a child keeps the others in their slots.
LEMMA GroupRefDeleted ==
    ASSUME NEW x, NEW R, NEW group \in GroupsOf(x, R), NEW t, NEW i
    PROVE  LET after == G!DeleteRef(group, t, i)
           IN  /\ after \in GroupsOf(x, R) /\ OnlyClears(group, after)
               /\ DOMAIN after.children = DOMAIN group.children
<1>1. CASE t = "Drawable" /\ i \in DOMAIN group.children
  <2>1. G!DeleteRef(group, t, i) = [group EXCEPT !.children[i] = None]
    BY <1>1 DEF G!DeleteRef
  <2>2. QED
    BY <1>1, <2>1, ChildTaken
<1>2. CASE ~ (t = "Drawable" /\ i \in DOMAIN group.children)
  BY <1>2 DEF G!DeleteRef, OnlyClears
<1>3. QED
  BY <1>1, <1>2

\* A number that is moved is a number.
LEMMA PlusIs ==
    ASSUME NEW p \in Number, NEW delta \in Int
    PROVE  W!Plus(p, delta) \in Number /\ D!Plus(p, delta) \in Number
  BY DEF Number, W!Plus, D!Plus

\* To move a wall or a door leaves its references.
LEMMA WallMoved ==
    ASSUME NEW x, NEW R, NoneIsApart(R), NEW wall \in WallsOf(x, R), NEW delta \in Int
    PROVE  LET after == W!MoveObj(wall, delta)
           IN  after \in WallsOf(x, R) /\ OnlyClears(wall, after) /\ after.openings = wall.openings
<1>1. /\ wall = [kind |-> "Wall", id |-> x, pts |-> wall.pts, openings |-> wall.openings]
      /\ wall.pts \in [1 .. 2 -> [refer : Slot(R), info : PointResults]]
  BY DEF WallsOf
<1>2. PICK after, p, q : /\ after = W!MoveObj(wall, delta)
                         /\ p = W!Plus(wall.pts[1].info.at, delta)
                         /\ q = W!Plus(wall.pts[2].info.at, delta)
  OBVIOUS
<1>3. p \in Number /\ q \in Number
  <2>1. \A k \in 1 .. 2 : wall.pts[k].info.at \in Number
    BY <1>1 DEF PointResults
  <2>2. QED
    BY <1>2, <2>1, PlusIs
<1>4. PICK pts : pts = [wall.pts EXCEPT ![1].info.at = p, ![2].info.at = q]
  OBVIOUS
<1>5. after = [wall EXCEPT !.pts = pts]
  BY <1>1, <1>2, <1>4 DEF W!MoveObj
<1>6. \A k \in 1 .. 2 : wall.pts[k] = [refer |-> wall.pts[k].refer, info |-> [kind |-> "Point", at |-> wall.pts[k].info.at]]
  BY <1>1 DEF PointResults
<1>7. /\ pts[1] = [refer |-> wall.pts[1].refer, info |-> [kind |-> "Point", at |-> p]]
      /\ pts[2] = [refer |-> wall.pts[2].refer, info |-> [kind |-> "Point", at |-> q]]
      /\ pts = [k \in 1 .. 2 |-> pts[k]]
  BY <1>1, <1>4, <1>6
<1>8. \A k \in 1 .. 2 : wall.pts[k].refer \in Slot(R)
  BY <1>1
<1>9. pts[1] \in [refer : Slot(R), info : PointResults] /\ pts[1].refer = wall.pts[1].refer
  BY <1>3, <1>7, <1>8 DEF PointResults
<1>10. pts[2] \in [refer : Slot(R), info : PointResults] /\ pts[2].refer = wall.pts[2].refer
  BY <1>3, <1>7, <1>8 DEF PointResults
<1>11. /\ pts \in [1 .. 2 -> [refer : Slot(R), info : PointResults]]
       /\ \A k \in 1 .. 2 : pts[k].refer = wall.pts[k].refer
  BY <1>7, <1>9, <1>10
<1>12. after \in WallsOf(x, R) /\ after.pts = pts /\ after.openings = wall.openings
  BY <1>1, <1>5, <1>11 DEF WallsOf
<1>13. wall.openings \in Seq([refer : Slot(R), info : PlaneResults] \cup {None})
  BY DEF WallsOf
<1>14. OnlyClears(wall, after)
  BY <1>11, <1>12, WallOnlyClears
<1>15. QED
  BY <1>2, <1>12, <1>14

\* A door that is moved stays a door and keeps its line or gives it up.
LEMMA DoorMoved ==
    ASSUME NEW x, NEW R, NEW door \in DoorsOf(x, R), NEW delta \in Int
    PROVE  LET after == D!MoveObj(door, delta)
           IN  after \in DoorsOf(x, R) /\ OnlyClears(door, after)
<1>1. /\ door = [kind |-> "Door", id |-> x, dir |-> door.dir] /\ door.dir \in Segments(R)
      /\ door.dir = [refer |-> door.dir.refer, line |-> door.dir.line,
                     length |-> door.dir.length, interp |-> door.dir.interp]
  BY DEF DoorsOf, Segments
<1>2. PICK after, line :
          /\ after = D!MoveObj(door, delta)
          /\ line = D!Line(D!Plus(door.dir.line.pt_1, delta), D!Plus(door.dir.line.pt_2, delta))
  OBVIOUS
<1>3. line \in LineResults
  <2>1. door.dir.line.pt_1 \in Number /\ door.dir.line.pt_2 \in Number
    BY <1>1 DEF Segments, LineResults
  <2>2. QED
    BY <1>2, <2>1, PlusIs DEF D!Line, LineResults
<1>4. PICK dir : dir = [door.dir EXCEPT !.line = line]
  OBVIOUS
<1>5. dir \in Segments(R) /\ dir.refer = door.dir.refer
  BY <1>1, <1>3, <1>4 DEF Segments
<1>6. after = [door EXCEPT !.dir = dir]
  BY <1>1, <1>2, <1>4 DEF D!MoveObj
<1>7. after \in DoorsOf(x, R) /\ after.dir = dir
  BY <1>1, <1>5, <1>6 DEF DoorsOf
<1>8. QED
  BY <1>2, <1>5, <1>7, DoorOnlyClears

-----------------------------------------------------------------------------
(* Groups: adding and removing objects *)

\* To add a child leaves the slots of the others.
Adds(before, after) ==
    /\ DOMAIN before.children \subseteq DOMAIN after.children
    /\ \A i \in DOMAIN before.children : after.children[i] = before.children[i]

\* add_ref of a group adds a child.
LEMMA ChildAdded ==
    ASSUME NEW x, NEW R, NEW group \in GroupsOf(x, R), NEW which \in R
    PROVE  LET after == G!AddRef(group, "Drawable", which)
           IN  after \in GroupsOf(x, R) /\ Adds(group, after)
<1>1. /\ group = [kind |-> "VisibilityGroup", id |-> x, children |-> group.children]
      /\ group.children \in Seq(Slot(R)) /\ which \in Slot(R)
  BY DEF GroupsOf, Slot
<1>2. PICK children : children = Append(group.children, which)
  OBVIOUS
<1>3. /\ children \in Seq(Slot(R)) /\ Len(children) = Len(group.children) + 1
      /\ \A i \in 1 .. Len(group.children) : children[i] = group.children[i]
  BY <1>1, <1>2, AppendProperties
<1>4. /\ DOMAIN children = 1 .. Len(children) /\ DOMAIN group.children = 1 .. Len(group.children)
      /\ Len(group.children) \in Nat
  BY <1>1, <1>3, LenProperties
<1>5. PICK after : after = [group EXCEPT !.children = children]
  OBVIOUS
<1>6. G!AddRef(group, "Drawable", which) = after
  BY <1>1, <1>2, <1>5 DEF G!AddRef
<1>7. after \in GroupsOf(x, R) /\ after.children = children
  BY <1>1, <1>3, <1>5 DEF GroupsOf
<1>8. Adds(group, after)
  BY <1>3, <1>4, <1>7 DEF Adds
<1>9. QED
  BY <1>6, <1>7, <1>8

\* To add objects to a group leaves the slots of those it has.
LEMMA ObjsAdded ==
    ASSUME NEW x, NEW R, NEW group \in GroupsOf(x, R), NEW objs, Len(objs) \in Nat,
           \A n \in 1 .. Len(objs) : RefID(objs[n].id, "Drawable", 1) \in R
    PROVE  LET after == AddObjsToVisibilityGroup(group, objs)
           IN  after \in GroupsOf(x, R) /\ Adds(group, after)
<1>1. PICK n, T : n = Len(objs) /\ T = {g \in GroupsOf(x, R) : Adds(group, g)}
  OBVIOUS
<1> DEFINE Add(g, obj) ==
               IF GetResult(obj, "Drawable", 1) = None THEN g
               ELSE AddRef(g, "Drawable", Empty, RefID(obj.id, "Drawable", 1))
           Is(f) == f = [k \in 0 .. Len(objs) |-> IF k = 0 THEN group ELSE Add(f[k - 1], objs[k])]
<1>2. n \in Nat /\ group \in T
  BY <1>1 DEF Adds
<1>3. \A k \in 1 .. n : \A g \in T : Add(g, objs[k]) \in T
  <2> SUFFICES ASSUME NEW k \in 1 .. n, NEW g \in T PROVE Add(g, objs[k]) \in T
    OBVIOUS
  <2>1. PICK after : after = G!AddRef(g, "Drawable", RefID(objs[k].id, "Drawable", 1))
    OBVIOUS
  <2>2. g \in GroupsOf(x, R) /\ Adds(group, g) /\ RefID(objs[k].id, "Drawable", 1) \in R
    BY <1>1
  <2>3. after \in GroupsOf(x, R) /\ Adds(g, after)
    BY <2>1, <2>2, ChildAdded
  <2>4. g.kind = "VisibilityGroup"
    BY <2>2 DEF GroupsOf
  <2>5. AddRef(g, "Drawable", Empty, RefID(objs[k].id, "Drawable", 1)) = after
    BY <2>1, <2>4 DEF AddRef
  <2>6. Adds(group, after)
    BY <2>2, <2>3 DEF Adds
  <2>7. QED
    BY <1>1, <2>3, <2>5, <2>6
<1>4. PICK step : step = [k \in 1 .. n |-> [g \in T |-> Add(g, objs[k])]]
  OBVIOUS
<1> HIDE DEF Add
<1>5. step \in [1 .. n -> [T -> T]]
  BY <1>3, <1>4
<1>6. PICK f : Steps(f, n, T, group, step)
  BY <1>2, <1>5, Recursion
<1>7. Is(f)
  <2>1. f \in [0 .. n -> T] /\ f[0] = group
    BY <1>6 DEF Steps
  <2>2. ASSUME NEW k \in 0 .. n, k # 0 PROVE f[k] = Add(f[k - 1], objs[k])
    <3>1. k \in 1 .. n /\ k - 1 \in 0 .. n
      BY <1>2, <2>2
    <3>2. f[k] = step[k][f[k - 1]] /\ f[k - 1] \in T
      BY <1>6, <2>1, <3>1 DEF Steps
    <3>3. QED
      BY <1>4, <3>1, <3>2
  <2>3. QED
    BY <1>1, <2>1, <2>2
<1>8. PICK after : after = CHOOSE h : Is(h)
  OBVIOUS
<1>9. Is(after)
  <2> HIDE DEF Is
  <2> QED
    BY <1>7, <1>8
<1>10. AddObjsToVisibilityGroup(group, objs) = after[Len(objs)]
  <2>1. group.kind = "VisibilityGroup"
    BY DEF GroupsOf
  <2>2. QED
    BY <1>8, <2>1 DEF AddObjsToVisibilityGroup, Add
<1>11. after[0] = group /\ \A k \in 1 .. n : after[k] = Add(after[k - 1], objs[k])
  <2>1. 0 \in 0 .. n /\ \A k \in 1 .. n : k \in 0 .. n /\ k # 0
    BY <1>2
  <2>2. QED
    BY <1>1, <1>9, <2>1
<1> HIDE DEF Is
<1> DEFINE J == {k \in 0 .. n : after[k] \in T}
<1>12. 0 \in J
  BY <1>2, <1>11
<1>13. ASSUME NEW k \in 0 .. n - 1, k \in J PROVE k + 1 \in J
  <2>1. k + 1 \in 1 .. n /\ k + 1 \in 0 .. n /\ (k + 1) - 1 = k
    BY <1>2
  <2>2. after[k + 1] = Add(after[k], objs[k + 1]) /\ after[k] \in T
    BY <1>11, <1>13, <2>1
  <2>3. QED
    BY <1>3, <2>1, <2>2
<1>14. n \in J
  <2> HIDE DEF J
  <2>1. n \in 0 .. n
    BY <1>2
  <2>2. QED
    BY <1>2, <1>12, <1>13, <2>1, UpTo
<1>15. QED
  BY <1>1, <1>10, <1>14

\* What clears slots, one call after the other, clears slots.
LEMMA ClearsBoth ==
    ASSUME NEW before, NEW middle, NEW after,
           OnlyClears(before, middle), OnlyClears(middle, after)
    PROVE  OnlyClears(before, after)
  BY DEF OnlyClears

\* To remove objects from a group clears their slots.
LEMMA ObjsRemoved ==
    ASSUME NEW x, NEW R, NEW group \in GroupsOf(x, R), NEW ids
    PROVE  LET after == RemoveObjsFromVisibilityGroup(group, ids)
           IN  /\ after \in GroupsOf(x, R) /\ OnlyClears(group, after)
               /\ DOMAIN after.children = DOMAIN group.children
<1>1. PICK refs, n, T :
          /\ refs = GetRefs(group) /\ n = Len(GetRefs(group))
          /\ T = {g \in GroupsOf(x, R) : /\ OnlyClears(group, g)
                                         /\ DOMAIN g.children = DOMAIN group.children}
  OBVIOUS
<1> DEFINE Without(g, ref) ==
               IF ref = None THEN g
               ELSE IF ref.other.id \in ids THEN DeleteRef(g, "Drawable", ref.owner.index) ELSE g
           Is(f) == f = [k \in 0 .. Len(GetRefs(group)) |->
                            IF k = 0 THEN group ELSE Without(f[k - 1], GetRefs(group)[k])]
<1>2. group.kind = "VisibilityGroup"
  BY DEF GroupsOf
<1>3. n \in Nat /\ group \in T
  <2>1. n = Len(G!GetRefs(group))
    BY <1>1, <1>2, OfGroup
  <2>2. n \in Nat
    BY <2>1, GroupRefs
  <2>3. QED
    BY <1>1, <2>2 DEF OnlyClears
<1>4. \A k \in 1 .. n : \A g \in T : Without(g, refs[k]) \in T
  <2> SUFFICES ASSUME NEW k \in 1 .. n, NEW g \in T PROVE Without(g, refs[k]) \in T
    OBVIOUS
  <2>1. PICK after : after = G!DeleteRef(g, "Drawable", refs[k].owner.index)
    OBVIOUS
  <2>2. /\ g \in GroupsOf(x, R) /\ OnlyClears(group, g)
        /\ DOMAIN g.children = DOMAIN group.children
    BY <1>1
  <2>3. /\ after \in GroupsOf(x, R) /\ OnlyClears(g, after)
        /\ DOMAIN after.children = DOMAIN g.children
    BY <2>1, <2>2, GroupRefDeleted
  <2>4. OnlyClears(group, after)
    BY <2>2, <2>3, ClearsBoth
  <2>5. g.kind = "VisibilityGroup"
    BY <2>2 DEF GroupsOf
  <2>6. DeleteRef(g, "Drawable", refs[k].owner.index) = after
    BY <2>1, <2>5 DEF DeleteRef
  <2>7. QED
    BY <1>1, <2>2, <2>3, <2>4, <2>6
<1>5. PICK step : step = [k \in 1 .. n |-> [g \in T |-> Without(g, refs[k])]]
  OBVIOUS
<1> HIDE DEF Without
<1>6. step \in [1 .. n -> [T -> T]]
  BY <1>4, <1>5
<1>7. PICK f : Steps(f, n, T, group, step)
  BY <1>3, <1>6, Recursion
<1>8. Is(f)
  <2>1. f \in [0 .. n -> T] /\ f[0] = group
    BY <1>7 DEF Steps
  <2>2. ASSUME NEW k \in 0 .. n, k # 0 PROVE f[k] = Without(f[k - 1], refs[k])
    <3>1. k \in 1 .. n /\ k - 1 \in 0 .. n
      BY <1>3, <2>2
    <3>2. f[k] = step[k][f[k - 1]] /\ f[k - 1] \in T
      BY <1>7, <2>1, <3>1 DEF Steps
    <3>3. QED
      BY <1>5, <3>1, <3>2
  <2>3. QED
    BY <1>1, <2>1, <2>2
<1>9. PICK after : after = CHOOSE h : Is(h)
  OBVIOUS
<1>10. Is(after)
  <2> HIDE DEF Is
  <2> QED
    BY <1>8, <1>9
<1>11. RemoveObjsFromVisibilityGroup(group, ids) = after[Len(GetRefs(group))]
  BY <1>2, <1>9 DEF RemoveObjsFromVisibilityGroup, Without
<1>12. after[0] = group /\ \A k \in 1 .. n : after[k] = Without(after[k - 1], refs[k])
  <2>1. 0 \in 0 .. n /\ \A k \in 1 .. n : k \in 0 .. n /\ k # 0
    BY <1>3
  <2>2. QED
    BY <1>1, <1>10, <2>1
<1> HIDE DEF Is
<1> DEFINE J == {k \in 0 .. n : after[k] \in T}
<1>13. 0 \in J
  BY <1>3, <1>12
<1>14. ASSUME NEW k \in 0 .. n - 1, k \in J PROVE k + 1 \in J
  <2>1. k + 1 \in 1 .. n /\ k + 1 \in 0 .. n /\ (k + 1) - 1 = k
    BY <1>3
  <2>2. after[k + 1] = Without(after[k], refs[k + 1]) /\ after[k] \in T
    BY <1>12, <1>14, <2>1
  <2>3. QED
    BY <1>4, <2>1, <2>2
<1>15. n \in J
  <2> HIDE DEF J
  <2>1. n \in 0 .. n
    BY <1>3
  <2>2. QED
    BY <1>3, <1>13, <1>14, <2>1, UpTo
<1>16. QED
  BY <1>1, <1>11, <1>15
===============================================================================
