----------------------------- MODULE SubmitProofs -----------------------------
(***************************************************************************)
(* Theorems about requests, for any clients, objects, lists of objects,    *)
(* number of requests, and number and kinds of faults.                     *)
(*                                                                         *)
(* The argument: RequestInv is inductive.  A request that was made from    *)
(* the state at its offset modifies objects that were there then           *)
(* (Grounded), those that follow included, because they are submitted as   *)
(* what they last were; nothing is locked, so they may be deleted before   *)
(* its messages arrive, but then it ends as a disturbed one.  An answer    *)
(* that is behind the batch is a state to start from, too (Overtaken).     *)
(*                                                                         *)
(* TypeInv is inductive beside it: what is read is a message of the log,   *)
(* the operations library keeps objects what they are (OperationsProofs),  *)
(* and what is fetched is none of what changes.                            *)
(*                                                                         *)
(* JoinInv is inductive beside both: at every offset that has no batch in  *)
(* part, joined ends of clean walls agree (LogAgrees).  A request starts   *)
(* from such an offset or is stale; its changes agree where they join ends *)
(* anew; the references that are found make both ends of all others follow *)
(* one another; and a message that arrives neither finds its walls written *)
(* since, nor what they refer to, or its walls are tainted.                *)
(***************************************************************************)
EXTENDS Submit, OperationsProofs

-----------------------------------------------------------------------------
(* The inductive invariant *)

\* A sequence, whatever its elements.
IsSequence(s) == s \in Seq(Range(s))

\* At offset o, every Delete of x has been followed by another change.
Alive(x, o) ==
    \A j \in 0 .. o : MessageAt(j).id = x /\ MessageAt(j).change = "Delete" =>
        \E i \in j + 1 .. o : MessageAt(i).id = x /\ MessageAt(i).change # "Delete"

IsChange(m) == m.change \in Kinds /\ m = Change(m.change, m.id, m.obj)
AreChanges(s) == IsSequence(s) /\ \A n \in DOMAIN s : IsChange(s[n])

LogOK == AreChanges(log) /\ stored \in Nat

CallFields == {"pc", "offset", "changes", "refs", "batch", "unsent", "at", "answer", "stale"}

\* The fields of a request, and where its batch is in the log.
IsSent(call, n) ==
    call.at[n] \in call.offset + 1 .. Newest /\ MessageAt(call.at[n]) = call.batch[n]
CallOK(call) ==
    /\ DOMAIN call = CallFields
    /\ call.offset \in -1 .. Newest /\ call.answer \in -1 .. Newest
    /\ AreChanges(call.changes) /\ AreChanges(call.batch)
    /\ IsSequence(call.at) /\ DOMAIN call.at = DOMAIN call.batch
    /\ \A n \in DOMAIN call.at : call.at[n] = -1 \/ IsSent(call, n)
    /\ \A n \in call.unsent : n \in DOMAIN call.at /\ call.at[n] = -1
    /\ call.pc \in {"changed", "found"} => call.changes # << >>
    /\ call.pc \in {"sending", "answered"} => call.batch # << >>
    /\ call.pc = "answered" =>
          /\ \A n \in DOMAIN call.at : call.at[n] # -1
          /\ call.answer = call.at[Len(call.at)]

\* An object that is modified was there at the offset of the request.
Modifies(changes, o) ==
    \A n \in DOMAIN changes : changes[n].change = "Modify" =>
        changes[n].id \in disturbed \/ Alive(changes[n].id, o)
Grounded(call) ==
    call.pc \in {"changed", "found", "sending"} /\ ~ call.stale =>
        Modifies(call.changes, call.offset) /\ Modifies(call.batch, call.offset)

\* What was modified behind the answer of a request is there at the answer.
Overtaken(call) ==
    call.pc = "answered" =>
        \A n \in DOMAIN call.batch :
            call.batch[n].change = "Modify" /\ call.at[n] > call.answer =>
                call.batch[n].id \in disturbed \/ Alive(call.batch[n].id, call.answer)

\* An object is there when it is modified, unless the batch is being sent.
Sending(k) ==
    \E call \in Range(req) : call.pc = "sending" /\ \E n \in DOMAIN call.at : call.at[n] = k
Followed ==
    \A k \in 0 .. Newest : MessageAt(k).change = "Modify" =>
        \/ MessageAt(k).id \in disturbed
        \/ Alive(MessageAt(k).id, k - 1)
        \/ Sending(k)

RequestInv ==
    /\ LogOK
    /\ DOMAIN req = Client
    /\ \A call \in Range(req) : CallOK(call) /\ Grounded(call) /\ Overtaken(call)
    /\ Followed

-----------------------------------------------------------------------------
(* Sequences and sets of numbers *)

\* A sequence over any set is a sequence over its own range.
LEMMA SequenceOf ==
    ASSUME NEW S, NEW s \in Seq(S)
    PROVE  IsSequence(s)
  BY DEF IsSequence, Range

\* What a sequence over its own range is.
LEMMA SequenceIs ==
    ASSUME NEW s, IsSequence(s)
    PROVE  /\ Len(s) \in Nat /\ DOMAIN s = 1 .. Len(s)
           /\ s = << >> <=> Len(s) = 0
           /\ s \in [1 .. Len(s) -> Range(s)]
<1>1. Len(s) \in Nat /\ s \in [1 .. Len(s) -> Range(s)] /\ DOMAIN s = 1 .. Len(s)
  BY LenProperties DEF IsSequence
<1>2. s # << >> => Len(s) \in Nat \ {0}
  BY EmptySeq DEF IsSequence
<1>3. Len(<< >>) = 0
  BY EmptySeq
<1>4. QED
  BY <1>1, <1>2, <1>3

\* A function on the numbers up to n is a sequence.
LEMMA FunctionIsSequence ==
    ASSUME NEW n \in Nat, NEW S, NEW f \in [1 .. n -> S]
    PROVE  IsSequence(f) /\ (n # 0 => f # << >>)
<1>1. f \in Seq(S)
  BY SeqDef
<1>2. DOMAIN f = 1 .. n
  OBVIOUS
<1>3. n # 0 => 1 \in DOMAIN f
  BY <1>2
<1>4. DOMAIN << >> = {}
  OBVIOUS
<1>5. QED
  BY <1>1, <1>3, <1>4, SequenceOf

\* What Append returns of a sequence over its own range.
LEMMA AppendedTo ==
    ASSUME NEW s, IsSequence(s), NEW x
    PROVE  /\ IsSequence(Append(s, x))
           /\ Len(Append(s, x)) = Len(s) + 1
           /\ \A i \in 1 .. Len(s) : Append(s, x)[i] = s[i]
           /\ Append(s, x)[Len(s) + 1] = x
<1> DEFINE S == Range(s) \cup {x}
           t == Append(s, x)
<1>1. s \in Seq(S) /\ x \in S
  BY SeqMonotonic DEF IsSequence
<1>2. /\ t \in Seq(S) /\ Len(t) = Len(s) + 1
      /\ \A i \in 1 .. Len(s) : t[i] = s[i]
      /\ t[Len(s) + 1] = x
  BY <1>1, AppendProperties
<1>3. IsSequence(t)
  BY <1>2, SequenceOf
<1>4. QED
  BY <1>2, <1>3

\* The elements of a concatenation are those of its parts.
Gathers(u, s, t) ==
    /\ \A k \in DOMAIN u : (\E a \in DOMAIN s : u[k] = s[a]) \/ \E a \in DOMAIN t : u[k] = t[a]
    /\ \A a \in DOMAIN s : \E k \in DOMAIN u : u[k] = s[a]
    /\ \A a \in DOMAIN t : \E k \in DOMAIN u : u[k] = t[a]

LEMMA Concatenated ==
    ASSUME NEW s, NEW t, IsSequence(s), IsSequence(t), NEW u, u = s \o t
    PROVE  /\ IsSequence(u)
           /\ s # << >> => u # << >>
           /\ Gathers(u, s, t)
<1> DEFINE S == Range(s) \cup Range(t)
<1>1. s \in Seq(S) /\ t \in Seq(S)
  BY SeqMonotonic DEF IsSequence
<1>2. /\ u \in Seq(S) /\ Len(u) = Len(s) + Len(t)
      /\ \A i \in 1 .. Len(s) + Len(t) : u[i] = IF i <= Len(s) THEN s[i] ELSE t[i - Len(s)]
  BY <1>1, ConcatProperties
<1>3. IsSequence(u)
  BY <1>2, SequenceOf
<1>4. /\ Len(s) \in Nat /\ DOMAIN s = 1 .. Len(s) /\ (s = << >> <=> Len(s) = 0)
      /\ Len(t) \in Nat /\ DOMAIN t = 1 .. Len(t)
      /\ DOMAIN u = 1 .. Len(u) /\ (u = << >> <=> Len(u) = 0)
  BY <1>3, SequenceIs
<1>5. ASSUME NEW i \in DOMAIN u
      PROVE  \/ \E j \in DOMAIN s : u[i] = s[j]
             \/ \E j \in DOMAIN t : u[i] = t[j]
  <2>1. i \in 1 .. Len(s) + Len(t)
    BY <1>2, <1>4, <1>5
  <2>2. CASE i <= Len(s)
    BY <1>2, <1>4, <2>1, <2>2
  <2>3. CASE ~ (i <= Len(s))
    <3>1. i - Len(s) \in DOMAIN t
      BY <1>4, <2>1, <2>3
    <3>2. u[i] = t[i - Len(s)]
      BY <1>2, <2>1, <2>3
    <3>3. QED
      BY <3>1, <3>2
  <2>4. QED
    BY <2>2, <2>3
<1>6. s # << >> => u # << >>
  BY <1>2, <1>4
<1>7. ASSUME NEW j \in DOMAIN s PROVE j \in DOMAIN u /\ u[j] = s[j]
  <2>1. j \in 1 .. Len(s) + Len(t) /\ j <= Len(s)
    BY <1>4, <1>7
  <2>2. QED
    BY <1>2, <1>4, <2>1
<1>8. ASSUME NEW j \in DOMAIN t PROVE Len(s) + j \in DOMAIN u /\ u[Len(s) + j] = t[j]
  <2>1. PICK i : i = Len(s) + j
    OBVIOUS
  <2>2. i \in 1 .. Len(s) + Len(t) /\ ~ (i <= Len(s)) /\ i - Len(s) = j
    BY <1>4, <1>8, <2>1
  <2>3. QED
    BY <1>2, <1>4, <2>1, <2>2
<1>9. QED
  BY <1>3, <1>5, <1>6, <1>7, <1>8 DEF Gathers

\* The first of a set of numbers comes before the others.
LEMMA MinIsFirst ==
    ASSUME NEW I \in SUBSET Nat, I # {}
    PROVE  Min(I) \in I /\ \A i \in I : Min(I) <= i
<1> DEFINE R == {ss \in Nat \X Nat : ss[1] < ss[2]}
<1>1. OpToRel(<, Nat) = R
  BY Zenon DEF OpToRel
<1>2. IsWellFoundedOn(R, Nat)
  BY Zenon, <1>1, NatLessThanWellFounded
<1>3. PICK x \in I : \A y \in I : ~ (<<y, x>> \in R)
  <2> HIDE DEF R
  <2> QED
    BY <1>2, WFMin
<1>4. ASSUME NEW y \in I PROVE x <= y
  <2>1. x \in Nat /\ y \in Nat /\ <<y, x>> \in Nat \X Nat
    OBVIOUS
  <2>2. ~ (<<y, x>>[1] < <<y, x>>[2])
    BY <1>3, <2>1
  <2>3. QED
    BY <2>1, <2>2
<1>5. QED
  BY <1>3, <1>4 DEF Min

\* The last of a bounded set of numbers comes after the others.
LEMMA MaxIsLast ==
    ASSUME NEW n \in Nat, NEW I \in SUBSET (1 .. n), I # {}
    PROVE  Max(I) \in I /\ \A i \in I : Max(I) >= i
<1> DEFINE J == {n - i : i \in I}
<1>1. J \in SUBSET Nat /\ J # {}
  <2>1. \A i \in I : n - i \in Nat
    OBVIOUS
  <2>2. PICK i \in I : TRUE
    OBVIOUS
  <2>3. n - i \in J
    OBVIOUS
  <2>4. QED
    BY <2>1, <2>3
<1>2. Min(J) \in J /\ \A j \in J : Min(J) <= j
  BY <1>1, MinIsFirst
<1>3. PICK x \in I : Min(J) = n - x
  BY <1>2
<1>4. ASSUME NEW i \in I PROVE x >= i
  <2>1. n - x <= n - i
    BY <1>2, <1>3
  <2>2. QED
    BY <2>1
<1>5. QED
  BY <1>3, <1>4 DEF Max

\* The offsets of the log.
LEMMA LogIs ==
    ASSUME LogOK
    PROVE  /\ Len(log) \in Nat /\ DOMAIN log = 1 .. Len(log)
           /\ Newest \in Int /\ Newest >= -1 /\ Newest = Len(log) - 1
           /\ \A k \in 0 .. Newest : k + 1 \in DOMAIN log /\ IsChange(MessageAt(k))
           /\ \A n \in DOMAIN log : n - 1 \in 0 .. Newest /\ MessageAt(n - 1) = log[n]
<1>1. Len(log) \in Nat /\ DOMAIN log = 1 .. Len(log)
  BY SequenceIs DEF LogOK, AreChanges
<1>2. Newest \in Int /\ Newest >= -1 /\ Newest = Len(log) - 1
  BY <1>1 DEF Newest
<1>3. \A k \in 0 .. Newest : k + 1 \in DOMAIN log
  BY <1>1, <1>2
<1>4. \A n \in DOMAIN log : n - 1 \in 0 .. Newest /\ (n - 1) + 1 = n
  BY <1>1, <1>2
<1>5. QED
  BY <1>1, <1>2, <1>3, <1>4 DEF LogOK, AreChanges, MessageAt

-----------------------------------------------------------------------------
(* What is there at an offset *)

\* GetObject answers with a message of the object that is in the log; when
\* the service has stored the log up to the offset, with the last one there.
LEMMA ObjectFound ==
    ASSUME LogOK, NEW x, NEW o \in Int, o >= -1, NEW n \in Nat, n <= Len(log),
           GetObject(x, o, n) # None
    PROVE  \E k \in 0 .. Newest :
               /\ MessageAt(k) = GetObject(x, o, n) /\ MessageAt(k).id = x
               /\ n > o => k <= o /\ \A j \in k + 1 .. o : MessageAt(j).id # x
<1>0. /\ Len(log) \in Nat /\ Newest = Len(log) - 1 /\ DOMAIN log = 1 .. Len(log)
      /\ IsSequence(log)
  BY LogIs DEF LogOK, AreChanges
<1>1. PICK b : b = IF o < n THEN o + 1 ELSE n
  OBVIOUS
<1>2. b \in Nat /\ b <= Len(log) /\ (n > o => b = o + 1)
  BY <1>0, <1>1
<1>3. PICK changes : changes = AsOf(o, n)
  OBVIOUS
<1>4. DOMAIN changes = 1 .. b /\ \A i \in 1 .. b : changes[i] = log[i]
  <2>1. changes = SubSeq(log, 1, b)
    BY <1>1, <1>3 DEF AsOf
  <2>2. 1 \in Int /\ b \in Int /\ \A i \in 1 .. b : log[i] \in Range(log)
    BY <1>0, <1>2 DEF Range
  <2>3. /\ changes \in Seq(Range(log))
        /\ Len(changes) = IF 1 <= b THEN b - 1 + 1 ELSE 0
        /\ \A i \in 1 .. b - 1 + 1 : changes[i] = log[1 + i - 1]
    BY <2>1, <2>2, SubSeqProperties
  <2>4. DOMAIN changes = 1 .. Len(changes)
    BY <2>3, LenProperties
  <2>5. /\ Len(changes) = b
        /\ \A i \in 1 .. b : i \in 1 .. b - 1 + 1 /\ 1 + i - 1 = i
    BY <1>2, <2>3
  <2>6. QED
    BY <2>3, <2>4, <2>5
<1>5. PICK mine : mine = {k \in DOMAIN changes : changes[k].id = x}
  OBVIOUS
<1>6. mine # {} /\ GetObject(x, o, n) = changes[Max(mine)]
  BY <1>3, <1>5 DEF GetObject
<1>7. mine \in SUBSET (1 .. b) /\ \A k \in 1 .. b : k \in mine <=> log[k].id = x
  BY <1>4, <1>5
<1>8. PICK k \in mine : k = Max(mine) /\ \A i \in mine : k >= i
  BY <1>2, <1>6, <1>7, MaxIsLast
<1>9. k \in 1 .. b /\ GetObject(x, o, n) = log[k] /\ log[k].id = x
  BY <1>4, <1>6, <1>7, <1>8
<1>10. PICK l : l = k - 1
  OBVIOUS
<1>11. l \in 0 .. Newest /\ l + 1 = k /\ (n > o => l <= o)
  BY <1>0, <1>2, <1>9, <1>10
<1>12. ASSUME n > o, NEW j \in l + 1 .. o PROVE MessageAt(j).id # x
  <2>1. j + 1 \in 1 .. b /\ ~ (k >= j + 1)
    BY <1>2, <1>11, <1>12
  <2>2. j + 1 \notin mine
    BY <1>8, <2>1
  <2>3. QED
    BY <1>7, <2>1, <2>2 DEF MessageAt
<1>13. MessageAt(l) = GetObject(x, o, n) /\ MessageAt(l).id = x
  BY <1>9, <1>11 DEF MessageAt
<1>14. QED
  BY <1>11, <1>12, <1>13

\* The last message of an object decides whether it is there.
LEMMA LastDecides ==
    ASSUME LogOK, NEW x, NEW o \in -1 .. Newest, NEW k \in 0 .. o,
           MessageAt(k).id = x, MessageAt(k).change # "Delete",
           \A j \in k + 1 .. o : MessageAt(j).id # x
    PROVE  Alive(x, o)
<1> SUFFICES ASSUME NEW j \in 0 .. o, MessageAt(j).id = x, MessageAt(j).change = "Delete"
             PROVE  \E i \in j + 1 .. o : MessageAt(i).id = x /\ MessageAt(i).change # "Delete"
  BY DEF Alive
<1>1. o \in Int
  BY LogIs
<1>2. j \notin k + 1 .. o /\ j # k
  OBVIOUS
<1>3. k \in j + 1 .. o
  BY <1>1, <1>2
<1>4. QED
  BY <1>3

\* An object is still there while nothing is written of it.
LEMMA StaysAlive ==
    ASSUME LogOK, NEW x, NEW o \in -1 .. Newest, NEW p \in -1 .. Newest, o <= p,
           Alive(x, o), \A j \in o + 1 .. p : MessageAt(j).id # x
    PROVE  Alive(x, p)
<1> SUFFICES ASSUME NEW j \in 0 .. p, MessageAt(j).id = x, MessageAt(j).change = "Delete"
             PROVE  \E i \in j + 1 .. p : MessageAt(i).id = x /\ MessageAt(i).change # "Delete"
  BY DEF Alive
<1>1. o \in Int /\ p \in Int
  BY LogIs
<1>2. j \notin o + 1 .. p
  OBVIOUS
<1>3. j \in 0 .. o
  BY <1>1, <1>2
<1>4. PICK i \in j + 1 .. o : MessageAt(i).id = x /\ MessageAt(i).change # "Delete"
  BY <1>3 DEF Alive
<1>5. i \in j + 1 .. p
  BY <1>1
<1>6. QED
  BY <1>4, <1>5

\* An object that a service answered with was there, unless it was behind.
LEMMA FoundAlive ==
    ASSUME LogOK, NEW x, NEW o \in -1 .. Newest, NEW n \in Nat, n <= Len(log), n > o,
           GetObject(x, o, n) # None, GetObject(x, o, n).change # "Delete"
    PROVE  Alive(x, o)
<1>1. o \in Int /\ o >= -1
  BY LogIs
<1>2. PICK k \in 0 .. Newest :
          /\ MessageAt(k) = GetObject(x, o, n) /\ MessageAt(k).id = x
          /\ n > o => k <= o /\ \A j \in k + 1 .. o : MessageAt(j).id # x
  BY <1>1, ObjectFound
<1>3. k \in 0 .. o
  BY <1>1, <1>2, LogIs
<1>4. QED
  BY <1>2, <1>3, LastDecides

-----------------------------------------------------------------------------
(* What a longer log keeps *)

\* Whether an object is there at an offset does not change.
LEMMA AliveKept ==
    ASSUME \A k \in 0 .. Newest : MessageAt(k)' = MessageAt(k), Newest \in Int,
           NEW x, NEW o \in Int, o <= Newest, Alive(x, o)
    PROVE  Alive(x, o)'
<1> SUFFICES ASSUME NEW j \in 0 .. o, MessageAt(j)'.id = x, MessageAt(j)'.change = "Delete"
             PROVE  \E i \in j + 1 .. o : MessageAt(i)'.id = x /\ MessageAt(i)'.change # "Delete"
  BY DEF Alive
<1>1. j \in 0 .. Newest /\ MessageAt(j) = MessageAt(j)'
  OBVIOUS
<1>2. PICK i \in j + 1 .. o : MessageAt(i).id = x /\ MessageAt(i).change # "Delete"
  BY <1>1 DEF Alive
<1>3. i \in 0 .. Newest
  OBVIOUS
<1>4. MessageAt(i)' = MessageAt(i)
  BY <1>3
<1>5. QED
  BY <1>2, <1>4

\* The offsets of the log are those of the log before, or one more.
LEMMA LogGrows ==
    ASSUME LogOK, NEW m, log' = log \/ log' = Append(log, m)
    PROVE  /\ \A k \in 0 .. Newest : MessageAt(k)' = MessageAt(k)
           /\ Newest \in Int /\ Newest' \in Int /\ Newest <= Newest'
<1>1. /\ Len(log) \in Nat /\ Newest \in Int /\ Newest = Len(log) - 1
      /\ \A k \in 0 .. Newest : k + 1 \in 1 .. Len(log)
  BY LogIs
<1>2. CASE log' = log
  BY <1>1, <1>2 DEF Newest, MessageAt
<1>3. CASE log' = Append(log, m)
  <2>1. Len(log') = Len(log) + 1 /\ \A i \in 1 .. Len(log) : log'[i] = log[i]
    BY <1>3, AppendedTo DEF LogOK, AreChanges
  <2>2. Newest' = Newest + 1
    BY <1>1, <2>1 DEF Newest
  <2>3. \A k \in 0 .. Newest : MessageAt(k)' = MessageAt(k)
    BY <1>1, <2>1 DEF MessageAt
  <2>4. QED
    BY <1>1, <2>2, <2>3
<1>4. QED
  BY <1>2, <1>3

\* What holds of a request goes on to hold of it.
LEMMA CallKept ==
    ASSUME LogOK, NEW m, log' = log \/ log' = Append(log, m), disturbed \subseteq disturbed',
           NEW call, CallOK(call), Grounded(call), Overtaken(call)
    PROVE  CallOK(call)' /\ Grounded(call)' /\ Overtaken(call)'
<1>1. /\ \A k \in 0 .. Newest : MessageAt(k)' = MessageAt(k)
      /\ Newest \in Int /\ Newest' \in Int /\ Newest <= Newest'
  BY LogGrows
<1>2. /\ call.offset \in Int /\ call.offset <= Newest
      /\ call.answer \in Int /\ call.answer <= Newest
      /\ call.offset \in -1 .. Newest' /\ call.answer \in -1 .. Newest'
  BY <1>1 DEF CallOK
<1>3. \A n \in DOMAIN call.at : IsSent(call, n) => IsSent(call, n)'
  <2> SUFFICES ASSUME NEW n \in DOMAIN call.at, IsSent(call, n) PROVE IsSent(call, n)'
    OBVIOUS
  <2>1. call.at[n] \in call.offset + 1 .. Newest /\ MessageAt(call.at[n]) = call.batch[n]
    BY DEF IsSent
  <2>2. PICK k : k = call.at[n]
    OBVIOUS
  <2>3. k \in 0 .. Newest /\ k \in call.offset + 1 .. Newest'
    <3>1. call.offset + 1 >= 0
      BY <1>2 DEF CallOK
    <3>2. QED
      BY <1>1, <1>2, <2>1, <2>2, <3>1
  <2>4. MessageAt(k)' = call.batch[n]
    BY <1>1, <2>1, <2>2, <2>3
  <2>5. QED
    BY <2>2, <2>3, <2>4 DEF IsSent
<1>4. CallOK(call)'
  BY <1>2, <1>3 DEF CallOK
<1>5. \A x : Alive(x, call.offset) => Alive(x, call.offset)'
  <2>1. PICK o : o = call.offset
    OBVIOUS
  <2>2. \A x : Alive(x, o) => Alive(x, o)'
    BY <1>1, <1>2, <2>1, AliveKept
  <2>3. QED
    BY <2>1, <2>2 DEF Alive
<1>6. \A x : Alive(x, call.answer) => Alive(x, call.answer)'
  <2>1. PICK o : o = call.answer
    OBVIOUS
  <2>2. \A x : Alive(x, o) => Alive(x, o)'
    BY <1>1, <1>2, <2>1, AliveKept
  <2>3. QED
    BY <2>1, <2>2 DEF Alive
<1>7. Grounded(call)'
  BY <1>5 DEF Grounded, Modifies
<1>8. Overtaken(call)'
  BY <1>6 DEF Overtaken
<1>9. QED
  BY <1>4, <1>7, <1>8

\* A step that changes one request.
LEMMA OneCall ==
    ASSUME RequestInv, NEW c \in Client, NEW after, req' = [req EXCEPT ![c] = after],
           NEW m, log' = log \/ log' = Append(log, m), LogOK', disturbed \subseteq disturbed',
           CallOK(after)', Grounded(after)', Overtaken(after)', Followed'
    PROVE  RequestInv'
<1>1. DOMAIN req' = Client /\ \A call \in Range(req') : call = after \/ call \in Range(req)
  BY DEF RequestInv, Range
<1>2. ASSUME NEW call \in Range(req') PROVE CallOK(call)' /\ Grounded(call)' /\ Overtaken(call)'
  <2>1. CASE call = after
    BY <2>1
  <2>2. CASE call \in Range(req)
    BY <2>2, CallKept DEF RequestInv
  <2>3. QED
    BY <1>1, <2>1, <2>2
<1>3. QED
  BY <1>1, <1>2 DEF RequestInv, Range

\* Nothing new is in the log: what was modified was there, unless its request
\* is the one that changes, which was sending.
LEMMA FollowedKept ==
    ASSUME RequestInv, NEW c \in Client, NEW after, req' = [req EXCEPT ![c] = after],
           log' = log, disturbed \subseteq disturbed',
           \A k \in 0 .. Newest : \A n \in DOMAIN req[c].at :
               req[c].pc = "sending" /\ req[c].at[n] = k /\ MessageAt(k).change = "Modify" =>
                   \/ MessageAt(k).id \in disturbed'
                   \/ Alive(MessageAt(k).id, k - 1)
                   \/ after.pc = "sending" /\ after.at = req[c].at
    PROVE  Followed'
<1>1. Newest' = Newest /\ \A k : MessageAt(k)' = MessageAt(k)
  BY DEF Newest, MessageAt
<1>2. \A x, o : Alive(x, o)' <=> Alive(x, o)
  BY <1>1 DEF Alive
<1>3. after \in Range(req') /\ \A call \in Range(req) : call = req[c] \/ call \in Range(req')
  BY DEF RequestInv, Range
<1>4. SUFFICES ASSUME NEW k \in 0 .. Newest, MessageAt(k).change = "Modify"
               PROVE  \/ MessageAt(k).id \in disturbed'
                      \/ Alive(MessageAt(k).id, k - 1)
                      \/ Sending(k)'
  <2>1. PICK last : last = Newest
    OBVIOUS
  <2>2. ASSUME NEW k \in 0 .. last, MessageAt(k)'.change = "Modify"
        PROVE  \/ MessageAt(k)'.id \in disturbed'
               \/ Alive(MessageAt(k).id, k - 1)'
               \/ Sending(k)'
    <3>1. PICK x : x = MessageAt(k).id
      OBVIOUS
    <3>2. MessageAt(k)' = MessageAt(k) /\ (Alive(x, k - 1)' <=> Alive(x, k - 1))
      BY <1>1, <1>2
    <3>3. QED
      BY <1>1, <2>1, <2>2, <3>1, <3>2 DEF Alive
  <2>3. QED
    BY <1>1, <2>1, <2>2 DEF Followed
<1>5. CASE ~ Sending(k)
  BY <1>4, <1>5 DEF RequestInv, Followed
<1>6. CASE Sending(k)
  <2>1. PICK call \in Range(req) :
            call.pc = "sending" /\ \E n \in DOMAIN call.at : call.at[n] = k
    BY <1>6 DEF Sending
  <2>2. CASE call \in Range(req')
    BY <2>1, <2>2 DEF Sending
  <2>3. CASE call = req[c]
    BY <1>3, <1>4, <2>1, <2>3 DEF Sending
  <2>4. QED
    BY <1>3, <2>2, <2>3
<1>7. QED
  BY <1>5, <1>6

-----------------------------------------------------------------------------
(* The requests *)

\* A log that nothing is appended to stays as it is.
LEMMA SameLog ==
    ASSUME LogOK, log' = log, stored' \in Nat
    PROVE  LogOK'
  BY DEF LogOK, AreChanges

\* A change that names an object.
LEMMA ChangeIs ==
    ASSUME NEW kind \in Kinds, NEW x, NEW obj
    PROVE  /\ IsChange(Change(kind, x, obj))
           /\ Change(kind, x, obj).change = kind /\ Change(kind, x, obj).id = x
  BY DEF IsChange, Change

\* A request that begins from the state at its offset modifies objects that
\* are there.
LEMMA Begun ==
    ASSUME RequestInv, NEW c \in Client, Ready(c), NEW o \in -1 .. Newest, NEW stale, NEW changes,
           Begin(c, o, stale, changes), stored' \in Nat,
           AreChanges(changes), ~ stale => Modifies(changes, o)
    PROVE  RequestInv'
<1>1. PICK late : late = InSplit(o)
  OBVIOUS
<1>2. PICK after : after = [Idle EXCEPT !.pc = "changed", !.offset = o, !.changes = changes,
                                        !.answer = req[c].answer, !.stale = stale \/ late]
  OBVIOUS
<1>3. /\ changes # << >> /\ log' = log /\ disturbed' = disturbed
      /\ req' = [req EXCEPT ![c] = after]
  BY <1>1, <1>2 DEF Begin
<1>4. /\ DOMAIN after = CallFields
      /\ after.pc = "changed" /\ after.offset = o /\ after.changes = changes
      /\ after.answer = req[c].answer /\ after.stale = (stale \/ late)
      /\ after.batch = << >> /\ after.at = << >> /\ after.unsent = {}
  BY <1>2 DEF Idle, CallFields
<1>5. LogOK /\ LogOK' /\ req[c] \in Range(req) /\ CallOK(req[c])
  BY <1>3, SameLog DEF RequestInv, Range
<1>6. IsSequence(<< >>) /\ DOMAIN << >> = {}
  <2>1. IsSequence(<< >>)
    BY EmptySeq DEF IsSequence
  <2>2. DOMAIN << >> = {}
    OBVIOUS
  <2>3. QED
    BY <2>1, <2>2
<1>7. CallOK(after)
  BY <1>3, <1>4, <1>5, <1>6 DEF CallOK, AreChanges
<1>8. Grounded(after) /\ Overtaken(after)
  BY <1>4, <1>6 DEF Grounded, Overtaken, Modifies
<1>9. CallOK(after)' /\ Grounded(after)' /\ Overtaken(after)'
  BY <1>3, <1>5, <1>7, <1>8, CallKept
<1>10. req[c].pc # "sending"
  BY DEF Ready
<1>11. Followed'
  BY <1>3, <1>10, FollowedKept
<1>12. QED
  BY <1>3, <1>5, <1>9, <1>11, OneCall

\* Objects that are created or deleted are not modified.
LEMMA NotModified ==
    ASSUME NEW S, NEW ids \in Seq(S), NEW changes, DOMAIN changes = DOMAIN ids,
           changes = [n \in DOMAIN ids |-> changes[n]], NEW o, NEW kind \in {"Add", "Delete"},
           \A n \in DOMAIN ids : \E x, obj : changes[n] = Change(kind, x, obj)
    PROVE  AreChanges(changes) /\ Modifies(changes, o)
<1>1. DOMAIN ids = 1 .. Len(ids) /\ Len(ids) \in Nat
  BY LenProperties
<1>2. changes \in [1 .. Len(ids) -> Range(changes)]
  BY <1>1 DEF Range
<1>3. IsSequence(changes)
  BY <1>1, <1>2, FunctionIsSequence
<1>4. kind \in Kinds /\ kind # "Modify"
  BY DEF Kinds
<1>5. \A n \in DOMAIN changes : IsChange(changes[n]) /\ changes[n].change # "Modify"
  BY <1>4, ChangeIs
<1>6. QED
  BY <1>3, <1>5 DEF AreChanges, Modifies

\* The objects of a list are objects.
LEMMA SelectionsAre == \A ids \in Selections : ids \in Seq(Obj)
  BY SubmitAssumption

\* An offset that a request names is in the log.
LEMMA OffsetsIn ==
    ASSUME RequestInv, NEW c \in Client, NEW o \in OffsetsOf(c)
    PROVE  o \in 0 .. Newest
<1>1. req[c].answer \in -1 .. Newest /\ Newest \in Int /\ Newest >= -1
  BY LogIs DEF RequestInv, CallOK, Range
<1>2. QED
  BY <1>1 DEF OffsetsOf

\* Creating walls, a sheet or a viewport.
LEMMA CreateStep ==
    ASSUME RequestInv, NEW c \in Client, Ready(c),
           \/ \E ids \in Selections : CreateWalls(c, ids)
           \/ \E x \in Sheets : CreateSheet(c, x)
           \/ \E v \in Viewports, x \in Sheets : CreateViewport(c, v, x)
    PROVE  RequestInv'
<1>1. Newest \in -1 .. Newest /\ stored \in Nat
  BY LogIs DEF RequestInv, LogOK
<1>2. CASE \E ids \in Selections : CreateWalls(c, ids)
  <2>1. PICK ids \in Selections : CreateWalls(c, ids)
    BY <1>2
  <2>2. PICK changes : changes = [n \in DOMAIN ids |-> NewWall(ids[n])]
    OBVIOUS
  <2>3. Begin(c, Newest, FALSE, changes) /\ stored' = stored /\ ids \in Seq(Walls)
    BY <2>1, <2>2 DEF CreateWalls, Create
  <2>4. \A n \in DOMAIN ids : \E x, obj : changes[n] = Change("Add", x, obj)
    BY <2>2 DEF NewWall
  <2>5. AreChanges(changes) /\ \A o : Modifies(changes, o)
    BY <2>2, <2>3, <2>4, NotModified
  <2>6. QED
    BY <1>1, <2>3, <2>5, Begun
<1>3. ASSUME NEW x, NEW obj, Create(c, <<Change("Add", x, obj)>>), stored' = stored
      PROVE  RequestInv'
  <2>1. PICK changes : changes = <<Change("Add", x, obj)>>
    OBVIOUS
  <2>2. Begin(c, Newest, FALSE, changes)
    BY <1>3, <2>1 DEF Create
  <2>3. PICK ids : ids = <<x>>
    OBVIOUS
  <2>4. ids \in Seq({x}) /\ DOMAIN ids = {1}
    BY <2>3
  <2>5. DOMAIN changes = {1} /\ changes[1] = Change("Add", x, obj) /\ changes = [n \in {1} |-> changes[n]]
    BY <2>1
  <2>6. AreChanges(changes) /\ \A o : Modifies(changes, o)
    BY <2>4, <2>5, NotModified
  <2>7. QED
    BY <1>1, <1>3, <2>2, <2>6, Begun
<1>4. CASE \E x \in Sheets : CreateSheet(c, x)
  <2>1. PICK x \in Sheets : CreateSheet(c, x)
    BY <1>4
  <2>2. PICK obj : obj = P!New(x)
    OBVIOUS
  <2>3. Create(c, <<Change("Add", x, obj)>>) /\ stored' = stored
    BY <2>1, <2>2 DEF CreateSheet, Create
  <2>4. QED
    BY <1>3, <2>3
<1>5. CASE \E v \in Viewports, x \in Sheets : CreateViewport(c, v, x)
  <2>1. PICK v \in Viewports, x \in Sheets : CreateViewport(c, v, x)
    BY <1>5
  <2>2. PICK obj : obj = V!New(v, x)
    OBVIOUS
  <2>3. Create(c, <<Change("Add", v, obj)>>) /\ stored' = stored
    BY <2>1, <2>2 DEF CreateViewport, Create
  <2>4. QED
    BY <1>3, <2>3
<1>6. QED
  BY <1>2, <1>4, <1>5

\* Deleting objects.
LEMMA DeleteStep ==
    ASSUME RequestInv, NEW c \in Client, Ready(c), NEW o \in OffsetsOf(c),
           NEW ids \in Selections, DeleteObjects(c, ids, o)
    PROVE  RequestInv'
<1>1. o \in -1 .. Newest /\ stored \in Nat
  BY OffsetsIn DEF RequestInv, LogOK
<1>2. PICK changes : changes = [n \in DOMAIN ids |-> Change("Delete", ids[n], None)]
  OBVIOUS
<1>3. Begin(c, o, FALSE, changes) /\ stored' = stored /\ ids \in Seq(Obj)
  BY <1>2, SelectionsAre DEF DeleteObjects
<1>4. \A n \in DOMAIN ids : \E x, obj : changes[n] = Change("Delete", x, obj)
  BY <1>2
<1>5. AreChanges(changes) /\ Modifies(changes, o)
  BY <1>2, <1>3, <1>4, NotModified
<1>6. QED
  BY <1>1, <1>3, <1>5, Begun

\* What a request reads of the objects service.
LEMMA ReadIs ==
    ASSUME RequestInv, NEW n \in stored .. Len(log)
    PROVE  n \in Nat /\ n <= Len(log)
<1>1. stored \in Nat /\ Len(log) \in Nat
  BY LogIs DEF RequestInv, LogOK
<1>2. QED
  BY <1>1

\* A sequence of numbers in order is a sequence.
LEMMA OrderedIs ==
    ASSUME NEW n \in Nat, NEW I \in SUBSET (1 .. n), NEW kept \in Ordered(I)
    PROVE  \E m \in Nat : kept \in [1 .. m -> I]
<1>1. IsFiniteSet(I)
  <2>1. IsFiniteSet(1 .. n)
    BY FS_Interval
  <2>2. QED
    BY <2>1, FS_Subset
<1>2. Cardinality(I) \in Nat
  BY <1>1, FS_CardinalityType
<1>3. QED
  BY <1>2 DEF Ordered

\* Moving objects: those that are not there are skipped.
LEMMA MoveStep ==
    ASSUME RequestInv, NEW c \in Client, Ready(c), NEW o \in OffsetsOf(c),
           NEW ids \in Selections, NEW delta \in Delta, MoveObjects(c, ids, delta, o)
    PROVE  RequestInv'
<1>1. o \in -1 .. Newest /\ o \in Int /\ LogOK
  BY OffsetsIn, LogIs DEF RequestInv
<1>2. PICK n \in stored .. Len(log) :
          /\ \E kept \in Ordered({i \in DOMAIN ids : IsObject(GetObject(ids[i], o, n))}) :
                Begin(c, o, n <= o,
                    [i \in DOMAIN kept |-> Change("Modify", ids[kept[i]],
                                               MoveObj(GetObject(ids[kept[i]], o, n).obj, delta))])
          /\ stored' = n
  BY DEF MoveObjects
<1>3. n \in Nat /\ n <= Len(log)
  BY ReadIs
<1>4. PICK I : I = {i \in DOMAIN ids : IsObject(GetObject(ids[i], o, n))}
  OBVIOUS
<1>5. PICK kept \in Ordered(I) :
          Begin(c, o, n <= o,
              [i \in DOMAIN kept |-> Change("Modify", ids[kept[i]],
                                         MoveObj(GetObject(ids[kept[i]], o, n).obj, delta))])
  BY <1>2, <1>4
<1>6. PICK changes : changes = [i \in DOMAIN kept |-> Change("Modify", ids[kept[i]],
                                   MoveObj(GetObject(ids[kept[i]], o, n).obj, delta))]
  OBVIOUS
<1>7. PICK m \in Nat : kept \in [1 .. m -> I]
  <2>1. DOMAIN ids = 1 .. Len(ids) /\ Len(ids) \in Nat
    BY SelectionsAre, LenProperties
  <2>2. I \in SUBSET (1 .. Len(ids))
    BY <1>4, <2>1
  <2>3. QED
    BY <2>1, <2>2, OrderedIs
<1>8. /\ DOMAIN kept = 1 .. m /\ DOMAIN changes = 1 .. m
      /\ changes \in [1 .. m -> Range(changes)]
      /\ \A i \in 1 .. m : /\ kept[i] \in I
                           /\ \E obj : changes[i] = Change("Modify", ids[kept[i]], obj)
  BY <1>6, <1>7 DEF Range
<1>9. AreChanges(changes)
  <2>1. IsSequence(changes)
    BY <1>8, FunctionIsSequence
  <2>2. \A i \in 1 .. m : IsChange(changes[i])
    BY <1>8, ChangeIs DEF Kinds
  <2>3. QED
    BY <1>8, <2>1, <2>2 DEF AreChanges
<1>10. ASSUME n > o PROVE Modifies(changes, o)
  <2> SUFFICES ASSUME NEW i \in 1 .. m PROVE Alive(changes[i].id, o)
    BY <1>8 DEF Modifies
  <2>1. PICK x : x = ids[kept[i]]
    OBVIOUS
  <2>2. changes[i].id = x
    BY <1>8, <2>1, ChangeIs DEF Kinds
  <2>3. IsObject(GetObject(x, o, n))
    BY <1>4, <1>8, <2>1
  <2>4. GetObject(x, o, n) # None /\ GetObject(x, o, n).change # "Delete"
    BY <2>3 DEF IsObject
  <2>5. Alive(x, o)
    BY <1>1, <1>3, <1>10, <2>4, FoundAlive
  <2>6. QED
    BY <2>2, <2>5
<1>11. PICK stale : stale = (n <= o)
  OBVIOUS
<1>12. ~ stale => Modifies(changes, o)
  <2>1. n <= o \/ n > o
    BY <1>1, <1>3
  <2>2. QED
    BY <1>10, <1>11, <2>1
<1>13. Begin(c, o, stale, changes)
  BY <1>5, <1>6, <1>11
<1>14. stored' \in Nat
  BY <1>2, <1>3
<1>15. QED
  BY <1>1, <1>9, <1>12, <1>13, <1>14, Begun

\* Joining two walls, which must be there.
LEMMA JoinStep ==
    ASSUME RequestInv, NEW c \in Client, Ready(c), NEW o \in OffsetsOf(c),
           NEW x, NEW y, NEW guess, JoinObjectsAtPoint(c, x, y, guess, o)
    PROVE  RequestInv'
<1>1. o \in -1 .. Newest /\ o \in Int /\ LogOK
  BY OffsetsIn, LogIs DEF RequestInv
<1>2. PICK n \in stored .. Len(log) :
          /\ IsObject(GetObject(x, o, n)) /\ IsObject(GetObject(y, o, n))
          /\ \E a, b : Begin(c, o, n <= o, <<Change("Modify", x, a), Change("Modify", y, b)>>)
          /\ stored' = n
  BY DEF JoinObjectsAtPoint
<1>3. n \in Nat /\ n <= Len(log)
  BY ReadIs
<1>4. PICK a, b : Begin(c, o, n <= o, <<Change("Modify", x, a), Change("Modify", y, b)>>)
  BY <1>2
<1>5. PICK changes : changes = <<Change("Modify", x, a), Change("Modify", y, b)>>
  OBVIOUS
<1>6. /\ DOMAIN changes = 1 .. 2 /\ changes \in [1 .. 2 -> Range(changes)]
      /\ \A i \in 1 .. 2 : \/ changes[i] = Change("Modify", x, a)
                           \/ changes[i] = Change("Modify", y, b)
  BY <1>5 DEF Range
<1>7. AreChanges(changes)
  <2>1. IsSequence(changes)
    BY <1>6, FunctionIsSequence
  <2>2. \A i \in 1 .. 2 : IsChange(changes[i])
    BY <1>6, ChangeIs DEF Kinds
  <2>3. QED
    BY <1>6, <2>1, <2>2 DEF AreChanges
<1>8. ASSUME n > o PROVE Alive(x, o) /\ Alive(y, o)
  BY <1>1, <1>2, <1>3, <1>8, FoundAlive DEF IsObject
<1>9. ASSUME n > o PROVE Modifies(changes, o)
  <2>1. \A i \in 1 .. 2 : changes[i].id = x \/ changes[i].id = y
    BY <1>6, ChangeIs DEF Kinds
  <2>2. QED
    BY <1>6, <1>8, <1>9, <2>1 DEF Modifies
<1>10. PICK stale : stale = (n <= o)
  OBVIOUS
<1>11. ~ stale => Modifies(changes, o)
  <2>1. n <= o \/ n > o
    BY <1>1, <1>3
  <2>2. QED
    BY <1>9, <1>10, <2>1
<1>12. Begin(c, o, stale, changes)
  BY <1>4, <1>5, <1>10
<1>13. stored' \in Nat
  BY <1>2, <1>3
<1>14. QED
  BY <1>1, <1>7, <1>11, <1>12, <1>13, Begun

\* An object that an answered request modified is there at an offset that the
\* client may name next, if nothing was written of it since.
LEMMA UndoneAlive ==
    ASSUME RequestInv, NEW c \in Client, req[c].pc = "answered", NEW o \in OffsetsOf(c),
           NEW i \in DOMAIN req[c].batch, req[c].batch[i].change = "Modify",
           req[c].batch[i].id \notin disturbed,
           \A k \in req[c].at[i] + 1 .. o : MessageAt(k).id # req[c].batch[i].id
    PROVE  Alive(req[c].batch[i].id, o)
<1>1. PICK call \in Range(req) : call = req[c]
  BY DEF RequestInv, Range
<1>2. /\ LogOK /\ CallOK(call) /\ Overtaken(call) /\ call.pc = "answered"
      /\ o \in 0 .. Newest /\ Newest \in Int
  BY <1>1, OffsetsIn, LogIs DEF RequestInv
<1>3. PICK x, k : x = call.batch[i].id /\ k = call.at[i]
  OBVIOUS
<1>4. /\ k \in 0 .. Newest /\ MessageAt(k) = call.batch[i]
      /\ call.answer \in Int /\ call.offset \in -1 .. Newest
  <2>1. call.offset \in -1 .. Newest /\ call.offset \in Int /\ call.answer \in Int
    BY <1>2 DEF CallOK
  <2>2. k \in call.offset + 1 .. Newest /\ MessageAt(k) = call.batch[i]
    BY <1>1, <1>2, <1>3 DEF CallOK, IsSent
  <2>3. QED
    BY <1>2, <2>1, <2>2
<1>5. CASE k <= o
  <2>1. k \in 0 .. o /\ MessageAt(k).id = x /\ MessageAt(k).change # "Delete"
    BY <1>1, <1>2, <1>3, <1>4, <1>5
  <2>2. \A j \in k + 1 .. o : MessageAt(j).id # x
    BY <1>1, <1>3
  <2>3. o \in -1 .. Newest
    BY <1>2
  <2>4. QED
    BY <1>1, <1>2, <1>3, <2>1, <2>2, <2>3, LastDecides
<1>6. CASE k > o
  <2>1. o = call.answer
    BY <1>1, <1>2, <1>4, <1>6 DEF OffsetsOf
  <2>2. call.batch[i].change = "Modify" /\ call.at[i] > call.answer
    BY <1>1, <1>3, <1>6, <2>1
  <2>3. Alive(call.batch[i].id, call.answer)
    BY <1>1, <1>2, <2>2 DEF Overtaken
  <2>4. QED
    BY <1>1, <2>1, <2>3
<1>7. QED
  BY <1>2, <1>4, <1>5, <1>6

\* Taking back the client's last request.
LEMMA UndoStep ==
    ASSUME RequestInv, NEW c \in Client, Ready(c), NEW o \in OffsetsOf(c), UndoLatest(c, o)
    PROVE  RequestInv'
<1>1. o \in -1 .. Newest /\ o \in Int /\ LogOK
  BY OffsetsIn, LogIs DEF RequestInv
<1>2. PICK call \in Range(req) : call = req[c]
  BY DEF RequestInv, Range
<1>3. CallOK(call)
  BY SMTT(30) DEF RequestInv
<1> DEFINE Before(n, i) == GetObject(req[c].batch[i].id, req[c].at[i] - 1, n)
           Inverted(n, i) ==
               LET x == req[c].batch[i].id
                   kind == req[c].batch[i].change
               IN  IF Before(n, i) = None \/ kind = "Add" THEN Change("Delete", x, None)
                   ELSE Change(IF kind = "Delete" THEN "Add" ELSE "Modify", x, Before(n, i).obj)
           Kept(n) == {i \in DOMAIN req[c].batch :
                           \/ Before(n, i) = None \/ req[c].batch[i].change = "Add"
                           \/ Before(n, i).change # "Delete"}
           old == \E i \in DOMAIN req[c].at :
                      \E k \in req[c].at[i] + 1 .. o : MessageAt(k).id = req[c].batch[i].id
<1>4. PICK n \in stored .. Len(log) :
          /\ req[c].pc = "answered"
          /\ \E kept \in Ordered(Kept(n)) :
                Begin(c, o, n <= o \/ old, [i \in DOMAIN kept |-> Inverted(n, kept[i])])
          /\ stored' = n
  BY Zenon DEF UndoLatest
<1>5. n \in Nat /\ n <= Len(log)
  BY ReadIs
<1>6. PICK I : I = Kept(n)
  BY Zenon
<1>7. PICK kept \in Ordered(I) :
          Begin(c, o, n <= o \/ old, [i \in DOMAIN kept |-> Inverted(n, kept[i])])
  BY <1>4, <1>6, Zenon
<1>8. PICK stale, changes :
          /\ stale = (n <= o \/ old)
          /\ changes = [i \in DOMAIN kept |-> Inverted(n, kept[i])]
  BY Zenon
<1>9. Begin(c, o, stale, changes) /\ stored' \in Nat
  BY <1>4, <1>5, <1>7, <1>8, Zenon
<1>10. /\ AreChanges(call.batch) /\ DOMAIN call.at = DOMAIN call.batch
       /\ Len(call.batch) \in Nat /\ DOMAIN call.batch = 1 .. Len(call.batch)
  BY <1>3, SequenceIs DEF CallOK, AreChanges
<1>11. PICK m \in Nat : kept \in [1 .. m -> I]
  <2>1. I \in SUBSET (1 .. Len(call.batch))
    BY <1>2, <1>6, <1>10
  <2>2. QED
    BY <1>10, <2>1, OrderedIs
<1>12. DOMAIN changes = 1 .. m /\ changes \in [1 .. m -> Range(changes)]
  BY <1>8, <1>11, SMTT(30) DEF Range
<1>13. \A i \in 1 .. m : \E kind \in Kinds : \E obj :
           /\ kept[i] \in DOMAIN call.batch
           /\ changes[i] = Change(kind, call.batch[kept[i]].id, obj)
           /\ kind = "Modify" => call.batch[kept[i]].change = "Modify"
  <2> SUFFICES ASSUME NEW i \in 1 .. m
               PROVE  \E kind \in Kinds : \E obj :
                          /\ kept[i] \in DOMAIN call.batch
                          /\ changes[i] = Change(kind, call.batch[kept[i]].id, obj)
                          /\ kind = "Modify" => call.batch[kept[i]].change = "Modify"
    BY SMTT(30)
  <2>1. kept[i] \in DOMAIN call.batch /\ changes[i] = Inverted(n, kept[i])
    BY <1>2, <1>6, <1>8, <1>11
  <2>2. call.batch[kept[i]].change \in {"Add", "Modify", "Delete"}
    BY <1>10, <2>1 DEF AreChanges, IsChange, Kinds
  <2>3. \E kind \in Kinds : \E obj :
            /\ Inverted(n, kept[i]) = Change(kind, call.batch[kept[i]].id, obj)
            /\ kind = "Modify" => call.batch[kept[i]].change = "Modify"
    BY <1>2, <2>2 DEF Kinds
  <2>4. QED
    BY <2>1, <2>3, Zenon
<1> HIDE DEF Inverted, Kept, Before
<1>14. AreChanges(changes)
  <2>1. IsSequence(changes)
    BY <1>12, FunctionIsSequence
  <2>2. \A i \in 1 .. m : IsChange(changes[i])
    BY <1>13, ChangeIs
  <2>3. QED
    BY <1>12, <2>1, <2>2 DEF AreChanges
<1>15. ASSUME ~ stale PROVE Modifies(changes, o)
  <2> SUFFICES ASSUME NEW i \in 1 .. m, changes[i].change = "Modify"
               PROVE  changes[i].id \in disturbed \/ Alive(changes[i].id, o)
    BY <1>12 DEF Modifies
  <2>1. PICK l \in DOMAIN call.batch :
            call.batch[l].change = "Modify" /\ changes[i].id = call.batch[l].id
    BY <1>13, ChangeIs
  <2>2. \A k \in call.at[l] + 1 .. o : MessageAt(k).id # call.batch[l].id
    BY <1>2, <1>8, <1>10, <1>15, <2>1
  <2>3. PICK x : x = call.batch[l].id
    OBVIOUS
  <2>4. x \in disturbed \/ Alive(x, o)
    BY <1>2, <1>4, <2>1, <2>2, <2>3, UndoneAlive
  <2>5. QED
    BY <2>1, <2>3, <2>4
<1>16. QED
  BY <1>1, <1>9, <1>14, <1>15, Begun

\* A request begins.
LEMMA RequestStep ==
    ASSUME RequestInv, NEW c \in Client, Request(c)
    PROVE  RequestInv'
<1>1. Ready(c)
  BY DEF Request
<1>2. CASE \/ \E ids \in Selections : CreateWalls(c, ids)
           \/ \E x \in Sheets : CreateSheet(c, x)
           \/ \E v \in Viewports, x \in Sheets : CreateViewport(c, v, x)
  BY <1>1, <1>2, CreateStep
<1>3. ASSUME NEW o \in OffsetsOf(c), NEW ids \in Selections,
             \/ DeleteObjects(c, ids, o)
             \/ \E delta \in Delta : MoveObjects(c, ids, delta, o)
      PROVE  RequestInv'
  BY <1>1, <1>3, DeleteStep, MoveStep
<1>4. ASSUME NEW o \in OffsetsOf(c), NEW x, NEW y, NEW guess, JoinObjectsAtPoint(c, x, y, guess, o)
      PROVE  RequestInv'
  BY <1>1, <1>4, JoinStep
<1>5. ASSUME NEW o \in OffsetsOf(c), UndoLatest(c, o) PROVE RequestInv'
  BY <1>1, <1>5, UndoStep
<1>6. QED
  BY <1>2, <1>3, <1>4, <1>5 DEF Request

-----------------------------------------------------------------------------
(* The submit service *)

\* A step of submit before it sends leaves the log as it is, and does not
\* come from a request that is sending.
LEMMA BeforeSending ==
    ASSUME RequestInv, NEW c \in Client, req[c].pc # "sending",
           NEW after, req' = [req EXCEPT ![c] = after],
           log' = log, stored' \in Nat, disturbed' = disturbed,
           CallOK(after), Grounded(after), Overtaken(after)
    PROVE  RequestInv'
<1>1. LogOK /\ LogOK'
  BY SameLog DEF RequestInv
<1>2. CallOK(after)' /\ Grounded(after)' /\ Overtaken(after)'
  BY <1>1, CallKept
<1>3. Followed'
  BY FollowedKept
<1>4. QED
  BY <1>1, <1>2, <1>3, OneCall

\* What refers to the changed objects is found.
LEMMA FindStep ==
    ASSUME RequestInv, NEW c \in Client, GetAllDependencies(c)
    PROVE  RequestInv'
<1>1. PICK call \in Range(req) : call = req[c]
  BY DEF RequestInv, Range
<1>2. CallOK(call) /\ Grounded(call) /\ stored \in Nat
  BY DEF RequestInv, LogOK
<1>3. PICK refs, late :
          /\ call.pc = "changed"
          /\ req' = [req EXCEPT ![c].pc = "found", ![c].refs = refs, ![c].stale = @ \/ late]
          /\ log' = log /\ disturbed' = disturbed
  BY <1>1, Zenon DEF GetAllDependencies
<1>4. stored' \in Nat
  BY <1>2 DEF GetAllDependencies, Skips, Reads
<1>5. PICK after : after = [call EXCEPT !.pc = "found", !.refs = refs, !.stale = @ \/ late]
  OBVIOUS
<1>6. req' = [req EXCEPT ![c] = after]
  BY <1>1, <1>3, <1>5
<1>7. /\ DOMAIN after = DOMAIN call /\ after.pc = "found"
      /\ after.offset = call.offset /\ after.changes = call.changes
      /\ after.batch = call.batch /\ after.unsent = call.unsent /\ after.at = call.at
      /\ after.answer = call.answer /\ after.stale = (call.stale \/ late)
  BY <1>2, <1>5 DEF CallOK, CallFields
<1>8. CallOK(after)
  BY <1>2, <1>3, <1>7 DEF CallOK, IsSent
<1>9. Grounded(after) /\ Overtaken(after)
  BY <1>2, <1>3, <1>7 DEF Grounded, Overtaken
<1>10. QED
  BY <1>1, <1>3, <1>4, <1>6, <1>8, <1>9, BeforeSending

\* update_objects keeps what kind of change it is, of which object.
LEMMA UpdatedKeeps ==
    ASSUME NEW changes, AreChanges(changes), NEW refs
    PROVE  /\ AreChanges(UpdateObjects(changes, refs))
           /\ DOMAIN UpdateObjects(changes, refs) = DOMAIN changes
           /\ changes # << >> => UpdateObjects(changes, refs) # << >>
           /\ \A n \in DOMAIN changes :
                 /\ UpdateObjects(changes, refs)[n].change = changes[n].change
                 /\ UpdateObjects(changes, refs)[n].id = changes[n].id
<1>1. PICK updated, batch :
          /\ batch = UpdateObjects(changes, refs)
          /\ batch = [n \in DOMAIN changes |->
                         [changes[n] EXCEPT !.obj = updated[changes[n].id]]]
  BY DEF UpdateObjects
<1>2. /\ Len(changes) \in Nat /\ DOMAIN changes = 1 .. Len(changes)
      /\ changes = << >> <=> Len(changes) = 0
  BY SequenceIs DEF AreChanges
<1>3. ASSUME NEW n \in DOMAIN changes
      PROVE  batch[n] = Change(changes[n].change, changes[n].id, updated[changes[n].id])
  <2>1. changes[n] = Change(changes[n].change, changes[n].id, changes[n].obj)
    BY DEF AreChanges, IsChange
  <2>2. batch[n] = [changes[n] EXCEPT !.obj = updated[changes[n].id]]
    BY <1>1
  <2>3. QED
    BY <2>1, <2>2 DEF Change
<1>4. \A n \in DOMAIN changes : /\ batch[n].change = changes[n].change
                                /\ batch[n].id = changes[n].id
                                /\ IsChange(batch[n])
  <2>1. \A n \in DOMAIN changes : changes[n].change \in Kinds
    BY DEF AreChanges, IsChange
  <2>2. QED
    BY <1>3, <2>1, ChangeIs
<1>5. DOMAIN batch = 1 .. Len(changes) /\ batch \in [1 .. Len(changes) -> Range(batch)]
  BY <1>1, <1>2 DEF Range
<1>6. IsSequence(batch) /\ (Len(changes) # 0 => batch # << >>)
  BY <1>2, <1>5, FunctionIsSequence
<1>7. AreChanges(batch)
  BY <1>2, <1>4, <1>5, <1>6 DEF AreChanges
<1>8. QED
  BY <1>1, <1>2, <1>4, <1>5, <1>6, <1>7

\* What is fetched: the objects wanted that are found, in any order.
IsFetched(fetched, wanted, o, n) ==
    \E order \in SetToSeqs({x \in wanted : GetObject(x, o, n) # None}) :
        fetched = [i \in DOMAIN order |-> GetObject(order[i], o, n)]

\* What is fetched was written before, and the objects that are modified once
\* more were there at the offset, unless the service was behind.
LEMMA FetchedIs ==
    ASSUME LogOK, NEW o \in -1 .. Newest, NEW n \in Nat, n <= Len(log), NEW wanted,
           NEW fetched, IsFetched(fetched, wanted, o, n)
    PROVE  /\ AreChanges(fetched)
           /\ wanted = {} => DOMAIN fetched = {}
           /\ n > o => Modifies(fetched, o)
           /\ \A x \in wanted : GetObject(x, o, n) # None =>
                 \E k \in DOMAIN fetched : fetched[k] = GetObject(x, o, n)
<1>1. o \in Int /\ o >= -1 /\ Len(log) \in Nat /\ DOMAIN log = 1 .. Len(log)
  BY LogIs
<1>2. PICK ids : ids = {x \in wanted : GetObject(x, o, n) # None}
  OBVIOUS
<1>3. PICK order \in SetToSeqs(ids) :
          fetched = [i \in DOMAIN order |-> GetObject(order[i], o, n)]
  BY <1>2, Zenon DEF IsFetched
<1>4. ASSUME NEW x \in ids
      PROVE  /\ IsChange(GetObject(x, o, n)) /\ GetObject(x, o, n).id = x
             /\ \E k \in 1 .. Len(log) : log[k].id = x
  <2>1. PICK k \in 0 .. Newest : MessageAt(k) = GetObject(x, o, n) /\ MessageAt(k).id = x
    BY <1>1, <1>4, <1>2, ObjectFound
  <2>2. IsChange(MessageAt(k)) /\ k + 1 \in DOMAIN log
    BY LogIs
  <2>3. log[k + 1].id = x
    BY <2>1 DEF MessageAt
  <2>4. QED
    BY <1>1, <2>1, <2>2, <2>3
<1>5. IsFiniteSet(ids)
  <2>1. PICK f : f = [k \in 1 .. Len(log) |-> log[k].id]
    OBVIOUS
  <2>2. PICK S : S = {log[k].id : k \in 1 .. Len(log)}
    OBVIOUS
  <2>3. f \in Surjection(1 .. Len(log), S)
    BY <2>1, <2>2 DEF Surjection
  <2>4. IsFiniteSet(1 .. Len(log))
    BY <1>1, FS_Interval
  <2>5. IsFiniteSet(S)
    BY <2>3, <2>4, FS_Surjection
  <2>6. ids \in SUBSET S
    BY <1>4, <2>2
  <2>7. QED
    BY <2>5, <2>6, FS_Subset
<1>6. PICK m : m = Cardinality(ids)
  OBVIOUS
<1>7. m \in Nat /\ order \in [1 .. m -> ids]
  BY <1>5, <1>6, <1>3, FS_CardinalityType DEF SetToSeqs
<1>8. /\ DOMAIN fetched = 1 .. m /\ fetched \in [1 .. m -> Range(fetched)]
      /\ \A i \in 1 .. m : order[i] \in ids /\ fetched[i] = GetObject(order[i], o, n)
  BY <1>7, <1>3 DEF Range
<1>9. AreChanges(fetched)
  <2>1. IsSequence(fetched)
    BY <1>7, <1>8, FunctionIsSequence
  <2>2. QED
    BY <1>4, <1>8, <2>1 DEF AreChanges
<1>10. wanted = {} => DOMAIN fetched = {}
  BY <1>8, <1>2
<1>11. ASSUME n > o PROVE Modifies(fetched, o)
  <2> SUFFICES ASSUME NEW i \in 1 .. m, fetched[i].change = "Modify"
               PROVE  Alive(fetched[i].id, o)
    BY <1>8 DEF Modifies
  <2>1. PICK x \in ids : x = order[i]
    BY <1>8
  <2>2. /\ fetched[i] = GetObject(x, o, n) /\ fetched[i].id = x
        /\ GetObject(x, o, n) # None /\ GetObject(x, o, n).change # "Delete"
    BY <1>4, <1>8, <1>2, <2>1
  <2>3. Alive(x, o)
    BY <1>11, <2>2, FoundAlive
  <2>4. QED
    BY <2>2, <2>3
<1>12. ASSUME NEW x \in wanted, GetObject(x, o, n) # None
       PROVE  \E k \in DOMAIN fetched : fetched[k] = GetObject(x, o, n)
  <2>1. Range(order) = ids /\ x \in ids
    BY <1>2, <1>3, <1>5, <1>12, OrderHasAll
  <2>2. PICK k \in DOMAIN order : order[k] = x
    BY <2>1, SMTT(30) DEF Range
  <2>3. QED
    BY <1>3, <2>2
<1>13. QED
  BY <1>9, <1>10, <1>11, <1>12

\* The objects that follow are added, and the batch is updated.
LEMMA UpdateStep ==
    ASSUME RequestInv, NEW c \in Client, UpdateChanges(c)
    PROVE  RequestInv'
<1>1. PICK call \in Range(req) : call = req[c]
  BY DEF RequestInv, Range
<1>2. CallOK(call) /\ Grounded(call) /\ LogOK /\ Newest \in Int
  BY LogIs, SMTT(30) DEF RequestInv
<1>3. PICK n \in stored .. Len(log) :
          /\ call.pc = "found"
          /\ \E order \in SetToSeqs({x \in GetObjIdsToFetch(req[c]) :
                                         GetObject(x, req[c].offset, n) # None}) :
                \E batch :
                   /\ batch = UpdateObjects(req[c].changes \o
                                 [i \in DOMAIN order |-> GetObject(order[i], req[c].offset, n)],
                                 req[c].refs)
                   /\ req' = [req EXCEPT
                         ![c].pc = "sending", ![c].changes = << >>, ![c].refs = << >>,
                         ![c].batch = batch, ![c].unsent = DOMAIN batch,
                         ![c].at = [i \in DOMAIN batch |-> -1],
                         ![c].stale = @ \/ (GetObjIdsToFetch(req[c]) # {} /\ n <= req[c].offset)]
          /\ stored' = n
          /\ log' = log /\ disturbed' = disturbed
  BY <1>1, ZenonT(30) DEF UpdateChanges
<1>4. n \in Nat /\ n <= Len(log) /\ stored' \in Nat
  BY <1>3, ReadIs, Zenon
<1>5. PICK o, wanted : o = call.offset /\ wanted = GetObjIdsToFetch(call)
  OBVIOUS
<1>6. o \in -1 .. Newest /\ o \in Int
  BY <1>2, <1>5 DEF CallOK
<1>7. PICK ids : ids = {x \in wanted : GetObject(x, o, n) # None}
  OBVIOUS
<1>8. ids = {x \in GetObjIdsToFetch(req[c]) : GetObject(x, req[c].offset, n) # None}
  BY <1>1, <1>5, <1>7
<1>9. PICK order \in SetToSeqs(ids) :
          \E batch :
              /\ batch = UpdateObjects(req[c].changes \o
                            [i \in DOMAIN order |-> GetObject(order[i], req[c].offset, n)],
                            req[c].refs)
              /\ req' = [req EXCEPT
                    ![c].pc = "sending", ![c].changes = << >>, ![c].refs = << >>,
                    ![c].batch = batch, ![c].unsent = DOMAIN batch,
                    ![c].at = [i \in DOMAIN batch |-> -1],
                    ![c].stale = @ \/ (GetObjIdsToFetch(req[c]) # {} /\ n <= req[c].offset)]
  BY <1>3, <1>8, Zenon
<1>10. PICK fetched : fetched = [i \in DOMAIN order |-> GetObject(order[i], o, n)]
  OBVIOUS
<1>11. /\ AreChanges(fetched)
       /\ wanted = {} => DOMAIN fetched = {}
       /\ n > o => Modifies(fetched, o)
  <2>1. IsFetched(fetched, wanted, o, n)
    BY <1>7, <1>9, <1>10, Zenon DEF IsFetched
  <2>2. QED
    BY <1>2, <1>4, <1>6, <2>1, FetchedIs
<1>12. PICK late : late = (wanted # {} /\ n <= o)
  BY SMTT(30)
<1>13. PICK batch :
          /\ batch = UpdateObjects(call.changes \o fetched, call.refs)
          /\ req' = [req EXCEPT
                ![c].pc = "sending", ![c].changes = << >>, ![c].refs = << >>,
                ![c].batch = batch, ![c].unsent = DOMAIN batch,
                ![c].at = [i \in DOMAIN batch |-> -1], ![c].stale = @ \/ late]
  BY <1>1, <1>5, <1>9, <1>10, <1>12, Zenon
<1>14. PICK all : all = call.changes \o fetched
  OBVIOUS
<1>15. /\ IsSequence(all) /\ all # << >>
       /\ \A i \in DOMAIN all : \/ \E j \in DOMAIN call.changes : all[i] = call.changes[j]
                                \/ \E j \in DOMAIN fetched : all[i] = fetched[j]
  <2>1. IsSequence(call.changes) /\ IsSequence(fetched) /\ call.changes # << >>
    BY <1>2, <1>3, <1>11, Zenon DEF CallOK, AreChanges
  <2>2. PICK own : own = call.changes /\ all = own \o fetched
    BY <1>14
  <2>3. IsSequence(own) /\ IsSequence(fetched) /\ own # << >> /\ all = own \o fetched
    BY <2>1, <2>2
  <2>4. IsSequence(all) /\ all # << >> /\ Gathers(all, own, fetched)
    BY <2>3, Concatenated
  <2>5. \A i \in DOMAIN all : \/ \E j \in DOMAIN own : all[i] = own[j]
                             \/ \E j \in DOMAIN fetched : all[i] = fetched[j]
    BY <2>4 DEF Gathers
  <2>6. QED
    BY <2>2, <2>4, <2>5
<1>16. AreChanges(all)
  BY <1>2, <1>11, <1>15 DEF CallOK, AreChanges
<1>17. /\ AreChanges(batch) /\ DOMAIN batch = DOMAIN all /\ batch # << >>
       /\ \A i \in DOMAIN all : batch[i].change = all[i].change /\ batch[i].id = all[i].id
  <2>1. PICK refs : batch = UpdateObjects(all, refs)
    BY <1>13, <1>14
  <2>2. QED
    BY <1>15, <1>16, <2>1, UpdatedKeeps
<1>18. ASSUME ~ (call.stale \/ late) PROVE Modifies(batch, o)
  <2>1. Modifies(call.changes, o)
    BY <1>2, <1>3, <1>5, <1>18, Zenon DEF Grounded
  <2>2. n <= o \/ n > o
    BY <1>4, <1>6
  <2>3. Modifies(fetched, o)
    BY <1>11, <1>12, <1>18, <2>2 DEF Modifies
  <2>4. QED
    BY <1>15, <1>17, <2>1, <2>3 DEF Modifies
<1>19. PICK after : after = [call EXCEPT
           !.pc = "sending", !.changes = << >>, !.refs = << >>, !.batch = batch,
           !.unsent = DOMAIN batch, !.at = [i \in DOMAIN batch |-> -1], !.stale = @ \/ late]
  OBVIOUS
<1>20. req' = [req EXCEPT ![c] = after]
  BY <1>1, <1>13, <1>19
<1>21. /\ DOMAIN after = CallFields /\ after.pc = "sending"
       /\ after.offset = o /\ after.changes = << >>
       /\ after.batch = batch /\ after.unsent = DOMAIN batch
       /\ after.at = [i \in DOMAIN batch |-> -1]
       /\ after.answer = call.answer /\ after.stale = (call.stale \/ late)
  BY <1>2, <1>5, <1>19 DEF CallOK, CallFields
<1>22. IsSequence(after.at)
  <2>1. Len(batch) \in Nat /\ DOMAIN batch = 1 .. Len(batch)
    BY <1>17, SequenceIs DEF AreChanges
  <2>2. after.at \in [1 .. Len(batch) -> {-1}]
    BY <1>21, <2>1
  <2>3. QED
    BY <2>1, <2>2, FunctionIsSequence
<1>23. AreChanges(<< >>) /\ DOMAIN << >> = {}
  <2>1. IsSequence(<< >>)
    BY EmptySeq DEF IsSequence
  <2>2. DOMAIN << >> = {}
    OBVIOUS
  <2>3. QED
    BY <2>1, <2>2 DEF AreChanges
<1>24. CallOK(after)
  BY <1>2, <1>6, <1>17, <1>21, <1>22, <1>23 DEF CallOK
<1>25. Grounded(after) /\ Overtaken(after)
  BY <1>18, <1>21, <1>23 DEF Grounded, Overtaken, Modifies
<1>26. QED
  BY <1>1, <1>3, <1>4, <1>20, <1>24, <1>25, BeforeSending, Zenon

\* A message of a batch is delivered.
LEMMA DeliverStep ==
    ASSUME RequestInv, NEW c \in Client, req[c].pc = "sending",
           NEW i \in req[c].unsent, Deliver(c, i)
    PROVE  RequestInv'
<1>1. PICK call \in Range(req) : call = req[c]
  BY DEF RequestInv, Range
<1>2. CallOK(call) /\ Grounded(call) /\ Overtaken(call) /\ LogOK /\ Followed
  BY DEF RequestInv
<1>3. i \in DOMAIN call.at /\ call.at[i] = -1 /\ i \in DOMAIN call.batch
  BY <1>1, <1>2 DEF CallOK
<1>4. PICK m, k : m = call.batch[i] /\ k = Len(log)
  OBVIOUS
<1>5. PICK after : after = [call EXCEPT !.unsent = @ \ {i}, !.at[i] = k]
  OBVIOUS
<1>6. /\ log' = Append(log, m) /\ stored' = stored /\ disturbed' = disturbed
      /\ req' = [req EXCEPT ![c] = after]
  BY <1>1, <1>4, <1>5 DEF Deliver
<1>7. /\ DOMAIN after = CallFields /\ after.pc = "sending"
      /\ after.offset = call.offset /\ after.changes = call.changes
      /\ after.batch = call.batch /\ after.unsent = call.unsent \ {i}
      /\ after.at = [call.at EXCEPT ![i] = k]
      /\ after.answer = call.answer /\ after.stale = call.stale
  BY <1>1, <1>2, <1>5 DEF CallOK, CallFields
<1>8. /\ \A l \in 0 .. Newest : MessageAt(l)' = MessageAt(l)
      /\ Newest \in Int /\ Newest' \in Int /\ Newest <= Newest'
  BY <1>2, <1>6, LogGrows
<1>9. /\ Len(log) \in Nat /\ k \in Nat /\ Newest = k - 1 /\ Newest' = k
      /\ MessageAt(k)' = m
  <2>1. Len(log) \in Nat /\ Newest = Len(log) - 1
    BY <1>2, LogIs
  <2>2. Len(log') = Len(log) + 1 /\ log'[Len(log) + 1] = m
    BY <1>2, <1>6, AppendedTo DEF LogOK, AreChanges
  <2>3. Newest' = k
    BY <1>4, <2>1, <2>2 DEF Newest
  <2>4. MessageAt(k)' = m
    BY <1>4, <2>2 DEF MessageAt
  <2>5. QED
    BY <1>4, <2>1, <2>3, <2>4
<1>10. LogOK'
  <2>1. IsChange(m)
    BY <1>2, <1>3, <1>4 DEF CallOK, AreChanges
  <2>2. /\ IsSequence(log') /\ Len(log') = Len(log) + 1
        /\ \A l \in 1 .. Len(log) : log'[l] = log[l]
        /\ log'[Len(log) + 1] = m
    BY <1>2, <1>6, AppendedTo DEF LogOK, AreChanges
  <2>3. DOMAIN log' = 1 .. Len(log) + 1
    BY <2>2, SequenceIs
  <2>4. DOMAIN log = 1 .. Len(log) /\ Len(log) \in Nat
    BY <1>2, LogIs
  <2>5. ASSUME NEW l \in DOMAIN log' PROVE IsChange(log'[l])
    <3>1. CASE l \in 1 .. Len(log)
      BY <1>2, <2>2, <2>4, <3>1 DEF LogOK, AreChanges
    <3>2. CASE l = Len(log) + 1
      BY <2>1, <2>2, <3>2
    <3>3. QED
      BY <2>3, <2>4, <3>1, <3>2
  <2>6. QED
    BY <1>2, <1>6, <2>2, <2>5 DEF LogOK, AreChanges
<1>11. CallOK(call)' /\ Grounded(call)'
  BY <1>2, <1>6, CallKept
<1>12. Grounded(after)' /\ Overtaken(after)'
  BY <1>1, <1>7, <1>11 DEF Grounded, Overtaken
<1>13. DOMAIN after.at = DOMAIN call.at /\ after.at[i] = k
       /\ \A n \in DOMAIN call.at : n # i => after.at[n] = call.at[n]
  BY <1>3, <1>7
<1>14. IsSequence(after.at)
  <2>1. Len(call.at) \in Nat /\ DOMAIN call.at = 1 .. Len(call.at)
    BY <1>2, SequenceIs DEF CallOK
  <2>2. after.at \in [1 .. Len(call.at) -> Range(after.at)]
    BY <1>7, <1>13, <2>1 DEF Range
  <2>3. QED
    BY <2>1, <2>2, FunctionIsSequence
<1>15. IsSent(after, i)'
  <2>1. call.offset \in -1 .. Newest
    BY <1>2 DEF CallOK
  <2>2. k \in call.offset + 1 .. Newest'
    BY <1>9, <2>1
  <2>3. QED
    BY <1>4, <1>7, <1>9, <1>13, <2>2 DEF IsSent
<1>16. \A n \in DOMAIN after.at : after.at[n] = -1 \/ IsSent(after, n)'
  <2> SUFFICES ASSUME NEW n \in DOMAIN call.at, n # i
               PROVE  after.at[n] = -1 \/ IsSent(after, n)'
    BY <1>13, <1>15
  <2>1. call.at[n] = -1 \/ IsSent(call, n)'
    BY <1>11 DEF CallOK
  <2>2. after.at[n] = call.at[n]
    BY <1>13
  <2>3. QED
    BY <1>7, <2>1, <2>2 DEF IsSent
<1>17. CallOK(after)'
  <2>1. /\ after.offset \in -1 .. Newest' /\ after.answer \in -1 .. Newest'
        /\ AreChanges(after.changes) /\ AreChanges(after.batch)
        /\ DOMAIN after.at = DOMAIN after.batch /\ after.batch # << >>
    BY <1>1, <1>7, <1>11, <1>13 DEF CallOK
  <2>2. \A n \in after.unsent : n \in DOMAIN after.at /\ after.at[n] = -1
    BY <1>2, <1>7, <1>13 DEF CallOK
  <2>3. QED
    BY <1>7, <1>14, <1>16, <2>1, <2>2 DEF CallOK
<1>18. after \in Range(req') /\ \A other \in Range(req) : other = call \/ other \in Range(req')
  BY <1>1, <1>6 DEF RequestInv, Range
<1>19. ASSUME NEW l \in 0 .. Newest, Sending(l) PROVE Sending(l)'
  <2>1. PICK other \in Range(req) :
            other.pc = "sending" /\ \E n \in DOMAIN other.at : other.at[n] = l
    BY <1>19 DEF Sending
  <2>2. CASE other \in Range(req')
    BY <2>1, <2>2 DEF Sending
  <2>3. CASE other = call
    <3>1. PICK n \in DOMAIN call.at : call.at[n] = l
      BY <2>1, <2>3
    <3>2. n # i
      BY <1>3, <1>8, <3>1
    <3>3. n \in DOMAIN after.at /\ after.at[n] = l
      BY <1>13, <3>1, <3>2
    <3>4. QED
      BY <1>7, <1>18, <3>3 DEF Sending
  <2>4. QED
    BY <1>18, <2>2, <2>3
<1>20. Sending(k)'
  BY <1>3, <1>7, <1>13, <1>18 DEF Sending
<1>21. Followed'
  <2>1. PICK last : last = Newest
    OBVIOUS
  <2>2. ASSUME NEW l \in 0 .. last + 1, MessageAt(l)'.change = "Modify"
        PROVE  \/ MessageAt(l)'.id \in disturbed'
               \/ Alive(MessageAt(l).id, l - 1)'
               \/ Sending(l)'
    <3>1. CASE l = k
      BY <1>20, <3>1
    <3>2. CASE l # k
      <4>1. l \in 0 .. Newest /\ l - 1 \in Int /\ l - 1 <= Newest
        BY <1>8, <1>9, <2>1, <3>2
      <4>2. PICK x : x = MessageAt(l).id
        OBVIOUS
      <4>3. MessageAt(l)' = MessageAt(l)
        BY <1>8, <4>1
      <4>4. x \in disturbed \/ Alive(x, l - 1) \/ Sending(l)
        BY <1>2, <2>2, <4>1, <4>2, <4>3 DEF Followed
      <4>5. Alive(x, l - 1) => Alive(x, l - 1)'
        <5>1. PICK o : o = l - 1
          OBVIOUS
        <5>2. Alive(x, o) => Alive(x, o)'
          BY <1>8, <4>1, <5>1, AliveKept
        <5>3. QED
          BY <5>1, <5>2 DEF Alive
      <4>6. Sending(l) => Sending(l)'
        BY <1>19, <4>1
      <4>7. MessageAt(l)'.id = x
        BY <4>2, <4>3
      <4>8. Alive(x, l - 1)' => Alive(MessageAt(l).id, l - 1)'
        BY <4>7 DEF Alive
      <4>9. QED
        BY <1>6, <4>4, <4>5, <4>6, <4>7, <4>8
    <3>3. QED
      BY <3>1, <3>2
  <2>3. Newest' = last + 1
    BY <1>8, <1>9, <2>1
  <2>4. QED
    BY <2>2, <2>3 DEF Followed
<1>22. QED
  BY <1>6, <1>10, <1>12, <1>17, <1>21, OneCall

\* The numbers of the messages that are not sent yet.
LEMMA UnsentAre ==
    ASSUME RequestInv, NEW c \in Client, req[c].unsent # {}
    PROVE  /\ Min(req[c].unsent) \in req[c].unsent
           /\ Cardinality(req[c].unsent) > 1 =>
                  Min(req[c].unsent \ {Min(req[c].unsent)}) \in req[c].unsent
<1>1. PICK unsent : unsent = req[c].unsent
  OBVIOUS
<1>2. unsent \in SUBSET Nat
  <2>1. CallOK(req[c])
    BY DEF RequestInv, Range
  <2>2. unsent \subseteq DOMAIN req[c].at /\ DOMAIN req[c].at = 1 .. Len(req[c].at)
    BY <1>1, <2>1, SequenceIs DEF CallOK
  <2>3. Len(req[c].at) \in Nat
    BY <2>1, SequenceIs DEF CallOK
  <2>4. QED
    BY <2>2, <2>3
<1>3. PICK first \in unsent : first = Min(unsent)
  BY <1>1, <1>2, MinIsFirst
<1>4. ASSUME Cardinality(unsent) > 1 PROVE Min(unsent \ {first}) \in unsent
  <2>1. unsent # {first}
    <3>1. Cardinality({first}) = 1
      BY FS_Singleton
    <3>2. QED
      BY <1>4, <3>1
  <2>2. PICK later : later = unsent \ {first}
    OBVIOUS
  <2>3. later \in SUBSET Nat /\ later # {}
    BY <1>2, <1>3, <2>1, <2>2
  <2>4. Min(later) \in later
    BY <2>3, MinIsFirst
  <2>5. QED
    BY <2>2, <2>4
<1>5. QED
  BY <1>1, <1>3, <1>4

\* A message is not delivered.
LEMMA UndeliveredStep ==
    ASSUME RequestInv, NEW c \in Client, Undelivered(c)
    PROVE  RequestInv'
<1>1. PICK call \in Range(req) : call = req[c]
  BY DEF RequestInv, Range
<1>2. CallOK(call) /\ Grounded(call) /\ Overtaken(call) /\ LogOK /\ stored \in Nat
  BY DEF RequestInv, LogOK
<1>3. PICK after : after = [call EXCEPT !.unsent = @ \ {Min(@)}]
  OBVIOUS
<1>4. /\ log' = log /\ stored' = stored /\ disturbed' = disturbed
      /\ req' = [req EXCEPT ![c] = after] /\ call.pc = "sending"
  BY <1>1, <1>3 DEF Undelivered
<1>5. /\ DOMAIN after = DOMAIN call /\ after.pc = call.pc
      /\ after.offset = call.offset /\ after.changes = call.changes
      /\ after.batch = call.batch /\ after.unsent \subseteq call.unsent /\ after.at = call.at
      /\ after.answer = call.answer /\ after.stale = call.stale
  BY <1>2, <1>3 DEF CallOK, CallFields
<1>6. CallOK(after) /\ Grounded(after) /\ Overtaken(after)
  BY <1>2, <1>5 DEF CallOK, IsSent, Grounded, Overtaken
<1>7. CallOK(after)' /\ Grounded(after)' /\ Overtaken(after)'
  BY <1>2, <1>4, <1>6, CallKept
<1>8. Followed'
  <2>1. after.pc = "sending" /\ after.at = req[c].at /\ disturbed \subseteq disturbed'
    BY <1>1, <1>4, <1>5
  <2>2. QED
    BY <1>4, <2>1, FollowedKept
<1>9. LogOK'
  BY <1>2, <1>4, SameLog
<1>10. QED
  BY <1>4, <1>7, <1>8, <1>9, OneCall

-----------------------------------------------------------------------------
(* The end of a request *)

\* What an undisturbed request modified was there up to its own message.
LEMMA UndisturbedAlive ==
    ASSUME RequestInv, NEW call \in Range(req), call.pc = "sending", ~ IsDisturbed(call),
           NEW n \in DOMAIN call.batch, call.batch[n].change = "Modify",
           call.batch[n].id \notin disturbed,
           NEW p \in Int, call.offset <= p, p < call.at[n]
    PROVE  Alive(call.batch[n].id, p)
<1>1. CallOK(call) /\ Grounded(call) /\ LogOK /\ Newest \in Int
  BY LogIs DEF RequestInv
<1>2. PICK x, k, o : x = call.batch[n].id /\ k = call.at[n] /\ o = call.offset
  OBVIOUS
<1>3. ~ call.stale /\ k # -1 /\ \A j \in o + 1 .. k - 1 : MessageAt(j).id # x
  BY <1>2 DEF IsDisturbed
<1>4. o \in -1 .. Newest /\ k \in 0 .. Newest
  <2>1. o \in -1 .. Newest /\ k \in o + 1 .. Newest
    BY <1>1, <1>2, <1>3 DEF CallOK, IsSent
  <2>2. QED
    BY <1>1, <2>1
<1>5. Alive(x, o)
  BY <1>1, <1>2, <1>3 DEF Grounded, Modifies
<1>6. p \in -1 .. Newest /\ o <= p /\ \A j \in o + 1 .. p : j \in o + 1 .. k - 1
  BY <1>1, <1>2, <1>4
<1>7. Alive(x, p)
  BY <1>1, <1>3, <1>4, <1>5, <1>6, StaysAlive
<1>8. QED
  BY <1>2, <1>7

\* A request ends: its batch is in the log, or marked as disturbed.
LEMMA FinishStep ==
    ASSUME RequestInv, NEW c \in Client, NEW after, Finish(c, after),
           after.pc # "sending", Grounded(after), CallOK(after), Overtaken(after)'
    PROVE  RequestInv'
<1>1. PICK call \in Range(req) : call = req[c]
  BY DEF RequestInv, Range
<1>2. CallOK(call) /\ LogOK /\ stored \in Nat /\ Newest \in Int
  BY LogIs DEF RequestInv, LogOK
<1>3. /\ call.pc = "sending" /\ log' = log /\ stored' = stored
      /\ req' = [req EXCEPT ![c] = after]
      /\ disturbed \subseteq disturbed'
      /\ IsDisturbed(call) => IdsOf(call.batch) \subseteq disturbed'
  BY <1>1 DEF Finish
<1>4. LogOK'
  BY <1>2, <1>3, SameLog
<1>5. CallOK(after)'
  BY <1>3 DEF CallOK, IsSent, MessageAt, Newest
<1>6. Grounded(after)'
  BY <1>3 DEF Grounded, Modifies, Alive, MessageAt
<1>7. ASSUME NEW k \in 0 .. Newest, NEW n \in DOMAIN call.at,
             call.at[n] = k, MessageAt(k).change = "Modify"
      PROVE  MessageAt(k).id \in disturbed' \/ Alive(MessageAt(k).id, k - 1)
  <2>1. /\ n \in DOMAIN call.batch /\ MessageAt(k) = call.batch[n]
        /\ call.offset \in Int /\ call.offset <= k - 1 /\ k - 1 \in Int /\ k - 1 < call.at[n]
    <3>1. n \in DOMAIN call.batch /\ call.offset \in -1 .. Newest
      BY <1>2 DEF CallOK
    <3>2. IsSent(call, n)
      BY <1>2, <1>7 DEF CallOK
    <3>3. k \in call.offset + 1 .. Newest /\ MessageAt(k) = call.batch[n]
      BY <1>7, <3>2 DEF IsSent
    <3>4. QED
      BY <1>2, <1>7, <3>1, <3>3
  <2>2. CASE IsDisturbed(call)
    BY <1>3, <2>1, <2>2 DEF IdsOf
  <2>3. CASE ~ IsDisturbed(call) /\ MessageAt(k).id \notin disturbed
    <3>1. PICK p : p = k - 1
      OBVIOUS
    <3>2. Alive(call.batch[n].id, p)
      BY <1>3, <1>7, <2>1, <2>3, <3>1, UndisturbedAlive
    <3>3. QED
      BY <2>1, <3>1, <3>2
  <2>4. QED
    BY <1>3, <2>2, <2>3
<1>8. Followed'
  BY <1>1, <1>3, <1>7, FollowedKept
<1>9. QED
  BY <1>3, <1>4, <1>5, <1>6, <1>8, OneCall

\* The request is answered.
LEMMA AnswerStep ==
    ASSUME RequestInv, NEW c \in Client, Answer(c)
    PROVE  RequestInv'
<1>1. PICK call \in Range(req) : call = req[c]
  BY DEF RequestInv, Range
<1>2. CallOK(call) /\ LogOK /\ Newest \in Int /\ Newest >= -1
  BY LogIs DEF RequestInv
<1>3. PICK l : l = Len(call.at)
  OBVIOUS
<1>4. PICK answer : answer = call.at[l]
  OBVIOUS
<1>5. PICK after : after = Answered(call, answer)
  OBVIOUS
<1>6. /\ \A n \in DOMAIN call.at : call.at[n] # -1
      /\ call.pc = "sending" /\ Finish(c, after)
  BY <1>1, <1>3, <1>4, <1>5 DEF Answer, Finish, Last
<1>7. /\ DOMAIN after = CallFields /\ after.pc = "answered" /\ after.offset = -1
      /\ after.changes = << >> /\ after.batch = call.batch /\ after.at = call.at
      /\ after.unsent = {} /\ after.answer = answer
  BY <1>5 DEF Answered, Idle, CallFields
<1>8. \A n \in DOMAIN call.at : IsSent(call, n) /\ call.offset \in -1 .. Newest
  BY <1>2, <1>6 DEF CallOK
<1>9. \A n \in DOMAIN call.at :
          /\ call.at[n] \in 0 .. Newest /\ call.offset < call.at[n] /\ call.offset \in Int
          /\ MessageAt(call.at[n]) = call.batch[n]
  <2> SUFFICES ASSUME NEW n \in DOMAIN call.at
               PROVE  /\ call.at[n] \in 0 .. Newest
                      /\ call.offset < call.at[n] /\ call.offset \in Int
                      /\ MessageAt(call.at[n]) = call.batch[n]
    OBVIOUS
  <2>1. PICK k, o : k = call.at[n] /\ o = call.offset
    OBVIOUS
  <2>2. k \in o + 1 .. Newest /\ o \in -1 .. Newest /\ MessageAt(k) = call.batch[n]
    BY <1>8, <2>1 DEF IsSent
  <2>3. k \in 0 .. Newest /\ o < k /\ o \in Int
    BY <1>2, <2>2
  <2>4. QED
    BY <2>1, <2>2, <2>3
<1>10. l \in DOMAIN call.at
  <2>1. /\ Len(call.at) \in Nat /\ DOMAIN call.at = 1 .. Len(call.at)
        /\ Len(call.batch) \in Nat /\ DOMAIN call.batch = 1 .. Len(call.batch)
        /\ Len(call.batch) # 0
    BY <1>2, <1>6, SequenceIs DEF CallOK, AreChanges
  <2>2. DOMAIN call.at = DOMAIN call.batch
    BY <1>2 DEF CallOK
  <2>3. 1 \in DOMAIN call.at
    BY <2>1, <2>2
  <2>4. QED
    BY <1>3, <2>1, <2>3
<1>11. answer \in 0 .. Newest /\ call.offset < answer
  BY <1>4, <1>9, <1>10
<1>12. AreChanges(<< >>)
  <2>1. IsSequence(<< >>)
    BY EmptySeq DEF IsSequence
  <2>2. DOMAIN << >> = {}
    OBVIOUS
  <2>3. QED
    BY <2>1, <2>2 DEF AreChanges
<1>13. CallOK(after)
  <2>1. \A n \in DOMAIN after.at : IsSent(after, n)
    BY <1>2, <1>7, <1>9 DEF IsSent
  <2>2. after.offset \in -1 .. Newest /\ after.answer \in -1 .. Newest
    BY <1>2, <1>7, <1>11
  <2>3. AreChanges(call.batch) /\ IsSequence(call.at) /\ DOMAIN call.at = DOMAIN call.batch
        /\ call.batch # << >>
    BY <1>2, <1>6 DEF CallOK
  <2>4. after.answer = after.at[Len(after.at)]
    BY <1>3, <1>4, <1>7
  <2>5. \A n \in DOMAIN after.at : after.at[n] # -1
    BY <1>6, <1>7
  <2>6. QED
    BY <1>7, <1>12, <2>1, <2>2, <2>3, <2>4, <2>5 DEF CallOK
<1>14. Grounded(after)
  BY <1>7 DEF Grounded
<1>15. /\ log' = log /\ disturbed \subseteq disturbed'
       /\ IsDisturbed(call) => IdsOf(call.batch) \subseteq disturbed'
  BY <1>1, <1>6 DEF Finish
<1>16. Overtaken(after)'
  <2> SUFFICES ASSUME NEW n \in DOMAIN call.batch, call.batch[n].change = "Modify",
                      call.at[n] > answer
               PROVE  call.batch[n].id \in disturbed' \/ Alive(call.batch[n].id, answer)'
    BY <1>7 DEF Overtaken, Alive
  <2>1. CASE IsDisturbed(call)
    BY <1>15, <2>1 DEF IdsOf
  <2>2. CASE ~ IsDisturbed(call) /\ call.batch[n].id \notin disturbed
    <3>1. n \in DOMAIN call.at
      BY <1>2 DEF CallOK
    <3>2. answer \in Int /\ call.offset <= answer /\ answer < call.at[n]
      BY <1>9, <1>11, <3>1
    <3>3. Alive(call.batch[n].id, answer)
      BY <1>6, <2>2, <3>2, UndisturbedAlive
    <3>4. QED
      BY <1>15, <3>3 DEF Alive, MessageAt
  <2>3. QED
    BY <1>15, <2>1, <2>2
<1>17. QED
  BY <1>6, <1>7, <1>13, <1>14, <1>16, FinishStep

\* A delivery failed, and the client gets an error.
LEMMA PanicStep ==
    ASSUME RequestInv, NEW c \in Client, Panic(c)
    PROVE  RequestInv'
<1>1. PICK after : after = [Idle EXCEPT !.answer = req[c].answer]
  OBVIOUS
<1>2. Finish(c, after) /\ CallOK(req[c]) /\ Newest \in Int /\ Newest >= -1
  BY <1>1, LogIs DEF Panic, RequestInv, Range
<1>3. /\ DOMAIN after = CallFields /\ after.pc = "idle" /\ after.offset = -1
      /\ after.changes = << >> /\ after.batch = << >> /\ after.at = << >>
      /\ after.unsent = {} /\ after.answer = req[c].answer
  BY <1>1 DEF Idle, CallFields
<1>4. IsSequence(<< >>) /\ DOMAIN << >> = {}
  <2>1. IsSequence(<< >>)
    BY EmptySeq DEF IsSequence
  <2>2. DOMAIN << >> = {}
    OBVIOUS
  <2>3. QED
    BY <2>1, <2>2
<1>5. CallOK(after)
  BY <1>2, <1>3, <1>4 DEF CallOK, AreChanges
<1>6. Grounded(after) /\ Overtaken(after)'
  BY <1>3 DEF Grounded, Overtaken
<1>7. QED
  BY <1>2, <1>3, <1>5, <1>6, FinishStep

-----------------------------------------------------------------------------
(* The theorems *)

\* At first every object of the file is there, and no one has asked.
LEMMA RequestsInit == Init => RequestInv
<1> SUFFICES ASSUME Init PROVE RequestInv
  OBVIOUS
<1>1. DOMAIN Existing = 1 .. Len(Existing) /\ Len(Existing) \in Nat
  BY SubmitAssumption, LenProperties
<1>2. log = [n \in 1 .. Len(Existing) |-> NewWall(Existing[n])]
  BY <1>1 DEF Init
<1>3. \A n \in 1 .. Len(Existing) : IsChange(log[n]) /\ log[n].change = "Add"
  BY <1>2, ChangeIs DEF NewWall, Kinds
<1>4. IsSequence(log) /\ DOMAIN log = 1 .. Len(Existing)
  <2>1. log \in [1 .. Len(Existing) -> Range(log)]
    BY <1>2 DEF Range
  <2>2. QED
    BY <1>1, <2>1, FunctionIsSequence
<1>5. stored \in Nat
  BY <1>4, SequenceIs DEF Init
<1>6. LogOK
  BY <1>3, <1>4, <1>5 DEF LogOK, AreChanges
<1>7. Newest \in Int /\ Newest >= -1
  BY <1>6, LogIs
<1>8. \A k \in 0 .. Newest : MessageAt(k).change = "Add"
  BY <1>3, <1>4, <1>6, LogIs DEF MessageAt
<1>9. Followed
  BY <1>8 DEF Followed
<1>10. DOMAIN req = Client /\ \A call \in Range(req) : call = Idle
  BY DEF Init, Range
<1>11. IsSequence(<< >>) /\ DOMAIN << >> = {}
  <2>1. IsSequence(<< >>)
    BY EmptySeq DEF IsSequence
  <2>2. DOMAIN << >> = {}
    OBVIOUS
  <2>3. QED
    BY <2>1, <2>2
<1>12. CallOK(Idle)
  BY <1>7, <1>11 DEF CallOK, AreChanges, Idle, CallFields
<1>13. Grounded(Idle) /\ Overtaken(Idle)
  BY DEF Grounded, Overtaken, Idle
<1>14. QED
  BY <1>6, <1>9, <1>10, <1>12, <1>13 DEF RequestInv

\* Every step keeps the invariant.
LEMMA RequestsNext == RequestInv /\ [Next]_vars => RequestInv'
<1> SUFFICES ASSUME RequestInv, [Next]_vars PROVE RequestInv'
  OBVIOUS
<1>1. CASE UNCHANGED vars
  BY <1>1 DEF vars, RequestInv, LogOK, CallOK, IsSent, Grounded, Overtaken, Modifies,
     Followed, Sending, Alive, Newest, MessageAt
<1>2. ASSUME NEW c \in Client, Request(c) PROVE RequestInv'
  BY <1>2, RequestStep
<1>3. ASSUME NEW c \in Client, GetAllDependencies(c) PROVE RequestInv'
  BY <1>3, FindStep
<1>4. ASSUME NEW c \in Client, UpdateChanges(c) PROVE RequestInv'
  BY <1>4, UpdateStep
<1>5. ASSUME NEW c \in Client, Send(c) PROVE RequestInv'
  <2>1. PICK i : i = Min(req[c].unsent)
    OBVIOUS
  <2>2. Deliver(c, i) /\ req[c].pc = "sending" /\ req[c].unsent # {}
    BY <1>5, <2>1 DEF Send, Deliver
  <2>3. i \in req[c].unsent
    BY <2>1, <2>2, UnsentAre
  <2>4. QED
    BY <2>2, <2>3, DeliverStep
<1>6. ASSUME NEW c \in Client, SendAgain(c) PROVE RequestInv'
  <2>1. PICK i : i = Min(req[c].unsent \ {Min(req[c].unsent)})
    OBVIOUS
  <2>2. Deliver(c, i) /\ req[c].pc = "sending" /\ Cardinality(req[c].unsent) > 1
    BY <1>6, <2>1 DEF SendAgain, Deliver
  <2>3. req[c].unsent # {}
    <3>1. Cardinality({}) = 0
      BY FS_EmptySet
    <3>2. QED
      BY <2>2, <3>1
  <2>4. i \in req[c].unsent
    BY <2>1, <2>2, <2>3, UnsentAre
  <2>5. QED
    BY <2>2, <2>4, DeliverStep
<1>7. ASSUME NEW c \in Client, Undelivered(c) PROVE RequestInv'
  BY <1>7, UndeliveredStep
<1>8. ASSUME NEW c \in Client, Answer(c) PROVE RequestInv'
  BY <1>8, AnswerStep
<1>9. ASSUME NEW c \in Client, Panic(c) PROVE RequestInv'
  BY <1>9, PanicStep
<1>10. QED
  BY <1>1, <1>2, <1>3, <1>4, <1>5, <1>6, <1>7, <1>8, <1>9 DEF Next, Serve, Disturb

\* The invariant holds in every reachable state, whatever is lost, sent again
\* or read behind.
THEOREM RequestsInductive == Spec => []RequestInv
<1>1. QED
  BY RequestsInit, RequestsNext, PTL DEF Spec

\* An object that was deleted is not modified before it is added again, unless
\* a request that wrote it was disturbed: submit sends objects that follow as
\* what they last were, and nothing else ever modifies a deleted object.
THEOREM DeletedStay == Spec => []DeletedStaysDeleted
<1>1. RequestInv => DeletedStaysDeleted
  <2> SUFFICES ASSUME RequestInv, NEW w \in Settled, NEW j \in 0 .. Newest,
                      MessageAt(j) = Change("Delete", w, None),
                      NEW k \in j + 1 .. Newest,
                      MessageAt(k).id = w, MessageAt(k).change = "Modify"
               PROVE  \E i \in j + 1 .. k - 1 : MessageAt(i).id = w /\ MessageAt(i).change = "Add"
    BY DEF DeletedStaysDeleted
  <2>1. LogOK /\ Newest \in Int /\ \A l \in 0 .. Newest : IsChange(MessageAt(l))
    BY LogIs DEF RequestInv
  <2>2. PICK M : M = {l \in j + 1 .. k : MessageAt(l).id = w /\ MessageAt(l).change = "Modify"}
    OBVIOUS
  <2>3. M \in SUBSET Nat /\ k \in M
    BY <2>1, <2>2
  <2>4. PICK first \in M : \A l \in M : first <= l
    BY <2>3, MinIsFirst
  <2>5. /\ first \in j + 1 .. k /\ first \in 0 .. Newest /\ j \in 0 .. first - 1
        /\ MessageAt(first).id = w /\ MessageAt(first).change = "Modify"
    BY <2>1, <2>2, <2>4
  <2>6. w \notin disturbed /\ w \notin InFlight
    BY DEF Settled
  <2>7. ~ Sending(first)
    <3> SUFFICES ASSUME NEW call \in Range(req), call.pc = "sending",
                        NEW n \in DOMAIN call.at, call.at[n] = first
                 PROVE  FALSE
      BY DEF Sending
    <3>1. PICK c \in Client : call = req[c]
      BY DEF RequestInv, Range
    <3>2. n \in DOMAIN call.batch /\ MessageAt(first) = call.batch[n]
      BY <2>5 DEF RequestInv, CallOK, IsSent
    <3>3. w \in IdsOf(req[c].batch)
      BY <2>5, <3>1, <3>2 DEF IdsOf
    <3>4. QED
      BY <2>6, <3>1, <3>3 DEF InFlight
  <2>8. Alive(w, first - 1)
    BY <2>5, <2>6, <2>7 DEF RequestInv, Followed
  <2>9. MessageAt(j).id = w /\ MessageAt(j).change = "Delete"
    BY DEF Change
  <2>10. PICK i \in j + 1 .. first - 1 : MessageAt(i).id = w /\ MessageAt(i).change # "Delete"
    BY <2>5, <2>8, <2>9 DEF Alive
  <2>11. i \in j + 1 .. k - 1 /\ i \in 0 .. Newest /\ i \notin M
    BY <2>1, <2>4, <2>5, <2>10
  <2>12. i \in j + 1 .. k
    BY <2>1, <2>11
  <2>13. MessageAt(i).change # "Modify"
    BY <2>2, <2>10, <2>11, <2>12
  <2>14. MessageAt(i).change \in {"Add", "Modify", "Delete"}
    BY <2>1, <2>11 DEF IsChange, Kinds
  <2>15. QED
    BY <2>10, <2>11, <2>13, <2>14
<1>2. QED
  BY <1>1, RequestsInductive, PTL

-----------------------------------------------------------------------------
(* The types of objects *)

\* An object of a file: a wall without openings, a sheet or a viewport.
Fits(x, obj) ==
    /\ obj \in Objects(x, Piece) /\ IsObjectOf(obj, x)
    /\ obj.kind = "Wall" => obj.openings = << >>

\* A message with such an object.
IsTyped(m) == IsChange(m) /\ IsMessage(m) /\ (m.change # "Delete" => Fits(m.id, m.obj))
AreTyped(s) == \A n \in DOMAIN s : IsTyped(s[n])

\* Changes of different objects.
AreApart(s) == \A m, n \in DOMAIN s : s[m].id = s[n].id => m = n

CallTyped(call) ==
    /\ call.pc \in {"idle", "changed", "found", "sending", "answered"}
    /\ AreTyped(call.changes) /\ AreTyped(call.batch)
    /\ AreApart(call.changes) /\ AreApart(call.batch)
    /\ Len(call.refs) \in Nat

TypeInv ==
    /\ AreTyped(log)
    /\ stored \in 0 .. Len(log) /\ known \in 0 .. Len(log)
    /\ requests \in 0 .. MaxRequests /\ faults \in 0 .. MaxFaults
    /\ disturbed \cup crossed \subseteq Obj
    /\ \A call \in Range(req) : CallTyped(call)

\* What the assumption says of ids and pieces.
LEMMA Assumed ==
    /\ Walls \cap Sheets = {} /\ Walls \cap Viewports = {} /\ Sheets \cap Viewports = {}
    /\ None \notin Obj /\ NoneIsApart(Piece)
    /\ \A w \in Walls : Segment(w) \in Int \X Int
    /\ Delta \subseteq Int /\ Guesses \subseteq Int /\ MaxRequests \in Nat /\ MaxFaults \in Nat
  BY SubmitAssumption

\* A wall is not None.
LEMMA WallIsSome ==
    ASSUME NEW w \in Walls, NEW obj \in WallsOf(w, Piece), obj.openings = << >>
    PROVE  obj # None
<1>1. obj \in [kind : {"Wall"}, id : Walls, openings : {<< >>},
               pts : [1 .. 2 -> [refer : Slot(Piece), info : PointResults]]]
  BY DEF WallsOf
<1>2. QED
  BY <1>1, SubmitAssumption

\* What an object of each kind of id is.
LEMMA FitsIs ==
    ASSUME NEW x \in Obj, NEW obj, Fits(x, obj)
    PROVE  \/ /\ x \in Walls /\ obj.kind = "Wall" /\ obj \in WallsOf(x, Piece) /\ IsWall(obj, x)
              /\ obj.openings = << >>
           \/ x \in Sheets /\ obj.kind = "Sheet" /\ obj = P!New(x)
           \/ /\ x \in Viewports /\ obj.kind = "Viewport"
              /\ \E sheet \in Sheets : obj = V!New(x, sheet)
<1>1. CASE x \in Walls
  <2>0. x \notin Sheets /\ x \notin Viewports
    BY <1>1, Assumed
  <2>1. IsWall(obj, x)
    BY <2>0 DEF Fits, IsObjectOf
  <2>2. obj.kind = "Wall"
    BY <2>1 DEF IsWall
  <2>3. obj \in WallsOf(x, Piece)
    BY <2>2, ObjectKinds DEF Fits
  <2>4. QED
    BY <1>1, <2>1, <2>2, <2>3 DEF Fits
<1>2. CASE x \in Sheets
  <2>1. x \notin Walls /\ x \notin Viewports
    BY <1>2, Assumed
  <2>2. obj = P!New(x)
    BY <1>2, <2>1 DEF Fits, IsObjectOf
  <2>3. QED
    BY <1>2, <2>2 DEF P!New
<1>3. CASE x \in Viewports
  <2>1. x \notin Walls /\ x \notin Sheets
    BY <1>3, Assumed
  <2>2. PICK sheet \in Sheets : obj = V!New(x, sheet)
    BY <1>3, <2>1 DEF Fits, IsObjectOf
  <2>3. QED
    BY <1>3, <2>2 DEF V!New
<1>4. QED
  BY <1>1, <1>2, <1>3 DEF Obj

\* Nor is a message that writes one.
LEMMA MessageIsSome ==
    ASSUME NEW m, IsTyped(m), m.id \in Walls, m.change # "Delete"
    PROVE  m # None /\ IsObject(m)
<1>1. PICK walls : walls = [kind : {"Wall"}, id : Walls, openings : {<< >>},
                            pts : [1 .. 2 -> [refer : Slot(Piece), info : PointResults]]]
  OBVIOUS
<1>2. m.obj \in WallsOf(m.id, Piece) /\ m.obj.openings = << >>
  BY FitsIs, Assumed DEF IsTyped, Obj
<1>3. m.obj \in walls
  BY <1>1, <1>2 DEF WallsOf
<1>4. m = Change(m.change, m.id, m.obj) /\ m.change \in {"Add", "Modify"}
  BY DEF IsTyped, IsChange, Kinds
<1>5. m \in [change : {"Add", "Modify"}, id : Walls, obj : walls]
  BY <1>3, <1>4 DEF Change
<1>6. None \notin [change : {"Add", "Modify"}, id : Walls, obj : walls]
  BY <1>1, SubmitAssumption
<1>7. QED
  BY <1>5, <1>6 DEF IsObject

\* Sheets and viewports fit as they are created.
LEMMA NewFits ==
    /\ \A x \in Sheets : Fits(x, P!New(x))
    /\ \A x \in Viewports, sheet \in Sheets : Fits(x, V!New(x, sheet))
<1>1. ASSUME NEW x \in Sheets PROVE Fits(x, P!New(x))
  <2>1. x \notin Walls
    BY Assumed
  <2>2. P!New(x) \in SheetsOf(x) /\ P!New(x).kind = "Sheet"
    BY DEF P!New, SheetsOf
  <2>3. QED
    BY <2>1, <2>2 DEF Fits, Objects, IsObjectOf
<1>2. ASSUME NEW x \in Viewports, NEW sheet \in Sheets PROVE Fits(x, V!New(x, sheet))
  <2>1. x \notin Walls /\ x \notin Sheets
    BY Assumed
  <2>2. PICK r : r = [id |-> sheet, ref_type |-> "Existence", index |-> 1]
    OBVIOUS
  <2>3. r \in Piece /\ r.id = sheet
    BY <2>2 DEF Piece, Obj, RefType
  <2>4. V!New(x, sheet) \in ViewportsOf(x, Piece) /\ V!New(x, sheet).kind = "Viewport"
    BY <2>3 DEF V!New, ViewportsOf
  <2>5. QED
    BY <2>1, <2>4 DEF Fits, Objects, IsObjectOf
<1>3. QED
  BY <1>1, <1>2

\* A wall whose ends are coordinates and refer to ends of other walls.
LEMMA WallFits ==
    ASSUME NEW x \in Walls, NEW obj, obj \in WallsOf(x, Piece), obj.openings = << >>,
           \A i \in 1 .. 2 :
               /\ obj.pts[i].info.at \in Int
               /\ obj.pts[i].refer # None =>
                      /\ obj.pts[i].refer.id \in Walls \ {x}
                      /\ obj.pts[i].refer.ref_type = "ProfilePoint"
    PROVE  Fits(x, obj)
<1>1. /\ obj.kind = "Wall" /\ obj.id = x
      /\ obj.pts \in [1 .. 2 -> [refer : Slot(Piece), info : PointResults]]
  BY DEF WallsOf
<1>2. ASSUME NEW i \in 1 .. 2
      PROVE  /\ obj.pts[i].info.kind = "Point"
             /\ obj.pts[i].refer # None => obj.pts[i].refer.index \in 1 .. 2
  <2>1. obj.pts[i].info \in PointResults /\ obj.pts[i].refer \in Piece \cup {None}
    BY <1>1 DEF Slot
  <2>2. QED
    BY <2>1 DEF PointResults, Piece
<1>3. IsWall(obj, x)
  BY <1>1, <1>2 DEF IsWall
<1>4. QED
  BY <1>3 DEF Fits, Objects, IsObjectOf

\* A wall as it is created.
LEMMA NewWallFits ==
    ASSUME NEW w \in Walls
    PROVE  IsTyped(NewWall(w)) /\ NewWall(w).id = w /\ NewWall(w).change = "Add"
<1>1. PICK p, q : p = Segment(w)[1] /\ q = Segment(w)[2]
  OBVIOUS
<1>2. p \in Int /\ q \in Int
  BY <1>1, Assumed
<1>3. PICK obj, pts : /\ obj = W!New(w, p, q)
                      /\ pts = <<[refer |-> None, info |-> [kind |-> "Point", at |-> p]],
                                 [refer |-> None, info |-> [kind |-> "Point", at |-> q]]>>
  OBVIOUS
<1>4. obj = [kind |-> "Wall", id |-> w, pts |-> pts, openings |-> << >>]
  BY <1>3 DEF W!New, W!Updatable, W!Point
<1>5. /\ DOMAIN pts = 1 .. 2
      /\ pts[1] = [refer |-> None, info |-> [kind |-> "Point", at |-> p]]
      /\ pts[2] = [refer |-> None, info |-> [kind |-> "Point", at |-> q]]
      /\ pts = [i \in 1 .. 2 |-> pts[i]]
  BY <1>3
<1>6. \A i \in 1 .. 2 : i = 1 \/ i = 2
  OBVIOUS
<1>7. \A i \in 1 .. 2 : /\ pts[i].refer = None /\ pts[i].info.at \in Int
                        /\ pts[i] \in [refer : Slot(Piece), info : PointResults]
  BY <1>2, <1>5, <1>6 DEF Slot, PointResults, Number
<1>8. pts \in [1 .. 2 -> [refer : Slot(Piece), info : PointResults]]
  BY <1>5, <1>7
<1>9. << >> \in Seq([refer : Slot(Piece), info : PlaneResults] \cup {None})
  BY EmptySeq
<1>10. obj \in WallsOf(w, Piece) /\ obj.openings = << >> /\ obj.pts = pts
  BY <1>4, <1>8, <1>9 DEF WallsOf
<1>11. Fits(w, obj)
  BY <1>7, <1>10, WallFits
<1>12. NewWall(w) = Change("Add", w, obj)
  BY <1>1, <1>3 DEF NewWall
<1>13. "Add" \in Kinds /\ w \in Obj
  BY DEF Kinds, Obj
<1>14. QED
  BY <1>11, <1>12, <1>13, ChangeIs DEF IsTyped, IsMessage, Change, Fits

-----------------------------------------------------------------------------
(* The types of requests *)

\* A change with an object that fits, or without one.
LEMMA ChangeTyped ==
    ASSUME NEW x \in Obj, NEW obj, NEW kind \in Kinds,
           IF kind = "Delete" THEN obj = None ELSE Fits(x, obj)
    PROVE  /\ IsTyped(Change(kind, x, obj))
           /\ Change(kind, x, obj).id = x /\ Change(kind, x, obj).change = kind
<1>1. PICK m : m = Change(kind, x, obj)
  OBVIOUS
<1>2. IsChange(m) /\ m.change = kind /\ m.id = x
  BY <1>1, ChangeIs
<1>3. m.obj = obj
  BY <1>1 DEF Change
<1>4. IsMessage(m)
  BY <1>2, <1>3 DEF IsMessage, Fits
<1>5. QED
  BY <1>1, <1>2, <1>3, <1>4 DEF IsTyped

\* What is found in the log is one of its messages.
LEMMA FoundTyped ==
    ASSUME RequestInv, TypeInv, NEW x, NEW o \in -1 .. Newest, NEW n \in stored .. Len(log),
           GetObject(x, o, n) # None
    PROVE  IsTyped(GetObject(x, o, n)) /\ GetObject(x, o, n).id = x
<1>1. LogOK /\ n \in Nat /\ n <= Len(log) /\ o \in Int /\ o >= -1
  BY ReadIs, LogIs DEF RequestInv
<1>2. PICK k \in 0 .. Newest : MessageAt(k) = GetObject(x, o, n) /\ MessageAt(k).id = x
  BY <1>1, ObjectFound
<1>3. k + 1 \in DOMAIN log
  BY <1>1, LogIs
<1>4. IsTyped(MessageAt(k))
  BY <1>3 DEF TypeInv, AreTyped, MessageAt
<1>5. QED
  BY <1>2, <1>4

\* An object that is there fits.
LEMMA FoundFits ==
    ASSUME RequestInv, TypeInv, NEW x, NEW o \in -1 .. Newest, NEW n \in stored .. Len(log),
           IsObject(GetObject(x, o, n))
    PROVE  x \in Obj /\ Fits(x, GetObject(x, o, n).obj)
<1>1. GetObject(x, o, n) # None /\ GetObject(x, o, n).change # "Delete"
  BY DEF IsObject
<1>2. IsTyped(GetObject(x, o, n)) /\ GetObject(x, o, n).id = x
  BY <1>1, FoundTyped
<1>3. QED
  BY <1>1, <1>2 DEF IsTyped, IsMessage

\* The request of one client changes, and the log stays.
LEMMA OneTyped ==
    ASSUME TypeInv, DOMAIN req = Client, NEW c \in Client,
           NEW after, req' = [req EXCEPT ![c] = after], CallTyped(after),
           log' = log, stored' \in 0 .. Len(log), known' \in 0 .. Len(log),
           requests' \in 0 .. MaxRequests, faults' \in 0 .. MaxFaults, disturbed' \cup crossed' \subseteq Obj
    PROVE  TypeInv'
<1>1. \A call \in Range(req') : call = after \/ call \in Range(req)
  BY DEF Range
<1>2. \A call \in Range(req') : CallTyped(call)
  BY <1>1 DEF TypeInv
<1>3. QED
  BY <1>2 DEF TypeInv, AreTyped

\* A service is asked: what it has then.
LEMMA ReadsTyped ==
    ASSUME faults \in 0 .. MaxFaults, NEW least, NEW o, NEW n, Reads(least, o, n) \/ Skips(least, n)
    PROVE  faults' \in 0 .. MaxFaults
  BY Assumed DEF Reads, Skips, Fault

\* A request begins with changes of different objects.
LEMMA BegunTyped ==
    ASSUME RequestInv, TypeInv, NEW c \in Client, requests < MaxRequests,
           NEW o, NEW stale, NEW changes, Begin(c, o, stale, changes),
           AreTyped(changes), AreApart(changes),
           stored' \in 0 .. Len(log), faults' \in 0 .. MaxFaults
    PROVE  TypeInv'
<1>1. PICK late : late = InSplit(o)
  OBVIOUS
<1>2. PICK after : after = [Idle EXCEPT !.pc = "changed", !.offset = o, !.changes = changes,
                                        !.answer = req[c].answer, !.stale = stale \/ late]
  OBVIOUS
<1>3. /\ req' = [req EXCEPT ![c] = after] /\ log' = log /\ known' = known
      /\ disturbed' = disturbed /\ crossed' = crossed /\ requests' = requests + 1
  BY <1>1, <1>2 DEF Begin
<1>4. /\ after.pc = "changed" /\ after.changes = changes /\ after.batch = << >>
      /\ after.refs = << >>
  BY <1>2 DEF Idle
<1>5. DOMAIN << >> = {} /\ Len(<< >>) = 0
  BY EmptySeq
<1>6. CallTyped(after)
  BY <1>4, <1>5 DEF CallTyped, AreTyped, AreApart
<1>7. requests' \in 0 .. MaxRequests
  BY <1>3, Assumed DEF TypeInv
<1>8. QED
  BY <1>3, <1>6, <1>7, OneTyped DEF TypeInv, RequestInv

\* Creating walls, a sheet or a viewport.
LEMMA CreateTyped ==
    ASSUME RequestInv, TypeInv, NEW c \in Client, requests < MaxRequests,
           \/ \E ids \in Selections : CreateWalls(c, ids)
           \/ \E x \in Sheets : CreateSheet(c, x)
           \/ \E v \in Viewports, x \in Sheets : CreateViewport(c, v, x)
    PROVE  TypeInv'
<1>1. CASE \E ids \in Selections : CreateWalls(c, ids)
  <2>1. PICK ids \in Selections : CreateWalls(c, ids)
    BY <1>1
  <2>2. PICK changes : changes = [n \in DOMAIN ids |-> NewWall(ids[n])]
    OBVIOUS
  <2>3. /\ Begin(c, Newest, FALSE, changes) /\ ids \in Seq(Walls)
        /\ stored' = stored /\ faults' = faults
    BY <2>1, <2>2 DEF CreateWalls, Create
  <2>4. \A n \in DOMAIN ids : ids[n] \in Walls
    BY <2>3, ElementOfSeq, LenProperties
  <2>5. DOMAIN changes = DOMAIN ids /\ \A n \in DOMAIN ids : changes[n] = NewWall(ids[n])
    BY <2>2
  <2>6. AreTyped(changes) /\ \A n \in DOMAIN ids : changes[n].id = ids[n]
    BY <2>4, <2>5, NewWallFits DEF AreTyped
  <2>7. \A m, n \in DOMAIN ids : ids[m] = ids[n] => m = n
    BY SubmitAssumption DEF IsInjective
  <2>8. AreApart(changes)
    BY <2>5, <2>6, <2>7 DEF AreApart
  <2>9. stored' \in 0 .. Len(log) /\ faults' \in 0 .. MaxFaults
    BY <2>3 DEF TypeInv
  <2>10. QED
    BY <2>3, <2>6, <2>8, <2>9, BegunTyped
<1>2. ASSUME NEW x \in Obj, NEW obj, Fits(x, obj),
             Create(c, <<Change("Add", x, obj)>>)
      PROVE  TypeInv'
  <2>1. PICK changes : changes = <<Change("Add", x, obj)>>
    OBVIOUS
  <2>2. Begin(c, Newest, FALSE, changes) /\ stored' = stored /\ faults' = faults
    BY <1>2, <2>1 DEF Create
  <2>3. DOMAIN changes = {1} /\ changes[1] = Change("Add", x, obj)
    BY <2>1
  <2>4. AreTyped(changes) /\ AreApart(changes)
    BY <1>2, <2>3, ChangeTyped DEF AreTyped, AreApart, Kinds
  <2>5. stored' \in 0 .. Len(log) /\ faults' \in 0 .. MaxFaults
    BY <2>2 DEF TypeInv
  <2>6. QED
    BY <2>2, <2>4, <2>5, BegunTyped
<1>3. ASSUME NEW x \in Sheets, CreateSheet(c, x) PROVE TypeInv'
  <2>1. Create(c, <<Change("Add", x, P!New(x))>>)
    BY <1>3 DEF CreateSheet
  <2>2. PICK obj : obj = P!New(x)
    OBVIOUS
  <2>3. QED
    BY <1>2, <2>1, <2>2, NewFits DEF Obj
<1>4. ASSUME NEW v \in Viewports, NEW x \in Sheets, CreateViewport(c, v, x) PROVE TypeInv'
  <2>1. Create(c, <<Change("Add", v, V!New(v, x))>>)
    BY <1>4 DEF CreateViewport
  <2>2. PICK obj : obj = V!New(v, x)
    OBVIOUS
  <2>3. QED
    BY <1>2, <2>1, <2>2, NewFits DEF Obj
<1>5. QED
  BY <1>1, <1>3, <1>4

\* Deleting objects.
LEMMA DeleteTyped ==
    ASSUME RequestInv, TypeInv, NEW c \in Client, requests < MaxRequests, NEW o,
           NEW ids \in Selections, DeleteObjects(c, ids, o)
    PROVE  TypeInv'
<1>1. PICK changes : changes = [n \in DOMAIN ids |-> Change("Delete", ids[n], None)]
  OBVIOUS
<1>2. Begin(c, o, FALSE, changes) /\ stored' = stored /\ faults' = faults
  BY <1>1 DEF DeleteObjects
<1>3. \A n \in DOMAIN ids : ids[n] \in Obj
  BY SelectionsAre, ElementOfSeq, LenProperties
<1>4. DOMAIN changes = DOMAIN ids
      /\ \A n \in DOMAIN ids : changes[n] = Change("Delete", ids[n], None)
  BY <1>1
<1>5. AreTyped(changes) /\ \A n \in DOMAIN ids : changes[n].id = ids[n]
  BY <1>3, <1>4, ChangeTyped DEF AreTyped, Kinds
<1>6. \A m, n \in DOMAIN ids : ids[m] = ids[n] => m = n
  BY SubmitAssumption DEF IsInjective
<1>7. AreApart(changes)
  BY <1>4, <1>5, <1>6 DEF AreApart
<1>8. stored' \in 0 .. Len(log) /\ faults' \in 0 .. MaxFaults
  BY <1>2 DEF TypeInv
<1>9. QED
  BY <1>2, <1>5, <1>7, <1>8, BegunTyped

\* An object that is moved: a wall's ends stay coordinates.
LEMMA MovedFits ==
    ASSUME NEW x \in Obj, NEW obj, Fits(x, obj), NEW delta \in Int
    PROVE  Fits(x, MoveObj(obj, delta))
<1>1. CASE obj.kind # "Wall"
  <2>1. obj.kind \in {"Sheet", "Viewport"}
    BY <1>1, FitsIs
  <2>2. MoveObj(obj, delta) = obj
    BY <2>1, OfSheet, OfViewport
  <2>3. QED
    BY <2>2
<1>2. CASE obj.kind = "Wall"
  <2>1. /\ x \in Walls /\ obj \in WallsOf(x, Piece) /\ IsWall(obj, x)
        /\ obj.openings = << >>
    BY <1>2, FitsIs
  <2>2. PICK moved : moved = W!MoveObj(obj, delta)
    OBVIOUS
  <2>3. MoveObj(obj, delta) = moved
    BY <1>2, <2>2, OfWall
  <2>4. moved \in WallsOf(x, Piece) /\ moved.openings = << >>
    BY <2>1, <2>2, Assumed, WallMoved
  <2>5. /\ DOMAIN obj.pts = 1 .. 2 /\ "pts" \in DOMAIN obj
        /\ \A i \in 1 .. 2 : DOMAIN obj.pts[i] = {"refer", "info"}
                             /\ DOMAIN obj.pts[i].info = {"kind", "at"}
    BY <2>1 DEF WallsOf, PointResults
  <2>6. ASSUME NEW i \in 1 .. 2
        PROVE  /\ moved.pts[i].refer = obj.pts[i].refer
               /\ moved.pts[i].info.at = W!Plus(obj.pts[i].info.at, delta)
    <3>1. i = 1 \/ i = 2
      OBVIOUS
    <3>2. QED
      BY <2>2, <2>5, <3>1 DEF W!MoveObj
  <2>7. \A i \in 1 .. 2 : obj.pts[i].info.at \in Int
    BY <2>1 DEF IsWall
  <2>8. ASSUME NEW p \in Int PROVE W!Plus(p, delta) \in Int
    <3>1. p # NaN \/ NaN \in Int
      OBVIOUS
    <3>2. QED
      BY <3>1 DEF W!Plus
  <2>9. \A i \in 1 .. 2 :
            /\ moved.pts[i].info.at \in Int
            /\ moved.pts[i].refer # None =>
                   /\ moved.pts[i].refer.id \in Walls \ {x}
                   /\ moved.pts[i].refer.ref_type = "ProfilePoint"
    BY <2>1, <2>6, <2>7, <2>8 DEF IsWall
  <2>10. QED
    BY <2>1, <2>3, <2>4, <2>9, WallFits
<1>3. QED
  BY <1>1, <1>2

\* The members of I, some of them, each at most once.
Picks(kept, m, I) ==
    kept \in [1 .. m -> I] /\ \A i, j \in 1 .. m : kept[i] = kept[j] => i = j

\* The members of a set of numbers in order are different.
LEMMA KeptApart ==
    ASSUME NEW n \in Nat, NEW I, I \in SUBSET (1 .. n), NEW kept, kept \in Ordered(I)
    PROVE  \E m \in Nat : Picks(kept, m, I)
<1>1. PICK m \in Nat : kept \in [1 .. m -> I]
  BY OrderedIs
<1>2. \A i, j \in 1 .. m : i < j => kept[i] < kept[j]
  BY <1>1 DEF Ordered, Increasing
<1>3. \A i \in 1 .. m : kept[i] \in Int
  <2>1. \A k \in I : k \in Int
    OBVIOUS
  <2>2. QED
    BY <1>1, <2>1
<1>4. ASSUME NEW i \in 1 .. m, NEW j \in 1 .. m, kept[i] = kept[j] PROVE i = j
  <2>1. i < j \/ j < i \/ i = j
    BY <1>1
  <2>2. QED
    BY <1>2, <1>3, <1>4, <2>1
<1>5. QED
  BY <1>1, <1>4 DEF Picks

\* Moving objects.
LEMMA MoveTyped ==
    ASSUME RequestInv, TypeInv, NEW c \in Client, requests < MaxRequests, NEW o \in OffsetsOf(c),
           NEW ids \in Selections, NEW delta \in Delta, MoveObjects(c, ids, delta, o)
    PROVE  TypeInv'
<1>1. o \in -1 .. Newest
  BY OffsetsIn, LogIs DEF RequestInv
<1>2. PICK n \in stored .. Len(log) :
          /\ \E kept \in Ordered({i \in DOMAIN ids : IsObject(GetObject(ids[i], o, n))}) :
                Begin(c, o, n <= o,
                    [i \in DOMAIN kept |-> Change("Modify", ids[kept[i]],
                                               MoveObj(GetObject(ids[kept[i]], o, n).obj, delta))])
          /\ Reads(stored, o, n)
          /\ stored' = n
  BY DEF MoveObjects
<1>3. PICK I : I = {i \in DOMAIN ids : IsObject(GetObject(ids[i], o, n))}
  OBVIOUS
<1>4. PICK kept \in Ordered(I) :
          Begin(c, o, n <= o,
              [i \in DOMAIN kept |-> Change("Modify", ids[kept[i]],
                                         MoveObj(GetObject(ids[kept[i]], o, n).obj, delta))])
  BY <1>2, <1>3
<1>5. PICK changes : changes = [i \in DOMAIN kept |-> Change("Modify", ids[kept[i]],
                                   MoveObj(GetObject(ids[kept[i]], o, n).obj, delta))]
  OBVIOUS
<1>6. PICK m \in Nat : Picks(kept, m, I)
  <2>1. DOMAIN ids = 1 .. Len(ids) /\ Len(ids) \in Nat
    BY SelectionsAre, LenProperties, SMTT(30)
  <2>2. PICK k \in Nat : k = Len(ids)
    BY <2>1, Zenon
  <2>3. I \in SUBSET (1 .. k)
    BY <1>3, <2>1, <2>2
  <2>4. kept \in Ordered(I)
    OBVIOUS
  <2>5. QED
    BY <2>2, <2>3, <2>4, KeptApart, Zenon
<1>7. /\ DOMAIN changes = 1 .. m /\ DOMAIN kept = 1 .. m
      /\ \A i \in 1 .. m : kept[i] \in I
      /\ \A i, j \in 1 .. m : kept[i] = kept[j] => i = j
  BY <1>5, <1>6 DEF Picks
<1>8. ASSUME NEW i \in 1 .. m
      PROVE  IsTyped(changes[i]) /\ changes[i].id = ids[kept[i]] /\ kept[i] \in DOMAIN ids
  <2>1. PICK x, obj : x = ids[kept[i]] /\ obj = GetObject(x, o, n).obj
    OBVIOUS
  <2>2. changes[i] = Change("Modify", x, MoveObj(obj, delta))
    BY <1>5, <1>7, <2>1
  <2>3. IsObject(GetObject(x, o, n)) /\ kept[i] \in DOMAIN ids
    BY <1>3, <1>7, <2>1
  <2>4. x \in Obj /\ Fits(x, obj)
    BY <1>1, <2>1, <2>3, FoundFits
  <2>5. Fits(x, MoveObj(obj, delta))
    BY <2>4, Assumed, MovedFits
  <2>6. PICK moved : moved = MoveObj(obj, delta)
    OBVIOUS
  <2>7. QED
    BY <2>1, <2>2, <2>3, <2>4, <2>5, <2>6, ChangeTyped DEF Kinds
<1>9. \A i, j \in DOMAIN ids : ids[i] = ids[j] => i = j
  BY SubmitAssumption DEF IsInjective
<1>10. AreTyped(changes) /\ AreApart(changes)
  BY <1>7, <1>8, <1>9 DEF AreTyped, AreApart
<1>11. stored' \in 0 .. Len(log)
  BY <1>2, ReadIs
<1>12. faults' \in 0 .. MaxFaults
  BY <1>2, ReadsTyped DEF TypeInv
<1>13. PICK stale : stale = (n <= o)
  OBVIOUS
<1>14. Begin(c, o, stale, changes)
  BY <1>4, <1>5, <1>13
<1>15. QED
  BY <1>10, <1>11, <1>12, <1>14, BegunTyped

\* A wall that snaps to another: one of its ends is at that one's and refers to
\* it.
SnappedTo(obj, other, after, y) ==
    \E free, found \in 1 .. 2 :
        /\ after.pts[free].refer = RefID(y, "ProfilePoint", found)
        /\ after.pts[free].info = other.pts[found].info
        /\ \A i \in 1 .. 2 : i # free => after.pts[i] = obj.pts[i]

LEMMA SnappedFits ==
    ASSUME NEW x \in Walls, NEW y \in Walls, x # y, NEW obj, NEW other,
           Fits(x, obj), Fits(y, other), NEW guess \in Int,
           NEW after, after = SnapToRef(obj, other, "ProfilePoint", guess), after # None
    PROVE  Fits(x, after) /\ SnappedTo(obj, other, after, y)
<1>1. /\ obj.kind = "Wall" /\ obj \in WallsOf(x, Piece) /\ IsWall(obj, x) /\ obj.openings = << >>
      /\ other.kind = "Wall" /\ other \in WallsOf(y, Piece) /\ IsWall(other, y)
  <2>1. x \in Obj /\ y \in Obj
    BY DEF Obj
  <2>2. x \notin Sheets /\ x \notin Viewports /\ y \notin Sheets /\ y \notin Viewports
    BY Assumed
  <2>3. QED
    BY <2>1, <2>2, FitsIs
<1>2. obj \in Objects(x, Piece) /\ other \in Objects(y, Piece) /\ NoneIsApart(Piece)
  BY Assumed DEF Fits
<1>3. PICK results : results = GetResultsForType(other, "ProfilePoint")
  OBVIOUS
<1>4. results = [i \in 1 .. 2 |-> other.pts[i].info]
  BY <1>1, <1>3, OfWall, Zenon DEF W!GetResultsForType
<1>5. PICK found, free : /\ found = GetClosestResult(other, "ProfilePoint", guess)
                         /\ free = GetClosestRef(obj, "ProfilePoint", guess)
  OBVIOUS
<1>6. PICK which, result : /\ which = RefID(other.id, "ProfilePoint", found)
                           /\ result = results[found]
  OBVIOUS
<1>7. /\ found # None
      /\ after = IF free # None
                 THEN SetRef(obj, "ProfilePoint", free, result, which, guess)
                 ELSE AddRef(obj, "ProfilePoint", result, which)
  BY <1>3, <1>5, <1>6 DEF SnapToRef
<1>8. AddRef(obj, "ProfilePoint", result, which) = None
  BY <1>1, OfWall DEF W!AddRef
<1>9. /\ free # None
      /\ after = W!SetRef(obj, "ProfilePoint", free, result, which)
  BY <1>1, <1>7, <1>8, OfWall
<1>10. found \in 1 .. 2
  <2>1. found \in NearResults(other, "ProfilePoint")
    BY <1>2, <1>5, <1>7, ClosestResultIs DEF IsFirstOf
  <2>2. found \in DOMAIN results
    BY <1>3, <2>1 DEF NearResults
  <2>3. QED
    BY <1>4, <2>2
<1>11. free \in 1 .. 2 /\ obj.pts[free].refer = None
  <2>1. free \in NearRefs(obj, "ProfilePoint")
    BY <1>2, <1>5, <1>9, ClosestRefIs DEF IsFirstOf
  <2>2. free \in W!GetAvailableRefs(obj, "ProfilePoint")
    BY <1>1, <2>1, OfWall DEF NearRefs
  <2>3. QED
    BY <2>2 DEF W!GetAvailableRefs
<1>12. /\ which.id = y /\ which.ref_type = "ProfilePoint" /\ which \in Piece
       /\ result \in PointResults /\ result.at \in Int
  <2>1. other.id = y /\ result = other.pts[found].info /\ result.at \in Int
    BY <1>1, <1>4, <1>6, <1>10 DEF IsWall
  <2>2. result \in PointResults
    BY <1>1, <1>10, <2>1 DEF WallsOf
  <2>3. QED
    BY <1>6, <1>10, <2>1, <2>2 DEF Piece, RefID, RefType, Obj
<1>13. EndSet(obj, after, free, which, result) /\ after \in WallsOf(x, Piece)
  BY <1>1, <1>2, <1>9, <1>11, <1>12, WallEndSet
<1>14. /\ DOMAIN obj.pts = 1 .. 2 /\ "pts" \in DOMAIN obj /\ "openings" \in DOMAIN obj
  BY <1>1 DEF WallsOf
<1>15. /\ after.openings = << >>
       /\ after.pts[free] = [refer |-> which, info |-> result]
       /\ \A i \in 1 .. 2 : i # free => after.pts[i] = obj.pts[i]
  BY <1>1, <1>11, <1>13, <1>14 DEF EndSet
<1>16. ASSUME NEW i \in 1 .. 2
       PROVE  /\ after.pts[i].info.at \in Int
              /\ after.pts[i].refer # None =>
                     /\ after.pts[i].refer.id \in Walls \ {x}
                     /\ after.pts[i].refer.ref_type = "ProfilePoint"
  <2>1. CASE i = free
    BY <1>12, <1>15, <2>1
  <2>2. CASE i # free
    BY <1>1, <1>15, <2>2 DEF IsWall
  <2>3. QED
    BY <2>1, <2>2
<1>17. SnappedTo(obj, other, after, y)
  <2>1. other.id = y /\ result = other.pts[found].info
    BY <1>1, <1>4, <1>6, <1>10 DEF IsWall
  <2>2. after.pts[free].refer = RefID(y, "ProfilePoint", found)
        /\ after.pts[free].info = other.pts[found].info
    BY <1>6, <1>15, <2>1
  <2>3. QED
    BY <1>10, <1>11, <1>15, <2>2 DEF SnappedTo
<1>18. QED
  BY <1>13, <1>15, <1>16, <1>17, WallFits

\* Joining two walls.
LEMMA JoinTyped ==
    ASSUME RequestInv, TypeInv, NEW c \in Client, requests < MaxRequests, NEW o \in OffsetsOf(c),
           NEW x \in Walls, NEW y \in Walls, x # y, NEW guess \in Guesses,
           JoinObjectsAtPoint(c, x, y, guess, o)
    PROVE  TypeInv'
<1>1. o \in -1 .. Newest
  BY OffsetsIn, LogIs DEF RequestInv
<1>2. PICK n \in stored .. Len(log) :
          /\ IsObject(GetObject(x, o, n)) /\ IsObject(GetObject(y, o, n))
          /\ \E joined :
                /\ joined = JoinRefs(GetObject(x, o, n).obj, GetObject(y, o, n).obj,
                                     "ProfilePoint", "ProfilePoint", guess)
                /\ joined # None
                /\ Begin(c, o, n <= o,
                         <<Change("Modify", x, joined[1]), Change("Modify", y, joined[2])>>)
          /\ Reads(stored, o, n)
          /\ stored' = n
  BY DEF JoinObjectsAtPoint
<1>3. PICK first, second : /\ first = GetObject(x, o, n).obj /\ second = GetObject(y, o, n).obj
  OBVIOUS
<1>4. PICK second2, first2 : /\ second2 = SnapToRef(second, first, "ProfilePoint", guess)
                             /\ first2 = SnapToRef(first, second2, "ProfilePoint", guess)
  OBVIOUS
<1>5. PICK joined : /\ joined = JoinRefs(first, second, "ProfilePoint", "ProfilePoint", guess)
                    /\ joined # None
                    /\ Begin(c, o, n <= o,
                             <<Change("Modify", x, joined[1]), Change("Modify", y, joined[2])>>)
  BY <1>2, <1>3
<1>6. second2 # None /\ first2 # None /\ joined = <<first2, second2>>
  BY <1>4, <1>5 DEF JoinRefs
<1>7. Fits(x, first) /\ Fits(y, second)
  BY <1>1, <1>2, <1>3, FoundFits
<1>8. guess \in Int /\ x \in Obj /\ y \in Obj
  BY Assumed DEF Obj
<1>9. Fits(y, second2)
  BY <1>4, <1>6, <1>7, <1>8, SnappedFits
<1>10. Fits(x, first2)
  BY <1>4, <1>6, <1>7, <1>8, <1>9, SnappedFits
<1>11. PICK changes : changes = <<Change("Modify", x, first2), Change("Modify", y, second2)>>
  OBVIOUS
<1>12. /\ DOMAIN changes = 1 .. 2
       /\ changes[1] = Change("Modify", x, first2)
       /\ changes[2] = Change("Modify", y, second2)
  BY <1>11
<1>13. /\ IsTyped(changes[1]) /\ changes[1].id = x
       /\ IsTyped(changes[2]) /\ changes[2].id = y
  BY <1>8, <1>9, <1>10, <1>12, ChangeTyped DEF Kinds
<1>14. \A i \in 1 .. 2 : i = 1 \/ i = 2
  OBVIOUS
<1>15. AreTyped(changes) /\ AreApart(changes)
  BY <1>12, <1>13, <1>14 DEF AreTyped, AreApart
<1>16. stored' \in 0 .. Len(log)
  BY <1>2, ReadIs
<1>17. faults' \in 0 .. MaxFaults
  BY <1>2, ReadsTyped DEF TypeInv
<1>18. PICK stale : stale = (n <= o)
  OBVIOUS
<1>19. Begin(c, o, stale, changes)
  <2>1. joined[1] = first2 /\ joined[2] = second2
    BY <1>6
  <2>2. QED
    BY <1>5, <1>11, <1>18, <2>1
<1>20. QED
  BY <1>15, <1>16, <1>17, <1>19, BegunTyped

\* Undoing the client's last request.
LEMMA UndoTyped ==
    ASSUME RequestInv, TypeInv, NEW c \in Client, requests < MaxRequests, NEW o \in OffsetsOf(c),
           UndoLatest(c, o)
    PROVE  TypeInv'
<1>1. LogOK /\ Newest \in Int
  BY LogIs DEF RequestInv
<1>2. PICK call \in Range(req) : call = req[c]
  BY DEF RequestInv, Range
<1>3. CallOK(call) /\ CallTyped(call)
  BY SMTT(30) DEF RequestInv, TypeInv
<1> DEFINE Before(n, i) == GetObject(req[c].batch[i].id, req[c].at[i] - 1, n)
           Inverted(n, i) ==
               LET x == req[c].batch[i].id
                   kind == req[c].batch[i].change
               IN  IF Before(n, i) = None \/ kind = "Add" THEN Change("Delete", x, None)
                   ELSE Change(IF kind = "Delete" THEN "Add" ELSE "Modify", x, Before(n, i).obj)
           Kept(n) == {i \in DOMAIN req[c].batch :
                           \/ Before(n, i) = None \/ req[c].batch[i].change = "Add"
                           \/ Before(n, i).change # "Delete"}
           old == \E i \in DOMAIN req[c].at :
                      \E k \in req[c].at[i] + 1 .. o : MessageAt(k).id = req[c].batch[i].id
<1>4. PICK n \in stored .. Len(log) :
          /\ req[c].pc = "answered"
          /\ \E kept \in Ordered(Kept(n)) :
                Begin(c, o, n <= o \/ old, [i \in DOMAIN kept |-> Inverted(n, kept[i])])
          /\ Reads(stored, o, n)
          /\ stored' = n
  BY Zenon DEF UndoLatest
<1>5. PICK I : I = Kept(n)
  BY Zenon
<1>6. PICK kept \in Ordered(I) :
          Begin(c, o, n <= o \/ old, [i \in DOMAIN kept |-> Inverted(n, kept[i])])
  BY <1>4, <1>5, Zenon
<1>7. PICK stale, changes :
          /\ stale = (n <= o \/ old)
          /\ changes = [i \in DOMAIN kept |-> Inverted(n, kept[i])]
  BY Zenon
<1>8. Begin(c, o, stale, changes)
  BY <1>6, <1>7, Zenon
<1>9. /\ AreTyped(call.batch) /\ AreApart(call.batch) /\ DOMAIN call.at = DOMAIN call.batch
      /\ Len(call.batch) \in Nat /\ DOMAIN call.batch = 1 .. Len(call.batch)
  BY <1>3, SequenceIs DEF CallOK, CallTyped, AreChanges
<1>10. PICK m \in Nat : Picks(kept, m, I)
  <2>1. I \in SUBSET (1 .. Len(call.batch))
    BY <1>2, <1>5, <1>9
  <2>2. PICK k \in Nat : k = Len(call.batch)
    BY <1>9
  <2>3. I \in SUBSET (1 .. k) /\ kept \in Ordered(I)
    BY <2>1, <2>2
  <2>4. QED
    BY <2>2, <2>3, KeptApart
<1>11. /\ DOMAIN changes = 1 .. m
       /\ \A i \in 1 .. m : kept[i] \in I /\ changes[i] = Inverted(n, kept[i])
       /\ \A i, j \in 1 .. m : kept[i] = kept[j] => i = j
  BY <1>7, <1>10 DEF Picks
<1>12. ASSUME NEW l \in I
       PROVE  IsTyped(Inverted(n, l)) /\ Inverted(n, l).id = call.batch[l].id
              /\ l \in DOMAIN call.batch
  <2>1. PICK x, at, kind : /\ x = call.batch[l].id /\ at = call.at[l] - 1
                           /\ kind = call.batch[l].change
    OBVIOUS
  <2>2. PICK before : before = GetObject(x, at, n)
    OBVIOUS
  <2>3. Before(n, l) = before
    BY <1>2, <2>1, <2>2
  <2>4. /\ l \in DOMAIN call.batch
        /\ before = None \/ kind = "Add" \/ before.change # "Delete"
    BY <1>2, <1>5, <2>1, <2>3
  <2>5. x \in Obj
    BY <1>9, <2>1, <2>4 DEF AreTyped, IsTyped, IsMessage
  <2>6. at \in -1 .. Newest
    <3>1. call.at[l] # -1 /\ IsSent(call, l) /\ call.offset \in -1 .. Newest
      BY <1>2, <1>3, <1>4, <1>9, <2>4, Zenon DEF CallOK
    <3>2. QED
      BY <1>1, <2>1, <3>1, SMTT(30) DEF IsSent
  <2>7. Inverted(n, l) = IF before = None \/ kind = "Add" THEN Change("Delete", x, None)
                         ELSE Change(IF kind = "Delete" THEN "Add" ELSE "Modify", x, before.obj)
    BY <1>2, <2>1, <2>3
  <2> HIDE DEF Inverted, Before
  <2>8. CASE before = None \/ kind = "Add"
    <3>1. Inverted(n, l) = Change("Delete", x, None)
      BY <2>7, <2>8
    <3>2. QED
      BY <2>1, <2>4, <2>5, <3>1, ChangeTyped DEF Kinds
  <2>9. CASE ~ (before = None \/ kind = "Add")
    <3>1. PICK new \in {"Add", "Modify"} : Inverted(n, l) = Change(new, x, before.obj)
      BY <2>7, <2>9
    <3>2. IsObject(before)
      BY <2>4, <2>9 DEF IsObject
    <3>3. Fits(x, before.obj)
      BY <2>2, <2>6, <3>2, FoundFits
    <3>4. PICK obj : obj = before.obj
      OBVIOUS
    <3>5. QED
      BY <2>1, <2>4, <2>5, <3>1, <3>3, <3>4, ChangeTyped DEF Kinds
  <2>10. QED
    BY <2>8, <2>9
<1> HIDE DEF Inverted, Kept, Before, old
<1>13. AreTyped(changes) /\ AreApart(changes)
  BY <1>9, <1>11, <1>12, SMTT(30) DEF AreTyped, AreApart
<1>14. stored' \in 0 .. Len(log)
  BY <1>4, ReadIs
<1>15. faults' \in 0 .. MaxFaults
  BY <1>4, ReadsTyped DEF TypeInv
<1>16. QED
  BY <1>8, <1>13, <1>14, <1>15, BegunTyped

\* A request of a client.
LEMMA RequestTyped ==
    ASSUME RequestInv, TypeInv, NEW c \in Client, Request(c)
    PROVE  TypeInv'
<1>1. requests < MaxRequests
  BY DEF Request
<1>2. CASE \/ \E ids \in Selections : CreateWalls(c, ids)
           \/ \E x \in Sheets : CreateSheet(c, x)
           \/ \E x \in Sheets : \E v \in Viewports : CreateViewport(c, v, x)
  BY <1>1, <1>2, CreateTyped
<1>3. ASSUME NEW o \in OffsetsOf(c), NEW ids \in Selections, DeleteObjects(c, ids, o)
      PROVE  TypeInv'
  BY <1>1, <1>3, DeleteTyped
<1>4. ASSUME NEW o \in OffsetsOf(c), NEW ids \in Selections, NEW delta \in Delta,
             MoveObjects(c, ids, delta, o)
      PROVE  TypeInv'
  BY <1>1, <1>4, MoveTyped
<1>5. ASSUME NEW o \in OffsetsOf(c), NEW x \in Walls, NEW y \in Walls, x # y,
             NEW guess \in Guesses, JoinObjectsAtPoint(c, x, y, guess, o)
      PROVE  TypeInv'
  BY <1>1, <1>5, JoinTyped
<1>6. ASSUME NEW o \in OffsetsOf(c), UndoLatest(c, o)
      PROVE  TypeInv'
  BY <1>1, <1>6, UndoTyped
<1>7. QED
  BY <1>2, <1>3, <1>4, <1>5, <1>6 DEF Request

-----------------------------------------------------------------------------
(* The types of references *)

\* References between pieces.
Links == [owner : Piece, other : Piece]

\* The references of a wall are a sequence.
LEMMA WallRefsSequence ==
    ASSUME NEW x, NEW wall \in WallsOf(x, Piece)
    PROVE  IsSequence(W!GetRefs(wall))
<1> DEFINE Of(u, owner) ==
               IF u = None THEN None
               ELSE IF u.refer = None THEN None ELSE W!Reference(owner, u.refer)
           Own(t, i) == W!RefID(wall.id, t, i)
<1>1. PICK ends, box, line, planes :
          /\ ends = [i \in 1 .. 2 |-> Of(wall.pts[i], Own("ProfilePoint", i))]
          /\ box = <<W!Reference(Own("AxisAlignedBoundBox", 1), Own("ProfilePoint", 1)),
                     W!Reference(Own("AxisAlignedBoundBox", 1), Own("ProfilePoint", 2))>>
          /\ line = <<W!Reference(Own("ProfileLine", 1), Own("ProfilePoint", 1)),
                      W!Reference(Own("ProfileLine", 1), Own("ProfilePoint", 2))>>
          /\ planes = [i \in DOMAIN wall.openings |->
                           Of(wall.openings[i], Own("ProfilePlane", i))]
  OBVIOUS
<1>2. W!GetRefs(wall) = ends \o box \o line \o planes
  BY <1>1 DEF W!GetRefs
<1> HIDE DEF Of, Own
<1>3. IsSequence(ends)
  <2>1. ends \in [1 .. 2 -> Range(ends)]
    BY <1>1 DEF Range
  <2>2. QED
    BY <2>1, FunctionIsSequence
<1>4. IsSequence(box) /\ IsSequence(line)
  <2>1. /\ DOMAIN box = 1 .. 2 /\ DOMAIN line = 1 .. 2
        /\ box = [i \in 1 .. 2 |-> box[i]] /\ line = [i \in 1 .. 2 |-> line[i]]
    BY <1>1
  <2>2. box \in [1 .. 2 -> Range(box)] /\ line \in [1 .. 2 -> Range(line)]
    BY <2>1 DEF Range
  <2>3. QED
    BY <2>2, FunctionIsSequence
<1>5. IsSequence(planes)
  <2>1. PICK n \in Nat : DOMAIN wall.openings = 1 .. n
    BY LenProperties DEF WallsOf
  <2>2. planes \in [1 .. n -> Range(planes)]
    BY <1>1, <2>1 DEF Range
  <2>3. QED
    BY <2>2, FunctionIsSequence
<1>6. PICK s : s = ends \o box
  OBVIOUS
<1>7. IsSequence(s)
  BY <1>3, <1>4, <1>6, Concatenated
<1>8. PICK t : t = s \o line
  OBVIOUS
<1>9. IsSequence(t)
  BY <1>4, <1>7, <1>8, Concatenated
<1>10. PICK u : u = t \o planes
  OBVIOUS
<1>11. IsSequence(u)
  BY <1>5, <1>9, <1>10, Concatenated
<1>12. QED
  BY <1>2, <1>6, <1>8, <1>10, <1>11

\* A sequence whose elements are in a set.
LEMMA SequenceIn ==
    ASSUME NEW s, IsSequence(s), NEW T, \A i \in 1 .. Len(s) : s[i] \in T
    PROVE  s \in Seq(T) /\ Len(s) \in Nat /\ DOMAIN s = 1 .. Len(s)
<1>1. PICK n : n = Len(s)
  OBVIOUS
<1>2. n \in Nat /\ s \in [1 .. n -> Range(s)] /\ DOMAIN s = 1 .. n
  BY <1>1, SequenceIs
<1>3. s \in [1 .. n -> T]
  BY <1>1, <1>2
<1>4. QED
  BY <1>1, <1>2, <1>3, IsSeq

\* The slots of an object: references from pieces to pieces.
LEMMA RefsTyped ==
    ASSUME NEW x \in Obj, NEW obj, Fits(x, obj)
    PROVE  /\ GetRefs(obj) \in Seq(Slot(Links))
           /\ Len(GetRefs(obj)) \in Nat /\ DOMAIN GetRefs(obj) = 1 .. Len(GetRefs(obj))
<1>0. PICK refs : refs = GetRefs(obj)
  OBVIOUS
<1>1. ASSUME NEW t \in RefType, NEW i \in 1 .. 2, NEW y \in Obj
      PROVE  RefID(y, t, i) \in Piece
  BY DEF RefID, Piece
<1>2. \A p, q \in Piece : Reference(p, q) \in Links
  BY DEF Reference, Links
<1>3. {"AxisAlignedBoundBox", "ProfilePoint", "ProfileLine", "Existence"} \subseteq RefType
  BY DEF RefType
<1>4. CASE obj.kind = "Wall"
  <2>1. obj \in WallsOf(x, Piece) /\ obj.openings = << >>
    BY <1>4, FitsIs
  <2>2. refs = W!GetRefs(obj)
    BY <1>0, <1>4, OfWall
  <2>3. IsSequence(refs) /\ AreWallRefs(refs, obj, x)
    BY <2>1, <2>2, WallRefs, WallRefsSequence
  <2>4. Len(obj.openings) = 0
    BY <2>1, EmptySeq
  <2>5. Len(refs) = 6
    BY <2>3, <2>4 DEF AreWallRefs
  <2>6. ASSUME NEW i \in 1 .. 2 PROVE refs[i] \in Links \cup {None}
    <3>1. refs[i] = SlotOf(obj.pts[i], RefID(x, "ProfilePoint", i))
      BY <2>3 DEF AreWallRefs
    <3>2. obj.pts[i].refer \in Piece \cup {None}
      BY <2>1 DEF WallsOf, Slot
    <3>3. PICK own : own = RefID(x, "ProfilePoint", i)
      OBVIOUS
    <3>4. own \in Piece
      BY <1>1, <1>3, <3>3
    <3>5. QED
      BY <1>2, <3>1, <3>2, <3>3, <3>4 DEF SlotOf
  <2>7. /\ RefID(x, "AxisAlignedBoundBox", 1) \in Piece /\ RefID(x, "ProfileLine", 1) \in Piece
        /\ RefID(x, "ProfilePoint", 1) \in Piece /\ RefID(x, "ProfilePoint", 2) \in Piece
    BY <1>1, <1>3
  <2>8. /\ refs[3] \in Links /\ refs[4] \in Links /\ refs[5] \in Links /\ refs[6] \in Links
    BY <1>2, <2>3, <2>7 DEF AreWallRefs
  <2>9. \A i \in 1 .. 6 : i \in 1 .. 2 \/ i = 3 \/ i = 4 \/ i = 5 \/ i = 6
    OBVIOUS
  <2>10. \A i \in 1 .. Len(refs) : refs[i] \in Links \cup {None}
    BY <2>5, <2>6, <2>8, <2>9
  <2>11. QED
    BY <1>0, <2>3, <2>10, SequenceIn DEF Slot
<1>5. CASE obj.kind = "Sheet"
  <2>1. refs = << >>
    BY <1>0, <1>5, OfSheet
  <2>2. refs \in Seq(Slot(Links)) /\ Len(refs) = 0
    BY <2>1, EmptySeq
  <2>3. QED
    BY <1>0, <2>2, LenProperties
<1>6. CASE obj.kind = "Viewport"
  <2>1. PICK sheet \in Sheets : obj = V!New(x, sheet)
    BY <1>6, FitsIs
  <2>2. refs = V!GetRefs(obj)
    BY <1>0, <1>6, OfViewport
  <2>3. obj.sheet = sheet /\ obj.id = x
    BY <2>1 DEF V!New
  <2>4. PICK p, q : p = RefID(x, "Existence", 1) /\ q = RefID(sheet, "Existence", 1)
    OBVIOUS
  <2>5. refs = <<IF sheet = None THEN None ELSE Reference(p, q)>>
    BY <2>2, <2>3, <2>4 DEF V!GetRefs, V!RefID, V!Reference, RefID, Reference
  <2>6. p \in Piece /\ q \in Piece
    BY <1>1, <1>3, <2>4 DEF Obj
  <2>7. PICK r : r = (IF sheet = None THEN None ELSE Reference(p, q))
    OBVIOUS
  <2>8. r \in Slot(Links)
    BY <1>2, <2>6, <2>7 DEF Slot
  <2>9. refs = <<r>>
    BY <2>5, <2>7
  <2>10. refs \in Seq(Slot(Links))
    BY <2>8, <2>9
  <2>11. QED
    BY <1>0, <2>10, LenProperties
<1>7. QED
  BY <1>4, <1>5, <1>6, FitsIs

\* update_deps: the references are between pieces, and finitely many.
LEMMA DepsTyped ==
    ASSUME NEW deps, deps.refs \in SUBSET Links, IsFiniteSet(deps.refs), NEW m, IsTyped(m)
    PROVE  UpdateDeps(deps, m).refs \in SUBSET Links /\ IsFiniteSet(UpdateDeps(deps, m).refs)
<1>1. PICK old : old = IF m.id \in DOMAIN deps.lists THEN deps.lists[m.id] ELSE << >>
  OBVIOUS
<1>2. PICK new : new = IF m.change = "Delete" THEN [i \in DOMAIN old |-> None] ELSE GetRefs(m.obj)
  OBVIOUS
<1>3. PICK gone : gone = IF m.change = "Add" THEN {}
                         ELSE {old[i] : i \in {j \in Some(old) : j \notin Some(new)}}
  OBVIOUS
<1>4. UpdateDeps(deps, m).refs = (deps.refs \cup {new[i] : i \in Some(new)}) \ gone
  BY <1>1, <1>2, <1>3 DEF UpdateDeps
<1>5. PICK I : I = Some(new)
  OBVIOUS
<1>6. IsFiniteSet(I) /\ \A i \in I : new[i] \in Links
  <2>1. CASE m.change = "Delete"
    <3>1. I = {}
      BY <1>2, <1>5, <2>1 DEF Some
    <3>2. QED
      BY <3>1, FS_EmptySet
  <2>2. CASE m.change # "Delete"
    <3>1. m.id \in Obj /\ Fits(m.id, m.obj) /\ new = GetRefs(m.obj)
      BY <1>2, <2>2 DEF IsTyped, IsMessage
    <3>2. PICK k \in Nat : k = Len(new) /\ new \in Seq(Slot(Links)) /\ DOMAIN new = 1 .. k
      BY <3>1, RefsTyped
    <3>3. IsFiniteSet(1 .. k)
      BY <3>2, FS_Interval
    <3>4. I \in SUBSET (1 .. k)
      BY <1>5, <3>2 DEF Some
    <3>5. \A i \in 1 .. k : new[i] \in Slot(Links)
      BY <3>2, ElementOfSeq
    <3>6. \A i \in I : new[i] \in Links
      BY <1>5, <3>2, <3>5 DEF Some, Slot
    <3>7. QED
      BY <3>3, <3>4, <3>6, FS_Subset
  <2>3. QED
    BY <2>1, <2>2
<1>7. PICK added : added = {new[i] : i \in I}
  OBVIOUS
<1>8. IsFiniteSet(added) /\ added \in SUBSET Links
  <2>1. PICK f : f = [i \in I |-> new[i]]
    OBVIOUS
  <2>2. added = {f[i] : i \in I} /\ DOMAIN f = I
    BY <1>7, <2>1
  <2>3. IsFiniteSet(added)
    BY <1>6, <2>2, ImageIsFinite
  <2>4. QED
    BY <1>6, <1>7, <2>3
<1>9. IsFiniteSet(deps.refs \cup added)
  BY <1>8, FS_Union
<1>10. UpdateDeps(deps, m).refs = (deps.refs \cup added) \ gone
  BY <1>4, <1>5, <1>7
<1>11. IsFiniteSet((deps.refs \cup added) \ gone)
  BY <1>9, FS_Subset
<1>12. QED
  BY <1>8, <1>10, <1>11

\* What a service answers from is the first messages of the log.
LEMMA AsOfIs ==
    ASSUME LogOK, NEW o \in Int, o >= -1, NEW n \in Nat, n <= Len(log)
    PROVE  /\ Len(AsOf(o, n)) \in Nat /\ Len(AsOf(o, n)) <= Len(log)
           /\ \A i \in 1 .. Len(AsOf(o, n)) : AsOf(o, n)[i] = log[i]
<1>1. Len(log) \in Nat /\ DOMAIN log = 1 .. Len(log)
  BY LogIs
<1>2. PICK b : b = IF o < n THEN o + 1 ELSE n
  OBVIOUS
<1>3. b \in Nat /\ b <= Len(log)
  BY <1>1, <1>2
<1>4. PICK s : s = AsOf(o, n)
  OBVIOUS
<1>5. s = SubSeq(log, 1, b)
  BY <1>2, <1>4 DEF AsOf
<1>6. 1 \in Int /\ b \in Int /\ \A i \in 1 .. b : log[i] \in Range(log)
  BY <1>1, <1>3 DEF Range
<1>7. /\ Len(s) = IF 1 <= b THEN b - 1 + 1 ELSE 0
      /\ \A i \in 1 .. b - 1 + 1 : s[i] = log[1 + i - 1]
  BY <1>5, <1>6, SubSeqProperties
<1>8. /\ Len(s) = b
      /\ \A i \in 1 .. b : i \in 1 .. b - 1 + 1 /\ 1 + i - 1 = i
  BY <1>3, <1>7
<1>9. \A i \in 1 .. b : s[i] = log[i]
  BY <1>7, <1>8
<1>10. QED
  BY <1>3, <1>4, <1>8, <1>9

\* The references known at an offset.
LEMMA DependenciesTyped ==
    ASSUME RequestInv, TypeInv, NEW o \in -1 .. Newest, NEW n \in 0 .. Len(log)
    PROVE  Dependencies(o, n) \in SUBSET Links /\ IsFiniteSet(Dependencies(o, n))
<1>1. LogOK /\ o \in Int /\ o >= -1 /\ n \in Nat /\ n <= Len(log)
      /\ Len(log) \in Nat /\ DOMAIN log = 1 .. Len(log)
  BY LogIs DEF RequestInv
<1>2. PICK changes, len, start : /\ changes = AsOf(o, n) /\ len = Len(changes)
                                 /\ start = [lists |-> << >>, refs |-> {}]
  OBVIOUS
<1>3. len \in Nat /\ \A i \in 1 .. len : IsTyped(changes[i])
  <2>1. len \in Nat /\ len <= Len(log) /\ \A i \in 1 .. len : changes[i] = log[i]
    BY <1>1, <1>2, AsOfIs
  <2>2. \A i \in 1 .. len : i \in DOMAIN log
    BY <1>1, <2>1
  <2>3. QED
    BY <2>1, <2>2 DEF TypeInv, AreTyped
<1> DEFINE Step(f, i) == IF i = 0 THEN [lists |-> << >>, refs |-> {}]
                         ELSE UpdateDeps(f[i - 1], changes[i])
           Is(f, k) == f = [i \in 0 .. k |-> Step(f, i)]
           I == {k \in 0 .. len : \E f : Is(f, k)}
<1>4. 0 \in I
  <2>1. PICK f : f = [i \in 0 .. 0 |-> start]
    OBVIOUS
  <2>2. \A i \in 0 .. 0 : i = 0
    OBVIOUS
  <2>3. Is(f, 0)
    BY <1>2, <2>1, <2>2
  <2>4. QED
    BY <1>3, <2>3
<1>5. ASSUME NEW k \in 0 .. len - 1, k \in I PROVE k + 1 \in I
  <2>1. PICK f : Is(f, k)
    BY <1>5
  <2>2. k \in Nat /\ k + 1 \in 0 .. len /\ k + 1 # 0 /\ (k + 1) - 1 = k /\ k \in 0 .. k
    BY <1>3
  <2>3. PICK g : g = [i \in 0 .. k + 1 |->
                         IF i = k + 1 THEN UpdateDeps(f[k], changes[k + 1]) ELSE f[i]]
    OBVIOUS
  <2>4. \A i \in 0 .. k : g[i] = f[i]
    BY <2>2, <2>3
  <2>5. ASSUME NEW i \in 0 .. k + 1 PROVE g[i] = Step(g, i)
    <3>1. CASE i = k + 1
      <4>1. g[i] = UpdateDeps(f[k], changes[k + 1])
        BY <2>2, <2>3, <3>1
      <4>2. g[i - 1] = f[k]
        BY <2>2, <2>4, <3>1
      <4>3. QED
        BY <2>2, <3>1, <4>1, <4>2
    <3>2. CASE i # k + 1
      <4>1. i \in 0 .. k /\ (i # 0 => i - 1 \in 0 .. k)
        BY <2>2, <3>2
      <4>2. f[i] = Step(f, i)
        BY <2>1, <4>1
      <4>3. QED
        BY <2>4, <4>1, <4>2
    <3>3. QED
      BY <3>1, <3>2
  <2>6. Is(g, k + 1)
    <3>1. DOMAIN g = 0 .. k + 1 /\ g = [i \in 0 .. k + 1 |-> g[i]]
      BY <2>3
    <3> HIDE DEF Step
    <3>2. QED
      BY <2>5, <3>1
  <2> HIDE DEF Is
  <2>7. QED
    BY <2>2, <2>6
<1>6. \E f : Is(f, len)
  <2> HIDE DEF I
  <2>1. 0 .. len \subseteq I
    BY <1>3, <1>4, <1>5, UpTo
  <2>2. len \in I
    BY <1>3, <2>1
  <2> HIDE DEF Is
  <2>3. QED
    BY <2>2 DEF I
<1>7. PICK after : after = CHOOSE f : Is(f, len)
  OBVIOUS
<1>8. Is(after, len)
  <2> HIDE DEF Is
  <2>1. QED
    BY <1>6, <1>7
<1>9. Dependencies(o, n) = after[len].refs
  BY <1>2, <1>7 DEF Dependencies
<1> DEFINE J == {k \in 0 .. len : /\ after[k].refs \in SUBSET Links
                                  /\ IsFiniteSet(after[k].refs)}
<1>10. 0 \in J
  <2>1. 0 \in 0 .. len
    BY <1>3
  <2>2. after[0] = [lists |-> << >>, refs |-> {}]
    BY <1>8, <2>1
  <2>3. after[0].refs = {}
    BY <2>2
  <2>4. QED
    BY <2>1, <2>3, FS_EmptySet
<1>11. ASSUME NEW k \in 0 .. len - 1, k \in J PROVE k + 1 \in J
  <2>1. k + 1 \in 0 .. len /\ k + 1 # 0 /\ (k + 1) - 1 = k /\ k + 1 \in 1 .. len
    BY <1>3
  <2>2. after[k + 1] = UpdateDeps(after[k], changes[k + 1])
    BY <1>8, <2>1
  <2>3. after[k].refs \in SUBSET Links /\ IsFiniteSet(after[k].refs)
    BY <1>11
  <2>4. PICK deps, m : deps = after[k] /\ m = changes[k + 1]
    OBVIOUS
  <2>5. deps.refs \in SUBSET Links /\ IsFiniteSet(deps.refs) /\ IsTyped(m)
    BY <1>3, <2>1, <2>3, <2>4
  <2>6. UpdateDeps(deps, m).refs \in SUBSET Links /\ IsFiniteSet(UpdateDeps(deps, m).refs)
    BY <2>5, DepsTyped
  <2>7. QED
    BY <2>1, <2>2, <2>4, <2>6
<1>12. len \in J
  <2> HIDE DEF J
  <2>1. 0 .. len \subseteq J
    BY <1>3, <1>10, <1>11, UpTo
  <2>2. QED
    BY <1>3, <2>1
<1>13. QED
  BY <1>9, <1>12

\* The pieces of changed objects that refer to something.
LEMMA InfoTyped ==
    ASSUME NEW changes, AreTyped(changes), Len(changes) \in Nat,
           DOMAIN changes = 1 .. Len(changes)
    PROVE  ExtractInfo(changes) \in Seq(Piece)
<1> DEFINE Owners(change) ==
               IF change.change = "Delete" THEN << >>
               ELSE LET refs == Subsequence(GetRefs(change.obj), Some(GetRefs(change.obj)))
                    IN  [n \in DOMAIN refs |-> refs[n].owner]
           Is(f) == f = [n \in 0 .. Len(changes) |->
                            IF n = 0 THEN << >> ELSE f[n - 1] \o Owners(changes[n])]
<1>1. ASSUME NEW m, IsTyped(m) PROVE Owners(m) \in Seq(Piece)
  <2>1. CASE m.change = "Delete"
    BY <2>1
  <2>2. CASE m.change # "Delete"
    <3>1. m.id \in Obj /\ Fits(m.id, m.obj)
      BY <1>1, <2>2 DEF IsTyped, IsMessage
    <3>2. PICK s : s = GetRefs(m.obj)
      OBVIOUS
    <3>3. s \in Seq(Slot(Links)) /\ DOMAIN s = 1 .. Len(s) /\ Len(s) \in Nat
      BY <3>1, <3>2, RefsTyped
    <3>4. PICK I, refs : I = Some(s) /\ refs = Subsequence(s, I)
      OBVIOUS
    <3>5. PICK at : Selects(at, refs, s, I, Len(s))
      BY <3>3, <3>4, SubsequenceIs
    <3>6. refs \in Seq(Slot(Links)) /\ Len(refs) \in Nat /\ DOMAIN refs = 1 .. Len(refs)
      BY <3>3, <3>4, SubsequenceIs, LenProperties
    <3>7. ASSUME NEW k \in 1 .. Len(refs) PROVE refs[k].owner \in Piece
      <4>1. refs[k] = s[at[k]] /\ at[k] \in I
        BY <3>5 DEF Selects
      <4>2. refs[k] \in Slot(Links) /\ refs[k] # None
        BY <3>4, <3>6, <4>1, ElementOfSeq DEF Some
      <4>3. QED
        BY <4>2 DEF Slot, Links
    <3>8. PICK owners : owners = [n \in DOMAIN refs |-> refs[n].owner]
      OBVIOUS
    <3>9. owners \in [1 .. Len(refs) -> Piece]
      BY <3>6, <3>7, <3>8
    <3>10. owners \in Seq(Piece)
      BY <3>6, <3>9, IsSeq
    <3>11. Owners(m) = owners
      BY <2>2, <3>2, <3>4, <3>8
    <3>12. QED
      BY <3>10, <3>11
  <2>3. QED
    BY <2>1, <2>2
<1>2. PICK n, T : n = Len(changes) /\ T = Seq(Piece)
  OBVIOUS
<1>3. PICK step : step = [i \in 1 .. n |-> [s \in T |-> s \o Owners(changes[i])]]
  OBVIOUS
<1>4. \A i \in 1 .. n : \A s \in T : s \o Owners(changes[i]) \in T
  <2> SUFFICES ASSUME NEW i \in 1 .. n, NEW s \in T PROVE s \o Owners(changes[i]) \in T
    OBVIOUS
  <2>1. IsTyped(changes[i])
    BY <1>2 DEF AreTyped
  <2>2. Owners(changes[i]) \in Seq(Piece)
    BY <1>1, <2>1
  <2> HIDE DEF Owners
  <2>3. PICK t : t = Owners(changes[i])
    OBVIOUS
  <2>4. QED
    BY <1>2, <2>2, <2>3, ConcatIs
<1>5. step \in [1 .. n -> [T -> T]]
  <2> HIDE DEF Owners
  <2>1. QED
    BY <1>3, <1>4
<1>6. << >> \in T /\ n \in Nat
  BY <1>2, EmptySeq
<1>7. PICK f : Steps(f, n, T, << >>, step)
  BY <1>5, <1>6, Recursion
<1>8. Is(f)
  <2>1. f \in [0 .. n -> T] /\ f[0] = << >>
    BY <1>7 DEF Steps
  <2>2. ASSUME NEW i \in 0 .. n, i # 0 PROVE f[i] = f[i - 1] \o Owners(changes[i])
    <3>1. i \in 1 .. n /\ i - 1 \in 0 .. n
      BY <1>6, <2>2
    <3>2. f[i] = step[i][f[i - 1]] /\ f[i - 1] \in T
      BY <1>7, <2>1, <3>1 DEF Steps
    <3> HIDE DEF Owners
    <3>3. QED
      BY <1>3, <3>1, <3>2
  <2> HIDE DEF Owners
  <2>3. QED
    BY <1>2, <2>1, <2>2
<1>9. PICK of : of = CHOOSE g : Is(g)
  OBVIOUS
<1>10. Is(of)
  <2> HIDE DEF Is
  <2>1. QED
    BY <1>8, <1>9
<1>11. ExtractInfo(changes) = of[Len(changes)]
  BY <1>9 DEF ExtractInfo
<1> DEFINE J == {k \in 0 .. n : of[k] \in T}
<1>12. 0 \in J
  <2>1. 0 \in 0 .. n
    BY <1>6
  <2>2. of[0] = << >>
    BY <1>2, <1>10, <2>1
  <2>3. QED
    BY <1>6, <2>1, <2>2
<1>13. ASSUME NEW k \in 0 .. n - 1, k \in J PROVE k + 1 \in J
  <2>1. k + 1 \in 0 .. n /\ k + 1 # 0 /\ (k + 1) - 1 = k /\ k + 1 \in 1 .. n
    BY <1>6
  <2>2. of[k + 1] = of[k] \o Owners(changes[k + 1])
    <3> HIDE DEF Owners
    <3>1. QED
      BY <1>2, <1>10, <2>1
  <2> HIDE DEF Owners
  <2>3. QED
    BY <1>4, <1>13, <2>1, <2>2
<1>14. n \in J
  <2> HIDE DEF J
  <2>1. 0 .. n \subseteq J
    BY <1>6, <1>12, <1>13, UpTo
  <2>2. QED
    BY <1>6, <2>1
<1>15. QED
  BY <1>2, <1>11, <1>14

\* What the dependencies service answers.
LEMMA FindTyped ==
    ASSUME RequestInv, TypeInv, NEW c \in Client, GetAllDependencies(c)
    PROVE  TypeInv'
<1>1. PICK call \in Range(req) : call = req[c]
  BY DEF RequestInv, Range
<1>2. CallOK(call) /\ CallTyped(call) /\ DOMAIN req = Client
  BY DEF RequestInv, TypeInv
<1>3. PICK starts, o : starts = ExtractInfo(call.changes) /\ o = call.offset
  OBVIOUS
<1>4. PICK n \in known .. Len(log) :
          /\ \E refs \in GetAllDeps(Dependencies(req[c].offset, n), ExtractInfo(req[c].changes)) :
                req' = [req EXCEPT ![c].pc = "found", ![c].refs = refs,
                                   ![c].stale = @ \/ (ExtractInfo(req[c].changes) # << >>
                                                      /\ n <= req[c].offset)]
          /\ \/ Skips(known, n)
             \/ Reads(known, req[c].offset, n)
          /\ known' = n
          /\ log' = log /\ stored' = stored /\ requests' = requests
          /\ disturbed' = disturbed /\ crossed' = crossed
  BY Zenon DEF GetAllDependencies
<1>5. PICK late : late = (starts # << >> /\ n <= o)
  OBVIOUS
<1>6. PICK refs \in GetAllDeps(Dependencies(o, n), starts) :
          req' = [req EXCEPT ![c].pc = "found", ![c].refs = refs, ![c].stale = @ \/ late]
  BY <1>1, <1>3, <1>4, <1>5, Zenon
<1>7. LogOK /\ Len(log) \in Nat
  BY LogIs DEF RequestInv
<1>8. n \in 0 .. Len(log)
  BY <1>4, <1>7 DEF TypeInv
<1>9. starts \in Seq(Piece)
  <2>1. Len(call.changes) \in Nat /\ DOMAIN call.changes = 1 .. Len(call.changes)
    BY <1>2, SequenceIs DEF CallOK, AreChanges
  <2>2. PICK changes : changes = call.changes
    OBVIOUS
  <2>3. QED
    BY <1>2, <1>3, <2>1, <2>2, InfoTyped DEF CallTyped
<1>10. PICK deps : deps = Dependencies(o, n)
  OBVIOUS
<1>11. deps \in SUBSET Links /\ IsFiniteSet(deps)
  BY <1>2, <1>3, <1>8, <1>10, DependenciesTyped DEF CallOK
<1>12. Len(refs) \in Nat
  BY <1>6, <1>9, <1>10, <1>11, GetAllDepsIs DEF Links
<1>13. PICK after : after = [call EXCEPT !.pc = "found", !.refs = refs, !.stale = @ \/ late]
  OBVIOUS
<1>14. req' = [req EXCEPT ![c] = after]
  BY <1>1, <1>6, <1>13
<1>15. /\ after.pc = "found" /\ after.refs = refs
       /\ after.changes = call.changes /\ after.batch = call.batch
  BY <1>2, <1>13 DEF CallOK, CallFields
<1>16. CallTyped(after)
  BY <1>2, <1>12, <1>15 DEF CallTyped
<1>17. faults' \in 0 .. MaxFaults
  BY <1>4, ReadsTyped DEF TypeInv
<1>18. stored' \in 0 .. Len(log) /\ known' \in 0 .. Len(log)
       /\ requests' \in 0 .. MaxRequests /\ disturbed' \cup crossed' \subseteq Obj
  BY <1>4, <1>8 DEF TypeInv
<1>19. QED
  BY <1>2, <1>4, <1>14, <1>16, <1>17, <1>18, OneTyped

-----------------------------------------------------------------------------
(* The types of objects that follow *)

\* What an update has made of objects: those that are not there stay so, the
\* others fit.
StillFit(objs, now, S) == \A x \in S : IF objs[x] = None THEN now[x] = None ELSE Fits(x, now[x])

\* A point that an object evaluates to is a coordinate.
LEMMA PointsFit ==
    ASSUME NEW x \in Obj, NEW obj, Fits(x, obj), NEW t, NEW i, NEW result,
           result = GetResult(obj, t, i), result # None, result.kind = "Point"
    PROVE  result.at \in Int
<1>1. CASE obj.kind = "Wall"
  <2>1. obj \in WallsOf(x, Piece) /\ IsWall(obj, x) /\ obj.openings = << >>
    BY <1>1, FitsIs
  <2>2. result = W!GetResult(obj, t, i)
    BY <1>1, OfWall
  <2>3. DOMAIN obj.openings = {} /\ DOMAIN obj.pts = 1 .. 2
    BY <2>1 DEF WallsOf
  <2>4. /\ W!Empty.kind = "Empty"
        /\ \A p, q : W!Cube(p, q).kind = "Cube" /\ W!Line(p, q).kind = "Line"
    BY DEF W!Empty, W!Cube, W!Line
  <2>5. CASE t = "ProfilePoint" /\ i \in 1 .. 2
    <3>1. result = obj.pts[i].info
      BY <2>1, <2>2, <2>5, WallResult
    <3>2. QED
      BY <2>1, <2>5, <3>1 DEF IsWall
  <2>6. CASE ~ (t = "ProfilePoint" /\ i \in 1 .. 2)
    <3>1. result \in {W!Empty, W!Cube(W!First(obj), W!Second(obj)),
                      W!Line(W!First(obj), W!Second(obj)), None}
      BY <2>2, <2>3, <2>6 DEF W!GetResult
    <3>2. QED
      BY <2>4, <3>1
  <2>7. QED
    BY <2>5, <2>6
<1>2. CASE obj.kind = "Sheet"
  <2>1. result = P!GetResult(obj, t, i)
    BY <1>2, OfSheet
  <2>2. result = P!Empty
    BY <2>1 DEF P!GetResult
  <2>3. QED
    BY <2>2 DEF P!Empty
<1>3. CASE obj.kind = "Viewport"
  <2>1. result = V!GetResult(obj, t, i)
    BY <1>3, OfViewport
  <2>2. result = V!Empty
    BY <2>1 DEF V!GetResult
  <2>3. QED
    BY <2>2 DEF V!Empty
<1>4. QED
  BY <1>1, <1>2, <1>3, FitsIs

\* An object that follows a reference: the end of a wall is a coordinate then.
LEMMA FollowsFits ==
    ASSUME NEW x \in Obj, NEW obj, Fits(x, obj), NEW t, NEW i, NEW result \in Results,
           result = None \/ (result.kind = "Point" => result.at \in Int)
    PROVE  Fits(x, SetAssociatedResult(obj, t, i, result))
<1>1. CASE obj.kind # "Wall"
  <2>1. obj.kind \in {"Sheet", "Viewport"}
    BY <1>1, FitsIs
  <2>2. SetAssociatedResult(obj, t, i, result) = obj
    BY <2>1, OfSheet, OfViewport
  <2>3. QED
    BY <2>2
<1>2. CASE obj.kind = "Wall"
  <2>1. x \in Walls /\ obj \in WallsOf(x, Piece) /\ IsWall(obj, x) /\ obj.openings = << >>
    BY <1>2, FitsIs
  <2>2. PICK after : after = W!SetAssociatedResult(obj, t, i, result)
    OBVIOUS
  <2>3. SetAssociatedResult(obj, t, i, result) = after
    BY <1>2, <2>2, OfWall
  <2>4. after \in WallsOf(x, Piece)
    BY <2>1, <2>2, Assumed, WallFollows
  <2>5. /\ DOMAIN obj.openings = {} /\ DOMAIN obj.pts = 1 .. 2
        /\ "pts" \in DOMAIN obj /\ "openings" \in DOMAIN obj
    BY <2>1 DEF WallsOf
  <2>6. CASE t = "ProfilePoint" /\ i \in 1 .. 2
    <3>1. PICK u : u = W!Updated(obj.pts[i], result)
      OBVIOUS
    <3>2. after = [obj EXCEPT !.pts[i] = u]
      BY <2>2, <2>6, <3>1 DEF W!SetAssociatedResult
    <3>3. /\ after.openings = << >> /\ after.pts[i] = u
          /\ \A k \in 1 .. 2 : k # i => after.pts[k] = obj.pts[k]
      BY <2>1, <2>5, <2>6, <3>2
    <3>4. obj.pts[i] \in [refer : Slot(Piece), info : PointResults]
      BY <2>1, <2>6 DEF WallsOf
    <3>5. u.refer \in {obj.pts[i].refer, None}
      BY <3>1, <3>4, FollowingPoint
    <3>6. u.info = obj.pts[i].info \/ (result # None /\ result.kind = "Point" /\ u.info = result)
      <4>1. obj.pts[i].info.kind = "Point"
        BY <2>1, <2>6 DEF IsWall
      <4>2. QED
        BY <3>1, <3>4, <4>1 DEF W!Updated
    <3>7. u.info.at \in Int
      BY <2>1, <2>6, <3>6 DEF IsWall
    <3>8. \A k \in 1 .. 2 :
              /\ after.pts[k].info.at \in Int
              /\ after.pts[k].refer # None =>
                     /\ after.pts[k].refer.id \in Walls \ {x}
                     /\ after.pts[k].refer.ref_type = "ProfilePoint"
      BY <2>1, <3>3, <3>5, <3>7 DEF IsWall
    <3>9. QED
      BY <2>1, <2>3, <2>4, <3>3, <3>8, WallFits
  <2>7. CASE ~ (t = "ProfilePoint" /\ i \in 1 .. 2)
    <3>1. after = obj
      BY <2>2, <2>5, <2>7 DEF W!SetAssociatedResult
    <3>2. QED
      BY <2>3, <3>1
  <2>8. QED
    BY <2>6, <2>7
<1>3. QED
  BY <1>1, <1>2

\* One reference is followed.
LEMMA ReferenceFits ==
    ASSUME NEW S \in SUBSET Obj, NEW objs, NEW now \in ObjectsOn(S, Piece),
           StillFit(objs, now, S), NEW ref
    PROVE  StillFit(objs, UpdateReference(now, ref), S)
<1>1. CASE ~ Affects(now, ref, S)
  <2>1. UpdateReference(now, ref) = now
    BY <1>1, ReferenceSkipped
  <2>2. QED
    BY <2>1
<1>2. CASE Affects(now, ref, S)
  <2>1. PICK w, result : w = ref.owner.id /\ result = GetRefResult(now, ref.other)
    OBVIOUS
  <2>2. w \in S /\ now[w] # None
    BY <1>2, <2>1 DEF Affects
  <2>3. objs[w] # None /\ Fits(w, now[w])
    BY <2>2 DEF StillFit
  <2>4. PICK after : after = UpdateReference(now, ref)
    OBVIOUS
  <2>5. /\ after[w] = SetAssociatedResult(now[w], ref.owner.ref_type, ref.owner.index, result)
        /\ \A x \in S : x # w => after[x] = now[x]
    <3>1. PICK new : new = SetAssociatedResult(now[w], ref.owner.ref_type, ref.owner.index, result)
      OBVIOUS
    <3>2. after = [now EXCEPT ![w] = new]
      BY <1>2, <2>1, <2>4, <3>1, UpdateIs
    <3>3. DOMAIN now = S
      BY DEF ObjectsOn
    <3>4. QED
      BY <2>2, <3>1, <3>2, <3>3
  <2>6. result \in Results
    BY <2>1, ResultOfPiece
  <2>7. result = None \/ (result.kind = "Point" => result.at \in Int)
    <3> SUFFICES ASSUME result # None, result.kind = "Point" PROVE result.at \in Int
      OBVIOUS
    <3>1. PICK r : r = ref.other
      OBVIOUS
    <3>2. DOMAIN now = S
      BY DEF ObjectsOn
    <3>3. /\ r.id \in S /\ now[r.id] # None
          /\ result = GetResult(now[r.id], r.ref_type, r.index)
      BY <2>1, <3>1, <3>2 DEF GetRefResult
    <3>4. Fits(r.id, now[r.id]) /\ r.id \in Obj
      BY <3>3 DEF StillFit
    <3>5. QED
      BY <3>3, <3>4, PointsFit
  <2>8. w \in Obj
    BY <2>2
  <2>9. Fits(w, after[w])
    <3>1. PICK obj : obj = now[w]
      OBVIOUS
    <3>2. QED
      BY <2>3, <2>5, <2>6, <2>7, <2>8, <3>1, FollowsFits
  <2>10. QED
    BY <2>2, <2>3, <2>4, <2>5, <2>9 DEF StillFit
<1>3. QED
  BY <1>1, <1>2

\* All references are followed, one after the other.
LEMMA UpdateFits ==
    ASSUME NEW S \in SUBSET Obj, NEW objs \in ObjectsOn(S, Piece), StillFit(objs, objs, S),
           NEW refs, Len(refs) \in Nat
    PROVE  StillFit(objs, UpdateAll(objs, refs), S)
<1>0. NoneIsApart(Piece)
  BY Assumed
<1>1. PICK after : UpdatesBy(after, objs, refs)
  BY <1>0, UpdatedInSteps
<1> DEFINE J == {k \in 0 .. Len(refs) : StillFit(objs, after[k], S)}
<1>2. 0 \in J
  BY <1>1 DEF UpdatesBy
<1>3. ASSUME NEW k \in 0 .. Len(refs) - 1, k \in J PROVE k + 1 \in J
  <2>1. k \in 0 .. Len(refs) /\ k + 1 \in 0 .. Len(refs) /\ k + 1 \in 1 .. Len(refs)
        /\ (k + 1) - 1 = k
    OBVIOUS
  <2>2. after[k + 1] = UpdateReference(after[k], refs[k + 1])
    BY <1>1, <2>1 DEF UpdatesBy
  <2>3. after[k] \in ObjectsOn(S, Piece)
    BY <1>0, <1>1, <2>1, UpdatedTyped
  <2>4. PICK now, ref : now = after[k] /\ ref = refs[k + 1]
    OBVIOUS
  <2>5. StillFit(objs, UpdateReference(now, ref), S)
    BY <1>3, <2>3, <2>4, ReferenceFits
  <2>6. QED
    BY <2>1, <2>2, <2>4, <2>5
<1>4. Len(refs) \in J
  <2> HIDE DEF J
  <2>1. 0 .. Len(refs) \subseteq J
    BY <1>2, <1>3, UpTo
  <2>2. QED
    BY <2>1
<1>5. QED
  BY <1>1, <1>4 DEF UpdatesBy

\* update_objects: the changes keep their objects and kinds, and fit.
LEMMA ChangesUpdated ==
    ASSUME NEW changes, AreChanges(changes), AreTyped(changes), AreApart(changes),
           NEW refs, Len(refs) \in Nat
    PROVE  AreTyped(UpdateObjects(changes, refs)) /\ AreApart(UpdateObjects(changes, refs))
<1>1. PICK S, objs :
          /\ S = IdsOf(changes)
          /\ objs = [x \in S |-> changes[CHOOSE n \in DOMAIN changes : changes[n].id = x].obj]
  OBVIOUS
<1>2. PICK updated, batch :
          /\ updated = UpdateAll(objs, refs)
          /\ batch = [n \in DOMAIN changes |->
                         [changes[n] EXCEPT !.obj = updated[changes[n].id]]]
  OBVIOUS
<1>3. UpdateObjects(changes, refs) = batch
  BY <1>1, <1>2 DEF UpdateObjects
<1>4. ASSUME NEW n \in DOMAIN changes
      PROVE  changes[n].id \in S /\ objs[changes[n].id] = changes[n].obj
  <2>1. PICK x, k : x = changes[n].id /\ k = CHOOSE l \in DOMAIN changes : changes[l].id = x
    OBVIOUS
  <2>2. k \in DOMAIN changes /\ changes[k].id = x
    BY <2>1
  <2>3. k = n
    BY <2>1, <2>2 DEF AreApart
  <2>4. x \in S
    BY <1>1, <2>1 DEF IdsOf
  <2>5. objs[x] = changes[k].obj
    BY <1>1, <2>1, <2>4
  <2>6. QED
    BY <2>1, <2>3, <2>4, <2>5
<1>5. ASSUME NEW x \in S PROVE \E n \in DOMAIN changes : changes[n].id = x
  BY <1>1 DEF IdsOf
<1>6. ASSUME NEW n \in DOMAIN changes
      PROVE  LET m == changes[n]
             IN  m.id \in Obj /\ IF m.change = "Delete" THEN m.obj = None ELSE Fits(m.id, m.obj)
  BY DEF AreTyped, IsTyped, IsMessage
<1>7. S \in SUBSET Obj
  BY <1>5, <1>6
<1>8. ASSUME NEW x \in S PROVE objs[x] = None \/ Fits(x, objs[x])
  <2>1. PICK n \in DOMAIN changes : changes[n].id = x
    BY <1>5
  <2>2. QED
    BY <1>4, <1>6, <2>1
<1>9. objs \in ObjectsOn(S, Piece)
  <2>1. \A x \in S : objs[x] = None \/ objs[x] \in Objects(x, Piece)
    BY <1>8 DEF Fits
  <2>2. DOMAIN objs = S /\ objs = [x \in S |-> objs[x]]
    BY <1>1
  <2>3. \A x \in S : objs[x] \in (UNION {Objects(y, Piece) : y \in S}) \cup {None}
    BY <2>1
  <2>4. QED
    BY <2>1, <2>2, <2>3 DEF ObjectsOn
<1>10. StillFit(objs, objs, S)
  BY <1>8 DEF StillFit
<1>11. StillFit(objs, updated, S)
  BY <1>2, <1>7, <1>9, <1>10, UpdateFits
<1>12. ASSUME NEW n \in DOMAIN changes
       PROVE  IsTyped(batch[n]) /\ batch[n].id = changes[n].id
  <2>1. PICK x, kind, obj : x = changes[n].id /\ kind = changes[n].change /\ obj = updated[x]
    OBVIOUS
  <2>2. changes[n] = Change(kind, x, changes[n].obj) /\ kind \in Kinds
    BY <2>1 DEF AreChanges, IsChange
  <2>3. batch[n] = [changes[n] EXCEPT !.obj = obj]
    BY <1>2, <2>1
  <2>4. batch[n] = Change(kind, x, obj)
    BY <2>2, <2>3 DEF Change
  <2>5. x \in S /\ objs[x] = changes[n].obj /\ x \in Obj
    BY <1>4, <1>7, <2>1
  <2>6. IF objs[x] = None THEN obj = None ELSE Fits(x, obj)
    BY <1>11, <2>1, <2>5 DEF StillFit
  <2>7. IF kind = "Delete" THEN obj = None ELSE Fits(x, obj)
    BY <1>6, <2>1, <2>5, <2>6
  <2>8. QED
    BY <2>1, <2>2, <2>4, <2>5, <2>7, ChangeTyped
<1>13. DOMAIN batch = DOMAIN changes
  BY <1>2
<1>14. AreTyped(batch) /\ AreApart(batch)
  BY <1>12, <1>13 DEF AreTyped, AreApart
<1>15. QED
  BY <1>3, <1>14

\* What is fetched: other objects than those that change.
LEMMA FetchedTyped ==
    ASSUME RequestInv, TypeInv, NEW o \in -1 .. Newest, NEW n \in stored .. Len(log),
           NEW wanted, NEW fetched, IsFetched(fetched, wanted, o, n)
    PROVE  /\ AreTyped(fetched) /\ AreApart(fetched)
           /\ \A i \in DOMAIN fetched :
                 fetched[i].id \in wanted /\ fetched[i] = GetObject(fetched[i].id, o, n)
<1>1. PICK ids : ids = {x \in wanted : GetObject(x, o, n) # None}
  OBVIOUS
<1>2. PICK order \in SetToSeqs(ids) :
          fetched = [i \in DOMAIN order |-> GetObject(order[i], o, n)]
  BY <1>1, Zenon DEF IsFetched
<1>3. /\ \A i \in DOMAIN order : order[i] \in ids
      /\ \A i, j \in DOMAIN order : order[i] = order[j] => i = j
  BY <1>2 DEF SetToSeqs, IsInjective
<1>4. ASSUME NEW i \in DOMAIN order
      PROVE  /\ IsTyped(fetched[i]) /\ fetched[i].id = order[i] /\ order[i] \in wanted
             /\ fetched[i] = GetObject(order[i], o, n)
  <2>1. PICK x : x = order[i]
    OBVIOUS
  <2>2. x \in wanted /\ GetObject(x, o, n) # None
    BY <1>1, <1>3, <2>1
  <2>3. fetched[i] = GetObject(x, o, n)
    BY <1>2, <2>1
  <2>4. QED
    BY <2>1, <2>2, <2>3, FoundTyped
<1>5. DOMAIN fetched = DOMAIN order
  BY <1>2
<1>6. QED
  BY <1>3, <1>4, <1>5 DEF AreTyped, AreApart

\* Changes of some objects, then changes of others.
LEMMA ConcatTyped ==
    ASSUME NEW s, NEW t, AreChanges(s), AreChanges(t), AreTyped(s), AreTyped(t),
           AreApart(s), AreApart(t), \A j \in DOMAIN t : t[j].id \notin IdsOf(s)
    PROVE  AreChanges(s \o t) /\ AreTyped(s \o t) /\ AreApart(s \o t)
<1>1. PICK T, a, b, u : T = Range(s) \cup Range(t) /\ a = Len(s) /\ b = Len(t) /\ u = s \o t
  OBVIOUS
<1>2. IsSequence(s) /\ IsSequence(t)
  BY DEF AreChanges
<1>3. /\ a \in Nat /\ DOMAIN s = 1 .. a /\ b \in Nat /\ DOMAIN t = 1 .. b
  BY <1>1, <1>2, SequenceIs
<1>4. s \in Seq(T) /\ t \in Seq(T)
  <2>1. (\A i \in 1 .. a : s[i] \in T) /\ (\A i \in 1 .. b : t[i] \in T)
    BY <1>1, <1>3 DEF Range
  <2>2. QED
    BY <1>1, <1>2, <2>1, SequenceIn
<1>5. u \in Seq(T) /\ Joins(u, s, t)
  BY <1>1, <1>4, ConcatIs
<1>6. /\ Len(u) = a + b /\ DOMAIN u = 1 .. a + b
      /\ \A i \in 1 .. a : u[i] = s[i]
      /\ \A i \in 1 .. b : u[a + i] = t[i]
  <2>1. DOMAIN u = 1 .. Len(u)
    BY <1>5, LenProperties
  <2>2. QED
    BY <1>1, <1>5, <2>1 DEF Joins
<1>7. ASSUME NEW i \in 1 .. a + b, i \notin 1 .. a
      PROVE  i - a \in 1 .. b /\ u[i] = t[i - a]
  <2>1. i - a \in 1 .. b /\ a + (i - a) = i
    BY <1>3, <1>7
  <2>2. QED
    BY <1>6, <2>1
<1>8. \A i \in 1 .. a + b : IsTyped(u[i])
  BY <1>3, <1>6, <1>7 DEF AreTyped
<1>9. IsSequence(u) /\ \A i \in 1 .. a + b : IsChange(u[i])
  BY <1>5, <1>8, SequenceOf DEF IsTyped
<1>10. ASSUME NEW i \in 1 .. a + b, NEW j \in 1 .. a + b, u[i].id = u[j].id
       PROVE  i = j
  <2>1. \A k \in 1 .. a : s[k].id \in IdsOf(s)
    BY <1>3 DEF IdsOf
  <2>2. CASE i \in 1 .. a /\ j \in 1 .. a
    BY <1>3, <1>6, <1>10, <2>2 DEF AreApart
  <2>3. CASE i \in 1 .. a /\ j \notin 1 .. a
    BY <1>3, <1>6, <1>7, <1>10, <2>1, <2>3
  <2>4. CASE i \notin 1 .. a /\ j \in 1 .. a
    BY <1>3, <1>6, <1>7, <1>10, <2>1, <2>4
  <2>5. CASE i \notin 1 .. a /\ j \notin 1 .. a
    <3>1. i - a = j - a
      BY <1>3, <1>7, <1>10, <2>5 DEF AreApart
    <3>2. QED
      BY <1>3, <3>1
  <2>6. QED
    BY <2>2, <2>3, <2>4, <2>5
<1>11. QED
  BY <1>1, <1>6, <1>8, <1>9, <1>10 DEF AreChanges, AreTyped, AreApart

\* The objects that follow are added, and the batch is updated.
LEMMA UpdateTyped ==
    ASSUME RequestInv, TypeInv, NEW c \in Client, UpdateChanges(c)
    PROVE  TypeInv'
<1>1. PICK call \in Range(req) : call = req[c]
  BY DEF RequestInv, Range
<1>2. CallOK(call) /\ CallTyped(call) /\ LogOK /\ Newest \in Int /\ DOMAIN req = Client
  BY LogIs DEF RequestInv, TypeInv
<1>3. PICK n \in stored .. Len(log) :
          /\ call.pc = "found"
          /\ \E order \in SetToSeqs({x \in GetObjIdsToFetch(req[c]) :
                                         GetObject(x, req[c].offset, n) # None}) :
                \E batch :
                   /\ batch = UpdateObjects(req[c].changes \o
                                 [i \in DOMAIN order |-> GetObject(order[i], req[c].offset, n)],
                                 req[c].refs)
                   /\ req' = [req EXCEPT
                         ![c].pc = "sending", ![c].changes = << >>, ![c].refs = << >>,
                         ![c].batch = batch, ![c].unsent = DOMAIN batch,
                         ![c].at = [i \in DOMAIN batch |-> -1],
                         ![c].stale = @ \/ (GetObjIdsToFetch(req[c]) # {} /\ n <= req[c].offset)]
          /\ Skips(stored, n) \/ Reads(stored, req[c].offset, n)
          /\ stored' = n
          /\ log' = log /\ known' = known /\ requests' = requests
          /\ disturbed' = disturbed /\ crossed' = crossed
  BY <1>1, ZenonT(30) DEF UpdateChanges
<1>4. PICK o, wanted : o = call.offset /\ wanted = GetObjIdsToFetch(call)
  OBVIOUS
<1>5. o \in -1 .. Newest
  BY <1>2, <1>4 DEF CallOK
<1>6. PICK ids : ids = {x \in wanted : GetObject(x, o, n) # None}
  OBVIOUS
<1>7. ids = {x \in GetObjIdsToFetch(req[c]) : GetObject(x, req[c].offset, n) # None}
  BY <1>1, <1>4, <1>6
<1>8. PICK order \in SetToSeqs(ids) :
          \E batch :
              /\ batch = UpdateObjects(req[c].changes \o
                            [i \in DOMAIN order |-> GetObject(order[i], req[c].offset, n)],
                            req[c].refs)
              /\ req' = [req EXCEPT
                    ![c].pc = "sending", ![c].changes = << >>, ![c].refs = << >>,
                    ![c].batch = batch, ![c].unsent = DOMAIN batch,
                    ![c].at = [i \in DOMAIN batch |-> -1],
                    ![c].stale = @ \/ (GetObjIdsToFetch(req[c]) # {} /\ n <= req[c].offset)]
  BY <1>3, <1>7, Zenon
<1>9. PICK fetched : fetched = [i \in DOMAIN order |-> GetObject(order[i], o, n)]
  OBVIOUS
<1>10. IsFetched(fetched, wanted, o, n)
  BY <1>6, <1>8, <1>9, Zenon DEF IsFetched
<1>11. /\ AreChanges(fetched) /\ AreTyped(fetched) /\ AreApart(fetched)
       /\ \A i \in DOMAIN fetched : fetched[i].id \in wanted
  <2>1. n \in Nat /\ n <= Len(log)
    BY ReadIs
  <2>2. AreChanges(fetched)
    BY <1>2, <1>5, <1>10, <2>1, FetchedIs
  <2>3. QED
    BY <1>5, <1>10, <2>2, FetchedTyped
<1>12. PICK late : late = (wanted # {} /\ n <= o)
  BY SMTT(30)
<1>13. PICK batch :
          /\ batch = UpdateObjects(call.changes \o fetched, call.refs)
          /\ req' = [req EXCEPT
                ![c].pc = "sending", ![c].changes = << >>, ![c].refs = << >>,
                ![c].batch = batch, ![c].unsent = DOMAIN batch,
                ![c].at = [i \in DOMAIN batch |-> -1], ![c].stale = @ \/ late]
  BY <1>1, <1>4, <1>8, <1>9, <1>12, Zenon
<1>14. PICK own, all, refs : own = call.changes /\ all = own \o fetched /\ refs = call.refs
  OBVIOUS
<1>15. \A i \in DOMAIN fetched : fetched[i].id \notin IdsOf(own)
  BY <1>4, <1>11, <1>14 DEF GetObjIdsToFetch
<1>16. AreChanges(own) /\ AreTyped(own) /\ AreApart(own) /\ Len(refs) \in Nat
  BY <1>2, <1>14 DEF CallOK, CallTyped
<1>17. AreChanges(all) /\ AreTyped(all) /\ AreApart(all)
  BY <1>11, <1>14, <1>15, <1>16, ConcatTyped
<1>18. batch = UpdateObjects(all, refs)
  BY <1>13, <1>14
<1>19. AreTyped(batch) /\ AreApart(batch)
  BY <1>16, <1>17, <1>18, ChangesUpdated
<1>20. PICK after : after = [call EXCEPT
           !.pc = "sending", !.changes = << >>, !.refs = << >>, !.batch = batch,
           !.unsent = DOMAIN batch, !.at = [i \in DOMAIN batch |-> -1], !.stale = @ \/ late]
  OBVIOUS
<1>21. req' = [req EXCEPT ![c] = after]
  BY <1>1, <1>13, <1>20
<1>22. /\ after.pc = "sending" /\ after.changes = << >> /\ after.refs = << >>
       /\ after.batch = batch
  BY <1>2, <1>20 DEF CallOK, CallFields
<1>23. DOMAIN << >> = {} /\ Len(<< >>) = 0
  BY EmptySeq
<1>24. CallTyped(after)
  BY <1>19, <1>22, <1>23 DEF CallTyped, AreTyped, AreApart
<1>25. stored' \in 0 .. Len(log)
  <2>1. stored' = n
    BY <1>3, Zenon
  <2>2. n \in 0 .. Len(log)
    BY ReadIs
  <2>3. QED
    BY <2>1, <2>2
<1>26. faults' \in 0 .. MaxFaults
  BY <1>3, ReadsTyped, Zenon DEF TypeInv
<1>27. QED
  BY <1>2, <1>3, <1>21, <1>24, <1>25, <1>26, OneTyped, ZenonT(30) DEF TypeInv

\* A message of a batch is delivered.
LEMMA DeliverTyped ==
    ASSUME RequestInv, TypeInv, NEW c \in Client, NEW i \in req[c].unsent, Deliver(c, i),
           faults' \in 0 .. MaxFaults
    PROVE  TypeInv'
<1>1. PICK call \in Range(req) : call = req[c]
  BY DEF RequestInv, Range
<1>2. CallOK(call) /\ CallTyped(call) /\ LogOK /\ DOMAIN req = Client
  BY DEF RequestInv, TypeInv
<1>3. i \in DOMAIN call.batch
  BY <1>1, <1>2 DEF CallOK
<1>4. PICK m, k : m = call.batch[i] /\ k = Len(log)
  OBVIOUS
<1>5. PICK after : after = [call EXCEPT !.unsent = @ \ {i}, !.at[i] = k]
  OBVIOUS
<1>6. /\ log' = Append(log, m) /\ stored' = stored /\ known' = known
      /\ requests' = requests /\ disturbed' = disturbed
      /\ crossed' \subseteq crossed \cup {m.id}
      /\ req' = [req EXCEPT ![c] = after]
  BY <1>1, <1>4, <1>5 DEF Deliver
<1>7. /\ after.pc = call.pc /\ after.changes = call.changes
      /\ after.batch = call.batch /\ after.refs = call.refs
  BY <1>2, <1>5 DEF CallOK, CallFields
<1>8. CallTyped(after)
  BY <1>2, <1>7 DEF CallTyped
<1>9. /\ IsSequence(log') /\ Len(log') = k + 1
      /\ \A l \in 1 .. k : log'[l] = log[l]
      /\ log'[k + 1] = m
  BY <1>2, <1>4, <1>6, AppendedTo DEF LogOK, AreChanges
<1>10. k \in Nat /\ DOMAIN log = 1 .. k /\ DOMAIN log' = 1 .. k + 1
  BY <1>2, <1>4, <1>9, LogIs, SequenceIs
<1>11. IsTyped(m)
  BY <1>2, <1>3, <1>4 DEF CallTyped, AreTyped
<1>12. AreTyped(log')
  <2>1. \A l \in 1 .. k + 1 : l \in 1 .. k \/ l = k + 1
    BY <1>10
  <2>2. \A l \in 1 .. k : IsTyped(log[l])
    BY <1>10 DEF TypeInv, AreTyped
  <2>3. QED
    BY <1>9, <1>10, <1>11, <2>1, <2>2 DEF AreTyped
<1>13. stored' \in 0 .. Len(log') /\ known' \in 0 .. Len(log')
  BY <1>4, <1>6, <1>9, <1>10 DEF TypeInv
<1>14. \A other \in Range(req') : other = after \/ other \in Range(req)
  BY <1>2, <1>6 DEF Range
<1>15. \A other \in Range(req') : CallTyped(other)
  BY <1>8, <1>14 DEF TypeInv
<1>16. disturbed' \cup crossed' \subseteq Obj
  BY <1>6, <1>11 DEF TypeInv, IsTyped, IsMessage
<1>17. QED
  BY <1>6, <1>12, <1>13, <1>15, <1>16 DEF TypeInv, AreTyped

\* A fault is counted.
LEMMA FaultTyped ==
    ASSUME faults \in 0 .. MaxFaults, NEW kind, Fault(kind)
    PROVE  faults' \in 0 .. MaxFaults
  BY Assumed DEF Fault

\* A message is not delivered.
LEMMA UndeliveredTyped ==
    ASSUME RequestInv, TypeInv, NEW c \in Client, Undelivered(c)
    PROVE  TypeInv'
<1>1. PICK call \in Range(req) : call = req[c]
  BY DEF RequestInv, Range
<1>2. CallOK(call) /\ CallTyped(call) /\ DOMAIN req = Client
  BY DEF RequestInv, TypeInv
<1>3. PICK after : after = [call EXCEPT !.unsent = @ \ {Min(@)}]
  OBVIOUS
<1>4. /\ log' = log /\ stored' = stored /\ known' = known /\ requests' = requests
      /\ disturbed' = disturbed /\ crossed' = crossed /\ req' = [req EXCEPT ![c] = after]
      /\ Fault("undelivered")
  BY <1>1, <1>3 DEF Undelivered
<1>5. /\ after.pc = call.pc /\ after.changes = call.changes
      /\ after.batch = call.batch /\ after.refs = call.refs
  BY <1>2, <1>3 DEF CallOK, CallFields
<1>6. CallTyped(after)
  BY <1>2, <1>5 DEF CallTyped
<1>7. faults' \in 0 .. MaxFaults
  BY <1>4, FaultTyped DEF TypeInv
<1>8. QED
  BY <1>2, <1>4, <1>6, <1>7, OneTyped DEF TypeInv

\* A request ends: an answer has the batch, an error nothing.
LEMMA FinishTyped ==
    ASSUME RequestInv, TypeInv, NEW c \in Client, Answer(c) \/ Panic(c)
    PROVE  TypeInv'
<1>1. PICK call \in Range(req) : call = req[c]
  BY DEF RequestInv, Range
<1>2. CallOK(call) /\ CallTyped(call) /\ DOMAIN req = Client
  BY DEF RequestInv, TypeInv
<1>3. PICK o : o = Last(call.at)
  OBVIOUS
<1>4. PICK after : /\ Finish(c, after)
                   /\ \/ after = Answered(call, o)
                      \/ after = [Idle EXCEPT !.answer = call.answer]
  BY <1>1, <1>3 DEF Answer, Panic
<1>5. /\ after.pc \in {"answered", "idle"} /\ after.changes = << >> /\ after.refs = << >>
      /\ after.batch = call.batch \/ after.batch = << >>
  BY <1>4 DEF Answered, Idle
<1>6. DOMAIN << >> = {} /\ Len(<< >>) = 0
  BY EmptySeq
<1>7. CallTyped(after)
  BY <1>2, <1>5, <1>6 DEF CallTyped, AreTyped, AreApart
<1>8. /\ log' = log /\ stored' = stored /\ known' = known /\ requests' = requests
      /\ faults' = faults /\ req' = [req EXCEPT ![c] = after]
      /\ disturbed' \subseteq disturbed \cup IdsOf(call.batch) /\ crossed' = crossed
  BY <1>1, <1>4 DEF Finish
<1>9. IdsOf(call.batch) \subseteq Obj
  BY <1>2 DEF CallTyped, AreTyped, IsTyped, IsMessage, IdsOf
<1>10. disturbed' \cup crossed' \subseteq Obj
  BY <1>8, <1>9 DEF TypeInv
<1>11. QED
  BY <1>2, <1>7, <1>8, <1>10, OneTyped DEF TypeInv

-----------------------------------------------------------------------------
(* The theorem about types *)

\* The types hold at first.
LEMMA TypesInit == Init => TypeInv
<1> SUFFICES ASSUME Init PROVE TypeInv
  OBVIOUS
<1>1. Existing \in Seq(Walls)
  BY SubmitAssumption
<1>2. DOMAIN Existing = 1 .. Len(Existing) /\ Len(Existing) \in Nat
  BY <1>1, LenProperties
<1>3. \A n \in DOMAIN Existing : Existing[n] \in Walls
  BY <1>1, <1>2, ElementOfSeq
<1>4. DOMAIN log = DOMAIN Existing /\ \A n \in DOMAIN log : log[n] = NewWall(Existing[n])
  BY DEF Init
<1>5. AreTyped(log)
  BY <1>3, <1>4, NewWallFits DEF AreTyped
<1>6. Len(log) \in Nat
  BY RequestsInit, LogIs DEF RequestInv
<1>7. DOMAIN << >> = {} /\ Len(<< >>) = 0
  BY EmptySeq
<1>8. CallTyped(Idle)
  BY <1>7 DEF CallTyped, AreTyped, AreApart, Idle
<1>9. \A call \in Range(req) : call = Idle
  BY DEF Init, Range
<1>10. QED
  BY <1>5, <1>6, <1>8, <1>9, Assumed DEF Init, TypeInv

\* Every step keeps the types.
LEMMA TypesNext == RequestInv /\ TypeInv /\ [Next]_vars => TypeInv'
<1> SUFFICES ASSUME RequestInv, TypeInv, [Next]_vars PROVE TypeInv'
  OBVIOUS
<1>1. CASE UNCHANGED vars
  BY <1>1 DEF vars, TypeInv, AreTyped
<1>2. ASSUME NEW c \in Client, Request(c) PROVE TypeInv'
  BY <1>2, RequestTyped
<1>3. ASSUME NEW c \in Client, GetAllDependencies(c) PROVE TypeInv'
  BY <1>3, FindTyped
<1>4. ASSUME NEW c \in Client, UpdateChanges(c) PROVE TypeInv'
  BY <1>4, UpdateTyped
<1>5. ASSUME NEW c \in Client, Send(c) PROVE TypeInv'
  <2>1. PICK i : i = Min(req[c].unsent)
    OBVIOUS
  <2>2. Deliver(c, i) /\ req[c].unsent # {} /\ faults' = faults
    BY <1>5, <2>1 DEF Send, Deliver
  <2>3. i \in req[c].unsent
    BY <2>1, <2>2, UnsentAre
  <2>4. QED
    BY <2>2, <2>3, DeliverTyped DEF TypeInv
<1>6. ASSUME NEW c \in Client, SendAgain(c) PROVE TypeInv'
  <2>1. PICK i : i = Min(req[c].unsent \ {Min(req[c].unsent)})
    OBVIOUS
  <2>2. Deliver(c, i) /\ Cardinality(req[c].unsent) > 1 /\ Fault("retried")
    BY <1>6, <2>1 DEF SendAgain, Deliver
  <2>3. req[c].unsent # {}
    <3>1. Cardinality({}) = 0
      BY FS_EmptySet
    <3>2. QED
      BY <2>2, <3>1
  <2>4. i \in req[c].unsent
    BY <2>1, <2>2, <2>3, UnsentAre
  <2>5. faults' \in 0 .. MaxFaults
    BY <2>2, FaultTyped DEF TypeInv
  <2>6. QED
    BY <2>2, <2>4, <2>5, DeliverTyped
<1>7. ASSUME NEW c \in Client, Undelivered(c) PROVE TypeInv'
  BY <1>7, UndeliveredTyped
<1>8. ASSUME NEW c \in Client, Answer(c) \/ Panic(c) PROVE TypeInv'
  BY <1>8, FinishTyped
<1>9. QED
  BY <1>1, <1>2, <1>3, <1>4, <1>5, <1>6, <1>7, <1>8 DEF Next, Serve, Disturb

\* The invariants together are the type invariant.
LEMMA TypesMean == RequestInv /\ TypeInv => TypeOK
<1> SUFFICES ASSUME RequestInv, TypeInv PROVE TypeOK
  OBVIOUS
<1>1. LogOK /\ DOMAIN req = Client /\ Newest \in Int
  BY LogIs DEF RequestInv
<1>2. \A n \in DOMAIN log : IsMessage(log[n])
  BY DEF TypeInv, AreTyped, IsTyped
<1>3. ASSUME NEW c \in Client
      PROVE  LET call == req[c]
             IN  /\ call.pc \in {"idle", "changed", "found", "sending", "answered"}
                 /\ call.offset \in -1 .. Newest /\ call.answer \in -1 .. Newest
                 /\ \A n \in DOMAIN call.changes : IsMessage(call.changes[n])
                 /\ DOMAIN call.at = DOMAIN call.batch
                 /\ \A m, n \in DOMAIN call.batch : call.batch[m].id = call.batch[n].id => m = n
                 /\ \A n \in DOMAIN call.batch :
                       \/ call.at[n] = -1
                       \/ call.at[n] \in 0 .. Newest /\ MessageAt(call.at[n]) = call.batch[n]
  <2>1. PICK call \in Range(req) : call = req[c]
    BY <1>1 DEF Range
  <2>2. CallOK(call) /\ CallTyped(call)
    BY DEF RequestInv, TypeInv
  <2>3. /\ call.offset \in -1 .. Newest /\ call.answer \in -1 .. Newest
        /\ DOMAIN call.at = DOMAIN call.batch
    BY <2>2 DEF CallOK
  <2>4. ASSUME NEW n \in DOMAIN call.batch
        PROVE  \/ call.at[n] = -1
               \/ call.at[n] \in 0 .. Newest /\ MessageAt(call.at[n]) = call.batch[n]
    <3>1. call.at[n] = -1 \/ IsSent(call, n)
      BY <2>2, <2>3 DEF CallOK
    <3>2. \A k \in call.offset + 1 .. Newest : k \in 0 .. Newest
      BY <1>1, <2>3
    <3>3. QED
      BY <3>1, <3>2 DEF IsSent
  <2>5. \A n \in DOMAIN call.changes : IsMessage(call.changes[n])
    BY <2>2 DEF CallTyped, AreTyped, IsTyped
  <2>6. \A m, n \in DOMAIN call.batch : call.batch[m].id = call.batch[n].id => m = n
    BY <2>2 DEF CallTyped, AreApart
  <2>7. call.pc \in {"idle", "changed", "found", "sending", "answered"}
    BY <2>2 DEF CallTyped
  <2>8. QED
    BY <2>1, <2>3, <2>4, <2>5, <2>6, <2>7
<1>4. QED
  BY <1>2, <1>3 DEF TypeInv, TypeOK

\* Messages are changes of the objects they name, which are as the operations
\* make them: walls have coordinates and follow ends of other walls.  A batch
\* has one change of an object, and it is in the log where its delivery says:
\* what is fetched is not among the changes, moving and undoing name every
\* object once, and following a reference leaves an object of its kind.
THEOREM RequestTypesCorrect == Spec => []TypeOK
<1>1. Init => RequestInv /\ TypeInv
  BY RequestsInit, TypesInit
<1>2. (RequestInv /\ TypeInv) /\ [Next]_vars => (RequestInv /\ TypeInv)'
  BY RequestsNext, TypesNext
<1>3. RequestInv /\ TypeInv => TypeOK
  BY TypesMean
<1>4. QED
  BY <1>1, <1>2, <1>3, PTL DEF Spec

-----------------------------------------------------------------------------
(* The log and the dependencies as of an offset *)

\* The last change of x as of an offset, and the graph of the subscriptions then.
LastOf(x, o) == GetObject(x, o, Len(log))
GraphAt(o) ==
    LET changes == AsOf(o, Len(log))
        after[k \in 0 .. Len(changes)] ==
            IF k = 0 THEN [lists |-> << >>, refs |-> {}]
            ELSE UpdateDeps(after[k - 1], changes[k])
    IN  after[Len(changes)]
Deps(o) == GraphAt(o).refs

\* The graph after each of the first messages.
Graphs(after, changes) ==
    /\ DOMAIN after = 0 .. Len(changes)
    /\ after[0] = [lists |-> << >>, refs |-> {}]
    /\ \A k \in 1 .. Len(changes) : after[k] = UpdateDeps(after[k - 1], changes[k])

\* The recursive function of the dependencies is one.
LEMMA GraphBuilt ==
    ASSUME NEW changes, Len(changes) \in Nat
    PROVE  LET after[k \in 0 .. Len(changes)] ==
                   IF k = 0 THEN [lists |-> << >>, refs |-> {}]
                   ELSE UpdateDeps(after[k - 1], changes[k])
           IN  Graphs(after, changes)
<1>1. PICK len : len = Len(changes)
  OBVIOUS
<1> DEFINE Start == [lists |-> << >>, refs |-> {}]
           Step(f, i) == IF i = 0 THEN Start ELSE UpdateDeps(f[i - 1], changes[i])
           Is(f, k) == f = [i \in 0 .. k |-> Step(f, i)]
           I == {k \in 0 .. len : \E f : Is(f, k)}
<1>4. 0 \in I
  <2>1. PICK f : f = [i \in 0 .. 0 |-> Start]
    OBVIOUS
  <2>2. \A i \in 0 .. 0 : i = 0
    OBVIOUS
  <2>3. Is(f, 0)
    BY <2>1, <2>2
  <2>4. QED
    BY <1>1, <2>3
<1>5. ASSUME NEW k \in 0 .. len - 1, k \in I PROVE k + 1 \in I
  <2>1. PICK f : Is(f, k)
    BY <1>5
  <2>2. k \in Nat /\ k + 1 \in 0 .. len /\ k + 1 # 0 /\ (k + 1) - 1 = k /\ k \in 0 .. k
    BY <1>1
  <2>3. PICK g : g = [i \in 0 .. k + 1 |->
                         IF i = k + 1 THEN UpdateDeps(f[k], changes[k + 1]) ELSE f[i]]
    OBVIOUS
  <2>4. \A i \in 0 .. k : g[i] = f[i]
    BY <2>2, <2>3
  <2>5. ASSUME NEW i \in 0 .. k + 1 PROVE g[i] = Step(g, i)
    <3>1. CASE i = k + 1
      <4>1. g[i] = UpdateDeps(f[k], changes[k + 1])
        BY <2>2, <2>3, <3>1
      <4>2. g[i - 1] = f[k]
        BY <2>2, <2>4, <3>1
      <4>3. QED
        BY <2>2, <3>1, <4>1, <4>2
    <3>2. CASE i # k + 1
      <4>1. i \in 0 .. k /\ (i # 0 => i - 1 \in 0 .. k)
        BY <2>2, <3>2
      <4>2. f[i] = Step(f, i)
        BY <2>1, <4>1
      <4>3. QED
        BY <2>4, <4>1, <4>2
    <3>3. QED
      BY <3>1, <3>2
  <2>6. Is(g, k + 1)
    <3>1. DOMAIN g = 0 .. k + 1 /\ g = [i \in 0 .. k + 1 |-> g[i]]
      BY <2>3
    <3> HIDE DEF Step
    <3>2. QED
      BY <2>5, <3>1
  <2> HIDE DEF Is
  <2>7. QED
    BY <2>2, <2>6
<1>6. \E f : Is(f, len)
  <2> HIDE DEF I
  <2>1. 0 .. len \subseteq I
    BY <1>1, <1>4, <1>5, UpTo
  <2>2. len \in I
    BY <1>1, <2>1
  <2> HIDE DEF Is
  <2>3. QED
    BY <2>2 DEF I
<1>7. PICK after : after = CHOOSE f : Is(f, len)
  OBVIOUS
<1>8. Is(after, len)
  <2> HIDE DEF Is
  <2>1. QED
    BY <1>6, <1>7
<1>9. Graphs(after, changes)
  <2>1. DOMAIN after = 0 .. len /\ 0 \in 0 .. len
    BY <1>1, <1>8
  <2>2. after[0] = Start
    BY <1>8, <2>1
  <2>3. ASSUME NEW k \in 1 .. len PROVE after[k] = UpdateDeps(after[k - 1], changes[k])
    <3>1. k \in 0 .. len /\ k # 0
      OBVIOUS
    <3>2. QED
      BY <1>8, <3>1
  <2>4. QED
    BY <1>1, <2>1, <2>2, <2>3 DEF Graphs
<1>10. QED
  BY <1>1, <1>7, <1>9

\* The first messages of the log.
LEMMA PrefixIs ==
    ASSUME LogOK, NEW o \in -1 .. Newest
    PROVE  /\ Len(AsOf(o, Len(log))) = o + 1 /\ DOMAIN AsOf(o, Len(log)) = 1 .. o + 1
           /\ o + 1 \in Nat /\ o \in Int
           /\ \A i \in 1 .. o + 1 : AsOf(o, Len(log))[i] = log[i]
           /\ IsSequence(AsOf(o, Len(log)))
<1>1. Len(log) \in Nat /\ DOMAIN log = 1 .. Len(log) /\ Newest = Len(log) - 1
  BY LogIs
<1>2. PICK b : b = o + 1
  OBVIOUS
<1>3. b \in Nat /\ b <= Len(log) /\ o < Len(log)
  BY <1>1, <1>2
<1>4. PICK s : s = AsOf(o, Len(log))
  OBVIOUS
<1>5. s = SubSeq(log, 1, b)
  BY <1>2, <1>3, <1>4 DEF AsOf
<1>6. 1 \in Int /\ b \in Int /\ \A i \in 1 .. b : log[i] \in Range(log)
  BY <1>1, <1>3 DEF Range
<1>7. /\ s \in Seq(Range(log))
      /\ Len(s) = IF 1 <= b THEN b - 1 + 1 ELSE 0
      /\ \A i \in 1 .. b - 1 + 1 : s[i] = log[1 + i - 1]
  BY <1>5, <1>6, SubSeqProperties
<1>8. /\ Len(s) = b
      /\ \A i \in 1 .. b : i \in 1 .. b - 1 + 1 /\ 1 + i - 1 = i
  BY <1>3, <1>7
<1>9. \A i \in 1 .. b : s[i] = log[i]
  BY <1>7, <1>8
<1>10. DOMAIN s = 1 .. Len(s)
  BY <1>7, LenProperties
<1>11. IsSequence(s)
  BY <1>7, SequenceOf
<1>12. QED
  BY <1>2, <1>3, <1>4, <1>8, <1>9, <1>10, <1>11

\* A service with all messages up to an offset answers as one with all.
LEMMA AnswersAlike ==
    ASSUME LogOK, NEW o \in -1 .. Newest, NEW n \in Nat, n > o
    PROVE  /\ \A x : GetObject(x, o, n) = LastOf(x, o)
           /\ Dependencies(o, n) = Deps(o)
<1>1. Len(log) \in Nat /\ Newest = Len(log) - 1 /\ o \in Int
  BY LogIs
<1>2. o < Len(log) /\ o < n
  BY <1>1
<1>3. AsOf(o, n) = AsOf(o, Len(log))
  BY <1>2 DEF AsOf
<1>4. QED
  BY <1>3 DEF GetObject, LastOf, Dependencies, Deps, GraphAt

\* The graph grows with the log.
LEMMA GraphGrows ==
    ASSUME LogOK
    PROVE  /\ GraphAt(-1) = [lists |-> << >>, refs |-> {}]
           /\ \A o \in 0 .. Newest : GraphAt(o) = UpdateDeps(GraphAt(o - 1), MessageAt(o))
<1>1. Len(log) \in Nat /\ Newest = Len(log) - 1 /\ Newest \in Int /\ Newest >= -1
  BY LogIs
<1>2. ASSUME NEW o \in -1 .. Newest
      PROVE  \E after : /\ Graphs(after, AsOf(o, Len(log))) /\ GraphAt(o) = after[o + 1]
  <2>1. Len(AsOf(o, Len(log))) = o + 1 /\ o + 1 \in Nat
    BY PrefixIs
  <2>2. PICK s : s = AsOf(o, Len(log))
    OBVIOUS
  <2>3. Len(s) \in Nat /\ Len(s) = o + 1
    BY <2>1, <2>2
  <2>4. PICK after : after = CHOOSE f : f = [k \in 0 .. Len(s) |->
                           IF k = 0 THEN [lists |-> << >>, refs |-> {}]
                           ELSE UpdateDeps(f[k - 1], s[k])]
    OBVIOUS
  <2>5. Graphs(after, s)
    BY <2>3, <2>4, GraphBuilt
  <2>6. GraphAt(o) = after[Len(s)]
    BY <2>2, <2>4 DEF GraphAt
  <2>7. QED
    BY <2>2, <2>3, <2>5, <2>6
<1>3. GraphAt(-1) = [lists |-> << >>, refs |-> {}]
  <2>1. -1 \in -1 .. Newest
    BY <1>1
  <2>2. PICK after : Graphs(after, AsOf(-1, Len(log))) /\ GraphAt(-1) = after[-1 + 1]
    BY <1>2, <2>1
  <2>3. -1 + 1 = 0
    OBVIOUS
  <2>4. QED
    BY <2>2, <2>3 DEF Graphs
<1>4. ASSUME NEW o \in 0 .. Newest PROVE GraphAt(o) = UpdateDeps(GraphAt(o - 1), MessageAt(o))
  <2>1. o \in -1 .. Newest /\ o - 1 \in -1 .. Newest /\ o \in Nat /\ (o - 1) + 1 = o
    BY <1>1
  <2>2. PICK g, s : g = GraphAt(o) /\ s = AsOf(o, Len(log))
    OBVIOUS
  <2>3. PICK after : Graphs(after, s) /\ g = after[o + 1]
    BY <1>2, <2>1, <2>2
  <2>4. PICK t : t = AsOf(o - 1, Len(log))
    OBVIOUS
  <2>5. PICK before : Graphs(before, t) /\ GraphAt(o - 1) = before[o]
    BY <1>2, <2>1, <2>4
  <2>6. Len(s) = o + 1 /\ Len(t) = o /\ \A i \in 1 .. o + 1 : s[i] = log[i]
    BY <2>1, <2>2, <2>4, PrefixIs
  <2>7. \A i \in 1 .. o : t[i] = log[i]
    BY <2>1, <2>4, PrefixIs
  <2> DEFINE J == {k \in 0 .. o : before[k] = after[k]}
  <2>8. 0 \in J
    BY <2>1, <2>3, <2>5 DEF Graphs
  <2>9. ASSUME NEW k \in 0 .. o - 1, k \in J PROVE k + 1 \in J
    <3>1. k + 1 \in 1 .. o /\ k + 1 \in 1 .. o + 1 /\ (k + 1) - 1 = k /\ k + 1 \in 0 .. o
      BY <2>1
    <3>2. before[k + 1] = UpdateDeps(before[k], t[k + 1])
      BY <2>5, <2>6, <3>1 DEF Graphs
    <3>3. after[k + 1] = UpdateDeps(after[k], s[k + 1])
      BY <2>3, <2>6, <3>1 DEF Graphs
    <3>4. before[k] = after[k] /\ s[k + 1] = t[k + 1]
      BY <2>6, <2>7, <2>9, <3>1
    <3>5. QED
      BY <3>1, <3>2, <3>3, <3>4
  <2>10. o \in J
    <3> HIDE DEF J
    <3>1. 0 .. o \subseteq J
      BY <2>1, <2>8, <2>9, UpTo
    <3>2. QED
      BY <2>1, <3>1
  <2>11. after[o + 1] = UpdateDeps(after[o], s[o + 1])
    <3>1. o + 1 \in 1 .. Len(s) /\ (o + 1) - 1 = o
      BY <2>1, <2>6
    <3>2. QED
      BY <2>3, <3>1 DEF Graphs
  <2>12. s[o + 1] = MessageAt(o)
    BY <2>1, <2>6 DEF MessageAt
  <2>13. QED
    BY <2>2, <2>3, <2>5, <2>10, <2>11, <2>12
<1>5. QED
  BY <1>3, <1>4

\* The last message of an object up to an offset.
LEMMA LastIs ==
    ASSUME LogOK, NEW x, NEW o \in -1 .. Newest
    PROVE  \/ LastOf(x, o) = None /\ \A j \in 0 .. o : MessageAt(j).id # x
           \/ \E k \in 0 .. o : /\ LastOf(x, o) = MessageAt(k) /\ MessageAt(k).id = x
                                /\ \A j \in k + 1 .. o : MessageAt(j).id # x
<1>1. PICK s, n : s = AsOf(o, Len(log)) /\ n = o + 1
  OBVIOUS
<1>2. n \in Nat /\ o \in Int /\ DOMAIN s = 1 .. n /\ \A i \in 1 .. n : s[i] = log[i]
  BY <1>1, PrefixIs
<1>3. PICK mine : mine = {k \in DOMAIN s : s[k].id = x}
  OBVIOUS
<1>4. LastOf(x, o) = IF mine = {} THEN None ELSE s[Max(mine)]
  BY <1>1, <1>3 DEF LastOf, GetObject
<1>5. mine \in SUBSET (1 .. n) /\ \A k \in 1 .. n : k \in mine <=> log[k].id = x
  BY <1>2, <1>3
<1>6. ASSUME NEW j \in 0 .. o PROVE j + 1 \in 1 .. n /\ (MessageAt(j).id = x <=> j + 1 \in mine)
  <2>1. j + 1 \in 1 .. n
    BY <1>1, <1>2
  <2>2. QED
    BY <1>5, <2>1 DEF MessageAt
<1>7. CASE mine = {}
  BY <1>4, <1>6, <1>7, Zenon
<1>8. CASE mine # {}
  <2>1. PICK i \in mine : i = Max(mine) /\ \A k \in mine : i >= k
    BY <1>2, <1>5, <1>8, MaxIsLast
  <2>2. PICK k : k = i - 1
    OBVIOUS
  <2>3. k \in 0 .. o /\ k + 1 = i /\ i \in 1 .. n
    BY <1>1, <1>2, <1>5, <2>1, <2>2
  <2>4. LastOf(x, o) = MessageAt(k) /\ MessageAt(k).id = x
    BY <1>2, <1>4, <1>6, <1>8, <2>1, <2>3 DEF MessageAt
  <2>5. ASSUME NEW j \in k + 1 .. o PROVE MessageAt(j).id # x
    <3>1. j \in 0 .. o /\ ~ (i >= j + 1)
      BY <1>2, <2>3
    <3>2. QED
      BY <1>6, <2>1, <3>1
  <2>6. QED
    BY <2>3, <2>4, <2>5
<1>9. QED
  BY <1>7, <1>8

\* The i-th end of a wall.
EndOf(w, i) == RefID(w, "ProfilePoint", i)

\* The slots of x: each with a piece of x as the owner, an end's at its index.
ListOK(list, x) ==
    \A i \in Some(list) :
        /\ list[i].owner.id = x
        /\ list[i].owner.ref_type = "ProfilePoint" => list[i].owner.index = i
GraphOK(deps) == \A x \in DOMAIN deps.lists : ListOK(deps.lists[x], x)

\* The slots of a wall's ends.
EndSlots(refs, obj, w) ==
    \A i \in 1 .. 2 :
        /\ i \in DOMAIN refs
        /\ i \in Some(refs) <=> obj.pts[i].refer # None
        /\ i \in Some(refs) => refs[i] = Reference(EndOf(w, i), obj.pts[i].refer)

\* The slots of an object are its own.
LEMMA OwnRefs ==
    ASSUME NEW x \in Obj, NEW obj, Fits(x, obj)
    PROVE  /\ ListOK(GetRefs(obj), x)
           /\ x \in Walls => EndSlots(GetRefs(obj), obj, x)
<1>0. PICK refs : refs = GetRefs(obj)
  OBVIOUS
<1>1. CASE x \in Walls
  <2>1. obj.kind = "Wall" /\ obj \in WallsOf(x, Piece) /\ obj.openings = << >>
    <3>1. x \notin Sheets /\ x \notin Viewports
      BY <1>1, Assumed
    <3>2. QED
      BY <3>1, FitsIs
  <2>2. refs = W!GetRefs(obj)
    BY <1>0, <2>1, OfWall
  <2>3. AreWallRefs(refs, obj, x)
    BY <2>1, <2>2, WallRefs
  <2>4. Len(obj.openings) = 0
    BY <2>1, EmptySeq
  <2>5. DOMAIN refs = 1 .. 6
    BY <2>3, <2>4 DEF AreWallRefs
  <2>6. ASSUME NEW i \in 1 .. 2
        PROVE  /\ i \in Some(refs) <=> obj.pts[i].refer # None
               /\ i \in Some(refs) => refs[i] = Reference(EndOf(x, i), obj.pts[i].refer)
    <3>1. refs[i] = SlotOf(obj.pts[i], EndOf(x, i))
      BY <2>3 DEF AreWallRefs, EndOf
    <3>2. PICK u : u = obj.pts[i]
      OBVIOUS
    <3>3. u \in [refer : Slot(Piece), info : PointResults]
      BY <2>1, <3>2 DEF WallsOf
    <3>4. u # None
      BY <3>3, Assumed DEF NoneIsApart
    <3>5. PICK p, q : p = EndOf(x, i) /\ q = u.refer
      OBVIOUS
    <3>6. p \in Piece
      BY <1>1, <3>5 DEF EndOf, RefID, Piece, RefType, Obj
    <3>7. q \in Piece => Reference(p, q) # None
      BY <3>6, Assumed DEF NoneIsApart, Reference
    <3>8. q \in Piece \cup {None}
      BY <3>3, <3>5 DEF Slot
    <3>9. refs[i] = IF q = None THEN None ELSE Reference(p, q)
      BY <3>1, <3>2, <3>4, <3>5 DEF SlotOf
    <3>10. i \in DOMAIN refs
      BY <2>5
    <3>11. QED
      BY <3>2, <3>5, <3>7, <3>8, <3>9, <3>10 DEF Some
  <2>7. ASSUME NEW i \in Some(refs)
        PROVE  /\ refs[i].owner.id = x
               /\ refs[i].owner.ref_type = "ProfilePoint" => refs[i].owner.index = i
    <3>1. i \in 1 .. 2 \/ i = 3 \/ i = 4 \/ i = 5 \/ i = 6
      BY <2>5, <2>7 DEF Some
    <3>2. CASE i \in 1 .. 2
      BY <2>6, <2>7, <3>2 DEF EndOf, RefID, Reference
    <3>3. CASE i = 3 \/ i = 4 \/ i = 5 \/ i = 6
      BY <2>3, <3>3 DEF AreWallRefs, RefID, Reference
    <3>4. QED
      BY <3>1, <3>2, <3>3
  <2>8. \A i \in 1 .. 2 : i \in DOMAIN refs
    BY <2>5
  <2>9. QED
    BY <1>0, <2>6, <2>7, <2>8 DEF ListOK, EndSlots
<1>2. CASE obj.kind = "Sheet"
  <2>1. refs = << >>
    BY <1>0, <1>2, OfSheet
  <2>2. x \notin Walls
    BY <1>2, FitsIs, Assumed
  <2>3. Some(refs) = {}
    BY <2>1 DEF Some
  <2>4. QED
    BY <1>0, <2>2, <2>3 DEF ListOK
<1>3. CASE obj.kind = "Viewport"
  <2>1. x \in Viewports /\ x \notin Walls
    BY <1>3, FitsIs, Assumed
  <2>2. PICK sheet \in Sheets : obj = V!New(x, sheet)
    BY <1>3, FitsIs
  <2>3. refs = V!GetRefs(obj) /\ obj.sheet = sheet /\ obj.id = x
    BY <1>0, <1>3, <2>2, OfViewport DEF V!New
  <2>4. refs = <<IF sheet = None THEN None
                 ELSE [owner |-> [id |-> x, ref_type |-> "Existence", index |-> 1],
                       other |-> [id |-> sheet, ref_type |-> "Existence", index |-> 1]]>>
    BY <2>3 DEF V!GetRefs, V!RefID, V!Reference
  <2>5. ASSUME NEW i \in Some(refs)
        PROVE  refs[i].owner.id = x /\ refs[i].owner.ref_type = "Existence"
    <3>1. i \in DOMAIN refs /\ refs[i] # None
      BY <2>5 DEF Some
    <3>2. i = 1
      BY <2>4, <3>1
    <3>3. QED
      BY <2>4, <3>1, <3>2
  <2>6. QED
    BY <1>0, <2>1, <2>5 DEF ListOK
<1>4. QED
  BY <1>1, <1>2, <1>3, FitsIs

\* What update_deps does to the slots and the references.
Reached(deps, m, after) ==
    /\ m.id \in DOMAIN after.lists
    /\ \A x : x # m.id =>
          /\ x \in DOMAIN after.lists <=> x \in DOMAIN deps.lists
          /\ x \in DOMAIN deps.lists => after.lists[x] = deps.lists[x]
    /\ m.change = "Delete" => Some(after.lists[m.id]) = {}
    /\ m.change # "Delete" => after.lists[m.id] = GetRefs(m.obj)
    /\ \A ref : ref.owner.id # m.id => (ref \in after.refs <=> ref \in deps.refs)
    /\ \A i \in Some(after.lists[m.id]) :
          after.lists[m.id][i].owner.ref_type = "ProfilePoint" => after.lists[m.id][i] \in after.refs
    /\ \A ref \in deps.refs : ref \notin after.refs =>
          /\ m.id \in DOMAIN deps.lists
          /\ \E i \in Some(deps.lists[m.id]) :
                ref = deps.lists[m.id][i] /\ i \notin Some(after.lists[m.id])

\* What update_deps does to the graph, slot by slot.
LEMMA DepsReached ==
    ASSUME NEW deps, GraphOK(deps), NEW m, IsTyped(m)
    PROVE  GraphOK(UpdateDeps(deps, m)) /\ Reached(deps, m, UpdateDeps(deps, m))
<1>0. PICK after : after = UpdateDeps(deps, m)
  OBVIOUS
<1>1. PICK old : old = IF m.id \in DOMAIN deps.lists THEN deps.lists[m.id] ELSE << >>
  OBVIOUS
<1>2. PICK new : new = IF m.change = "Delete" THEN [i \in DOMAIN old |-> None] ELSE GetRefs(m.obj)
  OBVIOUS
<1>3. PICK gone : gone = IF m.change = "Add" THEN {}
                         ELSE {old[i] : i \in {j \in Some(old) : j \notin Some(new)}}
  OBVIOUS
<1>4. /\ after.refs = (deps.refs \cup {new[i] : i \in Some(new)}) \ gone
      /\ after.lists = [x \in DOMAIN deps.lists \cup {m.id} |->
                            IF x = m.id THEN new ELSE deps.lists[x]]
  BY <1>0, <1>1, <1>2, <1>3 DEF UpdateDeps
<1>5. /\ DOMAIN after.lists = {m.id} \cup DOMAIN deps.lists
      /\ after.lists[m.id] = new
      /\ \A x \in DOMAIN deps.lists : x # m.id => after.lists[x] = deps.lists[x]
  BY <1>4
<1>6. ListOK(old, m.id)
  <2>1. CASE m.id \in DOMAIN deps.lists
    BY <1>1, <2>1 DEF GraphOK
  <2>2. CASE m.id \notin DOMAIN deps.lists
    BY <1>1, <2>2 DEF ListOK, Some
  <2>3. QED
    BY <2>1, <2>2
<1>7. ListOK(new, m.id) /\ (m.change = "Delete" => Some(new) = {})
  <2>1. CASE m.change = "Delete"
    <3>1. Some(new) = {}
      BY <1>2, <2>1 DEF Some
    <3>2. QED
      BY <3>1 DEF ListOK
  <2>2. CASE m.change # "Delete"
    <3>1. m.id \in Obj /\ Fits(m.id, m.obj)
      BY <2>2 DEF IsTyped, IsMessage
    <3>2. ListOK(GetRefs(m.obj), m.id)
      BY <3>1, OwnRefs
    <3>3. QED
      BY <1>2, <2>2, <3>2
  <2>3. QED
    BY <2>1, <2>2
<1>8. ASSUME NEW ref \in gone PROVE \E j \in Some(old) : ref = old[j] /\ j \notin Some(new)
  BY <1>3, <1>8
<1>9. GraphOK(after)
  BY <1>5, <1>7 DEF GraphOK
<1>10. ASSUME NEW ref, ref.owner.id # m.id PROVE ref \in after.refs <=> ref \in deps.refs
  <2>1. ref \notin {new[i] : i \in Some(new)}
    BY <1>7, <1>10 DEF ListOK
  <2>2. ref \notin gone
    BY <1>6, <1>8, <1>10 DEF ListOK
  <2>3. QED
    BY <1>4, <2>1, <2>2
<1>11. ASSUME NEW i \in Some(new), new[i].owner.ref_type = "ProfilePoint"
       PROVE  new[i] \in after.refs
  <2>1. new[i].owner.index = i
    BY <1>7, <1>11 DEF ListOK
  <2>2. ASSUME new[i] \in gone PROVE FALSE
    <3>1. PICK j \in Some(old) : new[i] = old[j] /\ j \notin Some(new)
      BY <1>8, <2>2
    <3>2. new[i].owner.index = j
      BY <1>6, <1>11, <3>1 DEF ListOK
    <3>3. QED
      BY <2>1, <3>1, <3>2
  <2>3. QED
    BY <1>4, <2>2
<1>12. ASSUME NEW ref \in deps.refs, ref \notin after.refs
       PROVE  /\ m.id \in DOMAIN deps.lists
              /\ \E i \in Some(deps.lists[m.id]) : ref = deps.lists[m.id][i] /\ i \notin Some(new)
  <2>1. ref \in gone
    BY <1>4, <1>12
  <2>2. PICK i \in Some(old) : ref = old[i] /\ i \notin Some(new)
    BY <1>8, <2>1
  <2>3. m.id \in DOMAIN deps.lists /\ old = deps.lists[m.id]
    BY <1>1, <2>2 DEF Some
  <2>4. QED
    BY <2>2, <2>3
<1>13. m.change # "Delete" => new = GetRefs(m.obj)
  BY <1>2
<1>14. Reached(deps, m, after)
  BY <1>5, <1>7, <1>10, <1>11, <1>12, <1>13 DEF Reached
<1>15. QED
  BY <1>0, <1>9, <1>14

\* An end of a wall, as a change leaves it, refers to a piece.
Refers(m, i, r) == IF IsObject(m) THEN m.obj.pts[i].refer = r ELSE FALSE
\* The references of an end are to one piece.
OnlyTo(refs, p, q) == \A ref \in refs : ref.owner = p => ref.other = q
\* Nothing is written of x after an offset, up to another.
Untouched(x, o, p) == \A k \in o + 1 .. p : MessageAt(k).id # x

\* An end of a wall is a piece.
LEMMA EndsArePieces ==
    ASSUME NEW w \in Walls, NEW i \in 1 .. 2
    PROVE  /\ EndOf(w, i) \in Piece /\ EndOf(w, i) # None
           /\ EndOf(w, i).id = w /\ EndOf(w, i).ref_type = "ProfilePoint" /\ EndOf(w, i).index = i
<1>1. EndOf(w, i) \in Piece
  BY DEF EndOf, RefID, Piece, RefType, Obj
<1>2. EndOf(w, i) # None
  BY <1>1, Assumed DEF NoneIsApart
<1>3. QED
  BY <1>1, <1>2 DEF EndOf, RefID

\* The last message of an object is the newest one, or the one before.
LEMMA LastGrows ==
    ASSUME LogOK, NEW x
    PROVE  /\ LastOf(x, -1) = None
           /\ \A o \in 0 .. Newest :
                 LastOf(x, o) = IF MessageAt(o).id = x THEN MessageAt(o) ELSE LastOf(x, o - 1)
<1>1. Newest \in Int /\ Newest >= -1
  BY LogIs
<1>2. LastOf(x, -1) = None
  <2>1. -1 \in -1 .. Newest /\ ~ \E k \in 0 .. -1 : TRUE
    BY <1>1
  <2>2. QED
    BY <2>1, LastIs
<1>3. ASSUME NEW o \in 0 .. Newest
      PROVE  LastOf(x, o) = IF MessageAt(o).id = x THEN MessageAt(o) ELSE LastOf(x, o - 1)
  <2>1. o \in -1 .. Newest /\ o - 1 \in -1 .. Newest /\ o \in Int
    BY <1>1
  <2>2. \/ LastOf(x, o) = None /\ \A j \in 0 .. o : MessageAt(j).id # x
        \/ \E k \in 0 .. o : /\ LastOf(x, o) = MessageAt(k) /\ MessageAt(k).id = x
                             /\ \A j \in k + 1 .. o : MessageAt(j).id # x
    BY <2>1, LastIs
  <2>3. PICK p : p = o - 1
    OBVIOUS
  <2>4. \/ LastOf(x, p) = None /\ \A j \in 0 .. p : MessageAt(j).id # x
        \/ \E k \in 0 .. p : /\ LastOf(x, p) = MessageAt(k) /\ MessageAt(k).id = x
                             /\ \A j \in k + 1 .. p : MessageAt(j).id # x
    BY <2>1, <2>3, LastIs
  <2>5. CASE MessageAt(o).id = x
    <3>1. PICK k \in 0 .. o : /\ LastOf(x, o) = MessageAt(k)
                              /\ \A j \in k + 1 .. o : MessageAt(j).id # x
      BY <2>1, <2>2, <2>5
    <3>2. k = o
      BY <2>1, <2>5, <3>1
    <3>3. QED
      BY <2>5, <3>1, <3>2
  <2>6. CASE MessageAt(o).id # x
    <3>1. CASE LastOf(x, o) = None /\ \A j \in 0 .. o : MessageAt(j).id # x
      <4>1. \A k \in 0 .. p : k \in 0 .. o
        BY <2>1, <2>3
      <4>2. QED
        BY <2>3, <2>4, <2>6, <3>1, <4>1
    <3>2. ASSUME NEW k \in 0 .. o, LastOf(x, o) = MessageAt(k), MessageAt(k).id = x,
                 \A j \in k + 1 .. o : MessageAt(j).id # x
          PROVE  LastOf(x, p) = MessageAt(k)
      <4>1. k \in 0 .. p
        BY <2>1, <2>3, <2>6, <3>2
      <4>2. PICK l \in 0 .. p : /\ LastOf(x, p) = MessageAt(l) /\ MessageAt(l).id = x
                                /\ \A j \in l + 1 .. p : MessageAt(j).id # x
        BY <2>4, <3>2, <4>1
      <4>3. ~ (l < k) /\ ~ (k < l)
        <5>1. l < k => k \in l + 1 .. p
          BY <2>1, <2>3, <4>1
        <5>2. k < l => l \in k + 1 .. o
          BY <2>1, <2>3, <4>1
        <5>3. QED
          BY <3>2, <4>2, <5>1, <5>2
      <4>4. l = k
        BY <2>1, <2>3, <4>1, <4>3
      <4>5. QED
        BY <4>2, <4>4
    <3>3. QED
      BY <2>2, <2>3, <2>6, <3>1, <3>2
  <2>7. QED
    BY <2>5, <2>6
<1>4. QED
  BY <1>2, <1>3

\* The dependencies service holds the slots of the walls that are there.
SlotsHeld(o) ==
    /\ GraphOK(GraphAt(o))
    /\ \A w \in Walls : IsObject(LastOf(w, o)) =>
          LET obj == LastOf(w, o).obj
              list == GraphAt(o).lists[w]
          IN  /\ w \in DOMAIN GraphAt(o).lists
              /\ EndSlots(list, obj, w)
              /\ \A i \in 1 .. 2 : i \in Some(list) => list[i] \in Deps(o)

\* What a message does to the graph.
LEMMA MessageReached ==
    ASSUME LogOK, AreTyped(log), NEW o \in 0 .. Newest, SlotsHeld(o - 1)
    PROVE  /\ Reached(GraphAt(o - 1), MessageAt(o), GraphAt(o))
           /\ SlotsHeld(o)
           /\ IsTyped(MessageAt(o))
<1>1. PICK m, deps, after : m = MessageAt(o) /\ deps = GraphAt(o - 1) /\ after = GraphAt(o)
  OBVIOUS
<1>2. IsTyped(m)
  <2>1. o + 1 \in DOMAIN log
    BY LogIs
  <2>2. QED
    BY <1>1, <2>1 DEF AreTyped, MessageAt
<1>3. GraphOK(deps) /\ after = UpdateDeps(deps, m)
  BY <1>1, GraphGrows DEF SlotsHeld
<1>4. GraphOK(after) /\ Reached(deps, m, after)
  BY <1>2, <1>3, DepsReached
<1>5. ASSUME NEW w \in Walls, IsObject(LastOf(w, o))
      PROVE  LET obj == LastOf(w, o).obj
                 list == GraphAt(o).lists[w]
             IN  /\ w \in DOMAIN GraphAt(o).lists
                 /\ EndSlots(list, obj, w)
                 /\ \A i \in 1 .. 2 : i \in Some(list) => list[i] \in Deps(o)
  <2>1. PICK obj, list : obj = LastOf(w, o).obj /\ list = after.lists[w]
    OBVIOUS
  <2>2. CASE m.id = w
    <3>1. LastOf(w, o) = m
      BY <1>1, <2>2, LastGrows
    <3>2. m.change # "Delete" /\ m.obj = obj
      BY <1>5, <2>1, <3>1 DEF IsObject
    <3>3. w \in Obj /\ Fits(w, obj)
      BY <1>2, <2>2, <3>2 DEF IsTyped, Obj
    <3>4. EndSlots(GetRefs(obj), obj, w)
      BY <3>3, OwnRefs
    <3>5. list = GetRefs(obj) /\ w \in DOMAIN after.lists
      BY <1>4, <2>1, <2>2, <3>2 DEF Reached
    <3>6. ASSUME NEW i \in 1 .. 2, i \in Some(list) PROVE list[i] \in after.refs
      <4>1. list[i].owner = EndOf(w, i)
        BY <3>4, <3>5, <3>6 DEF EndSlots, Reference
      <4>2. list[i].owner.ref_type = "ProfilePoint"
        BY <4>1, EndsArePieces
      <4>3. QED
        BY <1>4, <2>1, <2>2, <3>6, <4>2 DEF Reached
    <3>7. QED
      BY <1>1, <2>1, <3>4, <3>5, <3>6 DEF Deps
  <2>3. CASE m.id # w
    <3>1. LastOf(w, o) = LastOf(w, o - 1)
      BY <1>1, <2>3, LastGrows
    <3>2. w \in DOMAIN deps.lists /\ after.lists[w] = deps.lists[w] /\ w \in DOMAIN after.lists
      BY <1>1, <1>4, <1>5, <2>3, <3>1 DEF SlotsHeld, Reached
    <3>3. /\ EndSlots(list, obj, w)
          /\ \A i \in 1 .. 2 : i \in Some(list) => list[i] \in deps.refs
      BY <1>1, <1>5, <2>1, <3>1, <3>2 DEF SlotsHeld, Deps
    <3>4. ASSUME NEW i \in 1 .. 2, i \in Some(list) PROVE list[i] \in after.refs
      <4>1. list[i].owner = EndOf(w, i)
        BY <3>3, <3>4 DEF EndSlots, Reference
      <4>2. list[i].owner.id # m.id
        BY <2>3, <4>1, EndsArePieces
      <4>3. QED
        BY <1>4, <3>3, <3>4, <4>2 DEF Reached
    <3>5. QED
      BY <1>1, <2>1, <3>2, <3>3, <3>4 DEF Deps
  <2>4. QED
    BY <2>2, <2>3
<1>6. SlotsHeld(o)
  BY <1>1, <1>4, <1>5 DEF SlotsHeld
<1>7. QED
  BY <1>1, <1>2, <1>4, <1>6

\* At every offset.
LEMMA SlotsAreHeld ==
    ASSUME LogOK, AreTyped(log)
    PROVE  \A o \in -1 .. Newest : SlotsHeld(o)
<1>1. PICK n : n = Newest + 1
  OBVIOUS
<1>2. n \in Nat /\ Newest = n - 1 /\ Newest \in Int
  BY <1>1, LogIs
<1> DEFINE J == {k \in 0 .. n : SlotsHeld(k - 1)}
<1>3. 0 \in J
  <2>1. GraphAt(-1).lists = << >>
    BY GraphGrows
  <2>2. DOMAIN GraphAt(-1).lists = {}
    BY <2>1
  <2>3. \A w : ~ IsObject(LastOf(w, -1))
    BY LastGrows DEF IsObject
  <2>4. SlotsHeld(-1)
    BY <2>2, <2>3 DEF SlotsHeld, GraphOK
  <2>5. 0 \in 0 .. n /\ 0 - 1 = -1
    BY <1>2
  <2>6. QED
    BY <2>4, <2>5
<1>4. ASSUME NEW k \in 0 .. n - 1, k \in J PROVE k + 1 \in J
  <2>1. k \in 0 .. Newest /\ k + 1 \in 0 .. n /\ (k + 1) - 1 = k
    BY <1>2
  <2>2. SlotsHeld(k)
    BY <1>4, <2>1, MessageReached
  <2>3. QED
    BY <2>1, <2>2
<1>5. 0 .. n \subseteq J
  <2> HIDE DEF J
  <2>1. QED
    BY <1>2, <1>3, <1>4, UpTo
<1>6. ASSUME NEW o \in -1 .. Newest PROVE SlotsHeld(o)
  <2>1. o + 1 \in 0 .. n /\ (o + 1) - 1 = o
    BY <1>2
  <2>2. o + 1 \in J
    BY <1>5, <2>1
  <2>3. QED
    BY <2>1, <2>2
<1>7. QED
  BY <1>6

\* What is not written stays, and so do its references.
LEMMA UntouchedKept ==
    ASSUME LogOK, AreTyped(log), NEW x, NEW o \in -1 .. Newest, NEW p \in -1 .. Newest, o <= p,
           Untouched(x, o, p)
    PROVE  /\ LastOf(x, p) = LastOf(x, o)
           /\ \A ref : ref.owner.id = x => (ref \in Deps(p) <=> ref \in Deps(o))
<1>1. o \in Int /\ p \in Int /\ Newest \in Int
  BY LogIs
<1>2. PICK n : n = p - o
  OBVIOUS
<1>3. n \in Nat
  BY <1>1, <1>2
<1> DEFINE Same(q) == /\ LastOf(x, q) = LastOf(x, o)
                      /\ \A ref : ref.owner.id = x => (ref \in Deps(q) <=> ref \in Deps(o))
           J == {k \in 0 .. n : Same(o + k)}
<1>4. 0 \in J
  <2>1. o + 0 = o /\ 0 \in 0 .. n
    BY <1>1, <1>3
  <2>2. QED
    BY <2>1
<1>5. ASSUME NEW k \in 0 .. n - 1, k \in J PROVE k + 1 \in J
  <2>1. PICK q : q = o + (k + 1)
    OBVIOUS
  <2>2. /\ q \in 0 .. Newest /\ q \in o + 1 .. p /\ k + 1 \in 0 .. n /\ q - 1 = o + k
        /\ q - 1 \in -1 .. Newest
    BY <1>1, <1>2, <1>3, <2>1
  <2>3. SlotsHeld(q - 1)
    BY <2>2, SlotsAreHeld
  <2>4. Reached(GraphAt(q - 1), MessageAt(q), GraphAt(q))
    BY <2>2, <2>3, MessageReached
  <2>5. MessageAt(q).id # x
    BY <2>2 DEF Untouched
  <2>6. LastOf(x, q) = LastOf(x, q - 1)
    BY <2>2, <2>5, LastGrows
  <2>7. \A ref : ref.owner.id = x => (ref \in Deps(q) <=> ref \in Deps(q - 1))
    BY <2>4, <2>5 DEF Reached, Deps
  <2>8. Same(q - 1)
    BY <1>5, <2>2
  <2> HIDE DEF Same
  <2>9. Same(q)
    BY <2>6, <2>7, <2>8 DEF Same
  <2>10. QED
    BY <2>1, <2>2, <2>9
<1>6. n \in J
  <2> HIDE DEF J
  <2>1. 0 .. n \subseteq J
    BY <1>3, <1>4, <1>5, UpTo
  <2>2. QED
    BY <1>3, <2>1
<1>7. o + n = p
  BY <1>1, <1>2
<1> HIDE DEF Same
<1>8. Same(p)
  BY <1>6, <1>7
<1>9. QED
  BY <1>8 DEF Same

\* A reference of an end is only lost with the slot that had it.
LEMMA LostWithSlot ==
    ASSUME LogOK, AreTyped(log), NEW k \in 0 .. Newest, NEW w \in Walls, MessageAt(k).id = w,
           NEW i \in 1 .. 2, NEW ref \in Deps(k - 1), ref.owner = EndOf(w, i), ref \notin Deps(k)
    PROVE  /\ IsObject(MessageAt(k)) => MessageAt(k).obj.pts[i].refer = None
           /\ IsObject(LastOf(w, k - 1)) => ref.other = LastOf(w, k - 1).obj.pts[i].refer
<1>1. k - 1 \in -1 .. Newest /\ k \in -1 .. Newest
  BY LogIs
<1>2. SlotsHeld(k - 1)
  BY <1>1, SlotsAreHeld
<1>3. PICK deps, m, after : deps = GraphAt(k - 1) /\ m = MessageAt(k) /\ after = GraphAt(k)
  OBVIOUS
<1>4. Reached(deps, m, after) /\ IsTyped(m)
  BY <1>2, <1>3, MessageReached
<1>5. w \in DOMAIN deps.lists
  BY <1>3, <1>4 DEF Reached, Deps
<1>6. PICK j \in Some(deps.lists[w]) : ref = deps.lists[w][j] /\ j \notin Some(after.lists[w])
  BY <1>3, <1>4 DEF Reached, Deps
<1>7. j = i
  <2>1. ListOK(deps.lists[w], w)
    BY <1>2, <1>3, <1>5 DEF SlotsHeld, GraphOK
  <2>2. ref.owner.ref_type = "ProfilePoint" /\ ref.owner.index = i
    BY EndsArePieces
  <2>3. QED
    BY <1>6, <2>1, <2>2 DEF ListOK
<1>8. ASSUME IsObject(m) PROVE m.obj.pts[i].refer = None
  <2>1. m.change # "Delete"
    BY <1>8 DEF IsObject
  <2>2. w \in Obj /\ Fits(w, m.obj)
    BY <1>3, <1>4, <2>1 DEF IsTyped, Obj
  <2>3. after.lists[w] = GetRefs(m.obj)
    BY <1>3, <1>4, <2>1 DEF Reached
  <2>4. EndSlots(GetRefs(m.obj), m.obj, w)
    BY <2>2, OwnRefs
  <2>5. QED
    BY <1>6, <1>7, <2>3, <2>4 DEF EndSlots
<1>9. ASSUME IsObject(LastOf(w, k - 1)) PROVE ref.other = LastOf(w, k - 1).obj.pts[i].refer
  <2>1. EndSlots(deps.lists[w], LastOf(w, k - 1).obj, w)
    BY <1>2, <1>3, <1>9 DEF SlotsHeld
  <2>2. ref = Reference(EndOf(w, i), LastOf(w, k - 1).obj.pts[i].refer)
    BY <1>6, <1>7, <2>1 DEF EndSlots
  <2>3. QED
    BY <2>2 DEF Reference
<1>10. QED
  BY <1>3, <1>8, <1>9

\* If an end has the references to one piece after it was written once, and
\* refers to it then or before, it had none to others.
LEMMA OnlyBefore ==
    ASSUME LogOK, AreTyped(log), NEW o \in -1 .. Newest, NEW k \in 0 .. Newest, o < k,
           NEW p \in -1 .. Newest, k <= p, NEW w \in Walls, MessageAt(k).id = w,
           Untouched(w, o, k - 1), Untouched(w, k, p), NEW i \in 1 .. 2, NEW q, q # None,
           Refers(MessageAt(k), i, q) \/ Refers(LastOf(w, o), i, q),
           OnlyTo(Deps(p), EndOf(w, i), q)
    PROVE  OnlyTo(Deps(o), EndOf(w, i), q)
<1> SUFFICES ASSUME NEW ref \in Deps(o), ref.owner = EndOf(w, i) PROVE ref.other = q
  BY DEF OnlyTo
<1>1. k - 1 \in -1 .. Newest /\ k \in -1 .. Newest /\ o <= k - 1
  BY LogIs
<1>2. ref.owner.id = w
  BY EndsArePieces
<1>3. ref \in Deps(k - 1) /\ LastOf(w, k - 1) = LastOf(w, o)
  <2>1. PICK l : l = k - 1
    OBVIOUS
  <2>2. l \in -1 .. Newest /\ o <= l /\ Untouched(w, o, l)
    BY <1>1, <2>1
  <2>3. LastOf(w, l) = LastOf(w, o) /\ ref \in Deps(l)
    BY <1>2, <2>2, UntouchedKept
  <2>4. QED
    BY <2>1, <2>3
<1>4. CASE ref \in Deps(k)
  <2>1. ref \in Deps(p)
    BY <1>1, <1>2, <1>4, UntouchedKept
  <2>2. QED
    BY <2>1 DEF OnlyTo
<1>5. CASE ref \notin Deps(k)
  <2>1. /\ IsObject(MessageAt(k)) => MessageAt(k).obj.pts[i].refer = None
        /\ IsObject(LastOf(w, k - 1)) => ref.other = LastOf(w, k - 1).obj.pts[i].refer
    BY <1>3, <1>5, LostWithSlot
  <2>2. QED
    BY <1>3, <2>1 DEF Refers
<1>6. QED
  BY <1>4, <1>5

\* The same when it is not written.
LEMMA OnlyKept ==
    ASSUME LogOK, AreTyped(log), NEW o \in -1 .. Newest, NEW p \in -1 .. Newest, o <= p,
           NEW w \in Walls, Untouched(w, o, p), NEW i \in 1 .. 2, NEW q
    PROVE  OnlyTo(Deps(p), EndOf(w, i), q) <=> OnlyTo(Deps(o), EndOf(w, i), q)
<1>1. \A ref : ref.owner.id = w => (ref \in Deps(p) <=> ref \in Deps(o))
  BY UntouchedKept
<1>2. EndOf(w, i).id = w
  BY EndsArePieces
<1>3. QED
  BY <1>1, <1>2 DEF OnlyTo

-----------------------------------------------------------------------------
(* What following references does to the ends of walls *)

\* A wall that fits.
LEMMA WallIs ==
    ASSUME NEW w \in Walls, NEW obj, Fits(w, obj)
    PROVE  /\ obj.kind = "Wall" /\ obj \in WallsOf(w, Piece) /\ obj.openings = << >>
           /\ IsWall(obj, w) /\ obj # None
           /\ DOMAIN obj.pts = 1 .. 2 /\ DOMAIN obj.openings = {} /\ "pts" \in DOMAIN obj
           /\ \A k \in 1 .. 2 : /\ obj.pts[k] \in [refer : Slot(Piece), info : PointResults]
                                /\ DOMAIN obj.pts[k] = {"refer", "info"}
<1>1. w \notin Sheets /\ w \notin Viewports /\ w \in Obj
  BY Assumed DEF Obj
<1>2. obj.kind = "Wall" /\ obj \in WallsOf(w, Piece) /\ obj.openings = << >> /\ IsWall(obj, w)
  BY <1>1, FitsIs
<1>3. obj # None
  BY <1>2, WallIsSome
<1>4. QED
  BY <1>2, <1>3 DEF WallsOf

\* An end is as it was after a reference of another piece is followed.
LEMMA EndStays ==
    ASSUME NEW S \in SUBSET Obj, NEW now \in ObjectsOn(S, Piece), NEW ref \in Links,
           NEW w \in S \cap Walls, Fits(w, now[w]), NEW i \in 1 .. 2,
           NEW after, after = UpdateReference(now, ref), ref.owner # EndOf(w, i)
    PROVE  after[w].pts[i] = now[w].pts[i]
<1>1. PICK obj : obj = now[w]
  OBVIOUS
<1>2. /\ obj.kind = "Wall" /\ obj \in WallsOf(w, Piece) /\ obj.openings = << >>
      /\ IsWall(obj, w) /\ DOMAIN now = S
  <2>1. Fits(w, obj)
    BY <1>1
  <2>2. QED
    BY <2>1, WallIs DEF ObjectsOn
<1>3. /\ DOMAIN obj.pts = 1 .. 2 /\ DOMAIN obj.openings = {} /\ "pts" \in DOMAIN obj
      /\ \A k \in 1 .. 2 : obj.pts[k] \in [refer : Slot(Piece), info : PointResults]
  BY <1>2 DEF WallsOf
<1>4. after[w].pts[i] = obj.pts[i]
  <2>1. CASE ref.owner.id # w
    <3>1. after[w] = now[w]
      BY <1>2, <2>1 DEF UpdateReference
    <3>2. QED
      BY <1>1, <3>1
  <2>2. CASE ~ Affects(now, ref, S)
    BY <1>1, <2>2, ReferenceSkipped
  <2>3. CASE ref.owner.id = w /\ Affects(now, ref, S)
    <3>1. PICK t, k, result : /\ t = ref.owner.ref_type /\ k = ref.owner.index
                              /\ result = GetRefResult(now, ref.other)
      OBVIOUS
    <3>2. after[w] = SetAssociatedResult(obj, t, k, result)
      BY <1>1, <2>3, <3>1, UpdateIs
    <3>3. after[w] = W!SetAssociatedResult(obj, t, k, result)
      BY <1>2, <3>2, OfWall
    <3>4. ~ (t = "ProfilePoint" /\ k = i)
      <4>1. ref.owner \in Piece
        BY DEF Links
      <4>2. ref.owner = [id |-> w, ref_type |-> t, index |-> k]
        BY <2>3, <3>1, <4>1 DEF Piece
      <4>3. QED
        BY <4>2 DEF EndOf, RefID
    <3>5. CASE t = "ProfilePoint" /\ k \in 1 .. 2
      <4>1. after[w] = [obj EXCEPT !.pts[k] = W!Updated(obj.pts[k], result)]
        BY <3>3, <3>5 DEF W!SetAssociatedResult
      <4>2. QED
        BY <1>3, <3>4, <3>5, <4>1
    <3>6. CASE ~ (t = "ProfilePoint" /\ k \in 1 .. 2)
      BY <1>3, <3>3, <3>6 DEF W!SetAssociatedResult
    <3>7. QED
      BY <3>5, <3>6
  <2>4. QED
    BY <2>1, <2>2, <2>3
<1>5. QED
  BY <1>1, <1>4

\* An end is as it was after a reference of another piece is followed, and
\* where the piece is after its own is followed.
Follows(now, after, ref, w, i, v, j) ==
    /\ ref.owner # EndOf(w, i) => after[w].pts[i] = now[w].pts[i]
    /\ ref = Reference(EndOf(w, i), EndOf(v, j)) =>
           after[w].pts[i] = [now[w].pts[i] EXCEPT !.info = now[v].pts[j].info]

\* What following one reference does to an end of a wall.
LEMMA EndFollows ==
    ASSUME NEW S \in SUBSET Obj, NEW now \in ObjectsOn(S, Piece), NEW ref \in Links,
           NEW w \in S \cap Walls, Fits(w, now[w]), NEW i \in 1 .. 2,
           NEW v \in (S \cap Walls) \ {w}, Fits(v, now[v]), NEW j \in 1 .. 2,
           NEW after, after = UpdateReference(now, ref)
    PROVE  Follows(now, after, ref, w, i, v, j)
<1>1. PICK obj : obj = now[w]
  OBVIOUS
<1>2. /\ obj.kind = "Wall" /\ obj \in WallsOf(w, Piece) /\ obj.openings = << >>
      /\ IsWall(obj, w) /\ DOMAIN now = S /\ obj # None
  <2>1. Fits(w, obj)
    BY <1>1
  <2>2. QED
    BY <2>1, WallIs DEF ObjectsOn
<1>3. /\ DOMAIN obj.pts = 1 .. 2 /\ DOMAIN obj.openings = {} /\ "pts" \in DOMAIN obj
      /\ \A k \in 1 .. 2 : obj.pts[k] \in [refer : Slot(Piece), info : PointResults]
  BY <1>2 DEF WallsOf
<1>4. ref.owner # EndOf(w, i) => after[w].pts[i] = obj.pts[i]
  BY <1>1, EndStays
<1>5. ASSUME ref = Reference(EndOf(w, i), EndOf(v, j))
      PROVE  after[w].pts[i] = [obj.pts[i] EXCEPT !.info = now[v].pts[j].info]
  <2>1. /\ ref.owner.id = w /\ ref.owner.ref_type = "ProfilePoint" /\ ref.owner.index = i
        /\ ref.other.id = v /\ ref.other.ref_type = "ProfilePoint" /\ ref.other.index = j
    BY <1>5 DEF Reference, EndOf, RefID
  <2>2. Affects(now, ref, S)
    BY <1>1, <1>2, <2>1 DEF Affects
  <2>3. PICK wall : wall = now[v]
    OBVIOUS
  <2>4. wall.kind = "Wall" /\ wall \in WallsOf(v, Piece) /\ IsWall(wall, v) /\ wall # None
    <3>1. Fits(v, wall)
      BY <2>3
    <3>2. QED
      BY <3>1, WallIs
  <2>5. GetRefResult(now, ref.other) = GetResult(wall, "ProfilePoint", j)
    BY <1>2, <1>5, <2>1, <2>3, <2>4 DEF GetRefResult
  <2>6. PICK info : info = wall.pts[j].info
    OBVIOUS
  <2>7. GetResult(wall, "ProfilePoint", j) = info
    BY <2>4, <2>6, OfWall, WallResult
  <2>8. info \in PointResults /\ info.kind = "Point"
    BY <2>4, <2>6 DEF WallsOf, PointResults
  <2>9. info # None
    BY <2>8, Assumed DEF NoneIsApart
  <2>10. after[w] = SetAssociatedResult(obj, "ProfilePoint", i, info)
    BY <1>1, <2>1, <2>2, <2>5, <2>7, UpdateIs
  <2>11. after[w] = [obj EXCEPT !.pts[i] = W!Updated(obj.pts[i], info)]
    BY <1>2, <2>10, OfWall DEF W!SetAssociatedResult
  <2>12. W!Updated(obj.pts[i], info) = [obj.pts[i] EXCEPT !.info = info]
    <3>1. obj.pts[i].info.kind = "Point"
      BY <1>3 DEF PointResults
    <3>2. QED
      BY <2>8, <2>9, <3>1 DEF W!Updated
  <2>13. after[w].pts[i] = W!Updated(obj.pts[i], info)
    BY <1>3, <2>11
  <2>14. QED
    BY <2>3, <2>6, <2>12, <2>13
<1>6. QED
  BY <1>1, <1>4, <1>5 DEF Follows

\* Ends that refer to each other only: they are at one place once a reference
\* of one of them has been followed, and before they are as they were.
EndsAlike(objs, now, refs, k, w, i, v, j) ==
    /\ now[w].pts[i].refer = objs[w].pts[i].refer
    /\ now[v].pts[j].refer = objs[v].pts[j].refer
    /\ \/ now[w].pts[i].info = now[v].pts[j].info
       \/ /\ now[w].pts[i] = objs[w].pts[i] /\ now[v].pts[j] = objs[v].pts[j]
          /\ \A l \in 1 .. k : refs[l].owner \notin {EndOf(w, i), EndOf(v, j)}

\* Following a list of references leaves such ends alike.
LEMMA EndsUpdated ==
    ASSUME NEW S \in SUBSET Obj, NEW objs \in ObjectsOn(S, Piece), StillFit(objs, objs, S),
           NEW refs, Len(refs) \in Nat, \A k \in 1 .. Len(refs) : refs[k] \in Links,
           NEW w \in S \cap Walls, NEW v \in (S \cap Walls) \ {w},
           objs[w] # None, objs[v] # None, NEW i \in 1 .. 2, NEW j \in 1 .. 2,
           \A k \in 1 .. Len(refs) :
               /\ refs[k].owner = EndOf(w, i) => refs[k].other = EndOf(v, j)
               /\ refs[k].owner = EndOf(v, j) => refs[k].other = EndOf(w, i)
    PROVE  EndsAlike(objs, UpdateAll(objs, refs), refs, Len(refs), w, i, v, j)
<1>0. NoneIsApart(Piece)
  BY Assumed
<1>1. PICK after : UpdatesBy(after, objs, refs)
  BY <1>0, UpdatedInSteps
<1>2. \A k \in 0 .. Len(refs) : after[k] \in ObjectsOn(S, Piece)
  BY <1>0, <1>1, UpdatedTyped
<1> DEFINE Good(now, k) == /\ StillFit(objs, now, S)
                           /\ now[w] # None /\ now[v] # None
                           /\ EndsAlike(objs, now, refs, k, w, i, v, j)
           J == {k \in 0 .. Len(refs) : Good(after[k], k)}
<1>3. 0 \in J
  <2>1. \A l \in 1 .. 0 : FALSE
    OBVIOUS
  <2>2. EndsAlike(objs, objs, refs, 0, w, i, v, j)
    BY <2>1 DEF EndsAlike
  <2>3. QED
    BY <1>1, <2>2 DEF UpdatesBy
<1>4. ASSUME NEW k \in 0 .. Len(refs) - 1, k \in J PROVE k + 1 \in J
  <2>1. k \in 0 .. Len(refs) /\ k + 1 \in 0 .. Len(refs) /\ k + 1 \in 1 .. Len(refs)
        /\ (k + 1) - 1 = k /\ \A l \in 1 .. k + 1 : l \in 1 .. k \/ l = k + 1
    OBVIOUS
  <2>2. PICK now, ref, next : now = after[k] /\ ref = refs[k + 1] /\ next = after[k + 1]
    OBVIOUS
  <2>3. next = UpdateReference(now, ref)
    BY <1>1, <2>1, <2>2 DEF UpdatesBy
  <2>4. now \in ObjectsOn(S, Piece) /\ Good(now, k) /\ ref \in Links
    BY <1>2, <1>4, <2>1, <2>2
  <2>5. StillFit(objs, next, S)
    BY <2>3, <2>4, ReferenceFits
  <2>6. next[w] # None /\ next[v] # None
    <3>1. PICK wall, other : wall = next[w] /\ other = next[v]
      OBVIOUS
    <3>2. Fits(w, wall) /\ Fits(v, other)
      BY <2>5, <3>1 DEF StillFit
    <3>3. wall # None /\ other # None
      BY <3>2, WallIs
    <3>4. QED
      BY <3>1, <3>3
  <2>7. Fits(w, now[w]) /\ Fits(v, now[v])
    BY <2>4 DEF StillFit
  <2>8. now[w] # None /\ now[v] # None
    BY <2>4
  <2> HIDE DEF Good, J
  <2>9. Follows(now, next, ref, w, i, v, j)
    BY <2>3, <2>4, <2>7, <2>8, EndFollows
  <2>10. Follows(now, next, ref, v, j, w, i)
    <3>1. v \in S \cap Walls /\ w \in (S \cap Walls) \ {v}
      OBVIOUS
    <3>2. QED
      BY <2>3, <2>4, <2>7, <2>8, <3>1, EndFollows
  <2> USE DEF Good, J
  <2>11. EndsAlike(objs, now, refs, k, w, i, v, j)
    BY <2>4
  <2>12. EndsAlike(objs, next, refs, k + 1, w, i, v, j)
    <3>1. EndOf(w, i) # EndOf(v, j)
      BY EndsArePieces
    <3>2. DOMAIN now[w].pts[i] = {"refer", "info"} /\ DOMAIN now[v].pts[j] = {"refer", "info"}
      BY <2>7, WallIs
    <3>3. CASE ref.owner = EndOf(w, i)
      <4>1. ref = Reference(EndOf(w, i), EndOf(v, j))
        <5>1. ref.other = EndOf(v, j)
          BY <2>1, <2>2, <3>3
        <5>2. ref = [owner |-> ref.owner, other |-> ref.other]
          BY <2>4 DEF Links
        <5>3. QED
          BY <3>3, <5>1, <5>2 DEF Reference
      <4>2. /\ next[w].pts[i] = [now[w].pts[i] EXCEPT !.info = now[v].pts[j].info]
            /\ next[v].pts[j] = now[v].pts[j]
        BY <2>9, <2>10, <3>1, <3>3, <4>1 DEF Follows
      <4>3. /\ next[w].pts[i].info = now[v].pts[j].info
            /\ next[w].pts[i].refer = now[w].pts[i].refer
        BY <3>2, <4>2
      <4>4. QED
        BY <2>11, <4>2, <4>3 DEF EndsAlike
    <3>4. CASE ref.owner = EndOf(v, j)
      <4>1. ref = Reference(EndOf(v, j), EndOf(w, i))
        <5>1. ref.other = EndOf(w, i)
          BY <2>1, <2>2, <3>4
        <5>2. ref = [owner |-> ref.owner, other |-> ref.other]
          BY <2>4 DEF Links
        <5>3. QED
          BY <3>4, <5>1, <5>2 DEF Reference
      <4>2. /\ next[v].pts[j] = [now[v].pts[j] EXCEPT !.info = now[w].pts[i].info]
            /\ next[w].pts[i] = now[w].pts[i]
        BY <2>9, <2>10, <3>1, <3>4, <4>1 DEF Follows
      <4>3. /\ next[v].pts[j].info = now[w].pts[i].info
            /\ next[v].pts[j].refer = now[v].pts[j].refer
        BY <3>2, <4>2
      <4>4. QED
        BY <2>11, <4>2, <4>3 DEF EndsAlike
    <3>5. CASE ref.owner \notin {EndOf(w, i), EndOf(v, j)}
      <4>1. next[w].pts[i] = now[w].pts[i] /\ next[v].pts[j] = now[v].pts[j]
        BY <2>9, <2>10, <3>5 DEF Follows
      <4>2. (\A l \in 1 .. k : refs[l].owner \notin {EndOf(w, i), EndOf(v, j)})
                => \A l \in 1 .. k + 1 : refs[l].owner \notin {EndOf(w, i), EndOf(v, j)}
        BY <2>1, <2>2, <3>5
      <4>3. QED
        BY <2>11, <4>1, <4>2 DEF EndsAlike
    <3>6. QED
      BY <3>3, <3>4, <3>5
  <2>13. QED
    BY <2>1, <2>2, <2>5, <2>6, <2>12
<1>5. Len(refs) \in J
  <2> HIDE DEF J
  <2>1. 0 .. Len(refs) \subseteq J
    BY <1>3, <1>4, UpTo
  <2>2. QED
    BY <2>1
<1>6. QED
  BY <1>1, <1>5 DEF UpdatesBy

\* An end that no reference has as its owner stays as it is.
LEMMA EndUntouched ==
    ASSUME NEW S \in SUBSET Obj, NEW objs \in ObjectsOn(S, Piece), StillFit(objs, objs, S),
           NEW refs, Len(refs) \in Nat, \A k \in 1 .. Len(refs) : refs[k] \in Links,
           NEW w \in S \cap Walls, objs[w] # None, NEW i \in 1 .. 2,
           \A k \in 1 .. Len(refs) : refs[k].owner # EndOf(w, i)
    PROVE  UpdateAll(objs, refs)[w].pts[i] = objs[w].pts[i]
<1>0. NoneIsApart(Piece)
  BY Assumed
<1>1. PICK after : UpdatesBy(after, objs, refs)
  BY <1>0, UpdatedInSteps
<1>2. \A k \in 0 .. Len(refs) : after[k] \in ObjectsOn(S, Piece)
  BY <1>0, <1>1, UpdatedTyped
<1> DEFINE Good(now) == StillFit(objs, now, S) /\ now[w].pts[i] = objs[w].pts[i]
           J == {k \in 0 .. Len(refs) : Good(after[k])}
<1>3. 0 \in J
  BY <1>1 DEF UpdatesBy
<1>4. ASSUME NEW k \in 0 .. Len(refs) - 1, k \in J PROVE k + 1 \in J
  <2>1. k \in 0 .. Len(refs) /\ k + 1 \in 0 .. Len(refs) /\ k + 1 \in 1 .. Len(refs)
        /\ (k + 1) - 1 = k
    OBVIOUS
  <2>2. PICK now, ref, next : now = after[k] /\ ref = refs[k + 1] /\ next = after[k + 1]
    OBVIOUS
  <2>3. next = UpdateReference(now, ref)
    BY <1>1, <2>1, <2>2 DEF UpdatesBy
  <2>4. now \in ObjectsOn(S, Piece) /\ Good(now) /\ ref \in Links /\ ref.owner # EndOf(w, i)
    BY <1>2, <1>4, <2>1, <2>2
  <2>5. StillFit(objs, next, S)
    BY <2>3, <2>4, ReferenceFits
  <2>6. Fits(w, now[w])
    BY <2>4 DEF StillFit
  <2> HIDE DEF Good, J
  <2>7. next[w].pts[i] = now[w].pts[i]
    BY <2>3, <2>4, <2>6, EndStays
  <2>8. QED
    BY <2>1, <2>2, <2>4, <2>5, <2>7 DEF Good, J
<1>5. Len(refs) \in J
  <2> HIDE DEF J
  <2>1. 0 .. Len(refs) \subseteq J
    BY <1>3, <1>4, UpTo
  <2>2. QED
    BY <2>1
<1>6. QED
  BY <1>1, <1>5 DEF UpdatesBy

\* The objects of the changes, as update_objects gets them.
ObjsOf(changes) ==
    [x \in IdsOf(changes) |-> changes[CHOOSE n \in DOMAIN changes : changes[n].id = x].obj]

\* They are the objects of the changes, each as its one change has it.
LEMMA ObjsAre ==
    ASSUME NEW changes, AreTyped(changes), AreApart(changes)
    PROVE  /\ IdsOf(changes) \in SUBSET Obj
           /\ ObjsOf(changes) \in ObjectsOn(IdsOf(changes), Piece)
           /\ StillFit(ObjsOf(changes), ObjsOf(changes), IdsOf(changes))
           /\ \A n \in DOMAIN changes : /\ changes[n].id \in IdsOf(changes)
                                        /\ ObjsOf(changes)[changes[n].id] = changes[n].obj
<1>1. PICK S, objs : S = IdsOf(changes) /\ objs = ObjsOf(changes)
  OBVIOUS
<1>2. ASSUME NEW n \in DOMAIN changes
      PROVE  changes[n].id \in S /\ objs[changes[n].id] = changes[n].obj
  <2>1. PICK x, k : x = changes[n].id /\ k = CHOOSE l \in DOMAIN changes : changes[l].id = x
    OBVIOUS
  <2>2. k \in DOMAIN changes /\ changes[k].id = x
    BY <2>1
  <2>3. k = n
    BY <2>1, <2>2 DEF AreApart
  <2>4. x \in S
    BY <1>1, <2>1 DEF IdsOf
  <2>5. objs[x] = changes[k].obj
    BY <1>1, <2>1, <2>4 DEF ObjsOf
  <2>6. QED
    BY <2>1, <2>3, <2>4, <2>5
<1>3. ASSUME NEW x \in S PROVE \E n \in DOMAIN changes : changes[n].id = x
  BY <1>1 DEF IdsOf
<1>4. ASSUME NEW n \in DOMAIN changes
      PROVE  LET m == changes[n]
             IN  m.id \in Obj /\ IF m.change = "Delete" THEN m.obj = None ELSE Fits(m.id, m.obj)
  BY DEF AreTyped, IsTyped, IsMessage
<1>5. S \in SUBSET Obj
  BY <1>3, <1>4
<1>6. ASSUME NEW x \in S PROVE objs[x] = None \/ Fits(x, objs[x])
  <2>1. PICK n \in DOMAIN changes : changes[n].id = x
    BY <1>3
  <2>2. QED
    BY <1>2, <1>4, <2>1
<1>7. objs \in ObjectsOn(S, Piece)
  <2>1. \A x \in S : objs[x] = None \/ objs[x] \in Objects(x, Piece)
    BY <1>6 DEF Fits
  <2>2. DOMAIN objs = S /\ objs = [x \in S |-> objs[x]]
    BY <1>1 DEF ObjsOf
  <2>3. \A x \in S : objs[x] \in (UNION {Objects(y, Piece) : y \in S}) \cup {None}
    BY <2>1
  <2>4. QED
    BY <2>1, <2>2, <2>3 DEF ObjectsOn
<1>8. StillFit(objs, objs, S)
  BY <1>6 DEF StillFit
<1>9. QED
  BY <1>1, <1>2, <1>5, <1>7, <1>8

\* What update_objects leaves of a change.
LEMMA UpdatedObj ==
    ASSUME NEW changes, AreTyped(changes), NEW refs, NEW n \in DOMAIN changes
    PROVE  UpdateObjects(changes, refs)[n].obj = UpdateAll(ObjsOf(changes), refs)[changes[n].id]
<1>1. PICK updated : updated = UpdateAll(ObjsOf(changes), refs)
  OBVIOUS
<1>2. UpdateObjects(changes, refs)[n] = [changes[n] EXCEPT !.obj = updated[changes[n].id]]
  BY <1>1 DEF UpdateObjects, ObjsOf
<1>3. changes[n] = Change(changes[n].change, changes[n].id, changes[n].obj)
  BY DEF AreTyped, IsTyped, IsChange
<1>4. QED
  BY <1>1, <1>2, <1>3 DEF Change

\* The references in the list that an end has are to one piece.
OnlyIn(refs, p, q) == \A k \in 1 .. Len(refs) : refs[k].owner = p => refs[k].other = q

\* Two ends of a batch: at one place, or as they were.
BothFollow(changes, batch, refs, m, i, n, j) ==
    /\ batch[m].obj.pts[i].refer = changes[m].obj.pts[i].refer
    /\ batch[n].obj.pts[j].refer = changes[n].obj.pts[j].refer
    /\ \/ batch[m].obj.pts[i].info = batch[n].obj.pts[j].info
       \/ /\ batch[m].obj.pts[i] = changes[m].obj.pts[i]
          /\ batch[n].obj.pts[j] = changes[n].obj.pts[j]
          /\ \A k \in 1 .. Len(refs) :
                refs[k].owner \notin {EndOf(changes[m].id, i), EndOf(changes[n].id, j)}

\* Updating a batch does so: the ends that the changes leave referring to each
\* other only are at one place, or no reference of theirs was followed.
LEMMA BatchEnds ==
    ASSUME NEW changes, AreTyped(changes), AreApart(changes),
           NEW refs, Len(refs) \in Nat, \A k \in 1 .. Len(refs) : refs[k] \in Links,
           NEW batch, batch = UpdateObjects(changes, refs),
           NEW m \in DOMAIN changes, NEW n \in DOMAIN changes,
           NEW w \in Walls, NEW v \in Walls \ {w}, changes[m].id = w, changes[n].id = v,
           changes[m].change # "Delete", changes[n].change # "Delete",
           NEW i \in 1 .. 2, NEW j \in 1 .. 2,
           OnlyIn(refs, EndOf(w, i), EndOf(v, j)), OnlyIn(refs, EndOf(v, j), EndOf(w, i))
    PROVE  BothFollow(changes, batch, refs, m, i, n, j)
<1>1. PICK S, objs, updated :
          S = IdsOf(changes) /\ objs = ObjsOf(changes) /\ updated = UpdateAll(objs, refs)
  OBVIOUS
<1>2. /\ S \in SUBSET Obj /\ objs \in ObjectsOn(S, Piece) /\ StillFit(objs, objs, S)
      /\ w \in S \cap Walls /\ v \in (S \cap Walls) \ {w}
      /\ objs[w] = changes[m].obj /\ objs[v] = changes[n].obj
  BY <1>1, ObjsAre
<1>3. objs[w] # None /\ objs[v] # None
  <2>1. PICK wall, other : wall = changes[m].obj /\ other = changes[n].obj
    OBVIOUS
  <2>2. Fits(w, wall) /\ Fits(v, other)
    BY <2>1 DEF AreTyped, IsTyped
  <2>3. wall # None /\ other # None
    BY <2>2, WallIs
  <2>4. QED
    BY <1>2, <2>1, <2>3
<1>4. \A k \in 1 .. Len(refs) :
          /\ refs[k].owner = EndOf(w, i) => refs[k].other = EndOf(v, j)
          /\ refs[k].owner = EndOf(v, j) => refs[k].other = EndOf(w, i)
  BY DEF OnlyIn
<1>5. EndsAlike(objs, updated, refs, Len(refs), w, i, v, j)
  BY <1>1, <1>2, <1>3, <1>4, EndsUpdated
<1>6. batch[m].obj = updated[w] /\ batch[n].obj = updated[v]
  BY <1>1, UpdatedObj
<1>7. QED
  BY <1>2, <1>5, <1>6 DEF EndsAlike, BothFollow

\* No reference is followed for an end.
NotFollowed(refs, p) == \A k \in 1 .. Len(refs) : refs[k].owner # p

\* An end of a batch that no reference is followed for.
LEMMA BatchEndKept ==
    ASSUME NEW changes, AreTyped(changes), AreApart(changes),
           NEW refs, Len(refs) \in Nat, \A k \in 1 .. Len(refs) : refs[k] \in Links,
           NEW batch, batch = UpdateObjects(changes, refs),
           NEW m \in DOMAIN changes, NEW w \in Walls, changes[m].id = w,
           changes[m].change # "Delete", NEW i \in 1 .. 2, NotFollowed(refs, EndOf(w, i))
    PROVE  batch[m].obj.pts[i] = changes[m].obj.pts[i]
<1>1. PICK S, objs, updated :
          S = IdsOf(changes) /\ objs = ObjsOf(changes) /\ updated = UpdateAll(objs, refs)
  OBVIOUS
<1>2. /\ S \in SUBSET Obj /\ objs \in ObjectsOn(S, Piece) /\ StillFit(objs, objs, S)
      /\ w \in S \cap Walls /\ objs[w] = changes[m].obj
  BY <1>1, ObjsAre
<1>3. objs[w] # None
  <2>1. PICK wall : wall = changes[m].obj
    OBVIOUS
  <2>2. Fits(w, wall)
    BY <2>1 DEF AreTyped, IsTyped
  <2>3. wall # None
    BY <2>2, WallIs
  <2>4. QED
    BY <1>2, <2>1, <2>3
<1>4. updated[w].pts[i] = objs[w].pts[i]
  <2>1. \A k \in 1 .. Len(refs) : refs[k].owner # EndOf(w, i)
    BY DEF NotFollowed
  <2>2. QED
    BY <1>1, <1>2, <1>3, <2>1, EndUntouched, SMTT(30)
<1>5. batch[m].obj = updated[w]
  BY <1>1, UpdatedObj
<1>6. QED
  BY <1>2, <1>4, <1>5

\* What an end of a batch refers to, it referred to before.
LEMMA BatchRefers ==
    ASSUME NEW changes, AreTyped(changes), AreApart(changes), NEW refs, Len(refs) \in Nat,
           NEW batch, batch = UpdateObjects(changes, refs), AreTyped(batch),
           NEW m \in DOMAIN changes, m \in DOMAIN batch,
           NEW w \in Walls, changes[m].id = w, batch[m].id = w,
           changes[m].change # "Delete", batch[m].change # "Delete", NEW i \in 1 .. 2,
           batch[m].obj.pts[i].refer # None
    PROVE  changes[m].obj.pts[i].refer = batch[m].obj.pts[i].refer
<1>1. PICK S, objs, updated :
          S = IdsOf(changes) /\ objs = ObjsOf(changes) /\ updated = UpdateAll(objs, refs)
  OBVIOUS
<1>2. /\ objs \in ObjectsOn(S, Piece) /\ w \in S /\ objs[w] = changes[m].obj
  BY <1>1, ObjsAre
<1>3. Keeps(objs, updated, S)
  BY <1>1, <1>2, Assumed, UpdateAllKeeps
<1>4. PICK before, after : before = changes[m].obj /\ after = batch[m].obj
  OBVIOUS
<1>5. updated[w] = after
  BY <1>1, <1>4, UpdatedObj
<1>6. Fits(w, before) /\ Fits(w, after) /\ w \in Obj
  BY <1>4 DEF AreTyped, IsTyped, Obj
<1>7. after # None
  BY <1>6, WallIs
<1>8. OnlyClears(before, after)
  BY <1>2, <1>3, <1>4, <1>5, <1>7 DEF Keeps
<1>9. EndSlots(GetRefs(before), before, w) /\ EndSlots(GetRefs(after), after, w)
  BY <1>6, OwnRefs
<1>10. GetRefs(after)[i] # None /\ GetRefs(after)[i] = Reference(EndOf(w, i), after.pts[i].refer)
  BY <1>4, <1>9 DEF EndSlots, Some
<1>11. GetRefs(before)[i] = GetRefs(after)[i]
  BY <1>8, <1>9, <1>10 DEF OnlyClears, EndSlots
<1>12. GetRefs(before)[i] = Reference(EndOf(w, i), before.pts[i].refer)
  BY <1>9, <1>10, <1>11 DEF EndSlots, Some
<1>13. QED
  BY <1>4, <1>10, <1>11, <1>12 DEF Reference

\* The pieces of a changed object that refer to something.
OwnersOf(change) ==
    IF change.change = "Delete" THEN << >>
    ELSE LET refs == Subsequence(GetRefs(change.obj), Some(GetRefs(change.obj)))
         IN  [n \in DOMAIN refs |-> refs[n].owner]
\* They are all asked for.
AreAsked(change, pieces) ==
    change.change # "Delete" =>
        \A k \in Some(GetRefs(change.obj)) : GetRefs(change.obj)[k].owner \in Range(pieces)

\* They are pieces, and nothing that refers to something is left out.
LEMMA OwnersAre ==
    ASSUME NEW m, IsTyped(m)
    PROVE  OwnersOf(m) \in Seq(Piece) /\ AreAsked(m, OwnersOf(m))
<1>1. CASE m.change = "Delete"
  BY <1>1 DEF OwnersOf, AreAsked
<1>2. CASE m.change # "Delete"
  <2>1. m.id \in Obj /\ Fits(m.id, m.obj)
    BY <1>2 DEF IsTyped, IsMessage
  <2>2. PICK s : s = GetRefs(m.obj)
    OBVIOUS
  <2>3. s \in Seq(Slot(Links)) /\ DOMAIN s = 1 .. Len(s) /\ Len(s) \in Nat
    BY <2>1, <2>2, RefsTyped
  <2>4. PICK I, refs : I = Some(s) /\ refs = Subsequence(s, I)
    OBVIOUS
  <2>5. PICK at : Selects(at, refs, s, I, Len(s))
    BY <2>3, <2>4, SubsequenceIs
  <2>6. refs \in Seq(Slot(Links)) /\ Len(refs) \in Nat /\ DOMAIN refs = 1 .. Len(refs)
    BY <2>3, <2>4, SubsequenceIs, LenProperties
  <2>7. ASSUME NEW k \in 1 .. Len(refs) PROVE refs[k].owner \in Piece
    <3>1. refs[k] = s[at[k]] /\ at[k] \in I
      BY <2>5 DEF Selects
    <3>2. refs[k] \in Slot(Links) /\ refs[k] # None
      BY <2>4, <2>6, <3>1, ElementOfSeq DEF Some
    <3>3. QED
      BY <3>2 DEF Slot, Links
  <2>8. PICK owners : owners = [n \in DOMAIN refs |-> refs[n].owner]
    OBVIOUS
  <2>9. owners \in [1 .. Len(refs) -> Piece]
    BY <2>6, <2>7, <2>8
  <2>10. owners \in Seq(Piece)
    BY <2>6, <2>9, IsSeq
  <2>11. OwnersOf(m) = owners
    BY <1>2, <2>2, <2>4, <2>8 DEF OwnersOf
  <2>12. ASSUME NEW k \in Some(s) PROVE s[k].owner \in Range(owners)
    <3>1. k \in 1 .. Len(s) /\ k \in I
      BY <2>3, <2>4, <2>12 DEF Some
    <3>2. PICK l \in 1 .. Len(refs) : at[l] = k
      BY <2>5, <3>1 DEF Selects
    <3>3. refs[l] = s[k]
      BY <2>5, <3>2 DEF Selects
    <3>4. l \in DOMAIN owners /\ owners[l] = s[k].owner
      BY <2>6, <2>8, <3>3
    <3>5. QED
      BY <3>4 DEF Range
  <2>13. QED
    BY <2>2, <2>10, <2>11, <2>12 DEF AreAsked
<1>3. QED
  BY <1>1, <1>2

\* The pieces of the changes that refer to something.
LEMMA InfoIs ==
    ASSUME NEW changes, AreTyped(changes), Len(changes) \in Nat,
           DOMAIN changes = 1 .. Len(changes)
    PROVE  /\ ExtractInfo(changes) \in Seq(Piece)
           /\ \A m \in 1 .. Len(changes) : AreAsked(changes[m], ExtractInfo(changes))
<1> DEFINE Is(f) == f = [n \in 0 .. Len(changes) |->
                            IF n = 0 THEN << >> ELSE f[n - 1] \o OwnersOf(changes[n])]
<1>1. ASSUME NEW m, IsTyped(m) PROVE OwnersOf(m) \in Seq(Piece) /\ AreAsked(m, OwnersOf(m))
  BY <1>1, OwnersAre
<1>2. PICK n, T : n = Len(changes) /\ T = Seq(Piece)
  OBVIOUS
<1>3. PICK step : step = [i \in 1 .. n |-> [s \in T |-> s \o OwnersOf(changes[i])]]
  OBVIOUS
<1>4. \A i \in 1 .. n : \A s \in T : s \o OwnersOf(changes[i]) \in T
  <2> SUFFICES ASSUME NEW i \in 1 .. n, NEW s \in T PROVE s \o OwnersOf(changes[i]) \in T
    OBVIOUS
  <2>1. IsTyped(changes[i])
    BY <1>2 DEF AreTyped
  <2>2. OwnersOf(changes[i]) \in Seq(Piece)
    BY <1>1, <2>1
  <2>3. PICK t : t = OwnersOf(changes[i])
    OBVIOUS
  <2>4. QED
    BY <1>2, <2>2, <2>3, ConcatIs
<1>5. step \in [1 .. n -> [T -> T]]
  BY <1>3, <1>4
<1>6. << >> \in T /\ n \in Nat
  BY <1>2, EmptySeq
<1>7. PICK f : Steps(f, n, T, << >>, step)
  BY <1>5, <1>6, Recursion
<1>8. Is(f)
  <2>1. f \in [0 .. n -> T] /\ f[0] = << >>
    BY <1>7 DEF Steps
  <2>2. ASSUME NEW i \in 0 .. n, i # 0 PROVE f[i] = f[i - 1] \o OwnersOf(changes[i])
    <3>1. i \in 1 .. n /\ i - 1 \in 0 .. n
      BY <1>6, <2>2
    <3>2. f[i] = step[i][f[i - 1]] /\ f[i - 1] \in T
      BY <1>7, <2>1, <3>1 DEF Steps
    <3>3. QED
      BY <1>3, <3>1, <3>2
  <2>3. QED
    BY <1>2, <2>1, <2>2
<1>9. PICK of : of = CHOOSE g : Is(g)
  OBVIOUS
<1>10. Is(of)
  <2> HIDE DEF Is
  <2>1. QED
    BY <1>8, <1>9
<1>11. ExtractInfo(changes) = of[Len(changes)]
  BY <1>9 DEF ExtractInfo, OwnersOf
<1> DEFINE J == {k \in 0 .. n : of[k] \in T /\ \A m \in 1 .. k : AreAsked(changes[m], of[k])}
<1>12. 0 \in J
  <2>1. 0 \in 0 .. n
    BY <1>6
  <2>2. of[0] = << >>
    BY <1>2, <1>10, <2>1
  <2>3. ~ \E m \in 1 .. 0 : TRUE
    OBVIOUS
  <2>4. QED
    BY <1>6, <2>1, <2>2, <2>3
<1>13. ASSUME NEW k \in 0 .. n - 1, k \in J PROVE k + 1 \in J
  <2>1. k + 1 \in 0 .. n /\ k + 1 # 0 /\ (k + 1) - 1 = k /\ k + 1 \in 1 .. n
    BY <1>6
  <2>2. of[k + 1] = of[k] \o OwnersOf(changes[k + 1])
    BY <1>2, <1>10, <2>1
  <2>3. PICK s, t, u : s = of[k] /\ t = OwnersOf(changes[k + 1]) /\ u = of[k + 1]
    OBVIOUS
  <2>4. IsTyped(changes[k + 1])
    BY <1>2, <2>1 DEF AreTyped
  <2>5. s \in Seq(Piece) /\ t \in Seq(Piece) /\ u = s \o t /\ AreAsked(changes[k + 1], t)
    BY <1>1, <1>2, <1>13, <2>2, <2>3, <2>4
  <2>6. u \in Seq(Piece) /\ Joins(u, s, t)
    BY <2>5, ConcatIs
  <2>7. Range(s) \subseteq Range(u) /\ Range(t) \subseteq Range(u)
    <3>1. DOMAIN s = 1 .. Len(s) /\ DOMAIN t = 1 .. Len(t) /\ DOMAIN u = 1 .. Len(u)
      BY <2>5, <2>6, LenProperties
    <3>2. \A l \in 1 .. Len(s) : l \in 1 .. Len(u) /\ u[l] = s[l]
      BY <2>6 DEF Joins
    <3>3. \A l \in 1 .. Len(t) : Len(s) + l \in 1 .. Len(u) /\ u[Len(s) + l] = t[l]
      BY <2>6 DEF Joins
    <3>4. QED
      BY <3>1, <3>2, <3>3 DEF Range
  <2>8. ASSUME NEW m \in 1 .. k + 1 PROVE AreAsked(changes[m], u)
    <3>1. CASE m = k + 1
      BY <2>5, <2>7, <3>1 DEF AreAsked
    <3>2. CASE m # k + 1
      <4>1. m \in 1 .. k
        BY <1>6, <3>2
      <4>2. AreAsked(changes[m], s)
        BY <1>13, <2>3, <4>1
      <4>3. QED
        BY <2>7, <4>2 DEF AreAsked
    <3>3. QED
      BY <3>1, <3>2
  <2>9. QED
    BY <1>2, <2>1, <2>3, <2>6, <2>8
<1>14. n \in J
  <2> HIDE DEF J
  <2>1. 0 .. n \subseteq J
    BY <1>6, <1>12, <1>13, UpTo
  <2>2. QED
    BY <1>6, <2>1
<1>15. QED
  BY <1>2, <1>11, <1>14

-----------------------------------------------------------------------------
(* Joined ends: the inductive invariant *)

\* Two ends, as two changes leave them, are at one place.
SameInfo(m, i, n, j) == m.obj.pts[i].info = n.obj.pts[j].info

\* Ends of w and v, as m and n leave them, that refer to each other only.
AreJoined(m, i, n, j, w, v, refs) ==
    /\ Refers(m, i, EndOf(v, j)) /\ Refers(n, j, EndOf(w, i))
    /\ OnlyTo(refs, EndOf(w, i), EndOf(v, j)) /\ OnlyTo(refs, EndOf(v, j), EndOf(w, i))
EndsAgree(m, n, w, v, refs) ==
    \A i, j \in 1 .. 2 : AreJoined(m, i, n, j, w, v, refs) => SameInfo(m, i, n, j)
\* The same of ends of which neither is known to refer to the other: ends that
\* are joined anew.  The others follow each other when the batch is updated.
NewEndsAgree(m, n, w, v, refs) ==
    \A i, j \in 1 .. 2 :
        /\ AreJoined(m, i, n, j, w, v, refs)
        /\ Reference(EndOf(w, i), EndOf(v, j)) \notin refs
        /\ Reference(EndOf(v, j), EndOf(w, i)) \notin refs
        => SameInfo(m, i, n, j)
\* What JoinedEndsAgree says of two walls, as of an offset.
Agree(o, w, v) == EndsAgree(LastOf(w, o), LastOf(v, o), w, v, Deps(o))

\* A batch that will be disturbed when it ends, which IsDisturbed says then: it
\* was stale, a message was not delivered, or one of its objects was written
\* after its offset.  Its walls are tainted already, and so are those that
\* have been disturbed or written beside another.
Missed(call) == \E i \in DOMAIN call.batch : call.at[i] = -1 /\ i \notin call.unsent
LastChance(call, i) == IF call.at[i] = -1 THEN Newest ELSE call.at[i] - 1
Overwritten(call) ==
    \E i \in DOMAIN call.batch : ~ Untouched(call.batch[i].id, call.offset, LastChance(call, i))
Doomed(call) == call.pc = "sending" /\ (call.stale \/ Missed(call) \/ Overwritten(call))
Tainted(x) ==
    x \in disturbed \cup crossed \/ \E call \in Range(req) : Doomed(call) /\ x \in IdsOf(call.batch)
IsClean(w) == w \in Walls /\ ~ Tainted(w)

\* A batch of both walls is being sent, and the log has some of it at an offset.
IsParted(call, o, w, v) ==
    /\ call.pc = "sending" /\ call.unsent # {}
    /\ w \in IdsOf(call.batch) /\ v \in IdsOf(call.batch)
    /\ \E n \in DOMAIN call.at : call.at[n] # -1 /\ call.at[n] <= o
PartedAt(o, w, v) == \E call \in Range(req) : IsParted(call, o, w, v)

\* A request that is not stale was made from the state at its offset, which no
\* batch has a part of; so its walls agreed there.
InTime(call) == call.pc \in {"changed", "found", "sending"} /\ ~ call.stale

StartsAgreed(call) ==
    InTime(call) => \A w, v : IsClean(w) /\ IsClean(v) => Agree(call.offset, w, v)
PartsBehind ==
    \A call, other \in Range(req) :
        InTime(call) /\ other.pc = "sending" /\ other.unsent # {} =>
            \A n \in DOMAIN other.at : other.at[n] # -1 => other.at[n] > call.offset

\* The ends that the changes of a request join anew are at one place.
AllAgree(changes, o) ==
    \A m, n \in DOMAIN changes :
        IsClean(changes[m].id) /\ IsClean(changes[n].id) =>
            NewEndsAgree(changes[m], changes[n], changes[m].id, changes[n].id, Deps(o))
ChangesAgree(call) ==
    call.pc \in {"changed", "found"} /\ ~ call.stale => AllAgree(call.changes, call.offset)

\* The references found are all that lead to the pieces of the changes which
\* refer to something.
FoundAll(call) ==
    call.pc = "found" /\ ~ call.stale =>
        /\ call.refs \in Seq(Deps(call.offset))
        /\ \A ref \in Deps(call.offset) :
              ref.other \in Range(ExtractInfo(call.changes)) /\ ref.owner # ref.other =>
                  ref \in Range(call.refs)

\* An end of the batch that refers to an end outside of it, and is referred to
\* by it, is as it was.
IsKept(m, i, n, j, x, w, refs, old) ==
    /\ Refers(m, j, EndOf(w, i)) /\ Refers(n, i, EndOf(x, j))
    /\ OnlyTo(refs, EndOf(x, j), EndOf(w, i))
    => Refers(old, j, EndOf(w, i)) /\ old.obj.pts[j] = m.obj.pts[j]
\* So the batch agrees with itself, and with the walls that are not in it.
BatchJoins(call) ==
    \A m, n \in DOMAIN call.batch :
        IsClean(call.batch[m].id) /\ IsClean(call.batch[n].id) =>
            EndsAgree(call.batch[m], call.batch[n], call.batch[m].id, call.batch[n].id,
                      Deps(call.offset))
BatchKeeps(call) ==
    \A m \in DOMAIN call.batch, w \in Walls \ IdsOf(call.batch) : \A i, j \in 1 .. 2 :
        IsClean(call.batch[m].id) =>
            IsKept(call.batch[m], i, LastOf(w, call.offset), j, call.batch[m].id, w,
                   Deps(call.offset), LastOf(call.batch[m].id, call.offset))
BatchAgrees(call) ==
    call.pc = "sending" /\ ~ call.stale => BatchJoins(call) /\ BatchKeeps(call)

\* The walls of an answered batch agreed before it, each up to its own message:
\* that is what undoing the batch goes back to.
BeforeAgrees(call) ==
    call.pc = "answered" =>
        \A m, n \in DOMAIN call.batch :
            LET w == call.batch[m].id
                v == call.batch[n].id
                s == call.at[m] - 1
                t == call.at[n] - 1
            IN  IsClean(w) /\ IsClean(v) =>
                \A i, j \in 1 .. 2 :
                   /\ Refers(LastOf(w, s), i, EndOf(v, j)) /\ Refers(LastOf(v, t), j, EndOf(w, i))
                   /\ OnlyTo(Deps(s), EndOf(w, i), EndOf(v, j))
                   /\ OnlyTo(Deps(t), EndOf(v, j), EndOf(w, i))
                   => SameInfo(LastOf(w, s), i, LastOf(v, t), j)

\* Offsets between two messages of a batch are recorded as split.
PartsSplit(call) ==
    /\ call.pc = "sending" =>
          \A m, n \in DOMAIN call.at : call.at[m] # -1 =>
              \A k \in call.at[m] .. call.at[n] - 1 : k \in split
    /\ call.pc = "answered" =>
          \A n \in DOMAIN call.at : call.at[n] > call.answer => call.answer \in split
\* Until a batch is all there, what is there of it is the last of its objects.
StaysLast(call) ==
    call.pc = "sending" /\ call.unsent # {} =>
        \A m \in DOMAIN call.at : call.at[m] # -1 =>
            Untouched(call.batch[m].id, call.at[m], Newest) \/ Tainted(call.batch[m].id)

\* Clean walls agree as of every offset at which no batch is torn.
LogAgrees ==
    /\ \A k \in split : k \in Int /\ k < Newest
    /\ \A o \in -1 .. Newest : \A w, v :
          IsClean(w) /\ IsClean(v) => o \in split \/ PartedAt(o, w, v) \/ Agree(o, w, v)
CallAgrees(call) ==
    /\ StartsAgreed(call) /\ ChangesAgree(call) /\ FoundAll(call)
    /\ BatchAgrees(call) /\ BeforeAgrees(call) /\ PartsSplit(call)

\* The inductive invariant: the log agrees, and so does what every request
\* will append to it.
JoinInv ==
    /\ LogAgrees
    /\ PartsBehind
    /\ \A call \in Range(req) : CallAgrees(call) /\ StaysLast(call)

\* The first messages, as a fact of every state.
LogPrefixes ==
    \A o \in -1 .. Newest :
        /\ DOMAIN AsOf(o, Len(log)) = 1 .. o + 1 /\ Len(AsOf(o, Len(log))) = o + 1
        /\ \A i \in 1 .. o + 1 : AsOf(o, Len(log))[i] = log[i]
        /\ IsSequence(AsOf(o, Len(log)))

\* They are a prefix of the log.
LEMMA PrefixesAre == LogOK => LogPrefixes
  BY PrefixIs DEF LogPrefixes

\* What the log has, it has for good, and so do the answers from it.
LEMMA LastKept ==
    ASSUME LogOK, LogOK', NEW m, log' = log \/ log' = Append(log, m)
    PROVE  \A o \in -1 .. Newest :
               /\ o \in -1 .. Newest'
               /\ \A x : LastOf(x, o)' = LastOf(x, o)
               /\ Deps(o)' = Deps(o)
<1>0. LogPrefixes /\ LogPrefixes'
  BY PrefixesAre, PTL
<1> SUFFICES ASSUME NEW o \in -1 .. Newest
             PROVE  /\ o \in -1 .. Newest'
                    /\ \A x : LastOf(x, o)' = LastOf(x, o)
                    /\ Deps(o)' = Deps(o)
  OBVIOUS
<1>1. Newest \in Int /\ Newest' \in Int /\ Newest <= Newest' /\ Newest = Len(log) - 1
  BY LogIs, LogGrows
<1>2. o \in -1 .. Newest'
  BY <1>1
<1>3. PICK s, t : s = AsOf(o, Len(log)) /\ t = AsOf(o, Len(log))'
  OBVIOUS
<1>4. /\ DOMAIN s = 1 .. o + 1 /\ IsSequence(s) /\ \A i \in 1 .. o + 1 : s[i] = log[i]
      /\ Len(s) = o + 1
  BY <1>0, <1>3 DEF LogPrefixes
<1>5. /\ DOMAIN t = 1 .. o + 1 /\ IsSequence(t) /\ \A i \in 1 .. o + 1 : t[i] = log'[i]
      /\ Len(t) = o + 1
  BY <1>0, <1>2, <1>3 DEF LogPrefixes
<1>6. \A i \in 1 .. Len(log) : log'[i] = log[i]
  <2>1. CASE log' = log
    BY <2>1
  <2>2. CASE log' = Append(log, m)
    <3>1. IsSequence(log)
      BY DEF LogOK, AreChanges
    <3>2. PICK u : u = Append(log, m)
      OBVIOUS
    <3>3. \A i \in 1 .. Len(log) : u[i] = log[i]
      BY <3>1, <3>2, AppendedTo
    <3>4. log' = u
      BY <2>2, <3>2
    <3>5. QED
      BY <3>3, <3>4
  <2>3. QED
    BY <2>1, <2>2
<1>7. s = t
  <2>1. PICK n : n = o + 1
    OBVIOUS
  <2>2. s = [i \in 1 .. n |-> s[i]] /\ t = [i \in 1 .. n |-> t[i]]
    <3>1. s \in [1 .. n -> Range(s)] /\ t \in [1 .. n -> Range(t)]
      BY <1>4, <1>5, <2>1, SequenceIs
    <3>2. QED
      BY <3>1
  <2>3. \A i \in 1 .. n : s[i] = t[i]
    BY <1>1, <1>4, <1>5, <1>6, <2>1
  <2>4. QED
    BY <2>2, <2>3
<1>8. ASSUME NEW x PROVE LastOf(x, o)' = LastOf(x, o)
  BY <1>3, <1>7 DEF LastOf, GetObject
<1>9. Deps(o)' = Deps(o)
  BY <1>3, <1>7 DEF Deps, GraphAt
<1>10. QED
  BY <1>2, <1>8, <1>9

-----------------------------------------------------------------------------
(* Joined ends: what a step keeps *)

TaintStays == \A x : Tainted(x) => Tainted(x)'

\* The requests after a step of one client.
LEMMA ReqIs ==
    ASSUME DOMAIN req = Client, NEW c \in Client, NEW after, req' = [req EXCEPT ![c] = after]
    PROVE  /\ DOMAIN req' = Client
           /\ after \in Range(req')
           /\ \A call \in Range(req') : call = after \/ call \in Range(req)
           /\ \A call \in Range(req) : call = req[c] \/ call \in Range(req')
  BY DEF Range

\* A request whose batch was overwritten remains one.
LEMMA DoomedKept ==
    ASSUME LogOK, NEW m, log' = log \/ log' = Append(log, m), NEW call, CallOK(call), Doomed(call)
    PROVE  Doomed(call)'
<1>1. /\ \A k \in 0 .. Newest : MessageAt(k)' = MessageAt(k)
      /\ Newest \in Int /\ Newest' \in Int /\ Newest <= Newest'
  BY LogGrows
<1>2. CASE call.stale \/ Missed(call)
  BY <1>2 DEF Doomed, Missed
<1>3. CASE Overwritten(call)
  <2>1. PICK i \in DOMAIN call.batch : ~ Untouched(call.batch[i].id, call.offset, LastChance(call, i))
    BY <1>3 DEF Overwritten
  <2>2. PICK k \in call.offset + 1 .. LastChance(call, i) : MessageAt(k).id = call.batch[i].id
    BY <2>1 DEF Untouched
  <2>3. call.offset \in -1 .. Newest /\ i \in DOMAIN call.at
        /\ (call.at[i] = -1 \/ call.at[i] \in call.offset + 1 .. Newest)
    BY DEF CallOK, IsSent
  <2>4. /\ LastChance(call, i) \in Int /\ LastChance(call, i) <= Newest
        /\ LastChance(call, i)' \in Int /\ LastChance(call, i) <= LastChance(call, i)'
    BY <1>1, <2>3 DEF LastChance
  <2>5. k \in 0 .. Newest /\ k \in call.offset + 1 .. LastChance(call, i)'
    BY <1>1, <2>2, <2>3, <2>4
  <2>6. MessageAt(k)' = MessageAt(k)
    BY <1>1, <2>5
  <2>7. ~ Untouched(call.batch[i].id, call.offset, LastChance(call, i))'
    BY <2>2, <2>5, <2>6 DEF Untouched
  <2>8. QED
    BY <2>7 DEF Doomed, Overwritten
<1>4. QED
  BY <1>2, <1>3 DEF Doomed

\* What a step taints remains tainted, if the request that it ends hands its own
\* objects over.
LEMMA TaintKept ==
    ASSUME RequestInv, NEW c \in Client, NEW after, req' = [req EXCEPT ![c] = after],
           NEW m, log' = log \/ log' = Append(log, m),
           disturbed \subseteq disturbed', crossed \subseteq crossed',
           Doomed(req[c]) => \A x \in IdsOf(req[c].batch) : Tainted(x)'
    PROVE  TaintStays
<1> SUFFICES ASSUME NEW x, Tainted(x) PROVE Tainted(x)'
  BY DEF TaintStays
<1>1. CASE x \in disturbed \cup crossed
  BY <1>1 DEF Tainted
<1>2. CASE \E call \in Range(req) : Doomed(call) /\ x \in IdsOf(call.batch)
  <2>1. PICK call \in Range(req) : Doomed(call) /\ x \in IdsOf(call.batch)
    BY <1>2
  <2>2. CASE call = req[c]
    BY <2>1, <2>2
  <2>3. CASE call \in Range(req')
    <3>1. Doomed(call)'
      BY <2>1, DoomedKept DEF RequestInv
    <3>2. QED
      BY <2>1, <2>3, <3>1 DEF Tainted, IdsOf
  <2>4. QED
    BY <2>2, <2>3, ReqIs DEF RequestInv
<1>3. QED
  BY <1>1, <1>2 DEF Tainted

\* Whether walls agreed is settled.
LEMMA AgreeKept ==
    ASSUME LogOK, LogOK', NEW m, log' = log \/ log' = Append(log, m), NEW o \in -1 .. Newest
    PROVE  \A w, v : Agree(o, w, v)' <=> Agree(o, w, v)
<1>1. /\ \A x : LastOf(x, o)' = LastOf(x, o)
      /\ Deps(o)' = Deps(o)
  BY LastKept
<1> QED
  BY <1>1 DEF Agree

\* What a request was made from remains so.
LEMMA AgreesKept ==
    ASSUME LogOK, LogOK', NEW m, log' = log \/ log' = Append(log, m),
           TaintStays, split \subseteq split', NEW call, CallOK(call), CallAgrees(call)
    PROVE  CallAgrees(call)'
<1>0. PICK o : o = call.offset
  OBVIOUS
<1>1. Newest \in Int /\ o \in -1 .. Newest
  BY <1>0, LogIs DEF CallOK
<1>2. /\ \A x : LastOf(x, o)' = LastOf(x, o)
      /\ Deps(o)' = Deps(o)
      /\ \A w, v : Agree(o, w, v)' <=> Agree(o, w, v)
  BY <1>1, LastKept, AgreeKept
<1>3. \A x : IsClean(x)' => IsClean(x)
  BY DEF TaintStays, IsClean
<1>4. StartsAgreed(call)'
  <2>1. StartsAgreed(call)
    BY DEF CallAgrees
  <2>2. \A w, v : Agree(call.offset, w, v)' <=> Agree(call.offset, w, v)
    BY <1>0, <1>2 DEF Agree
  <2>3. QED
    BY <1>3, <2>1, <2>2 DEF StartsAgreed, InTime
<1>5. \A changes : AllAgree(changes, o) => AllAgree(changes, o)'
  BY <1>2, <1>3 DEF AllAgree
<1>6. ChangesAgree(call)'
  <2>1. ChangesAgree(call)
    BY DEF CallAgrees
  <2>2. AllAgree(call.changes, call.offset) => AllAgree(call.changes, call.offset)'
    BY <1>0, <1>5 DEF AllAgree
  <2>3. QED
    BY <2>1, <2>2 DEF ChangesAgree
<1>7. FoundAll(call)'
  <2>1. FoundAll(call)
    BY DEF CallAgrees
  <2>2. Deps(call.offset)' = Deps(call.offset)
    BY <1>0, <1>2
  <2>3. QED
    BY <2>1, <2>2 DEF FoundAll
<1>8. BatchAgrees(call)'
  <2>1. BatchAgrees(call)
    BY DEF CallAgrees
  <2>2. Deps(call.offset)' = Deps(call.offset) /\ \A x : LastOf(x, call.offset)' = LastOf(x, call.offset)
    BY <1>0, <1>2
  <2>3. BatchJoins(call) => BatchJoins(call)'
    BY <1>3, <2>2 DEF BatchJoins
  <2>4. BatchKeeps(call) => BatchKeeps(call)'
    BY <1>3, <2>2 DEF BatchKeeps
  <2>5. QED
    BY <2>1, <2>3, <2>4 DEF BatchAgrees
<1>9. BeforeAgrees(call)'
  <2>1. BeforeAgrees(call)
    BY DEF CallAgrees
  <2> SUFFICES ASSUME call.pc = "answered", NEW m1 \in DOMAIN call.batch, NEW n \in DOMAIN call.batch,
                      NEW w, w = call.batch[m1].id, NEW v, v = call.batch[n].id,
                      NEW s, s = call.at[m1] - 1, NEW t, t = call.at[n] - 1,
                      IsClean(w)', IsClean(v)', NEW i \in 1 .. 2, NEW j \in 1 .. 2,
                      Refers(LastOf(w, s), i, EndOf(v, j))', Refers(LastOf(v, t), j, EndOf(w, i))',
                      OnlyTo(Deps(s), EndOf(w, i), EndOf(v, j))', OnlyTo(Deps(t), EndOf(v, j), EndOf(w, i))'
               PROVE  SameInfo(LastOf(w, s), i, LastOf(v, t), j)'
    BY DEF BeforeAgrees, Refers, OnlyTo, SameInfo
  <2>2. s \in -1 .. Newest /\ t \in -1 .. Newest
    <3>1. ASSUME NEW l \in DOMAIN call.batch PROVE call.at[l] \in 0 .. Newest
      <4>1. call.at[l] # -1 /\ (call.at[l] = -1 \/ call.at[l] \in o + 1 .. Newest)
        BY <1>0 DEF CallOK, IsSent
      <4>2. QED
        BY <1>1, <4>1
    <3>2. QED
      BY <1>1, <3>1
  <2>3. LastOf(w, s)' = LastOf(w, s) /\ LastOf(v, t)' = LastOf(v, t)
        /\ Deps(s)' = Deps(s) /\ Deps(t)' = Deps(t)
    BY <2>2, LastKept
  <2>4. /\ Refers(LastOf(w, s), i, EndOf(v, j)) /\ Refers(LastOf(v, t), j, EndOf(w, i))
        /\ OnlyTo(Deps(s), EndOf(w, i), EndOf(v, j)) /\ OnlyTo(Deps(t), EndOf(v, j), EndOf(w, i))
    BY <2>3 DEF Refers, OnlyTo
  <2>5. IsClean(w) /\ IsClean(v)
    BY <1>3
  <2>6. SameInfo(LastOf(w, s), i, LastOf(v, t), j)
    BY <2>1, <2>4, <2>5 DEF BeforeAgrees
  <2>7. QED
    BY <2>3, <2>6 DEF SameInfo
<1>10. PartsSplit(call)'
  BY DEF CallAgrees, PartsSplit
<1>11. QED
  BY <1>4, <1>6, <1>7, <1>8, <1>9, <1>10 DEF CallAgrees

\* The parts of batches come after what requests were made from.
Behind(call, other) ==
    InTime(call) /\ other.pc = "sending" /\ other.unsent # {} =>
        \A n \in DOMAIN other.at : other.at[n] # -1 => other.at[n] > call.offset

\* A request comes after the parts of all batches.
AllBehind(call) == \A other \in Range(req) : Behind(call, other)
\* The parts of a batch are those that it had, or newer than the log.
PartsFrom(before, after) ==
    after.pc = "sending" /\ after.unsent # {} =>
        \A n \in DOMAIN after.at : after.at[n] # -1 =>
            \/ after.at[n] \in Int /\ after.at[n] > Newest
            \/ /\ before.pc = "sending" /\ before.unsent # {}
               /\ n \in DOMAIN before.at /\ before.at[n] = after.at[n]

\* A step of one request keeps the parts behind, if it adds newer ones only.
LEMMA BehindKept ==
    ASSUME RequestInv, PartsBehind, NEW c \in Client, NEW after, req' = [req EXCEPT ![c] = after],
           NEW before, before = req[c],
           after.offset \in -1 .. Newest, AllBehind(after), PartsFrom(before, after)
    PROVE  PartsBehind'
<1>1. DOMAIN req = Client /\ Newest \in Int
      /\ \A call \in Range(req) : call.offset \in -1 .. Newest
  BY LogIs DEF RequestInv, CallOK
<1>2. before \in Range(req)
  BY <1>1 DEF Range
<1>3. ASSUME NEW call, call.offset \in -1 .. Newest, Behind(call, before)
      PROVE  Behind(call, after)
  BY <1>1, <1>3 DEF Behind, PartsFrom
<1>4. \A call, other \in Range(req) : Behind(call, other)
  BY DEF PartsBehind, Behind
<1>5. \A call \in Range(req) : Behind(call, after)
  BY <1>1, <1>2, <1>3, <1>4
<1>6. Behind(after, after)
  BY <1>2, <1>3 DEF AllBehind
<1>7. \A call, other \in Range(req') : Behind(call, other)
  <2>1. \A call \in Range(req') : call = after \/ call \in Range(req)
    BY <1>1, ReqIs
  <2>2. QED
    BY <1>4, <1>5, <1>6, <2>1 DEF AllBehind
<1>8. QED
  BY <1>7 DEF PartsBehind, Behind, InTime

\* A step of a request that writes nothing.
LEMMA QuietStep ==
    ASSUME RequestInv, JoinInv, NEW c \in Client, NEW after, req' = [req EXCEPT ![c] = after],
           log' = log, LogOK', split' = split, TaintStays,
           PartsBehind', CallAgrees(after)', StaysLast(after)',
           NEW before, before = req[c],
           \A o \in -1 .. Newest : \A w, v :
               IsParted(before, o, w, v) =>
                   IsParted(after, o, w, v) \/ ~ IsClean(w)' \/ ~ IsClean(v)'
    PROVE  JoinInv'
<1>1. DOMAIN req = Client /\ LogOK /\ \A call \in Range(req) : CallOK(call)
  BY DEF RequestInv
<1>2. /\ after \in Range(req')
      /\ \A call \in Range(req') : call = after \/ call \in Range(req)
      /\ \A call \in Range(req) : call = before \/ call \in Range(req')
  BY <1>1, ReqIs
<1>3. Newest \in Int /\ Newest' = Newest /\ \A k : MessageAt(k)' = MessageAt(k)
  BY <1>1, LogIs DEF Newest, MessageAt
<1>4. \A x : IsClean(x)' => IsClean(x)
  BY DEF TaintStays, IsClean
<1>5. LogAgrees'
  <2>1. \A k \in split' : k \in Int /\ k < Newest'
    BY <1>3 DEF JoinInv, LogAgrees
  <2>2. ASSUME NEW o \in -1 .. Newest, NEW w, NEW v, IsClean(w)', IsClean(v)'
        PROVE  o \in split' \/ PartedAt(o, w, v)' \/ Agree(o, w, v)'
    <3>1. o \in split \/ PartedAt(o, w, v) \/ Agree(o, w, v)
      BY <1>4, <2>2 DEF JoinInv, LogAgrees
    <3>2. CASE o \in split
      BY <3>2
    <3>3. CASE Agree(o, w, v)
      BY <1>1, <3>3, AgreeKept
    <3>4. CASE PartedAt(o, w, v)
      <4>1. PICK call \in Range(req) : IsParted(call, o, w, v)
        BY <3>4 DEF PartedAt
      <4>2. \E other \in Range(req') : IsParted(other, o, w, v)
        BY <1>2, <2>2, <4>1
      <4>3. QED
        BY <4>2 DEF PartedAt, IsParted, IdsOf
    <3>5. QED
      BY <3>1, <3>2, <3>3, <3>4
  <2>3. PICK p : p = Newest
    OBVIOUS
  <2>4. \A o \in -1 .. p : \A w, v :
            IsClean(w)' /\ IsClean(v)' => o \in split' \/ PartedAt(o, w, v)' \/ Agree(o, w, v)'
    BY <2>2, <2>3
  <2>5. Newest' = p
    BY <1>3, <2>3
  <2>6. QED
    BY <2>1, <2>4, <2>5 DEF LogAgrees
<1>6. ASSUME NEW call \in Range(req) PROVE CallAgrees(call)' /\ StaysLast(call)'
  <2>1. CallOK(call) /\ CallAgrees(call) /\ StaysLast(call)
    BY <1>1 DEF JoinInv
  <2>2. CallAgrees(call)'
    BY <1>1, <2>1, AgreesKept
  <2>3. \A x, k : Untouched(x, k, Newest) => Untouched(x, k, Newest)'
    BY <1>3 DEF Untouched
  <2>4. StaysLast(call)'
    <3>1. ASSUME call.pc = "sending", call.unsent # {}, NEW n \in DOMAIN call.at, call.at[n] # -1
          PROVE  Untouched(call.batch[n].id, call.at[n], Newest)' \/ Tainted(call.batch[n].id)'
      <4>1. Untouched(call.batch[n].id, call.at[n], Newest) \/ Tainted(call.batch[n].id)
        BY <2>1, <3>1 DEF StaysLast
      <4>2. PICK x : x = call.batch[n].id
        OBVIOUS
      <4>3. Tainted(x) => Tainted(x)'
        BY DEF TaintStays
      <4>4. QED
        BY <2>3, <4>1, <4>2, <4>3
    <3>2. QED
      BY <3>1 DEF StaysLast
  <2>5. QED
    BY <2>2, <2>4
<1>7. QED
  BY <1>2, <1>5, <1>6 DEF JoinInv

-----------------------------------------------------------------------------
(* Joined ends: finding, answering, failing *)

\* With the same log a request is what it was.
LEMMA CallSame ==
    ASSUME log' = log, NEW call, CallOK(call)'
    PROVE  CallOK(call)
  BY DEF CallOK, IsSent, Newest, MessageAt

\* A step of a request that writes nothing, by what its request is after it.
LEMMA QuietCall ==
    ASSUME RequestInv, RequestInv', JoinInv,
           NEW c \in Client, NEW after, req' = [req EXCEPT ![c] = after],
           log' = log, split' = split, disturbed \subseteq disturbed', crossed \subseteq crossed',
           NEW before, before = req[c],
           Doomed(before) => \A x \in IdsOf(before.batch) : Tainted(x)',
           AllBehind(after), PartsFrom(before, after), CallAgrees(after), StaysLast(after),
           \A o \in -1 .. Newest : \A w, v :
               IsParted(before, o, w, v) =>
                   IsParted(after, o, w, v) \/ ~ IsClean(w)' \/ ~ IsClean(v)'
    PROVE  JoinInv'
<1>1. DOMAIN req = Client /\ LogOK /\ LogOK' /\ Newest \in Int
  BY LogIs DEF RequestInv
<1>2. CallOK(after)' /\ CallOK(after)
  <2>1. after \in Range(req')
    BY <1>1, ReqIs
  <2>2. CallOK(after)'
    BY <2>1 DEF RequestInv
  <2>3. QED
    BY <2>2, CallSame
<1>3. TaintStays
  <2>1. Doomed(req[c]) => \A x \in IdsOf(req[c].batch) : Tainted(x)'
    OBVIOUS
  <2>2. QED
    BY <2>1, TaintKept
<1>4. PartsBehind'
  <2>1. after.offset \in -1 .. Newest
    BY <1>2 DEF CallOK
  <2>4. PartsBehind
    BY DEF JoinInv
  <2>5. QED
    BY <2>1, <2>4, BehindKept
<1>5. CallAgrees(after)'
  BY <1>1, <1>2, <1>3, AgreesKept
<1>6. StaysLast(after)'
  <2>1. Newest' = Newest /\ \A k : MessageAt(k)' = MessageAt(k)
    BY DEF Newest, MessageAt
  <2>2. \A x, k : Untouched(x, k, Newest) => Untouched(x, k, Newest)'
    BY <2>1 DEF Untouched
  <2>3. \A x : Tainted(x) => Tainted(x)'
    BY <1>3 DEF TaintStays
  <2>4. ASSUME after.pc = "sending", after.unsent # {}, NEW n \in DOMAIN after.at, after.at[n] # -1
        PROVE  Untouched(after.batch[n].id, after.at[n], Newest)' \/ Tainted(after.batch[n].id)'
    <3>1. Untouched(after.batch[n].id, after.at[n], Newest) \/ Tainted(after.batch[n].id)
      BY <2>4 DEF StaysLast
    <3>2. PICK x : x = after.batch[n].id
      OBVIOUS
    <3>3. QED
      BY <2>2, <2>3, <3>1, <3>2
  <2>5. QED
    BY <2>4 DEF StaysLast
<1>7. QED
  BY <1>1, <1>3, <1>4, <1>5, <1>6, QuietStep

\* What is known of a request.
LEMMA Mine ==
    ASSUME RequestInv, TypeInv, JoinInv, NEW c \in Client, NEW call, call = req[c]
    PROVE  /\ LogOK /\ DOMAIN req = Client /\ call \in Range(req) /\ CallOK(call) /\ CallTyped(call)
           /\ CallAgrees(call) /\ StaysLast(call)
  BY DEF RequestInv, Range, TypeInv, JoinInv

\* The pieces of the changes that refer to something, and all that refers to
\* them, are found.
LEMMA FindJoins ==
    ASSUME RequestInv, RequestInv', TypeInv, JoinInv, NEW c \in Client, GetAllDependencies(c)
    PROVE  JoinInv'
<1>1. PICK call, starts : call = req[c] /\ starts = ExtractInfo(call.changes)
  OBVIOUS
<1>2. PICK n \in known .. Len(log) :
          /\ req[c].pc = "changed"
          /\ \E refs \in GetAllDeps(Dependencies(req[c].offset, n), ExtractInfo(req[c].changes)) :
                 req' = [req EXCEPT ![c].pc = "found", ![c].refs = refs,
                                    ![c].stale = @ \/ (ExtractInfo(req[c].changes) # << >>
                                                       /\ n <= req[c].offset)]
          /\ log' = log /\ disturbed' = disturbed /\ crossed' = crossed /\ split' = split
  BY Zenon DEF GetAllDependencies
<1>3. PICK late : late = (starts # << >> /\ n <= call.offset)
  OBVIOUS
<1>4. PICK refs \in GetAllDeps(Dependencies(call.offset, n), starts) :
          req' = [req EXCEPT ![c].pc = "found", ![c].refs = refs, ![c].stale = @ \/ late]
  BY <1>1, <1>2, <1>3, Zenon
<1>5. PICK after : after = [call EXCEPT !.pc = "found", !.refs = refs, !.stale = @ \/ late]
  OBVIOUS
<1>6. req' = [req EXCEPT ![c] = after]
  BY <1>1, <1>4, <1>5
<1>7. LogOK /\ DOMAIN req = Client /\ call \in Range(req) /\ CallOK(call) /\ CallTyped(call)
      /\ CallAgrees(call)
  BY <1>1, Mine
<1>8. /\ after.pc = "found" /\ after.refs = refs /\ after.stale = (call.stale \/ late)
      /\ after.offset = call.offset /\ after.changes = call.changes
      /\ after.batch = call.batch /\ after.at = call.at /\ after.answer = call.answer
  BY <1>5, <1>7 DEF CallOK, CallFields
<1>9. InTime(after) => InTime(call)
  BY <1>1, <1>2, <1>8 DEF InTime
<1>10. ~ Doomed(call)
  BY <1>1, <1>2 DEF Doomed
<1>11. AllBehind(after)
  BY <1>7, <1>8, <1>9 DEF AllBehind, Behind, JoinInv, PartsBehind
<1>12. PartsFrom(call, after) /\ StaysLast(after) /\ BatchAgrees(after) /\ BeforeAgrees(after)
       /\ PartsSplit(after)
  BY <1>8 DEF PartsFrom, StaysLast, BatchAgrees, BeforeAgrees, PartsSplit
<1>13. StartsAgreed(after) /\ ChangesAgree(after)
  BY <1>1, <1>2, <1>7, <1>8, <1>9 DEF CallAgrees, StartsAgreed, ChangesAgree
<1>14. FoundAll(after)
  <2> SUFFICES ASSUME ~ (call.stale \/ late)
               PROVE  /\ refs \in Seq(Deps(call.offset))
                      /\ \A ref \in Deps(call.offset) :
                            ref.other \in Range(starts) /\ ref.owner # ref.other =>
                                ref \in Range(refs)
    BY <1>1, <1>8 DEF FoundAll
  <2>1. PICK o \in -1 .. Newest : o = call.offset
    BY <1>7 DEF CallOK
  <2>2. n \in 0 .. Len(log) /\ n \in Nat
    BY <1>2, <1>7, LogIs DEF TypeInv
  <2>3. Dependencies(o, n) \in SUBSET Links /\ IsFiniteSet(Dependencies(o, n))
    BY <2>2, DependenciesTyped
  <2>4. starts \in Seq(Piece)
    <3>1. Len(call.changes) \in Nat /\ DOMAIN call.changes = 1 .. Len(call.changes)
      BY <1>7, SequenceIs DEF CallOK, AreChanges
    <3>2. QED
      BY <1>1, <1>7, <3>1, InfoIs DEF CallTyped
  <2>5. PICK deps : deps = Dependencies(o, n)
    OBVIOUS
  <2>6. /\ refs \in Seq(deps)
        /\ \A k \in 1 .. Len(starts) : DirectlyFound(deps, starts[k], refs)
        /\ Len(starts) = 0 => refs = << >>
    <3>1. deps \in SUBSET Links /\ IsFiniteSet(deps) /\ refs \in GetAllDeps(deps, starts)
      BY <1>4, <2>1, <2>3, <2>5
    <3>2. QED
      BY <2>4, <3>1, GetAllDepsIs DEF Links
  <2>7. CASE starts = << >>
    <3>1. refs = << >> /\ Range(starts) = {}
      BY <2>6, <2>7 DEF Range
    <3>2. QED
      BY <3>1
  <2>8. CASE starts # << >>
    <3>1. n > o
      <4>1. ~ (n <= o)
        BY <1>3, <2>1, <2>8
      <4>2. QED
        BY <1>7, <2>1, <2>2, <4>1, LogIs
    <3>2. deps = Deps(o)
      BY <1>7, <2>2, <2>5, <3>1, AnswersAlike
    <3>3. \A ref \in deps : ref.other \in Range(starts) /\ ref.owner # ref.other => ref \in Range(refs)
      BY <2>4, <2>6, SMTT(30) DEF DirectlyFound, Range
    <3>4. QED
      BY <2>1, <2>6, <3>2, <3>3
  <2>9. QED
    BY <2>7, <2>8
<1>15. CallAgrees(after)
  BY <1>12, <1>13, <1>14 DEF CallAgrees
<1>16. \A o, w, v : ~ IsParted(call, o, w, v)
  BY <1>1, <1>2 DEF IsParted
<1>17. QED
  BY <1>1, <1>2, <1>6, <1>10, <1>11, <1>12, <1>15, <1>16, QuietCall

\* Where a change is in the log.
LEMMA SentAt ==
    ASSUME LogOK, NEW call, CallOK(call), NEW n \in DOMAIN call.at, call.at[n] # -1
    PROVE  /\ call.at[n] \in 0 .. Newest /\ call.at[n] - 1 \in -1 .. Newest
           /\ call.offset <= call.at[n] - 1 /\ call.offset \in -1 .. Newest
           /\ MessageAt(call.at[n]) = call.batch[n] /\ n \in DOMAIN call.batch
<1>1. PICK k, o : k = call.at[n] /\ o = call.offset
  OBVIOUS
<1>2. k \in o + 1 .. Newest /\ o \in -1 .. Newest /\ MessageAt(k) = call.batch[n] /\ Newest \in Int
      /\ n \in DOMAIN call.batch
  BY <1>1, LogIs DEF CallOK, IsSent
<1>3. k \in 0 .. Newest /\ k - 1 \in -1 .. Newest /\ o <= k - 1
  BY <1>2
<1>4. QED
  BY <1>1, <1>2, <1>3

\* What was read at an offset of a wall that is not written is so later.
LEMMA EndsKept ==
    ASSUME LogOK, AreTyped(log), NEW o \in -1 .. Newest, NEW p \in -1 .. Newest, o <= p,
           NEW w \in Walls, Untouched(w, o, p)
    PROVE  /\ LastOf(w, p) = LastOf(w, o)
           /\ \A i \in 1 .. 2 : \A q : OnlyTo(Deps(p), EndOf(w, i), q) <=> OnlyTo(Deps(o), EndOf(w, i), q)
  BY UntouchedKept, OnlyKept

\* A batch that is sent is disturbed if it is doomed.
LEMMA DoomedIs ==
    ASSUME NEW call, CallOK(call), call.pc = "sending", call.unsent = {}
    PROVE  Doomed(call) <=> IsDisturbed(call)
<1>1. DOMAIN call.batch = DOMAIN call.at
  BY DEF CallOK
<1>2. \A i \in DOMAIN call.batch : call.at[i] # -1 =>
          (Untouched(call.batch[i].id, call.offset, LastChance(call, i)) <=>
           ~ \E k \in call.offset + 1 .. call.at[i] - 1 : MessageAt(k).id = call.batch[i].id)
  BY DEF Untouched, LastChance
<1>3. Missed(call) <=> \E i \in DOMAIN call.batch : call.at[i] = -1
  BY DEF Missed
<1>4. QED
  BY <1>2, <1>3 DEF Doomed, Overwritten, IsDisturbed

\* A message that is not delivered dooms the batch: its walls are tainted.
LEMMA UndeliveredJoins ==
    ASSUME RequestInv, RequestInv', TypeInv, JoinInv, NEW c \in Client, Undelivered(c)
    PROVE  JoinInv'
<1>1. PICK call : call = req[c]
  OBVIOUS
<1>2. /\ LogOK /\ DOMAIN req = Client /\ call \in Range(req) /\ CallOK(call) /\ CallTyped(call)
      /\ CallAgrees(call) /\ StaysLast(call)
  BY <1>1, Mine
<1>3. PICK i : i = Min(call.unsent)
  OBVIOUS
<1>4. PICK after : after = [call EXCEPT !.unsent = @ \ {i}]
  OBVIOUS
<1>5. /\ log' = log /\ split' = split /\ disturbed' = disturbed /\ crossed' = crossed
      /\ req' = [req EXCEPT ![c] = after] /\ call.pc = "sending" /\ call.unsent # {}
  BY <1>1, <1>3, <1>4 DEF Undelivered
<1>6. /\ after.pc = call.pc
      /\ after.offset = call.offset /\ after.changes = call.changes
      /\ after.batch = call.batch /\ after.unsent = call.unsent \ {i} /\ after.at = call.at
      /\ after.answer = call.answer /\ after.stale = call.stale
  BY <1>2, <1>4 DEF CallOK, CallFields
<1>7. i \in call.unsent /\ i \in DOMAIN call.batch /\ call.at[i] = -1
  <2>1. i \in call.unsent
    BY <1>1, <1>3, <1>5, UnsentAre
  <2>2. QED
    BY <1>2, <2>1 DEF CallOK
<1>8. Missed(after) /\ Doomed(after)'
  BY <1>5, <1>6, <1>7 DEF Missed, Doomed
<1>9. \A x \in IdsOf(call.batch) : Tainted(x)'
  <2>1. after \in Range(req')
    BY <1>2, <1>5, ReqIs
  <2>2. IdsOf(after.batch) = IdsOf(call.batch)
    BY <1>6
  <2>3. QED
    BY <1>8, <2>1, <2>2 DEF Tainted, IdsOf
<1>10. AllBehind(after)
  BY <1>2, <1>5, <1>6 DEF JoinInv, PartsBehind, AllBehind, Behind, InTime
<1>11. PartsFrom(call, after)
  BY <1>5, <1>6 DEF PartsFrom
<1>12. CallAgrees(after)
  <2>1. StartsAgreed(after)
    BY <1>2, <1>6 DEF CallAgrees, StartsAgreed, InTime
  <2>2. ChangesAgree(after) /\ FoundAll(after) /\ BeforeAgrees(after) /\ PartsSplit(after)
    BY <1>2, <1>5, <1>6 DEF CallAgrees, ChangesAgree, FoundAll, BeforeAgrees, PartsSplit
  <2>3. BatchAgrees(after)
    BY <1>2, <1>6 DEF CallAgrees, BatchAgrees, BatchJoins, BatchKeeps
  <2>4. QED
    BY <2>1, <2>2, <2>3 DEF CallAgrees
<1>13. StaysLast(after)
  BY <1>2, <1>5, <1>6 DEF StaysLast
<1>14. \A o, w, v : IsParted(call, o, w, v) => ~ IsClean(w)'
  BY <1>9 DEF IsParted, IsClean
<1>15. QED
  BY <1>1, <1>5, <1>9, <1>10, <1>11, <1>12, <1>13, <1>14, QuietCall

\* Before an undisturbed request wrote its objects, they were as it found them.
LEMMA BeforeAgreed ==
    ASSUME RequestInv, TypeInv, NEW call \in Range(req), call.pc = "sending", ~ Doomed(call),
           StartsAgreed(call), \A n \in DOMAIN call.at : call.at[n] # -1,
           NEW m \in DOMAIN call.batch, NEW n \in DOMAIN call.batch,
           NEW w, w = call.batch[m].id, NEW v, v = call.batch[n].id,
           NEW s, s = call.at[m] - 1, NEW t, t = call.at[n] - 1,
           IsClean(w), IsClean(v), NEW i \in 1 .. 2, NEW j \in 1 .. 2,
           Refers(LastOf(w, s), i, EndOf(v, j)), Refers(LastOf(v, t), j, EndOf(w, i)),
           OnlyTo(Deps(s), EndOf(w, i), EndOf(v, j)), OnlyTo(Deps(t), EndOf(v, j), EndOf(w, i))
    PROVE  SameInfo(LastOf(w, s), i, LastOf(v, t), j)
<1>1. LogOK /\ AreTyped(log) /\ CallOK(call) /\ w \in Walls /\ v \in Walls
  BY DEF RequestInv, TypeInv, IsClean
<1>2. m \in DOMAIN call.at /\ n \in DOMAIN call.at
  BY <1>1 DEF CallOK
<1>3. PICK o : o = call.offset
  OBVIOUS
<1>4. /\ o \in -1 .. Newest /\ s \in -1 .. Newest /\ t \in -1 .. Newest /\ o <= s /\ o <= t
  BY <1>1, <1>2, <1>3, SentAt
<1>5. Untouched(w, o, s) /\ Untouched(v, o, t)
  BY <1>2, <1>3 DEF Doomed, Overwritten, LastChance
<1>6. /\ LastOf(w, s) = LastOf(w, o) /\ LastOf(v, t) = LastOf(v, o)
      /\ OnlyTo(Deps(o), EndOf(w, i), EndOf(v, j)) /\ OnlyTo(Deps(o), EndOf(v, j), EndOf(w, i))
  BY <1>1, <1>4, <1>5, EndsKept
<1>7. Agree(o, w, v)
  BY <1>3 DEF StartsAgreed, InTime, Doomed
<1>8. AreJoined(LastOf(w, o), i, LastOf(v, o), j, w, v, Deps(o))
  BY <1>6 DEF AreJoined
<1>9. QED
  BY <1>6, <1>7, <1>8 DEF Agree, EndsAgree

\* Objects of a disturbed request are handed over when it ends.
LEMMA HandedOver ==
    ASSUME RequestInv, NEW c \in Client, NEW call, call = req[c], NEW after, Finish(c, after),
           Doomed(call)
    PROVE  \A x \in IdsOf(call.batch) : Tainted(x)'
<1>1. CallOK(call) /\ call.pc = "sending" /\ call.unsent = {}
  BY DEF RequestInv, Range, Finish
<1>2. IsDisturbed(call)
  BY <1>1, DoomedIs
<1>3. disturbed' = disturbed \cup IdsOf(call.batch)
  BY <1>2 DEF Finish
<1>4. QED
  BY <1>3 DEF Tainted

\* An answered batch is all in the log, and what was split of it is recorded.
LEMMA AnswerJoins ==
    ASSUME RequestInv, RequestInv', TypeInv, JoinInv, NEW c \in Client, Answer(c)
    PROVE  JoinInv'
<1>1. PICK call : call = req[c]
  OBVIOUS
<1>2. /\ LogOK /\ DOMAIN req = Client /\ call \in Range(req) /\ CallOK(call) /\ CallTyped(call)
      /\ CallAgrees(call) /\ StaysLast(call)
  BY <1>1, Mine
<1>3. PICK l : l = Len(call.at)
  OBVIOUS
<1>4. PICK answer : answer = call.at[l]
  OBVIOUS
<1>5. PICK after : after = Answered(call, answer)
  OBVIOUS
<1>6. /\ \A n \in DOMAIN call.at : call.at[n] # -1
      /\ call.pc = "sending" /\ call.unsent = {} /\ Finish(c, after)
  BY <1>1, <1>3, <1>4, <1>5 DEF Answer, Finish, Last
<1>7. /\ after.pc = "answered"
      /\ after.batch = call.batch /\ after.at = call.at /\ after.answer = answer
  BY <1>5 DEF Answered, Idle
<1>8. /\ log' = log /\ split' = split /\ disturbed \subseteq disturbed' /\ crossed' = crossed
      /\ req' = [req EXCEPT ![c] = after]
  BY <1>6 DEF Finish
<1>9. Doomed(call) => \A x \in IdsOf(call.batch) : Tainted(x)'
  BY <1>1, <1>6, HandedOver
<1>10. AllBehind(after) /\ PartsFrom(call, after) /\ StaysLast(after)
  BY <1>7 DEF AllBehind, Behind, InTime, PartsFrom, StaysLast
<1>11. l \in DOMAIN call.at
  <2>1. /\ Len(call.at) \in Nat /\ DOMAIN call.at = 1 .. Len(call.at)
        /\ Len(call.batch) \in Nat /\ DOMAIN call.batch = 1 .. Len(call.batch)
        /\ (call.batch = << >> <=> Len(call.batch) = 0)
    BY <1>2, SequenceIs DEF CallOK, AreChanges
  <2>2. call.batch # << >> /\ DOMAIN call.at = DOMAIN call.batch
    BY <1>2, <1>6 DEF CallOK
  <2>3. QED
    BY <1>3, <2>1, <2>2
<1>12. PartsSplit(after)
  <2>1. ASSUME NEW n \in DOMAIN call.at, call.at[n] > answer PROVE answer \in split
    <3>1. answer \in Int /\ call.at[n] \in Int
      BY <1>2, <1>4, <1>6, <1>11, SentAt
    <3>2. answer \in call.at[l] .. call.at[n] - 1
      BY <1>4, <2>1, <3>1
    <3>3. QED
      BY <1>2, <1>6, <1>11, <3>2 DEF CallAgrees, PartsSplit
  <2>2. QED
    BY <1>7, <2>1 DEF PartsSplit
<1>13. BeforeAgrees(after)
  <2>1. ASSUME NEW m \in DOMAIN call.batch, NEW n \in DOMAIN call.batch,
               NEW w, w = call.batch[m].id, NEW v, v = call.batch[n].id,
               NEW s, s = call.at[m] - 1, NEW t, t = call.at[n] - 1,
               IsClean(w), IsClean(v), NEW i \in 1 .. 2, NEW j \in 1 .. 2,
               Refers(LastOf(w, s), i, EndOf(v, j)), Refers(LastOf(v, t), j, EndOf(w, i)),
               OnlyTo(Deps(s), EndOf(w, i), EndOf(v, j)), OnlyTo(Deps(t), EndOf(v, j), EndOf(w, i))
        PROVE  SameInfo(LastOf(w, s), i, LastOf(v, t), j)
    <3>1. w \in IdsOf(call.batch)
      BY <2>1 DEF IdsOf
    <3>2. ~ Doomed(call)
      BY <1>2, <2>1, <3>1 DEF IsClean, Tainted
    <3>3. StartsAgreed(call)
      BY <1>2 DEF CallAgrees
    <3>4. QED
      BY <1>2, <1>6, <2>1, <3>2, <3>3, BeforeAgreed
  <2>2. QED
    BY <1>7, <2>1 DEF BeforeAgrees
<1>14. CallAgrees(after)
  <2>1. StartsAgreed(after) /\ ChangesAgree(after) /\ FoundAll(after) /\ BatchAgrees(after)
    BY <1>7 DEF StartsAgreed, InTime, ChangesAgree, FoundAll, BatchAgrees
  <2>2. QED
    BY <1>12, <1>13, <2>1 DEF CallAgrees
<1>15. \A o, w, v : ~ IsParted(call, o, w, v)
  BY <1>6 DEF IsParted
<1>16. QED
  BY <1>1, <1>8, <1>9, <1>10, <1>14, <1>15, QuietCall

\* A failed batch is disturbed, and ends.
LEMMA PanicJoins ==
    ASSUME RequestInv, RequestInv', TypeInv, JoinInv, NEW c \in Client, Panic(c)
    PROVE  JoinInv'
<1>1. PICK call : call = req[c]
  OBVIOUS
<1>2. PICK after : after = [Idle EXCEPT !.answer = call.answer]
  OBVIOUS
<1>3. Finish(c, after) /\ call.unsent = {}
  BY <1>1, <1>2 DEF Panic, Finish
<1>4. after.pc = "idle"
  BY <1>2 DEF Idle
<1>5. /\ log' = log /\ split' = split /\ disturbed \subseteq disturbed' /\ crossed' = crossed
      /\ req' = [req EXCEPT ![c] = after]
  BY <1>3 DEF Finish
<1>6. Doomed(call) => \A x \in IdsOf(call.batch) : Tainted(x)'
  BY <1>1, <1>3, HandedOver
<1>7. AllBehind(after) /\ PartsFrom(call, after) /\ StaysLast(after)
  BY <1>4 DEF AllBehind, Behind, InTime, PartsFrom, StaysLast
<1>8. CallAgrees(after)
  BY <1>4 DEF CallAgrees, StartsAgreed, InTime, ChangesAgree, FoundAll, BatchAgrees, BeforeAgrees, PartsSplit
<1>9. \A o, w, v : ~ IsParted(call, o, w, v)
  BY <1>3 DEF IsParted
<1>10. QED
  BY <1>1, <1>5, <1>6, <1>7, <1>8, <1>9, QuietCall

-----------------------------------------------------------------------------
(* Joined ends: requests *)

\* A request is made from a state that agrees, or is stale.
LEMMA BeginJoins ==
    ASSUME RequestInv, RequestInv', TypeInv, JoinInv, NEW c \in Client, Ready(c),
           NEW o \in -1 .. Newest, NEW stale, NEW changes, Begin(c, o, stale, changes),
           ~ stale /\ ~ InSplit(o) => AllAgree(changes, o)
    PROVE  JoinInv'
<1>1. PICK call : call = req[c]
  OBVIOUS
<1>2. /\ LogOK /\ DOMAIN req = Client /\ call \in Range(req) /\ CallOK(call) /\ CallTyped(call)
      /\ CallAgrees(call) /\ StaysLast(call)
  BY <1>1, Mine
<1>3. PICK late : late = InSplit(o)
  OBVIOUS
<1>4. PICK after : after = [Idle EXCEPT !.pc = "changed", !.offset = o, !.changes = changes,
                                        !.answer = req[c].answer, !.stale = stale \/ late]
  OBVIOUS
<1>5. /\ log' = log /\ split' = split /\ disturbed' = disturbed /\ crossed' = crossed
      /\ req' = [req EXCEPT ![c] = after]
  BY <1>3, <1>4 DEF Begin
<1>6. /\ after.pc = "changed" /\ after.offset = o /\ after.changes = changes
      /\ after.stale = (stale \/ late)
  BY <1>4 DEF Idle
<1>7. call.pc # "sending"
  BY <1>1 DEF Ready
<1>8. ~ Doomed(call) /\ \A p, w, v : ~ IsParted(call, p, w, v)
  BY <1>7 DEF Doomed, IsParted
<1>9. PartsFrom(call, after) /\ StaysLast(after)
  BY <1>6 DEF PartsFrom, StaysLast
<1>10. InTime(after) => ~ InSplit(o) /\ ~ stale
  BY <1>3, <1>6 DEF InTime
<1>11. ASSUME NEW other \in Range(req), ~ InSplit(o), other.pc = "sending", other.unsent # {},
              NEW n \in DOMAIN other.at, other.at[n] # -1
       PROVE  other.at[n] > o
  <2>1. PICK d \in Client : other = req[d]
    BY <1>2 DEF Range
  <2>2. CallOK(other)
    BY DEF RequestInv
  <2>3. other.at[n] \in Int /\ o \in Int
    BY <1>2, <1>11, <2>2, SentAt, LogIs
  <2>4. ~ (other.at[n] <= o)
    <3>1. other.at[n] \in Range(req[d].at)
      BY <2>1 DEF Range
    <3>2. QED
      BY <1>11, <2>1, <3>1 DEF InSplit
  <2>5. QED
    BY <2>3, <2>4
<1>12. AllBehind(after)
  BY <1>6, <1>10, <1>11 DEF AllBehind, Behind
<1>13. StartsAgreed(after)
  <2>1. ASSUME ~ InSplit(o), NEW w, NEW v, IsClean(w), IsClean(v) PROVE Agree(o, w, v)
    <3>1. o \in split \/ PartedAt(o, w, v) \/ Agree(o, w, v)
      BY <2>1 DEF JoinInv, LogAgrees
    <3>2. o \notin split
      BY <2>1 DEF InSplit
    <3>3. ~ PartedAt(o, w, v)
      <4> SUFFICES ASSUME NEW other \in Range(req), other.pc = "sending", other.unsent # {},
                          NEW n \in DOMAIN other.at, other.at[n] # -1, other.at[n] <= o
                   PROVE  FALSE
        BY DEF PartedAt, IsParted
      <4>1. other.at[n] > o
        BY <1>11, <2>1
      <4>2. CallOK(other)
        BY DEF RequestInv
      <4>3. other.at[n] \in Int /\ o \in Int
        BY <1>2, <4>2, SentAt, LogIs
      <4>4. QED
        BY <4>1, <4>3
    <3>4. QED
      BY <3>1, <3>2, <3>3
  <2>2. QED
    BY <1>6, <1>10, <2>1 DEF StartsAgreed
<1>14. CallAgrees(after)
  <2>1. FoundAll(after) /\ BatchAgrees(after) /\ BeforeAgrees(after) /\ PartsSplit(after)
    BY <1>6 DEF FoundAll, BatchAgrees, BeforeAgrees, PartsSplit
  <2>2. ChangesAgree(after)
    BY <1>6, <1>3 DEF ChangesAgree
  <2>3. QED
    BY <1>13, <2>1, <2>2 DEF CallAgrees
<1>15. QED
  BY <1>1, <1>5, <1>8, <1>9, <1>12, <1>14, QuietCall

\* The references of a wall are held.
LEMMA RefersHeld ==
    ASSUME LogOK, AreTyped(log), NEW o \in -1 .. Newest, NEW w \in Walls, NEW i \in 1 .. 2,
           NEW q, q # None, Refers(LastOf(w, o), i, q)
    PROVE  Reference(EndOf(w, i), q) \in Deps(o)
<1>1. SlotsHeld(o)
  BY SlotsAreHeld
<1>2. PICK m : m = LastOf(w, o)
  OBVIOUS
<1>3. IsObject(m) /\ m.obj.pts[i].refer = q
  BY <1>2 DEF Refers
<1>4. PICK list : list = GraphAt(o).lists[w]
  OBVIOUS
<1>5. EndSlots(list, m.obj, w) /\ \A k \in 1 .. 2 : k \in Some(list) => list[k] \in Deps(o)
  BY <1>1, <1>2, <1>3, <1>4 DEF SlotsHeld
<1>6. list[i] = Reference(EndOf(w, i), q) /\ list[i] \in Deps(o)
  BY <1>3, <1>5 DEF EndSlots
<1>7. QED
  BY <1>6

\* Changes that refer to nothing new.
NothingNew(changes, o) ==
    \A m \in DOMAIN changes : changes[m].id \in Walls =>
        \A i \in 1 .. 2 : \A q : Refers(changes[m], i, q) /\ q # None => Refers(LastOf(changes[m].id, o), i, q)

\* They join no ends that were not joined before.
LEMMA NothingNewAgrees ==
    ASSUME LogOK, AreTyped(log), NEW o \in -1 .. Newest, NEW changes, NothingNew(changes, o)
    PROVE  AllAgree(changes, o)
<1> SUFFICES ASSUME NEW m \in DOMAIN changes, NEW n \in DOMAIN changes,
                    NEW w, w = changes[m].id, NEW v, v = changes[n].id, w \in Walls, v \in Walls,
                    NEW i \in 1 .. 2, NEW j \in 1 .. 2,
                    Refers(changes[m], i, EndOf(v, j)),
                    Reference(EndOf(w, i), EndOf(v, j)) \notin Deps(o)
             PROVE  FALSE
  BY DEF AllAgree, NewEndsAgree, AreJoined, IsClean
<1>1. PICK q : q = EndOf(v, j)
  OBVIOUS
<1>2. q # None
  BY <1>1, EndsArePieces
<1>3. Refers(LastOf(w, o), i, q)
  BY <1>1, <1>2 DEF NothingNew
<1>4. QED
  BY <1>1, <1>2, <1>3, RefersHeld

\* A wall as it is created refers to nothing.
LEMMA NewWallRefers ==
    ASSUME NEW w \in Walls, NEW i \in 1 .. 2, NEW q, q # None
    PROVE  ~ Refers(NewWall(w), i, q)
<1>1. PICK p, r : p = Segment(w)[1] /\ r = Segment(w)[2]
  OBVIOUS
<1>2. PICK obj, pts : /\ obj = W!New(w, p, r)
                      /\ pts = <<[refer |-> None, info |-> [kind |-> "Point", at |-> p]],
                                 [refer |-> None, info |-> [kind |-> "Point", at |-> r]]>>
  OBVIOUS
<1>3. obj = [kind |-> "Wall", id |-> w, pts |-> pts, openings |-> << >>]
  BY <1>2 DEF W!New, W!Updatable, W!Point
<1>4. pts[i].refer = None
  <2>1. i = 1 \/ i = 2
    OBVIOUS
  <2>2. QED
    BY <1>2, <2>1
<1>5. NewWall(w).obj = obj
  BY <1>1, <1>2 DEF NewWall, Change
<1>6. NewWall(w).obj.pts[i].refer = None
  BY <1>3, <1>4, <1>5
<1>7. QED
  BY <1>6 DEF Refers

\* Created objects refer to nothing.
LEMMA CreateJoins ==
    ASSUME RequestInv, RequestInv', TypeInv, JoinInv, NEW c \in Client, Ready(c),
           \/ \E ids \in Selections : CreateWalls(c, ids)
           \/ \E x \in Sheets : CreateSheet(c, x)
           \/ \E v \in Viewports, x \in Sheets : CreateViewport(c, v, x)
    PROVE  JoinInv'
<1>1. LogOK /\ AreTyped(log) /\ Newest \in -1 .. Newest
  BY LogIs DEF RequestInv, TypeInv
<1>2. CASE \E ids \in Selections : CreateWalls(c, ids)
  <2>1. PICK ids \in Selections : CreateWalls(c, ids)
    BY <1>2
  <2>2. PICK changes : changes = [n \in DOMAIN ids |-> NewWall(ids[n])]
    OBVIOUS
  <2>3. Begin(c, Newest, FALSE, changes) /\ ids \in Seq(Walls)
    BY <2>1, <2>2 DEF CreateWalls, Create
  <2>4. \A n \in DOMAIN ids : ids[n] \in Walls
    BY <2>3, ElementOfSeq, LenProperties
  <2>5. NothingNew(changes, Newest)
    BY <2>2, <2>4, NewWallRefers DEF NothingNew
  <2>6. AllAgree(changes, Newest)
    BY <1>1, <2>5, NothingNewAgrees
  <2>7. QED
    BY <1>1, <2>3, <2>6, BeginJoins
<1>3. ASSUME NEW x, x \notin Walls, NEW obj, Create(c, <<Change("Add", x, obj)>>)
      PROVE  JoinInv'
  <2>1. PICK changes : changes = <<Change("Add", x, obj)>>
    OBVIOUS
  <2>2. Begin(c, Newest, FALSE, changes)
    BY <1>3, <2>1 DEF Create
  <2>3. \A n \in DOMAIN changes : changes[n].id = x
    BY <2>1 DEF Change
  <2>4. AllAgree(changes, Newest)
    BY <1>3, <2>3 DEF AllAgree, IsClean
  <2>5. QED
    BY <1>1, <2>2, <2>4, BeginJoins
<1>4. CASE \E x \in Sheets : CreateSheet(c, x)
  <2>1. PICK x \in Sheets : CreateSheet(c, x)
    BY <1>4
  <2>2. PICK obj : obj = P!New(x)
    OBVIOUS
  <2>3. Create(c, <<Change("Add", x, obj)>>)
    BY <2>1, <2>2 DEF CreateSheet
  <2>4. x \notin Walls
    BY Assumed
  <2>5. QED
    BY <1>3, <2>3, <2>4
<1>5. CASE \E v \in Viewports, x \in Sheets : CreateViewport(c, v, x)
  <2>1. PICK v \in Viewports, x \in Sheets : CreateViewport(c, v, x)
    BY <1>5
  <2>2. PICK obj : obj = V!New(v, x)
    OBVIOUS
  <2>3. Create(c, <<Change("Add", v, obj)>>)
    BY <2>1, <2>2 DEF CreateViewport
  <2>4. v \notin Walls
    BY Assumed
  <2>5. QED
    BY <1>3, <2>3, <2>4
<1>6. QED
  BY <1>2, <1>4, <1>5

\* Deleted objects refer to nothing.
LEMMA DeleteJoins ==
    ASSUME RequestInv, RequestInv', TypeInv, JoinInv, NEW c \in Client, Ready(c),
           NEW o \in OffsetsOf(c), NEW ids \in Selections, DeleteObjects(c, ids, o)
    PROVE  JoinInv'
<1>1. o \in -1 .. Newest
  BY OffsetsIn
<1>2. PICK changes : changes = [n \in DOMAIN ids |-> Change("Delete", ids[n], None)]
  OBVIOUS
<1>3. Begin(c, o, FALSE, changes)
  BY <1>2 DEF DeleteObjects
<1>4. \A n \in DOMAIN changes : ~ IsObject(changes[n])
  BY <1>2 DEF Change, IsObject
<1>5. AllAgree(changes, o)
  BY <1>4 DEF AllAgree, NewEndsAgree, AreJoined, Refers
<1>6. QED
  BY <1>1, <1>3, <1>5, BeginJoins

\* A moved wall refers to what it did.
LEMMA MovedRefers ==
    ASSUME NEW w \in Walls, NEW obj, Fits(w, obj), NEW delta, NEW i \in 1 .. 2
    PROVE  MoveObj(obj, delta).pts[i].refer = obj.pts[i].refer
<1>1. /\ obj.kind = "Wall" /\ obj \in WallsOf(w, Piece) /\ DOMAIN obj.pts = 1 .. 2
      /\ "pts" \in DOMAIN obj
      /\ \A k \in 1 .. 2 : obj.pts[k] \in [refer : Slot(Piece), info : PointResults]
  BY WallIs
<1>2. PICK moved : moved = W!MoveObj(obj, delta)
  OBVIOUS
<1>3. MoveObj(obj, delta) = moved
  BY <1>1, <1>2, OfWall
<1>4. \A k \in 1 .. 2 : DOMAIN obj.pts[k] = {"refer", "info"}
  BY <1>1
<1>5. moved.pts[i].refer = obj.pts[i].refer
  <2>1. i = 1 \/ i = 2
    OBVIOUS
  <2>2. QED
    BY <1>1, <1>2, <1>4, <2>1 DEF W!MoveObj
<1>6. QED
  BY <1>3, <1>5

\* Moved walls refer to what they referred to.
LEMMA MoveJoins ==
    ASSUME RequestInv, RequestInv', TypeInv, JoinInv, NEW c \in Client, Ready(c),
           NEW o \in OffsetsOf(c), NEW ids \in Selections, NEW delta \in Delta,
           MoveObjects(c, ids, delta, o)
    PROVE  JoinInv'
<1>1. o \in -1 .. Newest /\ o \in Int /\ LogOK /\ AreTyped(log)
  BY OffsetsIn, LogIs DEF RequestInv, TypeInv
<1>2. PICK n \in stored .. Len(log) :
          \E kept \in Ordered({i \in DOMAIN ids : IsObject(GetObject(ids[i], o, n))}) :
              Begin(c, o, n <= o,
                  [i \in DOMAIN kept |-> Change("Modify", ids[kept[i]],
                                             MoveObj(GetObject(ids[kept[i]], o, n).obj, delta))])
  BY DEF MoveObjects
<1>3. n \in Nat /\ n <= Len(log)
  BY ReadIs
<1>4. PICK I : I = {i \in DOMAIN ids : IsObject(GetObject(ids[i], o, n))}
  OBVIOUS
<1>5. PICK kept \in Ordered(I) :
          Begin(c, o, n <= o,
              [i \in DOMAIN kept |-> Change("Modify", ids[kept[i]],
                                         MoveObj(GetObject(ids[kept[i]], o, n).obj, delta))])
  BY <1>2, <1>4
<1>6. PICK changes : changes = [i \in DOMAIN kept |-> Change("Modify", ids[kept[i]],
                                   MoveObj(GetObject(ids[kept[i]], o, n).obj, delta))]
  OBVIOUS
<1>7. PICK m \in Nat : kept \in [1 .. m -> I]
  <2>1. DOMAIN ids = 1 .. Len(ids) /\ Len(ids) \in Nat
    BY SelectionsAre, LenProperties
  <2>2. I \in SUBSET (1 .. Len(ids))
    BY <1>4, <2>1
  <2>3. QED
    BY <2>1, <2>2, OrderedIs
<1>8. ASSUME n > o PROVE NothingNew(changes, o)
  <2> SUFFICES ASSUME NEW k \in 1 .. m, changes[k].id \in Walls, NEW i \in 1 .. 2, NEW q,
                      Refers(changes[k], i, q), q # None
               PROVE  Refers(LastOf(changes[k].id, o), i, q)
    BY <1>6, <1>7 DEF NothingNew
  <2>1. PICK x, was : x = ids[kept[k]] /\ was = GetObject(x, o, n)
    OBVIOUS
  <2>2. changes[k] = Change("Modify", x, MoveObj(was.obj, delta)) /\ kept[k] \in I
    BY <1>6, <1>7, <2>1
  <2>3. changes[k].id = x /\ changes[k].obj = MoveObj(was.obj, delta)
    BY <2>2 DEF Change
  <2>4. IsObject(was) /\ x \in Walls
    BY <1>4, <2>1, <2>2, <2>3
  <2>5. Fits(x, was.obj)
    BY <1>1, <2>1, <2>4, FoundFits
  <2>6. was.obj.pts[i].refer = q
    <3>1. MoveObj(was.obj, delta).pts[i].refer = was.obj.pts[i].refer
      BY <2>4, <2>5, MovedRefers
    <3>2. QED
      BY <2>3, <3>1 DEF Refers
  <2>7. was = LastOf(x, o)
    BY <1>1, <1>3, <1>8, <2>1, AnswersAlike
  <2>8. QED
    BY <2>3, <2>4, <2>6, <2>7 DEF Refers
<1>9. PICK stale : stale = (n <= o)
  OBVIOUS
<1>10. ~ stale => AllAgree(changes, o)
  <2>1. n <= o \/ n > o
    BY <1>1, <1>3
  <2>2. QED
    BY <1>1, <1>8, <1>9, <2>1, NothingNewAgrees
<1>11. Begin(c, o, stale, changes)
  BY <1>5, <1>6, <1>9
<1>12. QED
  BY <1>1, <1>10, <1>11, BeginJoins

\* The end that a wall snapped with is where the other's end is.
LEMMA SnapAgrees ==
    ASSUME NEW obj, NEW other, NEW after, NEW y \in Walls, SnappedTo(obj, other, after, y),
           NEW i \in 1 .. 2, NEW j \in 1 .. 2,
           after.pts[i].refer = EndOf(y, j), obj.pts[i].refer # EndOf(y, j)
    PROVE  after.pts[i].info = other.pts[j].info
<1>1. PICK free, found \in 1 .. 2 :
          /\ after.pts[free].refer = RefID(y, "ProfilePoint", found)
          /\ after.pts[free].info = other.pts[found].info
          /\ \A k \in 1 .. 2 : k # free => after.pts[k] = obj.pts[k]
  BY DEF SnappedTo
<1>2. i = free
  BY <1>1
<1>3. RefID(y, "ProfilePoint", found) = EndOf(y, j)
  BY <1>1, <1>2
<1>4. found = j
  BY <1>3 DEF RefID, EndOf
<1>5. QED
  BY <1>1, <1>2, <1>4

\* Joining: the end that is set last is where the other's end is.
LEMMA JoinJoins ==
    ASSUME RequestInv, RequestInv', TypeInv, JoinInv, NEW c \in Client, Ready(c),
           NEW o \in OffsetsOf(c), NEW x \in Walls, NEW y \in Walls, x # y, NEW guess \in Guesses,
           JoinObjectsAtPoint(c, x, y, guess, o)
    PROVE  JoinInv'
<1>1. o \in -1 .. Newest /\ o \in Int /\ LogOK /\ AreTyped(log)
  BY OffsetsIn, LogIs DEF RequestInv, TypeInv
<1>2. PICK n \in stored .. Len(log) :
          /\ IsObject(GetObject(x, o, n)) /\ IsObject(GetObject(y, o, n))
          /\ \E joined :
                /\ joined = JoinRefs(GetObject(x, o, n).obj, GetObject(y, o, n).obj,
                                     "ProfilePoint", "ProfilePoint", guess)
                /\ joined # None
                /\ Begin(c, o, n <= o,
                         <<Change("Modify", x, joined[1]), Change("Modify", y, joined[2])>>)
  BY DEF JoinObjectsAtPoint
<1>3. PICK first, second : /\ first = GetObject(x, o, n).obj /\ second = GetObject(y, o, n).obj
  OBVIOUS
<1>4. PICK second2, first2 : /\ second2 = SnapToRef(second, first, "ProfilePoint", guess)
                             /\ first2 = SnapToRef(first, second2, "ProfilePoint", guess)
  OBVIOUS
<1>5. PICK joined : /\ joined = JoinRefs(first, second, "ProfilePoint", "ProfilePoint", guess)
                    /\ joined # None
                    /\ Begin(c, o, n <= o,
                             <<Change("Modify", x, joined[1]), Change("Modify", y, joined[2])>>)
  BY <1>2, <1>3
<1>6. second2 # None /\ first2 # None /\ joined = <<first2, second2>>
  BY <1>4, <1>5 DEF JoinRefs
<1>7. Fits(x, first) /\ Fits(y, second)
  BY <1>1, <1>2, <1>3, FoundFits
<1>8. guess \in Int
  BY Assumed
<1>9. Fits(y, second2)
  BY <1>4, <1>6, <1>7, <1>8, SnappedFits
<1>10. Fits(x, first2) /\ SnappedTo(first, second2, first2, y)
  BY <1>4, <1>6, <1>7, <1>8, <1>9, SnappedFits
<1>11. PICK changes : changes = <<Change("Modify", x, first2), Change("Modify", y, second2)>>
  OBVIOUS
<1>12. /\ DOMAIN changes = {1, 2}
       /\ changes[1].id = x /\ changes[1].obj = first2
       /\ changes[2].id = y /\ changes[2].obj = second2
  BY <1>11 DEF Change
<1>13. n \in Nat
  BY ReadIs
<1>14. PICK stale : stale = (n <= o)
  OBVIOUS
<1>15. Begin(c, o, stale, changes)
  <2>1. joined[1] = first2 /\ joined[2] = second2
    BY <1>6
  <2>2. QED
    BY <1>5, <1>11, <1>14, <2>1
<1>16. ASSUME NEW w \in Walls, NEW obj, Fits(w, obj), NEW i \in 1 .. 2, NEW j \in 1 .. 2
       PROVE  obj.pts[i].refer # EndOf(w, j)
  <2>1. EndOf(w, j) # None /\ EndOf(w, j).id = w
    BY EndsArePieces
  <2>2. IsWall(obj, w)
    BY <1>16, WallIs
  <2>3. QED
    BY <2>1, <2>2 DEF IsWall
<1>17. ASSUME n > o, NEW i \in 1 .. 2, NEW j \in 1 .. 2, first2.pts[i].refer = EndOf(y, j),
              Reference(EndOf(x, i), EndOf(y, j)) \notin Deps(o)
       PROVE  first2.pts[i].info = second2.pts[j].info
  <2>1. GetObject(x, o, n) = LastOf(x, o)
    BY <1>1, <1>13, <1>17, AnswersAlike
  <2>2. PICK q : q = EndOf(y, j)
    OBVIOUS
  <2>3. q # None
    BY <2>2, EndsArePieces
  <2>4. ~ Refers(LastOf(x, o), i, q)
    BY <1>1, <1>17, <2>2, <2>3, RefersHeld
  <2>5. first.pts[i].refer # EndOf(y, j)
    BY <1>2, <1>3, <2>1, <2>2, <2>4 DEF Refers
  <2>6. QED
    BY <1>10, <1>17, <2>5, SnapAgrees
<1>18. ~ stale => AllAgree(changes, o)
  <2> SUFFICES ASSUME n > o, NEW m \in {1, 2}, NEW k \in {1, 2},
                      NEW w, w = changes[m].id, NEW v, v = changes[k].id,
                      NEW i \in 1 .. 2, NEW j \in 1 .. 2,
                      Refers(changes[m], i, EndOf(v, j)), Refers(changes[k], j, EndOf(w, i)),
                      Reference(EndOf(w, i), EndOf(v, j)) \notin Deps(o),
                      Reference(EndOf(v, j), EndOf(w, i)) \notin Deps(o)
               PROVE  SameInfo(changes[m], i, changes[k], j)
    <3>1. ~ stale => n > o
      <4>1. n <= o \/ n > o
        BY <1>1, <1>13
      <4>2. QED
        BY <1>14, <4>1
    <3>2. QED
      BY <1>12, <3>1 DEF AllAgree, NewEndsAgree, AreJoined
  <2>1. changes[m].obj.pts[i].refer = EndOf(v, j) /\ changes[k].obj.pts[j].refer = EndOf(w, i)
    BY DEF Refers
  <2>2. CASE m = 1 /\ k = 2
    BY <1>12, <1>17, <2>1, <2>2 DEF SameInfo
  <2>3. CASE m = 2 /\ k = 1
    BY <1>12, <1>17, <2>1, <2>3 DEF SameInfo
  <2>4. CASE m = k
    BY <1>9, <1>10, <1>12, <1>16, <2>1, <2>4
  <2>5. QED
    BY <2>2, <2>3, <2>4
<1>19. QED
  BY <1>1, <1>15, <1>18, BeginJoins

\* A change that takes an object back to what it was at an offset.
Undoes(inverted, x, s, o) ==
    /\ inverted.id = x
    /\ s \in -1 .. Newest /\ s + 1 \in 0 .. Newest /\ s + 1 <= o /\ MessageAt(s + 1).id = x
    /\ Untouched(x, s + 1, o)
    /\ \A i \in 1 .. 2 : \A q : Refers(inverted, i, q) => Refers(LastOf(x, s), i, q)
    /\ IsObject(inverted) => inverted.obj = LastOf(x, s).obj

\* The undone objects agree, as they did before they were written.
LEMMA UndoJoins ==
    ASSUME RequestInv, RequestInv', TypeInv, JoinInv, NEW c \in Client, Ready(c),
           NEW o \in OffsetsOf(c), UndoLatest(c, o)
    PROVE  JoinInv'
<1>1. LogOK /\ Newest \in Int /\ AreTyped(log) /\ o \in -1 .. Newest
  BY OffsetsIn, LogIs DEF RequestInv, TypeInv
<1>2. PICK call : call = req[c]
  OBVIOUS
<1>3. call \in Range(req) /\ CallOK(call) /\ CallTyped(call) /\ CallAgrees(call)
  BY <1>2, Mine, SMTT(30)
<1> DEFINE Before(n, i) == GetObject(req[c].batch[i].id, req[c].at[i] - 1, n)
           Inverted(n, i) ==
               LET x == req[c].batch[i].id
                   kind == req[c].batch[i].change
               IN  IF Before(n, i) = None \/ kind = "Add" THEN Change("Delete", x, None)
                   ELSE Change(IF kind = "Delete" THEN "Add" ELSE "Modify", x, Before(n, i).obj)
           Kept(n) == {i \in DOMAIN req[c].batch :
                           \/ Before(n, i) = None \/ req[c].batch[i].change = "Add"
                           \/ Before(n, i).change # "Delete"}
           old == \E i \in DOMAIN req[c].at :
                      \E k \in req[c].at[i] + 1 .. o : MessageAt(k).id = req[c].batch[i].id
<1>4. PICK n \in stored .. Len(log) :
          /\ req[c].pc = "answered"
          /\ \E kept \in Ordered(Kept(n)) :
                Begin(c, o, n <= o \/ old, [i \in DOMAIN kept |-> Inverted(n, kept[i])])
  BY Zenon DEF UndoLatest
<1>5. PICK I : I = Kept(n)
  BY Zenon
<1>6. PICK kept \in Ordered(I) :
          Begin(c, o, n <= o \/ old, [i \in DOMAIN kept |-> Inverted(n, kept[i])])
  BY <1>4, <1>5, Zenon
<1>7. PICK stale, changes :
          /\ stale = (n <= o \/ old)
          /\ changes = [i \in DOMAIN kept |-> Inverted(n, kept[i])]
  BY Zenon
<1>8. Begin(c, o, stale, changes)
  BY <1>6, <1>7, Zenon
<1>9. /\ DOMAIN call.at = DOMAIN call.batch
      /\ Len(call.batch) \in Nat /\ DOMAIN call.batch = 1 .. Len(call.batch)
  BY <1>3, SequenceIs DEF CallOK, AreChanges
<1>10. PICK m \in Nat : Picks(kept, m, I)
  <2>1. I \in SUBSET (1 .. Len(call.batch))
    BY <1>2, <1>5, <1>9
  <2>2. PICK k \in Nat : k = Len(call.batch)
    BY <1>9
  <2>3. I \in SUBSET (1 .. k) /\ kept \in Ordered(I)
    BY <2>1, <2>2
  <2>4. QED
    BY <2>2, <2>3, KeptApart
<1>11. /\ DOMAIN changes = 1 .. m
       /\ \A i \in 1 .. m : kept[i] \in I /\ changes[i] = Inverted(n, kept[i])
  BY <1>7, <1>10 DEF Picks
<1>12. n \in Nat
  BY ReadIs, SMTT(30)
<1>13. \A l \in DOMAIN call.at : call.at[l] # -1
  BY <1>2, <1>3, <1>4 DEF CallOK
<1>14. ASSUME ~ stale, ~ InSplit(o), NEW l \in I
       PROVE  l \in DOMAIN call.batch /\ Undoes(Inverted(n, l), call.batch[l].id, call.at[l] - 1, o)
  <2>0. PICK x, s : x = call.batch[l].id /\ s = call.at[l] - 1
    OBVIOUS
  <2>1. PICK at, kind : at = call.at[l] /\ kind = call.batch[l].change
    OBVIOUS
  <2>2. PICK before : before = GetObject(x, s, n)
    OBVIOUS
  <2>3. Before(n, l) = before
    BY <1>2, <2>0, <2>2
  <2>4. /\ l \in DOMAIN call.batch /\ l \in DOMAIN call.at
        /\ before = None \/ kind = "Add" \/ before.change # "Delete"
    BY <1>2, <1>5, <1>9, <2>1, <2>3
  <2>5. at \in 0 .. Newest /\ MessageAt(at) = call.batch[l] /\ s \in -1 .. Newest /\ s + 1 = at
    <3>1. at \in 0 .. Newest /\ MessageAt(at) = call.batch[l] /\ at - 1 \in -1 .. Newest
      BY <1>1, <1>3, <1>13, <2>1, <2>4, SentAt
    <3>2. s = at - 1
      BY <2>0, <2>1
    <3>3. QED
      BY <1>1, <3>1, <3>2
  <2>6. at <= o
    <3>1. o = call.answer \/ o = Newest
      BY <1>2 DEF OffsetsOf
    <3>2. CASE o = Newest
      BY <1>1, <2>5, <3>2
    <3>3. CASE o = call.answer
      <4>1. PartsSplit(call)
        BY <1>3 DEF CallAgrees
      <4>2. o \notin split
        BY <1>14, SMTT(30) DEF InSplit
      <4>3. ~ (at > o)
        BY <1>2, <1>4, <2>1, <2>4, <3>3, <4>1, <4>2 DEF PartsSplit
      <4>4. QED
        BY <1>1, <2>5, <4>3
    <3>4. QED
      BY <3>1, <3>2, <3>3
  <2>7. n > o
    <3>1. ~ (n <= o)
      BY <1>7, <1>14
    <3>2. QED
      BY <1>1, <1>12, <3>1
  <2>8. ~ old
    BY <1>7, <1>14
  <2>9. Untouched(x, at, o)
    BY <1>2, <2>0, <2>1, <2>4, <2>8 DEF Untouched
  <2>10. before = LastOf(x, s)
    <3>1. n > s
      BY <1>1, <1>12, <2>5, <2>6, <2>7
    <3>2. QED
      BY <1>1, <1>12, <2>2, <2>5, <3>1, AnswersAlike
  <2>11. Inverted(n, l) = IF before = None \/ kind = "Add" THEN Change("Delete", x, None)
                          ELSE Change(IF kind = "Delete" THEN "Add" ELSE "Modify", x, before.obj)
    BY <1>2, <2>0, <2>1, <2>3
  <2> HIDE DEF Inverted, Before, old
  <2>12. Inverted(n, l).id = x
    BY <2>11 DEF Change
  <2>13. IsObject(Inverted(n, l)) => IsObject(before) /\ Inverted(n, l).obj = before.obj
    <3>1. CASE before = None \/ kind = "Add"
      <4>1. Inverted(n, l).change = "Delete"
        BY <2>11, <3>1 DEF Change
      <4>2. QED
        BY <4>1 DEF IsObject
    <3>2. CASE ~ (before = None \/ kind = "Add")
      <4>1. Inverted(n, l).obj = before.obj
        BY <2>11, <3>2 DEF Change
      <4>2. QED
        BY <2>4, <3>2, <4>1 DEF IsObject
    <3>3. QED
      BY <3>1, <3>2
  <2>14. \A i \in 1 .. 2 : \A q : Refers(Inverted(n, l), i, q) => Refers(LastOf(x, s), i, q)
    BY <2>10, <2>13 DEF Refers
  <2>15. QED
    BY <2>0, <2>1, <2>4, <2>5, <2>6, <2>9, <2>10, <2>12, <2>13, <2>14 DEF Undoes
<1> HIDE DEF Inverted, Kept, Before, old
<1>15. ASSUME ~ stale, ~ InSplit(o) PROVE AllAgree(changes, o)
  <2> SUFFICES ASSUME NEW k \in 1 .. m, NEW l \in 1 .. m,
                      NEW w, w = changes[k].id, NEW v, v = changes[l].id, IsClean(w), IsClean(v),
                      NEW i \in 1 .. 2, NEW j \in 1 .. 2,
                      AreJoined(changes[k], i, changes[l], j, w, v, Deps(o))
               PROVE  SameInfo(changes[k], i, changes[l], j)
    BY <1>11 DEF AllAgree, NewEndsAgree
  <2>1. PICK f \in I, g \in I : f = kept[k] /\ g = kept[l] /\ changes[k] = Inverted(n, f)
                                /\ changes[l] = Inverted(n, g)
    BY <1>11
  <2>2. PICK s, t : s = call.at[f] - 1 /\ t = call.at[g] - 1
    OBVIOUS
  <2>3. /\ f \in DOMAIN call.batch /\ w = call.batch[f].id
        /\ s \in -1 .. Newest /\ s + 1 \in 0 .. Newest /\ s + 1 <= o /\ MessageAt(s + 1).id = w
        /\ Untouched(w, s + 1, o)
        /\ \A q : Refers(changes[k], i, q) => Refers(LastOf(w, s), i, q)
        /\ IsObject(changes[k]) => changes[k].obj = LastOf(w, s).obj
    <3>1. f \in DOMAIN call.batch /\ Undoes(changes[k], call.batch[f].id, s, o)
      BY <1>14, <1>15, <2>1, <2>2
    <3>2. w = call.batch[f].id
      BY <3>1 DEF Undoes
    <3>3. QED
      BY <3>1, <3>2 DEF Undoes
  <2>4. /\ g \in DOMAIN call.batch /\ v = call.batch[g].id
        /\ t \in -1 .. Newest /\ t + 1 \in 0 .. Newest /\ t + 1 <= o /\ MessageAt(t + 1).id = v
        /\ Untouched(v, t + 1, o)
        /\ \A q : Refers(changes[l], j, q) => Refers(LastOf(v, t), j, q)
        /\ IsObject(changes[l]) => changes[l].obj = LastOf(v, t).obj
    <3>1. g \in DOMAIN call.batch /\ Undoes(changes[l], call.batch[g].id, t, o)
      BY <1>14, <1>15, <2>1, <2>2
    <3>2. v = call.batch[g].id
      BY <3>1 DEF Undoes
    <3>3. QED
      BY <3>1, <3>2 DEF Undoes
  <2>5. PICK p, q : p = EndOf(w, i) /\ q = EndOf(v, j)
    OBVIOUS
  <2>6. p # None /\ q # None /\ w \in Walls /\ v \in Walls
    BY <2>5, EndsArePieces DEF IsClean
  <2>7. /\ Refers(changes[k], i, q) /\ Refers(changes[l], j, p)
        /\ OnlyTo(Deps(o), EndOf(w, i), q) /\ OnlyTo(Deps(o), EndOf(v, j), p)
        /\ IsObject(changes[k]) /\ IsObject(changes[l])
    BY <2>5 DEF AreJoined, Refers
  <2>8. Refers(LastOf(w, s), i, q) /\ Refers(LastOf(v, t), j, p)
    BY <2>3, <2>4, <2>7
  <2>9. OnlyTo(Deps(s), EndOf(w, i), q)
    <3>1. PICK a : a = s + 1
      OBVIOUS
    <3>2. s < a /\ a \in 0 .. Newest /\ a <= o /\ MessageAt(a).id = w /\ Untouched(w, a, o)
      BY <1>1, <2>3, <3>1
    <3>3. Untouched(w, s, a - 1)
      BY <2>3, <3>1 DEF Untouched
    <3>4. Refers(MessageAt(a), i, q) \/ Refers(LastOf(w, s), i, q)
      BY <2>8
    <3>5. QED
      BY <1>1, <2>3, <2>6, <2>7, <3>2, <3>3, <3>4, OnlyBefore
  <2>10. OnlyTo(Deps(t), EndOf(v, j), p)
    <3>1. PICK a : a = t + 1
      OBVIOUS
    <3>2. t < a /\ a \in 0 .. Newest /\ a <= o /\ MessageAt(a).id = v /\ Untouched(v, a, o)
      BY <1>1, <2>4, <3>1
    <3>3. Untouched(v, t, a - 1)
      BY <2>4, <3>1 DEF Untouched
    <3>4. Refers(MessageAt(a), j, p) \/ Refers(LastOf(v, t), j, p)
      BY <2>8
    <3>5. QED
      BY <1>1, <2>4, <2>6, <2>7, <3>2, <3>3, <3>4, OnlyBefore
  <2>11. SameInfo(LastOf(w, s), i, LastOf(v, t), j)
    <3>1. BeforeAgrees(call) /\ call.pc = "answered"
      BY <1>2, <1>3, <1>4 DEF CallAgrees
    <3>2. QED
      BY <2>2, <2>3, <2>4, <2>5, <2>8, <2>9, <2>10, <3>1 DEF BeforeAgrees
  <2>12. QED
    BY <2>3, <2>4, <2>7, <2>11 DEF SameInfo
<1>16. QED
  BY <1>1, <1>8, <1>15, BeginJoins

\* A request keeps the invariant.
LEMMA RequestJoins ==
    ASSUME RequestInv, RequestInv', TypeInv, JoinInv, NEW c \in Client, Request(c)
    PROVE  JoinInv'
<1>1. Ready(c)
  BY DEF Request
<1>2. CASE \/ \E ids \in Selections : CreateWalls(c, ids)
           \/ \E x \in Sheets : CreateSheet(c, x)
           \/ \E v \in Viewports, x \in Sheets : CreateViewport(c, v, x)
  BY <1>1, <1>2, CreateJoins
<1>3. ASSUME NEW o \in OffsetsOf(c), NEW ids \in Selections, DeleteObjects(c, ids, o)
      PROVE  JoinInv'
  BY <1>1, <1>3, DeleteJoins
<1>4. ASSUME NEW o \in OffsetsOf(c), NEW ids \in Selections, NEW delta \in Delta,
             MoveObjects(c, ids, delta, o)
      PROVE  JoinInv'
  BY <1>1, <1>4, MoveJoins
<1>5. ASSUME NEW o \in OffsetsOf(c), NEW x \in Walls, NEW y \in Walls, x # y, NEW guess \in Guesses,
             JoinObjectsAtPoint(c, x, y, guess, o)
      PROVE  JoinInv'
  BY <1>1, <1>5, JoinJoins
<1>6. ASSUME NEW o \in OffsetsOf(c), UndoLatest(c, o) PROVE JoinInv'
  BY <1>1, <1>6, UndoJoins
<1>7. QED
  BY <1>2, <1>3, <1>4, <1>5, <1>6 DEF Request

-----------------------------------------------------------------------------
(* Joined ends: the update of a batch *)

\* A batch before it is updated: what was changed, then what was read of the
\* objects that the references found name.
IsWhole(own, all, refs, o) ==
    /\ AreTyped(own) /\ \A a \in DOMAIN own : AreAsked(own[a], ExtractInfo(own))
    /\ AreTyped(all) /\ AreApart(all)
    /\ \A k \in DOMAIN all : (\E a \in DOMAIN own : all[k] = own[a]) \/ all[k] = LastOf(all[k].id, o)
    /\ Len(refs) \in Nat
    /\ \A k \in 1 .. Len(refs) :
          /\ refs[k] \in Links /\ refs[k] \in Deps(o)
          /\ LastOf(refs[k].owner.id, o) # None => refs[k].owner.id \in IdsOf(all)
          /\ LastOf(refs[k].other.id, o) # None => refs[k].other.id \in IdsOf(all)
    /\ \A ref \in Deps(o) : ref.other \in Range(ExtractInfo(own)) /\ ref.owner # ref.other =>
           \E k \in 1 .. Len(refs) : refs[k] = ref

\* The batch then, of the same objects.
IsUpdated(all, refs, batch) ==
    /\ batch = UpdateObjects(all, refs) /\ DOMAIN batch = DOMAIN all /\ AreTyped(batch)
    /\ \A k \in DOMAIN all : batch[k].change = all[k].change /\ batch[k].id = all[k].id

\* What refers to an end that a change refers from is found.
LEMMA Asked ==
    ASSUME NEW own, NEW all, NEW refs, NEW o, IsWhole(own, all, refs, o),
           NEW a \in DOMAIN own, NEW w \in Walls, own[a].id = w,
           NEW i \in 1 .. 2, NEW q, q # None, Refers(own[a], i, q),
           NEW ref \in Deps(o), ref.other = EndOf(w, i), ref.owner # EndOf(w, i)
    PROVE  \E k \in 1 .. Len(refs) : refs[k] = ref
<1>1. PICK change : change = own[a]
  OBVIOUS
<1>2. /\ IsTyped(change) /\ change.change # "Delete" /\ change.id = w
      /\ change.obj.pts[i].refer = q /\ AreAsked(change, ExtractInfo(own))
  BY <1>1 DEF IsWhole, AreTyped, Refers, IsObject
<1>3. w \in Obj /\ Fits(w, change.obj)
  BY <1>2 DEF IsTyped, Obj
<1>4. EndSlots(GetRefs(change.obj), change.obj, w)
  BY <1>3, OwnRefs
<1>5. i \in Some(GetRefs(change.obj)) /\ GetRefs(change.obj)[i] = Reference(EndOf(w, i), q)
  BY <1>2, <1>4 DEF EndSlots
<1>6. GetRefs(change.obj)[i].owner = EndOf(w, i)
  BY <1>5 DEF Reference
<1>7. ref.other \in Range(ExtractInfo(own))
  BY <1>2, <1>5, <1>6 DEF AreAsked
<1>8. QED
  BY <1>7 DEF IsWhole

\* An object of the batch refers to what it referred to before it was updated.
LEMMA WholeRefers ==
    ASSUME NEW all, NEW refs, NEW batch, AreTyped(all), AreApart(all), Len(refs) \in Nat,
           IsUpdated(all, refs, batch), NEW m \in DOMAIN batch, NEW w \in Walls, w = batch[m].id,
           NEW i \in 1 .. 2, NEW q, q # None, Refers(batch[m], i, q)
    PROVE  /\ m \in DOMAIN all /\ all[m].id = w /\ all[m].change # "Delete"
           /\ Refers(all[m], i, q) /\ q.id # w /\ all[m].obj.pts[i].refer = q
<1>1. /\ m \in DOMAIN all /\ all[m].id = w /\ batch[m].change = all[m].change
      /\ batch = UpdateObjects(all, refs) /\ AreTyped(batch)
  BY DEF IsUpdated
<1>2. batch[m].change # "Delete" /\ batch[m].obj.pts[i].refer = q
  BY DEF Refers, IsObject
<1>3. all[m].change # "Delete"
  BY <1>1, <1>2
<1>4. all[m].obj.pts[i].refer = q
  BY <1>1, <1>2, <1>3, BatchRefers
<1>5. IsTyped(all[m]) /\ IsObject(all[m])
  BY <1>1, <1>3, MessageIsSome DEF AreTyped
<1>6. Fits(w, all[m].obj) /\ w \in Obj
  BY <1>1, <1>3, <1>5 DEF IsTyped, Obj
<1>7. IsWall(all[m].obj, w)
  BY <1>6, WallIs
<1>8. q.id # w
  BY <1>4, <1>7 DEF IsWall
<1>9. QED
  BY <1>1, <1>3, <1>4, <1>5, <1>8 DEF Refers

\* Ends of the batch that refer to each other only are at the same point.
LEMMA BatchAgreed ==
    ASSUME LogOK, AreTyped(log), NEW o \in -1 .. Newest,
           NEW own, NEW all, NEW refs, IsWhole(own, all, refs, o), AllAgree(own, o),
           NEW batch, IsUpdated(all, refs, batch),
           NEW m \in DOMAIN batch, NEW n \in DOMAIN batch,
           NEW w, w = batch[m].id, NEW v, v = batch[n].id, IsClean(w), IsClean(v), Agree(o, w, v),
           NEW i \in 1 .. 2, NEW j \in 1 .. 2, AreJoined(batch[m], i, batch[n], j, w, v, Deps(o))
    PROVE  SameInfo(batch[m], i, batch[n], j)
<1>1. PICK p, q : p = EndOf(w, i) /\ q = EndOf(v, j)
  OBVIOUS
<1>2. /\ Refers(batch[m], i, q) /\ Refers(batch[n], j, p)
      /\ OnlyTo(Deps(o), p, q) /\ OnlyTo(Deps(o), q, p)
  BY <1>1 DEF AreJoined
<1>3. w \in Walls /\ v \in Walls /\ p # None /\ q # None /\ p.id = w /\ q.id = v
  BY <1>1, EndsArePieces DEF IsClean
<1>4. AreTyped(all) /\ AreApart(all) /\ Len(refs) \in Nat /\ \A k \in 1 .. Len(refs) : refs[k] \in Links
  BY DEF IsWhole
<1>5. /\ m \in DOMAIN all /\ all[m].id = w /\ all[m].change # "Delete"
      /\ Refers(all[m], i, q) /\ q.id # w
  BY <1>2, <1>3, <1>4, WholeRefers
<1>6. /\ n \in DOMAIN all /\ all[n].id = v /\ all[n].change # "Delete"
      /\ Refers(all[n], j, p) /\ v # w
  <2>1. v # w
    BY <1>3, <1>5
  <2>2. QED
    BY <1>2, <1>3, <1>4, <2>1, WholeRefers
<1>7. OnlyIn(refs, p, q) /\ OnlyIn(refs, q, p)
  BY <1>2 DEF OnlyIn, OnlyTo, IsWhole
<1>8. BothFollow(all, batch, refs, m, i, n, j)
  <2>1. batch = UpdateObjects(all, refs)
    BY DEF IsUpdated
  <2>2. OnlyIn(refs, EndOf(w, i), EndOf(v, j)) /\ OnlyIn(refs, EndOf(v, j), EndOf(w, i))
    BY <1>1, <1>7
  <2>3. QED
    BY <1>3, <1>4, <1>5, <1>6, <2>1, <2>2, BatchEnds
<1>9. CASE batch[m].obj.pts[i].info = batch[n].obj.pts[j].info
  BY <1>9 DEF SameInfo
<1>10. CASE /\ batch[m].obj.pts[i] = all[m].obj.pts[i]
            /\ batch[n].obj.pts[j] = all[n].obj.pts[j]
            /\ \A k \in 1 .. Len(refs) : refs[k].owner \notin {p, q}
  <2>1. PICK link, Q : link = Reference(p, q) /\ Q = Reference(q, p)
    OBVIOUS
  <2>2. link.owner = p /\ link.other = q /\ Q.owner = q /\ Q.other = p /\ p # q
    BY <1>3, <1>6, <2>1 DEF Reference
  <2>3. \A k \in 1 .. Len(refs) : refs[k] # link /\ refs[k] # Q
    BY <1>10, <2>2
  <2>4. ASSUME NEW a \in DOMAIN own, all[m] = own[a] PROVE Q \notin Deps(o)
    BY <1>1, <1>3, <1>5, <2>2, <2>3, <2>4, Asked
  <2>5. ASSUME NEW a \in DOMAIN own, all[n] = own[a] PROVE link \notin Deps(o)
    BY <1>1, <1>3, <1>6, <2>2, <2>3, <2>5, Asked
  <2>6. ASSUME all[m] = LastOf(w, o) PROVE link \in Deps(o)
    BY <1>1, <1>3, <1>5, <2>1, <2>6, RefersHeld
  <2>7. ASSUME all[n] = LastOf(v, o) PROVE Q \in Deps(o)
    BY <1>1, <1>3, <1>6, <2>1, <2>7, RefersHeld
  <2>8. AreJoined(all[m], i, all[n], j, w, v, Deps(o))
    BY <1>1, <1>2, <1>5, <1>6 DEF AreJoined
  <2>9. /\ (\E a \in DOMAIN own : all[m] = own[a]) \/ all[m] = LastOf(w, o)
        /\ (\E a \in DOMAIN own : all[n] = own[a]) \/ all[n] = LastOf(v, o)
    BY <1>5, <1>6 DEF IsWhole
  <2>10. SameInfo(all[m], i, all[n], j)
    <3>1. CASE all[m] = LastOf(w, o)
      <4>1. all[n] = LastOf(v, o)
        BY <2>5, <2>6, <2>9, <3>1
      <4>2. QED
        BY <2>8, <3>1, <4>1 DEF Agree, EndsAgree
    <3>2. CASE all[m] # LastOf(w, o)
      <4>1. PICK a \in DOMAIN own : all[m] = own[a]
        BY <2>9, <3>2
      <4>2. Q \notin Deps(o)
        BY <2>4, <4>1
      <4>3. PICK b \in DOMAIN own : all[n] = own[b]
        BY <2>7, <2>9, <4>2
      <4>4. link \notin Deps(o)
        BY <2>5, <4>3
      <4>5. own[a].id = w /\ own[b].id = v /\ AreJoined(own[a], i, own[b], j, w, v, Deps(o))
        BY <1>5, <1>6, <2>8, <4>1, <4>3
      <4>6. NewEndsAgree(own[a], own[b], w, v, Deps(o))
        BY <4>5 DEF AllAgree
      <4>7. SameInfo(own[a], i, own[b], j)
        BY <1>1, <2>1, <4>2, <4>4, <4>5, <4>6 DEF NewEndsAgree
      <4>8. QED
        BY <4>1, <4>3, <4>7
    <3>3. QED
      BY <3>1, <3>2
  <2>11. QED
    BY <1>10, <2>10 DEF SameInfo
<1>11. QED
  BY <1>1, <1>5, <1>6, <1>8, <1>9, <1>10 DEF BothFollow

\* An end that an end outside of the batch refers to stays.
LEMMA BatchKept ==
    ASSUME LogOK, AreTyped(log), NEW o \in -1 .. Newest,
           NEW own, NEW all, NEW refs, IsWhole(own, all, refs, o),
           NEW batch, IsUpdated(all, refs, batch),
           NEW m \in DOMAIN batch, NEW w \in Walls, w \notin IdsOf(batch),
           NEW x \in Walls, x = batch[m].id, NEW i \in 1 .. 2, NEW j \in 1 .. 2
    PROVE  IsKept(batch[m], i, LastOf(w, o), j, x, w, Deps(o), LastOf(x, o))
<1>1. PICK p, q : p = EndOf(w, i) /\ q = EndOf(x, j)
  OBVIOUS
<1> SUFFICES ASSUME Refers(batch[m], j, p), Refers(LastOf(w, o), i, q), OnlyTo(Deps(o), q, p)
             PROVE  Refers(LastOf(x, o), j, p) /\ LastOf(x, o).obj.pts[j] = batch[m].obj.pts[j]
  BY <1>1 DEF IsKept
<1>2. p # None /\ q # None /\ p.id = w /\ q.id = x
  BY <1>1, EndsArePieces
<1>3. IdsOf(batch) = IdsOf(all)
  BY DEF IsUpdated, IdsOf
<1>4. p # q
  BY <1>2 DEF IdsOf
<1>5. AreTyped(all) /\ AreApart(all) /\ Len(refs) \in Nat /\ \A k \in 1 .. Len(refs) : refs[k] \in Links
  BY DEF IsWhole
<1>6. /\ m \in DOMAIN all /\ all[m].id = x /\ all[m].change # "Delete" /\ Refers(all[m], j, p)
  BY <1>2, <1>5, WholeRefers
<1>7. LastOf(w, o) # None
  BY DEF Refers, IsObject
<1>8. PICK link : link = Reference(p, q)
  OBVIOUS
<1>9. link \in Deps(o) /\ link.owner = p /\ link.other = q
  <2>1. link \in Deps(o)
    BY <1>1, <1>2, <1>8, RefersHeld
  <2>2. QED
    BY <1>8, <2>1 DEF Reference
<1>10. \A k \in 1 .. Len(refs) : refs[k].owner # p
  BY <1>2, <1>3, <1>7 DEF IsWhole
<1>11. ~ \E a \in DOMAIN own : all[m] = own[a]
  <2> SUFFICES ASSUME NEW a \in DOMAIN own, all[m] = own[a] PROVE FALSE
    OBVIOUS
  <2>1. \E k \in 1 .. Len(refs) : refs[k] = link
    BY <1>1, <1>2, <1>4, <1>6, <1>9, Asked
  <2>2. QED
    BY <1>9, <1>10, <2>1
<1>12. all[m] = LastOf(x, o)
  BY <1>6, <1>11 DEF IsWhole
<1>13. ASSUME NEW k \in 1 .. Len(refs) PROVE refs[k].owner # q
  <2> SUFFICES ASSUME refs[k].owner = q PROVE FALSE
    OBVIOUS
  <2>1. refs[k].other = p
    BY DEF IsWhole, OnlyTo
  <2>2. w \in IdsOf(all)
    BY <1>2, <1>7, <2>1 DEF IsWhole
  <2>3. QED
    BY <1>3, <2>2
<1>14. batch[m].obj.pts[j] = all[m].obj.pts[j]
  <2>1. batch = UpdateObjects(all, refs)
    BY DEF IsUpdated
  <2>2. NotFollowed(refs, EndOf(x, j))
    BY <1>1, <1>13 DEF NotFollowed
  <2>3. all[m].id = x /\ all[m].change # "Delete"
    BY <1>6
  <2>4. QED
    BY <1>5, <1>6, <2>1, <2>2, <2>3, BatchEndKept
<1>15. QED
  BY <1>6, <1>12, <1>14

\* What a concatenation has.
LEMMA Gathered ==
    ASSUME NEW s, NEW t, IsSequence(s), IsSequence(t)
    PROVE  Gathers(s \o t, s, t)
<1>1. PICK u : u = s \o t
  OBVIOUS
<1>2. Gathers(u, s, t)
  BY <1>1, Concatenated
<1>3. QED
  BY <1>1, <1>2

\* What is updated, by the state at the offset.
LEMMA WholeIs ==
    ASSUME RequestInv, TypeInv, NEW n \in stored .. Len(log), NEW call, CallOK(call), CallTyped(call),
           FoundAll(call), call.pc = "found", ~ call.stale,
           NEW o \in -1 .. Newest, o = call.offset, NEW wanted, wanted = GetObjIdsToFetch(call),
           wanted = {} \/ n > o,
           NEW fetched, IsFetched(fetched, wanted, o, n),
           NEW own, own = call.changes, NEW refs, refs = call.refs,
           NEW all, all = own \o fetched, AreTyped(all), AreApart(all)
    PROVE  IsWhole(own, all, refs, o)
<1>1. /\ LogOK /\ n \in Nat /\ n <= Len(log) /\ Len(log) \in Nat /\ Newest = Len(log) - 1
      /\ Newest \in Int /\ o \in Int
  BY ReadIs, LogIs DEF RequestInv
<1>2. AreChanges(fetched) /\ \A x \in wanted : GetObject(x, o, n) # None =>
                                \E k \in DOMAIN fetched : fetched[k] = GetObject(x, o, n)
  BY <1>1, FetchedIs
<1>3. /\ AreTyped(fetched)
      /\ \A k \in DOMAIN fetched : fetched[k].id \in wanted /\ fetched[k] = GetObject(fetched[k].id, o, n)
  BY FetchedTyped
<1>4. AreTyped(own) /\ IsSequence(own) /\ IsSequence(fetched) /\ Len(refs) \in Nat
  BY <1>2 DEF CallTyped, CallOK, AreChanges
<1>0. Gathers(all, own, fetched)
  BY <1>4, Gathered
<1>5. \A a \in DOMAIN own : AreAsked(own[a], ExtractInfo(own))
  <2>1. Len(own) \in Nat /\ DOMAIN own = 1 .. Len(own)
    BY <1>4, SequenceIs
  <2>2. QED
    BY <1>4, <2>1, InfoIs
<1>6. ASSUME NEW x \in wanted PROVE GetObject(x, o, n) = LastOf(x, o)
  <2>1. n > o
    BY <1>6
  <2>2. \A y : GetObject(y, o, n) = LastOf(y, o)
    BY <1>1, <2>1, AnswersAlike
  <2>3. QED
    BY <2>2
<1>7. ASSUME NEW k \in DOMAIN all
      PROVE  (\E a \in DOMAIN own : all[k] = own[a]) \/ all[k] = LastOf(all[k].id, o)
  <2>1. (\E a \in DOMAIN own : all[k] = own[a]) \/ \E a \in DOMAIN fetched : all[k] = fetched[a]
    BY <1>0 DEF Gathers
  <2>2. ASSUME NEW a \in DOMAIN fetched, all[k] = fetched[a] PROVE all[k] = LastOf(all[k].id, o)
    <3>1. PICK x : x = fetched[a].id
      OBVIOUS
    <3>2. x \in wanted /\ fetched[a] = GetObject(x, o, n)
      BY <1>3, <3>1
    <3>3. fetched[a] = LastOf(x, o)
      BY <1>6, <3>2
    <3>4. QED
      BY <2>2, <3>1, <3>3
  <2>3. QED
    BY <2>1, <2>2
<1>8. ASSUME NEW x \in IdsOf(own) \cup wanted, LastOf(x, o) # None PROVE x \in IdsOf(all)
  <2>1. CASE x \in IdsOf(own)
    <3>1. PICK a \in DOMAIN own : x = own[a].id
      BY <2>1 DEF IdsOf
    <3>2. PICK k \in DOMAIN all : all[k] = own[a]
      BY <1>0, <3>1 DEF Gathers
    <3>3. QED
      BY <3>1, <3>2 DEF IdsOf
  <2>2. CASE x \in wanted
    <3>1. GetObject(x, o, n) # None
      BY <1>6, <1>8, <2>2
    <3>2. PICK a \in DOMAIN fetched : fetched[a] = GetObject(x, o, n)
      BY <1>2, <2>2, <3>1
    <3>3. fetched[a].id = x
      BY <3>1, <3>2, FoundTyped
    <3>4. PICK k \in DOMAIN all : all[k] = fetched[a]
      BY <1>0, <3>2 DEF Gathers
    <3>5. QED
      BY <3>3, <3>4 DEF IdsOf
  <2>3. QED
    BY <1>8, <2>1, <2>2
<1>9. /\ refs \in Seq(Deps(o)) /\ DOMAIN refs = 1 .. Len(refs)
      /\ \A ref \in Deps(o) : ref.other \in Range(ExtractInfo(own)) /\ ref.owner # ref.other =>
             ref \in Range(refs)
  <2>1. /\ refs \in Seq(Deps(o))
        /\ \A ref \in Deps(o) : ref.other \in Range(ExtractInfo(own)) /\ ref.owner # ref.other =>
              ref \in Range(refs)
    BY DEF FoundAll
  <2>2. QED
    BY <2>1, LenProperties
<1>10. Deps(o) \in SUBSET Links
  <2>1. PICK len \in 0 .. Len(log) : len = Len(log)
    BY <1>1
  <2>2. len \in Nat /\ len > o
    BY <1>1, <2>1
  <2>3. Dependencies(o, len) = Deps(o)
    BY <1>1, <2>2, AnswersAlike
  <2>4. QED
    BY <2>3, DependenciesTyped
<1>11. ASSUME NEW k \in 1 .. Len(refs)
       PROVE  /\ refs[k] \in Links /\ refs[k] \in Deps(o)
              /\ LastOf(refs[k].owner.id, o) # None => refs[k].owner.id \in IdsOf(all)
              /\ LastOf(refs[k].other.id, o) # None => refs[k].other.id \in IdsOf(all)
  <2>1. PICK ref : ref = refs[k]
    OBVIOUS
  <2>2. ref \in Deps(o) /\ ref \in Range(refs)
    <3>1. refs \in [1 .. Len(refs) -> Deps(o)]
      BY <1>9, LenProperties
    <3>2. QED
      BY <2>1, <3>1 DEF Range
  <2>3. ref.owner.id \in IdsOf(own) \cup wanted /\ ref.other.id \in IdsOf(own) \cup wanted
    BY <2>2 DEF GetObjIdsToFetch
  <2>4. ref \in Links
    BY <1>10, <2>2
  <2>5. QED
    BY <1>8, <2>1, <2>2, <2>3, <2>4
<1>12. \A ref \in Deps(o) : ref.other \in Range(ExtractInfo(own)) /\ ref.owner # ref.other =>
           \E k \in 1 .. Len(refs) : refs[k] = ref
  BY <1>9 DEF Range
<1>13. QED
  BY <1>4, <1>5, <1>7, <1>11, <1>12 DEF IsWhole

\* update_objects of what was found: the ends of the batch agree.
LEMMA UpdatedAgrees ==
    ASSUME LogOK, AreTyped(log), NEW o \in -1 .. Newest,
           NEW own, NEW all, NEW refs, IsWhole(own, all, refs, o), AllAgree(own, o),
           \A w, v : IsClean(w) /\ IsClean(v) => Agree(o, w, v),
           NEW call, call.offset = o, NEW batch, batch = call.batch, IsUpdated(all, refs, batch)
    PROVE  BatchAgrees(call)
<1>1. ASSUME NEW m \in DOMAIN batch, NEW n \in DOMAIN batch,
             IsClean(batch[m].id), IsClean(batch[n].id)
      PROVE  EndsAgree(batch[m], batch[n], batch[m].id, batch[n].id, Deps(o))
  <2>1. PICK w, v : w = batch[m].id /\ v = batch[n].id
    OBVIOUS
  <2>2. Agree(o, w, v) /\ IsClean(w) /\ IsClean(v)
    BY <1>1, <2>1
  <2>3. \A i, j \in 1 .. 2 : AreJoined(batch[m], i, batch[n], j, w, v, Deps(o)) =>
            SameInfo(batch[m], i, batch[n], j)
    BY <2>1, <2>2, BatchAgreed
  <2>4. QED
    BY <2>1, <2>3 DEF EndsAgree
<1>2. BatchJoins(call)
  BY <1>1 DEF BatchJoins
<1>3. ASSUME NEW m \in DOMAIN batch, NEW w \in Walls \ IdsOf(batch), NEW i \in 1 .. 2, NEW j \in 1 .. 2,
             IsClean(batch[m].id)
      PROVE  IsKept(batch[m], i, LastOf(w, o), j, batch[m].id, w, Deps(o), LastOf(batch[m].id, o))
  <2>1. PICK x \in Walls : x = batch[m].id
    BY <1>3 DEF IsClean
  <2>2. IsKept(batch[m], i, LastOf(w, o), j, x, w, Deps(o), LastOf(x, o))
    BY <1>3, <2>1, BatchKept
  <2>3. QED
    BY <2>1, <2>2
<1>4. BatchKeeps(call)
  BY <1>3, SMTT(30) DEF BatchKeeps
<1>5. QED
  BY <1>2, <1>4 DEF BatchAgrees

\* The objects that follow are added, and the batch is updated.
LEMMA UpdateJoins ==
    ASSUME RequestInv, RequestInv', TypeInv, JoinInv, NEW c \in Client, UpdateChanges(c)
    PROVE  JoinInv'
<1>1. PICK call : call = req[c]
  OBVIOUS
<1>2. /\ LogOK /\ DOMAIN req = Client /\ call \in Range(req) /\ CallOK(call) /\ CallTyped(call)
      /\ CallAgrees(call) /\ StaysLast(call)
  BY <1>1, Mine
<1>3. PICK n \in stored .. Len(log) :
          /\ call.pc = "found"
          /\ \E order \in SetToSeqs({x \in GetObjIdsToFetch(req[c]) :
                                         GetObject(x, req[c].offset, n) # None}) :
                \E batch :
                   /\ batch = UpdateObjects(req[c].changes \o
                                 [i \in DOMAIN order |-> GetObject(order[i], req[c].offset, n)],
                                 req[c].refs)
                   /\ req' = [req EXCEPT
                         ![c].pc = "sending", ![c].changes = << >>, ![c].refs = << >>,
                         ![c].batch = batch, ![c].unsent = DOMAIN batch,
                         ![c].at = [i \in DOMAIN batch |-> -1],
                         ![c].stale = @ \/ (GetObjIdsToFetch(req[c]) # {} /\ n <= req[c].offset)]
          /\ log' = log /\ disturbed' = disturbed /\ crossed' = crossed /\ split' = split
  BY <1>1, ZenonT(30) DEF UpdateChanges
<1>4. PICK o, wanted : o = call.offset /\ wanted = GetObjIdsToFetch(call)
  OBVIOUS
<1>5. o \in -1 .. Newest /\ o \in Int /\ n \in Nat
  <2>1. o \in -1 .. Newest /\ Newest \in Int
    BY <1>2, <1>4, LogIs DEF CallOK
  <2>2. n \in Nat
    BY <1>3, ReadIs, Zenon
  <2>3. QED
    BY <2>1, <2>2
<1>6. PICK ids : ids = {x \in wanted : GetObject(x, o, n) # None}
  OBVIOUS
<1>7. ids = {x \in GetObjIdsToFetch(req[c]) : GetObject(x, req[c].offset, n) # None}
  BY <1>1, <1>4, <1>6
<1>8. PICK order \in SetToSeqs(ids) :
          \E batch :
              /\ batch = UpdateObjects(req[c].changes \o
                            [i \in DOMAIN order |-> GetObject(order[i], req[c].offset, n)],
                            req[c].refs)
              /\ req' = [req EXCEPT
                    ![c].pc = "sending", ![c].changes = << >>, ![c].refs = << >>,
                    ![c].batch = batch, ![c].unsent = DOMAIN batch,
                    ![c].at = [i \in DOMAIN batch |-> -1],
                    ![c].stale = @ \/ (GetObjIdsToFetch(req[c]) # {} /\ n <= req[c].offset)]
  BY <1>3, <1>7, Zenon
<1>9. PICK fetched : fetched = [i \in DOMAIN order |-> GetObject(order[i], o, n)]
  OBVIOUS
<1>10. IsFetched(fetched, wanted, o, n)
  BY <1>6, <1>8, <1>9, Zenon DEF IsFetched
<1>11. /\ AreChanges(fetched) /\ AreTyped(fetched) /\ AreApart(fetched)
       /\ \A i \in DOMAIN fetched : fetched[i].id \in wanted
  <2>1. n <= Len(log)
    BY ReadIs
  <2>2. AreChanges(fetched)
    BY <1>2, <1>5, <1>10, <2>1, FetchedIs
  <2>3. QED
    BY <1>5, <1>10, <2>2, FetchedTyped
<1>12. PICK late : late = (wanted # {} /\ n <= o)
  BY SMTT(30)
<1>13. PICK batch :
          /\ batch = UpdateObjects(call.changes \o fetched, call.refs)
          /\ req' = [req EXCEPT
                ![c].pc = "sending", ![c].changes = << >>, ![c].refs = << >>,
                ![c].batch = batch, ![c].unsent = DOMAIN batch,
                ![c].at = [i \in DOMAIN batch |-> -1], ![c].stale = @ \/ late]
  BY <1>1, <1>4, <1>8, <1>9, <1>12, Zenon
<1>14. PICK own, all, refs : own = call.changes /\ all = own \o fetched /\ refs = call.refs
  OBVIOUS
<1>15. \A i \in DOMAIN fetched : fetched[i].id \notin IdsOf(own)
  BY <1>4, <1>11, <1>14 DEF GetObjIdsToFetch
<1>16. AreChanges(own) /\ AreTyped(own) /\ AreApart(own) /\ Len(refs) \in Nat
  BY <1>2, <1>14 DEF CallOK, CallTyped
<1>17. AreChanges(all) /\ AreTyped(all) /\ AreApart(all)
  BY <1>11, <1>14, <1>15, <1>16, ConcatTyped
<1>18. batch = UpdateObjects(all, refs)
  BY <1>13, <1>14
<1>19. IsUpdated(all, refs, batch)
  <2>1. AreTyped(batch)
    BY <1>16, <1>17, <1>18, ChangesUpdated
  <2>2. DOMAIN batch = DOMAIN all /\ \A k \in DOMAIN all : batch[k].change = all[k].change
                                                           /\ batch[k].id = all[k].id
    BY <1>17, <1>18, UpdatedKeeps
  <2>3. QED
    BY <1>18, <2>1, <2>2 DEF IsUpdated
<1>20. PICK after : after = [call EXCEPT
           !.pc = "sending", !.changes = << >>, !.refs = << >>, !.batch = batch,
           !.unsent = DOMAIN batch, !.at = [i \in DOMAIN batch |-> -1], !.stale = @ \/ late]
  OBVIOUS
<1>21. req' = [req EXCEPT ![c] = after]
  BY <1>1, <1>13, <1>20
<1>22. /\ after.pc = "sending" /\ after.offset = o /\ after.stale = (call.stale \/ late)
       /\ after.batch = batch /\ \A k \in DOMAIN after.at : after.at[k] = -1
  BY <1>2, <1>4, <1>20 DEF CallOK, CallFields
<1>23. InTime(after) => InTime(call)
  BY <1>3, <1>22, Zenon DEF InTime
<1>24. ~ Doomed(call) /\ \A p, w, v : ~ IsParted(call, p, w, v)
  BY <1>3, Zenon DEF Doomed, IsParted
<1>25. AllBehind(after)
  BY <1>2, <1>4, <1>22, <1>23 DEF AllBehind, Behind, JoinInv, PartsBehind
<1>26. PartsFrom(call, after) /\ StaysLast(after) /\ PartsSplit(after)
  BY <1>22 DEF PartsFrom, StaysLast, PartsSplit
<1>27. StartsAgreed(after)
  BY <1>2, <1>4, <1>22, <1>23 DEF CallAgrees, StartsAgreed
<1>28. ASSUME ~ after.stale PROVE BatchAgrees(after)
  <2>1. ~ call.stale /\ ~ late
    BY <1>22, <1>28
  <2>2. wanted = {} \/ n > o
    <3>1. wanted = {} \/ ~ (n <= o)
      BY <1>12, <2>1
    <3>2. QED
      BY <1>5, <3>1
  <2>3. IsWhole(own, all, refs, o)
    <3>1. FoundAll(call)
      BY <1>2 DEF CallAgrees
    <3>2. QED
      BY <1>2, <1>3, <1>4, <1>5, <1>10, <1>14, <1>17, <2>1, <2>2, <3>1, WholeIs, Zenon
  <2>4. AllAgree(own, o)
    BY <1>2, <1>3, <1>4, <1>14, <2>1, Zenon DEF CallAgrees, ChangesAgree
  <2>5. \A w, v : IsClean(w) /\ IsClean(v) => Agree(o, w, v)
    BY <1>22, <1>27, <1>28 DEF StartsAgreed, InTime
  <2>6. AreTyped(log)
    BY DEF TypeInv
  <2>7. QED
    BY <1>2, <1>5, <1>19, <1>22, <2>3, <2>4, <2>5, <2>6, UpdatedAgrees
<1>29. CallAgrees(after)
  <2>1. BatchAgrees(after)
    BY <1>28 DEF BatchAgrees
  <2>2. ChangesAgree(after) /\ FoundAll(after) /\ BeforeAgrees(after)
    BY <1>22 DEF ChangesAgree, FoundAll, BeforeAgrees
  <2>3. QED
    BY <1>26, <1>27, <2>1, <2>2 DEF CallAgrees
<1>30. QED
  BY <1>1, <1>3, <1>21, <1>24, <1>25, <1>26, <1>29, QuietCall, ZenonT(30)

-----------------------------------------------------------------------------
(* Joined ends: the delivery of a message *)

\* The ids of what a change refers to.
ReferredBy(change) ==
    IF change.change = "Delete" THEN {}
    ELSE {GetRefs(change.obj)[n].other.id : n \in Some(GetRefs(change.obj))}

\* What the i-th message of a batch refers to outside of it was not written since
\* the offset of the batch, unless the message's object is tainted.
IsFresh(call, i) ==
    IsClean(call.batch[i].id) =>
        \A k \in call.offset + 1 .. Newest - 1 :
            MessageAt(k).id \notin ReferredBy(call.batch[i]) \ IdsOf(call.batch)
\* Before the newest message the walls that it is not of agreed.
OthersAgree(call, i) ==
    \A p : p = Newest => \A w, v :
        /\ IsClean(w) /\ IsClean(v)
        /\ w # call.batch[i].id /\ v # call.batch[i].id
        /\ w \notin IdsOf(call.batch) \/ v \notin IdsOf(call.batch)
        => PartedAt(p, w, v) \/ \A o : o = p - 1 => Agree(o, w, v)
\* The messages of a batch that are there are the last of their objects.
AreLast(call) ==
    \A n \in DOMAIN call.at : call.at[n] # -1 =>
        Untouched(call.batch[n].id, call.at[n], Newest) \/ Tainted(call.batch[n].id)
\* The state right after the i-th message of a batch was delivered.
JustSent(call, i) ==
    /\ LogOK /\ AreTyped(log) /\ Newest \in Int
    /\ CallOK(call) /\ CallAgrees(call) /\ AreTyped(call.batch)
    /\ call.pc = "sending" /\ i \in DOMAIN call.at /\ call.at[i] = Newest /\ call.at[i] # -1
    /\ AreLast(call) /\ IsFresh(call, i) /\ OthersAgree(call, i)

\* A message of a batch is the last of its object, which the batch alone wrote
\* since its offset.
LEMMA SentLast ==
    ASSUME NEW call \in Range(req), NEW f, JustSent(call, f), NEW a \in DOMAIN call.batch,
           call.at[a] # -1, NEW w, w = call.batch[a].id, IsClean(w), NEW o, o = call.offset
    PROVE  /\ ~ Doomed(call) /\ o \in -1 .. Newest /\ w \in Walls /\ o <= Newest
           /\ LastOf(w, Newest) = call.batch[a]
           /\ \A i \in 1 .. 2 : \A q : /\ q # None /\ Refers(call.batch[a], i, q)
                                       /\ OnlyTo(Deps(Newest), EndOf(w, i), q)
                                       => OnlyTo(Deps(o), EndOf(w, i), q)
<1>1. /\ LogOK /\ AreTyped(log) /\ Newest \in Int /\ CallOK(call) /\ call.pc = "sending"
      /\ a \in DOMAIN call.at
  BY DEF JustSent, CallOK
<1>2. PICK k : k = call.at[a]
  OBVIOUS
<1>3. /\ k \in 0 .. Newest /\ k - 1 \in -1 .. Newest /\ o <= k - 1 /\ o \in -1 .. Newest
      /\ MessageAt(k) = call.batch[a]
  BY <1>1, <1>2, SentAt
<1>4. w \in Walls /\ ~ Tainted(w) /\ w \in IdsOf(call.batch)
  BY DEF IsClean, IdsOf
<1>5. ~ Doomed(call)
  BY <1>4 DEF Tainted
<1>6. Untouched(w, o, k - 1)
  <2>1. ~ Overwritten(call)
    BY <1>1, <1>5 DEF Doomed
  <2>2. LastChance(call, a) = k - 1
    BY <1>2 DEF LastChance
  <2>3. QED
    BY <2>1, <2>2 DEF Overwritten
<1>7. Untouched(w, k, Newest)
  BY <1>1, <1>2, <1>4 DEF JustSent, AreLast
<1>8. k \in -1 .. Newest /\ k <= Newest /\ o < k /\ o <= Newest /\ Newest \in -1 .. Newest
  BY <1>1, <1>3
<1>9. LastOf(w, Newest) = call.batch[a]
  <2>1. LastOf(w, Newest) = LastOf(w, k)
    BY <1>1, <1>7, <1>8, UntouchedKept
  <2>2. LastOf(w, k) = MessageAt(k)
    BY <1>1, <1>3, LastGrows
  <2>3. QED
    BY <1>3, <2>1, <2>2
<1>10. ASSUME NEW i \in 1 .. 2, NEW q, q # None, Refers(call.batch[a], i, q),
              OnlyTo(Deps(Newest), EndOf(w, i), q)
       PROVE  OnlyTo(Deps(o), EndOf(w, i), q)
  <2>1. Refers(MessageAt(k), i, q) /\ MessageAt(k).id = w
    BY <1>3, <1>10
  <2>2. PICK p \in -1 .. Newest : p = Newest
    BY <1>8
  <2>3. OnlyTo(Deps(p), EndOf(w, i), q) /\ Untouched(w, k, p) /\ k <= p
    BY <1>7, <1>8, <1>10, <2>2
  <2>4. QED
    BY <1>1, <1>3, <1>4, <1>6, <1>8, <1>10, <2>1, <2>3, OnlyBefore
<1>11. QED
  BY <1>3, <1>4, <1>5, <1>8, <1>9, <1>10

\* A batch that is all there agrees.
LEMMA SentAgrees ==
    ASSUME NEW call \in Range(req), NEW f, JustSent(call, f), call.unsent = {},
           NEW a \in DOMAIN call.batch, NEW b \in DOMAIN call.batch,
           NEW w, w = call.batch[a].id, IsClean(w), NEW v, v = call.batch[b].id, IsClean(v)
    PROVE  Agree(Newest, w, v)
<1>1. PICK o, m, n : o = call.offset /\ m = call.batch[a] /\ n = call.batch[b]
  OBVIOUS
<1>2. call.pc = "sending" /\ ~ Doomed(call)
  <2>1. w \in IdsOf(call.batch) /\ ~ Tainted(w)
    BY DEF IdsOf, IsClean
  <2>2. QED
    BY <2>1 DEF Tainted, JustSent
<1>3. call.at[a] # -1 /\ call.at[b] # -1 /\ ~ call.stale
  BY <1>2 DEF Doomed, Missed
<1>4. /\ w \in Walls /\ LastOf(w, Newest) = m
      /\ \A i \in 1 .. 2 : \A q : /\ q # None /\ Refers(m, i, q)
                                  /\ OnlyTo(Deps(Newest), EndOf(w, i), q)
                                  => OnlyTo(Deps(o), EndOf(w, i), q)
  BY <1>1, <1>3, SentLast
<1>5. /\ v \in Walls /\ LastOf(v, Newest) = n
      /\ \A i \in 1 .. 2 : \A q : /\ q # None /\ Refers(n, i, q)
                                  /\ OnlyTo(Deps(Newest), EndOf(v, i), q)
                                  => OnlyTo(Deps(o), EndOf(v, i), q)
  BY <1>1, <1>3, SentLast
<1>6. EndsAgree(m, n, w, v, Deps(o))
  <2>1. BatchJoins(call)
    BY <1>2, <1>3 DEF JustSent, CallAgrees, BatchAgrees
  <2>2. QED
    BY <1>1, <2>1 DEF BatchJoins
<1>7. ASSUME NEW i \in 1 .. 2, NEW j \in 1 .. 2, AreJoined(m, i, n, j, w, v, Deps(Newest))
      PROVE  SameInfo(m, i, n, j)
  <2>1. PICK p, q : p = EndOf(w, i) /\ q = EndOf(v, j)
    OBVIOUS
  <2>2. /\ Refers(m, i, q) /\ Refers(n, j, p) /\ p # None /\ q # None
        /\ OnlyTo(Deps(Newest), EndOf(w, i), q) /\ OnlyTo(Deps(Newest), EndOf(v, j), p)
    BY <1>4, <1>5, <1>7, <2>1, EndsArePieces DEF AreJoined
  <2>3. OnlyTo(Deps(o), EndOf(w, i), q) /\ OnlyTo(Deps(o), EndOf(v, j), p)
    BY <1>4, <1>5, <2>2
  <2>4. AreJoined(m, i, n, j, w, v, Deps(o))
    BY <2>1, <2>2, <2>3 DEF AreJoined
  <2>5. QED
    BY <1>6, <2>4 DEF EndsAgree
<1>8. EndsAgree(m, n, w, v, Deps(Newest))
  BY <1>7 DEF EndsAgree
<1>9. QED
  BY <1>4, <1>5, <1>8 DEF Agree

\* What a message refers to outside of its batch was not written since it was
\* read, and agrees with it as before.
LEMMA OutsideAgrees ==
    ASSUME NEW call \in Range(req), NEW f, JustSent(call, f),
           NEW w, w = call.batch[f].id, IsClean(w), NEW v, v \notin IdsOf(call.batch), IsClean(v)
    PROVE  Agree(Newest, w, v)
<1>1. PICK o, m : o = call.offset /\ m = call.batch[f]
  OBVIOUS
<1>2. /\ f \in DOMAIN call.batch /\ call.at[f] # -1 /\ call.at[f] = Newest /\ CallOK(call) /\ LogOK
      /\ AreTyped(log) /\ call.pc = "sending" /\ Newest \in Int /\ f \in DOMAIN call.at
      /\ IsTyped(m) /\ MessageAt(Newest) = m
  <2>1. /\ f \in DOMAIN call.batch /\ CallOK(call) /\ LogOK /\ call.at[f] # -1 /\ f \in DOMAIN call.at
    BY DEF JustSent, CallOK
  <2>2. MessageAt(call.at[f]) = m
    BY <1>1, <2>1, SentAt
  <2>3. QED
    BY <1>1, <2>1, <2>2 DEF JustSent, AreTyped
<1>3. /\ ~ Doomed(call) /\ w \in Walls /\ o \in -1 .. Newest /\ o <= Newest /\ LastOf(w, Newest) = m
      /\ \A i \in 1 .. 2 : \A q : /\ q # None /\ Refers(m, i, q)
                                  /\ OnlyTo(Deps(Newest), EndOf(w, i), q)
                                  => OnlyTo(Deps(o), EndOf(w, i), q)
  BY <1>1, <1>2, SentLast
<1>4. v \in Walls /\ v # w
  BY <1>2 DEF IsClean, IdsOf
<1>5. StartsAgreed(call) /\ BatchKeeps(call) /\ InTime(call)
  BY <1>2, <1>3 DEF JustSent, CallAgrees, BatchAgrees, Doomed, InTime
<1>6. ASSUME NEW i \in 1 .. 2, NEW j \in 1 .. 2,
             AreJoined(m, i, LastOf(v, Newest), j, w, v, Deps(Newest))
      PROVE  SameInfo(m, i, LastOf(v, Newest), j)
  <2>1. PICK p, q, n : p = EndOf(w, i) /\ q = EndOf(v, j) /\ n = LastOf(v, Newest)
    OBVIOUS
  <2>2. /\ Refers(m, i, q) /\ Refers(n, j, p) /\ p # None /\ q # None /\ q.id = v
        /\ OnlyTo(Deps(Newest), EndOf(w, i), q) /\ OnlyTo(Deps(Newest), EndOf(v, j), p)
    BY <1>3, <1>4, <1>6, <2>1, EndsArePieces DEF AreJoined
  <2>3. v \in ReferredBy(m)
    <3>1. PICK obj, refs : obj = m.obj /\ refs = GetRefs(obj)
      OBVIOUS
    <3>2. m.change # "Delete" /\ obj.pts[i].refer = q
      BY <2>2, <3>1 DEF Refers, IsObject
    <3>3. Fits(w, obj) /\ w \in Obj
      BY <1>1, <1>2, <1>3, <3>1, <3>2 DEF IsTyped, Obj
    <3>4. i \in Some(refs) /\ refs[i] = Reference(p, q)
      BY <1>3, <2>1, <2>2, <3>1, <3>2, <3>3, OwnRefs DEF EndSlots
    <3>5. refs[i].other.id = v
      BY <2>2, <3>4 DEF Reference
    <3>6. QED
      BY <3>1, <3>2, <3>4, <3>5 DEF ReferredBy
  <2>4. Untouched(v, o, Newest)
    <3>1. \A k \in o + 1 .. Newest - 1 : MessageAt(k).id # v
      BY <1>1, <2>3 DEF JustSent, IsFresh
    <3>2. MessageAt(Newest).id # v
      BY <1>1, <1>2, <1>4
    <3>3. o \in Int
      BY <1>2, <1>3
    <3>4. \A k \in o + 1 .. Newest : k \in o + 1 .. Newest - 1 \/ k = Newest
      BY <1>2, <3>3
    <3>5. QED
      BY <3>1, <3>2, <3>4 DEF Untouched
  <2>5. n = LastOf(v, o) /\ OnlyTo(Deps(o), EndOf(v, j), p) /\ OnlyTo(Deps(o), EndOf(w, i), q)
    <3>1. Newest \in -1 .. Newest
      BY <1>2, <1>3
    <3>2. /\ LastOf(v, Newest) = LastOf(v, o)
          /\ \A l \in 1 .. 2 : \A r : OnlyTo(Deps(Newest), EndOf(v, l), r) <=> OnlyTo(Deps(o), EndOf(v, l), r)
      BY <1>2, <1>3, <1>4, <2>4, <3>1, EndsKept
    <3>3. QED
      BY <1>3, <2>1, <2>2, <3>2
  <2>6. PICK old : old = LastOf(w, o)
    OBVIOUS
  <2>7. IsKept(m, j, n, i, w, v, Deps(o), old)
    BY <1>1, <1>2, <1>4, <1>5, <2>5, <2>6 DEF BatchKeeps
  <2>8. Refers(old, i, q) /\ old.obj.pts[i] = m.obj.pts[i]
    BY <2>1, <2>2, <2>5, <2>7 DEF IsKept
  <2>9. EndsAgree(old, n, w, v, Deps(o))
    BY <1>1, <1>5, <2>5, <2>6 DEF StartsAgreed, Agree
  <2>10. AreJoined(old, i, n, j, w, v, Deps(o))
    BY <2>1, <2>2, <2>5, <2>8 DEF AreJoined
  <2>11. SameInfo(old, i, n, j)
    BY <2>9, <2>10 DEF EndsAgree
  <2>12. QED
    BY <2>1, <2>8, <2>11 DEF SameInfo
<1>7. EndsAgree(m, LastOf(v, Newest), w, v, Deps(Newest))
  BY <1>6 DEF EndsAgree
<1>8. QED
  BY <1>3, <1>7 DEF Agree

\* Walls that are not written agree as before.
LEMMA QuietAgree ==
    ASSUME LogOK, AreTyped(log), Newest \in 0 .. Newest, NEW w \in Walls, NEW v \in Walls,
           MessageAt(Newest).id # w, MessageAt(Newest).id # v, Agree(Newest - 1, w, v)
    PROVE  Agree(Newest, w, v)
<1>1. PICK o, p : o = Newest - 1 /\ p = Newest
  OBVIOUS
<1>2. Newest \in Int
  BY LogIs
<1>3. o \in -1 .. Newest /\ p \in -1 .. Newest /\ o <= p /\ \A k \in o + 1 .. p : k = Newest
  BY <1>1, <1>2
<1>4. Untouched(w, o, p) /\ Untouched(v, o, p)
  BY <1>3 DEF Untouched
<1>5. /\ LastOf(w, p) = LastOf(w, o)
      /\ \A i \in 1 .. 2 : \A q : OnlyTo(Deps(p), EndOf(w, i), q) <=> OnlyTo(Deps(o), EndOf(w, i), q)
  BY <1>3, <1>4, EndsKept
<1>6. /\ LastOf(v, p) = LastOf(v, o)
      /\ \A i \in 1 .. 2 : \A q : OnlyTo(Deps(p), EndOf(v, i), q) <=> OnlyTo(Deps(o), EndOf(v, i), q)
  BY <1>3, <1>4, EndsKept
<1>7. Agree(o, w, v)
  BY <1>1
<1>8. Agree(p, w, v)
  BY <1>5, <1>6, <1>7 DEF Agree, EndsAgree, AreJoined
<1>9. QED
  BY <1>1, <1>8

\* Agreeing is mutual.
LEMMA AgreeEither ==
    ASSUME NEW o, NEW w, NEW v, Agree(o, w, v)
    PROVE  Agree(o, v, w)
  BY DEF Agree, EndsAgree, AreJoined, SameInfo

\* What a delivery leaves is parted or agrees.
NewestAgrees ==
    \A call \in Range(req) : \A f : JustSent(call, f) =>
        \A p : p = Newest => \A w, v :
            IsClean(w) /\ IsClean(v) => PartedAt(p, w, v) \/ Agree(p, w, v)

\* It does, in every state.
LEMMA NewestDoes == NewestAgrees
<1> SUFFICES ASSUME NEW call \in Range(req), NEW f, JustSent(call, f),
                    NEW w, NEW v, IsClean(w), IsClean(v), ~ PartedAt(Newest, w, v)
             PROVE  Agree(Newest, w, v)
  BY DEF NewestAgrees
<1>1. PICK x : x = call.batch[f].id
  OBVIOUS
<1>2. /\ LogOK /\ AreTyped(log) /\ Newest \in Int /\ CallOK(call) /\ f \in DOMAIN call.at
      /\ f \in DOMAIN call.batch /\ call.at[f] # -1 /\ call.at[f] = Newest
      /\ w \in Walls /\ v \in Walls /\ call.pc = "sending"
  BY DEF JustSent, CallOK, IsClean
<1>3. Newest \in 0 .. Newest /\ MessageAt(Newest).id = x
  BY <1>1, <1>2, SentAt
<1>4. CASE w \in IdsOf(call.batch) /\ v \in IdsOf(call.batch)
  <2>1. call.unsent = {}
    BY <1>2, <1>4 DEF PartedAt, IsParted
  <2>2. PICK a \in DOMAIN call.batch, b \in DOMAIN call.batch :
            w = call.batch[a].id /\ v = call.batch[b].id
    BY <1>4 DEF IdsOf
  <2>3. QED
    BY <2>1, <2>2, SentAgrees
<1>5. CASE w = x /\ v \notin IdsOf(call.batch)
  BY <1>1, <1>5, OutsideAgrees
<1>6. CASE v = x /\ w \notin IdsOf(call.batch)
  <2>1. Agree(Newest, v, w)
    BY <1>1, <1>6, OutsideAgrees
  <2>2. QED
    BY <2>1, AgreeEither
<1>7. CASE w # x /\ v # x /\ (w \notin IdsOf(call.batch) \/ v \notin IdsOf(call.batch))
  <2>1. Agree(Newest - 1, w, v)
    BY <1>1, <1>7 DEF JustSent, OthersAgree
  <2>2. QED
    BY <1>2, <1>3, <1>7, <2>1, QuietAgree
<1>8. x \in IdsOf(call.batch)
  BY <1>1, <1>2 DEF IdsOf
<1>9. QED
  BY <1>4, <1>5, <1>6, <1>7, <1>8

\* What the delivery of the i-th message, m, of a batch does; it is at k.
Sends(call, i, m, k, after) ==
    /\ k \in Nat /\ Newest = k - 1 /\ Newest' = k /\ log' = Append(log, m)
    /\ \A l \in 0 .. k - 1 : MessageAt(l)' = MessageAt(l)
    /\ MessageAt(k)' = m
    /\ LogOK /\ LogOK' /\ AreTyped(log)' /\ CallOK(after)'
    /\ call \in Range(req) /\ CallOK(call) /\ CallTyped(call) /\ CallAgrees(call) /\ StaysLast(call)
    /\ call.pc = "sending" /\ i \in call.unsent /\ call.at[i] = -1
    /\ i \in DOMAIN call.at /\ i \in DOMAIN call.batch /\ m = call.batch[i]
    /\ after.pc = "sending" /\ after.offset = call.offset /\ after.stale = call.stale
    /\ after.batch = call.batch /\ after.unsent = call.unsent \ {i}
    /\ DOMAIN after.at = DOMAIN call.at /\ after.at[i] = k
    /\ \A n \in DOMAIN call.at : n # i => after.at[n] = call.at[n]
    /\ after \in Range(req')
    /\ \A other \in Range(req') : other = after \/ other \in Range(req)
    /\ \A other \in Range(req) : other = call \/ other \in Range(req')
    /\ disturbed \subseteq disturbed' /\ crossed \subseteq crossed'
    /\ Crosses(call, i) => m.id \in crossed'
    /\ split \subseteq split'
    /\ \A l : l \in split' <=>
          l \in split \/ \E n \in DOMAIN call.at : call.at[n] # -1 /\ l \in call.at[n] .. k - 1

\* A request of which the i-th message was delivered, as number k.
AfterDelivery(call, i, k) == [call EXCEPT !.unsent = @ \ {i}, !.at[i] = k]

\* A delivery sends the message.
LEMMA SendsIs ==
    ASSUME RequestInv, RequestInv', TypeInv, TypeInv', JoinInv, NEW c \in Client,
           NEW i \in req[c].unsent, req[c].pc = "sending", Deliver(c, i),
           NEW call, call = req[c], NEW m, m = call.batch[i], NEW k, k = Len(log),
           NEW after, after = AfterDelivery(call, i, k)
    PROVE  Sends(call, i, m, k, after) /\ req' = [req EXCEPT ![c] = after]
<1>1. /\ LogOK /\ DOMAIN req = Client /\ call \in Range(req) /\ CallOK(call) /\ CallTyped(call)
      /\ CallAgrees(call) /\ StaysLast(call)
  BY Mine
<1>2. LogOK' /\ AreTyped(log)'
  BY DEF RequestInv, TypeInv, AreTyped
<1>3. call.pc = "sending" /\ i \in call.unsent /\ call.at[i] = -1
      /\ i \in DOMAIN call.at /\ i \in DOMAIN call.batch
  BY <1>1 DEF CallOK
<1>4. log' = Append(log, m) /\ req' = [req EXCEPT ![c] = after] /\ disturbed' = disturbed
  BY DEF Deliver, AfterDelivery
<1>5. /\ after.pc = "sending" /\ after.offset = call.offset /\ after.stale = call.stale
      /\ after.batch = call.batch /\ after.unsent = call.unsent \ {i}
      /\ after.at = [call.at EXCEPT ![i] = k]
  BY <1>1, <1>3 DEF CallOK, CallFields, AfterDelivery
<1>6. /\ DOMAIN after.at = DOMAIN call.at /\ after.at[i] = k
      /\ \A n \in DOMAIN call.at : n # i => after.at[n] = call.at[n]
  BY <1>3, <1>5
<1>7. /\ after \in Range(req')
      /\ \A other \in Range(req') : other = after \/ other \in Range(req)
      /\ \A other \in Range(req) : other = call \/ other \in Range(req')
  BY <1>1, <1>4, ReqIs
<1>8. CallOK(after)'
  BY <1>7 DEF RequestInv
<1>9. /\ Len(log) \in Nat /\ Newest = k - 1 /\ \A l \in 0 .. Newest : MessageAt(l)' = MessageAt(l)
  BY <1>1, <1>4, LogIs, LogGrows
<1>10. Newest' = k /\ MessageAt(k)' = m
  <2>1. Len(log') = Len(log) + 1 /\ log'[Len(log) + 1] = m
    BY <1>1, <1>4, AppendedTo DEF LogOK, AreChanges
  <2>2. Newest' = k
    BY <1>9, <2>1 DEF Newest
  <2>3. QED
    BY <2>1, <2>2 DEF MessageAt
<1>11. crossed \subseteq crossed' /\ (Crosses(call, i) => m.id \in crossed')
  BY DEF Deliver
<1>12. \A l : l \in split' <=>
          l \in split \/ \E n \in DOMAIN call.at : call.at[n] # -1 /\ l \in call.at[n] .. k - 1
  <2>1. PICK K, top : K = Range(call.at) \ {-1} /\ top = Newest
    OBVIOUS
  <2>2. split' = split \cup UNION {n .. top : n \in K}
    BY <2>1 DEF Deliver
  <2>3. \A l : l \in UNION {n .. top : n \in K} <=> \E n \in K : l \in n .. top
    OBVIOUS
  <2>4. \A l : (\E n \in K : l \in n .. top) <=>
               \E n \in DOMAIN call.at : call.at[n] # -1 /\ l \in call.at[n] .. top
    BY <2>1 DEF Range
  <2>5. top = k - 1
    BY <1>9, <2>1
  <2>6. QED
    BY <2>2, <2>3, <2>4, <2>5
<1>13. \A l \in 0 .. k - 1 : MessageAt(l)' = MessageAt(l)
  BY <1>9
<1>14. /\ k \in Nat /\ disturbed \subseteq disturbed' /\ split \subseteq split'
  BY <1>4, <1>9, <1>12
<1>15. QED
  BY <1>1, <1>2, <1>3, <1>4, <1>5, <1>6, <1>7, <1>8, <1>9, <1>10, <1>11, <1>12, <1>13, <1>14 DEF Sends

\* A request whose object another one wrote since its offset is doomed when its
\* own message is there.
LEMMA SentLate ==
    ASSUME NEW call, NEW i, NEW m, NEW k, NEW after, Sends(call, i, m, k, after),
           \/ call.stale
           \/ \E l \in call.offset + 1 .. k - 1 : MessageAt(l).id = m.id
    PROVE  Doomed(after)'
<1>1. /\ k \in Nat /\ Newest = k - 1 /\ Newest' = k /\ \A l \in 0 .. k - 1 : MessageAt(l)' = MessageAt(l)
      /\ CallOK(call) /\ i \in DOMAIN call.batch /\ m = call.batch[i]
      /\ after.pc = "sending" /\ after.offset = call.offset /\ after.stale = call.stale
      /\ after.batch = call.batch /\ after.at[i] = k
  BY DEF Sends
<1>2. CASE call.stale
  BY <1>1, <1>2 DEF Doomed
<1>3. CASE \E l \in call.offset + 1 .. k - 1 : MessageAt(l).id = m.id
  <2>1. PICK l \in call.offset + 1 .. k - 1 : MessageAt(l).id = m.id
    BY <1>3
  <2>2. call.offset \in Int /\ call.offset >= -1
    BY <1>1 DEF CallOK
  <2>3. l \in 0 .. k - 1
    BY <1>1, <2>2
  <2>4. MessageAt(l)'.id = m.id
    BY <1>1, <2>1, <2>3
  <2>5. LastChance(after, i)' = k - 1
    BY <1>1 DEF LastChance
  <2>6. PICK x, o, p : x = after.batch[i].id /\ o = after.offset /\ p = k - 1
    OBVIOUS
  <2>7. ~ Untouched(x, o, p)'
    BY <1>1, <2>1, <2>4, <2>6 DEF Untouched
  <2>8. ~ Untouched(after.batch[i].id, after.offset, LastChance(after, i))'
    BY <2>5, <2>6, <2>7 DEF Untouched
  <2>9. Overwritten(after)'
    BY <1>1, <2>8 DEF Overwritten
  <2>10. QED
    BY <1>1, <2>9 DEF Doomed
<1>4. QED
  BY <1>2, <1>3

\* A doomed request stays so.
LEMMA SentDoomed ==
    ASSUME NEW call, NEW i, NEW m, NEW k, NEW after, Sends(call, i, m, k, after), Doomed(call)
    PROVE  Doomed(after)'
<1>1. /\ k \in Nat /\ Newest = k - 1 /\ Newest' = k /\ \A l \in 0 .. k - 1 : MessageAt(l)' = MessageAt(l)
      /\ CallOK(call) /\ i \in DOMAIN call.batch /\ m = call.batch[i] /\ LogOK
      /\ i \in call.unsent /\ call.at[i] = -1
      /\ after.pc = "sending" /\ after.offset = call.offset /\ after.stale = call.stale
      /\ after.batch = call.batch /\ after.unsent = call.unsent \ {i}
      /\ DOMAIN after.at = DOMAIN call.at /\ after.at[i] = k
      /\ \A n \in DOMAIN call.at : n # i => after.at[n] = call.at[n]
  BY DEF Sends
<1>2. DOMAIN call.batch = DOMAIN call.at
  BY <1>1 DEF CallOK
<1>3. CASE call.stale
  BY <1>3, SentLate
<1>4. CASE Missed(call)
  <2>1. PICK n \in DOMAIN call.batch : call.at[n] = -1 /\ n \notin call.unsent
    BY <1>4 DEF Missed
  <2>2. n \in DOMAIN after.batch /\ after.at[n] = -1 /\ n \notin after.unsent
    BY <1>1, <1>2, <2>1
  <2>3. QED
    BY <1>1, <2>2 DEF Doomed, Missed
<1>5. CASE Overwritten(call)
  <2>1. PICK n \in DOMAIN call.batch : ~ Untouched(call.batch[n].id, call.offset, LastChance(call, n))
    BY <1>5 DEF Overwritten
  <2>2. PICK x, o, p : x = call.batch[n].id /\ o = call.offset /\ p = LastChance(call, n)
    OBVIOUS
  <2>3. o \in Int /\ o >= -1 /\ p \in Int /\ p <= k - 1
    <3>1. o \in Int /\ o >= -1
      BY <1>1, <2>2 DEF CallOK
    <3>2. CASE call.at[n] = -1
      BY <1>1, <2>2, <3>1, <3>2 DEF LastChance
    <3>3. CASE call.at[n] # -1
      <4>1. call.at[n] \in 0 .. Newest
        BY <1>1, <1>2, <3>3, SentAt
      <4>2. QED
        BY <1>1, <2>2, <3>1, <3>3, <4>1 DEF LastChance
    <3>4. QED
      BY <3>2, <3>3
  <2>4. PICK l \in o + 1 .. p : MessageAt(l).id = x
    BY <2>1, <2>2 DEF Untouched
  <2>5. l \in 0 .. k - 1 /\ l \in o + 1 .. k - 1
    BY <1>1, <2>3
  <2>6. CASE n = i
    BY <1>1, <2>2, <2>4, <2>5, <2>6, SentLate
  <2>7. CASE n # i
    <3>1. LastChance(after, n)' = IF call.at[n] = -1 THEN k ELSE call.at[n] - 1
      BY <1>1, <1>2, <2>7 DEF LastChance
    <3>2. PICK q : q = IF call.at[n] = -1 THEN k ELSE call.at[n] - 1
      OBVIOUS
    <3>3. q \in Int /\ p <= q
      BY <1>1, <2>2, <2>3, <3>2 DEF LastChance
    <3>4. l \in o + 1 .. q
      BY <2>3, <3>3
    <3>5. MessageAt(l)'.id = x
      BY <1>1, <2>4, <2>5
    <3>6. ~ Untouched(x, o, q)'
      BY <3>4, <3>5 DEF Untouched
    <3>7. ~ Untouched(after.batch[n].id, after.offset, LastChance(after, n))'
      BY <1>1, <2>2, <3>1, <3>2, <3>6 DEF Untouched
    <3>8. Overwritten(after)'
      BY <1>1, <3>7 DEF Overwritten
    <3>9. QED
      BY <1>1, <3>8 DEF Doomed
  <2>8. QED
    BY <2>6, <2>7
<1>6. QED
  BY <1>3, <1>4, <1>5 DEF Doomed

\* What a delivery taints remains tainted.
LEMMA SentTaints ==
    ASSUME RequestInv, NEW c \in Client, NEW call, call = req[c], NEW i, NEW m, NEW k, NEW after,
           Sends(call, i, m, k, after), req' = [req EXCEPT ![c] = after]
    PROVE  TaintStays
<1>1. log' = Append(log, m) /\ disturbed \subseteq disturbed' /\ crossed \subseteq crossed'
      /\ after \in Range(req') /\ after.batch = call.batch
  BY DEF Sends
<1>2. ASSUME Doomed(req[c]) PROVE \A x \in IdsOf(req[c].batch) : Tainted(x)'
  <2>1. Doomed(after)'
    BY <1>2, SentDoomed
  <2>2. \A x \in IdsOf(req[c].batch) : x \in IdsOf(after.batch)
    BY <1>1
  <2>3. QED
    BY <1>1, <2>1, <2>2 DEF Tainted, IdsOf
<1>3. QED
  BY <1>1, <1>2, TaintKept

\* What was the last message of its object is, unless the object is tainted.
LEMMA SentStays ==
    ASSUME RequestInv, PartsBehind, TaintStays,
           NEW call, NEW i, NEW m, NEW k, NEW after, Sends(call, i, m, k, after)
    PROVE  AreLast(after)' /\ \A other \in Range(req) : StaysLast(other) => StaysLast(other)'
<1>1. /\ k \in Nat /\ Newest = k - 1 /\ Newest' = k /\ \A l \in 0 .. k - 1 : MessageAt(l)' = MessageAt(l)
      /\ MessageAt(k)' = m /\ LogOK /\ call \in Range(req)
      /\ CallOK(call) /\ CallTyped(call) /\ i \in DOMAIN call.batch /\ m = call.batch[i]
      /\ call.pc = "sending" /\ i \in call.unsent /\ call.at[i] = -1 /\ StaysLast(call)
      /\ after.pc = "sending" /\ after.batch = call.batch
      /\ DOMAIN after.at = DOMAIN call.at /\ after.at[i] = k
      /\ \A n \in DOMAIN call.at : n # i => after.at[n] = call.at[n]
      /\ after \in Range(req')
  BY DEF Sends
<1>2. ASSUME NEW x, NEW a \in 0 .. k - 1, Untouched(x, a, Newest), x # m.id
      PROVE  Untouched(x, a, Newest)'
  <2>1. ASSUME NEW l \in a + 1 .. k PROVE MessageAt(l)'.id # x
    <3>1. CASE l = k
      BY <1>1, <1>2, <3>1
    <3>2. CASE l # k
      <4>1. l \in a + 1 .. k - 1 /\ l \in 0 .. k - 1
        BY <1>1, <2>1, <3>2
      <4>2. MessageAt(l).id # x
        BY <1>1, <1>2, <4>1 DEF Untouched
      <4>3. QED
        BY <1>1, <4>1, <4>2
    <3>3. QED
      BY <3>1, <3>2
  <2>2. QED
    BY <1>1, <2>1 DEF Untouched
<1>3. ASSUME NEW x, Tainted(x) PROVE Tainted(x)'
  BY <1>3 DEF TaintStays
<1>4. ASSUME NEW n \in DOMAIN after.at, after.at[n] # -1
      PROVE  Untouched(after.batch[n].id, after.at[n], Newest)' \/ Tainted(after.batch[n].id)'
  <2>1. CASE n = i
    <3>1. \A x : Untouched(x, k, Newest)'
      BY <1>1 DEF Untouched
    <3>2. QED
      BY <1>1, <2>1, <3>1
  <2>2. CASE n # i
    <3>1. PICK x, a : x = call.batch[n].id /\ a = call.at[n]
      OBVIOUS
    <3>2. n \in DOMAIN call.at /\ a # -1 /\ after.at[n] = a
      BY <1>1, <1>4, <2>2, <3>1
    <3>3. a \in 0 .. k - 1 /\ n \in DOMAIN call.batch
      BY <1>1, <3>1, <3>2, SentAt
    <3>4. x # m.id
      BY <1>1, <2>2, <3>1, <3>3 DEF CallTyped, AreApart
    <3>5. Untouched(x, a, Newest) \/ Tainted(x)
      BY <1>1, <3>1, <3>2 DEF StaysLast
    <3>6. Untouched(x, a, Newest)' \/ Tainted(x)'
      BY <1>2, <1>3, <3>3, <3>4, <3>5
    <3>7. QED
      BY <1>1, <3>1, <3>2, <3>6
  <2>3. QED
    BY <2>1, <2>2
<1>5. AreLast(after)'
  BY <1>4 DEF AreLast
<1>6. ASSUME NEW other \in Range(req), StaysLast(other) PROVE StaysLast(other)'
  <2>0. CallOK(other)
    BY DEF RequestInv
  <2>1. ASSUME other.pc = "sending", other.unsent # {}, NEW n \in DOMAIN other.at, other.at[n] # -1
        PROVE  Untouched(other.batch[n].id, other.at[n], Newest)' \/ Tainted(other.batch[n].id)'
    <3>1. PICK x, a : x = other.batch[n].id /\ a = other.at[n]
      OBVIOUS
    <3>2. Untouched(x, a, Newest) \/ Tainted(x)
      BY <1>6, <2>1, <3>1 DEF StaysLast
    <3>3. a \in 0 .. k - 1 /\ MessageAt(a).id = x
      BY <1>1, <2>0, <2>1, <3>1, SentAt
    <3>4. CASE x = m.id
      <4>1. call.stale \/ a > call.offset
        BY <1>1, <2>1, <3>1 DEF PartsBehind, InTime
      <4>2. call.stale \/ a \in call.offset + 1 .. k - 1
        <5>1. call.offset \in Int
          BY <1>1 DEF CallOK
        <5>2. QED
          BY <1>1, <3>3, <4>1, <5>1
      <4>3. Doomed(after)'
        BY <3>3, <3>4, <4>2, SentLate
      <4>4. x \in IdsOf(after.batch)
        BY <1>1, <3>4 DEF IdsOf
      <4>5. Tainted(x)'
        BY <1>1, <4>3, <4>4 DEF Tainted, IdsOf
      <4>6. QED
        BY <3>1, <4>5
    <3>5. CASE x # m.id
      <4>1. Untouched(x, a, Newest)' \/ Tainted(x)'
        BY <1>2, <1>3, <3>2, <3>3, <3>5
      <4>2. QED
        BY <3>1, <4>1
    <3>6. QED
      BY <3>4, <3>5
  <2>2. QED
    BY <2>1 DEF StaysLast
<1>7. QED
  BY <1>5, <1>6

\* What the requests were made from remains so.
LEMMA SentCallAgrees ==
    ASSUME RequestInv, JoinInv, TaintStays,
           NEW call, NEW i, NEW m, NEW k, NEW after, Sends(call, i, m, k, after)
    PROVE  CallAgrees(after)' /\ \A other \in Range(req) : CallAgrees(other)'
<1>1. /\ k \in Nat /\ Newest = k - 1 /\ Newest' = k /\ LogOK /\ LogOK' /\ log' = Append(log, m)
      /\ split \subseteq split' /\ call \in Range(req) /\ CallOK(call)
      /\ call.pc = "sending" /\ i \in DOMAIN call.at
      /\ after.pc = "sending" /\ after.offset = call.offset /\ after.stale = call.stale
      /\ after.batch = call.batch
      /\ DOMAIN after.at = DOMAIN call.at /\ after.at[i] = k
      /\ \A n \in DOMAIN call.at : n # i => after.at[n] = call.at[n]
      /\ \A l : l \in split' <=>
            l \in split \/ \E n \in DOMAIN call.at : call.at[n] # -1 /\ l \in call.at[n] .. k - 1
  BY DEF Sends
<1>2. ASSUME NEW other \in Range(req) PROVE CallAgrees(other)'
  <2>1. CallOK(other) /\ CallAgrees(other)
    BY DEF RequestInv, JoinInv
  <2>2. QED
    BY <1>1, <2>1, AgreesKept
<1>3. CallAgrees(call)'
  BY <1>1, <1>2
<1>4. StartsAgreed(after)'
  BY <1>1, <1>3 DEF CallAgrees, StartsAgreed, InTime
<1>5. ChangesAgree(after)' /\ FoundAll(after)' /\ BeforeAgrees(after)'
  BY <1>1 DEF ChangesAgree, FoundAll, BeforeAgrees
<1>6. BatchAgrees(after)'
  BY <1>1, <1>3 DEF CallAgrees, BatchAgrees, BatchJoins, BatchKeeps
<1>7. ASSUME NEW a \in DOMAIN after.at, NEW b \in DOMAIN after.at, after.at[a] # -1,
             NEW l \in after.at[a] .. after.at[b] - 1
      PROVE  l \in split'
  <2>1. \A n \in DOMAIN call.at : call.at[n] = -1 \/ call.at[n] \in 0 .. k - 1
    BY <1>1, SentAt
  <2>2. CASE a = i
    BY <1>1, <1>7, <2>1, <2>2
  <2>3. CASE a # i /\ b = i
    BY <1>1, <1>7, <2>3
  <2>4. CASE a # i /\ b # i
    <3>1. PartsSplit(call)'
      BY <1>3 DEF CallAgrees
    <3>2. QED
      BY <1>1, <1>7, <2>4, <3>1 DEF PartsSplit
  <2>5. QED
    BY <2>2, <2>3, <2>4
<1>8. PartsSplit(after)'
  BY <1>1, <1>7 DEF PartsSplit
<1>9. CallAgrees(after)'
  BY <1>4, <1>5, <1>6, <1>8 DEF CallAgrees
<1>10. QED
  BY <1>2, <1>9

\* An offset that had a part of a batch before has, unless the batch is all
\* there.
LEMMA SentParts ==
    ASSUME NEW call, NEW i, NEW m, NEW k, NEW after, Sends(call, i, m, k, after),
           NEW o \in -1 .. k - 1, NEW w, NEW v, PartedAt(o, w, v)
    PROVE  PartedAt(o, w, v)' \/ o \in split'
<1>1. /\ k \in Nat /\ Newest = k - 1 /\ LogOK /\ CallOK(call) /\ i \in DOMAIN call.at /\ call.at[i] = -1
      /\ after.pc = "sending" /\ after.unsent = call.unsent \ {i} /\ after.batch = call.batch
      /\ DOMAIN after.at = DOMAIN call.at /\ \A n \in DOMAIN call.at : n # i => after.at[n] = call.at[n]
      /\ after \in Range(req') /\ \A other \in Range(req) : other = call \/ other \in Range(req')
      /\ \A l : l \in split' <=>
            l \in split \/ \E n \in DOMAIN call.at : call.at[n] # -1 /\ l \in call.at[n] .. k - 1
  BY DEF Sends
<1>2. PICK other \in Range(req) : IsParted(other, o, w, v)
  BY DEF PartedAt
<1>3. CASE other \in Range(req')
  BY <1>2, <1>3 DEF PartedAt, IsParted, IdsOf
<1>4. CASE other = call
  <2>1. PICK n \in DOMAIN call.at : call.at[n] # -1 /\ call.at[n] <= o
    BY <1>2, <1>4 DEF IsParted
  <2>2. CASE after.unsent # {}
    <3>1. n # i /\ n \in DOMAIN after.at /\ after.at[n] # -1 /\ after.at[n] <= o
      BY <1>1, <2>1
    <3>2. IsParted(after, o, w, v)
      BY <1>1, <1>2, <1>4, <2>2, <3>1 DEF IsParted
    <3>3. QED
      BY <1>1, <3>2 DEF PartedAt, IsParted, IdsOf
  <2>3. CASE after.unsent = {}
    <3>1. call.at[n] \in 0 .. Newest
      BY <1>1, <2>1, SentAt
    <3>2. o \in call.at[n] .. k - 1
      BY <1>1, <2>1, <3>1
    <3>3. QED
      BY <1>1, <2>1, <3>2
  <2>4. QED
    BY <2>2, <2>3
<1>5. QED
  BY <1>1, <1>3, <1>4

\* The newest offset then: walls that are neither of them the message's.
LEMMA SentBeside ==
    ASSUME RequestInv, LogAgrees, TaintStays,
           NEW call, NEW i, NEW m, NEW k, NEW after, Sends(call, i, m, k, after),
           NEW w, NEW v, IsClean(w)', IsClean(v)',
           w \notin IdsOf(call.batch) \/ v \notin IdsOf(call.batch),
           NEW o, o = k - 1
    PROVE  PartedAt(k, w, v)' \/ Agree(o, w, v)'
<1>1. /\ k \in Nat /\ Newest = k - 1 /\ LogOK /\ LogOK' /\ log' = Append(log, m)
      /\ \A other \in Range(req) : other = call \/ other \in Range(req')
  BY DEF Sends
<1>2. o \in -1 .. Newest /\ o = Newest
  BY <1>1
<1>3. IsClean(w) /\ IsClean(v)
  BY DEF TaintStays, IsClean
<1>4. o \in split \/ PartedAt(o, w, v) \/ Agree(o, w, v)
  BY <1>2, <1>3 DEF LogAgrees
<1>5. o \notin split
  BY <1>1, <1>2 DEF LogAgrees
<1>6. CASE Agree(o, w, v)
  BY <1>1, <1>2, <1>6, AgreeKept
<1>7. CASE PartedAt(o, w, v)
  <2>1. PICK other \in Range(req) : IsParted(other, o, w, v)
    BY <1>7 DEF PartedAt
  <2>2. other \in Range(req')
    BY <1>1, <2>1 DEF IsParted
  <2>3. CallOK(other)
    BY <2>1 DEF RequestInv
  <2>4. PICK n \in DOMAIN other.at : other.at[n] # -1 /\ other.at[n] <= o
    BY <2>1 DEF IsParted
  <2>5. other.at[n] \in 0 .. Newest
    BY <1>1, <2>3, <2>4, SentAt
  <2>6. other.at[n] <= k
    BY <1>1, <1>2, <2>4, <2>5
  <2>7. IsParted(other, k, w, v)
    BY <2>1, <2>4, <2>6 DEF IsParted
  <2>8. QED
    BY <2>2, <2>7 DEF PartedAt, IsParted, IdsOf
<1>8. QED
  BY <1>4, <1>5, <1>6, <1>7

\* The state after a delivery is one in which the message was just sent.
LEMMA SentIsJust ==
    ASSUME RequestInv, LogAgrees, TaintStays,
           NEW call, NEW i, NEW m, NEW k, NEW after, Sends(call, i, m, k, after),
           AreLast(after)', CallAgrees(after)'
    PROVE  JustSent(after, i)'
<1>1. /\ k \in Nat /\ Newest = k - 1 /\ Newest' = k /\ LogOK' /\ AreTyped(log)' /\ CallOK(after)'
      /\ \A l \in 0 .. k - 1 : MessageAt(l)' = MessageAt(l)
      /\ CallOK(call) /\ CallTyped(call) /\ i \in DOMAIN call.at /\ m = call.batch[i]
      /\ after.pc = "sending" /\ after.offset = call.offset /\ after.batch = call.batch
      /\ DOMAIN after.at = DOMAIN call.at /\ after.at[i] = k
      /\ Crosses(call, i) => m.id \in crossed'
  BY DEF Sends
<1>2. AreTyped(after.batch)
  BY <1>1 DEF CallTyped
<1>3. ASSUME IsClean(m.id)', NEW l \in call.offset + 1 .. k - 1
      PROVE  MessageAt(l)'.id \notin ReferredBy(m) \ IdsOf(call.batch)
  <2>1. ~ Crosses(call, i)
    BY <1>1, <1>3, SMTT(30) DEF IsClean, Tainted
  <2>2. \A n \in call.offset + 1 .. Newest :
            MessageAt(n).id \notin ReferredBy(call.batch[i]) \ IdsOf(call.batch)
    BY <2>1 DEF Crosses, ReferredBy
  <2>3. l \in 0 .. k - 1 /\ l \in call.offset + 1 .. Newest
    <3>1. call.offset \in Int /\ call.offset >= -1
      BY <1>1 DEF CallOK
    <3>2. QED
      BY <1>1, <3>1
  <2>4. QED
    BY <1>1, <2>2, <2>3
<1>4. ASSUME NEW w, NEW v, IsClean(w)', IsClean(v)',
             w \notin IdsOf(call.batch) \/ v \notin IdsOf(call.batch)
      PROVE  PartedAt(k, w, v)' \/ \A o : o = k - 1 => Agree(o, w, v)'
  BY <1>4, SentBeside
<1>5. \A w, v : /\ IsClean(w)' /\ IsClean(v)'
                /\ w \notin IdsOf(after.batch) \/ v \notin IdsOf(after.batch)
                => PartedAt(k, w, v)' \/ \A o : o = k - 1 => Agree(o, w, v)'
  <2>1. IdsOf(after.batch) = IdsOf(call.batch)
    BY <1>1
  <2>2. QED
    BY <1>4, <2>1
<1>6. IsClean(after.batch[i].id)' =>
          \A l \in after.offset + 1 .. k - 1 :
              MessageAt(l)'.id \notin ReferredBy(after.batch[i]) \ IdsOf(after.batch)
  <2>1. PICK x : x = m.id
    OBVIOUS
  <2>2. after.batch[i].id = x
    BY <1>1, <2>1
  <2>3. IsClean(after.batch[i].id)' => IsClean(x)'
    BY <2>2 DEF IsClean, Tainted
  <2>4. IsClean(x)' => IsClean(m.id)'
    BY <2>1 DEF IsClean, Tainted
  <2>5. IdsOf(after.batch) = IdsOf(call.batch)
    BY <1>1
  <2>6. QED
    BY <1>1, <1>3, <2>3, <2>4, <2>5
<1>7. AreLast(after)'
  BY DEF AreLast, AreLast
<1>8. Newest' \in Int /\ after.at[i] = Newest' /\ after.at[i] # -1 /\ i \in DOMAIN after.at
  BY <1>1
<1>9. IsFresh(after, i)'
  <2>1. \A n : n = Newest' => n = k
    BY <1>1
  <2>2. ReferredBy(after.batch[i])' = ReferredBy(after.batch[i]) /\ IdsOf(after.batch)' = IdsOf(after.batch)
    BY DEF ReferredBy, IdsOf
  <2>3. QED
    BY <1>6, <2>1, <2>2 DEF IsFresh
<1>10. OthersAgree(after, i)'
  <2>1. \A p : p = Newest' => p = k
    BY <1>1
  <2>2. IdsOf(after.batch)' = IdsOf(after.batch)
    BY DEF IdsOf
  <2>3. QED
    BY <1>5, <2>1, <2>2 DEF OthersAgree
<1>11. CallOK(after)' /\ CallAgrees(after)' /\ AreTyped(after.batch)'
  BY <1>1, <1>2 DEF AreTyped
<1>12. QED
  BY <1>1, <1>7, <1>8, <1>9, <1>10, <1>11 DEF JustSent

\* A message of a batch is delivered.
LEMMA DeliverJoins ==
    ASSUME RequestInv, RequestInv', TypeInv, TypeInv', JoinInv, NEW c \in Client,
           NEW i \in req[c].unsent, req[c].pc = "sending", Deliver(c, i)
    PROVE  JoinInv'
<1>1. PICK call : call = req[c]
  OBVIOUS
<1>2. PICK m, k : m = call.batch[i] /\ k = Len(log)
  OBVIOUS
<1>3. PICK after : after = AfterDelivery(call, i, k)
  OBVIOUS
<1>4. Sends(call, i, m, k, after) /\ req' = [req EXCEPT ![c] = after]
  BY <1>1, <1>2, <1>3, SendsIs
<1>5. TaintStays
  BY <1>1, <1>4, SentTaints
<1>6. LogAgrees /\ PartsBehind /\ \A other \in Range(req) : StaysLast(other)
  BY DEF JoinInv
<1>7. AreLast(after)' /\ \A other \in Range(req) : StaysLast(other)'
  BY <1>4, <1>5, <1>6, SentStays
<1>8. CallAgrees(after)' /\ \A other \in Range(req) : CallAgrees(other)'
  BY <1>4, <1>5, SentCallAgrees
<1>9. StaysLast(after)'
  BY <1>7 DEF AreLast, StaysLast
<1>10. JustSent(after, i)'
  BY <1>4, <1>5, <1>6, <1>7, <1>8, SentIsJust
<1>11. /\ k \in Nat /\ Newest = k - 1 /\ Newest' = k /\ LogOK /\ LogOK' /\ log' = Append(log, m)
       /\ call \in Range(req) /\ CallOK(call) /\ call.pc = "sending" /\ i \in call.unsent
       /\ i \in DOMAIN call.at /\ call.at[i] = -1
       /\ after.pc = "sending" /\ after.offset = call.offset /\ after.stale = call.stale
       /\ after.unsent = call.unsent \ {i}
       /\ DOMAIN after.at = DOMAIN call.at /\ after.at[i] = k
       /\ \A n \in DOMAIN call.at : n # i => after.at[n] = call.at[n]
       /\ after \in Range(req')
       /\ \A other \in Range(req') : other = after \/ other \in Range(req)
       /\ split \subseteq split'
       /\ \A l : l \in split' <=>
             l \in split \/ \E n \in DOMAIN call.at : call.at[n] # -1 /\ l \in call.at[n] .. k - 1
  BY <1>4 DEF Sends
<1>12. PartsBehind'
  <2>1. after.offset \in -1 .. Newest
    BY <1>11 DEF CallOK
  <2>2. AllBehind(after)
    BY <1>6, <1>11 DEF AllBehind, Behind, PartsBehind, InTime
  <2>3. PartsFrom(call, after)
    <3>1. k \in Int /\ k > Newest
      BY <1>11
    <3>2. QED
      BY <1>11, <3>1 DEF PartsFrom
  <2>4. QED
    BY <1>1, <1>4, <1>6, <2>1, <2>2, <2>3, BehindKept
<1>13. \A l \in split' : l \in Int /\ l < k
  <2>1. \A n \in DOMAIN call.at : call.at[n] # -1 => call.at[n] \in 0 .. Newest
    BY <1>11, SentAt
  <2>2. \A l \in split : l \in Int /\ l < k - 1
    BY <1>6, <1>11 DEF LogAgrees
  <2>3. QED
    BY <1>11, <2>1, <2>2
<1>14. ASSUME NEW o \in -1 .. k, NEW w, NEW v, IsClean(w)', IsClean(v)'
       PROVE  o \in split' \/ PartedAt(o, w, v)' \/ Agree(o, w, v)'
  <2>1. CASE o = k
    <3>1. NewestAgrees'
      BY NewestDoes, PTL
    <3>2. PartedAt(k, w, v)' \/ Agree(k, w, v)'
      BY <1>10, <1>11, <1>14, <3>1 DEF NewestAgrees
    <3>3. QED
      BY <2>1, <3>2 DEF PartedAt, Agree
  <2>2. CASE o # k
    <3>1. o \in -1 .. Newest /\ o \in -1 .. k - 1
      BY <1>11, <2>2
    <3>2. IsClean(w) /\ IsClean(v)
      BY <1>5, <1>14 DEF TaintStays, IsClean
    <3>3. o \in split \/ PartedAt(o, w, v) \/ Agree(o, w, v)
      BY <1>6, <3>1, <3>2 DEF LogAgrees
    <3>4. CASE o \in split
      BY <1>11, <3>4
    <3>5. CASE PartedAt(o, w, v)
      BY <1>4, <3>1, <3>5, SentParts
    <3>6. CASE Agree(o, w, v)
      BY <1>11, <3>1, <3>6, AgreeKept
    <3>7. QED
      BY <3>3, <3>4, <3>5, <3>6
  <2>3. QED
    BY <2>1, <2>2
<1>15. LogAgrees'
  BY <1>11, <1>13, <1>14 DEF LogAgrees
<1>16. QED
  BY <1>7, <1>8, <1>9, <1>11, <1>12, <1>15 DEF JoinInv

-----------------------------------------------------------------------------
(* Joined ends: the theorem *)

\* The walls that are there to begin with refer to nothing.
LEMMA JoinsInit == Init => JoinInv
<1> SUFFICES ASSUME Init PROVE JoinInv
  OBVIOUS
<1>1. LogOK /\ AreTyped(log) /\ Newest \in Int
  BY RequestsInit, TypesInit, LogIs DEF RequestInv, TypeInv
<1>2. DOMAIN log = DOMAIN Existing /\ \A n \in DOMAIN log : log[n] = NewWall(Existing[n])
  BY DEF Init
<1>3. ASSUME NEW k \in 0 .. Newest PROVE \E w \in Walls : MessageAt(k) = NewWall(w)
  <2>1. k + 1 \in DOMAIN log /\ MessageAt(k) = log[k + 1]
    BY <1>1, LogIs DEF MessageAt
  <2>2. Existing[k + 1] \in Walls
    BY <1>2, <2>1, SubmitAssumption, ElementOfSeq, LenProperties
  <2>3. QED
    BY <1>2, <2>1, <2>2
<1>4. ASSUME NEW o \in -1 .. Newest, NEW w, NEW i \in 1 .. 2, NEW q, q # None
      PROVE  ~ Refers(LastOf(w, o), i, q)
  <2>1. LastOf(w, o) = None \/ \E k \in 0 .. o : LastOf(w, o) = MessageAt(k)
    BY <1>1, LastIs
  <2>2. CASE LastOf(w, o) = None
    BY <2>2 DEF Refers, IsObject
  <2>3. CASE \E k \in 0 .. o : LastOf(w, o) = MessageAt(k)
    <3>1. PICK k \in 0 .. o : LastOf(w, o) = MessageAt(k)
      BY <2>3
    <3>2. k \in 0 .. Newest
      BY <1>1, <3>1
    <3>3. QED
      BY <1>3, <1>4, <3>1, <3>2, NewWallRefers
  <2>4. QED
    BY <2>1, <2>2, <2>3
<1>5. ASSUME NEW o \in -1 .. Newest, NEW w, NEW v, v \in Walls PROVE Agree(o, w, v)
  <2>1. \A j \in 1 .. 2 : EndOf(v, j) # None
    BY <1>5, EndsArePieces
  <2>2. QED
    BY <1>4, <2>1 DEF Agree, EndsAgree, AreJoined
<1>6. LogAgrees
  BY <1>5 DEF LogAgrees, Init, IsClean
<1>7. \A call \in Range(req) : call.pc = "idle"
  BY DEF Init, Range, Idle
<1>8. PartsBehind
  BY <1>7 DEF PartsBehind, InTime
<1>9. ASSUME NEW call \in Range(req) PROVE CallAgrees(call) /\ StaysLast(call)
  BY <1>7 DEF CallAgrees, StartsAgreed, InTime, ChangesAgree, FoundAll, BatchAgrees,
     BeforeAgrees, PartsSplit, StaysLast
<1>10. QED
  BY <1>6, <1>8, <1>9 DEF JoinInv

\* A step in which nothing changes keeps the invariant.
LEMMA JoinsStay == RequestInv /\ JoinInv /\ UNCHANGED vars => JoinInv'
<1> SUFFICES ASSUME RequestInv, JoinInv, UNCHANGED vars PROVE JoinInv'
  OBVIOUS
<1>1. /\ log' = log /\ req' = req /\ disturbed' = disturbed /\ crossed' = crossed
      /\ split' = split
  BY DEF vars
<1>2. \A x : IsClean(x)' <=> IsClean(x)
  BY <1>1 DEF IsClean, Tainted, Doomed, Missed, Overwritten, Untouched, LastChance, MessageAt, Newest
<1>3. LogOK /\ LogOK' /\ TaintStays
  <2>1. LogOK
    BY DEF RequestInv
  <2>2. LogOK'
    BY <1>1, <2>1 DEF LogOK, AreChanges, vars
  <2>3. \A x : Tainted(x) => Tainted(x)'
    BY <1>1 DEF Tainted, Doomed, Missed, Overwritten, Untouched, LastChance, MessageAt, Newest
  <2>4. QED
    BY <2>1, <2>2, <2>3 DEF TaintStays
<1>4. LogAgrees'
  <2>1. LogAgrees
    BY DEF JoinInv
  <2>2. \A o, w, v : PartedAt(o, w, v)' <=> PartedAt(o, w, v)
    BY <1>1 DEF PartedAt, IsParted
  <2>3. Newest' = Newest
    BY <1>1 DEF Newest
  <2>4. \A o \in -1 .. Newest : \A w, v : Agree(o, w, v)' <=> Agree(o, w, v)
    BY <1>1, <1>3, AgreeKept
  <2>5. QED
    BY <1>1, <1>2, <2>1, <2>2, <2>3, <2>4 DEF LogAgrees
<1>5. PartsBehind'
  BY <1>1 DEF JoinInv, PartsBehind, InTime
<1>6. ASSUME NEW call \in Range(req) PROVE CallAgrees(call)' /\ StaysLast(call)'
  <2>1. CallAgrees(call) /\ StaysLast(call)
    BY DEF JoinInv
  <2>2. CallOK(call)
    BY DEF RequestInv
  <2>3. CallAgrees(call)'
    BY <1>1, <1>3, <2>1, <2>2, AgreesKept
  <2>4. StaysLast(call)'
    BY <1>1, <2>1 DEF StaysLast, Untouched, MessageAt, Newest, Tainted, Doomed, Missed, Overwritten,
       LastChance
  <2>5. QED
    BY <2>3, <2>4
<1>7. Range(req)' = Range(req)
  BY <1>1
<1>8. QED
  BY <1>4, <1>5, <1>6, <1>7 DEF JoinInv

\* Every step keeps the invariant.
LEMMA JoinsNext ==
    RequestInv /\ RequestInv' /\ TypeInv /\ TypeInv' /\ JoinInv /\ [Next]_vars => JoinInv'
<1> SUFFICES ASSUME RequestInv, RequestInv', TypeInv, TypeInv', JoinInv, [Next]_vars
             PROVE  JoinInv'
  OBVIOUS
<1>1. CASE UNCHANGED vars
  BY <1>1, JoinsStay
<1>2. ASSUME NEW c \in Client, Request(c) PROVE JoinInv'
  BY <1>2, RequestJoins
<1>3. ASSUME NEW c \in Client, GetAllDependencies(c) PROVE JoinInv'
  BY <1>3, FindJoins
<1>4. ASSUME NEW c \in Client, UpdateChanges(c) PROVE JoinInv'
  BY <1>4, UpdateJoins
<1>5. ASSUME NEW c \in Client, Send(c) PROVE JoinInv'
  <2>1. PICK i : i = Min(req[c].unsent)
    OBVIOUS
  <2>2. Deliver(c, i) /\ req[c].pc = "sending" /\ req[c].unsent # {}
    BY <1>5, <2>1 DEF Send, Deliver
  <2>3. i \in req[c].unsent
    BY <2>1, <2>2, UnsentAre
  <2>4. QED
    BY <2>2, <2>3, DeliverJoins
<1>6. ASSUME NEW c \in Client, SendAgain(c) PROVE JoinInv'
  <2>1. PICK i : i = Min(req[c].unsent \ {Min(req[c].unsent)})
    OBVIOUS
  <2>2. Deliver(c, i) /\ req[c].pc = "sending" /\ Cardinality(req[c].unsent) > 1
    BY <1>6, <2>1 DEF SendAgain, Deliver
  <2>3. req[c].unsent # {}
    <3>1. Cardinality({}) = 0
      BY FS_EmptySet
    <3>2. QED
      BY <2>2, <3>1
  <2>4. i \in req[c].unsent
    BY <2>1, <2>2, <2>3, UnsentAre
  <2>5. QED
    BY <2>2, <2>4, DeliverJoins
<1>7. ASSUME NEW c \in Client, Undelivered(c) PROVE JoinInv'
  BY <1>7, UndeliveredJoins
<1>8. ASSUME NEW c \in Client, Answer(c) PROVE JoinInv'
  BY <1>8, AnswerJoins
<1>9. ASSUME NEW c \in Client, Panic(c) PROVE JoinInv'
  BY <1>9, PanicJoins
<1>10. QED
  BY <1>1, <1>2, <1>3, <1>4, <1>5, <1>6, <1>7, <1>8, <1>9 DEF Next, Serve, Disturb

\* A wall with no batch of it in flight, and none that was disturbed, is clean.
LEMMA SettledAreClean ==
    ASSUME RequestInv, NEW w \in Settled \cap Walls, w \notin crossed
    PROVE  IsClean(w) /\ \A call \in Range(req) : call.pc = "sending" => w \notin IdsOf(call.batch)
<1>1. ASSUME NEW call \in Range(req), call.pc = "sending" PROVE w \notin IdsOf(call.batch)
  <2>1. PICK c \in Client : call = req[c]
    BY DEF RequestInv, Range
  <2>2. QED
    BY <1>1, <2>1 DEF Settled, InFlight
<1>2. IsClean(w)
  BY <1>1 DEF IsClean, Tainted, Doomed, Settled
<1>3. QED
  BY <1>1, <1>2

\* Two ends that are joined to each other, and to nothing else as far as the
\* dependencies service knows, are at one place, whatever was moved, joined,
\* deleted and undone by whom, unless one of the walls was written by a
\* disturbed request or beside the other one, or a batch with it is being sent.
THEOREM JoinedAgree == Spec => []JoinedEndsAgree
<1>1. RequestInv /\ JoinInv => JoinedEndsAgree
  <2> SUFFICES ASSUME RequestInv, JoinInv,
                      NEW w \in (Live \cap Walls) \ crossed, NEW v \in (Live \cap Walls) \ crossed,
                      NEW i \in 1 .. 2, NEW j \in 1 .. 2,
                      Latest(w).obj.pts[i].refer = EndOf(v, j),
                      Latest(v).obj.pts[j].refer = EndOf(w, i),
                      OnlyTo(Dependencies(Newest, Len(log)), EndOf(w, i), EndOf(v, j)),
                      OnlyTo(Dependencies(Newest, Len(log)), EndOf(v, j), EndOf(w, i))
               PROVE  Latest(w).obj.pts[i].info = Latest(v).obj.pts[j].info
    BY DEF JoinedEndsAgree, OnlyTo, EndOf
  <2>1. PICK o, m, n : o = Newest /\ m = LastOf(w, o) /\ n = LastOf(v, o)
    OBVIOUS
  <2>2. Latest(w) = m /\ Latest(v) = n /\ IsObject(m) /\ IsObject(n)
    BY <2>1 DEF Latest, LastOf, Live
  <2>3. Dependencies(Newest, Len(log)) = Deps(o)
    BY <2>1 DEF Dependencies, Deps, GraphAt
  <2>4. AreJoined(m, i, n, j, w, v, Deps(o))
    BY <2>2, <2>3 DEF AreJoined, Refers
  <2>5. /\ IsClean(w) /\ IsClean(v)
        /\ \A call \in Range(req) : call.pc = "sending" => w \notin IdsOf(call.batch)
    BY SettledAreClean DEF Live
  <2>6. ~ PartedAt(o, w, v)
    BY <2>5 DEF PartedAt, IsParted
  <2>7. o \in -1 .. Newest /\ o \notin split
    <3>1. Newest \in Int /\ Newest >= -1
      BY LogIs DEF RequestInv
    <3>2. \A k \in split : k \in Int /\ k < Newest
      BY DEF JoinInv, LogAgrees
    <3>3. QED
      BY <2>1, <3>1, <3>2
  <2>8. Agree(o, w, v)
    BY <2>5, <2>6, <2>7 DEF JoinInv, LogAgrees
  <2>9. QED
    BY <2>1, <2>2, <2>4, <2>8 DEF Agree, EndsAgree, SameInfo
<1>2. QED
  BY <1>1, JoinsInit, JoinsNext, TypesInit, TypesNext, RequestsInit, RequestsNext, PTL DEF Spec
=============================================================================
