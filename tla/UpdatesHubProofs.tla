--------------------------- MODULE UpdatesHubProofs ---------------------------
(***************************************************************************)
(* Theorems about the updates service, for any files, connections, users,  *)
(* shards, capacity, number of commands, log length and number of stops.   *)
(*                                                                         *)
(* The argument: HubInv is inductive.  A list that is being sent to is     *)
(* locked, so only the consumer changes it, and only at its end, where it  *)
(* takes out senders whose tasks have ended, the last one first.  What was *)
(* sent of a message and what is still to come of it is therefore at most  *)
(* what was asked for (RestAsked), and the senders of an open connection   *)
(* are neither skipped nor taken out, which is counted with the lemmas     *)
(* about Append and RemoveAt.                                              *)
(***************************************************************************)
EXTENDS UpdatesHub, FiniteSetTheorems, FunctionTheorems, WellFoundedInduction, TLAPS

-----------------------------------------------------------------------------
(* Numbers *)

\* A bounded set of numbers has a greatest one.
LEMMA GreatestExists ==
    ASSUME NEW I \in SUBSET Nat, I # {}, NEW b \in Nat, \A i \in I : i <= b
    PROVE  \E i \in I : \A j \in I : j <= i
<1> DEFINE J == {b - i : i \in I}
           R == {ss \in Nat \X Nat : ss[1] < ss[2]}
<1>1. J \in SUBSET Nat /\ J # {}
  <2>1. ASSUME NEW i \in I PROVE b - i \in Nat
    <3>1. i \in Nat /\ i <= b
      OBVIOUS
    <3>2. QED
      BY <3>1
  <2>2. PICK i \in I : TRUE
    OBVIOUS
  <2>3. QED
    BY <2>1, <2>2
<1>2. IsWellFoundedOn(R, Nat)
  <2>1. OpToRel(<, Nat) = R
    BY Zenon DEF OpToRel
  <2>2. QED
    BY Zenon, <2>1, NatLessThanWellFounded
<1>3. PICK d \in J : \A e \in J : ~ (<<e, d>> \in R)
  <2> HIDE DEF J, R
  <2> QED
    BY <1>1, <1>2, WFMin
<1>4. PICK i \in I : d = b - i
  BY <1>3
<1>5. ASSUME NEW j \in I PROVE j <= i
  <2>1. b - j \in J /\ b - j \in Nat /\ d \in Nat
    BY <1>1, <1>3
  <2>2. <<b - j, d>> \in Nat \X Nat /\ ~ (<<b - j, d>>[1] < <<b - j, d>>[2])
    BY <1>3, <2>1
  <2>3. ~ (b - j < d)
    BY <2>2
  <2>4. i \in Nat /\ j \in Nat
    OBVIOUS
  <2>5. QED
    BY <1>4, <2>1, <2>3, <2>4
<1>6. QED
  BY <1>5

-----------------------------------------------------------------------------
(* Counting in lists *)

\* The places of a list whose elements are in a set.
Places(list, S) == {i \in DOMAIN list : list[i] \in S}

\* The places of a list are finitely many.
LEMMA PlacesFinite ==
    ASSUME NEW T, NEW list \in Seq(T), NEW I \in SUBSET DOMAIN list
    PROVE  IsFiniteSet(I) /\ Cardinality(I) \in Nat
<1>1. DOMAIN list = 1 .. Len(list) /\ Len(list) \in Nat
  OBVIOUS
<1>2. IsFiniteSet(DOMAIN list)
  BY <1>1, FS_Interval
<1>3. QED
  BY <1>2, FS_Subset, FS_CardinalityType

\* Fewer places, smaller count.
LEMMA CountMonotone ==
    ASSUME NEW T, NEW list \in Seq(T), NEW I \in SUBSET DOMAIN list, NEW J \in SUBSET I
    PROVE  Cardinality(J) \in Nat /\ Cardinality(I) \in Nat /\ Cardinality(J) <= Cardinality(I)
<1>1. IsFiniteSet(I) /\ Cardinality(I) \in Nat
  BY PlacesFinite
<1>2. IsFiniteSet(J) /\ Cardinality(J) <= Cardinality(I)
  BY <1>1, FS_Subset
<1>3. QED
  BY <1>1, <1>2, FS_CardinalityType

\* What a list is after an element was added at its end.
LEMMA AppendProperties ==
    ASSUME NEW T, NEW list \in Seq(T), NEW e \in T
    PROVE  /\ Append(list, e) \in Seq(T)
           /\ Len(Append(list, e)) = Len(list) + 1
           /\ Append(list, e)[Len(list) + 1] = e
           /\ \A i \in DOMAIN list : i \in DOMAIN Append(list, e) /\ Append(list, e)[i] = list[i]
           /\ \A i \in DOMAIN Append(list, e) : i = Len(list) + 1 \/ i \in DOMAIN list
  OBVIOUS

\* What a list is after the element at place k was taken out.
LEMMA RemoveAtProperties ==
    ASSUME NEW T, NEW list \in Seq(T), NEW k \in DOMAIN list
    PROVE  /\ RemoveAt(list, k) \in Seq(T)
           /\ Len(RemoveAt(list, k)) = Len(list) - 1
           /\ \A i \in 1 .. k - 1 : i \in DOMAIN list /\ RemoveAt(list, k)[i] = list[i]
           /\ \A i \in k .. Len(list) - 1 : i + 1 \in DOMAIN list
                                            /\ RemoveAt(list, k)[i] = list[i + 1]
<1> DEFINE a == SubSeq(list, 1, k - 1)
           b == SubSeq(list, k + 1, Len(list))
           n == Len(list)
<1>1. n \in Nat /\ k \in 1 .. n /\ DOMAIN list = 1 .. n
  OBVIOUS
<1>2. \A i \in 1 .. n : list[i] \in T
  OBVIOUS
<1>3. /\ a = [i \in 1 .. k - 1 |-> list[i]]
      /\ b = [i \in 1 .. n - k |-> list[k + i]]
  <2>1. /\ \A i \in 1 .. k - 1 : 1 + i - 1 = i
        /\ \A i \in 1 .. n - k : (k + 1) + i - 1 = k + i
        /\ (k - 1) - 1 + 1 = k - 1 /\ n - (k + 1) + 1 = n - k
    BY <1>1
  <2>2. /\ SubSeq(list, 1, k - 1) = [i \in 1 .. (1 + (k - 1) - 1) |-> list[i + 1 - 1]]
        /\ SubSeq(list, k + 1, n) = [i \in 1 .. (1 + n - (k + 1)) |-> list[i + (k + 1) - 1]]
    BY <1>1
  <2>3. QED
    BY <1>1, <2>2
<1>4. a \in Seq(T) /\ Len(a) = k - 1 /\ \A i \in 1 .. k - 1 : a[i] = list[i]
  <2>1. k - 1 \in Nat /\ \A i \in 1 .. k - 1 : i \in 1 .. n
    BY <1>1
  <2>2. QED
    BY <1>2, <1>3, <2>1
<1>5. b \in Seq(T) /\ Len(b) = n - k /\ \A i \in 1 .. n - k : b[i] = list[k + i]
  <2>1. n - k \in Nat /\ \A i \in 1 .. n - k : k + i \in 1 .. n
    BY <1>1
  <2>2. QED
    BY <1>2, <1>3, <2>1
<1>6. RemoveAt(list, k) = a \o b
  BY DEF RemoveAt
<1> HIDE DEF a, b
<1>7. /\ a \o b \in Seq(T) /\ Len(a \o b) = n - 1
      /\ \A i \in 1 .. k - 1 : (a \o b)[i] = a[i]
      /\ \A i \in k .. n - 1 : (a \o b)[i] = b[i - (k - 1)]
  <2> HIDE DEF n
  <2>1. a \o b \in Seq(T) /\ Len(a \o b) = (k - 1) + (n - k)
    <3>1. a \in Seq(T) /\ b \in Seq(T) /\ Len(a) = k - 1 /\ Len(b) = n - k
      BY <1>4, <1>5
    <3>2. a \o b \in Seq(T) /\ Len(a \o b) = Len(a) + Len(b)
      BY <3>1
    <3>3. QED
      BY <3>1, <3>2
  <2>2. (k - 1) + (n - k) = n - 1
    BY <1>1
  <2>3. \A i \in 1 .. (k - 1) + (n - k) :
            (a \o b)[i] = IF i <= k - 1 THEN a[i] ELSE b[i - (k - 1)]
    BY <1>1, <1>4, <1>5
  <2>4. /\ \A i \in 1 .. k - 1 : i \in 1 .. n - 1 /\ i <= k - 1
        /\ \A i \in k .. n - 1 : i \in 1 .. n - 1 /\ ~ (i <= k - 1)
    BY <1>1
  <2>5. QED
    BY <2>1, <2>2, <2>3, <2>4
<1>8. ASSUME NEW i \in 1 .. k - 1
      PROVE  i \in DOMAIN list /\ RemoveAt(list, k)[i] = list[i]
  BY <1>1, <1>4, <1>6, <1>7
<1>9. ASSUME NEW i \in k .. n - 1
      PROVE  i + 1 \in DOMAIN list /\ RemoveAt(list, k)[i] = list[i + 1]
  <2>1. i - (k - 1) \in 1 .. n - k /\ k + (i - (k - 1)) = i + 1 /\ i + 1 \in 1 .. n
    BY <1>1
  <2>2. b[i - (k - 1)] = list[i + 1]
    BY <1>5, <2>1
  <2>3. QED
    BY <1>1, <1>6, <1>7, <2>1, <2>2
<1>10. QED
  BY <1>6, <1>7, <1>8, <1>9

\* An element at the end counts if it is in the set.
LEMMA CountAppended ==
    ASSUME NEW T, NEW list \in Seq(T), NEW e \in T, NEW S
    PROVE  /\ Cardinality(Places(list, S)) \in Nat
           /\ Cardinality(Places(Append(list, e), S))
                  = Cardinality(Places(list, S)) + (IF e \in S THEN 1 ELSE 0)
<1> DEFINE n == Len(list)
           new == Append(list, e)
<1>1. /\ new \in Seq(T) /\ Len(new) = n + 1 /\ new[n + 1] = e
      /\ \A i \in DOMAIN list : i \in DOMAIN new /\ new[i] = list[i]
      /\ \A i \in DOMAIN new : i = n + 1 \/ i \in DOMAIN list
  BY AppendProperties
<1>2. n \in Nat /\ n + 1 \notin DOMAIN list /\ n + 1 \in DOMAIN new
  BY <1>1
<1>3. IsFiniteSet(Places(list, S)) /\ Cardinality(Places(list, S)) \in Nat
  BY PlacesFinite DEF Places
<1> HIDE DEF n, new
<1>4. CASE e \in S
  <2>1. Places(new, S) = Places(list, S) \cup {n + 1}
    BY <1>1, <1>2, <1>4 DEF Places
  <2>2. n + 1 \notin Places(list, S)
    BY <1>2 DEF Places
  <2>3. Cardinality(Places(new, S)) = Cardinality(Places(list, S)) + 1
    BY <1>3, <2>1, <2>2, FS_AddElement
  <2>4. QED
    BY <1>3, <1>4, <2>3 DEF new
<1>5. CASE e \notin S
  <2>1. Places(new, S) = Places(list, S)
    BY <1>1, <1>2, <1>5 DEF Places
  <2>2. QED
    BY <1>3, <1>5, <2>1 DEF new
<1>6. QED
  BY <1>4, <1>5

\* An element taken out no longer counts; the others do, wherever they are now.
LEMMA CountRemoved ==
    ASSUME NEW T, NEW list \in Seq(T), NEW k \in DOMAIN list, NEW S
    PROVE  /\ Cardinality(Places(list, S)) \in Nat
           /\ Cardinality(Places(RemoveAt(list, k), S)) \in Nat
           /\ Cardinality(Places(RemoveAt(list, k), S))
                  = Cardinality(Places(list, S)) - (IF list[k] \in S THEN 1 ELSE 0)
<1> DEFINE n == Len(list)
           new == RemoveAt(list, k)
           Old == Places(list, S) \ {k}
           place == [i \in Places(new, S) |-> IF i < k THEN i ELSE i + 1]
<1>1. /\ new \in Seq(T) /\ Len(new) = n - 1
      /\ \A i \in 1 .. k - 1 : i \in DOMAIN list /\ new[i] = list[i]
      /\ \A i \in k .. n - 1 : i + 1 \in DOMAIN list /\ new[i] = list[i + 1]
  BY RemoveAtProperties
<1>2. n \in Nat /\ k \in 1 .. n /\ DOMAIN list = 1 .. n
  OBVIOUS
<1>3. DOMAIN new = 1 .. n - 1
  BY <1>1, <1>2
<1>4. IsFiniteSet(Places(list, S)) /\ Cardinality(Places(list, S)) \in Nat
  BY PlacesFinite DEF Places
<1>5. IsFiniteSet(Places(new, S)) /\ Cardinality(Places(new, S)) \in Nat
  BY <1>1, PlacesFinite DEF Places
<1> HIDE DEF n, new
<1>6. ASSUME NEW i \in Places(new, S) PROVE place[i] \in Old
  <2>1. i \in 1 .. n - 1 /\ new[i] \in S
    BY <1>3 DEF Places
  <2>2. CASE i < k
    BY <1>1, <1>2, <2>1, <2>2 DEF Places
  <2>3. CASE ~ (i < k)
    <3>1. i \in k .. n - 1 /\ i + 1 # k
      BY <1>2, <2>1, <2>3
    <3>2. QED
      BY <1>1, <2>1, <2>3, <3>1 DEF Places
  <2>4. QED
    BY <2>2, <2>3
<1>7. \A i, j \in Places(new, S) : place[i] = place[j] => i = j
  <2>1. Places(new, S) \subseteq 1 .. n - 1
    BY <1>3 DEF Places
  <2>2. \A i, j \in 1 .. n - 1 :
            (IF i < k THEN i ELSE i + 1) = (IF j < k THEN j ELSE j + 1) => i = j
    BY <1>2
  <2>3. QED
    BY <2>1, <2>2
<1>8. ASSUME NEW j \in Old PROVE \E i \in Places(new, S) : place[i] = j
  <2>1. j \in 1 .. n /\ j # k /\ list[j] \in S
    BY <1>2 DEF Places
  <2>2. CASE j < k
    <3>1. j \in 1 .. k - 1 /\ j \in 1 .. n - 1
      BY <1>2, <2>1, <2>2
    <3>2. new[j] = list[j]
      BY <1>1, <3>1
    <3>3. j \in Places(new, S)
      BY <1>3, <2>1, <3>1, <3>2 DEF Places
    <3>4. QED
      BY <2>2, <3>3
  <2>3. CASE ~ (j < k)
    <3>1. j - 1 \in k .. n - 1 /\ j - 1 \in 1 .. n - 1 /\ (j - 1) + 1 = j /\ ~ (j - 1 < k)
      BY <1>2, <2>1, <2>3
    <3>2. new[j - 1] = list[j]
      BY <1>1, <3>1
    <3>3. j - 1 \in Places(new, S)
      BY <1>3, <2>1, <3>1, <3>2 DEF Places
    <3>4. place[j - 1] = j
      BY <3>1, <3>3
    <3>5. QED
      BY <3>3, <3>4
  <2>4. QED
    BY <2>2, <2>3
<1>9. Cardinality(Old) = Cardinality(Places(new, S))
  <2>1. place \in [Places(new, S) -> Old]
    BY <1>6
  <2> HIDE DEF place, Old
  <2>2. place \in Bijection(Places(new, S), Old)
    BY <1>7, <1>8, <2>1, Fun_IsBij
  <2>3. ExistsBijection(Places(new, S), Old)
    BY <2>2, Fun_ExistsBij
  <2>4. QED
    BY <1>5, <2>3, FS_Bijection
<1>10. Cardinality(Old) = IF k \in Places(list, S) THEN Cardinality(Places(list, S)) - 1
                                                  ELSE Cardinality(Places(list, S))
  BY <1>4, FS_RemoveElement
<1>11. k \in Places(list, S) <=> list[k] \in S
  BY DEF Places
<1>12. QED
  BY <1>4, <1>5, <1>9, <1>10, <1>11 DEF new

\* Unsubscribing takes out at most one sender, one of the user's, and its
\* place is among the list's.
LEMMA WithoutUserProperties ==
    ASSUME NEW list \in Seq(SenderType), NEW user
    PROVE  /\ WithoutUser(list, user) \in Seq(SenderType)
           /\ \/ WithoutUser(list, user) = list
              \/ \E k \in DOMAIN list :
                     list[k].user = user /\ WithoutUser(list, user) = RemoveAt(list, k)
<1>1. CASE \E i \in DOMAIN list : list[i].user = user
  <2> DEFINE I == {i \in DOMAIN list : list[i].user = user}
             R == {ss \in Nat \X Nat : ss[1] < ss[2]}
  <2>1. IsWellFoundedOn(R, Nat)
    <3>1. OpToRel(<, Nat) = R
      BY Zenon DEF OpToRel
    <3>2. QED
      BY Zenon, <3>1, NatLessThanWellFounded
  <2>2. I \in SUBSET Nat /\ I # {}
    BY <1>1
  <2>3. PICK i \in I : \A j \in I : ~ (<<j, i>> \in R)
    <3> HIDE DEF I, R
    <3> QED
      BY <2>1, <2>2, WFMin
  <2>4. ASSUME NEW j \in 1 .. i - 1 PROVE list[j].user # user
    <3>1. j \in DOMAIN list /\ j \in Nat /\ i \in Nat /\ j < i
      OBVIOUS
    <3>2. <<j, i>> \in R
      BY <3>1
    <3>3. j \notin I
      BY <2>3, <3>2
    <3>4. QED
      BY <3>1, <3>3
  <2>5. FirstOf(list, user, i)
    BY <2>4 DEF FirstOf
  <2>6. PICK k : k = CHOOSE n \in DOMAIN list : FirstOf(list, user, n)
    OBVIOUS
  <2>7. k \in DOMAIN list /\ list[k].user = user
    BY <2>5, <2>6 DEF FirstOf
  <2>8. WithoutUser(list, user) = RemoveAt(list, k)
    BY <1>1, <2>6 DEF WithoutUser
  <2>9. QED
    BY <2>7, <2>8, RemoveAtProperties
<1>2. CASE ~ \E i \in DOMAIN list : list[i].user = user
  BY <1>2 DEF WithoutUser
<1>3. QED
  BY <1>1, <1>2

-----------------------------------------------------------------------------
(* Type correctness *)

\* The types hold initially.
LEMMA TypeInit == Init => TypeOK /\ FailedAreClosed
  BY ConsumerAssumption, HubAssumption
     DEF Init, ConsumerInit, TypeOK, ConsumerTypeOK, Phases, NoCommit, Offsets, InChannel,
         FailedAreClosed, Open, Waiting

\* The sender taken out next is the last of those marked.
LEMMA NextFailedIsLast ==
    ASSUME TypeOK, failed # {}
    PROVE  NextFailed \in failed /\ \A j \in failed : j <= NextFailed
<1>1. failed \in SUBSET Nat /\ index \in Nat /\ \A i \in failed : i <= index
  BY DEF TypeOK
<1>2. \E i \in failed : \A j \in failed : j <= i
  BY <1>1, GreatestExists
<1>3. QED
  BY <1>2 DEF NextFailed

\* The file of a task that is on its way to the map.
LEMMA WaitsForFile ==
    ASSUME TypeOK, NEW c \in Conn, pc[c] \in Waiting
    PROVE  command[c] \in OnFile /\ command[c].file \in File
  BY DEF TypeOK, OnFile

\* The sender the consumer is at is in the list of the file.
LEMMA SenderAt ==
    ASSUME TypeOK, NEW i, At(i)
    PROVE  /\ phase = "handling" /\ Current \in DOMAIN senders /\ Current \in File
           /\ senders[Current] \in Seq(SenderType) /\ i \in DOMAIN senders[Current]
           /\ senders[Current][i] \in SenderType /\ senders[Current][i].conn \in Conn
<1>1. phase = "handling" /\ Current \in DOMAIN senders /\ i \in DOMAIN senders[Current]
  BY DEF TypeOK, At
<1>2. senders[Current] \in Seq(SenderType) /\ Current \in File
  BY <1>1 DEF TypeOK
<1>3. senders[Current][i] \in SenderType
  BY <1>1, <1>2
<1>4. QED
  BY <1>1, <1>2, <1>3 DEF SenderType

\* A sender is typed.
LEMMA SenderTyped ==
    ASSUME TypeOK, NEW c \in Conn
    PROVE  Sender(c) \in SenderType /\ Sender(c).conn = c /\ Sender(c).since = position
           /\ Sender(c).user = UserOf(c)
<1>1. position \in Nat
  BY DEF TypeOK, ConsumerTypeOK
<1>2. QED
  BY <1>1 DEF Sender, SenderType

\* The types of what belongs to the consumer task.
HubTypes ==
    /\ ConsumerTypeOK
    /\ log \in Seq(File \cup {NoKey})
    /\ DOMAIN senders \subseteq File
    /\ \A f \in DOMAIN senders : senders[f] \in Seq(SenderType)
    /\ index \in Nat
    /\ index > 0 => phase = "handling" /\ Current \in DOMAIN senders
    /\ failed \subseteq 1 .. index - 1
    /\ firsts \in [File -> Nat]

\* The types of what belongs to the connections.
ConnTypes ==
    /\ pc \in [Conn -> Open \cup {"none", "closed"}]
    /\ command \in [Conn -> OnFile \cup {NoCommand}]
    /\ commands \in 0 .. MaxCommands
    /\ \A c \in Conn : pc[c] \in Waiting => command[c] # NoCommand
    /\ sent \in [Conn -> Seq(Nat)]
    /\ taken \in [Conn -> Nat]
    /\ \A c \in Conn : InChannel(c) \in 0 .. Capacity
    /\ asked \in [Conn -> [File -> Nat]]
    /\ left \in [Conn -> SUBSET File]

\* The consumer's steps and the commands preserve the types of the map.
LEMMA HubTypeStep == TypeOK /\ FailedAreClosed /\ [Next]_vars => HubTypes'
<1> SUFFICES ASSUME TypeOK, FailedAreClosed, [Next]_vars PROVE HubTypes'
  OBVIOUS
<1> USE ConsumerAssumption, HubAssumption
    DEF HubTypes, ConsumerTypeOK, Phases, NoCommit, Offsets, Fault, hubVars, consumerVars
<1>0. HubTypes
  BY DEF TypeOK
<1>1. ASSUME NEW message \in File \cup {NoKey}, Publish(message) PROVE HubTypes'
  <2>1. log' \in Seq(File \cup {NoKey}) /\ Len(log') = Len(log) + 1
        /\ \A i \in 1 .. Len(log) : log'[i] = log[i]
    BY <1>0, <1>1 DEF Publish, Produce
  <2>2. index > 0 => Current' = Current
    BY <1>0, <1>1, <2>1 DEF Publish, Produce, Current, MessageAt
  <2>3. QED
    BY <1>0, <1>1, <2>1, <2>2 DEF Publish, Produce
<1>2. CASE JoinGroup
  <2>1. index = 0
    BY <1>0, <1>2 DEF JoinGroup, Join
  <2>2. position' \in 0 .. Len(log) /\ start' = position' /\ committed <= position' + 1
    <3>1. Len(log) \in Nat
      BY <1>0
    <3>2. QED
      BY <1>0, <1>2, <3>1 DEF JoinGroup, Join
  <2>3. lost' \subseteq Offsets
    <3>1. lost' = lost \cup (position .. position' - 1) /\ lost \subseteq 0 .. Len(log) - 1
      BY <1>0, <1>2, <2>2 DEF JoinGroup, Join
    <3>2. position \in Nat /\ position' \in Nat /\ Len(log) \in Nat /\ position' <= Len(log)
      BY <1>0, <2>2
    <3>3. \A k \in position .. position' - 1 : k \in 0 .. Len(log) - 1
      <4>1. \A a, b, n \in Nat : b <= n => \A k \in a .. b - 1 : k \in 0 .. n - 1
        OBVIOUS
      <4>2. QED
        BY <3>2, <4>1
    <3>4. QED
      BY <3>1, <3>3
  <2>4. QED
    BY <1>0, <1>2, <2>1, <2>2, <2>3 DEF JoinGroup, Join
<1>3. CASE TakeMessage
  BY <1>0, <1>3 DEF TakeMessage, Fetch, Current, MessageAt
<1>4. CASE PassOver
  BY <1>0, <1>4 DEF PassOver, Handled
<1>5. CASE LockSenders
  BY <1>0, <1>5 DEF LockSenders, Current, MessageAt
<1>6. CASE SendNext \/ SendFails
  <2>1. /\ index' = index + 1 /\ failed' \subseteq failed \cup {index} /\ index > 0
        /\ UNCHANGED <<consumerVars, senders, firsts>>
    BY <1>6 DEF SendNext, SendFails, At
  <2>2. QED
    BY <1>0, <2>1 DEF Current, MessageAt
<1>7. CASE RemoveFailed
  <2> DEFINE i == NextFailed
  <2>1. i \in DOMAIN senders[Current]
    BY <1>7, NextFailedIsLast DEF RemoveFailed, FailedAreClosed
  <2>2. Current \in DOMAIN senders /\ senders[Current] \in Seq(SenderType)
    BY <1>0, <1>7 DEF RemoveFailed, AtEnd
  <2>3. RemoveAt(senders[Current], i) \in Seq(SenderType)
    BY <2>1, <2>2, RemoveAtProperties
  <2>4. senders' = [senders EXCEPT ![Current] = RemoveAt(senders[Current], i)]
        /\ failed' \subseteq failed /\ UNCHANGED <<consumerVars, index, firsts>>
    BY <1>7 DEF RemoveFailed
  <2> HIDE DEF i
  <2>5. Current' = Current
    BY <2>4 DEF Current, MessageAt
  <2>6. DOMAIN senders' = DOMAIN senders
        /\ \A f \in DOMAIN senders' : senders'[f] \in Seq(SenderType)
    BY <1>0, <2>2, <2>3, <2>4
  <2>7. QED
    BY <1>0, <2>4, <2>5, <2>6
<1>8. CASE Release
  BY <1>0, <1>8 DEF Release, Handled
<1>9. CASE CrashService
  BY <1>0, <1>9 DEF CrashService, Crash, Delivered
<1>10. ASSUME NEW c \in Conn, Subscribe(c) PROVE HubTypes'
  <2>1. PICK f : f = command[c].file
    OBVIOUS
  <2>2. f \in DOMAIN senders /\ senders[f] \in Seq(SenderType)
    BY <1>0, <1>10, <2>1 DEF Subscribe
  <2>3. PICK list : list = Append(senders[f], Sender(c))
    OBVIOUS
  <2>4. list \in Seq(SenderType)
    BY <2>2, <2>3, SenderTyped
  <2>5. senders' = [senders EXCEPT ![f] = list] /\ UNCHANGED <<consumerVars, index, failed, firsts>>
    BY <1>10, <2>1, <2>3 DEF Subscribe, Done
  <2>6. DOMAIN senders' = DOMAIN senders
        /\ \A g \in DOMAIN senders' : senders'[g] \in Seq(SenderType)
    BY <1>0, <2>2, <2>4, <2>5
  <2>7. QED
    BY <1>0, <2>5, <2>6 DEF Current, MessageAt
<1>11. ASSUME NEW c \in Conn, Insert(c) PROVE HubTypes'
  <2>1. PICK f \in File : f = command[c].file
    BY <1>11, WaitsForFile DEF Insert, Waiting
  <2>2. PICK list \in Seq(SenderType) : list = <<Sender(c)>>
    <3>1. Sender(c) \in SenderType
      BY SenderTyped
    <3>2. <<Sender(c)>> \in Seq(SenderType)
      BY <3>1
    <3>3. QED
      BY <3>2
  <2>3. /\ senders' = [g \in DOMAIN senders \cup {f} |-> IF g = f THEN list ELSE senders[g]]
        /\ firsts' = [firsts EXCEPT ![f] = @ + 1]
        /\ UNCHANGED <<consumerVars, index, failed>>
    BY <1>11, <2>1, <2>2 DEF Insert, Done
  <2>4. QED
    BY <1>0, <2>3 DEF Current, MessageAt
<1>12. ASSUME NEW c \in Conn, Unsubscribe(c) PROVE HubTypes'
  <2>1. PICK f : f = command[c].file
    OBVIOUS
  <2>2. PICK user : user = UserOf(c)
    OBVIOUS
  <2>3. /\ UNCHANGED <<consumerVars, index, failed, firsts>>
        /\ senders' = IF f \in DOMAIN senders
                      THEN [senders EXCEPT ![f] = WithoutUser(senders[f], user)]
                      ELSE senders
    BY <1>12, <2>1, <2>2 DEF Unsubscribe, Done
  <2>4. ASSUME f \in DOMAIN senders PROVE WithoutUser(senders[f], user) \in Seq(SenderType)
    BY <1>0, <2>4, WithoutUserProperties
  <2>5. DOMAIN senders' = DOMAIN senders
        /\ \A g \in DOMAIN senders' : senders'[g] \in Seq(SenderType)
    BY <1>0, <2>3, <2>4
  <2>6. QED
    BY <1>0, <2>3, <2>5 DEF Current, MessageAt
<1>13. ASSUME NEW c \in Conn, Accept(c) \/ SubscribeFirst(c) \/ TakeUpdate(c) \/ ClientReads(c)
                               \/ Disconnect(c) \/ \E cmd \in Command : Receive(c, cmd)
       PROVE  HubTypes'
  <2>1. UNCHANGED <<consumerVars, hubVars>>
    BY <1>13 DEF Accept, SubscribeFirst, TakeUpdate, ClientReads, Disconnect, Receive
  <2>2. QED
    BY <1>0, <2>1 DEF Current, MessageAt
<1>14. CASE UNCHANGED vars
  BY <1>0, <1>14 DEF vars, Current, MessageAt
<1>15. QED
  BY <1>1, <1>2, <1>3, <1>4, <1>5, <1>6, <1>7, <1>8, <1>9, <1>10, <1>11, <1>12, <1>13, <1>14
     DEF Next, Consume, Handle

\* A task keeps to its places, and does not come back from the last one.
PcStep(c) ==
    /\ pc[c] = "closed" => pc'[c] = "closed"
    /\ pc'[c] \in Open => pc[c] \in Open \cup {"none"}
    /\ pc'[c] = "none" => pc[c] = "none"

\* What Goto does to the places of the tasks.
LEMMA GotoSteps ==
    ASSUME TypeOK, NEW c \in Conn, NEW place \in Open \cup {"closed"},
           pc[c] # "closed", Goto(c, place)
    PROVE  pc' \in [Conn -> Open \cup {"none", "closed"}] /\ pc'[c] = place
           /\ \A d \in Conn : PcStep(d) /\ (d # c => pc'[d] = pc[d])
<1>1. pc \in [Conn -> Open \cup {"none", "closed"}] /\ pc' = [pc EXCEPT ![c] = place]
  BY DEF TypeOK, Goto
<1>2. place # "none" /\ "closed" \notin Open
  BY DEF Open, Waiting
<1>3. QED
  BY <1>1, <1>2 DEF PcStep

\* The tasks' steps preserve the types of the connections.
LEMMA ConnTypeStep ==
    TypeOK /\ [Next]_vars => ConnTypes' /\ \A d \in Conn : PcStep(d)
<1> SUFFICES ASSUME TypeOK, [Next]_vars PROVE ConnTypes' /\ \A d \in Conn : PcStep(d)
  OBVIOUS
<1> DEFINE Goal == ConnTypes' /\ \A d \in Conn : PcStep(d)
<1>0. ConnTypes
  BY DEF TypeOK, ConnTypes
<1>1. ASSUME UNCHANGED connVars PROVE Goal
  <2>1. \A d \in Conn : PcStep(d)
    BY <1>0, <1>1 DEF connVars, PcStep, ConnTypes
  <2>2. ConnTypes'
    BY <1>0, <1>1 DEF connVars, ConnTypes, InChannel
  <2>3. QED
    BY <2>1, <2>2
<1>2. CASE SendNext
  <2>1. PICK i : At(i) /\ i = index
    BY <1>2 DEF SendNext
  <2>2. PICK c \in Conn : c = senders[Current][i].conn
    BY <2>1, SenderAt
  <2>3. /\ pc[c] \in Open /\ InChannel(c) < Capacity
        /\ sent' = [sent EXCEPT ![c] = Append(@, position)]
        /\ UNCHANGED <<pc, command, commands, taken, asked, left>>
    BY <1>2, <2>1, <2>2 DEF SendNext
  <2>4. position \in Nat
    BY DEF TypeOK, ConsumerTypeOK
  <2>5. sent' \in [Conn -> Seq(Nat)] /\ Len(sent'[c]) = Len(sent[c]) + 1
        /\ \A d \in Conn : d # c => sent'[d] = sent[d]
    <3>1. sent[c] \in Seq(Nat)
      BY <1>0 DEF ConnTypes
    <3>2. Append(sent[c], position) \in Seq(Nat)
          /\ Len(Append(sent[c], position)) = Len(sent[c]) + 1
      BY <2>4, <3>1, AppendProperties
    <3>3. QED
      BY <1>0, <2>3, <3>2 DEF ConnTypes
  <2>6. \A d \in Conn : InChannel(d)' \in 0 .. Capacity
    <3>1. ASSUME NEW d \in Conn PROVE InChannel(d)' \in 0 .. Capacity
      <4>1. Len(sent[d]) \in Nat /\ taken[d] \in Nat /\ InChannel(d) \in 0 .. Capacity
        BY <1>0 DEF ConnTypes
      <4>2. taken'[d] = taken[d]
            /\ \/ Len(sent'[d]) = Len(sent[d])
               \/ d = c /\ Len(sent'[d]) = Len(sent[d]) + 1
        BY <2>3, <2>5
      <4>3. QED
        BY <2>3, <4>1, <4>2, HubAssumption DEF InChannel
    <3>2. QED
      BY <3>1
  <2>7. \A d \in Conn : PcStep(d)
    BY <1>0, <2>3 DEF PcStep, ConnTypes
  <2>8. QED
    BY <1>0, <2>3, <2>5, <2>6, <2>7 DEF ConnTypes
<1>3. CASE CrashService
  <2>1. /\ pc' = [c \in Conn |-> IF pc[c] = "none" THEN "none" ELSE "closed"]
        /\ UNCHANGED <<command, commands, sent, taken, asked, left>>
    BY <1>3 DEF CrashService
  <2>2. \A d \in Conn : PcStep(d)
    BY <2>1 DEF PcStep, Open, Waiting
  <2>3. ConnTypes'
    BY <1>0, <2>1 DEF ConnTypes, InChannel, Waiting
  <2>4. QED
    BY <2>2, <2>3
<1>4. ASSUME NEW c \in Conn, NEW place \in Open \cup {"closed"},
             pc[c] # "closed", Goto(c, place), place \notin Waiting \/ pc[c] = "subscribe",
             UNCHANGED <<command, commands, sent, taken, asked, left>>
      PROVE  Goal
  <2>1. pc' \in [Conn -> Open \cup {"none", "closed"}] /\ pc'[c] = place
        /\ \A d \in Conn : PcStep(d) /\ (d # c => pc'[d] = pc[d])
    BY <1>4, GotoSteps
  <2>2. \A d \in Conn : pc'[d] \in Waiting => pc[d] \in Waiting
    BY <1>4, <2>1 DEF Waiting
  <2>3. QED
    BY <1>0, <1>4, <2>1, <2>2 DEF ConnTypes, InChannel
<1>5. ASSUME NEW c \in Conn, Accept(c) \/ SubscribeFirst(c) \/ ClientReads(c) \/ Disconnect(c)
      PROVE  Goal
  <2>1. PICK place \in {"select", "insert", "closed"} :
            /\ Goto(c, place) /\ pc[c] # "closed"
            /\ place = "insert" => pc[c] = "subscribe"
            /\ UNCHANGED <<command, commands, sent, taken, asked, left>>
    BY <1>5 DEF Accept, SubscribeFirst, ClientReads, Disconnect
  <2>2. place \in Open \cup {"closed"} /\ (place \notin Waiting \/ pc[c] = "subscribe")
    BY <2>1 DEF Open, Waiting
  <2>3. QED
    BY <1>4, <2>1, <2>2
<1>6. ASSUME NEW c \in Conn, TakeUpdate(c) PROVE Goal
  <2>1. /\ Goto(c, "sending") /\ pc[c] = "select" /\ InChannel(c) > 0
        /\ taken' = [taken EXCEPT ![c] = @ + 1]
        /\ UNCHANGED <<command, commands, sent, asked, left>>
    BY <1>6 DEF TakeUpdate
  <2>2. "sending" \in Open \cup {"closed"} /\ "sending" \notin Waiting
    BY DEF Open, Waiting
  <2>3. pc' \in [Conn -> Open \cup {"none", "closed"}] /\ pc'[c] = "sending"
        /\ \A d \in Conn : PcStep(d) /\ (d # c => pc'[d] = pc[d])
    BY <2>1, <2>2, GotoSteps
  <2>4. \A d \in Conn : InChannel(d)' \in 0 .. Capacity
    <3>1. ASSUME NEW d \in Conn PROVE InChannel(d)' \in 0 .. Capacity
      <4>1. Len(sent[d]) \in Nat /\ taken[d] \in Nat /\ InChannel(d) \in 0 .. Capacity
        BY <1>0 DEF ConnTypes
      <4>2. sent'[d] = sent[d]
            /\ \/ taken'[d] = taken[d]
               \/ d = c /\ taken'[d] = taken[d] + 1
        BY <1>0, <2>1 DEF ConnTypes
      <4>3. QED
        BY <2>1, <4>1, <4>2, HubAssumption DEF InChannel
    <3>2. QED
      BY <3>1
  <2>5. taken' \in [Conn -> Nat]
    BY <1>0, <2>1 DEF ConnTypes
  <2>6. \A d \in Conn : pc'[d] \in Waiting => pc[d] \in Waiting
    BY <2>2, <2>3
  <2>7. QED
    BY <1>0, <2>1, <2>3, <2>4, <2>5, <2>6 DEF ConnTypes
<1>7. ASSUME NEW c \in Conn, NEW cmd \in Command, Receive(c, cmd) PROVE Goal
  <2>1. PICK place : place = CASE cmd.name = "other"   -> "sending"
                               [] cmd.name = "invalid" -> "select"
                               [] cmd.name = "close"   -> "closed"
                               [] OTHER                -> cmd.name
    OBVIOUS
  <2>2. \/ cmd \in OnFile /\ place \in {"subscribe", "unsubscribe"} /\ place = cmd.name
        \/ cmd.name \notin {"subscribe", "unsubscribe"} /\ place \in {"sending", "select", "closed"}
    BY <2>1 DEF Command, OnFile
  <2>3. /\ Goto(c, place) /\ pc[c] = "select" /\ commands < MaxCommands
        /\ commands' = commands + 1
        /\ command' = IF cmd.name \in {"subscribe", "unsubscribe"}
                      THEN [command EXCEPT ![c] = cmd] ELSE command
        /\ UNCHANGED <<sent, taken, asked, left>>
    BY <1>7, <2>1 DEF Receive
  <2>4. place \in Open \cup {"closed"}
    BY <2>2 DEF Open, Waiting
  <2>5. pc' \in [Conn -> Open \cup {"none", "closed"}] /\ pc'[c] = place
        /\ \A d \in Conn : PcStep(d) /\ (d # c => pc'[d] = pc[d])
    BY <2>3, <2>4, GotoSteps
  <2>6. command' \in [Conn -> OnFile \cup {NoCommand}]
        /\ \A d \in Conn : d # c => command'[d] = command[d]
    BY <1>0, <2>2, <2>3 DEF ConnTypes, OnFile
  <2>7. \A d \in Conn : pc'[d] \in Waiting => command'[d] # NoCommand
    <3>1. ASSUME pc'[c] \in Waiting PROVE command'[c] # NoCommand
      <4>1. cmd \in OnFile /\ cmd.name \in {"subscribe", "unsubscribe"}
        BY <2>2, <2>5, <3>1 DEF Waiting
      <4>2. command'[c] = cmd
        BY <1>0, <2>3, <4>1 DEF ConnTypes
      <4>3. NoCommand.name = "none"
        BY DEF NoCommand
      <4>4. QED
        BY <4>1, <4>2, <4>3
    <3>2. QED
      BY <1>0, <2>5, <2>6, <3>1 DEF ConnTypes
  <2>8. commands' \in 0 .. MaxCommands
    BY <1>0, <2>3, HubAssumption DEF ConnTypes
  <2>9. QED
    BY <1>0, <2>3, <2>5, <2>6, <2>7, <2>8 DEF ConnTypes, InChannel
<1>8. ASSUME NEW c \in Conn, Subscribe(c) \/ Insert(c) \/ Unsubscribe(c) PROVE Goal
  <2>1. PICK f \in File : f = command[c].file
    BY <1>8, WaitsForFile DEF Subscribe, Insert, Unsubscribe, Waiting
  <2>2. /\ Goto(c, "select") /\ pc[c] \in Waiting
        /\ command' = [command EXCEPT ![c] = NoCommand]
        /\ UNCHANGED <<commands, sent, taken>>
    BY <1>8 DEF Subscribe, Insert, Unsubscribe, Done, Waiting
  <2>3. /\ asked' = [asked EXCEPT ![c][f] = @ + 1] \/ asked' = asked
        /\ left' = [left EXCEPT ![c] = @ \cup {f}] \/ left' = left
    BY <1>8, <2>1 DEF Subscribe, Insert, Unsubscribe, Subscribed
  <2>4. "select" \in Open \cup {"closed"} /\ "select" \notin Waiting /\ pc[c] # "closed"
    BY <2>2 DEF Open, Waiting
  <2>5. pc' \in [Conn -> Open \cup {"none", "closed"}] /\ pc'[c] = "select"
        /\ \A d \in Conn : PcStep(d) /\ (d # c => pc'[d] = pc[d])
    BY <2>2, <2>4, GotoSteps
  <2>6. asked' \in [Conn -> [File -> Nat]] /\ left' \in [Conn -> SUBSET File]
    <3>1. asked \in [Conn -> [File -> Nat]] /\ left \in [Conn -> SUBSET File]
      BY <1>0 DEF ConnTypes
    <3>2. [asked[c] EXCEPT ![f] = @ + 1] \in [File -> Nat]
      BY <3>1
    <3>3. asked' = [asked EXCEPT ![c] = [asked[c] EXCEPT ![f] = @ + 1]] \/ asked' = asked
      BY <2>3
    <3>4. asked' \in [Conn -> [File -> Nat]]
      BY <3>1, <3>2, <3>3
    <3>5. left' \in [Conn -> SUBSET File]
      BY <2>3, <3>1
    <3>6. QED
      BY <3>4, <3>5
  <2>7. command' \in [Conn -> OnFile \cup {NoCommand}]
        /\ \A d \in Conn : d # c => command'[d] = command[d]
    BY <1>0, <2>2 DEF ConnTypes
  <2>8. QED
    BY <1>0, <2>2, <2>4, <2>5, <2>6, <2>7 DEF ConnTypes, InChannel
<1>9. ASSUME \/ \E message \in File \cup {NoKey} : Publish(message)
             \/ JoinGroup \/ TakeMessage \/ PassOver \/ LockSenders
             \/ SendFails \/ RemoveFailed \/ Release \/ UNCHANGED vars
      PROVE  Goal
  <2>1. UNCHANGED connVars
    BY <1>9 DEF Publish, JoinGroup, TakeMessage, PassOver, LockSenders, SendFails,
       RemoveFailed, Release, vars, connVars
  <2>2. QED
    BY <1>1, <2>1
<1>10. QED
  BY <1>2, <1>3, <1>5, <1>6, <1>7, <1>8, <1>9 DEF Next, Consume, Handle

-----------------------------------------------------------------------------
(* Steps *)

\* A step that moves a task or takes a message, and nothing else.
Unseen ==
    /\ UNCHANGED <<log, position, lost, hubVars, sent, asked, left>>
    /\ phase' = phase \/ (phase = "polling" /\ phase' = "handling")

\* A command on file f is done, under the lock of its shard.
CommandDone(c, f) ==
    /\ index > 0 => f # Current
    /\ pc[c] \in Open
    /\ UNCHANGED <<consumerVars, index, failed, sent>>
    /\ \A g \in File : g # f =>
           /\ g \in DOMAIN senders' <=> g \in DOMAIN senders
           /\ g \in DOMAIN senders => senders'[g] = senders[g]
           /\ firsts'[g] = firsts[g]
    /\ \A d \in Conn : \A g \in File : (d # c \/ g # f) => asked'[d][g] = asked[d][g]
    /\ \A d \in Conn : left[d] \subseteq left'[d]

Joined(c, f) ==
    /\ f \in DOMAIN senders /\ f \in DOMAIN senders'
    /\ senders'[f] = Append(senders[f], Sender(c))
    /\ asked'[c][f] = asked[c][f] + 1
    /\ firsts'[f] = firsts[f]

Replaced(c, f) ==
    /\ f \in DOMAIN senders'
    /\ senders'[f] = <<Sender(c)>>
    /\ asked'[c][f] = asked[c][f] + 1
    /\ firsts'[f] = firsts[f] + 1

Withdrawn(c, f) ==
    /\ f \in DOMAIN senders' <=> f \in DOMAIN senders
    /\ f \in DOMAIN senders =>
           \/ senders'[f] = senders[f]
           \/ \E k \in DOMAIN senders[f] :
                  /\ senders[f][k].user = UserOf(c)
                  /\ senders'[f] = RemoveAt(senders[f], k)
    /\ asked'[c][f] = asked[c][f]
    /\ firsts'[f] = firsts[f]
    /\ f \in left'[c]

\* What a command on a file does.
LEMMA CommandEffect ==
    ASSUME TypeOK, NEW c \in Conn, Subscribe(c) \/ Insert(c) \/ Unsubscribe(c)
    PROVE  \E f \in File :
               CommandDone(c, f) /\ (Joined(c, f) \/ Replaced(c, f) \/ Withdrawn(c, f))
<1>1. PICK f \in File : f = command[c].file
  BY WaitsForFile DEF Subscribe, Insert, Unsubscribe, Waiting
<1>2. /\ ~Locked(f) /\ pc[c] \in Open
      /\ UNCHANGED <<consumerVars, index, failed, sent>>
  BY <1>1 DEF Subscribe, Insert, Unsubscribe, Done, Open, Waiting
<1>3. index > 0 => f # Current
  BY <1>2 DEF Locked
<1>4. /\ asked \in [Conn -> [File -> Nat]] /\ left \in [Conn -> SUBSET File]
      /\ firsts \in [File -> Nat] /\ DOMAIN senders \subseteq File
      /\ \A g \in DOMAIN senders : senders[g] \in Seq(SenderType)
  BY DEF TypeOK
<1>5. ASSUME Subscribed(c, f)
      PROVE  /\ asked'[c][f] = asked[c][f] + 1 /\ left' = left
             /\ \A d \in Conn : \A g \in File : (d # c \/ g # f) => asked'[d][g] = asked[d][g]
  <2>1. asked' = [asked EXCEPT ![c] = [asked[c] EXCEPT ![f] = asked[c][f] + 1]] /\ left' = left
    BY <1>5 DEF Subscribed
  <2>2. asked[c] \in [File -> Nat]
    BY <1>4
  <2>3. QED
    BY <1>4, <2>1, <2>2
<1>6. CASE Subscribe(c)
  <2>1. /\ f \in DOMAIN senders /\ firsts' = firsts /\ Subscribed(c, f)
        /\ senders' = [senders EXCEPT ![f] = Append(senders[f], Sender(c))]
    BY <1>1, <1>6 DEF Subscribe
  <2>2. Joined(c, f)
    BY <1>5, <2>1 DEF Joined
  <2>3. CommandDone(c, f)
    BY <1>2, <1>3, <1>5, <2>1 DEF CommandDone
  <2>4. QED
    BY <2>2, <2>3
<1>7. CASE Insert(c)
  <2>1. /\ firsts' = [firsts EXCEPT ![f] = firsts[f] + 1] /\ Subscribed(c, f)
        /\ senders' = [g \in DOMAIN senders \cup {f} |->
                          IF g = f THEN <<Sender(c)>> ELSE senders[g]]
    BY <1>1, <1>7 DEF Insert
  <2>2. Replaced(c, f)
    BY <1>4, <1>5, <2>1 DEF Replaced
  <2>3. ASSUME NEW g \in File, g # f
        PROVE  /\ g \in DOMAIN senders' <=> g \in DOMAIN senders
               /\ g \in DOMAIN senders => senders'[g] = senders[g]
    BY <1>4, <2>1, <2>3
  <2>4. CommandDone(c, f)
    BY <1>2, <1>3, <1>4, <1>5, <2>1, <2>3 DEF CommandDone
  <2>5. QED
    BY <2>2, <2>4
<1>8. CASE Unsubscribe(c)
  <2>1. PICK user : user = UserOf(c)
    OBVIOUS
  <2>2. /\ firsts' = firsts /\ asked' = asked
        /\ left' = [left EXCEPT ![c] = left[c] \cup {f}]
        /\ senders' = IF f \in DOMAIN senders
                      THEN [senders EXCEPT ![f] = WithoutUser(senders[f], user)]
                      ELSE senders
    BY <1>1, <1>8, <2>1 DEF Unsubscribe
  <2>3. f \in left'[c] /\ \A d \in Conn : left[d] \subseteq left'[d]
    BY <1>4, <2>2
  <2>4. f \in DOMAIN senders =>
            \/ WithoutUser(senders[f], user) = senders[f]
            \/ \E k \in DOMAIN senders[f] :
                   /\ senders[f][k].user = user
                   /\ WithoutUser(senders[f], user) = RemoveAt(senders[f], k)
    BY <1>4, WithoutUserProperties
  <2>5. f \in DOMAIN senders => senders'[f] = WithoutUser(senders[f], user)
    BY <2>2
  <2>6. DOMAIN senders' = DOMAIN senders /\ \A g \in File : g # f => senders'[g] = senders[g]
    BY <2>2
  <2>7. Withdrawn(c, f)
    BY <2>1, <2>2, <2>3, <2>4, <2>5, <2>6 DEF Withdrawn
  <2>8. CommandDone(c, f)
    BY <1>2, <1>3, <2>2, <2>3, <2>6 DEF CommandDone
  <2>9. QED
    BY <2>7, <2>8
<1>9. QED
  BY <1>6, <1>7, <1>8

\* The kinds of steps there are.
LEMMA StepCases ==
    ASSUME TypeOK, [Next]_vars
    PROVE  \/ Unseen
           \/ \E message \in File \cup {NoKey} : Publish(message)
           \/ JoinGroup \/ PassOver \/ LockSenders \/ SendNext \/ SendFails
           \/ RemoveFailed \/ Release \/ CrashService
           \/ \E c \in Conn : \E f \in File :
                  CommandDone(c, f) /\ (Joined(c, f) \/ Replaced(c, f) \/ Withdrawn(c, f))
<1>1. ASSUME NEW c \in Conn, Accept(c) \/ SubscribeFirst(c) \/ TakeUpdate(c) \/ ClientReads(c)
                             \/ Disconnect(c) \/ \E cmd \in Command : Receive(c, cmd)
      PROVE  Unseen
  BY <1>1 DEF Accept, SubscribeFirst, TakeUpdate, ClientReads, Disconnect, Receive,
     Unseen, consumerVars
<1>2. ASSUME TakeMessage \/ UNCHANGED vars PROVE Unseen
  BY <1>2 DEF TakeMessage, Fetch, Unseen, vars, consumerVars, hubVars, connVars
<1>3. QED
  BY <1>1, <1>2, CommandEffect DEF Next, Consume, Handle

\* A message once in the log stays where it is.
LEMMA MessagesKept ==
    ASSUME TypeOK, [Next]_vars
    PROVE  /\ Offsets \subseteq Offsets'
           /\ \A k \in Offsets : MessageAt(k)' = MessageAt(k)
           /\ phase = "handling" => position \in Offsets /\ Current \in File \cup {NoKey}
<1>1. log \in Seq(File \cup {NoKey}) /\ position \in Nat
      /\ (phase = "handling" => position < Len(log))
  BY DEF TypeOK, ConsumerTypeOK
<1>2. phase = "handling" => position \in Offsets /\ Current \in File \cup {NoKey}
  BY <1>1 DEF Offsets, Current, MessageAt
<1>3. CASE \E message \in File \cup {NoKey} : Publish(message)
  <2>1. PICK message \in File \cup {NoKey} : log' = Append(log, message)
    BY <1>3 DEF Publish, Produce
  <2>2. Len(log') = Len(log) + 1 /\ \A i \in 1 .. Len(log) : log'[i] = log[i]
    BY <1>1, <2>1
  <2>3. \A k \in Offsets : k + 1 \in 1 .. Len(log)
    BY <1>1 DEF Offsets
  <2>4. Offsets \subseteq Offsets'
    BY <1>1, <2>2 DEF Offsets
  <2>5. QED
    BY <1>2, <2>2, <2>3, <2>4 DEF MessageAt
<1>4. CASE log' = log
  BY <1>2, <1>4 DEF Offsets, MessageAt
<1>5. QED
  BY <1>3, <1>4, StepCases DEF Unseen, JoinGroup, Join, PassOver, Handled, LockSenders, SendNext,
     SendFails, RemoveFailed, Release, CrashService, Crash, CommandDone, consumerVars

\* Only senders that are found closed are marked, and taking out the last
\* leaves the others where they are.
LEMMA FailedStep == TypeOK /\ FailedAreClosed /\ [Next]_vars => FailedAreClosed'
<1> SUFFICES ASSUME TypeOK, FailedAreClosed, [Next]_vars PROVE FailedAreClosed'
  OBVIOUS
<1>1. \A c \in Conn : pc[c] = "closed" => pc'[c] = "closed"
  BY ConnTypeStep DEF PcStep
<1>2. ASSUME NEW i \in failed
      PROVE  /\ i \in Nat /\ index > 0 /\ phase = "handling" /\ Current \in DOMAIN senders
             /\ Current \in File /\ senders[Current] \in Seq(SenderType)
             /\ i \in DOMAIN senders[Current] /\ pc[senders[Current][i].conn] = "closed"
             /\ senders[Current][i].conn \in Conn
  <2>1. i \in Nat /\ index > 0
    BY DEF TypeOK
  <2>2. phase = "handling" /\ Current \in DOMAIN senders
    BY <2>1 DEF TypeOK
  <2>3. Current \in File /\ senders[Current] \in Seq(SenderType)
    BY <2>2 DEF TypeOK
  <2>4. i \in DOMAIN senders[Current] /\ pc[senders[Current][i].conn] = "closed"
    BY DEF FailedAreClosed
  <2>5. senders[Current][i] \in SenderType
    BY <2>3, <2>4
  <2>6. QED
    BY <2>1, <2>2, <2>3, <2>4, <2>5 DEF SenderType
<1>3. ASSUME failed' \subseteq failed, position' = position,
             failed # {} => senders'[Current] = senders[Current]
      PROVE  FailedAreClosed'
  <2>1. ASSUME NEW i \in failed'
        PROVE  i \in DOMAIN senders'[Current'] /\ pc'[senders'[Current'][i].conn] = "closed"
    <3>1. i \in failed
      BY <1>3
    <3>2. Current' = Current
      BY <1>2, <1>3, <3>1, MessagesKept DEF Current
    <3>3. senders'[Current'] = senders[Current]
      BY <1>3, <3>1, <3>2
    <3>4. QED
      BY <1>1, <1>2, <3>1, <3>3
  <2>2. QED
    BY <2>1 DEF FailedAreClosed
<1>4. CASE Unseen \/ \E message \in File \cup {NoKey} : Publish(message)
  BY <1>3, <1>4 DEF Unseen, Publish, Produce, hubVars
<1>5. CASE JoinGroup \/ PassOver \/ LockSenders \/ Release
  <2>1. failed = {}
    BY <1>5 DEF JoinGroup, Join, PassOver, LockSenders, Release, TypeOK
  <2>2. failed' = failed
    BY <1>5 DEF JoinGroup, PassOver, LockSenders, Release, hubVars
  <2>3. QED
    BY <2>1, <2>2 DEF FailedAreClosed
<1>6. CASE SendNext
  BY <1>3, <1>6 DEF SendNext, consumerVars
<1>7. CASE SendFails
  <2>1. PICK i : At(i) /\ pc[senders[Current][i].conn] = "closed" /\ failed' = failed \cup {i}
                 /\ UNCHANGED <<consumerVars, senders, pc>>
    BY <1>7 DEF SendFails, connVars
  <2>2. Current' = Current
    BY <2>1 DEF consumerVars, Current, MessageAt
  <2>3. QED
    BY <1>2, <2>1, <2>2 DEF FailedAreClosed, At
<1>8. CASE RemoveFailed
  <2>1. PICK k : k = NextFailed
    OBVIOUS
  <2>2. k \in failed /\ \A j \in failed : j <= k
    BY <1>8, <2>1, NextFailedIsLast DEF RemoveFailed
  <2>3. /\ senders' = [senders EXCEPT ![Current] = RemoveAt(senders[Current], k)]
        /\ failed' = failed \ {k} /\ UNCHANGED <<consumerVars, pc>>
    BY <1>8, <2>1 DEF RemoveFailed, connVars
  <2>4. Current' = Current
    BY <2>3 DEF consumerVars, Current, MessageAt
  <2>5. PICK list \in Seq(SenderType) : list = senders[Current]
    BY <1>2, <2>2
  <2>6. senders'[Current] = RemoveAt(list, k) /\ k \in DOMAIN list
    BY <1>2, <2>2, <2>3, <2>5
  <2>7. /\ RemoveAt(list, k) \in Seq(SenderType) /\ Len(RemoveAt(list, k)) = Len(list) - 1
        /\ \A i \in 1 .. k - 1 : i \in DOMAIN list /\ RemoveAt(list, k)[i] = list[i]
    BY <2>6, RemoveAtProperties
  <2>8. ASSUME NEW i \in failed'
        PROVE  i \in DOMAIN senders'[Current'] /\ pc'[senders'[Current'][i].conn] = "closed"
    <3>1. i \in failed /\ i \in Nat /\ k \in Nat /\ i # k /\ i <= k /\ i \in DOMAIN list
      BY <1>2, <2>2, <2>3, <2>5
    <3>2. i \in 1 .. k - 1 /\ k <= Len(list)
      BY <2>6, <3>1
    <3>3. i \in DOMAIN RemoveAt(list, k) /\ RemoveAt(list, k)[i] = list[i]
      BY <2>7, <3>1, <3>2
    <3>4. QED
      BY <1>2, <2>3, <2>4, <2>5, <2>6, <3>1, <3>3
  <2>9. QED
    BY <2>8 DEF FailedAreClosed
<1>9. CASE CrashService
  BY <1>9 DEF CrashService, FailedAreClosed
<1>10. ASSUME NEW c \in Conn, NEW f \in File, CommandDone(c, f) PROVE FailedAreClosed'
  <2>1. failed # {} => senders'[Current] = senders[Current]
    BY <1>2, <1>10 DEF CommandDone
  <2>2. QED
    BY <1>3, <1>10, <2>1 DEF CommandDone, consumerVars
<1>11. QED
  BY <1>4, <1>5, <1>6, <1>7, <1>8, <1>9, <1>10, StepCases

\* Every step preserves the types.
LEMMA TypeStep ==
    TypeOK /\ FailedAreClosed /\ [Next]_vars => TypeOK' /\ FailedAreClosed'
<1> SUFFICES ASSUME TypeOK, FailedAreClosed, [Next]_vars PROVE TypeOK' /\ FailedAreClosed'
  OBVIOUS
<1>1. HubTypes' /\ ConnTypes' /\ FailedAreClosed'
  BY HubTypeStep, ConnTypeStep, FailedStep
<1>2. QED
  BY <1>1 DEF HubTypes, ConnTypes, TypeOK

\* The types of every variable, the lock held only while a message of a file
\* with an entry is handled, and no channel over its capacity.
THEOREM HubTypeCorrect == Spec => []TypeOK
<1>1. TypeOK /\ FailedAreClosed /\ [Next]_vars => (TypeOK /\ FailedAreClosed)'
  BY TypeStep
<1>2. QED
  BY TypeInit, <1>1, PTL DEF Spec

-----------------------------------------------------------------------------
(* The entries of the map *)

\* A step that is none of the commands on a file and no stop.
SameEntries ==
    /\ DOMAIN senders' = DOMAIN senders
    /\ \A f \in DOMAIN senders : f # Current => senders'[f] = senders[f]
    /\ UNCHANGED <<firsts, asked, left>>

\* What taking out a closed sender does.
LEMMA RemoveEffect ==
    ASSUME TypeOK, FailedAreClosed, RemoveFailed
    PROVE  /\ UNCHANGED <<consumerVars, index, firsts, connVars>> /\ Current' = Current
           /\ index > Len(senders[Current]) /\ index > 0
           /\ Current \in DOMAIN senders /\ Current \in File
           /\ SameEntries
           /\ \E k \in DOMAIN senders[Current] :
                  /\ pc[senders[Current][k].conn] = "closed"
                  /\ senders'[Current] = RemoveAt(senders[Current], k)
<1>1. PICK k : k = NextFailed
  OBVIOUS
<1>2. k \in failed
  BY <1>1, NextFailedIsLast DEF RemoveFailed
<1>3. k \in DOMAIN senders[Current] /\ pc[senders[Current][k].conn] = "closed"
  BY <1>2 DEF FailedAreClosed
<1>4. /\ senders' = [senders EXCEPT ![Current] = RemoveAt(senders[Current], k)]
      /\ UNCHANGED <<consumerVars, index, firsts, connVars>>
      /\ index > Len(senders[Current]) /\ index > 0
  BY <1>1 DEF RemoveFailed, AtEnd
<1>5. Current \in DOMAIN senders /\ Current \in File
  BY <1>4 DEF TypeOK
<1>6. Current' = Current
  BY <1>4 DEF consumerVars, Current, MessageAt
<1>7. senders'[Current] = RemoveAt(senders[Current], k)
  BY <1>4, <1>5
<1>8. SameEntries
  BY <1>4 DEF SameEntries, connVars
<1>9. QED
  BY <1>3, <1>4, <1>5, <1>6, <1>7, <1>8

\* The map changes by a command, by a sender taken out, or with the process.
LEMMA MapCases ==
    ASSUME TypeOK, FailedAreClosed, [Next]_vars
    PROVE  \/ UNCHANGED <<senders, firsts, asked, left>>
           \/ RemoveFailed \/ CrashService
           \/ \E c \in Conn : \E f \in File :
                  CommandDone(c, f) /\ (Joined(c, f) \/ Replaced(c, f) \/ Withdrawn(c, f))
<1>1. ASSUME \/ Unseen \/ (\E message \in File \cup {NoKey} : Publish(message))
             \/ JoinGroup \/ PassOver \/ LockSenders \/ SendNext \/ SendFails \/ Release
      PROVE  UNCHANGED <<senders, firsts, asked, left>>
  BY <1>1 DEF Unseen, Publish, JoinGroup, PassOver, LockSenders, SendNext, SendFails, Release,
     hubVars, connVars
<1>2. QED
  BY <1>1, StepCases

\* An entry is inserted before anybody is known to have subscribed.
LEMMA EntriesStep ==
    TypeOK /\ FailedAreClosed /\ EntriesInserted /\ [Next]_vars => EntriesInserted'
<1> SUFFICES ASSUME TypeOK, FailedAreClosed, EntriesInserted, [Next]_vars
             PROVE  EntriesInserted'
  OBVIOUS
<1>1. \A c \in Conn : PcStep(c)
  BY ConnTypeStep
<1>2. /\ asked \in [Conn -> [File -> Nat]] /\ firsts \in [File -> Nat]
      /\ pc \in [Conn -> Open \cup {"none", "closed"}]
  BY DEF TypeOK
<1>3. ASSUME NEW c \in Conn, NEW f \in File, asked[c][f] > 0
      PROVE  pc'[c] # "none" /\ (pc'[c] = "closed" \/ f \in DOMAIN senders)
  BY <1>1, <1>3 DEF EntriesInserted, PcStep
<1>4. ASSUME DOMAIN senders' = DOMAIN senders, firsts' = firsts, asked' = asked
      PROVE  EntriesInserted'
  BY <1>3, <1>4 DEF EntriesInserted
<1>5. CASE RemoveFailed
  BY <1>4, <1>5, RemoveEffect DEF SameEntries
<1>6. CASE CrashService
  <2>1. /\ DOMAIN senders' = {} /\ firsts' = [f \in File |-> 0] /\ asked' = asked
        /\ pc' = [c \in Conn |-> IF pc[c] = "none" THEN "none" ELSE "closed"]
    BY <1>6 DEF CrashService
  <2>2. ASSUME NEW c \in Conn, NEW f \in File, asked'[c][f] > 0 PROVE pc'[c] = "closed"
    BY <2>1, <2>2 DEF EntriesInserted
  <2>3. QED
    BY <2>1, <2>2 DEF EntriesInserted
<1>7. ASSUME NEW c \in Conn, NEW f \in File, CommandDone(c, f),
             Joined(c, f) \/ Replaced(c, f) \/ Withdrawn(c, f)
      PROVE  EntriesInserted'
  <2>1. pc'[c] # "none"
    BY <1>1, <1>7 DEF CommandDone, PcStep, Open, Waiting
  <2>2. ASSUME NEW g \in File PROVE g \in DOMAIN senders' <=> firsts'[g] > 0
    <3>1. CASE g # f
      BY <1>7, <3>1 DEF CommandDone, EntriesInserted
    <3>2. CASE g = f
      BY <1>2, <1>7, <3>2 DEF Joined, Replaced, Withdrawn, EntriesInserted
    <3>3. QED
      BY <3>1, <3>2
  <2>3. ASSUME NEW d \in Conn, NEW g \in File, asked'[d][g] > 0
        PROVE  pc'[d] # "none" /\ (pc'[d] = "closed" \/ g \in DOMAIN senders')
    <3>1. CASE d # c \/ g # f
      <4>1. asked[d][g] > 0
        BY <1>7, <2>3, <3>1 DEF CommandDone
      <4>2. g \in DOMAIN senders => g \in DOMAIN senders'
        BY <1>7 DEF CommandDone, Joined, Replaced, Withdrawn
      <4>3. QED
        BY <1>3, <4>1, <4>2
    <3>2. CASE d = c /\ g = f
      <4>1. CASE Joined(c, f) \/ Replaced(c, f)
        BY <2>1, <3>2, <4>1 DEF Joined, Replaced
      <4>2. CASE Withdrawn(c, f)
        <5>1. asked[d][g] > 0
          BY <2>3, <3>2, <4>2 DEF Withdrawn
        <5>2. QED
          BY <1>3, <3>2, <4>2, <5>1 DEF Withdrawn
      <4>3. QED
        BY <1>7, <4>1, <4>2
    <3>3. QED
      BY <3>1, <3>2
  <2>4. QED
    BY <2>2, <2>3 DEF EntriesInserted
<1>8. QED
  BY <1>4, <1>5, <1>6, <1>7, MapCases

\* Every element of the list without one element was in the list.
LEMMA RemovedElements ==
    ASSUME NEW T, NEW list \in Seq(T), NEW k \in DOMAIN list, NEW i \in DOMAIN RemoveAt(list, k)
    PROVE  \E j \in DOMAIN list : RemoveAt(list, k)[i] = list[j]
<1>1. /\ RemoveAt(list, k) \in Seq(T) /\ Len(RemoveAt(list, k)) = Len(list) - 1
      /\ \A n \in 1 .. k - 1 : n \in DOMAIN list /\ RemoveAt(list, k)[n] = list[n]
      /\ \A n \in k .. Len(list) - 1 : n + 1 \in DOMAIN list /\ RemoveAt(list, k)[n] = list[n + 1]
  BY RemoveAtProperties
<1>2. Len(list) \in Nat /\ k \in Nat /\ k >= 1
  OBVIOUS
<1>3. i \in 1 .. Len(list) - 1
  BY <1>1, <1>2
<1>4. i \in 1 .. k - 1 \/ i \in k .. Len(list) - 1
  BY <1>2, <1>3
<1>5. QED
  BY <1>1, <1>4

\* A sender keeps the name its connection had when it subscribed.
LEMMA NamedStep ==
    TypeOK /\ FailedAreClosed /\ SendersNamed /\ [Next]_vars => SendersNamed'
<1> SUFFICES ASSUME TypeOK, FailedAreClosed, SendersNamed, [Next]_vars PROVE SendersNamed'
  OBVIOUS
<1> DEFINE Named(list) == \A i \in DOMAIN list : list[i].user = UserOf(list[i].conn)
<1>0. \A f \in DOMAIN senders : f \in File /\ senders[f] \in Seq(SenderType) /\ Named(senders[f])
  BY DEF TypeOK, SendersNamed
<1>1. ASSUME NEW list \in Seq(SenderType), NEW k \in DOMAIN list, Named(list)
      PROVE  Named(RemoveAt(list, k))
  BY <1>1, RemovedElements
<1>2. CASE UNCHANGED <<senders, firsts, asked, left>>
  BY <1>2 DEF SendersNamed
<1>3. CASE RemoveFailed
  <2>1. PICK k \in DOMAIN senders[Current] : senders'[Current] = RemoveAt(senders[Current], k)
    BY <1>3, RemoveEffect
  <2>2. Current \in DOMAIN senders /\ SameEntries
    BY <1>3, RemoveEffect
  <2>3. Named(RemoveAt(senders[Current], k))
    BY <1>0, <1>1, <2>2
  <2>4. \A f \in DOMAIN senders' : Named(senders'[f])
    BY <1>0, <2>1, <2>2, <2>3 DEF SameEntries
  <2>5. QED
    BY <2>4 DEF SendersNamed
<1>4. CASE CrashService
  BY <1>4 DEF CrashService, SendersNamed
<1>5. ASSUME NEW c \in Conn, NEW f \in File, CommandDone(c, f),
             Joined(c, f) \/ Replaced(c, f) \/ Withdrawn(c, f)
      PROVE  SendersNamed'
  <2>1. ASSUME f \in DOMAIN senders' PROVE Named(senders'[f])
    <3>1. PICK s \in SenderType : s = Sender(c) /\ s.user = UserOf(s.conn)
      BY SenderTyped
    <3>2. CASE Joined(c, f)
      <4>1. senders[f] \in Seq(SenderType) /\ Named(senders[f]) /\ senders'[f] = Append(senders[f], s)
        BY <1>0, <3>1, <3>2 DEF Joined
      <4>2. QED
        BY <3>1, <4>1, AppendProperties
    <3>3. CASE Replaced(c, f)
      BY <3>1, <3>3 DEF Replaced
    <3>4. CASE Withdrawn(c, f)
      <4>1. f \in DOMAIN senders
        BY <2>1, <3>4 DEF Withdrawn
      <4>2. \/ senders'[f] = senders[f]
            \/ \E k \in DOMAIN senders[f] : senders'[f] = RemoveAt(senders[f], k)
        BY <3>4, <4>1 DEF Withdrawn
      <4>3. QED
        BY <1>0, <1>1, <4>1, <4>2
    <3>5. QED
      BY <1>5, <3>2, <3>3, <3>4
  <2>2. DOMAIN senders' \subseteq File
    BY HubTypeStep DEF HubTypes
  <2>3. \A g \in DOMAIN senders' : Named(senders'[g])
    BY <1>0, <1>5, <2>1, <2>2 DEF CommandDone
  <2>4. QED
    BY <2>3 DEF SendersNamed
<1>6. QED
  BY <1>2, <1>3, <1>4, <1>5, MapCases

-----------------------------------------------------------------------------
(* What was asked for *)

\* The places of a connection's senders in a list.
OfConn(list, c) == {i \in DOMAIN list : list[i].conn = c}

\* A connection has so many senders in a list before and after a change of it.
LEMMA OfConnCounts ==
    ASSUME NEW list \in Seq(SenderType), NEW c \in Conn
    PROVE  /\ Cardinality(OfConn(list, c)) \in Nat
           /\ \A s \in SenderType :
                  /\ Cardinality(OfConn(Append(list, s), c))
                         = Cardinality(OfConn(list, c)) + (IF s.conn = c THEN 1 ELSE 0)
                  /\ Cardinality(OfConn(<<s>>, c)) = IF s.conn = c THEN 1 ELSE 0
           /\ \A k \in DOMAIN list :
                  /\ Cardinality(OfConn(RemoveAt(list, k), c)) \in Nat
                  /\ Cardinality(OfConn(RemoveAt(list, k), c))
                         = Cardinality(OfConn(list, c)) - (IF list[k].conn = c THEN 1 ELSE 0)
<1> DEFINE S == {s \in SenderType : s.conn = c}
<1>1. ASSUME NEW l \in Seq(SenderType) PROVE OfConn(l, c) = Places(l, S)
  BY DEF OfConn, Places
<1>2. \A s \in SenderType : s \in S <=> s.conn = c
  OBVIOUS
<1> HIDE DEF S
<1>3. Cardinality(OfConn(list, c)) \in Nat
  BY PlacesFinite DEF OfConn
<1>4. ASSUME NEW s \in SenderType
      PROVE  /\ Cardinality(OfConn(Append(list, s), c))
                    = Cardinality(OfConn(list, c)) + (IF s.conn = c THEN 1 ELSE 0)
             /\ Cardinality(OfConn(<<s>>, c)) = IF s.conn = c THEN 1 ELSE 0
  <2>1. OfConn(list, c) = Places(list, S) /\ OfConn(Append(list, s), c) = Places(Append(list, s), S)
    BY <1>1, AppendProperties
  <2>2. Cardinality(Places(Append(list, s), S))
            = Cardinality(Places(list, S)) + (IF s \in S THEN 1 ELSE 0)
    BY CountAppended
  <2>3. OfConn(<<s>>, c) = IF s.conn = c THEN {1} ELSE {}
    BY DEF OfConn
  <2>4. QED
    BY <1>2, <2>1, <2>2, <2>3, FS_Singleton, FS_EmptySet
<1>5. ASSUME NEW k \in DOMAIN list
      PROVE  /\ Cardinality(OfConn(RemoveAt(list, k), c)) \in Nat
             /\ Cardinality(OfConn(RemoveAt(list, k), c))
                    = Cardinality(OfConn(list, c)) - (IF list[k].conn = c THEN 1 ELSE 0)
  <2>1. OfConn(list, c) = Places(list, S)
        /\ OfConn(RemoveAt(list, k), c) = Places(RemoveAt(list, k), S)
    BY <1>1, RemoveAtProperties
  <2>2. /\ Cardinality(Places(RemoveAt(list, k), S)) \in Nat
        /\ Cardinality(Places(RemoveAt(list, k), S))
               = Cardinality(Places(list, S)) - (IF list[k] \in S THEN 1 ELSE 0)
    BY CountRemoved
  <2>3. list[k] \in SenderType
    OBVIOUS
  <2>4. QED
    BY <1>2, <2>1, <2>2, <2>3
<1>6. QED
  BY <1>3, <1>4, <1>5

\* No connection has more senders for a file than Subscribes.
LEMMA SendersAskedStep ==
    TypeOK /\ FailedAreClosed /\ SendersAsked /\ [Next]_vars => SendersAsked'
<1> SUFFICES ASSUME TypeOK, FailedAreClosed, SendersAsked, [Next]_vars PROVE SendersAsked'
  OBVIOUS
<1>1. asked \in [Conn -> [File -> Nat]]
  BY DEF TypeOK
<1>2. \A f \in DOMAIN senders : f \in File /\ senders[f] \in Seq(SenderType)
  BY DEF TypeOK
<1>3. ASSUME NEW f \in DOMAIN senders, NEW c \in Conn
      PROVE  /\ Cardinality(OfConn(senders[f], c)) \in Nat
             /\ asked[c][f] \in Nat
             /\ Cardinality(OfConn(senders[f], c)) <= asked[c][f]
  BY <1>1, <1>2, OfConnCounts DEF SendersAsked, SendersOf, OfConn
<1>4. ASSUME \A f \in DOMAIN senders' : \A c \in Conn :
                 Cardinality(OfConn(senders'[f], c)) <= asked'[c][f]
      PROVE  SendersAsked'
  BY <1>4 DEF SendersAsked, SendersOf, OfConn
<1>5. CASE UNCHANGED <<senders, firsts, asked, left>>
  BY <1>3, <1>4, <1>5
<1>6. CASE RemoveFailed
  <2>1. PICK k \in DOMAIN senders[Current] : senders'[Current] = RemoveAt(senders[Current], k)
    BY <1>6, RemoveEffect
  <2>2. Current \in DOMAIN senders /\ SameEntries
    BY <1>6, RemoveEffect
  <2>3. PICK list \in Seq(SenderType) : list = senders[Current]
    BY <1>2, <2>2
  <2>4. ASSUME NEW c \in Conn PROVE Cardinality(OfConn(senders'[Current], c)) <= asked[c][Current]
    <3>1. /\ Cardinality(OfConn(RemoveAt(list, k), c)) \in Nat
          /\ Cardinality(OfConn(RemoveAt(list, k), c))
                 = Cardinality(OfConn(list, c)) - (IF list[k].conn = c THEN 1 ELSE 0)
      BY <2>1, <2>3, OfConnCounts
    <3>2. /\ Cardinality(OfConn(list, c)) \in Nat /\ asked[c][Current] \in Nat
          /\ Cardinality(OfConn(list, c)) <= asked[c][Current]
      BY <1>3, <2>2, <2>3
    <3>3. senders'[Current] = RemoveAt(list, k)
      BY <2>1, <2>3
    <3>4. QED
      BY <3>1, <3>2, <3>3
  <2>5. \A f \in DOMAIN senders' : \A c \in Conn :
            Cardinality(OfConn(senders'[f], c)) <= asked'[c][f]
    BY <1>3, <2>2, <2>4 DEF SameEntries
  <2>6. QED
    BY <1>4, <2>5
<1>7. CASE CrashService
  BY <1>7 DEF CrashService, SendersAsked
<1>8. ASSUME NEW c \in Conn, NEW f \in File, CommandDone(c, f),
             Joined(c, f) \/ Replaced(c, f) \/ Withdrawn(c, f)
      PROVE  SendersAsked'
  <2>1. PICK s \in SenderType : s = Sender(c) /\ s.conn = c
    BY SenderTyped
  <2>2. ASSUME f \in DOMAIN senders', NEW d \in Conn
        PROVE  Cardinality(OfConn(senders'[f], d)) <= asked'[d][f]
    <3>1. asked[d][f] \in Nat /\ (d # c => asked'[d][f] = asked[d][f])
      BY <1>1, <1>8 DEF CommandDone
    <3>2. CASE Joined(c, f)
      <4>1. PICK list \in Seq(SenderType) : list = senders[f]
        BY <1>2, <3>2 DEF Joined
      <4>2. senders'[f] = Append(list, s) /\ asked'[c][f] = asked[c][f] + 1
        BY <2>1, <3>2, <4>1 DEF Joined
      <4>3. /\ Cardinality(OfConn(list, d)) \in Nat
            /\ Cardinality(OfConn(list, d)) <= asked[d][f]
        BY <1>3, <3>2, <4>1 DEF Joined
      <4>4. Cardinality(OfConn(Append(list, s), d))
                = Cardinality(OfConn(list, d)) + (IF s.conn = d THEN 1 ELSE 0)
        BY OfConnCounts
      <4>5. QED
        BY <2>1, <3>1, <4>2, <4>3, <4>4
    <3>3. CASE Replaced(c, f)
      <4>1. senders'[f] = <<s>> /\ asked'[c][f] = asked[c][f] + 1
        BY <2>1, <3>3 DEF Replaced
      <4>2. Cardinality(OfConn(<<s>>, d)) = IF s.conn = d THEN 1 ELSE 0
        <5>1. << >> \in Seq(SenderType)
          OBVIOUS
        <5>2. QED
          BY <5>1, OfConnCounts
      <4>3. QED
        BY <2>1, <3>1, <4>1, <4>2
    <3>4. CASE Withdrawn(c, f)
      <4>1. f \in DOMAIN senders /\ asked'[d][f] = asked[d][f]
        BY <2>2, <3>1, <3>4 DEF Withdrawn
      <4>2. PICK list \in Seq(SenderType) : list = senders[f]
        BY <1>2, <4>1
      <4>3. /\ Cardinality(OfConn(list, d)) \in Nat
            /\ Cardinality(OfConn(list, d)) <= asked[d][f]
        BY <1>3, <4>1, <4>2
      <4>4. CASE senders'[f] = list
        BY <4>1, <4>3, <4>4
      <4>5. CASE \E k \in DOMAIN list : senders'[f] = RemoveAt(list, k)
        <5>1. PICK k \in DOMAIN list : senders'[f] = RemoveAt(list, k)
          BY <4>5
        <5>2. /\ Cardinality(OfConn(RemoveAt(list, k), d)) \in Nat
              /\ Cardinality(OfConn(RemoveAt(list, k), d))
                     = Cardinality(OfConn(list, d)) - (IF list[k].conn = d THEN 1 ELSE 0)
          BY OfConnCounts
        <5>3. QED
          BY <3>1, <4>1, <4>3, <5>1, <5>2
      <4>6. QED
        BY <3>4, <4>1, <4>2, <4>4, <4>5 DEF Withdrawn
    <3>5. QED
      BY <1>8, <3>2, <3>3, <3>4
  <2>3. DOMAIN senders' \subseteq File
    BY HubTypeStep DEF HubTypes
  <2>4. ASSUME NEW g \in DOMAIN senders', NEW d \in Conn
        PROVE  Cardinality(OfConn(senders'[g], d)) <= asked'[d][g]
    BY <1>3, <1>8, <2>2, <2>3 DEF CommandDone
  <2>5. QED
    BY <1>4, <2>4
<1>9. QED
  BY <1>5, <1>6, <1>7, <1>8, MapCases

\* What SendNext does.
LEMMA SendEffect ==
    ASSUME TypeOK, SendNext
    PROVE  \E c \in Conn :
               /\ At(index) /\ c = senders[Current][index].conn /\ pc[c] \in Open
               /\ sent'[c] = Append(sent[c], position)
               /\ \A d \in Conn : d # c => sent'[d] = sent[d]
               /\ index' = index + 1 /\ index > 0 /\ phase = "handling"
               /\ UNCHANGED <<consumerVars, senders, failed, firsts, pc, asked, left>>
               /\ Current' = Current
<1>1. At(index)
  BY DEF SendNext
<1>2. PICK c \in Conn : c = senders[Current][index].conn
  BY <1>1, SenderAt
<1>3. /\ pc[c] \in Open /\ index' = index + 1
      /\ sent' = [sent EXCEPT ![c] = Append(@, position)]
      /\ UNCHANGED <<consumerVars, senders, failed, firsts, pc, asked, left>>
  BY <1>2 DEF SendNext
<1>4. sent'[c] = Append(sent[c], position) /\ \A d \in Conn : d # c => sent'[d] = sent[d]
  BY <1>3 DEF TypeOK
<1>5. Current' = Current
  BY <1>3 DEF consumerVars, Current, MessageAt
<1>6. QED
  BY <1>1, <1>2, <1>3, <1>4, <1>5, SenderAt DEF At

\* Channels change in SendNext only.
LEMMA ChannelCases ==
    ASSUME TypeOK, [Next]_vars
    PROVE  SendNext \/ sent' = sent
  BY StepCases DEF Unseen, Publish, JoinGroup, PassOver, LockSenders, SendFails, RemoveFailed,
     Release, CrashService, CommandDone, connVars

\* What an open connection was sent is behind the consumer, but for the
\* message in hand.
LEMMA SentStep == TypeOK /\ FailedAreClosed /\ SentSoFar /\ [Next]_vars => SentSoFar'
<1> SUFFICES ASSUME TypeOK, FailedAreClosed, SentSoFar, [Next]_vars PROVE SentSoFar'
  OBVIOUS
<1>1. \A c \in Conn : PcStep(c)
  BY ConnTypeStep
<1>2. /\ position \in Nat /\ index \in Nat /\ Offsets \subseteq Offsets'
      /\ sent \in [Conn -> Seq(Nat)] /\ pc \in [Conn -> Open \cup {"none", "closed"}]
  BY MessagesKept DEF TypeOK, ConsumerTypeOK
<1>3. ASSUME NEW c \in Conn, sent'[c] = sent[c],
             pc'[c] \in Open /\ DOMAIN sent[c] # {} =>
                 /\ phase' # "joining"
                 /\ \/ UNCHANGED <<position, index>>
                    \/ index' > 0 /\ position' = position
                    \/ position' = position + 1
      PROVE  /\ pc'[c] = "none" => sent'[c] = << >>
             /\ \A n \in DOMAIN sent'[c] : sent'[c][n] \in Offsets'
             /\ pc'[c] \in Open =>
                    \A n \in DOMAIN sent'[c] :
                        /\ phase' # "joining"
                        /\ sent'[c][n] <= position'
                        /\ sent'[c][n] = position' => index' > 0
  <2>1. pc'[c] = "none" => sent'[c] = << >>
    BY <1>1, <1>3 DEF SentSoFar, PcStep
  <2>2. \A n \in DOMAIN sent'[c] : sent'[c][n] \in Offsets'
    BY <1>2, <1>3 DEF SentSoFar
  <2>3. ASSUME pc'[c] \in Open, NEW n \in DOMAIN sent'[c]
        PROVE  /\ phase' # "joining"
               /\ sent'[c][n] <= position'
               /\ sent'[c][n] = position' => index' > 0
    <3>1. n \in DOMAIN sent[c] /\ sent'[c][n] = sent[c][n] /\ sent[c][n] \in Nat
      BY <1>2, <1>3, <2>3
    <3>2. pc[c] \in Open
      <4>1. pc[c] \in Open \cup {"none"}
        BY <1>1, <2>3 DEF PcStep
      <4>2. pc[c] # "none"
        BY <3>1 DEF SentSoFar
      <4>3. QED
        BY <4>1, <4>2
    <3>3. sent[c][n] <= position /\ (sent[c][n] = position => index > 0)
      BY <3>1, <3>2 DEF SentSoFar
    <3>4. QED
      BY <1>2, <1>3, <2>3, <3>1, <3>3
  <2>4. QED
    BY <2>1, <2>2, <2>3
<1>4. ASSUME NEW c \in Conn, pc'[c] \in Open, DOMAIN sent[c] # {} PROVE phase # "joining"
  BY <1>1, <1>4 DEF PcStep, SentSoFar
<1>5. ASSUME sent' = sent,
             \A c \in Conn : pc'[c] \in Open /\ DOMAIN sent[c] # {} =>
                 /\ phase' # "joining"
                 /\ \/ UNCHANGED <<position, index>>
                    \/ index' > 0 /\ position' = position
                    \/ position' = position + 1
      PROVE  SentSoFar'
  <2>1. \A c \in Conn : sent'[c] = sent[c]
    BY <1>5
  <2>2. QED
    BY <1>3, <1>5, <2>1, Zenon DEF SentSoFar
<1>6. CASE Unseen \/ \E message \in File \cup {NoKey} : Publish(message)
  BY <1>4, <1>5, <1>6 DEF Unseen, hubVars, Publish, Produce, connVars
<1>7. CASE JoinGroup
  BY <1>4, <1>5, <1>7 DEF JoinGroup, Join, connVars
<1>8. CASE PassOver \/ Release
  BY <1>5, <1>8 DEF PassOver, Release, Handled, connVars
<1>9. CASE LockSenders \/ SendFails
  BY <1>2, <1>4, <1>5, <1>9 DEF LockSenders, SendFails, At, connVars, consumerVars
<1>10. CASE RemoveFailed
  BY <1>4, <1>5, <1>10, RemoveEffect DEF connVars, consumerVars
<1>11. CASE CrashService
  <2>1. \A c \in Conn : pc'[c] \notin Open
    BY <1>11 DEF CrashService, Open, Waiting
  <2>2. sent' = sent
    BY <1>11 DEF CrashService
  <2>3. QED
    BY <1>5, <2>1, <2>2
<1>12. ASSUME NEW c \in Conn, NEW f \in File, CommandDone(c, f) PROVE SentSoFar'
  BY <1>4, <1>5, <1>12 DEF CommandDone, consumerVars
<1>13. CASE SendNext
  <2>1. PICK c \in Conn :
            /\ pc[c] \in Open /\ sent'[c] = Append(sent[c], position)
            /\ \A d \in Conn : d # c => sent'[d] = sent[d]
            /\ index' = index + 1 /\ index > 0 /\ phase = "handling"
            /\ UNCHANGED <<consumerVars, pc>>
    BY <1>13, SendEffect
  <2>2. position' = position /\ phase' = phase /\ index' > 0
    BY <1>2, <2>1 DEF consumerVars
  <2>3. ASSUME NEW d \in Conn, d # c
        PROVE  /\ pc'[d] = "none" => sent'[d] = << >>
               /\ \A n \in DOMAIN sent'[d] : sent'[d][n] \in Offsets'
               /\ pc'[d] \in Open =>
                      \A n \in DOMAIN sent'[d] :
                          /\ phase' # "joining"
                          /\ sent'[d][n] <= position'
                          /\ sent'[d][n] = position' => index' > 0
    BY <1>3, <2>1, <2>2, <2>3
  <2>4. ASSUME NEW n \in DOMAIN sent'[c]
        PROVE  sent'[c][n] \in Offsets' /\ sent'[c][n] <= position'
    <3>1. position \in Offsets' /\ sent[c] \in Seq(Nat)
      BY <1>2, <2>1, MessagesKept
    <3>2. n = Len(sent[c]) + 1 \/ n \in DOMAIN sent[c]
      BY <1>2, <2>1, <3>1, AppendProperties
    <3>3. CASE n = Len(sent[c]) + 1
      <4>1. sent'[c][n] = position
        BY <1>2, <2>1, <3>1, <3>3, AppendProperties
      <4>2. QED
        BY <1>2, <2>2, <3>1, <4>1
    <3>4. CASE n \in DOMAIN sent[c]
      <4>1. sent'[c][n] = sent[c][n]
        BY <1>2, <2>1, <3>1, <3>4, AppendProperties
      <4>2. sent[c][n] \in Offsets /\ sent[c][n] <= position
        BY <2>1, <3>4 DEF SentSoFar
      <4>3. QED
        BY <1>2, <2>2, <4>1, <4>2
    <3>5. QED
      BY <3>2, <3>3, <3>4
  <2>5. pc'[c] # "none" /\ phase' # "joining"
    BY <2>1, <2>2 DEF Open, Waiting
  <2>6. QED
    BY <2>2, <2>3, <2>4, <2>5 DEF SentSoFar
<1>14. QED
  BY <1>6, <1>7, <1>8, <1>9, <1>10, <1>11, <1>12, <1>13, StepCases

\* How often a message was put into a channel, before and after a send.
LEMMA TimesCounts ==
    ASSUME TypeOK, NEW c \in Conn, NEW k
    PROVE  /\ Times(c, k) \in Nat
           /\ (\A n \in DOMAIN sent[c] : sent[c][n] # k) => Times(c, k) = 0
           /\ sent'[c] = sent[c] => Times(c, k)' = Times(c, k)
           /\ sent'[c] = Append(sent[c], position) =>
                  Times(c, k)' = Times(c, k) + (IF k = position THEN 1 ELSE 0)
<1>1. sent[c] \in Seq(Nat) /\ position \in Nat
  BY DEF TypeOK, ConsumerTypeOK
<1>2. Times(c, k) = Cardinality(Places(sent[c], {k}))
      /\ Times(c, k)' = Cardinality(Places(sent'[c], {k}))
  <2>1. {n \in DOMAIN sent[c] : sent[c][n] = k} = Places(sent[c], {k})
    BY DEF Places
  <2>2. {n \in DOMAIN sent'[c] : sent'[c][n] = k} = Places(sent'[c], {k})
    BY DEF Places
  <2>3. QED
    BY <2>1, <2>2 DEF Times
<1>3. Cardinality(Places(sent[c], {k})) \in Nat
  BY <1>1, PlacesFinite DEF Places
<1>4. ASSUME \A n \in DOMAIN sent[c] : sent[c][n] # k PROVE Times(c, k) = 0
  <2>1. Places(sent[c], {k}) = {}
    BY <1>4 DEF Places
  <2>2. QED
    BY <1>2, <2>1, FS_EmptySet
<1>5. Cardinality(Places(Append(sent[c], position), {k}))
          = Cardinality(Places(sent[c], {k})) + (IF position \in {k} THEN 1 ELSE 0)
  BY <1>1, CountAppended
<1>6. QED
  BY <1>2, <1>3, <1>4, <1>5

\* The senders of a connection in the list that is being sent to.
LEMMA RestCounts ==
    ASSUME TypeOK, index > 0, NEW c \in Conn, NEW from
    PROVE  /\ Cardinality({i \in SendersOf(Current, c) : i >= from}) \in Nat
           /\ Cardinality({i \in SendersOf(Current, c) : i >= from})
                  <= Cardinality(SendersOf(Current, c))
           /\ IsFiniteSet({i \in SendersOf(Current, c) : i >= from})
<1>1. PICK list \in Seq(SenderType) : list = senders[Current]
  BY DEF TypeOK
<1>2. SendersOf(Current, c) \in SUBSET DOMAIN list
  BY <1>1 DEF SendersOf
<1>3. PICK I \in SUBSET DOMAIN list : I = SendersOf(Current, c)
  BY <1>2
<1>4. PICK J \in SUBSET I : J = {i \in SendersOf(Current, c) : i >= from}
  BY <1>3
<1>5. Cardinality(J) \in Nat /\ Cardinality(I) \in Nat /\ Cardinality(J) <= Cardinality(I)
      /\ IsFiniteSet(J)
  BY CountMonotone, PlacesFinite
<1>6. QED
  BY <1>3, <1>4, <1>5

\* The consumer sends a message at most to as many senders as were asked for.
LEMMA RestStep ==
    ASSUME TypeOK, FailedAreClosed, EntriesInserted, SentSoFar, SendersAsked, RestAsked,
           [Next]_vars
    PROVE  RestAsked'
<1>1. \A c \in Conn : PcStep(c)
  BY ConnTypeStep
<1>2. /\ position \in Nat /\ index \in Nat /\ asked \in [Conn -> [File -> Nat]]
      /\ DOMAIN senders \subseteq File
      /\ index > 0 => Current \in DOMAIN senders /\ phase = "handling"
  BY DEF TypeOK, ConsumerTypeOK
<1>3. ASSUME NEW c \in Conn, Current \in DOMAIN senders
      PROVE  /\ asked[c][Current] \in Nat
             /\ Cardinality(SendersOf(Current, c)) <= asked[c][Current]
             /\ Cardinality(SendersOf(Current, c)) \in Nat
  <2>1. Current \in File /\ senders[Current] \in Seq(SenderType)
    BY <1>3 DEF TypeOK
  <2>2. Cardinality(OfConn(senders[Current], c)) \in Nat
    BY <2>1, OfConnCounts
  <2>3. QED
    BY <1>2, <1>3, <2>1, <2>2 DEF SendersAsked, SendersOf, OfConn
<1>4. ASSUME index > 0, NEW c \in Conn, pc'[c] \in Open
      PROVE  Times(c, position) + Cardinality({i \in SendersOf(Current, c) : i >= index})
                 <= asked[c][Current]
  <2>1. CASE pc[c] \in Open
    BY <1>4, <2>1 DEF RestAsked
  <2>2. CASE pc[c] = "none"
    <3>1. Times(c, position) = 0
      <4>1. DOMAIN sent[c] = {}
        BY <2>2 DEF SentSoFar
      <4>2. QED
        BY <4>1, TimesCounts
    <3>2. /\ Cardinality({i \in SendersOf(Current, c) : i >= index}) \in Nat
          /\ Cardinality({i \in SendersOf(Current, c) : i >= index})
                 <= Cardinality(SendersOf(Current, c))
      BY <1>4, RestCounts
    <3>3. QED
      BY <1>2, <1>3, <1>4, <3>1, <3>2
  <2>3. QED
    BY <1>1, <1>4, <2>1, <2>2 DEF PcStep
<1>5. ASSUME UNCHANGED <<position, index, sent>>,
             index > 0 => /\ Current' = Current
                          /\ senders'[Current] = senders[Current]
                          /\ \A c \in Conn : asked'[c][Current] = asked[c][Current]
      PROVE  RestAsked'
  <2>1. ASSUME index' > 0, NEW c \in Conn, pc'[c] \in Open
        PROVE  Times(c, position)' + Cardinality({i \in SendersOf(Current, c)' : i >= index'})
                   <= asked'[c][Current']
    <3>1. index > 0
      BY <1>5, <2>1
    <3>2. SendersOf(Current, c)' = SendersOf(Current, c)
      BY <1>5, <3>1 DEF SendersOf
    <3>3. Times(c, position)' = Times(c, position)
      BY <1>5 DEF Times
    <3>4. QED
      BY <1>4, <1>5, <2>1, <3>1, <3>2, <3>3
  <2>2. QED
    BY <2>1 DEF RestAsked
<1>6. CASE Unseen
  BY <1>5, <1>6, <1>2 DEF Unseen, hubVars, Current, MessageAt
<1>7. CASE \E message \in File \cup {NoKey} : Publish(message)
  <2>1. index > 0 => Current' = Current
    <3>1. position' = position
      BY <1>7 DEF Publish, Produce
    <3>2. QED
      BY <1>2, <3>1, MessagesKept DEF Current
  <2>2. QED
    BY <1>5, <1>7, <2>1 DEF Publish, Produce, hubVars, connVars
<1>8. CASE JoinGroup \/ PassOver \/ Release \/ CrashService
  <2>1. index' = 0
    BY <1>2, <1>8 DEF JoinGroup, Join, PassOver, Release, CrashService, hubVars
  <2>2. QED
    BY <2>1 DEF RestAsked
<1>9. CASE LockSenders
  <2>1. /\ index = 0 /\ index' = 1 /\ Current \in DOMAIN senders
        /\ UNCHANGED <<position, sent, senders, asked, pc>> /\ Current' = Current
    BY <1>9 DEF LockSenders, consumerVars, connVars, Current, MessageAt
  <2>2. ASSUME NEW c \in Conn, pc'[c] \in Open
        PROVE  Times(c, position)' + Cardinality({i \in SendersOf(Current, c)' : i >= index'})
                   <= asked'[c][Current']
    <3>1. \A n \in DOMAIN sent[c] : sent[c][n] # position
      BY <2>1, <2>2 DEF SentSoFar
    <3>2. Times(c, position) = 0
      BY <3>1, TimesCounts
    <3>3. Times(c, position)' = 0
      BY <2>1, <3>2 DEF Times
    <3>4. SendersOf(Current, c)' = SendersOf(Current, c)
      BY <2>1 DEF SendersOf
    <3>5. {i \in SendersOf(Current, c) : i >= 1} = SendersOf(Current, c)
      <4>1. senders[Current] \in Seq(SenderType)
        BY <2>1 DEF TypeOK
      <4>2. \A i \in DOMAIN senders[Current] : i >= 1
        BY <4>1
      <4>3. QED
        BY <4>2 DEF SendersOf
    <3>6. PICK J : J = {i \in SendersOf(Current, c)' : i >= index'}
      OBVIOUS
    <3>7. J = SendersOf(Current, c)
      BY <2>1, <3>4, <3>5, <3>6
    <3>8. Cardinality(J) \in Nat /\ Cardinality(J) <= asked[c][Current]
      BY <1>3, <2>1, <3>7
    <3>9. asked'[c][Current'] = asked[c][Current]
      BY <2>1
    <3>10. QED
      BY <3>3, <3>6, <3>8, <3>9
  <2>3. QED
    BY <2>2 DEF RestAsked
<1>10. CASE SendNext
  <2>1. PICK c \in Conn :
            /\ At(index) /\ c = senders[Current][index].conn
            /\ sent'[c] = Append(sent[c], position)
            /\ \A d \in Conn : d # c => sent'[d] = sent[d]
            /\ index' = index + 1 /\ index > 0
            /\ UNCHANGED <<consumerVars, senders, pc, asked>>
            /\ Current' = Current
    BY <1>10, SendEffect
  <2>2. position' = position
    BY <2>1 DEF consumerVars
  <2>3. ASSUME NEW d \in Conn, pc'[d] \in Open
        PROVE  Times(d, position)' + Cardinality({i \in SendersOf(Current, d)' : i >= index'})
                   <= asked'[d][Current']
    <3>1. PICK k : k = position
      OBVIOUS
    <3>2. PICK I : I = {i \in SendersOf(Current, d) : i >= index}
      OBVIOUS
    <3>3. PICK J : J = {i \in SendersOf(Current, d)' : i >= index'}
      OBVIOUS
    <3>4. Times(d, k) + Cardinality(I) <= asked[d][Current]
      BY <1>4, <2>1, <2>3, <3>1, <3>2
    <3>5. IsFiniteSet(I) /\ Cardinality(I) \in Nat
      BY <2>1, <3>2, RestCounts
    <3>6. Times(d, k) \in Nat
      BY TimesCounts
    <3>7. J = I \ {index}
      <4>1. SendersOf(Current, d)' = SendersOf(Current, d)
        BY <2>1 DEF SendersOf
      <4>2. \A i \in SendersOf(Current, d) : i \in Nat
        <5>1. senders[Current] \in Seq(SenderType)
          BY <2>1, SenderAt
        <5>2. QED
          BY <5>1 DEF SendersOf
      <4>3. \A i \in Nat : i >= index + 1 <=> i >= index /\ i # index
        BY <1>2
      <4>4. QED
        BY <2>1, <3>2, <3>3, <4>1, <4>2, <4>3
    <3>8. Cardinality(J) = IF index \in I THEN Cardinality(I) - 1 ELSE Cardinality(I)
      BY <3>5, <3>7, FS_RemoveElement
    <3>9. index \in I <=> d = c
      <4>1. index \in SendersOf(Current, d) <=> d = c
        BY <2>1 DEF SendersOf, At
      <4>2. QED
        BY <1>2, <3>2, <4>1
    <3>10. Times(d, k)' = Times(d, k) + (IF d = c THEN 1 ELSE 0)
      <4>1. CASE d = c
        BY <2>1, <3>1, <3>6, <4>1, TimesCounts
      <4>2. CASE d # c
        BY <2>1, <3>6, <4>2, TimesCounts
      <4>3. QED
        BY <4>1, <4>2
    <3>11. Times(d, k)' + Cardinality(J) = Times(d, k) + Cardinality(I)
      BY <3>5, <3>6, <3>8, <3>9, <3>10
    <3>12. Times(d, position)' = Times(d, k)'
      BY <2>2, <3>1 DEF Times
    <3>13. asked'[d][Current'] = asked[d][Current]
      BY <2>1
    <3>14. QED
      BY <3>3, <3>4, <3>11, <3>12, <3>13
  <2>4. QED
    BY <2>3 DEF RestAsked
<1>11. CASE SendFails
  <2>1. /\ index' = index + 1 /\ index > 0
        /\ UNCHANGED <<position, log, senders, sent, asked>>
    BY <1>11 DEF SendFails, At, consumerVars, connVars
  <2>2. Current' = Current
    BY <2>1 DEF Current, MessageAt
  <2>3. ASSUME NEW c \in Conn, pc'[c] \in Open
        PROVE  Times(c, position)' + Cardinality({i \in SendersOf(Current, c)' : i >= index'})
                   <= asked'[c][Current']
    <3>1. PICK I : I = {i \in SendersOf(Current, c) : i >= index}
      OBVIOUS
    <3>2. PICK J : J = {i \in SendersOf(Current, c)' : i >= index'}
      OBVIOUS
    <3>3. SendersOf(Current, c)' = SendersOf(Current, c)
      BY <2>1, <2>2 DEF SendersOf
    <3>4. J \subseteq I
      <4>1. \A i \in SendersOf(Current, c) : i \in Nat
        <5>1. senders[Current] \in Seq(SenderType)
          BY <2>1 DEF TypeOK
        <5>2. QED
          BY <5>1 DEF SendersOf
      <4>2. \A i \in Nat : i >= index + 1 => i >= index
        BY <1>2
      <4>3. QED
        BY <2>1, <3>1, <3>2, <3>3, <4>1, <4>2
    <3>5. IsFiniteSet(I) /\ Cardinality(I) \in Nat
      BY <2>1, <3>1, RestCounts
    <3>6. Cardinality(J) \in Nat /\ Cardinality(J) <= Cardinality(I)
      BY <3>4, <3>5, FS_Subset, FS_CardinalityType
    <3>7. Times(c, position) + Cardinality(I) <= asked[c][Current]
      BY <1>4, <2>1, <2>3, <3>1
    <3>8. Times(c, position)' = Times(c, position) /\ Times(c, position) \in Nat
      BY <2>1, TimesCounts DEF Times
    <3>9. asked[c][Current] \in Nat /\ asked'[c][Current'] = asked[c][Current]
      BY <1>2, <1>3, <2>1, <2>2
    <3>10. QED
      BY <3>2, <3>5, <3>6, <3>7, <3>8, <3>9
  <2>4. QED
    BY <2>3 DEF RestAsked
<1>12. CASE RemoveFailed
  <2>1. /\ UNCHANGED <<position, index, sent, asked, pc>> /\ Current' = Current
        /\ index > Len(senders[Current]) /\ index > 0 /\ Current \in DOMAIN senders
    BY <1>12, RemoveEffect DEF consumerVars, connVars
  <2>2. PICK k \in DOMAIN senders[Current] : senders'[Current] = RemoveAt(senders[Current], k)
    BY <1>12, RemoveEffect
  <2>3. PICK list \in Seq(SenderType) : list = senders[Current]
    BY <2>1 DEF TypeOK
  <2>4. senders'[Current] \in Seq(SenderType) /\ Len(senders'[Current]) = Len(list) - 1
    BY <2>2, <2>3, RemoveAtProperties
  <2>5. \A i \in DOMAIN senders'[Current] : ~ (i >= index)
    BY <1>2, <2>1, <2>3, <2>4
  <2>6. ASSUME NEW c \in Conn, pc'[c] \in Open
        PROVE  Times(c, position)' + Cardinality({i \in SendersOf(Current, c)' : i >= index'})
                   <= asked'[c][Current']
    <3>1. {i \in SendersOf(Current, c)' : i >= index'} = {}
      BY <2>1, <2>5 DEF SendersOf
    <3>2. PICK I : I = {i \in SendersOf(Current, c) : i >= index}
      OBVIOUS
    <3>3. Cardinality(I) \in Nat
      BY <2>1, <3>2, RestCounts
    <3>4. Times(c, position) + Cardinality(I) <= asked[c][Current]
      BY <1>4, <2>1, <2>6, <3>2
    <3>5. Times(c, position)' = Times(c, position) /\ Times(c, position) \in Nat
      BY <2>1, TimesCounts DEF Times
    <3>6. asked[c][Current] \in Nat /\ asked'[c][Current'] = asked[c][Current]
      BY <1>2, <1>3, <2>1
    <3>7. PICK J : J = {i \in SendersOf(Current, c)' : i >= index'}
      OBVIOUS
    <3>8. Cardinality(J) = 0
      BY <3>1, <3>7, FS_EmptySet
    <3>9. Times(c, position) <= asked[c][Current]
      BY <3>3, <3>4, <3>5, <3>6
    <3>10. QED
      BY <3>5, <3>6, <3>7, <3>8, <3>9
  <2>7. QED
    BY <2>6 DEF RestAsked
<1>13. ASSUME NEW c \in Conn, NEW f \in File, CommandDone(c, f) PROVE RestAsked'
  <2>1. UNCHANGED <<position, index, sent, log>>
    BY <1>13 DEF CommandDone, consumerVars
  <2>2. Current' = Current
    BY <2>1 DEF Current, MessageAt
  <2>3. index > 0 => /\ senders'[Current] = senders[Current]
                     /\ \A d \in Conn : asked'[d][Current] = asked[d][Current]
    BY <1>2, <1>13 DEF CommandDone
  <2>4. QED
    BY <1>5, <2>1, <2>2, <2>3
<1>14. QED
  BY <1>6, <1>7, <1>8, <1>9, <1>10, <1>11, <1>12, <1>13, StepCases

\* Nobody subscribes less often than before.
LEMMA AskedGrows ==
    ASSUME TypeOK, FailedAreClosed, [Next]_vars, NEW c \in Conn, NEW f \in File
    PROVE  asked[c][f] \in Nat /\ asked'[c][f] \in Nat /\ asked'[c][f] >= asked[c][f]
<1>1. asked \in [Conn -> [File -> Nat]]
  BY DEF TypeOK
<1>2. asked' = asked \/ asked'[c][f] = asked[c][f] \/ asked'[c][f] = asked[c][f] + 1
  <2>1. ASSUME NEW d \in Conn, NEW g \in File, CommandDone(d, g),
               Joined(d, g) \/ Replaced(d, g) \/ Withdrawn(d, g)
        PROVE  asked'[c][f] = asked[c][f] \/ asked'[c][f] = asked[c][f] + 1
    BY <2>1 DEF CommandDone, Joined, Replaced, Withdrawn
  <2>2. CASE RemoveFailed
    BY <2>2, RemoveEffect DEF SameEntries
  <2>3. CASE CrashService
    BY <2>3 DEF CrashService
  <2>4. QED
    BY <2>1, <2>2, <2>3, MapCases
<1>3. QED
  BY <1>1, <1>2

\* A connection's channel is in order, and a message in it was asked for.
SentInOrder(c) == \A m, n \in DOMAIN sent[c] : m < n => sent[c][m] <= sent[c][n]
SentAsked(c, k) ==
    (\E n \in DOMAIN sent[c] : sent[c][n] = k) =>
        MessageAt(k) \in File /\ Times(c, k) <= asked[c][MessageAt(k)]

\* The property, connection by connection and message by message.
LEMMA SentByMessage ==
    SentAsAsked <=> \A c \in Conn : SentInOrder(c) /\ \A k : SentAsked(c, k)
  BY DEF SentAsAsked, SentInOrder, SentAsked

\* What is put into a channel stays in order and within what was asked for.
LEMMA SentAsAskedStep ==
    ASSUME TypeOK, FailedAreClosed, SentSoFar, RestAsked, SentAsAsked, [Next]_vars
    PROVE  SentAsAsked'
<1>0. (\A c \in Conn : SentInOrder(c)' /\ \A k : SentAsked(c, k)') => SentAsAsked'
  BY DEF SentAsAsked, SentInOrder, SentAsked
<1>1. /\ sent \in [Conn -> Seq(Nat)] /\ position \in Nat
      /\ \A k \in Offsets : MessageAt(k)' = MessageAt(k)
  BY MessagesKept DEF TypeOK, ConsumerTypeOK
<1>2. ASSUME NEW c \in Conn, NEW k, k \in Offsets, MessageAt(k) \in File,
             Times(c, k)' <= asked[c][MessageAt(k)], Times(c, k)' \in Nat
      PROVE  MessageAt(k)' \in File /\ Times(c, k)' <= asked'[c][MessageAt(k)']
  <2>1. MessageAt(k)' = MessageAt(k)
    BY <1>1, <1>2
  <2>2. PICK f \in File : f = MessageAt(k)
    BY <1>2
  <2>3. PICK times \in Nat : times = Times(c, k)'
    BY <1>2
  <2>4. asked[c][f] \in Nat /\ asked'[c][f] \in Nat /\ asked'[c][f] >= asked[c][f]
    BY AskedGrows
  <2>5. times <= asked'[c][f]
    BY <1>2, <2>2, <2>3, <2>4
  <2>6. QED
    BY <2>1, <2>2, <2>3, <2>5
<1>3. ASSUME NEW c \in Conn, sent'[c] = sent[c]
      PROVE  SentInOrder(c)' /\ \A k : SentAsked(c, k)'
  <2>1. SentInOrder(c)'
    BY <1>3, SentByMessage DEF SentInOrder
  <2>2. ASSUME NEW k, \E n \in DOMAIN sent'[c] : sent'[c][n] = k
        PROVE  MessageAt(k)' \in File /\ Times(c, k)' <= asked'[c][MessageAt(k)']
    <3>1. k \in Offsets /\ MessageAt(k) \in File /\ Times(c, k) <= asked[c][MessageAt(k)]
      BY <1>3, <2>2, SentByMessage DEF SentAsked, SentSoFar
    <3>2. Times(c, k)' = Times(c, k) /\ Times(c, k) \in Nat
      BY <1>3, TimesCounts
    <3>3. QED
      BY <1>2, <3>1, <3>2
  <2>3. QED
    BY <2>1, <2>2 DEF SentAsked
<1>4. CASE sent' = sent
  <2>1. \A c \in Conn : sent'[c] = sent[c]
    BY <1>4
  <2>2. QED
    BY <1>0, <1>3, <2>1
<1>5. CASE SendNext
  <2>1. PICK c \in Conn :
            /\ At(index) /\ c = senders[Current][index].conn /\ pc[c] \in Open
            /\ sent'[c] = Append(sent[c], position)
            /\ \A d \in Conn : d # c => sent'[d] = sent[d]
            /\ index > 0 /\ phase = "handling"
    BY <1>5, SendEffect
  <2>2. position \in Offsets /\ Current \in File
    BY <2>1, MessagesKept, SenderAt
  <2>3. PICK f \in File : f = Current
    BY <2>2
  <2>4. PICK p \in Nat : p = position
    BY <1>1
  <2>5. Times(c, p) + 1 <= asked[c][f] /\ Times(c, p) \in Nat
    <3>1. PICK I : I = {i \in SendersOf(Current, c) : i >= index}
      OBVIOUS
    <3>2. Times(c, p) + Cardinality(I) <= asked[c][f]
      BY <2>1, <2>3, <2>4, <3>1 DEF RestAsked
    <3>3. index \in I
      BY <2>1, <3>1 DEF SendersOf, At, TypeOK
    <3>4. IsFiniteSet(I) /\ Cardinality(I) \in Nat
      BY <2>1, <3>1, RestCounts
    <3>5. Cardinality(I) # 0
      BY <3>3, <3>4, FS_EmptySet
    <3>6. Times(c, p) \in Nat /\ asked[c][f] \in Nat
      BY TimesCounts, AskedGrows
    <3>7. QED
      BY <3>2, <3>4, <3>5, <3>6
  <2>6. PICK list \in Seq(Nat) : list = sent[c]
    BY <1>1
  <2>7. PICK new : new = sent'[c]
    OBVIOUS
  <2>8. /\ new \in Seq(Nat) /\ Len(new) = Len(list) + 1 /\ new[Len(list) + 1] = p
        /\ \A n \in DOMAIN list : new[n] = list[n]
        /\ \A n \in DOMAIN new : n = Len(list) + 1 \/ n \in DOMAIN list
    <3>1. new = Append(list, p)
      BY <2>1, <2>4, <2>6, <2>7
    <3>2. QED
      BY <3>1, AppendProperties
  <2>9. \A n \in DOMAIN list : list[n] <= p
    BY <2>1, <2>4, <2>6 DEF SentSoFar
  <2>10. ASSUME NEW m \in DOMAIN new, NEW n \in DOMAIN new, m < n PROVE new[m] <= new[n]
    <3>1. Len(list) \in Nat /\ DOMAIN list = 1 .. Len(list) /\ DOMAIN new = 1 .. Len(list) + 1
      BY <2>8
    <3>2. m \in DOMAIN list
      BY <2>10, <3>1
    <3>3. new[m] = list[m]
      BY <2>8, <3>2
    <3>4. CASE n \in DOMAIN list
      <4>1. new[n] = list[n]
        BY <2>8, <3>4
      <4>2. list[m] <= list[n]
        BY <2>6, <2>10, <3>2, <3>4, SentByMessage DEF SentInOrder
      <4>3. QED
        BY <3>3, <4>1, <4>2
    <3>5. CASE n = Len(list) + 1
      BY <2>8, <2>9, <3>2, <3>3, <3>5
    <3>6. QED
      BY <2>8, <3>4, <3>5
  <2>11. ASSUME NEW k, \E n \in DOMAIN new : new[n] = k
         PROVE  MessageAt(k)' \in File /\ Times(c, k)' <= asked'[c][MessageAt(k)']
    <3>1. Times(c, k)' = Times(c, k) + (IF k = p THEN 1 ELSE 0) /\ Times(c, k) \in Nat
      BY <2>1, <2>4, TimesCounts
    <3>2. CASE k = p
      <4>1. k \in Offsets /\ MessageAt(k) = f
        BY <2>2, <2>3, <2>4, <3>2 DEF Current
      <4>2. Times(c, k)' = Times(c, p) + 1
        BY <3>1, <3>2
      <4>3. QED
        BY <1>2, <2>5, <4>1, <4>2
    <3>3. CASE k # p
      <4>1. PICK n \in DOMAIN list : list[n] = k
        BY <2>8, <2>11, <3>3
      <4>2. k \in Offsets /\ MessageAt(k) \in File /\ Times(c, k) <= asked[c][MessageAt(k)]
        BY <2>6, <4>1, SentByMessage DEF SentAsked, SentSoFar
      <4>3. Times(c, k)' = Times(c, k)
        BY <3>1, <3>3
      <4>4. QED
        BY <1>2, <3>1, <4>2, <4>3
    <3>4. QED
      BY <3>2, <3>3
  <2>12. SentInOrder(c)' /\ \A k : SentAsked(c, k)'
    <3>1. SentInOrder(c)'
      BY <2>7, <2>10 DEF SentInOrder
    <3>2. ASSUME NEW k PROVE SentAsked(c, k)'
      BY <2>7, <2>11 DEF SentAsked
    <3>3. QED
      BY <3>1, <3>2
  <2>13. QED
    BY <1>0, <1>3, <2>1, <2>12
<1>6. QED
  BY <1>4, <1>5, ChannelCases

-----------------------------------------------------------------------------
(* Who is served *)

\* The connection's senders that the loop has passed with message k.
Passed(f, c, k) == {j \in DOMAIN senders[f] : senders[f][j].conn = c /\ PassedSender(f, j, k)}

Served(f, c, k) == Times(c, k) >= Cardinality(Passed(f, c, k))

\* The property, file by file and message by message: where no sender was
\* passed there is nothing to be sent.
LEMMA ServedByMessage ==
    ASSUME TypeOK
    PROVE  SendersServed <=> \A f \in DOMAIN senders : \A c \in Conn :
                                 pc[c] \in Open => \A k \in Offsets : Served(f, c, k)
<1>1. ASSUME NEW f \in DOMAIN senders, NEW i \in DOMAIN senders[f]
      PROVE  senders[f][i].conn \in Conn
  <2>1. senders[f] \in Seq(SenderType)
    BY DEF TypeOK
  <2>2. senders[f][i] \in SenderType
    BY <2>1
  <2>3. QED
    BY <2>2 DEF SenderType
<1>2. ASSUME NEW f \in DOMAIN senders, NEW c \in Conn, NEW k, Passed(f, c, k) = {}
      PROVE  Served(f, c, k)
  BY <1>2, TimesCounts, FS_EmptySet DEF Served
<1>3. ASSUME SendersServed, NEW f \in DOMAIN senders, NEW c \in Conn, pc[c] \in Open,
             NEW k \in Offsets
      PROVE  Served(f, c, k)
  <2>1. CASE Passed(f, c, k) = {}
    BY <1>2, <2>1
  <2>2. CASE Passed(f, c, k) # {}
    <3>1. PICK i \in DOMAIN senders[f] : senders[f][i].conn = c /\ PassedSender(f, i, k)
      BY <2>2 DEF Passed
    <3>2. QED
      BY <1>3, <3>1 DEF SendersServed, Served, Passed
  <2>3. QED
    BY <2>1, <2>2
<1>4. ASSUME \A f \in DOMAIN senders : \A c \in Conn :
                 pc[c] \in Open => \A k \in Offsets : Served(f, c, k)
      PROVE  SendersServed
  BY <1>1, <1>4 DEF SendersServed, Served, Passed
<1>5. QED
  BY <1>3, <1>4

\* The offsets of a file at or above one, that the consumer is past or, where
\* its list is locked, has reached.
Reached(f, since, k) ==
    /\ k \in since .. Len(log) - 1
    /\ MessageAt(k) = f
    /\ k \notin lost
    /\ k < position \/ (k = position /\ index > 0 /\ Current = f)

\* Passed senders are senders in the list.
LEMMA PassedFinite ==
    ASSUME TypeOK, NEW f \in DOMAIN senders, NEW c \in Conn, NEW k
    PROVE  IsFiniteSet(Passed(f, c, k)) /\ Cardinality(Passed(f, c, k)) \in Nat
<1>1. PICK list \in Seq(SenderType) : list = senders[f]
  BY DEF TypeOK
<1>2. Passed(f, c, k) \in SUBSET DOMAIN list
  BY <1>1 DEF Passed
<1>3. QED
  BY <1>2, PlacesFinite

\* A connection that is open after a step was served before it.
LEMMA ServedBefore ==
    ASSUME TypeOK, EntriesInserted, SendersAsked, SendersServed, [Next]_vars,
           NEW f \in DOMAIN senders, NEW c \in Conn, pc'[c] \in Open, NEW k \in Offsets
    PROVE  Served(f, c, k)
<1>1. pc[c] \in Open \cup {"none"}
  BY ConnTypeStep DEF PcStep
<1>2. CASE pc[c] \in Open
  BY <1>2, ServedByMessage
<1>3. CASE pc[c] = "none"
  <2>1. f \in File /\ senders[f] \in Seq(SenderType) /\ asked[c][f] \in Nat
    BY DEF TypeOK
  <2>2. asked[c][f] = 0
    BY <1>3, <2>1 DEF EntriesInserted
  <2>3. PICK list \in Seq(SenderType) : list = senders[f]
    BY <2>1
  <2>4. PICK I \in SUBSET DOMAIN list : I = SendersOf(f, c)
    BY <2>3 DEF SendersOf
  <2>5. Cardinality(I) \in Nat /\ IsFiniteSet(I) /\ Cardinality(I) <= asked[c][f]
    BY <2>4, PlacesFinite DEF SendersAsked
  <2>6. I = {}
    BY <2>2, <2>5, FS_EmptySet
  <2>7. Passed(f, c, k) = {}
    BY <2>4, <2>6 DEF Passed, SendersOf
  <2>8. QED
    BY <2>7, TimesCounts, FS_EmptySet DEF Served
<1>4. QED
  BY <1>1, <1>2, <1>3

\* Taking a sender out of a list does not make more of the others passed.
LEMMA PassedRemoved ==
    ASSUME TypeOK, NEW f \in DOMAIN senders, NEW k \in DOMAIN senders[f],
           senders'[f] = RemoveAt(senders[f], k),
           UNCHANGED <<log, position, lost, index>>,
           index > 0 => f # Current \/ index > Len(senders[f]),
           NEW c \in Conn, NEW m \in Offsets, sent'[c] = sent[c], Served(f, c, m)
    PROVE  Served(f, c, m)'
<1>1. PICK list \in Seq(SenderType) : list = senders[f]
  BY DEF TypeOK
<1>2. PICK new : new = RemoveAt(list, k)
  OBVIOUS
<1>3. new \in Seq(SenderType) /\ Len(new) = Len(list) - 1 /\ senders'[f] = new
  BY <1>1, <1>2, RemoveAtProperties
<1>4. PICK S : S = {s \in SenderType : s.conn = c /\ Reached(f, s.since, m)}
  OBVIOUS
<1>5. Current' = Current /\ MessageAt(m)' = MessageAt(m)
  BY DEF Current, MessageAt
<1>6. Passed(f, c, m) = Places(list, S)
  <2>1. ASSUME NEW j \in DOMAIN list
        PROVE  PassedSender(f, j, m) <=> Reached(f, list[j].since, m)
    <3>1. j \in Nat /\ Len(list) \in Nat /\ index \in Nat /\ j <= Len(list)
      BY DEF TypeOK
    <3>2. index > 0 /\ Current = f => index > j
      BY <1>1, <3>1
    <3>3. index > j => index > 0
      BY <3>1
    <3>4. QED
      BY <1>1, <3>2, <3>3 DEF PassedSender, Reached
  <2>2. \A j \in DOMAIN list : list[j] \in SenderType
    OBVIOUS
  <2>3. QED
    BY <1>1, <1>4, <2>1, <2>2 DEF Passed, Places
<1>7. Passed(f, c, m)' = Places(new, S)
  <2>1. ASSUME NEW j \in DOMAIN new
        PROVE  PassedSender(f, j, m)' <=> Reached(f, new[j].since, m)
    <3>1. j \in Nat /\ Len(list) \in Nat /\ index \in Nat /\ j <= Len(list)
      BY <1>3 DEF TypeOK
    <3>2. index > 0 /\ Current = f => index > j
      BY <1>1, <3>1
    <3>3. index > j => index > 0
      BY <3>1
    <3>4. senders'[f][j].since = new[j].since
      BY <1>3
    <3>5. PassedSender(f, j, m)' <=>
              /\ m \in senders'[f][j].since .. Len(log) - 1
              /\ MessageAt(m) = f
              /\ m \notin lost
              /\ m < position \/ (m = position /\ index > j /\ Current = f)
      BY <1>5 DEF PassedSender
    <3>6. QED
      BY <3>2, <3>3, <3>4, <3>5 DEF Reached
  <2>2. \A j \in DOMAIN new : new[j] \in SenderType
    BY <1>3
  <2>3. Passed(f, c, m)' = {j \in DOMAIN new : new[j].conn = c /\ PassedSender(f, j, m)'}
    BY <1>3 DEF Passed
  <2>4. QED
    BY <1>4, <2>1, <2>2, <2>3 DEF Places
<1>8. /\ Cardinality(Places(list, S)) \in Nat
      /\ Cardinality(Places(new, S)) \in Nat
      /\ Cardinality(Places(new, S))
             = Cardinality(Places(list, S)) - (IF list[k] \in S THEN 1 ELSE 0)
  BY <1>1, <1>2, CountRemoved
<1>9. Cardinality(Places(new, S)) <= Cardinality(Places(list, S))
  BY <1>8
<1>10. Times(c, m)' = Times(c, m) /\ Times(c, m) \in Nat
  BY TimesCounts
<1>11. Times(c, m) >= Cardinality(Places(list, S))
  BY <1>6 DEF Served
<1>12. Times(c, m)' >= Cardinality(Places(new, S))
  BY <1>8, <1>9, <1>10, <1>11
<1>13. QED
  BY <1>7, <1>12 DEF Served

\* The senders of an open connection are neither skipped nor moved unseen.
LEMMA ServedStep ==
    ASSUME TypeOK, FailedAreClosed, EntriesInserted, SendersAsked, SendersServed, [Next]_vars
    PROVE  SendersServed'
<1>0. /\ position \in Nat /\ index \in Nat /\ Len(log) \in Nat /\ position <= Len(log)
      /\ lost \subseteq Offsets
      /\ index > 0 => phase = "handling" /\ position < Len(log)
      /\ DOMAIN senders \subseteq File
      /\ \A f \in DOMAIN senders : senders[f] \in Seq(SenderType)
  BY DEF TypeOK, ConsumerTypeOK
<1>1. (\A f \in DOMAIN senders' : \A c \in Conn :
           pc'[c] \in Open => \A k \in Offsets' : Served(f, c, k)') => SendersServed'
  <2>1. \A f \in DOMAIN senders' : senders'[f] \in Seq(SenderType)
    <3>1. TypeOK'
      BY TypeStep
    <3>2. QED
      BY <3>1 DEF TypeOK
  <2>2. ASSUME NEW f \in DOMAIN senders', NEW i \in DOMAIN senders'[f]
        PROVE  senders'[f][i].conn \in Conn
    <3>1. senders'[f][i] \in SenderType
      BY <2>1
    <3>2. QED
      BY <3>1 DEF SenderType
  <2>3. QED
    BY <2>2 DEF SendersServed, Served, Passed
<1>2. ASSUME NEW f \in DOMAIN senders, NEW c \in Conn, pc'[c] \in Open, NEW k \in Offsets,
             Passed(f, c, k)' \subseteq Passed(f, c, k), sent'[c] = sent[c]
      PROVE  Served(f, c, k)'
  <2>1. Times(c, k) >= Cardinality(Passed(f, c, k))
    BY <1>2, ServedBefore DEF Served
  <2>2. IsFiniteSet(Passed(f, c, k)) /\ Cardinality(Passed(f, c, k)) \in Nat
    BY PassedFinite
  <2>3. PICK I : I = Passed(f, c, k)
    OBVIOUS
  <2>4. PICK J : J = Passed(f, c, k)'
    OBVIOUS
  <2>5. Cardinality(J) \in Nat /\ Cardinality(J) <= Cardinality(I)
    BY <1>2, <2>2, <2>3, <2>4, FS_Subset, FS_CardinalityType
  <2>6. Times(c, k)' = Times(c, k) /\ Times(c, k) \in Nat
    BY <1>2, TimesCounts
  <2>7. Times(c, k)' >= Cardinality(J)
    BY <2>1, <2>2, <2>3, <2>5, <2>6
  <2>8. QED
    BY <2>4, <2>7 DEF Served
<1>3. ASSUME NEW f, NEW c \in Conn, NEW k, Passed(f, c, k)' = {}
      PROVE  Served(f, c, k)'
  <2>1. PICK list \in Seq(Nat) : list = sent'[c]
    <3>1. TypeOK'
      BY TypeStep
    <3>2. QED
      BY <3>1 DEF TypeOK
  <2>2. Times(c, k)' \in Nat
    <3>1. PICK I \in SUBSET DOMAIN list : I = {n \in DOMAIN list : list[n] = k}
      OBVIOUS
    <3>2. Times(c, k)' = Cardinality(I)
      BY <2>1, <3>1 DEF Times
    <3>3. QED
      BY <3>1, <3>2, PlacesFinite
  <2>3. PICK times \in Nat : times = Times(c, k)'
    BY <2>2
  <2>4. Cardinality({}) = 0
    BY FS_EmptySet
  <2>5. QED
    BY <1>3, <2>3, <2>4 DEF Served
<1>4. ASSUME UNCHANGED <<log, senders, sent>>,
             \A f \in DOMAIN senders : \A c \in Conn : \A k \in Offsets :
                 pc'[c] \in Open =>
                     \A j \in DOMAIN senders[f] :
                         senders[f][j].conn = c /\ PassedSender(f, j, k)'
                             => PassedSender(f, j, k)
      PROVE  SendersServed'
  <2>1. ASSUME NEW f \in DOMAIN senders', NEW c \in Conn, pc'[c] \in Open, NEW k \in Offsets'
        PROVE  Served(f, c, k)'
    <3>1. f \in DOMAIN senders /\ k \in Offsets
      BY <1>4, <2>1 DEF Offsets
    <3>2. Passed(f, c, k)' = {j \in DOMAIN senders[f] :
                                  senders[f][j].conn = c /\ PassedSender(f, j, k)'}
      BY <1>4 DEF Passed
    <3>3. Passed(f, c, k)' \subseteq Passed(f, c, k)
      BY <1>4, <2>1, <3>1, <3>2 DEF Passed
    <3>4. QED
      BY <1>2, <1>4, <2>1, <3>1, <3>3
  <2>2. QED
    BY <1>1, <2>1
<1>5. ASSUME NEW f \in DOMAIN senders, NEW j \in DOMAIN senders[f]
      PROVE  j \in Nat /\ j >= 1
  BY <1>0
<1>6. CASE Unseen
  <2>1. UNCHANGED <<log, senders, sent, position, lost, index>>
    BY <1>6 DEF Unseen, hubVars
  <2>2. \A f \in DOMAIN senders : \A k, j : PassedSender(f, j, k)' => PassedSender(f, j, k)
    BY <2>1 DEF PassedSender, Current, MessageAt
  <2>3. QED
    BY <1>4, <2>1, <2>2
<1>7. CASE \E message \in File \cup {NoKey} : Publish(message)
  <2>1. UNCHANGED <<senders, sent, position, lost, index>>
    BY <1>7 DEF Publish, Produce, hubVars, connVars
  <2>2. ASSUME NEW f \in DOMAIN senders', NEW c \in Conn, pc'[c] \in Open, NEW k \in Offsets'
        PROVE  Served(f, c, k)'
    <3>1. CASE k \in Offsets
      <4>1. ASSUME NEW j \in DOMAIN senders[f], PassedSender(f, j, k)'
            PROVE  PassedSender(f, j, k)
        <5>1. /\ k >= senders[f][j].since /\ MessageAt(k)' = f /\ k \notin lost
              /\ k < position \/ (k = position /\ index > j /\ Current' = f)
          <6>1. senders[f] \in Seq(SenderType) /\ Len(log') \in Int
            <7>1. TypeOK'
              BY TypeStep
            <7>2. QED
              BY <1>0, <2>1, <2>2, <7>1 DEF TypeOK
          <6>2. senders[f][j].since \in Nat
            <7>1. senders[f][j] \in SenderType
              BY <4>1, <6>1
            <7>2. QED
              BY <7>1 DEF SenderType
          <6>3. QED
            BY <2>1, <4>1, <6>1, <6>2 DEF PassedSender
        <5>2. MessageAt(k)' = MessageAt(k)
          BY <3>1, MessagesKept
        <5>3. index > j => Current' = Current
          <6>1. j \in Nat
            BY <1>5, <2>1, <2>2
          <6>2. index > j => phase = "handling"
            BY <1>0, <6>1
          <6>3. QED
            BY <2>1, <6>2, MessagesKept DEF Current
        <5>4. k \in senders[f][j].since .. Len(log) - 1
          <6>1. senders[f] \in Seq(SenderType)
            BY <1>0, <2>1, <2>2
          <6>2. senders[f][j].since \in Nat
            <7>1. senders[f][j] \in SenderType
              BY <4>1, <6>1
            <7>2. QED
              BY <7>1 DEF SenderType
          <6>3. QED
            BY <1>0, <3>1, <5>1, <6>2 DEF Offsets
        <5>5. QED
          BY <5>1, <5>2, <5>3, <5>4 DEF PassedSender
      <4>2. Passed(f, c, k)' = {j \in DOMAIN senders[f] :
                                    senders[f][j].conn = c /\ PassedSender(f, j, k)'}
        BY <2>1 DEF Passed
      <4>3. Passed(f, c, k)' \subseteq Passed(f, c, k)
        BY <4>1, <4>2 DEF Passed
      <4>4. QED
        BY <1>2, <2>1, <2>2, <3>1, <4>3
    <3>2. CASE k \notin Offsets
      <4>1. k \in Nat /\ k >= Len(log)
        <5>1. Len(log') \in Nat
          <6>1. TypeOK'
            BY TypeStep
          <6>2. QED
            BY <6>1 DEF TypeOK
        <5>2. k \in Nat
          BY <2>2, <5>1 DEF Offsets
        <5>3. QED
          BY <1>0, <3>2, <5>2 DEF Offsets
      <4>2. ASSUME NEW j \in DOMAIN senders'[f] PROVE ~ PassedSender(f, j, k)'
        <5>1. ~ (k < position) /\ (k = position => index = 0)
          BY <1>0, <4>1
        <5>2. j \in Nat
          BY <1>5, <2>1, <2>2
        <5>3. QED
          BY <2>1, <5>1, <5>2 DEF PassedSender
      <4>3. Passed(f, c, k)' = {}
        BY <4>2 DEF Passed
      <4>4. QED
        BY <1>3, <4>3
    <3>3. QED
      BY <3>1, <3>2
  <2>3. QED
    BY <1>1, <2>2
<1>8. CASE JoinGroup
  <2>1. /\ UNCHANGED <<log, senders, sent>> /\ index = 0 /\ index' = 0
        /\ lost' = lost \cup (position .. position' - 1)
    BY <1>8 DEF JoinGroup, Join, TypeOK, hubVars, connVars
  <2>2. position' \in Nat
    <3>1. TypeOK'
      BY TypeStep
    <3>2. QED
      BY <3>1 DEF TypeOK, ConsumerTypeOK
  <2>3. ASSUME NEW f \in DOMAIN senders, NEW j \in DOMAIN senders[f], NEW k \in Offsets,
               PassedSender(f, j, k)'
        PROVE  PassedSender(f, j, k)
    <3>1. /\ k \in senders[f][j].since .. Len(log) - 1 /\ MessageAt(k) = f
          /\ k \notin lost' /\ (k < position' \/ (k = position' /\ 0 > j))
      BY <2>1, <2>3 DEF PassedSender, MessageAt
    <3>2. ~ (0 > j) /\ k \in Nat
      BY <1>0, <1>5 DEF Offsets
    <3>3. k < position'
      BY <3>1, <3>2
    <3>4. k \notin lost /\ k \notin position .. position' - 1
      BY <2>1, <3>1
    <3>5. k < position
      <4>1. \A a, b, n \in Nat : a < b /\ ~ (a \in n .. b - 1) => a < n
        OBVIOUS
      <4>2. QED
        BY <1>0, <2>2, <3>2, <3>3, <3>4, <4>1
    <3>6. QED
      BY <3>1, <3>4, <3>5 DEF PassedSender
  <2>4. QED
    BY <1>4, <2>1, <2>3
<1>9. CASE PassOver \/ Release
  <2>1. UNCHANGED <<log, senders, sent, lost>> /\ index' = 0 /\ position' = position + 1
        /\ phase = "handling"
    BY <1>9 DEF PassOver, Release, Handled, hubVars, connVars
  <2>2. ASSUME NEW f \in DOMAIN senders, NEW j \in DOMAIN senders[f], MessageAt(position) = f
        PROVE  index > j /\ Current = f
    <3>1. Current \in DOMAIN senders
      BY <2>2 DEF Current
    <3>2. index > Len(senders[Current]) /\ Current = f
      BY <1>9, <2>2, <3>1 DEF PassOver, Release, AtEnd, Current
    <3>3. QED
      BY <1>0, <1>5, <3>1, <3>2
  <2>3. ASSUME NEW f \in DOMAIN senders, NEW j \in DOMAIN senders[f], NEW k \in Offsets,
               PassedSender(f, j, k)'
        PROVE  PassedSender(f, j, k)
    <3>1. /\ k \in senders[f][j].since .. Len(log) - 1 /\ MessageAt(k) = f
          /\ k \notin lost /\ (k < position + 1 \/ 0 > j)
      BY <2>1, <2>3 DEF PassedSender, MessageAt
    <3>2. ~ (0 > j) /\ k \in Nat
      BY <1>0, <1>5 DEF Offsets
    <3>3. k < position \/ k = position
      BY <1>0, <3>1, <3>2
    <3>4. QED
      BY <2>2, <3>1, <3>3 DEF PassedSender
  <2>4. QED
    BY <1>4, <2>1, <2>3
<1>10. CASE LockSenders
  <2>1. UNCHANGED <<log, senders, sent, lost, position>> /\ index' = 1
    BY <1>10 DEF LockSenders, consumerVars, connVars
  <2>2. ASSUME NEW f \in DOMAIN senders, NEW j \in DOMAIN senders[f], NEW k \in Offsets,
               PassedSender(f, j, k)'
        PROVE  PassedSender(f, j, k)
    <3>1. ~ (1 > j)
      BY <1>5
    <3>2. /\ k \in senders[f][j].since .. Len(log) - 1 /\ MessageAt(k) = f
          /\ k \notin lost /\ (k < position \/ 1 > j)
      BY <2>1, <2>2 DEF PassedSender, MessageAt
    <3>3. QED
      BY <3>1, <3>2 DEF PassedSender
  <2>3. QED
    BY <1>4, <2>1, <2>2
<1>11. CASE SendFails
  <2>1. /\ UNCHANGED <<log, senders, sent, lost, position, pc>> /\ index' = index + 1
        /\ pc[senders[Current][index].conn] = "closed"
    BY <1>11 DEF SendFails, consumerVars, connVars
  <2>2. Current' = Current
    BY <2>1 DEF Current, MessageAt
  <2>3. ASSUME NEW f \in DOMAIN senders, NEW c \in Conn, NEW k \in Offsets, pc'[c] \in Open,
               NEW j \in DOMAIN senders[f], senders[f][j].conn = c, PassedSender(f, j, k)'
        PROVE  PassedSender(f, j, k)
    <3>1. /\ k \in senders[f][j].since .. Len(log) - 1 /\ MessageAt(k) = f
          /\ k \notin lost /\ (k < position \/ (k = position /\ index + 1 > j /\ Current = f))
      BY <2>1, <2>2, <2>3 DEF PassedSender, MessageAt
    <3>2. Current = f => j # index
      BY <2>1, <2>3 DEF Open, Waiting
    <3>3. index + 1 > j /\ j # index => index > j
      BY <1>0, <1>5
    <3>4. QED
      BY <3>1, <3>2, <3>3 DEF PassedSender
  <2>4. QED
    BY <1>4, <2>1, <2>3
<1>12. CASE SendNext
  <2>1. PICK d \in Conn :
            /\ At(index) /\ d = senders[Current][index].conn
            /\ sent'[d] = Append(sent[d], position)
            /\ \A c \in Conn : c # d => sent'[c] = sent[c]
            /\ index' = index + 1
            /\ UNCHANGED <<consumerVars, senders, pc>>
            /\ Current' = Current
    BY <1>12, SendEffect
  <2>2. UNCHANGED <<log, position, lost>>
    BY <2>1 DEF consumerVars
  <2>3. ASSUME NEW f \in DOMAIN senders', NEW c \in Conn, pc'[c] \in Open, NEW k \in Offsets'
        PROVE  Served(f, c, k)'
    <3>1. f \in DOMAIN senders /\ k \in Offsets
      BY <2>1, <2>2, <2>3 DEF Offsets
    <3>2. Passed(f, c, k)' = {j \in DOMAIN senders[f] :
                                  senders[f][j].conn = c /\ PassedSender(f, j, k)'}
      BY <2>1 DEF Passed
    <3>3. ASSUME NEW j \in DOMAIN senders[f], PassedSender(f, j, k)'
          PROVE  PassedSender(f, j, k) \/ (j = index /\ Current = f /\ k = position)
      <4>1. /\ k \in senders[f][j].since .. Len(log) - 1 /\ MessageAt(k) = f
            /\ k \notin lost /\ (k < position \/ (k = position /\ index + 1 > j /\ Current = f))
        BY <2>1, <2>2, <3>3 DEF PassedSender, MessageAt
      <4>2. index + 1 > j => j = index \/ index > j
        BY <1>0, <1>5, <3>1
      <4>3. QED
        BY <4>1, <4>2 DEF PassedSender
    <3>4. CASE c # d \/ k # position
      <4>1. Passed(f, c, k)' \subseteq Passed(f, c, k)
        BY <2>1, <3>2, <3>3, <3>4 DEF Passed
      <4>2. CASE c # d
        BY <1>2, <2>1, <2>3, <3>1, <4>1, <4>2
      <4>3. CASE c = d
        <5>1. Times(c, k) >= Cardinality(Passed(f, c, k))
          BY <2>3, <3>1, ServedBefore DEF Served
        <5>2. PICK I : I = Passed(f, c, k)
          OBVIOUS
        <5>3. PICK J : J = Passed(f, c, k)'
          OBVIOUS
        <5>4. IsFiniteSet(I) /\ Cardinality(I) \in Nat
          BY <3>1, <5>2, PassedFinite
        <5>5. Cardinality(J) \in Nat /\ Cardinality(J) <= Cardinality(I)
          BY <4>1, <5>2, <5>3, <5>4, FS_Subset, FS_CardinalityType
        <5>6. Times(c, k)' = Times(c, k) + (IF k = position THEN 1 ELSE 0) /\ Times(c, k) \in Nat
          BY <2>1, <4>3, TimesCounts
        <5>7. Times(c, k)' = Times(c, k)
          BY <3>4, <4>3, <5>6
        <5>8. QED
          BY <5>1, <5>2, <5>3, <5>4, <5>5, <5>6, <5>7 DEF Served
      <4>4. QED
        BY <4>2, <4>3
    <3>5. CASE c = d /\ k = position
      <4>1. Passed(f, c, k)' \subseteq Passed(f, c, k) \cup {index}
        BY <3>2, <3>3 DEF Passed
      <4>2. Times(c, k) >= Cardinality(Passed(f, c, k))
        BY <2>3, <3>1, ServedBefore DEF Served
      <4>3. PICK I : I = Passed(f, c, k)
        OBVIOUS
      <4>4. PICK J : J = Passed(f, c, k)'
        OBVIOUS
      <4>5. IsFiniteSet(I) /\ Cardinality(I) \in Nat
        BY <3>1, <4>3, PassedFinite
      <4>6. IsFiniteSet(I \cup {index}) /\ Cardinality(I \cup {index}) <= Cardinality(I) + 1
            /\ Cardinality(I \cup {index}) \in Nat
        BY <4>5, FS_AddElement
      <4>7. Cardinality(J) \in Nat /\ Cardinality(J) <= Cardinality(I \cup {index})
        BY <4>1, <4>3, <4>4, <4>6, FS_Subset, FS_CardinalityType
      <4>8. Times(c, k)' = Times(c, k) + 1 /\ Times(c, k) \in Nat
        BY <2>1, <3>5, TimesCounts
      <4>9. Times(c, k)' >= Cardinality(J)
        BY <4>2, <4>3, <4>5, <4>6, <4>7, <4>8
      <4>10. QED
        BY <4>4, <4>9 DEF Served
    <3>6. QED
      BY <3>4, <3>5
  <2>4. QED
    BY <1>1, <2>3
<1>13. CASE RemoveFailed
  <2>1. /\ UNCHANGED <<log, position, lost, index, sent, pc>> /\ Current' = Current
        /\ index > Len(senders[Current]) /\ Current \in DOMAIN senders
        /\ SameEntries
    BY <1>13, RemoveEffect DEF consumerVars, connVars
  <2>2. PICK n \in DOMAIN senders[Current] : senders'[Current] = RemoveAt(senders[Current], n)
    BY <1>13, RemoveEffect
  <2>3. ASSUME NEW f \in DOMAIN senders', NEW c \in Conn, pc'[c] \in Open, NEW k \in Offsets'
        PROVE  Served(f, c, k)'
    <3>1. f \in DOMAIN senders /\ k \in Offsets
      BY <2>1, <2>3 DEF Offsets, SameEntries
    <3>2. Served(f, c, k) /\ sent'[c] = sent[c]
      BY <2>1, <2>3, <3>1, ServedBefore
    <3>3. CASE f = Current
      BY <2>1, <2>2, <3>1, <3>2, <3>3, PassedRemoved
    <3>4. CASE f # Current
      <4>1. senders'[f] = senders[f]
        BY <2>1, <3>1, <3>4 DEF SameEntries
      <4>2. \A j : PassedSender(f, j, k)' <=> PassedSender(f, j, k)
        BY <2>1, <4>1 DEF PassedSender, MessageAt
      <4>3. Passed(f, c, k)' = {j \in DOMAIN senders[f] :
                                    senders[f][j].conn = c /\ PassedSender(f, j, k)'}
        BY <4>1 DEF Passed
      <4>4. Passed(f, c, k)' \subseteq Passed(f, c, k)
        BY <4>2, <4>3 DEF Passed
      <4>5. QED
        BY <1>2, <2>3, <3>1, <3>2, <4>4
    <3>5. QED
      BY <3>3, <3>4
  <2>4. QED
    BY <1>1, <2>3
<1>14. CASE CrashService
  BY <1>14 DEF CrashService, SendersServed
<1>15. ASSUME NEW d \in Conn, NEW g \in File, CommandDone(d, g),
              Joined(d, g) \/ Replaced(d, g) \/ Withdrawn(d, g)
       PROVE  SendersServed'
  <2>1. /\ UNCHANGED <<log, position, lost, index, sent>>
        /\ index > 0 => g # Current
    BY <1>15 DEF CommandDone, consumerVars
  <2>2. Current' = Current
    BY <2>1 DEF Current, MessageAt
  <2>3. PICK s \in SenderType : s = Sender(d) /\ s.since = position
    BY SenderTyped
  <2>4. DOMAIN senders' \subseteq File
    BY HubTypeStep DEF HubTypes
  <2>5. ASSUME NEW f \in DOMAIN senders', NEW c \in Conn, pc'[c] \in Open, NEW k \in Offsets'
        PROVE  Served(f, c, k)'
    <3>1. k \in Offsets /\ k \in Nat /\ sent'[c] = sent[c]
      BY <1>0, <2>1, <2>5 DEF Offsets
    <3>2. ASSUME NEW j \in Nat
          PROVE  PassedSender(f, j, k)' <=>
                     /\ k \in senders'[f][j].since .. Len(log) - 1
                     /\ MessageAt(k) = f
                     /\ k \notin lost
                     /\ k < position \/ (k = position /\ index > j /\ Current = f)
      BY <2>1, <2>2 DEF PassedSender, MessageAt
    <3>3. ASSUME f \in DOMAIN senders, senders'[f] = senders[f] PROVE Served(f, c, k)'
      <4>1. \A j \in DOMAIN senders[f] : PassedSender(f, j, k)' <=> PassedSender(f, j, k)
        BY <1>5, <3>2, <3>3 DEF PassedSender
      <4>2. Passed(f, c, k)' = {j \in DOMAIN senders[f] :
                                    senders[f][j].conn = c /\ PassedSender(f, j, k)'}
        BY <3>3 DEF Passed
      <4>3. Passed(f, c, k)' \subseteq Passed(f, c, k)
        BY <4>1, <4>2 DEF Passed
      <4>4. QED
        BY <1>2, <2>5, <3>1, <3>3, <4>3
    <3>4. CASE f # g
      <4>1. f \in DOMAIN senders /\ senders'[f] = senders[f]
        BY <1>15, <2>4, <2>5, <3>4 DEF CommandDone
      <4>2. QED
        BY <3>3, <4>1
    <3>5. ASSUME f = g, NEW j \in Nat, j \in DOMAIN senders'[f], senders'[f][j] = s
          PROVE  ~ PassedSender(f, j, k)'
      <4>1. index > j => g # Current
        BY <1>0, <2>1, <3>5
      <4>2. k \in position .. Len(log) - 1 => ~ (k < position)
        BY <1>0, <3>1
      <4>3. senders'[f][j].since = position
        BY <2>3, <3>5
      <4>4. QED
        BY <3>2, <3>5, <4>1, <4>2, <4>3
    <3>6. CASE f = g /\ Joined(d, g)
      <4>1. PICK list \in Seq(SenderType) : list = senders[f]
        BY <1>0, <3>6 DEF Joined
      <4>2. senders'[f] = Append(list, s) /\ f \in DOMAIN senders
        BY <2>3, <3>6, <4>1 DEF Joined
      <4>3. /\ Append(list, s)[Len(list) + 1] = s /\ Len(list) + 1 \in Nat
            /\ \A i \in DOMAIN list : Append(list, s)[i] = list[i]
            /\ \A i \in DOMAIN Append(list, s) : i = Len(list) + 1 \/ i \in DOMAIN list
        BY AppendProperties
      <4>4. ASSUME NEW j \in DOMAIN senders'[f], PassedSender(f, j, k)'
            PROVE  j \in DOMAIN list /\ senders'[f][j] = senders[f][j] /\ PassedSender(f, j, k)
        <5>1. j # Len(list) + 1
          BY <3>5, <3>6, <4>2, <4>3, <4>4
        <5>2. j \in DOMAIN list /\ senders'[f][j] = senders[f][j]
          BY <4>1, <4>2, <4>3, <4>4, <5>1
        <5>3. j \in Nat
          BY <5>2
        <5>4. PassedSender(f, j, k)
          BY <3>2, <4>4, <5>2, <5>3 DEF PassedSender
        <5>5. QED
          BY <5>2, <5>4
      <4>5. Passed(f, c, k)' = {j \in DOMAIN senders'[f] :
                                    senders'[f][j].conn = c /\ PassedSender(f, j, k)'}
        BY DEF Passed
      <4>6. Passed(f, c, k)' \subseteq Passed(f, c, k)
        BY <4>1, <4>4, <4>5 DEF Passed
      <4>7. QED
        BY <1>2, <2>5, <3>1, <4>2, <4>6
    <3>7. CASE f = g /\ Replaced(d, g)
      <4>1. senders'[f] = <<s>>
        BY <2>3, <3>7 DEF Replaced
      <4>2. \A j \in DOMAIN senders'[f] : j \in Nat /\ senders'[f][j] = s
        BY <4>1
      <4>3. Passed(f, c, k)' = {j \in DOMAIN senders'[f] :
                                    senders'[f][j].conn = c /\ PassedSender(f, j, k)'}
        BY DEF Passed
      <4>4. Passed(f, c, k)' = {}
        BY <3>5, <3>7, <4>2, <4>3
      <4>5. QED
        BY <1>3, <4>4
    <3>8. CASE f = g /\ Withdrawn(d, g)
      <4>1. f \in DOMAIN senders
        BY <2>5, <3>8 DEF Withdrawn
      <4>2. CASE senders'[f] = senders[f]
        BY <3>3, <4>1, <4>2
      <4>3. CASE \E n \in DOMAIN senders[f] : senders'[f] = RemoveAt(senders[f], n)
        <5>1. PICK n \in DOMAIN senders[f] : senders'[f] = RemoveAt(senders[f], n)
          BY <4>3
        <5>2. Served(f, c, k)
          BY <2>5, <3>1, <4>1, ServedBefore
        <5>3. QED
          BY <2>1, <3>1, <3>8, <4>1, <5>1, <5>2, PassedRemoved
      <4>4. QED
        BY <3>8, <4>1, <4>2, <4>3 DEF Withdrawn
    <3>9. QED
      BY <1>15, <3>4, <3>6, <3>7, <3>8
  <2>6. QED
    BY <1>1, <2>5
<1>16. QED
  BY <1>6, <1>7, <1>8, <1>9, <1>10, <1>11, <1>12, <1>13, <1>14, <1>15, StepCases

-----------------------------------------------------------------------------
(* Subscribers are kept *)

\* Nobody with the user's name of c has unsubscribed from f, whose entry was
\* inserted once.
Undisturbed(f, c) ==
    firsts[f] <= 1 /\ \A d \in Conn : UserOf(d) = UserOf(c) => f \notin left[d]

Kept(f, c) ==
    f \in DOMAIN senders /\ Cardinality(OfConn(senders[f], c)) = asked[c][f]

\* The property, connection by connection.
LEMMA KeptByConn ==
    SubscribersKept <=> \A c \in Conn : \A f \in File :
                            pc[c] \in Open /\ asked[c][f] > 0 /\ Undisturbed(f, c) => Kept(f, c)
  BY DEF SubscribersKept, Undisturbed, Kept, OfConn

\* A connection keeps its senders as long as nobody of its user's name leaves.
LEMMA KeptStep ==
    ASSUME TypeOK, FailedAreClosed, EntriesInserted, SendersNamed, SendersAsked,
           SubscribersKept, [Next]_vars
    PROVE  SubscribersKept'
<1>0. (\A c \in Conn : \A f \in File :
           pc'[c] \in Open /\ asked'[c][f] > 0 /\ Undisturbed(f, c)' => Kept(f, c)')
      => SubscribersKept'
  BY DEF SubscribersKept, Undisturbed, Kept, OfConn
<1>1. /\ asked \in [Conn -> [File -> Nat]] /\ firsts \in [File -> Nat]
      /\ \A f \in DOMAIN senders : f \in File /\ senders[f] \in Seq(SenderType)
      /\ pc \in [Conn -> Open \cup {"none", "closed"}]
  BY DEF TypeOK
<1>2. ASSUME NEW c \in Conn, pc'[c] \in Open
      PROVE  /\ pc[c] # "closed"
             /\ \A f \in File : asked[c][f] > 0 => pc[c] \in Open /\ f \in DOMAIN senders
  <2>1. PcStep(c)
    BY ConnTypeStep
  <2>2. pc[c] \in Open \cup {"none"}
    BY <1>2, <2>1 DEF PcStep
  <2>3. "closed" \notin Open \cup {"none"}
    BY DEF Open, Waiting
  <2>4. pc[c] # "closed"
    BY <2>2, <2>3
  <2>5. QED
    BY <2>2, <2>4 DEF EntriesInserted
<1>3. ASSUME NEW c \in Conn, NEW f \in File, pc'[c] \in Open, asked[c][f] > 0, Undisturbed(f, c)
      PROVE  Kept(f, c)
  BY <1>2, <1>3, KeptByConn
<1>4. CASE UNCHANGED <<senders, firsts, asked, left>>
  <2>1. ASSUME NEW c \in Conn, NEW f \in File,
               pc'[c] \in Open, asked'[c][f] > 0, Undisturbed(f, c)'
        PROVE  Kept(f, c)'
    <3>1. asked[c][f] > 0 /\ Undisturbed(f, c)
      BY <1>4, <2>1 DEF Undisturbed
    <3>2. QED
      BY <1>3, <1>4, <2>1, <3>1 DEF Kept
  <2>2. QED
    BY <1>0, <2>1
<1>5. CASE RemoveFailed
  <2>1. PICK k \in DOMAIN senders[Current] :
            /\ pc[senders[Current][k].conn] = "closed"
            /\ senders'[Current] = RemoveAt(senders[Current], k)
    BY <1>5, RemoveEffect
  <2>2. Current \in DOMAIN senders /\ SameEntries
    BY <1>5, RemoveEffect
  <2>3. PICK list \in Seq(SenderType) : list = senders[Current]
    BY <1>1, <2>2
  <2>4. ASSUME NEW c \in Conn, NEW f \in File,
               pc'[c] \in Open, asked'[c][f] > 0, Undisturbed(f, c)'
        PROVE  Kept(f, c)'
    <3>1. Kept(f, c) /\ asked' = asked /\ DOMAIN senders' = DOMAIN senders
      <4>1. asked[c][f] > 0 /\ Undisturbed(f, c)
        BY <2>2, <2>4 DEF SameEntries, Undisturbed
      <4>2. QED
        BY <1>3, <2>2, <2>4, <4>1 DEF SameEntries
    <3>2. CASE f # Current
      BY <2>2, <3>1, <3>2 DEF Kept, SameEntries
    <3>3. CASE f = Current
      <4>1. list[k].conn # c
        BY <1>2, <2>1, <2>3, <2>4
      <4>2. /\ Cardinality(OfConn(list, c)) \in Nat
            /\ Cardinality(OfConn(RemoveAt(list, k), c))
                   = Cardinality(OfConn(list, c)) - (IF list[k].conn = c THEN 1 ELSE 0)
        BY <2>1, <2>3, OfConnCounts
      <4>3. Cardinality(OfConn(RemoveAt(list, k), c)) = Cardinality(OfConn(list, c))
        BY <4>1, <4>2
      <4>4. senders'[f] = RemoveAt(list, k) /\ senders[f] = list
        BY <2>1, <2>3, <3>3
      <4>5. QED
        BY <3>1, <4>3, <4>4 DEF Kept
    <3>4. QED
      BY <3>2, <3>3
  <2>5. QED
    BY <1>0, <2>4
<1>6. CASE CrashService
  <2>1. \A c \in Conn : pc'[c] \notin Open
    BY <1>6 DEF CrashService, Open, Waiting
  <2>2. QED
    BY <1>0, <2>1
<1>7. ASSUME NEW d \in Conn, NEW g \in File, CommandDone(d, g),
             Joined(d, g) \/ Replaced(d, g) \/ Withdrawn(d, g)
      PROVE  SubscribersKept'
  <2>1. PICK s \in SenderType : s = Sender(d) /\ s.conn = d
    BY SenderTyped
  <2>2. ASSUME NEW c \in Conn, NEW f \in File,
               pc'[c] \in Open, asked'[c][f] > 0, Undisturbed(f, c)'
        PROVE  Kept(f, c)'
    <3>1. /\ f # g => asked'[c][f] = asked[c][f] /\ firsts'[f] = firsts[f]
          /\ c # d => asked'[c][f] = asked[c][f]
          /\ \A e \in Conn : UserOf(e) = UserOf(c) => f \notin left[e]
      BY <1>7, <2>2 DEF CommandDone, Undisturbed
    <3>2. firsts[f] <= 1
      <4>1. firsts[f] \in Nat /\ firsts'[f] <= 1
        BY <1>1, <2>2 DEF Undisturbed
      <4>2. firsts'[f] = firsts[f] \/ firsts'[f] = firsts[f] + 1
        BY <1>7, <3>1 DEF Joined, Replaced, Withdrawn
      <4>3. QED
        BY <4>1, <4>2
    <3>3. Undisturbed(f, c)
      BY <3>1, <3>2 DEF Undisturbed
    <3>4. asked[c][f] \in Nat /\ (asked[c][f] > 0 => Kept(f, c))
      BY <1>1, <1>3, <2>2, <3>3
    <3>5. CASE f # g
      <4>1. Kept(f, c)
        BY <2>2, <3>1, <3>4, <3>5
      <4>2. f \in DOMAIN senders' /\ senders'[f] = senders[f]
        BY <1>7, <3>5, <4>1 DEF CommandDone, Kept
      <4>3. QED
        BY <3>1, <3>5, <4>1, <4>2 DEF Kept
    <3>6. CASE f = g /\ Joined(d, g)
      <4>1. PICK list \in Seq(SenderType) : list = senders[f]
        BY <1>1, <3>6 DEF Joined
      <4>2. senders'[f] = Append(list, s) /\ f \in DOMAIN senders'
        BY <2>1, <3>6, <4>1 DEF Joined
      <4>3. /\ Cardinality(OfConn(list, c)) \in Nat
            /\ Cardinality(OfConn(Append(list, s), c))
                   = Cardinality(OfConn(list, c)) + (IF s.conn = c THEN 1 ELSE 0)
        BY OfConnCounts
      <4>4. Cardinality(OfConn(list, c)) = asked[c][f]
        <5>1. CASE asked[c][f] > 0
          BY <3>4, <4>1, <5>1 DEF Kept
        <5>2. CASE asked[c][f] = 0
          <6>1. Cardinality(OfConn(list, c)) <= asked[c][f]
            BY <3>6, <4>1 DEF SendersAsked, SendersOf, OfConn, Joined
          <6>2. QED
            BY <4>3, <5>2, <6>1
        <5>3. QED
          BY <3>4, <5>1, <5>2
      <4>5. asked'[c][f] = asked[c][f] + (IF c = d THEN 1 ELSE 0)
        BY <3>1, <3>4, <3>6 DEF Joined
      <4>6. Cardinality(OfConn(Append(list, s), c)) = asked'[c][f]
        BY <2>1, <3>4, <4>3, <4>4, <4>5
      <4>7. QED
        BY <4>2, <4>6 DEF Kept
    <3>7. CASE f = g /\ Replaced(d, g)
      <4>1. firsts[f] = 0
        <5>1. firsts[f] \in Nat /\ firsts'[f] = firsts[f] + 1 /\ firsts'[f] <= 1
          BY <1>1, <2>2, <3>7 DEF Replaced, Undisturbed
        <5>2. QED
          BY <5>1
      <4>2. f \notin DOMAIN senders
        BY <4>1 DEF EntriesInserted
      <4>3. asked[c][f] = 0
        BY <3>4, <4>2 DEF Kept
      <4>4. c = d
        BY <2>2, <3>1, <4>3
      <4>5. asked'[c][f] = 1 /\ senders'[f] = <<s>> /\ f \in DOMAIN senders'
        BY <2>1, <3>7, <4>3, <4>4 DEF Replaced
      <4>6. Cardinality(OfConn(<<s>>, c)) = 1
        <5>1. <<s>> \in Seq(SenderType)
          OBVIOUS
        <5>2. Cardinality(OfConn(<<s>>, c)) = IF s.conn = c THEN 1 ELSE 0
          BY OfConnCounts, <5>1
        <5>3. QED
          BY <2>1, <4>4, <5>2
      <4>7. QED
        BY <4>5, <4>6 DEF Kept
    <3>8. CASE f = g /\ Withdrawn(d, g)
      <4>1. asked'[c][f] = asked[c][f]
        BY <3>1, <3>8 DEF Withdrawn
      <4>2. Kept(f, c)
        BY <2>2, <3>4, <4>1
      <4>3. f \in DOMAIN senders /\ f \in DOMAIN senders'
        BY <3>8, <4>2 DEF Kept, Withdrawn
      <4>4. UserOf(d) # UserOf(c)
        BY <2>2, <3>8 DEF Withdrawn, Undisturbed
      <4>5. CASE senders'[f] = senders[f]
        BY <4>1, <4>2, <4>3, <4>5 DEF Kept
      <4>6. CASE \E k \in DOMAIN senders[f] :
                     /\ senders[f][k].user = UserOf(d)
                     /\ senders'[f] = RemoveAt(senders[f], k)
        <5>1. PICK k \in DOMAIN senders[f] :
                  /\ senders[f][k].user = UserOf(d)
                  /\ senders'[f] = RemoveAt(senders[f], k)
          BY <4>6
        <5>2. PICK list \in Seq(SenderType) : list = senders[f]
          BY <1>1, <4>3
        <5>3. list[k].conn # c
          BY <4>3, <4>4, <5>1, <5>2 DEF SendersNamed
        <5>4. /\ Cardinality(OfConn(list, c)) \in Nat
              /\ Cardinality(OfConn(RemoveAt(list, k), c))
                     = Cardinality(OfConn(list, c)) - (IF list[k].conn = c THEN 1 ELSE 0)
          BY <5>1, <5>2, OfConnCounts
        <5>5. Cardinality(OfConn(RemoveAt(list, k), c)) = Cardinality(OfConn(list, c))
          BY <5>3, <5>4
        <5>6. QED
          BY <4>1, <4>2, <4>3, <5>1, <5>2, <5>5 DEF Kept
      <4>7. QED
        BY <3>8, <4>3, <4>5, <4>6 DEF Withdrawn
    <3>9. QED
      BY <1>7, <3>5, <3>6, <3>7, <3>8
  <2>3. QED
    BY <1>0, <2>2
<1>8. QED
  BY <1>4, <1>5, <1>6, <1>7, MapCases

-----------------------------------------------------------------------------
(* The theorems *)

\* A hub that has just started keeps its invariant and its properties.
LEMMA HubInit == Init => TypeOK /\ HubInv /\ SentAsAsked /\ SendersServed /\ SubscribersKept
<1> SUFFICES ASSUME Init
             PROVE  TypeOK /\ HubInv /\ SentAsAsked /\ SendersServed /\ SubscribersKept
  OBVIOUS
<1>1. TypeOK /\ FailedAreClosed
  BY TypeInit
<1>2. /\ DOMAIN senders = {} /\ index = 0
      /\ \A c \in Conn : sent[c] = << >>
      /\ \A c \in Conn : \A f \in File : asked[c][f] = 0
      /\ \A f \in File : firsts[f] = 0
  BY DEF Init
<1>3. EntriesInserted /\ SendersNamed /\ SentSoFar /\ SendersAsked /\ RestAsked
  BY <1>2 DEF EntriesInserted, SendersNamed, SentSoFar, SendersAsked, RestAsked
<1>4. SentAsAsked /\ SendersServed /\ SubscribersKept
  BY <1>2 DEF SentAsAsked, SendersServed, SubscribersKept
<1>5. QED
  BY <1>1, <1>3, <1>4 DEF HubInv

\* Every step of the hub keeps the inductive invariant.
LEMMA HubInvStep == TypeOK /\ HubInv /\ [Next]_vars => HubInv'
<1> SUFFICES ASSUME TypeOK, HubInv, [Next]_vars PROVE HubInv'
  OBVIOUS
<1>1. /\ FailedAreClosed /\ EntriesInserted /\ SendersNamed
      /\ SentSoFar /\ SendersAsked /\ RestAsked
  BY DEF HubInv
<1>2. FailedAreClosed' /\ EntriesInserted'
  BY <1>1, FailedStep, EntriesStep
<1>3. SendersNamed'
  BY <1>1, NamedStep
<1>4. SentSoFar'
  BY <1>1, SentStep
<1>5. SendersAsked'
  BY <1>1, SendersAskedStep
<1>6. RestAsked'
  BY <1>1, RestStep
<1>7. QED
  BY <1>2, <1>3, <1>4, <1>5, <1>6 DEF HubInv

\* The senders marked for removal are closed ones of the list in hand, and what
\* was sent and is still to be sent of a message stays within what was asked
\* for, whatever the consumer and the tasks of the connections do
\* (send_to_clients and the map of updates/src).
THEOREM HubInductive == Spec => []HubInv
<1>1. Init => TypeOK /\ HubInv
  BY HubInit
<1>2. TypeOK /\ HubInv /\ [Next]_vars => TypeOK' /\ HubInv'
  BY HubInvStep, TypeStep DEF HubInv
<1>3. QED
  BY <1>1, <1>2, PTL DEF Spec

\* Every channel is fed in the order of the topic, with representations of
\* files its client subscribed to, and with none more often than it subscribed.
THEOREM SentOnlyAsAsked == Spec => []SentAsAsked
<1>1. Init => TypeOK /\ HubInv /\ SentAsAsked
  BY HubInit
<1>2. TypeOK /\ HubInv /\ SentAsAsked /\ [Next]_vars => TypeOK' /\ HubInv' /\ SentAsAsked'
  BY HubInvStep, TypeStep, SentAsAskedStep DEF HubInv
<1>3. QED
  BY <1>1, <1>2, PTL DEF Spec

\* No sender is skipped in a list from which closed ones are removed: each has
\* been sent every message of its file that was handled since it was added.
THEOREM AllServed == Spec => []SendersServed
<1>1. Init => TypeOK /\ HubInv /\ SendersServed
  BY HubInit
<1>2. TypeOK /\ HubInv /\ SendersServed /\ [Next]_vars => TypeOK' /\ HubInv' /\ SendersServed'
  BY HubInvStep, TypeStep, ServedStep DEF HubInv
<1>3. QED
  BY <1>1, <1>2, PTL DEF Spec

\* An open connection has a sender for each of its Subscribes, whatever the
\* consumer removes and other connections join and leave, unless an entry was
\* inserted twice or its user's name was used to unsubscribe.
THEOREM SubscribersStay == Spec => []SubscribersKept
<1>1. Init => TypeOK /\ HubInv /\ SubscribersKept
  BY HubInit
<1>2. TypeOK /\ HubInv /\ SubscribersKept /\ [Next]_vars
          => TypeOK' /\ HubInv' /\ SubscribersKept'
  BY HubInvStep, TypeStep, KeptStep DEF HubInv
<1>3. QED
  BY <1>1, <1>2, PTL DEF Spec
=============================================================================
