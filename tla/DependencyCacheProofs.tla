------------------------ MODULE DependencyCacheProofs ------------------------
(***************************************************************************)
(* Theorems about the subscriber sets, for any objects, pieces, lists of   *)
(* references, log length, and number and kinds of faults.                 *)
(*                                                                         *)
(* The argument: GraphInv is inductive.  A set is computed from the set    *)
(* found at the offset of the change, and that one is complete for every   *)
(* other object: the object's last change k up to there is in the list     *)
(* ahead of anything older (ChangesLead), so what is found was computed    *)
(* at an offset between, where the object's references were the same       *)
(* (SubscribersServed).  For the object that changes, its new references   *)
(* are put in, and none of them is among those taken out, because a        *)
(* reference keeps its slot (NothingOfNewDeleted).                         *)
(*                                                                         *)
(* That no more is found than must be holds without faults, where the      *)
(* position only grows: StaleInv keeps the stored lists equal to those of  *)
(* the log, so what the diff of a message leaves in place though it is     *)
(* given up (GivenUp) is what an Add or a slot pointed elsewhere leaves.   *)
(***************************************************************************)
EXTENDS DependencyCache, SequenceTheorems, FiniteSetTheorems, WellFoundedInduction, TLAPS

-----------------------------------------------------------------------------
(* Numbers *)

\* A set of numbers has a least one.
LEMMA LeastExists ==
    ASSUME NEW I \in SUBSET Nat, I # {}
    PROVE  \E i \in I : \A j \in I : i <= j
<1> DEFINE R == {ss \in Nat \X Nat : ss[1] < ss[2]}
<1>1. OpToRel(<, Nat) = R
  BY Zenon DEF OpToRel
<1>2. IsWellFoundedOn(R, Nat)
  BY Zenon, <1>1, NatLessThanWellFounded
<1>3. PICK i \in I : \A j \in I : ~ (<<j, i>> \in R)
  <2> HIDE DEF R
  <2> QED
    BY <1>2, WFMin
<1>4. ASSUME NEW j \in I PROVE i <= j
  <2>1. i \in Nat /\ j \in Nat /\ <<j, i>> \in Nat \X Nat
    OBVIOUS
  <2>2. ~ (<<j, i>>[1] < <<j, i>>[2])
    BY <1>3, <2>1
  <2>3. QED
    BY <2>1, <2>2
<1>5. QED
  BY <1>3, <1>4

\* A bounded set of numbers has a greatest one.
LEMMA GreatestExists ==
    ASSUME NEW I \in SUBSET Nat, I # {}, NEW b \in Nat, \A i \in I : i <= b
    PROVE  \E i \in I : \A j \in I : j <= i
<1> DEFINE J == {b - i : i \in I}
<1>1. J \in SUBSET Nat /\ J # {}
  <2>1. ASSUME NEW i \in I PROVE b - i \in Nat
    <3>1. i \in Nat /\ i <= b
      OBVIOUS
    <3>2. QED
      BY <3>1
  <2>2. PICK i \in I : TRUE
    OBVIOUS
  <2>3. QED
    BY <2>1, <2>2
<1>2. PICK d \in J : \A e \in J : d <= e
  <2> HIDE DEF J
  <2> QED
    BY <1>1, LeastExists
<1>3. PICK i \in I : d = b - i
  BY <1>2
<1>4. ASSUME NEW j \in I PROVE j <= i
  <2>1. b - j \in J
    OBVIOUS
  <2>2. d <= b - j
    BY <1>2, <2>1
  <2>3. i \in Nat /\ j \in Nat
    OBVIOUS
  <2>4. QED
    BY <1>3, <2>2, <2>3
<1>5. QED
  BY <1>4

-----------------------------------------------------------------------------
(* Lists *)

\* A list that has an entry at or below an offset has a first one.
LEMMA FirstHitExists ==
    ASSUME NEW list \in Seq(Entry), NEW o \in Int,
           \E i \in DOMAIN list : list[i].offset <= o
    PROVE  \E i \in DOMAIN list : FirstHit(list, o, i)
<1> DEFINE I == {i \in DOMAIN list : list[i].offset <= o}
<1>1. I \in SUBSET Nat /\ I # {}
  OBVIOUS
<1>2. PICK i \in I : \A j \in I : i <= j
  <2> HIDE DEF I
  <2> QED
    BY <1>1, LeastExists
<1>3. ASSUME NEW j \in 1 .. i - 1 PROVE list[j].offset > o
  <2>1. j \in DOMAIN list /\ i \in Nat /\ j < i
    OBVIOUS
  <2>2. j \notin I
    BY <1>2, <2>1
  <2>3. list[j] \in Entry
    BY <2>1
  <2>4. QED
    BY <2>1, <2>2, <2>3 DEF Entry
<1>4. QED
  BY <1>3 DEF FirstHit

\* At most one entry is the first.
LEMMA FirstHitUnique ==
    ASSUME NEW list \in Seq(Entry), NEW o \in Int, NEW i, NEW j,
           FirstHit(list, o, i), FirstHit(list, o, j)
    PROVE  i = j
<1>1. /\ i \in Nat /\ j \in Nat /\ i >= 1 /\ j >= 1
      /\ list[i] \in Entry /\ list[j] \in Entry
  BY DEF FirstHit
<1>2. ASSUME i < j PROVE FALSE
  <2>1. i \in 1 .. j - 1
    BY <1>1, <1>2
  <2>2. list[i].offset > o /\ list[i].offset <= o
    BY <2>1 DEF FirstHit
  <2>3. QED
    BY <1>1, <2>2 DEF Entry
<1>3. ASSUME j < i PROVE FALSE
  <2>1. j \in 1 .. i - 1
    BY <1>1, <1>3
  <2>2. list[j].offset > o /\ list[j].offset <= o
    BY <2>1 DEF FirstHit
  <2>3. QED
    BY <1>1, <2>2 DEF Entry
<1>4. QED
  BY <1>1, <1>2, <1>3

\* What the service reads for an offset is the first entry at or below it.
LEMMA SubsAtHit ==
    ASSUME NEW r, subs[r] \in Seq(Entry), NEW o \in Int, NEW i, FirstHit(subs[r], o, i)
    PROVE  SubsAt(r, o) = subs[r][i].subs
<1> DEFINE n == CHOOSE j \in DOMAIN subs[r] : FirstHit(subs[r], o, j)
<1>1. i \in DOMAIN subs[r] /\ subs[r][i].offset <= o
  BY DEF FirstHit
<1>2. FirstHit(subs[r], o, n)
  BY <1>1
<1>3. n = i
  <2> HIDE DEF n
  <2> QED
    BY <1>2, FirstHitUnique
<1>4. SubsAt(r, o) = subs[r][n].subs
  BY <1>1 DEF SubsAt
<1>5. QED
  BY <1>3, <1>4

\* A list in which k leads finds, at any offset from k on, an entry no older.
LEMMA LeadsHit ==
    ASSUME NEW list \in Seq(Entry), NEW k \in Nat, NEW o \in Int, k <= o, Leads(k, list)
    PROVE  \E i \in DOMAIN list : FirstHit(list, o, i) /\ list[i].offset >= k
<1>1. PICK n \in DOMAIN list :
          list[n].offset = k /\ \A j \in 1 .. n - 1 : list[j].offset >= k
  BY DEF Leads
<1>2. PICK i \in DOMAIN list : FirstHit(list, o, i)
  BY <1>1, FirstHitExists
<1>3. i <= n
  <2>1. ASSUME n < i PROVE FALSE
    <3>1. n \in 1 .. i - 1
      BY <2>1
    <3>2. list[n].offset > o
      BY <1>2, <3>1 DEF FirstHit
    <3>3. QED
      BY <1>1, <3>2
  <2>2. QED
    BY <2>1
<1>4. list[i].offset >= k
  BY <1>1, <1>3
<1>5. QED
  BY <1>2, <1>4

\* What was pushed is ahead of the list, whose order it keeps (LPUSH).
LEMMA PushedAhead ==
    ASSUME NEW list \in Seq(Entry), NEW entry \in Entry
    PROVE  LET new == <<entry>> \o list
           IN  /\ new \in Seq(Entry)
               /\ Len(new) = Len(list) + 1
               /\ new[1] = entry
               /\ \A i \in DOMAIN list : new[i + 1] = list[i]
               /\ \A i \in DOMAIN new : i = 1 \/ (i - 1 \in DOMAIN list /\ new[i] = list[i - 1])
  OBVIOUS

\* A push at or above k does not stop k from leading.
LEMMA LeadsPush ==
    ASSUME NEW list \in Seq(Entry), NEW entry \in Entry, NEW k \in Nat,
           entry.offset >= k, Leads(k, list)
    PROVE  Leads(k, <<entry>> \o list)
<1> DEFINE new == <<entry>> \o list
<1>1. /\ new \in Seq(Entry)
      /\ Len(new) = Len(list) + 1
      /\ new[1] = entry
      /\ \A i \in DOMAIN list : new[i + 1] = list[i]
      /\ \A i \in DOMAIN new : i = 1 \/ (i - 1 \in DOMAIN list /\ new[i] = list[i - 1])
  BY PushedAhead
<1>2. PICK n \in DOMAIN list :
          list[n].offset = k /\ \A j \in 1 .. n - 1 : list[j].offset >= k
  BY DEF Leads
<1> HIDE DEF new
<1>3. n + 1 \in DOMAIN new /\ new[n + 1].offset = k
  BY <1>1, <1>2
<1>4. ASSUME NEW j \in 1 .. n PROVE new[j].offset >= k
  <2>1. CASE j = 1
    BY <1>1, <2>1
  <2>2. CASE j # 1
    <3>1. j \in DOMAIN new /\ j - 1 \in 1 .. n - 1
      BY <1>1, <2>2
    <3>2. new[j] = list[j - 1]
      BY <1>1, <2>2, <3>1
    <3>3. QED
      BY <1>2, <3>1, <3>2
  <2>3. QED
    BY <2>1, <2>2
<1>5. \A j \in 1 .. (n + 1) - 1 : new[j].offset >= k
  BY <1>4
<1>6. Leads(k, new)
  BY <1>3, <1>5 DEF Leads
<1>7. QED
  BY <1>6 DEF new

\* The entry at the head leads.
LEMMA HeadLeads ==
    ASSUME NEW list \in Seq(Entry), list # << >>
    PROVE  Leads(list[1].offset, list)
<1>1. 1 \in DOMAIN list /\ \A j \in 1 .. 1 - 1 : list[j].offset >= list[1].offset
  OBVIOUS
<1>2. QED
  BY <1>1 DEF Leads

-----------------------------------------------------------------------------
(* The log *)

\* The changes of an object are offsets of the log.
LEMMA ChangesAreOffsets ==
    ASSUME log \in Seq(Message), NEW x
    PROVE  /\ ChangesOf(x) \subseteq Offsets /\ Offsets \subseteq Nat
           /\ \A k \in ChangesOf(x) : MessageAt(k) \in Message /\ MessageAt(k).id = x
<1>1. ASSUME NEW k \in Offsets PROVE k \in Nat /\ MessageAt(k) \in Message
  BY <1>1 DEF Offsets, MessageAt
<1>2. QED
  BY <1>1 DEF ChangesOf

\* There is one last change up to an offset.
LEMMA LastUnique ==
    ASSUME NEW S \in SUBSET Nat, NEW o, NEW j, NEW k, IsLast(j, S, o), IsLast(k, S, o)
    PROVE  j = k
<1>1. j \in Nat /\ k \in Nat /\ j <= k /\ k <= j
  BY DEF IsLast
<1>2. QED
  BY <1>1

\* There is a last one if there is one.
LEMMA LastExists ==
    ASSUME NEW S \in SUBSET Nat, NEW o \in Nat, \E k \in S : k <= o
    PROVE  \E k \in S : IsLast(k, S, o)
<1> DEFINE I == {k \in S : k <= o}
<1>1. I \in SUBSET Nat /\ I # {} /\ \A k \in I : k <= o
  OBVIOUS
<1>2. PICK k \in I : \A j \in I : j <= k
  <2> HIDE DEF I
  <2> QED
    BY <1>1, GreatestExists
<1>3. QED
  BY <1>2 DEF IsLast

\* The references of an object are those of its last change.
LEMMA ListAtLast ==
    ASSUME log \in Seq(Message), NEW x, NEW o, NEW k, IsLast(k, ChangesOf(x), o)
    PROVE  ListAt(x, o) = MessageAt(k).refs
<1> DEFINE n == CHOOSE j \in ChangesOf(x) : IsLast(j, ChangesOf(x), o)
<1>1. ChangesOf(x) \in SUBSET Nat
  BY ChangesAreOffsets
<1>2. k \in ChangesOf(x) /\ k <= o
  BY DEF IsLast
<1>3. IsLast(n, ChangesOf(x), o)
  BY <1>2
<1>4. n = k
  <2> HIDE DEF n
  <2> QED
    BY <1>1, <1>3, LastUnique
<1>5. ListAt(x, o) = MessageAt(n).refs
  BY <1>2 DEF ListAt
<1>6. QED
  BY <1>4, <1>5

\* A reference an object has comes from its last change.
LEMMA AddedFromLast ==
    ASSUME log \in Seq(Message), NEW x, NEW o \in Nat, NEW ref \in Added(ListAt(x, o))
    PROVE  \E k \in ChangesOf(x) :
               /\ IsLast(k, ChangesOf(x), o)
               /\ ListAt(x, o) = MessageAt(k).refs
               /\ ref \in Added(MessageAt(k).refs)
<1>1. ChangesOf(x) \in SUBSET Nat
  BY ChangesAreOffsets
<1>2. CASE \E k \in ChangesOf(x) : k <= o
  <2>1. PICK k \in ChangesOf(x) : IsLast(k, ChangesOf(x), o)
    BY <1>1, <1>2, LastExists
  <2>2. ListAt(x, o) = MessageAt(k).refs
    BY <2>1, ListAtLast
  <2>3. QED
    BY <2>1, <2>2
<1>3. CASE ~ \E k \in ChangesOf(x) : k <= o
  <2>1. ListAt(x, o) = << >>
    BY <1>3 DEF ListAt
  <2>2. QED
    BY <2>1 DEF Added, Some
<1>4. QED
  BY <1>2, <1>3

\* A message's references belong to its object, and a Delete has none.
LEMMA MessageRefs ==
    ASSUME NEW m \in Message
    PROVE  /\ m.id \in Obj /\ m.refs \in Seq(Reference \cup {NoRef})
           /\ m.change \in Update \cup {"Delete", "Other"}
           /\ m.change \in Update => m.refs \in RefLists(m.id)
           /\ m.change \notin Update => m.refs = << >>
           /\ \A ref \in Added(m.refs) : ref \in Reference /\ ref.owner[1] = m.id
<1> DEFINE A == UNION {[id : {x}, change : Update, refs : RefLists(x)] : x \in Obj}
           B == [id : Obj, change : {"Delete", "Other"}, refs : {<< >>}]
<1>1. CASE m \in A
  <2>1. PICK x \in Obj : m \in [id : {x}, change : Update, refs : RefLists(x)]
    BY <1>1
  <2>2. m.id = x /\ m.change \in Update /\ m.refs \in RefLists(x)
    BY <2>1
  <2>3. /\ m.refs \in Seq(Reference \cup {NoRef})
        /\ \A i \in Some(m.refs) : m.refs[i].owner[1] = x
    BY <2>2, ReferenceAssumption
  <2>4. \A i \in Some(m.refs) : m.refs[i] \in Reference
    BY <2>3 DEF Some
  <2>5. QED
    BY <2>2, <2>3, <2>4 DEF Added, Update
<1>2. CASE m \in B
  <2>1. m.id \in Obj /\ m.change \in {"Delete", "Other"} /\ m.refs = << >>
    BY <1>2
  <2>2. QED
    BY <2>1 DEF Added, Some, Update
<1>3. Message = A \cup B
  BY Zenon DEF Message
<1> HIDE DEF A, B
<1>4. QED
  BY <1>1, <1>2, <1>3

-----------------------------------------------------------------------------
(* Type correctness of the sets *)

\* TypeOK but for the searches.
GraphTypes ==
    /\ ConsumerTypeOK
    /\ log \in Seq(Message)
    /\ DOMAIN objRefs \subseteq Obj
    /\ \A x \in DOMAIN objRefs : objRefs[x] \in Seq(Reference \cup {NoRef})
    /\ subs \in [RefID -> Seq(Entry)]
    /\ DOMAIN changed \subseteq RefID
    /\ \A r \in DOMAIN changed : changed[r] \subseteq RefID
    /\ changed # Nothing => phase = "handling" /\ Current.change # "Other"

graphVars == <<consumerVars, redisVars, changed>>

\* The steps of the consumer and the producers; the others leave the sets.
LEMMA GraphCases ==
    ASSUME [Next]_vars
    PROVE  \/ \E message \in Message : Submit(message)
           \/ JoinGroup \/ TakeMessage \/ PassOver \/ StoreObjRefs \/ PushSubs
           \/ DropMessage \/ AbandonMessage \/ CrashService \/ RestartRedis
           \/ UNCHANGED graphVars
<1>1. ASSUME NEW s \in Searcher, Search(s) PROVE UNCHANGED graphVars
  BY <1>1 DEF Search, PopRef, ReadIndex, FinishSearch, graphVars
<1>2. ASSUME NEW s \in Searcher, NEW r \in Searched, NEW o \in 0 .. MaxLog - 1,
             StartSearch(s, r, o)
      PROVE  UNCHANGED graphVars
  BY <1>2 DEF StartSearch, graphVars
<1>3. QED
  BY <1>1, <1>2 DEF Next, Consume, Disturb, vars, graphVars

\* A restart of Redis loses the messages below the position, all of the log.
LEMMA RestartEffect ==
    ASSUME ConsumerTypeOK, Len(log) \in Nat, RedisRestart
    PROVE  /\ ConsumerTypeOK' /\ log' = log /\ lost \subseteq lost'
           /\ \A k \in lost' : k \in Offsets
<1> USE ConsumerAssumption DEF ConsumerTypeOK, Phases, NoCommit, Offsets
<1>1. /\ log' = log /\ start' = start /\ committed' = committed
      /\ lost' = lost \cup 0 .. position' - 1
      /\ faults' \in 0 .. MaxFaults /\ phase' \in Phases
  BY DEF RedisRestart, Fault
<1>2. position' \in 0 .. Len(log) /\ position <= position'
  BY DEF RedisRestart
<1>3. phase' = "handling" => position' < Len(log)
  BY DEF RedisRestart
<1>4. start' \in 0 .. position'
  BY <1>1, <1>2
<1>5. committed' <= position' + 1
  <2>1. \A a, b, c \in Int : a <= b + 1 /\ b <= c => a <= c + 1
    OBVIOUS
  <2>2. committed \in Int /\ committed <= position + 1
    OBVIOUS
  <2>3. position \in Int /\ position' \in Int /\ position <= position'
    BY <1>2
  <2>4. committed <= position' + 1
    BY <2>1, <2>2, <2>3
  <2>5. QED
    BY <1>1, <2>4
<1>6. lost' \subseteq Offsets
  <2>1. \A a, b \in Int : a <= b => 0 .. a - 1 \subseteq 0 .. b - 1
    OBVIOUS
  <2>2. position' \in Int /\ Len(log) \in Int /\ position' <= Len(log)
    BY <1>2
  <2>3. 0 .. position' - 1 \subseteq 0 .. Len(log) - 1
    BY <2>1, <2>2
  <2>4. QED
    BY <1>1, <2>3
<1>7. QED
  BY <1>1, <1>2, <1>3, <1>4, <1>5, <1>6

\* What a step does to the log, to what is lost and to the position.
LEMMA HistoryStep ==
    ASSUME GraphTypes, [Next]_vars
    PROVE  /\ ConsumerTypeOK' /\ log' \in Seq(Message)
           /\ Offsets \subseteq Offsets' /\ Offsets' \cap 0 .. Len(log) - 1 = Offsets
           /\ \A k \in Offsets : MessageAt(k)' = MessageAt(k)
           /\ lost \subseteq lost'
           /\ \A k \in lost' : k \in Offsets
<1> USE ConsumerAssumption
    DEF GraphTypes, ConsumerTypeOK, Phases, NoCommit, Offsets, Fault, MessageAt,
        redisVars, consumerVars
<1>1. ASSUME NEW message \in Message, Submit(message)
      PROVE  /\ log' \in Seq(Message) /\ Len(log') = Len(log) + 1
             /\ \A i \in 1 .. Len(log) : log'[i] = log[i]
             /\ UNCHANGED <<position, start, committed, phase, lost, faults>>
  BY <1>1 DEF Submit, Produce
<1>2. CASE \E message \in Message : Submit(message)
  <2>1. /\ log' \in Seq(Message) /\ Len(log') = Len(log) + 1
        /\ \A i \in 1 .. Len(log) : log'[i] = log[i]
        /\ UNCHANGED <<position, start, committed, phase, lost, faults>>
    BY <1>1, <1>2
  <2>2. ConsumerTypeOK'
    BY <2>1
  <2>3. \A k \in Offsets : k + 1 \in 1 .. Len(log)
    OBVIOUS
  <2>4. QED
    BY <2>1, <2>2, <2>3
<1>3. CASE JoinGroup
  BY <1>3 DEF JoinGroup, Join
<1>4. CASE TakeMessage
  BY <1>4 DEF TakeMessage, Fetch
<1>5. CASE PassOver
  BY <1>5 DEF PassOver, Handled
<1>6. CASE StoreObjRefs
  <2>1. Handled \/ UNCHANGED consumerVars
    BY <1>6 DEF StoreObjRefs
  <2>2. CASE Handled
    BY <2>2 DEF Handled
  <2>3. CASE UNCHANGED consumerVars
    BY <2>3
  <2>4. QED
    BY <2>1, <2>2, <2>3
<1>7. CASE PushSubs
  <2>1. Handled \/ UNCHANGED consumerVars
    BY <1>7 DEF PushSubs
  <2>2. CASE Handled
    BY <2>2 DEF Handled
  <2>3. CASE UNCHANGED consumerVars
    BY <2>3
  <2>4. QED
    BY <2>1, <2>2, <2>3
<1>8. CASE DropMessage
  BY <1>8 DEF DropMessage, ConnectFailure
<1>9. CASE AbandonMessage
  BY <1>9 DEF AbandonMessage, HandlerFailure
<1>10. CASE CrashService
  BY <1>10 DEF CrashService, Crash, Delivered
<1>11. CASE RestartRedis
  <2>1. /\ ConsumerTypeOK' /\ log' = log /\ lost \subseteq lost'
        /\ \A k \in lost' : k \in Offsets
    BY <1>11, RestartEffect DEF RestartRedis
  <2>2. QED
    BY <2>1
<1>12. CASE UNCHANGED graphVars
  BY <1>12 DEF graphVars
<1>13. QED
  BY <1>2, <1>3, <1>4, <1>5, <1>6, <1>7, <1>8, <1>9, <1>10, <1>11, <1>12, GraphCases

\* The message that is handled stays in its place.
LEMMA CurrentKept ==
    ASSUME GraphTypes, [Next]_vars, phase = "handling", position' = position
    PROVE  Current' = Current
<1>1. position \in Offsets
  BY DEF GraphTypes, ConsumerTypeOK, Offsets
<1>2. MessageAt(position)' = log'[position + 1]
  BY DEF MessageAt
<1>3. QED
  BY <1>1, HistoryStep DEF Current, MessageAt

\* The message that is handled is one.
LEMMA CurrentMessage ==
    ASSUME GraphTypes, phase = "handling"
    PROVE  position \in Offsets /\ position \in Nat /\ Current \in Message
  BY DEF GraphTypes, ConsumerTypeOK, Offsets, Current, MessageAt

\* References that replace the last ones.
LEMMA NewRefsType ==
    ASSUME GraphTypes, phase = "handling", ~ Ignored(Current)
    PROVE  /\ NewRefs(Current) \in Seq(Reference \cup {NoRef})
           /\ OldRefs(Current) \in Seq(Reference \cup {NoRef})
<1>1. Current \in Message /\ Current.refs \in Seq(Reference \cup {NoRef})
  BY CurrentMessage, MessageRefs
<1>2. CASE Current.change = "Delete"
  <2>1. objRefs[Current.id] \in Seq(Reference \cup {NoRef})
    BY <1>2 DEF Ignored, GraphTypes
  <2>2. DOMAIN objRefs[Current.id] = 1 .. Len(objRefs[Current.id])
        /\ Len(objRefs[Current.id]) \in Nat
    BY <2>1
  <2>3. [i \in DOMAIN objRefs[Current.id] |-> NoRef] \in Seq(Reference \cup {NoRef})
    BY <2>2
  <2>4. QED
    BY <1>2, <2>1, <2>3 DEF NewRefs, OldRefs
<1>3. CASE Current.change # "Delete"
  BY <1>1, <1>3 DEF NewRefs, OldRefs, GraphTypes
<1>4. QED
  BY <1>2, <1>3

\* Every reference set or deleted is one.
LEMMA DiffTypes ==
    ASSUME NEW new \in Seq(Reference \cup {NoRef}), NEW old \in Seq(Reference \cup {NoRef})
    PROVE  Added(new) \subseteq Reference /\ Deleted(new, old) \subseteq Reference
  BY DEF Added, Deleted, Some

\* What is found at an offset is a set of RefIDs.
LEMMA SubsAtType ==
    ASSUME NEW r, subs[r] \in Seq(Entry), NEW o \in Int
    PROVE  SubsAt(r, o) \subseteq RefID
<1>1. CASE \E i \in DOMAIN subs[r] : subs[r][i].offset <= o
  <2>1. PICK i \in DOMAIN subs[r] : FirstHit(subs[r], o, i)
    BY <1>1, FirstHitExists
  <2>2. SubsAt(r, o) = subs[r][i].subs
    BY <2>1, SubsAtHit
  <2>3. subs[r][i] \in Entry
    BY <2>1
  <2>4. QED
    BY <2>2, <2>3 DEF Entry
<1>2. CASE ~ \E i \in DOMAIN subs[r] : subs[r][i].offset <= o
  BY <1>2 DEF SubsAt
<1>3. QED
  BY <1>1, <1>2

\* The new sets are sets of RefIDs.
LEMMA ChangedType ==
    ASSUME GraphTypes, NEW new \in Seq(Reference \cup {NoRef}),
           NEW old \in Seq(Reference \cup {NoRef}), NEW o \in Int,
           NEW sets, sets = ChangedSubs(new, old, o)
    PROVE  /\ DOMAIN sets = {ref.other : ref \in Added(new) \cup Deleted(new, old)}
           /\ DOMAIN sets \subseteq RefID
           /\ \A r \in DOMAIN sets : sets[r] \subseteq RefID
<1> DEFINE touched == {ref.other : ref \in Added(new) \cup Deleted(new, old)}
<1>1. sets = [r \in touched |-> (SubsAt(r, o) \cup OwnersOf(Added(new), r))
                                    \ OwnersOf(Deleted(new, old), r)]
  BY DEF ChangedSubs
<1>2. touched \subseteq RefID
  BY DiffTypes DEF Reference
<1>3. ASSUME NEW r \in touched
      PROVE  SubsAt(r, o) \subseteq RefID /\ OwnersOf(Added(new), r) \subseteq RefID
  <2>1. subs[r] \in Seq(Entry)
    BY <1>2 DEF GraphTypes
  <2>2. OwnersOf(Added(new), r) \subseteq RefID
    BY DiffTypes DEF OwnersOf, Reference
  <2>3. QED
    BY <2>1, <2>2, SubsAtType
<1> HIDE DEF touched
<1>4. DOMAIN sets = touched
  BY <1>1
<1>5. ASSUME NEW r \in DOMAIN sets PROVE sets[r] \subseteq RefID
  <2>1. sets[r] = (SubsAt(r, o) \cup OwnersOf(Added(new), r))
                      \ OwnersOf(Deleted(new, old), r)
    BY <1>1, <1>4
  <2>2. QED
    BY <2>1, <1>3, <1>4
<1>6. QED
  BY <1>2, <1>4, <1>5 DEF touched

\* The types hold initially.
LEMMA GraphTypesInit == Init => GraphTypes
  BY ConsumerAssumption
     DEF Init, ConsumerInit, GraphTypes, ConsumerTypeOK, Phases, NoCommit, Offsets, Nothing

\* Every step preserves them.
LEMMA GraphTypesStep == GraphTypes /\ [Next]_vars => GraphTypes'
<1> SUFFICES ASSUME GraphTypes, [Next]_vars PROVE GraphTypes'
  OBVIOUS
<1>1. ConsumerTypeOK' /\ log' \in Seq(Message)
  BY HistoryStep
<1>2. ASSUME objRefs' = objRefs, subs' = subs,
             \/ changed' = Nothing
             \/ changed' = changed /\ phase' = phase /\ position' = position
      PROVE  GraphTypes'
  <2>1. changed' = changed /\ changed # Nothing /\ position' = position =>
           Current' = Current
    BY CurrentKept DEF GraphTypes
  <2>2. DOMAIN changed' \subseteq RefID /\ \A r \in DOMAIN changed' : changed'[r] \subseteq RefID
    BY <1>2 DEF GraphTypes, Nothing
  <2>3. changed' # Nothing => phase' = "handling" /\ Current'.change # "Other"
    BY <1>2, <2>1 DEF GraphTypes
  <2>4. QED
    BY <1>1, <1>2, <2>2, <2>3 DEF GraphTypes
<1>3. CASE \E message \in Message : Submit(message)
  BY <1>2, <1>3 DEF Submit, Produce, redisVars
<1>4. CASE JoinGroup \/ TakeMessage \/ DropMessage
  <2>1. phase # "handling"
    BY <1>4 DEF JoinGroup, Join, TakeMessage, Fetch, DropMessage, ConnectFailure
  <2>2. changed = Nothing
    BY <2>1 DEF GraphTypes
  <2>3. QED
    BY <1>2, <1>4, <2>2 DEF JoinGroup, TakeMessage, DropMessage, redisVars
<1>5. CASE PassOver
  BY <1>2, <1>5 DEF PassOver, redisVars
<1>6. CASE AbandonMessage \/ CrashService
  BY <1>2, <1>6 DEF AbandonMessage, CrashService, redisVars
<1>7. CASE RestartRedis
  <2>1. objRefs' = Nothing /\ subs' = [r \in RefID |-> << >>] /\ changed' = Nothing
    BY <1>7 DEF RestartRedis
  <2>2. QED
    BY <1>1, <2>1 DEF GraphTypes, Nothing
<1>8. CASE StoreObjRefs
  <2> DEFINE new == NewRefs(Current)
             sets == ChangedSubs(new, OldRefs(Current), position)
  <2>1. phase = "handling" /\ ~ Ignored(Current)
    BY <1>8 DEF StoreObjRefs
  <2>2. new \in Seq(Reference \cup {NoRef}) /\ OldRefs(Current) \in Seq(Reference \cup {NoRef})
    BY <2>1, NewRefsType
  <2>3. position \in Nat /\ Current.id \in Obj
    BY <2>1, CurrentMessage, MessageRefs
  <2>4. /\ objRefs' = [x \in DOMAIN objRefs \cup {Current.id} |->
                          IF x = Current.id THEN new ELSE objRefs[x]]
        /\ changed' = sets /\ subs' = subs
    BY <1>8 DEF StoreObjRefs
  <2>5. DOMAIN sets \subseteq RefID /\ \A r \in DOMAIN sets : sets[r] \subseteq RefID
    <3>1. position \in Int
      BY <2>3
    <3> HIDE DEF new
    <3> QED
      BY <2>2, <3>1, ChangedType
  <2> HIDE DEF new, sets
  <2>6. /\ DOMAIN objRefs' \subseteq Obj
        /\ \A x \in DOMAIN objRefs' : objRefs'[x] \in Seq(Reference \cup {NoRef})
    BY <2>2, <2>3, <2>4 DEF GraphTypes
  <2>7. changed' # Nothing => phase' = "handling" /\ position' = position
    BY <1>8, <2>1 DEF StoreObjRefs, consumerVars
  <2>8. changed' # Nothing => phase' = "handling" /\ Current'.change # "Other"
    BY <2>1, <2>7, CurrentKept DEF Ignored
  <2>9. QED
    BY <1>1, <2>4, <2>5, <2>6, <2>8 DEF GraphTypes
<1>9. CASE PushSubs
  <2>1. PICK r \in DOMAIN changed :
            /\ phase = "handling"
            /\ subs' = [subs EXCEPT ![r] = <<[offset |-> position, subs |-> changed[r]]>> \o @]
            /\ changed' = [q \in DOMAIN changed \ {r} |-> changed[q]]
            /\ IF changed' = Nothing THEN Handled ELSE UNCHANGED consumerVars
            /\ UNCHANGED <<objRefs, search>>
    BY <1>9 DEF PushSubs
  <2>2. r \in RefID /\ subs[r] \in Seq(Entry)
    BY DEF GraphTypes
  <2>3. [offset |-> position, subs |-> changed[r]] \in Entry
    BY <2>1, CurrentMessage DEF GraphTypes, Entry
  <2>4. <<[offset |-> position, subs |-> changed[r]]>> \o subs[r] \in Seq(Entry)
    BY <2>2, <2>3, PushedAhead
  <2>5. subs' \in [RefID -> Seq(Entry)]
    BY <2>1, <2>4 DEF GraphTypes
  <2>6. DOMAIN changed' \subseteq RefID /\ \A q \in DOMAIN changed' : changed'[q] \subseteq RefID
    BY <2>1 DEF GraphTypes
  <2>7. changed # Nothing
    BY DEF Nothing
  <2>8. changed' # Nothing => phase' = "handling" /\ position' = position
    BY <2>1 DEF consumerVars
  <2>9. changed' # Nothing => phase' = "handling" /\ Current'.change # "Other"
    BY <2>1, <2>7, <2>8, CurrentKept DEF GraphTypes
  <2>10. QED
    BY <1>1, <2>1, <2>5, <2>6, <2>9 DEF GraphTypes
<1>10. CASE UNCHANGED graphVars
  BY <1>2, <1>10 DEF graphVars, redisVars, consumerVars
<1>11. QED
  BY <1>3, <1>4, <1>5, <1>6, <1>7, <1>8, <1>9, <1>10, GraphCases

-----------------------------------------------------------------------------
(* What the log says of an offset does not change *)

\* A change below the end of the log was there before the step.
LEMMA ChangesKept ==
    ASSUME GraphTypes, [Next]_vars, NEW x
    PROVE  /\ ChangesOf(x)' \in SUBSET Nat /\ ChangesOf(x) \in SUBSET Nat
           /\ \A k \in Offsets : k \in ChangesOf(x)' <=> k \in ChangesOf(x)
<1>1. /\ Offsets \subseteq Offsets' /\ Offsets' \subseteq Nat /\ Offsets \subseteq Nat
      /\ \A k \in Offsets : MessageAt(k)' = MessageAt(k)
  BY HistoryStep DEF Offsets
<1>2. /\ ChangesOf(x) = {k \in Offsets : MessageAt(k).id = x /\ MessageAt(k).change # "Other"}
      /\ ChangesOf(x)' = {k \in Offsets' : log'[k + 1].id = x /\ log'[k + 1].change # "Other"}
  BY DEF ChangesOf, MessageAt
<1>3. \A k \in Offsets : log'[k + 1] = MessageAt(k)
  BY <1>1 DEF MessageAt
<1>4. QED
  BY <1>1, <1>2, <1>3

\* An object that is intact after a step was so before.
LEMMA IntactKept ==
    ASSUME GraphTypes, [Next]_vars, NEW x, Intact(x)'
    PROVE  Intact(x)
<1>1. lost \subseteq lost' /\ lost \subseteq Offsets
  BY HistoryStep DEF GraphTypes, ConsumerTypeOK
<1>2. \A k \in Offsets : k \in ChangesOf(x)' <=> k \in ChangesOf(x)
  BY ChangesKept
<1>3. ChangesOf(x)' \cap lost' = {}
  BY DEF Intact
<1>4. QED
  BY <1>1, <1>2, <1>3 DEF Intact

\* The references at an offset of the log stay.
LEMMA ListAtKept ==
    ASSUME GraphTypes, [Next]_vars, NEW x, NEW o \in Offsets
    PROVE  ListAt(x, o)' = ListAt(x, o)
<1> DEFINE C == ChangesOf(x)
           D == ChangesOf(x)'
           n == CHOOSE k \in D : IsLast(k, D, o)
<1>1. /\ log \in Seq(Message) /\ o \in Nat
      /\ \A k \in Nat : k <= o => k \in Offsets
      /\ \A k \in Offsets : MessageAt(k) = log'[k + 1]
  BY HistoryStep DEF GraphTypes, Offsets, MessageAt
<1>2. C \in SUBSET Nat /\ D \in SUBSET Nat /\ \A k \in Offsets : k \in D <=> k \in C
  BY ChangesKept
<1>3. ListAt(x, o)' = IF \E k \in D : k <= o THEN log'[n + 1].refs ELSE << >>
  BY DEF ListAt, MessageAt
<1>4. \A k \in Nat : k <= o => (k \in D <=> k \in C)
  BY <1>1, <1>2
<1>5. CASE \E k \in C : k <= o
  <2>1. PICK k \in C : IsLast(k, C, o)
    BY <1>1, <1>2, <1>5, LastExists
  <2>2. k \in D /\ IsLast(k, D, o)
    BY <1>2, <1>4, <2>1 DEF IsLast
  <2>3. IsLast(n, D, o)
    BY <2>2
  <2>4. n = k
    <3> HIDE DEF n, D
    <3> QED
      BY <1>2, <2>2, <2>3, LastUnique
  <2>5. ListAt(x, o) = MessageAt(k).refs
    BY <1>1, <2>1, ListAtLast
  <2>6. k <= o /\ k \in Nat
    BY <1>2, <2>1 DEF IsLast
  <2>7. MessageAt(k) = log'[k + 1]
    BY <1>1, <2>6
  <2> HIDE DEF n, D
  <2>8. QED
    BY <1>3, <2>2, <2>4, <2>5, <2>6, <2>7
<1>6. CASE ~ \E k \in C : k <= o
  <2>1. ~ \E k \in D : k <= o
    BY <1>2, <1>4, <1>6
  <2>2. QED
    BY <1>3, <1>6, <2>1 DEF ListAt
<1>7. QED
  BY <1>5, <1>6

\* A set that is complete for an offset stays so.
LEMMA CoversKept ==
    ASSUME GraphTypes, [Next]_vars, NEW set, NEW r, NEW o \in Offsets, Covers(set, r, o)
    PROVE  Covers(set, r, o)'
<1> SUFFICES ASSUME NEW x \in Obj, NEW ref \in Added(ListAt(x, o)'), Intact(x)', ref.other = r
             PROVE  ref.owner \in set
  BY DEF Covers, Added, Some
<1>1. ref \in Added(ListAt(x, o)) /\ Intact(x)
  BY ListAtKept, IntactKept
<1>2. QED
  BY <1>1 DEF Covers

-----------------------------------------------------------------------------
(* The sets *)

\* Whoever refers to a RefID at an offset, with a change that was handled, is
\* found among its subscribers at the offset.
LEMMA SubscribersServed ==
    ASSUME GraphTypes, EntriesCover, ChangesLead,
           NEW x \in Obj, Intact(x), NEW o \in Nat,
           NEW k, IsLast(k, ChangesOf(x), o), k < position,
           NEW ref \in Added(MessageAt(k).refs)
    PROVE  ref.owner \in SubsAt(ref.other, o)
<1> DEFINE r == ref.other
           list == subs[r]
<1>1. k \in ChangesOf(x) /\ k \in Nat /\ k <= o /\ MessageAt(k) \in Message
  BY ChangesAreOffsets DEF IsLast, GraphTypes
<1>2. r \in RefID
  BY <1>1, MessageRefs DEF Reference
<1>3. list \in Seq(Entry)
  BY <1>2 DEF GraphTypes
<1>4. Leads(k, list)
  BY <1>1 DEF ChangesLead
<1>5. PICK i \in DOMAIN list : FirstHit(list, o, i) /\ list[i].offset >= k
  <2> HIDE DEF list
  <2>1. k \in Nat /\ o \in Int /\ k <= o
    BY <1>1
  <2>2. QED
    BY <1>3, <1>4, <2>1, LeadsHit
<1>6. SubsAt(r, o) = list[i].subs
  BY <1>3, <1>5, SubsAtHit
<1> DEFINE e == list[i].offset
<1>7. e \in Nat /\ k <= e /\ e <= o
  <2>1. list[i] \in Entry
    BY <1>3, <1>5
  <2>2. QED
    BY <1>1, <1>5, <2>1 DEF Entry, FirstHit
<1>8. IsLast(k, ChangesOf(x), e)
  <2>1. ChangesOf(x) \in SUBSET Nat
    BY ChangesAreOffsets DEF GraphTypes
  <2>2. \A j \in ChangesOf(x) : j <= e => j <= o
    BY <1>7, <2>1
  <2>3. QED
    BY <1>1, <1>7, <2>2 DEF IsLast
<1>9. ListAt(x, e) = MessageAt(k).refs
  BY <1>8, ListAtLast DEF GraphTypes
<1>10. Covers(list[i].subs, r, e)
  BY <1>2, <1>5 DEF EntriesCover
<1>11. QED
  BY <1>6, <1>9, <1>10 DEF Covers

\* So nothing is missing at an offset the consumer passed.
LEMMA ServedBelowPosition ==
    ASSUME GraphTypes, EntriesCover, ChangesLead
    PROVE  NoSubscriberMissing
<1> SUFFICES ASSUME NEW x \in Obj, NEW o \in 0 .. position - 1,
                    NEW ref \in Added(ListAt(x, o)), Intact(x)
             PROVE  ref.owner \in SubsAt(ref.other, o)
  BY DEF NoSubscriberMissing
<1>1. o \in Nat /\ position \in Nat /\ o < position
  BY DEF GraphTypes, ConsumerTypeOK
<1>2. PICK k \in ChangesOf(x) : IsLast(k, ChangesOf(x), o) /\ ref \in Added(MessageAt(k).refs)
  BY <1>1, AddedFromLast DEF GraphTypes
<1>3. k < position
  <2>1. k \in Nat /\ k <= o
    BY <1>2, ChangesAreOffsets DEF IsLast, GraphTypes
  <2>2. QED
    BY <1>1, <2>1
<1>4. QED
  BY <1>1, <1>2, <1>3, SubscribersServed

\* The last references of an object belong to it.
LEMMA LastRefsOwned ==
    ASSUME LastRefsKnown, NEW m \in Message
    PROVE  /\ Some(OldRefs(m)) = {} \/ OldRefs(m) \in RefLists(m.id)
           /\ \A i \in Some(OldRefs(m)) : OldRefs(m)[i].owner[1] = m.id
<1>1. m.id \in Obj
  BY MessageRefs
<1>2. Some(OldRefs(m)) = {} \/ OldRefs(m) \in RefLists(m.id)
  BY DEF OldRefs, LastRefsKnown, Some
<1>3. QED
  BY <1>1, <1>2, ReferenceAssumption

\* None of the references an object is given is among those taken out: it
\* would have moved to another slot.
LEMMA NothingOfNewDeleted ==
    ASSUME LastRefsKnown, NEW m \in Message, m.change \in Update,
           NEW ref \in Added(m.refs)
    PROVE  ref \notin Deleted(m.refs, OldRefs(m))
<1> DEFINE old == OldRefs(m)
<1>1. m.id \in Obj /\ m.refs \in RefLists(m.id)
  BY MessageRefs
<1>2. SUFFICES ASSUME NEW i \in Some(old), ~ IsSet(m.refs, i), ref = old[i]
               PROVE  FALSE
  BY DEF Deleted
<1>3. old \in RefLists(m.id)
  BY <1>2, LastRefsOwned
<1>4. PICK j \in Some(m.refs) : ref = m.refs[j]
  BY DEF Added
<1>5. \A a, b \in RefLists(m.id) : \A n \in Some(a), p \in Some(b) : a[n] = b[p] => n = p
  BY <1>1, ReferenceAssumption
<1>6. i = j
  BY <1>1, <1>2, <1>3, <1>4, <1>5
<1>7. QED
  BY <1>2, <1>4, <1>6 DEF Some, IsSet

\* The sets computed for a change are complete for its offset.
LEMMA ChangedCover ==
    ASSUME GraphTypes, GraphInv, phase = "handling", ~ Ignored(Current),
           NEW r \in DOMAIN ChangedSubs(NewRefs(Current), OldRefs(Current), position)
    PROVE  Covers(ChangedSubs(NewRefs(Current), OldRefs(Current), position)[r], r, position)
<1> DEFINE new == NewRefs(Current)
           old == OldRefs(Current)
           sets == ChangedSubs(new, old, position)
<1>1. position \in Offsets /\ position \in Nat /\ Current \in Message
  BY CurrentMessage
<1>2. new \in Seq(Reference \cup {NoRef}) /\ old \in Seq(Reference \cup {NoRef})
  BY NewRefsType
<1>3. sets[r] = (SubsAt(r, position) \cup OwnersOf(Added(new), r))
                    \ OwnersOf(Deleted(new, old), r)
  BY DEF ChangedSubs
<1>4. SUFFICES ASSUME NEW x \in Obj, NEW ref \in Added(ListAt(x, position)),
                      Intact(x), ref.other = r
               PROVE  ref.owner \in sets[r]
  BY DEF Covers
<1>5. PICK k \in ChangesOf(x) :
          IsLast(k, ChangesOf(x), position) /\ ref \in Added(MessageAt(k).refs)
  BY <1>1, AddedFromLast DEF GraphTypes
<1>6. /\ k \in Nat /\ k <= position /\ MessageAt(k) \in Message /\ MessageAt(k).id = x
      /\ ref \in Reference /\ ref.owner[1] = x
  BY <1>5, ChangesAreOffsets, MessageRefs DEF IsLast, GraphTypes
<1>7. LastRefsKnown /\ EntriesCover /\ ChangesLead
  BY DEF GraphInv
<1>8. CASE k < position
  <2>1. ref.owner \in SubsAt(r, position)
    BY <1>1, <1>4, <1>5, <1>7, <1>8, SubscribersServed
  <2>2. x # Current.id
    <3>1. ASSUME x = Current.id PROVE FALSE
      <4>1. position \in ChangesOf(x)
        BY <1>1, <3>1 DEF ChangesOf, Current, Ignored
      <4>2. position <= k
        BY <1>1, <1>5, <4>1 DEF IsLast
      <4>3. QED
        BY <1>1, <1>6, <1>8, <4>2
    <3>2. QED
      BY <3>1
  <2>3. \A i \in Some(old) : old[i].owner[1] = Current.id
    BY <1>1, <1>7, LastRefsOwned
  <2>4. ref.owner \notin OwnersOf(Deleted(new, old), r)
    BY <1>6, <2>2, <2>3 DEF OwnersOf, Deleted
  <2>5. QED
    BY <1>3, <2>1, <2>4
<1>9. CASE k = position
  <2>1. ref \in Added(Current.refs)
    BY <1>5, <1>9 DEF Current
  <2>2. Current.change \in Update
    <3>1. Current.refs # << >>
      BY <2>1 DEF Added, Some
    <3>2. QED
      BY <1>1, <3>1, MessageRefs
  <2>3. new = Current.refs
    BY <2>2 DEF NewRefs, Update
  <2>4. ref \notin Deleted(new, old)
    BY <1>1, <1>7, <2>1, <2>2, <2>3, NothingOfNewDeleted
  <2>5. ref.owner \notin OwnersOf(Deleted(new, old), r)
    <3>1. SUFFICES ASSUME NEW q \in Deleted(new, old), q.other = r, q.owner = ref.owner
                   PROVE  FALSE
      BY DEF OwnersOf
    <3>2. q \in Reference
      BY <1>2, DiffTypes
    <3>3. q = ref
      BY <1>4, <1>6, <3>1, <3>2 DEF Reference
    <3>4. QED
      BY <2>4, <3>1, <3>3
  <2>6. ref.owner \in OwnersOf(Added(new), r)
    BY <1>4, <2>1, <2>3 DEF OwnersOf
  <2>7. QED
    BY <1>3, <2>5, <2>6
<1>10. QED
  BY <1>1, <1>6, <1>8, <1>9

-----------------------------------------------------------------------------
(* Every step preserves the invariant *)

\* What PushSubs does, for the set it takes.
PushOf(r) ==
    /\ phase = "handling"
    /\ subs' = [subs EXCEPT ![r] = <<[offset |-> position, subs |-> changed[r]]>> \o @]
    /\ changed' = [q \in DOMAIN changed \ {r} |-> changed[q]]
    /\ IF changed' = Nothing THEN Handled ELSE UNCHANGED consumerVars
    /\ UNCHANGED <<objRefs, search>>

\* The lists after a push.
LEMMA PushEffect ==
    ASSUME GraphTypes, NEW r \in DOMAIN changed, PushOf(r)
    PROVE  LET entry == [offset |-> position, subs |-> changed[r]]
           IN  /\ r \in RefID /\ changed # Nothing /\ entry \in Entry
               /\ subs'[r] = <<entry>> \o subs[r]
               /\ subs'[r] # << >> /\ subs'[r][1] = entry
               /\ \A q \in RefID : q # r => subs'[q] = subs[q]
               /\ \A i \in DOMAIN subs'[r] :
                     \/ subs'[r][i] = entry
                     \/ i - 1 \in DOMAIN subs[r] /\ subs'[r][i] = subs[r][i - 1]
<1> DEFINE entry == [offset |-> position, subs |-> changed[r]]
<1>1. r \in RefID /\ subs[r] \in Seq(Entry) /\ changed # Nothing
  BY DEF GraphTypes, Nothing
<1>2. entry \in Entry
  BY CurrentMessage DEF GraphTypes, PushOf, Entry
<1>3. subs'[r] = <<entry>> \o subs[r] /\ \A q \in RefID : q # r => subs'[q] = subs[q]
  BY <1>1 DEF PushOf, GraphTypes
<1> HIDE DEF entry
<1>4. /\ Len(subs'[r]) = Len(subs[r]) + 1 /\ subs'[r][1] = entry /\ subs'[r] \in Seq(Entry)
      /\ \A i \in DOMAIN subs'[r] :
             i = 1 \/ (i - 1 \in DOMAIN subs[r] /\ subs'[r][i] = subs[r][i - 1])
  BY <1>1, <1>2, <1>3, PushedAhead
<1>5. subs'[r] # << >>
  BY <1>1, <1>4
<1>6. QED
  BY <1>1, <1>2, <1>3, <1>4, <1>5 DEF entry

\* A step other than these leaves the lists, and passes only what it loses.
LEMMA StepCases ==
    ASSUME GraphTypes, [Next]_vars
    PROVE  \/ PassOver \/ StoreObjRefs \/ RestartRedis
           \/ \E r \in DOMAIN changed : PushOf(r)
           \/ /\ UNCHANGED <<subs, objRefs>>
              /\ \A k \in position .. position' - 1 : k \in lost'
              /\ \/ changed' = Nothing
                 \/ changed' = changed /\ position' = position
<1> USE DEF redisVars
<1>1. CASE \E message \in Message : Submit(message)
  <2>1. UNCHANGED <<subs, objRefs, changed, position>>
    BY <1>1 DEF Submit, Produce
  <2>2. \A k \in position .. position' - 1 : k \in lost'
    BY <2>1 DEF GraphTypes, ConsumerTypeOK
  <2>3. QED
    BY <2>1, <2>2
<1>2. CASE JoinGroup
  <2>1. phase # "handling" /\ UNCHANGED <<subs, objRefs, changed>>
    BY <1>2 DEF JoinGroup, Join
  <2>2. changed' = Nothing
    BY <2>1 DEF GraphTypes
  <2>3. \A k \in position .. position' - 1 : k \in lost'
    BY <1>2 DEF JoinGroup, Join
  <2>4. QED
    BY <2>1, <2>2, <2>3
<1>3. CASE TakeMessage \/ CrashService
  <2>1. UNCHANGED <<subs, objRefs, position>> /\ (changed' = changed \/ changed' = Nothing)
    BY <1>3 DEF TakeMessage, Fetch, CrashService, Crash
  <2>2. \A k \in position .. position' - 1 : k \in lost'
    BY <2>1 DEF GraphTypes, ConsumerTypeOK
  <2>3. QED
    BY <2>1, <2>2
<1>4. CASE DropMessage
  <2>1. /\ phase # "handling" /\ UNCHANGED <<subs, objRefs, changed>>
        /\ position' = position + 1 /\ lost' = lost \cup {position}
    BY <1>4 DEF DropMessage, ConnectFailure
  <2>2. changed' = Nothing
    BY <2>1 DEF GraphTypes
  <2>3. \A k \in position .. position' - 1 : k \in lost'
    BY <2>1 DEF GraphTypes, ConsumerTypeOK
  <2>4. QED
    BY <2>1, <2>2, <2>3
<1>5. CASE AbandonMessage
  <2>1. /\ UNCHANGED <<subs, objRefs>> /\ changed' = Nothing
        /\ position' = position + 1 /\ lost' = lost \cup {position}
    BY <1>5 DEF AbandonMessage, HandlerFailure
  <2>2. \A k \in position .. position' - 1 : k \in lost'
    BY <2>1 DEF GraphTypes, ConsumerTypeOK
  <2>3. QED
    BY <2>1, <2>2
<1>6. CASE UNCHANGED graphVars
  <2>1. UNCHANGED <<subs, objRefs, changed, position>>
    BY <1>6 DEF graphVars, consumerVars
  <2>2. \A k \in position .. position' - 1 : k \in lost'
    BY <2>1 DEF GraphTypes, ConsumerTypeOK
  <2>3. QED
    BY <2>1, <2>2
<1>7. CASE PushSubs
  BY <1>7 DEF PushSubs, PushOf
<1>8. QED
  BY <1>1, <1>2, <1>3, <1>4, <1>5, <1>6, <1>7, GraphCases

\* What StoreObjRefs does: the consumer goes on only if no set changes.
LEMMA StoreEffect ==
    ASSUME GraphTypes, StoreObjRefs
    PROVE  /\ phase = "handling" /\ ~ Ignored(Current) /\ Current \in Message
           /\ changed' = ChangedSubs(NewRefs(Current), OldRefs(Current), position)
           /\ objRefs' = [x \in DOMAIN objRefs \cup {Current.id} |->
                  IF x = Current.id THEN NewRefs(Current) ELSE objRefs[x]]
           /\ subs' = subs /\ log' = log /\ lost' = lost
           /\ IF changed' = Nothing THEN position' = position + 1 ELSE position' = position
  BY CurrentMessage DEF StoreObjRefs, Handled, consumerVars

\* The references stored last.
LEMMA LastRefsStep ==
    ASSUME GraphTypes, LastRefsKnown, [Next]_vars
    PROVE  LastRefsKnown'
<1>1. CASE objRefs' = objRefs
  BY <1>1 DEF LastRefsKnown
<1>2. CASE RestartRedis
  BY <1>2 DEF RestartRedis, LastRefsKnown, Nothing
<1>3. CASE StoreObjRefs
  <2> DEFINE new == NewRefs(Current)
  <2>1. Some(new) = {} \/ new \in RefLists(Current.id)
    <3>1. CASE Current.change = "Delete"
      BY <3>1 DEF NewRefs, Some
    <3>2. CASE Current.change # "Delete"
      BY <1>3, <3>2, StoreEffect, MessageRefs DEF NewRefs, Ignored
    <3>3. QED
      BY <3>1, <3>2
  <2> HIDE DEF new
  <2>2. objRefs' = [x \in DOMAIN objRefs \cup {Current.id} |->
                       IF x = Current.id THEN new ELSE objRefs[x]]
    BY <1>3, StoreEffect DEF new
  <2>3. \A x \in DOMAIN objRefs' : Some(objRefs'[x]) = {} \/ objRefs'[x] \in RefLists(x)
    BY <2>1, <2>2 DEF LastRefsKnown
  <2>4. QED
    BY <2>3 DEF LastRefsKnown
<1>4. QED
  BY <1>1, <1>2, <1>3, StepCases DEF PassOver, PushOf, redisVars

\* The sets that are pushed.
LEMMA EntriesStep ==
    ASSUME GraphTypes, EntriesCover, PendingCover, [Next]_vars
    PROVE  EntriesCover'
<1>1. \A k \in Offsets : k \in Offsets'
  BY HistoryStep
<1>2. SUFFICES ASSUME NEW r \in RefID, NEW i \in DOMAIN subs'[r]
               PROVE  /\ subs'[r][i].offset \in Offsets
                      /\ Covers(subs[r][i].subs, r, subs[r][i].offset)'
  BY <1>1 DEF EntriesCover
<1>3. ASSUME NEW j \in DOMAIN subs[r], subs'[r][i] = subs[r][j]
      PROVE  /\ subs'[r][i].offset \in Offsets
             /\ Covers(subs[r][i].subs, r, subs[r][i].offset)'
  <2>1. PICK set, o : set = subs[r][j].subs /\ o = subs[r][j].offset
    OBVIOUS
  <2>2. o \in Offsets /\ Covers(set, r, o)
    BY <2>1 DEF EntriesCover
  <2>3. Covers(set, r, o)'
    BY <2>2, CoversKept
  <2>4. set = subs'[r][i].subs /\ o = subs'[r][i].offset
    BY <1>3, <2>1
  <2>5. QED
    BY <2>2, <2>3, <2>4 DEF Covers
<1>4. CASE subs' = subs
  BY <1>3, <1>4
<1>5. CASE RestartRedis
  BY <1>5 DEF RestartRedis
<1>6. ASSUME NEW q \in DOMAIN changed, PushOf(q)
      PROVE  /\ subs'[r][i].offset \in Offsets
             /\ Covers(subs[r][i].subs, r, subs[r][i].offset)'
  <2>1. CASE r # q
    <3>1. subs'[r] = subs[r]
      BY <1>6, <2>1, PushEffect
    <3>2. QED
      BY <1>3, <3>1
  <2>2. CASE r = q /\ subs'[r][i] = [offset |-> position, subs |-> changed[r]]
    <3>1. PICK set, o : set = changed[r] /\ o = position
      OBVIOUS
    <3>2. o \in Offsets /\ Covers(set, r, o)
      BY <1>6, <2>2, <3>1, CurrentMessage DEF PendingCover, PushOf
    <3>3. Covers(set, r, o)'
      BY <3>2, CoversKept
    <3>4. set = subs'[r][i].subs /\ o = subs'[r][i].offset
      BY <2>2, <3>1
    <3>5. QED
      BY <3>2, <3>3, <3>4 DEF Covers
  <2>3. CASE r = q /\ i - 1 \in DOMAIN subs[r] /\ subs'[r][i] = subs[r][i - 1]
    BY <1>3, <2>3
  <2>4. QED
    BY <1>6, <2>1, <2>2, <2>3, PushEffect
<1>7. QED
  BY <1>4, <1>5, <1>6, StepCases DEF PassOver, StoreObjRefs, redisVars

\* The sets still to push.
LEMMA PendingStep ==
    ASSUME GraphTypes, GraphInv, [Next]_vars
    PROVE  PendingCover' /\ PendingOrPushed'
<1>1. CASE changed' = Nothing
  BY <1>1 DEF PendingCover, PendingOrPushed, Nothing
<1>2. ASSUME changed' # Nothing, NEW r, NEW set, phase = "handling", position' = position,
             Covers(set, r, position)
      PROVE  Covers(set, r, position)'
  <2>1. PICK o : o = position
    OBVIOUS
  <2>2. o \in Offsets /\ Covers(set, r, o)
    BY <1>2, <2>1, CurrentMessage
  <2>3. Covers(set, r, o)'
    BY <2>2, CoversKept
  <2>4. QED
    BY <1>2, <2>1, <2>3 DEF Covers
<1>3. CASE /\ changed' # Nothing /\ changed' = changed /\ position' = position
           /\ UNCHANGED <<subs, objRefs>>
  <2>1. phase = "handling"
    BY <1>3 DEF GraphTypes
  <2>2. Current' = Current
    BY <1>3, <2>1, CurrentKept
  <2>3. ASSUME NEW r \in DOMAIN changed PROVE Covers(changed[r], r, position)'
    <3>1. PICK set : set = changed[r]
      OBVIOUS
    <3>2. Covers(set, r, position)'
      BY <1>2, <1>3, <2>1, <3>1 DEF GraphInv, PendingCover
    <3>3. QED
      BY <1>3, <3>1, <3>2 DEF Covers
  <2>4. PendingCover'
    BY <1>3, <2>3 DEF PendingCover
  <2>5. PendingOrPushed'
    BY <1>3, <2>2 DEF GraphInv, PendingOrPushed
  <2>6. QED
    BY <2>4, <2>5
<1>4. CASE changed' # Nothing /\ StoreObjRefs
  <2> DEFINE sets == ChangedSubs(NewRefs(Current), OldRefs(Current), position)
  <2>1. /\ phase = "handling" /\ ~ Ignored(Current) /\ Current \in Message
        /\ changed' = sets /\ position' = position /\ subs' = subs
    BY <1>4, StoreEffect
  <2>2. ASSUME NEW r \in DOMAIN sets PROVE Covers(changed[r], r, position)'
    <3>1. PICK set : set = sets[r]
      OBVIOUS
    <3>2. Covers(set, r, position)
      BY <1>4, <2>1, <3>1, ChangedCover
    <3>3. Covers(set, r, position)'
      BY <1>2, <1>4, <2>1, <3>2
    <3>4. set = changed'[r]
      BY <2>1, <3>1
    <3>5. QED
      BY <3>3, <3>4 DEF Covers
  <2>3. PendingCover'
    BY <2>1, <2>2 DEF PendingCover
  <2>4. ASSUME NEW ref \in Added(Current.refs) PROVE ref.other \in DOMAIN sets
    <3>1. Current.refs # << >>
      BY DEF Added, Some
    <3>2. Current.change \in Update
      BY <2>1, <3>1, MessageRefs
    <3>3. NewRefs(Current) = Current.refs
      BY <3>2 DEF NewRefs, Update
    <3>4. QED
      BY <3>3 DEF ChangedSubs
  <2>5. Current' = Current
    BY <2>1, CurrentKept
  <2>6. PendingOrPushed'
    BY <2>1, <2>4, <2>5 DEF PendingOrPushed
  <2>7. QED
    BY <2>3, <2>6
<1>5. ASSUME changed' # Nothing, NEW r \in DOMAIN changed, PushOf(r)
      PROVE  PendingCover' /\ PendingOrPushed'
  <2>1. /\ phase = "handling" /\ position' = position /\ Current \in Message
        /\ DOMAIN changed' = DOMAIN changed \ {r}
        /\ \A q \in DOMAIN changed' : changed'[q] = changed[q]
    BY <1>5, CurrentMessage DEF PushOf, consumerVars
  <2>2. ASSUME NEW q \in DOMAIN changed' PROVE Covers(changed[q], q, position)'
    <3>1. PICK set : set = changed[q]
      OBVIOUS
    <3>2. Covers(set, q, position)'
      BY <1>2, <1>5, <2>1, <3>1 DEF GraphInv, PendingCover
    <3>3. QED
      BY <2>1, <3>1, <3>2 DEF Covers
  <2>3. PendingCover'
    BY <2>2 DEF PendingCover
  <2>4. Current' = Current
    BY <2>1, CurrentKept
  <2>5. ASSUME NEW ref \in Added(Current.refs)
        PROVE  \/ ref.other \in DOMAIN changed'
               \/ subs'[ref.other] # << >> /\ subs'[ref.other][1].offset = position
    <3>1. ref.other \in RefID
      BY <2>1, MessageRefs DEF Reference
    <3>2. CASE ref.other = r
      <4>1. subs'[r] # << >> /\ subs'[r][1] = [offset |-> position, subs |-> changed[r]]
        BY <1>5, PushEffect
      <4>2. QED
        BY <3>2, <4>1
    <3>3. CASE ref.other # r
      <4>1. subs'[ref.other] = subs[ref.other]
        BY <1>5, <3>1, <3>3, PushEffect
      <4>2. \/ ref.other \in DOMAIN changed
            \/ subs[ref.other] # << >> /\ subs[ref.other][1].offset = position
        BY <1>5, PushEffect DEF GraphInv, PendingOrPushed
      <4>3. QED
        BY <2>1, <3>3, <4>1, <4>2
    <3>4. QED
      BY <3>2, <3>3
  <2>6. PendingOrPushed'
    BY <2>1, <2>4, <2>5 DEF PendingOrPushed
  <2>7. QED
    BY <2>3, <2>6
<1>6. CASE PassOver \/ RestartRedis
  BY <1>1, <1>6 DEF PassOver, RestartRedis
<1>7. QED
  BY <1>1, <1>3, <1>4, <1>5, <1>6, StepCases

\* The sets of a change that was handled stay ahead of older ones, whatever is
\* pushed while the consumer is at or past its offset.
LEMMA LeadKept ==
    ASSUME GraphTypes, ChangesLead, [Next]_vars, ~ RestartRedis,
           NEW x \in Obj, Intact(x)', NEW k \in ChangesOf(x)', k < position,
           NEW ref \in Added(MessageAt(k)'.refs)
    PROVE  Leads(k, subs'[ref.other])
<1> DEFINE r == ref.other
<1>1. k \in Offsets /\ k \in Nat
  <2>1. k \in Nat /\ position \in Nat /\ Len(log) \in Nat /\ position <= Len(log)
    BY ChangesKept DEF GraphTypes, ConsumerTypeOK
  <2>2. QED
    BY <2>1 DEF Offsets
<1>2. k \in ChangesOf(x) /\ Intact(x) /\ ref \in Added(MessageAt(k).refs)
  BY <1>1, ChangesKept, IntactKept, HistoryStep
<1>3. Leads(k, subs[r])
  BY <1>2 DEF ChangesLead
<1>4. r \in RefID /\ subs[r] \in Seq(Entry)
  BY <1>2, ChangesAreOffsets, MessageRefs DEF GraphTypes, Reference
<1>5. ASSUME NEW q \in DOMAIN changed, PushOf(q) PROVE Leads(k, subs'[r])
  <2>1. CASE r # q
    <3>1. subs'[r] = subs[r]
      BY <1>4, <1>5, <2>1, PushEffect
    <3>2. QED
      BY <1>3, <3>1
  <2>2. CASE r = q
    <3>1. PICK entry : entry = [offset |-> position, subs |-> changed[q]]
      OBVIOUS
    <3>2. entry \in Entry /\ subs'[r] = <<entry>> \o subs[r]
      BY <1>5, <2>2, <3>1, PushEffect
    <3>3. entry.offset >= k
      <4>1. position \in Nat
        BY DEF GraphTypes, ConsumerTypeOK
      <4>2. QED
        BY <1>1, <3>1, <4>1
    <3>4. QED
      BY <1>1, <1>3, <1>4, <3>2, <3>3, LeadsPush
  <2>3. QED
    BY <2>1, <2>2
<1>6. CASE subs' = subs
  BY <1>3, <1>6
<1>7. QED
  BY <1>5, <1>6, StepCases DEF PassOver, StoreObjRefs, redisVars

\* A step that passes the current message without losing it has pushed every
\* set the message touches.
LEMMA LeadAtPosition ==
    ASSUME GraphTypes, GraphInv, [Next]_vars, phase = "handling",
           \/ PassOver \/ StoreObjRefs \/ \E r \in DOMAIN changed : PushOf(r),
           position' = position + 1, Current.change # "Other",
           NEW ref \in Added(Current.refs)
    PROVE  Leads(position, subs'[ref.other])
<1>1. Current \in Message /\ Current.refs # << >>
  BY CurrentMessage DEF Added, Some
<1>2. Current.change \in Update
  BY <1>1, MessageRefs
<1>3. ~ PassOver
  BY <1>2 DEF PassOver, Ignored, Update
<1>4. ~ StoreObjRefs
  <2>1. SUFFICES ASSUME StoreObjRefs PROVE FALSE
    OBVIOUS
  <2>2. /\ changed' = ChangedSubs(NewRefs(Current), OldRefs(Current), position)
        /\ changed' # Nothing => position' = position
    BY <2>1, StoreEffect
  <2>3. NewRefs(Current) = Current.refs
    BY <1>2 DEF NewRefs, Update
  <2>4. ref.other \in DOMAIN changed'
    BY <2>2, <2>3 DEF ChangedSubs
  <2>5. changed' # Nothing
    BY <2>4 DEF Nothing
  <2>6. position \in Nat
    BY CurrentMessage
  <2>7. QED
    BY <2>2, <2>5, <2>6
<1>5. PICK r \in DOMAIN changed : PushOf(r)
  BY <1>3, <1>4
<1>6. changed' = Nothing
  <2>1. changed' # Nothing => position' = position
    BY <1>5 DEF PushOf, consumerVars
  <2>2. position \in Nat
    BY CurrentMessage
  <2>3. QED
    BY <2>1, <2>2
<1>7. DOMAIN changed = {r}
  <2>1. DOMAIN changed' = DOMAIN changed \ {r}
    BY <1>5 DEF PushOf
  <2>2. DOMAIN changed' = {}
    BY <1>6 DEF Nothing
  <2>3. QED
    BY <2>1, <2>2
<1>8. ref.other \in RefID /\ subs'[ref.other] \in Seq(Entry)
  <2>1. ref.other \in RefID
    BY <1>1, MessageRefs DEF Reference
  <2>2. QED
    BY <2>1, GraphTypesStep DEF GraphTypes
<1>9. subs'[ref.other] # << >> /\ subs'[ref.other][1].offset = position
  <2>1. CASE ref.other = r
    <3>1. subs'[r] # << >> /\ subs'[r][1] = [offset |-> position, subs |-> changed[r]]
      BY <1>5, PushEffect
    <3>2. QED
      BY <2>1, <3>1
  <2>2. CASE ref.other # r
    <3>1. subs'[ref.other] = subs[ref.other] /\ changed # Nothing
      BY <1>5, <1>8, <2>2, PushEffect
    <3>2. ref.other \notin DOMAIN changed
      BY <1>7, <2>2
    <3>3. QED
      BY <3>1, <3>2 DEF GraphInv, PendingOrPushed
  <2>3. QED
    BY <2>1, <2>2
<1>10. Leads(subs'[ref.other][1].offset, subs'[ref.other])
  BY <1>8, <1>9, HeadLeads
<1>11. QED
  BY <1>9, <1>10

\* The sets of every change that was handled.
LEMMA LeadStep ==
    ASSUME GraphTypes, GraphInv, [Next]_vars
    PROVE  ChangesLead'
<1> SUFFICES ASSUME NEW x \in Obj, Intact(x)', NEW k \in ChangesOf(x)', k < position',
                    NEW ref \in Added(MessageAt(k)'.refs)
             PROVE  Leads(k, subs'[ref.other])
  BY DEF ChangesLead
<1>1. k \in Nat /\ position \in Nat /\ position' \in Nat /\ k \notin lost'
  BY ChangesKept, HistoryStep DEF Intact, GraphTypes, ConsumerTypeOK
<1>2. CASE RestartRedis
  <2>1. 0 .. position' - 1 \subseteq lost'
    BY <1>2 DEF RestartRedis, RedisRestart
  <2>2. \A a, b \in Nat : a < b => a \in 0 .. b - 1
    OBVIOUS
  <2>3. QED
    BY <1>1, <2>1, <2>2
<1>3. CASE k < position /\ ~ RestartRedis
  BY <1>3, LeadKept DEF GraphInv
<1>4. CASE k >= position /\ ~ RestartRedis
  <2>1. k \in position .. position' - 1
    <3>1. \A a, b, c \in Nat : b <= a /\ a < c => a \in b .. c - 1
      OBVIOUS
    <3>2. QED
      BY <1>1, <1>4, <3>1
  <2>2. PassOver \/ StoreObjRefs \/ \E r \in DOMAIN changed : PushOf(r)
    BY <1>1, <1>4, <2>1, StepCases
  <2>3. phase = "handling" /\ (position' = position + 1 \/ position' = position)
    BY <2>2 DEF PassOver, StoreObjRefs, PushOf, Handled, consumerVars
  <2>4. k = position /\ position' = position + 1
    BY <1>1, <1>4, <2>1, <2>3
  <2>5. MessageAt(k)' = Current
    BY <2>3, <2>4, CurrentMessage, HistoryStep DEF Current
  <2>6. Current.change # "Other"
    BY <2>5 DEF ChangesOf
  <2>7. QED
    BY <2>2, <2>3, <2>4, <2>5, <2>6, LeadAtPosition
<1>5. QED
  BY <1>1, <1>2, <1>3, <1>4

-----------------------------------------------------------------------------
(* Theorems *)

\* No set holds anything initially.
LEMMA GraphInvInit == Init => GraphInv
<1> SUFFICES ASSUME Init PROVE GraphInv
  OBVIOUS
<1>1. /\ log = << >> /\ objRefs = Nothing /\ changed = Nothing
      /\ subs = [r \in RefID |-> << >>]
  BY DEF Init, ConsumerInit
<1>2. LastRefsKnown /\ PendingCover /\ PendingOrPushed
  BY <1>1 DEF LastRefsKnown, PendingCover, PendingOrPushed, Nothing
<1>3. EntriesCover
  BY <1>1 DEF EntriesCover
<1>4. ChangesLead
  BY <1>1 DEF ChangesLead, ChangesOf, Offsets
<1>5. QED
  BY <1>2, <1>3, <1>4 DEF GraphInv

\* Every step preserves the invariant.
LEMMA GraphInvStep == GraphTypes /\ GraphInv /\ [Next]_vars => GraphInv'
<1> SUFFICES ASSUME GraphTypes, GraphInv, [Next]_vars PROVE GraphInv'
  OBVIOUS
<1>1. LastRefsKnown'
  BY LastRefsStep DEF GraphInv
<1>2. EntriesCover'
  BY EntriesStep DEF GraphInv
<1>3. PendingCover' /\ PendingOrPushed' /\ ChangesLead'
  BY PendingStep, LeadStep
<1>4. QED
  BY <1>1, <1>2, <1>3 DEF GraphInv

\* The sets and what is known of them stay well typed.
THEOREM GraphTypeCorrect == Spec => []GraphTypes
<1>1. Init => GraphTypes
  BY GraphTypesInit
<1>2. GraphTypes /\ [Next]_vars => GraphTypes'
  BY GraphTypesStep
<1>3. QED
  BY <1>1, <1>2, PTL DEF Spec

\* Every set of subscribers in Redis, or still to push, is complete for its own
\* offset, and no older set hides it from the offsets it is for.
THEOREM GraphInductive == Spec => []GraphInv
<1>1. Init => GraphInv
  BY GraphInvInit
<1>2. GraphTypes /\ GraphInv /\ [Next]_vars => GraphInv'
  BY GraphInvStep
<1>3. QED
  BY <1>1, <1>2, GraphTypeCorrect, PTL DEF Spec

\* Whatever is crashed, replayed or lost, who refers to a RefID at an offset
\* the consumer has passed is among its subscribers at the offset: an update
\* notifies every object that depends on what it changes.
THEOREM NobodyIsMissed == Spec => []NoSubscriberMissing
<1>1. GraphTypes /\ GraphInv => NoSubscriberMissing
  BY ServedBelowPosition DEF GraphInv
<1>2. QED
  BY <1>1, GraphTypeCorrect, GraphInductive, PTL

-----------------------------------------------------------------------------
(* Why a subscriber is found *)

\* What is found in a list of sets at an offset.
FoundIn(list, o) ==
    IF \E i \in DOMAIN list : list[i].offset <= o
    THEN list[CHOOSE i \in DOMAIN list : FirstHit(list, o, i)].subs
    ELSE {}

\* It is what the first entry at or below the offset holds.
LEMMA FoundHit ==
    ASSUME NEW list \in Seq(Entry), NEW o \in Int, NEW i, FirstHit(list, o, i)
    PROVE  FoundIn(list, o) = list[i].subs
<1> DEFINE n == CHOOSE j \in DOMAIN list : FirstHit(list, o, j)
<1>1. i \in DOMAIN list /\ list[i].offset <= o
  BY DEF FirstHit
<1>2. FirstHit(list, o, n)
  BY <1>1
<1>3. n = i
  <2> HIDE DEF n
  <2> QED
    BY <1>2, FirstHitUnique
<1>4. FoundIn(list, o) = list[n].subs
  BY <1>1 DEF FoundIn
<1>5. QED
  BY <1>3, <1>4

\* Whoever is found is in the first entry at or below the offset.
LEMMA FoundFrom ==
    ASSUME NEW list \in Seq(Entry), NEW o \in Int, NEW p \in FoundIn(list, o)
    PROVE  \E i \in DOMAIN list : FirstHit(list, o, i) /\ p \in list[i].subs
<1>1. \E i \in DOMAIN list : list[i].offset <= o
  BY DEF FoundIn
<1>2. PICK i \in DOMAIN list : FirstHit(list, o, i)
  BY <1>1, FirstHitExists
<1>3. QED
  BY <1>2, FoundHit

\* A set that is pushed is found from its offset on, and the others below it.
LEMMA FoundPushed ==
    ASSUME NEW list \in Seq(Entry), NEW entry \in Entry, NEW o \in Int
    PROVE  /\ entry.offset <= o => FoundIn(<<entry>> \o list, o) = entry.subs
           /\ entry.offset > o => FoundIn(<<entry>> \o list, o) = FoundIn(list, o)
<1> DEFINE new == <<entry>> \o list
<1>1. /\ new \in Seq(Entry) /\ Len(new) = Len(list) + 1 /\ new[1] = entry
      /\ \A i \in DOMAIN list : new[i + 1] = list[i]
      /\ \A i \in DOMAIN new : i = 1 \/ (i - 1 \in DOMAIN list /\ new[i] = list[i - 1])
  BY PushedAhead
<1> HIDE DEF new
<1>2. DOMAIN new = 1 .. Len(list) + 1 /\ DOMAIN list = 1 .. Len(list) /\ Len(list) \in Nat
  BY <1>1
<1>3. ASSUME entry.offset <= o PROVE FoundIn(new, o) = entry.subs
  <2>1. FirstHit(new, o, 1)
    BY <1>1, <1>2, <1>3 DEF FirstHit
  <2>2. QED
    BY <1>1, <2>1, FoundHit
<1>4. ASSUME entry.offset > o PROVE FoundIn(new, o) = FoundIn(list, o)
  <2>1. CASE \E i \in DOMAIN list : list[i].offset <= o
    <3>1. PICK i \in DOMAIN list : FirstHit(list, o, i)
      BY <2>1, FirstHitExists
    <3>2. i + 1 \in DOMAIN new /\ new[i + 1] = list[i] /\ list[i].offset <= o
      BY <1>1, <1>2, <3>1 DEF FirstHit
    <3>3. ASSUME NEW j \in 1 .. (i + 1) - 1 PROVE new[j].offset > o
      <4>1. j \in DOMAIN new /\ i \in Nat
        BY <1>2, <3>1
      <4>2. CASE j = 1
        BY <1>1, <1>4, <4>2
      <4>3. CASE j # 1
        <5>1. j - 1 \in 1 .. i - 1 /\ new[j] = list[j - 1]
          BY <1>1, <4>1, <4>3
        <5>2. QED
          BY <3>1, <5>1 DEF FirstHit
      <4>4. QED
        BY <4>2, <4>3
    <3>4. FirstHit(new, o, i + 1)
      BY <3>2, <3>3 DEF FirstHit
    <3>5. QED
      BY <1>1, <3>1, <3>2, <3>4, FoundHit
  <2>2. CASE ~ \E i \in DOMAIN list : list[i].offset <= o
    <3>1. ASSUME NEW i \in DOMAIN new, new[i].offset <= o PROVE FALSE
      <4>1. CASE i = 1
        <5>1. entry.offset \in Nat
          BY DEF Entry
        <5>2. QED
          BY <1>1, <1>4, <3>1, <4>1, <5>1
      <4>2. CASE i # 1
        BY <1>1, <2>2, <3>1, <4>2
      <4>3. QED
        BY <4>1, <4>2
    <3>2. QED
      BY <2>2, <3>1 DEF FoundIn
  <2>3. QED
    BY <2>1, <2>2
<1>5. QED
  BY <1>3, <1>4 DEF new

\* Without a set of the offset, what is found is that of the offset before.
LEMMA FoundBefore ==
    ASSUME NEW list \in Seq(Entry), NEW o \in Int, \A i \in DOMAIN list : list[i].offset # o
    PROVE  FoundIn(list, o) = FoundIn(list, o - 1)
<1>1. \A i \in DOMAIN list : list[i].offset \in Int
  <2>1. \A i \in DOMAIN list : list[i] \in Entry
    OBVIOUS
  <2>2. QED
    BY <2>1 DEF Entry
<1>2. \A i \in DOMAIN list : list[i].offset <= o <=> list[i].offset <= o - 1
  BY <1>1
<1>3. CASE \E i \in DOMAIN list : list[i].offset <= o
  <2>1. PICK i \in DOMAIN list : FirstHit(list, o, i)
    BY <1>3, FirstHitExists
  <2>2. FirstHit(list, o - 1, i)
    BY <1>1, <1>2, <2>1 DEF FirstHit
  <2>3. o - 1 \in Int
    OBVIOUS
  <2>4. QED
    BY <2>1, <2>2, <2>3, FoundHit
<1>4. CASE ~ \E i \in DOMAIN list : list[i].offset <= o
  BY <1>2, <1>4 DEF FoundIn
<1>5. QED
  BY <1>3, <1>4

\* The references of an object stay what they are at an offset without a change.
LEMMA ListAtPassed ==
    ASSUME GraphTypes, NEW x, NEW o \in Nat, o \notin ChangesOf(x)
    PROVE  ListAt(x, o) = ListAt(x, o - 1)
<1>1. ChangesOf(x) \in SUBSET Nat /\ log \in Seq(Message)
  BY ChangesAreOffsets DEF GraphTypes
<1>2. \A k \in ChangesOf(x) : k <= o <=> k <= o - 1
  BY <1>1
<1>3. CASE \E k \in ChangesOf(x) : k <= o
  <2>1. PICK k \in ChangesOf(x) : IsLast(k, ChangesOf(x), o)
    BY <1>1, <1>3, LastExists
  <2>2. IsLast(k, ChangesOf(x), o - 1)
    BY <1>2, <2>1 DEF IsLast
  <2>3. QED
    BY <1>1, <2>1, <2>2, ListAtLast
<1>4. CASE ~ \E k \in ChangesOf(x) : k <= o
  BY <1>2, <1>4 DEF ListAt
<1>5. QED
  BY <1>3, <1>4

\* They are those of the message at an offset with a change.
LEMMA ListAtChange ==
    ASSUME GraphTypes, NEW x, NEW o \in ChangesOf(x)
    PROVE  ListAt(x, o) = MessageAt(o).refs
<1>1. ChangesOf(x) \in SUBSET Nat /\ log \in Seq(Message)
  BY ChangesAreOffsets DEF GraphTypes
<1>2. IsLast(o, ChangesOf(x), o)
  BY <1>1 DEF IsLast
<1>3. QED
  BY <1>1, <1>2, ListAtLast

\* Whose reference it is.
LEMMA OwnReference ==
    ASSUME GraphTypes, NEW o \in Nat, NEW ref \in ReferencesAt(o)
    PROVE  ref \in Reference /\ ref.owner[1] \in Obj /\ ref \in Added(ListAt(ref.owner[1], o))
<1>1. PICK x \in Obj : ref \in Added(ListAt(x, o))
  BY DEF ReferencesAt
<1>2. PICK k \in ChangesOf(x) : ref \in Added(MessageAt(k).refs)
  BY <1>1, AddedFromLast DEF GraphTypes
<1>3. MessageAt(k) \in Message /\ MessageAt(k).id = x
  BY <1>2, ChangesAreOffsets DEF GraphTypes
<1>4. QED
  BY <1>1, <1>2, <1>3, MessageRefs

\* The explanation of a subscriber stays one.
LEMMA ExplainedKept ==
    ASSUME GraphTypes, [Next]_vars, start' = start, NEW p, NEW r, NEW o \in Offsets,
           Explained(p, r, o)
    PROVE  Explained(p, r, o)'
<1> DEFINE ref == [owner |-> p, other |-> r]
<1>1. /\ start \in Nat /\ o \in Nat /\ Len(log) \in Nat
      /\ \A k \in Nat : k <= o => k \in Offsets
      /\ \A k : k \in Offsets <=> k \in Nat /\ k < Len(log)
  BY DEF GraphTypes, ConsumerTypeOK, Offsets
<1>2. CASE ref \in ReferencesAt(o)
  <2>1. \A x \in Obj : ListAt(x, o)' = ListAt(x, o)
    BY ListAtKept
  <2>2. ref \in ReferencesAt(o)'
    BY <1>2, <2>1 DEF ReferencesAt, Added
  <2>3. QED
    BY <2>2 DEF Explained
<1>3. ASSUME NEW k \in start .. o, NEW i \in Some(ListAt(p[1], k)),
             ListAt(p[1], k)[i] = ref, LeavesStale(p[1], i, k)
      PROVE  Explained(p, r, o)'
  <2>1. k \in Offsets /\ k \in Nat
    BY <1>1, <1>3
  <2>2. PICK x : x = p[1]
    OBVIOUS
  <2>3. ListAt(x, k)' = ListAt(x, k)
    BY <2>1, ListAtKept
  <2>4. PICK n \in ChangesOf(x) :
            /\ n > k /\ \A j \in ChangesOf(x) : j > k => n <= j
            /\ \/ MessageAt(n).change = "Add"
               \/ MessageAt(n).change = "Modify" /\ IsSet(MessageAt(n).refs, i)
    BY <1>3, <2>2 DEF LeavesStale
  <2>5. n \in Offsets /\ n \in Nat /\ ChangesOf(x)' \in SUBSET Nat
        /\ \A j \in Offsets : j \in ChangesOf(x)' <=> j \in ChangesOf(x)
    BY <1>1, ChangesKept, ChangesAreOffsets DEF GraphTypes
  <2>6. MessageAt(n)' = MessageAt(n) /\ n \in ChangesOf(x)'
    BY <2>4, <2>5, HistoryStep
  <2>7. ASSUME NEW j \in ChangesOf(x)', j > k PROVE n <= j
    <3>1. CASE j \in Offsets
      BY <2>4, <2>5, <2>7, <3>1
    <3>2. CASE j \notin Offsets
      BY <1>1, <2>5, <3>2
    <3>3. QED
      BY <3>1, <3>2
  <2>8. LeavesStale(x, i, k)'
    BY <2>4, <2>6, <2>7 DEF LeavesStale
  <2>9. i \in Some(ListAt(x, k))' /\ ListAt(x, k)'[i] = ref
    BY <1>3, <2>2, <2>3 DEF Some
  <2>10. QED
    BY <1>3, <2>2, <2>8, <2>9 DEF Explained
<1>4. QED
  BY <1>2, <1>3 DEF Explained

\* Who was found before a message is explained at its offset too, or the
\* message takes the reference out.
LEMMA GivenUp ==
    ASSUME GraphTypes, RefsCurrent, SetsBehind, StaleOnlyIfRepointed, faults = 0,
           phase = "handling", changed = Nothing,
           NEW r \in RefID, NEW p \in SubsAt(r, position)
    PROVE  \/ Explained(p, r, position)
           \/ /\ ~ Ignored(Current)
              /\ [owner |-> p, other |-> r] \in Deleted(NewRefs(Current), OldRefs(Current))
<1> DEFINE ref == [owner |-> p, other |-> r]
<1>1. /\ position \in Offsets /\ position \in Nat /\ Current \in Message
      /\ start \in Nat /\ subs[r] \in Seq(Entry) /\ StoredTo = position - 1
      /\ log \in Seq(Message)
  BY CurrentMessage DEF GraphTypes, ConsumerTypeOK, StoredTo
<1>2. PICK n \in DOMAIN subs[r] : FirstHit(subs[r], position, n) /\ p \in subs[r][n].subs
  <2>1. p \in FoundIn(subs[r], position)
    BY DEF SubsAt, FoundIn
  <2>2. QED
    BY <1>1, <2>1, FoundFrom
<1>3. subs[r][n].offset \in start .. position - 1 /\ p[1] \in DOMAIN objRefs
  BY <1>1, <1>2 DEF SetsBehind
<1>4. position - 1 \in Nat /\ start <= position - 1 /\ position - 1 \in 0 .. position - 1
  BY <1>1, <1>3
<1>5. p \in SubsAt(r, position - 1)
  <2>1. \A i \in DOMAIN subs[r] : subs[r][i].offset # position
    BY <1>1 DEF SetsBehind
  <2>2. FoundIn(subs[r], position) = FoundIn(subs[r], position - 1)
    BY <1>1, <2>1, FoundBefore
  <2>3. QED
    BY <2>2 DEF SubsAt, FoundIn
<1>6. PICK o \in Nat : o = position - 1
  BY <1>4
<1>7. Explained(p, r, o)
  BY <1>4, <1>5, <1>6 DEF StaleOnlyIfRepointed
<1>8. PICK x : x = p[1]
  OBVIOUS
<1>9. ASSUME NEW k \in start .. o, NEW i \in Some(ListAt(x, k)),
             ListAt(x, k)[i] = ref, LeavesStale(x, i, k)
      PROVE  Explained(p, r, position)
  <2>1. k \in start .. position
    BY <1>1, <1>6, <1>9
  <2>2. QED
    BY <1>8, <1>9, <2>1 DEF Explained
<1>10. CASE ref \in ReferencesAt(o) /\ ref \notin ReferencesAt(position)
  <2>1. x \in Obj /\ ref \in Added(ListAt(x, o))
    BY <1>8, <1>10, OwnReference
  <2>2. position \in ChangesOf(x)
    <3>1. ref \notin Added(ListAt(x, position))
      BY <1>10, <2>1 DEF ReferencesAt
    <3>2. QED
      BY <1>1, <1>6, <2>1, <3>1, ListAtPassed
  <2>3. Current.id = x /\ Current.change # "Other" /\ Current = MessageAt(position)
    BY <2>2 DEF ChangesOf, Current
  <2>4. PICK i \in Some(ListAt(x, o)) : ListAt(x, o)[i] = ref
    BY <2>1 DEF Added
  <2>5. i \in Some(objRefs[x]) /\ objRefs[x][i] = ref /\ x \in DOMAIN objRefs
    BY <1>1, <1>3, <1>6, <1>8, <2>4 DEF RefsCurrent
  <2>6. ~ Ignored(Current)
    BY <2>3, <2>5 DEF Ignored
  <2>7. CASE Current.change = "Add" \/ (Current.change = "Modify" /\ IsSet(Current.refs, i))
    <3>1. \A j \in ChangesOf(x) : j > o => position <= j
      <4>1. \A j \in ChangesOf(x) : j \in Nat
        BY <1>1, ChangesAreOffsets
      <4>2. \A j \in Nat : j > o => position <= j
        BY <1>1, <1>6
      <4>3. QED
        BY <4>1, <4>2
    <3>2. position > o
      BY <1>1, <1>6
    <3>3. LeavesStale(x, i, o)
      BY <2>2, <2>3, <2>7, <3>1, <3>2 DEF LeavesStale
    <3>4. o \in start .. o
      BY <1>1, <1>4, <1>6
    <3>5. QED
      BY <1>9, <2>4, <3>3, <3>4
  <2>8. CASE Current.change = "Modify" /\ ~ IsSet(Current.refs, i)
    <3>1. NewRefs(Current) = Current.refs /\ OldRefs(Current) = objRefs[x]
      BY <2>3, <2>5, <2>8 DEF NewRefs, OldRefs
    <3>2. QED
      BY <2>5, <2>6, <2>8, <3>1 DEF Deleted
  <2>9. CASE Current.change = "Delete"
    <3>1. /\ NewRefs(Current) = [j \in DOMAIN objRefs[x] |-> NoRef]
          /\ OldRefs(Current) = objRefs[x]
      BY <2>3, <2>5, <2>9 DEF NewRefs, OldRefs
    <3>2. ~ IsSet(NewRefs(Current), i)
      BY <3>1 DEF IsSet
    <3>3. QED
      BY <2>5, <2>6, <3>1, <3>2 DEF Deleted
  <2>10. QED
    BY <1>1, <2>3, <2>7, <2>8, <2>9, MessageRefs DEF Update
<1>11. CASE ref \in ReferencesAt(position)
  BY <1>11 DEF Explained
<1>12. QED
  BY <1>7, <1>8, <1>9, <1>10, <1>11 DEF Explained

\* So is everyone the new sets name, or who is found in a set without a new one.
LEMMA StoredExplained ==
    ASSUME GraphTypes, RefsCurrent, SetsBehind, StaleOnlyIfRepointed, faults = 0,
           phase = "handling", changed = Nothing, ~ Ignored(Current),
           NEW sets, sets = ChangedSubs(NewRefs(Current), OldRefs(Current), position),
           NEW r \in RefID,
           NEW p \in IF r \in DOMAIN sets THEN sets[r] ELSE SubsAt(r, position)
    PROVE  Explained(p, r, position)
<1> DEFINE new == NewRefs(Current)
           old == OldRefs(Current)
           ref == [owner |-> p, other |-> r]
           touched == {q.other : q \in Added(new) \cup Deleted(new, old)}
<1>1. /\ position \in Offsets /\ Current \in Message /\ Current = MessageAt(position)
      /\ new \in Seq(Reference \cup {NoRef}) /\ old \in Seq(Reference \cup {NoRef})
  BY CurrentMessage, NewRefsType DEF Current
<1>2. sets = [q \in touched |-> (SubsAt(q, position) \cup OwnersOf(Added(new), q))
                                    \ OwnersOf(Deleted(new, old), q)]
  BY DEF ChangedSubs
<1>3. ref \in Deleted(new, old) => r \in touched /\ p \in OwnersOf(Deleted(new, old), r)
  BY DEF OwnersOf
<1>4. Added(new) \subseteq Reference
  BY <1>1, DiffTypes
<1> HIDE DEF touched
<1>5. DOMAIN sets = touched
  BY <1>2
<1>6. ref \notin Deleted(new, old)
  <2>1. SUFFICES ASSUME ref \in Deleted(new, old) PROVE FALSE
    OBVIOUS
  <2>2. p \in sets[r]
    BY <1>3, <1>5, <2>1
  <2>3. sets[r] = (SubsAt(r, position) \cup OwnersOf(Added(new), r))
                      \ OwnersOf(Deleted(new, old), r)
    BY <1>2, <1>3, <2>1
  <2>4. QED
    BY <1>3, <2>1, <2>2, <2>3
<1>7. CASE p \in SubsAt(r, position)
  BY <1>6, <1>7, GivenUp
<1>8. CASE p \notin SubsAt(r, position)
  <2>1. p \in OwnersOf(Added(new), r)
    <3>1. r \in DOMAIN sets /\ p \in sets[r]
      BY <1>8
    <3>2. sets[r] = (SubsAt(r, position) \cup OwnersOf(Added(new), r))
                        \ OwnersOf(Deleted(new, old), r)
      BY <1>2, <1>5, <3>1
    <3>3. QED
      BY <1>8, <3>1, <3>2
  <2>2. ref \in Added(new)
    <3>1. PICK q \in Added(new) : q.other = r /\ q.owner = p
      BY <2>1 DEF OwnersOf
    <3>2. q = ref
      BY <1>4, <3>1 DEF Reference
    <3>3. QED
      BY <3>1, <3>2
  <2>3. new = Current.refs /\ Current.change # "Other"
    <3>1. Current.change # "Delete"
      BY <2>2 DEF NewRefs, Added, Some
    <3>2. QED
      BY <3>1 DEF NewRefs, Ignored
  <2>4. position \in ChangesOf(Current.id) /\ Current.id \in Obj
    BY <1>1, <2>3, MessageRefs DEF ChangesOf
  <2>5. ListAt(Current.id, position) = Current.refs
    BY <1>1, <2>4, ListAtChange
  <2>6. QED
    BY <2>2, <2>3, <2>4, <2>5 DEF Explained, ReferencesAt
<1>9. QED
  BY <1>7, <1>8

\* What a step is that is no fault.
LEMMA NoFaultCases ==
    ASSUME GraphTypes, [Next]_vars, faults' = 0
    PROVE  /\ faults = 0
           /\ \/ JoinGroup \/ PassOver \/ StoreObjRefs \/ \E r \in DOMAIN changed : PushOf(r)
              \/ /\ UNCHANGED <<subs, objRefs, changed, position, start>>
                 /\ phase' = "joining" => phase = "joining"
<1>1. faults \in Nat
  BY ConsumerAssumption DEF GraphTypes, ConsumerTypeOK
<1>2. CASE \E message \in Message : Submit(message)
  BY <1>2 DEF Submit, Produce, redisVars
<1>3. CASE TakeMessage
  BY <1>3 DEF TakeMessage, Fetch, redisVars
<1>4. CASE UNCHANGED graphVars
  BY <1>4 DEF graphVars, redisVars, consumerVars
<1>5. CASE JoinGroup \/ PassOver \/ StoreObjRefs
  BY <1>5 DEF JoinGroup, Join, PassOver, StoreObjRefs, Handled, consumerVars
<1>6. CASE PushSubs
  BY <1>6 DEF PushSubs, PushOf, Handled, consumerVars
<1>7. CASE DropMessage \/ AbandonMessage \/ CrashService \/ RestartRedis
  <2>1. faults' = faults + 1
    BY <1>7 DEF DropMessage, ConnectFailure, AbandonMessage, HandlerFailure, CrashService,
       Crash, RestartRedis, RedisRestart, Fault
  <2>2. QED
    BY <1>1, <2>1
<1>8. QED
  BY <1>2, <1>3, <1>4, <1>5, <1>6, <1>7, GraphCases

\* What is found at the offsets the consumer passed is explained.
ExplainedBelow ==
    \A r \in RefID : \A o \in 0 .. position - 1 : \A p \in SubsAt(r, o) : Explained(p, r, o)

\* Nothing is stored before the consumer joins for the first time.
EmptyBeforeJoin ==
    phase = "joining" => DOMAIN objRefs = {} /\ \A r \in RefID : subs[r] = << >>

NoFaultInv ==
    EmptyBeforeJoin /\ RefsCurrent /\ SetsBehind /\ PendingExplained /\ ExplainedBelow

\* The references stored last are at an offset of the log, or before it.
LEMMA StoredList ==
    ASSUME GraphTypes, [Next]_vars, NEW x
    PROVE  /\ StoredTo \in Offsets \cup {-1}
           /\ \A o \in Offsets \cup {-1} : ListAt(x, o)' = ListAt(x, o)
<1>1. StoredTo \in Offsets \cup {-1}
  <2>1. position \in Nat /\ position <= Len(log) /\ Len(log) \in Nat
        /\ (changed # Nothing => position < Len(log))
    BY DEF GraphTypes, ConsumerTypeOK
  <2>2. QED
    BY <2>1 DEF StoredTo, Offsets
<1>2. ListAt(x, -1)' = ListAt(x, -1)
  <2>1. \A k \in Nat : ~ (k <= -1)
    OBVIOUS
  <2>2. ChangesOf(x) \in SUBSET Nat /\ ChangesOf(x)' \in SUBSET Nat
    BY ChangesKept
  <2>3. QED
    BY <2>1, <2>2 DEF ListAt
<1>3. QED
  BY <1>1, <1>2, ListAtKept

\* The explanations that there are stay.
LEMMA ExplanationsStay ==
    ASSUME GraphTypes, [Next]_vars, start' = start,
           NEW r, NEW o \in Offsets, NEW S, \A p \in S : Explained(p, r, o)
    PROVE  \A p \in S : Explained(p, r, o)'
  BY ExplainedKept

\* A step that leaves the sets leaves what is true of them.
LEMMA QuietStep ==
    ASSUME GraphTypes, NoFaultInv, [Next]_vars,
           UNCHANGED <<subs, objRefs, changed, position, start>>,
           phase' = "joining" => phase = "joining"
    PROVE  NoFaultInv'
<1>1. StoredTo' = StoredTo /\ position \in Nat /\ Len(log) \in Nat /\ position <= Len(log)
  BY DEF StoredTo, GraphTypes, ConsumerTypeOK
<1>2. EmptyBeforeJoin'
  BY DEF NoFaultInv, EmptyBeforeJoin
<1>3. RefsCurrent'
  <2>1. PICK o \in Offsets \cup {-1} : o = StoredTo
    BY StoredList
  <2>2. \A x \in DOMAIN objRefs : ListAt(x, o)' = ListAt(x, o)
    BY StoredList
  <2>3. \A x \in DOMAIN objRefs :
            /\ Some(objRefs[x]) = Some(ListAt(x, o))
            /\ \A i \in Some(ListAt(x, o)) : objRefs[x][i] = ListAt(x, o)[i]
    BY <2>1 DEF NoFaultInv, RefsCurrent
  <2>4. o = StoredTo'
    BY <1>1, <2>1
  <2>5. QED
    BY <2>2, <2>3, <2>4 DEF RefsCurrent
<1>4. SetsBehind'
  BY <1>1 DEF NoFaultInv, SetsBehind
<1>5. ASSUME changed # Nothing, NEW r \in RefID, NEW p \in PendingSubs(r)
      PROVE  Explained(p, r, position)'
  <2>1. position \in Offsets
    BY <1>5, CurrentMessage DEF GraphTypes
  <2>2. PICK o \in Offsets : o = position
    BY <2>1
  <2>3. Explained(p, r, o)'
    BY <1>5, <2>2, ExplainedKept DEF NoFaultInv, PendingExplained
  <2>4. QED
    BY <2>2, <2>3 DEF Explained
<1>6. PendingExplained'
  BY <1>5 DEF PendingExplained, PendingSubs, SubsAt
<1>7. ExplainedBelow'
  <2>1. ASSUME NEW r \in RefID, NEW o \in 0 .. position - 1, NEW p \in SubsAt(r, o)
        PROVE  Explained(p, r, o)'
    <3>1. o \in Offsets
      BY <1>1 DEF Offsets
    <3>2. QED
      BY <2>1, <3>1, ExplainedKept DEF NoFaultInv, ExplainedBelow
  <2>2. QED
    BY <2>1 DEF ExplainedBelow, SubsAt
<1>8. QED
  BY <1>2, <1>3, <1>4, <1>6, <1>7 DEF NoFaultInv

\* The consumer joins with nothing stored.
LEMMA JoinStep ==
    ASSUME GraphTypes, NoFaultInv, JoinGroup
    PROVE  NoFaultInv'
<1>1. /\ phase = "joining" /\ phase' = "polling" /\ changed = Nothing /\ changed' = Nothing
      /\ subs' = subs /\ objRefs' = objRefs
  BY DEF JoinGroup, Join, GraphTypes, redisVars
<1>2. DOMAIN objRefs = {} /\ \A r \in RefID : subs[r] = << >>
  BY <1>1 DEF NoFaultInv, EmptyBeforeJoin
<1>3. DOMAIN changed' = {}
  BY <1>1 DEF Nothing
<1>4. EmptyBeforeJoin' /\ RefsCurrent' /\ SetsBehind' /\ PendingExplained'
  BY <1>1, <1>2, <1>3 DEF EmptyBeforeJoin, RefsCurrent, SetsBehind, PendingExplained
<1>5. ExplainedBelow'
  BY <1>1, <1>2 DEF ExplainedBelow, SubsAt
<1>6. QED
  BY <1>4, <1>5 DEF NoFaultInv

\* When a message is done, one more offset has to be explained.
LEMMA PassedStep ==
    ASSUME GraphTypes, NoFaultInv, [Next]_vars, start' = start, position' = position + 1,
           NEW n \in Offsets, n = position,
           \A r \in RefID : \A o \in 0 .. position - 1 : SubsAt(r, o)' = SubsAt(r, o),
           \A r \in RefID : \A p \in SubsAt(r, n)' : Explained(p, r, n)
    PROVE  ExplainedBelow'
<1>1. position \in Nat /\ \A o \in 0 .. position - 1 : o \in Offsets
  BY DEF Offsets, GraphTypes, ConsumerTypeOK
<1>2. ASSUME NEW r \in RefID, NEW o \in 0 .. position' - 1, NEW p \in SubsAt(r, o)'
      PROVE  Explained(p, r, o)'
  <2>1. o \in 0 .. position - 1 \/ o = n
    BY <1>1
  <2>2. CASE o \in 0 .. position - 1
    <3>1. Explained(p, r, o) /\ o \in Offsets
      BY <1>1, <1>2, <2>2 DEF NoFaultInv, ExplainedBelow
    <3>2. QED
      BY <3>1, ExplainedKept
  <2>3. CASE o = n
    <3>1. p \in SubsAt(r, n)'
      BY <1>2, <2>3
    <3>2. Explained(p, r, n)
      BY <3>1
    <3>3. Explained(p, r, n)'
      BY <3>2, ExplainedKept
    <3>4. QED
      BY <2>3, <3>3
  <2>4. QED
    BY <2>1, <2>2, <2>3
<1>3. QED
  BY <1>2 DEF ExplainedBelow

\* A message that changes nothing.
LEMMA PassOverStep ==
    ASSUME GraphTypes, NoFaultInv, faults = 0, [Next]_vars, PassOver
    PROVE  NoFaultInv'
<1>1. /\ phase = "handling" /\ phase' = "polling" /\ position' = position + 1 /\ start' = start
      /\ changed = Nothing /\ changed' = Nothing /\ Ignored(Current)
      /\ UNCHANGED <<subs, objRefs, log>>
  BY DEF PassOver, Handled, redisVars
<1>2. PICK n \in Offsets : n = position /\ n \in Nat
  BY <1>1, CurrentMessage
<1>3. StoredTo = n - 1 /\ StoredTo' = n
  BY <1>1, <1>2 DEF StoredTo
<1>4. ASSUME NEW x \in DOMAIN objRefs PROVE ListAt(x, n)' = ListAt(x, n - 1)
  <2>1. n \notin ChangesOf(x)
    BY <1>1, <1>2 DEF ChangesOf, Ignored, Current
  <2>2. QED
    BY <1>2, <2>1, ListAtPassed, ListAtKept
<1>5. RefsCurrent'
  <2>1. \A x \in DOMAIN objRefs :
            /\ Some(objRefs[x]) = Some(ListAt(x, n - 1))
            /\ \A i \in Some(ListAt(x, n - 1)) : objRefs[x][i] = ListAt(x, n - 1)[i]
    BY <1>3 DEF NoFaultInv, RefsCurrent
  <2>2. QED
    BY <1>1, <1>3, <1>4, <2>1 DEF RefsCurrent
<1>6. SetsBehind'
  <2>1. DOMAIN changed' = {}
    BY <1>1 DEF Nothing
  <2>2. start \in Nat
    BY DEF GraphTypes, ConsumerTypeOK
  <2>3. \A k \in start .. n - 1 : k \in start .. n
    BY <1>2, <2>2
  <2>4. QED
    BY <1>1, <1>3, <2>1, <2>3 DEF NoFaultInv, SetsBehind
<1>7. PendingExplained' /\ EmptyBeforeJoin'
  BY <1>1 DEF PendingExplained, EmptyBeforeJoin
<1>8. ASSUME NEW r \in RefID, NEW p \in SubsAt(r, n)' PROVE Explained(p, r, n)
  <2>1. p \in SubsAt(r, position)
    BY <1>1, <1>2, <1>8 DEF SubsAt
  <2>2. StaleOnlyIfRepointed
    BY DEF NoFaultInv, ExplainedBelow, StaleOnlyIfRepointed
  <2>3. QED
    BY <1>1, <1>2, <2>1, <2>2, GivenUp DEF NoFaultInv
<1>9. ExplainedBelow'
  <2>1. \A r \in RefID : \A o \in 0 .. position - 1 : SubsAt(r, o)' = SubsAt(r, o)
    BY <1>1 DEF SubsAt
  <2>2. QED
    BY <1>1, <1>2, <1>8, <2>1, PassedStep
<1>10. QED
  BY <1>5, <1>6, <1>7, <1>9 DEF NoFaultInv

\* The references of a message are stored, and the new sets are pending.
LEMMA StoreStep ==
    ASSUME GraphTypes, NoFaultInv, faults = 0, [Next]_vars, StoreObjRefs
    PROVE  NoFaultInv'
<1> DEFINE new == NewRefs(Current)
           old == OldRefs(Current)
<1>1. PICK sets : sets = ChangedSubs(new, old, position)
  OBVIOUS
<1>2. /\ phase = "handling" /\ ~ Ignored(Current) /\ Current \in Message /\ start' = start
      /\ changed = Nothing /\ changed' = sets /\ subs' = subs /\ phase' # "joining"
      /\ IF sets = Nothing THEN position' = position + 1 ELSE position' = position
      /\ objRefs' = [x \in DOMAIN objRefs \cup {Current.id} |->
             IF x = Current.id THEN new ELSE objRefs[x]]
  BY <1>1, StoreEffect DEF StoreObjRefs, Handled, consumerVars
<1>3. PICK n \in Offsets : n = position /\ n \in Nat
  BY <1>2, CurrentMessage
<1>4. StoredTo = n - 1 /\ StoredTo' = n
  BY <1>2, <1>3 DEF StoredTo
<1>5. n \in ChangesOf(Current.id) /\ ListAt(Current.id, n) = Current.refs
  <2>1. n \in ChangesOf(Current.id)
    BY <1>2, <1>3 DEF ChangesOf, Current, Ignored
  <2>2. QED
    BY <1>3, <2>1, ListAtChange DEF Current
<1>6. \/ new = Current.refs
      \/ Some(new) = {} /\ Some(Current.refs) = {}
  <2>1. CASE Current.change = "Delete"
    <3>1. Current.refs = << >>
      BY <1>2, <2>1, MessageRefs DEF Update
    <3>2. QED
      BY <2>1, <3>1 DEF NewRefs, Some
  <2>2. CASE Current.change # "Delete"
    BY <2>2 DEF NewRefs
  <2>3. QED
    BY <2>1, <2>2
<1> HIDE DEF new, old
<1>7. RefsCurrent'
  <2>1. ASSUME NEW x \in DOMAIN objRefs'
        PROVE  /\ Some(objRefs'[x]) = Some(ListAt(x, n)')
               /\ \A i \in Some(ListAt(x, n)') : objRefs'[x][i] = ListAt(x, n)'[i]
    <3>1. ListAt(x, n)' = ListAt(x, n)
      BY <1>3, ListAtKept
    <3>2. CASE x = Current.id
      BY <1>2, <1>5, <1>6, <3>1, <3>2
    <3>3. CASE x # Current.id
      <4>1. x \in DOMAIN objRefs /\ objRefs'[x] = objRefs[x]
        BY <1>2, <3>3
      <4>2. n \notin ChangesOf(x)
        BY <1>3, <3>3 DEF ChangesOf, Current
      <4>3. ListAt(x, n) = ListAt(x, n - 1)
        BY <1>3, <4>2, ListAtPassed
      <4>4. /\ Some(objRefs[x]) = Some(ListAt(x, n - 1))
            /\ \A i \in Some(ListAt(x, n - 1)) : objRefs[x][i] = ListAt(x, n - 1)[i]
        BY <1>4, <4>1 DEF NoFaultInv, RefsCurrent
      <4>5. QED
        BY <3>1, <4>1, <4>3, <4>4
    <3>4. QED
      BY <3>2, <3>3
  <2>2. QED
    BY <1>4, <2>1 DEF RefsCurrent
<1>8. StaleOnlyIfRepointed
  BY DEF NoFaultInv, ExplainedBelow, StaleOnlyIfRepointed
<1>9. ASSUME NEW r \in RefID, NEW p \in IF r \in DOMAIN sets THEN sets[r] ELSE SubsAt(r, n)
      PROVE  Explained(p, r, n)
  BY <1>1, <1>2, <1>3, <1>8, <1>9, StoredExplained DEF NoFaultInv, new, old
<1>10. SetsBehind'
  <2>1. ASSUME NEW r \in RefID, NEW i \in DOMAIN subs[r]
        PROVE  /\ subs[r][i].offset \in start .. n /\ subs[r][i].offset < n
               /\ \A p \in subs[r][i].subs : p[1] \in DOMAIN objRefs
    <3>1. subs[r][i].offset \in start .. n - 1 /\ start \in Nat
          /\ \A p \in subs[r][i].subs : p[1] \in DOMAIN objRefs
      BY <1>4, <2>1 DEF NoFaultInv, SetsBehind, GraphTypes, ConsumerTypeOK
    <3>2. QED
      BY <1>3, <3>1
  <2>2. ASSUME NEW r \in DOMAIN sets, NEW p \in sets[r] PROVE p[1] \in DOMAIN objRefs'
    <3>1. r \in RefID /\ subs[r] \in Seq(Entry) /\ new \in Seq(Reference \cup {NoRef})
          /\ old \in Seq(Reference \cup {NoRef})
      <4>1. new \in Seq(Reference \cup {NoRef}) /\ old \in Seq(Reference \cup {NoRef})
        BY <1>2, NewRefsType DEF new, old
      <4>2. r \in RefID
        <5>1. sets = ChangedSubs(new, old, n) /\ n \in Int
          BY <1>1, <1>3
        <5>2. DOMAIN sets \subseteq RefID
          BY <4>1, <5>1, ChangedType
        <5>3. QED
          BY <5>2
      <4>3. QED
        BY <4>1, <4>2 DEF GraphTypes
    <3>2. p \in SubsAt(r, n) \/ p \in OwnersOf(Added(new), r)
      BY <1>1, <1>3, <2>2 DEF ChangedSubs
    <3>3. CASE p \in SubsAt(r, n)
      <4>1. p \in FoundIn(subs[r], n)
        BY <3>3 DEF SubsAt, FoundIn
      <4>2. PICK i \in DOMAIN subs[r] : p \in subs[r][i].subs
        BY <1>3, <3>1, <4>1, FoundFrom
      <4>3. QED
        BY <1>2, <2>1, <3>1, <4>2
    <3>4. CASE p \in OwnersOf(Added(new), r)
      <4>1. Added(new) \subseteq Added(Current.refs)
        BY <1>6 DEF Added
      <4>2. p[1] = Current.id
        BY <1>2, <3>4, <4>1, MessageRefs DEF OwnersOf
      <4>3. QED
        BY <1>2, <4>2
    <3>5. QED
      BY <3>2, <3>3, <3>4
  <2>3. DOMAIN changed' # {} => position' = n
    BY <1>2, <1>3 DEF Nothing
  <2>4. QED
    BY <1>2, <1>4, <2>1, <2>2, <2>3 DEF SetsBehind
<1>11. EmptyBeforeJoin'
  BY <1>2 DEF EmptyBeforeJoin
<1>12. CASE sets = Nothing
  <2>1. PendingExplained' /\ DOMAIN sets = {} /\ position' = position + 1
    BY <1>2, <1>12 DEF PendingExplained, Nothing
  <2>2. \A r \in RefID : \A p \in SubsAt(r, n)' : Explained(p, r, n)
    BY <1>2, <1>9, <2>1 DEF SubsAt
  <2>3. \A r \in RefID : \A o \in 0 .. position - 1 : SubsAt(r, o)' = SubsAt(r, o)
    BY <1>2 DEF SubsAt
  <2>4. ExplainedBelow'
    BY <1>2, <1>3, <2>1, <2>2, <2>3, PassedStep
  <2>5. QED
    BY <1>7, <1>10, <1>11, <2>1, <2>4 DEF NoFaultInv
<1>13. CASE sets # Nothing
  <2>1. position' = n
    BY <1>2, <1>3, <1>13
  <2>2. PendingExplained'
    <3>1. ASSUME NEW r \in RefID, NEW p \in PendingSubs(r)' PROVE Explained(p, r, n)'
      <4>1. p \in IF r \in DOMAIN sets THEN sets[r] ELSE SubsAt(r, n)
        BY <1>2, <2>1, <3>1 DEF PendingSubs, SubsAt
      <4>2. Explained(p, r, n)
        BY <1>9, <4>1
      <4>3. QED
        BY <1>2, <4>2, ExplainedKept
    <3>2. QED
      BY <2>1, <3>1 DEF PendingExplained
  <2>3. ExplainedBelow'
    <3>1. ASSUME NEW r \in RefID, NEW o \in 0 .. n - 1, NEW p \in SubsAt(r, o)
          PROVE  Explained(p, r, o)'
      <4>1. o \in Offsets
        BY <1>3 DEF Offsets
      <4>2. Explained(p, r, o)
        BY <1>3, <3>1 DEF NoFaultInv, ExplainedBelow
      <4>3. QED
        BY <1>2, <4>1, <4>2, ExplainedKept
    <3>2. QED
      BY <1>2, <2>1, <3>1 DEF ExplainedBelow, SubsAt
  <2>4. QED
    BY <1>7, <1>10, <1>11, <2>2, <2>3 DEF NoFaultInv
<1>14. QED
  BY <1>12, <1>13

\* One of the pending sets is pushed; with the last one the message is done.
LEMMA PushStep ==
    ASSUME GraphTypes, NoFaultInv, [Next]_vars, NEW s \in DOMAIN changed, PushOf(s)
    PROVE  NoFaultInv'
<1>1. /\ phase = "handling" /\ changed # Nothing /\ objRefs' = objRefs /\ start' = start
      /\ changed' = [q \in DOMAIN changed \ {s} |-> changed[q]] /\ phase' # "joining"
      /\ IF changed' = Nothing THEN position' = position + 1 ELSE position' = position
  BY PushEffect DEF PushOf, Handled, consumerVars
<1>2. PICK n \in Offsets : n = position /\ n \in Nat
  BY <1>1, CurrentMessage
<1>3. StoredTo = n /\ StoredTo' = n
  BY <1>1, <1>2 DEF StoredTo
<1>4. PICK entry : entry = [offset |-> n, subs |-> changed[s]]
  OBVIOUS
<1>5. /\ s \in RefID /\ entry \in Entry /\ entry.offset = n /\ entry.subs = changed[s]
      /\ subs[s] \in Seq(Entry) /\ subs'[s] = <<entry>> \o subs[s]
      /\ \A q \in RefID : q # s => subs'[q] = subs[q]
      /\ \A i \in DOMAIN subs'[s] :
            subs'[s][i] = entry \/ (i - 1 \in DOMAIN subs[s] /\ subs'[s][i] = subs[s][i - 1])
  BY <1>2, <1>4, PushEffect DEF GraphTypes
<1>6. start \in Nat /\ start <= n
  BY <1>2 DEF GraphTypes, ConsumerTypeOK
<1>7. EmptyBeforeJoin'
  BY <1>1 DEF EmptyBeforeJoin
<1>8. RefsCurrent'
  <2>1. \A x \in DOMAIN objRefs : ListAt(x, n)' = ListAt(x, n)
    BY <1>2, ListAtKept
  <2>2. \A x \in DOMAIN objRefs :
            /\ Some(objRefs[x]) = Some(ListAt(x, n))
            /\ \A i \in Some(ListAt(x, n)) : objRefs[x][i] = ListAt(x, n)[i]
    BY <1>3 DEF NoFaultInv, RefsCurrent
  <2>3. QED
    BY <1>1, <1>3, <2>1, <2>2 DEF RefsCurrent
<1>9. SetsBehind'
  <2>1. /\ \A r \in RefID : \A i \in DOMAIN subs[r] :
              /\ subs[r][i].offset \in start .. n
              /\ r \in DOMAIN changed => subs[r][i].offset < n
              /\ \A p \in subs[r][i].subs : p[1] \in DOMAIN objRefs
        /\ \A r \in DOMAIN changed : \A p \in changed[r] : p[1] \in DOMAIN objRefs
    BY <1>2, <1>3 DEF NoFaultInv, SetsBehind
  <2>2. \A r \in DOMAIN changed' : r \in DOMAIN changed /\ r # s /\ changed'[r] = changed[r]
    BY <1>1
  <2>3. DOMAIN changed' # {} => position' = n
    BY <1>1, <1>2 DEF Nothing
  <2>4. ASSUME NEW r \in RefID, NEW i \in DOMAIN subs'[r]
        PROVE  /\ subs'[r][i].offset \in start .. n
               /\ r \in DOMAIN changed' => subs'[r][i].offset < position'
               /\ \A p \in subs'[r][i].subs : p[1] \in DOMAIN objRefs
    <3>1. CASE r = s
      <4>1. r \notin DOMAIN changed'
        BY <2>2, <3>1
      <4>2. CASE subs'[r][i] = entry
        BY <1>2, <1>5, <1>6, <2>1, <4>1, <4>2
      <4>3. CASE i - 1 \in DOMAIN subs[s] /\ subs'[r][i] = subs[s][i - 1]
        BY <1>5, <2>1, <4>1, <4>3
      <4>4. QED
        BY <1>5, <2>4, <3>1, <4>2, <4>3
    <3>2. CASE r # s
      <4>1. subs'[r] = subs[r]
        BY <1>5, <3>2
      <4>2. QED
        BY <2>1, <2>2, <2>3, <2>4, <4>1
    <3>3. QED
      BY <3>1, <3>2
  <2>5. QED
    BY <1>1, <1>3, <2>1, <2>2, <2>4 DEF SetsBehind
<1>10. ASSUME NEW r \in RefID
       PROVE  /\ \A o \in 0 .. n - 1 : SubsAt(r, o)' = SubsAt(r, o)
              /\ r = s => SubsAt(r, n)' = changed[s]
              /\ r # s => SubsAt(r, n)' = SubsAt(r, n)
  <2>1. \A o \in Nat : SubsAt(r, o)' = FoundIn(subs'[r], o) /\ SubsAt(r, o) = FoundIn(subs[r], o)
    BY DEF SubsAt, FoundIn
  <2>2. CASE r = s
    <3>1. \A o \in 0 .. n - 1 : FoundIn(subs'[s], o) = FoundIn(subs[s], o)
      <4>1. \A o \in 0 .. n - 1 : o \in Int /\ entry.offset > o
        BY <1>2, <1>5
      <4>2. QED
        BY <1>5, <4>1, FoundPushed
    <3>2. FoundIn(subs'[s], n) = changed[s]
      BY <1>2, <1>5, FoundPushed
    <3>3. \A o \in 0 .. n - 1 : o \in Nat
      OBVIOUS
    <3>4. QED
      BY <1>2, <2>1, <2>2, <3>1, <3>2, <3>3
  <2>3. CASE r # s
    <3>1. subs'[r] = subs[r]
      BY <1>5, <2>3
    <3>2. QED
      BY <2>3, <3>1 DEF SubsAt
  <2>4. QED
    BY <2>2, <2>3
<1>11. ASSUME NEW r \in RefID,
              NEW p \in IF r \in DOMAIN changed' THEN changed'[r] ELSE SubsAt(r, n)'
       PROVE  Explained(p, r, n)
  <2>1. p \in IF r \in DOMAIN changed THEN changed[r] ELSE SubsAt(r, n)
    <3>1. CASE r = s
      BY <1>1, <1>10, <1>11, <3>1
    <3>2. CASE r # s
      BY <1>1, <1>10, <1>11, <3>2
    <3>3. QED
      BY <3>1, <3>2
  <2>2. p \in PendingSubs(r)
    BY <1>2, <2>1 DEF PendingSubs
  <2>3. QED
    BY <1>1, <1>2, <2>2 DEF NoFaultInv, PendingExplained
<1>12. CASE changed' = Nothing
  <2>1. PendingExplained' /\ DOMAIN changed' = {} /\ position' = position + 1
    BY <1>1, <1>12 DEF PendingExplained, Nothing
  <2>2. \A r \in RefID : \A p \in SubsAt(r, n)' : Explained(p, r, n)
    BY <1>11, <2>1
  <2>3. \A r \in RefID : \A o \in 0 .. position - 1 : SubsAt(r, o)' = SubsAt(r, o)
    BY <1>2, <1>10
  <2>4. ExplainedBelow'
    BY <1>1, <1>2, <2>1, <2>2, <2>3, PassedStep
  <2>5. QED
    BY <1>7, <1>8, <1>9, <2>1, <2>4 DEF NoFaultInv
<1>13. CASE changed' # Nothing
  <2>1. position' = n
    BY <1>1, <1>2, <1>13
  <2>2. PendingExplained'
    <3>1. ASSUME NEW r \in RefID, NEW p \in PendingSubs(r)' PROVE Explained(p, r, n)'
      <4>1. p \in IF r \in DOMAIN changed' THEN changed'[r] ELSE SubsAt(r, n)'
        BY <2>1, <3>1 DEF PendingSubs, SubsAt
      <4>2. Explained(p, r, n)
        BY <1>11, <4>1
      <4>3. QED
        BY <1>1, <4>2, ExplainedKept
    <3>2. QED
      BY <2>1, <3>1 DEF PendingExplained
  <2>3. ExplainedBelow'
    <3>1. ASSUME NEW r \in RefID, NEW o \in 0 .. n - 1, NEW p \in SubsAt(r, o)'
          PROVE  Explained(p, r, o)'
      <4>1. o \in Offsets /\ p \in SubsAt(r, o)
        BY <1>2, <1>10, <3>1 DEF Offsets
      <4>2. Explained(p, r, o)
        BY <1>2, <3>1, <4>1 DEF NoFaultInv, ExplainedBelow
      <4>3. QED
        BY <1>1, <4>1, <4>2, ExplainedKept
    <3>2. QED
      BY <2>1, <3>1 DEF ExplainedBelow
  <2>4. QED
    BY <1>7, <1>8, <1>9, <2>2, <2>3 DEF NoFaultInv
<1>14. QED
  BY <1>12, <1>13

\* The invariant is that of the states without a fault.
LEMMA StaleInvParts == StaleInv /\ StaleOnlyIfRepointed <=> (faults = 0 => NoFaultInv)
  BY DEF StaleInv, StaleOnlyIfRepointed, NoFaultInv, EmptyBeforeJoin, ExplainedBelow

\* Without a fault, each stored list is the one of the log, no set is newer than
\* what was stored, and the pending sets name no one without a reason.
THEOREM StaleInductive == Spec => [](StaleInv /\ StaleOnlyIfRepointed)
<1>1. Init => (faults = 0 => NoFaultInv)
  <2> SUFFICES ASSUME Init PROVE NoFaultInv
    OBVIOUS
  <2>1. /\ objRefs = Nothing /\ changed = Nothing /\ position = 0
        /\ subs = [r \in RefID |-> << >>]
    BY DEF Init, ConsumerInit
  <2>2. DOMAIN objRefs = {} /\ DOMAIN changed = {} /\ \A r \in RefID : subs[r] = << >>
    BY <2>1 DEF Nothing
  <2>3. EmptyBeforeJoin /\ RefsCurrent /\ SetsBehind /\ PendingExplained
    BY <2>1, <2>2 DEF EmptyBeforeJoin, RefsCurrent, SetsBehind, PendingExplained
  <2>4. ExplainedBelow
    BY <2>2 DEF ExplainedBelow, SubsAt
  <2>5. QED
    BY <2>3, <2>4 DEF NoFaultInv
<1>2. GraphTypes /\ (faults = 0 => NoFaultInv) /\ [Next]_vars => (faults = 0 => NoFaultInv)'
  <2> SUFFICES ASSUME GraphTypes, faults = 0 => NoFaultInv, [Next]_vars, faults' = 0
               PROVE  NoFaultInv'
    OBVIOUS
  <2>1. faults = 0 /\ NoFaultInv
    BY NoFaultCases
  <2>2. CASE JoinGroup
    BY <2>1, <2>2, JoinStep
  <2>3. CASE PassOver
    BY <2>1, <2>3, PassOverStep
  <2>4. CASE StoreObjRefs
    BY <2>1, <2>4, StoreStep
  <2>5. CASE \E r \in DOMAIN changed : PushOf(r)
    BY <2>1, <2>5, PushStep
  <2>6. CASE /\ UNCHANGED <<subs, objRefs, changed, position, start>>
             /\ phase' = "joining" => phase = "joining"
    BY <2>1, <2>6, QuietStep
  <2>7. QED
    BY <2>2, <2>3, <2>4, <2>5, <2>6, NoFaultCases
<1>3. QED
  BY <1>1, <1>2, GraphTypeCorrect, StaleInvParts, PTL DEF Spec

\* Without a fault, whoever is found without referring to the RefID did refer
\* to it once, and its object was added again or the slot pointed elsewhere.
THEOREM StaleAreRepointed == Spec => []StaleOnlyIfRepointed
<1>1. StaleInv /\ StaleOnlyIfRepointed => StaleOnlyIfRepointed
  OBVIOUS
<1>2. QED
  BY <1>1, StaleInductive, PTL

-----------------------------------------------------------------------------
(***************************************************************************)
(* Theorems about get_all_dependencies, for any number of concurrent       *)
(* searches, over the sets that DependencyCacheProofs shows to be          *)
(* complete.                                                               *)
(*                                                                         *)
(* The argument: SearchInv is inductive.  What was visited and looked up   *)
(* has its subscribers visited: a hit finds the set of the offset, because *)
(* what is pushed under a scan is newer than the offset; and a scan that   *)
(* ends without a hit, over a list that did not grow, shows that there is  *)
(* no such set, so that nothing refers to the RefID.  When nothing waits,  *)
(* the visited RefIDs are closed under what refers to them.                *)
(***************************************************************************)
-----------------------------------------------------------------------------
(* Orders of a set *)

\* The order of a hash set names every element, once.
LEMMA OrderOfSet ==
    ASSUME NEW S \in SUBSET RefID, NEW order \in SetToSeqs(S)
    PROVE  /\ order \in Seq(RefID)
           /\ \A n \in DOMAIN order : order[n] \in S
           /\ \A v \in S : \E n \in DOMAIN order : order[n] = v
           /\ \A m, n \in DOMAIN order : m # n => order[m] # order[n]
<1> DEFINE D == 1 .. Cardinality(S)
<1>1. IsFiniteSet(S) /\ Cardinality(S) \in Nat
  BY ReferenceAssumption, FS_Subset, FS_CardinalityType
<1>2. order \in [D -> S] /\ \A m, n \in D : m # n => order[m] # order[n]
  BY DEF SetToSeqs
<1>3. DOMAIN order = D /\ order \in Seq(RefID) /\ \A n \in DOMAIN order : order[n] \in S
  BY <1>1, <1>2
<1>4. order \in Injection(D, S)
  BY <1>2 DEF Injection, IsInjective
<1>5. Cardinality(D) = Cardinality(S)
  BY <1>1, FS_Interval
<1>6. order \in Surjection(D, S)
  BY <1>1, <1>4, <1>5, FS_Injection
<1>7. QED
  BY <1>2, <1>3, <1>6 DEF Surjection

\* A search in progress, or one that ended, has its record.
LEMMA CallOfSearcher ==
    ASSUME TypeOK, NEW s \in Searcher, search[s].pc # "idle"
    PROVE  search[s] \in SearchType
  BY DEF TypeOK, Idle

\* The types of the sets alone.
LEMMA TypesOfGraph == TypeOK => GraphTypes
  BY DEF TypeOK, GraphTypes

\* What one visit adds: the subscribers not visited before, in some order,
\* each with the RefID it was reached from.
Visited(call, found, order, after) ==
    /\ after = [call EXCEPT !.pc = "pop",
                            !.visited = @ \cup found,
                            !.processing = @ \o order,
                            !.result = @ \o [n \in DOMAIN order |->
                                [owner |-> order[n], other |-> call.current]]]
    /\ order \in Seq(RefID)
    /\ \A n \in DOMAIN order : order[n] \in found \ call.visited
    /\ \A v \in found \ call.visited : \E n \in DOMAIN order : order[n] = v
    /\ \A m, n \in DOMAIN order : m # n => order[m] # order[n]

\* A visit takes the new subscribers in some order.
LEMMA VisitOrder ==
    ASSUME NEW call, NEW found \in SUBSET RefID, NEW after \in Visit(call, found)
    PROVE  \E order : Visited(call, found, order, after)
<1>1. PICK order \in SetToSeqs(found \ call.visited) :
          after = [call EXCEPT !.pc = "pop",
                               !.visited = @ \cup found,
                               !.processing = @ \o order,
                               !.result = @ \o [n \in DOMAIN order |->
                                   [owner |-> order[n], other |-> call.current]]]
  BY DEF Visit
<1>2. /\ order \in Seq(RefID)
      /\ \A n \in DOMAIN order : order[n] \in found \ call.visited
      /\ \A v \in found \ call.visited : \E n \in DOMAIN order : order[n] = v
      /\ \A m, n \in DOMAIN order : m # n => order[m] # order[n]
  <2>1. found \ call.visited \in SUBSET RefID
    OBVIOUS
  <2>2. QED
    BY <2>1, OrderOfSet
<1>3. QED
  BY <1>1, <1>2 DEF Visited

\* The fields of a search after a visit.
VisitedFields(call, found, order, after) ==
    /\ after \in SearchType /\ after.pc = "pop"
    /\ after.from = call.from /\ after.offset = call.offset
    /\ after.asked = call.asked /\ after.current = call.current
    /\ after.shifted = call.shifted
    /\ after.visited = call.visited \cup found
    /\ Len(order) \in Nat /\ DOMAIN order = 1 .. Len(order)
    /\ Len(call.processing) \in Nat /\ Len(call.result) \in Nat
    /\ Len(after.processing) = Len(call.processing) + Len(order)
    /\ \A n \in 1 .. Len(after.processing) :
          after.processing[n] = IF n <= Len(call.processing) THEN call.processing[n]
                                ELSE order[n - Len(call.processing)]
    /\ Len(after.result) = Len(call.result) + Len(order)
    /\ \A n \in 1 .. Len(after.result) :
          after.result[n] =
              IF n <= Len(call.result) THEN call.result[n]
              ELSE [owner |-> order[n - Len(call.result)], other |-> call.current]

\* A visit appends its order to the queue and to the result.
LEMMA VisitEffect ==
    ASSUME NEW call \in SearchType, NEW found \in SUBSET RefID, NEW order, NEW after,
           Visited(call, found, order, after)
    PROVE  VisitedFields(call, found, order, after)
<1> DEFINE more == [n \in DOMAIN order |-> [owner |-> order[n], other |-> call.current]]
           processing == call.processing \o order
           result == call.result \o more
<1>1. /\ call.current \in RefID /\ call.processing \in Seq(RefID)
      /\ call.result \in Seq(Reference) /\ call.visited \in SUBSET RefID
  BY DEF SearchType
<1>2. order \in Seq(RefID) /\ Len(order) \in Nat /\ DOMAIN order = 1 .. Len(order)
  BY DEF Visited
<1>3. more \in Seq(Reference) /\ Len(more) = Len(order)
      /\ \A n \in 1 .. Len(order) :
             more[n] = [owner |-> order[n], other |-> call.current]
  <2>1. \A n \in 1 .. Len(order) : [owner |-> order[n], other |-> call.current] \in Reference
    BY <1>1, <1>2 DEF Reference
  <2>2. QED
    BY <1>2, <2>1
<1>4. /\ processing \in Seq(RefID) /\ Len(call.processing) \in Nat
      /\ Len(processing) = Len(call.processing) + Len(order)
      /\ \A n \in 1 .. Len(processing) :
             processing[n] = IF n <= Len(call.processing) THEN call.processing[n]
                             ELSE order[n - Len(call.processing)]
  BY <1>1, <1>2
<1> HIDE DEF more
<1>5. /\ result \in Seq(Reference) /\ Len(call.result) \in Nat
      /\ Len(result) = Len(call.result) + Len(order)
      /\ \A n \in 1 .. Len(result) :
             result[n] = IF n <= Len(call.result) THEN call.result[n]
                         ELSE more[n - Len(call.result)]
  <2>1. call.result \in Seq(Reference) /\ more \in Seq(Reference) /\ Len(call.result) \in Nat
    BY <1>1, <1>3
  <2>2. /\ result \in Seq(Reference)
        /\ Len(result) = Len(call.result) + Len(more)
        /\ \A n \in 1 .. Len(call.result) + Len(more) :
               result[n] = IF n <= Len(call.result) THEN call.result[n]
                           ELSE more[n - Len(call.result)]
    BY <2>1, ConcatProperties
  <2>3. QED
    BY <1>3, <2>1, <2>2
<1>6. \A n \in 1 .. Len(result) :
          result[n] = IF n <= Len(call.result) THEN call.result[n]
                      ELSE [owner |-> order[n - Len(call.result)], other |-> call.current]
  <2>1. SUFFICES ASSUME NEW n \in 1 .. Len(result), n > Len(call.result)
                 PROVE  more[n - Len(call.result)]
                            = [owner |-> order[n - Len(call.result)], other |-> call.current]
    BY <1>5
  <2>2. n - Len(call.result) \in 1 .. Len(order)
    BY <1>2, <1>5, <2>1
  <2>3. QED
    BY <1>3, <2>2
<1> HIDE DEF processing, result
<1>7. after = [call EXCEPT !.pc = "pop", !.visited = @ \cup found,
                           !.processing = processing, !.result = result]
  BY DEF Visited, processing, result, more
<1>8. after \in SearchType
  BY <1>1, <1>4, <1>5, <1>7 DEF SearchType, InProgress
<1>9. /\ after.processing = processing /\ after.result = result
      /\ after.pc = "pop" /\ after.visited = call.visited \cup found
      /\ after.from = call.from /\ after.offset = call.offset /\ after.asked = call.asked
      /\ after.current = call.current /\ after.shifted = call.shifted
  BY <1>7 DEF SearchType
<1>10. QED
  BY <1>2, <1>4, <1>5, <1>6, <1>8, <1>9 DEF VisitedFields

-----------------------------------------------------------------------------
(* What each step does to a search *)

\* The steps that leave the searches, and those that are theirs.
LEMMA SearchCases ==
    ASSUME [Next]_vars
    PROVE  \/ search' = search
           \/ JoinGroup \/ CrashService \/ RestartRedis
           \/ /\ UNCHANGED graphVars
              /\ \E s \in Searcher :
                     \/ PopRef(s) \/ ReadIndex(s) \/ FinishSearch(s)
                     \/ \E r \in Searched, o \in 0 .. MaxLog - 1 : StartSearch(s, r, o)
<1>1. ASSUME NEW s \in Searcher, Search(s)
      PROVE  /\ UNCHANGED graphVars
             /\ PopRef(s) \/ ReadIndex(s) \/ FinishSearch(s)
  BY <1>1 DEF Search, PopRef, ReadIndex, FinishSearch, graphVars
<1>2. ASSUME NEW s \in Searcher, NEW r \in Searched, NEW o \in 0 .. MaxLog - 1,
             StartSearch(s, r, o)
      PROVE  UNCHANGED graphVars
  BY <1>2 DEF StartSearch, graphVars
<1>3. CASE \E message \in Message : Submit(message)
  BY <1>3 DEF Submit
<1>4. CASE Consume
  BY <1>4 DEF Consume, TakeMessage, PassOver, StoreObjRefs, PushSubs
<1>5. CASE Disturb
  BY <1>5 DEF Disturb, DropMessage, AbandonMessage
<1>6. CASE UNCHANGED vars
  BY <1>6 DEF vars
<1>7. QED
  BY <1>1, <1>2, <1>3, <1>4, <1>5, <1>6 DEF Next

\* Only a restart of Redis shortens a list.
LEMMA ListsGrow ==
    ASSUME GraphTypes, [Next]_vars, ~ RestartRedis, NEW r \in RefID
    PROVE  Len(subs[r]) \in Nat /\ Len(subs'[r]) \in Nat /\ Len(subs[r]) <= Len(subs'[r])
<1>1. subs[r] \in Seq(Entry) /\ subs'[r] \in Seq(Entry)
  BY GraphTypesStep DEF GraphTypes
<1>2. CASE subs' = subs
  BY <1>1, <1>2
<1>3. ASSUME NEW q \in DOMAIN changed, PushOf(q)
      PROVE  Len(subs[r]) <= Len(subs'[r])
  <2>1. CASE r = q
    <3>1. PICK entry : entry = [offset |-> position, subs |-> changed[q]]
      OBVIOUS
    <3>2. entry \in Entry /\ subs'[q] = <<entry>> \o subs[q]
      BY <1>3, <3>1, PushEffect
    <3>3. Len(subs'[q]) = Len(subs[q]) + 1
      BY <1>1, <2>1, <3>2, PushedAhead
    <3>4. QED
      BY <1>1, <2>1, <3>3
  <2>2. CASE r # q
    <3>1. subs'[r] = subs[r]
      BY <1>3, <2>2, PushEffect
    <3>2. QED
      BY <1>1, <3>1
  <2>3. QED
    BY <2>1, <2>2
<1>4. QED
  BY <1>1, <1>2, <1>3, StepCases DEF PassOver, StoreObjRefs, redisVars

\* PopRef takes the next RefID and the length of its list.
LEMMA PopEffect ==
    ASSUME TypeOK, NEW s \in Searcher, PopRef(s),
           NEW call, call = search[s], NEW after, after = search'[s],
           NEW r, r = Head(call.processing)
    PROVE  /\ call \in SearchType /\ call.pc = "pop" /\ call.processing # << >>
           /\ r \in RefID /\ r = call.processing[1]
           /\ after \in SearchType /\ search' = [search EXCEPT ![s] = after]
           /\ after.processing = Tail(call.processing)
           /\ after.current = r /\ after.len = Len(subs[r]) /\ after.next = 0
           /\ after.pc = IF Len(subs[r]) = 0 THEN "pop" ELSE "scan"
           /\ after.from = call.from /\ after.offset = call.offset
           /\ after.asked = call.asked /\ after.visited = call.visited
           /\ after.result = call.result /\ after.shifted = call.shifted
           /\ Len(subs[r]) \in Nat
<1>1. call.pc = "pop" /\ call.processing # << >>
  BY DEF PopRef
<1>2. call \in SearchType
  BY <1>1, CallOfSearcher
<1>3. call.processing \in Seq(RefID)
  BY <1>2 DEF SearchType
<1>4. r \in RefID /\ r = call.processing[1] /\ Tail(call.processing) \in Seq(RefID)
  BY <1>1, <1>3
<1>5. subs[r] \in Seq(Entry) /\ Len(subs[r]) \in Nat
  BY <1>4 DEF TypeOK
<1> DEFINE pc == IF Len(subs[r]) = 0 THEN "pop" ELSE "scan"
           tail == Tail(call.processing)
           len == Len(subs[r])
           new == [call EXCEPT !.processing = tail, !.current = r, !.len = len, !.next = 0,
                               !.pc = pc]
<1>6. search' = [search EXCEPT ![s] = new]
  BY DEF PopRef
<1>7. after = new
  BY <1>6 DEF TypeOK
<1>8. pc \in InProgress /\ tail \in Seq(RefID) /\ len \in Nat
  BY <1>4, <1>5 DEF InProgress
<1> HIDE DEF pc, tail, len
<1>9. after \in SearchType
  <2>1. after = [pc |-> pc, from |-> call.from, offset |-> call.offset,
                 asked |-> call.asked, processing |-> tail, visited |-> call.visited,
                 result |-> call.result, current |-> r, len |-> len, next |-> 0,
                 shifted |-> call.shifted]
    BY <1>2, <1>7 DEF SearchType
  <2>2. /\ call.from \in RefID /\ call.offset \in 0 .. MaxLog /\ call.asked \in Nat
        /\ call.visited \in SUBSET RefID /\ call.result \in Seq(Reference)
        /\ call.shifted \in BOOLEAN
    BY <1>2 DEF SearchType
  <2>3. pc \in InProgress \cup {"done", "error"} /\ 0 \in Nat
    BY <1>8
  <2>4. QED
    BY <1>4, <1>8, <2>1, <2>2, <2>3 DEF SearchType
<1>10. /\ after.processing = tail /\ after.current = r /\ after.len = len /\ after.next = 0
       /\ after.pc = pc /\ after.from = call.from /\ after.offset = call.offset
       /\ after.asked = call.asked /\ after.visited = call.visited
       /\ after.result = call.result /\ after.shifted = call.shifted
  BY <1>2, <1>7 DEF SearchType
<1>11. QED
  BY <1>1, <1>2, <1>4, <1>5, <1>6, <1>7, <1>9, <1>10 DEF pc, tail, len

\* ReadIndex looks at an entry that is there.
LEMMA IndexThere ==
    ASSUME TypeOK, NEW s \in Searcher, search[s].pc = "scan",
           NEW call, call = search[s], NEW i, i = call.next + 1
    PROVE  /\ call \in SearchType /\ call.current \in RefID
           /\ subs[call.current] \in Seq(Entry)
           /\ i \in DOMAIN subs[call.current] /\ subs[call.current][i] \in Entry
           /\ i \in Nat /\ i <= call.len /\ call.len <= Len(subs[call.current])
<1>1. call \in SearchType
  BY CallOfSearcher
<1>2. call.current \in RefID /\ call.next \in Nat /\ call.len \in Nat
  BY <1>1 DEF SearchType
<1>3. subs[call.current] \in Seq(Entry)
  BY <1>2 DEF TypeOK
<1>4. call.next < call.len /\ call.len <= Len(subs[call.current])
  BY DEF TypeOK, InBounds
<1>5. i \in DOMAIN subs[call.current]
  BY <1>2, <1>3, <1>4
<1>6. QED
  BY <1>1, <1>2, <1>3, <1>4, <1>5

\* A hit visits the subscribers of the entry.
HitOf(s, call, after, i) ==
    /\ call.pc = "scan"
    /\ subs[call.current][i].offset <= call.offset
    /\ after \in Visit(call, subs[call.current][i].subs)
    /\ search' = [search EXCEPT ![s] = after]

\* Otherwise the scan goes on, or ends with the last index there was.
MissOf(s, call, after, i) ==
    /\ call.pc = "scan"
    /\ subs[call.current][i].offset > call.offset
    /\ after = [call EXCEPT !.next = i, !.pc = IF i = call.len THEN "pop" ELSE "scan",
                            !.shifted = @ \/ (i = call.len /\ call.len < Len(subs[call.current]))]
    /\ search' = [search EXCEPT ![s] = after]

\* ReadIndex is a hit or a miss.
LEMMA ReadIndexCases ==
    ASSUME TypeOK, NEW s \in Searcher, ReadIndex(s),
           NEW call, call = search[s], NEW i, i = call.next + 1
    PROVE  \E after : HitOf(s, call, after, i) \/ MissOf(s, call, after, i)
<1>1. call.pc = "scan"
  BY DEF ReadIndex
<1>2. CASE /\ subs[call.current][i].offset <= call.offset
           /\ \E after \in Visit(call, subs[call.current][i].subs) :
                  search' = [search EXCEPT ![s] = after]
  BY <1>1, <1>2 DEF HitOf
<1> DEFINE miss == [call EXCEPT
                       !.next = i, !.pc = IF i = call.len THEN "pop" ELSE "scan",
                       !.shifted = @ \/ (i = call.len /\ call.len < Len(subs[call.current]))]
<1>3. CASE /\ subs[call.current][i].offset > call.offset
           /\ search' = [search EXCEPT
                 ![s].next = i,
                 ![s].pc = IF i = call.len THEN "pop" ELSE "scan",
                 ![s].shifted = @ \/ (i = call.len /\ call.len < Len(subs[call.current]))]
  <2>1. search' = [search EXCEPT ![s] = miss]
    BY <1>3
  <2>2. MissOf(s, call, miss, i)
    BY <1>1, <1>3, <2>1 DEF MissOf
  <2>3. QED
    BY <2>2
<1>4. QED
  BY <1>2, <1>3 DEF ReadIndex

\* The fields of a search after a miss.
LEMMA MissFields ==
    ASSUME TypeOK, NEW s \in Searcher, NEW call, call = search[s], NEW after,
           NEW i, i = call.next + 1, MissOf(s, call, after, i)
    PROVE  /\ after \in SearchType /\ after.next = i
           /\ after.pc = IF i = call.len THEN "pop" ELSE "scan"
           /\ after.shifted = (call.shifted \/ (i = call.len /\ call.len < Len(subs[call.current])))
           /\ after.from = call.from /\ after.offset = call.offset
           /\ after.asked = call.asked /\ after.visited = call.visited
           /\ after.result = call.result /\ after.processing = call.processing
           /\ after.current = call.current /\ after.len = call.len
<1>1. call \in SearchType /\ i \in Nat /\ call.shifted \in BOOLEAN
  BY IndexThere DEF MissOf, SearchType
<1> DEFINE shifted == call.shifted \/ (i = call.len /\ call.len < Len(subs[call.current]))
           pc == IF i = call.len THEN "pop" ELSE "scan"
<1>2. shifted \in BOOLEAN /\ pc \in InProgress
  BY DEF InProgress
<1>3. after = [call EXCEPT !.next = i, !.pc = pc, !.shifted = shifted]
  BY <1>1 DEF MissOf, SearchType
<1> HIDE DEF shifted, pc
<1>4. after \in SearchType
  BY <1>1, <1>2, <1>3 DEF SearchType
<1>5. /\ after.next = i /\ after.pc = pc /\ after.shifted = shifted
      /\ after.from = call.from /\ after.offset = call.offset
      /\ after.asked = call.asked /\ after.visited = call.visited
      /\ after.result = call.result /\ after.processing = call.processing
      /\ after.current = call.current /\ after.len = call.len
  BY <1>1, <1>3 DEF SearchType
<1>6. QED
  BY <1>4, <1>5 DEF shifted, pc

\* A call that returns keeps what it was asked; it has an answer if it is done.
LEMMA AnswerFields ==
    ASSUME NEW call \in SearchType, NEW outcome \in {"done", "error"},
           NEW after, after = Answer(outcome, call)
    PROVE  /\ after \in SearchType /\ after.pc = outcome
           /\ after.from = call.from /\ after.offset = call.offset
           /\ after.asked = call.asked /\ after.shifted = call.shifted
           /\ after.result = IF outcome = "done" THEN call.result ELSE << >>
<1> DEFINE result == IF outcome = "done" THEN call.result ELSE << >>
           none == << >>
<1>1. result \in Seq(Reference) /\ none \in Seq(RefID) /\ {} \in SUBSET RefID
  BY DEF SearchType
<1>2. after = [call EXCEPT !.pc = outcome, !.processing = none, !.visited = {},
                           !.current = call.from, !.len = 0, !.next = 0, !.result = result]
  BY DEF Answer
<1> HIDE DEF result, none
<1>3. after \in SearchType
  <2>1. after = [pc |-> outcome, from |-> call.from, offset |-> call.offset,
                 asked |-> call.asked, processing |-> none, visited |-> {},
                 result |-> result, current |-> call.from, len |-> 0, next |-> 0,
                 shifted |-> call.shifted]
    BY <1>2 DEF SearchType
  <2>2. /\ call.from \in RefID /\ call.offset \in 0 .. MaxLog /\ call.asked \in Nat
        /\ call.shifted \in BOOLEAN /\ 0 \in Nat
    BY DEF SearchType
  <2>3. QED
    BY <1>1, <2>1, <2>2 DEF SearchType
<1>4. /\ after.pc = outcome /\ after.from = call.from /\ after.offset = call.offset
      /\ after.asked = call.asked /\ after.shifted = call.shifted /\ after.result = result
  BY <1>2 DEF SearchType
<1>5. QED
  BY <1>3, <1>4 DEF result

\* A search that ends keeps its answer.
LEMMA FinishEffect ==
    ASSUME TypeOK, NEW s \in Searcher, FinishSearch(s),
           NEW call, call = search[s], NEW after, after = search'[s]
    PROVE  /\ call \in SearchType /\ call.pc = "pop" /\ call.processing = << >>
           /\ after \in SearchType /\ search' = [search EXCEPT ![s] = after]
           /\ after.pc = "done" /\ after.from = call.from /\ after.offset = call.offset
           /\ after.asked = call.asked /\ after.result = call.result
           /\ after.shifted = call.shifted
<1>1. call.pc = "pop" /\ call.processing = << >>
  BY DEF FinishSearch
<1>2. call \in SearchType
  BY <1>1, CallOfSearcher
<1>3. search' = [search EXCEPT ![s] = Answer("done", call)]
  BY DEF FinishSearch
<1>4. after = Answer("done", call)
  BY <1>3 DEF TypeOK
<1>5. /\ after \in SearchType /\ after.pc = "done"
      /\ after.from = call.from /\ after.offset = call.offset
      /\ after.asked = call.asked /\ after.shifted = call.shifted
      /\ after.result = IF "done" = "done" THEN call.result ELSE << >>
  BY <1>2, <1>4, AnswerFields
<1>6. QED
  BY <1>1, <1>2, <1>3, <1>4, <1>5

\* A search that starts.
LEMMA StartEffect ==
    ASSUME TypeOK, NEW s \in Searcher, NEW r \in Searched, NEW o \in 0 .. MaxLog - 1,
           StartSearch(s, r, o), NEW after, after = search'[s]
    PROVE  /\ after \in SearchType /\ search' = [search EXCEPT ![s] = after]
           /\ after = [pc |-> "pop", from |-> r, offset |-> o, asked |-> position,
                       processing |-> <<r>>, visited |-> {r}, result |-> << >>,
                       current |-> r, len |-> 0, next |-> 0, shifted |-> FALSE]
           /\ r \in RefID
<1>1. r \in RefID /\ o \in 0 .. MaxLog /\ position \in Nat
  BY ReferenceAssumption, ConsumerAssumption DEF TypeOK, ConsumerTypeOK
<1> DEFINE new == [pc |-> "pop", from |-> r, offset |-> o, asked |-> position,
                   processing |-> <<r>>, visited |-> {r}, result |-> << >>,
                   current |-> r, len |-> 0, next |-> 0, shifted |-> FALSE]
<1>2. search' = [search EXCEPT ![s] = new]
  BY DEF StartSearch
<1>3. after = new
  BY <1>2 DEF TypeOK
<1>4. new \in SearchType
  BY <1>1 DEF SearchType, InProgress
<1>5. QED
  BY <1>1, <1>2, <1>3, <1>4

\* What a step does to one search: nothing; the history of a rejoin; an end,
\* by a crash or a restart of Redis; or its own step.
Kept(call, after) == after = call /\ (call.pc \in InProgress => ~ RestartRedis)
Rejoined(call, after) ==
    /\ ~ RestartRedis /\ call.pc # "idle" /\ position' < call.asked
    /\ after = [call EXCEPT !.asked = position']
Failed(call, after) ==
    RestartRedis /\ call.pc \in InProgress /\ after = Answer("error", call)
Stepped(s) ==
    /\ ~ RestartRedis
    /\ UNCHANGED graphVars
    /\ \/ PopRef(s) \/ ReadIndex(s) \/ FinishSearch(s)
       \/ \E r \in Searched, o \in 0 .. MaxLog - 1 : StartSearch(s, r, o)

\* Every step does one of these to each search.
LEMMA CallCases ==
    ASSUME TypeOK, [Next]_vars, NEW s \in Searcher
    PROVE  \/ Kept(search[s], search'[s])
           \/ Rejoined(search[s], search'[s])
           \/ search'[s] = Idle
           \/ Failed(search[s], search'[s])
           \/ Stepped(s)
<1>1. DOMAIN search = Searcher
  BY DEF TypeOK
<1>2. CASE RestartRedis
  BY <1>2 DEF RestartRedis, Kept, Failed
<1>3. CASE ~ RestartRedis /\ search' = search
  BY <1>3 DEF Kept
<1>4. CASE ~ RestartRedis /\ JoinGroup
  BY <1>4 DEF JoinGroup, Kept, Rejoined
<1>5. CASE CrashService
  BY <1>5 DEF CrashService
<1>6. ASSUME NEW q \in Searcher, ~ RestartRedis, UNCHANGED graphVars,
             \/ PopRef(q) \/ ReadIndex(q) \/ FinishSearch(q)
             \/ \E r \in Searched, o \in 0 .. MaxLog - 1 : StartSearch(q, r, o)
      PROVE  Kept(search[s], search'[s]) \/ Stepped(s)
  <2>1. CASE q = s
    BY <1>6, <2>1 DEF Stepped
  <2>2. CASE q # s
    <3>1. CASE PopRef(q) \/ FinishSearch(q)
      BY <1>1, <1>6, <2>2, <3>1 DEF PopRef, FinishSearch, Kept
    <3>2. CASE \E r \in Searched, o \in 0 .. MaxLog - 1 : StartSearch(q, r, o)
      BY <1>1, <1>6, <2>2, <3>2 DEF StartSearch, Kept
    <3>3. CASE ReadIndex(q)
      <4>1. PICK after : HitOf(q, search[q], after, search[q].next + 1)
                            \/ MissOf(q, search[q], after, search[q].next + 1)
        BY <3>3, ReadIndexCases
      <4>2. search' = [search EXCEPT ![q] = after]
        BY <4>1 DEF HitOf, MissOf
      <4>3. QED
        BY <1>1, <1>6, <2>2, <4>2 DEF Kept
    <3>4. QED
      BY <1>6, <3>1, <3>2, <3>3
  <2>3. QED
    BY <2>1, <2>2
<1>7. QED
  BY <1>2, <1>3, <1>4, <1>5, <1>6, SearchCases

\* The fields a rejoin keeps.
LEMMA RejoinFields ==
    ASSUME GraphTypes, [Next]_vars, NEW call \in SearchType, NEW after,
           after = [call EXCEPT !.asked = position']
    PROVE  /\ after \in SearchType /\ after.asked = position' /\ after.pc = call.pc
           /\ after.from = call.from /\ after.offset = call.offset
           /\ after.processing = call.processing /\ after.visited = call.visited
           /\ after.result = call.result /\ after.current = call.current
           /\ after.len = call.len /\ after.next = call.next /\ after.shifted = call.shifted
<1>1. ConsumerTypeOK' /\ log' \in Seq(Message)
  BY HistoryStep
<1>2. position' \in Nat
  BY <1>1 DEF ConsumerTypeOK
<1>3. QED
  BY <1>2 DEF SearchType

\* The type of a search, and of the scan it is in, after its own step.
LEMMA SteppedType ==
    ASSUME TypeOK, [Next]_vars, NEW s \in Searcher, Stepped(s)
    PROVE  /\ search'[s] \in SearchType
           /\ search'[s].pc = "scan" =>
                 /\ search'[s].next < search'[s].len
                 /\ search'[s].len <= Len(subs[search'[s].current])
<1>0. DOMAIN search = Searcher
  BY DEF TypeOK
<1>1. CASE PopRef(s)
  <2>1. PICK call, after, r : call = search[s] /\ after = search'[s] /\ r = Head(call.processing)
    OBVIOUS
  <2>2. /\ after \in SearchType /\ after.current = r /\ after.len = Len(subs[r])
        /\ after.next = 0 /\ after.pc = IF Len(subs[r]) = 0 THEN "pop" ELSE "scan"
        /\ Len(subs[r]) \in Nat
    BY <1>1, <2>1, PopEffect
  <2>3. QED
    BY <2>1, <2>2
<1>2. CASE ReadIndex(s)
  <2>1. PICK call, i : call = search[s] /\ i = call.next + 1
    OBVIOUS
  <2>2. PICK after : HitOf(s, call, after, i) \/ MissOf(s, call, after, i)
    BY <1>2, <2>1, ReadIndexCases
  <2>3. search'[s] = after /\ call.pc = "scan"
    BY <1>0, <2>2 DEF HitOf, MissOf
  <2>4. /\ call \in SearchType /\ call.current \in RefID /\ i \in Nat /\ i <= call.len
        /\ subs[call.current][i] \in Entry /\ call.len <= Len(subs[call.current])
    BY <2>1, <2>3, IndexThere
  <2>5. CASE HitOf(s, call, after, i)
    <3>1. PICK found \in SUBSET RefID : found = subs[call.current][i].subs
      BY <2>4 DEF Entry
    <3>2. PICK order : Visited(call, found, order, after)
      BY <2>5, <3>1, VisitOrder DEF HitOf
    <3>3. VisitedFields(call, found, order, after)
      BY <2>4, <3>2, VisitEffect
    <3>4. after \in SearchType /\ after.pc = "pop"
      BY <3>3 DEF VisitedFields
    <3>5. QED
      BY <2>3, <3>4
  <2>6. CASE MissOf(s, call, after, i)
    <3>1. /\ after \in SearchType /\ after.next = i
          /\ after.pc = IF i = call.len THEN "pop" ELSE "scan"
          /\ after.current = call.current /\ after.len = call.len
      BY <2>1, <2>6, MissFields
    <3>2. call.len \in Nat
      BY <2>4 DEF SearchType
    <3>3. QED
      BY <2>3, <2>4, <3>1, <3>2
  <2>7. QED
    BY <2>2, <2>5, <2>6
<1>3. CASE FinishSearch(s)
  <2>1. PICK call, after : call = search[s] /\ after = search'[s]
    OBVIOUS
  <2>2. after \in SearchType /\ after.pc = "done"
    BY <1>3, <2>1, FinishEffect
  <2>3. QED
    BY <2>1, <2>2
<1>4. ASSUME NEW r \in Searched, NEW o \in 0 .. MaxLog - 1, StartSearch(s, r, o)
      PROVE  search'[s] \in SearchType /\ search'[s].pc = "pop"
  <2>1. PICK after : after = search'[s]
    OBVIOUS
  <2>2. /\ after \in SearchType
        /\ after = [pc |-> "pop", from |-> r, offset |-> o, asked |-> position,
                    processing |-> <<r>>, visited |-> {r}, result |-> << >>,
                    current |-> r, len |-> 0, next |-> 0, shifted |-> FALSE]
    BY <1>4, <2>1, StartEffect
  <2>3. QED
    BY <2>1, <2>2
<1>5. QED
  BY <1>1, <1>2, <1>3, <1>4 DEF Stepped

\* The type of a search after any step.
LEMMA CallTypeStep ==
    ASSUME TypeOK, [Next]_vars, NEW s \in Searcher
    PROVE  /\ search'[s] \in {Idle} \cup SearchType
           /\ search'[s].pc = "scan" => InBounds(search[s])'
<1>1. GraphTypes /\ DOMAIN search = Searcher /\ search[s] \in {Idle} \cup SearchType
  BY TypesOfGraph DEF TypeOK
<1>2. PICK call : call = search[s]
  OBVIOUS
<1>3. PICK after : after = search'[s]
  OBVIOUS
<1>4. ASSUME ~ RestartRedis, call \in SearchType, call.pc = "scan",
             after.current = call.current, after.next = call.next, after.len = call.len
      PROVE  InBounds(search[s])'
  <2>1. call.current \in RefID /\ call.next \in Nat /\ call.len \in Nat
    BY <1>4 DEF SearchType
  <2>2. call.next < call.len /\ call.len <= Len(subs[call.current])
    BY <1>2, <1>4 DEF TypeOK, InBounds
  <2>3. /\ Len(subs[call.current]) \in Nat /\ Len(subs'[call.current]) \in Nat
        /\ Len(subs[call.current]) <= Len(subs'[call.current])
    BY <1>1, <1>4, <2>1, ListsGrow
  <2>4. call.len <= Len(subs'[call.current])
    BY <2>1, <2>2, <2>3
  <2>5. QED
    BY <1>3, <1>4, <2>2, <2>4 DEF InBounds
<1>5. CASE Kept(call, after)
  <2>1. call.pc = "scan" => call \in SearchType /\ ~ RestartRedis
    BY <1>1, <1>2, <1>5 DEF Kept, Idle, InProgress
  <2>2. QED
    BY <1>1, <1>2, <1>3, <1>4, <1>5, <2>1 DEF Kept
<1>6. CASE Rejoined(call, after)
  <2>1. call \in SearchType
    BY <1>1, <1>2, <1>6 DEF Rejoined, Idle
  <2>2. after \in SearchType /\ after.pc = call.pc
        /\ after.current = call.current /\ after.next = call.next /\ after.len = call.len
    BY <1>1, <1>6, <2>1, RejoinFields DEF Rejoined
  <2>3. QED
    BY <1>3, <1>4, <1>6, <2>1, <2>2 DEF Rejoined
<1>7. CASE after = Idle
  BY <1>3, <1>7 DEF Idle
<1>8. CASE Failed(call, after)
  <2>1. call \in SearchType
    BY <1>1, <1>2, <1>8 DEF Failed, Idle, InProgress
  <2>2. after \in SearchType /\ after.pc = "error"
    BY <1>8, <2>1, AnswerFields DEF Failed
  <2>3. QED
    BY <1>3, <2>2
<1>9. CASE Stepped(s)
  <2>1. /\ search'[s] \in SearchType
        /\ search'[s].pc = "scan" =>
              /\ search'[s].next < search'[s].len
              /\ search'[s].len <= Len(subs[search'[s].current])
    BY <1>9, SteppedType
  <2>2. subs' = subs
    BY <1>9 DEF Stepped, graphVars, redisVars
  <2>3. QED
    BY <2>1, <2>2 DEF InBounds
<1>10. QED
  BY <1>2, <1>3, <1>5, <1>6, <1>7, <1>8, <1>9, CallCases

\* Every step keeps the types.
LEMMA TypeStep == TypeOK /\ [Next]_vars => TypeOK'
<1> SUFFICES ASSUME TypeOK, [Next]_vars PROVE TypeOK'
  OBVIOUS
<1>1. GraphTypes'
  BY TypesOfGraph, GraphTypesStep
<1>2. \A s \in Searcher : /\ search'[s] \in {Idle} \cup SearchType
                          /\ search'[s].pc = "scan" => InBounds(search[s])'
  BY CallTypeStep
<1>3. DOMAIN search' = Searcher /\ search' = [s \in Searcher |-> search'[s]]
  <2>1. search = [s \in Searcher |-> search[s]]
    BY DEF TypeOK
  <2>2. CASE search' = search
    BY <2>1, <2>2
  <2>3. CASE JoinGroup \/ CrashService \/ RestartRedis
    BY <2>3 DEF JoinGroup, CrashService, RestartRedis
  <2>4. ASSUME NEW s \in Searcher,
               \/ PopRef(s) \/ ReadIndex(s) \/ FinishSearch(s)
               \/ \E r \in Searched, o \in 0 .. MaxLog - 1 : StartSearch(s, r, o)
        PROVE  \E after : search' = [search EXCEPT ![s] = after]
    <3>1. CASE PopRef(s)
      BY <3>1, PopEffect
    <3>2. CASE ReadIndex(s)
      BY <3>2, ReadIndexCases DEF HitOf, MissOf
    <3>3. CASE FinishSearch(s)
      BY <3>3, FinishEffect
    <3>4. CASE \E r \in Searched, o \in 0 .. MaxLog - 1 : StartSearch(s, r, o)
      BY <3>4, StartEffect
    <3>5. QED
      BY <2>4, <3>1, <3>2, <3>3, <3>4
  <2>5. ASSUME NEW s \in Searcher, NEW after, search' = [search EXCEPT ![s] = after]
        PROVE  DOMAIN search' = Searcher /\ search' = [q \in Searcher |-> search'[q]]
    BY <2>1, <2>5
  <2>6. QED
    BY <2>2, <2>3, <2>4, <2>5, SearchCases
<1>4. search' \in [Searcher -> {Idle} \cup SearchType]
  BY <1>2, <1>3
<1>5. \A s \in Searcher : search'[s].pc = "scan" => InBounds(search[s])'
  BY <1>2
<1>6. QED
  BY <1>1, <1>4, <1>5 DEF TypeOK, GraphTypes

\* Initially nobody searches.
LEMMA TypeInit == Init => TypeOK
<1> SUFFICES ASSUME Init PROVE TypeOK
  OBVIOUS
<1>1. GraphTypes
  BY GraphTypesInit
<1>2. search \in [Searcher -> {Idle} \cup SearchType] /\ \A s \in Searcher : search[s].pc = "idle"
  BY DEF Init, Idle
<1>3. QED
  BY <1>1, <1>2 DEF TypeOK, GraphTypes

\* Types; sets are pending only while a message is handled; and a scan stays
\* inside its list, whatever is pushed, replayed or lost meanwhile: LINDEX is
\* never asked for an entry that is not there.
THEOREM SearchTypeCorrect == Spec => []TypeOK
<1>1. Init => TypeOK
  BY TypeInit
<1>2. TypeOK /\ [Next]_vars => TypeOK'
  BY TypeStep
<1>3. QED
  BY <1>1, <1>2, PTL DEF Spec

-----------------------------------------------------------------------------
(* What a search knows survives the steps of the others *)

\* Only a rejoin takes the consumer back.
LEMMA PositionGrows ==
    ASSUME GraphTypes, [Next]_vars, ~ JoinGroup
    PROVE  position \in Nat /\ position' \in Nat /\ position <= position'
<1>1. position \in Nat
  BY DEF GraphTypes, ConsumerTypeOK
<1>2. ConsumerTypeOK' /\ log' \in Seq(Message)
  BY HistoryStep
<1>3. position' \in Nat
  BY <1>2 DEF ConsumerTypeOK
<1>4. position' = position \/ position' = position + 1
  <2> USE DEF consumerVars
  <2>1. CASE \E message \in Message : Submit(message)
    BY <2>1 DEF Submit, Produce
  <2>2. CASE TakeMessage \/ PassOver \/ StoreObjRefs \/ PushSubs
    BY <2>2 DEF TakeMessage, Fetch, PassOver, StoreObjRefs, PushSubs, Handled
  <2>3. CASE DropMessage \/ AbandonMessage \/ CrashService \/ RestartRedis
    BY <2>3 DEF DropMessage, ConnectFailure, AbandonMessage, HandlerFailure, CrashService,
                Crash, RestartRedis, RedisRestart
  <2>4. CASE UNCHANGED graphVars
    BY <2>4 DEF graphVars
  <2>5. QED
    BY <2>1, <2>2, <2>3, <2>4, GraphCases
<1>5. QED
  BY <1>1, <1>3, <1>4

\* A search that a step leaves as it is does not lose its offset.
LEMMA AskedKept ==
    ASSUME TypeOK, [Next]_vars, NEW s \in Searcher, search[s].pc # "idle",
           search[s].asked <= position, search'[s] = search[s]
    PROVE  search[s].asked <= position'
<1>1. search[s] \in SearchType /\ GraphTypes
  BY CallOfSearcher, TypesOfGraph
<1>2. search[s].asked \in Nat
  BY <1>1 DEF SearchType
<1>3. CASE ~ JoinGroup
  BY <1>1, <1>2, <1>3, PositionGrows
<1>4. CASE JoinGroup
  <2>1. ConsumerTypeOK' /\ log' \in Seq(Message)
    BY <1>1, HistoryStep
  <2>2. position' \in Nat
    BY <2>1 DEF ConsumerTypeOK
  <2>3. ASSUME position' < search[s].asked PROVE FALSE
    <3>1. search'[s] = [search[s] EXCEPT !.asked = position']
      BY <1>4, <2>3 DEF JoinGroup
    <3>2. search'[s].asked = position'
      BY <1>1, <3>1 DEF SearchType
    <3>3. QED
      BY <1>2, <2>2, <2>3, <3>2
  <2>4. QED
    BY <1>2, <2>2, <2>3
<1>5. QED
  BY <1>3, <1>4

\* The references at an offset of the log stay.
LEMMA ReferencesKept ==
    ASSUME GraphTypes, [Next]_vars, NEW o \in Offsets
    PROVE  ReferencesAt(o)' = ReferencesAt(o)
<1>1. \A x \in Obj : ListAt(x, o)' = ListAt(x, o)
  BY ListAtKept
<1>2. \A x \in Obj : Added(ListAt(x, o))' = Added(ListAt(x, o))
  BY <1>1 DEF Added, Some
<1>3. QED
  BY <1>2 DEF ReferencesAt

\* What is pushed under a scan comes before the entries it has passed, and is
\* newer than the offset of the search.
LEMMA PassedKept ==
    ASSUME GraphTypes, [Next]_vars, ~ RestartRedis, NEW r \in RefID, NEW o \in Nat,
           NEW n \in Nat, n <= Len(subs[r]), o < position,
           \A j \in 1 .. n : subs[r][j].offset > o
    PROVE  \A j \in 1 .. n : subs'[r][j].offset > o
<1>1. subs[r] \in Seq(Entry) /\ Len(subs[r]) \in Nat /\ position \in Nat
  BY DEF GraphTypes, ConsumerTypeOK
<1>2. CASE subs' = subs
  BY <1>2
<1>3. ASSUME NEW q \in DOMAIN changed, PushOf(q)
      PROVE  \A j \in 1 .. n : subs'[r][j].offset > o
  <2>1. CASE r # q
    <3>1. subs'[r] = subs[r]
      BY <1>3, <2>1, PushEffect
    <3>2. QED
      BY <3>1
  <2>2. CASE r = q
    <3>1. PICK entry : entry = [offset |-> position, subs |-> changed[q]]
      OBVIOUS
    <3>2. entry \in Entry /\ subs'[q] = <<entry>> \o subs[q]
      BY <1>3, <3>1, PushEffect
    <3>3. /\ subs'[r][1] = entry /\ Len(subs'[r]) = Len(subs[r]) + 1
          /\ \A i \in DOMAIN subs[r] : subs'[r][i + 1] = subs[r][i]
      BY <1>1, <2>2, <3>2, PushedAhead
    <3>4. ASSUME NEW j \in 1 .. n PROVE subs'[r][j].offset > o
      <4>1. CASE j = 1
        BY <1>1, <3>1, <3>3, <4>1
      <4>2. CASE j # 1
        <5>1. PICK i \in 1 .. n : j = i + 1
          BY <4>2
        <5>2. i \in DOMAIN subs[r]
          BY <1>1
        <5>3. subs'[r][j] = subs[r][i]
          BY <3>3, <5>1, <5>2
        <5>4. QED
          BY <5>3
      <4>3. QED
        BY <4>1, <4>2
    <3>5. QED
      BY <3>4
  <2>3. QED
    BY <2>1, <2>2
<1>4. QED
  BY <1>2, <1>3, StepCases DEF PassOver, StoreObjRefs, redisVars

\* A search knows after any step of the others what it knew before: the log
\* and the lists only grow, unless Redis restarts.
LEMMA CallKept ==
    ASSUME GraphTypes, [Next]_vars, NEW call \in SearchType, CallInv(call),
           call.asked <= position', call.pc \in InProgress => ~ RestartRedis,
           call.pc = "scan" => call.next < call.len /\ call.len <= Len(subs[call.current])
    PROVE  CallInv(call)'
<1>1. /\ call.pc # "idle" /\ call.asked \in Nat /\ call.offset \in Nat
      /\ call.current \in RefID /\ call.next \in Nat /\ call.len \in Nat
  BY DEF SearchType, InProgress
<1>2. call.asked <= position /\ InOrder(call)
  BY <1>1 DEF CallInv
<1>3. (call.pc # "idle" => call.asked <= position /\ InOrder(call))'
  BY <1>2 DEF InOrder
<1>4. (call.pc \in InProgress => VisitedOnce(call))'
  BY DEF CallInv, VisitedOnce, Waiting, Owners
<1>5. ASSUME Undisturbed(call)' PROVE Undisturbed(call) /\ call.offset < call.asked
  BY <1>5, IntactKept DEF Undisturbed
<1>6. ASSUME Undisturbed(call)'
      PROVE  call.offset \in Offsets /\ call.offset < position
             /\ ReferencesAt(call.offset)' = ReferencesAt(call.offset)
  <2>1. position \in Nat /\ Len(log) \in Nat /\ position <= Len(log)
    BY DEF GraphTypes, ConsumerTypeOK
  <2>2. call.offset \in Offsets /\ call.offset < position
    BY <1>1, <1>2, <1>5, <1>6, <2>1 DEF Offsets
  <2>3. QED
    BY <2>2, ReferencesKept
<1>7. (call.pc \in InProgress /\ Undisturbed(call) => VisitedComplete(call))'
  <2>1. SUFFICES ASSUME call.pc \in InProgress, Undisturbed(call)'
                 PROVE  VisitedComplete(call)'
    BY DEF InProgress
  <2>2. VisitedComplete(call)
    BY <1>5, <2>1 DEF CallInv
  <2>3. (\A ref \in ReferencesAt(call.offset) :
             ref.other \in call.visited \ Waiting(call) => ref.owner \in call.visited)'
    BY <1>6, <2>1, <2>2 DEF VisitedComplete, Waiting
  <2>4. ASSUME call.pc = "scan"
        PROVE  \A j \in 1 .. call.next : subs'[call.current][j].offset > call.offset
    <3>1. Len(subs[call.current]) \in Nat
      BY <1>1 DEF GraphTypes
    <3>2. call.next <= Len(subs[call.current])
      BY <1>1, <2>4, <3>1
    <3>3. \A j \in 1 .. call.next : subs[call.current][j].offset > call.offset
      BY <2>2, <2>4 DEF VisitedComplete
    <3>4. QED
      BY <1>1, <1>6, <2>1, <3>2, <3>3, PassedKept
  <2>5. QED
    BY <2>3, <2>4 DEF VisitedComplete
<1>8. (call.pc = "done" /\ Undisturbed(call) =>
           Closed({call.from} \cup Owners(call.result), call.offset))'
  <2>1. SUFFICES ASSUME call.pc = "done", Undisturbed(call)'
                 PROVE  Closed({call.from} \cup Owners(call.result), call.offset)'
    OBVIOUS
  <2>2. Closed({call.from} \cup Owners(call.result), call.offset)
    BY <1>5, <2>1 DEF CallInv
  <2>3. QED
    BY <1>6, <2>1, <2>2 DEF Closed, Owners
<1>9. QED
  BY <1>3, <1>4, <1>7, <1>8 DEF CallInv

-----------------------------------------------------------------------------
(* What a search learns from its own steps *)

\* What refers to a RefID is found in the set of the offset.
LEMMA DependentFound ==
    ASSUME TypeOK, NoSubscriberMissing, NEW call \in SearchType,
           Undisturbed(call), call.asked <= position,
           NEW ref \in ReferencesAt(call.offset)
    PROVE  ref.owner \in SubsAt(ref.other, call.offset)
<1>1. /\ call.offset \in Nat /\ call.asked \in Nat /\ position \in Nat
      /\ call.offset < call.asked
  BY DEF SearchType, TypeOK, ConsumerTypeOK, Undisturbed
<1>2. call.offset \in 0 .. position - 1
  BY <1>1
<1>3. PICK x \in Obj : ref \in Added(ListAt(x, call.offset))
  BY DEF ReferencesAt
<1>4. Intact(x)
  BY DEF Undisturbed
<1>5. QED
  BY <1>2, <1>3, <1>4 DEF NoSubscriberMissing

\* A list without a set for the offset has no dependents there.
LEMMA NoSetNoDependent ==
    ASSUME TypeOK, NoSubscriberMissing, NEW call \in SearchType,
           Undisturbed(call), call.asked <= position, NEW r \in RefID,
           \A j \in 1 .. Len(subs[r]) : subs[r][j].offset > call.offset,
           NEW ref \in ReferencesAt(call.offset)
    PROVE  ref.other # r
<1>1. call.offset \in Nat /\ subs[r] \in Seq(Entry)
  BY DEF SearchType, TypeOK
<1>2. ASSUME NEW j \in DOMAIN subs[r], subs[r][j].offset <= call.offset PROVE FALSE
  <2>0. subs[r][j] \in Entry
    BY <1>1, <1>2
  <2>1. subs[r][j].offset \in Nat
    BY <2>0 DEF Entry
  <2>2. subs[r][j].offset > call.offset
    BY <1>1, <1>2
  <2>3. QED
    BY <1>1, <1>2, <2>1, <2>2
<1>3. SubsAt(r, call.offset) = {}
  BY <1>2 DEF SubsAt
<1>4. ref.owner \in SubsAt(ref.other, call.offset)
  BY DependentFound
<1>5. QED
  BY <1>3, <1>4

\* A new search has visited what it starts from.
LEMMA StartKnows ==
    ASSUME NEW r, NEW o, NEW after \in SearchType,
           after = [pc |-> "pop", from |-> r, offset |-> o, asked |-> position,
                    processing |-> <<r>>, visited |-> {r}, result |-> << >>,
                    current |-> r, len |-> 0, next |-> 0, shifted |-> FALSE],
           position \in Nat
    PROVE  CallInv(after)
<1>1. /\ after.pc = "pop" /\ after.from = r /\ after.asked = position
      /\ after.processing = <<r>> /\ after.visited = {r} /\ after.result = << >>
      /\ after.current = r
  OBVIOUS
<1>2. InOrder(after)
  BY <1>1 DEF InOrder
<1>3. Waiting(after) = {r}
  BY <1>1 DEF Waiting
<1>4. Owners(after.result) = {}
  BY <1>1 DEF Owners
<1>5. VisitedOnce(after)
  BY <1>1, <1>3, <1>4 DEF VisitedOnce
<1>6. VisitedComplete(after)
  BY <1>1, <1>3 DEF VisitedComplete
<1>7. QED
  BY <1>1, <1>2, <1>5, <1>6 DEF CallInv

\* A RefID taken from the queue is looked up, unless it has no list.
LEMMA PopKnows ==
    ASSUME TypeOK, NoSubscriberMissing, NEW s \in Searcher, PopRef(s), CallInv(search[s])
    PROVE  CallInv(search'[s])
<1>1. PICK call, after, r : call = search[s] /\ after = search'[s] /\ r = Head(call.processing)
  OBVIOUS
<1>2. /\ call \in SearchType /\ call.pc = "pop" /\ call.processing # << >>
      /\ r \in RefID /\ r = call.processing[1] /\ after \in SearchType
      /\ after.processing = Tail(call.processing)
      /\ after.current = r /\ after.len = Len(subs[r]) /\ after.next = 0
      /\ after.pc = IF Len(subs[r]) = 0 THEN "pop" ELSE "scan"
      /\ after.from = call.from /\ after.offset = call.offset
      /\ after.asked = call.asked /\ after.visited = call.visited
      /\ after.result = call.result /\ after.shifted = call.shifted
      /\ Len(subs[r]) \in Nat
  BY <1>1, PopEffect
<1>3. /\ call.asked <= position /\ InOrder(call) /\ VisitedOnce(call)
      /\ Undisturbed(call) => VisitedComplete(call)
  BY <1>1, <1>2 DEF CallInv, InProgress
<1>4. Undisturbed(after) <=> Undisturbed(call)
  BY <1>2 DEF Undisturbed
<1>5. InOrder(after)
  BY <1>2, <1>3 DEF InOrder
<1>6. /\ call.processing \in Seq(RefID)
      /\ Waiting(call) = {call.processing[n] : n \in DOMAIN call.processing}
      /\ r \in Waiting(call)
  BY <1>2 DEF SearchType, Waiting
<1>7. /\ \A v \in Waiting(after) : v \in Waiting(call)
      /\ \A v \in Waiting(call) : v # r => v \in Waiting(after)
      /\ Len(subs[r]) # 0 => r \in Waiting(after)
  <2>1. \A v : (\E n \in DOMAIN after.processing : v = after.processing[n])
                   => v \in Waiting(call)
    BY <1>2, <1>6
  <2>2. ASSUME NEW v \in Waiting(call), v # r
        PROVE  \E n \in DOMAIN after.processing : v = after.processing[n]
    <3>1. PICK n \in DOMAIN call.processing : v = call.processing[n]
      BY <1>6
    <3>2. n \in Nat /\ n > 1 /\ n <= Len(call.processing)
      BY <1>2, <1>6, <2>2, <3>1
    <3>3. n - 1 \in DOMAIN after.processing /\ after.processing[n - 1] = call.processing[n]
      BY <1>2, <1>6, <3>2
    <3>4. QED
      BY <3>1, <3>3
  <2>3. QED
    BY <1>2, <1>6, <2>1, <2>2 DEF Waiting
<1>8. VisitedOnce(after)
  BY <1>2, <1>3, <1>6, <1>7 DEF VisitedOnce
<1>9. ASSUME Undisturbed(call), NEW ref \in ReferencesAt(call.offset),
             ref.other \in call.visited \ Waiting(after)
      PROVE  ref.owner \in call.visited
  <2>1. VisitedComplete(call)
    BY <1>3, <1>9
  <2>2. CASE ref.other \notin Waiting(call)
    BY <1>9, <2>1, <2>2 DEF VisitedComplete
  <2>3. CASE ref.other \in Waiting(call)
    <3>1. ref.other = r /\ Len(subs[r]) = 0
      BY <1>7, <1>9, <2>3
    <3>2. \A j \in 1 .. Len(subs[r]) : subs[r][j].offset > call.offset
      BY <3>1
    <3>3. QED
      BY <1>2, <1>3, <1>9, <3>1, <3>2, NoSetNoDependent
  <2>4. QED
    BY <2>2, <2>3
<1>10. Undisturbed(call) => VisitedComplete(after)
  BY <1>2, <1>9 DEF VisitedComplete
<1>11. after.pc \in {"pop", "scan"}
  BY <1>2
<1>12. QED
  BY <1>1, <1>2, <1>3, <1>4, <1>5, <1>8, <1>10, <1>11 DEF CallInv

\* An entry that is too new is passed; the last one shows, if no set was
\* pushed meanwhile, that nothing refers to the RefID at the offset.
LEMMA MissKnows ==
    ASSUME TypeOK, NoSubscriberMissing, NEW s \in Searcher, NEW call, call = search[s],
           NEW after, NEW i, i = call.next + 1, MissOf(s, call, after, i), CallInv(call)
    PROVE  CallInv(after)
<1>1. call.pc = "scan" /\ subs[call.current][i].offset > call.offset
  BY DEF MissOf
<1>2. /\ call \in SearchType /\ call.current \in RefID
      /\ subs[call.current] \in Seq(Entry) /\ Len(subs[call.current]) \in Nat
      /\ i \in Nat /\ i <= call.len /\ call.len <= Len(subs[call.current])
      /\ call.len \in Nat /\ call.next \in Nat /\ call.shifted \in BOOLEAN
  <2>1. /\ call \in SearchType /\ call.current \in RefID
        /\ subs[call.current] \in Seq(Entry)
        /\ i \in Nat /\ i <= call.len /\ call.len <= Len(subs[call.current])
    BY <1>1, IndexThere
  <2>2. QED
    BY <2>1 DEF SearchType
<1>3. /\ after \in SearchType /\ after.next = i
      /\ after.pc = IF i = call.len THEN "pop" ELSE "scan"
      /\ after.shifted = (call.shifted \/ (i = call.len /\ call.len < Len(subs[call.current])))
      /\ after.from = call.from /\ after.offset = call.offset
      /\ after.asked = call.asked /\ after.visited = call.visited
      /\ after.result = call.result /\ after.processing = call.processing
      /\ after.current = call.current /\ after.len = call.len
  BY MissFields
<1>4. /\ call.asked <= position /\ InOrder(call) /\ VisitedOnce(call)
      /\ Undisturbed(call) => VisitedComplete(call)
  BY <1>1 DEF CallInv, InProgress
<1>5. Undisturbed(after) => Undisturbed(call)
  BY <1>3 DEF Undisturbed
<1>6. InOrder(after)
  BY <1>3, <1>4 DEF InOrder
<1>7. /\ \A v \in Waiting(after) : v \in Waiting(call)
      /\ \A v \in Waiting(call) : v # call.current => v \in Waiting(after)
      /\ i # call.len => call.current \in Waiting(after)
  BY <1>1, <1>3 DEF Waiting
<1>8. VisitedOnce(after)
  BY <1>3, <1>4, <1>7 DEF VisitedOnce
<1>9. ASSUME Undisturbed(after)
      PROVE  \A j \in 1 .. i : subs[call.current][j].offset > call.offset
  <2>1. \A j \in 1 .. call.next : subs[call.current][j].offset > call.offset
    BY <1>1, <1>4, <1>5, <1>9 DEF VisitedComplete
  <2>2. QED
    BY <1>1, <1>2, <2>1
<1>10. ASSUME Undisturbed(after), NEW ref \in ReferencesAt(call.offset),
              ref.other \in call.visited \ Waiting(after)
       PROVE  ref.owner \in call.visited
  <2>1. VisitedComplete(call)
    BY <1>4, <1>5, <1>10
  <2>2. CASE ref.other \notin Waiting(call)
    BY <1>10, <2>1, <2>2 DEF VisitedComplete
  <2>3. CASE ref.other \in Waiting(call)
    <3>1. ref.other = call.current /\ i = call.len
      BY <1>7, <1>10, <2>3
    <3>2. ~ (call.len < Len(subs[call.current]))
      BY <1>3, <1>10, <3>1 DEF Undisturbed
    <3>3. Len(subs[call.current]) = i
      BY <1>2, <3>1, <3>2
    <3>4. \A j \in 1 .. Len(subs[call.current]) : subs[call.current][j].offset > call.offset
      BY <1>9, <1>10, <3>3
    <3>5. QED
      BY <1>2, <1>4, <1>5, <1>10, <3>1, <3>4, NoSetNoDependent
  <2>4. QED
    BY <2>2, <2>3
<1>11. Undisturbed(after) => VisitedComplete(after)
  BY <1>3, <1>9, <1>10 DEF VisitedComplete
<1>12. after.pc \in {"pop", "scan"}
  BY <1>3
<1>13. QED
  BY <1>3, <1>4, <1>6, <1>8, <1>11, <1>12 DEF CallInv

\* A hit is the set of the offset: its subscribers are visited next.
LEMMA HitFound ==
    ASSUME TypeOK, NEW call \in SearchType, call.pc = "scan", call.current \in RefID,
           subs[call.current] \in Seq(Entry), NEW i, i = call.next + 1,
           i \in DOMAIN subs[call.current], subs[call.current][i].offset <= call.offset,
           VisitedComplete(call)
    PROVE  SubsAt(call.current, call.offset) = subs[call.current][i].subs
<1>1. call.offset \in Int /\ call.next \in Nat
  BY DEF SearchType
<1>2. \A j \in 1 .. i - 1 : subs[call.current][j].offset > call.offset
  BY <1>1 DEF VisitedComplete
<1>3. FirstHit(subs[call.current], call.offset, i)
  BY <1>2 DEF FirstHit
<1>4. QED
  BY <1>1, <1>3, SubsAtHit

\* Each subscriber is recorded once, after what it was reached from.
LEMMA VisitInOrder ==
    ASSUME NEW call \in SearchType, NEW found \in SUBSET RefID, NEW order, NEW after,
           Visited(call, found, order, after), VisitedFields(call, found, order, after),
           InOrder(call), VisitedOnce(call)
    PROVE  /\ InOrder(after)
           /\ Owners(after.result) = Owners(call.result) \cup (found \ call.visited)
<1> DEFINE len == Len(call.result)
           more == Len(order)
<1>1. /\ call.result \in Seq(Reference) /\ DOMAIN call.result = 1 .. len /\ len \in Nat
      /\ more \in Nat /\ DOMAIN order = 1 .. more
      /\ after.result \in Seq(Reference) /\ DOMAIN after.result = 1 .. len + more
      /\ after.from = call.from
  BY DEF SearchType, VisitedFields
<1>0. \A n \in 1 .. len + more :
          after.result[n] = IF n <= len THEN call.result[n]
                            ELSE [owner |-> order[n - len], other |-> call.current]
  BY DEF VisitedFields
<1>2. \A n \in 1 .. len : after.result[n] = call.result[n]
  <2> HIDE DEF len, more
  <2>1. SUFFICES ASSUME NEW n \in 1 .. len PROVE after.result[n] = call.result[n]
    OBVIOUS
  <2>2. n \in 1 .. len + more /\ n <= len
    BY <1>1
  <2> QED
    BY <1>0, <2>2
<1>3. \A n \in 1 .. len + more : n > len =>
          /\ after.result[n].owner = order[n - len] /\ after.result[n].other = call.current
          /\ n - len \in DOMAIN order
  <2> HIDE DEF len, more
  <2>1. len \in Nat /\ more \in Nat /\ DOMAIN order = 1 .. more
    BY <1>1
  <2>2. SUFFICES ASSUME NEW n \in 1 .. len + more, n > len
                 PROVE  /\ after.result[n].owner = order[n - len]
                        /\ after.result[n].other = call.current
                        /\ n - len \in DOMAIN order
    OBVIOUS
  <2>3. after.result[n] = [owner |-> order[n - len], other |-> call.current]
    BY <1>0, <2>1, <2>2
  <2> QED
    BY <2>1, <2>2, <2>3
<1>4. /\ \A n \in DOMAIN order : order[n] \in found \ call.visited
      /\ \A v \in found \ call.visited : \E n \in DOMAIN order : order[n] = v
      /\ \A m, n \in DOMAIN order : m # n => order[m] # order[n]
  BY DEF Visited
<1> HIDE DEF len, more
<1>5. call.visited = {call.from} \cup Owners(call.result) /\ call.current \in call.visited
  BY DEF VisitedOnce
<1>6. ASSUME NEW n \in 1 .. len
      PROVE  /\ after.result[n].other
                    \in {after.from} \cup {after.result[m].owner : m \in 1 .. n - 1}
             /\ \A m \in 1 .. n - 1 : after.result[m].owner # after.result[n].owner
  <2>1. n \in DOMAIN call.result /\ n \in Nat /\ \A m \in 1 .. n - 1 : m \in 1 .. len
    BY <1>1
  <2>2. /\ call.result[n].other
               \in {call.from} \cup {call.result[m].owner : m \in 1 .. n - 1}
        /\ \A m \in 1 .. n - 1 : call.result[m].owner # call.result[n].owner
    BY <2>1 DEF InOrder
  <2>3. QED
    BY <1>1, <1>2, <2>1, <2>2
<1>7. ASSUME NEW n \in 1 .. len + more, n > len
      PROVE  /\ after.result[n].other
                    \in {after.from} \cup {after.result[m].owner : m \in 1 .. n - 1}
             /\ \A m \in 1 .. n - 1 : after.result[m].owner # after.result[n].owner
  <2>1. n \in Nat /\ \A m \in 1 .. len : m \in 1 .. n - 1
    BY <1>1, <1>7
  <2>2. after.result[n].other = call.current /\ after.result[n].owner = order[n - len]
        /\ n - len \in DOMAIN order
    BY <1>3, <1>7
  <2>3. call.current \in {after.from} \cup {after.result[m].owner : m \in 1 .. n - 1}
    <3>1. CASE call.current = call.from
      BY <1>1, <3>1
    <3>2. CASE call.current \in Owners(call.result)
      <4>1. PICK m \in 1 .. len : call.current = call.result[m].owner
        BY <1>1, <3>2 DEF Owners
      <4>2. m \in 1 .. n - 1 /\ call.current = after.result[m].owner
        BY <1>2, <2>1, <4>1
      <4>3. QED
        BY <4>2
    <3>3. QED
      BY <1>5, <3>1, <3>2
  <2>4. ASSUME NEW m \in 1 .. n - 1
        PROVE  after.result[m].owner # order[n - len]
    <3>1. order[n - len] \notin call.visited
      BY <1>4, <2>2
    <3>2. CASE m <= len
      <4>1. m \in 1 .. len
        BY <1>1, <3>2
      <4>2. after.result[m].owner \in Owners(call.result)
        BY <1>1, <1>2, <4>1 DEF Owners
      <4>3. QED
        BY <1>5, <3>1, <4>2
    <3>3. CASE m > len
      <4>1. m \in 1 .. len + more /\ m - len # n - len
        BY <1>1, <2>1
      <4>2. after.result[m].owner = order[m - len] /\ m - len \in DOMAIN order
        BY <1>3, <3>3, <4>1
      <4>3. QED
        BY <1>4, <2>2, <4>1, <4>2
    <3>4. QED
      BY <1>1, <3>2, <3>3
  <2>5. QED
    BY <2>2, <2>3, <2>4
<1>8. InOrder(after)
  <2>1. ASSUME NEW n \in DOMAIN after.result PROVE n \in 1 .. len \/ (n \in 1 .. len + more /\ n > len)
    BY <1>1
  <2>2. QED
    BY <1>6, <1>7, <2>1 DEF InOrder
<1>9. Owners(after.result) = Owners(call.result) \cup (found \ call.visited)
  <2>1. ASSUME NEW v \in Owners(after.result)
        PROVE  v \in Owners(call.result) \cup (found \ call.visited)
    <3>1. PICK n \in 1 .. len + more : v = after.result[n].owner
      BY <1>1 DEF Owners
    <3>2. CASE n \in 1 .. len
      BY <1>1, <1>2, <3>1, <3>2 DEF Owners
    <3>3. CASE n > len
      BY <1>3, <1>4, <3>1, <3>3
    <3>4. QED
      BY <1>1, <3>2, <3>3
  <2>2. ASSUME NEW v \in Owners(call.result) PROVE v \in Owners(after.result)
    <3>1. PICK n \in 1 .. len : v = call.result[n].owner
      BY <1>1 DEF Owners
    <3>2. n \in DOMAIN after.result /\ v = after.result[n].owner
      BY <1>1, <1>2, <3>1
    <3>3. QED
      BY <3>2 DEF Owners
  <2>3. ASSUME NEW v \in found \ call.visited PROVE v \in Owners(after.result)
    <3>1. PICK k \in 1 .. more : v = order[k]
      BY <1>1, <1>4
    <3>2. len + k \in 1 .. len + more /\ len + k > len /\ (len + k) - len = k
      BY <1>1
    <3>3. after.result[len + k].owner = v
      BY <1>3, <3>1, <3>2
    <3>4. QED
      BY <1>1, <3>2, <3>3 DEF Owners
  <2>4. QED
    BY <2>1, <2>2, <2>3
<1>10. QED
  BY <1>8, <1>9

\* What is still to look up after a visit.
LEMMA VisitWaiting ==
    ASSUME NEW call \in SearchType, NEW found \in SUBSET RefID, NEW order, NEW after,
           Visited(call, found, order, after), VisitedFields(call, found, order, after)
    PROVE  /\ \A v \in Waiting(after) : v \in Waiting(call) \cup (found \ call.visited)
           /\ \A v \in Waiting(call) : v # call.current => v \in Waiting(after)
           /\ found \ call.visited \subseteq Waiting(after)
<1> DEFINE len == Len(call.processing)
           more == Len(order)
<1>1. /\ DOMAIN call.processing = 1 .. len /\ len \in Nat
      /\ more \in Nat /\ DOMAIN order = 1 .. more
      /\ DOMAIN after.processing = 1 .. len + more
      /\ after.pc = "pop"
  BY DEF SearchType, VisitedFields
<1>0. \A n \in 1 .. len + more :
          after.processing[n] = IF n <= len THEN call.processing[n] ELSE order[n - len]
  BY DEF VisitedFields
<1>2. \A n \in 1 .. len : after.processing[n] = call.processing[n]
  <2> HIDE DEF len, more
  <2> QED
    BY <1>0, <1>1
<1>3. \A n \in 1 .. len + more : n > len =>
          after.processing[n] = order[n - len] /\ n - len \in DOMAIN order
  <2> HIDE DEF len, more
  <2> QED
    BY <1>0, <1>1
<1>4. /\ \A n \in DOMAIN order : order[n] \in found \ call.visited
      /\ \A v \in found \ call.visited : \E n \in DOMAIN order : order[n] = v
  BY DEF Visited
<1> HIDE DEF len, more
<1>5. Waiting(after) = {after.processing[n] : n \in 1 .. len + more}
  BY <1>1 DEF Waiting
<1>6. ASSUME NEW v \in Waiting(after) PROVE v \in Waiting(call) \cup (found \ call.visited)
  <2>1. PICK n \in 1 .. len + more : v = after.processing[n]
    BY <1>5
  <2>2. CASE n \in 1 .. len
    BY <1>1, <1>2, <2>1, <2>2 DEF Waiting
  <2>3. CASE n > len
    BY <1>3, <1>4, <2>1, <2>3
  <2>4. QED
    BY <1>1, <2>2, <2>3
<1>7. ASSUME NEW v \in Waiting(call), v # call.current PROVE v \in Waiting(after)
  <2>1. PICK n \in 1 .. len : v = call.processing[n]
    BY <1>1, <1>7 DEF Waiting
  <2>2. n \in 1 .. len + more /\ v = after.processing[n]
    BY <1>1, <1>2, <2>1
  <2>3. QED
    BY <1>5, <2>2
<1>8. ASSUME NEW v \in found \ call.visited PROVE v \in Waiting(after)
  <2>1. PICK k \in 1 .. more : v = order[k]
    BY <1>1, <1>4
  <2>2. len + k \in 1 .. len + more /\ len + k > len /\ (len + k) - len = k
    BY <1>1
  <2>3. after.processing[len + k] = v
    BY <1>3, <2>1, <2>2
  <2>4. QED
    BY <1>5, <2>2, <2>3
<1>9. QED
  BY <1>6, <1>7, <1>8

\* A hit completes what is known of the RefID that was looked up.
LEMMA HitKnows ==
    ASSUME TypeOK, NoSubscriberMissing, NEW s \in Searcher, NEW call, call = search[s],
           NEW after, NEW i, i = call.next + 1, HitOf(s, call, after, i), CallInv(call)
    PROVE  CallInv(after)
<1>1. call.pc = "scan" /\ subs[call.current][i].offset <= call.offset
  BY DEF HitOf
<1>2. /\ call \in SearchType /\ call.current \in RefID
      /\ subs[call.current] \in Seq(Entry)
      /\ i \in DOMAIN subs[call.current] /\ subs[call.current][i] \in Entry
  BY <1>1, IndexThere
<1>3. PICK found \in SUBSET RefID : found = subs[call.current][i].subs
  BY <1>2 DEF Entry
<1>4. PICK order : Visited(call, found, order, after)
  BY <1>3, VisitOrder DEF HitOf
<1>5. VisitedFields(call, found, order, after)
  BY <1>2, <1>4, VisitEffect
<1>6. /\ after \in SearchType /\ after.pc = "pop"
      /\ after.from = call.from /\ after.offset = call.offset
      /\ after.asked = call.asked /\ after.current = call.current
      /\ after.shifted = call.shifted /\ after.visited = call.visited \cup found
  BY <1>5 DEF VisitedFields
<1>7. /\ call.asked <= position /\ InOrder(call) /\ VisitedOnce(call)
      /\ Undisturbed(call) => VisitedComplete(call)
  BY <1>1 DEF CallInv, InProgress
<1>8. Undisturbed(after) <=> Undisturbed(call)
  BY <1>6 DEF Undisturbed
<1>9. /\ InOrder(after)
      /\ Owners(after.result) = Owners(call.result) \cup (found \ call.visited)
  BY <1>2, <1>4, <1>5, <1>7, VisitInOrder
<1>10. /\ \A v \in Waiting(after) : v \in Waiting(call) \cup (found \ call.visited)
       /\ \A v \in Waiting(call) : v # call.current => v \in Waiting(after)
       /\ found \ call.visited \subseteq Waiting(after)
  BY <1>2, <1>4, <1>5, VisitWaiting
<1>11. VisitedOnce(after)
  BY <1>6, <1>7, <1>9, <1>10 DEF VisitedOnce
<1>12. ASSUME Undisturbed(call), NEW ref \in ReferencesAt(call.offset),
              ref.other \in after.visited \ Waiting(after)
       PROVE  ref.owner \in after.visited
  <2>1. VisitedComplete(call)
    BY <1>7, <1>12
  <2>2. CASE ref.other # call.current
    <3>1. ref.other \in call.visited \ Waiting(call)
      BY <1>6, <1>10, <1>12, <2>2
    <3>2. ref.owner \in call.visited
      BY <1>12, <2>1, <3>1 DEF VisitedComplete
    <3>3. QED
      BY <1>6, <3>2
  <2>3. CASE ref.other = call.current
    <3>1. ref.owner \in SubsAt(ref.other, call.offset)
      BY <1>2, <1>7, <1>12, DependentFound
    <3>2. SubsAt(call.current, call.offset) = found
      BY <1>1, <1>2, <1>3, <2>1, HitFound
    <3>3. QED
      BY <1>6, <2>3, <3>1, <3>2
  <2>4. QED
    BY <2>2, <2>3
<1>13. Undisturbed(call) => VisitedComplete(after)
  BY <1>6, <1>12 DEF VisitedComplete
<1>14. QED
  BY <1>6, <1>7, <1>8, <1>9, <1>11, <1>13 DEF CallInv

\* When nothing waits, what was visited is closed under what refers to it.
LEMMA FinishKnows ==
    ASSUME TypeOK, NEW s \in Searcher, FinishSearch(s), CallInv(search[s])
    PROVE  CallInv(search'[s])
<1>1. PICK call, after : call = search[s] /\ after = search'[s]
  OBVIOUS
<1>2. /\ call \in SearchType /\ call.pc = "pop" /\ call.processing = << >>
      /\ after \in SearchType
      /\ after.pc = "done" /\ after.from = call.from /\ after.offset = call.offset
      /\ after.asked = call.asked /\ after.result = call.result
      /\ after.shifted = call.shifted
  BY <1>1, FinishEffect
<1>3. /\ call.asked <= position /\ InOrder(call) /\ VisitedOnce(call)
      /\ Undisturbed(call) => VisitedComplete(call)
  BY <1>1, <1>2 DEF CallInv, InProgress
<1>4. InOrder(after) /\ (Undisturbed(after) <=> Undisturbed(call))
  BY <1>2, <1>3 DEF InOrder, Undisturbed
<1>5. Waiting(call) = {}
  BY <1>2 DEF Waiting
<1>6. Undisturbed(call) => Closed({after.from} \cup Owners(after.result), after.offset)
  BY <1>2, <1>3, <1>5 DEF VisitedOnce, VisitedComplete, Closed
<1>7. QED
  BY <1>1, <1>2, <1>3, <1>4, <1>6 DEF CallInv, InProgress

-----------------------------------------------------------------------------
(* Theorems *)

\* A call that does not search knows nothing.
LEMMA IdleKnows == CallInv(Idle) /\ CallInv(Idle)'
<1>1. Idle.pc = "idle" /\ "idle" \notin InProgress
  BY DEF Idle, InProgress
<1>2. QED
  BY <1>1 DEF CallInv, Idle, InProgress

\* A search that fails has no answer.
LEMMA FailedKnows ==
    ASSUME TypeOK, [Next]_vars, RestartRedis, NEW call \in SearchType,
           call.pc \in InProgress, CallInv(call), NEW after, after = Answer("error", call)
    PROVE  CallInv(after)'
<1>1. after \in SearchType /\ after.pc = "error" /\ after.asked = call.asked
      /\ after.result = IF "error" = "done" THEN call.result ELSE << >>
  BY AnswerFields
<1>2. after.asked \in Nat /\ after.asked <= position
  BY <1>1 DEF CallInv, InProgress, SearchType
<1>3. CASE ~ JoinGroup
  <2>1. after.asked <= position'
    <3>1. position \in Nat /\ position' \in Nat /\ position <= position'
      BY <1>3, PositionGrows, TypesOfGraph
    <3>2. QED
      BY <1>2, <3>1
  <2>2. InOrder(after)
    BY <1>1 DEF InOrder
  <2>3. QED
    BY <1>1, <2>1, <2>2 DEF CallInv, InOrder, InProgress
<1>4. CASE JoinGroup
  BY <1>4 DEF JoinGroup, Join, RestartRedis, RedisRestart, Fault, TypeOK,
       ConsumerTypeOK
<1>5. QED
  BY <1>3, <1>4

\* A search over which the consumer rejoined further back knows as much, of
\* fewer offsets.
LEMMA RejoinKnows ==
    ASSUME GraphTypes, [Next]_vars, NEW call \in SearchType, CallInv(call), NEW after,
           Rejoined(call, after),
           call.pc = "scan" => call.next < call.len /\ call.len <= Len(subs[call.current])
    PROVE  CallInv(after)'
<1>1. /\ after \in SearchType /\ after.asked = position' /\ after.pc = call.pc
      /\ after.from = call.from /\ after.offset = call.offset
      /\ after.processing = call.processing /\ after.visited = call.visited
      /\ after.result = call.result /\ after.current = call.current
      /\ after.len = call.len /\ after.next = call.next /\ after.shifted = call.shifted
  BY RejoinFields DEF Rejoined
<1>2. /\ call.asked \in Nat /\ after.asked \in Nat /\ call.offset \in Nat
      /\ after.asked < call.asked /\ position \in Nat /\ call.asked <= position
  <2>1. call.asked \in Nat /\ call.offset \in Nat /\ call.pc # "idle"
    BY DEF SearchType, InProgress
  <2>2. after.asked \in Nat
    BY <1>1 DEF SearchType
  <2>3. position \in Nat /\ call.asked <= position
    BY <2>1 DEF CallInv, GraphTypes, ConsumerTypeOK
  <2>4. after.asked < call.asked
    BY <1>1 DEF Rejoined
  <2>5. QED
    BY <2>1, <2>2, <2>3, <2>4
<1>3. Undisturbed(after) => Undisturbed(call)
  BY <1>1, <1>2 DEF Undisturbed
<1>4. InOrder(after) <=> InOrder(call)
  BY <1>1 DEF InOrder
<1>5. VisitedOnce(after) <=> VisitedOnce(call)
  BY <1>1 DEF VisitedOnce, Waiting
<1>6. VisitedComplete(after) <=> VisitedComplete(call)
  BY <1>1 DEF VisitedComplete, Waiting
<1>7. CallInv(after)
  BY <1>1, <1>2, <1>3, <1>4, <1>5, <1>6 DEF CallInv
<1>8. after.asked <= position'
  BY <1>1, <1>2
<1>9. QED
  BY <1>1, <1>7, <1>8, CallKept DEF Rejoined

\* A search's own step.
LEMMA StepKnows ==
    ASSUME TypeOK, NoSubscriberMissing, [Next]_vars, NEW s \in Searcher, Stepped(s),
           CallInv(search[s])
    PROVE  CallInv(search'[s])
<1>1. DOMAIN search = Searcher
  BY DEF TypeOK
<1>2. CASE PopRef(s)
  BY <1>2, PopKnows
<1>3. CASE ReadIndex(s)
  <2>1. PICK call, i : call = search[s] /\ i = call.next + 1
    OBVIOUS
  <2>2. PICK after : HitOf(s, call, after, i) \/ MissOf(s, call, after, i)
    BY <1>3, <2>1, ReadIndexCases
  <2>3. search'[s] = after
    BY <1>1, <2>2 DEF HitOf, MissOf
  <2>4. CallInv(after)
    BY <2>1, <2>2, HitKnows, MissKnows
  <2>5. QED
    BY <2>3, <2>4
<1>4. CASE FinishSearch(s)
  BY <1>4, FinishKnows
<1>5. ASSUME NEW r \in Searched, NEW o \in 0 .. MaxLog - 1, StartSearch(s, r, o)
      PROVE  CallInv(search'[s])
  <2>1. PICK after : after = search'[s]
    OBVIOUS
  <2>2. /\ after \in SearchType
        /\ after = [pc |-> "pop", from |-> r, offset |-> o, asked |-> position,
                    processing |-> <<r>>, visited |-> {r}, result |-> << >>,
                    current |-> r, len |-> 0, next |-> 0, shifted |-> FALSE]
    BY <1>5, <2>1, StartEffect
  <2>3. position \in Nat
    BY DEF TypeOK, ConsumerTypeOK
  <2>4. CallInv(after)
    BY <2>2, <2>3, StartKnows
  <2>5. QED
    BY <2>1, <2>4
<1>6. QED
  BY <1>2, <1>3, <1>4, <1>5 DEF Stepped

\* Every step keeps what each search knows.
LEMMA CallStep ==
    ASSUME TypeOK, NoSubscriberMissing, [Next]_vars, NEW s \in Searcher, CallInv(search[s]),
           NEW after, after = search'[s]
    PROVE  CallInv(after)'
<1>1. GraphTypes /\ search[s] \in {Idle} \cup SearchType
  BY TypesOfGraph DEF TypeOK
<1>2. PICK call : call = search[s]
  OBVIOUS
<1>3. call.pc = "scan" => call.next < call.len /\ call.len <= Len(subs[call.current])
  BY <1>2 DEF TypeOK, InBounds
<1>4. CASE Kept(call, after)
  <2>1. CASE call = Idle
    BY <1>4, <2>1, IdleKnows DEF Kept
  <2>2. CASE call \in SearchType
    <3>1. call.pc # "idle" /\ after = call
      BY <1>4, <2>2 DEF SearchType, InProgress, Kept
    <3>2. call.asked <= position
      BY <1>2, <3>1 DEF CallInv
    <3>3. call.asked <= position'
      BY <1>2, <3>1, <3>2, AskedKept
    <3>4. CallInv(call) /\ (call.pc \in InProgress => ~ RestartRedis)
      BY <1>2, <1>4 DEF Kept
    <3>5. CallInv(call)'
      BY <1>1, <1>3, <2>2, <3>3, <3>4, CallKept
    <3>6. QED
      BY <3>1, <3>5
  <2>3. QED
    BY <1>1, <1>2, <2>1, <2>2
<1>5. CASE Rejoined(call, after)
  <2>1. call \in SearchType /\ CallInv(call)
    BY <1>1, <1>2, <1>5 DEF Rejoined, Idle
  <2>2. QED
    BY <1>1, <1>3, <1>5, <2>1, RejoinKnows
<1>6. CASE after = Idle
  BY <1>6, IdleKnows
<1>7. CASE Failed(call, after)
  <2>1. call \in SearchType /\ CallInv(call)
    BY <1>1, <1>2, <1>7 DEF Failed, Idle, InProgress
  <2>2. QED
    BY <1>7, <2>1, FailedKnows DEF Failed
<1>8. CASE Stepped(s)
  <2>1. CallInv(after)
    BY <1>8, StepKnows
  <2>2. /\ after \in SearchType
        /\ after.pc = "scan" => after.next < after.len
                                /\ after.len <= Len(subs[after.current])
    BY <1>8, SteppedType
  <2>3. position' = position /\ ~ RestartRedis
    BY <1>8 DEF Stepped, graphVars, consumerVars
  <2>4. after.pc # "idle"
    BY <2>2 DEF SearchType, InProgress
  <2>5. after.asked <= position'
    BY <2>1, <2>3, <2>4 DEF CallInv
  <2>6. QED
    BY <1>1, <2>1, <2>2, <2>3, <2>5, CallKept
<1>9. QED
  BY <1>2, <1>4, <1>5, <1>6, <1>7, <1>8, CallCases

\* Every step preserves the invariant of the searches.
LEMMA SearchInvStep ==
    ASSUME TypeOK, NoSubscriberMissing, SearchInv, [Next]_vars
    PROVE  SearchInv'
<1>1. ASSUME NEW s \in Searcher PROVE CallInv(search[s])'
  <2>1. PICK after : after = search'[s]
    OBVIOUS
  <2>2. CallInv(after)'
    BY <2>1, CallStep DEF SearchInv
  <2>3. QED
    BY <2>1, <2>2
<1>2. QED
  BY <1>1 DEF SearchInv

\* Between any two round trips a search has visited what it must and has
\* still to look up the rest, whatever other searches and the consumer do.
THEOREM SearchInductive == Spec => []SearchInv
<1>1. Init => SearchInv
  BY IdleKnows DEF Init, SearchInv
<1>2. TypeOK /\ NoSubscriberMissing /\ SearchInv /\ [Next]_vars => SearchInv'
  BY SearchInvStep
<1>3. QED
  BY <1>1, <1>2, SearchTypeCorrect, NobodyIsMissed, PTL DEF Spec

\* A search at an offset the consumer was past all along answers with every
\* piece that depends on the RefID, directly or not, each once and after what
\* it depends on, whatever cycles the references have.
THEOREM AnswersAreComplete == Spec => []SearchComplete
<1>1. ASSUME TypeOK, SearchInv PROVE SearchComplete
  <2>1. SUFFICES ASSUME NEW s \in Searcher, NEW call, call = search[s], call.pc = "done"
                 PROVE  /\ InOrder(call)
                        /\ Undisturbed(call) =>
                              Reachable(call.from, call.offset)
                                  \subseteq Owners(call.result) \cup {call.from}
    BY DEF SearchComplete
  <2>2. call \in SearchType /\ CallInv(call)
    BY <1>1, <2>1, CallOfSearcher DEF SearchInv
  <2>3. InOrder(call)
    BY <2>1, <2>2 DEF CallInv
  <2>4. ASSUME Undisturbed(call), NEW v \in Reachable(call.from, call.offset)
        PROVE  v \in Owners(call.result) \cup {call.from}
    <3>1. PICK S : S = {call.from} \cup Owners(call.result)
      OBVIOUS
    <3>2. call.from \in RefID /\ call.result \in Seq(Reference)
      BY <2>2 DEF SearchType
    <3>3. S \in SUBSET RefID
      <4>1. \A n \in DOMAIN call.result : call.result[n] \in Reference
        BY <3>2
      <4>2. \A n \in DOMAIN call.result : call.result[n].owner \in RefID
        BY <4>1 DEF Reference
      <4>3. QED
        BY <3>1, <3>2, <4>2 DEF Owners
    <3>4. call.from \in S /\ Closed(S, call.offset)
      BY <2>1, <2>2, <2>4, <3>1 DEF CallInv
    <3>5. v \in S
      BY <2>4, <3>3, <3>4 DEF Reachable
    <3>6. QED
      BY <3>1, <3>5
  <2>5. QED
    BY <2>3, <2>4
<1>2. TypeOK /\ SearchInv => SearchComplete
  BY <1>1
<1>3. QED
  BY <1>2, SearchTypeCorrect, SearchInductive, PTL
=============================================================================
