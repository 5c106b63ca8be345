---------------------------- MODULE FileViewProofs ----------------------------
(***************************************************************************)
(* Theorems about what a client sees of a file, for any objects, length of *)
(* the log, and number and kinds of faults of representations and of       *)
(* rep_cache, and of api's calls of it.                                    *)
(*                                                                         *)
(* The argument: ViewInv is inductive.  A representation sent again after  *)
(* a stop is followed by those of the later changes once more, so after    *)
(* the representation of a handled change there is none of an older one    *)
(* (RepsInOrder), and rep_cache, which takes them in order, has the last   *)
(* of each object once it is past it (CacheHolds).  What updates took      *)
(* since the subscription, and what api read, is on its way to the client  *)
(* or was shown (PushedArrive, ReadArrive): at rest it was shown.          *)
(***************************************************************************)
EXTENDS FileView, WellFoundedInduction, TLAPS

-----------------------------------------------------------------------------
(* Sequences and numbers *)

\* A sequence of elements of a set is one of a larger set.
LEMMA SeqGrows ==
    ASSUME NEW S, NEW T, S \subseteq T, NEW s \in Seq(S)
    PROVE  s \in Seq(T)
  OBVIOUS

\* What a list is after an element was added at its end.
LEMMA AppendedProperties ==
    ASSUME NEW T, NEW list \in Seq(T), NEW e \in T
    PROVE  /\ Append(list, e) \in Seq(T)
           /\ Len(Append(list, e)) = Len(list) + 1
           /\ Append(list, e)[Len(list) + 1] = e
           /\ \A i \in 1 .. Len(list) : Append(list, e)[i] = list[i]
  OBVIOUS

\* The last of an extended list is what it was extended by.
LEMMA LastAppended ==
    ASSUME NEW T, NEW list \in Seq(T), NEW e \in T
    PROVE  Append(list, e) # << >> /\ Last(Append(list, e)) = e
<1>1. /\ Append(list, e) \in Seq(T) /\ Len(Append(list, e)) = Len(list) + 1
      /\ Append(list, e)[Len(list) + 1] = e /\ Len(list) \in Nat
  BY AppendedProperties
<1>2. Append(list, e) # << >>
  BY <1>1
<1>3. QED
  BY <1>1, <1>2 DEF Last

\* What is in a list is in the longer list, and so is what was added.
LEMMA ToSetAppended ==
    ASSUME NEW T, NEW list \in Seq(T), NEW e \in T
    PROVE  ToSet(Append(list, e)) = ToSet(list) \cup {e}
<1>1. /\ Len(Append(list, e)) = Len(list) + 1 /\ Len(list) \in Nat
      /\ Append(list, e) \in Seq(T)
      /\ Append(list, e)[Len(list) + 1] = e
      /\ \A i \in 1 .. Len(list) : Append(list, e)[i] = list[i]
  BY AppendedProperties
<1>2. DOMAIN Append(list, e) = 1 .. Len(list) + 1 /\ DOMAIN list = 1 .. Len(list)
  BY <1>1
<1>3. \A i : i \in 1 .. Len(list) + 1 <=> i \in 1 .. Len(list) \/ i = Len(list) + 1
  BY <1>1
<1>4. QED
  BY <1>1, <1>2, <1>3 DEF ToSet

\* What is in a list is its first element or in the rest of it.
LEMMA ToSetOfTail ==
    ASSUME NEW T, NEW list \in Seq(T), list # << >>
    PROVE  /\ Tail(list) \in Seq(T) /\ Head(list) \in T
           /\ ToSet(list) \subseteq {Head(list)} \cup ToSet(Tail(list))
<1>1. /\ Tail(list) \in Seq(T) /\ Head(list) \in T /\ Head(list) = list[1]
      /\ Len(Tail(list)) = Len(list) - 1 /\ Len(list) \in Nat
      /\ \A i \in 1 .. Len(list) - 1 : Tail(list)[i] = list[i + 1]
  OBVIOUS
<1>2. DOMAIN list = 1 .. Len(list) /\ DOMAIN Tail(list) = 1 .. Len(list) - 1
  BY <1>1
<1>3. ASSUME NEW i \in DOMAIN list PROVE list[i] = Head(list) \/ list[i] \in ToSet(Tail(list))
  <2>1. CASE i = 1
    BY <1>1, <2>1
  <2>2. CASE i # 1
    <3>1. i - 1 \in 1 .. Len(list) - 1 /\ (i - 1) + 1 = i
      BY <1>1, <1>2, <2>2
    <3>2. Tail(list)[i - 1] = list[i]
      BY <1>1, <3>1
    <3>3. QED
      BY <1>2, <3>1, <3>2 DEF ToSet
  <2>3. QED
    BY <2>1, <2>2
<1>4. QED
  BY <1>1, <1>3 DEF ToSet

\* Numbers up to a bound lie below any larger one.
LEMMA RangeBelow ==
    ASSUME NEW a \in Nat, NEW b \in Nat, NEW n \in Nat, b <= n
    PROVE  a .. b - 1 \subseteq 0 .. n - 1
  OBVIOUS

\* A bounded set of numbers has a greatest one.
LEMMA GreatestExists ==
    ASSUME NEW I \in SUBSET Nat, I # {}, NEW b \in Nat, \A i \in I : i <= b
    PROVE  \E i \in I : \A j \in I : j <= i
<1> DEFINE J == {b - i : i \in I}
           R == {ss \in Nat \X Nat : ss[1] < ss[2]}
<1>1. J \in SUBSET Nat /\ J # {}
  <2>1. ASSUME NEW i \in I PROVE b - i \in Nat
    <3>1. i \in Nat /\ i <= b
      OBVIOUS
    <3>2. QED
      BY <3>1
  <2>2. PICK i \in I : TRUE
    OBVIOUS
  <2>3. QED
    BY <2>1, <2>2
<1>2. IsWellFoundedOn(R, Nat)
  <2>1. OpToRel(<, Nat) = R
    BY Zenon DEF OpToRel
  <2>2. QED
    BY Zenon, <2>1, NatLessThanWellFounded
<1>3. PICK d \in J : \A e \in J : ~ (<<e, d>> \in R)
  <2> HIDE DEF J, R
  <2> QED
    BY <1>1, <1>2, WFMin
<1>4. PICK i \in I : d = b - i
  BY <1>3
<1>5. ASSUME NEW j \in I PROVE j <= i
  <2>1. b - j \in J /\ b - j \in Nat /\ d \in Nat
    BY <1>1, <1>3
  <2>2. <<b - j, d>> \in Nat \X Nat /\ ~ (<<b - j, d>>[1] < <<b - j, d>>[2])
    BY <1>3, <2>1
  <2>3. ~ (b - j < d)
    BY <2>2
  <2>4. i \in Nat /\ j \in Nat
    OBVIOUS
  <2>5. QED
    BY <1>4, <2>1, <2>3, <2>4
<1>6. QED
  BY <1>5

\* Max is the greatest of a bounded set of numbers.
LEMMA MaxProperties ==
    ASSUME NEW I \in SUBSET Nat, I # {}, NEW b \in Nat, \A i \in I : i <= b
    PROVE  Max(I) \in I /\ \A i \in I : i <= Max(I)
<1>1. PICK i \in I : \A j \in I : j <= i
  BY GreatestExists
<1>2. \A j \in I : i >= j
  BY <1>1
<1>3. Max(I) \in I /\ \A j \in I : Max(I) >= j
  BY <1>2 DEF Max
<1>4. \A j \in I : j \in Nat
  OBVIOUS
<1>5. QED
  BY <1>3, <1>4

-----------------------------------------------------------------------------
(* Steps *)

\* Every message is of an object.
LEMMA MessagesTyped ==
    ASSUME TypeOK, NEW k \in Offsets
    PROVE  IdOf(k) \in Obj /\ MessageAt(k) \in Message /\ k \in Nat
<1>1. log \in Seq(Message) /\ Len(log) \in Nat
  BY DEF TypeOK
<1>2. k + 1 \in 1 .. Len(log) /\ k \in Nat
  BY <1>1 DEF Offsets
<1>3. log[k + 1] \in Message
  BY <1>1, <1>2
<1>4. QED
  BY <1>2, <1>3 DEF IdOf, MessageAt, Message

\* The messages there are stay what they are.
LogKept == Offsets \subseteq Offsets' /\ \A k \in Offsets : MessageAt(k)' = MessageAt(k)

\* A topic that does not change, or one to which a message is added.
LEMMA LogGrows ==
    ASSUME TypeOK, log' = log \/ \E message \in Message : log' = Append(log, message)
    PROVE  LogKept /\ log' \in Seq(Message) /\ Len(log') >= Len(log) /\ Len(log') \in Nat
<1>1. log \in Seq(Message) /\ Len(log) \in Nat
  BY DEF TypeOK
<1>2. CASE log' = log
  BY <1>1, <1>2 DEF LogKept, Offsets, MessageAt
<1>3. CASE \E message \in Message : log' = Append(log, message)
  <2>1. PICK message \in Message : log' = Append(log, message)
    BY <1>3
  <2>2. /\ log' \in Seq(Message) /\ Len(log') = Len(log) + 1
        /\ \A i \in 1 .. Len(log) : log'[i] = log[i]
    BY <1>1, <2>1, AppendedProperties
  <2>3. \A k \in Offsets : k + 1 \in 1 .. Len(log)
    BY <1>1 DEF Offsets
  <2>4. Offsets \subseteq Offsets'
    BY <1>1, <2>2 DEF Offsets
  <2>5. QED
    BY <1>1, <2>2, <2>3, <2>4 DEF LogKept, MessageAt
<1>4. QED
  BY <1>2, <1>3

\* The representations there are stay what they are.
RepsKept ==
    \/ reps' = reps
    \/ reps' = Append(reps, position) /\ position \in Offsets /\ log' = log

\* A topic of representations keeps its elements and their types as it grows.
LEMMA RepsGrow ==
    ASSUME TypeOK, LogKept, RepsKept
    PROVE  /\ reps' \in Seq(Offsets') /\ Len(reps) \in Nat /\ Len(reps') \in Nat
           /\ Len(reps') >= Len(reps)
           /\ \A n \in 1 .. Len(reps) : reps'[n] = reps[n] /\ reps[n] \in Offsets
<1>1. reps \in Seq(Offsets)
  BY DEF TypeOK
<1>2. CASE reps' = reps
  BY <1>1, <1>2, SeqGrows DEF LogKept
<1>3. CASE reps' = Append(reps, position) /\ position \in Offsets /\ log' = log
  <2>1. Offsets' = Offsets
    BY <1>3 DEF Offsets
  <2>2. QED
    BY <1>1, <1>3, <2>1, AppendedProperties
<1>4. QED
  BY <1>2, <1>3 DEF RepsKept

\* Steps of representations, of rep_cache, and of the rest.
Represents ==
    /\ UNCHANGED <<cPosition, cStart, cCommitted, cPhase, cLost, repStore, pushed, viewVars>>
    /\ \/ \E message \in Message : Submit(message)
       \/ JoinGroup \/ TakeChange \/ CalcRepresentation \/ CommitChange
       \/ CalcFails \/ CrashRepresentations

Caches ==
    /\ CacheOnly
    /\ \/ JoinCache \/ TakeRepresentation \/ StoreObjectRep
       \/ DropRepresentation \/ CrashCache \/ RestartCache

\* A read that fails counts as a fault.
ServicesKept ==
    /\ UNCHANGED <<log, position, start, committed, phase, lost, sent, reps, cacheVars>>
    /\ faults' = faults \/ (faults < MaxFaults /\ faults' = faults + 1)

Views ==
    /\ ServicesKept
    /\ \/ PushUpdate \/ Subscribe \/ InitFile \/ OpenFile \/ ReceiveOpened
       \/ \E x \in Obj : ReadRepresentation(x)
       \/ \E n \in stream : ReceiveUpdate(n)
       \/ \E failed \in SUBSET toRead : ReadsFail(failed)

\* Which service or client a step is of.
LEMMA StepCases == [Next]_vars => Represents \/ Caches \/ Views \/ UNCHANGED vars
<1> SUFFICES ASSUME [Next]_vars PROVE Represents \/ Caches \/ Views \/ UNCHANGED vars
  OBVIOUS
<1>1. ASSUME \/ \E message \in Message : Submit(message)
             \/ JoinGroup \/ TakeChange \/ CalcRepresentation \/ CommitChange
             \/ CalcFails \/ CrashRepresentations
      PROVE  Represents
  BY <1>1 DEF Represents, Submit, JoinGroup, TakeChange, CalcRepresentation, CommitChange,
     CalcFails, CrashRepresentations, cacheVars
<1>2. ASSUME \/ JoinCache \/ TakeRepresentation \/ StoreObjectRep
             \/ DropRepresentation \/ CrashCache \/ RestartCache
      PROVE  Caches
  BY <1>2 DEF Caches, JoinCache, TakeRepresentation, StoreObjectRep, DropRepresentation,
     CrashCache, RestartCache
<1>3. ASSUME \/ PushUpdate \/ Subscribe \/ InitFile \/ OpenFile \/ ReceiveOpened
             \/ \E x \in Obj : ReadRepresentation(x)
             \/ \E n \in stream : ReceiveUpdate(n)
             \/ \E failed \in SUBSET toRead : ReadsFail(failed)
      PROVE  Views
  <2>1. CASE \E failed \in SUBSET toRead : ReadsFail(failed)
    BY <2>1 DEF Views, ServicesKept, ReadsFail, Fault
  <2>2. CASE \/ PushUpdate \/ Subscribe \/ InitFile \/ OpenFile \/ ReceiveOpened
             \/ \E x \in Obj : ReadRepresentation(x)
             \/ \E n \in stream : ReceiveUpdate(n)
    BY <2>2 DEF Views, ServicesKept, ViewOnly, consumerVars, PushUpdate, Subscribe, InitFile,
       OpenFile, ReceiveOpened, ReadRepresentation, ReceiveUpdate
  <2>3. QED
    BY <1>3, <2>1, <2>2
<1>4. QED
  BY <1>1, <1>2, <1>3 DEF Next, Represent, CacheReps, Push, Open, Disturb

\* What every step leaves of the two topics.
LEMMA TopicsKept ==
    ASSUME TypeOK, [Next]_vars
    PROVE  LogKept /\ RepsKept /\ log' \in Seq(Message) /\ Len(log') >= Len(log)
           /\ Len(log) \in Nat /\ Len(log') \in Nat
<1>1. (log' = log \/ \E message \in Message : log' = Append(log, message))
      /\ (reps' = reps \/ (reps' = Append(reps, position) /\ phase = "handling" /\ log' = log))
  <2>1. CASE Represents
    <3>1. CASE \E message \in Message : Submit(message)
      BY <3>1 DEF Submit, Produce
    <3>2. CASE JoinGroup \/ TakeChange \/ CommitChange \/ CalcFails \/ CrashRepresentations
      BY <3>2 DEF JoinGroup, TakeChange, CommitChange, CalcFails, CrashRepresentations,
         Join, Fetch, Handled, HandlerFailure, Crash
    <3>3. CASE CalcRepresentation
      BY <3>3 DEF CalcRepresentation, consumerVars
    <3>4. QED
      BY <2>1, <3>1, <3>2, <3>3 DEF Represents
  <2>2. CASE Caches
    BY <2>2 DEF Caches, CacheOnly
  <2>3. CASE Views
    BY <2>3 DEF Views, ServicesKept
  <2>4. CASE UNCHANGED vars
    BY <2>4 DEF vars, consumerVars
  <2>5. QED
    BY <2>1, <2>2, <2>3, <2>4, StepCases
<1>2. phase = "handling" => position \in Offsets
  BY DEF TypeOK, ConsumerTypeOK, Offsets
<1>3. RepsKept
  BY <1>1, <1>2 DEF RepsKept
<1>4. Len(log) \in Nat
  BY DEF TypeOK
<1>5. QED
  BY <1>1, <1>3, <1>4, LogGrows

-----------------------------------------------------------------------------
(* Types *)

\* The types of the service that makes representations.
RepTypes ==
    /\ ConsumerTypeOK
    /\ log \in Seq(Message)
    /\ sent \in BOOLEAN
    /\ sent => phase = "handling" /\ reps # << >> /\ Last(reps) = position
    /\ reps \in Seq(Offsets)

\* The types of updates and of the client.
ViewTypes ==
    /\ pushed \in 0 .. Len(reps) /\ subscribed \in 0 .. pushed
    /\ sub \in {"none", "sent", "done"} /\ open \in {"none", "asked", "listed"}
    /\ stream \subseteq 1 .. pushed /\ opened \in Seq(Offsets)
    /\ toRead \subseteq Obj /\ (toRead # {} => open = "listed")
    /\ seen \in [Obj -> Nat \cup {None}]

\* TypeOK is made of these parts.
LEMMA TypeParts ==
    TypeOK <=> /\ RepTypes /\ ViewTypes /\ Cache!ConsumerTypeOK
               /\ {repStore, shown, newest} \subseteq RepOfEach
               /\ \A x \in Obj : newest[x] = None <=> shown[x] = None
  BY DEF TypeOK, RepTypes, ViewTypes

\* Every step keeps the types of the service that makes representations.
LEMMA RepTypesStep ==
    ASSUME TypeOK, [Next]_vars
    PROVE  RepTypes'
<1>1. /\ Len(log) \in Nat /\ position \in 0 .. Len(log) /\ start \in 0 .. position
      /\ committed \in {NoCommit} \cup 0 .. Len(log) /\ committed <= position + 1
      /\ phase \in Phases /\ (phase = "handling" => position < Len(log))
      /\ lost \subseteq Offsets /\ faults \in 0 .. MaxFaults /\ log \in Seq(Message)
      /\ sent \in BOOLEAN /\ MaxFaults \in Nat
      /\ sent => phase = "handling" /\ reps # << >> /\ Last(reps) = position
      /\ reps \in Seq(Offsets)
  BY ConsumerAssumption DEF TypeOK, ConsumerTypeOK
<1>2. /\ LogKept /\ RepsKept /\ log' \in Seq(Message)
      /\ Len(log') >= Len(log) /\ Len(log') \in Nat /\ reps' \in Seq(Offsets')
  BY TopicsKept, RepsGrow
<1>3. CASE Represents
  <2>1. CASE \E message \in Message : Submit(message)
    <3>1. UNCHANGED <<position, start, committed, phase, lost, faults, sent, reps>>
      BY <2>1 DEF Submit, Produce
    <3>2. ConsumerTypeOK'
      BY <1>1, <1>2, <3>1 DEF ConsumerTypeOK, LogKept
    <3>3. QED
      BY <1>1, <1>2, <3>1, <3>2 DEF RepTypes
  <2>2. CASE CalcRepresentation
    <3>1. /\ UNCHANGED <<log, position, start, committed, phase, lost, faults>>
          /\ reps' = Append(reps, position) /\ sent' = TRUE /\ phase = "handling"
      BY <2>2 DEF CalcRepresentation, consumerVars
    <3>2. ConsumerTypeOK'
      BY <1>1, <3>1 DEF ConsumerTypeOK, Offsets
    <3>3. position \in Offsets
      BY <1>1, <3>1 DEF Offsets
    <3>4. reps' # << >> /\ Last(reps)' = position
      BY <1>1, <3>1, <3>3, LastAppended
    <3>5. QED
      BY <1>1, <1>2, <3>1, <3>2, <3>4 DEF RepTypes
  <2>3. CASE JoinGroup
    <3>1. /\ UNCHANGED <<log, committed, faults, sent, reps>> /\ phase = "joining"
          /\ start' = IF committed = NoCommit THEN Len(log) ELSE committed
          /\ position' = start' /\ lost' = lost \cup position .. start' - 1
          /\ phase' = "polling"
      BY <2>3 DEF JoinGroup, Join
    <3>2. start' \in 0 .. Len(log) /\ committed <= start' + 1
      BY <1>1, <3>1 DEF NoCommit
    <3>3. lost' \subseteq Offsets
      <4>1. position \in Nat /\ start' \in Nat /\ start' <= Len(log)
        BY <1>1, <3>2
      <4>2. position .. start' - 1 \subseteq Offsets
        BY <1>1, <4>1, RangeBelow DEF Offsets
      <4>3. QED
        BY <1>1, <3>1, <4>2
    <3>4. ConsumerTypeOK'
      BY <1>1, <3>1, <3>2, <3>3 DEF ConsumerTypeOK, Offsets, Phases
    <3>5. QED
      BY <1>1, <1>2, <3>1, <3>4 DEF RepTypes
  <2>4. CASE TakeChange
    <3>1. /\ UNCHANGED <<log, position, start, committed, lost, faults, sent, reps>>
          /\ phase = "polling" /\ phase' = "handling" /\ position < Len(log)
      BY <2>4 DEF TakeChange, Fetch
    <3>2. ConsumerTypeOK'
      BY <1>1, <3>1 DEF ConsumerTypeOK, Offsets, Phases
    <3>3. QED
      BY <1>1, <1>2, <3>1, <3>2 DEF RepTypes
  <2>5. CASE CommitChange
    <3>1. /\ UNCHANGED <<log, start, committed, lost, faults, reps>> /\ phase = "handling"
          /\ position' = position + 1 /\ phase' = "polling" /\ sent' = FALSE
      BY <2>5 DEF CommitChange, Handled
    <3>2. ConsumerTypeOK'
      BY <1>1, <3>1 DEF ConsumerTypeOK, Offsets, Phases, NoCommit
    <3>3. QED
      BY <1>1, <1>2, <3>1, <3>2 DEF RepTypes
  <2>6. CASE CalcFails
    <3>1. /\ UNCHANGED <<log, start, committed, reps, sent>> /\ phase = "handling" /\ ~sent
          /\ position' = position + 1 /\ phase' = "polling" /\ lost' = lost \cup {position}
          /\ faults < MaxFaults /\ faults' = faults + 1
      BY <2>6 DEF CalcFails, HandlerFailure, Fault
    <3>2. lost' \subseteq Offsets
      BY <1>1, <3>1 DEF Offsets
    <3>3. ConsumerTypeOK'
      BY <1>1, <3>1, <3>2 DEF ConsumerTypeOK, Offsets, Phases, NoCommit
    <3>4. QED
      BY <1>1, <1>2, <3>1, <3>3 DEF RepTypes
  <2>7. CASE CrashRepresentations
    <3>1. /\ UNCHANGED <<log, position, start, lost, reps>>
          /\ faults < MaxFaults /\ faults' = faults + 1
          /\ committed' \in {committed} \cup start + 1 .. Delivered
          /\ phase' = "joining" /\ sent' = FALSE
      BY <2>7 DEF CrashRepresentations, Crash, Fault
    <3>2. Delivered \in 0 .. Len(log) /\ Delivered <= position + 1
      BY <1>1 DEF Delivered
    <3>3. committed' \in {NoCommit} \cup 0 .. Len(log) /\ committed' <= position + 1
      BY <1>1, <3>1, <3>2
    <3>4. ConsumerTypeOK'
      BY <1>1, <3>1, <3>3 DEF ConsumerTypeOK, Offsets, Phases
    <3>5. QED
      BY <1>1, <1>2, <3>1, <3>4 DEF RepTypes
  <2>8. QED
    BY <1>3, <2>1, <2>2, <2>3, <2>4, <2>5, <2>6, <2>7 DEF Represents
<1>4. ASSUME UNCHANGED <<log, position, start, committed, phase, lost, sent, reps>>,
             faults' \in 0 .. MaxFaults
      PROVE  RepTypes'
  <2>1. ConsumerTypeOK'
    BY <1>1, <1>4 DEF ConsumerTypeOK, Offsets
  <2>2. QED
    BY <1>1, <1>2, <1>4, <2>1 DEF RepTypes
<1>5. CASE Caches
  <2>1. faults' = faults \/ (faults < MaxFaults /\ faults' = faults + 1)
    BY <1>5 DEF Caches, JoinCache, TakeRepresentation, StoreObjectRep, DropRepresentation,
       CrashCache, RestartCache, Cache!Join, Cache!Fetch, Cache!Handled, Cache!ConnectFailure,
       Cache!Crash, Cache!RedisRestart, Cache!Fault
  <2>2. faults' \in 0 .. MaxFaults
    BY <1>1, <2>1
  <2>3. QED
    BY <1>4, <1>5, <2>2 DEF Caches, CacheOnly
<1>6. CASE Views \/ UNCHANGED vars
  <2>1. /\ UNCHANGED <<log, position, start, committed, phase, lost, sent, reps>>
        /\ faults' = faults \/ (faults < MaxFaults /\ faults' = faults + 1)
    BY <1>6 DEF Views, ServicesKept, vars, consumerVars
  <2>2. faults' \in 0 .. MaxFaults
    BY <1>1, <2>1
  <2>3. QED
    BY <1>4, <2>1, <2>2
<1>7. QED
  BY <1>3, <1>5, <1>6, StepCases

\* The types of rep_cache's consumer, whose log is the topic of representations.
LEMMA CacheTypesStep ==
    ASSUME TypeOK, [Next]_vars
    PROVE  Cache!ConsumerTypeOK'
<1>1. /\ Len(reps) \in Nat /\ cPosition \in 0 .. Len(reps) /\ cStart \in 0 .. cPosition
      /\ cCommitted \in {NoCommit} \cup 0 .. Len(reps) /\ cCommitted <= cPosition + 1
      /\ cPhase \in Phases /\ (cPhase = "handling" => cPosition < Len(reps))
      /\ cLost \subseteq 0 .. Len(reps) - 1
  BY DEF TypeOK, Cache!ConsumerTypeOK, Cache!Offsets, Cache!NoCommit, NoCommit,
     Cache!Phases, Phases
<1>2. Len(reps') \in Nat /\ Len(reps') >= Len(reps) /\ faults' \in 0 .. MaxFaults
  BY TopicsKept, RepsGrow, RepTypesStep DEF RepTypes, ConsumerTypeOK
<1>3. ASSUME cPosition' \in 0 .. Len(reps'), cStart' \in 0 .. cPosition',
             cCommitted' \in {NoCommit} \cup 0 .. Len(reps'), cCommitted' <= cPosition' + 1,
             cPhase' \in Phases, cPhase' = "handling" => cPosition' < Len(reps'),
             cLost' \subseteq 0 .. Len(reps') - 1
      PROVE  Cache!ConsumerTypeOK'
  BY <1>2, <1>3 DEF Cache!ConsumerTypeOK, Cache!Offsets, Cache!NoCommit, NoCommit,
     Cache!Phases, Phases
<1>4. CASE UNCHANGED cacheVars
  BY <1>1, <1>2, <1>3, <1>4 DEF cacheVars
<1>5. CASE Caches
  <2>1. reps' = reps
    BY <1>5 DEF Caches, CacheOnly
  <2>2. CASE JoinCache
    <3>1. /\ cCommitted' = cCommitted
          /\ cStart' = IF cCommitted = NoCommit THEN Len(reps) ELSE cCommitted
          /\ cPosition' = cStart' /\ cLost' = cLost \cup cPosition .. cStart' - 1
          /\ cPhase' = "polling"
      BY <2>2 DEF JoinCache, Cache!Join, Cache!NoCommit, NoCommit
    <3>2. cStart' \in 0 .. Len(reps) /\ cCommitted <= cStart' + 1
      BY <1>1, <3>1 DEF NoCommit
    <3>3. cLost' \subseteq 0 .. Len(reps) - 1
      <4>1. cPosition \in Nat /\ cStart' \in Nat /\ cStart' <= Len(reps)
        BY <1>1, <3>2
      <4>2. cPosition .. cStart' - 1 \subseteq 0 .. Len(reps) - 1
        BY <1>1, <4>1, RangeBelow
      <4>3. QED
        BY <1>1, <3>1, <4>2
    <3>4. QED
      BY <1>1, <1>3, <2>1, <3>1, <3>2, <3>3 DEF Phases
  <2>3. CASE TakeRepresentation
    <3>1. /\ UNCHANGED <<cPosition, cStart, cCommitted, cLost>>
          /\ cPhase' = "handling" /\ cPosition < Len(reps)
      BY <2>3 DEF TakeRepresentation, Cache!Fetch
    <3>2. QED
      BY <1>1, <1>3, <2>1, <3>1 DEF Phases
  <2>4. CASE StoreObjectRep
    <3>1. /\ UNCHANGED <<cStart, cCommitted, cLost>>
          /\ cPhase = "handling" /\ cPhase' = "polling" /\ cPosition' = cPosition + 1
      BY <2>4 DEF StoreObjectRep, Cache!Handled
    <3>2. QED
      BY <1>1, <1>3, <2>1, <3>1 DEF Phases, NoCommit
  <2>5. CASE DropRepresentation
    <3>1. /\ UNCHANGED <<cStart, cCommitted, cPhase>> /\ cPosition < Len(reps)
          /\ cPhase = "polling" /\ cPosition' = cPosition + 1
          /\ cLost' = cLost \cup {cPosition}
      BY <2>5 DEF DropRepresentation, Cache!ConnectFailure
    <3>2. cLost' \subseteq 0 .. Len(reps) - 1
      BY <1>1, <3>1
    <3>3. QED
      BY <1>1, <1>3, <2>1, <3>1, <3>2 DEF Phases, NoCommit
  <2>6. CASE CrashCache
    <3>1. /\ UNCHANGED <<cPosition, cStart, cLost>> /\ cPhase' = "joining"
          /\ cCommitted' \in {cCommitted} \cup cStart + 1 .. Cache!Delivered
      BY <2>6 DEF CrashCache, Cache!Crash
    <3>2. Cache!Delivered \in 0 .. Len(reps) /\ Cache!Delivered <= cPosition + 1
      BY <1>1 DEF Cache!Delivered
    <3>3. cCommitted' \in {NoCommit} \cup 0 .. Len(reps) /\ cCommitted' <= cPosition + 1
      BY <1>1, <3>1, <3>2
    <3>4. QED
      BY <1>1, <1>3, <2>1, <3>1, <3>3 DEF Phases
  <2>7. CASE RestartCache
    <3>1. /\ UNCHANGED <<cStart, cCommitted>> /\ cLost' = cLost \cup 0 .. cPosition' - 1
          /\ \/ cPhase = "handling" /\ cPosition' = cPosition + 1 /\ cPhase' = "polling"
             \/ cPhase # "handling" /\ cPosition' = cPosition /\ cPhase' = cPhase
      BY <2>7 DEF RestartCache, Cache!RedisRestart
    <3>2. cPosition' \in 0 .. Len(reps) /\ cPosition' >= cPosition
      BY <1>1, <3>1
    <3>3. cLost' \subseteq 0 .. Len(reps) - 1
      <4>1. cPosition' \in Nat /\ cPosition' <= Len(reps) /\ 0 \in Nat
        BY <1>1, <3>2
      <4>2. 0 .. cPosition' - 1 \subseteq 0 .. Len(reps) - 1
        BY <1>1, <4>1, RangeBelow
      <4>3. QED
        BY <1>1, <3>1, <4>2
    <3>4. cStart' \in 0 .. cPosition' /\ cCommitted' <= cPosition' + 1
      BY <1>1, <3>1 DEF NoCommit
    <3>5. cPhase' \in Phases /\ (cPhase' = "handling" => cPosition' < Len(reps))
      BY <1>1, <3>1 DEF Phases
    <3>6. QED
      BY <1>1, <1>3, <2>1, <3>1, <3>2, <3>3, <3>4, <3>5
  <2>8. QED
    BY <1>5, <2>2, <2>3, <2>4, <2>5, <2>6, <2>7 DEF Caches
<1>6. QED
  BY <1>4, <1>5, StepCases DEF Represents, Views, ServicesKept, vars, cacheVars

\* A representation of each object stays one while the topics grow.
LEMMA RepOfEachKept ==
    ASSUME TypeOK, LogKept, NEW s \in RepOfEach
    PROVE  s \in RepOfEach'
<1>1. \A x \in Obj : s[x] \in Offsets \cup {None} /\ (s[x] # None => IdOf(s[x]) = x)
  BY DEF RepOfEach
<1>2. ASSUME NEW x \in Obj, s[x] # None PROVE s[x] \in Offsets /\ IdOf(s[x])' = x
  BY <1>1, <1>2 DEF LogKept, IdOf
<1>3. s \in [Obj -> Offsets' \cup {None}]
  BY DEF RepOfEach, LogKept
<1>4. QED
  BY <1>2, <1>3 DEF RepOfEach

\* It is one when the representation of an object replaces what there was.
LEMMA RepOfEachChanged ==
    ASSUME TypeOK, LogKept, NEW s \in RepOfEach, NEW k \in Offsets
    PROVE  [s EXCEPT ![IdOf(k)] = k] \in RepOfEach'
<1>1. PICK x \in Obj : x = IdOf(k)
  BY MessagesTyped
<1>2. PICK t : t = [s EXCEPT ![x] = k]
  OBVIOUS
<1>3. s \in [Obj -> Offsets \cup {None}]
  BY DEF RepOfEach
<1>4. t \in RepOfEach
  BY <1>1, <1>2, <1>3 DEF RepOfEach
<1>5. QED
  BY <1>1, <1>2, <1>4, RepOfEachKept

\* None is no offset.
LEMMA NoneIsNoOffset == ASSUME TypeOK PROVE None \notin Offsets
<1>1. \A k \in Offsets : k \in Nat
  BY MessagesTyped
<1>2. QED
  BY <1>1, ViewAssumption

\* The handler shows the representation of an object, and its history.
LEMMA HandlerEffect ==
    ASSUME TypeOK, LogKept, NEW k \in Offsets, HandleUpdate(k)
    PROVE  /\ {shown', newest'} \subseteq RepOfEach'
           /\ \A x \in Obj : newest'[x] = None <=> shown'[x] = None
           /\ newest'[IdOf(k)] # None /\ newest'[IdOf(k)] >= k
           /\ \A x \in Obj : newest[x] # None => newest'[x] # None /\ newest'[x] >= newest[x]
<1>1. PICK i \in Obj : i = IdOf(k)
  BY MessagesTyped
<1>2. shown \in RepOfEach /\ newest \in RepOfEach
  BY DEF TypeOK
<1>3. /\ shown \in [Obj -> Offsets \cup {None}] /\ newest \in [Obj -> Offsets \cup {None}]
      /\ k # None
  BY <1>2, NoneIsNoOffset DEF RepOfEach
<1>4. PICK n : n = IF newest[i] = None \/ newest[i] < k THEN k ELSE newest[i]
  OBVIOUS
<1>5. shown' = [shown EXCEPT ![i] = k] /\ newest' = [newest EXCEPT ![i] = n]
  BY <1>1, <1>4 DEF HandleUpdate
<1>6. n \in Offsets /\ IdOf(n) = i /\ n >= k /\ (newest[i] # None => n >= newest[i])
  <2>1. CASE newest[i] = None \/ newest[i] < k
    <3>1. k \in Nat /\ (newest[i] # None => newest[i] \in Nat)
      BY <1>3, MessagesTyped
    <3>2. QED
      BY <1>1, <1>4, <2>1, <3>1
  <2>2. CASE newest[i] # None /\ ~ (newest[i] < k)
    <3>1. newest[i] \in Offsets /\ IdOf(newest[i]) = i
      BY <1>2, <2>2 DEF RepOfEach
    <3>2. newest[i] \in Nat /\ k \in Nat
      BY <3>1, MessagesTyped
    <3>3. QED
      BY <1>4, <2>2, <3>1, <3>2
  <2>3. QED
    BY <2>1, <2>2
<1>7. shown' \in RepOfEach' /\ newest' \in RepOfEach'
  BY <1>1, <1>2, <1>5, <1>6, RepOfEachChanged
<1>8. n # None
  BY <1>6, NoneIsNoOffset
<1>9. ASSUME NEW x \in Obj
      PROVE  /\ newest'[x] = None <=> shown'[x] = None
             /\ newest[x] # None => newest'[x] # None /\ newest'[x] >= newest[x]
  <2>1. CASE x = i
    BY <1>3, <1>5, <1>6, <1>8, <2>1
  <2>2. CASE x # i
    <3>1. newest'[x] = newest[x] /\ shown'[x] = shown[x]
      BY <1>3, <1>5, <2>2
    <3>2. newest[x] # None => newest[x] \in Nat
      BY <1>3, MessagesTyped
    <3>3. QED
      BY <3>1, <3>2 DEF TypeOK
  <2>3. QED
    BY <2>1, <2>2
<1>10. newest'[i] = n
  BY <1>3, <1>5
<1>11. QED
  BY <1>1, <1>6, <1>7, <1>8, <1>9, <1>10

\* The types of what rep_cache stores and of what the client sees.
LEMMA ViewTypesStep ==
    ASSUME TypeOK, [Next]_vars
    PROVE  /\ ViewTypes'
           /\ ({repStore, shown, newest} \subseteq RepOfEach)'
           /\ \A x \in Obj : newest'[x] = None <=> shown'[x] = None
<1>1. /\ LogKept /\ Len(reps) \in Nat /\ Len(reps') \in Nat /\ Len(reps') >= Len(reps)
      /\ \A n \in 1 .. Len(reps) : reps[n] \in Offsets
  BY TopicsKept, RepsGrow
<1>2. /\ pushed \in 0 .. Len(reps) /\ subscribed \in 0 .. pushed
      /\ sub \in {"none", "sent", "done"} /\ open \in {"none", "asked", "listed"}
      /\ stream \subseteq 1 .. pushed /\ opened \in Seq(Offsets)
      /\ toRead \subseteq Obj /\ (toRead # {} => open = "listed")
      /\ seen \in [Obj -> Nat \cup {None}]
      /\ repStore \in RepOfEach /\ shown \in RepOfEach /\ newest \in RepOfEach
      /\ \A x \in Obj : newest[x] = None <=> shown[x] = None
  BY DEF TypeOK
<1>3. opened \in Seq(Offsets')
  BY <1>1, <1>2, SeqGrows DEF LogKept
<1>4. ASSUME UNCHANGED <<pushed, viewVars>>
      PROVE  ViewTypes'
  BY <1>1, <1>2, <1>3, <1>4 DEF ViewTypes, viewVars
<1>5. ASSUME UNCHANGED <<shown, newest>>, repStore' \in RepOfEach'
      PROVE  /\ ({repStore, shown, newest} \subseteq RepOfEach)'
             /\ \A x \in Obj : newest'[x] = None <=> shown'[x] = None
  <2>1. shown \in RepOfEach' /\ newest \in RepOfEach'
    BY <1>1, <1>2, RepOfEachKept
  <2>2. QED
    BY <1>2, <1>5, <2>1
<1>6. repStore' = repStore => repStore' \in RepOfEach'
  BY <1>1, <1>2, RepOfEachKept
<1>7. CASE Represents \/ UNCHANGED vars
  BY <1>4, <1>5, <1>6, <1>7 DEF Represents, vars, viewVars, cacheVars
<1>8. CASE Caches
  <2>1. repStore' \in RepOfEach'
    <3>1. CASE StoreObjectRep
      <4>1. PICK k : k = reps[cPosition + 1]
        OBVIOUS
      <4>2. k \in Offsets
        <5>1. cPosition < Len(reps) /\ cPosition \in Nat
          BY <3>1 DEF StoreObjectRep, Cache!Handled, TypeOK, Cache!ConsumerTypeOK
        <5>2. QED
          BY <1>1, <4>1, <5>1
      <4>3. repStore' = [repStore EXCEPT ![IdOf(k)] = k]
        BY <3>1, <4>1 DEF StoreObjectRep
      <4>4. QED
        BY <1>1, <1>2, <4>2, <4>3, RepOfEachChanged
    <3>2. CASE RestartCache
      <4>1. repStore' = [x \in Obj |-> None]
        BY <3>2 DEF RestartCache
      <4>2. QED
        BY <4>1 DEF RepOfEach
    <3>3. CASE repStore' = repStore
      BY <1>6, <3>3
    <3>4. QED
      BY <1>8, <3>1, <3>2, <3>3 DEF Caches, JoinCache, TakeRepresentation, DropRepresentation,
         CrashCache
  <2>2. UNCHANGED <<pushed, viewVars, shown, newest>>
    BY <1>8 DEF Caches, CacheOnly, viewVars
  <2>3. QED
    BY <1>4, <1>5, <2>1, <2>2
<1>9. CASE Views
  <2>1. UNCHANGED <<log, reps, repStore>> /\ Offsets' = Offsets
    BY <1>9 DEF Views, ServicesKept, consumerVars, cacheVars, Offsets
  <2>2. CASE PushUpdate
    <3>1. /\ pushed < Len(reps) /\ pushed' = pushed + 1
          /\ stream' \in {stream, stream \cup {pushed + 1}}
          /\ UNCHANGED <<sub, subscribed, open, toRead, opened, seen, shown, newest>>
      BY <2>2 DEF PushUpdate
    <3>2. stream' \subseteq 1 .. pushed'
      BY <1>1, <1>2, <3>1
    <3>3. QED
      BY <1>1, <1>2, <1>5, <1>6, <2>1, <3>1, <3>2 DEF ViewTypes
  <2>3. CASE Subscribe
    <3>1. sub' = "done" /\ subscribed' = pushed
          /\ UNCHANGED <<pushed, stream, open, toRead, opened, seen, shown, newest>>
      BY <2>3 DEF Subscribe
    <3>2. QED
      BY <1>1, <1>2, <1>5, <1>6, <2>1, <3>1 DEF ViewTypes
  <2>4. CASE InitFile
    <3>1. open = "none" /\ open' = "asked" /\ sub' = "sent"
          /\ UNCHANGED <<pushed, subscribed, stream, toRead, opened, seen, shown, newest>>
      BY <2>4 DEF InitFile
    <3>2. QED
      BY <1>1, <1>2, <1>5, <1>6, <2>1, <3>1 DEF ViewTypes
  <2>5. CASE OpenFile
    <3>1. /\ open' = "listed" /\ toRead' \subseteq Obj
          /\ seen' \in [Obj -> Nat \cup {None}]
          /\ UNCHANGED <<pushed, sub, subscribed, stream, opened, shown, newest>>
      BY <2>5 DEF OpenFile, ObjectList
    <3>2. QED
      BY <1>1, <1>2, <1>5, <1>6, <2>1, <3>1 DEF ViewTypes
  <2>6. ASSUME NEW x \in Obj, ReadRepresentation(x)
        PROVE  ViewTypes' /\ UNCHANGED <<shown, newest>>
    <3>1. /\ x \in toRead /\ toRead' = toRead \ {x}
          /\ opened' = IF repStore[x] = None THEN opened ELSE Append(opened, repStore[x])
          /\ seen' = [seen EXCEPT ![x] = cPosition]
          /\ UNCHANGED <<pushed, sub, subscribed, stream, open, shown, newest>>
      BY <2>6 DEF ReadRepresentation
    <3>2. cPosition \in Nat
      BY DEF TypeOK, Cache!ConsumerTypeOK
    <3>3. repStore[x] \in Offsets \cup {None}
      BY <1>2 DEF RepOfEach
    <3>4. opened' \in Seq(Offsets) /\ seen' \in [Obj -> Nat \cup {None}]
      BY <1>2, <3>1, <3>2, <3>3
    <3>5. QED
      BY <1>1, <1>2, <2>1, <3>1, <3>4 DEF ViewTypes
  <2>7. ASSUME NEW n \in stream, ReceiveUpdate(n)
        PROVE  /\ ViewTypes' /\ shown' \in RepOfEach' /\ newest' \in RepOfEach'
               /\ \A x \in Obj : newest'[x] = None <=> shown'[x] = None
    <3>1. /\ HandleUpdate(reps[n]) /\ stream' = stream \ {n}
          /\ UNCHANGED <<pushed, sub, subscribed, open, toRead, opened, seen>>
      BY <2>7 DEF ReceiveUpdate
    <3>2. reps[n] \in Offsets
      BY <1>1, <1>2
    <3>3. QED
      BY <1>1, <1>2, <2>1, <3>1, <3>2, HandlerEffect DEF ViewTypes
  <2>8. ASSUME ReceiveOpened
        PROVE  /\ ViewTypes' /\ shown' \in RepOfEach' /\ newest' \in RepOfEach'
               /\ \A x \in Obj : newest'[x] = None <=> shown'[x] = None
    <3>1. /\ opened # << >> /\ HandleUpdate(Head(opened)) /\ opened' = Tail(opened)
          /\ UNCHANGED <<pushed, sub, subscribed, stream, open, toRead, seen>>
      BY <2>8 DEF ReceiveOpened
    <3>2. Head(opened) \in Offsets /\ Tail(opened) \in Seq(Offsets)
      BY <1>2, <3>1, ToSetOfTail
    <3>3. QED
      BY <1>1, <1>2, <2>1, <3>1, <3>2, HandlerEffect DEF ViewTypes
  <2>9. ASSUME NEW failed \in SUBSET toRead, ReadsFail(failed)
        PROVE  ViewTypes' /\ UNCHANGED <<shown, newest>>
    <3>1. /\ toRead' = toRead \ failed
          /\ seen' = [x \in Obj |-> IF x \in failed THEN 0 ELSE seen[x]]
          /\ UNCHANGED <<pushed, sub, subscribed, stream, open, opened, shown, newest>>
      BY <2>9 DEF ReadsFail
    <3>2. seen' \in [Obj -> Nat \cup {None}]
      BY <1>2, <3>1
    <3>3. QED
      BY <1>1, <1>2, <1>3, <2>1, <3>1, <3>2 DEF ViewTypes
  <2>10. repStore' \in RepOfEach'
    BY <1>6, <2>1
  <2>11. QED
    BY <1>5, <1>9, <2>2, <2>3, <2>4, <2>5, <2>6, <2>7, <2>8, <2>9, <2>10 DEF Views
<1>10. QED
  BY <1>7, <1>8, <1>9, StepCases

\* Every step keeps the types.
LEMMA TypeStep == TypeOK /\ [Next]_vars => TypeOK'
<1> SUFFICES ASSUME TypeOK, [Next]_vars PROVE TypeOK'
  OBVIOUS
<1>1. RepTypes' /\ Cache!ConsumerTypeOK' /\ ViewTypes'
      /\ ({repStore, shown, newest} \subseteq RepOfEach)'
      /\ \A x \in Obj : newest'[x] = None <=> shown'[x] = None
  BY RepTypesStep, CacheTypesStep, ViewTypesStep
<1>2. QED
  BY <1>1 DEF TypeOK, RepTypes, ViewTypes

\* They hold at the start.
LEMMA TypeInit == Init => TypeOK
<1> SUFFICES ASSUME Init PROVE TypeOK
  OBVIOUS
<1>1. MaxFaults \in Nat
  BY ConsumerAssumption
<1>2. ConsumerTypeOK
  BY <1>1 DEF Init, ConsumerInit, ConsumerTypeOK, Offsets, Phases, NoCommit
<1>3. Cache!ConsumerTypeOK
  BY <1>1 DEF Init, Cache!ConsumerInit, Cache!ConsumerTypeOK, Cache!Offsets, Cache!Phases,
     Cache!NoCommit
<1>4. log = << >> /\ reps = << >> /\ opened = << >>
  BY DEF Init, ConsumerInit
<1>5. {repStore, shown, newest} \subseteq RepOfEach
      /\ \A x \in Obj : newest[x] = None <=> shown[x] = None
  BY DEF Init, RepOfEach
<1>6. RepTypes
  <2>1. sent = FALSE /\ log \in Seq(Message) /\ reps \in Seq(Offsets)
    BY <1>4 DEF Init
  <2>2. QED
    BY <1>2, <2>1 DEF RepTypes
<1>7. ViewTypes
  BY <1>4 DEF Init, ViewTypes
<1>8. QED
  BY <1>3, <1>5, <1>6, <1>7, TypeParts

\* Types; a representation stored or shown for an object is one of its changes.
THEOREM ViewTypeCorrect == Spec => []TypeOK
<1>1. Init => TypeOK
  BY TypeInit
<1>2. TypeOK /\ [Next]_vars => TypeOK'
  BY TypeStep
<1>3. QED
  BY <1>1, <1>2, PTL DEF Spec

-----------------------------------------------------------------------------
(* Representations in the topic *)

\* The last representation of an object, as far as a prefix of the topic goes.
LEMMA LastRepKept ==
    ASSUME TypeOK, LogKept, RepsKept, NEW x \in Obj, NEW n \in 1 .. Len(reps), IsLastRep(n, x)'
    PROVE  IsLastRep(n, x) /\ reps'[n] = reps[n] /\ n \in DOMAIN reps
<1>1. /\ reps' \in Seq(Offsets') /\ Len(reps) \in Nat /\ Len(reps') \in Nat
      /\ Len(reps') >= Len(reps) /\ reps \in Seq(Offsets)
      /\ \A m \in 1 .. Len(reps) : reps'[m] = reps[m] /\ reps[m] \in Offsets
  BY RepsGrow DEF TypeOK
<1>2. DOMAIN reps = 1 .. Len(reps) /\ DOMAIN reps' = 1 .. Len(reps')
  BY <1>1
<1>3. \A m \in 1 .. Len(reps) : m \in 1 .. Len(reps')
  BY <1>1
<1>4. ASSUME NEW m \in 1 .. Len(reps) PROVE m \in RepsOf(x)' <=> m \in RepsOf(x)
  <2>1. PICK k \in Offsets : k = reps[m]
    BY <1>1
  <2>2. log'[k + 1] = log[k + 1]
    BY DEF LogKept, MessageAt
  <2>3. QED
    BY <1>1, <1>2, <1>3, <2>1, <2>2 DEF RepsOf, IdOf, MessageAt
<1>5. RepsOf(x) \subseteq 1 .. Len(reps)
  BY <1>2 DEF RepsOf
<1>6. QED
  BY <1>1, <1>2, <1>4, <1>5 DEF IsLastRep

\* The topic has a representation of change k, and none of an older change of
\* the object after it.
Represented(k) ==
    \E n \in DOMAIN reps :
        reps[n] = k /\ \A m \in RepsOf(IdOf(k)) : m > n => reps[m] >= k

\* A representation of a newer change does not alter that.
LEMMA RepresentedKept ==
    ASSUME TypeOK, LogKept, RepsKept, NEW k \in Offsets, Represented(k), reps' = reps \/ position >= k
    PROVE  Represented(k)'
<1>1. /\ reps' \in Seq(Offsets') /\ Len(reps) \in Nat /\ Len(reps') \in Nat
      /\ Len(reps') >= Len(reps) /\ reps \in Seq(Offsets)
      /\ \A m \in 1 .. Len(reps) : reps'[m] = reps[m] /\ reps[m] \in Offsets
  BY RepsGrow DEF TypeOK
<1>2. DOMAIN reps = 1 .. Len(reps) /\ DOMAIN reps' = 1 .. Len(reps')
  BY <1>1
<1>3. PICK n \in DOMAIN reps :
          reps[n] = k /\ \A m \in RepsOf(IdOf(k)) : m > n => reps[m] >= k
  BY DEF Represented
<1>4. n \in DOMAIN reps' /\ reps'[n] = k
  BY <1>1, <1>2, <1>3
<1>5. PICK x \in Obj : x = IdOf(k) /\ x = IdOf(k)'
  BY MessagesTyped DEF LogKept, IdOf
<1>6. ASSUME NEW m \in DOMAIN reps', m > n, IdOf(reps[m])' = x
      PROVE  reps'[m] >= k
  <2>1. CASE m \in 1 .. Len(reps)
    <3>1. PICK r \in Offsets : r = reps[m] /\ r = reps'[m]
      BY <1>1, <2>1
    <3>2. log'[r + 1] = log[r + 1]
      BY DEF LogKept, MessageAt
    <3>3. m \in RepsOf(x)
      BY <1>2, <1>6, <2>1, <3>1, <3>2 DEF RepsOf, IdOf, MessageAt
    <3>4. QED
      BY <1>3, <1>5, <1>6, <3>1, <3>3
  <2>2. CASE m \notin 1 .. Len(reps)
    <3>1. reps' # reps
      BY <1>1, <1>2, <1>6, <2>2
    <3>2. reps' = Append(reps, position) /\ position \in Offsets /\ position >= k
      BY <3>1 DEF RepsKept
    <3>3. reps'[Len(reps) + 1] = position /\ Len(reps') = Len(reps) + 1
      BY <1>1, <3>2, AppendedProperties
    <3>4. m = Len(reps) + 1
      BY <1>1, <1>2, <1>6, <2>2, <3>3
    <3>5. QED
      BY <3>2, <3>3, <3>4
  <2>3. QED
    BY <2>1, <2>2
<1>7. \A m \in RepsOf(x)' : m > n => reps'[m] >= k
  BY <1>6 DEF RepsOf
<1>8. QED
  BY <1>4, <1>5, <1>7 DEF Represented

\* What representations has handled of the log.
HasSent(k) == (k < position \/ (k = position /\ sent)) /\ k \notin lost

\* Only a calculation adds to it.
LEMMA HasSentBefore ==
    ASSUME TypeOK, [Next]_vars, NEW k \in Offsets', HasSent(k)'
    PROVE  k \in Offsets /\ (HasSent(k) \/ (k = position /\ CalcRepresentation))
<1>1. /\ Len(log) \in Nat /\ position \in 0 .. Len(log) /\ k \in Nat
      /\ sent \in BOOLEAN /\ sent' \in BOOLEAN
      /\ (sent => phase = "handling") /\ (phase = "handling" => position < Len(log))
      /\ \A j : j \in Offsets <=> j \in Nat /\ j < Len(log)
  <2>1. Len(log') \in Nat /\ k \in Nat
    BY TopicsKept DEF Offsets
  <2>2. sent' \in BOOLEAN
    BY RepTypesStep DEF RepTypes
  <2>3. QED
    BY <2>1, <2>2 DEF TypeOK, ConsumerTypeOK, Offsets
<1>2. (k < position' \/ (k = position' /\ sent')) /\ k \notin lost'
  BY DEF HasSent
<1>3. CASE UNCHANGED <<position, sent, lost>>
  BY <1>1, <1>2, <1>3 DEF HasSent
<1>4. CASE Represents
  <2>1. CASE (\E message \in Message : Submit(message)) \/ TakeChange
    BY <1>3, <2>1 DEF Submit, Produce, TakeChange, Fetch
  <2>2. CASE CalcRepresentation
    <3>1. UNCHANGED <<position, lost>> /\ phase = "handling"
      BY <2>2 DEF CalcRepresentation, consumerVars
    <3>2. QED
      BY <1>1, <1>2, <2>2, <3>1 DEF HasSent
  <2>3. CASE JoinGroup
    <3>1. /\ phase = "joining" /\ sent' = sent /\ position' = start'
          /\ lost' = lost \cup position .. start' - 1
      BY <2>3 DEF JoinGroup, Join
    <3>2. ~ sent
      BY <1>1, <3>1
    <3>3. position' \in Nat
      BY RepTypesStep DEF RepTypes, ConsumerTypeOK
    <3>4. \A a, b, n \in Nat : a < b /\ ~ (a \in n .. b - 1) => a < n
      OBVIOUS
    <3>5. k < position
      <4>1. k < position' /\ ~ (k \in position .. position' - 1)
        BY <1>2, <3>1, <3>2
      <4>2. position \in Nat
        BY <1>1
      <4>3. QED
        BY <1>1, <3>3, <3>4, <4>1, <4>2
    <3>6. QED
      BY <1>1, <1>2, <3>1, <3>5 DEF HasSent
  <2>4. CASE CommitChange
    <3>1. position' = position + 1 /\ sent' = FALSE /\ sent /\ lost' = lost
      BY <2>4 DEF CommitChange, Handled
    <3>2. k < position \/ k = position
      BY <1>1, <1>2, <3>1
    <3>3. QED
      BY <1>1, <1>2, <3>1, <3>2 DEF HasSent
  <2>5. CASE CalcFails
    <3>1. /\ position' = position + 1 /\ sent' = sent /\ ~ sent /\ lost' = lost \cup {position}
          /\ phase = "handling"
      BY <2>5 DEF CalcFails, HandlerFailure
    <3>2. k < position
      BY <1>1, <1>2, <3>1
    <3>3. QED
      BY <1>1, <1>2, <3>1, <3>2 DEF HasSent
  <2>6. CASE CrashRepresentations
    <3>1. UNCHANGED <<position, lost>> /\ sent' = FALSE
      BY <2>6 DEF CrashRepresentations, Crash
    <3>2. QED
      BY <1>1, <1>2, <3>1 DEF HasSent
  <2>7. QED
    BY <1>4, <2>1, <2>2, <2>3, <2>4, <2>5, <2>6 DEF Represents
<1>5. CASE Caches \/ Views \/ UNCHANGED vars
  BY <1>3, <1>5 DEF Caches, CacheOnly, Views, ServicesKept, vars, consumerVars
<1>6. QED
  BY <1>4, <1>5, StepCases

\* After the representation of a handled change comes none of an older one.
LEMMA RepsInOrderStep == TypeOK /\ RepsInOrder /\ [Next]_vars => RepsInOrder'
<1> SUFFICES ASSUME TypeOK, RepsInOrder, [Next]_vars PROVE RepsInOrder'
  OBVIOUS
<1>1. LogKept /\ RepsKept
  BY TopicsKept
<1>2. ASSUME NEW k \in Offsets', HasSent(k)' PROVE Represented(k)'
  <2>1. k \in Offsets /\ (HasSent(k) \/ (k = position /\ CalcRepresentation))
    BY <1>2, HasSentBefore
  <2>2. CASE HasSent(k)
    <3>1. Represented(k)
      BY <2>1, <2>2 DEF RepsInOrder, HasSent, Represented
    <3>2. position >= k
      BY <2>1, <2>2, MessagesTyped DEF HasSent, TypeOK, ConsumerTypeOK
    <3>3. QED
      BY <1>1, <2>1, <3>1, <3>2, RepresentedKept
  <2>3. CASE k = position /\ CalcRepresentation
    <3>1. reps' = Append(reps, k) /\ reps \in Seq(Offsets)
      BY <2>3 DEF CalcRepresentation, TypeOK
    <3>2. /\ reps'[Len(reps) + 1] = k /\ Len(reps') = Len(reps) + 1 /\ Len(reps) \in Nat
          /\ reps' \in Seq(Offsets)
      BY <2>1, <3>1, AppendedProperties
    <3>3. DOMAIN reps' = 1 .. Len(reps) + 1
      BY <3>2
    <3>4. \A m \in DOMAIN reps' : ~ (m > Len(reps) + 1)
      BY <3>2, <3>3
    <3>5. Len(reps) + 1 \in DOMAIN reps'
      BY <3>2, <3>3
    <3>6. \A m \in RepsOf(IdOf(k))' : ~ (m > Len(reps) + 1)
      BY <3>4 DEF RepsOf
    <3>7. QED
      BY <3>2, <3>5, <3>6 DEF Represented
  <2>4. QED
    BY <2>1, <2>2, <2>3
<1>3. QED
  BY <1>2 DEF RepsInOrder, HasSent, Represented

-----------------------------------------------------------------------------
(* What rep_cache has *)

\* Where rep_cache's consumer may go, and what it skips on its way.
LEMMA CacheMoves ==
    ASSUME TypeOK, [Next]_vars
    PROVE  /\ cLost \subseteq cLost' /\ cPosition \in 0 .. Len(reps) /\ cPosition' \in Nat
           /\ \A n \in Nat \ {0} : n <= cPosition' /\ n - 1 \notin cLost' =>
                  n <= cPosition \/ (n = cPosition + 1 /\ StoreObjectRep)
           /\ repStore' = repStore \/ StoreObjectRep
                  \/ \A n \in Nat \ {0} : n <= cPosition' => n - 1 \in cLost'
<1>1. cPosition \in Nat /\ cPosition \in 0 .. Len(reps) /\ cPosition' \in Nat
  BY CacheTypesStep DEF TypeOK, Cache!ConsumerTypeOK
<1>2. CASE UNCHANGED <<cPosition, cLost, repStore>>
  BY <1>1, <1>2
<1>3. CASE JoinCache
  <2>1. repStore' = repStore /\ cPosition' = cStart' /\ cLost' = cLost \cup cPosition .. cStart' - 1
    BY <1>3 DEF JoinCache, Cache!Join
  <2>2. \A a, b \in Nat : \A n \in Nat \ {0} : n <= b /\ ~ (n - 1 \in a .. b - 1) => n <= a
    OBVIOUS
  <2>3. ASSUME NEW n \in Nat \ {0}, n <= cPosition', n - 1 \notin cLost'
        PROVE  n <= cPosition
    <3>1. ~ (n - 1 \in cPosition .. cPosition' - 1)
      BY <2>1, <2>3
    <3>2. QED
      BY <1>1, <2>2, <2>3, <3>1
  <2>4. QED
    BY <1>1, <2>1, <2>3
<1>4. CASE StoreObjectRep
  <2>1. cPosition' = cPosition + 1 /\ cLost' = cLost
    BY <1>4 DEF StoreObjectRep, Cache!Handled
  <2>2. QED
    BY <1>1, <1>4, <2>1
<1>5. CASE DropRepresentation
  <2>1. repStore' = repStore /\ cPosition' = cPosition + 1 /\ cLost' = cLost \cup {cPosition}
    BY <1>5 DEF DropRepresentation, Cache!ConnectFailure
  <2>2. \A a \in Nat : \A n \in Nat \ {0} : n <= a + 1 /\ n - 1 # a => n <= a
    OBVIOUS
  <2>3. QED
    BY <1>1, <2>1, <2>2
<1>6. CASE RestartCache
  <2>1. cLost' = cLost \cup 0 .. cPosition' - 1
    BY <1>6 DEF RestartCache, Cache!RedisRestart
  <2>2. \A b \in Nat : \A n \in Nat \ {0} : n <= b => n - 1 \in 0 .. b - 1
    OBVIOUS
  <2>3. \A n \in Nat \ {0} : n <= cPosition' => n - 1 \in cLost'
    BY <1>1, <2>1, <2>2
  <2>4. QED
    BY <1>1, <2>1, <2>3
<1>7. CASE TakeRepresentation \/ CrashCache
  BY <1>2, <1>7 DEF TakeRepresentation, Cache!Fetch, CrashCache, Cache!Crash
<1>8. QED
  BY <1>2, <1>3, <1>4, <1>5, <1>6, <1>7, StepCases
     DEF Represents, Caches, Views, ServicesKept, vars, cacheVars

\* What rep_cache has of an object it passed is the last in the topic.
LEMMA CacheHoldsStep == TypeOK /\ CacheHolds /\ [Next]_vars => CacheHolds'
<1> SUFFICES ASSUME TypeOK, CacheHolds, [Next]_vars PROVE CacheHolds'
  OBVIOUS
<1>1. LogKept /\ RepsKept /\ reps' \in Seq(Offsets')
      /\ Len(reps) \in Nat /\ Len(reps') \in Nat /\ reps \in Seq(Offsets)
  BY TopicsKept, RepsGrow DEF TypeOK
<1>2. ASSUME NEW x \in Obj, NEW n \in DOMAIN reps', IsLastRep(n, x)',
             n <= cPosition', n - 1 \notin cLost'
      PROVE  repStore'[x] = reps'[n]
  <2>1. n \in Nat \ {0}
    BY <1>1
  <2>2. n - 1 \notin cLost /\ (n <= cPosition \/ (n = cPosition + 1 /\ StoreObjectRep))
        /\ (repStore' = repStore \/ StoreObjectRep) /\ cPosition \in 0 .. Len(reps)
    BY <1>2, <2>1, CacheMoves
  <2>3. CASE StoreObjectRep
    <3>1. reps' = reps /\ log' = log /\ cPosition < Len(reps)
      BY <2>3 DEF StoreObjectRep, CacheOnly, Cache!Handled, TypeOK, Cache!ConsumerTypeOK
    <3>2. n \in 1 .. Len(reps)
      BY <1>1, <3>1
    <3>3. PICK k \in Offsets : k = reps[cPosition + 1]
      <4>1. cPosition + 1 \in 1 .. Len(reps)
        BY <1>1, <2>2, <3>1
      <4>2. QED
        BY <1>1, <4>1
    <3>4. IsLastRep(n, x) /\ reps'[n] = reps[n] /\ n \in DOMAIN reps
      BY <1>1, <1>2, <3>2, LastRepKept
    <3>5. PICK y \in Obj : y = IdOf(k)
      BY MessagesTyped
    <3>6. repStore' = [repStore EXCEPT ![y] = k] /\ repStore \in [Obj -> Offsets \cup {None}]
      BY <2>3, <3>3, <3>5 DEF StoreObjectRep, TypeOK, RepOfEach
    <3>7. CASE n = cPosition + 1
      <4>1. y = x
        BY <3>3, <3>4, <3>5, <3>7 DEF IsLastRep, RepsOf
      <4>2. QED
        BY <3>3, <3>4, <3>6, <3>7, <4>1
    <3>8. CASE n <= cPosition
      <4>1. cPosition + 1 \in DOMAIN reps /\ ~ (cPosition + 1 <= n)
        BY <1>1, <2>1, <2>2, <3>1, <3>8
      <4>2. y # x
        BY <3>3, <3>4, <3>5, <4>1 DEF IsLastRep, RepsOf
      <4>3. repStore[x] = reps[n]
        BY <2>2, <3>4, <3>8 DEF CacheHolds
      <4>4. QED
        BY <3>4, <3>6, <4>2, <4>3
    <3>9. QED
      BY <2>2, <3>7, <3>8
  <2>4. CASE ~ StoreObjectRep
    <3>1. n <= cPosition /\ repStore' = repStore
      BY <2>2, <2>4
    <3>2. n \in 1 .. Len(reps)
      BY <1>1, <2>1, <2>2, <3>1
    <3>3. IsLastRep(n, x) /\ reps'[n] = reps[n] /\ n \in DOMAIN reps
      BY <1>1, <1>2, <3>2, LastRepKept
    <3>4. QED
      BY <2>2, <3>1, <3>3 DEF CacheHolds
  <2>5. QED
    BY <2>3, <2>4
<1>3. QED
  BY <1>2 DEF CacheHolds

-----------------------------------------------------------------------------
(* What reaches the client *)

\* What was shown, or something newer, stays shown in the history.
LEMMA ShownKept ==
    ASSUME TypeOK, [Next]_vars, NEW k \in Offsets, WasShown(k)
    PROVE  WasShown(k)'
<1>1. LogKept
  BY TopicsKept
<1>2. PICK x \in Obj : x = IdOf(k) /\ x = IdOf(k)'
  BY <1>1, MessagesTyped DEF LogKept, IdOf
<1>3. newest[x] # None /\ newest[x] >= k /\ newest[x] \in Nat /\ k \in Nat
  <2>1. newest[x] \in Offsets \cup {None}
    BY DEF TypeOK, RepOfEach
  <2>2. QED
    BY <1>2, <2>1, MessagesTyped DEF WasShown
<1>4. CASE newest' = newest
  BY <1>2, <1>3, <1>4 DEF WasShown
<1>5. ASSUME NEW r \in Offsets, HandleUpdate(r)
      PROVE  WasShown(k)'
  <2>1. newest'[x] # None /\ newest'[x] >= newest[x]
    BY <1>1, <1>3, <1>5, HandlerEffect
  <2>2. newest'[x] \in Nat
    <3>1. newest' \in RepOfEach'
      BY ViewTypesStep
    <3>2. newest'[x] \in Offsets'
      BY <2>1, <3>1 DEF RepOfEach
    <3>3. Len(log') \in Nat
      BY TopicsKept
    <3>4. QED
      BY <3>2, <3>3 DEF Offsets
  <2>3. newest'[x] >= k
    BY <1>3, <2>1, <2>2
  <2>4. QED
    BY <1>2, <2>1, <2>3 DEF WasShown
<1>6. ASSUME NEW n \in stream, ReceiveUpdate(n) PROVE WasShown(k)'
  <2>1. reps[n] \in Offsets
    BY DEF TypeOK
  <2>2. QED
    BY <1>5, <1>6, <2>1 DEF ReceiveUpdate
<1>7. ASSUME ReceiveOpened PROVE WasShown(k)'
  <2>1. Head(opened) \in Offsets
    BY <1>7, ToSetOfTail DEF ReceiveOpened, TypeOK
  <2>2. QED
    BY <1>5, <1>7, <2>1 DEF ReceiveOpened
<1>8. CASE Represents \/ Caches \/ UNCHANGED vars
  BY <1>4, <1>8 DEF Represents, Caches, CacheOnly, vars, viewVars
<1>9. CASE Views
  BY <1>4, <1>6, <1>7, <1>9 DEF Views, PushUpdate, Subscribe, InitFile, OpenFile,
     ReadRepresentation, ReadsFail
<1>10. QED
  BY <1>8, <1>9, StepCases

\* What updates takes for a subscribed client gets to it.
LEMMA PushedArriveStep == TypeOK /\ PushedArrive /\ [Next]_vars => PushedArrive'
<1> SUFFICES ASSUME TypeOK, PushedArrive, [Next]_vars PROVE PushedArrive'
  OBVIOUS
<1>1. /\ LogKept /\ Len(reps) \in Nat /\ pushed \in 0 .. Len(reps) /\ subscribed \in 0 .. pushed
      /\ \A n \in 1 .. Len(reps) : reps'[n] = reps[n] /\ reps[n] \in Offsets
  BY TopicsKept, RepsGrow DEF TypeOK
<1>2. ASSUME NEW n \in 1 .. Len(reps), WasShown(reps[n])
      PROVE  WasShown(reps[n])'
  <2>1. PICK k \in Offsets : k = reps[n] /\ k = reps'[n]
    BY <1>1
  <2>2. WasShown(k)'
    BY <1>2, <2>1, ShownKept
  <2>3. QED
    BY <2>1, <2>2 DEF WasShown, IdOf, MessageAt
<1>3. ASSUME UNCHANGED <<sub, subscribed, pushed>>,
             \A n \in stream : n \in stream' \/ WasShown(reps[n])'
      PROVE  PushedArrive'
  <2>1. ASSUME sub = "done", NEW n \in subscribed + 1 .. pushed
        PROVE  n \in stream' \/ WasShown(reps[n])'
    <3>1. n \in 1 .. Len(reps)
      BY <1>1
    <3>2. n \in stream \/ WasShown(reps[n])
      BY <2>1 DEF PushedArrive
    <3>3. QED
      BY <1>2, <1>3, <3>1, <3>2
  <2>2. QED
    BY <1>3, <2>1 DEF PushedArrive
<1>4. CASE PushUpdate
  <2>1. /\ UNCHANGED <<sub, subscribed>> /\ pushed' = pushed + 1 /\ stream \subseteq stream'
        /\ sub = "done" => pushed + 1 \in stream'
    BY <1>4 DEF PushUpdate
  <2>2. ASSUME sub = "done", NEW n \in subscribed + 1 .. pushed + 1
        PROVE  n \in stream' \/ WasShown(reps[n])'
    <3>1. CASE n = pushed + 1
      BY <2>1, <2>2, <3>1
    <3>2. CASE n # pushed + 1
      <4>1. n \in 1 .. Len(reps) /\ n \in subscribed + 1 .. pushed
        BY <1>1, <3>2
      <4>2. n \in stream \/ WasShown(reps[n])
        BY <2>2, <4>1 DEF PushedArrive
      <4>3. QED
        BY <1>2, <2>1, <4>1, <4>2
    <3>3. QED
      BY <3>1, <3>2
  <2>3. QED
    BY <2>1, <2>2 DEF PushedArrive
<1>5. CASE Subscribe
  <2>1. subscribed' = pushed /\ pushed' = pushed
    BY <1>5 DEF Subscribe
  <2>2. subscribed' + 1 .. pushed' = {}
    BY <1>1, <2>1
  <2>3. QED
    BY <2>2 DEF PushedArrive
<1>6. CASE InitFile
  BY <1>6 DEF InitFile, PushedArrive
<1>7. ASSUME NEW n \in stream, ReceiveUpdate(n) PROVE PushedArrive'
  <2>1. n \in 1 .. Len(reps)
    BY <1>1 DEF TypeOK
  <2>2. PICK k \in Offsets : k = reps[n] /\ k = reps'[n]
    BY <1>1, <2>1
  <2>3. WasShown(k)'
    <3>1. HandleUpdate(k)
      BY <1>7, <2>2 DEF ReceiveUpdate
    <3>2. newest'[IdOf(k)] # None /\ newest'[IdOf(k)] >= k
      BY <1>1, <3>1, HandlerEffect
    <3>3. IdOf(k)' = IdOf(k)
      BY <1>1 DEF LogKept, IdOf
    <3>4. QED
      BY <3>2, <3>3 DEF WasShown
  <2>4. WasShown(reps[n])'
    BY <2>2, <2>3 DEF WasShown, IdOf, MessageAt
  <2>5. QED
    BY <1>3, <1>7, <2>4 DEF ReceiveUpdate
<1>8. CASE Represents \/ Caches \/ UNCHANGED vars
  BY <1>3, <1>8 DEF Represents, Caches, CacheOnly, vars, viewVars
<1>9. CASE Views
  BY <1>3, <1>4, <1>5, <1>6, <1>7, <1>9 DEF Views, OpenFile, ReadRepresentation, ReceiveOpened,
     ReadsFail
<1>10. QED
  BY <1>8, <1>9, StepCases

\* What api reads of an object gets to the client.
LEMMA ReadArriveStep == TypeOK /\ CacheHolds /\ ReadArrive /\ [Next]_vars => ReadArrive'
<1> SUFFICES ASSUME TypeOK, CacheHolds, ReadArrive, [Next]_vars PROVE ReadArrive'
  OBVIOUS
<1>1. /\ LogKept /\ RepsKept /\ Len(reps) \in Nat /\ Len(reps') \in Nat
      /\ Len(reps') >= Len(reps) /\ reps \in Seq(Offsets) /\ reps' \in Seq(Offsets')
      /\ \A n \in 1 .. Len(reps) : reps'[n] = reps[n] /\ reps[n] \in Offsets
      /\ opened \in Seq(Offsets) /\ seen \in [Obj -> Nat \cup {None}]
  BY TopicsKept, RepsGrow DEF TypeOK
<1>2. cLost \subseteq cLost' /\ cPosition \in 0 .. Len(reps)
  BY CacheMoves
<1>3. ASSUME NEW x \in Obj, NEW place, place \in 0 .. Len(reps),
             \A n \in DOMAIN reps : IsLastRep(n, x) /\ n <= place /\ n - 1 \notin cLost =>
                 reps[n] \in ToSet(opened') \/ WasShown(reps[n])'
      PROVE  \A n \in DOMAIN reps' :
                 IsLastRep(n, x)' /\ n <= place /\ n - 1 \notin cLost' =>
                     reps'[n] \in ToSet(opened') \/ WasShown(reps[n])'
  <2>1. ASSUME NEW n \in DOMAIN reps', IsLastRep(n, x)', n <= place, n - 1 \notin cLost'
        PROVE  reps'[n] \in ToSet(opened') \/ WasShown(reps[n])'
    <3>1. n \in 1 .. Len(reps)
      BY <1>1, <1>3, <2>1
    <3>2. IsLastRep(n, x) /\ reps'[n] = reps[n] /\ n \in DOMAIN reps
      BY <1>1, <2>1, <3>1, LastRepKept
    <3>3. QED
      BY <1>2, <1>3, <2>1, <3>2
  <2>2. QED
    BY <2>1
<1>4. ASSUME NEW n \in DOMAIN reps, WasShown(reps[n])
      PROVE  WasShown(reps[n])'
  <2>1. PICK k \in Offsets : k = reps[n] /\ k = reps'[n]
    BY <1>1
  <2>2. WasShown(k)'
    BY <1>4, <2>1, ShownKept
  <2>3. QED
    BY <2>1, <2>2 DEF WasShown, IdOf, MessageAt
<1>5. ASSUME NEW x \in Obj, open = "listed", x \notin toRead, seen'[x] = seen[x],
             \A k \in ToSet(opened) : k \in ToSet(opened')
                 \/ \A n \in DOMAIN reps : reps[n] = k => WasShown(reps[n])'
      PROVE  /\ seen'[x] \in 0 .. Len(reps')
             /\ \A n \in DOMAIN reps' :
                    IsLastRep(n, x)' /\ n <= seen'[x] /\ n - 1 \notin cLost' =>
                        reps'[n] \in ToSet(opened') \/ WasShown(reps[n])'
  <2>1. seen[x] \in 0 .. Len(reps)
    BY <1>5 DEF ReadArrive
  <2>2. ASSUME NEW n \in DOMAIN reps, IsLastRep(n, x), n <= seen[x], n - 1 \notin cLost
        PROVE  reps[n] \in ToSet(opened') \/ WasShown(reps[n])'
    <3>1. reps[n] \in ToSet(opened) \/ WasShown(reps[n])
      BY <1>5, <2>2 DEF ReadArrive
    <3>2. QED
      BY <1>4, <1>5, <3>1
  <2>3. seen'[x] \in 0 .. Len(reps')
    BY <1>1, <1>5, <2>1
  <2>4. PICK place : place = seen[x] /\ place = seen'[x]
    BY <1>5
  <2>5. \A n \in DOMAIN reps' :
            IsLastRep(n, x)' /\ n <= place /\ n - 1 \notin cLost' =>
                reps'[n] \in ToSet(opened') \/ WasShown(reps[n])'
    BY <1>3, <2>1, <2>2, <2>4
  <2>6. QED
    BY <2>3, <2>4, <2>5
<1>6. ASSUME UNCHANGED <<open, toRead, seen, opened>>
      PROVE  ReadArrive'
  BY <1>5, <1>6 DEF ReadArrive
<1>7. CASE Represents \/ Caches \/ UNCHANGED vars
  BY <1>6, <1>7 DEF Represents, Caches, CacheOnly, vars, viewVars
<1>8. CASE PushUpdate \/ Subscribe \/ \E n \in stream : ReceiveUpdate(n)
  BY <1>6, <1>8 DEF PushUpdate, Subscribe, ReceiveUpdate
<1>9. CASE InitFile
  BY <1>9 DEF InitFile, ReadArrive
<1>10. CASE OpenFile
  <2>1. \A x \in Obj \ toRead' : seen'[x] = 0
    BY <1>10 DEF OpenFile
  <2>2. \A n \in DOMAIN reps' : ~ (n <= 0)
    BY <1>1
  <2>3. \A x \in Obj \ toRead' : seen'[x] \in 0 .. Len(reps') /\ \A n \in DOMAIN reps' : ~ (n <= seen'[x])
    BY <1>1, <2>1, <2>2
  <2>4. QED
    BY <2>3 DEF ReadArrive
<1>11. ASSUME NEW y \in Obj, ReadRepresentation(y)
       PROVE  ReadArrive'
  <2>1. /\ y \in toRead /\ toRead' = toRead \ {y} /\ open' = open
        /\ opened' = IF repStore[y] = None THEN opened ELSE Append(opened, repStore[y])
        /\ seen' = [seen EXCEPT ![y] = cPosition]
    BY <1>11 DEF ReadRepresentation
  <2>2. repStore[y] \in Offsets \cup {None} /\ None \notin Offsets
    BY NoneIsNoOffset DEF TypeOK, RepOfEach
  <2>3. /\ ToSet(opened) \subseteq ToSet(opened')
        /\ repStore[y] # None => repStore[y] \in ToSet(opened')
    <3>1. CASE repStore[y] = None
      BY <2>1, <3>1
    <3>2. CASE repStore[y] # None
      <4>1. repStore[y] \in Offsets /\ opened' = Append(opened, repStore[y])
        BY <2>1, <2>2, <3>2
      <4>2. ToSet(opened') = ToSet(opened) \cup {repStore[y]}
        BY <1>1, <4>1, ToSetAppended
      <4>3. QED
        BY <4>2
    <3>3. QED
      BY <3>1, <3>2
  <2>4. ASSUME open = "listed", NEW x \in Obj \ toRead'
        PROVE  /\ seen'[x] \in 0 .. Len(reps')
               /\ \A n \in DOMAIN reps' :
                      IsLastRep(n, x)' /\ n <= seen'[x] /\ n - 1 \notin cLost' =>
                          reps'[n] \in ToSet(opened') \/ WasShown(reps[n])'
    <3>1. CASE x = y
      <4>1. seen'[x] = cPosition
        BY <1>1, <2>1, <3>1
      <4>2. ASSUME NEW n \in DOMAIN reps, IsLastRep(n, x), n <= cPosition, n - 1 \notin cLost
            PROVE  reps[n] \in ToSet(opened')
        <5>1. repStore[x] = reps[n]
          BY <4>2 DEF CacheHolds
        <5>2. reps[n] # None
          BY <1>1, <2>2
        <5>3. QED
          BY <2>3, <3>1, <5>1, <5>2
      <4>3. PICK place \in 0 .. Len(reps) : place = cPosition
        BY <1>2
      <4>4. \A n \in DOMAIN reps' :
                IsLastRep(n, x)' /\ n <= place /\ n - 1 \notin cLost' =>
                    reps'[n] \in ToSet(opened') \/ WasShown(reps[n])'
        BY <1>3, <4>2, <4>3
      <4>5. QED
        BY <1>1, <4>1, <4>3, <4>4
    <3>2. CASE x # y
      <4>1. x \notin toRead /\ seen'[x] = seen[x]
        BY <1>1, <2>1, <2>4, <3>2
      <4>2. QED
        BY <1>5, <2>3, <2>4, <4>1
    <3>3. QED
      BY <3>1, <3>2
  <2>5. QED
    BY <2>1, <2>4 DEF ReadArrive
<1>12. CASE ReceiveOpened
  <2>1. /\ opened # << >> /\ HandleUpdate(Head(opened)) /\ opened' = Tail(opened)
        /\ UNCHANGED <<open, toRead, seen, log, reps>>
    BY <1>12 DEF ReceiveOpened, ViewOnly, consumerVars
  <2>2. PICK k \in Offsets : k = Head(opened) /\ ToSet(opened) \subseteq {k} \cup ToSet(opened')
    BY <1>1, <2>1, ToSetOfTail
  <2>3. WasShown(k)'
    <3>1. newest'[IdOf(k)] # None /\ newest'[IdOf(k)] >= k
      BY <1>1, <2>1, <2>2, HandlerEffect
    <3>2. IdOf(k)' = IdOf(k)
      BY <1>1 DEF LogKept, IdOf
    <3>3. QED
      BY <3>1, <3>2 DEF WasShown
  <2>4. \A n \in DOMAIN reps : reps[n] = k => WasShown(reps[n])'
    BY <2>1, <2>3 DEF WasShown, IdOf, MessageAt
  <2>5. QED
    BY <1>5, <2>1, <2>2, <2>4 DEF ReadArrive
<1>13. ASSUME NEW failed \in SUBSET toRead, ReadsFail(failed)
       PROVE  ReadArrive'
  <2>1. /\ toRead' = toRead \ failed /\ UNCHANGED <<open, opened>>
        /\ \A x \in Obj : seen'[x] = IF x \in failed THEN 0 ELSE seen[x]
    BY <1>13 DEF ReadsFail
  <2>2. ASSUME open = "listed", NEW x \in Obj \ toRead'
        PROVE  /\ seen'[x] \in 0 .. Len(reps')
               /\ \A n \in DOMAIN reps' :
                      IsLastRep(n, x)' /\ n <= seen'[x] /\ n - 1 \notin cLost' =>
                          reps'[n] \in ToSet(opened') \/ WasShown(reps[n])'
    <3>1. CASE x \in failed
      <4>1. seen'[x] = 0 /\ \A n \in DOMAIN reps' : ~ (n <= 0)
        BY <1>1, <2>1, <3>1
      <4>2. QED
        BY <1>1, <4>1
    <3>2. CASE x \notin failed
      BY <1>5, <2>1, <2>2, <3>2
    <3>3. QED
      BY <3>1, <3>2
  <2>3. QED
    BY <2>1, <2>2 DEF ReadArrive
<1>14. QED
  BY <1>7, <1>8, <1>9, <1>10, <1>11, <1>12, <1>13, StepCases DEF Views

-----------------------------------------------------------------------------
(* The inductive invariant *)

\* Nothing is represented, stored, pushed or read at the start.
LEMMA ViewInvInit == Init => ViewInv
<1> SUFFICES ASSUME Init PROVE ViewInv
  OBVIOUS
<1>1. /\ log = << >> /\ reps = << >> /\ position = 0 /\ sub = "none" /\ open = "none"
  BY DEF Init, ConsumerInit
<1>2. Offsets = {} /\ DOMAIN reps = {}
  BY <1>1 DEF Offsets
<1>3. QED
  BY <1>1, <1>2 DEF ViewInv, RepsInOrder, CacheHolds, PushedArrive, ReadArrive

\* Between any two messages the representations are in order, rep_cache holds
\* the last of those it passed, and what was pushed or read arrives.
THEOREM ViewInductive == Spec => []ViewInv
<1>1. Init => TypeOK /\ ViewInv
  BY TypeInit, ViewInvInit
<1>2. TypeOK /\ ViewInv /\ [Next]_vars => TypeOK' /\ ViewInv'
  BY TypeStep, RepsInOrderStep, CacheHoldsStep, PushedArriveStep, ReadArriveStep DEF ViewInv
<1>3. QED
  BY <1>1, <1>2, PTL DEF Spec

-----------------------------------------------------------------------------
(* What rep_cache and the client settle on *)

\* The last change of an object, and the last of its representations.
LEMMA LastOfObject ==
    ASSUME TypeOK, NEW x \in Obj
    PROVE  /\ ChangesOf(x) # {} =>
                  /\ Max(ChangesOf(x)) \in ChangesOf(x) /\ Max(ChangesOf(x)) \in Nat
                  /\ \A k \in ChangesOf(x) : k \in Nat /\ k <= Max(ChangesOf(x))
           /\ RepsOf(x) # {} =>
                  LastRep(x) \in DOMAIN reps /\ LastRep(x) \in Nat /\ IsLastRep(LastRep(x), x)
<1>1. log \in Seq(Message) /\ reps \in Seq(Offsets) /\ Len(log) \in Nat /\ Len(reps) \in Nat
  BY DEF TypeOK
<1>2. ASSUME ChangesOf(x) # {}
      PROVE  /\ Max(ChangesOf(x)) \in ChangesOf(x) /\ Max(ChangesOf(x)) \in Nat
             /\ \A k \in ChangesOf(x) : k \in Nat /\ k <= Max(ChangesOf(x))
  <2>1. ChangesOf(x) \in SUBSET Nat /\ \A k \in ChangesOf(x) : k <= Len(log)
    BY <1>1 DEF ChangesOf, Offsets
  <2>2. QED
    BY <1>1, <1>2, <2>1, MaxProperties
<1>3. ASSUME RepsOf(x) # {}
      PROVE  LastRep(x) \in DOMAIN reps /\ LastRep(x) \in Nat /\ IsLastRep(LastRep(x), x)
  <2>1. RepsOf(x) \in SUBSET Nat /\ \A n \in RepsOf(x) : n <= Len(reps)
    BY <1>1 DEF RepsOf
  <2>2. LastRep(x) \in RepsOf(x) /\ \A n \in RepsOf(x) : n <= LastRep(x)
    BY <1>1, <1>3, <2>1, MaxProperties DEF LastRep
  <2>3. QED
    BY <2>1, <2>2 DEF RepsOf, IsLastRep
<1>4. QED
  BY <1>2, <1>3

\* Once everything is handled the last representation is of the last change.
LEMMA LastIsRepresented ==
    ASSUME TypeOK, RepsInOrder, position = Len(log), NEW x \in Obj,
           ChangesOf(x) # {}, Max(ChangesOf(x)) \notin lost
    PROVE  RepsOf(x) # {} /\ reps[LastRep(x)] = Max(ChangesOf(x))
<1> DEFINE top == Max(ChangesOf(x))
<1>1. /\ top \in ChangesOf(x) /\ top \in Nat
      /\ \A k \in ChangesOf(x) : k \in Nat /\ k <= top
  BY LastOfObject
<1>2. top \in Offsets /\ IdOf(top) = x
  BY <1>1 DEF ChangesOf
<1>3. top < position
  BY <1>2 DEF TypeOK, Offsets
<1>4. PICK n \in DOMAIN reps : reps[n] = top /\ \A m \in RepsOf(x) : m > n => reps[m] >= top
  BY <1>2, <1>3 DEF RepsInOrder
<1>5. n \in RepsOf(x) /\ n \in Nat
  BY <1>2, <1>4 DEF RepsOf, TypeOK
<1>6. LastRep(x) \in DOMAIN reps /\ LastRep(x) \in Nat /\ IsLastRep(LastRep(x), x)
  BY <1>5, LastOfObject
<1>7. reps[LastRep(x)] \in ChangesOf(x)
  BY <1>6 DEF IsLastRep, RepsOf, ChangesOf, TypeOK
<1>8. LastRep(x) \in RepsOf(x) /\ n <= LastRep(x)
  BY <1>5, <1>6 DEF IsLastRep
<1>9. CASE LastRep(x) = n
  BY <1>4, <1>5, <1>9
<1>10. CASE LastRep(x) > n
  <2>1. reps[LastRep(x)] >= top
    BY <1>4, <1>8, <1>10
  <2>2. reps[LastRep(x)] \in Nat /\ reps[LastRep(x)] <= top
    BY <1>1, <1>7
  <2>3. reps[LastRep(x)] = top
    BY <1>1, <2>1, <2>2
  <2>4. QED
    BY <1>5, <2>3
<1>11. QED
  BY <1>5, <1>6, <1>8, <1>9, <1>10

\* After a replay too the last representation of an object is that of its last
\* change, and rep_cache settles on it.
THEOREM CacheSettlesOnLast == Spec => []CacheSettles
<1>1. ASSUME TypeOK, ViewInv PROVE CacheSettles
  <2> SUFFICES ASSUME position = Len(log), NEW x \in Obj,
                      ChangesOf(x) # {}, Max(ChangesOf(x)) \notin lost
               PROVE  /\ RepsOf(x) # {}
                      /\ reps[LastRep(x)] = Max(ChangesOf(x))
                      /\ cPosition = Len(reps) /\ LastRep(x) - 1 \notin cLost =>
                             repStore[x] = Max(ChangesOf(x))
    BY DEF CacheSettles
  <2>1. RepsOf(x) # {} /\ reps[LastRep(x)] = Max(ChangesOf(x))
    BY <1>1, LastIsRepresented DEF ViewInv
  <2>2. LastRep(x) \in DOMAIN reps /\ IsLastRep(LastRep(x), x)
    BY <1>1, <2>1, LastOfObject
  <2>3. LastRep(x) <= Len(reps)
    BY <1>1, <2>2 DEF TypeOK
  <2>4. QED
    BY <1>1, <2>1, <2>2, <2>3 DEF ViewInv, CacheHolds
<1>2. QED
  BY <1>1, ViewTypeCorrect, ViewInductive, PTL

\* At rest the client shows the last change of every object, but for what
\* representations passed over, what was missed between the two ways to the
\* client, and what an older representation by the slower way took back.
THEOREM ClientShowsLatest == Spec => []ShowsLatest
<1>1. ASSUME TypeOK, ViewInv PROVE ShowsLatest
  <2> SUFFICES ASSUME AtRest, NEW x \in Obj, ChangesOf(x) # {}, shown[x] = newest[x],
                      Max(ChangesOf(x)) \notin lost, ~ IsMissed(x)
               PROVE  shown[x] = Max(ChangesOf(x))
    BY DEF ShowsLatest
  <2> DEFINE top == Max(ChangesOf(x))
  <2>1. /\ position = Len(log) /\ pushed = Len(reps) /\ sub = "done" /\ open = "listed"
        /\ toRead = {} /\ stream = {} /\ opened = << >>
    BY DEF AtRest
  <2>2. RepsOf(x) # {} /\ reps[LastRep(x)] = top
    BY <1>1, <2>1, LastIsRepresented DEF ViewInv
  <2>3. LastRep(x) \in DOMAIN reps /\ LastRep(x) \in Nat /\ IsLastRep(LastRep(x), x)
    BY <1>1, <2>2, LastOfObject
  <2>4. /\ top \in ChangesOf(x) /\ top \in Nat /\ IdOf(top) = x
        /\ \A k \in ChangesOf(x) : k \in Nat /\ k <= top
    BY <1>1, LastOfObject DEF ChangesOf
  <2>5. LastRep(x) \in 1 .. Len(reps) /\ Len(reps) \in Nat /\ subscribed \in Nat
    BY <1>1, <2>3 DEF TypeOK
  <2>6. WasShown(top)
    <3>1. CASE LastRep(x) > subscribed
      <4>1. LastRep(x) \in subscribed + 1 .. pushed
        BY <2>1, <2>5, <3>1
      <4>2. QED
        BY <1>1, <2>1, <2>2, <4>1 DEF ViewInv, PushedArrive
    <3>2. CASE LastRep(x) <= subscribed
      <4>1. seen[x] \in 0 .. Len(reps) /\
            \A n \in DOMAIN reps :
                IsLastRep(n, x) /\ n <= seen[x] /\ n - 1 \notin cLost =>
                    reps[n] \in ToSet(opened) \/ WasShown(reps[n])
        BY <1>1, <2>1 DEF ViewInv, ReadArrive
      <4>2. ~ (seen[x] < LastRep(x)) /\ LastRep(x) - 1 \notin cLost
        BY <3>2 DEF IsMissed
      <4>3. LastRep(x) <= seen[x]
        BY <2>5, <4>1, <4>2
      <4>4. ToSet(opened) = {}
        BY <2>1 DEF ToSet
      <4>5. QED
        BY <2>2, <2>3, <4>1, <4>2, <4>3, <4>4
    <3>3. QED
      BY <2>5, <3>1, <3>2
  <2>7. newest[x] # None /\ newest[x] >= top
    BY <2>4, <2>6 DEF WasShown
  <2>8. newest[x] \in ChangesOf(x)
    BY <1>1, <2>7 DEF TypeOK, RepOfEach, ChangesOf
  <2>9. QED
    BY <2>4, <2>7, <2>8
<1>2. QED
  BY <1>1, ViewTypeCorrect, ViewInductive, PTL
=============================================================================
