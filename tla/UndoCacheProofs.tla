--------------------------- MODULE UndoCacheProofs ---------------------------
(***************************************************************************)
(* Theorems about the undo stacks, for any users, objects, kinds of        *)
(* change, number of events, log length, and number and kinds of faults.   *)
(*                                                                         *)
(* The argument: StackInv is inductive.  The consumer alone moves entries  *)
(* and drops events, so the event it found on top of a stack is still on   *)
(* that stack when it adds the entry; an event leaves its stack only when  *)
(* it is empty; and a fresh event is on no stack.                          *)
(*                                                                         *)
(* Until the first fault, QuietInv is inductive with it: the event that a  *)
(* request opens is named by no message before the request's own, so it is *)
(* not dropped before they are handled, and each of them finds an event to *)
(* put its entry in.  RestoreInv adds the types and what requests compute. *)
(***************************************************************************)
EXTENDS UndoCache, SequenceTheorems, FiniteSetTheorems, WellFoundedInduction, TLAPS

-----------------------------------------------------------------------------
(* Sequences *)

\* A sequence, whatever its elements.
IsSequence(s) == s \in Seq(Range(s))

\* A sequence over any set is a sequence over its own range.
LEMMA SequenceOf ==
    ASSUME NEW S, NEW s \in Seq(S)
    PROVE  IsSequence(s)
  BY DEF IsSequence, Range

\* What Append returns of a sequence over its own range.
LEMMA AppendedTo ==
    ASSUME NEW s, IsSequence(s), NEW x
    PROVE  /\ IsSequence(Append(s, x))
           /\ Len(s) \in Nat
           /\ DOMAIN s = 1 .. Len(s)
           /\ DOMAIN Append(s, x) = 1 .. Len(s) + 1
           /\ \A i \in 1 .. Len(s) : Append(s, x)[i] = s[i]
           /\ Append(s, x)[Len(s) + 1] = x
<1> DEFINE S == Range(s) \cup {x}
           t == Append(s, x)
<1>1. s \in Seq(S) /\ x \in S
  BY SeqMonotonic DEF IsSequence
<1>2. /\ t \in Seq(S) /\ Len(t) = Len(s) + 1
      /\ \A i \in 1 .. Len(s) : t[i] = s[i]
      /\ t[Len(s) + 1] = x
  BY <1>1, AppendProperties
<1>3. IsSequence(t)
  BY <1>2, SequenceOf
<1>4. /\ Len(s) \in Nat
      /\ DOMAIN s = 1 .. Len(s)
      /\ DOMAIN t = 1 .. Len(s) + 1
  BY <1>1, <1>2, LenProperties
<1>5. QED
  BY <1>2, <1>3, <1>4

\* RemoveAt drops one place and keeps the order of the others.
LEMMA RemoveAtProperties ==
    ASSUME NEW S, NEW s \in Seq(S), NEW i \in DOMAIN s
    PROVE  /\ RemoveAt(s, i) \in Seq(S)
           /\ Len(RemoveAt(s, i)) = Len(s) - 1
           /\ \A j \in 1 .. Len(s) - 1 :
                  RemoveAt(s, i)[j] = IF j < i THEN s[j] ELSE s[j + 1]
<1> DEFINE left == SubSeq(s, 1, i - 1)
           right == SubSeq(s, i + 1, Len(s))
<1>1. Len(s) \in Nat /\ i \in 1 .. Len(s) /\ \A j \in 1 .. Len(s) : s[j] \in S
  BY LenProperties, ElementOfSeq
<1>2. /\ left \in Seq(S) /\ Len(left) = i - 1
      /\ \A j \in 1 .. i - 1 : left[j] = s[j]
  <2>1. \A j \in 1 .. i - 1 : s[j] \in S
    BY <1>1
  <2>2. /\ left \in Seq(S)
        /\ Len(left) = IF 1 <= i - 1 THEN (i - 1) - 1 + 1 ELSE 0
        /\ \A j \in 1 .. (i - 1) - 1 + 1 : left[j] = s[1 + j - 1]
    BY <1>1, <2>1, SubSeqProperties
  <2>3. QED
    BY <1>1, <2>2
<1>3. /\ right \in Seq(S) /\ Len(right) = Len(s) - i
      /\ \A j \in 1 .. Len(s) - i : right[j] = s[i + j]
  <2>1. \A j \in i + 1 .. Len(s) : s[j] \in S
    BY <1>1
  <2>2. /\ right \in Seq(S)
        /\ Len(right) = IF i + 1 <= Len(s) THEN Len(s) - (i + 1) + 1 ELSE 0
        /\ \A j \in 1 .. Len(s) - (i + 1) + 1 : right[j] = s[(i + 1) + j - 1]
    BY <1>1, <2>1, SubSeqProperties
  <2>3. QED
    BY <1>1, <2>2
<1>4. /\ left \o right \in Seq(S)
      /\ Len(left \o right) = Len(left) + Len(right)
      /\ \A j \in 1 .. Len(left) + Len(right) :
             (left \o right)[j] = IF j <= Len(left) THEN left[j] ELSE right[j - Len(left)]
  BY <1>2, <1>3, ConcatProperties
<1>5. RemoveAt(s, i) = left \o right
  BY DEF RemoveAt
<1> HIDE DEF left, right
<1>6. ASSUME NEW j \in 1 .. Len(s) - 1
      PROVE  RemoveAt(s, i)[j] = IF j < i THEN s[j] ELSE s[j + 1]
  <2>1. CASE j < i
    BY <1>1, <1>2, <1>3, <1>4, <1>5, <2>1
  <2>2. CASE j >= i
    <3>1. RemoveAt(s, i)[j] = right[j - (i - 1)]
      <4>1. j \in 1 .. Len(left) + Len(right) /\ ~ (j <= Len(left)) /\ Len(left) = i - 1
        BY <1>1, <1>2, <1>3, <2>2
      <4>2. QED
        BY <1>4, <1>5, <4>1
    <3>2. j - (i - 1) \in 1 .. Len(s) - i /\ i + (j - (i - 1)) = j + 1
      BY <1>1, <2>2
    <3>3. QED
      BY <1>1, <1>3, <2>2, <3>1, <3>2
  <2>3. QED
    BY <1>1, <2>1, <2>2
<1>7. Len(left) + Len(right) = Len(s) - 1
  BY <1>1, <1>2, <1>3
<1>8. RemoveAt(s, i) \in Seq(S) /\ Len(RemoveAt(s, i)) = Len(s) - 1
  BY <1>4, <1>5, <1>7
<1>9. QED
  BY <1>6, <1>8

\* The first index of a set comes before the others.
LEMMA MinIsFirst ==
    ASSUME NEW I \in SUBSET Nat, I # {}
    PROVE  Min(I) \in I /\ \A i \in I : Min(I) <= i
<1> DEFINE R == {ss \in Nat \X Nat : ss[1] < ss[2]}
<1>1. OpToRel(<, Nat) = R
  BY Zenon DEF OpToRel
<1>2. IsWellFoundedOn(R, Nat)
  BY Zenon, <1>1, NatLessThanWellFounded
<1>3. PICK x \in I : \A y \in I : ~ (<<y, x>> \in R)
  <2> HIDE DEF R
  <2> QED
    BY <1>2, WFMin
<1>4. ASSUME NEW y \in I PROVE x <= y
  <2>1. x \in Nat /\ y \in Nat /\ <<y, x>> \in Nat \X Nat
    OBVIOUS
  <2>2. ~ (<<y, x>>[1] < <<y, x>>[2])
    BY <1>3, <2>1
  <2>3. QED
    BY <2>1, <2>2
<1>5. QED
  BY <1>3, <1>4 DEF Min

\* RemoveFirst removes one place that holds the element.
LEMMA RemoveFirstProperties ==
    ASSUME NEW S, NEW s \in Seq(S), NEW x, \E i \in DOMAIN s : s[i] = x
    PROVE  \E i \in DOMAIN s : s[i] = x /\ RemoveFirst(s, x) = RemoveAt(s, i)
<1> DEFINE I == {i \in 1 .. Len(s) : s[i] = x}
<1>1. I # {} /\ I \in SUBSET Nat /\ DOMAIN s = 1 .. Len(s)
  OBVIOUS
<1>2. Min(I) \in I
  BY <1>1, MinIsFirst
<1>3. RemoveFirst(s, x) = RemoveAt(s, Min(I))
  BY <1>1 DEF RemoveFirst, SelectInSeq
<1>4. QED
  BY <1>1, <1>2, <1>3

-----------------------------------------------------------------------------
(* The inductive invariant *)

\* The consumer is within the log.
ConsumerOK ==
    /\ IsSequence(log)
    /\ position \in 0 .. Len(log)
    /\ start \in Nat
    /\ committed \in {NoCommit} \cup 0 .. Len(log)
    /\ phase = "handling" => position < Len(log)

\* Stacks hold events that were generated, and every event has a list.
StackTypes ==
    /\ events \in 0 .. MaxEvents
    /\ stack \in [User -> [Side -> Seq(1 .. events)]]
    /\ DOMAIN entries = Event
    /\ \A e \in Event : IsSequence(entries[e])

\* A message names its user, and the event it undoes or redoes.
Fits(message) ==
    /\ message.user \in User
    /\ message.source \in {"user"} \cup Side
    /\ message.source # "user" => message.event \in 1 .. events
MessagesOK == \A k \in Offsets : Fits(MessageAt(k))

\* A request at work has chosen an event that was generated.
CallFields == {"pc", "side", "event", "list", "changes", "next", "late"}
CallOfUser(c) == DOMAIN c = CallFields /\ c.side \in Side /\ c.event \in 1 .. events
CallsOK ==
    /\ DOMAIN call = User
    /\ \A u \in User : call[u].pc # "idle" => CallOfUser(call[u])

\* Where the consumer is in the handling of a message.
TaskOK ==
    /\ step # "take" => phase = "handling"
    /\ phase = "handling" /\ step \in {"take", "drop"} => Current.source # "user"
    /\ step = "add" => On(Current.user, Receiving(Current), target)

\* The parts of EventsSound, over all events: entries belong to the stack,
\* no event is twice on a stack or on two, and none is lost with entries.
EntriesFit ==
    \A u \in User, side \in Side, e \in Event : On(u, side, e) =>
        \A k \in DOMAIN entries[e] : Genuine(entries[e][k], u, side)
NoneTwice ==
    \A u \in User, side \in Side : \A i, j \in DOMAIN stack[u][side] :
        i # j => stack[u][side][i] # stack[u][side][j]
OneStack ==
    \A u, v \in User, side, other \in Side, e \in Event :
        On(u, side, e) /\ On(v, other, e) => v = u /\ other = side
NoneLost ==
    \A e \in Event : entries[e] # << >> => \E u \in User, side \in Side : On(u, side, e)

\* The inductive invariant.
StackInv ==
    /\ ConsumerOK /\ StackTypes /\ MessagesOK /\ CallsOK /\ TaskOK
    /\ EntriesFit /\ NoneTwice /\ OneStack /\ NoneLost

-----------------------------------------------------------------------------
(* What a step does to the log, the stacks and the consumer *)

\* A request appends a message that fits.
Submits ==
    /\ \E message : Fits(message) /\ log' = Append(log, message)
    /\ UNCHANGED <<position, phase, stackVars, taskVars>>
\* A request puts a fresh event on a stack.
Opens ==
    /\ \E u \in User, side \in Side : PushEvent(u, side)
    /\ UNCHANGED <<log, position, phase, entries, taskVars>>
Moves == TakeMessage \/ TakeEntry \/ DropEventIfEmpty \/ FindTopEvent \/ AddEntry
\* The consumer is not handling a message afterwards.
Ends == phase' # "handling" /\ step' = "take" /\ UNCHANGED <<log, stackVars>>
Stays == UNCHANGED <<log, position, phase, stackVars, taskVars>>

\* Every step is one of these, by what it does to the stacks and entries.
LEMMA StepCases ==
    ASSUME StackInv, [Next]_vars
    PROVE  Submits \/ Opens \/ Moves \/ Ends \/ RestartRedis \/ Stays
<1> USE DEF Moves, Ends, Stays, stackVars, taskVars, consumerVars
<1>0. phase # "handling" => step = "take"
  BY DEF StackInv, TaskOK
<1>1. CASE Consume
  BY <1>0, <1>1 DEF Consume, JoinGroup, Join, RefuseEntry, RefuseMessage, Handled
<1>2. CASE Disturb
  <2>1. CASE DropMessage
    BY <1>0, <2>1 DEF DropMessage, ConnectFailure
  <2>2. CASE AbandonMessage
    BY <2>1, <2>2 DEF AbandonMessage, HandlerFailure
  <2>3. CASE CrashService
    BY <2>3 DEF CrashService, Crash
  <2>4. QED
    BY <1>2, <2>1, <2>2, <2>3 DEF Disturb
<1>3. ASSUME NEW u \in User, Request(u)
      PROVE  Submits \/ Opens \/ Stays
  <2>1. ASSUME NEW o \in Obj, NEW c \in Kind, SubmitChange(u, o, c) PROVE Submits
    <3> DEFINE message ==
            [user |-> u, obj |-> o, change |-> c, source |-> "user",
             event |-> Top(stack[u]["undo"]),
             value |-> IF c = "Delete" THEN Absent ELSE Len(log)]
    <3>1. Fits(message)
      BY DEF Fits
    <3>2. log' = Append(log, message)
      BY <2>1 DEF SubmitChange, Produce
    <3>3. UNCHANGED <<position, phase, stackVars, taskVars>>
      BY <2>1 DEF SubmitChange, Produce
    <3>4. QED
      BY <3>1, <3>2, <3>3 DEF Submits
  <2>2. CASE BeginUndoEvent(u)
    BY <2>2 DEF BeginUndoEvent, Opens, Side
  <2>3. CASE \E side \in Side : StartUndo(u, side)
    BY <2>3 DEF StartUndo
  <2>4. CASE ReadEntries(u)
    BY <2>4 DEF ReadEntries
  <2>5. CASE OpenEvent(u)
    <3>1. Other(call[u].side) \in Side
      BY DEF Other, Side
    <3>2. QED
      BY <2>5, <3>1 DEF OpenEvent, Opens
  <2>6. CASE InvertChanges(u)
    BY <2>6 DEF InvertChanges
  <2>7. CASE Send(u)
    <3> DEFINE c == call[u]
               change == c.changes[c.next]
               message == [user |-> u, obj |-> change.obj, change |-> change.change,
                           source |-> c.side, event |-> c.event, value |-> change.value]
    <3>1. CallOfUser(c)
      BY <2>7 DEF Send, StackInv, CallsOK
    <3>2. Fits(message)
      BY <3>1 DEF Fits, CallOfUser
    <3>3. log' = Append(log, message)
      BY <2>7 DEF Send, Produce
    <3>4. UNCHANGED <<position, phase, stackVars, taskVars>>
      BY <2>7 DEF Send, Produce
    <3>5. QED
      BY <3>2, <3>3, <3>4 DEF Submits
  <2>8. CASE FailCall(u)
    BY <2>8 DEF FailCall
  <2>9. QED
    BY <1>3, <2>1, <2>2, <2>3, <2>4, <2>5, <2>6, <2>7, <2>8 DEF Request
<1>4. CASE UNCHANGED vars
  BY <1>4 DEF vars
<1>5. QED
  BY <1>1, <1>2, <1>3, <1>4 DEF Next, Disturb

-----------------------------------------------------------------------------
(* The parts of the invariant *)

\* The consumer stays within the log.
LEMMA ConsumerStep == ConsumerOK /\ [Next]_vars => ConsumerOK'
<1> SUFFICES ASSUME ConsumerOK, [Next]_vars PROVE ConsumerOK'
  OBVIOUS
<1> USE DEF ConsumerOK, NoCommit
<1>0. Len(log) \in Nat
  BY LenProperties DEF IsSequence
<1>1. ASSUME NEW message, Produce(message) PROVE ConsumerOK'
  <2>1. IsSequence(log') /\ Len(log') = Len(log) + 1
    <3>1. IsSequence(log') /\ DOMAIN log' = 1 .. Len(log) + 1
      BY <1>1, AppendedTo DEF Produce
    <3>2. DOMAIN log' = 1 .. Len(log') /\ Len(log') \in Nat
      BY <3>1, LenProperties DEF IsSequence
    <3>3. QED
      BY <1>0, <3>1, <3>2
  <2>2. QED
    BY <1>0, <1>1, <2>1 DEF Produce
<1>2. CASE UNCHANGED <<log, position, start, committed, phase>>
  BY <1>2 DEF IsSequence
<1>3. CASE Consume
  <2>1. CASE JoinGroup
    BY <1>0, <2>1 DEF JoinGroup, Join, IsSequence
  <2>2. CASE TakeMessage
    BY <1>0, <2>2 DEF TakeMessage, Fetch, IsSequence
  <2>3. CASE Handled
    BY <1>0, <2>3 DEF Handled, IsSequence
  <2>4. CASE TakeEntry \/ DropEventIfEmpty \/ FindTopEvent
    BY <1>2, <2>4 DEF TakeEntry, DropEventIfEmpty, FindTopEvent, consumerVars
  <2>5. QED
    BY <1>3, <2>1, <2>2, <2>3, <2>4 DEF Consume, RefuseEntry, RefuseMessage, AddEntry
<1>4. CASE Disturb
  <2>1. CASE DropMessage
    BY <1>0, <2>1 DEF DropMessage, ConnectFailure, IsSequence
  <2>2. CASE AbandonMessage
    BY <1>0, <2>2 DEF AbandonMessage, HandlerFailure, IsSequence
  <2>3. CASE CrashService
    BY <1>0, <2>3 DEF CrashService, Crash, Delivered, IsSequence
  <2>4. CASE RestartRedis
    BY <1>0, <2>4 DEF RestartRedis, RedisRestart, IsSequence
  <2>5. QED
    BY <1>4, <2>1, <2>2, <2>3, <2>4 DEF Disturb
<1>5. ASSUME NEW u \in User, Request(u) PROVE ConsumerOK'
  <2>1. ASSUME NEW o \in Obj, NEW c \in Kind, SubmitChange(u, o, c) PROVE ConsumerOK'
    BY <1>1, <2>1 DEF SubmitChange
  <2>2. CASE Send(u)
    BY <1>1, <2>2 DEF Send
  <2>3. CASE \/ BeginUndoEvent(u) \/ (\E side \in Side : StartUndo(u, side))
             \/ ReadEntries(u) \/ OpenEvent(u) \/ InvertChanges(u) \/ FailCall(u)
    BY <1>2, <2>3 DEF BeginUndoEvent, StartUndo, ReadEntries, OpenEvent, InvertChanges,
       FailCall, consumerVars
  <2>4. QED
    BY <1>5, <2>1, <2>2, <2>3 DEF Request
<1>6. CASE UNCHANGED vars
  BY <1>2, <1>6 DEF vars, consumerVars
<1>7. QED
  BY <1>3, <1>4, <1>5, <1>6 DEF Next

\* Event numbers are never reused.
LEMMA EventsGrow == StackInv /\ [Next]_vars => events' \in Nat /\ events <= events'
<1> SUFFICES ASSUME StackInv, [Next]_vars PROVE events' \in Nat /\ events <= events'
  OBVIOUS
<1>1. events \in Nat
  BY DEF StackInv, StackTypes
<1>2. CASE events' = events
  BY <1>1, <1>2
<1>3. CASE Opens
  BY <1>1, <1>3 DEF Opens, PushEvent
<1>4. CASE Submits \/ Moves \/ Ends \/ RestartRedis \/ Stays
  <2>1. events' = events
    BY <1>4 DEF Submits, Moves, Ends, Stays, stackVars, TakeMessage, TakeEntry,
       DropEventIfEmpty, FindTopEvent, AddEntry, RestartRedis
  <2>2. QED
    BY <1>2, <2>1
<1>5. QED
  BY <1>3, <1>4, StepCases

\* The event a request works on was generated before.
LEMMA CallsStep == StackInv /\ [Next]_vars => CallsOK'
<1> SUFFICES ASSUME StackInv, [Next]_vars PROVE CallsOK'
  OBVIOUS
<1>1. CallsOK /\ events \in Nat /\ events' \in Nat /\ events <= events'
  BY EventsGrow DEF StackInv, StackTypes
<1>2. ASSUME DOMAIN call' = User, \A u \in User : call'[u] = call[u] \/ call'[u] = Idle
      PROVE  CallsOK'
  <2>1. ASSUME NEW u \in User, call'[u].pc # "idle" PROVE CallOfUser(call[u])'
    <3>1. call'[u] = call[u]
      BY <1>2, <2>1 DEF Idle
    <3>2. CallOfUser(call[u])
      BY <1>1, <2>1, <3>1 DEF CallsOK
    <3>3. QED
      BY <1>1, <3>1, <3>2 DEF CallOfUser
  <2>2. QED
    BY <1>2, <2>1 DEF CallsOK, CallOfUser
<1>3. ASSUME NEW u \in User, NEW c, call' = [call EXCEPT ![u] = c],
             DOMAIN c = CallFields, c.side \in Side, c.event \in 1 .. events
      PROVE  CallsOK'
  <2>1. DOMAIN call' = User /\ call'[u] = c
        /\ \A v \in User : v # u => call'[v] = call[v]
    BY <1>1, <1>3 DEF CallsOK
  <2>2. \A n \in 1 .. events : n \in 1 .. events'
    BY <1>1
  <2>3. QED
    BY <1>1, <1>3, <2>1, <2>2 DEF CallsOK, CallOfUser
<1>4. CASE UNCHANGED call
  BY <1>1, <1>2, <1>4 DEF CallsOK
<1>5. CASE Consume
  BY <1>4, <1>5 DEF Consume, JoinGroup, TakeMessage, TakeEntry, RefuseEntry, DropEventIfEmpty,
     FindTopEvent, RefuseMessage, AddEntry
<1>6. CASE Disturb
  <2>1. CASE DropMessage \/ AbandonMessage
    BY <1>4, <2>1 DEF DropMessage, AbandonMessage
  <2>2. CASE CrashService \/ RestartRedis
    BY <1>2, <2>2 DEF CrashService, RestartRedis, CallsDie
  <2>3. QED
    BY <1>6, <2>1, <2>2 DEF Disturb
<1>7. ASSUME NEW u \in User, Request(u) PROVE CallsOK'
  <2>1. CASE (\E o \in Obj, c \in Kind : SubmitChange(u, o, c)) \/ BeginUndoEvent(u)
    BY <1>4, <2>1 DEF SubmitChange, BeginUndoEvent
  <2>2. ASSUME NEW side \in Side, StartUndo(u, side) PROVE CallsOK'
    <3> DEFINE pile == stack[u][side]
               c == [pc |-> "read", side |-> side, event |-> Top(pile),
                     list |-> << >>, changes |-> << >>, next |-> 0, late |-> {}]
    <3>1. pile \in Seq(1 .. events) /\ pile # << >>
      BY <2>2 DEF StartUndo, StackInv, StackTypes
    <3>2. Top(pile) \in 1 .. events
      <4>1. Len(pile) \in 1 .. Len(pile)
        BY <3>1, EmptySeq
      <4>2. QED
        BY <3>1, <4>1, ElementOfSeq DEF Top, Last
    <3>3. DOMAIN c = CallFields /\ c.side = side /\ c.event = Top(pile)
      BY DEF CallFields
    <3>4. call' = [call EXCEPT ![u] = c]
      BY <2>2 DEF StartUndo
    <3> HIDE DEF c
    <3>5. QED
      BY <1>3, <3>2, <3>3, <3>4
  <2>3. ASSUME call[u].pc # "idle", NEW c, call' = [call EXCEPT ![u] = c],
               DOMAIN c = DOMAIN call[u], c.side = call[u].side, c.event = call[u].event
        PROVE  CallsOK'
    BY <1>1, <1>3, <2>3 DEF CallsOK, CallOfUser
  <2>4. ASSUME call[u].pc # "idle", NEW x, NEW pc,
               call' = [call EXCEPT ![u] = [call[u] EXCEPT !.list = x, !.pc = pc]]
        PROVE  CallsOK'
    <3> DEFINE c == [call[u] EXCEPT !.list = x, !.pc = pc]
    <3>1. DOMAIN call[u] = CallFields
      BY <1>1, <2>4 DEF CallsOK, CallOfUser
    <3>2. DOMAIN c = DOMAIN call[u] /\ c.side = call[u].side /\ c.event = call[u].event
      BY <3>1 DEF CallFields
    <3> HIDE DEF c
    <3>3. QED
      BY <2>3, <2>4, <3>2 DEF c
  <2>5. CASE ReadEntries(u)
    BY <2>4, <2>5 DEF ReadEntries
  <2>6. CASE OpenEvent(u)
    <3> DEFINE c == [call[u] EXCEPT !.pc = "fetch"]
    <3>1. DOMAIN call[u] = CallFields /\ call[u].pc # "idle" /\ call' = [call EXCEPT ![u] = c]
      BY <1>1, <2>6 DEF OpenEvent, CallsOK, CallOfUser
    <3>2. DOMAIN c = DOMAIN call[u] /\ c.side = call[u].side /\ c.event = call[u].event
      BY <3>1 DEF CallFields
    <3> HIDE DEF c
    <3>3. QED
      BY <2>3, <3>1, <3>2
  <2>7. CASE InvertChanges(u)
    <3>1. call[u].pc # "idle" /\ DOMAIN call[u] = CallFields
      BY <1>1, <2>7 DEF InvertChanges, CallsOK, CallOfUser
    <3>2. PICK changes, next, late :
              call' = [call EXCEPT ![u] = Idle]
              \/ call' = [call EXCEPT ![u] =
                             [call[u] EXCEPT !.pc = "send", !.changes = changes,
                                            !.next = next, !.late = late]]
      BY <2>7 DEF InvertChanges
    <3>3. CASE call' = [call EXCEPT ![u] = Idle]
      BY <1>1, <1>2, <3>3 DEF CallsOK
    <3>4. CASE call' = [call EXCEPT ![u] =
                   [call[u] EXCEPT !.pc = "send", !.changes = changes,
                                            !.next = next, !.late = late]]
      <4> DEFINE c == [call[u] EXCEPT !.pc = "send", !.changes = changes,
                                !.next = next, !.late = late]
      <4>1. DOMAIN c = DOMAIN call[u] /\ c.side = call[u].side /\ c.event = call[u].event
        BY <3>1 DEF CallFields
      <4>2. call' = [call EXCEPT ![u] = c]
        BY <3>4
      <4> HIDE DEF c
      <4>3. QED
        BY <2>3, <3>1, <4>1, <4>2
    <3>5. QED
      BY <3>2, <3>3, <3>4
  <2>8. CASE Send(u)
    <3>0. PICK next : \/ call' = [call EXCEPT ![u] = Idle]
                      \/ call' = [call EXCEPT ![u] = [call[u] EXCEPT !.next = next]]
      BY <2>8 DEF Send
    <3> DEFINE c == [call[u] EXCEPT !.next = next]
    <3>1. /\ call[u].pc # "idle" /\ DOMAIN call[u] = CallFields
          /\ call' = [call EXCEPT ![u] = Idle] \/ call' = [call EXCEPT ![u] = c]
      BY <1>1, <2>8, <3>0 DEF Send, CallsOK, CallOfUser
    <3>2. DOMAIN c = DOMAIN call[u] /\ c.side = call[u].side /\ c.event = call[u].event
      BY <3>1 DEF CallFields
    <3>3. CASE call' = [call EXCEPT ![u] = Idle]
      BY <1>1, <1>2, <3>3 DEF CallsOK
    <3> HIDE DEF c
    <3>4. CASE call' = [call EXCEPT ![u] = c]
      BY <2>3, <3>1, <3>2, <3>4
    <3>5. QED
      BY <3>1, <3>3, <3>4
  <2>9. CASE FailCall(u)
    BY <1>1, <1>2, <2>9 DEF FailCall, CallsOK
  <2>10. QED
    BY <1>7, <2>1, <2>2, <2>5, <2>6, <2>7, <2>8, <2>9 DEF Request
<1>8. CASE UNCHANGED vars
  BY <1>4, <1>8 DEF vars
<1>9. QED
  BY <1>5, <1>6, <1>7, <1>8 DEF Next

-----------------------------------------------------------------------------
(* How removals change a sequence *)

\* What is left after the first entry that matches is removed was there.
LEMMA TakeEffect ==
    ASSUME StackInv, TakeEntry
    PROVE  /\ Current.event \in Event
           /\ IsSequence(entries'[Current.event])
           /\ \A k \in DOMAIN entries'[Current.event] :
                  \E i \in DOMAIN entries[Current.event] :
                      entries'[Current.event][k] = entries[Current.event][i]
           /\ \A e \in Event : e # Current.event => entries'[e] = entries[e]
           /\ DOMAIN entries' = Event
<1> DEFINE list == entries[Current.event]
           I == {i \in 1 .. Len(list) : IsOfCurrent(list[i])}
<1>1. Current.event \in Event
  <2>1. Current.source # "user" /\ position \in Offsets
    BY DEF TakeEntry, StackInv, TaskOK, ConsumerOK, Offsets
  <2>2. Current.event \in 1 .. events
    BY <2>1 DEF StackInv, MessagesOK, Fits, Current
  <2>3. QED
    BY <2>2, EventAssumption DEF StackInv, StackTypes, Event
<1>2. list \in Seq(Range(list)) /\ DOMAIN list = 1 .. Len(list)
  BY <1>1, LenProperties DEF StackInv, StackTypes, IsSequence
<1>3. I # {} /\ I \in SUBSET Nat
  BY <1>2 DEF TakeEntry
<1>4. Min(I) \in I
  BY <1>3, MinIsFirst
<1>5. RemoveFirstMatch(list, IsOfCurrent) = RemoveAt(list, Min(I))
  BY <1>3 DEF RemoveFirstMatch, SelectInSeq
<1>6. entries' = [entries EXCEPT ![Current.event] = RemoveFirstMatch(list, IsOfCurrent)]
  BY DEF TakeEntry
<1>7. PICK n \in DOMAIN list : RemoveFirstMatch(list, IsOfCurrent) = RemoveAt(list, n)
  BY <1>2, <1>4, <1>5
<1>8. entries'[Current.event] = RemoveAt(list, n)
  BY <1>1, <1>6, <1>7 DEF StackInv, StackTypes
<1>9. /\ RemoveAt(list, n) \in Seq(Range(list))
      /\ Len(RemoveAt(list, n)) = Len(list) - 1
      /\ \A j \in 1 .. Len(list) - 1 :
             RemoveAt(list, n)[j] = IF j < n THEN list[j] ELSE list[j + 1]
  BY <1>2, RemoveAtProperties
<1>10. IsSequence(RemoveAt(list, n)) /\ DOMAIN RemoveAt(list, n) = 1 .. Len(list) - 1
  BY <1>9, SequenceOf, LenProperties
<1>11. ASSUME NEW k \in 1 .. Len(list) - 1
       PROVE  \E i \in DOMAIN list : RemoveAt(list, n)[k] = list[i]
  <2>1. k \in DOMAIN list /\ k + 1 \in DOMAIN list
    BY <1>2, LenProperties
  <2>2. QED
    BY <1>9, <2>1
<1>12. QED
  BY <1>1, <1>6, <1>8, <1>10, <1>11 DEF StackInv, StackTypes

\* Only an empty event leaves a stack, and it leaves one place.
LEMMA DropEffect ==
    ASSUME StackInv, DropEventIfEmpty, NEW u \in User, NEW side \in Side
    PROVE  /\ stack' \in [User -> [Side -> Seq(1 .. events)]]
           /\ \/ stack'[u][side] = stack[u][side]
              \/ \E n \in DOMAIN stack[u][side] :
                     /\ stack[u][side][n] = Current.event
                     /\ entries[Current.event] = << >>
                     /\ stack'[u][side] = RemoveAt(stack[u][side], n)
<1> DEFINE pile == stack[Current.user][Current.source]
           e == Current.event
<1>1. Current.user \in User /\ Current.source \in Side
  <2>1. Current.source # "user" /\ position \in Offsets
    BY DEF DropEventIfEmpty, StackInv, TaskOK, ConsumerOK, Offsets
  <2>2. QED
    BY <2>1 DEF StackInv, MessagesOK, Fits, Current
<1>2. stack \in [User -> [Side -> Seq(1 .. events)]]
  BY DEF StackInv, StackTypes
<1>3. pile \in Seq(1 .. events)
  BY <1>1, <1>2
<1>4. CASE entries[e] = << >> /\ \E i \in DOMAIN pile : pile[i] = e
  <2>1. PICK n \in DOMAIN pile : pile[n] = e /\ RemoveFirst(pile, e) = RemoveAt(pile, n)
    BY <1>3, <1>4, RemoveFirstProperties
  <2>2. RemoveAt(pile, n) \in Seq(1 .. events)
    BY <1>3, RemoveAtProperties
  <2>3. stack' = [stack EXCEPT ![Current.user][Current.source] = RemoveAt(pile, n)]
    BY <1>4, <2>1 DEF DropEventIfEmpty
  <2>4. QED
    BY <1>1, <1>2, <1>4, <2>1, <2>2, <2>3
<1>5. CASE entries[e] = << >> /\ ~ \E i \in DOMAIN pile : pile[i] = e
  <2>1. RemoveFirst(pile, e) = pile
    BY <1>3, <1>5 DEF RemoveFirst
  <2>2. stack' = [stack EXCEPT ![Current.user][Current.source] = pile]
    BY <1>5, <2>1 DEF DropEventIfEmpty
  <2>3. QED
    BY <1>1, <1>2, <2>2
<1>6. CASE entries[e] # << >>
  BY <1>2, <1>6 DEF DropEventIfEmpty
<1>7. QED
  BY <1>4, <1>5, <1>6

\* Where an event is after an event was dropped.
LEMMA DropOn ==
    ASSUME StackInv, DropEventIfEmpty, NEW u \in User, NEW side \in Side, NEW e
    PROVE  /\ On(u, side, e)' => On(u, side, e)
           /\ On(u, side, e) /\ entries[e] # << >> => On(u, side, e)'
<1> DEFINE pile == stack[u][side]
<1>1. pile \in Seq(1 .. events)
  BY DEF StackInv, StackTypes
<1>2. CASE stack'[u][side] = pile
  BY <1>2 DEF On
<1>3. ASSUME NEW n \in DOMAIN pile, pile[n] = Current.event, entries[Current.event] = << >>,
             stack'[u][side] = RemoveAt(pile, n)
      PROVE  /\ On(u, side, e)' => On(u, side, e)
             /\ On(u, side, e) /\ entries[e] # << >> => On(u, side, e)'
  <2>1. /\ DOMAIN pile = 1 .. Len(pile) /\ Len(pile) \in Nat
        /\ DOMAIN stack'[u][side] = 1 .. Len(pile) - 1
        /\ \A j \in 1 .. Len(pile) - 1 :
               stack'[u][side][j] = IF j < n THEN pile[j] ELSE pile[j + 1]
    <3>1. /\ RemoveAt(pile, n) \in Seq(1 .. events)
          /\ Len(RemoveAt(pile, n)) = Len(pile) - 1
          /\ \A j \in 1 .. Len(pile) - 1 :
                 RemoveAt(pile, n)[j] = IF j < n THEN pile[j] ELSE pile[j + 1]
      BY <1>1, RemoveAtProperties
    <3>2. /\ DOMAIN pile = 1 .. Len(pile) /\ Len(pile) \in Nat
          /\ DOMAIN RemoveAt(pile, n) = 1 .. Len(pile) - 1
      BY <1>1, <3>1, LenProperties
    <3>3. QED
      BY <1>3, <3>1, <3>2
  <2>2. ASSUME NEW j \in 1 .. Len(pile) - 1, stack'[u][side][j] = e
        PROVE  \E i \in DOMAIN pile : pile[i] = e
    <3>1. j \in DOMAIN pile /\ j + 1 \in DOMAIN pile
      BY <2>1
    <3>2. QED
      BY <2>1, <2>2, <3>1
  <2>3. ASSUME NEW i \in DOMAIN pile, pile[i] = e, entries[e] # << >>
        PROVE  \E j \in 1 .. Len(pile) - 1 : stack'[u][side][j] = e
    <3>1. i # n
      BY <1>3, <2>3
    <3>2. CASE i < n
      <4>1. i \in 1 .. Len(pile) - 1
        BY <2>1, <3>2
      <4>2. QED
        BY <2>1, <2>3, <3>2, <4>1
    <3>3. CASE i > n
      <4>1. i - 1 \in 1 .. Len(pile) - 1 /\ ~ (i - 1 < n) /\ (i - 1) + 1 = i
        BY <2>1, <3>3
      <4>2. stack'[u][side][i - 1] = pile[i]
        BY <2>1, <4>1
      <4>3. QED
        BY <2>3, <4>1, <4>2
    <3>4. QED
      BY <2>1, <3>1, <3>2, <3>3
  <2>4. QED
    BY <2>1, <2>2, <2>3 DEF On
<1>4. QED
  BY <1>2, <1>3, DropEffect

-----------------------------------------------------------------------------
(* Every step preserves the invariant *)

\* Stacks hold events that were generated; entries stay sequences.
LEMMA StackTypesStep == StackInv /\ [Next]_vars => StackTypes'
<1> SUFFICES ASSUME StackInv, [Next]_vars PROVE StackTypes'
  OBVIOUS
<1>0. /\ events \in 0 .. MaxEvents /\ MaxEvents \in Nat
      /\ stack \in [User -> [Side -> Seq(1 .. events)]]
      /\ DOMAIN entries = Event
      /\ \A e \in Event : IsSequence(entries[e])
  BY EventAssumption DEF StackInv, StackTypes
<1>1. CASE UNCHANGED stackVars
  BY <1>0, <1>1 DEF StackTypes, stackVars, IsSequence
<1>2. CASE Opens
  <2>1. PICK u \in User, side \in Side : PushEvent(u, side)
    BY <1>2 DEF Opens
  <2>2. entries' = entries /\ events' = events + 1 /\ events' \in 0 .. MaxEvents
    BY <1>0, <1>2, <2>1 DEF Opens, PushEvent
  <2>3. 1 .. events \subseteq 1 .. events' /\ events + 1 \in 1 .. events'
    BY <1>0, <2>2
  <2>4. ASSUME NEW v \in User, NEW other \in Side
        PROVE  stack[v][other] \in Seq(1 .. events')
    <3>1. stack[v][other] \in Seq(1 .. events)
      BY <1>0
    <3>2. QED
      BY <2>3, <3>1, SeqMonotonic
  <2>5. stack \in [User -> [Side -> Seq(1 .. events')]]
    BY <1>0, <2>4
  <2>6. Append(stack[u][side], events + 1) \in Seq(1 .. events')
    BY <2>3, <2>4, AppendProperties
  <2>7. stack' = [stack EXCEPT ![u][side] = Append(stack[u][side], events + 1)]
    BY <2>1 DEF PushEvent
  <2>8. stack' \in [User -> [Side -> Seq(1 .. events')]]
    BY <2>5, <2>6, <2>7
  <2>9. QED
    BY <1>0, <2>2, <2>8 DEF StackTypes, IsSequence
<1>3. CASE TakeEntry
  <2>1. stack' = stack /\ events' = events /\ DOMAIN entries' = Event
    BY <1>3, TakeEffect DEF TakeEntry
  <2>2. \A e \in Event : IsSequence(entries'[e])
    BY <1>0, <1>3, TakeEffect
  <2>3. QED
    BY <1>0, <2>1, <2>2 DEF StackTypes, IsSequence
<1>4. CASE DropEventIfEmpty
  <2>1. entries' = entries /\ events' = events
    BY <1>4 DEF DropEventIfEmpty
  <2>2. ASSUME User # {}
        PROVE  stack' \in [User -> [Side -> Seq(1 .. events)]]
    BY <1>4, <2>2, DropEffect DEF Side
  <2>3. ASSUME User = {} PROVE FALSE
    BY <1>4, <2>3 DEF DropEventIfEmpty, StackInv, TaskOK, MessagesOK, Fits, Current,
       ConsumerOK, Offsets
  <2>4. QED
    BY <1>0, <2>1, <2>2, <2>3 DEF StackTypes, IsSequence
<1>5. CASE AddEntry
  <2> DEFINE entry == [offset |-> position, obj |-> Current.obj, change |-> Current.change]
  <2>1. /\ entries' = [entries EXCEPT ![target] = Append(entries[target], entry)]
        /\ stack' = stack /\ events' = events
    BY <1>5 DEF AddEntry
  <2>2. ASSUME NEW e \in Event PROVE IsSequence(entries'[e])
    BY <1>0, <2>1, AppendedTo
  <2>3. QED
    BY <1>0, <2>1, <2>2 DEF StackTypes, IsSequence
<1>6. CASE RestartRedis
  <2>1. /\ stack' = [u \in User |-> [side \in Side |-> << >>]]
        /\ entries' = [e \in Event |-> << >>] /\ events' = events
    BY <1>6 DEF RestartRedis
  <2>2. << >> \in Seq(1 .. events) /\ IsSequence(<< >>)
    BY EmptySeq, SequenceOf
  <2>3. QED
    BY <1>0, <2>1, <2>2 DEF StackTypes, IsSequence
<1>7. CASE Submits \/ TakeMessage \/ FindTopEvent \/ Ends \/ Stays
  BY <1>1, <1>7 DEF Submits, TakeMessage, FindTopEvent, Ends, Stays, stackVars
<1>8. QED
  BY <1>2, <1>3, <1>4, <1>5, <1>6, <1>7, StepCases DEF Moves

\* Messages stay as they are, and a new one fits.
LEMMA MessagesStep ==
    ASSUME StackInv, [Next]_vars
    PROVE  /\ MessagesOK'
           /\ \A k \in Offsets : k \in Offsets' /\ MessageAt(k)' = MessageAt(k)
<1>0. /\ MessagesOK /\ IsSequence(log)
      /\ events \in Nat /\ events' \in Nat /\ events <= events'
  BY EventsGrow DEF StackInv, ConsumerOK, StackTypes
<1>1. ASSUME NEW message, Fits(message) PROVE Fits(message)'
  BY <1>0, <1>1 DEF Fits
<1>2. CASE log' = log
  <2>1. Offsets' = Offsets /\ \A k \in Offsets : MessageAt(k)' = MessageAt(k)
    BY <1>2 DEF Offsets, MessageAt
  <2>2. QED
    BY <1>0, <1>2, <2>1 DEF MessagesOK, Fits, MessageAt, Offsets
<1>3. CASE Submits
  <2>1. PICK message : Fits(message) /\ log' = Append(log, message)
    BY <1>3 DEF Submits
  <2>2. events' = events
    BY <1>3 DEF Submits, stackVars
  <2>3. /\ Len(log) \in Nat /\ Len(log') = Len(log) + 1
        /\ \A i \in 1 .. Len(log) : log'[i] = log[i]
        /\ log'[Len(log) + 1] = message
    <3>1. /\ IsSequence(log') /\ Len(log) \in Nat /\ DOMAIN log' = 1 .. Len(log) + 1
          /\ \A i \in 1 .. Len(log) : log'[i] = log[i]
          /\ log'[Len(log) + 1] = message
      BY <1>0, <2>1, AppendedTo
    <3>2. DOMAIN log' = 1 .. Len(log') /\ Len(log') \in Nat
      BY <3>1, LenProperties DEF IsSequence
    <3>3. QED
      BY <3>1, <3>2
  <2>4. \A k \in Offsets : k \in Offsets' /\ MessageAt(k)' = MessageAt(k)
    BY <2>3 DEF Offsets, MessageAt
  <2>5. ASSUME NEW k \in Offsets' PROVE Fits(log'[k + 1])
    <3>1. CASE k = Len(log)
      BY <2>1, <2>3, <3>1
    <3>2. CASE k # Len(log)
      <4>1. k \in Offsets
        BY <2>3, <3>2 DEF Offsets
      <4>2. QED
        BY <1>0, <2>4, <4>1 DEF MessagesOK, MessageAt
    <3>3. QED
      BY <3>1, <3>2
  <2>6. QED
    BY <2>2, <2>4, <2>5 DEF MessagesOK, MessageAt, Fits
<1>4. CASE Opens \/ Moves \/ Ends \/ RestartRedis \/ Stays
  <2>1. log' = log
    BY <1>4 DEF Opens, Moves, Ends, Stays, TakeMessage, Fetch, TakeEntry, DropEventIfEmpty,
       FindTopEvent, AddEntry, Handled, RestartRedis, RedisRestart, consumerVars
  <2>2. QED
    BY <1>2, <2>1
<1>5. QED
  BY <1>3, <1>4, StepCases

\* The message being handled stays the same while it is handled.
LEMMA CurrentStays ==
    ASSUME StackInv, [Next]_vars, phase = "handling", position' = position
    PROVE  Current' = Current /\ Receiving(Current)' = Receiving(Current)
<1>1. position \in Offsets
  BY LenProperties DEF StackInv, ConsumerOK, Offsets, IsSequence
<1>2. Current' = Current
  BY <1>1, MessagesStep DEF Current
<1>3. QED
  BY <1>2 DEF Receiving, Other

\* The event the consumer works on stays where it found it.
LEMMA TaskStep == StackInv /\ [Next]_vars => TaskOK'
<1> SUFFICES ASSUME StackInv, [Next]_vars PROVE TaskOK'
  OBVIOUS
<1>0. TaskOK /\ stack \in [User -> [Side -> Seq(1 .. events)]]
  BY DEF StackInv, StackTypes
<1>1. CASE phase' # "handling" /\ step' = "take"
  BY <1>1 DEF TaskOK
<1>2. ASSUME UNCHANGED <<position, phase, stack, taskVars>> PROVE TaskOK'
  <2>1. step' = step /\ target' = target /\ phase' = phase /\ stack' = stack
    BY <1>2 DEF taskVars
  <2>2. phase = "handling" => Current' = Current /\ Receiving(Current)' = Receiving(Current)
    BY <1>2, CurrentStays
  <2>3. step = "add" => On(Current.user, Receiving(Current), target)'
    <3>1. step = "add" => phase = "handling" /\ On(Current.user, Receiving(Current), target)
      BY <1>0 DEF TaskOK
    <3>2. QED
      BY <2>1, <2>2, <3>1 DEF On
  <2>4. QED
    BY <1>0, <2>1, <2>2, <2>3 DEF TaskOK
<1>3. CASE Opens
  <2>1. step' = step /\ target' = target /\ phase' = phase /\ position' = position
    BY <1>3 DEF Opens, taskVars
  <2>2. phase = "handling" => Current' = Current /\ Receiving(Current)' = Receiving(Current)
    BY <2>1, CurrentStays
  <2>3. PICK u \in User, side \in Side : PushEvent(u, side)
    BY <1>3 DEF Opens
  <2>4. ASSUME NEW v, NEW other, NEW e, On(v, other, e) PROVE On(v, other, e)'
    <3>1. CASE v = u /\ other = side
      <4>1. stack[u][side] \in Seq(1 .. events)
        BY <1>0
      <4>2. stack'[u][side] = Append(stack[u][side], events + 1)
        BY <1>0, <2>3 DEF PushEvent
      <4>3. /\ DOMAIN stack[u][side] \subseteq DOMAIN stack'[u][side]
            /\ \A i \in DOMAIN stack[u][side] : stack'[u][side][i] = stack[u][side][i]
        <5>1. IsSequence(stack[u][side])
          BY <4>1, SequenceOf
        <5>2. /\ DOMAIN stack[u][side] = 1 .. Len(stack[u][side])
              /\ DOMAIN stack'[u][side] = 1 .. Len(stack[u][side]) + 1
              /\ Len(stack[u][side]) \in Nat
              /\ \A i \in 1 .. Len(stack[u][side]) : stack'[u][side][i] = stack[u][side][i]
          BY <4>2, <5>1, AppendedTo
        <5>3. QED
          BY <5>2
      <4>4. QED
        BY <2>4, <3>1, <4>3 DEF On
    <3>2. CASE ~ (v = u /\ other = side)
      <4>1. stack'[v][other] = stack[v][other]
        BY <1>0, <2>3, <3>2 DEF PushEvent
      <4>2. QED
        BY <2>4, <4>1 DEF On
    <3>3. QED
      BY <3>1, <3>2
  <2>5. ASSUME step = "add" PROVE On(Current.user, Receiving(Current), target)'
    <3>1. phase = "handling" /\ On(Current.user, Receiving(Current), target)
      BY <1>0, <2>5 DEF TaskOK
    <3>2. PICK v, other, e : /\ v = Current.user /\ other = Receiving(Current) /\ e = target
                             /\ On(v, other, e)
      BY <3>1
    <3>3. v = Current'.user /\ other = Receiving(Current)' /\ e = target'
      BY <2>1, <2>2, <3>1, <3>2
    <3>4. On(v, other, e)'
      BY <2>4, <3>2
    <3>5. QED
      BY <3>3, <3>4 DEF On
  <2>6. QED
    BY <1>0, <2>1, <2>2, <2>5 DEF TaskOK
<1>4. CASE TakeMessage
  <2>1. position' = position /\ log' = log /\ phase' = "handling" /\ phase = "polling"
        /\ step' = IF Current.source = "user" THEN "top" ELSE "take"
    BY <1>4 DEF TakeMessage, Fetch
  <2>2. Current' = Current
    BY <2>1 DEF Current, MessageAt
  <2>3. QED
    BY <2>1, <2>2 DEF TaskOK
<1>5. CASE TakeEntry \/ DropEventIfEmpty
  <2>1. /\ step = "take" \/ step = "drop"
        /\ step' = "drop" \/ step' = "top"
        /\ phase = "handling" /\ phase' = phase /\ position' = position
    BY <1>5 DEF TakeEntry, DropEventIfEmpty, consumerVars
  <2>2. Current' = Current /\ Current.source # "user"
    BY <1>0, <2>1, CurrentStays DEF TaskOK
  <2>3. QED
    BY <2>1, <2>2 DEF TaskOK
<1>6. CASE FindTopEvent
  <2> DEFINE pile == stack[Current.user][Receiving(Current)]
  <2>1. /\ phase = "handling" /\ phase' = phase /\ position' = position /\ stack' = stack
        /\ Top(pile) # NoEvent /\ target' = Top(pile) /\ step' = "add"
    BY <1>6 DEF FindTopEvent, consumerVars, stackVars
  <2>2. Current' = Current /\ Receiving(Current)' = Receiving(Current)
    BY <2>1, CurrentStays
  <2>3. Current.user \in User /\ Receiving(Current) \in Side
    <3>1. position \in Offsets
      BY <2>1, LenProperties DEF StackInv, ConsumerOK, Offsets, IsSequence
    <3>2. Fits(Current)
      BY <3>1 DEF StackInv, MessagesOK, Current
    <3>3. QED
      BY <3>2 DEF Fits, Receiving, Other, Side
  <2>4. pile \in Seq(1 .. events)
    BY <1>0, <2>3
  <2>5. pile # << >> /\ Top(pile) = pile[Len(pile)]
    BY <2>1 DEF Top, Last
  <2>6. Len(pile) \in DOMAIN pile
    BY <2>4, <2>5, EmptySeq, LenProperties
  <2>7. On(Current.user, Receiving(Current), target)'
    BY <2>1, <2>2, <2>5, <2>6 DEF On
  <2>8. QED
    BY <2>1, <2>7 DEF TaskOK
<1>7. CASE AddEntry \/ RestartRedis
  <2>1. phase # "handling" => step = "take"
    BY <1>0 DEF TaskOK
  <2>2. QED
    BY <1>1, <1>7, <2>1 DEF AddEntry, Handled, RestartRedis, RedisRestart
<1>8. CASE Submits \/ Stays
  BY <1>2, <1>8 DEF Submits, Stays, stackVars
<1>9. CASE Ends
  BY <1>1, <1>9 DEF Ends
<1>10. QED
  BY <1>3, <1>4, <1>5, <1>6, <1>7, <1>8, <1>9, StepCases DEF Moves

\* Where an event is after a step that opens none and drops none.
LEMMA OnStays ==
    ASSUME UNCHANGED stack, NEW u, NEW side, NEW e
    PROVE  On(u, side, e)' <=> On(u, side, e)
  BY DEF On

\* A fresh event is on one stack, and on no stack before.
LEMMA OnOpened ==
    ASSUME StackInv, NEW u \in User, NEW side \in Side, PushEvent(u, side),
           NEW v \in User, NEW other \in Side, NEW e
    PROVE  /\ On(v, other, e)' <=> On(v, other, e) \/ (v = u /\ other = side /\ e = events + 1)
           /\ On(v, other, e) => e \in 1 .. events
<1>0. stack \in [User -> [Side -> Seq(1 .. events)]]
  BY DEF StackInv, StackTypes
<1>1. On(v, other, e) => e \in 1 .. events
  <2>1. stack[v][other] \in Seq(1 .. events)
    BY <1>0
  <2>2. \A i \in DOMAIN stack[v][other] : stack[v][other][i] \in 1 .. events
    BY <2>1, ElementOfSeq, LenProperties
  <2>3. QED
    BY <2>2 DEF On
<1>2. CASE v = u /\ other = side
  <2> DEFINE pile == stack[u][side]
  <2>1. stack'[u][side] = Append(pile, events + 1) /\ IsSequence(pile)
    BY <1>0, SequenceOf DEF PushEvent
  <2>2. /\ DOMAIN pile = 1 .. Len(pile) /\ Len(pile) \in Nat
        /\ DOMAIN stack'[u][side] = 1 .. Len(pile) + 1
        /\ \A i \in 1 .. Len(pile) : stack'[u][side][i] = pile[i]
        /\ stack'[u][side][Len(pile) + 1] = events + 1
    BY <2>1, AppendedTo
  <2> HIDE DEF pile
  <2>3. On(v, other, e)' <=> \E i \in 1 .. Len(pile) + 1 : stack'[u][side][i] = e
    BY <1>2, <2>2 DEF On
  <2>4. On(v, other, e) <=> \E i \in 1 .. Len(pile) : pile[i] = e
    BY <1>2, <2>2 DEF On, pile
  <2>5. QED
    BY <1>1, <1>2, <2>2, <2>3, <2>4
<1>3. CASE ~ (v = u /\ other = side)
  <2>1. stack'[v][other] = stack[v][other]
    BY <1>0, <1>3 DEF PushEvent
  <2>2. QED
    BY <1>1, <1>3, <2>1 DEF On
<1>4. QED
  BY <1>2, <1>3

\* An event is where it was, but for one that is opened or dropped.
LEMMA OnStep ==
    ASSUME StackInv, [Next]_vars, ~ RestartRedis
    PROVE  \/ UNCHANGED stack
           \/ Opens
           \/ DropEventIfEmpty
  BY StepCases DEF Submits, Moves, Ends, Stays, stackVars, TakeMessage, TakeEntry,
     FindTopEvent, AddEntry

\* No step puts an event on a second stack.
LEMMA OneStackStep == StackInv /\ [Next]_vars => OneStack'
<1> SUFFICES ASSUME StackInv, [Next]_vars,
                    NEW u \in User, NEW v \in User, NEW side \in Side, NEW other \in Side,
                    NEW e \in Event, On(u, side, e)', On(v, other, e)'
             PROVE  v = u /\ other = side
  BY DEF OneStack, Event
<1>0. OneStack /\ events \in Nat
  BY DEF StackInv, StackTypes
<1>1. CASE UNCHANGED stack
  BY <1>0, <1>1, OnStays DEF OneStack
<1>2. CASE Opens
  <2>1. PICK w \in User, third \in Side : PushEvent(w, third)
    BY <1>2 DEF Opens
  <2>2. /\ On(u, side, e) \/ (u = w /\ side = third /\ e = events + 1)
        /\ On(v, other, e) \/ (v = w /\ other = third /\ e = events + 1)
        /\ On(u, side, e) \/ On(v, other, e) => e \in 1 .. events
    BY <2>1, OnOpened
  <2>3. e \in 1 .. events => e # events + 1
    BY <1>0
  <2>4. QED
    BY <1>0, <2>2, <2>3 DEF OneStack
<1>3. CASE DropEventIfEmpty
  BY <1>0, <1>3, DropOn DEF OneStack
<1>4. CASE RestartRedis
  BY <1>4 DEF RestartRedis, On
<1>5. QED
  BY <1>1, <1>2, <1>3, <1>4, OnStep

\* No step puts an event on a stack twice.
LEMMA NoneTwiceStep == StackInv /\ [Next]_vars => NoneTwice'
<1> SUFFICES ASSUME StackInv, [Next]_vars, NEW u \in User, NEW side \in Side,
                    NEW i \in DOMAIN stack'[u][side], NEW j \in DOMAIN stack'[u][side], i # j
             PROVE  stack'[u][side][i] # stack'[u][side][j]
  BY DEF NoneTwice
<1> DEFINE pile == stack[u][side]
<1>0. /\ \A m, n \in DOMAIN pile : m # n => pile[m] # pile[n]
      /\ events \in Nat /\ pile \in Seq(1 .. events)
      /\ DOMAIN pile = 1 .. Len(pile) /\ Len(pile) \in Nat
      /\ \A n \in 1 .. Len(pile) : pile[n] \in 1 .. events
  <2>1. events \in Nat /\ pile \in Seq(1 .. events)
    BY DEF StackInv, StackTypes
  <2>2. QED
    BY <2>1, LenProperties, ElementOfSeq DEF StackInv, NoneTwice
<1>1. CASE stack'[u][side] = pile
  BY <1>0, <1>1
<1>2. CASE Opens
  <2>1. PICK v \in User, other \in Side : PushEvent(v, other)
    BY <1>2 DEF Opens
  <2>2. CASE v = u /\ other = side
    <3>1. stack'[u][side] = Append(pile, events + 1) /\ IsSequence(pile)
      BY <1>0, <2>1, <2>2, SequenceOf DEF PushEvent, StackInv, StackTypes
    <3>2. /\ DOMAIN stack'[u][side] = 1 .. Len(pile) + 1
          /\ \A n \in 1 .. Len(pile) : stack'[u][side][n] = pile[n]
          /\ stack'[u][side][Len(pile) + 1] = events + 1
      BY <3>1, AppendedTo
    <3> HIDE DEF pile
    <3>3. CASE i \in 1 .. Len(pile) /\ j \in 1 .. Len(pile)
      BY <1>0, <3>2, <3>3
    <3>4. CASE i \in 1 .. Len(pile) /\ j = Len(pile) + 1
      BY <1>0, <3>2, <3>4
    <3>5. CASE i = Len(pile) + 1 /\ j \in 1 .. Len(pile)
      BY <1>0, <3>2, <3>5
    <3>6. QED
      BY <1>0, <3>2, <3>3, <3>4, <3>5
  <2>3. CASE ~ (v = u /\ other = side)
    BY <1>1, <2>1, <2>3 DEF PushEvent, StackInv, StackTypes
  <2>4. QED
    BY <2>2, <2>3
<1>3. ASSUME NEW n \in DOMAIN pile, stack'[u][side] = RemoveAt(pile, n)
      PROVE  stack'[u][side][i] # stack'[u][side][j]
  <2>1. /\ RemoveAt(pile, n) \in Seq(1 .. events)
        /\ Len(RemoveAt(pile, n)) = Len(pile) - 1
        /\ \A k \in 1 .. Len(pile) - 1 :
               RemoveAt(pile, n)[k] = IF k < n THEN pile[k] ELSE pile[k + 1]
    BY <1>0, RemoveAtProperties
  <2>2. i \in 1 .. Len(pile) - 1 /\ j \in 1 .. Len(pile) - 1
    BY <1>3, <2>1, LenProperties
  <2> DEFINE from(k) == IF k < n THEN k ELSE k + 1
  <2>3. \A k \in 1 .. Len(pile) - 1 :
            from(k) \in DOMAIN pile /\ stack'[u][side][k] = pile[from(k)]
    <3>1. TAKE k \in 1 .. Len(pile) - 1
    <3>2. k \in DOMAIN pile /\ k + 1 \in DOMAIN pile
      BY <1>0
    <3>3. stack'[u][side][k] = IF k < n THEN pile[k] ELSE pile[k + 1]
      BY <1>3, <2>1
    <3>4. QED
      BY <3>2, <3>3
  <2>4. from(i) # from(j)
    BY <1>0, <2>2
  <2> HIDE DEF from, pile
  <2>5. QED
    BY <1>0, <2>2, <2>3, <2>4
<1>4. CASE RestartRedis
  BY <1>4 DEF RestartRedis
<1>5. CASE DropEventIfEmpty
  BY <1>1, <1>3, <1>5, DropEffect
<1>6. QED
  BY <1>1, <1>2, <1>4, <1>5, OnStep

\* No step leaves entries in an event that is on no stack.
LEMMA NoneLostStep == StackInv /\ [Next]_vars => NoneLost'
<1> SUFFICES ASSUME StackInv, [Next]_vars, NEW e \in Event, entries'[e] # << >>
             PROVE  \E u \in User, side \in Side : On(u, side, e)'
  BY DEF NoneLost, Event
<1>0. NoneLost /\ DOMAIN entries = Event
  BY DEF StackInv, StackTypes
<1>1. CASE entries'[e] = entries[e]
  <2>1. PICK u \in User, side \in Side : On(u, side, e)
    BY <1>0, <1>1 DEF NoneLost
  <2>2. CASE UNCHANGED stack
    BY <2>1, <2>2, OnStays
  <2>3. CASE Opens
    <3>1. PICK w \in User, third \in Side : PushEvent(w, third)
      BY <2>3 DEF Opens
    <3>2. QED
      BY <2>1, <3>1, OnOpened
  <2>4. CASE DropEventIfEmpty
    BY <1>1, <2>1, <2>4, DropOn
  <2>5. CASE RestartRedis
    BY <2>5 DEF RestartRedis
  <2>6. QED
    BY <2>2, <2>3, <2>4, <2>5, OnStep
<1>2. CASE RestartRedis
  BY <1>2 DEF RestartRedis
<1>3. CASE TakeEntry
  <2>1. CASE e = Current.event
    <3>1. IsSequence(entries'[e])
      BY <1>3, <2>1, TakeEffect
    <3>2. 1 \in DOMAIN entries'[e]
      BY <3>1, EmptySeq, LenProperties DEF IsSequence
    <3>3. entries[e] # << >>
      BY <1>3, <2>1, <3>2, TakeEffect
    <3>4. stack' = stack
      BY <1>3 DEF TakeEntry
    <3>5. QED
      BY <1>0, <3>3, <3>4, OnStays DEF NoneLost
  <2>2. CASE e # Current.event
    BY <1>1, <1>3, <2>2, TakeEffect
  <2>3. QED
    BY <2>1, <2>2
<1>4. CASE AddEntry
  <2>1. CASE e = target
    <3>1. step = "add" /\ phase = "handling" /\ stack' = stack
      BY <1>4 DEF AddEntry
    <3>2. On(Current.user, Receiving(Current), target)
      BY <3>1 DEF StackInv, TaskOK
    <3>3. Current.user \in User /\ Receiving(Current) \in Side
      <4>1. position \in Offsets
        BY <3>1, LenProperties DEF StackInv, ConsumerOK, Offsets, IsSequence
      <4>2. Fits(Current)
        BY <4>1 DEF StackInv, MessagesOK, Current
      <4>3. QED
        BY <4>2 DEF Fits, Receiving, Other, Side
    <3>4. QED
      BY <2>1, <3>1, <3>2, <3>3, OnStays
  <2>2. CASE e # target
    BY <1>0, <1>1, <1>4, <2>2 DEF AddEntry
  <2>3. QED
    BY <2>1, <2>2
<1>5. CASE \/ Submits \/ Opens \/ TakeMessage \/ DropEventIfEmpty \/ FindTopEvent
           \/ Ends \/ Stays
  BY <1>1, <1>5 DEF Submits, Opens, TakeMessage, DropEventIfEmpty, FindTopEvent, Ends, Stays,
     stackVars
<1>6. QED
  BY <1>2, <1>3, <1>4, <1>5, StepCases DEF Moves

\* What an event on a stack holds stays genuine for that stack.
LEMMA EntriesFitStep == StackInv /\ [Next]_vars => EntriesFit'
<1> SUFFICES ASSUME StackInv, [Next]_vars,
                    NEW u \in User, NEW side \in Side, NEW e \in Event, On(u, side, e)',
                    NEW k \in DOMAIN entries'[e]
             PROVE  Genuine(entries[e][k], u, side)'
  BY DEF EntriesFit, Event, Genuine
<1>0. /\ EntriesFit /\ NoneLost /\ OneStack
      /\ DOMAIN entries = Event /\ \A f \in Event : IsSequence(entries[f])
  BY DEF StackInv, StackTypes
<1>1. ASSUME NEW entry, Genuine(entry, u, side) PROVE Genuine(entry, u, side)'
  <2>1. entry.offset \in Offsets
    BY <1>1 DEF Genuine
  <2>2. entry.offset \in Offsets' /\ MessageAt(entry.offset)' = MessageAt(entry.offset)
    BY <2>1, MessagesStep
  <2>3. QED
    BY <1>1, <2>2 DEF Genuine, Receiving, Other
<1>2. ASSUME On(u, side, e), \E i \in DOMAIN entries[e] : entries'[e][k] = entries[e][i]
      PROVE  Genuine(entries[e][k], u, side)'
  <2>1. PICK entry : entry = entries'[e][k] /\ Genuine(entry, u, side)
    BY <1>0, <1>2 DEF EntriesFit
  <2>2. Genuine(entry, u, side)'
    BY <1>1, <2>1
  <2>3. QED
    BY <2>1, <2>2 DEF Genuine
<1>3. CASE RestartRedis
  BY <1>3 DEF RestartRedis, On
<1>4. CASE TakeEntry
  <2>1. On(u, side, e)
    BY <1>4, OnStays DEF TakeEntry
  <2>2. \E i \in DOMAIN entries[e] : entries'[e][k] = entries[e][i]
    BY <1>4, TakeEffect
  <2>3. QED
    BY <1>2, <2>1, <2>2
<1>5. CASE Opens
  <2>1. entries' = entries
    BY <1>5 DEF Opens
  <2>2. PICK w \in User, third \in Side : PushEvent(w, third)
    BY <1>5 DEF Opens
  <2>3. entries[e] # << >>
    BY <2>1
  <2>4. PICK v \in User, other \in Side : On(v, other, e)
    BY <1>0, <2>3 DEF NoneLost
  <2>5. On(u, side, e) \/ e = events + 1
    BY <2>2, OnOpened
  <2>6. e \in 1 .. events /\ events \in Nat
    BY <2>2, <2>4, OnOpened DEF StackInv, StackTypes
  <2>7. On(u, side, e)
    BY <2>5, <2>6
  <2>8. QED
    BY <1>2, <2>1, <2>7
<1>6. CASE AddEntry
  <2> DEFINE entry == [offset |-> position, obj |-> Current.obj, change |-> Current.change]
  <2>1. /\ step = "add" /\ phase = "handling" /\ stack' = stack
        /\ entries' = [entries EXCEPT ![target] = Append(entries[target], entry)]
    BY <1>6 DEF AddEntry
  <2>2. On(u, side, e)
    BY <2>1, OnStays
  <2>3. CASE e = target
    <3>1. position \in Offsets
      BY <2>1, LenProperties DEF StackInv, ConsumerOK, Offsets, IsSequence
    <3>2. Fits(Current) /\ Current = MessageAt(position)
      BY <3>1 DEF StackInv, MessagesOK, Current
    <3>3. Current.user \in User /\ Receiving(Current) \in Side
      BY <3>2 DEF Fits, Receiving, Other, Side
    <3>4. On(Current.user, Receiving(Current), target)
      BY <2>1 DEF StackInv, TaskOK
    <3>5. Current.user = u /\ Receiving(Current) = side
      BY <1>0, <2>2, <2>3, <3>3, <3>4 DEF OneStack
    <3>6. Genuine(entry, u, side)
      BY <3>1, <3>2, <3>5 DEF Genuine
    <3>7. /\ DOMAIN entries'[e] = 1 .. Len(entries[e]) + 1
          /\ DOMAIN entries[e] = 1 .. Len(entries[e]) /\ Len(entries[e]) \in Nat
          /\ \A i \in 1 .. Len(entries[e]) : entries'[e][i] = entries[e][i]
          /\ entries'[e][Len(entries[e]) + 1] = entry
      <4>1. entries'[e] = Append(entries[e], entry) /\ IsSequence(entries[e])
        BY <1>0, <2>1, <2>3
      <4>2. QED
        BY <4>1, AppendedTo
    <3> HIDE DEF entry
    <3>8. CASE k \in 1 .. Len(entries[e])
      BY <1>2, <2>2, <3>7, <3>8
    <3>9. CASE k = Len(entries[e]) + 1
      <4>1. entries'[e][k] = entry
        BY <3>7, <3>9
      <4>2. PICK x : x = entry /\ Genuine(x, u, side)
        BY <3>6
      <4>3. Genuine(x, u, side)'
        BY <1>1, <4>2
      <4>4. QED
        BY <4>1, <4>2, <4>3 DEF Genuine
    <3>10. QED
      BY <3>7, <3>8, <3>9
  <2>4. CASE e # target
    <3>1. entries'[e] = entries[e]
      BY <1>0, <2>1, <2>4
    <3>2. QED
      BY <1>2, <2>2, <3>1
  <2>5. QED
    BY <2>3, <2>4
<1>7. CASE DropEventIfEmpty
  <2>1. entries' = entries
    BY <1>7 DEF DropEventIfEmpty
  <2>2. On(u, side, e)
    BY <1>7, DropOn
  <2>3. QED
    BY <1>2, <2>1, <2>2
<1>8. CASE Submits \/ TakeMessage \/ FindTopEvent \/ Ends \/ Stays
  <2>1. stack' = stack /\ entries' = entries
    BY <1>8 DEF Submits, TakeMessage, FindTopEvent, Ends, Stays, stackVars
  <2>2. QED
    BY <1>2, <2>1, OnStays
<1>9. QED
  BY <1>3, <1>4, <1>5, <1>6, <1>7, <1>8, StepCases DEF Moves

-----------------------------------------------------------------------------
(* The inductive invariant and what follows from it *)

\* The invariant holds initially.
LEMMA StackInvInit == Init => StackInv
<1> SUFFICES ASSUME Init PROVE StackInv
  OBVIOUS
<1> USE DEF Init, ConsumerInit
<1>1. IsSequence(<< >>) /\ Len(<< >>) = 0
  BY EmptySeq, SequenceOf
<1>2. ConsumerOK
  BY <1>1 DEF ConsumerOK, NoCommit
<1>3. StackTypes
  <2>1. \A S : << >> \in Seq(S)
    BY EmptySeq
  <2>2. stack \in [User -> [Side -> Seq(1 .. events)]]
    BY <2>1
  <2>3. QED
    BY <1>1, <2>2, EventAssumption DEF StackTypes
<1>4. MessagesOK
  BY <1>1 DEF MessagesOK, Offsets
<1>5. CallsOK /\ TaskOK
  BY DEF CallsOK, TaskOK, Idle
<1>6. EntriesFit /\ NoneTwice /\ OneStack /\ NoneLost
  BY DEF EntriesFit, NoneTwice, OneStack, NoneLost, On
<1>7. QED
  BY <1>2, <1>3, <1>4, <1>5, <1>6 DEF StackInv

\* Every step preserves the invariant.
LEMMA StackInvStep == StackInv /\ [Next]_vars => StackInv'
<1> SUFFICES ASSUME StackInv, [Next]_vars PROVE StackInv'
  OBVIOUS
<1>1. ConsumerOK' /\ StackTypes' /\ MessagesOK' /\ CallsOK' /\ TaskOK'
  BY ConsumerStep, StackTypesStep, MessagesStep, CallsStep, TaskStep DEF StackInv
<1>2. EntriesFit' /\ NoneTwice' /\ OneStack' /\ NoneLost'
  BY EntriesFitStep, NoneTwiceStep, OneStackStep, NoneLostStep
<1>3. QED
  BY <1>1, <1>2 DEF StackInv

\* Every reachable state satisfies the inductive invariant.
THEOREM StacksInductive == Spec => []StackInv
  BY StackInvInit, StackInvStep, PTL DEF Spec

\* Whatever the users ask for and whatever is crashed, replayed or lost: an
\* event is on one stack at most and once, its entries are changes of that
\* stack's user in the log, and entries are never out of reach (undo, redo and
\* begin_undo_event against move_entry_between_stacks).
THEOREM EventsAreSound == Spec => []EventsSound
<1>1. StackInv => EventsSound
  <2> SUFFICES ASSUME StackInv PROVE EventsSound
    OBVIOUS
  <2>0. events \in Nat /\ MaxEvents \in Nat /\ 1 .. events \subseteq Event
    BY EventAssumption DEF StackInv, StackTypes, Event
  <2>1. ASSUME NEW u \in User, NEW side \in Side, NEW i \in DOMAIN stack[u][side]
        PROVE  /\ stack[u][side][i] \in Event
               /\ On(u, side, stack[u][side][i])
    <3>1. stack[u][side] \in Seq(1 .. events)
      BY DEF StackInv, StackTypes
    <3>2. stack[u][side][i] \in 1 .. events
      BY <3>1, ElementOfSeq, LenProperties
    <3>3. QED
      BY <2>0, <3>2 DEF On
  <2>2. QED
    BY <2>0, <2>1 DEF EventsSound, StackInv, EntriesFit, NoneTwice, OneStack, NoneLost
<1>2. QED
  BY <1>1, StacksInductive, PTL
-----------------------------------------------------------------------------
(* Without faults: entries are conserved *)

\* An event that a request or a message of a user names is on no stack of
\* anybody else.
OwnersOK ==
    /\ \A u, v \in User, side \in Side :
           call[u].pc # "idle" /\ On(v, side, call[u].event) => v = u
    /\ \A k \in Offsets, v \in User, side \in Side :
           MessageAt(k).source # "user" /\ On(v, side, MessageAt(k).event)
               => v = MessageAt(k).user

\* No undo or redo of a user in the log up to offset k names event e.
Unnamed(u, e, k) ==
    \A j \in 0 .. k : MessageAt(j).user = u /\ MessageAt(j).source # "user"
        => MessageAt(j).event # e

\* An undo or redo whose changes are still to be sent, and a message of one
\* that is still to be handled, has an event that will not be dropped before
\* it: one that no message up to there names.
CallReceives ==
    \A u \in User : call[u].pc \in {"fetch", "send"} =>
        \E e \in 1 .. events : /\ On(u, Other(call[u].side), e)
                               /\ e # call[u].event
                               /\ Unnamed(u, e, Len(log) - 1)
MessageReceives ==
    \A k \in Offsets : k >= position /\ MessageAt(k).source # "user" =>
        \E e \in 1 .. events : /\ On(MessageAt(k).user, Receiving(MessageAt(k)), e)
                               /\ Unnamed(MessageAt(k).user, e, k)

\* Nothing is in an event before the consumer joins; what was refused or
\* passed over is behind it.
BehindPosition ==
    /\ committed = NoCommit
    /\ phase = "joining" => position = 0 /\ \A e \in Event : entries[e] = << >>
    /\ lost \cup refused \subseteq 0 .. position - 1

Counted(u, o) ==
    /\ IsFiniteSet(EntriesOf(u, o))
    /\ Cardinality(EntriesOf(u, o)) + InHand(u, o)
           = Cardinality(OwnChanges(u, o) \ (refused \cup lost))

\* What holds until the first fault.
QuietInv ==
    /\ OwnersOK
    /\ faults \in Nat
    /\ faults = 0 => /\ CallReceives
                     /\ MessageReceives
                     /\ BehindPosition
                     /\ \A u \in User, o \in Obj : Counted(u, o)

\* What a user asks for when every service answers.
Asks(u) ==
    \/ \E o \in Obj, c \in Kind : SubmitChange(u, o, c)
    \/ BeginUndoEvent(u)
    \/ \E side \in Side : StartUndo(u, side)
    \/ ReadEntries(u) \/ OpenEvent(u) \/ InvertChanges(u) \/ Send(u)

\* Faults are counted, and a step without one is the consumer's or a user's.
LEMMA FaultsStep ==
    ASSUME faults \in Nat, [Next]_vars
    PROVE  /\ faults' \in Nat
           /\ faults' = 0 => /\ faults = 0
                             /\ Consume \/ (\E u \in User : Asks(u)) \/ UNCHANGED vars
<1>1. CASE Consume
  BY <1>1 DEF Consume, JoinGroup, Join, TakeMessage, Fetch, TakeEntry, RefuseEntry,
     DropEventIfEmpty, FindTopEvent, RefuseMessage, AddEntry, Handled, consumerVars
<1>2. CASE Disturb
  BY <1>2 DEF Disturb, DropMessage, ConnectFailure, AbandonMessage, HandlerFailure,
     CrashService, Crash, RestartRedis, RedisRestart, Fault
<1>3. ASSUME NEW u \in User, Asks(u) PROVE faults' = faults
  BY <1>3 DEF Asks, SubmitChange, Produce, BeginUndoEvent, StartUndo, ReadEntries,
     OpenEvent, InvertChanges, Send, consumerVars
<1>4. ASSUME NEW u \in User, FailCall(u) PROVE faults' = faults + 1
  BY <1>4 DEF FailCall, Fault
<1>5. CASE UNCHANGED vars
  BY <1>5 DEF vars, consumerVars
<1>6. ASSUME NEW u \in User, Request(u) PROVE Asks(u) \/ FailCall(u)
  BY <1>6 DEF Request, Asks
<1>7. QED
  BY <1>1, <1>2, <1>3, <1>4, <1>5, <1>6 DEF Next

\* The message u sends next.
IsSent(message, u) ==
    /\ Send(u)
    /\ message.user = u /\ message.source = call[u].side /\ message.event = call[u].event

\* A step appends a user's own change, or one that an undo or redo sends.
LEMMA LogCases ==
    ASSUME StackInv, [Next]_vars
    PROVE  \/ log' = log
           \/ \E message :
                  /\ log' = Append(log, message)
                  /\ UNCHANGED <<position, committed, phase, lost, faults>>
                  /\ UNCHANGED <<stackVars, taskVars, refused>>
                  /\ \/ message.source = "user" /\ UNCHANGED call
                     \/ \E u \in User : IsSent(message, u)
<1>1. CASE Consume \/ Disturb
  BY <1>1 DEF Consume, JoinGroup, Join, TakeMessage, Fetch, TakeEntry, RefuseEntry,
     DropEventIfEmpty, FindTopEvent, RefuseMessage, AddEntry, Handled, consumerVars,
     Disturb, DropMessage, ConnectFailure, AbandonMessage, HandlerFailure,
     CrashService, Crash, RestartRedis, RedisRestart
<1>2. ASSUME NEW u \in User,
             \/ BeginUndoEvent(u) \/ (\E side \in Side : StartUndo(u, side))
             \/ ReadEntries(u) \/ OpenEvent(u) \/ InvertChanges(u) \/ FailCall(u)
      PROVE  log' = log
  BY <1>2 DEF BeginUndoEvent, StartUndo, ReadEntries, OpenEvent, InvertChanges, FailCall,
     consumerVars
<1>3. ASSUME NEW u \in User, NEW o \in Obj, NEW c \in Kind, SubmitChange(u, o, c)
      PROVE  \E message :
                  /\ log' = Append(log, message)
                  /\ UNCHANGED <<position, committed, phase, lost, faults>>
                  /\ UNCHANGED <<stackVars, taskVars, refused>>
                  /\ message.source = "user" /\ UNCHANGED call
  <2> DEFINE message ==
            [user |-> u, obj |-> o, change |-> c, source |-> "user",
             event |-> Top(stack[u]["undo"]),
             value |-> IF c = "Delete" THEN Absent ELSE Len(log)]
  <2>1. Produce(message) /\ UNCHANGED <<stackVars, taskVars, call, refused>>
    BY <1>3 DEF SubmitChange
  <2>2. message.source = "user"
    OBVIOUS
  <2>3. QED
    BY <2>1, <2>2 DEF Produce
<1>4. ASSUME NEW u \in User, Send(u)
      PROVE  \E message :
                  /\ log' = Append(log, message)
                  /\ UNCHANGED <<position, committed, phase, lost, faults>>
                  /\ UNCHANGED <<stackVars, taskVars, refused>>
                  /\ IsSent(message, u)
  <2> DEFINE c == call[u]
             change == c.changes[c.next]
             message == [user |-> u, obj |-> change.obj, change |-> change.change,
                         source |-> c.side, event |-> c.event, value |-> change.value]
  <2>1. Produce(message) /\ UNCHANGED <<stackVars, taskVars, refused>>
    BY <1>4 DEF Send
  <2>2. IsSent(message, u)
    BY <1>4 DEF IsSent
  <2>3. QED
    BY <2>1, <2>2 DEF Produce
<1>5. CASE UNCHANGED vars
  BY <1>5 DEF vars, consumerVars
<1>6. QED
  BY <1>1, <1>2, <1>3, <1>4, <1>5 DEF Next, Request

\* A message in the log after a step was there before, or it is the new one.
LEMMA LaterMessages ==
    ASSUME StackInv, [Next]_vars, NEW k \in Offsets'
    PROVE  \/ k \in Offsets /\ MessageAt(k)' = MessageAt(k)
           \/ /\ k = Len(log) /\ k \notin Offsets /\ Len(log') = Len(log) + 1
              /\ \/ MessageAt(k)'.source = "user" /\ UNCHANGED call
                 \/ \E u \in User : IsSent(MessageAt(k)', u)
<1>0. IsSequence(log) /\ Len(log) \in Nat
  BY LenProperties DEF StackInv, ConsumerOK, IsSequence
<1>1. CASE log' = log
  BY <1>1 DEF Offsets, MessageAt
<1>2. CASE log' # log
  <2>1. PICK message :
            /\ log' = Append(log, message)
            /\ \/ message.source = "user" /\ UNCHANGED call
               \/ \E u \in User : IsSent(message, u)
    BY <1>2, LogCases
  <2>2. /\ Len(log') = Len(log) + 1
        /\ \A i \in 1 .. Len(log) : log'[i] = log[i]
        /\ log'[Len(log) + 1] = message
    <3>1. /\ IsSequence(log') /\ DOMAIN log' = 1 .. Len(log) + 1
          /\ \A i \in 1 .. Len(log) : log'[i] = log[i]
          /\ log'[Len(log) + 1] = message
      BY <1>0, <2>1, AppendedTo
    <3>2. DOMAIN log' = 1 .. Len(log') /\ Len(log') \in Nat
      BY <3>1, LenProperties DEF IsSequence
    <3>3. QED
      BY <1>0, <3>1, <3>2
  <2>3. CASE k < Len(log)
    <3>1. k \in Offsets /\ k + 1 \in 1 .. Len(log)
      BY <1>0, <2>3 DEF Offsets
    <3>2. QED
      BY <2>2, <3>1 DEF MessageAt
  <2>4. CASE ~ (k < Len(log))
    <3>1. k = Len(log) /\ k \notin Offsets
      BY <1>0, <2>2, <2>4 DEF Offsets
    <3>2. MessageAt(k)' = message
      BY <2>2, <3>1 DEF MessageAt
    <3>3. QED
      BY <2>1, <2>2, <3>1, <3>2
  <2>5. QED
    BY <2>3, <2>4
<1>3. QED
  BY <1>1, <1>2

\* An event generated earlier is on no stack it was not on before.
LEMMA OnBefore ==
    ASSUME StackInv, [Next]_vars,
           NEW u \in User, NEW side \in Side, NEW e \in 1 .. events, On(u, side, e)'
    PROVE  On(u, side, e)
<1>1. CASE UNCHANGED stack
  BY <1>1, OnStays
<1>2. CASE Opens
  <2>1. PICK v \in User, other \in Side : PushEvent(v, other)
    BY <1>2 DEF Opens
  <2>2. On(u, side, e) \/ e = events + 1
    BY <2>1, OnOpened
  <2>3. events \in Nat
    BY DEF StackInv, StackTypes
  <2>4. QED
    BY <2>2, <2>3
<1>3. CASE DropEventIfEmpty
  BY <1>3, DropOn
<1>4. CASE RestartRedis
  BY <1>4 DEF RestartRedis, On
<1>5. QED
  BY <1>1, <1>2, <1>3, <1>4, OnStep

\* An event stays on its stack unless its user's message being handled names
\* it or Redis restarts.
LEMMA OnAfter ==
    ASSUME StackInv, [Next]_vars, ~ RestartRedis,
           NEW u \in User, NEW side \in Side, NEW e, On(u, side, e),
           ~ (DropEventIfEmpty /\ Current.user = u /\ Current.event = e)
    PROVE  On(u, side, e)'
<1>1. CASE UNCHANGED stack
  BY <1>1, OnStays
<1>2. CASE Opens
  BY <1>2, OnOpened DEF Opens
<1>3. CASE DropEventIfEmpty
  <2> DEFINE pile == stack[u][side]
  <2>0. stack \in [User -> [Side -> Seq(1 .. events)]]
    BY DEF StackInv, StackTypes
  <2>1. CASE Current.user # u
    <3>1. stack'[u] = stack[u]
      BY <1>3, <2>0, <2>1 DEF DropEventIfEmpty
    <3>2. QED
      BY <3>1 DEF On
  <2>2. CASE stack'[u][side] = pile
    BY <2>2 DEF On
  <2>3. ASSUME Current.event # e,
               NEW n \in DOMAIN pile, pile[n] = Current.event, stack'[u][side] = RemoveAt(pile, n)
        PROVE  On(u, side, e)'
    <3>1. pile \in Seq(1 .. events) /\ DOMAIN pile = 1 .. Len(pile) /\ Len(pile) \in Nat
      BY <2>0, LenProperties
    <3>2. /\ stack'[u][side] \in Seq(1 .. events) /\ Len(stack'[u][side]) = Len(pile) - 1
          /\ \A j \in 1 .. Len(pile) - 1 :
                 stack'[u][side][j] = IF j < n THEN pile[j] ELSE pile[j + 1]
      BY <2>3, <3>1, RemoveAtProperties
    <3>3. DOMAIN stack'[u][side] = 1 .. Len(pile) - 1
      BY <3>2, LenProperties
    <3>4. PICK i \in 1 .. Len(pile) : pile[i] = e
      BY <3>1 DEF On
    <3>5. i # n
      BY <2>3, <3>4
    <3>6. CASE i < n
      <4>1. i \in 1 .. Len(pile) - 1
        BY <3>1, <3>6
      <4>2. QED
        BY <3>2, <3>3, <3>4, <3>6, <4>1 DEF On
    <3>7. CASE i > n
      <4>1. i - 1 \in 1 .. Len(pile) - 1 /\ ~ (i - 1 < n) /\ (i - 1) + 1 = i
        BY <3>1, <3>7
      <4>2. stack'[u][side][i - 1] = pile[i]
        BY <3>2, <4>1
      <4>3. QED
        BY <3>3, <3>4, <4>1, <4>2 DEF On
    <3>8. QED
      BY <3>1, <3>5, <3>6, <3>7
  <2>4. QED
    BY <1>3, <2>1, <2>2, <2>3, DropEffect
<1>4. QED
  BY <1>1, <1>2, <1>3, OnStep

\* A request keeps the event it works on, and the side, from its start.
LEMMA CallKeeps ==
    ASSUME StackInv, [Next]_vars, NEW u \in User, call'[u].pc # "idle"
    PROVE  \/ \E side \in Side : StartUndo(u, side)
           \/ /\ call[u].pc # "idle" /\ call[u].event \in 1 .. events
              /\ call'[u].event = call[u].event /\ call'[u].side = call[u].side
              /\ \/ call'[u].pc = call[u].pc
                 \/ call'[u].pc \notin {"fetch", "send"}
                 \/ call[u].pc \in {"fetch", "send"}
                 \/ OpenEvent(u)
<1> DEFINE Starts == \E side \in Side : StartUndo(u, side)
           Kept ==
               /\ call[u].pc # "idle"
               /\ call'[u].event = call[u].event /\ call'[u].side = call[u].side
               /\ \/ call'[u].pc = call[u].pc
                  \/ call'[u].pc \notin {"fetch", "send"}
                  \/ call[u].pc \in {"fetch", "send"}
                  \/ OpenEvent(u)
<1>0. DOMAIN call = User /\ \A v \in User : call[v].pc # "idle" => CallOfUser(call[v])
  BY DEF StackInv, CallsOK
<1>1. ASSUME call'[u] = call[u] PROVE Kept
  BY <1>1
<1>2. ASSUME Consume \/ DropMessage \/ AbandonMessage PROVE call'[u] = call[u]
  BY <1>2 DEF Consume, JoinGroup, TakeMessage, TakeEntry, RefuseEntry,
     DropEventIfEmpty, FindTopEvent, RefuseMessage, AddEntry, DropMessage, AbandonMessage
<1>3. ASSUME CrashService \/ RestartRedis PROVE call'[u] = call[u]
  BY <1>0, <1>3 DEF CrashService, RestartRedis, CallsDie, Idle
<1>4. ASSUME NEW v \in User, Request(v), v # u PROVE call'[u] = call[u]
  BY <1>0, <1>4 DEF Request, SubmitChange, BeginUndoEvent, StartUndo, ReadEntries,
     OpenEvent, InvertChanges, Send, FailCall
<1>5. ASSUME Request(u)
      PROVE  Starts \/ Kept
  <2>1. CASE (\E o \in Obj, c \in Kind : SubmitChange(u, o, c)) \/ BeginUndoEvent(u)
    <3>1. call'[u] = call[u]
      BY <2>1 DEF SubmitChange, BeginUndoEvent
    <3>2. QED
      BY <1>1, <3>1
  <2>2. CASE ReadEntries(u)
    <3>1. /\ call[u].pc = "read"
          /\ call' = [call EXCEPT ![u] =
                 [[call[u] EXCEPT !.list = entries[call[u].event]] EXCEPT !.pc = "open"]]
      BY <1>0, <2>2 DEF ReadEntries
    <3>2. DOMAIN call[u] = CallFields
      BY <1>0, <3>1 DEF CallOfUser
    <3>3. /\ call'[u].pc = "open"
          /\ call'[u].event = call[u].event /\ call'[u].side = call[u].side
      BY <1>0, <3>1, <3>2 DEF CallFields
    <3>4. QED
      BY <3>1, <3>3
  <2>3. CASE OpenEvent(u)
    <3>1. call[u].pc = "open" /\ call' = [call EXCEPT ![u] = [call[u] EXCEPT !.pc = "fetch"]]
      BY <1>0, <2>3 DEF OpenEvent
    <3>2. DOMAIN call[u] = CallFields
      BY <1>0, <3>1 DEF CallOfUser
    <3>3. QED
      BY <1>0, <2>3, <3>1, <3>2 DEF CallFields
  <2>4. CASE InvertChanges(u)
    <3>1. PICK changes, next, late :
              \/ call' = [call EXCEPT ![u] = Idle]
              \/ call' = [call EXCEPT ![u] =
                     [call[u] EXCEPT !.pc = "send", !.changes = changes,
                                     !.next = next, !.late = late]]
      BY <2>4 DEF InvertChanges
    <3>2. call[u].pc = "fetch" /\ DOMAIN call[u] = CallFields
      BY <1>0, <2>4 DEF InvertChanges, CallOfUser
    <3>3. CASE call' = [call EXCEPT ![u] = Idle]
      BY <1>0, <3>3 DEF Idle
    <3>4. CASE call' = [call EXCEPT ![u] =
                     [call[u] EXCEPT !.pc = "send", !.changes = changes,
                                     !.next = next, !.late = late]]
      <4>1. call'[u] = [call[u] EXCEPT !.pc = "send", !.changes = changes,
                                       !.next = next, !.late = late]
        BY <1>0, <3>4
      <4>2. QED
        BY <3>2, <4>1 DEF CallFields
    <3>5. QED
      BY <3>1, <3>3, <3>4
  <2>5. CASE Send(u)
    <3>1. PICK next : \/ call' = [call EXCEPT ![u] = Idle]
                      \/ call' = [call EXCEPT ![u] = [call[u] EXCEPT !.next = next]]
      BY <2>5 DEF Send
    <3>2. call[u].pc = "send" /\ DOMAIN call[u] = CallFields
      BY <1>0, <2>5 DEF Send, CallOfUser
    <3>3. CASE call' = [call EXCEPT ![u] = Idle]
      BY <1>0, <3>3 DEF Idle
    <3>4. CASE call' = [call EXCEPT ![u] = [call[u] EXCEPT !.next = next]]
      <4>1. call'[u] = [call[u] EXCEPT !.next = next]
        BY <1>0, <3>4
      <4>2. QED
        BY <3>2, <4>1 DEF CallFields
    <3>5. QED
      BY <3>1, <3>3, <3>4
  <2>6. CASE FailCall(u)
    BY <1>0, <2>6 DEF FailCall, Idle
  <2> HIDE DEF Kept
  <2>7. CASE Starts
    BY <2>7
  <2> HIDE DEF Starts
  <2>8. \/ (\E o \in Obj, c \in Kind : SubmitChange(u, o, c)) \/ BeginUndoEvent(u)
        \/ Starts \/ ReadEntries(u) \/ OpenEvent(u) \/ InvertChanges(u) \/ Send(u)
        \/ FailCall(u)
    BY <1>5 DEF Request, Starts
  <2>9. QED
    BY <2>1, <2>2, <2>3, <2>4, <2>5, <2>6, <2>7, <2>8
<1>6. ASSUME UNCHANGED vars PROVE call'[u] = call[u]
  BY <1>6 DEF vars
<1> HIDE DEF Kept, Starts
<1>7. Starts \/ Kept
  <2>1. Consume \/ Disturb \/ (\E v \in User : Request(v)) \/ UNCHANGED vars
    BY DEF Next
  <2>2. call'[u] = call[u] \/ Request(u)
    BY <1>2, <1>3, <1>4, <1>6, <2>1 DEF Disturb
  <2>3. QED
    BY <1>1, <1>5, <2>2
<1>8. QED
  BY <1>0, <1>7 DEF CallOfUser, Kept, Starts

\* The top of a stack is on it.
LEMMA TopIsOn ==
    ASSUME StackInv, NEW u \in User, NEW side \in Side, stack[u][side] # << >>
    PROVE  On(u, side, Top(stack[u][side])) /\ Top(stack[u][side]) \in 1 .. events
<1>1. stack[u][side] \in Seq(1 .. events)
  BY DEF StackInv, StackTypes
<1>2. Len(stack[u][side]) \in DOMAIN stack[u][side]
  BY <1>1, EmptySeq, LenProperties
<1>3. Top(stack[u][side]) = stack[u][side][Len(stack[u][side])]
  BY DEF Top, Last
<1>4. QED
  BY <1>1, <1>2, <1>3, ElementOfSeq, LenProperties DEF On

\* What a user's undos and redos name stays the user's own.
LEMMA OwnersStep == StackInv /\ OwnersOK /\ [Next]_vars => OwnersOK'
<1> SUFFICES ASSUME StackInv, OwnersOK, [Next]_vars PROVE OwnersOK'
  OBVIOUS
<1>0. OneStack /\ 1 .. events \subseteq Event /\ MessagesOK
  BY EventAssumption DEF StackInv, StackTypes, Event
<1>1. ASSUME NEW u \in User, NEW v \in User, NEW side \in Side,
             call'[u].pc # "idle", On(v, side, call[u].event)'
      PROVE  v = u
  <2>1. PICK e : e = call'[u].event
    OBVIOUS
  <2>2. On(v, side, e)'
    BY <1>1, <2>1 DEF On
  <2>3. ASSUME NEW other \in Side, StartUndo(u, other) PROVE v = u
    <3>1. /\ stack[u][other] # << >> /\ stack' = stack
          /\ e = Top(stack[u][other])
      BY <2>1, <2>3 DEF StartUndo, stackVars, StackInv, CallsOK
    <3>2. On(u, other, e) /\ e \in Event
      BY <1>0, <3>1, TopIsOn
    <3>3. On(v, side, e)
      BY <2>2, <3>1, OnStays
    <3>4. QED
      BY <1>0, <3>2, <3>3 DEF OneStack
  <2>4. ASSUME call[u].pc # "idle", call[u].event \in 1 .. events, call'[u].event = call[u].event
        PROVE  v = u
    <3>1. On(v, side, e)
      BY <2>1, <2>2, <2>4, OnBefore
    <3>2. QED
      BY <2>1, <2>4, <3>1 DEF OwnersOK
  <2>5. QED
    BY <1>1, <2>3, <2>4, CallKeeps
<1>2. ASSUME NEW k \in Offsets', NEW v \in User, NEW side \in Side,
             MessageAt(k)'.source # "user", On(v, side, MessageAt(k).event)'
      PROVE  v = MessageAt(k)'.user
  <2>1. PICK e : e = MessageAt(k)'.event
    OBVIOUS
  <2>2. On(v, side, e)'
    BY <1>2, <2>1 DEF On
  <2>3. CASE k \in Offsets /\ MessageAt(k)' = MessageAt(k)
    <3>1. e \in 1 .. events
      BY <1>0, <1>2, <2>1, <2>3 DEF MessagesOK, Fits
    <3>2. On(v, side, e)
      BY <2>2, <3>1, OnBefore
    <3>3. QED
      BY <1>2, <2>1, <2>3, <3>2 DEF OwnersOK
  <2>4. ASSUME NEW u \in User, IsSent(MessageAt(k)', u) PROVE v = MessageAt(k)'.user
    <3>1. /\ call[u].pc # "idle" /\ e = call[u].event /\ MessageAt(k)'.user = u
      BY <2>1, <2>4 DEF IsSent, Send
    <3>2. call[u].event \in 1 .. events
      BY <3>1 DEF StackInv, CallsOK, CallOfUser
    <3>3. On(v, side, e)
      BY <2>2, <3>1, <3>2, OnBefore
    <3>4. QED
      BY <3>1, <3>3 DEF OwnersOK
  <2>5. QED
    BY <1>2, <2>3, <2>4, LaterMessages
<1>3. QED
  BY <1>1, <1>2 DEF OwnersOK

\* The log before a step is not rewritten by it.
LEMMA UnnamedStays ==
    ASSUME StackInv, [Next]_vars, NEW u, NEW e, NEW k \in Offsets, Unnamed(u, e, k)
    PROVE  Unnamed(u, e, k)'
<1>1. \A j \in 0 .. k : j \in Offsets
  <2>1. Len(log) \in Nat
    BY LenProperties DEF StackInv, ConsumerOK, IsSequence
  <2>2. QED
    BY <2>1 DEF Offsets
<1>2. \A j \in 0 .. k : MessageAt(j)' = MessageAt(j)
  BY <1>1, MessagesStep
<1>3. QED
  BY <1>2 DEF Unnamed

\* A step names an event only by sending what a request chose it for.
LEMMA UnnamedGrows ==
    ASSUME StackInv, [Next]_vars, NEW u \in User, NEW e,
           Unnamed(u, e, Len(log) - 1), call[u].pc = "send" => call[u].event # e
    PROVE  Unnamed(u, e, Len(log) - 1)'
<1>1. ASSUME NEW k \in Offsets', MessageAt(k)'.user = u, MessageAt(k)'.source # "user"
      PROVE  MessageAt(k)'.event # e
  <2>1. CASE k \in Offsets /\ MessageAt(k)' = MessageAt(k)
    BY <1>1, <2>1 DEF Unnamed, Offsets
  <2>2. ASSUME NEW v \in User, IsSent(MessageAt(k)', v) PROVE MessageAt(k)'.event # e
    BY <1>1, <2>2 DEF IsSent, Send
  <2>3. QED
    BY <1>1, <2>1, <2>2, LaterMessages
<1>2. QED
  BY <1>1 DEF Unnamed, Offsets

\* The message the consumer drops an event for names it.
LEMMA DroppedIsNamed ==
    ASSUME StackInv, DropEventIfEmpty, NEW u, NEW e, NEW k \in Offsets, k >= position,
           Unnamed(u, e, k), Current.user = u
    PROVE  Current.event # e
<1>1. position \in Offsets /\ position \in 0 .. k
  BY LenProperties DEF DropEventIfEmpty, StackInv, ConsumerOK, Offsets, IsSequence
<1>2. Current.source # "user"
  BY DEF DropEventIfEmpty, StackInv, TaskOK
<1>3. QED
  BY <1>1, <1>2 DEF Unnamed, Current

\* Without a fault the consumer only goes forward.
LEMMA GoesForward ==
    ASSUME StackInv, BehindPosition, faults \in Nat, [Next]_vars, faults' = 0
    PROVE  position' \in Nat /\ position <= position' /\ ~ RestartRedis
<1>0. position \in Nat /\ Len(log) \in Nat
  BY LenProperties DEF StackInv, ConsumerOK, IsSequence
<1>1. ~ RestartRedis
  BY DEF RestartRedis, RedisRestart, Fault
<1>2. CASE JoinGroup
  BY <1>0, <1>1, <1>2 DEF JoinGroup, Join, BehindPosition
<1>3. CASE position' = position \/ position' = position + 1
  BY <1>0, <1>1, <1>3
<1>4. CASE Consume /\ ~ JoinGroup
  BY <1>3, <1>4 DEF Consume, TakeMessage, Fetch, TakeEntry, RefuseEntry,
     DropEventIfEmpty, FindTopEvent, RefuseMessage, AddEntry, Handled, consumerVars
<1>5. ASSUME NEW u \in User, Asks(u) PROVE position' = position
  BY <1>5 DEF Asks, SubmitChange, Produce, BeginUndoEvent, StartUndo, ReadEntries,
     OpenEvent, InvertChanges, Send, consumerVars
<1>6. CASE UNCHANGED vars
  BY <1>3, <1>6 DEF vars, consumerVars
<1>7. QED
  BY <1>2, <1>3, <1>4, <1>5, <1>6, FaultsStep

\* An undo or redo at work keeps an event that nothing before its changes
\* can drop: the one it opened.
LEMMA CallReceivesStep ==
    ASSUME StackInv, CallReceives, BehindPosition, faults \in Nat, [Next]_vars, faults' = 0
    PROVE  CallReceives'
<1> SUFFICES ASSUME NEW u \in User, call'[u].pc \in {"fetch", "send"}
             PROVE  \E e \in 1 .. events' : /\ On(u, Other(call[u].side), e)'
                                            /\ e # call'[u].event
                                            /\ Unnamed(u, e, Len(log) - 1)'
  BY DEF CallReceives
<1>a. PICK side : side = Other(call'[u].side)
  OBVIOUS
<1>b. SUFFICES \E e \in 1 .. events' : /\ On(u, side, e)'
                                       /\ e # call'[u].event
                                       /\ Unnamed(u, e, Len(log) - 1)'
  BY <1>a DEF On
<1>0. /\ events \in Nat /\ events' \in Nat /\ events <= events' /\ ~ RestartRedis
      /\ DOMAIN call = User /\ MessagesOK /\ Len(log) \in Nat
      /\ stack \in [User -> [Side -> Seq(1 .. events)]]
  BY EventsGrow, GoesForward, LenProperties
  DEF StackInv, StackTypes, CallsOK, ConsumerOK, IsSequence
<1>1. ASSUME NEW s \in Side, StartUndo(u, s) PROVE FALSE
  BY <1>0, <1>1 DEF StartUndo
<1>2. CASE OpenEvent(u) /\ call[u].pc # "idle"
          /\ call'[u].event = call[u].event /\ call'[u].side = call[u].side
  <2>0. PICK e : e = events + 1
    OBVIOUS
  <2>1. PushEvent(u, side) /\ log' = log /\ events' = e
    BY <1>a, <1>2, <2>0 DEF OpenEvent, consumerVars, PushEvent
  <2>2. side \in Side /\ call[u].event \in 1 .. events
    BY <1>a, <1>2 DEF Other, Side, StackInv, CallsOK, CallOfUser
  <2>3. On(u, side, e)' /\ e \in 1 .. events'
    BY <1>0, <2>0, <2>1, <2>2, OnOpened
  <2>4. e # call[u].event
    BY <1>0, <2>0, <2>2
  <2>5. Unnamed(u, e, Len(log) - 1)'
    <3>1. \A k \in Offsets : MessageAt(k).source # "user" => MessageAt(k).event # e
      BY <1>0, <2>0 DEF MessagesOK, Fits
    <3>2. QED
      BY <2>1, <3>1 DEF Unnamed, Offsets, MessageAt
  <2>6. QED
    BY <1>2, <2>3, <2>4, <2>5
<1>3. CASE /\ call[u].pc \in {"fetch", "send"}
           /\ call'[u].event = call[u].event /\ call'[u].side = call[u].side
  <2>1. PICK e \in 1 .. events : /\ On(u, side, e) /\ e # call[u].event
                                 /\ Unnamed(u, e, Len(log) - 1)
    BY <1>a, <1>3 DEF CallReceives
  <2>2. side \in Side
    BY <1>a DEF Other, Side
  <2>3. ASSUME DropEventIfEmpty, Current.user = u PROVE Current.event # e
    <3>1. Len(log) - 1 \in Offsets /\ Len(log) - 1 >= position
      BY <1>0, <2>3 DEF DropEventIfEmpty, StackInv, ConsumerOK, Offsets
    <3>2. QED
      BY <2>1, <2>3, <3>1, DroppedIsNamed
  <2>4. On(u, side, e)'
    BY <1>0, <2>1, <2>2, <2>3, OnAfter
  <2>5. Unnamed(u, e, Len(log) - 1)'
    BY <2>1, UnnamedGrows
  <2>6. e \in 1 .. events'
    BY <1>0
  <2>7. QED
    BY <1>3, <2>1, <2>4, <2>5, <2>6
<1>4. QED
  BY <1>1, <1>2, <1>3, CallKeeps

\* The event that is to receive an undone or redone change stays until the
\* consumer gets to it.
LEMMA MessageReceivesStep ==
    ASSUME StackInv, CallReceives, MessageReceives, BehindPosition, faults \in Nat,
           [Next]_vars, faults' = 0
    PROVE  MessageReceives'
<1> SUFFICES ASSUME NEW k \in Offsets', k >= position', MessageAt(k)'.source # "user"
             PROVE  \E e \in 1 .. events' :
                        /\ On(MessageAt(k).user, Receiving(MessageAt(k)), e)'
                        /\ Unnamed(MessageAt(k).user, e, k)'
  BY DEF MessageReceives
<1>0. /\ events \in Nat /\ events' \in Nat /\ events <= events' /\ ~ RestartRedis
      /\ position \in Nat /\ position' \in Nat /\ position <= position'
      /\ MessagesOK /\ Len(log) \in Nat
  BY EventsGrow, GoesForward, LenProperties
  DEF StackInv, StackTypes, ConsumerOK, IsSequence
<1>1. PICK u, side : u = MessageAt(k)'.user /\ side = Receiving(MessageAt(k))'
  OBVIOUS
<1>2. SUFFICES \E e \in 1 .. events' : On(u, side, e)' /\ Unnamed(u, e, k)'
  BY <1>1 DEF On, Unnamed
<1>3. CASE k \in Offsets /\ MessageAt(k)' = MessageAt(k)
  <2>1. u = MessageAt(k).user /\ side = Receiving(MessageAt(k)) /\ Fits(MessageAt(k))
    BY <1>0, <1>1, <1>3 DEF Receiving, Other, MessagesOK
  <2>2. u \in User /\ side \in Side
    BY <1>3, <2>1 DEF Fits, Receiving, Other, Side
  <2>3. k >= position
    BY <1>0, <1>3 DEF Offsets
  <2>4. PICK e \in 1 .. events : On(u, side, e) /\ Unnamed(u, e, k)
    BY <1>3, <2>1, <2>3 DEF MessageReceives
  <2>5. ~ (DropEventIfEmpty /\ Current.user = u /\ Current.event = e)
    BY <1>3, <2>3, <2>4, DroppedIsNamed
  <2>6. On(u, side, e)'
    BY <1>0, <2>2, <2>4, <2>5, OnAfter
  <2>7. Unnamed(u, e, k)'
    BY <1>3, <2>4, UnnamedStays
  <2>8. e \in 1 .. events'
    BY <1>0
  <2>9. QED
    BY <2>6, <2>7, <2>8
<1>4. ASSUME NEW v \in User, IsSent(MessageAt(k)', v), k = Len(log), Len(log') = Len(log) + 1
      PROVE  \E e \in 1 .. events' : On(u, side, e)' /\ Unnamed(u, e, k)'
  <2>1. /\ u = v /\ side = Other(call[v].side) /\ call[v].pc = "send"
    BY <1>1, <1>4 DEF IsSent, Send, Receiving, Other
  <2>2. PICK e \in 1 .. events : /\ On(u, side, e) /\ e # call[v].event
                                 /\ Unnamed(u, e, Len(log) - 1)
    BY <2>1 DEF CallReceives
  <2>3. stack' = stack
    BY <1>4 DEF IsSent, Send, stackVars
  <2>4. On(u, side, e)'
    BY <2>2, <2>3, OnStays
  <2>5. Unnamed(u, e, Len(log) - 1)'
    BY <2>1, <2>2, UnnamedGrows
  <2>6. Unnamed(u, e, k)'
    BY <1>0, <1>4, <2>5 DEF Unnamed
  <2>7. e \in 1 .. events'
    BY <1>0
  <2>8. QED
    BY <2>4, <2>6, <2>7
<1>5. QED
  BY <1>3, <1>4, LaterMessages

\* What was refused or passed over stays behind the consumer.
LEMMA BehindPositionStep ==
    ASSUME StackInv, BehindPosition, faults \in Nat, [Next]_vars, faults' = 0
    PROVE  BehindPosition'
<1>0. position \in Nat /\ Len(log) \in Nat
  BY LenProperties DEF StackInv, ConsumerOK, IsSequence
<1>1. CASE JoinGroup
  <2>1. /\ position' = Len(log) /\ lost' = lost \cup position .. Len(log) - 1
        /\ phase' = "polling" /\ committed' = committed /\ refused' = refused /\ position = 0
    BY <1>1 DEF JoinGroup, Join, BehindPosition
  <2>2. lost \cup refused \subseteq 0 .. position - 1
    BY DEF BehindPosition
  <2>3. lost' \cup refused' \subseteq 0 .. position' - 1
    BY <1>0, <2>1, <2>2
  <2>4. QED
    BY <2>1, <2>3 DEF BehindPosition
<1>2. CASE RefuseEntry \/ RefuseMessage
  <2>1. /\ position' = position + 1 /\ refused' = refused \cup {position} /\ lost' = lost
        /\ phase' = "polling" /\ committed' = committed
    BY <1>2 DEF RefuseEntry, RefuseMessage, Handled
  <2>2. lost \cup refused \subseteq 0 .. position - 1
    BY DEF BehindPosition
  <2>3. lost' \cup refused' \subseteq 0 .. position' - 1
    BY <1>0, <2>1, <2>2
  <2>4. QED
    BY <2>1, <2>3 DEF BehindPosition
<1>3. CASE AddEntry
  <2>1. /\ position' = position + 1 /\ refused' = refused /\ lost' = lost
        /\ phase' = "polling" /\ committed' = committed
    BY <1>3 DEF AddEntry, Handled
  <2>2. lost \cup refused \subseteq 0 .. position - 1
    BY DEF BehindPosition
  <2>3. lost' \cup refused' \subseteq 0 .. position' - 1
    BY <1>0, <2>1, <2>2
  <2>4. QED
    BY <2>1, <2>3 DEF BehindPosition
<1>4. CASE TakeMessage \/ TakeEntry
  <2>1. /\ position' = position /\ refused' = refused /\ lost' = lost
        /\ phase' = "handling" /\ committed' = committed
    BY <1>4 DEF TakeMessage, Fetch, TakeEntry, consumerVars
  <2>2. QED
    BY <2>1 DEF BehindPosition
<1>5. CASE UNCHANGED <<position, committed, phase, lost, refused, entries>>
  BY <1>5 DEF BehindPosition
<1>6. CASE DropEventIfEmpty \/ FindTopEvent
  BY <1>5, <1>6 DEF DropEventIfEmpty, FindTopEvent, consumerVars, stackVars
<1>7. ASSUME NEW u \in User, Asks(u)
      PROVE  UNCHANGED <<position, committed, phase, lost, refused, entries>>
  BY <1>7 DEF Asks, SubmitChange, Produce, BeginUndoEvent, StartUndo, ReadEntries,
     OpenEvent, InvertChanges, Send, consumerVars, stackVars
<1>8. CASE UNCHANGED vars
  BY <1>5, <1>8 DEF vars, consumerVars, stackVars
<1>9. QED
  BY <1>1, <1>2, <1>3, <1>4, <1>5, <1>6, <1>7, <1>8, FaultsStep DEF Consume

\* The places of a user's changes of an object in the events.
LEMMA PlaceOf ==
    ASSUME NEW u, NEW o, NEW place
    PROVE  place \in EntriesOf(u, o) <=>
               \E e \in 1 .. events : \E i \in DOMAIN entries[e] :
                   /\ place = <<e, i>>
                   /\ entries[e][i].obj = o /\ MessageAt(entries[e][i].offset).user = u
  BY DEF EntriesOf

\* An entry is of a message in the log, of the user on whose stack it is; the
\* log keeps it.
LEMMA EntryIsOfMessage ==
    ASSUME StackInv, [Next]_vars, NEW e \in 1 .. events, NEW i \in DOMAIN entries[e]
    PROVE  \E k \in Offsets, u \in User, side \in Side :
               /\ k = entries[e][i].offset
               /\ MessageAt(k)' = MessageAt(k) /\ MessageAt(k).user = u
               /\ On(u, side, e)
<1>1. e \in Event /\ entries[e] # << >>
  BY EventAssumption DEF StackInv, StackTypes, Event
<1>2. PICK u \in User, side \in Side : On(u, side, e)
  BY <1>1 DEF StackInv, NoneLost
<1>3. Genuine(entries[e][i], u, side)
  BY <1>1, <1>2 DEF StackInv, EntriesFit
<1>4. entries[e][i].offset \in Offsets /\ MessageAt(entries[e][i].offset).user = u
  BY <1>3 DEF Genuine
<1>5. PICK k \in Offsets : k = entries[e][i].offset
  BY <1>4
<1>6. MessageAt(k)' = MessageAt(k)
  BY MessagesStep
<1>7. QED
  BY <1>2, <1>4, <1>5, <1>6

\* An event has no entries before it is generated.
LEMMA FreshIsEmpty ==
    ASSUME StackInv, NEW e \in Event, e \notin 1 .. events
    PROVE  entries[e] = << >>
<1>1. ASSUME NEW u \in User, NEW side \in Side, On(u, side, e) PROVE FALSE
  <2>1. stack[u][side] \in Seq(1 .. events)
    BY DEF StackInv, StackTypes
  <2>2. QED
    BY <1>1, <2>1, ElementOfSeq, LenProperties DEF On
<1>2. QED
  BY <1>1 DEF StackInv, NoneLost

\* Only the consumer changes what is in the events.
LEMMA PlacesStay ==
    ASSUME StackInv, [Next]_vars, entries' = entries, NEW u, NEW o
    PROVE  EntriesOf(u, o)' = EntriesOf(u, o)
<1>0. events \in Nat /\ events' \in Nat /\ events <= events' /\ events' <= MaxEvents
  BY EventsGrow, StackTypesStep DEF StackInv, StackTypes
<1>1. ASSUME NEW e \in 1 .. events, NEW i \in DOMAIN entries[e]
      PROVE  MessageAt(entries[e][i].offset)' = MessageAt(entries[e][i].offset)
  <2>1. PICK k \in Offsets : k = entries[e][i].offset /\ MessageAt(k)' = MessageAt(k)
    BY EntryIsOfMessage
  <2>2. k = entries'[e][i].offset
    BY <2>1
  <2>3. QED
    BY <2>1, <2>2 DEF MessageAt
<1>2. ASSUME NEW e \in 1 .. events', e \notin 1 .. events PROVE entries[e] = << >>
  <2>1. e \in Event
    BY <1>0, EventAssumption DEF Event
  <2>2. QED
    BY <1>2, <2>1, FreshIsEmpty
<1>3. EntriesOf(u, o)' =
          UNION {{<<e, i>> : i \in {j \in DOMAIN entries[e] :
                      entries[e][j].obj = o /\ MessageAt(entries[e][j].offset)'.user = u}}
                 : e \in 1 .. events'}
  BY DEF EntriesOf
<1>4. ASSUME NEW place PROVE place \in EntriesOf(u, o)' <=> place \in EntriesOf(u, o)
  <2>1. place \in EntriesOf(u, o)' <=>
            \E e \in 1 .. events' : \E i \in DOMAIN entries[e] :
                /\ place = <<e, i>> /\ entries[e][i].obj = o
                /\ MessageAt(entries[e][i].offset)'.user = u
    BY <1>3
  <2>2. \A e \in 1 .. events : e \in 1 .. events'
    BY <1>0
  <2>3. \A e \in 1 .. events' : entries[e] # << >> => e \in 1 .. events
    BY <1>2
  <2>4. ASSUME NEW e, NEW i \in DOMAIN entries[e] PROVE entries[e] # << >>
    OBVIOUS
  <2>5. QED
    BY <1>1, <2>1, <2>2, <2>3, PlaceOf
<1>5. QED
  BY <1>4

\* The own changes behind the consumer stay what they are.
LEMMA OwnStay ==
    ASSUME StackInv, [Next]_vars, position' = position, NEW u, NEW o
    PROVE  OwnChanges(u, o)' = OwnChanges(u, o)
<1>1. \A k \in 0 .. position - 1 : k \in Offsets
  BY LenProperties DEF StackInv, ConsumerOK, Offsets, IsSequence
<1>2. \A k \in 0 .. position - 1 : MessageAt(k)' = MessageAt(k)
  BY <1>1, MessagesStep
<1>3. OwnChanges(u, o)' = {k \in 0 .. position - 1 : /\ MessageAt(k)'.user = u
                                                    /\ MessageAt(k)'.obj = o
                                                    /\ MessageAt(k)'.source = "user"}
  BY DEF OwnChanges
<1>4. QED
  BY <1>2, <1>3 DEF OwnChanges

\* Once a message is handled, it is one of them if it is a user's own.
LEMMA OwnGrow ==
    ASSUME StackInv, [Next]_vars, phase = "handling", position' = position + 1, NEW u, NEW o
    PROVE  OwnChanges(u, o)' =
               IF Current.user = u /\ Current.obj = o /\ Current.source = "user"
               THEN OwnChanges(u, o) \cup {position} ELSE OwnChanges(u, o)
<1>0. position \in Nat /\ \A k \in 0 .. position : k \in Offsets
  BY LenProperties DEF StackInv, ConsumerOK, Offsets, IsSequence
<1>2. \A k \in 0 .. position : MessageAt(k)' = MessageAt(k)
  BY <1>0, MessagesStep
<1>3. 0 .. position' - 1 = 0 .. position
  BY <1>0
<1>4. OwnChanges(u, o)' = {k \in 0 .. position : /\ MessageAt(k)'.user = u
                                                /\ MessageAt(k)'.obj = o
                                                /\ MessageAt(k)'.source = "user"}
  BY <1>3 DEF OwnChanges
<1>5. OwnChanges(u, o)' = {k \in 0 .. position : /\ MessageAt(k).user = u
                                                /\ MessageAt(k).obj = o
                                                /\ MessageAt(k).source = "user"}
  BY <1>2, <1>4
<1>6. \A k : k \in 0 .. position <=> k \in 0 .. position - 1 \/ k = position
  BY <1>0
<1>7. QED
  BY <1>5, <1>6 DEF OwnChanges, Current

\* The changes to count are finitely many, and none is at the consumer or
\* beyond it.
LEMMA OwnFinite ==
    ASSUME StackInv, NEW u, NEW o
    PROVE  /\ IsFiniteSet(OwnChanges(u, o) \ (refused \cup lost))
           /\ position \notin OwnChanges(u, o)
<1>0. position \in Nat
  BY LenProperties DEF StackInv, ConsumerOK, IsSequence
<1>1. IsFiniteSet(0 .. position - 1)
  BY <1>0, FS_Interval
<1>2. OwnChanges(u, o) \subseteq 0 .. position - 1
  BY DEF OwnChanges
<1>3. QED
  BY <1>0, <1>1, <1>2, FS_Subset

\* What InHand counts.
LEMMA InHandIs ==
    ASSUME NEW u, NEW o
    PROVE  /\ InHand(u, o) \in {0, 1}
           /\ InHand(u, o) = 1 <=> /\ phase = "handling" /\ step \in {"drop", "top", "add"}
                                   /\ Current.user = u /\ Current.obj = o
                                   /\ Current.source # "user"
  BY DEF InHand

\* A step that leaves events and consumer alone leaves the count alone.
LEMMA CountedIfSame ==
    ASSUME StackInv, [Next]_vars, NEW u \in User, NEW o \in Obj, Counted(u, o),
           entries' = entries, position' = position,
           refused' = refused, lost' = lost, InHand(u, o)' = InHand(u, o)
    PROVE  Counted(u, o)'
  BY PlacesStay, OwnStay DEF Counted

\* The steps that neither fill nor empty an event, nor end a message.
LEMMA CountedOnTheWay ==
    ASSUME StackInv, [Next]_vars, NEW u \in User, NEW o \in Obj, Counted(u, o),
           \/ TakeMessage \/ DropEventIfEmpty \/ FindTopEvent
           \/ \E v \in User : Asks(v)
           \/ UNCHANGED vars
    PROVE  Counted(u, o)'
<1>1. /\ entries' = entries /\ position' = position /\ refused' = refused /\ lost' = lost
  BY ZenonT(30) DEF TakeMessage, Fetch, DropEventIfEmpty, FindTopEvent, vars, consumerVars, stackVars,
     Asks, SubmitChange, Produce, BeginUndoEvent, StartUndo, ReadEntries, OpenEvent,
     InvertChanges, Send
<1>2. phase = "handling" => Current' = Current
  BY <1>1, CurrentStays
<1>3. CASE TakeMessage
  <2>1. /\ phase = "polling" /\ phase' = "handling" /\ log' = log
        /\ step' = IF Current.source = "user" THEN "top" ELSE "take"
    BY <1>3 DEF TakeMessage, Fetch
  <2>2. Current' = Current
    BY <1>1, <2>1 DEF Current, MessageAt
  <2>3. InHand(u, o) = 0 /\ InHand(u, o)' = 0
    BY <2>1, <2>2 DEF InHand
  <2>4. QED
    BY <1>1, <2>3, CountedIfSame
<1>4. CASE DropEventIfEmpty \/ FindTopEvent
  <2>1. /\ phase = "handling" /\ phase' = phase
        /\ step \in {"drop", "top"} /\ step' \in {"top", "add"}
    BY <1>4 DEF DropEventIfEmpty, FindTopEvent, consumerVars
  <2>2. InHand(u, o)' = InHand(u, o)
    BY <1>2, <2>1 DEF InHand
  <2>3. QED
    BY <1>1, <2>2, CountedIfSame
<1>5. CASE (\E v \in User : Asks(v)) \/ UNCHANGED vars
  <2>1. phase' = phase /\ step' = step
    BY <1>5 DEF vars, consumerVars, taskVars, Asks, SubmitChange, Produce, BeginUndoEvent,
       StartUndo, ReadEntries, OpenEvent, InvertChanges, Send
  <2>2. InHand(u, o)' = InHand(u, o)
    BY <1>2, <2>1 DEF InHand
  <2>3. QED
    BY <1>1, <2>2, CountedIfSame
<1>6. QED
  BY <1>3, <1>4, <1>5

\* Nothing is counted of what was in the log before the consumer joined.
LEMMA CountedJoin ==
    ASSUME StackInv, [Next]_vars, NEW u \in User, NEW o \in Obj, BehindPosition, JoinGroup
    PROVE  Counted(u, o)'
<1>1. /\ position = 0 /\ position' = Len(log) /\ lost' = lost \cup position .. Len(log) - 1
      /\ \A e \in Event : entries[e] = << >>
      /\ entries' = entries /\ phase' = "polling"
  BY DEF JoinGroup, Join, BehindPosition, stackVars
<1>2. EntriesOf(u, o)' = {}
  <2>1. 1 .. events \subseteq Event
    BY EventAssumption DEF StackInv, StackTypes, Event
  <2>2. \A e \in 1 .. events : DOMAIN entries[e] = {}
    BY <1>1, <2>1
  <2>3. EntriesOf(u, o) = {}
    BY <2>2, PlaceOf
  <2>4. QED
    BY <1>1, <2>3, PlacesStay
<1>3. InHand(u, o)' = 0
  BY <1>1 DEF InHand
<1>4. (OwnChanges(u, o) \ (refused \cup lost))' = {}
  BY <1>1 DEF OwnChanges
<1>5. QED
  BY <1>2, <1>3, <1>4, FS_EmptySet DEF Counted

\* A refused message is counted neither before nor after.
LEMMA CountedRefused ==
    ASSUME StackInv, [Next]_vars, NEW u \in User, NEW o \in Obj, Counted(u, o),
           MessageReceives, BehindPosition, RefuseEntry \/ RefuseMessage
    PROVE  Counted(u, o)'
<1>1. /\ phase = "handling" /\ phase' = "polling" /\ position' = position + 1
      /\ refused' = refused \cup {position} /\ lost' = lost /\ entries' = entries
  BY DEF RefuseEntry, RefuseMessage, Handled, stackVars
<1>2. InHand(u, o) = 0 /\ InHand(u, o)' = 0
  <2>1. CASE RefuseEntry
    BY <1>1, <2>1 DEF RefuseEntry, InHand
  <2>2. CASE RefuseMessage
    <3>1. stack[Current.user][Receiving(Current)] = << >>
      BY <2>2 DEF RefuseMessage
    <3>2. \A e : ~ On(Current.user, Receiving(Current), e)
      BY <3>1 DEF On
    <3>3. position \in Offsets /\ position >= position
      BY <1>1, LenProperties DEF StackInv, ConsumerOK, Offsets, IsSequence
    <3>4. Current.source = "user"
      BY <3>2, <3>3 DEF MessageReceives, Current
    <3>5. QED
      BY <1>1, <3>4 DEF InHand
  <2>3. QED
    BY <2>1, <2>2
<1>3. EntriesOf(u, o)' = EntriesOf(u, o)
  BY <1>1, PlacesStay
<1>4. (OwnChanges(u, o) \ (refused \cup lost))' = OwnChanges(u, o) \ (refused \cup lost)
  BY <1>1, OwnGrow, OwnFinite
<1>5. QED
  BY <1>2, <1>3, <1>4 DEF Counted

\* An entry is added for the message in hand.
LEMMA CountedAdd ==
    ASSUME StackInv, [Next]_vars, NEW u \in User, NEW o \in Obj, Counted(u, o),
           BehindPosition, AddEntry
    PROVE  Counted(u, o)'
<1> DEFINE list == entries[target]
           place == <<target, Len(list) + 1>>
           entry == [offset |-> position, obj |-> Current.obj, change |-> Current.change]
           places == EntriesOf(u, o)
           own == OwnChanges(u, o) \ (refused \cup lost)
           isOf == Current.user = u /\ Current.obj = o
<1>0. /\ phase = "handling" /\ phase' = "polling" /\ step = "add" /\ position' = position + 1
      /\ refused' = refused /\ lost' = lost /\ log' = log /\ events' = events
      /\ entries' = [entries EXCEPT ![target] = Append(list, entry)]
  BY DEF AddEntry, Handled
<1>1. position \in Nat /\ MessageAt(position) = Current
  BY DEF StackInv, ConsumerOK, Current
<1>2. target \in 1 .. events /\ target \in Event
  <2>1. On(Current.user, Receiving(Current), target)
    BY <1>0 DEF StackInv, TaskOK
  <2>2. Current.user \in User /\ Receiving(Current) \in Side
    <3>1. position \in Offsets
      BY <1>0, LenProperties DEF StackInv, ConsumerOK, Offsets, IsSequence
    <3>2. Fits(Current)
      BY <3>1 DEF StackInv, MessagesOK, Current
    <3>3. QED
      BY <3>2 DEF Fits, Receiving, Other, Side
  <2>3. stack[Current.user][Receiving(Current)] \in Seq(1 .. events)
    BY <2>2 DEF StackInv, StackTypes
  <2>4. target \in 1 .. events
    BY <2>1, <2>3, ElementOfSeq, LenProperties DEF On
  <2>5. QED
    BY <2>4, EventAssumption DEF StackInv, StackTypes, Event
<1>3. /\ Len(list) \in Nat /\ DOMAIN list = 1 .. Len(list)
      /\ DOMAIN entries'[target] = 1 .. Len(list) + 1
      /\ \A i \in 1 .. Len(list) : entries'[target][i] = list[i]
      /\ entries'[target][Len(list) + 1] = entry
      /\ \A e \in 1 .. events : e # target => entries'[e] = entries[e]
  <2>1. IsSequence(list) /\ DOMAIN entries = Event
    BY <1>2 DEF StackInv, StackTypes
  <2>2. entries'[target] = Append(list, entry)
    BY <1>0, <1>2, <2>1
  <2> HIDE DEF list, entry
  <2>3. \A e \in 1 .. events : e # target => entries'[e] = entries[e]
    BY <1>0
  <2>4. QED
    BY <2>1, <2>2, <2>3, AppendedTo
<1>4. EntriesOf(u, o)' = IF isOf THEN places \cup {place} ELSE places
  <2>1. ASSUME NEW p
        PROVE  p \in EntriesOf(u, o)' <=>
                   \E e \in 1 .. events : \E i \in DOMAIN entries'[e] :
                       /\ p = <<e, i>> /\ entries'[e][i].obj = o
                       /\ MessageAt(entries'[e][i].offset).user = u
    BY <1>0 DEF EntriesOf, MessageAt
  <2>2. entry.obj = Current.obj /\ MessageAt(entry.offset) = Current
    BY <1>1
  <2> HIDE DEF entry, list
  <2>3. ASSUME NEW p, p \in EntriesOf(u, o)'
        PROVE  p \in places \/ (isOf /\ p = place)
    <3>1. PICK e \in 1 .. events : \E i \in DOMAIN entries'[e] :
              /\ p = <<e, i>> /\ entries'[e][i].obj = o
              /\ MessageAt(entries'[e][i].offset).user = u
      BY <2>1, <2>3
    <3>2. PICK i \in DOMAIN entries'[e] :
              /\ p = <<e, i>> /\ entries'[e][i].obj = o
              /\ MessageAt(entries'[e][i].offset).user = u
      BY <3>1
    <3>3. CASE e = target /\ i = Len(list) + 1
      BY <1>3, <2>2, <3>2, <3>3
    <3>4. CASE e = target /\ i \in 1 .. Len(list)
      <4>1. i \in DOMAIN entries[e] /\ entries'[e][i] = entries[e][i]
        BY <1>3, <3>4 DEF list
      <4>2. QED
        BY <3>2, <4>1, PlaceOf
    <3>5. CASE e # target
      <4>1. entries'[e] = entries[e]
        BY <1>3, <3>5
      <4>2. QED
        BY <3>2, <4>1, PlaceOf
    <3>6. QED
      BY <1>3, <3>2, <3>3, <3>4, <3>5
  <2>4. ASSUME NEW p, p \in places PROVE p \in EntriesOf(u, o)'
    <3>0. PICK e \in 1 .. events : \E i \in DOMAIN entries[e] :
              /\ p = <<e, i>> /\ entries[e][i].obj = o
              /\ MessageAt(entries[e][i].offset).user = u
      BY <2>4, PlaceOf
    <3>1. PICK i \in DOMAIN entries[e] :
              /\ p = <<e, i>> /\ entries[e][i].obj = o
              /\ MessageAt(entries[e][i].offset).user = u
      BY <3>0
    <3>2. i \in DOMAIN entries'[e] /\ entries'[e][i] = entries[e][i]
      BY <1>3 DEF list
    <3>3. QED
      BY <2>1, <3>1, <3>2
  <2>5. ASSUME isOf PROVE place \in EntriesOf(u, o)'
    <3>1. Len(list) + 1 \in DOMAIN entries'[target]
      BY <1>3
    <3>2. /\ entries'[target][Len(list) + 1].obj = o
          /\ MessageAt(entries'[target][Len(list) + 1].offset).user = u
      BY <1>3, <2>2, <2>5
    <3>3. QED
      BY <1>2, <2>1, <3>1, <3>2
  <2> HIDE DEF place, places, isOf
  <2>6. QED
    BY <2>3, <2>4, <2>5
<1>5. place \notin places
  <2>1. ASSUME place \in places PROVE FALSE
    <3>1. PICK e \in 1 .. events : \E i \in DOMAIN entries[e] : place = <<e, i>>
      BY <2>1, PlaceOf
    <3>2. e = target /\ Len(list) + 1 \in DOMAIN entries[e]
      BY <3>1
    <3>3. QED
      BY <1>3, <3>2
  <2>2. QED
    BY <2>1
<1>6. /\ IsFiniteSet(places) /\ Cardinality(places) \in Nat
      /\ IsFiniteSet(own) /\ Cardinality(own) \in Nat
      /\ Cardinality(places) + InHand(u, o) = Cardinality(own)
  BY OwnFinite, FS_CardinalityType DEF Counted
<1>7. InHand(u, o)' = 0
  BY <1>0 DEF InHand
<1>8. position \notin refused \cup lost /\ position \notin OwnChanges(u, o)
  <2>1. lost \cup refused \subseteq 0 .. position - 1
    BY DEF BehindPosition
  <2>2. position \notin 0 .. position - 1
    BY <1>1
  <2>3. position \notin OwnChanges(u, o)
    BY OwnFinite
  <2> HIDE DEF places, own, isOf
  <2>4. QED
    BY <2>1, <2>2, <2>3
<1>9. (OwnChanges(u, o) \ (refused \cup lost))' =
          IF isOf /\ Current.source = "user" THEN own \cup {position} ELSE own
  BY <1>0, <1>8, OwnGrow
<1>10. InHand(u, o) = IF isOf /\ Current.source # "user" THEN 1 ELSE 0
  BY <1>0 DEF InHand
<1> HIDE DEF place, places, own, isOf
<1>11. CASE isOf
  <2>1. /\ IsFiniteSet(places \cup {place})
        /\ Cardinality(places \cup {place}) = Cardinality(places) + 1
    BY <1>5, <1>6, FS_AddElement
  <2>2. EntriesOf(u, o)' = places \cup {place}
    BY <1>4, <1>11
  <2>3. CASE Current.source = "user"
    <3>1. /\ (OwnChanges(u, o) \ (refused \cup lost))' = own \cup {position}
          /\ InHand(u, o) = 0
      BY <1>9, <1>10, <1>11, <2>3
    <3>2. Cardinality(own \cup {position}) = Cardinality(own) + 1
      BY <1>6, <1>8, FS_AddElement DEF own
    <3>3. Cardinality(places \cup {place}) + 0 = Cardinality(own \cup {position})
      BY <1>6, <2>1, <3>1, <3>2
    <3>4. QED
      BY <1>7, <2>1, <2>2, <3>1, <3>3 DEF Counted
  <2>4. CASE Current.source # "user"
    <3>1. /\ (OwnChanges(u, o) \ (refused \cup lost))' = own
          /\ InHand(u, o) = 1
      BY <1>9, <1>10, <1>11, <2>4
    <3>2. Cardinality(places \cup {place}) + 0 = Cardinality(own)
      BY <1>6, <2>1, <3>1
    <3>3. QED
      BY <1>7, <2>1, <2>2, <3>1, <3>2 DEF Counted
  <2>5. QED
    BY <2>3, <2>4
<1>12. CASE ~ isOf
  BY <1>4, <1>6, <1>7, <1>9, <1>10, <1>12 DEF Counted
<1>13. QED
  BY <1>11, <1>12

\* The entry that is taken is one of the message's object; those after it move
\* up by one.
LEMMA TakeExactly ==
    ASSUME StackInv, TakeEntry
    PROVE  /\ Current.event \in 1 .. events /\ Current.event \in Event
           /\ Len(entries[Current.event]) \in Nat
           /\ DOMAIN entries[Current.event] = 1 .. Len(entries[Current.event])
           /\ DOMAIN entries'[Current.event] = 1 .. Len(entries[Current.event]) - 1
           /\ \A e \in 1 .. events : e # Current.event => entries'[e] = entries[e]
           /\ \E n \in 1 .. Len(entries[Current.event]) :
                  /\ entries[Current.event][n].obj = Current.obj
                  /\ \A j \in 1 .. Len(entries[Current.event]) - 1 :
                         entries'[Current.event][j] =
                             IF j < n THEN entries[Current.event][j]
                             ELSE entries[Current.event][j + 1]
<1> DEFINE list == entries[Current.event]
           I == {i \in 1 .. Len(list) : IsOfCurrent(list[i])}
<1>1. Current.event \in 1 .. events /\ Current.event \in Event
  <2>1. Current.source # "user" /\ position \in Offsets
    BY DEF TakeEntry, StackInv, TaskOK, ConsumerOK, Offsets
  <2>2. Current.event \in 1 .. events
    BY <2>1 DEF StackInv, MessagesOK, Fits, Current
  <2>3. QED
    BY <2>2, EventAssumption DEF StackInv, StackTypes, Event
<1>2. list \in Seq(Range(list)) /\ DOMAIN list = 1 .. Len(list) /\ Len(list) \in Nat
  BY <1>1, LenProperties DEF StackInv, StackTypes, IsSequence
<1>3. I # {} /\ I \in SUBSET Nat
  BY <1>2 DEF TakeEntry
<1>4. Min(I) \in I
  BY <1>3, MinIsFirst
<1>5. RemoveFirstMatch(list, IsOfCurrent) = RemoveAt(list, Min(I))
  BY <1>3 DEF RemoveFirstMatch, SelectInSeq
<1>6. entries' = [entries EXCEPT ![Current.event] = RemoveFirstMatch(list, IsOfCurrent)]
  BY DEF TakeEntry
<1>7. PICK n \in DOMAIN list : /\ RemoveFirstMatch(list, IsOfCurrent) = RemoveAt(list, n)
                               /\ list[n].obj = Current.obj
  BY <1>2, <1>4, <1>5 DEF IsOfCurrent
<1>8. entries'[Current.event] = RemoveAt(list, n)
  BY <1>1, <1>6, <1>7 DEF StackInv, StackTypes
<1>9. /\ RemoveAt(list, n) \in Seq(Range(list))
      /\ Len(RemoveAt(list, n)) = Len(list) - 1
      /\ \A j \in 1 .. Len(list) - 1 :
             RemoveAt(list, n)[j] = IF j < n THEN list[j] ELSE list[j + 1]
  BY <1>2, RemoveAtProperties
<1>10. DOMAIN RemoveAt(list, n) = 1 .. Len(list) - 1
  BY <1>9, LenProperties
<1>11. \A e \in 1 .. events : e # Current.event => entries'[e] = entries[e]
  BY <1>6, EventAssumption DEF StackInv, StackTypes, Event
<1>12. QED
  BY <1>1, <1>2, <1>7, <1>8, <1>9, <1>10, <1>11

\* What is left has as many places as what was there without the one taken.
LEMMA PlacesAfterTake ==
    ASSUME StackInv, TakeEntry, NEW u, NEW o,
           NEW e, NEW n \in 1 .. Len(entries[e]), e = Current.event,
           \A j \in 1 .. Len(entries[e]) - 1 :
               entries'[e][j] = IF j < n THEN entries[e][j] ELSE entries[e][j + 1]
    PROVE  ExistsBijection(EntriesOf(u, o) \ {<<e, n>>}, EntriesOf(u, o)')
<1> DEFINE len == Len(entries[e])
           S == EntriesOf(u, o) \ {<<e, n>>}
           T == EntriesOf(u, o)'
           F == [p \in S |-> IF p[1] = e /\ p[2] > n THEN <<e, p[2] - 1>> ELSE p]
           isOf(entry) == entry.obj = o /\ MessageAt(entry.offset).user = u
<1>0. /\ log' = log /\ events' = events
      /\ e \in 1 .. events /\ len \in Nat
      /\ DOMAIN entries[e] = 1 .. len /\ DOMAIN entries'[e] = 1 .. len - 1
      /\ \A f \in 1 .. events : f # e => entries'[f] = entries[f]
  BY TakeExactly DEF TakeEntry, consumerVars
<1>1. ASSUME NEW p
      PROVE  p \in T <=> \E f \in 1 .. events : \E i \in DOMAIN entries'[f] :
                             p = <<f, i>> /\ isOf(entries'[f][i])
  BY <1>0 DEF EntriesOf, MessageAt
<1>2. ASSUME NEW p
      PROVE  p \in S <=> \E f \in 1 .. events : \E i \in DOMAIN entries[f] :
                             p = <<f, i>> /\ isOf(entries[f][i]) /\ p # <<e, n>>
  BY PlaceOf
<1> HIDE DEF isOf, S, T
<1>3. ASSUME NEW p \in S
      PROVE  /\ p[1] = e => /\ p = <<e, p[2]>> /\ p[2] \in 1 .. len /\ p[2] # n
                            /\ isOf(entries[e][p[2]])
             /\ p[1] # e => p \in T
  <2>1. PICK f \in 1 .. events : \E i \in DOMAIN entries[f] :
            p = <<f, i>> /\ isOf(entries[f][i]) /\ p # <<e, n>>
    BY <1>2
  <2>2. PICK i \in DOMAIN entries[f] : p = <<f, i>> /\ isOf(entries[f][i]) /\ p # <<e, n>>
    BY <2>1
  <2>3. p[1] = f /\ p[2] = i
    BY <2>2
  <2>4. CASE f = e
    BY <1>0, <2>2, <2>3, <2>4
  <2>5. CASE f # e
    <3>1. entries'[f] = entries[f]
      BY <1>0, <2>5
    <3>2. p \in T
      BY <1>1, <2>2, <3>1
    <3>3. QED
      BY <2>3, <2>5, <3>2
  <2>6. QED
    BY <2>4, <2>5
<1>4. ASSUME NEW p \in S PROVE F[p] \in T
  <2>1. CASE p[1] # e
    BY <1>3, <2>1
  <2>2. CASE p[1] = e /\ p[2] < n
    <3>1. p = <<e, p[2]>> /\ p[2] \in 1 .. len /\ isOf(entries[e][p[2]])
      BY <1>3, <2>2
    <3>2. p[2] \in 1 .. len - 1
      BY <1>0, <2>2, <3>1
    <3>3. p[2] \in DOMAIN entries'[e] /\ entries'[e][p[2]] = entries[e][p[2]]
      BY <1>0, <2>2, <3>2
    <3>4. p \in T
      BY <1>0, <1>1, <3>1, <3>3
    <3>5. F[p] = p
      BY <2>2, <3>2
    <3>6. QED
      BY <3>4, <3>5
  <2>3. CASE p[1] = e /\ p[2] > n
    <3>1. p[2] \in 1 .. len /\ isOf(entries[e][p[2]])
      BY <1>3, <2>3
    <3>2. PICK j : j = p[2] - 1
      OBVIOUS
    <3>3. j \in 1 .. len - 1 /\ ~ (j < n) /\ j + 1 = p[2]
      BY <1>0, <2>3, <3>1, <3>2
    <3>4. entries'[e][j] = entries[e][p[2]]
      BY <3>3
    <3>5. <<e, j>> \in T
      BY <1>0, <1>1, <3>1, <3>3, <3>4
    <3>6. F[p] = <<e, j>>
      BY <2>3, <3>2
    <3>7. QED
      BY <3>5, <3>6
  <2>4. QED
    <3>1. p[1] = e => p[2] \in 1 .. len /\ p[2] # n
      BY <1>3
    <3>2. QED
      BY <1>0, <2>1, <2>2, <2>3, <3>1
<1>5. ASSUME NEW p \in S, NEW q \in S, F[p] = F[q] PROVE p = q
  <2>1. /\ p[1] = e => p = <<e, p[2]>> /\ p[2] \in 1 .. len /\ p[2] # n
        /\ q[1] = e => q = <<e, q[2]>> /\ q[2] \in 1 .. len /\ q[2] # n
    BY <1>3
  <2>2. /\ F[p] = IF p[1] = e /\ p[2] > n THEN <<e, p[2] - 1>> ELSE p
        /\ F[q] = IF q[1] = e /\ q[2] > n THEN <<e, q[2] - 1>> ELSE q
    OBVIOUS
  <2> HIDE DEF F
  <2>3. CASE p[1] = e /\ q[1] = e
    <3>1. (IF p[2] > n THEN p[2] - 1 ELSE p[2]) = (IF q[2] > n THEN q[2] - 1 ELSE q[2])
      <4>1. F[p][2] = IF p[2] > n THEN p[2] - 1 ELSE p[2]
        BY <2>1, <2>2, <2>3
      <4>2. F[q][2] = IF q[2] > n THEN q[2] - 1 ELSE q[2]
        BY <2>1, <2>2, <2>3
      <4>3. QED
        BY <1>5, <4>1, <4>2
    <3>2. \A a, b \in Nat : a # n /\ b # n /\ (IF a > n THEN a - 1 ELSE a) = (IF b > n THEN b - 1 ELSE b)
              => a = b
      BY <1>0
    <3>3. p[2] \in Nat /\ q[2] \in Nat
      BY <1>0, <2>1, <2>3
    <3>4. p[2] = q[2]
      BY <2>1, <2>3, <3>1, <3>2, <3>3
    <3>5. QED
      BY <2>1, <2>3, <3>4
  <2>4. CASE p[1] # e /\ q[1] # e
    BY <1>5, <2>2, <2>4
  <2>5. CASE p[1] = e /\ q[1] # e
    <3>1. F[p][1] = e /\ F[q][1] # e
      BY <2>1, <2>2, <2>5
    <3>2. QED
      BY <1>5, <3>1
  <2>6. CASE p[1] # e /\ q[1] = e
    <3>1. F[p][1] # e /\ F[q][1] = e
      BY <2>1, <2>2, <2>6
    <3>2. QED
      BY <1>5, <3>1
  <2>7. QED
    BY <2>3, <2>4, <2>5, <2>6
<1>6. ASSUME NEW t \in T PROVE \E p \in S : F[p] = t
  <2>1. PICK f \in 1 .. events : \E i \in DOMAIN entries'[f] : t = <<f, i>> /\ isOf(entries'[f][i])
    BY <1>1
  <2>2. PICK i \in DOMAIN entries'[f] : t = <<f, i>> /\ isOf(entries'[f][i])
    BY <2>1
  <2>3. CASE f # e
    <3>1. entries'[f] = entries[f]
      BY <1>0, <2>3
    <3>2. t \in S
      BY <1>2, <2>2, <2>3, <3>1
    <3>3. F[t] = t
      BY <2>2, <2>3, <3>2
    <3>4. QED
      BY <3>2, <3>3
  <2>4. CASE f = e /\ i < n
    <3>1. i \in 1 .. len - 1 /\ i \in DOMAIN entries[e]
      BY <1>0, <2>2, <2>4
    <3>2. entries'[e][i] = entries[e][i]
      BY <2>4, <3>1
    <3>3. t # <<e, n>>
      BY <1>0, <2>2, <2>4, <3>1
    <3>4. t \in S
      BY <1>0, <1>2, <2>2, <2>4, <3>1, <3>2, <3>3
    <3>5. F[t] = t
      BY <1>0, <2>2, <2>4, <3>1, <3>4
    <3>6. QED
      BY <3>4, <3>5
  <2>5. CASE f = e /\ ~ (i < n)
    <3>1. i \in 1 .. len - 1 /\ i + 1 \in DOMAIN entries[e] /\ i + 1 > n /\ (i + 1) - 1 = i
      BY <1>0, <2>2, <2>5
    <3>2. entries'[e][i] = entries[e][i + 1]
      BY <2>5, <3>1
    <3>3. PICK p : p = <<e, i + 1>>
      OBVIOUS
    <3>4. p # <<e, n>> /\ p[1] = e /\ p[2] = i + 1
      BY <3>1, <3>3
    <3>5. p \in S
      BY <1>0, <1>2, <2>2, <2>5, <3>1, <3>2, <3>3, <3>4
    <3>6. F[p] = <<e, i>>
      BY <3>1, <3>4, <3>5
    <3>7. QED
      BY <2>2, <2>5, <3>5, <3>6
  <2>6. QED
    BY <2>3, <2>4, <2>5
<1>7. F \in Bijection(S, T)
  <2>1. F \in [S -> T]
    BY <1>4
  <2>2. IsInjective(F)
    BY <1>5 DEF IsInjective
  <2>3. QED
    BY <1>6, <2>1, <2>2 DEF Bijection, Injection, Surjection
<1>8. QED
  BY <1>7 DEF ExistsBijection, S, T

\* The entry the consumer takes out of an event it holds in hand.
LEMMA CountedTake ==
    ASSUME StackInv, OwnersOK, [Next]_vars, NEW u \in User, NEW o \in Obj, Counted(u, o),
           TakeEntry
    PROVE  Counted(u, o)'
<1>1. /\ phase = "handling" /\ phase' = phase /\ step = "take" /\ step' = "drop"
      /\ position' = position /\ refused' = refused /\ lost' = lost /\ log' = log
      /\ Current.source # "user" /\ position \in Offsets
  <2>1. Current.source # "user" /\ position \in Offsets
    BY LenProperties DEF TakeEntry, StackInv, TaskOK, ConsumerOK, Offsets, IsSequence
  <2>2. QED
    BY <2>1 DEF TakeEntry, consumerVars
<1>2. PICK e : e = Current.event
  OBVIOUS
<1>3. PICK n \in 1 .. Len(entries[e]) :
          /\ entries[e][n].obj = Current.obj
          /\ \A j \in 1 .. Len(entries[e]) - 1 :
                 entries'[e][j] = IF j < n THEN entries[e][j] ELSE entries[e][j + 1]
  BY <1>2, TakeExactly
<1>4. e \in 1 .. events /\ n \in DOMAIN entries[e]
  BY <1>2, <1>3, TakeExactly
<1>5. MessageAt(entries[e][n].offset).user = Current.user
  <2>1. PICK v \in User, side \in Side :
            On(v, side, e) /\ MessageAt(entries[e][n].offset).user = v
    BY <1>4, EntryIsOfMessage
  <2>2. v = Current.user
    BY <1>1, <1>2, <2>1 DEF OwnersOK, Current
  <2>3. QED
    BY <2>1, <2>2
<1> DEFINE places == EntriesOf(u, o)
           own == OwnChanges(u, o) \ (refused \cup lost)
           isOf == Current.user = u /\ Current.obj = o
<1>6. <<e, n>> \in places <=> isOf
  <2>1. isOf => <<e, n>> \in places
    BY <1>3, <1>4, <1>5, PlaceOf
  <2>2. ASSUME <<e, n>> \in places PROVE isOf
    <3>1. PICK f \in 1 .. events : \E i \in DOMAIN entries[f] :
              /\ <<e, n>> = <<f, i>>
              /\ entries[f][i].obj = o /\ MessageAt(entries[f][i].offset).user = u
      BY <2>2, PlaceOf
    <3>2. entries[e][n].obj = o /\ MessageAt(entries[e][n].offset).user = u
      BY <3>1
    <3>3. QED
      BY <1>3, <1>5, <3>2
  <2>3. QED
    BY <2>1, <2>2
<1>7. /\ IsFiniteSet(places) /\ Cardinality(places) \in Nat
      /\ Cardinality(places) + InHand(u, o) = Cardinality(own)
  BY FS_CardinalityType DEF Counted
<1>8. /\ IsFiniteSet(places \ {<<e, n>>})
      /\ Cardinality(places \ {<<e, n>>}) =
             IF isOf THEN Cardinality(places) - 1 ELSE Cardinality(places)
  BY <1>6, <1>7, FS_RemoveElement
<1>9. ExistsBijection(places \ {<<e, n>>}, EntriesOf(u, o)')
  BY <1>2, <1>3, PlacesAfterTake
<1>10. IsFiniteSet(EntriesOf(u, o)')
       /\ Cardinality(EntriesOf(u, o)') = Cardinality(places \ {<<e, n>>})
  BY <1>8, <1>9, FS_Bijection
<1>11. InHand(u, o) = 0
  BY <1>1 DEF InHand
<1>12. InHand(u, o)' = IF isOf THEN 1 ELSE 0
  <2>1. Current' = Current
    BY <1>1 DEF Current, MessageAt
  <2>2. QED
    BY <1>1, <2>1 DEF InHand
<1>13. (OwnChanges(u, o) \ (refused \cup lost))' = own
  BY <1>1, OwnStay
<1> HIDE DEF places, own, isOf
<1>14. Cardinality(EntriesOf(u, o)') + InHand(u, o)' = Cardinality(own)
  BY <1>7, <1>8, <1>10, <1>11, <1>12
<1>15. QED
  BY <1>10, <1>13, <1>14 DEF Counted

-----------------------------------------------------------------------------
(* The invariant of the states without faults, and what follows *)

\* It holds initially.
LEMMA QuietInvInit == Init => QuietInv
<1> SUFFICES ASSUME Init PROVE QuietInv
  OBVIOUS
<1> USE DEF Init, ConsumerInit
<1>1. Offsets = {}
  BY DEF Offsets
<1>2. OwnersOK /\ MessageReceives
  BY <1>1 DEF OwnersOK, Idle, MessageReceives
<1>3. CallReceives /\ BehindPosition
  BY DEF CallReceives, Idle, BehindPosition, NoCommit
<1>4. ASSUME NEW u \in User, NEW o \in Obj PROVE Counted(u, o)
  <2>1. EntriesOf(u, o) = {} /\ OwnChanges(u, o) = {}
    BY DEF EntriesOf, OwnChanges
  <2>2. InHand(u, o) = 0
    BY DEF InHand
  <2>3. QED
    BY <2>1, <2>2, FS_EmptySet DEF Counted
<1>5. QED
  BY <1>2, <1>3, <1>4 DEF QuietInv

\* Every step preserves it, whatever fails later.
LEMMA QuietInvStep == StackInv /\ QuietInv /\ [Next]_vars => QuietInv'
<1> SUFFICES ASSUME StackInv, QuietInv, [Next]_vars PROVE QuietInv'
  OBVIOUS
<1>1. OwnersOK' /\ faults' \in Nat
  BY OwnersStep, FaultsStep DEF QuietInv
<1>2. ASSUME faults' = 0
      PROVE  /\ CallReceives' /\ MessageReceives' /\ BehindPosition'
             /\ \A u \in User, o \in Obj : Counted(u, o)'
  <2>1. /\ OwnersOK /\ faults \in Nat /\ CallReceives /\ MessageReceives /\ BehindPosition
        /\ \A u \in User, o \in Obj : Counted(u, o)
        /\ Consume \/ (\E u \in User : Asks(u)) \/ UNCHANGED vars
    BY <1>2, FaultsStep DEF QuietInv
  <2>2. CallReceives' /\ MessageReceives' /\ BehindPosition'
    BY <1>2, <2>1, CallReceivesStep, MessageReceivesStep, BehindPositionStep
  <2>3. ASSUME NEW u \in User, NEW o \in Obj PROVE Counted(u, o)'
    <3>1. Counted(u, o)
      BY <2>1
    <3>2. CASE JoinGroup
      BY <2>1, <3>2, CountedJoin
    <3>3. CASE \/ TakeMessage \/ DropEventIfEmpty \/ FindTopEvent
               \/ (\E v \in User : Asks(v)) \/ UNCHANGED vars
      BY <3>1, <3>3, CountedOnTheWay
    <3>4. CASE RefuseEntry \/ RefuseMessage
      BY <2>1, <3>1, <3>4, CountedRefused
    <3>5. CASE TakeEntry
      BY <2>1, <3>1, <3>5, CountedTake
    <3>6. CASE AddEntry
      BY <2>1, <3>1, <3>6, CountedAdd
    <3>7. QED
      BY <2>1, <3>2, <3>3, <3>4, <3>5, <3>6 DEF Consume
  <2>4. QED
    BY <2>2, <2>3
<1>3. QED
  BY <1>1, <1>2 DEF QuietInv

\* Until the first fault, every undone or redone change has an event to go
\* to that is still there when the consumer handles it, and every change is
\* counted once.
THEOREM QuietInductive == Spec => [](StackInv /\ QuietInv)
  BY StackInvInit, StackInvStep, QuietInvInit, QuietInvStep, PTL DEF Spec

\* Without a fault every change of a user that found an event is in exactly
\* one event or in the consumer's hands, for any users and objects and however
\* requests overtake the consumer (begin_undo_event in undo and redo before
\* their changes are sent, against move_entry_between_stacks).
THEOREM EntriesAreConserved == Spec => []UndoConserved
<1>1. QuietInv => UndoConserved
  BY DEF QuietInv, UndoConserved, Counted
<1>2. QED
  BY <1>1, QuietInductive, PTL

-----------------------------------------------------------------------------
(* What a request computes *)

\* The newest of bounded offsets is one of them.
LEMMA NewestIsMember ==
    ASSUME NEW n \in Nat, NEW S \in SUBSET (0 .. n), S # {}
    PROVE  Newest(S) \in S /\ \A j \in S : j <= Newest(S)
<1> DEFINE I == {n - j : j \in S}
<1>1. I \in SUBSET Nat /\ I # {}
  <2>1. \A j \in S : n - j \in Nat
    OBVIOUS
  <2>2. PICK j \in S : TRUE
    OBVIOUS
  <2>3. n - j \in I
    BY <2>2
  <2>4. I \subseteq Nat
    BY <2>1
  <2>5. QED
    BY <2>3, <2>4
<1>2. PICK m \in I : \A i \in I : m <= i
  BY <1>1, MinIsFirst
<1>3. PICK k \in S : m = n - k
  BY <1>2
<1>4. ASSUME NEW j \in S PROVE j <= k
  <2>1. n - k <= n - j
    BY <1>2, <1>3
  <2>2. \A a, b \in Nat : n - a <= n - b => b <= a
    OBVIOUS
  <2>3. QED
    BY <2>1, <2>2
<1>5. QED
  BY <1>3, <1>4 DEF Newest

\* Every change IndexMap keeps is the latest of its object, in the place of
\* the first; a change that is the only one of its object keeps its place.
LEMMA IndexMapProperties ==
    ASSUME NEW n \in Nat, NEW D \in SUBSET (1 .. n), NEW changes, DOMAIN changes = D
    PROVE  /\ DOMAIN IndexMap(changes) \subseteq D
           /\ \A i \in DOMAIN IndexMap(changes) : \E j \in D :
                  changes[j].obj = changes[i].obj /\ IndexMap(changes)[i] = changes[j]
           /\ \A i \in D : (\A j \in D : changes[j].obj = changes[i].obj => j = i)
                  => i \in DOMAIN IndexMap(changes) /\ IndexMap(changes)[i] = changes[i]
<1> DEFINE ofSame(i) == {j \in D : changes[j].obj = changes[i].obj}
           firsts == {i \in D : \A j \in ofSame(i) : i <= j}
<1>1. IndexMap(changes) = [i \in firsts |-> changes[Newest(ofSame(i))]]
  BY DEF IndexMap
<1>2. ASSUME NEW i \in D PROVE Newest(ofSame(i)) \in ofSame(i)
  <2>1. ofSame(i) \subseteq 0 .. n
    <3>1. D \subseteq 0 .. n
      OBVIOUS
    <3>2. QED
      BY <3>1
  <2>2. i \in ofSame(i)
    OBVIOUS
  <2>3. QED
    BY <2>1, <2>2, NewestIsMember
<1>3. ASSUME NEW i \in D, \A j \in D : changes[j].obj = changes[i].obj => j = i
      PROVE  i \in firsts /\ Newest(ofSame(i)) = i
  <2>1. ofSame(i) = {i}
    BY <1>3
  <2>2. Newest(ofSame(i)) = i
    BY <1>2, <2>1
  <2>3. i \in Nat
    BY <1>3
  <2>4. \A j \in ofSame(i) : i <= j
    BY <2>1, <2>3
  <2>5. QED
    BY <2>2, <2>4
<1> HIDE DEF ofSame
<1>4. ASSUME NEW i \in firsts
      PROVE  \E j \in D : changes[j].obj = changes[i].obj /\ IndexMap(changes)[i] = changes[j]
  BY <1>1, <1>2 DEF ofSame
<1>5. QED
  BY <1>1, <1>3, <1>4

-----------------------------------------------------------------------------
(* Types *)

\* A restart of Redis loses the messages below the position, all of the log.
LEMMA RestartTypes ==
    ASSUME ConsumerTypeOK, Len(log) \in Nat, RedisRestart
    PROVE  ConsumerTypeOK'
<1> USE ConsumerAssumption DEF ConsumerTypeOK, Phases, NoCommit, Offsets
<1>1. /\ log' = log /\ start' = start /\ committed' = committed
      /\ lost' = lost \cup 0 .. position' - 1
      /\ faults' \in 0 .. MaxFaults /\ phase' \in Phases
  BY DEF RedisRestart, Fault
<1>2. position' \in 0 .. Len(log) /\ position <= position'
  BY DEF RedisRestart
<1>3. phase' = "handling" => position' < Len(log)
  BY DEF RedisRestart
<1>4. start' \in 0 .. position'
  BY <1>1, <1>2
<1>5. committed' <= position' + 1
  <2>1. \A a, b, c \in Int : a <= b + 1 /\ b <= c => a <= c + 1
    OBVIOUS
  <2>2. committed \in Int /\ committed <= position + 1
    OBVIOUS
  <2>3. position \in Int /\ position' \in Int /\ position <= position'
    BY <1>2
  <2>4. committed <= position' + 1
    BY <2>1, <2>2, <2>3
  <2>5. QED
    BY <1>1, <2>4
<1>6. lost' \subseteq Offsets
  <2>1. \A a, b \in Int : a <= b => 0 .. a - 1 \subseteq 0 .. b - 1
    OBVIOUS
  <2>2. position' \in Int /\ Len(log) \in Int /\ position' <= Len(log)
    BY <1>2
  <2>3. 0 .. position' - 1 \subseteq 0 .. Len(log) - 1
    BY <2>1, <2>2
  <2>4. QED
    BY <1>1, <2>3
<1>7. QED
  BY <1>1, <1>2, <1>3, <1>4, <1>5, <1>6

\* A message is appended behind the others.
LEMMA Produced ==
    ASSUME IsSequence(log), NEW message, Produce(message)
    PROVE  /\ Len(log) \in Nat /\ Len(log') = Len(log) + 1
           /\ \A i \in 1 .. Len(log) : log'[i] = log[i]
           /\ log'[Len(log) + 1] = message
<1>1. /\ IsSequence(log') /\ Len(log) \in Nat /\ DOMAIN log' = 1 .. Len(log) + 1
      /\ \A i \in 1 .. Len(log) : log'[i] = log[i]
      /\ log'[Len(log) + 1] = message
  BY AppendedTo DEF Produce
<1>2. DOMAIN log' = 1 .. Len(log') /\ Len(log') \in Nat
  BY <1>1, LenProperties DEF IsSequence
<1>3. QED
  BY <1>1, <1>2

\* The consumer's place in the log, whatever it does.
LEMMA ConsumerTypesStep ==
    ASSUME StackInv, ConsumerTypeOK, [Next]_vars
    PROVE  ConsumerTypeOK' /\ Len(log') \in Nat /\ Len(log) <= Len(log')
<1> DEFINE Done == ConsumerTypeOK' /\ Len(log') \in Nat /\ Len(log) <= Len(log')
<1> USE ConsumerAssumption DEF ConsumerTypeOK, Phases, NoCommit, Offsets, Fault
<1>0. IsSequence(log) /\ Len(log) \in Nat
  BY LenProperties DEF StackInv, ConsumerOK, IsSequence
<1>1. ASSUME NEW message, Produce(message) PROVE Done
  <2>1. /\ Len(log') = Len(log) + 1
        /\ UNCHANGED <<position, start, committed, phase, lost, faults>>
    BY <1>0, <1>1, Produced DEF Produce
  <2>2. QED
    BY <1>0, <2>1
<1>2. ASSUME UNCHANGED consumerVars PROVE Done
  BY <1>0, <1>2 DEF consumerVars
<1>3. CASE JoinGroup
  <2>1. /\ log' = log /\ committed' = committed /\ phase' = "polling"
        /\ faults' = faults /\ position' = start'
        /\ start' = IF committed = NoCommit THEN Len(log) ELSE committed
        /\ lost' = lost \cup position .. start' - 1
    BY <1>3 DEF JoinGroup, Join
  <2>2. start' \in 0 .. Len(log) /\ committed <= start' + 1
    BY <1>0, <2>1
  <2>3. lost' \subseteq 0 .. Len(log) - 1
    <3>1. \A a, b, c \in Nat : b <= c => a .. b - 1 \subseteq 0 .. c - 1
      OBVIOUS
    <3>2. position \in Nat /\ start' \in Nat /\ start' <= Len(log)
      BY <1>0, <2>2
    <3>3. position .. start' - 1 \subseteq 0 .. Len(log) - 1
      BY <1>0, <3>1, <3>2
    <3>4. QED
      BY <2>1, <3>3
  <2>4. QED
    BY <1>0, <2>1, <2>2, <2>3
<1>4. CASE TakeMessage
  BY <1>0, <1>4 DEF TakeMessage, Fetch
<1>5. CASE Handled
  BY <1>0, <1>5 DEF Handled
<1>6. CASE TakeEntry \/ DropEventIfEmpty \/ FindTopEvent
  BY <1>2, <1>6 DEF TakeEntry, DropEventIfEmpty, FindTopEvent
<1>7. CASE DropMessage
  BY <1>0, <1>7 DEF DropMessage, ConnectFailure
<1>8. CASE AbandonMessage
  BY <1>0, <1>8 DEF AbandonMessage, HandlerFailure
<1>9. CASE CrashService
  BY <1>0, <1>9 DEF CrashService, Crash, Delivered
<1>10. CASE RestartRedis
  BY <1>0, <1>10, RestartTypes DEF RestartRedis, RedisRestart
<1>11. ASSUME NEW u \in User, Request(u) PROVE Done
  <2>1. CASE \E o \in Obj, c \in Kind : SubmitChange(u, o, c)
    BY <1>1, <2>1 DEF SubmitChange
  <2>2. CASE Send(u)
    BY <1>1, <2>2 DEF Send
  <2>3. CASE FailCall(u)
    BY <1>0, <2>3 DEF FailCall
  <2>4. CASE \/ BeginUndoEvent(u) \/ (\E side \in Side : StartUndo(u, side))
             \/ ReadEntries(u) \/ OpenEvent(u) \/ InvertChanges(u)
    BY <1>2, <2>4 DEF BeginUndoEvent, StartUndo, ReadEntries, OpenEvent, InvertChanges
  <2>5. QED
    BY <1>11, <2>1, <2>2, <2>3, <2>4 DEF Request
<1>12. CASE UNCHANGED vars
  BY <1>2, <1>12 DEF vars
<1>13. Consume => Done
  BY <1>3, <1>4, <1>5, <1>6 DEF Consume, RefuseEntry, RefuseMessage, AddEntry
<1>14. Disturb => Done
  BY <1>7, <1>8, <1>9, <1>10 DEF Disturb
<1>15. QED
  BY <1>11, <1>12, <1>13, <1>14 DEF Next

-----------------------------------------------------------------------------
(* What a step does to a request *)

\* The change found before entry i of a list, and the inverses of a list.
PrevAt(list, known, missed, i) ==
    IF i \in missed THEN Absent ELSE Previous(list[i], known)
Inverses(list, known, missed) ==
    [i \in {j \in DOMAIN list : HasInverse(list[j], PrevAt(list, known, missed, j))} |->
         InverseOf(list[i], PrevAt(list, known, missed, i))]
Late(list, known, missed) == missed \cup {i \in DOMAIN list : list[i].offset > known}

\* The fields of a request that its later steps leave alone.
Keeps(u, fields) ==
    DOMAIN call'[u] = CallFields /\ \A f \in fields : call'[u][f] = call[u][f]

Started(u) ==
    /\ DOMAIN call'[u] = CallFields /\ call'[u].pc = "read"
    /\ call'[u].list = << >> /\ call'[u].changes = << >> /\ call'[u].late = {}
    /\ call'[u].side \in Side /\ call'[u].event \in 1 .. events
Listed(u) ==
    /\ call[u].pc = "read" /\ call'[u].pc = "open"
    /\ Keeps(u, CallFields \ {"pc", "list"})
    /\ call'[u].list = entries[call[u].event] /\ call[u].event \in 1 .. events
Opened(u) ==
    /\ call[u].pc = "open" /\ call'[u].pc = "fetch" /\ Keeps(u, CallFields \ {"pc"})
Inverted(u) ==
    /\ call[u].pc = "fetch" /\ call'[u].pc = "send"
    /\ Keeps(u, {"side", "event", "list"})
    /\ \E known \in seen .. Len(log) : \E missed \in SUBSET DOMAIN call[u].list :
           /\ call'[u].changes = IndexMap(Inverses(call[u].list, known, missed))
           /\ call'[u].late = Late(call[u].list, known, missed)
    /\ DOMAIN call'[u].changes # {} /\ call'[u].next = Min(DOMAIN call'[u].changes)
SentOn(u) ==
    /\ call[u].pc = "send" /\ Keeps(u, CallFields \ {"next"})
    /\ \E I \in SUBSET DOMAIN call[u].changes :
           I # {} /\ (\A i \in I : i > call[u].next) /\ call'[u].next = Min(I)

\* What inverting does, with its local definitions spelt out.
LEMMA InvertEffect ==
    ASSUME StackInv, NEW u \in User, InvertChanges(u)
    PROVE  /\ \E known \in seen .. Len(log) : \E missed \in SUBSET DOMAIN call[u].list :
                  /\ seen' = known
                  /\ misread' = (misread \/ Late(call[u].list, known, missed) # {})
                  /\ \/ call' = [call EXCEPT ![u] = Idle]
                     \/ /\ call'[u].changes = IndexMap(Inverses(call[u].list, known, missed))
                        /\ call'[u].late = Late(call[u].list, known, missed)
                        /\ Inverted(u)
           /\ \A v \in User : v # u => call'[v] = call[v]
<1> DEFINE c == call[u]
           list == c.list
<1>1. PICK known \in seen .. Len(log) :
          \E missed \in SUBSET {i \in DOMAIN list : Racing(list[i], known)} :
              LET previous(i) == IF i \in missed THEN Absent ELSE Previous(list[i], known)
                  changes == IndexMap(
                      [i \in {j \in DOMAIN list : HasInverse(list[j], previous(j))} |->
                           InverseOf(list[i], previous(i))])
                  tooEarly == {i \in DOMAIN list : list[i].offset > known}
              IN  /\ seen' = known
                  /\ misread' = (misread \/ missed \cup tooEarly # {})
                  /\ call' = [call EXCEPT ![u] =
                         IF DOMAIN changes = {} THEN Idle
                         ELSE [c EXCEPT !.pc = "send", !.changes = changes,
                                        !.next = Min(DOMAIN changes),
                                        !.late = missed \cup tooEarly]]
  BY DEF InvertChanges
<1>2. PICK missed \in SUBSET {i \in DOMAIN list : Racing(list[i], known)} :
              LET previous(i) == IF i \in missed THEN Absent ELSE Previous(list[i], known)
                  changes == IndexMap(
                      [i \in {j \in DOMAIN list : HasInverse(list[j], previous(j))} |->
                           InverseOf(list[i], previous(i))])
                  tooEarly == {i \in DOMAIN list : list[i].offset > known}
              IN  /\ seen' = known
                  /\ misread' = (misread \/ missed \cup tooEarly # {})
                  /\ call' = [call EXCEPT ![u] =
                         IF DOMAIN changes = {} THEN Idle
                         ELSE [c EXCEPT !.pc = "send", !.changes = changes,
                                        !.next = Min(DOMAIN changes),
                                        !.late = missed \cup tooEarly]]
  BY <1>1
<1>3. PICK inverses : inverses = Inverses(list, known, missed)
  OBVIOUS
<1>4. PICK changes : changes = IndexMap(inverses)
  OBVIOUS
<1>5. PICK late : late = Late(list, known, missed)
  OBVIOUS
<1>6. /\ seen' = known
      /\ misread' = (misread \/ late # {})
      /\ call' = [call EXCEPT ![u] =
             IF DOMAIN changes = {} THEN Idle
             ELSE [c EXCEPT !.pc = "send", !.changes = changes,
                            !.next = Min(DOMAIN changes), !.late = late]]
  BY <1>2, <1>3, <1>4, <1>5 DEF Inverses, PrevAt, Late
<1>7. c.pc = "fetch" /\ DOMAIN c = CallFields /\ DOMAIN call = User
  BY DEF InvertChanges, StackInv, CallsOK, CallOfUser
<1>8. missed \in SUBSET DOMAIN list
  BY <1>2
<1>9. CASE DOMAIN changes = {}
  <2>1. call' = [call EXCEPT ![u] = Idle]
    BY <1>6, <1>9
  <2>2. QED
    BY <1>5, <1>6, <1>7, <1>8, <2>1
<1>10. CASE DOMAIN changes # {}
  <2> DEFINE d == [c EXCEPT !.pc = "send", !.changes = changes,
                            !.next = Min(DOMAIN changes), !.late = late]
  <2>1. call' = [call EXCEPT ![u] = d]
    BY <1>6, <1>10
  <2>2. /\ DOMAIN d = CallFields /\ d.pc = "send" /\ d.changes = changes
        /\ d.next = Min(DOMAIN changes) /\ d.late = late
        /\ \A f \in {"side", "event", "list"} : d[f] = c[f]
    BY <1>7 DEF CallFields
  <2>3. call'[u] = d
    BY <1>7, <2>1
  <2> HIDE DEF d
  <2>4. Keeps(u, {"side", "event", "list"})
    BY <2>2, <2>3 DEF Keeps
  <2>5. /\ call'[u].changes = IndexMap(Inverses(list, known, missed))
        /\ call'[u].late = Late(list, known, missed)
    BY <1>3, <1>4, <1>5, <2>2, <2>3
  <2>6. Inverted(u)
    BY <1>7, <1>8, <1>10, <2>2, <2>3, <2>4, <2>5 DEF Inverted
  <2>7. QED
    BY <1>5, <1>6, <1>7, <1>8, <2>1, <2>5, <2>6
<1>11. QED
  BY <1>9, <1>10

\* What a step does to a request.
LEMMA CallSteps ==
    ASSUME StackInv, [Next]_vars, NEW u \in User
    PROVE  \/ call'[u] = call[u] \/ call'[u] = Idle
           \/ Started(u) \/ Listed(u) \/ Opened(u) \/ Inverted(u) \/ SentOn(u)
<1> DEFINE Goal == \/ call'[u] = call[u] \/ call'[u] = Idle
                   \/ Started(u) \/ Listed(u) \/ Opened(u) \/ Inverted(u) \/ SentOn(u)
<1>0. DOMAIN call = User /\ \A v \in User : call[v].pc # "idle" => CallOfUser(call[v])
  BY DEF StackInv, CallsOK
<1>1. CASE \/ Consume \/ DropMessage \/ AbandonMessage \/ UNCHANGED vars
  BY <1>1 DEF Consume, JoinGroup, TakeMessage, TakeEntry, RefuseEntry,
     DropEventIfEmpty, FindTopEvent, RefuseMessage, AddEntry, DropMessage, AbandonMessage, vars
<1>2. CASE CrashService \/ RestartRedis
  BY <1>0, <1>2 DEF CrashService, RestartRedis, CallsDie
<1>3. ASSUME NEW v \in User, Request(v), v # u PROVE call'[u] = call[u]
  <2>1. CASE InvertChanges(v)
    BY <1>3, <2>1, InvertEffect
  <2>2. CASE ~ InvertChanges(v)
    BY <1>0, <1>3, <2>2 DEF Request, SubmitChange, BeginUndoEvent, StartUndo, ReadEntries,
       OpenEvent, Send, FailCall
  <2>3. QED
    BY <2>1, <2>2
<1>4. CASE (\E o \in Obj, c \in Kind : SubmitChange(u, o, c)) \/ BeginUndoEvent(u)
  BY <1>4 DEF SubmitChange, BeginUndoEvent
<1>5. ASSUME NEW side \in Side, StartUndo(u, side) PROVE Started(u)
  <2> DEFINE c == [pc |-> "read", side |-> side, event |-> Top(stack[u][side]),
                   list |-> << >>, changes |-> << >>, next |-> 0, late |-> {}]
  <2>1. call' = [call EXCEPT ![u] = c] /\ stack[u][side] # << >>
    BY <1>5 DEF StartUndo
  <2>2. Top(stack[u][side]) \in 1 .. events
    BY <2>1, TopIsOn
  <2>3. DOMAIN c = CallFields
    BY DEF CallFields
  <2>4. call'[u] = c
    BY <1>0, <2>1
  <2>5. QED
    BY <2>2, <2>3, <2>4 DEF Started
<1>6. ASSUME ReadEntries(u) PROVE Listed(u)
  <2>1. call[u].pc = "read" /\ CallOfUser(call[u])
    BY <1>0, <1>6 DEF ReadEntries
  <2> DEFINE c == [[call[u] EXCEPT !.list = entries[call[u].event]] EXCEPT !.pc = "open"]
  <2>2. call' = [call EXCEPT ![u] = c]
    BY <1>6 DEF ReadEntries
  <2>3. /\ DOMAIN c = CallFields /\ c.pc = "open" /\ c.list = entries[call[u].event]
        /\ \A f \in CallFields \ {"pc", "list"} : c[f] = call[u][f]
    BY <2>1 DEF CallOfUser, CallFields
  <2>4. call'[u] = c
    BY <1>0, <2>2
  <2> HIDE DEF c
  <2>5. QED
    BY <2>1, <2>3, <2>4 DEF Listed, Keeps, CallOfUser
<1>7. ASSUME OpenEvent(u) PROVE Opened(u)
  <2>1. call[u].pc = "open" /\ CallOfUser(call[u])
    BY <1>0, <1>7 DEF OpenEvent
  <2> DEFINE c == [call[u] EXCEPT !.pc = "fetch"]
  <2>2. call' = [call EXCEPT ![u] = c]
    BY <1>7 DEF OpenEvent
  <2>3. /\ DOMAIN c = CallFields /\ c.pc = "fetch"
        /\ \A f \in CallFields \ {"pc"} : c[f] = call[u][f]
    BY <2>1 DEF CallOfUser, CallFields
  <2>4. call'[u] = c
    BY <1>0, <2>2
  <2> HIDE DEF c
  <2>5. QED
    BY <2>1, <2>3, <2>4 DEF Opened, Keeps
<1>8. ASSUME InvertChanges(u) PROVE call'[u] = Idle \/ Inverted(u)
  <2>1. call' = [call EXCEPT ![u] = Idle] \/ Inverted(u)
    BY <1>8, InvertEffect
  <2>2. QED
    BY <1>0, <2>1
<1>9. ASSUME Send(u) PROVE call'[u] = Idle \/ SentOn(u)
  <2>1. call[u].pc = "send" /\ CallOfUser(call[u])
    BY <1>0, <1>9 DEF Send
  <2> DEFINE rest == {i \in DOMAIN call[u].changes : i > call[u].next}
             c == [call[u] EXCEPT !.next = Min(rest)]
  <2>2. call' = [call EXCEPT ![u] = IF rest = {} THEN Idle ELSE c]
    BY <1>9 DEF Send
  <2>3. /\ DOMAIN c = CallFields /\ c.next = Min(rest)
        /\ \A f \in CallFields \ {"next"} : c[f] = call[u][f]
    BY <2>1 DEF CallOfUser, CallFields
  <2>4. call'[u] = IF rest = {} THEN Idle ELSE c
    BY <1>0, <2>2
  <2>5. rest \in SUBSET DOMAIN call[u].changes /\ \A i \in rest : i > call[u].next
    OBVIOUS
  <2> HIDE DEF c, rest
  <2>6. ASSUME rest # {} PROVE SentOn(u)
    BY <2>1, <2>3, <2>4, <2>5, <2>6 DEF SentOn, Keeps
  <2>7. QED
    BY <2>4, <2>6
<1>10. ASSUME FailCall(u) PROVE call'[u] = Idle
  BY <1>0, <1>10 DEF FailCall
<1>11. \A v \in User : Request(v) => Goal
  <2>1. Request(u) => Goal
    BY <1>4, <1>5, <1>6, <1>7, <1>8, <1>9, <1>10 DEF Request
  <2>2. QED
    BY <1>3, <2>1
<1> HIDE DEF Goal
<1>12. Consume \/ Disturb \/ UNCHANGED vars => Goal
  BY <1>1, <1>2 DEF Disturb, Goal
<1>13. Goal
  BY <1>11, <1>12 DEF Next
<1>14. QED
  BY <1>13 DEF Goal

-----------------------------------------------------------------------------
(* What an undo restores *)

\* A deletion leaves no object, in the log and in what is to be sent.
DeletesAbsent == \A k \in Offsets :
    MessageAt(k).change = "Delete" => MessageAt(k).value = Absent
PendingAbsent == \A u \in User : call[u].pc # "idle" => \A i \in DOMAIN call[u].changes :
    call[u].changes[i].change = "Delete" => call[u].changes[i].value = Absent

\* What a request has read of an event are changes in the log.
ListsLogged == \A u \in User : call[u].pc # "idle" => \A i \in DOMAIN call[u].list :
    call[u].list[i].offset \in Offsets

\* Before it has read its event a request has nothing to send.
ReadsFirst == \A u \in User : call[u].pc = "read" =>
    DOMAIN call[u].changes = {} /\ call[u].late = {}

RestoreInv ==
    /\ TypeOK
    /\ DeletesAbsent /\ PendingAbsent /\ ListsLogged /\ ReadsFirst
    /\ UndoRestores

\* The change found before an entry is one of the log, if there is any.
LEMMA PreviousIs ==
    ASSUME IsSequence(log), NEW entry, NEW known \in 0 .. Len(log)
    PROVE  Previous(entry, known) \in {Absent} \cup Offsets
<1> DEFINE S == {k \in ChangesOf(entry.obj) : k < entry.offset /\ k < known}
<1>1. Len(log) \in Nat
  BY LenProperties DEF IsSequence
<1>2. S \in SUBSET Offsets /\ S \in SUBSET (0 .. Len(log))
  BY <1>1 DEF ChangesOf, Offsets
<1> HIDE DEF S
<1>3. S # {} => Newest(S) \in S
  BY <1>1, <1>2, NewestIsMember
<1>4. S = {} => Newest(S) = Absent
  BY DEF Newest
<1>5. Previous(entry, known) = Newest(S)
  BY DEF Previous, S
<1>6. QED
  BY <1>2, <1>3, <1>4, <1>5

\* The inverse of an entry is a change that submit takes.
LEMMA InverseIs ==
    ASSUME log \in Seq(Message), NEW entry \in Entry, NEW prev \in {Absent} \cup Offsets
    PROVE  /\ InverseOf(entry, prev) \in Pending
           /\ InverseOf(entry, prev).obj = entry.obj
           /\ InverseOf(entry, prev).change = "Delete"
                  => InverseOf(entry, prev).value = Absent
<1>1. MaxLog \in Nat
  BY ConsumerAssumption
<1>2. entry.obj \in Obj
  BY DEF Entry
<1>3. CASE Removes(entry, prev)
  <2>1. InverseOf(entry, prev) = [obj |-> entry.obj, change |-> "Delete", value |-> Absent]
    BY <1>3 DEF InverseOf
  <2>2. QED
    BY <1>1, <1>2, <2>1 DEF Pending, Change, Absent
<1>4. CASE ~ Removes(entry, prev)
  <2>1. prev \in Offsets
    BY <1>4 DEF Removes
  <2>2. MessageAt(prev) \in Message
    BY <2>1, ElementOfSeq DEF MessageAt, Offsets
  <2>3. MessageAt(prev).value \in Absent .. MaxLog - 1
    BY <2>2 DEF Message
  <2>4. InverseOf(entry, prev) =
            [obj |-> entry.obj,
             change |-> IF entry.change = "Modify" THEN "Modify" ELSE "Add",
             value |-> MessageAt(prev).value]
    BY <1>4 DEF InverseOf
  <2>5. QED
    BY <1>2, <2>3, <2>4 DEF Pending, Change
<1>5. QED
  BY <1>3, <1>4

\* What submit is handed has the places of the entries and is of their kind.
LEMMA InvertedIs ==
    ASSUME log \in Seq(Message), NEW list \in Seq(Entry), NEW known \in 0 .. Len(log),
           NEW missed, NEW changes, changes = IndexMap(Inverses(list, known, missed))
    PROVE  /\ DOMAIN changes \subseteq DOMAIN list
           /\ \A i \in DOMAIN changes :
                  /\ changes[i] \in Pending
                  /\ changes[i].change = "Delete" => changes[i].value = Absent
<1> DEFINE D == {j \in DOMAIN list : HasInverse(list[j], PrevAt(list, known, missed, j))}
<1>0. DOMAIN list = 1 .. Len(list) /\ Len(list) \in Nat /\ IsSequence(log)
  BY LenProperties, SequenceOf
<1>1. PICK inverses : inverses = Inverses(list, known, missed)
  OBVIOUS
<1>2. /\ DOMAIN inverses = D
      /\ \A i \in D : inverses[i] = InverseOf(list[i], PrevAt(list, known, missed, i))
  BY <1>1 DEF Inverses
<1>3. ASSUME NEW i \in D
      PROVE  inverses[i] \in Pending /\ (inverses[i].change = "Delete" => inverses[i].value = Absent)
  <2>1. list[i] \in Entry
    BY <1>0, ElementOfSeq
  <2>2. PrevAt(list, known, missed, i) \in {Absent} \cup Offsets
    BY <1>0, PreviousIs DEF PrevAt
  <2>3. QED
    BY <1>2, <2>1, <2>2, InverseIs
<1>4. D \in SUBSET (1 .. Len(list))
  BY <1>0
<1> HIDE DEF D
<1>5. /\ DOMAIN IndexMap(inverses) \subseteq D
      /\ \A i \in DOMAIN IndexMap(inverses) : \E j \in D :
             inverses[j].obj = inverses[i].obj /\ IndexMap(inverses)[i] = inverses[j]
  BY <1>0, <1>2, <1>4, IndexMapProperties
<1>6. changes = IndexMap(inverses)
  BY <1>1
<1>7. DOMAIN changes \subseteq DOMAIN list
  BY <1>0, <1>4, <1>5, <1>6
<1>8. ASSUME NEW i \in DOMAIN changes
      PROVE  /\ changes[i] \in Pending
             /\ changes[i].change = "Delete" => changes[i].value = Absent
  <2>1. PICK j \in D : changes[i] = inverses[j]
    BY <1>5, <1>6
  <2>2. QED
    BY <1>3, <2>1
<1>9. QED
  BY <1>7, <1>8

\* A message that is appended is one, and a deletion leaves no object.
LEMMA NewMessage ==
    ASSUME StackInv, TypeOK, PendingAbsent, [Next]_vars
    PROVE  \/ log' = log
           \/ \E message \in Message :
                  /\ Produce(message)
                  /\ message.change = "Delete" => message.value = Absent
<1>0. MaxLog \in Nat /\ MaxEvents \in Nat /\ Kind \subseteq Change
  BY ConsumerAssumption, EventAssumption
<1>1. events \in 0 .. MaxEvents /\ Len(log) \in Nat
  BY LenProperties DEF TypeOK
<1>2. ASSUME NEW u \in User, NEW o \in Obj, NEW c \in Kind, SubmitChange(u, o, c)
      PROVE  \E message \in Message :
                  /\ Produce(message)
                  /\ message.change = "Delete" => message.value = Absent
  <2> DEFINE message ==
            [user |-> u, obj |-> o, change |-> c, source |-> "user",
             event |-> Top(stack[u]["undo"]),
             value |-> IF c = "Delete" THEN Absent ELSE Len(log)]
  <2>1. Produce(message) /\ Len(log) < MaxLog
    BY <1>2 DEF SubmitChange, Produce
  <2>2. Top(stack[u]["undo"]) \in 0 .. MaxEvents
    <3>1. "undo" \in Side
      BY DEF Side
    <3>2. stack[u]["undo"] # << >> => Top(stack[u]["undo"]) \in 1 .. events
      BY <3>1, TopIsOn
    <3>3. stack[u]["undo"] = << >> => Top(stack[u]["undo"]) = 0
      BY DEF Top, NoEvent
    <3>4. QED
      BY <1>0, <1>1, <3>2, <3>3
  <2>3. (IF c = "Delete" THEN Absent ELSE Len(log)) \in Absent .. MaxLog - 1
    BY <1>0, <1>1, <2>1 DEF Absent
  <2>4. message \in Message
    BY <1>0, <2>2, <2>3 DEF Message
  <2>5. QED
    BY <2>1, <2>4
<1>3. ASSUME NEW u \in User, Send(u)
      PROVE  \E message \in Message :
                  /\ Produce(message)
                  /\ message.change = "Delete" => message.value = Absent
  <2> DEFINE c == call[u]
             change == c.changes[c.next]
             message == [user |-> u, obj |-> change.obj, change |-> change.change,
                         source |-> c.side, event |-> c.event, value |-> change.value]
  <2>1. Produce(message) /\ c.pc = "send"
    BY <1>3 DEF Send
  <2>2. CallOK(c)
    BY <2>1 DEF TypeOK, Idle
  <2>3. c.next \in DOMAIN c.changes /\ change \in Pending
    BY <2>1, <2>2 DEF CallOK
  <2>4. c.side \in Side /\ c.event \in 0 .. MaxEvents
    BY <1>0, <1>1, <2>2 DEF CallOK
  <2>5. change.obj \in Obj /\ change.change \in Change /\ change.value \in Absent .. MaxLog - 1
    BY <2>3 DEF Pending
  <2>6. change.change = "Delete" => change.value = Absent
    BY <2>1, <2>3 DEF PendingAbsent
  <2> HIDE DEF change
  <2>7. message \in Message
    BY <2>4, <2>5 DEF Message
  <2>8. QED
    BY <2>1, <2>6, <2>7
<1>4. CASE Consume \/ Disturb \/ UNCHANGED vars
  BY <1>4 DEF Consume, JoinGroup, Join, TakeMessage, Fetch, TakeEntry, RefuseEntry,
     DropEventIfEmpty, FindTopEvent, RefuseMessage, AddEntry, Handled, consumerVars,
     Disturb, DropMessage, ConnectFailure, AbandonMessage, HandlerFailure,
     CrashService, Crash, RestartRedis, RedisRestart, vars
<1>5. ASSUME NEW u \in User,
             \/ BeginUndoEvent(u) \/ (\E side \in Side : StartUndo(u, side))
             \/ ReadEntries(u) \/ OpenEvent(u) \/ InvertChanges(u) \/ FailCall(u)
      PROVE  log' = log
  BY <1>5 DEF BeginUndoEvent, StartUndo, ReadEntries, OpenEvent, InvertChanges, FailCall,
     consumerVars
<1>6. QED
  BY <1>2, <1>3, <1>4, <1>5 DEF Next, Request

\* The log holds messages, and its deletions leave no object.
LEMMA LogTypesStep ==
    ASSUME StackInv, TypeOK, PendingAbsent, DeletesAbsent, [Next]_vars
    PROVE  log' \in Seq(Message) /\ DeletesAbsent' /\ Len(log) <= Len(log')
<1>0. log \in Seq(Message) /\ Len(log) \in Nat /\ IsSequence(log)
  BY LenProperties, SequenceOf DEF TypeOK
<1>1. CASE log' = log
  BY <1>0, <1>1 DEF DeletesAbsent, Offsets, MessageAt
<1>2. CASE log' # log
  <2>1. PICK message \in Message :
            /\ Produce(message)
            /\ message.change = "Delete" => message.value = Absent
    BY <1>2, NewMessage
  <2>2. log' \in Seq(Message)
    BY <1>0, <2>1, AppendProperties DEF Produce
  <2>3. /\ Len(log') = Len(log) + 1
        /\ \A i \in 1 .. Len(log) : log'[i] = log[i]
        /\ log'[Len(log) + 1] = message
    BY <1>0, <2>1, Produced
  <2>4. ASSUME NEW k \in 0 .. Len(log') - 1, log'[k + 1].change = "Delete"
        PROVE  log'[k + 1].value = Absent
    <3>1. CASE k = Len(log)
      BY <2>1, <2>3, <2>4, <3>1
    <3>2. CASE k # Len(log)
      <4>1. k \in Offsets /\ k + 1 \in 1 .. Len(log)
        BY <1>0, <2>3, <3>2 DEF Offsets
      <4>2. QED
        BY <2>3, <2>4, <4>1 DEF DeletesAbsent, MessageAt
    <3>3. QED
      BY <3>1, <3>2
  <2>5. DeletesAbsent'
    BY <2>4 DEF DeletesAbsent, Offsets, MessageAt
  <2>6. QED
    BY <1>0, <2>2, <2>3, <2>5
<1>3. QED
  BY <1>1, <1>2

\* What is in the events stays entries.
LEMMA EntriesTypesStep ==
    ASSUME StackInv, TypeOK, [Next]_vars
    PROVE  entries' \in [Event -> Seq(Entry)]
<1>0. entries \in [Event -> Seq(Entry)] /\ log \in Seq(Message) /\ position \in 0 .. Len(log)
  BY DEF TypeOK, ConsumerTypeOK
<1>1. CASE TakeEntry
  <2> DEFINE list == RemoveFirstMatch(entries[Current.event], IsOfCurrent)
  <2>1. entries' = [entries EXCEPT ![Current.event] = list]
    BY <1>1 DEF TakeEntry
  <2>2. Current.event \in Event
    BY <1>1, TakeEffect
  <2>3. entries'[Current.event] = list
    BY <1>0, <2>1, <2>2
  <2>4. list \in Seq(Range(list))
    BY <1>1, <2>3, TakeEffect DEF IsSequence
  <2>5. Range(list) \subseteq Entry
    <3>1. \A k \in DOMAIN list : \E i \in DOMAIN entries[Current.event] :
              list[k] = entries[Current.event][i]
      BY <1>1, <2>3, TakeEffect
    <3>2. entries[Current.event] \in Seq(Entry)
      BY <1>0, <2>2
    <3>3. \A i \in DOMAIN entries[Current.event] : entries[Current.event][i] \in Entry
      BY <3>2, LenProperties, ElementOfSeq
    <3> HIDE DEF list
    <3>4. QED
      BY <3>1, <3>3 DEF Range
  <2> HIDE DEF list
  <2>6. list \in Seq(Entry)
    BY <2>4, <2>5, SeqMonotonic
  <2>7. QED
    BY <1>0, <2>1, <2>2, <2>6
<1>2. CASE AddEntry
  <2> DEFINE entry == [offset |-> position, obj |-> Current.obj, change |-> Current.change]
  <2>1. entries' = [entries EXCEPT ![target] = Append(entries[target], entry)]
    BY <1>2 DEF AddEntry
  <2>2. phase = "handling" /\ position < Len(log) /\ Len(log) \in Nat
    BY <1>0, <1>2, LenProperties DEF AddEntry, TypeOK, ConsumerTypeOK
  <2>3. Current \in Message
    BY <1>0, <2>2, ElementOfSeq DEF Current, MessageAt
  <2>4. entry \in Entry
    BY <1>0, <2>2, <2>3 DEF Entry, Message
  <2> HIDE DEF entry
  <2>5. ASSUME target \in Event PROVE Append(entries[target], entry) \in Seq(Entry)
    BY <1>0, <2>4, <2>5, AppendProperties
  <2>6. QED
    BY <1>0, <2>1, <2>5
<1>3. CASE RestartRedis
  <2>1. << >> \in Seq(Entry)
    BY EmptySeq
  <2>2. QED
    BY <1>3, <2>1 DEF RestartRedis
<1>4. CASE entries' = entries
  BY <1>0, <1>4
<1>5. CASE \/ Submits \/ Opens \/ TakeMessage \/ DropEventIfEmpty \/ FindTopEvent
           \/ Ends \/ Stays
  BY <1>4, <1>5 DEF Submits, Opens, TakeMessage, DropEventIfEmpty, FindTopEvent, Ends, Stays,
     stackVars
<1>6. QED
  BY <1>1, <1>2, <1>3, <1>5, StepCases DEF Moves

\* The consumer's step and target, and what was seen and refused.
LEMMA TaskTypesStep ==
    ASSUME StackInv, TypeOK, [Next]_vars
    PROVE  /\ step' \in Steps
           /\ step' # "take" => phase' = "handling"
           /\ target' \in 0 .. events'
           /\ target' # NoEvent <=> step' = "add"
           /\ refused' \subseteq Offsets'
<1> USE DEF Steps, NoEvent
<1>0. /\ step \in Steps /\ (step # "take" => phase = "handling")
      /\ target \in 0 .. events /\ (target # NoEvent <=> step = "add")
      /\ refused \subseteq Offsets
      /\ events \in Nat /\ events' \in Nat /\ events <= events'
      /\ Len(log) \in Nat /\ position \in 0 .. Len(log)
      /\ phase = "handling" => position \in Offsets
  <2>1. Len(log) \in Nat
    BY LenProperties DEF TypeOK
  <2>2. phase = "handling" => position \in Offsets
    BY <2>1 DEF TypeOK, ConsumerTypeOK, Offsets
  <2>3. QED
    BY <2>1, <2>2, EventsGrow, EventAssumption DEF TypeOK, ConsumerTypeOK
<1>1. \A k \in Offsets : k \in Offsets'
  BY MessagesStep
<1>2. CASE UNCHANGED <<step, target, refused, phase>>
  BY <1>0, <1>1, <1>2
<1>3. CASE JoinGroup \/ DropMessage
  <2>1. UNCHANGED <<step, target, refused>> /\ phase # "handling"
    BY <1>3 DEF JoinGroup, Join, DropMessage, ConnectFailure, taskVars
  <2>2. QED
    BY <1>0, <1>1, <2>1
<1>4. CASE TakeMessage
  BY <1>0, <1>1, <1>4 DEF TakeMessage, Fetch
<1>5. CASE TakeEntry \/ DropEventIfEmpty
  BY <1>0, <1>1, <1>5 DEF TakeEntry, DropEventIfEmpty, consumerVars
<1>6. CASE FindTopEvent
  <2>1. phase = "handling" /\ stack[Current.user][Receiving(Current)] # << >>
    BY <1>6 DEF FindTopEvent, Top
  <2>2. Current.user \in User /\ Receiving(Current) \in Side
    <3>1. Fits(Current)
      BY <1>0, <2>1 DEF StackInv, MessagesOK, Current
    <3>2. QED
      BY <3>1 DEF Fits, Receiving, Other, Side
  <2>3. Top(stack[Current.user][Receiving(Current)]) \in 1 .. events
    BY <2>1, <2>2, TopIsOn
  <2>4. /\ target' \in 1 .. events /\ step' = "add" /\ phase' = "handling"
        /\ refused' = refused
    BY <1>6, <2>3 DEF FindTopEvent, consumerVars
  <2>5. QED
    BY <1>0, <1>1, <2>4
<1>7. CASE AddEntry
  BY <1>0, <1>1, <1>7 DEF AddEntry
<1>8. CASE AbandonMessage \/ CrashService \/ RestartRedis
  <2>1. step' = "take" /\ target' = NoEvent /\ refused' = refused
    BY <1>8 DEF AbandonMessage, CrashService, RestartRedis
  <2>2. QED
    BY <1>0, <1>1, <2>1
<1>9. CASE RefuseEntry \/ RefuseMessage
  <2>1. /\ phase = "handling" /\ step' = "take" /\ target' = target /\ step # "add"
        /\ refused' = refused \cup {position}
    BY <1>9 DEF RefuseEntry, RefuseMessage, taskVars
  <2>2. QED
    BY <1>0, <1>1, <2>1
<1>10. ASSUME NEW u \in User, Request(u) PROVE UNCHANGED <<step, target, refused, phase>>
  BY <1>10 DEF Request, SubmitChange, Produce, BeginUndoEvent, StartUndo, ReadEntries,
     OpenEvent, InvertChanges, Send, FailCall, consumerVars, taskVars
<1>11. CASE UNCHANGED vars
  BY <1>2, <1>11 DEF vars, consumerVars, taskVars
<1>12. Consume \/ Disturb \/ UNCHANGED vars \/ (\E u \in User : Request(u))
  BY DEF Next
<1>13. QED
  BY <1>2, <1>3, <1>4, <1>5, <1>6, <1>7, <1>8, <1>9, <1>10, <1>11, <1>12 DEF Consume, Disturb

\* How far the objects service is known to be, and whether it was read early.
LEMMA SeenStep ==
    ASSUME StackInv, TypeOK, PendingAbsent, DeletesAbsent, [Next]_vars
    PROVE  seen' \in 0 .. Len(log') /\ misread' \in BOOLEAN
<1>0. /\ seen \in 0 .. Len(log) /\ misread \in BOOLEAN
      /\ Len(log) \in Nat /\ Len(log') \in Nat /\ Len(log) <= Len(log')
  BY LogTypesStep, LenProperties DEF TypeOK
<1>1. CASE UNCHANGED <<seen, misread>>
  BY <1>0, <1>1
<1>2. ASSUME NEW u \in User, InvertChanges(u)
      PROVE  seen' \in 0 .. Len(log') /\ misread' \in BOOLEAN
  <2>1. PICK known \in seen .. Len(log) :
            \E late : seen' = known /\ misread' = (misread \/ late # {})
    BY <1>2, InvertEffect
  <2>2. misread' \in BOOLEAN
    BY <1>0, <2>1
  <2>3. QED
    BY <1>0, <2>1, <2>2
<1>3. CASE Consume \/ Disturb \/ UNCHANGED vars
  BY <1>1, <1>3 DEF Consume, JoinGroup, TakeMessage, TakeEntry, RefuseEntry,
     DropEventIfEmpty, FindTopEvent, RefuseMessage, AddEntry,
     Disturb, DropMessage, AbandonMessage, CrashService, RestartRedis, vars
<1>4. ASSUME NEW u \in User, Request(u), ~ InvertChanges(u) PROVE UNCHANGED <<seen, misread>>
  BY <1>4 DEF Request, SubmitChange, BeginUndoEvent, StartUndo, ReadEntries,
     OpenEvent, Send, FailCall
<1>5. QED
  BY <1>1, <1>2, <1>3, <1>4 DEF Next

\* What was inverted, as submit takes it.
LEMMA InvertedTypes ==
    ASSUME StackInv, TypeOK, NEW u \in User, Inverted(u)
    PROVE  /\ DOMAIN call'[u].changes \subseteq DOMAIN call[u].list
           /\ \A i \in DOMAIN call'[u].changes :
                  /\ call'[u].changes[i] \in Pending
                  /\ call'[u].changes[i].change = "Delete"
                         => call'[u].changes[i].value = Absent
           /\ call'[u].late \subseteq DOMAIN call[u].list
           /\ call'[u].next \in DOMAIN call'[u].changes
<1>1. CallOK(call[u])
  BY DEF TypeOK, Idle, Inverted
<1>2. call[u].list \in Seq(Entry) /\ log \in Seq(Message) /\ seen \in 0 .. Len(log)
  BY <1>1 DEF CallOK, TypeOK
<1>3. PICK known \in seen .. Len(log) : \E missed \in SUBSET DOMAIN call[u].list :
           /\ call'[u].changes = IndexMap(Inverses(call[u].list, known, missed))
           /\ call'[u].late = Late(call[u].list, known, missed)
  BY DEF Inverted
<1>4. PICK missed \in SUBSET DOMAIN call[u].list :
           /\ call'[u].changes = IndexMap(Inverses(call[u].list, known, missed))
           /\ call'[u].late = Late(call[u].list, known, missed)
  BY <1>3
<1>5. known \in 0 .. Len(log)
  BY <1>2
<1>6. PICK list, changes : list = call[u].list /\ changes = call'[u].changes
  OBVIOUS
<1>7. /\ DOMAIN changes \subseteq DOMAIN list
      /\ \A i \in DOMAIN changes :
             /\ changes[i] \in Pending
             /\ changes[i].change = "Delete" => changes[i].value = Absent
  BY <1>2, <1>4, <1>5, <1>6, InvertedIs
<1>8. call'[u].late \subseteq DOMAIN list
  BY <1>4, <1>6 DEF Late
<1>9. call'[u].next \in DOMAIN changes
  <2>1. DOMAIN changes # {} /\ call'[u].next = Min(DOMAIN changes)
    BY <1>6 DEF Inverted
  <2>2. DOMAIN changes \in SUBSET Nat
    BY <1>2, <1>6, <1>7, LenProperties
  <2>3. QED
    BY <2>1, <2>2, MinIsFirst
<1>10. QED
  BY <1>6, <1>7, <1>8, <1>9

\* The fields of a request keep their types.
LEMMA CallTypesStep ==
    ASSUME StackInv, TypeOK, PendingAbsent, ReadsFirst, [Next]_vars, NEW u \in User
    PROVE  /\ call'[u] = Idle \/ CallOK(call[u])'
           /\ call'[u].pc # "idle" => \A i \in DOMAIN call'[u].changes :
                  call'[u].changes[i].change = "Delete" => call'[u].changes[i].value = Absent
           /\ call'[u].pc = "read" => DOMAIN call'[u].changes = {} /\ call'[u].late = {}
<1>0. /\ call[u] = Idle \/ CallOK(call[u])
      /\ call[u].pc # "idle" => \A i \in DOMAIN call[u].changes :
             call[u].changes[i].change = "Delete" => call[u].changes[i].value = Absent
      /\ call[u].pc = "read" => DOMAIN call[u].changes = {} /\ call[u].late = {}
      /\ events \in Nat /\ events' \in Nat /\ events <= events'
      /\ entries \in [Event -> Seq(Entry)] /\ 1 .. events \subseteq Event
  BY EventsGrow, EventAssumption DEF TypeOK, PendingAbsent, ReadsFirst, Event
<1>1. CASE call'[u] = call[u]
  BY <1>0, <1>1 DEF CallOK
<1>2. CASE call'[u] = Idle
  BY <1>2 DEF Idle
<1>3. ASSUME call'[u].pc # "idle", call[u].pc # "idle" PROVE CallOK(call[u])
  BY <1>0, <1>3 DEF Idle
<1>4. CASE Started(u)
  <2>1. << >> \in Seq(Entry) /\ DOMAIN << >> = {}
    BY EmptySeq
  <2>2. QED
    BY <1>0, <1>4, <2>1 DEF Started, CallOK
<1>5. CASE Listed(u)
  <2>1. CallOK(call[u]) /\ call[u].pc = "read"
    BY <1>3, <1>5 DEF Listed
  <2>2. /\ call'[u].side = call[u].side /\ call'[u].event = call[u].event
        /\ call'[u].changes = call[u].changes /\ call'[u].late = call[u].late
        /\ call'[u].pc = "open"
        /\ call'[u].list = entries[call[u].event] /\ call[u].event \in 1 .. events
    BY <1>5 DEF Listed, Keeps, CallFields
  <2>3. call'[u].list \in Seq(Entry)
    BY <1>0, <2>2
  <2>4. QED
    BY <1>0, <2>1, <2>2, <2>3 DEF CallOK
<1>6. CASE Opened(u)
  <2>1. CallOK(call[u]) /\ call[u].pc = "open"
    BY <1>3, <1>6 DEF Opened
  <2>2. /\ call'[u].side = call[u].side /\ call'[u].event = call[u].event
        /\ call'[u].changes = call[u].changes /\ call'[u].late = call[u].late
        /\ call'[u].pc = "fetch" /\ call'[u].list = call[u].list
    BY <1>6 DEF Opened, Keeps, CallFields
  <2>3. QED
    BY <1>0, <2>1, <2>2 DEF CallOK
<1>7. CASE Inverted(u)
  <2>1. CallOK(call[u])
    BY <1>3, <1>7 DEF Inverted
  <2>2. /\ call'[u].side = call[u].side /\ call'[u].event = call[u].event
        /\ call'[u].pc = "send" /\ call'[u].list = call[u].list
    BY <1>7 DEF Inverted, Keeps, CallFields
  <2>3. QED
    BY <1>0, <1>7, <2>1, <2>2, InvertedTypes DEF CallOK
<1>8. CASE SentOn(u)
  <2>1. CallOK(call[u]) /\ call[u].pc = "send"
    BY <1>3, <1>8 DEF SentOn, Keeps, CallFields
  <2>2. /\ call'[u].side = call[u].side /\ call'[u].event = call[u].event
        /\ call'[u].changes = call[u].changes /\ call'[u].late = call[u].late
        /\ call'[u].pc = "send" /\ call'[u].list = call[u].list
    BY <1>8, <2>1 DEF SentOn, Keeps, CallFields
  <2>3. PICK I \in SUBSET DOMAIN call[u].changes : I # {} /\ call'[u].next = Min(I)
    BY <1>8 DEF SentOn
  <2>4. call'[u].next \in DOMAIN call[u].changes
    <3>1. DOMAIN call[u].changes \subseteq DOMAIN call[u].list /\ call[u].list \in Seq(Entry)
      BY <2>1 DEF CallOK
    <3>2. I \in SUBSET Nat
      BY <3>1, LenProperties
    <3>3. QED
      BY <2>3, <3>2, MinIsFirst
  <2>5. QED
    BY <1>0, <2>1, <2>2, <2>4 DEF CallOK
<1>9. QED
  BY <1>1, <1>2, <1>4, <1>5, <1>6, <1>7, <1>8, CallSteps

\* What a change of the log is undone to does not change.
LEMMA UndoneStays ==
    ASSUME StackInv, [Next]_vars, NEW entry, entry.offset \in Offsets
    PROVE  Undone(entry)' = Undone(entry)
<1> DEFINE o == entry.obj
           k == entry.offset
<1>0. IsSequence(log) /\ Len(log) \in Nat
  BY LenProperties DEF StackInv, ConsumerOK, IsSequence
<1>1. \A j \in Offsets : j \in Offsets' /\ MessageAt(j)' = MessageAt(j)
  BY MessagesStep
<1>2. \A j \in Offsets' : j < k => j \in Offsets
  BY <1>0 DEF Offsets
<1>3. PICK S : S = {j \in Offsets : MessageAt(j).obj = o /\ j < k}
  OBVIOUS
<1>4. S = {j \in ChangesOf(o) : j < k}
  BY <1>3 DEF ChangesOf
<1>5. S = {j \in Offsets' : MessageAt(j)'.obj = o /\ j < k}
  BY <1>1, <1>2, <1>3
<1>6. {j \in ChangesOf(o)' : j < k} = S
  BY <1>5 DEF ChangesOf
<1>7. PICK prev : prev = Newest(S)
  OBVIOUS
<1>8. prev # Absent => prev \in Offsets
  <2>1. S \in SUBSET (0 .. Len(log)) /\ S \subseteq Offsets
    BY <1>0, <1>3 DEF Offsets
  <2>2. S # {} => Newest(S) \in S
    BY <1>0, <2>1, NewestIsMember
  <2>3. S = {} => Newest(S) = Absent
    BY DEF Newest
  <2>4. QED
    BY <1>7, <2>1, <2>2, <2>3
<1>9. StateBefore(o, k) = IF prev = Absent THEN Absent ELSE MessageAt(prev).value
  BY <1>4, <1>7 DEF StateBefore
<1>10. StateBefore(o, k)' = IF prev = Absent THEN Absent ELSE MessageAt(prev)'.value
  <2>1. {j \in ChangesOf(o) : j < k}' = S
    BY <1>6
  <2>2. QED
    BY <1>7, <2>1 DEF StateBefore
<1>11. StateBefore(o, k)' = StateBefore(o, k)
  BY <1>1, <1>8, <1>9, <1>10
<1>12. QED
  BY <1>11 DEF Undone

\* If an entry is the only one of its object and is not late, its inverse
\* brings back what was before it.
LEMMA InverseRestores ==
    ASSUME log \in Seq(Message), DeletesAbsent,
           NEW list \in Seq(Entry), NEW known \in 0 .. Len(log), NEW missed,
           NEW changes, changes = IndexMap(Inverses(list, known, missed)),
           NEW i \in DOMAIN list, i \notin Late(list, known, missed), Sole(list, i)
    PROVE  LET sent == {j \in DOMAIN changes : changes[j].obj = list[i].obj}
           IN  IF sent = {} THEN Undone(list[i]) = Absent
               ELSE \A j \in sent : changes[j].value = Undone(list[i])
<1> DEFINE D == {j \in DOMAIN list : HasInverse(list[j], PrevAt(list, known, missed, j))}
           sent == {j \in DOMAIN changes : changes[j].obj = list[i].obj}
           entry == list[i]
<1>0. /\ DOMAIN list = 1 .. Len(list) /\ Len(list) \in Nat
      /\ IsSequence(log) /\ Len(log) \in Nat
  BY LenProperties, SequenceOf
<1>1. PICK inverses : inverses = Inverses(list, known, missed)
  OBVIOUS
<1>2. /\ DOMAIN inverses = D
      /\ \A j \in D : inverses[j] = InverseOf(list[j], PrevAt(list, known, missed, j))
  BY <1>1 DEF Inverses
<1>3. \A j \in D : inverses[j].obj = list[j].obj
  <2>1. TAKE j \in D
  <2>2. list[j] \in Entry
    BY <1>0, ElementOfSeq
  <2>3. PrevAt(list, known, missed, j) \in {Absent} \cup Offsets
    BY <1>0, PreviousIs DEF PrevAt
  <2>4. QED
    BY <1>2, <2>2, <2>3, InverseIs
<1>4. PICK prev : prev = Previous(entry, known)
  OBVIOUS
<1>5. PrevAt(list, known, missed, i) = prev
  BY <1>4 DEF PrevAt, Late
<1>6. prev \in {Absent} \cup Offsets
  BY <1>0, <1>4, PreviousIs
<1>7. StateBefore(entry.obj, entry.offset)
          = IF prev = Absent THEN Absent ELSE MessageAt(prev).value
  <2>1. entry \in Entry
    BY <1>0, ElementOfSeq
  <2>2. entry.offset \in Nat /\ entry.offset <= known
    BY <2>1 DEF Entry, Late
  <2>3. \A k \in ChangesOf(entry.obj) : k < entry.offset => k < known
    BY <1>0, <2>2 DEF ChangesOf, Offsets
  <2>4. {k \in ChangesOf(entry.obj) : k < entry.offset /\ k < known}
            = {k \in ChangesOf(entry.obj) : k < entry.offset}
    BY <2>3
  <2>5. prev = Newest({k \in ChangesOf(entry.obj) : k < entry.offset})
    BY <1>4, <2>4 DEF Previous
  <2>6. QED
    BY <2>5 DEF StateBefore
<1>8. D \in SUBSET (1 .. Len(list))
  BY <1>0
<1>9. /\ changes = IndexMap(inverses)
      /\ DOMAIN IndexMap(inverses) \subseteq D
      /\ \A j \in DOMAIN IndexMap(inverses) : \E m \in D :
             inverses[m].obj = inverses[j].obj /\ IndexMap(inverses)[j] = inverses[m]
      /\ \A j \in D : (\A m \in D : inverses[m].obj = inverses[j].obj => m = j)
             => j \in DOMAIN IndexMap(inverses) /\ IndexMap(inverses)[j] = inverses[j]
  <2>1. Len(list) \in Nat /\ DOMAIN inverses = D /\ D \in SUBSET (1 .. Len(list))
    BY <1>0, <1>2, <1>8
  <2>2. changes = IndexMap(inverses)
    BY <1>1
  <2> HIDE DEF D
  <2>3. PICK E \in SUBSET (1 .. Len(list)) : E = D /\ DOMAIN inverses = E
    BY <2>1
  <2>4. /\ DOMAIN IndexMap(inverses) \subseteq E
        /\ \A j \in DOMAIN IndexMap(inverses) : \E m \in E :
               inverses[m].obj = inverses[j].obj /\ IndexMap(inverses)[j] = inverses[m]
        /\ \A j \in E : (\A m \in E : inverses[m].obj = inverses[j].obj => m = j)
               => j \in DOMAIN IndexMap(inverses) /\ IndexMap(inverses)[j] = inverses[j]
    BY <2>1, <2>3, IndexMapProperties
  <2>5. QED
    BY <2>2, <2>3, <2>4
<1>10. \A j \in DOMAIN list : list[j].obj = entry.obj => j = i
  BY DEF Sole
<1>11. \A j \in sent : i \in D /\ changes[j] = inverses[i]
  <2>1. TAKE j \in sent
  <2>2. PICK m \in D : changes[j] = inverses[m]
    BY <1>9
  <2>3. list[m].obj = entry.obj
    BY <1>3, <2>2
  <2>4. m = i
    BY <1>10, <2>3
  <2>5. QED
    BY <2>2, <2>4
<1>12. CASE HasInverse(entry, prev)
  <2>1. i \in D
    BY <1>5, <1>12
  <2>2. \A m \in D : inverses[m].obj = inverses[i].obj => m = i
    BY <1>3, <1>10, <2>1
  <2>3. i \in DOMAIN changes /\ changes[i] = inverses[i] /\ inverses[i].obj = entry.obj
    BY <1>3, <1>9, <2>1, <2>2
  <2>4. sent # {}
    BY <2>3
  <2>5. inverses[i] = InverseOf(entry, prev)
    BY <1>2, <1>5, <2>1
  <2>6. inverses[i].value = IF Removes(entry, prev) THEN Absent ELSE MessageAt(prev).value
    BY <2>5 DEF InverseOf
  <2>7. inverses[i].value = Undone(entry)
    BY <1>7, <2>6 DEF Undone, Removes
  <2>8. \A j \in sent : changes[j].value = Undone(entry)
    BY <1>11, <2>7
  <2> HIDE DEF sent, entry
  <2>9. QED
    BY <2>4, <2>8 DEF sent, entry
<1>13. CASE ~ HasInverse(entry, prev)
  <2>1. i \notin D
    BY <1>5, <1>13
  <2>2. sent = {}
    BY <1>11, <2>1
  <2>3. prev \in Offsets /\ MessageAt(prev).change = "Delete" /\ entry.change # "Add"
    BY <1>6, <1>13 DEF HasInverse, Removes
  <2>4. MessageAt(prev).value = Absent
    BY <2>3 DEF DeletesAbsent
  <2>5. Undone(entry) = Absent
    BY <1>7, <2>3, <2>4 DEF Undone
  <2>6. QED
    BY <2>2, <2>5
<1>14. QED
  BY <1>12, <1>13

\* What a request reads of an event stays in the log.
LEMMA ListsLoggedStep ==
    ASSUME StackInv, ListsLogged, [Next]_vars
    PROVE  ListsLogged'
<1> SUFFICES ASSUME NEW u \in User, call'[u].pc # "idle", NEW i \in DOMAIN call'[u].list
             PROVE  call'[u].list[i].offset \in Offsets'
  BY DEF ListsLogged
<1>0. \A k \in Offsets : k \in Offsets'
  BY MessagesStep
<1>1. ASSUME call[u].pc # "idle", call'[u].list = call[u].list
      PROVE  call'[u].list[i].offset \in Offsets'
  BY <1>0, <1>1 DEF ListsLogged
<1>2. CASE call'[u] = call[u]
  BY <1>1, <1>2
<1>3. CASE call'[u] = Idle
  BY <1>3 DEF Idle
<1>4. CASE Started(u)
  BY <1>4 DEF Started
<1>5. CASE Listed(u)
  <2>1. PICK e \in 1 .. events : call'[u].list = entries[e]
    BY <1>5 DEF Listed
  <2>2. i \in DOMAIN entries[e]
    BY <2>1
  <2>3. entries[e][i].offset \in Offsets
    BY <2>2, EntryIsOfMessage
  <2>4. QED
    BY <1>0, <2>1, <2>3
<1>6. CASE Opened(u) \/ Inverted(u) \/ SentOn(u)
  BY <1>1, <1>6 DEF Opened, Inverted, SentOn, Keeps, CallFields
<1>7. QED
  BY <1>2, <1>3, <1>4, <1>5, <1>6, CallSteps

\* What an undo or a redo sends stays what restores the objects.
LEMMA UndoRestoresStep ==
    ASSUME StackInv, RestoreInv, [Next]_vars
    PROVE  UndoRestores'
<1> SUFFICES ASSUME NEW u \in User, call'[u].pc = "send",
                    NEW i \in DOMAIN call'[u].list \ call'[u].late, Sole(call'[u].list, i)
             PROVE  Restores(call[u], call[u].list[i])'
  BY DEF UndoRestores, Sole
<1>0. call[u].pc # "idle" => \A j \in DOMAIN call[u].list : call[u].list[j].offset \in Offsets
  BY DEF RestoreInv, ListsLogged
<1>1. PICK list, changes : list = call'[u].list /\ changes = call'[u].changes
  OBVIOUS
<1>2. PICK entry : entry = list[i]
  OBVIOUS
<1> DEFINE sent == {j \in DOMAIN changes : changes[j].obj = entry.obj}
           Restored(value) == IF sent = {} THEN value = Absent
                              ELSE \A j \in sent : changes[j].value = value
<1>3. ASSUME call[u].pc # "idle", call[u].list = list, Restored(Undone(entry))
      PROVE  Restores(call[u], call[u].list[i])'
  <2>1. entry.offset \in Offsets
    BY <1>0, <1>1, <1>2, <1>3
  <2>2. Undone(entry)' = Undone(entry)
    BY <2>1, UndoneStays
  <2>3. PICK value : value = Undone(entry)
    OBVIOUS
  <2>4. Restored(value)
    BY <1>3, <2>3
  <2>5. Undone(entry)' = value
    BY <2>2, <2>3
  <2>6. Undone(call[u].list[i])' = value
    BY <1>1, <1>2, <2>5 DEF Undone, StateBefore
  <2>7. QED
    BY <1>1, <1>2, <2>4, <2>6 DEF Restores
<1>4. ASSUME call[u].pc = "send", call'[u].list = call[u].list,
             call'[u].changes = call[u].changes, call'[u].late = call[u].late
      PROVE  Restores(call[u], call[u].list[i])'
  <2>1. Restores(call[u], call[u].list[i])
    BY <1>1, <1>4 DEF RestoreInv, UndoRestores, Sole
  <2>2. Restored(Undone(entry))
    BY <1>1, <1>2, <1>4, <2>1 DEF Restores
  <2>3. QED
    BY <1>1, <1>3, <1>4, <2>2
<1>5. CASE call'[u] = call[u]
  BY <1>4, <1>5
<1>6. CASE SentOn(u)
  BY <1>4, <1>6 DEF SentOn, Keeps, CallFields
<1>7. CASE Inverted(u)
  <2>1. /\ call[u].pc = "fetch" /\ call[u].list = list
        /\ \E known \in seen .. Len(log) : \E missed \in SUBSET DOMAIN list :
               /\ changes = IndexMap(Inverses(list, known, missed))
               /\ call'[u].late = Late(list, known, missed)
    <3>1. call'[u].list = call[u].list
      BY <1>7 DEF Inverted, Keeps
    <3>2. QED
      BY <1>1, <1>7, <3>1 DEF Inverted
  <2>2. PICK known \in seen .. Len(log) : \E missed \in SUBSET DOMAIN list :
               /\ changes = IndexMap(Inverses(list, known, missed))
               /\ call'[u].late = Late(list, known, missed)
    BY <2>1
  <2>3. PICK missed \in SUBSET DOMAIN list :
               /\ changes = IndexMap(Inverses(list, known, missed))
               /\ call'[u].late = Late(list, known, missed)
    BY <2>2
  <2>4. log \in Seq(Message) /\ known \in 0 .. Len(log) /\ list \in Seq(Entry)
    <3>1. CallOK(call[u]) /\ seen \in 0 .. Len(log) /\ log \in Seq(Message)
      BY <2>1 DEF RestoreInv, TypeOK, Idle
    <3>2. QED
      BY <2>1, <3>1, LenProperties DEF CallOK
  <2>5. DeletesAbsent
    BY DEF RestoreInv
  <2>6. i \in DOMAIN list /\ i \notin Late(list, known, missed) /\ Sole(list, i)
    BY <1>1, <2>3
  <2>7. Restored(Undone(entry))
    BY <1>2, <2>3, <2>4, <2>5, <2>6, InverseRestores
  <2>8. QED
    BY <1>3, <2>1, <2>7
<1>8. CASE call'[u] = Idle \/ Started(u) \/ Listed(u) \/ Opened(u)
  BY <1>8 DEF Idle, Started, Listed, Opened
<1>9. QED
  BY <1>5, <1>6, <1>7, <1>8, CallSteps

\* The types hold initially, and nothing is on its way.
LEMMA RestoreInvInit == Init => RestoreInv
<1> SUFFICES ASSUME Init PROVE RestoreInv
  OBVIOUS
<1> USE DEF Init, ConsumerInit
<1>0. MaxLog \in Nat /\ MaxFaults \in Nat /\ MaxEvents \in Nat
  BY ConsumerAssumption, EventAssumption
<1>1. Len(<< >>) = 0 /\ Len(log) = 0
  OBVIOUS
<1>2. ConsumerTypeOK
  BY <1>0, <1>1 DEF ConsumerTypeOK, NoCommit, Phases, Offsets
<1>3. TypeOK
  <2>1. \A S : << >> \in Seq(S)
    BY EmptySeq
  <2>2. log \in Seq(Message) /\ stack \in [User -> [Side -> Seq(1 .. events)]]
    BY <2>1
  <2>3. entries \in [Event -> Seq(Entry)]
    BY <2>1
  <2>4. events \in 0 .. MaxEvents /\ target \in 0 .. events /\ seen \in 0 .. Len(log)
    BY <1>0, <1>1 DEF NoEvent
  <2>5. /\ step \in Steps /\ (step # "take" => phase = "handling")
        /\ (target # NoEvent <=> step = "add")
        /\ refused \subseteq Offsets /\ misread \in BOOLEAN
    BY DEF Steps
  <2>6. \A u \in User : call[u] = Idle
    OBVIOUS
  <2>7. QED
    BY <1>2, <2>2, <2>3, <2>4, <2>5, <2>6 DEF TypeOK
<1>4. DeletesAbsent
  BY <1>1 DEF DeletesAbsent, Offsets
<1>5. PendingAbsent /\ ListsLogged /\ ReadsFirst /\ UndoRestores
  BY DEF PendingAbsent, ListsLogged, ReadsFirst, UndoRestores, Idle
<1>6. QED
  BY <1>3, <1>4, <1>5 DEF RestoreInv

\* Every step preserves the types and what requests restore.
LEMMA RestoreInvStep == StackInv /\ RestoreInv /\ [Next]_vars => RestoreInv'
<1> SUFFICES ASSUME StackInv, RestoreInv, [Next]_vars PROVE RestoreInv'
  OBVIOUS
<1>0. TypeOK /\ DeletesAbsent /\ PendingAbsent /\ ListsLogged /\ ReadsFirst
  BY DEF RestoreInv
<1>1. log' \in Seq(Message) /\ DeletesAbsent'
  BY <1>0, LogTypesStep
<1>2. TypeOK'
  <2>1. ConsumerTypeOK'
    BY <1>0, ConsumerTypesStep DEF TypeOK
  <2>2. StackTypes'
    BY StackTypesStep
  <2>3. entries' \in [Event -> Seq(Entry)]
    BY <1>0, EntriesTypesStep
  <2>4. /\ step' \in Steps
        /\ step' # "take" => phase' = "handling"
        /\ target' \in 0 .. events'
        /\ target' # NoEvent <=> step' = "add"
        /\ refused' \subseteq Offsets'
    BY <1>0, TaskTypesStep
  <2>5. seen' \in 0 .. Len(log') /\ misread' \in BOOLEAN
    BY <1>0, SeenStep
  <2>6. \A u \in User : call'[u] = Idle \/ CallOK(call[u])'
    BY <1>0, CallTypesStep
  <2>7. QED
    BY <1>1, <2>1, <2>2, <2>3, <2>4, <2>5, <2>6 DEF TypeOK, StackTypes
<1>3. PendingAbsent' /\ ReadsFirst'
  BY <1>0, CallTypesStep DEF PendingAbsent, ReadsFirst
<1>4. ListsLogged' /\ UndoRestores'
  BY <1>0, ListsLoggedStep, UndoRestoresStep
<1>5. QED
  BY <1>1, <1>2, <1>3, <1>4 DEF RestoreInv

\* Every reachable state satisfies what the types and requests need.
THEOREM RestoreInductive == Spec => [](StackInv /\ RestoreInv)
<1>1. Init => StackInv /\ RestoreInv
  BY StackInvInit, RestoreInvInit
<1>2. StackInv /\ RestoreInv /\ [Next]_vars => (StackInv /\ RestoreInv)'
  BY StackInvStep, RestoreInvStep
<1>3. QED
  BY <1>1, <1>2, PTL DEF Spec

\* Every variable of the undo service keeps its type, the request of each user
\* included: what it read, what it inverted and what it has still to send.
THEOREM UndoTypeCorrect == Spec => []TypeOK
<1>1. StackInv /\ RestoreInv => TypeOK
  BY DEF RestoreInv
<1>2. QED
  BY <1>1, RestoreInductive, PTL

\* What an undo or a redo submits for an object is the state before the change
\* it undoes, if its event holds one change of the object and the objects
\* service had stored the log up to it: whatever other requests, the consumer
\* and faults do between the reads and the answer (undo, redo, invert_changes
\* and submit's map by object).
THEOREM UndosRestore == Spec => []UndoRestores
<1>1. StackInv /\ RestoreInv => UndoRestores
  BY DEF RestoreInv
<1>2. QED
  BY <1>1, RestoreInductive, PTL
=============================================================================
