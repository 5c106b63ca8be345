--------------------------- MODULE ObjectCacheProofs ---------------------------
(***************************************************************************)
(* Theorems about the object cache, for any files, objects, readers, log   *)
(* length, and number and kinds of faults.                                 *)
(*                                                                         *)
(* The argument: IInv is inductive.  A push puts the change at the         *)
(* consumer's position at the head of its list, so it cannot disturb what  *)
(* a scan at a lower offset finds (PushBelow); once the change is handled  *)
(* the head is what a scan at its own offset finds (PushAt); and passing   *)
(* an offset that holds no change of an object leaves what a scan of that  *)
(* object finds as it was (PassOver).                                      *)
(***************************************************************************)
EXTENDS ObjectCache, TLAPS

-----------------------------------------------------------------------------
(* Lists *)

\* Pushing an entry shifts the list by one (LPUSH).
LEMMA PushProperties ==
    ASSUME NEW list \in Seq(Entry), NEW entry \in Entry
    PROVE  /\ Push(list, entry) \in Seq(Entry)
           /\ Len(Push(list, entry)) = Len(list) + 1
           /\ Push(list, entry)[1] = entry
           /\ \A i \in DOMAIN list : Push(list, entry)[i + 1] = list[i]
           /\ \A i \in DOMAIN Push(list, entry) :
                  i # 1 => i - 1 \in DOMAIN list /\ Push(list, entry)[i] = list[i - 1]
  BY DEF Push

\* A push above an offset leaves what a scan at the offset finds.
LEMMA PushBelow ==
    ASSUME NEW list \in Seq(Entry), NEW entry \in Entry, NEW o \in Int,
           NEW changes \in SUBSET Nat,
           entry.offset > o, CorrectAt(list, changes, o)
    PROVE  CorrectAt(Push(list, entry), changes, o)
<1> DEFINE new == Push(list, entry)
<1>1. /\ new \in Seq(Entry)
      /\ Len(new) = Len(list) + 1
      /\ new[1] = entry
      /\ \A i \in DOMAIN list : new[i + 1] = list[i]
      /\ \A i \in DOMAIN new : i # 1 => i - 1 \in DOMAIN list /\ new[i] = list[i - 1]
  BY PushProperties
<1>2. ASSUME NEW i \in DOMAIN new, FirstHit(new, o, i)
      PROVE  IsNewest(new[i].offset, changes, o)
  <2>1. i # 1
    BY <1>1, <1>2 DEF FirstHit, Entry
  <2>2. i - 1 \in DOMAIN list /\ new[i] = list[i - 1]
    BY <1>1, <2>1
  <2>3. \A j \in 1 .. (i - 1) - 1 : list[j].offset > o
    <3>1. TAKE j \in 1 .. (i - 1) - 1
    <3>2. j + 1 \in 1 .. i - 1 /\ j \in DOMAIN list
      BY <2>2
    <3>3. new[j + 1] = list[j]
      BY <1>1, <3>2
    <3>4. QED
      BY <3>2, <3>3, <1>2 DEF FirstHit
  <2>4. FirstHit(list, o, i - 1)
    BY <1>2, <2>2, <2>3 DEF FirstHit
  <2>5. QED
    BY <2>2, <2>4 DEF CorrectAt
<1>3. ASSUME \E k \in changes : k <= o
      PROVE  \E i \in DOMAIN new : new[i].offset <= o
  <2>1. PICK i \in DOMAIN list : list[i].offset <= o
    BY <1>3 DEF CorrectAt
  <2>2. i + 1 \in DOMAIN new /\ new[i + 1] = list[i]
    BY <1>1, <2>1
  <2>3. QED
    BY <2>1, <2>2
<1>4. QED
  BY <1>2, <1>3 DEF CorrectAt

\* A list headed by the change at an offset answers that offset with it.
LEMMA PushAt ==
    ASSUME NEW list \in Seq(Entry), NEW o \in Int, NEW changes \in SUBSET Nat,
           list # << >>, list[1].offset = o, o \in changes
    PROVE  CorrectAt(list, changes, o)
<1>1. 1 \in DOMAIN list
  OBVIOUS
<1>2. ASSUME NEW i \in DOMAIN list, FirstHit(list, o, i)
      PROVE  IsNewest(list[i].offset, changes, o)
  <2>1. i = 1
    <3>1. ASSUME i # 1 PROVE FALSE
      <4>1. 1 \in 1 .. i - 1
        BY <3>1
      <4>2. QED
        BY <4>1, <1>2 DEF FirstHit
    <3>2. QED
      BY <3>1
  <2>2. QED
    BY <2>1 DEF IsNewest
<1>3. \E i \in DOMAIN list : list[i].offset <= o
  BY <1>1
<1>4. QED
  BY <1>2, <1>3 DEF CorrectAt

\* An offset reached over messages that do not change the object is answered
\* like the last one before them.
LEMMA PassOver ==
    ASSUME NEW list \in Seq(Entry), NEW changes \in SUBSET Nat,
           NEW p \in Int, NEW o \in Int, p - 1 <= o,
           changes \cap p .. o = {},
           \A i \in DOMAIN list : list[i].offset \in changes,
           CorrectAt(list, changes, p - 1)
    PROVE  CorrectAt(list, changes, o)
<1>1. \A k \in changes : k <= o => k <= p - 1
  <2>1. TAKE k \in changes
  <2>2. k \notin p .. o
    OBVIOUS
  <2>3. QED
    BY <2>2
<1>2. ASSUME NEW i \in DOMAIN list, FirstHit(list, o, i)
      PROVE  IsNewest(list[i].offset, changes, o)
  <2>1. list[i].offset \in changes /\ list[i].offset <= p - 1
    BY <1>1, <1>2 DEF FirstHit
  <2>2. \A j \in 1 .. i - 1 : list[j].offset > p - 1
    <3>1. TAKE j \in 1 .. i - 1
    <3>2. list[j].offset \in Nat
      <4>1. j \in DOMAIN list
        OBVIOUS
      <4>2. QED
        BY <4>1
    <3>3. list[j].offset > o
      BY <1>2 DEF FirstHit
    <3>4. QED
      BY <3>2, <3>3
  <2>3. FirstHit(list, p - 1, i)
    BY <1>2, <2>1, <2>2 DEF FirstHit
  <2>4. IsNewest(list[i].offset, changes, p - 1)
    BY <2>3 DEF CorrectAt
  <2>5. \A k \in changes : k <= o => k <= list[i].offset
    BY <1>1, <2>4 DEF IsNewest
  <2>6. QED
    BY <1>2, <2>1, <2>5 DEF IsNewest, FirstHit
<1>3. ASSUME \E k \in changes : k <= o
      PROVE  \E i \in DOMAIN list : list[i].offset <= o
  <2>1. \E i \in DOMAIN list : list[i].offset <= p - 1
    BY <1>1, <1>3 DEF CorrectAt
  <2>2. PICK i \in DOMAIN list : list[i].offset <= p - 1
    BY <2>1
  <2>3. list[i].offset \in Nat
    OBVIOUS
  <2>4. QED
    BY <2>2, <2>3
<1>4. QED
  BY <1>2, <1>3 DEF CorrectAt

\* Changes submitted above an offset do not change its answer.
LEMMA LogGrows ==
    ASSUME NEW list, NEW changes \in SUBSET Nat, NEW more \in SUBSET Nat,
           NEW o \in Int, changes \subseteq more,
           \A k \in more : k \in changes \/ k > o,
           CorrectAt(list, changes, o)
    PROVE  CorrectAt(list, more, o)
<1>1. \A k \in more : k <= o => k \in changes
  OBVIOUS
<1>2. ASSUME NEW k, IsNewest(k, changes, o) PROVE IsNewest(k, more, o)
  BY <1>1, <1>2 DEF IsNewest
<1>3. QED
  BY <1>1, <1>2 DEF CorrectAt

-----------------------------------------------------------------------------
(* Type correctness *)

\* TypeOK but for the scan bounds, which involve the lists.
Types ==
    /\ ConsumerTypeOK
    /\ log \in Seq(Message)
    /\ cache \in [File -> [Obj -> Seq(Entry)]]
    /\ fileOffset \in [File -> Int]
    /\ objList \in [File -> SUBSET Obj]
    /\ step \in Steps
    /\ step # "push" => phase = "handling" /\ Current.change \in Change
    /\ reader \in [Reader -> Call \cup {Idle}]

ScansInBounds == \A r \in Reader : reader[r].pc = "scan" => InBounds(reader[r])

\* The types hold initially.
LEMMA TypeInit == Init => TypeOK
  BY ConsumerAssumption
     DEF Init, ConsumerInit, TypeOK, ConsumerTypeOK, Phases, Steps, NoCommit, NoOffset,
         Offsets, Idle

\* A reader that is not idle has a call in its record.
LEMMA CallOfReader ==
    ASSUME TypeOK, NEW r \in Reader, reader[r].pc # "idle"
    PROVE  reader[r] \in Call
  BY DEF TypeOK, Idle

\* Every step preserves the types of the variables.
LEMMA TypesStep == TypeOK /\ [Next]_vars => Types'
<1> SUFFICES ASSUME TypeOK, [Next]_vars PROVE Types'
  OBVIOUS
<1> USE ConsumerAssumption
    DEF TypeOK, Types, ConsumerTypeOK, Phases, Steps, NoCommit, NoOffset, Offsets, Fault,
        redisVars, consumerVars
<1>1. ASSUME NEW message \in Message, Submit(message) PROVE Types'
  <2>1. log' \in Seq(Message) /\ Len(log') = Len(log) + 1
        /\ \A i \in 1 .. Len(log) : log'[i] = log[i]
    BY <1>1 DEF Submit, Produce
  <2>2. step # "push" => Current' = Current
    BY <1>1, <2>1 DEF Submit, Produce, Current, MessageAt
  <2>3. QED
    BY <1>1, <2>1, <2>2 DEF Submit, Produce
<1>2. CASE JoinGroup
  <2>1. position' \in 0 .. Len(log) /\ lost' \subseteq Offsets
    BY <1>2 DEF JoinGroup, Join
  <2>2. ASSUME NEW r \in Reader PROVE reader'[r] \in Call \cup {Idle}
    <3>1. CASE reader[r].pc # "idle" /\ position' < reader[r].asked
      <4>1. reader[r] \in Call /\ position' \in Nat
        BY <2>1, <3>1, CallOfReader
      <4>2. [reader[r] EXCEPT !.asked = position'] \in Call
        BY <4>1 DEF Call
      <4>3. QED
        BY <1>2, <3>1, <4>2 DEF JoinGroup
    <3>2. CASE ~ (reader[r].pc # "idle" /\ position' < reader[r].asked)
      BY <1>2, <3>2 DEF JoinGroup
    <3>3. QED
      BY <3>1, <3>2
  <2>3. reader' \in [Reader -> Call \cup {Idle}]
    BY <1>2, <2>2 DEF JoinGroup
  <2>4. step' = "push"
    BY <1>2 DEF JoinGroup, Join
  <2>5. QED
    BY <1>2, <2>1, <2>3, <2>4 DEF JoinGroup, Join
<1>3. CASE TakeMessage
  BY <1>3 DEF TakeMessage, Fetch, Current, MessageAt
<1>4. CASE RejectMessage
  BY <1>4 DEF RejectMessage, Handled, Current, MessageAt
<1>5. CASE StoreObjectChange
  <2>1. Current \in Message
    BY <1>5 DEF StoreObjectChange, Current, MessageAt
  <2>2. [offset |-> position, object |-> Current] \in Entry
    BY <2>1 DEF Entry
  <2>3. Push(cache[Current.file][Current.id], [offset |-> position, object |-> Current])
          \in Seq(Entry)
    BY <2>1, <2>2, PushProperties DEF Message
  <2>4. cache' \in [File -> [Obj -> Seq(Entry)]]
    BY <1>5, <2>1, <2>3 DEF StoreObjectChange, Message
  <2>5. QED
    BY <1>5, <2>4 DEF StoreObjectChange, Current, MessageAt
<1>6. CASE StoreFileOffset
  <2>1. Current.change \in Change /\ Current' = Current
    BY <1>6 DEF StoreFileOffset, Current, MessageAt
  <2>2. position \in Int
    OBVIOUS
  <2>3. fileOffset' \in [File -> Int]
    BY <1>6, <2>2 DEF StoreFileOffset
  <2>4. QED
    BY <1>6, <2>1, <2>3 DEF StoreFileOffset
<1>7. CASE UpdateLatestObjList
  <2>1. Current \in Message
    BY <1>7 DEF UpdateLatestObjList, Current, MessageAt
  <2>2. \A list \in SUBSET Obj : ListAfter(list, Current) \in SUBSET Obj
    BY <2>1 DEF ListAfter, Message
  <2>3. objList' \in [File -> SUBSET Obj]
    BY <1>7, <2>1, <2>2 DEF UpdateLatestObjList, Message
  <2>4. QED
    BY <1>7, <2>3 DEF UpdateLatestObjList, Handled
<1>8. CASE DropMessage
  BY <1>8 DEF DropMessage, ConnectFailure
<1>9. CASE AbandonMessage
  BY <1>9 DEF AbandonMessage, HandlerFailure
<1>10. CASE CrashService
  BY <1>10 DEF CrashService, Crash, Delivered, Idle
<1>11. CASE RestartRedis
  <2>1. ASSUME NEW r \in Reader PROVE reader'[r] \in Call \cup {Idle}
    <3>1. CASE reader[r].pc \in InProgress
      <4>1. reader[r] \in Call
        BY <3>1, CallOfReader DEF InProgress
      <4>2. [reader[r] EXCEPT !.pc = "error"] \in Call
        BY <4>1 DEF Call, Ended
      <4>3. QED
        BY <1>11, <3>1, <4>2 DEF RestartRedis
    <3>2. CASE reader[r].pc \notin InProgress
      BY <1>11, <3>2 DEF RestartRedis
    <3>3. QED
      BY <3>1, <3>2
  <2>2. reader' \in [Reader -> Call \cup {Idle}]
    BY <1>11, <2>1 DEF RestartRedis
  <2>3. ConsumerTypeOK'
    BY <1>11 DEF RestartRedis, RedisRestart
  <2>4. QED
    BY <1>11, <2>2, <2>3 DEF RestartRedis, RedisRestart
<1>12. ASSUME NEW r \in Reader, NEW f \in File, NEW id \in Obj,
              NEW o \in -1 .. MaxLog, StartRead(r, f, id, o)
       PROVE  Types'
  BY <1>12 DEF StartRead, Call, InProgress, Current, MessageAt
<1>13. ASSUME NEW r \in Reader, ReadLength(r) PROVE Types'
  <2>1. reader[r] \in Call /\ Len(ListOf(reader[r])) \in Nat
    <3>1. reader[r].pc = "len"
      BY <1>13 DEF ReadLength
    <3>2. reader[r] \in Call
      BY <3>1, CallOfReader
    <3>3. ListOf(reader[r]) \in Seq(Entry)
      BY <3>2 DEF ListOf, Call
    <3>4. QED
      BY <3>2, <3>3
  <2>2. \A len \in Nat, pc \in InProgress \cup Ended :
            [reader[r] EXCEPT !.len = len, !.next = 0, !.pc = pc] \in Call
    BY <2>1 DEF Call
  <2>3. reader' \in [Reader -> Call \cup {Idle}]
    BY <1>13, <2>1, <2>2 DEF ReadLength, InProgress, Ended
  <2>4. QED
    BY <1>13, <2>3 DEF ReadLength, Current, MessageAt
<1>14. ASSUME NEW r \in Reader, ReadIndex(r) PROVE Types'
  <2> DEFINE call == reader[r]
             i == call.next + 1
             list == ListOf(call)
  <2>1. call \in Call /\ i \in Nat
    <3>1. reader[r].pc = "scan"
      BY <1>14 DEF ReadIndex
    <3>2. call \in Call
      BY <3>1, CallOfReader
    <3>3. QED
      BY <3>2 DEF Call
  <2>2. list[i].offset \in Int =>
           [call EXCEPT !.pc = "found", !.version = list[i].offset] \in Call
    BY <2>1 DEF Call, Ended
  <2>3. \A pc \in InProgress \cup Ended : [call EXCEPT !.next = i, !.pc = pc] \in Call
    BY <2>1 DEF Call
  <2>4. i \in DOMAIN list /\ list[i].offset \in Int
    <3>1. list \in Seq(Entry)
      BY <2>1 DEF ListOf, Call
    <3>2. call.next < call.len /\ call.len <= Len(list) /\ call.next \in Nat /\ call.len \in Nat
      BY <1>14, <2>1 DEF ReadIndex, InBounds, Call
    <3>3. i \in DOMAIN list
      BY <3>1, <3>2
    <3>4. list[i] \in Entry
      BY <3>1, <3>3
    <3>5. QED
      BY <3>3, <3>4 DEF Entry
  <2>5. reader' \in [Reader -> Call \cup {Idle}]
    <3>1. \/ reader' = [reader EXCEPT ![r] =
                 [call EXCEPT !.pc = "found", !.version = list[i].offset]]
          \/ reader' = [reader EXCEPT ![r] =
                 [call EXCEPT !.next = i, !.pc = IF i = call.len THEN "not_found" ELSE "scan"]]
      BY <1>14 DEF ReadIndex
    <3>2. (IF i = call.len THEN "not_found" ELSE "scan") \in InProgress \cup Ended
      BY DEF InProgress, Ended
    <3>3. QED
      BY <2>2, <2>3, <2>4, <3>1, <3>2
  <2>6. QED
    BY <1>14, <2>5 DEF ReadIndex, Current, MessageAt
<1>15. CASE UNCHANGED vars
  BY <1>15 DEF vars, Current, MessageAt
<1>16. QED
  BY <1>1, <1>2, <1>3, <1>4, <1>5, <1>6, <1>7, <1>8, <1>9, <1>10, <1>11,
     <1>12, <1>13, <1>14, <1>15 DEF Next, Consume, Disturb, Read

\* A list never shrinks under a scan.
LEMMA ScanStep == TypeOK /\ [Next]_vars => ScansInBounds'
<1> SUFFICES ASSUME TypeOK, [Next]_vars, NEW r \in Reader, reader'[r].pc = "scan"
             PROVE  InBounds(reader[r])'
  BY DEF ScansInBounds
<1> USE DEF InBounds, ListOf
<1>1. ASSUME reader'[r] = reader[r], cache' = cache PROVE InBounds(reader[r])'
  BY <1>1 DEF TypeOK
<1>2. ASSUME NEW message \in Message, Submit(message) PROVE InBounds(reader[r])'
  BY <1>1, <1>2 DEF Submit, redisVars
<1>3. CASE JoinGroup
  BY <1>3 DEF JoinGroup, redisVars, TypeOK
<1>4. CASE StoreObjectChange
  <2>1. reader'[r] = reader[r] /\ reader[r] \in Call
    BY <1>4, CallOfReader DEF StoreObjectChange
  <2> DEFINE f == reader[r].file
             id == reader[r].id
             entry == [offset |-> position, object |-> Current]
  <2>2. Current \in Message /\ entry \in Entry
    BY <1>4 DEF StoreObjectChange, Current, MessageAt, TypeOK, ConsumerTypeOK, Entry
  <2>3. f \in File /\ id \in Obj /\ cache[f][id] \in Seq(Entry) /\ reader[r].len \in Nat
    BY <2>1 DEF Call, TypeOK
  <2>4. cache'[f][id] = cache[f][id] \/ cache'[f][id] = Push(cache[f][id], entry)
    BY <1>4, <2>2, <2>3 DEF StoreObjectChange, TypeOK, Message
  <2>5. Len(cache'[f][id]) \in Nat /\ Len(cache'[f][id]) >= Len(cache[f][id])
    <3>1. Len(Push(cache[f][id], entry)) = Len(cache[f][id]) + 1
      BY ZenonT(30), <2>2, <2>3, PushProperties
    <3>2. Len(cache[f][id]) \in Nat
      BY <2>3
    <3>3. QED
      BY <2>4, <3>1, <3>2
  <2>6. reader[r].next < reader[r].len /\ reader[r].len <= Len(cache[f][id])
    BY <2>1 DEF TypeOK
  <2>7. Len(cache[f][id]) \in Nat
    BY <2>3
  <2>8. reader[r].len <= Len(cache'[f][id])
    <3>1. \A a, b, c \in Int : a <= b /\ c >= b => a <= c
      OBVIOUS
    <3>2. reader[r].len \in Int /\ Len(cache[f][id]) \in Int /\ Len(cache'[f][id]) \in Int
      BY <2>3, <2>5, <2>7
    <3>3. QED
      BY <2>5, <2>6, <3>1, <3>2
  <2>9. QED
    BY <2>1, <2>6, <2>8
<1>5. CASE CrashService
  BY <1>5 DEF CrashService, Idle
<1>6. CASE RestartRedis
  BY <1>6 DEF RestartRedis, InProgress, TypeOK
<1>7. ASSUME NEW q \in Reader, NEW f \in File, NEW id \in Obj,
             NEW o \in -1 .. MaxLog, StartRead(q, f, id, o)
      PROVE  InBounds(reader[r])'
  BY <1>1, <1>7 DEF StartRead, redisVars, TypeOK
<1>8. ASSUME NEW q \in Reader, ReadLength(q) PROVE InBounds(reader[r])'
  <2>1. CASE q = r
    <3> DEFINE len == Len(ListOf(reader[r]))
    <3>1. reader[r].pc = "len"
      BY <1>8, <2>1 DEF ReadLength
    <3>2. reader[r] \in Call
      BY <3>1, CallOfReader
    <3>3. ListOf(reader[r]) \in Seq(Entry)
      BY <3>2 DEF Call, TypeOK
    <3>4. len \in Nat
      BY <3>3
    <3>5. reader'[r] = [reader[r] EXCEPT !.len = len, !.next = 0,
                                        !.pc = IF len = 0 THEN "not_found" ELSE "scan"]
          /\ cache' = cache
      BY <1>8, <2>1 DEF ReadLength, redisVars, TypeOK
    <3>6. len # 0
      BY <3>2, <3>5 DEF Call
    <3>7. /\ reader'[r].len = len /\ reader'[r].next = 0
          /\ reader'[r].file = reader[r].file /\ reader'[r].id = reader[r].id
      BY <3>2, <3>5 DEF Call
    <3>8. QED
      BY <3>4, <3>5, <3>6, <3>7
  <2>2. CASE q # r
    BY <1>1, <1>8, <2>2 DEF ReadLength, redisVars, TypeOK
  <2>3. QED
    BY <2>1, <2>2
<1>9. ASSUME NEW q \in Reader, ReadIndex(q) PROVE InBounds(reader[r])'
  <2>1. CASE q = r
    <3> DEFINE i == reader[r].next + 1
    <3>1. reader[r].pc = "scan"
      BY <1>9, <2>1 DEF ReadIndex
    <3>2. reader[r] \in Call
      BY <3>1, CallOfReader
    <3>3. cache' = cache
          /\ \/ reader'[r] = [reader[r] EXCEPT !.pc = "found",
                               !.version = ListOf(reader[r])[i].offset]
             \/ reader'[r] = [reader[r] EXCEPT !.next = i,
                               !.pc = IF i = reader[r].len THEN "not_found" ELSE "scan"]
      BY <1>9, <2>1 DEF ReadIndex, redisVars, TypeOK
    <3>4. /\ reader'[r] = [reader[r] EXCEPT !.next = i,
                               !.pc = IF i = reader[r].len THEN "not_found" ELSE "scan"]
          /\ i # reader[r].len
      BY <3>2, <3>3 DEF Call
    <3>5. /\ reader'[r].len = reader[r].len /\ reader'[r].next = i
          /\ reader'[r].file = reader[r].file /\ reader'[r].id = reader[r].id
      BY <3>2, <3>4 DEF Call
    <3>6. reader[r].next < reader[r].len /\ reader[r].len <= Len(ListOf(reader[r]))
          /\ reader[r].next \in Nat /\ reader[r].len \in Nat
      BY <3>1, <3>2 DEF TypeOK, Call
    <3>7. QED
      BY <3>3, <3>4, <3>5, <3>6
  <2>2. CASE q # r
    BY <1>1, <1>9, <2>2 DEF ReadIndex, redisVars, TypeOK
  <2>3. QED
    BY <2>1, <2>2
<1>10. CASE \/ TakeMessage \/ RejectMessage \/ StoreFileOffset \/ UpdateLatestObjList
            \/ DropMessage \/ AbandonMessage \/ UNCHANGED vars
  BY <1>1, <1>10 DEF TakeMessage, RejectMessage, StoreFileOffset, UpdateLatestObjList,
     DropMessage, AbandonMessage, vars, redisVars
<1>11. QED
  BY <1>2, <1>3, <1>4, <1>5, <1>6, <1>7, <1>8, <1>9, <1>10 DEF Next, Consume, Disturb, Read

\* Every step preserves TypeOK: scans stay within lists that only grow.
LEMMA TypeStep == TypeOK /\ [Next]_vars => TypeOK'
<1>1. Types' /\ ScansInBounds' => TypeOK'
  BY DEF TypeOK, Types, ScansInBounds
<1>2. QED
  BY <1>1, TypesStep, ScanStep

\* The types hold at every await of the consumer and the readers, and a step
\* other than the first is only pending while a change is being handled.
THEOREM TypeCorrect == Spec => []TypeOK
  BY TypeInit, TypeStep, PTL DEF Spec

-----------------------------------------------------------------------------
(* What a step does to the log, the lists and the position *)

\* The changes of an object are offsets of the log.
LEMMA ChangesAreOffsets ==
    ASSUME NEW f, NEW id
    PROVE  ChangesOf(f, id) \subseteq Offsets /\ ChangesOf(f, id) \in SUBSET Nat
  BY DEF ChangesOf, Offsets

\* The changes of an object depend on the log alone.
LEMMA ChangesKept ==
    ASSUME log' = log, NEW f, NEW id
    PROVE  ChangesOf(f, id)' = ChangesOf(f, id)
  BY DEF ChangesOf, Offsets, MessageAt

\* A submitted message comes after all the others.
LEMMA ChangesGrow ==
    ASSUME TypeOK, NEW message \in Message, Submit(message), NEW f, NEW id
    PROVE  /\ Len(log) \in Nat
           /\ \A k \in Offsets : k \in Offsets' /\ MessageAt(k)' = MessageAt(k)
           /\ ChangesOf(f, id) \subseteq ChangesOf(f, id)'
           /\ \A k \in ChangesOf(f, id)' : k \in ChangesOf(f, id) \/ k = Len(log)
<1>1. log \in Seq(Message) /\ Len(log) \in Nat
  BY DEF TypeOK
<1>2. Len(log') = Len(log) + 1 /\ \A i \in 1 .. Len(log) : log'[i] = log[i]
  BY <1>1 DEF Submit, Produce
<1>3. \A k \in Offsets : k \in Offsets' /\ MessageAt(k)' = MessageAt(k)
  BY <1>1, <1>2 DEF Offsets, MessageAt
<1>4. \A k \in Offsets' : k \in Offsets \/ k = Len(log)
  BY <1>1, <1>2 DEF Offsets
<1>5. QED
  BY <1>1, <1>3, <1>4 DEF ChangesOf

\* The consumer moves over the log without touching the lists: back to its
\* commit, past a change it has pushed, past a message that is no change, or
\* past messages it skips.
Moves ==
    /\ log' = log
    /\ cache' = cache
    /\ lost \subseteq lost'
    /\ step' # "push" => step # "push" /\ position' = position
    /\ \/ position' <= position
       \/ /\ position' = position + 1
          /\ phase = "handling"
          /\ Current.change = "Invalid" \/ step # "push"
       \/ /\ position' > position
          /\ position .. position' - 1 \subseteq lost'

\* Every step is one of these, by what it does to the log and the lists.
LEMMA StepCases ==
    ASSUME TypeOK, [Next]_vars
    PROVE  \/ \E message \in Message : Submit(message)
           \/ StoreObjectChange
           \/ RestartRedis
           \/ Moves
<1> USE DEF Moves, redisVars, consumerVars
<1>0. position \in Nat /\ (phase # "handling" => step = "push")
  BY DEF TypeOK, ConsumerTypeOK
<1>1. CASE JoinGroup
  <2>1. position' \in Int
    BY <1>1 DEF JoinGroup, Join, TypeOK, ConsumerTypeOK, NoCommit
  <2>2. QED
    BY <1>0, <1>1, <2>1 DEF JoinGroup, Join
<1>2. CASE TakeMessage
  BY <1>0, <1>2 DEF TakeMessage, Fetch
<1>3. CASE RejectMessage
  BY <1>0, <1>3 DEF RejectMessage, Handled
<1>4. CASE StoreFileOffset
  BY <1>0, <1>4 DEF StoreFileOffset
<1>5. CASE UpdateLatestObjList
  BY <1>0, <1>5 DEF UpdateLatestObjList, Handled
<1>6. CASE DropMessage
  BY <1>0, <1>6 DEF DropMessage, ConnectFailure
<1>7. CASE AbandonMessage
  BY <1>0, <1>7 DEF AbandonMessage, HandlerFailure
<1>8. CASE CrashService
  BY <1>0, <1>8 DEF CrashService, Crash
<1>9. CASE Read
  BY <1>0, <1>9 DEF Read, StartRead, ReadLength, ReadIndex
<1>10. CASE UNCHANGED vars
  BY <1>0, <1>10 DEF vars
<1>11. QED
  BY <1>1, <1>2, <1>3, <1>4, <1>5, <1>6, <1>7, <1>8, <1>9, <1>10
     DEF Next, Consume, Disturb

\* What a push does: the change at the position, to the head of its list.
LEMMA StoreEffect ==
    ASSUME TypeOK, StoreObjectChange, NEW f \in File, NEW id \in Obj
    PROVE  LET entry == [offset |-> position, object |-> Current]
           IN  /\ log' = log /\ position' = position /\ lost' = lost
               /\ entry \in Entry /\ cache[f][id] \in Seq(Entry)
               /\ Current \in Message /\ Current' = Current
               /\ position \in ChangesOf(Current.file, Current.id)
               /\ cache'[f][id] = IF f = Current.file /\ id = Current.id
                                  THEN Push(cache[f][id], entry) ELSE cache[f][id]
<1>1. Current \in Message /\ position \in Offsets /\ Current.change \in Change
  BY DEF StoreObjectChange, Current, MessageAt, TypeOK, ConsumerTypeOK, Offsets
<1>2. position \in ChangesOf(Current.file, Current.id)
  BY <1>1 DEF ChangesOf, Current
<1>3. [offset |-> position, object |-> Current] \in Entry /\ cache[f][id] \in Seq(Entry)
  <2>1. position \in Nat
    BY DEF TypeOK, ConsumerTypeOK
  <2>2. cache[f][id] \in Seq(Entry)
    BY DEF TypeOK
  <2>3. QED
    BY <1>1, <2>1, <2>2 DEF Entry
<1>4. cache'[f][id] = IF f = Current.file /\ id = Current.id
                      THEN Push(cache[f][id], [offset |-> position, object |-> Current])
                      ELSE cache[f][id]
  BY <1>1 DEF StoreObjectChange, TypeOK, Message
<1>5. Current' = Current /\ log' = log /\ position' = position /\ lost' = lost
  BY DEF StoreObjectChange, consumerVars, Current, MessageAt
<1>6. QED
  BY <1>1, <1>2, <1>3, <1>4, <1>5

\* A restart of Redis empties the lists, and what the group passed is lost.
LEMMA RestartEffect ==
    ASSUME TypeOK, RestartRedis, NEW f \in File, NEW id \in Obj
    PROVE  /\ log' = log /\ cache'[f][id] = << >> /\ step' = "push"
           /\ position' \in Nat /\ position' >= position
           /\ lost \subseteq lost' /\ 0 .. position' - 1 \subseteq lost'
  BY DEF RestartRedis, RedisRestart, TypeOK, ConsumerTypeOK

-----------------------------------------------------------------------------
(* The parts of the inductive invariant *)

\* Every entry stays the offset of a change of its object.
LEMMA GenuineStep == TypeOK /\ EntriesGenuine /\ [Next]_vars => EntriesGenuine'
<1> SUFFICES ASSUME TypeOK, EntriesGenuine, [Next]_vars,
                    NEW f \in File, NEW id \in Obj, NEW i \in DOMAIN cache'[f][id]
             PROVE  /\ cache'[f][id][i].offset \in ChangesOf(f, id)'
                    /\ cache'[f][id][i].object = log'[cache'[f][id][i].offset + 1]
  BY DEF EntriesGenuine, MessageAt
<1> DEFINE list == cache[f][id]
<1>0. \A j \in DOMAIN list : /\ list[j].offset \in ChangesOf(f, id)
                             /\ list[j].object = log[list[j].offset + 1]
  BY DEF EntriesGenuine, MessageAt
<1>1. ASSUME NEW message \in Message, Submit(message)
      PROVE  /\ cache'[f][id][i].offset \in ChangesOf(f, id)'
             /\ cache'[f][id][i].object = log'[cache'[f][id][i].offset + 1]
  <2>1. cache' = cache
    BY <1>1 DEF Submit, redisVars
  <2>2. list[i].offset \in ChangesOf(f, id) /\ list[i].offset \in Offsets
    BY <1>0, <2>1, ChangesAreOffsets
  <2>3. list[i].offset \in ChangesOf(f, id)'
        /\ log'[list[i].offset + 1] = log[list[i].offset + 1]
    BY <1>1, <2>2, ChangesGrow DEF MessageAt
  <2>4. QED
    BY <1>0, <2>1, <2>3
<1>2. CASE StoreObjectChange
  <2> DEFINE entry == [offset |-> position, object |-> Current]
  <2>1. /\ log' = log
        /\ entry \in Entry /\ list \in Seq(Entry)
        /\ position \in ChangesOf(Current.file, Current.id)
        /\ cache'[f][id] = IF f = Current.file /\ id = Current.id
                           THEN Push(list, entry) ELSE list
    BY <1>2, StoreEffect
  <2>2. \/ cache'[f][id][i] = entry /\ f = Current.file /\ id = Current.id
        \/ \E j \in DOMAIN list : cache'[f][id][i] = list[j]
    <3>1. CASE f = Current.file /\ id = Current.id
      <4>1. cache'[f][id] = Push(list, entry)
        BY <2>1, <3>1
      <4>2. Push(list, entry)[1] = entry
            /\ \A k \in DOMAIN Push(list, entry) :
                  k # 1 => k - 1 \in DOMAIN list /\ Push(list, entry)[k] = list[k - 1]
        BY <2>1, PushProperties
      <4>3. QED
        BY <3>1, <4>1, <4>2
    <3>2. CASE ~ (f = Current.file /\ id = Current.id)
      BY <2>1, <3>2
    <3>3. QED
      BY <3>1, <3>2
  <2>3. ChangesOf(f, id)' = ChangesOf(f, id)
    BY <2>1, ChangesKept
  <2>4. entry.offset = position /\ entry.object = log[position + 1]
    BY DEF Current, MessageAt
  <2>5. QED
    BY <1>0, <2>1, <2>2, <2>3, <2>4
<1>3. CASE RestartRedis
  BY <1>3, RestartEffect
<1>4. CASE Moves
  <2>1. ChangesOf(f, id)' = ChangesOf(f, id)
    BY <1>4, ChangesKept DEF Moves
  <2>2. QED
    BY <1>0, <1>4, <2>1 DEF Moves
<1>5. QED
  BY <1>1, <1>2, <1>3, <1>4, StepCases

\* The entry just pushed heads its list until the message is done.
LEMMA PushedFirstStep == TypeOK /\ PushedFirst /\ [Next]_vars => PushedFirst'
<1> SUFFICES ASSUME TypeOK, PushedFirst, [Next]_vars, step' # "push"
             PROVE  /\ cache'[Current'.file][Current'.id] # << >>
                    /\ cache'[Current'.file][Current'.id][1].offset = position'
  BY DEF PushedFirst
<1>1. ASSUME NEW message \in Message, Submit(message)
      PROVE  /\ cache'[Current'.file][Current'.id] # << >>
             /\ cache'[Current'.file][Current'.id][1].offset = position'
  <2>1. step' = step /\ position' = position /\ cache' = cache
    BY <1>1 DEF Submit, Produce, redisVars
  <2>2. position \in Offsets
    BY <2>1 DEF TypeOK, ConsumerTypeOK, Offsets
  <2>3. Current' = Current
    BY <1>1, <2>1, <2>2, ChangesGrow DEF Current
  <2>4. QED
    BY <2>1, <2>3 DEF PushedFirst
<1>2. CASE StoreObjectChange
  <2> DEFINE entry == [offset |-> position, object |-> Current]
             list == cache[Current.file][Current.id]
  <2>1. Current \in Message
    BY <1>2 DEF StoreObjectChange, Current, MessageAt, TypeOK, ConsumerTypeOK
  <2>2. Current.file \in File /\ Current.id \in Obj
    BY <2>1 DEF Message
  <2>3. /\ position' = position /\ Current' = Current
        /\ entry \in Entry /\ list \in Seq(Entry)
        /\ cache'[Current.file][Current.id] = Push(list, entry)
    BY <1>2, <2>2, StoreEffect
  <2>4. Push(list, entry)[1] = entry /\ Len(Push(list, entry)) = Len(list) + 1
    BY <2>3, PushProperties
  <2>5. Push(list, entry) # << >>
    BY <2>3, <2>4
  <2>6. QED
    BY <2>3, <2>4, <2>5
<1>3. CASE RestartRedis
  BY <1>3 DEF RestartRedis
<1>4. CASE Moves
  BY <1>4 DEF Moves, PushedFirst, Current, MessageAt
<1>5. QED
  BY <1>1, <1>2, <1>3, <1>4, StepCases

\* The offset just set stays until the message is done.
LEMMA OffsetBeforeListStep ==
    TypeOK /\ OffsetBeforeList /\ [Next]_vars => OffsetBeforeList'
<1> SUFFICES ASSUME TypeOK, OffsetBeforeList, [Next]_vars, step' = "set_list"
             PROVE  fileOffset'[Current'.file] = position'
  BY DEF OffsetBeforeList
<1> USE DEF redisVars, consumerVars
<1>1. ASSUME step = "set_list", fileOffset' = fileOffset, position' = position,
             Current' = Current
      PROVE  fileOffset'[Current'.file] = position'
  BY <1>1 DEF OffsetBeforeList
<1>2. ASSUME log' = log, position' = position PROVE Current' = Current
  BY <1>2 DEF Current, MessageAt
<1>3. step # "push" => phase = "handling"
  BY DEF TypeOK
<1>4. ASSUME NEW message \in Message, Submit(message)
      PROVE  fileOffset'[Current'.file] = position'
  <2>1. step = "set_list" /\ fileOffset' = fileOffset /\ position' = position
    BY <1>4 DEF Submit, Produce
  <2>2. position \in Offsets
    BY <1>3, <2>1 DEF TypeOK, ConsumerTypeOK, Offsets
  <2>3. Current' = Current
    BY <1>4, <2>1, <2>2, ChangesGrow DEF Current
  <2>4. QED
    BY <1>1, <2>1, <2>3
<1>5. CASE StoreFileOffset
  <2>1. log' = log /\ position' = position
        /\ fileOffset' = [fileOffset EXCEPT ![Current.file] = position]
    BY <1>5 DEF StoreFileOffset
  <2>2. Current \in Message
    BY <1>5 DEF StoreFileOffset, Current, MessageAt, TypeOK, ConsumerTypeOK
  <2>3. Current.file \in DOMAIN fileOffset
    BY <2>2 DEF Message, TypeOK
  <2>4. QED
    BY <1>2, <2>1, <2>3
<1>6. CASE JoinGroup \/ TakeMessage \/ DropMessage
  BY <1>3, <1>6 DEF JoinGroup, Join, TakeMessage, DropMessage, ConnectFailure
<1>7. CASE \/ RejectMessage \/ StoreObjectChange \/ UpdateLatestObjList \/ AbandonMessage
           \/ CrashService \/ RestartRedis
  BY <1>7 DEF RejectMessage, StoreObjectChange, UpdateLatestObjList, AbandonMessage,
     CrashService, RestartRedis
<1>8. CASE Read
  BY <1>1, <1>2, <1>8 DEF Read, StartRead, ReadLength, ReadIndex
<1>9. CASE UNCHANGED vars
  BY <1>1, <1>2, <1>9 DEF vars
<1>10. QED
  BY <1>4, <1>5, <1>6, <1>7, <1>8, <1>9 DEF Next, Consume, Disturb

\* An entry pushed at the position leaves lower offsets alone; the offset the
\* position moves past is either answered by the head of the list or holds no
\* change of the object; a skipped change voids the claim for its object.
LEMMA ReadsStep ==
    TypeOK /\ EntriesGenuine /\ PushedFirst /\ ReadsBelowPosition /\ [Next]_vars
        => ReadsBelowPosition'
<1> SUFFICES ASSUME TypeOK, EntriesGenuine, PushedFirst, ReadsBelowPosition, [Next]_vars
             PROVE  ReadsBelowPosition'
  OBVIOUS
<1>00. position' \in Nat
  BY TypeStep DEF TypeOK, ConsumerTypeOK
<1> SUFFICES ASSUME NEW f \in File, NEW id \in Obj, Intact(f, id)',
                    NEW o \in Int, -1 <= o, o < position'
             PROVE  CorrectAt(cache'[f][id], ChangesOf(f, id)', o)
  BY <1>00 DEF ReadsBelowPosition
<1> DEFINE list == cache[f][id]
           changes == ChangesOf(f, id)
<1>0. /\ list \in Seq(Entry) /\ position \in Nat
      /\ changes \in SUBSET Nat
      /\ \A i \in DOMAIN list : list[i].offset \in changes
  BY ChangesAreOffsets DEF TypeOK, ConsumerTypeOK, EntriesGenuine
<1>1. ASSUME NEW message \in Message, Submit(message)
      PROVE  CorrectAt(cache'[f][id], ChangesOf(f, id)', o)
  <2>1. cache' = cache /\ position' = position /\ lost' = lost
    BY <1>1 DEF Submit, Produce, redisVars
  <2>2. /\ Len(log) \in Nat /\ changes \subseteq ChangesOf(f, id)'
        /\ \A k \in ChangesOf(f, id)' : k \in changes \/ k = Len(log)
    BY <1>1, ChangesGrow
  <2>3. o < Len(log)
    BY <1>0, <2>1, <2>2 DEF TypeOK, ConsumerTypeOK
  <2>4. Intact(f, id)
    BY <2>1, <2>2 DEF Intact
  <2>5. CorrectAt(list, changes, o)
    <3>1. o \in -1 .. position - 1
      BY <1>0, <2>1
    <3>2. QED
      BY <2>4, <3>1 DEF ReadsBelowPosition
  <2>6. ChangesOf(f, id)' \in SUBSET Nat
    BY <1>0, <2>2
  <2>7. \A k \in ChangesOf(f, id)' : k \in changes \/ k > o
    BY <1>0, <2>2, <2>3
  <2>8. CorrectAt(list, ChangesOf(f, id)', o)
    BY <1>0, <2>2, <2>5, <2>6, <2>7, LogGrows
  <2>9. QED
    BY <2>1, <2>8
<1>2. CASE StoreObjectChange
  <2> DEFINE entry == [offset |-> position, object |-> Current]
  <2>1. /\ log' = log /\ position' = position /\ lost' = lost
        /\ entry \in Entry
        /\ cache'[f][id] = IF f = Current.file /\ id = Current.id
                           THEN Push(list, entry) ELSE list
    BY <1>2, StoreEffect
  <2>2. ChangesOf(f, id)' = changes
    BY <2>1, ChangesKept
  <2>3. CorrectAt(list, changes, o)
    <3>1. o \in -1 .. position - 1
      BY <1>0, <2>1
    <3>2. Intact(f, id)
      BY <2>1, <2>2 DEF Intact
    <3>3. QED
      BY <3>1, <3>2 DEF ReadsBelowPosition
  <2>4. entry.offset > o
    BY <1>0, <2>1
  <2>5. CorrectAt(Push(list, entry), changes, o)
    BY <1>0, <2>1, <2>3, <2>4, PushBelow
  <2>6. QED
    BY <2>1, <2>2, <2>3, <2>5
<1>3. CASE RestartRedis
  <2>1. /\ log' = log /\ cache'[f][id] = << >> /\ position' \in Nat
        /\ 0 .. position' - 1 \subseteq lost'
    BY <1>3, RestartEffect
  <2>2. ChangesOf(f, id)' = changes
    BY <2>1, ChangesKept
  <2>3. ASSUME NEW k \in changes, k < position' PROVE FALSE
    <3>1. k \in 0 .. position' - 1
      BY <1>0, <1>00, <2>3
    <3>2. k \notin lost'
      BY <2>2 DEF Intact
    <3>3. QED
      BY <2>1, <3>1, <3>2
  <2>4. \A k \in changes : ~ (k <= o)
    BY <1>0, <1>00, <2>3
  <2>5. QED
    BY <2>1, <2>2, <2>4 DEF CorrectAt
<1>4. CASE Moves
  <2>1. ChangesOf(f, id)' = changes /\ cache'[f][id] = list /\ lost \subseteq lost'
        /\ position' \in Int
    BY <1>4, ChangesKept, TypeStep DEF Moves, TypeOK, ConsumerTypeOK
  <2>2. Intact(f, id)
    BY <2>1 DEF Intact
  <2>3. \A q \in -1 .. position - 1 : CorrectAt(list, changes, q)
    BY <2>2 DEF ReadsBelowPosition
  <2>4. CASE o < position
    BY <1>0, <2>1, <2>3, <2>4
  <2>5. CASE o >= position /\ changes \cap position .. o = {}
    <3>1. CorrectAt(list, changes, position - 1)
      BY <1>0, <2>3
    <3>2. position \in Int /\ position - 1 <= o
      BY <1>0, <2>5
    <3>3. CorrectAt(list, changes, o)
      BY <1>0, <2>5, <3>1, <3>2, PassOver
    <3>4. QED
      BY <2>1, <3>3
  <2>6. CASE o >= position /\ changes \cap position .. o # {}
    <3>1. PICK k \in changes : k \in position .. o
      BY <2>6
    <3>2. ~ (position .. position' - 1 \subseteq lost')
      <4>1. k \in position .. position' - 1
        BY <1>0, <2>1, <3>1
      <4>2. k \notin lost'
        BY <2>1, <3>1 DEF Intact
      <4>3. QED
        BY <4>1, <4>2
    <3>3. /\ position' = position + 1 /\ phase = "handling"
          /\ Current.change = "Invalid" \/ step # "push"
      <4>1. ~ (position' <= position)
        BY <1>0, <1>00, <2>6
      <4>2. QED
        BY <1>4, <3>2, <4>1 DEF Moves
    <3>4. k = position /\ o = position
      BY <1>0, <2>6, <3>1, <3>3
    <3>5. Current.file = f /\ Current.id = id /\ Current.change \in Change
      BY <3>1, <3>4 DEF ChangesOf, Current
    <3>6. list # << >> /\ list[1].offset = position
      BY <3>3, <3>5 DEF PushedFirst, Change
    <3>7. QED
      BY <1>0, <2>1, <3>1, <3>4, <3>6, PushAt
  <2>7. QED
    BY <1>0, <2>4, <2>5, <2>6
<1>5. QED
  BY <1>1, <1>2, <1>3, <1>4, StepCases

\* A step that neither is the reader's own nor breaks its connection leaves
\* the call as it was, but for a lower asked.
KeepsCall(r) ==
    reader'[r].pc # "idle" =>
        /\ reader[r].pc # "idle"
        /\ \E a \in Nat : /\ reader'[r] = [reader[r] EXCEPT !.asked = a]
                         /\ a <= reader[r].asked
                         /\ a <= position'

\* Every step is one of these, by what it does to a call in progress.
LEMMA ReaderCases ==
    ASSUME TypeOK, ReaderInv, [Next]_vars, NEW r \in Reader
    PROVE  \/ RestartRedis
           \/ \E f \in File, id \in Obj, o \in -1 .. MaxLog : StartRead(r, f, id, o)
           \/ ReadLength(r)
           \/ ReadIndex(r)
           \/ KeepsCall(r)
<1>0. position \in Nat /\ position' \in Nat
  BY TypeStep DEF TypeOK, ConsumerTypeOK
<1>1. ASSUME reader'[r] = reader[r], position' >= position PROVE KeepsCall(r)
  <2>1. SUFFICES ASSUME reader[r].pc # "idle"
                 PROVE  KeepsCall(r)
    BY <1>1 DEF KeepsCall
  <2>2. reader[r] \in Call /\ reader[r].asked \in Nat /\ reader[r].asked <= position
    BY <2>1, CallOfReader DEF ReaderInv, CallInv, Call
  <2>3. reader[r] = [reader[r] EXCEPT !.asked = reader[r].asked]
    BY <2>2 DEF Call
  <2>4. reader[r].asked <= position'
    BY <1>0, <1>1, <2>2
  <2>5. QED
    BY <1>1, <2>2, <2>3, <2>4 DEF KeepsCall
<1>2. CASE JoinGroup
  <2>1. CASE reader[r].pc # "idle" /\ position' < reader[r].asked
    <3>1. reader[r] \in Call /\ reader[r].asked \in Nat
      BY <2>1, CallOfReader DEF Call
    <3>2. reader'[r] = [reader[r] EXCEPT !.asked = position']
      BY <1>2, <2>1 DEF JoinGroup
    <3>3. QED
      BY <1>0, <2>1, <3>1, <3>2 DEF KeepsCall
  <2>2. CASE reader[r].pc # "idle" /\ ~ (position' < reader[r].asked)
    <3>1. reader[r] \in Call /\ reader[r].asked \in Nat
      BY <2>2, CallOfReader DEF Call
    <3>2. reader'[r] = reader[r]
      BY <1>2, <2>2 DEF JoinGroup
    <3>3. reader[r] = [reader[r] EXCEPT !.asked = reader[r].asked]
      BY <3>1 DEF Call
    <3>4. reader[r].asked <= reader[r].asked /\ reader[r].asked <= position'
      BY <1>0, <2>2, <3>1
    <3>5. QED
      BY <2>2, <3>1, <3>2, <3>3, <3>4 DEF KeepsCall
  <2>3. CASE reader[r].pc = "idle"
    BY <1>2, <2>3 DEF JoinGroup, KeepsCall
  <2>4. QED
    BY <2>1, <2>2, <2>3
<1>3. CASE CrashService
  BY <1>3 DEF CrashService, KeepsCall, Idle
<1>4. CASE \/ \E message \in Message : Submit(message)
           \/ TakeMessage \/ StoreObjectChange \/ StoreFileOffset
           \/ UNCHANGED vars
  <2>1. reader' = reader /\ position' = position
    BY <1>4 DEF Submit, Produce, TakeMessage, Fetch, StoreObjectChange, StoreFileOffset,
       vars, consumerVars
  <2>2. QED
    BY <1>0, <1>1, <2>1
<1>5. CASE RejectMessage \/ UpdateLatestObjList \/ DropMessage \/ AbandonMessage
  <2>1. reader' = reader /\ position' = position + 1
    BY <1>5 DEF RejectMessage, UpdateLatestObjList, Handled, DropMessage, ConnectFailure,
       AbandonMessage, HandlerFailure
  <2>2. QED
    BY <1>0, <1>1, <2>1
<1>6. ASSUME NEW q \in Reader, q # r,
             \/ \E f \in File, id \in Obj, o \in -1 .. MaxLog : StartRead(q, f, id, o)
             \/ ReadLength(q)
             \/ ReadIndex(q)
      PROVE  KeepsCall(r)
  <2>1. reader'[r] = reader[r] /\ position' = position
    BY <1>6 DEF StartRead, ReadLength, ReadIndex, consumerVars, TypeOK
  <2>2. QED
    BY <1>0, <1>1, <2>1
<1>7. QED
  BY <1>2, <1>3, <1>4, <1>5, <1>6 DEF Next, Consume, Disturb, Read

\* Under any step of the others, what a call has seen stays true.
LEMMA KeptCallInv ==
    ASSUME TypeOK, ReaderInv, [Next]_vars, NEW r \in Reader,
           KeepsCall(r), ~ RestartRedis, reader'[r].pc # "idle"
    PROVE  CallInv(reader[r])'
<1> DEFINE call == reader[r]
<1>1. call \in Call /\ CallInv(call)
  BY CallOfReader DEF KeepsCall, ReaderInv
<1>11. PICK f \in File, id \in Obj : f = call.file /\ id = call.id
  BY <1>1 DEF Call
<1> DEFINE list == cache[f][id]
           changes == ChangesOf(f, id)
           newList == cache'[f][id]
           newChanges == ChangesOf(f, id)'
<1>2. PICK a \in Nat : /\ reader'[r] = [call EXCEPT !.asked = a]
                       /\ a <= call.asked /\ a <= position'
  BY DEF KeepsCall
<1>3. /\ reader'[r].pc = call.pc /\ reader'[r].file = call.file /\ reader'[r].id = call.id
      /\ reader'[r].offset = call.offset /\ reader'[r].next = call.next
      /\ reader'[r].len = call.len /\ reader'[r].version = call.version
      /\ reader'[r].asked = a
  BY <1>1, <1>2 DEF Call
<1>4. /\ call.offset \in Int
      /\ call.asked \in Nat /\ call.len \in Nat /\ call.next \in Nat
      /\ position \in Nat /\ position <= Len(log) /\ Len(log) \in Nat
      /\ list \in Seq(Entry) /\ changes \in SUBSET Nat
  BY <1>1, ChangesAreOffsets DEF Call, TypeOK, ConsumerTypeOK
<1> DEFINE Kept ==
        /\ changes \subseteq newChanges
        /\ \A k \in newChanges : k \in changes \/ k >= position
        /\ newChanges \in SUBSET Nat
        /\ lost \subseteq lost'
        /\ \/ newList = list
           \/ \E entry \in Entry : newList = Push(list, entry) /\ entry.offset = position
<1>5. Kept
  <2>1. ASSUME NEW message \in Message, Submit(message) PROVE Kept
    <3>1. newList = list /\ lost' = lost
      BY <2>1 DEF Submit, Produce, redisVars
    <3>2. /\ changes \subseteq newChanges
          /\ \A k \in newChanges : k \in changes \/ k = Len(log)
      BY <2>1, ChangesGrow
    <3>3. QED
      BY <1>4, <3>1, <3>2
  <2>2. CASE StoreObjectChange
    <3> DEFINE entry == [offset |-> position, object |-> Current]
    <3>1. /\ log' = log /\ lost' = lost /\ entry \in Entry
          /\ newList = IF f = Current.file /\ id = Current.id
                       THEN Push(list, entry) ELSE list
      BY <1>4, <2>2, StoreEffect
    <3>2. newChanges = changes
      BY <3>1, ChangesKept
    <3>3. QED
      BY <1>4, <3>1, <3>2
  <2>3. CASE Moves
    <3>1. log' = log /\ newList = list /\ lost \subseteq lost'
      BY <2>3 DEF Moves
    <3>2. newChanges = changes
      BY <3>1, ChangesKept
    <3>3. QED
      BY <1>4, <3>1, <3>2
  <2>4. QED
    BY <2>1, <2>2, <2>3, StepCases
<1>6. a <= position' /\ a <= call.asked /\ call.asked <= position
  BY <1>1, <1>2 DEF CallInv
<1>7. ASSUME newChanges \cap lost' = {}, call.offset < a
      PROVE  /\ call.pc = "scan" =>
                    \A j \in 1 .. call.next : newList[j].offset > call.offset
             /\ call.pc = "found" => IsNewest(call.version, newChanges, call.offset)
             /\ call.pc = "not_found" =>
                    (\A k \in newChanges : k > call.offset) \/ Len(newList) > call.len
  <2>1. call.offset < call.asked /\ call.offset < position
    BY <1>4, <1>6, <1>7
  <2>2. changes \cap lost = {}
    BY <1>5, <1>7
  <2>3. /\ call.pc = "scan" => \A j \in 1 .. call.next : list[j].offset > call.offset
        /\ call.pc = "found" => IsNewest(call.version, changes, call.offset)
        /\ call.pc = "not_found" =>
               (\A k \in changes : k > call.offset) \/ Len(list) > call.len
    BY <1>1, <1>11, <2>1, <2>2 DEF CallInv, Intact, ListOf
  <2>4. \A k \in newChanges : k \in changes \/ k > call.offset
    BY <1>4, <1>5, <2>1
  <2>5. ASSUME call.pc = "scan", NEW j \in 1 .. call.next
        PROVE  newList[j].offset > call.offset
    <3>1. CASE newList = list
      BY <2>3, <2>5, <3>1
    <3>2. ASSUME NEW entry \in Entry, newList = Push(list, entry), entry.offset = position
          PROVE  newList[j].offset > call.offset
      <4>1. j \in DOMAIN list
        BY <1>4, <1>11, <2>5 DEF TypeOK, InBounds, ListOf
      <4>2. /\ Push(list, entry) \in Seq(Entry)
            /\ Len(Push(list, entry)) = Len(list) + 1
            /\ Push(list, entry)[1] = entry
            /\ \A i \in DOMAIN list : Push(list, entry)[i + 1] = list[i]
        BY <1>4, PushProperties
      <4>3. CASE j = 1
        BY <2>1, <3>2, <4>2, <4>3
      <4>4. CASE j # 1
        <5>1. j - 1 \in 1 .. call.next /\ (j - 1) + 1 = j
          BY <1>4, <4>4
        <5>2. j - 1 \in DOMAIN list
          BY <1>4, <4>1, <4>4
        <5>3. Push(list, entry)[j] = list[j - 1]
          BY <4>2, <5>1, <5>2
        <5>4. QED
          BY <2>3, <2>5, <3>2, <5>1, <5>3
      <4>5. QED
        BY <4>3, <4>4
    <3>3. QED
      BY <1>5, <3>1, <3>2
  <2>6. ASSUME call.pc = "found"
        PROVE  IsNewest(call.version, newChanges, call.offset)
    <3>1. IsNewest(call.version, changes, call.offset)
      BY <2>3, <2>6
    <3>2. \A k \in newChanges : k <= call.offset => k \in changes
      BY <1>4, <1>5, <2>4
    <3>3. QED
      BY <1>5, <3>1, <3>2 DEF IsNewest
  <2>7. ASSUME call.pc = "not_found"
        PROVE  (\A k \in newChanges : k > call.offset) \/ Len(newList) > call.len
    <3>1. Len(newList) >= Len(list) /\ Len(newList) \in Nat /\ Len(list) \in Nat
      <4>1. \A entry \in Entry : Len(Push(list, entry)) = Len(list) + 1
        BY <1>4, PushProperties
      <4>2. Len(list) \in Nat
        BY <1>4
      <4>3. QED
        BY <1>5, <4>1, <4>2
    <3>2. CASE \A k \in changes : k > call.offset
      BY <2>4, <3>2
    <3>3. CASE Len(list) > call.len
      BY <1>4, <3>1, <3>3
    <3>4. QED
      BY <2>3, <2>7, <3>2, <3>3
  <2>8. QED
    BY <2>5, <2>6, <2>7
<1>8. QED
  BY <1>3, <1>6, <1>7, <1>11 DEF CallInv, Intact, ListOf

\* Every step keeps what a call has seen sufficient for its answer.
LEMMA ReaderInvStep == IInv /\ [Next]_vars => ReaderInv'
<1> SUFFICES ASSUME IInv, [Next]_vars, NEW r \in Reader, reader'[r].pc # "idle"
             PROVE  CallInv(reader[r])'
  BY DEF ReaderInv
<1> DEFINE call == reader[r]
<1>0. /\ TypeOK /\ EntriesGenuine /\ PushedFirst /\ ReadsBelowPosition /\ ReaderInv
      /\ position \in Nat /\ position' \in Nat
  BY TypeStep DEF IInv, TypeOK, ConsumerTypeOK
<1>1. CASE RestartRedis
  <2>1. call.pc # "idle" /\ call \in Call /\ CallInv(call)
    BY <1>0, <1>1, CallOfReader DEF RestartRedis, ReaderInv, InProgress, TypeOK
  <2>2. /\ reader'[r].pc \notin {"len", "scan"}
        /\ reader'[r].pc = call.pc \/ reader'[r].pc = "error"
        /\ reader'[r].file = call.file /\ reader'[r].id = call.id
        /\ reader'[r].offset = call.offset /\ reader'[r].len = call.len
        /\ reader'[r].version = call.version /\ reader'[r].asked = call.asked
    BY <1>0, <1>1, <2>1 DEF RestartRedis, TypeOK, InProgress, Call
  <2>3. PICK f \in File, id \in Obj : f = call.file /\ id = call.id
    BY <2>1 DEF Call
  <2> DEFINE changes == ChangesOf(f, id)
  <2>4. /\ log' = log /\ position' \in Nat /\ 0 .. position' - 1 \subseteq lost'
        /\ position' >= position /\ lost \subseteq lost'
    BY <1>0, <1>1, RestartEffect DEF RestartRedis, RedisRestart
  <2>5. ChangesOf(f, id)' = changes /\ changes \in SUBSET Nat
    BY <1>0, <2>4, ChangesKept, ChangesAreOffsets
  <2>6. call.offset \in Int /\ call.asked \in Nat /\ call.asked <= position
    BY <2>1 DEF Call, CallInv
  <2>7. ASSUME changes \cap lost' = {}, call.offset < call.asked
        PROVE  /\ \A k \in changes : k > call.offset
               /\ call.pc # "found"
    <3>1. ASSUME NEW k \in changes, k <= call.offset PROVE FALSE
      <4>1. k \in 0 .. position' - 1
        BY <1>0, <2>4, <2>5, <2>6, <2>7, <3>1
      <4>2. QED
        BY <2>4, <2>7, <4>1
    <3>2. \A k \in changes : k > call.offset
      BY <2>5, <2>6, <3>1
    <3>3. ASSUME call.pc = "found" PROVE FALSE
      <4>1. changes \cap lost = {}
        BY <2>4, <2>7
      <4>2. IsNewest(call.version, changes, call.offset)
        BY <2>1, <2>3, <2>7, <3>3, <4>1 DEF CallInv, Intact
      <4>3. QED
        BY <3>1, <4>2 DEF IsNewest
    <3>4. QED
      BY <3>2, <3>3
  <2>8. reader'[r].asked <= position'
    BY <1>0, <2>2, <2>4, <2>6
  <2>9. QED
    BY <2>2, <2>3, <2>5, <2>7, <2>8 DEF CallInv, Intact
<1>2. ASSUME NEW f \in File, NEW id \in Obj, NEW o \in -1 .. MaxLog, StartRead(r, f, id, o)
      PROVE  CallInv(reader[r])'
  <2>1. reader'[r].pc = "len" /\ reader'[r].asked = position /\ position' = position
    BY <1>0, <1>2 DEF StartRead, consumerVars, TypeOK
  <2>2. QED
    BY <1>0, <2>1 DEF CallInv
<1>3. CASE ReadLength(r)
  <2>1. call.pc = "len" /\ call \in Call /\ CallInv(call)
    BY <1>0, <1>3, CallOfReader DEF ReadLength, ReaderInv
  <2>2. PICK f \in File, id \in Obj : f = call.file /\ id = call.id
    BY <2>1 DEF Call
  <2> DEFINE changes == ChangesOf(f, id)
             list == cache[f][id]
  <2>3. /\ position' = position /\ log' = log /\ lost' = lost /\ cache' = cache
        /\ reader'[r] = [call EXCEPT !.len = Len(list), !.next = 0,
               !.pc = IF Len(list) = 0 THEN "not_found" ELSE "scan"]
    BY <1>0, <1>3, <2>2 DEF ReadLength, consumerVars, redisVars, ListOf, TypeOK
  <2>4. /\ reader'[r].pc = IF Len(list) = 0 THEN "not_found" ELSE "scan"
        /\ reader'[r].next = 0 /\ reader'[r].asked = call.asked
        /\ reader'[r].file = f /\ reader'[r].id = id /\ reader'[r].offset = call.offset
    BY <2>1, <2>2, <2>3 DEF Call
  <2>5. /\ ChangesOf(f, id)' = changes /\ changes \in SUBSET Nat /\ list \in Seq(Entry)
        /\ call.offset \in Int /\ call.offset >= -1 /\ call.asked \in Nat
        /\ call.asked <= position
    BY <1>0, <2>1, <2>3, ChangesKept, ChangesAreOffsets, ConsumerAssumption
       DEF TypeOK, Call, CallInv
  <2>6. ASSUME changes \cap lost = {}, call.offset < call.asked, Len(list) = 0
        PROVE  \A k \in changes : k > call.offset
    <3>1. call.offset \in -1 .. position - 1
      BY <1>0, <2>5, <2>6
    <3>2. CorrectAt(list, changes, call.offset)
      BY <1>0, <2>6, <3>1 DEF ReadsBelowPosition, Intact
    <3>3. DOMAIN list = {}
      BY <2>5, <2>6
    <3>4. ~ \E k \in changes : k <= call.offset
      BY <3>2, <3>3 DEF CorrectAt
    <3>5. QED
      BY <2>5, <3>4
  <2>7. \A j \in 1 .. reader'[r].next : FALSE
    BY <2>4
  <2>8. QED
    BY <2>3, <2>4, <2>5, <2>6, <2>7 DEF CallInv, Intact
<1>4. CASE ReadIndex(r)
  <2>1. call.pc = "scan" /\ call \in Call /\ CallInv(call) /\ InBounds(call)
    BY <1>0, <1>4, CallOfReader DEF ReadIndex, ReaderInv, TypeOK
  <2>2. PICK f \in File, id \in Obj : f = call.file /\ id = call.id
    BY <2>1 DEF Call
  <2> DEFINE changes == ChangesOf(f, id)
             list == cache[f][id]
             i == call.next + 1
  <2>3. /\ position' = position /\ log' = log /\ lost' = lost /\ cache' = cache
    BY <1>4 DEF ReadIndex, consumerVars, redisVars
  <2>4. /\ ChangesOf(f, id)' = changes /\ changes \in SUBSET Nat /\ list \in Seq(Entry)
        /\ call.offset \in Int /\ call.offset >= -1 /\ call.asked \in Nat
        /\ call.asked <= position /\ call.next \in Nat /\ call.len \in Nat
    BY <1>0, <2>1, <2>3, ChangesKept, ChangesAreOffsets, ConsumerAssumption
       DEF TypeOK, Call, CallInv
  <2>5. i \in DOMAIN list /\ i <= call.len /\ list[i].offset \in Nat
    <3>1. call.next < call.len /\ call.len <= Len(list)
      BY <2>1, <2>2 DEF InBounds, ListOf
    <3>2. i \in DOMAIN list /\ i <= call.len
      BY <2>4, <3>1
    <3>3. list[i] \in Entry
      BY <2>4, <3>2
    <3>4. QED
      BY <3>2, <3>3 DEF Entry
  <2>55. /\ reader \in [Reader -> Call \cup {Idle}]
         /\ \/ /\ list[i].offset <= call.offset
               /\ reader' = [reader EXCEPT ![r].pc = "found", ![r].version = list[i].offset]
            \/ /\ list[i].offset > call.offset
               /\ reader' = [reader EXCEPT
                      ![r].next = i,
                      ![r].pc = IF i = call.len THEN "not_found" ELSE "scan"]
    <3>1. ListOf(call) = list
      BY <2>2 DEF ListOf
    <3>2. reader \in [Reader -> Call \cup {Idle}]
      BY <1>0 DEF TypeOK
    <3>3. QED
      BY <1>4, <3>1, <3>2 DEF ReadIndex
  <2>6. ASSUME changes \cap lost = {}, call.offset < call.asked
        PROVE  /\ \A j \in 1 .. call.next : list[j].offset > call.offset
               /\ CorrectAt(list, changes, call.offset)
    <3>1. call.offset \in -1 .. position - 1
      BY <1>0, <2>4, <2>6
    <3>2. CorrectAt(list, changes, call.offset)
      BY <1>0, <2>6, <3>1 DEF ReadsBelowPosition, Intact
    <3>3. \A j \in 1 .. call.next : list[j].offset > call.offset
      BY <2>1, <2>2, <2>6 DEF CallInv, Intact, ListOf
    <3>4. QED
      BY <3>2, <3>3
  <2>7. CASE list[i].offset <= call.offset
    <3>0. reader' = [reader EXCEPT ![r].pc = "found", ![r].version = list[i].offset]
      <4>1. ~ (list[i].offset > call.offset)
        BY <2>4, <2>5, <2>7
      <4>2. QED
        BY <2>55, <4>1
    <3>1. reader'[r] = [call EXCEPT !.pc = "found", !.version = list[i].offset]
      BY <2>55, <3>0
    <3>2. /\ reader'[r].pc = "found" /\ reader'[r].version = list[i].offset
          /\ reader'[r].asked = call.asked /\ reader'[r].offset = call.offset
          /\ reader'[r].file = f /\ reader'[r].id = id
      BY <2>1, <2>2, <3>1 DEF Call
    <3>3. ASSUME changes \cap lost = {}, call.offset < call.asked
          PROVE  IsNewest(list[i].offset, changes, call.offset)
      <4>1. \A j \in 1 .. i - 1 : list[j].offset > call.offset
        BY <2>4, <2>6, <3>3
      <4>2. FirstHit(list, call.offset, i)
        BY <2>5, <2>7, <4>1 DEF FirstHit
      <4>3. QED
        BY <2>5, <2>6, <3>3, <4>2 DEF CorrectAt
    <3>4. QED
      BY <2>3, <2>4, <3>2, <3>3 DEF CallInv, Intact
  <2>8. CASE list[i].offset > call.offset
    <3>0. reader' = [reader EXCEPT ![r].next = i,
                            ![r].pc = IF i = call.len THEN "not_found" ELSE "scan"]
      BY <2>4, <2>5, <2>55, <2>8
    <3>1. reader'[r] = [call EXCEPT !.next = i,
                            !.pc = IF i = call.len THEN "not_found" ELSE "scan"]
      BY <2>55, <3>0
    <3>2. /\ reader'[r].pc = IF i = call.len THEN "not_found" ELSE "scan"
          /\ reader'[r].next = i /\ reader'[r].len = call.len
          /\ reader'[r].asked = call.asked /\ reader'[r].offset = call.offset
          /\ reader'[r].file = f /\ reader'[r].id = id
      BY <2>1, <2>2, <3>1 DEF Call
    <3>3. ASSUME changes \cap lost = {}, call.offset < call.asked
          PROVE  \A j \in 1 .. i : list[j].offset > call.offset
      <4>1. TAKE j \in 1 .. i
      <4>2. j = i \/ j \in 1 .. call.next
        BY <2>4
      <4>3. QED
        BY <2>6, <2>8, <3>3, <4>2
    <3>4. ASSUME changes \cap lost = {}, call.offset < call.asked, i = call.len
          PROVE  (\A k \in changes : k > call.offset) \/ Len(list) > call.len
      <4>1. CASE Len(list) = call.len
        <5>1. ~ \E j \in DOMAIN list : list[j].offset <= call.offset
          <6>1. SUFFICES ASSUME NEW j \in DOMAIN list, list[j].offset <= call.offset
                         PROVE  FALSE
            OBVIOUS
          <6>2. j \in 1 .. i
            BY <2>4, <3>4, <4>1
          <6>3. list[j] \in Entry
            BY <2>4
          <6>4. list[j].offset > call.offset /\ list[j].offset \in Nat
            BY <3>3, <3>4, <6>2, <6>3 DEF Entry
          <6>5. QED
            BY <2>4, <6>1, <6>4
        <5>2. ~ \E k \in changes : k <= call.offset
          BY <2>6, <3>4, <5>1 DEF CorrectAt
        <5>3. QED
          BY <2>4, <5>2
      <4>2. QED
        <5>1. call.len <= Len(list)
          BY <2>1, <2>2 DEF InBounds, ListOf
        <5>2. Len(list) \in Nat
          BY <2>4
        <5>3. QED
          BY <2>4, <4>1, <5>1, <5>2
    <3>5. QED
      BY <2>3, <2>4, <3>2, <3>3, <3>4 DEF CallInv, Intact, ListOf
  <2>9. QED
    BY <2>4, <2>5, <2>7, <2>8
<1>5. CASE KeepsCall(r) /\ ~ RestartRedis
  BY <1>0, <1>5, KeptCallInv
<1>6. QED
  BY <1>0, <1>1, <1>2, <1>3, <1>4, <1>5, ReaderCases

-----------------------------------------------------------------------------
(* The inductive invariant and what follows from it *)

\* The invariant holds initially.
LEMMA IInvInit == Init => IInv
<1> SUFFICES ASSUME Init PROVE IInv
  OBVIOUS
<1>1. TypeOK
  BY TypeInit
<1>2. \A f \in File, id \in Obj : cache[f][id] = << >> /\ ChangesOf(f, id) = {}
  BY DEF Init, ConsumerInit, ChangesOf, Offsets
<1>3. EntriesGenuine /\ PushedFirst /\ OffsetBeforeList
  BY <1>2 DEF EntriesGenuine, PushedFirst, OffsetBeforeList, Init
<1>4. ReadsBelowPosition
  BY <1>2 DEF ReadsBelowPosition, CorrectAt
<1>5. ReaderInv
  BY DEF ReaderInv, Init, Idle
<1>6. QED
  BY <1>1, <1>3, <1>4, <1>5 DEF IInv

\* Every step preserves the invariant.
LEMMA IInvStep == IInv /\ [Next]_vars => IInv'
  BY TypeStep, GenuineStep, PushedFirstStep, OffsetBeforeListStep, ReadsStep, ReaderInvStep DEF IInv

\* Every reachable state satisfies the inductive invariant: the lists hold
\* genuine entries, the change being handled heads its list, and every call
\* has seen only what justifies its answer.
THEOREM Inductive == Spec => []IInv
<1>1. Init => IInv
  BY IInvInit
<1>2. IInv /\ [Next]_vars => IInv'
  BY IInvStep
<1>3. QED
  BY <1>1, <1>2, PTL DEF Spec

\* At every offset the consumer has passed, the list of an object no fault
\* touched answers with the newest change (store_object_change, get_object).
THEOREM ReadsAreCorrect == Spec => []ReadsBelowPosition
<1>1. IInv => ReadsBelowPosition
  BY DEF IInv
<1>2. QED
  BY <1>1, Inductive, PTL

\* Whatever is pushed, crashed and replayed during a get_object call, the
\* version it returns is the newest at or below its offset, and it misses a
\* version only when the list grew under its scan.
THEOREM RacingReads == Spec => []RacingReadNeverWrong
<1>1. IInv => RacingReadNeverWrong
  <2> SUFFICES ASSUME IInv, NEW r \in Reader,
                      reader[r].pc \in {"found", "not_found"},
                      Intact(reader[r].file, reader[r].id),
                      reader[r].offset < reader[r].asked
               PROVE  LET call == reader[r]
                          changes == ChangesOf(call.file, call.id)
                      IN  IF call.pc = "found"
                          THEN IsNewest(call.version, changes, call.offset)
                          ELSE Len(ListOf(call)) = call.len =>
                                   \A k \in changes : k > call.offset
    BY DEF RacingReadNeverWrong
  <2>1. CallInv(reader[r]) /\ reader[r] \in Call
    BY CallOfReader DEF IInv, ReaderInv
  <2>2. ListOf(reader[r]) \in Seq(Entry) /\ reader[r].len \in Nat
    BY <2>1 DEF IInv, TypeOK, ListOf, Call
  <2>3. QED
    BY <2>1, <2>2 DEF CallInv
<1>2. QED
  BY <1>1, Inductive, PTL

-----------------------------------------------------------------------------
(* The offset of a file *)

\* Every step is one of these, by what it does to the offset of a file.
LEMMA FileOffsetCases ==
    ASSUME [Next]_vars
    PROVE  StoreFileOffset \/ RestartRedis \/ fileOffset' = fileOffset
<1>1. CASE \E message \in Message : Submit(message)
  BY <1>1 DEF Submit, redisVars
<1>2. CASE Consume
  BY <1>2 DEF Consume, JoinGroup, TakeMessage, RejectMessage, StoreObjectChange,
     UpdateLatestObjList, redisVars
<1>3. CASE Disturb
  BY <1>3 DEF Disturb, DropMessage, AbandonMessage, CrashService, redisVars
<1>4. CASE Read
  BY <1>4 DEF Read, StartRead, ReadLength, ReadIndex, redisVars
<1>5. CASE UNCHANGED vars
  BY <1>5 DEF vars, redisVars
<1>6. QED
  BY <1>1, <1>2, <1>3, <1>4, <1>5 DEF Next

\* The change at offset k of file f has an entry.
EntryOf(f, k) ==
    /\ k \in Offsets
    /\ MessageAt(k).file = f
    /\ \E i \in DOMAIN cache[f][MessageAt(k).id] : cache[f][MessageAt(k).id][i].offset = k

\* An entry stays until Redis restarts: pushes only move it down its list.
LEMMA EntriesStay ==
    ASSUME TypeOK, [Next]_vars, ~ RestartRedis, NEW f \in File, NEW k, EntryOf(f, k)
    PROVE  EntryOf(f, k)'
<1> DEFINE id == MessageAt(k).id
           list == cache[f][id]
<1>1. k \in Offsets /\ MessageAt(k).file = f /\ id \in Obj /\ list \in Seq(Entry)
  <2>1. k \in Offsets /\ MessageAt(k).file = f
    BY DEF EntryOf
  <2>2. MessageAt(k) \in Message
    BY <2>1 DEF TypeOK, Offsets, MessageAt
  <2>3. id \in Obj
    BY <2>2 DEF Message
  <2>4. QED
    BY <2>1, <2>3 DEF TypeOK
<1>2. PICK i \in DOMAIN list : list[i].offset = k
  BY DEF EntryOf
<1>3. ASSUME NEW message \in Message, Submit(message) PROVE EntryOf(f, k)'
  <2>1. k \in Offsets' /\ MessageAt(k)' = MessageAt(k)
    BY <1>1, <1>3, ChangesGrow
  <2>2. cache' = cache
    BY <1>3 DEF Submit, redisVars
  <2>3. QED
    BY <1>1, <1>2, <2>1, <2>2 DEF EntryOf
<1>4. ASSUME log' = log PROVE k \in Offsets' /\ MessageAt(k)' = MessageAt(k)
  BY <1>1, <1>4 DEF Offsets, MessageAt
<1>5. CASE StoreObjectChange
  <2> DEFINE entry == [offset |-> position, object |-> Current]
  <2>1. /\ log' = log /\ entry \in Entry
        /\ cache'[f][id] = IF f = Current.file /\ id = Current.id
                           THEN Push(list, entry) ELSE list
    BY <1>1, <1>5, StoreEffect
  <2>2. \E j \in DOMAIN cache'[f][id] : cache'[f][id][j].offset = k
    <3>1. CASE cache'[f][id] = list
      BY <1>2, <3>1
    <3>2. CASE cache'[f][id] = Push(list, entry)
      <4>1. /\ Push(list, entry) \in Seq(Entry)
            /\ Len(Push(list, entry)) = Len(list) + 1
            /\ \A j \in DOMAIN list : Push(list, entry)[j + 1] = list[j]
        BY <1>1, <2>1, PushProperties
      <4>2. i + 1 \in DOMAIN Push(list, entry) /\ Push(list, entry)[i + 1] = list[i]
        BY <1>1, <1>2, <4>1
      <4>3. QED
        BY <1>2, <3>2, <4>2
    <3>3. QED
      BY <2>1, <3>1, <3>2
  <2>3. QED
    BY <1>1, <1>4, <2>1, <2>2 DEF EntryOf
<1>6. CASE Moves
  BY <1>1, <1>2, <1>4, <1>6 DEF Moves, EntryOf
<1>7. QED
  BY <1>3, <1>5, <1>6, StepCases

\* When the offset of a file is set the change has been pushed (PushedFirst).
LEMMA OffsetStep ==
    TypeOK /\ PushedFirst /\ OffsetAfterEntry /\ [Next]_vars => OffsetAfterEntry'
<1> SUFFICES ASSUME TypeOK, PushedFirst, OffsetAfterEntry, [Next]_vars,
                    NEW f \in File, fileOffset'[f] # NoOffset
             PROVE  EntryOf(f, fileOffset[f])'
  BY DEF OffsetAfterEntry, EntryOf
<1>1. ASSUME ~ RestartRedis, fileOffset'[f] = fileOffset[f]
      PROVE  EntryOf(f, fileOffset[f])'
  <2>1. EntryOf(f, fileOffset[f])
    BY <1>1 DEF OffsetAfterEntry, EntryOf
  <2>2. PICK k : k = fileOffset[f] /\ EntryOf(f, k)
    BY <2>1
  <2>3. EntryOf(f, k)'
    BY <1>1, <2>2, EntriesStay
  <2>4. k = fileOffset'[f]
    BY <1>1, <2>2
  <2>5. QED
    BY <2>3, <2>4 DEF EntryOf, Offsets, MessageAt
<1>2. CASE StoreFileOffset
  <2>1. /\ log' = log /\ cache' = cache
        /\ fileOffset' = [fileOffset EXCEPT ![Current.file] = position]
        /\ step = "set_offset"
    BY <1>2 DEF StoreFileOffset, consumerVars
  <2>2. CASE f = Current.file
    <3> DEFINE list == cache[f][Current.id]
    <3>1. position \in Offsets /\ Current = MessageAt(position)
      BY <2>1 DEF TypeOK, ConsumerTypeOK, Offsets, Current
    <3>2. Current \in Message
      BY <3>1 DEF TypeOK, Offsets, MessageAt
    <3>3. list \in Seq(Entry)
      BY <3>2 DEF TypeOK, Message
    <3>4. list # << >> /\ list[1].offset = position
      BY <2>1, <2>2 DEF PushedFirst
    <3>5. 1 \in DOMAIN list
      BY <3>3, <3>4
    <3>6. fileOffset'[f] = position
      BY <2>1, <2>2 DEF TypeOK
    <3>7. Offsets' = Offsets /\ log'[position + 1] = Current
      BY <2>1, <3>1 DEF Offsets, MessageAt
    <3>8. QED
      BY <2>1, <2>2, <3>1, <3>4, <3>5, <3>6, <3>7 DEF EntryOf, MessageAt
  <2>3. CASE f # Current.file
    BY <1>1, <1>2, <2>1, <2>3 DEF TypeOK, StoreFileOffset, RestartRedis
  <2>4. QED
    BY <2>2, <2>3
<1>3. CASE RestartRedis
  BY <1>3 DEF RestartRedis
<1>4. QED
  BY <1>1, <1>2, <1>3, FileOffsetCases

\* Whatever is crashed, replayed or lost, the offset that get_latest_offset
\* returns is the offset of a change of the file that reads can find.
THEOREM OffsetsAreStored == Spec => []OffsetAfterEntry
<1>1. Init => OffsetAfterEntry
  BY DEF Init, OffsetAfterEntry
<1>2. IInv /\ OffsetAfterEntry /\ [Next]_vars => OffsetAfterEntry'
  BY OffsetStep DEF IInv
<1>3. QED
  BY <1>1, <1>2, Inductive, PTL DEF Spec

-----------------------------------------------------------------------------
(***************************************************************************)
(* What the whole of an object's file promises: the object list and the    *)
(* offset of the file settle on the last changes, and the cache with its   *)
(* racing consumer and readers implements the VersionedStore.              *)
(*                                                                         *)
(* The argument for the file: every message the consumer passes is         *)
(* applied, refused because it is no change, or recorded as lost, so what  *)
(* is written for the last change of an object, or of the file, is what    *)
(* remains.  The argument for the store: each step of the cache maps to    *)
(* one step of the store or to none; an answer is what the store allows    *)
(* because of IInv.                                                        *)
(***************************************************************************)
-----------------------------------------------------------------------------
(* The object list and the offset of a file *)

\* The consumer passes only messages that are no change, or that are lost.
Passes ==
    /\ log' = log /\ lost \subseteq lost'
    /\ \A k \in Offsets : k < position' =>
           k < position \/ k \in lost' \/ MessageAt(k).change = "Invalid"

\* Every step is one of these, by what it does to the list and the offset.
LEMMA PassCases ==
    ASSUME TypeOK, [Next]_vars
    PROVE  \/ /\ \E message \in Message : Submit(message)
              /\ UNCHANGED <<position, lost, fileOffset, objList>>
           \/ UpdateLatestObjList
           \/ RestartRedis
           \/ Passes /\ objList' = objList /\ (StoreFileOffset \/ fileOffset' = fileOffset)
<1> USE DEF redisVars, consumerVars
<1>0. position \in Nat
  BY DEF TypeOK, ConsumerTypeOK
<1>1. ASSUME log' = log, position' = position, lost' = lost PROVE Passes
  BY <1>1 DEF Passes
<1>2. ASSUME log' = log, position' = position + 1, lost' = lost \cup {position}
      PROVE  Passes
  BY <1>0, <1>2 DEF Passes, Offsets
<1>3. CASE JoinGroup
  <2>1. /\ log' = log /\ lost' = lost \cup position .. position' - 1
        /\ objList' = objList /\ fileOffset' = fileOffset
    BY <1>3 DEF JoinGroup, Join
  <2>2. position' \in Nat
    BY TypeStep DEF TypeOK, ConsumerTypeOK
  <2>3. ASSUME NEW k \in Offsets, k < position', ~ (k < position) PROVE k \in lost'
    <3>1. k \in Int
      BY DEF Offsets
    <3>2. \A a, b \in Int : k < b /\ ~ (k < a) => k \in a .. b - 1
      BY <3>1
    <3>3. k \in position .. position' - 1
      BY <1>0, <2>2, <2>3, <3>2
    <3>4. QED
      BY <2>1, <3>3
  <2>4. QED
    BY <2>1, <2>3 DEF Passes
<1>4. CASE RejectMessage
  BY <1>0, <1>4 DEF RejectMessage, Handled, Passes, Offsets, Current
<1>5. CASE DropMessage \/ AbandonMessage
  BY <1>2, <1>5 DEF DropMessage, ConnectFailure, AbandonMessage, HandlerFailure
<1>6. CASE TakeMessage \/ StoreObjectChange \/ StoreFileOffset \/ CrashService
  BY <1>1, <1>6 DEF TakeMessage, Fetch, StoreObjectChange, StoreFileOffset, CrashService, Crash
<1>7. CASE Read
  BY <1>1, <1>7 DEF Read, StartRead, ReadLength, ReadIndex
<1>8. CASE UNCHANGED vars
  BY <1>1, <1>8 DEF vars
<1>9. CASE \E message \in Message : Submit(message)
  BY <1>9 DEF Submit, Produce
<1>10. QED
  BY <1>3, <1>4, <1>5, <1>6, <1>7, <1>8, <1>9 DEF Next, Consume, Disturb

\* The listings of an object depend on the log alone.
LEMMA ListingsKept ==
    ASSUME log' = log, NEW f, NEW id
    PROVE  Listings(f, id)' = Listings(f, id)
  BY ChangesKept DEF Listings, MessageAt

\* What remains of the last Add or Delete of an object.
LEMMA ListSettledStep ==
    ASSUME TypeOK, [Next]_vars, NEW f \in File, NEW id \in Obj, ListSettled(f, id)
    PROVE  ListSettled(f, id)'
<1> DEFINE L == Listings(f, id)
           isLast(S, log1) == \E k \in S : /\ log1[k + 1].change = "Add"
                                           /\ \A j \in S : j <= k
<1>1. SUFFICES ASSUME Intact(f, id)', \A k \in Listings(f, id)' : k < position'
               PROVE  id \in objList'[f] <=> isLast(Listings(f, id)', log')
  BY DEF ListSettled, MessageAt
<1>2. /\ ChangesOf(f, id) \in SUBSET Nat /\ L \subseteq ChangesOf(f, id)
      /\ ChangesOf(f, id) \subseteq Offsets /\ position \in Nat /\ log \in Seq(Message)
  BY ChangesAreOffsets DEF TypeOK, ConsumerTypeOK, Listings
<1>3. ASSUME Intact(f, id), \A k \in L : k < position
      PROVE  id \in objList[f] <=> isLast(L, log)
  BY <1>3 DEF ListSettled, MessageAt
<1>4. CASE /\ \E message \in Message : Submit(message)
           /\ UNCHANGED <<position, lost, fileOffset, objList>>
  <2>1. PICK message \in Message : Submit(message)
    BY <1>4
  <2>2. /\ Len(log) \in Nat
        /\ \A k \in Offsets : k \in Offsets' /\ MessageAt(k)' = MessageAt(k)
        /\ ChangesOf(f, id) \subseteq ChangesOf(f, id)'
        /\ \A k \in ChangesOf(f, id)' : k \in ChangesOf(f, id) \/ k = Len(log)
    BY <2>1, ChangesGrow
  <2>3. \A k \in Offsets : log'[k + 1] = log[k + 1]
    BY <2>2 DEF MessageAt
  <2>4. Listings(f, id)' = {k \in ChangesOf(f, id)' : log'[k + 1].change # "Modify"}
        /\ L = {k \in ChangesOf(f, id) : log[k + 1].change # "Modify"}
    BY DEF Listings, MessageAt
  <2>5. position <= Len(log)
    BY DEF TypeOK, ConsumerTypeOK
  <2>6. \A k \in Listings(f, id)' : k # Len(log)
    BY <1>1, <1>2, <1>4, <2>2, <2>5
  <2>7. Listings(f, id)' = L
    BY <1>2, <2>2, <2>3, <2>4, <2>6
  <2>8. Intact(f, id)
    BY <1>1, <1>4, <2>2 DEF Intact
  <2>9. isLast(L, log') <=> isLast(L, log)
    BY <1>2, <2>3
  <2>10. QED
    BY <1>1, <1>3, <1>4, <2>7, <2>8, <2>9
<1>5. ASSUME log' = log, lost \subseteq lost'
      PROVE  Intact(f, id) /\ ChangesOf(f, id)' = ChangesOf(f, id) /\ Listings(f, id)' = L
  BY <1>1, <1>5, ChangesKept, ListingsKept DEF Intact
<1>6. CASE RestartRedis
  <2>1. log' = log /\ objList'[f] = {} /\ position' \in Nat
        /\ lost \subseteq lost' /\ 0 .. position' - 1 \subseteq lost'
    BY <1>6, RestartEffect DEF RestartRedis
  <2>2. L = {}
    <3>1. SUFFICES ASSUME NEW k \in L PROVE FALSE
      OBVIOUS
    <3>2. k \in 0 .. position' - 1
      BY <1>1, <1>2, <1>5, <2>1
    <3>3. QED
      BY <1>1, <1>2, <1>5, <2>1, <3>2 DEF Intact
  <2>3. QED
    BY <1>5, <2>1, <2>2
<1>7. CASE UpdateLatestObjList
  <2>1. /\ log' = log /\ lost' = lost /\ position' = position + 1
        /\ objList' = [objList EXCEPT ![Current.file] = ListAfter(@, Current)]
        /\ step = "set_list" /\ phase = "handling"
    BY <1>7 DEF UpdateLatestObjList, Handled
  <2>2. position \in Offsets /\ Current = log[position + 1]
    BY <2>1 DEF TypeOK, ConsumerTypeOK, Offsets, Current, MessageAt
  <2>3. Current \in Message /\ Current.change \in Change
    BY <1>2, <2>1, <2>2 DEF TypeOK, Offsets
  <2>4. position \in L <=>
            Current.file = f /\ Current.id = id /\ Current.change # "Modify"
    BY <2>2, <2>3 DEF Listings, ChangesOf, MessageAt
  <2>5. objList'[f] = IF Current.file = f THEN ListAfter(objList[f], Current)
                      ELSE objList[f]
    BY <2>1, <2>3 DEF TypeOK, Message
  <2>6. CASE position \in L
    <3>1. \A k \in L : k <= position
      BY <1>1, <1>2, <1>5, <2>1
    <3>2. isLast(L, log) <=> Current.change = "Add"
      <4>1. ASSUME NEW k \in L, \A j \in L : j <= k PROVE k = position
        BY <1>2, <2>6, <3>1, <4>1
      <4>2. QED
        BY <2>2, <2>6, <3>1, <4>1
    <3>3. Current.change \in {"Add", "Delete"} /\ Current.id = id /\ Current.file = f
      BY <2>3, <2>4, <2>6 DEF Change
    <3>4. id \in objList'[f] <=> Current.change = "Add"
      BY <2>5, <3>3 DEF ListAfter
    <3>5. QED
      BY <1>5, <2>1, <3>2, <3>4
  <2>7. CASE position \notin L
    <3>1. \A k \in L : k < position
      BY <1>1, <1>2, <1>5, <2>1, <2>7
    <3>2. id \in objList'[f] <=> id \in objList[f]
      <4>1. CASE Current.file # f
        BY <2>5, <4>1
      <4>2. CASE Current.file = f /\ Current.id # id
        BY <2>3, <2>5, <4>2 DEF ListAfter, Change
      <4>3. CASE Current.file = f /\ Current.change = "Modify"
        BY <2>5, <4>3 DEF ListAfter
      <4>4. QED
        BY <2>4, <2>7, <4>1, <4>2, <4>3
    <3>3. QED
      BY <1>3, <1>5, <2>1, <3>1, <3>2
  <2>8. QED
    BY <2>6, <2>7
<1>8. CASE Passes /\ objList' = objList
  <2>1. log' = log /\ lost \subseteq lost'
    BY <1>8 DEF Passes
  <2>2. \A k \in L : k < position
    <3>1. SUFFICES ASSUME NEW k \in L PROVE k < position
      OBVIOUS
    <3>2. k \in Offsets /\ k < position' /\ k \notin lost' /\ MessageAt(k).change # "Invalid"
      BY <1>1, <1>2, <1>5, <2>1 DEF Intact, Listings, ChangesOf, Change
    <3>3. QED
      BY <1>8, <3>2 DEF Passes
  <2>3. QED
    BY <1>3, <1>5, <1>8, <2>1, <2>2
<1>9. QED
  BY <1>4, <1>6, <1>7, <1>8, PassCases

\* What remains of the last change of a file.
LEMMA OffsetSettledStep ==
    ASSUME TypeOK, OffsetBeforeList, [Next]_vars, NEW f \in File, OffsetSettled(f)
    PROVE  OffsetSettled(f)'
<1> DEFINE C == ChangesIn(f)
           last(S, offset) == IF S = {} THEN offset = NoOffset
                              ELSE offset \in S /\ \A k \in S : k <= offset
<1>1. SUFFICES ASSUME ChangesIn(f)' \cap lost' = {}, \A k \in ChangesIn(f)' : k < position'
               PROVE  last(ChangesIn(f)', fileOffset'[f])
  BY DEF OffsetSettled
<1>2. /\ C \subseteq Offsets /\ Offsets \subseteq Nat /\ position \in Nat
      /\ log \in Seq(Message)
  BY DEF TypeOK, ConsumerTypeOK, ChangesIn, Offsets
<1>3. ASSUME C \cap lost = {}, \A k \in C : k < position
      PROVE  last(C, fileOffset[f])
  BY <1>3 DEF OffsetSettled
<1>4. CASE /\ \E message \in Message : Submit(message)
           /\ UNCHANGED <<position, lost, fileOffset, objList>>
  <2>1. PICK message \in Message : Submit(message)
    BY <1>4
  <2>2. /\ Len(log) \in Nat /\ Len(log') = Len(log) + 1
        /\ \A k \in Offsets : k \in Offsets' /\ log'[k + 1] = log[k + 1]
    <3>1. log' = Append(log, message)
      BY <2>1 DEF Submit, Produce
    <3>2. QED
      BY <1>2, <3>1 DEF Offsets
  <2>3. \A k \in Offsets' : k \in Offsets \/ k = Len(log)
    BY <2>2 DEF Offsets
  <2>4. /\ ChangesIn(f)' = {k \in Offsets' : log'[k + 1].file = f /\ log'[k + 1].change \in Change}
        /\ C = {k \in Offsets : log[k + 1].file = f /\ log[k + 1].change \in Change}
    BY DEF ChangesIn, MessageAt
  <2>5. position <= Len(log)
    BY DEF TypeOK, ConsumerTypeOK
  <2>6. \A k \in ChangesIn(f)' : k # Len(log)
    BY <1>1, <1>2, <1>4, <2>2, <2>5
  <2>7. ChangesIn(f)' = C
    BY <2>2, <2>3, <2>4, <2>6
  <2>8. QED
    BY <1>1, <1>3, <1>4, <2>7
<1>5. ASSUME log' = log PROVE ChangesIn(f)' = C
  BY <1>5 DEF ChangesIn, Offsets, MessageAt
<1>6. CASE RestartRedis
  <2>1. log' = log /\ fileOffset'[f] = NoOffset /\ position' \in Nat
        /\ 0 .. position' - 1 \subseteq lost'
    <3>1. position' \in Nat
      BY TypeStep DEF TypeOK, ConsumerTypeOK
    <3>2. QED
      BY <1>6, <3>1 DEF RestartRedis, RedisRestart
  <2>2. C = {}
    <3>1. SUFFICES ASSUME NEW k \in C PROVE FALSE
      OBVIOUS
    <3>2. k \in Nat /\ k < position'
      <4>1. k \in ChangesIn(f)'
        BY <1>5, <2>1
      <4>2. QED
        BY <1>1, <1>2, <4>1
    <3>3. k \in 0 .. position' - 1
      <4>1. \A a, b \in Nat : a < b => a \in 0 .. b - 1
        OBVIOUS
      <4>2. QED
        BY <2>1, <3>2, <4>1
    <3>4. QED
      BY <1>1, <1>5, <2>1, <3>3
  <2>3. QED
    BY <1>5, <2>1, <2>2
<1>7. CASE UpdateLatestObjList
  <2>1. /\ log' = log /\ lost' = lost /\ position' = position + 1
        /\ fileOffset' = fileOffset /\ step = "set_list" /\ phase = "handling"
    BY <1>7 DEF UpdateLatestObjList, Handled
  <2>2. position \in Offsets /\ Current = MessageAt(position) /\ Current.change \in Change
    BY <2>1 DEF TypeOK, ConsumerTypeOK, Offsets, Current
  <2>0. \A k \in C : k \in Nat /\ k < position + 1
    <3>1. ChangesIn(f)' = C
      BY <1>5, <2>1
    <3>2. \A k \in C : k < position'
      BY <1>1, <3>1
    <3>3. QED
      BY <1>2, <2>1, <3>2
  <2>3. CASE Current.file = f
    <3>1. position \in C /\ fileOffset'[f] = position
      BY <2>1, <2>2, <2>3 DEF ChangesIn, OffsetBeforeList
    <3>2. \A k \in C : k <= position
      BY <1>2, <2>0
    <3>3. QED
      BY <1>5, <2>1, <3>1, <3>2
  <2>4. CASE Current.file # f
    <3>1. position \notin C
      BY <2>2, <2>4 DEF ChangesIn
    <3>2. \A k \in C : k < position
      BY <1>2, <2>0, <3>1
    <3>3. QED
      BY <1>1, <1>3, <1>5, <2>1, <3>2
  <2>5. QED
    BY <2>3, <2>4
<1>8. CASE StoreFileOffset
  <2>1. /\ log' = log /\ lost' = lost /\ position' = position /\ phase = "handling"
        /\ fileOffset' = [fileOffset EXCEPT ![Current.file] = position]
        /\ Current.change \in Change
    BY <1>8 DEF StoreFileOffset, consumerVars, TypeOK
  <2>2. position \in Offsets /\ Current = MessageAt(position)
    BY <2>1 DEF TypeOK, ConsumerTypeOK, Offsets, Current
  <2>3. Current.file # f
    <3>1. SUFFICES ASSUME Current.file = f PROVE FALSE
      OBVIOUS
    <3>2. position \in C
      BY <2>1, <2>2, <3>1 DEF ChangesIn
    <3>3. QED
      BY <1>1, <1>2, <1>5, <2>1, <3>2
  <2>4. fileOffset'[f] = fileOffset[f]
    BY <2>1, <2>3 DEF TypeOK
  <2>5. QED
    BY <1>1, <1>3, <1>5, <2>1, <2>4
<1>9. CASE Passes /\ fileOffset' = fileOffset
  <2>1. log' = log /\ lost \subseteq lost'
    BY <1>9 DEF Passes
  <2>2. \A k \in C : k < position
    <3>1. SUFFICES ASSUME NEW k \in C PROVE k < position
      OBVIOUS
    <3>2. k \in Offsets /\ k < position' /\ k \notin lost' /\ MessageAt(k).change # "Invalid"
      BY <1>1, <1>5, <2>1 DEF ChangesIn, Change
    <3>3. QED
      BY <1>9, <3>2 DEF Passes
  <2>3. C \cap lost = {}
    BY <1>1, <1>5, <2>1
  <2>4. QED
    BY <1>3, <1>5, <1>9, <2>1, <2>2, <2>3
<1>10. QED
  BY <1>4, <1>6, <1>7, <1>8, <1>9, PassCases

\* When nothing of an object, or of a file, is left to handle, the object list
\* and the offset of the file say what the log says, in whatever order crashes
\* and replays had the messages handled (update_latest_obj_list, update_object_cache).
THEOREM FilesSettle == Spec => []FileStateSettled
<1>1. Init => FileStateSettled
  <2>1. ASSUME Init, NEW f \in File PROVE OffsetSettled(f) /\ \A id \in Obj : ListSettled(f, id)
    <3>1. /\ log = << >> /\ objList[f] = {} /\ fileOffset[f] = NoOffset
      BY <2>1 DEF Init, ConsumerInit
    <3>2. Offsets = {}
      BY <3>1 DEF Offsets
    <3>3. ChangesIn(f) = {} /\ \A id \in Obj : Listings(f, id) = {}
      BY <3>2 DEF ChangesIn, Listings, ChangesOf
    <3>4. QED
      BY <3>1, <3>3 DEF OffsetSettled, ListSettled
  <2>2. QED
    BY <2>1 DEF FileStateSettled
<1>2. IInv /\ FileStateSettled /\ [Next]_vars => FileStateSettled'
  BY ListSettledStep, OffsetSettledStep DEF IInv, FileStateSettled
<1>3. QED
  BY <1>1, <1>2, Inductive, PTL DEF Spec

-----------------------------------------------------------------------------
(* The cache implements the store: what its state maps to *)

\* The versions of the store are the changes in the log.
LEMMA VersionsAreChanges ==
    \A v : v \in StoreVersions <=>
        \E f \in File, id \in Obj : \E k \in ChangesOf(f, id) :
            v = [key |-> <<f, id>>, offset |-> k]
  BY DEF StoreVersions

\* The versions of a key are the changes of its object.
LEMMA VersionsOfKey ==
    ASSUME NEW f \in File, NEW id \in Obj
    PROVE  Store!VersionsOf(<<f, id>>) = ChangesOf(f, id)
<1>1. ASSUME NEW k \in Store!VersionsOf(<<f, id>>) PROVE k \in ChangesOf(f, id)
  <2>1. PICK v \in StoreVersions : v.key = <<f, id>> /\ v.offset = k
    BY <1>1 DEF Store!VersionsOf
  <2>2. PICK g \in File, x \in Obj : \E n \in ChangesOf(g, x) :
            v = [key |-> <<g, x>>, offset |-> n]
    BY <2>1, VersionsAreChanges
  <2>3. <<g, x>> = <<f, id>> /\ k \in ChangesOf(g, x)
    BY <2>1, <2>2
  <2>4. QED
    BY <2>3
<1>2. ASSUME NEW k \in ChangesOf(f, id) PROVE k \in Store!VersionsOf(<<f, id>>)
  <2>1. PICK v : v = [key |-> <<f, id>>, offset |-> k]
    OBVIOUS
  <2>2. v \in StoreVersions /\ v.key = <<f, id>> /\ v.offset = k
    BY <2>1, VersionsAreChanges
  <2>3. QED
    BY <2>2 DEF Store!VersionsOf
<1>3. QED
  BY <1>1, <1>2

\* The versions stay while the log does.
LEMMA VersionsKept == log' = log => StoreVersions' = StoreVersions
<1> SUFFICES ASSUME log' = log PROVE StoreVersions' = StoreVersions
  OBVIOUS
<1>1. \A f \in File, id \in Obj : ChangesOf(f, id)' = ChangesOf(f, id)
  BY ChangesKept
<1>2. QED
  BY <1>1 DEF StoreVersions

\* A submitted change is a version of its object; nothing else is submitted.
LEMMA VersionSubmitted ==
    ASSUME TypeOK, NEW message \in Message, Submit(message)
    PROVE  StoreVersions' =
               IF message.change \in Change
               THEN StoreVersions
                        \cup {[key |-> <<message.file, message.id>>, offset |-> Len(log)]}
               ELSE StoreVersions
<1> DEFINE new == [key |-> <<message.file, message.id>>, offset |-> Len(log)]
<1>1. /\ log \in Seq(Message) /\ Len(log) \in Nat
      /\ message.file \in File /\ message.id \in Obj
  BY DEF TypeOK, Message
<1>2. Len(log') = Len(log) + 1 /\ log'[Len(log) + 1] = message
      /\ \A i \in 1 .. Len(log) : log'[i] = log[i]
  BY <1>1 DEF Submit, Produce
<1>3. ASSUME NEW f \in File, NEW id \in Obj
      PROVE  /\ \A k : k \in ChangesOf(f, id)' <=>
                    \/ k \in ChangesOf(f, id)
                    \/ /\ k = Len(log) /\ message.change \in Change
                       /\ f = message.file /\ id = message.id
  <2>1. \A k : k \in Offsets' <=> k \in Offsets \/ k = Len(log)
    BY <1>1, <1>2 DEF Offsets
  <2>2. \A k \in Offsets : log'[k + 1] = log[k + 1]
    BY <1>1, <1>2 DEF Offsets
  <2>3. Len(log) \notin Offsets
    BY <1>1 DEF Offsets
  <2>4. /\ ChangesOf(f, id) = {k \in Offsets : /\ log[k + 1].file = f /\ log[k + 1].id = id
                                               /\ log[k + 1].change \in Change}
        /\ ChangesOf(f, id)' = {k \in Offsets' : /\ log'[k + 1].file = f /\ log'[k + 1].id = id
                                                 /\ log'[k + 1].change \in Change}
    BY DEF ChangesOf, MessageAt
  <2>5. QED
    BY <1>1, <1>2, <2>1, <2>2, <2>3, <2>4
<1>4. \A v : v \in StoreVersions' <=>
          \E f \in File, id \in Obj : \E k \in ChangesOf(f, id)' :
              v = [key |-> <<f, id>>, offset |-> k]
  BY DEF StoreVersions
<1>5. ASSUME NEW v
      PROVE  v \in StoreVersions' <=> v \in StoreVersions \/ (message.change \in Change /\ v = new)
  <2>1. ASSUME v \in StoreVersions'
        PROVE  v \in StoreVersions \/ (message.change \in Change /\ v = new)
    <3>1. PICK f \in File, id \in Obj : \E k \in ChangesOf(f, id)' :
              v = [key |-> <<f, id>>, offset |-> k]
      BY <1>4, <2>1
    <3>2. PICK k \in ChangesOf(f, id)' : v = [key |-> <<f, id>>, offset |-> k]
      BY <3>1
    <3>3. CASE k \in ChangesOf(f, id)
      BY <3>2, <3>3, VersionsAreChanges
    <3>4. CASE k \notin ChangesOf(f, id)
      BY <1>3, <3>2, <3>4
    <3>5. QED
      BY <3>3, <3>4
  <2>2. ASSUME v \in StoreVersions PROVE v \in StoreVersions'
    BY <1>3, <1>4, <2>2, VersionsAreChanges
  <2>3. ASSUME message.change \in Change, v = new PROVE v \in StoreVersions'
    BY <1>1, <1>3, <1>4, <2>3
  <2>4. QED
    BY <2>1, <2>2, <2>3
<1>6. QED
  BY <1>5

\* The queries of the store.
Queries == [r \in Reader |-> StoreQuery(reader[r])]

\* The queries stay while the calls do.
LEMMA QueriesKept == reader' = reader => Queries' = Queries
  BY DEF Queries, StoreQuery

\* A step of one call is a step of one query.
LEMMA QueryStep ==
    ASSUME NEW r \in Reader, NEW call, reader \in [Reader -> Call \cup {Idle}],
           reader' = [reader EXCEPT ![r] = call]
    PROVE  Queries' = [Queries EXCEPT ![r] = StoreQuery(call)]
<1>1. \A q \in Reader : reader'[q] = IF q = r THEN call ELSE reader[q]
  OBVIOUS
<1>2. Queries' = [q \in Reader |-> StoreQuery(reader'[q])]
  BY DEF Queries, StoreQuery
<1>3. \A q \in Reader : StoreQuery(reader'[q]) = IF q = r THEN StoreQuery(call) ELSE StoreQuery(reader[q])
  BY <1>1
<1>4. [Queries EXCEPT ![r] = StoreQuery(call)]
          = [q \in Reader |-> IF q = r THEN StoreQuery(call) ELSE StoreQuery(reader[q])]
  BY DEF Queries
<1>5. QED
  BY <1>2, <1>3, <1>4

-----------------------------------------------------------------------------
(* Every step of the cache is a step of the store or none *)

\* Steps the store does not see.
LEMMA Stutters ==
    ASSUME log' = log, position' = position, lost' = lost, Queries' = Queries
    PROVE  UNCHANGED Store!storeVars
  BY VersionsKept DEF Store!storeVars, Queries

\* Steps that pass over messages.
LEMMA Advances ==
    ASSUME log' = log, reader' = reader, position' > position,
           lost' = lost \/ lost' = lost \cup position .. position' - 1
    PROVE  Store!Advance
<1>1. Queries' = Queries
  BY QueriesKept
<1>2. QED
  BY <1>1, VersionsKept DEF Store!Advance, Queries

\* A submitted change is a new version; another message is none.
LEMMA SubmitMaps ==
    ASSUME TypeOK, NEW message \in Message, Submit(message)
    PROVE  Store!Submit \/ UNCHANGED Store!storeVars
<1>1. /\ position' = position /\ lost' = lost /\ Queries' = Queries
      /\ Len(log) < MaxLog
  BY QueriesKept DEF Submit, Produce
<1>2. /\ Len(log) \in Nat /\ position <= Len(log) /\ position \in Nat
      /\ message.file \in File /\ message.id \in Obj
  BY DEF TypeOK, ConsumerTypeOK, Message
<1>3. CASE message.change \notin Change
  <2>1. StoreVersions' = StoreVersions
    BY <1>3, VersionSubmitted
  <2>2. QED
    BY <1>1, <2>1 DEF Store!storeVars, Queries
<1>4. CASE message.change \in Change
  <2>1. PICK key \in File \X Obj : key = <<message.file, message.id>>
    BY <1>2
  <2>2. PICK o \in -1 .. MaxLog : o = Len(log)
    BY <1>1, <1>2, ConsumerAssumption
  <2>3. StoreVersions' = StoreVersions \cup {[key |-> key, offset |-> o]}
    BY <1>4, <2>1, <2>2, VersionSubmitted
  <2>4. \A v \in StoreVersions : v.offset < o
    <3>1. SUFFICES ASSUME NEW v \in StoreVersions PROVE v.offset < o
      OBVIOUS
    <3>2. PICK f \in File, id \in Obj : \E k \in ChangesOf(f, id) :
              v = [key |-> <<f, id>>, offset |-> k]
      BY VersionsAreChanges
    <3>3. v.offset \in Offsets
      BY <3>2, ChangesAreOffsets
    <3>4. QED
      BY <1>2, <2>2, <3>3 DEF Offsets
  <2>5. o >= position
    BY <1>2, <2>2
  <2>6. UNCHANGED <<position, lost, Queries>>
    BY <1>1
  <2>7. QED
    BY <2>3, <2>4, <2>5, <2>6 DEF Store!Submit, Queries
<1>5. QED
  BY <1>3, <1>4

\* A pending query of which less is known to have been passed.
LEMMA PendingPassed ==
    ASSUME NEW key, NEW o, NEW p \in BOOLEAN, NEW q \in BOOLEAN, NEW query,
           query = [state |-> "pending", key |-> key, offset |-> o, passed |-> p]
    PROVE  [query EXCEPT !.passed = @ /\ q]
               = [state |-> "pending", key |-> key, offset |-> o, passed |-> p /\ q]
<1>1. query.passed = p
  OBVIOUS
<1>2. [query EXCEPT !.passed = query.passed /\ q] = [query EXCEPT !.passed = p /\ q]
  BY <1>1, Zenon
<1>3. ASSUME NEW r \in BOOLEAN
      PROVE  [query EXCEPT !.passed = r]
                 = [state |-> "pending", key |-> key, offset |-> o, passed |-> r]
  OBVIOUS
<1>4. (p /\ q) \in BOOLEAN
  OBVIOUS
<1>5. QED
  BY <1>2, <1>3, <1>4, Zenon

\* A rejoin is a step back, under the pending queries, or on.
LEMMA JoinMaps ==
    ASSUME TypeOK, ReaderInv, [Next]_vars, JoinGroup
    PROVE  Store!Rewind \/ Store!Advance \/ UNCHANGED Store!storeVars
<1>1. /\ log' = log /\ lost' = lost \cup position .. position' - 1
      /\ reader' = [r \in Reader |->
             IF reader[r].pc # "idle" /\ position' < reader[r].asked
             THEN [reader[r] EXCEPT !.asked = position'] ELSE reader[r]]
      /\ reader = [r \in Reader |-> reader[r]]
  BY DEF JoinGroup, Join, TypeOK
<1>2. position \in Nat /\ position' \in Nat
  BY TypeStep DEF TypeOK, ConsumerTypeOK
<1>3. \A r \in Reader : reader[r].pc # "idle" =>
          reader[r] \in Call /\ reader[r].asked \in Nat /\ reader[r].asked <= position
  BY CallOfReader DEF ReaderInv, CallInv, Call
<1>4. ASSUME position' >= position PROVE reader' = reader
  <2>1. ASSUME NEW r \in Reader, reader[r].pc # "idle" PROVE ~ (position' < reader[r].asked)
    BY <1>2, <1>3, <1>4, <2>1
  <2>2. QED
    BY <1>1, <2>1
<1>5. CASE position' > position
  <2>1. reader' = reader
    BY <1>2, <1>4, <1>5
  <2>2. QED
    BY <1>1, <1>5, <2>1, Advances
<1>6. CASE position' = position
  <2>1. reader' = reader /\ lost' = lost
    BY <1>1, <1>2, <1>4, <1>6
  <2>2. QED
    BY <1>1, <1>6, <2>1, QueriesKept, Stutters
<1>7. CASE position' < position
  <2>1. lost' = lost
    BY <1>1, <1>2, <1>7
  <2>2. ASSUME NEW r \in Reader
        PROVE  StoreQuery(reader'[r]) =
                   IF StoreQuery(reader[r]).state = "pending"
                   THEN [StoreQuery(reader[r]) EXCEPT
                            !.passed = @ /\ StoreQuery(reader[r]).offset < position']
                   ELSE StoreQuery(reader[r])
    <3> DEFINE call == reader[r]
    <3>1. PICK after : after = reader'[r]
      OBVIOUS
    <3>2. CASE call.pc = "idle"
      <4>1. after = call
        BY <1>1, <3>1, <3>2
      <4>2. StoreQuery(call) = [state |-> "none"]
        BY <3>2 DEF StoreQuery, InProgress
      <4>3. QED
        BY <3>1, <4>1, <4>2
    <3>3. CASE call.pc # "idle"
      <4>1. call \in Call /\ call.asked \in Nat /\ call.offset \in Int
        BY <1>3, <3>3, ConsumerAssumption DEF Call
      <4>2. PICK a : a = IF position' < call.asked THEN position' ELSE call.asked
        OBVIOUS
      <4>3. /\ after.pc = call.pc /\ after.file = call.file /\ after.id = call.id
            /\ after.offset = call.offset /\ after.version = call.version
            /\ after.asked = a
        BY <1>1, <3>1, <3>3, <4>1, <4>2 DEF Call
      <4>4. (call.offset < a) = (call.offset < call.asked /\ call.offset < position')
        BY <1>2, <4>1, <4>2
      <4>5. CASE call.pc \in InProgress
        <5>1. PICK p \in BOOLEAN : p = (call.offset < call.asked)
          <6>1. (call.offset < call.asked) \in BOOLEAN
            OBVIOUS
          <6>2. QED
            BY <6>1, Zenon
        <5>2. PICK q \in BOOLEAN : q = (call.offset < position')
          <6>1. (call.offset < position') \in BOOLEAN
            OBVIOUS
          <6>2. QED
            BY <6>1, Zenon
        <5>3. PICK query : query = StoreQuery(call)
          OBVIOUS
        <5>4. PICK key : key = <<call.file, call.id>>
          OBVIOUS
        <5>5. query = [state |-> "pending", key |-> key, offset |-> call.offset, passed |-> p]
          BY <4>5, <5>1, <5>3, <5>4 DEF StoreQuery, InProgress
        <5>6. StoreQuery(after) = [state |-> "pending", key |-> key,
                                   offset |-> call.offset, passed |-> p /\ q]
          BY <4>3, <4>4, <4>5, <5>1, <5>2, <5>4 DEF StoreQuery, InProgress
        <5>7. [query EXCEPT !.passed = @ /\ q]
                  = [state |-> "pending", key |-> key, offset |-> call.offset, passed |-> p /\ q]
          BY <5>5, PendingPassed
        <5>8. query.state = "pending" /\ query.offset = call.offset
          BY <5>5
        <5>9. StoreQuery(after) = [query EXCEPT !.passed = @ /\ query.offset < position']
          BY <5>2, <5>6, <5>7, <5>8
        <5>10. QED
          BY <3>1, <5>3, <5>8, <5>9
      <4>6. CASE call.pc \in Ended
        <5>1. StoreQuery(after) = StoreQuery(call) /\ StoreQuery(call).state # "pending"
          BY <4>3, <4>6 DEF StoreQuery, InProgress, Ended
        <5>2. QED
          BY <3>1, <5>1
      <4>7. QED
        BY <4>1, <4>5, <4>6 DEF Call
    <3>4. QED
      BY <3>2, <3>3
  <2>3. Queries' = [c \in Reader |->
            IF Queries[c].state = "pending"
            THEN [Queries[c] EXCEPT !.passed = @ /\ Queries[c].offset < position']
            ELSE Queries[c]]
    <3>1. Queries' = [r \in Reader |-> StoreQuery(reader'[r])]
      BY DEF Queries, StoreQuery
    <3>2. \A r \in Reader : Queries[r] = StoreQuery(reader[r])
      BY DEF Queries
    <3>3. QED
      BY <2>2, <3>1, <3>2
  <2>4. StoreVersions' = StoreVersions
    BY <1>1, VersionsKept
  <2>5. QED
    BY <1>7, <2>1, <2>3, <2>4 DEF Store!Rewind, Queries
<1>8. QED
  BY <1>2, <1>5, <1>6, <1>7

\* A stop takes the queries with it.
LEMMA CrashMaps ==
    ASSUME CrashService
    PROVE  Store!Stop
<1>1. /\ log' = log /\ position' = position /\ lost' = lost
      /\ reader' = [r \in Reader |-> Idle]
  BY DEF CrashService, Crash
<1>2. StoreQuery(Idle) = [state |-> "none"]
  BY DEF StoreQuery, Idle, InProgress
<1>3. Queries' = [r \in Reader |-> StoreQuery(reader'[r])]
  BY DEF Queries, StoreQuery
<1>4. Queries' = [r \in Reader |-> [state |-> "none"]]
  BY <1>1, <1>2, <1>3
<1>5. QED
  BY <1>1, <1>4, VersionsKept DEF Store!Stop, Queries

\* A restart of Redis fails the pending queries and loses what was visible.
LEMMA RestartMaps ==
    ASSUME TypeOK, RestartRedis
    PROVE  Store!Forget
<1>1. /\ log' = log /\ position' \in {position, position + 1}
      /\ lost' = lost \cup 0 .. position' - 1
      /\ reader' = [r \in Reader |->
             IF reader[r].pc \in InProgress THEN [reader[r] EXCEPT !.pc = "error"]
             ELSE reader[r]]
  BY DEF RestartRedis, RedisRestart
<1>2. ASSUME NEW r \in Reader
      PROVE  StoreQuery(reader'[r]) =
                 IF StoreQuery(reader[r]).state = "pending" THEN [state |-> "failed"]
                 ELSE StoreQuery(reader[r])
  <2>1. PICK call : call = reader[r]
    OBVIOUS
  <2>2. PICK after : after = reader'[r]
    OBVIOUS
  <2>3. CASE call.pc \in InProgress
    <3>1. call \in Call
      BY <2>1, <2>3, CallOfReader DEF InProgress
    <3>2. after.pc = "error"
      BY <1>1, <2>1, <2>2, <2>3, <3>1 DEF Call
    <3>3. StoreQuery(call).state = "pending" /\ StoreQuery(after) = [state |-> "failed"]
      BY <2>3, <3>2 DEF StoreQuery, InProgress
    <3>4. QED
      BY <2>1, <2>2, <3>3
  <2>4. CASE call.pc \notin InProgress
    <3>1. after = call
      BY <1>1, <2>1, <2>2, <2>4
    <3>2. call.pc \in {"idle"} \cup Ended
      BY <2>1, <2>4, CallOfReader DEF Call
    <3>3. StoreQuery(call).state # "pending"
      BY <2>4, <3>2 DEF StoreQuery, Ended, InProgress
    <3>4. QED
      BY <2>1, <2>2, <3>1, <3>3
  <2>5. QED
    BY <2>3, <2>4
<1>3. Queries' = [c \in Reader |->
          IF Queries[c].state = "pending" THEN [state |-> "failed"] ELSE Queries[c]]
  <2>1. Queries' = [r \in Reader |-> StoreQuery(reader'[r])]
    BY DEF Queries, StoreQuery
  <2>2. \A r \in Reader : Queries[r] = StoreQuery(reader[r])
    BY DEF Queries
  <2>3. QED
    BY <1>2, <2>1, <2>2
<1>4. QED
  BY <1>1, <1>3, VersionsKept DEF Store!Forget, Queries

\* A call that starts is a query.
LEMMA StartMaps ==
    ASSUME TypeOK, NEW r \in Reader, NEW f \in File, NEW id \in Obj,
           NEW o \in -1 .. MaxLog, StartRead(r, f, id, o)
    PROVE  Store!Ask(r)
<1> DEFINE new == [pc |-> "len", file |-> f, id |-> id, offset |-> o, asked |-> position,
                   len |-> 0, next |-> 0, version |-> NoOffset]
<1>1. /\ log' = log /\ position' = position /\ lost' = lost
      /\ reader[r].pc \in Ended \cup {"idle"}
      /\ reader' = [reader EXCEPT ![r] = new]
  BY DEF StartRead, consumerVars
<1>2. Queries' = [Queries EXCEPT ![r] = StoreQuery(new)]
  BY <1>1, QueryStep DEF TypeOK
<1>3. PICK key \in File \X Obj : key = <<f, id>>
  OBVIOUS
<1>4. StoreQuery(new) = [state |-> "pending", key |-> key, offset |-> o,
                         passed |-> o < position]
  BY <1>3 DEF StoreQuery, InProgress
<1>5. Queries[r].state # "pending"
  <2>1. Queries[r] = StoreQuery(reader[r])
    BY DEF Queries
  <2>2. QED
    BY <1>1, <2>1 DEF StoreQuery, InProgress, Ended
<1>6. Queries' = [Queries EXCEPT ![r] =
          [state |-> "pending", key |-> key, offset |-> o, passed |-> o < position]]
  BY <1>2, <1>4
<1>7. StoreVersions' = StoreVersions
  BY <1>1, VersionsKept
<1>8. QED
  BY <1>1, <1>5, <1>6, <1>7 DEF Store!Ask, Queries

\* The query of a call in progress.
LEMMA PendingQuery ==
    ASSUME NEW call, call.pc \in InProgress
    PROVE  StoreQuery(call) = [state |-> "pending", key |-> <<call.file, call.id>>,
                               offset |-> call.offset, passed |-> call.offset < call.asked]
  BY DEF StoreQuery, InProgress

\* A call that finds nothing misses; one that goes on is not seen.
LEMMA ScanMaps ==
    ASSUME TypeOK, NEW r \in Reader, reader[r].pc \in InProgress, NEW after,
           log' = log, position' = position, lost' = lost,
           reader' = [reader EXCEPT ![r] = after],
           \/ after.pc = "not_found"
           \/ /\ after.pc \in InProgress /\ after.file = reader[r].file
              /\ after.id = reader[r].id /\ after.offset = reader[r].offset
              /\ after.asked = reader[r].asked
    PROVE  Store!Miss(r) \/ UNCHANGED Store!storeVars
<1>1. Queries' = [Queries EXCEPT ![r] = StoreQuery(after)]
  BY QueryStep DEF TypeOK
<1>2. Queries[r] = StoreQuery(reader[r])
  BY DEF Queries
<1>3. Queries[r].state = "pending"
  BY <1>2, PendingQuery
<1>4. StoreVersions' = StoreVersions
  BY VersionsKept
<1>5. CASE after.pc = "not_found"
  <2>1. StoreQuery(after) = [state |-> "missed"]
    BY <1>5 DEF StoreQuery, InProgress
  <2>2. QED
    BY <1>1, <1>3, <1>4, <2>1 DEF Store!Miss, Queries
<1>6. CASE /\ after.pc \in InProgress /\ after.file = reader[r].file
           /\ after.id = reader[r].id /\ after.offset = reader[r].offset
           /\ after.asked = reader[r].asked
  <2>1. StoreQuery(after) = Queries[r]
    BY <1>2, <1>6 DEF StoreQuery, InProgress
  <2>2. Queries' = Queries
    BY <1>1, <2>1 DEF Queries
  <2>3. QED
    BY <2>2, Stutters
<1>7. QED
  BY <1>5, <1>6

\* LLEN misses an object without a list.
LEMMA LengthMaps ==
    ASSUME TypeOK, NEW r \in Reader, ReadLength(r)
    PROVE  Store!Miss(r) \/ UNCHANGED Store!storeVars
<1> DEFINE len == Len(ListOf(reader[r]))
           pc == IF len = 0 THEN "not_found" ELSE "scan"
           after == [reader[r] EXCEPT !.len = len, !.next = 0, !.pc = pc]
<1>1. /\ log' = log /\ position' = position /\ lost' = lost
      /\ reader[r].pc \in InProgress /\ reader[r].pc # "idle"
      /\ reader' = [reader EXCEPT ![r] = after]
  BY DEF ReadLength, consumerVars, InProgress
<1>2. reader[r] \in Call
  BY <1>1, CallOfReader
<1> HIDE DEF len, pc
<1>3. after.pc = pc /\ after.file = reader[r].file /\ after.id = reader[r].id
      /\ after.offset = reader[r].offset /\ after.asked = reader[r].asked
  BY <1>2 DEF Call
<1>4. pc = "not_found" \/ pc \in InProgress
  BY DEF pc, InProgress
<1>5. QED
  <2> HIDE DEF after
  <2> QED
    BY <1>1, <1>3, <1>4, ScanMaps

\* A hit is an answer the store allows: a version of the object, and by the
\* invariant the newest one where it matters.
LEMMA HitMaps ==
    ASSUME IInv, ReaderInv', NEW r \in Reader, reader[r].pc = "scan",
           NEW v \in Int, v = ListOf(reader[r])[reader[r].next + 1].offset,
           v <= reader[r].offset,
           log' = log, position' = position, lost' = lost,
           reader' = [reader EXCEPT ![r] = [reader[r] EXCEPT !.pc = "found", !.version = v]]
    PROVE  v \in -1 .. MaxLog /\ Store!Answer(r, v)
<1>1. PICK call \in Call : call = reader[r]
  BY CallOfReader DEF IInv
<1>2. PICK f \in File, id \in Obj : f = call.file /\ id = call.id
  BY <1>1 DEF Call
<1>3. PICK after : after = [call EXCEPT !.pc = "found", !.version = v]
  OBVIOUS
<1>4. /\ after.pc = "found" /\ after.version = v /\ after.file = f /\ after.id = id
      /\ after.offset = call.offset /\ after.asked = call.asked
  BY <1>2, <1>3 DEF Call
<1>5. reader' = [reader EXCEPT ![r] = after] /\ reader'[r] = after
      /\ reader \in [Reader -> Call \cup {Idle}]
  BY <1>1, <1>3 DEF IInv, TypeOK
<1>6. PICK i : i = call.next + 1
  OBVIOUS
<1>7. v \in ChangesOf(f, id)
  <2>1. cache[f][id] \in Seq(Entry) /\ v = cache[f][id][i].offset
    BY <1>1, <1>2, <1>6 DEF IInv, TypeOK, ListOf
  <2>2. call.next < call.len /\ call.len <= Len(cache[f][id])
    BY <1>1, <1>2 DEF IInv, TypeOK, InBounds, ListOf
  <2>3. i \in DOMAIN cache[f][id]
    BY <1>6, <2>1, <2>2 DEF Call
  <2>4. QED
    BY <2>1, <2>3 DEF IInv, EntriesGenuine
<1>8. v \in -1 .. MaxLog
  <2>1. v \in Nat /\ call.offset \in -1 .. MaxLog /\ v <= call.offset
    BY <1>1, <1>7, ChangesAreOffsets DEF Call
  <2>2. QED
    BY <2>1, ConsumerAssumption
<1>9. ChangesOf(f, id)' = ChangesOf(f, id)
  BY ChangesKept
<1>10. ASSUME call.offset < call.asked, ChangesOf(f, id) \cap lost = {}
       PROVE  IsNewest(v, ChangesOf(f, id), call.offset)
  <2>1. CallInv(reader[r])'
    BY <1>4, <1>5 DEF ReaderInv
  <2>2. (ChangesOf(f, id) \cap lost)' = {}
    BY <1>9, <1>10
  <2>3. QED
    BY <1>4, <1>5, <1>9, <1>10, <2>1, <2>2 DEF CallInv, Intact
<1>11. PICK key : key = <<f, id>>
  OBVIOUS
<1>12. PICK query : query = StoreQuery(call)
  OBVIOUS
<1>13. /\ query.state = "pending" /\ query.key = key /\ query.offset = call.offset
       /\ query.passed => call.offset < call.asked
       /\ Queries[r] = query
  <2>1. query = [state |-> "pending", key |-> <<call.file, call.id>>,
                 offset |-> call.offset, passed |-> call.offset < call.asked]
    BY <1>1, <1>12, PendingQuery DEF InProgress
  <2>2. PICK p \in BOOLEAN : p = (call.offset < call.asked)
    <3>1. (call.offset < call.asked) \in BOOLEAN
      OBVIOUS
    <3>2. QED
      BY <3>1, Zenon
  <2>3. <<call.file, call.id>> = key
    BY <1>2, <1>11
  <2>4. query = [state |-> "pending", key |-> key, offset |-> call.offset, passed |-> p]
    BY <2>1, <2>2, <2>3, Zenon
  <2>5. Queries[r] = StoreQuery(reader[r])
    BY DEF Queries
  <2>6. Queries[r] = query
    BY <1>1, <1>12, <2>5
  <2>7. query.state = "pending" /\ query.key = key /\ query.offset = call.offset /\ query.passed = p
    BY <2>4
  <2>8. QED
    BY <2>2, <2>6, <2>7, Zenon
<1>14. Store!VersionsOf(key) = ChangesOf(f, id)
  BY <1>11, VersionsOfKey
<1>15. query.passed /\ Store!VersionsOf(key) \cap lost = {} => Store!NewestAt(v, key, call.offset)
  BY <1>10, <1>13, <1>14 DEF Store!NewestAt, IsNewest
<1>16. Queries' = [Queries EXCEPT ![r] = [state |-> "answered", version |-> v]]
  <2>1. StoreQuery(after) = [state |-> "answered", version |-> v]
    BY <1>4 DEF StoreQuery, InProgress
  <2>2. Queries' = [Queries EXCEPT ![r] = StoreQuery(after)]
    BY <1>5, QueryStep
  <2>3. QED
    BY <2>1, <2>2
<1>17. StoreVersions' = StoreVersions
  BY VersionsKept
<1>18. v \in Store!VersionsOf(key) /\ v <= call.offset
  BY <1>1, <1>7, <1>14
<1>19. Store!Answer(r, v)
  BY <1>13, <1>15, <1>16, <1>17, <1>18 DEF Store!Answer, Queries
<1>20. QED
  BY <1>8, <1>19

\* One LINDEX: an answer, a miss or a step that is not seen.
LEMMA IndexMaps ==
    ASSUME IInv, ReaderInv', NEW r \in Reader, ReadIndex(r)
    PROVE  \/ \E v \in -1 .. MaxLog : Store!Answer(r, v)
           \/ Store!Miss(r) \/ UNCHANGED Store!storeVars
<1> DEFINE call == reader[r]
           i == call.next + 1
           v == ListOf(call)[i].offset
<1>1. /\ log' = log /\ position' = position /\ lost' = lost /\ call.pc = "scan"
  BY DEF ReadIndex, consumerVars
<1>2. call \in Call /\ TypeOK
  BY <1>1, CallOfReader DEF IInv
<1>3. v \in Int
  <2>1. ListOf(call) \in Seq(Entry) /\ call.next \in Nat /\ call.len \in Nat
    BY <1>2 DEF TypeOK, ListOf, Call
  <2>2. call.next < call.len /\ call.len <= Len(ListOf(call))
    BY <1>1, <1>2 DEF TypeOK, InBounds
  <2>3. ListOf(call)[i] \in Entry
    BY <2>1, <2>2
  <2>4. QED
    BY <2>3 DEF Entry
<1>4. CASE /\ v <= call.offset
           /\ reader' = [reader EXCEPT ![r].pc = "found", ![r].version = v]
  <2>1. reader' = [reader EXCEPT ![r] = [call EXCEPT !.pc = "found", !.version = v]]
    BY <1>4
  <2>2. PICK w \in Int : w = v
    BY <1>3
  <2>3. w \in -1 .. MaxLog /\ Store!Answer(r, w)
    BY <1>1, <1>4, <2>1, <2>2, HitMaps
  <2>4. QED
    BY <2>3
<1>5. CASE reader' = [reader EXCEPT ![r].next = i,
                                    ![r].pc = IF i = call.len THEN "not_found" ELSE "scan"]
  <2> DEFINE pc == IF i = call.len THEN "not_found" ELSE "scan"
             after == [call EXCEPT !.next = i, !.pc = pc]
  <2>1. reader' = [reader EXCEPT ![r] = after]
    BY <1>5
  <2> HIDE DEF pc
  <2>2. after.pc = pc /\ after.file = call.file /\ after.id = call.id
        /\ after.offset = call.offset /\ after.asked = call.asked
    BY <1>2 DEF Call
  <2>3. (pc = "not_found" \/ pc \in InProgress) /\ call.pc \in InProgress
    BY <1>1 DEF pc, InProgress
  <2>4. QED
    <3> HIDE DEF after
    <3> QED
      BY <1>1, <1>2, <2>1, <2>2, <2>3, ScanMaps
<1>6. QED
  BY <1>4, <1>5 DEF ReadIndex

\* Every step of the cache is one of the store, or none.
LEMMA StoreStep == IInv /\ IInv' /\ [Next]_vars => [Store!Next]_Store!storeVars
<1> SUFFICES ASSUME IInv, IInv', [Next]_vars
             PROVE  Store!Next \/ UNCHANGED Store!storeVars
  OBVIOUS
<1>0. TypeOK /\ ReaderInv /\ ReaderInv' /\ position \in Nat
  BY DEF IInv, TypeOK, ConsumerTypeOK
<1> USE DEF redisVars, consumerVars
<1>1. CASE \E message \in Message : Submit(message)
  BY <1>0, <1>1, SubmitMaps DEF Store!Next
<1>2. CASE JoinGroup
  BY <1>0, <1>2, JoinMaps DEF Store!Next
<1>3. CASE TakeMessage \/ StoreObjectChange \/ StoreFileOffset
  <2>1. log' = log /\ position' = position /\ lost' = lost /\ reader' = reader
    BY <1>3 DEF TakeMessage, Fetch, StoreObjectChange, StoreFileOffset
  <2>2. QED
    BY <2>1, QueriesKept, Stutters
<1>4. CASE RejectMessage \/ UpdateLatestObjList \/ DropMessage \/ AbandonMessage
  <2>1. /\ log' = log /\ position' = position + 1 /\ reader' = reader
        /\ lost' = lost \/ lost' = lost \cup {position}
    BY <1>4 DEF RejectMessage, UpdateLatestObjList, Handled, DropMessage, ConnectFailure,
       AbandonMessage, HandlerFailure
  <2>2. position' > position /\ position .. position' - 1 = {position}
    BY <1>0, <2>1
  <2>3. Store!Advance
    BY <2>1, <2>2, Advances
  <2>4. QED
    BY <2>3 DEF Store!Next
<1>5. CASE CrashService
  BY <1>5, CrashMaps DEF Store!Next
<1>6. CASE RestartRedis
  BY <1>0, <1>6, RestartMaps DEF Store!Next
<1>7. CASE Read
  <2>1. ASSUME NEW r \in Reader, NEW f \in File, NEW id \in Obj, NEW o \in -1 .. MaxLog,
               StartRead(r, f, id, o)
        PROVE  Store!Next
    BY <1>0, <2>1, StartMaps DEF Store!Next
  <2>2. ASSUME NEW r \in Reader, ReadLength(r) PROVE Store!Next \/ UNCHANGED Store!storeVars
    BY <1>0, <2>2, LengthMaps DEF Store!Next
  <2>3. ASSUME NEW r \in Reader, ReadIndex(r) PROVE Store!Next \/ UNCHANGED Store!storeVars
    BY <1>0, <2>3, IndexMaps DEF Store!Next
  <2>4. QED
    BY <1>7, <2>1, <2>2, <2>3 DEF Read
<1>8. CASE UNCHANGED vars
  <2>1. log' = log /\ position' = position /\ lost' = lost /\ reader' = reader
    BY <1>8 DEF vars
  <2>2. QED
    BY <2>1, QueriesKept, Stutters
<1>9. QED
  BY <1>1, <1>2, <1>3, <1>4, <1>5, <1>6, <1>7, <1>8 DEF Next, Consume, Disturb

\* The cache, with consumer and readers racing through crashes, replays and
\* restarts of Redis, implements the store of versions its callers rely on.
THEOREM CacheImplementsStore == Spec => ImplementsStore
<1>1. Init => Store!Init
  <2>1. SUFFICES ASSUME Init PROVE Store!Init
    OBVIOUS
  <2>2. log = << >> /\ position = 0 /\ lost = {} /\ reader = [r \in Reader |-> Idle]
    BY <2>1 DEF Init, ConsumerInit
  <2>3. Offsets = {}
    BY <2>2 DEF Offsets
  <2>4. StoreVersions = {}
    <3>1. \A v : v \notin StoreVersions
      BY <2>3, VersionsAreChanges DEF ChangesOf
    <3>2. QED
      BY <3>1
  <2>5. Queries = [r \in Reader |-> [state |-> "none"]]
    BY <2>2 DEF Queries, StoreQuery, Idle, InProgress
  <2>6. QED
    BY <2>2, <2>4, <2>5 DEF Store!Init, Queries
<1>2. IInv /\ IInv' /\ [Next]_vars => [Store!Next]_Store!storeVars
  BY StoreStep
<1>3. Spec => Store!Spec
  BY <1>1, <1>2, Inductive, PTL DEF Spec, Store!Spec
<1>4. QED
  BY <1>3 DEF ImplementsStore
=============================================================================
