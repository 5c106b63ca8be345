----------------------------- MODULE ObjectCache -----------------------------
(***************************************************************************)
(* The objects service: a cache in Redis that maps every object of a file  *)
(* to the list of its changes, newest first, filled by tailing the         *)
(* ObjectState topic and read by gRPC requests that run concurrently with  *)
(* the consumer.  A request names an object and an offset and wants the    *)
(* newest change of that object at or below the offset.                    *)
(*                                                                         *)
(* Redis commands are atomic; everything between two awaits is one action. *)
(***************************************************************************)
EXTENDS LogConsumer

CONSTANTS
    File,    \* files; the Kafka key of a message is its file
    Obj,     \* object ids
    Reader,  \* gRPC tasks that call get_object
    Kind,    \* the kinds of message that are submitted
    Explored(_)  \* bound: the logs that are explored

\* "Invalid" is a message handle_message refuses before it writes: no
\* payload, no key, undecodable, or without a change type.
Change == {"Add", "Modify", "Delete"}
Message == [file : File, id : Obj, change : Kind]

ASSUME KindAssumption == Kind \subseteq Change \cup {"Invalid"}

VARIABLES
    cache,       \* file:id -> list of [offset, object], head first
    fileOffset,  \* file:offset -> offset of the last change stored
    objList,     \* file:obj_list -> set of ids
    step,        \* the write update_object_cache does next
    reader       \* the state of each get_object call

redisVars == <<cache, fileOffset, objList>>
vars == <<consumerVars, redisVars, step, reader>>

NoOffset == -1
Steps == {"push", "set_offset", "set_list"}
Entry == [offset : Nat, object : Message]
InProgress == {"len", "scan"}
Ended == {"found", "not_found", "error"}
Call == [pc : InProgress \cup Ended,
         file : File, id : Obj, offset : -1 .. MaxLog, asked : Nat,
         len : Nat, next : Nat, version : Int]
Idle == [pc |-> "idle"]

\* The changes of object id of a file among the messages at or below offset o.
ChangesOf(f, id) ==
    {k \in Offsets : /\ MessageAt(k).file = f
                     /\ MessageAt(k).id = id
                     /\ MessageAt(k).change \in Change}
IsNewest(k, S, o) == k \in S /\ k <= o /\ \A j \in S : j <= o => j <= k

\* Mutant: RPUSH.
PushLast(list, entry) == Append(list, entry)
Push(list, entry) == <<entry>> \o list

\* The first entry of the list at or below offset o is at index i: what a
\* scan of the list finds when nothing is pushed meanwhile.
FirstHit(list, o, i) ==
    /\ i \in DOMAIN list
    /\ list[i].offset <= o
    /\ \A j \in 1 .. i - 1 : list[j].offset > o

\* A scan of the list at offset o finds the newest of the changes up to o.
CorrectAt(list, changes, o) ==
    /\ \A i \in DOMAIN list :
           FirstHit(list, o, i) => IsNewest(list[i].offset, changes, o)
    /\ (\E k \in changes : k <= o) => \E i \in DOMAIN list : list[i].offset <= o

Init ==
    /\ ConsumerInit
    /\ cache = [f \in File |-> [id \in Obj |-> << >>]]
    /\ fileOffset = [f \in File |-> NoOffset]
    /\ objList = [f \in File |-> {}]
    /\ step = "push"
    /\ reader = [r \in Reader |-> Idle]

-----------------------------------------------------------------------------
(* The consumer task *)

Submit(message) ==
    /\ Explored(Append(log, message))
    /\ Produce(message)
    /\ UNCHANGED <<redisVars, step, reader>>

\* A call in progress sees what a replay pushes: asked, which is history, is
\* the lowest position of the consumer since the call began.
JoinGroup ==
    /\ Join
    /\ reader' = [r \in Reader |->
           IF reader[r].pc # "idle" /\ position' < reader[r].asked
           THEN [reader[r] EXCEPT !.asked = position'] ELSE reader[r]]
    /\ UNCHANGED <<redisVars, step>>

\* Take the next message and open a connection; the first write follows.
TakeMessage ==
    /\ Fetch
    /\ step' = "push"
    /\ UNCHANGED <<redisVars, reader>>

\* Mutant: a message that fails is tried again.
RetryRejected ==
    /\ phase = "handling"
    /\ step = "push"
    /\ Current.change = "Invalid"
    /\ phase' = "polling"
    /\ UNCHANGED <<log, position, start, committed, lost, faults, redisVars, step, reader>>
\* handle_message returns an error before any write.
RejectMessage ==
    /\ phase = "handling"
    /\ step = "push"
    /\ Current.change = "Invalid"
    /\ Handled
    /\ UNCHANGED <<redisVars, step, reader>>

StoreObjectChange ==
    /\ phase = "handling"
    /\ step = "push"
    /\ Current.change \in Change
    /\ LET entry == [offset |-> position, object |-> Current]
       IN  cache' = [cache EXCEPT ![Current.file][Current.id] = Push(@, entry)]
    /\ step' = "set_offset"
    /\ UNCHANGED <<consumerVars, fileOffset, objList, reader>>

\* Mutant: the offset to handle next, as Kafka commits it.
StoreNextOffset ==
    /\ phase = "handling"
    /\ step = "set_offset"
    /\ fileOffset' = [fileOffset EXCEPT ![Current.file] = position + 1]
    /\ step' = "set_list"
    /\ UNCHANGED <<consumerVars, cache, objList, reader>>
StoreFileOffset ==
    /\ phase = "handling"
    /\ step = "set_offset"
    /\ fileOffset' = [fileOffset EXCEPT ![Current.file] = position]
    /\ step' = "set_list"
    /\ UNCHANGED <<consumerVars, cache, objList, reader>>

\* Mutant: SADD for a Modify, too.
ListAfterAnyObject(list, message) ==
    IF message.change = "Delete" THEN list \ {message.id} ELSE list \cup {message.id}
\* SADD for an Add, SREM for a Delete; then handle_message returns.
ListAfter(list, message) ==
    CASE message.change = "Add"    -> list \cup {message.id}
      [] message.change = "Delete" -> list \ {message.id}
      [] OTHER                     -> list

UpdateLatestObjList ==
    /\ phase = "handling"
    /\ step = "set_list"
    /\ objList' = [objList EXCEPT ![Current.file] = ListAfter(@, Current)]
    /\ step' = "push"
    /\ Handled
    /\ UNCHANGED <<cache, fileOffset, reader>>

DropMessage == ConnectFailure /\ UNCHANGED <<redisVars, step, reader>>

AbandonMessage ==
    /\ HandlerFailure
    /\ step' = "push"
    /\ UNCHANGED <<redisVars, reader>>

\* The consumer and the gRPC server are one process: its calls die with it.
CrashService ==
    /\ Crash
    /\ step' = "push"
    /\ reader' = [r \in Reader |-> Idle]
    /\ UNCHANGED redisVars

\* Mutant: calls in progress reconnect and go on.
RestartRedisUnnoticed ==
    /\ RedisRestart
    /\ cache' = [f \in File |-> [id \in Obj |-> << >>]]
    /\ fileOffset' = [f \in File |-> NoOffset]
    /\ objList' = [f \in File |-> {}]
    /\ step' = "push"
    /\ UNCHANGED reader
\* Every open connection breaks, the calls in progress return an error.
RestartRedis ==
    /\ RedisRestart
    /\ cache' = [f \in File |-> [id \in Obj |-> << >>]]
    /\ fileOffset' = [f \in File |-> NoOffset]
    /\ objList' = [f \in File |-> {}]
    /\ step' = "push"
    /\ reader' = [r \in Reader |->
           IF reader[r].pc \in InProgress THEN [reader[r] EXCEPT !.pc = "error"]
                                             ELSE reader[r]]

-----------------------------------------------------------------------------
(* A get_object call: LLEN, then LINDEX 0, 1, .. each a round trip *)

\* version is the offset of the entry the call returns.
StartRead(r, f, id, o) ==
    /\ reader[r].pc \in Ended \cup {"idle"}
    /\ reader' = [reader EXCEPT ![r] =
           [pc |-> "len", file |-> f, id |-> id, offset |-> o, asked |-> position,
            len |-> 0, next |-> 0, version |-> NoOffset]]
    /\ UNCHANGED <<consumerVars, redisVars, step>>

ListOf(call) == cache[call.file][call.id]

ReadLength(r) ==
    LET len == Len(ListOf(reader[r]))
    IN  /\ reader[r].pc = "len"
        /\ reader' = [reader EXCEPT ![r].len = len, ![r].next = 0,
                                    ![r].pc = IF len = 0 THEN "not_found" ELSE "scan"]
        /\ UNCHANGED <<consumerVars, redisVars, step>>

\* Mutant: < for <=.
ReadIndexBefore(r) ==
    LET call == reader[r]
        list == ListOf(call)
        i == call.next + 1
    IN  /\ call.pc = "scan"
        /\ \/ /\ list[i].offset < call.offset
              /\ reader' = [reader EXCEPT ![r].pc = "found",
                                          ![r].version = list[i].offset]
           \/ /\ list[i].offset >= call.offset
              /\ reader' = [reader EXCEPT
                     ![r].next = i,
                     ![r].pc = IF i = call.len THEN "not_found" ELSE "scan"]
        /\ UNCHANGED <<consumerVars, redisVars, step>>
\* Mutant: the latest entry whatever the offset.
ReadLatest(r) ==
    LET call == reader[r]
    IN  /\ call.pc = "scan"
        /\ reader' = [reader EXCEPT ![r].pc = "found",
                                    ![r].version = ListOf(call)[1].offset]
        /\ UNCHANGED <<consumerVars, redisVars, step>>
\* Index i of Redis is element i+1 of the list.  Lists only grow while a
\* connection lives, so the index is there.
ReadIndex(r) ==
    LET call == reader[r]
        list == ListOf(call)
        i == call.next + 1
    IN  /\ call.pc = "scan"
        /\ \/ /\ list[i].offset <= call.offset
              /\ reader' = [reader EXCEPT ![r].pc = "found",
                                          ![r].version = list[i].offset]
           \/ /\ list[i].offset > call.offset
              /\ reader' = [reader EXCEPT
                     ![r].next = i,
                     ![r].pc = IF i = call.len THEN "not_found" ELSE "scan"]
        /\ UNCHANGED <<consumerVars, redisVars, step>>

-----------------------------------------------------------------------------
Consume ==
    \/ JoinGroup \/ TakeMessage \/ RejectMessage \/ StoreObjectChange
    \/ StoreFileOffset \/ UpdateLatestObjList

Disturb ==
    \/ DropMessage \/ AbandonMessage \/ CrashService \/ RestartRedis

Read ==
    \E r \in Reader :
        \/ \E f \in File, id \in Obj, o \in -1 .. MaxLog : StartRead(r, f, id, o)
        \/ ReadLength(r)
        \/ ReadIndex(r)

Next ==
    \/ \E message \in Message : Submit(message)
    \/ Consume
    \/ Disturb
    \/ Read

Spec == Init /\ [][Next]_vars

\* The consumer task is a loop in a spawned task: it always takes its next
\* step.  Requests and producers may stop.
FairSpec == Spec /\ WF_vars(Consume)
-----------------------------------------------------------------------------
(* Properties *)

InBounds(call) == call.next < call.len /\ call.len <= Len(ListOf(call))

\* Types; a write is pending only while a change is handled; a scan stays
\* inside its list.
TypeOK ==
    /\ ConsumerTypeOK
    /\ log \in Seq(Message)
    /\ cache \in [File -> [Obj -> Seq(Entry)]]
    /\ fileOffset \in [File -> Int]
    /\ objList \in [File -> SUBSET Obj]
    /\ step \in Steps
    /\ step # "push" => phase = "handling" /\ Current.change \in Change
    /\ reader \in [Reader -> Call \cup {Idle}]
    /\ \A r \in Reader : reader[r].pc = "scan" => InBounds(reader[r])

\* No change of the object was skipped by a fault.
Intact(f, id) == ChangesOf(f, id) \cap lost = {}

\* Every entry is the change the log holds at the entry's offset.
EntriesGenuine ==
    \A f \in File, id \in Obj : \A i \in DOMAIN cache[f][id] :
        LET entry == cache[f][id][i]
        IN  /\ entry.offset \in ChangesOf(f, id)
            /\ entry.object = MessageAt(entry.offset)

\* A scan of an object's list at an offset the consumer has passed finds the
\* newest change at or below that offset, whatever crashes and replays made
\* the list repeat or go backwards (get_object over what
\* store_object_change pushed).
ReadsBelowPosition ==
    \A f \in File, id \in Obj : Intact(f, id) =>
        \A o \in -1 .. position - 1 : CorrectAt(cache[f][id], ChangesOf(f, id), o)

\* A get_object call racing the consumer, whose LPUSHes shift the indexes
\* under it, at an offset the consumer was past all along, returns no version
\* but the newest at or below its offset, and finds nothing only if there is
\* nothing or the list grew under the scan.
RacingReadNeverWrong ==
    \A r \in Reader :
        LET call == reader[r]
        IN  call.pc \in {"found", "not_found"}
            /\ Intact(call.file, call.id) /\ call.offset < call.asked =>
                LET changes == ChangesOf(call.file, call.id)
                IN  IF call.pc = "found"
                    THEN IsNewest(call.version, changes, call.offset)
                    ELSE Len(ListOf(call)) = call.len =>
                             \A k \in changes : k > call.offset

\* An offset get_latest_offset returns is the offset of a change that reads
\* at that offset already see: the entry is pushed before the offset is set.
OffsetAfterEntry ==
    \A f \in File : fileOffset[f] # NoOffset =>
        /\ fileOffset[f] \in Offsets
        /\ MessageAt(fileOffset[f]).file = f
        /\ \E i \in DOMAIN cache[f][MessageAt(fileOffset[f]).id] :
               cache[f][MessageAt(fileOffset[f]).id][i].offset = fileOffset[f]

Listings(f, id) == {k \in ChangesOf(f, id) : MessageAt(k).change # "Modify"}
ChangesIn(f) == {k \in Offsets : MessageAt(k).file = f /\ MessageAt(k).change \in Change}

ListSettled(f, id) ==
    /\ Intact(f, id)
    /\ \A k \in Listings(f, id) : k < position
    => (id \in objList[f] <=>
          \E k \in Listings(f, id) :
              MessageAt(k).change = "Add" /\ \A j \in Listings(f, id) : j <= k)
OffsetSettled(f) ==
    /\ ChangesIn(f) \cap lost = {}
    /\ \A k \in ChangesIn(f) : k < position
    => IF ChangesIn(f) = {} THEN fileOffset[f] = NoOffset
       ELSE fileOffset[f] \in ChangesIn(f) /\ \A k \in ChangesIn(f) : k <= fileOffset[f]

\* Once no Add or Delete of an object is left to handle, the object list
\* holds the object exactly when the last of them was an Add; once no change
\* of a file is left to handle, its offset is that of the last.
FileStateSettled ==
    \A f \in File : OffsetSettled(f) /\ \A id \in Obj : ListSettled(f, id)

Stored(k) ==
    k \in Offsets /\ \E i \in DOMAIN cache[MessageAt(k).file][MessageAt(k).id] :
        cache[MessageAt(k).file][MessageAt(k).id][i].offset = k

\* Every change submitted reaches the cache unless a fault skipped it.
EveryChangeStored ==
    \A k \in 0 .. MaxLog - 1 :
        (k \in Offsets /\ MessageAt(k).change \in Change)
            ~> (k \in lost \/ Stored(k))

\* The test of get_object: a version stored earlier is still found after
\* later changes (objects/src/cache.rs:326).  Violated: an LPUSH between LLEN
\* and the last LINDEX moves the oldest entry past the end of the scan.
ReadFindsExisting ==
    \A r \in Reader :
        LET call == reader[r]
        IN  /\ call.pc = "not_found"
            /\ Intact(call.file, call.id)
            /\ call.offset < call.asked
            => \A k \in ChangesOf(call.file, call.id) : k > call.offset

-----------------------------------------------------------------------------
(* The inductive invariant behind the properties of reads *)

\* Between the push and the end of handling, the current change heads its list.
PushedFirst ==
    step # "push" =>
        LET list == cache[Current.file][Current.id]
        IN  list # << >> /\ list[1].offset = position

\* The object list is written after the offset of the file.
OffsetBeforeList == step = "set_list" => fileOffset[Current.file] = position

\* What a call knows at each of its round trips.
CallInv(call) ==
    LET list == ListOf(call)
        changes == ChangesOf(call.file, call.id)
    IN  /\ call.asked <= position
        /\ Intact(call.file, call.id) /\ call.offset < call.asked =>
            /\ call.pc = "scan" =>
                   \A j \in 1 .. call.next : list[j].offset > call.offset
            /\ call.pc = "found" => IsNewest(call.version, changes, call.offset)
            /\ call.pc = "not_found" =>
                   (\A k \in changes : k > call.offset) \/ Len(list) > call.len

ReaderInv == \A r \in Reader : reader[r].pc # "idle" => CallInv(reader[r])

\* Type correctness and what the code keeps true of the lists and the calls
\* between any two awaits: every step preserves it.
IInv ==
    /\ TypeOK
    /\ EntriesGenuine
    /\ PushedFirst
    /\ OffsetBeforeList
    /\ ReadsBelowPosition
    /\ ReaderInv

-----------------------------------------------------------------------------
(* Refinement *)

\* The versions of every object, as the abstract store sees them.
StoreVersions ==
    UNION {UNION {{[key |-> <<f, id>>, offset |-> k] : k \in ChangesOf(f, id)}
                     : id \in Obj} : f \in File}

\* A get_object call as a query of the abstract store.
StoreQuery(call) ==
    CASE call.pc = "idle" -> [state |-> "none"]
      [] call.pc \in InProgress ->
             [state |-> "pending", key |-> <<call.file, call.id>>,
              offset |-> call.offset, passed |-> call.offset < call.asked]
      [] call.pc = "found" -> [state |-> "answered", version |-> call.version]
      [] call.pc = "not_found" -> [state |-> "missed"]
      [] call.pc = "error" -> [state |-> "failed"]

Store == INSTANCE VersionedStore WITH
    Key <- File \X Obj,
    Offset <- -1 .. MaxLog,
    Client <- Reader,
    versions <- StoreVersions,
    visible <- position,
    skipped <- lost,
    query <- [r \in Reader |-> StoreQuery(reader[r])]

\* The cache with its racing consumer and readers implements the store.
ImplementsStore == Store!Spec
=============================================================================
