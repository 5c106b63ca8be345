----------------------------- MODULE LogConsumer -----------------------------
(***************************************************************************)
(* The Kafka consumer loop that every caching service of the system runs   *)
(* (objects, dependencies, undo, representation cache): join the consumer  *)
(* group, take the next message of the partition, open a Redis connection, *)
(* hand the message to the service's cache update, log an error if it      *)
(* fails, and commit the message either way.                               *)
(*                                                                         *)
(* Commits are asynchronous, and librdkafka commits in the background what *)
(* it has delivered.  Which of them the broker has only matters to a group *)
(* that resumes, so the choice is made when the service stops.             *)
(*                                                                         *)
(* A service extends this module and says what handling one message does   *)
(* to its cache, one action per Redis write, while phase is "handling".    *)
(* Kafka offsets start at zero: the message at offset k is log[k+1].       *)
(***************************************************************************)
EXTENDS Integers, Sequences, FiniteSets

CONSTANTS
    MaxLog,     \* bound: number of messages the producers append
    MaxFaults,  \* bound: number of faults that may happen
    Faults      \* the kinds of fault that may happen

FaultKinds == {"crash", "connect", "handler", "redis_restart", "call"}

ASSUME ConsumerAssumption ==
    /\ MaxLog \in Nat
    /\ MaxFaults \in Nat
    /\ Faults \subseteq FaultKinds

VARIABLES
    log,        \* the topic's partition, append-only
    position,   \* offset of the next message to handle
    start,      \* where the consumer joined
    committed,  \* the group's offset when it joined, NoCommit before the first
    phase,      \* where the consumer task is
    lost,       \* history: offsets whose effect on the cache was skipped
    faults      \* number of faults so far

consumerVars == <<log, position, start, committed, phase, lost, faults>>

NoCommit == -1

Phases == {"joining", "polling", "handling"}

\* Offset k holds a message, and that message.
Offsets == 0 .. Len(log) - 1
MessageAt(k) == log[k + 1]

\* The message the consumer is handling.
Current == MessageAt(position)

ConsumerTypeOK ==
    /\ position \in 0 .. Len(log)
    /\ start \in 0 .. position
    /\ committed \in {NoCommit} \cup 0 .. Len(log)
    /\ phase \in Phases
    /\ phase = "handling" => position < Len(log)
    /\ committed <= position + 1
    /\ lost \subseteq Offsets
    /\ faults \in 0 .. MaxFaults

ConsumerInit ==
    /\ log = << >>
    /\ position = 0
    /\ start = 0
    /\ committed = NoCommit
    /\ phase = "joining"
    /\ lost = {}
    /\ faults = 0

Fault(kind) ==
    /\ kind \in Faults
    /\ faults < MaxFaults
    /\ faults' = faults + 1

\* submit appends a change to the topic.
Produce(message) ==
    /\ Len(log) < MaxLog
    /\ log' = Append(log, message)
    /\ UNCHANGED <<position, start, committed, phase, lost, faults>>

\* After its 30 second sleep the task creates the consumer and subscribes.
\* The group resumes at its committed offset; a group that never committed
\* starts at the end of the log (auto.offset.reset is left at its default).
Join ==
    /\ phase = "joining"
    /\ start' = IF committed = NoCommit THEN Len(log) ELSE committed
    /\ position' = start'
    /\ lost' = lost \cup position .. start' - 1
    /\ phase' = "polling"
    /\ UNCHANGED <<log, committed, faults>>

\* The stream yields the next message and a Redis connection is opened.
Fetch ==
    /\ phase = "polling"
    /\ position < Len(log)
    /\ phase' = "handling"
    /\ UNCHANGED <<log, position, start, committed, lost, faults>>

\* No Redis connection: the message is dropped and not committed, but the
\* commits of the messages after it will pass over it.
ConnectFailure ==
    /\ phase = "polling"
    /\ position < Len(log)
    /\ Fault("connect")
    /\ position' = position + 1
    /\ lost' = lost \cup {position}
    /\ UNCHANGED <<log, start, committed, phase>>

\* handle_message returned: its commit is sent and the next message taken.
Handled ==
    /\ phase = "handling"
    /\ position' = position + 1
    /\ phase' = "polling"
    /\ UNCHANGED <<log, start, committed, lost, faults>>

\* handle_message returned an error from Redis part way through: it is
\* logged, and the message is committed all the same.
HandlerFailure ==
    /\ phase = "handling"
    /\ Fault("handler")
    /\ position' = position + 1
    /\ lost' = lost \cup {position}
    /\ phase' = "polling"
    /\ UNCHANGED <<log, start, committed>>

\* The offset after the last message the consumer was given.
Delivered == IF phase = "handling" THEN position + 1 ELSE position

\* The service stops at any point and is started again.  The broker may have
\* any of the commits sent since the consumer joined, the background commit
\* of a message that is still being handled included, or none.
Crash ==
    /\ phase # "joining"
    /\ Fault("crash")
    /\ committed' \in {committed} \cup start + 1 .. Delivered
    /\ phase' = "joining"
    /\ UNCHANGED <<log, position, start, lost>>

\* Redis restarts empty (persistence is disabled) while the group keeps its
\* committed offset: the effect of every message handled so far is gone.  A
\* message being handled fails, because its connection is.
RedisRestart ==
    /\ Fault("redis_restart")
    /\ \/ /\ phase = "handling"
          /\ position' = position + 1
          /\ phase' = "polling"
       \/ /\ phase # "handling"
          /\ UNCHANGED <<position, phase>>
    /\ lost' = lost \cup 0 .. position' - 1
    /\ UNCHANGED <<log, start, committed>>
=============================================================================
