---------------------------- MODULE VersionedStore ----------------------------
(***************************************************************************)
(* What the objects service promises its callers: a store of versions of   *)
(* objects behind an append-only log.  The store has made the first        *)
(* `visible' messages of the log readable.  A query at an offset the       *)
(* store had already passed when it was asked gets the newest version at   *)
(* or below that offset; a query beyond gets some version at or below it.  *)
(* Any query may fail to find a version.  The promise is void for an       *)
(* object of which the store skipped a change.                             *)
(***************************************************************************)
EXTENDS Integers

CONSTANTS
    Key,     \* what versions are versions of
    Client,  \* who asks
    Offset   \* the offsets asked for, a set of integers

VARIABLES
    versions,  \* the [key, offset] of every change in the log
    visible,   \* number of messages of the log made readable
    skipped,   \* offsets of changes the store never applied, or lost
    query      \* each client's query

storeVars == <<versions, visible, skipped, query>>

VersionsOf(key) ==
    {v.offset : v \in {w \in versions : w.key = key}}

NewestAt(v, key, o) ==
    v \in VersionsOf(key) /\ v <= o /\ \A w \in VersionsOf(key) : w <= o => w <= v

Init ==
    /\ versions = {}
    /\ visible = 0
    /\ skipped = {}
    /\ query = [c \in Client |-> [state |-> "none"]]

\* A change of a key is submitted; offsets grow, with gaps where the log holds
\* messages the store ignores.
Submit ==
    /\ \E key \in Key, o \in Offset :
           /\ o >= visible
           /\ \A v \in versions : v.offset < o
           /\ versions' = versions \cup {[key |-> key, offset |-> o]}
    /\ UNCHANGED <<visible, skipped, query>>

\* The store makes more of the log readable, or passes over some of it.
Advance ==
    /\ visible' > visible
    /\ skipped' \in {skipped, skipped \cup visible .. visible' - 1}
    /\ UNCHANGED <<versions, query>>

\* The store starts over from an earlier point, under the pending queries.
Rewind ==
    /\ visible' < visible
    /\ query' = [c \in Client |->
           IF query[c].state = "pending"
           THEN [query[c] EXCEPT !.passed = @ /\ query[c].offset < visible']
           ELSE query[c]]
    /\ UNCHANGED <<versions, skipped>>

\* The process stops: the queries in it, and their answers, are gone.
Stop ==
    /\ query' = [c \in Client |-> [state |-> "none"]]
    /\ UNCHANGED <<versions, visible, skipped>>

\* The store's contents are gone; the pending queries fail.
Forget ==
    /\ visible' \in {visible, visible + 1}
    /\ skipped' = skipped \cup 0 .. visible' - 1
    /\ query' = [c \in Client |->
           IF query[c].state = "pending" THEN [state |-> "failed"]
           ELSE query[c]]
    /\ UNCHANGED versions

Ask(c) ==
    /\ query[c].state # "pending"
    /\ \E key \in Key, o \in Offset :
           query' = [query EXCEPT ![c] =
               [state |-> "pending", key |-> key, offset |-> o, passed |-> o < visible]]
    /\ UNCHANGED <<versions, visible, skipped>>

Answer(c, v) ==
    LET key == query[c].key
        o == query[c].offset
    IN  /\ query[c].state = "pending"
        /\ v \in VersionsOf(key) /\ v <= o
        /\ query[c].passed /\ VersionsOf(key) \cap skipped = {} => NewestAt(v, key, o)
        /\ query' = [query EXCEPT ![c] = [state |-> "answered", version |-> v]]
        /\ UNCHANGED <<versions, visible, skipped>>

Miss(c) ==
    /\ query[c].state = "pending"
    /\ query' = [query EXCEPT ![c] = [state |-> "missed"]]
    /\ UNCHANGED <<versions, visible, skipped>>

Next ==
    \/ Submit \/ Advance \/ Rewind \/ Stop \/ Forget
    \/ \E c \in Client : Ask(c) \/ Miss(c) \/ \E v \in Offset : Answer(c, v)

Spec == Init /\ [][Next]_storeVars
=============================================================================
