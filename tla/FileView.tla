------------------------------ MODULE FileView -------------------------------
(***************************************************************************)
(* What a client sees of a file it opens.  The representations service     *)
(* tails the changes and appends what each object looks like now to a      *)
(* second topic, ClientRepresentations.  rep_cache tails that topic and    *)
(* keeps the last representation of every object; updates tails it and     *)
(* pushes to the clients that are subscribed.  A client subscribes over    *)
(* its websocket and at once opens the file over gRPC: api sends it what   *)
(* rep_cache has for every object of the file.  Both go to one handler,    *)
(* which shows whatever comes.                                             *)
(*                                                                         *)
(* LogConsumer is extended for the representations service, and a second   *)
(* instance of it is rep_cache's consumer.  updates hands on what it takes *)
(* in order (UpdatesHub), and the file's object list is that of some       *)
(* offset (ObjectCache).                                                   *)
(***************************************************************************)
EXTENDS LogConsumer, SequencesExt

CONSTANTS
    Obj,   \* object ids
    Kind,  \* kinds of change that are submitted
    None,  \* nothing shown or stored
    Explored(_)  \* bound: the logs that are explored

ASSUME ViewAssumption == None \notin Nat /\ Kind \subseteq {"Add", "Modify", "Delete"}

Message == [id : Obj, change : Kind]

VARIABLES
    sent,       \* whether the representation of the message handled is sent
    reps,       \* ClientRepresentations: offsets of the changes they show
    cPosition, cStart, cCommitted, cPhase, cLost,  \* rep_cache's consumer
    repStore,   \* file:obj -> the representation stored, or None
    pushed,     \* how many representations updates has taken
    sub,        \* the client's subscription
    subscribed, \* history: pushed when updates handled the subscription
    stream,     \* representations on the websocket, by their place in reps
    open,       \* the open_file call, "none" before it
    toRead,     \* objects of the file that api has still to read
    opened,     \* representations on the open_file stream
    seen,       \* history: how far rep_cache was when an object was read, 0 if it was not
    shown,      \* what the client shows of each object
    newest      \* history: the newest representation shown of each object

viewVars == <<sub, subscribed, stream, open, toRead, opened, seen, shown, newest>>
cacheVars == <<cPosition, cStart, cCommitted, cPhase, cLost, repStore>>
vars == <<consumerVars, sent, reps, cacheVars, pushed, viewVars>>

Cache == INSTANCE LogConsumer WITH
    MaxLog <- MaxLog * (MaxFaults + 1),
    log <- reps, position <- cPosition, start <- cStart, committed <- cCommitted,
    phase <- cPhase, lost <- cLost

IdOf(k) == MessageAt(k).id

Init ==
    /\ ConsumerInit
    /\ sent = FALSE
    /\ reps = << >>
    /\ Cache!ConsumerInit
    /\ repStore = [x \in Obj |-> None]
    /\ pushed = 0
    /\ sub = "none"
    /\ subscribed = 0
    /\ stream = {}
    /\ open = "none"
    /\ toRead = {}
    /\ opened = << >>
    /\ seen = [x \in Obj |-> None]
    /\ shown = [x \in Obj |-> None]
    /\ newest = [x \in Obj |-> None]

-----------------------------------------------------------------------------
(* The representations service *)

Submit(message) ==
    /\ Explored(Append(log, message))
    /\ Produce(message)
    /\ UNCHANGED <<sent, reps, cacheVars, pushed, viewVars>>

JoinGroup == Join /\ UNCHANGED <<sent, reps, cacheVars, pushed, viewVars>>

TakeChange == Fetch /\ UNCHANGED <<sent, reps, cacheVars, pushed, viewVars>>

\* calc_representation calls the operations service and delivers what it
\* answers to the topic.
CalcRepresentation ==
    /\ phase = "handling"
    /\ ~sent
    /\ reps' = Append(reps, position)
    /\ sent' = TRUE
    /\ UNCHANGED <<consumerVars, cacheVars, pushed, viewVars>>

\* Mutant: the delivery is not waited for.
CommitBeforeSend ==
    /\ Handled
    /\ sent' = FALSE
    /\ UNCHANGED <<reps, cacheVars, pushed, viewVars>>
CommitChange ==
    /\ sent
    /\ Handled
    /\ sent' = FALSE
    /\ UNCHANGED <<reps, cacheVars, pushed, viewVars>>

\* The operations or geometry service is not there: the change is passed over.
CalcFails ==
    /\ ~sent
    /\ HandlerFailure
    /\ UNCHANGED <<sent, reps, cacheVars, pushed, viewVars>>

\* Mutant: what the service had sent when it stopped counts for the next message.
CrashUnnoticed ==
    /\ Crash
    /\ UNCHANGED <<sent, reps, cacheVars, pushed, viewVars>>
\* The service stops, by itself if a representation cannot be delivered.
CrashRepresentations ==
    /\ Crash
    /\ sent' = FALSE
    /\ UNCHANGED <<reps, cacheVars, pushed, viewVars>>

-----------------------------------------------------------------------------
(* rep_cache *)

CacheOnly == UNCHANGED <<log, position, start, committed, phase, lost, sent, reps, pushed, viewVars>>

JoinCache == Cache!Join /\ UNCHANGED repStore /\ CacheOnly

TakeRepresentation == Cache!Fetch /\ UNCHANGED repStore /\ CacheOnly

\* Mutant: only the first representation of an object is stored.
StoreFirstRep ==
    LET k == reps[cPosition + 1]
    IN  /\ Cache!Handled
        /\ repStore' = [repStore EXCEPT ![IdOf(k)] = IF @ = None THEN k ELSE @]
        /\ CacheOnly
\* SET, whatever was there.
StoreObjectRep ==
    LET k == reps[cPosition + 1]
    IN  /\ Cache!Handled
        /\ repStore' = [repStore EXCEPT ![IdOf(k)] = k]
        /\ CacheOnly

DropRepresentation == Cache!ConnectFailure /\ UNCHANGED repStore /\ CacheOnly

CrashCache == Cache!Crash /\ UNCHANGED repStore /\ CacheOnly

RestartCache ==
    /\ Cache!RedisRestart
    /\ repStore' = [x \in Obj |-> None]
    /\ CacheOnly

-----------------------------------------------------------------------------
(* updates, for this client *)

ViewOnly == UNCHANGED <<consumerVars, sent, reps, cacheVars>>

\* A representation goes to the client if it is subscribed.
PushUpdate ==
    /\ pushed < Len(reps)
    /\ pushed' = pushed + 1
    /\ stream' = IF sub = "done" THEN stream \cup {pushed + 1} ELSE stream
    /\ UNCHANGED <<sub, subscribed, open, toRead, opened, seen, shown, newest>>
    /\ ViewOnly

Subscribe ==
    /\ sub = "sent"
    /\ sub' = "done"
    /\ subscribed' = pushed
    /\ UNCHANGED <<pushed, stream, open, toRead, opened, seen, shown, newest>>
    /\ ViewOnly

-----------------------------------------------------------------------------
(* The client and open_file *)

\* subToFile, then openFile: two connections, and no answer is waited for.
InitFile ==
    /\ open = "none"
    /\ open' = "asked"
    /\ sub' = "sent"
    /\ UNCHANGED <<pushed, subscribed, stream, toRead, opened, seen, shown, newest>>
    /\ ViewOnly

\* What the objects service has as the file's objects when it has n changes:
\* those of which the last Add or Delete was an Add.
ObjectList(n) ==
    LET Listings(x) == {k \in 0 .. n - 1 : IdOf(k) = x /\ MessageAt(k).change # "Modify"}
    IN  {x \in Obj : \E k \in Listings(x) :
            MessageAt(k).change = "Add" /\ \A j \in Listings(x) : j <= k}

\* open_file reads the list once; with no list (n = 0) it may also have failed
\* before it had one.
OpenFile ==
    \E n \in 0 .. Len(log) :
        /\ open = "asked"
        /\ open' = "listed"
        /\ toRead' = ObjectList(n)
        /\ seen' = [x \in Obj |-> IF x \in ObjectList(n) THEN None ELSE 0]
        /\ UNCHANGED <<pushed, sub, subscribed, stream, opened, shown, newest>>
        /\ ViewOnly

\* Mutant: the open stops at an object without a representation.
ReadWhilePresent(x) ==
    /\ x \in toRead
    /\ repStore[x] # None
    /\ toRead' = toRead \ {x}
    /\ opened' = Append(opened, repStore[x])
    /\ seen' = [seen EXCEPT ![x] = cPosition]
    /\ UNCHANGED <<pushed, sub, subscribed, stream, open, shown, newest>>
    /\ ViewOnly
\* One object after the other; one without a representation is left out.
ReadRepresentation(x) ==
    /\ x \in toRead
    /\ toRead' = toRead \ {x}
    /\ opened' = IF repStore[x] = None THEN opened ELSE Append(opened, repStore[x])
    /\ seen' = [seen EXCEPT ![x] = cPosition]
    /\ UNCHANGED <<pushed, sub, subscribed, stream, open, shown, newest>>
    /\ ViewOnly

\* A call of rep_cache fails, which has no Redis connection or does not answer,
\* or the list breaks off: api passes over the objects of all calls that fail
\* and tells the client nothing.
ReadsFail(failed) ==
    /\ failed # {}
    /\ Fault("call")
    /\ toRead' = toRead \ failed
    /\ seen' = [x \in Obj |-> IF x \in failed THEN 0 ELSE seen[x]]
    /\ UNCHANGED <<log, position, start, committed, phase, lost, sent, reps, cacheVars,
                   pushed, sub, subscribed, stream, open, opened, shown, newest>>

\* Mutant: what was shown before stays.
HandleFirstUpdate(k) ==
    /\ shown' = [shown EXCEPT ![IdOf(k)] = IF @ = None THEN k ELSE @]
    /\ newest' = [newest EXCEPT ![IdOf(k)] = k]
\* The handler shows a mesh or takes it away; nothing tells which of two
\* representations is newer.
HandleUpdate(k) ==
    /\ shown' = [shown EXCEPT ![IdOf(k)] = k]
    /\ newest' = [newest EXCEPT ![IdOf(k)] = IF @ = None \/ @ < k THEN k ELSE @]

\* The handler waits for the bytes of each websocket message, so two of them
\* may come to it in either order.
ReceiveUpdate(n) ==
    /\ HandleUpdate(reps[n])
    /\ stream' = stream \ {n}
    /\ UNCHANGED <<pushed, sub, subscribed, open, toRead, opened, seen>>
    /\ ViewOnly

ReceiveOpened ==
    /\ opened # << >>
    /\ HandleUpdate(Head(opened))
    /\ opened' = Tail(opened)
    /\ UNCHANGED <<pushed, sub, subscribed, stream, open, toRead, seen>>
    /\ ViewOnly

-----------------------------------------------------------------------------
Represent == JoinGroup \/ TakeChange \/ CalcRepresentation \/ CommitChange

CacheReps == JoinCache \/ TakeRepresentation \/ StoreObjectRep

Push == PushUpdate \/ Subscribe

Open ==
    \/ OpenFile \/ ReceiveOpened
    \/ \E x \in Obj : ReadRepresentation(x)
    \/ \E n \in stream : ReceiveUpdate(n)

Disturb ==
    \/ CalcFails \/ CrashRepresentations
    \/ DropRepresentation \/ CrashCache \/ RestartCache
    \/ \E failed \in SUBSET toRead : ReadsFail(failed)

Next ==
    \/ \E message \in Message : Submit(message)
    \/ Represent \/ CacheReps \/ Push \/ InitFile \/ Open \/ Disturb

Spec == Init /\ [][Next]_vars

\* Every service goes on, and the client shows what arrives.
FairSpec ==
    Spec /\ WF_vars(Represent) /\ WF_vars(CacheReps) /\ WF_vars(Push) /\ WF_vars(Open)
-----------------------------------------------------------------------------
(* Properties *)

\* One representation, or none, for each object.
RepOfEach ==
    {s \in [Obj -> Offsets \cup {None}] : \A x \in Obj : s[x] # None => IdOf(s[x]) = x}

TypeOK ==
    /\ ConsumerTypeOK /\ Cache!ConsumerTypeOK
    /\ log \in Seq(Message)
    /\ sent \in BOOLEAN
    /\ sent => phase = "handling" /\ reps # << >> /\ Last(reps) = position
    /\ reps \in Seq(Offsets)
    /\ {repStore, shown, newest} \subseteq RepOfEach
    /\ \A x \in Obj : newest[x] = None <=> shown[x] = None
    /\ pushed \in 0 .. Len(reps) /\ subscribed \in 0 .. pushed
    /\ sub \in {"none", "sent", "done"} /\ open \in {"none", "asked", "listed"}
    /\ stream \subseteq 1 .. pushed /\ opened \in Seq(Offsets)
    /\ toRead \subseteq Obj /\ (toRead # {} => open = "listed")
    /\ seen \in [Obj -> Nat \cup {None}]

\* Nothing is under way.
AtRest ==
    /\ phase = "polling" /\ position = Len(log)
    /\ cPhase = "polling" /\ cPosition = Len(reps)
    /\ pushed = Len(reps)
    /\ sub = "done" /\ open = "listed" /\ toRead = {}
    /\ stream = {} /\ opened = << >>

ChangesOf(x) == {k \in Offsets : IdOf(k) = x}
RepsOf(x) == {n \in DOMAIN reps : IdOf(reps[n]) = x}
LastRep(x) == Max(RepsOf(x))

\* The last representation of x was pushed before the client was subscribed,
\* and rep_cache did not have it when x was read, or never had, or x was not
\* read: it was not in the list, or the call that asks for it failed.
IsMissed(x) ==
    /\ LastRep(x) <= subscribed
    /\ \/ seen[x] < LastRep(x)
       \/ LastRep(x) - 1 \in cLost

\* When nothing is under way the client shows the last change of every object
\* unless that was passed over by representations, was missed between the
\* two ways or in a call that failed, or an older one came in by the slower way.
ShowsLatest ==
    AtRest =>
        \A x \in Obj :
            \/ ChangesOf(x) = {} \/ shown[x] # newest[x]
            \/ Max(ChangesOf(x)) \in lost
            \/ IsMissed(x)
            \/ shown[x] = Max(ChangesOf(x))

\* The open of a file comes to an end: both ways run dry, whatever is left out.
OpenSettles == open = "asked" ~> AtRest

\* After a replay too the last representation of an object in the topic is
\* that of its last change, and rep_cache settles on it.
CacheSettles ==
    phase = "polling" /\ position = Len(log) =>
        \A x \in Obj :
            ChangesOf(x) # {} /\ Max(ChangesOf(x)) \notin lost =>
                /\ RepsOf(x) # {}
                /\ reps[LastRep(x)] = Max(ChangesOf(x))
                /\ cPhase = "polling" /\ cPosition = Len(reps) /\ LastRep(x) - 1 \notin cLost =>
                       repStore[x] = Max(ChangesOf(x))
-----------------------------------------------------------------------------
(* The inductive invariant *)

\* A change that was handled has its representation in the topic, and after it
\* none of an older change of the object, whatever was sent again.
RepsInOrder ==
    \A k \in Offsets :
        (k < position \/ (k = position /\ sent)) /\ k \notin lost =>
            \E n \in DOMAIN reps :
                reps[n] = k /\ \A m \in RepsOf(IdOf(k)) : m > n => reps[m] >= k

IsLastRep(n, x) == n \in RepsOf(x) /\ \A m \in RepsOf(x) : m <= n

\* rep_cache has the last representation of an object once it has passed it.
CacheHolds ==
    \A x \in Obj : \A n \in DOMAIN reps :
        IsLastRep(n, x) /\ n <= cPosition /\ n - 1 \notin cLost => repStore[x] = reps[n]

\* The client has shown representation k or a newer one.
WasShown(k) == newest[IdOf(k)] # None /\ newest[IdOf(k)] >= k

\* What updates took since the subscription is on its way or was shown.
PushedArrive ==
    sub = "done" =>
        \A n \in subscribed + 1 .. pushed : n \in stream \/ WasShown(reps[n])

\* What api read for the client is on its way or was shown.
ReadArrive ==
    open = "listed" =>
        \A x \in Obj \ toRead :
            /\ seen[x] \in 0 .. Len(reps)
            /\ \A n \in DOMAIN reps :
                  IsLastRep(n, x) /\ n <= seen[x] /\ n - 1 \notin cLost =>
                      reps[n] \in ToSet(opened) \/ WasShown(reps[n])

\* What the services and the client keep true between any two messages.
ViewInv ==
    /\ RepsInOrder
    /\ CacheHolds
    /\ PushedArrive
    /\ ReadArrive
=============================================================================
