------------------------------ MODULE UndoCache ------------------------------
(***************************************************************************)
(* The undo service.  In Redis every user of a file has a stack of undo    *)
(* events and one of redo events; an event is a list of entries, each the  *)
(* offset, object and kind of a change in the log.  A user begins an       *)
(* event; the consumer of the ObjectState topic puts the user's changes    *)
(* into the event it finds on top of the stack.  undo_latest reads the top *)
(* event, begins an event on the other stack and returns the inverse       *)
(* changes, which api hands to submit; when they come back through the     *)
(* log, the consumer moves the entries from the one event to the other.    *)
(*                                                                         *)
(* One file; objects refer to no others, so submit adds no dependents.  A  *)
(* client waits for the answer of a request before it makes the next.      *)
(***************************************************************************)
EXTENDS LogConsumer, SequencesExt

CONSTANTS
    User,
    Obj,
    Kind,       \* the kinds of change users submit themselves
    MaxEvents   \* bound: number of undo and redo events

Change == {"Add", "Modify", "Delete"}

ASSUME EventAssumption == Kind \subseteq Change /\ MaxEvents \in Nat

Side == {"undo", "redo"}
Other(side) == IF side = "undo" THEN "redo" ELSE "undo"

VARIABLES
    stack,    \* file:user:undo and file:user:redo, top last
    entries,  \* event -> its entries
    events,   \* the events generated so far are 1 .. events
    step,     \* the Redis write the consumer does next
    target,   \* the event it found on top of the stack it adds to
    call,     \* the state of each user's undo or redo request
    seen,     \* external: how far the objects service is known to be in the log
    refused,  \* history: offsets handle_message returned a NotFound for
    misread   \* history: an event was inverted from late answers

stackVars == <<stack, entries, events>>
taskVars == <<step, target>>
vars == <<consumerVars, stackVars, taskVars, call, seen, refused, misread>>

Event == 1 .. MaxEvents
NoEvent == 0
Absent == -1

\* A change message.  value identifies the state a change leaves the object
\* in: Absent, or the offset at which that state first appeared.  event is
\* the event named by an undo or redo; for a user's own change it is history:
\* the event on top of the undo stack when it was submitted.
Message == [user : User, obj : Obj, change : Change, source : {"user"} \cup Side,
            event : 0 .. MaxEvents, value : Absent .. MaxLog - 1]
Entry == [offset : Nat, obj : Obj, change : Change]

Steps == {"take", "drop", "top", "add"}
Idle == [pc |-> "idle"]
Top(s) == IF s = << >> THEN NoEvent ELSE Last(s)

Init ==
    /\ ConsumerInit
    /\ stack = [u \in User |-> [side \in Side |-> << >>]]
    /\ entries = [e \in Event |-> << >>]
    /\ events = 0
    /\ step = "take"
    /\ target = NoEvent
    /\ call = [u \in User |-> Idle]
    /\ seen = 0
    /\ refused = {}
    /\ misread = FALSE

\* A fresh event on top of a stack: begin_event.
PushEvent(u, side) ==
    /\ events < MaxEvents
    /\ events' = events + 1
    /\ stack' = [stack EXCEPT ![u][side] = Append(@, events + 1)]

-----------------------------------------------------------------------------
(* Users' own requests, and the objects service *)

Changed(o, kinds) ==
    \E k \in Offsets : MessageAt(k).obj = o /\ MessageAt(k).change \in kinds

\* An object is added under a fresh id; what a client modifies it has read at
\* some offset; what it deletes it has seen.
SubmitChange(u, o, c) ==
    /\ call[u].pc = "idle"
    /\ CASE c = "Add"    -> ~Changed(o, Change)
         [] c = "Modify" -> Changed(o, {"Add", "Modify"})
         [] c = "Delete" -> Changed(o, Change)
    /\ Produce([user |-> u, obj |-> o, change |-> c, source |-> "user",
                event |-> Top(stack[u]["undo"]),
                value |-> IF c = "Delete" THEN Absent ELSE Len(log)])
    /\ UNCHANGED <<stackVars, taskVars, call, seen, refused, misread>>

BeginUndoEvent(u) ==
    /\ call[u].pc = "idle"
    /\ PushEvent(u, "undo")
    /\ UNCHANGED <<consumerVars, entries, taskVars, call, seen, refused, misread>>

-----------------------------------------------------------------------------
(* The consumer: update_undo_cache *)

JoinGroup == Join /\ UNCHANGED <<stackVars, taskVars, call, seen, refused, misread>>

\* The entry of a user's own change is added to the top undo event; that of
\* an undone change is first taken out of the event the message names.
TakeMessage ==
    /\ Fetch
    /\ step' = IF Current.source = "user" THEN "top" ELSE "take"
    /\ UNCHANGED <<stackVars, target, call, seen, refused, misread>>

IsOfCurrent(entry) == entry.obj = Current.obj

\* LRANGE, then LREM of the first entry of the object.  Only the consumer
\* writes entries, so the two are one step.
TakeEntry ==
    /\ phase = "handling"
    /\ step = "take"
    /\ \E i \in DOMAIN entries[Current.event] : IsOfCurrent(entries[Current.event][i])
    /\ entries' = [entries EXCEPT ![Current.event] = RemoveFirstMatch(@, IsOfCurrent)]
    /\ step' = "drop"
    /\ UNCHANGED <<consumerVars, stack, events, target, call, seen, refused, misread>>

\* NoObjInUndoEvent: the error ends the handling of the message.
RefuseEntry ==
    /\ phase = "handling"
    /\ step = "take"
    /\ ~ \E i \in DOMAIN entries[Current.event] : IsOfCurrent(entries[Current.event][i])
    /\ refused' = refused \cup {position}
    /\ Handled
    /\ UNCHANGED <<stackVars, taskVars, call, seen, misread>>

\* Mutant: the event is dropped whatever its length.
DropEvent ==
    /\ phase = "handling"
    /\ step = "drop"
    /\ stack' = [stack EXCEPT ![Current.user][Current.source] = RemoveFirst(@, Current.event)]
    /\ step' = "top"
    /\ UNCHANGED <<consumerVars, entries, events, target, call, seen, refused, misread>>
\* LLEN, then LREM of the event from the stack; likewise one step.
DropEventIfEmpty ==
    /\ phase = "handling"
    /\ step = "drop"
    /\ stack' = IF entries[Current.event] = << >>
                THEN [stack EXCEPT ![Current.user][Current.source] =
                          RemoveFirst(@, Current.event)]
                ELSE stack
    /\ step' = "top"
    /\ UNCHANGED <<consumerVars, entries, events, target, call, seen, refused, misread>>

\* The stack whose top event gets the entry of a message.
Receiving(message) ==
    IF message.source = "user" THEN "undo" ELSE Other(message.source)

\* LINDEX -1.
FindTopEvent ==
    LET top == Top(stack[Current.user][Receiving(Current)])
    IN  /\ phase = "handling"
        /\ step = "top"
        /\ top # NoEvent
        /\ target' = top
        /\ step' = "add"
        /\ UNCHANGED <<consumerVars, stackVars, call, seen, refused, misread>>

\* NoUndoEvent.
RefuseMessage ==
    /\ phase = "handling"
    /\ step = "top"
    /\ stack[Current.user][Receiving(Current)] = << >>
    /\ refused' = refused \cup {position}
    /\ step' = "take"
    /\ Handled
    /\ UNCHANGED <<stackVars, target, call, seen, misread>>

AddEntry ==
    /\ phase = "handling"
    /\ step = "add"
    /\ entries' = [entries EXCEPT ![target] =
           Append(@, [offset |-> position, obj |-> Current.obj, change |-> Current.change])]
    /\ target' = NoEvent
    /\ step' = "take"
    /\ Handled
    /\ UNCHANGED <<stack, events, call, seen, refused, misread>>

DropMessage == ConnectFailure /\ UNCHANGED <<stackVars, taskVars, call, seen, refused, misread>>

\* Mutant: the next message starts where this one failed.
AbandonMessageHalfway ==
    /\ HandlerFailure
    /\ UNCHANGED <<stackVars, taskVars, call, seen, refused, misread>>
AbandonMessage ==
    /\ HandlerFailure
    /\ step' = "take"
    /\ target' = NoEvent
    /\ UNCHANGED <<stackVars, call, seen, refused, misread>>

\* A request dies with the service while it is there, not once its changes
\* are in the hands of api and submit.
CallsDie(pcs) ==
    call' = [u \in User |-> IF call[u].pc \in pcs THEN Idle ELSE call[u]]

CrashService ==
    /\ Crash
    /\ step' = "take"
    /\ target' = NoEvent
    /\ CallsDie({"read", "open", "fetch"})
    /\ UNCHANGED <<stackVars, seen, refused, misread>>

RestartRedis ==
    /\ RedisRestart
    /\ stack' = [u \in User |-> [side \in Side |-> << >>]]
    /\ entries' = [e \in Event |-> << >>]
    /\ step' = "take"
    /\ target' = NoEvent
    /\ CallsDie({"read", "open"})
    /\ UNCHANGED <<events, seen, refused, misread>>

-----------------------------------------------------------------------------
(* undo_latest and redo_latest, and what api does with the answer *)

\* LINDEX -1; a user with no event gets NoUndoEvent and nothing happens.
StartUndo(u, side) ==
    /\ call[u].pc = "idle"
    /\ stack[u][side] # << >>
    /\ call' = [call EXCEPT ![u] =
           [pc |-> "read", side |-> side, event |-> Top(stack[u][side]),
            list |-> << >>, changes |-> << >>, next |-> 0, late |-> {}]]
    /\ UNCHANGED <<consumerVars, stackVars, taskVars, seen, refused, misread>>

\* LRANGE.
ReadEntries(u) ==
    /\ call[u].pc = "read"
    /\ call' = [call EXCEPT ![u].list = entries[call[u].event], ![u].pc = "open"]
    /\ UNCHANGED <<consumerVars, stackVars, taskVars, seen, refused, misread>>

\* Mutant: begin_redo_event is forgotten.
OpenNoEvent(u) ==
    /\ call[u].pc = "open"
    /\ call' = [call EXCEPT ![u].pc = "fetch"]
    /\ UNCHANGED <<consumerVars, stackVars, taskVars, seen, refused, misread>>
\* begin_redo_event for an undo, begin_undo_event for a redo.
OpenEvent(u) ==
    /\ call[u].pc = "open"
    /\ PushEvent(u, Other(call[u].side))
    /\ call' = [call EXCEPT ![u].pc = "fetch"]
    /\ UNCHANGED <<consumerVars, entries, taskVars, seen, refused, misread>>

ChangesOf(o) == {k \in Offsets : MessageAt(k).obj = o}
Newest(S) == IF S = {} THEN Absent ELSE CHOOSE k \in S : \A j \in S : j <= k

\* Mutant: the object at the entry's own offset.
AtEntry(entry, known) ==
    Newest({k \in ChangesOf(entry.obj) : k <= entry.offset /\ k < known})
\* get_objects at the offset before the entry's, from an objects service that
\* has stored the log up to known: the offset of the change found.
Previous(entry, known) ==
    Newest({k \in ChangesOf(entry.obj) : k < entry.offset /\ k < known})

\* invert_changes_inner: the inverse of an entry, given the offset of the
\* change found before it.  What follows a Delete has none, unless it is an
\* Add: the code logs an error.
Removes(entry, prev) == prev = Absent \/ entry.change = "Add"
HasInverse(entry, prev) == Removes(entry, prev) \/ MessageAt(prev).change # "Delete"
InverseOf(entry, prev) ==
    [obj |-> entry.obj,
     change |-> IF Removes(entry, prev) THEN "Delete"
                ELSE IF entry.change = "Modify" THEN "Modify" ELSE "Add",
     value |-> IF Removes(entry, prev) THEN Absent ELSE MessageAt(prev).value]

\* submit keeps an IndexMap of the changes by object, in the order of the
\* first change of each: a later change of an object takes the place of an
\* earlier one.
IndexMap(changes) ==
    LET ofSame(i) == {j \in DOMAIN changes : changes[j].obj = changes[i].obj}
        firsts == {i \in DOMAIN changes : \A j \in ofSame(i) : i <= j}
    IN  [i \in firsts |-> changes[Newest(ofSame(i))]]

\* A push by the objects consumer hides a stored change from a racing read
\* (ReadFindsExisting of ObjectCache), so while there are changes of an object
\* to store, none may be found.
Racing(entry, known) == \E k \in ChangesOf(entry.obj) : k >= known

\* get_objects and invert_changes; no change is answered with an error.  The
\* objects service, which tails the log on its own, has got as far as known.
\* late is history: the entries that were read too early or missed.
InvertChanges(u) ==
    LET c == call[u]
        list == c.list
    IN  /\ c.pc = "fetch"
        /\ \E known \in seen .. Len(log) :
           \E missed \in SUBSET {i \in DOMAIN list : Racing(list[i], known)} :
              LET previous(i) == IF i \in missed THEN Absent ELSE Previous(list[i], known)
                  changes == IndexMap(
                      [i \in {j \in DOMAIN list : HasInverse(list[j], previous(j))} |->
                           InverseOf(list[i], previous(i))])
                  tooEarly == {i \in DOMAIN list : list[i].offset > known}
              IN  /\ seen' = known
                  /\ misread' = (misread \/ missed \cup tooEarly # {})
                  /\ call' = [call EXCEPT ![u] =
                         IF DOMAIN changes = {} THEN Idle
                         ELSE [c EXCEPT !.pc = "send", !.changes = changes,
                                        !.next = Min(DOMAIN changes),
                                        !.late = missed \cup tooEarly]]
        /\ UNCHANGED <<consumerVars, stackVars, taskVars, refused>>

\* submit's messages are appended one by one.
Send(u) ==
    LET c == call[u]
        change == c.changes[c.next]
        rest == {i \in DOMAIN c.changes : i > c.next}
    IN  /\ c.pc = "send"
        /\ Produce([user |-> u, obj |-> change.obj, change |-> change.change,
                    source |-> c.side, event |-> c.event, value |-> change.value])
        /\ call' = [call EXCEPT ![u] = IF rest = {} THEN Idle
                                       ELSE [c EXCEPT !.next = Min(rest)]]
        /\ UNCHANGED <<stackVars, taskVars, seen, refused, misread>>

\* A service the request needs does not answer.
FailCall(u) ==
    /\ call[u].pc # "idle"
    /\ Fault("call")
    /\ call' = [call EXCEPT ![u] = Idle]
    /\ UNCHANGED <<log, position, start, committed, phase, lost>>
    /\ UNCHANGED <<stackVars, taskVars, seen, refused, misread>>

-----------------------------------------------------------------------------
Consume ==
    \/ JoinGroup \/ TakeMessage \/ TakeEntry \/ RefuseEntry \/ DropEventIfEmpty
    \/ FindTopEvent \/ RefuseMessage \/ AddEntry

Disturb == DropMessage \/ AbandonMessage \/ CrashService \/ RestartRedis

Request(u) ==
    \/ \E o \in Obj, c \in Kind : SubmitChange(u, o, c)
    \/ BeginUndoEvent(u)
    \/ \E side \in Side : StartUndo(u, side)
    \/ ReadEntries(u) \/ OpenEvent(u) \/ InvertChanges(u) \/ Send(u) \/ FailCall(u)

Next == Consume \/ Disturb \/ \E u \in User : Request(u)

Spec == Init /\ [][Next]_vars

-----------------------------------------------------------------------------
(* Properties *)

Pending == [obj : Obj, change : Change, value : Absent .. MaxLog - 1]
CallOK(c) ==
    /\ c.pc \in {"read", "open", "fetch", "send"}
    /\ c.side \in Side
    /\ c.event \in 1 .. events
    /\ c.list \in Seq(Entry)
    /\ DOMAIN c.changes \subseteq DOMAIN c.list
    /\ \A i \in DOMAIN c.changes : c.changes[i] \in Pending
    /\ c.pc = "send" => c.next \in DOMAIN c.changes
    /\ c.late \subseteq DOMAIN c.list

\* Types; the consumer holds a target exactly between finding the top event
\* and adding to it, and is in the middle of a message only while handling.
TypeOK ==
    /\ ConsumerTypeOK
    /\ log \in Seq(Message)
    /\ stack \in [User -> [Side -> Seq(1 .. events)]]
    /\ entries \in [Event -> Seq(Entry)]
    /\ events \in 0 .. MaxEvents
    /\ step \in Steps
    /\ step # "take" => phase = "handling"
    /\ target \in 0 .. events
    /\ target # NoEvent <=> step = "add"
    /\ \A u \in User : call[u] = Idle \/ CallOK(call[u])
    /\ seen \in 0 .. Len(log)
    /\ refused \subseteq Offsets
    /\ misread \in BOOLEAN

\* Entry i of an event on a user's stack is a change of that user in the log,
\* and one that belongs on that stack.
Genuine(entry, u, side) ==
    /\ entry.offset \in Offsets
    /\ LET message == MessageAt(entry.offset)
       IN  /\ message.user = u
           /\ message.obj = entry.obj
           /\ message.change = entry.change
           /\ Receiving(message) = side

On(u, side, e) == \E i \in DOMAIN stack[u][side] : stack[u][side][i] = e

\* Through any crash, replay and failure: no event is on two stacks or twice
\* on one, the entries of an event on a stack are changes of the stack's
\* user (their own or redone ones to undo, undone ones to redo), and an event
\* that is on no stack has no entries left that nobody can reach
\* (move_entry_between_stacks against undo, redo and begin_undo_event).
EventsSound ==
    /\ \A u \in User, side \in Side :
           LET pile == stack[u][side]
           IN  /\ \A i \in DOMAIN pile :
                     \A k \in DOMAIN entries[pile[i]] :
                         Genuine(entries[pile[i]][k], u, side)
               /\ \A i, j \in DOMAIN pile : i # j => pile[i] # pile[j]
               /\ \A i \in DOMAIN pile, v \in User, other \in Side :
                      On(v, other, pile[i]) => v = u /\ other = side
    /\ \A e \in 1 .. events :
           entries[e] # << >> => \E u \in User, side \in Side : On(u, side, e)

\* The entries of a user's changes of an object.
EntriesOf(u, o) ==
    UNION {{<<e, i>> : i \in {j \in DOMAIN entries[e] :
                                  /\ entries[e][j].obj = o
                                  /\ MessageAt(entries[e][j].offset).user = u}}
               : e \in 1 .. events}

OwnChanges(u, o) ==
    {k \in 0 .. position - 1 : /\ MessageAt(k).user = u
                               /\ MessageAt(k).obj = o
                               /\ MessageAt(k).source = "user"}

\* 1 while the consumer holds the entry it took out of an event.
InHand(u, o) ==
    IF /\ phase = "handling" /\ step \in {"drop", "top", "add"}
       /\ Current.user = u /\ Current.obj = o /\ Current.source # "user"
    THEN 1 ELSE 0

\* Without a fault in the service, every change of a user that found an event
\* is in exactly one event, however often it has been undone and redone, by
\* requests that overtake the consumer as well: undo can neither lose
\* it nor have it twice.
UndoConserved ==
    faults = 0 =>
        \A u \in User, o \in Obj :
            Cardinality(EntriesOf(u, o)) + InHand(u, o)
                = Cardinality(OwnChanges(u, o) \ (refused \cup lost))

\* The state of an object just before offset k.
StateBefore(o, k) ==
    LET prev == Newest({j \in ChangesOf(o) : j < k})
    IN  IF prev = Absent THEN Absent ELSE MessageAt(prev).value

\* What an object should be after entry is undone.
Undone(entry) ==
    IF entry.change = "Add" THEN Absent ELSE StateBefore(entry.obj, entry.offset)

\* The changes c submits leave the object of entry as it was before the entry.
Restores(c, entry) ==
    LET sent == {i \in DOMAIN c.changes : c.changes[i].obj = entry.obj}
    IN  IF sent = {} THEN Undone(entry) = Absent
        ELSE \A i \in sent : c.changes[i].value = Undone(entry)

Sole(list, i) == \A j \in DOMAIN list : list[j].obj = list[i].obj => j = i

\* An undo or redo submits for each object the state it had before the change
\* undone, if the event holds one change of the object and the objects
\* service had stored what came before it and was not storing another:
\* however the stacks, entries and messages interleave.
UndoRestores ==
    \A u \in User : call[u].pc = "send" =>
        \A i \in DOMAIN call[u].list \ call[u].late :
            Sole(call[u].list, i) => Restores(call[u], call[u].list[i])

\* "Then it undoes ... the delete, then undoes the move" (README.md:48), both
\* in one event: when nothing is left to undo, every object of a sole user is
\* as before the first change, if nothing was refused and each service had
\* what it needed in time.  Violated: of an event's changes of one object only
\* the last is submitted, which restores the middle of the event.
UndoneAllTheWay ==
    \A u \in User :
        /\ User = {u}
        /\ stack[u]["undo"] = << >>
        /\ call[u].pc = "idle"
        /\ faults = 0 /\ lost = {} /\ refused = {} /\ ~misread
        /\ \A k \in Offsets : MessageAt(k).event # NoEvent
        /\ phase = "polling" /\ position = Len(log)
        => \A o \in Obj : StateBefore(o, Len(log)) = Absent
=============================================================================
