-------------------------------- MODULE Submit --------------------------------
(***************************************************************************)
(* Requests of clients, from the api to the log.  A request names an       *)
(* offset: api reads the objects as of it and has operations change them;  *)
(* submit asks the dependencies service what refers to their pieces, reads *)
(* those objects, lets them follow, and sends the whole batch to Kafka,    *)
(* change by change.  Nothing is locked, and nothing is compared with the  *)
(* log when the batch is sent.                                             *)
(*                                                                         *)
(* The objects and the dependencies service are used by what they promise  *)
(* (ObjectCache, DependencyCache): the log as of an offset, as far as each *)
(* has stored it.  They may be behind, but what they have they keep: that  *)
(* one of them skips a message or loses its Redis is not among the faults  *)
(* here.  A message sent again takes the place of the first one, which did *)
(* not arrive; it is never in the log twice.                               *)
(* The objects are walls, sheets and viewports of a file.                  *)
(***************************************************************************)
EXTENDS Operations

CONSTANTS
    Client,       \* whoever calls api
    Walls,        \* the ids of the walls created
    Existing,     \* the walls a file is opened with, a sequence
    Segment(_),   \* the ends a wall is created with
    Delta,        \* how far objects are moved
    Sheets,       \* the ids of the sheets created
    Viewports,    \* the ids of the viewports created
    Selections,   \* the lists of objects that are created, moved or deleted
    Guesses,      \* the points walls are joined at
    Faults,       \* the kinds of faults that may happen
    MaxRequests,  \* bound: requests
    MaxFaults     \* bound: faults

Obj == Walls \cup Sheets \cup Viewports

\* The pieces that references name.
Piece == [id : Obj, ref_type : RefType, index : 1 .. 2]

\* None is no value that an Option holds, and no wall or change of a wall.
ASSUME SubmitAssumption ==
    /\ Walls \cap Sheets = {} /\ Walls \cap Viewports = {} /\ Sheets \cap Viewports = {}
    /\ None \notin Obj /\ NoneIsApart(Piece)
    /\ LET walls == [kind : {"Wall"}, id : Walls, openings : {<< >>},
                     pts : [1 .. 2 -> [refer : Slot(Piece), info : PointResults]]]
       IN  None \notin walls \cup [change : {"Add", "Modify"}, id : Walls, obj : walls]
    /\ Existing \in Seq(Walls)
    /\ \A w \in Walls : Segment(w) \in Int \X Int
    /\ Delta \subseteq Int /\ Guesses \subseteq Int
    /\ Selections \subseteq Seq(Obj)
    /\ \A ids \in Selections \cup {Existing} : IsInjective(ids)
    /\ Faults \subseteq {"behind", "undelivered", "retried"}
    /\ MaxRequests \in Nat /\ MaxFaults \in Nat

VARIABLES
    log,       \* the topic's partition: a sequence of [change, id, obj]
    stored,    \* how many messages the objects service is known to have stored
    known,     \* how many messages the dependencies service has
    req,       \* the request of each client, or its last one
    requests,  \* number of requests made
    faults,    \* number of faults
    disturbed, \* history: the objects written by a request that was disturbed
    crossed,   \* history: the objects written beside what they refer to
    split      \* history: the offsets that have a part of some batch only

vars == <<log, stored, known, req, requests, faults, disturbed, crossed, split>>

Change(kind, x, obj) == [change |-> kind, id |-> x, obj |-> obj]
Kinds == {"Add", "Modify", "Delete"}

MessageAt(k) == log[k + 1]
Newest == Len(log) - 1
IdsOf(changes) == {changes[n].id : n \in DOMAIN changes}

-----------------------------------------------------------------------------
(* What the caching services answer *)

\* The part of the log a service answers from at offset o when it has n
\* messages.
AsOf(o, n) == SubSeq(log, 1, IF o < n THEN o + 1 ELSE n)

\* Mutant: a Delete is passed over.
GetObjectEvenDeleted(x, o, n) ==
    LET changes == AsOf(o, n)
        mine == {k \in DOMAIN changes : changes[k].id = x /\ changes[k].change # "Delete"}
    IN  IF mine = {} THEN None ELSE changes[Max(mine)]
\* get_object: the last change of x; None if there is none.
GetObject(x, o, n) ==
    LET changes == AsOf(o, n)
        mine == {k \in DOMAIN changes : changes[k].id = x}
    IN  IF mine = {} THEN None ELSE changes[Max(mine)]

\* Whether the last change of x leaves it an object.
IsObject(change) == IF change = None THEN FALSE ELSE change.change # "Delete"

\* update_deps, by references instead of subscriber sets: a slot that has a
\* reference adds it, a slot that lost one deletes it, and an Add does not
\* look at what was there.
Some(refs) == {i \in DOMAIN refs : refs[i] # None}
UpdateDeps(deps, change) ==
    LET old == IF change.id \in DOMAIN deps.lists THEN deps.lists[change.id] ELSE << >>
        new == IF change.change = "Delete" THEN [i \in DOMAIN old |-> None]
                                           ELSE GetRefs(change.obj)
        gone == IF change.change = "Add" THEN {}
                ELSE {old[i] : i \in {j \in Some(old) : j \notin Some(new)}}
    IN  [lists |-> [x \in DOMAIN deps.lists \cup {change.id} |->
                       IF x = change.id THEN new ELSE deps.lists[x]],
         refs |-> (deps.refs \cup {new[i] : i \in Some(new)}) \ gone]

\* The references that subscriptions stand for at offset o.
Dependencies(o, n) ==
    LET changes == AsOf(o, n)
        after[k \in 0 .. Len(changes)] ==
            IF k = 0 THEN [lists |-> << >>, refs |-> {}]
            ELSE UpdateDeps(after[k - 1], changes[k])
    IN  after[Len(changes)].refs

Fault(kind) ==
    /\ kind \in Faults
    /\ faults < MaxFaults
    /\ faults' = faults + 1

\* A service that is asked for offset o when it had at least so many messages
\* before has n: all that are needed, or it is behind, which is a fault.  It
\* never goes back.
Reads(least, o, n) ==
    \/ n = Max({least, o + 1}) /\ UNCHANGED faults
    \/ n <= o /\ Fault("behind")
Skips(least, n) == n = least /\ UNCHANGED faults

-----------------------------------------------------------------------------
(* The requests *)

Idle == [pc |-> "idle", offset |-> -1, changes |-> << >>, refs |-> << >>,
         batch |-> << >>, unsent |-> {}, at |-> << >>, answer |-> -1, stale |-> FALSE]

Ready(c) == req[c].pc \in {"idle", "answered"}

\* A request names the offset of the client's last answer, or the newest.
OffsetsOf(c) == {req[c].answer, Newest} \ {-1}

NewWall(w) == Change("Add", w, W!New(w, Segment(w)[1], Segment(w)[2]))

Init ==
    /\ log = [n \in DOMAIN Existing |-> NewWall(Existing[n])]
    /\ stored = Len(log)
    /\ known = Len(log)
    /\ req = [c \in Client |-> Idle]
    /\ requests = 0
    /\ faults = 0
    /\ disturbed = {}
    /\ crossed = {}
    /\ split = {}

\* History: the offset has a part of another request's batch only.
InSplit(o) ==
    \/ o \in split
    \/ \E d \in Client :
          /\ req[d].pc = "sending"
          /\ req[d].unsent # {}
          /\ \E k \in Range(req[d].at) : k # -1 /\ k <= o

\* What api passes to submit; a request without changes is answered with an
\* error.  stale, which is history, says that it was not made from the state
\* at its offset: a service had not stored the log so far when it was read, or
\* that state is a part of a batch.
Begin(c, o, stale, changes) ==
    /\ changes # << >>
    /\ requests' = requests + 1
    /\ req' = [req EXCEPT ![c] =
           [Idle EXCEPT !.pc = "changed", !.offset = o, !.changes = changes,
                        !.answer = req[c].answer, !.stale = stale \/ InSplit(o)]]
    /\ UNCHANGED <<log, known, disturbed, crossed, split>>

IsNew(x) == x \notin IdsOf(log) \cup UNION {IdsOf(req[d].changes \o req[d].batch) : d \in Client}

\* A created object gets a new id; the offset named is of no use.
Create(c, changes) ==
    /\ \A n \in DOMAIN changes : IsNew(changes[n].id)
    /\ Begin(c, Newest, FALSE, changes)
    /\ UNCHANGED <<stored, faults>>

CreateWalls(c, ids) ==
    /\ ids \in Seq(Walls)
    /\ Create(c, [n \in DOMAIN ids |-> NewWall(ids[n])])
CreateSheet(c, x) == Create(c, <<Change("Add", x, P!New(x))>>)
\* The sheet is not looked at: it may be deleted.
CreateViewport(c, x, sheet) ==
    /\ sheet \in IdsOf(log)
    /\ Create(c, <<Change("Add", x, V!New(x, sheet))>>)

Increasing(at) == \A m, n \in DOMAIN at : m < n => at[m] < at[n]
\* The members of a set of numbers in order; the set has this one member.
Ordered(I) == {kept \in [1 .. Cardinality(I) -> I] : Increasing(kept)}

\* Objects that are missing or deleted are skipped.
MoveObjects(c, ids, delta, o) ==
    \E n \in stored .. Len(log) :
        LET Is(w) == IsObject(GetObject(w, o, n))
            Moved(w) == Change("Modify", w, MoveObj(GetObject(w, o, n).obj, delta))
        IN  /\ \E kept \in Ordered({i \in DOMAIN ids : Is(ids[i])}) :
                   Begin(c, o, n <= o, [i \in DOMAIN kept |-> Moved(ids[kept[i]])])
            /\ Reads(stored, o, n)
            /\ stored' = n

\* Both walls must be there.
JoinObjectsAtPoint(c, x, y, guess, o) ==
    \E n \in stored .. Len(log) :
        LET first == GetObject(x, o, n)
            second == GetObject(y, o, n)
            joined == JoinRefs(first.obj, second.obj, "ProfilePoint", "ProfilePoint", guess)
        IN  /\ IsObject(first) /\ IsObject(second)
            /\ joined # None
            /\ Begin(c, o, n <= o, <<Change("Modify", x, joined[1]), Change("Modify", y, joined[2])>>)
            /\ Reads(stored, o, n)
            /\ stored' = n

DeleteObjects(c, ids, o) ==
    /\ Begin(c, o, FALSE, [n \in DOMAIN ids |-> Change("Delete", ids[n], None)])
    /\ UNCHANGED <<stored, faults>>

\* The undo service inverts the changes of the client's last request, with the
\* objects as they were before each; what was deleted before is dropped.
UndoLatest(c, o) ==
    \E n \in stored .. Len(log) :
        LET call == req[c]
            Before(i) == GetObject(call.batch[i].id, call.at[i] - 1, n)
            Inverted(i) ==
                LET x == call.batch[i].id
                    kind == call.batch[i].change
                IN  IF Before(i) = None \/ kind = "Add" THEN Change("Delete", x, None)
                    ELSE Change(IF kind = "Delete" THEN "Add" ELSE "Modify", x, Before(i).obj)
            IsKept(i) ==
                \/ Before(i) = None \/ call.batch[i].change = "Add"
                \/ Before(i).change # "Delete"
            IsOld(i) == \E k \in call.at[i] + 1 .. o : MessageAt(k).id = call.batch[i].id
            old == \E i \in DOMAIN call.at : IsOld(i)
        IN  /\ call.pc = "answered"
            /\ \E kept \in Ordered({i \in DOMAIN call.batch : IsKept(i)}) :
                   Begin(c, o, n <= o \/ old, [i \in DOMAIN kept |-> Inverted(kept[i])])
            /\ Reads(stored, o, n)
            /\ stored' = n

-----------------------------------------------------------------------------
(* The submit service *)

\* Mutant: only the line of a wall is looked at.
ExtractInfoOfLines(changes) ==
    [n \in DOMAIN changes |-> RefID(changes[n].id, "ProfileLine", 1)]
\* The pieces of the changed objects that refer to something.
ExtractInfo(changes) ==
    LET Owners(change) ==
            IF change.change = "Delete" THEN << >>
            ELSE LET refs == Subsequence(GetRefs(change.obj), Some(GetRefs(change.obj)))
                 IN  [n \in DOMAIN refs |-> refs[n].owner]
        of[n \in 0 .. Len(changes)] ==
            IF n = 0 THEN << >> ELSE of[n - 1] \o Owners(changes[n])
    IN  of[Len(changes)]

GetAllDependencies(c) ==
    \E n \in known .. Len(log) :
        LET call == req[c]
            starts == ExtractInfo(call.changes)
        IN  /\ call.pc = "changed"
            /\ \E refs \in GetAllDeps(Dependencies(call.offset, n), starts) :
                   req' = [req EXCEPT ![c].pc = "found", ![c].refs = refs,
                                      ![c].stale = @ \/ (starts # << >> /\ n <= call.offset)]
            /\ IF starts = << >> THEN Skips(known, n) ELSE Reads(known, call.offset, n)
            /\ known' = n
            /\ UNCHANGED <<log, stored, requests, disturbed, crossed, split>>

\* Mutant: whatever the references name.
GetAllObjIds(call) == UNION {{ref.owner.id, ref.other.id} : ref \in Range(call.refs)}
\* The objects in the references that are not in the request already.
GetObjIdsToFetch(call) ==
    (UNION {{ref.owner.id, ref.other.id} : ref \in Range(call.refs)}) \ IdsOf(call.changes)

\* update_objects in the operations service: every object follows what it
\* refers to; a change keeps its kind, and an object that was deleted is
\* deleted again.
UpdateObjects(changes, refs) ==
    LET objs == [x \in IdsOf(changes) |->
                     changes[CHOOSE n \in DOMAIN changes : changes[n].id = x].obj]
        updated == UpdateAll(objs, refs)
    IN  [n \in DOMAIN changes |-> [changes[n] EXCEPT !.obj = updated[changes[n].id]]]

\* get_objects_to_update and update; what is fetched comes in any order.
UpdateChanges(c) ==
    \E n \in stored .. Len(log) :
        LET call == req[c]
            Found(x) == GetObject(x, call.offset, n)
            wanted == GetObjIdsToFetch(call)
            ids == {x \in wanted : Found(x) # None}
        IN  /\ call.pc = "found"
            /\ \E order \in SetToSeqs(ids) :
                   LET fetched == [i \in DOMAIN order |-> Found(order[i])]
                       batch == UpdateObjects(call.changes \o fetched, call.refs)
                   IN  req' = [req EXCEPT
                           ![c].pc = "sending", ![c].changes = << >>, ![c].refs = << >>,
                           ![c].batch = batch, ![c].unsent = DOMAIN batch,
                           ![c].at = [i \in DOMAIN batch |-> -1],
                           ![c].stale = @ \/ (wanted # {} /\ n <= call.offset)]
            /\ IF wanted = {} THEN Skips(stored, n) ELSE Reads(stored, call.offset, n)
            /\ stored' = n
            /\ UNCHANGED <<log, known, requests, disturbed, crossed, split>>

\* History: since the request's offset, another one wrote an object that its
\* i-th change refers to.
Crosses(call, i) ==
    LET change == call.batch[i]
        referred == IF change.change = "Delete" THEN {}
                    ELSE {GetRefs(change.obj)[n].other.id : n \in Some(GetRefs(change.obj))}
    IN  \E k \in call.offset + 1 .. Newest : MessageAt(k).id \in referred \ IdsOf(call.batch)

Deliver(c, i) ==
    /\ log' = Append(log, req[c].batch[i])
    /\ req' = [req EXCEPT ![c].unsent = @ \ {i}, ![c].at[i] = Len(log)]
    /\ crossed' = IF Crosses(req[c], i) THEN crossed \cup {req[c].batch[i].id} ELSE crossed
    /\ split' = split \cup UNION {k .. Newest : k \in Range(req[c].at) \ {-1}}
    /\ UNCHANGED <<stored, known, requests, disturbed>>

\* The messages of a batch are sent in order, without waiting for each other.
Send(c) ==
    /\ req[c].pc = "sending"
    /\ req[c].unsent # {}
    /\ Deliver(c, Min(req[c].unsent))
    /\ UNCHANGED faults

\* A message that is sent again arrives after the next one.
SendAgain(c) ==
    /\ req[c].pc = "sending"
    /\ Cardinality(req[c].unsent) > 1
    /\ Fault("retried")
    /\ Deliver(c, Min(req[c].unsent \ {Min(req[c].unsent)}))

\* A message is not delivered; those after it may be.
Undelivered(c) ==
    /\ req[c].pc = "sending"
    /\ req[c].unsent # {}
    /\ Fault("undelivered")
    /\ req' = [req EXCEPT ![c].unsent = @ \ {Min(@)}]
    /\ UNCHANGED <<log, stored, known, requests, disturbed, crossed, split>>

\* History: a request is disturbed if it was stale, a message was not delivered,
\* or another request wrote one of its walls since its offset.
IsDisturbed(call) ==
    \/ call.stale
    \/ \E i \in DOMAIN call.batch :
          \/ call.at[i] = -1
          \/ \E k \in call.offset + 1 .. call.at[i] - 1 : MessageAt(k).id = call.batch[i].id

Finish(c, call) ==
    /\ req[c].pc = "sending"
    /\ req[c].unsent = {}
    /\ req' = [req EXCEPT ![c] = call]
    /\ disturbed' = IF IsDisturbed(req[c]) THEN disturbed \cup IdsOf(req[c].batch) ELSE disturbed
    /\ UNCHANGED <<log, stored, known, requests, faults, crossed, split>>

Answered(call, offset) ==
    [Idle EXCEPT !.pc = "answered", !.batch = call.batch, !.at = call.at, !.answer = offset]
\* api answers with the offset of the last message of the batch.
Answer(c) ==
    /\ \A i \in DOMAIN req[c].at : req[c].at[i] # -1
    /\ Finish(c, Answered(req[c], Last(req[c].at)))

\* A delivery failed: the handler panics, and the client gets an error.
Panic(c) ==
    /\ \E i \in DOMAIN req[c].at : req[c].at[i] = -1
    /\ Finish(c, [Idle EXCEPT !.answer = req[c].answer])

-----------------------------------------------------------------------------
Request(c) ==
    /\ Ready(c)
    /\ requests < MaxRequests
    /\ \/ \E ids \in Selections : CreateWalls(c, ids)
       \/ \E x \in Sheets : CreateSheet(c, x) \/ \E v \in Viewports : CreateViewport(c, v, x)
       \/ \E o \in OffsetsOf(c) :
             \/ \E ids \in {list \in Selections : Range(list) \subseteq IdsOf(log)} :
                   DeleteObjects(c, ids, o) \/ \E delta \in Delta : MoveObjects(c, ids, delta, o)
             \/ \E x, y \in IdsOf(log) \cap Walls, guess \in Guesses :
                   x # y /\ JoinObjectsAtPoint(c, x, y, guess, o)
             \/ UndoLatest(c, o)

Serve(c) == GetAllDependencies(c) \/ UpdateChanges(c) \/ Send(c) \/ Answer(c)

Disturb(c) == SendAgain(c) \/ Undelivered(c) \/ Panic(c)

Next == \E c \in Client : Request(c) \/ Serve(c) \/ Disturb(c)

Spec == Init /\ [][Next]_vars
-----------------------------------------------------------------------------
(* Properties *)

IsWall(obj, w) ==
    /\ obj.kind = "Wall" /\ obj.id = w
    /\ \A i \in 1 .. 2 :
          /\ obj.pts[i].info.kind = "Point" /\ obj.pts[i].info.at \in Int
          /\ obj.pts[i].refer # None =>
                 /\ obj.pts[i].refer.id \in Walls \ {w}
                 /\ obj.pts[i].refer.ref_type = "ProfilePoint"
                 /\ obj.pts[i].refer.index \in 1 .. 2
IsObjectOf(obj, x) ==
    \/ x \in Walls /\ IsWall(obj, x)
    \/ x \in Sheets /\ obj = P!New(x)
    \/ x \in Viewports /\ \E sheet \in Sheets : obj = V!New(x, sheet)
IsMessage(m) ==
    /\ m.change \in Kinds
    /\ m.id \in Obj
    /\ IF m.change = "Delete" THEN m.obj = None ELSE IsObjectOf(m.obj, m.id)

\* Types; a batch has one change of an object, and it is in the log where its
\* delivery says.
TypeOK ==
    /\ \A n \in DOMAIN log : IsMessage(log[n])
    /\ stored \in 0 .. Len(log) /\ known \in 0 .. Len(log)
    /\ requests \in 0 .. MaxRequests /\ faults \in 0 .. MaxFaults
    /\ disturbed \cup crossed \subseteq Obj
    /\ \A c \in Client :
          LET call == req[c]
          IN  /\ call.pc \in {"idle", "changed", "found", "sending", "answered"}
              /\ call.offset \in -1 .. Newest /\ call.answer \in -1 .. Newest
              /\ \A n \in DOMAIN call.changes : IsMessage(call.changes[n])
              /\ DOMAIN call.at = DOMAIN call.batch
              /\ \A m, n \in DOMAIN call.batch : call.batch[m].id = call.batch[n].id => m = n
              /\ \A n \in DOMAIN call.batch :
                    \/ call.at[n] = -1
                    \/ call.at[n] \in 0 .. Newest /\ MessageAt(call.at[n]) = call.batch[n]

InFlight == UNION {IdsOf(req[c].batch) : c \in {d \in Client : req[d].pc = "sending"}}
Settled == Obj \ (disturbed \cup InFlight)
Latest(w) == GetObject(w, Newest, Len(log))
Live == {w \in Settled : IsObject(Latest(w))}

\* Two ends that are joined to each other, and to nothing else as far as the
\* dependencies service knows, are at one place, whatever was moved, joined,
\* deleted and undone by whom, unless one of the walls was written by a
\* disturbed request or beside the other one, or a batch with it is being sent.
JoinedEndsAgree ==
    LET deps == Dependencies(Newest, Len(log))
        Only(owner, other) == \A ref \in deps : ref.owner = owner => ref.other = other
    IN  \A w, v \in (Live \cap Walls) \ crossed : \A i, j \in 1 .. 2 :
            LET end == Latest(w).obj.pts[i]
                other == Latest(v).obj.pts[j]
                p == RefID(w, "ProfilePoint", i)
                q == RefID(v, "ProfilePoint", j)
            IN  end.refer = q /\ other.refer = p /\ Only(p, q) /\ Only(q, p)
                => end.info = other.info

\* An object that was deleted is not modified any more unless a request was
\* disturbed: objects that follow are submitted as what they last were.
DeletedStaysDeleted ==
    \A w \in Settled : \A j \in 0 .. Newest :
        MessageAt(j) = Change("Delete", w, None) =>
            \A k \in j + 1 .. Newest :
                MessageAt(k).id = w /\ MessageAt(k).change = "Modify" =>
                    \E i \in j + 1 .. k - 1 : MessageAt(i).id = w /\ MessageAt(i).change = "Add"
=============================================================================
