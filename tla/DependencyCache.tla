--------------------------- MODULE DependencyCache ---------------------------
(***************************************************************************)
(* The dependencies service: which references depend on a reference, at    *)
(* any offset.  For every RefID a list in Redis holds versions of the set  *)
(* of RefIDs subscribed to it, newest first; for every object the          *)
(* references it last had.  The consumer compares an object's references   *)
(* with the last ones and pushes a new version of every set that changes.  *)
(* A request searches the sets of an offset breadth first.                 *)
(*                                                                         *)
(* Redis commands are atomic.  Only the consumer writes, so what it reads  *)
(* before its first write is one step with it.                             *)
(***************************************************************************)
EXTENDS LogConsumer, SequencesExt

CONSTANTS
    Obj,          \* object ids
    Piece,        \* what of an object a RefID names: a RefType and an index
    NoRef,        \* an OptionReferenceMsg without a reference
    RefLists(_),  \* the lists of references an object is submitted with
    Searched,     \* the RefIDs that are searched from
    Searcher      \* gRPC tasks that call get_all_dependencies

RefID == Obj \X Piece
Reference == [owner : RefID, other : RefID]

\* "Other" is a message that changes nothing here: undecodable, without a
\* change type or without dependencies.
Update == {"Add", "Modify"}
Message ==
    (UNION {[id : {x}, change : Update, refs : RefLists(x)] : x \in Obj})
        \cup [id : Obj, change : {"Delete", "Other"}, refs : {<< >>}]

Some(refs) == {i \in DOMAIN refs : refs[i] # NoRef}

\* There are finitely many RefIDs.  An object owns its references, and a pair
\* of RefIDs is in one slot of all its lists: each is named by the type and
\* index of what refers.
ASSUME ReferenceAssumption ==
    /\ NoRef \notin Reference
    /\ IsFiniteSet(RefID)
    /\ Searched \subseteq RefID
    /\ \A x \in Obj : \A a, b \in RefLists(x) :
          /\ a \in Seq(Reference \cup {NoRef})
          /\ \A i \in Some(a) : /\ a[i].owner[1] = x
                               /\ \A j \in Some(b) : a[i] = b[j] => i = j

VARIABLES
    objRefs,   \* file:obj:deps -> the object's last references, where known
    subs,      \* file:RefID:subs -> list of [offset, subs], head first
    changed,   \* the new sets update_deps has still to push
    search     \* the state of each get_all_deps call

redisVars == <<objRefs, subs>>
vars == <<consumerVars, redisVars, changed, search>>

Nothing == [r \in {} |-> {}]  \* the empty map
Idle == [pc |-> "idle"]
InProgress == {"pop", "scan"}

\* What is left of a call when it returns.
Answer(outcome, call) ==
    [call EXCEPT !.pc = outcome, !.processing = << >>, !.visited = {},
                 !.current = call.from, !.len = 0, !.next = 0,
                 !.result = IF outcome = "done" THEN @ ELSE << >>]

Entry == [offset : Nat, subs : SUBSET RefID]

FirstHit(list, o, i) ==
    /\ i \in DOMAIN list
    /\ list[i].offset <= o
    /\ \A j \in 1 .. i - 1 : list[j].offset > o

\* get_ref_id_subs when nothing is pushed meanwhile.
SubsAt(r, o) ==
    IF \E i \in DOMAIN subs[r] : subs[r][i].offset <= o
    THEN subs[r][CHOOSE i \in DOMAIN subs[r] : FirstHit(subs[r], o, i)].subs
    ELSE {}

Init ==
    /\ ConsumerInit
    /\ objRefs = Nothing
    /\ subs = [r \in RefID |-> << >>]
    /\ changed = Nothing
    /\ search = [s \in Searcher |-> Idle]

-----------------------------------------------------------------------------
(* Differences between an object's references and its last ones *)

IsSet(refs, i) == i \in DOMAIN refs /\ refs[i] # NoRef

\* get_ref_diffs, slot by slot: a slot with a reference adds or modifies it,
\* a slot that lost its reference deletes the old one.
Added(new) == {new[i] : i \in Some(new)}
\* Mutant: the slots beyond the shorter list are forgotten.
DeletedInBoth(new, old) == {old[i] : i \in {j \in Some(old) \cap DOMAIN new : ~IsSet(new, j)}}
Deleted(new, old) == {old[i] : i \in {j \in Some(old) : ~IsSet(new, j)}}

OwnersOf(refs, r) == {ref.owner : ref \in {q \in refs : q.other = r}}

\* Mutant: the newest set, whatever its offset.
ChangedLatest(new, old, o) ==
    LET touched == {ref.other : ref \in Added(new) \cup Deleted(new, old)}
    IN  [r \in touched |->
            (SubsAt(r, MaxLog) \cup OwnersOf(Added(new), r)) \ OwnersOf(Deleted(new, old), r)]
\* populate_changed_subs for all the differences: the sets of the RefIDs they
\* point to, as of this offset, with the owners put in or taken out.
ChangedSubs(new, old, o) ==
    LET touched == {ref.other : ref \in Added(new) \cup Deleted(new, old)}
    IN  [r \in touched |->
            (SubsAt(r, o) \cup OwnersOf(Added(new), r)) \ OwnersOf(Deleted(new, old), r)]

\* add_deps does not look at the last references; delete_deps stores as many
\* empty slots as there were.
NewRefs(m) ==
    IF m.change = "Delete" THEN [i \in DOMAIN objRefs[m.id] |-> NoRef] ELSE m.refs
OldRefs(m) ==
    IF m.change = "Add" \/ m.id \notin DOMAIN objRefs THEN << >> ELSE objRefs[m.id]

-----------------------------------------------------------------------------
(* The consumer task *)

Submit(message) == Produce(message) /\ UNCHANGED <<redisVars, changed, search>>

\* A search in progress sees what a replay pushes: asked, which is history, is
\* the lowest position of the consumer since the search began.
JoinGroup ==
    /\ Join
    /\ search' = [s \in Searcher |->
           IF search[s].pc # "idle" /\ position' < search[s].asked
           THEN [search[s] EXCEPT !.asked = position'] ELSE search[s]]
    /\ UNCHANGED <<redisVars, changed>>

TakeMessage == Fetch /\ UNCHANGED <<redisVars, changed, search>>

\* Nothing to store: no dependencies, or a Delete of an unknown object.
Ignored(m) ==
    m.change = "Other" \/ (m.change = "Delete" /\ m.id \notin DOMAIN objRefs)

PassOver ==
    /\ phase = "handling"
    /\ changed = Nothing
    /\ Ignored(Current)
    /\ Handled
    /\ UNCHANGED <<redisVars, changed, search>>

\* The object's references are stored first; the handler is done if no set
\* changes.
StoreObjRefs ==
    /\ phase = "handling"
    /\ changed = Nothing
    /\ ~Ignored(Current)
    /\ objRefs' = [x \in DOMAIN objRefs \cup {Current.id} |->
           IF x = Current.id THEN NewRefs(Current) ELSE objRefs[x]]
    /\ changed' = ChangedSubs(NewRefs(Current), OldRefs(Current), position)
    /\ IF changed' = Nothing THEN Handled ELSE UNCHANGED consumerVars
    /\ UNCHANGED <<subs, search>>

\* Then the sets that changed are pushed, in the order of a hash map.
PushSubs ==
    \E r \in DOMAIN changed :
        /\ phase = "handling"
        /\ subs' = [subs EXCEPT ![r] = <<[offset |-> position, subs |-> changed[r]]>> \o @]
        /\ changed' = [q \in DOMAIN changed \ {r} |-> changed[q]]
        /\ IF changed' = Nothing THEN Handled ELSE UNCHANGED consumerVars
        /\ UNCHANGED <<objRefs, search>>

DropMessage == ConnectFailure /\ UNCHANGED <<redisVars, changed, search>>

AbandonMessage ==
    /\ HandlerFailure
    /\ changed' = Nothing
    /\ UNCHANGED <<redisVars, search>>

CrashService ==
    /\ Crash
    /\ changed' = Nothing
    /\ search' = [s \in Searcher |-> Idle]
    /\ UNCHANGED redisVars

\* Mutant: searches in progress reconnect and go on.
RestartRedisUnnoticed ==
    /\ RedisRestart
    /\ objRefs' = Nothing
    /\ subs' = [r \in RefID |-> << >>]
    /\ changed' = Nothing
    /\ UNCHANGED search
RestartRedis ==
    /\ RedisRestart
    /\ objRefs' = Nothing
    /\ subs' = [r \in RefID |-> << >>]
    /\ changed' = Nothing
    /\ search' = [s \in Searcher |->
           IF search[s].pc \in InProgress THEN Answer("error", search[s]) ELSE search[s]]

-----------------------------------------------------------------------------
(* get_all_deps for one RefID; several are searched one after the other *)

\* shifted, which is history, says that a list was pushed to under its scan.
StartSearch(s, r, o) ==
    /\ search[s].pc \in {"idle", "done", "error"}
    /\ search' = [search EXCEPT ![s] =
           [pc |-> "pop", from |-> r, offset |-> o, asked |-> position,
            processing |-> <<r>>, visited |-> {r}, result |-> << >>,
            current |-> r, len |-> 0, next |-> 0, shifted |-> FALSE]]
    /\ UNCHANGED <<consumerVars, redisVars, changed>>

\* The next RefID of the queue, and the LLEN of its list.
PopRef(s) ==
    LET call == search[s]
        r == Head(call.processing)
        len == Len(subs[r])
    IN  /\ call.pc = "pop"
        /\ call.processing # << >>
        /\ search' = [search EXCEPT
               ![s].processing = Tail(@), ![s].current = r,
               ![s].len = len, ![s].next = 0,
               ![s].pc = IF len = 0 THEN "pop" ELSE "scan"]
        /\ UNCHANGED <<consumerVars, redisVars, changed>>

\* Mutant: visited is only added to when a RefID is taken from the queue.
VisitLater(call, found) ==
    {[call EXCEPT !.pc = "pop",
                  !.visited = @ \cup {call.current},
                  !.processing = @ \o order,
                  !.result = @ \o [n \in DOMAIN order |->
                      [owner |-> order[n], other |-> call.current]]] :
        order \in SetToSeqs(found \ call.visited)}
\* The subscribers found that were not visited are visited next, in the order
\* of a hash set, and each is recorded with what it was reached from.
Visit(call, found) ==
    {[call EXCEPT !.pc = "pop",
                  !.visited = @ \cup found,
                  !.processing = @ \o order,
                  !.result = @ \o [n \in DOMAIN order |->
                      [owner |-> order[n], other |-> call.current]]] :
        order \in SetToSeqs(found \ call.visited)}

\* Mutant: a scan that finds nothing is repeated.
ReadIndexUntilFound(s) ==
    LET call == search[s]
        list == subs[call.current]
        i == call.next + 1
    IN  /\ call.pc = "scan"
        /\ \/ /\ list[i].offset <= call.offset
              /\ \E after \in Visit(call, list[i].subs) : search' = [search EXCEPT ![s] = after]
           \/ /\ list[i].offset > call.offset
              /\ search' = [search EXCEPT ![s].next = IF i = call.len THEN 0 ELSE i]
        /\ UNCHANGED <<consumerVars, redisVars, changed>>
\* One LINDEX.
ReadIndex(s) ==
    LET call == search[s]
        list == subs[call.current]
        i == call.next + 1
    IN  /\ call.pc = "scan"
        /\ \/ /\ list[i].offset <= call.offset
              /\ \E after \in Visit(call, list[i].subs) : search' = [search EXCEPT ![s] = after]
           \/ /\ list[i].offset > call.offset
              /\ search' = [search EXCEPT
                     ![s].next = i,
                     ![s].pc = IF i = call.len THEN "pop" ELSE "scan",
                     ![s].shifted = @ \/ (i = call.len /\ call.len < Len(list))]
        /\ UNCHANGED <<consumerVars, redisVars, changed>>

FinishSearch(s) ==
    /\ search[s].pc = "pop"
    /\ search[s].processing = << >>
    /\ search' = [search EXCEPT ![s] = Answer("done", @)]
    /\ UNCHANGED <<consumerVars, redisVars, changed>>

-----------------------------------------------------------------------------
Consume == JoinGroup \/ TakeMessage \/ PassOver \/ StoreObjRefs \/ PushSubs

Disturb == DropMessage \/ AbandonMessage \/ CrashService \/ RestartRedis

Search(s) == PopRef(s) \/ ReadIndex(s) \/ FinishSearch(s)

Next ==
    \/ \E message \in Message : Submit(message)
    \/ Consume
    \/ Disturb
    \/ \E s \in Searcher :
           Search(s) \/ \E r \in Searched, o \in 0 .. MaxLog - 1 : StartSearch(s, r, o)

Spec == Init /\ [][Next]_vars

\* A request's task always takes its next step.
FairSpec == Spec /\ \A s \in Searcher : WF_vars(Search(s))
-----------------------------------------------------------------------------
(* Properties *)

SearchType ==
    [pc : InProgress \cup {"done", "error"}, from : RefID, offset : 0 .. MaxLog,
     asked : Nat, processing : Seq(RefID), visited : SUBSET RefID,
     result : Seq(Reference), current : RefID, len : Nat, next : Nat,
     shifted : BOOLEAN]

InBounds(call) == call.next < call.len /\ call.len <= Len(subs[call.current])

\* Types; sets are pending only while a message is handled; a scan stays
\* inside its list.
TypeOK ==
    /\ ConsumerTypeOK
    /\ log \in Seq(Message)
    /\ DOMAIN objRefs \subseteq Obj
    /\ \A x \in DOMAIN objRefs : objRefs[x] \in Seq(Reference \cup {NoRef})
    /\ subs \in [RefID -> Seq(Entry)]
    /\ DOMAIN changed \subseteq RefID
    /\ \A r \in DOMAIN changed : changed[r] \subseteq RefID
    /\ changed # Nothing => phase = "handling" /\ Current.change # "Other"
    /\ search \in [Searcher -> {Idle} \cup SearchType]
    /\ \A s \in Searcher : search[s].pc = "scan" => InBounds(search[s])

\* The changes of an object up to an offset that say what its references are.
ChangesOf(x) == {k \in Offsets : MessageAt(k).id = x /\ MessageAt(k).change # "Other"}

\* What the log says the references of object x are at offset o.
IsLast(k, S, o) == k \in S /\ k <= o /\ \A j \in S : j <= o => j <= k
ListAt(x, o) ==
    IF \E k \in ChangesOf(x) : k <= o
    THEN MessageAt(CHOOSE k \in ChangesOf(x) : IsLast(k, ChangesOf(x), o)).refs
    ELSE << >>
ReferencesAt(o) == UNION {Added(ListAt(x, o)) : x \in Obj}

Intact(x) == ChangesOf(x) \cap lost = {}

\* At every offset the consumer has passed, whatever was replayed, the
\* subscribers of a RefID include every piece of an object that refers to it:
\* what must be notified is notified.
NoSubscriberMissing ==
    \A x \in Obj : \A o \in 0 .. position - 1 : \A ref \in Added(ListAt(x, o)) :
        Intact(x) => ref.owner \in SubsAt(ref.other, o)

\* Whether the next change of the object after offset k leaves the slot's
\* subscription in place although it gives up the reference: an Add does not
\* look at the last references, and a Modify only takes out what it leaves empty.
LeavesStale(x, i, k) ==
    \E n \in ChangesOf(x) :
        /\ n > k
        /\ \A j \in ChangesOf(x) : j > k => n <= j
        /\ \/ MessageAt(n).change = "Add"
           \/ MessageAt(n).change = "Modify" /\ IsSet(MessageAt(n).refs, i)

\* Why p is a subscriber of r at offset o: it refers to r, or it did since the
\* consumer joined and gave the reference up in a way that left it in place.
Explained(p, r, o) ==
    LET ref == [owner |-> p, other |-> r]
    IN  \/ ref \in ReferencesAt(o)
        \/ \E k \in start .. o : \E i \in Some(ListAt(p[1], k)) :
               ListAt(p[1], k)[i] = ref /\ LeavesStale(p[1], i, k)

\* Without a fault, a subscriber that does not refer to the RefID at the
\* offset did refer to it once, and gave it up in one of two ways: its object
\* was submitted as an Add again, or the reference was pointed elsewhere.
StaleOnlyIfRepointed ==
    faults = 0 =>
        \A r \in RefID : \A o \in 0 .. position - 1 : \A p \in SubsAt(r, o) :
            Explained(p, r, o)

\* What refers to a RefID of the set at offset o is in the set.
Closed(S, o) == \A ref \in ReferencesAt(o) : ref.other \in S => ref.owner \in S

\* Everything that can be reached from a RefID against the references at o:
\* what is in every closed set with the RefID.
Reachable(r, o) ==
    {v \in RefID : \A S \in SUBSET RefID : r \in S /\ Closed(S, o) => v \in S}

Owners(result) == {result[n].owner : n \in DOMAIN result}

\* Each RefID is named once, after what it depends on.
InOrder(call) ==
    \A n \in DOMAIN call.result :
        /\ call.result[n].other
               \in {call.from} \cup {call.result[m].owner : m \in 1 .. n - 1}
        /\ \A m \in 1 .. n - 1 : call.result[m].owner # call.result[n].owner

\* Whether the answer must be complete: the consumer was past the offset all
\* along, skipped nothing, and pushed to no set under its scan.
Undisturbed(call) ==
    (\A x \in Obj : Intact(x)) /\ call.offset < call.asked /\ ~call.shifted

\* A search at an offset the consumer was past all along answers with every
\* piece that depends on the RefID, directly or not, unless a set was pushed
\* to under its scan; each is named once, after what it depends on, which is
\* the order operations applies them in.
SearchComplete ==
    \A s \in Searcher :
        LET call == search[s]
        IN  call.pc = "done" =>
            /\ InOrder(call)
            /\ Undisturbed(call) =>
                  Reachable(call.from, call.offset) \subseteq Owners(call.result) \cup {call.from}

\* A search ends, although walls that are joined refer to each other.
SearchEnds == \A s \in Searcher : search[s].pc \in InProgress ~> search[s].pc \notin InProgress
-----------------------------------------------------------------------------
(* The inductive invariants behind the subscriptions and the searches *)

\* The set has every piece of an intact object that refers to r at offset o.
Covers(set, r, o) ==
    \A x \in Obj : \A ref \in Added(ListAt(x, o)) :
        Intact(x) /\ ref.other = r => ref.owner \in set

\* Offset k is in the list, and no lower one is nearer to its head.
Leads(k, list) ==
    \E i \in DOMAIN list :
        list[i].offset = k /\ \A j \in 1 .. i - 1 : list[j].offset >= k

\* Last references are those of some message of the object, or all emptied.
LastRefsKnown ==
    \A x \in DOMAIN objRefs : Some(objRefs[x]) = {} \/ objRefs[x] \in RefLists(x)

\* Every set, pushed or still to push, is complete for its own offset.
EntriesCover ==
    \A r \in RefID : \A i \in DOMAIN subs[r] :
        subs[r][i].offset \in Offsets /\ Covers(subs[r][i].subs, r, subs[r][i].offset)
PendingCover == \A r \in DOMAIN changed : Covers(changed[r], r, position)

\* Of the sets the current message touches, those not pending are pushed.
PendingOrPushed ==
    changed # Nothing =>
        \A ref \in Added(Current.refs) :
            \/ ref.other \in DOMAIN changed
            \/ subs[ref.other] # << >> /\ subs[ref.other][1].offset = position

\* A change that was handled pushed the sets of what it refers to, and no
\* set older than them is met before them, whatever was replayed since.
ChangesLead ==
    \A x \in Obj : Intact(x) =>
        \A k \in ChangesOf(x) : k < position =>
            \A ref \in Added(MessageAt(k).refs) : Leads(k, subs[ref.other])

\* What the code keeps true of the sets between any two awaits.
GraphInv ==
    /\ LastRefsKnown
    /\ EntriesCover
    /\ PendingCover
    /\ PendingOrPushed
    /\ ChangesLead

\* The last offset whose references are stored.
StoredTo == IF changed = Nothing THEN position - 1 ELSE position

\* The last references of an object are those it has in the log.
RefsCurrent ==
    \A x \in DOMAIN objRefs :
        LET list == ListAt(x, StoredTo)
        IN  /\ Some(objRefs[x]) = Some(list)
            /\ \A i \in Some(list) : objRefs[x][i] = list[i]

\* No set is newer than what is stored, nor its pieces of unknown objects.
SetsBehind ==
    /\ \A r \in RefID : \A i \in DOMAIN subs[r] :
          /\ subs[r][i].offset \in start .. StoredTo
          /\ r \in DOMAIN changed => subs[r][i].offset < position
          /\ \A p \in subs[r][i].subs : p[1] \in DOMAIN objRefs
    /\ \A r \in DOMAIN changed : \A p \in changed[r] : p[1] \in DOMAIN objRefs

\* While sets are pending, what will be found at the offset of the message.
PendingSubs(r) == IF r \in DOMAIN changed THEN changed[r] ELSE SubsAt(r, position)
PendingExplained ==
    changed # Nothing => \A r \in RefID : \A p \in PendingSubs(r) : Explained(p, r, position)

\* What is true besides of the sets as long as there was no fault.
StaleInv ==
    faults = 0 =>
        /\ phase = "joining" => DOMAIN objRefs = {} /\ \A r \in RefID : subs[r] = << >>
        /\ RefsCurrent
        /\ SetsBehind
        /\ PendingExplained

\* The RefIDs a search has still to look up.
Waiting(call) ==
    {call.processing[n] : n \in DOMAIN call.processing}
        \cup (IF call.pc = "scan" THEN {call.current} ELSE {})

\* What a search knows at each of its round trips.
VisitedOnce(call) ==
    /\ Waiting(call) \subseteq call.visited
    /\ call.current \in call.visited
    /\ call.visited = {call.from} \cup Owners(call.result)
VisitedComplete(call) ==
    /\ \A ref \in ReferencesAt(call.offset) :
           ref.other \in call.visited \ Waiting(call) => ref.owner \in call.visited
    /\ call.pc = "scan" =>
           \A j \in 1 .. call.next : subs[call.current][j].offset > call.offset

CallInv(call) ==
    /\ call.pc # "idle" => call.asked <= position /\ InOrder(call)
    /\ call.pc \in InProgress => VisitedOnce(call)
    /\ call.pc \in InProgress /\ Undisturbed(call) => VisitedComplete(call)
    /\ call.pc = "done" /\ Undisturbed(call) =>
           Closed({call.from} \cup Owners(call.result), call.offset)

SearchInv == \A s \in Searcher : CallInv(search[s])
=============================================================================
