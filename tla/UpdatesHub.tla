------------------------------ MODULE UpdatesHub ------------------------------
(***************************************************************************)
(* The updates service.  A consumer task tails the representations and     *)
(* sends each to the channels of the file's subscribers; a task per        *)
(* websocket connection takes commands from the client and representations *)
(* from its channel.  The tasks share a concurrent map from files to       *)
(* senders, in shards that are locked as a whole: the consumer keeps a     *)
(* shard locked while it waits for room in a channel, and a task that      *)
(* wants the shard blocks.                                                 *)
(*                                                                         *)
(* Everything between two awaits is one action, but for the two accesses   *)
(* to the map of a first Subscribe, between which other threads run.       *)
(***************************************************************************)
EXTENDS LogConsumer, SequencesExt

CONSTANTS
    File,         \* files
    NoKey,        \* the key of a message without one, which is refused
    Conn,         \* websocket connections, each accepted once
    UserOf(_),    \* the user a connection's client says it is
    ShardOf(_),   \* the shard of the map a file is in
    Capacity,     \* size of a connection's channel
    MaxCommands   \* bound: number of commands the clients send

ASSUME HubAssumption ==
    /\ NoKey \notin File
    /\ Capacity \in Nat \ {0}
    /\ MaxCommands \in Nat

VARIABLES
    senders,    \* file -> list of [conn, user, since], FILE_TO_CHANNEL_MAP
    index,      \* the sender the consumer is at, 0 when it holds no lock
    failed,     \* indexes of the senders that were found closed
    pc,         \* where the task of each connection is
    command,    \* the command on a file each task is handling
    commands,   \* number of commands the clients have sent
    sent,       \* the offsets ever put into each channel, oldest first
    taken,      \* how many of them the task has taken out
    asked,      \* history: number of Subscribes handled, by connection and file
    left,       \* history: files each connection has unsubscribed from
    firsts      \* history: how many times a file's entry was inserted

connVars == <<pc, command, commands, sent, taken, asked, left>>
hubVars == <<senders, index, failed, firsts>>
vars == <<consumerVars, hubVars, connVars>>

\* "other" is a Ping, a Pong or a message the service does not know: each is
\* answered; "invalid" is a Text that is no command.
NoCommand == [name |-> "none"]
OnFile == [name : {"subscribe", "unsubscribe"}, file : File]
Command == OnFile \cup [name : {"other", "invalid", "close"}]

Waiting == {"subscribe", "insert", "unsubscribe"}
Open == {"select", "sending"} \cup Waiting

Init ==
    /\ ConsumerInit
    /\ senders = [f \in {} |-> << >>]
    /\ index = 0
    /\ failed = {}
    /\ pc = [c \in Conn |-> "none"]
    /\ command = [c \in Conn |-> NoCommand]
    /\ commands = 0
    /\ sent = [c \in Conn |-> << >>]
    /\ taken = [c \in Conn |-> 0]
    /\ asked = [c \in Conn |-> [f \in File |-> 0]]
    /\ left = [c \in Conn |-> {}]
    /\ firsts = [f \in File |-> 0]

-----------------------------------------------------------------------------
(* The consumer task *)

\* The consumer holds the lock of the file's shard.
Locked(f) == index > 0 /\ ShardOf(Current) = ShardOf(f)

InChannel(c) == Len(sent[c]) - taken[c]

Publish(message) == Produce(message) /\ UNCHANGED <<hubVars, connVars>>

JoinGroup == Join /\ UNCHANGED <<hubVars, connVars>>

TakeMessage == Fetch /\ UNCHANGED <<hubVars, connVars>>

\* No key, or nobody has ever subscribed to the file.
PassOver ==
    /\ phase = "handling"
    /\ index = 0
    /\ Current \notin DOMAIN senders
    /\ Handled
    /\ UNCHANGED <<hubVars, connVars>>

LockSenders ==
    /\ phase = "handling"
    /\ index = 0
    /\ Current \in DOMAIN senders
    /\ index' = 1
    /\ UNCHANGED <<consumerVars, senders, failed, firsts, connVars>>

\* The consumer is at a sender of the list.
At(i) == index > 0 /\ i = index /\ i \in DOMAIN senders[Current]

\* Mutant: an unbounded channel.
SendNextUnbounded ==
    \E i \in {index} :
        /\ At(i)
        /\ LET c == senders[Current][i].conn
           IN  /\ pc[c] \in Open
               /\ sent' = [sent EXCEPT ![c] = Append(@, position)]
        /\ index' = index + 1
        /\ UNCHANGED <<consumerVars, senders, failed, firsts,
                       pc, command, commands, taken, asked, left>>
\* send().await succeeds as soon as the channel has room.
SendNext ==
    \E i \in {index} :
        /\ At(i)
        /\ LET c == senders[Current][i].conn
           IN  /\ pc[c] \in Open
               /\ InChannel(c) < Capacity
               /\ sent' = [sent EXCEPT ![c] = Append(@, position)]
        /\ index' = index + 1
        /\ UNCHANGED <<consumerVars, senders, failed, firsts,
                       pc, command, commands, taken, asked, left>>

\* Mutant: the list is sent to again from its beginning.
SendFailsAndRestarts ==
    \E i \in {index} :
        /\ At(i)
        /\ pc[senders[Current][i].conn] = "closed"
        /\ failed' = failed \cup {i}
        /\ index' = IF i \in failed THEN index + 1 ELSE 1
        /\ UNCHANGED <<consumerVars, senders, firsts, connVars>>
\* Mutant: the error ends the loop.
SendFailsAndBreaks ==
    \E i \in {index} :
        /\ At(i)
        /\ pc[senders[Current][i].conn] = "closed"
        /\ failed' = failed \cup {i}
        /\ index' = Len(senders[Current]) + 1
        /\ UNCHANGED <<consumerVars, senders, firsts, connVars>>
\* Mutant: a full channel is waited for, closed or not.
SendFailsIfRoom ==
    \E i \in {index} :
        /\ At(i)
        /\ pc[senders[Current][i].conn] = "closed"
        /\ InChannel(senders[Current][i].conn) < Capacity
        /\ failed' = failed \cup {i}
        /\ index' = index + 1
        /\ UNCHANGED <<consumerVars, senders, firsts, connVars>>
\* The receiver is gone: the send fails at once, or while it waits.
SendFails ==
    \E i \in {index} :
        /\ At(i)
        /\ pc[senders[Current][i].conn] = "closed"
        /\ failed' = failed \cup {i}
        /\ index' = index + 1
        /\ UNCHANGED <<consumerVars, senders, firsts, connVars>>

\* Mutant: the first one first, at the index it had in the whole list.
FirstFailed == CHOOSE i \in failed : \A j \in failed : i <= j
\* At the end of the list the closed senders are removed, the last one first.
NextFailed == CHOOSE i \in failed : \A j \in failed : j <= i

AtEnd == index > 0 /\ index > Len(senders[Current])

RemoveFailed ==
    /\ AtEnd
    /\ failed # {}
    /\ LET i == NextFailed
       IN  /\ senders' = [senders EXCEPT ![Current] = RemoveAt(@, i)]
           /\ failed' = failed \ {i}
    /\ UNCHANGED <<consumerVars, index, firsts, connVars>>

\* handle_message returns and the lock is released.
Release ==
    /\ AtEnd
    /\ failed = {}
    /\ index' = 0
    /\ Handled
    /\ UNCHANGED <<senders, failed, firsts, connVars>>

\* The map and every connection are lost with the process.
CrashService ==
    /\ Crash
    /\ senders' = [f \in {} |-> << >>]
    /\ index' = 0
    /\ failed' = {}
    /\ firsts' = [f \in File |-> 0]
    /\ pc' = [c \in Conn |-> IF pc[c] = "none" THEN "none" ELSE "closed"]
    /\ UNCHANGED <<command, commands, sent, taken, asked, left>>

-----------------------------------------------------------------------------
(* The task of a connection *)

Goto(c, place) == pc' = [pc EXCEPT ![c] = place]

Accept(c) ==
    /\ pc[c] = "none"
    /\ Goto(c, "select")
    /\ UNCHANGED <<consumerVars, hubVars, command, commands, sent, taken, asked, left>>

\* select yields what the client sent.  The task goes on to the map for a
\* command on a file, to a reply, or to its end.
Receive(c, cmd) ==
    /\ pc[c] = "select"
    /\ commands < MaxCommands
    /\ commands' = commands + 1
    /\ Goto(c, CASE cmd.name = "other"   -> "sending"
                 [] cmd.name = "invalid" -> "select"
                 [] cmd.name = "close"   -> "closed"
                 [] OTHER                -> cmd.name)
    /\ command' = IF cmd.name \in {"subscribe", "unsubscribe"}
                  THEN [command EXCEPT ![c] = cmd] ELSE command
    /\ UNCHANGED <<consumerVars, hubVars, sent, taken, asked, left>>

Sender(c) == [conn |-> c, user |-> UserOf(c), since |-> position]

\* The command on a file is done.  A sender pushed while a message of the
\* file is in hand but not yet locked gets it: since is the first offset sent.
Done(c) ==
    /\ Goto(c, "select")
    /\ command' = [command EXCEPT ![c] = NoCommand]
    /\ UNCHANGED <<consumerVars, index, failed, commands, sent, taken>>

Subscribed(c, f) == asked' = [asked EXCEPT ![c][f] = @ + 1] /\ UNCHANGED left

Subscribe(c) ==
    LET f == command[c].file
    IN  /\ pc[c] = "subscribe"
        /\ ~Locked(f)
        /\ f \in DOMAIN senders
        /\ senders' = [senders EXCEPT ![f] = Append(@, Sender(c))]
        /\ Subscribed(c, f)
        /\ Done(c)
        /\ UNCHANGED firsts

\* get_mut finds no entry; the lock is released.
SubscribeFirst(c) ==
    LET f == command[c].file
    IN  /\ pc[c] = "subscribe"
        /\ ~Locked(f)
        /\ f \notin DOMAIN senders
        /\ Goto(c, "insert")
        /\ UNCHANGED <<consumerVars, hubVars, command, commands, sent, taken, asked, left>>

\* insert replaces whatever entry there is by now.
Insert(c) ==
    LET f == command[c].file
    IN  /\ pc[c] = "insert"
        /\ ~Locked(f)
        /\ senders' = [g \in DOMAIN senders \cup {f} |->
                          IF g = f THEN <<Sender(c)>> ELSE senders[g]]
        /\ firsts' = [firsts EXCEPT ![f] = @ + 1]
        /\ Subscribed(c, f)
        /\ Done(c)

\* The first sender of the list with the user's name is removed.
FirstOf(list, user, i) ==
    /\ i \in DOMAIN list
    /\ list[i].user = user
    /\ \A j \in 1 .. i - 1 : list[j].user # user

WithoutUser(list, user) ==
    IF \E i \in DOMAIN list : list[i].user = user
    THEN RemoveAt(list, CHOOSE i \in DOMAIN list : FirstOf(list, user, i))
    ELSE list

Unsubscribe(c) ==
    LET f == command[c].file
    IN  /\ pc[c] = "unsubscribe"
        /\ ~Locked(f)
        /\ senders' = IF f \in DOMAIN senders
                      THEN [senders EXCEPT ![f] = WithoutUser(@, UserOf(c))]
                      ELSE senders
        /\ left' = [left EXCEPT ![c] = @ \cup {f}]
        /\ Done(c)
        /\ UNCHANGED <<asked, firsts>>

\* select yields the next message of the channel, which goes to the socket.
TakeUpdate(c) ==
    /\ pc[c] = "select"
    /\ InChannel(c) > 0
    /\ taken' = [taken EXCEPT ![c] = @ + 1]
    /\ Goto(c, "sending")
    /\ UNCHANGED <<consumerVars, hubVars, command, commands, sent, asked, left>>

\* The client reads what the task is sending.
ClientReads(c) ==
    /\ pc[c] = "sending"
    /\ Goto(c, "select")
    /\ UNCHANGED <<consumerVars, hubVars, command, commands, sent, taken, asked, left>>

\* The stream ends or breaks.  A task that waits for the map does not notice.
Disconnect(c) ==
    /\ pc[c] \in {"select", "sending"}
    /\ Goto(c, "closed")
    /\ UNCHANGED <<consumerVars, hubVars, command, commands, sent, taken, asked, left>>

-----------------------------------------------------------------------------
Consume ==
    \/ JoinGroup \/ TakeMessage \/ PassOver \/ LockSenders
    \/ SendNext \/ SendFails \/ RemoveFailed \/ Release

Handle(c) ==
    Subscribe(c) \/ SubscribeFirst(c) \/ Insert(c) \/ Unsubscribe(c) \/ TakeUpdate(c)

Next ==
    \/ \E message \in File \cup {NoKey} : Publish(message)
    \/ Consume
    \/ CrashService
    \/ \E c \in Conn :
           \/ Accept(c) \/ Handle(c) \/ ClientReads(c) \/ Disconnect(c)
           \/ \E cmd \in Command : Receive(c, cmd)

Spec == Init /\ [][Next]_vars

\* The consumer is a loop in a spawned task, and every connection has a task
\* of its own; every client reads what it is sent.
FairSpec ==
    /\ Spec
    /\ WF_vars(Consume)
    /\ \A c \in Conn : WF_vars(Handle(c)) /\ WF_vars(ClientReads(c))
-----------------------------------------------------------------------------
(* Properties *)

SenderType == [conn : Conn, user : {UserOf(c) : c \in Conn}, since : Nat]

\* Types; the consumer holds a lock only while it handles a message of a file
\* with an entry; no channel holds more than its capacity.
TypeOK ==
    /\ ConsumerTypeOK
    /\ log \in Seq(File \cup {NoKey})
    /\ DOMAIN senders \subseteq File
    /\ \A f \in DOMAIN senders : senders[f] \in Seq(SenderType)
    /\ index \in Nat
    /\ index > 0 => phase = "handling" /\ Current \in DOMAIN senders
    /\ failed \subseteq 1 .. index - 1
    /\ pc \in [Conn -> Open \cup {"none", "closed"}]
    /\ command \in [Conn -> OnFile \cup {NoCommand}]
    /\ commands \in 0 .. MaxCommands
    /\ \A c \in Conn : pc[c] \in Waiting => command[c] # NoCommand
    /\ sent \in [Conn -> Seq(Nat)]
    /\ taken \in [Conn -> Nat]
    /\ \A c \in Conn : InChannel(c) \in 0 .. Capacity
    /\ asked \in [Conn -> [File -> Nat]]
    /\ left \in [Conn -> SUBSET File]
    /\ firsts \in [File -> Nat]

Times(c, k) == Cardinality({n \in DOMAIN sent[c] : sent[c][n] = k})

\* What goes into a connection's channel is in the order of the topic, never
\* of a file the client did not ask for, and no representation more often than
\* the client has subscribed to its file, closed channels in the list or not.
SentAsAsked ==
    \A c \in Conn :
        /\ \A m, n \in DOMAIN sent[c] : m < n => sent[c][m] <= sent[c][n]
        /\ \A n \in DOMAIN sent[c] :
              LET k == sent[c][n]
              IN  /\ MessageAt(k) \in File
                  /\ Times(c, k) <= asked[c][MessageAt(k)]

\* The loop has passed sender i of a file with message k.
PassedSender(f, i, k) ==
    /\ k \in senders[f][i].since .. Len(log) - 1
    /\ MessageAt(k) = f
    /\ k \notin lost
    /\ k < position \/ (k = position /\ index > i /\ Current = f)

\* Every sender in the map has been sent every message of its file that was
\* handled since it was put there, though closed senders were removed from
\* the list around it.
SendersServed ==
    \A f \in DOMAIN senders : \A i \in DOMAIN senders[f] :
        LET c == senders[f][i].conn
        IN  pc[c] \in Open =>
            \A k \in Offsets : PassedSender(f, i, k) =>
                Times(c, k) >= Cardinality({j \in DOMAIN senders[f] :
                    senders[f][j].conn = c /\ PassedSender(f, j, k)})

\* An open connection has a sender for each of its Subscribes, unless the
\* entry was inserted twice or its user's name was used to unsubscribe.
SubscribersKept ==
    \A c \in Conn : \A f \in File :
        /\ pc[c] \in Open
        /\ asked[c][f] > 0
        /\ firsts[f] <= 1
        /\ \A d \in Conn : UserOf(d) = UserOf(c) => f \notin left[d]
        => /\ f \in DOMAIN senders
           /\ Cardinality({i \in DOMAIN senders[f] : senders[f][i].conn = c})
                  = asked[c][f]

\* The consumer waits for room in the channel of a task that waits for the
\* shard the consumer has locked.
CircularWait ==
    \E i \in {index} :
        /\ At(i)
        /\ LET c == senders[Current][i].conn
           IN  /\ InChannel(c) = Capacity
               /\ pc[c] \in Waiting
               /\ Locked(command[c].file)

\* Every message is handled in the end, closed connections and full channels
\* or not: only a circular wait stops the consumer.
PushedUnlessStuck ==
    \A k \in 0 .. MaxLog - 1 : k \in Offsets ~> (position > k \/ CircularWait)

\* The service pushes the representations to its clients (README.md:29), all of
\* which read.  Violated: a client's Subscribe waits for the lock its own full
\* channel keeps the consumer from releasing.
EveryMessagePushed ==
    \A k \in 0 .. MaxLog - 1 : k \in Offsets ~> position > k
-----------------------------------------------------------------------------
(* The inductive invariant *)

SendersOf(f, c) == {i \in DOMAIN senders[f] : senders[f][i].conn = c}

\* The senders marked for removal are in the list, and their tasks have ended.
FailedAreClosed ==
    \A i \in failed :
        i \in DOMAIN senders[Current] /\ pc[senders[Current][i].conn] = "closed"

\* A file has an entry once one was inserted; who has subscribed to a file
\* without one is gone, and who has not been accepted has not subscribed.
EntriesInserted ==
    /\ \A f \in File : f \in DOMAIN senders <=> firsts[f] > 0
    /\ \A c \in Conn : \A f \in File :
           asked[c][f] > 0 => pc[c] # "none" /\ (pc[c] = "closed" \/ f \in DOMAIN senders)

SendersNamed ==
    \A f \in DOMAIN senders : \A i \in DOMAIN senders[f] :
        senders[f][i].user = UserOf(senders[f][i].conn)

\* An open connection was sent nothing above the consumer's position, and the
\* message there only while its list is locked; nothing before the consumer joined.
SentSoFar ==
    \A c \in Conn :
        /\ pc[c] = "none" => sent[c] = << >>
        /\ \A n \in DOMAIN sent[c] : sent[c][n] \in Offsets
        /\ pc[c] \in Open =>
              \A n \in DOMAIN sent[c] :
                  /\ phase # "joining"
                  /\ sent[c][n] <= position
                  /\ sent[c][n] = position => index > 0

\* A sender in the map is the trace of a Subscribe.
SendersAsked ==
    \A f \in DOMAIN senders : \A c \in Conn : Cardinality(SendersOf(f, c)) <= asked[c][f]

\* What was sent of the message in hand, and what is still to come.
RestAsked ==
    index > 0 =>
        \A c \in Conn : pc[c] \in Open =>
            Times(c, position) + Cardinality({i \in SendersOf(Current, c) : i >= index})
                <= asked[c][Current]

\* What the tasks keep true of map and channels between any two awaits.
HubInv ==
    /\ FailedAreClosed
    /\ EntriesInserted
    /\ SendersNamed
    /\ SentSoFar
    /\ SendersAsked
    /\ RestAsked
=============================================================================
