------------------------------- MODULE PubSub -------------------------------
(***************************************************************************)
(* Channels and their subscribers (internal/modules/pubsub).  Subscribe    *)
(* keeps the write lock of the list of channels while it confirms every    *)
(* name to its client; Publish keeps the read lock while it queues the     *)
(* message in every channel that matches; a goroutine per channel takes    *)
(* the messages off its queue, and starts a goroutine per subscriber that  *)
(* writes to the connection.                                               *)
(*                                                                         *)
(* A client may stop to read, so that writes to it do not return, and may  *)
(* disconnect, which unsubscribes it from nothing.                         *)
(***************************************************************************)
EXTENDS Naturals, Sequences

CONSTANTS
    Conn,        \* the connections
    Name,        \* the names of channels and the patterns
    Matches,     \* the pairs of a glob and a name that it matches
    None,
    QueueSize,   \* the capacity of messageChan, 4096 in the code
    MaxMessages, \* bound: the messages
    MaxCalls,    \* bound: the commands but PUBLISH
    Targets,     \* bound: the names that are published to
    Requests,    \* bound: the names, and kinds, of SUBSCRIBE and PSUBSCRIBE
    Dropped,     \* bound: the names that are given to UNSUBSCRIBE
    Unreliable   \* bound: the connections that may stall or leave

ASSUME PubSubAssumption ==
    /\ Matches \subseteq Name \X Name
    /\ None \notin Conn /\ Unreliable \subseteq Conn
    /\ Requests \subseteq (Seq(Name) \ {<<>>}) \X BOOLEAN
    /\ Targets \subseteq Name /\ Dropped \subseteq Name
    /\ QueueSize \in Nat \ {0} /\ MaxMessages \in Nat /\ MaxCalls \in Nat

VARIABLES
    channels,   \* the list of channels: names, kinds, subscribers, queues
    writer,     \* who holds the write lock of the list
    at,         \* at[c]: the step of the command of c
    todo,       \* todo[c]: the names that SUBSCRIBE has still to do
    kind,       \* kind[c]: whether these are patterns
    cursor,     \* cursor[c]: the place of PUBLISH in the list
    message,    \* message[c]: the message that c publishes
    target,     \* target[m]: the name that message m was published to
    inFlight,   \* the deliveries whose goroutines have not yet written
    received,   \* received[c]: what was written to the connection
    stalled,    \* the connections that are not read
    gone,       \* the connections that are closed
    calls

pubSubVars == <<channels, writer, at, todo, kind, cursor, message, target,
                inFlight, received, stalled, gone, calls>>

Msg == 1..MaxMessages
Channel == [name : Name, pattern : BOOLEAN, subscribers : SUBSET Conn, queue : Seq(Msg)]
Delivery == [to : Conn, via : Name, msg : Msg]

command == <<at, todo, kind>>
publishing == <<cursor, message, target>>
clients == <<stalled, gone, calls>>

PubSubInit ==
    /\ channels = <<>> /\ writer = None
    /\ at = [c \in Conn |-> "idle"]
    /\ todo = [c \in Conn |-> <<>>]
    /\ kind = [c \in Conn |-> FALSE]
    /\ cursor = [c \in Conn |-> 1]
    /\ message = [c \in Conn |-> 0]
    /\ target = <<>>
    /\ inFlight = {} /\ received = {}
    /\ stalled = {} /\ gone = {} /\ calls = 0

Goto(c, next) == at' = [at EXCEPT ![c] = next]

(* A new command of c.                                                     *)
Begin(c) == at[c] = "idle" /\ c \notin gone

-----------------------------------------------------------------------------
(* channelsRWMut.  A writer that waits holds back the readers after it.    *)
ReadUnlocked == writer = None /\ \A c \in Conn : at[c] # "wait"
WriteUnlocked == writer = None /\ \A c \in Conn : at[c] # "publish"

(* SUBSCRIBE and PSUBSCRIBE *)
Subscribe(c, names, withPattern) ==
    /\ Begin(c) /\ calls < MaxCalls
    /\ calls' = calls + 1
    /\ todo' = [todo EXCEPT ![c] = names]
    /\ kind' = [kind EXCEPT ![c] = withPattern]
    /\ Goto(c, "wait")
    /\ UNCHANGED <<channels, writer, publishing, inFlight, received, stalled, gone>>

Lock(c) ==
    /\ at[c] = "wait" /\ WriteUnlocked
    /\ writer' = c
    /\ Goto(c, "join")
    /\ UNCHANGED <<channels, todo, kind, publishing, inFlight, received, clients>>

SameKind(c) == {i \in DOMAIN channels :
                   channels[i].name = Head(todo[c]) /\ channels[i].pattern = kind[c]}

(* The channel is looked up by its name, whatever its kind.                *)
Existing(c) == {i \in DOMAIN channels : channels[i].name = Head(todo[c])}

(* A channel that exists has its new subscriber before it is confirmed.    *)
Join(c) ==
    /\ at[c] = "join"
    /\ channels' = [i \in DOMAIN channels |->
                      IF i \in Existing(c)
                      THEN [channels[i] EXCEPT !.subscribers = @ \cup {c}]
                      ELSE channels[i]]
    /\ Goto(c, "confirm")
    /\ UNCHANGED <<writer, todo, kind, publishing, inFlight, received, clients>>

NewChannel(c) == [name |-> Head(todo[c]), pattern |-> kind[c],
                  subscribers |-> {c}, queue |-> <<>>]

ConfirmKeepsLock(c) ==
    /\ at[c] = "confirm"
    /\ c \notin stalled \/ c \in gone
    /\ channels' = IF Existing(c) = {} THEN Append(channels, NewChannel(c))
                   ELSE channels
    /\ todo' = [todo EXCEPT ![c] = Tail(@)]
    /\ Goto(c, IF Len(todo[c]) = 1 THEN "idle" ELSE "join")
    /\ kind' = [kind EXCEPT ![c] = @ /\ Len(todo[c]) > 1]
    /\ UNCHANGED <<writer, publishing, inFlight, received, clients>>

(* The write of the confirmation, which fails on a closed connection; then *)
(* a new channel is added to the list.                                     *)
Confirm(c) ==
    /\ at[c] = "confirm"
    /\ c \notin stalled \/ c \in gone
    /\ channels' = IF Existing(c) = {} THEN Append(channels, NewChannel(c))
                   ELSE channels
    /\ todo' = [todo EXCEPT ![c] = Tail(@)]
    /\ IF Len(todo[c]) = 1
       THEN /\ Goto(c, "idle")
            /\ writer' = None
            /\ kind' = [kind EXCEPT ![c] = FALSE]
       ELSE Goto(c, "join") /\ UNCHANGED <<writer, kind>>
    /\ UNCHANGED <<publishing, inFlight, received, clients>>

-----------------------------------------------------------------------------
Leave(c, leaves(_)) ==
    channels' = [i \in DOMAIN channels |->
                   IF leaves(channels[i])
                   THEN [channels[i] EXCEPT !.subscribers = @ \ {c}]
                   ELSE channels[i]]

(* UNSUBSCRIBE and PUNSUBSCRIBE without names leave all channels of their  *)
(* kind.  With names they leave the channels with these names; and         *)
(* PUNSUBSCRIBE also every channel whose name the patterns match.          *)
Unsubscribe(c, names, withPattern) ==
    /\ Begin(c) /\ calls < MaxCalls
    /\ ReadUnlocked
    /\ calls' = calls + 1
    /\ IF names = {} THEN Leave(c, LAMBDA ch : ch.pattern = withPattern)
       ELSE Leave(c, LAMBDA ch :
               \/ ch.name \in names
               \/ withPattern /\ \E p \in names : <<p, ch.name>> \in Matches)
    /\ UNCHANGED <<writer, command, publishing, inFlight, received, stalled, gone>>

-----------------------------------------------------------------------------
(* PUBLISH of a new message to name n.                                     *)
StartPublish(c, n) ==
    /\ Begin(c) /\ Len(target) < MaxMessages
    /\ ReadUnlocked
    /\ target' = Append(target, n)
    /\ message' = [message EXCEPT ![c] = Len(target) + 1]
    /\ Goto(c, "publish")
    /\ UNCHANGED <<channels, writer, cursor, todo, kind, inFlight, received, clients>>

AcceptsOnlyPatterns(ch, n) == ch.pattern => <<ch.name, n>> \in Matches

Accepts(ch, n) == IF ch.pattern THEN <<ch.name, n>> \in Matches ELSE ch.name = n

(* The channels that the message has still to be queued in.               *)
Remaining(c) == {i \in cursor[c]..Len(channels) :
                    Accepts(channels[i], target[message[c]])}

NextChannel(c) == {i \in Remaining(c) : \A j \in Remaining(c) : i <= j}

PublishAgain(c) ==
    /\ at[c] = "publish"
    /\ \E i \in NextChannel(c) :
       /\ Len(channels[i].queue) < QueueSize
       /\ channels' = [channels EXCEPT ![i].queue = Append(@, message[c])]
       /\ \E next \in {i, i + 1} : cursor' = [cursor EXCEPT ![c] = next]
    /\ UNCHANGED <<writer, command, message, target, inFlight, received, clients>>

(* The send waits for room in the queue.                                   *)
PublishTo(c) ==
    /\ at[c] = "publish"
    /\ \E i \in NextChannel(c) :
       /\ Len(channels[i].queue) < QueueSize
       /\ channels' = [channels EXCEPT ![i].queue = Append(@, message[c])]
       /\ cursor' = [cursor EXCEPT ![c] = i + 1]
    /\ UNCHANGED <<writer, command, message, target, inFlight, received, clients>>

EndPublish(c) ==
    /\ at[c] = "publish" /\ Remaining(c) = {}
    /\ cursor' = [cursor EXCEPT ![c] = 1]
    /\ message' = [message EXCEPT ![c] = 0]
    /\ Goto(c, "idle")
    /\ UNCHANGED <<channels, writer, todo, kind, target, inFlight, received, clients>>

-----------------------------------------------------------------------------
(* Channel.Start: the goroutine of channel i takes the next message, and   *)
(* starts a goroutine for each subscriber of that moment.                  *)
Take(i) ==
    LET ch == channels[i] IN
    /\ ch.queue # <<>>
    /\ inFlight' = inFlight \cup
                     {[to |-> c, via |-> ch.name, msg |-> Head(ch.queue)] :
                         c \in ch.subscribers}
    /\ channels' = [channels EXCEPT ![i].queue = Tail(@)]
    /\ UNCHANGED <<writer, command, publishing, received, clients>>

WriteOneByOne(m) ==
    /\ m \in inFlight
    /\ m.to \notin stalled \/ m.to \in gone
    /\ \A other \in inFlight : other.via = m.via /\ other.to \in stalled => other.to \in gone
    /\ inFlight' = inFlight \ {m}
    /\ received' = IF m.to \in gone THEN received ELSE received \cup {m}
    /\ UNCHANGED <<channels, writer, command, publishing, clients>>

(* These goroutines run in any order; a write to a closed connection is an *)
(* error, which is logged.                                                 *)
Write(m) ==
    /\ m \in inFlight
    /\ m.to \notin stalled \/ m.to \in gone
    /\ inFlight' = inFlight \ {m}
    /\ received' = IF m.to \in gone THEN received ELSE received \cup {m}
    /\ UNCHANGED <<channels, writer, command, publishing, clients>>

Stall(c) ==
    /\ c \notin stalled \cup gone
    /\ stalled' = stalled \cup {c}
    /\ UNCHANGED <<channels, writer, command, publishing, inFlight, received, gone, calls>>

(* The connection's goroutine ends; nothing is done about its channels.    *)
Disconnect(c) ==
    /\ Begin(c)
    /\ gone' = gone \cup {c}
    /\ UNCHANGED <<channels, writer, command, publishing, inFlight, received, stalled, calls>>

-----------------------------------------------------------------------------
Command(c) ==
    \/ \E r \in Requests : Subscribe(c, r[1], r[2])
    \/ \E names \in {{}, Dropped}, p \in BOOLEAN : Unsubscribe(c, names, p)
    \/ \E n \in Targets : StartPublish(c, n)

Proceed(c) ==
    \/ Lock(c) \/ Join(c) \/ Confirm(c)
    \/ PublishTo(c) \/ EndPublish(c)

PubSubNext ==
    \/ \E c \in Conn : Command(c) \/ Proceed(c)
    \/ \E c \in Unreliable : Stall(c) \/ Disconnect(c)
    \/ \E i \in DOMAIN channels : Take(i)
    \/ \E m \in inFlight : Write(m)

(* Go runs the goroutines that can run: commands in progress, the channels *)
(* and the writes do not all stand still.                                  *)
PubSubFairness ==
    /\ WF_pubSubVars(\E c \in Conn : Proceed(c))
    /\ WF_pubSubVars(\E i \in DOMAIN channels : Take(i))
    /\ WF_pubSubVars(\E m \in inFlight : Write(m))

PubSubSpec == PubSubInit /\ [][PubSubNext]_pubSubVars /\ PubSubFairness

-----------------------------------------------------------------------------
PubSubTypeOK ==
    /\ channels \in Seq(Channel)
    /\ \A i \in DOMAIN channels : Len(channels[i].queue) <= QueueSize
    /\ writer \in Conn \cup {None}
    /\ at \in [Conn -> {"idle", "wait", "join", "confirm", "publish"}]
    /\ todo \in [Conn -> Seq(Name)] /\ kind \in [Conn -> BOOLEAN]
    /\ cursor \in [Conn -> Nat \ {0}] /\ message \in [Conn -> Nat]
    /\ target \in Seq(Name) /\ Len(target) <= MaxMessages
    /\ inFlight \subseteq Delivery /\ received \subseteq Delivery
    /\ stalled \subseteq Conn /\ gone \subseteq Conn
    /\ calls \in 0..MaxCalls

(* The list never has two channels of one name, of which the lookups would *)
(* see only the first, whatever kinds the clients ask for.                 *)
OneChannelPerName ==
    \A i, j \in DOMAIN channels : channels[i].name = channels[j].name => i = j

(* The list of channels changes only under the write lock, and nobody      *)
(* publishes, with a place in the list, meanwhile.                         *)
ListIsLocked ==
    \A c \in Conn :
        /\ at[c] \in {"join", "confirm"} => writer = c
        /\ at[c] = "publish" => writer = None

(* The list of channels, and who works on it.                              *)
ChannelsConsistent == PubSubTypeOK /\ ListIsLocked /\ OneChannelPerName

(* What a client gets through a plain channel was published to its name,   *)
(* and through a pattern to a name that it matches: a name stays of the    *)
(* kind it was created with, from the queue to the last write.             *)
RightMessages ==
    \A m \in inFlight \cup received, i \in DOMAIN channels :
        channels[i].name = m.via =>
            IF channels[i].pattern THEN <<m.via, target[m.msg]>> \in Matches
            ELSE target[m.msg] = m.via

(* Through one channel a message is sent to a client once: while it is     *)
(* queued nobody has it, and it is queued once.                            *)
NotTwice ==
    \A i \in DOMAIN channels :
        LET q == channels[i].queue IN
        /\ \A a, b \in DOMAIN q : q[a] = q[b] => a = b
        /\ \A m \in inFlight \cup received :
              m.via = channels[i].name => \A a \in DOMAIN q : q[a] # m.msg

(* A PUBLISH that has begun ends, stalled clients or not: their channels   *)
(* are drained all the same.                                               *)
PublishEnds ==
    \A c \in Conn : []<>(at[c] # "publish")

(* A SUBSCRIBE ends, and with it the lock of all channels, unless a client *)
(* that is not read is in one.                                             *)
SubscribeEnds ==
    \A c \in Conn :
        []<>(\/ at[c] \notin {"wait", "join", "confirm"}
             \/ \E s \in stalled : at[s] = "confirm")

(* No call waits for ever for channelsRWMut or for room in a queue.        *)
CallsEnd == PublishEnds /\ SubscribeEnds

Subscribed(c, n) ==
    \E i \in DOMAIN channels : channels[i].name = n /\ c \in channels[i].subscribers
Queued(n, m) ==
    \E i \in DOMAIN channels :
        channels[i].name = n /\ \E a \in DOMAIN channels[i].queue : channels[i].queue[a] = m

(* Who is subscribed when a message is queued gets it, whatever the other  *)
(* clients do, unless the client itself unsubscribes, stalls or leaves.    *)
SubscribersReceive ==
    \A c \in Conn \ Unreliable, n \in Name, m \in Msg :
        Subscribed(c, n) /\ Queued(n, m)
            ~> \/ ~Subscribed(c, n)
               \/ [to |-> c, via |-> n, msg |-> m] \in received
=============================================================================
