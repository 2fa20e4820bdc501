---------------------------- MODULE PubSubProofs ----------------------------
(***************************************************************************)
(* Proofs about PubSub, for any connections, names, patterns and messages, *)
(* and for queues of any size.                                             *)
(*                                                                         *)
(* RightMessages speaks of the messages that have left a queue.  Its proof *)
(* needs the same of those that are still in one (QueuesAccept), and that  *)
(* every delivery came through a channel that exists (DeliveriesKnown): a  *)
(* channel that is created later is then not the one it came through.      *)
(***************************************************************************)
EXTENDS PubSub, TLAPS

(* A SUBSCRIBE that is under way has a name to subscribe to, and a PUBLISH *)
(* a message that was given a target.                                      *)
CommandsUnderWay ==
    \A c \in Conn :
        /\ at[c] \in {"wait", "join", "confirm"} => todo[c] # <<>>
        /\ at[c] = "publish" => message[c] \in 1..Len(target)

QueuesAccept ==
    \A i \in DOMAIN channels : \A a \in DOMAIN channels[i].queue :
        LET m == channels[i].queue[a] IN
        m \in 1..Len(target) /\ Accepts(channels[i], target[m])

DeliveriesKnown ==
    \A m \in inFlight \cup received :
        /\ m.msg \in 1..Len(target)
        /\ \E i \in DOMAIN channels : channels[i].name = m.via

Routed == OneChannelPerName /\ QueuesAccept /\ DeliveriesKnown /\ RightMessages

IInv == PubSubTypeOK /\ CommandsUnderWay /\ ListIsLocked /\ Routed

(* What a queue holds after a message was added to it.                     *)
LEMMA Enqueued ==
    ASSUME NEW q \in Seq(Msg), NEW m \in Msg
    PROVE  /\ Append(q, m) \in Seq(Msg) /\ Len(Append(q, m)) = Len(q) + 1
           /\ \A a \in DOMAIN Append(q, m) :
                 \/ a \in DOMAIN q /\ Append(q, m)[a] = q[a]
                 \/ a = Len(q) + 1 /\ Append(q, m)[a] = m
  OBVIOUS

(* What a sequence holds after its first element was taken.                *)
LEMMA Dequeued ==
    ASSUME NEW S, NEW q \in Seq(S), q # <<>>
    PROVE  /\ Tail(q) \in Seq(S) /\ Len(Tail(q)) = Len(q) - 1
           /\ Head(q) = q[1] /\ 1 \in DOMAIN q /\ Head(q) \in S
           /\ \A a \in DOMAIN Tail(q) : a + 1 \in DOMAIN q /\ Tail(q)[a] = q[a + 1]
           /\ Len(q) # 1 => Tail(q) # <<>>
  <1>1. Len(q) \in Nat /\ Len(q) > 0
    OBVIOUS
  <1>2. Tail(q) \in Seq(S) /\ Len(Tail(q)) = Len(q) - 1
    BY <1>1
  <1>3. Len(q) # 1 => Tail(q) # <<>>
    <2>1. Len(<<>>) = 0
      OBVIOUS
    <2>2. Tail(q) = <<>> => Len(Tail(q)) = 0
      BY <2>1, Zenon
    <2>3. QED
      BY <1>1, <1>2, <2>2
  <1>4. Head(q) = q[1] /\ 1 \in DOMAIN q /\ Head(q) \in S
    BY <1>1
  <1>5. \A a \in DOMAIN Tail(q) : a + 1 \in DOMAIN q /\ Tail(q)[a] = q[a + 1]
    BY <1>1, <1>2
  <1> QED
    BY <1>2, <1>3, <1>4, <1>5

(* What a place of the list holds.                                         *)
LEMMA PlaceType ==
    ASSUME NEW s \in Seq(Channel), NEW i \in DOMAIN s
    PROVE  /\ s[i] \in Channel /\ s[i].name \in Name
           /\ s[i].subscribers \in SUBSET Conn /\ s[i].queue \in Seq(Msg)
  <1>1. s[i] \in Channel
    OBVIOUS
  <1>2. QED
    BY <1>1 DEF Channel

(* A list with a channel in every place of another is a list of channels.  *)
LEMMA SamePlaces ==
    ASSUME NEW s \in Seq(Channel), NEW t,
           t = [i \in DOMAIN s |-> t[i]], \A i \in DOMAIN s : t[i] \in Channel
    PROVE  t \in Seq(Channel)
  <1>1. t = [i \in 1..Len(s) |-> t[i]] /\ Len(s) \in Nat
    OBVIOUS
  <1>2. QED
    BY <1>1

(* A channel keeps its name and kind, whatever becomes of its queue.       *)
WithQueue(s, i, q) == [s EXCEPT ![i].queue = q]

OnlyQueue(s, t, i, q) ==
    /\ t \in Seq(Channel) /\ DOMAIN t = DOMAIN s
    /\ t[i].queue = q
    /\ \A j \in DOMAIN s :
          /\ t[j].name = s[j].name /\ t[j].pattern = s[j].pattern
          /\ j # i => t[j] = s[j]

(* A list in which one queue is exchanged differs in that queue alone.     *)
LEMMA Requeued ==
    ASSUME NEW s \in Seq(Channel), NEW i \in DOMAIN s, NEW q \in Seq(Msg), NEW t,
           t = WithQueue(s, i, q)
    PROVE  OnlyQueue(s, t, i, q)
  <1>domain. DOMAIN t = DOMAIN s
    BY DEF WithQueue
  <1>channel. s[i] \in Channel /\ t[i] = [s[i] EXCEPT !.queue = q]
    BY DEF WithQueue
  <1>changed. t[i] \in Channel /\ t[i].queue = q /\ t[i].name = s[i].name
              /\ t[i].pattern = s[i].pattern
    BY <1>channel DEF Channel
  <1>others. \A j \in DOMAIN s : j # i => t[j] = s[j]
    BY DEF WithQueue
  <1>all. \A j \in DOMAIN s : t[j] \in Channel
    BY <1>changed, <1>others
  <1>places. t = [j \in DOMAIN s |-> t[j]]
    BY DEF WithQueue
  <1>type. t \in Seq(Channel)
    BY <1>all, <1>places, SamePlaces
  <1> QED
    BY <1>domain, <1>changed, <1>others, <1>type DEF OnlyQueue

(* So it does when a client comes or goes.                                 *)
With(ch, who) == [ch EXCEPT !.subscribers = who]

(* A channel whose subscribers change keeps the rest.                      *)
LEMMA NewSubscribers ==
    ASSUME NEW ch \in Channel, NEW who \in SUBSET Conn
    PROVE  /\ With(ch, who) \in Channel /\ With(ch, who).name = ch.name
           /\ With(ch, who).pattern = ch.pattern /\ With(ch, who).queue = ch.queue
  BY DEF Channel, With

(* A list whose channels keep all but their subscribers keeps names, kinds *)
(* and queues.                                                             *)
LEMMA Resubscribed ==
    ASSUME NEW s \in Seq(Channel), NEW t,
           t = [i \in DOMAIN s |-> t[i]],
           \A i \in DOMAIN s :
              \/ t[i] = s[i]
              \/ \E who \in SUBSET Conn : t[i] = With(s[i], who)
    PROVE  /\ t \in Seq(Channel) /\ DOMAIN t = DOMAIN s
           /\ \A j \in DOMAIN s :
                 /\ t[j].name = s[j].name /\ t[j].pattern = s[j].pattern
                 /\ t[j].queue = s[j].queue
  <1>each. ASSUME NEW i \in DOMAIN s
           PROVE  /\ t[i] \in Channel /\ t[i].name = s[i].name
                  /\ t[i].pattern = s[i].pattern /\ t[i].queue = s[i].queue
    <2>1. s[i] \in Channel
      OBVIOUS
    <2>2. CASE t[i] = s[i]
      BY <2>1, <2>2
    <2>3. ASSUME NEW who \in SUBSET Conn, t[i] = With(s[i], who)
          PROVE  <1>each!2
      BY <2>1, <2>3, NewSubscribers
    <2>4. QED
      BY <2>2, <2>3, Zenon
  <1>type. t \in Seq(Channel)
    BY <1>each, SamePlaces
  <1>domain. DOMAIN t = DOMAIN s
    BY Zenon
  <1> QED
    BY <1>each, <1>type, <1>domain

(* A new channel comes last, and takes no other's place.                   *)
LEMMA Listed ==
    ASSUME NEW s \in Seq(Channel), NEW ch \in Channel
    PROVE  /\ Append(s, ch) \in Seq(Channel)
           /\ DOMAIN s \subseteq DOMAIN Append(s, ch)
           /\ \A j \in DOMAIN Append(s, ch) :
                 \/ j \in DOMAIN s /\ Append(s, ch)[j] = s[j]
                 \/ j = Len(s) + 1 /\ Append(s, ch)[j] = ch
           /\ \A j \in DOMAIN s : Append(s, ch)[j] = s[j]
  OBVIOUS

Steady ==
    /\ DOMAIN channels' = DOMAIN channels
    /\ \A j \in DOMAIN channels :
          /\ channels'[j].name = channels[j].name
          /\ channels'[j].pattern = channels[j].pattern
          /\ channels'[j].queue = channels[j].queue

(* A step that leaves the names, kinds and queues of the channels, and the *)
(* deliveries, as they are, keeps messages where they belong.              *)
LEMMA Undisturbed ==
    ASSUME PubSubTypeOK, Routed, UNCHANGED <<target, inFlight, received>>, Steady
    PROVE  Routed'
  <1> USE DEF Routed, Steady
  <1>1. OneChannelPerName'
    BY DEF OneChannelPerName
  <1>2. QueuesAccept'
    BY DEF QueuesAccept, Accepts
  <1>3. DeliveriesKnown'
    BY DEF DeliveriesKnown
  <1>4. RightMessages'
    BY DEF RightMessages
  <1> QED
    BY <1>1, <1>2, <1>3, <1>4

(* A server without channels satisfies the invariant.                      *)
THEOREM InitInv == PubSubInit => IInv
  <1> SUFFICES ASSUME PubSubInit PROVE IInv
    OBVIOUS
  <1> USE PubSubAssumption DEF PubSubInit
  <1>1. PubSubTypeOK
    BY DEF PubSubTypeOK
  <1>2. CommandsUnderWay /\ ListIsLocked
    BY DEF CommandsUnderWay, ListIsLocked
  <1>3. Routed
    BY DEF Routed, OneChannelPerName, QueuesAccept, DeliveriesKnown, RightMessages
  <1> QED
    BY <1>1, <1>2, <1>3 DEF IInv

(* The commands that only ask for the lock or change who is subscribed.    *)
LEMMA SubscribeInv ==
    ASSUME IInv, NEW c \in Conn, NEW r \in Requests, Subscribe(c, r[1], r[2])
    PROVE  IInv'
  <1> USE DEF IInv
  <1>request. r[1] \in Seq(Name) /\ r[1] # <<>> /\ r[2] \in BOOLEAN
    BY PubSubAssumption
  <1>kind. kind' \in [Conn -> BOOLEAN]
    BY <1>request, Zenon DEF PubSubTypeOK, Subscribe
  <1>others. UNCHANGED <<channels, writer, cursor, message, target, inFlight, received,
                         stalled, gone>>
    BY DEF Subscribe, publishing
  <1>todo. todo' \in [Conn -> Seq(Name)]
    BY <1>request DEF PubSubTypeOK, Subscribe
  <1>at. at' \in [Conn -> {"idle", "wait", "join", "confirm", "publish"}]
    BY DEF PubSubTypeOK, Subscribe, Goto
  <1>calls. calls' \in 0..MaxCalls
    BY PubSubAssumption DEF PubSubTypeOK, Subscribe
  <1>1. PubSubTypeOK'
    BY <1>kind, <1>others, <1>todo, <1>at, <1>calls, Zenon DEF PubSubTypeOK
  <1>2. CommandsUnderWay'
    BY <1>request DEF CommandsUnderWay, PubSubTypeOK, Subscribe, Goto, publishing
  <1>3. ListIsLocked'
    BY DEF ListIsLocked, PubSubTypeOK, Subscribe, Goto
  <1>4. Routed'
    BY Undisturbed DEF Subscribe, publishing, Steady
  <1> QED
    BY <1>1, <1>2, <1>3, <1>4

(* Who takes the write lock finds nobody publishing or subscribing.        *)
LEMMA LockInv ==
    ASSUME IInv, NEW c \in Conn, Lock(c)
    PROVE  IInv'
  <1> USE DEF IInv
  <1>1. PubSubTypeOK'
    BY DEF PubSubTypeOK, Lock, Goto, publishing, clients
  <1>2. CommandsUnderWay'
    BY DEF CommandsUnderWay, PubSubTypeOK, Lock, Goto, publishing
  <1>3. ListIsLocked'
    BY PubSubAssumption DEF ListIsLocked, PubSubTypeOK, Lock, Goto, WriteUnlocked
  <1>4. Routed'
    BY Undisturbed DEF Lock, publishing, Steady
  <1> QED
    BY <1>1, <1>2, <1>3, <1>4

(* Joining changes nothing but the subscribers of a channel.               *)
LEMMA JoinSteady ==
    ASSUME PubSubTypeOK, NEW c \in Conn, Join(c)
    PROVE  channels' \in Seq(Channel) /\ Steady
  <1>list. channels \in Seq(Channel)
    BY DEF PubSubTypeOK
  <1>who. \A i \in DOMAIN channels : channels[i].subscribers \cup {c} \in SUBSET Conn
    BY <1>list, PlaceType
  <1>each. ASSUME NEW i \in DOMAIN channels
           PROVE  \/ channels'[i] = channels[i]
                  \/ \E who \in SUBSET Conn : channels'[i] = With(channels[i], who)
    <2>1. CASE i \in Existing(c)
      <3>1. channels'[i] = With(channels[i], channels[i].subscribers \cup {c})
        BY <2>1 DEF Join, With
      <3>2. QED
        BY <3>1, <1>who
    <2>2. CASE i \notin Existing(c)
      BY <2>2 DEF Join
    <2>3. QED
      BY <2>1, <2>2
  <1>places. channels' = [i \in DOMAIN channels |-> channels'[i]]
    BY DEF Join
  <1> QED
    BY <1>list, <1>each, <1>places, Resubscribed DEF Steady

(* Joining an existing channel keeps the invariant.                        *)
LEMMA JoinInv ==
    ASSUME IInv, NEW c \in Conn, Join(c)
    PROVE  IInv'
  <1> USE DEF IInv
  <1>list. UNCHANGED <<target, inFlight, received>>
    BY DEF Join, publishing
  <1>same. channels' \in Seq(Channel) /\ Steady
    BY JoinSteady
  <1>1. PubSubTypeOK'
    BY <1>same DEF PubSubTypeOK, Join, Goto, publishing, clients, Steady
  <1>2. CommandsUnderWay'
    BY DEF CommandsUnderWay, PubSubTypeOK, Join, Goto, publishing
  <1>3. ListIsLocked'
    BY DEF ListIsLocked, PubSubTypeOK, Join, Goto
  <1>4. Routed'
    BY <1>list, <1>same, Undisturbed
  <1> QED
    BY <1>1, <1>2, <1>3, <1>4

(* The channel that Confirm creates has a name that no other has; it is    *)
(* not the one that an earlier delivery came through.                      *)
LEMMA ConfirmInv ==
    ASSUME IInv, NEW c \in Conn, Confirm(c)
    PROVE  IInv'
  <1> USE DEF IInv
  <1>name. todo[c] \in Seq(Name) /\ todo[c] # <<>> /\ Head(todo[c]) \in Name
           /\ Tail(todo[c]) \in Seq(Name) /\ (Len(todo[c]) # 1 => Tail(todo[c]) # <<>>)
    <2>1. todo[c] \in Seq(Name) /\ todo[c] # <<>>
      BY DEF PubSubTypeOK, CommandsUnderWay, Confirm
    <2>2. QED
      BY <2>1, Dequeued
  <1>new. NewChannel(c) \in Channel /\ NewChannel(c).name = Head(todo[c])
          /\ NewChannel(c).queue = <<>>
    <2>1. kind[c] \in BOOLEAN
      BY DEF PubSubTypeOK
    <2>2. QED
      BY <1>name, <2>1 DEF NewChannel, Channel
  <1>list. channels \in Seq(Channel) /\ UNCHANGED <<target, inFlight, received>>
    BY DEF PubSubTypeOK, Confirm, publishing
  <1>type. channels' \in Seq(Channel)
           /\ \A i \in DOMAIN channels' : Len(channels'[i].queue) <= QueueSize
    BY <1>new, <1>list, Listed, PubSubAssumption DEF Confirm, PubSubTypeOK
  <1>others. /\ UNCHANGED <<cursor, message, target, inFlight, received, stalled, gone, calls>>
             /\ writer' \in {writer, None}
             /\ kind' = kind \/ kind' = [kind EXCEPT ![c] = FALSE]
    BY DEF Confirm, publishing, clients
  <1>kind. kind' \in [Conn -> BOOLEAN]
    BY <1>others, Zenon DEF PubSubTypeOK
  <1>todo. todo' \in [Conn -> Seq(Name)]
    BY <1>name DEF PubSubTypeOK, Confirm
  <1>at. at' \in [Conn -> {"idle", "wait", "join", "confirm", "publish"}]
    BY DEF PubSubTypeOK, Confirm, Goto
  <1>1. PubSubTypeOK'
    BY <1>type, <1>others, <1>kind, <1>todo, <1>at, Zenon DEF PubSubTypeOK
  <1>2. CommandsUnderWay'
    BY <1>name, <1>others DEF CommandsUnderWay, PubSubTypeOK, Confirm, Goto
  <1>3. ListIsLocked'
    BY PubSubAssumption DEF ListIsLocked, PubSubTypeOK, Confirm, Goto
  <1>4. Routed'
    <2>1. CASE Existing(c) # {}
      BY <2>1, <1>list, Undisturbed DEF Confirm, Steady
    <2>2. CASE Existing(c) = {}
      <3>channels. channels' = Append(channels, NewChannel(c))
        BY <2>2 DEF Confirm
      <3>places. /\ DOMAIN channels \subseteq DOMAIN channels'
                 /\ \A j \in DOMAIN channels' :
                       \/ j \in DOMAIN channels /\ channels'[j] = channels[j]
                       \/ j = Len(channels) + 1 /\ channels'[j] = NewChannel(c)
                 /\ \A j \in DOMAIN channels : channels'[j] = channels[j]
        BY <3>channels, <1>new, <1>list, Listed
      <3>fresh. \A j \in DOMAIN channels : channels[j].name # NewChannel(c).name
        BY <2>2, <1>new DEF Existing
      <3>1. OneChannelPerName'
        BY <3>places, <3>fresh DEF Routed, OneChannelPerName
      <3>2. QueuesAccept'
        <4> SUFFICES ASSUME NEW i \in DOMAIN channels', NEW a \in DOMAIN channels'[i].queue
                     PROVE  /\ channels'[i].queue[a] \in 1..Len(target)
                            /\ Accepts(channels'[i], target[channels'[i].queue[a]])
          BY <1>list DEF QueuesAccept, Accepts
        <4>1. channels'[i] # NewChannel(c)
          BY <1>new
        <4>2. i \in DOMAIN channels /\ channels'[i] = channels[i]
          BY <4>1, <3>places
        <4>3. QED
          BY <4>2 DEF Routed, QueuesAccept
      <3>3. DeliveriesKnown'
        BY <3>places, <1>list DEF Routed, DeliveriesKnown
      <3>4. RightMessages'
        <4> SUFFICES ASSUME NEW m \in inFlight \cup received, NEW i \in DOMAIN channels',
                            channels'[i].name = m.via
                     PROVE  IF channels'[i].pattern THEN <<m.via, target[m.msg]>> \in Matches
                            ELSE target[m.msg] = m.via
          BY <1>list DEF RightMessages
        <4>1. PICK k \in DOMAIN channels : channels[k].name = m.via
          BY DEF Routed, DeliveriesKnown
        <4>2. i \in DOMAIN channels /\ channels'[i] = channels[i]
          BY <4>1, <3>places, <3>fresh
        <4>3. QED
          BY <4>2 DEF Routed, RightMessages
      <3> QED
        BY <3>1, <3>2, <3>3, <3>4 DEF Routed
    <2>3. QED
      BY <2>1, <2>2
  <1> QED
    BY <1>1, <1>2, <1>3, <1>4

(* Leaving changes nothing but the subscribers of channels.                *)
LEMMA UnsubscribeSteady ==
    ASSUME PubSubTypeOK, NEW c \in Conn, NEW names, NEW p, Unsubscribe(c, names, p)
    PROVE  channels' \in Seq(Channel) /\ Steady
  <1>list. channels \in Seq(Channel)
    BY DEF PubSubTypeOK
  <1>who. \A i \in DOMAIN channels : channels[i].subscribers \ {c} \in SUBSET Conn
    BY <1>list, PlaceType
  <1>each. ASSUME NEW i \in DOMAIN channels
           PROVE  \/ channels'[i] = channels[i]
                  \/ \E who \in SUBSET Conn : channels'[i] = With(channels[i], who)
    <2>1. \/ channels'[i] = channels[i]
          \/ channels'[i] = With(channels[i], channels[i].subscribers \ {c})
      BY DEF Unsubscribe, Leave, With
    <2>2. QED
      BY <2>1, <1>who
  <1>places. channels' = [i \in DOMAIN channels |-> channels'[i]]
    BY DEF Unsubscribe, Leave
  <1> QED
    BY <1>list, <1>each, <1>places, Resubscribed DEF Steady

(* UNSUBSCRIBE and PUNSUBSCRIBE keep the invariant.                        *)
LEMMA UnsubscribeInv ==
    ASSUME IInv, NEW c \in Conn, NEW names, NEW p, Unsubscribe(c, names, p)
    PROVE  IInv'
  <1> USE DEF IInv
  <1>others. UNCHANGED <<writer, at, todo, kind, cursor, message, target, inFlight,
                         received, stalled, gone>>
             /\ calls < MaxCalls /\ calls' = calls + 1
    BY DEF Unsubscribe, command, publishing
  <1>same. channels' \in Seq(Channel) /\ Steady
    BY UnsubscribeSteady
  <1>calls. calls' \in 0..MaxCalls
    BY <1>others, PubSubAssumption DEF PubSubTypeOK
  <1>1. PubSubTypeOK'
    BY <1>same, <1>others, <1>calls DEF PubSubTypeOK, Steady
  <1>2. CommandsUnderWay' /\ ListIsLocked'
    BY <1>others DEF CommandsUnderWay, ListIsLocked
  <1>3. Routed'
    BY <1>same, <1>others, Undisturbed
  <1> QED
    BY <1>1, <1>2, <1>3

(* A message is given its target once: those of the others stay.           *)
LEMMA StartPublishInv ==
    ASSUME IInv, NEW c \in Conn, NEW n \in Name, StartPublish(c, n)
    PROVE  IInv'
  <1> USE DEF IInv
  <1>targets. /\ target' \in Seq(Name) /\ Len(target) \in Nat
              /\ Len(target') = Len(target) + 1 /\ Len(target') <= MaxMessages
              /\ \A m \in 1..Len(target) : m \in 1..Len(target') /\ target'[m] = target[m]
    BY PubSubAssumption DEF PubSubTypeOK, StartPublish
  <1>others. UNCHANGED <<channels, writer, cursor, todo, kind, inFlight, received,
                         stalled, gone, calls>>
    BY DEF StartPublish, clients
  <1>at. at' \in [Conn -> {"idle", "wait", "join", "confirm", "publish"}]
    BY DEF PubSubTypeOK, StartPublish, Goto
  <1>message. message' \in [Conn -> Nat]
    BY <1>targets DEF PubSubTypeOK, StartPublish
  <1>1. PubSubTypeOK'
    BY <1>targets, <1>others, <1>at, <1>message, Zenon DEF PubSubTypeOK
  <1>2. CommandsUnderWay'
    BY <1>targets, <1>others DEF CommandsUnderWay, PubSubTypeOK, StartPublish, Goto
  <1>3. ListIsLocked'
    BY <1>others DEF ListIsLocked, PubSubTypeOK, StartPublish, Goto, ReadUnlocked
  <1>4. Routed'
    <2>1. OneChannelPerName'
      BY <1>others DEF Routed, OneChannelPerName
    <2>2. QueuesAccept'
      BY <1>others, <1>targets DEF Routed, QueuesAccept, Accepts
    <2>3. DeliveriesKnown'
      BY <1>others, <1>targets DEF Routed, DeliveriesKnown
    <2>4. RightMessages'
      BY <1>others, <1>targets DEF Routed, RightMessages, DeliveriesKnown
    <2> QED
      BY <2>1, <2>2, <2>3, <2>4 DEF Routed
  <1> QED
    BY <1>1, <1>2, <1>3, <1>4

(* A message is queued only where it is accepted, and further on than the  *)
(* PUBLISH has come.                                                       *)
LEMMA PublishToEffect ==
    ASSUME PubSubTypeOK, CommandsUnderWay, NEW c \in Conn, PublishTo(c)
    PROVE  \E i \in DOMAIN channels :
              /\ cursor[c] <= i /\ cursor' = [cursor EXCEPT ![c] = i + 1]
              /\ Accepts(channels[i], target[message[c]])
              /\ Len(channels[i].queue) < QueueSize
              /\ OnlyQueue(channels, channels', i, Append(channels[i].queue, message[c]))
  <1>list. channels \in Seq(Channel)
    BY DEF PubSubTypeOK
  <1>message. message[c] \in Msg
    BY PubSubAssumption DEF PubSubTypeOK, CommandsUnderWay, PublishTo, Msg
  <1>1. PICK i \in NextChannel(c) :
            /\ Len(channels[i].queue) < QueueSize
            /\ channels' = [channels EXCEPT ![i].queue = Append(@, message[c])]
            /\ cursor' = [cursor EXCEPT ![c] = i + 1]
    BY DEF PublishTo
  <1>2. i \in DOMAIN channels /\ cursor[c] <= i /\ Accepts(channels[i], target[message[c]])
    <2>1. cursor[c] \in Nat \ {0} /\ Len(channels) \in Nat /\ DOMAIN channels = 1..Len(channels)
      BY <1>list DEF PubSubTypeOK
    <2>2. i \in cursor[c]..Len(channels) /\ Accepts(channels[i], target[message[c]])
      BY <1>1 DEF NextChannel, Remaining
    <2>3. QED
      BY <2>1, <2>2
  <1>3. Append(channels[i].queue, message[c]) \in Seq(Msg)
    BY <1>list, <1>2, <1>message, PlaceType, Enqueued
  <1>4. channels' = WithQueue(channels, i, Append(channels[i].queue, message[c]))
    BY <1>1, <1>2 DEF WithQueue
  <1>5. OnlyQueue(channels, channels', i, Append(channels[i].queue, message[c]))
    BY <1>list, <1>2, <1>3, <1>4, Requeued
  <1> QED
    BY <1>1, <1>2, <1>5

(* Queueing a message in the next channel keeps the invariant.             *)
LEMMA PublishToInv ==
    ASSUME IInv, NEW c \in Conn, PublishTo(c)
    PROVE  IInv'
  <1> USE DEF IInv
  <1>others. UNCHANGED <<writer, at, todo, kind, message, target, inFlight, received,
                         stalled, gone, calls>>
    BY DEF PublishTo, command, clients
  <1>list. channels \in Seq(Channel)
    BY DEF PubSubTypeOK
  <1>message. message[c] \in 1..Len(target) /\ message[c] \in Msg
    BY PubSubAssumption DEF PubSubTypeOK, CommandsUnderWay, PublishTo, Msg
  <1>place. PICK i \in DOMAIN channels :
              /\ cursor[c] <= i /\ cursor' = [cursor EXCEPT ![c] = i + 1]
              /\ Accepts(channels[i], target[message[c]])
              /\ Len(channels[i].queue) < QueueSize
              /\ OnlyQueue(channels, channels', i, Append(channels[i].queue, message[c]))
    BY PublishToEffect
  <1>queue. channels[i].queue \in Seq(Msg)
    BY <1>list, PlaceType
  <1>longer. /\ Append(channels[i].queue, message[c]) \in Seq(Msg)
             /\ Len(Append(channels[i].queue, message[c])) = Len(channels[i].queue) + 1
             /\ \A a \in DOMAIN Append(channels[i].queue, message[c]) :
                  \/ /\ a \in DOMAIN channels[i].queue
                     /\ Append(channels[i].queue, message[c])[a] = channels[i].queue[a]
                  \/ Append(channels[i].queue, message[c])[a] = message[c]
    BY <1>queue, <1>message, Enqueued
  <1>same. OnlyQueue(channels, channels', i, Append(channels[i].queue, message[c]))
    BY <1>place
  <1> USE DEF OnlyQueue
  <1>room. \A j \in DOMAIN channels' : Len(channels'[j].queue) <= QueueSize
    <2>1. Len(channels[i].queue) \in Nat
      BY <1>queue
    <2>2. Len(channels'[i].queue) <= QueueSize
      BY <2>1, <1>place, <1>longer, PubSubAssumption
    <2>3. \A j \in DOMAIN channels : Len(channels[j].queue) <= QueueSize
      BY DEF PubSubTypeOK
    <2>4. QED
      BY <2>2, <2>3, <1>same
  <1>cursor. cursor' \in [Conn -> Nat \ {0}]
    BY <1>place, <1>list DEF PubSubTypeOK
  <1>1. PubSubTypeOK'
    BY <1>others, <1>same, <1>room, <1>cursor, Zenon DEF PubSubTypeOK
  <1>2. CommandsUnderWay' /\ ListIsLocked'
    BY <1>others DEF CommandsUnderWay, ListIsLocked
  <1>3. Routed'
    <2>1. OneChannelPerName'
      BY <1>same DEF Routed, OneChannelPerName
    <2>2. QueuesAccept'
      <3> SUFFICES ASSUME NEW j \in DOMAIN channels, NEW a \in DOMAIN channels'[j].queue
                   PROVE  /\ channels'[j].queue[a] \in 1..Len(target)
                          /\ Accepts(channels[j], target[channels'[j].queue[a]])
        BY <1>others, <1>same DEF QueuesAccept, Accepts
      <3>1. CASE j # i
        BY <3>1, <1>same DEF Routed, QueuesAccept
      <3>2. CASE j = i
        BY <3>2, <1>same, <1>longer, <1>place, <1>message DEF Routed, QueuesAccept
      <3>3. QED
        BY <3>1, <3>2
    <2>3. DeliveriesKnown'
      BY <1>others, <1>same DEF Routed, DeliveriesKnown
    <2>4. RightMessages'
      BY <1>others, <1>same DEF Routed, RightMessages
    <2> QED
      BY <2>1, <2>2, <2>3, <2>4 DEF Routed
  <1> QED
    BY <1>1, <1>2, <1>3

(* The end of a PUBLISH keeps the invariant.                               *)
LEMMA EndPublishInv ==
    ASSUME IInv, NEW c \in Conn, EndPublish(c)
    PROVE  IInv'
  <1> USE DEF IInv
  <1>others. UNCHANGED <<channels, writer, todo, kind, target, inFlight, received,
                         stalled, gone, calls>>
    BY DEF EndPublish, clients
  <1>changed. /\ at' \in [Conn -> {"idle", "wait", "join", "confirm", "publish"}]
              /\ cursor' \in [Conn -> Nat \ {0}] /\ message' \in [Conn -> Nat]
    BY DEF PubSubTypeOK, EndPublish, Goto
  <1>1. PubSubTypeOK'
    BY <1>others, <1>changed, Zenon DEF PubSubTypeOK
  <1>2. CommandsUnderWay' /\ ListIsLocked'
    BY <1>others DEF CommandsUnderWay, ListIsLocked, PubSubTypeOK, EndPublish, Goto
  <1>3. Routed'
    BY <1>others, Undisturbed DEF Steady
  <1> QED
    BY <1>1, <1>2, <1>3

(* The goroutine of a channel hands on what its queue has accepted.        *)
LEMMA TakeEffect ==
    ASSUME PubSubTypeOK, NEW i \in DOMAIN channels, Take(i)
    PROVE  /\ Tail(channels[i].queue) \in Seq(Msg)
           /\ OnlyQueue(channels, channels', i, Tail(channels[i].queue))
  <1>list. channels \in Seq(Channel)
    BY DEF PubSubTypeOK
  <1>1. channels[i].queue \in Seq(Msg)
    BY <1>list, PlaceType
  <1>2. Tail(channels[i].queue) \in Seq(Msg)
    BY <1>1, Dequeued DEF Take
  <1>3. channels' = WithQueue(channels, i, Tail(channels[i].queue))
    BY DEF Take, WithQueue
  <1> QED
    BY <1>list, <1>2, <1>3, Requeued

(* What leaves a queue for its subscribers is what the channel accepts.    *)
LEMMA TakeInv ==
    ASSUME IInv, NEW i \in DOMAIN channels, Take(i)
    PROVE  IInv'
  <1> USE DEF IInv
  <1> DEFINE ch == channels[i]
             sent == {[to |-> c, via |-> ch.name, msg |-> Head(ch.queue)] : c \in ch.subscribers}
  <1>others. /\ UNCHANGED <<writer, at, todo, kind, cursor, message, target, received,
                            stalled, gone, calls>>
             /\ inFlight' = inFlight \cup sent
    BY DEF Take, command, publishing, clients
  <1>list. channels \in Seq(Channel)
    BY DEF PubSubTypeOK
  <1>place. ch.queue \in Seq(Msg) /\ ch.name \in Name /\ ch.subscribers \in SUBSET Conn
    BY <1>list, PlaceType
  <1>queue. /\ Len(Tail(ch.queue)) = Len(ch.queue) - 1
            /\ Head(ch.queue) = ch.queue[1] /\ 1 \in DOMAIN ch.queue /\ Head(ch.queue) \in Msg
            /\ \A a \in DOMAIN Tail(ch.queue) :
                  a + 1 \in DOMAIN ch.queue /\ Tail(ch.queue)[a] = ch.queue[a + 1]
    BY <1>place, Dequeued DEF Take
  <1>same. OnlyQueue(channels, channels', i, Tail(ch.queue))
    BY TakeEffect
  <1> USE DEF OnlyQueue
  <1>sent. \A m \in sent : m \in Delivery /\ m.via = ch.name /\ m.msg = ch.queue[1]
    BY <1>place, <1>queue DEF Delivery
  <1>head. ch.queue[1] \in 1..Len(target) /\ Accepts(ch, target[ch.queue[1]])
    BY <1>queue DEF Routed, QueuesAccept
  <1> HIDE DEF ch, sent
  <1>room. \A j \in DOMAIN channels' : Len(channels'[j].queue) <= QueueSize
    <2>1. \A j \in DOMAIN channels : Len(channels[j].queue) <= QueueSize
      BY DEF PubSubTypeOK
    <2>2. Len(ch.queue) \in Nat /\ Len(ch.queue) <= QueueSize
      BY <1>place, <2>1 DEF ch
    <2>3. Len(channels'[i].queue) <= QueueSize
      BY <2>2, <1>same, <1>queue, PubSubAssumption
    <2>4. QED
      BY <2>1, <2>3, <1>same
  <1>inFlight. inFlight' \subseteq Delivery
    BY <1>others, <1>sent, Zenon DEF PubSubTypeOK
  <1>1. PubSubTypeOK'
    BY <1>others, <1>same, <1>room, <1>inFlight, Zenon DEF PubSubTypeOK
  <1>2. CommandsUnderWay' /\ ListIsLocked'
    BY <1>others DEF CommandsUnderWay, ListIsLocked
  <1>3. Routed'
    <2>1. OneChannelPerName'
      BY <1>same DEF Routed, OneChannelPerName
    <2>2. QueuesAccept'
      <3> SUFFICES ASSUME NEW j \in DOMAIN channels, NEW a \in DOMAIN channels'[j].queue
                   PROVE  /\ channels'[j].queue[a] \in 1..Len(target)
                          /\ Accepts(channels[j], target[channels'[j].queue[a]])
        BY <1>others, <1>same DEF QueuesAccept, Accepts
      <3>1. CASE j # i
        BY <3>1, <1>same DEF Routed, QueuesAccept
      <3>2. CASE j = i
        BY <3>2, <1>same, <1>queue DEF Routed, QueuesAccept, ch
      <3>3. QED
        BY <3>1, <3>2
    <2>3. DeliveriesKnown'
      BY <1>others, <1>same, <1>sent, <1>head DEF Routed, DeliveriesKnown, ch
    <2>4. RightMessages'
      <3> SUFFICES ASSUME NEW m \in inFlight' \cup received', NEW j \in DOMAIN channels,
                          channels[j].name = m.via
                   PROVE  IF channels[j].pattern THEN <<m.via, target[m.msg]>> \in Matches
                          ELSE target[m.msg] = m.via
        BY <1>others, <1>same DEF RightMessages
      <3>1. CASE m \in sent
        <4>1. j = i
          BY <3>1, <1>sent DEF Routed, OneChannelPerName, ch
        <4>2. QED
          BY <4>1, <3>1, <1>sent, <1>head DEF Accepts, ch
      <3>2. CASE m \in inFlight \cup received
        BY <3>2 DEF Routed, RightMessages
      <3>3. QED
        BY <3>1, <3>2, <1>others
    <2> QED
      BY <2>1, <2>2, <2>3, <2>4 DEF Routed
  <1> QED
    BY <1>1, <1>2, <1>3

(* A delivery that is written was in flight; clients that stall or leave   *)
(* change nothing of the rest.                                             *)
LEMMA ClientsInv ==
    ASSUME IInv,
           \/ \E m \in inFlight : Write(m)
           \/ \E c \in Unreliable : Stall(c) \/ Disconnect(c)
    PROVE  IInv'
  <1> USE DEF IInv
  <1>others. /\ UNCHANGED <<channels, writer, at, todo, kind, cursor, message, target, calls>>
             /\ inFlight' \subseteq inFlight /\ received' \subseteq inFlight \cup received
             /\ stalled' \subseteq Conn /\ gone' \subseteq Conn
    BY PubSubAssumption DEF Write, Stall, Disconnect, command, publishing, clients, PubSubTypeOK
  <1>1. PubSubTypeOK'
    BY <1>others, Zenon DEF PubSubTypeOK
  <1>2. CommandsUnderWay' /\ ListIsLocked'
    BY <1>others DEF CommandsUnderWay, ListIsLocked
  <1>3. Routed'
    BY <1>others DEF Routed, OneChannelPerName, QueuesAccept, Accepts, DeliveriesKnown,
                     RightMessages
  <1> QED
    BY <1>1, <1>2, <1>3

(* Every step of the server and its clients keeps the invariant.           *)
THEOREM Invariance == IInv /\ [PubSubNext]_pubSubVars => IInv'
  <1> SUFFICES ASSUME IInv, [PubSubNext]_pubSubVars PROVE IInv'
    OBVIOUS
  <1>commands. ASSUME NEW c \in Conn, Command(c) PROVE IInv'
    <2>1. \A n \in Targets : n \in Name
      BY PubSubAssumption
    <2>2. QED
      BY <1>commands, <2>1, SubscribeInv, UnsubscribeInv, StartPublishInv, Zenon DEF Command
  <1>proceed. ASSUME NEW c \in Conn, Proceed(c) PROVE IInv'
    BY <1>proceed, LockInv, JoinInv, ConfirmInv, PublishToInv, EndPublishInv DEF Proceed
  <1>stutter. CASE UNCHANGED pubSubVars
    BY <1>stutter DEF pubSubVars, IInv, PubSubTypeOK, CommandsUnderWay, ListIsLocked, Routed,
        OneChannelPerName, QueuesAccept, Accepts, DeliveriesKnown, RightMessages
  <1> QED
    BY <1>commands, <1>proceed, <1>stutter, TakeInv, ClientsInv DEF PubSubNext

(* The types of the state, and the bound of every queue.                   *)
THEOREM TypeCorrect == PubSubSpec => []PubSubTypeOK
  <1>1. IInv => PubSubTypeOK
    BY DEF IInv
  <1> QED
    BY <1>1, InitInv, Invariance, PTL DEF PubSubSpec

(* Whatever SUBSCRIBEs and PUBLISHes run together, the list changes under  *)
(* the write lock alone and never has two channels of one name.            *)
THEOREM ListConsistent == PubSubSpec => []ChannelsConsistent
  <1>1. IInv => ChannelsConsistent
    BY DEF IInv, Routed, ChannelsConsistent
  <1> QED
    BY <1>1, InitInv, Invariance, PTL DEF PubSubSpec

(* A client gets through a channel what was published to its name, or to a *)
(* name that its pattern matches, and nothing else.                        *)
THEOREM RightMessagesOnly == PubSubSpec => []RightMessages
  <1>1. IInv => RightMessages
    BY DEF IInv, Routed
  <1> QED
    BY <1>1, InitInv, Invariance, PTL DEF PubSubSpec

-----------------------------------------------------------------------------
(* NotTwice needs to know how far each PUBLISH is: a message that a channel *)
(* has seen is one that its PUBLISH will not offer to it again.            *)

Seen(i, m) ==
    \/ \E a \in DOMAIN channels[i].queue : channels[i].queue[a] = m
    \/ \E d \in inFlight \cup received : d.via = channels[i].name /\ d.msg = m

Passed ==
    \A c \in Conn : at[c] = "publish" =>
        \A i \in DOMAIN channels : Seen(i, message[c]) => i < cursor[c]

OneMessageEach ==
    \A c, d \in Conn :
        at[c] = "publish" /\ at[d] = "publish" /\ message[c] = message[d] => c = d

Once == OneMessageEach /\ Passed /\ NotTwice

(* A step in which no channel sees a new message, and no PUBLISH begins or *)
(* moves on, keeps messages from being sent twice.                         *)
LEMMA NothingNew ==
    ASSUME PubSubTypeOK, Once,
           \A c \in Conn : at'[c] = "publish" =>
              at[c] = "publish" /\ message'[c] = message[c] /\ cursor'[c] = cursor[c],
           DOMAIN channels' = DOMAIN channels,
           \A j \in DOMAIN channels : /\ channels'[j].name = channels[j].name
                                     /\ channels'[j].queue = channels[j].queue,
           inFlight' \cup received' \subseteq inFlight \cup received
    PROVE  Once'
  <1>1. OneMessageEach'
    BY DEF Once, OneMessageEach
  <1>2. Passed'
    BY DEF Once, Passed, Seen
  <1>3. NotTwice'
    BY DEF Once, NotTwice
  <1> QED
    BY <1>1, <1>2, <1>3 DEF Once

(* A new message is in no queue yet.                                       *)
LEMMA StartPublishOnce ==
    ASSUME IInv, Once, NEW c \in Conn, NEW n \in Name, StartPublish(c, n)
    PROVE  Once'
  <1>others. UNCHANGED <<channels, cursor, inFlight, received>>
    BY DEF StartPublish
  <1>new. /\ Len(target) \in Nat /\ message'[c] = Len(target) + 1
          /\ \A d \in Conn : d # c => at'[d] = at[d] /\ message'[d] = message[d]
    BY DEF IInv, PubSubTypeOK, StartPublish, Goto
  <1>older. \A i \in DOMAIN channels : \A m : Seen(i, m) => m \in 1..Len(target)
    BY DEF IInv, Routed, QueuesAccept, DeliveriesKnown, Seen
  <1>1. OneMessageEach'
    BY <1>new DEF Once, OneMessageEach, IInv, CommandsUnderWay
  <1>2. Passed'
    <2> SUFFICES ASSUME NEW d \in Conn, at'[d] = "publish", NEW i \in DOMAIN channels,
                        Seen(i, message'[d])
                 PROVE  i < cursor[d]
      BY <1>others DEF Passed, Seen
    <2>1. d # c
      BY <1>new, <1>older
    <2>2. QED
      BY <2>1, <1>new DEF Once, Passed
  <1>3. NotTwice'
    BY <1>others DEF Once, NotTwice
  <1> QED
    BY <1>1, <1>2, <1>3 DEF Once

(* A channel that is new has seen nothing.                                 *)
LEMMA ConfirmOnce ==
    ASSUME IInv, Once, NEW c \in Conn, Confirm(c)
    PROVE  Once'
  <1>others. UNCHANGED <<cursor, message, inFlight, received>>
    BY DEF Confirm, publishing
  <1>at. \A d \in Conn : at'[d] = "publish" => at[d] = "publish"
    BY DEF IInv, PubSubTypeOK, Confirm, Goto
  <1>1. CASE Existing(c) # {}
    <2>1. channels' = channels
      BY <1>1 DEF Confirm
    <2>2. QED
      BY <2>1, <1>others, <1>at, NothingNew DEF IInv
  <1>2. CASE Existing(c) = {}
    <2>list. channels \in Seq(Channel)
      BY DEF IInv, PubSubTypeOK
    <2>new. NewChannel(c) \in Channel /\ NewChannel(c).name = Head(todo[c])
            /\ NewChannel(c).queue = <<>>
      <3>1. kind[c] \in BOOLEAN /\ todo[c] \in Seq(Name) /\ todo[c] # <<>>
        BY DEF IInv, PubSubTypeOK, CommandsUnderWay, Confirm
      <3>2. Head(todo[c]) \in Name
        BY <3>1
      <3>3. QED
        BY <3>1, <3>2 DEF NewChannel, Channel
    <2>channels. channels' = Append(channels, NewChannel(c))
      BY <1>2 DEF Confirm
    <2>places. \A j \in DOMAIN channels' :
                 \/ j \in DOMAIN channels /\ channels'[j] = channels[j]
                 \/ channels'[j] = NewChannel(c)
      BY <2>channels, <2>list, <2>new, Listed
    <2>fresh. \A d \in inFlight \cup received : d.via # NewChannel(c).name
      BY <1>2, <2>new DEF IInv, Routed, DeliveriesKnown, Existing
    <2>empty. DOMAIN NewChannel(c).queue = {}
      BY <2>new
    <2>1. OneMessageEach'
      BY <1>others, <1>at DEF Once, OneMessageEach
    <2>2. Passed'
      BY <1>others, <1>at, <2>places, <2>fresh, <2>empty DEF Once, Passed, Seen
    <2>3. NotTwice'
      BY <1>others, <2>places, <2>fresh, <2>empty DEF Once, NotTwice
    <2> QED
      BY <2>1, <2>2, <2>3 DEF Once
  <1> QED
    BY <1>1, <1>2

(* The channel that is next has not seen the message.                      *)
LEMMA PublishToOnce ==
    ASSUME IInv, Once, NEW c \in Conn, PublishTo(c)
    PROVE  Once'
  <1>others. UNCHANGED <<at, message, inFlight, received>> /\ at[c] = "publish"
    BY DEF PublishTo, command
  <1>place. PICK i \in DOMAIN channels :
              /\ cursor[c] <= i /\ cursor' = [cursor EXCEPT ![c] = i + 1]
              /\ OnlyQueue(channels, channels', i, Append(channels[i].queue, message[c]))
    BY PublishToEffect DEF IInv
  <1>types. /\ channels[i].queue \in Seq(Msg) /\ message[c] \in Msg
            /\ i \in Nat /\ cursor \in [Conn -> Nat \ {0}]
            /\ \A j \in DOMAIN channels : j \in Nat
    <2>1. channels \in Seq(Channel) /\ cursor \in [Conn -> Nat \ {0}]
      BY DEF IInv, PubSubTypeOK
    <2>2. message[c] \in Msg
      BY <1>others, PubSubAssumption DEF IInv, PubSubTypeOK, CommandsUnderWay, Msg
    <2>3. QED
      BY <2>1, <2>2, PlaceType
  <1>unseen. ~Seen(i, message[c])
    BY <1>others, <1>place, <1>types DEF Once, Passed
  <1> DEFINE longer == Append(channels[i].queue, message[c])
  <1>longer. \A a \in DOMAIN longer :
               \/ a \in DOMAIN channels[i].queue /\ longer[a] = channels[i].queue[a]
               \/ a = Len(channels[i].queue) + 1 /\ longer[a] = message[c]
    BY <1>types, Enqueued
  <1> HIDE DEF longer
  <1>same. /\ DOMAIN channels' = DOMAIN channels /\ channels'[i].queue = longer
           /\ \A j \in DOMAIN channels : /\ channels'[j].name = channels[j].name
                                         /\ j # i => channels'[j] = channels[j]
    BY <1>place DEF OnlyQueue, longer
  <1>1. OneMessageEach'
    BY <1>others DEF Once, OneMessageEach
  <1>2. Passed'
    <2> SUFFICES ASSUME NEW d \in Conn, at[d] = "publish", NEW j \in DOMAIN channels,
                        Seen(j, message[d])'
                 PROVE  j < cursor'[d]
      BY <1>others, <1>same DEF Passed
    <2>1. Seen(j, message[d]) \/ (j = i /\ message[d] = message[c])
      BY <1>others, <1>same, <1>longer DEF Seen
    <2>2. CASE j = i /\ message[d] = message[c]
      <3>1. d = c
        BY <2>2, <1>others DEF Once, OneMessageEach
      <3>2. QED
        BY <2>2, <3>1, <1>place, <1>types
    <2>3. CASE Seen(j, message[d])
      <3>1. j < cursor[d]
        BY <2>3 DEF Once, Passed
      <3>2. QED
        BY <3>1, <1>place, <1>types
    <2>4. QED
      BY <2>1, <2>2, <2>3
  <1>3. NotTwice'
    <2> SUFFICES ASSUME NEW j \in DOMAIN channels
                 PROVE  /\ \A a, b \in DOMAIN channels'[j].queue :
                             channels'[j].queue[a] = channels'[j].queue[b] => a = b
                        /\ \A d \in inFlight \cup received : d.via = channels[j].name =>
                             \A a \in DOMAIN channels'[j].queue : channels'[j].queue[a] # d.msg
      BY <1>others, <1>same DEF NotTwice
    <2>1. CASE j # i
      BY <2>1, <1>same DEF Once, NotTwice
    <2>2. CASE j = i
      BY <2>2, <1>same, <1>longer, <1>unseen DEF Once, NotTwice, Seen
    <2>3. QED
      BY <2>1, <2>2
  <1> QED
    BY <1>1, <1>2, <1>3 DEF Once

(* What is taken off a queue was in it once.                               *)
LEMMA TakeOnce ==
    ASSUME IInv, Once, NEW i \in DOMAIN channels, Take(i)
    PROVE  Once'
  <1> DEFINE ch == channels[i]
             sent == {[to |-> c, via |-> ch.name, msg |-> Head(ch.queue)] : c \in ch.subscribers}
  <1>others. UNCHANGED <<at, cursor, message, received>> /\ inFlight' = inFlight \cup sent
    BY DEF Take, command, publishing
  <1>queue. /\ 1 \in DOMAIN ch.queue
            /\ \A a \in DOMAIN Tail(ch.queue) : /\ a + 1 \in DOMAIN ch.queue /\ a + 1 # 1
                                                 /\ Tail(ch.queue)[a] = ch.queue[a + 1]
            /\ \A a, b \in DOMAIN Tail(ch.queue) : a + 1 = b + 1 => a = b
            /\ Head(ch.queue) = ch.queue[1]
    <2>1. ch.queue \in Seq(Msg) /\ ch.queue # <<>>
      BY PlaceType DEF IInv, PubSubTypeOK, Take
    <2>2. Tail(ch.queue) \in Seq(Msg)
      BY <2>1
    <2>3. \A a \in DOMAIN Tail(ch.queue) : a \in Nat /\ a > 0
      BY <2>2
    <2>4. QED
      BY <2>1, <2>3, Dequeued
  <1>same. /\ DOMAIN channels' = DOMAIN channels /\ channels'[i].queue = Tail(ch.queue)
           /\ \A j \in DOMAIN channels : /\ channels'[j].name = channels[j].name
                                         /\ j # i => channels'[j] = channels[j]
    BY TakeEffect DEF OnlyQueue, IInv
  <1>sent. \A d \in sent : d.via = ch.name /\ d.msg = ch.queue[1]
    BY <1>queue
  <1>names. \A j \in DOMAIN channels : channels[j].name = ch.name => j = i
    BY DEF IInv, Routed, OneChannelPerName
  <1> HIDE DEF sent
  <1>1. OneMessageEach'
    BY <1>others DEF Once, OneMessageEach
  <1>2. Passed'
    <2> SUFFICES ASSUME NEW d \in Conn, at[d] = "publish", NEW j \in DOMAIN channels,
                        Seen(j, message[d])'
                 PROVE  j < cursor[d]
      BY <1>others, <1>same DEF Passed
    <2>1. Seen(j, message[d])
      <3>1. CASE \E a \in DOMAIN channels'[j].queue : channels'[j].queue[a] = message[d]
        <4>1. PICK a \in DOMAIN channels'[j].queue : channels'[j].queue[a] = message[d]
          BY <3>1
        <4>2. CASE j = i
          <5>1. a + 1 \in DOMAIN ch.queue /\ ch.queue[a + 1] = message[d]
            BY <4>1, <4>2, <1>same, <1>queue
          <5>2. QED
            BY <5>1, <4>2 DEF Seen
        <4>3. CASE j # i
          BY <4>1, <4>3, <1>same DEF Seen
        <4>4. QED
          BY <4>2, <4>3
      <3>2. CASE \E m \in sent : m.via = channels[j].name /\ m.msg = message[d]
        BY <3>2, <1>sent, <1>names, <1>queue DEF Seen
      <3>3. CASE \E m \in inFlight \cup received : m.via = channels[j].name /\ m.msg = message[d]
        BY <3>3 DEF Seen
      <3>4. QED
        BY <3>1, <3>2, <3>3, <1>others, <1>same DEF Seen
    <2>2. QED
      BY <2>1 DEF Once, Passed
  <1>3. NotTwice'
    <2> SUFFICES ASSUME NEW j \in DOMAIN channels
                 PROVE  /\ \A a, b \in DOMAIN channels'[j].queue :
                             channels'[j].queue[a] = channels'[j].queue[b] => a = b
                        /\ \A d \in inFlight' \cup received : d.via = channels[j].name =>
                             \A a \in DOMAIN channels'[j].queue : channels'[j].queue[a] # d.msg
      BY <1>others, <1>same DEF NotTwice
    <2>1. CASE j # i
      BY <2>1, <1>others, <1>same, <1>sent, <1>names DEF Once, NotTwice
    <2>2. CASE j = i
      BY <2>2, <1>others, <1>same, <1>sent, <1>queue DEF Once, NotTwice
    <2>3. QED
      BY <2>1, <2>2
  <1> QED
    BY <1>1, <1>2, <1>3 DEF Once

(* Through one channel no message is sent to a client twice.               *)
THEOREM NeverTwice == PubSubSpec => []NotTwice
  <1>init. PubSubInit => Once
    BY DEF PubSubInit, Once, OneMessageEach, Passed, NotTwice
  <1>step. IInv /\ Once /\ [PubSubNext]_pubSubVars => Once'
    <2> SUFFICES ASSUME IInv, Once, [PubSubNext]_pubSubVars PROVE Once'
      OBVIOUS
    <2>types. PubSubTypeOK
      BY DEF IInv
    <2>subscribe. ASSUME NEW c \in Conn, NEW r \in Requests, Subscribe(c, r[1], r[2]) PROVE Once'
      BY <2>subscribe, <2>types, NothingNew DEF Subscribe, Goto, publishing, PubSubTypeOK
    <2>unsubscribe. ASSUME NEW c \in Conn, NEW names, NEW p, Unsubscribe(c, names, p) PROVE Once'
      <3>1. UNCHANGED <<at, cursor, message, inFlight, received>>
        BY <2>unsubscribe DEF Unsubscribe, command, publishing
      <3>2. Steady
        BY <2>unsubscribe, <2>types, UnsubscribeSteady
      <3>3. QED
        BY <3>1, <3>2, <2>types, NothingNew DEF Steady
    <2>start. ASSUME NEW c \in Conn, NEW n \in Targets, StartPublish(c, n) PROVE Once'
      BY <2>start, PubSubAssumption, StartPublishOnce
    <2>lock. ASSUME NEW c \in Conn, Lock(c) PROVE Once'
      BY <2>lock, <2>types, NothingNew DEF Lock, Goto, publishing, PubSubTypeOK
    <2>join. ASSUME NEW c \in Conn, Join(c) PROVE Once'
      <3>1. \A d \in Conn : at'[d] = "publish" => at[d] = "publish"
        BY <2>join, <2>types DEF Join, Goto, PubSubTypeOK
      <3>2. UNCHANGED <<cursor, message, inFlight, received>>
        BY <2>join DEF Join, publishing
      <3>3. Steady
        BY <2>join, <2>types, JoinSteady
      <3>4. QED
        BY <3>1, <3>2, <3>3, <2>types, NothingNew DEF Steady
    <2>end. ASSUME NEW c \in Conn, EndPublish(c) PROVE Once'
      BY <2>end, <2>types, NothingNew DEF EndPublish, Goto, PubSubTypeOK
    <2>clients. ASSUME \/ \E m \in inFlight : Write(m)
                       \/ \E c \in Unreliable : Stall(c) \/ Disconnect(c)
                PROVE Once'
      BY <2>clients, <2>types, NothingNew DEF Write, Stall, Disconnect, command, publishing
    <2>stutter. CASE UNCHANGED pubSubVars
      BY <2>stutter, <2>types, NothingNew DEF pubSubVars
    <2>commands. ASSUME NEW c \in Conn, Command(c) PROVE Once'
      BY <2>commands, <2>subscribe, <2>unsubscribe, <2>start, Zenon DEF Command
    <2>proceed. ASSUME NEW c \in Conn, Proceed(c) PROVE Once'
      BY <2>proceed, <2>lock, <2>join, <2>end, ConfirmOnce, PublishToOnce DEF Proceed
    <2> QED
      BY <2>commands, <2>proceed, <2>clients, <2>stutter, TakeOnce DEF PubSubNext
  <1>implied. Once => NotTwice
    BY DEF Once
  <1> QED
    BY <1>init, <1>step, <1>implied, InitInv, Invariance, PTL DEF PubSubSpec

=============================================================================
