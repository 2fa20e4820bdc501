--------------------------- MODULE ClusterProofs ---------------------------
(***************************************************************************)
(* Proofs about Cluster, for any nodes, databases, commands and faults: a  *)
(* forwarded command is applied once at most, and the store of every node  *)
(* has the keys and the values that the entries it has applied make, with  *)
(* the exceptions that ReplicasAgree names.                                *)
(*                                                                         *)
(* Replayed is defined by recursion over the log.  That it exists and is   *)
(* the only one is not shown by induction over the log, but as an          *)
(* invariant of the cluster (ReplayDefined), whose log grows by one entry  *)
(* at a time.                                                              *)
(***************************************************************************)
EXTENDS Cluster, TLAPS

(* A store before any entry, and its values.                               *)
EmptyStore == [db \in Database |-> Absent]

(* f is what the log's entries make of the values, one after the other.    *)
Chain(f, l) ==
    f = [i \in 0..Len(l) |-> IF i = 0 THEN EmptyStore ELSE Advance(f[i - 1], l[i])]

(* Replayed is defined, and by the log alone.                              *)
ReplayDefined ==
    /\ \E f : Chain(f, log)
    /\ \A f, g : Chain(f, log) /\ Chain(g, log) => f = g

(* A snapshot that an unskewed node took was of a store without keys.      *)
SnapshotsEmpty == \A n \in Node \ skewed : Replayed[snapshot[n]] = EmptyStore

Agreement == ReplayDefined /\ SnapshotsEmpty /\ ReplicasAgree

(* A number is given to one command, and stays with one message until the  *)
(* message is turned into an entry.                                        *)
NumbersGiven ==
    /\ \A i \in DOMAIN log : log[i].id <= ops
    /\ \A n \in Node : \A m \in queue[n] : m.id <= ops
MessageOnce ==
    \A n, o \in Node : \A m \in queue[n], p \in queue[o] :
        m.id # 0 /\ m.id = p.id => n = o /\ m = p
QueuedNotLogged ==
    \A n \in Node : \A m \in queue[n] : m.id # 0 => \A i \in DOMAIN log : log[i].id # m.id

Numbers == NumbersGiven /\ MessageOnce /\ QueuedNotLogged /\ ForwardedOnce

-----------------------------------------------------------------------------
(* The effect of an entry, and of a log that grows.                        *)

LEMMA HandledTyped ==
    ASSUME NEW d \in KeyData \cup {Absent}, NEW op \in Op, NEW found \in BOOLEAN,
           found => d # Absent, now \in Nat
    PROVE  Handled(d, op, found) \in KeyData \cup {Absent}
  <1>1. now + TTL \in Nat
    BY ClusterAssumption
  <1>2. d # Absent => d.value \in Nat /\ d.expireAt \in Nat
    BY DEF KeyData
  <1>3. (IF d = Absent THEN 0 ELSE d.expireAt) \in Nat
    BY <1>2
  <1>4. CASE op = "SET"
    BY <1>3, <1>4 DEF Handled, KeyData
  <1>5. CASE op = "SETEX"
    BY <1>1, <1>5 DEF Handled, KeyData
  <1>6. CASE op = "DEL"
    BY <1>6 DEF Handled
  <1>7. CASE op = "INCR"
    BY <1>2, <1>3, <1>7 DEF Handled, KeyData
  <1>8. QED
    BY <1>4, <1>5, <1>6, <1>7 DEF Op

LEMMA EffectTyped ==
    ASSUME NEW s \in [Database -> KeyData \cup {Absent}], NEW e \in Entry, now \in Nat
    PROVE  Effect(s, e) \in [Database -> KeyData \cup {Absent}]
  <1>1. e.op \in Op /\ e.db \in Database /\ s[e.db] \in KeyData \cup {Absent}
    BY DEF Entry
  <1>2. Handled(s[e.db], e.op, s[e.db] # Absent) \in KeyData \cup {Absent}
    BY <1>1, HandledTyped
  <1>3. QED
    BY <1>1, <1>2 DEF Effect

(* An entry makes of a store's values what it makes of the store, at       *)
(* whatever time the node applies it.                                      *)
LEMMA ValuesAdvance ==
    ASSUME NEW s \in [Database -> KeyData \cup {Absent}], NEW e \in Entry, now \in Nat
    PROVE  Values(Effect(s, e)) = Advance(Values(s), e)
  <1>1. e.db \in Database /\ e.op \in Op /\ e.type \in {"command", "delete-key"}
    BY DEF Entry
  <1> DEFINE d == s[e.db]
             after == IF e.type = "delete-key" THEN Absent
                      ELSE Handled(d, e.op, d # Absent)
             v == IF d = Absent THEN Absent ELSE d.value
             w == IF e.type = "delete-key" \/ e.op = "DEL" THEN Absent
                  ELSE IF e.op # "INCR" THEN 0
                  ELSE IF v = Absent THEN 1 ELSE v + 1
  <1>2. Absent \notin Nat /\ (d # Absent => d.value \in Nat)
    BY <1>1, ClusterAssumption DEF KeyData
  <1>3. Handled(d, e.op, d # Absent) \in KeyData => Handled(d, e.op, d # Absent) # Absent
    BY ClusterAssumption
  <1>4. (IF after = Absent THEN Absent ELSE after.value) = w
    <2>1. CASE e.type = "delete-key"
      BY <2>1
    <2>2. CASE e.type # "delete-key" /\ e.op = "DEL"
      BY <2>2 DEF Handled
    <2>3. CASE e.type # "delete-key" /\ e.op \in {"SET", "SETEX"}
      <3>1. Handled(d, e.op, d # Absent) \in KeyData /\ Handled(d, e.op, d # Absent).value = 0
        <4>1. now + TTL \in Nat
          BY ClusterAssumption
        <4>2. (IF d = Absent THEN 0 ELSE d.expireAt) \in Nat
          BY <1>1 DEF KeyData
        <4>3. QED
          BY <2>3, <4>1, <4>2 DEF Handled, KeyData
      <3>2. QED
        BY <1>3, <2>3, <3>1
    <2>4. CASE e.type # "delete-key" /\ e.op = "INCR"
      <3>1. /\ Handled(d, e.op, d # Absent) \in KeyData
            /\ Handled(d, e.op, d # Absent).value = IF d = Absent THEN 1 ELSE d.value + 1
        <4>1. (IF d = Absent THEN 0 ELSE d.expireAt) \in Nat
          BY <1>1 DEF KeyData
        <4>2. QED
          BY <1>2, <2>4, <4>1 DEF Handled, KeyData
      <3>2. (v = Absent <=> d = Absent) /\ (d # Absent => v = d.value)
        BY <1>2
      <3>3. QED
        BY <1>3, <2>4, <3>1, <3>2
    <2>5. QED
      BY <1>1, <2>1, <2>2, <2>3, <2>4 DEF Op
  <1>5. Effect(s, e) = [s EXCEPT ![e.db] = after]
    BY DEF Effect
  <1>6. Advance(Values(s), e) = [Values(s) EXCEPT ![e.db] = w]
    BY <1>1 DEF Advance, Values
  <1> HIDE DEF after, w
  <1>7. QED
    BY <1>1, <1>4, <1>5, <1>6 DEF Values

LEMMA EmptyChain == \A f : Chain(f, <<>>) <=> f = [i \in 0..0 |-> EmptyStore]
  <1>1. Len(<<>>) = 0 /\ \A i \in 0..0 : i = 0
    OBVIOUS
  <1>2. [i \in 0..0 |-> EmptyStore] =
            [i \in 0..0 |-> IF i = 0 THEN EmptyStore ELSE EmptyStore]
    BY <1>1
  <1>3. ASSUME NEW f
        PROVE  [i \in 0..0 |-> IF i = 0 THEN EmptyStore ELSE Advance(f[i - 1], <<>>[i])]
                 = [i \in 0..0 |-> EmptyStore]
    BY <1>1
  <1>4. QED
    BY <1>1, <1>3 DEF Chain

(* The steps of a chain, one by one.                                       *)
LEMMA ChainSteps ==
    ASSUME NEW l \in Seq(Entry), NEW f
    PROVE  Chain(f, l) <=>
              /\ f = [i \in 0..Len(l) |-> f[i]]
              /\ f[0] = EmptyStore
              /\ \A i \in 1..Len(l) : f[i] = Advance(f[i - 1], l[i])
  <1>1. Len(l) \in Nat
    OBVIOUS
  <1> DEFINE step == [i \in 0..Len(l) |-> IF i = 0 THEN EmptyStore ELSE Advance(f[i - 1], l[i])]
  <1>2. step[0] = EmptyStore /\ \A i \in 1..Len(l) : step[i] = Advance(f[i - 1], l[i])
    BY <1>1
  <1>3. step = [i \in 0..Len(l) |-> step[i]]
    OBVIOUS
  <1>4. ASSUME f = step
        PROVE  /\ f = [i \in 0..Len(l) |-> f[i]] /\ f[0] = EmptyStore
               /\ \A i \in 1..Len(l) : f[i] = Advance(f[i - 1], l[i])
    <2> HIDE DEF step
    <2>1. QED
      BY <1>2, <1>3, <1>4
  <1>5. ASSUME /\ f = [i \in 0..Len(l) |-> f[i]] /\ f[0] = EmptyStore
               /\ \A i \in 1..Len(l) : f[i] = Advance(f[i - 1], l[i])
        PROVE  f = step
    <2>1. \A i \in 0..Len(l) : f[i] = step[i]
      <3>1. \A i \in 0..Len(l) : i = 0 \/ i \in 1..Len(l)
        BY <1>1
      <3> HIDE DEF step
      <3>2. QED
        BY <1>2, <1>5, <3>1
    <2> HIDE DEF step
    <2>2. [i \in 0..Len(l) |-> f[i]] = [i \in 0..Len(l) |-> step[i]]
      BY <2>1
    <2>3. QED
      BY <1>3, <1>5, <2>2
  <1>6. QED
    BY <1>4, <1>5 DEF Chain

(* A log that grows by one entry: what it amounts to has one more value,   *)
(* and is the same as before elsewhere.                                    *)
LEMMA ChainGrows ==
    ASSUME NEW l \in Seq(Entry), NEW e \in Entry, NEW f, Chain(f, l)
    PROVE  LET n == Len(l)
               g == [i \in 0..n + 1 |-> IF i = n + 1 THEN Advance(f[n], e) ELSE f[i]]
           IN  Chain(g, Append(l, e))
  <1> DEFINE n == Len(l)
             g == [i \in 0..n + 1 |-> IF i = n + 1 THEN Advance(f[n], e) ELSE f[i]]
  <1>1. n \in Nat /\ Append(l, e) \in Seq(Entry) /\ Len(Append(l, e)) = n + 1
    OBVIOUS
  <1>2. g = [i \in 0..n + 1 |-> g[i]]
    OBVIOUS
  <1>3. g[n + 1] = Advance(f[n], e) /\ \A i \in 0..n : g[i] = f[i]
    BY <1>1
  <1>4. f[0] = EmptyStore /\ \A i \in 1..n : f[i] = Advance(f[i - 1], l[i])
    BY ChainSteps
  <1> HIDE DEF g
  <1>5. g[0] = EmptyStore
    BY <1>1, <1>3, <1>4
  <1>6. ASSUME NEW i \in 1..n + 1 PROVE g[i] = Advance(g[i - 1], Append(l, e)[i])
    <2>1. CASE i = n + 1
      <3>1. Append(l, e)[i] = e /\ i - 1 = n /\ n \in 0..n
        BY <1>1, <2>1
      <3>2. QED
        BY <1>3, <2>1, <3>1
    <2>2. CASE i # n + 1
      <3>1. i \in 1..n /\ i \in 0..n /\ i - 1 \in 0..n /\ Append(l, e)[i] = l[i]
        BY <1>1, <2>2
      <3>2. QED
        BY <1>3, <1>4, <3>1
    <2>3. QED
      BY <2>1, <2>2
  <1>7. Chain(g, Append(l, e))
    BY <1>1, <1>2, <1>5, <1>6, ChainSteps
  <1>8. QED
    BY <1>7 DEF g

LEMMA ChainShrinks ==
    ASSUME NEW l \in Seq(Entry), NEW e \in Entry, NEW g, Chain(g, Append(l, e))
    PROVE  /\ Chain([i \in 0..Len(l) |-> g[i]], l)
           /\ g[Len(l) + 1] = Advance(g[Len(l)], e)
           /\ g = [i \in 0..Len(l) + 1 |-> g[i]]
  <1> DEFINE n == Len(l)
             f == [i \in 0..n |-> g[i]]
  <1>1. n \in Nat /\ Append(l, e) \in Seq(Entry) /\ Len(Append(l, e)) = n + 1
    OBVIOUS
  <1>2. /\ g = [i \in 0..n + 1 |-> g[i]] /\ g[0] = EmptyStore
        /\ \A i \in 1..n + 1 : g[i] = Advance(g[i - 1], Append(l, e)[i])
    <2> DEFINE longer == Append(l, e)
    <2>1. longer \in Seq(Entry) /\ Len(longer) = n + 1 /\ Chain(g, longer)
      BY <1>1
    <2> HIDE DEF longer
    <2>2. /\ g = [i \in 0..Len(longer) |-> g[i]] /\ g[0] = EmptyStore
          /\ \A i \in 1..Len(longer) : g[i] = Advance(g[i - 1], longer[i])
      BY <2>1, ChainSteps
    <2>3. QED
      BY <2>1, <2>2 DEF longer
  <1>3. \A i \in 1..n : Append(l, e)[i] = l[i] /\ i \in 1..n + 1
    BY <1>1
  <1>4. Append(l, e)[n + 1] = e /\ n + 1 \in 1..n + 1 /\ n + 1 - 1 = n
    BY <1>1
  <1>5. g[n + 1] = Advance(g[n], e)
    BY <1>2, <1>4
  <1>6. \A i \in 0..n : f[i] = g[i]
    OBVIOUS
  <1>7. f = [i \in 0..n |-> f[i]]
    OBVIOUS
  <1> HIDE DEF f
  <1>8. \A i \in 1..n : i \in 0..n /\ i - 1 \in 0..n
    BY <1>1
  <1>9. f[0] = EmptyStore /\ \A i \in 1..n : f[i] = Advance(f[i - 1], l[i])
    <2>1. f[0] = EmptyStore
      BY <1>1, <1>2, <1>6
    <2>2. ASSUME NEW i \in 1..n PROVE f[i] = Advance(f[i - 1], l[i])
      <3>1. f[i] = g[i] /\ f[i - 1] = g[i - 1] /\ Append(l, e)[i] = l[i] /\ i \in 1..n + 1
        BY <1>3, <1>6, <1>8
      <3>2. g[i] = Advance(g[i - 1], Append(l, e)[i])
        BY <1>2, <3>1
      <3>3. QED
        BY <3>1, <3>2
    <2>3. QED
      BY <2>1, <2>2
  <1>10. Chain(f, l)
    BY <1>7, <1>9, ChainSteps
  <1>11. QED
    BY <1>2, <1>5, <1>10 DEF f

LEMMA ReplayedIsChain ==
    (\E f : Chain(f, log)) => Chain(Replayed, log)
  <1>1. Replayed = CHOOSE f : Chain(f, log)
    BY DEF Replayed, Chain, EmptyStore
  <1>2. QED
    BY <1>1

-----------------------------------------------------------------------------
(* Types.                                                                  *)

LEMMA MessageTyped ==
    ASSUME NEW action \in {"RaftJoin", "DeleteKey", "MutateData"}, NEW op \in Op,
           NEW n \in Node, NEW id \in Nat
    PROVE  /\ Message(action, op, n, id) \in BroadcastMessage
           /\ Message(action, op, n, id).id = id
  BY DEF Message, BroadcastMessage, Retransmits

(* A message that was sent is sent no more, and one that is queued again   *)
(* is the same.                                                            *)
LEMMA SentOnce ==
    ASSUME NEW n \in Node, queue[n] \subseteq BroadcastMessage, NEW m \in BroadcastMessage
    PROVE  Sent(n, m) = queue[n] \ {m} /\ Sent(n, m) \in SUBSET BroadcastMessage
  BY DEF BroadcastMessage, Retransmits, Sent

LEMMA QueuedAgain ==
    ASSUME NEW m \in BroadcastMessage, NEW q \in SUBSET BroadcastMessage
    PROVE  /\ Broadcast(q, m) \subseteq q \cup {m}
           /\ Broadcast(q, m) \in SUBSET BroadcastMessage
  <1>1. m.left = 1 /\ [m EXCEPT !.left = Retransmits] = m
    BY DEF BroadcastMessage, Retransmits
  <1>2. QED
    BY <1>1 DEF Broadcast

LEMMA AnnouncedTyped ==
    ASSUME NEW n \in Node
    PROVE  Announced(n) \in SUBSET BroadcastMessage /\ \A m \in Announced(n) : m.id = 0
  BY MessageTyped DEF Announced, Op

LEMMA EntryTyped ==
    ASSUME NEW type \in {"command", "delete-key"}, NEW op \in Op, NEW db \in Database,
           NEW id \in Nat
    PROVE  [type |-> type, op |-> op, db |-> db, id |-> id] \in Entry
  BY DEF Entry

LEMMA Assumed ==
    /\ First \in Members /\ Members \subseteq Node /\ None \notin Node
    /\ Commands \subseteq Op /\ 0 \in Database /\ TTL \in Nat /\ MaxOps \in Nat
    /\ MaxFaults \in Nat /\ MaxTime \in Nat \ {0} /\ Serving \subseteq Node /\ {"SET"} \subseteq Op
  BY ClusterAssumption DEF Op

LEMMA ClockTyped == TypeOK => now \in Nat
  BY Assumed DEF TypeOK

(* What is counted stays within its bound.                                 *)
LEMMA CountTyped ==
    ASSUME TypeOK, Count
    PROVE  ops' \in 0..MaxOps /\ ops' \in Nat /\ UNCHANGED <<now, faults>>
  <1>1. ops \in 0..MaxOps /\ MaxOps \in Nat
    BY Assumed DEF TypeOK
  <1>2. QED
    BY <1>1 DEF Count

LEMMA FaultTyped ==
    ASSUME TypeOK, Fault
    PROVE  faults' \in 0..MaxFaults /\ UNCHANGED <<now, ops>>
  <1>1. faults \in 0..MaxFaults /\ MaxFaults \in Nat
    BY Assumed DEF TypeOK
  <1>2. QED
    BY <1>1 DEF Fault

(* A node knows of no more entries than there are.                         *)
LEMMA KnownTyped ==
    ASSUME TypeOK, NEW n \in Node
    PROVE  /\ Known(n) \in 0..Len(log) /\ Holds(n) \in 0..Len(log)
           /\ Ready(n) => applied[n] < Len(log) /\ n \in voters
  <1>1. Len(log) \in Nat /\ applied[n] \in 0..Len(log)
    BY DEF TypeOK
  <1>2. stored[n] \in 0..Len(log) /\ heard[n] \in 0..Len(log)
    BY DEF TypeOK
  <1>3. Known(n) \in 0..Len(log) /\ Holds(n) \in 0..Len(log)
    BY <1>1, <1>2 DEF Known, Holds
  <1>4. QED
    BY <1>1, <1>3 DEF Ready

LEMMA InitTyped == Init => TypeOK
  <1> SUFFICES ASSUME Init PROVE TypeOK
    OBVIOUS
  <1>1. log \in Seq(Entry) /\ Len(log) = 0
    BY DEF Init
  <1>2. \A n \in Node : queue[n] \in SUBSET BroadcastMessage
    BY AnnouncedTyped DEF Init
  <1>3. QED
    BY <1>1, <1>2, Assumed DEF Init, TypeOK

(* What a step does to the log and what refers to it.                      *)
LogGrows == \E e \in Entry : log' = Append(log, e)

LEMMA LogTyped ==
    ASSUME log \in Seq(Entry), UNCHANGED log \/ LogGrows
    PROVE  /\ log' \in Seq(Entry) /\ Len(log) \in Nat /\ Len(log') \in Nat
           /\ Len(log) <= Len(log') /\ 0..Len(log) \subseteq 0..Len(log')
           /\ LogGrows => Len(log') = Len(log) + 1
  BY DEF LogGrows

LEMMA NextEntry ==
    ASSUME TypeOK, NEW n \in Node, applied[n] < Len(log)
    PROVE  LET e == log[applied[n] + 1] IN
           /\ applied[n] + 1 \in 1..Len(log) /\ applied[n] + 1 \in 0..Len(log)
           /\ e \in Entry /\ e.op \in Op /\ e.db \in Database
  <1>1. Len(log) \in Nat /\ applied[n] \in 0..Len(log) /\ log \in Seq(Entry)
    BY DEF TypeOK
  <1>2. applied[n] + 1 \in 1..Len(log) /\ applied[n] + 1 \in 0..Len(log)
    BY <1>1
  <1>3. log[applied[n] + 1] \in Entry
    BY <1>1, <1>2
  <1>4. QED
    BY <1>2, <1>3 DEF Entry

(* The state machines.                                                     *)
LEMMA ApplyTyped ==
    ASSUME TypeOK, NEW n \in Node, Apply(n) PROVE TypeOK'
  <1> DEFINE e == log[applied[n] + 1]
  <1>1. n \in Node /\ e \in Entry /\ applied[n] + 1 \in 0..Len(log)
    BY NextEntry, KnownTyped DEF Apply
  <1>2. Effect(data[n], e) \in [Database -> KeyData \cup {Absent}]
    BY <1>1, EffectTyped, ClockTyped DEF TypeOK
  <1>3. data' = [data EXCEPT ![n] = Effect(data[n], e)]
    BY DEF Apply
  <1> HIDE DEF e
  <1>4. data' \in [Node -> [Database -> KeyData \cup {Absent}]]
    BY <1>2, <1>3 DEF TypeOK
  <1>5. applied' \in [Node -> 0..Len(log)]
    BY <1>1 DEF Apply, TypeOK
  <1>6. QED
    BY <1>4, <1>5 DEF Apply, TypeOK, raftVars, bounds

LEMMA ApplyToExpiredTyped ==
    ASSUME TypeOK, NEW n \in Node, ApplyToExpired(n) PROVE TypeOK'
  <1> DEFINE e == log[applied[n] + 1]
             msg == Message("DeleteKey", "SET", n, 0)
  <1>1. e \in Entry /\ e.op \in Op /\ e.db \in Database /\ applied[n] + 1 \in 0..Len(log)
    BY NextEntry, KnownTyped DEF ApplyToExpired
  <1>2. Handled(data[n][e.db], e.op, FALSE) \in KeyData \cup {Absent}
    <2> HIDE DEF e
    <2>1. data[n][e.db] \in KeyData \cup {Absent}
      BY <1>1 DEF TypeOK
    <2>2. QED
      BY <1>1, <2>1, HandledTyped, ClockTyped
  <1>3. Broadcast(queue[n], msg) \in SUBSET BroadcastMessage
    <2>1. msg \in BroadcastMessage
      BY MessageTyped, Assumed
    <2>2. QED
      BY <2>1, QueuedAgain DEF TypeOK
  <1>4. CASE n = leader
    <2>1. wedged' = wedged \cup {n} /\ UNCHANGED <<data, applied, skewed, queue>>
          /\ Appended("delete-key", "SET", e.db, 0)
      BY <1>4 DEF ApplyToExpired
    <2>2. LogGrows
      BY <1>1, <2>1, EntryTyped, Assumed DEF Appended, LogGrows
    <2>3. UNCHANGED <<raftVars, mutation, copying, snapshot, handling, bounds>>
      BY DEF ApplyToExpired
    <2>4. QED
      BY <2>1, <2>2, <2>3, LogTyped DEF TypeOK, raftVars, bounds
  <1>5. CASE n # leader
    <2>1. /\ data' = [data EXCEPT ![n][e.db] = Handled(data[n][e.db], e.op, FALSE)]
          /\ applied' = [applied EXCEPT ![n] = @ + 1]
          /\ skewed' = skewed \cup {n}
          /\ queue' = [queue EXCEPT ![n] = Broadcast(queue[n], msg)]
          /\ UNCHANGED <<log, wedged, raftVars, mutation, copying, snapshot, handling, bounds>>
      BY <1>5 DEF ApplyToExpired, QueueBroadcast
    <2> HIDE DEF e, msg
    <2>2. data' \in [Node -> [Database -> KeyData \cup {Absent}]]
      BY <1>1, <1>2, <2>1 DEF TypeOK
    <2>3. applied' \in [Node -> 0..Len(log)]
      BY <1>1, <2>1 DEF TypeOK
    <2>4. QED
      BY <1>3, <2>1, <2>2, <2>3 DEF TypeOK, raftVars, bounds
  <1>6. QED
    BY <1>4, <1>5

LEMMA SnapshotTyped ==
    ASSUME TypeOK, NEW n \in Node,
           StartSnapshot(n) \/ FinishSnapshot(n) \/ InstallSnapshot(n)
    PROVE  TypeOK'
  <1>1. faults' \in 0..MaxFaults
    <2>1. CASE StartSnapshot(n)
      BY <2>1, FaultTyped DEF StartSnapshot
    <2>2. CASE FinishSnapshot(n) \/ InstallSnapshot(n)
      BY <2>2 DEF TypeOK, FinishSnapshot, InstallSnapshot, bounds
    <2>3. QED
      BY <2>1, <2>2
  <1>2. leader # None => leader \in Node
    BY DEF TypeOK
  <1>3. applied' \in [Node -> 0..Len(log)] /\ snapshot' \in [Node -> 0..Len(log)]
    BY <1>2 DEF TypeOK, StartSnapshot, FinishSnapshot, InstallSnapshot
  <1>4. copying' \subseteq Node /\ skewed' \subseteq Node
    BY DEF TypeOK, StartSnapshot, FinishSnapshot, InstallSnapshot, store
  <1>5. UNCHANGED <<raftVars, log, data, wedged, mutation, queue, handling, now, ops>>
    BY DEF StartSnapshot, FinishSnapshot, InstallSnapshot, Fault, store, bounds
  <1>6. QED
    BY <1>1, <1>3, <1>4, <1>5 DEF TypeOK, raftVars

(* The clients.                                                            *)
LEMMA ClientTyped ==
    ASSUME TypeOK, NEW n \in Serving, Client(n) PROVE TypeOK'
  <1>1. ops' \in 0..MaxOps /\ ops' \in Nat /\ UNCHANGED <<now, faults>> /\ n \in Node
    <2>1. Count
      BY DEF Client, LeaderWrite, FollowerWrite, Read, FollowerReadExpired,
         LeaderReadExpired
    <2>2. QED
      BY <2>1, CountTyped, Assumed
  <1>2. mutation' \in [Node -> BOOLEAN]
    BY <1>1 DEF TypeOK, Client, LeaderWrite, FollowerWrite, Read, FollowerReadExpired,
       LeaderReadExpired, Raise
  <1>3. wedged' \subseteq Node
    BY <1>1 DEF TypeOK, Client, LeaderWrite, FollowerWrite, Read, FollowerReadExpired,
       LeaderReadExpired, fsmVars
  <1>4. UNCHANGED log \/ LogGrows
    <2>1. ASSUME NEW op \in Commands, NEW db \in Database, LeaderWrite(n, op, db)
          PROVE  UNCHANGED log \/ LogGrows
      BY <1>1, <2>1, EntryTyped, Assumed DEF LeaderWrite, Appended, LogGrows
    <2>2. ASSUME NEW db \in Database, LeaderReadExpired(n, db)
          PROVE  LogGrows
      BY <1>1, <2>2, EntryTyped, Assumed DEF LeaderReadExpired, Appended, LogGrows
    <2>3. QED
      BY <2>1, <2>2 DEF Client, FollowerWrite, Read, FollowerReadExpired
  <1>5. queue' \in [Node -> SUBSET BroadcastMessage]
    <2>1. ASSUME NEW action \in {"DeleteKey", "MutateData"}, NEW op \in Op,
                 QueueBroadcast(n, Message(action, op, n, ops'))
          PROVE  queue' \in [Node -> SUBSET BroadcastMessage]
      <3>1. Message(action, op, n, ops') \in BroadcastMessage
        BY <1>1, MessageTyped
      <3> DEFINE msg == Message(action, op, n, ops')
      <3>2. queue[n] \in SUBSET BroadcastMessage /\ msg \in BroadcastMessage
        BY <1>1, <3>1 DEF TypeOK
      <3>3. queue' = [queue EXCEPT ![n] = Broadcast(queue[n], msg)]
        BY <2>1 DEF QueueBroadcast
      <3> HIDE DEF msg
      <3>4. Broadcast(queue[n], msg) \in SUBSET BroadcastMessage
        BY <1>1, <3>2, QueuedAgain
      <3>5. QED
        BY <3>3, <3>4 DEF TypeOK
    <2>2. CASE UNCHANGED queue
      BY <2>2 DEF TypeOK
    <2>3. QED
      BY <2>1, <2>2, Assumed DEF Client, LeaderWrite, FollowerWrite, Read,
         FollowerReadExpired, LeaderReadExpired
  <1>6. UNCHANGED <<raftVars, data, skewed, applied, copying, snapshot, handling>>
    BY DEF Client, LeaderWrite, FollowerWrite, Read, FollowerReadExpired,
       LeaderReadExpired, store, fsmVars
  <1>7. QED
    BY <1>1, <1>2, <1>3, <1>4, <1>5, <1>6, LogTyped DEF TypeOK, raftVars

(* The gossip, and its losses.                                             *)
LEMMA RelayTyped ==
    ASSUME TypeOK, NEW n \in Node, NEW m \in queue[n], NEW to \in Node,
           Relay(n, m, to) \/ Lose(n, m)
    PROVE  TypeOK'
  <1>1. m \in BroadcastMessage /\ queue[n] \subseteq BroadcastMessage
        /\ queue[to] \in SUBSET BroadcastMessage
    BY DEF TypeOK
  <1>2. Sent(n, m) \in SUBSET BroadcastMessage
        /\ Broadcast(queue[to], m) \in SUBSET BroadcastMessage
    BY <1>1, SentOnce, QueuedAgain
  <1>3. queue' \in [Node -> SUBSET BroadcastMessage]
    BY <1>2 DEF Relay, Lose, TypeOK
  <1>4. faults' \in 0..MaxFaults /\ UNCHANGED <<now, ops>>
    <2>1. CASE Relay(n, m, to)
      BY <2>1 DEF Relay, TypeOK, bounds
    <2>2. CASE Lose(n, m)
      BY <2>2, FaultTyped DEF Lose
    <2>3. QED
      BY <2>1, <2>2
  <1>5. UNCHANGED <<raftVars, log, data, skewed, applied, copying, snapshot, wedged,
                    mutation, handling>>
    BY DEF Relay, Lose, store, fsmVars
  <1>6. QED
    BY <1>3, <1>4, <1>5 DEF TypeOK, raftVars

(* What the leader makes of a message.                                     *)
LEMMA DeliverGrows ==
    ASSUME TypeOK, NEW n \in Node, NEW m \in queue[n], Deliver(n, m)
    PROVE  \/ UNCHANGED <<log, handling>>
           \/ /\ \E e \in Entry : log' = Append(log, e) /\ e.id = m.id
              /\ handling' = [handling EXCEPT ![leader] = Len(log) + 1]
  <1>1. m \in BroadcastMessage /\ m.op \in Op /\ m.id \in Nat
    <2>1. m \in BroadcastMessage
      BY DEF TypeOK
    <2>2. QED
      BY <2>1 DEF BroadcastMessage
  <1>2. /\ [type |-> "delete-key", op |-> "SET", db |-> 0, id |-> m.id] \in Entry
        /\ [type |-> "command", op |-> m.op, db |-> 0, id |-> m.id] \in Entry
    BY <1>1, EntryTyped, Assumed
  <1>3. QED
    BY <1>2 DEF Deliver, NotifyLeader, Appended

LEMMA DeliverTyped ==
    ASSUME TypeOK, NEW n \in Node, NEW m \in queue[n], Deliver(n, m) PROVE TypeOK'
  <1>1. m \in BroadcastMessage /\ m.from \in Node /\ queue[n] \subseteq BroadcastMessage
    <2>1. m \in BroadcastMessage /\ queue[n] \subseteq BroadcastMessage
      BY DEF TypeOK
    <2>2. QED
      BY <2>1 DEF BroadcastMessage
  <1>2. queue' \in [Node -> SUBSET BroadcastMessage]
    <2>1. Sent(n, m) \in SUBSET BroadcastMessage
      BY <1>1, SentOnce
    <2>2. QED
      BY <2>1 DEF Deliver, TypeOK
  <1>3. voters' \subseteq Node /\ voters \subseteq voters' /\ reachable' \subseteq Node
    BY <1>1 DEF Deliver, NotifyLeader, AddVoter, TypeOK
  <1>4. UNCHANGED log \/ LogGrows
    BY DeliverGrows DEF LogGrows
  <1>5. /\ log' \in Seq(Entry) /\ Len(log) \in Nat /\ 0..Len(log) \subseteq 0..Len(log')
        /\ LogGrows => Len(log) + 1 \in 0..Len(log')
    BY <1>4, LogTyped DEF TypeOK
  <1>6. handling' \in [Node -> 0..Len(log')]
    BY <1>5, DeliverGrows DEF TypeOK, LogGrows
  <1>7. UNCHANGED <<leader, stored, heard, data, skewed, applied, copying, snapshot,
                    wedged, mutation, now, ops, faults>>
    BY DEF Deliver, store, fsmVars, bounds
  <1>8. QED
    BY <1>2, <1>3, <1>5, <1>6, <1>7 DEF TypeOK

(* The faults.                                                             *)
LEMMA BootedTyped ==
    ASSUME TypeOK, NEW n \in Node, Booted(n), faults' \in 0..MaxFaults,
           UNCHANGED <<now, ops>>
    PROVE  TypeOK'
  <1>1. queue' \in [Node -> SUBSET BroadcastMessage]
    BY AnnouncedTyped DEF Booted, TypeOK
  <1>2. data' \in [Node -> [Database -> KeyData \cup {Absent}]]
    BY DEF Booted, TypeOK
  <1>3. applied' \in [Node -> 0..Len(log)] /\ handling' \in [Node -> 0..Len(log)]
    BY DEF Booted, TypeOK
  <1>4. mutation' \in [Node -> BOOLEAN]
    BY DEF Booted, TypeOK
  <1>5. skewed' \subseteq Node /\ wedged' \subseteq Node /\ copying' \subseteq Node
        /\ leader' \in voters \cup {None}
    BY DEF Booted, TypeOK
  <1>6. UNCHANGED <<voters, log, snapshot>>
    BY DEF Booted
  <1>7. reachable' \subseteq Node /\ stored' \in [Node -> 0..Len(log)]
        /\ heard' \in [Node -> 0..Len(log)]
    BY KnownTyped DEF Booted, TypeOK
  <1>8. QED
    BY <1>1, <1>2, <1>3, <1>4, <1>5, <1>6, <1>7 DEF TypeOK

LEMMA LeadershipTyped ==
    ASSUME TypeOK, NEW n \in Node,
           StepDown \/ Elect(n) \/ RemoveServer(n) \/ Tick
    PROVE  TypeOK'
  <1>1. leader' \in voters' \cup {None} /\ voters' \subseteq Node
    BY DEF TypeOK, StepDown, Elect, RemoveServer, Tick, raftVars
  <1>2. faults' \in 0..MaxFaults /\ now' \in 1..MaxTime /\ UNCHANGED ops
    <2>1. CASE Tick
      BY <2>1, Assumed DEF TypeOK, Tick
    <2>2. CASE Elect(n)
      BY <2>2 DEF TypeOK, Elect, bounds
    <2>3. CASE StepDown \/ RemoveServer(n)
      <3>1. CASE Fault
        BY <3>1, FaultTyped DEF TypeOK
      <3>2. CASE UNCHANGED bounds
        BY <3>2 DEF TypeOK, bounds
      <3>3. QED
        BY <2>3, <3>1, <3>2 DEF StepDown, RemoveServer
    <2>4. QED
      BY <2>1, <2>2, <2>3
  <1>3. UNCHANGED <<log, data, skewed, applied, copying, snapshot, wedged, mutation,
                    queue, handling>>
    BY DEF StepDown, Elect, RemoveServer, Tick, store, fsmVars
  <1>4. reachable' = reachable
    BY DEF StepDown, Elect, RemoveServer, Tick, raftVars
  <1>5. stored' \in [Node -> 0..Len(log)] /\ heard' \in [Node -> 0..Len(log)]
    <2>1. Len(log) \in 0..Len(log)
      BY DEF TypeOK
    <2>2. QED
      BY <2>1 DEF StepDown, Elect, RemoveServer, Tick, raftVars, TypeOK
  <1>6. QED
    BY <1>1, <1>2, <1>3, <1>4, <1>5 DEF TypeOK

-----------------------------------------------------------------------------
(* The stores agree with the log.                                          *)

LEMMA ReplayedSteps ==
    ASSUME log \in Seq(Entry), ReplayDefined
    PROVE  /\ Chain(Replayed, log) /\ Replayed[0] = EmptyStore
           /\ \A i \in 1..Len(log) : Replayed[i] = Advance(Replayed[i - 1], log[i])
  <1>1. Chain(Replayed, log)
    BY ReplayedIsChain DEF ReplayDefined
  <1>2. QED
    BY <1>1, ChainSteps

(* ReplayDefined and Replayed after a step, by the log after it.           *)
LEMMA ReplayedNext ==
    /\ (/\ \E f : Chain(f, log')
        /\ \A f, g : Chain(f, log') /\ Chain(g, log') => f = g) => ReplayDefined'
    /\ Replayed' = CHOOSE f : Chain(f, log')
  <1>1. Replayed' = CHOOSE f : Chain(f, log')
    BY DEF Replayed, Chain, EmptyStore
  <1>2. ASSUME \E f : Chain(f, log'), \A f, g : Chain(f, log') /\ Chain(g, log') => f = g
        PROVE  ReplayDefined'
    BY <1>2, Zenon DEF ReplayDefined
  <1>3. QED
    BY <1>1, <1>2

LEMMA ReplayedSame ==
    ASSUME ReplayDefined, UNCHANGED log PROVE ReplayDefined' /\ Replayed' = Replayed
  <1>1. log' = log /\ Replayed = CHOOSE f : Chain(f, log)
    BY DEF Replayed, Chain, EmptyStore
  <1>2. Replayed' = Replayed
    BY <1>1, ReplayedNext
  <1>3. ReplayDefined'
    BY <1>1, ReplayedNext DEF ReplayDefined
  <1>4. QED
    BY <1>2, <1>3

LEMMA ReplayedGrows ==
    ASSUME log \in Seq(Entry), ReplayDefined, NEW e \in Entry, log' = Append(log, e)
    PROVE  /\ ReplayDefined'
           /\ \A i \in 0..Len(log) : Replayed'[i] = Replayed[i]
  <1> DEFINE n == Len(log)
  <1>1. Chain(Replayed, log)
    BY ReplayedSteps
  <1>2. \E f : Chain(f, log')
    BY <1>1, ChainGrows
  <1>3. ASSUME NEW f, NEW g, Chain(f, log'), Chain(g, log') PROVE f = g
    <2>1. /\ Chain([i \in 0..n |-> f[i]], log) /\ f[n + 1] = Advance(f[n], e)
          /\ f = [i \in 0..n + 1 |-> f[i]]
      BY <1>3, ChainShrinks
    <2>2. /\ Chain([i \in 0..n |-> g[i]], log) /\ g[n + 1] = Advance(g[n], e)
          /\ g = [i \in 0..n + 1 |-> g[i]]
      BY <1>3, ChainShrinks
    <2>3. [i \in 0..n |-> f[i]] = [i \in 0..n |-> g[i]]
      BY <2>1, <2>2 DEF ReplayDefined
    <2>4. n \in Nat /\ \A i \in 0..n : f[i] = g[i]
      BY <2>3
    <2>5. f[n + 1] = g[n + 1]
      <3>1. f[n] = g[n]
        BY <2>4
      <3>2. QED
        BY <2>1, <2>2, <3>1
    <2>6. \A i \in 0..n + 1 : f[i] = g[i]
      BY <2>4, <2>5
    <2>7. QED
      BY <2>1, <2>2, <2>6
  <1>4. ReplayDefined'
    BY <1>2, <1>3, ReplayedNext
  <1>5. Chain(Replayed', log')
    BY <1>2, ReplayedNext
  <1>6. Chain([i \in 0..n |-> Replayed'[i]], log)
    BY <1>5, ChainShrinks
  <1>7. [i \in 0..n |-> Replayed'[i]] = Replayed
    BY <1>1, <1>6 DEF ReplayDefined
  <1>8. QED
    BY <1>4, <1>7

LEMMA EmptyValues == Values(EmptyStore) = EmptyStore
  BY DEF Values, EmptyStore

LEMMA InitAgrees == Init => Agreement
  <1> SUFFICES ASSUME Init PROVE Agreement
    OBVIOUS
  <1>1. \A f : Chain(f, log) <=> f = [i \in 0..0 |-> EmptyStore]
    BY EmptyChain DEF Init
  <1>2. ReplayDefined
    <2>1. Chain([i \in 0..0 |-> EmptyStore], log)
      BY <1>1
    <2>2. \E f : Chain(f, log)
      BY <2>1
    <2>3. ASSUME NEW f, NEW g, Chain(f, log), Chain(g, log) PROVE f = g
      BY <1>1, <2>3
    <2>4. QED
      BY <2>2, <2>3 DEF ReplayDefined
  <1>3. Replayed[0] = EmptyStore
    BY <1>2, ReplayedSteps DEF Init
  <1>4. QED
    BY <1>2, <1>3, EmptyValues DEF Init, Agreement, SnapshotsEmpty, ReplicasAgree, EmptyStore

(* It is enough to look at the log before the step.                        *)
LEMMA StillAgrees ==
    ASSUME TypeOK, Agreement, UNCHANGED log \/ LogGrows,
           \A n \in Node \ skewed' :
              /\ applied'[n] \in 0..Len(log) /\ Values(data'[n]) = Replayed[applied'[n]]
              /\ snapshot'[n] \in 0..Len(log) /\ Replayed[snapshot'[n]] = EmptyStore
    PROVE  Agreement'
  <1>1. ReplayDefined' /\ \A i \in 0..Len(log) : Replayed'[i] = Replayed[i]
    BY ReplayedSame, ReplayedGrows DEF TypeOK, Agreement, LogGrows
  <1>2. SnapshotsEmpty' /\ ReplicasAgree'
    BY <1>1 DEF SnapshotsEmpty, ReplicasAgree, EmptyStore
  <1>3. QED
    BY <1>1, <1>2 DEF Agreement

LEMMA Agreed ==
    ASSUME TypeOK, Agreement, NEW n \in Node \ skewed
    PROVE  /\ applied[n] \in 0..Len(log) /\ Values(data[n]) = Replayed[applied[n]]
           /\ snapshot[n] \in 0..Len(log) /\ Replayed[snapshot[n]] = EmptyStore
  BY DEF TypeOK, Agreement, SnapshotsEmpty, ReplicasAgree

LEMMA StoresSame ==
    ASSUME TypeOK, Agreement, UNCHANGED log \/ LogGrows, skewed \subseteq skewed',
           UNCHANGED <<data, applied, snapshot>>
    PROVE  Agreement'
  BY Agreed, StillAgrees

LEMMA ApplyAgrees ==
    ASSUME TypeOK, Agreement, NEW n \in Node, Apply(n) PROVE Agreement'
  <1> DEFINE i == applied[n] + 1
  <1>1. n \in Node /\ i \in 1..Len(log) /\ i \in 0..Len(log) /\ i - 1 = applied[n]
    BY NextEntry, KnownTyped DEF Apply, TypeOK
  <1>2. /\ data' = [data EXCEPT ![n] = Effect(data[n], log[i])]
        /\ applied' = [applied EXCEPT ![n] = i] /\ UNCHANGED <<log, snapshot, skewed>>
    BY DEF Apply
  <1>3. Replayed[i] = Advance(Replayed[i - 1], log[i])
    BY <1>1, ReplayedSteps DEF TypeOK, Agreement
  <1>4. data'[n] = Effect(data[n], log[i]) /\ applied'[n] = i
    BY <1>2 DEF TypeOK
  <1>7. Values(data'[n]) = Advance(Values(data[n]), log[i])
    <2>1. data[n] \in [Database -> KeyData \cup {Absent}] /\ log[i] \in Entry
      BY <1>1 DEF TypeOK
    <2>2. QED
      BY <1>4, <2>1, ValuesAdvance, ClockTyped
  <1> HIDE DEF i
  <1>5. ASSUME NEW o \in Node \ skewed'
        PROVE  /\ applied'[o] \in 0..Len(log) /\ Values(data'[o]) = Replayed[applied'[o]]
               /\ snapshot'[o] \in 0..Len(log) /\ Replayed[snapshot'[o]] = EmptyStore
    <2>1. /\ applied[o] \in 0..Len(log) /\ Values(data[o]) = Replayed[applied[o]]
          /\ snapshot[o] \in 0..Len(log) /\ Replayed[snapshot[o]] = EmptyStore
      BY <1>2, <1>5, Agreed
    <2>2. CASE o = n
      BY <1>1, <1>2, <1>3, <1>4, <1>7, <2>1, <2>2
    <2>3. CASE o # n
      BY <1>2, <2>1, <2>3 DEF TypeOK
    <2>4. QED
      BY <2>2, <2>3
  <1>6. QED
    BY <1>2, <1>5, StillAgrees

(* A step that may make a node's store differ puts it among the skewed.    *)
LEMMA SkewAgrees ==
    ASSUME TypeOK, Agreement, NEW n \in Node,
           UNCHANGED log \/ LogGrows, skewed' = skewed \cup {n},
           \A o \in Node \ {n} : data'[o] = data[o] /\ applied'[o] = applied[o]
                                 /\ snapshot'[o] = snapshot[o]
    PROVE  Agreement'
  BY Agreed, StillAgrees

LEMMA ApplyToExpiredAgrees ==
    ASSUME TypeOK, Agreement, NEW n \in Node, ApplyToExpired(n) PROVE Agreement'
  <1> DEFINE e == log[applied[n] + 1]
  <1>1. CASE n = leader
    <2>1. Appended("delete-key", "SET", e.db, 0) /\ UNCHANGED <<data, applied, snapshot, skewed>>
      BY <1>1 DEF ApplyToExpired
    <2>2. e.db \in Database
      BY NextEntry, KnownTyped DEF ApplyToExpired
    <2>3. LogGrows
      BY <2>1, <2>2, EntryTyped, Assumed DEF Appended, LogGrows
    <2>4. QED
      BY <2>1, <2>3, StoresSame
  <1>2. CASE n # leader
    BY <1>2, SkewAgrees DEF ApplyToExpired, TypeOK
  <1>3. QED
    BY <1>1, <1>2

LEMMA SnapshotAgrees ==
    ASSUME TypeOK, Agreement, NEW n \in Node,
           StartSnapshot(n) \/ FinishSnapshot(n) \/ InstallSnapshot(n)
    PROVE  Agreement'
  <1>1. CASE StartSnapshot(n)
    BY <1>1, StoresSame DEF StartSnapshot, store
  <1>2. CASE InstallSnapshot(n)
    BY <1>2, SkewAgrees DEF InstallSnapshot, TypeOK
  <1>3. CASE FinishSnapshot(n)
    <2>1. /\ snapshot' = [snapshot EXCEPT ![n] = applied[n]]
          /\ UNCHANGED <<log, data, applied, skewed>>
          /\ \A db \in Database : data[n][db] = Absent
      BY <1>3 DEF FinishSnapshot, store
    <2>2. Values(data[n]) = EmptyStore
      BY <2>1 DEF TypeOK, EmptyStore, Values
    <2>3. ASSUME NEW o \in Node \ skewed'
          PROVE  /\ applied'[o] \in 0..Len(log) /\ Values(data'[o]) = Replayed[applied'[o]]
                 /\ snapshot'[o] \in 0..Len(log) /\ Replayed[snapshot'[o]] = EmptyStore
      <3>1. /\ applied[o] \in 0..Len(log) /\ Values(data[o]) = Replayed[applied[o]]
            /\ snapshot[o] \in 0..Len(log) /\ Replayed[snapshot[o]] = EmptyStore
        BY <2>1, <2>3, Agreed
      <3>2. snapshot'[o] = IF o = n THEN applied[n] ELSE snapshot[o]
        BY <2>1 DEF TypeOK
      <3>3. QED
        BY <2>1, <2>2, <3>1, <3>2
    <2>4. QED
      BY <2>1, <2>3, StillAgrees
  <1>4. QED
    BY <1>1, <1>2, <1>3

LEMMA BootedAgrees ==
    ASSUME TypeOK, Agreement, NEW n \in Node, Booted(n) PROVE Agreement'
  <1>1. /\ applied' = [applied EXCEPT ![n] = snapshot[n]]
        /\ data' = [data EXCEPT ![n] = EmptyStore] /\ UNCHANGED <<log, snapshot>>
        /\ skewed' = IF snapshot[n] = 0 THEN skewed \ {n} ELSE skewed
    BY DEF Booted, EmptyStore
  <1>2. Replayed[0] = EmptyStore
    BY ReplayedSteps DEF TypeOK, Agreement
  <1>3. ASSUME NEW o \in Node \ skewed'
        PROVE  /\ applied'[o] \in 0..Len(log) /\ Values(data'[o]) = Replayed[applied'[o]]
               /\ snapshot'[o] \in 0..Len(log) /\ Replayed[snapshot'[o]] = EmptyStore
    <2>1. CASE o = n
      <3>1. snapshot[n] \in 0..Len(log) /\ Replayed[snapshot[n]] = EmptyStore
        BY <1>1, <1>2, <1>3, <2>1, Agreed DEF TypeOK
      <3>2. applied'[n] = snapshot[n] /\ data'[n] = EmptyStore /\ snapshot'[n] = snapshot[n]
        BY <1>1 DEF TypeOK
      <3>3. QED
        BY <2>1, <3>1, <3>2, EmptyValues
    <2>2. CASE o # n
      <3>1. o \in Node \ skewed
        BY <1>1, <1>3, <2>2
      <3>2. applied'[o] = applied[o] /\ data'[o] = data[o] /\ snapshot'[o] = snapshot[o]
        BY <1>1, <2>2 DEF TypeOK
      <3>3. QED
        BY <3>1, <3>2, Agreed
    <2>3. QED
      BY <2>1, <2>2
  <1>4. QED
    BY <1>1, <1>3, StillAgrees

-----------------------------------------------------------------------------
(* Commands are numbered, and a number is logged once.                     *)

LEMMA NumbersAre ==
    ASSUME TypeOK
    PROVE  /\ ops \in Nat
           /\ \A i \in DOMAIN log : log[i].id \in Nat
           /\ \A n \in Node : \A m \in queue[n] : m.id \in Nat
  <1>1. ops \in Nat
    BY Assumed DEF TypeOK
  <1>2. ASSUME NEW i \in DOMAIN log PROVE log[i].id \in Nat
    <2>1. log[i] \in Entry
      BY DEF TypeOK
    <2>2. QED
      BY <2>1 DEF Entry
  <1>3. ASSUME NEW n \in Node, NEW m \in queue[n] PROVE m.id \in Nat
    <2>1. m \in BroadcastMessage
      BY DEF TypeOK
    <2>2. QED
      BY <2>1 DEF BroadcastMessage
  <1>4. QED
    BY <1>1, <1>2, <1>3

LEMMA OneMoreEntry ==
    ASSUME log \in Seq(Entry), NEW e \in Entry, log' = Append(log, e)
    PROVE  \A i \in DOMAIN log' :
              \/ i \in DOMAIN log /\ log'[i] = log[i]
              \/ i = Len(log) + 1 /\ log'[i] = e
  OBVIOUS

(* The queues lose messages, or get some without a number, and so does the *)
(* log.                                                                    *)
LEMMA NoNumber ==
    ASSUME TypeOK, Numbers, ops' \in Nat, ops <= ops',
           \A n \in Node : \A m \in queue'[n] : m.id = 0 \/ m \in queue[n],
           UNCHANGED log \/ \E e \in Entry : log' = Append(log, e) /\ e.id = 0
    PROVE  Numbers'
  <1>1. \A i \in DOMAIN log' : log'[i].id = 0 \/ (i \in DOMAIN log /\ log'[i] = log[i])
    BY OneMoreEntry DEF TypeOK
  <1>2. NumbersGiven'
    BY <1>1, NumbersAre DEF Numbers, NumbersGiven
  <1>3. MessageOnce'
    BY DEF Numbers, MessageOnce
  <1>4. QueuedNotLogged'
    BY <1>1 DEF Numbers, QueuedNotLogged
  <1>5. ForwardedOnce'
    BY <1>1 DEF Numbers, ForwardedOnce
  <1>6. QED
    BY <1>2, <1>3, <1>4, <1>5 DEF Numbers

(* A client's command gets the next number, in the log or in a queue.      *)
LEMMA NumberLogged ==
    ASSUME TypeOK, Numbers, ops' = ops + 1, UNCHANGED queue,
           NEW e \in Entry, e.id = ops', log' = Append(log, e)
    PROVE  Numbers'
  <1>1. \A i \in DOMAIN log' :
           \/ i \in DOMAIN log /\ log'[i] = log[i] /\ log'[i].id < ops' /\ log'[i].id <= ops'
           \/ i = Len(log) + 1 /\ log'[i].id = ops'
    BY OneMoreEntry, NumbersAre DEF TypeOK, Numbers, NumbersGiven
  <1>2. \A n \in Node : \A m \in queue'[n] : m \in queue[n] /\ m.id < ops' /\ m.id <= ops'
    BY NumbersAre DEF Numbers, NumbersGiven
  <1>3. ops' \in Nat
    BY NumbersAre
  <1>4. NumbersGiven'
    BY <1>1, <1>2, <1>3 DEF NumbersGiven
  <1>5. MessageOnce'
    BY DEF Numbers, MessageOnce
  <1>6. QueuedNotLogged'
    BY <1>1, <1>2, <1>3 DEF Numbers, QueuedNotLogged
  <1>7. ForwardedOnce'
    BY <1>1, <1>3 DEF Numbers, ForwardedOnce
  <1>8. QED
    BY <1>4, <1>5, <1>6, <1>7 DEF Numbers

LEMMA NumberQueued ==
    ASSUME TypeOK, Numbers, ops' = ops + 1, UNCHANGED log,
           NEW n \in Node, NEW msg \in BroadcastMessage, msg.id = ops',
           \A o \in Node : \A m \in queue'[o] : m \in queue[o] \/ (o = n /\ m = msg)
    PROVE  Numbers'
  <1>1. \A o \in Node : \A m \in queue'[o] :
           \/ m \in queue[o] /\ m.id < ops' /\ m.id <= ops'
           \/ o = n /\ m = msg
    BY NumbersAre DEF Numbers, NumbersGiven
  <1>2. \A i \in DOMAIN log : log[i].id < ops' /\ log[i].id <= ops'
    BY NumbersAre DEF Numbers, NumbersGiven
  <1>3. ops' \in Nat
    BY NumbersAre
  <1>4. NumbersGiven'
    BY <1>1, <1>2, <1>3 DEF NumbersGiven
  <1>5. MessageOnce'
    BY <1>1, <1>3 DEF Numbers, MessageOnce
  <1>6. QueuedNotLogged'
    BY <1>1, <1>2, <1>3 DEF Numbers, QueuedNotLogged
  <1>7. ForwardedOnce'
    BY DEF Numbers, ForwardedOnce
  <1>8. QED
    BY <1>4, <1>5, <1>6, <1>7 DEF Numbers

(* A message keeps its number when another node takes it ...               *)
LEMMA NumberMoved ==
    ASSUME TypeOK, Numbers, UNCHANGED <<ops, log>>,
           NEW n \in Node, NEW to \in Node, to # n, NEW m \in queue[n],
           \A o \in Node : \A p \in queue'[o] :
              \/ p \in queue[o] /\ (o = n => p # m)
              \/ o = to /\ p = m
    PROVE  Numbers'
  <1>1. NumbersGiven'
    BY DEF Numbers, NumbersGiven
  <1>2. MessageOnce'
    BY DEF Numbers, MessageOnce
  <1>3. QueuedNotLogged'
    BY DEF Numbers, QueuedNotLogged
  <1>4. ForwardedOnce'
    BY DEF Numbers, ForwardedOnce
  <1>5. QED
    BY <1>1, <1>2, <1>3, <1>4 DEF Numbers

(* ... and gives it to the entry that the leader makes of it.              *)
LEMMA NumberTakenUp ==
    ASSUME TypeOK, Numbers, UNCHANGED ops,
           NEW n \in Node, NEW m \in queue[n],
           \A o \in Node : \A p \in queue'[o] : p \in queue[o] /\ (o = n => p # m),
           NEW e \in Entry, e.id = m.id, log' = Append(log, e)
    PROVE  Numbers'
  <1>1. \A i \in DOMAIN log' :
           \/ i \in DOMAIN log /\ log'[i] = log[i]
           \/ i = Len(log) + 1 /\ log'[i].id = m.id
    BY OneMoreEntry DEF TypeOK
  <1>2. \A i \in DOMAIN log : m.id # 0 => log[i].id # m.id
    BY DEF Numbers, QueuedNotLogged
  <1>3. \A o \in Node : \A p \in queue'[o] : p.id # 0 => p \in queue[o] /\ p.id # m.id
    BY DEF Numbers, MessageOnce
  <1>4. NumbersGiven'
    BY <1>1 DEF Numbers, NumbersGiven
  <1>5. MessageOnce'
    BY DEF Numbers, MessageOnce
  <1>6. QueuedNotLogged'
    BY <1>1, <1>3 DEF Numbers, QueuedNotLogged
  <1>7. ForwardedOnce'
    BY <1>1, <1>2 DEF Numbers, ForwardedOnce
  <1>8. QED
    BY <1>4, <1>5, <1>6, <1>7 DEF Numbers

LEMMA ApplyToExpiredNumbers ==
    ASSUME TypeOK, Numbers, NEW n \in Node, ApplyToExpired(n) PROVE Numbers'
  <1> DEFINE e == log[applied[n] + 1]
             msg == Message("DeleteKey", "SET", n, 0)
  <1>1. ops' = ops /\ ops \in Nat
    BY NumbersAre DEF ApplyToExpired, bounds
  <1>2. CASE n = leader
    <2>1. e.db \in Database
      BY NextEntry, KnownTyped DEF ApplyToExpired
    <2>2. \E entry \in Entry : log' = Append(log, entry) /\ entry.id = 0
      BY <1>2, <2>1, EntryTyped, Assumed DEF ApplyToExpired, Appended
    <2>3. UNCHANGED queue
      BY <1>2 DEF ApplyToExpired
    <2>4. QED
      BY <1>1, <2>2, <2>3, NoNumber
  <1>3. CASE n # leader
    <2>1. queue' = [queue EXCEPT ![n] = Broadcast(queue[n], msg)] /\ UNCHANGED log
      BY <1>3 DEF ApplyToExpired, QueueBroadcast
    <2>2. msg \in BroadcastMessage /\ msg.id = 0
      BY MessageTyped, Assumed
    <2> HIDE DEF msg
    <2>3. Broadcast(queue[n], msg) \subseteq queue[n] \cup {msg}
      BY <2>2, QueuedAgain DEF TypeOK
    <2>4. \A o \in Node : \A m \in queue'[o] : m.id = 0 \/ m \in queue[o]
      BY <2>1, <2>2, <2>3 DEF TypeOK
    <2>5. QED
      BY <1>1, <2>1, <2>4, NoNumber
  <1>4. QED
    BY <1>2, <1>3

LEMMA ClientNumbers ==
    ASSUME TypeOK, Numbers, NEW n \in Serving, Client(n) PROVE Numbers'
  <1>1. ops' = ops + 1 /\ ops' \in Nat /\ ops <= ops' /\ n \in Node
    BY Assumed, NumbersAre DEF Client, LeaderWrite, FollowerWrite, Read,
       FollowerReadExpired, LeaderReadExpired, Count
  <1>2. ASSUME NEW type \in {"command", "delete-key"}, NEW op \in Op, NEW db \in Database,
               Appended(type, op, db, ops'), UNCHANGED queue
        PROVE  Numbers'
    <2> DEFINE e == [type |-> type, op |-> op, db |-> db, id |-> ops']
    <2>1. e \in Entry /\ e.id = ops'
      BY <1>1, EntryTyped
    <2>2. log' = Append(log, e)
      BY <1>2 DEF Appended
    <2> HIDE DEF e
    <2>3. QED
      BY <1>1, <1>2, <2>1, <2>2, NumberLogged
  <1>3. ASSUME NEW action \in {"DeleteKey", "MutateData"}, NEW op \in Op,
               QueueBroadcast(n, Message(action, op, n, ops')), UNCHANGED log
        PROVE  Numbers'
    <2> DEFINE msg == Message(action, op, n, ops')
    <2>1. msg \in BroadcastMessage /\ msg.id = ops'
      BY <1>1, MessageTyped
    <2>2. queue' = [queue EXCEPT ![n] = Broadcast(queue[n], msg)]
      BY <1>3 DEF QueueBroadcast
    <2> HIDE DEF msg
    <2>3. Broadcast(queue[n], msg) \subseteq queue[n] \cup {msg}
      BY <1>1, <2>1, QueuedAgain DEF TypeOK
    <2>4. \A o \in Node : \A m \in queue'[o] : m \in queue[o] \/ (o = n /\ m = msg)
      BY <2>2, <2>3 DEF TypeOK
    <2>5. QED
      BY <1>1, <1>3, <2>1, <2>4, NumberQueued
  <1>4. CASE UNCHANGED <<log, queue>>
    BY <1>1, <1>4, NoNumber
  <1>5. QED
    BY <1>2, <1>3, <1>4, Assumed DEF Client, LeaderWrite, FollowerWrite, Read,
       FollowerReadExpired, LeaderReadExpired

LEMMA GossipNumbers ==
    ASSUME TypeOK, Numbers, NEW n \in Node, NEW m \in queue[n], NEW to \in Node,
           Deliver(n, m) \/ Relay(n, m, to) \/ Lose(n, m)
    PROVE  Numbers'
  <1>1. m \in BroadcastMessage /\ queue[n] \subseteq BroadcastMessage
        /\ queue[to] \in SUBSET BroadcastMessage
    BY DEF TypeOK
  <1>2. Sent(n, m) = queue[n] \ {m} /\ Broadcast(queue[to], m) \subseteq queue[to] \cup {m}
    BY <1>1, SentOnce, QueuedAgain
  <1>3. CASE Relay(n, m, to)
    <2>1. /\ to # n /\ UNCHANGED <<ops, log>>
          /\ queue' = [queue EXCEPT ![n] = Sent(n, m), ![to] = Broadcast(@, m)]
      BY <1>3 DEF Relay, bounds
    <2>2. queue'[to] = Broadcast(queue[to], m) /\ queue'[n] = Sent(n, m)
          /\ \A o \in Node \ {n, to} : queue'[o] = queue[o]
      BY <2>1 DEF TypeOK
    <2>3. \A o \in Node : \A p \in queue'[o] :
             \/ p \in queue[o] /\ (o = n => p # m)
             \/ o = to /\ p = m
      BY <1>2, <2>1, <2>2
    <2>4. to # n /\ UNCHANGED <<ops, log>>
      BY <2>1
    <2>5. QED
      BY <2>3, <2>4, NumberMoved
  <1>4. ASSUME queue' = [queue EXCEPT ![n] = Sent(n, m)]
        PROVE  \A o \in Node : \A p \in queue'[o] : p \in queue[o] /\ (o = n => p # m)
    BY <1>2, <1>4 DEF TypeOK
  <1>5. CASE Lose(n, m)
    <2>1. ops' = ops /\ ops \in Nat /\ UNCHANGED log
      BY <1>5, NumbersAre DEF Lose, Fault
    <2>2. QED
      BY <1>4, <1>5, <2>1, NoNumber DEF Lose
  <1>6. CASE Deliver(n, m)
    <2>1. /\ queue' = [queue EXCEPT ![n] = Sent(n, m)]
          /\ ops' = ops /\ ops \in Nat
      BY <1>6, NumbersAre DEF Deliver, bounds
    <2>2. CASE UNCHANGED log
      BY <1>4, <2>1, <2>2, NoNumber
    <2>3. CASE \E e \in Entry : log' = Append(log, e) /\ e.id = m.id
      BY <1>4, <2>1, <2>3, NumberTakenUp
    <2>4. QED
      BY <1>6, <2>2, <2>3, DeliverGrows
  <1>7. QED
    BY <1>3, <1>5, <1>6

LEMMA BootedNumbers ==
    ASSUME TypeOK, Numbers, NEW n \in Node, Booted(n), UNCHANGED ops PROVE Numbers'
  <1>1. queue' = [queue EXCEPT ![n] = Announced(n)] /\ UNCHANGED log
    BY DEF Booted
  <1>2. \A o \in Node : \A m \in queue'[o] : m.id = 0 \/ m \in queue[o]
    BY <1>1, AnnouncedTyped DEF TypeOK
  <1>3. QED
    BY <1>1, <1>2, NoNumber, NumbersAre

-----------------------------------------------------------------------------
(* The theorems.                                                           *)

IInv == TypeOK /\ Agreement /\ Numbers

LEMMA InitInv == Init => IInv
  <1> SUFFICES ASSUME Init PROVE IInv
    OBVIOUS
  <1>1. \A n \in Node : \A m \in queue[n] : m.id = 0
    BY AnnouncedTyped DEF Init
  <1>2. DOMAIN log = {} /\ ops = 0
    BY DEF Init
  <1>3. NumbersGiven
    BY <1>1, <1>2 DEF NumbersGiven
  <1>4. MessageOnce /\ QueuedNotLogged /\ ForwardedOnce
    BY <1>1, <1>2 DEF MessageOnce, QueuedNotLogged, ForwardedOnce
  <1>5. QED
    BY <1>3, <1>4, InitTyped, InitAgrees DEF IInv, Numbers

(* A step that touches neither the log nor what is queued.                 *)
LEMMA NoNumberMoves ==
    ASSUME IInv, UNCHANGED <<ops, log, queue>> PROVE Numbers'
  BY NoNumber, NumbersAre DEF IInv

LEMMA StateMachineInv ==
    ASSUME IInv, NEW n \in Node, StateMachine(n) PROVE IInv'
  <1> USE DEF IInv
  <1>1. CASE Apply(n)
    <2>1. UNCHANGED <<ops, log, queue>>
      BY <1>1 DEF Apply, bounds
    <2>2. QED
      BY <1>1, <2>1, ApplyTyped, ApplyAgrees, NoNumberMoves
  <1>2. CASE ApplyToExpired(n)
    BY <1>2, ApplyToExpiredTyped, ApplyToExpiredAgrees, ApplyToExpiredNumbers
  <1>3. CASE FinishSnapshot(n)
    <2>1. UNCHANGED <<ops, log, queue>>
      BY <1>3 DEF FinishSnapshot, bounds
    <2>2. QED
      BY <1>3, <2>1, SnapshotTyped, SnapshotAgrees, NoNumberMoves
  <1>4. CASE SnapshotPanics(n)
    <2>1. Booted(n) /\ UNCHANGED <<now, ops>> /\ faults' \in 0..MaxFaults
      BY <1>4 DEF SnapshotPanics, bounds, TypeOK
    <2>2. QED
      BY <2>1, BootedTyped, BootedAgrees, BootedNumbers
  <1>5. QED
    BY <1>1, <1>2, <1>3, <1>4 DEF StateMachine

LEMMA GossipInv ==
    ASSUME IInv, NEW n \in Node, Gossip(n) \/ \E m \in queue[n] : Lose(n, m)
    PROVE  IInv'
  <1> USE DEF IInv
  <1>1. ASSUME NEW m \in queue[n], Deliver(n, m) PROVE IInv'
    <2>1. UNCHANGED log \/ LogGrows
      BY <1>1, DeliverGrows DEF LogGrows
    <2>2. UNCHANGED <<data, applied, snapshot, skewed>>
      BY <1>1 DEF Deliver, store, fsmVars
    <2>3. Agreement'
      BY <2>1, <2>2, StoresSame
    <2>4. TypeOK' /\ Numbers'
      BY <1>1, DeliverTyped, GossipNumbers
    <2>5. QED
      BY <2>3, <2>4
  <1>2. ASSUME NEW m \in queue[n], NEW to \in Node, Relay(n, m, to) \/ Lose(n, m)
        PROVE  IInv'
    <2>1. UNCHANGED <<log, data, applied, snapshot, skewed>>
      BY <1>2 DEF Relay, Lose, store, fsmVars
    <2>2. Agreement'
      BY <2>1, StoresSame
    <2>3. TypeOK' /\ Numbers'
      BY <1>2, RelayTyped, GossipNumbers
    <2>4. QED
      BY <2>2, <2>3
  <1>3. QED
    BY <1>1, <1>2 DEF Gossip

LEMMA TroubleInv ==
    ASSUME IInv, NEW n \in Node, Trouble(n) PROVE IInv'
  <1> USE DEF IInv
  <1>1. CASE Restart(n)
    <2>1. Booted(n) /\ UNCHANGED <<now, ops>> /\ faults' \in 0..MaxFaults
      BY <1>1, Assumed DEF Restart, Fault, TypeOK
    <2>2. QED
      BY <2>1, BootedTyped, BootedAgrees, BootedNumbers
  <1>2. CASE StartSnapshot(n) \/ InstallSnapshot(n)
    <2>1. UNCHANGED <<ops, log, queue>>
      BY <1>2 DEF StartSnapshot, InstallSnapshot, Fault, bounds
    <2>2. QED
      BY <1>2, <2>1, SnapshotTyped, SnapshotAgrees, NoNumberMoves
  <1>3. CASE RemoveServer(n)
    <2>1. UNCHANGED <<ops, log, queue, data, applied, snapshot, skewed>>
      BY <1>3 DEF RemoveServer, Fault, store, fsmVars
    <2>2. QED
      BY <1>3, <2>1, LeadershipTyped, StoresSame, NoNumberMoves
  <1>4. QED
    BY <1>1, <1>2, <1>3, GossipInv DEF Trouble

LEMMA ClientInv ==
    ASSUME IInv, NEW n \in Serving, Client(n) PROVE IInv'
  <1> USE DEF IInv
  <1>1. UNCHANGED <<data, applied, snapshot, skewed>>
    BY DEF Client, LeaderWrite, FollowerWrite, Read, FollowerReadExpired,
       LeaderReadExpired, store, fsmVars
  <1>2. ASSUME NEW type \in {"command", "delete-key"}, NEW op \in Op, NEW db \in Database,
               Appended(type, op, db, ops'), Count
        PROVE  LogGrows
    <2>1. ops' \in Nat
      BY <1>2, NumbersAre DEF Count
    <2>2. QED
      BY <1>2, <2>1, EntryTyped DEF Appended, LogGrows
  <1>3. UNCHANGED log \/ LogGrows
    BY <1>2, Assumed DEF Client, LeaderWrite, FollowerWrite, Read, FollowerReadExpired,
       LeaderReadExpired
  <1>4. QED
    BY <1>1, <1>3, ClientTyped, ClientNumbers, StoresSame

LEMMA NextInv == IInv /\ [Next]_vars => IInv'
  <1> SUFFICES ASSUME IInv, [Next]_vars PROVE IInv'
    OBVIOUS
  <1>1. ASSUME NEW n \in Node, StepDown \/ Elect(n) \/ Tick PROVE IInv'
    <2>1. UNCHANGED <<ops, log, queue, data, applied, snapshot, skewed>>
      BY <1>1 DEF StepDown, Elect, Tick, Fault, store, fsmVars, bounds
    <2>2. QED
      BY <1>1, <2>1, LeadershipTyped, StoresSame, NoNumberMoves DEF IInv
  <1>2. CASE UNCHANGED vars
    <2>1. UNCHANGED <<ops, log, queue, data, applied, snapshot, skewed>>
      BY <1>2 DEF vars, store, fsmVars, bounds
    <2>2. TypeOK'
      BY <1>2 DEF IInv, TypeOK, vars, raftVars, store, fsmVars, bounds
    <2>3. QED
      BY <2>1, <2>2, StoresSame, NoNumberMoves DEF IInv
  <1>3. QED
    BY <1>1, <1>2, StateMachineInv, GossipInv, TroubleInv, ClientInv, Assumed DEF Next

THEOREM ClusterInvariant == Spec => []IInv
  <1>1. Init => IInv
    BY InitInv
  <1>2. IInv /\ [Next]_vars => IInv'
    BY NextInv
  <1>3. QED
    BY <1>1, <1>2, PTL DEF Spec

(* Replicas agree: the store of every node has the keys and the values     *)
(* that the committed entries it has applied amount to, whenever it ran    *)
(* them and whatever deadlines it gave, after any reads, elections, losses *)
(* and restarts, unless a handler met an expired key in it or a snapshot   *)
(* was installed over it.                                                  *)
THEOREM StoresFollowLog == Spec => []ReplicasConsistent
  <1>1. IInv => ReplicasConsistent
    BY DEF IInv, Agreement, ReplicasConsistent
  <1>2. QED
    BY <1>1, ClusterInvariant, PTL

(* A command that a node forwards by gossip is committed at most once,     *)
(* however it is relayed, whoever leads and restarts.                      *)
THEOREM CommandsForwardedOnce == Spec => []ForwardedOnce
  <1>1. IInv => ForwardedOnce
    BY DEF IInv, Numbers
  <1>2. QED
    BY <1>1, ClusterInvariant, PTL
=============================================================================
