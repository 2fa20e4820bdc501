------------------------------ MODULE Cluster ------------------------------
(***************************************************************************)
(* A replication cluster.  A command that has to be synchronised goes      *)
(* through raft when it reaches the leader; every voter's state machine    *)
(* (FSM.Apply) runs the handlers of the committed commands in their order. *)
(* Another node forwards the command by gossip and answers OK at once, and *)
(* forwards the deletion of the expired keys that it meets.  A node that   *)
(* is not the leader passes such messages on; new nodes announce           *)
(* themselves by the same gossip.                                          *)
(*                                                                         *)
(* raft and memberlist are libraries.  What is used of raft is one leader  *)
(* at a time, which a majority of the voters can hear, a log of committed  *)
(* entries, and Apply, which returns when the leader's own state machine   *)
(* has applied the entry; of memberlist, a queue of broadcasts per node,   *)
(* each transmitted a limited number of times to some other node by UDP,   *)
(* and the events of nodes that seem to have left.                         *)
(*                                                                         *)
(* A voter is dialled at the address that the raft configuration has for   *)
(* it.  The one that First bootstraps itself with has no port, so no other *)
(* node reaches First; a node that starts again has another port, and is   *)
(* reached once the leader has handled its announcement.                   *)
(*                                                                         *)
(* The store of a node is one key in each database.                        *)
(***************************************************************************)
EXTENDS Naturals, Sequences, FiniteSets

CONSTANTS
    Node,
    First,       \* the node with BootstrapCluster
    Members,     \* the nodes that have joined at the start
    Forwarding,  \* the nodes with ForwardCommand
    Database,    \* the databases, 0 included
    Commands,    \* the commands of the clients
    TTL,         \* the time to live that SETEX gives, 0 if it is below a tick
    None, Absent,
    Serving,     \* bound: the nodes that have clients
    MaxOps,      \* bound: the commands of clients
    MaxTime,     \* bound: the clock
    MaxFaults    \* bound: restarts, losses, elections, removals, snapshots

Op == {"SET", "SETEX", "INCR", "DEL"}
KeyData == [value : Nat, expireAt : Nat]

ASSUME ClusterAssumption ==
    /\ First \in Members /\ Members \subseteq Node /\ None \notin Node
    /\ Forwarding \subseteq Node /\ Serving \subseteq Node /\ Commands \subseteq Op
    /\ Database \subseteq Nat /\ 0 \in Database
    /\ TTL \in Nat /\ Absent \notin Nat \cup KeyData
    /\ MaxOps \in Nat /\ MaxTime \in Nat \ {0} /\ MaxFaults \in Nat

VARIABLES
    leader,      \* the leader of the raft cluster, or None
    voters,      \* the servers of the raft configuration
    reachable,   \* the nodes that listen at the address it has for them
    log,         \* the committed entries
    stored, heard,   \* of one that the leader lost: the entries that its own
                     \* raft log has, and those that it knows to be committed
    applied,     \* applied[n]: how many of them n has applied
    data,        \* data[n][db]: the key, in the store of n
    mutation,    \* mutation[n]: stateMutationInProgress
    copying,     \* the nodes whose state machine is about to copy its state
    snapshot,    \* snapshot[n]: the entries that the snapshot of n stands for
    wedged,      \* the nodes whose storeLock waits for their state machine
    skewed,      \* the nodes whose store may differ from the log's
    queue,       \* queue[n]: the broadcasts of n
    handling,    \* handling[n]: the entry that NotifyMsg of n waits for
    now, ops, faults

raftVars == <<leader, voters, reachable, stored, heard>>
store == <<data, skewed>>
fsmVars == <<applied, copying, snapshot, wedged>>
bounds == <<now, ops, faults>>
vars == <<raftVars, log, store, fsmVars, mutation, queue, handling, bounds>>

-----------------------------------------------------------------------------
(* The broadcast queue                                                     *)

(* RetransmitMult is 1, and memberlist scales it by the logarithm of the   *)
(* number of nodes: below ten nodes a broadcast is sent once.              *)
Retransmits == 1

InvalidatesAnyJoin(m, other) ==
    /\ m.action = other.action
    /\ m.action = "RaftJoin" \/ (m.action = "MutateData" /\ m.op = other.op)

(* A forwarded command invalidates the queued one with the same content,   *)
(* and an announcement the one of the same server.                         *)
Invalidates(m, other) ==
    /\ m.action = other.action
    /\ \/ m.action = "RaftJoin" /\ m.from = other.from
       \/ m.action = "MutateData" /\ m.op = other.op

Broadcast(q, m) ==
    {o \in q : ~Invalidates(m, o)} \cup {[m EXCEPT !.left = Retransmits]}

Message(action, op, n, id) ==
    [action |-> action, op |-> op, from |-> n, id |-> id, left |-> Retransmits]

(* MemberListInit: a node with JoinAddr announces itself.                  *)
Announced(n) == IF n = First THEN {} ELSE {Message("RaftJoin", "SET", n, 0)}

Entry == [type : {"command", "delete-key"}, op : Op, db : Database, id : Nat]
BroadcastMessage ==
    [action : {"RaftJoin", "DeleteKey", "MutateData"}, op : Op, from : Node,
     id : Nat, left : 1..Retransmits]

Init ==
    /\ leader = First /\ voters = Members /\ log = <<>>
    /\ reachable = Members \ {First}
    /\ stored = [n \in Node |-> 0] /\ heard = [n \in Node |-> 0]
    /\ applied = [n \in Node |-> 0]
    /\ data = [n \in Node |-> [db \in Database |-> Absent]]
    /\ mutation = [n \in Node |-> FALSE]
    /\ copying = {} /\ wedged = {} /\ skewed = {}
    /\ snapshot = [n \in Node |-> 0]
    /\ queue = [n \in Node |-> IF n \in Members THEN {} ELSE Announced(n)]
    /\ handling = [n \in Node |-> 0]
    /\ now = 1 /\ ops = 0 /\ faults = 0

-----------------------------------------------------------------------------
QueueBroadcast(n, m) == queue' = [queue EXCEPT ![n] = Broadcast(@, m)]

Count == ops < MaxOps /\ ops' = ops + 1 /\ UNCHANGED <<now, faults>>

Fault == faults < MaxFaults /\ faults' = faults + 1 /\ UNCHANGED <<now, ops>>

-----------------------------------------------------------------------------
(* raft *)

(* The entries that n has, and those that it may apply.                    *)
Holds(n) == IF n = leader \/ n \in reachable THEN Len(log) ELSE stored[n]
Known(n) == IF n = leader \/ n \in reachable THEN Len(log) ELSE heard[n]

(* Of the servers vs, n reaches itself and those of rs.                    *)
Majority(n, vs, rs) ==
    2 * Cardinality({m \in vs : m = n \/ m \in rs}) > Cardinality(vs)

Commits == leader # None /\ Majority(leader, voters, reachable)

-----------------------------------------------------------------------------
(* The state machine                                                       *)

Expired(n, db) ==
    /\ data[n][db] # Absent
    /\ data[n][db].expireAt # 0 /\ data[n][db].expireAt < now

(* The handlers, on the key of a database; found is whether it is there    *)
(* and has not expired.  A write keeps the deadline of the entry; a time   *)
(* to live counts from the moment at which the node runs the handler.      *)
Handled(d, op, found) ==
    LET kept == IF d = Absent THEN 0 ELSE d.expireAt IN
    CASE op = "SET" -> [value |-> 0, expireAt |-> kept]
      [] op = "SETEX" -> [value |-> 0, expireAt |-> now + TTL]
      [] op = "INCR" -> [value |-> IF found THEN d.value + 1 ELSE 1,
                         expireAt |-> kept]
      [] op = "DEL" -> Absent

(* What entry e makes of store s.                                          *)
Effect(s, e) ==
    [s EXCEPT ![e.db] =
        IF e.type = "delete-key" THEN Absent ELSE Handled(@, e.op, @ # Absent)]

Appended(type, op, db, id) ==
    log' = Append(log, [type |-> type, op |-> op, db |-> db, id |-> id])

Ready(n) == n \in voters \ (wedged \cup copying) /\ applied[n] < Known(n)

(* FSM.Apply *)
Apply(n) ==
    LET e == log[applied[n] + 1] IN
    /\ Ready(n)
    /\ e.type = "command" /\ e.op = "INCR" => ~Expired(n, e.db)
    /\ data' = [data EXCEPT ![n] = Effect(@, e)]
    /\ applied' = [applied EXCEPT ![n] = @ + 1]
    /\ UNCHANGED <<raftVars, log, skewed, mutation, copying, snapshot, wedged,
                   queue, handling, bounds>>

(* A handler reads a key that has expired by now.  A follower asks for its *)
(* deletion and goes on without it, whatever other nodes found when they   *)
(* applied the entry; the leader waits for its own state machine, in it.   *)
ApplyToExpired(n) ==
    LET e == log[applied[n] + 1] IN
    /\ Ready(n)
    /\ e.type = "command" /\ e.op = "INCR" /\ Expired(n, e.db)
    /\ IF n = leader
       THEN /\ Commits
            /\ wedged' = wedged \cup {n}
            /\ Appended("delete-key", "SET", e.db, 0)
            /\ UNCHANGED <<data, applied, skewed, queue>>
       ELSE /\ data' = [data EXCEPT ![n][e.db] = Handled(@, e.op, FALSE)]
            /\ applied' = [applied EXCEPT ![n] = @ + 1]
            /\ skewed' = skewed \cup {n}
            /\ QueueBroadcast(n, Message("DeleteKey", "SET", n, 0))
            /\ UNCHANGED <<log, wedged>>
    /\ UNCHANGED <<raftVars, mutation, copying, snapshot, handling, bounds>>

(* raft asks the state machine for a snapshot.  getState waits until the   *)
(* mutation flag is down.                                                  *)
StartSnapshot(n) ==
    /\ n \in voters \ (wedged \cup copying)
    /\ applied[n] > snapshot[n]
    /\ Fault
    /\ copying' = copying \cup {n}
    /\ UNCHANGED <<raftVars, log, store, applied, snapshot, wedged, mutation,
                   queue, handling>>

(* A store without keys.  The copy of any other panics: see Restart.       *)
FinishSnapshot(n) ==
    /\ n \in copying /\ ~mutation[n]
    /\ \A db \in Database : data[n][db] = Absent
    /\ copying' = copying \ {n}
    /\ snapshot' = [snapshot EXCEPT ![n] = applied[n]]
    /\ UNCHANGED <<raftVars, log, store, applied, wedged, mutation, queue,
                   handling, bounds>>

(* FSM.Restore of the leader's snapshot at a voter that is too far behind. *)
(* It sets the keys of the snapshot, and clears none.                      *)
InstallSnapshot(n) ==
    /\ leader # None /\ n \in voters \ (wedged \cup copying \cup {leader})
    /\ n \in reachable /\ applied[n] < snapshot[leader]
    /\ applied' = [applied EXCEPT ![n] = snapshot[leader]]
    /\ snapshot' = [snapshot EXCEPT ![n] = snapshot[leader]]
    /\ skewed' = skewed \cup {n}
    /\ UNCHANGED <<raftVars, log, data, copying, wedged, mutation, queue,
                   handling, bounds>>

-----------------------------------------------------------------------------
(* handleCommand                                                           *)

Raise(n) == mutation' = [mutation EXCEPT ![n] = TRUE]

(* raftApplyCommand, which returns the handler's answer when the leader's  *)
(* state machine has run it.  The mutation flag stays up.  (What a leader  *)
(* without a majority is given gets an error when it steps down.)          *)
LeaderWrite(n, op, db) ==
    /\ n = leader /\ Count
    /\ Raise(n)
    /\ IF Commits THEN Appended("command", op, db, ops') ELSE UNCHANGED log
    /\ UNCHANGED <<raftVars, store, fsmVars, queue, handling>>

(* ForwardDataMutation sends the command and not its database; a node that *)
(* does not forward answers with an error.                                 *)
FollowerWrite(n, op) ==
    /\ n # leader /\ Count
    /\ Raise(n)
    /\ IF n \in Forwarding
       THEN QueueBroadcast(n, Message("MutateData", op, n, ops'))
       ELSE UNCHANGED queue
    /\ UNCHANGED <<raftVars, log, store, fsmVars, handling>>

ReadDeletesExpired(n, db) ==
    /\ n # leader /\ n \notin wedged /\ Count
    /\ Expired(n, db)
    /\ mutation' = [mutation EXCEPT ![n] = FALSE]
    /\ data' = [data EXCEPT ![n][db] = Absent]
    /\ UNCHANGED <<raftVars, log, skewed, fsmVars, queue, handling>>

(* A command that is not synchronised, GET for one, lowers the flag of     *)
(* whoever raised it.                                                      *)
Read(n, db) ==
    /\ n \notin wedged /\ Count
    /\ ~Expired(n, db)
    /\ mutation' = [mutation EXCEPT ![n] = FALSE]
    /\ UNCHANGED <<raftVars, log, store, fsmVars, queue, handling>>

(* A follower that meets an expired key forwards its deletion, without the *)
(* database.                                                               *)
FollowerReadExpired(n, db) ==
    /\ n # leader /\ n \notin wedged /\ Count
    /\ Expired(n, db)
    /\ mutation' = [mutation EXCEPT ![n] = FALSE]
    /\ QueueBroadcast(n, Message("DeleteKey", "SET", n, ops'))
    /\ UNCHANGED <<raftVars, log, store, fsmVars, handling>>

(* The leader keeps storeLock while raft applies the deletion, for which   *)
(* its state machine needs the lock.                                       *)
LeaderReadExpired(n, db) ==
    /\ n = leader /\ n \notin wedged /\ Commits /\ Count
    /\ Expired(n, db)
    /\ wedged' = wedged \cup {n}
    /\ Appended("delete-key", "SET", db, ops')
    /\ UNCHANGED <<raftVars, store, applied, copying, snapshot, mutation, queue,
                   handling>>

-----------------------------------------------------------------------------
(* Gossip *)

(* What n has left to send after one transmission of m.                    *)
Sent(n, m) ==
    (queue[n] \ {m}) \cup (IF m.left > 1 THEN {[m EXCEPT !.left = @ - 1]} ELSE {})

RelayKeeps(n, m, to) ==
    /\ m \in queue[n] /\ to # n /\ to # leader
    /\ queue' = [queue EXCEPT ![to] = Broadcast(@, m)]
    /\ UNCHANGED <<raftVars, log, store, fsmVars, mutation, handling, bounds>>

(* NotifyMsg at a node that is not the leader.                             *)
Relay(n, m, to) ==
    /\ m \in queue[n] /\ to # n /\ to # leader
    /\ queue' = [queue EXCEPT ![n] = Sent(n, m), ![to] = Broadcast(@, m)]
    /\ UNCHANGED <<raftVars, log, store, fsmVars, mutation, handling, bounds>>

AddVoterOnce(n) ==
    /\ Majority(leader, voters \cup {n}, reachable \cup {n})
    /\ voters' = voters \cup {n}
    /\ reachable' = IF n \in voters THEN reachable ELSE reachable \cup {n}

(* AddVoter, which changes the address of a server that is one already.    *)
AddVoter(n) ==
    /\ Majority(leader, voters \cup {n}, reachable \cup {n})
    /\ voters' = voters \cup {n}
    /\ reachable' = reachable \cup {n}

(* NotifyMsg at the leader: deletions and commands are for database 0.  It *)
(* returns when the entry has been applied.                                *)
NotifyLeader(m) ==
    IF m.action = "RaftJoin"
    THEN AddVoter(m.from) /\ UNCHANGED <<log, handling>>
    ELSE /\ Commits
         /\ IF m.action = "DeleteKey" THEN Appended("delete-key", "SET", 0, m.id)
            ELSE Appended("command", m.op, 0, m.id)
         /\ handling' = [handling EXCEPT ![leader] = Len(log) + 1]
         /\ UNCHANGED <<voters, reachable>>

(* The leader handles one message at a time.                               *)
Deliver(n, m) ==
    /\ m \in queue[n] /\ leader \notin {None, n}
    /\ applied[leader] >= handling[leader]
    /\ queue' = [queue EXCEPT ![n] = Sent(n, m)]
    /\ NotifyLeader(m)
    /\ UNCHANGED <<leader, stored, heard, store, fsmVars, mutation, bounds>>

-----------------------------------------------------------------------------
(* Faults *)

ResendDelivered(n, m) ==
    /\ m \in queue[n] /\ m.action = "MutateData" /\ leader \notin {None, n} /\ Fault
    /\ Appended("command", m.op, 0, m.id)
    /\ UNCHANGED <<raftVars, store, fsmVars, mutation, queue, handling>>

Lose(n, m) ==
    /\ m \in queue[n] /\ Fault
    /\ queue' = [queue EXCEPT ![n] = Sent(n, m)]
    /\ UNCHANGED <<raftVars, log, store, fsmVars, mutation, handling>>

(* n listens at another port from now on.  Its raft log is on disk, but    *)
(* not which of its entries are committed.                                 *)
Booted(n) ==
    /\ applied' = [applied EXCEPT ![n] = snapshot[n]]
    /\ data' = [data EXCEPT ![n] = [db \in Database |-> Absent]]
    /\ skewed' = IF snapshot[n] = 0 THEN skewed \ {n} ELSE skewed
    /\ wedged' = wedged \ {n} /\ copying' = copying \ {n}
    /\ mutation' = [mutation EXCEPT ![n] = FALSE]
    /\ handling' = [handling EXCEPT ![n] = 0]
    /\ leader' = IF leader = n THEN None ELSE leader
    /\ reachable' = reachable \ {n}
    /\ stored' = [stored EXCEPT ![n] = Holds(n)]
    /\ heard' = [heard EXCEPT ![n] = snapshot[n]]
    /\ queue' = [queue EXCEPT ![n] = Announced(n)]
    /\ UNCHANGED <<voters, log, snapshot>>

(* The process ends and is started again: raft restores the snapshot, if   *)
(* there is one, and applies the entries after it.                         *)
Restart(n) == Booted(n) /\ Fault

(* The copy of a store with keys writes into a nil map.                    *)
SnapshotPanics(n) ==
    /\ n \in copying /\ ~mutation[n]
    /\ \E db \in Database : data[n][db] # Absent
    /\ Booted(n) /\ UNCHANGED bounds

(* It goes on applying what it has committed.                              *)
StepDown ==
    /\ leader # None
    /\ Fault \/ (~Commits /\ UNCHANGED bounds)
    /\ leader' = None
    /\ stored' = [stored EXCEPT ![leader] = Len(log)]
    /\ heard' = [heard EXCEPT ![leader] = Len(log)]
    /\ UNCHANGED <<voters, reachable, log, store, fsmVars, mutation, queue, handling>>

(* The votes of a majority go to a server that has every committed entry.  *)
Elect(n) ==
    /\ leader = None /\ n \in voters
    /\ Majority(n, voters, reachable) /\ Holds(n) = Len(log)
    /\ leader' = n
    /\ UNCHANGED <<voters, reachable, stored, heard, log, store, fsmVars, mutation,
                   queue, handling, bounds>>

(* NotifyLeave at the leader, of a node that left or only seemed to.       *)
RemoveServer(n) ==
    /\ leader # None /\ n \in voters \ {leader} /\ Fault
    /\ Majority(leader, voters \ {n}, reachable)
    /\ voters' = voters \ {n}
    /\ UNCHANGED <<leader, reachable, stored, heard, log, store, fsmVars, mutation,
                   queue, handling>>

Tick ==
    /\ now < MaxTime
    /\ now' = now + 1
    /\ UNCHANGED <<raftVars, log, store, fsmVars, mutation, queue, handling, ops, faults>>

-----------------------------------------------------------------------------
Client(n) ==
    \/ \E op \in Commands, db \in Database : LeaderWrite(n, op, db)
    \/ \E op \in Commands : FollowerWrite(n, op)
    \/ \E db \in Database :
          Read(n, db) \/ FollowerReadExpired(n, db) \/ LeaderReadExpired(n, db)

StateMachine(n) ==
    Apply(n) \/ ApplyToExpired(n) \/ FinishSnapshot(n) \/ SnapshotPanics(n)

Gossip(n) == \E m \in queue[n] : Deliver(n, m) \/ \E to \in Node : Relay(n, m, to)

Trouble(n) ==
    \/ \E m \in queue[n] : Lose(n, m)
    \/ Restart(n) \/ RemoveServer(n) \/ StartSnapshot(n) \/ InstallSnapshot(n)

Next ==
    \/ \E n \in Node :
          StateMachine(n) \/ Gossip(n) \/ Elect(n) \/ Trouble(n)
    \/ \E n \in Serving : Client(n)
    \/ StepDown \/ Tick

(* State machines and elections do not all stand still, and a leader that  *)
(* has lost the majority steps down.  memberlist sends what is queued, to  *)
(* nodes that it draws at random: some transmission reaches the leader.    *)
Fairness ==
    /\ WF_vars(\E n \in Node : StateMachine(n) \/ Elect(n))
    /\ WF_vars(StepDown /\ ~Commits)
    /\ WF_vars(\E n \in Node : Gossip(n))
    /\ SF_vars(\E n \in Node : \E m \in queue[n] : Deliver(n, m))

Spec == Init /\ [][Next]_vars /\ Fairness

-----------------------------------------------------------------------------
TypeOK ==
    /\ leader \in voters \cup {None} /\ voters \subseteq Node
    /\ reachable \subseteq Node /\ log \in Seq(Entry)
    /\ stored \in [Node -> 0..Len(log)] /\ heard \in [Node -> 0..Len(log)]
    /\ applied \in [Node -> 0..Len(log)] /\ snapshot \in [Node -> 0..Len(log)]
    /\ data \in [Node -> [Database -> KeyData \cup {Absent}]]
    /\ mutation \in [Node -> BOOLEAN]
    /\ copying \subseteq Node /\ wedged \subseteq Node /\ skewed \subseteq Node
    /\ queue \in [Node -> SUBSET BroadcastMessage]
    /\ handling \in [Node -> 0..Len(log)]
    /\ now \in 1..MaxTime /\ ops \in 0..MaxOps /\ faults \in 0..MaxFaults

(* What entry e makes of the values s, one for each database.              *)
Advance(s, e) ==
    [s EXCEPT ![e.db] =
        IF e.type = "delete-key" \/ e.op = "DEL" THEN Absent
        ELSE IF e.op # "INCR" THEN 0
        ELSE IF @ = Absent THEN 1 ELSE @ + 1]

(* The values that the first entries of the log amount to, when no key has *)
(* expired before an entry that reads it is applied.                       *)
Replayed ==
    LET after[i \in 0..Len(log)] ==
            IF i = 0 THEN [db \in Database |-> Absent] ELSE Advance(after[i - 1], log[i])
    IN after

Values(s) == [db \in Database |-> IF s[db] = Absent THEN Absent ELSE s[db].value]

(* The store of every node has the keys and the values that the entries it *)
(* has applied amount to, whatever was read, forwarded, lost, restarted or *)
(* out of reach, unless a handler met an expired key in it or a snapshot   *)
(* was installed over it.  (Nothing is said of deadlines: see ReadsAgree.) *)
ReplicasAgree == \A n \in Node \ skewed : Values(data[n]) = Replayed[applied[n]]

(* The state of every node is one that the log accounts for.               *)
ReplicasConsistent == TypeOK /\ ReplicasAgree

(* docs/architecture/index.md:10: "Strongly consistent RAFT cluster."  Two *)
(* voters that have applied the same entries answer the same to a read.    *)
ReadsAgree ==
    \A n, m \in voters, db \in Database :
        LET shown(k) == IF Expired(k, db) THEN Absent ELSE Values(data[k])[db]
        IN  applied[n] = applied[m] => shown(n) = shown(m)

(* A forwarded command is applied at most once, through relays, elections  *)
(* and restarts, as long as a broadcast is transmitted once.               *)
ForwardedOnce ==
    \A i, j \in DOMAIN log : log[i].id = log[j].id /\ log[i].id # 0 => i = j

(* Who cannot go on: storeLock is never released, or the copy of the state *)
(* waits for a flag that only a command which needs no raft lowers.        *)
Stuck(n) == n \in wedged \/ (n \in copying /\ mutation[n])

(* After a single failure, a restart with a new port for one, every voter  *)
(* applies every entry in the end, unless there is no leader or one that   *)
(* is stuck, as the voter itself may be.  The exception is First once it   *)
(* is not the leader any more.                                             *)
EntriesApplied ==
    []<>(\/ faults > 1 \/ leader = None \/ Stuck(leader)
         \/ \A n \in voters :
                Stuck(n) \/ applied[n] = Len(log) \/ (n = First /\ n # leader))

(* What is forwarded does not circulate for ever: the queues drain when    *)
(* there is a leader that is not stuck.                                    *)
GossipSettles ==
    []<>(leader = None \/ Stuck(leader) \/ \A n \in Node : queue[n] = {})

(* Nodes that announce themselves at the same time all become voters,      *)
(* unless something fails or the leader is stuck.                          *)
JoinersBecomeVoters ==
    <>(voters = Node \/ faults > 0 \/ Stuck(leader))
=============================================================================
