--------------------------- MODULE GenericCommands ---------------------------
(***************************************************************************)
(* Clients running the handlers of internal/modules/generic/commands.go    *)
(* against the keyspace of a standalone server.  A handler is a sequence   *)
(* of calls (KeysExist, GetExpiry, GetValues, SetValues, SetExpiry,        *)
(* DeleteKey, Flush), each of which takes and releases storeLock; between  *)
(* two calls any other client may run.  proc[c].at says which call of its  *)
(* handler client c makes next.                                            *)
(*                                                                         *)
(* A command is a record: op its name, db the database of its connection,  *)
(* key, keys and to the keys it names, value and delta its arguments, ttl  *)
(* and abs its expiry (relative or absolute; NoTTL when there is none),    *)
(* opt and get its flags.  Argument parsing, whose errors come before any  *)
(* call, and the wording of the replies are left out.                      *)
(***************************************************************************)
EXTENDS Keyspace, Sequences

CONSTANTS
    Client,    \* connections, one goroutine each
    Command,   \* the commands that the clients issue
    Restored,  \* the entries of the snapshot or AOF preamble loaded at start
    MaxInt,    \* the largest int64; INCR wraps around
    MaxOps     \* bound: the number of commands per client

VARIABLES
    proc,      \* proc[c]: the handler that client c runs, and its last reply
    issued     \* issued[c]: the number of commands of client c so far

cvars == <<created, store, keysWithExpiry, charged, changeCount, now, status,
           proc, issued>>

NoTTL == -1

NoCommand ==
    [op |-> "none", db |-> Nil, key |-> Nil, keys |-> {}, to |-> Nil,
     value |-> Nil, delta |-> 0, ttl |-> NoTTL, abs |-> FALSE,
     opt |-> "", get |-> FALSE]

Idle(m, r) == [at |-> "idle", cmd |-> m, value |-> Nil, deadline |-> 0,
               todo |-> {}, reply |-> r]

(* int64 arithmetic.                                                       *)
Counter == (-MaxInt - 1)..MaxInt

Wrap(n) == ((n + MaxInt + 1) % (2 * (MaxInt + 1))) - (MaxInt + 1)

(* What the parsers let through: the keys, values and times of a command   *)
(* are of their types, an MSET has keys, and numbers are int64; a command  *)
(* that works on one key names that key alone in keys.                     *)
OneKey == {"SET", "GET", "GETDEL", "GETEX", "PERSIST", "TTL", "EXPIRETIME",
           "EXPIRE", "INCR", "RENAME", "TYPE"}

WellFormed(m) ==
    /\ m.db \in Database /\ m.keys \subseteq Key /\ m.delta \in Counter
    /\ m.op \in OneKey => m.key \in Key /\ m.keys = {m.key}
    /\ m.op = "RENAME" => m.to \in Key
    /\ m.op \in {"SET", "MSET"} => m.value \in Value
    /\ m.op = "MSET" => m.keys # {}
    /\ m.ttl # NoTTL => m.ttl \in Nat /\ (m.abs => m.ttl \in Deadline)
    /\ m.op = "EXPIRE" => m.ttl # NoTTL

ASSUME CommandAssumption ==
    /\ MaxInt \in Nat /\ MaxOps \in Nat /\ Counter \subseteq Value
    /\ \A m \in Command : WellFormed(m)
    /\ \A r \in Restored :
          /\ r.db \in Database /\ r.key \in Key
          /\ r.data \in [value : Value \cup {Nil}, expireAt : Deadline]

(* The deadline that a command's expiry arguments stand for; one beyond    *)
(* the horizon of the clock is never reached.                              *)
DeadlineOf(m) ==
    IF m.abs THEN m.ttl
    ELSE IF now + m.ttl > MaxClock THEN MaxClock ELSE now + m.ttl

(* Client c is about to make the call named at, in the handler of one of   *)
(* the commands ops.                                                       *)
At(c, ops, at) ==
    /\ status = "up"
    /\ proc[c].at = at
    /\ proc[c].cmd.op \in ops

Reply(c, r) == proc' = [proc EXCEPT ![c] = Idle(proc[c].cmd, r)]

Goto(c, at) == proc' = [proc EXCEPT ![c].at = at]

Err == <<"err">>
Ok == <<"ok">>
Val(v) == <<"val", v>>
Num(n) == <<"int", n>>

(* The call to SetValues, whose error ends the handler.                    *)
Write(c, entries, done) ==
    \/ IsMaxMemoryExceeded /\ UNCHANGED vars /\ Reply(c, Err)
    \/ SetValues(proc[c].cmd.db, entries) /\ done

One(k, v) == [x \in {k} |-> v]

-----------------------------------------------------------------------------
(* SET key value [NX | XX] [GET] [EX ...]                                  *)
Refused(m, exists) ==
    (m.opt = "NX" /\ exists) \/ (m.opt = "XX" /\ ~exists)

SetReply(c) == IF proc[c].cmd.get THEN Val(proc[c].value) ELSE Ok

handleSet(c) ==
    LET m == proc[c].cmd IN
    \/ /\ At(c, {"SET"}, "start")
       /\ LET exists == Present(m.db, m.key)
              next   == IF m.get /\ exists THEN "read" ELSE "write"
              expiry == IF m.ttl = NoTTL THEN 0 ELSE DeadlineOf(m)
          IN  IF Refused(m, exists) /\ next = "write"
              THEN Reply(c, Err)
              ELSE proc' = [proc EXCEPT ![c].at = next, ![c].deadline = expiry]
       /\ UNCHANGED vars
    \/ /\ At(c, {"SET"}, "read")
       /\ GetValues(m.db, {m.key})
       /\ IF m.opt = "NX"
          THEN Reply(c, Err)
          ELSE proc' = [proc EXCEPT ![c].at = "write",
                                    ![c].value = Lookup(m.db, m.key)]
    \/ /\ At(c, {"SET"}, "write")
       /\ Write(c, One(m.key, m.value),
                IF proc[c].deadline # 0 THEN Goto(c, "expire")
                ELSE Reply(c, SetReply(c)))
    \/ /\ At(c, {"SET"}, "expire")
       /\ SetExpiry(m.db, m.key, proc[c].deadline)
       /\ Reply(c, SetReply(c))

MSetDropsLast(c) ==
    /\ At(c, {"MSET"}, "start")
    /\ LET m == proc[c].cmd IN
       \E k \in m.keys : Write(c, One(k, m.value), Reply(c, Ok))

handleMSet(c) ==
    /\ At(c, {"MSET"}, "start")
    /\ LET m == proc[c].cmd IN
       Write(c, [k \in m.keys |-> m.value], Reply(c, Ok))

(* GET, and the two commands that go on from its reading of the key.       *)
handleGet(c) ==
    LET m == proc[c].cmd IN
    \/ /\ At(c, {"GET", "GETDEL", "GETEX"}, "start")
       /\ IF Present(m.db, m.key) THEN Goto(c, "read") ELSE Reply(c, Val(Nil))
       /\ UNCHANGED vars
    \/ /\ At(c, {"GET"}, "read")
       /\ GetValues(m.db, {m.key})
       /\ Reply(c, Val(Lookup(m.db, m.key)))

handleMGet(c) ==
    LET m == proc[c].cmd IN
    /\ At(c, {"MGET"}, "start")
    /\ GetValues(m.db, m.keys)
    /\ Reply(c, <<"map", [k \in m.keys |-> Lookup(m.db, k)]>>)

(* DEL deletes the keys that existed when it looked, one after the other,  *)
(* and counts them whether or not they are still there.                    *)
handleDel(c) ==
    LET m == proc[c].cmd
        found == {k \in m.keys : Present(m.db, k)}
    IN
    \/ /\ At(c, {"DEL"}, "start")
       /\ IF found = {} THEN Reply(c, Num(0))
          ELSE proc' = [proc EXCEPT ![c].at = "delete", ![c].todo = found,
                                    ![c].value = Cardinality(found)]
       /\ UNCHANGED vars
    \/ /\ At(c, {"DEL"}, "delete")
       /\ \E k \in proc[c].todo :
             /\ DeleteKey(m.db, k)
             /\ IF proc[c].todo = {k} THEN Reply(c, Num(proc[c].value))
                ELSE proc' = [proc EXCEPT ![c].todo = @ \ {k}]

handlePersist(c) ==
    LET m == proc[c].cmd IN
    \/ /\ At(c, {"PERSIST"}, "start")
       /\ IF Present(m.db, m.key) THEN Goto(c, "check") ELSE Reply(c, Num(0))
       /\ UNCHANGED vars
    \/ /\ At(c, {"PERSIST"}, "check")
       /\ IF getExpiry(m.db, m.key) = 0 THEN Reply(c, Num(0))
          ELSE Goto(c, "expire")
       /\ UNCHANGED vars
    \/ /\ At(c, {"PERSIST"}, "expire")
       /\ SetExpiry(m.db, m.key, 0)
       /\ Reply(c, Num(1))

(* TTL and EXPIRETIME: -2 without the key, -1 without an expiry.           *)
handleTTL(c) ==
    LET m == proc[c].cmd
        t == getExpiry(m.db, m.key)
    IN
    /\ UNCHANGED vars
    /\ \/ /\ At(c, {"TTL", "EXPIRETIME"}, "start")
          /\ IF Present(m.db, m.key) THEN Goto(c, "check")
             ELSE Reply(c, Num(-2))
       \/ /\ At(c, {"TTL", "EXPIRETIME"}, "check")
          /\ Reply(c, Num(IF t = 0 THEN -1
                          ELSE IF m.op = "EXPIRETIME" THEN t
                          ELSE IF t <= now THEN 0 ELSE t - now))

(* Whether the option of EXPIRE lets deadline t replace the current one.   *)
ExpiryAllowed(opt, current, t) ==
    CASE opt = "NX" -> current = 0
      [] opt = "XX" -> current # 0
      [] opt = "GT" -> current # 0 /\ ~(t < current)
      [] opt = "LT" -> current = 0 \/ ~(current < t)

(* EXPIRE and EXPIREAT.  With LT and a current expiry, SetExpiry is called *)
(* a second time.                                                          *)
handleExpire(c) ==
    LET m == proc[c].cmd
        current == getExpiry(m.db, m.key)
    IN
    \/ /\ At(c, {"EXPIRE"}, "start")
       /\ IF ~Present(m.db, m.key) THEN Reply(c, Num(0))
          ELSE proc' = [proc EXCEPT
                          ![c].at = IF m.opt = "" THEN "expire" ELSE "check",
                          ![c].deadline = DeadlineOf(m)]
       /\ UNCHANGED vars
    \/ /\ At(c, {"EXPIRE"}, "check")
       /\ IF ~ExpiryAllowed(m.opt, current, proc[c].deadline)
          THEN Reply(c, Num(0))
          ELSE Goto(c, IF m.opt = "LT" /\ current # 0 THEN "expire twice"
                       ELSE "expire")
       /\ UNCHANGED vars
    \/ /\ At(c, {"EXPIRE"}, "expire twice")
       /\ SetExpiry(m.db, m.key, proc[c].deadline)
       /\ Goto(c, "expire")
    \/ /\ At(c, {"EXPIRE"}, "expire")
       /\ SetExpiry(m.db, m.key, proc[c].deadline)
       /\ Reply(c, Num(1))

(* INCR, DECR, INCRBY and DECRBY by delta: read, then write.               *)
handleIncr(c) ==
    LET m == proc[c].cmd
        v == Lookup(m.db, m.key)
    IN
    \/ /\ At(c, {"INCR"}, "start")
       /\ GetValues(m.db, {m.key})
       /\ IF v # Nil /\ v \notin Counter THEN Reply(c, Err)
          ELSE proc' = [proc EXCEPT
                          ![c].at = "write",
                          ![c].value = IF v = Nil THEN m.delta
                                       ELSE Wrap(v + m.delta)]
    \/ /\ At(c, {"INCR"}, "write")
       /\ Write(c, One(m.key, proc[c].value), Reply(c, Num(proc[c].value)))

handleRename(c) ==
    LET m == proc[c].cmd
        v == Lookup(m.db, m.key)
    IN
    \/ /\ At(c, {"RENAME"}, "start")
       /\ GetValues(m.db, {m.key})
       /\ IF v = Nil THEN Reply(c, Err)
          ELSE proc' = [proc EXCEPT ![c].at = "write", ![c].value = v]
    \/ /\ At(c, {"RENAME"}, "write")
       /\ Write(c, One(m.to, proc[c].value), Goto(c, "delete"))
    \/ /\ At(c, {"RENAME"}, "delete")
       /\ DeleteKey(m.db, m.key)
       /\ Reply(c, Ok)

(* FLUSHDB of a database that was never created panics before it answers.  *)
handleFlush(c) ==
    \/ /\ At(c, {"FLUSHALL"}, "start")
       /\ FlushAll
       /\ Reply(c, Ok)
    \/ /\ At(c, {"FLUSHDB"}, "start")
       /\ FlushDB(proc[c].cmd.db)
       /\ IF status' = "crashed" THEN UNCHANGED proc ELSE Reply(c, Ok)

(* RANDOMKEY answers with some key of the map, expired or not.             *)
handleRandomkey(c) ==
    LET found == {k \in Key : Present(proc[c].cmd.db, k)} IN
    /\ At(c, {"RANDOMKEY"}, "start")
    /\ \E k \in IF found = {} THEN {Nil} ELSE found : Reply(c, Val(k))
    /\ UNCHANGED vars

(* TOUCH counts the keys in the map; 0 when there is no memory limit.      *)
handleTouch(c) ==
    LET found == {k \in proc[c].cmd.keys : Present(proc[c].cmd.db, k)} IN
    /\ At(c, {"TOUCH"}, "start")
    /\ Reply(c, Num(IF MaxMemory = 0 THEN 0 ELSE Cardinality(found)))
    /\ UNCHANGED vars

handleGetdel(c) ==
    LET m == proc[c].cmd IN
    \/ /\ At(c, {"GETDEL"}, "read")
       /\ GetValues(m.db, {m.key})
       /\ proc' = [proc EXCEPT ![c].at = "delete",
                               ![c].value = Lookup(m.db, m.key)]
    \/ /\ At(c, {"GETDEL"}, "delete")
       /\ DeleteKey(m.db, m.key)
       /\ Reply(c, Val(proc[c].value))

(* GETEX key [EX ... | PERSIST].  The option is changed to upper case and  *)
(* then compared with "persist": PERSIST has an effect only when a time    *)
(* follows it, and without one GETEX only reads.                           *)
handleGetex(c) ==
    LET m == proc[c].cmd IN
    \/ /\ At(c, {"GETEX"}, "read")
       /\ GetValues(m.db, {m.key})
       /\ IF m.ttl = NoTTL
          THEN Reply(c, Val(Lookup(m.db, m.key)))
          ELSE proc' = [proc EXCEPT
                          ![c].at = "expire",
                          ![c].deadline = IF m.opt = "PERSIST" THEN 0
                                          ELSE DeadlineOf(m),
                          ![c].value = Lookup(m.db, m.key)]
    \/ /\ At(c, {"GETEX"}, "expire")
       /\ SetExpiry(m.db, m.key, proc[c].deadline)
       /\ Reply(c, Val(proc[c].value))

(* TYPE of a key that is gone when its value is read: Kind is called on    *)
(* the nil reflect.Type, after the read.                                   *)
handleType(c) ==
    LET m == proc[c].cmd IN
    \/ /\ At(c, {"TYPE"}, "start")
       /\ IF Present(m.db, m.key) THEN Goto(c, "read") ELSE Reply(c, Err)
       /\ UNCHANGED vars
    \/ /\ At(c, {"TYPE"}, "read")
       /\ IF Lookup(m.db, m.key) = Nil THEN Goto(c, "panic") ELSE Reply(c, Ok)
       /\ GetValues(m.db, {m.key})
    \/ /\ At(c, {"TYPE"}, "panic")
       /\ Panic
       /\ UNCHANGED proc

(* SELECT and SWAPDB create a database; the connection's part is elsewhere *)
handleSelect(c) ==
    /\ At(c, {"SELECT"}, "start")
    /\ \/ CreateDatabase(proc[c].cmd.db)
       \/ proc[c].cmd.db \in created /\ UNCHANGED vars
    /\ Reply(c, Ok)

-----------------------------------------------------------------------------
CommandsInit ==
    /\ Init
    /\ proc = [c \in Client |-> Idle(NoCommand, <<"none">>)]
    /\ issued = [c \in Client |-> 0]

(* The restore code loads what was persisted before the server serves.     *)
Load ==
    /\ \E r \in Restored :
          /\ ~Present(r.db, r.key)
          /\ SetKeyData(r.db, r.key, r.data)
    /\ UNCHANGED <<proc, issued>>

(* handleConnection reads the next command of its client.                  *)
Receive(c, m) ==
    /\ status = "up"
    /\ proc[c].at = "idle"
    /\ issued[c] < MaxOps
    /\ issued' = [issued EXCEPT ![c] = @ + 1]
    /\ proc' = [proc EXCEPT ![c].at = "start", ![c].cmd = m]
    /\ UNCHANGED vars

Handle(c) ==
    /\ \/ handleSet(c)     \/ handleMSet(c)  \/ handleGet(c)    \/ handleMGet(c)
       \/ handleDel(c)     \/ handlePersist(c) \/ handleTTL(c)
       \/ handleExpire(c)  \/ handleIncr(c)  \/ handleRename(c)
       \/ handleFlush(c)   \/ handleRandomkey(c) \/ handleTouch(c)
       \/ handleGetdel(c)  \/ handleGetex(c) \/ handleType(c) \/ handleSelect(c)
    /\ UNCHANGED issued

CommandsNext ==
    \/ Load
    \/ Start /\ UNCHANGED <<proc, issued>>
    \/ Tick /\ UNCHANGED <<proc, issued>>
    \/ \E c \in Client : Handle(c) \/ \E m \in Command : Receive(c, m)

CommandsSpec == CommandsInit /\ [][CommandsNext]_cvars

=============================================================================
