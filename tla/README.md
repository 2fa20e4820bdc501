# SugarDB (EchoVault) in TLA+

This directory holds a TLA+ model of the SugarDB server (formerly EchoVault),
the TLC instances that check it, and TLAPS proofs about it. Paths below are
relative to the repository (`src/`). `PROJECT.json` maps each definition to the
lines it models and lists the runs, mutants, findings and hazards.

## 1. The system

SugarDB is a Redis-like key-value server, embeddable as a Go library. One process
keeps all data in memory; it can persist it (append-only file, snapshots), and
can replicate it (raft, with gossip for membership and command forwarding).

| Component | State | Operations | Interactions |
|---|---|---|---|
| Keyspace, `sugardb/keyspace.go` | `store[db][key]` (value, deadline), `keysWithExpiry[db]`, `memUsed`, LFU/LRU caches, `storeLock` | `setValues`, `getValues`, `setExpiry`, `deleteKey`, `Flush`, `createDatabase`, `keysExist`, `getExpiry`, `randomKey` | called by all handlers, by the restore code and by raft; counts changes for the snapshot engine |
| Command pipeline, `sugardb/modules.go`, `sugardb.go` | connection table, `stateMutationInProgress`, `stateCopyInProgress` | `handleConnection`, `handleCommand`, `getState` | decodes, authorises, gates, runs the handler, logs to the AOF or goes through raft |
| Generic commands, `internal/modules/generic` | none of their own | SET, GET, DEL, EXPIRE, INCR, RENAME, ... | a sequence of keyspace calls, each locking by itself |
| Data types, `internal/modules/{hash,list,set,sorted_set,string}` | values in the store | HSET, LPUSH, SADD, ZADD, APPEND, ... | as the generic commands; sets, sorted sets and hashes are references, lists slices, that handlers change in place |
| Append-only file, `internal/aof` | log file, preamble file, `currentDatabase` | `LogCommand`, `RewriteLog`, `Restore`, sync ticker | `getState` for the preamble, `handleCommand` for the replay |
| Snapshots, `internal/snapshot` | manifest, snapshot files, change count, `snapshotInProgress` | `TakeSnapshot`, `Restore`, interval ticker | `getState`, the restore code |
| Eviction, `internal/eviction`, `keyspace.go` | LFU and LRU heaps with their key sets | cache update, `adjustMemoryUsage`, TTL sampler | deletes keys of the keyspace, holds `storeLock` |
| Connections, `internal/modules/connection` | per connection: name, protocol, database | AUTH, HELLO, SELECT, SWAPDB | the database of every command |
| ACL, `internal/modules/acl` | users, rules, connections, compiled patterns, config file | ACL SETUSER, DELUSER, LOAD, SAVE, AUTH, `AuthorizeConnection` | in `handleCommand`, before the gate |
| Pub/Sub, `internal/modules/pubsub` | list of channels and patterns, a queue each, subscribers | (P)SUBSCRIBE, (P)UNSUBSCRIBE, PUBLISH | one goroutine per channel, one per delivery |
| Cluster, `internal/raft`, `internal/memberlist`, `sugardb/cluster.go` | raft log (library), FSM, gossip broadcasts | `Apply`, `Snapshot`, `Restore`, forwarding | replaces the direct execution of `Sync` commands |
| Admin, embedded API, plugins, configuration | | | start or wrap the above |

What is hard here:

* A handler is several critical sections. `handleSet` looks the key up under one
  lock and writes under another; everything it knows may be stale in between.
* Three structures describe the same keys: the store, the list of volatile keys
  and the memory account; with an eviction policy a heap makes a fourth. Every
  operation has to update all of them.
* Expiry is lazy: an expired key stays in the map until a read finds it, and the
  code asks "does it exist" in two ways, with and without the deadline.
* The gate between writes and state copies is two atomic Booleans, each tested
  and set in separate steps.
* The AOF is two files that are rewritten one after the other, a snapshot a
  manifest and a file that it names; a crash can come between any two steps.
  The replay does not have the connections under which the commands ran.
* Values are shared: two keys can hold one `*Set`, and a handler that fails may
  have changed the value already.
* Evictions run in goroutines that outlive the update that started them.
* PUBLISH blocks with the lock of the channel list held, so a slow reader can
  reach every other client.
* In a cluster forwarded commands are answered before they are applied, gossip
  loses, every node sets deadlines and decides that they have passed by its own
  clock, nodes are reached at addresses that go stale, and the leader waits for raft with a lock that its own state machine needs.
* A connection keeps a pointer to a user that LOAD, SETUSER and DELUSER replace,
  change or drop.

What makes each component correct, in a sentence: the keyspace's structures
agree and live keys leave only by deletion; each command looks like one step on
the data; no write runs during a copy; what is answered survives as far as the
sync strategy says; a restart gives back the last finished snapshot; evictions
take the right key and make room; a command on a value changes only the keys it
declares, and nothing when it fails; every message reaches its subscribers once
and nobody else; the replicas are the effect of one log; a connection is always
attached to a user that is in force. The hazards list in `PROJECT.json` places
what threatens each of these at its line.

## 2. The modules

| Module | Models | Notes |
|---|---|---|
| `Keyspace` | `sugardb/keyspace.go`, the memory functions of `internal/types.go` and `internal/utils.go`, the restore callback of `sugardb.go` | one action per operation under `storeLock` |
| `GenericCommands` | `internal/modules/generic/commands.go` | extends `Keyspace`; one action per handler, one disjunct per keyspace call |
| `CommandProofs` | | theorems about `Keyspace` and `GenericCommands` |
| `AtomicStore` | | abstract specification: each command at one instant |
| `CommandProperties` | | properties of `GenericCommands`, refinement mapping to `AtomicStore` |
| `StateCopy` | the gate of `handleCommand` and the loop of `getState` | one action per load or store of a flag |
| `AppendOnly` | `internal/aof`, the logging and replaying part of `handleCommand` | one action per file operation, crash and restore |
| `AppendOnlyProofs` | | theorems about `AppendOnly` |
| `Snapshot` | `internal/snapshot/snapshot.go` | one action per step of `TakeSnapshot`, ticker, crash and restore |
| `SnapshotProofs` | | theorems about `Snapshot` |
| `Heap` | `container/heap`, as the caches use it | external; pure operators, the loops as recursive functions |
| `Eviction` | `internal/eviction`, the eviction half of `keyspace.go` | instantiates `Heap`; one action per critical section or unlocked access of a goroutine |
| `EvictionProofs` | | theorems about `Heap` and `Eviction` |
| `DataStore` | the keyspace calls as a data type handler sees them | values with identity, a memory limit that may be hit at every call |
| `Strings`, `Lists`, `Hashes`, `Sets`, `SortedSets` | `internal/modules/{string,list,hash,set,sorted_set}` with their key extraction functions | each extends `DataStore`; one operator per handler, the algorithms of `set.go`, `sorted_set.go` as recursive functions |
| `DataTypes` | | composes the five over one store, with what they promise |
| `HandlerProofs` | | theorems about `DataTypes` and `StateCopy` |
| `PubSub` | `internal/modules/pubsub` | one action per lock, queue or connection operation |
| `PubSubProofs` | | theorems about `PubSub` |
| `Cluster` | `internal/raft`, `internal/memberlist`, `sugardb/cluster.go`, the cluster branches of `handleCommand` and `getValues` | raft and memberlist themselves are external |
| `ClusterProofs` | | theorems about `Cluster` |
| `AccessControl` | `internal/modules/acl`, AUTH | one action per critical section, SAVE in three |
| `AccessControlProofs` | | theorems about `AccessControl` |
| `MCCommands`, `MCAccessControl`, `MCEviction`, `MCCluster` | | constants for TLC |
| `MCState`, `MCLog`, `MCGoroutines` | | what one run checks together |

`GenericCommands` composes the keyspace with concurrent handlers, `DataTypes`
composes the data types over a shared store, `Eviction` the caches with the
store, `Cluster` the command pipeline with the FSM and the gossip. The other
modules meet through what they abstract: `AppendOnly` and `Snapshot` take the
copy of the state in one step, and `StateCopy` says when that is so.

### Keyspace

`created`, `store`, `keysWithExpiry` and `now` are the server's fields. `memUsed`
is kept as `charged[db][key]`, what each key has contributed so far; `MemUsed` is
the sum, and the comparison with the limit is modulo `Word` (2^64 in the code),
because the code converts the signed number to `uint64`. `Blank` stands for the
empty strings that `clear()` leaves in a slice. `status` is `"starting"` while
the restore code runs, and `"crashed"` after a Go panic. The eviction policy is
the default `noeviction`, so neither caches nor the TTL sampler change anything.

### GenericCommands

`proc[c]` is the handler of connection `c`: which call it makes next (`at`) and
the locals that live across calls. Any other client can run between two calls.
Modelled are SET (NX, XX, GET, EX and its kin), MSET, GET, MGET, DEL, PERSIST,
TTL/EXPIRETIME, EXPIRE/EXPIREAT (NX, XX, GT, LT), INCR/DECR/INCRBY/DECRBY,
RENAME, FLUSHDB/FLUSHALL, RANDOMKEY, TOUCH, GETDEL, GETEX, TYPE and SELECT. The
second and millisecond forms of a command are one: the unit of the clock is
abstract. Argument errors come before any keyspace call and are left out.

### StateCopy

`at[p]` is the step of a client (`gate`, `raise`, `run`, `lower`) or of a copier
(`load copy`, `load mutation`, `claim`, `copy`). A handler is the time it runs
and whether it fails: on an error `handleCommand` returns without lowering the
flag. Several copiers run: a snapshot and a rewrite of the log do not exclude each other. `failed` is a history variable: the clients whose write failed since the
flag was last lowered.

### AppendOnly

A command is a number, and the data of a database the sequence of the commands
applied to it, so order, loss and duplication are visible. `log` and `preamble`
are the files as written, `synced` and `onDisk` what of them is certain to
survive a crash: a prefix of the log at least as long as `synced`, perhaps with
a torn entry, and one of the preamble's contents since its last sync.
A crash can come at any step, and a write, truncation or sync of the files can
fail (`AnswerFailed`, `SyncFails`, `RewriteFails`): a failed write leaves nothing or a
part of its text, and the errors are printed and passed over. Values are
strings: sets and sorted sets, whose members JSON drops, are left out, and so is
expiry.

`exposed` is a history variable. It collects the commands that the engine
gives no guarantee for, and so says exactly where the guarantee ends:

* a command between its handler and its log entry when the state is copied (it
  can end up in the preamble and in the new log);
* a command that is logged between the copy and the truncation (it is lost);
* a command that is logged while the log is unreadable: behind a torn entry,
  behind the `SELECT -1` of a rewrite before the first logged command, behind the
  `SELECT` of a database above 9, its own included (the length is always written
  as 1), or after a preamble that cannot be parsed (the restore ends there, and does so at every
  later start until the next rewrite);
* a command whose own write or sync failed (its client is answered all the same);
* every command so far, when the server crashes after the old preamble was
  truncated and before the log is, or the rewrite fails there.

`syncing` is the goroutine of `everysec`: it ends at its first error, and nothing
syncs the log from then on but a rewrite.
The strategy is chosen in the initial state and never changes. `earlier` is a history
variable: the pairs of commands of which one was answered before the other was called.

### Snapshot

`mem[k]` is a value with its deadline; a value is a string, or a set, of which
`Json` keeps nothing (the fields of `Set` are not exported). Every file is a
record of what it holds now and of what a crash may leave of it; `Truncated`,
`Written` and `Synced` are `os.Create`, `Write` and `Sync`. `at[s]` is the next
step of `TakeSnapshot` in the goroutine `s`, the ticker's or a SAVE's, and
`task[s]` its locals: they share the files, the flag and the change count.
`last` and `exposed` are history variables: what memory was when the last
snapshot that finished copied it, and whether the disk may be inconsistent.
`exposed` is set by a crash or a failing file operation (`OperationFails`)
between the truncation of the manifest and the sync of the state file, by a sync
that fails, which the code prints and passes over (`SyncFails`), and by two
snapshots that overlap or fall into the same millisecond. What the module shows
of such a server: an empty or garbled manifest makes every later snapshot and
every restore return early, and a state file that is opened without `O_TRUNC`
keeps the tail of a longer one.

### Eviction

Every key takes one unit of memory. `entries[d]`, `keys[d]` are the cache of a
database with the index that each entry keeps of itself, changed only through
`Heap`'s `Push`, `Rest` (what `heap.Pop` leaves), `Fix` and `Remove`; a turn of the loops of `up` and
`down` is `Moved`. `pending[d][k]` counts the goroutines that
`setValues` and `getValues` have started and that have not run yet. `own[d]` is
the goroutine of `adjustMemoryUsage` that the present update waits for, `late[d]`
one of an update that has returned early because another goroutine failed: it
goes on without the lock. An eviction loads `memUsed` and stores it in two
steps, since the code does not synchronise it. `sampler[d]` is the TTL sampler.
`used` and `volatiles` are history variables from which the properties say what
should have been evicted.

The module follows the code into its dead ends: the sampler's indices that are
below the number of databases instead of keys, the nil entries that a flush
leaves in a heap, the LRU cache that never enters a key in its set and so pushes
a new entry at every access, allkeys-random on an empty database.

### Data types

`DataStore` is the keyspace as one client's handlers see it: `store[k]` is a value
with its Go type, `shared[k]` the keys that hold the same object. `Save` is
`SetValues`, which may fail at any call because of the limit; `InPlace` changes
an object for every key that holds it; `ChangeThenSave` is the order in which
several handlers do the two. `call` is the command that was handled last, with
the keys that its key extraction function declares to read and to write, and
its answer. A panic is an answer after which nothing follows.

`SortedSets` and `Sets` contain the algorithms of `sorted_set.go` and `set.go` as
they are: unions and intersections by halves, the aggregate and the weights
where the code applies them, `Subtract`, `Pop`, the `length` field that is kept
beside the map. `Lists` has the loops of LREM over the array that they shift. All
recursion is a recursive function, of the turns of a loop (`turn` in `LRemLoop`) or of
the parts that halving leaves (`Parts`, `Left`, `Right`); a union in place is
first the list of its additions (`Merges`), then their effect one after the other. Scores and numbers are small integers, one infinity; floats
are told apart from integers by type only; a string is a sequence of two
characters, one of them a digit, because APPEND and SETRANGE convert. Members of
a lexical range are ordered as numbers.

### PubSub

`channels` is the list, each with its kind, subscribers and queue. Subscribing
takes the write lock (`wait`), adds the client (`join`) and writes a confirmation
to its connection (`confirm`) with the lock held. PUBLISH walks the list
(`cursor[c]`) under the read lock and blocks where a queue is full. `Take(i)` is
the goroutine of a channel: it receives and reads the subscribers, and starts a
delivery for each. `stalled` clients do not read, so a write to them does not
return; `gone` ones are disconnected, and stay subscribed, as in the code. Go's
`RWMutex` makes readers wait behind a waiting writer, and so does the model.
`target`, `received` and `inFlight` record what is needed to say who should have
got what.

### Cluster

A node's store is one key in each database, enough for agreement. `log` is raft's
log of committed entries, `applied[n]` how far the FSM of `n` is, `queue[n]` its
gossip broadcasts, with the number of transmissions left. `LeaderWrite` appends
and waits, `FollowerWrite` forwards and answers, if forwarding is configured.
`NotifyMsg` is `NotifyLeader`, which applies, and `Relay` at the other nodes.
`LeaderReadExpired` takes `storeLock` and waits for its own FSM: `wedged`. A time to live
counts from the moment at which a node applies the command (`Handled` reads `now`), and from
a later one when it applies it again after a restart, as
`generic/utils.go:67` and `82` do. `skewed` is a history variable: the nodes for which a
handler in the FSM met an expired key, or over whose store a snapshot was
installed, so that their store need not be the effect of the log.

`reachable` are the nodes that listen at the address that the raft configuration has for
them. First bootstraps itself with an address that has no port (`raft.go:144`), so
nobody can dial it; it can dial the others, and leads as long as a majority is within its
reach. A node that starts again has another free port (`config.go:191`) and is reached
once the leader has handled its announcement (`AddVoter`), which First never makes. An
unreachable node has of the log what it had received (`stored`) and applies what it knows
to be committed (`heard`). A leader that reaches no majority commits nothing and
steps down; a candidate needs a majority that it reaches, and all committed entries. First
leads at the start. Elections, restarts, lost transmissions, removals
and snapshots are faults and bounded.

### AccessControl

A `*User` is an identity in `object`; `users` (the list) and `conns` (the
connections) hold identities, so replacing a user and changing it in place are
different things, as in the code. Every handler is one action, except SAVE,
which holds only a read lock and writes the file in three. `globs` are the
compiled patterns. `touched`, `untidy` and `uncompiled` are history variables
that name the known gaps: users that SETUSER changed without normalising them,
and users that LOAD changed without compiling their patterns, and that no
SETUSER found in the list since. The passes of `UpdateUser`, the deletions and LOAD
are recursive functions over the tokens, the list and the file. `Edit` stands for
an operator who writes the file by hand, though not beside a SAVE: it is what LOAD is for.

## 3. The runs

Passing runs. Each of the first three checks several modules, which do not act on each
other: in every behaviour one of them moves (`part`), chosen at the start, and the others
stay as they began. What the modules need of each other is in the modules themselves.

| Run | Question | Bounds |
|---|---|---|
| `state`, commands | Every pair of generic commands, interleaved call by call: do the store, the list of volatile keys, the set of databases and the memory account stay consistent, and do live keys leave only by commands that name them? | 2 clients, 1 command each of 29, 2 databases, 2 keys, 1 value, what the restore code may find, deadlines and clock up to 2, limit 5 |
| `state`, data | Are values well-formed, do aggregates by halves equal the flat ones, do commands change only what they declare and nothing when they fail, and are no elements lost? | one data type per behaviour, any sequence of its commands; 2 members with scores 0, 1 and infinity and 2 keys; 2 elements and 3 keys; 2 fields; lists of up to 3; strings of up to 3 |
| `state`, access | Are connections attached to users that are in force, with compiled patterns; does the file hold the users after the last SAVE, and does a restart give them back? | 2 connections, 2 users, four sequences of rules that touch every list, 4 commands, restarts, overlapping SAVEs, a file written by hand |
| `state`, snapshot | Does the manifest name a complete snapshot whenever none is under way, and does a restart give back what the last one saw? | the ticker and a SAVE, 1 key, strings and sets, 2 writes, 3 milliseconds, 2 faults (crashes or failing file operations), threshold 1; a behaviour is followed up to the state in which `exposed` is raised |
| `log`, gate | Is the mutation flag left up only by a failed write, does every copy and every command end? | 2 clients, 2 commands each that may fail, 2 copiers, 2 copies |
| `log`, file | Do answered commands survive crashes, is none applied twice and none out of order (all but for the exposed ones), and is everything on disk some time later with `everysec`? | 2 writers, databases 0 and 10, 2 writes, 2 rewrites, 2 faults (crashes or failing file operations), strategies `always` and `everysec` |
| `goroutines`, pub/sub | Does each subscriber get each message that it should, once, and no other; does no call wait for ever? | 2 clients, one of which may stall and leave, a channel and a pattern that matches it, queues of 1, 2 messages, 2 other commands |
| `goroutines`, eviction | Are the heaps in order and in step with the store, does LFU evict the key used least, is a key without a deadline spared, is there room when an update returns, does it return? | the policies but allkeys-lru (sampling with volatile-random), 2 databases with 2 and 1 keys, limit 3, 4 commands, clock 2 |
| `cluster` | Do the replicas have the values of the log, is a forwarded command committed at most once, is every entry applied, does gossip get through, do nodes join that announce themselves at once? | 3 nodes, 1 member and 2 that join, SETEX with a time to live below a tick and INCR, 2 commands, 1 fault of any kind, clock 2 |

Some properties are conjunctions that belong to one question: `GateOpens` is
`CopiesEnd` and `CommandsEnd`; `SnapshotsConsistent`, `CachesConsistent`,
`ChannelsConsistent`, `ReplicasConsistent`, `UsersConsistent` and
`ValuesConsistent` are the type invariant of the module with the relations
between its structures; `EffectsDeclared`, `ElementsKept` and
`CallsEnd` name their parts where they are defined.

Why the bounds are enough. The relations between the structures of the keyspace
are per database and key, so two of each show every interference; a command of each of two
clients makes an overwrite after an expiry change, and one tick makes a deadline pass.
A race between handlers needs two of them. The gate's races need two clients and
two copiers: a read lowers the flag of a write, one copier that of the other. The AOF needs
a rewrite after a rewrite and a crash after a crash, because a restore leaves
files that the next restore reads; its databases are 0, into which the restore puts
everything, and one whose index has two digits.
A snapshot's hazards need two snapshots, of
one goroutine or of two, with a write between them and a crash in the second.
The `state` run has a state constraint, `mcGuaranteed`: `exposed` is never lowered,
every property of snapshots but the types says nothing once it is raised, and
the types are proved for all states (`SnapshotProofs`).
A heap of three entries (the limit) has a parent and two children, and a
fourth command makes it overflow; the second database is there for the goroutine
that fails or is late. Recursion by halves meets its last case with three sets.
LREM and LMOVE go wrong within three items. A queue of one is full after one
message, and the second one blocks. Two clients are needed for a SUBSCRIBE beside a
SUBSCRIBE or PUBLISH, a pattern and a channel for a name of both kinds. Three nodes
are a leader and two that announce themselves at once, by way of each other, and
then forward; one fault is what separates the properties that hold with faults from those
that do not, and a restart brings another port. A time to live below a tick makes two
nodes give one entry two deadlines within two ticks.
The deadlock check is off because the bounds on commands, writes, copies and the
clock let every behaviour end.

Violation runs, each of which shows that the code does something else than its
documentation or a comment says; the quotes are in `PROJECT.json`.

| Run | What happens |
|---|---|
| `rejected_when_empty` | after GETDEL of an expired key `memUsed` is below zero, its conversion to `uint64` is above every limit, and an empty server rejects all writes |
| `del_count` | two clients send DEL of one key, both find it before either deletes it, and both get the answer 1: the number of keys deleted is 1, and no order of the two explains the answers (`Linearizable`) |
| `lost_set` | a key expires unread; a SET without an expiry answers OK and keeps the deadline that has passed, so that its value is never seen (`SetIsVisible`) |
| `two_copiers` | a snapshot and a rewrite both find the flags down; the first to end lowers the copy flag, and a write begins while the other copies (`WritesWaitForCopy`) |
| `restore_database` | a command for database 1 is logged behind its SELECT, and the restart applies it to database 0 (`RestoreShowsMemory`) |
| `threshold` | two writes between two ticks take the count past the threshold; the ticker tests for equality and never takes a snapshot (`ThresholdIsServed`) |
| `recency` | an LRU policy evicts the key that was used last (`LeastRecentlyUsedEvicted`) |
| `replicas` | two voters apply SETEX at different times and then, with the same entries applied, answer a read differently (`ReadsAgree`) |

### Other behaviour of the code that the models contain

The models contain these because the code does; the properties above are stated
so that they say exactly what is left.

Keyspace and generic commands. Two SET NX of one key both succeed when each looks
it up before the other writes (`generic/commands.go:42`). A DEL that found a key deletes it
even if it was deleted and written again meanwhile: `LiveKeysLeaveByCommand` allows it, since
the command names the key. EXPIRE beside DEL creates the key again, without a value
(`keyspace.go:258`). `memUsed` is not reduced by an overwrite or a flush.
`clear()` leaves empty strings in the list of volatile keys; PERSIST and the
restore code leave keys without a deadline in it. Two concurrent INCR can answer
the same number; RENAME of a key to itself deletes it; GETEX PERSIST compares an
upper-case word with a lower-case one and leaves the expiry; FLUSHDB of a
database that was never created and TYPE of an expired, unread key panic;
EXPIRE makes an expired, unread key visible again.

State copy and AOF. A copy and a write can each find the other's flag down
(`keyspace.go:340`), with a single copier too; a failed write
leaves the mutation flag up. A command that is answered during a rewrite can be
in neither file (`aof/engine.go:176`). A SELECT of a database above 9 is logged
with the length 1 (`aof/log/store.go:151`), and the restore ends at it: no command for
such a database comes back from the log. Two commands that overlap can be logged in the
other order than they ran; `AnswersInOrder` says that two that do not overlap come
back in their order, of whatever databases they were.

Snapshots. The manifest is written before the state. An empty manifest, which a
crash leaves, ends all later snapshots and restores. The ticker tests no flag, so it and SAVE overlap, and the first to end
lowers the flag. In-place changes, deletions and expiry changes are not
counted. JSON loses the members of sets and sorted sets.

Eviction. The sampler deletes whatever it draws, expired or not
(`keyspace.go:648`). With fewer volatile keys than the sample size it retries for
ever with the list locked; with more databases than keys it panics; when it
calls itself it waits for `storeLock`, which it holds (`keyspace.go:673`). The LRU
cache enters a key again at each access, and its stale entries let `deleteKey` account for
keys that are gone. A flush leaves
nil entries in the heaps, and the next use panics (`lfu.go:66`). allkeys-random
spins on an empty database, volatile-random panics on a short list.

`docs/docs/eviction.md:36` and `39` say of volatile-lfu and volatile-lru that "only keys with
an associated expiry time will be evicted". Both evict keys that PERSIST has made
permanent: their entries in the cache stay. volatile-lru also evicts keys that never had a
deadline: a key with one is entered at every access, DEL or an eviction takes one of its
entries, and when it is written again without a deadline another one leads to its eviction.
TLC shows it with five commands; the run `goroutines` has four. `NeverVolatileStays` says what
is left of the sentence: volatile-lfu and volatile-random spare a key that has had no
deadline since it was written.

Data types. SUNION builds the union in the first stored set; SUNIONSTORE and
SINTERSTORE of one key make two keys hold one object. LSET, LREM, LMOVE, HDEL and
HINCRBY change the value before the `SetValues` that fails at the limit; LPUSH
leaves an empty list when the second of its two writes fails. LRANGE, LTRIM,
SUBSTR, LMOVE and HRANDFIELD panic on some negative or end indices and on emptied
values. LREM 0 skips adjacent equal elements; LMOVE within one key duplicates
an element. ZADD LT and GT compare a new member with 0, XX adds to a missing key,
updates are counted without CH. ZRANGE LIMIT returns one element too many,
ZLEXCOUNT skips the last pair. The key functions of ZINTER and ZUNION drop the
last key when a modifier follows, those of ZINTERSTORE and ZUNIONSTORE the
destination from the sources. SADD of a new key counts duplicates. HSET
overwrites other types. SPOP and ZPOP draw at random though they are replicated.

Pub/Sub. A client that disconnects stays subscribed. Deliveries of one channel
are unordered. A waiting SUBSCRIBE keeps all other calls out as long as the
client that holds the lock does not read its confirmation.

Cluster. The leader that reads an expired key waits for its own state machine
with `storeLock` held (`keyspace.go:173`), and so does a handler in the FSM. The
mutation flag is never lowered on the raft path (`modules.go:191`), and raft's
snapshot then spins on it. The liveness properties leave both out by name (`Stuck`), so
they catch neither. INCR of a key that has expired at some of the nodes only leaves
different values behind; `skewed` names those nodes. First, once another node leads, is
not reached again and applies nothing more; `EntriesApplied` leaves it out by name. Forwarded
commands and deletions carry no database;
two equal forwarded commands in one queue become one; a forwarded command is
answered before it is applied and can be lost, of which no property says more than that it
is not applied twice; a late DeleteKey deletes a key
that was written again. `FSM.Restore` clears nothing. A removed node announces
itself again only when it restarts.

ACL. LOAD does not compile patterns (`acl/commands.go:400`), and SETUSER only those of
the list: a connection whose user was loaded and then deleted keeps a user with
uncompiled patterns until it ends. The start of the server does not look for a name
that a file repeats. SAVE truncates the
file before it writes it (`acl/commands.go:438`); a crash between leaves it empty.
Normalising drops `*` beside other entries, which narrows a user that SETUSER
changed when the server restarts. Entries of closed connections stay.

### Fairness

* `StateCopy`: weak fairness of each handler and each `getState`; a spinning
  loop is a disabled step until the flag it loads is down. That the flag is
  down when the loop happens to load it is needed too: with finitely many
  commands a flag stays down once they are done, so weak fairness suffices.
  Whether commands and copies arrive is up to the clients: no fairness.
* `AppendOnly`: weak fairness of the sync ticker (`everysec` starts a goroutine
  with a one-second ticker), of a rewrite that has begun and of a handler that
  has begun. No fairness of new writes, of new rewrites, of crashes or of failures.
* `MCLog` and `MCGoroutines` state the fairness of both of their parts (`GateFairness`,
  `LogFairness`, `PubSubFairness`, `EvictionFairness`); the part that stands still owes no step,
  since none that fairness is about is enabled where it began.
* `Snapshot`: weak fairness of every goroutine's steps, of the ticker (a
  `time.Ticker` in a loop), and of the restart. No fairness of SAVE or writes.
* `Eviction`: weak fairness of the goroutine that waits for the others and of
  each `adjustMemoryUsage`: the Go scheduler runs every goroutine that can run.
* `PubSub`: weak fairness of the commands, of the channels' goroutines and of
  the deliveries, each as a group. Clients need not read: what waits for one
  that stalls is disabled, and the properties name it.
* `Cluster`: weak fairness of state machines and elections, of a leader's stepping down
  when it has lost the majority (raft's lease), and of the gossip
  (memberlist's timer transmits what is queued); strong fairness of a delivery to the
  leader, because memberlist draws its targets at random at every
  round. No fairness of clients or of faults.
* `Keyspace`, `GenericCommands`, `DataStore`, `AccessControl`: none, no liveness is stated.

## 4. The proofs

All theorems hold for every value of the constants that satisfies the named
assumptions: `KeyspaceAssumption` (finite sets of databases and keys, `Nil`,
`Blank` and `Absent` distinct from what they stand beside, naturals for the sizes),
`CommandAssumption` (see below), `StateCopyAssumption` (clients and copiers are disjoint, the kinds and
outcomes are those of the code), `PubSubAssumption` (requests name at least
one channel, queues hold at least one message), `AppendOnlyAssumption` (the
indices are naturals, the strategies those of the code), `SnapshotAssumption` and
`DistinctAssumption` (a finite set of keys; the marks for what is missing or
broken are no entries, states or manifests) and `ClusterAssumption` (the nodes
named are nodes, database 0 exists, the time to live is a natural number), `AccessControlAssumption`
(there is a default user, and a password), `EvictionAssumption` (see below) and `InputsAssumption` (a file, written by hand,
names no user twice, which `NewACL` does not look for, and fits `MaxObjects`; a rule names a password or an item where it takes one).
Those about the data types have `Inputs` of `DataTypes` as their hypothesis (see below): `MCState` instantiates
that module, and `DataTypesAssumption` there has TLC evaluate it for the instance.

`CommandProofs` has two parts. In the first, about the keyspace alone, `IInv` is `TypeOK`, `NoDataOutsideDatabases`,
`VolatileKeysTracked` and `TrackedKeysPresent`. None of the last three is inductive
alone: `createDatabase` empties a map, so `VolatileKeysTracked` survives it only
because a database that does not exist has no data; `setValues` keeps a
deadline it finds, so the key it writes is tracked only because it was. There is
one lemma per operation (`SetValuesInv`, `SetExpiryInv`, `DeleteInv`,
`FlushDBInv`, ...), `NextInv` combines them and `KeyspaceInvariant` is the
temporal theorem; `TypeCorrect`, `VolatileTracking`, `TrackingIsCurrent` and
`UncreatedIsEmpty` follow. `LiveKeysStay` proves the action property
`LiveKeyLeavesOnlyByDeletion` from the same invariant.

The second part is about the handlers. A handler is a sequence of keyspace calls with locals that live
across them, so what has to be shown is that no interleaving hands the keyspace
an argument that it does not take: `HandlersTyped` says of which type the locals are
at each call, and `CommandsInvariant` proves it together with `IInv` of the
keyspace. `CommandAssumption` is what the parsers let through (`WellFormed`: a
key where the command needs one, a value where it writes one, deadlines that
are numbers). `CommandsImplementKeyspace` then shows that every step of every
handler is one operation of `Keyspace` or a stutter, so `CommandsSpec => Spec`, and
the theorems of the keyspace hold for any number of clients with any commands:
`CommandsTrackVolatileKeys`, `CommandsTrackPresentKeys`,
`CommandsStayInDatabases`, `CommandsKeepLiveKeys`.

The case of each handler proves more than that (`Good`): a live key that its step
removes is one that its command names, which for DEL needs that the keys left to
delete are the command's. This is
`LiveKeysCorrect`; `DeletingNamed`, `Flushing`, `ExpiringNamed`
and their like say it once for each keyspace operation.

`LinearizableWithoutDel` is the refinement of `AtomicStore`, for the commands that it is
about. Its hypothesis `Simple` names them (SET without options, MSET, GET, MGET,
FLUSHDB, FLUSHALL; no memory limit, nothing restored). With them no key has a deadline
(`Timeless`), so that what a
reader sees (`Visible`) is what the map holds. `ReadData`, `WriteData` and their like
say what each keyspace call does to `Visible`, `Advances` that a step to the next call
stutters, `Executes` that the step that answers is `AtomicStore`'s. A GET that
finds no key takes effect where it looks, every other command at its last
call. The hypothesis is needed: DEL of one key already counts what another client deletes
(the run `del_count`), and with options SET, INCR or RENAME look and
write under different locks.

The gate, in `HandlerProofs`: `GateTypeCorrect`, and `FlagIsOwned` (`FlagHasOwner`) for any number of
clients and copiers, which needs a stronger invariant (`OwnerInv`): only writes are at the gate, so
whoever raises the flag is a write that will lower it or fail.

`PubSubProofs`. `IInv` is `PubSubTypeOK`, the discipline of the lock (`ListIsLocked`,
`CommandsUnderWay`: a PUBLISH under way has a message with a target) and `Routed`:
one channel per name, every queued message fits the channel (`QueuesAccept`),
every delivery came through a channel that still exists (`DeliveriesKnown`), and
`RightMessages`. `RightMessages` is not inductive alone, because a message is
routed when it is queued and speaks of when it is delivered; and it needs one
channel per name, or a delivery could be held against the wrong channel. From it
follow `TypeCorrect`, `ListConsistent` (`ChannelsConsistent`) and
`RightMessagesOnly`. `NeverTwice` (`NotTwice`) needs more: the place of a PUBLISH in
the list separates the channels that have its message from those that do not
(`Passed`), and no two PUBLISH carry one message (`OneMessageEach`).

`AppendOnlyProofs`. Its theorems (`TypeCorrect`, `AckedSurviveCorrect`, `NoneTwiceCorrect`) speak of what a restore makes of any files that a
crash may leave, so the invariant has to say what those files hold while they
are written. `Reads(l, i)` says without recursion that the restore comes to entry `i` of
log `l` and replays it, and `Logged(l)` is the set of those commands. The first lemmas
show that this is what the code's loop does: `SetInduction` is induction with a
set in the place of the predicate, from the library's theorem that a
well-founded set has a minimal element, and with it `ReplayRecursion` shows that
the recursive function `Replayed` exists, `ReplayedEntries` that it replays the
entries of `Reads`, each once and no other. The parts of `IInv` are the life of a command:
`PendingOnce` and `NotLogged` while its handler runs, `FilesDisjoint`,
`FilesInMemory` and `MemoryInFiles` afterwards, in the file `p` or in the part of the
log that is synced (`Held`), for every `p` that may be on the disk; `EachOnce` says that
no file repeats one; `CopyWritten` and `CopyComplete` are what a rewrite has to know
of its copy when it truncates the log. None of them is inductive alone: that a
command is in the preamble or in the log follows from memory and the copy, and
that memory has it after a restart from the files before it (`Recovered`). The work on
the proof changed the model: `exposed` used to look at the log before the
command's own SELECT, and with a database above 9, which the run did not have,
`AckedSurvive` was false of it.

`SnapshotProofs`. `SnapshotRestorable` says nothing while a snapshot is under way, so
it is not inductive: `Stage` says, for every step of `TakeSnapshot`, how far the
manifest and the state file are, now and after a crash; `OneUnderWay` that one
goroutine is past its first test unless the disk is `exposed`; `Holds(last)` what
the disk has when none is. `LocalsTyped` keeps the locals of a snapshot under
way in agreement with each other. From these follow `ManifestNamesSnapshot`
(`SnapshotsConsistent`) and `RestartGivesSnapshot` (`RestoreGivesLastSnapshot`), for
any number of goroutines, keys, writes, crashes and failures.

`EvictionProofs`. The first half is about the heap, for any number of entries. An
entry that is out of place leaves a hole: `DownHole` and `UpHole` say that the heap is in order but for
the children or the parent of one place, and that the parent of that place and its children
are in order with each other (`Bridged`). `HoleSinks` and `HoleRises` show that a
swap moves the hole down or up, `WalkDown` and `WalkUp` that the loop ends
with the hole filled: `WalkRecursion` says that the recursive function exists, and since every turn
doubles or halves the place, half as many turns as entries are enough. From this follow `Pushing`,
`Popping`, `Fixing` and `Removing`: the heap stays in order, its entries know their
places (`Placed`) and are those that they should be (`Content`, `Reduced`), and keys stay distinct.
`PurgedReduces` repeats the deletion for all keys that were sampled.

The second half is the inductive invariant. `DataInv` keeps data and caches in
step: `Known`, that every deadline is known to `volatiles`, and `Counted`, that an LFU
cache has each of its keys once, with the number of its updates. That a cache is in
step is only claimed if it was not flushed; a use of one that was ends the
process. `WorkInv` is about the goroutines: an update has the lock while one of its own
runs, two never evict from one cache, a late one has a database beside its own, and with a
single database one that is done leaves the memory below the limit. Each operation
has a lemma for each half (`UpdateKeepsData`, `EvictBeginKeepsData`, `OwnKeepsWork`,
`ReturnKeepsWork`, ...), `InvIsInductive` combines them. `CachesStayConsistent` (`CachesConsistent`) counts
keys and entries by a bijection; `LeastUsedIsEvicted` (`LeastUsedEvicted`) needs that the step
that evicts is the beginning of an eviction (`EvictionsBegin`) and that the top of a
heap in order is least (`TopIsLeast`), by well-founded induction;
`NeverVolatileIsKept` (`NeverVolatileStays`) that a cache has no key that was never volatile;
`LimitIsRestored` is `LimitRestored`. The assumption `EvictionAssumption` says that
there are finitely many keys and databases, the policies are those of the code but
noeviction, and the limit is not 0. `UpdatesEnd` is liveness and only checked.

`ClusterProofs`. `ReplicasConsistent` compares the keys and values of stores, not
their deadlines, with `Replayed`, a recursive function of the log. Rather than by induction over the log, `Agreement` carries as an
invariant that the function exists and is unique (`ReplayDefined`), which the
lemmas `ChainGrows` and `ChainShrinks` preserve for one more entry; and since a
restart goes back to the snapshot, that snapshots are of empty stores
(`SnapshotsEmpty`: the copy of any other panics). `ForwardedOnce` is about the
log alone and needs to know where numbers are before they are in it: `Numbers` says
that no number is above the count of commands, that two messages do not share
one, and that a queued one is not in the log. The theorems are `StoresFollowLog`
(`ReplicasConsistent`) and `CommandsForwardedOnce`.

`AccessControlProofs`. Three recursions are met by induction with `SetInduction`:
`PassTyped` (the tokens of a SETUSER make a user, of the same name, of a user),
`Keeping` (a deletion leaves the other users, in a list without repeated names) and
`LoadingFile` (LOAD, user by user of the file, with `Loading` as the invariant of its
loop and the identities that are left as its bound). `Normalising` says that a user
that is normalised twice is as if normalised once, which a restart relies on. `IInv`
adds to `UsersConsistent` three parts, none inductive without the others:
`IsFile(file)`, that what is in the file can be started from, for which
`ListFits` counts the users of the list; `ListTidy` and `FileTidy`, that what no SETUSER
touched is normalised, in the list and in the file; and `SavesCurrent`, that while
SAVEs run, none of which has still to write, the file holds the users. There is one lemma
per handler (`SetUserExistingStep`, `DeleteUserStep`, `LoadStep`, `SaveWriteStep`,
...). The theorems are `UsersConsistentCorrect`, `SavedIsCurrentCorrect` and
`RestartRestoresUsersCorrect`. The proof changed the model: `uncompiled` was one flag,
lowered by any SETUSER, and no invariant could be found with it. With files that are
written by hand (`Edit`, which the model lacked) TLC shows why: a connection can be attached to a
user that LOAD brought and DELUSER removed, and the next SETUSER compiles no patterns of it.

The data types, in `HandlerProofs`. `Inv` says that every key holds a value of
its family (`Good`: a sorted set maps finitely many members to numbers, `Scores`; a
set counts its members, `Members`; strings, lists and hashes keep to their elements and bounds), and that keys
that share an object agree on it and on who shares it. `ValuesConsistent` is not
inductive: that a set has the length it says survives `Remove` and `Move` only because the set is
finite, and ZINCRBY keeps a score a number only because all scores are.
`Sound` is what every step of a handler has to do: lead to `Inv` again, change
nothing without Sync (`Unsynced`), nothing when it fails, unless it is one that changes first (`Undone`), and nothing but
what its key extraction function declares (`Confined`). `Saving`, `Changing`,
`Deleting` and `Replying` show it for the calls that handlers make, with one copy for each
of the five modules, whose instances have operators of their own; `SortedSetSteps`,
`SetSteps`, `HashSteps`, `StringSteps` and `ListSteps` show it for every handler, and
`EveryStep` for the client. The algorithms are met by two lemmas on recursion:
`StepsDefined` (a loop, `IsRun`) and `HalvesDefined` (halving, `IsHalving`) say that the
recursive function exists, `StepsStay` and `HalvesStay` that what each turn or each
meeting of halves preserves holds at the end. With them `UnionTyped`,
`IntersectTyped`, `IntersectionTyped`, `AddOrUpdateTyped`, `OverlayTyped` and
`RemovalTyped` (LREM never reads beyond the array that it shifts) follow. The
hard handlers are those that change objects in place: SMOVE between two keys that may
hold one object (`SetMoves`), LMOVE within one array (`ListMoves`), and the unions, for which
`Additions` says what any order of additions to the named sets may leave, and `SavingObject` what
happens when the destination is one of them. The theorems are `ValuesStayConsistent`,
`EffectsAreDeclared` and `ErrorsAreUndone`. `Inputs` says that
the keys of the families are keys, scores and weights are numbers, +inf among them,
and that lists and strings in arguments may have two elements.
The proof changed the model in form: recursive operators became functions, and
guards of CASE that overlapped, between which TLA+ leaves the choice open, exclude each other.

Only model-checked: liveness (`GateOpens`, `EventuallyDurable`,
`UpdatesEnd`, `CallsEnd`, `SubscribersReceive`, `EntriesApplied`, `GossipSettles`,
`JoinersBecomeVoters`), which is outside the prover's reach; of `AppendOnly`, `AnswersInOrder`; of `DataTypes`, `AggregatesMatchReference` and `ElementsKept`. What a command
leaves in the store is shown to be of the right kind, not to be the right
value: that a union by halves gives each member the sum of its weighted scores needs
sums over sets to be split, for which the library has no theorem, and the parts
of `ElementsKept` compare sequences of the store before and after. Induction itself is
within reach, but each recursive definition needs its own, and neither an operator
that is declared `RECURSIVE` nor a selection from a sequence with a test is one
that the provers can expand. That is why every module that is proved about recurses with functions,
and why `Those` selects the elements that are in a set.

## 5. Not modelled, and the plan

Not modelled for good: the plugin loader (foreign code), the embedded API and
the admin listings (formatting around `handleCommand`), configuration parsing, TLS
and the TCP listener, INCRBYFLOAT (floating point), OBJECT (reads the caches and
changes nothing), shutdown, hashicorp's raft and memberlist (external; modelled
as far as they are used).

Left out of modelled components: SWAPDB, the protocol of a connection, the
decision of `AuthorizeConnection` (the users, patterns and connections that it
reads are in `AccessControl`), expiry in the AOF,
clusters of ten nodes and more (a broadcast is then sent more than once), and
eviction policies in a cluster.

What would come next, in this order:

1. `AuthorizeConnection` as a decision procedure against a reference that
   quantifies over categories, commands, keys and channels; SWAPDB in
   `GenericCommands`.
2. Proofs: `AnswersInOrder`, the flat aggregates of the data types (`AggregatesMatchReference`) and
   `ElementsKept`.
