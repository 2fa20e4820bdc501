------------------------------ MODULE Eviction ------------------------------
(***************************************************************************)
(* Eviction under a memory limit (sugardb/keyspace.go) with the caches of  *)
(* internal/eviction: setValues and getValues start a goroutine that       *)
(* enters the key in the cache of its database and then starts, for every  *)
(* database, a goroutine that evicts keys until memUsed is below the       *)
(* limit; and the sampler of volatile keys, which runs at an interval.     *)
(*                                                                         *)
(* updateKeysInCache keeps storeLock until its goroutines have ended or    *)
(* one has failed; the others then go on without the lock.  memUsed is     *)
(* read and written without synchronisation: an eviction is two steps.     *)
(* Every key takes one unit of memory.                                     *)
(***************************************************************************)
EXTENDS Integers, Sequences, FiniteSets, SequencesExt, FiniteSetsExt

CONSTANTS
    Key, DB,
    KeysOf,      \* bound: KeysOf[d] are the keys that the clients use in d
    Configs,     \* the pairs of EvictionPolicy and EvictionSample to choose from
    MaxMemory,   \* config MaxMemory, not 0
    Absent,      \* a key without a value
    Nil,         \* an entry of a cache that was flushed
    Blank,       \* "", the entries of a list of volatile keys that was flushed
    MaxOps,      \* bound: the clients' commands
    MaxTime      \* bound: the clock that the caches read

VARIABLES
    policy, sample,   \* the configuration
    up,               \* the process has not panicked
    created,          \* the databases that exist
    store,            \* store[d][k]: "plain", "volatile", "expired" or Absent
    keysWithExpiry,   \* keysWithExpiry[d]: the list of volatile keys
    entries, keys,    \* the cache of each database: its heap, its set of keys
    memUsed,
    now,
    pending,          \* pending[d][k]: goroutines that are to update the cache
    lock,             \* who holds storeLock: "free", "update" or "sampler"
    own, late,        \* own[d], late[d]: adjustMemoryUsage for database d, by
                      \* the present update, and by one that has returned
    loaded,           \* loaded[d]: memUsed as the eviction from d has read it
    sampler,          \* sampler[d]: the step of evictKeysWithExpiredTTL
    sampled,          \* sampled[d]: the keys that it has drawn
    ops,
    used, volatiles   \* not in the code: used[d][k] counts the updates of k in
                      \* the cache, volatiles[d] are the keys that have had a deadline

evictionVars == <<policy, sample, up, created, store, keysWithExpiry,
                  entries, keys, memUsed, now, pending, lock, own, late,
                  loaded, sampler, sampled, ops, used, volatiles>>

config == <<policy, sample>>
data == <<created, store, keysWithExpiry>>
cache == <<entries, keys, used, volatiles>>
workers == <<lock, own, late, loaded>>
sampling == <<sampler, sampled>>

LFU == {"allkeys-lfu", "volatile-lfu"}
LRU == {"allkeys-lru", "volatile-lru"}
Volatile == {"volatile-lfu", "volatile-lru", "volatile-random"}
Cached == LFU \cup LRU

ASSUME EvictionAssumption ==
    /\ IsFiniteSet(Key) /\ IsFiniteSet(DB)
    /\ \A d \in DB : KeysOf[d] \subseteq Key
    /\ Configs \subseteq (Cached \cup {"allkeys-random", "volatile-random"}) \X Nat
    /\ MaxMemory \in Nat \ {0}
    /\ Absent \notin {"plain", "volatile", "expired"}
    /\ Blank \notin Key

MostUsedFirst(a, b) ==
    IF policy \in LFU
    THEN a.count > b.count \/ (a.count = b.count /\ a.time > b.time)
    ELSE a.time > b.time

(* CacheLFU.Less, CacheLRU.Less *)
Less(a, b) ==
    IF policy \in LFU
    THEN a.count < b.count \/ (a.count = b.count /\ a.time > b.time)
    ELSE a.time > b.time

H == INSTANCE Heap

EvictionInit ==
    /\ \E c \in Configs : policy = c[1] /\ sample = c[2]
    /\ up = TRUE /\ created = {}
    /\ store = [d \in DB |-> [k \in Key |-> Absent]]
    /\ keysWithExpiry = [d \in DB |-> <<>>]
    /\ entries = [d \in DB |-> <<>>] /\ keys = [d \in DB |-> {}]
    /\ memUsed = 0 /\ now = 1
    /\ pending = [d \in DB |-> [k \in Key |-> 0]]
    /\ lock = "free"
    /\ own = [d \in DB |-> "done"] /\ late = [d \in DB |-> "done"]
    /\ loaded = [d \in DB |-> 0]
    /\ sampler = [d \in DB |-> "idle"] /\ sampled = [d \in DB |-> {}]
    /\ ops = 0
    /\ used = [d \in DB |-> [k \in Key |-> 0]]
    /\ volatiles = [d \in DB |-> {}]

(* An index out of range or a nil entry: the process ends.                 *)
Panic == up' = FALSE /\ UNCHANGED <<data, cache, memUsed, pending, workers, sampling>>

-----------------------------------------------------------------------------
(* CacheLFU and CacheLRU.                                                  *)

Flushed(d) == \E i \in DOMAIN entries[d] : entries[d][i] = Nil
Places(h, k) == {i \in DOMAIN h : h[i].key = k}
First(h, k) == Min(Places(h, k))

NewEntry(d, k) == [key |-> k, count |-> 1, time |-> now, index |-> Len(entries[d]) + 1]

FixUnordered(d, k) ==
    LET h == IF k \in keys[d] THEN entries[d] ELSE H!Push(entries[d], NewEntry(d, k))
        i == First(h, k)
    IN IF policy \in LRU THEN [h EXCEPT ![i].time = now]
       ELSE IF k \in keys[d] THEN [h EXCEPT ![i].count = @ + 1]
       ELSE h

(* Update.  An LRU cache does not fill keys, so it pushes every time, and  *)
(* then stamps the first entry of the key.                                 *)
Updated(d, k) ==
    LET h == IF k \in keys[d] THEN entries[d] ELSE H!Push(entries[d], NewEntry(d, k))
        i == First(h, k)
    IN IF policy \in LRU THEN H!Fix([h EXCEPT ![i].time = now], i)
       ELSE IF k \in keys[d] THEN H!Fix([h EXCEPT ![i].count = @ + 1], i)
       ELSE h

(* Delete, from the heap h.                                                *)
Without(h, k) ==
    IF Places(h, k) = {} THEN h ELSE H!Remove(h, h[First(h, k)].index)

(* Delete for one key of ks after the other.                               *)
Deleted(w) == LET k == CHOOSE k \in w.left : TRUE
              IN [heap |-> Without(w.heap, k), left |-> w.left \ {k}]

Purged(h, ks) ==
    LET purge[n \in 0..Cardinality(ks)] == IF n = 0 THEN [heap |-> h, left |-> ks]
                                           ELSE Deleted(purge[n - 1])
    IN purge[Cardinality(ks)].heap

(* slices.DeleteFunc on a list of volatile keys.                           *)
Kept(list, ks) ==
    LET kept[n \in 0..Len(list)] ==
            IF n = 0 THEN <<>>
            ELSE IF list[n] \in ks THEN kept[n - 1] ELSE Append(kept[n - 1], list[n])
    IN kept[Len(list)]

-----------------------------------------------------------------------------
(* deleteKey, for the keys ks of d, on the heap h of d.  A key that is not *)
(* there is deducted too.                                                  *)
Removal(d, ks, h) ==
    /\ store' = [store EXCEPT ![d] = [k \in Key |-> IF k \in ks THEN Absent ELSE @[k]]]
    /\ keysWithExpiry' = [keysWithExpiry EXCEPT ![d] = Kept(@, ks)]
    /\ entries' = [entries EXCEPT ![d] =
                     IF policy \in Cached THEN Purged(h, ks) ELSE @]
    /\ keys' = [keys EXCEPT ![d] = @ \ ks]
    /\ used' = [used EXCEPT ![d] = [k \in Key |-> IF k \in ks THEN 0 ELSE @[k]]]
    /\ volatiles' = [volatiles EXCEPT ![d] = @ \ ks]

DeleteKey(d, k) ==
    IF policy \in Cached /\ Flushed(d) THEN Panic
    ELSE /\ Removal(d, {k}, entries[d])
         /\ memUsed' = memUsed - 1
         /\ UNCHANGED <<up, created, pending, workers, sampling>>

(* A goroutine that samples without end keeps the lock of keysWithExpiry.  *)
VolatileUnlocked == \A d \in DB : sampler[d] # "spin"

(* A client's command on database d, which holds storeLock.                *)
Client(d) ==
    /\ up /\ lock = "free" /\ ops < MaxOps
    /\ ops' = ops + 1
    /\ UNCHANGED <<config, now>>

Touch(d, k) == pending' = [pending EXCEPT ![d][k] = @ + 1]

(* setValues keeps the deadline, and adds the memory of every write.       *)
SetValues(d, k) ==
    /\ Client(d)
    /\ d \notin created => VolatileUnlocked
    /\ created' = created \cup {d}
    /\ store' = [store EXCEPT ![d][k] = IF @ = Absent THEN "plain" ELSE @]
    /\ memUsed' = memUsed + 1
    /\ Touch(d, k)
    /\ UNCHANGED <<up, keysWithExpiry, cache, workers, sampling>>

(* EXPIRE of a key that is there, and PERSIST of one with a deadline.      *)
SetExpiry(d, k, state) ==
    /\ Client(d) /\ VolatileUnlocked
    /\ store[d][k] \notin {Absent, state}
    /\ store' = [store EXCEPT ![d][k] = state]
    /\ keysWithExpiry' = [keysWithExpiry EXCEPT ![d] =
                            IF k \in Range(@) THEN @ ELSE Append(@, k)]
    /\ volatiles' = [volatiles EXCEPT ![d] = IF state = "plain" THEN @ ELSE @ \cup {k}]
    /\ UNCHANGED <<up, created, entries, keys, used, memUsed, pending, workers, sampling>>

(* GET: a key that has expired is deleted.                                 *)
GetValues(d, k) ==
    /\ Client(d)
    /\ store[d][k] # Absent
    /\ IF store[d][k] = "expired" THEN VolatileUnlocked /\ DeleteKey(d, k)
       ELSE /\ Touch(d, k)
            /\ UNCHANGED <<up, data, cache, memUsed, workers, sampling>>

Del(d, k) ==
    /\ Client(d) /\ VolatileUnlocked
    /\ store[d][k] # Absent
    /\ DeleteKey(d, k)

(* FLUSHDB: clear() of a slice leaves its length.                          *)
Flush(d) ==
    /\ Client(d) /\ VolatileUnlocked
    /\ d \in created
    /\ late[d] \notin {"evict", "store"}     \* cache.Mutex
    /\ store' = [store EXCEPT ![d] = [k \in Key |-> Absent]]
    /\ keysWithExpiry' = [keysWithExpiry EXCEPT ![d] = [i \in DOMAIN @ |-> Blank]]
    /\ entries' = [entries EXCEPT ![d] = [i \in DOMAIN @ |-> Nil]]
    /\ keys' = [keys EXCEPT ![d] = {}]
    /\ used' = [used EXCEPT ![d] = [k \in Key |-> 0]]
    /\ volatiles' = [volatiles EXCEPT ![d] = {}]
    /\ UNCHANGED <<up, created, memUsed, pending, workers, sampling>>

-----------------------------------------------------------------------------
(* updateKeysInCache: enters the key, and starts the goroutines.           *)

EligibleAll(d, k) ==
    /\ store[d][k] # Absent
    /\ policy \in Cached

Eligible(d, k) ==
    /\ store[d][k] # Absent
    /\ policy \in Cached
    /\ policy \in Volatile => store[d][k] # "plain"

UpdateKeysInCache(d, k) ==
    /\ up /\ lock = "free"
    /\ pending[d][k] > 0
    /\ policy \in Cached => late[d] \notin {"evict", "store"}    \* cache.Mutex
    /\ IF Eligible(d, k) /\ Flushed(d) THEN Panic
       ELSE /\ pending' = [pending EXCEPT ![d][k] = @ - 1]
            /\ lock' = "update"
            /\ own' = [b \in DB |-> IF b \in created THEN "check" ELSE "done"]
            /\ IF Eligible(d, k)
               THEN /\ entries' = [entries EXCEPT ![d] = Updated(d, k)]
                    /\ keys' = [keys EXCEPT ![d] =
                                  IF policy \in LFU THEN @ \cup {k} ELSE @]
                    /\ used' = [used EXCEPT ![d][k] = @ + 1]
                    /\ UNCHANGED volatiles
               ELSE UNCHANGED cache
            /\ UNCHANGED <<up, data, memUsed, late, loaded, sampling>>
    /\ UNCHANGED <<config, now, ops>>

(* The comparison is between uint64s: below zero is above every limit.     *)
Full(mem) == mem >= MaxMemory \/ mem < 0

(* adjustMemoryUsage for d, in the goroutine whose steps are in w[d].      *)
Worker(w, d, from) == up /\ w[d] = from
workerLeaves == <<config, up, created, now, pending, lock, sampling, ops>>

(* cache.Mutex, which adjustMemoryUsage holds to its end.                  *)
CacheUnlocked(d) == {own[d], late[d]} \cap {"evict", "store"} = {}

Check(w, d, next) ==
    /\ Worker(w, d, "check")
    /\ next = IF Full(memUsed) THEN "evict" ELSE "done"
    /\ next = "evict" /\ policy \in Cached => CacheUnlocked(d)
    /\ UNCHANGED <<workerLeaves, store, keysWithExpiry, cache, memUsed, loaded>>

(* What the policy may take: a key, with the heap that is left; nothing if *)
(* there is none.                                                          *)
Top(d) ==
    IF entries[d] = <<>> \/ Flushed(d) THEN {}
    ELSE {[key |-> entries[d][1].key, heap |-> H!Rest(entries[d])]}

Others(d) ==
    IF policy = "volatile-random"
    THEN {keysWithExpiry[d][i] : i \in 1..Cardinality(created) \cap DOMAIN keysWithExpiry[d]}
    ELSE {k \in Key : store[d][k] # Absent}

Victims(d) ==
    IF policy \in Cached THEN Top(d)
    ELSE {[key |-> k, heap |-> entries[d]] : k \in Others(d)}

(* The goroutine reads memUsed for the subtraction that EvictEnd writes.   *)
EvictBegin(w, d) ==
    /\ Worker(w, d, "evict") /\ VolatileUnlocked
    /\ \E v \in Victims(d) : Removal(d, {v.key}, v.heap)
    /\ loaded' = [loaded EXCEPT ![d] = memUsed]
    /\ UNCHANGED <<workerLeaves, memUsed>>

EvictOnce(w, d, next) ==
    /\ Worker(w, d, "store")
    /\ memUsed' = loaded[d] - 1
    /\ next = "done"
    /\ UNCHANGED <<workerLeaves, store, keysWithExpiry, cache, loaded>>

(* Until memUsed is below the limit.                                       *)
EvictEnd(w, d, next) ==
    /\ Worker(w, d, "store")
    /\ memUsed' = loaded[d] - 1
    /\ next = IF Full(memUsed') THEN "evict" ELSE "done"
    /\ UNCHANGED <<workerLeaves, store, keysWithExpiry, cache, loaded>>

(* An empty cache is an error.  allkeys-random looks for a key for ever    *)
(* when there is none; volatile-random reads past the end of its list.     *)
EvictFails(w, d) ==
    /\ Worker(w, d, "evict")
    /\ policy \in Cached /\ entries[d] = <<>>
    /\ UNCHANGED <<workerLeaves, store, keysWithExpiry, cache, memUsed, loaded>>

EvictPanics(w, d) ==
    /\ Worker(w, d, "evict")
    /\ \/ policy \in Cached /\ Flushed(d)
       \/ policy = "volatile-random" /\ Cardinality(created) > Len(keysWithExpiry[d])
    /\ Panic
    /\ UNCHANGED <<config, now, ops>>

OwnAdjust(d) ==
    \/ /\ \/ \E next \in {"evict", "done"} :
                /\ Check(own, d, next) \/ EvictEnd(own, d, next)
                /\ own' = [own EXCEPT ![d] = next]
          \/ /\ EvictBegin(own, d)
             /\ own' = [own EXCEPT ![d] = "store"]
          \/ /\ EvictFails(own, d)
             /\ own' = [own EXCEPT ![d] = "failed"]
       /\ UNCHANGED late
    \/ EvictPanics(own, d)

(* Nobody receives the error of a late goroutine.                          *)
LateAdjust(d) ==
    \/ /\ \/ \E next \in {"evict", "done"} :
                /\ Check(late, d, next) \/ EvictEnd(late, d, next)
                /\ late' = [late EXCEPT ![d] = next]
          \/ /\ EvictBegin(late, d)
             /\ late' = [late EXCEPT ![d] = "store"]
          \/ /\ EvictFails(late, d)
             /\ late' = [late EXCEPT ![d] = "done"]
       /\ UNCHANGED own
    \/ EvictPanics(late, d)

ReturnAtTheEnd ==
    /\ up /\ lock = "update"
    /\ \A d \in DB : own[d] = "done"
    /\ lock' = "free"
    /\ UNCHANGED <<config, up, data, cache, memUsed, now, pending, own, late,
                   loaded, sampling, ops>>

(* The update returns once all have ended, or with the first error; the    *)
(* others go on.  At most one such goroutine is late on a database.        *)
Return ==
    /\ up /\ lock = "update"
    /\ \/ /\ \A d \in DB : own[d] = "done"
          /\ UNCHANGED late
       \/ /\ \E d \in DB : own[d] = "failed"
          /\ \A d \in DB : own[d] \in {"check", "evict", "store"} => late[d] = "done"
          /\ late' = [d \in DB |-> IF own[d] \in {"check", "evict", "store"}
                                   THEN own[d] ELSE late[d]]
    /\ lock' = "free"
    /\ own' = [d \in DB |-> "done"]
    /\ UNCHANGED <<config, up, data, cache, memUsed, now, pending, loaded,
                   sampling, ops>>

-----------------------------------------------------------------------------
(* evictKeysWithExpiredTTL for d.  It draws indices below the number of    *)
(* databases, and does not ask whether the keys have expired.              *)

SampleSize(d) ==
    IF Len(keysWithExpiry[d]) < sample THEN Cardinality(created) ELSE sample

InReach(d) ==
    {keysWithExpiry[d][i] :
        i \in 1..Cardinality(created) \cap DOMAIN keysWithExpiry[d]} \ {Blank}

OutOfRange(d) == Cardinality(created) > Len(keysWithExpiry[d])

samplerLeaves == <<config, now, ops>>
SamplerGoes(d, next) == sampler' = [sampler EXCEPT ![d] = next]

(* Too few different keys in reach: the retries have no end.               *)
Sample(d) ==
    /\ up /\ sampler[d] = "idle"
    /\ sample > 0 /\ d \in created
    /\ \/ /\ \E ks \in SUBSET InReach(d) :
                /\ Cardinality(ks) = SampleSize(d)
                /\ sampled' = [sampled EXCEPT ![d] = ks]
          /\ SamplerGoes(d, "delete")
          /\ UNCHANGED up
       \/ /\ SampleSize(d) > Cardinality(InReach(d)) /\ ~OutOfRange(d)
          /\ SamplerGoes(d, "spin")
          /\ UNCHANGED <<up, sampled>>
       \/ /\ OutOfRange(d)
          /\ up' = FALSE
          /\ UNCHANGED sampling
    /\ UNCHANGED <<samplerLeaves, data, cache, memUsed, pending, workers>>

(* All that were sampled count as deleted, so it calls itself, with        *)
(* storeLock held: it panics in the sampling or waits for its own lock.    *)
DeleteSampled(d) ==
    /\ up /\ sampler[d] = "delete"
    /\ lock = "free" /\ VolatileUnlocked
    /\ IF policy \in Cached /\ Flushed(d) THEN Panic
       ELSE /\ Removal(d, sampled[d], entries[d])
            /\ memUsed' = memUsed - Cardinality(sampled[d])
            /\ lock' = "sampler"
            /\ sampled' = [sampled EXCEPT ![d] = {}]
            /\ SamplerGoes(d, "again")
            /\ UNCHANGED <<up, created, pending, own, late, loaded>>
    /\ UNCHANGED samplerLeaves

SampleAgain(d) ==
    /\ up /\ sampler[d] = "again"
    /\ IF OutOfRange(d) THEN up' = FALSE /\ UNCHANGED sampler
       ELSE SamplerGoes(d, "stuck") /\ UNCHANGED up
    /\ UNCHANGED <<samplerLeaves, data, cache, memUsed, pending, workers, sampled>>

(* A deadline passes.                                                      *)
Lapse(d, k) ==
    /\ store[d][k] = "volatile"
    /\ store' = [store EXCEPT ![d][k] = "expired"]
    /\ UNCHANGED <<config, up, created, keysWithExpiry, cache, memUsed, now,
                   pending, workers, sampling, ops>>

Time ==
    /\ now < MaxTime
    /\ now' = now + 1
    /\ UNCHANGED <<config, up, data, cache, memUsed, pending, workers, sampling, ops>>

EvictionNext ==
    \/ \E d \in DB : \E k \in KeysOf[d] :
          \/ SetValues(d, k) \/ GetValues(d, k) \/ Del(d, k)
          \/ SetExpiry(d, k, "volatile") \/ SetExpiry(d, k, "plain")
          \/ UpdateKeysInCache(d, k) \/ Lapse(d, k)
    \/ \E d \in DB :
          \/ Flush(d) \/ OwnAdjust(d) \/ LateAdjust(d)
          \/ Sample(d) \/ DeleteSampled(d) \/ SampleAgain(d)
    \/ Return \/ Time

(* Go runs every goroutine that can run.                                   *)
EvictionFairness ==
    /\ WF_evictionVars(Return)
    /\ \A d \in DB : WF_evictionVars(OwnAdjust(d)) /\ WF_evictionVars(LateAdjust(d))

EvictionSpec == EvictionInit /\ [][EvictionNext]_evictionVars /\ EvictionFairness

-----------------------------------------------------------------------------
EvictionTypeOK ==
    /\ <<policy, sample>> \in Configs /\ up \in BOOLEAN
    /\ created \subseteq DB
    /\ \A d \in DB :
          /\ \A k \in Key : store[d][k] \in {"plain", "volatile", "expired", Absent}
          /\ Range(keysWithExpiry[d]) \subseteq Key \cup {Blank}
          /\ keys[d] \subseteq Key
          /\ own[d] \in {"check", "evict", "store", "failed", "done"}
          /\ late[d] \in {"check", "evict", "store", "done"}
          /\ sampler[d] \in {"idle", "delete", "spin", "again", "stuck"}
    /\ memUsed \in Int /\ lock \in {"free", "update", "sampler"}

(* The heap of a cache that was not flushed is in order, its entries know  *)
(* their places (Delete relies on them), and with LFU every key is entered *)
(* once, is still in the store, and is in the set that contains looks at.  *)
HeapConsistent ==
    policy \in Cached => \A d \in DB : ~Flushed(d) =>
        LET h == entries[d] IN
        /\ \A i \in DOMAIN h :
              /\ h[i].index = i
              /\ i > 1 => ~Less(h[i], h[i \div 2])
        /\ policy \in LFU =>
              /\ keys[d] = {h[i].key : i \in DOMAIN h}
              /\ Cardinality(keys[d]) = Len(h)
              /\ \A k \in keys[d] : store[d][k] # Absent

(* Goroutines of adjustMemoryUsage run under the lock of their update, or  *)
(* are late because another one failed, and two never evict from one cache.*)
EvictionsApart ==
    \A d \in DB :
        /\ own[d] # "done" => lock = "update"
        /\ policy \in Cached /\ own[d] \in {"evict", "store"}
              => late[d] \notin {"evict", "store"}

(* The caches, and who works on them.                                      *)
CachesConsistent == EvictionTypeOK /\ HeapConsistent /\ EvictionsApart

Evicts(d, k) ==
    /\ store[d][k] # Absent /\ store'[d][k] = Absent
    /\ \/ own[d] = "evict" /\ own'[d] = "store"
       \/ late[d] = "evict" /\ late'[d] = "store"

(* LFU evicts a key that was updated in the cache no more often than any   *)
(* other key there.                                                        *)
LeastUsedEvicted ==
    [][\A d \in DB, k \in Key : policy \in LFU /\ Evicts(d, k) =>
          /\ used[d][k] > 0
          /\ \A j \in Key : used[d][j] > 0 => used[d][k] <= used[d][j]]_evictionVars

(* eviction.md:36 of volatile-lfu: "only keys with an associated expiry    *)
(* time will be evicted". Under it and volatile-random that is so of keys  *)
(* that have had no deadline since they were written. One that PERSIST     *)
(* made permanent may be evicted: its entries in the cache and in the list *)
(* of volatile keys stay. An LRU cache has an entry of every use; one that *)
(* is left when its key is evicted or deleted evicts a later key of that   *)
(* name, volatile or not.                                                  *)
NeverVolatileStays ==
    [][\A d \in DB, k \in Key :
          policy \in Volatile \ LRU /\ Evicts(d, k) => k \in volatiles[d]]_evictionVars

LastUse(d, k) == Max({entries[d][i].time : i \in Places(entries[d], k)})

(* eviction.md:30 of allkeys-lru: "The least recently accessed keys will   *)
(* be deleted one by one until we are below the memory limit."  Less puts  *)
(* the entry with the latest time at the top of the heap.                  *)
LeastRecentlyUsedEvicted ==
    [][\A d \in DB, k, j \in Key :
          /\ policy \in LRU /\ Evicts(d, k)
          /\ Places(entries[d], k) # {} /\ Places(entries[d], j) # {}
          => LastUse(d, k) <= LastUse(d, j)]_evictionVars

(* With one database, and so without a race for memUsed, an update that    *)
(* returns without an error leaves the memory below the limit.             *)
LimitRestored ==
    [][lock = "update" /\ lock' = "free" /\ Cardinality(created) = 1
          /\ (\A d \in DB : own[d] # "failed") => ~Full(memUsed)]_evictionVars

(* With the caches, an update gives storeLock back, whatever is evicted    *)
(* meanwhile (the sampler without end aside).                              *)
UpdatesEnd ==
    []<>(policy \in Cached /\ lock = "update" => ~up \/ ~VolatileUnlocked)
=============================================================================
