------------------------------ MODULE Keyspace ------------------------------
(***************************************************************************)
(* The in-memory keyspace of a standalone SugarDB server: the operations   *)
(* of sugardb/keyspace.go that the command handlers, the restore code and  *)
(* the API call.  Each of them runs under storeLock, so each is one        *)
(* action; what a handler does between two of them is the business of      *)
(* module GenericCommands.                                                 *)
(*                                                                         *)
(* The server runs with the default eviction policy "noeviction": no TTL   *)
(* sampler is started and updateKeysInCache changes neither the caches nor *)
(* the store, so the asynchronous cache updates are stuttering steps.      *)
(*                                                                         *)
(* Abstractions.  A time is a natural number and 0 is the zero time.Time,  *)
(* "no expiry".  The slice of volatile keys of a database is the set of    *)
(* the keys in it (setExpiry appends a key only if slices.Contains does    *)
(* not find it); Blank stands for the empty strings that a flush leaves.   *)
(* memUsed is kept as the sum of what every key has been charged, see      *)
(* MemUsed.                                                                *)
(***************************************************************************)
EXTENDS Integers, FiniteSets, FiniteSetsExt

CONSTANTS
    Database,    \* the indices of the logical databases a client may select
    Key,         \* the keys
    Value,       \* the values other than nil
    Nil,         \* Go's nil, the Value of a zero KeyData
    Blank,       \* the empty string in a list of volatile keys
    Absent,      \* a key that is not in a database's map
    KeyMem,      \* bytes of a key and of its KeyData without the value
    ValueMem,    \* ValueMem[v] is the number of bytes of value v
    MaxMemory,   \* the max-memory setting; 0 means that there is no limit
    Word,        \* 2^64: the uint64 conversion of memUsed is modulo Word
    MaxClock,    \* bound: the last instant of the clock
    MaxChanges,  \* bound: the number of keys written by setValues
    MaxDebt      \* bound: how far below zero one key may be charged

KeyData == [value : Value \cup {Nil}, expireAt : Nat]

(* A deadline of MaxClock is never passed.                                 *)
Deadline == 0..MaxClock

ASSUME KeyspaceAssumption ==
    /\ IsFiniteSet(Key)
    /\ IsFiniteSet(Database)
    /\ Nil \notin Value
    /\ Blank \notin Key
    /\ Absent \notin KeyData
    /\ KeyMem \in Nat \ {0}
    /\ ValueMem \in [Value -> Nat]
    /\ MaxMemory \in Nat
    /\ Word \in Nat /\ MaxMemory < Word
    /\ MaxClock \in Nat /\ MaxChanges \in Nat /\ MaxDebt \in Nat

VARIABLES
    created,         \* the databases that exist: store[database] # nil
    store,           \* store[database][key]: the KeyData or Absent
    keysWithExpiry,  \* keysWithExpiry[database]: the tracked volatile keys
    charged,         \* charged[database][key]: its contribution to memUsed
    changeCount,     \* the snapshot engine's count of changed keys
    now,             \* the server's clock
    status           \* "starting", "up" or "crashed" (a Go panic)

vars == <<created, store, keysWithExpiry, charged, changeCount, now, status>>

-----------------------------------------------------------------------------
(* Reading the store.                                                      *)

(* Whether a key is in a database's map, expired or not.                   *)
Present(db, k) == store[db][k] # Absent

getExpiry(db, k) == IF Present(db, k) THEN store[db][k].expireAt ELSE 0

HasExpiry(e) == e.expireAt # 0

(* An entry whose deadline has passed is expired; one without never is.    *)
HasPassed(e) == HasExpiry(e) /\ e.expireAt < now

Expired(db, k) == Present(db, k) /\ HasPassed(store[db][k])

(* What getValues answers for a key.                                       *)
Lookup(db, k) ==
    IF Present(db, k) /\ ~Expired(db, k) THEN store[db][k].value ELSE Nil

(* KeyData.GetMem plus the key itself.  The zero KeyData of an absent key  *)
(* has no value, but it is charged like any other.                         *)
Mem(e) ==
    KeyMem + IF e = Absent THEN 0
             ELSE IF e.value = Nil THEN 0 ELSE ValueMem[e.value]

(* server.memUsed *)
MemUsed ==
    MapThenSumSet(LAMBDA p : charged[p[1]][p[2]], Database \X Key)

(* uint64(memUsed) >= maxMemory: a negative memUsed is a huge one.         *)
IsMaxMemoryExceeded == MaxMemory # 0 /\ MemUsed % Word >= MaxMemory

-----------------------------------------------------------------------------
Init ==
    /\ created = {}
    /\ store = [db \in Database |-> [k \in Key |-> Absent]]
    /\ keysWithExpiry = [db \in Database |-> {}]
    /\ charged = [db \in Database |-> [k \in Key |-> 0]]
    /\ changeCount = 0
    /\ now = 1
    /\ status = "starting"

(* createDatabase: an empty map and an empty list of volatile keys.        *)
Fresh(db) == [k \in Key |-> Absent]

OverwriteFresh(db, entries) ==
    [k \in Key |-> IF k \in DOMAIN entries
                   THEN [value |-> entries[k], expireAt |-> 0]
                   ELSE Absent]

(* The map of a database after the entries were written over it.           *)
Overwrite(db, entries) ==
    [k \in Key |-> IF k \in DOMAIN entries
                   THEN [value |-> entries[k], expireAt |-> getExpiry(db, k)]
                   ELSE store[db][k]]

(* What the entries add to memUsed; the memory of the values they replace  *)
(* is not given back.                                                      *)
ChargeFor(db, entries) ==
    [k \in Key |-> IF k \in DOMAIN entries
                   THEN charged[db][k] + KeyMem + ValueMem[entries[k]]
                   ELSE charged[db][k]]

SetValuesUnregistered(db, entries) ==
    /\ status = "up"
    /\ ~IsMaxMemoryExceeded
    /\ changeCount + Cardinality(DOMAIN entries) <= MaxChanges
    /\ store' = [store EXCEPT ![db] = Overwrite(db, entries)]
    /\ charged' = [charged EXCEPT ![db] = ChargeFor(db, entries)]
    /\ changeCount' = changeCount + Cardinality(DOMAIN entries)
    /\ UNCHANGED <<created, keysWithExpiry, now, status>>

(* setValues when the memory limit lets it write.                          *)
SetValues(db, entries) ==
    /\ status = "up"
    /\ ~IsMaxMemoryExceeded
    /\ changeCount + Cardinality(DOMAIN entries) <= MaxChanges
    /\ created' = created \cup {db}
    /\ store' = [store EXCEPT ![db] = Overwrite(db, entries)]
    /\ keysWithExpiry' = IF db \in created THEN keysWithExpiry
                         ELSE [keysWithExpiry EXCEPT ![db] = {}]
    /\ charged' = [charged EXCEPT ![db] = ChargeFor(db, entries)]
    /\ changeCount' = changeCount + Cardinality(DOMAIN entries)
    /\ UNCHANGED <<now, status>>

ExpireRelative(db, k, t) ==
    [store[db] EXCEPT
        ![k] = [value |-> IF Present(db, k) THEN store[db][k].value ELSE Nil,
                expireAt |-> t - now]]

(* The map of a database after setExpiry(key, t): the value is kept, and a *)
(* key that is not there is added without one.                             *)
Expire(db, k, t) ==
    [store[db] EXCEPT
        ![k] = [value |-> IF Present(db, k) THEN store[db][k].value ELSE Nil,
                expireAt |-> t]]

SetExpiryUntracked(db, k, t) ==
    /\ status = "up"
    /\ db \in created
    /\ store' = [store EXCEPT ![db] = Expire(db, k, t)]
    /\ UNCHANGED <<created, keysWithExpiry, charged, changeCount, now, status>>

(* setExpiry.  Its callers found the key a moment ago, so the database     *)
(* exists; the key may have been deleted meanwhile.                        *)
SetExpiry(db, k, t) ==
    /\ status = "up"
    /\ db \in created
    /\ store' = [store EXCEPT ![db] = Expire(db, k, t)]
    /\ keysWithExpiry' = [keysWithExpiry EXCEPT ![db] = @ \cup {k}]
    /\ UNCHANGED <<created, charged, changeCount, now, status>>

(* Removing the keys of ks: deleteKey for each of them.                    *)
Delete(db, ks) ==
    /\ store' = [store EXCEPT ![db] =
                    [k \in Key |-> IF k \in ks THEN Absent ELSE store[db][k]]]
    /\ keysWithExpiry' = [keysWithExpiry EXCEPT ![db] = @ \ ks]
    /\ charged' = [charged EXCEPT ![db] =
                      [k \in Key |-> IF k \in ks
                                     THEN charged[db][k] - Mem(store[db][k])
                                     ELSE charged[db][k]]]

DeleteKeepsTracking(db, k) ==
    /\ status = "up"
    /\ db \in created
    /\ Present(db, k)
    /\ store' = [store EXCEPT ![db][k] = Absent]
    /\ UNCHANGED <<created, keysWithExpiry, charged, changeCount, now, status>>

(* deleteKey under storeLock.  The key may be gone since its caller looked *)
(* it up; memUsed is reduced all the same.                                 *)
DeleteKey(db, k) ==
    /\ status = "up"
    /\ db \in created
    /\ charged[db][k] > -MaxDebt
    /\ Delete(db, {k})
    /\ UNCHANGED <<created, changeCount, now, status>>

GetValuesDeletesVolatile(db, ks) ==
    /\ status = "up"
    /\ \A k \in ks : charged[db][k] > -MaxDebt
    /\ Delete(db, {k \in ks : Present(db, k) /\ HasExpiry(store[db][k])})
    /\ UNCHANGED <<created, changeCount, now, status>>

(* getValues: an expired key is deleted by the read that finds it.         *)
GetValues(db, ks) ==
    /\ status = "up"
    /\ \A k \in ks : charged[db][k] > -MaxDebt
    /\ Delete(db, {k \in ks : Expired(db, k)})
    /\ UNCHANGED <<created, changeCount, now, status>>

(* clear() on the slice of volatile keys makes every key of it the empty   *)
(* string; the slice keeps its length.                                     *)
Blanked(db) == IF keysWithExpiry[db] = {} THEN {} ELSE {Blank}

(* Flush(database) clears the map and the list of volatile keys, not       *)
(* memUsed.  A database that was never created has no cache object: the    *)
(* nil pointer is dereferenced.                                            *)
FlushDB(db) ==
    /\ status = "up"
    /\ IF db \in created
       THEN /\ store' = [store EXCEPT ![db] = Fresh(db)]
            /\ keysWithExpiry' = [keysWithExpiry EXCEPT ![db] = Blanked(db)]
            /\ UNCHANGED status
       ELSE /\ status' = "crashed"
            /\ UNCHANGED <<store, keysWithExpiry>>
    /\ UNCHANGED <<created, charged, changeCount, now>>

(* Flush(-1): every database that exists.                                  *)
FlushAll ==
    /\ status = "up"
    /\ store' = [db \in Database |-> Fresh(db)]
    /\ keysWithExpiry' = [db \in Database |-> Blanked(db)]
    /\ UNCHANGED <<created, charged, changeCount, now, status>>

(* SELECT and SWAPDB create the databases they name.                       *)
CreateDatabase(db) ==
    /\ status = "up"
    /\ db \notin created
    /\ created' = created \cup {db}
    /\ store' = [store EXCEPT ![db] = Fresh(db)]
    /\ keysWithExpiry' = [keysWithExpiry EXCEPT ![db] = {}]
    /\ UNCHANGED <<charged, changeCount, now, status>>

(* The restore code's setKeyData, before clients are served: setValues,    *)
(* whose error is only logged, then setExpiry, which fails on the nil map  *)
(* of a database that the refused setValues did not create.                *)
SetKeyData(db, k, e) ==
    /\ status = "starting"
    /\ ~HasPassed(e)
    /\ changeCount < MaxChanges
    /\ IF IsMaxMemoryExceeded
       THEN /\ UNCHANGED <<created, charged, changeCount>>
            /\ IF db \in created
               THEN /\ store' = [store EXCEPT ![db] = Expire(db, k, e.expireAt)]
                    /\ keysWithExpiry' = [keysWithExpiry EXCEPT ![db] = @ \cup {k}]
                    /\ UNCHANGED status
               ELSE /\ status' = "crashed"
                    /\ UNCHANGED <<store, keysWithExpiry>>
       ELSE /\ created' = created \cup {db}
            /\ store' = [store EXCEPT ![db][k] = e]
            /\ keysWithExpiry' = [keysWithExpiry EXCEPT ![db] = @ \cup {k}]
            /\ charged' = [charged EXCEPT ![db][k] = @ + Mem(e)]
            /\ changeCount' = changeCount + 1
            /\ UNCHANGED status
    /\ UNCHANGED now

(* NewSugarDB returns: the server accepts commands.                        *)
Start ==
    /\ status = "starting"
    /\ status' = "up"
    /\ UNCHANGED <<created, store, keysWithExpiry, charged, changeCount, now>>

(* A handler panics; no goroutine of the server recovers.                  *)
Panic ==
    /\ status = "up"
    /\ status' = "crashed"
    /\ UNCHANGED <<created, store, keysWithExpiry, charged, changeCount, now>>

(* Time passes.                                                            *)
Tick ==
    /\ now < MaxClock
    /\ now' = now + 1
    /\ UNCHANGED <<created, store, keysWithExpiry, charged, changeCount, status>>

(* The non-empty sets of entries that setValues can be called with.        *)
Entries == UNION {[ks -> Value] : ks \in (SUBSET Key) \ {{}}}

Next ==
    \/ \E db \in Database, entries \in Entries : SetValues(db, entries)
    \/ \E db \in Database, k \in Key, t \in Deadline : SetExpiry(db, k, t)
    \/ \E db \in Database, k \in Key : DeleteKey(db, k)
    \/ \E db \in Database, ks \in SUBSET Key : GetValues(db, ks)
    \/ \E db \in Database : FlushDB(db) \/ CreateDatabase(db)
    \/ FlushAll
    \/ \E db \in Database, k \in Key, v \in Value \cup {Nil}, t \in Deadline :
          SetKeyData(db, k, [value |-> v, expireAt |-> t])
    \/ Start
    \/ Panic
    \/ Tick

Spec == Init /\ [][Next]_vars

-----------------------------------------------------------------------------
TypeOK ==
    /\ created \subseteq Database
    /\ store \in [Database -> [Key -> KeyData \cup {Absent}]]
    /\ keysWithExpiry \in [Database -> SUBSET (Key \cup {Blank})]
    /\ charged \in [Database -> [Key -> Int]]
    /\ changeCount \in Nat
    /\ now \in Nat
    /\ status \in {"starting", "up", "crashed"}

(* Every key with an expiry is in its database's list of volatile keys:    *)
(* the list is what the TTL sampler and volatile-random eviction look at,  *)
(* a volatile key outside it would never be considered.                    *)
VolatileKeysTracked ==
    \A db \in Database, k \in Key :
        Present(db, k) /\ HasExpiry(store[db][k]) => k \in keysWithExpiry[db]

(* The list of volatile keys names no key that is gone: every way a key    *)
(* leaves the store (DEL, lazy expiry, flush) takes its name off the list. *)
TrackedKeysPresent ==
    \A db \in Database : \A k \in keysWithExpiry[db] \cap Key : Present(db, k)

(* A database that was never created holds nothing: no operation leaves    *)
(* data in a database that SELECT or a flush of all databases cannot see.  *)
NoDataOutsideDatabases ==
    \A db \in Database \ created :
        keysWithExpiry[db] = {} /\ \A k \in Key : ~Present(db, k)

LiveKeyStep ==
    \A db \in Database, k \in Key :
        Present(db, k) /\ ~Expired(db, k) /\ store'[db][k] = Absent
           => DeleteKey(db, k) \/ FlushDB(db) \/ FlushAll

(* Reads, overwrites, expiry changes, database creation and the restore    *)
(* code lose no live key: a key that has not expired leaves the store only *)
(* by a deletion of that key or by a flush.                                *)
LiveKeyLeavesOnlyByDeletion == [][LiveKeyStep]_vars
=============================================================================
