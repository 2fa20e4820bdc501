--------------------------- MODULE CommandProofs ---------------------------
(***************************************************************************)
(* What TLC checks of Keyspace and of the generic commands on two keys,    *)
(* two databases and two clients holds for every set of them, and for      *)
(* every bound.                                                            *)
(*                                                                         *)
(* The first part is about the keyspace alone.  VolatileKeysTracked is not *)
(* inductive by itself: creating a database empties its list of volatile   *)
(* keys, which is harmless only because a database that does not exist     *)
(* holds no key.  TrackedKeysPresent needs the types of the store.  The    *)
(* inductive invariant, IInv, is their conjunction.                        *)
(*                                                                         *)
(* The handlers of the generic commands, run by any number of clients,     *)
(* implement the keyspace: each of their steps is one operation of         *)
(* keyspace.go, with arguments that the keyspace can be called with, or    *)
(* changes nothing there.  So what is proved of Keyspace, under any        *)
(* sequence of operations, holds of the commands however they interleave.  *)
(*                                                                         *)
(* That the arguments are right is an invariant of the handlers: what one  *)
(* keeps from one call for the next is a value, a deadline or a set of     *)
(* keys, and it runs a command of its client.                              *)
(*                                                                         *)
(* The same cases show, of every handler, that live keys leave by commands *)
(* that name them and that expired keys come back only with a new          *)
(* deadline.  The last part is the refinement of AtomicStore, for the      *)
(* commands whose handlers change the data in a single call.               *)
(***************************************************************************)
EXTENDS CommandProperties, FiniteSetTheorems, TLAPS

-----------------------------------------------------------------------------
(* The keyspace, under any sequence of its operations.                     *)

IInv ==
    /\ TypeOK
    /\ NoDataOutsideDatabases
    /\ VolatileKeysTracked
    /\ TrackedKeysPresent

(* An entry of the store is a KeyData whenever it is not Absent.           *)
LEMMA EntryType ==
    ASSUME TypeOK, NEW db \in Database, NEW k \in Key
    PROVE  /\ store[db][k] # Absent => store[db][k] \in KeyData
           /\ getExpiry(db, k) \in Nat
  BY DEF TypeOK, getExpiry, Present, KeyData

(* What a key is charged is an integer, also for an absent key.            *)
LEMMA MemType ==
    ASSUME TypeOK, NEW db \in Database, NEW k \in Key
    PROVE  Mem(store[db][k]) \in Int
  <1>1. CASE store[db][k] = Absent
    BY <1>1, KeyspaceAssumption DEF Mem
  <1>2. CASE store[db][k] # Absent
    <2>1. store[db][k].value \in Value \cup {Nil}
      BY <1>2, EntryType DEF KeyData
    <2>2. QED
      BY <1>2, <2>1, KeyspaceAssumption DEF Mem
  <1>3. QED
    BY <1>1, <1>2

(* The initial state satisfies the inductive invariant.                    *)
LEMMA InitInv == Init => IInv
  BY DEF Init, IInv, TypeOK, NoDataOutsideDatabases, VolatileKeysTracked,
         TrackedKeysPresent, Present

(* setValues keeps the deadline of a key that it overwrites.               *)
LEMMA SetValuesInv ==
    ASSUME IInv, NEW db \in Database, NEW entries \in Entries,
           SetValues(db, entries)
    PROVE  IInv'
  <1> USE DEF IInv
  <1>1. PICK ks \in SUBSET Key : entries \in [ks -> Value]
    BY DEF Entries
  <1>2. Cardinality(DOMAIN entries) \in Nat
    BY <1>1, KeyspaceAssumption, FS_Subset, FS_CardinalityType
  <1>3. Overwrite(db, entries) \in [Key -> KeyData \cup {Absent}]
    BY <1>1, EntryType DEF Overwrite, KeyData, TypeOK
  <1>4. ChargeFor(db, entries) \in [Key -> Int]
    BY <1>1, KeyspaceAssumption DEF ChargeFor, TypeOK
  <1>5. TypeOK'
    BY <1>2, <1>3, <1>4 DEF SetValues, TypeOK
  <1>6. NoDataOutsideDatabases'
    BY DEF SetValues, NoDataOutsideDatabases, Present, TypeOK
  <1>7. VolatileKeysTracked'
    <2> SUFFICES ASSUME NEW d \in Database, NEW k \in Key,
                        store'[d][k] # Absent, store'[d][k].expireAt # 0
                 PROVE  k \in keysWithExpiry'[d]
      BY DEF VolatileKeysTracked, Present, HasExpiry
    <2>1. CASE d = db
      <3>1. store'[d][k] = Overwrite(db, entries)[k]
        BY <2>1 DEF SetValues, TypeOK
      <3>2. Present(d, k) /\ HasExpiry(store[d][k])
        BY <2>1, <3>1 DEF Overwrite, getExpiry, Present, HasExpiry
      <3>3. db \in created
        BY <2>1, <3>2 DEF NoDataOutsideDatabases
      <3>4. QED
        BY <3>2, <3>3 DEF SetValues, VolatileKeysTracked
    <2>2. CASE d # db
      BY <2>2 DEF SetValues, VolatileKeysTracked, Present, HasExpiry, TypeOK
    <2>3. QED
      BY <2>1, <2>2
  <1>8. TrackedKeysPresent'
    <2> SUFFICES ASSUME NEW d \in Database,
                        NEW k \in keysWithExpiry'[d] \cap Key
                 PROVE  store'[d][k] # Absent
      BY DEF TrackedKeysPresent, Present
    <2>1. k \in keysWithExpiry[d] \cap Key
      BY DEF SetValues, TypeOK
    <2>2. store[d][k] # Absent
      BY <2>1 DEF TrackedKeysPresent, Present
    <2>3. CASE d = db
      <3>1. store'[d][k] = Overwrite(db, entries)[k]
        BY <2>1, <2>3 DEF SetValues, TypeOK
      <3>2. Overwrite(db, entries)[k] \in KeyData
        BY <1>1, <2>1, <2>2, <2>3, EntryType DEF Overwrite, KeyData
      <3>3. QED
        BY <3>1, <3>2, KeyspaceAssumption
    <2>4. CASE d # db
      BY <2>2, <2>4 DEF SetValues, TypeOK
    <2>5. QED
      BY <2>3, <2>4
  <1>9. QED
    BY <1>5, <1>6, <1>7, <1>8

(* Putting a key into the map of an existing database and into its list of *)
(* volatile keys, as setExpiry and the restore code do.                    *)
LEMMA TrackedWriteInv ==
    ASSUME IInv, NEW db \in created', NEW k \in Key, NEW e \in KeyData,
           db \in Database,
           created' = created \cup {db},
           store' = [store EXCEPT ![db] = [store[db] EXCEPT ![k] = e]],
           keysWithExpiry' = [keysWithExpiry EXCEPT ![db] = @ \cup {k}],
           charged' \in [Database -> [Key -> Int]],
           changeCount' \in Nat, now' \in Nat,
           status' \in {"starting", "up", "crashed"}
    PROVE  IInv'
  <1> USE DEF IInv
  <1>1. TypeOK'
    BY DEF TypeOK
  <1>2. NoDataOutsideDatabases'
    BY DEF NoDataOutsideDatabases, Present, TypeOK
  <1>3. VolatileKeysTracked'
    BY DEF VolatileKeysTracked, Present, HasExpiry, TypeOK
  <1>4. TrackedKeysPresent'
    BY KeyspaceAssumption DEF TrackedKeysPresent, Present, TypeOK
  <1>5. QED
    BY <1>1, <1>2, <1>3, <1>4

(* What setExpiry writes is a KeyData.                                     *)
LEMMA ExpireWrites ==
    ASSUME TypeOK, NEW db \in Database, NEW k \in Key, NEW t \in Nat
    PROVE  \E e \in KeyData : Expire(db, k, t) = [store[db] EXCEPT ![k] = e]
  <1> DEFINE v == IF Present(db, k) THEN store[db][k].value ELSE Nil
             e == [value |-> v, expireAt |-> t]
  <1>1. v \in Value \cup {Nil}
    BY EntryType DEF Present, KeyData
  <1>2. e \in KeyData
    BY <1>1 DEF KeyData
  <1>3. Expire(db, k, t) = [store[db] EXCEPT ![k] = e]
    BY DEF Expire
  <1>4. QED
    BY <1>2, <1>3

(* setExpiry adds the key to the list of volatile keys.                    *)
LEMMA SetExpiryInv ==
    ASSUME IInv, NEW db \in Database, NEW k \in Key, NEW t \in Deadline,
           SetExpiry(db, k, t)
    PROVE  IInv'
  <1>1. t \in Nat
    BY KeyspaceAssumption DEF Deadline
  <1>2. PICK e \in KeyData : Expire(db, k, t) = [store[db] EXCEPT ![k] = e]
    BY <1>1, ExpireWrites DEF IInv
  <1> store' = [store EXCEPT ![db] = [store[db] EXCEPT ![k] = e]]
    BY <1>2 DEF SetExpiry
  <1>3. /\ created' = created \cup {db}
        /\ db \in created'
        /\ keysWithExpiry' = [keysWithExpiry EXCEPT ![db] = @ \cup {k}]
    BY DEF SetExpiry
  <1>4. /\ charged' \in [Database -> [Key -> Int]]
        /\ changeCount' \in Nat /\ now' \in Nat
        /\ status' \in {"starting", "up", "crashed"}
    BY DEF SetExpiry, IInv, TypeOK
  <1>5. QED
    BY <1>2, <1>3, <1>4, TrackedWriteInv

(* deleteKey takes its keys off the list of volatile keys as well.         *)
LEMMA DeleteInv ==
    ASSUME IInv, NEW db \in Database, NEW ks \in SUBSET Key, Delete(db, ks),
           UNCHANGED <<created, changeCount, now, status>>
    PROVE  IInv'
  <1> USE DEF IInv
  <1>1. charged' \in [Database -> [Key -> Int]]
    <2>1. \A k \in Key : charged[db][k] - Mem(store[db][k]) \in Int
      BY MemType DEF TypeOK
    <2>2. QED
      BY <2>1 DEF Delete, TypeOK
  <1>2. TypeOK'
    BY <1>1 DEF Delete, TypeOK
  <1>3. NoDataOutsideDatabases'
    BY DEF Delete, NoDataOutsideDatabases, Present, TypeOK
  <1>4. VolatileKeysTracked'
    BY DEF Delete, VolatileKeysTracked, Present, HasExpiry, TypeOK
  <1>5. TrackedKeysPresent'
    BY DEF Delete, TrackedKeysPresent, Present, TypeOK
  <1>6. QED
    BY <1>2, <1>3, <1>4, <1>5

(* Emptying databases together with their lists, in which at most blanks   *)
(* are left, as the two flushes and the creation of a database do.         *)
LEMMA EmptyInv ==
    ASSUME IInv, NEW dbs \in SUBSET Database,
           NEW left \in [Database -> SUBSET {Blank}],
           \A db \in Database \ created' : left[db] = {},
           created \subseteq created', created' \subseteq Database,
           store' = [db \in Database |-> IF db \in dbs THEN Fresh(db)
                                         ELSE store[db]],
           keysWithExpiry' = [db \in Database |-> IF db \in dbs THEN left[db]
                                                  ELSE keysWithExpiry[db]],
           UNCHANGED <<charged, changeCount, now, status>>
    PROVE  IInv'
  <1> USE DEF IInv, Fresh
  <1>1. TypeOK'
    BY DEF TypeOK
  <1>2. NoDataOutsideDatabases'
    BY DEF NoDataOutsideDatabases, Present, TypeOK
  <1>3. VolatileKeysTracked'
    BY DEF VolatileKeysTracked, Present, HasExpiry, TypeOK
  <1>4. TrackedKeysPresent'
    BY KeyspaceAssumption DEF TrackedKeysPresent, Present, TypeOK
  <1>5. QED
    BY <1>1, <1>2, <1>3, <1>4

(* What a flush leaves in the lists of volatile keys.                      *)
LEMMA BlankedType ==
    ASSUME IInv
    PROVE  /\ [d \in Database |-> Blanked(d)] \in [Database -> SUBSET {Blank}]
           /\ \A d \in Database \ created : Blanked(d) = {}
  BY DEF IInv, Blanked, NoDataOutsideDatabases

(* A step that leaves the data alone.                                      *)
LEMMA UnchangedInv ==
    ASSUME IInv, now' \in Nat, status' \in {"starting", "up", "crashed"},
           UNCHANGED <<created, store, keysWithExpiry, charged, changeCount>>
    PROVE  IInv'
  BY DEF IInv, TypeOK, NoDataOutsideDatabases, VolatileKeysTracked,
         TrackedKeysPresent, Present, HasExpiry

(* FLUSHDB empties an existing database and stops the server otherwise.    *)
LEMMA FlushDBInv ==
    ASSUME IInv, NEW db \in Database, FlushDB(db)
    PROVE  IInv'
  <1>1. CASE db \in created
    <2>1. store' = [d \in Database |-> IF d \in {db} THEN Fresh(d)
                                       ELSE store[d]]
      BY <1>1 DEF FlushDB, IInv, TypeOK, Fresh
    <2> DEFINE left == [d \in Database |-> Blanked(d)]
    <2>2. keysWithExpiry' = [d \in Database |-> IF d \in {db} THEN left[d]
                                                ELSE keysWithExpiry[d]]
      BY <1>1 DEF FlushDB, IInv, TypeOK
    <2>3. /\ created \subseteq created' /\ created' \subseteq Database
          /\ UNCHANGED <<charged, changeCount, now, status>>
      BY <1>1 DEF FlushDB, IInv, TypeOK
    <2>4. /\ left \in [Database -> SUBSET {Blank}]
          /\ \A d \in Database \ created' : left[d] = {}
      BY <2>3, BlankedType
    <2> HIDE DEF left
    <2>5. QED
      BY <2>1, <2>2, <2>3, <2>4, EmptyInv
  <1>2. CASE db \notin created
    BY <1>2, UnchangedInv DEF FlushDB, IInv, TypeOK
  <1>3. QED
    BY <1>1, <1>2

(* FLUSHALL empties every database.                                        *)
LEMMA FlushAllInv ==
    ASSUME IInv, FlushAll
    PROVE  IInv'
  <1>1. store' = [d \in Database |-> IF d \in Database THEN Fresh(d)
                                     ELSE store[d]]
    BY DEF FlushAll
  <1> DEFINE left == [d \in Database |-> Blanked(d)]
  <1>2. keysWithExpiry' = [d \in Database |-> IF d \in Database THEN left[d]
                                              ELSE keysWithExpiry[d]]
    BY DEF FlushAll
  <1>3. /\ created \subseteq created' /\ created' \subseteq Database
        /\ UNCHANGED <<charged, changeCount, now, status>>
    BY DEF FlushAll, IInv, TypeOK
  <1>4. /\ left \in [Database -> SUBSET {Blank}]
        /\ \A d \in Database \ created' : left[d] = {}
    BY <1>3, BlankedType
  <1> HIDE DEF left
  <1>5. QED
    BY <1>1, <1>2, <1>3, <1>4, EmptyInv

(* A new database is empty.                                                *)
LEMMA CreateDatabaseInv ==
    ASSUME IInv, NEW db \in Database, CreateDatabase(db)
    PROVE  IInv'
  <1>1. store' = [d \in Database |-> IF d \in {db} THEN Fresh(d) ELSE store[d]]
    BY DEF CreateDatabase, IInv, TypeOK, Fresh
  <1> DEFINE left == [d \in Database |-> {}]
  <1>2. keysWithExpiry' = [d \in Database |-> IF d \in {db} THEN left[d]
                                              ELSE keysWithExpiry[d]]
    BY DEF CreateDatabase, IInv, TypeOK
  <1>3. /\ created \subseteq created' /\ created' \subseteq Database
        /\ UNCHANGED <<charged, changeCount, now, status>>
    BY DEF CreateDatabase, IInv, TypeOK
  <1>4. /\ left \in [Database -> SUBSET {Blank}]
        /\ \A d \in Database \ created' : left[d] = {}
    OBVIOUS
  <1> HIDE DEF left
  <1>5. QED
    BY <1>1, <1>2, <1>3, <1>4, EmptyInv

(* Restoring a key tracks it, whether its value was accepted or not.       *)
LEMMA SetKeyDataInv ==
    ASSUME IInv, NEW db \in Database, NEW k \in Key, NEW e \in KeyData,
           SetKeyData(db, k, e)
    PROVE  IInv'
  <1>1. CASE IsMaxMemoryExceeded /\ db \in created
    <2> e.expireAt \in Nat
      BY DEF KeyData
    <2>1. PICK f \in KeyData :
             Expire(db, k, e.expireAt) = [store[db] EXCEPT ![k] = f]
      BY ExpireWrites DEF IInv
    <2> store' = [store EXCEPT ![db] = [store[db] EXCEPT ![k] = f]]
      BY <1>1, <2>1 DEF SetKeyData
    <2>2. /\ created' = created \cup {db}
          /\ db \in created'
          /\ keysWithExpiry' = [keysWithExpiry EXCEPT ![db] = @ \cup {k}]
      BY <1>1 DEF SetKeyData
    <2>3. /\ charged' \in [Database -> [Key -> Int]]
          /\ changeCount' \in Nat /\ now' \in Nat
          /\ status' \in {"starting", "up", "crashed"}
      BY <1>1 DEF SetKeyData, IInv, TypeOK
    <2>4. QED
      BY <2>1, <2>2, <2>3, TrackedWriteInv
  <1>2. CASE IsMaxMemoryExceeded /\ db \notin created
    BY <1>2, UnchangedInv DEF SetKeyData, IInv, TypeOK
  <1>3. CASE ~IsMaxMemoryExceeded
    <2>1. Mem(e) \in Int
      <3>1. e # Absent /\ e.value \in Value \cup {Nil}
        BY KeyspaceAssumption DEF KeyData
      <3>2. QED
        BY <3>1, KeyspaceAssumption DEF Mem
    <2>2. charged' \in [Database -> [Key -> Int]]
      BY <1>3, <2>1 DEF SetKeyData, IInv, TypeOK
    <2>3. /\ created' = created \cup {db}
          /\ db \in created'
          /\ store' = [store EXCEPT ![db] = [store[db] EXCEPT ![k] = e]]
          /\ keysWithExpiry' = [keysWithExpiry EXCEPT ![db] = @ \cup {k}]
      BY <1>3 DEF SetKeyData
    <2>4. changeCount' \in Nat /\ now' \in Nat
          /\ status' \in {"starting", "up", "crashed"}
      BY <1>3 DEF SetKeyData, IInv, TypeOK
    <2>5. QED
      BY <2>2, <2>3, <2>4, TrackedWriteInv
  <1>4. QED
    BY <1>1, <1>2, <1>3

(* Every step of the keyspace preserves the inductive invariant.           *)
LEMMA NextInv ==
    IInv /\ [Next]_vars => IInv'
  <1> SUFFICES ASSUME IInv, [Next]_vars PROVE IInv'
    OBVIOUS
  <1>1. ASSUME NEW db \in Database, NEW entries \in Entries,
               SetValues(db, entries)
        PROVE  IInv'
    BY <1>1, SetValuesInv
  <1>2. ASSUME NEW db \in Database, NEW k \in Key, NEW t \in Deadline,
               SetExpiry(db, k, t)
        PROVE  IInv'
    BY <1>2, SetExpiryInv
  <1>3. ASSUME NEW db \in Database, NEW k \in Key, DeleteKey(db, k)
        PROVE  IInv'
    BY <1>3, DeleteInv DEF DeleteKey
  <1>4. ASSUME NEW db \in Database, NEW ks \in SUBSET Key, GetValues(db, ks)
        PROVE  IInv'
    <2>1. {k \in ks : Expired(db, k)} \in SUBSET Key
      OBVIOUS
    <2>2. QED
      BY <1>4, <2>1, DeleteInv DEF GetValues
  <1>5. ASSUME NEW db \in Database, FlushDB(db) \/ CreateDatabase(db)
        PROVE  IInv'
    BY <1>5, FlushDBInv, CreateDatabaseInv
  <1>6. ASSUME NEW db \in Database, NEW k \in Key, NEW v \in Value \cup {Nil},
               NEW t \in Deadline,
               SetKeyData(db, k, [value |-> v, expireAt |-> t])
        PROVE  IInv'
    <2>1. [value |-> v, expireAt |-> t] \in KeyData
      BY KeyspaceAssumption DEF KeyData, Deadline
    <2>2. QED
      BY <1>6, <2>1, SetKeyDataInv
  <1>7. CASE Start \/ Panic
    BY <1>7, UnchangedInv DEF Start, Panic, IInv, TypeOK
  <1>8. CASE Tick
    BY <1>8, UnchangedInv DEF Tick, IInv, TypeOK
  <1>9. CASE UNCHANGED vars
    BY <1>9, UnchangedInv DEF vars, IInv, TypeOK
  <1>10. QED
    BY <1>1, <1>2, <1>3, <1>4, <1>5, <1>6, <1>7, <1>8, <1>9, FlushAllInv
       DEF Next

(* The inductive invariant holds in every reachable state.                 *)
THEOREM KeyspaceInvariant == Spec => []IInv
  BY InitInv, NextInv, PTL DEF Spec

(* Type correctness of the keyspace.                                       *)
THEOREM TypeCorrect == Spec => []TypeOK
  <1>1. IInv => TypeOK
    BY DEF IInv
  <1>2. QED
    BY <1>1, KeyspaceInvariant, PTL

(* Whatever clients do, the list of volatile keys that keyspace.go keeps   *)
(* beside the store misses no key with an expiry.                          *)
THEOREM VolatileTracking == Spec => []VolatileKeysTracked
  <1>1. IInv => VolatileKeysTracked
    BY DEF IInv
  <1>2. QED
    BY <1>1, KeyspaceInvariant, PTL

(* ... and names no key that deleteKey, a lazy expiry or a flush removed.  *)
THEOREM TrackingIsCurrent == Spec => []TrackedKeysPresent
  <1>1. IInv => TrackedKeysPresent
    BY DEF IInv
  <1>2. QED
    BY <1>1, KeyspaceInvariant, PTL

(* Databases that were never created hold no data.                         *)
THEOREM UncreatedIsEmpty == Spec => []NoDataOutsideDatabases
  <1>1. IInv => NoDataOutsideDatabases
    BY DEF IInv
  <1>2. QED
    BY <1>1, KeyspaceInvariant, PTL

(* A step of the keyspace drops a live key only if it is a deletion of     *)
(* that key or a flush.                                                    *)
LEMMA NextKeepsLiveKeys ==
    IInv /\ [Next]_vars => [LiveKeyStep]_vars
  <1> SUFFICES ASSUME IInv, Next,
                      NEW d \in Database, NEW key \in Key,
                      store[d][key] # Absent, ~Expired(d, key),
                      store'[d][key] = Absent
               PROVE  DeleteKey(d, key) \/ FlushDB(d) \/ FlushAll
    BY DEF LiveKeyStep, Present
  <1> TypeOK /\ NoDataOutsideDatabases
    BY DEF IInv
  <1>1. ASSUME NEW db \in Database, NEW entries \in Entries,
               SetValues(db, entries)
        PROVE  FALSE
    <2>1. d = db
      BY <1>1 DEF SetValues, TypeOK
    <2>2. store'[d][key] = Overwrite(db, entries)[key]
      BY <1>1, <2>1 DEF SetValues, TypeOK
    <2>3. PICK ks \in SUBSET Key : entries \in [ks -> Value]
      BY DEF Entries
    <2>4. key \in DOMAIN entries => Overwrite(db, entries)[key] \in KeyData
      BY <2>3, EntryType DEF Overwrite, KeyData
    <2>5. QED
      BY <2>1, <2>2, <2>4, KeyspaceAssumption DEF Overwrite
  <1>2. ASSUME NEW db \in Database, NEW k \in Key, NEW t \in Deadline,
               SetExpiry(db, k, t)
        PROVE  FALSE
    <2>1. PICK e \in KeyData : Expire(db, k, t) = [store[db] EXCEPT ![k] = e]
      BY ExpireWrites, KeyspaceAssumption DEF Deadline
    <2>2. store' = [store EXCEPT ![db] = [store[db] EXCEPT ![k] = e]]
      BY <1>2, <2>1 DEF SetExpiry
    <2>3. QED
      BY <2>2, KeyspaceAssumption DEF TypeOK
  <1>3. ASSUME NEW db \in Database, NEW k \in Key, DeleteKey(db, k)
        PROVE  DeleteKey(d, key)
    <2>1. d = db /\ key = k
      BY <1>3 DEF DeleteKey, Delete, TypeOK
    <2>2. QED
      BY <1>3, <2>1
  <1>4. ASSUME NEW db \in Database, NEW ks \in SUBSET Key, GetValues(db, ks)
        PROVE  FALSE
    BY <1>4 DEF GetValues, Delete, TypeOK
  <1>5. ASSUME NEW db \in Database, FlushDB(db)
        PROVE  FlushDB(d)
    <2>1. d = db
      BY <1>5 DEF FlushDB, TypeOK
    <2>2. QED
      BY <1>5, <2>1
  <1>6. ASSUME NEW db \in Database, CreateDatabase(db)
        PROVE  FALSE
    <2>1. d = db
      BY <1>6 DEF CreateDatabase, TypeOK
    <2>2. QED
      BY <1>6, <2>1 DEF CreateDatabase, NoDataOutsideDatabases, Present
  <1>7. ASSUME NEW db \in Database, NEW k \in Key, NEW v \in Value \cup {Nil},
               NEW t \in Deadline,
               SetKeyData(db, k, [value |-> v, expireAt |-> t])
        PROVE  FALSE
    <2> DEFINE e == [value |-> v, expireAt |-> t]
    <2> t \in Nat
      BY KeyspaceAssumption DEF Deadline
    <2> e \in KeyData /\ e.expireAt = t
      BY DEF KeyData
    <2>1. PICK f \in KeyData : Expire(db, k, t) = [store[db] EXCEPT ![k] = f]
      BY ExpireWrites
    <2>2. \/ UNCHANGED store
          \/ store' = [store EXCEPT ![db] = [store[db] EXCEPT ![k] = f]]
          \/ store' = [store EXCEPT ![db] = [store[db] EXCEPT ![k] = e]]
      BY <1>7, <2>1 DEF SetKeyData
    <2> HIDE DEF e
    <2>3. ASSUME NEW g \in KeyData, store' = [store EXCEPT ![db] = [store[db] EXCEPT ![k] = g]]
          PROVE  FALSE
      BY <2>3, KeyspaceAssumption DEF TypeOK
    <2>4. QED
      BY <2>2, <2>3
  <1>8. ASSUME Start \/ Panic \/ Tick PROVE FALSE
    BY <1>8 DEF Start, Panic, Tick
  <1>9. QED
    BY <1>1, <1>2, <1>3, <1>4, <1>5, <1>6, <1>7, <1>8 DEF Next

(* No read, overwrite, expiry change, database creation or restore step    *)
(* loses a live key.                                                       *)
THEOREM LiveKeysStay == Spec => LiveKeyLeavesOnlyByDeletion
  BY KeyspaceInvariant, NextKeepsLiveKeys, PTL
     DEF Spec, LiveKeyLeavesOnlyByDeletion

-----------------------------------------------------------------------------
(* The handlers.                                                           *)

Fields == {"at", "cmd", "value", "deadline", "todo", "reply"}

Handler(p) ==
    /\ DOMAIN p = Fields
    /\ p.cmd \in Command \cup {NoCommand}
    /\ p.at # "idle" => p.cmd \in Command
    /\ p.deadline \in Deadline
    /\ p.todo \subseteq Key
    /\ p.at = "delete" /\ p.cmd.op = "DEL" => p.todo \subseteq p.cmd.keys
    /\ p.at = "write" /\ p.cmd.op \in {"INCR", "RENAME"} => p.value \in Value

HandlersTyped ==
    /\ DOMAIN proc = Client
    /\ \A c \in Client : Handler(proc[c])

CInv == IInv /\ HandlersTyped

-----------------------------------------------------------------------------
(* Facts about the data.                                                   *)

(* What getValues answers is a value or nil.                               *)
LEMMA LookupType ==
    ASSUME TypeOK, NEW db \in Database, NEW k \in Key
    PROVE  Lookup(db, k) \in Value \cup {Nil}
  BY EntryType DEF Lookup, Present, KeyData

(* The deadline of a command is one of the keyspace's.                     *)
LEMMA DeadlineType ==
    ASSUME TypeOK, NEW m \in Command, m.ttl # NoTTL
    PROVE  DeadlineOf(m) \in Deadline
  <1>1. m.ttl \in Nat /\ (m.abs => m.ttl \in Deadline)
    BY CommandAssumption DEF WellFormed
  <1>2. now \in Nat /\ MaxClock \in Nat
    BY KeyspaceAssumption DEF TypeOK
  <1>3. QED
    BY <1>1, <1>2 DEF DeadlineOf, Deadline

LEMMA DeadlineNumber == \A t \in Deadline : t \in Nat
  BY KeyspaceAssumption DEF Deadline

(* Addition of int64 numbers gives an int64 number.                        *)
LEMMA WrapType ==
    ASSUME NEW n \in Int
    PROVE  Wrap(n) \in Counter
  <1> DEFINE w == 2 * (MaxInt + 1)
  <1>1. MaxInt \in Nat /\ w \in Nat \ {0}
    BY CommandAssumption
  <1>2. (n + MaxInt + 1) % w \in 0..(w - 1)
    <2>1. n + MaxInt + 1 \in Int
      BY <1>1
    <2> HIDE DEF w
    <2>2. QED
      BY <1>1, <2>1
  <1>3. QED
    BY <1>1, <1>2 DEF Wrap, Counter

(* A single entry is something that setValues can be called with.          *)
LEMMA OneEntry ==
    ASSUME NEW k \in Key, NEW v \in Value
    PROVE  One(k, v) \in Entries
  <1>1. One(k, v) \in [{k} -> Value] /\ {k} \in (SUBSET Key) \ {{}}
    BY DEF One
  <1>2. QED
    BY <1>1 DEF Entries

-----------------------------------------------------------------------------
(* How a step changes the handler of its client.                           *)

(* A step that replaces the handler of one client by a typed one.          *)
LEMMA Replaced ==
    ASSUME HandlersTyped, NEW c \in Client, DOMAIN proc' = Client,
           \A d \in Client \ {c} : proc'[d] = proc[d], Handler(proc'[c])
    PROVE  HandlersTyped'
  <1>1. \A d \in Client : Handler(proc'[d])
    BY DEF HandlersTyped
  <1>2. \A d \in Client : Handler(proc[d])'
    BY <1>1 DEF Handler
  <1>3. QED
    BY <1>2 DEF HandlersTyped

(* The handler of a client that answers is idle.                           *)
LEMMA Replied ==
    ASSUME HandlersTyped, NEW c \in Client, NEW r, Reply(c, r)
    PROVE  HandlersTyped'
  <1>1. proc[c].cmd \in Command \cup {NoCommand}
    BY DEF HandlersTyped, Handler
  <1>2. Handler(Idle(proc[c].cmd, r))
    BY <1>1, KeyspaceAssumption DEF Idle, Handler, Deadline, Fields
  <1>3. /\ DOMAIN proc' = Client /\ proc'[c] = Idle(proc[c].cmd, r)
        /\ \A d \in Client \ {c} : proc'[d] = proc[d]
    BY DEF Reply, HandlersTyped
  <1>4. QED
    BY <1>2, <1>3, Replaced

(* A step of a handler that is not idle to another call, with other local  *)
(* variables perhaps.                                                      *)
LEMMA Moved ==
    ASSUME HandlersTyped, NEW c \in Client, proc[c].at # "idle",
           DOMAIN proc' = Client, \A d \in Client \ {c} : proc'[d] = proc[d],
           DOMAIN proc'[c] = Fields, proc'[c].cmd = proc[c].cmd,
           proc'[c].deadline \in Deadline, proc'[c].todo \in SUBSET Key,
           proc'[c].at = "delete" /\ proc[c].cmd.op = "DEL"
              => proc'[c].todo \subseteq proc[c].cmd.keys,
           proc'[c].at = "write" /\ proc[c].cmd.op \in {"INCR", "RENAME"}
              => proc'[c].value \in Value
    PROVE  HandlersTyped'
  <1>1. proc[c].cmd \in Command
    BY DEF HandlersTyped, Handler
  <1>2. Handler(proc'[c])
    BY <1>1 DEF Handler
  <1>3. QED
    BY <1>2, Replaced

(* What an assignment to a field of a handler does.                        *)
LEMMA Assigned ==
    ASSUME NEW f, DOMAIN f = Client, \A d \in Client : DOMAIN f[d] = Fields,
           NEW c \in Client, NEW x
    PROVE  /\ DOMAIN [f EXCEPT ![c].at = x] = Client
           /\ DOMAIN [f EXCEPT ![c].deadline = x] = Client
           /\ DOMAIN [f EXCEPT ![c].value = x] = Client
           /\ DOMAIN [f EXCEPT ![c].todo = x] = Client
           /\ \A d \in Client \ {c} :
                 /\ [f EXCEPT ![c].at = x][d] = f[d]
                 /\ [f EXCEPT ![c].deadline = x][d] = f[d]
                 /\ [f EXCEPT ![c].value = x][d] = f[d]
                 /\ [f EXCEPT ![c].todo = x][d] = f[d]
           /\ [f EXCEPT ![c].at = x][c] = [f[c] EXCEPT !.at = x]
           /\ [f EXCEPT ![c].deadline = x][c] = [f[c] EXCEPT !.deadline = x]
           /\ [f EXCEPT ![c].value = x][c] = [f[c] EXCEPT !.value = x]
           /\ [f EXCEPT ![c].todo = x][c] = [f[c] EXCEPT !.todo = x]
  OBVIOUS

(* What a client runs that is not idle.                                    *)
LEMMA Running ==
    ASSUME HandlersTyped, NEW c \in Client, proc[c].at # "idle"
    PROVE  /\ Handler(proc[c]) /\ proc[c].cmd \in Command
           /\ WellFormed(proc[c].cmd)
  BY CommandAssumption DEF HandlersTyped, Handler

(* A step to another call that keeps the local variables.                  *)
LEMMA Gone ==
    ASSUME HandlersTyped, NEW c \in Client, proc[c].at # "idle", NEW at,
           at = "write" => proc[c].cmd.op \notin {"INCR", "RENAME"},
           at = "delete" => proc[c].cmd.op # "DEL",
           Goto(c, at)
    PROVE  HandlersTyped'
  <1>1. /\ DOMAIN proc = Client /\ \A d \in Client : DOMAIN proc[d] = Fields
        /\ proc[c].deadline \in Deadline /\ proc[c].todo \in SUBSET Key
    BY DEF HandlersTyped, Handler
  <1>2. /\ DOMAIN proc' = Client /\ proc'[c] = [proc[c] EXCEPT !.at = at]
        /\ \A d \in Client \ {c} : proc'[d] = proc[d]
    BY <1>1, Assigned DEF Goto
  <1>3. /\ DOMAIN proc'[c] = Fields /\ proc'[c].at = at
        /\ proc'[c].cmd = proc[c].cmd /\ proc'[c].deadline = proc[c].deadline
        /\ proc'[c].todo = proc[c].todo
    BY <1>1, <1>2 DEF Fields
  <1>4. QED
    BY <1>1, <1>2, <1>3, Moved

(* A step to another call with a new value.                                *)
LEMMA GoneWithValue ==
    ASSUME HandlersTyped, NEW c \in Client, proc[c].at # "idle", NEW at, NEW v,
           at = "write" /\ proc[c].cmd.op \in {"INCR", "RENAME"} => v \in Value,
           at = "delete" => proc[c].cmd.op # "DEL",
           proc' = [proc EXCEPT ![c].at = at, ![c].value = v]
    PROVE  HandlersTyped'
  <1> DEFINE f == [proc EXCEPT ![c].at = at]
  <1>1. /\ DOMAIN proc = Client /\ \A d \in Client : DOMAIN proc[d] = Fields
        /\ proc[c].deadline \in Deadline /\ proc[c].todo \in SUBSET Key
    BY DEF HandlersTyped, Handler
  <1>2. /\ DOMAIN f = Client /\ f[c] = [proc[c] EXCEPT !.at = at]
        /\ \A d \in Client \ {c} : f[d] = proc[d]
    BY <1>1, Assigned
  <1>3. \A d \in Client : DOMAIN f[d] = Fields
    BY <1>1, <1>2
  <1>4. proc' = [f EXCEPT ![c].value = v]
    OBVIOUS
  <1> HIDE DEF f
  <1>5. /\ DOMAIN proc' = Client /\ proc'[c] = [f[c] EXCEPT !.value = v]
        /\ \A d \in Client \ {c} : proc'[d] = f[d]
    BY <1>2, <1>3, <1>4, Assigned
  <1>6. /\ DOMAIN proc'[c] = Fields /\ proc'[c].at = at /\ proc'[c].value = v
        /\ proc'[c].cmd = proc[c].cmd /\ proc'[c].deadline = proc[c].deadline
        /\ proc'[c].todo = proc[c].todo
    BY <1>1, <1>2, <1>5 DEF Fields
  <1>7. QED
    BY <1>1, <1>2, <1>5, <1>6, Moved

(* A step to another call with a new deadline.                             *)
LEMMA GoneWithDeadline ==
    ASSUME HandlersTyped, NEW c \in Client, proc[c].at # "idle", NEW at,
           NEW t \in Deadline,
           at = "write" => proc[c].cmd.op \notin {"INCR", "RENAME"},
           at = "delete" => proc[c].cmd.op # "DEL",
           proc' = [proc EXCEPT ![c].at = at, ![c].deadline = t]
    PROVE  HandlersTyped'
  <1> DEFINE f == [proc EXCEPT ![c].at = at]
  <1>1. /\ DOMAIN proc = Client /\ \A d \in Client : DOMAIN proc[d] = Fields
        /\ proc[c].deadline \in Deadline /\ proc[c].todo \in SUBSET Key
    BY DEF HandlersTyped, Handler
  <1>2. /\ DOMAIN f = Client /\ f[c] = [proc[c] EXCEPT !.at = at]
        /\ \A d \in Client \ {c} : f[d] = proc[d]
    BY <1>1, Assigned
  <1>3. \A d \in Client : DOMAIN f[d] = Fields
    BY <1>1, <1>2
  <1>4. proc' = [f EXCEPT ![c].deadline = t]
    OBVIOUS
  <1> HIDE DEF f
  <1>5. /\ DOMAIN proc' = Client /\ proc'[c] = [f[c] EXCEPT !.deadline = t]
        /\ \A d \in Client \ {c} : proc'[d] = f[d]
    BY <1>2, <1>3, <1>4, Assigned
  <1>6. /\ DOMAIN proc'[c] = Fields /\ proc'[c].at = at
        /\ proc'[c].cmd = proc[c].cmd /\ proc'[c].deadline = t
        /\ proc'[c].todo = proc[c].todo
    BY <1>1, <1>2, <1>5 DEF Fields
  <1>7. QED
    BY <1>1, <1>2, <1>5, <1>6, Moved

(* A step to another call with keys to work on, and with a new value.      *)
LEMMA GoneWithKeys ==
    ASSUME HandlersTyped, NEW c \in Client, proc[c].at # "idle", NEW at,
           NEW ks \in SUBSET Key, ks \subseteq proc[c].cmd.keys, NEW v,
           at # "write",
           proc' = [proc EXCEPT ![c].at = at, ![c].todo = ks, ![c].value = v]
    PROVE  HandlersTyped'
  <1> DEFINE f == [proc EXCEPT ![c].at = at]
             g == [f EXCEPT ![c].todo = ks]
  <1>1. /\ DOMAIN proc = Client /\ \A d \in Client : DOMAIN proc[d] = Fields
        /\ proc[c].deadline \in Deadline /\ proc[c].todo \in SUBSET Key
    BY DEF HandlersTyped, Handler
  <1>2. /\ DOMAIN f = Client /\ f[c] = [proc[c] EXCEPT !.at = at]
        /\ \A d \in Client \ {c} : f[d] = proc[d]
    BY <1>1, Assigned
  <1>3. \A d \in Client : DOMAIN f[d] = Fields
    BY <1>1, <1>2
  <1>4. proc' = [g EXCEPT ![c].value = v]
    OBVIOUS
  <1> HIDE DEF f
  <1>5. /\ DOMAIN g = Client /\ g[c] = [f[c] EXCEPT !.todo = ks]
        /\ \A d \in Client \ {c} : g[d] = proc[d]
    BY <1>2, <1>3, Assigned
  <1>6. \A d \in Client : DOMAIN g[d] = Fields
    BY <1>1, <1>3, <1>5
  <1> HIDE DEF g
  <1>7. /\ DOMAIN proc' = Client /\ proc'[c] = [g[c] EXCEPT !.value = v]
        /\ \A d \in Client \ {c} : proc'[d] = proc[d]
    <2>1. /\ DOMAIN [g EXCEPT ![c].value = v] = Client
          /\ [g EXCEPT ![c].value = v][c] = [g[c] EXCEPT !.value = v]
          /\ \A d \in Client \ {c} : [g EXCEPT ![c].value = v][d] = g[d]
      BY <1>5, <1>6, Assigned
    <2>2. QED
      BY <1>4, <1>5, <2>1
  <1>8. /\ DOMAIN proc'[c] = Fields /\ proc'[c].at = at
        /\ proc'[c].cmd = proc[c].cmd /\ proc'[c].deadline = proc[c].deadline
        /\ proc'[c].todo = ks
    BY <1>1, <1>2, <1>5, <1>7 DEF Fields
  <1>9. QED
    BY <1>1, <1>7, <1>8, Moved

(* A step to another call with a new deadline and a new value.             *)
LEMMA GoneWithBoth ==
    ASSUME HandlersTyped, NEW c \in Client, proc[c].at # "idle", NEW at,
           NEW t \in Deadline, NEW v,
           at \notin {"write", "delete"},
           proc' = [proc EXCEPT ![c].at = at, ![c].deadline = t, ![c].value = v]
    PROVE  HandlersTyped'
  <1> DEFINE f == [proc EXCEPT ![c].at = at]
             g == [f EXCEPT ![c].deadline = t]
  <1>1. /\ DOMAIN proc = Client /\ \A d \in Client : DOMAIN proc[d] = Fields
        /\ proc[c].deadline \in Deadline /\ proc[c].todo \in SUBSET Key
    BY DEF HandlersTyped, Handler
  <1>2. /\ DOMAIN f = Client /\ f[c] = [proc[c] EXCEPT !.at = at]
        /\ \A d \in Client \ {c} : f[d] = proc[d]
    BY <1>1, Assigned
  <1>3. \A d \in Client : DOMAIN f[d] = Fields
    BY <1>1, <1>2
  <1>4. proc' = [g EXCEPT ![c].value = v]
    OBVIOUS
  <1> HIDE DEF f
  <1>5. /\ DOMAIN g = Client /\ g[c] = [f[c] EXCEPT !.deadline = t]
        /\ \A d \in Client \ {c} : g[d] = proc[d]
    BY <1>2, <1>3, Assigned
  <1>6. \A d \in Client : DOMAIN g[d] = Fields
    BY <1>1, <1>3, <1>5
  <1> HIDE DEF g
  <1>7. /\ DOMAIN proc' = Client /\ proc'[c] = [g[c] EXCEPT !.value = v]
        /\ \A d \in Client \ {c} : proc'[d] = proc[d]
    <2>1. /\ DOMAIN [g EXCEPT ![c].value = v] = Client
          /\ [g EXCEPT ![c].value = v][c] = [g[c] EXCEPT !.value = v]
          /\ \A d \in Client \ {c} : [g EXCEPT ![c].value = v][d] = g[d]
      BY <1>5, <1>6, Assigned
    <2>2. QED
      BY <1>4, <1>5, <2>1
  <1>8. /\ DOMAIN proc'[c] = Fields /\ proc'[c].at = at
        /\ proc'[c].cmd = proc[c].cmd /\ proc'[c].deadline = t
        /\ proc'[c].todo = proc[c].todo
    BY <1>1, <1>2, <1>5, <1>7 DEF Fields
  <1>9. QED
    BY <1>1, <1>7, <1>8, Moved

(* A step that takes keys off those that are left to work on.              *)
LEMMA FewerKeys ==
    ASSUME HandlersTyped, NEW c \in Client, proc[c].at \notin {"idle", "write"},
           NEW ks \in SUBSET Key, ks \subseteq proc[c].cmd.keys,
           proc' = [proc EXCEPT ![c].todo = ks]
    PROVE  HandlersTyped'
  <1>1. /\ DOMAIN proc = Client /\ \A d \in Client : DOMAIN proc[d] = Fields
        /\ proc[c].deadline \in Deadline /\ proc[c].todo \in SUBSET Key
    BY DEF HandlersTyped, Handler
  <1>2. /\ DOMAIN proc' = Client /\ proc'[c] = [proc[c] EXCEPT !.todo = ks]
        /\ \A d \in Client \ {c} : proc'[d] = proc[d]
    BY <1>1, Assigned
  <1>3. /\ DOMAIN proc'[c] = Fields /\ proc'[c].at = proc[c].at
        /\ proc'[c].cmd = proc[c].cmd /\ proc'[c].deadline = proc[c].deadline
        /\ proc'[c].todo = ks
    BY <1>1, <1>2 DEF Fields
  <1>4. QED
    BY <1>1, <1>2, <1>3, Moved

-----------------------------------------------------------------------------
(* The handlers, one by one.                                               *)

(* A step that keeps the handlers typed, is one of the keyspace or changes *)
(* nothing there, and lets no live key go but by a command that says so.   *)
Good == HandlersTyped' /\ [Next]_vars /\ LiveKeysStep

(* The handlers that are about to delete a key or to flush take a step     *)
(* when they do.                                                           *)
LEMMA Moves ==
    ASSUME CInv, NEW c \in Client, proc[c].at # "idle"
    PROVE  /\ \A r : Reply(c, r) => proc'[c] # proc[c]
           /\ \A at : Goto(c, at) /\ at # proc[c].at => proc'[c] # proc[c]
           /\ \A k \in proc[c].todo :
                 proc' = [proc EXCEPT ![c].todo = proc[c].todo \ {k}] => proc'[c] # proc[c]
  <1>1. DOMAIN proc = Client /\ \A d \in Client : DOMAIN proc[d] = Fields
    BY DEF CInv, HandlersTyped, Handler
  <1>2. ASSUME NEW r, Reply(c, r)
        PROVE  proc'[c] # proc[c]
    <2>1. proc'[c].at = "idle"
      BY <1>1, <1>2 DEF Reply, Idle
    <2>2. QED
      BY <2>1
  <1>3. ASSUME NEW at, Goto(c, at), at # proc[c].at
        PROVE  proc'[c] # proc[c]
    <2>1. proc'[c].at = at
      BY <1>1, <1>3 DEF Goto, Fields
    <2>2. QED
      BY <1>3, <2>1
  <1>4. ASSUME NEW k \in proc[c].todo,
               proc' = [proc EXCEPT ![c].todo = proc[c].todo \ {k}]
        PROVE  proc'[c] # proc[c]
    <2>1. proc'[c].todo = proc[c].todo \ {k}
      BY <1>1, <1>4 DEF Fields
    <2>2. QED
      BY <2>1
  <1>5. QED
    BY <1>2, <1>3, <1>4

(* Steps that change no data, the passing of time among them.              *)
LEMMA DataUnchanged ==
    ASSUME CInv, HandlersTyped', [Next]_vars, UNCHANGED store
    PROVE  Good
  BY DEF Good, LiveKeysStep, Present

(* Steps that change nothing in the keyspace.                             *)
LEMMA NothingChanged ==
    ASSUME CInv, HandlersTyped', UNCHANGED vars
    PROVE  Good
  <1>1. UNCHANGED store
    BY DEF vars
  <1>2. QED
    BY <1>1, DataUnchanged

(* getValues deletes expired keys, and no other.                           *)
LEMMA ReadingKeeps ==
    ASSUME CInv, HandlersTyped', NEW db \in Database, NEW ks \in SUBSET Key,
           GetValues(db, ks)
    PROVE  Good
  <1>1. UNCHANGED now /\ store \in [Database -> [Key -> KeyData \cup {Absent}]]
    BY DEF GetValues, CInv, IInv, TypeOK
  <1>2. \A d \in Database, k \in Key :
           \/ store'[d][k] = store[d][k]
           \/ Expired(d, k) /\ store'[d][k] = Absent
    BY <1>1 DEF GetValues, Delete
  <1>3. LiveKeysStep
    BY <1>2 DEF LiveKeysStep, Present
  <1>4. [Next]_vars
    BY DEF Next
  <1>5. QED
    BY <1>3, <1>4 DEF Good

(* setValues deletes nothing, and keeps the deadlines that it finds.       *)
LEMMA WritingKeeps ==
    ASSUME CInv, HandlersTyped', NEW db \in Database, NEW e \in Entries, SetValues(db, e)
    PROVE  Good
  <1>1. /\ UNCHANGED now /\ store \in [Database -> [Key -> KeyData \cup {Absent}]]
        /\ store' = [store EXCEPT ![db] = Overwrite(db, e)]
    BY DEF SetValues, CInv, IInv, TypeOK
  <1>2. PICK ks \in SUBSET Key : e \in [ks -> Value]
    BY DEF Entries
  <1>3. ASSUME NEW d \in Database, NEW k \in Key, Present(d, k)
        PROVE  /\ store'[d][k] # Absent
               /\ store'[d][k].expireAt = store[d][k].expireAt
    <2>1. CASE d = db /\ k \in ks
      <3>1. store'[d][k] = [value |-> e[k], expireAt |-> store[d][k].expireAt]
        BY <1>1, <1>2, <1>3, <2>1 DEF Overwrite, getExpiry
      <3>2. store[d][k].expireAt \in Nat /\ e[k] \in Value
        BY <1>2, <1>3, <2>1, EntryType DEF CInv, IInv, Present, KeyData
      <3>3. store'[d][k] \in KeyData
        BY <3>1, <3>2 DEF KeyData
      <3>4. QED
        BY <3>1, <3>3, KeyspaceAssumption
    <2>2. CASE ~(d = db /\ k \in ks)
      BY <1>1, <1>2, <1>3, <2>2 DEF Overwrite, Present
    <2>3. QED
      BY <2>1, <2>2
  <1>4. LiveKeysStep
    BY <1>3 DEF LiveKeysStep
  <1>5. [Next]_vars
    BY DEF Next
  <1>6. QED
    BY <1>4, <1>5 DEF Good

(* A database that does not exist has no keys to lose.                     *)
LEMMA CreatingKeeps ==
    ASSUME CInv, HandlersTyped', NEW db \in Database, CreateDatabase(db)
    PROVE  Good
  <1>1. \A k \in Key : store[db][k] = Absent
    BY DEF CreateDatabase, CInv, IInv, NoDataOutsideDatabases, Present
  <1>2. \A d \in Database, k \in Key : store'[d][k] = store[d][k]
    BY <1>1 DEF CreateDatabase, Fresh, CInv, IInv, TypeOK
  <1>3. LiveKeysStep
    BY <1>2 DEF LiveKeysStep, Present
  <1>4. [Next]_vars
    BY DEF Next
  <1>5. QED
    BY <1>3, <1>4 DEF Good

(* setKeyData writes a key that is not there.                              *)
LEMMA LoadingKeeps ==
    ASSUME CInv, HandlersTyped', NEW db \in Database, NEW k \in Key,
           NEW v \in Value \cup {Nil}, NEW t \in Deadline,
           ~Present(db, k), SetKeyData(db, k, [value |-> v, expireAt |-> t])
    PROVE  Good
  <1>1. \A d \in Database, x \in Key : Present(d, x) => store'[d][x] = store[d][x]
    BY DEF SetKeyData, Expire, Present, CInv, IInv, TypeOK
  <1>2. UNCHANGED now
    BY DEF SetKeyData
  <1>3. LiveKeysStep
    BY <1>1 DEF LiveKeysStep, Present
  <1>4. [Next]_vars
    BY DEF Next
  <1>5. QED
    BY <1>3, <1>4 DEF Good

(* A handler deletes keys that its command names.                          *)
LEMMA DeletingNamed ==
    ASSUME CInv, HandlersTyped', NEW c \in Client, proc[c].at = "delete",
           proc[c].cmd.db \in Database, NEW k \in proc[c].cmd.keys, k \in Key,
           DeleteKey(proc[c].cmd.db, k), proc'[c] # proc[c]
    PROVE  Good
  <1> DEFINE db == proc[c].cmd.db
  <1>1. UNCHANGED now /\ store \in [Database -> [Key -> KeyData \cup {Absent}]]
    BY DEF DeleteKey, CInv, IInv, TypeOK
  <1>2. \A d \in Database, x \in Key :
           \/ store'[d][x] = store[d][x]
           \/ d = db /\ x = k /\ store'[d][x] = Absent
    BY <1>1 DEF DeleteKey, Delete
  <1>3. Deleting(c, db, k)
    BY DEF Deleting
  <1>4. LiveKeysStep
    BY <1>2, <1>3 DEF LiveKeysStep, Present
  <1>5. [Next]_vars
    BY DEF Next
  <1>6. QED
    BY <1>4, <1>5 DEF Good

(* A flush deletes keys of its database, FLUSHALL of every database.       *)
LEMMA Flushing ==
    ASSUME CInv, HandlersTyped', NEW c \in Client, proc[c].at = "start",
           proc[c].cmd.db \in Database,
           \/ FlushAll /\ proc[c].cmd.op = "FLUSHALL" /\ proc'[c] # proc[c]
           \/ /\ FlushDB(proc[c].cmd.db) /\ proc[c].cmd.op = "FLUSHDB"
              /\ status' # "crashed" => proc'[c] # proc[c]
    PROVE  Good
  <1>1. UNCHANGED now /\ store \in [Database -> [Key -> KeyData \cup {Absent}]]
    BY DEF FlushAll, FlushDB, CInv, IInv, TypeOK
  <1>2. \A d \in Database, k \in Key :
           \/ store'[d][k] = store[d][k]
           \/ /\ store'[d][k] = Absent /\ Deleting(c, d, k)
              /\ proc'[c] # proc[c]
    <2>1. CASE FlushAll /\ proc[c].cmd.op = "FLUSHALL" /\ proc'[c] # proc[c]
      BY <2>1 DEF FlushAll, Fresh, Deleting
    <2>2. CASE /\ FlushDB(proc[c].cmd.db) /\ proc[c].cmd.op = "FLUSHDB"
               /\ status' # "crashed" => proc'[c] # proc[c]
      BY <1>1, <2>2 DEF FlushDB, Fresh, Deleting
    <2>3. QED
      BY <2>1, <2>2
  <1>3. LiveKeysStep
    BY <1>2 DEF LiveKeysStep, Present
  <1>4. [Next]_vars
    BY DEF Next
  <1>5. QED
    BY <1>3, <1>4 DEF Good

(* A handler sets the deadline of the key of its command.                  *)
LEMMA ExpiringNamed ==
    ASSUME CInv, HandlersTyped', NEW c \in Client, NEW t \in Deadline,
           proc[c].at \in {"expire", "expire twice"},
           proc[c].cmd.db \in Database, proc[c].cmd.key \in Key,
           SetExpiry(proc[c].cmd.db, proc[c].cmd.key, t), proc'[c] # proc[c]
    PROVE  Good
  <1> DEFINE db == proc[c].cmd.db
             k == proc[c].cmd.key
  <1>1. /\ UNCHANGED now /\ store \in [Database -> [Key -> KeyData \cup {Absent}]]
        /\ store' = [store EXCEPT ![db] = Expire(db, k, t)]
    BY DEF SetExpiry, CInv, IInv, TypeOK
  <1>2. store'[db][k] # Absent
    <2>1. store'[db][k] = [value |-> IF Present(db, k) THEN store[db][k].value ELSE Nil,
                           expireAt |-> t]
      BY <1>1 DEF Expire
    <2>2. (IF Present(db, k) THEN store[db][k].value ELSE Nil) \in Value \cup {Nil}
      BY EntryType DEF CInv, IInv, Present, KeyData
    <2>3. store'[db][k] \in KeyData
      <3>1. t \in Nat
        BY DeadlineNumber
      <3> DEFINE w == IF Present(db, k) THEN store[db][k].value ELSE Nil
      <3>2. w \in Value \cup {Nil} /\ store'[db][k] = [value |-> w, expireAt |-> t]
        BY <2>1, <2>2
      <3> HIDE DEF w
      <3>3. [value |-> w, expireAt |-> t] \in KeyData
        BY <3>1, <3>2 DEF KeyData
      <3> QED
        BY <3>2, <3>3
    <2>4. QED
      BY <2>3, KeyspaceAssumption
  <1>3. \A d \in Database, x \in Key : store'[d][x] = store[d][x] \/ (d = db /\ x = k)
    BY <1>1 DEF Expire
  <1>4. LiveKeysStep
    BY <1>2, <1>3 DEF LiveKeysStep, Present
  <1>5. [Next]_vars
    BY DEF Next
  <1>6. QED
    BY <1>4, <1>5 DEF Good

(* A call of SetValues that may be refused.                                *)
LEMMA WriteStep ==
    ASSUME CInv, NEW c \in Client, proc[c].at # "idle", NEW e \in Entries,
           \/ IsMaxMemoryExceeded /\ UNCHANGED vars /\ Reply(c, Err)
           \/ SetValues(proc[c].cmd.db, e) /\ HandlersTyped'
    PROVE  Good
  <1>1. proc[c].cmd.db \in Database
    BY Running DEF CInv, WellFormed
  <1>2. CASE UNCHANGED vars /\ Reply(c, Err)
    BY <1>2, Replied, NothingChanged DEF CInv
  <1>3. CASE SetValues(proc[c].cmd.db, e) /\ HandlersTyped'
    BY <1>1, <1>3, WritingKeeps
  <1>4. QED
    BY <1>2, <1>3

LEMMA SetStep ==
    ASSUME CInv, NEW c \in Client, handleSet(c)
    PROVE  Good
  <1> DEFINE m == proc[c].cmd
  <1>1. proc[c].at # "idle" /\ m.op = "SET"
    BY DEF handleSet, At
  <1>2. /\ m \in Command /\ proc[c].deadline \in Deadline
        /\ m.db \in Database /\ m.key \in Key /\ m.value \in Value
    BY <1>1, Running DEF CInv, WellFormed, OneKey, Handler
  <1>3. 0 \in Deadline /\ (m.ttl # NoTTL => DeadlineOf(m) \in Deadline)
    BY <1>2, DeadlineType, KeyspaceAssumption DEF CInv, IInv, Deadline
  <1>4. CASE At(c, {"SET"}, "start")
    <2>1. UNCHANGED vars
      BY <1>4 DEF handleSet, At
    <2>2. CASE Reply(c, Err)
      BY <2>1, <2>2, Replied, NothingChanged DEF CInv
    <2>3. ASSUME NEW next \in {"read", "write"}, NEW t \in Deadline,
                 proc' = [proc EXCEPT ![c].at = next, ![c].deadline = t]
          PROVE  Good
      BY <1>1, <2>1, <2>3, GoneWithDeadline, NothingChanged DEF CInv
    <2>4. QED
      BY <1>3, <1>4, <2>2, <2>3 DEF handleSet, At
  <1>5. CASE At(c, {"SET"}, "read")
    <2>1. GetValues(m.db, {m.key})
      BY <1>5 DEF handleSet, At
    <2>2. HandlersTyped'
      BY <1>1, <1>5, Replied, GoneWithValue DEF handleSet, At, CInv
    <2>3. QED
      BY <1>2, <2>1, <2>2, ReadingKeeps
  <1>6. CASE At(c, {"SET"}, "write")
    <2>1. \/ IsMaxMemoryExceeded /\ UNCHANGED vars /\ Reply(c, Err)
          \/ /\ SetValues(m.db, One(m.key, m.value))
             /\ Goto(c, "expire") \/ Reply(c, SetReply(c))
      BY <1>6 DEF handleSet, At, Write
    <2>2. Goto(c, "expire") \/ Reply(c, SetReply(c)) => HandlersTyped'
      BY <1>1, Gone, Replied DEF CInv
    <2>3. One(m.key, m.value) \in Entries
      BY <1>2, OneEntry
    <2>4. QED
      BY <1>1, <2>1, <2>2, <2>3, WriteStep
  <1>7. CASE At(c, {"SET"}, "expire")
    <2>1. SetExpiry(m.db, m.key, proc[c].deadline) /\ Reply(c, SetReply(c))
      BY <1>7 DEF handleSet, At
    <2>2. HandlersTyped' /\ proc'[c] # proc[c]
      BY <1>1, <2>1, Replied, Moves DEF CInv
    <2>3. QED
      BY <1>2, <1>7, <2>1, <2>2, ExpiringNamed DEF At
  <1>8. QED
    BY <1>4, <1>5, <1>6, <1>7 DEF handleSet

LEMMA MSetStep ==
    ASSUME CInv, NEW c \in Client, handleMSet(c)
    PROVE  Good
  <1> DEFINE m == proc[c].cmd
             e == [k \in m.keys |-> m.value]
  <1>1. proc[c].at # "idle" /\ m.op = "MSET"
    BY DEF handleMSet, At
  <1>2. m.keys \in (SUBSET Key) \ {{}} /\ m.value \in Value
    BY <1>1, Running DEF CInv, WellFormed
  <1>3. e \in [m.keys -> Value]
    BY <1>2
  <1>4. e \in Entries
    BY <1>2, <1>3 DEF Entries
  <1>5. \/ IsMaxMemoryExceeded /\ UNCHANGED vars /\ Reply(c, Err)
        \/ SetValues(m.db, e) /\ Reply(c, Ok)
    BY DEF handleMSet, Write
  <1> HIDE DEF e
  <1>6. QED
    BY <1>1, <1>4, <1>5, WriteStep, Replied DEF CInv

LEMMA GetStep ==
    ASSUME CInv, NEW c \in Client, handleGet(c)
    PROVE  Good
  <1> DEFINE m == proc[c].cmd
  <1>1. proc[c].at # "idle" /\ m.op \in {"GET", "GETDEL", "GETEX"}
    BY DEF handleGet, At
  <1>2. m.db \in Database /\ m.key \in Key
    BY <1>1, Running DEF CInv, WellFormed, OneKey
  <1>3. CASE UNCHANGED vars /\ (Goto(c, "read") \/ Reply(c, Val(Nil)))
    BY <1>1, <1>3, Gone, Replied, NothingChanged DEF CInv
  <1>4. CASE GetValues(m.db, {m.key}) /\ Reply(c, Val(Lookup(m.db, m.key)))
    BY <1>2, <1>4, Replied, ReadingKeeps DEF CInv
  <1>5. QED
    BY <1>3, <1>4 DEF handleGet

LEMMA MGetStep ==
    ASSUME CInv, NEW c \in Client, handleMGet(c)
    PROVE  Good
  <1> DEFINE m == proc[c].cmd
  <1>1. m.db \in Database /\ m.keys \in SUBSET Key
    BY Running DEF handleMGet, At, CInv, WellFormed
  <1>2. GetValues(m.db, m.keys) /\ \E r : Reply(c, r)
    BY DEF handleMGet
  <1>3. QED
    BY <1>1, <1>2, Replied, ReadingKeeps DEF CInv

LEMMA DelStep ==
    ASSUME CInv, NEW c \in Client, handleDel(c)
    PROVE  Good
  <1> DEFINE m == proc[c].cmd
             found == {k \in m.keys : Present(m.db, k)}
  <1>1. proc[c].at \notin {"idle", "write"} /\ m.op = "DEL"
    BY DEF handleDel, At
  <1>2. /\ m.db \in Database /\ m.keys \in SUBSET Key
        /\ proc[c].todo \in SUBSET Key
    BY <1>1, Running DEF CInv, WellFormed, Handler
  <1>3. CASE At(c, {"DEL"}, "start")
    <2>1. UNCHANGED vars
      BY <1>3 DEF handleDel, At
    <2>2. found \in SUBSET Key /\ found \subseteq m.keys
      BY <1>2
    <2> HIDE DEF found
    <2>3. \/ Reply(c, Num(0))
          \/ proc' = [proc EXCEPT ![c].at = "delete", ![c].todo = found,
                                  ![c].value = Cardinality(found)]
      BY <1>3 DEF handleDel, At, found
    <2>4. HandlersTyped'
      BY <1>1, <2>2, <2>3, Replied, GoneWithKeys DEF CInv
    <2>5. QED
      BY <2>1, <2>4, NothingChanged
  <1>4. CASE At(c, {"DEL"}, "delete")
    <2>1. PICK k \in proc[c].todo :
             /\ DeleteKey(m.db, k)
             /\ \/ Reply(c, Num(proc[c].value))
                \/ proc' = [proc EXCEPT ![c].todo = proc[c].todo \ {k}]
      BY <1>4 DEF handleDel, At
    <2>2. proc[c].todo \subseteq m.keys /\ proc[c].at = "delete"
      BY <1>1, <1>4, Running DEF CInv, Handler, At
    <2>3. HandlersTyped'
      <3>1. proc[c].todo \ {k} \in SUBSET Key /\ proc[c].todo \ {k} \subseteq m.keys
        BY <1>2, <2>2
      <3>2. QED
        BY <1>1, <2>1, <3>1, Replied, FewerKeys DEF CInv
    <2>4. proc'[c] # proc[c]
      BY <1>1, <2>1, Moves
    <2>5. k \in m.keys /\ k \in Key
      BY <1>2, <2>2
    <2>6. QED
      BY <1>2, <2>1, <2>2, <2>3, <2>4, <2>5, DeletingNamed
  <1>5. QED
    BY <1>3, <1>4 DEF handleDel

(* PERSIST sets the deadline 0.                                            *)
LEMMA PersistStep ==
    ASSUME CInv, NEW c \in Client, handlePersist(c)
    PROVE  Good
  <1> DEFINE m == proc[c].cmd
  <1>1. proc[c].at # "idle" /\ m.op = "PERSIST"
    BY DEF handlePersist, At
  <1>2. m.db \in Database /\ m.key \in Key /\ 0 \in Deadline
    BY <1>1, Running, KeyspaceAssumption DEF CInv, WellFormed, OneKey, Deadline
  <1>3. CASE UNCHANGED vars /\ (Goto(c, "check") \/ Goto(c, "expire") \/ Reply(c, Num(0)))
    BY <1>1, <1>3, Gone, Replied, NothingChanged DEF CInv
  <1>4. CASE proc[c].at = "expire" /\ SetExpiry(m.db, m.key, 0) /\ Reply(c, Num(1))
    <2>1. HandlersTyped' /\ proc'[c] # proc[c]
      BY <1>1, <1>4, Replied, Moves DEF CInv
    <2>2. QED
      BY <1>2, <1>4, <2>1, ExpiringNamed
  <1>5. QED
    BY <1>3, <1>4 DEF handlePersist, At

LEMMA TTLStep ==
    ASSUME CInv, NEW c \in Client, handleTTL(c)
    PROVE  Good
  <1>1. proc[c].at # "idle"
    BY DEF handleTTL, At
  <1>2. UNCHANGED vars /\ (Goto(c, "check") \/ \E r : Reply(c, r))
    BY DEF handleTTL
  <1>3. QED
    BY <1>1, <1>2, Gone, Replied, NothingChanged DEF CInv

LEMMA ExpireStep ==
    ASSUME CInv, NEW c \in Client, handleExpire(c)
    PROVE  Good
  <1> DEFINE m == proc[c].cmd
  <1>1. proc[c].at # "idle" /\ m.op = "EXPIRE"
    BY DEF handleExpire, At
  <1>2. /\ m \in Command /\ m.db \in Database /\ m.key \in Key
        /\ m.ttl # NoTTL /\ proc[c].deadline \in Deadline
    BY <1>1, Running DEF CInv, WellFormed, OneKey, Handler
  <1>3. DeadlineOf(m) \in Deadline
    BY <1>2, DeadlineType DEF CInv, IInv
  <1>4. CASE At(c, {"EXPIRE"}, "start")
    <2>1. UNCHANGED vars
      BY <1>4 DEF handleExpire, At
    <2>2. ASSUME NEW next \in {"expire", "check"},
                 proc' = [proc EXCEPT ![c].at = next, ![c].deadline = DeadlineOf(m)]
          PROVE  HandlersTyped'
      BY <1>1, <1>3, <2>2, GoneWithDeadline DEF CInv
    <2>3. QED
      BY <1>4, <2>1, <2>2, Replied, NothingChanged DEF handleExpire, At, CInv
  <1>5. CASE At(c, {"EXPIRE"}, "check")
    <2>1. UNCHANGED vars
      BY <1>5 DEF handleExpire, At
    <2>2. Reply(c, Num(0)) \/ Goto(c, "expire twice") \/ Goto(c, "expire")
      BY <1>5 DEF handleExpire, At
    <2>3. QED
      BY <1>1, <2>1, <2>2, Gone, Replied, NothingChanged DEF CInv
  <1>6. CASE /\ SetExpiry(m.db, m.key, proc[c].deadline)
             /\ \/ proc[c].at = "expire twice" /\ Goto(c, "expire")
                \/ proc[c].at = "expire" /\ Reply(c, Num(1))
    <2>1. HandlersTyped'
      BY <1>1, <1>6, Gone, Replied DEF CInv
    <2>2. proc'[c] # proc[c]
      BY <1>1, <1>6, Moves
    <2>3. QED
      BY <1>2, <1>6, <2>1, <2>2, ExpiringNamed
  <1>7. QED
    BY <1>4, <1>5, <1>6 DEF handleExpire, At

(* INCR writes the increment itself, or the sum, which wraps around.       *)
LEMMA IncrStep ==
    ASSUME CInv, NEW c \in Client, handleIncr(c)
    PROVE  Good
  <1> DEFINE m == proc[c].cmd
             v == Lookup(m.db, m.key)
             sum == IF v = Nil THEN m.delta ELSE Wrap(v + m.delta)
  <1>1. proc[c].at # "idle" /\ m.op = "INCR"
    BY DEF handleIncr, At
  <1>2. m.db \in Database /\ m.key \in Key /\ m.delta \in Counter
    BY <1>1, Running DEF CInv, WellFormed, OneKey
  <1>3. CASE At(c, {"INCR"}, "start")
    <2>1. GetValues(m.db, {m.key})
      BY <1>3 DEF handleIncr, At
    <2>2. v = Nil \/ v \in Counter => sum \in Value
      <3>1. MaxInt \in Nat /\ Counter \subseteq Value /\ Counter \subseteq Int
        BY CommandAssumption DEF Counter
      <3>2. \A a, b \in Counter : a + b \in Int
        BY <3>1
      <3>3. QED
        BY <1>2, <3>1, <3>2, WrapType
    <2>3. \/ Reply(c, Err)
          \/ /\ v = Nil \/ v \in Counter
             /\ proc' = [proc EXCEPT ![c].at = "write", ![c].value = sum]
      BY <1>3 DEF handleIncr, At
    <2> HIDE DEF sum
    <2>4. HandlersTyped'
      BY <1>1, <2>2, <2>3, GoneWithValue, Replied DEF CInv
    <2>5. QED
      BY <1>2, <2>1, <2>4, ReadingKeeps
  <1>4. CASE At(c, {"INCR"}, "write")
    <2>1. One(m.key, proc[c].value) \in Entries
      BY <1>1, <1>2, <1>4, Running, OneEntry DEF At, CInv, Handler
    <2>2. \/ IsMaxMemoryExceeded /\ UNCHANGED vars /\ Reply(c, Err)
          \/ /\ SetValues(m.db, One(m.key, proc[c].value))
             /\ Reply(c, Num(proc[c].value))
      BY <1>4 DEF handleIncr, At, Write
    <2>3. QED
      BY <1>1, <2>1, <2>2, WriteStep, Replied DEF CInv
  <1>5. QED
    BY <1>3, <1>4 DEF handleIncr

LEMMA RenameStep ==
    ASSUME CInv, NEW c \in Client, handleRename(c)
    PROVE  Good
  <1> DEFINE m == proc[c].cmd
             v == Lookup(m.db, m.key)
  <1>1. proc[c].at # "idle" /\ m.op = "RENAME"
    BY DEF handleRename, At
  <1>2. m.db \in Database /\ m.key \in Key /\ m.key \in m.keys /\ m.to \in Key
    BY <1>1, Running DEF CInv, WellFormed, OneKey
  <1>3. CASE At(c, {"RENAME"}, "start")
    <2>1. GetValues(m.db, {m.key})
      BY <1>3 DEF handleRename, At
    <2>2. v # Nil => v \in Value
      BY <1>2, LookupType DEF CInv, IInv
    <2>3. \/ Reply(c, Err)
          \/ v # Nil /\ proc' = [proc EXCEPT ![c].at = "write", ![c].value = v]
      BY <1>3 DEF handleRename, At
    <2> HIDE DEF v
    <2>4. HandlersTyped'
      BY <1>1, <2>2, <2>3, GoneWithValue, Replied DEF CInv
    <2>5. QED
      BY <1>2, <2>1, <2>4, ReadingKeeps
  <1>4. CASE At(c, {"RENAME"}, "write")
    <2>1. One(m.to, proc[c].value) \in Entries
      BY <1>1, <1>2, <1>4, Running, OneEntry DEF At, CInv, Handler
    <2>2. \/ IsMaxMemoryExceeded /\ UNCHANGED vars /\ Reply(c, Err)
          \/ SetValues(m.db, One(m.to, proc[c].value)) /\ Goto(c, "delete")
      BY <1>4 DEF handleRename, At, Write
    <2>3. Goto(c, "delete") => HandlersTyped'
      BY <1>1, Gone DEF CInv
    <2>4. QED
      BY <1>1, <2>1, <2>2, <2>3, WriteStep
  <1>5. CASE proc[c].at = "delete" /\ DeleteKey(m.db, m.key) /\ Reply(c, Ok)
    <2>1. HandlersTyped' /\ proc'[c] # proc[c]
      BY <1>1, <1>5, Replied, Moves DEF CInv
    <2>2. QED
      BY <1>2, <1>5, <2>1, DeletingNamed
  <1>6. QED
    BY <1>3, <1>4, <1>5 DEF handleRename, At

(* FLUSHDB of a database that was never created leaves its handler as it   *)
(* is: the server has panicked.                                            *)
LEMMA FlushStep ==
    ASSUME CInv, NEW c \in Client, handleFlush(c)
    PROVE  Good
  <1>1. proc[c].at # "idle"
    BY DEF handleFlush, At
  <1>2. proc[c].cmd.db \in Database
    BY <1>1, Running DEF CInv, WellFormed
  <1>3. UNCHANGED proc => HandlersTyped'
    BY DEF CInv, HandlersTyped, Handler
  <1>4. HandlersTyped'
    BY <1>3, Replied DEF handleFlush, CInv
  <1>5. \/ FlushAll /\ proc[c].cmd.op = "FLUSHALL" /\ proc'[c] # proc[c]
        \/ /\ FlushDB(proc[c].cmd.db) /\ proc[c].cmd.op = "FLUSHDB"
           /\ status' # "crashed" => proc'[c] # proc[c]
    BY <1>1, Moves DEF handleFlush, At
  <1>6. proc[c].at = "start"
    BY DEF handleFlush, At
  <1>7. QED
    BY <1>2, <1>4, <1>5, <1>6, Flushing

(* The handlers that change nothing in the keyspace and answer at once.    *)
LEMMA AnswerStep ==
    ASSUME CInv, NEW c \in Client, handleRandomkey(c) \/ handleTouch(c)
    PROVE  Good
  <1>1. UNCHANGED vars /\ \E r : Reply(c, r)
    BY DEF handleRandomkey, handleTouch
  <1>2. QED
    BY <1>1, Replied, NothingChanged DEF CInv

LEMMA GetdelStep ==
    ASSUME CInv, NEW c \in Client, handleGetdel(c)
    PROVE  Good
  <1> DEFINE m == proc[c].cmd
  <1>1. proc[c].at # "idle" /\ m.op = "GETDEL"
    BY DEF handleGetdel, At
  <1>2. m.db \in Database /\ m.key \in Key /\ m.key \in m.keys
    BY <1>1, Running DEF CInv, WellFormed, OneKey
  <1>3. CASE At(c, {"GETDEL"}, "read")
    <2>1. /\ GetValues(m.db, {m.key})
          /\ proc' = [proc EXCEPT ![c].at = "delete", ![c].value = Lookup(m.db, m.key)]
      BY <1>3 DEF handleGetdel, At
    <2>2. HandlersTyped'
      BY <1>1, <2>1, GoneWithValue DEF CInv
    <2>3. QED
      BY <1>2, <2>1, <2>2, ReadingKeeps
  <1>4. CASE /\ proc[c].at = "delete"
             /\ DeleteKey(m.db, m.key) /\ Reply(c, Val(proc[c].value))
    <2>1. HandlersTyped' /\ proc'[c] # proc[c]
      BY <1>1, <1>4, Replied, Moves DEF CInv
    <2>2. QED
      BY <1>2, <1>4, <2>1, DeletingNamed
  <1>5. QED
    BY <1>3, <1>4 DEF handleGetdel, At

LEMMA GetexStep ==
    ASSUME CInv, NEW c \in Client, handleGetex(c)
    PROVE  Good
  <1> DEFINE m == proc[c].cmd
             v == Lookup(m.db, m.key)
             t == IF m.opt = "PERSIST" THEN 0 ELSE DeadlineOf(m)
  <1>1. proc[c].at # "idle" /\ m.op = "GETEX"
    BY DEF handleGetex, At
  <1>2. /\ m \in Command /\ m.db \in Database /\ m.key \in Key
        /\ proc[c].deadline \in Deadline
    BY <1>1, Running DEF CInv, WellFormed, OneKey, Handler
  <1>3. m.ttl # NoTTL => t \in Deadline
    BY <1>2, DeadlineType, KeyspaceAssumption DEF CInv, IInv, Deadline
  <1>4. CASE At(c, {"GETEX"}, "read")
    <2>1. GetValues(m.db, {m.key})
      BY <1>4 DEF handleGetex, At
    <2>2. \/ Reply(c, Val(v))
          \/ /\ m.ttl # NoTTL
             /\ proc' = [proc EXCEPT ![c].at = "expire", ![c].deadline = t,
                                     ![c].value = v]
      BY <1>4 DEF handleGetex, At
    <2> HIDE DEF v, t
    <2>3. HandlersTyped'
      <3>1. CASE Reply(c, Val(v))
        BY <3>1, Replied DEF CInv
      <3>2. CASE /\ m.ttl # NoTTL
                 /\ proc' = [proc EXCEPT ![c].at = "expire", ![c].deadline = t,
                                         ![c].value = v]
        <4>1. t \in Deadline /\ "expire" \notin {"write", "delete"}
          BY <1>3, <3>2
        <4> QED
          BY <1>1, <3>2, <4>1, GoneWithBoth DEF CInv
      <3> QED
        BY <2>2, <3>1, <3>2
    <2>4. QED
      BY <1>2, <2>1, <2>3, ReadingKeeps
  <1>5. CASE /\ proc[c].at = "expire" /\ Reply(c, Val(proc[c].value))
             /\ SetExpiry(m.db, m.key, proc[c].deadline)
    <2>1. HandlersTyped' /\ proc'[c] # proc[c]
      BY <1>1, <1>5, Replied, Moves DEF CInv
    <2>2. QED
      BY <1>2, <1>5, <2>1, ExpiringNamed
  <1>6. QED
    BY <1>4, <1>5 DEF handleGetex, At

LEMMA TypeStep ==
    ASSUME CInv, NEW c \in Client, handleType(c)
    PROVE  Good
  <1> DEFINE m == proc[c].cmd
  <1>1. proc[c].at # "idle" /\ m.op = "TYPE"
    BY DEF handleType, At
  <1>2. m.db \in Database /\ m.key \in Key
    BY <1>1, Running DEF CInv, WellFormed, OneKey
  <1>3. CASE UNCHANGED vars /\ (Goto(c, "read") \/ Reply(c, Err))
    BY <1>1, <1>3, Gone, Replied, NothingChanged DEF CInv
  <1>4. CASE GetValues(m.db, {m.key}) /\ (Goto(c, "panic") \/ Reply(c, Ok))
    BY <1>1, <1>2, <1>4, Gone, Replied, ReadingKeeps DEF CInv
  <1>5. CASE Panic /\ UNCHANGED proc
    <2>1. HandlersTyped'
      BY <1>5 DEF CInv, HandlersTyped, Handler
    <2>2. [Next]_vars /\ UNCHANGED store /\ now' \in Nat /\ now =< now'
      BY <1>5 DEF Panic, Next, CInv, IInv, TypeOK
    <2>3. QED
      BY <2>1, <2>2, DataUnchanged
  <1>6. QED
    BY <1>3, <1>4, <1>5 DEF handleType

LEMMA SelectStep ==
    ASSUME CInv, NEW c \in Client, handleSelect(c)
    PROVE  Good
  <1>1. proc[c].cmd.db \in Database
    BY Running DEF handleSelect, At, CInv, WellFormed
  <1>2. QED
    BY <1>1, Replied, CreatingKeeps, NothingChanged DEF handleSelect, CInv

-----------------------------------------------------------------------------
(* Loading what was persisted is the keyspace's setKeyData.                *)
LEMMA LoadStep ==
    ASSUME CInv, Load
    PROVE  Good
  <1>1. HandlersTyped'
    BY DEF Load, CInv, HandlersTyped, Handler
  <1>2. PICK r \in Restored : ~Present(r.db, r.key) /\ SetKeyData(r.db, r.key, r.data)
    BY DEF Load
  <1>3. /\ r.db \in Database /\ r.key \in Key
        /\ r.data \in [value : Value \cup {Nil}, expireAt : Deadline]
    BY CommandAssumption
  <1>4. PICK v \in Value \cup {Nil}, t \in Deadline :
           r.data = [value |-> v, expireAt |-> t]
    BY <1>3
  <1>5. SetKeyData(r.db, r.key, [value |-> v, expireAt |-> t])
    BY <1>2, <1>4
  <1>6. QED
    BY <1>1, <1>2, <1>3, <1>5, LoadingKeeps

(* A client that receives a command is idle, and then runs that command.   *)
LEMMA ReceiveStep ==
    ASSUME CInv, NEW c \in Client, NEW m \in Command, Receive(c, m)
    PROVE  Good
  <1> DEFINE f == [proc EXCEPT ![c].at = "start"]
             g == [f EXCEPT ![c].cmd = m]
  <1>1. /\ DOMAIN proc = Client /\ \A d \in Client : DOMAIN proc[d] = Fields
        /\ proc[c].deadline \in Deadline /\ proc[c].todo \subseteq Key
    BY DEF CInv, HandlersTyped, Handler
  <1>2. /\ DOMAIN f = Client /\ f[c] = [proc[c] EXCEPT !.at = "start"]
        /\ \A d \in Client \ {c} : f[d] = proc[d]
    BY <1>1, Assigned
  <1>3. proc' = g
    BY DEF Receive
  <1> HIDE DEF f
  <1>4. /\ DOMAIN proc' = Client /\ proc'[c] = [f[c] EXCEPT !.cmd = m]
        /\ \A d \in Client \ {c} : proc'[d] = proc[d]
    BY <1>2, <1>3
  <1>5. /\ DOMAIN proc'[c] = Fields /\ proc'[c].at = "start" /\ proc'[c].cmd = m
        /\ proc'[c].deadline = proc[c].deadline /\ proc'[c].todo = proc[c].todo
    BY <1>1, <1>2, <1>4 DEF Fields
  <1>6. Handler(proc'[c])
    BY <1>1, <1>5 DEF Handler
  <1>7. HandlersTyped'
    BY <1>4, <1>6, Replaced DEF CInv
  <1>8. QED
    BY <1>7, NothingChanged DEF Receive

(* Clients and their handlers start idle.                                  *)
LEMMA CommandsInitInv == CommandsInit => CInv
  <1> SUFFICES ASSUME CommandsInit PROVE CInv
    OBVIOUS
  <1>1. IInv
    BY InitInv DEF CommandsInit
  <1>2. Handler(Idle(NoCommand, <<"none">>))
    BY KeyspaceAssumption DEF Handler, Idle, Deadline, Fields
  <1>3. HandlersTyped
    BY <1>2 DEF CommandsInit, HandlersTyped
  <1>4. QED
    BY <1>1, <1>3 DEF CInv

(* Every step of the clients is a step of the keyspace or changes nothing  *)
(* there, and keeps the invariant.                                         *)
LEMMA CommandsNextInv ==
    CInv /\ [CommandsNext]_cvars => CInv' /\ [Next]_vars /\ LiveKeysStep
  <1> SUFFICES ASSUME CInv, [CommandsNext]_cvars PROVE Good
    BY NextInv DEF CInv, Good
  <1>1. UNCHANGED proc => HandlersTyped'
    BY DEF CInv, HandlersTyped, Handler
  <1>2. CASE UNCHANGED cvars
    BY <1>1, <1>2, NothingChanged DEF cvars, vars
  <1>3. CASE (Start \/ Tick) /\ UNCHANGED proc
    <2>1. [Next]_vars
      BY <1>3 DEF Next
    <2>2. UNCHANGED store
      BY <1>3 DEF Start, Tick
    <2>3. QED
      BY <1>1, <1>3, <2>1, <2>2, DataUnchanged
  <1>4. ASSUME NEW c \in Client, Handle(c)
        PROVE  Good
    BY <1>4, SetStep, MSetStep, GetStep, MGetStep, DelStep, PersistStep,
       TTLStep, ExpireStep, IncrStep, RenameStep, FlushStep, AnswerStep,
       GetdelStep, GetexStep, TypeStep, SelectStep DEF Handle
  <1>5. QED
    BY <1>2, <1>3, <1>4, LoadStep, ReceiveStep DEF CommandsNext

(* The inductive invariant of the server with its clients.                 *)
THEOREM CommandsInvariant == CommandsSpec => []CInv
  BY CommandsInitInv, CommandsNextInv, PTL DEF CommandsSpec

(* The handlers of generic/commands.go implement the keyspace.             *)
THEOREM CommandsImplementKeyspace == CommandsSpec => Spec
  <1>1. CommandsInit => Init
    BY DEF CommandsInit
  <1>2. QED
    BY <1>1, CommandsInitInv, CommandsNextInv, PTL DEF CommandsSpec, Spec

(* However the commands of the clients interleave, the list of volatile    *)
(* keys misses none.                                                       *)
THEOREM CommandsTrackVolatileKeys == CommandsSpec => []VolatileKeysTracked
  BY CommandsImplementKeyspace, VolatileTracking, PTL

(* Nor does it name a key that another client's command has deleted.       *)
THEOREM CommandsTrackPresentKeys == CommandsSpec => []TrackedKeysPresent
  BY CommandsImplementKeyspace, TrackingIsCurrent, PTL

(* Commands for databases that SELECT never created leave no data behind.  *)
THEOREM CommandsStayInDatabases == CommandsSpec => []NoDataOutsideDatabases
  BY CommandsImplementKeyspace, UncreatedIsEmpty, PTL

(* A command that lets a key go that is live deletes it or flushes.        *)
THEOREM CommandsKeepLiveKeys == CommandsSpec => LiveKeyLeavesOnlyByDeletion
  BY CommandsImplementKeyspace, LiveKeysStay, PTL

(* Whatever handlers do with what they read before, a live key disappears  *)
(* by a command that names it for deletion or by a flush.                  *)
THEOREM LiveKeysCorrect == CommandsSpec => LiveKeysLeaveByCommand
  BY CommandsInitInv, CommandsNextInv, PTL DEF CommandsSpec, LiveKeysLeaveByCommand

-----------------------------------------------------------------------------
(* The commands that AtomicStore is about, on a server without a memory    *)
(* limit that starts empty.                                                *)
SimpleOps == {"SET", "MSET", "GET", "MGET", "FLUSHDB", "FLUSHALL"}

Simple ==
    /\ MaxMemory = 0 /\ Restored = {} /\ None \notin Command
    /\ \A m \in Command :
          /\ m.op \in SimpleOps
          /\ m.op = "SET" => m.opt = "" /\ ~m.get /\ m.ttl = NoTTL

(* They give no key a deadline, and a SET goes straight to its write.      *)
Timeless ==
    \A db \in Database, k \in Key : Present(db, k) => store[db][k].expireAt = 0

SimpleHandler(p) ==
    /\ p.deadline = 0
    /\ p.at # "expire"
    /\ p.at = "read" => p.cmd.op # "SET"

SimpleHandlers == \A c \in Client : SimpleHandler(proc[c])

SInv == CInv /\ Timeless /\ SimpleHandlers

(* A step keeps that, and is one of AtomicStore or none.                   *)
Atomic ==
    /\ Timeless' /\ SimpleHandlers'
    /\ AS!AtomicNext \/ UNCHANGED <<Visible, Waiting, LastReply>>

(* What a reader sees of a key that has no deadline.                       *)
LEMMA TimelessLookup ==
    ASSUME Timeless, NEW db \in Database, NEW k \in Key
    PROVE  /\ ~Expired(db, k)
           /\ Lookup(db, k) = IF Present(db, k) THEN store[db][k].value ELSE Nil
  BY DEF Timeless, Expired, HasPassed, HasExpiry, Lookup

(* The same after a step.                                                  *)
LEMMA TimelessLookupNext ==
    ASSUME Timeless', NEW db \in Database, NEW k \in Key
    PROVE  Lookup(db, k)' = IF store'[db][k] # Absent THEN store'[db][k].value ELSE Nil
  BY DEF Timeless, Expired, HasPassed, HasExpiry, Lookup, Present

LEMMA SameData ==
    ASSUME SInv, UNCHANGED store
    PROVE  Timeless' /\ Visible' = Visible
  <1>1. Timeless'
    BY DEF SInv, Timeless, Present
  <1>2. \A db \in Database, k \in Key : Lookup(db, k)' = Lookup(db, k)
    BY <1>1, TimelessLookup, TimelessLookupNext DEF SInv, Present
  <1>3. QED
    BY <1>1, <1>2 DEF Visible

(* Reading deletes nothing, since nothing expires.                         *)
LEMMA ReadData ==
    ASSUME SInv, NEW db \in Database, NEW ks \in SUBSET Key, GetValues(db, ks)
    PROVE  Timeless' /\ Visible' = Visible
  <1>1. \A k \in ks : ~Expired(db, k)
    BY TimelessLookup DEF SInv
  <1>2. store \in [Database -> [Key -> KeyData \cup {Absent}]]
    BY DEF SInv, CInv, IInv, TypeOK
  <1>3. store' = [store EXCEPT ![db] = [k \in Key |-> store[db][k]]]
    BY <1>1 DEF GetValues, Delete
  <1>4. store' = store
    BY <1>2, <1>3
  <1>5. QED
    BY <1>4, SameData

(* A step that makes x the value of the keys of ks in the databases ds, or *)
(* removes them, when x is nil; and what a reader sees after it.           *)
Changed(ds, ks, x) ==
    /\ \A d \in ds, k \in ks :
          \/ x = Nil /\ store'[d][k] = Absent
          \/ store'[d][k] # Absent /\ store'[d][k] = [value |-> x, expireAt |-> 0]
    /\ \A d \in Database, k \in Key :
          (d \in ds /\ k \in ks) \/ store'[d][k] = store[d][k]

Shows(ds, ks, x) ==
    \A d \in Database, k \in Key :
        Visible'[d][k] = IF d \in ds /\ k \in ks THEN x ELSE Visible[d][k]

LEMMA ChangedData ==
    ASSUME SInv, NEW ds \in SUBSET Database, NEW ks \in SUBSET Key, NEW x,
           Changed(ds, ks, x)
    PROVE  Timeless' /\ Shows(ds, ks, x)
  <1>1. \A d \in Database, k \in Key : store'[d][k] # Absent => store'[d][k].expireAt = 0
    BY DEF SInv, Timeless, Present, Changed
  <1>2. Timeless'
    BY <1>1 DEF Timeless, Present
  <1>3. \A d \in Database, k \in Key :
           Lookup(d, k)' = IF d \in ds /\ k \in ks THEN x ELSE Lookup(d, k)
    BY <1>2, TimelessLookup, TimelessLookupNext DEF SInv, Present, Changed
  <1>4. QED
    BY <1>2, <1>3 DEF Visible, Shows

LEMMA WriteData ==
    ASSUME SInv, NEW db \in Database, NEW ks \in SUBSET Key, NEW x \in Value,
           SetValues(db, [k \in ks |-> x])
    PROVE  Timeless' /\ Shows({db}, ks, x)
  <1> DEFINE e == [k \in ks |-> x]
  <1>1. store' = [store EXCEPT ![db] = Overwrite(db, e)] /\ DOMAIN e = ks
    BY DEF SetValues
  <1>2. store \in [Database -> [Key -> KeyData \cup {Absent}]]
    BY DEF SInv, CInv, IInv, TypeOK
  <1>3. ASSUME NEW k \in ks
        PROVE  store'[db][k] # Absent /\ store'[db][k] = [value |-> x, expireAt |-> 0]
    <2>1. getExpiry(db, k) = 0
      BY DEF getExpiry, SInv, Timeless
    <2>2. store'[db][k] = [value |-> x, expireAt |-> 0]
      BY <1>1, <1>2, <2>1 DEF Overwrite
    <2>3. store'[db][k] \in KeyData
      BY <2>2 DEF KeyData
    <2>4. QED
      BY <2>2, <2>3, KeyspaceAssumption
  <1>4. Changed({db}, ks, x)
    BY <1>1, <1>2, <1>3 DEF Overwrite, Changed
  <1>5. QED
    BY <1>4, ChangedData

(* What is seen after the keys of ks are gone from the databases ds.       *)
LEMMA RemovedData ==
    ASSUME SInv, NEW db \in Database
    PROVE  /\ FlushDB(db) /\ UNCHANGED status => Timeless' /\ Shows({db}, Key, Nil)
           /\ FlushAll => Timeless' /\ Shows(Database, Key, Nil)
  <1>1. store \in [Database -> [Key -> KeyData \cup {Absent}]]
    BY DEF SInv, CInv, IInv, TypeOK
  <1>2. ASSUME FlushDB(db), UNCHANGED status
        PROVE  Timeless' /\ Shows({db}, Key, Nil)
    <2>1. Changed({db}, Key, Nil)
      BY <1>1, <1>2 DEF FlushDB, Fresh, Changed
    <2>2. QED
      BY <2>1, ChangedData
  <1>3. ASSUME FlushAll
        PROVE  Timeless' /\ Shows(Database, Key, Nil)
    <2>1. Changed(Database, Key, Nil)
      BY <1>1, <1>3 DEF FlushAll, Fresh, Changed
    <2>2. QED
      BY <2>1, ChangedData
  <1>4. QED
    BY <1>2, <1>3

-----------------------------------------------------------------------------
(* What a client waits for and has got, when its handler answers.          *)
LEMMA Answering ==
    ASSUME SInv, NEW c \in Client, proc[c].at # "idle", NEW r, Reply(c, r)
    PROVE  /\ SimpleHandlers'
           /\ Waiting' = [Waiting EXCEPT ![c] = None]
           /\ LastReply' = [LastReply EXCEPT ![c] = r]
  <1>1. /\ DOMAIN proc = Client /\ SimpleHandlers
        /\ proc'[c] = Idle(proc[c].cmd, r)
        /\ \A d \in Client \ {c} : proc'[d] = proc[d]
    BY DEF SInv, CInv, HandlersTyped, Reply
  <1>2. /\ proc'[c].at = "idle" /\ proc'[c].deadline = 0 /\ proc'[c].reply = r
    BY <1>1 DEF Idle
  <1>3. \A d \in Client : SimpleHandler(proc'[d])
    BY <1>1, <1>2 DEF SimpleHandlers, SimpleHandler
  <1>4. SimpleHandlers'
    BY <1>3 DEF SimpleHandlers, SimpleHandler
  <1>5. Waiting' = [Waiting EXCEPT ![c] = None]
    BY <1>1, <1>2 DEF Waiting
  <1>6. LastReply' = [LastReply EXCEPT ![c] = r]
    BY <1>1, <1>2 DEF LastReply
  <1>7. QED
    BY <1>4, <1>5, <1>6

(* And when it goes on to its next call.                                   *)
LEMMA GoingOn ==
    ASSUME SInv, NEW c \in Client, proc[c].at # "idle",
           \A d \in Client \ {c} : proc'[d] = proc[d],
           proc'[c].at # "idle", proc'[c].cmd = proc[c].cmd,
           proc'[c].reply = proc[c].reply, SimpleHandler(proc'[c])
    PROVE  SimpleHandlers' /\ Waiting' = Waiting /\ LastReply' = LastReply
  <1>1. \A d \in Client : SimpleHandler(proc'[d])
    BY DEF SInv, SimpleHandlers
  <1>2. SimpleHandlers'
    BY <1>1 DEF SimpleHandlers, SimpleHandler
  <1>3. Waiting' = Waiting
    BY DEF Waiting
  <1>4. LastReply' = LastReply
    BY DEF LastReply
  <1>5. QED
    BY <1>2, <1>3, <1>4

(* A step to another call that reads or writes nothing.                    *)
LEMMA Advances ==
    ASSUME SInv, NEW c \in Client, proc[c].at # "idle", UNCHANGED store,
           \A d \in Client \ {c} : proc'[d] = proc[d],
           proc'[c].at # "idle", proc'[c].cmd = proc[c].cmd,
           proc'[c].reply = proc[c].reply, SimpleHandler(proc'[c])
    PROVE  Atomic
  BY SameData, GoingOn DEF Atomic

(* The step at which a command takes effect is the one that answers.       *)
LEMMA Executes ==
    ASSUME Simple, SInv, NEW c \in Client, proc[c].at # "idle",
           Reply(c, AS!Answer(proc[c].cmd)),
           Timeless', Visible' = AS!After(proc[c].cmd)
    PROVE  Atomic
  <1> DEFINE m == proc[c].cmd
  <1>1. m \in Command /\ m # None
    BY Running DEF SInv, CInv, Simple
  <1>2. Waiting[c] = m
    BY DEF Waiting
  <1>3. AS!Execute(c)
    BY <1>1, <1>2, Answering DEF AS!Execute
  <1>4. QED
    BY <1>3, Answering DEF Atomic, AS!AtomicNext

(* What a reader sees after a command, by what it does.                    *)
LEMMA AfterReading ==
    ASSUME NEW m, m.op \in {"GET", "MGET"}, Visible' = Visible
    PROVE  Visible' = AS!After(m)
  BY DEF AS!After

Row(db, ks, x) == [k \in Key |-> IF k \in ks THEN x ELSE Visible[db][k]]

LEMMA OneDatabase ==
    ASSUME NEW db \in Database, NEW ks \in SUBSET Key, NEW x, Shows({db}, ks, x)
    PROVE  Visible' = [Visible EXCEPT ![db] = Row(db, ks, x)]
  <1>1. /\ Visible' = [d \in Database |-> [k \in Key |-> Lookup(d, k)']]
        /\ Visible = [d \in Database |-> [k \in Key |-> Lookup(d, k)]]
    BY DEF Visible
  <1>2. \A d \in Database, k \in Key :
           Lookup(d, k)' = IF d = db /\ k \in ks THEN x ELSE Lookup(d, k)
    BY <1>1 DEF Shows
  <1>3. [k \in Key |-> Lookup(db, k)'] = Row(db, ks, x)
    BY <1>1, <1>2 DEF Row
  <1>4. \A d \in Database \ {db} :
           [k \in Key |-> Lookup(d, k)'] = [k \in Key |-> Lookup(d, k)]
    BY <1>2
  <1>5. [d \in Database |-> [k \in Key |-> Lookup(d, k)']]
           = [Visible EXCEPT ![db] = Row(db, ks, x)]
    BY <1>1, <1>3, <1>4
  <1>6. QED
    BY <1>1, <1>5

LEMMA AfterWriting ==
    ASSUME NEW m, m.op \in {"SET", "MSET"}, m.db \in Database, m.keys \in SUBSET Key,
           Shows({m.db}, m.keys, m.value)
    PROVE  Visible' = AS!After(m)
  <1>1. AS!After(m) = [Visible EXCEPT ![m.db] = Row(m.db, m.keys, m.value)]
    BY DEF AS!After, Row
  <1>2. QED
    BY <1>1, OneDatabase

LEMMA AfterFlushing ==
    ASSUME NEW m
    PROVE  /\ m.op = "FLUSHDB" /\ m.db \in Database /\ Shows({m.db}, Key, Nil)
                 => Visible' = AS!After(m)
           /\ m.op = "FLUSHALL" /\ Shows(Database, Key, Nil)
                 => Visible' = AS!After(m)
  <1>1. ASSUME m.op = "FLUSHDB", m.db \in Database, Shows({m.db}, Key, Nil)
        PROVE  Visible' = AS!After(m)
    <2>1. AS!After(m) = [Visible EXCEPT ![m.db] = [k \in Key |-> Nil]]
      BY <1>1 DEF AS!After
    <2>2. Row(m.db, Key, Nil) = [k \in Key |-> Nil]
      BY DEF Row
    <2>3. Visible' = [Visible EXCEPT ![m.db] = Row(m.db, Key, Nil)]
      BY <1>1, OneDatabase
    <2>4. QED
      BY <2>1, <2>2, <2>3
  <1>2. ASSUME m.op = "FLUSHALL", Shows(Database, Key, Nil)
        PROVE  Visible' = AS!After(m)
    <2>1. AS!After(m) = [db \in Database |-> [k \in Key |-> Nil]]
      BY <1>2 DEF AS!After
    <2>2. QED
      BY <1>2, <2>1 DEF Shows, Visible
  <1>3. QED
    BY <1>1, <1>2

-----------------------------------------------------------------------------
(* The moves of the handlers that change nothing but their own variables.  *)
LEMMA GoesToRead ==
    ASSUME SInv, NEW c \in Client, proc[c].at # "idle", UNCHANGED store,
           proc[c].cmd.op # "SET", Goto(c, "read")
    PROVE  Atomic
  <1>1. /\ DOMAIN proc = Client /\ \A d \in Client : DOMAIN proc[d] = Fields
        /\ SimpleHandler(proc[c])
    BY DEF SInv, CInv, HandlersTyped, Handler, SimpleHandlers
  <1>2. /\ proc'[c] = [proc[c] EXCEPT !.at = "read"]
        /\ \A d \in Client \ {c} : proc'[d] = proc[d]
    BY <1>1, Assigned DEF Goto
  <1>3. /\ proc'[c].at = "read" /\ proc'[c].cmd = proc[c].cmd
        /\ proc'[c].reply = proc[c].reply /\ proc'[c].deadline = proc[c].deadline
    BY <1>1, <1>2 DEF Fields
  <1>4. SimpleHandler(proc'[c])
    BY <1>1, <1>3 DEF SimpleHandler
  <1>5. QED
    BY <1>2, <1>3, <1>4, Advances

LEMMA GoesToWrite ==
    ASSUME SInv, NEW c \in Client, proc[c].at # "idle", UNCHANGED store,
           proc' = [proc EXCEPT ![c].at = "write", ![c].deadline = 0]
    PROVE  Atomic
  <1> DEFINE f == [proc EXCEPT ![c].at = "write"]
  <1>1. /\ DOMAIN proc = Client /\ \A d \in Client : DOMAIN proc[d] = Fields
        /\ SimpleHandler(proc[c])
    BY DEF SInv, CInv, HandlersTyped, Handler, SimpleHandlers
  <1>2. /\ DOMAIN f = Client /\ f[c] = [proc[c] EXCEPT !.at = "write"]
        /\ \A d \in Client \ {c} : f[d] = proc[d]
    BY <1>1, Assigned
  <1>3. \A d \in Client : DOMAIN f[d] = Fields
    BY <1>1, <1>2
  <1>4. proc' = [f EXCEPT ![c].deadline = 0]
    OBVIOUS
  <1> HIDE DEF f
  <1>5. /\ proc'[c] = [f[c] EXCEPT !.deadline = 0]
        /\ \A d \in Client \ {c} : proc'[d] = proc[d]
    BY <1>2, <1>3, <1>4, Assigned
  <1>6. /\ proc'[c].at = "write" /\ proc'[c].cmd = proc[c].cmd
        /\ proc'[c].reply = proc[c].reply /\ proc'[c].deadline = 0
    BY <1>1, <1>2, <1>5 DEF Fields
  <1>7. SimpleHandler(proc'[c])
    BY <1>1, <1>6 DEF SimpleHandler
  <1>8. QED
    BY <1>5, <1>6, <1>7, Advances

(* SET, which writes and answers in one step.                              *)
LEMMA SetAtomic ==
    ASSUME Simple, SInv, NEW c \in Client, handleSet(c)
    PROVE  Atomic
  <1> DEFINE m == proc[c].cmd
  <1>1. proc[c].at # "idle" /\ m.op = "SET"
    BY DEF handleSet, At
  <1>2. /\ m \in Command /\ m.db \in Database /\ m.key \in Key
        /\ m.value \in Value /\ m.keys = {m.key} /\ m.keys \in SUBSET Key
    BY <1>1, Running DEF SInv, CInv, WellFormed, OneKey
  <1>3. m.opt = "" /\ ~m.get /\ m.ttl = NoTTL
    BY <1>1, <1>2 DEF Simple
  <1>4. proc[c].at # "read" /\ proc[c].at # "expire" /\ proc[c].deadline = 0
    BY <1>1 DEF SInv, SimpleHandlers, SimpleHandler
  <1>5. CASE At(c, {"SET"}, "start")
    <2>1. /\ UNCHANGED store
          /\ proc' = [proc EXCEPT ![c].at = "write", ![c].deadline = 0]
      BY <1>3, <1>5 DEF handleSet, At, Refused, vars
    <2>2. QED
      BY <1>1, <2>1, GoesToWrite
  <1>6. CASE At(c, {"SET"}, "write")
    <2>1. SetValues(m.db, One(m.key, m.value)) /\ Reply(c, Ok)
      BY <1>3, <1>4, <1>6
         DEF handleSet, At, Write, IsMaxMemoryExceeded, Simple, SetReply
    <2>2. Timeless' /\ Shows({m.db}, m.keys, m.value)
      <3>1. SetValues(m.db, [k \in m.keys |-> m.value])
        BY <1>2, <2>1 DEF One
      <3>2. QED
        BY <1>2, <3>1, WriteData
    <2>3. Visible' = AS!After(m)
      <3>1. m.db \in Database /\ m.keys \in SUBSET Key
        BY <1>2
      <3>2. QED
        BY <1>1, <2>2, <3>1, AfterWriting
    <2>4. AS!Answer(m) = Ok
      BY <1>1 DEF AS!Answer, Ok
    <2>5. QED
      BY <1>1, <2>1, <2>2, <2>3, <2>4, Executes
  <1>7. QED
    BY <1>4, <1>5, <1>6 DEF handleSet, At

LEMMA MSetAtomic ==
    ASSUME Simple, SInv, NEW c \in Client, handleMSet(c)
    PROVE  Atomic
  <1> DEFINE m == proc[c].cmd
  <1>1. proc[c].at # "idle" /\ m.op = "MSET"
    BY DEF handleMSet, At
  <1>2. m.db \in Database /\ m.keys \in SUBSET Key /\ m.value \in Value
    BY <1>1, Running DEF SInv, CInv, WellFormed
  <1>3. SetValues(m.db, [k \in m.keys |-> m.value]) /\ Reply(c, Ok)
    BY DEF handleMSet, Write, IsMaxMemoryExceeded, Simple
  <1>4. Timeless' /\ Shows({m.db}, m.keys, m.value)
    BY <1>2, <1>3, WriteData
  <1>5. Visible' = AS!After(m)
    BY <1>1, <1>2, <1>4, AfterWriting
  <1>6. AS!Answer(m) = Ok
    BY <1>1 DEF AS!Answer, Ok
  <1>7. QED
    BY <1>1, <1>3, <1>4, <1>5, <1>6, Executes

(* GET: one that finds no key answers nil at once, and one that has found  *)
(* it answers with what the key has when it reads.                         *)
LEMMA GetAtomic ==
    ASSUME Simple, SInv, NEW c \in Client, handleGet(c)
    PROVE  Atomic
  <1> DEFINE m == proc[c].cmd
  <1>1. proc[c].at # "idle" /\ m.op \in {"GET", "GETDEL", "GETEX"}
    BY DEF handleGet, At
  <1>2. m \in Command /\ m.db \in Database /\ m.key \in Key
    BY <1>1, Running DEF SInv, CInv, WellFormed, OneKey
  <1>3. m.op = "GET"
    BY <1>1, <1>2 DEF Simple, SimpleOps
  <1>4. AS!Answer(m) = Val(Lookup(m.db, m.key))
    BY <1>2, <1>3 DEF AS!Answer, Val, Visible
  <1>5. CASE UNCHANGED vars /\ Goto(c, "read")
    BY <1>1, <1>3, <1>5, GoesToRead DEF vars
  <1>6. CASE UNCHANGED vars /\ ~Present(m.db, m.key) /\ Reply(c, Val(Nil))
    <2>1. Timeless' /\ Visible' = Visible
      BY <1>6, SameData DEF vars
    <2>2. AS!Answer(m) = Val(Nil)
      BY <1>4, <1>6 DEF Lookup
    <2>3. QED
      BY <1>1, <1>3, <1>6, <2>1, <2>2, AfterReading, Executes
  <1>7. CASE GetValues(m.db, {m.key}) /\ Reply(c, Val(Lookup(m.db, m.key)))
    <2>1. Timeless' /\ Visible' = Visible
      BY <1>2, <1>7, ReadData
    <2>2. QED
      BY <1>1, <1>3, <1>4, <1>7, <2>1, AfterReading, Executes
  <1>8. QED
    BY <1>5, <1>6, <1>7 DEF handleGet

LEMMA MGetAtomic ==
    ASSUME Simple, SInv, NEW c \in Client, handleMGet(c)
    PROVE  Atomic
  <1> DEFINE m == proc[c].cmd
             r == <<"map", [k \in m.keys |-> Lookup(m.db, k)]>>
  <1>1. proc[c].at # "idle" /\ m.op = "MGET"
    BY DEF handleMGet, At
  <1>2. m.db \in Database /\ m.keys \in SUBSET Key
    BY <1>1, Running DEF SInv, CInv, WellFormed
  <1>3. GetValues(m.db, m.keys) /\ Reply(c, r)
    BY DEF handleMGet
  <1>4. Timeless' /\ Visible' = Visible
    BY <1>2, <1>3, ReadData
  <1>5. AS!Answer(m) = r
    <2>1. [k \in m.keys |-> Lookup(m.db, k)] = [k \in m.keys |-> Visible[m.db][k]]
      BY <1>2 DEF Visible
    <2>2. QED
      BY <1>1, <2>1 DEF AS!Answer
  <1> HIDE DEF r
  <1>6. QED
    BY <1>1, <1>3, <1>4, <1>5, AfterReading, Executes

(* FLUSHALL, and FLUSHDB, which answers nothing when it panics.            *)
LEMMA FlushAtomic ==
    ASSUME Simple, SInv, NEW c \in Client, handleFlush(c)
    PROVE  Atomic
  <1> DEFINE m == proc[c].cmd
  <1>1. proc[c].at # "idle" /\ m.op \in {"FLUSHALL", "FLUSHDB"}
    BY DEF handleFlush, At
  <1>2. m.db \in Database
    BY <1>1, Running DEF SInv, CInv, WellFormed
  <1>3. AS!Answer(m) = Ok
    BY <1>1 DEF AS!Answer, Ok
  <1>4. CASE At(c, {"FLUSHALL"}, "start")
    <2>1. FlushAll /\ Reply(c, Ok) /\ m.op = "FLUSHALL"
      BY <1>4 DEF handleFlush, At
    <2>2. Timeless' /\ Shows(Database, Key, Nil)
      BY <1>2, <2>1, RemovedData
    <2>3. Visible' = AS!After(m)
      BY <2>1, <2>2, AfterFlushing
    <2>4. QED
      BY <1>1, <1>3, <2>1, <2>2, <2>3, Executes
  <1>5. CASE At(c, {"FLUSHDB"}, "start")
    <2>1. FlushDB(m.db) /\ m.op = "FLUSHDB"
      BY <1>5 DEF handleFlush, At
    <2>2. CASE status' = "crashed"
      <3>1. UNCHANGED store /\ UNCHANGED proc
        BY <1>5, <2>1, <2>2 DEF handleFlush, At, FlushDB
      <3>2. Timeless' /\ Visible' = Visible
        BY <3>1, SameData
      <3>3. SimpleHandlers' /\ Waiting' = Waiting /\ LastReply' = LastReply
        BY <3>1 DEF SInv, SimpleHandlers, SimpleHandler, Waiting, LastReply
      <3>4. QED
        BY <3>2, <3>3 DEF Atomic
    <2>3. CASE status' # "crashed"
      <3>1. UNCHANGED status /\ Reply(c, Ok)
        BY <1>5, <2>1, <2>3 DEF handleFlush, At, FlushDB
      <3>2. Timeless' /\ Shows({m.db}, Key, Nil)
        BY <1>2, <2>1, <3>1, RemovedData
      <3>3. Visible' = AS!After(m)
        BY <1>2, <2>1, <3>2, AfterFlushing
      <3>4. QED
        BY <1>1, <1>3, <3>1, <3>2, <3>3, Executes
    <2>4. QED
      BY <2>2, <2>3
  <1>6. QED
    BY <1>4, <1>5 DEF handleFlush, At

-----------------------------------------------------------------------------
(* A client that sends a command waits for it from then on.                *)
LEMMA ReceiveAtomic ==
    ASSUME Simple, SInv, NEW c \in Client, NEW m \in Command, Receive(c, m)
    PROVE  Atomic
  <1> DEFINE f == [proc EXCEPT ![c].at = "start"]
  <1>1. /\ DOMAIN proc = Client /\ \A d \in Client : DOMAIN proc[d] = Fields
        /\ \A d \in Client : SimpleHandler(proc[d])
        /\ proc[c].at = "idle" /\ UNCHANGED store
    BY DEF SInv, CInv, HandlersTyped, Handler, SimpleHandlers, Receive, vars
  <1>2. /\ DOMAIN f = Client /\ f[c] = [proc[c] EXCEPT !.at = "start"]
        /\ \A d \in Client \ {c} : f[d] = proc[d]
    BY <1>1, Assigned
  <1>3. proc' = [f EXCEPT ![c].cmd = m]
    BY DEF Receive
  <1> HIDE DEF f
  <1>4. /\ proc'[c] = [f[c] EXCEPT !.cmd = m]
        /\ \A d \in Client \ {c} : proc'[d] = proc[d]
    BY <1>2, <1>3
  <1>5. /\ proc'[c].at = "start" /\ proc'[c].cmd = m
        /\ proc'[c].reply = proc[c].reply /\ proc'[c].deadline = proc[c].deadline
    BY <1>1, <1>2, <1>4 DEF Fields
  <1>6. SimpleHandlers'
    <2>1. SimpleHandler(proc'[c])
      BY <1>1, <1>5 DEF SimpleHandler
    <2>2. \A d \in Client : SimpleHandler(proc'[d])
      BY <1>1, <1>4, <2>1
    <2>3. QED
      BY <2>2 DEF SimpleHandlers, SimpleHandler
  <1>7. LastReply' = LastReply
    BY <1>4, <1>5 DEF LastReply
  <1>8. Waiting[c] = None /\ Waiting' = [Waiting EXCEPT ![c] = m]
    BY <1>1, <1>4, <1>5 DEF Waiting
  <1>9. Timeless' /\ Visible' = Visible
    BY <1>1, SameData
  <1>10. AS!Invoke(c, m)
    BY <1>7, <1>8, <1>9 DEF AS!Invoke
  <1>11. QED
    BY <1>6, <1>9, <1>10 DEF Atomic, AS!AtomicNext

(* A step that changes neither the data nor a handler, like the passing of *)
(* time.                                                                   *)
LEMMA NothingAtomic ==
    ASSUME SInv, UNCHANGED <<store, proc>>
    PROVE  Atomic
  BY SameData DEF Atomic, SInv, SimpleHandlers, SimpleHandler, Waiting, LastReply

(* The handlers of other commands are not run.                             *)
LEMMA OthersDoNotRun ==
    ASSUME Simple, SInv, NEW c \in Client, Handle(c)
    PROVE  \/ handleSet(c) \/ handleMSet(c) \/ handleGet(c) \/ handleMGet(c)
           \/ handleFlush(c)
  <1>1. proc[c].at # "idle" => proc[c].cmd.op \in SimpleOps
    BY Running DEF SInv, CInv, Simple
  <1>2. /\ ~handlePersist(c) /\ ~handleTTL(c) /\ ~handleExpire(c)
        /\ ~handleIncr(c) /\ ~handleRename(c) /\ ~handleDel(c)
    BY <1>1 DEF handleDel, handlePersist, handleTTL, handleExpire, handleIncr,
                handleRename, At, SimpleOps
  <1>3. /\ ~handleRandomkey(c) /\ ~handleTouch(c) /\ ~handleGetdel(c)
        /\ ~handleGetex(c) /\ ~handleType(c) /\ ~handleSelect(c)
    BY <1>1 DEF handleRandomkey, handleTouch, handleGetdel, handleGetex,
                handleType, handleSelect, At, SimpleOps
  <1>4. QED
    BY <1>2, <1>3 DEF Handle

LEMMA AtomicInitially ==
    ASSUME CommandsInit
    PROVE  AS!AtomicInit /\ Timeless /\ SimpleHandlers
  <1>1. Timeless
    BY DEF CommandsInit, Init, Timeless, Present
  <1>2. SimpleHandlers
    BY DEF CommandsInit, Idle, SimpleHandlers, SimpleHandler
  <1>3. \A db \in Database, k \in Key : Lookup(db, k) = Nil
    BY DEF CommandsInit, Init, Lookup, Present
  <1>4. Visible = [db \in Database |-> [k \in Key |-> Nil]]
    BY <1>3 DEF Visible
  <1>5. /\ Waiting = [c \in Client |-> None]
        /\ LastReply = [c \in Client |-> <<"none">>]
    BY DEF CommandsInit, Idle, Waiting, LastReply
  <1>6. QED
    BY <1>1, <1>2, <1>4, <1>5 DEF AS!AtomicInit

LEMMA AtomicSteps ==
    ASSUME Simple, SInv, [CommandsNext]_cvars
    PROVE  Atomic
  <1>1. CASE UNCHANGED cvars
    BY <1>1, NothingAtomic DEF cvars
  <1>2. ~Load
    BY DEF Load, Simple
  <1>3. CASE (Start \/ Tick) /\ UNCHANGED proc
    BY <1>3, NothingAtomic DEF Start, Tick
  <1>4. ASSUME NEW c \in Client, Handle(c)
        PROVE  Atomic
    BY <1>4, OthersDoNotRun, SetAtomic, MSetAtomic, GetAtomic, MGetAtomic,
       FlushAtomic
  <1>5. ASSUME NEW c \in Client, NEW m \in Command, Receive(c, m)
        PROVE  Atomic
    BY <1>5, ReceiveAtomic
  <1>6. QED
    BY <1>1, <1>2, <1>3, <1>4, <1>5 DEF CommandsNext

(* Clients of those commands see a store on which each command takes       *)
(* effect at one instant between its invocation and its reply, however the *)
(* calls of the handlers interleave: GET looks a key up first and reads it *)
(* under another lock, and it does not show.                               *)
THEOREM LinearizableWithoutDel ==
    ASSUME Simple
    PROVE  CommandsSpec => Linearizable
  <1>1. CommandsInit => AS!AtomicInit /\ Timeless /\ SimpleHandlers
    BY AtomicInitially
  <1>2. CInv /\ Timeless /\ SimpleHandlers /\ [CommandsNext]_cvars
           => Timeless' /\ SimpleHandlers' /\ [AS!AtomicNext]_(AS!avars)
    BY AtomicSteps DEF SInv, Atomic, AS!avars
  <1>3. CommandsSpec => []CInv
    BY CommandsInvariant
  <1>4. QED
    BY <1>1, <1>2, <1>3, PTL DEF CommandsSpec, Linearizable, AS!AtomicSpec
=============================================================================
