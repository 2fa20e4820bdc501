---------------------------- MODULE MCEviction ----------------------------
(* Every policy but allkeys-lru, whose cache is that of volatile-lru and    *)
(* whose keys are those of allkeys-lfu; and one policy with the sampler.   *)
EXTENDS Eviction

CONSTANTS k1, k2

mcKey == {k1, k2}
mcKeysOf == [d \in DB |-> IF d = 0 THEN mcKey ELSE {k1}]
lruConfigs == LRU \X {0}
mcConfigs == ((LFU \cup {"volatile-lru", "allkeys-random", "volatile-random"}) \X {0})
             \cup {<<"volatile-random", 1>>}
=============================================================================
