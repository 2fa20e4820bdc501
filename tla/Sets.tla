-------------------------------- MODULE Sets --------------------------------
(***************************************************************************)
(* The set commands.  A Set is its members and, apart from them, a length. *)
(*                                                                         *)
(* Several handlers collect their sets by ranging over a Go map of the     *)
(* keys, in any order, and each key once.                                  *)
(***************************************************************************)
EXTENDS DataStore

CONSTANT Element     \* the elements of the sets

(* NewSet *)
New(members) == [members |-> members, length |-> Cardinality(members)]
SetOf(s) == [is |-> "set", val |-> s]

AddCountsAll(s, elems) ==
    [members |-> s.members \cup Range(elems), length |-> s.length + Len(elems)]

(* Add counts the elements that were not there.                            *)
Add(s, elems) ==
    [members |-> s.members \cup Range(elems),
     length |-> s.length + Cardinality(Range(elems) \ s.members)]

(* Remove counts the elements that were there.                             *)
RemoveAll(s, elems) ==
    [members |-> s.members \ elems,
     length |-> s.length - Cardinality(elems \cap s.members)]

(* What GetRandom may return: sequences of members.                        *)
GetRandom(s, count) ==
    IF count = 0 THEN {<<>>}
    ELSE IF Abs(count) >= s.length THEN SetToSeqs(s.members)
    ELSE Draws(s.members, count)

Subtract(s, others) == RemoveAll(New(s.members), UNION {t.members : t \in others})

(* Intersection of two sets: all of the common members, or as many of them *)
(* as the limit says.  stop: the limit was reached before the last member  *)
(* of s was looked at.                                                     *)
Meet(limit, s, t) ==
    LET common == s.members \cap t.members IN
    IF limit > 0 /\ Cardinality(common) > limit
    THEN {[set |-> New(m), stop |-> TRUE] : m \in kSubset(limit, common)}
    ELSE {[set |-> New(common), stop |-> st] :
             st \in IF Cardinality(common) = limit /\ s.members # common
                    THEN BOOLEAN ELSE {FALSE}}

(* Where the recursion meets the halves: the left one that reached the    *)
(* limit is the answer, whatever the right one holds.                      *)
MeetHalves(limit, L, R) ==
    {l \in L : l.stop} \cup
    (IF \E l \in L : ~l.stop
     THEN {r \in R : r.stop} \cup
          UNION {Meet(limit, l.set, r.set) : l \in {x \in L : ~x.stop},
                                             r \in {x \in R : ~x.stop}}
     ELSE {})

(* Intersection by halves: what the parts of the sets can give.            *)
Intersection(limit, sets) ==
    LET what[p \in Parts(sets)] ==
          CASE p[2] <= p[1] -> {}
            [] p[2] = p[1] + 1 -> {[set |-> sets[p[2]], stop |-> FALSE]}
            [] OTHER -> MeetHalves(limit, what[Left(p)], what[Right(p)])
    IN what[<<0, Len(sets)>>]

-----------------------------------------------------------------------------
(* key_funcs.go                                                            *)
SetKeyFuncs ==
    [sadd |-> "write", scard |-> "read", sismember |-> "read",
     smembers |-> "read", smismember |-> "read", spop |-> "write",
     srandmember |-> "read", srem |-> "write"]

OneSet(cmd, k) ==
    Declared(cmd, IF SetKeyFuncs[cmd] = "read" THEN {k} ELSE {},
                  IF SetKeyFuncs[cmd] = "write" THEN {k} ELSE {})

ManySets(cmd, keys) == Declared(cmd, Range(keys), {})
StoreSets(cmd, d, keys) == Declared(cmd, Range(keys), {d})
smoveKeyFunc(k, d) == Declared("smove", {}, {k, d})

(* The commands that Commands() marks Sync.                                *)
SetSync == {"sadd", "sdiffstore", "sinterstore", "smove", "spop", "srem",
            "sunionstore"}

-----------------------------------------------------------------------------
(* commands.go                                                             *)

(* On a new key the reply counts the arguments, repeated ones too.         *)
handleSADD(k, elems) ==
    LET c == OneSet("sadd", k) IN
    \/ store[k] = Absent /\ SaveAt(c, k, SetOf(New(Range(elems))), Len(elems))
    \/ store[k] # Absent /\ ~Holds(k, "set") /\ Fail(c, "type")
    \/ /\ Holds(k, "set")
       /\ LET s == store[k].val IN
          /\ InPlace(k, SetOf(Add(s, elems)))
          /\ Return(c, Ok(Add(s, elems).length - s.length))

handleSCARD(k) ==
    LET c == OneSet("scard", k) IN
    OnValue(c, k, "set", 0, LAMBDA s : Answer(c, s.length))

(* Keys that hold no set are left out, but the first must hold one.        *)
SetsAt(keys) == {store[k].val : k \in {j \in Range(keys) : Holds(j, "set")}}

handleSDIFF(keys) ==
    LET c == ManySets("sdiff", keys) IN
    IF ~Holds(keys[1], "set") THEN Fail(c, "type")
    ELSE Answer(c, Subtract(store[keys[1]].val, SetsAt(Tail(keys))).members)

handleSDIFFSTORE(d, keys) ==
    LET c == StoreSets("sdiffstore", d, keys) IN
    IF ~Holds(keys[1], "set") THEN Fail(c, "type")
    ELSE LET diff == Subtract(store[keys[1]].val, SetsAt(Tail(keys))) IN
         SaveAt(c, d, SetOf(diff), diff.length)

(* A missing key ends the loop over the keys with an empty reply and a key *)
(* of another type ends it with an error, whichever comes first.           *)
InterKeys(c, keys, empty, Do(_)) ==
    LET ks == Range(keys) IN
    \/ \E k \in ks : store[k] = Absent /\ Answer(c, empty)
    \/ \E k \in ks : store[k] # Absent /\ ~Holds(k, "set") /\ Fail(c, "type")
    \/ /\ \A k \in ks : Holds(k, "set")
       /\ \E q \in SetToSeqs(ks) : Do(q)

ValuesAt(q) == [i \in DOMAIN q |-> store[q[i]].val]

handleSINTER(keys) ==
    LET c == ManySets("sinter", keys) IN
    InterKeys(c, keys, {}, LAMBDA q :
        \E r \in Intersection(0, ValuesAt(q)) : Answer(c, r.set.members))

handleSINTERCARD(keys, limit) ==
    LET c == ManySets("sintercard", keys) IN
    InterKeys(c, keys, 0, LAMBDA q :
        \E r \in Intersection(limit, ValuesAt(q)) : Answer(c, r.set.length))

(* vals[at], the object of the key at, becomes the object of d too, unless *)
(* memory is full; what was done to the other objects stays done.          *)
SaveObject(c, d, vals, at) ==
    LET holders == shared[at] \cup {d} IN
    \/ /\ store' = [vals EXCEPT ![d] = vals[at]]
       /\ shared' = [j \in Key |-> IF j \in holders THEN holders
                                   ELSE shared[j] \ {d}]
       /\ Return(c, Ok(vals[at].val.length))
    \/ /\ store' = vals
       /\ UNCHANGED shared
       /\ Return(c, Error("full"))

(* Intersection of one set is that set itself, not a copy.                 *)
handleSINTERSTORE(d, keys) ==
    LET c == StoreSets("sinterstore", d, keys) IN
    InterKeys(c, keys, 0, LAMBDA q :
        \E r \in Intersection(0, ValuesAt(q)) :
            IF Len(q) = 1 THEN SaveObject(c, d, store, q[1])
            ELSE SaveAt(c, d, SetOf(r.set), r.set.length))

handleSISMEMBER(k, e) ==
    LET c == OneSet("sismember", k) IN
    OnValue(c, k, "set", 0,
            LAMBDA s : Answer(c, IF e \in s.members THEN 1 ELSE 0))

handleSMEMBERS(k) ==
    LET c == OneSet("smembers", k) IN
    OnValue(c, k, "set", {}, LAMBDA s : Answer(c, s.members))

handleSMISMEMBER(k, elems) ==
    LET c == OneSet("smismember", k) IN
    OnValue(c, k, "set", [i \in DOMAIN elems |-> 0], LAMBDA s :
        Answer(c, [i \in DOMAIN elems |-> IF elems[i] \in s.members THEN 1 ELSE 0]))

RemoveBeforeCheck(k, d, e) ==
    LET c == smoveKeyFunc(k, d) IN
    OnValue(c, k, "set", 0, LAMBDA s :
        IF Holds(d, "set") THEN Answer(c, 0)
        ELSE InPlace(k, SetOf(RemoveAll(s, {e}))) /\ Return(c, Error("type")))

(* Move: two keys with one object lose and regain the element.             *)
handleSMOVE(k, d, e) ==
    LET c == smoveKeyFunc(k, d) IN
    OnValue(c, k, "set", 0, LAMBDA s :
        IF ~Holds(d, "set") THEN Fail(c, "type")
        ELSE IF e \notin s.members THEN Answer(c, 0)
        ELSE LET moved == Add(IF d \in shared[k] THEN RemoveAll(s, {e})
                              ELSE store[d].val, <<e>>)
             IN /\ store' = [j \in Key |->
                               IF j \in shared[d] THEN SetOf(moved)
                               ELSE IF j \in shared[k] THEN SetOf(RemoveAll(s, {e}))
                               ELSE store[j]]
                /\ UNCHANGED shared
                /\ Return(c, Ok(1)))

(* Pop removes what GetRandom drew; a negative count may draw an element   *)
(* twice.                                                                  *)
Popped(c, k, s, q) ==
    /\ InPlace(k, SetOf(RemoveAll(s, Range(q))))
    /\ Return(c, Ok(q))

handleSPOP(k, count) ==
    LET c == OneSet("spop", k) IN
    OnValue(c, k, "set", <<>>, LAMBDA s :
        \E q \in GetRandom(s, count) : Popped(c, k, s, q))

handleSRANDMEMBER(k, count) ==
    LET c == OneSet("srandmember", k) IN
    OnValue(c, k, "set", <<>>, LAMBDA s :
        \E q \in GetRandom(s, count) : Answer(c, q))

handleSREM(k, elems) ==
    LET c == OneSet("srem", k) IN
    OnValue(c, k, "set", 0, LAMBDA s :
        /\ InPlace(k, SetOf(RemoveAll(s, Range(elems))))
        /\ Return(c, Ok(s.length - RemoveAll(s, Range(elems)).length)))

(* Union by halves, too, adds the set that the right half gave to the      *)
(* object of the left one, the first of its keys.  Merges: the keys whose  *)
(* objects are added to and added, in the order of the additions.          *)
Merges(q) ==
    LET m[p \in Parts(q)] ==
          IF p[2] <= p[1] + 1 THEN <<>>
          ELSE m[Left(p)] \o m[Right(p)]
                  \o <<<<q[p[1] + 1], q[Right(p)[1] + 1]>>>>
    IN m[<<0, Len(q)>>]

AddObject(vals, k, other) ==
    LET sum == Add(vals[k].val, SetToSeq(vals[other].val.members)) IN
    [j \in Key |-> IF j \in shared[k] THEN SetOf(sum) ELSE vals[j]]

(* The values of all the keys after the additions.                         *)
Union(q) ==
    LET ms == Merges(q)
        vals[n \in 0..Len(ms)] ==
          IF n = 0 THEN store ELSE AddObject(vals[n - 1], ms[n][1], ms[n][2])
    IN vals[Len(ms)]

UniteKeys(c, keys, Do(_, _)) ==
    LET ks == Range(keys) IN
    \/ (\E k \in ks : ~Holds(k, "set")) /\ Fail(c, "type")
    \/ /\ \A k \in ks : Holds(k, "set")
       /\ \E q \in SetToSeqs(ks) : Do(Union(q), q[1])

(* The union is read off the object that it was built in, at.              *)
handleSUNION(keys) ==
    LET c == ManySets("sunion", keys) IN
    UniteKeys(c, keys, LAMBDA vals, at :
        /\ store' = vals
        /\ UNCHANGED shared
        /\ Return(c, Ok(vals[at].val.members)))

(* The destination gets that object itself.                                *)
handleSUNIONSTORE(d, keys) ==
    LET c == StoreSets("sunionstore", d, keys) IN
    UniteKeys(c, keys, LAMBDA vals, at : SaveObject(c, d, vals, at))
=============================================================================
