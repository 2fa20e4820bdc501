----------------------------- MODULE SortedSets -----------------------------
(***************************************************************************)
(* The sorted set commands.  A SortedSet is a function from its members to *)
(* their scores.  Members are numbered in lexicographic order.             *)
(*                                                                         *)
(* GetAll walks a Go map, so the order of members with equal scores is any *)
(* order: an operator that sorts returns the set of all the results.       *)
(***************************************************************************)
EXTENDS DataStore

CONSTANTS
    Member,     \* the members, a set of integers
    Score,      \* bound: the finite scores
    Inf,        \* +inf, above all the others
    Weight,     \* the weights of ZUNION and ZINTER
    MaxCount    \* bound: the largest count of a pop or a draw

Zset(s) == [is |-> "zset", val |-> s]
Empty == [m \in {} |-> 0]

(* The bound on the scores that are stored.                                *)
InBounds(s) == \A m \in DOMAIN s : s[m] \in Score \cup {Inf}

Plus(a, b) == IF Inf \in {a, b} THEN Inf ELSE a + b
Times(w, a) == IF a = Inf THEN Inf ELSE w * a

Put(s, m, score) == [x \in DOMAIN s \cup {m} |-> IF x = m THEN score ELSE s[x]]
Without(s, ms) == [m \in DOMAIN s \ ms |-> s[m]]
Only(s, ms) == [m \in ms |-> s[m]]

-----------------------------------------------------------------------------
(* sorted_set.go                                                           *)

(* A pair is <<member, score>>; of two pairs for a member the later wins.  *)
NewSortedSet(pairs) ==
    LET s[i \in 0..Len(pairs)] == IF i = 0 THEN Empty
                                  ELSE Put(s[i - 1], pairs[i][1], pairs[i][2])
    IN s[Len(pairs)]

(* A missing member has the zero MemberObject.                             *)
Get(s, m) == IF m \in DOMAIN s THEN s[m] ELSE 0

compareScores(old, new, comp) ==
    CASE comp = "lt" -> IF new < old THEN new ELSE old
      [] comp = "gt" -> IF new > old THEN new ELSE old
      [] OTHER -> new

(* One member of AddOrUpdate.  acc is the set and the count so far.        *)
Update(acc, p, o) ==
    LET s == acc.set
        known == p[1] \in DOMAIN s
        skip == (o.policy = "xx" /\ ~known) \/ (o.policy = "nx" /\ known)
        counts == CASE o.policy = "xx" -> o.ch
                    [] o.policy = "nx" -> TRUE
                    [] OTHER -> ~known \/ Get(s, p[1]) # p[2]
    IN IF skip THEN acc
       ELSE [set |-> Put(s, p[1], compareScores(Get(s, p[1]), p[2], o.comp)),
             count |-> acc.count + IF counts THEN 1 ELSE 0]

AddOrUpdate(s, pairs, o) ==
    LET acc[i \in 0..Len(pairs)] == IF i = 0 THEN [set |-> s, count |-> 0]
                                    ELSE Update(acc[i - 1], pairs[i], o)
    IN acc[Len(pairs)]

(* AddOrUpdate with INCR: exactly one pair, and no infinite score.  It     *)
(* pays no attention to NX and XX.                                         *)
CanIncrement(s, pairs) == Len(pairs) = 1 /\ Get(s, pairs[1][1]) # Inf
Increment(s, p) == Put(s, p[1], Plus(Get(s, p[1]), p[2]))

(* The orders that slices.SortFunc may give the members of s.              *)
ByScore(s, reverse) ==
    {q \in SetToSeqs(DOMAIN s) :
        \A i, j \in DOMAIN q :
            i < j => IF reverse THEN s[q[i]] >= s[q[j]] ELSE s[q[i]] <= s[q[j]]}

ByLex(s, reverse) ==
    {q \in SetToSeqs(DOMAIN s) :
        \A i, j \in DOMAIN q : i < j => IF reverse THEN q[i] > q[j] ELSE q[i] < q[j]}

(* The sets of members that Pop may remove.                                *)
Pop(s, count, policy) ==
    {{q[i] : i \in {j \in DOMAIN q : j <= count}} : q \in ByScore(s, policy = "max")}

Subtract(s, others) == Without(s, UNION {DOMAIN t : t \in others})

Aggregate(agg, a, b) ==
    CASE agg = "min" -> compareScores(a, b, "lt")
      [] agg = "max" -> compareScores(a, b, "gt")
      [] OTHER -> Plus(a, b)

Weighted(p) == [m \in DOMAIN p.set |-> Times(p.weight, p.set[m])]

Both(agg, s, t, members) ==
    [m \in members |-> IF m \notin DOMAIN t THEN s[m]
                       ELSE IF m \notin DOMAIN s THEN t[m]
                       ELSE Aggregate(agg, s[m], t[m])]

WeighedTwice(agg, params) ==
    LET u[p \in Parts(params)] ==
          LET s == Weighted([set |-> u[Left(p)], weight |-> params[p[2]].weight])
              t == u[Right(p)]
          IN CASE p[2] <= p[1] -> Empty
               [] p[2] = p[1] + 1 -> Weighted(params[p[2]])
               [] OTHER -> Both(agg, s, t, DOMAIN s \cup DOMAIN t)
    IN u[<<0, Len(params)>>]

(* Union and Intersect by halves; params are the sets with their weights.  *)
Union(agg, params) ==
    LET u[p \in Parts(params)] ==
          LET s == u[Left(p)]
              t == u[Right(p)]
          IN CASE p[2] <= p[1] -> Empty
               [] p[2] = p[1] + 1 -> Weighted(params[p[2]])
               [] OTHER -> Both(agg, s, t, DOMAIN s \cup DOMAIN t)
    IN u[<<0, Len(params)>>]

Intersect(agg, params) ==
    LET u[p \in Parts(params)] ==
          LET s == u[Left(p)]
              t == u[Right(p)]
          IN CASE p[2] <= p[1] -> Empty
               [] p[2] = p[1] + 1 -> Weighted(params[p[2]])
               [] OTHER -> Both(agg, s, t, DOMAIN s \cap DOMAIN t)
    IN u[<<0, Len(params)>>]

-----------------------------------------------------------------------------
(* key_funcs.go: what a command with one key does with it.                 *)
SetupKeyFuncs == [zadd |-> "write", zcard |-> "read", zcount |-> "read"]

SingleKeyFuncs ==
    [zmscore |-> "read", zpopmin |-> "write", zpopmax |-> "write",
     zrandmember |-> "read", zrank |-> "read", zrem |-> "write",
     zrevrank |-> "read", zscore |-> "read", zremrangebylex |-> "write",
     zremrangebyrank |-> "write", zremrangebyscore |-> "write",
     zlexcount |-> "read", zrange |-> "read"]

zincrbyKeyFunc(k) == Declared("zincrby", {}, {k})

One(cmd, k) ==
    LET access == IF cmd \in DOMAIN SetupKeyFuncs THEN SetupKeyFuncs[cmd]
                  ELSE SingleKeyFuncs[cmd]
    IN Declared(cmd, IF access = "read" THEN {k} ELSE {},
                     IF access = "write" THEN {k} ELSE {})

zdiffKeyFunc(keys) == Declared("zdiff", Range(keys), {})
DestinationLast(d, keys) == Declared("zdiffstore", {d}, {keys[1]})
zdiffstoreKeyFunc(d, keys) == Declared("zdiffstore", Range(keys), {d})
zrangeStoreKeyFunc(d, k) == Declared("zrangestore", {k}, {d})
zmpopKeyFunc(keys) == Declared("zmpop", {}, Range(keys))

(* The index of the first modifier counts from cmd[1:] and is used as one  *)
(* of cmd: with a modifier the last key is not declared.                   *)
Leading(keys, modified) == IF modified THEN Range(Front(keys)) ELSE Range(keys)

zinterKeyFunc(keys, modified) == Declared("zinter", Leading(keys, modified), {})

zunionKeyFunc(keys, modified) ==
    Declared("zunion", Leading(keys, modified),
             IF modified THEN Leading(keys, modified) ELSE {})

zinterstoreKeyFunc(d, keys) == Declared("zinterstore", Range(keys), {d})
zunionstoreKeyFunc(d, keys) == Declared("zunionstore", Range(keys), {d})

(* The commands that Commands() marks Sync.                                *)
SortedSetSync ==
    {"zadd", "zdiffstore", "zincrby", "zinterstore", "zmpop", "zpopmax",
     "zpopmin", "zrem", "zremrangebylex", "zremrangebyrank",
     "zremrangebyscore", "zrangestore", "zunionstore"}

-----------------------------------------------------------------------------
(* commands.go                                                             *)

(* AddOrUpdate with INCR on the set at k; the reply is the new score.      *)
Incr(c, k, p) ==
    LET s == store[k].val IN
    IF CanIncrement(s, <<p>>)
    THEN /\ InPlace(k, Zset(Increment(s, p)))
         /\ Return(c, Ok(Increment(s, p)[p[1]]))
    ELSE Fail(c, "inf")

handleZADD(k, pairs, o) ==
    LET c == One("zadd", k) IN
    \/ /\ \/ o.policy = "nx" /\ o.comp # "none"
          \/ o.incr /\ Len(pairs) > 1
       /\ Fail(c, "args")
    \/ /\ ~(o.policy = "nx" /\ o.comp # "none")
       /\ ~(o.incr /\ Len(pairs) > 1)
       /\ \/ LET s == NewSortedSet(pairs) IN
             store[k] = Absent /\ SaveAt(c, k, Zset(s), Cardinality(DOMAIN s))
          \/ store[k] # Absent /\ ~Holds(k, "zset") /\ Fail(c, "type")
          \/ /\ Holds(k, "zset")
             /\ IF o.incr
                THEN Incr(c, k, pairs[1])
                ELSE LET r == AddOrUpdate(store[k].val, pairs, o) IN
                     InPlace(k, Zset(r.set)) /\ Return(c, Ok(r.count))

handleZINCRBY(k, p) ==
    LET c == zincrbyKeyFunc(k) IN
    \/ store[k] = Absent /\ SaveAt(c, k, Zset(NewSortedSet(<<p>>)), p[2])
    \/ store[k] # Absent /\ ~Holds(k, "zset") /\ Fail(c, "type")
    \/ Holds(k, "zset") /\ Incr(c, k, p)

handleZCARD(k) ==
    LET c == One("zcard", k) IN
    OnValue(c, k, "zset", 0, LAMBDA s : Answer(c, Cardinality(DOMAIN s)))

Between(s, lo, hi) == {m \in DOMAIN s : lo <= s[m] /\ s[m] <= hi}
BetweenLex(s, lo, hi) == {m \in DOMAIN s : lo <= m /\ m <= hi}

(* A test of neighbours in the order of the map.                           *)
SameScores(s, q, last) == \A i \in 1..last : s[q[i]] = s[q[i + 1]]

handleZCOUNT(k, lo, hi) ==
    LET c == One("zcount", k) IN
    OnValue(c, k, "zset", 0,
            LAMBDA s : Answer(c, Cardinality(Between(s, lo, hi))))

(* The last two members are not compared.                                  *)
handleZLEXCOUNT(k, lo, hi) ==
    LET c == One("zlexcount", k) IN
    OnValue(c, k, "zset", 0, LAMBDA s :
        \E q \in SetToSeqs(DOMAIN s) :
            Answer(c, IF SameScores(s, q, Len(q) - 2)
                      THEN Cardinality(BetweenLex(s, lo, hi)) ELSE 0))

(* The sets at keys, in which a missing key counts for nothing.            *)
Present(keys) == {store[k].val : k \in {j \in Range(keys) : store[j] # Absent}}
AllZsets(keys) == \A k \in Range(keys) : store[k] # Absent => Holds(k, "zset")

handleZDIFF(keys) ==
    LET c == zdiffKeyFunc(keys) IN
    OnValue(c, keys[1], "zset", Empty, LAMBDA s :
        IF AllZsets(keys) THEN Answer(c, Subtract(s, Present(Tail(keys))))
        ELSE Fail(c, "type"))

handleZDIFFSTORE(d, keys) ==
    LET c == zdiffstoreKeyFunc(d, keys) IN
    OnValue(c, keys[1], "zset", 0, LAMBDA s :
        LET diff == Subtract(s, Present(Tail(keys))) IN
        IF AllZsets(keys) THEN SaveAt(c, d, Zset(diff), Cardinality(DOMAIN diff))
        ELSE Fail(c, "type"))

(* extractKeysWeightsAggregateWithScores: no weights are weights of one.   *)
Params(keys, weights) ==
    [i \in DOMAIN keys |->
        [set |-> store[keys[i]].val,
         weight |-> IF weights = <<>> THEN 1 ELSE weights[i]]]

WeightsFit(keys, weights) == weights = <<>> \/ Len(weights) = Len(keys)
Modified(weights, agg) == weights # <<>> \/ agg # "none"

(* The keys of an intersection are looked at in order; the first that is   *)
(* missing makes it empty, the first of another type makes it an error.    *)
Inter(c, keys, weights, agg, empty, Do(_)) ==
    LET bad == {i \in DOMAIN keys : ~Holds(keys[i], "zset")} IN
    \/ ~WeightsFit(keys, weights) /\ Fail(c, "args")
    \/ WeightsFit(keys, weights) /\ bad = {}
          /\ Do(Intersect(agg, Params(keys, weights)))
    \/ WeightsFit(keys, weights) /\ bad # {}
          /\ IF store[keys[Min(bad)]] = Absent THEN Answer(c, empty)
             ELSE Fail(c, "type")

(* A missing key is left out of a union.                                   *)
Unite(c, keys, weights, agg, Do(_)) ==
    LET there == Those([i \in DOMAIN keys |-> i],
                       {i \in DOMAIN keys : store[keys[i]] # Absent})
        ks == [i \in DOMAIN there |-> keys[there[i]]]
        ws == IF weights = <<>> THEN <<>>
              ELSE [i \in DOMAIN there |-> weights[there[i]]]
    IN \/ ~WeightsFit(keys, weights) /\ Fail(c, "args")
       \/ WeightsFit(keys, weights) /\ ~AllZsets(keys) /\ Fail(c, "type")
       \/ WeightsFit(keys, weights) /\ AllZsets(keys)
             /\ Do(Union(agg, Params(ks, ws)))

handleZINTER(keys, weights, agg) ==
    LET c == zinterKeyFunc(keys, Modified(weights, agg)) IN
    Inter(c, keys, weights, agg, Empty, LAMBDA s : Answer(c, s))

handleZUNION(keys, weights, agg) ==
    LET c == zunionKeyFunc(keys, Modified(weights, agg)) IN
    Unite(c, keys, weights, agg, LAMBDA s : Answer(c, s))

(* The destination is deleted from the words of the command wherever it    *)
(* stands, so it is not a source even if it is named as one.               *)
Sources(d, keys) == Those(keys, Key \ {d})

handleZINTERSTORE(d, keys, weights, agg) ==
    LET c == zinterstoreKeyFunc(d, keys) IN
    IF Modified(weights, agg) /\ Len(keys) < 2 THEN Fail(c, "args")
    ELSE Inter(c, Sources(d, keys), weights, agg, 0,
               LAMBDA s : SaveAt(c, d, Zset(s), Cardinality(DOMAIN s)))

handleZUNIONSTORE(d, keys, weights, agg) ==
    LET c == zunionstoreKeyFunc(d, keys) IN
    Unite(c, Sources(d, keys), weights, agg,
          LAMBDA s : SaveAt(c, d, Zset(s), Cardinality(DOMAIN s)))

TakeOut(c, k, s, count, policy) ==
    \E popped \in Pop(s, count, policy) :
        /\ InPlace(k, Zset(Without(s, popped)))
        /\ Return(c, Ok(Only(s, popped)))

(* The first key with a sorted set that is not empty.                      *)
handleZMPOP(keys, count, policy) ==
    LET c == zmpopKeyFunc(keys)
        full == {i \in DOMAIN keys :
                    Holds(keys[i], "zset") /\ store[keys[i]].val # Empty}
    IN IF count <= 0 THEN Fail(c, "args")
       ELSE IF full = {} THEN Answer(c, Empty)
       ELSE LET k == keys[Min(full)] IN TakeOut(c, k, store[k].val, count, policy)

handleZPOP(k, count, policy) ==
    LET c == One(IF policy = "max" THEN "zpopmax" ELSE "zpopmin", k) IN
    OnValue(c, k, "zset", Empty, LAMBDA s :
        TakeOut(c, k, s, IF count > 0 THEN count ELSE 1, policy))

handleZMSCORE(k, members) ==
    LET c == One("zmscore", k) IN
    OnValue(c, k, "zset", <<>>, LAMBDA s :
        Answer(c, [i \in DOMAIN members |->
                     IF members[i] \in DOMAIN s THEN <<s[members[i]]>> ELSE <<>>]))

handleZSCORE(k, m) ==
    LET c == One("zscore", k) IN
    OnValue(c, k, "zset", <<>>, LAMBDA s :
        Answer(c, IF m \in DOMAIN s THEN <<s[m]>> ELSE <<>>))

handleZRANDMEMBER(k, count) ==
    LET c == One("zrandmember", k) IN
    OnValue(c, k, "zset", <<>>, LAMBDA s :
        LET n == IF count = 0 THEN 1 ELSE count IN
        IF Abs(n) >= Cardinality(DOMAIN s)
        THEN \E q \in SetToSeqs(DOMAIN s) : Answer(c, q)
        ELSE \E q \in Draws(DOMAIN s, n) : Answer(c, q))

handleZRANK(k, m, reverse) ==
    LET c == One(IF reverse THEN "zrevrank" ELSE "zrank", k) IN
    OnValue(c, k, "zset", <<>>, LAMBDA s :
        \E q \in ByScore(s, reverse) :
            Answer(c, IF m \in DOMAIN s
                      THEN <<(CHOOSE i \in DOMAIN q : q[i] = m) - 1>> ELSE <<>>))

Drop(c, k, s, ms) ==
    /\ InPlace(k, Zset(Without(s, ms)))
    /\ Return(c, Ok(Cardinality(ms)))

handleZREM(k, members) ==
    LET c == One("zrem", k) IN
    OnValue(c, k, "zset", 0, LAMBDA s :
        Drop(c, k, s, Range(members) \cap DOMAIN s))

handleZREMRANGEBYSCORE(k, lo, hi) ==
    LET c == One("zremrangebyscore", k) IN
    OnValue(c, k, "zset", 0, LAMBDA s : Drop(c, k, s, Between(s, lo, hi)))

(* Ranks count from 0, negative ones from the end; start and stop may be   *)
(* given in either order.                                                  *)
handleZREMRANGEBYRANK(k, start, stop) ==
    LET c == One("zremrangebyrank", k) IN
    OnValue(c, k, "zset", 0, LAMBDA s :
        LET n == Cardinality(DOMAIN s)
            i == IF start < 0 THEN start + n ELSE start
            j == IF stop < 0 THEN stop + n ELSE stop
        IN IF {i, j} \subseteq 0..n - 1
           THEN \E q \in ByScore(s, FALSE) :
                   Drop(c, k, s, {q[x + 1] : x \in Min({i, j})..Max({i, j})})
           ELSE Fail(c, "args"))

handleZREMRANGEBYLEX(k, lo, hi) ==
    LET c == One("zremrangebylex", k) IN
    OnValue(c, k, "zset", 0, LAMBDA s :
        IF Cardinality(Range(s)) > 1 THEN Answer(c, 0)
        ELSE Drop(c, k, s, BetweenLex(s, lo, hi)))

(* The members from offset to count, both counted from 0, that are within  *)
(* the bounds.  o.limit is <<>> or <<offset, count>>.                      *)
Slice(s, lo, hi, o) ==
    LET n == Cardinality(DOMAIN s)
        offset == IF o.limit = <<>> THEN 0 ELSE o.limit[1]
        count == IF o.limit = <<>> \/ o.limit[2] < 0 THEN n - offset ELSE o.limit[2]
        inside == IF o.bylex THEN BetweenLex(s, lo, hi) ELSE Between(s, lo, hi)
        orders == IF o.bylex THEN ByLex(s, o.rev) ELSE ByScore(s, o.rev)
    IN IF offset > n \/ (o.bylex /\ Cardinality(Range(s)) > 1) THEN {<<>>}
       ELSE {Those(SubSeq(q, offset + 1, Min({count + 1, n})), inside) : q \in orders}

handleZRANGE(k, lo, hi, o) ==
    LET c == One("zrange", k) IN
    OnValue(c, k, "zset", <<>>, LAMBDA s :
        \E q \in Slice(s, lo, hi, o) : Answer(c, q))

handleZRANGESTORE(d, k, lo, hi, o) ==
    LET c == zrangeStoreKeyFunc(d, k) IN
    OnValue(c, k, "zset", <<>>, LAMBDA s :
        LET n == Cardinality(DOMAIN s) IN
        IF \/ o.limit # <<>> /\ o.limit[1] > n
           \/ o.bylex /\ Cardinality(Range(s)) > 1
        THEN Answer(c, 0)
        ELSE \E q \in Slice(s, lo, hi, o) :
                SaveAt(c, d, Zset(Only(s, Range(q))), Len(q)))
=============================================================================
