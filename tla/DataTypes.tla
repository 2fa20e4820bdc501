----------------------------- MODULE DataTypes -----------------------------
(***************************************************************************)
(* A client that works with the commands of one data type, deletes keys    *)
(* and overwrites them with plain values: the five data type modules over  *)
(* one DataStore, and what their handlers promise.                         *)
(***************************************************************************)
EXTENDS DataStore

CONSTANTS
    Member, Score, Inf, Weight, MaxCount,   \* see SortedSets
    Element,                                \* see Sets
    Field, Scalar, Number,                  \* see Hashes
    Item, MaxLength,                        \* see Lists
    Digit, Char, MaxString,                 \* see Strings
    KeysOf       \* bound: KeysOf[f] are the keys a client of family f uses

Family == {"zset", "set", "hash", "list", "string"}

(* Scores are numbers, +inf among them; the lists and strings of the       *)
(* arguments have at most two elements.                                    *)
Inputs ==
    /\ KeysOf \in [Family -> SUBSET Key]
    /\ Score \cup {Inf} \cup Weight \subseteq Int
    /\ MaxCount \in Nat
    /\ MaxLength \in Nat \ {0, 1}
    /\ MaxString \in Nat \ {0, 1}

Z == INSTANCE SortedSets
S == INSTANCE Sets
H == INSTANCE Hashes
L == INSTANCE Lists
T == INSTANCE Strings

Upto2(X) == UNION {[1..n -> X] : n \in 1..2}
Upto3(X) == UNION {[1..n -> X] : n \in 1..3}
Count == -MaxCount..MaxCount
Other == [is |-> "bool", val |-> TRUE]     \* a value of no data type here

-----------------------------------------------------------------------------
Pair == Member \X (Score \cup {Inf})
Options == [policy : {"none", "nx", "xx"}, comp : {"none", "gt", "lt"},
            ch : BOOLEAN, incr : BOOLEAN]
PlainOptions == [policy |-> "none", comp |-> "none", ch |-> FALSE, incr |-> FALSE]
Ranges == [bylex : BOOLEAN, rev : BOOLEAN, limit : {<<>>, <<0, 0>>, <<1, -1>>}]

AddStep(K) ==
    \/ \E k \in K, p \in Pair, o \in Options : Z!handleZADD(k, <<p>>, o)
    \/ \E k \in K, p, q \in Pair, o \in {PlainOptions, [PlainOptions EXCEPT !.incr = TRUE]} :
          Z!handleZADD(k, <<p, q>>, o)
    \/ \E k \in K, p \in Pair : Z!handleZINCRBY(k, p)

RangeStep(K) ==
    \E k \in K, lo, hi \in Score :
        \/ Z!handleZCOUNT(k, lo, hi)
        \/ Z!handleZREMRANGEBYSCORE(k, lo, hi)
        \/ Z!handleZLEXCOUNT(k, lo, hi)
        \/ Z!handleZREMRANGEBYLEX(k, lo, hi)
        \/ Z!handleZREMRANGEBYRANK(k, lo, hi)
        \/ \E o \in Ranges : Z!handleZRANGE(k, lo, hi, o)
        \/ \E d \in K, o \in Ranges : Z!handleZRANGESTORE(d, k, lo, hi, o)

CombineStep(K) ==
    \/ \E keys \in Upto2(K) :
          Z!handleZDIFF(keys) \/ \E d \in K : Z!handleZDIFFSTORE(d, keys)
    \/ \E keys \in Upto3(K), agg \in {"none", "sum", "min", "max"},
          weights \in {<<>>} \cup [1..3 -> Weight] :
          \/ Z!handleZINTER(keys, weights, agg)
          \/ Z!handleZUNION(keys, weights, agg)
    \/ \E d \in K, keys \in Upto2(K), agg \in {"none", "max"},
          weights \in {<<>>} \cup [1..1 -> Weight] :
          \/ Z!handleZINTERSTORE(d, keys, weights, agg)
          \/ Z!handleZUNIONSTORE(d, keys, weights, agg)

MemberStep(K) ==
    \E k \in K :
        \/ Z!handleZCARD(k)
        \/ \E n \in Count, policy \in {"min", "max"} : Z!handleZPOP(k, n, policy)
        \/ \E n \in Count : Z!handleZRANDMEMBER(k, n)
        \/ \E m \in Member, reverse \in BOOLEAN : Z!handleZRANK(k, m, reverse)
        \/ \E m \in Member : Z!handleZSCORE(k, m)
        \/ \E ms \in Upto2(Member) : Z!handleZREM(k, ms) \/ Z!handleZMSCORE(k, ms)
        \/ \E j \in K, n \in Count, policy \in {"min", "max"} :
              Z!handleZMPOP(<<k, j>>, n, policy)

(* The scores of stored sets are bounded.                                  *)
ZBounded ==
    \A k \in Key : store'[k] # Absent /\ store'[k].is = "zset"
                      => Z!InBounds(store'[k].val)

SortedSetStep ==
    LET K == KeysOf["zset"] IN
    /\ family = "zset"
    /\ AddStep(K) \/ RangeStep(K) \/ CombineStep(K) \/ MemberStep(K)
    /\ ZBounded

SetStep ==
    LET K == KeysOf["set"] IN
    /\ family = "set"
    /\ \/ \E k \in K, es \in Upto2(Element) :
             S!handleSADD(k, es) \/ S!handleSREM(k, es) \/ S!handleSMISMEMBER(k, es)
       \/ \E k \in K : S!handleSCARD(k) \/ S!handleSMEMBERS(k)
       \/ \E k \in K, e \in Element : S!handleSISMEMBER(k, e)
       \/ \E keys \in Upto3(K) :
             S!handleSDIFF(keys) \/ S!handleSINTER(keys) \/ S!handleSUNION(keys)
       \/ \E keys \in Upto3(K), n \in Count : S!handleSINTERCARD(keys, n)
       \/ \E d \in K, keys \in Upto3(K) :
             \/ S!handleSDIFFSTORE(d, keys)
             \/ S!handleSINTERSTORE(d, keys)
             \/ S!handleSUNIONSTORE(d, keys)
       \/ \E k, d \in K, e \in Element : S!handleSMOVE(k, d, e)
       \/ \E k \in K, n \in Count : S!handleSPOP(k, n) \/ S!handleSRANDMEMBER(k, n)

HashStep ==
    LET K == KeysOf["hash"] IN
    /\ family = "hash"
    /\ \E k \in K :
       \/ \E cmd \in {"hset", "hsetnx"}, fs \in (SUBSET Field) \ {{}} :
             \E entries \in [fs -> Scalar] : H!handleHSET(cmd, k, entries)
       \/ \E fs \in Upto2(Field) :
             H!handleHGET(k, fs) \/ H!handleHMGET(k, fs) \/ H!handleHSTRLEN(k, fs)
                \/ H!handleHDEL(k, fs)
       \/ H!handleHVALS(k) \/ H!handleHLEN(k) \/ H!handleHKEYS(k) \/ H!handleHGETALL(k)
       \/ \E n \in Count : H!handleHRANDFIELD(k, n)
       \/ \E f \in Field : H!handleHEXISTS(k, f)
       \/ \E cmd \in {"hincrby", "hincrbyfloat"}, f \in Field, n \in {1, -1} :
             H!handleHINCRBY(cmd, k, f, n)

ListStep ==
    LET K == KeysOf["list"]
        Index == -MaxLength - 1..MaxLength + 1
    IN
    /\ family = "list"
    /\ \E k \in K :
       \/ L!handleLLen(k)
       \/ \E i \in Index : L!handleLIndex(k, i)
       \/ \E i, j \in Index : L!handleLRange(k, i, j) \/ L!handleLTrim(k, i, j)
       \/ \E i \in Index, v \in Item : L!handleLSet(k, i, v)
       \/ \E n \in Count, v \in Item : L!handleLRem(k, n, v)
       \/ \E d \in K, from, to \in {"left", "right"} : L!handleLMove(k, d, from, to)
       \/ \E vs \in Upto2(Item) :
             \/ \E cmd \in {"lpush", "lpushx"} : L!handleLPush(cmd, k, vs)
             \/ \E cmd \in {"rpush", "rpushx"} : L!handleRPush(cmd, k, vs)
       \/ \E cmd \in {"lpop", "rpop"}, n \in {<<>>} \cup [1..1 -> Count] :
             L!handlePop(cmd, k, n)

StringStep ==
    LET K == KeysOf["string"]
        Index == -MaxString - 1..MaxString + 1
    IN
    /\ family = "string"
    /\ \E k \in K :
       \/ \E i \in Index, s \in T!Text(2) : T!handleSetRange(k, i, s)
       \/ T!handleStrLen(k)
       \/ \E i, j \in Index : T!handleSubStr(k, i, j)
       \/ \E s \in T!Text(2) : T!handleAppend(k, s)

Init == family \in Family /\ DataInit

Next ==
    \/ /\ call = NoCall
       /\ \/ SortedSetStep \/ SetStep \/ HashStep \/ ListStep \/ StringStep
          \/ \E k \in KeysOf[family] : Del(k) \/ Set(k, Other) \/ Malformed(family)
    \/ ReadAnswer

Spec == Init /\ [][Next]_vars

-----------------------------------------------------------------------------
(* What the commands promise.                                              *)

WellFormed(v) ==
    CASE v.is = "zset" -> DOMAIN v.val \subseteq Member
      [] v.is = "set" -> v.val.members \subseteq Element
      [] v.is = "hash" -> DOMAIN v.val \subseteq Field
      [] v.is = "list" -> v.val \in Seq(Item) /\ Len(v.val) <= MaxLength
      [] v.is = "string" -> v.val \in T!Text(MaxString)
      [] OTHER -> v.is \in {"int", "bool"}

(* A client's keys hold values of its own data type or plain ones, and     *)
(* keys that hold one object hold one value.                               *)
TypeOK ==
    /\ family \in Family
    /\ \A k \in Key :
          /\ store[k] # Absent => store[k].is \in {family, "int", "bool"}
                                  /\ WellFormed(store[k])
          /\ k \in shared[k]
          /\ \A j \in shared[k] : shared[j] = shared[k] /\ store[j] = store[k]
    /\ call # NoCall => call.read \cup call.write \subseteq Key
                      /\ call.answer[1] \in {"ok", "error"}

(* set.go keeps the length of a Set apart from its members: whatever adds, *)
(* removes, pops, moves and unions in place did, SCARD counts the members. *)
LengthIsCardinality ==
    \A k \in Key : Holds(k, "set") =>
        store[k].val.length = Cardinality(store[k].val.members)

(* Every command leaves well-formed values.                                *)
ValuesConsistent == TypeOK /\ LengthIsCardinality

(* The folds that sorted_set.go computes by halves, flat.  present: what   *)
(* the sets that have m give it.                                           *)
FlatAggregate(agg, params, m) ==
    LET present == {i \in DOMAIN params : m \in DOMAIN params[i].set}
        w(i) == Z!Times(params[i].weight, params[i].set[m])
    IN CASE agg = "min" -> Min({w(i) : i \in present})
         [] agg = "max" -> Max({w(i) : i \in present})
         [] OTHER -> IF \E i \in present : w(i) = Inf THEN Inf
                     ELSE MapThenSumSet(w, present)

(* Union and Intersect recurse on halves of their arguments.  The score of *)
(* a member is the sum, the least or the largest of its weighted scores,   *)
(* each set counted once with its own weight, wherever the halves meet.    *)
AggregatesMatchReference ==
    family = "zset" /\ call = NoCall =>
      \A keys \in [1..3 -> {k \in Key : Holds(k, "zset")}],
         weights \in [1..3 -> Weight], agg \in {"sum", "min", "max"} :
        LET params == Z!Params(keys, weights)
            all == UNION {DOMAIN params[i].set : i \in 1..3}
            common == {m \in all : \A i \in 1..3 : m \in DOMAIN params[i].set}
        IN /\ Z!Union(agg, params) =
                 [m \in all |-> FlatAggregate(agg, params, m)]
           /\ Z!Intersect(agg, params) =
                 [m \in common |-> FlatAggregate(agg, params, m)]

-----------------------------------------------------------------------------
Changed == {k \in Key : store'[k] # store[k]}
Replied(cmds) == call' # NoCall /\ call'.cmd \in cmds /\ ~IsError(call'.answer)
Reply == call'.answer[2]
Holders(keys) == UNION {shared[k] : k \in keys}

Synced == Z!SortedSetSync \cup S!SetSync \cup H!HashSync \cup L!ListSync
             \cup T!StringSync \cup {"del", "set"}

(* A command without Sync is not sent to the other nodes of a cluster:     *)
(* what it changed would be missing there.  SUNION, which builds the union *)
(* in the first stored set, is left out here.                              *)
UnsyncedChangeNothing ==
    [][call' # NoCall /\ call'.cmd \notin Synced \cup {"sunion"}
          => UNCHANGED store]_vars

(* These change the stored object before the SetValues that may fail.      *)
ChangeFirst == {"hincrby", "hincrbyfloat", "hdel", "lset", "lrem", "lmove",
                "lpush", "rpush", "sunionstore"}

(* A command that answers with an error has changed nothing, unless it is  *)
(* one of those and the memory was full.                                   *)
ErrorsChangeNothing ==
    [][call' # NoCall /\ IsError(call'.answer) /\ Changed # {}
          => call'.cmd \in ChangeFirst /\ Reply = "full"]_vars

(* What the key extraction functions declare bounds what the handlers may  *)
(* do: access control and the keyspace locks rely on it.  Unions in place  *)
(* also change a set that they declare as read.                            *)
OnlyDeclaredKeysChange ==
    [][call' # NoCall =>
          Changed \subseteq Holders(call'.write) \cup
             (IF call'.cmd \in {"sunion", "sunionstore"}
              THEN Holders(call'.read) ELSE {})]_vars

(* A command's registration says the truth about its effects.              *)
EffectsDeclared == UnsyncedChangeNothing /\ OnlyDeclaredKeysChange

-----------------------------------------------------------------------------
(* A sorted set is what a pop left and what it returned, and no member     *)
(* that is left is further out than one that was returned.                 *)
PopsTakeExtremes ==
    [][Replied({"zpopmin", "zpopmax"}) =>
          \A k \in call'.write : Holds(k, "zset") =>
              LET left == store'[k].val IN
              /\ store[k].val = Z!Both("none", left, Reply,
                                       DOMAIN left \cup DOMAIN Reply)
              /\ DOMAIN left \cap DOMAIN Reply = {}
              /\ \A m \in DOMAIN left, p \in DOMAIN Reply :
                    IF call'.cmd = "zpopmin" THEN Reply[p] <= left[m]
                    ELSE Reply[p] >= left[m]]_vars

(* An element that SPOP, LPOP or RPOP returns is gone, one that it does    *)
(* not return is kept, in its place.                                       *)
PoppedOrKept ==
    [][\A k \in Key :
          /\ Replied({"spop"}) /\ k \in call'.write /\ Holds(k, "set") =>
                store'[k].val.members = store[k].val.members \ Range(Reply)
          /\ Replied({"lpop"}) /\ k \in call'.write /\ Holds(k, "list") =>
                store[k].val = Reply \o store'[k].val
          /\ Replied({"rpop"}) /\ k \in call'.write /\ Holds(k, "list") =>
                store[k].val = store'[k].val \o Reverse(Reply)]_vars

Occurs(l, x) == Cardinality({i \in DOMAIN l : l[i] = x})
OccursIn(st, x) ==
    MapThenSumSet(LAMBDA k : IF st[k] = Absent \/ st[k].is # "list" THEN 0
                             ELSE Occurs(st[k].val, x), Key)

(* Between two keys LMOVE and SMOVE neither lose nor duplicate an element. *)
MovesConserve ==
    [][/\ Replied({"lmove"}) /\ Cardinality(call'.write) = 2 =>
             \A x \in Item : OccursIn(store', x) = OccursIn(store, x)
       /\ Replied({"smove"}) /\ (\A k \in call'.write : Holds(k, "set")) =>
                UNION {store'[k].val.members : k \in call'.write} =
                   UNION {store[k].val.members : k \in call'.write}]_vars

(* LREM removes as many elements as it says, all equal, and keeps the      *)
(* others in order: no loop over the shifted array takes a wrong one.      *)
LRemTakesOneValue ==
    [][Replied({"lrem"}) =>
          \A k \in call'.write : Holds(k, "list") =>
             LET old == store[k].val
                 new == store'[k].val
             IN /\ Len(old) = Len(new) + Reply
                /\ \E v \in Item :
                      SelectSeq(old, LAMBDA x : x # v) =
                         SelectSeq(new, LAMBDA x : x # v)]_vars

(* Writing fields of a hash drops none and, with HSETNX, overwrites none;  *)
(* an increment changes one field.                                         *)
HashFieldsKept ==
    [][Replied({"hset", "hsetnx", "hincrby", "hincrbyfloat"}) =>
          \A k \in call'.write : Holds(k, "hash") =>
             LET old == store[k].val
                 new == store'[k].val
                 touched == {f \in DOMAIN new : f \in DOMAIN old => new[f] # old[f]}
             IN /\ DOMAIN old \subseteq DOMAIN new
                /\ call'.cmd = "hsetnx" => touched \cap DOMAIN old = {}
                /\ call'.cmd \in {"hincrby", "hincrbyfloat"}
                      => Cardinality(touched) = 1]_vars

(* What pops, moves, removals and field writes leave of a value.           *)
ElementsKept ==
    /\ PopsTakeExtremes /\ PoppedOrKept /\ MovesConserve
    /\ LRemTakesOneValue /\ HashFieldsKept
=============================================================================
