------------------------------- MODULE Hashes -------------------------------
(***************************************************************************)
(* The hash commands.  A hash is a Go map: a function from its fields to   *)
(* scalars.  AdaptType makes the scalar of an argument an int, a float64   *)
(* or a string.                                                            *)
(***************************************************************************)
EXTENDS DataStore

CONSTANTS
    Field,        \* the fields
    Scalar,       \* the scalars of arguments: [is |-> Go type, val |-> ...]
    Number        \* bound: the numbers that an increment may reach

HashOf(h) == [is |-> "hash", val |-> h]

(* key_funcs.go *)
HashKeyFuncs ==
    [hset |-> "write", hsetnx |-> "write", hget |-> "read", hmget |-> "read",
     hstrlen |-> "read", hvals |-> "read", hrandfield |-> "read",
     hlen |-> "read", hkeys |-> "read", hincrby |-> "write",
     hincrbyfloat |-> "write", hgetall |-> "read", hexists |-> "read",
     hdel |-> "write"]

OneHash(cmd, k) ==
    Declared(cmd, IF HashKeyFuncs[cmd] = "read" THEN {k} ELSE {},
                  IF HashKeyFuncs[cmd] = "write" THEN {k} ELSE {})

(* The commands that Commands() marks Sync.                                *)
HashSync == {"hset", "hsetnx", "hincrby", "hincrbyfloat", "hdel"}

-----------------------------------------------------------------------------
Merge(new, old) == [f \in DOMAIN new \cup DOMAIN old |->
                       IF f \in DOMAIN new THEN new[f] ELSE old[f]]

ForgetOldFields(cmd, k, entries) ==
    SaveAt(OneHash(cmd, k), k, HashOf(entries), Cardinality(DOMAIN entries))

(* HSET and HSETNX write the old fields and the new ones into a new map.   *)
(* HSET overwrites a value of another type without a word, and its reply   *)
(* counts all the fields.                                                  *)
handleHSET(cmd, k, entries) ==
    LET c == OneHash(cmd, k) IN
    IF ~Holds(k, "hash")
    THEN SaveAt(c, k, HashOf(entries), Cardinality(DOMAIN entries))
    ELSE LET old == store[k].val
             all == IF cmd = "hsetnx" THEN Merge(old, entries)
                    ELSE Merge(entries, old)
             count == IF cmd = "hsetnx"
                      THEN Cardinality(DOMAIN entries \ DOMAIN old)
                      ELSE Cardinality(DOMAIN all)
         IN SaveAt(c, k, HashOf(all), count)

ReadFields(h, fields, Of(_)) ==
    [i \in DOMAIN fields |-> IF fields[i] \in DOMAIN h
                             THEN <<Of(h[fields[i]])>> ELSE <<>>]

handleHGET(k, fields) ==
    LET c == OneHash("hget", k) IN
    OnValue(c, k, "hash", <<>>,
            LAMBDA h : Answer(c, ReadFields(h, fields, LAMBDA v : v)))

handleHMGET(k, fields) ==
    LET c == OneHash("hmget", k) IN
    OnValue(c, k, "hash", <<>>,
            LAMBDA h : Answer(c, ReadFields(h, fields, LAMBDA v : v)))

(* Every scalar of an instance is one character long.                      *)
handleHSTRLEN(k, fields) ==
    LET c == OneHash("hstrlen", k) IN
    OnValue(c, k, "hash", <<>>,
            LAMBDA h : Answer(c, ReadFields(h, fields, LAMBDA v : 1)))

handleHVALS(k) ==
    LET c == OneHash("hvals", k) IN
    OnValue(c, k, "hash", {}, LAMBDA h : Answer(c, Range(h)))

(* A hash that HDEL has emptied is still there: a negative count draws     *)
(* from no field at all, and rand.Intn(0) panics.                          *)
handleHRANDFIELD(k, count) ==
    LET c == OneHash("hrandfield", k) IN
    IF count = 0 THEN Answer(c, <<>>)
    ELSE OnValue(c, k, "hash", <<>>, LAMBDA h :
            CASE count >= Cardinality(DOMAIN h) ->
                    \E q \in SetToSeqs(DOMAIN h) : Answer(c, q)
              [] count < 0 /\ DOMAIN h = {} -> Fail(c, "panic")
              [] OTHER -> \E q \in Draws(DOMAIN h, count) : Answer(c, q))

handleHLEN(k) ==
    LET c == OneHash("hlen", k) IN
    OnValue(c, k, "hash", 0, LAMBDA h : Answer(c, Cardinality(DOMAIN h)))

handleHKEYS(k) ==
    LET c == OneHash("hkeys", k) IN
    OnValue(c, k, "hash", {}, LAMBDA h : Answer(c, DOMAIN h))

(* An int stays an int unless HINCRBYFLOAT touches it.                     *)
Sum(v, cmd, n) ==
    [is |-> IF v.is = "float" \/ cmd = "hincrbyfloat" THEN "float" ELSE "int",
     val |-> v.val + n]

(* The field is changed in the stored map, before SetValues.               *)
handleHINCRBY(cmd, k, f, n) ==
    LET c == OneHash(cmd, k)
        zero == [is |-> "int", val |-> 0]
    IN \/ LET v == Sum(zero, cmd, n) IN
          store[k] = Absent /\ SaveAt(c, k, HashOf([x \in {f} |-> v]), v)
       \/ store[k] # Absent /\ ~Holds(k, "hash") /\ Fail(c, "type")
       \/ /\ Holds(k, "hash")
          /\ LET h == store[k].val
                 old == IF f \in DOMAIN h THEN h[f] ELSE zero
             IN IF old.is = "string" THEN Fail(c, "type")
                ELSE LET new == Sum(old, cmd, n) IN
                     /\ new.val \in Number
                     /\ ChangeThenSave(c, k, HashOf(Merge([x \in {f} |-> new], h)),
                                       new)

handleHGETALL(k) ==
    LET c == OneHash("hgetall", k) IN
    OnValue(c, k, "hash", [f \in {} |-> 0], LAMBDA h : Answer(c, h))

handleHEXISTS(k, f) ==
    LET c == OneHash("hexists", k) IN
    OnValue(c, k, "hash", 0,
            LAMBDA h : Answer(c, IF f \in DOMAIN h THEN 1 ELSE 0))

(* The fields are deleted from the stored map, before SetValues.           *)
handleHDEL(k, fields) ==
    LET c == OneHash("hdel", k) IN
    OnValue(c, k, "hash", 0, LAMBDA h :
        ChangeThenSave(c, k, HashOf([f \in DOMAIN h \ Range(fields) |-> h[f]]),
                       Cardinality(Range(fields) \cap DOMAIN h)))
=============================================================================
