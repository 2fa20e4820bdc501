------------------------------- MODULE Lists -------------------------------
(***************************************************************************)
(* The list commands.  A list is a Go slice, a sequence here.  Indices of  *)
(* the commands count from 0.                                              *)
(***************************************************************************)
EXTENDS DataStore

CONSTANTS
    Item,       \* the elements of the lists
    MaxLength   \* bound: the longest list

ListOf(l) == [is |-> "list", val |-> l]

(* key_funcs.go; popKeyFunc also declares the count of a pop, as a key.    *)
ListKeyFuncs ==
    [lpush |-> "write", lpushx |-> "write", lpop |-> "write", rpop |-> "write",
     llen |-> "read", lrange |-> "read", lindex |-> "read", lset |-> "write",
     ltrim |-> "write", lrem |-> "write", rpush |-> "write", rpushx |-> "write"]

OneList(cmd, k) ==
    Declared(cmd, IF ListKeyFuncs[cmd] = "read" THEN {k} ELSE {},
                  IF ListKeyFuncs[cmd] = "write" THEN {k} ELSE {})

lmoveKeyFunc(k, d) == Declared("lmove", {}, {k, d})

(* The commands that Commands() marks Sync.                                *)
ListSync == {"lpush", "lpushx", "lpop", "lset", "ltrim", "lrem", "lmove",
             "rpop", "rpush", "rpushx"}

(* A negative index counts from the end.                                   *)
FromEnd(l, i) == IF i < 0 THEN Len(l) + i ELSE i

-----------------------------------------------------------------------------
handleLLen(k) ==
    LET c == OneList("llen", k) IN
    OnValue(c, k, "list", 0, LAMBDA l : Answer(c, Len(l)))

handleLIndex(k, i) ==
    LET c == OneList("lindex", k) IN
    OnValue(c, k, "list", <<>>, LAMBDA l :
        LET x == FromEnd(l, i) + 1 IN
        Answer(c, IF x \in DOMAIN l THEN <<l[x]>> ELSE <<>>))

(* A negative end is subtracted, so it lies past the end and becomes the   *)
(* last index; an end equal to the length is not cut back, and a start     *)
(* before the first element stays negative: reading there panics.          *)
handleLRange(k, start, end) ==
    LET c == OneList("lrange", k) IN
    OnValue(c, k, "list", <<>>, LAMBDA l :
        LET n == Len(l)
            s == FromEnd(l, start)
            far == IF end < 0 THEN n - end ELSE end
            e == IF far > n THEN n - 1 ELSE far
        IN CASE s > e \/ s > n -> Answer(c, <<>>)
             [] s <= e /\ s <= n /\ (s < 0 \/ e >= n) -> Fail(c, "panic")
             [] OTHER -> Answer(c, SubSeq(l, s + 1, e + 1)))

(* The element is written into the stored slice, before SetValues.         *)
handleLSet(k, i, v) ==
    LET c == OneList("lset", k) IN
    IF store[k] = Absent THEN Fail(c, "type")
    ELSE OnValue(c, k, "list", <<>>, LAMBDA l :
            LET x == FromEnd(l, i) + 1 IN
            IF x \in DOMAIN l
            THEN ChangeThenSave(c, k, ListOf([l EXCEPT ![x] = v]), "OK")
            ELSE Fail(c, "args"))

handleLTrim(k, start, end) ==
    LET c == OneList("ltrim", k) IN
    OnValue(c, k, "list", "OK", LAMBDA l :
        LET s == FromEnd(l, start)
            e == FromEnd(l, end)
        IN CASE s > e \/ s > Len(l) - 1 -> Delete(c, k, "OK")
             [] s <= e /\ s < 0 -> Fail(c, "panic")
             [] OTHER -> SaveAt(c, k, ListOf(SubSeq(l, s + 1, Min({e + 1, Len(l)}))),
                                "OK"))

(* append(list[:i], list[i+1:]...) moves the tail down in the array: of    *)
(* its first m elements i is gone, the last is there twice.                *)
MoveDown(array, i, m) ==
    [j \in DOMAIN array |-> IF i <= j /\ j < m THEN array[j + 1] ELSE array[j]]

(* One loop of LREM: at goes through the first length elements of array.   *)
LRemTurn(loop, step, v) ==
    CASE loop.at \notin 1..loop.length \/ loop.left = 0 -> loop
      [] OTHER -> IF loop.array[loop.at] = v
                  THEN [array |-> MoveDown(loop.array, loop.at, loop.length),
                        length |-> loop.length - 1,
                        at |-> loop.at + step, left |-> loop.left - 1]
                  ELSE [loop EXCEPT !.at = @ + step]

(* It has ended after as many turns as the list has elements.              *)
LRemLoop(l, from, step, v, left) ==
    LET turn[n \in 0..Len(l)] ==
          IF n = 0
          THEN [array |-> l, length |-> Len(l), at |-> from, left |-> left]
          ELSE LRemTurn(turn[n - 1], step, v)
    IN turn[Len(l)]

(* The three loops of LREM.  After a removal the loops from the head skip  *)
(* the element that moved into its place.  A count of zero never runs out. *)
Removal(l, count, v) ==
    CASE count = 0 -> LRemLoop(l, 1, 1, v, Len(l) + 1)
      [] count > 0 -> LRemLoop(l, 1, 1, v, count)
      [] OTHER -> LRemLoop(l, Len(l), -1, v, -count)

(* The array of the stored slice is changed, before SetValues gives the    *)
(* key a slice of the new length.                                          *)
handleLRem(k, count, v) ==
    LET c == OneList("lrem", k) IN
    OnValue(c, k, "list", 0, LAMBDA l :
        LET r == Removal(l, count, v) IN
        \/ InPlace(k, ListOf(SubSeq(r.array, 1, r.length)))
              /\ Return(c, Ok(Len(l) - r.length))
        \/ InPlace(k, ListOf(r.array)) /\ Return(c, Error("full")))

(* What a move puts into the destination.                                  *)
Moved(src, dst, from, to) ==
    LET x == IF from = "left" THEN src[1] ELSE src[Len(src)] IN
    IF to = "left" THEN <<x>> \o dst ELSE dst \o <<x>>

(* append(source[0:1], destination...) writes the destination over the     *)
(* array of the source if that is long enough.                             *)
Overwritten(src, dst) ==
    [i \in DOMAIN src |-> IF i = 1 \/ i > Len(dst) + 1 THEN src[i] ELSE dst[i - 1]]

(* Source and destination are saved together; of one key it is the         *)
(* destination that is kept.                                               *)
MoveElement(c, k, d, src, dst, from, to) ==
    \/ Save(c, [j \in {k, d} |->
                  IF j = d THEN ListOf(Moved(src, dst, from, to))
                  ELSE ListOf(IF from = "left" THEN Tail(src) ELSE Front(src))],
            "OK")
    \/ /\ from = "left" /\ to = "left"
       /\ InPlace(k, ListOf(Overwritten(src, dst)))
       /\ Return(c, Error("full"))

(* The slice of an empty list has no element to cut off.                   *)
handleLMove(k, d, from, to) ==
    LET c == lmoveKeyFunc(k, d) IN
    IF ~Holds(k, "list") \/ ~Holds(d, "list") THEN Fail(c, "type")
    ELSE IF store[k].val = <<>> THEN Fail(c, "panic")
    ELSE /\ Len(store[d].val) < MaxLength
         /\ MoveElement(c, k, d, store[k].val, store[d].val, from, to)

(* A missing key first gets an empty list, which stays when the second     *)
(* SetValues fails.  cmd is lpush, lpushx, rpush or rpushx.                *)
Push(cmd, k, items, together) ==
    LET c == OneList(cmd, k) IN
    \/ store[k] = Absent /\ cmd \in {"lpushx", "rpushx"} /\ Fail(c, "type")
    \/ /\ store[k] = Absent /\ cmd \in {"lpush", "rpush"}
       /\ \/ SaveAt(c, k, ListOf(items), Len(items))
          \/ InPlace(k, ListOf(<<>>)) /\ Return(c, Error("full"))
    \/ store[k] # Absent /\ ~Holds(k, "list") /\ Fail(c, "type")
    \/ /\ Holds(k, "list")
       /\ Len(together) <= MaxLength
       /\ SaveAt(c, k, ListOf(together), Len(together))

Current(k) == IF Holds(k, "list") THEN store[k].val ELSE <<>>

handleLPush(cmd, k, items) == Push(cmd, k, items, items \o Current(k))

handleRPush(cmd, k, items) == Push(cmd, k, items, Current(k) \o items)

(* LPOP and RPOP; count is <<>> if the command has none.                   *)
handlePop(cmd, k, count) ==
    LET c == OneList(cmd, k) IN
    OnValue(c, k, "list", <<>>, LAMBDA l :
        LET n == IF count = <<>> THEN 1 ELSE Min({Abs(count[1]), Len(l)}) IN
        IF l = <<>> THEN Answer(c, <<>>)
        ELSE IF cmd = "lpop"
        THEN SaveAt(c, k, ListOf(SubSeq(l, n + 1, Len(l))), SubSeq(l, 1, n))
        ELSE SaveAt(c, k, ListOf(SubSeq(l, 1, Len(l) - n)),
                    Reverse(SubSeq(l, Len(l) - n + 1, Len(l)))))
=============================================================================
