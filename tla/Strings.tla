------------------------------ MODULE Strings ------------------------------
(***************************************************************************)
(* The string commands.  A string is a sequence of one-byte characters.    *)
(* The numeric strings that AdaptType turns into an int are no longer      *)
(* strings to the next command.                                            *)
(***************************************************************************)
EXTENDS DataStore

CONSTANTS
    Digit,          \* the characters that are digits, without 0
    Char,           \* all the characters
    MaxString       \* bound: the longest string

StringOf(s) == [is |-> "string", val |-> s]

(* The bounded sequences of characters, the arguments of the commands.     *)
Text(n) == UNION {[1..m -> Char] : m \in 0..n}

AdaptType(s) ==
    IF s # <<>> /\ Range(s) \subseteq Digit THEN [is |-> "int", val |-> s]
    ELSE StringOf(s)

(* key_funcs.go *)
StringKeyFuncs == [setrange |-> "write", strlen |-> "read", substr |-> "read",
                   append |-> "write"]

OneString(cmd, k) ==
    Declared(cmd, IF StringKeyFuncs[cmd] = "read" THEN {k} ELSE {},
                  IF StringKeyFuncs[cmd] = "write" THEN {k} ELSE {})

(* The commands that Commands() marks Sync.                                *)
StringSync == {"setrange", "append"}

(* An offset past the end appends, a negative one prepends.                *)
Overlay(s, offset, new) ==
    IF offset >= Len(s) THEN s \o new
    ELSE IF offset < 0 THEN new \o s
    ELSE [i \in 1..Max({Len(s), offset + Len(new)}) |->
            IF i \in offset + 1..offset + Len(new) THEN new[i - offset] ELSE s[i]]

(* A missing key is answered as if it had been written.                    *)
handleSetRange(k, offset, new) ==
    LET c == OneString("setrange", k) IN
    OnValue(c, k, "string", Len(new), LAMBDA s :
        LET t == Overlay(s, offset, new) IN
        /\ Len(t) <= MaxString
        /\ SaveAt(c, k, StringOf(t), Len(t)))

handleStrLen(k) ==
    LET c == OneString("strlen", k) IN
    OnValue(c, k, "string", 0, LAMBDA s : Answer(c, Len(s)))

(* SUBSTR and GETRANGE.  A start behind the end reads backwards; bounds    *)
(* that leave the string panic.                                            *)
handleSubStr(k, start, end) ==
    LET c == OneString("substr", k) IN
    IF store[k] = Absent THEN Fail(c, "type")
    ELSE OnValue(c, k, "string", <<>>, LAMBDA s :
            LET n == Len(s)
                b == IF start < 0 THEN n - Abs(start) ELSE start
                last == IF end < 0 THEN n - Abs(end) ELSE end
                e == Min({n, IF last >= 0 /\ last >= b THEN last + 1 ELSE last})
                lo == Min({b, e})
                hi == Max({b, e})
            IN IF lo < 0 \/ hi > n THEN Fail(c, "panic")
               ELSE Answer(c, IF b > e THEN Reverse(SubSeq(s, lo + 1, hi))
                              ELSE SubSeq(s, lo + 1, hi)))

handleAppend(k, new) ==
    LET c == OneString("append", k) IN
    \/ store[k] = Absent /\ SaveAt(c, k, AdaptType(new), Len(new))
    \/ store[k] # Absent /\ ~Holds(k, "string") /\ Fail(c, "type")
    \/ /\ Holds(k, "string")
       /\ Len(store[k].val \o new) <= MaxString
       /\ SaveAt(c, k, AdaptType(store[k].val \o new), Len(store[k].val \o new))
=============================================================================
