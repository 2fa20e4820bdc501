----------------------------- MODULE DataStore -----------------------------
(***************************************************************************)
(* The keyspace as the handlers of the data type modules see it: one       *)
(* client at a time calls a handler, the handler reads and replaces values *)
(* through KeysExist, GetValues, SetValues and DeleteKey, and answers.     *)
(*                                                                         *)
(* A value is a record [is |-> its Go type, val |-> its contents].  Sets,  *)
(* sorted sets and hashes are Go pointers and maps, lists are slices: a    *)
(* handler may change them in place, without a call of SetValues, and two  *)
(* keys may hold the same object.  shared[k] is the set of the keys that   *)
(* hold the object of k.                                                   *)
(*                                                                         *)
(* SetValues fails when the memory limit is reached.  What the other keys  *)
(* take is not modelled here (module Keyspace does), so every call may     *)
(* fail.                                                                   *)
(***************************************************************************)
EXTENDS Integers, Sequences, FiniteSets, SequencesExt, FiniteSetsExt

CONSTANTS
    Key,      \* the keys
    Absent,   \* a key that is not in the map
    NoCall    \* no answer is waiting to be read by the client

VARIABLES
    family,   \* the data type this client works with
    store,    \* store[k]: the value of k, or Absent
    shared,   \* shared[k]: the keys that hold the object of k
    call      \* the command that was last handled, with its reply, or NoCall

vars == <<family, store, shared, call>>

Holds(k, type) == store[k] # Absent /\ store[k].is = type

-----------------------------------------------------------------------------
(* Answers: a reply, or an error with its reason.  A panic is the last     *)
(* answer of a server.                                                     *)
Ok(r) == <<"ok", r>>
Error(why) == <<"error", why>>

IsError(answer) == answer[1] = "error"

(* c is a command with the keys its key extraction function declares.      *)
Declared(cmd, read, write) == [cmd |-> cmd, read |-> read, write |-> write]

Return(c, answer) ==
    /\ call' = [cmd |-> c.cmd, read |-> c.read, write |-> c.write,
                answer |-> answer]
    /\ UNCHANGED family

Answer(c, r) == Return(c, Ok(r)) /\ UNCHANGED <<store, shared>>

Fail(c, why) == Return(c, Error(why)) /\ UNCHANGED <<store, shared>>

(* setValues: the keys of new hold new objects, unless memory is full.     *)
Save(c, new, r) ==
    \/ /\ store' = [k \in Key |-> IF k \in DOMAIN new THEN new[k] ELSE store[k]]
       /\ shared' = [k \in Key |-> IF k \in DOMAIN new THEN {k}
                                   ELSE shared[k] \ DOMAIN new]
       /\ Return(c, Ok(r))
    \/ Fail(c, "full")

SaveAt(c, k, v, r) == Save(c, [j \in {k} |-> v], r)

(* A change of the object of k is a change of every key that holds it.     *)
InPlace(k, v) ==
    /\ store' = [j \in Key |-> IF j \in shared[k] THEN v ELSE store[j]]
    /\ UNCHANGED shared

(* The object is changed first and saved afterwards: what was changed      *)
(* stays changed when SetValues fails.                                     *)
ChangeThenSave(c, k, v, r) ==
    /\ InPlace(k, v)
    /\ Return(c, Ok(r)) \/ Return(c, Error("full"))

(* deleteKey *)
Delete(c, k, r) ==
    /\ store' = [store EXCEPT ![k] = Absent]
    /\ shared' = [j \in Key |-> IF j = k THEN {k} ELSE shared[j] \ {k}]
    /\ Return(c, Ok(r))

(* How most handlers begin: a missing key has an answer of its own, a      *)
(* value of another type is an error.                                      *)
OnValue(c, k, type, missing, Body(_)) ==
    \/ store[k] = Absent /\ Answer(c, missing)
    \/ store[k] # Absent /\ store[k].is # type /\ Fail(c, "type")
    \/ Holds(k, type) /\ Body(store[k].val)

-----------------------------------------------------------------------------
(* AbsInt *)
Abs(n) == IF n < 0 THEN -n ELSE n

(* GetRandom, HRANDFIELD: the sequences that count draws from all can give,*)
(* without repetition if count is positive.                                *)
Draws(all, count) ==
    IF count < 0 THEN [1..-count -> all]
    ELSE {d \in [1..count -> all] : IsInjective(d)}

(* The elements of q that are in A, in their order.                        *)
Those(q, A) ==
    LET kept[n \in 0..Len(q)] == IF n = 0 THEN <<>>
                                 ELSE IF q[n] \in A THEN Append(kept[n - 1], q[n])
                                 ELSE kept[n - 1]
    IN kept[Len(q)]

(* How Union and Intersection divide a sequence: <<i, j>> is the part that *)
(* begins after element i and ends with element j.                         *)
Parts(q) == (0..Len(q)) \X (0..Len(q))
Left(p) == <<p[1], p[1] + (p[2] - p[1]) \div 2>>
Right(p) == <<p[1] + (p[2] - p[1]) \div 2, p[2]>>

DataInit ==
    /\ store = [k \in Key |-> Absent]
    /\ shared = [k \in Key |-> {k}]
    /\ call = NoCall

(* The client has read the answer and may send its next command.           *)
ReadAnswer ==
    /\ call # NoCall
    /\ call.answer # Error("panic")
    /\ call' = NoCall
    /\ UNCHANGED <<family, store, shared>>

(* DEL, see module GenericCommands.                                        *)
Del(k) ==
    LET c == Declared("del", {}, {k}) IN
    /\ store[k] # Absent
    /\ Delete(c, k, 1)

(* SET of a plain value, see module GenericCommands.                       *)
Set(k, v) ==
    LET c == Declared("set", {}, {k}) IN
    SaveAt(c, k, v, 1)

(* Too few or too many arguments, or one that does not parse: every        *)
(* handler says so before it changes anything.                             *)
Malformed(cmd) == Fail(Declared(cmd, {}, {}), "args")
=============================================================================
