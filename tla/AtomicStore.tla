----------------------------- MODULE AtomicStore -----------------------------
(***************************************************************************)
(* What a client may rely on: a command takes effect at one instant        *)
(* between its invocation and its reply, and the reply is about the data   *)
(* of that instant.  GenericCommands implements this for SET without       *)
(* options, MSET, GET, MGET, FLUSHDB and FLUSHALL; with DEL it does not.   *)
(***************************************************************************)
EXTENDS Integers, FiniteSets

CONSTANTS Client, Command, Database, Key, Value, Nil, None

VARIABLES
    kv,     \* kv[database][key]: the value a reader sees, or Nil
    call,   \* call[client]: the command it is waiting for, or None
    reply   \* reply[client]: the last reply it got

avars == <<kv, call, reply>>

AtomicInit ==
    /\ kv = [db \in Database |-> [k \in Key |-> Nil]]
    /\ call = [c \in Client |-> None]
    /\ reply = [c \in Client |-> <<"none">>]

Invoke(c, m) ==
    /\ call[c] = None
    /\ call' = [call EXCEPT ![c] = m]
    /\ UNCHANGED <<kv, reply>>

(* The data after command m.                                               *)
After(m) ==
    CASE m.op \in {"SET", "MSET"} ->
            [kv EXCEPT ![m.db] = [k \in Key |-> IF k \in m.keys THEN m.value
                                                ELSE kv[m.db][k]]]
      [] m.op = "DEL" ->
            [kv EXCEPT ![m.db] = [k \in Key |-> IF k \in m.keys THEN Nil
                                                ELSE kv[m.db][k]]]
      [] m.op = "FLUSHDB"  -> [kv EXCEPT ![m.db] = [k \in Key |-> Nil]]
      [] m.op = "FLUSHALL" -> [db \in Database |-> [k \in Key |-> Nil]]
      [] OTHER -> kv

(* The reply that is right for command m.  DEL counts the keys that it     *)
(* removes.                                                                *)
Answer(m) ==
    CASE m.op = "GET"  -> <<"val", kv[m.db][m.key]>>
      [] m.op = "MGET" -> <<"map", [k \in m.keys |-> kv[m.db][k]]>>
      [] m.op = "DEL"  ->
            <<"int", Cardinality({k \in m.keys : kv[m.db][k] # Nil})>>
      [] OTHER -> <<"ok">>

Execute(c) ==
    /\ call[c] # None
    /\ reply' = [reply EXCEPT ![c] = Answer(call[c])]
    /\ kv' = After(call[c])
    /\ call' = [call EXCEPT ![c] = None]

AtomicNext ==
    \E c \in Client : Execute(c) \/ \E m \in Command : Invoke(c, m)

AtomicSpec == AtomicInit /\ [][AtomicNext]_avars
=============================================================================
