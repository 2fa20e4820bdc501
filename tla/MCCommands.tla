----------------------------- MODULE MCCommands -----------------------------
(* Small instances of GenericCommands for TLC: the commands that the       *)
(* clients issue and the data that the server starts with.                 *)
EXTENDS CommandProperties, TLC

CONSTANTS c1, c2, d0, d1, k1, k2, v1

Cmd(op, k) == [NoCommand EXCEPT !.op = op, !.db = d0, !.key = k, !.keys = {k} \ {Nil}]

CmdAll(op) == [NoCommand EXCEPT !.op = op, !.db = d0, !.keys = {k1, k2}]

With(m, v, ttl, opt) == [m EXCEPT !.value = v, !.ttl = ttl, !.opt = opt]

Plain(op, k) == With(Cmd(op, k), v1, NoTTL, "")

Rename(k, to) == [Cmd("RENAME", k) EXCEPT !.to = to]

Incr(d) == [Cmd("INCR", k1) EXCEPT !.delta = d]

(* A string that is no number, and the numbers of a two-bit integer.       *)
MCValue == {v1} \cup Counter

MCValueMem == [v \in Value |-> 1]

(* A volatile key of database d0, which expires when the clock leaves 1.   *)
Volatile == {[db |-> d0, key |-> k1, data |-> [value |-> v1, expireAt |-> 1]]}

(* More than the memory limit lets the restore code write.                 *)
Entries4 ==
    Volatile \cup
    {[db |-> d, key |-> k, data |-> [value |-> v1, expireAt |-> IF d = d1 THEN 2 ELSE 0]] :
        d \in {d0, d1}, k \in {k2}} \cup
    {[db |-> d1, key |-> k1, data |-> [value |-> v1, expireAt |-> 0]]}

GetSet(ttl, opt) == With([Cmd("SET", k1) EXCEPT !.get = TRUE], v1, ttl, opt)

WriteCommands ==
    {Plain("SET", k1), With(Cmd("SET", k1), v1, NoTTL, "NX"),
     GetSet(1, "XX"), GetSet(NoTTL, "NX"),
     [CmdAll("MSET") EXCEPT !.value = 0], CmdAll("DEL"),
     Incr(1), Rename(k1, k2), Cmd("GETDEL", k1), Cmd("FLUSHDB", Nil),
     Cmd("FLUSHALL", Nil)}

ExpiryCommands ==
    {With(Cmd("EXPIRE", k1), Nil, 0, ""), Cmd("PERSIST", k1),
     With(Cmd("GETEX", k1), Nil, 1, ""), Cmd("GETEX", k1),
     With(Cmd("GETEX", k1), Nil, 1, "PERSIST"),
     [With(Cmd("EXPIRE", k1), Nil, 2, "") EXCEPT !.abs = TRUE]}
    \cup {With(Cmd("EXPIRE", k1), Nil, 1, o) : o \in {"NX", "XX", "GT", "LT"}}

ReadCommands ==
    {Cmd("GET", k1), CmdAll("MGET"), Cmd("TTL", k1), Cmd("EXPIRETIME", k1),
     Cmd("RANDOMKEY", Nil), CmdAll("TOUCH"), Cmd("TYPE", k1),
     [Cmd("SELECT", Nil) EXCEPT !.db = d1]}

AllCommands == WriteCommands \cup ExpiryCommands \cup ReadCommands

GetdelOnly == {Cmd("GETDEL", k1)}

(* For the runs that find a documented promise broken.                     *)
DelCommands == {Plain("SET", k1), Cmd("DEL", k1)}

SetOnly == {Plain("SET", k1)}
=============================================================================
