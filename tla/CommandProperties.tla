-------------------------- MODULE CommandProperties --------------------------
(***************************************************************************)
(* What clients may rely on when they run the generic commands, and what   *)
(* the command descriptions and the documentation say of them.             *)
(***************************************************************************)
EXTENDS GenericCommands

CONSTANT None   \* a client that waits for no command

(* The view of the server that AtomicStore is about.                       *)
Visible == [db \in Database |-> [k \in Key |-> Lookup(db, k)]]

Waiting == [c \in Client |-> IF proc[c].at = "idle" THEN None ELSE proc[c].cmd]

LastReply == [c \in Client |-> proc[c].reply]

AS == INSTANCE AtomicStore WITH kv <- Visible, call <- Waiting,
                                reply <- LastReply

(* Every command takes effect at one instant.  Where DEL is not issued it  *)
(* holds: GET looks a key up and reads it under another lock, and no other *)
(* client's step in between shows.  With DEL it does not: "the number of   *)
(* keys that were successfully deleted" is counted when the keys are       *)
(* looked up, and of two clients that delete a key both may answer 1.      *)
Linearizable == AS!AtomicSpec

-----------------------------------------------------------------------------
(* Whether client c is about to delete key k of database db.               *)
Deleting(c, db, k) ==
    LET m == proc[c].cmd IN
    \/ proc[c].at = "delete" /\ m.db = db /\ k \in m.keys
    \/ proc[c].at = "start" /\ m.op = "FLUSHALL"
    \/ proc[c].at = "start" /\ m.op = "FLUSHDB" /\ m.db = db

LiveKeysStep ==
    \A db \in Database, k \in Key :
        Present(db, k) /\ ~Expired(db, k) /\ store'[db][k] = Absent
           => \E c \in Client : Deleting(c, db, k) /\ proc'[c] # proc[c]

(* A live key disappears only by a command that names it for deletion, or  *)
(* by a flush: lazy expiry, a concurrent handler that works on what it     *)
(* read earlier, and the creation of databases never remove one.           *)
LiveKeysLeaveByCommand == [][LiveKeysStep]_cvars

-----------------------------------------------------------------------------
(* set.mdx:19: "Set the value of a key, considering the value's type. If   *)
(* the key already exists, it is overwritten." A SET without an expiry     *)
(* that answers leaves its value where a reader finds it. setValues keeps  *)
(* the deadline of the entry it overwrites, and it may have passed.        *)
SetShows(c) ==
    LET m == proc[c].cmd IN
    \/ ~(proc[c].at = "write" /\ m.op = "SET" /\ m.ttl = NoTTL)
    \/ proc'[c].at # "idle" \/ proc'[c].reply = Err
    \/ Lookup(m.db, m.key)' = m.value

SetIsVisible == [][\A c \in Client : SetShows(c)]_cvars

-----------------------------------------------------------------------------
(* noeviction: "When max memory is reached, all new write commands will be *)
(* rejected".  A write is rejected only when the keys in the store take up *)
(* the limit.                                                              *)
RejectedOnlyWhenFull ==
    IsMaxMemoryExceeded =>
       MapThenSumSet(LAMBDA p : IF Present(p[1], p[2])
                                THEN Mem(store[p[1]][p[2]]) ELSE 0,
                     Database \X Key) >= MaxMemory
=============================================================================
