----------------------------- MODULE AppendOnly -----------------------------
(***************************************************************************)
(* The append-only file of a standalone server: internal/aof with its log  *)
(* and preamble stores, the part of handleCommand that logs a command, the *)
(* REWRITEAOF compaction, a crash at any point, and the restore at start.  *)
(* Writes, truncations and syncs of the files may fail; a write that fails *)
(* leaves nothing or a part of what was to be written.                     *)
(*                                                                         *)
(* A write command is an identifier, and the data of a database is the     *)
(* sequence of the commands that were applied to its one key: two states   *)
(* are equal only if the same commands were applied in the same order.     *)
(* Values are strings, which JSON keeps, and have no expiry.  The file     *)
(* system keeps a file's order of writes: a crash leaves a prefix of what  *)
(* was written to the log, perhaps with a part of the next entry, and of a *)
(* preamble that was not synced yet any of its contents since the last     *)
(* sync.                                                                   *)
(*                                                                         *)
(* The variable exposed is not in the code.  It collects the commands that *)
(* the engine gives no guarantee for, at the step at which they lose it;   *)
(* the properties hold for all others.                                     *)
(***************************************************************************)
EXTENDS Integers, Sequences, SequencesExt

CONSTANTS
    Writer,         \* connections that issue write commands
    Database,       \* indices of the databases they select
    Strategy,       \* the aof-sync-strategy settings that are considered
    MaxWrites,      \* bound: write commands
    MaxRewrites,    \* bound: rewrites
    MaxFaults       \* bound: crashes and failing file operations

ASSUME AppendOnlyAssumption ==
    /\ Database \subseteq Nat
    /\ Strategy \subseteq {"always", "everysec", "no"}
    /\ MaxWrites \in Nat /\ MaxRewrites \in Nat /\ MaxFaults \in Nat

VARIABLES
    strategy,         \* the aof-sync-strategy of the server
    mem,              \* mem[database]: the commands applied in memory
    log,              \* the log file as written: SELECTs and commands
    synced,           \* how many of its entries are on disk for sure
    syncing,          \* the goroutine that syncs it has not ended
    currentDatabase,  \* the append store's, -1 after a start
    preamble,         \* the preamble file as written
    onDisk,           \* what the preamble file may hold after a crash
    proc,             \* proc[c]: the write of client c
    rewrite,          \* the rewrite: its next step and its copy of the state
    acked,            \* the commands whose clients have their answer
    exposed,          \* the commands without a guarantee, see above
    earlier,          \* not in the code: <<i, j>> if command i was answered
                      \* before j was applied
    writes, rewrites, faults

logVars == <<strategy, mem, log, synced, currentDatabase, syncing,
             preamble, onDisk, proc, rewrite, acked, exposed, earlier,
             writes, rewrites, faults>>

Empty == [db \in Database \cup {0} |-> <<>>]

(* The content of the preamble file: a state, nothing, or a part of the    *)
(* JSON text.                                                              *)
State(s) == <<"state", s>>
NoPreamble == <<"empty">>
Partial == <<"partial">>

Select(db) == [op |-> "SELECT", arg |-> db]
Command(id) == [op |-> "WRITE", arg |-> id]
Torn == [op |-> "torn", arg |-> 0]

Idle == [at |-> "idle", id |-> 0, db |-> 0]

NoRewrite == [at |-> "idle", copy |-> Empty]

LogInit ==
    /\ strategy \in Strategy
    /\ mem = Empty
    /\ log = <<>>
    /\ synced = 0
    /\ syncing = TRUE
    /\ currentDatabase = -1
    /\ preamble = NoPreamble
    /\ onDisk = {NoPreamble}
    /\ proc = [c \in Writer |-> Idle]
    /\ rewrite = NoRewrite
    /\ acked = {} /\ exposed = {} /\ earlier = {}
    /\ writes = 0 /\ rewrites = 0 /\ faults = 0

-----------------------------------------------------------------------------
logFile == <<log, synced, currentDatabase>>
preambleFile == <<preamble, onDisk>>
counts == <<writes, rewrites, faults>>

Fault == faults < MaxFaults /\ faults' = faults + 1 /\ UNCHANGED <<writes, rewrites>>

(* Client c's handler applies a write to the store of its database.        *)
Handle(c, db) ==
    /\ proc[c].at = "idle"
    /\ writes < MaxWrites
    /\ writes' = writes + 1
    /\ mem' = [mem EXCEPT ![db] = Append(@, writes + 1)]
    /\ proc' = [proc EXCEPT ![c] = [at |-> "log", id |-> writes + 1, db |-> db]]
    /\ earlier' = earlier \cup (acked \X {writes + 1})
    /\ UNCHANGED <<strategy, syncing, logFile, preambleFile, rewrite, acked,
                   exposed, rewrites, faults>>

(* The append store's lock is free.                                        *)
Unlocked == \A c \in Writer : proc[c].at # "sync"

(* A SELECT entry is written with the length 1 whatever the index is: the  *)
(* reader fails on an index that does not have one digit.                  *)
Readable(e) == e.op = "WRITE" \/ (e.op = "SELECT" /\ e.arg \in 0..9)

(* The restore reads the entries before the first that it cannot read.     *)
ReadableEntries(l) ==
    LET bad == SelectInSeq(l, LAMBDA e : ~Readable(e))
    IN  IF bad = 0 THEN l ELSE SubSeq(l, 1, bad - 1)

(* The restore never comes to the end of the log l: it stops at a preamble *)
(* that it cannot parse, and at an entry that it cannot read.  (A rewrite  *)
(* that failed leaves a preamble that a crash may cut.)                    *)
Unreadable(l) == Partial \in onDisk \/ ReadableEntries(l) # l

(* Store.Write: a SELECT when the database changes, and the command.  A    *)
(* command that is logged during a rewrite is truncated at its end.        *)
LogCommand(c) ==
    /\ proc[c].at = "log"
    /\ Unlocked
    /\ LET select == IF proc[c].db # currentDatabase
                     THEN <<Select(proc[c].db)>> ELSE <<>>
       IN  log' = log \o select \o <<Command(proc[c].id)>>
    /\ currentDatabase' = proc[c].db
    /\ proc' = [proc EXCEPT ![c].at = "sync"]
    /\ exposed' = IF rewrite.at # "idle" \/ Unreadable(log')
                  THEN exposed \cup {proc[c].id} ELSE exposed
    /\ UNCHANGED <<strategy, earlier, syncing, mem, synced, preambleFile,
                   rewrite, acked, counts>>

AnswerUnsynced(c) ==
    /\ proc[c].at = "sync"
    /\ acked' = acked \cup {proc[c].id}
    /\ proc' = [proc EXCEPT ![c] = Idle]
    /\ UNCHANGED <<strategy, earlier, syncing, mem, logFile, preambleFile,
                   rewrite, exposed, counts>>

(* The end of Store.Write, where "always" syncs the file, and the answer   *)
(* to the client.                                                          *)
Answer(c) ==
    /\ proc[c].at = "sync"
    /\ synced' = IF strategy = "always" THEN Len(log) ELSE synced
    /\ acked' = acked \cup {proc[c].id}
    /\ proc' = [proc EXCEPT ![c] = Idle]
    /\ UNCHANGED <<strategy, earlier, syncing, mem, log, currentDatabase,
                   preambleFile, rewrite, exposed, counts>>

(* Store.Write or its sync fails.  The error is printed, and the client    *)
(* has its answer.                                                         *)
FailedWrites(c) ==
    LET select == IF proc[c].db # currentDatabase THEN <<Select(proc[c].db)>> ELSE <<>>
        cut(l) == {l, Append(l, Torn)}
        before == [file : cut(log), database : {currentDatabase}]
        after == [file : cut(log \o select), database : {proc[c].db}]
    IN  IF select = <<>> THEN after ELSE before \cup after

AnswerFailed(c) ==
    /\ \/ /\ proc[c].at = "log" /\ Unlocked
          /\ \E w \in FailedWrites(c) : log' = w.file /\ currentDatabase' = w.database
       \/ /\ proc[c].at = "sync" /\ strategy = "always"
          /\ UNCHANGED <<log, currentDatabase>>
    /\ Fault
    /\ acked' = acked \cup {proc[c].id}
    /\ exposed' = exposed \cup {proc[c].id}
    /\ proc' = [proc EXCEPT ![c] = Idle]
    /\ UNCHANGED <<strategy, earlier, syncing, mem, synced, preambleFile,
                   rewrite>>

SyncMissesLast ==
    /\ strategy = "everysec"
    /\ Unlocked
    /\ Len(log) > 0
    /\ synced' = Len(log) - 1
    /\ UNCHANGED <<strategy, earlier, syncing, mem, log, currentDatabase,
                   preambleFile, proc, rewrite, acked, exposed, counts>>

(* The goroutine that syncs the log every second ...                       *)
Sync ==
    /\ strategy = "everysec" /\ syncing
    /\ Unlocked
    /\ synced' = Len(log)
    /\ UNCHANGED <<strategy, earlier, syncing, mem, log, currentDatabase,
                   preambleFile, proc, rewrite, acked, exposed, counts>>

(* ... until a sync fails.                                                 *)
SyncFails ==
    /\ strategy = "everysec" /\ syncing
    /\ Unlocked /\ Fault
    /\ syncing' = FALSE
    /\ UNCHANGED <<strategy, earlier, mem, logFile, preambleFile, proc,
                   rewrite, acked, exposed>>

-----------------------------------------------------------------------------
(* RewriteLog.  getState is meant to wait until no write is between its    *)
(* handler and the end of its LogCommand, but StateCopy shows that it may  *)
(* overlap one; such a write is in the copy, and can be in the new log     *)
(* too.  After the copy nothing keeps writes away.                         *)
CopyState ==
    /\ rewrite.at = "idle"
    /\ rewrites < MaxRewrites
    /\ rewrites' = rewrites + 1
    /\ rewrite' = [at |-> "copied", copy |-> mem]
    /\ exposed' = exposed \cup {proc[c].id : c \in {d \in Writer : proc[d].at = "log"}}
    /\ UNCHANGED <<strategy, earlier, syncing, mem, logFile, preambleFile,
                   proc, acked, writes, faults>>

(* CreatePreamble truncates the file, writes the state and syncs it.       *)
TruncatePreamble ==
    /\ rewrite.at = "copied"
    /\ preamble' = NoPreamble
    /\ onDisk' = onDisk \cup {NoPreamble}
    /\ rewrite' = [rewrite EXCEPT !.at = "truncated"]
    /\ UNCHANGED <<strategy, earlier, syncing, mem, logFile, proc, acked,
                   exposed, counts>>

WritePreamble ==
    /\ rewrite.at = "truncated"
    /\ preamble' = State(rewrite.copy)
    /\ onDisk' = onDisk \cup {Partial, preamble'}
    /\ rewrite' = [rewrite EXCEPT !.at = "written"]
    /\ UNCHANGED <<strategy, earlier, syncing, mem, logFile, proc, acked,
                   exposed, counts>>

SyncPreamble ==
    /\ rewrite.at = "written"
    /\ onDisk' = {preamble}
    /\ rewrite' = [rewrite EXCEPT !.at = "synced"]
    /\ UNCHANGED <<strategy, earlier, syncing, mem, logFile, preamble, proc,
                   acked, exposed, counts>>

TruncateKeepsLog ==
    /\ rewrite.at = "synced"
    /\ rewrite' = NoRewrite
    /\ UNCHANGED <<strategy, earlier, syncing, mem, logFile, preambleFile,
                   proc, acked, exposed, counts>>

TruncateKeepsSynced ==
    /\ rewrite.at = "synced"
    /\ Unlocked
    /\ log' = <<Select(currentDatabase)>>
    /\ rewrite' = NoRewrite
    /\ UNCHANGED <<strategy, earlier, syncing, mem, synced, currentDatabase,
                   preambleFile, proc, acked, exposed, counts>>

(* Store.Truncate: the log starts afresh with a SELECT of the current      *)
(* database, and is synced.                                                *)
Truncate ==
    /\ rewrite.at = "synced"
    /\ Unlocked
    /\ log' = <<Select(currentDatabase)>>
    /\ synced' = 1
    /\ rewrite' = NoRewrite
    /\ UNCHANGED <<strategy, earlier, syncing, mem, currentDatabase,
                   preambleFile, proc, acked, exposed, counts>>

(* A file operation of the rewrite fails, and ends it: the old log stays,  *)
(* beside the old preamble, a part of the new one, or all of it; or the    *)
(* log has been truncated and its SELECT is missing, cut or not synced.    *)
(* (What a crash brings back of a truncated log is exposed by now.)        *)
RewriteFails ==
    /\ rewrite.at # "idle" /\ Fault
    /\ \/ rewrite.at \in {"copied", "written"} /\ UNCHANGED <<log, synced, preambleFile>>
       \/ /\ rewrite.at = "truncated" /\ UNCHANGED <<log, synced>>
          /\ preamble' \in {NoPreamble, Partial}
          /\ onDisk' = onDisk \cup {preamble'}
       \/ /\ rewrite.at = "synced" /\ Unlocked /\ UNCHANGED preambleFile
          /\ \/ UNCHANGED <<log, synced>>
             \/ log' \in {<<>>, <<Torn>>, <<Select(currentDatabase)>>} /\ synced' = 0
    /\ rewrite' = NoRewrite
    /\ exposed' = IF rewrite.at = "copied" THEN exposed ELSE 1..writes
    /\ UNCHANGED <<strategy, earlier, mem, currentDatabase, syncing, proc,
                   acked>>

-----------------------------------------------------------------------------
(* The commands among the entries of a log, in their order.                *)
Replayed(l) ==
    LET entries == ReadableEntries(l)
        replayed[n \in 0..Len(entries)] ==
            IF n = 0 THEN <<>>
            ELSE IF entries[n].op = "WRITE" THEN Append(replayed[n - 1], entries[n].arg)
            ELSE replayed[n - 1]
    IN  replayed[Len(entries)]

(* handleCommand for a replayed command takes the database from the        *)
(* connection information of the nil connection: the zero value, 0.        *)
Replay(s, l) == [s EXCEPT ![0] = @ \o Replayed(l)]

RestoreLogOnly(p, l) == Replay(Empty, l)

RestoreLogFirst(p, l) ==
    IF p \in {Partial, NoPreamble} THEN Replay(Empty, l)
    ELSE [p[2] EXCEPT ![0] = Replayed(l) \o @]

(* Engine.Restore: the preamble, then the log.  A preamble that cannot be  *)
(* parsed ends the restore.                                                *)
Restore(p, l) ==
    CASE p = Partial    -> Empty
      [] p = NoPreamble -> Replay(Empty, l)
      [] OTHER          -> Replay(p[2], l)

(* What a crash may leave of the log.                                      *)
Survivors ==
    LET prefixes == {SubSeq(log, 1, n) : n \in synced..Len(log)}
    IN  prefixes \cup {Append(l, Torn) : l \in prefixes \ {log}}

(* Between the truncation of the preamble and the truncation of the log    *)
(* the two files do not fit each other: a crash may lose what only the old *)
(* preamble held, or apply what both hold twice.                           *)
Mismatched == rewrite.at \in {"truncated", "written", "synced"}

(* The server crashes and is started again with restore-aof.               *)
CrashAndRestart(p, l) ==
    /\ Fault
    /\ preamble' = p
    /\ onDisk' = {p}
    /\ log' = l
    /\ synced' = Len(l)
    /\ syncing' = TRUE
    /\ mem' = Restore(p, l)
    /\ currentDatabase' = -1
    /\ proc' = [c \in Writer |-> Idle]
    /\ rewrite' = NoRewrite
    /\ exposed' = IF Mismatched THEN 1..writes ELSE exposed
    /\ UNCHANGED <<strategy, earlier, acked>>

RewriteLog ==
    CopyState \/ TruncatePreamble \/ WritePreamble \/ SyncPreamble \/ Truncate

LogNext ==
    \/ \E c \in Writer :
          \/ LogCommand(c) \/ Answer(c) \/ AnswerFailed(c)
          \/ \E db \in Database : Handle(c, db)
    \/ Sync \/ SyncFails
    \/ RewriteLog \/ RewriteFails
    \/ \E p \in onDisk, l \in Survivors : CrashAndRestart(p, l)

LogSpec == LogInit /\ [][LogNext]_logVars

(* The sync goroutine wakes up every second, and a handler or a rewrite    *)
(* that has begun goes on.                                                 *)
LogFairness ==
    /\ WF_logVars(Sync)
    /\ WF_logVars(rewrite.at # "idle" /\ RewriteLog)
    /\ \A c \in Writer : WF_logVars(LogCommand(c) \/ Answer(c))

-----------------------------------------------------------------------------
LogTypeOK ==
    /\ strategy \in Strategy /\ syncing \in BOOLEAN
    /\ \A db \in DOMAIN mem : \A i \in DOMAIN mem[db] : mem[db][i] \in 1..writes
    /\ synced \in 0..Len(log)
    /\ currentDatabase \in Database \cup {-1}
    /\ preamble \in onDisk
    /\ acked \subseteq 1..writes /\ exposed \subseteq 1..writes
    /\ proc \in [Writer -> [at : {"idle", "log", "sync"}, id : 0..writes,
                            db : Database \cup {0}]]

(* The commands that a state shows.                                        *)
Shown(s) == UNION {ToSet(s[db]) : db \in DOMAIN s}

Resting == rewrite.at = "idle" /\ \A c \in Writer : proc[c].at = "idle"

(* With the strategy "always", whatever a crash leaves of the two files,   *)
(* now and after earlier crashes, failures and rewrites, every command     *)
(* that was answered is in the restored data, unless it was logged during  *)
(* a rewrite, with an error or to an unreadable log, or a rewrite that     *)
(* came after it failed or crashed while the files did not fit each other. *)
AckedSurvive ==
    strategy = "always" /\ ~Mismatched =>
        \A p \in onDisk, l \in Survivors :
            acked \ exposed \subseteq Shown(Restore(p, l))

(* A restore applies no command twice, from the preamble and from the log, *)
(* with the same exceptions: RewriteLog replaces the preamble and empties  *)
(* the log in step.                                                        *)
NoneTwice ==
    ~Mismatched =>
        \A p \in onDisk, l \in Survivors :
            LET s == Restore(p, l) IN
            \A db1, db2 \in DOMAIN s :
                \A i \in DOMAIN s[db1], j \in DOMAIN s[db2] :
                    s[db1][i] = s[db2][j] /\ s[db1][i] \notin exposed
                        => db1 = db2 /\ i = j

(* Where a restore applies two commands to one database, it applies the    *)
(* one first that was answered before the other began, with the same       *)
(* exceptions, whether they come from the preamble, from the log or from   *)
(* both, and after any number of restarts.                                 *)
AnswersInOrder ==
    ~Mismatched =>
        \A p \in onDisk, l \in Survivors :
            LET s == Restore(p, l) IN
            \A db \in DOMAIN s : \A i, j \in DOMAIN s[db] :
                i < j /\ {s[db][i], s[db][j]} \cap exposed = {}
                    => <<s[db][j], s[db][i]>> \notin earlier

(* While no command and no rewrite is under way and the strategy is        *)
(* "always", a restart brings back every database as memory shows it, in   *)
(* the order of memory.  log/store.go:149 of the SELECT in the log: "This  *)
(* allows us to switch databases appropriately when restoring the state on *)
(* startup."  But handleCommand replays every command into database 0, and *)
(* the log has the commands in the order of LogCommand, not of Handle.     *)
RestoreShowsMemory ==
    strategy = "always" /\ Resting =>
        \A p \in onDisk, l \in Survivors, db \in DOMAIN mem :
            LET guaranteed(s) == SelectSeq(s[db], LAMBDA id : id \notin exposed)
            IN  guaranteed(Restore(p, l)) = guaranteed(mem)

(* everysec, "Sync the file every second": as long as a command that was   *)
(* answered has not been taken from memory by a crash, it is on disk again *)
(* and again, whatever rewrites do and whatever file operations fail, but  *)
(* for a sync of the log that has failed.                                  *)
EventuallyDurable ==
    \A id \in 1..MaxWrites :
        []<>(/\ strategy = "everysec" /\ syncing
             /\ id \in (acked \cap Shown(mem)) \ exposed
             => \A p \in onDisk, l \in Survivors : id \in Shown(Restore(p, l)))

=============================================================================
