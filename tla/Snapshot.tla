----------------------------- MODULE Snapshot -----------------------------
(***************************************************************************)
(* The snapshot engine of a standalone server                              *)
(* (internal/snapshot/snapshot.go) and what starts it: the ticker, which   *)
(* compares the number of writes with the threshold, and SAVE.             *)
(*                                                                         *)
(* Both run TakeSnapshot step by step on the same files: manifest.bin,     *)
(* which names the latest snapshot by its millisecond and the hash of its  *)
(* contents, and <msec>/state.bin.  A file has its present contents and    *)
(* the contents that a crash may leave of it, which a sync makes one.      *)
(* The server may crash at any step, and then restores the snapshot; the   *)
(* operations on files may fail.                                           *)
(*                                                                         *)
(* The state is written as JSON, which keeps strings, and loses what is in *)
(* the unexported fields of Set and SortedSet.  The hash is taken to       *)
(* identify its text.  The copy is one step: module StateCopy is about it. *)
(***************************************************************************)
EXTENDS Naturals, FiniteSets

CONSTANTS
    Name,
    Str,         \* the strings
    Elem,        \* the elements of sets
    Snapper,     \* the goroutines that run TakeSnapshot: Ticker and SAVEs
    Ticker,
    Threshold,   \* config SnapShotThreshold
    NoEntry,     \* a key without a value
    Missing,     \* a file that does not exist
    Broken,      \* contents that json.Unmarshal rejects: none, or garbled
    MaxTime,     \* bound: the clock
    MaxWrites,   \* bound: the writes of the clients
    MaxFaults    \* bound: the crashes, and the file operations that fail

ASSUME SnapshotAssumption ==
    /\ Ticker \in Snapper /\ IsFiniteSet(Name)
    /\ Threshold \in Nat /\ MaxTime \in Nat \ {0}
    /\ MaxWrites \in Nat /\ MaxFaults \in Nat

VARIABLES
    up,           \* the server is running
    mem,          \* mem[k]: the value and the deadline of k, or NoEntry
    clock,        \* the clock, in milliseconds
    changes,      \* changeCount of the engine
    inProgress,   \* snapshotInProgress
    latest,       \* latestSnapshotMilliseconds
    manifest,     \* the file manifest.bin
    files,        \* files[m]: the file m/state.bin
    at,           \* at[s]: the next step of TakeSnapshot in goroutine s
    task,         \* task[s]: its local variables
    writes, faults,
    last,         \* not in the code: memory as the last finished snapshot saw it
    exposed       \* not in the code: the disk may be inconsistent, because
                  \* two snapshots met, or one crashed or failed

snapshotVars == <<up, mem, clock, changes, inProgress, latest, manifest,
                  files, at, task, writes, faults, last, exposed>>

disk == <<manifest, files>>
flags == <<changes, inProgress, latest>>
ghosts == <<last, exposed>>
bounds == <<writes, faults>>

-----------------------------------------------------------------------------
Never == 0
Datum == [is : {"string"}, val : Str] \cup [is : {"set"}, val : SUBSET Elem]
NewValue == {v \in Datum : v.is = "set" => v.val # {}}
FromFile == [is : {"string"}, val : Str] \cup {[is |-> "object", val |-> {}]}
Content == [value : Datum \cup FromFile, expireAt : 0..MaxTime]
State == [Name -> Content \cup {NoEntry}]
Nothing == [k \in Name |-> NoEntry]

(* json.Marshal: the fields of a Set are not exported.                     *)
Json(v) == IF v.is = "set" THEN [is |-> "object", val |-> {}] ELSE v

(* FilterExpiredKeys *)
Passed(e, t) == e.expireAt # Never /\ e.expireAt < t
Filtered(state, t) ==
    [k \in Name |-> IF state[k] = NoEntry \/ Passed(state[k], t) THEN NoEntry
                   ELSE state[k]]

WithoutDeadlines(state, msec) ==
    [state |-> [k \in Name |-> IF state[k] = NoEntry THEN NoEntry
                              ELSE [value |-> Json(state[k].value), expireAt |-> Never]],
     msec |-> msec]

(* The text of a SnapshotObject, which its hash stands for.                *)
SnapshotObject(state, msec) ==
    [state |-> [k \in Name |-> IF state[k] = NoEntry THEN NoEntry
                              ELSE [state[k] EXCEPT !.value = Json(@)]],
     msec |-> msec]

Object == [state : State, msec : 0..MaxTime]
Manifest == [hash : Object, msec : 1..MaxTime]

(* No value is mistaken for the absence of one, nor contents of a file for *)
(* a file that is missing or garbled.                                      *)
ASSUME DistinctAssumption ==
    /\ NoEntry \notin Content /\ Missing # Broken
    /\ {Missing, Broken} \cap Object = {}
    /\ {Missing, Broken} \cap Manifest = {}

(* A file: what it holds, and what a crash may leave.                      *)
File(now_, left) == [now |-> now_, left |-> left]
Synced(f) == File(f.now, {f.now})
Readable(f) == f.now \notin {Missing, Broken}

(* os.Create *)
Truncated(f) == File(Broken, f.left \cup {Broken})

(* A write at offset 0.  Over other contents, which may be longer, it can  *)
(* leave their tail.                                                       *)
Written(f, text) ==
    {File(c, f.left \cup {Broken, text}) :
        c \in {text} \cup (IF Readable(f) /\ f.now # text THEN {Broken} ELSE {})}

NoTask == [msec |-> 0, hash |-> Broken, object |-> Broken, copy |-> Nothing]

SnapshotInit ==
    /\ up = TRUE
    /\ mem = Nothing
    /\ clock = 1
    /\ changes = 0 /\ inProgress = FALSE /\ latest = 0
    /\ manifest = File(Missing, {Missing})
    /\ files = [m \in 1..MaxTime |-> File(Missing, {Missing})]
    /\ at = [s \in Snapper |-> "idle"]
    /\ task = [s \in Snapper |-> NoTask]
    /\ writes = 0 /\ faults = 0
    /\ last = Nothing /\ exposed = FALSE

-----------------------------------------------------------------------------
(* The clients.                                                            *)

Accept == up /\ writes < MaxWrites /\ writes' = writes + 1
acceptLeaves == <<up, clock, inProgress, latest, disk, at, task, faults, ghosts>>

(* setValues keeps the deadline and counts the change.                     *)
WriteValues(k, v) ==
    /\ Accept
    /\ mem' = [mem EXCEPT ![k] =
                 [value |-> v,
                  expireAt |-> IF mem[k] = NoEntry THEN Never ELSE mem[k].expireAt]]
    /\ changes' = changes + 1
    /\ UNCHANGED acceptLeaves

(* SADD to a set that exists, and SREM, change it in place: this is not    *)
(* counted.                                                                *)
ChangeInPlace(k, es) ==
    /\ Accept
    /\ mem[k] # NoEntry /\ mem[k].value.is = "set" /\ mem[k].value.val # es
    /\ mem' = [mem EXCEPT ![k].value.val = es]
    /\ UNCHANGED <<changes, acceptLeaves>>

(* Neither setExpiry nor deleteKey counts.                                 *)
WriteExpiry(k, t) ==
    /\ Accept
    /\ mem[k] # NoEntry
    /\ mem' = [mem EXCEPT ![k].expireAt = t]
    /\ UNCHANGED <<changes, acceptLeaves>>

RemoveKey(k) ==
    /\ Accept
    /\ mem[k] # NoEntry
    /\ mem' = [mem EXCEPT ![k] = NoEntry]
    /\ UNCHANGED <<changes, acceptLeaves>>

-----------------------------------------------------------------------------
(* TakeSnapshot, in goroutine s.                                           *)

Proceed(s, next) == at' = [at EXCEPT ![s] = next]
snapshotLeaves == <<up, mem, clock, bounds>>

(* The ticker fires; it takes snapshots itself, and tests no flag.         *)
TickerFires ==
    /\ up
    /\ at[Ticker] = "idle"
    /\ changes = Threshold
    /\ Proceed(Ticker, "start")
    /\ UNCHANGED <<snapshotLeaves, flags, disk, task, ghosts>>

(* SAVE: the goroutine that it starts raises the flag later.               *)
Save(s) ==
    /\ up
    /\ s # Ticker
    /\ at[s] = "idle"
    /\ ~inProgress
    /\ Proceed(s, "start")
    /\ UNCHANGED <<snapshotLeaves, flags, disk, task, ghosts>>

(* Two snapshots at once, or of the same millisecond, use one file.        *)
Others(s) == \E o \in Snapper \ {s} : at[o] \notin {"idle", "start"}

StartSnapshot(s) ==
    /\ at[s] = "start"
    /\ inProgress' = TRUE
    /\ task' = [task EXCEPT ![s].msec = clock]
    /\ Proceed(s, "open")
    /\ exposed' = (exposed \/ Others(s))
    /\ UNCHANGED <<snapshotLeaves, changes, latest, disk, last>>

(* The deferred finishSnapshotFunc, on every return.                       *)
Return(s) ==
    /\ Proceed(s, "idle")
    /\ inProgress' = FALSE
    /\ task' = [task EXCEPT ![s] = NoTask]

OpenManifest(s) ==
    /\ at[s] = "open"
    /\ \/ /\ manifest.now = Missing          \* the first snapshot
          /\ manifest' = Truncated(manifest)
          /\ Proceed(s, "copy")
          /\ UNCHANGED <<inProgress, task>>
       \/ /\ manifest.now = Broken           \* json.Unmarshal's error
          /\ Return(s)
          /\ UNCHANGED manifest
       \/ /\ Readable(manifest)
          /\ task' = [task EXCEPT ![s].hash = manifest.now.hash]
          /\ Proceed(s, "copy")
          /\ UNCHANGED <<inProgress, manifest>>
    /\ UNCHANGED <<snapshotLeaves, changes, latest, files, ghosts>>

(* The object with the time of the previous snapshot is compared, the one  *)
(* with the new time is written.                                           *)
CopyState(s) ==
    LET state == Filtered(mem, clock) IN
    /\ at[s] = "copy"
    /\ IF SnapshotObject(state, latest) = task[s].hash
       THEN Return(s)                        \* nothing new to snapshot
       ELSE /\ task' = [task EXCEPT ![s].hash = Broken, ![s].copy = state,
                           ![s].object = SnapshotObject(state, task[s].msec)]
            /\ Proceed(s, "create")
            /\ UNCHANGED inProgress
    /\ UNCHANGED <<snapshotLeaves, changes, latest, disk, ghosts>>

CreateManifest(s) ==
    /\ at[s] = "create"
    /\ manifest' = Truncated(manifest)
    /\ Proceed(s, "manifest")
    /\ UNCHANGED <<snapshotLeaves, flags, files, task, ghosts>>

WriteManifest(s) ==
    /\ at[s] = "manifest"
    /\ manifest' \in Written(manifest, [hash |-> task[s].object,
                                        msec |-> task[s].msec])
    /\ Proceed(s, "syncmanifest")
    /\ UNCHANGED <<snapshotLeaves, flags, files, task, ghosts>>

SyncManifest(s) ==
    /\ at[s] = "syncmanifest"
    /\ manifest' = Synced(manifest)
    /\ Proceed(s, "open state")
    /\ UNCHANGED <<snapshotLeaves, flags, files, task, ghosts>>

(* O_CREATE without O_TRUNC.                                               *)
OpenState(s) ==
    LET m == task[s].msec IN
    /\ at[s] = "open state"
    /\ files' = [files EXCEPT ![m] = IF @.now = Missing THEN Truncated(@) ELSE @]
    /\ exposed' = (exposed \/ files[m].now # Missing)
    /\ Proceed(s, "state")
    /\ UNCHANGED <<snapshotLeaves, flags, manifest, task, last>>

WriteState(s) ==
    LET m == task[s].msec IN
    /\ at[s] = "state"
    /\ \E f \in Written(files[m], task[s].object) : files' = [files EXCEPT ![m] = f]
    /\ Proceed(s, "syncstate")
    /\ UNCHANGED <<snapshotLeaves, flags, manifest, task, ghosts>>

NoSyncState(s) ==
    /\ at[s] = "syncstate"
    /\ Proceed(s, "finish")
    /\ UNCHANGED <<snapshotLeaves, flags, disk, task, ghosts>>

SyncState(s) ==
    /\ at[s] = "syncstate"
    /\ files' = [files EXCEPT ![task[s].msec] = Synced(@)]
    /\ Proceed(s, "finish")
    /\ UNCHANGED <<snapshotLeaves, flags, manifest, task, ghosts>>

(* Writes since the copy are forgotten by the count.                       *)
FinishSnapshot(s) ==
    /\ at[s] = "finish"
    /\ latest' = task[s].msec
    /\ changes' = 0
    /\ last' = task[s].copy
    /\ Return(s)
    /\ UNCHANGED <<snapshotLeaves, disk, exposed>>

-----------------------------------------------------------------------------
(* Between the truncation of the manifest and the sync of the state.       *)
Underway(s) == at[s] \notin {"idle", "start", "open"}
                  /\ ~(at[s] \in {"copy", "create"} /\ Readable(manifest))
                  /\ at[s] # "finish"

Fault == faults < MaxFaults /\ faults' = faults + 1

(* An operation that creates, opens, reads or writes a file fails, and     *)
(* TakeSnapshot returns; a write may have left a part of its text.         *)
OperationFails(s) ==
    LET m == task[s].msec IN
    /\ at[s] \in {"open", "create", "manifest", "open state", "state"} /\ Fault
    /\ Return(s)
    /\ IF at[s] = "state"
       THEN files' \in {files, [files EXCEPT ![m] = Truncated(@)]}
       ELSE UNCHANGED files
    /\ exposed' = (exposed \/ Underway(s))
    /\ UNCHANGED <<up, mem, clock, changes, latest, manifest, writes, last>>

(* A sync that fails is printed, and the snapshot goes on.                 *)
SyncFails(s) ==
    /\ at[s] \in {"syncmanifest", "syncstate"} /\ Fault
    /\ Proceed(s, IF at[s] = "syncmanifest" THEN "open state" ELSE "finish")
    /\ exposed' = TRUE
    /\ UNCHANGED <<up, mem, clock, flags, disk, task, writes, last>>

Crash ==
    /\ up /\ Fault
    /\ up' = FALSE
    /\ mem' = Nothing
    /\ changes' = 0 /\ inProgress' = FALSE /\ latest' = 0
    /\ \E c \in manifest.left : manifest' = File(c, {c})
    /\ \E cs \in [1..MaxTime -> UNION {files[m].left : m \in 1..MaxTime}] :
          /\ \A m \in 1..MaxTime : cs[m] \in files[m].left
          /\ files' = [m \in 1..MaxTime |-> File(cs[m], {cs[m]})]
    /\ last' = IF \E s \in Snapper : at[s] = "finish"
               THEN task[CHOOSE s \in Snapper : at[s] = "finish"].copy ELSE last
    /\ exposed' = (exposed \/ \E s \in Snapper : Underway(s))
    /\ at' = [s \in Snapper |-> "idle"]
    /\ task' = [s \in Snapper |-> NoTask]
    /\ UNCHANGED <<clock, writes>>

(* The snapshot that Restore finds, if it returns no error.                *)
Restorable ==
    /\ Readable(manifest)
    /\ Readable(files[manifest.now.msec])

(* setKeyData calls setValues, which counts, and setExpiry.                *)
Restore ==
    /\ ~up
    /\ up' = TRUE
    /\ IF Restorable
       THEN LET object == files[manifest.now.msec].now IN
            /\ latest' = object.msec
            /\ mem' = Filtered(object.state, clock)
            /\ changes' = Cardinality({k \in Name : mem'[k] # NoEntry})
       ELSE UNCHANGED <<latest, mem, changes>>
    /\ UNCHANGED <<clock, inProgress, disk, at, task, bounds, ghosts>>

Time ==
    /\ clock < MaxTime
    /\ clock' = clock + 1
    /\ UNCHANGED <<up, mem, flags, disk, at, task, bounds, ghosts>>

-----------------------------------------------------------------------------
Step(s) ==
    \/ StartSnapshot(s) \/ OpenManifest(s) \/ CopyState(s)
    \/ CreateManifest(s) \/ WriteManifest(s) \/ SyncManifest(s)
    \/ OpenState(s) \/ WriteState(s) \/ SyncState(s) \/ FinishSnapshot(s)

SnapshotNext ==
    \/ \E k \in Name : \/ \E v \in NewValue : WriteValues(k, v)
                       \/ \E es \in SUBSET Elem : ChangeInPlace(k, es)
                       \/ \E t \in 1..MaxTime : WriteExpiry(k, t)
                       \/ RemoveKey(k)
    \/ TickerFires
    \/ \E s \in Snapper : Save(s) \/ Step(s) \/ OperationFails(s) \/ SyncFails(s)
    \/ Crash \/ Restore \/ Time

(* Goroutines and the ticker run, and a server that stopped is started.    *)
SnapshotFairness ==
    /\ WF_snapshotVars(TickerFires) /\ WF_snapshotVars(Restore)
    /\ \A s \in Snapper : WF_snapshotVars(Step(s))

SnapshotSpec == SnapshotInit /\ [][SnapshotNext]_snapshotVars /\ SnapshotFairness

-----------------------------------------------------------------------------
Kept(f) == f.now \in {Missing, Broken} \cup Object

SnapshotTypeOK ==
    /\ up \in BOOLEAN /\ inProgress \in BOOLEAN /\ exposed \in BOOLEAN
    /\ mem \in State /\ last \in State
    /\ clock \in 1..MaxTime /\ latest \in 0..MaxTime /\ changes \in Nat
    /\ \A m \in 1..MaxTime : Kept(files[m])
    /\ Readable(manifest) => manifest.now.msec \in 1..MaxTime
    /\ \A s \in Snapper : at[s] # "idle" => up
    /\ writes \in 0..MaxWrites /\ faults \in 0..MaxFaults

(* Between snapshots, whatever crashes and restarts went before, the       *)
(* manifest names a state file that is there, complete, with the hash that *)
(* the manifest has, and that a crash would leave so.                      *)
SnapshotRestorable ==
    ~exposed /\ (\A s \in Snapper : at[s] \in {"idle", "start"})
        => \/ manifest.now = Missing /\ last = Nothing
           \/ /\ Restorable
              /\ manifest.left = {manifest.now}
              /\ files[manifest.now.msec] =
                    File(manifest.now.hash, {manifest.now.hash})

(* A restart gives back what the last finished snapshot saw: its strings   *)
(* and deadlines, unless they have passed, and no other key.               *)
RestoreGivesLastSnapshot ==
    [][~up /\ up' /\ ~exposed =>
          \A k \in Name :
             IF last[k] = NoEntry \/ Passed(last[k], clock) THEN mem'[k] = NoEntry
             ELSE /\ mem'[k] # NoEntry
                  /\ mem'[k].expireAt = last[k].expireAt
                  /\ last[k].value.is = "string" => mem'[k] = last[k]]_snapshotVars

(* LASTSAVE answers with the time of the snapshot that a restart would     *)
(* restore, before and after restarts.                                     *)
LastSaveIsRestored ==
    up /\ ~exposed /\ (\A s \in Snapper : at[s] \in {"idle", "start"})
        => latest = (IF Readable(manifest) THEN manifest.now.msec ELSE 0)

(* snapshot.md:9: "The number of write commands before a snapshot is       *)
(* triggered." A count that has reached the threshold is reset by a        *)
(* snapshot, or what the snapshot would write is in the manifest already.  *)
(* The ticker waits for a count that is equal to the threshold (line 146); *)
(* one that passes it between two ticks stays above it.                    *)
ThresholdIsServed ==
    []<>(up /\ changes >= Threshold /\ ~exposed =>
            /\ Readable(manifest)
            /\ manifest.now.hash = SnapshotObject(Filtered(mem, clock), latest))

(* What the manifest, the state files and the engine say of the last       *)
(* snapshot fits together.                                                 *)
SnapshotsConsistent == SnapshotTypeOK /\ SnapshotRestorable /\ LastSaveIsRestored
=============================================================================
