-------------------------- MODULE SnapshotProofs --------------------------
(***************************************************************************)
(* Proofs about Snapshot: for any keys and values, any number of           *)
(* goroutines that take snapshots and any number of crashes and failing    *)
(* file operations, the manifest names a complete snapshot whenever none   *)
(* is under way, and a restart restores what the last one saw, as long as  *)
(* no two snapshots met and nothing failed or crashed between the          *)
(* truncation of the manifest and the sync of the state.                   *)
(*                                                                         *)
(* SnapshotRestorable says nothing while a snapshot is under way, so it is *)
(* not inductive.  Stage says how far the files are at every step of it.   *)
(***************************************************************************)
EXTENDS Snapshot, FiniteSetTheorems, TLAPS

Contents == Object \cup {Missing, Broken}
ManifestContents == Manifest \cup {Missing, Broken}

FileOf(C) == [now : C, left : SUBSET C]

Quiet == {"idle", "start"}
Steps == Quiet \cup {"open", "copy", "create", "manifest", "syncmanifest",
                     "open state", "state", "syncstate", "finish"}
Task == [msec : 0..MaxTime, hash : Object \cup {Broken},
         object : Object \cup {Broken}, copy : State]

(* The types of what TypeOK leaves open, and what the locals of a snapshot *)
(* under way are.                                                          *)
LocalsTyped ==
    /\ manifest \in FileOf(ManifestContents)
    /\ files \in [1..MaxTime -> FileOf(Contents)]
    /\ at \in [Snapper -> Steps] /\ task \in [Snapper -> Task]
    /\ \A s \in Snapper :
          /\ at[s] \in Quiet => task[s] = NoTask
          /\ at[s] \notin Quiet => task[s].msec \in 1..MaxTime
          /\ at[s] = "open" => task[s].hash = Broken
          /\ at[s] \notin Quiet \cup {"open", "copy"} =>
                task[s].object = SnapshotObject(task[s].copy, task[s].msec)
    /\ ~up => mem = Nothing /\ latest = 0

(* The disk holds one snapshot, of the state saved, or none at all.        *)
Holds(saved) ==
    \/ manifest = File(Missing, {Missing}) /\ saved = Nothing
    \/ LET h == SnapshotObject(saved, manifest.now.msec) IN
       /\ manifest.now \in Manifest /\ manifest.now.hash = h
       /\ manifest.left = {manifest.now}
       /\ files[manifest.now.msec] = File(h, {h})

LatestNamed == latest = IF Readable(manifest) THEN manifest.now.msec ELSE 0

Text(s) == [hash |-> task[s].object, msec |-> task[s].msec]
StateFile(s) == files[task[s].msec]

(* How far the disk is when s, alone, is about to take its next step.      *)
Stage(s) ==
    /\ at[s] = "open" => Holds(last) /\ LatestNamed
    /\ at[s] = "copy" =>
          \/ Holds(last) /\ LatestNamed /\ Readable(manifest)
          \/ manifest.now = Broken /\ task[s].hash = Broken
    /\ at[s] = "create" =>
          manifest.now = Broken \/ (Holds(last) /\ LatestNamed /\ Readable(manifest))
    /\ at[s] = "manifest" => manifest.now = Broken
    /\ at[s] = "syncmanifest" => manifest.now = Text(s)
    /\ at[s] \in {"open state", "state", "syncstate", "finish"} =>
          manifest = File(Text(s), {Text(s)})
    /\ at[s] = "state" => StateFile(s).now = Broken
    /\ at[s] = "syncstate" => StateFile(s).now = task[s].object
    /\ at[s] = "finish" => StateFile(s) = File(task[s].object, {task[s].object})

(* Unless the disk is exposed one snapshot at most is under way, and the   *)
(* disk is as far as it is; when none is it holds the last one.            *)
OneUnderWay == \A s, o \in Snapper : at[s] \notin Quiet /\ at[o] \notin Quiet => s = o
DiskFollows ==
    ~exposed =>
        /\ OneUnderWay
        /\ \A s \in Snapper : Stage(s)
        /\ (\A s \in Snapper : at[s] \in Quiet) => Holds(last) /\ (up => LatestNamed)

IInv == SnapshotTypeOK /\ LocalsTyped /\ DiskFollows

-----------------------------------------------------------------------------
(* The operators on states and files.                                      *)

LEMMA Constants ==
    /\ MaxTime \in Nat \ {0} /\ 0 \in 0..MaxTime /\ 1 \in 1..MaxTime
    /\ NoEntry \notin Content /\ Missing # Broken
    /\ Missing \notin Object /\ Broken \notin Object
    /\ Missing \notin Manifest /\ Broken \notin Manifest
  BY SnapshotAssumption, DistinctAssumption

(* JSON makes a string of a string and an empty object of anything else.   *)
LEMMA JsonLoaded ==
    ASSUME NEW v \in Datum \cup FromFile
    PROVE  Json(v) \in FromFile /\ (v.is = "string" => Json(v) = v)
  <1>1. CASE v \in [is : {"string"}, val : Str]
    BY <1>1 DEF Json, FromFile
  <1>2. CASE v \in [is : {"set"}, val : SUBSET Elem]
    BY <1>2 DEF Json, FromFile
  <1>3. CASE v = [is |-> "object", val |-> {}]
    BY <1>3 DEF Json, FromFile
  <1>4. QED
    BY <1>1, <1>2, <1>3 DEF Datum, FromFile

LEMMA EntryFields ==
    ASSUME NEW e \in Content
    PROVE  /\ e.value \in Datum \cup FromFile /\ e.expireAt \in 0..MaxTime
           /\ [e EXCEPT !.value = Json(@)] \in Content
           /\ [e EXCEPT !.value = Json(@)].expireAt = e.expireAt
           /\ e.value.is = "string" => [e EXCEPT !.value = Json(@)] = e
  <1>1. e.value \in Datum \cup FromFile /\ e.expireAt \in 0..MaxTime
    BY DEF Content
  <1>2. Json(e.value) \in FromFile /\ (e.value.is = "string" => Json(e.value) = e.value)
    BY <1>1, JsonLoaded
  <1>3. QED
    BY <1>1, <1>2 DEF Content

LEMMA NothingIsState == Nothing \in State
  BY DEF Nothing, State

LEMMA FilteredState ==
    ASSUME NEW state \in State, NEW t PROVE Filtered(state, t) \in State
  BY DEF Filtered, State

LEMMA ObjectOfState ==
    ASSUME NEW state \in State, NEW m \in 0..MaxTime
    PROVE  /\ SnapshotObject(state, m) \in Object
           /\ SnapshotObject(state, m).msec = m
           /\ \A k \in Name : SnapshotObject(state, m).state[k] =
                 IF state[k] = NoEntry THEN NoEntry
                 ELSE [state[k] EXCEPT !.value = Json(@)]
  <1>1. \A k \in Name : state[k] # NoEntry => [state[k] EXCEPT !.value = Json(@)] \in Content
    BY EntryFields DEF State
  <1>2. [k \in Name |-> IF state[k] = NoEntry THEN NoEntry
                       ELSE [state[k] EXCEPT !.value = Json(@)]] \in State
    BY <1>1 DEF State
  <1>3. QED
    BY <1>2 DEF SnapshotObject, Object

LEMMA ObjectFields ==
    ASSUME NEW o \in Object PROVE o.state \in State /\ o.msec \in 0..MaxTime
  BY DEF Object

(* What the steps on a file do to its contents.                            *)
LEMMA FileSteps ==
    ASSUME NEW C, Broken \in C, NEW f \in FileOf(C), NEW text \in C
    PROVE  /\ Truncated(f) \in FileOf(C) /\ Truncated(f).now = Broken
           /\ Synced(f) \in FileOf(C) /\ Synced(f) = File(f.now, {f.now})
           /\ \A w \in Written(f, text) :
                 /\ w \in FileOf(C)
                 /\ f.now = Broken => w.now = text
  BY DEF FileOf, Truncated, Synced, File, Written, Readable

LEMMA FileFields ==
    ASSUME NEW C, NEW f \in FileOf(C)
    PROVE  /\ f.now \in C /\ f.left \subseteq C
           /\ \A c \in f.left \cup {f.now} : File(c, {c}) \in FileOf(C)
  BY DEF FileOf, File

-----------------------------------------------------------------------------
(* Types.                                                                  *)

LEMMA InitTyped == SnapshotInit => SnapshotTypeOK /\ LocalsTyped
  <1> SUFFICES ASSUME SnapshotInit PROVE SnapshotTypeOK /\ LocalsTyped
    OBVIOUS
  <1>1. {Missing, Broken} \subseteq Contents /\ {Missing, Broken} \subseteq ManifestContents
    BY DEF Contents, ManifestContents
  <1>2. NoTask \in Task
    BY Constants, NothingIsState DEF NoTask, Task
  <1>3. SnapshotTypeOK
    <2>1. 0 \in 0..MaxWrites /\ 0 \in 0..MaxFaults
      BY SnapshotAssumption
    <2>2. \A m \in 1..MaxTime : Kept(files[m])
      BY DEF SnapshotInit, Kept, File
    <2>3. ~Readable(manifest)
      BY DEF SnapshotInit, Readable, File
    <2>4. QED
      BY <2>1, <2>2, <2>3, Constants, NothingIsState DEF SnapshotInit, SnapshotTypeOK
  <1>4. LocalsTyped
    BY <1>1, <1>2 DEF SnapshotInit, LocalsTyped, File, FileOf, Quiet, Steps
  <1>5. QED
    BY <1>3, <1>4

LEMMA LocalsSame ==
    ASSUME LocalsTyped, UNCHANGED <<up, manifest, files, at, task>>,
           up \/ UNCHANGED <<mem, latest>>
    PROVE  LocalsTyped'
  BY DEF LocalsTyped, SnapshotObject

(* The commands of clients, the clock, and the starts of snapshots leave   *)
(* the files and the locals alone.                                         *)
LEMMA ClientTyped ==
    ASSUME SnapshotTypeOK, LocalsTyped,
           NEW k \in Name,
           \/ \E v \in NewValue : WriteValues(k, v)
           \/ \E es \in SUBSET Elem : ChangeInPlace(k, es)
           \/ \E t \in 1..MaxTime : WriteExpiry(k, t)
           \/ RemoveKey(k)
    PROVE  SnapshotTypeOK' /\ LocalsTyped'
  <1>1. LocalsTyped' /\ up
    <2>1. up /\ UNCHANGED <<up, manifest, files, at, task>>
      BY DEF WriteValues, ChangeInPlace, WriteExpiry, RemoveKey, Accept, acceptLeaves, disk
    <2>2. QED
      BY <2>1, LocalsSame
  <1>2. mem[k] # NoEntry => mem[k] \in Content
    BY DEF SnapshotTypeOK, State
  <1>3. mem' \in State
    <2>1. ASSUME NEW v \in NewValue, WriteValues(k, v) PROVE mem' \in State
      <3>1. v \in Datum \cup FromFile
        BY DEF NewValue
      <3>2. (IF mem[k] = NoEntry THEN Never ELSE mem[k].expireAt) \in 0..MaxTime
        BY <1>2, EntryFields, Constants DEF Never
      <3>3. QED
        BY <2>1, <3>1, <3>2 DEF WriteValues, SnapshotTypeOK, State, Content
    <2>2. ASSUME NEW es \in SUBSET Elem, ChangeInPlace(k, es) PROVE mem' \in State
      <3>1. mem[k] \in Content /\ mem[k].value \in Datum \cup FromFile /\ mem[k].value.is = "set"
        BY <1>2, <2>2, EntryFields DEF ChangeInPlace
      <3>2. mem[k].value \in [is : {"set"}, val : SUBSET Elem]
        BY <3>1 DEF Datum, FromFile
      <3>3. [mem[k].value EXCEPT !.val = es] \in Datum
        BY <3>2 DEF Datum
      <3>4. [mem[k] EXCEPT !.value.val = es] \in Content
        BY <3>1, <3>3 DEF Content
      <3>5. QED
        BY <2>2, <3>4 DEF ChangeInPlace, SnapshotTypeOK, State
    <2>3. ASSUME NEW t \in 1..MaxTime, WriteExpiry(k, t) PROVE mem' \in State
      <3>1. t \in 0..MaxTime
        BY Constants
      <3>2. [mem[k] EXCEPT !.expireAt = t] \in Content
        BY <1>2, <2>3, <3>1 DEF WriteExpiry, Content
      <3>3. QED
        BY <2>3, <3>2 DEF WriteExpiry, SnapshotTypeOK, State
    <2>4. CASE RemoveKey(k)
      BY <2>4 DEF RemoveKey, SnapshotTypeOK, State
    <2>5. QED
      BY <2>1, <2>2, <2>3, <2>4
  <1>4. changes' \in Nat /\ writes' \in 0..MaxWrites
    BY SnapshotAssumption DEF SnapshotTypeOK, WriteValues, ChangeInPlace, WriteExpiry, RemoveKey, Accept
  <1>5. UNCHANGED <<up, clock, inProgress, latest, manifest, files, at, faults, last, exposed>>
    BY DEF WriteValues, ChangeInPlace, WriteExpiry, RemoveKey, acceptLeaves, disk, ghosts
  <1>6. QED
    BY <1>1, <1>3, <1>4, <1>5 DEF SnapshotTypeOK, Readable

LEMMA StartTyped ==
    ASSUME SnapshotTypeOK, LocalsTyped, TickerFires \/ Time \/ \E s \in Snapper : Save(s)
    PROVE  SnapshotTypeOK' /\ LocalsTyped'
  <1>1. LocalsTyped'
    <2>1. CASE Time
      BY <2>1, LocalsSame DEF Time, flags, disk
    <2>2. CASE TickerFires \/ \E s \in Snapper : Save(s)
      <3>1. PICK s \in Snapper : at[s] = "idle" /\ at' = [at EXCEPT ![s] = "start"]
        BY <2>2, SnapshotAssumption DEF TickerFires, Save, Proceed
      <3>2. UNCHANGED <<up, mem, latest, manifest, files, task>>
        BY <2>2 DEF TickerFires, Save, snapshotLeaves, flags, disk
      <3>3. at' \in [Snapper -> Steps] /\ task[s] = NoTask
        BY <3>1 DEF LocalsTyped, Quiet, Steps
      <3>4. \A o \in Snapper : at'[o] = IF o = s THEN "start" ELSE at[o]
        BY <3>1 DEF LocalsTyped
      <3>5. QED
        BY <3>2, <3>3, <3>4 DEF LocalsTyped, Quiet, SnapshotObject
    <2>3. QED
      BY <2>1, <2>2
  <1>2. clock' \in 1..MaxTime
    BY Constants DEF SnapshotTypeOK, TickerFires, Time, Save, snapshotLeaves
  <1>3. \A s \in Snapper : at'[s] # "idle" => up'
    BY SnapshotAssumption DEF SnapshotTypeOK, LocalsTyped, TickerFires, Time, Save, snapshotLeaves, Proceed
  <1>4. UNCHANGED <<up, mem, flags, disk, task, bounds, ghosts>>
    BY DEF TickerFires, Time, Save, snapshotLeaves
  <1>5. QED
    BY <1>1, <1>2, <1>3, <1>4 DEF SnapshotTypeOK, flags, disk, bounds, ghosts, Readable

(* The steps of a snapshot.                                                *)
LEMMA StepTyped ==
    ASSUME SnapshotTypeOK, LocalsTyped, NEW s \in Snapper, Step(s)
    PROVE  SnapshotTypeOK' /\ LocalsTyped'
  <1> DEFINE m == task[s].msec
  <1>0. /\ at[s] # "idle" /\ up /\ up' /\ UNCHANGED <<mem, clock, writes, faults>>
        /\ task[s] \in Task /\ manifest \in FileOf(ManifestContents)
    BY DEF Step, StartSnapshot, OpenManifest, CopyState, CreateManifest, WriteManifest,
           SyncManifest, OpenState, WriteState, SyncState, FinishSnapshot, snapshotLeaves,
           bounds, SnapshotTypeOK, LocalsTyped
  <1>1. Broken \in Contents /\ Broken \in ManifestContents /\ NoTask \in Task
    BY Constants, NothingIsState DEF Contents, ManifestContents, NoTask, Task
  <1>2. at[s] \notin Quiet => m \in 1..MaxTime /\ files[m] \in FileOf(Contents)
    BY DEF LocalsTyped
  <1>3. at[s] \notin Quiet \cup {"open", "copy"} =>
            /\ task[s].object \in Object /\ task[s].object = SnapshotObject(task[s].copy, m)
            /\ task[s].copy \in State
    BY <1>0, <1>2, ObjectOfState DEF LocalsTyped, Task
  <1>4. at[s] = "start" => [task[s] EXCEPT !.msec = clock] \in Task /\ clock \in 1..MaxTime
    BY <1>0 DEF Task, SnapshotTypeOK
  <1>5. at[s] = "open" /\ Readable(manifest) =>
            [task[s] EXCEPT !.hash = manifest.now.hash] \in Task
    BY <1>0, FileFields DEF Readable, ManifestContents, Manifest, Task
  <1>6. at[s] = "copy" =>
            /\ Filtered(mem, clock) \in State
            /\ SnapshotObject(Filtered(mem, clock), m) \in Object
            /\ [task[s] EXCEPT !.hash = Broken, !.copy = Filtered(mem, clock),
                   !.object = SnapshotObject(Filtered(mem, clock), m)] \in Task
    <2>1. Filtered(mem, clock) \in State /\ (at[s] = "copy" => m \in 0..MaxTime)
      BY <1>2, FilteredState DEF SnapshotTypeOK, Quiet
    <2>2. QED
      BY <1>0, <2>1, ObjectOfState DEF Task
  <1>7. manifest' \in FileOf(ManifestContents)
    <2>1. at[s] = "manifest" => [hash |-> task[s].object, msec |-> m] \in ManifestContents
      BY <1>2, <1>3 DEF Quiet, ManifestContents, Manifest
    <2>2. CASE OpenManifest(s) \/ CreateManifest(s) \/ SyncManifest(s)
      <3>1. /\ Truncated(manifest) \in FileOf(ManifestContents)
            /\ Synced(manifest) \in FileOf(ManifestContents)
        BY <1>0, <1>1, FileSteps
      <3>2. QED
        BY <1>0, <2>2, <3>1 DEF OpenManifest, CreateManifest, SyncManifest
    <2>3. CASE WriteManifest(s)
      <3> DEFINE text == [hash |-> task[s].object, msec |-> m]
      <3>1. text \in ManifestContents
        BY <2>1, <2>3 DEF WriteManifest
      <3> HIDE DEF text
      <3>2. \A w \in Written(manifest, text) : w \in FileOf(ManifestContents)
        BY <1>0, <1>1, <3>1, FileSteps
      <3>3. manifest' \in Written(manifest, text)
        BY <2>3 DEF WriteManifest, text
      <3>4. QED
        BY <3>2, <3>3
    <2>4. CASE UNCHANGED manifest
      BY <1>0, <2>4
    <2>5. QED
      BY <2>2, <2>3, <2>4 DEF Step, StartSnapshot, CopyState, OpenState, WriteState,
            SyncState, FinishSnapshot, disk
  <1>8. files' \in [1..MaxTime -> FileOf(Contents)]
    <2>1. files \in [1..MaxTime -> FileOf(Contents)]
      BY DEF LocalsTyped
    <2>2. CASE OpenState(s)
      <3>1. Truncated(files[m]) \in FileOf(Contents)
        BY <1>1, <1>2, <2>2, FileSteps DEF OpenState, Quiet
      <3>2. QED
        BY <1>2, <2>1, <2>2, <3>1 DEF OpenState, Quiet
    <2>3. CASE WriteState(s)
      <3>1. task[s].object \in Contents /\ files[m] \in FileOf(Contents)
        BY <1>2, <1>3, <2>3 DEF WriteState, Quiet, Contents
      <3>2. \A f \in Written(files[m], task[s].object) :
               f \in FileOf(Contents)
        BY <1>1, <3>1, FileSteps
      <3>3. PICK f \in Written(files[m], task[s].object) : files' = [files EXCEPT ![m] = f]
        BY <2>3 DEF WriteState
      <3>4. QED
        BY <2>1, <3>2, <3>3
    <2>4. CASE SyncState(s)
      <3>1. Synced(files[m]) \in FileOf(Contents)
        BY <1>1, <1>2, <2>4, FileSteps DEF SyncState, Quiet
      <3>2. QED
        BY <2>1, <2>4, <3>1 DEF SyncState
    <2>5. CASE UNCHANGED files
      BY <2>1, <2>5
    <2>6. QED
      BY <2>2, <2>3, <2>4, <2>5 DEF Step, StartSnapshot, OpenManifest, CopyState,
            CreateManifest, WriteManifest, SyncManifest, FinishSnapshot, disk
  <1>9. PICK next \in Steps, mine \in Task :
            /\ at' = [at EXCEPT ![s] = next] /\ task' = [task EXCEPT ![s] = mine]
            /\ next \in Quiet => mine = NoTask
            /\ next \notin Quiet => mine.msec \in 1..MaxTime
            /\ next = "open" => mine.hash = Broken
            /\ next \notin Quiet \cup {"open", "copy"} =>
                  mine.object = SnapshotObject(mine.copy, mine.msec)
    <2>0. task = [task EXCEPT ![s] = task[s]]
      BY DEF LocalsTyped
    <2>1. CASE StartSnapshot(s)
      <3>1. at[s] = "start" /\ task[s] = NoTask /\ "open" \in Steps
        BY <2>1 DEF StartSnapshot, LocalsTyped, Quiet, Steps
      <3>2. [task[s] EXCEPT !.msec = clock].hash = Broken
        BY <3>1 DEF NoTask
      <3>3. [task[s] EXCEPT !.msec = clock].msec \in 1..MaxTime
        BY <1>4, <3>1 DEF NoTask
      <3>4. QED
        BY <1>4, <2>1, <3>1, <3>2, <3>3 DEF StartSnapshot, Proceed, Quiet
    <2>2. CASE OpenManifest(s)
      <3>1. at[s] = "open" /\ m \in 1..MaxTime
        BY <1>2, <2>2 DEF OpenManifest, Quiet
      <3>2. CASE Return(s)
        BY <1>1, <3>2 DEF Return, Proceed, Quiet, Steps
      <3>3. CASE Proceed(s, "copy") /\ UNCHANGED task
        BY <1>0, <2>0, <3>1, <3>3 DEF Proceed, Quiet, Steps
      <3>4. CASE /\ Readable(manifest) /\ Proceed(s, "copy")
                 /\ task' = [task EXCEPT ![s].hash = manifest.now.hash]
        <4>1. [task[s] EXCEPT !.hash = manifest.now.hash].msec = m
          BY <1>0 DEF Task
        <4>2. QED
          BY <1>5, <3>1, <3>4, <4>1 DEF Proceed, Quiet, Steps
      <3>5. QED
        BY <2>2, <3>2, <3>3, <3>4 DEF OpenManifest
    <2>3. CASE CopyState(s)
      <3>1. at[s] = "copy" /\ m \in 1..MaxTime
        BY <1>2, <2>3 DEF CopyState, Quiet
      <3>2. CASE Return(s)
        BY <1>1, <3>2 DEF Return, Proceed, Quiet, Steps
      <3> DEFINE mine == [task[s] EXCEPT !.hash = Broken, !.copy = Filtered(mem, clock),
                             !.object = SnapshotObject(Filtered(mem, clock), m)]
      <3>3. CASE Proceed(s, "create") /\ task' = [task EXCEPT ![s] = mine]
        <4>1. mine \in Task
          BY <1>6, <3>1
        <4>2. mine.msec = m /\ mine.copy = Filtered(mem, clock)
              /\ mine.object = SnapshotObject(Filtered(mem, clock), m)
          BY <1>0 DEF Task
        <4> HIDE DEF mine
        <4>3. QED
          BY <3>1, <3>3, <4>1, <4>2 DEF Proceed, Quiet, Steps
      <3>4. QED
        BY <2>3, <3>2, <3>3 DEF CopyState
    <2>4. CASE FinishSnapshot(s)
      BY <1>1, <2>4 DEF FinishSnapshot, Return, Proceed, Quiet, Steps
    <2>5. CASE /\ UNCHANGED task
               /\ at[s] \notin Quiet \cup {"open", "copy"}
               /\ \E next \in Steps \ (Quiet \cup {"open", "copy"}) : Proceed(s, next)
      BY <1>0, <1>2, <1>3, <2>0, <2>5 DEF Proceed
    <2>6. QED
      BY <2>1, <2>2, <2>3, <2>4, <2>5 DEF Step, CreateManifest, WriteManifest,
            SyncManifest, OpenState, WriteState, SyncState, Proceed, Quiet, Steps
  <1>10. LocalsTyped'
    <2>1. at' \in [Snapper -> Steps] /\ task' \in [Snapper -> Task]
      BY <1>9 DEF LocalsTyped
    <2>2. \A o \in Snapper :
            /\ o = s => at'[o] = next /\ task'[o] = mine
            /\ o # s => at'[o] = at[o] /\ task'[o] = task[o]
      BY <1>9 DEF LocalsTyped
    <2>3. \A o \in Snapper :
            /\ at'[o] \in Quiet => task'[o] = NoTask
            /\ at'[o] \notin Quiet => task'[o].msec \in 1..MaxTime
            /\ at'[o] = "open" => task'[o].hash = Broken
            /\ at'[o] \notin Quiet \cup {"open", "copy"} =>
                  task'[o].object = SnapshotObject(task'[o].copy, task'[o].msec)
      BY <1>9, <2>2 DEF LocalsTyped
    <2>4. QED
      BY <1>0, <1>7, <1>8, <2>1, <2>3 DEF LocalsTyped, SnapshotObject
  <1>11. SnapshotTypeOK'
    <2>1. last' \in State /\ latest' \in 0..MaxTime /\ changes' \in Nat
      <3>1. CASE FinishSnapshot(s)
        <4>1. m \in 0..MaxTime /\ task[s].copy \in State
          BY <1>2, <1>3, <3>1 DEF FinishSnapshot, Quiet
        <4>2. QED
          BY <3>1, <4>1 DEF FinishSnapshot
      <3>2. CASE UNCHANGED <<last, latest, changes>>
        BY <3>2 DEF SnapshotTypeOK
      <3>3. QED
        BY <3>1, <3>2 DEF Step, StartSnapshot, OpenManifest, CopyState, CreateManifest,
              WriteManifest, SyncManifest, OpenState, WriteState, SyncState, flags, ghosts
    <2>2. inProgress' \in BOOLEAN /\ exposed' \in BOOLEAN
      BY DEF SnapshotTypeOK, Step, StartSnapshot, OpenManifest, CopyState, Return,
            CreateManifest, WriteManifest, SyncManifest, OpenState, WriteState, SyncState,
            FinishSnapshot, snapshotLeaves, flags, disk, ghosts
    <2>3. \A i \in 1..MaxTime : Kept(files'[i])
      BY <1>8, FileFields DEF Kept, Contents
    <2>4. Readable(manifest') => manifest'.now.msec \in 1..MaxTime
      BY <1>7, FileFields DEF Readable, ManifestContents, Manifest
    <2>5. QED
      BY <1>0, <2>1, <2>2, <2>3, <2>4 DEF SnapshotTypeOK, Kept
  <1>12. QED
    BY <1>10, <1>11

(* A failed operation returns, or goes on after a sync, with the files as  *)
(* they were, or the state file garbled.                                   *)
LEMMA FailsTyped ==
    ASSUME SnapshotTypeOK, LocalsTyped, NEW s \in Snapper, OperationFails(s) \/ SyncFails(s)
    PROVE  SnapshotTypeOK' /\ LocalsTyped'
  <1>1. /\ at[s] \notin Quiet /\ up /\ UNCHANGED <<up, mem, clock, changes, latest, writes,
                                                 last, manifest>>
        /\ faults' \in 0..MaxFaults /\ inProgress' \in BOOLEAN /\ exposed' \in BOOLEAN
    <2>1. at[s] \notin Quiet /\ faults < MaxFaults /\ faults' = faults + 1
      BY DEF OperationFails, SyncFails, Fault, Quiet
    <2>2. faults' \in 0..MaxFaults /\ up
      BY <2>1, SnapshotAssumption DEF SnapshotTypeOK, Quiet
    <2>3. UNCHANGED <<up, mem, clock, changes, latest, writes, last, manifest>>
      BY DEF OperationFails, SyncFails, flags, disk
    <2>4. inProgress' \in BOOLEAN
      BY DEF OperationFails, SyncFails, Return, flags, SnapshotTypeOK
    <2>5. exposed' \in BOOLEAN
      BY DEF OperationFails, SyncFails, SnapshotTypeOK
    <2>6. QED
      BY <2>1, <2>2, <2>3, <2>4, <2>5
  <1>2. files' \in [1..MaxTime -> FileOf(Contents)]
    <2>1. /\ files \in [1..MaxTime -> FileOf(Contents)]
          /\ files[task[s].msec] \in FileOf(Contents)
      BY <1>1 DEF LocalsTyped
    <2>2. Truncated(files[task[s].msec]) \in FileOf(Contents)
      BY <2>1, FileSteps DEF Contents
    <2>3. QED
      BY <2>1, <2>2 DEF OperationFails, SyncFails, disk
  <1>3. LocalsTyped'
    <2>1. CASE OperationFails(s)
      <3>1. NoTask \in Task
        BY Constants, NothingIsState DEF NoTask, Task
      <3>2. at' = [at EXCEPT ![s] = "idle"] /\ task' = [task EXCEPT ![s] = NoTask]
        BY <2>1 DEF OperationFails, Return, Proceed
      <3>3. \A o \in Snapper : /\ at'[o] = IF o = s THEN "idle" ELSE at[o]
                               /\ task'[o] = IF o = s THEN NoTask ELSE task[o]
        BY <3>2 DEF LocalsTyped
      <3>4. at' \in [Snapper -> Steps] /\ task' \in [Snapper -> Task]
        BY <3>1, <3>2 DEF LocalsTyped, Steps, Quiet
      <3>5. QED
        BY <1>1, <1>2, <3>3, <3>4 DEF LocalsTyped, Quiet, SnapshotObject
    <2>2. CASE SyncFails(s)
      <3>1. PICK next \in {"open state", "finish"} :
               at' = [at EXCEPT ![s] = next] /\ UNCHANGED task
        BY <2>2 DEF SyncFails, Proceed
      <3>2. at[s] \notin Quiet \cup {"open", "copy"}
        BY <2>2 DEF SyncFails, Quiet
      <3>3. \A o \in Snapper : at'[o] = IF o = s THEN next ELSE at[o]
        BY <3>1 DEF LocalsTyped
      <3>4. at' \in [Snapper -> Steps]
        BY <3>1 DEF LocalsTyped, Steps
      <3>5. QED
        BY <1>1, <1>2, <3>1, <3>2, <3>3, <3>4 DEF LocalsTyped, Quiet, SnapshotObject
    <2>3. QED
      BY <2>1, <2>2
  <1>4. \A i \in 1..MaxTime : Kept(files'[i])
    BY <1>2, FileFields DEF Kept, Contents
  <1>5. QED
    BY <1>1, <1>3, <1>4 DEF SnapshotTypeOK, Readable

(* A crash leaves of every file one of the contents that it may leave.     *)
LEMMA CrashTyped ==
    ASSUME SnapshotTypeOK, LocalsTyped, Crash PROVE SnapshotTypeOK' /\ LocalsTyped'
  <1>1. NoTask \in Task
    BY Constants, NothingIsState DEF NoTask, Task
  <1>2. PICK c \in manifest.left : manifest' = File(c, {c})
    BY DEF Crash
  <1>3. manifest' \in FileOf(ManifestContents)
    BY <1>2, FileFields DEF LocalsTyped
  <1>4. PICK cs : /\ \A m \in 1..MaxTime : cs[m] \in files[m].left
                  /\ files' = [m \in 1..MaxTime |-> File(cs[m], {cs[m]})]
    BY DEF Crash
  <1>5. files' \in [1..MaxTime -> FileOf(Contents)]
    BY <1>4, FileFields DEF LocalsTyped
  <1>6. LocalsTyped'
    BY <1>1, <1>3, <1>5 DEF Crash, LocalsTyped, Quiet, Steps
  <1>7. last' \in State
    BY DEF Crash, SnapshotTypeOK, LocalsTyped, Task
  <1>8. \A m \in 1..MaxTime : Kept(files'[m])
    BY <1>5, FileFields DEF Kept, Contents
  <1>9. Readable(manifest') => manifest'.now.msec \in 1..MaxTime
    BY <1>3, FileFields DEF Readable, ManifestContents, Manifest
  <1>10. /\ up' = FALSE /\ mem' = Nothing /\ changes' = 0 /\ inProgress' = FALSE
         /\ latest' = 0 /\ at' = [s \in Snapper |-> "idle"] /\ UNCHANGED <<clock, writes>>
    BY DEF Crash
  <1>11. exposed' \in BOOLEAN
    BY DEF Crash
  <1>12. faults' \in 0..MaxFaults
    BY SnapshotAssumption DEF Crash, Fault, SnapshotTypeOK
  <1>13. \A s \in Snapper : at'[s] # "idle" => up'
    BY <1>10
  <1>14. QED
    BY <1>6, <1>7, <1>8, <1>9, <1>10, <1>11, <1>12, <1>13, Constants, NothingIsState
       DEF SnapshotTypeOK

LEMMA RestoreTyped ==
    ASSUME SnapshotTypeOK, LocalsTyped, Restore PROVE SnapshotTypeOK' /\ LocalsTyped'
  <1>1. Restorable => /\ manifest.now.msec \in 1..MaxTime
                      /\ files[manifest.now.msec].now \in Object
    BY FileFields DEF Restorable, SnapshotTypeOK, LocalsTyped, Readable, Contents
  <1>2. mem' \in State /\ latest' \in 0..MaxTime
    BY <1>1, ObjectFields, FilteredState DEF Restore, SnapshotTypeOK
  <1>3. changes' \in Nat
    <2>1. IsFiniteSet({k \in Name : mem'[k] # NoEntry})
      BY SnapshotAssumption, FS_Subset
    <2>2. QED
      BY <2>1, FS_CardinalityType DEF Restore, SnapshotTypeOK
  <1>4. UNCHANGED <<clock, inProgress, manifest, files, at, task, writes, faults, last, exposed>>
    BY DEF Restore, disk, bounds, ghosts
  <1>5. LocalsTyped'
    BY <1>4 DEF LocalsTyped, Restore, SnapshotObject
  <1>6. up' = TRUE
    BY DEF Restore
  <1>7. QED
    BY <1>2, <1>3, <1>4, <1>5, <1>6 DEF SnapshotTypeOK, Readable

-----------------------------------------------------------------------------
(* The disk.                                                               *)

LEMMA InitFollows == SnapshotInit => DiskFollows
  BY Constants DEF SnapshotInit, DiskFollows, OneUnderWay, Stage, Holds, LatestNamed, Readable,
     File, Quiet

(* The disk is not concerned by clients and the clock.                     *)
LEMMA DiskSame ==
    ASSUME DiskFollows,
           UNCHANGED <<up, manifest, files, latest, at, task, last, exposed>>
    PROVE  DiskFollows'
  BY DEF DiskFollows, OneUnderWay, Stage, Holds, LatestNamed, Readable, File, StateFile,
         Text, SnapshotObject

LEMMA StartFollows ==
    ASSUME LocalsTyped, DiskFollows, TickerFires \/ \E s \in Snapper : Save(s)
    PROVE  DiskFollows'
  <1>1. PICK s \in Snapper : at[s] = "idle" /\ at' = [at EXCEPT ![s] = "start"]
    BY SnapshotAssumption DEF TickerFires, Save, Proceed
  <1>2. UNCHANGED <<up, latest, manifest, files, task, last, exposed>>
    BY DEF TickerFires, Save, snapshotLeaves, flags, disk, ghosts
  <1>3. \A o \in Snapper : /\ at'[o] = IF o = s THEN "start" ELSE at[o]
                           /\ at'[o] \in Quiet <=> at[o] \in Quiet
    BY <1>1 DEF LocalsTyped, Quiet
  <1>4. SUFFICES ASSUME ~exposed PROVE /\ OneUnderWay' /\ \A o \in Snapper : Stage(o)'
                                       /\ (\A o \in Snapper : at'[o] \in Quiet) =>
                                             Holds(last)' /\ (up' => LatestNamed')
    BY <1>2 DEF DiskFollows, Quiet
  <1>5. OneUnderWay'
    BY <1>3, <1>4 DEF DiskFollows, OneUnderWay, Quiet
  <1>6. Holds(last)' <=> Holds(last)
    BY <1>2 DEF Holds, File, SnapshotObject
  <1>7. LatestNamed' <=> LatestNamed
    BY <1>2 DEF LatestNamed, Readable
  <1>8. ASSUME NEW o \in Snapper PROVE Stage(o)'
    BY <1>2, <1>3, <1>4, <1>6, <1>7 DEF DiskFollows, Stage, Readable, Text, StateFile, File
  <1>9. QED
    BY <1>2, <1>3, <1>4, <1>5, <1>6, <1>7, <1>8 DEF DiskFollows, Quiet

(* The step of a snapshot.  Unless the disk is exposed after it, s is the  *)
(* only one that is under way.                                             *)
LEMMA StepFollows ==
    ASSUME SnapshotTypeOK, LocalsTyped, DiskFollows, NEW s \in Snapper, Step(s), ~exposed'
    PROVE  DiskFollows'
  <1> DEFINE m == task[s].msec
  <1>1. ~exposed /\ up
    BY DEF Step, StartSnapshot, OpenManifest, CopyState, CreateManifest, WriteManifest,
           SyncManifest, OpenState, WriteState, SyncState, FinishSnapshot, ghosts, SnapshotTypeOK
  <1>2. /\ OneUnderWay /\ Stage(s)
        /\ (\A o \in Snapper : at[o] \in Quiet) => Holds(last) /\ LatestNamed
    BY <1>1 DEF DiskFollows
  <1>3. \A o \in Snapper \ {s} : at'[o] = at[o] /\ at[o] \in Quiet
    <2>1. \A o \in Snapper \ {s} : at[o] \in Quiet
      <3>1. CASE at[s] \in Quiet
        <4>1. StartSnapshot(s)
          BY <3>1 DEF Step, StartSnapshot, OpenManifest, CopyState, CreateManifest,
             WriteManifest, SyncManifest, OpenState, WriteState, SyncState,
             FinishSnapshot, Quiet
        <4>2. QED
          BY <4>1 DEF StartSnapshot, Others, Quiet
      <3>2. CASE at[s] \notin Quiet
        BY <1>2, <3>2 DEF OneUnderWay
      <3>3. QED
        BY <3>1, <3>2
    <2>2. QED
      BY <2>1 DEF Step, StartSnapshot, OpenManifest, CopyState, CreateManifest,
            WriteManifest, SyncManifest, OpenState, WriteState, SyncState,
            FinishSnapshot, Return, Proceed, LocalsTyped
  <1>4. SUFFICES /\ Stage(s)'
                 /\ at'[s] \in Quiet => Holds(last)' /\ LatestNamed'
    <2>1. ASSUME NEW o \in Snapper \ {s} PROVE Stage(o)'
      BY <1>3, <2>1 DEF Stage, Quiet
    <2>2. OneUnderWay'
      BY <1>3 DEF OneUnderWay, Quiet
    <2>3. QED
      BY <2>1, <2>2 DEF DiskFollows, Quiet
  <1>5. at \in [Snapper -> Steps] /\ task \in [Snapper -> Task]
    BY DEF LocalsTyped
  <1>6. Broken \in ManifestContents /\ Broken \in Contents
    BY DEF ManifestContents, Contents
  <1>7. at[s] \notin Quiet => m \in 1..MaxTime
    BY DEF LocalsTyped
  <1>8. CASE StartSnapshot(s)
    <2>1. at'[s] = "open" /\ UNCHANGED <<manifest, files, latest, last>>
      BY <1>5, <1>8 DEF StartSnapshot, Proceed, disk
    <2>2. Holds(last) /\ LatestNamed
      BY <1>2, <1>3, <1>8 DEF StartSnapshot, Quiet
    <2>3. Holds(last)' /\ LatestNamed'
      BY <2>1, <2>2 DEF Holds, LatestNamed, Readable, File, SnapshotObject
    <2>4. QED
      BY <2>1, <2>3 DEF Stage, Quiet
  <1>9. CASE OpenManifest(s)
    <2>1. /\ at[s] = "open" /\ UNCHANGED <<files, latest, last>>
          /\ Holds(last) /\ LatestNamed /\ task[s].hash = Broken
      BY <1>2, <1>9 DEF OpenManifest, ghosts, Stage, LocalsTyped
    <2>2. manifest.now # Broken
      BY <2>1, Constants DEF Holds, File
    <2>3. CASE manifest.now = Missing
      <3>1. at'[s] = "copy" /\ manifest' = Truncated(manifest) /\ UNCHANGED task
        BY <1>5, <1>9, <2>2, <2>3 DEF OpenManifest, Readable, Proceed
      <3>2. manifest'.now = Broken
        BY <3>1 DEF Truncated, File
      <3>3. QED
        BY <2>1, <3>1, <3>2 DEF Stage, Quiet
    <2>4. CASE manifest.now # Missing
      <3>1. at'[s] = "copy" /\ UNCHANGED manifest /\ Readable(manifest)
        BY <1>5, <1>9, <2>2, <2>4 DEF OpenManifest, Readable, Proceed
      <3>2. Holds(last)' /\ LatestNamed'
        BY <2>1, <3>1 DEF Holds, LatestNamed, Readable, File, SnapshotObject
      <3>3. QED
        BY <3>1, <3>2 DEF Stage, Quiet, Readable
    <2>5. QED
      BY <2>3, <2>4
  <1>10. CASE CopyState(s)
    <2>1. /\ at[s] = "copy" /\ UNCHANGED <<manifest, files, latest, last>>
          /\ at'[s] \in {"create", "idle"}
      BY <1>5, <1>10 DEF CopyState, Return, Proceed, disk, ghosts
    <2>2. CASE Holds(last) /\ LatestNamed /\ Readable(manifest)
      <3>1. Holds(last)' /\ LatestNamed' /\ Readable(manifest)'
        BY <2>1, <2>2 DEF Holds, LatestNamed, Readable, File, SnapshotObject
      <3>2. QED
        BY <2>1, <3>1 DEF Stage
    <2>3. CASE manifest.now = Broken /\ task[s].hash = Broken
      <3>1. SnapshotObject(Filtered(mem, clock), latest) \in Object
        BY FilteredState, ObjectOfState DEF SnapshotTypeOK
      <3>2. at'[s] = "create"
        BY <1>5, <1>10, <2>3, <3>1, Constants DEF CopyState, Proceed
      <3>3. QED
        BY <2>1, <2>3, <3>2 DEF Stage, Quiet
    <2>4. QED
      BY <1>2, <2>1, <2>2, <2>3 DEF Stage
  <1>11. CASE CreateManifest(s)
    <2>1. at'[s] = "manifest" /\ manifest'.now = Broken
      BY <1>5, <1>11 DEF CreateManifest, Proceed, Truncated, File
    <2>2. QED
      BY <2>1 DEF Stage, Quiet
  <1>12. CASE WriteManifest(s)
    <2>1. at'[s] = "syncmanifest" /\ UNCHANGED task /\ manifest.now = Broken
      BY <1>2, <1>5, <1>12 DEF WriteManifest, Proceed, Stage
    <2>2. manifest'.now = Text(s)
      BY <1>12, <2>1 DEF WriteManifest, Written, Readable, File, Text
    <2>3. QED
      BY <2>1, <2>2 DEF Stage, Quiet, Text
  <1>13. CASE SyncManifest(s)
    <2>1. at'[s] = "open state" /\ UNCHANGED task /\ manifest.now = Text(s)
      BY <1>2, <1>5, <1>13 DEF SyncManifest, Proceed, Stage
    <2>2. manifest' = File(Text(s), {Text(s)})
      BY <1>13, <2>1 DEF SyncManifest, Synced
    <2>3. QED
      BY <2>1, <2>2 DEF Stage, Quiet, Text, File
  <1>14. CASE OpenState(s)
    <2>1. /\ at'[s] = "state" /\ UNCHANGED <<task, manifest>>
          /\ manifest = File(Text(s), {Text(s)})
          /\ m \in 1..MaxTime
      BY <1>2, <1>5, <1>7, <1>14 DEF OpenState, Proceed, Stage, Quiet
    <2>2. files[m].now = Missing
      BY <1>14 DEF OpenState
    <2>3. files'[m] = Truncated(files[m])
      BY <1>14, <2>1, <2>2 DEF OpenState, LocalsTyped
    <2>4. files'[m].now = Broken
      BY <2>3 DEF Truncated, File
    <2>5. QED
      BY <2>1, <2>4 DEF Stage, Quiet, Text, File, StateFile
  <1>15. CASE WriteState(s)
    <2>1. /\ at'[s] = "syncstate" /\ UNCHANGED <<task, manifest>>
          /\ manifest = File(Text(s), {Text(s)}) /\ files[m].now = Broken
          /\ m \in 1..MaxTime
      BY <1>2, <1>5, <1>7, <1>15 DEF WriteState, Proceed, Stage, Quiet, StateFile
    <2>2. PICK f \in Written(files[m], task[s].object) : files' = [files EXCEPT ![m] = f]
      BY <1>15 DEF WriteState
    <2>3. files'[m].now = task[s].object
      BY <2>1, <2>2 DEF Written, Readable, File, LocalsTyped
    <2>4. QED
      BY <2>1, <2>3 DEF Stage, Quiet, Text, File, StateFile
  <1>16. CASE SyncState(s)
    <2>1. /\ at'[s] = "finish" /\ UNCHANGED <<task, manifest>>
          /\ manifest = File(Text(s), {Text(s)}) /\ files[m].now = task[s].object
          /\ m \in 1..MaxTime
      BY <1>2, <1>5, <1>7, <1>16 DEF SyncState, Proceed, Stage, Quiet, StateFile
    <2>2. files'[m] = File(task[s].object, {task[s].object})
      BY <1>16, <2>1 DEF SyncState, Synced, LocalsTyped
    <2>3. QED
      BY <2>1, <2>2 DEF Stage, Quiet, Text, File, StateFile
  <1>17. CASE FinishSnapshot(s)
    <2>1. /\ at'[s] = "idle" /\ UNCHANGED <<manifest, files>>
          /\ latest' = m /\ last' = task[s].copy
          /\ manifest = File(Text(s), {Text(s)})
          /\ files[m] = File(task[s].object, {task[s].object})
          /\ at[s] = "finish" /\ m \in 1..MaxTime
      BY <1>2, <1>5, <1>7, <1>17 DEF FinishSnapshot, Return, Proceed, disk, Stage, Quiet,
         StateFile
    <2>2. /\ task[s].object = SnapshotObject(task[s].copy, m)
          /\ task[s].object \in Object
      <3>1. task[s].object = SnapshotObject(task[s].copy, m)
        BY <2>1 DEF LocalsTyped, Quiet
      <3>2. task[s].copy \in State /\ m \in 0..MaxTime
        BY <1>5, <2>1 DEF Task
      <3>3. QED
        BY <3>1, <3>2, ObjectOfState
    <2>3. manifest.now = Text(s) /\ Text(s) \in Manifest /\ manifest.left = {manifest.now}
      BY <2>1, <2>2 DEF File, Text, Manifest
    <2>4. Text(s).msec = m /\ Text(s).hash = task[s].object /\ Readable(manifest)
      BY <2>3, Constants DEF Text, Readable
    <2>5. Holds(last)'
      BY <2>1, <2>2, <2>3, <2>4 DEF Holds
    <2>6. LatestNamed'
      BY <2>1, <2>3, <2>4 DEF LatestNamed, Readable
    <2>7. QED
      BY <2>1, <2>5, <2>6 DEF Stage, Quiet
  <1>18. QED
    BY <1>8, <1>9, <1>10, <1>11, <1>12, <1>13, <1>14, <1>15, <1>16, <1>17 DEF Step

(* A failure that does not expose the disk comes before the manifest is    *)
(* truncated.                                                              *)
LEMMA FailsFollow ==
    ASSUME LocalsTyped, DiskFollows, NEW s \in Snapper,
           OperationFails(s) \/ SyncFails(s), ~exposed'
    PROVE  DiskFollows'
  <1>1. /\ OperationFails(s) /\ ~exposed /\ ~Underway(s)
        /\ at[s] \in {"open", "create"} /\ (at[s] = "create" => Readable(manifest))
    BY DEF OperationFails, SyncFails, Underway
  <1>2. OneUnderWay /\ Stage(s)
    BY <1>1 DEF DiskFollows
  <1>3. UNCHANGED <<manifest, files, latest, last>>
    BY <1>1 DEF OperationFails
  <1>4. Holds(last) /\ LatestNamed
    BY <1>1, <1>2 DEF Stage, Readable
  <1>5. Holds(last)' /\ LatestNamed'
    BY <1>3, <1>4 DEF Holds, LatestNamed, Readable, File, SnapshotObject
  <1>6. \A o \in Snapper : at'[o] \in Quiet
    BY <1>1, <1>2 DEF OperationFails, Return, Proceed, LocalsTyped, OneUnderWay, Quiet
  <1>7. QED
    BY <1>5, <1>6 DEF DiskFollows, OneUnderWay, Stage, Quiet

(* A crash that does not expose the disk leaves what it holds.             *)
LEMMA CrashFollows ==
    ASSUME SnapshotTypeOK, LocalsTyped, DiskFollows, Crash, ~exposed'
    PROVE  DiskFollows'
  <1>1. ~exposed /\ \A s \in Snapper : ~Underway(s)
    BY DEF Crash
  <1>2. OneUnderWay /\ \A s \in Snapper : Stage(s)
    BY <1>1 DEF DiskFollows
  <1>3. Holds(last')
    <2>1. CASE \E s \in Snapper : at[s] = "finish"
      <3>1. PICK s \in Snapper : at[s] = "finish"
        BY <2>1
      <3>2. (CHOOSE o \in Snapper : at[o] = "finish") = s
        <4>1. \A o \in Snapper : at[o] = "finish" => o = s
          BY <1>2, <3>1 DEF OneUnderWay, Quiet
        <4>2. QED
          BY <3>1, <4>1
      <3>3. last' = task[s].copy
        BY <2>1, <3>2 DEF Crash
      <3>4. /\ manifest = File(Text(s), {Text(s)})
            /\ files[task[s].msec] = File(task[s].object, {task[s].object})
            /\ task[s].object = SnapshotObject(task[s].copy, task[s].msec)
            /\ task[s].copy \in State /\ task[s].msec \in 1..MaxTime
        BY <1>2, <3>1 DEF Stage, StateFile, LocalsTyped, Quiet, Task
      <3>5. task[s].object \in Object
        BY <3>4, ObjectOfState
      <3>6. QED
        BY <3>3, <3>4, <3>5 DEF Holds, Text, File, Manifest
    <2>2. CASE ~\E s \in Snapper : at[s] = "finish"
      <3>1. last' = last
        BY <2>2 DEF Crash
      <3>2. CASE \A s \in Snapper : at[s] \in Quiet
        BY <1>1, <3>1, <3>2 DEF DiskFollows
      <3>3. CASE \E s \in Snapper : at[s] \notin Quiet
        <4>1. PICK s \in Snapper : at[s] \notin Quiet
          BY <3>3
        <4>2. at[s] = "open" \/ (at[s] \in {"copy", "create"} /\ Readable(manifest))
          BY <1>1, <2>2, <4>1 DEF Underway, Quiet
        <4>3. Readable(manifest) => manifest.now # Broken
          BY DEF Readable
        <4>4. QED
          BY <1>2, <3>1, <4>1, <4>2, <4>3 DEF Stage
      <3>4. QED
        BY <3>2, <3>3
    <2>3. QED
      BY <2>1, <2>2
  <1>4. PICK c \in manifest.left : manifest' = File(c, {c})
    BY DEF Crash
  <1>5. PICK cs : /\ \A m \in 1..MaxTime : cs[m] \in files[m].left
                  /\ files' = [m \in 1..MaxTime |-> File(cs[m], {cs[m]})]
    BY DEF Crash
  <1>6. Holds(last)'
    <2>1. CASE manifest = File(Missing, {Missing}) /\ last' = Nothing
      BY <1>4, <2>1 DEF Holds, File, Nothing
    <2>2. CASE ~(manifest = File(Missing, {Missing}) /\ last' = Nothing)
      <3> DEFINE msec == manifest.now.msec
                 h == SnapshotObject(last', msec)
      <3>1. /\ manifest.now \in Manifest /\ manifest.now.hash = h
            /\ manifest.left = {manifest.now}
            /\ files[msec] = File(h, {h}) /\ msec \in 1..MaxTime
        BY <1>3, <2>2 DEF Holds, Manifest
      <3>2. manifest'.now = manifest.now /\ manifest'.left = {manifest'.now}
        BY <1>4, <3>1 DEF File
      <3>3. cs[msec] = h
        BY <1>5, <3>1 DEF File
      <3>4. files'[msec] = File(h, {h})
        BY <1>5, <3>1, <3>3
      <3> HIDE DEF msec
      <3>5. QED
        BY <3>1, <3>2, <3>4 DEF Holds, SnapshotObject, msec
    <2>3. QED
      BY <2>1, <2>2
  <1>7. \A s \in Snapper : at'[s] = "idle"
    BY DEF Crash
  <1>8. ~up'
    BY DEF Crash
  <1>9. QED
    BY <1>6, <1>7, <1>8 DEF DiskFollows, OneUnderWay, Stage, Quiet

(* What a restart finds.                                                   *)
LEMMA RestoreFinds ==
    ASSUME IInv, Restore, ~exposed
    PROVE  /\ Holds(last)
           /\ Restorable => files[manifest.now.msec].now = SnapshotObject(last, manifest.now.msec)
           /\ ~Restorable => manifest.now = Missing /\ last = Nothing
           /\ manifest.now # Missing => Restorable /\ manifest.now.msec \in 1..MaxTime
  <1>1. \A s \in Snapper : at[s] \in Quiet
    BY DEF IInv, SnapshotTypeOK, Restore, Quiet
  <1>2. Holds(last)
    BY <1>1 DEF IInv, DiskFollows
  <1>3. CASE manifest = File(Missing, {Missing}) /\ last = Nothing
    BY <1>2, <1>3 DEF Restorable, Readable, File
  <1>4. CASE ~(manifest = File(Missing, {Missing}) /\ last = Nothing)
    <2> DEFINE h == SnapshotObject(last, manifest.now.msec)
    <2>1. /\ manifest.now \in Manifest /\ manifest.now.hash = h
          /\ files[manifest.now.msec] = File(h, {h})
      BY <1>2, <1>4 DEF Holds
    <2>2. h \in Object /\ manifest.now.msec \in 1..MaxTime
      BY <2>1 DEF Manifest
    <2>3. files[manifest.now.msec].now = h
      BY <2>1 DEF File
    <2>4. Restorable
      BY <2>1, <2>2, <2>3, Constants DEF Restorable, Readable
    <2>5. QED
      BY <1>2, <2>1, <2>2, <2>3, <2>4, Constants
  <1>5. QED
    BY <1>3, <1>4

LEMMA RestoreFollows ==
    ASSUME IInv, Restore PROVE DiskFollows'
  <1>1. UNCHANGED <<manifest, files, at, task, last, exposed>>
    BY DEF Restore, disk, ghosts
  <1>2. SUFFICES ASSUME ~exposed PROVE DiskFollows'
    BY <1>1 DEF DiskFollows
  <1>3. \A s \in Snapper : at'[s] \in Quiet /\ at'[s] = "idle"
    BY <1>1 DEF IInv, SnapshotTypeOK, Restore, Quiet
  <1>4. Holds(last)'
    BY <1>1, <1>2, RestoreFinds DEF Holds, File, SnapshotObject
  <1>5. LatestNamed'
    <2>1. CASE Restorable
      <3>1. Readable(manifest) /\ manifest.now # Missing
        BY <2>1 DEF Restorable, Readable
      <3>2. manifest.now.msec \in 0..MaxTime /\ last \in State
        BY <1>2, <3>1, RestoreFinds DEF IInv, SnapshotTypeOK
      <3>3. SnapshotObject(last, manifest.now.msec).msec = manifest.now.msec
        BY <3>2, ObjectOfState
      <3>4. latest' = manifest.now.msec
        BY <1>2, <2>1, <3>3, RestoreFinds DEF Restore
      <3>5. QED
        BY <1>1, <3>1, <3>4 DEF LatestNamed, Readable
    <2>2. CASE ~Restorable
      <3>1. manifest.now = Missing /\ latest' = 0
        BY <1>2, <2>2, RestoreFinds DEF Restore, IInv, LocalsTyped
      <3>2. QED
        BY <1>1, <3>1 DEF LatestNamed, Readable
    <2>3. QED
      BY <2>1, <2>2
  <1>6. QED
    BY <1>3, <1>4, <1>5 DEF DiskFollows, OneUnderWay, Stage, Quiet

-----------------------------------------------------------------------------
(* The invariant and what follows.                                         *)

LEMMA InitInv == SnapshotInit => IInv
  BY InitTyped, InitFollows DEF IInv

LEMMA NextInv ==
    ASSUME IInv, [SnapshotNext]_snapshotVars PROVE IInv'
  <1>1. CASE UNCHANGED snapshotVars
    <2>1. UNCHANGED <<up, mem, clock, changes, inProgress, latest, manifest, files, at,
                      task, writes, faults, last, exposed>>
      BY <1>1 DEF snapshotVars
    <2>2. LocalsTyped' /\ DiskFollows'
      BY <2>1, LocalsSame, DiskSame DEF IInv
    <2>3. SnapshotTypeOK'
      BY <2>1 DEF IInv, SnapshotTypeOK, Kept, Readable
    <2>4. QED
      BY <2>2, <2>3 DEF IInv
  <1>2. ASSUME NEW k \in Name,
               \/ \E v \in NewValue : WriteValues(k, v)
               \/ \E es \in SUBSET Elem : ChangeInPlace(k, es)
               \/ \E t \in 1..MaxTime : WriteExpiry(k, t)
               \/ RemoveKey(k)
        PROVE  IInv'
    <2>1. UNCHANGED <<up, manifest, files, latest, at, task, last, exposed>>
      BY <1>2 DEF WriteValues, ChangeInPlace, WriteExpiry, RemoveKey, acceptLeaves, disk, ghosts
    <2>2. DiskFollows'
      BY <2>1, DiskSame DEF IInv
    <2>3. SnapshotTypeOK' /\ LocalsTyped'
      BY <1>2, ClientTyped DEF IInv
    <2>4. QED
      BY <2>2, <2>3 DEF IInv
  <1>3. CASE TickerFires \/ \E s \in Snapper : Save(s)
    BY <1>3, StartTyped, StartFollows DEF IInv
  <1>4. CASE Time
    <2>1. UNCHANGED <<up, manifest, files, latest, at, task, last, exposed>>
      BY <1>4 DEF Time, flags, disk, ghosts
    <2>2. QED
      BY <1>4, <2>1, StartTyped, DiskSame DEF IInv
  <1>5. ASSUME NEW s \in Snapper, Step(s) PROVE IInv'
    <2>1. SnapshotTypeOK' /\ LocalsTyped'
      BY <1>5, StepTyped DEF IInv
    <2>2. DiskFollows'
      <3>1. CASE exposed'
        BY <3>1 DEF DiskFollows
      <3>2. CASE ~exposed'
        BY <1>5, <3>2, StepFollows DEF IInv
      <3>3. QED
        BY <3>1, <3>2
    <2>3. QED
      BY <2>1, <2>2 DEF IInv
  <1>6. ASSUME NEW s \in Snapper, OperationFails(s) \/ SyncFails(s) PROVE IInv'
    <2>1. SnapshotTypeOK' /\ LocalsTyped'
      BY <1>6, FailsTyped DEF IInv
    <2>2. DiskFollows'
      <3>1. CASE exposed'
        BY <3>1 DEF DiskFollows
      <3>2. CASE ~exposed'
        BY <1>6, <3>2, FailsFollow DEF IInv
      <3>3. QED
        BY <3>1, <3>2
    <2>3. QED
      BY <2>1, <2>2 DEF IInv
  <1>7. CASE Crash
    <2>1. SnapshotTypeOK' /\ LocalsTyped'
      BY <1>7, CrashTyped DEF IInv
    <2>2. DiskFollows'
      <3>1. CASE exposed'
        BY <3>1 DEF DiskFollows
      <3>2. CASE ~exposed'
        BY <1>7, <3>2, CrashFollows DEF IInv
      <3>3. QED
        BY <3>1, <3>2
    <2>3. QED
      BY <2>1, <2>2 DEF IInv
  <1>8. CASE Restore
    BY <1>8, RestoreTyped, RestoreFollows DEF IInv
  <1>9. QED
    BY <1>1, <1>2, <1>3, <1>4, <1>5, <1>6, <1>7, <1>8 DEF SnapshotNext

(* The types, the locals of the snapshots under way, and how far the files *)
(* are at every step of one.                                               *)
THEOREM SnapshotInvariant == SnapshotSpec => []IInv
  <1>1. SnapshotInit => IInv
    BY InitInv
  <1>2. IInv /\ [SnapshotNext]_snapshotVars => IInv'
    BY NextInv
  <1>3. QED
    BY <1>1, <1>2, PTL DEF SnapshotSpec

(* Whenever no snapshot is under way the manifest names a state file that  *)
(* is complete and synced, and LASTSAVE answers with its time.             *)
THEOREM ManifestNamesSnapshot == SnapshotSpec => []SnapshotsConsistent
  <1>1. IInv => SnapshotsConsistent
    <2>1. SUFFICES ASSUME IInv PROVE SnapshotsConsistent
      OBVIOUS
    <2>2. SUFFICES ASSUME ~exposed, \A s \in Snapper : at[s] \in Quiet
                   PROVE  SnapshotRestorable /\ (up => LastSaveIsRestored)
      BY <2>1 DEF IInv, SnapshotsConsistent, SnapshotRestorable, LastSaveIsRestored, Quiet
    <2>3. Holds(last) /\ (up => LatestNamed)
      BY <2>1, <2>2 DEF IInv, DiskFollows
    <2>4. SnapshotRestorable
      <3>1. CASE manifest = File(Missing, {Missing}) /\ last = Nothing
        BY <3>1 DEF SnapshotRestorable, File
      <3>2. CASE ~(manifest = File(Missing, {Missing}) /\ last = Nothing)
        <4> DEFINE h == SnapshotObject(last, manifest.now.msec)
        <4>1. /\ manifest.now \in Manifest /\ manifest.now.hash = h
              /\ manifest.left = {manifest.now}
              /\ files[manifest.now.msec] = File(h, {h})
          BY <2>3, <3>2 DEF Holds
        <4>2. h \in Object /\ files[manifest.now.msec].now = h
          BY <4>1 DEF Manifest, File
        <4>3. Restorable
          BY <4>1, <4>2, Constants DEF Restorable, Readable
        <4>4. QED
          BY <4>1, <4>3 DEF SnapshotRestorable
      <3>3. QED
        BY <3>1, <3>2
    <2>5. QED
      BY <2>3, <2>4 DEF LastSaveIsRestored, LatestNamed
  <1>2. QED
    BY <1>1, SnapshotInvariant, PTL

(* A restart brings back what the last finished snapshot saw.              *)
THEOREM RestartGivesSnapshot == SnapshotSpec => RestoreGivesLastSnapshot
  <1> DEFINE Given(k) ==
        IF last[k] = NoEntry \/ Passed(last[k], clock) THEN mem'[k] = NoEntry
        ELSE /\ mem'[k] # NoEntry
             /\ mem'[k].expireAt = last[k].expireAt
             /\ last[k].value.is = "string" => mem'[k] = last[k]
  <1>1. IInv /\ [SnapshotNext]_snapshotVars => (~up /\ up' /\ ~exposed => \A k \in Name : Given(k))
    <2>1. SUFFICES ASSUME IInv, [SnapshotNext]_snapshotVars, ~up, up', ~exposed, NEW k \in Name
                   PROVE  Given(k)
      OBVIOUS
    <2>2. Restore
      BY <2>1 DEF SnapshotNext, snapshotVars, WriteValues, ChangeInPlace, WriteExpiry, RemoveKey, Accept, TickerFires,
            Save, Step, StartSnapshot, OpenManifest, CopyState, CreateManifest,
            WriteManifest, SyncManifest, OpenState, WriteState, SyncState, FinishSnapshot,
            snapshotLeaves, OperationFails, SyncFails, Crash, Time
    <2>3. last \in State /\ (last[k] # NoEntry => last[k] \in Content)
      BY <2>1 DEF IInv, SnapshotTypeOK, State
    <2>4. CASE Restorable
      <3> DEFINE saved == SnapshotObject(last, manifest.now.msec)
      <3>1. /\ files[manifest.now.msec].now = saved
            /\ manifest.now.msec \in 0..MaxTime
        <4>1. manifest.now # Missing
          BY <2>4 DEF Restorable, Readable
        <4>2. QED
          BY <2>1, <2>2, <2>4, <4>1, RestoreFinds
      <3>2. saved.state[k] = IF last[k] = NoEntry THEN NoEntry
                             ELSE [last[k] EXCEPT !.value = Json(@)]
        BY <2>3, <3>1, ObjectOfState
      <3>3. mem' = Filtered(files[manifest.now.msec].now.state, clock)
        BY <2>2, <2>4 DEF Restore
      <3> HIDE DEF saved
      <3>4. mem'[k] = IF saved.state[k] = NoEntry \/ Passed(saved.state[k], clock)
                      THEN NoEntry ELSE saved.state[k]
        BY <3>1, <3>3 DEF Filtered
      <3>5. last[k] # NoEntry =>
               LET e == [last[k] EXCEPT !.value = Json(@)] IN
               /\ e # NoEntry /\ e.expireAt = last[k].expireAt
               /\ last[k].value.is = "string" => e = last[k]
        BY <2>3, EntryFields, Constants
      <3>6. QED
        BY <3>2, <3>4, <3>5 DEF Passed
    <2>5. CASE ~Restorable
      <3>1. last = Nothing /\ mem' = Nothing
        BY <2>1, <2>2, <2>5, RestoreFinds DEF Restore, IInv, LocalsTyped
      <3>2. QED
        BY <3>1 DEF Nothing
    <2>6. QED
      BY <2>4, <2>5
  <1>2. QED
    BY <1>1, SnapshotInvariant, PTL DEF SnapshotSpec, RestoreGivesLastSnapshot
=============================================================================
