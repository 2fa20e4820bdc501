-------------------------- MODULE AppendOnlyProofs --------------------------
(***************************************************************************)
(* Proofs about AppendOnly, for any clients, any databases and strategies, *)
(* and any number of commands, rewrites and faults.                        *)
(*                                                                         *)
(* A restore is a recursion over the entries of the log.  The first part   *)
(* shows by induction over their number which commands it replays, and how *)
(* often; the second part what an entry behind the log, a crash and a      *)
(* restore do to that; the third that the invariant IInv is kept by every  *)
(* step; and the last that it implies the four invariants of the run.      *)
(***************************************************************************)
EXTENDS AppendOnly, SequenceTheorems, WellFoundedInduction, TLAPS

(* The types of the data, of the entries of the log, and of a preamble.    *)
Data == [Database \cup {0} -> Seq(Nat)]

Entry == {e \in [op : {"SELECT", "WRITE", "torn"}, arg : Int] :
            e.op = "WRITE" => e.arg \in Nat}

Preamble == {NoPreamble, Partial} \cup {State(s) : s \in Data}

(* The data that a preamble brings into memory.                            *)
Base(p) == IF p \in {NoPreamble, Partial} THEN Empty ELSE p[2]

(* The restore replays the entry at i of the log l.                        *)
Reads(l, i) ==
    i \in DOMAIN l /\ l[i].op = "WRITE" /\ \A j \in 1..i : Readable(l[j])

(* The commands that it finds among the first n entries, and in all.       *)
ReadUpTo(l, n) == {l[i].arg : i \in {j \in 1..n : Reads(l, j)}}
Logged(l) == ReadUpTo(l, Len(l))

(* No command but for those of E is twice in a state, or in a log.         *)
Once(s, E) ==
    \A db1, db2 \in DOMAIN s :
        \A i \in DOMAIN s[db1], j \in DOMAIN s[db2] :
            s[db1][i] = s[db2][j] /\ s[db1][i] \notin E => db1 = db2 /\ i = j
LoggedOnce(l, E) ==
    \A i, j \in DOMAIN l :
        Reads(l, i) /\ Reads(l, j) /\ l[i].arg = l[j].arg /\ l[i].arg \notin E => i = j

(* The commands whose clients are at a step.                               *)
At(where) == {proc[c].id : c \in {d \in Writer : proc[d].at = where}}

-----------------------------------------------------------------------------
(* The invariant.  None of its parts is inductive alone.                   *)
Types ==
    /\ strategy \in Strategy /\ syncing \in BOOLEAN
    /\ mem \in Data
    /\ log \in Seq(Entry)
    /\ synced \in 0..Len(log)
    /\ currentDatabase \in Database \cup {-1}
    /\ preamble \in onDisk /\ onDisk \subseteq Preamble
    /\ proc \in [Writer -> [at : {"idle", "log", "sync"}, id : 0..writes,
                            db : Database \cup {0}]]
    /\ \A c \in Writer : proc[c].at # "idle" => proc[c].db \in Database
    /\ rewrite \in [at : {"idle", "copied", "truncated", "written", "synced"},
                    copy : Data]
    /\ writes \in Nat /\ rewrites \in Nat /\ faults \in Nat
    /\ acked \subseteq 1..writes /\ exposed \subseteq 1..writes

(* Only commands that were issued are anywhere.                            *)
Issued ==
    /\ Shown(mem) \subseteq 1..writes
    /\ Shown(rewrite.copy) \subseteq 1..writes
    /\ Logged(log) \subseteq 1..writes
    /\ \A p \in onDisk : Shown(Base(p)) \subseteq 1..writes

(* A command that is under way is in memory and not answered, and no two   *)
(* clients have the same.                                                  *)
PendingOnce ==
    /\ \A c \in Writer : proc[c].at # "idle" =>
          proc[c].id \in Shown(mem) /\ proc[c].id \notin acked
    /\ \A c, d \in Writer :
          proc[c].at # "idle" /\ proc[d].at # "idle" /\ proc[c].id = proc[d].id => c = d

(* A command that is not logged yet is not in the log; it is in a copy, or *)
(* in a preamble, only if CopyState has exposed it.                        *)
NotLogged ==
    \A c \in Writer : proc[c].at = "log" =>
        /\ proc[c].id \notin Logged(log)
        /\ rewrite.at # "idle" /\ proc[c].id \in Shown(rewrite.copy) => proc[c].id \in exposed
        /\ \A p \in onDisk : proc[c].id \in Shown(Base(p)) => proc[c].id \in exposed

(* How far the new preamble is.                                            *)
CopyWritten ==
    /\ rewrite.at \in {"written", "synced"} => preamble = State(rewrite.copy)
    /\ rewrite.at = "synced" => onDisk = {preamble}

(* The copy of a rewrite has what memory has, but for the commands that    *)
(* came after it.                                                          *)
CopyComplete ==
    rewrite.at # "idle" =>
        /\ Shown(rewrite.copy) \subseteq Shown(mem)
        /\ Shown(mem) \subseteq Shown(rewrite.copy) \cup At("log") \cup exposed

(* No command is twice in memory, in a copy, in the log or a preamble. *)
EachOnce ==
    /\ Once(mem, exposed) /\ Once(rewrite.copy, exposed) /\ LoggedOnce(log, exposed)
    /\ \A p \in onDisk : Once(Base(p), exposed)

(* While the files fit each other, no command is in both of them ...       *)
FilesDisjoint ==
    ~Mismatched => \A p \in onDisk : Shown(Base(p)) \cap Logged(log) \subseteq exposed

(* ... and what is in one of them is in memory.                            *)
FilesInMemory ==
    ~Mismatched =>
        /\ \A p \in onDisk : Shown(Base(p)) \cup Logged(log) \subseteq Shown(mem) \cup exposed
        /\ Partial \in onDisk => Logged(log) \subseteq exposed

(* The file p and what is synced of the log hold id.                       *)
Held(p, id) ==
    /\ p # Partial
    /\ \/ id \in Shown(Base(p))
       \/ id \in ReadUpTo(log, synced)
       \/ id \in At("sync") /\ id \in Logged(log)

(* With "always", memory has what was answered, and the files have what is *)
(* in memory and logged.                                                   *)
MemoryInFiles ==
    strategy = "always" =>
        /\ acked \subseteq Shown(mem) \cup exposed
        /\ ~Mismatched => \A id \in Shown(mem) \ exposed :
              id \in At("log") \/ \A p \in onDisk : Held(p, id)

IInv ==
    /\ Types /\ Issued /\ PendingOnce /\ NotLogged /\ CopyWritten /\ CopyComplete
    /\ EachOnce /\ FilesDisjoint /\ FilesInMemory /\ MemoryInFiles

-----------------------------------------------------------------------------
(* Induction, with a set in the place of a predicate.                      *)
LEMMA SetInduction ==
  ASSUME NEW S \in SUBSET Nat, 0 \in S, \A n \in Nat : n \in S => n + 1 \in S
  PROVE  S = Nat
  <1> DEFINE R == OpToRel(<, Nat)
             T == Nat \ S
  <1>1. SUFFICES ASSUME T # {} PROVE FALSE
    OBVIOUS
  <1>2. IsWellFoundedOn(R, Nat)
    BY NatLessThanWellFounded
  <1>3. \A x, y \in Nat : <<y, x>> \in R <=> y < x
    BY DEF OpToRel
  <1> HIDE DEF R
  <1>4. PICK x \in T : \A y \in T : ~(<<y, x>> \in R)
    <2>1. T \subseteq Nat
      OBVIOUS
    <2> HIDE DEF T
    <2> QED
      BY <1>1, <1>2, <2>1, WFMin
  <1>5. x # 0 /\ x - 1 \in Nat
    OBVIOUS
  <1>6. x - 1 \in S
    <2>1. x - 1 \in Nat /\ x \in Nat /\ x - 1 < x
      BY <1>5
    <2>2. <<x - 1, x>> \in R
      BY <1>3, <2>1
    <2> QED
      BY <1>4, <2>1, <2>2
  <1> QED
    BY <1>4, <1>5, <1>6

(* Min chooses what its name says.                                         *)
LEMMA LeastNumber ==
  ASSUME NEW I \in SUBSET Nat, I # {}
  PROVE  Min(I) \in I /\ \A n \in I : Min(I) =< n
  <1> DEFINE R == OpToRel(<, Nat)
  <1>1. IsWellFoundedOn(R, Nat)
    BY NatLessThanWellFounded
  <1>2. \A x, y \in Nat : <<y, x>> \in R <=> y < x
    BY DEF OpToRel
  <1> HIDE DEF R
  <1>3. PICK x \in I : \A y \in I : ~(<<y, x>> \in R)
    BY <1>1, WFMin
  <1>4. ASSUME NEW y \in I
        PROVE  x =< y
    <2>1. x \in Nat /\ y \in Nat /\ ~(<<y, x>> \in R)
      BY <1>3
    <2>2. ~(y < x)
      BY <1>2, <2>1
    <2> QED
      BY <2>1, <2>2
  <1> QED
    BY <1>4 DEF Min

(* ReadableEntries ends before the first entry that cannot be read.        *)
LEMMA ReadablePrefix ==
  ASSUME NEW l \in Seq(Entry), NEW r, r = ReadableEntries(l)
  PROVE  /\ r \in Seq(Entry) /\ Len(r) =< Len(l)
         /\ \A i \in 1..Len(r) : r[i] = l[i] /\ Readable(l[i])
         /\ Len(r) < Len(l) => ~Readable(l[Len(r) + 1])
  <1> DEFINE I == {i \in 1..Len(l) : ~Readable(l[i])}
             bad == IF I # {} THEN Min(I) ELSE 0
  <1>1. r = IF bad = 0 THEN l ELSE SubSeq(l, 1, bad - 1)
    BY DEF ReadableEntries, SelectInSeq
  <1>2. CASE I = {}
    <2>1. r = l
      BY <1>1, <1>2
    <2> QED
      BY <1>2, <2>1
  <1>3. CASE I # {}
    <2>1. bad \in I /\ \A i \in I : bad =< i
      <3>1. I \in SUBSET Nat
        OBVIOUS
      <3> HIDE DEF I
      <3> QED
        BY <1>3, <3>1, LeastNumber
    <2>2. bad \in 1..Len(l) /\ ~Readable(l[bad])
      BY <2>1
    <2> HIDE DEF bad
    <2>3. r = SubSeq(l, 1, bad - 1)
      BY <1>1, <2>2
    <2>4. r \in Seq(Entry) /\ Len(r) = bad - 1 /\ \A i \in 1..Len(r) : r[i] = l[i]
      BY <2>2, <2>3
    <2> QED
      BY <2>1, <2>2, <2>4
  <1> QED
    BY <1>2, <1>3

(* A function exists that the recursion of Replayed defines.               *)
LEMMA ReplayRecursion ==
  ASSUME NEW r \in Seq(Entry)
  PROVE  LET next(f, n) == IF n = 0 THEN <<>>
                           ELSE IF r[n].op = "WRITE" THEN Append(f[n - 1], r[n].arg)
                           ELSE f[n - 1]
         IN  \E f : f = [n \in 0..Len(r) |-> next(f, n)]
  <1> DEFINE next(f, n) == IF n = 0 THEN <<>>
                           ELSE IF r[n].op = "WRITE" THEN Append(f[n - 1], r[n].arg)
                           ELSE f[n - 1]
             S == {m \in Nat : \E f : f = [n \in 0..m |-> next(f, n)]}
  <1>1. 0 \in S
    <2> DEFINE f == [n \in 0..0 |-> <<>>]
    <2>1. f = [n \in 0..0 |-> next(f, n)]
      OBVIOUS
    <2> QED
      BY <2>1
  <1>2. ASSUME NEW m \in Nat, m \in S
        PROVE  m + 1 \in S
    <2>1. PICK f : f = [n \in 0..m |-> next(f, n)]
      BY <1>2
    <2> DEFINE g == [n \in 0..(m + 1) |-> IF n = m + 1 THEN next(f, n) ELSE f[n]]
    <2>2. ASSUME NEW n \in 0..(m + 1)
          PROVE  next(g, n) = IF n = m + 1 THEN next(f, n) ELSE f[n]
      <3>1. n # 0 => n - 1 \in 0..(m + 1) /\ n - 1 # m + 1 /\ g[n - 1] = f[n - 1]
        OBVIOUS
      <3>2. n # m + 1 => n \in 0..m
        OBVIOUS
      <3>3. n # m + 1 => f[n] = next(f, n)
        BY <2>1, <3>2
      <3> HIDE DEF g
      <3> QED
        BY <3>1, <3>3
    <2>3. g = [n \in 0..(m + 1) |-> next(g, n)]
      BY <2>2
    <2>4. \E h : h = [n \in 0..(m + 1) |-> next(h, n)]
      <3> HIDE DEF g, next
      <3> QED
        BY <2>3
    <2> QED
      BY SMTT(30), <2>4
  <1>3. S = Nat
    <2>1. S \in SUBSET Nat
      OBVIOUS
    <2> HIDE DEF S
    <2> QED
      BY <1>1, <1>2, <2>1, SetInduction
  <1>4. Len(r) \in S
    BY <1>3
  <1> QED
    BY <1>4

(* Replayed takes the entries one by one.                                  *)
LEMMA ReplaySteps ==
  ASSUME NEW l \in Seq(Entry), NEW r, r = ReadableEntries(l)
  PROVE  \E f : /\ Replayed(l) = f[Len(r)]
               /\ f[0] = <<>>
               /\ \A n \in 1..Len(r) :
                     f[n] = IF r[n].op = "WRITE" THEN Append(f[n - 1], r[n].arg)
                            ELSE f[n - 1]
  <1> DEFINE next(f, n) == IF n = 0 THEN <<>>
                           ELSE IF r[n].op = "WRITE" THEN Append(f[n - 1], r[n].arg)
                           ELSE f[n - 1]
             f == CHOOSE g : g = [n \in 0..Len(r) |-> next(g, n)]
  <1>1. r \in Seq(Entry)
    BY ReadablePrefix
  <1>2. f = [n \in 0..Len(r) |-> next(f, n)]
    BY <1>1, ReplayRecursion
  <1>3. Replayed(l) = f[Len(r)]
    BY Zenon DEF Replayed
  <1> HIDE DEF f
  <1>4. \A n \in 0..Len(r) : f[n] = next(f, n)
    <2> HIDE DEF next
    <2> QED
      BY <1>2
  <1>5. Len(r) \in Nat /\ 0 \in 0..Len(r) /\ \A n \in 1..Len(r) : n \in 0..Len(r) /\ n # 0
    BY <1>1
  <1>6. f[0] = <<>>
    BY <1>4, <1>5
  <1>7. \A n \in 1..Len(r) :
           f[n] = IF r[n].op = "WRITE" THEN Append(f[n - 1], r[n].arg) ELSE f[n - 1]
    BY <1>4, <1>5
  <1> QED
    BY <1>3, <1>6, <1>7

LEMMA Appending ==
  ASSUME NEW S, NEW s \in Seq(S), NEW a \in S
  PROVE  /\ Append(s, a) \in Seq(S)
         /\ Len(s) \in Nat /\ DOMAIN s = 1..Len(s)
         /\ Len(Append(s, a)) = Len(s) + 1
         /\ DOMAIN Append(s, a) = DOMAIN s \cup {Len(s) + 1}
         /\ Append(s, a)[Len(s) + 1] = a
         /\ \A k \in DOMAIN s : Append(s, a)[k] = s[k]
  OBVIOUS

(* The commands that are replayed are those of the entries that are read,  *)
(* and a command is replayed twice only if two entries hold it.            *)
LEMMA ReplayedEntries ==
  ASSUME NEW l \in Seq(Entry)
  PROVE  /\ Replayed(l) \in Seq(Nat)
         /\ ToSet(Replayed(l)) = Logged(l)
         /\ \A k, m \in DOMAIN Replayed(l) :
               k # m /\ Replayed(l)[k] = Replayed(l)[m]
                 => \E i, j \in DOMAIN l :
                       /\ i # j /\ Reads(l, i) /\ Reads(l, j)
                       /\ l[i].arg = Replayed(l)[k] /\ l[j].arg = Replayed(l)[k]
  <1> DEFINE r == ReadableEntries(l)
  <1>1. /\ r \in Seq(Entry) /\ Len(r) =< Len(l)
        /\ \A i \in 1..Len(r) : r[i] = l[i] /\ Readable(l[i])
        /\ Len(r) < Len(l) => ~Readable(l[Len(r) + 1])
    BY ReadablePrefix
  <1>2. PICK f : /\ Replayed(l) = f[Len(r)]
                 /\ f[0] = <<>>
                 /\ \A n \in 1..Len(r) :
                       f[n] = IF r[n].op = "WRITE" THEN Append(f[n - 1], r[n].arg)
                              ELSE f[n - 1]
    BY ReplaySteps
  <1> HIDE DEF r
  <1> DEFINE Write(i) == r[i].op = "WRITE"
             Good(n) ==
               /\ f[n] \in Seq(Nat)
               /\ \A k \in DOMAIN f[n] : \E i \in 1..n : Write(i) /\ r[i].arg = f[n][k]
               /\ \A i \in 1..n : Write(i) => \E k \in DOMAIN f[n] : r[i].arg = f[n][k]
               /\ \A k, m \in DOMAIN f[n] :
                     k # m /\ f[n][k] = f[n][m]
                       => \E i, j \in 1..n :
                             /\ i # j /\ Write(i) /\ Write(j)
                             /\ r[i].arg = f[n][k] /\ r[j].arg = f[n][k]
             S == {n \in Nat : n =< Len(r) => Good(n)}
  <1>3. 0 \in S
    <2>1. f[0] \in Seq(Nat) /\ DOMAIN f[0] = {} /\ 1..0 = {}
      BY <1>2
    <2> QED
      BY <2>1
  <1>4. ASSUME NEW n \in Nat, n \in S
        PROVE  n + 1 \in S
    <2> SUFFICES ASSUME n + 1 =< Len(r)
                 PROVE  Good(n + 1)
      OBVIOUS
    <2>1. Good(n) /\ n + 1 \in 1..Len(r)
      BY <1>1, <1>4
    <2>2. f[n + 1] = IF Write(n + 1) THEN Append(f[n], r[n + 1].arg) ELSE f[n]
      BY <1>2, <2>1
    <2>3. CASE ~Write(n + 1)
      <3>1. f[n + 1] = f[n]
        BY <2>2, <2>3
      <3> QED
        BY <2>1, <2>3, <3>1
    <2>4. CASE Write(n + 1)
      <3> DEFINE a == r[n + 1].arg
      <3>1. a \in Nat
        BY <1>1, <2>1, <2>4 DEF Entry
      <3> HIDE DEF a
      <3>2. f[n + 1] = Append(f[n], a)
        BY <2>2, <2>4 DEF a
      <3>3. /\ f[n + 1] \in Seq(Nat)
            /\ DOMAIN f[n + 1] = DOMAIN f[n] \cup {Len(f[n]) + 1}
            /\ DOMAIN f[n] = 1..Len(f[n]) /\ Len(f[n]) \in Nat
            /\ f[n + 1][Len(f[n]) + 1] = a
            /\ \A k \in DOMAIN f[n] : f[n + 1][k] = f[n][k]
        <4>1. f[n] \in Seq(Nat)
          BY <2>1
        <4> DEFINE s == f[n]
        <4> HIDE DEF s
        <4>2. s \in Seq(Nat)
          BY <4>1 DEF s
        <4>3. /\ Append(s, a) \in Seq(Nat)
              /\ DOMAIN Append(s, a) = DOMAIN s \cup {Len(s) + 1}
              /\ DOMAIN s = 1..Len(s) /\ Len(s) \in Nat
              /\ Append(s, a)[Len(s) + 1] = a
              /\ \A k \in DOMAIN s : Append(s, a)[k] = s[k]
          BY <3>1, <4>2, Appending
        <4> QED
          BY <3>2, <4>3 DEF s
      <3>4. \A k \in DOMAIN f[n + 1] : \E i \in 1..(n + 1) : Write(i) /\ r[i].arg = f[n + 1][k]
        <4> SUFFICES ASSUME NEW k \in DOMAIN f[n + 1]
                     PROVE  \E i \in 1..(n + 1) : Write(i) /\ r[i].arg = f[n + 1][k]
          OBVIOUS
        <4>1. CASE k \in DOMAIN f[n]
          BY <2>1, <3>3, <4>1
        <4>2. CASE k = Len(f[n]) + 1
          <5>1. n + 1 \in 1..(n + 1) /\ Write(n + 1) /\ r[n + 1].arg = f[n + 1][k]
            BY <2>4, <3>3, <4>2 DEF a
          <5> QED
            BY <5>1
        <4> QED
          BY <3>3, <4>1, <4>2
      <3>5. \A i \in 1..(n + 1) : Write(i) => \E k \in DOMAIN f[n + 1] : r[i].arg = f[n + 1][k]
        <4> SUFFICES ASSUME NEW i \in 1..(n + 1), Write(i)
                     PROVE  \E k \in DOMAIN f[n + 1] : r[i].arg = f[n + 1][k]
          OBVIOUS
        <4>1. CASE i \in 1..n
          BY <2>1, <3>3, <4>1
        <4>2. CASE i = n + 1
          BY <3>3, <4>2 DEF a
        <4> QED
          BY <4>1, <4>2
      <3>6. ASSUME NEW k \in DOMAIN f[n + 1], NEW m \in DOMAIN f[n + 1],
                   k # m, f[n + 1][k] = f[n + 1][m]
            PROVE  \E i, j \in 1..(n + 1) :
                      /\ i # j /\ Write(i) /\ Write(j)
                      /\ r[i].arg = f[n + 1][k] /\ r[j].arg = f[n + 1][k]
        <4>1. CASE k \in DOMAIN f[n] /\ m \in DOMAIN f[n]
          <5>1. PICK i, j \in 1..n : /\ i # j /\ Write(i) /\ Write(j)
                                     /\ r[i].arg = f[n][k] /\ r[j].arg = f[n][k]
            BY <2>1, <3>3, <3>6, <4>1
          <5>2. f[n + 1][k] = f[n][k]
            BY <3>3, <4>1
          <5>3. i \in 1..(n + 1) /\ j \in 1..(n + 1)
            OBVIOUS
          <5> QED
            BY <5>1, <5>2, <5>3
        <4>2. CASE k = Len(f[n]) + 1 /\ m \in DOMAIN f[n]
          <5>1. PICK j \in 1..n : Write(j) /\ r[j].arg = f[n][m]
            BY <2>1, <4>2
          <5>2. r[j].arg = f[n + 1][k] /\ a = f[n + 1][k]
            BY <3>3, <3>6, <4>2, <5>1
          <5>3. j # n + 1 /\ j \in 1..(n + 1)
            OBVIOUS
          <5> QED
            BY <2>4, <5>1, <5>2, <5>3 DEF a
        <4>3. CASE k \in DOMAIN f[n] /\ m = Len(f[n]) + 1
          <5>1. PICK j \in 1..n : Write(j) /\ r[j].arg = f[n][k]
            BY <2>1, <4>3
          <5>2. r[j].arg = f[n + 1][k] /\ a = f[n + 1][k]
            BY <3>3, <3>6, <4>3, <5>1
          <5>3. j # n + 1 /\ j \in 1..(n + 1)
            OBVIOUS
          <5> QED
            BY <2>4, <5>1, <5>2, <5>3 DEF a
        <4> QED
          BY <3>3, <3>6, <4>1, <4>2, <4>3
      <3> QED
        BY <3>3, <3>4, <3>5, <3>6
    <2> QED
      BY <2>3, <2>4
  <1>5. S = Nat
    <2>1. S \in SUBSET Nat
      OBVIOUS
    <2> HIDE DEF S
    <2> QED
      BY <1>3, <1>4, <2>1, SetInduction
  <1>6. Good(Len(r))
    <2>1. Len(r) \in Nat /\ Len(r) =< Len(r)
      BY <1>1
    <2>2. Len(r) \in S
      BY <1>5, <2>1
    <2> QED
      BY <2>1, <2>2
  <1>7. ASSUME NEW i
        PROVE  i \in 1..Len(r) /\ Write(i) <=> i \in DOMAIN l /\ Reads(l, i)
    <2>1. ASSUME i \in 1..Len(r), Write(i)
          PROVE  i \in DOMAIN l /\ Reads(l, i)
      BY <1>1, <2>1 DEF Reads
    <2>2. ASSUME i \in DOMAIN l, Reads(l, i)
          PROVE  i \in 1..Len(r) /\ Write(i)
      <3>1. i \in 1..Len(l)
        BY <2>2
      <3>2. i =< Len(r)
        <4> SUFFICES ASSUME i > Len(r) PROVE FALSE
          BY <1>1, <3>1
        <4>1. Len(r) + 1 \in 1..i /\ Len(r) < Len(l)
          BY <1>1, <3>1
        <4> QED
          BY <1>1, <2>2, <4>1 DEF Reads
      <3> QED
        BY <1>1, <2>2, <3>1, <3>2 DEF Reads
    <2> QED
      BY <2>1, <2>2
  <1> HIDE DEF Write
  <1>8. \A i \in 1..Len(r) : r[i] = l[i]
    BY <1>1
  <1>9. ToSet(Replayed(l)) = Logged(l)
    <2>1. ASSUME NEW x \in ToSet(Replayed(l))
          PROVE  x \in Logged(l)
      <3>1. PICK k \in DOMAIN Replayed(l) : x = Replayed(l)[k]
        BY DEF ToSet
      <3>2. PICK i \in 1..Len(r) : Write(i) /\ r[i].arg = x
        BY <1>2, <1>6, <3>1
      <3>3. i \in 1..Len(l) /\ Reads(l, i) /\ l[i].arg = x
        BY <1>7, <1>8, <3>2
      <3> QED
        BY <3>3 DEF Logged, ReadUpTo
    <2>2. ASSUME NEW x \in Logged(l)
          PROVE  x \in ToSet(Replayed(l))
      <3>1. PICK i \in 1..Len(l) : Reads(l, i) /\ l[i].arg = x
        BY DEF Logged, ReadUpTo
      <3>2. i \in 1..Len(r) /\ Write(i) /\ r[i].arg = x
        BY <1>7, <1>8, <3>1
      <3>3. PICK k \in DOMAIN Replayed(l) : x = Replayed(l)[k]
        BY SMTT(30), <1>2, <1>6, <3>2
      <3> QED
        BY <3>3 DEF ToSet
    <2> QED
      BY <2>1, <2>2
  <1> QED
    <2>1. ASSUME NEW k \in DOMAIN Replayed(l), NEW m \in DOMAIN Replayed(l),
                 k # m, Replayed(l)[k] = Replayed(l)[m]
          PROVE  \E i, j \in DOMAIN l :
                    /\ i # j /\ Reads(l, i) /\ Reads(l, j)
                    /\ l[i].arg = Replayed(l)[k] /\ l[j].arg = Replayed(l)[k]
      <3>1. PICK i, j \in 1..Len(r) : /\ i # j /\ Write(i) /\ Write(j)
                                      /\ r[i].arg = Replayed(l)[k]
                                      /\ r[j].arg = Replayed(l)[k]
        BY <1>2, <1>6, <2>1
      <3> QED
        BY <1>7, <1>8, <3>1
    <2> QED
      BY <1>2, <1>6, <1>9, <2>1

-----------------------------------------------------------------------------
(* The databases of a new server show nothing.                             *)
LEMMA EmptyData ==
  /\ Empty \in Data /\ Shown(Empty) = {} /\ \A E : Once(Empty, E)
  <1>1. Empty \in Data
    BY DEF Empty, Data
  <1>2. \A db \in DOMAIN Empty : DOMAIN Empty[db] = {}
    BY DEF Empty
  <1> QED
    BY <1>1, <1>2 DEF Shown, ToSet, Once

LEMMA PreambleBase ==
  ASSUME NEW p \in Preamble
  PROVE  /\ Base(p) \in Data
         /\ p \in {NoPreamble, Partial} => Shown(Base(p)) = {} /\ \A E : Once(Base(p), E)
         /\ \A s : p = State(s) => Base(p) = s
  <1>1. \A s : State(s) \notin {NoPreamble, Partial} /\ State(s)[2] = s
    BY DEF State, NoPreamble, Partial
  <1>2. CASE p \in {NoPreamble, Partial}
    BY <1>1, <1>2, EmptyData DEF Base
  <1>3. CASE p \notin {NoPreamble, Partial}
    <2>1. PICK s \in Data : p = State(s)
      BY <1>3 DEF Preamble
    <2>2. Base(p) = s
      BY <1>1, <2>1 DEF Base
    <2>3. ASSUME NEW t, p = State(t)
          PROVE  t = s
      <3>1. State(t)[2] = State(s)[2]
        BY <2>1, <2>3
      <3> QED
        BY <1>1, <3>1
    <2> QED
      BY <1>3, <2>2, <2>3
  <1> QED
    BY <1>2, <1>3

(* Applying the commands q to database db shows them besides the others.   *)
LEMMA Applying ==
  ASSUME NEW s \in Data, NEW db \in Database \cup {0}, NEW q \in Seq(Nat), NEW t,
         t = [s EXCEPT ![db] = @ \o q]
  PROVE  /\ t \in Data
         /\ Shown(t) = Shown(s) \cup ToSet(q)
         /\ \A E :
              /\ Once(s, E)
              /\ \A k, m \in DOMAIN q : q[k] = q[m] /\ q[k] \notin E => k = m
              /\ Shown(s) \cap ToSet(q) \subseteq E
              => Once(t, E)
  <1> DEFINE u == s[db]
             n == Len(u)
  <1>1. u \in Seq(Nat) /\ DOMAIN s = Database \cup {0}
    BY DEF Data
  <1>2. /\ n \in Nat /\ DOMAIN u = 1..n /\ DOMAIN q = 1..Len(q) /\ Len(q) \in Nat
        /\ u \o q \in Seq(Nat) /\ DOMAIN (u \o q) = 1..(n + Len(q))
        /\ \A i \in 1..(n + Len(q)) : (u \o q)[i] = IF i =< n THEN u[i] ELSE q[i - n]
    BY <1>1
  <1> HIDE DEF u, n
  <1>3. /\ DOMAIN t = Database \cup {0}
        /\ t[db] = u \o q /\ \A d \in Database \cup {0} : d # db => t[d] = s[d]
    BY <1>1 DEF u
  <1>4. t \in Data
    BY <1>2, <1>3, <1>1 DEF Data, u
  <1>5. \A x : x \in ToSet(u \o q) <=> x \in ToSet(u) \/ x \in ToSet(q)
    <2> SUFFICES ASSUME NEW x
                 PROVE  x \in ToSet(u \o q) <=> x \in ToSet(u) \/ x \in ToSet(q)
      OBVIOUS
    <2>1. ASSUME x \in ToSet(u \o q)
          PROVE  x \in ToSet(u) \/ x \in ToSet(q)
      <3>1. PICK i \in 1..(n + Len(q)) : x = (u \o q)[i]
        BY <1>2, <2>1 DEF ToSet
      <3>2. CASE i =< n
        BY SMTT(30), <1>2, <3>1, <3>2 DEF ToSet
      <3>3. CASE ~(i =< n)
        <4>1. i - n \in DOMAIN q /\ x = q[i - n]
          BY <1>2, <3>1, <3>3
        <4> QED
          BY <4>1 DEF ToSet
      <3> QED
        BY <3>2, <3>3
    <2>2. ASSUME x \in ToSet(u)
          PROVE  x \in ToSet(u \o q)
      <3>1. PICK i \in 1..n : x = u[i]
        BY <1>2, <2>2 DEF ToSet
      <3>2. i \in 1..(n + Len(q)) /\ x = (u \o q)[i]
        BY <1>2, <3>1
      <3> QED
        BY <1>2, <3>2 DEF ToSet
    <2>3. ASSUME x \in ToSet(q)
          PROVE  x \in ToSet(u \o q)
      <3>1. PICK i \in 1..Len(q) : x = q[i]
        BY <1>2, <2>3 DEF ToSet
      <3>2. n + i \in 1..(n + Len(q)) /\ x = (u \o q)[n + i]
        BY <1>2, <3>1
      <3> QED
        BY <1>2, <3>2 DEF ToSet
    <2> QED
      BY <2>1, <2>2, <2>3
  <1>6. \A x, z : x \in Shown(z) <=> \E d \in DOMAIN z : x \in ToSet(z[d])
    BY DEF Shown
  <1>7. Shown(t) = Shown(s) \cup ToSet(q)
    <2> SUFFICES ASSUME NEW x
                 PROVE  x \in Shown(t) <=> x \in Shown(s) \/ x \in ToSet(q)
      OBVIOUS
    <2>1. x \in Shown(t) => x \in Shown(s) \/ x \in ToSet(q)
      BY <1>1, <1>3, <1>5, <1>6 DEF u
    <2>2. x \in Shown(s) => x \in Shown(t)
      BY <1>1, <1>3, <1>5, <1>6 DEF u
    <2>3. x \in ToSet(q) => x \in Shown(t)
      BY <1>3, <1>5, <1>6
    <2> QED
      BY <2>1, <2>2, <2>3
  <1>8. ASSUME NEW E, Once(s, E),
               \A k, m \in DOMAIN q : q[k] = q[m] /\ q[k] \notin E => k = m,
               Shown(s) \cap ToSet(q) \subseteq E
        PROVE  Once(t, E)
    <2> SUFFICES ASSUME NEW d1 \in DOMAIN t, NEW d2 \in DOMAIN t,
                        NEW i \in DOMAIN t[d1], NEW j \in DOMAIN t[d2],
                        t[d1][i] = t[d2][j], t[d1][i] \notin E
                 PROVE  d1 = d2 /\ i = j
      BY DEF Once
    <2> DEFINE Old(d, k) == k \in DOMAIN s[d] /\ t[d][k] = s[d][k]
               New(d, k) == d = db /\ k \in Int /\ k - n \in DOMAIN q /\ t[d][k] = q[k - n]
    <2>1. ASSUME NEW d \in DOMAIN t, NEW k \in DOMAIN t[d]
          PROVE  Old(d, k) \/ New(d, k)
      <3>1. CASE d # db
        BY <1>3, <2>1, <3>1
      <3>2. CASE d = db
        BY SMTT(30), <1>2, <1>3, <2>1, <3>2 DEF u
      <3> QED
        BY <3>1, <3>2
    <2>2. ASSUME NEW d \in DOMAIN t, NEW k, Old(d, k)
          PROVE  t[d][k] \in Shown(s)
      <3>1. d \in DOMAIN s /\ t[d][k] \in ToSet(s[d])
        BY <1>1, <1>3, <2>2 DEF ToSet
      <3> QED
        BY <1>6, <3>1
    <2>3. \A d, k : New(d, k) => t[d][k] \in ToSet(q)
      BY DEF ToSet
    <2>4. CASE Old(d1, i) /\ Old(d2, j)
      BY <1>1, <1>3, <1>8, <2>4 DEF Once
    <2>5. CASE New(d1, i) /\ New(d2, j)
      <3>1. /\ i - n \in DOMAIN q /\ j - n \in DOMAIN q
            /\ q[i - n] = q[j - n] /\ q[i - n] \notin E
        BY <2>5
      <3>2. i - n = j - n
        BY <1>8, <3>1
      <3> QED
        BY <1>2, <2>5, <3>2
    <2> HIDE DEF Old, New
    <2>6. CASE Old(d1, i) /\ New(d2, j)
      BY <1>8, <2>2, <2>3, <2>6
    <2>7. CASE New(d1, i) /\ Old(d2, j)
      BY <1>8, <2>2, <2>3, <2>7
    <2> QED
      BY <2>1, <2>4, <2>5, <2>6, <2>7
  <1> QED
    BY <1>4, <1>7, <1>8

(* What a restore from the preamble p and the log l brings back.           *)
LEMMA Restoring ==
  ASSUME NEW p \in Preamble, NEW l \in Seq(Entry)
  PROVE  /\ Restore(p, l) \in Data
         /\ Shown(Restore(p, l)) = IF p = Partial THEN {} ELSE Shown(Base(p)) \cup Logged(l)
         /\ \A E :
              /\ Once(Base(p), E) /\ LoggedOnce(l, E)
              /\ Shown(Base(p)) \cap Logged(l) \subseteq E
              => Once(Restore(p, l), E)
  <1>1. CASE p = Partial
    <2>1. Restore(p, l) = Empty
      <3>1. NoPreamble # Partial
        BY DEF NoPreamble, Partial
      <3> QED
        BY <1>1, <3>1 DEF Restore
    <2> QED
      BY <1>1, <2>1, EmptyData
  <1>2. CASE p # Partial
    <2>1. Restore(p, l) = [Base(p) EXCEPT ![0] = @ \o Replayed(l)]
      <3>1. NoPreamble # Partial
        BY DEF NoPreamble, Partial
      <3> QED
        BY <1>2, <3>1 DEF Restore, Replay, Base
    <2>2. Base(p) \in Data
      BY PreambleBase
    <2>3. Replayed(l) \in Seq(Nat) /\ ToSet(Replayed(l)) = Logged(l)
      BY ReplayedEntries
    <2>4. ASSUME NEW E, LoggedOnce(l, E)
          PROVE  \A k, m \in DOMAIN Replayed(l) :
                    Replayed(l)[k] = Replayed(l)[m] /\ Replayed(l)[k] \notin E => k = m
      <3> SUFFICES ASSUME NEW k \in DOMAIN Replayed(l), NEW m \in DOMAIN Replayed(l),
                          Replayed(l)[k] = Replayed(l)[m], Replayed(l)[k] \notin E, k # m
                   PROVE  FALSE
        OBVIOUS
      <3>1. PICK i, j \in DOMAIN l :
                    /\ i # j /\ Reads(l, i) /\ Reads(l, j)
                    /\ l[i].arg = Replayed(l)[k] /\ l[j].arg = Replayed(l)[k]
        BY ReplayedEntries
      <3> QED
        BY <2>4, <3>1 DEF LoggedOnce
    <2> QED
      BY ZenonT(30), <1>2, <2>1, <2>2, <2>3, <2>4, Applying
  <1> QED
    BY <1>1, <1>2

-----------------------------------------------------------------------------
LEMMA AllReadable ==
  ASSUME NEW l \in Seq(Entry), ReadableEntries(l) = l
  PROVE  \A i \in 1..Len(l) : Readable(l[i])
  BY ReadablePrefix

(* An entry behind a log does not change what is read before it, and it is *)
(* read if the whole log can be.                                           *)
LEMMA LogAppend ==
  ASSUME NEW l \in Seq(Entry), NEW e \in Entry, NEW m, m = Append(l, e)
  PROVE  /\ m \in Seq(Entry) /\ Len(m) = Len(l) + 1
         /\ \A n \in 0..Len(l) : ReadUpTo(m, n) = ReadUpTo(l, n)
         /\ Logged(l) \subseteq Logged(m)
         /\ Logged(m) \subseteq Logged(l) \cup (IF e.op = "WRITE" THEN {e.arg} ELSE {})
         /\ e.op = "WRITE" /\ (\A i \in 1..Len(m) : Readable(m[i])) => e.arg \in Logged(m)
         /\ e.op # "WRITE" \/ e.arg \notin Logged(l)
               => \A E : LoggedOnce(l, E) => LoggedOnce(m, E)
  <1>1. /\ m \in Seq(Entry) /\ Len(l) \in Nat /\ Len(m) = Len(l) + 1
        /\ DOMAIN m = 1..Len(m) /\ DOMAIN l = 1..Len(l)
        /\ m[Len(m)] = e /\ \A i \in 1..Len(l) : m[i] = l[i]
    BY Appending
  <1>2. ASSUME NEW i \in 1..Len(l)
        PROVE  Reads(m, i) <=> Reads(l, i)
    <2>1. i \in 1..Len(m) /\ \A j \in 1..i : j \in 1..Len(l)
      BY <1>1
    <2> QED
      BY <1>1, <2>1 DEF Reads
  <1>3. ASSUME Reads(m, Len(m))
        PROVE  e.op = "WRITE"
    BY <1>1, <1>3 DEF Reads
  <1>4. \A n \in 0..Len(l) : ReadUpTo(m, n) = ReadUpTo(l, n)
    <2> SUFFICES ASSUME NEW n \in 0..Len(l)
                 PROVE  ReadUpTo(m, n) = ReadUpTo(l, n)
      OBVIOUS
    <2>1. \A i \in 1..n : i \in 1..Len(l)
      BY <1>1
    <2>2. {j \in 1..n : Reads(m, j)} = {j \in 1..n : Reads(l, j)}
      BY <1>2, <2>1
    <2> QED
      BY <1>1, <2>1, <2>2 DEF ReadUpTo
  <1>5. Logged(l) \subseteq Logged(m)
    <2>1. \A i \in 1..Len(l) : i \in 1..Len(m)
      BY <1>1
    <2> QED
      BY <1>1, <1>2, <2>1 DEF Logged, ReadUpTo
  <1>6. Logged(m) \subseteq Logged(l) \cup (IF e.op = "WRITE" THEN {e.arg} ELSE {})
    <2> SUFFICES ASSUME NEW i \in 1..Len(m), Reads(m, i)
                 PROVE  \/ m[i].arg \in Logged(l)
                        \/ e.op = "WRITE" /\ m[i].arg = e.arg
      BY DEF Logged, ReadUpTo
    <2>1. CASE i \in 1..Len(l)
      BY <1>1, <1>2, <2>1 DEF Logged, ReadUpTo
    <2>2. CASE i = Len(m)
      BY <1>1, <1>3, <2>2
    <2> QED
      BY <1>1, <2>1, <2>2
  <1>7. ASSUME e.op = "WRITE", \A i \in 1..Len(m) : Readable(m[i])
        PROVE  e.arg \in Logged(m)
    <2>1. Len(m) \in 1..Len(m) /\ Reads(m, Len(m))
      BY <1>1, <1>7 DEF Reads
    <2> QED
      BY <1>1, <2>1 DEF Logged, ReadUpTo
  <1>8. ASSUME NEW E, LoggedOnce(l, E), e.op # "WRITE" \/ e.arg \notin Logged(l)
        PROVE  LoggedOnce(m, E)
    <2> SUFFICES ASSUME NEW i \in 1..Len(m), NEW j \in 1..Len(m), Reads(m, i), Reads(m, j),
                        m[i].arg = m[j].arg, m[i].arg \notin E
                 PROVE  i = j
      BY <1>1 DEF LoggedOnce
    <2>1. \A k \in 1..Len(l) : Reads(m, k) => m[k].arg \in Logged(l)
      BY <1>1, <1>2 DEF Logged, ReadUpTo
    <2>2. CASE i \in 1..Len(l) /\ j \in 1..Len(l)
      BY <1>1, <1>2, <1>8, <2>2 DEF LoggedOnce
    <2>3. CASE i \in 1..Len(l) /\ j = Len(m)
      BY <1>1, <1>3, <1>8, <2>1, <2>3
    <2>4. CASE i = Len(m) /\ j \in 1..Len(l)
      BY <1>1, <1>3, <1>8, <2>1, <2>4
    <2> QED
      BY <1>1, <2>2, <2>3, <2>4
  <1> QED
    BY <1>1, <1>4, <1>5, <1>6, <1>7, <1>8

(* The log m has what the log l has: nothing was added that is replayed.   *)
Padded(l, m) ==
    /\ m \in Seq(Entry) /\ Len(l) =< Len(m)
    /\ \A n \in 0..Len(l) : ReadUpTo(m, n) = ReadUpTo(l, n)
    /\ Logged(m) = Logged(l)
    /\ \A E : LoggedOnce(l, E) => LoggedOnce(m, E)

LEMMA Padding ==
  ASSUME NEW l \in Seq(Entry), NEW e \in Entry, e.op # "WRITE", NEW m, m = Append(l, e)
  PROVE  Padded(l, m)
  <1>1. m \in Seq(Entry) /\ Len(m) = Len(l) + 1 /\ Len(l) =< Len(m)
    BY LogAppend
  <1>2. \A n \in 0..Len(l) : ReadUpTo(m, n) = ReadUpTo(l, n)
    BY LogAppend
  <1>3. Logged(l) \subseteq Logged(m) /\ Logged(m) \subseteq Logged(l)
    BY LogAppend
  <1>4. \A E : LoggedOnce(l, E) => LoggedOnce(m, E)
    BY LogAppend
  <1> QED
    BY <1>1, <1>2, <1>3, <1>4 DEF Padded

(* The first n entries of a log hold what is read up to n.                 *)
LEMMA LogPrefix ==
  ASSUME NEW l \in Seq(Entry), NEW n \in 0..Len(l)
  PROVE  LET m == SubSeq(l, 1, n) IN
         /\ m \in Seq(Entry) /\ Logged(m) = ReadUpTo(l, n)
         /\ \A E : LoggedOnce(l, E) => LoggedOnce(m, E)
  <1> DEFINE m == SubSeq(l, 1, n)
  <1>1. /\ m \in Seq(Entry) /\ Len(m) = n /\ Len(l) \in Nat
        /\ DOMAIN m = 1..n /\ DOMAIN l = 1..Len(l)
        /\ \A i \in 1..n : i \in 1..Len(l) /\ m[i] = l[i]
    OBVIOUS
  <1> HIDE DEF m
  <1>2. ASSUME NEW i \in 1..n
        PROVE  Reads(m, i) <=> Reads(l, i)
    <2>1. \A j \in 1..i : j \in 1..n
      OBVIOUS
    <2> QED
      BY <1>1, <2>1 DEF Reads
  <1>3. Logged(m) = ReadUpTo(l, n)
    <2>1. {j \in 1..n : Reads(m, j)} = {j \in 1..n : Reads(l, j)}
      BY <1>2
    <2> QED
      BY <1>1, <2>1 DEF Logged, ReadUpTo
  <1>4. \A E : LoggedOnce(l, E) => LoggedOnce(m, E)
    BY <1>1, <1>2 DEF LoggedOnce
  <1> QED
    BY <1>1, <1>3, <1>4 DEF m

LEMMA ReadMonotone ==
  ASSUME NEW l \in Seq(Entry), NEW n \in 0..Len(l), NEW k \in 0..n
  PROVE  ReadUpTo(l, k) \subseteq ReadUpTo(l, n) /\ ReadUpTo(l, n) \subseteq Logged(l)
  <1>1. \A i \in 1..k : i \in 1..n
    OBVIOUS
  <1>2. \A i \in 1..n : i \in 1..Len(l)
    OBVIOUS
  <1> QED
    BY <1>1, <1>2 DEF Logged, ReadUpTo

(* What a crash leaves of the log has what was synced, and nothing else    *)
(* than what was written.                                                  *)
LEMMA Surviving ==
  ASSUME log \in Seq(Entry), synced \in 0..Len(log), NEW l \in Survivors
  PROVE  /\ l \in Seq(Entry)
         /\ ReadUpTo(log, synced) \subseteq Logged(l)
         /\ Logged(l) \subseteq Logged(log)
         /\ \A E : LoggedOnce(log, E) => LoggedOnce(l, E)
  <1>1. ASSUME NEW n \in synced..Len(log)
        PROVE  LET m == SubSeq(log, 1, n) IN
               /\ m \in Seq(Entry)
               /\ ReadUpTo(log, synced) \subseteq Logged(m)
               /\ Logged(m) \subseteq Logged(log)
               /\ \A E : LoggedOnce(log, E) => LoggedOnce(m, E)
    <2>1. n \in 0..Len(log) /\ synced \in 0..n
      OBVIOUS
    <2> QED
      BY <2>1, LogPrefix, ReadMonotone
  <1>2. CASE \E n \in synced..Len(log) : l = SubSeq(log, 1, n)
    BY <1>1, <1>2
  <1>3. CASE \E n \in synced..Len(log) : l = Append(SubSeq(log, 1, n), Torn)
    <2>1. PICK n \in synced..Len(log) : l = Append(SubSeq(log, 1, n), Torn)
      BY <1>3
    <2> DEFINE m == SubSeq(log, 1, n)
    <2>2. m \in Seq(Entry)
      BY <1>1
    <2>3. Torn \in Entry /\ Torn.op # "WRITE"
      BY DEF Torn, Entry
    <2>4. Padded(m, l)
      <3> HIDE DEF m
      <3>1. l = Append(m, Torn)
        BY <2>1 DEF m
      <3> QED
        BY <2>2, <2>3, <3>1, Padding
    <2> QED
      BY <1>1, <2>4 DEF Padded
  <1> QED
    BY <1>2, <1>3 DEF Survivors

(* Exposing more commands asks for less.                                   *)
LEMMA FewerRepeat ==
  ASSUME NEW E, NEW F, E \subseteq F
  PROVE  /\ \A s : Once(s, E) => Once(s, F)
         /\ \A l : LoggedOnce(l, E) => LoggedOnce(l, F)
  BY DEF Once, LoggedOnce


-----------------------------------------------------------------------------
(* A handler applies the new command x to database db.                     *)
LEMMA Issuing ==
  ASSUME NEW s \in Data, NEW db \in Database, NEW x \in Nat, NEW t,
         t = [s EXCEPT ![db] = Append(@, x)]
  PROVE  /\ t \in Data /\ Shown(t) = Shown(s) \cup {x}
         /\ \A E : Once(s, E) /\ x \notin Shown(s) => Once(t, E)
  <1>1. s[db] \in Seq(Nat) /\ s[db] \o <<x>> = Append(s[db], x)
    BY DEF Data
  <1>2. t = [s EXCEPT ![db] = @ \o <<x>>]
    BY <1>1
  <1>3. <<x>> \in Seq(Nat) /\ ToSet(<<x>>) = {x} /\ DOMAIN <<x>> = {1}
    BY DEF ToSet
  <1>4. db \in Database \cup {0}
    OBVIOUS
  <1>5. /\ t \in Data /\ Shown(t) = Shown(s) \cup ToSet(<<x>>)
        /\ \A E :
             /\ Once(s, E)
             /\ \A k, m \in DOMAIN <<x>> : <<x>>[k] = <<x>>[m] /\ <<x>>[k] \notin E => k = m
             /\ Shown(s) \cap ToSet(<<x>>) \subseteq E
             => Once(t, E)
    BY <1>2, <1>3, <1>4, Applying
  <1>6. ASSUME NEW E, Once(s, E), x \notin Shown(s)
        PROVE  Once(t, E)
    <2>1. /\ \A k, m \in DOMAIN <<x>> : <<x>>[k] = <<x>>[m] /\ <<x>>[k] \notin E => k = m
          /\ Shown(s) \cap ToSet(<<x>>) \subseteq E
      BY <1>3, <1>6
    <2> QED
      BY <1>5, <1>6, <2>1
  <1> QED
    BY <1>3, <1>5, <1>6

(* A step of client c leaves the commands of the others where they are.    *)
LEMMA OthersStay ==
  ASSUME NEW c \in Writer, \A d \in Writer \ {c} : proc'[d] = proc[d]
  PROVE  \A where : /\ At(where) \subseteq At(where)' \cup {proc[c].id}
                    /\ proc[c].at # where => At(where) \subseteq At(where)'
  BY DEF At

LEMMA HandleStep ==
  ASSUME IInv, NEW c \in Writer, NEW db \in Database, Handle(c, db)
  PROVE  IInv'
  <1> DEFINE x == writes + 1
  <1>1. /\ proc[c].at = "idle" /\ writes' = x
        /\ mem' = [mem EXCEPT ![db] = Append(@, x)]
        /\ proc' = [proc EXCEPT ![c] = [at |-> "log", id |-> x, db |-> db]]
        /\ UNCHANGED <<strategy, syncing, log, synced, currentDatabase, preamble, onDisk,
                       rewrite, acked, exposed, rewrites, faults>>
    BY DEF Handle, logFile, preambleFile
  <1>2. /\ Types /\ Issued /\ PendingOnce /\ NotLogged /\ CopyWritten /\ CopyComplete
        /\ EachOnce /\ FilesDisjoint /\ FilesInMemory /\ MemoryInFiles
    BY DEF IInv
  <1>3. x \in Nat /\ 1..writes \subseteq 1..x /\ x \notin 1..writes /\ x \in 1..x
    BY <1>2 DEF Types
  <1> HIDE DEF x
  <1>4. /\ mem' \in Data /\ Shown(mem') = Shown(mem) \cup {x}
        /\ \A E : Once(mem, E) /\ x \notin Shown(mem) => Once(mem', E)
    <2>1. mem \in Data
      BY <1>2 DEF Types
    <2> DEFINE t == [mem EXCEPT ![db] = Append(@, x)]
    <2>2. t \in Data
      BY <1>3, <2>1, Issuing
    <2>4. Shown(t) = Shown(mem) \cup {x}
      BY <1>3, <2>1, Issuing
    <2>3. \A E : Once(mem, E) /\ x \notin Shown(mem) => Once(t, E)
      BY <1>3, <2>1, Issuing
    <2> QED
      BY <1>1, <2>2, <2>3, <2>4, Zenon
  <1>5. x \notin Shown(mem) /\ x \notin Shown(rewrite.copy) /\ x \notin Logged(log)
        /\ \A p \in onDisk : x \notin Shown(Base(p))
    BY <1>2, <1>3 DEF Issued
  <1>6. /\ proc'[c] = [at |-> "log", id |-> x, db |-> db]
        /\ \A d \in Writer \ {c} : proc'[d] = proc[d]
    BY <1>1, <1>2 DEF Types
  <1>7. At("log") \subseteq At("log")' /\ At("sync") \subseteq At("sync")' /\ x \in At("log")'
    BY <1>1, <1>6, OthersStay DEF At
  <1>8. Types'
    <2>1. proc' \in [Writer -> [at : {"idle", "log", "sync"}, id : 0..x,
                               db : Database \cup {0}]]
      BY <1>1, <1>2, <1>3 DEF Types
    <2>2. \A d \in Writer : proc'[d].at # "idle" => proc'[d].db \in Database
      BY <1>2, <1>6 DEF Types
    <2> QED
      BY <1>1, <1>2, <1>3, <1>4, <2>1, <2>2 DEF Types
  <1>9. Issued'
    BY <1>1, <1>2, <1>3, <1>4 DEF Issued
  <1>10. PendingOnce'
    <2>1. proc'[c].id = x /\ x \notin acked
      BY <1>2, <1>3, <1>6 DEF Types
    <2>2. \A d \in Writer \ {c} : proc'[d].at # "idle" =>
             proc'[d].id \in Shown(mem) /\ proc'[d].id # x /\ proc'[d].id \notin acked
      BY <1>2, <1>5, <1>6 DEF PendingOnce
    <2>3. x \in Shown(mem') /\ Shown(mem) \subseteq Shown(mem') /\ acked' = acked
      BY <1>1, <1>4
    <2>4. \A d, e \in Writer :
             proc'[d].at # "idle" /\ proc'[e].at # "idle" /\ proc'[d].id = proc'[e].id
               => d = e
      BY <1>2, <1>6, <2>1, <2>2 DEF PendingOnce
    <2> QED
      BY <2>1, <2>2, <2>3, <2>4 DEF PendingOnce
  <1>11. NotLogged'
    BY <1>1, <1>2, <1>5, <1>6 DEF NotLogged
  <1>12. CopyWritten'
    BY <1>1, <1>2 DEF CopyWritten
  <1>13. CopyComplete'
    BY <1>1, <1>2, <1>4, <1>7 DEF CopyComplete
  <1>14. EachOnce'
    BY <1>1, <1>2, <1>4, <1>5 DEF EachOnce
  <1>15. FilesDisjoint'
    BY <1>1, <1>2 DEF FilesDisjoint, Mismatched
  <1>16. FilesInMemory'
    BY <1>1, <1>2, <1>4 DEF FilesInMemory, Mismatched
  <1>17. MemoryInFiles'
    <2>1. \A p, id : Held(p, id) => Held(p, id)'
      BY <1>1, <1>7 DEF Held
    <2> QED
      BY <1>1, <1>2, <1>4, <1>7, <2>1 DEF MemoryInFiles, Mismatched
  <1> QED
    BY <1>8, <1>9, <1>10, <1>11, <1>12, <1>13, <1>14, <1>15, <1>16, <1>17 DEF IInv


(* A SELECT is not replayed, whatever its index is.                        *)
LEMMA Selecting ==
  ASSUME AppendOnlyAssumption, NEW l \in Seq(Entry), NEW db \in Database \cup {-1}
  PROVE  Padded(l, l) /\ Padded(l, l \o <<>>) /\ Padded(l, l \o <<Select(db)>>)
  <1>1. Padded(l, l)
    BY DEF Padded
  <1>2. l \o <<>> = l /\ l \o <<Select(db)>> = Append(l, Select(db))
    OBVIOUS
  <1>3. Select(db) \in Entry /\ Select(db).op # "WRITE"
    BY DEF Select, Entry, AppendOnlyAssumption
  <1> QED
    BY <1>1, <1>2, <1>3, Padding

LEMMA LogCommandStep ==
  ASSUME AppendOnlyAssumption, IInv, NEW c \in Writer, LogCommand(c)
  PROVE  IInv'
  <1> PICK id : id = proc[c].id
    OBVIOUS
  <1> DEFINE select == IF proc[c].db # currentDatabase
                       THEN <<Select(proc[c].db)>> ELSE <<>>
             mid == log \o select
  <1>1. /\ proc[c].at = "log"
        /\ log' = log \o select \o <<Command(id)>>
        /\ currentDatabase' = proc[c].db
        /\ proc' = [proc EXCEPT ![c].at = "sync"]
        /\ exposed' = IF rewrite.at # "idle" \/ Partial \in onDisk
                         \/ ReadableEntries(log') # log'
                      THEN exposed \cup {id} ELSE exposed
        /\ UNCHANGED <<strategy, syncing, mem, synced, preamble, onDisk, rewrite, acked,
                       writes, rewrites, faults>>
    BY DEF LogCommand, preambleFile, counts, Unreadable
  <1>2. /\ Types /\ Issued /\ PendingOnce /\ NotLogged /\ CopyWritten /\ CopyComplete
        /\ EachOnce /\ FilesDisjoint /\ FilesInMemory /\ MemoryInFiles
    BY DEF IInv
  <1>3. /\ id \in Shown(mem) /\ id \in 1..writes /\ id \in Nat /\ id \notin acked
        /\ id \notin Logged(log) /\ proc[c].db \in Database
        /\ \A p \in onDisk : id \in Shown(Base(p)) => id \in exposed
    BY <1>1, <1>2 DEF PendingOnce, NotLogged, Types, Issued
  <1>4. log \in Seq(Entry) /\ synced \in 0..Len(log)
    BY <1>2 DEF Types
  <1>5. Padded(log, mid)
    BY <1>3, <1>4, Selecting
  <1> HIDE DEF mid
  <1>6. Command(id) \in Entry /\ Command(id).op = "WRITE" /\ Command(id).arg = id
    BY <1>3 DEF Command, Entry
  <1>7. mid \in Seq(Entry) /\ log' = Append(mid, Command(id))
    BY <1>1, <1>4, <1>5, <1>6 DEF Padded, mid
  <1>8. /\ log' \in Seq(Entry) /\ Len(log') = Len(mid) + 1
        /\ \A n \in 0..Len(mid) : ReadUpTo(log', n) = ReadUpTo(mid, n)
        /\ Logged(mid) \subseteq Logged(log')
        /\ Logged(log') \subseteq Logged(mid) \cup {id}
        /\ (\A i \in 1..Len(log') : Readable(log'[i])) => id \in Logged(log')
        /\ id \notin Logged(mid) => \A E : LoggedOnce(mid, E) => LoggedOnce(log', E)
    <2> DEFINE e == Command(id)
    <2> HIDE DEF e
    <2>1. e \in Entry /\ e.op = "WRITE" /\ e.arg = id /\ log' = Append(mid, e)
      BY <1>6, <1>7 DEF e
    <2>2. /\ log' \in Seq(Entry) /\ Len(log') = Len(mid) + 1
          /\ \A n \in 0..Len(mid) : ReadUpTo(log', n) = ReadUpTo(mid, n)
          /\ Logged(mid) \subseteq Logged(log')
          /\ Logged(log') \subseteq Logged(mid) \cup (IF e.op = "WRITE" THEN {e.arg} ELSE {})
          /\ e.op = "WRITE" /\ (\A i \in 1..Len(log') : Readable(log'[i]))
                => e.arg \in Logged(log')
          /\ e.op # "WRITE" \/ e.arg \notin Logged(mid)
                => \A E : LoggedOnce(mid, E) => LoggedOnce(log', E)
      BY <1>7, <2>1, LogAppend
    <2> QED
      BY <2>1, <2>2
  <1>9. /\ log' \in Seq(Entry) /\ Len(log) =< Len(log') /\ synced \in 0..Len(log')
        /\ Logged(log) \subseteq Logged(log') /\ Logged(log') \subseteq Logged(log) \cup {id}
        /\ ReadUpTo(log', synced) = ReadUpTo(log, synced)
        /\ ReadableEntries(log') = log' => id \in Logged(log')
    <2>1. /\ Len(log) \in Nat /\ Len(mid) \in Nat /\ Len(log) =< Len(mid)
          /\ synced \in 0..Len(mid) /\ Logged(mid) = Logged(log)
          /\ ReadUpTo(mid, synced) = ReadUpTo(log, synced)
      BY <1>4, <1>5, <1>7 DEF Padded
    <2>2. ReadableEntries(log') = log' => \A i \in 1..Len(log') : Readable(log'[i])
      BY <1>8, AllReadable
    <2>3. Len(log) =< Len(log') /\ synced \in 0..Len(log')
      BY <1>8, <2>1
    <2>4. ReadUpTo(log', synced) = ReadUpTo(log, synced)
      BY <1>8, <2>1
    <2> QED
      BY <1>8, <2>1, <2>2, <2>3, <2>4
  <1>10. \A E : LoggedOnce(log, E) => LoggedOnce(log', E)
    BY <1>3, <1>5, <1>8 DEF Padded
  <1>11. /\ proc'[c] = [proc[c] EXCEPT !.at = "sync"]
         /\ proc'[c].at = "sync" /\ proc'[c].id = id /\ proc'[c].db = proc[c].db
         /\ \A d \in Writer \ {c} : proc'[d] = proc[d]
    BY <1>1, <1>2 DEF Types
  <1>12. /\ At("log") \subseteq At("log")' \cup {id} /\ At("sync") \subseteq At("sync")'
         /\ id \in At("sync")'
    BY <1>1, <1>11, OthersStay DEF At
  <1>13. exposed \subseteq exposed' /\ exposed' \subseteq exposed \cup {id}
    BY <1>1
  <1>14. /\ rewrite.at # "idle" \/ Partial \in onDisk => id \in exposed'
         /\ id \notin exposed' => ReadableEntries(log') = log'
    BY <1>1
  <1>15. \A d \in Writer \ {c} : proc[d].at # "idle" => proc[d].id # id
    BY <1>1, <1>2 DEF PendingOnce
  <1>16. Types'
    <2>1. proc' \in [Writer -> [at : {"idle", "log", "sync"}, id : 0..writes,
                               db : Database \cup {0}]]
      BY ZenonT(30), <1>1, <1>2 DEF Types
    <2>2. \A d \in Writer : proc'[d].at # "idle" => proc'[d].db \in Database
      BY <1>2, <1>3, <1>11 DEF Types
    <2> QED
      BY <1>1, <1>2, <1>3, <1>9, <1>13, <2>1, <2>2 DEF Types
  <1>17. Issued'
    BY <1>1, <1>2, <1>3, <1>9 DEF Issued
  <1>18. PendingOnce'
    BY <1>1, <1>2, <1>3, <1>11, <1>15 DEF PendingOnce
  <1>19. NotLogged'
    BY ZenonT(30), <1>1, <1>2, <1>9, <1>11, <1>13, <1>15 DEF NotLogged
  <1>20. CopyWritten'
    BY <1>1, <1>2 DEF CopyWritten
  <1>21. CopyComplete'
    BY <1>1, <1>2, <1>12, <1>13, <1>14 DEF CopyComplete
  <1>22. EachOnce'
    BY <1>1, <1>2, <1>10, <1>13, FewerRepeat DEF EachOnce
  <1>23. FilesDisjoint'
    BY ZenonT(30), <1>1, <1>2, <1>3, <1>9, <1>13 DEF FilesDisjoint, Mismatched
  <1>24. FilesInMemory'
    BY ZenonT(30), <1>1, <1>2, <1>3, <1>9, <1>13, <1>14 DEF FilesInMemory, Mismatched
  <1>25. MemoryInFiles'
    <2>1. \A p, i : Held(p, i) => Held(p, i)'
      BY <1>1, <1>9, <1>12 DEF Held
    <2>2. ASSUME NEW p \in onDisk, id \notin exposed'
          PROVE  Held(p, id)'
      <3>1. p # Partial /\ id \in Logged(log')
        BY <1>9, <1>14, <2>2
      <3> QED
        BY <1>12, <3>1 DEF Held
    <2>3. acked' \subseteq Shown(mem') \cup exposed' \/ strategy # "always"
      BY <1>1, <1>2, <1>13 DEF MemoryInFiles
    <2>4. ASSUME strategy = "always", ~Mismatched, NEW i \in Shown(mem) \ exposed'
          PROVE  i \in At("log")' \/ \A p \in onDisk : Held(p, i)'
      <3>1. CASE i = id
        BY <2>2, <2>4, <3>1
      <3>2. CASE i # id
        <4>1. i \in At("log") \/ \A p \in onDisk : Held(p, i)
          BY <1>2, <1>13, <2>4 DEF MemoryInFiles
        <4> QED
          BY <1>12, <2>1, <3>2, <4>1
      <3> QED
        BY <3>1, <3>2
    <2> QED
      BY <1>1, <2>3, <2>4 DEF MemoryInFiles, Mismatched
  <1> QED
    BY <1>16, <1>17, <1>18, <1>19, <1>20, <1>21, <1>22, <1>23, <1>24, <1>25 DEF IInv


LEMMA InitInvariant ==
  ASSUME LogInit
  PROVE  IInv
  <1>1. /\ strategy \in Strategy /\ mem = Empty /\ log = <<>> /\ synced = 0
        /\ syncing = TRUE /\ currentDatabase = -1
        /\ preamble = NoPreamble /\ onDisk = {NoPreamble}
        /\ proc = [c \in Writer |-> Idle] /\ rewrite = NoRewrite
        /\ acked = {} /\ exposed = {} /\ writes = 0 /\ rewrites = 0 /\ faults = 0
    BY DEF LogInit
  <1>2. Empty \in Data /\ Shown(Empty) = {} /\ \A E : Once(Empty, E)
    BY EmptyData
  <1>3. rewrite.at = "idle" /\ rewrite.copy = Empty
    BY <1>1 DEF NoRewrite
  <1>4. NoPreamble \in Preamble /\ NoPreamble # Partial /\ Base(NoPreamble) = Empty
    BY DEF Preamble, NoPreamble, Partial, Base
  <1>5. Len(log) = 0 /\ log \in Seq(Entry) /\ Logged(log) = {} /\ \A E : LoggedOnce(log, E)
    <2>1. log \in Seq(Entry) /\ Len(log) = 0 /\ DOMAIN log = {} /\ 1..0 = {}
      BY <1>1
    <2> QED
      BY <2>1 DEF Logged, ReadUpTo, LoggedOnce
  <1>6. \A c \in Writer : proc[c] = Idle /\ proc[c].at = "idle"
    BY <1>1 DEF Idle
  <1>7. Types
    <2>1. proc \in [Writer -> [at : {"idle", "log", "sync"}, id : 0..writes,
                               db : Database \cup {0}]]
      BY <1>1 DEF Idle
    <2>2. rewrite \in [at : {"idle", "copied", "truncated", "written", "synced"},
                       copy : Data]
      BY <1>1, <1>2 DEF NoRewrite
    <2> QED
      BY <1>1, <1>2, <1>4, <1>5, <1>6, <2>1, <2>2 DEF Types
  <1>8. Issued /\ PendingOnce /\ NotLogged /\ CopyWritten /\ CopyComplete
    BY <1>1, <1>2, <1>3, <1>4, <1>5, <1>6
       DEF Issued, PendingOnce, NotLogged, CopyWritten, CopyComplete
  <1>9. EachOnce /\ FilesDisjoint /\ FilesInMemory /\ MemoryInFiles
    BY <1>1, <1>2, <1>3, <1>4, <1>5
       DEF EachOnce, FilesDisjoint, FilesInMemory, MemoryInFiles
  <1> QED
    BY <1>7, <1>8, <1>9 DEF IInv

(* Syncing more of the log keeps the invariant.                            *)
LEMMA SyncKeeps ==
  ASSUME IInv, synced' \in {synced, Len(log)}, faults' \in Nat, syncing' \in BOOLEAN,
         UNCHANGED <<strategy, mem, log, currentDatabase, preamble, onDisk, proc, rewrite,
                     acked, exposed, writes, rewrites>>
  PROVE  IInv'
  <1>1. /\ Types /\ Issued /\ PendingOnce /\ NotLogged /\ CopyWritten /\ CopyComplete
        /\ EachOnce /\ FilesDisjoint /\ FilesInMemory /\ MemoryInFiles
    BY DEF IInv
  <1>2. synced' \in 0..Len(log) /\ synced \in 0..Len(log) /\ log \in Seq(Entry)
    BY <1>1 DEF Types
  <1>3. ReadUpTo(log, synced) \subseteq ReadUpTo(log, synced')
    <2>1. synced' = synced \/ synced' = Len(log)
      OBVIOUS
    <2>2. Len(log) \in 0..Len(log)
      BY <1>2
    <2> QED
      BY <1>2, <2>1, <2>2, ReadMonotone DEF Logged
  <1>4. Types'
    BY <1>1, <1>2 DEF Types
  <1>5. (Issued /\ PendingOnce /\ NotLogged /\ CopyWritten)'
    BY <1>1 DEF Issued, PendingOnce, NotLogged, CopyWritten
  <1>6. (CopyComplete /\ EachOnce /\ FilesDisjoint /\ FilesInMemory)'
    BY <1>1 DEF CopyComplete, EachOnce, FilesDisjoint, FilesInMemory, Mismatched, At
  <1>7. \A p, id : Held(p, id) => Held(p, id)'
    BY <1>3 DEF Held, At
  <1>8. MemoryInFiles'
    BY <1>1, <1>7 DEF MemoryInFiles, Mismatched, At
  <1> QED
    BY <1>4, <1>5, <1>6, <1>8 DEF IInv

LEMMA SyncStep ==
  ASSUME IInv, Sync \/ SyncFails
  PROVE  IInv'
  <1>1. synced \in 0..Len(log) /\ faults \in Nat /\ syncing \in BOOLEAN
    BY DEF IInv, Types
  <1>2. CASE Sync
    BY <1>1, <1>2, SyncKeeps DEF Sync, preambleFile, counts
  <1>3. CASE SyncFails
    <2>1. /\ faults' = faults + 1 /\ syncing' = FALSE
          /\ UNCHANGED <<strategy, mem, log, synced, currentDatabase, preamble, onDisk, proc,
                         rewrite, acked, exposed, writes, rewrites>>
      BY <1>3 DEF SyncFails, Fault, logFile, preambleFile
    <2>2. faults' \in Nat
      BY <1>1, <2>1
    <2> QED
      BY <2>1, <2>2, SyncKeeps
  <1> QED
    BY <1>2, <1>3

LEMMA AnswerStep ==
  ASSUME IInv, NEW c \in Writer, Answer(c)
  PROVE  IInv'
  <1> PICK id : id = proc[c].id
    OBVIOUS
  <1>1. /\ proc[c].at = "sync"
        /\ synced' = IF strategy = "always" THEN Len(log) ELSE synced
        /\ acked' = acked \cup {id}
        /\ proc' = [proc EXCEPT ![c] = Idle]
        /\ UNCHANGED <<strategy, syncing, mem, log, currentDatabase, preamble, onDisk,
                       rewrite, exposed, writes, rewrites, faults>>
    BY DEF Answer, preambleFile, counts
  <1>2. /\ Types /\ Issued /\ PendingOnce /\ NotLogged /\ CopyWritten /\ CopyComplete
        /\ EachOnce /\ FilesDisjoint /\ FilesInMemory /\ MemoryInFiles
    BY DEF IInv
  <1>3. id \in Shown(mem) /\ id \in 1..writes /\ proc[c].at # "idle"
    BY <1>1, <1>2 DEF PendingOnce, Issued
  <1>4. synced' \in 0..Len(log) /\ synced \in 0..Len(log) /\ log \in Seq(Entry)
    BY <1>1, <1>2 DEF Types
  <1>5. /\ ReadUpTo(log, synced) \subseteq ReadUpTo(log, synced')
        /\ strategy = "always" => ReadUpTo(log, synced') = Logged(log)
    <2>1. Len(log) \in 0..Len(log)
      BY <1>4
    <2> QED
      BY <1>1, <1>4, <2>1, ReadMonotone DEF Logged
  <1>6. proc'[c] = Idle /\ proc'[c].at = "idle" /\ \A d \in Writer \ {c} : proc'[d] = proc[d]
    BY <1>1, <1>2 DEF Types, Idle
  <1>7. At("log") \subseteq At("log")' /\ At("sync") \subseteq At("sync")' \cup {id}
    BY <1>1, <1>6, OthersStay
  <1>8. \A d \in Writer : proc'[d].at # "idle" => d # c /\ proc'[d] = proc[d]
    BY <1>6
  <1>9. Types'
    <2>1. proc' \in [Writer -> [at : {"idle", "log", "sync"}, id : 0..writes,
                               db : Database \cup {0}]]
      BY <1>1, <1>2 DEF Types, Idle
    <2>2. \A d \in Writer : proc'[d].at # "idle" => proc'[d].db \in Database
      BY <1>2, <1>8 DEF Types
    <2> QED
      BY <1>1, <1>2, <1>3, <1>4, <2>1, <2>2 DEF Types
  <1>10. (Issued /\ CopyWritten)'
    BY <1>1, <1>2 DEF Issued, CopyWritten
  <1>11. (PendingOnce /\ NotLogged)'
    <2>1. \A d \in Writer \ {c} : proc[d].at # "idle" => proc[d].id # id
      BY <1>1, <1>2 DEF PendingOnce
    <2>2. PendingOnce'
      BY <1>1, <1>2, <1>8, <2>1 DEF PendingOnce
    <2>3. NotLogged'
      BY <1>1, <1>2, <1>8 DEF NotLogged
    <2> QED
      BY <2>2, <2>3
  <1>12. CopyComplete'
    BY <1>1, <1>2, <1>7 DEF CopyComplete
  <1>13. (EachOnce /\ FilesDisjoint /\ FilesInMemory)'
    BY <1>1, <1>2 DEF EachOnce, FilesDisjoint, FilesInMemory, Mismatched
  <1>14. MemoryInFiles'
    <2>1. ASSUME NEW p, NEW i, Held(p, i), strategy = "always"
          PROVE  Held(p, i)'
      BY <1>1, <1>5, <1>7, <2>1 DEF Held
    <2> QED
      BY <1>1, <1>2, <1>3, <1>7, <2>1 DEF MemoryInFiles, Mismatched
  <1> QED
    BY <1>9, <1>10, <1>11, <1>12, <1>13, <1>14 DEF IInv


(* What a failing write leaves of a log is not replayed.                   *)
LEMMA FailedWrite ==
  ASSUME AppendOnlyAssumption, Types, NEW c \in Writer, proc[c].at # "idle",
         NEW w \in FailedWrites(c)
  PROVE  Padded(log, w.file) /\ w.database \in Database \cup {-1}
  <1> DEFINE db == proc[c].db
             select == IF db # currentDatabase THEN <<Select(db)>> ELSE <<>>
             mid == log \o select
  <1>1. log \in Seq(Entry) /\ db \in Database /\ currentDatabase \in Database \cup {-1}
    BY DEF Types
  <1>2. Torn \in Entry /\ Torn.op # "WRITE"
    BY DEF Torn, Entry
  <1>3. Padded(log, log) /\ Padded(log, mid)
    BY <1>1, Selecting
  <1>4. mid \in Seq(Entry)
    BY <1>3 DEF Padded
  <1>5. /\ w.file \in {log, Append(log, Torn), mid, Append(mid, Torn)}
        /\ w.database \in {currentDatabase, db}
    BY DEF FailedWrites
  <1> HIDE DEF mid
  <1>6. Padded(log, Append(log, Torn)) /\ Padded(mid, Append(mid, Torn))
    BY <1>1, <1>2, <1>4, Padding
  <1>7. Padded(log, Append(mid, Torn))
    <2>1. Len(log) \in Nat /\ Len(mid) \in Nat /\ Len(log) =< Len(mid)
      BY <1>1, <1>3, <1>4 DEF Padded
    <2>2. \A n \in 0..Len(log) : n \in 0..Len(mid)
      BY <2>1
    <2>3. Append(mid, Torn) \in Seq(Entry) /\ Len(log) =< Len(Append(mid, Torn))
      BY <1>2, <1>4, <2>1, Appending
    <2> QED
      BY <1>3, <1>6, <2>2, <2>3 DEF Padded
  <1> QED
    BY <1>1, <1>3, <1>5, <1>6, <1>7

LEMMA AnswerFailedStep ==
  ASSUME AppendOnlyAssumption, IInv, NEW c \in Writer, AnswerFailed(c)
  PROVE  IInv'
  <1> PICK id : id = proc[c].id
    OBVIOUS
  <1>1. /\ proc[c].at # "idle"
        /\ faults' = faults + 1
        /\ acked' = acked \cup {id} /\ exposed' = exposed \cup {id}
        /\ proc' = [proc EXCEPT ![c] = Idle]
        /\ UNCHANGED <<strategy, syncing, mem, synced, preamble, onDisk, rewrite, writes,
                       rewrites>>
    BY DEF AnswerFailed, Fault, preambleFile
  <1>2. /\ Types /\ Issued /\ PendingOnce /\ NotLogged /\ CopyWritten /\ CopyComplete
        /\ EachOnce /\ FilesDisjoint /\ FilesInMemory /\ MemoryInFiles
    BY DEF IInv
  <1>3. id \in Shown(mem) /\ id \in 1..writes
    BY <1>1, <1>2 DEF PendingOnce, Issued
  <1>4. log \in Seq(Entry) /\ synced \in 0..Len(log)
    BY <1>2 DEF Types
  <1>5. Padded(log, log') /\ currentDatabase' \in Database \cup {-1}
    <2>1. CASE UNCHANGED <<log, currentDatabase>>
      BY <1>2, <1>4, <2>1 DEF Padded, Types
    <2>2. CASE \E w \in FailedWrites(c) : log' = w.file /\ currentDatabase' = w.database
      BY <1>1, <1>2, <2>2, FailedWrite
    <2> QED
      BY <2>1, <2>2 DEF AnswerFailed
  <1>6. /\ log' \in Seq(Entry) /\ synced \in 0..Len(log') /\ Logged(log') = Logged(log)
        /\ ReadUpTo(log', synced) = ReadUpTo(log, synced)
        /\ \A E : LoggedOnce(log, E) => LoggedOnce(log', E)
    BY <1>4, <1>5 DEF Padded
  <1>7. /\ proc'[c] = Idle /\ proc'[c].at = "idle"
        /\ \A d \in Writer \ {c} : proc'[d] = proc[d]
    BY <1>1, <1>2 DEF Types, Idle
  <1>8. /\ At("log") \subseteq At("log")' \cup {id}
        /\ At("sync") \subseteq At("sync")' \cup {id}
    BY <1>7, OthersStay
  <1>9. \A d \in Writer : proc'[d].at # "idle" => d # c /\ proc'[d] = proc[d]
    BY <1>7
  <1>10. Types'
    <2>1. proc' \in [Writer -> [at : {"idle", "log", "sync"}, id : 0..writes,
                               db : Database \cup {0}]]
      BY <1>1, <1>2 DEF Types, Idle
    <2>2. \A d \in Writer : proc'[d].at # "idle" => proc'[d].db \in Database
      BY <1>2, <1>9 DEF Types
    <2>3. faults \in Nat /\ acked \subseteq 1..writes /\ exposed \subseteq 1..writes
      BY <1>2 DEF Types
    <2>4. acked' \subseteq 1..writes /\ exposed' \subseteq 1..writes
      BY <1>1, <1>3, <2>3
    <2> QED
      BY <1>1, <1>2, <1>5, <1>6, <2>1, <2>2, <2>3, <2>4 DEF Types
  <1>11. (Issued /\ CopyWritten)'
    BY <1>1, <1>2, <1>6 DEF Issued, CopyWritten
  <1>12. PendingOnce'
    <2>1. \A d \in Writer \ {c} : proc[d].at # "idle" => proc[d].id # id
      BY <1>1, <1>2 DEF PendingOnce
    <2> QED
      BY <1>1, <1>2, <1>9, <2>1 DEF PendingOnce
  <1>13. NotLogged'
    BY <1>1, <1>2, <1>6, <1>9 DEF NotLogged
  <1>14. CopyComplete'
    BY <1>1, <1>2, <1>8 DEF CopyComplete
  <1>15. EachOnce'
    BY <1>1, <1>2, <1>6, FewerRepeat DEF EachOnce
  <1>16. (FilesDisjoint /\ FilesInMemory)'
    BY <1>1, <1>2, <1>6 DEF FilesDisjoint, FilesInMemory, Mismatched
  <1>17. MemoryInFiles'
    <2>1. ASSUME NEW p, NEW i, Held(p, i), i # id
          PROVE  Held(p, i)'
      BY <1>1, <1>6, <1>8, <2>1 DEF Held
    <2> QED
      BY <1>1, <1>2, <1>3, <1>8, <2>1 DEF MemoryInFiles, Mismatched
  <1> QED
    BY <1>10, <1>11, <1>12, <1>13, <1>14, <1>15, <1>16, <1>17 DEF IInv

-----------------------------------------------------------------------------
LEMMA CopyStateStep ==
  ASSUME IInv, CopyState
  PROVE  IInv'
  <1>1. /\ rewrite.at = "idle" /\ rewrites' = rewrites + 1
        /\ rewrite' = [at |-> "copied", copy |-> mem]
        /\ exposed' = exposed \cup At("log")
        /\ UNCHANGED <<strategy, syncing, mem, log, synced, currentDatabase, preamble, onDisk,
                       proc, acked, writes, faults>>
    BY DEF CopyState, logFile, preambleFile, At
  <1>2. /\ Types /\ Issued /\ PendingOnce /\ NotLogged /\ CopyWritten /\ CopyComplete
        /\ EachOnce /\ FilesDisjoint /\ FilesInMemory /\ MemoryInFiles
    BY DEF IInv
  <1>3. rewrite'.at = "copied" /\ rewrite'.copy = mem
    BY <1>1
  <1>4. At("log") \subseteq 1..writes
    BY <1>2 DEF At, PendingOnce, Issued
  <1>5. \A c \in Writer : proc[c].at = "log" => proc[c].id \in exposed'
    BY <1>1 DEF At
  <1>6. Types'
    <2>1. /\ mem \in Data /\ rewrites \in Nat /\ exposed \subseteq 1..writes
      BY <1>2 DEF Types
    <2>2. rewrite' \in [at : {"idle", "copied", "truncated", "written", "synced"},
                        copy : Data]
      BY <1>1, <2>1
    <2>3. exposed' \subseteq 1..writes
      BY <1>1, <1>4, <2>1
    <2> QED
      BY <1>1, <1>2, <2>1, <2>2, <2>3 DEF Types
  <1>7. (Issued /\ PendingOnce /\ CopyWritten)'
    BY <1>1, <1>2, <1>3 DEF Issued, PendingOnce, CopyWritten
  <1>8. NotLogged'
    BY <1>1, <1>2, <1>5 DEF NotLogged
  <1>9. CopyComplete'
    BY <1>1, <1>3 DEF CopyComplete
  <1>10. EachOnce'
    BY <1>1, <1>2, <1>3, FewerRepeat DEF EachOnce
  <1>11. (FilesDisjoint /\ FilesInMemory)'
    BY <1>1, <1>2, <1>3 DEF FilesDisjoint, FilesInMemory, Mismatched
  <1>12. MemoryInFiles'
    <2>1. \A p, i : Held(p, i) => Held(p, i)'
      BY <1>1 DEF Held, At
    <2> QED
      BY <1>1, <1>2, <1>3, <2>1 DEF MemoryInFiles, Mismatched, At
  <1> QED
    BY <1>6, <1>7, <1>8, <1>9, <1>10, <1>11, <1>12 DEF IInv

(* While the two files do not fit each other, three of the parts say       *)
(* nothing about them.                                                     *)
LEMMA TruncatePreambleStep ==
  ASSUME IInv, TruncatePreamble
  PROVE  IInv'
  <1>1. /\ rewrite.at = "copied"
        /\ preamble' = NoPreamble /\ onDisk' = onDisk \cup {NoPreamble}
        /\ rewrite' = [rewrite EXCEPT !.at = "truncated"]
        /\ UNCHANGED <<strategy, syncing, mem, log, synced, currentDatabase, proc, acked,
                       exposed, writes, rewrites, faults>>
    BY DEF TruncatePreamble, logFile, counts
  <1>2. /\ Types /\ Issued /\ PendingOnce /\ NotLogged /\ CopyWritten /\ CopyComplete
        /\ EachOnce /\ MemoryInFiles
    BY DEF IInv
  <1>3. rewrite'.at = "truncated" /\ rewrite'.copy = rewrite.copy /\ Mismatched'
    BY <1>1, <1>2 DEF Types, Mismatched
  <1>4. /\ NoPreamble \in Preamble
        /\ Shown(Base(NoPreamble)) = {} /\ \A E : Once(Base(NoPreamble), E)
    BY PreambleBase DEF Preamble
  <1>5. Types'
    BY <1>1, <1>2, <1>4 DEF Types
  <1>6. (Issued /\ PendingOnce /\ NotLogged)'
    BY <1>1, <1>2, <1>3, <1>4 DEF Issued, PendingOnce, NotLogged
  <1>7. (CopyWritten /\ CopyComplete)'
    BY <1>1, <1>2, <1>3 DEF CopyWritten, CopyComplete, At
  <1>8. EachOnce'
    BY <1>1, <1>2, <1>3, <1>4 DEF EachOnce
  <1>9. (FilesDisjoint /\ FilesInMemory)'
    BY <1>3 DEF FilesDisjoint, FilesInMemory
  <1>10. MemoryInFiles'
    BY <1>1, <1>2, <1>3 DEF MemoryInFiles
  <1> QED
    BY <1>5, <1>6, <1>7, <1>8, <1>9, <1>10 DEF IInv

LEMMA WritePreambleStep ==
  ASSUME IInv, WritePreamble
  PROVE  IInv'
  <1>1. /\ rewrite.at = "truncated"
        /\ preamble' = State(rewrite.copy) /\ onDisk' = onDisk \cup {Partial, preamble'}
        /\ rewrite' = [rewrite EXCEPT !.at = "written"]
        /\ UNCHANGED <<strategy, syncing, mem, log, synced, currentDatabase, proc, acked,
                       exposed, writes, rewrites, faults>>
    BY DEF WritePreamble, logFile, counts
  <1>2. /\ Types /\ Issued /\ PendingOnce /\ NotLogged /\ CopyWritten /\ CopyComplete
        /\ EachOnce /\ MemoryInFiles
    BY DEF IInv
  <1>3. rewrite'.at = "written" /\ rewrite'.copy = rewrite.copy /\ Mismatched'
    BY <1>1, <1>2 DEF Types, Mismatched
  <1>4. /\ Partial \in Preamble
        /\ Shown(Base(Partial)) = {} /\ \A E : Once(Base(Partial), E)
    BY PreambleBase DEF Preamble
  <1>5. preamble' \in Preamble /\ Base(preamble') = rewrite.copy
    <2>1. preamble' \in Preamble
      BY <1>1, <1>2 DEF Preamble, Types
    <2> QED
      BY <1>1, <2>1, PreambleBase
  <1>6. Types'
    BY <1>1, <1>2, <1>4, <1>5 DEF Types
  <1>7. (Issued /\ PendingOnce)'
    BY <1>1, <1>2, <1>3, <1>4, <1>5 DEF Issued, PendingOnce
  <1>8. NotLogged'
    BY <1>1, <1>2, <1>3, <1>4, <1>5 DEF NotLogged
  <1>9. (CopyWritten /\ CopyComplete)'
    BY <1>1, <1>2, <1>3 DEF CopyWritten, CopyComplete, At
  <1>10. EachOnce'
    BY <1>1, <1>2, <1>3, <1>4, <1>5 DEF EachOnce
  <1>11. (FilesDisjoint /\ FilesInMemory)'
    BY <1>3 DEF FilesDisjoint, FilesInMemory
  <1>12. MemoryInFiles'
    BY <1>1, <1>2, <1>3 DEF MemoryInFiles
  <1> QED
    BY <1>6, <1>7, <1>8, <1>9, <1>10, <1>11, <1>12 DEF IInv

LEMMA SyncPreambleStep ==
  ASSUME IInv, SyncPreamble
  PROVE  IInv'
  <1>1. /\ rewrite.at = "written"
        /\ onDisk' = {preamble}
        /\ rewrite' = [rewrite EXCEPT !.at = "synced"]
        /\ UNCHANGED <<strategy, syncing, mem, log, synced, currentDatabase, preamble, proc,
                       acked, exposed, writes, rewrites, faults>>
    BY DEF SyncPreamble, logFile, counts
  <1>2. /\ Types /\ Issued /\ PendingOnce /\ NotLogged /\ CopyWritten /\ CopyComplete
        /\ EachOnce /\ MemoryInFiles
    BY DEF IInv
  <1>3. rewrite'.at = "synced" /\ rewrite'.copy = rewrite.copy /\ Mismatched'
    BY <1>1, <1>2 DEF Types, Mismatched
  <1>4. onDisk' \subseteq onDisk /\ preamble \in onDisk
    BY <1>1, <1>2 DEF Types
  <1>5. Types'
    BY <1>1, <1>2, <1>4 DEF Types
  <1>6. (Issued /\ PendingOnce /\ NotLogged)'
    BY <1>1, <1>2, <1>3, <1>4 DEF Issued, PendingOnce, NotLogged
  <1>7. (CopyWritten /\ CopyComplete)'
    BY <1>1, <1>2, <1>3 DEF CopyWritten, CopyComplete, At
  <1>8. EachOnce'
    BY <1>1, <1>2, <1>3, <1>4 DEF EachOnce
  <1>9. (FilesDisjoint /\ FilesInMemory)'
    BY <1>3 DEF FilesDisjoint, FilesInMemory
  <1>10. MemoryInFiles'
    BY <1>1, <1>2, <1>3 DEF MemoryInFiles
  <1> QED
    BY <1>5, <1>6, <1>7, <1>8, <1>9, <1>10 DEF IInv


LEMMA TruncateStep ==
  ASSUME AppendOnlyAssumption, IInv, Truncate
  PROVE  IInv'
  <1>1. /\ rewrite.at = "synced"
        /\ log' = <<Select(currentDatabase)>> /\ synced' = 1 /\ rewrite' = NoRewrite
        /\ UNCHANGED <<strategy, syncing, mem, currentDatabase, preamble, onDisk, proc, acked,
                       exposed, writes, rewrites, faults>>
    BY DEF Truncate, preambleFile, counts
  <1>2. /\ Types /\ Issued /\ PendingOnce /\ NotLogged /\ CopyWritten /\ CopyComplete
        /\ EachOnce /\ MemoryInFiles
    BY DEF IInv
  <1>3. rewrite'.at = "idle" /\ rewrite'.copy = Empty
    BY <1>1 DEF NoRewrite
  <1>4. onDisk = {State(rewrite.copy)} /\ Base(State(rewrite.copy)) = rewrite.copy
    <2>1. onDisk = {preamble} /\ preamble = State(rewrite.copy) /\ preamble \in Preamble
      BY <1>1, <1>2 DEF CopyWritten, Types
    <2> QED
      BY <2>1, PreambleBase
  <1>5. State(rewrite.copy) # Partial
    BY DEF State, Partial
  <1>6. /\ log' \in Seq(Entry) /\ Len(log') = 1 /\ Logged(log') = {}
        /\ \A E : LoggedOnce(log', E)
    <2>1. Select(currentDatabase) \in Entry /\ Select(currentDatabase).op # "WRITE"
      BY <1>2 DEF Select, Entry, Types, AppendOnlyAssumption
    <2>2. log' \in Seq(Entry) /\ Len(log') = 1 /\ DOMAIN log' = 1..1
          /\ \A i \in 1..1 : log'[i].op # "WRITE"
      BY <1>1, <2>1
    <2>3. \A i : ~Reads(log', i)
      BY <2>2 DEF Reads
    <2> QED
      BY <2>2, <2>3 DEF Logged, ReadUpTo, LoggedOnce
  <1>7. Empty \in Data /\ Shown(Empty) = {} /\ \A E : Once(Empty, E)
    BY EmptyData
  <1>8. /\ Shown(rewrite.copy) \subseteq Shown(mem)
        /\ Shown(mem) \subseteq Shown(rewrite.copy) \cup At("log") \cup exposed
    BY <1>1, <1>2 DEF CopyComplete
  <1>9. Types'
    <2>1. rewrite' \in [at : {"idle", "copied", "truncated", "written", "synced"},
                        copy : Data]
      BY <1>1, <1>7 DEF NoRewrite
    <2> QED
      BY <1>1, <1>2, <1>6, <2>1 DEF Types
  <1>10. (Issued /\ PendingOnce)'
    BY <1>1, <1>2, <1>3, <1>6, <1>7 DEF Issued, PendingOnce
  <1>11. NotLogged'
    BY <1>1, <1>2, <1>3, <1>6 DEF NotLogged
  <1>12. (CopyWritten /\ CopyComplete)'
    BY <1>3 DEF CopyWritten, CopyComplete
  <1>13. EachOnce'
    BY <1>1, <1>2, <1>3, <1>6, <1>7 DEF EachOnce
  <1>14. FilesDisjoint'
    BY <1>6 DEF FilesDisjoint
  <1>15. FilesInMemory'
    BY <1>1, <1>4, <1>5, <1>6, <1>8 DEF FilesInMemory
  <1>16. MemoryInFiles'
    <2>1. \A i \in Shown(rewrite.copy) : \A p \in onDisk : Held(p, i)'
      BY <1>4, <1>5 DEF Held
    <2> QED
      BY <1>1, <1>2, <1>8, <2>1 DEF MemoryInFiles, At
  <1> QED
    BY <1>9, <1>10, <1>11, <1>12, <1>13, <1>14, <1>15, <1>16 DEF IInv

(* Once every command is exposed, the parts of the invariant about the     *)
(* contents of the files hold whatever they are.                           *)
LEMMA AllExposed ==
  ASSUME Types', Issued', exposed' = 1..writes'
  PROVE  (EachOnce /\ FilesDisjoint /\ FilesInMemory /\ MemoryInFiles)'
  <1>1. /\ Shown(mem') \subseteq exposed' /\ Shown(rewrite'.copy) \subseteq exposed'
        /\ Logged(log') \subseteq exposed'
        /\ \A p \in onDisk' : Shown(Base(p)) \subseteq exposed'
    BY DEF Issued
  <1>2. \A s, E : Shown(s) \subseteq E => Once(s, E)
    BY DEF Shown, ToSet, Once
  <1>3. \A l, E : l \in Seq(Entry) /\ Logged(l) \subseteq E => LoggedOnce(l, E)
    BY DEF Logged, ReadUpTo, LoggedOnce
  <1>4. EachOnce'
    BY <1>1, <1>2, <1>3 DEF EachOnce, Types
  <1>5. (FilesDisjoint /\ FilesInMemory)'
    BY <1>1 DEF FilesDisjoint, FilesInMemory
  <1>6. MemoryInFiles'
    BY <1>1 DEF MemoryInFiles, Types
  <1> QED
    BY <1>4, <1>5, <1>6

LEMMA RewriteFailsStep ==
  ASSUME AppendOnlyAssumption, IInv, RewriteFails
  PROVE  IInv'
  <1>1. /\ rewrite.at # "idle" /\ faults' = faults + 1
        /\ rewrite' = NoRewrite
        /\ exposed' = IF rewrite.at = "copied" THEN exposed ELSE 1..writes
        /\ UNCHANGED <<strategy, mem, currentDatabase, syncing, proc, acked, writes, rewrites>>
    BY DEF RewriteFails, Fault
  <1>2. /\ Types /\ Issued /\ PendingOnce /\ NotLogged /\ CopyWritten /\ CopyComplete
        /\ EachOnce /\ FilesDisjoint /\ FilesInMemory /\ MemoryInFiles
    BY DEF IInv
  <1>3. rewrite'.at = "idle" /\ rewrite'.copy = Empty
    BY <1>1 DEF NoRewrite
  <1>4. Empty \in Data /\ Shown(Empty) = {} /\ \A E : Once(Empty, E)
    BY EmptyData
  <1>5. /\ preamble' \in onDisk' /\ onDisk' \subseteq onDisk \cup {NoPreamble, Partial}
        /\ onDisk' \subseteq Preamble
    BY <1>2 DEF RewriteFails, preambleFile, Types, Preamble
  <1>6. /\ log' \in Seq(Entry) /\ synced' \in 0..Len(log')
        /\ Logged(log') \subseteq Logged(log)
    <2>1. CASE UNCHANGED <<log, synced>>
      BY <1>2, <2>1 DEF Types
    <2>2. CASE log' \in {<<>>, <<Torn>>, <<Select(currentDatabase)>>} /\ synced' = 0
      <3>1. /\ Select(currentDatabase) \in Entry /\ Select(currentDatabase).op # "WRITE"
            /\ Torn \in Entry /\ Torn.op # "WRITE"
        BY <1>2 DEF Select, Torn, Entry, Types, AppendOnlyAssumption
      <3>2. /\ log' \in Seq(Entry) /\ Len(log') \in Nat
            /\ \A i \in DOMAIN log' : log'[i].op # "WRITE"
        <4>1. CASE log' = <<>>
          BY <4>1
        <4>2. ASSUME NEW e \in Entry, e.op # "WRITE", log' = <<e>>
              PROVE  /\ log' \in Seq(Entry) /\ Len(log') \in Nat
                     /\ \A i \in DOMAIN log' : log'[i].op # "WRITE"
          BY <4>2
        <4> QED
          BY <2>2, <3>1, <4>1, <4>2
      <3>3. \A i : ~Reads(log', i)
        BY <3>2 DEF Reads
      <3> QED
        BY <2>2, <3>2, <3>3 DEF Logged, ReadUpTo
    <2> QED
      BY <2>1, <2>2 DEF RewriteFails
  <1>7. /\ NoPreamble \in Preamble /\ Partial \in Preamble
        /\ Shown(Base(NoPreamble)) = {} /\ Shown(Base(Partial)) = {}
    BY PreambleBase DEF Preamble
  <1>8. Types'
    <2>1. rewrite' \in [at : {"idle", "copied", "truncated", "written", "synced"},
                        copy : Data]
      BY <1>1, <1>4 DEF NoRewrite
    <2>2. faults' \in Nat /\ exposed' \subseteq 1..writes
      BY <1>1, <1>2 DEF Types
    <2> QED
      BY <1>1, <1>2, <1>5, <1>6, <2>1, <2>2 DEF Types
  <1>9. Issued'
    BY <1>1, <1>2, <1>3, <1>4, <1>5, <1>6, <1>7 DEF Issued
  <1>10. (PendingOnce /\ CopyWritten /\ CopyComplete)'
    BY <1>1, <1>2, <1>3 DEF PendingOnce, CopyWritten, CopyComplete
  <1>11. exposed \subseteq exposed'
    BY <1>1, <1>2 DEF Types
  <1>12. NotLogged'
    BY <1>1, <1>2, <1>3, <1>5, <1>6, <1>7, <1>11 DEF NotLogged
  <1>13. (EachOnce /\ FilesDisjoint /\ FilesInMemory /\ MemoryInFiles)'
    <2>1. CASE rewrite.at # "copied"
      BY <1>1, <1>8, <1>9, <2>1, AllExposed
    <2>2. CASE rewrite.at = "copied"
      <3>1. UNCHANGED <<log, synced, preamble, onDisk>> /\ exposed' = exposed /\ ~Mismatched
        BY <1>1, <2>2 DEF RewriteFails, preambleFile, Mismatched
      <3>2. EachOnce'
        BY <1>1, <1>2, <1>3, <1>4, <3>1 DEF EachOnce
      <3>3. (FilesDisjoint /\ FilesInMemory)'
        BY <1>1, <1>2, <3>1 DEF FilesDisjoint, FilesInMemory
      <3>4. \A p, i : Held(p, i) => Held(p, i)'
        BY <1>1, <3>1 DEF Held, At
      <3>5. MemoryInFiles'
        BY <1>1, <1>2, <3>1, <3>4 DEF MemoryInFiles, At
      <3> QED
        BY <3>2, <3>3, <3>5
    <2> QED
      BY <2>1, <2>2
  <1> QED
    BY <1>8, <1>9, <1>10, <1>12, <1>13 DEF IInv

-----------------------------------------------------------------------------
(* What the properties say of the files p and l, and what a crash needs.   *)
LEMMA Recovered ==
  ASSUME IInv, NEW p \in onDisk, NEW l \in Survivors
  PROVE  /\ p \in Preamble /\ l \in Seq(Entry) /\ Restore(p, l) \in Data
         /\ Shown(Restore(p, l)) \subseteq 1..writes
         /\ Shown(Base(p)) \subseteq 1..writes /\ Logged(l) \subseteq 1..writes
         /\ ~Mismatched =>
               /\ Once(Restore(p, l), exposed)
               /\ Once(Base(p), exposed) /\ LoggedOnce(l, exposed)
               /\ Shown(Base(p)) \cap Logged(l) \subseteq exposed
               /\ Shown(Base(p)) \cup Logged(l) \subseteq Shown(Restore(p, l)) \cup exposed
               /\ Shown(Restore(p, l)) \subseteq Shown(mem) \cup exposed
         /\ strategy = "always" /\ ~Mismatched =>
               Shown(mem) \ (At("log") \cup At("sync")) \subseteq Shown(Restore(p, l)) \cup exposed
  <1>1. /\ Types /\ Issued /\ EachOnce /\ FilesDisjoint /\ FilesInMemory /\ MemoryInFiles
    BY DEF IInv
  <1>2. p \in Preamble /\ log \in Seq(Entry) /\ synced \in 0..Len(log)
    BY <1>1 DEF Types
  <1>3. /\ l \in Seq(Entry)
        /\ ReadUpTo(log, synced) \subseteq Logged(l)
        /\ Logged(l) \subseteq Logged(log)
        /\ \A E : LoggedOnce(log, E) => LoggedOnce(l, E)
    BY <1>2, Surviving
  <1>4. /\ Restore(p, l) \in Data
        /\ Shown(Restore(p, l)) = IF p = Partial THEN {} ELSE Shown(Base(p)) \cup Logged(l)
        /\ \A E :
              /\ Once(Base(p), E) /\ LoggedOnce(l, E)
              /\ Shown(Base(p)) \cap Logged(l) \subseteq E
              => Once(Restore(p, l), E)
    BY <1>2, <1>3, Restoring
  <1>5. /\ Shown(Base(p)) \subseteq 1..writes /\ Logged(l) \subseteq 1..writes
        /\ Shown(Restore(p, l)) \subseteq 1..writes
    BY <1>1, <1>3, <1>4 DEF Issued
  <1>6. ASSUME ~Mismatched
        PROVE  /\ Once(Restore(p, l), exposed)
               /\ Once(Base(p), exposed) /\ LoggedOnce(l, exposed)
               /\ Shown(Base(p)) \cap Logged(l) \subseteq exposed
               /\ Shown(Base(p)) \cup Logged(l) \subseteq Shown(Restore(p, l)) \cup exposed
               /\ Shown(Restore(p, l)) \subseteq Shown(mem) \cup exposed
    <2>1. Once(Base(p), exposed) /\ LoggedOnce(l, exposed)
      BY <1>1, <1>3 DEF EachOnce
    <2>2. Shown(Base(p)) \cap Logged(l) \subseteq exposed
      BY <1>1, <1>3, <1>6 DEF FilesDisjoint
    <2>3. /\ Shown(Base(p)) \cup Logged(log) \subseteq Shown(mem) \cup exposed
          /\ p = Partial => Logged(log) \subseteq exposed
      BY <1>1, <1>6 DEF FilesInMemory
    <2>4. p = Partial => Shown(Base(p)) = {}
      BY <1>2, PreambleBase
    <2> QED
      BY <1>3, <1>4, <2>1, <2>2, <2>3, <2>4
  <1>7. ASSUME strategy = "always", ~Mismatched,
               NEW i \in Shown(mem) \ (At("log") \cup At("sync")), i \notin exposed
        PROVE  i \in Shown(Restore(p, l))
    <2>1. Held(p, i)
      BY <1>1, <1>7 DEF MemoryInFiles
    <2> QED
      BY <1>3, <1>4, <1>7, <2>1 DEF Held
  <1> QED
    BY <1>2, <1>3, <1>4, <1>5, <1>6, <1>7


LEMMA CrashAndRestartStep ==
  ASSUME IInv, NEW p \in onDisk, NEW l \in Survivors, CrashAndRestart(p, l)
  PROVE  IInv'
  <1>1. /\ faults' = faults + 1
        /\ preamble' = p /\ onDisk' = {p} /\ log' = l /\ synced' = Len(l) /\ syncing' = TRUE
        /\ mem' = Restore(p, l) /\ currentDatabase' = -1
        /\ proc' = [c \in Writer |-> Idle] /\ rewrite' = NoRewrite
        /\ exposed' = IF Mismatched THEN 1..writes ELSE exposed
        /\ UNCHANGED <<strategy, acked, writes, rewrites>>
    BY DEF CrashAndRestart, Fault
  <1>2. Types /\ PendingOnce /\ MemoryInFiles
    BY DEF IInv
  <1>3. /\ p \in Preamble /\ l \in Seq(Entry) /\ mem' \in Data
        /\ Shown(mem') \subseteq 1..writes
        /\ Shown(Base(p)) \subseteq 1..writes /\ Logged(l) \subseteq 1..writes
        /\ ~Mismatched =>
              /\ Once(mem', exposed)
              /\ Once(Base(p), exposed) /\ LoggedOnce(l, exposed)
              /\ Shown(Base(p)) \cap Logged(l) \subseteq exposed
              /\ Shown(Base(p)) \cup Logged(l) \subseteq Shown(mem') \cup exposed
        /\ strategy = "always" /\ ~Mismatched =>
              Shown(mem) \ (At("log") \cup At("sync")) \subseteq Shown(mem') \cup exposed
    BY <1>1, Recovered
  <1>4. Empty \in Data /\ Shown(Empty) = {} /\ \A E : Once(Empty, E)
    BY EmptyData
  <1>5. rewrite'.at = "idle" /\ rewrite'.copy = Empty /\ ~Mismatched'
    BY <1>1 DEF NoRewrite, Mismatched
  <1>6. \A c \in Writer : proc'[c].at = "idle"
    BY <1>1 DEF Idle
  <1>7. Types'
    <2>1. rewrite' \in [at : {"idle", "copied", "truncated", "written", "synced"},
                        copy : Data]
      BY <1>1, <1>4 DEF NoRewrite
    <2>2. proc' \in [Writer -> [at : {"idle", "log", "sync"}, id : 0..writes,
                               db : Database \cup {0}]]
      BY <1>1, <1>2 DEF Idle, Types
    <2>3. Len(l) \in 0..Len(l)
      BY <1>3
    <2>4. faults' \in Nat /\ exposed' \subseteq 1..writes
      BY <1>1, <1>2 DEF Types
    <2> QED
      BY <1>1, <1>2, <1>3, <1>6, <2>1, <2>2, <2>3, <2>4 DEF Types
  <1>8. Issued'
    BY <1>1, <1>3, <1>4, <1>5 DEF Issued
  <1>9. (PendingOnce /\ NotLogged)'
    BY <1>6 DEF PendingOnce, NotLogged
  <1>10. (CopyWritten /\ CopyComplete)'
    BY <1>5 DEF CopyWritten, CopyComplete
  <1>11. (EachOnce /\ FilesDisjoint /\ FilesInMemory /\ MemoryInFiles)'
    <2>1. CASE Mismatched
      BY <1>1, <1>7, <1>8, <2>1, AllExposed
    <2>2. CASE ~Mismatched
      <3>1. exposed' = exposed
        BY <1>1, <2>2
      <3>2. EachOnce'
        BY <1>1, <1>3, <1>4, <1>5, <2>2, <3>1 DEF EachOnce
      <3>3. FilesDisjoint'
        BY <1>1, <1>3, <2>2, <3>1 DEF FilesDisjoint
      <3>4. FilesInMemory'
        <4>1. Partial \in onDisk' => Logged(l) \subseteq exposed
          <5>1. Partial \in onDisk' => Partial \in onDisk
            BY <1>1
          <5>2. Partial \in onDisk => Logged(log) \subseteq exposed
            BY <2>2 DEF IInv, FilesInMemory
          <5>3. Logged(l) \subseteq Logged(log)
            BY <1>2, Surviving DEF Types
          <5> QED
            BY <5>1, <5>2, <5>3
        <4> QED
          BY <1>1, <1>3, <2>2, <3>1, <4>1 DEF FilesInMemory
      <3>5. MemoryInFiles'
        <4> SUFFICES ASSUME strategy = "always"
                     PROVE  MemoryInFiles'
          BY <1>1 DEF MemoryInFiles
        <4>1. acked \subseteq Shown(mem') \cup exposed
          <5>1. acked \cap (At("log") \cup At("sync")) = {}
            BY <1>2 DEF At, PendingOnce
          <5> QED
            BY <1>2, <1>3, <2>2, <5>1 DEF MemoryInFiles
        <4>2. ASSUME NEW i \in Shown(mem')
              PROVE  Held(p, i)'
          <5>1. p # Partial /\ i \in Shown(Base(p)) \cup Logged(l)
            BY <1>1, <1>3, Restoring
          <5>2. ReadUpTo(log', synced') = Logged(l)
            BY <1>1 DEF Logged
          <5> QED
            BY <5>1, <5>2 DEF Held
        <4> QED
          BY <1>1, <3>1, <4>1, <4>2 DEF MemoryInFiles
      <3> QED
        BY <3>2, <3>3, <3>4, <3>5
    <2> QED
      BY <2>1, <2>2
  <1> QED
    BY <1>7, <1>8, <1>9, <1>10, <1>11 DEF IInv

LEMMA StutterStep ==
  ASSUME IInv, UNCHANGED logVars
  PROVE  IInv'
  BY SMTT(30) DEF logVars, IInv, Types, Issued, PendingOnce, NotLogged, CopyWritten, CopyComplete, EachOnce,
         FilesDisjoint, FilesInMemory, MemoryInFiles, Mismatched, At, Held

(* Every reachable state satisfies IInv: one case for each action of the   *)
(* append-only file, its rewrite and its restore.                          *)
THEOREM Invariant == LogSpec => []IInv
  <1>1. LogInit => IInv
    BY InitInvariant
  <1>2. IInv /\ [LogNext]_logVars => IInv'
    <2> SUFFICES ASSUME IInv, [LogNext]_logVars
                 PROVE  IInv'
      OBVIOUS
    <2>1. CASE \E c \in Writer, db \in Database : Handle(c, db)
      BY <2>1, HandleStep
    <2>2. CASE \E c \in Writer : LogCommand(c)
      BY <2>2, AppendOnlyAssumption, LogCommandStep
    <2>3. CASE \E c \in Writer : Answer(c)
      BY <2>3, AnswerStep
    <2>4. CASE \E c \in Writer : AnswerFailed(c)
      BY <2>4, AppendOnlyAssumption, AnswerFailedStep
    <2>5. CASE Sync \/ SyncFails
      BY <2>5, SyncStep
    <2>6. CASE RewriteLog
      BY <2>6, CopyStateStep, TruncatePreambleStep, WritePreambleStep, SyncPreambleStep,
         TruncateStep, AppendOnlyAssumption DEF RewriteLog
    <2>7. CASE RewriteFails
      BY <2>7, AppendOnlyAssumption, RewriteFailsStep
    <2>8. CASE \E p \in onDisk, l \in Survivors : CrashAndRestart(p, l)
      BY <2>8, CrashAndRestartStep
    <2>9. CASE UNCHANGED logVars
      BY <2>9, StutterStep
    <2> QED
      BY <2>1, <2>2, <2>3, <2>4, <2>5, <2>6, <2>7, <2>8, <2>9 DEF LogNext
  <1> QED
    BY <1>1, <1>2, PTL DEF LogSpec

(* The variables keep their types.                                         *)
THEOREM TypeCorrect == LogSpec => []LogTypeOK
  <1>1. ASSUME IInv
        PROVE  LogTypeOK
    <2>1. Types /\ Shown(mem) \subseteq 1..writes
      BY <1>1 DEF IInv, Issued
    <2>2. \A db \in DOMAIN mem : \A i \in DOMAIN mem[db] : mem[db][i] \in Shown(mem)
      BY DEF Shown, ToSet
    <2>3. \A db \in DOMAIN mem : \A i \in DOMAIN mem[db] : mem[db][i] \in 1..writes
      BY <2>1, <2>2
    <2> QED
      BY <2>1, <2>3 DEF Types, LogTypeOK
  <1> QED
    BY <1>1, Invariant, PTL

(* With "always", every command that was answered and is not exposed is in *)
(* the data that Restore makes of whatever a crash leaves.                 *)
THEOREM AckedSurviveCorrect == LogSpec => []AckedSurvive
  <1>1. ASSUME IInv
        PROVE  AckedSurvive
    <2> SUFFICES ASSUME strategy = "always", ~Mismatched, NEW p \in onDisk, NEW l \in Survivors
                 PROVE  acked \ exposed \subseteq Shown(Restore(p, l))
      BY DEF AckedSurvive
    <2>1. acked \subseteq Shown(mem) \cup exposed
      BY <1>1 DEF IInv, MemoryInFiles
    <2>2. acked \cap (At("log") \cup At("sync")) = {}
      BY <1>1 DEF IInv, PendingOnce, At
    <2>3. Shown(mem) \ (At("log") \cup At("sync")) \subseteq Shown(Restore(p, l)) \cup exposed
      BY <1>1, Recovered
    <2> QED
      BY <2>1, <2>2, <2>3
  <1> QED
    BY <1>1, Invariant, PTL

(* Restore applies no command twice that is not exposed: neither from the  *)
(* log alone, nor from the preamble and the log.                           *)
THEOREM NoneTwiceCorrect == LogSpec => []NoneTwice
  <1>1. ASSUME IInv
        PROVE  NoneTwice
    <2> SUFFICES ASSUME ~Mismatched, NEW p \in onDisk, NEW l \in Survivors
                 PROVE  Once(Restore(p, l), exposed)
      BY DEF NoneTwice, Once
    <2> QED
      BY <1>1, Recovered
  <1> QED
    BY <1>1, Invariant, PTL
=============================================================================
