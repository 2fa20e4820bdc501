--------------------------- MODULE HandlerProofs ---------------------------
(***************************************************************************)
(* Proofs about the way of a command through one node: DataTypes, what the *)
(* handlers promise, for any keys, values and bounds, and StateCopy, the   *)
(* gate that handleCommand puts before them, for any number of clients,    *)
(* commands and copies.                                                    *)
(*                                                                         *)
(* Each handler is shown Sound: from the invariant it leads to the         *)
(* invariant, and it keeps what EffectsDeclared and ErrorsChangeNothing    *)
(* say.  The instances Z, S, H, L and T of DataTypes have copies of the    *)
(* operators of DataStore, so each has its own lemmas about answering,     *)
(* saving and changing in place.                                           *)
(*                                                                         *)
(* What DataTypes expects of its constants, Inputs, is a hypothesis here:  *)
(* MCState instantiates DataTypes and assumes it of the instance.          *)
(***************************************************************************)
EXTENDS DataTypes, StateCopy, FiniteSetTheorems, WellFoundedInduction, TLAPS

-----------------------------------------------------------------------------
(* Recursion.                                                              *)

(* Induction, with a set in the place of a predicate.                      *)
LEMMA Induction ==
    ASSUME NEW A \in SUBSET Nat, 0 \in A, \A n \in A : n + 1 \in A
    PROVE  A = Nat
  <1> DEFINE R == OpToRel(<, Nat)
             B == Nat \ A
  <1>1. SUFFICES ASSUME B # {} PROVE FALSE
    OBVIOUS
  <1>2. IsWellFoundedOn(R, Nat)
    BY NatLessThanWellFounded
  <1>3. \A x, y \in Nat : y < x => <<y, x>> \in R
    BY DEF OpToRel
  <1> HIDE DEF R
  <1>4. PICK x \in B : \A y \in B : ~(<<y, x>> \in R)
    <2>1. B \subseteq Nat
      OBVIOUS
    <2> HIDE DEF B
    <2> QED
      BY <1>1, <1>2, <2>1, WFMin
  <1>5. x - 1 \in Nat /\ x - 1 < x
    OBVIOUS
  <1>6. x - 1 \in A
    BY <1>3, <1>4, <1>5
  <1> QED
    BY <1>4, <1>5, <1>6

(* A sequence of steps within a set is well defined, and it stays there.   *)
IsRun(f, n, A, start, step) ==
    /\ f \in [0..n -> A]
    /\ f[0] = start
    /\ \A i \in 1..n : f[i] = step[<<i, f[i - 1]>>]

(* A function of the numbers up to n that each step computes from the one  *)
(* before exists.                                                          *)
LEMMA StepsDefined ==
    ASSUME NEW n \in Nat, NEW A, NEW start \in A, NEW step \in [(1..n) \X A -> A]
    PROVE  \E f : IsRun(f, n, A, start, step)
  <1> DEFINE Upto(f, m) ==
               f[0] = start /\ \A i \in 1..n : i <= m => f[i] = step[<<i, f[i - 1]>>]
             B == {m \in Nat : \E f \in [0..n -> A] : Upto(f, m)}
  <1>1. 0 \in B
    <2>1. Upto([i \in 0..n |-> start], 0)
      OBVIOUS
    <2> QED
      BY <2>1
  <1>2. ASSUME NEW m \in B
        PROVE  m + 1 \in B
    <2>1. PICK f \in [0..n -> A] : Upto(f, m)
      OBVIOUS
    <2> DEFINE g == [i \in 0..n |-> IF i = m + 1 THEN step[<<i, f[i - 1]>>] ELSE f[i]]
    <2>2. g \in [0..n -> A]
      OBVIOUS
    <2>3. Upto(g, m + 1)
      BY <2>1
    <2>4. m + 1 \in Nat
      OBVIOUS
    <2> HIDE DEF g, Upto
    <2> QED
      BY <2>2, <2>3, <2>4
  <1>3. n \in B
    <2>1. B \in SUBSET Nat
      OBVIOUS
    <2> HIDE DEF B
    <2> QED
      BY <1>1, <1>2, <2>1, Induction
  <1>4. PICK f \in [0..n -> A] : Upto(f, n)
    BY <1>3
  <1>5. IsRun(f, n, A, start, step)
    <2> HIDE DEF B
    <2> QED
      BY <1>4 DEF IsRun
  <1> QED
    BY <1>5

(* What every step preserves holds of the last.                            *)
LEMMA StepsStay ==
    ASSUME NEW n \in Nat, NEW A, NEW f, f[0] \in A,
           \A i \in 1..n : f[i - 1] \in A => f[i] \in A
    PROVE  f[n] \in A
  <1> DEFINE B == {m \in Nat : m <= n => f[m] \in A}
  <1>1. 0 \in B
    OBVIOUS
  <1>2. \A m \in B : m + 1 \in B
    OBVIOUS
  <1>3. B = Nat
    <2>1. B \in SUBSET Nat
      OBVIOUS
    <2> HIDE DEF B
    <2> QED
      BY <1>1, <1>2, <2>1, Induction
  <1> QED
    BY <1>3

(* So is a recursion on halves.                                            *)
Pairs(n) == (0..n) \X (0..n)

(* The halves of a part are shorter and not empty.                         *)
LEMMA Halved ==
    ASSUME NEW n \in Nat, NEW p \in Pairs(n), p[2] > p[1] + 1
    PROVE  /\ Left(p) \in Pairs(n) /\ Right(p) \in Pairs(n)
           /\ Left(p)[2] - Left(p)[1] < p[2] - p[1]
           /\ Right(p)[2] - Right(p)[1] < p[2] - p[1]
           /\ Left(p)[2] > Left(p)[1] /\ Right(p)[2] > Right(p)[1]
  BY DEF Left, Right, Pairs

(* f gives a part without elements none, an element its base, and else     *)
(* combines what the halves give.                                          *)
IsHalving(f, n, A, none, base, comb) ==
    /\ f \in [Pairs(n) -> A]
    /\ \A p \in Pairs(n) :
          f[p] = IF p[2] <= p[1] THEN none
                 ELSE IF p[2] = p[1] + 1 THEN base[p[2]]
                 ELSE comb[<<p, f[Left(p)], f[Right(p)]>>]

(* There is such a function.                                               *)
LEMMA HalvesDefined ==
    ASSUME NEW n \in Nat, NEW A, NEW none \in A, NEW base \in [1..n -> A],
           NEW comb \in [Pairs(n) \X A \X A -> A]
    PROVE  \E f : IsHalving(f, n, A, none, base, comb)
  <1> DEFINE of(x, y, p) == IF p[2] <= p[1] THEN none
                            ELSE IF p[2] = p[1] + 1 THEN base[p[2]]
                            ELSE comb[<<p, x, y>>]
             val(f, p) == of(f[Left(p)], f[Right(p)], p)
             Upto(f, m) == \A p \in Pairs(n) : p[2] - p[1] <= m => f[p] = val(f, p)
             F == [Pairs(n) -> A]
             B == {m \in Nat : \E f \in F : Upto(f, m)}
  <1>1. ASSUME NEW f \in F, NEW p \in Pairs(n)
        PROVE  val(f, p) \in A
    <2>1. CASE p[2] > p[1] + 1
      <3>1. f[Left(p)] \in A /\ f[Right(p)] \in A
        BY <2>1, Halved
      <3> QED
        BY <2>1, <3>1 DEF Pairs
    <2>2. CASE p[2] <= p[1] + 1
      BY <2>2 DEF Pairs
    <2> QED
      BY <2>1, <2>2 DEF Pairs
  <1>2. 0 \in B
    <2> DEFINE g == [p \in Pairs(n) |-> none]
    <2>1. g \in F /\ Upto(g, 0)
      BY DEF Pairs
    <2> HIDE DEF g, Upto, F
    <2> QED
      BY <2>1
  <1>3. ASSUME NEW m \in B
        PROVE  m + 1 \in B
    <2>1. PICK f \in F : Upto(f, m)
      OBVIOUS
    <2> m \in Nat
      OBVIOUS
    <2> DEFINE g == [p \in Pairs(n) |-> IF p[2] - p[1] = m + 1 THEN val(f, p) ELSE f[p]]
    <2>2. g \in F
      BY <1>1
    <2>3. ASSUME NEW p \in Pairs(n)
          PROVE  g[p] = IF p[2] - p[1] = m + 1 THEN val(f, p) ELSE f[p]
      OBVIOUS
    <2> HIDE DEF B, Upto, F, g
    <2>4. ASSUME NEW p \in Pairs(n), p[2] - p[1] <= m + 1
          PROVE  val(g, p) = val(f, p)
      <3>1. CASE p[2] > p[1] + 1
        <4> DEFINE l == Left(p)
                   r == Right(p)
        <4>1. /\ l \in Pairs(n) /\ r \in Pairs(n)
              /\ l[2] - l[1] < p[2] - p[1] /\ r[2] - r[1] < p[2] - p[1]
          BY <3>1, Halved
        <4> HIDE DEF l, r
        <4>2. l[2] - l[1] # m + 1 /\ r[2] - r[1] # m + 1
          BY <2>4, <4>1 DEF Pairs
        <4>3. g[l] = f[l] /\ g[r] = f[r]
          BY <2>3, <4>1, <4>2
        <4> HIDE DEF of
        <4> QED
          BY <4>3 DEF l, r
      <3>2. CASE p[2] <= p[1] + 1
        BY <3>2 DEF Pairs
      <3> QED
        BY <3>1, <3>2 DEF Pairs
    <2>5. Upto(g, m + 1)
      <3> HIDE DEF val
      <3>1. ASSUME NEW p \in Pairs(n), p[2] - p[1] <= m + 1
            PROVE  g[p] = val(g, p)
        <4>1. CASE p[2] - p[1] = m + 1
          BY <2>3, <2>4, <4>1
        <4>2. CASE p[2] - p[1] # m + 1
          <5>1. p[2] - p[1] <= m
            BY <3>1, <4>2 DEF Pairs
          <5> QED
            BY <2>1, <2>3, <2>4, <3>1, <4>2, <5>1 DEF Upto
        <4> QED
          BY <4>1, <4>2
      <3> QED
        BY <3>1 DEF Upto
    <2>6. m + 1 \in Nat
      OBVIOUS
    <2> QED
      BY <2>2, <2>5, <2>6 DEF B
  <1>4. n \in B
    <2>1. B \in SUBSET Nat
      OBVIOUS
    <2> HIDE DEF B
    <2> QED
      BY <1>2, <1>3, <2>1, Induction
  <1>5. PICK f \in F : Upto(f, n)
    BY <1>4
  <1>6. \A p \in Pairs(n) : f[p] = val(f, p)
    <2> HIDE DEF val, B
    <2>1. \A p \in Pairs(n) : p[2] - p[1] <= n
      BY DEF Pairs
    <2> QED
      BY <1>5, <2>1
  <1>7. IsHalving(f, n, A, none, base, comb)
    BY <1>6 DEF IsHalving
  <1> QED
    BY <1>7

(* What holds of the short parts, and of a part when it holds of its       *)
(* halves, holds of the whole.                                             *)
LEMMA HalvesStay ==
    ASSUME NEW n \in Nat, NEW A, NEW f,
           \A p \in Pairs(n) : p[2] <= p[1] + 1 => f[p] \in A,
           \A p \in Pairs(n) :
              p[2] > p[1] + 1 /\ f[Left(p)] \in A /\ f[Right(p)] \in A => f[p] \in A
    PROVE  f[<<0, n>>] \in A
  <1> DEFINE B == {m \in Nat : \A p \in Pairs(n) : p[2] - p[1] <= m => f[p] \in A}
  <1>1. 0 \in B
    BY DEF Pairs
  <1>2. ASSUME NEW m \in B
        PROVE  m + 1 \in B
    <2>1. ASSUME NEW p \in Pairs(n), p[2] - p[1] <= m + 1
          PROVE  f[p] \in A
      <3>1. CASE p[2] > p[1] + 1
        <4> DEFINE l == Left(p)
                   r == Right(p)
        <4>1. /\ l \in Pairs(n) /\ r \in Pairs(n)
              /\ l[2] - l[1] < p[2] - p[1] /\ r[2] - r[1] < p[2] - p[1]
          BY <3>1, Halved
        <4> HIDE DEF l, r
        <4>2. l[2] - l[1] <= m /\ r[2] - r[1] <= m
          BY <2>1, <4>1 DEF Pairs
        <4>3. f[l] \in A /\ f[r] \in A
          BY <4>1, <4>2
        <4> QED
          BY <3>1, <4>3 DEF l, r
      <3>2. CASE p[2] <= p[1] + 1
        BY <3>2
      <3> QED
        BY <3>1, <3>2 DEF Pairs
    <2> QED
      BY <2>1
  <1>3. B = Nat
    <2>1. B \in SUBSET Nat
      OBVIOUS
    <2> HIDE DEF B
    <2> QED
      BY <1>1, <1>2, <2>1, Induction
  <1>4. n \in B /\ <<0, n>> \in Pairs(n) /\ <<0, n>>[2] - <<0, n>>[1] <= n
    BY <1>3 DEF Pairs
  <1> QED
    BY <1>4

-----------------------------------------------------------------------------
(* The invariant, and what is proved of every step.                        *)

(* The contents of sorted sets.                                            *)
Scores == UNION {[D -> Int] : D \in {X \in SUBSET Member : IsFiniteSet(X)}}

(* The values of the type Set whose length counts their members.           *)
Members == {[members |-> m, length |-> Cardinality(m)] :
              m \in {x \in SUBSET Element : IsFiniteSet(x)}}

(* A value that a key of this client may hold.                             *)
Good(v) ==
    /\ v.is \in {family, "int", "bool"}
    /\ WellFormed(v)
    /\ v.is = "zset" => v.val \in Scores
    /\ v.is = "set" => v.val \in Members

(* The inductive invariant: the keys hold good values, and those that      *)
(* share an object hold the same one.                                      *)
Inv ==
    /\ family \in Family
    /\ store = [k \in Key |-> store[k]]
    /\ shared \in [Key -> SUBSET Key]
    /\ \A k \in Key : store[k] # Absent => Good(store[k])
    /\ \A k \in Key : k \in shared[k]
    /\ \A k \in Key : \A j \in shared[k] : shared[j] = shared[k] /\ store[j] = store[k]
    /\ call # NoCall => call.read \cup call.write \subseteq Key
                      /\ call.answer[1] \in {"ok", "error"}

(* What the three properties say of a step.                                *)
Unsynced == call' # NoCall /\ call'.cmd \notin Synced \cup {"sunion"} => UNCHANGED store
(* A failing command changed nothing, but for those that change first and  *)
(* found the memory full.                                                  *)
Undone == call' # NoCall /\ IsError(call'.answer) /\ Changed # {}
            => call'.cmd \in ChangeFirst /\ Reply = "full"
(* Only declared keys change.                                              *)
Confined == call' # NoCall =>
          Changed \subseteq Holders(call'.write) \cup
             (IF call'.cmd \in {"sunion", "sunionstore"}
              THEN Holders(call'.read) ELSE {})

(* What every step of a handler is shown to do.                            *)
Sound == Inv' /\ Unsynced /\ Undone /\ Confined

(* The keys that a command declares are keys.                              *)
Fine(c) == c.read \cup c.write \subseteq Key

(* A handler that only answers, or fails, does so.                         *)
LEMMA Replying ==
    ASSUME Inv, NEW c, Fine(c), NEW answer, answer[1] \in {"ok", "error"},
           Return(c, answer), UNCHANGED <<store, shared>>
    PROVE  Sound
  <1> USE DEF Inv, Return
  <1>1. \A v : Good(v) => Good(v)'
    BY DEF Good, WellFormed
  <1>2. call'.read = c.read /\ call'.write = c.write /\ call'.answer = answer
    OBVIOUS
  <1>3. Inv'
    BY <1>1, <1>2 DEF Fine
  <1>4. Changed = {}
    BY DEF Changed
  <1> QED
    BY <1>3, <1>4 DEF Sound, Unsynced, Undone, Confined

(* Whether a value is good depends on the family alone, which never        *)
(* changes.                                                                *)
LEMMA GoodStays ==
    ASSUME UNCHANGED family
    PROVE  \A v : Good(v) => Good(v)'
  BY DEF Good, WellFormed

(* So does SetValues with good values for declared keys, ...               *)
LEMMA Saving ==
    ASSUME Inv, NEW c, Fine(c), c.cmd \in Synced, NEW new, DOMAIN new \subseteq c.write,
           \A k \in DOMAIN new : Good(new[k]), NEW r, Save(c, new, r)
    PROVE  Sound
  <1>1. CASE Fail(c, "full")
    BY <1>1, Replying DEF Fail, Error
  <1>2. CASE /\ store' = [k \in Key |-> IF k \in DOMAIN new THEN new[k] ELSE store[k]]
             /\ shared' = [k \in Key |-> IF k \in DOMAIN new THEN {k}
                                         ELSE shared[k] \ DOMAIN new]
             /\ Return(c, Ok(r))
    <2> USE <1>2
    <2>1. /\ call'.read = c.read /\ call'.write = c.write /\ call'.answer = Ok(r)
          /\ call'.cmd = c.cmd /\ family' = family
      BY DEF Return
    <2>2. DOMAIN new \subseteq Key
      BY DEF Fine
    <2>3. \A v : Good(v) => Good(v)'
      BY <2>1, GoodStays
    <2>4. (\A k \in Key : store[k] # Absent => Good(store[k]))'
      BY <2>3 DEF Inv
    <2>5. \A k \in Key : k \in shared'[k]
      BY DEF Inv
    <2>6. \A k \in Key : \A j \in shared'[k] :
             shared'[j] = shared'[k] /\ store'[j] = store'[k]
      <3> SUFFICES ASSUME NEW k \in Key, NEW j \in shared'[k]
                   PROVE  shared'[j] = shared'[k] /\ store'[j] = store'[k]
        OBVIOUS
      <3>1. CASE k \in DOMAIN new
        BY <3>1, <2>2
      <3>2. CASE k \notin DOMAIN new
        <4>1. j \in shared[k] /\ j \notin DOMAIN new /\ j \in Key
          BY <3>2 DEF Inv
        <4> QED
          BY <3>2, <4>1 DEF Inv
      <3> QED
        BY <3>1, <3>2
    <2>7. shared' \in [Key -> SUBSET Key]
      BY <2>2 DEF Inv
    <2>8. Inv'
      <3>1. (store = [k \in Key |-> store[k]])'
        OBVIOUS
      <3>2. (call.read \cup call.write \subseteq Key /\ call.answer[1] \in {"ok", "error"})'
        BY <2>1 DEF Fine, Ok
      <3>3. (family \in Family)'
        BY <2>1 DEF Inv
      <3> QED
        BY <2>4, <2>5, <2>6, <2>7, <3>1, <3>2, <3>3 DEF Inv
    <2>9. Changed \subseteq DOMAIN new
      BY DEF Changed
    <2>10. Changed \subseteq Holders(c.write)
      BY <2>2, <2>9 DEF Holders, Inv
    <2> QED
      BY <2>1, <2>8, <2>10 DEF Sound, Unsynced, Undone, Confined, IsError, Ok
  <1> QED
    BY <1>1, <1>2 DEF Save

(* ... for one key, ...                                                    *)
LEMMA SavingAt ==
    ASSUME Inv, NEW c, Fine(c), c.cmd \in Synced, NEW k \in c.write,
           NEW v, Good(v), NEW r, SaveAt(c, k, v, r)
    PROVE  Sound
  BY Saving DEF SaveAt

(* ... a change in place of the object of a declared key, which must not   *)
(* fail with anything but a full memory, ...                               *)
LEMMA Changing ==
    ASSUME Inv, NEW c, Fine(c), c.cmd \in Synced, NEW k \in c.write,
           NEW v, Good(v), InPlace(k, v), NEW answer, Return(c, answer),
           \/ answer[1] = "ok"
           \/ answer = Error("full") /\ c.cmd \in ChangeFirst
    PROVE  Sound
  <1>1. /\ call'.read = c.read /\ call'.write = c.write /\ call'.answer = answer
        /\ call'.cmd = c.cmd /\ family' = family
    BY DEF Return
  <1>2. k \in Key
    BY DEF Fine
  <1>3. \A w : Good(w) => Good(w)'
    BY <1>1, GoodStays
  <1>4. /\ store' = [j \in Key |-> IF j \in shared[k] THEN v ELSE store[j]]
        /\ shared' = shared
    BY DEF InPlace
  <1>5. (\A j \in Key : store[j] # Absent => Good(store[j]))'
    BY <1>3, <1>4 DEF Inv
  <1>6. \A i \in Key : \A j \in shared[i] : store'[j] = store'[i]
    <2> SUFFICES ASSUME NEW i \in Key, NEW j \in shared[i]
                 PROVE  store'[j] = store'[i]
      OBVIOUS
    <2>1. j \in Key /\ (j \in shared[k] <=> i \in shared[k])
      BY <1>2 DEF Inv
    <2> QED
      BY <1>4, <2>1 DEF Inv
  <1>7. Inv'
    BY <1>1, <1>4, <1>5, <1>6 DEF Inv, Fine, Error
  <1>8. Changed \subseteq Holders(c.write)
    BY <1>2, <1>4 DEF Holders, Changed
  <1> QED
    BY <1>1, <1>7, <1>8 DEF Sound, Unsynced, Undone, Confined, IsError, Error, Reply

(* ... and DeleteKey.                                                      *)
LEMMA Deleting ==
    ASSUME Inv, NEW c, Fine(c), c.cmd \in Synced, NEW k \in c.write,
           NEW r, Delete(c, k, r)
    PROVE  Sound
  <1>1. /\ call'.read = c.read /\ call'.write = c.write /\ call'.answer = Ok(r)
        /\ call'.cmd = c.cmd /\ family' = family
    BY DEF Delete, Return
  <1>2. k \in Key
    BY DEF Fine
  <1>3. \A w : Good(w) => Good(w)'
    BY <1>1, GoodStays
  <1>4. /\ store' = [store EXCEPT ![k] = Absent]
        /\ shared' = [j \in Key |-> IF j = k THEN {k} ELSE shared[j] \ {k}]
    BY DEF Delete
  <1>5. (\A j \in Key : store[j] # Absent => Good(store[j]))'
    BY <1>3, <1>4 DEF Inv
  <1>6. \A i \in Key : \A j \in shared'[i] :
           shared'[j] = shared'[i] /\ store'[j] = store'[i]
    BY <1>2, <1>4 DEF Inv
  <1>7. Inv'
    <2>1. (store = [j \in Key |-> store[j]] /\ shared \in [Key -> SUBSET Key])'
      BY <1>2, <1>4 DEF Inv
    <2>2. (call.read \cup call.write \subseteq Key /\ call.answer[1] \in {"ok", "error"})'
      BY <1>1 DEF Fine, Ok
    <2>3. (family \in Family /\ \A j \in Key : j \in shared[j])'
      BY <1>1, <1>4 DEF Inv
    <2> QED
      BY <1>5, <1>6, <2>1, <2>2, <2>3 DEF Inv
  <1>8. Changed \subseteq Holders(c.write)
    BY <1>2, <1>4 DEF Holders, Changed, Inv
  <1> QED
    BY <1>1, <1>7, <1>8 DEF Sound, Unsynced, Undone, Confined, IsError, Ok, Reply

-----------------------------------------------------------------------------
(* The values of sorted sets.                                              *)

(* Sorted sets are functions from finitely many members to numbers.        *)
LEMMA ScoresOf ==
    ASSUME NEW s
    PROVE  s \in Scores <=> /\ s = [m \in DOMAIN s |-> s[m]]
                            /\ DOMAIN s \subseteq Member /\ IsFiniteSet(DOMAIN s)
                            /\ \A m \in DOMAIN s : s[m] \in Int
  BY DEF Scores

(* The operations of sorted_set.go keep them so: Set, Remove, the parts    *)
(* of a set, Get.                                                          *)
LEMMA ScoreOperators ==
    ASSUME NEW s \in Scores
    PROVE  /\ \A m \in Member, x \in Int : Z!Put(s, m, x) \in Scores
           /\ \A ms : Z!Without(s, ms) \in Scores
           /\ \A ms \in SUBSET DOMAIN s : Z!Only(s, ms) \in Scores
           /\ \A m : Z!Get(s, m) \in Int
  <1>1. /\ DOMAIN s \subseteq Member /\ IsFiniteSet(DOMAIN s)
        /\ \A m \in DOMAIN s : s[m] \in Int
    BY ScoresOf
  <1>2. ASSUME NEW m \in Member, NEW x \in Int
        PROVE  Z!Put(s, m, x) \in Scores
    <2>1. IsFiniteSet(DOMAIN s \cup {m})
      BY <1>1, FS_AddElement
    <2> QED
      BY <1>1, <2>1, ScoresOf DEF Z!Put
  <1>3. ASSUME NEW ms
        PROVE  Z!Without(s, ms) \in Scores
    <2>1. IsFiniteSet(DOMAIN s \ ms)
      BY <1>1, FS_Subset
    <2> QED
      BY <1>1, <2>1, ScoresOf DEF Z!Without
  <1>4. ASSUME NEW ms \in SUBSET DOMAIN s
        PROVE  Z!Only(s, ms) \in Scores
    <2>1. IsFiniteSet(ms)
      BY <1>1, FS_Subset
    <2> QED
      BY <1>1, <2>1, ScoresOf DEF Z!Only
  <1>5. \A m : Z!Get(s, m) \in Int
    BY <1>1 DEF Z!Get
  <1> QED
    BY <1>2, <1>3, <1>4, <1>5

(* The empty sorted set is one.                                            *)
LEMMA EmptyScores == Z!Empty \in Scores
  BY ScoresOf, FS_EmptySet DEF Z!Empty

(* Comparing, adding, weighting and aggregating scores gives scores.       *)
LEMMA Arithmetic ==
    ASSUME Inputs, NEW a \in Int, NEW b \in Int, NEW how
    PROVE  /\ Z!compareScores(a, b, how) \in Int
           /\ Z!Plus(a, b) \in Int
           /\ Z!Times(a, b) \in Int
           /\ Z!Aggregate(how, a, b) \in Int
  <1>1. Z!compareScores(a, b, how) \in Int
    BY DEF Z!compareScores
  <1>2. Z!Plus(a, b) \in Int
    BY DEF Inputs, Z!Plus
  <1>3. Z!Times(a, b) \in Int
    BY DEF Inputs, Z!Times
  <1>4. Z!Aggregate(how, a, b) \in Int
    BY <1>2 DEF Z!Aggregate, Z!compareScores
  <1> QED
    BY <1>1, <1>2, <1>3, <1>4

(* NewSortedSet makes a sorted set of its arguments, however often a       *)
(* member occurs.                                                          *)
LEMMA NewSortedSetTyped ==
    ASSUME NEW n \in Nat, NEW pairs \in [1..n -> Member \X Int]
    PROVE  Z!NewSortedSet(pairs) \in Scores
  <1> DEFINE step == [x \in (1..n) \X Scores |-> Z!Put(x[2], pairs[x[1]][1], pairs[x[1]][2])]
             next(f, i) == IF i = 0 THEN Z!Empty
                           ELSE Z!Put(f[i - 1], pairs[i][1], pairs[i][2])
             f == CHOOSE f : f = [i \in 0..n |-> next(f, i)]
  <1>1. Len(pairs) = n
    OBVIOUS
  <1>2. ASSUME NEW s \in Scores, NEW i \in 1..n
        PROVE  Z!Put(s, pairs[i][1], pairs[i][2]) \in Scores
    BY ScoreOperators
  <1>3. step \in [(1..n) \X Scores -> Scores]
    BY <1>2
  <1>4. PICK g : IsRun(g, n, Scores, Z!Empty, step)
    <2> HIDE DEF step
    <2> QED
      BY <1>3, EmptyScores, StepsDefined
  <1>5. g = [i \in 0..n |-> next(g, i)]
    <2>1. \A i \in 1..n : step[<<i, g[i - 1]>>] = Z!Put(g[i - 1], pairs[i][1], pairs[i][2])
      BY <1>4 DEF IsRun
    <2> HIDE DEF step
    <2>2. g = [i \in 0..n |-> g[i]]
      BY <1>4 DEF IsRun
    <2>3. ASSUME NEW i \in 0..n
          PROVE  g[i] = next(g, i)
      <3>1. CASE i = 0
        BY <1>4, <3>1 DEF IsRun
      <3>2. CASE i \in 1..n
        BY <1>4, <2>1, <3>2 DEF IsRun
      <3> QED
        BY <3>1, <3>2
    <2> HIDE DEF next
    <2> QED
      BY <2>2, <2>3
  <1>6. f = [i \in 0..n |-> next(f, i)]
    <2> HIDE DEF next
    <2> QED
      BY <1>5
  <1>7. \A i \in 0..n : f[i] = next(f, i)
    <2> HIDE DEF next, f
    <2> QED
      BY <1>6
  <1> HIDE DEF f
  <1>8. f[0] \in Scores /\ \A i \in 1..n : f[i - 1] \in Scores => f[i] \in Scores
    BY <1>2, <1>7, EmptyScores
  <1>9. f[n] \in Scores
    BY <1>8, StepsStay
  <1> QED
    BY <1>1, <1>9 DEF Z!NewSortedSet, f

(* AddOrUpdate leaves a sorted set, whatever its options.                  *)
LEMMA AddOrUpdateTyped ==
    ASSUME Inputs, NEW s \in Scores, NEW n \in Nat, NEW pairs \in [1..n -> Member \X Int], NEW o
    PROVE  Z!AddOrUpdate(s, pairs, o).set \in Scores
  <1> DEFINE A == [set : Scores, count : Int]
             start == [set |-> s, count |-> 0]
             step == [x \in (1..n) \X A |-> Z!Update(x[2], pairs[x[1]], o)]
             next(f, i) == IF i = 0 THEN start ELSE Z!Update(f[i - 1], pairs[i], o)
             f == CHOOSE f : f = [i \in 0..n |-> next(f, i)]
  <1>1. Len(pairs) = n
    OBVIOUS
  <1>2. ASSUME NEW a \in A, NEW i \in 1..n
        PROVE  Z!Update(a, pairs[i], o) \in A
    <2> DEFINE p == pairs[i]
    <2>1. p[1] \in Member /\ p[2] \in Int /\ a.set \in Scores /\ a.count \in Int
      OBVIOUS
    <2> HIDE DEF p
    <2>2. Z!Get(a.set, p[1]) \in Int
      BY <2>1, ScoreOperators
    <2>3. Z!compareScores(Z!Get(a.set, p[1]), p[2], o.comp) \in Int
      BY <2>1, <2>2, Arithmetic
    <2>4. Z!Put(a.set, p[1], Z!compareScores(Z!Get(a.set, p[1]), p[2], o.comp)) \in Scores
      BY <2>1, <2>3, ScoreOperators
    <2>5. Z!Update(a, p, o) \in A
      BY <2>1, <2>4 DEF Z!Update
    <2> QED
      BY <2>5 DEF p
  <1>3. start \in A
    OBVIOUS
  <1> HIDE DEF A, start
  <1>4. step \in [(1..n) \X A -> A]
    BY <1>2
  <1>5. PICK g : IsRun(g, n, A, start, step)
    <2> HIDE DEF step
    <2> QED
      BY <1>3, <1>4, StepsDefined
  <1>6. g = [i \in 0..n |-> next(g, i)]
    <2>1. \A i \in 1..n : step[<<i, g[i - 1]>>] = Z!Update(g[i - 1], pairs[i], o)
      BY <1>5 DEF IsRun
    <2> HIDE DEF step
    <2>2. g = [i \in 0..n |-> g[i]]
      BY <1>5 DEF IsRun
    <2>3. ASSUME NEW i \in 0..n
          PROVE  g[i] = next(g, i)
      <3>1. CASE i = 0
        BY <1>5, <3>1 DEF IsRun
      <3>2. CASE i \in 1..n
        BY <1>5, <2>1, <3>2 DEF IsRun
      <3> QED
        BY <3>1, <3>2
    <2> HIDE DEF next
    <2> QED
      BY <2>2, <2>3
  <1>7. f = [i \in 0..n |-> next(f, i)]
    <2> HIDE DEF next
    <2> QED
      BY <1>6
  <1>8. \A i \in 0..n : f[i] = next(f, i)
    <2> HIDE DEF next, f
    <2> QED
      BY <1>7
  <1> HIDE DEF f
  <1>9. f[0] \in A /\ \A i \in 1..n : f[i - 1] \in A => f[i] \in A
    BY <1>2, <1>3, <1>8
  <1>10. f[n] \in A
    BY <1>9, StepsStay
  <1>11. Z!AddOrUpdate(s, pairs, o) = f[n]
    BY <1>1 DEF Z!AddOrUpdate, f, start
  <1> QED
    BY <1>10, <1>11 DEF A

(* Two sorted sets aggregate to one.                                       *)
LEMMA BothTyped ==
    ASSUME Inputs, NEW agg, NEW s \in Scores, NEW t \in Scores,
           NEW ms \in SUBSET (DOMAIN s \cup DOMAIN t)
    PROVE  Z!Both(agg, s, t, ms) \in Scores
  <1>1. /\ DOMAIN s \subseteq Member /\ \A m \in DOMAIN s : s[m] \in Int
        /\ DOMAIN t \subseteq Member /\ \A m \in DOMAIN t : t[m] \in Int
    BY ScoresOf
  <1>2. \A m \in DOMAIN s \cap DOMAIN t : Z!Aggregate(agg, s[m], t[m]) \in Int
    BY <1>1, Arithmetic
  <1>3. IsFiniteSet(ms)
    BY ScoresOf, FS_Union, FS_Subset
  <1> QED
    BY <1>1, <1>2, <1>3, ScoresOf DEF Z!Both

(* What Union and Intersect take: sorted sets with their weights.          *)
IsParams(params, n) ==
    /\ DOMAIN params = 1..n /\ Len(params) = n
    /\ \A i \in 1..n : params[i].set \in Scores /\ params[i].weight \in Int

(* Weighting the scores of a set gives a set.                              *)
LEMMA WeightedTyped ==
    ASSUME Inputs, NEW p, p.set \in Scores, p.weight \in Int
    PROVE  Z!Weighted(p) \in Scores
  <1>1. /\ DOMAIN p.set \subseteq Member /\ IsFiniteSet(DOMAIN p.set)
        /\ \A m \in DOMAIN p.set : p.set[m] \in Int
    BY ScoresOf
  <1>2. \A m \in DOMAIN p.set : Z!Times(p.weight, p.set[m]) \in Int
    BY <1>1, Arithmetic
  <1> QED
    BY <1>1, <1>2, ScoresOf DEF Z!Weighted

(* Union, by halves, gives a sorted set.                                   *)
LEMMA UnionTyped ==
    ASSUME Inputs, NEW agg, NEW n \in Nat, NEW params, IsParams(params, n)
    PROVE  Z!Union(agg, params) \in Scores
  <1> DEFINE both(s, t) == Z!Both(agg, s, t, DOMAIN s \cup DOMAIN t)
             base == [j \in 1..n |-> Z!Weighted(params[j])]
             comb == [x \in Pairs(n) \X Scores \X Scores |-> both(x[2], x[3])]
             next(f, p) == CASE p[2] <= p[1] -> Z!Empty
                             [] p[2] = p[1] + 1 -> Z!Weighted(params[p[2]])
                             [] OTHER -> both(f[Left(p)], f[Right(p)])
             f == CHOOSE f : f = [p \in Pairs(n) |-> next(f, p)]
  <1>1. \A s, t \in Scores : both(s, t) \in Scores
    BY BothTyped
  <1>2. \A j \in 1..n : Z!Weighted(params[j]) \in Scores
    BY WeightedTyped DEF IsParams
  <1> HIDE DEF both
  <1>3. base \in [1..n -> Scores]
    BY <1>2
  <1>4. comb \in [Pairs(n) \X Scores \X Scores -> Scores]
    BY <1>1
  <1>5. PICK g : IsHalving(g, n, Scores, Z!Empty, base, comb)
    <2> HIDE DEF base, comb
    <2> QED
      BY <1>3, <1>4, EmptyScores, HalvesDefined
  <1>6. ASSUME NEW p \in Pairs(n)
        PROVE  g[p] = next(g, p)
    <2> p[1] \in 0..n /\ p[2] \in 0..n
      BY DEF Pairs
    <2>1. CASE p[2] <= p[1]
      <3>1. g[p] = Z!Empty
        <4> HIDE DEF base, comb
        <4> QED
          BY <1>5, <2>1 DEF IsHalving
      <3> QED
        BY <2>1, <3>1
    <2>2. CASE p[2] = p[1] + 1
      <3>1. g[p] = base[p[2]]
        <4>1. ~(p[2] <= p[1])
          BY <2>2
        <4> HIDE DEF base, comb
        <4> QED
          BY <1>5, <2>2, <4>1, Zenon DEF IsHalving
      <3>2. p[2] \in 1..n
        BY <2>2
      <3> QED
        BY <2>2, <3>1, <3>2
    <2>3. CASE p[2] > p[1] + 1
      <3>1. g[Left(p)] \in Scores /\ g[Right(p)] \in Scores
        BY <1>5, <2>3, Halved DEF IsHalving
      <3>2. g[p] = comb[<<p, g[Left(p)], g[Right(p)]>>]
        <4> HIDE DEF base, comb
        <4> QED
          BY <1>5, <2>3 DEF IsHalving
      <3>3. g[p] = both(g[Left(p)], g[Right(p)])
        BY <3>1, <3>2
      <3> QED
        BY <2>3, <3>3
    <2> QED
      BY <2>1, <2>2, <2>3
  <1>7. g = [p \in Pairs(n) |-> next(g, p)]
    <2>1. g = [p \in Pairs(n) |-> g[p]]
      BY <1>5 DEF IsHalving
    <2> HIDE DEF next
    <2> QED
      BY <1>6, <2>1
  <1>8. f = [p \in Pairs(n) |-> next(f, p)]
    <2> HIDE DEF next
    <2> QED
      BY <1>7
  <1>9. \A p \in Pairs(n) : f[p] = next(f, p)
    <2> HIDE DEF next, f
    <2> QED
      BY <1>8
  <1> HIDE DEF f
  <1>10. f[<<0, n>>] \in Scores
    <2>1. \A p \in Pairs(n) : p[2] <= p[1] + 1 => f[p] \in Scores
      BY <1>2, <1>9, EmptyScores DEF Pairs
    <2>2. \A p \in Pairs(n) :
             p[2] > p[1] + 1 /\ f[Left(p)] \in Scores /\ f[Right(p)] \in Scores
                => f[p] \in Scores
      BY <1>1, <1>9 DEF Pairs
    <2> QED
      BY <2>1, <2>2, HalvesStay
  <1>11. Z!Union(agg, params) = f[<<0, n>>]
    BY Zenon DEF Z!Union, IsParams, f, both, Z!Parts, Pairs, Z!Left, Z!Right, Left, Right
  <1> QED
    BY <1>10, <1>11

(* And Intersect.                                                          *)
LEMMA IntersectTyped ==
    ASSUME Inputs, NEW agg, NEW n \in Nat, NEW params, IsParams(params, n)
    PROVE  Z!Intersect(agg, params) \in Scores
  <1> DEFINE both(s, t) == Z!Both(agg, s, t, DOMAIN s \cap DOMAIN t)
             base == [j \in 1..n |-> Z!Weighted(params[j])]
             comb == [x \in Pairs(n) \X Scores \X Scores |-> both(x[2], x[3])]
             next(f, p) == CASE p[2] <= p[1] -> Z!Empty
                             [] p[2] = p[1] + 1 -> Z!Weighted(params[p[2]])
                             [] OTHER -> both(f[Left(p)], f[Right(p)])
             f == CHOOSE f : f = [p \in Pairs(n) |-> next(f, p)]
  <1>1. \A s, t \in Scores : both(s, t) \in Scores
    BY BothTyped
  <1>2. \A j \in 1..n : Z!Weighted(params[j]) \in Scores
    BY WeightedTyped DEF IsParams
  <1> HIDE DEF both
  <1>3. base \in [1..n -> Scores]
    BY <1>2
  <1>4. comb \in [Pairs(n) \X Scores \X Scores -> Scores]
    BY <1>1
  <1>5. PICK g : IsHalving(g, n, Scores, Z!Empty, base, comb)
    <2> HIDE DEF base, comb
    <2> QED
      BY <1>3, <1>4, EmptyScores, HalvesDefined
  <1>6. ASSUME NEW p \in Pairs(n)
        PROVE  g[p] = next(g, p)
    <2> p[1] \in 0..n /\ p[2] \in 0..n
      BY DEF Pairs
    <2>1. CASE p[2] <= p[1]
      <3>1. g[p] = Z!Empty
        <4> HIDE DEF base, comb
        <4> QED
          BY <1>5, <2>1 DEF IsHalving
      <3> QED
        BY <2>1, <3>1
    <2>2. CASE p[2] = p[1] + 1
      <3>1. g[p] = base[p[2]]
        <4>1. ~(p[2] <= p[1])
          BY <2>2
        <4> HIDE DEF base, comb
        <4> QED
          BY <1>5, <2>2, <4>1, Zenon DEF IsHalving
      <3>2. p[2] \in 1..n
        BY <2>2
      <3> QED
        BY <2>2, <3>1, <3>2
    <2>3. CASE p[2] > p[1] + 1
      <3>1. g[Left(p)] \in Scores /\ g[Right(p)] \in Scores
        BY <1>5, <2>3, Halved DEF IsHalving
      <3>2. g[p] = comb[<<p, g[Left(p)], g[Right(p)]>>]
        <4> HIDE DEF base, comb
        <4> QED
          BY <1>5, <2>3 DEF IsHalving
      <3>3. g[p] = both(g[Left(p)], g[Right(p)])
        BY <3>1, <3>2
      <3> QED
        BY <2>3, <3>3
    <2> QED
      BY <2>1, <2>2, <2>3
  <1>7. g = [p \in Pairs(n) |-> next(g, p)]
    <2>1. g = [p \in Pairs(n) |-> g[p]]
      BY <1>5 DEF IsHalving
    <2> HIDE DEF next
    <2> QED
      BY <1>6, <2>1
  <1>8. f = [p \in Pairs(n) |-> next(f, p)]
    <2> HIDE DEF next
    <2> QED
      BY <1>7
  <1>9. \A p \in Pairs(n) : f[p] = next(f, p)
    <2> HIDE DEF next, f
    <2> QED
      BY <1>8
  <1> HIDE DEF f
  <1>10. f[<<0, n>>] \in Scores
    <2>1. \A p \in Pairs(n) : p[2] <= p[1] + 1 => f[p] \in Scores
      BY <1>2, <1>9, EmptyScores DEF Pairs
    <2>2. \A p \in Pairs(n) :
             p[2] > p[1] + 1 /\ f[Left(p)] \in Scores /\ f[Right(p)] \in Scores
                => f[p] \in Scores
      BY <1>1, <1>9 DEF Pairs
    <2> QED
      BY <2>1, <2>2, HalvesStay
  <1>11. Z!Intersect(agg, params) = f[<<0, n>>]
    BY Zenon DEF Z!Intersect, IsParams, f, both, Z!Parts, Pairs, Z!Left, Z!Right, Left, Right
  <1> QED
    BY <1>10, <1>11

-----------------------------------------------------------------------------
(* Answering, saving and changing a sorted set.                            *)

(* The handlers of the sorted set module answer and fail like any other,   *)
(* ...                                                                     *)
LEMMA ZReplying ==
    ASSUME Inv, NEW c, Fine(c), NEW r
    PROVE  (Z!Answer(c, r) => Sound) /\ (Z!Fail(c, r) => Sound)
  BY Replying DEF Z!Answer, Z!Fail, Z!Return, Z!Ok, Z!Error, Return

(* ... save sorted sets, ...                                               *)
LEMMA ZSaving ==
    ASSUME Inv, NEW c, Fine(c), c.cmd \in Z!SortedSetSync, NEW k \in c.write,
           NEW s \in Scores, family = "zset", NEW r, Z!SaveAt(c, k, Z!Zset(s), r)
    PROVE  Sound
  <1>1. Good(Z!Zset(s))
    BY DEF Good, WellFormed, Scores, Z!Zset
  <1>2. SaveAt(c, k, Z!Zset(s), r)
    BY DEF Z!SaveAt, Z!Save, Z!Fail, Z!Return, Z!Ok, Z!Error, SaveAt, Save, Fail, Return,
           Ok, Error
  <1>3. c.cmd \in Synced
    BY DEF Synced
  <1> QED
    BY <1>1, <1>2, <1>3, SavingAt

(* ... and change them in place.                                           *)
LEMMA ZChanging ==
    ASSUME Inv, NEW c, Fine(c), c.cmd \in Z!SortedSetSync, NEW k \in c.write,
           NEW s \in Scores, family = "zset", Z!InPlace(k, Z!Zset(s)),
           NEW r, Z!Return(c, Z!Ok(r))
    PROVE  Sound
  <1>1. Good(Z!Zset(s))
    BY DEF Good, WellFormed, Scores, Z!Zset
  <1>2. InPlace(k, Z!Zset(s)) /\ Return(c, Ok(r)) /\ Ok(r)[1] = "ok"
    BY DEF Z!InPlace, Z!Return, Z!Ok, InPlace, Return, Ok
  <1>3. c.cmd \in Synced
    BY DEF Synced
  <1> QED
    BY <1>1, <1>2, <1>3, Changing

(* A handler with one key declares that key, as written if it is marked    *)
(* Sync.                                                                   *)
LEMMA ZOne ==
    ASSUME NEW k \in Key, NEW cmd
    PROVE  /\ Fine(Z!One(cmd, k)) /\ Z!One(cmd, k).cmd = cmd
           /\ cmd \in {"zadd", "zpopmin", "zpopmax", "zrem", "zremrangebylex",
                       "zremrangebyrank", "zremrangebyscore"}
                => k \in Z!One(cmd, k).write /\ cmd \in Z!SortedSetSync
  BY DEF Z!One, Z!SetupKeyFuncs, Z!SingleKeyFuncs, Z!Declared, Fine, Z!SortedSetSync

(* The members in a range of scores are members of the set.                *)
LEMMA Ranged ==
    ASSUME NEW A, NEW n \in Nat, NEW q \in [1..n -> A]
    PROVE  Range(q) \subseteq A
  BY DEF Range

-----------------------------------------------------------------------------
(* The sorted set commands.                                                *)

(* The commands that read one sorted set change nothing.                   *)
LEMMA SortedSetReads ==
    ASSUME Inv, NEW k \in Key, NEW lo, NEW hi, NEW o
    PROVE  /\ Z!handleZCARD(k) => Sound
           /\ Z!handleZCOUNT(k, lo, hi) => Sound
           /\ Z!handleZLEXCOUNT(k, lo, hi) => Sound
           /\ Z!handleZMSCORE(k, lo) => Sound
           /\ Z!handleZSCORE(k, lo) => Sound
           /\ Z!handleZRANDMEMBER(k, lo) => Sound
           /\ Z!handleZRANK(k, lo, hi) => Sound
           /\ Z!handleZRANGE(k, lo, hi, o) => Sound
  <1>1. Z!handleZCARD(k) => Sound
    <2> DEFINE c == Z!One("zcard", k)
    <2>1. Fine(c)
      BY ZOne
    <2> QED
      BY <2>1, ZReplying DEF Z!handleZCARD, Z!OnValue
  <1>2. Z!handleZCOUNT(k, lo, hi) => Sound
    <2> DEFINE c == Z!One("zcount", k)
    <2>1. Fine(c)
      BY ZOne
    <2> QED
      BY <2>1, ZReplying DEF Z!handleZCOUNT, Z!OnValue
  <1>3. Z!handleZLEXCOUNT(k, lo, hi) => Sound
    <2> DEFINE c == Z!One("zlexcount", k)
    <2>1. Fine(c)
      BY ZOne
    <2> QED
      BY <2>1, ZReplying DEF Z!handleZLEXCOUNT, Z!OnValue
  <1>4. Z!handleZMSCORE(k, lo) => Sound
    <2> DEFINE c == Z!One("zmscore", k)
    <2>1. Fine(c)
      BY ZOne
    <2> QED
      BY <2>1, ZReplying DEF Z!handleZMSCORE, Z!OnValue
  <1>5. Z!handleZSCORE(k, lo) => Sound
    <2> DEFINE c == Z!One("zscore", k)
    <2>1. Fine(c)
      BY ZOne
    <2> QED
      BY <2>1, ZReplying DEF Z!handleZSCORE, Z!OnValue
  <1>6. Z!handleZRANDMEMBER(k, lo) => Sound
    <2> DEFINE c == Z!One("zrandmember", k)
    <2>1. Fine(c)
      BY ZOne
    <2> QED
      BY <2>1, ZReplying DEF Z!handleZRANDMEMBER, Z!OnValue
  <1>7. Z!handleZRANK(k, lo, hi) => Sound
    <2> DEFINE c == Z!One(IF hi THEN "zrevrank" ELSE "zrank", k)
    <2>1. Fine(c)
      BY ZOne
    <2> QED
      BY <2>1, ZReplying DEF Z!handleZRANK, Z!OnValue
  <1>8. Z!handleZRANGE(k, lo, hi, o) => Sound
    <2> DEFINE c == Z!One("zrange", k)
    <2>1. Fine(c)
      BY ZOne
    <2> QED
      BY <2>1, ZReplying DEF Z!handleZRANGE, Z!OnValue
  <1> QED
    BY <1>1, <1>2, <1>3, <1>4, <1>5, <1>6, <1>7, <1>8

(* What a key of sorted set type holds is a sorted set.                    *)
LEMMA ZHeld ==
    ASSUME Inv, NEW k \in Key, store[k] # Absent, store[k].is = "zset"
    PROVE  store[k].val \in Scores
  BY DEF Inv, Good

(* The score and member pairs of the arguments are pairs of a member and   *)
(* a number.                                                               *)
LEMMA Arguments ==
    ASSUME Inputs, NEW n \in Nat, NEW pairs \in [1..n -> Pair]
    PROVE  pairs \in [1..n -> Member \X Int]
  BY DEF Inputs, Pair

(* ZADD with INCR, and ZINCRBY, store a score that is a number.            *)
LEMMA Increments ==
    ASSUME Inputs, Inv, family = "zset", NEW k \in Key, store[k] # Absent, store[k].is = "zset",
           NEW c, Fine(c), k \in c.write, c.cmd \in Z!SortedSetSync,
           NEW p \in Member \X Int, Z!Incr(c, k, p)
    PROVE  Sound
  <1> DEFINE s == store[k].val
  <1>1. s \in Scores
    BY ZHeld
  <1>2. Z!Increment(s, p) \in Scores
    <2>1. Z!Get(s, p[1]) \in Int
      BY <1>1, ScoreOperators
    <2>2. Z!Plus(Z!Get(s, p[1]), p[2]) \in Int
      BY <2>1, Arithmetic
    <2> QED
      BY <1>1, <2>2, ScoreOperators DEF Z!Increment
  <1>3. CASE Z!Fail(c, "inf")
    BY <1>3, ZReplying
  <1>4. CASE /\ Z!InPlace(k, Z!Zset(Z!Increment(s, p)))
             /\ Z!Return(c, Z!Ok(Z!Increment(s, p)[p[1]]))
    BY <1>2, <1>4, ZChanging
  <1> QED
    BY <1>3, <1>4 DEF Z!Incr

(* ZADD, on a new key and on a sorted set, is sound.                       *)
LEMMA SortedSetAdds ==
    ASSUME Inputs, Inv, family = "zset", NEW k \in Key, NEW n \in Nat \ {0},
           NEW pairs \in [1..n -> Pair], NEW o
    PROVE  Z!handleZADD(k, pairs, o) => Sound
  <1> SUFFICES ASSUME Z!handleZADD(k, pairs, o) PROVE Sound
    OBVIOUS
  <1> DEFINE c == Z!One("zadd", k)
             new == Z!NewSortedSet(pairs)
             r == Z!AddOrUpdate(store[k].val, pairs, o)
             w == r.set
             x == r.count
  <1>1. Fine(c) /\ k \in c.write /\ c.cmd \in Z!SortedSetSync
    BY ZOne
  <1>2. pairs \in [1..n -> Member \X Int]
    BY Arguments
  <1>3. new \in Scores
    BY <1>2, NewSortedSetTyped
  <1>4. Z!Holds(k, "zset") => w \in Scores /\ pairs[1] \in Member \X Int
    <2>1. pairs[1] \in Member \X Int
      BY <1>2
    <2>2. Z!Holds(k, "zset") => store[k].val \in Scores
      BY ZHeld DEF Z!Holds
    <2>3. ASSUME NEW s \in Scores PROVE Z!AddOrUpdate(s, pairs, o).set \in Scores
      BY <1>2, AddOrUpdateTyped
    <2>4. QED
      BY <2>1, <2>2, <2>3
  <1>5. \/ \E why : Z!Fail(c, why)
        \/ \E m : Z!SaveAt(c, k, Z!Zset(new), m)
        \/ Z!Holds(k, "zset") /\ Z!Incr(c, k, pairs[1])
        \/ Z!Holds(k, "zset") /\ Z!InPlace(k, Z!Zset(w)) /\ Z!Return(c, Z!Ok(x))
    <2> HIDE DEF c, new, r
    <2> QED
      BY DEF Z!handleZADD, c, new, r
  <1> HIDE DEF c, new, w, x
  <1>6. CASE \E why : Z!Fail(c, why)
    BY <1>1, <1>6, ZReplying
  <1>7. CASE \E m : Z!SaveAt(c, k, Z!Zset(new), m)
    BY <1>1, <1>3, <1>7, ZSaving
  <1>8. CASE Z!Holds(k, "zset") /\ Z!Incr(c, k, pairs[1])
    <2>1. store[k] # Absent /\ store[k].is = "zset"
      BY <1>8 DEF Z!Holds
    <2> QED
      BY <1>1, <1>4, <1>8, <2>1, Increments
  <1>9. CASE Z!Holds(k, "zset") /\ Z!InPlace(k, Z!Zset(w)) /\ Z!Return(c, Z!Ok(x))
    BY <1>1, <1>4, <1>9, ZChanging
  <1> QED
    BY <1>5, <1>6, <1>7, <1>8, <1>9

(* ZINCRBY is sound.                                                       *)
LEMMA SortedSetIncrements ==
    ASSUME Inputs, Inv, family = "zset", NEW k \in Key, NEW p \in Pair
    PROVE  Z!handleZINCRBY(k, p) => Sound
  <1> SUFFICES ASSUME Z!handleZINCRBY(k, p) PROVE Sound
    OBVIOUS
  <1> DEFINE c == Z!zincrbyKeyFunc(k)
  <1>1. Fine(c) /\ k \in c.write /\ c.cmd \in Z!SortedSetSync
    BY DEF Z!zincrbyKeyFunc, Z!Declared, Fine, Z!SortedSetSync
  <1>2. p \in Member \X Int
    BY DEF Inputs, Pair
  <1> HIDE DEF c
  <1>3. CASE Z!Fail(c, "type")
    BY <1>1, <1>3, ZReplying
  <1>4. CASE Z!SaveAt(c, k, Z!Zset(Z!NewSortedSet(<<p>>)), p[2])
    <2>1. <<p>> \in [1..1 -> Member \X Int]
      BY <1>2
    <2>2. Z!NewSortedSet(<<p>>) \in Scores
      BY <2>1, NewSortedSetTyped
    <2> QED
      BY <1>1, <1>4, <2>2, ZSaving
  <1>5. CASE Z!Holds(k, "zset") /\ Z!Incr(c, k, p)
    BY <1>1, <1>2, <1>5, Increments DEF Z!Holds
  <1> QED
    BY <1>3, <1>4, <1>5, Zenon DEF Z!handleZINCRBY, c

(* A drop, a pop and what is dropped by rank, score or name.               *)
LEMMA SortedSetRemovals ==
    ASSUME Inv, family = "zset", NEW k \in Key, NEW c, Fine(c), k \in c.write,
           c.cmd \in Z!SortedSetSync, store[k] # Absent, store[k].is = "zset"
    PROVE  /\ \A ms : Z!Drop(c, k, store[k].val, ms) => Sound
           /\ \A many, policy : Z!TakeOut(c, k, store[k].val, many, policy) => Sound
  <1> DEFINE s == store[k].val
  <1>1. \A ms : Z!Without(s, ms) \in Scores
    BY ZHeld, ScoreOperators
  <1> HIDE DEF s
  <1>2. ASSUME NEW ms, Z!Drop(c, k, s, ms)
        PROVE  Sound
    BY <1>1, <1>2, ZChanging DEF Z!Drop
  <1>3. ASSUME NEW many, NEW policy, Z!TakeOut(c, k, s, many, policy)
        PROVE  Sound
    BY <1>1, <1>3, ZChanging DEF Z!TakeOut
  <1> QED
    BY <1>2, <1>3 DEF s

(* The commands that remove a range or pop are sound.                      *)
LEMMA SortedSetDrops ==
    ASSUME Inv, family = "zset", NEW k \in Key, NEW lo, NEW hi
    PROVE  /\ Z!handleZREM(k, lo) => Sound
           /\ Z!handleZREMRANGEBYSCORE(k, lo, hi) => Sound
           /\ Z!handleZREMRANGEBYRANK(k, lo, hi) => Sound
           /\ Z!handleZREMRANGEBYLEX(k, lo, hi) => Sound
           /\ Z!handleZPOP(k, lo, hi) => Sound
  <1>1. Z!handleZREM(k, lo) => Sound
    <2> DEFINE c == Z!One("zrem", k)
    <2>1. Fine(c) /\ k \in c.write /\ c.cmd \in Z!SortedSetSync
      BY ZOne
    <2> HIDE DEF c
    <2>2. \A r : (Z!Answer(c, r) => Sound) /\ (Z!Fail(c, r) => Sound)
      BY <2>1, ZReplying
    <2>3. store[k] # Absent /\ store[k].is = "zset" =>
             /\ \A ms : Z!Drop(c, k, store[k].val, ms) => Sound
             /\ \A many, policy : Z!TakeOut(c, k, store[k].val, many, policy) => Sound
      BY <2>1, SortedSetRemovals
    <2> QED
      BY <2>2, <2>3 DEF Z!handleZREM, Z!OnValue, Z!Holds, c
  <1>2. Z!handleZREMRANGEBYSCORE(k, lo, hi) => Sound
    <2> DEFINE c == Z!One("zremrangebyscore", k)
    <2>1. Fine(c) /\ k \in c.write /\ c.cmd \in Z!SortedSetSync
      BY ZOne
    <2> HIDE DEF c
    <2>2. \A r : (Z!Answer(c, r) => Sound) /\ (Z!Fail(c, r) => Sound)
      BY <2>1, ZReplying
    <2>3. store[k] # Absent /\ store[k].is = "zset" =>
             /\ \A ms : Z!Drop(c, k, store[k].val, ms) => Sound
             /\ \A many, policy : Z!TakeOut(c, k, store[k].val, many, policy) => Sound
      BY <2>1, SortedSetRemovals
    <2> QED
      BY <2>2, <2>3 DEF Z!handleZREMRANGEBYSCORE, Z!OnValue, Z!Holds, c
  <1>3. Z!handleZREMRANGEBYRANK(k, lo, hi) => Sound
    <2> DEFINE c == Z!One("zremrangebyrank", k)
    <2>1. Fine(c) /\ k \in c.write /\ c.cmd \in Z!SortedSetSync
      BY ZOne
    <2> HIDE DEF c
    <2>2. \A r : (Z!Answer(c, r) => Sound) /\ (Z!Fail(c, r) => Sound)
      BY <2>1, ZReplying
    <2>3. store[k] # Absent /\ store[k].is = "zset" =>
             /\ \A ms : Z!Drop(c, k, store[k].val, ms) => Sound
             /\ \A many, policy : Z!TakeOut(c, k, store[k].val, many, policy) => Sound
      BY <2>1, SortedSetRemovals
    <2> QED
      BY <2>2, <2>3 DEF Z!handleZREMRANGEBYRANK, Z!OnValue, Z!Holds, c
  <1>4. Z!handleZREMRANGEBYLEX(k, lo, hi) => Sound
    <2> DEFINE c == Z!One("zremrangebylex", k)
    <2>1. Fine(c) /\ k \in c.write /\ c.cmd \in Z!SortedSetSync
      BY ZOne
    <2> HIDE DEF c
    <2>2. \A r : (Z!Answer(c, r) => Sound) /\ (Z!Fail(c, r) => Sound)
      BY <2>1, ZReplying
    <2>3. store[k] # Absent /\ store[k].is = "zset" =>
             /\ \A ms : Z!Drop(c, k, store[k].val, ms) => Sound
             /\ \A many, policy : Z!TakeOut(c, k, store[k].val, many, policy) => Sound
      BY <2>1, SortedSetRemovals
    <2> QED
      BY <2>2, <2>3 DEF Z!handleZREMRANGEBYLEX, Z!OnValue, Z!Holds, c
  <1>5. Z!handleZPOP(k, lo, hi) => Sound
    <2> DEFINE c == Z!One(IF hi = "max" THEN "zpopmax" ELSE "zpopmin", k)
    <2>1. Fine(c) /\ k \in c.write /\ c.cmd \in Z!SortedSetSync
      BY ZOne
    <2> HIDE DEF c
    <2>2. \A r : (Z!Answer(c, r) => Sound) /\ (Z!Fail(c, r) => Sound)
      BY <2>1, ZReplying
    <2>3. store[k] # Absent /\ store[k].is = "zset" =>
             /\ \A ms : Z!Drop(c, k, store[k].val, ms) => Sound
             /\ \A many, policy : Z!TakeOut(c, k, store[k].val, many, policy) => Sound
      BY <2>1, SortedSetRemovals
    <2> QED
      BY <2>2, <2>3 DEF Z!handleZPOP, Z!OnValue, Z!Holds, c
  <1> QED
    BY <1>1, <1>2, <1>3, <1>4, <1>5

(* The elements of a sequence that are in a set form a sequence of         *)
(* elements of both.                                                       *)
LEMMA ThoseTyped ==
    ASSUME NEW n \in Nat, NEW A, NEW q \in [1..n -> A], NEW B
    PROVE  Z!Those(q, B) \in Seq(A \cap B)
  <1> DEFINE C == Seq(A \cap B)
             start == <<>>
             step == [x \in (1..n) \X C |->
                        IF q[x[1]] \in B THEN Append(x[2], q[x[1]]) ELSE x[2]]
             next(f, i) == IF i = 0 THEN start
                           ELSE IF q[i] \in B THEN Append(f[i - 1], q[i])
                           ELSE f[i - 1]
             f == CHOOSE f : f = [i \in 0..n |-> next(f, i)]
  <1>1. Len(q) = n
    OBVIOUS
  <1>2. start \in C
    OBVIOUS
  <1>3. step \in [(1..n) \X C -> C]
    <2>1. ASSUME NEW i \in 1..n, NEW s \in C
          PROVE  (IF q[i] \in B THEN Append(s, q[i]) ELSE s) \in C
      <3>1. CASE q[i] \in B
        <4>1. q[i] \in A \cap B
          BY <3>1
        <4> QED
          BY <3>1, <4>1
      <3>2. CASE q[i] \notin B
        BY <3>2
      <3> QED
        BY <3>1, <3>2
    <2> HIDE DEF C
    <2> QED
      BY <2>1
  <1> HIDE DEF C, start
  <1>4. PICK g : IsRun(g, n, C, start, step)
    <2> HIDE DEF step
    <2> QED
      BY <1>2, <1>3, StepsDefined
  <1>5. g = [i \in 0..n |-> next(g, i)]
    <2>1. ASSUME NEW i \in 1..n
          PROVE  g[i] = next(g, i)
      <3>1. g[i - 1] \in C /\ g[i] = step[<<i, g[i - 1]>>]
        <4> HIDE DEF step
        <4> QED
          BY <1>4 DEF IsRun
      <3> QED
        BY <3>1
    <2> HIDE DEF step
    <2>2. g = [i \in 0..n |-> g[i]]
      BY <1>4 DEF IsRun
    <2>3. ASSUME NEW i \in 0..n
          PROVE  g[i] = next(g, i)
      <3>1. CASE i = 0
        BY <1>4, <3>1 DEF IsRun
      <3>2. CASE i \in 1..n
        BY <2>1, <3>2
      <3> QED
        BY <3>1, <3>2
    <2> HIDE DEF next
    <2> QED
      BY <2>2, <2>3
  <1>6. f = [i \in 0..n |-> next(f, i)]
    <2> HIDE DEF next
    <2> QED
      BY <1>5
  <1>7. \A i \in 0..n : f[i] = next(f, i)
    <2> HIDE DEF next, f
    <2> QED
      BY <1>6
  <1> HIDE DEF f
  <1>8. f[0] \in C
    BY <1>2, <1>7
  <1>9. ASSUME NEW i \in 1..n, f[i - 1] \in C
        PROVE  f[i] \in C
    <2>1. step[<<i, f[i - 1]>>] \in C
      <3> HIDE DEF step
      <3> QED
        BY <1>3, <1>9
    <2>2. f[i] = step[<<i, f[i - 1]>>]
      BY <1>7, <1>9
    <2> QED
      BY <2>1, <2>2
  <1>10. f[n] \in C
    BY <1>8, <1>9, StepsStay
  <1> QED
    BY <1>1, <1>10 DEF Z!Those, f, C, start

(* A set of naturals that is not empty has a least element, which Min      *)
(* gives.                                                                  *)
LEMMA Least ==
    ASSUME NEW M \in SUBSET Nat, M # {}
    PROVE  Min(M) \in M
  <1> DEFINE R == OpToRel(<, Nat)
  <1>1. IsWellFoundedOn(R, Nat)
    BY NatLessThanWellFounded
  <1>2. \A x, y \in Nat : y < x => <<y, x>> \in R
    BY DEF OpToRel
  <1> HIDE DEF R
  <1>3. PICK x \in M : \A y \in M : ~(<<y, x>> \in R)
    BY <1>1, WFMin
  <1>4. ASSUME NEW y \in M
        PROVE  x <= y
    <2>1. x \in Nat /\ y \in Nat /\ ~(y < x)
      BY <1>2, <1>3
    <2> QED
      BY <2>1
  <1> QED
    BY <1>4 DEF Min

(* Min of two numbers is the smaller.                                      *)
LEMMA Smaller ==
    ASSUME NEW a \in Int, NEW b \in Int
    PROVE  Min({a, b}) = IF a <= b THEN a ELSE b
  <1>1. \E x \in {a, b} : \A y \in {a, b} : x <= y
    OBVIOUS
  <1> QED
    BY <1>1 DEF Min

(* A part of a sequence is a sequence of the same elements.                *)
LEMMA PartTyped ==
    ASSUME NEW D, NEW n \in Nat, NEW p \in [1..n -> D], NEW a \in Nat \ {0},
           NEW b \in Int, b <= n
    PROVE  SubSeq(p, a, b) \in Seq(D)
  <1>1. p \in Seq(D) /\ Len(p) = n
    OBVIOUS
  <1>2. CASE a <= b
    BY <1>1, <1>2
  <1>3. CASE a > b
    BY <1>1, <1>3
  <1> QED
    BY <1>2, <1>3

(* ZDIFF, ZINTER and ZUNION change nothing.                                *)
LEMMA CombinedReads ==
    ASSUME Inv, NEW n \in Nat \ {0}, NEW keys \in [1..n -> Key], NEW weights, NEW agg
    PROVE  /\ Z!handleZDIFF(keys) => Sound
           /\ Z!handleZINTER(keys, weights, agg) => Sound
           /\ Z!handleZUNION(keys, weights, agg) => Sound
  <1>1. Range(keys) \subseteq Key /\ Range(Front(keys)) \subseteq Key
    <2>1. Front(keys) \in Seq(Key)
      BY DEF Front
    <2> QED
      BY <2>1 DEF Range
  <1>2. Z!handleZDIFF(keys) => Sound
    <2> DEFINE c == Z!zdiffKeyFunc(keys)
    <2>1. Fine(c)
      BY <1>1 DEF Z!zdiffKeyFunc, Z!Declared, Z!Range, Range, Fine
    <2> HIDE DEF c
    <2>2. \A r : (Z!Answer(c, r) => Sound) /\ (Z!Fail(c, r) => Sound)
      BY <2>1, ZReplying
    <2> QED
      BY <2>2 DEF Z!handleZDIFF, Z!OnValue, c
  <1>3. Z!handleZINTER(keys, weights, agg) => Sound
    <2> DEFINE c == Z!zinterKeyFunc(keys, Z!Modified(weights, agg))
    <2>1. Fine(c)
      BY <1>1 DEF Z!zinterKeyFunc, Z!Leading, Z!Declared, Z!Range, Z!Front, Range, Front, Fine
    <2> HIDE DEF c
    <2>2. \A r : (Z!Answer(c, r) => Sound) /\ (Z!Fail(c, r) => Sound)
      BY <2>1, ZReplying
    <2> QED
      BY <2>2 DEF Z!handleZINTER, Z!Inter, c
  <1>4. Z!handleZUNION(keys, weights, agg) => Sound
    <2> DEFINE c == Z!zunionKeyFunc(keys, Z!Modified(weights, agg))
    <2>1. Fine(c)
      BY <1>1 DEF Z!zunionKeyFunc, Z!Leading, Z!Declared, Z!Range, Z!Front, Range, Front, Fine
    <2> HIDE DEF c
    <2>2. \A r : (Z!Answer(c, r) => Sound) /\ (Z!Fail(c, r) => Sound)
      BY <2>1, ZReplying
    <2> QED
      BY <2>2 DEF Z!handleZUNION, Z!Unite, c
  <1> QED
    BY <1>2, <1>3, <1>4

(* The sorted sets at the keys with their weights are what Union and       *)
(* Intersect take.                                                         *)
LEMMA ParamsTyped ==
    ASSUME Inv, NEW n \in Nat, NEW ks \in [1..n -> Key], NEW weights,
           \A i \in 1..n : Z!Holds(ks[i], "zset"),
           weights = <<>> \/ \A i \in 1..n : weights[i] \in Int
    PROVE  IsParams(Z!Params(ks, weights), n)
  <1> DEFINE params == Z!Params(ks, weights)
  <1>1. params = [i \in 1..n |-> params[i]]
    BY DEF Z!Params
  <1>2. ASSUME NEW i \in 1..n
        PROVE  params[i].set \in Scores /\ params[i].weight \in Int
    <2>1. params[i].set = store[ks[i]].val
      BY DEF Z!Params
    <2>2. store[ks[i]].val \in Scores
      BY ZHeld DEF Z!Holds
    <2>3. params[i].weight = IF weights = <<>> THEN 1 ELSE weights[i]
      BY DEF Z!Params
    <2> QED
      BY <2>1, <2>2, <2>3
  <1> HIDE DEF params
  <1>3. DOMAIN params = 1..n /\ Len(params) = n
    BY <1>1
  <1> QED
    BY <1>2, <1>3 DEF IsParams, params

(* So are the sources of ZINTERSTORE and ZUNIONSTORE, without the          *)
(* destination.                                                            *)
LEMMA SourcesTyped ==
    ASSUME NEW n \in Nat, NEW keys \in [1..n -> Key], NEW d
    PROVE  \E m \in Nat : Z!Sources(d, keys) \in [1..m -> Key]
  <1>1. Z!Sources(d, keys) \in Seq(Key \cap (Key \ {d}))
    BY ThoseTyped DEF Z!Sources
  <1> HIDE DEF Z!Sources
  <1>2. Z!Sources(d, keys) \in Seq(Key)
    BY <1>1
  <1> QED
    BY <1>2

(* ZDIFFSTORE, ZINTERSTORE and ZUNIONSTORE are sound: the destination      *)
(* gets a sorted set.                                                      *)
LEMMA SortedSetStores ==
    ASSUME Inputs, Inv, family = "zset", NEW n \in Nat \ {0}, NEW keys \in [1..n -> Key],
           NEW d \in Key, NEW weights \in Seq(Int), NEW agg
    PROVE  /\ Z!handleZDIFFSTORE(d, keys) => Sound
           /\ Z!handleZINTERSTORE(d, keys, weights, agg) => Sound
           /\ Z!handleZUNIONSTORE(d, keys, weights, agg) => Sound
  <1>1. Range(keys) \subseteq Key
    BY DEF Range
  <1>2. Z!handleZDIFFSTORE(d, keys) => Sound
    <2> DEFINE c == Z!zdiffstoreKeyFunc(d, keys)
               diff(s) == Z!Subtract(s, Z!Present(Tail(keys)))
    <2>1. Fine(c) /\ d \in c.write /\ c.cmd \in Z!SortedSetSync
      BY <1>1 DEF Z!zdiffstoreKeyFunc, Z!Declared, Z!Range, Range, Fine, Z!SortedSetSync
    <2> HIDE DEF c
    <2>2. \A r : (Z!Answer(c, r) => Sound) /\ (Z!Fail(c, r) => Sound)
      BY <2>1, ZReplying
    <2>3. \A s \in Scores : diff(s) \in Scores
      BY ScoreOperators DEF Z!Subtract
    <2>4. keys[1] \in Key
      OBVIOUS
    <2>5. Z!Holds(keys[1], "zset") => store[keys[1]].val \in Scores
      BY <2>4, ZHeld DEF Z!Holds
    <2> HIDE DEF diff
    <2>6. \A s \in Scores : \A r : Z!SaveAt(c, d, Z!Zset(diff(s)), r) => Sound
      BY <2>1, <2>3, ZSaving
    <2> QED
      BY <2>2, <2>5, <2>6 DEF Z!handleZDIFFSTORE, Z!OnValue, c, diff
  <1>3. Z!handleZINTERSTORE(d, keys, weights, agg) => Sound
    <2> SUFFICES ASSUME Z!handleZINTERSTORE(d, keys, weights, agg) PROVE Sound
      OBVIOUS
    <2> DEFINE c == Z!zinterstoreKeyFunc(d, keys)
               q == Z!Sources(d, keys)
               s == Z!Intersect(agg, Z!Params(q, weights))
    <2>1. Fine(c) /\ d \in c.write /\ c.cmd \in Z!SortedSetSync
      BY <1>1 DEF Z!zinterstoreKeyFunc, Z!Declared, Z!Range, Range, Fine, Z!SortedSetSync
    <2>2. PICK m \in Nat : q \in [1..m -> Key]
      BY SourcesTyped
    <2> HIDE DEF c, q
    <2>3. \A r : (Z!Answer(c, r) => Sound) /\ (Z!Fail(c, r) => Sound)
      BY <2>1, ZReplying
    <2>4. CASE /\ Z!WeightsFit(q, weights)
               /\ {i \in DOMAIN q : ~Z!Holds(q[i], "zset")} = {}
               /\ Z!SaveAt(c, d, Z!Zset(s), Z!Cardinality(DOMAIN s))
      <3>1. \A i \in 1..m : Z!Holds(q[i], "zset")
        BY <2>2, <2>4
      <3>2. weights = <<>> \/ \A i \in 1..m : weights[i] \in Int
        BY <2>2, <2>4 DEF Z!WeightsFit
      <3>3. IsParams(Z!Params(q, weights), m)
        BY <2>2, <3>1, <3>2, ParamsTyped
      <3>4. s \in Scores
        BY <3>3, IntersectTyped
      <3> QED
        BY <2>1, <2>4, <3>4, ZSaving
    <2> HIDE DEF s
    <2> QED
      BY <2>3, <2>4 DEF Z!handleZINTERSTORE, Z!Inter, c, q, s
  <1>4. Z!handleZUNIONSTORE(d, keys, weights, agg) => Sound
    <2> SUFFICES ASSUME Z!handleZUNIONSTORE(d, keys, weights, agg) PROVE Sound
      OBVIOUS
    <2> DEFINE c == Z!zunionstoreKeyFunc(d, keys)
               q == Z!Sources(d, keys)
               there == Z!Those([i \in DOMAIN q |-> i],
                                {i \in DOMAIN q : store[q[i]] # Absent})
               ks == [i \in DOMAIN there |-> q[there[i]]]
               ws == IF weights = <<>> THEN <<>>
                     ELSE [i \in DOMAIN there |-> weights[there[i]]]
               s == Z!Union(agg, Z!Params(ks, ws))
    <2>1. Fine(c) /\ d \in c.write /\ c.cmd \in Z!SortedSetSync
      BY <1>1 DEF Z!zunionstoreKeyFunc, Z!Declared, Z!Range, Range, Fine, Z!SortedSetSync
    <2>2. PICK m \in Nat : q \in [1..m -> Key]
      BY SourcesTyped
    <2> HIDE DEF c, q
    <2>3. \A r : (Z!Answer(c, r) => Sound) /\ (Z!Fail(c, r) => Sound)
      BY <2>1, ZReplying
    <2>4. CASE /\ Z!WeightsFit(q, weights) /\ Z!AllZsets(q)
               /\ Z!SaveAt(c, d, Z!Zset(s), Z!Cardinality(DOMAIN s))
      <3> DEFINE M == {i \in 1..m : store[q[i]] # Absent}
      <3>1. there \in Seq((1..m) \cap M)
        <4>1. [i \in DOMAIN q |-> i] \in [1..m -> 1..m] /\ DOMAIN q = 1..m
          BY <2>2
        <4> HIDE DEF M
        <4>2. Z!Those([i \in DOMAIN q |-> i], M) \in Seq((1..m) \cap M)
          BY <4>1, ThoseTyped
        <4> QED
          BY <4>1, <4>2 DEF M
      <3> HIDE DEF there
      <3>2. PICK l \in Nat : there \in [1..l -> M]
        <4>1. (1..m) \cap M = M
          OBVIOUS
        <4> HIDE DEF M
        <4> QED
          BY <3>1, <4>1
      <3>3. \A i \in 1..l : there[i] \in 1..m /\ store[q[there[i]]] # Absent
        BY <3>2
      <3> HIDE DEF M
      <3>4. ks \in [1..l -> Key]
        BY <2>2, <3>2, <3>3
      <3>5. \A i \in 1..l : Z!Holds(ks[i], "zset")
        BY <2>2, <2>4, <3>2, <3>3 DEF Z!AllZsets, Z!Range
      <3>6. ws = <<>> \/ \A i \in 1..l : ws[i] \in Int
        BY <2>2, <2>4, <3>2, <3>3 DEF Z!WeightsFit
      <3> HIDE DEF ks, ws
      <3>7. IsParams(Z!Params(ks, ws), l)
        BY <3>4, <3>5, <3>6, ParamsTyped
      <3>8. s \in Scores
        BY <3>7, UnionTyped
      <3> QED
        BY <2>1, <2>4, <3>8, ZSaving
    <2> HIDE DEF s
    <2> QED
      BY <2>3, <2>4 DEF Z!handleZUNIONSTORE, Z!Unite, c, q, s
  <1> QED
    BY <1>2, <1>3, <1>4

(* ZRANGESTORE is sound.                                                   *)
LEMMA RangeStores ==
    ASSUME Inv, family = "zset", NEW d \in Key, NEW k \in Key, NEW lo \in Int,
           NEW hi \in Int, NEW o \in Ranges
    PROVE  Z!handleZRANGESTORE(d, k, lo, hi, o) => Sound
  <1> SUFFICES ASSUME Z!handleZRANGESTORE(d, k, lo, hi, o) PROVE Sound
    OBVIOUS
  <1> DEFINE c == Z!zrangeStoreKeyFunc(d, k)
             s == store[k].val
  <1>1. Fine(c) /\ d \in c.write /\ c.cmd \in Z!SortedSetSync
    BY DEF Z!zrangeStoreKeyFunc, Z!Declared, Fine, Z!SortedSetSync
  <1> HIDE DEF c
  <1>2. \A r : (Z!Answer(c, r) => Sound) /\ (Z!Fail(c, r) => Sound)
    BY <1>1, ZReplying
  <1>3. ASSUME Z!Holds(k, "zset"), NEW q \in Z!Slice(s, lo, hi, o),
               Z!SaveAt(c, d, Z!Zset(Z!Only(s, Range(q))), Len(q))
        PROVE  Sound
    <2>1. s \in Scores
      BY <1>3, ZHeld DEF Z!Holds
    <2> DEFINE n == Z!Cardinality(DOMAIN s)
               offset == IF o.limit = <<>> THEN 0 ELSE o.limit[1]
               many == IF o.limit = <<>> \/ o.limit[2] < 0 THEN n - offset ELSE o.limit[2]
               inside == IF o.bylex THEN Z!BetweenLex(s, lo, hi) ELSE Z!Between(s, lo, hi)
               orders == IF o.bylex THEN Z!ByLex(s, o.rev) ELSE Z!ByScore(s, o.rev)
               end == Z!Min({many + 1, n})
    <2>2. IsFiniteSet(DOMAIN s) /\ n \in Nat
      <3>1. n = Cardinality(DOMAIN s)
        BY Zenon DEF Z!Cardinality, Cardinality
      <3> QED
        BY <2>1, <3>1, ScoresOf, FS_CardinalityType
    <2> HIDE DEF s, n
    <2>3. offset \in Nat /\ many \in Int
      BY <2>2 DEF Ranges
    <2>4. end \in Int /\ end <= n
      <3> HIDE DEF many
      <3>1. Z!Min({many + 1, n}) = Min({many + 1, n})
        BY DEF Z!Min, Min
      <3> QED
        BY <2>2, <2>3, <3>1, Smaller
    <2>5. inside \subseteq DOMAIN s
      BY DEF Z!BetweenLex, Z!Between
    <2>6. \A p \in orders : p \in [1..n -> DOMAIN s]
      <3>1. \A p \in Z!SetToSeqs(DOMAIN s) : p \in [1..n -> DOMAIN s]
        BY DEF Z!SetToSeqs, n
      <3>2. Z!ByLex(s, o.rev) \subseteq Z!SetToSeqs(DOMAIN s)
        BY Zenon DEF Z!ByLex
      <3>3. Z!ByScore(s, o.rev) \subseteq Z!SetToSeqs(DOMAIN s)
        BY Zenon DEF Z!ByScore
      <3> QED
        BY <3>1, <3>2, <3>3
    <2>7. CASE q = <<>>
      <3>1. Range(q) \in SUBSET DOMAIN s
        BY <2>7 DEF Range
      <3> QED
        BY <1>1, <1>3, <2>1, <3>1, ScoreOperators, ZSaving
    <2>8. CASE \E p \in orders : q = Z!Those(SubSeq(p, offset + 1, end), inside)
      <3> HIDE DEF offset, end, inside, orders
      <3>1. PICK p \in orders : q = Z!Those(SubSeq(p, offset + 1, end), inside)
        BY <2>8
      <3> DEFINE part == SubSeq(p, offset + 1, end)
      <3>2. part \in Seq(DOMAIN s)
        BY <2>2, <2>3, <2>4, <2>6, <3>1, PartTyped
      <3> HIDE DEF part
      <3>3. q \in Seq(DOMAIN s \cap inside)
        <4>1. PICK m \in Nat : part \in [1..m -> DOMAIN s]
          BY <3>2
        <4>2. Z!Those(part, inside) \in Seq(DOMAIN s \cap inside)
          BY <4>1, ThoseTyped
        <4> QED
          BY <3>1, <4>2 DEF part
      <3>4. Range(q) \in SUBSET DOMAIN s
        BY <2>5, <3>3 DEF Range
      <3> QED
        BY <1>1, <1>3, <2>1, <3>4, ScoreOperators, ZSaving
    <2> QED
      BY <1>3, <2>7, <2>8 DEF Z!Slice, n
  <1>4. CASE \E r : Z!Answer(c, r) \/ Z!Fail(c, r)
    BY <1>2, <1>4
  <1>5. Z!Holds(k, "zset") => \A q \in Z!Slice(s, lo, hi, o) :
           Z!SaveAt(c, d, Z!Zset(Z!Only(s, Z!Range(q))), Len(q)) => Sound
    BY <1>3 DEF Z!Range, Range
  <1> QED
    BY <1>4, <1>5, Zenon DEF Z!handleZRANGESTORE, Z!OnValue, c

(* ZMPOP is sound: it pops from a key that it declares.                    *)
LEMMA FirstPops ==
    ASSUME Inv, family = "zset", NEW k \in Key, NEW j \in Key, NEW many, NEW policy
    PROVE  Z!handleZMPOP(<<k, j>>, many, policy) => Sound
  <1> SUFFICES ASSUME Z!handleZMPOP(<<k, j>>, many, policy) PROVE Sound
    OBVIOUS
  <1> DEFINE keys == <<k, j>>
             c == Z!zmpopKeyFunc(keys)
             full == {i \in DOMAIN keys :
                        Z!Holds(keys[i], "zset") /\ store[keys[i]].val # Z!Empty}
             key == keys[Z!Min(full)]
  <1>1. Fine(c) /\ (\A i \in 1..2 : keys[i] \in c.write) /\ c.cmd \in Z!SortedSetSync
    BY DEF Z!zmpopKeyFunc, Z!Declared, Z!Range, Range, Fine, Z!SortedSetSync
  <1>2. \A i \in 1..2 : keys[i] \in Key
    OBVIOUS
  <1>3. full \subseteq 1..2
    OBVIOUS
  <1> HIDE DEF keys, c
  <1>4. full # {} => Z!Min(full) \in full
    <2> HIDE DEF full
    <2>1. full \in SUBSET Nat /\ Z!Min(full) = Min(full)
      BY <1>3 DEF Z!Min, Min
    <2> QED
      BY <2>1, Least
  <1>5. \A r : (Z!Answer(c, r) => Sound) /\ (Z!Fail(c, r) => Sound)
    BY <1>1, ZReplying
  <1>6. ASSUME full # {}, Z!TakeOut(c, key, store[key].val, many, policy)
        PROVE  Sound
    <2>1. Z!Min(full) \in 1..2 /\ store[key] # Absent /\ store[key].is = "zset"
      <3>1. Z!Min(full) \in full /\ Z!Min(full) \in 1..2
        BY <1>3, <1>4, <1>6
      <3> QED
        BY <3>1 DEF Z!Holds
    <2>2. key \in Key /\ key \in c.write
      BY <1>1, <1>2, <2>1
    <2> HIDE DEF key
    <2> QED
      BY <1>1, <1>6, <2>1, <2>2, SortedSetRemovals
  <1> QED
    BY <1>5, <1>6 DEF Z!handleZMPOP, keys, c

(* The arguments of the commands are sequences, not empty.                 *)
LEMMA Words ==
    ASSUME NEW A, NEW B, A \subseteq B
    PROVE  /\ \A q \in Upto2(A) : \E n \in Nat \ {0} : q \in [1..n -> B]
           /\ \A q \in Upto3(A) : \E n \in Nat \ {0} : q \in [1..n -> B]
  <1>1. ASSUME NEW q \in Upto2(A)
        PROVE  \E n \in Nat \ {0} : q \in [1..n -> B]
    <2>1. PICK n \in 1..2 : q \in [1..n -> A]
      BY DEF Upto2
    <2>2. q \in [1..n -> B] /\ n \in Nat \ {0}
      BY <2>1
    <2> QED
      BY <2>2
  <1>2. ASSUME NEW q \in Upto3(A)
        PROVE  \E n \in Nat \ {0} : q \in [1..n -> B]
    <2>1. PICK n \in 1..3 : q \in [1..n -> A]
      BY DEF Upto3
    <2>2. q \in [1..n -> B] /\ n \in Nat \ {0}
      BY <2>1
    <2> QED
      BY <2>2
  <1> QED
    BY <1>1, <1>2

(* Every command of the sorted set module is sound.                        *)
LEMMA SortedSetSteps ==
    ASSUME Inputs, Inv, SortedSetStep
    PROVE  Sound
  <1> DEFINE K == KeysOf["zset"]
  <1>1. K \subseteq Key
    BY DEF Inputs, Family
  <1>2. family = "zset" /\ (AddStep(K) \/ RangeStep(K) \/ CombineStep(K) \/ MemberStep(K))
    BY Zenon DEF SortedSetStep
  <1> HIDE DEF K
  <1>3. CASE AddStep(K)
    <2>1. CASE \E k \in K, p \in Pair, o \in Options : Z!handleZADD(k, <<p>>, o)
      <3>1. PICK k \in K, p \in Pair, o \in Options : Z!handleZADD(k, <<p>>, o)
        BY <2>1
      <3>2. 1 \in Nat \ {0} /\ <<p>> \in [1..1 -> Pair] /\ k \in Key
        BY <1>1
      <3> QED
        BY <1>2, <3>1, <3>2, SortedSetAdds
    <2>2. CASE \E k \in K, p, q \in Pair, o \in {PlainOptions, [PlainOptions EXCEPT !.incr = TRUE]} :
                  Z!handleZADD(k, <<p, q>>, o)
      <3>1. PICK k \in K, p \in Pair, q \in Pair, o \in {PlainOptions, [PlainOptions EXCEPT !.incr = TRUE]} :
                  Z!handleZADD(k, <<p, q>>, o)
        BY <2>2
      <3>2. 2 \in Nat \ {0} /\ <<p, q>> \in [1..2 -> Pair] /\ k \in Key
        BY <1>1
      <3> QED
        BY <1>2, <3>1, <3>2, SortedSetAdds
    <2>3. CASE \E k \in K, p \in Pair : Z!handleZINCRBY(k, p)
      BY <1>1, <1>2, <2>3, SortedSetIncrements
    <2> QED
      BY <1>3, <2>1, <2>2, <2>3, Zenon DEF AddStep
  <1>4. CASE RangeStep(K)
    <2>1. PICK k \in K, lo \in Score, hi \in Score :
            \/ Z!handleZCOUNT(k, lo, hi)
            \/ Z!handleZREMRANGEBYSCORE(k, lo, hi)
            \/ Z!handleZLEXCOUNT(k, lo, hi)
            \/ Z!handleZREMRANGEBYLEX(k, lo, hi)
            \/ Z!handleZREMRANGEBYRANK(k, lo, hi)
            \/ \E o \in Ranges : Z!handleZRANGE(k, lo, hi, o)
            \/ \E d \in K, o \in Ranges : Z!handleZRANGESTORE(d, k, lo, hi, o)
      BY <1>4, Zenon DEF RangeStep
    <2>2. k \in Key /\ lo \in Int /\ hi \in Int
      BY <1>1 DEF Inputs
    <2>3. ASSUME NEW d \in K, NEW o \in Ranges, Z!handleZRANGESTORE(d, k, lo, hi, o)
          PROVE  Sound
      <3>1. d \in Key
        BY <1>1
      <3> QED
        BY <1>2, <2>2, <2>3, <3>1, RangeStores
    <2> QED
      BY <1>2, <2>1, <2>2, <2>3, SortedSetReads, SortedSetDrops
  <1>5. CASE CombineStep(K)
    <2>1. \A keys \in Upto3(K) : \E n \in Nat \ {0} : keys \in [1..n -> Key]
      BY <1>1, Words
    <2>2. \A keys \in Upto2(K) : \E n \in Nat \ {0} : keys \in [1..n -> Key]
      BY <1>1, Words
    <2>3. ASSUME NEW weights \in {<<>>} \cup [1..1 -> Weight]
          PROVE  weights \in Seq(Int)
      <3>1. CASE weights \in [1..1 -> Weight]
        <4>1. DOMAIN weights = 1..1 /\ \A i \in 1..1 : weights[i] \in Int
          BY <3>1 DEF Inputs
        <4>2. weights = [i \in 1..1 |-> weights[i]]
          BY <3>1
        <4>3. PICK n \in Nat : n = 1
          OBVIOUS
        <4>4. weights \in [1..n -> Int]
          BY <4>1, <4>2, <4>3
        <4> QED
          BY <4>4
      <3>2. CASE weights = <<>>
        BY <3>2
      <3> QED
        BY <3>1, <3>2
    <2>4. CASE \E keys \in Upto2(K) :
                  Z!handleZDIFF(keys) \/ \E d \in K : Z!handleZDIFFSTORE(d, keys)
      <3>1. PICK keys \in Upto2(K) :
                  Z!handleZDIFF(keys) \/ \E d \in K : Z!handleZDIFFSTORE(d, keys)
        BY <2>4
      <3>2. PICK n \in Nat \ {0} : keys \in [1..n -> Key]
        BY <2>2
      <3>3. <<>> \in Seq(Int)
        OBVIOUS
      <3>4. \A d \in K : d \in Key
        BY <1>1
      <3> QED
        BY <1>2, <3>1, <3>2, <3>3, <3>4, CombinedReads, SortedSetStores
    <2>5. CASE \E keys \in Upto3(K), agg \in {"none", "sum", "min", "max"},
                  weights \in {<<>>} \cup [1..3 -> Weight] :
                  Z!handleZINTER(keys, weights, agg) \/ Z!handleZUNION(keys, weights, agg)
      <3>1. PICK keys \in Upto3(K), agg \in {"none", "sum", "min", "max"},
                 weights \in {<<>>} \cup [1..3 -> Weight] :
                  Z!handleZINTER(keys, weights, agg) \/ Z!handleZUNION(keys, weights, agg)
        BY <2>5
      <3>2. PICK n \in Nat \ {0} : keys \in [1..n -> Key]
        BY <2>1
      <3> QED
        BY <3>1, <3>2, CombinedReads
    <2>6. CASE \E d \in K, keys \in Upto2(K), agg \in {"none", "max"},
                  weights \in {<<>>} \cup [1..1 -> Weight] :
                  \/ Z!handleZINTERSTORE(d, keys, weights, agg)
                  \/ Z!handleZUNIONSTORE(d, keys, weights, agg)
      <3>1. PICK d \in K, keys \in Upto2(K), agg \in {"none", "max"},
                 weights \in {<<>>} \cup [1..1 -> Weight] :
                  \/ Z!handleZINTERSTORE(d, keys, weights, agg)
                  \/ Z!handleZUNIONSTORE(d, keys, weights, agg)
        BY <2>6
      <3>2. PICK n \in Nat \ {0} : keys \in [1..n -> Key]
        BY <2>2
      <3>3. d \in Key /\ weights \in Seq(Int)
        BY <1>1, <2>3
      <3> QED
        BY <1>2, <3>1, <3>2, <3>3, SortedSetStores
    <2> QED
      BY <1>5, <2>4, <2>5, <2>6, Zenon DEF CombineStep
  <1>6. CASE MemberStep(K)
    <2>1. PICK k \in K :
            \/ Z!handleZCARD(k)
            \/ \E n \in Count, policy \in {"min", "max"} : Z!handleZPOP(k, n, policy)
            \/ \E n \in Count : Z!handleZRANDMEMBER(k, n)
            \/ \E m \in Member, reverse \in BOOLEAN : Z!handleZRANK(k, m, reverse)
            \/ \E m \in Member : Z!handleZSCORE(k, m)
            \/ \E ms \in Upto2(Member) : Z!handleZREM(k, ms) \/ Z!handleZMSCORE(k, ms)
            \/ \E j \in K, n \in Count, policy \in {"min", "max"} :
                  Z!handleZMPOP(<<k, j>>, n, policy)
      BY <1>6, Zenon DEF MemberStep
    <2>2. k \in Key /\ \A j \in K : j \in Key
      BY <1>1
    <2> QED
      BY <1>2, <2>1, <2>2, SortedSetReads, SortedSetDrops, FirstPops
  <1> QED
    BY <1>2, <1>3, <1>4, <1>5, <1>6

-----------------------------------------------------------------------------
(* The sets and their commands.                                            *)

(* Sets are finitely many elements, with a length that counts them.        *)
LEMMA MembersOf ==
    ASSUME NEW s
    PROVE  s \in Members <=> /\ s = [members |-> s.members, length |-> s.length]
                             /\ s.members \subseteq Element /\ IsFiniteSet(s.members)
                             /\ s.length = Cardinality(s.members)
  BY DEF Members

(* The handlers of the set module answer and fail like any other, ...      *)
LEMMA SReplying ==
    ASSUME Inv, NEW c, Fine(c), NEW r
    PROVE  (S!Answer(c, r) => Sound) /\ (S!Fail(c, r) => Sound)
  BY Replying DEF S!Answer, S!Fail, S!Return, S!Ok, S!Error, Return

(* ... a set is a good value for them, ...                                 *)
LEMMA SGood ==
    ASSUME NEW s \in Members, family = "set"
    PROVE  Good(S!SetOf(s))
  BY MembersOf DEF Good, WellFormed, S!SetOf

(* ... they save sets, ...                                                 *)
LEMMA SSaving ==
    ASSUME Inv, NEW c, Fine(c), c.cmd \in S!SetSync, NEW k \in c.write,
           NEW s \in Members, family = "set", NEW r, S!SaveAt(c, k, S!SetOf(s), r)
    PROVE  Sound
  <1>1. Good(S!SetOf(s))
    BY SGood
  <1>2. SaveAt(c, k, S!SetOf(s), r)
    BY DEF S!SaveAt, S!Save, S!Fail, S!Return, S!Ok, S!Error, SaveAt, Save, Fail, Return,
           Ok, Error
  <1>3. c.cmd \in Synced
    BY DEF Synced
  <1> QED
    BY <1>1, <1>2, <1>3, SavingAt

(* ... and change them in place.                                           *)
LEMMA SChanging ==
    ASSUME Inv, NEW c, Fine(c), c.cmd \in S!SetSync, NEW k \in c.write,
           NEW s \in Members, family = "set", S!InPlace(k, S!SetOf(s)),
           NEW r, S!Return(c, S!Ok(r))
    PROVE  Sound
  <1>1. Good(S!SetOf(s))
    BY SGood
  <1>2. InPlace(k, S!SetOf(s)) /\ Return(c, Ok(r)) /\ Ok(r)[1] = "ok"
    BY DEF S!InPlace, S!Return, S!Ok, InPlace, Return, Ok
  <1>3. c.cmd \in Synced
    BY DEF Synced
  <1> QED
    BY <1>1, <1>2, <1>3, Changing

(* A handler with one key declares that key, as written if it is marked    *)
(* Sync.                                                                   *)
LEMMA SOne ==
    ASSUME NEW k \in Key, NEW cmd
    PROVE  /\ Fine(S!OneSet(cmd, k)) /\ S!OneSet(cmd, k).cmd = cmd
           /\ cmd \in {"sadd", "spop", "srem"}
                => k \in S!OneSet(cmd, k).write /\ cmd \in S!SetSync
  BY DEF S!OneSet, S!SetKeyFuncs, S!Declared, Fine, S!SetSync

(* What a key of set type holds is a set whose length counts its members.  *)
LEMMA SHeld ==
    ASSUME Inv, NEW k \in Key, store[k] # Absent, store[k].is = "set"
    PROVE  store[k].val \in Members
  BY DEF Inv, Good

(* The operations of set.go keep the length.                               *)
LEMMA FiniteRange ==
    ASSUME NEW n \in Nat, NEW A, NEW q \in [1..n -> A]
    PROVE  IsFiniteSet(Range(q)) /\ Range(q) \subseteq A
  <1>1. IsFiniteSet(1..n)
    BY FS_Interval
  <1>2. q \in Surjection(1..n, Range(q))
    BY DEF Surjection, Range
  <1>3. IsFiniteSet(Range(q))
    BY <1>1, <1>2, FS_Surjection
  <1> QED
    BY <1>3 DEF Range

(* The operations of set.go keep the length of a set: Remove counts what   *)
(* was there, Add what was not.                                            *)
LEMMA SetOperators ==
    ASSUME NEW s \in Members
    PROVE  /\ \A e : S!RemoveAll(s, e) \in Members
           /\ \A n \in Nat : \A q \in [1..n -> Element] : S!Add(s, q) \in Members
  <1> /\ s.members \subseteq Element /\ IsFiniteSet(s.members)
      /\ s.length = Cardinality(s.members)
    BY MembersOf
  <1>1. ASSUME NEW e
        PROVE  S!RemoveAll(s, e) \in Members
    <2> DEFINE m == s.members \ e
    <2>1. IsFiniteSet(m) /\ m \subseteq Element
      BY FS_Difference
    <2>2. s.length - Cardinality(e \cap s.members) = Cardinality(m)
      <3>1. e \cap s.members = s.members \cap e
        OBVIOUS
      <3>2. /\ IsFiniteSet(s.members \cap e)
            /\ Cardinality(m) = Cardinality(s.members) - Cardinality(s.members \cap e)
        BY FS_Difference, FS_Intersection
      <3>3. Cardinality(s.members) \in Nat /\ Cardinality(s.members \cap e) \in Nat
        BY <3>2, FS_CardinalityType
      <3> HIDE DEF m
      <3> QED
        BY <3>1, <3>2, <3>3
    <2> HIDE DEF m
    <2>3. S!RemoveAll(s, e) = [members |-> m, length |-> Cardinality(m)]
      <3>1. S!RemoveAll(s, e) =
               [members |-> m, length |-> s.length - Cardinality(e \cap s.members)]
        BY DEF S!RemoveAll, S!Cardinality, Cardinality, m
      <3> QED
        BY <2>2, <3>1
    <2> QED
      BY <2>1, <2>3 DEF Members
  <1>2. ASSUME NEW n \in Nat, NEW q \in [1..n -> Element]
        PROVE  S!Add(s, q) \in Members
    <2> DEFINE m == s.members \cup Range(q)
               new == Range(q) \ s.members
    <2>1. IsFiniteSet(Range(q)) /\ Range(q) \subseteq Element
      BY FiniteRange
    <2>2. IsFiniteSet(m) /\ m \subseteq Element
      BY <2>1, FS_Union
    <2>3. s.length + Cardinality(new) = Cardinality(m)
      <3>1. m = s.members \cup new /\ s.members \cap new = {}
        OBVIOUS
      <3>2. IsFiniteSet(new)
        BY <2>1, FS_Difference
      <3> HIDE DEF m, new
      <3>3. Cardinality(m) = Cardinality(s.members) + Cardinality(new)
                                - Cardinality(s.members \cap new)
        BY <3>1, <3>2, FS_Union
      <3>4. Cardinality(s.members) \in Nat /\ Cardinality(new) \in Nat
        BY <3>2, FS_CardinalityType
      <3> QED
        <4>1. Cardinality(s.members \cap new) = 0
          BY <3>1, FS_EmptySet
        <4> QED
          BY <3>3, <3>4, <4>1
    <2>4. S!Add(s, q) = [members |-> m, length |-> s.length + Cardinality(new)]
      BY DEF S!Add, S!Range, Range, S!Cardinality, Cardinality
    <2> HIDE DEF m, new
    <2> QED
      BY <2>2, <2>3, <2>4 DEF Members
  <1> QED
    BY <1>1, <1>2

(* NewSet counts its members.                                              *)
LEMMA NewSetTyped ==
    ASSUME NEW m, m \subseteq Element, IsFiniteSet(m)
    PROVE  S!New(m) \in Members
  BY DEF S!New, S!Cardinality, Cardinality, Members

(* The commands that read one set change nothing.                          *)
LEMMA SetReads ==
    ASSUME Inv, NEW k \in Key, NEW a
    PROVE  /\ S!handleSCARD(k) => Sound
           /\ S!handleSMEMBERS(k) => Sound
           /\ S!handleSISMEMBER(k, a) => Sound
           /\ S!handleSMISMEMBER(k, a) => Sound
           /\ S!handleSRANDMEMBER(k, a) => Sound
  <1>1. S!handleSCARD(k) => Sound
    <2> DEFINE c == S!OneSet("scard", k)
    <2>1. Fine(c)
      BY SOne
    <2> QED
      BY <2>1, SReplying DEF S!handleSCARD, S!OnValue
  <1>2. S!handleSMEMBERS(k) => Sound
    <2> DEFINE c == S!OneSet("smembers", k)
    <2>1. Fine(c)
      BY SOne
    <2> QED
      BY <2>1, SReplying DEF S!handleSMEMBERS, S!OnValue
  <1>3. S!handleSISMEMBER(k, a) => Sound
    <2> DEFINE c == S!OneSet("sismember", k)
    <2>1. Fine(c)
      BY SOne
    <2> QED
      BY <2>1, SReplying DEF S!handleSISMEMBER, S!OnValue
  <1>4. S!handleSMISMEMBER(k, a) => Sound
    <2> DEFINE c == S!OneSet("smismember", k)
    <2>1. Fine(c)
      BY SOne
    <2> QED
      BY <2>1, SReplying DEF S!handleSMISMEMBER, S!OnValue
  <1>5. S!handleSRANDMEMBER(k, a) => Sound
    <2> DEFINE c == S!OneSet("srandmember", k)
    <2>1. Fine(c)
      BY SOne
    <2> QED
      BY <2>1, SReplying DEF S!handleSRANDMEMBER, S!OnValue
  <1> QED
    BY <1>1, <1>2, <1>3, <1>4, <1>5

(* SADD, SREM and SPOP are sound.                                          *)
LEMMA SetChanges ==
    ASSUME Inv, family = "set", NEW k \in Key, NEW n \in Nat,
           NEW q \in [1..n -> Element], NEW many
    PROVE  /\ S!handleSADD(k, q) => Sound
           /\ S!handleSREM(k, q) => Sound
           /\ S!handleSPOP(k, many) => Sound
  <1>1. store[k] # Absent /\ store[k].is = "set" =>
           /\ \A e : S!RemoveAll(store[k].val, e) \in Members
           /\ S!Add(store[k].val, q) \in Members
    <2> SUFFICES ASSUME store[k] # Absent, store[k].is = "set"
                 PROVE  /\ \A e : S!RemoveAll(store[k].val, e) \in Members
                        /\ S!Add(store[k].val, q) \in Members
      OBVIOUS
    <2>1. store[k].val \in Members
      BY SHeld
    <2> QED
      BY <2>1, SetOperators
  <1>2. S!handleSADD(k, q) => Sound
    <2> DEFINE c == S!OneSet("sadd", k)
    <2>1. Fine(c) /\ k \in c.write /\ c.cmd \in S!SetSync
      BY SOne
    <2> HIDE DEF c
    <2>2. \A r : (S!Answer(c, r) => Sound) /\ (S!Fail(c, r) => Sound)
      BY <2>1, SReplying
    <2>3. S!New(S!Range(q)) \in Members
      BY NewSetTyped, FiniteRange DEF S!Range, Range
    <2>4. \A r : S!SaveAt(c, k, S!SetOf(S!New(S!Range(q))), r) => Sound
      BY <2>1, <2>3, SSaving
    <2>5. \A s \in Members : \A r : S!InPlace(k, S!SetOf(s)) /\ S!Return(c, S!Ok(r)) => Sound
      BY <2>1, SChanging
    <2> QED
      BY <1>1, <2>2, <2>4, <2>5 DEF S!handleSADD, S!Holds, c
  <1>3. S!handleSREM(k, q) => Sound
    <2> DEFINE c == S!OneSet("srem", k)
    <2>1. Fine(c) /\ k \in c.write /\ c.cmd \in S!SetSync
      BY SOne
    <2> HIDE DEF c
    <2>2. \A r : (S!Answer(c, r) => Sound) /\ (S!Fail(c, r) => Sound)
      BY <2>1, SReplying
    <2>3. \A s \in Members : \A r : S!InPlace(k, S!SetOf(s)) /\ S!Return(c, S!Ok(r)) => Sound
      BY <2>1, SChanging
    <2> QED
      BY <1>1, <2>2, <2>3 DEF S!handleSREM, S!OnValue, S!Holds, c
  <1>4. S!handleSPOP(k, many) => Sound
    <2> DEFINE c == S!OneSet("spop", k)
    <2>1. Fine(c) /\ k \in c.write /\ c.cmd \in S!SetSync
      BY SOne
    <2> HIDE DEF c
    <2>2. \A r : (S!Answer(c, r) => Sound) /\ (S!Fail(c, r) => Sound)
      BY <2>1, SReplying
    <2>3. \A s \in Members : \A r : S!InPlace(k, S!SetOf(s)) /\ S!Return(c, S!Ok(r)) => Sound
      BY <2>1, SChanging
    <2> QED
      BY <1>1, <2>2, <2>3 DEF S!handleSPOP, S!Popped, S!OnValue, S!Holds, c
  <1> QED
    BY <1>2, <1>3, <1>4

(* SMOVE is sound, between two keys, on one, and on two that hold one      *)
(* object.                                                                 *)
LEMMA SetMoves ==
    ASSUME Inv, family = "set", NEW k \in Key, NEW d \in Key, NEW e \in Element
    PROVE  S!handleSMOVE(k, d, e) => Sound
  <1> SUFFICES ASSUME S!handleSMOVE(k, d, e) PROVE Sound
    OBVIOUS
  <1> DEFINE c == S!smoveKeyFunc(k, d)
             s == store[k].val
             taken == S!RemoveAll(s, {e})
             moved == S!Add(IF d \in shared[k] THEN taken ELSE store[d].val, <<e>>)
  <1>1. Fine(c) /\ k \in c.write /\ d \in c.write /\ c.cmd \in S!SetSync /\ c.cmd = "smove"
    BY DEF S!smoveKeyFunc, S!Declared, Fine, S!SetSync
  <1> HIDE DEF c
  <1>2. \A r : (S!Answer(c, r) => Sound) /\ (S!Fail(c, r) => Sound)
    BY <1>1, SReplying
  <1>3. ASSUME S!Holds(k, "set"), S!Holds(d, "set"),
               store' = [j \in Key |->
                          IF j \in shared[d] THEN S!SetOf(moved)
                          ELSE IF j \in shared[k] THEN S!SetOf(taken)
                          ELSE store[j]],
               UNCHANGED shared, S!Return(c, S!Ok(1))
        PROVE  Sound
    <2>1. taken \in Members
      BY <1>3, SHeld, SetOperators DEF S!Holds
    <2>2. moved \in Members
      <3>1. (IF d \in shared[k] THEN taken ELSE store[d].val) \in Members
        BY <1>3, <2>1, SHeld DEF S!Holds
      <3>2. <<e>> \in [1..1 -> Element] /\ 1 \in Nat
        OBVIOUS
      <3> QED
        BY <3>1, <3>2, SetOperators
    <2> HIDE DEF taken, moved
    <2>3. Good(S!SetOf(taken)) /\ Good(S!SetOf(moved))
      BY <2>1, <2>2, SGood
    <2> DEFINE a == S!SetOf(taken)
               b == S!SetOf(moved)
    <2> HIDE DEF a, b
    <2>4. store' = [j \in Key |-> IF j \in shared[d] THEN b
                                  ELSE IF j \in shared[k] THEN a ELSE store[j]]
      BY <1>3, Zenon DEF a, b
    <2>5. /\ call'.read = c.read /\ call'.write = c.write /\ call'.cmd = c.cmd
          /\ call'.answer = Ok(1) /\ family' = family
      BY <1>3 DEF S!Return, S!Ok, Ok
    <2>6. \A v : Good(v) => Good(v)'
      BY <2>5, GoodStays
    <2>7. (\A j \in Key : store[j] # Absent => Good(store[j]))'
      BY <2>3, <2>4, <2>6 DEF Inv, a, b
    <2>8. \A i \in Key : \A j \in shared[i] : store'[j] = store'[i]
      <3> SUFFICES ASSUME NEW i \in Key, NEW j \in shared[i]
                   PROVE  store'[j] = store'[i]
        OBVIOUS
      <3>1. /\ j \in Key /\ (j \in shared[k] <=> i \in shared[k])
            /\ (j \in shared[d] <=> i \in shared[d]) /\ store[j] = store[i]
        BY DEF Inv
      <3> QED
        BY <2>4, <3>1
    <2>9. Inv'
      BY <1>1, <1>3, <2>4, <2>5, <2>7, <2>8 DEF Inv, Fine, Ok
    <2>10. Changed \subseteq Holders(c.write)
      BY <1>1, <2>4 DEF Holders, Changed
    <2>11. c.cmd \in Synced
      BY <1>1 DEF Synced
    <2> QED
      BY <2>5, <2>9, <2>10, <2>11 DEF Sound, Unsynced, Undone, Confined, IsError, Ok
  <1> QED
    BY <1>2, <1>3 DEF S!handleSMOVE, S!OnValue, S!Holds, c

(* SDIFF changes nothing, SDIFFSTORE stores a set.                         *)
LEMMA SetDifferences ==
    ASSUME Inv, family = "set", NEW n \in Nat \ {0}, NEW keys \in [1..n -> Key],
           NEW d \in Key
    PROVE  /\ S!handleSDIFF(keys) => Sound
           /\ S!handleSDIFFSTORE(d, keys) => Sound
  <1>1. S!Range(keys) \subseteq Key
    BY DEF S!Range
  <1>2. S!handleSDIFF(keys) => Sound
    <2> DEFINE c == S!ManySets("sdiff", keys)
    <2>1. Fine(c)
      BY <1>1 DEF S!ManySets, S!Declared, Fine
    <2> QED
      BY <2>1, SReplying DEF S!handleSDIFF
  <1>3. S!handleSDIFFSTORE(d, keys) => Sound
    <2> DEFINE c == S!StoreSets("sdiffstore", d, keys)
               diff == S!Subtract(store[keys[1]].val, S!SetsAt(Tail(keys)))
    <2>1. Fine(c) /\ d \in c.write /\ c.cmd \in S!SetSync
      BY <1>1 DEF S!StoreSets, S!Declared, Fine, S!SetSync
    <2>2. ASSUME S!Holds(keys[1], "set")
          PROVE  diff \in Members
      <3>1. S!New(store[keys[1]].val.members) \in Members
        <4>1. keys[1] \in Key
          OBVIOUS
        <4> QED
          BY <2>2, <4>1, SHeld, MembersOf, NewSetTyped DEF S!Holds
      <3> QED
        BY <3>1, SetOperators DEF S!Subtract
    <2> HIDE DEF c, diff
    <2>3. \A r : (S!Answer(c, r) => Sound) /\ (S!Fail(c, r) => Sound)
      BY <2>1, SReplying
    <2> QED
      BY <2>1, <2>2, <2>3, SSaving DEF S!handleSDIFFSTORE, c, diff
  <1> QED
    BY <1>2, <1>3

(* What Intersection and SetToSeqs give.                                   *)
LEMMA MeetTyped ==
    ASSUME NEW limit, NEW s \in Members, NEW u \in Members, NEW r \in S!Meet(limit, s, u)
    PROVE  r.set \in Members
  <1> DEFINE common == s.members \cap u.members
  <1>1. common \subseteq Element /\ IsFiniteSet(common)
    BY MembersOf, FS_Intersection
  <1> HIDE DEF common
  <1>2. \A m \in SUBSET common : S!New(m) \in Members
    BY <1>1, FS_Subset, NewSetTyped
  <1>3. \E m \in SUBSET common : r.set = S!New(m)
    <2>1. CASE limit > 0 /\ S!Cardinality(common) > limit
      BY <2>1 DEF S!Meet, S!kSubset, common
    <2>2. CASE ~(limit > 0 /\ S!Cardinality(common) > limit)
      <3> DEFINE stops == IF S!Cardinality(common) = limit /\ s.members # common
                          THEN BOOLEAN ELSE {FALSE}
      <3>1. r \in {[set |-> S!New(common), stop |-> st] : st \in stops}
        BY <2>2, Zenon DEF S!Meet, common
      <3> HIDE DEF stops
      <3> QED
        BY <3>1
    <2> QED
      BY <2>1, <2>2
  <1> QED
    BY <1>2, <1>3

(* What the parts of an intersection give.                                 *)
Results == [set : Members, stop : BOOLEAN]

(* Two halves give sets, whichever of them stops.                          *)
LEMMA MeetHalvesTyped ==
    ASSUME NEW limit, NEW A \in SUBSET Results, NEW B \in SUBSET Results
    PROVE  S!MeetHalves(limit, A, B) \in SUBSET Results
  <1>1. ASSUME NEW l \in A, NEW x \in B, NEW r \in S!Meet(limit, l.set, x.set)
        PROVE  r \in Results
    <2>1. l.set \in Members /\ x.set \in Members
      BY DEF Results
    <2>2. r.set \in Members
      BY <2>1, MeetTyped
    <2>3. r = [set |-> r.set, stop |-> r.stop] /\ r.stop \in BOOLEAN
      <3> DEFINE common == l.set.members \cap x.set.members
                 stops == IF S!Cardinality(common) = limit /\ l.set.members # common
                          THEN BOOLEAN ELSE {FALSE}
      <3>1. \/ r \in {[set |-> S!New(common), stop |-> st] : st \in stops}
            \/ r \in {[set |-> S!New(m), stop |-> TRUE] : m \in S!kSubset(limit, common)}
        BY Zenon DEF S!Meet
      <3>2. stops \subseteq BOOLEAN
        OBVIOUS
      <3> HIDE DEF common, stops
      <3>3. CASE r \in {[set |-> S!New(common), stop |-> st] : st \in stops}
        <4>1. PICK st \in stops : r = [set |-> S!New(common), stop |-> st]
          BY <3>3
        <4> QED
          BY <3>2, <4>1
      <3>4. CASE r \in {[set |-> S!New(m), stop |-> TRUE] : m \in S!kSubset(limit, common)}
        <4>1. PICK m \in S!kSubset(limit, common) : r = [set |-> S!New(m), stop |-> TRUE]
          BY <3>4
        <4> QED
          BY <4>1
      <3> QED
        BY <3>1, <3>3, <3>4
    <2> QED
      BY <2>2, <2>3 DEF Results
  <1> QED
    BY <1>1 DEF S!MeetHalves

(* Intersection, by halves, gives sets.                                    *)
LEMMA IntersectionTyped ==
    ASSUME NEW limit, NEW n \in Nat, NEW sets \in [1..n -> Members]
    PROVE  S!Intersection(limit, sets) \in SUBSET Results
  <1> DEFINE C == SUBSET Results
             none == {}
             one(j) == {[set |-> sets[j], stop |-> FALSE]}
             meet(x, y) == S!MeetHalves(limit, x, y)
             base == [j \in 1..n |-> one(j)]
             comb == [x \in Pairs(n) \X C \X C |-> meet(x[2], x[3])]
             next(f, p) == CASE p[2] <= p[1] -> none
                             [] p[2] = p[1] + 1 -> one(p[2])
                             [] OTHER -> meet(f[Left(p)], f[Right(p)])
             f == CHOOSE f : f = [p \in Pairs(n) |-> next(f, p)]
  <1>1. \A x, y \in C : meet(x, y) \in C
    BY MeetHalvesTyped
  <1>2. none \in C /\ \A j \in 1..n : one(j) \in C
    BY DEF Results
  <1> HIDE DEF C, none, one, meet
  <1>3. base \in [1..n -> C]
    BY <1>2
  <1>4. comb \in [Pairs(n) \X C \X C -> C]
    BY <1>1
  <1>5. PICK g : IsHalving(g, n, C, none, base, comb)
    <2> HIDE DEF base, comb
    <2> QED
      BY <1>3, <1>4, <1>2, HalvesDefined
  <1>6. ASSUME NEW p \in Pairs(n)
        PROVE  g[p] = next(g, p)
    <2> p[1] \in 0..n /\ p[2] \in 0..n
      BY DEF Pairs
    <2>1. CASE p[2] <= p[1]
      <3>1. g[p] = none
        <4> HIDE DEF base, comb
        <4> QED
          BY <1>5, <2>1 DEF IsHalving
      <3> QED
        BY <2>1, <3>1
    <2>2. CASE p[2] = p[1] + 1
      <3>1. g[p] = base[p[2]]
        <4>1. ~(p[2] <= p[1])
          BY <2>2
        <4> HIDE DEF base, comb
        <4> QED
          BY <1>5, <2>2, <4>1, Zenon DEF IsHalving
      <3>2. p[2] \in 1..n
        BY <2>2
      <3> QED
        BY <2>2, <3>1, <3>2
    <2>3. CASE p[2] > p[1] + 1
      <3>1. g[Left(p)] \in C /\ g[Right(p)] \in C
        BY <1>5, <2>3, Halved DEF IsHalving
      <3>2. g[p] = comb[<<p, g[Left(p)], g[Right(p)]>>]
        <4> HIDE DEF base, comb
        <4> QED
          BY <1>5, <2>3 DEF IsHalving
      <3>3. g[p] = meet(g[Left(p)], g[Right(p)])
        BY <3>1, <3>2
      <3> QED
        BY <2>3, <3>3
    <2> QED
      BY <2>1, <2>2, <2>3
  <1>7. g = [p \in Pairs(n) |-> next(g, p)]
    <2>1. g = [p \in Pairs(n) |-> g[p]]
      BY <1>5 DEF IsHalving
    <2> HIDE DEF next
    <2> QED
      BY <1>6, <2>1
  <1>8. f = [p \in Pairs(n) |-> next(f, p)]
    <2> HIDE DEF next
    <2> QED
      BY <1>7
  <1>9. \A p \in Pairs(n) : f[p] = next(f, p)
    <2> HIDE DEF next, f
    <2> QED
      BY <1>8
  <1> HIDE DEF f
  <1>10. f[<<0, n>>] \in C
    <2>1. \A p \in Pairs(n) : p[2] <= p[1] + 1 => f[p] \in C
      BY <1>2, <1>9, <1>2 DEF Pairs
    <2>2. \A p \in Pairs(n) :
             p[2] > p[1] + 1 /\ f[Left(p)] \in C /\ f[Right(p)] \in C
                => f[p] \in C
      BY <1>1, <1>9 DEF Pairs
    <2> QED
      BY <2>1, <2>2, HalvesStay
  <1>11. S!Intersection(limit, sets) = f[<<0, n>>]
    <2>1. Len(sets) = n
      OBVIOUS
    <2> QED
      BY <2>1, Zenon DEF S!Intersection, f, none, one, meet, S!Parts, Pairs, S!Left, S!Right,
                          Left, Right
  <1> QED
    BY <1>10, <1>11 DEF C

(* The distinct keys of the arguments in some order, as ranging over a Go  *)
(* map gives them.                                                         *)
LEMMA OrderedKeys ==
    ASSUME Inv, NEW n \in Nat, NEW keys \in [1..n -> Key],
           NEW q \in S!SetToSeqs(S!Range(keys))
    PROVE  /\ S!Range(keys) \subseteq Key
           /\ q \in [1..Cardinality(S!Range(keys)) -> S!Range(keys)]
           /\ Cardinality(S!Range(keys)) \in Nat
           /\ n # 0 => Cardinality(S!Range(keys)) # 0
  <1> DEFINE M == S!Range(keys)
  <1>1. M = Range(keys)
    BY DEF S!Range, Range
  <1>2. IsFiniteSet(M) /\ M \subseteq Key
    <2>1. IsFiniteSet(Range(keys)) /\ Range(keys) \subseteq Key
      BY FiniteRange
    <2> HIDE DEF M
    <2> QED
      BY <1>1, <2>1
  <1>3. n # 0 => M # {}
    BY DEF S!Range
  <1> HIDE DEF M
  <1>4. Cardinality(M) \in Nat /\ (n # 0 => Cardinality(M) # 0)
    BY <1>2, <1>3, FS_CardinalityType, FS_EmptySet
  <1>5. q \in [1..Cardinality(M) -> M]
    BY Zenon DEF S!SetToSeqs, S!Cardinality, Cardinality, M
  <1> QED
    BY <1>2, <1>4, <1>5 DEF M

(* The values of keys that hold sets are sets.                             *)
LEMMA ValuesTyped ==
    ASSUME Inv, NEW n \in Nat, NEW q \in [1..n -> Key], \A i \in 1..n : S!Holds(q[i], "set")
    PROVE  S!ValuesAt(q) \in [1..n -> Members]
  BY SHeld DEF S!ValuesAt, S!Holds

(* SINTER and SINTERCARD change nothing.                                   *)
LEMMA SetIntersectionReads ==
    ASSUME Inv, NEW n \in Nat \ {0}, NEW keys \in [1..n -> Key], NEW limit
    PROVE  /\ S!handleSINTER(keys) => Sound
           /\ S!handleSINTERCARD(keys, limit) => Sound
  <1>1. S!Range(keys) \subseteq Key
    BY DEF S!Range
  <1>2. S!handleSINTER(keys) => Sound
    <2> DEFINE c == S!ManySets("sinter", keys)
    <2>1. Fine(c)
      BY <1>1 DEF S!ManySets, S!Declared, Fine
    <2> HIDE DEF c
    <2>2. \A r : (S!Answer(c, r) => Sound) /\ (S!Fail(c, r) => Sound)
      BY <2>1, SReplying
    <2> QED
      BY <2>2 DEF S!handleSINTER, S!InterKeys, c
  <1>3. S!handleSINTERCARD(keys, limit) => Sound
    <2> DEFINE c == S!ManySets("sintercard", keys)
    <2>1. Fine(c)
      BY <1>1 DEF S!ManySets, S!Declared, Fine
    <2> HIDE DEF c
    <2>2. \A r : (S!Answer(c, r) => Sound) /\ (S!Fail(c, r) => Sound)
      BY <2>1, SReplying
    <2> QED
      BY <2>2 DEF S!handleSINTERCARD, S!InterKeys, c
  <1> QED
    BY <1>2, <1>3

(* What a union in place may make of the store: the additions change sets  *)
(* to sets, and the keys of one object alike.                              *)
Additions(ks) ==
    {vals \in [Key -> {store[k] : k \in Key} \cup {S!SetOf(s) : s \in Members}] :
        /\ \A k \in Key : vals[k] # store[k] => k \in Holders(ks)
        /\ \A k \in Key : vals[k] # store[k] =>
              \E s \in Members : vals[k] = S!SetOf(s)
        /\ \A k \in ks : vals[k].val \in Members
        /\ \A k \in Key : \A j \in shared[k] : vals[j] = vals[k]}

(* The destination gets the object of at, which may have been added to.    *)
LEMMA SavingObject ==
    ASSUME Inv, family = "set", NEW c, Fine(c), NEW d \in c.write, NEW own \in c.read,
           NEW vals \in Additions(c.read), S!SaveObject(c, d, vals, own),
           \/ c.cmd = "sunionstore"
           \/ c.cmd = "sinterstore" /\ vals = store
    PROVE  Sound
  <1>1. d \in Key /\ own \in Key
    BY DEF Fine
  <1>4. \A k \in Key : vals[k] # Absent => Good(vals[k])
    <2> SUFFICES ASSUME NEW k \in Key, vals[k] # Absent PROVE Good(vals[k])
      OBVIOUS
    <2>1. CASE vals[k] = store[k]
      BY <2>1 DEF Inv
    <2>2. CASE vals[k] # store[k]
      BY <2>2, SGood DEF Additions
    <2> QED
      BY <2>1, <2>2
  <1>5. \A k \in Key : \A j \in shared[k] : vals[j] = vals[k]
    BY DEF Additions
  <1>6. vals = [k \in Key |-> vals[k]]
    BY DEF Additions
  <1>7. \A k \in Key : vals[k] # store[k] => k \in Holders(c.read)
    BY DEF Additions
  <1>8. c.cmd \in Synced
    BY DEF Synced, S!SetSync
  <1>9. CASE /\ store' = [vals EXCEPT ![d] = vals[own]]
             /\ shared' = [j \in Key |-> IF j \in shared[own] \cup {d} THEN shared[own] \cup {d}
                                         ELSE shared[j] \ {d}]
             /\ S!Return(c, S!Ok(vals[own].val.length))
    <2>1. /\ call'.read = c.read /\ call'.write = c.write /\ call'.cmd = c.cmd
          /\ call'.answer[1] = "ok" /\ family' = family
      BY <1>9 DEF S!Return, S!Ok
    <2>2. \A v : Good(v) => Good(v)'
      BY <2>1, GoodStays
    <2>3. (\A k \in Key : store[k] # Absent => Good(store[k]))'
      BY <1>1, <1>4, <1>6, <1>9, <2>2
    <2>4. \A k \in Key : k \in shared'[k]
      BY <1>9 DEF Inv
    <2>5. \A k \in Key : \A j \in shared'[k] :
             shared'[j] = shared'[k] /\ store'[j] = store'[k]
      <3> SUFFICES ASSUME NEW k \in Key, NEW j \in shared'[k]
                   PROVE  shared'[j] = shared'[k] /\ store'[j] = store'[k]
        OBVIOUS
      <3>1. CASE k \in shared[own] \cup {d}
        <4>1. j \in shared[own] \cup {d} /\ j \in Key
          BY <1>1, <1>9, <3>1 DEF Inv
        <4>2. \A i \in shared[own] \cup {d} : i \in Key /\ store'[i] = vals[own]
          BY <1>1, <1>5, <1>6, <1>9 DEF Inv
        <4> QED
          BY <1>9, <3>1, <4>1, <4>2
      <3>2. CASE k \notin shared[own] \cup {d}
        <4>1. j \in shared[k] /\ j # d /\ j \in Key /\ k # d
          BY <1>9, <3>2 DEF Inv
        <4>2. j \notin shared[own] \cup {d}
          BY <1>1, <3>2, <4>1 DEF Inv
        <4>3. shared[j] = shared[k] /\ vals[j] = vals[k]
          BY <1>5, <4>1 DEF Inv
        <4> QED
          BY <1>6, <1>9, <3>2, <4>1, <4>2, <4>3
      <3> QED
        BY <3>1, <3>2
    <2>6. shared' \in [Key -> SUBSET Key] /\ store' = [k \in Key |-> store'[k]]
      BY <1>1, <1>6, <1>9 DEF Inv
    <2>7. Inv'
      BY <2>1, <2>3, <2>4, <2>5, <2>6 DEF Inv, Fine
    <2>8. Changed \subseteq Holders(c.write) \cup (IF c.cmd = "sunionstore"
                                                   THEN Holders(c.read) ELSE {})
      BY <1>1, <1>6, <1>7, <1>9 DEF Changed, Holders, Inv
    <2> QED
      BY <1>8, <2>1, <2>7, <2>8 DEF Sound, Unsynced, Undone, Confined, IsError
  <1>10. CASE store' = vals /\ UNCHANGED shared /\ S!Return(c, S!Error("full"))
    <2>1. /\ call'.read = c.read /\ call'.write = c.write /\ call'.cmd = c.cmd
          /\ call'.answer = <<"error", "full">> /\ family' = family
      BY <1>10 DEF S!Return, S!Error
    <2>2. \A v : Good(v) => Good(v)'
      BY <2>1, GoodStays
    <2>3. (\A k \in Key : store[k] # Absent => Good(store[k]))'
      BY <1>4, <1>10, <2>2
    <2>4. Inv'
      BY <1>5, <1>6, <1>10, <2>1, <2>3 DEF Inv, Fine
    <2>5. Changed \subseteq (IF c.cmd = "sunionstore" THEN Holders(c.read) ELSE {})
      BY <1>7, <1>10 DEF Changed
    <2> QED
      BY <1>8, <2>1, <2>4, <2>5
         DEF Sound, Unsynced, Undone, Confined, IsError, Reply, ChangeFirst
  <1> QED
    BY <1>9, <1>10 DEF S!SaveObject

(* SINTERSTORE is sound, with one key too, where it stores the object of   *)
(* that key itself.                                                        *)
LEMMA SetIntersections ==
    ASSUME Inv, family = "set", NEW n \in Nat \ {0}, NEW keys \in [1..n -> Key],
           NEW d \in Key
    PROVE  S!handleSINTERSTORE(d, keys) => Sound
  <1> SUFFICES ASSUME S!handleSINTERSTORE(d, keys) PROVE Sound
    OBVIOUS
  <1> DEFINE c == S!StoreSets("sinterstore", d, keys)
             ks == S!Range(keys)
  <1>1. ks \subseteq Key
    BY DEF S!Range
  <1>2. /\ Fine(c) /\ d \in c.write /\ c.cmd \in S!SetSync /\ c.read = ks
        /\ c.cmd = "sinterstore"
    BY <1>1 DEF S!StoreSets, S!Declared, Fine, S!SetSync
  <1> HIDE DEF c, ks
  <1>3. \A r : (S!Answer(c, r) => Sound) /\ (S!Fail(c, r) => Sound)
    BY <1>2, SReplying
  <1>4. ASSUME \A k \in ks : S!Holds(k, "set"),
               NEW q \in S!SetToSeqs(ks), NEW r \in S!Intersection(0, S!ValuesAt(q)),
               IF Len(q) = 1 THEN S!SaveObject(c, d, store, q[1])
               ELSE S!SaveAt(c, d, S!SetOf(r.set), r.set.length)
        PROVE  Sound
    <2> DEFINE m == Cardinality(ks)
    <2>1. /\ m \in Nat /\ m # 0 /\ q \in [1..m -> ks]
      BY OrderedKeys DEF ks
    <2> HIDE DEF m
    <2>2. Len(q) = m /\ q[1] \in ks
      BY <2>1
    <2>3. CASE Len(q) = 1
      <3>1. store \in Additions(c.read)
        <4>1. \A k \in ks : store[k].val \in Members
          BY <1>1, <1>4, SHeld DEF S!Holds
        <4>2. store \in [Key -> {store[k] : k \in Key} \cup {S!SetOf(s) : s \in Members}]
          BY DEF Inv
        <4> QED
          BY <1>2, <4>1, <4>2 DEF Additions, Inv
      <3> QED
        BY <1>2, <1>4, <2>2, <2>3, <3>1, SavingObject
    <2>4. CASE Len(q) # 1
      <3>1. q \in [1..m -> Key] /\ \A i \in 1..m : S!Holds(q[i], "set")
        BY <1>1, <1>4, <2>1
      <3>2. S!ValuesAt(q) \in [1..m -> Members]
        BY <2>1, <3>1, ValuesTyped
      <3>3. S!Intersection(0, S!ValuesAt(q)) \in SUBSET Results
        BY <2>1, <3>2, IntersectionTyped
      <3>4. r.set \in Members
        BY <3>3 DEF Results
      <3> QED
        BY <1>2, <1>4, <2>4, <3>4, SSaving
    <2> QED
      BY <2>3, <2>4
  <1> QED
    BY <1>3, <1>4, Zenon DEF S!handleSINTERSTORE, S!InterKeys, c, ks

(* The recursion of Union adds objects of its own keys to objects of its   *)
(* own keys.                                                               *)
LEMMA MergesTyped ==
    ASSUME NEW n \in Nat, NEW ks, NEW q \in [1..n -> ks]
    PROVE  S!Merges(q) \in Seq(ks \X ks)
  <1> DEFINE C == Seq(ks \X ks)
             none == <<>>
             last(p) == <<q[p[1] + 1], q[Right(p)[1] + 1]>>
             join(p, x, y) == x \o y \o <<last(p)>>
             meet(p, x, y) == IF p[2] > p[1] + 1 THEN join(p, x, y) ELSE none
             base == [j \in 1..n |-> none]
             comb == [x \in Pairs(n) \X C \X C |-> meet(x[1], x[2], x[3])]
             next(f, p) == IF p[2] <= p[1] + 1 THEN none
                           ELSE join(p, f[Left(p)], f[Right(p)])
             f == CHOOSE f : f = [p \in Pairs(n) |-> next(f, p)]
  <1>1. ASSUME NEW p \in Pairs(n), p[2] > p[1] + 1, NEW x \in C, NEW y \in C
        PROVE  join(p, x, y) \in C
    <2>1. p[1] \in 0..n /\ p[2] \in 0..n /\ p[1] + 1 \in 1..n
      BY <1>1 DEF Pairs
    <2>2. Right(p)[1] + 1 \in 1..n
      <3>1. Right(p)[1] \in 0..n /\ Right(p)[2] \in 0..n /\ Right(p)[1] < Right(p)[2]
        BY <1>1, Halved DEF Pairs
      <3> HIDE DEF Right
      <3> QED
        BY <3>1
    <2>3. last(p) \in ks \X ks
      BY <2>1, <2>2
    <2> HIDE DEF last
    <2>4. x \o y \in C /\ <<last(p)>> \in C
      BY <2>3
    <2> QED
      BY <2>4
  <1>2. none \in C
    OBVIOUS
  <1> HIDE DEF C, none, last, join
  <1>3. base \in [1..n -> C]
    BY <1>2
  <1>4. comb \in [Pairs(n) \X C \X C -> C]
    <2>1. \A p \in Pairs(n), x, y \in C : meet(p, x, y) \in C
      BY <1>1, <1>2
    <2> HIDE DEF meet
    <2> QED
      BY <2>1
  <1>5. PICK g : IsHalving(g, n, C, none, base, comb)
    <2> HIDE DEF base, comb
    <2> QED
      BY <1>3, <1>4, <1>2, HalvesDefined
  <1>6. ASSUME NEW p \in Pairs(n)
        PROVE  g[p] = next(g, p)
    <2> p[1] \in 0..n /\ p[2] \in 0..n
      BY DEF Pairs
    <2>1. CASE p[2] <= p[1]
      <3>1. g[p] = none
        <4> HIDE DEF base, comb
        <4> QED
          BY <1>5, <2>1 DEF IsHalving
      <3> QED
        BY <2>1, <3>1
    <2>2. CASE p[2] = p[1] + 1
      <3>1. g[p] = base[p[2]]
        <4>1. ~(p[2] <= p[1])
          BY <2>2
        <4> HIDE DEF base, comb
        <4> QED
          BY <1>5, <2>2, <4>1, Zenon DEF IsHalving
      <3>2. p[2] \in 1..n
        BY <2>2
      <3> QED
        BY <2>2, <3>1, <3>2
    <2>3. CASE p[2] > p[1] + 1
      <3>1. g[Left(p)] \in C /\ g[Right(p)] \in C
        BY <1>5, <2>3, Halved DEF IsHalving
      <3>2. g[p] = comb[<<p, g[Left(p)], g[Right(p)]>>]
        <4> HIDE DEF base, comb
        <4> QED
          BY <1>5, <2>3 DEF IsHalving
      <3>3. g[p] = join(p, g[Left(p)], g[Right(p)])
        BY <2>3, <3>1, <3>2
      <3> QED
        BY <2>3, <3>3
    <2> QED
      BY <2>1, <2>2, <2>3
  <1>7. g = [p \in Pairs(n) |-> next(g, p)]
    <2>1. g = [p \in Pairs(n) |-> g[p]]
      BY <1>5 DEF IsHalving
    <2> HIDE DEF next
    <2> QED
      BY <1>6, <2>1
  <1>8. f = [p \in Pairs(n) |-> next(f, p)]
    <2> HIDE DEF next
    <2> QED
      BY <1>7
  <1>9. \A p \in Pairs(n) : f[p] = next(f, p)
    <2> HIDE DEF next, f
    <2> QED
      BY <1>8
  <1> HIDE DEF f
  <1>10. f[<<0, n>>] \in C
    <2>1. \A p \in Pairs(n) : p[2] <= p[1] + 1 => f[p] \in C
      BY <1>2, <1>9, <1>2 DEF Pairs
    <2>2. \A p \in Pairs(n) :
             p[2] > p[1] + 1 /\ f[Left(p)] \in C /\ f[Right(p)] \in C
                => f[p] \in C
      BY <1>1, <1>9 DEF Pairs
    <2> QED
      BY <2>1, <2>2, HalvesStay
  <1>11. S!Merges(q) = f[<<0, n>>]
    <2>1. Len(q) = n
      OBVIOUS
    <2> QED
      BY <2>1, Zenon DEF S!Merges, f, none, join, last, S!Parts, Pairs, S!Left, S!Right, Left, Right
  <1> QED
    BY <1>10, <1>11 DEF C

(* SetToSeq lists the elements of a finite set.                            *)
LEMMA SetToSeqTyped ==
    ASSUME NEW M, IsFiniteSet(M)
    PROVE  Cardinality(M) \in Nat /\ S!SetToSeq(M) \in [1..Cardinality(M) -> M]
  <1> DEFINE n == Cardinality(M)
  <1>1. n \in Nat /\ ExistsBijection(1..n, M)
    BY FS_CardinalityType
  <1>2. PICK f \in Bijection(1..n, M) : TRUE
    BY <1>1 DEF ExistsBijection
  <1>3. f \in [1..n -> M] /\ S!IsInjective(f)
    BY <1>1, <1>2 DEF Bijection, Injection, IsInjective, S!IsInjective
  <1> HIDE DEF n
  <1>4. S!SetToSeq(M) = CHOOSE g \in [1..n -> M] : S!IsInjective(g)
    BY Zenon DEF S!SetToSeq, S!Cardinality, Cardinality, n
  <1>5. S!SetToSeq(M) \in [1..n -> M]
    BY <1>3, <1>4
  <1> QED
    BY <1>1, <1>5 DEF n

(* Adding one object to another is an addition.                            *)
LEMMA AddObjectTyped ==
    ASSUME Inv, NEW ks, ks \subseteq Key, NEW k \in ks, NEW other \in ks,
           NEW vals \in Additions(ks)
    PROVE  S!AddObject(vals, k, other) \in Additions(ks)
  <1> DEFINE q == S!SetToSeq(vals[other].val.members)
             sum == S!Add(vals[k].val, q)
             new == S!SetOf(sum)
             after == [j \in Key |-> IF j \in shared[k] THEN new ELSE vals[j]]
  <1>1. sum \in Members
    <2>1. vals[k].val \in Members /\ vals[other].val \in Members
      BY DEF Additions
    <2> DEFINE M == vals[other].val.members
    <2>2. IsFiniteSet(M) /\ M \subseteq Element
      BY <2>1, MembersOf
    <2>3. Cardinality(M) \in Nat /\ S!SetToSeq(M) \in [1..Cardinality(M) -> M]
      BY <2>2, SetToSeqTyped
    <2>4. q = S!SetToSeq(M)
      OBVIOUS
    <2> HIDE DEF M, q
    <2>5. q \in [1..Cardinality(M) -> Element]
      BY <2>2, <2>3, <2>4
    <2> QED
      BY <2>1, <2>3, <2>5, SetOperators
  <1>2. S!AddObject(vals, k, other) = after
    BY Zenon DEF S!AddObject
  <1> HIDE DEF q, sum
  <1>3. new.val \in Members /\ new \in {S!SetOf(s) : s \in Members}
    BY <1>1 DEF S!SetOf
  <1> HIDE DEF new
  <1> k \in Key /\ other \in Key /\ shared[k] \subseteq Key
    BY DEF Inv
  <1>4. /\ vals \in [Key -> {store[j] : j \in Key} \cup {S!SetOf(s) : s \in Members}]
        /\ \A j \in Key : vals[j] # store[j] => j \in Holders(ks)
        /\ \A j \in Key : vals[j] # store[j] => \E s \in Members : vals[j] = S!SetOf(s)
        /\ \A j \in ks : vals[j].val \in Members
        /\ \A j \in Key : \A i \in shared[j] : vals[i] = vals[j]
    BY DEF Additions
  <1>5. after \in [Key -> {store[j] : j \in Key} \cup {S!SetOf(s) : s \in Members}]
    BY <1>3, <1>4
  <1>6. \A j \in Key : after[j] # store[j] => j \in Holders(ks)
    BY <1>4 DEF Holders
  <1>7. \A j \in Key : after[j] # store[j] => \E s \in Members : after[j] = S!SetOf(s)
    BY <1>3, <1>4
  <1>8. \A j \in ks : after[j].val \in Members
    BY <1>3, <1>4
  <1>9. \A j \in Key : \A i \in shared[j] : after[i] = after[j]
    <2> SUFFICES ASSUME NEW j \in Key, NEW i \in shared[j] PROVE after[i] = after[j]
      OBVIOUS
    <2>1. i \in Key /\ (i \in shared[k] <=> j \in shared[k])
      BY DEF Inv
    <2> QED
      BY <1>4, <2>1
  <1> HIDE DEF after
  <1> QED
    BY <1>2, <1>5, <1>6, <1>7, <1>8, <1>9 DEF Additions

(* So is no addition at all.                                               *)
LEMMA Unchanged ==
    ASSUME Inv, NEW ks, ks \subseteq Key, \A k \in ks : S!Holds(k, "set")
    PROVE  store \in Additions(ks)
  <1>1. \A k \in ks : store[k].val \in Members
    BY SHeld DEF S!Holds
  <1>2. store \in [Key -> {store[k] : k \in Key} \cup {S!SetOf(s) : s \in Members}]
    BY DEF Inv
  <1> QED
    BY <1>1, <1>2 DEF Additions, Inv

(* A union in place only adds to sets that it was asked to unite.          *)
LEMMA SetUnionTyped ==
    ASSUME Inv, NEW ks, ks \subseteq Key, \A k \in ks : S!Holds(k, "set"),
           NEW n \in Nat, NEW q \in [1..n -> ks]
    PROVE  S!Union(q) \in Additions(ks)
  <1> DEFINE A == Additions(ks)
             ms == S!Merges(q)
             m == Len(ms)
             step == [x \in (1..m) \X A |-> S!AddObject(x[2], ms[x[1]][1], ms[x[1]][2])]
             next(f, i) == IF i = 0 THEN store
                           ELSE S!AddObject(f[i - 1], ms[i][1], ms[i][2])
             f == CHOOSE f : f = [i \in 0..m |-> next(f, i)]
  <1>1. ms \in Seq(ks \X ks)
    BY MergesTyped
  <1> HIDE DEF ms
  <1>2. m \in Nat /\ \A i \in 1..m : ms[i][1] \in ks /\ ms[i][2] \in ks
    BY <1>1
  <1>3. store \in A
    BY Unchanged
  <1> HIDE DEF A, m
  <1>4. ASSUME NEW vals \in A, NEW i \in 1..m
        PROVE  S!AddObject(vals, ms[i][1], ms[i][2]) \in A
    BY <1>2, AddObjectTyped DEF A
  <1>5. step \in [(1..m) \X A -> A]
    BY <1>4
  <1>6. PICK g : IsRun(g, m, A, store, step)
    <2> HIDE DEF step
    <2> QED
      BY <1>2, <1>3, <1>5, StepsDefined
  <1>7. g = [i \in 0..m |-> next(g, i)]
    <2>1. \A i \in 1..m : step[<<i, g[i - 1]>>] = S!AddObject(g[i - 1], ms[i][1], ms[i][2])
      BY <1>2, <1>6 DEF IsRun
    <2> HIDE DEF step
    <2>2. g = [i \in 0..m |-> g[i]]
      BY <1>6 DEF IsRun
    <2>3. ASSUME NEW i \in 0..m
          PROVE  g[i] = next(g, i)
      <3>1. CASE i = 0
        BY <1>6, <3>1 DEF IsRun
      <3>2. CASE i \in 1..m
        BY <1>6, <2>1, <3>2 DEF IsRun
      <3> QED
        BY <1>2, <3>1, <3>2
    <2> HIDE DEF next
    <2> QED
      BY <2>2, <2>3
  <1>8. f = [i \in 0..m |-> next(f, i)]
    <2> HIDE DEF next
    <2> QED
      BY <1>7
  <1>9. \A i \in 0..m : f[i] = next(f, i)
    <2> HIDE DEF next, f
    <2> QED
      BY <1>8
  <1> HIDE DEF f
  <1>10. f[0] \in A /\ \A i \in 1..m : f[i - 1] \in A => f[i] \in A
    BY <1>2, <1>3, <1>4, <1>9
  <1>11. f[m] \in A
    BY <1>2, <1>10, StepsStay
  <1>12. S!Union(q) = f[m]
    BY Zenon DEF S!Union, f, m, ms
  <1> QED
    BY <1>11, <1>12 DEF A

(* SUNION and SUNIONSTORE are sound: SUNION, which declares no key as      *)
(* written, changes the objects of keys that it reads.                     *)
LEMMA SetUnions ==
    ASSUME Inv, family = "set", NEW n \in Nat \ {0}, NEW keys \in [1..n -> Key],
           NEW d \in Key
    PROVE  /\ S!handleSUNION(keys) => Sound
           /\ S!handleSUNIONSTORE(d, keys) => Sound
  <1> DEFINE ks == S!Range(keys)
  <1>1. ks \subseteq Key
    BY DEF S!Range
  <1>2. ASSUME \A k \in ks : S!Holds(k, "set"), NEW q \in S!SetToSeqs(ks)
        PROVE  S!Union(q) \in Additions(ks) /\ q[1] \in ks
    <2> DEFINE m == Cardinality(ks)
    <2>1. /\ m \in Nat /\ m # 0 /\ q \in [1..m -> ks]
      BY OrderedKeys
    <2> HIDE DEF m, ks
    <2>2. S!Union(q) \in Additions(ks)
      BY <1>1, <1>2, <2>1, SetUnionTyped
    <2> QED
      BY <2>1, <2>2
  <1>3. S!handleSUNION(keys) => Sound
    <2> SUFFICES ASSUME S!handleSUNION(keys) PROVE Sound
      OBVIOUS
    <2> DEFINE c == S!ManySets("sunion", keys)
    <2>1. Fine(c) /\ c.read = ks /\ c.write = {} /\ c.cmd = "sunion"
      BY <1>1 DEF S!ManySets, S!Declared, Fine
    <2> HIDE DEF c, ks
    <2>2. \A r : (S!Answer(c, r) => Sound) /\ (S!Fail(c, r) => Sound)
      BY <2>1, SReplying
    <2>3. ASSUME NEW vals \in Additions(ks), NEW r, store' = vals, UNCHANGED shared,
                 S!Return(c, S!Ok(r))
          PROVE  Sound
      <3>1. /\ call'.read = c.read /\ call'.write = c.write /\ call'.cmd = c.cmd
            /\ call'.answer[1] = "ok" /\ family' = family
        BY <2>3 DEF S!Return, S!Ok
      <3>2. \A v : Good(v) => Good(v)'
        BY <3>1, GoodStays
      <3>3. (\A k \in Key : store[k] # Absent => Good(store[k]))'
        BY <2>3, <3>2, SGood DEF Additions, Inv
      <3>4. /\ vals = [k \in Key |-> vals[k]]
            /\ \A k \in Key : \A j \in shared[k] : vals[j] = vals[k]
            /\ \A k \in Key : vals[k] # store[k] => k \in Holders(ks)
        BY DEF Additions
      <3>5. Inv'
        BY <2>1, <2>3, <3>1, <3>3, <3>4 DEF Inv, Fine
      <3>6. Changed \subseteq Holders(c.read)
        BY <2>1, <2>3, <3>4 DEF Changed
      <3> QED
        BY <2>1, <3>1, <3>5, <3>6 DEF Sound, Unsynced, Undone, Confined, IsError
    <2> QED
      BY <1>2, <2>2, <2>3 DEF S!handleSUNION, S!UniteKeys, c, ks
  <1>4. S!handleSUNIONSTORE(d, keys) => Sound
    <2> SUFFICES ASSUME S!handleSUNIONSTORE(d, keys) PROVE Sound
      OBVIOUS
    <2> DEFINE c == S!StoreSets("sunionstore", d, keys)
    <2>1. Fine(c) /\ c.read = ks /\ d \in c.write /\ c.cmd = "sunionstore"
      BY <1>1 DEF S!StoreSets, S!Declared, Fine
    <2> HIDE DEF c, ks
    <2>2. \A r : (S!Answer(c, r) => Sound) /\ (S!Fail(c, r) => Sound)
      BY <2>1, SReplying
    <2>3. \A vals \in Additions(ks), own \in ks : S!SaveObject(c, d, vals, own) => Sound
      BY <2>1, SavingObject
    <2> QED
      BY <1>2, <2>2, <2>3 DEF S!handleSUNIONSTORE, S!UniteKeys, c, ks
  <1> QED
    BY <1>3, <1>4

(* Every command of the set module is sound.                               *)
LEMMA SetSteps ==
    ASSUME Inputs, Inv, SetStep
    PROVE  Sound
  <1> DEFINE K == KeysOf["set"]
  <1>1. K \subseteq Key
    BY DEF Inputs, Family
  <1>2. \A keys \in Upto3(K) : \E n \in Nat \ {0} : keys \in [1..n -> Key]
    BY <1>1, Words
  <1>3. \A es \in Upto2(Element) : \E n \in Nat \ {0} : es \in [1..n -> Element]
    BY Words
  <1>4. family = "set"
    BY DEF SetStep
  <1>5. ASSUME NEW k \in K, NEW es \in Upto2(Element)
        PROVE  /\ S!handleSADD(k, es) => Sound
               /\ S!handleSREM(k, es) => Sound
               /\ S!handleSMISMEMBER(k, es) => Sound
    <2>1. PICK n \in Nat \ {0} : es \in [1..n -> Element]
      BY <1>3
    <2> k \in Key /\ n \in Nat
      BY <1>1
    <2> QED
      BY <1>4, <2>1, SetChanges, SetReads
  <1>6. ASSUME NEW k \in K, NEW a
        PROVE  /\ S!handleSCARD(k) => Sound
               /\ S!handleSMEMBERS(k) => Sound
               /\ S!handleSISMEMBER(k, a) => Sound
               /\ S!handleSRANDMEMBER(k, a) => Sound
    BY <1>1, SetReads
  <1>7. ASSUME NEW keys \in Upto3(K), NEW limit
        PROVE  /\ S!handleSINTER(keys) => Sound
               /\ S!handleSINTERCARD(keys, limit) => Sound
    <2>1. PICK n \in Nat \ {0} : keys \in [1..n -> Key]
      BY <1>2
    <2> QED
      BY <2>1, SetIntersectionReads
  <1>8. ASSUME NEW keys \in Upto3(K), NEW d \in Key
        PROVE  /\ S!handleSDIFF(keys) => Sound
               /\ S!handleSUNION(keys) => Sound
               /\ S!handleSDIFFSTORE(d, keys) => Sound
               /\ S!handleSINTERSTORE(d, keys) => Sound
               /\ S!handleSUNIONSTORE(d, keys) => Sound
    <2>1. PICK n \in Nat \ {0} : keys \in [1..n -> Key]
      BY <1>2
    <2> QED
      BY <1>4, <2>1, SetDifferences, SetUnions, SetIntersections
  <1>9. ASSUME NEW k \in K, NEW many
        PROVE  S!handleSPOP(k, many) => Sound
    <2> k \in Key /\ 0 \in Nat /\ <<>> \in [1..0 -> Element]
      BY <1>1
    <2> QED
      BY <1>4, SetChanges
  <1>10. ASSUME NEW k \in K, NEW d \in K, NEW e \in Element
         PROVE  S!handleSMOVE(k, d, e) => Sound
    BY <1>1, <1>4, SetMoves
  <1>11. ASSUME NEW keys \in Upto3(K)
         PROVE  K # {} /\ \E d \in K : d \in Key
    <2>1. PICK n \in 1..3 : keys \in [1..n -> K]
      BY DEF Upto3
    <2> QED
      BY <1>1, <2>1
  <1> HIDE DEF K
  <1>12. \/ \E k \in K, es \in Upto2(Element) :
               S!handleSADD(k, es) \/ S!handleSREM(k, es) \/ S!handleSMISMEMBER(k, es)
         \/ \E k \in K : S!handleSCARD(k) \/ S!handleSMEMBERS(k)
         \/ \E k \in K, e \in Element : S!handleSISMEMBER(k, e)
         \/ \E keys \in Upto3(K) :
               S!handleSDIFF(keys) \/ S!handleSINTER(keys) \/ S!handleSUNION(keys)
         \/ \E keys \in Upto3(K), n \in Count : S!handleSINTERCARD(keys, n)
         \/ \E d \in K, keys \in Upto3(K) :
               \/ S!handleSDIFFSTORE(d, keys)
               \/ S!handleSINTERSTORE(d, keys)
               \/ S!handleSUNIONSTORE(d, keys)
         \/ \E k, d \in K, e \in Element : S!handleSMOVE(k, d, e)
         \/ \E k \in K, n \in Count : S!handleSPOP(k, n) \/ S!handleSRANDMEMBER(k, n)
    BY Zenon DEF SetStep, K
  <1>13. \A keys \in Upto3(K) : (S!handleSDIFF(keys) => Sound) /\ (S!handleSUNION(keys) => Sound)
    BY <1>8, <1>11
  <1>14. \A d \in K : d \in Key
    BY <1>1
  <1> QED
    BY <1>5, <1>6, <1>7, <1>8, <1>9, <1>10, <1>12, <1>13, <1>14, Zenon

-----------------------------------------------------------------------------
(* The hash commands.                                                      *)

(* The handlers of the hash module answer and fail like any other, ...     *)
LEMMA HReplying ==
    ASSUME Inv, NEW c, Fine(c), NEW r
    PROVE  (H!Answer(c, r) => Sound) /\ (H!Fail(c, r) => Sound)
  BY Replying DEF H!Answer, H!Fail, H!Return, H!Ok, H!Error, Return

(* ... save hashes, ...                                                    *)
LEMMA HSaving ==
    ASSUME Inv, NEW c, Fine(c), c.cmd \in H!HashSync, NEW k \in c.write, family = "hash",
           NEW h, DOMAIN h \subseteq Field, NEW r, H!SaveAt(c, k, H!HashOf(h), r)
    PROVE  Sound
  <1>1. Good(H!HashOf(h))
    BY DEF Good, WellFormed, H!HashOf
  <1>2. SaveAt(c, k, H!HashOf(h), r)
    BY DEF H!SaveAt, H!Save, H!Fail, H!Return, H!Ok, H!Error, SaveAt, Save, Fail, Return,
           Ok, Error
  <1>3. c.cmd \in Synced
    BY DEF Synced
  <1> QED
    BY <1>1, <1>2, <1>3, SavingAt

(* ... and change them in place before they save them.                     *)
LEMMA HChanging ==
    ASSUME Inv, NEW c, Fine(c), c.cmd \in H!HashSync \cap ChangeFirst, NEW k \in c.write,
           family = "hash", NEW h, DOMAIN h \subseteq Field,
           NEW r, H!ChangeThenSave(c, k, H!HashOf(h), r)
    PROVE  Sound
  <1>1. Good(H!HashOf(h))
    BY DEF Good, WellFormed, H!HashOf
  <1>2. /\ InPlace(k, H!HashOf(h))
        /\ Return(c, Ok(r)) \/ Return(c, Error("full"))
    BY DEF H!ChangeThenSave, H!InPlace, H!Return, H!Ok, H!Error, InPlace, Return, Ok, Error
  <1>3. c.cmd \in Synced /\ Ok(r)[1] = "ok"
    BY DEF Synced, Ok
  <1> QED
    BY <1>1, <1>2, <1>3, Changing

(* A handler with one key declares that key, as written if it is marked    *)
(* Sync.                                                                   *)
LEMMA HOne ==
    ASSUME NEW k \in Key, NEW cmd
    PROVE  /\ Fine(H!OneHash(cmd, k)) /\ H!OneHash(cmd, k).cmd = cmd
           /\ cmd \in H!HashSync => k \in H!OneHash(cmd, k).write
  BY DEF H!OneHash, H!HashKeyFuncs, H!Declared, Fine, H!HashSync

(* What a key of hash type holds has fields.                               *)
LEMMA HHeld ==
    ASSUME Inv, NEW k \in Key, store[k] # Absent, store[k].is = "hash"
    PROVE  DOMAIN store[k].val \subseteq Field
  BY DEF Inv, Good, WellFormed

(* The commands that read a hash change nothing.                           *)
LEMMA HashReads ==
    ASSUME Inv, NEW k \in Key, NEW a
    PROVE  /\ H!handleHGET(k, a) => Sound
           /\ H!handleHMGET(k, a) => Sound
           /\ H!handleHSTRLEN(k, a) => Sound
           /\ H!handleHVALS(k) => Sound
           /\ H!handleHRANDFIELD(k, a) => Sound
           /\ H!handleHLEN(k) => Sound
           /\ H!handleHKEYS(k) => Sound
           /\ H!handleHGETALL(k) => Sound
           /\ H!handleHEXISTS(k, a) => Sound
  <1>1. H!handleHGET(k, a) => Sound
    <2> DEFINE c == H!OneHash("hget", k)
    <2>1. Fine(c)
      BY HOne
    <2> HIDE DEF c
    <2>2. \A r : (H!Answer(c, r) => Sound) /\ (H!Fail(c, r) => Sound)
      BY <2>1, HReplying
    <2> QED
      BY <2>2 DEF H!handleHGET, H!OnValue, H!Holds, c
  <1>2. H!handleHMGET(k, a) => Sound
    <2> DEFINE c == H!OneHash("hmget", k)
    <2>1. Fine(c)
      BY HOne
    <2> HIDE DEF c
    <2>2. \A r : (H!Answer(c, r) => Sound) /\ (H!Fail(c, r) => Sound)
      BY <2>1, HReplying
    <2> QED
      BY <2>2 DEF H!handleHMGET, H!OnValue, H!Holds, c
  <1>3. H!handleHSTRLEN(k, a) => Sound
    <2> DEFINE c == H!OneHash("hstrlen", k)
    <2>1. Fine(c)
      BY HOne
    <2> HIDE DEF c
    <2>2. \A r : (H!Answer(c, r) => Sound) /\ (H!Fail(c, r) => Sound)
      BY <2>1, HReplying
    <2> QED
      BY <2>2 DEF H!handleHSTRLEN, H!OnValue, H!Holds, c
  <1>4. H!handleHVALS(k) => Sound
    <2> DEFINE c == H!OneHash("hvals", k)
    <2>1. Fine(c)
      BY HOne
    <2> HIDE DEF c
    <2>2. \A r : (H!Answer(c, r) => Sound) /\ (H!Fail(c, r) => Sound)
      BY <2>1, HReplying
    <2> QED
      BY <2>2 DEF H!handleHVALS, H!OnValue, H!Holds, c
  <1>5. H!handleHRANDFIELD(k, a) => Sound
    <2> DEFINE c == H!OneHash("hrandfield", k)
    <2>1. Fine(c)
      BY HOne
    <2> HIDE DEF c
    <2>2. \A r : (H!Answer(c, r) => Sound) /\ (H!Fail(c, r) => Sound)
      BY <2>1, HReplying
    <2> QED
      BY <2>2 DEF H!handleHRANDFIELD, H!OnValue, H!Holds, c
  <1>6. H!handleHLEN(k) => Sound
    <2> DEFINE c == H!OneHash("hlen", k)
    <2>1. Fine(c)
      BY HOne
    <2> HIDE DEF c
    <2>2. \A r : (H!Answer(c, r) => Sound) /\ (H!Fail(c, r) => Sound)
      BY <2>1, HReplying
    <2> QED
      BY <2>2 DEF H!handleHLEN, H!OnValue, H!Holds, c
  <1>7. H!handleHKEYS(k) => Sound
    <2> DEFINE c == H!OneHash("hkeys", k)
    <2>1. Fine(c)
      BY HOne
    <2> HIDE DEF c
    <2>2. \A r : (H!Answer(c, r) => Sound) /\ (H!Fail(c, r) => Sound)
      BY <2>1, HReplying
    <2> QED
      BY <2>2 DEF H!handleHKEYS, H!OnValue, H!Holds, c
  <1>8. H!handleHGETALL(k) => Sound
    <2> DEFINE c == H!OneHash("hgetall", k)
    <2>1. Fine(c)
      BY HOne
    <2> HIDE DEF c
    <2>2. \A r : (H!Answer(c, r) => Sound) /\ (H!Fail(c, r) => Sound)
      BY <2>1, HReplying
    <2> QED
      BY <2>2 DEF H!handleHGETALL, H!OnValue, H!Holds, c
  <1>9. H!handleHEXISTS(k, a) => Sound
    <2> DEFINE c == H!OneHash("hexists", k)
    <2>1. Fine(c)
      BY HOne
    <2> HIDE DEF c
    <2>2. \A r : (H!Answer(c, r) => Sound) /\ (H!Fail(c, r) => Sound)
      BY <2>1, HReplying
    <2> QED
      BY <2>2 DEF H!handleHEXISTS, H!OnValue, H!Holds, c
  <1> QED
    BY <1>1, <1>2, <1>3, <1>4, <1>5, <1>6, <1>7, <1>8, <1>9

(* HSET, HSETNX, HINCRBY, HINCRBYFLOAT and HDEL are sound.                 *)
LEMMA HashChanges ==
    ASSUME Inv, family = "hash", NEW k \in Key
    PROVE  /\ \A cmd \in {"hset", "hsetnx"}, fs \in SUBSET Field :
                 \A entries \in [fs -> Scalar] : H!handleHSET(cmd, k, entries) => Sound
           /\ \A cmd \in {"hincrby", "hincrbyfloat"}, f \in Field : \A n :
                 H!handleHINCRBY(cmd, k, f, n) => Sound
           /\ \A fields : H!handleHDEL(k, fields) => Sound
  <1>1. H!Holds(k, "hash") => DOMAIN store[k].val \subseteq Field
    BY HHeld DEF H!Holds
  <1>2. ASSUME NEW cmd \in {"hset", "hsetnx"}, NEW fs \in SUBSET Field,
               NEW entries \in [fs -> Scalar], H!handleHSET(cmd, k, entries)
        PROVE  Sound
    <2> DEFINE c == H!OneHash(cmd, k)
               old == store[k].val
    <2>1. Fine(c) /\ k \in c.write /\ c.cmd \in H!HashSync
      BY HOne DEF H!HashSync
    <2> HIDE DEF c
    <2>2. \A h, r : DOMAIN h \subseteq Field /\ H!SaveAt(c, k, H!HashOf(h), r) => Sound
      BY <2>1, HSaving
    <2>3. CASE ~H!Holds(k, "hash")
      <3>1. H!SaveAt(c, k, H!HashOf(entries), H!Cardinality(DOMAIN entries))
        BY <1>2, <2>3 DEF H!handleHSET, c
      <3> QED
        BY <2>2, <3>1
    <2>4. CASE H!Holds(k, "hash")
      <3> DEFINE all == IF cmd = "hsetnx" THEN H!Merge(old, entries)
                        ELSE H!Merge(entries, old)
      <3>1. DOMAIN all \subseteq Field
        BY <1>1, <2>4 DEF H!Merge
      <3>2. \E r : H!SaveAt(c, k, H!HashOf(all), r)
        <4> HIDE DEF all
        <4> QED
          BY <1>2, <2>4, Zenon DEF H!handleHSET, c, all
      <3> HIDE DEF all
      <3> QED
        BY <2>2, <3>1, <3>2
    <2> QED
      BY <2>3, <2>4
  <1>3. ASSUME NEW cmd \in {"hincrby", "hincrbyfloat"}, NEW f \in Field, NEW n,
               H!handleHINCRBY(cmd, k, f, n)
        PROVE  Sound
    <2> DEFINE c == H!OneHash(cmd, k)
               one(v) == [x \in {f} |-> v]
               more(v) == H!Merge(one(v), store[k].val)
    <2>1. Fine(c) /\ k \in c.write /\ c.cmd \in H!HashSync \cap ChangeFirst
      BY HOne DEF H!HashSync, ChangeFirst
    <2>2. \A v : DOMAIN one(v) \subseteq Field
      OBVIOUS
    <2>3. \A v : H!Holds(k, "hash") => DOMAIN more(v) \subseteq Field
      BY <1>1 DEF H!Merge
    <2> HIDE DEF c, one, more
    <2>4. \A r : H!Fail(c, r) => Sound
      BY <2>1, HReplying
    <2>5. \A v, r : H!SaveAt(c, k, H!HashOf(one(v)), r) => Sound
      BY <2>1, <2>2, HSaving
    <2>6. \A v, r : H!Holds(k, "hash") /\ H!ChangeThenSave(c, k, H!HashOf(more(v)), r) => Sound
      BY <2>1, <2>3, HChanging
    <2>7. \/ \E r : H!Fail(c, r)
          \/ \E v, r : H!SaveAt(c, k, H!HashOf(one(v)), r)
          \/ \E v, r : H!Holds(k, "hash") /\ H!ChangeThenSave(c, k, H!HashOf(more(v)), r)
      BY <1>3 DEF H!handleHINCRBY, c, one, more
    <2> QED
      BY <2>4, <2>5, <2>6, <2>7
  <1>4. ASSUME NEW fields, H!handleHDEL(k, fields)
        PROVE  Sound
    <2> DEFINE c == H!OneHash("hdel", k)
               less == [f \in DOMAIN store[k].val \ H!Range(fields) |-> store[k].val[f]]
    <2>1. Fine(c) /\ k \in c.write /\ c.cmd \in H!HashSync \cap ChangeFirst
      BY HOne DEF H!HashSync, ChangeFirst
    <2>2. H!Holds(k, "hash") => DOMAIN less \subseteq Field
      BY <1>1
    <2> HIDE DEF c, less
    <2>3. \A r : (H!Answer(c, r) => Sound) /\ (H!Fail(c, r) => Sound)
      BY <2>1, HReplying
    <2>4. \A r : H!Holds(k, "hash") /\ H!ChangeThenSave(c, k, H!HashOf(less), r) => Sound
      BY <2>1, <2>2, HChanging
    <2> QED
      BY <1>4, <2>3, <2>4 DEF H!handleHDEL, H!OnValue, c, less
  <1> QED
    BY <1>2, <1>3, <1>4

(* Every command of the hash module is sound.                              *)
LEMMA HashSteps ==
    ASSUME Inputs, Inv, HashStep
    PROVE  Sound
  <1> DEFINE K == KeysOf["hash"]
  <1>1. K \subseteq Key
    BY DEF Inputs, Family
  <1>2. family = "hash"
    BY DEF HashStep
  <1> HIDE DEF K
  <1>3. PICK k \in K :
          \/ \E cmd \in {"hset", "hsetnx"}, fs \in (SUBSET Field) \ {{}} :
                \E entries \in [fs -> Scalar] : H!handleHSET(cmd, k, entries)
          \/ \E fs \in Upto2(Field) :
                H!handleHGET(k, fs) \/ H!handleHMGET(k, fs) \/ H!handleHSTRLEN(k, fs)
                   \/ H!handleHDEL(k, fs)
          \/ H!handleHVALS(k) \/ H!handleHLEN(k) \/ H!handleHKEYS(k) \/ H!handleHGETALL(k)
          \/ \E n \in Count : H!handleHRANDFIELD(k, n)
          \/ \E f \in Field : H!handleHEXISTS(k, f)
          \/ \E cmd \in {"hincrby", "hincrbyfloat"}, f \in Field, n \in {1, -1} :
                H!handleHINCRBY(cmd, k, f, n)
    BY Zenon DEF HashStep, K
  <1>4. k \in Key
    BY <1>1
  <1> QED
    BY <1>2, <1>3, <1>4, HashReads, HashChanges

-----------------------------------------------------------------------------
(* The string commands.                                                    *)

(* The handlers of the string module answer and fail like any other, ...   *)
LEMMA TReplying ==
    ASSUME Inv, NEW c, Fine(c), NEW r
    PROVE  (T!Answer(c, r) => Sound) /\ (T!Fail(c, r) => Sound)
  BY Replying DEF T!Answer, T!Fail, T!Return, T!Ok, T!Error, Return

(* The texts up to n characters are the sequences of characters that are   *)
(* no longer.                                                              *)
LEMMA TextOf ==
    ASSUME NEW n \in Nat, NEW s
    PROVE  s \in T!Text(n) <=> s \in Seq(Char) /\ Len(s) <= n
  <1>1. ASSUME s \in T!Text(n)
        PROVE  s \in Seq(Char) /\ Len(s) <= n
    <2>1. PICK m \in 0..n : s \in [1..m -> Char]
      BY <1>1 DEF T!Text
    <2> QED
      BY <2>1
  <1>2. ASSUME s \in Seq(Char), Len(s) <= n
        PROVE  s \in T!Text(n)
    <2>1. Len(s) \in 0..n /\ s \in [1..Len(s) -> Char]
      BY <1>2
    <2> QED
      BY <2>1 DEF T!Text
  <1> QED
    BY <1>1, <1>2

(* ... and save strings, or the numbers that AdaptType makes of them.      *)
LEMMA TSaving ==
    ASSUME Inputs, Inv, NEW c, Fine(c), c.cmd \in T!StringSync, NEW k \in c.write,
           family = "string", NEW s \in Seq(Char), Len(s) <= MaxString,
           NEW v \in {T!StringOf(s), T!AdaptType(s)}, NEW r, T!SaveAt(c, k, v, r)
    PROVE  Sound
  <1>1. s \in T!Text(MaxString)
    BY TextOf DEF Inputs
  <1>2. v \in {[is |-> "string", val |-> s], [is |-> "int", val |-> s]}
    BY DEF T!StringOf, T!AdaptType
  <1>3. Good(v)
    BY <1>1, <1>2 DEF Good, WellFormed
  <1>4. SaveAt(c, k, v, r)
    BY DEF T!SaveAt, T!Save, T!Fail, T!Return, T!Ok, T!Error, SaveAt, Save, Fail, Return,
           Ok, Error
  <1>5. c.cmd \in Synced
    BY DEF Synced
  <1> QED
    BY <1>3, <1>4, <1>5, SavingAt

(* A handler with one key declares that key, as written if it is marked    *)
(* Sync.                                                                   *)
LEMMA TOne ==
    ASSUME NEW k \in Key, NEW cmd
    PROVE  /\ Fine(T!OneString(cmd, k)) /\ T!OneString(cmd, k).cmd = cmd
           /\ cmd \in T!StringSync => k \in T!OneString(cmd, k).write
  BY DEF T!OneString, T!StringKeyFuncs, T!Declared, Fine, T!StringSync

(* What a key of string type holds is a string within the bound.           *)
LEMMA THeld ==
    ASSUME Inputs, Inv, NEW k \in Key, store[k] # Absent, store[k].is = "string"
    PROVE  store[k].val \in Seq(Char) /\ Len(store[k].val) <= MaxString
  <1>1. store[k].val \in T!Text(MaxString)
    BY DEF Inv, Good, WellFormed
  <1> QED
    BY <1>1, TextOf DEF Inputs

(* Max of two numbers is the larger.                                       *)
LEMMA Larger ==
    ASSUME NEW a \in Int, NEW b \in Int
    PROVE  T!Max({a, b}) = IF a >= b THEN a ELSE b
  <1>1. \E x \in {a, b} : \A y \in {a, b} : x >= y
    OBVIOUS
  <1> QED
    BY <1>1 DEF T!Max

(* Wherever SETRANGE writes, before the string, in it or past its end,     *)
(* the outcome is a string.                                                *)
LEMMA OverlayTyped ==
    ASSUME NEW s \in Seq(Char), NEW new \in Seq(Char), NEW offset \in Int
    PROVE  T!Overlay(s, offset, new) \in Seq(Char)
  <1>1. CASE offset >= Len(s) \/ offset < 0
    BY <1>1 DEF T!Overlay
  <1>2. CASE ~(offset >= Len(s) \/ offset < 0)
    <2> DEFINE a == Len(s)
               b == offset + Len(new)
               m == IF a >= b THEN a ELSE b
               elem(i) == IF i \in offset + 1..offset + Len(new) THEN new[i - offset] ELSE s[i]
    <2>1. a \in Nat /\ b \in Int /\ m \in Nat /\ offset \in Nat
      BY <1>2
    <2>2. T!Max({a, b}) = m
      BY <2>1, Larger
    <2>3. \A i \in 1..m : elem(i) \in Char
      BY <1>2
    <2>4. T!Overlay(s, offset, new) = [i \in 1..m |-> elem(i)]
      BY <1>2, <2>2 DEF T!Overlay
    <2> HIDE DEF elem, m
    <2> QED
      BY <2>1, <2>3, <2>4
  <1> QED
    BY <1>1, <1>2

(* STRLEN and SUBSTR change nothing.                                       *)
LEMMA StringReads ==
    ASSUME Inv, NEW k \in Key, NEW a, NEW b
    PROVE  /\ T!handleStrLen(k) => Sound
           /\ T!handleSubStr(k, a, b) => Sound
  <1>1. T!handleStrLen(k) => Sound
    <2> DEFINE c == T!OneString("strlen", k)
    <2>1. Fine(c)
      BY TOne
    <2> HIDE DEF c
    <2>2. \A r : (T!Answer(c, r) => Sound) /\ (T!Fail(c, r) => Sound)
      BY <2>1, TReplying
    <2> QED
      BY <2>2 DEF T!handleStrLen, T!OnValue, T!Holds, c
  <1>2. T!handleSubStr(k, a, b) => Sound
    <2> DEFINE c == T!OneString("substr", k)
    <2>1. Fine(c)
      BY TOne
    <2> HIDE DEF c
    <2>2. \A r : (T!Answer(c, r) => Sound) /\ (T!Fail(c, r) => Sound)
      BY <2>1, TReplying
    <2> QED
      BY <2>2 DEF T!handleSubStr, T!OnValue, T!Holds, c
  <1> QED
    BY <1>1, <1>2

(* SETRANGE and APPEND are sound.                                          *)
LEMMA StringChanges ==
    ASSUME Inputs, Inv, family = "string", NEW k \in Key, NEW new \in T!Text(2), NEW offset \in Int
    PROVE  /\ T!handleSetRange(k, offset, new) => Sound
           /\ T!handleAppend(k, new) => Sound
  <1>1. new \in Seq(Char) /\ Len(new) <= 2
    BY TextOf
  <1>2. Len(new) <= MaxString
    BY <1>1 DEF Inputs
  <1>3. T!Holds(k, "string") => store[k].val \in Seq(Char)
    BY THeld DEF T!Holds
  <1>4. T!handleSetRange(k, offset, new) => Sound
    <2> DEFINE c == T!OneString("setrange", k)
               t == T!Overlay(store[k].val, offset, new)
    <2>1. Fine(c) /\ k \in c.write /\ c.cmd \in T!StringSync
      BY TOne DEF T!StringSync
    <2>2. T!Holds(k, "string") => t \in Seq(Char)
      BY <1>1, <1>3, OverlayTyped
    <2> HIDE DEF c, t
    <2>3. \A r : (T!Answer(c, r) => Sound) /\ (T!Fail(c, r) => Sound)
      BY <2>1, TReplying
    <2>4. \A r : t \in Seq(Char) /\ Len(t) <= MaxString /\ T!SaveAt(c, k, T!StringOf(t), r)
                    => Sound
      BY <2>1, TSaving
    <2> QED
      BY <2>2, <2>3, <2>4 DEF T!handleSetRange, T!OnValue, c, t
  <1>5. T!handleAppend(k, new) => Sound
    <2> DEFINE c == T!OneString("append", k)
               t == store[k].val \o new
    <2>1. Fine(c) /\ k \in c.write /\ c.cmd \in T!StringSync
      BY TOne DEF T!StringSync
    <2>2. T!Holds(k, "string") => t \in Seq(Char)
      BY <1>1, <1>3
    <2> HIDE DEF c, t
    <2>3. \A r : T!Fail(c, r) => Sound
      BY <2>1, TReplying
    <2>4. \A s, r : s \in Seq(Char) /\ Len(s) <= MaxString /\ T!SaveAt(c, k, T!AdaptType(s), r)
                    => Sound
      BY <2>1, TSaving
    <2> QED
      BY <1>1, <1>2, <2>2, <2>3, <2>4 DEF T!handleAppend, c, t
  <1> QED
    BY <1>4, <1>5

(* Every command of the string module is sound.                            *)
LEMMA StringSteps ==
    ASSUME Inputs, Inv, StringStep
    PROVE  Sound
  <1> DEFINE K == KeysOf["string"]
             Index == -MaxString - 1..MaxString + 1
  <1>1. K \subseteq Key
    BY DEF Inputs, Family
  <1>2. Index \subseteq Int
    OBVIOUS
  <1>3. family = "string"
    BY DEF StringStep
  <1> HIDE DEF K, Index
  <1>4. PICK k \in K :
          \/ \E i \in Index, s \in T!Text(2) : T!handleSetRange(k, i, s)
          \/ T!handleStrLen(k)
          \/ \E i, j \in Index : T!handleSubStr(k, i, j)
          \/ \E s \in T!Text(2) : T!handleAppend(k, s)
    BY Zenon DEF StringStep, K, Index
  <1>5. k \in Key /\ 0 \in Int
    BY <1>1
  <1> QED
    BY <1>2, <1>3, <1>4, <1>5, StringReads, StringChanges

-----------------------------------------------------------------------------
(* The list commands.                                                      *)

(* The handlers of the list module answer and fail like any other, ...     *)
LEMMA LReplying ==
    ASSUME Inv, NEW c, Fine(c), NEW r
    PROVE  (L!Answer(c, r) => Sound) /\ (L!Fail(c, r) => Sound)
  BY Replying DEF L!Answer, L!Fail, L!Return, L!Ok, L!Error, Return

(* The contents that a list may have.                                      *)
Contents == {l \in Seq(Item) : Len(l) <= MaxLength}

(* ... a list within the bound is a good value for them, ...               *)
LEMMA LGood ==
    ASSUME NEW l \in Contents, family = "list"
    PROVE  Good(L!ListOf(l))
  BY DEF Good, WellFormed, L!ListOf, Contents

(* ... they save lists, ...                                                *)
LEMMA LSaving ==
    ASSUME Inv, NEW c, Fine(c), c.cmd \in L!ListSync, NEW k \in c.write,
           family = "list", NEW l \in Contents, NEW r, L!SaveAt(c, k, L!ListOf(l), r)
    PROVE  Sound
  <1>1. Good(L!ListOf(l))
    BY LGood
  <1>2. SaveAt(c, k, L!ListOf(l), r)
    BY DEF L!SaveAt, L!Save, L!Fail, L!Return, L!Ok, L!Error, SaveAt, Save, Fail, Return,
           Ok, Error
  <1>3. c.cmd \in Synced
    BY DEF Synced
  <1> QED
    BY <1>1, <1>2, <1>3, SavingAt

(* ... and change them in place.                                           *)
LEMMA LChanging ==
    ASSUME Inv, NEW c, Fine(c), c.cmd \in L!ListSync, NEW k \in c.write,
           family = "list", NEW l \in Contents, L!InPlace(k, L!ListOf(l)),
           \/ \E r : L!Return(c, L!Ok(r))
           \/ L!Return(c, L!Error("full")) /\ c.cmd \in ChangeFirst
    PROVE  Sound
  <1>1. Good(L!ListOf(l))
    BY LGood
  <1>2. InPlace(k, L!ListOf(l))
    BY DEF L!InPlace, InPlace
  <1>3. c.cmd \in Synced /\ \A r : Ok(r)[1] = "ok"
    BY DEF Synced, Ok
  <1>4. \/ \E r : Return(c, Ok(r))
        \/ Return(c, Error("full")) /\ c.cmd \in ChangeFirst
    BY DEF L!Return, L!Ok, L!Error, Return, Ok, Error
  <1> QED
    BY <1>1, <1>2, <1>3, <1>4, Changing

(* A handler with one key declares that key, as written if it is marked    *)
(* Sync.                                                                   *)
LEMMA LOne ==
    ASSUME NEW k \in Key, NEW cmd
    PROVE  /\ Fine(L!OneList(cmd, k)) /\ L!OneList(cmd, k).cmd = cmd
           /\ cmd \in L!ListSync \ {"lmove"} => k \in L!OneList(cmd, k).write
  BY DEF L!OneList, L!ListKeyFuncs, L!Declared, Fine, L!ListSync

(* What a key of list type holds is a list within the bound.               *)
LEMMA LHeld ==
    ASSUME Inv, NEW k \in Key, L!Holds(k, "list")
    PROVE  store[k].val \in Contents
  BY DEF L!Holds, Inv, Good, WellFormed, Contents

(* Min of two numbers is the smaller.                                      *)
LEMMA LSmaller ==
    ASSUME NEW a \in Int, NEW b \in Int
    PROVE  L!Min({a, b}) = IF a <= b THEN a ELSE b
  <1>1. \E x \in {a, b} : \A y \in {a, b} : x <= y
    OBVIOUS
  <1> QED
    BY <1>1 DEF L!Min

(* A part of a list is a list.                                             *)
LEMMA Parted ==
    ASSUME Inputs, NEW l \in Contents, NEW a \in Nat \ {0}, NEW b \in Int, b <= Len(l)
    PROVE  SubSeq(l, a, b) \in Contents
  <1>1. l \in Seq(Item) /\ Len(l) <= MaxLength /\ MaxLength \in Nat /\ Len(l) \in Nat
    BY DEF Inputs, Contents
  <1>2. CASE a <= b
    <2>1. SubSeq(l, a, b) \in Seq(Item) /\ Len(SubSeq(l, a, b)) = b - a + 1
      BY <1>1, <1>2
    <2> QED
      BY <1>1, <2>1 DEF Contents
  <1>3. CASE a > b
    <2>1. SubSeq(l, a, b) = <<>>
      BY <1>1, <1>3
    <2> QED
      BY <1>1, <2>1 DEF Contents
  <1> QED
    BY <1>2, <1>3

(* LLEN and LINDEX change nothing, ...                                     *)
LEMMA ListReads ==
    ASSUME Inv, NEW k \in Key, NEW i
    PROVE  /\ L!handleLLen(k) => Sound
           /\ L!handleLIndex(k, i) => Sound
  <1>1. L!handleLLen(k) => Sound
    <2> DEFINE c == L!OneList("llen", k)
    <2>1. Fine(c)
      BY LOne
    <2> HIDE DEF c
    <2>2. \A r : (L!Answer(c, r) => Sound) /\ (L!Fail(c, r) => Sound)
      BY <2>1, LReplying
    <2> QED
      BY <2>2 DEF L!handleLLen, L!OnValue, L!Holds, c
  <1>2. L!handleLIndex(k, i) => Sound
    <2> DEFINE c == L!OneList("lindex", k)
    <2>1. Fine(c)
      BY LOne
    <2> HIDE DEF c
    <2>2. \A r : (L!Answer(c, r) => Sound) /\ (L!Fail(c, r) => Sound)
      BY <2>1, LReplying
    <2> QED
      BY <2>2 DEF L!handleLIndex, L!OnValue, L!Holds, c
  <1> QED
    BY <1>1, <1>2

(* ... nor does LRANGE, whether it answers or panics.                      *)
LEMMA ListRanges ==
    ASSUME Inv, NEW k \in Key, NEW i \in Int, NEW j \in Int
    PROVE  L!handleLRange(k, i, j) => Sound
  <1> DEFINE c == L!OneList("lrange", k)
  <1>1. Fine(c)
    BY LOne
  <1> HIDE DEF c
  <1>2. \A r : (L!Answer(c, r) => Sound) /\ (L!Fail(c, r) => Sound)
    BY <1>1, LReplying
  <1>3. L!Holds(k, "list") => Len(store[k].val) \in Nat
    BY LHeld DEF Contents
  <1> QED
    BY <1>2, <1>3 DEF L!handleLRange, L!OnValue, L!Holds, L!FromEnd, c

(* LSET and LTRIM are sound.                                               *)
LEMMA ListWrites ==
    ASSUME Inputs, Inv, family = "list", NEW k \in Key, NEW i \in Int, NEW j \in Int
    PROVE  /\ \A v \in Item : L!handleLSet(k, i, v) => Sound
           /\ L!handleLTrim(k, i, j) => Sound
  <1>1. L!Holds(k, "list") => /\ store[k].val \in Contents
                             /\ store[k].val \in Seq(Item) /\ Len(store[k].val) \in Nat
    BY LHeld DEF Contents
  <1>2. ASSUME NEW v \in Item
        PROVE  L!handleLSet(k, i, v) => Sound
    <2> DEFINE c == L!OneList("lset", k)
               l == store[k].val
               new(x) == [l EXCEPT ![x] = v]
    <2>1. Fine(c) /\ k \in c.write /\ c.cmd \in L!ListSync \cap ChangeFirst
      BY LOne DEF L!ListSync, ChangeFirst
    <2>2. \A x : L!Holds(k, "list") /\ x \in DOMAIN l => new(x) \in Contents
      <3> SUFFICES ASSUME NEW x, L!Holds(k, "list"), x \in DOMAIN l
                   PROVE  new(x) \in Contents
        OBVIOUS
      <3>1. new(x) \in Seq(Item) /\ Len(new(x)) = Len(l)
        BY <1>1
      <3> QED
        BY <1>1, <3>1 DEF Contents
    <2> HIDE DEF c, new
    <2>3. \A r : (L!Answer(c, r) => Sound) /\ (L!Fail(c, r) => Sound)
      BY <2>1, LReplying
    <2>4. \A w \in Contents : \A r : L!ChangeThenSave(c, k, L!ListOf(w), r) => Sound
      BY <2>1, LChanging DEF L!ChangeThenSave
    <2> QED
      BY <2>2, <2>3, <2>4 DEF L!handleLSet, L!OnValue, c, new
  <1>3. L!handleLTrim(k, i, j) => Sound
    <2> SUFFICES ASSUME L!handleLTrim(k, i, j) PROVE Sound
      OBVIOUS
    <2> DEFINE c == L!OneList("ltrim", k)
               l == store[k].val
               s == L!FromEnd(l, i)
               e == L!FromEnd(l, j)
               b == L!Min({e + 1, Len(l)})
    <2>1. Fine(c) /\ k \in c.write /\ c.cmd \in L!ListSync
      BY LOne DEF L!ListSync
    <2> HIDE DEF c, b
    <2>2. \A r : (L!Answer(c, r) => Sound) /\ (L!Fail(c, r) => Sound)
      BY <2>1, LReplying
    <2>3. \A r : L!Delete(c, k, r) => Sound
      <3>1. c.cmd \in Synced
        BY <2>1 DEF Synced
      <3> QED
        BY <2>1, <3>1, Deleting DEF L!Delete, L!Return, L!Ok, Delete, Return, Ok
    <2>4. ASSUME L!Holds(k, "list"), ~(s > e \/ s > Len(l) - 1), ~(s <= e /\ s < 0)
          PROVE  SubSeq(l, s + 1, b) \in Contents
      <3>1. s \in Int /\ e \in Int
        BY <1>1, <2>4 DEF L!FromEnd
      <3> HIDE DEF s, e, l
      <3>2. Len(l) \in Nat
        BY <1>1, <2>4 DEF l
      <3>3. b = IF e + 1 <= Len(l) THEN e + 1 ELSE Len(l)
        BY <3>1, <3>2, LSmaller DEF b
      <3>4. b \in Int /\ b <= Len(l) /\ s + 1 \in Nat \ {0}
        BY <2>4, <3>1, <3>2, <3>3
      <3> QED
        BY <1>1, <2>4, <3>4, Parted DEF l
    <2>5. \A w \in Contents : \A r : L!SaveAt(c, k, L!ListOf(w), r) => Sound
      BY <2>1, LSaving
    <2>6. \/ \E r : L!Answer(c, r) \/ L!Fail(c, r)
          \/ \E r : L!Delete(c, k, r)
          \/ /\ L!Holds(k, "list") /\ ~(s > e \/ s > Len(l) - 1) /\ ~(s <= e /\ s < 0)
             /\ \E r : L!SaveAt(c, k, L!ListOf(SubSeq(l, s + 1, b)), r)
      <3> HIDE DEF s, e
      <3> QED
        BY DEF L!handleLTrim, L!OnValue, c, l, s, e, b
    <2> HIDE DEF s, e, l
    <2> QED
      BY <2>2, <2>3, <2>4, <2>5, <2>6
  <1> QED
    BY <1>2, <1>3

(* A loop of LREM over the array that it shifts stays within the array,    *)
(* and never counts below zero elements.                                   *)
LEMMA RemovalTyped ==
    ASSUME NEW n \in Nat, NEW l \in [1..n -> Item], NEW from \in Int, NEW step \in Int,
           NEW v, NEW left \in Int
    PROVE  L!LRemLoop(l, from, step, v, left) \in
              [array : [1..n -> Item], length : 0..n, at : Int, left : Int]
  <1> DEFINE A == [array : [1..n -> Item], length : 0..n, at : Int, left : Int]
             start == [array |-> l, length |-> n, at |-> from, left |-> left]
             turn == [x \in (1..n) \X A |-> L!LRemTurn(x[2], step, v)]
             next(f, i) == IF i = 0 THEN start ELSE L!LRemTurn(f[i - 1], step, v)
             f == CHOOSE f : f = [i \in 0..n |-> next(f, i)]
  <1>1. start \in A
    OBVIOUS
  <1>2. ASSUME NEW x \in A
        PROVE  L!LRemTurn(x, step, v) \in A
    <2>1. CASE x.at \notin 1..x.length \/ x.left = 0
      BY <2>1 DEF L!LRemTurn
    <2>2. CASE ~(x.at \notin 1..x.length \/ x.left = 0)
      <3> DEFINE moved == L!MoveDown(x.array, x.at, x.length)
      <3>1. x.array \in [1..n -> Item] /\ x.at \in 1..n /\ x.length \in 1..n /\ x.left \in Int
        BY <2>2
      <3>2. moved \in [1..n -> Item]
        BY <3>1 DEF L!MoveDown
      <3> HIDE DEF moved
      <3>3. CASE x.array[x.at] = v
        <4> DEFINE after == [array |-> moved, length |-> x.length - 1,
                             at |-> x.at + step, left |-> x.left - 1]
        <4>1. L!LRemTurn(x, step, v) = after
          BY <2>2, <3>3 DEF L!LRemTurn, moved
        <4>2. x.length - 1 \in 0..n /\ x.at + step \in Int /\ x.left - 1 \in Int
          BY <3>1
        <4>3. after \in A
          BY <3>2, <4>2
        <4> HIDE DEF A, after
        <4> QED
          BY <4>1, <4>3
      <3>4. CASE x.array[x.at] # v
        <4> DEFINE after == [x EXCEPT !.at = @ + step]
        <4>1. L!LRemTurn(x, step, v) = after
          BY <2>2, <3>4 DEF L!LRemTurn
        <4>2. after = [array |-> x.array, length |-> x.length, at |-> x.at + step,
                       left |-> x.left]
          OBVIOUS
        <4>3. x.array \in [1..n -> Item] /\ x.length \in 0..n /\ x.at + step \in Int
              /\ x.left \in Int
          BY <3>1
        <4>4. after \in A
          BY <4>2, <4>3
        <4> HIDE DEF A, after
        <4> QED
          BY <4>1, <4>4
      <3> QED
        BY <3>3, <3>4
    <2> QED
      BY <2>1, <2>2
  <1> HIDE DEF A, start
  <1>3. turn \in [(1..n) \X A -> A]
    BY <1>2
  <1>4. PICK g : IsRun(g, n, A, start, turn)
    <2> HIDE DEF turn
    <2> QED
      BY <1>1, <1>3, StepsDefined
  <1>5. g = [i \in 0..n |-> next(g, i)]
    <2>1. \A i \in 1..n : turn[<<i, g[i - 1]>>] = L!LRemTurn(g[i - 1], step, v)
      BY <1>4 DEF IsRun
    <2> HIDE DEF turn
    <2>2. g = [i \in 0..n |-> g[i]]
      BY <1>4 DEF IsRun
    <2>3. ASSUME NEW i \in 0..n
          PROVE  g[i] = next(g, i)
      <3>1. CASE i = 0
        BY <1>4, <3>1 DEF IsRun
      <3>2. CASE i \in 1..n
        BY <1>4, <2>1, <3>2 DEF IsRun
      <3> QED
        BY <3>1, <3>2
    <2> HIDE DEF next
    <2> QED
      BY <2>2, <2>3
  <1>6. f = [i \in 0..n |-> next(f, i)]
    <2> HIDE DEF next
    <2> QED
      BY <1>5
  <1>7. \A i \in 0..n : f[i] = next(f, i)
    <2> HIDE DEF next, f
    <2> QED
      BY <1>6
  <1> HIDE DEF f
  <1>8. f[0] \in A /\ \A i \in 1..n : f[i - 1] \in A => f[i] \in A
    BY <1>1, <1>2, <1>7
  <1>9. f[n] \in A
    BY <1>8, StepsStay
  <1>10. L!LRemLoop(l, from, step, v, left) = f[n]
    <2>1. Len(l) = n
      OBVIOUS
    <2> QED
      BY <2>1, Zenon DEF L!LRemLoop, f, start
  <1> QED
    BY <1>9, <1>10 DEF A

(* LREM is sound, also when the memory is full after the array was         *)
(* shifted.                                                                *)
LEMMA ListRemovals ==
    ASSUME Inputs, Inv, family = "list", NEW k \in Key, NEW many \in Int, NEW v
    PROVE  L!handleLRem(k, many, v) => Sound
  <1> DEFINE c == L!OneList("lrem", k)
             l == store[k].val
             r == L!Removal(l, many, v)
  <1>1. Fine(c) /\ k \in c.write /\ c.cmd \in L!ListSync \cap ChangeFirst
    BY LOne DEF L!ListSync, ChangeFirst
  <1> HIDE DEF c
  <1>2. \A x : (L!Answer(c, x) => Sound) /\ (L!Fail(c, x) => Sound)
    BY <1>1, LReplying
  <1>3. ASSUME L!Holds(k, "list")
        PROVE  r.array \in Contents /\ SubSeq(r.array, 1, r.length) \in Contents
    <2> DEFINE n == Len(l)
    <2>1. l \in Contents
      BY <1>3, LHeld
    <2> HIDE DEF l
    <2>2. n \in Nat /\ n <= MaxLength /\ l \in [1..n -> Item]
      BY <2>1 DEF Contents
    <2> DEFINE A == [array : [1..n -> Item], length : 0..n, at : Int, left : Int]
    <2>3. r \in A
      <3>1. \/ r = L!LRemLoop(l, 1, 1, v, n + 1)
            \/ r = L!LRemLoop(l, 1, 1, v, many)
            \/ r = L!LRemLoop(l, n, -1, v, -many)
        BY DEF L!Removal
      <3>2. n + 1 \in Int /\ -many \in Int /\ -1 \in Int /\ n \in Int
        BY <2>2
      <3> HIDE DEF n, r
      <3> QED
        BY <2>2, <3>1, <3>2, RemovalTyped
    <2> HIDE DEF n, r
    <2>4. r.array \in [1..n -> Item] /\ r.length \in 0..n
      BY <2>3
    <2>5. r.array \in Seq(Item) /\ Len(r.array) = n
      BY <2>2, <2>4
    <2>6. r.array \in Contents
      BY <2>2, <2>5 DEF Contents
    <2> QED
      BY <2>2, <2>4, <2>5, <2>6, Parted
  <1> HIDE DEF r
  <1>4. \A w \in Contents : \A x : L!InPlace(k, L!ListOf(w)) /\ L!Return(c, L!Ok(x)) => Sound
    BY <1>1, LChanging
  <1>5. \A w \in Contents : L!InPlace(k, L!ListOf(w)) /\ L!Return(c, L!Error("full")) => Sound
    BY <1>1, LChanging
  <1> QED
    BY <1>2, <1>3, <1>4, <1>5 DEF L!handleLRem, L!OnValue, L!Holds, c, r

(* LMOVE is sound: what it writes into the array of the source before it   *)
(* fails is a list too.                                                    *)
LEMMA ListMoves ==
    ASSUME Inputs, Inv, family = "list", NEW k \in Key, NEW d \in Key, NEW from, NEW to
    PROVE  L!handleLMove(k, d, from, to) => Sound
  <1> SUFFICES ASSUME L!handleLMove(k, d, from, to) PROVE Sound
    OBVIOUS
  <1> DEFINE c == L!lmoveKeyFunc(k, d)
             src == store[k].val
             dst == store[d].val
             put == L!Moved(src, dst, from, to)
             rest == IF from = "left" THEN Tail(src) ELSE L!Front(src)
             over == L!Overwritten(src, dst)
  <1>1. /\ Fine(c) /\ k \in c.write /\ d \in c.write /\ c.write = {k, d}
        /\ c.cmd \in L!ListSync \cap ChangeFirst
    BY DEF L!lmoveKeyFunc, L!Declared, Fine, L!ListSync, ChangeFirst
  <1> HIDE DEF c
  <1>2. \A x : L!Fail(c, x) => Sound
    BY <1>1, LReplying
  <1>3. ASSUME L!Holds(k, "list"), L!Holds(d, "list"), src # <<>>, Len(dst) < MaxLength,
               L!MoveElement(c, k, d, src, dst, from, to)
        PROVE  Sound
    <2>1. /\ src \in Seq(Item) /\ Len(src) \in Nat \ {0} /\ Len(src) <= MaxLength
          /\ dst \in Seq(Item) /\ Len(dst) \in Nat /\ MaxLength \in Nat
      BY <1>3, LHeld DEF Inputs, Contents
    <2>2. put \in Contents
      <3> DEFINE x == IF from = "left" THEN src[1] ELSE src[Len(src)]
      <3>1. x \in Item
        BY <2>1
      <3> HIDE DEF x
      <3>2. /\ <<x>> \o dst \in Seq(Item) /\ Len(<<x>> \o dst) = Len(dst) + 1
            /\ dst \o <<x>> \in Seq(Item) /\ Len(dst \o <<x>>) = Len(dst) + 1
        BY <2>1, <3>1
      <3>3. put \in {<<x>> \o dst, dst \o <<x>>}
        BY DEF L!Moved, x
      <3> HIDE DEF put, dst
      <3>4. Len(dst) + 1 <= MaxLength
        BY <1>3, <2>1
      <3>5. <<x>> \o dst \in Contents /\ dst \o <<x>> \in Contents
        BY <3>2, <3>4 DEF Contents
      <3> QED
        BY <3>3, <3>5
    <2>3. rest \in Contents
      <3>1. Tail(src) \in Seq(Item) /\ Len(Tail(src)) <= MaxLength
        BY <2>1
      <3>2. L!Front(src) \in Contents
        <4>1. src \in Contents /\ Len(src) - 1 \in Int /\ Len(src) - 1 <= Len(src)
          BY <2>1 DEF Contents
        <4> QED
          BY <4>1, Parted DEF L!Front
      <3> QED
        BY <3>1, <3>2 DEF Contents
    <2>4. over \in Contents
      <3> DEFINE n == Len(src)
                 elem(i) == IF i = 1 \/ i > Len(dst) + 1 THEN src[i] ELSE dst[i - 1]
      <3>2. \A i \in 1..n : elem(i) \in Item
        BY <2>1
      <3>3. over = [i \in 1..n |-> elem(i)]
        BY <2>1 DEF L!Overwritten
      <3>4. n \in Nat
        BY <2>1
      <3> HIDE DEF over, elem, n
      <3>5. over \in [1..n -> Item]
        BY <3>2, <3>3
      <3>6. over \in Seq(Item) /\ Len(over) = n
        BY <3>4, <3>5
      <3>1. over \in Seq(Item) /\ Len(over) = Len(src)
        BY <3>6 DEF n
      <3> QED
        BY <2>1, <3>1 DEF Contents
    <2> DEFINE new == [j \in {k, d} |-> IF j = d THEN L!ListOf(put) ELSE L!ListOf(rest)]
    <2>5. \/ L!Save(c, new, "OK")
          \/ L!InPlace(k, L!ListOf(over)) /\ L!Return(c, L!Error("full"))
      <3> HIDE DEF put, over
      <3>1. CASE from = "left"
        BY <1>3, <3>1, Zenon DEF L!MoveElement, put, over
      <3>2. CASE from # "left"
        BY <1>3, <3>2, Zenon DEF L!MoveElement, put, over
      <3> QED
        BY <3>1, <3>2
    <2> HIDE DEF put, rest, over
    <2>6. CASE L!InPlace(k, L!ListOf(over)) /\ L!Return(c, L!Error("full"))
      BY <1>1, <2>4, <2>6, LChanging
    <2>7. CASE L!Save(c, new, "OK")
      <3>1. Good(L!ListOf(put)) /\ Good(L!ListOf(rest))
        BY <2>2, <2>3, LGood
      <3>2. DOMAIN new \subseteq c.write /\ \A j \in DOMAIN new : Good(new[j])
        BY <1>1, <3>1
      <3> HIDE DEF new
      <3>3. Save(c, new, "OK") /\ c.cmd \in Synced
        BY <1>1, <2>7 DEF L!Save, L!Fail, L!Return, L!Ok, L!Error, Save, Fail, Return,
                          Ok, Error, Synced
      <3> QED
        BY <1>1, <3>2, <3>3, Saving
    <2> QED
      BY <2>5, <2>6, <2>7
  <1> HIDE DEF put, rest, over
  <1> QED
    BY <1>2, <1>3 DEF L!handleLMove, c

(* The pushes are sound, also when the empty list of a new key is all      *)
(* that is kept.                                                           *)
LEMMA ListPushes ==
    ASSUME Inputs, Inv, family = "list", NEW k \in Key,
           NEW cmd \in {"lpush", "lpushx", "rpush", "rpushx"},
           NEW items \in Contents, NEW together, L!Push(cmd, k, items, together),
           L!Holds(k, "list") => together \in Seq(Item)
    PROVE  Sound
  <1> DEFINE c == L!OneList(cmd, k)
  <1>1. /\ Fine(c) /\ k \in c.write /\ c.cmd \in L!ListSync /\ c.cmd = cmd
        /\ cmd \in {"lpush", "rpush"} => c.cmd \in ChangeFirst
    BY LOne DEF L!ListSync, ChangeFirst
  <1> HIDE DEF c
  <1>2. \A x : L!Fail(c, x) => Sound
    BY <1>1, LReplying
  <1>3. \A l \in Contents : \A x : L!SaveAt(c, k, L!ListOf(l), x) => Sound
    BY <1>1, LSaving
  <1>4. cmd \in {"lpush", "rpush"} /\ L!InPlace(k, L!ListOf(<<>>)) /\ L!Return(c, L!Error("full"))
           => Sound
    <2>1. <<>> \in Contents
      BY DEF Inputs, Contents
    <2> QED
      BY <1>1, <2>1, LChanging
  <1>5. L!Holds(k, "list") /\ Len(together) <= MaxLength => together \in Contents
    BY DEF Contents
  <1> QED
    BY <1>2, <1>3, <1>4, <1>5 DEF L!Push, c

(* The pops are sound.                                                     *)
LEMMA ListPops ==
    ASSUME Inputs, Inv, family = "list", NEW k \in Key, NEW cmd \in {"lpop", "rpop"},
           NEW many, many # <<>> => many[1] \in Int
    PROVE  L!handlePop(cmd, k, many) => Sound
  <1> SUFFICES ASSUME L!handlePop(cmd, k, many) PROVE Sound
    OBVIOUS
  <1> DEFINE c == L!OneList(cmd, k)
             l == store[k].val
             n == IF many = <<>> THEN 1 ELSE L!Min({L!Abs(many[1]), Len(l)})
  <1>1. Fine(c) /\ k \in c.write /\ c.cmd \in L!ListSync
    BY LOne DEF L!ListSync
  <1> HIDE DEF c, n
  <1>2. \A r : (L!Answer(c, r) => Sound) /\ (L!Fail(c, r) => Sound)
    BY <1>1, LReplying
  <1>3. \A w \in Contents : \A r : L!SaveAt(c, k, L!ListOf(w), r) => Sound
    BY <1>1, LSaving
  <1>4. ASSUME L!Holds(k, "list"), l # <<>>
        PROVE  /\ SubSeq(l, n + 1, Len(l)) \in Contents
               /\ SubSeq(l, 1, Len(l) - n) \in Contents
    <2>1. l \in Contents
      BY <1>4, LHeld
    <2> HIDE DEF l
    <2>2. Len(l) \in Nat
      BY <2>1 DEF Contents
    <2>3. n \in Nat
      <3>1. CASE many = <<>>
        BY <3>1 DEF n
      <3>2. CASE many # <<>>
        <4>1. L!Abs(many[1]) \in Nat
          BY <3>2 DEF L!Abs
        <4>2. L!Min({L!Abs(many[1]), Len(l)}) \in Nat
          BY <2>2, <4>1, LSmaller
        <4> QED
          BY <3>2, <4>2 DEF n
      <3> QED
        BY <3>1, <3>2
    <2>4. n + 1 \in Nat \ {0} /\ Len(l) - n \in Int /\ Len(l) - n <= Len(l)
      BY <2>2, <2>3
    <2> QED
      BY <2>1, <2>2, <2>4, Parted
  <1>5. \/ \E r : L!Answer(c, r) \/ L!Fail(c, r)
        \/ /\ L!Holds(k, "list") /\ l # <<>>
           /\ \E r : \/ L!SaveAt(c, k, L!ListOf(SubSeq(l, n + 1, Len(l))), r)
                    \/ L!SaveAt(c, k, L!ListOf(SubSeq(l, 1, Len(l) - n)), r)
    BY DEF L!handlePop, L!OnValue, c, n
  <1> QED
    BY <1>2, <1>3, <1>4, <1>5

(* Every command of the list module is sound.                              *)
LEMMA ListSteps ==
    ASSUME Inputs, Inv, ListStep
    PROVE  Sound
  <1> DEFINE K == KeysOf["list"]
             Index == -MaxLength - 1..MaxLength + 1
  <1>1. K \subseteq Key
    BY DEF Inputs, Family
  <1>2. Index \subseteq Int /\ Count \subseteq Int
    BY DEF Inputs, Count
  <1>3. family = "list"
    BY DEF ListStep
  <1> HIDE DEF K, Index
  <1>4. PICK k \in K :
       \/ L!handleLLen(k)
       \/ \E i \in Index : L!handleLIndex(k, i)
       \/ \E i, j \in Index : L!handleLRange(k, i, j) \/ L!handleLTrim(k, i, j)
       \/ \E i \in Index, v \in Item : L!handleLSet(k, i, v)
       \/ \E n \in Count, v \in Item : L!handleLRem(k, n, v)
       \/ \E d \in K, from, to \in {"left", "right"} : L!handleLMove(k, d, from, to)
       \/ \E vs \in Upto2(Item) :
             \/ \E cmd \in {"lpush", "lpushx"} : L!handleLPush(cmd, k, vs)
             \/ \E cmd \in {"rpush", "rpushx"} : L!handleRPush(cmd, k, vs)
       \/ \E cmd \in {"lpop", "rpop"}, n \in {<<>>} \cup [1..1 -> Count] :
             L!handlePop(cmd, k, n)
    BY Zenon DEF ListStep, K, Index
  <1>5. k \in Key /\ \A d \in K : d \in Key
    BY <1>1
  <1>6. CASE \/ L!handleLLen(k)
             \/ \E i \in Index : L!handleLIndex(k, i)
             \/ \E i, j \in Index : L!handleLRange(k, i, j)
    BY <1>2, <1>5, <1>6, ListReads, ListRanges
  <1>7. CASE \/ \E i, j \in Index : L!handleLTrim(k, i, j)
             \/ \E i \in Index, v \in Item : L!handleLSet(k, i, v)
    <2>1. 0 \in Int
      OBVIOUS
    <2> QED
      BY <1>2, <1>3, <1>5, <1>7, <2>1, ListWrites
  <1>8. CASE \/ \E n \in Count, v \in Item : L!handleLRem(k, n, v)
             \/ \E d \in K, from, to \in {"left", "right"} : L!handleLMove(k, d, from, to)
    BY <1>2, <1>3, <1>5, <1>8, ListRemovals, ListMoves
  <1>9. CASE \E vs \in Upto2(Item) :
             \/ \E cmd \in {"lpush", "lpushx"} : L!handleLPush(cmd, k, vs)
             \/ \E cmd \in {"rpush", "rpushx"} : L!handleRPush(cmd, k, vs)
    <2>1. PICK vs \in Upto2(Item) :
             \/ \E cmd \in {"lpush", "lpushx"} : L!handleLPush(cmd, k, vs)
             \/ \E cmd \in {"rpush", "rpushx"} : L!handleRPush(cmd, k, vs)
      BY <1>9
    <2>2. vs \in Seq(Item) /\ vs \in Contents
      <3>1. PICK n \in 1..2 : vs \in [1..n -> Item]
        BY DEF Upto2
      <3>2. vs \in Seq(Item) /\ Len(vs) <= 2
        BY <3>1
      <3> QED
        BY <3>2 DEF Inputs, Contents
    <2>3. L!Holds(k, "list") => /\ vs \o L!Current(k) \in Seq(Item)
                               /\ L!Current(k) \o vs \in Seq(Item)
      <3> SUFFICES ASSUME L!Holds(k, "list")
                   PROVE  /\ vs \o L!Current(k) \in Seq(Item)
                          /\ L!Current(k) \o vs \in Seq(Item)
        OBVIOUS
      <3>1. L!Current(k) \in Seq(Item)
        BY <1>5, LHeld DEF L!Current, Contents
      <3> QED
        BY <2>2, <3>1
    <2> QED
      BY <1>3, <1>5, <2>1, <2>2, <2>3, ListPushes DEF L!handleLPush, L!handleRPush
  <1>10. CASE \E cmd \in {"lpop", "rpop"}, n \in {<<>>} \cup [1..1 -> Count] :
             L!handlePop(cmd, k, n)
    <2>1. ASSUME NEW n \in {<<>>} \cup [1..1 -> Count], n # <<>>
          PROVE  n[1] \in Int
      <3>1. n \in [1..1 -> Count] /\ 1 \in 1..1
        BY <2>1
      <3> QED
        BY <1>2, <3>1
    <2> QED
      BY <1>3, <1>5, <1>10, <2>1, ListPops
  <1> QED
    BY <1>4, <1>6, <1>7, <1>8, <1>9, <1>10, Zenon

-----------------------------------------------------------------------------
(* All the commands.                                                       *)

(* DEL, SET of a plain value, and malformed commands are sound.            *)
LEMMA OtherSteps ==
    ASSUME Inv, NEW k \in Key
    PROVE  /\ Del(k) => Sound
           /\ Set(k, Other) => Sound
           /\ \A cmd : Malformed(cmd) => Sound
  <1>1. Del(k) => Sound
    <2> DEFINE c == Declared("del", {}, {k})
    <2>1. Fine(c) /\ k \in c.write /\ c.cmd \in Synced
      BY DEF Declared, Fine, Synced
    <2> HIDE DEF c
    <2> QED
      BY <2>1, Deleting DEF Del, c
  <1>2. Set(k, Other) => Sound
    <2> DEFINE c == Declared("set", {}, {k})
    <2>1. Fine(c) /\ k \in c.write /\ c.cmd \in Synced
      BY DEF Declared, Fine, Synced
    <2> HIDE DEF c
    <2>2. Good(Other)
      BY DEF Good, WellFormed, Other
    <2> QED
      BY <2>1, <2>2, SavingAt DEF Set, c
  <1>3. ASSUME NEW cmd
        PROVE  Malformed(cmd) => Sound
    <2> DEFINE c == Declared(cmd, {}, {})
    <2>1. Fine(c)
      BY DEF Declared, Fine
    <2> HIDE DEF c
    <2> QED
      BY <2>1, Replying DEF Malformed, Fail, Error, c
  <1> QED
    BY <1>1, <1>2, <1>3

(* Every step of the client is sound.                                      *)
LEMMA EveryStep ==
    ASSUME Inputs, Inv, Next
    PROVE  Sound
  <1>1. CASE SortedSetStep
    BY <1>1, SortedSetSteps
  <1>2. CASE SetStep
    BY <1>2, SetSteps
  <1>3. CASE HashStep
    BY <1>3, HashSteps
  <1>4. CASE ListStep
    BY <1>4, ListSteps
  <1>5. CASE StringStep
    BY <1>5, StringSteps
  <1>6. CASE \E k \in KeysOf[family] : Del(k) \/ Set(k, Other) \/ Malformed(family)
    <2>1. KeysOf[family] \subseteq Key
      BY DEF Inputs, Inv
    <2> QED
      BY <1>6, <2>1, OtherSteps
  <1>7. CASE ReadAnswer
    <2>1. call' = NoCall /\ UNCHANGED <<family, store, shared>>
      BY <1>7 DEF ReadAnswer
    <2>2. \A v : Good(v) => Good(v)'
      BY <2>1, GoodStays
    <2>3. Inv'
      BY <2>1, <2>2 DEF Inv
    <2> QED
      BY <2>1, <2>3 DEF Sound, Unsynced, Undone, Confined
  <1> QED
    BY <1>1, <1>2, <1>3, <1>4, <1>5, <1>6, <1>7 DEF Next

(* The invariant holds at first, ...                                       *)
LEMMA InvInitially ==
    ASSUME Init
    PROVE  Inv
  BY DEF Init, DataInit, Inv

(* ... every step keeps it, ...                                            *)
LEMMA InvKept ==
    ASSUME Inputs, Inv, [Next]_vars
    PROVE  Inv'
  <1>1. CASE Next
    BY <1>1, EveryStep DEF Sound
  <1>2. CASE UNCHANGED vars
    BY <1>2 DEF vars, Inv, Good, WellFormed
  <1> QED
    BY <1>1, <1>2

(* ... and it says that the values are consistent.                         *)
LEMMA InvImpliesValuesConsistent ==
    ASSUME Inv
    PROVE  ValuesConsistent
  <1>1. TypeOK
    BY DEF Inv, TypeOK, Good
  <1>2. LengthIsCardinality
    <2> SUFFICES ASSUME NEW k \in Key, Holds(k, "set")
                 PROVE  store[k].val.length = Cardinality(store[k].val.members)
      BY DEF LengthIsCardinality
    <2>1. store[k].val \in Members
      BY SHeld DEF Holds
    <2> QED
      BY <2>1, MembersOf
  <1> QED
    BY <1>1, <1>2 DEF ValuesConsistent

(* The values of all keys are always ones that a key of their type may     *)
(* hold, and keys that share an object agree on it.                        *)
THEOREM InvAlwaysHolds ==
    ASSUME Inputs
    PROVE  Spec => []Inv
  <1>1. Init => Inv
    BY InvInitially
  <1>2. Inv /\ [Next]_vars => Inv'
    BY InvKept
  <1> QED
    BY <1>1, <1>2, PTL DEF Spec

(* Every command leaves well-formed values, and the length that set.go     *)
(* keeps apart from the members of a Set counts them.                      *)
THEOREM ValuesStayConsistent ==
    ASSUME Inputs
    PROVE  Spec => []ValuesConsistent
  <1>1. Inv => ValuesConsistent
    BY InvImpliesValuesConsistent
  <1> QED
    BY <1>1, InvAlwaysHolds, PTL

(* Only commands that are registered with Sync change the store, and only  *)
(* at the keys that their key extraction functions declare; unions in      *)
(* place are the exception that EffectsDeclared names.                     *)
THEOREM EffectsAreDeclared ==
    ASSUME Inputs
    PROVE  Spec => EffectsDeclared
  <1>1. Inv /\ [Next]_vars
           => [call' # NoCall /\ call'.cmd \notin Synced \cup {"sunion"} => UNCHANGED store]_vars
    BY EveryStep DEF Sound, Unsynced
  <1>2. Inv /\ [Next]_vars
           => [call' # NoCall =>
                 Changed \subseteq Holders(call'.write) \cup
                    (IF call'.cmd \in {"sunion", "sunionstore"}
                     THEN Holders(call'.read) ELSE {})]_vars
    BY EveryStep DEF Sound, Confined
  <1> QED
    BY <1>1, <1>2, InvAlwaysHolds, PTL
       DEF Spec, EffectsDeclared, UnsyncedChangeNothing, OnlyDeclaredKeysChange

(* A command that answers with an error has changed nothing, unless it is  *)
(* one of those that change the stored object before SetValues and the     *)
(* memory was full.                                                        *)
THEOREM ErrorsAreUndone ==
    ASSUME Inputs
    PROVE  Spec => ErrorsChangeNothing
  <1>1. Inv /\ [Next]_vars
           => [call' # NoCall /\ IsError(call'.answer) /\ Changed # {}
                 => call'.cmd \in ChangeFirst /\ Reply = "full"]_vars
    BY EveryStep DEF Sound, Undone
  <1> QED
    BY <1>1, InvAlwaysHolds, PTL DEF Spec, ErrorsChangeNothing

-----------------------------------------------------------------------------
(* The gate of handleCommand.                                              *)

(* Counting keeps a function of naturals one.                              *)
LEMMA Counted ==
  ASSUME NEW D, NEW f \in [D -> Nat], NEW x \in D
  PROVE  [f EXCEPT ![x] = @ + 1] \in [D -> Nat]
  OBVIOUS

(* Client and copier steps never meet in the function at.                  *)
THEOREM GateTypeCorrect == GateSpec => []GateTypeOK
  <1>init. GateInit => GateTypeOK
    <2> SUFFICES ASSUME GateInit PROVE GateTypeOK
      OBVIOUS
    <2>flags. stateCopyInProgress \in BOOLEAN /\ stateMutationInProgress \in BOOLEAN
      BY Zenon DEF GateInit
    <2>at. at \in [Client \cup Copier ->
                   {"idle", "gate", "raise", "run", "lower",
                    "load copy", "load mutation", "claim", "copy"}]
      BY DEF GateInit
    <2>kind. kind \in [Client -> {"read", "write"}]
      BY DEF GateInit
    <2>count. count \in [Client \cup Copier -> Nat]
      BY DEF GateInit
    <2>failed. failed \subseteq Client
      BY DEF GateInit
    <2> QED
      BY <2>flags, <2>at, <2>kind, <2>count, <2>failed, Zenon DEF GateTypeOK
  <1>step. GateTypeOK /\ [GateNext]_gateVars => GateTypeOK'
    <2> SUFFICES ASSUME GateTypeOK, [GateNext]_gateVars PROVE GateTypeOK'
      OBVIOUS
    <2> USE StateCopyAssumption DEF GateTypeOK, Goto, flags
    <2>receive. ASSUME NEW c \in Client, NEW k \in Kind, Receive(c, k) PROVE GateTypeOK'
      <3>1. UNCHANGED <<flags, failed>>
        BY <2>receive DEF Receive
      <3>2. at' = [at EXCEPT ![c] = IF k = "write" THEN "gate" ELSE "run"]
        BY <2>receive DEF Receive
      <3>3. count' \in [Client \cup Copier -> Nat]
        <4>1. count \in [Client \cup Copier -> Nat] /\ c \in Client \cup Copier
          OBVIOUS
        <4>2. count' = [count EXCEPT ![c] = @ + 1]
          BY <2>receive DEF Receive
        <4> HIDE DEF GateTypeOK
        <4>3. QED
          BY <4>1, <4>2, Counted
      <3>4. kind' \in [Client -> {"read", "write"}]
        BY <2>receive DEF Receive
      <3>5. QED
        BY <3>1, <3>2, <3>3, <3>4
    <2>command. ASSUME NEW c \in Client, handleCommand(c) PROVE GateTypeOK'
      BY <2>command DEF handleCommand, Gate, Raise, Run, Lower
    <2>copy. ASSUME NEW p \in Copier, getState(p) PROVE GateTypeOK'
      BY <2>copy DEF getState, LoadCopy, LoadMutation, Claim, Finish
    <2>ask. ASSUME NEW p \in Copier, Ask(p) PROVE GateTypeOK'
      <3>1. count' \in [Client \cup Copier -> Nat]
        <4>1. count \in [Client \cup Copier -> Nat] /\ p \in Client \cup Copier
          OBVIOUS
        <4>2. count' = [count EXCEPT ![p] = @ + 1]
          BY <2>ask DEF Ask
        <4> HIDE DEF GateTypeOK
        <4>3. QED
          BY <4>1, <4>2, Counted
      <3>2. QED
        BY <2>ask, <3>1 DEF Ask
    <2>stutter. CASE UNCHANGED gateVars
      BY <2>stutter DEF gateVars
    <2> QED
      BY <2>receive, <2>command, <2>copy, <2>ask, <2>stutter DEF GateNext
  <1> QED
    BY <1>init, <1>step, PTL DEF GateSpec

-----------------------------------------------------------------------------
(* What makes FlagHasOwner inductive: only writes are at the gate.         *)
OwnerInv ==
    /\ FlagHasOwner
    /\ \A c \in Client : at[c] \in {"gate", "raise"} => kind[c] = "write"

(* The mutation flag is up only while some write has still to lower it, or *)
(* after handleCommand returned a write's error, however many clients      *)
(* lower each other's flag.                                                *)
THEOREM FlagIsOwned == GateSpec => []FlagHasOwner
  <1>init. GateInit => OwnerInv
    BY DEF GateInit, OwnerInv, FlagHasOwner
  <1>step. GateTypeOK /\ OwnerInv /\ [GateNext]_gateVars => OwnerInv'
    <2> SUFFICES ASSUME GateTypeOK, OwnerInv, [GateNext]_gateVars PROVE OwnerInv'
      OBVIOUS
    <2> USE StateCopyAssumption DEF GateTypeOK, Goto, flags
    <2>receive. ASSUME NEW c \in Client, NEW k \in Kind, Receive(c, k) PROVE OwnerInv'
      BY <2>receive DEF Receive, OwnerInv, FlagHasOwner
    <2>command. ASSUME NEW c \in Client, handleCommand(c) PROVE OwnerInv'
      <3>1. CASE Gate(c)
        BY <3>1 DEF Gate, OwnerInv, FlagHasOwner
      <3>2. CASE Raise(c)
        BY <3>2 DEF Raise, OwnerInv, FlagHasOwner
      <3>3. CASE Run(c)
        BY <3>3 DEF Run, OwnerInv, FlagHasOwner
      <3>4. CASE Lower(c)
        BY <3>4 DEF Lower, OwnerInv, FlagHasOwner
      <3>5. QED
        BY <2>command, <3>1, <3>2, <3>3, <3>4 DEF handleCommand
    <2>copier. ASSUME NEW p \in Copier, getState(p) \/ Ask(p) PROVE OwnerInv'
      <3>1. \A c \in Client : at'[c] = at[c]
        BY <2>copier DEF getState, LoadCopy, LoadMutation, Claim, Finish, Ask
      <3>2. UNCHANGED <<kind, stateMutationInProgress, failed>>
        BY <2>copier DEF getState, LoadCopy, LoadMutation, Claim, Finish, Ask
      <3>3. QED
        BY <3>1, <3>2 DEF OwnerInv, FlagHasOwner
    <2>stutter. CASE UNCHANGED gateVars
      BY <2>stutter DEF gateVars, OwnerInv, FlagHasOwner
    <2> QED
      BY <2>receive, <2>command, <2>copier, <2>stutter DEF GateNext
  <1>owned. OwnerInv => FlagHasOwner
    BY DEF OwnerInv
  <1> QED
    BY <1>init, <1>step, <1>owned, GateTypeCorrect, PTL DEF GateSpec
=============================================================================
