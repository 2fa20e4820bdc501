--------------------------- MODULE EvictionProofs ---------------------------
(***************************************************************************)
(* Theorems about Eviction, for any policies, databases, keys and bounds.  *)
(***************************************************************************)
EXTENDS Eviction, FiniteSetTheorems, WellFoundedInduction, TLAPS

LEMMA SetInduction ==
    ASSUME NEW S \in SUBSET Nat, 0 \in S, \A n \in Nat : n \in S => n + 1 \in S
    PROVE  S = Nat
  <1> DEFINE R == OpToRel(<, Nat)
             T == Nat \ S
  <1>1. SUFFICES ASSUME T # {} PROVE FALSE
    OBVIOUS
  <1>2. IsWellFoundedOn(R, Nat)
    BY NatLessThanWellFounded
  <1>3. \A x, y \in Nat : <<y, x>> \in R <=> y < x
    BY DEF OpToRel
  <1> HIDE DEF R
  <1>4. PICK x \in T : \A y \in T : ~(<<y, x>> \in R)
    <2>1. T \subseteq Nat
      OBVIOUS
    <2> HIDE DEF T
    <2> QED
      BY <1>1, <1>2, <2>1, WFMin
  <1>5. x # 0 /\ x - 1 \in Nat
    OBVIOUS
  <1>6. x - 1 \in S
    <2>1. x - 1 \in Nat /\ x \in Nat /\ x - 1 < x
      BY <1>5
    <2>2. <<x - 1, x>> \in R
      BY <1>3, <2>1
    <2> QED
      BY <1>4, <2>1, <2>2
  <1> QED
    BY <1>4, <1>5, <1>6

-----------------------------------------------------------------------------
(* The order of the caches: a strict weak order.                           *)

Entry == [key : Key, count : Nat, time : Nat, index : Nat]

Cell(e) == <<e.key, e.count, e.time>>

LEMMA LessAsymmetric ==
    ASSUME NEW a \in Entry, NEW b \in Entry, Less(a, b)
    PROVE  ~Less(b, a)
  <1>1. a.count \in Nat /\ a.time \in Nat /\ b.count \in Nat /\ b.time \in Nat
    BY DEF Entry
  <1>2. QED
    BY <1>1 DEF Less

LEMMA NotLessTransitive ==
    ASSUME NEW a \in Entry, NEW b \in Entry, NEW c \in Entry,
           ~Less(a, b), ~Less(b, c)
    PROVE  ~Less(a, c)
  <1>1. /\ a.count \in Nat /\ a.time \in Nat /\ b.count \in Nat /\ b.time \in Nat
        /\ c.count \in Nat /\ c.time \in Nat
    BY DEF Entry
  <1>2. QED
    BY <1>1 DEF Less

(* Only the contents of the entries count.                                 *)
LEMMA LessOfCells ==
    ASSUME NEW a, NEW b, NEW c, NEW d, Cell(a) = Cell(c), Cell(b) = Cell(d)
    PROVE  Less(a, b) <=> Less(c, d)
  <1>1. a.count = c.count /\ a.time = c.time /\ b.count = d.count /\ b.time = d.time
    BY DEF Cell
  <1>2. QED
    BY <1>1 DEF Less

-----------------------------------------------------------------------------
(* The heap.                                                               *)

LEMMA Halves ==
    ASSUME NEW i \in Nat, i >= 2
    PROVE  /\ H!Parent(i) \in Nat /\ H!Parent(i) >= 1 /\ H!Parent(i) < i
           /\ 2 * H!Parent(i) <= i
           /\ \A a \in Nat : H!Parent(i) = a <=> i = 2 * a \/ i = 2 * a + 1
  BY DEF H!Parent

(* Every entry knows its place.                                            *)
Placed(h) == h \in Seq(Entry) /\ \A i \in 1..Len(h) : h[i].index = i

Content(h) == {Cell(h[i]) : i \in 1..Len(h)}

Distinct(h) == \A i, j \in 1..Len(h) : h[i].key = h[j].key => i = j

(* The same entries, in other places; those after n have not moved.        *)
SameEntries(g, h, n) ==
    /\ Placed(g) /\ Len(g) = Len(h) /\ Content(g) = Content(h)
    /\ Distinct(h) => Distinct(g)
    /\ \A m \in (n + 1)..Len(h) : g[m] = h[m]

LEMMA Swapping ==
    ASSUME NEW h, Placed(h), NEW i \in 1..Len(h), NEW j \in 1..Len(h)
    PROVE  /\ Placed(H!Swap(h, i, j)) /\ Len(H!Swap(h, i, j)) = Len(h)
           /\ Cell(H!Swap(h, i, j)[i]) = Cell(h[j])
           /\ Cell(H!Swap(h, i, j)[j]) = Cell(h[i])
           /\ \A m \in 1..Len(h) : m \notin {i, j} => H!Swap(h, i, j)[m] = h[m]
  <1> DEFINE g == H!Swap(h, i, j)
  <1>1. Len(h) \in Nat /\ h \in [1..Len(h) -> Entry]
    BY DEF Placed
  <1>2. /\ [h[j] EXCEPT !.index = i] \in Entry /\ [h[i] EXCEPT !.index = j] \in Entry
        /\ [h[j] EXCEPT !.index = i].index = i /\ [h[i] EXCEPT !.index = j].index = j
        /\ Cell([h[j] EXCEPT !.index = i]) = Cell(h[j])
        /\ Cell([h[i] EXCEPT !.index = j]) = Cell(h[i])
    BY <1>1 DEF Entry, Cell
  <1>3. /\ g[j] = [h[i] EXCEPT !.index = j]
        /\ i # j => g[i] = [h[j] EXCEPT !.index = i]
        /\ \A m \in 1..Len(h) : m \notin {i, j} => g[m] = h[m]
        /\ DOMAIN g = 1..Len(h)
    BY <1>1 DEF H!Swap
  <1> HIDE DEF g
  <1>4. /\ \A m \in 1..Len(h) : g[m] \in Entry /\ g[m].index = m
        /\ Cell(g[i]) = Cell(h[j]) /\ Cell(g[j]) = Cell(h[i])
    <2>1. g[j] \in Entry /\ g[j].index = j /\ Cell(g[j]) = Cell(h[i])
      BY <1>2, <1>3
    <2>2. g[i] \in Entry /\ g[i].index = i /\ Cell(g[i]) = Cell(h[j])
      <3>1. CASE i = j
        BY <2>1, <3>1
      <3>2. CASE i # j
        BY <1>2, <1>3, <3>2
      <3>3. QED
        BY <3>1, <3>2
    <2>3. ASSUME NEW m \in 1..Len(h), m \notin {i, j}
          PROVE  g[m] \in Entry /\ g[m].index = m
      BY <1>1, <1>3, <2>3 DEF Placed
    <2>4. QED
      BY <2>1, <2>2, <2>3
  <1>5. g \in Seq(Entry) /\ Len(g) = Len(h)
    <2>1. g = [m \in 1..Len(h) |-> g[m]]
      <3>1. H!Swap(h, i, j) = [m \in 1..Len(h) |-> H!Swap(h, i, j)[m]]
        BY <1>1 DEF H!Swap
      <3>2. QED
        BY <3>1 DEF g
    <2>2. QED
      BY <1>1, <1>4, <2>1
  <1>6. QED
    BY <1>3, <1>4, <1>5 DEF Placed, g

LEMMA SwappedContent ==
    ASSUME NEW h, Placed(h), NEW i \in 1..Len(h), NEW j \in 1..Len(h)
    PROVE  /\ Content(H!Swap(h, i, j)) = Content(h)
           /\ Distinct(h) => Distinct(H!Swap(h, i, j))
  <1> DEFINE g == H!Swap(h, i, j)
             other(m) == IF m = i THEN j ELSE IF m = j THEN i ELSE m
  <1>1. /\ Len(g) = Len(h) /\ Len(h) \in Nat
        /\ \A m \in 1..Len(h) : Cell(g[m]) = Cell(h[other(m)])
    <2>1. Len(h) \in Nat
      BY DEF Placed
    <2>2. QED
      BY <2>1, Swapping
  <1>2. \A m \in 1..Len(h) : other(m) \in 1..Len(h) /\ other(other(m)) = m
    OBVIOUS
  <1> HIDE DEF g, other
  <1>3. Content(g) = Content(h)
    <2>1. \A x \in Content(g) : x \in Content(h)
      BY <1>1, <1>2 DEF Content
    <2>2. \A m \in 1..Len(h) : Cell(h[m]) = Cell(g[other(m)])
      BY <1>1, <1>2
    <2>3. \A x \in Content(h) : x \in Content(g)
      BY <1>1, <1>2, <2>2 DEF Content
    <2>4. QED
      BY <2>1, <2>3
  <1>4. ASSUME Distinct(h) PROVE Distinct(g)
    <2>1. \A m \in 1..Len(h) : g[m].key = h[other(m)].key
      BY <1>1 DEF Cell
    <2>2. SUFFICES ASSUME NEW a \in 1..Len(g), NEW b \in 1..Len(g), g[a].key = g[b].key
                   PROVE  a = b
      BY DEF Distinct
    <2>3. other(a) = other(b)
      <3>1. PICK p \in 1..Len(h) : p = other(a)
        BY <1>1, <1>2
      <3>2. PICK q \in 1..Len(h) : q = other(b)
        BY <1>1, <1>2
      <3>3. h[p].key = h[q].key
        BY <1>1, <2>1, <2>2, <3>1, <3>2
      <3>4. QED
        BY <1>4, <3>1, <3>2, <3>3 DEF Distinct
    <2>4. QED
      BY <1>1, <1>2, <2>3
  <1>5. QED
    BY <1>3, <1>4 DEF g

LEMMA SwapKeepsEntries ==
    ASSUME NEW h, Placed(h), NEW n \in Nat, n <= Len(h), NEW i \in 1..n, NEW j \in 1..n
    PROVE  SameEntries(H!Swap(h, i, j), h, n)
  <1>1. Len(h) \in Nat /\ i \in 1..Len(h) /\ j \in 1..Len(h)
    BY DEF Placed
  <1>2. \A m \in (n + 1)..Len(h) : m \in 1..Len(h) /\ m \notin {i, j}
    BY <1>1
  <1>3. QED
    BY <1>1, <1>2, Swapping, SwappedContent DEF SameEntries

-----------------------------------------------------------------------------
(* One turn of the loops.                                                  *)

Edge(h, i) == ~Less(h[i], h[H!Parent(i)])

Ordered(h, n) == \A i \in 2..n : Edge(h, i)

Children(h, a, n) == \A i \in 2..n : H!Parent(i) = a => Edge(h, i)

(* The children of a are in order with its parent.                         *)
Bridged(h, a, n) ==
    \A i \in 2..n : H!Parent(i) = a /\ a > 1 => ~Less(h[i], h[H!Parent(a)])

(* In order but for a and its parent, for a and its children, for both.    *)
UpHole(h, a, n) == Bridged(h, a, n) /\ \A i \in 2..n : i # a => Edge(h, i)

DownHole(h, a, n) ==
    Bridged(h, a, n) /\ \A i \in 2..n : H!Parent(i) # a => Edge(h, i)

Hole(h, a, n) ==
    Bridged(h, a, n) /\ \A i \in 2..n : i # a /\ H!Parent(i) # a => Edge(h, i)

LEMMA BelowStays ==
    ASSUME NEW h, Placed(h), NEW n \in Nat, n <= Len(h), NEW a \in 1..Len(h),
           H!Below(h, a, n) = a
    PROVE  Children(h, a, n)
  <1> DEFINE l == 2 * a
             c == IF l < n /\ Less(h[l + 1], h[l]) THEN l + 1 ELSE l
  <1>1. Len(h) \in Nat /\ a \in Nat /\ \A i \in 1..n : h[i] \in Entry
    BY DEF Placed
  <1>2. H!Below(h, a, n) = IF l <= n /\ Less(h[c], h[a]) THEN c ELSE a
    BY DEF H!Below
  <1>3. SUFFICES ASSUME NEW i \in 2..n, H!Parent(i) = a
                 PROVE  ~Less(h[i], h[a])
    BY DEF Children, Edge
  <1>4. i = l \/ i = l + 1
    BY <1>1, <1>3, Halves
  <1>5. l <= n /\ c \in 1..n /\ c # a /\ l \in 1..n
    BY <1>1, <1>4
  <1>6. ~Less(h[c], h[a])
    BY <1>2, <1>5
  <1>7. ~Less(h[i], h[c]) \/ i = c
    <2>1. CASE i = l
      <3>1. c = l + 1 => l + 1 \in 1..n /\ Less(h[l + 1], h[l])
        BY <1>1, <1>5
      <3>2. QED
        BY <1>1, <1>5, <2>1, <3>1, LessAsymmetric
    <2>2. CASE i = l + 1
      BY <1>1, <1>3, <2>2
    <2>3. QED
      BY <1>4, <2>1, <2>2
  <1>8. h[i] \in Entry /\ h[c] \in Entry /\ h[a] \in Entry
    BY <1>1, <1>3, <1>5 DEF Placed
  <1> HIDE DEF c, l
  <1>9. QED
    BY <1>6, <1>7, <1>8, NotLessTransitive

LEMMA BelowMoves ==
    ASSUME NEW h, Placed(h), NEW n \in Nat, n <= Len(h), NEW a \in 1..Len(h),
           NEW c, c = H!Below(h, a, n), c # a
    PROVE  /\ c \in 1..n /\ a \in 1..n /\ c > a /\ H!Parent(c) = a
           /\ Less(h[c], h[a])
           /\ \A i \in 2..n : H!Parent(i) = a => i = c \/ ~Less(h[i], h[c])
  <1> DEFINE l == 2 * a
  <1>1. Len(h) \in Nat /\ a \in Nat /\ a >= 1 /\ \A i \in 1..n : h[i] \in Entry
    BY DEF Placed
  <1>2. /\ l <= n /\ Less(h[c], h[a])
        /\ c = IF l < n /\ Less(h[l + 1], h[l]) THEN l + 1 ELSE l
    BY DEF H!Below
  <1>3. /\ c \in 1..n /\ a \in 1..n /\ c > a /\ c \in Nat /\ c >= 2
        /\ (c = l \/ c = l + 1)
    BY <1>1, <1>2
  <1>4. H!Parent(c) = a
    BY <1>1, <1>3, Halves
  <1>5. ASSUME NEW i \in 2..n, H!Parent(i) = a, i # c
        PROVE  ~Less(h[i], h[c])
    <2>1. i = l \/ i = l + 1
      BY <1>1, <1>5, Halves
    <2>2. CASE i = l
      <3>1. c = l + 1 /\ Less(h[l + 1], h[l]) /\ l + 1 \in 1..n /\ l \in 1..n
        BY <1>1, <1>2, <1>3, <1>5, <2>2
      <3>2. QED
        BY <1>1, <2>2, <3>1, LessAsymmetric
    <2>3. CASE i = l + 1
      BY <1>1, <1>2, <1>5, <2>3
    <2>4. QED
      BY <2>1, <2>2, <2>3
  <1>6. QED
    BY <1>2, <1>3, <1>4, <1>5

(* What a swap does to the order.                                          *)
(* In g the contents of a and c have changed places.                       *)
Exchanged(g, h, a, c) ==
    /\ \A i, p \in 1..Len(h) : i \notin {a, c} /\ p \notin {a, c}
          => (Less(g[i], g[p]) <=> Less(h[i], h[p]))
    /\ \A p \in 1..Len(h) : p \notin {a, c} => (Less(g[a], g[p]) <=> Less(h[c], h[p]))
    /\ \A i \in 1..Len(h) : i \notin {a, c} => (Less(g[i], g[a]) <=> Less(h[i], h[c]))
    /\ \A i \in 1..Len(h) : i \notin {a, c} => (Less(g[i], g[c]) <=> Less(h[i], h[a]))
    /\ Less(g[a], g[c]) <=> Less(h[c], h[a])
    /\ Less(g[c], g[a]) <=> Less(h[a], h[c])

LEMMA SwappedOrder ==
    ASSUME NEW h, Placed(h), NEW a \in 1..Len(h), NEW c \in 1..Len(h), a # c,
           NEW g, g = H!Swap(h, c, a)
    PROVE  Exchanged(g, h, a, c)
  <1>1. /\ Cell(g[a]) = Cell(h[c]) /\ Cell(g[c]) = Cell(h[a])
        /\ \A m \in 1..Len(h) : m \notin {a, c} => g[m] = h[m]
    BY Swapping
  <1>2. \A m \in 1..Len(h) : m \notin {a, c} => Cell(g[m]) = Cell(h[m])
    BY <1>1
  <1>3. QED
    BY <1>1, <1>2, LessOfCells DEF Exchanged

(* The entry at a has gone below c, its lesser child.                      *)
LEMMA HoleSinks ==
    ASSUME NEW h, Placed(h), NEW n \in Nat, n <= Len(h), NEW a \in 1..Len(h),
           NEW c, c = H!Below(h, a, n), c # a, Hole(h, a, n)
    PROVE  DownHole(H!Swap(h, c, a), c, n)
  <1> DEFINE g == H!Swap(h, c, a)
  <1>1. /\ c \in 1..n /\ a \in 1..n /\ c > a /\ H!Parent(c) = a
        /\ Less(h[c], h[a])
        /\ \A i \in 2..n : H!Parent(i) = a => i = c \/ ~Less(h[i], h[c])
    BY BelowMoves
  <1>2. Len(h) \in Nat /\ \A i \in 1..n : i \in 1..Len(h) /\ h[i] \in Entry
    BY DEF Placed
  <1>3. /\ \A i, p \in 1..n : i \notin {a, c} /\ p \notin {a, c}
              => (Less(g[i], g[p]) <=> Less(h[i], h[p]))
        /\ \A p \in 1..n : p \notin {a, c} => (Less(g[a], g[p]) <=> Less(h[c], h[p]))
        /\ \A i \in 1..n : i \notin {a, c} => (Less(g[i], g[a]) <=> Less(h[i], h[c]))
        /\ Less(g[c], g[a]) <=> Less(h[a], h[c])
    <2>1. a # c /\ a \in 1..Len(h) /\ c \in 1..Len(h)
      BY <1>1, <1>2
    <2> HIDE DEF g
    <2>2. Exchanged(g, h, a, c)
      BY <2>1, SwappedOrder DEF g
    <2>3. QED
      BY <1>2, <2>2 DEF Exchanged
  <1> HIDE DEF g
  <1>4. \A i \in 2..n : /\ H!Parent(i) \in 1..n /\ H!Parent(i) < i /\ i \in 1..n
    BY Halves
  <1>5. ASSUME NEW i \in 2..n, H!Parent(i) # c
        PROVE  ~Less(g[i], g[H!Parent(i)])
    <2>1. CASE i = c
      BY <1>1, <1>2, <1>3, <2>1, LessAsymmetric
    <2>2. CASE i # c /\ H!Parent(i) = a
      <3>1. i \notin {a, c}
        BY <1>4, <2>2
      <3>2. QED
        BY <1>1, <1>3, <1>4, <2>2, <3>1
    <2>3. CASE i = a
      <3>1. H!Parent(a) \notin {a, c} /\ H!Parent(c) = a /\ c \in 2..n /\ a > 1
        BY <1>1, <1>4, <1>5, <2>3
      <3>2. ~Less(h[c], h[H!Parent(a)])
        BY <3>1 DEF Hole, Bridged
      <3>3. QED
        BY <1>3, <1>4, <2>3, <3>1, <3>2
    <2>4. CASE i \notin {a, c} /\ H!Parent(i) # a
      <3>1. ~Less(h[i], h[H!Parent(i)])
        BY <2>4 DEF Hole, Edge
      <3>2. QED
        BY <1>3, <1>4, <1>5, <2>4, <3>1
    <2>5. QED
      BY <2>1, <2>2, <2>3, <2>4
  <1>6. ASSUME NEW i \in 2..n, H!Parent(i) = c
        PROVE  ~Less(g[i], g[a])
    <2>1. i \notin {a, c} /\ H!Parent(i) # a
      BY <1>1, <1>4, <1>6
    <2>2. ~Less(h[i], h[c])
      BY <1>6, <2>1 DEF Hole, Edge
    <2>3. QED
      BY <1>3, <1>4, <2>1, <2>2
  <1>7. QED
    BY <1>1, <1>5, <1>6 DEF DownHole, Bridged, Edge, g

LEMMA AboveStays ==
    ASSUME NEW h, NEW n \in Nat, NEW a \in 1..n, H!Above(h, a) = a, UpHole(h, a, n)
    PROVE  Ordered(h, n)
  <1>1. SUFFICES ASSUME NEW i \in 2..n
                 PROVE  Edge(h, i)
    BY DEF Ordered
  <1>2. CASE i = a
    <2>1. H!Parent(a) # a /\ a > 1
      BY <1>2, Halves
    <2>2. QED
      BY <1>2, <2>1 DEF H!Above, Edge
  <1>3. QED
    BY <1>2 DEF UpHole

LEMMA AboveMoves ==
    ASSUME NEW h, NEW n \in Nat, NEW a \in 1..n, NEW c, c = H!Above(h, a), c # a
    PROVE  c = H!Parent(a) /\ a > 1 /\ c \in 1..n /\ c < a /\ Less(h[a], h[c])
  <1>1. c = H!Parent(a) /\ a > 1 /\ Less(h[a], h[H!Parent(a)])
    BY DEF H!Above
  <1>2. QED
    BY <1>1, Halves

(* The entry at a has gone above c, its parent.                            *)
LEMMA HoleRises ==
    ASSUME NEW h, Placed(h), NEW n \in Nat, n <= Len(h), NEW a \in 1..n,
           NEW c, c = H!Above(h, a), c # a, UpHole(h, a, n)
    PROVE  UpHole(H!Swap(h, c, a), c, n)
  <1> DEFINE g == H!Swap(h, c, a)
  <1>1. c = H!Parent(a) /\ a > 1 /\ c \in 1..n /\ c < a /\ Less(h[a], h[c])
    BY AboveMoves
  <1>2. Len(h) \in Nat /\ \A i \in 1..n : i \in 1..Len(h) /\ h[i] \in Entry
    BY DEF Placed
  <1>3. /\ \A i, p \in 1..n : i \notin {a, c} /\ p \notin {a, c}
              => (Less(g[i], g[p]) <=> Less(h[i], h[p]))
        /\ \A p \in 1..n : p \notin {a, c} => (Less(g[a], g[p]) <=> Less(h[c], h[p]))
        /\ \A i \in 1..n : i \notin {a, c} => (Less(g[i], g[a]) <=> Less(h[i], h[c]))
        /\ \A i \in 1..n : i \notin {a, c} => (Less(g[i], g[c]) <=> Less(h[i], h[a]))
        /\ Less(g[a], g[c]) <=> Less(h[c], h[a])
    <2>1. a # c /\ a \in 1..Len(h) /\ c \in 1..Len(h)
      BY <1>1, <1>2
    <2> HIDE DEF g
    <2>2. Exchanged(g, h, a, c)
      BY <2>1, SwappedOrder DEF g
    <2>3. QED
      BY <1>2, <2>2 DEF Exchanged
  <1> HIDE DEF g
  <1>4. \A i \in 2..n : /\ H!Parent(i) \in 1..n /\ H!Parent(i) < i /\ i \in 1..n
    BY Halves
  <1>5. ASSUME NEW i \in 2..n, i # c
        PROVE  ~Less(g[i], g[H!Parent(i)])
    <2>1. CASE i = a
      BY <1>1, <1>2, <1>3, <2>1, LessAsymmetric
    <2>2. CASE H!Parent(i) = a
      <3>1. i \notin {a, c} /\ i \in 1..n
        BY <1>1, <1>4, <2>2
      <3>2. ~Less(h[i], h[c])
        BY <1>1, <2>2 DEF UpHole, Bridged
      <3>3. ~Less(g[i], g[a])
        BY <1>3, <3>1, <3>2
      <3>4. QED
        BY <2>2, <3>3
    <2>3. CASE i # a /\ H!Parent(i) = c
      <3>1. i \notin {a, c}
        BY <1>4, <1>5, <2>3
      <3>2. ~Less(h[i], h[c])
        BY <2>3 DEF UpHole, Edge
      <3>3. ~Less(h[c], h[a])
        BY <1>1, <1>2, LessAsymmetric
      <3>4. ~Less(h[i], h[a])
        BY <1>1, <1>2, <1>4, <3>2, <3>3, NotLessTransitive
      <3>5. i \in 1..n /\ ~Less(g[i], g[c])
        BY <1>3, <1>4, <3>1, <3>4
      <3>6. QED
        BY <2>3, <3>5
    <2>4. CASE i \notin {a, c} /\ H!Parent(i) \notin {a, c}
      <3>1. ~Less(h[i], h[H!Parent(i)])
        BY <2>4 DEF UpHole, Edge
      <3>2. QED
        BY <1>3, <1>4, <2>4, <3>1
    <2>5. QED
      BY <1>5, <2>1, <2>2, <2>3, <2>4
  <1>6. ASSUME NEW i \in 2..n, H!Parent(i) = c, c > 1
        PROVE  ~Less(g[i], g[H!Parent(c)])
    <2>1. H!Parent(c) \notin {a, c} /\ H!Parent(c) \in 1..n /\ c \in 2..n
      BY <1>1, <1>4, <1>6
    <2>2. ~Less(h[c], h[H!Parent(c)])
      BY <1>1, <2>1 DEF UpHole, Edge
    <2>3. CASE i = a
      BY <1>3, <2>1, <2>2, <2>3
    <2>4. CASE i # a
      <3>1. i \notin {a, c}
        BY <1>4, <1>6, <2>4
      <3>2. ~Less(h[i], h[c])
        BY <1>6, <2>4 DEF UpHole, Edge
      <3>3. ~Less(h[i], h[H!Parent(c)])
        BY <1>1, <1>2, <1>4, <2>1, <2>2, <3>2, NotLessTransitive
      <3>4. QED
        BY <1>3, <1>4, <2>1, <3>1, <3>3
    <2>5. QED
      BY <2>3, <2>4
  <1>7. QED
    BY <1>1, <1>5, <1>6 DEF UpHole, Bridged, Edge, g

-----------------------------------------------------------------------------
(* The loops.                                                              *)

WalkNext(h, i, n, way, f, m) ==
    IF m = 0 THEN [heap |-> h, at |-> i] ELSE H!Moved(f[m - 1], way, n)

(* A function exists that the recursion of Walk defines.                   *)
LEMMA WalkRecursion ==
    ASSUME NEW h, NEW i, NEW n, NEW way, NEW N \in Nat
    PROVE  \E f : f = [m \in 0..N |-> WalkNext(h, i, n, way, f, m)]
  <1> USE DEF WalkNext
  <1> DEFINE next(f, m) == WalkNext(h, i, n, way, f, m)
             S == {M \in Nat : \E f : f = [m \in 0..M |-> next(f, m)]}
  <1>1. 0 \in S
    <2> DEFINE f == [m \in 0..0 |-> [heap |-> h, at |-> i]]
    <2>1. f = [m \in 0..0 |-> next(f, m)]
      OBVIOUS
    <2> QED
      BY <2>1
  <1>2. ASSUME NEW M \in Nat, M \in S
        PROVE  M + 1 \in S
    <2>1. PICK f : f = [m \in 0..M |-> next(f, m)]
      BY <1>2
    <2> DEFINE g == [m \in 0..(M + 1) |-> IF m = M + 1 THEN next(f, m) ELSE f[m]]
    <2>2. ASSUME NEW m \in 0..(M + 1)
          PROVE  next(g, m) = IF m = M + 1 THEN next(f, m) ELSE f[m]
      <3>1. m # 0 => m - 1 \in 0..(M + 1) /\ m - 1 # M + 1 /\ g[m - 1] = f[m - 1]
        OBVIOUS
      <3>2. m # M + 1 => m \in 0..M
        OBVIOUS
      <3>3. m # M + 1 => f[m] = next(f, m)
        BY <2>1, <3>2
      <3> HIDE DEF g
      <3> QED
        BY <3>1, <3>3
    <2>3. g = [m \in 0..(M + 1) |-> next(g, m)]
      BY <2>2
    <2>4. \E k : k = [m \in 0..(M + 1) |-> next(k, m)]
      <3> HIDE DEF g, next
      <3> QED
        BY <2>3
    <2> QED
      BY SMTT(30), <2>4
  <1>3. S = Nat
    <2>1. S \in SUBSET Nat
      OBVIOUS
    <2> HIDE DEF S
    <2> QED
      BY <1>1, <1>2, <2>1, SetInduction
  <1> QED
    BY <1>3

(* A walk as a sequence of turns.                                          *)
LEMMA Walking ==
    ASSUME NEW h, NEW i, NEW n \in Nat, NEW way
    PROVE  /\ n \div 2 \in Nat
           /\ \E f : /\ H!Walk(h, i, n, way) = f[n \div 2]
                     /\ f[0] = [heap |-> h, at |-> i]
                     /\ \A m \in 0..((n \div 2) - 1) : f[m + 1] = H!Moved(f[m], way, n)
  <1> DEFINE N == n \div 2
             f == CHOOSE g : g = [m \in 0..N |-> WalkNext(h, i, n, way, g, m)]
  <1>1. N \in Nat
    OBVIOUS
  <1>2. f = [m \in 0..N |-> WalkNext(h, i, n, way, f, m)]
    <2> HIDE DEF N
    <2> QED
      BY <1>1, WalkRecursion
  <1>3. H!Walk(h, i, n, way) = f[N]
    BY Zenon DEF H!Walk, WalkNext
  <1> HIDE DEF f
  <1>4. \A m \in 0..N : f[m] = WalkNext(h, i, n, way, f, m)
    <2> HIDE DEF N
    <2> QED
      BY <1>2
  <1> HIDE DEF N
  <1>5. f[0] = [heap |-> h, at |-> i]
    BY <1>1, <1>4 DEF WalkNext
  <1>6. ASSUME NEW m \in 0..(N - 1)
        PROVE  f[m + 1] = H!Moved(f[m], way, n)
    <2>1. m + 1 \in 0..N /\ m + 1 # 0 /\ m + 1 - 1 = m
      BY <1>1
    <2>2. QED
      BY <1>4, <2>1 DEF WalkNext
  <1>7. QED
    BY <1>1, <1>3, <1>5, <1>6 DEF N

LEMMA SameEntriesTransitive ==
    ASSUME NEW h, Placed(h), NEW g, NEW k, NEW n \in Nat,
           SameEntries(g, h, n), SameEntries(k, g, n)
    PROVE  SameEntries(k, h, n)
  BY DEF SameEntries

LEMMA SameEntriesReflexive ==
    ASSUME NEW h, Placed(h), NEW n
    PROVE  SameEntries(h, h, n)
  BY DEF SameEntries

(* A walk down from i: where it is, and what is left to be put in order.   *)
Sinking(w, h, i, n) ==
    /\ SameEntries(w.heap, h, n)
    /\ w.at \in Nat /\ w.at >= i
    /\ IF w.at = i THEN w.heap = h
       ELSE w.at <= n /\ DownHole(w.heap, w.at, n)

LEMMA SinkingStep ==
    ASSUME NEW h, Placed(h), NEW n \in Nat, n <= Len(h), NEW i \in 1..Len(h),
           Hole(h, i, n), NEW w, Sinking(w, h, i, n),
           NEW v, v = H!Moved(w, "down", n)
    PROVE  /\ Sinking(v, h, i, n)
           /\ v.at > w.at \/ v = w
           /\ v = w => Children(w.heap, w.at, n)
  <1>1. /\ SameEntries(w.heap, h, n) /\ w.at \in 1..Len(h) /\ Placed(w.heap)
        /\ Len(w.heap) = Len(h) /\ Len(h) \in Nat
    BY DEF Sinking, SameEntries, Placed
  <1>2. Hole(w.heap, w.at, n)
    BY DEF Sinking, DownHole, Hole
  <1>3. PICK c : c = H!Below(w.heap, w.at, n)
    OBVIOUS
  <1>4. CASE c = w.at
    <2>1. v = w
      BY <1>3, <1>4 DEF H!Moved
    <2>2. Children(w.heap, w.at, n)
      BY <1>1, <1>3, <1>4, BelowStays
    <2>3. QED
      BY <2>1, <2>2
  <1>5. CASE c # w.at
    <2>1. c \in 1..n /\ w.at \in 1..n /\ c > w.at
      BY <1>1, <1>3, <1>5, BelowMoves
    <2>2. v = [heap |-> H!Swap(w.heap, c, w.at), at |-> c]
      BY <1>3, <1>5 DEF H!Moved
    <2>3. v.heap = H!Swap(w.heap, c, w.at) /\ v.at = c
      BY <2>2
    <2>4. DownHole(v.heap, c, n)
      BY <1>1, <1>2, <1>3, <1>5, <2>3, HoleSinks
    <2>5. SameEntries(v.heap, w.heap, n)
      BY <1>1, <2>1, <2>3, SwapKeepsEntries
    <2>6. SameEntries(v.heap, h, n)
      BY <1>1, <2>5, SameEntriesTransitive
    <2>7. v.at > w.at /\ v.at > i /\ v.at \in Nat /\ v.at <= n
      BY <1>1, <2>1, <2>3 DEF Sinking
    <2>8. v # w
      BY <1>1, <2>7
    <2>9. QED
      BY <2>3, <2>4, <2>6, <2>7, <2>8 DEF Sinking
  <1>6. QED
    BY <1>4, <1>5

LEMMA WalkDown ==
    ASSUME NEW h, Placed(h), NEW n \in Nat, n <= Len(h), NEW i \in 1..Len(h),
           Hole(h, i, n), NEW w, w = H!Walk(h, i, n, "down")
    PROVE  Sinking(w, h, i, n) /\ Children(w.heap, w.at, n)
  <1> DEFINE N == n \div 2
  <1>1. PICK f : /\ w = f[N]
                 /\ f[0] = [heap |-> h, at |-> i]
                 /\ \A m \in 0..(N - 1) : f[m + 1] = H!Moved(f[m], "down", n)
    BY Walking
  <1> DEFINE Rested(m) == Children(f[m].heap, f[m].at, n)
                          /\ H!Moved(f[m], "down", n) = f[m]
             S == {m \in Nat : m \in 0..N => /\ Sinking(f[m], h, i, n)
                                             /\ Rested(m) \/ f[m].at >= m + 1}
  <1>2. N \in Nat /\ 2 * N + 2 > n
    OBVIOUS
  <1> HIDE DEF N
  <1>3. 0 \in S
    <2>1. f[0].heap = h /\ f[0].at = i /\ i \in Nat /\ i >= 1
      BY <1>1
    <2>2. Sinking(f[0], h, i, n)
      BY <2>1, SameEntriesReflexive DEF Sinking
    <2> QED
      BY <2>1, <2>2
  <1>4. ASSUME NEW m \in Nat, m \in S
        PROVE  m + 1 \in S
    <2>1. CASE m + 1 \in 0..N
      <3>1. m \in 0..N /\ m \in 0..(N - 1)
        BY <1>2, <2>1
      <3>2. Sinking(f[m], h, i, n) /\ (Rested(m) \/ f[m].at >= m + 1)
        BY <1>4, <3>1
      <3>3. f[m + 1] = H!Moved(f[m], "down", n)
        BY <1>1, <3>1
      <3>4. /\ Sinking(f[m + 1], h, i, n)
            /\ f[m + 1].at > f[m].at \/ f[m + 1] = f[m]
            /\ f[m + 1] = f[m] => Children(f[m].heap, f[m].at, n)
        BY <3>2, <3>3, SinkingStep
      <3>5. CASE f[m + 1] = f[m]
        <4>1. Rested(m + 1)
          BY <3>3, <3>4, <3>5
        <4> QED
          BY <3>4, <4>1
      <3>6. CASE f[m + 1].at > f[m].at
        <4>1. f[m].at >= m + 1
          <5>1. SUFFICES ASSUME Rested(m) PROVE FALSE
            BY <3>2
          <5>2. f[m + 1] = f[m]
            BY <3>3, <5>1
          <5>3. f[m].at \in Nat
            BY <3>2 DEF Sinking
          <5>4. QED
            BY <3>6, <5>2, <5>3
        <4>2. f[m].at \in Nat /\ f[m + 1].at \in Nat
          BY <3>2, <3>4 DEF Sinking
        <4>3. f[m + 1].at >= m + 1 + 1
          BY <3>6, <4>1, <4>2
        <4> QED
          BY <3>4, <4>3
      <3>7. QED
        BY <3>4, <3>5, <3>6
    <2>2. QED
      BY <2>1
  <1>5. S = Nat
    <2>1. S \in SUBSET Nat
      OBVIOUS
    <2> HIDE DEF S
    <2> QED
      BY <1>3, <1>4, <2>1, SetInduction
  <1>6. Sinking(w, h, i, n) /\ (Children(w.heap, w.at, n) \/ w.at >= N + 1)
    <2>1. N \in S /\ N \in 0..N
      BY <1>2, <1>5
    <2>2. QED
      BY <1>1, <2>1
  <1>7. CASE w.at >= N + 1
    <2>1. w.at \in Nat /\ 2 * w.at > n
      BY <1>2, <1>6, <1>7 DEF Sinking
    <2>2. \A j \in 2..n : H!Parent(j) # w.at
      <3>1. SUFFICES ASSUME NEW j \in 2..n, H!Parent(j) = w.at
                     PROVE  FALSE
        OBVIOUS
      <3>2. 2 * H!Parent(j) <= j
        BY Halves
      <3>3. QED
        BY <2>1, <3>1, <3>2
    <2>3. QED
      BY <1>6, <2>2 DEF Children
  <1>8. QED
    BY <1>6, <1>7

(* A walk up.                                                              *)
Rising(w, h, n) ==
    SameEntries(w.heap, h, n) /\ w.at \in 1..n /\ UpHole(w.heap, w.at, n)

LEMMA RisingStep ==
    ASSUME NEW h, Placed(h), NEW n \in Nat, n <= Len(h),
           NEW w, Rising(w, h, n), NEW v, v = H!Moved(w, "up", n)
    PROVE  /\ Rising(v, h, n)
           /\ (v.at < w.at /\ 2 * v.at <= n) \/ v = w
           /\ v = w => Ordered(w.heap, n)
  <1>1. /\ SameEntries(w.heap, h, n) /\ w.at \in 1..n /\ Placed(w.heap)
        /\ UpHole(w.heap, w.at, n)
        /\ Len(w.heap) = Len(h) /\ Len(h) \in Nat
    BY DEF Rising, SameEntries, Placed
  <1>2. PICK c : c = H!Above(w.heap, w.at)
    OBVIOUS
  <1>3. CASE c = w.at
    <2>1. v = w
      BY <1>2, <1>3 DEF H!Moved
    <2>2. Ordered(w.heap, n)
      BY <1>1, <1>2, <1>3, AboveStays
    <2>3. QED
      BY <2>1, <2>2
  <1>4. CASE c # w.at
    <2>1. c = H!Parent(w.at) /\ w.at > 1 /\ c \in 1..n /\ c < w.at
      <3>1. c = H!Parent(w.at) /\ w.at > 1
        BY <1>2, <1>4 DEF H!Above
      <3>2. QED
        BY <1>1, <3>1, Halves
    <2>2. 2 * c <= n
      BY <1>1, <2>1, Halves
    <2>3. v = [heap |-> H!Swap(w.heap, c, w.at), at |-> c]
      BY <1>2, <1>4 DEF H!Moved
    <2>4. v.heap = H!Swap(w.heap, c, w.at) /\ v.at = c
      BY <2>3
    <2>5. UpHole(v.heap, c, n)
      BY <1>1, <1>2, <1>4, <2>4, HoleRises
    <2>6. SameEntries(v.heap, w.heap, n)
      BY <1>1, <2>1, <2>4, SwapKeepsEntries
    <2>7. SameEntries(v.heap, h, n)
      BY <1>1, <2>6, SameEntriesTransitive
    <2>8. v # w
      BY <1>1, <2>1, <2>4
    <2>9. QED
      BY <2>1, <2>2, <2>4, <2>5, <2>7, <2>8 DEF Rising
  <1>5. QED
    BY <1>3, <1>4

LEMMA WalkUp ==
    ASSUME NEW h, Placed(h), NEW n \in Nat, n <= Len(h), NEW i \in 1..n,
           UpHole(h, i, n), NEW w, w = H!Walk(h, i, n, "up")
    PROVE  SameEntries(w.heap, h, n) /\ Ordered(w.heap, n)
  <1> DEFINE N == n \div 2
  <1>1. PICK f : /\ w = f[N]
                 /\ f[0] = [heap |-> h, at |-> i]
                 /\ \A m \in 0..(N - 1) : f[m + 1] = H!Moved(f[m], "up", n)
    BY Walking
  <1> DEFINE Rested(m) == Ordered(f[m].heap, n) /\ H!Moved(f[m], "up", n) = f[m]
             S == {m \in Nat : m \in 0..N =>
                      /\ Rising(f[m], h, n)
                      /\ Rested(m) \/ m = 0 \/ f[m].at + m <= N + 1}
  <1>2. N \in Nat /\ 2 * N <= n /\ 2 * N + 1 >= n
    OBVIOUS
  <1> HIDE DEF N
  <1>3. 0 \in S
    <2>1. f[0].heap = h /\ f[0].at = i
      BY <1>1
    <2>2. Rising(f[0], h, n)
      BY <2>1, SameEntriesReflexive DEF Rising
    <2> QED
      BY <2>1, <2>2
  <1>4. ASSUME NEW m \in Nat, m \in S
        PROVE  m + 1 \in S
    <2>1. CASE m + 1 \in 0..N
      <3>1. m \in 0..N /\ m \in 0..(N - 1)
        BY <1>2, <2>1
      <3>2. Rising(f[m], h, n) /\ (Rested(m) \/ m = 0 \/ f[m].at + m <= N + 1)
        BY <1>4, <3>1
      <3>3. f[m + 1] = H!Moved(f[m], "up", n)
        BY <1>1, <3>1
      <3>4. /\ Rising(f[m + 1], h, n)
            /\ (f[m + 1].at < f[m].at /\ 2 * f[m + 1].at <= n) \/ f[m + 1] = f[m]
            /\ f[m + 1] = f[m] => Ordered(f[m].heap, n)
        BY <3>2, <3>3, RisingStep
      <3>5. CASE f[m + 1] = f[m]
        <4>1. Rested(m + 1)
          BY <3>3, <3>4, <3>5
        <4> QED
          BY <3>4, <4>1
      <3>6. CASE f[m + 1].at < f[m].at /\ 2 * f[m + 1].at <= n
        <4>1. f[m].at \in Nat /\ f[m + 1].at \in Nat
          BY <3>2, <3>4 DEF Rising
        <4>2. ~Rested(m)
          <5>1. SUFFICES ASSUME Rested(m) PROVE FALSE
            OBVIOUS
          <5>2. f[m + 1] = f[m]
            BY <3>3, <5>1
          <5>3. QED
            BY <3>6, <4>1, <5>2
        <4>3. f[m + 1].at + (m + 1) <= N + 1
          <5>1. PICK p \in Nat : p = f[m + 1].at
            BY <4>1
          <5>2. PICK q \in Nat : q = f[m].at
            BY <4>1
          <5>3. p < q /\ 2 * p <= n
            BY <3>6, <5>1, <5>2
          <5>4. m = 0 \/ q + m <= N + 1
            BY <3>2, <4>2, <5>2
          <5>5. p + (m + 1) <= N + 1
            BY <1>2, <5>3, <5>4
          <5>6. QED
            BY <5>1, <5>5
        <4> QED
          BY <3>4, <4>3
      <3>7. QED
        BY <3>4, <3>5, <3>6
    <2>2. QED
      BY <2>1
  <1>5. S = Nat
    <2>1. S \in SUBSET Nat
      OBVIOUS
    <2> HIDE DEF S
    <2> QED
      BY <1>3, <1>4, <2>1, SetInduction
  <1>6. Rising(w, h, n) /\ (Ordered(w.heap, n) \/ N = 0 \/ w.at + N <= N + 1)
    <2>1. N \in S /\ N \in 0..N
      BY <1>2, <1>5
    <2>2. QED
      BY <1>1, <2>1
  <1>7. CASE N = 0 \/ w.at + N <= N + 1
    <2>1. w.at = 1
      BY <1>2, <1>6, <1>7 DEF Rising
    <2>2. H!Above(w.heap, w.at) = w.at
      BY <2>1 DEF H!Above
    <2>3. QED
      BY <1>6, <2>2, AboveStays DEF Rising
  <1>8. QED
    BY <1>6, <1>7 DEF Rising

-----------------------------------------------------------------------------
(* What the operations of the heap leave.                                  *)

InHeapOrder(h) == Placed(h) /\ Ordered(h, Len(h))

LEMMA Sifting ==
    ASSUME NEW h, Placed(h), NEW n \in Nat, n <= Len(h), NEW i \in 1..n,
           Hole(h, i, n)
    PROVE  SameEntries(H!Sift(h, i, n), h, n) /\ Ordered(H!Sift(h, i, n), n)
  <1>1. PICK d : d = H!Down(h, i, n)
    OBVIOUS
  <1>2. i \in 1..Len(h) /\ Len(h) \in Nat
    BY DEF Placed
  <1>3. Sinking(d, h, i, n) /\ Children(d.heap, d.at, n)
    BY <1>1, <1>2, WalkDown DEF H!Down
  <1>4. H!Sift(h, i, n) = IF d.at > i THEN d.heap ELSE H!Walk(h, i, n, "up").heap
    BY <1>1 DEF H!Sift
  <1>5. CASE d.at > i
    <2>1. DownHole(d.heap, d.at, n) /\ SameEntries(d.heap, h, n)
      BY <1>2, <1>3, <1>5 DEF Sinking
    <2>2. Ordered(d.heap, n)
      BY <1>3, <2>1 DEF DownHole, Children, Ordered
    <2>3. QED
      BY <1>4, <1>5, <2>1, <2>2
  <1>6. CASE ~(d.at > i)
    <2>1. d.at = i /\ d.heap = h
      BY <1>2, <1>3, <1>6 DEF Sinking
    <2>2. UpHole(h, i, n)
      BY <1>3, <2>1 DEF Hole, Children, UpHole
    <2>3. PICK w : w = H!Walk(h, i, n, "up")
      OBVIOUS
    <2>4. SameEntries(w.heap, h, n) /\ Ordered(w.heap, n)
      BY <2>2, <2>3, WalkUp
    <2>5. QED
      BY <1>4, <1>6, <2>3, <2>4
  <1>7. QED
    BY <1>5, <1>6

LEMMA Dropping ==
    ASSUME NEW g, Placed(g), NEW n \in Nat, Len(g) = n + 1
    PROVE  /\ Placed(H!Front(g)) /\ Len(H!Front(g)) = n
           /\ \A m \in 1..n : H!Front(g)[m] = g[m]
           /\ Ordered(g, n) => InHeapOrder(H!Front(g))
           /\ Distinct(g) => Distinct(H!Front(g))
  <1> DEFINE r == H!Front(g)
  <1>1. r = [m \in 1..n |-> g[m]] /\ r \in Seq(Entry) /\ Len(r) = n
    BY DEF Placed, H!Front
  <1>2. \A m \in 1..n : r[m] = g[m] /\ m \in 1..Len(g)
    BY <1>1
  <1> HIDE DEF r
  <1>3. Placed(r)
    BY <1>1, <1>2 DEF Placed
  <1>4. ASSUME Ordered(g, n) PROVE Ordered(r, n)
    <2>1. \A i \in 2..n : i \in 1..n /\ H!Parent(i) \in 1..n
      BY Halves
    <2>2. QED
      BY <1>2, <1>4, <2>1 DEF Ordered, Edge
  <1>5. Distinct(g) => Distinct(r)
    BY <1>1, <1>2 DEF Distinct
  <1>6. QED
    BY <1>1, <1>2, <1>3, <1>4, <1>5 DEF r, InHeapOrder

(* r is what is left of h without the entries of ks: if a key is entered   *)
(* more than once, others of its entries may be left.                      *)
Reduced(r, h, ks) ==
    /\ InHeapOrder(r)
    /\ Content(r) \subseteq Content(h)
    /\ \A x \in Content(h) : x[1] \notin ks => x \in Content(r)
    /\ Distinct(h) => Distinct(r) /\ \A m \in 1..Len(r) : r[m].key \notin ks

LEMMA ReducedTwice ==
    ASSUME NEW h, NEW ks, NEW js, NEW r, NEW q, Reduced(r, h, ks), Reduced(q, r, js)
    PROVE  Reduced(q, h, ks \union js)
  <1>1. /\ InHeapOrder(q) /\ Content(q) \subseteq Content(h)
        /\ \A x \in Content(h) : x[1] \notin ks \union js => x \in Content(q)
    BY DEF Reduced
  <1>2. ASSUME Distinct(h)
        PROVE  Distinct(q) /\ \A m \in 1..Len(q) : q[m].key \notin ks \union js
    <2>1. /\ Distinct(q) /\ \A m \in 1..Len(q) : q[m].key \notin js
          /\ \A m \in 1..Len(r) : r[m].key \notin ks
      BY <1>2 DEF Reduced
    <2>2. \A m \in 1..Len(q) : \E l \in 1..Len(r) : Cell(q[m]) = Cell(r[l])
      BY DEF Reduced, Content
    <2>3. \A m \in 1..Len(q) : \E l \in 1..Len(r) : q[m].key = r[l].key
      BY <2>2 DEF Cell
    <2>4. QED
      BY <2>1, <2>3
  <1>3. QED
    BY <1>1, <1>2 DEF Reduced

(* The last entry is dropped, where e was put.                             *)
LEMMA DroppingReduces ==
    ASSUME NEW h, Placed(h), NEW e, NEW g, Placed(g), NEW n \in Nat, Len(g) = n + 1,
           Content(g) = Content(h), Distinct(h) => Distinct(g),
           Cell(g[n + 1]) = Cell(e), Ordered(g, n)
    PROVE  Reduced(H!Front(g), h, {e.key})
  <1> DEFINE r == H!Front(g)
  <1>1. /\ InHeapOrder(r) /\ Len(r) = n /\ \A m \in 1..n : r[m] = g[m]
        /\ Distinct(g) => Distinct(r)
    BY Dropping
  <1> HIDE DEF r
  <1>2. \A m : m \in 1..Len(g) <=> m \in 1..n \/ m = n + 1
    OBVIOUS
  <1>3. Content(r) \subseteq Content(h)
    BY <1>1, <1>2 DEF Content
  <1>4. ASSUME NEW x \in Content(h), x[1] # e.key
        PROVE  x \in Content(r)
    <2>1. PICK m \in 1..Len(g) : x = Cell(g[m])
      BY DEF Content
    <2>2. m # n + 1
      BY <1>4, <2>1 DEF Cell
    <2>3. QED
      BY <1>1, <1>2, <2>1, <2>2 DEF Content
  <1>5. ASSUME Distinct(h)
        PROVE  Distinct(r) /\ \A m \in 1..Len(r) : r[m].key # e.key
    <2>1. g[n + 1].key = e.key
      BY DEF Cell
    <2>2. \A m \in 1..n : m \in 1..Len(g) /\ n + 1 \in 1..Len(g) /\ m # n + 1
      OBVIOUS
    <2>3. \A m \in 1..n : g[m].key # e.key
      BY <1>5, <2>1, <2>2 DEF Distinct
    <2>4. QED
      BY <1>1, <1>5, <2>3
  <1>6. QED
    BY <1>1, <1>3, <1>4, <1>5 DEF Reduced, r

(* A place of an ordered heap whose entry gives way to another one.        *)
LEMMA Replacing ==
    ASSUME NEW h, InHeapOrder(h), NEW n \in Nat, n <= Len(h), NEW i \in 1..Len(h),
           NEW g, Placed(g), Len(g) = Len(h), \A m \in 1..n : m # i => g[m] = h[m]
    PROVE  Hole(g, i, n)
  <1>1. Len(h) \in Nat /\ \A m \in 1..Len(h) : h[m] \in Entry
    BY DEF InHeapOrder, Placed
  <1>2. \A j \in 2..n : /\ H!Parent(j) \in 1..n /\ H!Parent(j) < j /\ j \in 1..n
                        /\ j \in 1..Len(h) /\ ~Less(h[j], h[H!Parent(j)])
    BY <1>1, Halves DEF InHeapOrder, Ordered, Edge
  <1>3. ASSUME NEW j \in 2..n, j # i, H!Parent(j) # i
        PROVE  Edge(g, j)
    BY <1>2, <1>3 DEF Edge
  <1>4. ASSUME NEW j \in 2..n, H!Parent(j) = i, i > 1
        PROVE  ~Less(g[j], g[H!Parent(i)])
    <2>1. i \in 2..n /\ j # i /\ H!Parent(i) # i
      BY <1>1, <1>2, <1>4
    <2>2. ~Less(h[j], h[i]) /\ ~Less(h[i], h[H!Parent(i)])
      BY <1>2, <1>4, <2>1
    <2>3. H!Parent(i) \in 1..Len(h) /\ j \in 1..Len(h)
      BY <1>1, <1>2, <2>1
    <2>4. ~Less(h[j], h[H!Parent(i)])
      BY <1>1, <2>2, <2>3, NotLessTransitive
    <2>5. g[j] = h[j] /\ g[H!Parent(i)] = h[H!Parent(i)]
      BY <1>2, <2>1
    <2>6. QED
      BY <2>4, <2>5
  <1>5. QED
    BY <1>3, <1>4 DEF Hole, Bridged

LEMMA Removing ==
    ASSUME NEW h, InHeapOrder(h), NEW i \in 1..Len(h)
    PROVE  Reduced(H!Remove(h, i), h, {h[i].key})
  <1>1. PICK n \in Nat : Len(h) = n + 1
    <2>1. Len(h) \in Nat /\ Len(h) >= 1
      BY DEF InHeapOrder, Placed
    <2>2. Len(h) - 1 \in Nat /\ Len(h) = Len(h) - 1 + 1
      BY <2>1
    <2>3. QED
      BY <2>2
  <1>2. Placed(h) /\ Ordered(h, n) /\ i \in 1..(n + 1) /\ n + 1 \in 1..Len(h)
    BY <1>1 DEF InHeapOrder, Ordered
  <1>3. CASE i = n + 1
    <2>1. H!Remove(h, i) = H!Front(h)
      BY <1>1, <1>3 DEF H!Remove
    <2>2. QED
      BY <1>1, <1>2, <1>3, <2>1, DroppingReduces
  <1>4. CASE i # n + 1
    <2> DEFINE s == H!Swap(h, i, n + 1)
    <2>1. /\ Placed(s) /\ Len(s) = Len(h) /\ Cell(s[n + 1]) = Cell(h[i])
          /\ \A m \in 1..Len(h) : m \notin {i, n + 1} => s[m] = h[m]
      BY <1>2, Swapping
    <2>2. Content(s) = Content(h) /\ (Distinct(h) => Distinct(s))
      BY <1>2, SwappedContent
    <2> HIDE DEF s
    <2>3. \A m \in 1..n : m # i => s[m] = h[m]
      BY <1>1, <2>1
    <2>4. i \in 1..n /\ n <= Len(h)
      BY <1>1, <1>2, <1>4
    <2>5. Hole(s, i, n)
      BY <2>1, <2>3, <2>4, Replacing
    <2>6. SameEntries(H!Sift(s, i, n), s, n) /\ Ordered(H!Sift(s, i, n), n)
      BY <2>1, <2>4, <2>5, Sifting
    <2>7. PICK g : g = H!Sift(s, i, n)
      OBVIOUS
    <2>8. n + 1 \in (n + 1)..Len(s)
      BY <1>1, <2>1
    <2>9. /\ Placed(g) /\ Len(g) = n + 1 /\ Content(g) = Content(h)
          /\ Distinct(h) => Distinct(g)
          /\ Cell(g[n + 1]) = Cell(h[i]) /\ Ordered(g, n)
      BY <1>1, <2>1, <2>2, <2>6, <2>7, <2>8 DEF SameEntries
    <2>10. H!Remove(h, i) = H!Front(g)
      <3>1. n + 1 - 1 = n
        OBVIOUS
      <3>2. H!Remove(h, i) = H!Front(H!Sift(H!Swap(h, i, n + 1), i, n))
        BY <1>1, <1>4, <3>1 DEF H!Remove
      <3>3. QED
        BY <2>7, <3>2 DEF s
    <2>11. QED
      BY <1>2, <2>9, <2>10, DroppingReduces
  <1>5. QED
    BY <1>3, <1>4

LEMMA Popping ==
    ASSUME NEW h, InHeapOrder(h), h # <<>>
    PROVE  Reduced(H!Rest(h), h, {h[1].key})
  <1>1. Len(h) \in Nat /\ Len(h) >= 1 /\ Placed(h)
    BY DEF InHeapOrder, Placed
  <1>2. PICK n \in Nat : Len(h) = n + 1
    <2>1. Len(h) - 1 \in Nat /\ Len(h) = Len(h) - 1 + 1
      BY <1>1
    <2>2. QED
      BY <2>1
  <1> DEFINE s == H!Swap(h, 1, n + 1)
  <1>3. 1 \in 1..Len(h) /\ n + 1 \in 1..Len(h) /\ n <= Len(h)
    BY <1>2
  <1>4. /\ Placed(s) /\ Len(s) = Len(h) /\ Cell(s[n + 1]) = Cell(h[1])
        /\ \A m \in 1..Len(h) : m \notin {1, n + 1} => s[m] = h[m]
    BY <1>1, <1>3, Swapping
  <1>5. Content(s) = Content(h) /\ (Distinct(h) => Distinct(s))
    BY <1>1, <1>3, SwappedContent
  <1> HIDE DEF s
  <1>6. \A m \in 1..n : m # 1 => s[m] = h[m]
    BY <1>2, <1>4
  <1>7. Hole(s, 1, n)
    BY <1>3, <1>4, <1>6, Replacing
  <1>8. PICK w : w = H!Walk(s, 1, n, "down")
    OBVIOUS
  <1>9. 1 \in 1..Len(s) /\ n <= Len(s)
    BY <1>3, <1>4
  <1>10. Sinking(w, s, 1, n) /\ Children(w.heap, w.at, n)
    BY <1>4, <1>7, <1>8, <1>9, WalkDown
  <1>11. Ordered(w.heap, n)
    <2>1. CASE w.at = 1
      <3>1. w.heap = s
        BY <1>10, <2>1 DEF Sinking
      <3>2. \A j \in 2..n : j # 1
        OBVIOUS
      <3>3. QED
        BY <1>7, <1>10, <2>1, <3>1, <3>2 DEF Hole, Children, Ordered
    <2>2. CASE w.at # 1
      <3>1. DownHole(w.heap, w.at, n)
        BY <1>10, <2>2 DEF Sinking
      <3>2. QED
        BY <1>10, <3>1 DEF DownHole, Children, Ordered
    <2>3. QED
      BY <2>1, <2>2
  <1>12. n + 1 \in (n + 1)..Len(s)
    BY <1>2, <1>4
  <1>13. PICK g : g = w.heap
    OBVIOUS
  <1>14. /\ Placed(g) /\ Len(g) = n + 1 /\ Content(g) = Content(h)
         /\ Distinct(h) => Distinct(g)
         /\ Cell(g[n + 1]) = Cell(h[1]) /\ Ordered(g, n)
    BY <1>2, <1>4, <1>5, <1>10, <1>11, <1>12, <1>13 DEF SameEntries, Sinking
  <1>15. H!Rest(h) = H!Front(g)
    <2>1. n + 1 - 1 = n
      OBVIOUS
    <2>2. H!Rest(h) = H!Front(H!Walk(H!Swap(h, 1, n + 1), 1, n, "down").heap)
      BY <1>2, <2>1 DEF H!Rest, H!Down
    <2>3. QED
      BY <1>8, <1>13, <2>2 DEF s
  <1>16. QED
    BY <1>1, <1>14, <1>15, DroppingReduces

LEMMA Pushing ==
    ASSUME NEW h, InHeapOrder(h), NEW e \in Entry, e.index = Len(h) + 1
    PROVE  /\ InHeapOrder(H!Push(h, e))
           /\ \A x : x \in Content(H!Push(h, e)) <=> x \in Content(h) \/ x = Cell(e)
           /\ Distinct(h) /\ (\A m \in 1..Len(h) : h[m].key # e.key)
                 => Distinct(H!Push(h, e))
  <1> DEFINE g == Append(h, e)
             n == Len(h) + 1
  <1>1. Len(h) \in Nat /\ h \in Seq(Entry) /\ Placed(h) /\ n \in Nat /\ n >= 1
    BY DEF InHeapOrder, Placed
  <1>2. /\ g \in Seq(Entry) /\ Len(g) = n /\ g[n] = e
        /\ \A m \in 1..Len(h) : g[m] = h[m]
    BY <1>1
  <1>3. \A m : m \in 1..n <=> m \in 1..Len(h) \/ m = n
    BY <1>1
  <1> HIDE DEF g
  <1>4. Placed(g)
    BY <1>1, <1>2, <1>3 DEF Placed
  <1>5. \A x : x \in Content(g) <=> x \in Content(h) \/ x = Cell(e)
    BY <1>2, <1>3 DEF Content
  <1>6. ASSUME Distinct(h), \A m \in 1..Len(h) : h[m].key # e.key
        PROVE  Distinct(g)
    BY <1>1, <1>2, <1>3, <1>6 DEF Distinct
  <1>7. UpHole(g, n, n)
    <2>1. ASSUME NEW j \in 2..n, j # n
          PROVE  Edge(g, j)
      <3>1. j \in 1..Len(h) /\ H!Parent(j) \in 1..Len(h) /\ j \in 2..Len(h)
        <4>1. j \in Nat /\ j >= 2 /\ j <= Len(h)
          BY <1>1, <2>1
        <4>2. H!Parent(j) \in Nat /\ H!Parent(j) >= 1 /\ H!Parent(j) < j
          BY <4>1, Halves
        <4>3. QED
          BY <1>1, <4>1, <4>2
      <3>2. Edge(h, j)
        BY <3>1 DEF InHeapOrder, Ordered
      <3>3. QED
        BY <1>2, <3>1, <3>2 DEF Edge
    <2>2. \A j \in 2..n : H!Parent(j) # n
      <3>1. \A j \in 2..n : H!Parent(j) < j /\ H!Parent(j) \in Nat
        BY Halves
      <3>2. QED
        BY <1>1, <3>1
    <2>3. QED
      BY <2>1, <2>2 DEF UpHole, Bridged
  <1>8. PICK w : w = H!Walk(g, n, n, "up")
    OBVIOUS
  <1>9. n \in 1..n /\ n <= Len(g)
    BY <1>1, <1>2
  <1>10. SameEntries(w.heap, g, n) /\ Ordered(w.heap, n)
    <2> HIDE DEF n
    <2> QED
      BY <1>1, <1>4, <1>7, <1>8, <1>9, WalkUp
  <1>11. H!Push(h, e) = w.heap
    BY <1>2, <1>8 DEF H!Push, H!Up, g
  <1>12. QED
    BY <1>2, <1>5, <1>6, <1>10, <1>11 DEF SameEntries, InHeapOrder

(* f is h with e in place of its entry i, in order.                        *)
Refitted(f, h, i, e) ==
    /\ InHeapOrder(f)
    /\ Cell(e) \in Content(f)
    /\ \A m \in 1..Len(h) : m # i => Cell(h[m]) \in Content(f)
    /\ \A x \in Content(f) : \/ x = Cell(e)
                             \/ \E m \in 1..Len(h) : m # i /\ x = Cell(h[m])
    /\ Distinct(h) => Distinct(f)

LEMMA Fixing ==
    ASSUME NEW h, InHeapOrder(h), NEW i \in 1..Len(h),
           NEW e \in Entry, e.index = i, e.key = h[i].key,
           NEW f, f = H!Fix([h EXCEPT ![i] = e], i)
    PROVE  Refitted(f, h, i, e)
  <1> DEFINE g == [h EXCEPT ![i] = e]
  <1>1. Len(h) \in Nat /\ h \in Seq(Entry) /\ Placed(h)
    BY DEF InHeapOrder, Placed
  <1>2. /\ g \in Seq(Entry) /\ Len(g) = Len(h) /\ g[i] = e
        /\ \A m \in 1..Len(h) : m # i => g[m] = h[m]
    BY <1>1
  <1> HIDE DEF g
  <1>3. Placed(g)
    BY <1>1, <1>2 DEF Placed
  <1>4. \A m \in 1..Len(h) : g[m].key = h[m].key
    BY <1>2
  <1>5. Distinct(h) => Distinct(g)
    BY <1>2, <1>4 DEF Distinct
  <1>6. PICK n \in Nat : n = Len(h)
    BY <1>1
  <1>7. /\ n <= Len(h) /\ n <= Len(g) /\ i \in 1..n
        /\ \A m \in 1..n : m # i => g[m] = h[m]
    BY <1>2, <1>6
  <1>8. Hole(g, i, n)
    BY <1>2, <1>3, <1>7, Replacing
  <1>9. SameEntries(H!Sift(g, i, n), g, n) /\ Ordered(H!Sift(g, i, n), n)
    BY <1>3, <1>7, <1>8, Sifting
  <1>10. f = H!Sift(g, i, n)
    BY <1>2, <1>6 DEF H!Fix, g
  <1>11. /\ InHeapOrder(f) /\ Content(f) = Content(g) /\ (Distinct(h) => Distinct(f))
    BY <1>2, <1>5, <1>6, <1>9, <1>10 DEF SameEntries, InHeapOrder
  <1>12. /\ Cell(e) \in Content(g)
         /\ \A m \in 1..Len(h) : m # i => Cell(h[m]) \in Content(g)
         /\ \A x \in Content(g) : \/ x = Cell(e)
                                  \/ \E m \in 1..Len(h) : m # i /\ x = Cell(h[m])
    BY <1>2 DEF Content
  <1>13. QED
    BY <1>11, <1>12 DEF Refitted

LEMMA FirstIsPlace ==
    ASSUME NEW h, NEW k, NEW n \in Nat, n = Len(h), Placed(h), NEW j \in 1..n, h[j].key = k
    PROVE  First(h, k) \in 1..n /\ h[First(h, k)].key = k
  <1> DEFINE P == Places(h, k)
  <1>1. \A i : i \in P <=> i \in 1..n /\ h[i].key = k
    BY DEF Places, Placed
  <1>2. P \subseteq Nat /\ j \in P
    BY <1>1
  <1> HIDE DEF P
  <1>3. PICK x \in P : \A y \in P : ~(y < x)
    <2> DEFINE R == OpToRel(<, Nat)
    <2>1. IsWellFoundedOn(R, Nat)
      BY NatLessThanWellFounded
    <2>2. \A x, y \in Nat : <<y, x>> \in R <=> y < x
      BY DEF OpToRel
    <2> HIDE DEF R
    <2>3. PICK x \in P : \A y \in P : ~(<<y, x>> \in R)
      BY <1>2, <2>1, WFMin
    <2>4. QED
      BY <1>2, <2>2, <2>3
  <1>4. \A y \in P : x <= y
    BY <1>2, <1>3
  <1>5. Min(P) \in P
    BY <1>4 DEF Min
  <1>6. QED
    BY <1>1, <1>5 DEF First, P

LEMMA NowhereIsAbsent ==
    ASSUME NEW h, NEW k, Placed(h), Places(h, k) = {}
    PROVE  \A m \in 1..Len(h) : h[m].key # k
  BY DEF Placed, Places

LEMMA WithoutReduces ==
    ASSUME NEW h, InHeapOrder(h), NEW k
    PROVE  Reduced(Without(h, k), h, {k})
  <1>1. Placed(h) /\ Len(h) \in Nat /\ DOMAIN h = 1..Len(h)
    BY DEF InHeapOrder, Placed
  <1>2. CASE Places(h, k) = {}
    <2>1. Without(h, k) = h
      BY <1>2 DEF Without
    <2>2. QED
      BY <1>1, <1>2, <2>1, NowhereIsAbsent DEF Reduced
  <1>3. CASE Places(h, k) # {}
    <2>1. PICK j \in 1..Len(h) : h[j].key = k
      BY <1>1, <1>3 DEF Places
    <2>2. First(h, k) \in 1..Len(h) /\ h[First(h, k)].key = k
      BY <1>1, <2>1, FirstIsPlace
    <2>3. PICK i : i = First(h, k)
      OBVIOUS
    <2>4. h[i].index = i /\ i \in 1..Len(h) /\ h[i].key = k
      BY <1>1, <2>2, <2>3 DEF Placed
    <2>5. Without(h, k) = H!Remove(h, i)
      BY <1>3, <2>3, <2>4 DEF Without
    <2>6. QED
      BY <2>4, <2>5, Removing
  <1>4. QED
    BY <1>2, <1>3

-----------------------------------------------------------------------------
(* Entries are deleted one after the other.                                *)

PurgeNext(h, ks, f, n) ==
    IF n = 0 THEN [heap |-> h, left |-> ks] ELSE Deleted(f[n - 1])

(* A function exists that the recursion of Purged defines.                 *)
LEMMA PurgeRecursion ==
    ASSUME NEW h, NEW ks, NEW N \in Nat
    PROVE  \E f : f = [n \in 0..N |-> PurgeNext(h, ks, f, n)]
  <1> USE DEF PurgeNext
  <1> DEFINE next(f, n) == PurgeNext(h, ks, f, n)
             S == {M \in Nat : \E f : f = [n \in 0..M |-> next(f, n)]}
  <1>1. 0 \in S
    <2> DEFINE f == [n \in 0..0 |-> [heap |-> h, left |-> ks]]
    <2>1. f = [n \in 0..0 |-> next(f, n)]
      OBVIOUS
    <2> QED
      BY <2>1
  <1>2. ASSUME NEW M \in Nat, M \in S
        PROVE  M + 1 \in S
    <2>1. PICK f : f = [n \in 0..M |-> next(f, n)]
      BY <1>2
    <2> DEFINE g == [n \in 0..(M + 1) |-> IF n = M + 1 THEN next(f, n) ELSE f[n]]
    <2>2. ASSUME NEW n \in 0..(M + 1)
          PROVE  next(g, n) = IF n = M + 1 THEN next(f, n) ELSE f[n]
      <3>1. n # 0 => n - 1 \in 0..(M + 1) /\ n - 1 # M + 1 /\ g[n - 1] = f[n - 1]
        OBVIOUS
      <3>2. n # M + 1 => n \in 0..M
        OBVIOUS
      <3>3. n # M + 1 => f[n] = next(f, n)
        BY <2>1, <3>2
      <3> HIDE DEF g
      <3> QED
        BY <3>1, <3>3
    <2>3. g = [n \in 0..(M + 1) |-> next(g, n)]
      BY <2>2
    <2>4. \E k : k = [n \in 0..(M + 1) |-> next(k, n)]
      <3> HIDE DEF g, next
      <3> QED
        BY <2>3
    <2> QED
      BY SMTT(30), <2>4
  <1>3. S = Nat
    <2>1. S \in SUBSET Nat
      OBVIOUS
    <2> HIDE DEF S
    <2> QED
      BY <1>1, <1>2, <2>1, SetInduction
  <1> QED
    BY <1>3

LEMMA PurgedReduces ==
    ASSUME NEW h, InHeapOrder(h), NEW ks, IsFiniteSet(ks)
    PROVE  Reduced(Purged(h, ks), h, ks)
  <1> DEFINE N == Cardinality(ks)
             f == CHOOSE g : g = [n \in 0..N |-> PurgeNext(h, ks, g, n)]
             Purging(w, n) == /\ IsFiniteSet(w.left) /\ w.left \subseteq ks
                              /\ Cardinality(w.left) = N - n
                              /\ Reduced(w.heap, h, ks \ w.left)
             S == {m \in Nat : m \in 0..N => Purging(f[m], m)}
  <1>1. N \in Nat
    BY FS_CardinalityType
  <1>2. f = [n \in 0..N |-> PurgeNext(h, ks, f, n)]
    <2> HIDE DEF N
    <2> QED
      BY <1>1, PurgeRecursion
  <1>3. Purged(h, ks) = f[N].heap
    BY Zenon DEF Purged, PurgeNext
  <1> HIDE DEF f
  <1>4. \A n \in 0..N : f[n] = PurgeNext(h, ks, f, n)
    <2> HIDE DEF N
    <2> QED
      BY <1>2
  <1>5. Reduced(h, h, {})
    BY DEF Reduced
  <1>6. 0 \in S
    <2>1. f[0] = [heap |-> h, left |-> ks]
      BY <1>1, <1>4 DEF PurgeNext
    <2>2. f[0].heap = h /\ f[0].left = ks /\ ks \ ks = {}
      BY <2>1
    <2>3. QED
      BY <1>1, <1>5, <2>2
  <1>7. ASSUME NEW m \in Nat, m \in S
        PROVE  m + 1 \in S
    <2>1. CASE m + 1 \in 0..N
      <3> DEFINE w == f[m]
                 k == CHOOSE k \in w.left : TRUE
                 v == f[m + 1]
      <3>1. m \in 0..N /\ m + 1 # 0 /\ m + 1 - 1 = m /\ N - m \in Nat /\ N - m # 0
        BY <1>1, <2>1
      <3>2. Purging(w, m)
        BY <1>7, <3>1
      <3>3. v = Deleted(w)
        BY <1>4, <2>1, <3>1 DEF PurgeNext
      <3>4. k \in w.left
        <4>1. w.left # {}
          BY <3>1, <3>2, FS_EmptySet
        <4>2. QED
          BY <4>1
      <3>5. v = [heap |-> Without(w.heap, k), left |-> w.left \ {k}]
        BY <3>3 DEF Deleted
      <3> HIDE DEF w, k, v
      <3>6. v.heap = Without(w.heap, k) /\ v.left = w.left \ {k}
        BY <3>5
      <3>7. Reduced(v.heap, w.heap, {k})
        <4>1. InHeapOrder(w.heap)
          BY <3>2 DEF Reduced
        <4>2. QED
          BY <3>6, <4>1, WithoutReduces
      <3>8. Reduced(v.heap, h, (ks \ w.left) \union {k})
        <4>1. Reduced(w.heap, h, ks \ w.left)
          BY <3>2
        <4>2. QED
          BY <3>7, <4>1, ReducedTwice
      <3>9. (ks \ w.left) \union {k} = ks \ v.left
        BY <3>2, <3>4, <3>6
      <3>10. IsFiniteSet(v.left) /\ Cardinality(v.left) = Cardinality(w.left) - 1
        BY <3>2, <3>4, <3>6, FS_RemoveElement
      <3>11. Cardinality(v.left) = N - (m + 1)
        BY <1>1, <3>2, <3>10
      <3>12. v.left \subseteq ks
        BY <3>2, <3>6
      <3>13. Purging(v, m + 1)
        BY <3>8, <3>9, <3>10, <3>11, <3>12
      <3>14. QED
        BY <3>13 DEF v
    <2>2. QED
      BY <2>1
  <1>8. S = Nat
    <2>1. S \in SUBSET Nat
      OBVIOUS
    <2> HIDE DEF S
    <2> QED
      BY <1>6, <1>7, <2>1, SetInduction
  <1>9. Purging(f[N], N)
    <2>1. N \in S /\ N \in 0..N
      BY <1>1, <1>8
    <2> HIDE DEF Purging, N
    <2>2. QED
      BY <2>1
  <1>10. f[N].left = {}
    <2>1. IsFiniteSet(f[N].left) /\ Cardinality(f[N].left) = 0
      BY <1>1, <1>9
    <2>2. QED
      BY <2>1, FS_EmptySet
  <1>11. Reduced(f[N].heap, h, ks)
    <2>1. ks \ {} = ks
      OBVIOUS
    <2>2. QED
      BY <1>9, <1>10, <2>1
  <1>12. QED
    BY <1>3, <1>11

KeptNext(list, ks, f, n) ==
    IF n = 0 THEN <<>>
    ELSE IF list[n] \in ks THEN f[n - 1] ELSE Append(f[n - 1], list[n])

(* A function exists that the recursion of Kept defines.                   *)
LEMMA KeptRecursion ==
    ASSUME NEW list, NEW ks, NEW N \in Nat
    PROVE  \E f : f = [n \in 0..N |-> KeptNext(list, ks, f, n)]
  <1> USE DEF KeptNext
  <1> DEFINE next(f, n) == KeptNext(list, ks, f, n)
             S == {M \in Nat : \E f : f = [n \in 0..M |-> next(f, n)]}
  <1>1. 0 \in S
    <2> DEFINE f == [n \in 0..0 |-> <<>>]
    <2>1. f = [n \in 0..0 |-> next(f, n)]
      OBVIOUS
    <2> QED
      BY <2>1
  <1>2. ASSUME NEW M \in Nat, M \in S
        PROVE  M + 1 \in S
    <2>1. PICK f : f = [n \in 0..M |-> next(f, n)]
      BY <1>2
    <2> DEFINE g == [n \in 0..(M + 1) |-> IF n = M + 1 THEN next(f, n) ELSE f[n]]
    <2>2. ASSUME NEW n \in 0..(M + 1)
          PROVE  next(g, n) = IF n = M + 1 THEN next(f, n) ELSE f[n]
      <3>1. n # 0 => n - 1 \in 0..(M + 1) /\ n - 1 # M + 1 /\ g[n - 1] = f[n - 1]
        OBVIOUS
      <3>2. n # M + 1 => n \in 0..M
        OBVIOUS
      <3>3. n # M + 1 => f[n] = next(f, n)
        BY <2>1, <3>2
      <3> HIDE DEF g
      <3> QED
        BY <3>1, <3>3
    <2>3. g = [n \in 0..(M + 1) |-> next(g, n)]
      BY <2>2
    <2>4. \E k : k = [n \in 0..(M + 1) |-> next(k, n)]
      <3> HIDE DEF g, next
      <3> QED
        BY <2>3
    <2> QED
      BY SMTT(30), <2>4
  <1>3. S = Nat
    <2>1. S \in SUBSET Nat
      OBVIOUS
    <2> HIDE DEF S
    <2> QED
      BY <1>1, <1>2, <2>1, SetInduction
  <1> QED
    BY <1>3

LEMMA Keeping ==
    ASSUME NEW T, NEW list \in Seq(T), NEW ks
    PROVE  /\ Kept(list, ks) \in Seq(T)
           /\ \A x \in Range(Kept(list, ks)) : x \in Range(list) /\ x \notin ks
  <1> DEFINE f == CHOOSE g : g = [n \in 0..Len(list) |-> KeptNext(list, ks, g, n)]
             Good(k) == /\ k \in Seq(T)
                        /\ \A i \in 1..Len(k) : k[i] \in Range(list) /\ k[i] \notin ks
             S == {m \in Nat : m \in 0..Len(list) => Good(f[m])}
  <1>1. Len(list) \in Nat /\ \A i \in 1..Len(list) : list[i] \in T /\ list[i] \in Range(list)
    BY DEF Range
  <1>2. f = [n \in 0..Len(list) |-> KeptNext(list, ks, f, n)]
    BY <1>1, KeptRecursion
  <1>3. Kept(list, ks) = f[Len(list)]
    BY Zenon DEF Kept, KeptNext
  <1> HIDE DEF f
  <1>4. \A n \in 0..Len(list) : f[n] = KeptNext(list, ks, f, n)
    BY <1>2
  <1>5. Good(<<>>)
    OBVIOUS
  <1>6. ASSUME NEW k, Good(k), NEW x \in T, x \in Range(list), x \notin ks
        PROVE  Good(Append(k, x))
    BY <1>6
  <1> HIDE DEF Good
  <1>7. 0 \in S
    BY <1>1, <1>4, <1>5 DEF KeptNext
  <1>8. ASSUME NEW m \in Nat, m \in S
        PROVE  m + 1 \in S
    <2>1. CASE m + 1 \in 0..Len(list)
      <3>1. m \in 0..Len(list) /\ m + 1 \in 1..Len(list) /\ m + 1 # 0 /\ m + 1 - 1 = m
        BY <1>1, <2>1
      <3>2. f[m + 1] = IF list[m + 1] \in ks THEN f[m] ELSE Append(f[m], list[m + 1])
        BY <1>4, <2>1, <3>1 DEF KeptNext
      <3>3. Good(f[m])
        BY <1>8, <3>1
      <3>4. Good(f[m + 1])
        BY <1>1, <1>6, <3>1, <3>2, <3>3
      <3>5. QED
        BY <3>4
    <2>2. QED
      BY <2>1
  <1>9. S = Nat
    <2>1. S \in SUBSET Nat
      OBVIOUS
    <2> HIDE DEF S
    <2> QED
      BY <1>7, <1>8, <2>1, SetInduction
  <1>10. Good(f[Len(list)])
    <2>1. Len(list) \in S /\ Len(list) \in 0..Len(list)
      BY <1>1, <1>9
    <2>2. QED
      BY <2>1
  <1>11. QED
    BY <1>3, <1>10 DEF Good, Range

-----------------------------------------------------------------------------
(* The inductive invariant: of the data and the caches, and of the work.   *)

Known(s, w, v) ==
    /\ \A k \in Key : s[k] \in {"volatile", "expired"} => k \in v
    /\ \A i \in DOMAIN w : w[i] \in v \/ w[i] = Blank

(* An LFU cache: every key is entered once, with the count of its updates. *)
Counted(p, s, e, K, u, v) ==
    /\ Distinct(e)
    /\ \A x \in Content(e) : x[1] \in K /\ x[2] = u[x[1]]
    /\ \A k \in K : \E x \in Content(e) : x[1] = k
    /\ \A k \in K : s[k] # Absent /\ u[k] > 0 /\ (p \in Volatile => k \in v)
    /\ \A k \in Key : k \notin K => u[k] = 0

Nils(e) == \E i \in DOMAIN e : e[i] = Nil

(* A database with its cache, but for the order of the heap.               *)
InStep(p, s, w, e, K, u, v) ==
    /\ Known(s, w, v)
    /\ p \in LRU => K = {}
    /\ p \in LFU /\ ~Nils(e) => Counted(p, s, e, K, u, v)

States == {"plain", "volatile", "expired", Absent}

DataTyped ==
    /\ <<policy, sample>> \in Configs
    /\ created \in SUBSET DB
    /\ store \in [DB -> [Key -> States]]
    /\ keysWithExpiry \in [DB -> Seq(Key \cup {Blank})]
    /\ entries = [d \in DB |-> entries[d]]
    /\ keys \in [DB -> SUBSET Key] /\ volatiles \in [DB -> SUBSET Key]
    /\ used \in [DB -> [Key -> Nat]]
    /\ sampled \in [DB -> SUBSET Key]
    /\ now \in Nat

DataInv ==
    /\ DataTyped
    /\ \A d \in DB : InStep(policy, store[d], keysWithExpiry[d], entries[d],
                            keys[d], used[d], volatiles[d])
    /\ \A d \in DB : policy \in Cached /\ ~Nils(entries[d]) => InHeapOrder(entries[d])

WorkTyped ==
    /\ memUsed \in Int /\ lock \in {"free", "update", "sampler"}
    /\ own \in [DB -> {"check", "evict", "store", "failed", "done"}]
    /\ late \in [DB -> {"check", "evict", "store", "done"}]
    /\ loaded \in [DB -> Int]
    /\ sampler \in [DB -> {"idle", "delete", "spin", "again", "stuck"}]

WorkInv ==
    /\ WorkTyped
    /\ \A d \in DB : own[d] # "done" => lock = "update" /\ d \in created
    /\ \A d \in DB : policy \in Cached /\ own[d] \in {"evict", "store"}
                        => late[d] \notin {"evict", "store"}
    /\ \A d \in DB : late[d] # "done" => d \in created /\ created # {d}
    /\ \A d \in DB : lock = "update" /\ created = {d} /\ own[d] = "done"
                        => ~Full(memUsed)

Inv == DataInv /\ WorkInv /\ up \in BOOLEAN

THEOREM InitialInv == EvictionInit => Inv
  <1> SUFFICES ASSUME EvictionInit PROVE Inv
    OBVIOUS
  <1>1. PICK c \in Configs : policy = c[1] /\ sample = c[2]
    BY DEF EvictionInit
  <1>2. <<policy, sample>> \in Configs
    <2>1. c = <<c[1], c[2]>>
      BY EvictionAssumption
    <2>2. QED
      BY <1>1, <2>1
  <1>3. DataTyped
    BY <1>2 DEF EvictionInit, DataTyped, States
  <1>4. ASSUME NEW d \in DB
        PROVE  /\ store[d] = [k \in Key |-> Absent] /\ keysWithExpiry[d] = <<>>
               /\ entries[d] = <<>> /\ keys[d] = {} /\ used[d] = [k \in Key |-> 0]
    BY DEF EvictionInit
  <1>5. Content(<<>>) = {} /\ Distinct(<<>>) /\ InHeapOrder(<<>>)
    BY DEF Content, Distinct, InHeapOrder, Placed, Ordered
  <1>6. ASSUME NEW d \in DB
        PROVE  /\ InStep(policy, store[d], keysWithExpiry[d], entries[d],
                         keys[d], used[d], volatiles[d])
               /\ InHeapOrder(entries[d])
    <2>1. Known(store[d], keysWithExpiry[d], volatiles[d])
      BY <1>4, EvictionAssumption DEF Known
    <2>2. Counted(policy, store[d], entries[d], keys[d], used[d], volatiles[d])
      BY <1>4, <1>5 DEF Counted
    <2>3. QED
      BY <1>4, <1>5, <2>1, <2>2 DEF InStep
  <1>7. DataInv
    BY <1>3, <1>6 DEF DataInv
  <1>8. WorkInv
    BY DEF EvictionInit, WorkInv, WorkTyped
  <1>9. up \in BOOLEAN
    BY Zenon DEF EvictionInit
  <1>10. QED
    BY <1>7, <1>8, <1>9 DEF Inv

-----------------------------------------------------------------------------
(* The data and the caches.                                                *)

LEMMA OrderPrimed ==
    ASSUME policy' = policy, NEW d \in DB, InHeapOrder(entries'[d])
    PROVE  InHeapOrder(entries[d])'
  BY DEF InHeapOrder, Ordered, Edge, Less, H!Parent, Placed

(* Only database d changes, if any.                                        *)
Becomes(d, s, w, e, K, u, v) ==
    /\ store' = [store EXCEPT ![d] = s]
    /\ keysWithExpiry' = [keysWithExpiry EXCEPT ![d] = w]
    /\ entries' = [entries EXCEPT ![d] = e]
    /\ keys' = [keys EXCEPT ![d] = K]
    /\ used' = [used EXCEPT ![d] = u]
    /\ volatiles' = [volatiles EXCEPT ![d] = v]

Around ==
    /\ UNCHANGED config
    /\ created' \in SUBSET DB /\ sampled' \in [DB -> SUBSET Key] /\ now' \in Nat

LEMMA DataStep ==
    ASSUME DataInv, Around, NEW d \in DB,
           NEW s \in [Key -> States], NEW w \in Seq(Key \cup {Blank}), NEW e,
           NEW K \in SUBSET Key, NEW u \in [Key -> Nat], NEW v \in SUBSET Key,
           Becomes(d, s, w, e, K, u, v), InStep(policy, s, w, e, K, u, v),
           policy \in Cached /\ ~Nils(e) => InHeapOrder(e)
    PROVE  DataInv'
  <1>1. policy' = policy /\ sample' = sample
    BY DEF Around, config
  <1>2. DataTyped'
    BY <1>1 DEF DataInv, DataTyped, Around, Becomes
  <1>3. ASSUME NEW b \in DB
        PROVE  /\ b = d => /\ store'[b] = s /\ keysWithExpiry'[b] = w /\ entries'[b] = e
                           /\ keys'[b] = K /\ used'[b] = u /\ volatiles'[b] = v
               /\ b # d => /\ store'[b] = store[b] /\ keysWithExpiry'[b] = keysWithExpiry[b]
                           /\ entries'[b] = entries[b] /\ keys'[b] = keys[b]
                           /\ used'[b] = used[b] /\ volatiles'[b] = volatiles[b]
    BY DEF DataInv, DataTyped, Becomes
  <1>4. ASSUME NEW b \in DB
        PROVE  InStep(policy', store'[b], keysWithExpiry'[b], entries'[b],
                      keys'[b], used'[b], volatiles'[b])
    <2>1. CASE b = d
      BY <1>1, <1>3, <2>1
    <2>2. CASE b # d
      BY <1>1, <1>3, <2>2 DEF DataInv
    <2>3. QED
      BY <2>1, <2>2
  <1>5. ASSUME NEW b \in DB, policy' \in Cached, ~Nils(entries'[b])
        PROVE  InHeapOrder(entries[b])'
    <2>1. InHeapOrder(entries'[b])
      <3>1. CASE b = d
        BY <1>1, <1>3, <1>5, <3>1
      <3>2. CASE b # d
        BY <1>1, <1>3, <1>5, <3>2 DEF DataInv
      <3>3. QED
        BY <3>1, <3>2
    <2>2. QED
      BY <1>1, <2>1, OrderPrimed
  <1>6. QED
    BY <1>2, <1>4, <1>5 DEF DataInv

LEMMA DataStays ==
    ASSUME DataInv, Around, UNCHANGED <<store, keysWithExpiry, cache>>
    PROVE  DataInv'
  <1>1. policy' = policy /\ sample' = sample
    BY DEF Around, config
  <1>2. /\ store' = store /\ keysWithExpiry' = keysWithExpiry /\ entries' = entries
        /\ keys' = keys /\ used' = used /\ volatiles' = volatiles
    BY DEF cache
  <1>3. DataTyped'
    BY <1>1, <1>2 DEF DataInv, DataTyped, Around
  <1>4. \A b \in DB : InStep(policy', store'[b], keysWithExpiry'[b], entries'[b],
                             keys'[b], used'[b], volatiles'[b])
    BY <1>1, <1>2 DEF DataInv
  <1>5. ASSUME NEW b \in DB, policy' \in Cached, ~Nils(entries'[b])
        PROVE  InHeapOrder(entries[b])'
    <2>1. InHeapOrder(entries'[b])
      BY <1>1, <1>2, <1>5 DEF DataInv
    <2>2. QED
      BY <1>1, <2>1, OrderPrimed
  <1>6. QED
    BY <1>3, <1>4, <1>5 DEF DataInv

(* A database as it is.                                                    *)
LEMMA Here ==
    ASSUME DataInv, NEW d \in DB
    PROVE  /\ store[d] \in [Key -> States] /\ keysWithExpiry[d] \in Seq(Key \cup {Blank})
           /\ keys[d] \in SUBSET Key /\ used[d] \in [Key -> Nat]
           /\ volatiles[d] \in SUBSET Key
           /\ InStep(policy, store[d], keysWithExpiry[d], entries[d],
                     keys[d], used[d], volatiles[d])
           /\ policy \in Cached /\ ~Nils(entries[d]) => InHeapOrder(entries[d])
           /\ now \in Nat /\ created \in SUBSET DB /\ sampled \in [DB -> SUBSET Key]
  BY DEF DataInv, DataTyped

LEMMA Unaltered ==
    ASSUME DataInv, NEW d \in DB
    PROVE  /\ store = [store EXCEPT ![d] = store[d]]
           /\ keysWithExpiry = [keysWithExpiry EXCEPT ![d] = keysWithExpiry[d]]
           /\ entries = [entries EXCEPT ![d] = entries[d]]
           /\ keys = [keys EXCEPT ![d] = keys[d]]
           /\ used = [used EXCEPT ![d] = used[d]]
           /\ volatiles = [volatiles EXCEPT ![d] = volatiles[d]]
  <1>1. /\ store \in [DB -> [Key -> States]]
        /\ keysWithExpiry \in [DB -> Seq(Key \cup {Blank})]
        /\ keys \in [DB -> SUBSET Key] /\ volatiles \in [DB -> SUBSET Key]
        /\ used \in [DB -> [Key -> Nat]]
    BY DEF DataInv, DataTyped
  <1>2. entries = [b \in DB |-> entries[b]]
    BY DEF DataInv, DataTyped
  <1>3. QED
    BY <1>1, <1>2

LEMMA SetValuesKeepsData ==
    ASSUME DataInv, NEW d \in DB, NEW k \in Key, SetValues(d, k)
    PROVE  DataInv'
  <1> DEFINE s == [store[d] EXCEPT ![k] = IF @ = Absent THEN "plain" ELSE @]
  <1>1. /\ store[d] \in [Key -> States] /\ keysWithExpiry[d] \in Seq(Key \cup {Blank})
        /\ keys[d] \in SUBSET Key /\ used[d] \in [Key -> Nat]
        /\ volatiles[d] \in SUBSET Key
    BY Here
  <1>2. s \in [Key -> States]
    BY <1>1 DEF States
  <1>3. \A j \in Key : /\ s[j] \in {"volatile", "expired"} => s[j] = store[d][j]
                       /\ store[d][j] # Absent => s[j] # Absent
    BY <1>1, EvictionAssumption
  <1>4. Becomes(d, s, keysWithExpiry[d], entries[d], keys[d], used[d], volatiles[d])
    <2>1. /\ store' = [store EXCEPT ![d] = s]
          /\ keysWithExpiry' = keysWithExpiry /\ entries' = entries /\ keys' = keys
          /\ used' = used /\ volatiles' = volatiles
      BY DEF SetValues, cache
    <2> HIDE DEF s
    <2>2. QED
      BY <2>1, Unaltered DEF Becomes
  <1> HIDE DEF s
  <1>5. InStep(policy, s, keysWithExpiry[d], entries[d], keys[d], used[d], volatiles[d])
    <2>1. InStep(policy, store[d], keysWithExpiry[d], entries[d], keys[d], used[d],
                 volatiles[d])
      BY Here
    <2>2. Known(s, keysWithExpiry[d], volatiles[d])
      BY <1>3, <2>1 DEF InStep, Known
    <2>3. ASSUME policy \in LFU, ~Nils(entries[d])
          PROVE  Counted(policy, s, entries[d], keys[d], used[d], volatiles[d])
      BY <1>1, <1>3, <2>1, <2>3 DEF InStep, Counted
    <2>4. QED
      BY <2>1, <2>2, <2>3 DEF InStep
  <1>6. Around
    BY DEF SetValues, Client, Around, sampling, workers, DataInv, DataTyped
  <1>7. policy \in Cached /\ ~Nils(entries[d]) => InHeapOrder(entries[d])
    BY Here
  <1>8. QED
    BY <1>1, <1>2, <1>4, <1>5, <1>6, <1>7, DataStep

LEMMA SetExpiryKeepsData ==
    ASSUME DataInv, NEW d \in DB, NEW k \in Key, NEW state \in {"volatile", "plain"},
           SetExpiry(d, k, state)
    PROVE  DataInv'
  <1> DEFINE s == [store[d] EXCEPT ![k] = state]
             w == IF k \in Range(keysWithExpiry[d]) THEN keysWithExpiry[d]
                  ELSE Append(keysWithExpiry[d], k)
             v == IF state = "plain" THEN volatiles[d] ELSE volatiles[d] \cup {k}
  <1>1. /\ store[d] \in [Key -> States] /\ keysWithExpiry[d] \in Seq(Key \cup {Blank})
        /\ keys[d] \in SUBSET Key /\ used[d] \in [Key -> Nat]
        /\ volatiles[d] \in SUBSET Key
        /\ InStep(policy, store[d], keysWithExpiry[d], entries[d], keys[d], used[d],
                  volatiles[d])
    BY Here
  <1>2. s \in [Key -> States] /\ v \in SUBSET Key /\ w \in Seq(Key \cup {Blank})
    BY <1>1 DEF States
  <1>3. Becomes(d, s, w, entries[d], keys[d], used[d], v)
    <2>1. /\ store' = [store EXCEPT ![d] = s]
          /\ keysWithExpiry' = [keysWithExpiry EXCEPT ![d] = w]
          /\ volatiles' = [volatiles EXCEPT ![d] = v]
          /\ entries' = entries /\ keys' = keys /\ used' = used
      BY DEF SetExpiry
    <2> HIDE DEF s, w, v
    <2>2. QED
      BY <2>1, Unaltered DEF Becomes
  <1>4. store[d][k] \notin {Absent, state}
    BY DEF SetExpiry
  <1>5. k \in v
    <2>1. CASE state = "plain"
      <3>1. store[d][k] \in {"volatile", "expired"}
        BY <1>1, <1>4, <2>1 DEF States
      <3>2. QED
        BY <1>1, <2>1, <3>1 DEF InStep, Known
    <2>2. CASE state # "plain"
      BY <2>2
    <2>3. QED
      BY <2>1, <2>2
  <1>6. \A i \in DOMAIN w : w[i] = k \/ \E j \in DOMAIN keysWithExpiry[d] :
                                           w[i] = keysWithExpiry[d][j]
    BY <1>1
  <1>7. \A j \in volatiles[d] : j \in v
    OBVIOUS
  <1>8. Known(s, w, v)
    <2>1. \A j \in Key : j # k => s[j] = store[d][j]
      BY <1>1
    <2> HIDE DEF s, w, v
    <2>2. \A j \in Key : s[j] \in {"volatile", "expired"} => j \in v
      BY <1>1, <1>5, <1>7, <2>1 DEF InStep, Known
    <2>3. \A i \in DOMAIN w : w[i] \in v \/ w[i] = Blank
      BY <1>1, <1>5, <1>6, <1>7 DEF InStep, Known
    <2>4. QED
      BY <2>2, <2>3 DEF Known
  <1>9. \A j \in Key : store[d][j] # Absent => s[j] # Absent
    BY <1>1, EvictionAssumption
  <1> HIDE DEF s, w, v
  <1>10. InStep(policy, s, w, entries[d], keys[d], used[d], v)
    <2>1. ASSUME policy \in LFU, ~Nils(entries[d])
          PROVE  Counted(policy, s, entries[d], keys[d], used[d], v)
      BY <1>1, <1>7, <1>9, <2>1 DEF InStep, Counted
    <2>2. QED
      BY <1>1, <1>8, <2>1 DEF InStep
  <1>11. Around
    BY DEF SetExpiry, Client, Around, sampling, workers, DataInv, DataTyped
  <1>12. policy \in Cached /\ ~Nils(entries[d]) => InHeapOrder(entries[d])
    BY Here
  <1>13. QED
    BY <1>1, <1>2, <1>3, <1>10, <1>11, <1>12, DataStep

LEMMA LapseKeepsData ==
    ASSUME DataInv, NEW d \in DB, NEW k \in Key, Lapse(d, k)
    PROVE  DataInv'
  <1> DEFINE s == [store[d] EXCEPT ![k] = "expired"]
  <1>1. /\ store[d] \in [Key -> States] /\ keysWithExpiry[d] \in Seq(Key \cup {Blank})
        /\ keys[d] \in SUBSET Key /\ used[d] \in [Key -> Nat]
        /\ volatiles[d] \in SUBSET Key
        /\ InStep(policy, store[d], keysWithExpiry[d], entries[d], keys[d], used[d],
                  volatiles[d])
    BY Here
  <1>2. s \in [Key -> States]
    BY <1>1 DEF States
  <1>3. store[d][k] = "volatile"
    BY DEF Lapse
  <1>4. \A j \in Key : /\ s[j] \in {"volatile", "expired"}
                            => store[d][j] \in {"volatile", "expired"}
                       /\ store[d][j] # Absent => s[j] # Absent
    BY <1>1, <1>3, EvictionAssumption
  <1>5. Becomes(d, s, keysWithExpiry[d], entries[d], keys[d], used[d], volatiles[d])
    <2>1. /\ store' = [store EXCEPT ![d] = s]
          /\ keysWithExpiry' = keysWithExpiry /\ entries' = entries /\ keys' = keys
          /\ used' = used /\ volatiles' = volatiles
      BY DEF Lapse, cache
    <2> HIDE DEF s
    <2>2. QED
      BY <2>1, Unaltered DEF Becomes
  <1> HIDE DEF s
  <1>6. InStep(policy, s, keysWithExpiry[d], entries[d], keys[d], used[d], volatiles[d])
    <2>1. Known(s, keysWithExpiry[d], volatiles[d])
      BY <1>1, <1>4 DEF InStep, Known
    <2>2. ASSUME policy \in LFU, ~Nils(entries[d])
          PROVE  Counted(policy, s, entries[d], keys[d], used[d], volatiles[d])
      BY <1>1, <1>4, <2>2 DEF InStep, Counted
    <2>3. QED
      BY <1>1, <2>1, <2>2 DEF InStep
  <1>7. Around
    BY DEF Lapse, Around, sampling, workers, DataInv, DataTyped
  <1>8. policy \in Cached /\ ~Nils(entries[d]) => InHeapOrder(entries[d])
    BY Here
  <1>9. QED
    BY <1>1, <1>2, <1>5, <1>6, <1>7, <1>8, DataStep

LEMMA FlushKeepsData ==
    ASSUME DataInv, NEW d \in DB, Flush(d)
    PROVE  DataInv'
  <1> DEFINE s == [k \in Key |-> Absent]
             w == [i \in DOMAIN keysWithExpiry[d] |-> Blank]
             e == [i \in DOMAIN entries[d] |-> Nil]
             u == [k \in Key |-> 0]
  <1>1. keysWithExpiry[d] \in Seq(Key \cup {Blank}) /\ Len(keysWithExpiry[d]) \in Nat
    BY Here
  <1>2. s \in [Key -> States] /\ u \in [Key -> Nat] /\ {} \in SUBSET Key
    BY DEF States
  <1>3. w \in Seq(Key \cup {Blank}) /\ \A i \in DOMAIN w : w[i] = Blank
    BY <1>1
  <1>4. Becomes(d, s, w, e, {}, u, {})
    BY DEF Flush, Becomes
  <1>5. ~Nils(e) => e = <<>>
    BY DEF Nils
  <1>6. Content(<<>>) = {} /\ Distinct(<<>>) /\ InHeapOrder(<<>>)
    BY DEF Content, Distinct, InHeapOrder, Placed, Ordered
  <1>7. Known(s, w, {})
    BY <1>3, EvictionAssumption DEF Known
  <1>8. ~Nils(e) => Counted(policy, s, e, {}, u, {})
    BY <1>5, <1>6 DEF Counted
  <1>9. Around
    BY DEF Flush, Client, Around, sampling, workers, DataInv, DataTyped
  <1> HIDE DEF s, w, e, u
  <1>10. InStep(policy, s, w, e, {}, u, {})
    BY <1>7, <1>8 DEF InStep
  <1>11. QED
    BY <1>2, <1>3, <1>4, <1>5, <1>6, <1>9, <1>10, DataStep

Cleared(f, ks, x) == [k \in Key |-> IF k \in ks THEN x ELSE f[k]]

(* What a deletion takes from the heap, it takes from the counts.          *)
LEMMA DeletedCounts ==
    ASSUME NEW p, NEW s, NEW e, NEW K \in SUBSET Key, NEW u \in [Key -> Nat],
           NEW v \in SUBSET Key, NEW ks, Counted(p, s, e, K, u, v),
           NEW r, Reduced(r, e, ks)
    PROVE  Counted(p, Cleared(s, ks, Absent), r, K \ ks, Cleared(u, ks, 0), v \ ks)
  <1> DEFINE t == Cleared(s, ks, Absent)
             z == Cleared(u, ks, 0)
  <1>1. /\ Distinct(e) /\ Distinct(r)
        /\ \A m \in 1..Len(r) : r[m].key \notin ks
        /\ \A x \in Content(r) : x \in Content(e)
        /\ \A x \in Content(e) : x[1] \notin ks => x \in Content(r)
    BY DEF Counted, Reduced
  <1>2. \A k \in Key : IF k \in ks THEN z[k] = 0 ELSE t[k] = s[k] /\ z[k] = u[k]
    BY DEF Cleared
  <1> HIDE DEF t, z
  <1>3. \A x \in Content(r) : x[1] \notin ks
    <2>1. SUFFICES ASSUME NEW x \in Content(r)
                   PROVE  x[1] \notin ks
      OBVIOUS
    <2>2. PICK m \in 1..Len(r) : x = Cell(r[m])
      BY DEF Content
    <2>3. x[1] = r[m].key
      BY <2>2 DEF Cell
    <2>4. QED
      BY <1>1, <2>3
  <1>4. \A x \in Content(r) : x[1] \in K \ ks /\ x[2] = z[x[1]]
    BY <1>1, <1>2, <1>3 DEF Counted
  <1>5. \A k \in K \ ks : \E x \in Content(r) : x[1] = k
    BY <1>1 DEF Counted
  <1>6. \A k \in K \ ks : t[k] # Absent /\ z[k] > 0 /\ (p \in Volatile => k \in v \ ks)
    BY <1>2 DEF Counted
  <1>7. \A k \in Key : k \notin K \ ks => z[k] = 0
    BY <1>2 DEF Counted
  <1>8. QED
    BY <1>1, <1>4, <1>5, <1>6, <1>7 DEF Counted, t, z

LEMMA RemovalKeepsData ==
    ASSUME DataInv, Around, NEW d \in DB, NEW ks, IsFiniteSet(ks),
           NEW h, Removal(d, ks, h),
           policy \in Cached => /\ ~Nils(entries[d]) /\ InHeapOrder(h)
                                /\ Reduced(Purged(h, ks), entries[d], ks)
    PROVE  DataInv'
  <1> DEFINE s == Cleared(store[d], ks, Absent)
             w == Kept(keysWithExpiry[d], ks)
             e == IF policy \in Cached THEN Purged(h, ks) ELSE entries[d]
             u == Cleared(used[d], ks, 0)
  <1>1. /\ store[d] \in [Key -> States] /\ keysWithExpiry[d] \in Seq(Key \cup {Blank})
        /\ keys[d] \in SUBSET Key /\ used[d] \in [Key -> Nat]
        /\ volatiles[d] \in SUBSET Key
        /\ InStep(policy, store[d], keysWithExpiry[d], entries[d], keys[d], used[d],
                  volatiles[d])
    BY Here
  <1>2. /\ s \in [Key -> States] /\ u \in [Key -> Nat]
        /\ keys[d] \ ks \in SUBSET Key /\ volatiles[d] \ ks \in SUBSET Key
    BY <1>1 DEF States, Cleared
  <1>3. /\ w \in Seq(Key \cup {Blank})
        /\ \A x \in Range(w) : x \in Range(keysWithExpiry[d]) /\ x \notin ks
    BY <1>1, Keeping
  <1>4. Becomes(d, s, w, e, keys[d] \ ks, u, volatiles[d] \ ks)
    BY DEF Removal, Becomes, Cleared
  <1>5. \A k \in Key : k \notin ks => s[k] = store[d][k]
    BY DEF Cleared
  <1>6. \A k \in Key : k \in ks => s[k] \notin {"volatile", "expired"}
    BY EvictionAssumption DEF Cleared
  <1>7. Known(s, w, volatiles[d] \ ks)
    <2> HIDE DEF s, w
    <2>1. \A k \in Key : s[k] \in {"volatile", "expired"} => k \in volatiles[d] \ ks
      BY <1>1, <1>5, <1>6 DEF InStep, Known
    <2>2. \A x \in Range(keysWithExpiry[d]) : x \in volatiles[d] \/ x = Blank
      BY <1>1 DEF InStep, Known, Range
    <2>3. \A i \in DOMAIN w : w[i] \in Range(w)
      BY DEF Range
    <2>4. \A i \in DOMAIN w : w[i] \in volatiles[d] \ ks \/ w[i] = Blank
      BY <1>3, <2>2, <2>3
    <2>5. QED
      BY <2>1, <2>4 DEF Known
  <1>8. policy \in LFU => Counted(policy, s, e, keys[d] \ ks, u, volatiles[d] \ ks)
    <2>1. SUFFICES ASSUME policy \in LFU
                   PROVE  Counted(policy, s, e, keys[d] \ ks, u, volatiles[d] \ ks)
      OBVIOUS
    <2>2. policy \in Cached
      BY <2>1 DEF Cached
    <2>3. Counted(policy, store[d], entries[d], keys[d], used[d], volatiles[d])
      BY <1>1, <2>1, <2>2 DEF InStep
    <2>4. Reduced(e, entries[d], ks)
      BY <2>2
    <2> HIDE DEF e
    <2>5. QED
      BY <1>1, <2>3, <2>4, DeletedCounts
  <1>9. policy \in Cached => InHeapOrder(e)
    BY DEF Reduced
  <1>10. policy \in LRU => keys[d] \ ks = {}
    BY <1>1 DEF InStep
  <1> HIDE DEF s, w, e, u
  <1>11. InStep(policy, s, w, e, keys[d] \ ks, u, volatiles[d] \ ks)
    BY <1>7, <1>8, <1>10 DEF InStep
  <1>12. QED
    BY <1>2, <1>3, <1>4, <1>9, <1>11, DataStep

LEMMA DeletionKeepsData ==
    ASSUME DataInv, Around, NEW d \in DB, NEW ks, IsFiniteSet(ks),
           Removal(d, ks, entries[d]), policy \in Cached => ~Flushed(d)
    PROVE  DataInv'
  <1>1. ASSUME policy \in Cached
        PROVE  /\ ~Nils(entries[d]) /\ InHeapOrder(entries[d])
               /\ Reduced(Purged(entries[d], ks), entries[d], ks)
    <2>1. ~Nils(entries[d])
      BY <1>1 DEF Nils, Flushed
    <2>2. InHeapOrder(entries[d])
      BY <1>1, <2>1, Here
    <2>3. QED
      BY <2>1, <2>2, PurgedReduces
  <1>2. PICK h : h = entries[d]
    OBVIOUS
  <1>3. QED
    BY <1>1, <1>2, RemovalKeepsData

LEMMA DeleteKeyKeepsData ==
    ASSUME DataInv, NEW d \in DB, NEW k, DeleteKey(d, k), UNCHANGED <<config, now>>
    PROVE  DataInv'
  <1>1. CASE policy \in Cached /\ Flushed(d)
    <2>1. Panic
      BY <1>1 DEF DeleteKey
    <2>2. Around
      BY <2>1 DEF Panic, Around, data, sampling, DataInv, DataTyped
    <2>3. UNCHANGED <<store, keysWithExpiry, cache>>
      BY <2>1 DEF Panic, data
    <2>4. QED
      BY <2>2, <2>3, DataStays
  <1>2. CASE ~(policy \in Cached /\ Flushed(d))
    <2>1. Removal(d, {k}, entries[d]) /\ created' = created /\ UNCHANGED sampling
      BY <1>2 DEF DeleteKey
    <2>2. Around
      BY <2>1 DEF Around, sampling, DataInv, DataTyped
    <2>3. IsFiniteSet({k})
      BY FS_Singleton
    <2>4. QED
      BY <1>2, <2>1, <2>2, <2>3, DeletionKeepsData
  <1>3. QED
    BY <1>1, <1>2

LEMMA EvictBeginKeepsData ==
    ASSUME DataInv, NEW w, NEW d \in DB, EvictBegin(w, d)
    PROVE  DataInv'
  <1>1. PICK v \in Victims(d) : Removal(d, {v.key}, v.heap)
    BY DEF EvictBegin
  <1>2. Around
    BY DEF EvictBegin, workerLeaves, Around, sampling, DataInv, DataTyped
  <1>3. IsFiniteSet({v.key})
    BY FS_Singleton
  <1>4. ASSUME policy \in Cached
        PROVE  /\ ~Nils(entries[d]) /\ InHeapOrder(v.heap)
               /\ Reduced(Purged(v.heap, {v.key}), entries[d], {v.key})
    <2>1. /\ entries[d] # <<>> /\ ~Flushed(d)
          /\ v = [key |-> entries[d][1].key, heap |-> H!Rest(entries[d])]
      BY <1>4 DEF Victims, Top
    <2>2. v.key = entries[d][1].key /\ v.heap = H!Rest(entries[d])
      BY <2>1
    <2>3. ~Nils(entries[d])
      BY <2>1 DEF Nils, Flushed
    <2>4. InHeapOrder(entries[d])
      BY <1>4, <2>3, Here
    <2>5. Reduced(v.heap, entries[d], {v.key})
      BY <2>1, <2>2, <2>4, Popping
    <2>6. InHeapOrder(v.heap)
      BY <2>5 DEF Reduced
    <2>7. Reduced(Purged(v.heap, {v.key}), v.heap, {v.key})
      BY <1>3, <2>6, PurgedReduces
    <2>8. Reduced(Purged(v.heap, {v.key}), entries[d], {v.key} \union {v.key})
      BY <2>5, <2>7, ReducedTwice
    <2>9. {v.key} \union {v.key} = {v.key}
      OBVIOUS
    <2>10. QED
      BY <2>3, <2>6, <2>8, <2>9
  <1>5. PICK ks : ks = {v.key}
    OBVIOUS
  <1>6. PICK h : h = v.heap
    OBVIOUS
  <1>7. QED
    BY <1>1, <1>2, <1>3, <1>4, <1>5, <1>6, RemovalKeepsData

(* What an update in the cache makes of the heap.                          *)
LEMMA Stamped ==
    ASSUME NEW h, InHeapOrder(h), NEW k \in Key, NEW j \in 1..Len(h), h[j].key = k,
           NEW t \in Nat,
           NEW i, i = First(h, k), NEW f, f = H!Fix([h EXCEPT ![i].time = t], i)
    PROVE  InHeapOrder(f)
  <1>1. Placed(h) /\ Len(h) \in Nat /\ h \in Seq(Entry)
    BY DEF InHeapOrder, Placed
  <1>2. i \in 1..Len(h) /\ h[i].key = k
    BY <1>1, FirstIsPlace
  <1>3. PICK e : e = [h[i] EXCEPT !.time = t]
    OBVIOUS
  <1>4. h[i] \in Entry /\ h[i].index = i
    BY <1>1, <1>2 DEF Placed
  <1>5. e \in Entry /\ e.index = i /\ e.key = h[i].key
    BY <1>3, <1>4 DEF Entry
  <1>6. [h EXCEPT ![i].time = t] = [h EXCEPT ![i] = e]
    BY <1>3
  <1>7. f = H!Fix([h EXCEPT ![i] = e], i)
    BY <1>6
  <1>8. Refitted(f, h, i, e)
    BY <1>2, <1>5, <1>7, Fixing
  <1>9. QED
    BY <1>8 DEF Refitted

LEMMA UpdatedStaysInOrder ==
    ASSUME NEW d, NEW k \in Key, policy \in LRU, keys[d] = {}, now \in Nat,
           InHeapOrder(entries[d])
    PROVE  InHeapOrder(Updated(d, k))
  <1>1. PICK h : h = H!Push(entries[d], NewEntry(d, k))
    OBVIOUS
  <1>2. PICK e : e = NewEntry(d, k)
    OBVIOUS
  <1>3. Len(entries[d]) \in Nat
    BY DEF InHeapOrder, Placed
  <1>4. e \in Entry /\ e.index = Len(entries[d]) + 1 /\ e.key = k
    BY <1>2, <1>3 DEF NewEntry, Entry
  <1>5. InHeapOrder(h) /\ Cell(e) \in Content(h)
    BY <1>1, <1>2, <1>4, Pushing
  <1>6. PICK j \in 1..Len(h) : h[j].key = k
    BY <1>4, <1>5 DEF Content, Cell
  <1>7. Updated(d, k) = H!Fix([h EXCEPT ![First(h, k)].time = now], First(h, k))
    BY <1>1 DEF Updated
  <1>8. QED
    BY <1>5, <1>6, <1>7, Stamped

LEMMA NewKeyCounts ==
    ASSUME NEW d, NEW k \in Key, policy \in LFU, k \notin keys[d], now \in Nat,
           InHeapOrder(entries[d]),
           NEW s, NEW u \in [Key -> Nat], NEW v, keys[d] \in SUBSET Key,
           Counted(policy, s, entries[d], keys[d], u, v),
           s[k] # Absent, policy \in Volatile => k \in v,
           NEW z, z = [u EXCEPT ![k] = @ + 1]
    PROVE  /\ InHeapOrder(Updated(d, k))
           /\ Counted(policy, s, Updated(d, k), keys[d] \cup {k}, z, v)
  <1>1. PICK h : h = Updated(d, k)
    OBVIOUS
  <1>2. PICK e : e = NewEntry(d, k)
    OBVIOUS
  <1>3. Len(entries[d]) \in Nat /\ \A m \in 1..Len(entries[d]) : entries[d][m] \in Entry
    BY DEF InHeapOrder, Placed
  <1>4. e \in Entry /\ e.index = Len(entries[d]) + 1 /\ e.key = k /\ e.count = 1
    BY <1>2, <1>3 DEF NewEntry, Entry
  <1>5. h = H!Push(entries[d], e)
    BY <1>1, <1>2 DEF Updated, LFU, LRU
  <1>6. \A m \in 1..Len(entries[d]) : Cell(entries[d][m]) \in Content(entries[d])
    BY DEF Content
  <1>7. \A m \in 1..Len(entries[d]) : entries[d][m].key # e.key
    BY <1>4, <1>6 DEF Counted, Cell
  <1>8. /\ InHeapOrder(h) /\ Distinct(h)
        /\ \A x : x \in Content(h) <=> x \in Content(entries[d]) \/ x = Cell(e)
    BY <1>4, <1>5, <1>7, Pushing DEF Counted
  <1>9. Cell(e)[1] = k /\ Cell(e)[2] = 1
    BY <1>4 DEF Cell
  <1>10. u[k] = 0
    BY DEF Counted
  <1>11. z[k] = 1 /\ \A j \in Key : j # k => z[j] = u[j]
    BY <1>10
  <1>12. \A x \in Content(h) : x[1] \in keys[d] \cup {k} /\ x[2] = z[x[1]]
    BY <1>8, <1>9, <1>11 DEF Counted
  <1>13. \A j \in keys[d] \cup {k} : \E x \in Content(h) : x[1] = j
    BY <1>8, <1>9 DEF Counted
  <1>14. \A j \in keys[d] \cup {k} : /\ s[j] # Absent /\ z[j] > 0
                                     /\ policy \in Volatile => j \in v
    BY <1>11 DEF Counted
  <1>15. \A j \in Key : j \notin keys[d] \cup {k} => z[j] = 0
    BY <1>11 DEF Counted
  <1>16. QED
    BY <1>1, <1>8, <1>12, <1>13, <1>14, <1>15 DEF Counted

LEMMA CountedUp ==
    ASSUME NEW h, InHeapOrder(h), NEW i \in 1..Len(h),
           NEW e, e = [h[i] EXCEPT !.count = @ + 1],
           NEW f, f = H!Fix([h EXCEPT ![i].count = @ + 1], i)
    PROVE  /\ Cell(e)[1] = h[i].key /\ Cell(e)[2] = h[i].count + 1
           /\ Refitted(f, h, i, e)
  <1>1. h[i] \in Entry /\ h[i].index = i
    BY DEF InHeapOrder, Placed
  <1>2. e \in Entry /\ e.index = i /\ e.key = h[i].key /\ e.count = h[i].count + 1
    <2>1. PICK b \in Entry : b = h[i]
      BY <1>1
    <2>2. e = [b EXCEPT !.count = b.count + 1] /\ b.index = i
      BY <1>1, <2>1
    <2>3. b.count + 1 \in Nat
      BY DEF Entry
    <2>4. QED
      BY <2>1, <2>2, <2>3 DEF Entry
  <1>3. [h EXCEPT ![i].count = @ + 1] = [h EXCEPT ![i] = e]
    OBVIOUS
  <1>4. f = H!Fix([h EXCEPT ![i] = e], i)
    BY <1>3
  <1>5. Cell(e)[1] = h[i].key /\ Cell(e)[2] = h[i].count + 1
    BY <1>2 DEF Cell
  <1>6. Refitted(f, h, i, e)
    BY <1>2, <1>4, Fixing
  <1>7. QED
    BY <1>5, <1>6

LEMMA OldKeyCounts ==
    ASSUME NEW d, NEW k \in Key, policy \in LFU, k \in keys[d], now \in Nat,
           InHeapOrder(entries[d]),
           NEW s, NEW u \in [Key -> Nat], NEW v, keys[d] \in SUBSET Key,
           Counted(policy, s, entries[d], keys[d], u, v),
           NEW z, z = [u EXCEPT ![k] = @ + 1]
    PROVE  /\ InHeapOrder(Updated(d, k))
           /\ Counted(policy, s, Updated(d, k), keys[d] \cup {k}, z, v)
  <1>1. PICK h : h = entries[d]
    OBVIOUS
  <1>2. Placed(h) /\ Len(h) \in Nat /\ \A m \in 1..Len(h) : h[m] \in Entry /\ h[m].index = m
    BY <1>1 DEF InHeapOrder, Placed
  <1>3. PICK j \in 1..Len(h) : h[j].key = k
    <2>1. PICK x \in Content(h) : x[1] = k
      BY <1>1 DEF Counted
    <2>2. QED
      BY <2>1 DEF Content, Cell
  <1>4. PICK i : i = First(h, k)
    OBVIOUS
  <1>5. i \in 1..Len(h) /\ h[i].key = k
    BY <1>2, <1>3, <1>4, FirstIsPlace
  <1>6. PICK e : e = [h[i] EXCEPT !.count = @ + 1]
    OBVIOUS
  <1>7. PICK f : f = Updated(d, k)
    OBVIOUS
  <1>8. f = H!Fix([h EXCEPT ![i].count = @ + 1], i)
    BY <1>1, <1>4, <1>7 DEF Updated, LFU, LRU
  <1>9. InHeapOrder(h)
    BY <1>1
  <1>10. Cell(e)[1] = h[i].key /\ Cell(e)[2] = h[i].count + 1 /\ Refitted(f, h, i, e)
    BY <1>5, <1>6, <1>8, <1>9, CountedUp
  <1>11. /\ InHeapOrder(f) /\ Cell(e) \in Content(f)
         /\ \A m \in 1..Len(h) : m # i => Cell(h[m]) \in Content(f)
         /\ \A x \in Content(f) : \/ x = Cell(e)
                                  \/ \E m \in 1..Len(h) : m # i /\ x = Cell(h[m])
         /\ Distinct(h) => Distinct(f)
    BY <1>10 DEF Refitted
  <1>12. \A m \in 1..Len(h) : Cell(h[m]) \in Content(h)
    BY DEF Content
  <1>13. \A m \in 1..Len(h) : /\ h[m].key \in keys[d]
                              /\ h[m].count = u[h[m].key]
                              /\ m # i => h[m].key # k
    <2>1. \A m \in 1..Len(h) : Cell(h[m])[1] = h[m].key /\ Cell(h[m])[2] = h[m].count
      BY DEF Cell
    <2>2. \A m \in 1..Len(h) : h[m].key \in keys[d] /\ h[m].count = u[h[m].key]
      <3>1. \A x \in Content(h) : x[1] \in keys[d] /\ x[2] = u[x[1]]
        BY <1>1 DEF Counted
      <3>2. SUFFICES ASSUME NEW m \in 1..Len(h)
                     PROVE  h[m].key \in keys[d] /\ h[m].count = u[h[m].key]
        OBVIOUS
      <3>3. PICK x \in Content(h) : x = Cell(h[m])
        BY <1>12
      <3>4. x[1] = h[m].key /\ x[2] = h[m].count
        BY <2>1, <3>3
      <3>5. QED
        BY <3>1, <3>4
    <2>3. Distinct(h)
      BY <1>1 DEF Counted
    <2>4. QED
      BY <1>5, <2>2, <2>3 DEF Distinct
  <1>14. z[k] = u[k] + 1 /\ \A n \in Key : n # k => z[n] = u[n]
    OBVIOUS
  <1>15. Cell(e)[1] = k /\ Cell(e)[2] = z[k]
    BY <1>5, <1>10, <1>13, <1>14
  <1>16. \A x \in Content(f) : x[1] \in keys[d] \cup {k} /\ x[2] = z[x[1]]
    <2>1. SUFFICES ASSUME NEW x \in Content(f)
                   PROVE  x[1] \in keys[d] \cup {k} /\ x[2] = z[x[1]]
      OBVIOUS
    <2>2. CASE x = Cell(e)
      BY <1>15, <2>2
    <2>3. CASE \E m \in 1..Len(h) : m # i /\ x = Cell(h[m])
      <3>1. PICK m \in 1..Len(h) : m # i /\ x = Cell(h[m])
        BY <2>3
      <3>2. x[1] = h[m].key /\ x[2] = h[m].count
        BY <3>1 DEF Cell
      <3>3. QED
        BY <1>13, <1>14, <3>1, <3>2
    <2>4. QED
      BY <1>11, <2>2, <2>3
  <1>17. \A n \in keys[d] \cup {k} : \E x \in Content(f) : x[1] = n
    <2>1. SUFFICES ASSUME NEW n \in keys[d], n # k
                   PROVE  \E x \in Content(f) : x[1] = n
      BY <1>11, <1>15
    <2>2. PICK y \in Content(h) : y[1] = n
      BY <1>1 DEF Counted
    <2>3. PICK m \in 1..Len(h) : y = Cell(h[m])
      BY DEF Content
    <2>4. h[m].key = n
      BY <2>2, <2>3 DEF Cell
    <2>5. QED
      BY <1>5, <1>11, <2>1, <2>2, <2>3, <2>4
  <1>18. \A n \in keys[d] \cup {k} : /\ s[n] # Absent /\ z[n] > 0
                                     /\ policy \in Volatile => n \in v
    BY <1>14 DEF Counted
  <1>19. \A n \in Key : n \notin keys[d] \cup {k} => z[n] = 0
    BY <1>14 DEF Counted
  <1>20. Distinct(f)
    BY <1>1, <1>11 DEF Counted
  <1>21. QED
    BY <1>7, <1>11, <1>16, <1>17, <1>18, <1>19, <1>20 DEF Counted

LEMMA UpdateKeepsData ==
    ASSUME DataInv, NEW d \in DB, NEW k \in Key, UpdateKeysInCache(d, k)
    PROVE  DataInv'
  <1>1. /\ store[d] \in [Key -> States] /\ keysWithExpiry[d] \in Seq(Key \cup {Blank})
        /\ keys[d] \in SUBSET Key /\ used[d] \in [Key -> Nat]
        /\ volatiles[d] \in SUBSET Key /\ now \in Nat
        /\ InStep(policy, store[d], keysWithExpiry[d], entries[d], keys[d], used[d],
                  volatiles[d])
        /\ policy \in Cached /\ ~Nils(entries[d]) => InHeapOrder(entries[d])
    BY Here
  <1>2. UNCHANGED <<config, now, created, sampled, store, keysWithExpiry>>
    BY DEF UpdateKeysInCache, Panic, data, sampling
  <1>3. Around
    BY <1>2 DEF Around, DataInv, DataTyped
  <1>4. CASE Eligible(d, k) /\ ~Flushed(d)
    <2> DEFINE e == Updated(d, k)
               K == IF policy \in LFU THEN keys[d] \cup {k} ELSE keys[d]
               z == [used[d] EXCEPT ![k] = @ + 1]
    <2>1. /\ entries' = [entries EXCEPT ![d] = e]
          /\ keys' = [keys EXCEPT ![d] = K]
          /\ used' = [used EXCEPT ![d] = z]
          /\ volatiles' = volatiles
      BY <1>4 DEF UpdateKeysInCache
    <2>2. z \in [Key -> Nat] /\ K \in SUBSET Key
      BY <1>1
    <2>3. policy \in Cached /\ store[d][k] # Absent /\ ~Nils(entries[d])
      BY <1>4 DEF Eligible, Flushed, Nils
    <2>4. InHeapOrder(entries[d])
      BY <1>1, <2>3
    <2>5. ASSUME policy \in LFU
          PROVE  /\ InHeapOrder(e) /\ K = keys[d] \cup {k}
                 /\ Counted(policy, store[d], e, keys[d] \cup {k}, z, volatiles[d])
      <3>1. Counted(policy, store[d], entries[d], keys[d], used[d], volatiles[d])
        BY <1>1, <2>3, <2>5 DEF InStep
      <3>2. policy \in Volatile => k \in volatiles[d]
        <4>1. SUFFICES ASSUME policy \in Volatile PROVE k \in volatiles[d]
          OBVIOUS
        <4>2. store[d][k] \in {"volatile", "expired"}
          BY <1>1, <1>4, <2>3, <4>1 DEF Eligible, States
        <4>3. QED
          BY <1>1, <4>2 DEF InStep, Known
      <3>3. CASE k \in keys[d]
        BY <1>1, <2>4, <2>5, <3>1, <3>3, OldKeyCounts
      <3>4. CASE k \notin keys[d]
        BY <1>1, <2>3, <2>4, <2>5, <3>1, <3>2, <3>4, NewKeyCounts
      <3>5. QED
        BY <2>5, <3>3, <3>4
    <2>6. ASSUME policy \in LRU
          PROVE  InHeapOrder(e) /\ K = {}
      <3>1. keys[d] = {} /\ policy \notin LFU
        BY <1>1, <2>6 DEF InStep, LRU, LFU
      <3>2. InHeapOrder(e)
        BY <1>1, <2>4, <2>6, <3>1, UpdatedStaysInOrder
      <3>3. QED
        BY <3>1, <3>2
    <2>7. InHeapOrder(e)
      BY <2>3, <2>5, <2>6 DEF Cached
    <2> HIDE DEF e, K, z
    <2>8. InStep(policy, store[d], keysWithExpiry[d], e, K, z, volatiles[d])
      BY <1>1, <2>5, <2>6 DEF InStep
    <2>9. Becomes(d, store[d], keysWithExpiry[d], e, K, z, volatiles[d])
      BY <1>2, <2>1, Unaltered DEF Becomes
    <2>10. QED
      BY <1>1, <1>3, <2>2, <2>7, <2>8, <2>9, DataStep
  <1>5. CASE ~(Eligible(d, k) /\ ~Flushed(d))
    <2>1. UNCHANGED cache
      BY <1>5 DEF UpdateKeysInCache, Panic
    <2>2. QED
      BY <1>2, <1>3, <2>1, DataStays
  <1>6. QED
    BY <1>4, <1>5

LEMMA SampleKeepsData ==
    ASSUME DataInv, NEW d \in DB, Sample(d)
    PROVE  DataInv'
  <1>1. UNCHANGED <<config, now, created, store, keysWithExpiry, cache>>
    BY DEF Sample, samplerLeaves, data
  <1>2. sampled \in [DB -> SUBSET Key] /\ keysWithExpiry[d] \in Seq(Key \cup {Blank})
    BY DEF DataInv, DataTyped
  <1>3. InReach(d) \subseteq Key
    BY <1>2 DEF InReach
  <1>4. sampled' \in [DB -> SUBSET Key]
    BY <1>2, <1>3 DEF Sample, sampling
  <1>5. Around
    BY <1>1, <1>4 DEF Around, DataInv, DataTyped
  <1>6. QED
    BY <1>1, <1>5, DataStays

LEMMA DeleteSampledKeepsData ==
    ASSUME DataInv, NEW d \in DB, DeleteSampled(d)
    PROVE  DataInv'
  <1>1. UNCHANGED <<config, now, created>>
    BY DEF DeleteSampled, samplerLeaves, Panic, data
  <1>2. sampled[d] \subseteq Key /\ sampled \in [DB -> SUBSET Key]
    BY Here
  <1>3. sampled' \in [DB -> SUBSET Key]
    BY <1>2 DEF DeleteSampled, Panic, sampling
  <1>4. Around
    BY <1>1, <1>3 DEF Around, DataInv, DataTyped
  <1>5. CASE policy \in Cached /\ Flushed(d)
    <2>1. UNCHANGED <<store, keysWithExpiry, cache>>
      BY <1>5 DEF DeleteSampled, Panic, data
    <2>2. QED
      BY <1>4, <2>1, DataStays
  <1>6. CASE ~(policy \in Cached /\ Flushed(d))
    <2>1. PICK ks : ks = sampled[d]
      OBVIOUS
    <2>2. IsFiniteSet(ks)
      BY <1>2, <2>1, FS_Subset, EvictionAssumption
    <2>3. Removal(d, ks, entries[d])
      BY <1>6, <2>1 DEF DeleteSampled
    <2>4. QED
      BY <1>4, <1>6, <2>2, <2>3, DeletionKeepsData
  <1>7. QED
    BY <1>5, <1>6

LEMMA AdjustKeepsData ==
    ASSUME DataInv, NEW d \in DB, OwnAdjust(d) \/ LateAdjust(d)
    PROVE  DataInv'
  <1>1. ASSUME NEW w, NEW next, Check(w, d, next) \/ EvictEnd(w, d, next) \/ EvictFails(w, d)
        PROVE  DataInv'
    <2>1. UNCHANGED <<config, now, created, sampled, store, keysWithExpiry, cache>>
      BY <1>1 DEF Check, EvictEnd, EvictFails, workerLeaves, sampling
    <2>2. Around
      BY <2>1 DEF Around, DataInv, DataTyped
    <2>3. QED
      BY <2>1, <2>2, DataStays
  <1>2. ASSUME NEW w, EvictPanics(w, d)
        PROVE  DataInv'
    <2>1. UNCHANGED <<config, now, created, sampled, store, keysWithExpiry, cache>>
      BY <1>2 DEF EvictPanics, Panic, data, sampling
    <2>2. Around
      BY <2>1 DEF Around, DataInv, DataTyped
    <2>3. QED
      BY <2>1, <2>2, DataStays
  <1>3. ASSUME NEW w, EvictBegin(w, d)
        PROVE  DataInv'
    BY <1>3, EvictBeginKeepsData
  <1>4. QED
    BY <1>1, <1>2, <1>3 DEF OwnAdjust, LateAdjust

(* The data, the caches and what has been sampled are in step.             *)
LEMMA DataStaysInStep == DataInv /\ [EvictionNext]_evictionVars => DataInv'
  <1> SUFFICES ASSUME DataInv, [EvictionNext]_evictionVars
               PROVE  DataInv'
    OBVIOUS
  <1>1. ASSUME UNCHANGED <<config, now, created, sampled, store, keysWithExpiry, cache>>
        PROVE  DataInv'
    <2>1. Around
      BY <1>1 DEF Around, DataInv, DataTyped
    <2>2. QED
      BY <1>1, <2>1, DataStays
  <1>2. ASSUME NEW d \in DB, NEW k \in KeysOf[d],
               \/ SetValues(d, k) \/ GetValues(d, k) \/ Del(d, k)
               \/ SetExpiry(d, k, "volatile") \/ SetExpiry(d, k, "plain")
               \/ UpdateKeysInCache(d, k) \/ Lapse(d, k)
        PROVE  DataInv'
    <2>1. k \in Key
      BY EvictionAssumption
    <2>2. CASE SetValues(d, k)
      BY <2>1, <2>2, SetValuesKeepsData
    <2>3. CASE GetValues(d, k)
      <3>1. UNCHANGED <<config, now>>
        BY <2>3 DEF GetValues, Client
      <3>2. CASE DeleteKey(d, k)
        BY <3>1, <3>2, DeleteKeyKeepsData
      <3>3. CASE UNCHANGED <<up, data, cache, memUsed, workers, sampling>>
        BY <1>1, <3>1, <3>3 DEF data, sampling
      <3>4. QED
        BY <2>3, <3>2, <3>3 DEF GetValues
    <2>4. CASE Del(d, k)
      BY <2>4, DeleteKeyKeepsData DEF Del, Client
    <2>5. CASE SetExpiry(d, k, "volatile") \/ SetExpiry(d, k, "plain")
      BY <2>1, <2>5, SetExpiryKeepsData
    <2>6. CASE UpdateKeysInCache(d, k)
      BY <2>1, <2>6, UpdateKeepsData
    <2>7. CASE Lapse(d, k)
      BY <2>1, <2>7, LapseKeepsData
    <2>8. QED
      BY <1>2, <2>2, <2>3, <2>4, <2>5, <2>6, <2>7
  <1>3. ASSUME NEW d \in DB,
               \/ Flush(d) \/ OwnAdjust(d) \/ LateAdjust(d)
               \/ Sample(d) \/ DeleteSampled(d) \/ SampleAgain(d)
        PROVE  DataInv'
    <2>1. CASE SampleAgain(d)
      BY <1>1, <2>1 DEF SampleAgain, samplerLeaves, data
    <2>2. QED
      BY <1>3, <2>1, FlushKeepsData, AdjustKeepsData, SampleKeepsData,
         DeleteSampledKeepsData
  <1>4. ASSUME Return \/ Time
        PROVE  DataInv'
    <2>1. CASE Return
      BY <1>1, <2>1 DEF Return, data, sampling
    <2>2. CASE Time
      <3>1. Around
        BY <2>2 DEF Time, Around, data, sampling, DataInv, DataTyped
      <3>2. QED
        BY <2>2, <3>1, DataStays DEF Time, data
    <2>3. QED
      BY <1>4, <2>1, <2>2
  <1>5. CASE UNCHANGED evictionVars
    BY <1>1, <1>5 DEF evictionVars, config, cache
  <1>6. QED
    BY <1>2, <1>3, <1>4, <1>5 DEF EvictionNext

-----------------------------------------------------------------------------
(* The goroutines that make room.                                          *)

LEMMA WorkStays ==
    ASSUME WorkInv, UNCHANGED <<policy, created, memUsed, workers>>,
           sampler' \in [DB -> {"idle", "delete", "spin", "again", "stuck"}]
    PROVE  WorkInv'
  BY DEF WorkInv, WorkTyped, workers, Full

(* Commands and the sampler, while no update is under way.                 *)
LEMMA IdleKeepsWork ==
    ASSUME WorkInv, lock = "free", lock' \in {"free", "sampler"},
           UNCHANGED <<policy, own, late, loaded>>,
           created \subseteq created', memUsed' \in Int,
           sampler' \in [DB -> {"idle", "delete", "spin", "again", "stuck"}]
    PROVE  WorkInv'
  <1>1. WorkTyped'
    BY DEF WorkInv, WorkTyped
  <1>2. \A d \in DB : own'[d] = "done"
    BY DEF WorkInv
  <1>3. ASSUME NEW d \in DB, late'[d] # "done"
        PROVE  d \in created' /\ created' # {d}
    <2>1. d \in created /\ created # {d}
      BY <1>3 DEF WorkInv
    <2>2. PICK b \in created : b # d
      BY <2>1
    <2>3. QED
      BY <2>1, <2>2
  <1>4. QED
    BY <1>1, <1>2, <1>3 DEF WorkInv

LEMMA ClientKeepsWork ==
    ASSUME DataInv, WorkInv, NEW d \in DB, NEW k \in Key,
           \/ SetValues(d, k) \/ GetValues(d, k) \/ Del(d, k)
           \/ SetExpiry(d, k, "volatile") \/ SetExpiry(d, k, "plain")
    PROVE  WorkInv'
  <1>1. /\ sampler \in [DB -> {"idle", "delete", "spin", "again", "stuck"}]
        /\ memUsed \in Int
    BY DEF WorkInv, WorkTyped
  <1>2. ASSUME DeleteKey(d, k)
        PROVE  memUsed' \in Int /\ UNCHANGED <<created, workers, sampling>>
    BY <1>1, <1>2 DEF DeleteKey, Panic, data
  <1>3. lock = "free" /\ policy' = policy
    BY DEF SetValues, GetValues, Del, SetExpiry, Client, config
  <1>4. UNCHANGED <<workers, sampling>> /\ memUsed' \in Int /\ created \subseteq created'
    BY <1>1, <1>2 DEF SetValues, GetValues, Del, SetExpiry, data
  <1>5. QED
    BY <1>1, <1>3, <1>4, IdleKeepsWork DEF workers, sampling

LEMMA PanicKeepsWork ==
    ASSUME WorkInv, Panic, policy' = policy
    PROVE  WorkInv'
  BY WorkStays DEF Panic, data, sampling, WorkInv, WorkTyped

LEMMA UpdateKeepsWork ==
    ASSUME WorkInv, NEW d \in DB, NEW k, UpdateKeysInCache(d, k)
    PROVE  WorkInv'
  <1>1. policy' = policy /\ lock = "free"
    BY DEF UpdateKeysInCache, config
  <1>2. CASE Eligible(d, k) /\ Flushed(d)
    BY <1>1, <1>2, PanicKeepsWork DEF UpdateKeysInCache
  <1>3. CASE ~(Eligible(d, k) /\ Flushed(d))
    <2>1. /\ lock' = "update"
          /\ own' = [b \in DB |-> IF b \in created THEN "check" ELSE "done"]
          /\ UNCHANGED <<created, memUsed, late, loaded, sampler>>
      BY <1>3 DEF UpdateKeysInCache, data, sampling
    <2>2. QED
      BY <1>1, <2>1 DEF WorkInv, WorkTyped
  <1>4. QED
    BY <1>2, <1>3

(* A goroutine of the update that holds the lock.                          *)
LEMMA OwnKeepsWork ==
    ASSUME WorkInv, NEW d \in DB, OwnAdjust(d)
    PROVE  WorkInv'
  <1>1. WorkTyped
    BY DEF WorkInv
  <1>2. CASE EvictPanics(own, d)
    BY <1>2, PanicKeepsWork DEF EvictPanics, config
  <1>3. ASSUME NEW next \in {"check", "evict", "store", "failed", "done"},
               own' = [own EXCEPT ![d] = next], own[d] # "done",
               memUsed' \in Int, loaded' \in [DB -> Int],
               UNCHANGED <<policy, created, lock, sampler, late>>,
               next \in {"evict", "store"} /\ policy \in Cached
                   => late[d] \notin {"evict", "store"},
               next = "done" => ~Full(memUsed')
        PROVE  WorkInv'
    <2>1. WorkTyped'
      BY <1>1, <1>3 DEF WorkTyped
    <2>2. lock = "update" /\ d \in created
      BY <1>3 DEF WorkInv
    <2>3. \A b \in DB : own'[b] = IF b = d THEN next ELSE own[b]
      BY <1>1, <1>3 DEF WorkTyped
    <2>4. \A b \in DB : own'[b] # "done" => lock' = "update" /\ b \in created'
      BY <1>3, <2>2, <2>3 DEF WorkInv
    <2>5. \A b \in DB : policy' \in Cached /\ own'[b] \in {"evict", "store"}
                           => late'[b] \notin {"evict", "store"}
      BY <1>3, <2>3 DEF WorkInv
    <2>6. \A b \in DB : late'[b] # "done" => b \in created' /\ created' # {b}
      BY <1>3 DEF WorkInv
    <2>7. \A b \in DB : lock' = "update" /\ created' = {b} /\ own'[b] = "done"
                           => ~Full(memUsed')
      BY <1>3, <2>2, <2>3
    <2>8. QED
      BY <2>1, <2>4, <2>5, <2>6, <2>7 DEF WorkInv, Full
  <1>4. CASE late' = late /\ \E next \in {"evict", "done"} :
                /\ Check(own, d, next) \/ EvictEnd(own, d, next)
                /\ own' = [own EXCEPT ![d] = next]
    <2>1. PICK next \in {"evict", "done"} :
                /\ Check(own, d, next) \/ EvictEnd(own, d, next)
                /\ own' = [own EXCEPT ![d] = next]
      BY <1>4
    <2>2. own[d] \in {"check", "store"}
      BY <2>1 DEF Check, EvictEnd, Worker
    <2>3. UNCHANGED <<policy, created, lock, sampler, loaded>>
      BY <2>1 DEF Check, EvictEnd, workerLeaves, config, sampling
    <2>4. memUsed' \in Int
      BY <1>1, <2>1 DEF Check, EvictEnd, WorkTyped
    <2>5. next = "evict" /\ policy \in Cached => late[d] \notin {"evict", "store"}
      <3>1. CASE Check(own, d, next)
        BY <3>1 DEF Check, CacheUnlocked
      <3>2. CASE EvictEnd(own, d, next)
        BY <3>2 DEF EvictEnd, Worker, WorkInv
      <3>3. QED
        BY <2>1, <3>1, <3>2
    <2>6. next = "done" => ~Full(memUsed')
      BY <2>1 DEF Check, EvictEnd
    <2>7. QED
      BY <1>1, <1>3, <1>4, <2>1, <2>2, <2>3, <2>4, <2>5, <2>6 DEF WorkTyped
  <1>5. CASE late' = late /\ EvictBegin(own, d) /\ own' = [own EXCEPT ![d] = "store"]
    <2>1. own[d] = "evict" /\ UNCHANGED <<policy, created, lock, sampler, memUsed>>
      BY <1>5 DEF EvictBegin, Worker, workerLeaves, config, sampling
    <2>2. loaded' \in [DB -> Int] /\ memUsed' \in Int
      BY <1>1, <1>5, <2>1 DEF EvictBegin, WorkTyped
    <2>3. policy \in Cached => late[d] \notin {"evict", "store"}
      BY <2>1 DEF WorkInv
    <2>4. QED
      BY <1>3, <1>5, <2>1, <2>2, <2>3
  <1>6. CASE late' = late /\ EvictFails(own, d) /\ own' = [own EXCEPT ![d] = "failed"]
    <2>1. /\ own[d] = "evict"
          /\ UNCHANGED <<policy, created, lock, sampler, memUsed, loaded>>
      BY <1>6 DEF EvictFails, Worker, workerLeaves, config, sampling
    <2>2. QED
      BY <1>1, <1>3, <1>6, <2>1 DEF WorkTyped
  <1>7. QED
    BY <1>2, <1>4, <1>5, <1>6 DEF OwnAdjust

(* One that goes on after its update: there is another database.           *)
LEMMA LateKeepsWork ==
    ASSUME WorkInv, NEW d \in DB, LateAdjust(d)
    PROVE  WorkInv'
  <1>1. WorkTyped
    BY DEF WorkInv
  <1>2. CASE EvictPanics(late, d)
    BY <1>2, PanicKeepsWork DEF EvictPanics, config
  <1>3. ASSUME NEW next \in {"check", "evict", "store", "done"},
               late' = [late EXCEPT ![d] = next], late[d] # "done",
               memUsed' \in Int, loaded' \in [DB -> Int],
               UNCHANGED <<policy, created, lock, sampler, own>>,
               next \in {"evict", "store"} /\ policy \in Cached
                   => own[d] \notin {"evict", "store"}
        PROVE  WorkInv'
    <2>1. WorkTyped'
      BY <1>1, <1>3 DEF WorkTyped
    <2>2. d \in created /\ created # {d}
      BY <1>3 DEF WorkInv
    <2>3. \A b \in DB : late'[b] = IF b = d THEN next ELSE late[b]
      BY <1>1, <1>3 DEF WorkTyped
    <2>4. \A b \in DB : own'[b] # "done" => lock' = "update" /\ b \in created'
      BY <1>3 DEF WorkInv
    <2>5. \A b \in DB : policy' \in Cached /\ own'[b] \in {"evict", "store"}
                           => late'[b] \notin {"evict", "store"}
      BY <1>3, <2>3 DEF WorkInv
    <2>6. \A b \in DB : late'[b] # "done" => b \in created' /\ created' # {b}
      BY <1>3, <2>2, <2>3 DEF WorkInv
    <2>7. \A b \in DB : created' # {b}
      BY <1>3, <2>2
    <2>8. QED
      BY <2>1, <2>4, <2>5, <2>6, <2>7 DEF WorkInv
  <1>4. CASE own' = own /\ \E next \in {"evict", "done"} :
                /\ Check(late, d, next) \/ EvictEnd(late, d, next)
                /\ late' = [late EXCEPT ![d] = next]
    <2>1. PICK next \in {"evict", "done"} :
                /\ Check(late, d, next) \/ EvictEnd(late, d, next)
                /\ late' = [late EXCEPT ![d] = next]
      BY <1>4
    <2>2. late[d] \in {"check", "store"}
      BY <2>1 DEF Check, EvictEnd, Worker
    <2>3. UNCHANGED <<policy, created, lock, sampler, loaded>>
      BY <2>1 DEF Check, EvictEnd, workerLeaves, config, sampling
    <2>4. memUsed' \in Int
      BY <1>1, <2>1 DEF Check, EvictEnd, WorkTyped
    <2>5. next = "evict" /\ policy \in Cached => own[d] \notin {"evict", "store"}
      <3>1. CASE Check(late, d, next)
        BY <3>1 DEF Check, CacheUnlocked
      <3>2. CASE EvictEnd(late, d, next)
        BY <3>2 DEF EvictEnd, Worker, WorkInv
      <3>3. QED
        BY <2>1, <3>1, <3>2
    <2>6. QED
      BY <1>1, <1>3, <1>4, <2>1, <2>2, <2>3, <2>4, <2>5 DEF WorkTyped
  <1>5. CASE own' = own /\ EvictBegin(late, d) /\ late' = [late EXCEPT ![d] = "store"]
    <2>1. late[d] = "evict" /\ UNCHANGED <<policy, created, lock, sampler, memUsed>>
      BY <1>5 DEF EvictBegin, Worker, workerLeaves, config, sampling
    <2>2. loaded' \in [DB -> Int] /\ memUsed' \in Int
      BY <1>1, <1>5, <2>1 DEF EvictBegin, WorkTyped
    <2>3. policy \in Cached => own[d] \notin {"evict", "store"}
      BY <2>1 DEF WorkInv
    <2>4. QED
      BY <1>3, <1>5, <2>1, <2>2, <2>3
  <1>6. CASE own' = own /\ EvictFails(late, d) /\ late' = [late EXCEPT ![d] = "done"]
    <2>1. /\ late[d] = "evict"
          /\ UNCHANGED <<policy, created, lock, sampler, memUsed, loaded>>
      BY <1>6 DEF EvictFails, Worker, workerLeaves, config, sampling
    <2>2. QED
      BY <1>1, <1>3, <1>6, <2>1 DEF WorkTyped
  <1>7. QED
    BY <1>2, <1>4, <1>5, <1>6 DEF LateAdjust

LEMMA ReturnKeepsWork ==
    ASSUME WorkInv, Return
    PROVE  WorkInv'
  <1>1. WorkTyped
    BY DEF WorkInv
  <1>2. /\ lock' = "free" /\ own' = [d \in DB |-> "done"]
        /\ UNCHANGED <<policy, created, memUsed, loaded, sampler>>
    BY DEF Return, config, data, sampling
  <1>3. \A d \in DB : own[d] # "done" => d \in created
    BY DEF WorkInv
  <1>4. CASE late' = late
    BY <1>1, <1>2, <1>4 DEF WorkInv, WorkTyped
  <1>5. CASE /\ \E d \in DB : own[d] = "failed"
             /\ late' = [d \in DB |-> IF own[d] \in {"check", "evict", "store"}
                                      THEN own[d] ELSE late[d]]
    <2>1. PICK b \in DB : own[b] = "failed"
      BY <1>5
    <2>2. late' \in [DB -> {"check", "evict", "store", "done"}]
      BY <1>1, <1>5 DEF WorkTyped
    <2>3. ASSUME NEW d \in DB, late'[d] # "done"
          PROVE  d \in created' /\ created' # {d}
      <3>1. CASE own[d] \in {"check", "evict", "store"}
        BY <1>2, <1>3, <2>1, <3>1
      <3>2. CASE own[d] \notin {"check", "evict", "store"}
        BY <1>2, <1>5, <2>3, <3>2 DEF WorkInv
      <3>3. QED
        BY <3>1, <3>2
    <2>4. WorkTyped'
      BY <1>1, <1>2, <2>2 DEF WorkTyped
    <2>5. QED
      BY <1>2, <2>3, <2>4 DEF WorkInv
  <1>6. QED
    BY <1>4, <1>5 DEF Return

LEMMA SamplerKeepsWork ==
    ASSUME WorkInv, DataInv, NEW d \in DB, Sample(d) \/ DeleteSampled(d) \/ SampleAgain(d)
    PROVE  WorkInv'
  <1>1. policy' = policy /\ WorkTyped
    BY DEF Sample, DeleteSampled, SampleAgain, samplerLeaves, config, WorkInv
  <1>2. sampler' \in [DB -> {"idle", "delete", "spin", "again", "stuck"}]
    BY <1>1 DEF Sample, DeleteSampled, SampleAgain, SamplerGoes, Panic, sampling, WorkTyped
  <1>3. CASE Sample(d) \/ SampleAgain(d)
    BY <1>1, <1>2, <1>3, WorkStays DEF Sample, SampleAgain, data
  <1>4. CASE DeleteSampled(d) /\ Panic
    BY <1>1, <1>4, PanicKeepsWork
  <1>5. CASE DeleteSampled(d) /\ ~Panic
    <2>1. /\ lock = "free" /\ lock' = "sampler"
          /\ memUsed' = memUsed - Cardinality(sampled[d])
          /\ UNCHANGED <<created, own, late, loaded>>
      BY <1>5 DEF DeleteSampled
    <2>2. Cardinality(sampled[d]) \in Nat
      <3>1. PICK ks : ks = sampled[d]
        OBVIOUS
      <3>2. ks \subseteq Key
        BY <3>1, Here
      <3>3. IsFiniteSet(ks)
        BY <3>2, FS_Subset, EvictionAssumption
      <3>4. QED
        BY <3>1, <3>3, FS_CardinalityType
    <2>3. memUsed' \in Int
      BY <1>1, <2>1, <2>2 DEF WorkTyped
    <2>4. QED
      BY <1>1, <1>2, <2>1, <2>3, IdleKeepsWork
  <1>6. QED
    BY <1>3, <1>4, <1>5

LEMMA WorkStaysApart == DataInv /\ WorkInv /\ [EvictionNext]_evictionVars => WorkInv'
  <1> SUFFICES ASSUME DataInv, WorkInv, [EvictionNext]_evictionVars
               PROVE  WorkInv'
    OBVIOUS
  <1>1. ASSUME NEW d \in DB, NEW k \in KeysOf[d],
               \/ SetValues(d, k) \/ GetValues(d, k) \/ Del(d, k)
               \/ SetExpiry(d, k, "volatile") \/ SetExpiry(d, k, "plain")
               \/ UpdateKeysInCache(d, k) \/ Lapse(d, k)
        PROVE  WorkInv'
    <2>1. k \in Key
      BY EvictionAssumption
    <2>2. CASE Lapse(d, k)
      BY <2>2, WorkStays DEF Lapse, config, sampling, WorkInv, WorkTyped
    <2>3. QED
      BY <1>1, <2>1, <2>2, ClientKeepsWork, UpdateKeepsWork
  <1>2. ASSUME NEW d \in DB,
               \/ Flush(d) \/ OwnAdjust(d) \/ LateAdjust(d)
               \/ Sample(d) \/ DeleteSampled(d) \/ SampleAgain(d)
        PROVE  WorkInv'
    <2>1. CASE Flush(d)
      <3>1. /\ lock = "free" /\ UNCHANGED <<policy, created, memUsed, workers, sampler>>
        BY <2>1 DEF Flush, Client, config, sampling
      <3>2. QED
        BY <3>1, WorkStays DEF WorkInv, WorkTyped
    <2>2. QED
      BY <1>2, <2>1, OwnKeepsWork, LateKeepsWork, SamplerKeepsWork
  <1>3. CASE Return
    BY <1>3, ReturnKeepsWork
  <1>4. CASE Time
    BY <1>4, WorkStays DEF Time, config, data, sampling, WorkInv, WorkTyped
  <1>5. CASE UNCHANGED evictionVars
    BY <1>5, WorkStays DEF evictionVars, workers, WorkInv, WorkTyped
  <1>6. QED
    BY <1>1, <1>2, <1>3, <1>4, <1>5 DEF EvictionNext

LEMMA UpIsBoolean == up \in BOOLEAN /\ [EvictionNext]_evictionVars => up' \in BOOLEAN
  <1>1. ASSUME up' = up \/ up' = FALSE, up \in BOOLEAN
        PROVE  up' \in BOOLEAN
    BY <1>1, Zenon
  <1>2. ASSUME [EvictionNext]_evictionVars
        PROVE  up' = up \/ up' = FALSE
    <2>1. ASSUME NEW d, NEW k, DeleteKey(d, k)
          PROVE  up' = up \/ up' = FALSE
      BY <2>1, Zenon DEF DeleteKey, Panic
    <2>2. ASSUME NEW d, NEW k,
                 \/ SetValues(d, k) \/ GetValues(d, k) \/ Del(d, k)
                 \/ SetExpiry(d, k, "volatile") \/ SetExpiry(d, k, "plain")
                 \/ UpdateKeysInCache(d, k) \/ Lapse(d, k)
          PROVE  up' = up \/ up' = FALSE
      BY <2>1, <2>2, Zenon DEF SetValues, GetValues, Del, SetExpiry,
         UpdateKeysInCache, Panic, Lapse
    <2>3. ASSUME NEW w, NEW d, NEW next,
                 \/ Check(w, d, next) \/ EvictEnd(w, d, next) \/ EvictFails(w, d)
                 \/ EvictBegin(w, d) \/ EvictPanics(w, d)
          PROVE  up' = up \/ up' = FALSE
      BY <2>3, Zenon DEF Check, EvictEnd, EvictFails, EvictBegin, EvictPanics,
         workerLeaves, Panic
    <2>4. ASSUME NEW d, OwnAdjust(d) \/ LateAdjust(d)
          PROVE  up' = up \/ up' = FALSE
      BY <2>3, <2>4, Zenon DEF OwnAdjust, LateAdjust
    <2>5. ASSUME NEW d, Flush(d) \/ Sample(d) \/ DeleteSampled(d) \/ SampleAgain(d)
          PROVE  up' = up \/ up' = FALSE
      BY <2>5, Zenon DEF Flush, Sample, DeleteSampled, SampleAgain, Panic
    <2>6. CASE Return \/ Time \/ UNCHANGED evictionVars
      BY <2>6, Zenon DEF Return, Time, evictionVars
    <2>7. QED
      BY <1>2, <2>2, <2>4, <2>5, <2>6, Zenon DEF EvictionNext
  <1>3. QED
    BY <1>1, <1>2, Zenon

(* The invariant is inductive: whatever the clients, the sampler and the   *)
(* goroutines of evictions do, the data, the caches and the locks stay in  *)
(* step.                                                                   *)
THEOREM InvIsInductive == Inv /\ [EvictionNext]_evictionVars => Inv'
  BY DataStaysInStep, WorkStaysApart, UpIsBoolean, Zenon DEF Inv

(* The same, of the behaviours.                                            *)
THEOREM InvAlwaysHolds == EvictionSpec => []Inv
  BY InitialInv, InvIsInductive, PTL DEF EvictionSpec

-----------------------------------------------------------------------------
(* What the invariant gives.                                               *)

LEMMA TypesFollow == Inv => EvictionTypeOK
  <1> SUFFICES ASSUME Inv PROVE EvictionTypeOK
    OBVIOUS
  <1>1. DataTyped /\ WorkTyped
    BY DEF Inv, DataInv, WorkInv
  <1>2. ASSUME NEW d \in DB
        PROVE  Range(keysWithExpiry[d]) \subseteq Key \cup {Blank}
    <2>1. PICK w \in Seq(Key \cup {Blank}) : w = keysWithExpiry[d]
      BY <1>1 DEF DataTyped
    <2>2. QED
      BY <2>1 DEF Range
  <1>3. ASSUME NEW d \in DB
        PROVE  /\ \A k \in Key : store[d][k] \in {"plain", "volatile", "expired", Absent}
               /\ keys[d] \subseteq Key
    BY <1>1 DEF DataTyped, States
  <1>4. ASSUME NEW d \in DB
        PROVE  /\ own[d] \in {"check", "evict", "store", "failed", "done"}
               /\ late[d] \in {"check", "evict", "store", "done"}
               /\ sampler[d] \in {"idle", "delete", "spin", "again", "stuck"}
    BY <1>1 DEF WorkTyped
  <1>5. /\ <<policy, sample>> \in Configs /\ created \subseteq DB
        /\ memUsed \in Int /\ lock \in {"free", "update", "sampler"}
    BY <1>1 DEF DataTyped, WorkTyped
  <1>6. up \in BOOLEAN
    BY Zenon DEF Inv
  <1>7. QED
    BY <1>2, <1>3, <1>4, <1>5, <1>6, Zenon DEF EvictionTypeOK

(* As many keys as entries.                                                *)
LEMMA CountOfKeys ==
    ASSUME NEW h, Placed(h), Distinct(h), NEW K,
           \A i \in 1..Len(h) : h[i].key \in K,
           \A k \in K : \E i \in 1..Len(h) : h[i].key = k
    PROVE  Cardinality(K) = Len(h)
  <1>1. PICK n \in Nat : n = Len(h)
    BY DEF Placed
  <1>2. PICK S : S = 1..n
    OBVIOUS
  <1>3. PICK f : f = [i \in S |-> h[i].key]
    OBVIOUS
  <1>4. f \in [S -> K] /\ \A k \in K : \E i \in S : f[i] = k
    BY <1>1, <1>2, <1>3
  <1>5. \A i, j \in S : f[i] = f[j] => i = j
    BY <1>1, <1>2, <1>3 DEF Distinct
  <1>6. f \in Surjection(S, K)
    BY <1>4 DEF Surjection
  <1>7. f \in Injection(S, K)
    BY <1>4, <1>5 DEF Injection, IsInjective
  <1>8. IsFiniteSet(S) /\ Cardinality(S) = n
    BY <1>2, FS_Interval
  <1>9. Cardinality(K) = Cardinality(S)
    BY <1>6, <1>7, <1>8, FS_Surjection
  <1>10. QED
    BY <1>1, <1>8, <1>9

LEMMA HeapsFollow == Inv => HeapConsistent
  <1> SUFFICES ASSUME Inv, policy \in Cached, NEW d \in DB, ~Flushed(d),
                      NEW h, h = entries[d]
               PROVE  /\ \A i \in DOMAIN h :
                            h[i].index = i /\ (i > 1 => ~Less(h[i], h[i \div 2]))
                      /\ policy \in LFU =>
                            /\ keys[d] = {h[i].key : i \in DOMAIN h}
                            /\ Cardinality(keys[d]) = Len(h)
                            /\ \A k \in keys[d] : store[d][k] # Absent
    BY DEF HeapConsistent
  <1>1. DataInv
    BY DEF Inv
  <1>2. ~Nils(entries[d])
    BY DEF Flushed, Nils
  <1>3. InHeapOrder(h)
    BY <1>1, <1>2, Here
  <1>4. Placed(h) /\ Len(h) \in Nat /\ DOMAIN h = 1..Len(h)
    BY <1>3 DEF InHeapOrder, Placed
  <1>5. ASSUME NEW i \in DOMAIN h
        PROVE  h[i].index = i /\ (i > 1 => ~Less(h[i], h[i \div 2]))
    <2>1. h[i].index = i /\ i \in 1..Len(h)
      BY <1>4 DEF Placed
    <2>2. ASSUME i > 1
          PROVE  ~Less(h[i], h[i \div 2])
      <3>1. i \in 2..Len(h)
        BY <1>4, <2>1, <2>2
      <3>2. ~Less(h[i], h[H!Parent(i)])
        BY <1>3, <3>1 DEF InHeapOrder, Ordered, Edge
      <3>3. QED
        BY <3>2 DEF H!Parent
    <2>3. QED
      BY <2>1, <2>2
  <1>6. ASSUME policy \in LFU
        PROVE  /\ keys[d] = {h[i].key : i \in DOMAIN h}
               /\ Cardinality(keys[d]) = Len(h)
               /\ \A k \in keys[d] : store[d][k] # Absent
    <2>1. Counted(policy, store[d], h, keys[d], used[d], volatiles[d])
      BY <1>1, <1>2, <1>6, Here DEF InStep
    <2>2. Distinct(h) /\ \A k \in keys[d] : store[d][k] # Absent
      BY <2>1 DEF Counted
    <2>3. \A i \in 1..Len(h) : h[i].key \in keys[d]
      <3>1. \A i \in 1..Len(h) : Cell(h[i]) \in Content(h) /\ Cell(h[i])[1] = h[i].key
        BY DEF Content, Cell
      <3>2. QED
        BY <2>1, <3>1 DEF Counted
    <2>4. \A k \in keys[d] : \E i \in 1..Len(h) : h[i].key = k
      <3>1. \A x \in Content(h) : \E i \in 1..Len(h) : x[1] = h[i].key
        BY DEF Content, Cell
      <3>2. QED
        BY <2>1, <3>1 DEF Counted
    <2>5. Cardinality(keys[d]) = Len(h)
      BY <1>4, <2>2, <2>3, <2>4, CountOfKeys
    <2>6. keys[d] = {h[i].key : i \in DOMAIN h}
      <3>1. PICK K : K = keys[d]
        OBVIOUS
      <3>2. \A k \in K : \E i \in DOMAIN h : k = h[i].key
        BY <1>4, <2>4, <3>1
      <3>3. ASSUME NEW i \in DOMAIN h
            PROVE  h[i].key \in K
        BY <1>4, <2>3, <3>1
      <3>4. K = {h[i].key : i \in DOMAIN h}
        BY <3>2, <3>3, Zenon
      <3>5. QED
        BY <3>1, <3>4
    <2>7. QED
      BY <2>2, <2>5, <2>6
  <1>7. QED
    BY <1>5, <1>6

(* The type invariant.                                                     *)
THEOREM TypesHold == EvictionSpec => []EvictionTypeOK
  BY InvAlwaysHolds, TypesFollow, PTL

(* The caches are in step with the keyspace, and their heaps in order, and *)
(* no two goroutines evict from one cache.                                 *)
THEOREM CachesStayConsistent == EvictionSpec => []CachesConsistent
  <1>1. Inv => EvictionsApart
    BY DEF Inv, WorkInv, EvictionsApart
  <1>2. Inv => CachesConsistent
    BY <1>1, TypesFollow, HeapsFollow DEF CachesConsistent
  <1>3. QED
    BY <1>2, InvAlwaysHolds, PTL

(* The top of a heap in order is least.                                    *)
LEMMA TopIsLeast ==
    ASSUME NEW h, InHeapOrder(h), NEW m \in 1..Len(h)
    PROVE  ~Less(h[m], h[1])
  <1>1. Len(h) \in Nat /\ \A i \in 1..Len(h) : h[i] \in Entry
    BY DEF InHeapOrder, Placed
  <1> DEFINE B == {i \in 1..Len(h) : Less(h[i], h[1])}
  <1>2. SUFFICES ASSUME m \in B PROVE FALSE
    OBVIOUS
  <1>3. PICK x \in B : \A y \in B : ~(y < x)
    <2> DEFINE R == OpToRel(<, Nat)
    <2>1. IsWellFoundedOn(R, Nat)
      BY NatLessThanWellFounded
    <2>2. \A y, z \in Nat : <<y, z>> \in R <=> y < z
      BY DEF OpToRel
    <2>3. B \subseteq Nat /\ m \in B
      BY <1>1, <1>2
    <2> HIDE DEF R, B
    <2>4. PICK x \in B : \A y \in B : ~(<<y, x>> \in R)
      BY <2>1, <2>3, WFMin
    <2>5. QED
      BY <2>2, <2>3, <2>4
  <1>4. x \in 1..Len(h) /\ Less(h[x], h[1]) /\ 1 \in 1..Len(h)
    BY <1>1
  <1>5. x # 1
    BY <1>1, <1>4, LessAsymmetric
  <1>6. x \in 2..Len(h) /\ x \in Nat /\ x >= 2
    BY <1>1, <1>4, <1>5
  <1>7. PICK p \in Nat : p = H!Parent(x) /\ p >= 1 /\ p < x
    BY <1>6, Halves
  <1>8. p \in 1..Len(h) /\ p \notin B
    BY <1>1, <1>3, <1>6, <1>7
  <1>9. ~Less(h[p], h[1])
    BY <1>8
  <1>10. ~Less(h[x], h[p])
    BY <1>6, <1>7 DEF InHeapOrder, Ordered, Edge
  <1>11. ~Less(h[x], h[1])
    BY <1>1, <1>4, <1>8, <1>9, <1>10, NotLessTransitive
  <1>12. QED
    BY <1>4, <1>11

(* A step that evicts is the one that an eviction begins with.             *)
LEMMA EvictionsBegin ==
    ASSUME Inv, [EvictionNext]_evictionVars, NEW d \in DB, NEW k \in Key, Evicts(d, k)
    PROVE  \E v \in Victims(d) : Removal(d, {v.key}, v.heap)
  <1>1. /\ store[d][k] # Absent /\ store'[d][k] = Absent
        /\ ~(own'[d] = own[d] /\ late'[d] = late[d])
    BY DEF Evicts
  <1>2. /\ own \in [DB -> {"check", "evict", "store", "failed", "done"}]
        /\ late \in [DB -> {"check", "evict", "store", "done"}]
    BY DEF Inv, WorkInv, WorkTyped
  <1>3. ~UNCHANGED workers /\ store' # store
    BY <1>1 DEF workers
  <1>4. ASSUME NEW w, NEW b, NEW next,
               \/ Check(w, b, next) \/ EvictEnd(w, b, next) \/ EvictFails(w, b)
               \/ EvictPanics(w, b)
        PROVE  FALSE
    BY <1>3, <1>4 DEF Check, EvictEnd, EvictFails, EvictPanics, Panic, data
  <1>5. ASSUME NEW b, NEW j,
               \/ SetValues(b, j) \/ GetValues(b, j) \/ Del(b, j)
               \/ SetExpiry(b, j, "volatile") \/ SetExpiry(b, j, "plain")
               \/ UpdateKeysInCache(b, j) \/ Lapse(b, j)
        PROVE  FALSE
    <2>1. ~DeleteKey(b, j) /\ ~Panic
      BY <1>3 DEF DeleteKey, Panic
    <2>2. QED
      BY <1>3, <1>5, <2>1 DEF SetValues, GetValues, Del, SetExpiry, UpdateKeysInCache,
         Lapse, data
  <1>6. ASSUME NEW b, Flush(b) \/ Sample(b) \/ DeleteSampled(b) \/ SampleAgain(b)
        PROVE  FALSE
    <2>1. CASE Flush(b) \/ Sample(b) \/ SampleAgain(b)
      BY <1>3, <2>1 DEF Flush, Sample, SampleAgain
    <2>2. CASE DeleteSampled(b)
      <3>1. own' = own /\ late' = late
        BY <2>2 DEF DeleteSampled, Panic, workers
      <3>2. QED
        BY <1>1, <3>1
    <2>3. QED
      BY <1>6, <2>1, <2>2
  <1>7. ~Return /\ ~Time /\ ~UNCHANGED evictionVars
    BY <1>3 DEF Return, Time, evictionVars, data, workers
  <1>8. PICK b \in DB : OwnAdjust(b) \/ LateAdjust(b)
    BY <1>5, <1>6, <1>7 DEF EvictionNext
  <1>9. CASE OwnAdjust(b)
    <2>1. EvictBegin(own, b) /\ own' = [own EXCEPT ![b] = "store"] /\ late' = late
      BY <1>4, <1>9 DEF OwnAdjust
    <2>2. b = d
      BY <1>1, <1>2, <2>1
    <2>3. QED
      BY <2>1, <2>2 DEF EvictBegin
  <1>10. CASE LateAdjust(b)
    <2>1. EvictBegin(late, b) /\ late' = [late EXCEPT ![b] = "store"] /\ own' = own
      BY <1>4, <1>10 DEF LateAdjust
    <2>2. b = d
      BY <1>1, <1>2, <2>1
    <2>3. QED
      BY <2>1, <2>2 DEF EvictBegin
  <1>11. QED
    BY <1>8, <1>9, <1>10

LEMMA EvictedIsVictim ==
    ASSUME Inv, [EvictionNext]_evictionVars, NEW d \in DB, NEW k \in Key, Evicts(d, k)
    PROVE  \E v \in Victims(d) : v.key = k
  <1>1. PICK v \in Victims(d) : Removal(d, {v.key}, v.heap)
    BY EvictionsBegin
  <1>2. store' = [store EXCEPT ![d] = [j \in Key |-> IF j \in {v.key} THEN Absent ELSE @[j]]]
    BY <1>1 DEF Removal
  <1>3. store \in [DB -> [Key -> States]]
    BY DEF Inv, DataInv, DataTyped
  <1>4. store'[d][k] = IF k = v.key THEN Absent ELSE store[d][k]
    BY <1>2, <1>3
  <1>5. QED
    BY <1>1, <1>4 DEF Evicts

(* What an LFU cache gives up is at its top.                               *)
LEMMA TopOfCounts ==
    ASSUME DataInv, NEW d \in DB, NEW k \in Key, policy \in LFU,
           NEW v \in Victims(d), v.key = k
    PROVE  /\ used[d][k] > 0
           /\ \A j \in Key : used[d][j] > 0 => used[d][k] <= used[d][j]
           /\ policy \in Volatile => k \in volatiles[d]
  <1>1. PICK h : h = entries[d]
    OBVIOUS
  <1>2. h # <<>> /\ ~Nils(entries[d]) /\ k = h[1].key
    BY <1>1 DEF Victims, Top, Flushed, Nils, Cached
  <1>3. InHeapOrder(h)
    BY <1>1, <1>2, Here DEF Cached
  <1>4. Len(h) \in Nat /\ h \in Seq(Entry) /\ \A m \in 1..Len(h) : h[m] \in Entry
    BY <1>3 DEF InHeapOrder, Placed
  <1>5. 1 \in 1..Len(h)
    BY <1>2, <1>4
  <1>6. Counted(policy, store[d], h, keys[d], used[d], volatiles[d])
    BY <1>1, <1>2, Here DEF InStep
  <1>7. keys[d] \in SUBSET Key /\ used[d] \in [Key -> Nat]
    BY Here
  <1>8. ASSUME NEW m \in 1..Len(h)
        PROVE  /\ h[m].key \in keys[d] /\ used[d][h[m].key] = h[m].count
               /\ h[1].count <= h[m].count
    <2>1. Cell(h[m]) \in Content(h) /\ Cell(h[m])[1] = h[m].key /\ Cell(h[m])[2] = h[m].count
      BY DEF Content, Cell
    <2>2. h[m].key \in keys[d] /\ used[d][h[m].key] = h[m].count
      BY <1>6, <2>1 DEF Counted
    <2>3. ~Less(h[m], h[1])
      BY <1>3, TopIsLeast
    <2>4. h[m].count \in Nat /\ h[1].count \in Nat
      BY <1>4, <1>5 DEF Entry
    <2>5. QED
      BY <2>2, <2>3, <2>4 DEF Less
  <1>9. k \in keys[d] /\ used[d][k] = h[1].count
    BY <1>2, <1>5, <1>8
  <1>10. used[d][k] > 0 /\ (policy \in Volatile => k \in volatiles[d])
    BY <1>6, <1>9 DEF Counted
  <1>11. ASSUME NEW j \in Key, used[d][j] > 0
         PROVE  used[d][k] <= used[d][j]
    <2>1. j \in keys[d]
      BY <1>6, <1>7, <1>11 DEF Counted
    <2>2. PICK x \in Content(h) : x[1] = j
      BY <1>6, <2>1 DEF Counted
    <2>3. PICK m \in 1..Len(h) : x = Cell(h[m])
      BY DEF Content
    <2>4. h[m].key = j
      BY <2>2, <2>3 DEF Cell
    <2>5. QED
      BY <1>8, <1>9, <2>4
  <1>12. QED
    BY <1>10, <1>11

(* LFU evicts a key that was updated in the cache no more often than any   *)
(* other key there, whoever evicts and whatever the caches went through.   *)
THEOREM LeastUsedIsEvicted == EvictionSpec => LeastUsedEvicted
  <1>1. Inv /\ [EvictionNext]_evictionVars =>
            [\A d \in DB, k \in Key : policy \in LFU /\ Evicts(d, k) =>
                /\ used[d][k] > 0
                /\ \A j \in Key : used[d][j] > 0 => used[d][k] <= used[d][j]]_evictionVars
    <2>1. SUFFICES ASSUME Inv, [EvictionNext]_evictionVars, NEW d \in DB, NEW k \in Key,
                          policy \in LFU, Evicts(d, k)
                   PROVE  /\ used[d][k] > 0
                          /\ \A j \in Key : used[d][j] > 0 => used[d][k] <= used[d][j]
      OBVIOUS
    <2>2. DataInv
      BY <2>1 DEF Inv
    <2>3. PICK v \in Victims(d) : v.key = k
      BY <2>1, EvictedIsVictim
    <2>4. QED
      BY <2>1, <2>2, <2>3, TopOfCounts
  <1>2. QED
    BY <1>1, InvAlwaysHolds, PTL DEF EvictionSpec, LeastUsedEvicted

(* Under volatile-lfu and volatile-random no key that has never had a      *)
(* deadline is evicted.                                                    *)
THEOREM NeverVolatileIsKept == EvictionSpec => NeverVolatileStays
  <1>1. Inv /\ [EvictionNext]_evictionVars =>
            [\A d \in DB, k \in Key :
                policy \in Volatile \ LRU /\ Evicts(d, k) => k \in volatiles[d]]_evictionVars
    <2>1. SUFFICES ASSUME Inv, [EvictionNext]_evictionVars, NEW d \in DB, NEW k \in Key,
                          policy \in Volatile \ LRU, Evicts(d, k)
                   PROVE  k \in volatiles[d]
      OBVIOUS
    <2>2. DataInv
      BY <2>1 DEF Inv
    <2>3. PICK v \in Victims(d) : v.key = k
      BY <2>1, EvictedIsVictim
    <2>4. CASE policy \in LFU
      BY <2>1, <2>2, <2>3, <2>4, TopOfCounts
    <2>5. CASE policy \notin LFU
      <3>1. policy = "volatile-random" /\ policy \notin Cached
        BY <2>1, <2>5 DEF Volatile, LRU, LFU, Cached
      <3>2. PICK i \in DOMAIN keysWithExpiry[d] : k = keysWithExpiry[d][i]
        BY <2>3, <3>1 DEF Victims, Others
      <3>3. Known(store[d], keysWithExpiry[d], volatiles[d])
        BY <2>2, Here DEF InStep
      <3>4. QED
        BY <3>2, <3>3, EvictionAssumption DEF Known
    <2>6. QED
      BY <2>4, <2>5
  <1>2. QED
    BY <1>1, InvAlwaysHolds, PTL DEF EvictionSpec, NeverVolatileStays

(* With one database, an update that returns without an error leaves the   *)
(* memory below the limit.                                                 *)
THEOREM LimitIsRestored == EvictionSpec => LimitRestored
  <1>1. Inv /\ [EvictionNext]_evictionVars =>
            [lock = "update" /\ lock' = "free" /\ Cardinality(created) = 1
                /\ (\A d \in DB : own[d] # "failed") => ~Full(memUsed)]_evictionVars
    <2>1. SUFFICES ASSUME Inv, [EvictionNext]_evictionVars, lock = "update", lock' = "free",
                          Cardinality(created) = 1, \A d \in DB : own[d] # "failed"
                   PROVE  ~Full(memUsed)
      OBVIOUS
    <2>2. ASSUME NEW w, NEW d, NEW next,
                 \/ Check(w, d, next) \/ EvictEnd(w, d, next) \/ EvictFails(w, d)
                 \/ EvictBegin(w, d) \/ EvictPanics(w, d)
          PROVE  FALSE
      BY <2>1, <2>2 DEF Check, EvictEnd, EvictFails, EvictBegin, EvictPanics,
         workerLeaves, Panic, workers
    <2>3. ASSUME NEW d, OwnAdjust(d) \/ LateAdjust(d)
          PROVE  FALSE
      BY <2>2, <2>3 DEF OwnAdjust, LateAdjust
    <2>4. ASSUME NEW d, NEW k,
                 \/ SetValues(d, k) \/ GetValues(d, k) \/ Del(d, k)
                 \/ SetExpiry(d, k, "volatile") \/ SetExpiry(d, k, "plain")
                 \/ UpdateKeysInCache(d, k) \/ Lapse(d, k)
          PROVE  FALSE
      BY <2>1, <2>4 DEF SetValues, GetValues, Del, SetExpiry, Client,
         UpdateKeysInCache, Lapse, workers
    <2>5. ASSUME NEW d, Flush(d) \/ Sample(d) \/ DeleteSampled(d) \/ SampleAgain(d)
          PROVE  FALSE
      BY <2>1, <2>5 DEF Flush, Client, Sample, DeleteSampled, SampleAgain, workers
    <2>6. ~Time /\ ~UNCHANGED evictionVars
      BY <2>1 DEF Time, evictionVars, workers
    <2>7. Return
      BY <2>1, <2>3, <2>4, <2>5, <2>6 DEF EvictionNext
    <2>8. \A d \in DB : own[d] = "done"
      BY <2>1, <2>7 DEF Return
    <2>9. created \subseteq DB
      BY <2>1 DEF Inv, DataInv, DataTyped
    <2>10. IsFiniteSet(created)
      BY <2>9, FS_Subset, EvictionAssumption
    <2>11. PICK d : created = {d}
      BY <2>1, <2>10, FS_Singleton
    <2>12. QED
      BY <2>1, <2>8, <2>9, <2>11 DEF Inv, WorkInv
  <1>2. QED
    BY <1>1, InvAlwaysHolds, PTL DEF EvictionSpec, LimitRestored
=============================================================================
