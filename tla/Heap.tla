-------------------------------- MODULE Heap --------------------------------
(***************************************************************************)
(* container/heap of Go's library, as the eviction caches use it: a binary *)
(* heap in a sequence, whose entries know their place (Swap keeps the      *)
(* index field).  Less(a, b): a is nearer to the top.  Places count from 1.*)
(***************************************************************************)
EXTENDS Naturals, Sequences

CONSTANT Less(_, _)

Parent(i) == i \div 2

Swap(h, i, j) == [h EXCEPT ![i] = [h[j] EXCEPT !.index = i],
                           ![j] = [h[i] EXCEPT !.index = j]]

(* Where the loops of up and down take the entry at i next: to the place   *)
(* of its parent, or of its lesser child among the first n; i if to none.  *)
Above(h, i) == IF i > 1 /\ Less(h[i], h[Parent(i)]) THEN Parent(i) ELSE i

Below(h, i, n) ==
    LET l == 2 * i
        c == IF l < n /\ Less(h[l + 1], h[l]) THEN l + 1 ELSE l
    IN IF l <= n /\ Less(h[c], h[i]) THEN c ELSE i

Moved(w, way, n) ==
    LET c == IF way = "up" THEN Above(w.heap, w.at) ELSE Below(w.heap, w.at, n)
    IN IF c = w.at THEN w ELSE [heap |-> Swap(w.heap, c, w.at), at |-> c]

(* Each turn halves or doubles the place.                                  *)
Walk(h, i, n, way) ==
    LET walk[m \in 0..(n \div 2)] == IF m = 0 THEN [heap |-> h, at |-> i]
                                     ELSE Moved(walk[m - 1], way, n)
    IN walk[n \div 2]

Up(h, j) == Walk(h, j, Len(h), "up").heap
Down(h, i, n) == Walk(h, i, n, "down")

(* down tells whether it has moved the entry.                              *)
Sift(h, i, n) == LET d == Down(h, i, n)
                 IN IF d.at > i THEN d.heap ELSE Walk(h, i, n, "up").heap

Fix(h, i) == Sift(h, i, Len(h))

Push(h, e) == Up(Append(h, e), Len(h) + 1)

Front(h) == SubSeq(h, 1, Len(h) - 1)

(* heap.Pop: the rest of the heap, once the top is taken.                  *)
Rest(h) == Front(Down(Swap(h, 1, Len(h)), 1, Len(h) - 1).heap)

Remove(h, i) ==
    LET n == Len(h) IN
    IF i = n THEN Front(h) ELSE Front(Sift(Swap(h, i, n), i, n - 1))
=============================================================================
