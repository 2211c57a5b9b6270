---------------------------- MODULE Transfer_proofs ----------------------------
(***************************************************************************)
(* Transfers: for any files, chunk sizes, fingerprints, windows and field  *)
(* widths, what a transfer stores is the file, in chunks that keep their   *)
(* limits, and its rows and pages can be relied on.  The proof rests on    *)
(* what a fold runs through (FoldRuns): sums, concatenations and lists     *)
(* without repetition are folds, the chunks' ends a recursion of the same  *)
(* kind.  And the worker pool, whose threads verify what was stored, for   *)
(* any number of tasks, slots, silent ends and throws.                     *)
(***************************************************************************)
EXTENDS Transfer, WorkerPool, FiniteSetTheorems, SequenceTheorems, WellFoundedInduction, TLAPS

-----------------------------------------------------------------------------
(* Least elements, and functions defined by recursion                       *)

(* A set of numbers has a least element, which Least chooses.               *)
LEMMA LeastElement ==
  ASSUME NEW S, S \subseteq Nat, S # {}
  PROVE  Least(S) \in S /\ \A y \in S : Least(S) <= y
<1>1. PICK x \in S : \A y \in S : ~ (<<y, x>> \in OpToRel(<, Nat))
  BY NatLessThanWellFounded, WFMin
<1>2. \A y \in S : x <= y
  <2>1. \A y \in S : ~ (y < x) /\ x \in Nat /\ y \in Nat
    BY <1>1 DEF OpToRel
  <2>2. QED
    BY <2>1
<1>3. QED
  BY <1>2 DEF Least

(* Induction on a set of numbers.                                           *)
LEMMA SetInduction ==
  ASSUME NEW T, 0 \in T, \A n \in Nat : n \in T => n + 1 \in T
  PROVE  Nat \subseteq T
<1> DEFINE bad == Nat \ T
           m == Least(bad)
<1> SUFFICES ASSUME bad # {} PROVE FALSE
  OBVIOUS
<1>1. m \in bad /\ \A n \in bad : m <= n
  BY LeastElement
<1> HIDE DEF m
<1>2. m - 1 \in Nat /\ m - 1 \notin bad
  BY <1>1
<1>3. QED
  BY <1>1, <1>2

(* A function defined by recursion: from each member d of D on to N[d], of *)
(* lower rank, until the rank is zero.                                     *)
Descends(D, rank, N, top) ==
  /\ top \in Nat
  /\ \A d \in D : /\ rank[d] \in 0 .. top
                  /\ rank[d] > 0 => N[d] \in D /\ rank[N[d]] < rank[d]
Closed(D, V, rank, base, H) ==
  /\ base \in V
  /\ \A d \in D : rank[d] > 0 => \A v \in V : H[d][v] \in V
Solves(g, D, rank, N, base, H) ==
  \A d \in D : g[d] = IF rank[d] = 0 THEN base ELSE H[d][g[N[d]]]

(* There is such a function, with values in V.                              *)
LEMMA RecursionExists ==
  ASSUME NEW D, NEW V, NEW rank, NEW N, NEW top, NEW base, NEW H,
         Descends(D, rank, N, top), Closed(D, V, rank, base, H)
  PROVE  \E g \in [D -> V] : Solves(g, D, rank, N, base, H)
<1> DEFINE Small(m) == {d \in D : rank[d] <= m}
           Good(g, m) == g \in [Small(m) -> V] /\ Solves(g, Small(m), rank, N, base, H)
           T == {m \in Nat : \E g : Good(g, m)}
<1>1. \A d \in D : rank[d] \in Nat /\ (rank[d] > 0 <=> rank[d] # 0)
  BY DEF Descends
<1>2. 0 \in T
  <2>1. \A d \in Small(0) : rank[d] = 0
    BY <1>1
  <2>2. base \in V
    BY DEF Closed
  <2>3. Good([d \in Small(0) |-> base], 0)
    BY <2>1, <2>2 DEF Solves
  <2> HIDE DEF Good
  <2>4. QED
    BY <2>3
<1>3. ASSUME NEW m \in Nat, m \in T
      PROVE  m + 1 \in T
  <2>1. PICK g : Good(g, m)
    BY <1>3
  <2> DEFINE h == [d \in Small(m + 1) |-> IF rank[d] = 0 THEN base ELSE H[d][g[N[d]]]]
  <2>2. \A d \in Small(m + 1) : rank[d] # 0 => N[d] \in Small(m) /\ N[d] \in Small(m + 1)
    BY <1>1 DEF Descends
  <2>3. h \in [Small(m + 1) -> V]
    <3>1. ASSUME NEW d \in Small(m + 1), rank[d] # 0 PROVE H[d][g[N[d]]] \in V
      <4>1. g[N[d]] \in V
        BY <2>1, <2>2, <3>1
      <4>2. QED
        BY <1>1, <3>1, <4>1 DEF Closed
    <3>2. base \in V
      BY DEF Closed
    <3>3. QED
      BY <3>1, <3>2
  <2>4. \A d \in Small(m) : d \in Small(m + 1) /\ h[d] = g[d]
    <3>1. \A d \in Small(m) : d \in Small(m + 1)
      BY <1>1
    <3>2. QED
      BY <2>1, <3>1 DEF Solves
  <2>5. Good(h, m + 1)
    BY <2>2, <2>3, <2>4 DEF Solves
  <2> HIDE DEF Good, h
  <2>6. QED
    BY <2>5
<1>4. top \in T
  <2> HIDE DEF T
  <2>1. top \in Nat
    BY DEF Descends
  <2>2. QED
    BY <1>2, <1>3, <2>1, SetInduction
<1>5. PICK g : Good(g, top)
  BY <1>4
<1>6. Small(top) = D
  BY DEF Descends
<1>7. QED
  BY <1>5, <1>6

(* What satisfies the equation has its values in V.                        *)
LEMMA RecursionTyped ==
  ASSUME NEW D, NEW V, NEW rank, NEW N, NEW top, NEW base, NEW H, NEW h,
         Descends(D, rank, N, top), Closed(D, V, rank, base, H),
         \A d \in D : /\ rank[d] = 0 => h[d] = base
                      /\ rank[d] # 0 /\ h[N[d]] \in V => h[d] = H[d][h[N[d]]]
  PROVE  \A d \in D : h[d] \in V
<1> DEFINE T == {m \in Nat : \A d \in D : rank[d] <= m => h[d] \in V}
<1>1. \A d \in D : rank[d] \in Nat /\ rank[d] <= top /\ (rank[d] > 0 <=> rank[d] # 0)
  BY DEF Descends
<1>2. 0 \in T
  BY <1>1 DEF Closed
<1>3. ASSUME NEW m \in Nat, m \in T PROVE m + 1 \in T
  <2>1. ASSUME NEW d \in D, rank[d] <= m + 1 PROVE h[d] \in V
    <3>1. CASE rank[d] = 0
      BY <3>1 DEF Closed
    <3>2. CASE rank[d] # 0
      <4>1. N[d] \in D /\ rank[N[d]] <= m
        BY <1>1, <2>1, <3>2 DEF Descends
      <4>2. h[N[d]] \in V
        BY <1>3, <4>1
      <4>3. QED
        BY <1>1, <3>2, <4>2 DEF Closed
    <3>3. QED
      BY <3>1, <3>2
  <2>2. QED
    BY <2>1
<1>4. top \in T
  <2> HIDE DEF T
  <2>1. top \in Nat
    BY DEF Descends
  <2>2. QED
    BY <1>2, <1>3, <2>1, SetInduction
<1>5. QED
  BY <1>1, <1>4

(* The folds of a finite set: C chooses the next member, G adds it.        *)
Foldable(S, V, base, C, G) ==
  /\ IsFiniteSet(S) /\ base \in V
  /\ \A s \in SUBSET S : s # {} => C[s] \in s
  /\ \A x \in S, v \in V : G[x][v] \in V
FoldOf(h, S, V, base, C, G) ==
  /\ h[{}] = base
  /\ \A s \in SUBSET S : s # {} /\ h[s \ {C[s]}] \in V => h[s] = G[C[s]][h[s \ {C[s]}]]

Folded(g, S, V, base, C, G) ==
  /\ g \in [SUBSET S -> V]
  /\ \A s \in SUBSET S : g[s] = IF s = {} THEN base ELSE G[C[s]][g[s \ {C[s]}]]

(* Such a fold exists, and whatever folds has its values in V.              *)
LEMMA FoldExists ==
  ASSUME NEW S, NEW V, NEW base, NEW C, NEW G, Foldable(S, V, base, C, G)
  PROVE  /\ \E g : Folded(g, S, V, base, C, G)
         /\ \A h : FoldOf(h, S, V, base, C, G) => \A s \in SUBSET S : h[s] \in V
<1> DEFINE D == SUBSET S
           rank == [s \in D |-> Cardinality(s)]
           N == [s \in D |-> s \ {C[s]}]
           H == [s \in D |-> [v \in V |-> G[C[s]][v]]]
           top == Cardinality(S)
<1>1. top \in Nat /\ base \in V
  BY FS_CardinalityType DEF Foldable
<1>2. ASSUME NEW s \in D
      PROVE  /\ IsFiniteSet(s) /\ Cardinality(s) \in 0 .. top
             /\ Cardinality(s) = 0 <=> s = {}
  BY <1>1, FS_Subset, FS_CardinalityType, FS_EmptySet DEF Foldable
<1>3. ASSUME NEW s \in D, s # {}
      PROVE  /\ s \ {C[s]} \in D /\ Cardinality(s \ {C[s]}) = Cardinality(s) - 1
             /\ C[s] \in S
  BY <1>2, <1>3, FS_RemoveElement DEF Foldable
<1>4. \A s \in D : rank[s] = Cardinality(s) /\ N[s] = s \ {C[s]}
  OBVIOUS
<1>5. \A s \in D, v \in V : H[s][v] = G[C[s]][v]
  OBVIOUS
<1>6. \A x \in S, v \in V : G[x][v] \in V
  BY DEF Foldable
<1> HIDE DEF rank, N, H, top
<1>7. \A s \in D : /\ rank[s] \in 0 .. top /\ (rank[s] = 0 <=> s = {})
                   /\ s # {} => N[s] \in D /\ rank[N[s]] < rank[s]
  <2> SUFFICES ASSUME NEW s \in D
               PROVE  /\ rank[s] \in 0 .. top /\ (rank[s] = 0 <=> s = {})
                      /\ s # {} => N[s] \in D /\ rank[N[s]] < rank[s]
    OBVIOUS
  <2>1. rank[s] \in 0 .. top /\ (rank[s] = 0 <=> s = {})
    BY <1>2, <1>4
  <2>2. ASSUME s # {} PROVE N[s] \in D /\ rank[N[s]] < rank[s]
    <3>1. N[s] \in D /\ Cardinality(N[s]) = Cardinality(s) - 1
      BY <1>3, <1>4, <2>2
    <3>2. rank[N[s]] = rank[s] - 1 /\ rank[s] \in Int
      BY <1>4, <2>1, <3>1
    <3>3. QED
      BY <3>1, <3>2
  <2>3. QED
    BY <2>1, <2>2
<1>8. \A s \in D : rank[s] > 0 <=> s # {}
  BY <1>1, <1>7
<1> HIDE DEF D
<1>9. Descends(D, rank, N, top)
  BY <1>1, <1>7, <1>8 DEF Descends
<1>10. Closed(D, V, rank, base, H)
  BY <1>1, <1>3, <1>5, <1>6, <1>8 DEF Closed
<1>11. \E g : Folded(g, S, V, base, C, G)
  <2>1. PICK g \in [D -> V] : Solves(g, D, rank, N, base, H)
    BY <1>9, <1>10, RecursionExists
  <2>2. ASSUME NEW s \in D
        PROVE  g[s] = IF s = {} THEN base ELSE G[C[s]][g[s \ {C[s]}]]
    <3>1. CASE s = {}
      BY <1>7, <2>1, <3>1 DEF Solves
    <3>2. CASE s # {}
      <4>1. g[s] = H[s][g[N[s]]] /\ g[N[s]] \in V
        BY <1>7, <2>1, <3>2 DEF Solves
      <4>2. H[s][g[N[s]]] = G[C[s]][g[N[s]]]
        BY <1>5, <4>1
      <4>3. N[s] = s \ {C[s]}
        BY <1>4
      <4>4. QED
        BY <3>2, <4>1, <4>2, <4>3
    <3>3. QED
      BY <3>1, <3>2
  <2>3. Folded(g, S, V, base, C, G)
    BY <2>1, <2>2 DEF Folded, D
  <2>4. QED
    BY <2>3
<1>12. ASSUME NEW h, FoldOf(h, S, V, base, C, G) PROVE \A s \in D : h[s] \in V
  <2>1. ASSUME NEW s \in D, rank[s] = 0 PROVE h[s] = base
    BY <1>7, <1>12, <2>1 DEF FoldOf
  <2>2. ASSUME NEW s \in D, rank[s] # 0, h[N[s]] \in V PROVE h[s] = H[s][h[N[s]]]
    <3>1. s # {} /\ N[s] = s \ {C[s]}
      BY <1>4, <1>7, <2>2
    <3>2. h[s] = G[C[s]][h[N[s]]]
      BY <1>12, <2>2, <3>1 DEF FoldOf, D
    <3>3. QED
      BY <1>5, <2>2, <3>2
  <2>3. QED
    BY <1>9, <1>10, <2>1, <2>2, RecursionTyped
<1>13. QED
  BY <1>11, <1>12 DEF D

(* The greatest element of a set of numbers up to n.                        *)
LEMMA GreatestNumber ==
  ASSUME NEW n \in Nat, NEW S, S \subseteq 0 .. n, S # {}
  PROVE  Max(S) \in S /\ \A y \in S : Max(S) >= y
<1> DEFINE R == {n - x : x \in S}
<1>1. R \subseteq Nat /\ R # {}
  <2>1. \A x \in S : n - x \in Nat
    OBVIOUS
  <2>2. QED
    BY <2>1
<1>2. Least(R) \in R /\ \A y \in R : Least(R) <= y
  BY <1>1, LeastElement
<1>3. PICK x \in S : Least(R) = n - x
  BY <1>2
<1>4. \A y \in S : n - y \in R
  OBVIOUS
<1>5. \A y \in S : x >= y
  BY <1>2, <1>3, <1>4
<1>6. QED
  BY <1>5 DEF Max

(* A fold over 1 .. n that takes the numbers from low to high, and the      *)
(* values it runs through.                                                  *)
Steps(n, V, base, G) ==
  /\ n \in Nat /\ base \in V
  /\ \A k \in 1 .. n, v \in V : G[k][v] \in V
GoesUp(g, n, V, base, G) ==
  /\ g \in [SUBSET (1 .. n) -> V]
  /\ \A s \in SUBSET (1 .. n) : g[s] = IF s = {} THEN base ELSE G[Max(s)][g[s \ {Max(s)}]]
FoldsUp(h, n, V, base, G) ==
  /\ h[{}] = base
  /\ \A s \in SUBSET (1 .. n) : s # {} /\ h[s \ {Max(s)}] \in V =>
       h[s] = G[Max(s)][h[s \ {Max(s)}]]
Runs(p, n, V, base, G) ==
  /\ p \in [0 .. n -> V]
  /\ p[0] = base
  /\ \A k \in 1 .. n : p[k] = G[k][p[k - 1]]

(* There is such a fold, and it ends where its run ends.                    *)
LEMMA FoldRuns ==
  ASSUME NEW n, NEW V, NEW base, NEW G, Steps(n, V, base, G)
  PROVE  /\ \E g : GoesUp(g, n, V, base, G)
         /\ \A h : FoldsUp(h, n, V, base, G) =>
              \E p : Runs(p, n, V, base, G) /\ p[n] = h[1 .. n]
<1> DEFINE D == 1 .. n
           C == [s \in SUBSET D |-> Max(s)]
<1>1. IsFiniteSet(D) /\ n \in Nat
  BY FS_Interval DEF Steps
<1>2. \A s \in SUBSET D : s # {} => Max(s) \in s
  <2> SUFFICES ASSUME NEW s \in SUBSET D, s # {} PROVE Max(s) \in s
    OBVIOUS
  <2>1. s \subseteq 0 .. n
    OBVIOUS
  <2>2. QED
    BY <1>1, <2>1, GreatestNumber
<1>3. \A s \in SUBSET D : C[s] = Max(s)
  OBVIOUS
<1> HIDE DEF C
<1>4. Foldable(D, V, base, C, G)
  BY <1>1, <1>2, <1>3 DEF Foldable, Steps
<1>5. \E g : GoesUp(g, n, V, base, G)
  <2> HIDE DEF D
  <2>1. PICK g : Folded(g, D, V, base, C, G)
    BY <1>4, FoldExists
  <2>2. GoesUp(g, n, V, base, G)
    BY <1>3, <2>1 DEF Folded, GoesUp, D
  <2>3. QED
    BY <2>2
<1>6. ASSUME NEW h, FoldsUp(h, n, V, base, G)
      PROVE  \E p : Runs(p, n, V, base, G) /\ p[n] = h[1 .. n]
  <2>1. FoldOf(h, D, V, base, C, G)
    BY <1>3, <1>6 DEF FoldOf, FoldsUp
  <2>2. \A s \in SUBSET D : h[s] \in V
    <3> HIDE DEF D
    <3>1. QED
      BY <1>4, <2>1, FoldExists
  <2> DEFINE p == [k \in 0 .. n |-> h[1 .. k]]
  <2>3. p[0] = base
    <3>1. 1 .. 0 = {} /\ p[0] = h[1 .. 0]
      BY <1>1
    <3>2. QED
      BY <1>6, <3>1 DEF FoldsUp
  <2>4. ASSUME NEW k \in 1 .. n PROVE p[k] = G[k][p[k - 1]]
    <3>7. k \in 1 .. k /\ k - 1 \in 0 .. n /\ k \in 0 .. n
      BY <1>1
    <3>8. 1 .. k \subseteq D
      BY <1>1
    <3>9. 1 .. k # {}
      BY <3>7, Zenon
    <3>1. 1 .. k \in SUBSET D /\ 1 .. k # {} /\ k - 1 \in 0 .. n
      BY <3>7, <3>8, <3>9
    <3>2. Max(1 .. k) = k
      BY <1>1 DEF Max
    <3>3. (1 .. k) \ {k} = 1 .. k - 1
      BY <1>1
    <3>4. 1 .. k - 1 \in SUBSET D
      BY <1>1
    <3>5. h[1 .. k] = G[k][h[1 .. k - 1]]
      BY <1>6, <2>2, <3>1, <3>2, <3>3, <3>4 DEF FoldsUp
    <3>6. QED
      BY <3>1, <3>5
  <2>5. p \in [0 .. n -> V] /\ p[n] = h[1 .. n]
    BY <1>1, <2>2
  <2> HIDE DEF p
  <2>6. QED
    BY <2>3, <2>4, <2>5 DEF Runs
<1>7. QED
  BY <1>5, <1>6

(* The bytes of a slice.                                                    *)
LEMMA SliceIs ==
  ASSUME NEW A, NEW d \in Seq(A), NEW s \in Nat, NEW e \in Nat, s <= e, e <= Len(d)
  PROVE  /\ Slice(d, s, e) \in Seq(A) /\ Len(Slice(d, s, e)) = e - s
         /\ \A j \in 1 .. e - s : Slice(d, s, e)[j] = d[s + j]
<1>1. s + 1 \in Nat /\ s + 1 >= 1 /\ Len(d) \in Nat
  OBVIOUS
<1> DEFINE m == s + 1
<1>2. SubSeq(d, m, e) = [j \in 1 .. e - m + 1 |-> d[j + m - 1]]
  BY <1>1
<1>3. e - m + 1 = e - s /\ \A j \in 1 .. e - s : j + m - 1 = s + j /\ s + j \in 1 .. Len(d)
  BY <1>1
<1>4. SubSeq(d, m, e) = [j \in 1 .. e - s |-> d[s + j]]
  BY <1>2, <1>3
<1>5. e - s \in Nat /\ \A j \in 1 .. e - s : d[s + j] \in A
  BY <1>3
<1>6. QED
  BY <1>4, <1>5 DEF Slice

(* The bytes of a window.                                                  *)
LEMMA WindowIs ==
  ASSUME NEW A, NEW d \in Seq(A), NEW s \in Nat, NEW m \in Nat, s + m <= Len(d)
  PROVE  /\ Slice(d, s, s + m) \in Seq(A) /\ Len(Slice(d, s, s + m)) = m
         /\ \A j \in 1 .. m : Slice(d, s, s + m)[j] = d[s + j]
<1> DEFINE e == s + m
<1>1. e \in Nat /\ s <= e /\ e - s = m /\ e <= Len(d)
  OBVIOUS
<1> HIDE DEF e
<1>2. /\ Slice(d, s, e) \in Seq(A) /\ Len(Slice(d, s, e)) = e - s
      /\ \A j \in 1 .. e - s : Slice(d, s, e)[j] = d[s + j]
  BY <1>1, SliceIs, ZenonT(60)
<1>3. /\ Slice(d, s, e) \in Seq(A) /\ Len(Slice(d, s, e)) = m
      /\ \A j \in 1 .. m : Slice(d, s, e)[j] = d[s + j]
  BY <1>1, <1>2, ZenonT(60)
<1>4. QED
  BY <1>3 DEF e


-----------------------------------------------------------------------------
(* Sums and concatenations                                                  *)

(* e[k] is the sum of the first k numbers of q.                             *)
Totals(q, e) ==
  /\ e \in [0 .. Len(q) -> Nat]
  /\ e[0] = 0
  /\ \A k \in 1 .. Len(q) : e[k] = e[k - 1] + q[k]

(* There are such sums, and they are unique.                                *)
LEMMA SumExists ==
  ASSUME NEW q \in Seq(Nat)
  PROVE  \E e : Totals(q, e) /\ SumOf(q) = e[Len(q)]
<1> DEFINE n == Len(q)
           D == 1 .. n
           G == [k \in D |-> [v \in Nat |-> v + q[k]]]
           Fold(f) == f = [s \in SUBSET D |-> IF s = {} THEN 0
                                              ELSE LET x == Max(s) IN f[s \ {x}] + q[x]]
<1>1. n \in Nat /\ DOMAIN q = D /\ \A k \in D : q[k] \in Nat
  OBVIOUS
<1>2. \A k \in D, v \in Nat : G[k][v] = v + q[k]
  OBVIOUS
<1>3. \A k \in D, v \in Nat : G[k][v] \in Nat
  BY <1>1, <1>2
<1>4. \A s \in SUBSET D : s # {} => Max(s) \in D
  <2> SUFFICES ASSUME NEW s \in SUBSET D, s # {} PROVE Max(s) \in s
    OBVIOUS
  <2>1. s \subseteq 0 .. n
    OBVIOUS
  <2>2. QED
    BY <1>1, <2>1, GreatestNumber
<1> HIDE DEF n, G
<1>12. Steps(n, Nat, 0, G)
  BY <1>1, <1>3 DEF Steps
<1>5. \E f : Fold(f)
  <2>1. PICK f : GoesUp(f, n, Nat, 0, G)
    BY <1>12, FoldRuns
  <2>2. \A s \in SUBSET D : f[s] = IF s = {} THEN 0 ELSE f[s \ {Max(s)}] + q[Max(s)]
    <3> SUFFICES ASSUME NEW s \in SUBSET D, s # {}
                 PROVE  f[s] = f[s \ {Max(s)}] + q[Max(s)]
      BY <2>1 DEF GoesUp
    <3>1. f[s \ {Max(s)}] \in Nat
      BY <2>1 DEF GoesUp
    <3>2. QED
      BY <1>2, <1>4, <2>1, <3>1 DEF GoesUp
  <2>4. f \in [SUBSET D -> Nat]
    BY <2>1 DEF GoesUp
  <2>3. Fold(f)
    BY <2>4, <2>2, Zenon
  <2>5. QED
    BY <2>3
<1> DEFINE h == CHOOSE f : Fold(f)
<1>6. Fold(h)
  BY <1>5
<1>7. SumOf(q) = h[D]
  BY <1>1 DEF SumOf, FoldLeft, MapThenFoldSet
<1> HIDE DEF h
<1>8. FoldsUp(h, n, Nat, 0, G)
  <2>1. h[{}] = 0
    BY <1>6
  <2>2. ASSUME NEW s \in SUBSET D, s # {}, h[s \ {Max(s)}] \in Nat
        PROVE  h[s] = G[Max(s)][h[s \ {Max(s)}]]
    <3>1. h[s] = h[s \ {Max(s)}] + q[Max(s)]
      BY <1>6, <2>2
    <3>2. QED
      BY <1>2, <1>4, <2>2, <3>1
  <2>3. QED
    BY <2>1, <2>2 DEF FoldsUp
<1>9. PICK p : Runs(p, n, Nat, 0, G) /\ p[n] = h[D]
  <2> HIDE DEF Fold
  <2>1. QED
    BY <1>8, <1>12, FoldRuns
<1>10. Totals(q, p)
  <2>1. p \in [0 .. n -> Nat] /\ p[0] = 0
    BY <1>9 DEF Runs
  <2>2. ASSUME NEW k \in D PROVE p[k] = p[k - 1] + q[k]
    <3>1. p[k] = G[k][p[k - 1]] /\ p[k - 1] \in Nat
      BY <1>1, <1>9 DEF Runs
    <3>2. QED
      BY <1>2, <3>1
  <2>3. QED
    BY <2>1, <2>2 DEF Totals, n
<1>11. QED
  BY <1>7, <1>9, <1>10 DEF n

LEMMA TotalsUnique ==
  ASSUME NEW q, Len(q) \in Nat, NEW e, NEW f, Totals(q, e), Totals(q, f)
  PROVE  \A k \in 0 .. Len(q) : e[k] = f[k]
<1> DEFINE T == {k \in Nat : k <= Len(q) => e[k] = f[k]}
<1>1. 0 \in T
  BY DEF Totals
<1>2. ASSUME NEW k \in Nat, k \in T PROVE k + 1 \in T
  <2> SUFFICES ASSUME k + 1 <= Len(q) PROVE e[k + 1] = f[k + 1]
    OBVIOUS
  <2>1. e[k] = f[k] /\ k + 1 \in 1 .. Len(q) /\ (k + 1) - 1 = k
    BY <1>2
  <2>2. QED
    BY <2>1 DEF Totals
<1> HIDE DEF T
<1>3. Nat \subseteq T
  BY <1>1, <1>2, SetInduction
<1>4. QED
  BY <1>3 DEF T

LEMMA SumIs ==
  ASSUME NEW q \in Seq(Nat), NEW e, Totals(q, e)
  PROVE  SumOf(q) = e[Len(q)]
<1>1. PICK f : Totals(q, f) /\ SumOf(q) = f[Len(q)]
  BY SumExists
<1>2. Len(q) \in Nat /\ Len(q) \in 0 .. Len(q)
  OBVIOUS
<1>3. QED
  BY <1>1, <1>2, TotalsUnique

(* Sums grow.                                                               *)
LEMMA TotalsGrow ==
  ASSUME NEW q \in Seq(Nat), NEW e, Totals(q, e), NEW k \in 0 .. Len(q), NEW m \in k .. Len(q)
  PROVE  e[k] <= e[m]
<1> DEFINE T == {j \in Nat : k + j <= Len(q) => e[k] <= e[k + j]}
<1>1. 0 \in T
  <2>1. e[k] \in Nat /\ k + 0 = k
    BY DEF Totals
  <2>2. QED
    BY <2>1
<1>2. ASSUME NEW j \in Nat, j \in T PROVE j + 1 \in T
  <2> SUFFICES ASSUME k + (j + 1) <= Len(q) PROVE e[k] <= e[k + (j + 1)]
    OBVIOUS
  <2> DEFINE a == k + j
             b == k + (j + 1)
  <2>1. a \in 0 .. Len(q) /\ b \in 1 .. Len(q) /\ b - 1 = a /\ b \in 0 .. Len(q) /\ e[k] <= e[a]
    BY <1>2
  <2> HIDE DEF a, b
  <2>4. e[b] = e[b - 1] + q[b] /\ e[a] \in Nat /\ e[k] \in Nat
    BY <2>1 DEF Totals
  <2>5. q[b] \in Nat
    BY <2>1
  <2>2. e[b] = e[a] + q[b] /\ q[b] \in Nat /\ e[a] \in Nat /\ e[k] \in Nat
    BY <2>1, <2>4, <2>5
  <2>3. e[k] <= e[b]
    BY <2>1, <2>2
  <2>6. QED
    BY <2>3 DEF b
<1> HIDE DEF T
<1>6. m - k \in Nat
  OBVIOUS
<1>3. m - k \in T
  BY <1>1, <1>2, <1>6, SetInduction
<1>4. k + (m - k) = m
  OBVIOUS
<1>5. QED
  BY <1>3, <1>4 DEF T


(* The lengths of sequences.                                                *)
Lens(q) == [k \in DOMAIN q |-> Len(q[k])]

LEMMA LensAre ==
  ASSUME NEW A, NEW q \in Seq(Seq(A))
  PROVE  /\ Lens(q) \in Seq(Nat) /\ Len(Lens(q)) = Len(q) /\ Len(q) \in Nat
         /\ \A k \in 1 .. Len(q) : q[k] \in Seq(A) /\ Lens(q)[k] = Len(q[k]) /\ Len(q[k]) \in Nat
<1>1. Len(q) \in Nat /\ DOMAIN q = 1 .. Len(q)
  OBVIOUS
<1>2. ASSUME NEW k \in 1 .. Len(q) PROVE q[k] \in Seq(A) /\ Len(q[k]) \in Nat
  <2>1. q[k] \in Seq(A)
    BY <1>1
  <2>2. QED
    BY <2>1
<1>3. Lens(q) = [k \in 1 .. Len(q) |-> Len(q[k])]
  BY <1>1 DEF Lens
<1>4. Lens(q) \in [1 .. Len(q) -> Nat]
  BY <1>2, <1>3
<1>5. Lens(q) \in Seq(Nat) /\ Len(Lens(q)) = Len(q)
  <2> DEFINE y == Lens(q)
             n == Len(q)
  <2>1. y \in [1 .. n -> Nat] /\ n \in Nat
    BY <1>1, <1>4
  <2> HIDE DEF y, n
  <2>2. y \in Seq(Nat) /\ Len(y) = n
    BY <2>1
  <2>3. QED
    BY <2>2 DEF y, n
<1>6. QED
  BY <1>1, <1>2, <1>3, <1>5

(* x is what the first n sequences of q, whose lengths add up to e, make    *)
(* one after the other.                                                     *)
Joins(x, q, e, n) ==
  /\ Len(x) = e[n]
  /\ \A k \in 1 .. n : \A j \in 1 .. Len(q[k]) : x[e[k - 1] + j] = q[k][j]

(* One sequence more.                                                       *)
LEMMA JoinGrows ==
  ASSUME NEW A, NEW q \in Seq(Seq(A)), NEW e, Totals(Lens(q), e), NEW n \in Nat, n < Len(q),
         NEW x \in Seq(A), Joins(x, q, e, n)
  PROVE  x \o q[n + 1] \in Seq(A) /\ Joins(x \o q[n + 1], q, e, n + 1)
<1> DEFINE m == n + 1
           y == q[m]
           z == x \o y
<1>1. m \in 1 .. Len(q) /\ m - 1 = n /\ n \in 0 .. Len(q) /\ m \in 0 .. Len(q)
  OBVIOUS
<1>2. y \in Seq(A) /\ Len(Lens(q)) = Len(q) /\ Lens(q)[m] = Len(y) /\ Len(y) \in Nat
  BY <1>1, LensAre
<1>3. e[m] = e[m - 1] + Lens(q)[m] /\ e[n] \in Nat
  BY <1>1, <1>2 DEF Totals
<1> HIDE DEF y
<1>9. z \in Seq(A) /\ Len(z) = Len(x) + Len(y)
  BY <1>2
<1>10. Len(x) = e[n]
  BY DEF Joins
<1>4. z \in Seq(A) /\ Len(z) = Len(x) + Len(y) /\ Len(x) = e[n]
  BY <1>9, <1>10
<1>5. Len(z) = e[m]
  BY <1>1, <1>2, <1>3, <1>4
<1>6. ASSUME NEW k \in 1 .. m, NEW j \in 1 .. Len(q[k]) PROVE z[e[k - 1] + j] = q[k][j]
  <2>1. CASE k = m
    <3>1. j \in 1 .. Len(y) /\ e[k - 1] + j = Len(x) + j
      BY <1>1, <1>4, <1>6, <2>1 DEF y
    <3>2. z[Len(x) + j] = y[j]
      BY <1>2, <3>1
    <3>3. QED
      BY <2>1, <3>1, <3>2 DEF y
  <2>2. CASE k # m
    <3>1. k \in 1 .. n /\ k \in 1 .. Len(q)
      BY <1>1, <1>6, <2>2
    <3>2. x[e[k - 1] + j] = q[k][j]
      BY <1>6, <3>1 DEF Joins
    <3>3. /\ e[k] = e[k - 1] + Lens(q)[k] /\ Lens(q)[k] = Len(q[k]) /\ Len(q[k]) \in Nat
          /\ e[k - 1] \in Nat /\ Lens(q) \in Seq(Nat)
      <4>1. k - 1 \in 0 .. Len(q)
        BY <3>1
      <4>2. Lens(q)[k] = Len(q[k]) /\ Len(q[k]) \in Nat /\ Lens(q) \in Seq(Nat)
        BY <3>1, LensAre
      <4>3. QED
        BY <1>2, <3>1, <4>1, <4>2 DEF Totals
    <3>4. e[k] <= e[n] /\ e[k] \in Nat
      <4>1. k \in 0 .. Len(Lens(q)) /\ n \in k .. Len(Lens(q))
        BY <1>1, <1>2, <3>1
      <4>2. e[k] <= e[n]
        BY <4>1, <3>3, TotalsGrow
      <4>3. e[k] \in Nat
        BY <3>3
      <4>4. QED
        BY <4>2, <4>3
    <3>5. e[k - 1] + j \in 1 .. Len(x)
      <4> DEFINE l == Len(q[k])
                 b == e[k - 1]
      <4>1. j \in 1 .. l /\ l \in Nat /\ b \in Nat /\ e[k] = b + l /\ e[k] <= Len(x) /\ Len(x) \in Nat
        BY <1>3, <1>4, <1>6, <3>3, <3>4
      <4> HIDE DEF l, b
      <4>2. b + j \in 1 .. Len(x)
        BY <4>1, <3>4
      <4>3. QED
        BY <4>2 DEF b
    <3>6. z[e[k - 1] + j] = x[e[k - 1] + j]
      <4> DEFINE i0 == e[k - 1] + j
      <4>1. i0 \in 1 .. Len(x)
        BY <3>5
      <4> HIDE DEF i0
      <4>2. z[i0] = x[i0]
        BY <1>2, <4>1
      <4>3. QED
        BY <4>2 DEF i0
    <3>7. QED
      BY <3>2, <3>6
  <2>3. QED
    BY <2>1, <2>2
<1>7. Joins(z, q, e, m)
  BY <1>5, <1>6 DEF Joins
<1>8. QED
  BY <1>4, <1>7 DEF y

(* What they make is unique.                                                *)
LEMMA JoinUnique ==
  ASSUME NEW A, NEW q \in Seq(Seq(A)), NEW e, Totals(Lens(q), e),
         NEW x \in Seq(A), Joins(x, q, e, Len(q)), NEW y \in Seq(A), Joins(y, q, e, Len(q))
  PROVE  x = y
<1> DEFINE n == Len(q)
           T == {k \in Nat : k <= n => \A m \in 1 .. e[k] : x[m] = y[m]}
<1>1. /\ n \in Nat /\ Len(Lens(q)) = n
      /\ \A k \in 1 .. n : Lens(q)[k] = Len(q[k]) /\ Len(q[k]) \in Nat
  BY LensAre
<1>2. e[0] = 0 /\ \A k \in 0 .. n : e[k] \in Nat
  BY <1>1 DEF Totals
<1>3. \A k \in 1 .. n : e[k] = e[k - 1] + Len(q[k])
  BY <1>1 DEF Totals
<1>4. 0 \in T
  BY <1>2
<1>5. ASSUME NEW k \in Nat, k \in T PROVE k + 1 \in T
  <2> SUFFICES ASSUME k + 1 <= n, NEW m \in 1 .. e[k + 1] PROVE x[m] = y[m]
    OBVIOUS
  <2> DEFINE a == k + 1
  <2>1. a \in 1 .. n /\ a - 1 = k /\ k \in 0 .. n /\ k <= n
    BY <1>1
  <2> HIDE DEF a
  <2>2. e[a] = e[k] + Len(q[a]) /\ e[k] \in Nat /\ Len(q[a]) \in Nat
    BY <1>1, <1>2, <1>3, <2>1
  <2>3. CASE m <= e[k]
    BY <1>5, <2>1, <2>2, <2>3
  <2>4. CASE ~ (m <= e[k])
    <3> DEFINE j == m - e[k]
    <3>1. j \in 1 .. Len(q[a]) /\ e[a - 1] + j = m
      BY <2>1, <2>2, <2>4 DEF a
    <3> HIDE DEF j
    <3>2. x[e[a - 1] + j] = q[a][j] /\ y[e[a - 1] + j] = q[a][j]
      BY <2>1, <3>1 DEF Joins
    <3>3. QED
      BY <3>1, <3>2
  <2>5. QED
    BY <2>3, <2>4
<1>6. n \in T
  <2> HIDE DEF T
  <2>1. QED
    BY <1>1, <1>4, <1>5, SetInduction
<1>7. Len(x) = e[n] /\ Len(y) = e[n] /\ \A m \in 1 .. e[n] : x[m] = y[m]
  BY <1>1, <1>6 DEF Joins
<1>8. QED
  BY <1>7


(* FlattenSeq makes it.                                                     *)
LEMMA FlattenJoins ==
  ASSUME NEW A, NEW q \in Seq(Seq(A)), NEW e, Totals(Lens(q), e)
  PROVE  FlattenSeq(q) \in Seq(A) /\ Joins(FlattenSeq(q), q, e, Len(q))
<1> DEFINE n == Len(q)
           D == 1 .. n
           V == Seq(A)
           rank == [i0 \in D |-> i0 - 1]
           N == [i0 \in D |-> i0 - 1]
           H == [i0 \in D |-> [v \in V |-> v \o q[i0]]]
           Flat(f) == f = [i0 \in D |-> IF i0 = 1 THEN q[i0] ELSE f[i0 - 1] \o q[i0]]
<1>1. n \in Nat /\ \A k \in D : q[k] \in Seq(A) /\ Len(q[k]) \in Nat
  BY LensAre
<1>2. CASE n = 0
  <2>1. FlattenSeq(q) = q /\ q = <<>>
    BY <1>2 DEF FlattenSeq
  <2>2. e[0] = 0
    BY DEF Totals
  <2>3. q \in Seq(A) /\ Joins(q, q, e, 0)
    BY <2>1, <2>2 DEF Joins
  <2>4. QED
    BY <1>2, <2>1, <2>3
<1>3. CASE n # 0
  <2>1. 1 \in D /\ n \in D /\ q[1] \in V
    BY <1>1, <1>3
  <2>2. \A i0 \in D : /\ rank[i0] = i0 - 1 /\ rank[i0] \in 0 .. n
                      /\ rank[i0] > 0 => i0 # 1 /\ N[i0] \in D /\ rank[N[i0]] < rank[i0]
                      /\ N[i0] = i0 - 1
    BY <1>1
  <2>3. \A i0 \in D, v \in V : H[i0][v] = v \o q[i0] /\ v \o q[i0] \in V
    BY <1>1
  <2>4. \E f : Flat(f)
    <3> HIDE DEF rank, N, H, D, V
    <3>1. Descends(D, rank, N, n)
      BY <1>1, <2>2 DEF Descends
    <3>2. Closed(D, V, rank, q[1], H)
      BY <2>1, <2>3 DEF Closed
    <3>3. PICK f \in [D -> V] : Solves(f, D, rank, N, q[1], H)
      BY <3>1, <3>2, RecursionExists
    <3>4. ASSUME NEW i0 \in D PROVE f[i0] = IF i0 = 1 THEN q[i0] ELSE f[i0 - 1] \o q[i0]
      <4>1. CASE i0 = 1
        <5>1. rank[i0] = 0
          BY <2>2, <4>1
        <5>2. QED
          BY <3>3, <4>1, <5>1 DEF Solves
      <4>2. CASE i0 # 1
        <5>1. rank[i0] # 0 /\ rank[i0] > 0
          BY <1>1, <2>2, <4>2 DEF D
        <5>2. f[i0] = H[i0][f[N[i0]]] /\ f[N[i0]] \in V
          BY <2>2, <3>3, <5>1 DEF Solves
        <5>3. QED
          BY <2>2, <2>3, <4>2, <5>2
      <4>3. QED
        BY <4>1, <4>2
    <3>5. Flat(f)
      BY <3>3, <3>4, Zenon
    <3>6. QED
      BY <3>5
  <2> DEFINE h == CHOOSE f : Flat(f)
  <2>5. Flat(h)
    BY <2>4
  <2>6. FlattenSeq(q) = h[n]
    BY <1>3 DEF FlattenSeq
  <2> HIDE DEF h
  <2>7. h[1] = q[1] /\ \A k \in D : k + 1 \in D => h[k + 1] = h[k] \o q[k + 1]
    <3>1. h[1] = q[1]
      BY <2>1, <2>5
    <3>2. ASSUME NEW k \in D, k + 1 \in D PROVE h[k + 1] = h[k] \o q[k + 1]
      <4>1. k + 1 # 1 /\ (k + 1) - 1 = k
        BY <1>1
      <4>2. QED
        BY <2>5, <3>2, <4>1
    <3>3. QED
      BY <3>1, <3>2
  <2> HIDE DEF Flat
  <2> DEFINE Good(k) == h[k] \in Seq(A) /\ Joins(h[k], q, e, k)
             T == {k \in Nat : k + 1 \in D => Good(k + 1)}
  <2>8. 0 \in T
    <3>1. <<>> \in Seq(A) /\ Joins(<<>>, q, e, 0)
      BY DEF Joins, Totals
    <3>2. 0 < n /\ 0 + 1 = 1
      BY <1>1, <1>3
    <3>3. <<>> \o q[0 + 1] \in Seq(A) /\ Joins(<<>> \o q[0 + 1], q, e, 0 + 1)
      BY <3>1, <3>2, JoinGrows
    <3>4. <<>> \o q[1] = q[1]
      BY <2>1
    <3>5. Good(1)
      BY <2>7, <3>2, <3>3, <3>4
    <3>6. QED
      BY <3>2, <3>5
  <2>9. ASSUME NEW k \in Nat, k \in T PROVE k + 1 \in T
    <3> SUFFICES ASSUME (k + 1) + 1 \in D PROVE Good((k + 1) + 1)
      OBVIOUS
    <3> DEFINE m == k + 1
    <3>1. m \in D /\ m + 1 \in D /\ m \in Nat /\ m < n
      BY <1>1
    <3>2. Good(m)
      BY <2>9, <3>1
    <3> HIDE DEF m, T
    <3>3. h[m] \o q[m + 1] \in Seq(A) /\ Joins(h[m] \o q[m + 1], q, e, m + 1)
      BY <3>1, <3>2, JoinGrows
    <3>4. Good(m + 1)
      BY <2>7, <3>1, <3>3
    <3>5. QED
      BY <3>4 DEF m
  <2>10. n - 1 \in T
    <3> HIDE DEF T
    <3>1. n - 1 \in Nat
      BY <1>1, <1>3
    <3>2. QED
      BY <2>8, <2>9, <3>1, SetInduction
  <2>11. Good(n)
    <3>1. (n - 1) + 1 = n
      BY <1>1
    <3>2. QED
      BY <2>1, <2>10, <3>1
  <2>12. QED
    BY <2>6, <2>11
<1>4. QED
  BY <1>2, <1>3

(* What joins d is d.                                                       *)
LEMMA FlattenIs ==
  ASSUME NEW A, NEW q \in Seq(Seq(A)), NEW e, Totals(Lens(q), e),
         NEW d \in Seq(A), Joins(d, q, e, Len(q))
  PROVE  FlattenSeq(q) = d
<1>1. FlattenSeq(q) \in Seq(A) /\ Joins(FlattenSeq(q), q, e, Len(q))
  BY FlattenJoins
<1> DEFINE x == FlattenSeq(q)
<1> HIDE DEF x
<1>2. x \in Seq(A) /\ Joins(x, q, e, Len(q))
  BY <1>1 DEF x
<1>3. x = d
  BY <1>2, JoinUnique
<1>4. QED
  BY <1>3 DEF x


-----------------------------------------------------------------------------
(* Content-defined chunks                                                   *)

(* The lesser of two numbers.                                               *)
LEMMA Lesser ==
  ASSUME NEW x \in Nat, NEW y \in Nat
  PROVE  /\ Least({x, y}) \in Nat /\ Least({x, y}) <= x /\ Least({x, y}) <= y
         /\ Least({x, y}) = x \/ Least({x, y}) = y
<1> DEFINE S == {x, y}
<1>1. S \subseteq Nat /\ S # {} /\ x \in S /\ y \in S
  OBVIOUS
<1> HIDE DEF S
<1>2. Least(S) \in S /\ \A z \in S : Least(S) <= z
  BY <1>1, LeastElement
<1>3. QED
  BY <1>1, <1>2 DEF S

(* Cut and the cut of NativeEnds, for any file d: cuts are the byte strings *)
(* at whose end the fingerprint says so.                                    *)
HardMax(d, n) == Least({n + MaxSize, Len(d)})
MinEnd(d, n) == Least({n + MinSize, Len(d)})
CutHits(cuts, d, n) == {k \in MinEnd(d, n) + 1 .. HardMax(d, n) : Slice(d, n, k) \in cuts}
CutOf(cuts, d, n) ==
  LET cut == IF CutHits(cuts, d, n) = {} THEN HardMax(d, n) ELSE Least(CutHits(cuts, d, n))
  IN  IF cut <= n THEN Least({n + 1, Len(d)}) ELSE cut
NativeCut(cuts, d, n, k) ==
  /\ \/ k > MinEnd(d, n) /\ k <= HardMax(d, n) /\ Slice(d, n, k) \in cuts
     \/ k = HardMax(d, n)
     \/ HardMax(d, n) = n /\ k = n + 1
  /\ \A m \in MinEnd(d, n) + 1 .. k - 1 : Slice(d, n, m) \notin cuts

LEMMA LimitsAre ==
  ASSUME NEW d, Len(d) \in Nat, NEW n \in Nat, n < Len(d)
  PROVE  /\ HardMax(d, n) \in n .. Len(d) /\ MinEnd(d, n) \in n .. Len(d)
         /\ HardMax(d, n) <= n + MaxSize
         /\ HardMax(d, n) < Len(d) => HardMax(d, n) = n + MaxSize
         /\ MinEnd(d, n) < Len(d) => MinEnd(d, n) = n + MinSize
         /\ MaxSize > 0 => HardMax(d, n) > n
<1> DEFINE x == n + MaxSize
           y == n + MinSize
           len == Len(d)
<1>1. x \in Nat /\ y \in Nat /\ len \in Nat /\ x >= n /\ y >= n /\ (MaxSize > 0 => x > n)
  BY SizesAssumption
<1> HIDE DEF x, y, len
<1>2. /\ Least({x, len}) \in Nat /\ Least({x, len}) <= x /\ Least({x, len}) <= len
      /\ Least({x, len}) = x \/ Least({x, len}) = len
  BY <1>1, Lesser
<1>3. /\ Least({y, len}) \in Nat /\ Least({y, len}) <= y /\ Least({y, len}) <= len
      /\ Least({y, len}) = y \/ Least({y, len}) = len
  BY <1>1, Lesser
<1>4. HardMax(d, n) = Least({x, len}) /\ MinEnd(d, n) = Least({y, len})
  BY DEF HardMax, MinEnd, x, y, len
<1>5. n < len
  BY DEF len
<1> DEFINE h == Least({x, len})
           m == Least({y, len})
<1> HIDE DEF h, m
<1>6. /\ h \in n .. len /\ m \in n .. len /\ h <= x /\ (h < len => h = x) /\ (m < len => m = y)
      /\ MaxSize > 0 => h > n
  BY <1>1, <1>2, <1>3, <1>5 DEF h, m
<1>7. QED
  BY <1>4, <1>6 DEF h, m, x, y, len

(* A cut is behind the last one, at most the maximum away, and more than    *)
(* the minimum unless the file ends there.                                  *)
LEMMA CutBounds ==
  ASSUME NEW d, Len(d) \in Nat, NEW n \in Nat, n < Len(d)
  PROVE  /\ CutOf(boundary, d, n) \in Nat /\ n < CutOf(boundary, d, n) /\ CutOf(boundary, d, n) <= Len(d)
         /\ MaxSize > 0 => CutOf(boundary, d, n) <= n + MaxSize
         /\ MaxSize = 0 => CutOf(boundary, d, n) = n + 1
         /\ CutOf(boundary, d, n) < Len(d) /\ MinSize < MaxSize => CutOf(boundary, d, n) > n + MinSize
<1> DEFINE h == HardMax(d, n)
           m == MinEnd(d, n)
           H == CutHits(boundary, d, n)
           c == IF H = {} THEN h ELSE Least(H)
           u == n + 1
<1>1. /\ h \in n .. Len(d) /\ m \in n .. Len(d) /\ h <= n + MaxSize
      /\ (h < Len(d) => h = n + MaxSize) /\ (m < Len(d) => m = n + MinSize)
      /\ MaxSize > 0 => h > n
  BY LimitsAre
<1>2. H \subseteq m + 1 .. h
  BY DEF CutHits
<1>3. CutOf(boundary, d, n) = IF c <= n THEN Least({u, Len(d)}) ELSE c
  BY DEF CutOf
<1>4. u \in Nat /\ u <= Len(d) /\ u > n
  OBVIOUS
<1> HIDE DEF h, m, H, u
<1>5. Least({u, Len(d)}) = u
  BY <1>4, Lesser
<1>6. CASE H = {}
  BY <1>1, <1>3, <1>4, <1>5, <1>6, SizesAssumption DEF u
<1>7. CASE H # {}
  <2>1. H \subseteq Nat
    BY <1>1, <1>2
  <2>2. Least(H) \in H
    BY <1>7, <2>1, LeastElement
  <2>3. Least(H) \in m + 1 .. h
    BY <1>2, <2>2
  <2> DEFINE b == Least(H)
  <2> HIDE DEF b
  <2>4. b \in Nat /\ m < b /\ b <= h
    BY <1>1, <2>3 DEF b
  <2>5. b > n
    BY <1>1, <2>4
  <2>6. CutOf(boundary, d, n) = b
    BY <1>3, <1>7, <2>4, <2>5 DEF b
  <2>7. QED
    BY <1>1, <2>4, <2>5, <2>6, SizesAssumption
<1>8. QED
  BY <1>6, <1>7

(* Both languages cut at the same place.                                    *)
LEMMA NativeCutIs ==
  ASSUME NEW d, Len(d) \in Nat, NEW n \in Nat, n < Len(d)
  PROVE  (CHOOSE k \in n + 1 .. Len(d) : NativeCut(boundary, d, n, k)) = CutOf(boundary, d, n)
<1> DEFINE h == HardMax(d, n)
           m == MinEnd(d, n)
           H == CutHits(boundary, d, n)
           c == IF H = {} THEN h ELSE Least(H)
           u == n + 1
           len == Len(d)
<1>1. /\ h \in n .. len /\ m \in n .. len /\ h \in Nat /\ m \in Nat /\ len \in Nat /\ n <= h /\ n <= m
      /\ h <= len
  BY LimitsAre
<1>2. H \subseteq Nat
  BY <1>1 DEF CutHits
<1>3. CutOf(boundary, d, n) = IF c <= n THEN Least({u, len}) ELSE c
  BY DEF CutOf
<1>4. u \in Nat /\ u <= len /\ u > n /\ u - 1 = n /\ n < len
  OBVIOUS
<1>5. \A k \in Nat : k \in H <=> m < k /\ k <= h /\ Slice(d, n, k) \in boundary
  BY <1>1 DEF CutHits
<1>6. \A k \in Nat : NativeCut(boundary, d, n, k) <=>
        /\ k \in H \/ k = h \/ (h = n /\ k = u)
        /\ \A j \in Nat : m < j /\ j < k => Slice(d, n, j) \notin boundary
  <2> SUFFICES ASSUME NEW k \in Nat
               PROVE  NativeCut(boundary, d, n, k) <=>
                        /\ k \in H \/ k = h \/ (h = n /\ k = u)
                        /\ \A j \in Nat : m < j /\ j < k => Slice(d, n, j) \notin boundary
    OBVIOUS
  <2> HIDE DEF H
  <2>1. \A j : j \in m + 1 .. k - 1 <=> j \in Nat /\ m < j /\ j < k
    BY <1>1
  <2>2. QED
    BY <1>5, <2>1 DEF NativeCut
<1> HIDE DEF h, m, H, u, len
<1>7. Least({u, len}) = u
  BY <1>1, <1>4, Lesser
<1>8. CutOf(boundary, d, n) \in u .. len
  <2>1. CutOf(boundary, d, n) \in Nat /\ n < CutOf(boundary, d, n) /\ CutOf(boundary, d, n) <= len
    BY CutBounds DEF len
  <2>2. QED
    BY <1>1, <1>4, <2>1 DEF u
<1>9. CASE H = {}
  <2>1. CutOf(boundary, d, n) = IF h <= n THEN u ELSE h
    BY <1>3, <1>7, <1>9
  <2>2. \A j \in Nat : m < j /\ j <= h => Slice(d, n, j) \notin boundary
    BY <1>5, <1>9
  <2>3. NativeCut(boundary, d, n, CutOf(boundary, d, n))
    <3>1. \A j \in Nat : m < j /\ j < u => j <= h
      BY <1>1, <1>4
    <3>2. \A j \in Nat : m < j /\ j < h => j <= h
      BY <1>1
    <3>3. h <= n => h = n
      BY <1>1
    <3>4. QED
      BY <1>1, <1>4, <1>6, <2>1, <2>2, <3>1, <3>2, <3>3
  <2>4. ASSUME NEW k \in u .. len, NativeCut(boundary, d, n, k) PROVE k = CutOf(boundary, d, n)
    <3>1. k \in Nat /\ k > n
      BY <1>1, <1>4, <2>4 
    <3>2. k = h \/ (h = n /\ k = u)
      BY <1>6, <1>9, <2>4, <3>1
    <3>3. QED
      BY <1>1, <2>1, <3>1, <3>2
  <2> DEFINE a == CutOf(boundary, d, n)
  <2> HIDE DEF a
  <2>5. a \in u .. len /\ NativeCut(boundary, d, n, a) /\ \A k \in u .. len : NativeCut(boundary, d, n, k) => k = a
    BY <1>8, <2>3, <2>4 DEF a
  <2>6. (CHOOSE k \in u .. len : NativeCut(boundary, d, n, k)) = a
    BY <2>5
  <2>7. QED
    BY <2>6 DEF a, u, len
<1>10. CASE H # {}
  <2> DEFINE b == Least(H)
  <2>1. b \in H /\ b \in Nat /\ \A k \in H : b <= k
    BY <1>2, <1>10, LeastElement
  <2> HIDE DEF b
  <2>2. m < b /\ b <= h /\ Slice(d, n, b) \in boundary /\ b > n
    BY <1>1, <1>5, <2>1
  <2>3. CutOf(boundary, d, n) = b
    BY <1>3, <1>10, <2>1, <2>2, <1>1, <1>4 DEF b
  <2>4. \A j \in Nat : m < j /\ j < b => Slice(d, n, j) \notin boundary
    <3> SUFFICES ASSUME NEW j \in Nat, m < j, j < b, Slice(d, n, j) \in boundary PROVE FALSE
      OBVIOUS
    <3>1. j <= h
      BY <1>1, <2>1, <2>2
    <3>2. j \in H
      BY <1>5, <3>1
    <3>3. b <= j
      BY <2>1, <3>2
    <3>4. QED
      BY <2>1, <3>3
  <2>5. NativeCut(boundary, d, n, b)
    BY <1>6, <2>1, <2>4
  <2>6. ASSUME NEW k \in u .. len, NativeCut(boundary, d, n, k) PROVE k = b
    <3>1. k \in Nat /\ k > n
      BY <1>1, <1>4, <2>6
    <3>2. \A j \in Nat : m < j /\ j < k => Slice(d, n, j) \notin boundary
      BY <1>6, <2>6, <3>1
    <3>3. ~ (b < k)
      BY <2>1, <2>2, <3>2
    <3>4. k \in H \/ k = h
      <4>1. h # n
        BY <1>1, <2>1, <2>2
      <4>2. QED
        BY <1>6, <2>6, <3>1, <4>1
    <3>5. b <= k
      BY <2>1, <2>2, <3>4
    <3>6. QED
      BY <2>1, <3>1, <3>3, <3>5
  <2>7. b \in u .. len
    BY <1>8, <2>3
  <2>8. (CHOOSE k \in u .. len : NativeCut(boundary, d, n, k)) = b
    BY <2>5, <2>6, <2>7
  <2>9. QED
    BY <2>3, <2>8 DEF u, len
<1>11. QED
  BY <1>9, <1>10


(* Chunk ends that follow each other from n on, as CutOf cuts.              *)
Before(es, n, k) == IF k = 1 THEN n ELSE es[k - 1]
Chain(cuts, d, n, es) ==
  /\ es \in Seq(Nat)
  /\ \A k \in 1 .. Len(es) : Before(es, n, k) < Len(d) /\ es[k] = CutOf(cuts, d, Before(es, n, k))
EndOf(es, n) == IF Len(es) = 0 THEN n ELSE es[Len(es)]

(* The ends are inside the file and behind each other.                      *)
LEMMA ChainInside ==
  ASSUME NEW d, Len(d) \in Nat, NEW n \in Nat, n <= Len(d), NEW es, Chain(boundary, d, n, es)
  PROVE  /\ \A k \in 1 .. Len(es) : /\ Before(es, n, k) \in Nat /\ es[k] \in Nat
                                    /\ Before(es, n, k) < es[k] /\ es[k] <= Len(d)
         /\ EndOf(es, n) \in Nat /\ EndOf(es, n) <= Len(d)
<1>1. es \in Seq(Nat) /\ Len(es) \in Nat
  BY DEF Chain
<1>2. \A k \in 1 .. Len(es) : es[k] \in Nat
  BY <1>1
<1>3. \A k \in 1 .. Len(es) : Before(es, n, k) \in Nat
  <2> SUFFICES ASSUME NEW k \in 1 .. Len(es), k # 1 PROVE k - 1 \in 1 .. Len(es)
    BY <1>2 DEF Before
  <2>1. QED
    BY <1>1
<1>4. ASSUME NEW k \in 1 .. Len(es) PROVE Before(es, n, k) < es[k] /\ es[k] <= Len(d)
  <2> DEFINE b == Before(es, n, k)
  <2>1. b \in Nat /\ b < Len(d) /\ es[k] = CutOf(boundary, d, b)
    BY <1>3, <1>4 DEF Chain
  <2> HIDE DEF b
  <2>2. b < CutOf(boundary, d, b) /\ CutOf(boundary, d, b) <= Len(d)
    BY <2>1, CutBounds
  <2>3. QED
    BY <2>1, <2>2 DEF b
<1>5. Len(es) # 0 => Len(es) \in 1 .. Len(es)
  BY <1>1
<1>6. QED
  BY <1>2, <1>3, <1>4, <1>5 DEF EndOf

(* One chunk more, behind the others.                                       *)
LEMMA ChainGrows ==
  ASSUME NEW d, Len(d) \in Nat, NEW n \in Nat, n <= Len(d), NEW es, Chain(boundary, d, n, es),
         EndOf(es, n) < Len(d)
  PROVE  Chain(boundary, d, n, Append(es, CutOf(boundary, d, EndOf(es, n))))
<1> DEFINE c == CutOf(boundary, d, EndOf(es, n))
           t == Append(es, c)
           m == Len(es)
<1>1. es \in Seq(Nat) /\ m \in Nat
  BY DEF Chain
<1>2. EndOf(es, n) \in Nat
  BY ChainInside
<1>3. c \in Nat
  BY <1>2, CutBounds
<1> HIDE DEF c
<1>4. t \in Seq(Nat) /\ Len(t) = m + 1 /\ t[m + 1] = c /\ \A k \in 1 .. m : t[k] = es[k]
  BY <1>1, <1>3
<1>5. ASSUME NEW k \in 1 .. m + 1
      PROVE  Before(t, n, k) < Len(d) /\ t[k] = CutOf(boundary, d, Before(t, n, k))
  <2>1. CASE k = m + 1
    <3>1. Before(t, n, k) = EndOf(es, n)
      <4>1. CASE m = 0
        BY <2>1, <4>1 DEF Before, EndOf
      <4>2. CASE m # 0
        <5>1. k - 1 = m /\ m \in 1 .. m /\ k # 1
          BY <1>1, <2>1, <4>2
        <5>2. QED
          BY <1>4, <4>2, <5>1 DEF Before, EndOf
      <4>3. QED
        BY <4>1, <4>2
    <3>2. QED
      BY <1>4, <2>1, <3>1 DEF c
  <2>2. CASE k # m + 1
    <3>1. k \in 1 .. m /\ (k # 1 => k - 1 \in 1 .. m)
      BY <1>1, <2>2
    <3>2. t[k] = es[k] /\ Before(t, n, k) = Before(es, n, k)
      BY <1>4, <3>1 DEF Before
    <3>3. QED
      BY <3>1, <3>2 DEF Chain
  <2>3. QED
    BY <2>1, <2>2
<1> HIDE DEF t
<1>6. Chain(boundary, d, n, t)
  BY <1>4, <1>5 DEF Chain
<1>7. QED
  BY <1>6 DEF t, c

(* A chunk before a chain.                                                  *)
LEMMA ChainBegins ==
  ASSUME NEW d, Len(d) \in Nat, NEW n \in Nat, n < Len(d), NEW es, Chain(boundary, d, CutOf(boundary, d, n), es)
  PROVE  /\ Chain(boundary, d, n, <<CutOf(boundary, d, n)>> \o es)
         /\ EndOf(<<CutOf(boundary, d, n)>> \o es, n) = EndOf(es, CutOf(boundary, d, n))
<1> DEFINE c == CutOf(boundary, d, n)
           t == <<c>> \o es
           m == Len(es)
<1>1. es \in Seq(Nat) /\ m \in Nat /\ c \in Nat
  BY CutBounds DEF Chain
<1> HIDE DEF c
<1>2. t \in Seq(Nat) /\ Len(t) = m + 1 /\ t[1] = c
  BY <1>1
<1>3. ASSUME NEW k \in 1 .. m PROVE t[k + 1] = es[k]
  <2>1. <<c>> \in Seq(Nat) /\ Len(<<c>>) = 1
    BY <1>1
  <2>2. k + 1 \in 1 .. 1 + m /\ ~ (k + 1 <= 1) /\ (k + 1) - 1 = k
    BY <1>1
  <2>3. t[k + 1] = es[(k + 1) - 1]
    BY <1>1, <2>1, <2>2, ConcatProperties
  <2>4. QED
    BY <2>2, <2>3
<1> HIDE DEF t
<1>4. ASSUME NEW k \in 1 .. m + 1
      PROVE  Before(t, n, k) < Len(d) /\ t[k] = CutOf(boundary, d, Before(t, n, k))
  <2>1. CASE k = 1
    BY <1>2, <2>1 DEF Before, c
  <2>2. CASE k # 1
    <3> DEFINE j == k - 1
    <3>1. j \in 1 .. m /\ j + 1 = k /\ (j # 1 => j - 1 \in 1 .. m /\ (j - 1) + 1 = j)
      BY <1>1, <2>2
    <3>2. t[k] = es[j]
      BY <1>3, <3>1
    <3>3. Before(t, n, k) = Before(es, c, j)
      <4>1. CASE j = 1
        BY <1>2, <2>2, <4>1 DEF Before
      <4>2. CASE j # 1
        <5> HIDE DEF j
        <5>1. t[j] = es[j - 1]
          BY <1>3, <3>1, <4>2
        <5>2. QED
          BY <2>2, <4>2, <5>1 DEF Before, j
      <4>3. QED
        BY <4>1, <4>2
    <3> HIDE DEF j
    <3>4. Before(es, c, j) < Len(d) /\ es[j] = CutOf(boundary, d, Before(es, c, j))
      BY <3>1 DEF Chain, c
    <3>5. QED
      BY <3>2, <3>3, <3>4
  <2>3. QED
    BY <2>1, <2>2
<1>5. Chain(boundary, d, n, t)
  BY <1>2, <1>4 DEF Chain
<1>6. EndOf(t, n) = EndOf(es, c)
  <2>1. CASE m = 0
    BY <1>2, <2>1 DEF EndOf
  <2>2. CASE m # 0
    <3>1. m \in 1 .. m /\ Len(t) = m + 1 /\ m + 1 # 0
      BY <1>1, <1>2, <2>2
    <3>2. t[m + 1] = es[m]
      BY <1>3, <3>1
    <3>3. QED
      BY <2>2, <3>1, <3>2 DEF EndOf
  <2>3. QED
    BY <2>1, <2>2
<1>7. QED
  BY <1>5, <1>6 DEF t, c

(* A chain is the beginning of one that goes to the end of the file.        *)
LEMMA ChainPrefix ==
  ASSUME NEW d, Len(d) \in Nat, NEW n \in Nat, n <= Len(d), NEW a, Chain(boundary, d, n, a),
         NEW b, Chain(boundary, d, n, b), EndOf(b, n) = Len(d)
  PROVE  Len(a) <= Len(b) /\ \A k \in 1 .. Len(a) : a[k] = b[k]
<1> DEFINE T == {k \in Nat : k <= Len(a) => k <= Len(b) /\ \A j \in 1 .. k : a[j] = b[j]}
<1>1. Len(a) \in Nat /\ Len(b) \in Nat
  BY DEF Chain
<1>2. 0 \in T
  BY <1>1
<1>3. ASSUME NEW k \in Nat, k \in T PROVE k + 1 \in T
  <2> DEFINE m == k + 1
  <2> SUFFICES ASSUME m <= Len(a) PROVE m <= Len(b) /\ \A j \in 1 .. m : a[j] = b[j]
    OBVIOUS
  <2>1. /\ k <= Len(b) /\ \A j \in 1 .. k : a[j] = b[j]
    BY <1>1, <1>3
  <2>2. m \in 1 .. Len(a) /\ m \in Nat /\ m - 1 = k /\ (m = 1 <=> k = 0) /\ m > k /\ (k # 0 => k \in 1 .. k)
        /\ (Len(b) > k => m <= Len(b) /\ m \in 1 .. Len(b))
        /\ \A j \in 1 .. m : j = m \/ j \in 1 .. k
    BY <1>1
  <2> HIDE DEF m, T
  <2>3. Before(a, n, m) = Before(b, n, m)
    BY <2>1, <2>2 DEF Before
  <2>4. Before(a, n, m) < Len(d) /\ a[m] = CutOf(boundary, d, Before(a, n, m))
    BY <2>2 DEF Chain
  <2>5. Len(b) > k
    <3>1. SUFFICES ASSUME Len(b) = k PROVE FALSE
      BY <1>1, <2>1
    <3>2. EndOf(b, n) = Before(b, n, m)
      BY <2>2, <3>1 DEF EndOf, Before
    <3>3. QED
      BY <2>3, <2>4, <3>2
  <2>6. a[m] = b[m]
    BY <2>2, <2>3, <2>4, <2>5 DEF Chain
  <2>7. QED
    BY <2>1, <2>2, <2>5, <2>6
<1>4. Len(a) \in T
  <2> HIDE DEF T
  <2>1. QED
    BY <1>1, <1>2, <1>3, SetInduction
<1>5. QED
  BY <1>1, <1>4

(* NativeEnds is such a chain, from the start of the file to its end.       *)
LEMMA NativeChain ==
  ASSUME Len(File) \in Nat
  PROVE  Chain(boundary, File, 0, NativeEnds) /\ EndOf(NativeEnds, 0) = Len(File)
<1> DEFINE d == File
           len == Len(d)
           D == 0 .. len
           V == Seq(Nat)
           C(n) == CHOOSE k \in n + 1 .. len : NativeCut(boundary, d, n, k)
           rank == [n \in D |-> len - n]
           N == [n \in D |-> C(n)]
           H == [n \in D |-> [v \in V |-> <<N[n]>> \o v]]
           From(f) == f = [n \in D |-> IF n = len THEN <<>> ELSE <<C(n)>> \o f[C(n)]]
<1>1. \A n \in D : /\ n \in Nat /\ rank[n] = len - n /\ rank[n] \in 0 .. len
                   /\ (rank[n] = 0 <=> n = len) /\ (rank[n] > 0 <=> n # len)
                   /\ N[n] = C(n)
  OBVIOUS
<1>2. \A n \in D : n # len => C(n) = CutOf(boundary, d, n) /\ C(n) \in D /\ C(n) \in Nat /\ n < C(n)
  <2> SUFFICES ASSUME NEW n \in D, n # len
               PROVE  C(n) = CutOf(boundary, d, n) /\ C(n) \in D /\ C(n) \in Nat /\ n < C(n)
    OBVIOUS
  <2>1. n \in Nat /\ n < len
    OBVIOUS
  <2>2. C(n) = CutOf(boundary, d, n)
    BY <2>1, NativeCutIs
  <2>3. CutOf(boundary, d, n) \in Nat /\ n < CutOf(boundary, d, n) /\ CutOf(boundary, d, n) <= len
    BY <2>1, CutBounds
  <2> HIDE DEF C, d
  <2>4. QED
    BY <2>1, <2>2, <2>3
<1> HIDE DEF C
<1>3. \A n \in D : n # len => N[n] \in D /\ N[n] \in Nat /\ rank[N[n]] < rank[n]
  <2> HIDE DEF N
  <2>1. QED
    BY <1>1, <1>2
<1>4. \A n \in D, v \in V : H[n][v] = <<N[n]>> \o v
  OBVIOUS
<1>5. \A n \in D : n # len => \A v \in V : H[n][v] \in V
  <2> SUFFICES ASSUME NEW n \in D, n # len, NEW v \in V PROVE <<N[n]>> \o v \in V
    BY <1>4
  <2> HIDE DEF N
  <2>1. N[n] \in Nat
    BY <1>1, <1>3
  <2>2. QED
    BY <2>1
<1>6. <<>> \in V /\ len \in Nat
  OBVIOUS
<1>7. \E f : From(f)
  <2> HIDE DEF N, H, rank, V, D
  <2>1. Descends(D, rank, N, len)
    BY <1>1, <1>3, <1>6 DEF Descends
  <2>2. Closed(D, V, rank, <<>>, H)
    BY <1>1, <1>5, <1>6 DEF Closed
  <2>3. PICK f \in [D -> V] : Solves(f, D, rank, N, <<>>, H)
    BY <2>1, <2>2, RecursionExists
  <2>4. ASSUME NEW n \in D
        PROVE  f[n] = IF n = len THEN <<>> ELSE <<C(n)>> \o f[C(n)]
    <3>1. CASE n = len
      BY <1>1, <2>3, <3>1 DEF Solves
    <3>2. CASE n # len
      <4>1. f[n] = H[n][f[N[n]]] /\ f[N[n]] \in V
        BY <1>1, <1>3, <2>3, <3>2 DEF Solves
      <4>2. f[n] = <<N[n]>> \o f[N[n]]
        BY <1>4, <4>1
      <4>3. N[n] = C(n)
        BY <1>1
      <4>4. QED
        BY <3>2, <4>2, <4>3, Zenon
    <3>3. QED
      BY <3>1, <3>2
  <2>5. From(f)
    BY <2>3, <2>4, Zenon
  <2>6. QED
    BY <2>5
<1> DEFINE h == CHOOSE f : From(f)
<1>8. From(h)
  BY <1>7
<1>9. NativeEnds = h[0]
  BY DEF NativeEnds, NativeCut, HardMax, MinEnd, Hit, C
<1> HIDE DEF h
<1>10. \A n \in D : h[n] = IF n = len THEN <<>> ELSE <<CutOf(boundary, d, n)>> \o h[CutOf(boundary, d, n)]
  <2>1. \A n \in D : h[n] = IF n = len THEN <<>> ELSE <<C(n)>> \o h[C(n)]
    BY <1>8
  <2>2. QED
    BY <1>2, <2>1
<1> HIDE DEF N, H, From, V, d
<1> DEFINE Good(n) == Chain(boundary, d, n, h[n]) /\ EndOf(h[n], n) = len
           T == {m \in Nat : \A n \in D : len - n <= m => Good(n)}
<1>11. ASSUME NEW n \in D, n = len PROVE Good(n)
  <2>1. h[n] = <<>>
    BY <1>10, <1>11
  <2>2. Chain(boundary, d, n, <<>>) /\ EndOf(<<>>, n) = n
    BY DEF Chain, EndOf
  <2>3. QED
    BY <1>11, <2>1, <2>2
<1>12. 0 \in T
  <2>1. \A n \in D : len - n <= 0 => n = len
    BY <1>6
  <2>2. QED
    BY <1>11, <2>1
<1>13. ASSUME NEW m \in Nat, m \in T PROVE m + 1 \in T
  <2>1. ASSUME NEW n \in D, len - n <= m + 1, n # len PROVE Good(n)
    <3> DEFINE e == CutOf(boundary, d, n)
    <3>1. e \in D /\ n < e /\ e \in Nat
      BY <1>2, <2>1
    <3>2. h[n] = <<e>> \o h[e]
      BY <1>10, <2>1
    <3>3. n \in Nat /\ n < len /\ len \in Nat /\ Len(d) = len
      BY <1>6, <2>1
    <3>4. len - e <= m
      <4> HIDE DEF e
      <4>1. QED
        BY <2>1, <3>1, <3>3
    <3>5. Good(e)
      BY <1>13, <3>1, <3>4
    <3> HIDE DEF len
    <3>6. Chain(boundary, d, n, <<e>> \o h[e]) /\ EndOf(<<e>> \o h[e], n) = EndOf(h[e], e)
      BY <3>3, <3>5, ChainBegins
    <3>7. QED
      BY <3>2, <3>5, <3>6
  <2>2. \A n \in D : len - n <= m + 1 => Good(n)
    BY <1>11, <2>1
  <2> HIDE DEF Good
  <2>3. QED
    BY <2>2
<1>14. len \in T
  <2> HIDE DEF T
  <2>1. QED
    BY <1>6, <1>12, <1>13, SetInduction
<1>15. 0 \in D /\ len - 0 <= len
  BY <1>6
<1>16. Good(0)
  <2> HIDE DEF Good
  <2>1. QED
    BY <1>14, <1>15
<1>17. QED
  BY <1>9, <1>16 DEF d


-----------------------------------------------------------------------------
(* Manifests                                                                *)

(* y holds the n bytes of d behind s.                                       *)
IsPart(y, A, d, s, n) ==
  y \in Seq(A) /\ Len(y) = n /\ \A j \in 1 .. n : y[j] = d[s + j]

LEMMA SliceIsPartTo ==
  ASSUME NEW A, NEW d \in Seq(A), NEW s \in Nat, NEW e \in Nat, s <= e, e <= Len(d)
  PROVE  IsPart(Slice(d, s, e), A, d, s, e - s)
BY SliceIs DEF IsPart

LEMMA SliceIsPart ==
  ASSUME NEW A, NEW d \in Seq(A), NEW s \in Nat, NEW e \in Nat, NEW n \in Nat,
         e = s + n, e <= Len(d), NEW y, y = Slice(d, s, e)
  PROVE  IsPart(y, A, d, s, n)
<1>1. s <= e /\ e - s = n
  OBVIOUS
<1>2. IsPart(Slice(d, s, e), A, d, s, e - s)
  BY <1>1, SliceIsPartTo
<1>3. QED
  BY <1>1, <1>2

(* The bytes of a slice of a slice.                                         *)
LEMMA SliceSlice ==
  ASSUME NEW A, NEW d \in Seq(A), NEW s \in Nat, NEW u \in Nat, NEW v \in Nat,
         u <= v, s + v <= Len(d)
  PROVE  Slice(Slice(d, s, Len(d)), u, v) = Slice(d, s + u, s + v)
<1> DEFINE len == Len(d)
           x == Slice(d, s, len)
           b == s + u
           e == s + v
           n == v - u
           m == len - s
           y == Slice(x, u, v)
           z == Slice(d, b, e)
<1>1. /\ len \in Nat /\ b \in Nat /\ e \in Nat /\ e <= len /\ n \in Nat /\ e = b + n
      /\ v <= m /\ m \in Nat /\ len = s + m /\ len <= len /\ v = u + n
  OBVIOUS
<1> HIDE DEF b, e, m, n, len, x, y, z
<1>2. IsPart(x, A, d, s, m)
  BY <1>1, SliceIsPart DEF x, len
<1>3. x \in Seq(A) /\ Len(x) = m
  BY <1>2 DEF IsPart
<1>4. IsPart(y, A, x, u, n)
  BY <1>1, <1>3, SliceIsPart DEF y
<1>5. IsPart(z, A, d, b, n)
  BY <1>1, SliceIsPart DEF z, len
<1>6. ASSUME NEW j \in 1 .. n PROVE y[j] = z[j]
  <2>1. u + j \in 1 .. m /\ s + (u + j) = b + j
    BY <1>1 DEF b
  <2>2. y[j] = x[u + j] /\ z[j] = d[b + j]
    BY <1>4, <1>5 DEF IsPart
  <2>3. x[u + j] = d[s + (u + j)]
    BY <1>2, <2>1 DEF IsPart
  <2>4. QED
    BY <2>1, <2>2, <2>3
<1>7. y = z
  BY <1>4, <1>5, <1>6 DEF IsPart
<1>8. QED
  BY <1>7 DEF x, y, z, b, e, len

(* A slice of a file that has grown.                                        *)
LEMMA SliceOfLonger ==
  ASSUME NEW A, NEW d \in Seq(A), NEW x \in Seq(A), NEW u \in Nat, NEW v \in Nat,
         u <= v, v <= Len(d)
  PROVE  Slice(d \o x, u, v) = Slice(d, u, v)
<1> DEFINE t == d \o x
           n == v - u
           y == Slice(t, u, v)
           z == Slice(d, u, v)
<1>1. /\ t \in Seq(A) /\ Len(t) = Len(d) + Len(x) /\ Len(d) \in Nat /\ Len(x) \in Nat
      /\ n \in Nat /\ v = u + n
  OBVIOUS
<1>2. \A j \in 1 .. Len(d) : t[j] = d[j]
  OBVIOUS
<1> HIDE DEF t, n, y, z
<1>3. IsPart(y, A, t, u, n) /\ IsPart(z, A, d, u, n)
  <2>1. v <= Len(t)
    BY <1>1
  <2>2. QED
    BY <1>1, <2>1, SliceIsPart DEF y, z
<1>4. ASSUME NEW j \in 1 .. n PROVE y[j] = z[j]
  <2>1. u + j \in 1 .. Len(d)
    BY <1>1
  <2>2. y[j] = t[u + j] /\ z[j] = d[u + j]
    BY <1>3 DEF IsPart
  <2>3. QED
    BY <1>2, <2>1, <2>2
<1>5. y = z
  BY <1>3, <1>4 DEF IsPart
<1>6. QED
  BY <1>5 DEF t, y, z

(* And what it has grown by.                                                *)
LEMMA SliceOfEnd ==
  ASSUME NEW A, NEW d \in Seq(A), NEW x \in Seq(A)
  PROVE  Slice(d \o x, Len(d), Len(d) + Len(x)) = x
<1> DEFINE t == d \o x
           n == Len(x)
           m == Len(d)
           e == m + n
           y == Slice(t, m, e)
<1>1. t \in Seq(A) /\ Len(t) = e /\ m \in Nat /\ n \in Nat /\ e \in Nat /\ e = m + n /\ e <= e
  OBVIOUS
<1>2. \A j \in 1 .. n : t[m + j] = x[j]
  OBVIOUS
<1> HIDE DEF t, e, y, m, n
<1>3. IsPart(y, A, t, m, n)
  BY <1>1, SliceIsPart DEF y
<1>4. y = x
  BY <1>2, <1>3 DEF IsPart, n
<1>5. QED
  BY <1>4 DEF t, y, e, m, n

(* A whole file is a slice of itself.                                       *)
LEMMA SliceOfAll ==
  ASSUME NEW A, NEW d \in Seq(A)
  PROVE  Slice(d, 0, Len(d)) = d
<1> DEFINE y == Slice(d, 0, Len(d))
           n == Len(d)
<1>1. n \in Nat /\ 0 \in Nat /\ n = 0 + n /\ n <= n /\ \A j \in 1 .. n : 0 + j = j
  OBVIOUS
<1> HIDE DEF y, n
<1>2. IsPart(y, A, d, 0, n)
  BY <1>1, SliceIsPart DEF y, n
<1>3. \A j \in 1 .. n : y[j] = d[j]
  BY <1>1, <1>2 DEF IsPart
<1>4. y = d
  BY <1>2, <1>3 DEF IsPart, n
<1>5. QED
  BY <1>4 DEF y

(* The rows of a manifest.                                                  *)
Weaks == {Adler32(s) : s \in Seq(Bytes)}
ManifestRows == [offset : Nat, length : Nat, weak : Weaks, strong : Seq(Bytes)]

(* A row describes the bytes of d from s to e.                              *)
Describes(r, d, s, e) ==
  /\ r \in ManifestRows
  /\ e = s + r.length /\ r.length < Modulus
  /\ e <= Len(d) /\ r.strong = Slice(d, s, e)
  /\ Len(d) < Modulus => r.offset = s

(* Rows describe the bytes of d one after the other: row k those from       *)
(* e[k - 1] to e[k].                                                        *)
Tiles(rs, d, e) ==
  /\ rs \in Seq(ManifestRows)
  /\ e \in [0 .. Len(rs) -> Nat]
  /\ e[0] = 0
  /\ \A k \in 1 .. Len(rs) : Describes(rs[k], d, e[k - 1], e[k])

(* What they add up to.                                                     *)
LEMMA TilesAddUp ==
  ASSUME NEW rs, NEW d, NEW e, Tiles(rs, d, e)
  PROVE  /\ Lengths(rs) \in Seq(Nat) /\ Len(Lengths(rs)) = Len(rs) /\ Totals(Lengths(rs), e)
         /\ SumOf(Lengths(rs)) = e[Len(rs)]
<1> DEFINE q == Lengths(rs)
           n == Len(rs)
<1>1. n \in Nat /\ DOMAIN rs = 1 .. n
  BY DEF Tiles
<1>2. ASSUME NEW k \in 1 .. n PROVE rs[k].length \in Nat /\ e[k] = e[k - 1] + rs[k].length
  BY <1>2 DEF Tiles, Describes, ManifestRows
<1>3. q = [k \in 1 .. n |-> rs[k].length]
  BY <1>1 DEF Lengths
<1>4. q \in [1 .. n -> Nat]
  BY <1>2, <1>3
<1>5. q \in Seq(Nat) /\ Len(q) = n
  BY <1>1, <1>4
<1>6. \A k \in 1 .. n : q[k] = rs[k].length
  BY <1>3
<1> HIDE DEF q
<1>7. Totals(q, e)
  BY <1>2, <1>5, <1>6 DEF Totals, Tiles
<1>8. SumOf(q) = e[n]
  BY <1>5, <1>7, SumIs
<1>9. QED
  BY <1>5, <1>7, <1>8 DEF q

(* The marks grow and stay inside the file.                                 *)
LEMMA TilesInside ==
  ASSUME NEW rs, NEW d, Len(d) \in Nat, NEW e, Tiles(rs, d, e)
  PROVE  /\ Len(rs) \in Nat
         /\ \A k \in 0 .. Len(rs) : e[k] \in Nat /\ e[k] <= Len(d)
         /\ \A k \in 0 .. Len(rs) : \A m \in k .. Len(rs) : e[k] <= e[m]
<1> DEFINE n == Len(rs)
<1>1. n \in Nat
  BY DEF Tiles
<1>2. ASSUME NEW k \in 0 .. n PROVE e[k] \in Nat /\ e[k] <= Len(d)
  <2>1. CASE k = 0
    BY <2>1 DEF Tiles
  <2>2. CASE k # 0
    <3>1. k \in 1 .. n
      BY <1>1, <2>2
    <3>2. QED
      BY <3>1 DEF Tiles, Describes
  <2>3. QED
    BY <2>1, <2>2
<1>3. Lengths(rs) \in Seq(Nat) /\ Len(Lengths(rs)) = n /\ Totals(Lengths(rs), e)
  BY TilesAddUp
<1>4. \A k \in 0 .. n : \A m \in k .. n : e[k] <= e[m]
  BY <1>3, TotalsGrow
<1>5. QED
  BY <1>1, <1>2, <1>4

(* The chunks they name spell the file.                                     *)
LEMMA TilesSpell ==
  ASSUME NEW rs, NEW d \in Seq(Bytes), NEW e, Tiles(rs, d, e), e[Len(rs)] = Len(d)
  PROVE  Spelled(rs) = d
<1> DEFINE n == Len(rs)
           q == [k \in DOMAIN rs |-> rs[k].strong]
<1>1. n \in Nat /\ DOMAIN rs = 1 .. n /\ Len(d) \in Nat
  BY DEF Tiles
<1>2. ASSUME NEW k \in 1 .. n
      PROVE  /\ rs[k].strong \in Seq(Bytes) /\ rs[k].length \in Nat
             /\ e[k] = e[k - 1] + rs[k].length /\ rs[k].strong = Slice(d, e[k - 1], e[k])
             /\ e[k] <= Len(d) /\ e[k - 1] \in Nat /\ e[k] \in Nat
  <2>1. k - 1 \in 0 .. n /\ k \in 0 .. n
    BY <1>1
  <2>2. QED
    BY <2>1 DEF Tiles, Describes, ManifestRows
<1>3. q \in Seq(Seq(Bytes)) /\ Len(q) = n /\ \A k \in 1 .. n : q[k] = rs[k].strong
  <2>1. q \in [1 .. n -> Seq(Bytes)]
    BY <1>1, <1>2
  <2>2. QED
    BY <1>1, <2>1
<1> HIDE DEF q
<1>4. ASSUME NEW k \in 1 .. n
      PROVE  Len(q[k]) = rs[k].length /\ \A j \in 1 .. Len(q[k]) : d[e[k - 1] + j] = q[k][j]
  <2> DEFINE a == e[k - 1]
             b == e[k]
  <2>1. a \in Nat /\ b \in Nat /\ b = a + rs[k].length /\ rs[k].length \in Nat /\ b <= Len(d)
        /\ q[k] = Slice(d, a, b)
    BY <1>2, <1>3
  <2> HIDE DEF a, b
  <2>2. a \in Nat /\ b \in Nat /\ a <= b /\ b - a = rs[k].length /\ b <= Len(d)
    BY <2>1
  <2>3. Len(Slice(d, a, b)) = b - a /\ \A j \in 1 .. b - a : Slice(d, a, b)[j] = d[a + j]
    BY <2>2, SliceIs
  <2>4. QED
    BY <2>1, <2>2, <2>3 DEF a
<1>5. Totals(Lens(q), e)
  <2>1. Len(Lens(q)) = n /\ \A k \in 1 .. n : Lens(q)[k] = Len(q[k])
    BY <1>3, LensAre
  <2>2. QED
    BY <1>2, <1>4, <2>1 DEF Totals, Tiles
<1>6. Joins(d, q, e, Len(q))
  BY <1>3, <1>4 DEF Joins
<1>7. FlattenSeq(q) = d
  BY <1>3, <1>5, <1>6, FlattenIs
<1>8. QED
  BY <1>7 DEF q, Spelled

(* A manifest survives its encoding.                                        *)
LEMMA NoWrap ==
  ASSUME NEW x \in Nat, x < Modulus
  PROVE  x % Modulus = x
BY WidthAssumption

LEMMA EncodeTiles ==
  ASSUME NEW rs, NEW d, Len(d) \in Nat, NEW e, Tiles(rs, d, e)
  PROVE  Tiles(Encode(rs), d, e) /\ Len(Encode(rs)) = Len(rs)
<1> DEFINE n == Len(rs)
           t == Encode(rs)
<1>1. n \in Nat /\ DOMAIN rs = 1 .. n
  BY DEF Tiles
<1>2. Modulus \in Nat /\ Modulus > 0
  BY WidthAssumption, SizesAssumption
<1>3. ASSUME NEW k \in 1 .. n
      PROVE  /\ t[k] = [rs[k] EXCEPT !.offset = @ % Modulus, !.length = @ % Modulus]
             /\ Describes(t[k], d, e[k - 1], e[k])
  <2>1. t[k] = [rs[k] EXCEPT !.offset = @ % Modulus, !.length = @ % Modulus]
    BY <1>1 DEF Encode
  <2>2. Describes(rs[k], d, e[k - 1], e[k]) /\ rs[k] \in ManifestRows
    BY DEF Tiles, Describes
  <2>3. rs[k].offset \in Nat /\ rs[k].length \in Nat /\ rs[k].offset % Modulus \in Nat
    <3>1. rs[k].offset \in Nat /\ rs[k].length \in Nat
      BY <2>2 DEF ManifestRows
    <3> DEFINE x == rs[k].offset
    <3> HIDE DEF x
    <3>2. x \in Nat => x % Modulus \in Nat
      BY <1>2
    <3>3. QED
      BY <3>1, <3>2 DEF x
  <2>4. rs[k].length % Modulus = rs[k].length
    BY <2>2, <2>3, NoWrap DEF Describes
  <2>5. t[k] = [rs[k] EXCEPT !.offset = rs[k].offset % Modulus, !.length = rs[k].length]
    BY <2>1, <2>2, <2>4 DEF ManifestRows
  <2> DEFINE o == rs[k].offset % Modulus
  <2>6. o \in Nat /\ t[k] = [rs[k] EXCEPT !.offset = o, !.length = rs[k].length]
    BY <2>3, <2>5
  <2> HIDE DEF o
  <2>7. /\ t[k] \in ManifestRows /\ t[k].offset = o /\ t[k].length = rs[k].length
        /\ t[k].strong = rs[k].strong
    BY <2>2, <2>3, <2>6 DEF ManifestRows
  <2>8. ASSUME Len(d) < Modulus PROVE o = e[k - 1]
    <3>1. rs[k].offset = e[k - 1]
      BY <2>2, <2>8 DEF Describes
    <3>2. e[k - 1] \in Nat /\ e[k - 1] < Modulus
      <4>1. k - 1 \in 0 .. n
        BY <1>1
      <4>2. e[k - 1] \in Nat /\ e[k - 1] <= Len(d)
        BY <4>1, TilesInside
      <4>3. QED
        BY <1>2, <2>8, <4>2
    <3>3. QED
      BY <3>1, <3>2, NoWrap DEF o
  <2>9. QED
    BY <2>1, <2>2, <2>7, <2>8 DEF Describes
<1>4. t \in [1 .. n -> ManifestRows]
  <2>1. DOMAIN t = 1 .. n /\ t = [k \in 1 .. n |-> t[k]]
    BY <1>1 DEF Encode
  <2>2. \A k \in 1 .. n : t[k] \in ManifestRows
    BY <1>3 DEF Describes
  <2> HIDE DEF t
  <2>3. QED
    BY <2>1, <2>2
<1>5. t \in Seq(ManifestRows) /\ Len(t) = n
  BY <1>1, <1>4
<1> HIDE DEF t
<1>6. Tiles(t, d, e)
  BY <1>3, <1>5 DEF Tiles
<1>7. QED
  BY <1>5, <1>6 DEF t

(* One row more.                                                            *)
Further(e, n, v) == [k \in 0 .. n + 1 |-> IF k = n + 1 THEN v ELSE e[k]]

LEMMA TilesGrow ==
  ASSUME NEW rs, NEW d, NEW e, Tiles(rs, d, e), NEW r, NEW v \in Nat,
         Describes(r, d, e[Len(rs)], v)
  PROVE  /\ Tiles(Append(rs, r), d, Further(e, Len(rs), v))
         /\ Len(Append(rs, r)) = Len(rs) + 1
         /\ Further(e, Len(rs), v)[Len(rs) + 1] = v
         /\ \A k \in 0 .. Len(rs) : Further(e, Len(rs), v)[k] = e[k]
<1> DEFINE n == Len(rs)
           t == Append(rs, r)
           f == Further(e, n, v)
<1>1. n \in Nat /\ rs \in Seq(ManifestRows) /\ r \in ManifestRows
  BY DEF Tiles, Describes
<1>2. t \in Seq(ManifestRows) /\ Len(t) = n + 1 /\ t[n + 1] = r /\ \A k \in 1 .. n : t[k] = rs[k]
  BY <1>1
<1>3. \A k \in 0 .. n : e[k] \in Nat
  BY DEF Tiles
<1>4. f[n + 1] = v /\ \A k \in 0 .. n : f[k] = e[k]
  BY <1>1 DEF Further
<1>5. f \in [0 .. n + 1 -> Nat]
  BY <1>1, <1>3 DEF Further
<1> HIDE DEF t, f
<1>6. ASSUME NEW k \in 1 .. n + 1 PROVE Describes(t[k], d, f[k - 1], f[k])
  <2>1. CASE k = n + 1
    <3>1. k - 1 = n /\ n \in 0 .. n
      BY <1>1, <2>1
    <3>2. QED
      BY <1>2, <1>4, <2>1, <3>1
  <2>2. CASE k # n + 1
    <3>1. k \in 1 .. n /\ k - 1 \in 0 .. n /\ k \in 0 .. n
      BY <1>1, <2>2
    <3>2. QED
      BY <1>2, <1>4, <3>1 DEF Tiles
  <2>3. QED
    BY <2>1, <2>2
<1>7. f[0] = 0
  BY <1>1, <1>4 DEF Tiles
<1>8. Tiles(t, d, f)
  BY <1>2, <1>5, <1>6, <1>7 DEF Tiles
<1>9. QED
  BY <1>2, <1>4, <1>8 DEF t, f


(* The sum of the lengths of the first m sequences.                         *)
LEMMA SumOfFirst ==
  ASSUME NEW A, NEW q \in Seq(Seq(A)), NEW e, Totals(Lens(q), e), NEW m \in 0 .. Len(q)
  PROVE  SumOf([k \in 1 .. m |-> Len(q[k])]) = e[m]
<1> DEFINE p == [k \in 1 .. m |-> Len(q[k])]
           f == [k \in 0 .. m |-> e[k]]
<1>1. /\ Len(q) \in Nat /\ Len(Lens(q)) = Len(q) /\ m \in Nat /\ m <= Len(q)
      /\ \A k \in 1 .. Len(q) : Lens(q)[k] = Len(q[k]) /\ Len(q[k]) \in Nat
  BY LensAre
<1>2. \A k \in 1 .. m : k \in 1 .. Len(q) /\ k - 1 \in 0 .. m /\ k \in 0 .. m
  BY <1>1
<1>3. p \in [1 .. m -> Nat]
  BY <1>1, <1>2
<1>4. p \in Seq(Nat) /\ Len(p) = m /\ \A k \in 1 .. m : p[k] = Len(q[k])
  BY <1>1, <1>3
<1>5. f \in [0 .. m -> Nat] /\ \A k \in 0 .. m : f[k] = e[k]
  <2> HIDE DEF p, f
  <2>1. e \in [0 .. Len(q) -> Nat]
    BY <1>1 DEF Totals
  <2>2. \A k \in 0 .. m : k \in 0 .. Len(q)
    BY <1>1
  <2>3. \A k \in 0 .. m : e[k] \in Nat
    BY <2>1, <2>2
  <2>4. QED
    BY <2>3 DEF f
<1> HIDE DEF p, f
<1>6. Totals(p, f)
  <2>1. f[0] = 0
    BY <1>1, <1>5 DEF Totals
  <2>2. ASSUME NEW k \in 1 .. m PROVE f[k] = f[k - 1] + p[k]
    <3>1. e[k] = e[k - 1] + Len(q[k])
      BY <1>1, <1>2 DEF Totals
    <3>2. QED
      BY <1>2, <1>4, <1>5, <3>1
  <2>3. QED
    BY <1>4, <1>5, <2>1, <2>2 DEF Totals
<1>7. SumOf(p) = f[m]
  BY <1>4, <1>6, SumIs
<1>8. QED
  BY <1>1, <1>5, <1>7 DEF p

(* What a row is made of.                                                   *)
LEMMA RowIs ==
  ASSUME NEW o \in Nat, NEW b \in Seq(Bytes), NEW n \in Nat
  PROVE  /\ Row(o, b, n) \in ManifestRows
         /\ Row(o, b, n).offset = o /\ Row(o, b, n).length = n /\ Row(o, b, n).strong = b
<1>1. Adler32(b) \in Weaks
  BY DEF Weaks
<1> DEFINE w == Adler32(b)
<1>2. w \in Weaks /\ Row(o, b, n) = [offset |-> o, length |-> n, weak |-> w, strong |-> b]
  BY <1>1 DEF Row
<1> HIDE DEF w
<1>3. QED
  BY <1>2 DEF ManifestRows

(* The marks of the chunks of a chain.                                      *)
Marks(es) == [k \in 0 .. Len(es) |-> IF k = 0 THEN 0 ELSE es[k]]

LEMMA PiecesAre ==
  ASSUME File \in Seq(Bytes), NEW es, Chain(boundary, File, 0, es)
  PROVE  /\ Pieces(es) \in Seq(Seq(Bytes)) /\ Len(Pieces(es)) = Len(es) /\ Len(es) \in Nat
         /\ Totals(Lens(Pieces(es)), Marks(es))
         /\ \A k \in 0 .. Len(es) : Marks(es)[k] \in Nat /\ Marks(es)[k] <= Len(File)
         /\ \A k \in 1 .. Len(es) :
              /\ Pieces(es)[k] = Slice(File, Marks(es)[k - 1], Marks(es)[k])
              /\ Marks(es)[k] = Marks(es)[k - 1] + Len(Pieces(es)[k])
              /\ Len(Pieces(es)[k]) \in Nat /\ Len(Pieces(es)[k]) < Modulus
              /\ Marks(es)[k - 1] < Len(File) /\ Marks(es)[k] = CutOf(boundary, File, Marks(es)[k - 1])
<1> DEFINE d == File
           n == Len(es)
           e == Marks(es)
           q == Pieces(es)
<1>1. d \in Seq(Bytes) /\ Len(d) \in Nat /\ n \in Nat /\ DOMAIN es = 1 .. n /\ 0 \in Nat /\ 0 <= Len(d)
  BY DEF Chain
<1>2. \A k \in 1 .. n : /\ Before(es, 0, k) \in Nat /\ es[k] \in Nat
                        /\ Before(es, 0, k) < es[k] /\ es[k] <= Len(d)
  <2> HIDE DEF d
  <2>1. Chain(boundary, d, 0, es)
    BY DEF d
  <2>2. QED
    BY <1>1, <2>1, ChainInside
<1>3. \A k \in 1 .. n : Before(es, 0, k) < Len(d) /\ es[k] = CutOf(boundary, d, Before(es, 0, k))
  BY DEF Chain
<1>4. \A k \in 1 .. n : q[k] = Slice(d, Before(es, 0, k), es[k])
  BY <1>1 DEF Pieces, Start, Before
<1>5. DOMAIN q = 1 .. n /\ q = [k \in 1 .. n |-> q[k]]
  BY <1>1 DEF Pieces
<1>6. \A k \in 1 .. n : e[k] = es[k] /\ e[k - 1] = Before(es, 0, k)
  <2> SUFFICES ASSUME NEW k \in 1 .. n PROVE e[k] = es[k] /\ e[k - 1] = Before(es, 0, k)
    OBVIOUS
  <2>1. k \in 0 .. n /\ k - 1 \in 0 .. n /\ (k - 1 = 0 <=> k = 1) /\ k # 0
    BY <1>1
  <2>2. QED
    BY <2>1 DEF Marks, Before
<1>7. e[0] = 0 /\ DOMAIN e = 0 .. n /\ e = [k \in 0 .. n |-> e[k]]
  BY <1>1 DEF Marks
<1> HIDE DEF d, n, e, q
<1>8. \A k \in 0 .. n : e[k] \in Nat /\ e[k] <= Len(d)
  <2> SUFFICES ASSUME NEW k \in 0 .. n PROVE e[k] \in Nat /\ e[k] <= Len(d)
    OBVIOUS
  <2>1. k = 0 \/ k \in 1 .. n
    BY <1>1
  <2>2. QED
    BY <1>1, <1>2, <1>6, <1>7, <2>1
<1>9. ASSUME NEW k \in 1 .. n
      PROVE  /\ q[k] = Slice(d, e[k - 1], e[k]) /\ q[k] \in Seq(Bytes)
             /\ e[k] = e[k - 1] + Len(q[k])
             /\ Len(q[k]) \in Nat /\ Len(q[k]) < Modulus
             /\ e[k - 1] < Len(d) /\ e[k] = CutOf(boundary, d, e[k - 1])
  <2> DEFINE a == e[k - 1]
             b == e[k]
             l == b - a
             y == q[k]
  <2>1. /\ a \in Nat /\ b \in Nat /\ a < b /\ b <= Len(d) /\ a < Len(d) /\ b = CutOf(boundary, d, a)
        /\ y = Slice(d, a, b)
    BY <1>2, <1>3, <1>4, <1>6
  <2> HIDE DEF a, b, y
  <2>2. l \in Nat /\ b = a + l
    BY <2>1
  <2>3. l < Modulus
    <3>1. MaxSize > 0 => b <= a + MaxSize
      BY <1>1, <2>1, CutBounds
    <3>2. MaxSize = 0 => b = a + 1
      BY <1>1, <2>1, CutBounds
    <3>3. QED
      BY <2>1, <2>2, <3>1, <3>2, SizesAssumption, WidthAssumption
  <2> HIDE DEF l
  <2>4. IsPart(y, Bytes, d, a, l)
    BY <1>1, <2>1, <2>2, SliceIsPart
  <2>5. y \in Seq(Bytes) /\ Len(y) = l
    BY <2>4 DEF IsPart
  <2>6. QED
    BY <2>1, <2>2, <2>3, <2>5 DEF a, b, y
<1>10. q \in [1 .. n -> Seq(Bytes)]
  BY <1>5, <1>9
<1>11. q \in Seq(Seq(Bytes)) /\ Len(q) = n
  BY <1>1, <1>10
<1>12. Totals(Lens(q), e)
  <2>1. Len(Lens(q)) = n /\ \A k \in 1 .. n : Lens(q)[k] = Len(q[k])
    BY <1>11, LensAre
  <2>2. e \in [0 .. n -> Nat]
    BY <1>7, <1>8
  <2>3. QED
    BY <1>7, <1>9, <2>1, <2>2 DEF Totals
<1>13. QED
  BY <1>1, <1>8, <1>9, <1>11, <1>12 DEF d, n, e, q

(* The rows that commit makes of negotiated chunks.                         *)
LEMMA ChunksTile ==
  ASSUME File \in Seq(Bytes), NEW es, Chain(boundary, File, 0, es)
  PROVE  /\ Tiles(RunningOffsets(Pieces(es)), File, Marks(es))
         /\ Len(RunningOffsets(Pieces(es))) = Len(es)
<1> DEFINE d == File
           n == Len(es)
           e == Marks(es)
           q == Pieces(es)
           t == RunningOffsets(q)
<1>1. /\ q \in Seq(Seq(Bytes)) /\ Len(q) = n /\ n \in Nat /\ Totals(Lens(q), e)
      /\ \A k \in 0 .. n : e[k] \in Nat /\ e[k] <= Len(d)
      /\ \A k \in 1 .. n : /\ q[k] = Slice(d, e[k - 1], e[k])
                           /\ e[k] = e[k - 1] + Len(q[k])
                           /\ Len(q[k]) \in Nat /\ Len(q[k]) < Modulus
  BY PiecesAre
<1>2. e \in [0 .. n -> Nat] /\ e[0] = 0
  <2>1. Len(Lens(q)) = n
    <3> HIDE DEF q
    <3>1. QED
      BY <1>1, LensAre
  <2>2. QED
    BY <1>1, <2>1 DEF Totals
<1>3. DOMAIN q = 1 .. n /\ \A k \in 1 .. n : q[k] \in Seq(Bytes)
  <2> HIDE DEF q
  <2>1. QED
    BY <1>1
<1>4. /\ DOMAIN t = 1 .. n /\ t = [k \in 1 .. n |-> t[k]]
      /\ \A k \in 1 .. n : t[k] = Row(SumOf([m \in 1 .. k - 1 |-> Len(q[m])]), q[k], Len(q[k]))
  BY <1>3 DEF RunningOffsets
<1> HIDE DEF d, n, e, q, t
<1>5. ASSUME NEW k \in 1 .. n PROVE Describes(t[k], d, e[k - 1], e[k])
  <2> DEFINE m == k - 1
             o == SumOf([j \in 1 .. m |-> Len(q[j])])
  <2>1. m \in 0 .. n
    BY <1>1
  <2> HIDE DEF m
  <2>2. o = e[m]
    BY <1>1, <2>1, SumOfFirst
  <2>3. t[k] = Row(o, q[k], Len(q[k]))
    BY <1>4 DEF m
  <2> HIDE DEF o
  <2> DEFINE r == t[k]
  <2>4. o \in Nat
    BY <1>1, <2>1, <2>2
  <2>5. /\ r \in ManifestRows /\ r.offset = o /\ r.length = Len(q[k]) /\ r.strong = q[k]
    <3> DEFINE y == q[k]
               l == Len(q[k])
    <3>1. y \in Seq(Bytes) /\ l \in Nat /\ r = Row(o, y, l)
      BY <1>1, <1>3, <2>3
    <3> HIDE DEF y, l, r
    <3>2. r \in ManifestRows /\ r.offset = o /\ r.length = l /\ r.strong = y
      BY <2>4, <3>1, RowIs
    <3>3. QED
      BY <3>2 DEF y, l
  <2>6. k \in 0 .. n
    BY <1>1
  <2> HIDE DEF r
  <2>7. Describes(r, d, e[m], e[k])
    BY <1>1, <2>2, <2>5, <2>6 DEF Describes, m
  <2>8. QED
    BY <2>7 DEF m, r
<1>6. \A k \in 1 .. n : t[k] \in ManifestRows
  BY <1>5 DEF Describes
<1>7. t \in [1 .. n -> ManifestRows]
  BY <1>4, <1>6
<1>8. t \in Seq(ManifestRows) /\ Len(t) = n
  BY <1>1, <1>7
<1>9. Tiles(t, d, e)
  BY <1>2, <1>5, <1>8 DEF Tiles
<1>10. QED
  BY <1>8, <1>9 DEF d, n, e, q, t


-----------------------------------------------------------------------------
(* Operations                                                               *)

Operations == [type : {"copy", "literal"}, block : Nat, offset : Nat, length : Nat]

(* An operation stands for the bytes of d from s to e: a copy repeats a row *)
(* of sigs, a literal takes the bytes of lits from u to v.                  *)
Carries(op, lits, sigs, d, s, e, u, v) ==
  /\ op \in Operations
  /\ e \in Nat /\ e <= Len(d) /\ v \in Nat /\ v <= Len(lits)
  /\ op.type = "copy" => /\ op.block \in DOMAIN sigs /\ v = u
                         /\ e = s + sigs[op.block].length
                         /\ sigs[op.block].strong = Slice(d, s, e)
  /\ op.type = "literal" => /\ e = s + op.length /\ v = u + op.length
                            /\ Slice(lits, u, v) = Slice(d, s, e)

(* Operations that follow each other: operation k stands for the bytes from *)
(* e[k - 1] to e[k], the literals among them for lits, up to l[k].          *)
Rebuild(os, lits, sigs, d, e, l) ==
  /\ os \in Seq(Operations) /\ lits \in Seq(Bytes)
  /\ e \in [0 .. Len(os) -> Nat] /\ e[0] <= Len(d)
  /\ l \in [0 .. Len(os) -> Nat] /\ l[0] = 0 /\ l[Len(os)] = Len(lits)
  /\ \A k \in 1 .. Len(os) : Carries(os[k], lits, sigs, d, e[k - 1], e[k], l[k - 1], l[k])

(* They stand for the bytes of d from n to m.                               *)
Sends(os, lits, sigs, d, n, m) ==
  \E e, l : Rebuild(os, lits, sigs, d, e, l) /\ e[0] = n /\ e[Len(os)] = m

(* No operations stand for no bytes.                                        *)
LEMMA SendNothing ==
  ASSUME NEW sigs, NEW d, NEW n \in Nat, n <= Len(d)
  PROVE  Sends(<<>>, <<>>, sigs, d, n, n)
<1> DEFINE e == [k \in 0 .. 0 |-> n]
           l == [k \in 0 .. 0 |-> 0]
<1>1. /\ <<>> \in Seq(Operations) /\ <<>> \in Seq(Bytes) /\ Len(<<>>) = 0
      /\ e \in [0 .. 0 -> Nat] /\ e[0] = n /\ l \in [0 .. 0 -> Nat] /\ l[0] = 0
  OBVIOUS
<1> HIDE DEF e, l
<1>2. Rebuild(<<>>, <<>>, sigs, d, e, l)
  BY <1>1 DEF Rebuild
<1>3. QED
  BY <1>1, <1>2 DEF Sends

(* What operations that follow each other end with.                         *)
LEMMA RebuildIs ==
  ASSUME NEW os, NEW lits, NEW sigs, NEW d \in Seq(Bytes), NEW e, NEW l, Rebuild(os, lits, sigs, d, e, l)
  PROVE  /\ Len(os) \in Nat /\ Len(lits) \in Nat /\ os \in Seq(Operations) /\ lits \in Seq(Bytes)
         /\ \A k \in 0 .. Len(os) : /\ e[k] \in Nat /\ e[k] <= Len(d)
                                    /\ l[k] \in Nat /\ l[k] <= Len(lits)
<1>1. /\ Len(os) \in Nat /\ Len(lits) \in Nat /\ os \in Seq(Operations) /\ lits \in Seq(Bytes)
      /\ Len(d) \in Nat
  BY DEF Rebuild
<1>2. ASSUME NEW k \in 0 .. Len(os)
      PROVE  e[k] \in Nat /\ e[k] <= Len(d) /\ l[k] \in Nat /\ l[k] <= Len(lits)
  <2>1. CASE k = 0
    BY <1>1, <2>1 DEF Rebuild
  <2>2. CASE k # 0
    <3>1. k \in 1 .. Len(os)
      BY <1>1, <2>2
    <3>2. QED
      BY <3>1 DEF Rebuild, Carries
  <2>3. QED
    BY <2>1, <2>2
<1>3. QED
  BY <1>1, <1>2

(* One operation more, with the literal bytes x.                            *)
LEMMA SendMore ==
  ASSUME NEW os, NEW lits, NEW sigs, NEW d \in Seq(Bytes), NEW n, NEW m, NEW v,
         Sends(os, lits, sigs, d, n, m), NEW x \in Seq(Bytes), NEW op,
         Carries(op, lits \o x, sigs, d, m, v, Len(lits), Len(lits) + Len(x))
  PROVE  Sends(Append(os, op), lits \o x, sigs, d, n, v)
<1>1. PICK e, l : Rebuild(os, lits, sigs, d, e, l) /\ e[0] = n /\ e[Len(os)] = m
  BY DEF Sends
<1> DEFINE c == Len(os)
           t == Append(os, op)
           y == lits \o x
           w == Len(lits) + Len(x)
           f == Further(e, c, v)
           g == Further(l, c, w)
<1>2. /\ c \in Nat /\ os \in Seq(Operations) /\ lits \in Seq(Bytes) /\ Len(lits) \in Nat
      /\ \A k \in 0 .. c : e[k] \in Nat /\ e[k] <= Len(d) /\ l[k] \in Nat /\ l[k] <= Len(lits)
  BY <1>1, RebuildIs
<1>3. op \in Operations /\ v \in Nat /\ v <= Len(d) /\ w \in Nat /\ Len(x) \in Nat
  BY DEF Carries
<1>4. t \in Seq(Operations) /\ Len(t) = c + 1 /\ t[c + 1] = op /\ \A k \in 1 .. c : t[k] = os[k]
  BY <1>2, <1>3
<1>5. y \in Seq(Bytes) /\ Len(y) = w
  BY <1>2
<1>6. /\ f[c + 1] = v /\ \A k \in 0 .. c : f[k] = e[k]
      /\ g[c + 1] = w /\ \A k \in 0 .. c : g[k] = l[k]
  BY <1>2 DEF Further
<1>7. f \in [0 .. c + 1 -> Nat] /\ g \in [0 .. c + 1 -> Nat]
  BY <1>2, <1>3 DEF Further
<1>8. Carries(op, y, sigs, d, m, v, Len(lits), w)
  OBVIOUS
<1>9. e[c] = m /\ l[c] = Len(lits) /\ e[0] = n /\ l[0] = 0 /\ e[0] <= Len(d)
  BY <1>1 DEF Rebuild
<1>10. \A k \in 1 .. c : Carries(os[k], lits, sigs, d, e[k - 1], e[k], l[k - 1], l[k])
  BY <1>1 DEF Rebuild
<1>11. \A a \in Nat, b \in Nat : a <= b /\ b <= Len(lits) => Slice(y, a, b) = Slice(lits, a, b)
  BY <1>2, SliceOfLonger
<1> HIDE DEF c, t, y, w, f, g
<1>12. ASSUME NEW k \in 1 .. c + 1
       PROVE  Carries(t[k], y, sigs, d, f[k - 1], f[k], g[k - 1], g[k])
  <2>1. CASE k = c + 1
    <3>1. k - 1 = c /\ c \in 0 .. c
      BY <1>2, <2>1
    <3>2. QED
      BY <1>4, <1>6, <1>8, <1>9, <2>1, <3>1
  <2>2. CASE k # c + 1
    <3>1. k \in 1 .. c /\ k - 1 \in 0 .. c /\ k \in 0 .. c
      BY <1>2, <2>2
    <3>2. /\ t[k] = os[k] /\ f[k - 1] = e[k - 1] /\ f[k] = e[k]
          /\ g[k - 1] = l[k - 1] /\ g[k] = l[k]
      BY <1>4, <1>6, <3>1
    <3>3. Carries(os[k], lits, sigs, d, e[k - 1], e[k], l[k - 1], l[k])
      BY <1>10, <3>1
    <3>4. l[k] <= Len(y) /\ l[k] \in Nat /\ l[k - 1] \in Nat /\ l[k] <= Len(lits)
      BY <1>2, <1>3, <1>5, <3>1 DEF w
    <3>5. ASSUME os[k].type = "literal" PROVE Slice(y, l[k - 1], l[k]) = Slice(lits, l[k - 1], l[k])
      <4>1. l[k] = l[k - 1] + os[k].length /\ os[k].length \in Nat
        BY <3>3, <3>5 DEF Carries, Operations
      <4>2. l[k - 1] <= l[k]
        BY <3>4, <4>1
      <4>3. QED
        BY <1>11, <3>4, <4>2
    <3>6. Carries(os[k], y, sigs, d, e[k - 1], e[k], l[k - 1], l[k])
      BY <3>3, <3>4, <3>5 DEF Carries
    <3>7. QED
      BY <3>2, <3>6
  <2>3. QED
    BY <2>1, <2>2
<1>13. 0 \in 0 .. c
  BY <1>2
<1>14. Rebuild(t, y, sigs, d, f, g)
  BY <1>4, <1>5, <1>6, <1>7, <1>9, <1>12, <1>13 DEF Rebuild
<1>15. f[0] = n /\ f[Len(t)] = v
  BY <1>4, <1>6, <1>9, <1>13
<1>16. Sends(t, y, sigs, d, n, v)
  BY <1>14, <1>15 DEF Sends
<1>17. QED
  BY <1>16 DEF t, y

(* One operation less: what is left when the first one is done.             *)
LEMMA SendLess ==
  ASSUME NEW os, os # <<>>, NEW lits, NEW sigs, NEW d \in Seq(Bytes), NEW n, NEW m,
         Sends(os, lits, sigs, d, n, m)
  PROVE  /\ os[1] \in Operations /\ n \in Nat
         /\ os[1].type = "copy" =>
              /\ os[1].block \in DOMAIN sigs
              /\ n + sigs[os[1].block].length \in Nat
              /\ n + sigs[os[1].block].length <= Len(d)
              /\ sigs[os[1].block].strong = Slice(d, n, n + sigs[os[1].block].length)
              /\ Sends(Tail(os), lits, sigs, d, n + sigs[os[1].block].length, m)
         /\ os[1].type = "literal" =>
              /\ n + os[1].length <= Len(d) /\ os[1].length <= Len(lits)
              /\ Slice(lits, 0, os[1].length) = Slice(d, n, n + os[1].length)
              /\ Sends(Tail(os), Slice(lits, os[1].length, Len(lits)), sigs, d, n + os[1].length, m)
<1>1. PICK e, l : Rebuild(os, lits, sigs, d, e, l) /\ e[0] = n /\ e[Len(os)] = m
  BY DEF Sends
<1> DEFINE c == Len(os) - 1
           t == Tail(os)
           u == l[1]
           y == Slice(lits, u, Len(lits))
           f == [k \in 0 .. c |-> e[k + 1]]
           g == [k \in 0 .. c |-> l[k + 1] - u]
           op == os[1]
<1>2. /\ Len(os) \in Nat /\ os \in Seq(Operations) /\ lits \in Seq(Bytes) /\ Len(lits) \in Nat
      /\ \A k \in 0 .. Len(os) : e[k] \in Nat /\ e[k] <= Len(d) /\ l[k] \in Nat /\ l[k] <= Len(lits)
  BY <1>1, RebuildIs
<1>3. c \in Nat /\ Len(os) = c + 1 /\ 1 \in 1 .. Len(os) /\ 1 - 1 = 0
  BY <1>2
<1>4. t \in Seq(Operations) /\ Len(t) = c /\ \A k \in 1 .. c : t[k] = os[k + 1]
  BY <1>2, <1>3
<1>5. \A k \in 1 .. Len(os) : Carries(os[k], lits, sigs, d, e[k - 1], e[k], l[k - 1], l[k])
  BY <1>1 DEF Rebuild
<1>6. Carries(op, lits, sigs, d, n, e[1], 0, u) /\ op \in Operations
  <2>1. l[0] = 0
    BY <1>1 DEF Rebuild
  <2>2. Carries(os[1], lits, sigs, d, e[1 - 1], e[1], l[1 - 1], l[1])
    BY <1>3, <1>5
  <2>3. QED
    BY <1>1, <1>3, <2>1, <2>2 DEF Carries
<1>7. u \in Nat /\ u <= Len(lits) /\ n \in Nat
  <2>1. 0 \in 0 .. Len(os) /\ 1 \in 0 .. Len(os)
    BY <1>3
  <2>2. QED
    BY <1>1, <1>2, <2>1
<1>8. \A k \in 1 .. Len(os) : l[k - 1] <= l[k]
  <2> SUFFICES ASSUME NEW k \in 1 .. Len(os) PROVE l[k - 1] <= l[k]
    OBVIOUS
  <2>1. k - 1 \in 0 .. Len(os) /\ k \in 0 .. Len(os)
    BY <1>2
  <2>2. Carries(os[k], lits, sigs, d, e[k - 1], e[k], l[k - 1], l[k])
    BY <1>5
  <2>3. os[k].length \in Nat /\ (os[k].type = "copy" \/ os[k].type = "literal")
    BY <2>2 DEF Carries, Operations
  <2>4. l[k] = l[k - 1] \/ l[k] = l[k - 1] + os[k].length
    BY <2>2, <2>3 DEF Carries
  <2>5. QED
    BY <1>2, <2>1, <2>3, <2>4
<1>9. \A k \in 0 .. c : u <= l[k + 1]
  <2> DEFINE T == {k \in Nat : k <= c => u <= l[k + 1]}
  <2>1. 0 \in T
    <3>1. 0 + 1 = 1
      OBVIOUS
    <3>2. QED
      BY <1>7, <3>1
  <2>2. ASSUME NEW k \in Nat, k \in T PROVE k + 1 \in T
    <3> SUFFICES ASSUME k + 1 <= c PROVE u <= l[(k + 1) + 1]
      OBVIOUS
    <3> DEFINE a == k + 1
    <3>1. a \in Nat /\ a + 1 \in 1 .. Len(os) /\ (a + 1) - 1 = a /\ a \in 0 .. Len(os) /\ a + 1 \in 0 .. Len(os)
      BY <1>3
    <3>2. u <= l[a]
      BY <1>3, <2>2
    <3> HIDE DEF a, T, u
    <3> DEFINE b == a + 1
    <3> HIDE DEF b
    <3>3. l[a] <= l[b] /\ l[a] \in Nat /\ l[b] \in Nat
      BY <1>2, <1>8, <3>1 DEF b
    <3>4. u <= l[b]
      BY <1>7, <3>2, <3>3
    <3>5. QED
      BY <3>4 DEF a, b
  <2> HIDE DEF T
  <2>3. Nat \subseteq T
    BY <2>1, <2>2, SetInduction
  <2>4. QED
    BY <1>3, <2>3 DEF T
<1>10. f \in [0 .. c -> Nat] /\ g \in [0 .. c -> Nat]
  <2> SUFFICES ASSUME NEW k \in 0 .. c PROVE e[k + 1] \in Nat /\ l[k + 1] - u \in Nat
    OBVIOUS
  <2>1. k + 1 \in 0 .. Len(os)
    BY <1>3
  <2>2. QED
    BY <1>2, <1>7, <1>9, <2>1
<1>11. \A k \in 0 .. c : f[k] = e[k + 1] /\ g[k] = l[k + 1] - u
  OBVIOUS
<1>12. y \in Seq(Bytes) /\ Len(y) = Len(lits) - u
  <2> DEFINE r == Len(lits) - u
  <2>1. r \in Nat /\ Len(lits) = u + r
    BY <1>2, <1>7
  <2> HIDE DEF r, y, u
  <2>2. IsPart(y, Bytes, lits, u, r)
    BY <1>2, <1>7, <2>1, SliceIsPart DEF y
  <2>3. QED
    BY <2>2 DEF IsPart, r
<1>13. \A a \in Nat, b \in Nat : a <= b /\ u + b <= Len(lits) => Slice(y, a, b) = Slice(lits, u + a, u + b)
  BY <1>2, <1>7, SliceSlice
<1> HIDE DEF c, t, u, y, f, g, op
<1>14. ASSUME NEW k \in 1 .. c
       PROVE  Carries(t[k], y, sigs, d, f[k - 1], f[k], g[k - 1], g[k])
  <2> DEFINE a == k + 1
             op1 == os[a]
             b1 == l[a - 1]
             b2 == l[a]
             s1 == e[a - 1]
             s2 == e[a]
             g1 == b1 - u
             g2 == b2 - u
  <2>1. /\ a \in 1 .. Len(os) /\ a - 1 = k /\ k - 1 \in 0 .. c /\ k \in 0 .. c /\ (k - 1) + 1 = k
        /\ a - 1 \in 0 .. Len(os) /\ a \in 0 .. Len(os)
    BY <1>3
  <2>2. t[k] = op1 /\ f[k - 1] = s1 /\ f[k] = s2 /\ g[k - 1] = g1 /\ g[k] = g2
    BY <1>4, <1>11, <2>1
  <2>3. Carries(op1, lits, sigs, d, s1, s2, b1, b2)
    BY <1>5, <2>1
  <2>4. /\ b1 \in Nat /\ b2 \in Nat /\ b1 <= b2 /\ b2 <= Len(lits) /\ u <= b1 /\ u <= b2
    <3>1. b1 \in Nat /\ b2 \in Nat /\ b1 <= b2 /\ b2 <= Len(lits)
      BY <1>2, <1>8, <2>1
    <3>2. u <= l[(k - 1) + 1] /\ u <= l[k + 1]
      BY <1>9, <2>1
    <3>3. QED
      BY <2>1, <3>1, <3>2
  <2> HIDE DEF a, op1, b1, b2, s1, s2
  <2>5. /\ g1 \in Nat /\ g2 \in Nat /\ g1 <= g2 /\ u + g2 <= Len(lits) /\ g2 <= Len(y)
        /\ u + g1 = b1 /\ u + g2 = b2
    BY <1>2, <1>7, <1>12, <2>4
  <2>6. Slice(y, g1, g2) = Slice(lits, b1, b2)
    <3> HIDE DEF g1, g2
    <3>1. Slice(y, g1, g2) = Slice(lits, u + g1, u + g2)
      BY <1>13, <2>5
    <3>2. QED
      BY <2>5, <3>1
  <2>7. b2 = b1 => g2 = g1
    OBVIOUS
  <2>8. op1.length \in Nat
    BY <2>3 DEF Carries, Operations
  <2>9. b2 = b1 + op1.length => g2 = g1 + op1.length
    <3> DEFINE z == op1.length
    <3> HIDE DEF z
    <3>1. z \in Nat /\ b2 = b1 + z => g2 = g1 + z
      BY <1>7, <2>4
    <3>2. QED
      BY <2>8, <3>1 DEF z
  <2> HIDE DEF g1, g2
  <2>10. Carries(op1, y, sigs, d, s1, s2, g1, g2)
    BY <2>3, <2>5, <2>6, <2>7, <2>9 DEF Carries
  <2>11. QED
    BY <2>2, <2>10
<1>15. f[0] = e[1] /\ g[0] = 0 /\ f[c] = m /\ g[c] = Len(y) /\ f[0] <= Len(d)
  <2>1. 0 \in 0 .. c /\ c \in 0 .. c /\ 0 + 1 = 1 /\ c + 1 = Len(os) /\ 1 \in 0 .. Len(os)
    BY <1>3
  <2>2. l[Len(os)] = Len(lits)
    BY <1>1 DEF Rebuild
  <2>3. g[0] = u - u /\ g[c] = Len(lits) - u
    BY <1>11, <2>1, <2>2 DEF u
  <2>4. QED
    BY <1>1, <1>2, <1>7, <1>11, <1>12, <2>1, <2>3
<1>16. Rebuild(t, y, sigs, d, f, g)
  BY <1>4, <1>10, <1>12, <1>14, <1>15 DEF Rebuild
<1>17. Sends(t, y, sigs, d, e[1], m)
  BY <1>4, <1>15, <1>16 DEF Sends
<1>18. ASSUME op.type = "copy"
       PROVE  /\ op.block \in DOMAIN sigs
              /\ e[1] = n + sigs[op.block].length /\ e[1] \in Nat /\ e[1] <= Len(d)
              /\ sigs[op.block].strong = Slice(d, n, e[1])
              /\ Sends(t, lits, sigs, d, e[1], m)
  <2>1. u = 0
    BY <1>6, <1>18 DEF Carries
  <2>2. y = lits
    BY <1>2, <2>1, SliceOfAll DEF y
  <2>3. QED
    BY <1>6, <1>17, <1>18, <2>2 DEF Carries
<1>19. ASSUME op.type = "literal"
       PROVE  /\ e[1] = n + op.length /\ e[1] <= Len(d) /\ u = op.length /\ u <= Len(lits)
              /\ Slice(lits, 0, u) = Slice(d, n, e[1])
              /\ Sends(t, y, sigs, d, e[1], m)
  <2>1. e[1] = n + op.length /\ e[1] <= Len(d) /\ u = 0 + op.length /\ Slice(lits, 0, u) = Slice(d, n, e[1])
    BY <1>6, <1>19 DEF Carries
  <2>2. op.length \in Nat
    BY <1>6 DEF Operations
  <2>3. 0 + op.length = op.length
    <3> DEFINE z == op.length
    <3> HIDE DEF z
    <3>1. z \in Nat => 0 + z = z
      OBVIOUS
    <3>2. QED
      BY <2>2, <3>1 DEF z
  <2>4. QED
    BY <1>7, <1>17, <2>1, <2>3
<1>20. QED
  BY <1>6, <1>7, <1>18, <1>19 DEF op, t, y


(* The ops of both CDC deltas, in TypeScript and in Rust.                   *)
LEMMA ChunkOpsSend ==
  ASSUME File \in Seq(Bytes), Known \in Seq(ManifestRows), NEW es, Chain(boundary, File, 0, es)
  PROVE  Sends(ChunkOps(Pieces(es)).ops, ChunkOps(Pieces(es)).literals, Known, File,
               0, EndOf(es, 0))
<1> DEFINE d == File
           n == Len(es)
           e == Marks(es)
           q == Pieces(es)
           hit(k) == {m \in Matches(q[k]) : Known[m].length = Len(q[k])}
           sent == [k \in DOMAIN q |-> IF hit(k) = {} THEN q[k] ELSE <<>>]
           lits == ChunkOps(q).literals
           os == ChunkOps(q).ops
           at(k) == SumOf([m \in 1 .. k - 1 |-> Len(sent[m])])
<1>1. /\ q \in Seq(Seq(Bytes)) /\ Len(q) = n /\ n \in Nat /\ Totals(Lens(q), e)
      /\ \A k \in 0 .. n : e[k] \in Nat /\ e[k] <= Len(d)
      /\ \A k \in 1 .. n : /\ q[k] = Slice(d, e[k - 1], e[k])
                           /\ e[k] = e[k - 1] + Len(q[k])
                           /\ Len(q[k]) \in Nat /\ Len(q[k]) < Modulus
  BY PiecesAre
<1>2. lits = FlattenSeq(sent)
  BY DEF ChunkOps
<1>3. os = [k \in DOMAIN q |-> IF hit(k) # {} THEN Copy(Least(hit(k))) ELSE Literal(at(k), Len(q[k]))]
  BY DEF ChunkOps
<1>4. e[0] = 0 /\ e[n] = EndOf(es, 0)
  <2>1. 0 \in 0 .. n /\ n \in 0 .. n
    BY <1>1
  <2>2. QED
    BY <2>1 DEF Marks, EndOf
<1>5. \A k \in 1 .. n : q[k] \in Seq(Bytes)
  <2> HIDE DEF q
  <2>1. QED
    BY <1>1
<1>6. \A k \in 1 .. n : \A m \in hit(k) : m \in DOMAIN Known /\ m \in Nat /\ Known[m].strong = q[k]
                                             /\ Known[m].length = Len(q[k])
  <2>1. \A k \in 1 .. n : \A m \in hit(k) : m \in DOMAIN Known /\ Known[m].strong = q[k]
                                             /\ Known[m].length = Len(q[k])
    BY DEF Matches
  <2>2. DOMAIN Known \subseteq Nat
    OBVIOUS
  <2>3. QED
    BY <2>1, <2>2
<1> HIDE DEF q, hit
<1>7. DOMAIN q = 1 .. n
  BY <1>1
<1>8. \A k \in 1 .. n : sent[k] = (IF hit(k) = {} THEN q[k] ELSE <<>>) /\ sent[k] \in Seq(Bytes)
  BY <1>5, <1>7
<1>9. sent \in [1 .. n -> Seq(Bytes)]
  BY <1>7, <1>8
<1> HIDE DEF sent
<1>10. sent \in Seq(Seq(Bytes)) /\ Len(sent) = n
  <2> HIDE DEF n
  <2>1. n \in Nat
    BY <1>1
  <2>2. QED
    BY <1>9, <2>1
<1>11. /\ Lens(sent) \in Seq(Nat) /\ Len(Lens(sent)) = n
       /\ \A k \in 1 .. n : Lens(sent)[k] = Len(sent[k]) /\ Len(sent[k]) \in Nat
  BY <1>10, LensAre
<1>12. PICK l : Totals(Lens(sent), l)
  BY <1>11, SumExists
<1>13. lits \in Seq(Bytes) /\ Joins(lits, sent, l, n)
  <2> HIDE DEF lits
  <2>1. QED
    BY <1>2, <1>10, <1>12, FlattenJoins
<1>14. /\ \A k \in 0 .. n : l[k] \in Nat
       /\ \A k \in 1 .. n : l[k] = l[k - 1] + Len(sent[k])
       /\ l[0] = 0 /\ Len(lits) = l[n] /\ l \in [0 .. n -> Nat]
  <2>1. l \in [0 .. n -> Nat] /\ l[0] = 0
    BY <1>11, <1>12 DEF Totals
  <2>2. \A k \in 1 .. n : l[k] = l[k - 1] + Len(sent[k])
    BY <1>11, <1>12 DEF Totals
  <2>3. Len(lits) = l[n]
    BY <1>13 DEF Joins
  <2>4. QED
    BY <2>1, <2>2, <2>3
<1>15. \A k \in 0 .. n : l[k] <= l[n]
  <2> SUFFICES ASSUME NEW k \in 0 .. n PROVE l[k] <= l[n]
    OBVIOUS
  <2> DEFINE p == Lens(sent)
  <2> HIDE DEF p
  <2>1. p \in Seq(Nat) /\ Totals(p, l) /\ k \in 0 .. Len(p) /\ n \in k .. Len(p)
    BY <1>1, <1>11, <1>12 DEF p
  <2>2. QED
    BY <2>1, TotalsGrow
<1>16. \A k \in 1 .. n : at(k) = l[k - 1]
  <2> SUFFICES ASSUME NEW k \in 1 .. n PROVE at(k) = l[k - 1]
    OBVIOUS
  <2> DEFINE m == k - 1
  <2>1. m \in 0 .. n
    BY <1>1
  <2> HIDE DEF m
  <2>2. SumOf([j \in 1 .. m |-> Len(sent[j])]) = l[m]
    BY <1>10, <1>12, <2>1, SumOfFirst
  <2>3. QED
    BY <2>2 DEF m
<1> HIDE DEF at, lits, os, d, n, e
<1>17. ASSUME NEW k \in 1 .. n
       PROVE  Carries(os[k], lits, Known, d, e[k - 1], e[k], l[k - 1], l[k])
  <2> DEFINE s == e[k - 1]
             f == e[k]
             u == l[k - 1]
             v == l[k]
             y == q[k]
             c == Len(y)
             b == Least(hit(k))
             op == os[k]
             o == at(k)
  <2>0. k - 1 \in 0 .. n /\ k \in 0 .. n
    BY <1>1
  <2>1. /\ s \in Nat /\ f \in Nat /\ f <= Len(d) /\ f = s + c /\ y = Slice(d, s, f) /\ c \in Nat
        /\ u \in Nat /\ v \in Nat /\ v <= Len(lits) /\ v = u + Len(sent[k])
    BY <1>1, <1>14, <1>15, <2>0
  <2>2. op = IF hit(k) # {} THEN Copy(b) ELSE Literal(o, c)
    BY <1>3, <1>7
  <2>3. o \in Nat
    BY <1>16, <2>1
  <2>4. CASE hit(k) # {}
    <3>1. hit(k) \subseteq Nat
      BY <1>6
    <3>2. b \in hit(k)
      BY <2>4, <3>1, LeastElement
    <3> HIDE DEF b, s, f, u, v, y, op
    <3>3. b \in DOMAIN Known /\ b \in Nat /\ Known[b].strong = y /\ Known[b].length = c
      BY <1>6, <3>2 DEF y
    <3>4. op = [type |-> "copy", block |-> b, offset |-> 0, length |-> 0]
      BY <2>2, <2>4 DEF Copy
    <3>5. op \in Operations /\ op.type = "copy" /\ op.block = b
      BY <3>3, <3>4 DEF Operations
    <3>6. v = u
      <4>1. Len(sent[k]) = 0
        BY <1>8, <2>4
      <4>2. QED
        BY <2>1, <4>1
    <3> HIDE DEF c
    <3>7. Carries(op, lits, Known, d, s, f, u, v)
      BY <2>1, <3>3, <3>5, <3>6 DEF Carries
    <3>8. QED
      BY <3>7 DEF op, s, f, u, v
  <2>5. CASE hit(k) = {}
    <3>1. sent[k] = y
      BY <1>8, <2>5
    <3> HIDE DEF s, f, u, v, y, op, b
    <3>2. v = u + c
      BY <2>1, <3>1
    <3>3. \A j \in 1 .. c : lits[u + j] = y[j]
      BY <1>13, <3>1 DEF Joins, u
    <3> HIDE DEF c, o
    <3>4. op = [type |-> "literal", block |-> 0, offset |-> o, length |-> c]
      BY <2>2, <2>5 DEF Literal
    <3>5. op \in Operations /\ op.type = "literal" /\ op.length = c
      BY <2>1, <2>3, <3>4 DEF Operations
    <3>6. Slice(lits, u, v) = y
      <4> DEFINE z == Slice(lits, u, v)
      <4> HIDE DEF z
      <4>1. IsPart(z, Bytes, lits, u, c)
        BY <1>13, <2>1, <3>2, SliceIsPart DEF z
      <4>2. y \in Seq(Bytes) /\ Len(y) = c
        BY <1>5 DEF y, c
      <4>3. z = y
        BY <3>3, <4>1, <4>2 DEF IsPart
      <4>4. QED
        BY <4>3 DEF z
    <3>7. Carries(op, lits, Known, d, s, f, u, v)
      BY <2>1, <3>2, <3>5, <3>6 DEF Carries
    <3>8. QED
      BY <3>7 DEF op, s, f, u, v
  <2>6. QED
    BY <2>4, <2>5
<1>18. os \in Seq(Operations) /\ Len(os) = n
  <2>1. DOMAIN os = 1 .. n /\ os = [k \in 1 .. n |-> os[k]]
    BY <1>3, <1>7
  <2>2. \A k \in 1 .. n : os[k] \in Operations
    BY <1>17 DEF Carries
  <2>3. os \in [1 .. n -> Operations]
    BY <2>1, <2>2
  <2>4. QED
    BY <1>1, <2>3
<1>19. e \in [0 .. n -> Nat]
  <2>1. Len(Lens(q)) = n
    BY <1>1, LensAre
  <2>2. QED
    BY <1>1, <2>1 DEF Totals
<1>20. 0 \in 0 .. n
  BY <1>1
<1>21. Rebuild(os, lits, Known, d, e, l)
  BY <1>1, <1>13, <1>14, <1>17, <1>18, <1>19, <1>20 DEF Rebuild
<1>22. Sends(os, lits, Known, d, 0, EndOf(es, 0))
  BY <1>4, <1>18, <1>21 DEF Sends
<1>23. QED
  BY <1>22 DEF os, lits, d, q

(* The binary encoding changes no operation whose literal fits its field.   *)
LEMMA WrappedSend ==
  ASSUME NEW os, NEW lits, Len(lits) < Modulus, NEW sigs, NEW d \in Seq(Bytes), NEW n, NEW m,
         Sends(os, lits, sigs, d, n, m)
  PROVE  Sends([k \in DOMAIN os |-> Wrapped(os[k])], lits, sigs, d, n, m)
<1>1. PICK e, l : Rebuild(os, lits, sigs, d, e, l) /\ e[0] = n /\ e[Len(os)] = m
  BY DEF Sends
<1> DEFINE c == Len(os)
           t == [k \in DOMAIN os |-> Wrapped(os[k])]
<1>2. /\ c \in Nat /\ os \in Seq(Operations) /\ lits \in Seq(Bytes) /\ Len(lits) \in Nat
      /\ \A k \in 0 .. c : e[k] \in Nat /\ e[k] <= Len(d) /\ l[k] \in Nat /\ l[k] <= Len(lits)
  BY <1>1, RebuildIs
<1>3. DOMAIN os = 1 .. c
  BY <1>2
<1>4. ASSUME NEW k \in 1 .. c
      PROVE  Carries(t[k], lits, sigs, d, e[k - 1], e[k], l[k - 1], l[k])
  <2> DEFINE op == os[k]
             x == op.offset
             y == op.length
             o == x % Modulus
             w == y % Modulus
  <2>1. Carries(op, lits, sigs, d, e[k - 1], e[k], l[k - 1], l[k])
    BY <1>1 DEF Rebuild
  <2>2. op \in Operations /\ x \in Nat /\ y \in Nat
    BY <2>1 DEF Carries, Operations
  <2>3. t[k] = [op EXCEPT !.offset = o, !.length = w]
    BY <1>3, <2>2 DEF Wrapped, Operations
  <2>7. k - 1 \in 0 .. c
    BY <1>2
  <2>4. op.type = "literal" => y <= Len(lits)
    <3>1. op.type = "literal" => l[k] = l[k - 1] + y /\ l[k] <= Len(lits) /\ l[k - 1] \in Nat
      BY <1>2, <2>1, <2>7 DEF Carries
    <3>2. QED
      BY <1>2, <2>2, <3>1
  <2> HIDE DEF op, x, y
  <2>5. o \in Nat /\ w \in Nat
    BY <2>2, WidthAssumption, SizesAssumption
  <2>6. op.type = "literal" => w = y
    <3>1. op.type = "literal" => y < Modulus
      BY <1>2, <2>2, <2>4, WidthAssumption
    <3>2. QED
      BY <2>2, <3>1, NoWrap
  <2> HIDE DEF o, w
  <2> DEFINE r == t[k]
  <2>8. r = [op EXCEPT !.offset = o, !.length = w]
    BY <2>3
  <2> HIDE DEF r
  <2>9. r \in Operations /\ r.type = op.type /\ r.block = op.block /\ r.length = w
    BY <2>2, <2>5, <2>8 DEF Operations
  <2>10. Carries(r, lits, sigs, d, e[k - 1], e[k], l[k - 1], l[k])
    BY <2>1, <2>6, <2>9 DEF Carries, y
  <2>11. QED
    BY <2>10 DEF r
<1>5. t \in Seq(Operations) /\ Len(t) = c
  <2>1. \A k \in 1 .. c : t[k] \in Operations
    BY <1>4 DEF Carries
  <2>2. t \in [1 .. c -> Operations]
    BY <1>3, <2>1
  <2>3. QED
    BY <1>2, <2>2
<1> HIDE DEF t
<1>6. Rebuild(t, lits, sigs, d, e, l)
  BY <1>1, <1>4, <1>5 DEF Rebuild
<1>7. Sends(t, lits, sigs, d, n, m)
  BY <1>1, <1>5, <1>6 DEF Sends
<1>8. QED
  BY <1>7 DEF t

(* How many blocks a file has.                                              *)
LEMMA BlocksCount ==
  ASSUME NEW len \in Nat, NEW size \in Nat \ {0}
  PROVE  \E n \in Nat : /\ {b \in 1 .. len : (b - 1) * size < len} = 1 .. n
                        /\ len <= n * size
<1> DEFINE B == size
           T == {m \in Nat : len <= m * B}
           n == Least(T)
<1>1. B \in Nat /\ B >= 1
  OBVIOUS
<1> HIDE DEF B
<1>2. \A m \in Nat : m * B \in Nat /\ m * B >= m
  BY <1>1
<1>3. len \in T /\ T \subseteq Nat
  BY <1>2
<1>4. n \in T /\ \A m \in T : n <= m
  BY <1>3, LeastElement
<1> HIDE DEF n
<1>5. n \in Nat /\ len <= n * B /\ \A m \in Nat : m < n => ~ (len <= m * B)
  BY <1>4
<1>6. \A m \in Nat : m >= n => m * B >= n * B
  BY <1>1, <1>5
<1>7. ASSUME NEW b \in Nat, b >= 1 PROVE b <= n <=> b <= len /\ (b - 1) * B < len
  <2> DEFINE m == b - 1
             x == m * B
  <2>1. m \in Nat /\ x \in Nat /\ x >= m /\ b = m + 1
    BY <1>2, <1>7
  <2>2. m < n => ~ (len <= x)
    BY <1>5, <2>1
  <2>3. m >= n => x >= n * B
    BY <1>6, <2>1
  <2>4. n * B \in Nat /\ len <= n * B
    BY <1>2, <1>5
  <2> HIDE DEF m, x
  <2> DEFINE y == n * B
  <2> HIDE DEF y
  <2>5. m >= n => x >= y
    BY <2>3 DEF y
  <2>6. y \in Nat /\ len <= y
    BY <2>4 DEF y
  <2>7. b <= n <=> b <= len /\ x < len
    BY <1>5, <2>1, <2>2, <2>5, <2>6
  <2>8. QED
    BY <2>7 DEF m, x
<1>8. {b \in 1 .. len : (b - 1) * B < len} = 1 .. n
  <2>1. \A b : b \in 1 .. len /\ (b - 1) * B < len <=> b \in 1 .. n
    <3>1. \A b : b \in 1 .. len <=> b \in Nat /\ b >= 1 /\ b <= len
      OBVIOUS
    <3>2. \A b : b \in 1 .. n <=> b \in Nat /\ b >= 1 /\ b <= n
      BY <1>5
    <3>3. QED
      BY <1>7, <3>1, <3>2, Zenon
  <2>2. QED
    BY <2>1
<1>9. QED
  BY <1>5, <1>8 DEF B

(* The rows of a version without a manifest.                                *)
LEMMA BlocksTile ==
  ASSUME NEW d \in Seq(Bytes)
  PROVE  \E e : /\ Tiles(BlockRows(BlockTable(FixedBlocks(d)), Len(d)), d, e)
                /\ e[Len(BlockRows(BlockTable(FixedBlocks(d)), Len(d)))] = Len(d)
<1> DEFINE len == Len(d)
           B == BlockSize
           M(k) == k * B
           rs == BlockRows(BlockTable(FixedBlocks(d)), len)
           e0(k) == Least({M(k), len})
<1>1. len \in Nat /\ B \in Nat /\ B >= 1 /\ B < Modulus
  BY SizesAssumption, WidthAssumption
<1>2. PICK n \in Nat : /\ {b \in 1 .. len : (b - 1) * B < len} = 1 .. n
                       /\ len <= n * B
  <2>1. B \in Nat \ {0}
    BY <1>1
  <2> HIDE DEF B, len
  <2>2. QED
    BY <1>1, <2>1, BlocksCount
<1>3. DOMAIN FixedBlocks(d) = 1 .. n
  BY <1>2 DEF FixedBlocks
<1>4. \A k \in 1 .. n :
        FixedBlocks(d)[k] = Row(M(k - 1), Slice(d, M(k - 1), Least({M(k - 1) + B, len})),
                                Least({M(k - 1) + B, len}) - M(k - 1))
  BY <1>2 DEF FixedBlocks
<1>5. DOMAIN BlockTable(FixedBlocks(d)) = 1 .. n
  BY <1>3 DEF BlockTable
<1>6. \A k \in 1 .. n : /\ BlockTable(FixedBlocks(d))[k].weak = FixedBlocks(d)[k].weak
                        /\ BlockTable(FixedBlocks(d))[k].strong = FixedBlocks(d)[k].strong
  BY <1>3 DEF BlockTable
<1>7. DOMAIN rs = 1 .. n /\ rs = [k \in 1 .. n |-> rs[k]]
  BY <1>5 DEF BlockRows
<1>8. \A k \in 1 .. n :
        rs[k] = [offset |-> M(k - 1), length |-> Least({B, len - M(k - 1)}),
                 weak |-> FixedBlocks(d)[k].weak, strong |-> FixedBlocks(d)[k].strong]
  BY <1>5, <1>6 DEF BlockRows
<1>9. \A k \in Nat : M(k) \in Nat
  BY <1>1
<1>10. \A k \in 1 .. n : M(k) = M(k - 1) + B /\ M(k - 1) < len /\ k - 1 \in Nat
  <2> SUFFICES ASSUME NEW k \in 1 .. n PROVE M(k) = M(k - 1) + B /\ M(k - 1) < len /\ k - 1 \in Nat
    OBVIOUS
  <2>1. k \in {b \in 1 .. len : (b - 1) * B < len}
    BY <1>2
  <2>2. QED
    BY <1>1, <2>1
<1>11. M(0) = 0 /\ len <= M(n)
  BY <1>1, <1>2
<1> DEFINE e == [k \in 0 .. n |-> e0(k)]
<1> HIDE DEF M, rs, B, len
<1>12. \A k \in Nat : /\ e0(k) \in Nat /\ e0(k) <= M(k) /\ e0(k) <= len
                      /\ e0(k) = M(k) \/ e0(k) = len
  <2> SUFFICES ASSUME NEW k \in Nat
               PROVE  /\ e0(k) \in Nat /\ e0(k) <= M(k) /\ e0(k) <= len
                      /\ e0(k) = M(k) \/ e0(k) = len
    OBVIOUS
  <2> DEFINE x == M(k)
  <2> HIDE DEF x
  <2>1. x \in Nat
    BY <1>9 DEF x
  <2>2. /\ Least({x, len}) \in Nat /\ Least({x, len}) <= x /\ Least({x, len}) <= len
        /\ Least({x, len}) = x \/ Least({x, len}) = len
    BY <1>1, <2>1, Lesser
  <2>3. QED
    BY <2>2 DEF x
<1> HIDE DEF e0
<1>13. ASSUME NEW k \in 1 .. n PROVE Describes(rs[k], d, e0(k - 1), e0(k))
  <2> DEFINE s == M(k - 1)
             f == Least({s + B, len})
             l == Least({B, len - s})
             w == FixedBlocks(d)[k].weak
             y == Slice(d, s, f)
             a == s + B
             b == len - s
  <2>1. s \in Nat /\ s < len /\ M(k) = a /\ a \in Nat /\ b \in Nat /\ k \in Nat /\ k - 1 \in Nat
    <3>1. M(k) = M(k - 1) + B /\ M(k - 1) < len /\ k - 1 \in Nat /\ k \in Nat
      BY <1>10
    <3>2. M(k - 1) \in Nat
      BY <1>9, <3>1
    <3> HIDE DEF s
    <3>3. s \in Nat /\ s < len /\ M(k) = s + B
      BY <3>1, <3>2 DEF s
    <3>4. QED
      BY <1>1, <3>1, <3>3
  <2>2. e0(k) = f
    BY <2>1 DEF e0
  <2>3. e0(k - 1) = s
    BY <1>1, <1>12, <2>1
  <2> HIDE DEF s
  <2>4. f \in Nat /\ f <= a /\ f <= len /\ (f = a \/ f = len)
    BY <1>1, <2>1, Lesser
  <2>5. l \in Nat /\ l <= B /\ l <= b /\ (l = B \/ l = b)
    BY <1>1, <2>1, Lesser
  <2>6. f = s + l /\ f - s = l
    <3> HIDE DEF f, l
    <3>1. QED
      BY <1>1, <2>1, <2>4, <2>5
  <2>7. FixedBlocks(d)[k] = Row(s, y, l)
    <3>1. FixedBlocks(d)[k] = Row(s, y, f - s)
      BY <1>4 DEF s, len
    <3>2. QED
      BY <2>6, <3>1
  <2> HIDE DEF f, l, a, b
  <2>8. y \in Seq(Bytes)
    <3> HIDE DEF y
    <3>1. IsPart(y, Bytes, d, s, l)
      BY <2>1, <2>4, <2>5, <2>6, SliceIsPart DEF y, len
    <3>2. QED
      BY <3>1 DEF IsPart
  <2> HIDE DEF y
  <2>9. /\ FixedBlocks(d)[k] \in ManifestRows /\ FixedBlocks(d)[k].strong = y
    BY <2>1, <2>5, <2>7, <2>8, RowIs
  <2>10. w \in Weaks
    BY <2>9 DEF ManifestRows
  <2>11. rs[k] = [offset |-> s, length |-> l, weak |-> w, strong |-> y]
    BY <1>8, <2>9 DEF s, l
  <2> HIDE DEF w
  <2> DEFINE r == rs[k]
  <2> HIDE DEF r
  <2>12. r \in ManifestRows /\ r.offset = s /\ r.length = l /\ r.strong = y
    BY <2>1, <2>5, <2>8, <2>10, <2>11 DEF ManifestRows, r
  <2>13. l < Modulus
    BY <1>1, <2>5, WidthAssumption
  <2>14. Describes(r, d, s, f)
    BY <2>4, <2>6, <2>12, <2>13 DEF Describes, y, len
  <2>15. QED
    BY <2>2, <2>3, <2>14 DEF r
<1>14. rs \in Seq(ManifestRows) /\ Len(rs) = n
  <2>1. \A k \in 1 .. n : rs[k] \in ManifestRows
    BY <1>13 DEF Describes
  <2>2. rs \in [1 .. n -> ManifestRows]
    BY <1>7, <2>1
  <2>3. QED
    BY <2>2
<1>15. \A k \in 0 .. n : e[k] = e0(k) /\ e[k] \in Nat
  BY <1>12
<1>16. e[0] = 0 /\ e[n] = len
  <2>1. e0(0) = 0
    BY <1>1, <1>11, <1>12
  <2>2. e0(n) = len
    BY <1>1, <1>11, <1>12, <1>9
  <2>3. QED
    BY <1>15, <2>1, <2>2
<1>17. e \in [0 .. n -> Nat]
  BY <1>15
<1>18. \A k \in 1 .. n : Describes(rs[k], d, e[k - 1], e[k])
  <2>1. \A k \in 1 .. n : k - 1 \in 0 .. n /\ k \in 0 .. n
    OBVIOUS
  <2>2. QED
    BY <1>13, <1>15, <2>1
<1> HIDE DEF e
<1>19. Tiles(rs, d, e)
  BY <1>14, <1>16, <1>17, <1>18 DEF Tiles
<1>20. QED
  BY <1>14, <1>16, <1>19 DEF rs, len


-----------------------------------------------------------------------------
(* The inductive invariant                                                  *)

(* The marks of n rows are the cuts of d, one after the other.              *)
Cutting(cuts, e, n, d) == \A k \in 1 .. n : e[k - 1] < Len(d) /\ e[k] = CutOf(cuts, d, e[k - 1])

(* A manifest describes the version's contents from end to end, in the      *)
(* chunks of the chunker when it was pushed.                                *)
StoredAs(cuts, m, d, r) ==
  \E e : /\ Tiles(m, d, e) /\ e[Len(m)] = Len(d)
         /\ r = "push" => Cutting(cuts, e, Len(m), d)

HistoryInv ==
  /\ files \in Seq(Seq(Bytes)) /\ routes \in Seq(Routes \cup {"blocks"})
  /\ Len(routes) = Len(files)
  /\ manifests \in Seq(Seq(ManifestRows)) /\ Len(manifests) <= Len(files)
  /\ \A v \in 1 .. Len(manifests) : StoredAs(boundary, manifests[v], files[v], routes[v])

IdleInv ==
  phase = "idle" => /\ Len(files) = Len(manifests)
                    /\ ends = <<>> /\ ops = <<>> /\ literals = <<>> /\ rows = <<>>
                    /\ i = 0 /\ litStart = 0

BusyInv ==
  phase # "idle" => /\ phase \in {"chunk", "scan", "send", "apply"}
                    /\ Len(files) = Len(manifests) + 1
                    /\ Chain(boundary, File, 0, ends)

ChunkInv == phase = "chunk" => ops = <<>> /\ literals = <<>> /\ rows = <<>>

(* The operations so far stand for the file up to the open literal.         *)
ScanInv ==
  phase = "scan" => /\ rows = <<>> /\ route # "push"
                    /\ litStart \in Nat /\ i \in Nat /\ litStart <= i /\ i <= Len(File)
                    /\ Sends(ops, literals, Known, File, 0, litStart)

SendInv ==
  phase = "send" => /\ rows = <<>> /\ route # "push"
                    /\ Sends(ops, literals, Known, File, 0, Len(File))

(* The rows describe a beginning of the file, the operations left stand for *)
(* the rest.                                                                *)
Applying(cuts, rs, os, lits, sigs, d, r) ==
  /\ Len(lits) < Modulus
  /\ \E a : /\ Tiles(rs, d, a) /\ Sends(os, lits, sigs, d, a[Len(rs)], Len(d))
            /\ r = "push" => os = <<>> /\ Cutting(cuts, a, Len(rs), d)
ApplyInv == phase = "apply" => Applying(boundary, rows, ops, literals, Known, File, route)

IInv == HistoryInv /\ IdleInv /\ BusyInv /\ ChunkInv /\ ScanInv /\ SendInv /\ ApplyInv

(* What the invariant says of the file on its way, and of its signatures.   *)
LEMMA Current ==
  ASSUME HistoryInv, BusyInv, phase # "idle"
  PROVE  /\ File \in Seq(Bytes) /\ Len(File) \in Nat /\ Len(files) \in Nat /\ Len(files) # 0
         /\ Len(files) = Len(manifests) + 1 /\ Len(manifests) \in Nat
         /\ File = files[Len(files)] /\ route = routes[Len(files)]
         /\ Chain(boundary, File, 0, ends)
         /\ LastEnd = EndOf(ends, 0) /\ LastEnd \in Nat /\ LastEnd <= Len(File)
<1>1. /\ files \in Seq(Seq(Bytes)) /\ Len(routes) = Len(files) /\ manifests \in Seq(Seq(ManifestRows))
      /\ Len(files) = Len(manifests) + 1 /\ Chain(boundary, File, 0, ends)
  BY DEF HistoryInv, BusyInv
<1>2. Len(files) \in Nat /\ Len(files) # 0 /\ Len(manifests) \in Nat
  BY <1>1
<1>3. File = files[Len(files)] /\ route = routes[Len(files)]
  BY <1>1 DEF File, route, Last
<1>4. File \in Seq(Bytes)
  BY <1>1, <1>2, <1>3
<1>5. Len(File) \in Nat
  BY <1>4
<1>6. ends \in Seq(Nat)
  BY <1>1 DEF Chain
<1>7. LastEnd = EndOf(ends, 0)
  BY <1>6 DEF LastEnd, EndOf, Last
<1>8. EndOf(ends, 0) \in Nat /\ EndOf(ends, 0) <= Len(File)
  BY <1>1, <1>5, ChainInside
<1>9. QED
  BY <1>1, <1>2, <1>3, <1>4, <1>5, <1>7, <1>8

LEMMA KnownRows ==
  ASSUME HistoryInv
  PROVE  /\ Known \in Seq(ManifestRows)
         /\ DOMAIN Known # {} => Known = Signatures
         /\ \A k \in DOMAIN Known : /\ Known[k] \in ManifestRows /\ Known[k].length \in Nat
                                    /\ Known[k].length < Modulus
                                    /\ Len(Known[k].strong) = Known[k].length
<1>1. /\ manifests \in Seq(Seq(ManifestRows)) /\ files \in Seq(Seq(Bytes)) /\ Len(manifests) <= Len(files)
      /\ Len(manifests) \in Nat /\ Len(files) \in Nat
  BY DEF HistoryInv
<1>2. CASE manifests = <<>>
  <2>1. Known = <<>>
    BY <1>2 DEF Known, Previous
  <2>2. QED
    BY <2>1
<1>3. CASE manifests # <<>>
  <2> DEFINE v == Len(manifests)
  <2>1. v \in 1 .. Len(manifests) /\ v \in 1 .. Len(files)
    BY <1>1, <1>3
  <2>2. Known = manifests[v] /\ Known = Signatures
    BY <1>3 DEF Known, Previous, Signatures, Last
  <2>3. PICK e : Tiles(manifests[v], files[v], e)
    BY <2>1 DEF HistoryInv, StoredAs
  <2>4. Tiles(Known, files[v], e) /\ files[v] \in Seq(Bytes)
    BY <1>1, <2>1, <2>2, <2>3
  <2> HIDE DEF v
  <2>5. Known \in Seq(ManifestRows) /\ e \in [0 .. Len(Known) -> Nat]
    BY <2>4 DEF Tiles
  <2>6. ASSUME NEW k \in DOMAIN Known
        PROVE  /\ Known[k] \in ManifestRows /\ Known[k].length \in Nat
               /\ Known[k].length < Modulus /\ Len(Known[k].strong) = Known[k].length
    <3> DEFINE r == Known[k]
               s == e[k - 1]
               t == e[k]
               y == Slice(files[v], s, t)
    <3>1. k \in 1 .. Len(Known) /\ k - 1 \in 0 .. Len(Known) /\ k \in 0 .. Len(Known)
      BY <2>5
    <3>2. Describes(r, files[v], s, t)
      BY <2>4, <3>1 DEF Tiles
    <3>3. s \in Nat /\ t \in Nat /\ r \in ManifestRows
      BY <2>5, <3>1, <3>2 DEF Describes
    <3>4. r.length \in Nat
      BY <3>3 DEF ManifestRows
    <3>5. t = s + r.length /\ r.length < Modulus /\ t <= Len(files[v]) /\ r.strong = y
      BY <3>2 DEF Describes
    <3> HIDE DEF r, s, t, y
    <3>6. IsPart(y, Bytes, files[v], s, r.length)
      BY <2>4, <3>3, <3>4, <3>5, SliceIsPart DEF y
    <3>7. Len(y) = r.length
      BY <3>6 DEF IsPart
    <3>8. QED
      BY <3>3, <3>4, <3>5, <3>7 DEF r
  <2>7. QED
    BY <2>2, <2>5, <2>6
<1>4. QED
  BY <1>2, <1>3

(* What an unchanged history leaves alone.                                  *)
LEMMA SameHistory ==
  ASSUME UNCHANGED <<boundary, versions>>
  PROVE  /\ File' = File /\ Known' = Known /\ route' = route /\ Signatures' = Signatures
         /\ HistoryInv => HistoryInv'
<1>1. boundary' = boundary /\ files' = files /\ routes' = routes /\ manifests' = manifests
  BY DEF versions
<1>2. File' = File /\ route' = route /\ Signatures' = Signatures /\ Previous' = Previous
  BY <1>1 DEF File, route, Signatures, Previous
<1>3. Known' = Known
  BY <1>2 DEF Known
<1>4. HistoryInv => HistoryInv'
  BY <1>1 DEF HistoryInv
<1>5. QED
  BY <1>2, <1>3, <1>4

(* Operations that are done.                                                *)
LEMMA SendEnds ==
  ASSUME NEW lits, NEW sigs, NEW d, NEW n, NEW m, Sends(<<>>, lits, sigs, d, n, m)
  PROVE  n = m
<1>1. Len(<<>>) = 0
  OBVIOUS
<1>2. QED
  BY <1>1 DEF Sends

LEMMA ContentsAre ==
  ASSUME NEW d \in Contents
  PROVE  d \in Seq(Bytes)
BY DEF Contents, BoundedSeq, SeqOf


-----------------------------------------------------------------------------
(* Every step preserves it                                                  *)

LEMMA ChunkStep ==
  ASSUME IInv, Chunk
  PROVE  IInv'
<1>1. HistoryInv /\ BusyInv /\ ChunkInv /\ phase = "chunk"
  BY DEF IInv, Chunk
<1>2. /\ LastEnd < Len(File) /\ ends' = Append(ends, CutOf(boundary, File, LastEnd))
      /\ UNCHANGED <<boundary, versions>> /\ UNCHANGED <<phase, i, litStart, ops, literals, rows>>
  BY DEF Chunk, Cut, CutOf, CutHits, HardMax, MinEnd, Hit
<1>3. /\ File' = File /\ HistoryInv' /\ boundary' = boundary /\ phase' = "chunk"
      /\ Len(files)' = Len(manifests)' + 1
  BY <1>1, <1>2, SameHistory DEF versions, BusyInv
<1>4. Len(File) \in Nat /\ Chain(boundary, File, 0, ends) /\ LastEnd = EndOf(ends, 0)
  BY <1>1, Current
<1>5. Chain(boundary, File, 0, Append(ends, CutOf(boundary, File, LastEnd)))
  <2>1. EndOf(ends, 0) < Len(File)
    BY <1>2, <1>4
  <2>2. Chain(boundary, File, 0, Append(ends, CutOf(boundary, File, EndOf(ends, 0))))
    BY <1>4, <2>1, ChainGrows
  <2>3. QED
    BY <1>4, <2>2
<1>6. BusyInv'
  BY <1>2, <1>3, <1>5 DEF BusyInv
<1>7. ChunkInv' /\ IdleInv' /\ ScanInv' /\ SendInv' /\ ApplyInv'
  BY <1>1, <1>2, <1>3 DEF ChunkInv, IdleInv, ScanInv, SendInv, ApplyInv
<1>8. QED
  BY <1>3, <1>6, <1>7 DEF IInv

LEMMA ChunkNativelyStep ==
  ASSUME IInv, ChunkNatively
  PROVE  IInv'
<1>1. HistoryInv /\ BusyInv /\ ChunkInv /\ phase = "chunk"
  BY DEF IInv, ChunkNatively, TriesAddon
<1>2. /\ ends' = NativeEnds
      /\ UNCHANGED <<boundary, versions>> /\ UNCHANGED <<phase, i, litStart, ops, literals, rows>>
  BY DEF ChunkNatively
<1>3. /\ File' = File /\ HistoryInv' /\ boundary' = boundary /\ phase' = "chunk"
      /\ Len(files)' = Len(manifests)' + 1
  BY <1>1, <1>2, SameHistory DEF versions, BusyInv
<1>4. Chain(boundary, File, 0, NativeEnds)
  BY <1>1, Current, NativeChain
<1>5. BusyInv'
  BY <1>2, <1>3, <1>4 DEF BusyInv
<1>6. ChunkInv' /\ IdleInv' /\ ScanInv' /\ SendInv' /\ ApplyInv'
  BY <1>1, <1>2, <1>3 DEF ChunkInv, IdleInv, ScanInv, SendInv, ApplyInv
<1>7. QED
  BY <1>3, <1>5, <1>6 DEF IInv

(* Refuse and Store end the transfer.                                       *)
LEMMA FinishStep ==
  ASSUME Finish, HistoryInv', Len(files') = Len(manifests')
  PROVE  IInv'
<1>1. /\ phase' = "idle" /\ ends' = <<>> /\ ops' = <<>> /\ literals' = <<>> /\ rows' = <<>>
      /\ i' = 0 /\ litStart' = 0
  BY DEF Finish
<1>2. QED
  BY <1>1 DEF IInv, IdleInv, BusyInv, ChunkInv, ScanInv, SendInv, ApplyInv

LEMMA RefuseStep ==
  ASSUME IInv, phase # "idle", Refuse
  PROVE  IInv'
<1>1. HistoryInv /\ BusyInv
  BY DEF IInv
<1> DEFINE n == Len(manifests)
<1>2. /\ files' = Front(files) /\ routes' = Front(routes) /\ manifests' = manifests
      /\ boundary' = boundary /\ Finish
  BY DEF Refuse, Finish
<1>3. /\ files \in Seq(Seq(Bytes)) /\ routes \in Seq(Routes \cup {"blocks"})
      /\ Len(files) = n + 1 /\ Len(routes) = n + 1 /\ n \in Nat
      /\ manifests \in Seq(Seq(ManifestRows))
  BY <1>1, Current DEF HistoryInv
<1>4. /\ Front(files) \in Seq(Seq(Bytes)) /\ Len(Front(files)) = n
      /\ \A v \in 1 .. n : Front(files)[v] = files[v]
  BY <1>3 DEF Front
<1>5. /\ Front(routes) \in Seq(Routes \cup {"blocks"}) /\ Len(Front(routes)) = n
      /\ \A v \in 1 .. n : Front(routes)[v] = routes[v]
  BY <1>3 DEF Front
<1>6. \A v \in 1 .. n : StoredAs(boundary, manifests[v], files[v], routes[v])
  BY <1>1 DEF HistoryInv
<1>7. Len(files') = n /\ Len(routes') = n /\ Len(manifests') = n
  BY <1>2, <1>4, <1>5
<1>8. \A v \in 1 .. n : StoredAs(boundary', manifests'[v], files'[v], routes'[v])
  BY <1>2, <1>4, <1>5, <1>6
<1>9. HistoryInv'
  BY <1>2, <1>3, <1>4, <1>5, <1>7, <1>8 DEF HistoryInv
<1>10. QED
  BY <1>2, <1>7, <1>9, FinishStep

LEMMA NegotiatedStep ==
  ASSUME IInv, Negotiated
  PROVE  IInv'
<1>1. /\ HistoryInv /\ BusyInv /\ ChunkInv /\ phase = "chunk" /\ route = "push"
      /\ LastEnd = Len(File)
  BY DEF IInv, Negotiated
<1>2. CASE ~ Negotiable(Chunks)
  <2>1. Refuse
    BY <1>2 DEF Negotiated
  <2>2. QED
    BY <1>1, <2>1, RefuseStep
<1>3. CASE Negotiable(Chunks)
  <2> DEFINE rs == RunningOffsets(Pieces(ends))
             a == Marks(ends)
  <2>1. /\ rows' = rs /\ phase' = "apply"
        /\ UNCHANGED <<boundary, versions>> /\ UNCHANGED <<ends, i, litStart, ops, literals>>
    BY <1>3 DEF Negotiated, Chunks
  <2>2. /\ File \in Seq(Bytes) /\ Len(File) \in Nat /\ Chain(boundary, File, 0, ends)
        /\ EndOf(ends, 0) = Len(File)
    BY <1>1, Current
  <2>3. Tiles(rs, File, a) /\ Len(rs) = Len(ends)
    BY <2>2, ChunksTile
  <2>4. Len(ends) \in Nat /\ a[Len(ends)] = Len(File)
    BY <2>2, PiecesAre DEF Marks, EndOf
  <2>5. Cutting(boundary, a, Len(ends), File)
    BY <2>2, PiecesAre DEF Cutting
  <2>6. ops = <<>> /\ literals = <<>> /\ Len(literals) < Modulus
    <3>1. ops = <<>> /\ literals = <<>>
      BY <1>1 DEF ChunkInv
    <3>2. QED
      BY <3>1, WidthAssumption, SizesAssumption
  <2>7. Sends(ops, literals, Known, File, Len(File), Len(File))
    BY <2>2, <2>6, SendNothing
  <2>8. /\ File' = File /\ HistoryInv' /\ boundary' = boundary /\ Known' = Known /\ route' = route
        /\ Len(files)' = Len(manifests)' + 1
    BY <1>1, <2>1, SameHistory DEF versions, BusyInv
  <2> HIDE DEF rs, a
  <2>9. Applying(boundary, rs, ops, literals, Known, File, route)
    BY <2>3, <2>4, <2>5, <2>6, <2>7 DEF Applying
  <2>10. BusyInv' /\ ApplyInv'
    BY <2>1, <2>2, <2>8, <2>9 DEF BusyInv, ApplyInv
  <2>11. ChunkInv' /\ IdleInv' /\ ScanInv' /\ SendInv'
    BY <2>1 DEF ChunkInv, IdleInv, ScanInv, SendInv
  <2>12. QED
    BY <2>8, <2>10, <2>11 DEF IInv
<1>4. QED
  BY <1>2, <1>3

(* The operations are complete: they are sent.                              *)
LEMMA ReadyStep ==
  ASSUME IInv, phase # "idle", rows = <<>>, route # "push", phase' = "send",
         UNCHANGED <<boundary, versions, ends, rows>>,
         Sends(ops', literals', Known, File, 0, Len(File))
  PROVE  IInv'
<1>1. HistoryInv /\ BusyInv
  BY DEF IInv
<1>2. /\ File' = File /\ HistoryInv' /\ boundary' = boundary /\ Known' = Known /\ route' = route
      /\ Len(files)' = Len(manifests)' + 1 /\ ends' = ends /\ rows' = rows
  BY <1>1, SameHistory DEF versions, BusyInv
<1>3. BusyInv' /\ SendInv'
  BY <1>1, <1>2 DEF BusyInv, SendInv
<1>4. ChunkInv' /\ IdleInv' /\ ScanInv' /\ ApplyInv'
  BY DEF ChunkInv, IdleInv, ScanInv, ApplyInv
<1>5. QED
  BY <1>2, <1>3, <1>4 DEF IInv

LEMMA DeltaCdcStep ==
  ASSUME IInv, DeltaCdc
  PROVE  IInv'
<1>1. /\ HistoryInv /\ BusyInv /\ ChunkInv /\ phase = "chunk" /\ route = "cdc"
      /\ LastEnd = Len(File)
  BY DEF IInv, DeltaCdc
<1>2. /\ phase' = "send" /\ UNCHANGED <<boundary, versions, ends, rows>>
      /\ ops' = ChunkOps(Pieces(ends)).ops /\ literals' = ChunkOps(Pieces(ends)).literals
  BY DEF DeltaCdc, Chunks
<1>3. /\ File \in Seq(Bytes) /\ Chain(boundary, File, 0, ends) /\ EndOf(ends, 0) = Len(File)
  BY <1>1, Current
<1>4. Known \in Seq(ManifestRows)
  BY <1>1, KnownRows
<1>5. Sends(ChunkOps(Pieces(ends)).ops, ChunkOps(Pieces(ends)).literals, Known, File, 0, EndOf(ends, 0))
  BY <1>3, <1>4, ChunkOpsSend
<1>6. Sends(ops', literals', Known, File, 0, Len(File))
  BY <1>2, <1>3, <1>5
<1>7. rows = <<>> /\ route # "push" /\ phase # "idle"
  BY <1>1 DEF ChunkInv
<1>8. QED
  BY <1>2, <1>6, <1>7, ReadyStep

LEMMA PackDeltaStep ==
  ASSUME IInv, PackDelta
  PROVE  IInv'
<1> DEFINE es == NativeEnds
<1>1. /\ HistoryInv /\ BusyInv /\ ChunkInv /\ phase = "chunk" /\ route = "pack"
  BY DEF IInv, PackDelta
<1>2. /\ phase' = "send" /\ UNCHANGED <<boundary, versions, ends, rows>>
      /\ ops' = ChunkOps(Pieces(es)).ops /\ literals' = ChunkOps(Pieces(es)).literals
  BY DEF PackDelta, PackedEnds
<1>3. File \in Seq(Bytes) /\ Len(File) \in Nat
  BY <1>1, Current
<1>4. Chain(boundary, File, 0, es) /\ EndOf(es, 0) = Len(File)
  BY <1>3, NativeChain
<1>5. Known \in Seq(ManifestRows)
  BY <1>1, KnownRows
<1> HIDE DEF es
<1>6. Sends(ChunkOps(Pieces(es)).ops, ChunkOps(Pieces(es)).literals, Known, File, 0, EndOf(es, 0))
  BY <1>3, <1>4, <1>5, ChunkOpsSend
<1>7. Sends(ops', literals', Known, File, 0, Len(File))
  BY <1>2, <1>4, <1>6
<1>8. rows = <<>> /\ route # "push" /\ phase # "idle"
  BY <1>1 DEF ChunkInv
<1>9. QED
  BY <1>2, <1>7, <1>8, ReadyStep


(* The bytes of a literal are added behind the others.                      *)
LEMMA LiteralCarries ==
  ASSUME NEW lits \in Seq(Bytes), NEW sigs, NEW d \in Seq(Bytes), NEW s \in Nat, NEW e \in Nat,
         s <= e, e <= Len(d), NEW o \in Nat
  PROVE  /\ Slice(d, s, e) \in Seq(Bytes)
         /\ Carries(Literal(o, e - s), lits \o Slice(d, s, e), sigs, d, s, e,
                    Len(lits), Len(lits) + Len(Slice(d, s, e)))
<1> DEFINE x == Slice(d, s, e)
           n == e - s
           op == Literal(o, n)
           u == Len(lits)
           v == u + Len(x)
<1>1. n \in Nat /\ e = s + n /\ u \in Nat
  OBVIOUS
<1> HIDE DEF x, n
<1>2. IsPart(x, Bytes, d, s, n)
  BY <1>1, SliceIsPart DEF x
<1>3. x \in Seq(Bytes) /\ Len(x) = n
  BY <1>2 DEF IsPart
<1>4. op \in Operations /\ op.type = "literal" /\ op.length = n
  BY <1>1 DEF Literal, Operations
<1>5. Slice(lits \o x, u, v) = x
  BY <1>3, SliceOfEnd
<1>6. v \in Nat /\ v <= Len(lits \o x) /\ v = u + n
  BY <1>1, <1>3
<1> HIDE DEF op, u, v
<1>7. Carries(op, lits \o x, sigs, d, s, e, u, v)
  BY <1>1, <1>4, <1>5, <1>6 DEF Carries, x
<1>8. QED
  BY <1>3, <1>7 DEF op, u, v, x, n

LEMMA BeginStep ==
  ASSUME IInv, Begin
  PROVE  IInv'
<1>1. HistoryInv /\ IdleInv /\ phase = "idle"
  BY DEF IInv, Begin
<1>2. PICK d \in Contents, r \in IF Known = <<>> THEN {"push", "cdc", "pack"} ELSE Routes :
        /\ files' = Append(files, d)
        /\ routes' = Append(routes, r)
        /\ IF r # "push" /\ Known = <<>>
           THEN phase' = "send" /\ ops' = <<Literal(0, Len(d))>> /\ literals' = d
           ELSE phase' = (IF r = "fixed" THEN "scan" ELSE "chunk") /\ UNCHANGED <<ops, literals>>
  BY DEF Begin
<1> DEFINE n == Len(manifests)
<1>3. /\ boundary' = boundary /\ manifests' = manifests /\ ends' = ends /\ i' = i
      /\ litStart' = litStart /\ rows' = rows
  BY DEF Begin
<1>4. /\ files \in Seq(Seq(Bytes)) /\ routes \in Seq(Routes \cup {"blocks"})
      /\ Len(files) = n /\ Len(routes) = n /\ n \in Nat
      /\ manifests \in Seq(Seq(ManifestRows))
      /\ \A v \in 1 .. n : StoredAs(boundary, manifests[v], files[v], routes[v])
  BY <1>1 DEF HistoryInv, IdleInv
<1>5. d \in Seq(Bytes) /\ Len(d) \in Nat
  BY <1>2, ContentsAre
<1>6. r \in Routes \cup {"blocks"}
  BY <1>2 DEF Routes
<1>7. /\ files' \in Seq(Seq(Bytes)) /\ Len(files') = n + 1 /\ files'[n + 1] = d
      /\ \A v \in 1 .. n : files'[v] = files[v]
  BY <1>2, <1>4, <1>5
<1>8. /\ routes' \in Seq(Routes \cup {"blocks"}) /\ Len(routes') = n + 1 /\ routes'[n + 1] = r
      /\ \A v \in 1 .. n : routes'[v] = routes[v]
  BY <1>2, <1>4, <1>6
<1>9. Len(manifests') = n
  BY <1>3
<1>10. \A v \in 1 .. n : StoredAs(boundary', manifests'[v], files'[v], routes'[v])
  BY <1>3, <1>4, <1>7, <1>8
<1> HIDE DEF n
<1>11. HistoryInv'
  BY <1>3, <1>4, <1>7, <1>8, <1>9, <1>10 DEF HistoryInv
<1>12. File' = d /\ route' = r
  BY <1>7, <1>8 DEF File, route, Last
<1>13. Known' = Known
  BY <1>3 DEF Known, Previous, Signatures
<1>14. ends' = <<>> /\ ops = <<>> /\ literals = <<>> /\ rows' = <<>> /\ i' = 0 /\ litStart' = 0
  BY <1>1, <1>3 DEF IdleInv
<1>15. Chain(boundary', File', 0, ends')
  BY <1>14 DEF Chain
<1>16. /\ phase' \in {"send", "scan", "chunk"}
  BY <1>2
<1>17. BusyInv' /\ IdleInv' /\ ApplyInv'
  BY <1>7, <1>9, <1>15, <1>16 DEF BusyInv, IdleInv, ApplyInv
<1>18. ASSUME r # "push", Known = <<>>
       PROVE  SendInv' /\ ScanInv' /\ ChunkInv'
  <2> DEFINE op == Literal(0, Len(d) - 0)
  <2>1. phase' = "send" /\ ops' = <<Literal(0, Len(d))>> /\ literals' = d
    BY <1>2, <1>18
  <2>2. Sends(<<>>, <<>>, Known, d, 0, 0)
    BY <1>5, SendNothing
  <2>3. Slice(d, 0, Len(d)) = d
    BY <1>5, SliceOfAll
  <2>4. /\ <<>> \o d = d /\ Len(d) - 0 = Len(d) /\ <<>> \in Seq(Bytes)
    BY <1>5
  <2>5. Carries(op, <<>> \o d, Known, d, 0, Len(d), Len(<<>>), Len(<<>>) + Len(d))
    <3> DEFINE none == <<>>
               zero == 0
               all == Len(d)
               y == Slice(d, zero, all)
    <3>1. /\ none \in Seq(Bytes) /\ zero \in Nat /\ all \in Nat /\ zero <= all /\ all <= Len(d)
          /\ op = Literal(zero, all - zero)
      BY <1>5, <2>4
    <3> HIDE DEF none, zero, all
    <3>2. Carries(Literal(zero, all - zero), none \o y, Known, d, zero, all, Len(none), Len(none) + Len(y))
      BY <1>5, <3>1, LiteralCarries
    <3>3. y = d
      BY <2>3 DEF zero, all
    <3> HIDE DEF y, op
    <3>4. Carries(op, none \o d, Known, d, zero, all, Len(none), Len(none) + Len(d))
      BY <3>1, <3>2, <3>3
    <3>5. QED
      BY <3>4 DEF none, zero, all
  <2> HIDE DEF op
  <2>6. Sends(Append(<<>>, op), <<>> \o d, Known, d, 0, Len(d))
    BY <1>5, <2>2, <2>5, SendMore
  <2>7. Append(<<>>, op) = <<op>> /\ op = Literal(0, Len(d))
    BY <2>4 DEF op
  <2>8. Sends(ops', literals', Known', File', 0, Len(File'))
    BY <1>12, <1>13, <2>1, <2>4, <2>6, <2>7
  <2>9. QED
    BY <1>12, <1>14, <1>18, <2>1, <2>8 DEF SendInv, ScanInv, ChunkInv
<1>19. ASSUME ~ (r # "push" /\ Known = <<>>)
       PROVE  SendInv' /\ ScanInv' /\ ChunkInv'
  <2>1. /\ phase' = (IF r = "fixed" THEN "scan" ELSE "chunk")
        /\ ops' = <<>> /\ literals' = <<>>
    BY <1>2, <1>14, <1>19
  <2>2. Sends(<<>>, <<>>, Known, d, 0, 0)
    BY <1>5, SendNothing
  <2>3. ScanInv'
    BY <1>5, <1>12, <1>13, <1>14, <2>1, <2>2 DEF ScanInv
  <2>4. SendInv' /\ ChunkInv'
    BY <1>14, <2>1 DEF SendInv, ChunkInv
  <2>5. QED
    BY <2>3, <2>4
<1>20. QED
  BY <1>11, <1>17, <1>18, <1>19 DEF IInv

(* The open literal is closed at until.                                     *)
LEMMA FlushIs ==
  ASSUME IInv, phase = "scan", NEW until \in Nat, litStart <= until, until <= Len(File)
  PROVE  Sends(Flushed(until).ops, Flushed(until).literals, Known, File, 0, until)
<1>1. HistoryInv /\ BusyInv /\ ScanInv
  BY DEF IInv
<1>2. litStart \in Nat /\ Sends(ops, literals, Known, File, 0, litStart)
  BY <1>1 DEF ScanInv
<1>3. File \in Seq(Bytes) /\ Len(File) \in Nat
  BY <1>1, Current
<1>4. CASE until = litStart
  <2>1. Flushed(until).ops = ops /\ Flushed(until).literals = literals
    BY <1>2, <1>4 DEF Flushed
  <2>2. QED
    BY <1>2, <1>4, <2>1
<1>5. CASE until # litStart
  <2> DEFINE op == Literal(Len(literals), until - litStart)
             x == Slice(File, litStart, until)
  <2>1. until > litStart
    BY <1>2, <1>5
  <2>2. Flushed(until).ops = Append(ops, op) /\ Flushed(until).literals = literals \o x
    BY <2>1 DEF Flushed
  <2>3. literals \in Seq(Bytes) /\ Len(literals) \in Nat
    BY <1>2 DEF Sends, Rebuild
  <2>4. /\ x \in Seq(Bytes)
        /\ Carries(op, literals \o x, Known, File, litStart, until, Len(literals), Len(literals) + Len(x))
    BY <1>2, <1>3, <2>3, LiteralCarries
  <2> HIDE DEF op, x
  <2>5. Sends(Append(ops, op), literals \o x, Known, File, 0, until)
    BY <1>2, <1>3, <2>4, SendMore
  <2>6. QED
    BY <2>2, <2>5
<1>6. QED
  BY <1>4, <1>5

LEMMA ScanEndStep ==
  ASSUME IInv, ScanEnd
  PROVE  IInv'
<1>1. HistoryInv /\ BusyInv /\ ScanInv /\ phase = "scan"
  BY DEF IInv, ScanEnd
<1>2. /\ phase' = "send" /\ UNCHANGED <<boundary, versions, ends, rows>>
      /\ ops' = Flushed(Len(File)).ops /\ literals' = Flushed(Len(File)).literals
  BY DEF ScanEnd
<1>3. /\ Len(File) \in Nat
  BY <1>1, Current
<1>4. rows = <<>> /\ route # "push" /\ litStart <= Len(File)
  BY <1>1, <1>3 DEF ScanInv
<1>5. Sends(ops', literals', Known, File, 0, Len(File))
  BY <1>1, <1>2, <1>3, <1>4, FlushIs
<1>6. QED
  BY <1>1, <1>2, <1>4, <1>5, ReadyStep

LEMMA ScanStep ==
  ASSUME IInv, Scan
  PROVE  IInv'
<1> DEFINE hits == Matches(Slice(File, i, i + BlockSize))
           f == Flushed(i)
           v == i + BlockSize
<1>1. HistoryInv /\ BusyInv /\ ScanInv /\ phase = "scan"
  BY DEF IInv, Scan
<1>2. /\ i <= Len(File) - BlockSize
      /\ phase' = phase /\ ends' = ends /\ rows' = rows /\ UNCHANGED <<boundary, versions>>
  BY DEF Scan
<1>3. File \in Seq(Bytes) /\ Len(File) \in Nat
  BY <1>1, Current
<1>4. /\ rows = <<>> /\ route # "push"
      /\ litStart \in Nat /\ i \in Nat /\ litStart <= i /\ i <= Len(File)
      /\ Sends(ops, literals, Known, File, 0, litStart)
  BY <1>1 DEF ScanInv
<1>5. BlockSize \in Nat \ {0}
  BY SizesAssumption
<1>6. v \in Nat /\ v <= Len(File) /\ i + 1 <= Len(File)
  BY <1>2, <1>3, <1>4, <1>5
<1>7. /\ File' = File /\ HistoryInv' /\ boundary' = boundary /\ Known' = Known /\ route' = route
      /\ Len(files)' = Len(manifests)' + 1
  BY <1>1, <1>2, SameHistory DEF versions, BusyInv
<1>8. BusyInv' /\ ChunkInv' /\ IdleInv' /\ SendInv' /\ ApplyInv'
  BY <1>1, <1>2, <1>7 DEF BusyInv, ChunkInv, IdleInv, SendInv, ApplyInv
<1>9. CASE hits = {}
  <2>1. i' = i + 1 /\ UNCHANGED <<ops, literals, litStart>>
    BY <1>9 DEF Scan
  <2>2. ScanInv'
    BY <1>2, <1>4, <1>6, <1>7, <2>1 DEF ScanInv
  <2>3. QED
    BY <1>7, <1>8, <2>2 DEF IInv
<1>10. CASE hits # {}
  <2> DEFINE k == Least(hits)
             op == Copy(k)
  <2>1. /\ ops' = Append(f.ops, op) /\ literals' = f.literals
        /\ i' = v /\ litStart' = v
    BY <1>10 DEF Scan
  <2>2. /\ Known \in Seq(ManifestRows)
        /\ \A m \in DOMAIN Known : Len(Known[m].strong) = Known[m].length
    BY <1>1, KnownRows
  <2>3. hits \subseteq Nat
    BY <2>2 DEF Matches
  <2> HIDE DEF hits
  <2>4. k \in hits /\ k \in Nat
    BY <1>10, <2>3, LeastElement
  <2> HIDE DEF k
  <2>5. k \in DOMAIN Known /\ Known[k].strong = Slice(File, i, v)
    BY <2>4 DEF hits, Matches
  <2>6. Known[k].length = BlockSize
    <3>1. IsPart(Slice(File, i, v), Bytes, File, i, BlockSize)
      BY <1>3, <1>4, <1>5, <1>6, SliceIsPart
    <3>2. QED
      BY <2>2, <2>5, <3>1 DEF IsPart
  <2>7. Sends(f.ops, f.literals, Known, File, 0, i)
    BY <1>1, <1>4, FlushIs
  <2>8. op \in Operations /\ op.type = "copy" /\ op.block = k
    BY <2>4 DEF Copy, Operations
  <2> HIDE DEF op, f
  <2>9. /\ f.literals \in Seq(Bytes)
    BY <2>7 DEF Sends, Rebuild
  <2>10. /\ f.literals \o <<>> = f.literals /\ Len(f.literals) + Len(<<>>) = Len(f.literals)
         /\ <<>> \in Seq(Bytes) /\ Len(f.literals) \in Nat
    BY <2>9
  <2>11. Carries(op, f.literals, Known, File, i, v, Len(f.literals), Len(f.literals))
    BY <1>6, <2>5, <2>6, <2>8, <2>10 DEF Carries
  <2>12. Sends(Append(f.ops, op), f.literals \o <<>>, Known, File, 0, v)
    BY <1>3, <2>7, <2>10, <2>11, SendMore
  <2>13. Sends(ops', literals', Known', File', 0, v)
    BY <1>7, <2>1, <2>10, <2>12
  <2>14. ScanInv'
    BY <1>2, <1>4, <1>6, <1>7, <2>1, <2>13 DEF ScanInv
  <2>15. QED
    BY <1>7, <1>8, <2>14 DEF IInv
<1>11. QED
  BY <1>9, <1>10


LEMMA SendStep ==
  ASSUME IInv, NEW encoding \in Encodings, Send(encoding)
  PROVE  IInv'
<1>1. HistoryInv /\ BusyInv /\ SendInv /\ phase = "send"
  BY DEF IInv, Send
<1> DEFINE bad == \/ encoding = "flatbuf" /\ ~FlatFits
                  \/ Len(literals) > MaxUpload
                  \/ encoding = "json" /\ ~JsonValid
                  \/ ~FormValid(Form(encoding))
<1>2. CASE bad
  <2>1. Refuse
    BY <1>2 DEF Send
  <2>2. QED
    BY <1>1, <2>1, RefuseStep
<1>3. CASE ~bad
  <2> DEFINE a == [k \in 0 .. 0 |-> 0]
  <2>1. /\ phase' = "apply" /\ ops' = Decoded(encoding) /\ ~(Len(literals) > MaxUpload)
        /\ UNCHANGED <<boundary, versions>> /\ UNCHANGED <<ends, literals, rows>>
    BY <1>3 DEF Send
  <2>2. /\ File' = File /\ HistoryInv' /\ boundary' = boundary /\ Known' = Known /\ route' = route
        /\ Len(files)' = Len(manifests)' + 1
    BY <1>1, <2>1, SameHistory DEF versions, BusyInv
  <2>3. File \in Seq(Bytes) /\ Len(File) \in Nat
    BY <1>1, Current
  <2>4. rows = <<>> /\ route # "push" /\ Sends(ops, literals, Known, File, 0, Len(File))
    BY <1>1 DEF SendInv
  <2>5. Len(literals) \in Nat
    BY <2>4 DEF Sends, Rebuild
  <2>6. Len(literals) < Modulus
    BY <2>1, <2>5, WidthAssumption, SizesAssumption
  <2>7. Sends(ops', literals, Known, File, 0, Len(File))
    <3>1. CASE encoding = "bin"
      <4>1. ops' = [k \in DOMAIN ops |-> Wrapped(ops[k])]
        BY <2>1, <3>1 DEF Decoded, DecodedBinary
      <4>2. QED
        BY <2>3, <2>4, <2>6, <4>1, WrappedSend
    <3>2. CASE encoding # "bin"
      BY <2>1, <2>4, <3>2 DEF Decoded
    <3>3. QED
      BY <3>1, <3>2
  <2>8. Len(rows) = 0 /\ a \in [0 .. 0 -> Nat] /\ a[0] = 0 /\ rows \in Seq(ManifestRows)
    BY <2>4
  <2> HIDE DEF a, bad
  <2>9. Tiles(rows, File, a)
    BY <2>8 DEF Tiles
  <2>10. Applying(boundary, rows, ops', literals, Known, File, route)
    BY <2>4, <2>6, <2>7, <2>8, <2>9 DEF Applying
  <2>11. ApplyInv' /\ BusyInv'
    BY <1>1, <2>1, <2>2, <2>10 DEF ApplyInv, BusyInv
  <2>12. ChunkInv' /\ IdleInv' /\ ScanInv' /\ SendInv'
    BY <2>1 DEF ChunkInv, IdleInv, ScanInv, SendInv
  <2>13. QED
    BY <2>2, <2>11, <2>12 DEF IInv
<1>4. QED
  BY <1>2, <1>3

LEMMA ApplyStep ==
  ASSUME IInv, Apply
  PROVE  IInv'
<1> DEFINE op == ops[1]
           len == op.length
           n == Len(rows)
<1>1. HistoryInv /\ BusyInv /\ ApplyInv /\ phase = "apply" /\ ops # <<>>
  BY DEF IInv, Apply
<1>2. /\ ops' = Tail(ops) /\ phase' = phase /\ ends' = ends /\ UNCHANGED <<boundary, versions>>
      /\ IF op.type = "copy"
         THEN /\ rows' = Append(rows, CopyRow(op.block))
              /\ UNCHANGED literals
         ELSE IF literals = <<>> THEN UNCHANGED <<rows, literals>>
         ELSE /\ rows' = Append(rows, Row(RunningOffset, Slice(literals, 0, len), len))
              /\ literals' = Slice(literals, len, Len(literals))
  BY DEF Apply
<1>3. /\ File' = File /\ HistoryInv' /\ boundary' = boundary /\ Known' = Known /\ route' = route
      /\ Len(files)' = Len(manifests)' + 1
  BY <1>1, <1>2, SameHistory DEF versions, BusyInv
<1>4. File \in Seq(Bytes) /\ Len(File) \in Nat
  BY <1>1, Current
<1>5. PICK a : /\ Tiles(rows, File, a) /\ Sends(ops, literals, Known, File, a[n], Len(File))
               /\ route = "push" => ops = <<>> /\ Cutting(boundary, a, n, File)
  BY <1>1 DEF ApplyInv, Applying
<1> DEFINE s == a[n]
<1>6. Len(literals) < Modulus /\ route # "push"
  BY <1>1, <1>5 DEF ApplyInv, Applying
<1>7. RunningOffset = s
  BY <1>5, TilesAddUp DEF RunningOffset
<1>8. ops # <<>> /\ Sends(ops, literals, Known, File, s, Len(File))
  BY <1>1, <1>5
<1> HIDE DEF s
<1>9. /\ op \in Operations /\ s \in Nat
      /\ op.type = "copy" =>
           /\ op.block \in DOMAIN Known
           /\ s + Known[op.block].length \in Nat
           /\ s + Known[op.block].length <= Len(File)
           /\ Known[op.block].strong = Slice(File, s, s + Known[op.block].length)
           /\ Sends(Tail(ops), literals, Known, File, s + Known[op.block].length, Len(File))
      /\ op.type = "literal" =>
           /\ s + len <= Len(File) /\ len <= Len(literals)
           /\ Slice(literals, 0, len) = Slice(File, s, s + len)
           /\ Sends(Tail(ops), Slice(literals, len, Len(literals)), Known, File, s + len, Len(File))
  BY <1>4, <1>8, SendLess
<1> USE DEF s
<1>10. /\ literals \in Seq(Bytes) /\ Len(literals) \in Nat
  BY <1>5 DEF Sends, Rebuild
<1>11. op.type \in {"copy", "literal"} /\ len \in Nat
  BY <1>9 DEF Operations
<1>12. BusyInv' /\ IdleInv' /\ ChunkInv' /\ ScanInv' /\ SendInv'
  BY <1>1, <1>2, <1>3 DEF BusyInv, IdleInv, ChunkInv, ScanInv, SendInv
<1>13. ASSUME Applying(boundary, rows', ops', literals', Known, File, route)
       PROVE  IInv'
  <2>1. ApplyInv'
    BY <1>3, <1>13 DEF ApplyInv
  <2>2. QED
    BY <1>3, <1>12, <2>1 DEF IInv
(* A row more describes the bytes from s to v.                              *)
<1>14. ASSUME NEW r, NEW v \in Nat, Describes(r, File, s, v), rows' = Append(rows, r),
              Sends(ops', literals', Known, File, v, Len(File)), Len(literals') < Modulus
       PROVE  Applying(boundary, rows', ops', literals', Known, File, route)
  <2> DEFINE b == Further(a, n, v)
  <2>1. Tiles(rows', File, b) /\ Len(rows') = n + 1 /\ b[n + 1] = v
    BY <1>5, <1>14, TilesGrow
  <2> HIDE DEF b, n, s
  <2>2. Sends(ops', literals', Known, File, b[Len(rows')], Len(File))
    BY <1>14, <2>1
  <2>3. QED
    BY <1>6, <1>14, <2>1, <2>2 DEF Applying
<1>15. CASE op.type = "copy"
  <2> DEFINE k == op.block
             m == Known[k].length
             r == CopyRow(k)
             v == s + m
  <2>1. /\ k \in DOMAIN Known /\ v \in Nat /\ v <= Len(File)
        /\ Known[k].strong = Slice(File, s, v)
        /\ Sends(Tail(ops), literals, Known, File, v, Len(File))
    BY <1>9, <1>15
  <2>2. rows' = Append(rows, r) /\ literals' = literals
    BY <1>2, <1>15
  <2>3. Known = Signatures /\ Known[k] \in ManifestRows /\ m \in Nat /\ m < Modulus
    BY <1>1, <2>1, KnownRows
  <2>4. r = [Known[k] EXCEPT !.offset = s]
    BY <1>7, <2>3 DEF CopyRow
  <2>5. /\ r \in ManifestRows /\ r.length = m /\ r.offset = s /\ r.strong = Known[k].strong
    BY <1>9, <2>3, <2>4 DEF ManifestRows
  <2> HIDE DEF r
  <2>6. Describes(r, File, s, v)
    BY <2>1, <2>3, <2>5 DEF Describes
  <2>7. Applying(boundary, rows', ops', literals', Known, File, route)
    BY <1>2, <1>6, <1>14, <2>1, <2>2, <2>6
  <2>8. QED
    BY <1>13, <2>7
<1>16. CASE op.type = "literal" /\ literals = <<>>
  <2>1. rows' = rows /\ literals' = literals
    BY <1>2, <1>16
  <2>2. /\ len = 0 /\ Slice(literals, len, Len(literals)) = literals /\ s + len = s
    <3>1. len <= Len(literals)
      BY <1>9, <1>16
    <3>2. len = 0
      BY <1>11, <1>16, <3>1
    <3>3. Slice(literals, 0, Len(literals)) = literals
      BY <1>10, SliceOfAll
    <3>4. QED
      BY <1>9, <3>2, <3>3
  <2>3. Sends(Tail(ops), literals, Known, File, s, Len(File))
    <3>1. Sends(Tail(ops), Slice(literals, len, Len(literals)), Known, File, s + len, Len(File))
      BY <1>9, <1>16
    <3>2. QED
      BY <2>2, <3>1
  <2>4. Applying(boundary, rows, Tail(ops), literals, Known, File, route)
    BY <1>5, <1>6, <2>3 DEF Applying
  <2>5. QED
    BY <1>2, <1>13, <2>1, <2>4
<1>17. CASE op.type = "literal" /\ literals # <<>>
  <2> DEFINE x == Slice(literals, 0, len)
             rest == Slice(literals, len, Len(literals))
             v == s + len
             r == Row(s, x, len)
  <2>1. /\ v <= Len(File) /\ len <= Len(literals) /\ x = Slice(File, s, v)
        /\ Sends(Tail(ops), rest, Known, File, v, Len(File))
    BY <1>9, <1>17
  <2>2. rows' = Append(rows, r) /\ literals' = rest
    BY <1>2, <1>7, <1>17
  <2>3. v \in Nat
    BY <1>9, <1>11
  <2>4. x \in Seq(Bytes)
    <3>1. len = 0 + len /\ 0 \in Nat
      BY <1>11
    <3>2. IsPart(x, Bytes, literals, 0, len)
      BY <1>10, <1>11, <2>1, <3>1, SliceIsPart
    <3>3. QED
      BY <3>2 DEF IsPart
  <2>5. Len(rest) < Modulus
    <3> DEFINE c == Len(literals) - len
    <3>1. c \in Nat /\ Len(literals) = len + c /\ c <= Len(literals)
      BY <1>10, <1>11, <2>1
    <3> HIDE DEF c
    <3>2. IsPart(rest, Bytes, literals, len, c)
      BY <1>10, <1>11, <3>1, SliceIsPart
    <3>3. QED
      BY <1>6, <1>10, <3>1, <3>2, WidthAssumption DEF IsPart
  <2>6. len < Modulus
    BY <1>6, <1>10, <1>11, <2>1, WidthAssumption
  <2> HIDE DEF x, rest
  <2>7. r \in ManifestRows /\ r.offset = s /\ r.length = len /\ r.strong = x
    BY <1>9, <1>11, <2>4, RowIs
  <2> HIDE DEF r
  <2>8. Describes(r, File, s, v)
    BY <2>1, <2>6, <2>7 DEF Describes
  <2>9. Applying(boundary, rows', ops', literals', Known, File, route)
    BY <1>2, <1>14, <2>1, <2>2, <2>3, <2>5, <2>8
  <2>10. QED
    BY <1>13, <2>9
<1>18. QED
  BY <1>11, <1>15, <1>16, <1>17

LEMMA StoreStep ==
  ASSUME IInv, Store
  PROVE  IInv' /\ RunningOffset = Len(File)
<1> DEFINE n == Len(manifests)
<1>1. HistoryInv /\ BusyInv /\ ApplyInv /\ phase = "apply" /\ ops = <<>>
  BY DEF IInv, Store
<1>2. /\ File \in Seq(Bytes) /\ Len(File) \in Nat /\ n \in Nat /\ Len(files) = n + 1
      /\ File = files[n + 1] /\ route = routes[n + 1]
  BY <1>1, Current
<1>3. PICK a : /\ Tiles(rows, File, a) /\ Sends(<<>>, literals, Known, File, a[Len(rows)], Len(File))
               /\ route = "push" => Cutting(boundary, a, Len(rows), File)
  BY <1>1 DEF ApplyInv, Applying
<1>4. a[Len(rows)] = Len(File)
  BY <1>3, SendEnds
<1>5. RunningOffset = Len(File)
  BY <1>3, <1>4, TilesAddUp DEF RunningOffset
<1> DEFINE m == Encode(rows)
<1>6. /\ manifests' = Append(manifests, m) /\ files' = files /\ routes' = routes
      /\ Finish /\ boundary' = boundary
  BY <1>5 DEF Store, Finish
<1>7. Tiles(m, File, a) /\ Len(m) = Len(rows)
  BY <1>2, <1>3, EncodeTiles
<1> HIDE DEF m
<1>8. m \in Seq(ManifestRows)
  BY <1>7 DEF Tiles
<1>9. StoredAs(boundary, m, files[n + 1], routes[n + 1])
  BY <1>2, <1>3, <1>4, <1>7 DEF StoredAs
<1>10. /\ manifests \in Seq(Seq(ManifestRows)) /\ files \in Seq(Seq(Bytes))
       /\ routes \in Seq(Routes \cup {"blocks"}) /\ Len(routes) = n + 1
       /\ \A v \in 1 .. n : StoredAs(boundary, manifests[v], files[v], routes[v])
  BY <1>1, <1>2 DEF HistoryInv
<1>11. /\ manifests' \in Seq(Seq(ManifestRows)) /\ Len(manifests') = n + 1
       /\ manifests'[n + 1] = m /\ \A v \in 1 .. n : manifests'[v] = manifests[v]
  BY <1>6, <1>8, <1>10
<1> HIDE DEF n
<1>12. ASSUME NEW v \in 1 .. n + 1
       PROVE  StoredAs(boundary, manifests'[v], files[v], routes[v])
  <2>1. CASE v = n + 1
    BY <1>9, <1>11, <2>1
  <2>2. CASE v # n + 1
    <3>1. v \in 1 .. n
      BY <1>2, <2>2
    <3>2. QED
      BY <1>10, <1>11, <3>1
  <2>3. QED
    BY <2>1, <2>2
<1>13. \A v \in 1 .. n + 1 : StoredAs(boundary', manifests'[v], files'[v], routes'[v])
  BY <1>6, <1>12
<1>14. Len(files') = n + 1 /\ Len(routes') = n + 1 /\ n + 1 <= n + 1
  BY <1>2, <1>6, <1>10
<1>15. files' \in Seq(Seq(Bytes)) /\ routes' \in Seq(Routes \cup {"blocks"})
  BY <1>6, <1>10
<1>16. HistoryInv'
  BY <1>11, <1>13, <1>14, <1>15 DEF HistoryInv
<1>17. IInv'
  BY <1>6, <1>11, <1>14, <1>16, FinishStep
<1>18. QED
  BY <1>5, <1>17


LEMMA InitStep ==
  ASSUME Init
  PROVE  IInv
<1>1. /\ phase = "idle" /\ ends = <<>> /\ ops = <<>> /\ literals = <<>> /\ rows = <<>>
      /\ i = 0 /\ litStart = 0
  BY DEF Init
<1>2. BusyInv /\ ChunkInv /\ ScanInv /\ SendInv /\ ApplyInv
  BY <1>1 DEF BusyInv, ChunkInv, ScanInv, SendInv, ApplyInv
<1>3. HistoryInv /\ Len(files) = Len(manifests)
  <2>1. CASE files = <<>> /\ routes = <<>> /\ manifests = <<>>
    BY <2>1 DEF HistoryInv
  <2>2. CASE \E d \in Contents : /\ files = <<d>> /\ routes = <<"blocks">>
                                 /\ manifests = <<BlockRows(BlockTable(FixedBlocks(d)), Len(d))>>
    <3>1. PICK d \in Contents : /\ files = <<d>> /\ routes = <<"blocks">>
                                /\ manifests = <<BlockRows(BlockTable(FixedBlocks(d)), Len(d))>>
      BY <2>2
    <3> DEFINE m == BlockRows(BlockTable(FixedBlocks(d)), Len(d))
    <3>2. d \in Seq(Bytes)
      BY ContentsAre
    <3>3. PICK e : Tiles(m, d, e) /\ e[Len(m)] = Len(d)
      BY <3>2, BlocksTile
    <3>4. files = <<d>> /\ routes = <<"blocks">> /\ manifests = <<m>>
      BY <3>1
    <3> HIDE DEF m
    <3>5. StoredAs(boundary, m, d, "blocks") /\ m \in Seq(ManifestRows)
      BY <3>3 DEF StoredAs, Tiles
    <3>6. /\ Len(files) = 1 /\ Len(routes) = 1 /\ Len(manifests) = 1
          /\ files[1] = d /\ routes[1] = "blocks" /\ manifests[1] = m
      BY <3>4
    <3>7. /\ files \in Seq(Seq(Bytes)) /\ routes \in Seq(Routes \cup {"blocks"})
          /\ manifests \in Seq(Seq(ManifestRows))
      BY <3>2, <3>4, <3>5
    <3>8. \A v \in 1 .. 1 : v = 1
      OBVIOUS
    <3>9. \A v \in 1 .. Len(manifests) : StoredAs(boundary, manifests[v], files[v], routes[v])
      BY <3>5, <3>6, <3>8
    <3>10. QED
      BY <3>6, <3>7, <3>9 DEF HistoryInv
  <2>3. QED
    BY <2>1, <2>2 DEF Init
<1>4. QED
  BY <1>1, <1>2, <1>3 DEF IInv, IdleInv

LEMMA Inductive ==
  ASSUME IInv, [Next]_vars
  PROVE  IInv'
<1>1. CASE UNCHANGED vars
  <2>1. /\ UNCHANGED <<boundary, versions>>
        /\ UNCHANGED <<phase, ends, i, litStart, ops, literals, rows>>
    BY <1>1 DEF vars, versions
  <2>2. HistoryInv /\ boundary' = boundary /\ files' = files /\ manifests' = manifests
    BY <2>1 DEF IInv, versions
  <2>3. HistoryInv' /\ File' = File /\ Known' = Known /\ route' = route
    BY <2>1, <2>2, SameHistory
  <2>4. IdleInv' /\ BusyInv' /\ ChunkInv' /\ ScanInv' /\ SendInv' /\ ApplyInv'
    BY <2>1, <2>2, <2>3 DEF IInv, IdleInv, BusyInv, ChunkInv, ScanInv, SendInv, ApplyInv
  <2>5. QED
    BY <2>3, <2>4 DEF IInv
<1>2. CASE Begin
  BY <1>2, BeginStep
<1>3. CASE Chunk
  BY <1>3, ChunkStep
<1>4. CASE ChunkNatively
  BY <1>4, ChunkNativelyStep
<1>5. CASE Negotiated
  BY <1>5, NegotiatedStep
<1>6. CASE DeltaCdc
  BY <1>6, DeltaCdcStep
<1>7. CASE PackDelta
  BY <1>7, PackDeltaStep
<1>8. CASE Scan
  BY <1>8, ScanStep
<1>9. CASE ScanEnd
  BY <1>9, ScanEndStep
<1>10. CASE \E e \in Encodings : Send(e)
  BY <1>10, SendStep
<1>11. CASE Apply
  BY <1>11, ApplyStep
<1>12. CASE Store
  BY <1>12, StoreStep
<1>13. QED
  BY <1>1, <1>2, <1>3, <1>4, <1>5, <1>6, <1>7, <1>8, <1>9, <1>10, <1>11, <1>12 DEF Next

(* What the rows and operations of a transfer under way stand for, and what *)
(* each stored manifest describes, holds in every state, whatever the sizes *)
(* of chunks, windows, pages, bodies and fields (SizesAssumption,           *)
(* WidthAssumption).                                                        *)
THEOREM TransfersDescribe == Spec => []IInv
<1>1. Init => IInv
  BY InitStep
<1>2. IInv /\ [Next]_vars => IInv'
  BY Inductive
<1>3. QED
  BY <1>1, <1>2, PTL DEF Spec


-----------------------------------------------------------------------------
(* The properties                                                           *)

LEMMA DownloadLemma ==
  ASSUME IInv
  PROVE  DownloadIsFile
<1>1. HistoryInv /\ BusyInv /\ ApplyInv
  BY DEF IInv
<1>2. ASSUME NEW v \in DOMAIN manifests
      PROVE  Spelled(manifests[v]) = files[v]
  <2>1. v \in 1 .. Len(manifests) /\ v \in 1 .. Len(files) /\ files \in Seq(Seq(Bytes))
    BY <1>1 DEF HistoryInv
  <2>2. PICK e : Tiles(manifests[v], files[v], e) /\ e[Len(manifests[v])] = Len(files[v])
    BY <1>1, <2>1 DEF HistoryInv, StoredAs
  <2>3. files[v] \in Seq(Bytes)
    BY <2>1
  <2>4. QED
    BY <2>2, <2>3, TilesSpell
<1>3. ASSUME phase = "apply", ops = <<>>
      PROVE  RunningOffset = Len(File)
  <2>1. PICK a : Tiles(rows, File, a) /\ Sends(<<>>, literals, Known, File, a[Len(rows)], Len(File))
    BY <1>1, <1>3 DEF ApplyInv, Applying
  <2>2. a[Len(rows)] = Len(File)
    BY <2>1, SendEnds
  <2>3. QED
    BY <2>1, <2>2, TilesAddUp DEF RunningOffset
<1>4. QED
  BY <1>2, <1>3 DEF DownloadIsFile

(* DownloadIsFile: whatever the chunk sizes, the fingerprint, the routes,   *)
(* the encodings of the operations and the widths of their fields, a        *)
(* download returns each version as the client had it, and no upload that   *)
(* the code itself makes is refused because its rows do not add up to the   *)
(* file.                                                                    *)
THEOREM DownloadsAreFiles == Spec => []DownloadIsFile
<1>1. IInv => DownloadIsFile
  BY DownloadLemma
<1>2. QED
  BY <1>1, TransfersDescribe, PTL

LEMMA SizesLemma ==
  ASSUME IInv
  PROVE  ChunkSizes
<1>1. CASE phase = "idle"
  <2>1. ends = <<>>
    BY <1>1 DEF IInv, IdleInv
  <2>2. QED
    BY <1>1, <2>1 DEF ChunkSizes
<1>2. CASE phase # "idle"
  <2>1. File \in Seq(Bytes) /\ Len(File) \in Nat /\ Chain(boundary, File, 0, ends)
    BY <1>2, Current DEF IInv
  <2>2. Chain(boundary, File, 0, NativeEnds) /\ EndOf(NativeEnds, 0) = Len(File)
    BY <2>1, NativeChain
  <2>3. ends \in Seq(Nat) /\ NativeEnds \in Seq(Nat)
    BY <2>1, <2>2 DEF Chain
  <2>4. Len(ends) <= Len(NativeEnds) /\ \A k \in 1 .. Len(ends) : ends[k] = NativeEnds[k]
    BY <2>1, <2>2, ChainPrefix
  <2>5. IsPrefix(ends, NativeEnds)
    <3> DEFINE n == Len(ends)
               es == NativeEnds
    <3>1. n \in Nat /\ n <= Len(es) /\ es \in Seq(Nat) /\ \A k \in 1 .. n : ends[k] = es[k]
      BY <2>3, <2>4
    <3> HIDE DEF es
    <3>2. SubSeq(ends, 1, n) = ends
      BY <2>3
    <3>3. SubSeq(es, 1, n) \in Seq(Nat) /\ Len(SubSeq(es, 1, n)) = n
      BY <3>1
    <3>4. \A k \in 1 .. n : SubSeq(es, 1, n)[k] = es[k]
      BY <3>1
    <3>5. SubSeq(es, 1, n) = ends
      BY <2>3, <3>1, <3>3, <3>4
    <3>6. QED
      BY <3>1, <3>2, <3>5 DEF IsPrefix, es
  <2>6. ASSUME NEW k \in DOMAIN ends
        PROVE  LET size == ends[k] - Start(ends, k) IN
                 /\ 0 < size /\ ends[k] <= Len(File)
                 /\ MaxSize > 0 => size <= MaxSize
                 /\ ends[k] < Len(File) /\ MinSize < MaxSize => size > MinSize
    <3> DEFINE s == Before(ends, 0, k)
               e == ends[k]
    <3>1. k \in 1 .. Len(ends)
      BY <2>3
    <3>2. Start(ends, k) = s
      BY DEF Start, Before
    <3>3. s \in Nat /\ e \in Nat /\ s < e /\ e <= Len(File)
      BY <2>1, <3>1, ChainInside
    <3>4. s < Len(File) /\ e = CutOf(boundary, File, s)
      BY <2>1, <3>1 DEF Chain
    <3> HIDE DEF s, e
    <3>5. /\ MaxSize > 0 => e <= s + MaxSize
          /\ e < Len(File) /\ MinSize < MaxSize => e > s + MinSize
      BY <2>1, <3>3, <3>4, CutBounds
    <3>6. /\ 0 < e - s /\ e <= Len(File)
          /\ MaxSize > 0 => e - s <= MaxSize
          /\ e < Len(File) /\ MinSize < MaxSize => e - s > MinSize
      BY <2>1, <3>3, <3>5, SizesAssumption
    <3>7. QED
      BY <3>2, <3>6 DEF e
  <2>7. QED
    BY <2>5, <2>6 DEF ChunkSizes
<1>3. QED
  BY <1>1, <1>2

(* ChunkSizes: for every file, every fingerprint and all chunk sizes, the   *)
(* ends of the chunks grow inside the file, no chunk is longer than the     *)
(* maximum and only the last one not longer than the minimum, and the loop  *)
(* of fastcdc.ts finds, one by one, the ends that the Rust recursion        *)
(* returns.                                                                 *)
THEOREM SizesKept == Spec => []ChunkSizes
<1>1. IInv => ChunkSizes
  BY SizesLemma
<1>2. QED
  BY <1>1, TransfersDescribe, PTL


(* The hashes of rs, each kept once.                                        *)
Kept(seen, x) == IF x \in ToSet(seen) THEN seen ELSE Append(seen, x)

(* The sequence u holds the strong hashes of the first n rows, each once.   *)
Collects(u, rs, n) ==
  /\ u \in Seq(Seq(Bytes))
  /\ \A a \in 1 .. Len(u) : \A b \in 1 .. Len(u) : u[a] = u[b] => a = b
  /\ \A x : (\E a \in 1 .. Len(u) : u[a] = x) <=> (\E k \in 1 .. n : rs[k].strong = x)

LEMMA CollectMore ==
  ASSUME NEW u, NEW rs, NEW n \in Nat, Collects(u, rs, n), rs[n + 1].strong \in Seq(Bytes)
  PROVE  Collects(Kept(u, rs[n + 1].strong), rs, n + 1)
<1> DEFINE y == rs[n + 1].strong
           w == Kept(u, y)
           c == Len(u)
           S == Seq(Bytes)
<1>1. /\ u \in Seq(S) /\ c \in Nat /\ y \in S
      /\ \A a \in 1 .. c : \A b \in 1 .. c : u[a] = u[b] => a = b
  <2>1. /\ u \in Seq(S) /\ y \in S
        /\ \A a \in 1 .. c : \A b \in 1 .. c : u[a] = u[b] => a = b
    BY Zenon DEF Collects
  <2>2. c \in Nat
    <3> HIDE DEF S
    <3>1. QED
      BY <2>1
  <2>3. QED
    BY <2>1, <2>2
<1>2. \A x : (\E a \in 1 .. c : u[a] = x) <=> (\E k \in 1 .. n : rs[k].strong = x)
  BY DEF Collects
<1>3. \A x : x \in ToSet(u) <=> \E a \in 1 .. c : u[a] = x
  BY <1>1 DEF ToSet
<1>4. \A x : (\E k \in 1 .. n + 1 : rs[k].strong = x)
               <=> (\E k \in 1 .. n : rs[k].strong = x) \/ x = y
  <2>1. \A k : k \in 1 .. n + 1 <=> k \in 1 .. n \/ k = n + 1
    OBVIOUS
  <2>2. QED
    BY <2>1, Zenon
<1> HIDE DEF y, S
<1>5. CASE y \in ToSet(u)
  <2>1. w = u
    BY <1>5 DEF Kept
  <2>2. \E a \in 1 .. c : u[a] = y
    BY <1>3, <1>5
  <2>3. \A x : (\E a \in 1 .. c : u[a] = x) <=> (\E k \in 1 .. n + 1 : rs[k].strong = x)
    BY <1>2, <1>4, <2>2, Zenon
  <2>4. Collects(u, rs, n + 1)
    BY <1>1, <2>3 DEF Collects, S
  <2>5. QED
    BY <2>1, <2>4 DEF y
<1>6. CASE y \notin ToSet(u)
  <2>1. w = Append(u, y)
    BY <1>6 DEF Kept
  <2> HIDE DEF w, c
  <2>2. Len(u) = c
    BY DEF c
  <2>3. w \in Seq(S) /\ Len(w) = c + 1 /\ w[c + 1] = y /\ \A a \in 1 .. c : w[a] = u[a]
    BY <1>1, <2>1, <2>2
  <2>4. \A a : a \in 1 .. c + 1 <=> a \in 1 .. c \/ a = c + 1
    BY <1>1
  <2>5. \A a \in 1 .. c : u[a] # y
    BY <1>3, <1>6
  <2>6. ASSUME NEW a \in 1 .. c + 1, NEW b \in 1 .. c + 1, w[a] = w[b] PROVE a = b
    BY <1>1, <2>3, <2>4, <2>5, <2>6
  <2>7. \A x : (\E a \in 1 .. c + 1 : w[a] = x) <=> (\E a \in 1 .. c : u[a] = x) \/ x = y
    BY <2>3, <2>4, Zenon
  <2>8. \A x : (\E a \in 1 .. c + 1 : w[a] = x) <=> (\E k \in 1 .. n + 1 : rs[k].strong = x)
    BY <1>2, <1>4, <2>7, Zenon
  <2>9. Collects(w, rs, n + 1)
    BY <2>3, <2>6, <2>8 DEF Collects, S
  <2>10. QED
    BY <2>9 DEF w, y
<1>7. QED
  BY <1>5, <1>6

LEMMA UniqueIs ==
  ASSUME NEW rs \in Seq(ManifestRows)
  PROVE  Collects(UniqueHashes(rs), rs, Len(rs))
<1> DEFINE n == Len(rs)
           D == 1 .. n
           V == Seq(Seq(Bytes))
           G == [k \in D |-> [v \in V |-> Kept(v, rs[k].strong)]]
           Fold(f) == f = [s \in SUBSET D |->
                             IF s = {} THEN <<>>
                             ELSE LET x == Max(s)
                                  IN  IF rs[x].strong \in ToSet(f[s \ {x}]) THEN f[s \ {x}]
                                      ELSE Append(f[s \ {x}], rs[x].strong)]
<1>1. n \in Nat /\ DOMAIN rs = D /\ <<>> \in V
  OBVIOUS
<1>2. \A k \in D : rs[k].strong \in Seq(Bytes)
  <2>1. \A k \in D : rs[k] \in ManifestRows
    BY <1>1
  <2>2. QED
    BY <2>1 DEF ManifestRows
<1>3. \A k \in D, v \in V : G[k][v] = Kept(v, rs[k].strong)
  OBVIOUS
<1>4. \A k \in D, v \in V : G[k][v] \in V
  <2> SUFFICES ASSUME NEW k \in D, NEW v \in V PROVE Kept(v, rs[k].strong) \in V
    BY <1>3
  <2>1. Append(v, rs[k].strong) \in V
    BY <1>2
  <2>2. QED
    BY <2>1 DEF Kept
<1>5. \A s \in SUBSET D : s # {} => Max(s) \in D
  <2> SUFFICES ASSUME NEW s \in SUBSET D, s # {} PROVE Max(s) \in s
    OBVIOUS
  <2>1. s \subseteq 0 .. n
    OBVIOUS
  <2>2. QED
    BY <1>1, <2>1, GreatestNumber
<1> HIDE DEF n, G, V
<1>6. Steps(n, V, <<>>, G)
  BY <1>1, <1>4 DEF Steps
<1>7. \E f : Fold(f)
  <2>1. PICK f : GoesUp(f, n, V, <<>>, G)
    BY <1>6, FoldRuns
  <2>2. \A s \in SUBSET D : f[s] = IF s = {} THEN <<>>
                                   ELSE IF rs[Max(s)].strong \in ToSet(f[s \ {Max(s)}])
                                        THEN f[s \ {Max(s)}]
                                        ELSE Append(f[s \ {Max(s)}], rs[Max(s)].strong)
    <3> SUFFICES ASSUME NEW s \in SUBSET D, s # {}
                 PROVE  f[s] = Kept(f[s \ {Max(s)}], rs[Max(s)].strong)
      BY <2>1 DEF GoesUp, Kept
    <3>1. f[s \ {Max(s)}] \in V
      BY <2>1 DEF GoesUp
    <3>2. QED
      BY <1>3, <1>5, <2>1, <3>1 DEF GoesUp
  <2>3. f \in [SUBSET D -> V]
    BY <2>1 DEF GoesUp
  <2>4. Fold(f)
    BY <2>3, <2>2, Zenon
  <2>5. QED
    BY <2>4
<1> DEFINE h == CHOOSE f : Fold(f)
<1>8. Fold(h)
  BY <1>7
<1>9. UniqueHashes(rs) = h[D]
  BY <1>1 DEF UniqueHashes, FoldLeft, MapThenFoldSet
<1> HIDE DEF h
<1>10. FoldsUp(h, n, V, <<>>, G)
  <2>1. h[{}] = <<>>
    BY <1>8
  <2>2. ASSUME NEW s \in SUBSET D, s # {}, h[s \ {Max(s)}] \in V
        PROVE  h[s] = G[Max(s)][h[s \ {Max(s)}]]
    <3>1. h[s] = Kept(h[s \ {Max(s)}], rs[Max(s)].strong)
      BY <1>8, <2>2 DEF Kept
    <3>2. QED
      BY <1>3, <1>5, <2>2, <3>1
  <2>3. QED
    BY <2>1, <2>2 DEF FoldsUp
<1>11. PICK p : Runs(p, n, V, <<>>, G) /\ p[n] = h[D]
  <2> HIDE DEF Fold
  <2>1. QED
    BY <1>6, <1>10, FoldRuns
<1> DEFINE T == {k \in Nat : k <= n => Collects(p[k], rs, k)}
<1>12. 0 \in T
  <2>1. p[0] = <<>> /\ <<>> \in Seq(Seq(Bytes)) /\ Len(<<>>) = 0
    BY <1>11 DEF Runs
  <2>2. Collects(<<>>, rs, 0)
    BY <2>1 DEF Collects
  <2>3. QED
    BY <2>1, <2>2
<1>13. ASSUME NEW k \in Nat, k \in T PROVE k + 1 \in T
  <2> SUFFICES ASSUME k + 1 <= n PROVE Collects(p[k + 1], rs, k + 1)
    OBVIOUS
  <2> DEFINE a == k + 1
  <2>1. a \in D /\ a - 1 = k /\ k \in 0 .. n /\ k <= n
    BY <1>1
  <2>2. Collects(p[k], rs, k)
    BY <1>13, <2>1
  <2> HIDE DEF a, D, Fold
  <2>3. p[a] = G[a][p[k]]
    BY <1>11, <2>1 DEF Runs, D
  <2>4. p[k] \in V
    BY <1>11, <2>1 DEF Runs
  <2>5. p[a] = Kept(p[k], rs[a].strong)
    BY <1>3, <2>1, <2>3, <2>4
  <2>6. rs[a].strong \in Seq(Bytes)
    BY <1>2, <2>1
  <2>7. QED
    BY <2>2, <2>5, <2>6, CollectMore DEF a
<1>14. n \in T
  <2> HIDE DEF T
  <2>1. QED
    BY <1>1, <1>12, <1>13, SetInduction
<1>15. QED
  BY <1>1, <1>9, <1>11, <1>14 DEF n


(* The pages of a sequence.                                                 *)
LEMMA PagesAre ==
  ASSUME NEW rs, UniqueHashes(rs) \in Seq(Seq(Bytes))
  PROVE  /\ \A p \in DOMAIN HashPages(rs) : Len(HashPages(rs)[p]) <= HashPage
         /\ UNION {ToSet(HashPages(rs)[p]) : p \in DOMAIN HashPages(rs)} = ToSet(UniqueHashes(rs))
         /\ SumOf([p \in DOMAIN HashPages(rs) |-> Len(HashPages(rs)[p])]) = Len(UniqueHashes(rs))
<1> DEFINE S == Seq(Bytes)
           all == UniqueHashes(rs)
           n == Len(all)
           H == HashPage
           M(k) == k * H
           e0(k) == Least({M(k), n})
           q == HashPages(rs)
<1>1. all \in Seq(S) /\ H \in Nat \ {0} /\ H \in Nat /\ H >= 1
  BY SizesAssumption
<1> HIDE DEF S
<1>2. n \in Nat /\ DOMAIN all = 1 .. n
  BY <1>1
<1>3. PICK c \in Nat : {b \in 1 .. n : (b - 1) * H < n} = 1 .. c /\ n <= c * H
  <2> HIDE DEF n, H
  <2>1. QED
    BY <1>1, <1>2, BlocksCount
<1>4. q = [p \in 1 .. c |-> Slice(all, M(p - 1), e0(p))]
  BY <1>3 DEF HashPages
<1>5. \A k \in Nat : M(k) \in Nat /\ M(k) >= k /\ M(k + 1) = M(k) + H
  BY <1>1
<1>6. \A k \in 1 .. c : M(k) = M(k - 1) + H /\ M(k - 1) < n /\ k - 1 \in Nat
  <2> SUFFICES ASSUME NEW k \in 1 .. c PROVE M(k) = M(k - 1) + H /\ M(k - 1) < n /\ k - 1 \in Nat
    OBVIOUS
  <2>1. k \in {b \in 1 .. n : (b - 1) * H < n}
    BY <1>3
  <2>2. QED
    BY <1>1, <2>1
<1>7. \A k \in Nat : k >= 1 /\ M(k - 1) < n => k \in 1 .. c
  <2> SUFFICES ASSUME NEW k \in Nat, k >= 1, M(k - 1) < n PROVE k \in 1 .. c
    OBVIOUS
  <2>1. k - 1 \in Nat
    OBVIOUS
  <2>2. M(k - 1) \in Nat /\ M(k - 1) >= k - 1
    BY <1>5, <2>1
  <2>3. k \in 1 .. n
    BY <1>2, <2>1, <2>2
  <2>4. k \in {b \in 1 .. n : (b - 1) * H < n}
    BY <2>3
  <2>5. QED
    BY <1>3, <2>4
<1>8. M(0) = 0 /\ n <= M(c)
  BY <1>1, <1>3
<1> DEFINE e == [k \in 0 .. c |-> e0(k)]
<1> HIDE DEF M, n, H, all, q
<1>9. \A k \in Nat : /\ e0(k) \in Nat /\ e0(k) <= M(k) /\ e0(k) <= n
                     /\ e0(k) = M(k) \/ e0(k) = n
  <2> SUFFICES ASSUME NEW k \in Nat
               PROVE  /\ e0(k) \in Nat /\ e0(k) <= M(k) /\ e0(k) <= n
                      /\ e0(k) = M(k) \/ e0(k) = n
    OBVIOUS
  <2> DEFINE x == M(k)
  <2> HIDE DEF x
  <2>1. x \in Nat
    BY <1>5 DEF x
  <2>2. /\ Least({x, n}) \in Nat /\ Least({x, n}) <= x /\ Least({x, n}) <= n
        /\ Least({x, n}) = x \/ Least({x, n}) = n
    BY <1>2, <2>1, Lesser
  <2>3. QED
    BY <2>2 DEF x
<1> HIDE DEF e0
<1>10. ASSUME NEW k \in 1 .. c
       PROVE  /\ e0(k - 1) = M(k - 1) /\ e0(k) - M(k - 1) \in Nat /\ e0(k) - M(k - 1) <= H
              /\ IsPart(q[k], S, all, M(k - 1), e0(k) - M(k - 1))
              /\ M(k - 1) \in Nat /\ e0(k) \in Nat /\ e0(k) <= n
  <2> DEFINE s == M(k - 1)
             f == e0(k)
             l == f - s
  <2>1. /\ k \in Nat /\ k - 1 \in Nat /\ s \in Nat /\ s < n /\ M(k) = s + H
    <3>1. k \in Nat /\ k - 1 \in Nat /\ M(k - 1) < n /\ M(k) = M(k - 1) + H
      BY <1>6
    <3>2. M(k - 1) \in Nat
      BY <1>5, <3>1
    <3>3. QED
      BY <3>1, <3>2
  <2>2. /\ f \in Nat /\ f <= M(k) /\ f <= n /\ (f = M(k) \/ f = n)
        /\ e0(k - 1) \in Nat /\ e0(k - 1) <= s /\ (e0(k - 1) = s \/ e0(k - 1) = n)
    BY <1>9, <2>1
  <2>3. q[k] = Slice(all, s, f)
    BY <1>4
  <2> HIDE DEF s, f
  <2>4. l \in Nat /\ f = s + l /\ l <= H
    BY <1>1, <1>2, <2>1, <2>2
  <2>5. e0(k - 1) = s
    BY <1>2, <2>1, <2>2
  <2> HIDE DEF l
  <2>6. IsPart(q[k], S, all, s, l)
    BY <1>1, <2>1, <2>2, <2>3, <2>4, SliceIsPart DEF n
  <2>7. QED
    BY <2>1, <2>2, <2>4, <2>5, <2>6 DEF s, f, l
<1>11. q \in Seq(Seq(S)) /\ Len(q) = c /\ DOMAIN q = 1 .. c
  <2>1. \A k \in 1 .. c : q[k] \in Seq(S)
    BY <1>10 DEF IsPart
  <2>2. q = [k \in 1 .. c |-> q[k]]
    BY <1>4
  <2>3. q \in [1 .. c -> Seq(S)]
    BY <2>1, <2>2
  <2>4. QED
    BY <2>3
<1>12. \A k \in 1 .. c : Len(q[k]) = e0(k) - M(k - 1)
  BY <1>10 DEF IsPart
<1>13. \A p \in DOMAIN q : Len(q[p]) <= H
  BY <1>10, <1>11, <1>12
<1>14. Totals(Lens(q), e)
  <2>1. Lens(q) \in Seq(Nat) /\ Len(Lens(q)) = c /\ \A k \in 1 .. c : Lens(q)[k] = Len(q[k])
    BY <1>11, LensAre
  <2>2. e \in [0 .. c -> Nat]
    BY <1>9
  <2>3. e[0] = 0
    <3>1. e0(0) \in Nat /\ e0(0) <= 0
      BY <1>8, <1>9
    <3>2. e0(0) = 0
      BY <3>1
    <3>3. QED
      BY <3>2
  <2>4. ASSUME NEW k \in 1 .. c PROVE e[k] = e[k - 1] + Lens(q)[k]
    <3>1. k \in 0 .. c /\ k - 1 \in 0 .. c
      OBVIOUS
    <3>2. e[k] = e0(k) /\ e[k - 1] = e0(k - 1)
      BY <3>1
    <3>3. /\ Lens(q)[k] = e0(k) - M(k - 1) /\ e0(k - 1) = M(k - 1)
          /\ e0(k) \in Nat /\ M(k - 1) \in Nat
      BY <1>10, <1>12, <2>1
    <3> HIDE DEF e
    <3>4. QED
      BY <3>2, <3>3
  <2> HIDE DEF e
  <2>5. QED
    BY <2>1, <2>2, <2>3, <2>4 DEF Totals
<1>15. SumOf([p \in DOMAIN q |-> Len(q[p])]) = n
  <2>1. [p \in DOMAIN q |-> Len(q[p])] = Lens(q)
    BY DEF Lens
  <2>2. Lens(q) \in Seq(Nat) /\ Len(Lens(q)) = c
    BY <1>11, LensAre
  <2>3. SumOf(Lens(q)) = e[Len(Lens(q))]
    <3> HIDE DEF e
    <3>1. QED
      BY <1>14, <2>2, SumIs
  <2>4. e[c] = n
    <3>1. e0(c) = n
      <4> DEFINE x == M(c)
      <4>1. x \in Nat /\ n <= x
        BY <1>5, <1>8
      <4>2. e0(c) \in Nat /\ e0(c) <= n /\ (e0(c) = x \/ e0(c) = n)
        BY <1>9
      <4> HIDE DEF x
      <4>3. QED
        BY <1>2, <4>1, <4>2
    <3>2. c \in 0 .. c
      OBVIOUS
    <3>3. QED
      BY <3>1, <3>2
  <2>5. QED
    BY <2>1, <2>2, <2>3, <2>4
<1>16. ASSUME NEW p \in DOMAIN q, NEW x \in ToSet(q[p])
       PROVE  x \in ToSet(all)
  <2> DEFINE s == M(p - 1)
             l == e0(p) - s
  <2>1. p \in 1 .. c
    BY <1>11
  <2>2. IsPart(q[p], S, all, s, l) /\ s \in Nat /\ l \in Nat /\ s + l = e0(p) /\ e0(p) <= n
    <3>1. /\ IsPart(q[p], S, all, M(p - 1), e0(p) - M(p - 1))
          /\ M(p - 1) \in Nat /\ e0(p) - M(p - 1) \in Nat /\ e0(p) \in Nat /\ e0(p) <= n
      BY <1>10, <2>1
    <3>2. IsPart(q[p], S, all, s, l) /\ s \in Nat /\ l \in Nat /\ e0(p) \in Nat /\ e0(p) <= n
      BY <3>1
    <3> HIDE DEF s
    <3>3. s + l = e0(p)
      BY <3>2
    <3>4. QED
      BY <3>2, <3>3
  <2> HIDE DEF s, l
  <2>3. PICK j \in 1 .. l : x = all[s + j]
    <3>1. q[p] \in Seq(S) /\ Len(q[p]) = l /\ \A j \in 1 .. l : q[p][j] = all[s + j]
      BY <2>2 DEF IsPart
    <3>2. DOMAIN q[p] = 1 .. l
      BY <3>1
    <3>3. PICK j \in DOMAIN q[p] : x = q[p][j]
      BY <1>16 DEF ToSet
    <3>4. QED
      BY <3>1, <3>2, <3>3
  <2>4. s + j \in 1 .. n
    BY <1>2, <2>2
  <2>5. QED
    BY <1>2, <2>3, <2>4 DEF ToSet
<1>17. ASSUME NEW x \in ToSet(all)
       PROVE  \E p \in DOMAIN q : x \in ToSet(q[p])
  <2>1. PICK m \in 1 .. n : x = all[m]
    BY <1>2 DEF ToSet
  <2> DEFINE T == {k \in Nat : m <= M(k)}
             p == Least(T)
             s == M(p - 1)
             l == e0(p) - s
             j == m - s
  <2>2. T \subseteq Nat /\ m \in T
    <3>1. m \in Nat
      BY <1>2
    <3>2. m <= M(m)
      BY <1>5, <3>1
    <3>3. QED
      BY <3>1, <3>2
  <2>3. p \in T /\ \A k \in T : p <= k
    BY <2>2, LeastElement
  <2>4. p \in Nat /\ m <= M(p)
    BY <2>3
  <2> HIDE DEF p
  <2>5. p # 0 /\ p >= 1 /\ p - 1 \in Nat
    BY <1>8, <2>1, <2>4
  <2>6. s \in Nat /\ s < m
    <3>1. p - 1 \notin T
      BY <2>3, <2>4, <2>5
    <3>2. M(p - 1) \in Nat
      BY <1>5, <2>5
    <3>3. ~ (m <= M(p - 1))
      BY <2>5, <3>1
    <3>4. m \in Nat
      BY <1>2
    <3> HIDE DEF T
    <3>5. s \in Nat /\ ~ (m <= s)
      BY <3>2, <3>3
    <3> HIDE DEF s
    <3>6. QED
      BY <3>4, <3>5
  <2> HIDE DEF T
  <2>7. p \in 1 .. c
    <3>1. s < n
      BY <1>2, <2>6
    <3>2. QED
      BY <1>7, <2>4, <2>5, <3>1
  <2>8. /\ IsPart(q[p], S, all, s, l) /\ s \in Nat /\ l \in Nat /\ e0(p) \in Nat
    BY <1>10, <2>7
  <2>9. e0(p) = M(p) \/ e0(p) = n
    BY <1>9, <2>4
  <2>10. m <= e0(p)
    BY <2>1, <2>4, <2>9, <1>2
  <2> HIDE DEF s
  <2>11. j \in 1 .. l /\ s + j = m
    BY <1>2, <2>6, <2>8, <2>10
  <2> HIDE DEF j, l
  <2>12. q[p][j] = x /\ q[p] \in Seq(S) /\ Len(q[p]) = l
    BY <2>1, <2>8, <2>11 DEF IsPart
  <2>13. x \in ToSet(q[p])
    BY <2>11, <2>12 DEF ToSet
  <2>14. QED
    BY <1>11, <2>7, <2>13
<1>18. UNION {ToSet(q[p]) : p \in DOMAIN q} = ToSet(all)
  BY <1>16, <1>17
<1>19. QED
  BY <1>13, <1>15, <1>18 DEF q, all, n, H

LEMMA SignaturesLemma ==
  ASSUME IInv
  PROVE  SignaturesLocate
<1>1. HistoryInv /\ files \in Seq(Seq(Bytes)) /\ manifests \in Seq(Seq(ManifestRows))
      /\ Len(manifests) <= Len(files) /\ Len(manifests) \in Nat /\ Len(files) \in Nat
  BY DEF IInv, HistoryInv
<1>2. ASSUME NEW v \in DOMAIN manifests, Len(files[v]) < Modulus, NEW r \in ToSet(manifests[v])
      PROVE  /\ r.offset + r.length <= Len(files[v])
             /\ Slice(files[v], r.offset, r.offset + r.length) = r.strong
  <2> DEFINE d == files[v]
             m == manifests[v]
  <2>1. v \in 1 .. Len(manifests)
    BY <1>1
  <2>2. PICK e : Tiles(m, d, e)
    BY <1>1, <2>1 DEF HistoryInv, StoredAs
  <2> HIDE DEF d, m
  <2>3. PICK k \in DOMAIN m : r = m[k]
    BY <1>2 DEF ToSet, m
  <2>4. k \in 1 .. Len(m)
    BY <2>2, <2>3 DEF Tiles
  <2>5. Describes(r, d, e[k - 1], e[k])
    BY <2>2, <2>3, <2>4 DEF Tiles
  <2>6. /\ e[k] = e[k - 1] + r.length /\ e[k] <= Len(d)
        /\ r.strong = Slice(d, e[k - 1], e[k]) /\ r.offset = e[k - 1]
    BY <1>2, <2>5 DEF Describes, d
  <2>7. QED
    BY <2>6 DEF d
<1>3. ASSUME Previous
      PROVE  LET pages == HashPages(Signatures)
                 hashes == {r.strong : r \in ToSet(Signatures)}
             IN  /\ UNION {ToSet(pages[p]) : p \in DOMAIN pages} = hashes
                 /\ SumOf([p \in DOMAIN pages |-> Len(pages[p])]) = Cardinality(hashes)
                 /\ \A p \in DOMAIN pages : Len(pages[p]) <= HashPage
  <2> DEFINE rs == Signatures
             hashes == {r.strong : r \in ToSet(rs)}
             u == UniqueHashes(rs)
             n == Len(u)
  <2>1. rs \in Seq(ManifestRows)
    <3>1. Len(manifests) \in 1 .. Len(manifests)
      BY <1>1, <1>3 DEF Previous
    <3>2. QED
      BY <1>1, <3>1 DEF Signatures, Last
  <2> HIDE DEF rs
  <2>2. Collects(u, rs, Len(rs))
    BY <2>1, UniqueIs
  <2> HIDE DEF u
  <2>3. u \in Seq(Seq(Bytes))
    BY <2>2 DEF Collects
  <2>4. n \in Nat /\ DOMAIN u = 1 .. n
    <3> DEFINE S == Seq(Bytes)
    <3>1. u \in Seq(S)
      BY <2>3
    <3> HIDE DEF S
    <3>2. QED
      BY <3>1
  <2>5. \A x : (\E a \in 1 .. n : u[a] = x) <=> (\E k \in 1 .. Len(rs) : rs[k].strong = x)
    BY <2>2 DEF Collects
  <2>6. \A x : x \in hashes <=> \E k \in 1 .. Len(rs) : rs[k].strong = x
    BY <2>1 DEF ToSet
  <2>7. ToSet(u) = hashes
    <3>1. \A x : x \in ToSet(u) <=> \E a \in 1 .. n : u[a] = x
      BY <2>4 DEF ToSet
    <3> HIDE DEF hashes, n
    <3>2. \A x : x \in ToSet(u) <=> x \in hashes
      BY <2>5, <2>6, <3>1
    <3>3. QED
      BY <3>2
  <2>8. Cardinality(hashes) = n
    <3>1. \A a \in 1 .. n, b \in 1 .. n : u[a] = u[b] => a = b
      BY <2>2 DEF Collects
    <3> DEFINE f == [a \in 1 .. n |-> u[a]]
    <3>2. \A a \in 1 .. n : f[a] = u[a] /\ f[a] \in hashes
      BY <2>4, <2>7 DEF ToSet
    <3>3. \A x \in hashes : \E a \in 1 .. n : f[a] = x
      BY <2>5, <2>6, <3>2
    <3>4. f \in [1 .. n -> hashes] /\ \A a, b \in 1 .. n : f[a] = f[b] => a = b
      BY <3>1, <3>2
    <3> HIDE DEF hashes, n, f
    <3>5. f \in Bijection(1 .. n, hashes)
      BY <3>3, <3>4 DEF Bijection, Injection, Surjection, IsInjective
    <3>6. IsFiniteSet(1 .. n) /\ Cardinality(1 .. n) = n
      <4>1. 1 \in Int /\ n \in Int
        BY <2>4
      <4>2. IsFiniteSet(1 .. n) /\ Cardinality(1 .. n) = IF 1 > n THEN 0 ELSE n - 1 + 1
        BY <4>1, FS_Interval
      <4>3. (IF 1 > n THEN 0 ELSE n - 1 + 1) = n
        BY <2>4
      <4>4. QED
        BY <4>2, <4>3
    <3>7. ExistsBijection(1 .. n, hashes)
      BY <3>5 DEF ExistsBijection
    <3>8. QED
      BY <3>6, <3>7, FS_Bijection
  <2>9. /\ \A p \in DOMAIN HashPages(rs) : Len(HashPages(rs)[p]) <= HashPage
        /\ UNION {ToSet(HashPages(rs)[p]) : p \in DOMAIN HashPages(rs)} = ToSet(u)
        /\ SumOf([p \in DOMAIN HashPages(rs) |-> Len(HashPages(rs)[p])]) = n
    BY <2>3, PagesAre DEF u
  <2>10. QED
    BY <2>7, <2>8, <2>9 DEF rs
<1>4. QED
  BY <1>2, <1>3 DEF SignaturesLocate

(* SignaturesLocate: after any number of transfers by any routes, each row  *)
(* of a manifest locates its chunk in the file by offset and length as long *)
(* as the file fits the offset's field, and the pages the verification goes *)
(* through hold each hash of the manifest once, for pages of any size.      *)
THEOREM SignaturesCorrect == Spec => []SignaturesLocate
<1>1. IInv => SignaturesLocate
  BY SignaturesLemma
<1>2. QED
  BY <1>1, TransfersDescribe, PTL


(* d behind n is what f is behind m.                                        *)
SameTail(d, n, f, m) ==
  /\ d \in Seq(Bytes) /\ f \in Seq(Bytes) /\ n \in Nat /\ m \in Nat
  /\ n <= Len(d) /\ m <= Len(f) /\ Len(d) - n = Len(f) - m
  /\ \A j \in 1 .. Len(d) - n : d[n + j] = f[m + j]

LEMMA TailSlices ==
  ASSUME NEW d, NEW n, NEW f, NEW m, SameTail(d, n, f, m), NEW l \in Nat, n + l <= Len(d)
  PROVE  Slice(d, n, n + l) = Slice(f, m, m + l)
<1> DEFINE a == n + l
           b == m + l
           y == Slice(d, n, a)
           z == Slice(f, m, b)
<1>1. /\ d \in Seq(Bytes) /\ f \in Seq(Bytes) /\ n \in Nat /\ m \in Nat
      /\ Len(d) \in Nat /\ Len(f) \in Nat /\ Len(d) - n = Len(f) - m
  BY DEF SameTail
<1>2. a \in Nat /\ b \in Nat /\ a <= Len(d) /\ b <= Len(f) /\ l <= Len(d) - n
  BY <1>1
<1>3. a = n + l /\ b = m + l
  OBVIOUS
<1> HIDE DEF a, b
<1>4. IsPart(y, Bytes, d, n, l)
  BY <1>1, <1>2, <1>3, SliceIsPart
<1>5. IsPart(z, Bytes, f, m, l)
  BY <1>1, <1>2, <1>3, SliceIsPart
<1> HIDE DEF y, z
<1>6. ASSUME NEW j \in 1 .. l PROVE y[j] = z[j]
  <2>1. j \in 1 .. Len(d) - n
    BY <1>1, <1>2
  <2>2. d[n + j] = f[m + j]
    BY <2>1 DEF SameTail
  <2>3. y[j] = d[n + j] /\ z[j] = f[m + j]
    BY <1>4, <1>5 DEF IsPart
  <2>4. QED
    BY <2>2, <2>3
<1>7. y = z
  BY <1>4, <1>5, <1>6 DEF IsPart
<1>8. QED
  BY <1>7 DEF y, z, a, b

(* x is as far behind n as y behind m.                                      *)
SameGap(x, n, y, m) == x - n = y - m

(* The limits of a chunk move with its start.                               *)
LEMMA LesserMoves ==
  ASSUME NEW n \in Nat, NEW m \in Nat, NEW size \in Nat, NEW x \in Nat, NEW y \in Nat, SameGap(x, n, y, m)
  PROVE  SameGap(Least({n + size, x}), n, Least({m + size, y}), m)
<1> DEFINE a == n + size
           b == m + size
           p == Least({a, x})
           q == Least({b, y})
<1>1. a \in Nat /\ b \in Nat /\ a - n = b - m /\ x - n = y - m
  BY DEF SameGap
<1> HIDE DEF a, b
<1>2. p \in Nat /\ p <= a /\ p <= x /\ (p = a \/ p = x)
  BY <1>1, Lesser
<1>3. q \in Nat /\ q <= b /\ q <= y /\ (q = b \/ q = y)
  BY <1>1, Lesser
<1> HIDE DEF p, q
<1>4. p - n = q - m
  BY <1>1, <1>2, <1>3
<1>5. QED
  BY <1>4 DEF p, q, a, b, SameGap

LEMMA LimitsMove ==
  ASSUME NEW d, NEW n \in Nat, NEW f, NEW m \in Nat, Len(d) \in Nat, Len(f) \in Nat,
         SameGap(Len(d), n, Len(f), m)
  PROVE  /\ SameGap(HardMax(d, n), n, HardMax(f, m), m)
         /\ SameGap(MinEnd(d, n), n, MinEnd(f, m), m)
         /\ SameGap(Least({n + 1, Len(d)}), n, Least({m + 1, Len(f)}), m)
<1> DEFINE x == Len(d)
           y == Len(f)
<1>1. x \in Nat /\ y \in Nat /\ SameGap(x, n, y, m) /\ MinSize \in Nat /\ MaxSize \in Nat /\ 1 \in Nat
  BY SizesAssumption
<1> HIDE DEF x, y
<1>2. SameGap(Least({n + MaxSize, x}), n, Least({m + MaxSize, y}), m)
  BY <1>1, LesserMoves
<1>3. SameGap(Least({n + MinSize, x}), n, Least({m + MinSize, y}), m)
  BY <1>1, LesserMoves
<1>4. SameGap(Least({n + 1, x}), n, Least({m + 1, y}), m)
  BY <1>1, LesserMoves
<1>5. QED
  BY <1>2, <1>3, <1>4 DEF HardMax, MinEnd, x, y

(* The hits do, one way and the other.                                      *)
LEMMA HitMoves ==
  ASSUME NEW d, NEW n, NEW f, NEW m, SameTail(d, n, f, m), n < Len(d),
         NEW k \in CutHits(boundary, d, n)
  PROVE  /\ k \in Nat /\ k - n + m \in Nat
         /\ k - n + m \in CutHits(boundary, f, m)
<1> DEFINE l == k - n
           b == m + l
<1>1. /\ d \in Seq(Bytes) /\ f \in Seq(Bytes) /\ n \in Nat /\ m \in Nat
      /\ Len(d) \in Nat /\ Len(f) \in Nat /\ Len(d) - n = Len(f) - m
  BY DEF SameTail
<1>3. HardMax(d, n) - n = HardMax(f, m) - m /\ MinEnd(d, n) - n = MinEnd(f, m) - m
  <2>1. SameGap(Len(d), n, Len(f), m)
    BY <1>1 DEF SameGap
  <2>2. SameGap(HardMax(d, n), n, HardMax(f, m), m) /\ SameGap(MinEnd(d, n), n, MinEnd(f, m), m)
    BY <1>1, <2>1, LimitsMove
  <2>3. QED
    BY <2>2 DEF SameGap
<1>4. m < Len(f)
  BY <1>1
<1>5. /\ HardMax(d, n) \in n .. Len(d) /\ MinEnd(d, n) \in n .. Len(d)
      /\ HardMax(f, m) \in m .. Len(f) /\ MinEnd(f, m) \in m .. Len(f)
  BY <1>1, <1>4, LimitsAre
<1>6. k \in MinEnd(d, n) + 1 .. HardMax(d, n) /\ Slice(d, n, k) \in boundary
  BY DEF CutHits
<1> DEFINE h == HardMax(d, n)
           g == MinEnd(d, n)
           h2 == HardMax(f, m)
           g2 == MinEnd(f, m)
<1>7. /\ h \in n .. Len(d) /\ g \in n .. Len(d) /\ h2 \in m .. Len(f) /\ g2 \in m .. Len(f)
      /\ h - n = h2 - m /\ g - n = g2 - m /\ k \in g + 1 .. h
  BY <1>3, <1>5, <1>6
<1> HIDE DEF h, g, h2, g2
<1>8. /\ l \in Nat /\ k = n + l /\ n + l <= Len(d) /\ b \in g2 + 1 .. h2 /\ b = k - n + m
      /\ k \in Nat /\ b \in Nat
  BY <1>1, <1>7
<1> HIDE DEF l
<1>9. Slice(d, n, n + l) = Slice(f, m, m + l)
  BY <1>8, TailSlices
<1>10. Slice(f, m, b) \in boundary
  BY <1>6, <1>8, <1>9
<1>11. b \in CutHits(boundary, f, m)
  BY <1>8, <1>10 DEF CutHits, g2, h2
<1>12. QED
  BY <1>8, <1>11

LEMMA TailsTurn ==
  ASSUME NEW d, NEW n, NEW f, NEW m, SameTail(d, n, f, m)
  PROVE  SameTail(f, m, d, n)
BY DEF SameTail

(* And so the cut: it depends on nothing in front of the chunk.             *)
LEMMA CutMoves ==
  ASSUME NEW d, NEW n, NEW f, NEW m, SameTail(d, n, f, m), n < Len(d)
  PROVE  CutOf(boundary, d, n) - n = CutOf(boundary, f, m) - m
<1> DEFINE h == HardMax(d, n)
           h2 == HardMax(f, m)
           H == CutHits(boundary, d, n)
           H2 == CutHits(boundary, f, m)
           c == IF H = {} THEN h ELSE Least(H)
           c2 == IF H2 = {} THEN h2 ELSE Least(H2)
           o == Least({n + 1, Len(d)})
           o2 == Least({m + 1, Len(f)})
<1>1. /\ d \in Seq(Bytes) /\ f \in Seq(Bytes) /\ n \in Nat /\ m \in Nat
      /\ Len(d) \in Nat /\ Len(f) \in Nat /\ Len(d) - n = Len(f) - m
  BY DEF SameTail
<1>3. m < Len(f)
  BY <1>1
<1>4. h - n = h2 - m /\ o - n = o2 - m
  <2>1. SameGap(Len(d), n, Len(f), m)
    BY <1>1 DEF SameGap
  <2>2. SameGap(h, n, h2, m) /\ SameGap(o, n, o2, m)
    BY <1>1, <2>1, LimitsMove
  <2>3. QED
    BY <2>2 DEF SameGap
<1>5. h \in Nat /\ h2 \in Nat
  <2>1. h \in n .. Len(d) /\ h2 \in m .. Len(f)
    BY <1>1, <1>3, LimitsAre
  <2> HIDE DEF h, h2
  <2>2. QED
    BY <1>1, <2>1
<1>6. \A k \in H : k \in Nat /\ k - n + m \in Nat /\ k - n + m \in H2
  BY <1>1, HitMoves
<1>7. \A k \in H2 : k \in Nat /\ k - m + n \in Nat /\ k - m + n \in H
  BY <1>1, <1>3, TailsTurn, HitMoves
<1> HIDE DEF h, h2, H, H2
<1>8. c - n = c2 - m /\ c \in Nat /\ c2 \in Nat
  <2>1. CASE H = {}
    <3>1. H2 = {}
      BY <1>7, <2>1
    <3>2. QED
      BY <1>4, <1>5, <2>1, <3>1
  <2>2. CASE H # {}
    <3>1. H2 # {} /\ H \subseteq Nat /\ H2 \subseteq Nat
      BY <1>6, <1>7, <2>2
    <3> DEFINE x == Least(H)
               y == Least(H2)
    <3>2. x \in H /\ \A k \in H : x <= k
      BY <2>2, <3>1, LeastElement
    <3>3. y \in H2 /\ \A k \in H2 : y <= k
      BY <3>1, LeastElement
    <3>4. c = x /\ c2 = y
      BY <2>2, <3>1
    <3> HIDE DEF x, y, c, c2
    <3>5. x \in Nat /\ y \in Nat /\ y <= x - n + m /\ x <= y - m + n
      BY <1>6, <1>7, <3>2, <3>3
    <3>6. QED
      BY <1>1, <3>4, <3>5
  <2>3. QED
    BY <2>1, <2>2
<1> DEFINE r == IF c <= n THEN o ELSE c
           r2 == IF c2 <= m THEN o2 ELSE c2
<1>9. CutOf(boundary, d, n) = r /\ CutOf(boundary, f, m) = r2
  BY DEF CutOf, h, h2, H, H2
<1> HIDE DEF c, c2, o, o2
<1>10. c <= n <=> c2 <= m
  BY <1>1, <1>8
<1>11. r - n = r2 - m
  BY <1>4, <1>8, <1>10
<1>12. QED
  BY <1>9, <1>11

(* The marks of all chunks of a file.                                       *)
Marking(cuts, c, n, d) ==
  /\ n \in Nat /\ c \in [0 .. n -> Nat] /\ c[0] = 0 /\ c[n] = Len(d)
  /\ Cutting(cuts, c, n, d)

LEMMA MarksGrow ==
  ASSUME NEW d \in Seq(Bytes), NEW c, NEW n, Marking(boundary, c, n, d),
         NEW k \in 0 .. n, NEW p \in 0 .. n, c[k] >= c[p]
  PROVE  k >= p
<1> DEFINE T == {j \in Nat : k + j <= n => c[k] + j <= c[k + j]}
<1>1. n \in Nat /\ \A m \in 0 .. n : c[m] \in Nat
  BY DEF Marking
<1>2. \A m \in 1 .. n : c[m - 1] < c[m]
  <2> SUFFICES ASSUME NEW m \in 1 .. n PROVE c[m - 1] < c[m]
    OBVIOUS
  <2> DEFINE s == c[m - 1]
  <2>1. m - 1 \in 0 .. n
    BY <1>1
  <2>2. s \in Nat /\ s < Len(d) /\ c[m] = CutOf(boundary, d, s)
    BY <1>1, <2>1 DEF Marking, Cutting
  <2> HIDE DEF s
  <2>3. Len(d) \in Nat
    OBVIOUS
  <2>4. s < CutOf(boundary, d, s)
    BY <2>2, <2>3, CutBounds
  <2>5. QED
    BY <2>2, <2>4 DEF s
<1>3. 0 \in T
  BY <1>1
<1>4. ASSUME NEW j \in Nat, j \in T PROVE j + 1 \in T
  <2> SUFFICES ASSUME k + (j + 1) <= n PROVE c[k] + (j + 1) <= c[k + (j + 1)]
    OBVIOUS
  <2> DEFINE a == k + (j + 1)
             b == k + j
  <2>1. a \in 1 .. n /\ a - 1 = b /\ b \in 0 .. n /\ a \in 0 .. n /\ b <= n
    BY <1>1
  <2>2. c[k] + j <= c[b]
    BY <1>4, <2>1
  <2> HIDE DEF a, b
  <2>3. c[b] < c[a] /\ c[a] \in Nat /\ c[b] \in Nat /\ c[k] \in Nat
    BY <1>1, <1>2, <2>1
  <2>4. c[k] + (j + 1) <= c[a]
    BY <2>2, <2>3
  <2>5. QED
    BY <2>4 DEF a
<1>5. \A j \in Nat : j \in T
  <2> HIDE DEF T
  <2>1. QED
    BY <1>3, <1>4, SetInduction
<1>6. ASSUME ~ (k >= p) PROVE FALSE
  <2> DEFINE j == p - k
  <2>1. j \in Nat /\ j >= 1 /\ k + j = p /\ k + j <= n
    BY <1>1, <1>6
  <2>2. j \in T
    BY <1>5, <2>1
  <2>3. c[k] + j <= c[p]
    BY <2>1, <2>2
  <2>4. c[k] \in Nat /\ c[p] \in Nat
    BY <1>1
  <2> HIDE DEF j
  <2>5. QED
    BY <2>1, <2>3, <2>4
<1>7. QED
  BY <1>6


(* From a common cut on, each cut of d is one of f.                         *)
LEMMA Realign ==
  ASSUME NEW d, NEW c, NEW n, Marking(boundary, c, n, d),
         NEW f, NEW e, NEW l, Marking(boundary, e, l, f),
         NEW p \in 0 .. n, NEW q \in 0 .. l, SameTail(d, c[p], f, e[q]),
         NEW k \in 0 .. n, c[k] >= c[p]
  PROVE  \E j \in 0 .. l : e[j] = c[k] - c[p] + e[q] /\ e[j] >= e[q]
<1> DEFINE T == {j \in Nat : p + j <= n => q + j <= l /\ e[q + j] - e[q] = c[p + j] - c[p]}
           s == c[p]
           t == e[q]
<1>1. /\ n \in Nat /\ (\A m \in 0 .. n : c[m] \in Nat) /\ c[n] = Len(d)
      /\ l \in Nat /\ (\A m \in 0 .. l : e[m] \in Nat) /\ e[l] = Len(f)
  BY DEF Marking
<1>2. /\ d \in Seq(Bytes) /\ f \in Seq(Bytes) /\ s \in Nat /\ t \in Nat
      /\ Len(d) \in Nat /\ Len(f) \in Nat /\ Len(d) - s = Len(f) - t
      /\ \A j \in 1 .. Len(d) - s : d[s + j] = f[t + j]
  BY DEF SameTail
<1>3. /\ \A m \in 1 .. n : c[m - 1] < Len(d) /\ c[m] = CutOf(boundary, d, c[m - 1])
      /\ \A m \in 1 .. l : e[m] = CutOf(boundary, f, e[m - 1])
  BY DEF Marking, Cutting
<1>4. k >= p
  BY <1>2, MarksGrow
<1>5. 0 \in T
  BY <1>1, <1>2
<1>6. ASSUME NEW j \in Nat, j \in T PROVE j + 1 \in T
  <2> SUFFICES ASSUME p + (j + 1) <= n
               PROVE  q + (j + 1) <= l /\ e[q + (j + 1)] - t = c[p + (j + 1)] - s
    OBVIOUS
  <2> DEFINE a == p + (j + 1)
             b == p + j
             g == q + (j + 1)
             h == q + j
             x == c[b]
             y == e[h]
  <2>1. a \in 1 .. n /\ a - 1 = b /\ b \in 0 .. n /\ b <= n /\ a \in Nat
    BY <1>1
  <2>2. h <= l /\ y - t = x - s /\ h \in 0 .. l
    BY <1>1, <1>6, <2>1
  <2>3. x \in Nat /\ y \in Nat
    BY <1>1, <2>1, <2>2
  <2>4. x < Len(d) /\ c[a] = CutOf(boundary, d, x)
    BY <1>3, <2>1
  <2>5. g \in Nat /\ h \in Nat /\ g = h + 1 /\ g - 1 = h
    BY <1>1
  <2> HIDE DEF a, b, g, h
  <2>6. x >= s
    <3>1. \A m \in 0 .. n : c[m] >= x => m >= b
      BY <1>2, <2>1, MarksGrow
    <3>2. CASE b = p
      BY <1>2, <2>3, <3>2
    <3>3. CASE b # p
      <4>1. ~ (p >= b) /\ p \in 0 .. n
        BY <3>3 DEF b
      <4>2. ~ (c[p] >= x)
        BY <3>1, <4>1
      <4>3. s \in Nat /\ ~ (s >= x)
        BY <1>2, <4>2
      <4> HIDE DEF s, x
      <4>4. QED
        BY <2>3, <4>3
    <3>4. QED
      BY <3>2, <3>3
  <2> HIDE DEF x, y, s, t
  <2>7. y < Len(f) /\ Len(d) - x = Len(f) - y /\ y >= t
    BY <1>2, <2>2, <2>3, <2>4, <2>6
  <2>8. h # l
    BY <1>1, <2>3, <2>7, <1>2 DEF y
  <2>9. g \in 1 .. l
    BY <1>1, <2>2, <2>5, <2>8
  <2>10. e[g] = CutOf(boundary, f, y)
    BY <1>3, <2>5, <2>9 DEF y
  <2>11. SameTail(d, x, f, y)
    <3>1. ASSUME NEW m \in 1 .. Len(d) - x PROVE d[x + m] = f[y + m]
      <4> DEFINE o == x - s + m
      <4>1. o \in 1 .. Len(d) - s /\ s + o = x + m /\ t + o = y + m
        BY <1>2, <2>2, <2>3, <2>4, <2>6
      <4> HIDE DEF o
      <4>2. d[s + o] = f[t + o]
        BY <1>2, <4>1
      <4>3. QED
        BY <4>1, <4>2
    <3>2. /\ d \in Seq(Bytes) /\ f \in Seq(Bytes) /\ x <= Len(d) /\ y <= Len(f)
          /\ Len(d) \in Nat /\ Len(f) \in Nat
      BY <1>2, <2>3, <2>4, <2>7
    <3>3. Len(d) - x = Len(f) - y
      BY <2>7
    <3>4. QED
      BY <2>3, <3>1, <3>2, <3>3 DEF SameTail
  <2>12. CutOf(boundary, d, x) - x = CutOf(boundary, f, y) - y
    BY <2>4, <2>11, CutMoves
  <2>13. CutOf(boundary, d, x) \in Nat /\ CutOf(boundary, f, y) \in Nat
    BY <1>2, <2>3, <2>4, <2>7, CutBounds
  <2>14. e[g] - t = c[a] - s
    <3> DEFINE X == c[a]
               Y == e[g]
    <3>1. X - x = Y - y /\ X \in Nat /\ Y \in Nat
      BY <2>4, <2>10, <2>12, <2>13
    <3>2. s \in Nat /\ t \in Nat /\ y - t = x - s
      BY <1>2, <2>2
    <3> HIDE DEF X, Y
    <3>3. Y - t = X - s
      BY <2>3, <3>1, <3>2
    <3>4. QED
      BY <3>3 DEF X, Y
  <2>15. QED
    BY <1>1, <2>9, <2>14 DEF a, g
<1>7. \A j \in Nat : j \in T
  <2> HIDE DEF T
  <2>1. QED
    BY <1>5, <1>6, SetInduction
<1> DEFINE j == k - p
<1>8. j \in Nat /\ p + j = k /\ p + j <= n
  BY <1>1, <1>4
<1>9. j \in T
  BY <1>7, <1>8
<1>10. q + j <= l /\ e[q + j] - t = c[k] - s
  BY <1>8, <1>9
<1> DEFINE g == q + j
<1>11. g \in 0 .. l
  BY <1>1, <1>8, <1>10
<1> HIDE DEF j, T
<1>12. e[g] \in Nat /\ c[k] \in Nat /\ e[g] - t = c[k] - s /\ c[k] >= s
  BY <1>1, <1>10, <1>11
<1> HIDE DEF s, t, g
<1>13. e[g] = c[k] - s + t /\ e[g] >= t
  <2>1. s \in Nat /\ t \in Nat
    BY <1>2
  <2>2. QED
    BY <1>12, <2>1
<1>14. QED
  BY <1>11, <1>13 DEF s, t

LEMMA SuffixIs ==
  ASSUME NEW A, NEW x \in Seq(A), NEW y \in Seq(A), IsSuffix(x, y)
  PROVE  Len(x) <= Len(y) /\ \A j \in 1 .. Len(x) : x[j] = y[Len(y) - Len(x) + j]
<1> DEFINE n == Len(x)
           o == Len(y)
           r == Reverse(x)
           s == Reverse(y)
<1>1. n \in Nat /\ o \in Nat /\ DOMAIN x = 1 .. n /\ DOMAIN y = 1 .. o
  OBVIOUS
<1> HIDE DEF n, o
<1>2. r = [m \in 1 .. n |-> x[n - m + 1]] /\ s = [m \in 1 .. o |-> y[o - m + 1]]
  BY DEF Reverse, n, o
<1>3. /\ \A m \in 1 .. n : n - m + 1 \in 1 .. n /\ x[n - m + 1] \in A
      /\ \A m \in 1 .. o : o - m + 1 \in 1 .. o /\ y[o - m + 1] \in A
  <2>1. \A m \in 1 .. n : n - m + 1 \in 1 .. n
    BY <1>1
  <2>2. \A m \in 1 .. o : o - m + 1 \in 1 .. o
    BY <1>1
  <2>3. (\A m \in 1 .. n : x[m] \in A) /\ (\A m \in 1 .. o : y[m] \in A)
    BY DEF n, o
  <2>4. QED
    BY <2>1, <2>2, <2>3
<1> HIDE DEF r, s
<1>4. r \in [1 .. n -> A] /\ s \in [1 .. o -> A]
  BY <1>2, <1>3
<1>5. r \in Seq(A) /\ Len(r) = n /\ s \in Seq(A) /\ Len(s) = o
  BY <1>1, <1>4
<1>6. n <= o /\ SubSeq(r, 1, n) = SubSeq(s, 1, n)
  BY <1>5 DEF IsSuffix, IsPrefix, r, s
<1>7. ASSUME NEW j \in 1 .. n PROVE x[j] = y[o - n + j]
  <2> DEFINE m == n - j + 1
  <2>1. m \in 1 .. n /\ n - m + 1 = j /\ m \in 1 .. o /\ o - m + 1 = o - n + j
    BY <1>1, <1>6
  <2> HIDE DEF m
  <2>2. SubSeq(r, 1, n)[m] = r[m]
    BY <1>1, <1>5, <2>1
  <2>3. SubSeq(s, 1, n)[m] = s[m]
    BY <1>1, <1>5, <1>6, <2>1
  <2>4. r[m] = x[n - m + 1] /\ s[m] = y[o - m + 1]
    BY <1>2, <2>1
  <2>5. QED
    BY <1>6, <2>1, <2>2, <2>3, <2>4
<1>8. QED
  BY <1>6, <1>7 DEF n, o

(* The ends of a manifest are its marks.                                    *)
LEMMA EndsAre ==
  ASSUME NEW rs, NEW d, NEW e, Tiles(rs, d, e)
  PROVE  EndsOf(rs) = {e[k] : k \in 0 .. Len(rs)}
<1> DEFINE n == Len(rs)
<1>1. rs \in Seq(ManifestRows) /\ e \in [0 .. n -> Nat] /\ e[0] = 0
  BY DEF Tiles
<1>2. n \in Nat
  BY <1>1
<1>3. ASSUME NEW k \in 0 .. n PROVE SumOf(Lengths(SubSeq(rs, 1, k))) = e[k]
  <2> DEFINE t == SubSeq(rs, 1, k)
             f == [m \in 0 .. k |-> e[m]]
  <2>1. k \in Nat /\ k <= n
    BY <1>2
  <2>2. t \in Seq(ManifestRows) /\ Len(t) = k /\ \A m \in 1 .. k : t[m] = rs[m]
    BY <1>1, <2>1
  <2>3. f \in [0 .. k -> Nat] /\ f[0] = 0 /\ \A m \in 0 .. k : f[m] = e[m]
    BY <1>1, <2>1
  <2> HIDE DEF t, f
  <2>4. ASSUME NEW m \in 1 .. k PROVE Describes(t[m], d, f[m - 1], f[m])
    <3>1. m \in 1 .. n /\ m \in 0 .. k /\ m - 1 \in 0 .. k
      BY <1>2, <2>1
    <3>2. Describes(rs[m], d, e[m - 1], e[m])
      BY <3>1 DEF Tiles
    <3>3. QED
      BY <2>2, <2>3, <3>1, <3>2
  <2>5. Tiles(t, d, f)
    BY <2>2, <2>3, <2>4 DEF Tiles
  <2>6. SumOf(Lengths(t)) = f[k]
    BY <2>2, <2>5, TilesAddUp
  <2>7. QED
    BY <2>1, <2>3, <2>6 DEF t
<1>4. EndsOf(rs) = {SumOf(Lengths(SubSeq(rs, 1, k))) : k \in 0 .. n}
  BY DEF EndsOf
<1>5. QED
  BY <1>3, <1>4

LEMMA RealignLemma ==
  ASSUME IInv
  PROVE  CutsRealign
<1> SUFFICES ASSUME phase = "chunk", Previous, LastEnd = Len(File), routes[Len(files) - 1] = "push",
                    NEW n \in ToSet(ends) \cup {0},
                    n - (Len(File) - Len(files[Len(files) - 1])) \in EndsOf(Signatures),
                    IsSuffix(Slice(File, n, Len(File)), files[Len(files) - 1]),
                    NEW m \in n .. Len(File)
             PROVE  m \in ToSet(ends) \cup {0} <=>
                      m - (Len(File) - Len(files[Len(files) - 1])) \in EndsOf(Signatures)
  BY DEF CutsRealign
<1> DEFINE f == files[Len(files) - 1]
           rs == Signatures
           a == Len(ends)
           l == Len(rs)
           c == Marks(ends)
           v == Len(manifests)
           w == Len(f)
           len == Len(File)
<1>1. HistoryInv /\ BusyInv
  BY DEF IInv
<1>2. /\ File \in Seq(Bytes) /\ len \in Nat /\ Chain(boundary, File, 0, ends) /\ EndOf(ends, 0) = len
      /\ Len(files) = v + 1 /\ v \in Nat /\ Len(files) \in Nat
  BY <1>1, Current
<1>3. v \in 1 .. v /\ v \in 1 .. Len(files) /\ Len(files) - 1 = v
  BY <1>1, <1>2 DEF Previous, HistoryInv
<1>4. f = files[v] /\ rs = manifests[v] /\ routes[v] = "push"
  BY <1>3 DEF Signatures, Last
<1>5. f \in Seq(Bytes) /\ w \in Nat
  <2>1. files \in Seq(Seq(Bytes))
    BY <1>1 DEF HistoryInv
  <2>2. files[v] \in Seq(Bytes)
    BY <1>3, <2>1
  <2>3. QED
    BY <1>4, <2>2
<1>6. StoredAs(boundary, rs, f, "push")
  BY <1>1, <1>3, <1>4 DEF HistoryInv
<1> HIDE DEF rs, f
<1>7. PICK e : Tiles(rs, f, e) /\ e[l] = w /\ Cutting(boundary, e, l, f)
  BY <1>6 DEF StoredAs
<1>8. l \in Nat /\ e \in [0 .. l -> Nat] /\ e[0] = 0
  <2>1. rs \in Seq(ManifestRows) /\ e \in [0 .. l -> Nat] /\ e[0] = 0
    BY <1>7 DEF Tiles
  <2>2. QED
    BY <2>1
<1>9. Marking(boundary, e, l, f)
  BY <1>7, <1>8 DEF Marking
<1>10. ends \in Seq(Nat) /\ a \in Nat /\ DOMAIN ends = 1 .. a
  BY <1>2 DEF Chain
<1>11. /\ c \in [0 .. a -> Nat] /\ c[0] = 0 /\ \A k \in 1 .. a : c[k] = ends[k]
  BY <1>10 DEF Marks
<1>12. c[a] = len
  BY <1>2, <1>10, <1>11 DEF EndOf
<1>13. Cutting(boundary, c, a, File)
  BY <1>2, PiecesAre DEF Cutting
<1> HIDE DEF c, a
<1>14. Marking(boundary, c, a, File)
  BY <1>10, <1>11, <1>12, <1>13 DEF Marking, a
<1>15. a \in Nat
  BY <1>10 DEF a
<1>16. \A x : x \in ToSet(ends) \cup {0} <=> \E k \in 0 .. a : c[k] = x
  <2>1. \A x : x \in ToSet(ends) <=> \E k \in 1 .. a : c[k] = x
    BY <1>10, <1>11 DEF ToSet
  <2>2. \A k : k \in 0 .. a <=> k \in 1 .. a \/ k = 0
    BY <1>15
  <2>3. QED
    BY <1>11, <2>1, <2>2
<1>17. \A x : x \in EndsOf(rs) <=> \E k \in 0 .. l : e[k] = x
  <2>1. EndsOf(rs) = {e[k] : k \in 0 .. l}
    BY <1>7, EndsAre
  <2>2. QED
    BY <2>1
<1>18. PICK p \in 0 .. a : c[p] = n
  BY <1>16
<1>19. PICK q \in 0 .. l : e[q] = n - (len - w)
  BY <1>17 DEF rs, f
<1>20. n \in Nat /\ n <= len /\ e[q] \in Nat
  <2>1. e[q] \in Nat
    BY <1>8, <1>19
  <2>2. n \in Nat
    BY <1>11, <1>18
  <2>3. n <= len
    <3>1. m \in n .. len /\ len \in Nat
      BY <1>2
    <3> HIDE DEF len
    <3>2. QED
      BY <2>2, <3>1
  <2>4. QED
    BY <2>1, <2>2, <2>3
<1>21. SameTail(File, c[p], f, e[q])
  <2> DEFINE t == len - n
             x == Slice(File, n, len)
             u == e[q]
  <2>1. t \in Nat /\ len = n + t /\ len <= Len(File)
    BY <1>2, <1>20
  <2> HIDE DEF t, len
  <2>2. IsPart(x, Bytes, File, n, t)
    BY <1>2, <1>20, <2>1, SliceIsPart
  <2>3. x \in Seq(Bytes) /\ Len(x) = t /\ \A j \in 1 .. t : x[j] = File[n + j]
    BY <2>2 DEF IsPart
  <2>4. IsSuffix(x, f)
    BY DEF len, f
  <2> HIDE DEF x, w
  <2>5. Len(x) <= Len(f) /\ \A j \in 1 .. Len(x) : x[j] = f[Len(f) - Len(x) + j]
    BY <1>5, <2>3, <2>4, SuffixIs
  <2>6. Len(f) = w /\ Len(File) = len
    BY DEF w, len
  <2> HIDE DEF u
  <2>7. u \in Nat /\ u = w - t /\ w \in Nat /\ len \in Nat
    BY <1>2, <1>5, <1>19, <1>20, <2>1 DEF u, t
  <2>8. \A j \in 1 .. t : File[n + j] = f[u + j]
    <3>1. \A j \in 1 .. t : x[j] = f[w - t + j]
      BY <2>3, <2>5, <2>6
    <3>2. \A j \in 1 .. t : w - t + j = u + j
      BY <2>7
    <3>3. QED
      BY <2>3, <3>1, <3>2
  <2>9. u <= Len(f) /\ Len(File) - n = Len(f) - u /\ Len(File) - n = t /\ n <= Len(File)
    BY <1>20, <2>1, <2>6, <2>7
  <2>10. SameTail(File, n, f, u)
    BY <1>2, <1>5, <1>20, <2>7, <2>8, <2>9 DEF SameTail
  <2>11. QED
    BY <1>18, <2>10 DEF u
<1>22. m \in Nat /\ m >= n
  BY <1>20
<1>23. ASSUME m \in ToSet(ends) \cup {0}
       PROVE  m - (len - w) \in EndsOf(rs)
  <2>1. PICK k \in 0 .. a : c[k] = m
    BY <1>16, <1>23
  <2>2. c[k] >= c[p]
    BY <1>18, <1>22, <2>1
  <2>3. PICK j \in 0 .. l : e[j] = c[k] - c[p] + e[q]
    BY <1>9, <1>14, <1>21, <2>2, Realign
  <2>4. e[j] = m - n + e[q]
    BY <1>18, <2>1, <2>3
  <2>5. e[j] = m - (len - w)
    BY <1>2, <1>5, <1>19, <1>20, <1>22, <2>4
  <2>6. QED
    BY <1>17, <2>5
<1>24. ASSUME m - (len - w) \in EndsOf(rs)
       PROVE  m \in ToSet(ends) \cup {0}
  <2>1. PICK k \in 0 .. l : e[k] = m - (len - w)
    BY <1>17, <1>24
  <2>2. e[k] >= e[q]
    BY <1>2, <1>5, <1>19, <1>20, <1>22, <2>1
  <2>3. SameTail(f, e[q], File, c[p])
    BY <1>21, TailsTurn
  <2>4. PICK j \in 0 .. a : c[j] = e[k] - e[q] + c[p]
    BY <1>9, <1>14, <2>2, <2>3, Realign
  <2>5. c[j] = m
    BY <1>2, <1>5, <1>18, <1>19, <1>20, <1>22, <2>1, <2>4
  <2>6. QED
    BY <1>16, <2>5
<1>25. QED
  BY <1>23, <1>24 DEF rs, f

(* CutsRealign: for every pair of versions and every fingerprint, from an   *)
(* end that both have at the same distance from the files' ends, with the   *)
(* same bytes behind it, on, the chunker cuts both versions alike.          *)
THEOREM CutsMeetAgain == Spec => []CutsRealign
<1>1. IInv => CutsRealign
  BY RealignLemma
<1>2. QED
  BY <1>1, TransfersDescribe, PTL

-----------------------------------------------------------------------------
(* The worker pool: the counters are the threads that exist and the slots   *)
(* that throws have cost, and no task waits while a slot is free.           *)

(* No task is queued twice.                                                *)
Distinct(q) == \A pos, j \in 1 .. Len(q) : q[pos] = q[j] => pos = j
Apart(p, q) == ToSet(p) \cap ToSet(q) = {}

PoolTypeOK == /\ fastQueue \in Seq(Tasks) /\ heavyQueue \in Seq(Tasks)
              /\ activeFast \in Nat /\ activeHeavy \in Nat
              /\ slot \in [Tasks -> {"none", "fast", "heavy"}]
              /\ thread \in [Tasks -> {"none", "runs", "ended"}]
              /\ promise \in [Tasks -> {"none", "pending", "resolved", "rejected"}]
              /\ silent \subseteq Tasks /\ lost \in [Types -> Nat] /\ throws \in Nat

(* A queued task waits for its first thread; a thread has a slot, and its  *)
(* task was submitted.                                                     *)
QueuesInv ==
  /\ Distinct(fastQueue) /\ Distinct(heavyQueue) /\ Apart(fastQueue, heavyQueue)
  /\ \A t \in ToSet(fastQueue) \cup ToSet(heavyQueue) : promise[t] = "pending" /\ slot[t] = "none"
  /\ \A t \in Tasks : /\ slot[t] = "none" <=> thread[t] = "none"
                      /\ slot[t] # "none" => promise[t] # "none"

PoolInv == /\ PoolTypeOK /\ QueuesInv
           /\ \A type \in Types : IsFiniteSet(Threads(type))
           /\ CountersCountThreads /\ NoIdleSlot

-----------------------------------------------------------------------------
(* Queues                                                                  *)
LEMMA Elements ==
  ASSUME NEW q \in Seq(Tasks)
  PROVE  /\ \A pos \in 1 .. Len(q) : q[pos] \in ToSet(q)
         /\ \A t \in ToSet(q) : t \in Tasks /\ \E pos \in 1 .. Len(q) : q[pos] = t
         /\ q = <<>> <=> Len(q) = 0
  BY DEF ToSet

(* A queue without duplicates has as many members as places.               *)
LEMMA MembersCount ==
  ASSUME NEW q \in Seq(Tasks), Distinct(q)
  PROVE  IsFiniteSet(ToSet(q)) /\ Cardinality(ToSet(q)) = Len(q)
<1>1. q \in [1 .. Len(q) -> ToSet(q)]
  BY Elements
<1>2. q \in Bijection(1 .. Len(q), ToSet(q))
  BY <1>1, Elements DEF Distinct, Bijection, Injection, Surjection, IsInjective
<1>3. ExistsBijection(1 .. Len(q), ToSet(q)) /\ Len(q) \in Nat
  BY <1>2 DEF ExistsBijection
<1>4. QED
  BY <1>3, FS_CountingElements, FS_NatBijection

LEMMA RestOf ==
  ASSUME NEW q \in Seq(Tasks), NEW n \in 0 .. Len(q)
  PROVE  /\ Rest(q, n) \in Seq(Tasks) /\ Len(Rest(q, n)) = Len(q) - n
         /\ \A pos \in 1 .. Len(q) - n : Rest(q, n)[pos] = q[n + pos]
<1>1. \A pos \in n + 1 .. Len(q) : q[pos] \in Tasks
  OBVIOUS
<1>2. QED
  BY <1>1, SubSeqProperties DEF Rest

LEMMA FirstOf ==
  ASSUME NEW q \in Seq(Tasks), NEW n \in 0 .. Len(q)
  PROVE  /\ First(q, n) \in Seq(Tasks) /\ Len(First(q, n)) = n
         /\ \A pos \in 1 .. n : First(q, n)[pos] = q[pos]
<1>1. \A pos \in 1 .. n : q[pos] \in Tasks
  OBVIOUS
<1>2. QED
  BY <1>1, SubSeqProperties DEF First

(* A queue is cut in two; what was left of a part is cut again.            *)
Parts(q, p, r) == /\ Distinct(p) /\ Distinct(r) /\ Apart(p, r)
                  /\ ToSet(p) \cup ToSet(r) = ToSet(q)
LEMMA CutQueue ==
  ASSUME NEW q \in Seq(Tasks), Distinct(q), NEW n \in 0 .. Len(q)
  PROVE  Parts(q, First(q, n), Rest(q, n))
<1> DEFINE p == First(q, n)
           r == Rest(q, n)
<1>1. /\ p \in Seq(Tasks) /\ Len(p) = n /\ r \in Seq(Tasks) /\ Len(r) = Len(q) - n
      /\ \A pos \in 1 .. n : p[pos] = q[pos]
      /\ \A pos \in 1 .. Len(q) - n : r[pos] = q[n + pos]
  BY FirstOf, RestOf
<1> HIDE DEF p, r
<1>2. Distinct(p) /\ Distinct(r)
  <2>1. \A pos \in 1 .. n : pos \in 1 .. Len(q)
    OBVIOUS
  <2>2. \A pos \in 1 .. Len(q) - n : n + pos \in 1 .. Len(q)
    OBVIOUS
  <2>3. Distinct(p)
    BY <1>1, <2>1 DEF Distinct
  <2>4. ASSUME NEW pos \in 1 .. Len(q) - n, NEW j \in 1 .. Len(q) - n, r[pos] = r[j]
        PROVE  pos = j
    <3>1. q[n + pos] = q[n + j]
      BY <1>1, <2>4
    <3>2. n + pos = n + j
      BY <2>2, <3>1 DEF Distinct
    <3>3. QED
      BY <3>2
  <2>5. QED
    BY <1>1, <2>3, <2>4 DEF Distinct
<1>3. Apart(p, r)
  <2> SUFFICES ASSUME NEW pos \in 1 .. n, NEW j \in 1 .. Len(q) - n PROVE p[pos] # r[j]
    BY <1>1, Elements DEF Apart
  <2>1. pos \in 1 .. Len(q) /\ n + j \in 1 .. Len(q) /\ pos # n + j
    OBVIOUS
  <2>2. QED
    BY <2>1, <1>1 DEF Distinct
<1>4. ToSet(p) \cup ToSet(r) \subseteq ToSet(q)
  <2>1. \A pos \in 1 .. n : p[pos] \in ToSet(q)
    <3>1. \A pos \in 1 .. n : pos \in 1 .. Len(q)
      OBVIOUS
    <3>2. QED
      BY <1>1, <3>1, Elements
  <2>2. \A pos \in 1 .. Len(q) - n : r[pos] \in ToSet(q)
    <3>1. \A pos \in 1 .. Len(q) - n : n + pos \in 1 .. Len(q)
      OBVIOUS
    <3>2. QED
      BY <1>1, <3>1, Elements
  <2>3. QED
    BY <1>1, <2>1, <2>2, Elements, ZenonT(60)
<1>5. ToSet(q) \subseteq ToSet(p) \cup ToSet(r)
  <2> SUFFICES ASSUME NEW pos \in 1 .. Len(q) PROVE q[pos] \in ToSet(p) \cup ToSet(r)
    BY Elements
  <2>1. CASE pos <= n
    <3>1. pos \in 1 .. n
      BY <2>1
    <3>2. p[pos] = q[pos]
      BY <1>1, <3>1
    <3>3. QED
      BY <1>1, <3>1, <3>2, Elements
  <2>2. CASE pos > n
    <3>1. pos - n \in 1 .. Len(q) - n /\ n + (pos - n) = pos
      BY <2>2
    <3>2. r[pos - n] = q[pos]
      BY <1>1, <3>1
    <3>3. QED
      BY <1>1, <3>1, <3>2, Elements
  <2>3. QED
    BY <2>1, <2>2
<1>6. QED
  BY <1>2, <1>3, <1>4, <1>5 DEF Parts, p, r

LEMMA CutAgain ==
  ASSUME NEW q \in Seq(Tasks), NEW n \in 0 .. Len(q), NEW k \in 0 .. Len(q) - n
  PROVE  Rest(q, n + k) = Rest(Rest(q, n), k)
<1> DEFINE r == Rest(q, n)
<1>1. r \in Seq(Tasks) /\ Len(r) = Len(q) - n /\ \A pos \in 1 .. Len(q) - n : r[pos] = q[n + pos]
  BY RestOf
<1> HIDE DEF r
<1>2. /\ Rest(r, k) \in Seq(Tasks) /\ Len(Rest(r, k)) = Len(q) - n - k
      /\ \A pos \in 1 .. Len(q) - n - k : Rest(r, k)[pos] = r[k + pos]
  <2>1. k \in 0 .. Len(r) /\ Len(r) - k = Len(q) - n - k
    BY <1>1
  <2>2. QED
    BY <1>1, <2>1, RestOf
<1>3. n + k \in 0 .. Len(q)
  OBVIOUS
<1>4. /\ Rest(q, n + k) \in Seq(Tasks) /\ Len(Rest(q, n + k)) = Len(q) - (n + k)
      /\ \A pos \in 1 .. Len(q) - (n + k) : Rest(q, n + k)[pos] = q[(n + k) + pos]
  BY <1>3, RestOf
<1>5. Len(q) - (n + k) = Len(q) - n - k
  OBVIOUS
<1>6. ASSUME NEW pos \in 1 .. Len(q) - n - k
      PROVE  Rest(q, n + k)[pos] = Rest(r, k)[pos]
  <2>1. k + pos \in 1 .. Len(q) - n /\ n + (k + pos) = (n + k) + pos
    OBVIOUS
  <2>2. r[k + pos] = q[n + (k + pos)]
    BY <1>1, <2>1
  <2>3. QED
    BY <1>2, <1>4, <1>5, <2>1, <2>2
<1>7. QED
  BY <1>2, <1>4, <1>5, <1>6, SeqEqual DEF r

LEMMA Joined ==
  ASSUME NEW p \in Seq(Tasks), NEW q \in Seq(Tasks), Distinct(p), Distinct(q), Apart(p, q)
  PROVE  /\ p \o q \in Seq(Tasks) /\ Len(p \o q) = Len(p) + Len(q)
         /\ Distinct(p \o q) /\ ToSet(p \o q) = ToSet(p) \cup ToSet(q)
<1> DEFINE s == p \o q
           m == Len(p)
           n == Len(q)
<1>1. /\ s \in Seq(Tasks) /\ Len(s) = m + n
      /\ \A pos \in 1 .. m + n : s[pos] = IF pos <= m THEN p[pos] ELSE q[pos - m]
  BY ConcatProperties
<1>2. m \in Nat /\ n \in Nat
  OBVIOUS
<1> HIDE DEF s
<1>3. \A pos \in 1 .. m : s[pos] = p[pos]
  BY <1>1, <1>2
<1>4. \A j \in 1 .. n : s[m + j] = q[j]
  <2> SUFFICES ASSUME NEW j \in 1 .. n PROVE s[m + j] = q[j]
    OBVIOUS
  <2>1. m + j \in 1 .. m + n /\ ~(m + j <= m) /\ (m + j) - m = j
    BY <1>2
  <2>2. QED
    BY <1>1, <2>1
<1>5. \A pos \in 1 .. m + n : pos \in 1 .. m \/ \E j \in 1 .. n : pos = m + j
  <2> SUFFICES ASSUME NEW pos \in 1 .. m + n, pos \notin 1 .. m
               PROVE  \E j \in 1 .. n : pos = m + j
    OBVIOUS
  <2>1. pos - m \in 1 .. n /\ pos = m + (pos - m)
    BY <1>2
  <2>2. QED
    BY <2>1
<1>6. /\ \A pos, j \in 1 .. m : p[pos] = p[j] => pos = j
      /\ \A pos, j \in 1 .. n : q[pos] = q[j] => pos = j
      /\ \A pos \in 1 .. m, j \in 1 .. n : p[pos] # q[j]
  BY Elements DEF Distinct, Apart
<1>7. Distinct(s)
  <2> SUFFICES ASSUME NEW pos \in 1 .. m + n, NEW j \in 1 .. m + n, s[pos] = s[j] PROVE pos = j
    BY <1>1 DEF Distinct
  <2>1. CASE pos \in 1 .. m /\ j \in 1 .. m
    BY <2>1, <1>3, <1>6
  <2>2. ASSUME NEW k \in 1 .. n, pos = m + k, j \in 1 .. m PROVE FALSE
    BY <2>2, <1>3, <1>4, <1>6
  <2>3. ASSUME NEW k \in 1 .. n, j = m + k, pos \in 1 .. m PROVE FALSE
    BY <2>3, <1>3, <1>4, <1>6
  <2>4. ASSUME NEW k \in 1 .. n, pos = m + k, NEW l \in 1 .. n, j = m + l PROVE pos = j
    BY <2>4, <1>4, <1>6
  <2>5. QED
    BY <1>5, <2>1, <2>2, <2>3, <2>4
<1>8. ToSet(s) = ToSet(p) \cup ToSet(q)
  <2>1. ASSUME NEW pos \in 1 .. m + n PROVE s[pos] \in ToSet(p) \cup ToSet(q)
    <3>1. CASE pos \in 1 .. m
      BY <1>3, <3>1, Elements
    <3>2. ASSUME NEW j \in 1 .. n, pos = m + j PROVE s[pos] \in ToSet(q)
      BY <1>4, <3>2, Elements
    <3>3. QED
      BY <1>5, <3>1, <3>2
  <2>2. \A pos \in 1 .. m : p[pos] \in ToSet(s)
    <3>1. \A pos \in 1 .. m : pos \in 1 .. m + n
      BY <1>2
    <3>2. QED
      BY <1>1, <1>3, <3>1, Elements
  <2>3. \A j \in 1 .. n : q[j] \in ToSet(s)
    <3>1. \A j \in 1 .. n : m + j \in 1 .. m + n
      BY <1>2
    <3>2. QED
      BY <1>1, <1>4, <3>1, Elements
  <2>4. QED
    BY <1>1, <2>1, <2>2, <2>3, Elements, ZenonT(60)
<1>9. QED
  BY <1>1, <1>7, <1>8 DEF s

-----------------------------------------------------------------------------
(* processQueues                                                           *)

(* How many tasks each loop takes.                                         *)
Fit(lf, lh, ff, fh, h, f, h2, f2) ==
  /\ h \in 0 .. lh /\ f \in 0 .. lf /\ h2 \in 0 .. lf - f /\ f2 \in 0 .. lh - h
  /\ h + h2 <= fh /\ f + f2 <= ff
  /\ f + h2 < lf \/ h + f2 < lh => h + h2 = fh /\ f + f2 = ff
LEMMA Amounts ==
  ASSUME NEW lf \in Nat, NEW lh \in Nat, NEW ff \in Nat, NEW fh \in Nat
  PROVE  LET h == Smaller(fh, lh)
             f == Smaller(ff, lf)
             h2 == Smaller(fh - h, lf - f)
             f2 == Smaller(ff - f, lh - h)
         IN  Fit(lf, lh, ff, fh, h, f, h2, f2)
<1> DEFINE h == Smaller(fh, lh)
           f == Smaller(ff, lf)
           h2 == Smaller(fh - h, lf - f)
           f2 == Smaller(ff - f, lh - h)
<1>1. /\ h = Smaller(fh, lh) /\ f = Smaller(ff, lf)
      /\ h2 = Smaller(fh - h, lf - f) /\ f2 = Smaller(ff - f, lh - h)
  OBVIOUS
<1> HIDE DEF h, f, h2, f2
<1>2. CASE fh <= lh /\ ff <= lf
  BY <1>1, <1>2 DEF Smaller, Fit
<1>3. CASE fh <= lh /\ lf < ff
  BY <1>1, <1>3 DEF Smaller, Fit
<1>4. CASE lh < fh /\ ff <= lf
  BY <1>1, <1>4 DEF Smaller, Fit
<1>5. CASE lh < fh /\ lf < ff
  BY <1>1, <1>5 DEF Smaller, Fit
<1>6. QED
  BY <1>2, <1>3, <1>4, <1>5

(* The tasks of two queues without duplicates are dealt out: none is taken *)
(* twice or stays queued, and a task stays queued only when every slot is  *)
(* taken.                                                                  *)
Dealt(fq, hq, ff, fh, a) ==
  /\ a.heavy \in Seq(Tasks) /\ a.fast \in Seq(Tasks)
  /\ a.fastQueue \in Seq(Tasks) /\ a.heavyQueue \in Seq(Tasks)
  /\ Distinct(a.heavy) /\ Distinct(a.fast)
  /\ Distinct(a.fastQueue) /\ Distinct(a.heavyQueue)
  /\ Apart(a.heavy, a.fast) /\ Apart(a.fastQueue, a.heavyQueue)
  /\ (ToSet(a.heavy) \cup ToSet(a.fast)) \cap (ToSet(a.fastQueue) \cup ToSet(a.heavyQueue)) = {}
  /\ ToSet(a.heavy) \cup ToSet(a.fast) \cup ToSet(a.fastQueue) \cup ToSet(a.heavyQueue)
       = ToSet(fq) \cup ToSet(hq)
  /\ Len(a.fast) <= ff /\ Len(a.heavy) <= fh
  /\ a.fastQueue # <<>> \/ a.heavyQueue # <<>> => Len(a.fast) = ff /\ Len(a.heavy) = fh

LEMMA SharesDeal ==
  ASSUME NEW fq \in Seq(Tasks), NEW hq \in Seq(Tasks), NEW ff \in Nat, NEW fh \in Nat,
         Distinct(fq), Distinct(hq), Apart(fq, hq)
  PROVE  Dealt(fq, hq, ff, fh, Shares(fq, hq, ff, fh))
<1> DEFINE h == Smaller(fh, Len(hq))
           f == Smaller(ff, Len(fq))
           h2 == Smaller(fh - h, Len(fq) - f)
           f2 == Smaller(ff - f, Len(hq) - h)
           a == Shares(fq, hq, ff, fh)
           rf == Rest(fq, f)
           rh == Rest(hq, h)
<1>1. Len(fq) \in Nat /\ Len(hq) \in Nat
  OBVIOUS
<1>2. Fit(Len(fq), Len(hq), ff, fh, h, f, h2, f2)
  BY <1>1, Amounts, Zenon
<1> HIDE DEF h, f, h2, f2
<1>3. /\ h \in 0 .. Len(hq) /\ f \in 0 .. Len(fq) /\ h2 \in 0 .. Len(fq) - f /\ f2 \in 0 .. Len(hq) - h
      /\ h + h2 <= fh /\ f + f2 <= ff
      /\ f + h2 < Len(fq) \/ h + f2 < Len(hq) => h + h2 = fh /\ f + f2 = ff
  BY <1>2 DEF Fit
<1>4. /\ a.heavy = First(hq, h) \o First(rf, h2) /\ a.fast = First(fq, f) \o First(rh, f2)
      /\ a.fastQueue = Rest(fq, f + h2) /\ a.heavyQueue = Rest(hq, h + f2)
  BY DEF Shares, h, f, h2, f2
<1> HIDE DEF a
<1>5. /\ First(hq, h) \in Seq(Tasks) /\ Len(First(hq, h)) = h
      /\ First(fq, f) \in Seq(Tasks) /\ Len(First(fq, f)) = f
      /\ rf \in Seq(Tasks) /\ Len(rf) = Len(fq) - f
      /\ rh \in Seq(Tasks) /\ Len(rh) = Len(hq) - h
  BY <1>3, FirstOf, RestOf
<1>6. Parts(hq, First(hq, h), rh) /\ Parts(fq, First(fq, f), rf)
  BY <1>3, CutQueue
<1>7. a.fastQueue = Rest(rf, h2) /\ a.heavyQueue = Rest(rh, f2)
  BY <1>3, <1>4, CutAgain
<1> HIDE DEF rf, rh
<1>8. /\ First(rf, h2) \in Seq(Tasks) /\ Len(First(rf, h2)) = h2
      /\ First(rh, f2) \in Seq(Tasks) /\ Len(First(rh, f2)) = f2
      /\ a.fastQueue \in Seq(Tasks) /\ Len(a.fastQueue) = Len(fq) - f - h2
      /\ a.heavyQueue \in Seq(Tasks) /\ Len(a.heavyQueue) = Len(hq) - h - f2
  <2>1. h2 \in 0 .. Len(rf) /\ f2 \in 0 .. Len(rh)
    BY <1>3, <1>5
  <2>2. /\ First(rf, h2) \in Seq(Tasks) /\ Len(First(rf, h2)) = h2
        /\ First(rh, f2) \in Seq(Tasks) /\ Len(First(rh, f2)) = f2
    BY <1>5, <2>1, FirstOf
  <2>3. /\ Rest(rf, h2) \in Seq(Tasks) /\ Len(Rest(rf, h2)) = Len(rf) - h2
        /\ Rest(rh, f2) \in Seq(Tasks) /\ Len(Rest(rh, f2)) = Len(rh) - f2
    BY <1>5, <2>1, RestOf
  <2>4. QED
    BY <1>5, <1>7, <2>2, <2>3
<1>9. Parts(rf, First(rf, h2), a.fastQueue) /\ Parts(rh, First(rh, f2), a.heavyQueue)
  <2>1. h2 \in 0 .. Len(rf) /\ f2 \in 0 .. Len(rh)
    BY <1>3, <1>5
  <2>2. Distinct(rf) /\ Distinct(rh)
    BY <1>6 DEF Parts
  <2>3. Parts(rf, First(rf, h2), Rest(rf, h2))
    BY <1>5, <2>1, <2>2, CutQueue
  <2>4. Parts(rh, First(rh, f2), Rest(rh, f2))
    BY <1>5, <2>1, <2>2, CutQueue
  <2>5. QED
    BY <1>7, <2>3, <2>4
<1>10. Apart(First(hq, h), First(rf, h2)) /\ Apart(First(fq, f), First(rh, f2))
  BY <1>6, <1>9 DEF Parts, Apart
<1>11. /\ a.heavy \in Seq(Tasks) /\ Len(a.heavy) = h + h2 /\ Distinct(a.heavy)
      /\ ToSet(a.heavy) = ToSet(First(hq, h)) \cup ToSet(First(rf, h2))
  <2> DEFINE p == First(hq, h)
             q == First(rf, h2)
  <2>1. /\ p \in Seq(Tasks) /\ q \in Seq(Tasks) /\ Len(p) = h /\ Len(q) = h2
        /\ Distinct(p) /\ Distinct(q) /\ Apart(p, q) /\ a.heavy = p \o q
    BY <1>4, <1>5, <1>6, <1>8, <1>9, <1>10 DEF Parts
  <2> HIDE DEF p, q
  <2>2. /\ p \o q \in Seq(Tasks) /\ Len(p \o q) = Len(p) + Len(q)
        /\ Distinct(p \o q) /\ ToSet(p \o q) = ToSet(p) \cup ToSet(q)
    BY <2>1, Joined
  <2>3. QED
    BY <2>1, <2>2 DEF p, q
<1>12. /\ a.fast \in Seq(Tasks) /\ Len(a.fast) = f + f2 /\ Distinct(a.fast)
       /\ ToSet(a.fast) = ToSet(First(fq, f)) \cup ToSet(First(rh, f2))
  <2> DEFINE p == First(fq, f)
             q == First(rh, f2)
  <2>1. /\ p \in Seq(Tasks) /\ q \in Seq(Tasks) /\ Len(p) = f /\ Len(q) = f2
        /\ Distinct(p) /\ Distinct(q) /\ Apart(p, q) /\ a.fast = p \o q
    BY <1>4, <1>5, <1>6, <1>8, <1>9, <1>10 DEF Parts
  <2> HIDE DEF p, q
  <2>2. /\ p \o q \in Seq(Tasks) /\ Len(p \o q) = Len(p) + Len(q)
        /\ Distinct(p \o q) /\ ToSet(p \o q) = ToSet(p) \cup ToSet(q)
    BY <2>1, Joined
  <2>3. QED
    BY <2>1, <2>2 DEF p, q
<1>13. /\ Apart(a.heavy, a.fast) /\ Apart(a.fastQueue, a.heavyQueue)
       /\ (ToSet(a.heavy) \cup ToSet(a.fast)) \cap (ToSet(a.fastQueue) \cup ToSet(a.heavyQueue)) = {}
  BY <1>6, <1>9, <1>11, <1>12 DEF Parts, Apart
<1>14. ToSet(a.heavy) \cup ToSet(a.fast) \cup ToSet(a.fastQueue) \cup ToSet(a.heavyQueue)
         = ToSet(fq) \cup ToSet(hq)
  BY <1>6, <1>9, <1>11, <1>12 DEF Parts
<1>15. a.fastQueue # <<>> \/ a.heavyQueue # <<>> => Len(a.fast) = ff /\ Len(a.heavy) = fh
  <2>1. a.fastQueue # <<>> => f + h2 < Len(fq)
    BY <1>3, <1>8
  <2>2. a.heavyQueue # <<>> => h + f2 < Len(hq)
    BY <1>3, <1>8
  <2>3. QED
    BY <1>3, <1>11, <1>12, <2>1, <2>2
<1>16. QED
  BY <1>3, <1>8, <1>9, <1>11, <1>12, <1>13, <1>14, <1>15 DEF Dealt, Parts, a

(* A pass over the queues: the threads that ended give their slots back,   *)
(* the tasks taken get one each, and what stays queued stays as it was.    *)
Passed(fq, hq) ==
  /\ fastQueue' \in Seq(Tasks) /\ heavyQueue' \in Seq(Tasks)
  /\ Distinct(fastQueue)' /\ Distinct(heavyQueue)' /\ Apart(fastQueue, heavyQueue)'
  /\ activeFast' \in Nat /\ activeHeavy' \in Nat
  /\ slot' \in [Tasks -> {"none", "fast", "heavy"}]
  /\ thread' \in [Tasks -> {"none", "runs", "ended"}]
  /\ \A t \in ToSet(fastQueue') \cup ToSet(heavyQueue') :
       t \in ToSet(fq) \cup ToSet(hq) /\ slot'[t] = "none"
  /\ \A t \in Tasks : /\ slot'[t] = "none" <=> thread'[t] = "none"
                      /\ slot'[t] # "none" => slot[t] # "none" \/ t \in ToSet(fq) \cup ToSet(hq)
  /\ \A type \in Types : IsFiniteSet(Threads(type)')
  /\ CountersCountThreads' /\ NoIdleSlot'

LEMMA Pass ==
  ASSUME NEW fq \in Seq(Tasks), NEW hq \in Seq(Tasks),
         NEW fast \in Nat, NEW heavy \in Nat, NEW ended \in SUBSET Tasks,
         Distinct(fq), Distinct(hq), Apart(fq, hq), PoolTypeOK, UNCHANGED lost,
         fast <= MaxFast, heavy <= MaxHeavy,
         \A type \in Types : IsFiniteSet(Threads(type) \ ended),
         fast = Cardinality(Threads("fast") \ ended) + lost["fast"],
         heavy = Cardinality(Threads("heavy") \ ended) + lost["heavy"],
         \A t \in ToSet(fq) \cup ToSet(hq) : slot[t] = "none",
         \A t \in ended : slot[t] # "none",
         \A t \in Tasks : slot[t] = "none" <=> thread[t] = "none",
         ProcessQueues(fq, hq, fast, heavy, ended)
  PROVE  Passed(fq, hq)
<1> DEFINE a == Assign(fq, hq, fast, heavy)
<1>1. Dealt(fq, hq, MaxFast - fast, MaxHeavy - heavy, a)
  <2>1. MaxFast - fast \in Nat /\ MaxHeavy - heavy \in Nat
    BY SlotsAssumption
  <2>2. QED
    BY <2>1, SharesDeal DEF Assign
<1>2. /\ fastQueue' = a.fastQueue /\ heavyQueue' = a.heavyQueue
      /\ activeFast' = fast + Len(a.fast) /\ activeHeavy' = heavy + Len(a.heavy)
      /\ slot' = [t \in Tasks |-> CASE t \in ToSet(a.fast) -> "fast"
                                    [] t \in ToSet(a.heavy) -> "heavy"
                                    [] t \in ended -> "none"
                                    [] OTHER -> slot[t]]
      /\ thread' = [t \in Tasks |-> CASE t \in ToSet(a.fast \o a.heavy) -> "runs"
                                      [] t \in ended -> "none"
                                      [] OTHER -> thread[t]]
  BY DEF ProcessQueues
<1> HIDE DEF a
<1> DEFINE F == ToSet(a.fast)
           H == ToSet(a.heavy)
           W == ToSet(a.fastQueue) \cup ToSet(a.heavyQueue)
           m == Len(a.fast)
           n == Len(a.heavy)
<1>3. /\ F \cap H = {} /\ (F \cup H) \cap W = {} /\ F \cup H \cup W = ToSet(fq) \cup ToSet(hq)
      /\ m \in Nat /\ n \in Nat
      /\ fast + m <= MaxFast /\ heavy + n <= MaxHeavy
      /\ a.fastQueue # <<>> \/ a.heavyQueue # <<>> => fast + m = MaxFast /\ heavy + n = MaxHeavy
  <2>1. F \cap H = {} /\ (F \cup H) \cap W = {} /\ F \cup H \cup W = ToSet(fq) \cup ToSet(hq)
    BY <1>1 DEF Dealt, Apart
  <2>2. m \in Nat /\ n \in Nat
    BY <1>1 DEF Dealt
  <2>3. /\ m <= MaxFast - fast /\ n <= MaxHeavy - heavy
        /\ a.fastQueue # <<>> \/ a.heavyQueue # <<>> => m = MaxFast - fast /\ n = MaxHeavy - heavy
    BY <1>1 DEF Dealt
  <2> HIDE DEF m, n, F, H, W
  <2>4. fast + m <= MaxFast /\ (m = MaxFast - fast => fast + m = MaxFast)
    BY <2>2, <2>3, SlotsAssumption
  <2>5. heavy + n <= MaxHeavy /\ (n = MaxHeavy - heavy => heavy + n = MaxHeavy)
    BY <2>2, <2>3, SlotsAssumption
  <2>6. QED
    BY <2>1, <2>2, <2>3, <2>4, <2>5
<1>4. ToSet(a.fast \o a.heavy) = F \cup H
  <2> DEFINE p == a.fast
             q == a.heavy
  <2>1. p \in Seq(Tasks) /\ q \in Seq(Tasks) /\ Distinct(p) /\ Distinct(q) /\ Apart(p, q)
    BY <1>1 DEF Dealt, Apart
  <2> HIDE DEF p, q
  <2>2. ToSet(p \o q) = ToSet(p) \cup ToSet(q)
    BY <2>1, Joined
  <2>3. QED
    BY <2>2 DEF p, q
<1>5. /\ F \subseteq Tasks /\ H \subseteq Tasks
      /\ IsFiniteSet(F) /\ Cardinality(F) = m /\ IsFiniteSet(H) /\ Cardinality(H) = n
  BY <1>1, MembersCount, Elements DEF Dealt
<1>6. /\ fastQueue' \in Seq(Tasks) /\ heavyQueue' \in Seq(Tasks)
      /\ Distinct(fastQueue)' /\ Distinct(heavyQueue)' /\ Apart(fastQueue, heavyQueue)'
      /\ W = ToSet(fastQueue') \cup ToSet(heavyQueue')
  BY <1>1, <1>2 DEF Dealt, Distinct, Apart
<1>7. activeFast' = fast + m /\ activeHeavy' = heavy + n
  BY <1>2
<1> HIDE DEF F, H, W, m, n
<1>8. \A t \in Tasks : /\ t \in F => slot'[t] = "fast" /\ thread'[t] = "runs"
                       /\ t \in H => slot'[t] = "heavy" /\ thread'[t] = "runs"
                       /\ t \notin F \cup H /\ t \in ended => slot'[t] = "none" /\ thread'[t] = "none"
                       /\ t \notin F \cup H /\ t \notin ended => slot'[t] = slot[t] /\ thread'[t] = thread[t]
  <2>1. /\ slot' = [t \in Tasks |-> CASE t \in F -> "fast" [] t \in H -> "heavy"
                                      [] t \in ended -> "none" [] OTHER -> slot[t]]
        /\ thread' = [t \in Tasks |-> CASE t \in F \cup H -> "runs"
                                        [] t \in ended -> "none" [] OTHER -> thread[t]]
    BY <1>2, <1>4 DEF F, H
  <2>2. \A t \in F \cup H : t \notin ended
    BY <1>3
  <2>3. ASSUME NEW t \in Tasks, t \in F PROVE slot'[t] = "fast" /\ thread'[t] = "runs"
    BY <2>2, <2>1, <2>3, <1>3
  <2>4. ASSUME NEW t \in Tasks, t \in H PROVE slot'[t] = "heavy" /\ thread'[t] = "runs"
    BY <2>2, <2>1, <2>4, <1>3
  <2>5. ASSUME NEW t \in Tasks, t \notin F \cup H
        PROVE  /\ t \in ended => slot'[t] = "none" /\ thread'[t] = "none"
               /\ t \notin ended => slot'[t] = slot[t] /\ thread'[t] = thread[t]
    BY <2>1, <2>5
  <2>6. QED
    BY <2>3, <2>4, <2>5
<1>9. slot' \in [Tasks -> {"none", "fast", "heavy"}] /\ thread' \in [Tasks -> {"none", "runs", "ended"}]
  <2>1. /\ slot' = [t \in Tasks |-> slot'[t]] /\ thread' = [t \in Tasks |-> thread'[t]]
    BY <1>2
  <2>2. \A t \in Tasks : slot'[t] \in {"none", "fast", "heavy"} /\ thread'[t] \in {"none", "runs", "ended"}
    BY <1>8 DEF PoolTypeOK
  <2>3. QED
    BY <2>1, <2>2
<1>10. /\ Threads("fast")' = (Threads("fast") \ ended) \cup F
       /\ Threads("heavy")' = (Threads("heavy") \ ended) \cup H
  <2>1. \A t \in F \cup H : t \in Tasks /\ slot[t] = "none"
    BY <1>3, <1>5
  <2>2. QED
    BY <1>3, <1>8, <2>1, ZenonT(60) DEF Threads
<1>11. /\ (Threads("fast") \ ended) \cap F = {}
       /\ (Threads("heavy") \ ended) \cap H = {}
  <2>1. \A t \in F \cup H : slot[t] = "none"
    BY <1>3
  <2>2. QED
    BY <2>1 DEF Threads
<1>12. /\ IsFiniteSet(Threads("fast")') /\ Cardinality(Threads("fast")') = Cardinality(Threads("fast") \ ended) + m
       /\ IsFiniteSet(Threads("heavy")') /\ Cardinality(Threads("heavy")') = Cardinality(Threads("heavy") \ ended) + n
  <2> DEFINE X == Threads("fast") \ ended
             Y == Threads("heavy") \ ended
  <2>1. IsFiniteSet(X) /\ IsFiniteSet(Y)
    BY DEF Types
  <2>2. X \cap F = {} /\ Y \cap H = {}
    BY <1>11
  <2>3. Threads("fast")' = X \cup F /\ Threads("heavy")' = Y \cup H
    BY <1>10
  <2> HIDE DEF X, Y
  <2>4. /\ IsFiniteSet(X \cup F) /\ Cardinality(X \cup F) = Cardinality(X) + m
    <3>1. Cardinality(X \cap F) = 0
      BY <2>2, FS_EmptySet
    <3>2. /\ IsFiniteSet(X \cup F)
          /\ Cardinality(X \cup F) = Cardinality(X) + Cardinality(F) - Cardinality(X \cap F)
      BY <2>1, <1>5, FS_Union
    <3>3. Cardinality(X) \in Nat
      BY <2>1, FS_CardinalityType
    <3>4. QED
      BY <3>1, <3>2, <3>3, <1>3, <1>5
  <2>5. /\ IsFiniteSet(Y \cup H) /\ Cardinality(Y \cup H) = Cardinality(Y) + n
    <3>1. Cardinality(Y \cap H) = 0
      BY <2>2, FS_EmptySet
    <3>2. /\ IsFiniteSet(Y \cup H)
          /\ Cardinality(Y \cup H) = Cardinality(Y) + Cardinality(H) - Cardinality(Y \cap H)
      BY <2>1, <1>5, FS_Union
    <3>3. Cardinality(Y) \in Nat
      BY <2>1, FS_CardinalityType
    <3>4. QED
      BY <3>1, <3>2, <3>3, <1>3, <1>5
  <2>6. QED
    BY <2>3, <2>4, <2>5 DEF X, Y
<1>13. CountersCountThreads'
  <2> DEFINE x == Cardinality(Threads("fast") \ ended)
             y == Cardinality(Threads("heavy") \ ended)
             u == lost["fast"]
             v == lost["heavy"]
  <2>1. /\ x \in Nat /\ y \in Nat
    BY FS_CardinalityType DEF Types
  <2>2. /\ u \in Nat /\ v \in Nat /\ lost'["fast"] = u /\ lost'["heavy"] = v
    BY DEF PoolTypeOK, Types
  <2>3. fast = x + u /\ heavy = y + v
    OBVIOUS
  <2>4. Cardinality(Threads("fast")') = x + m /\ Cardinality(Threads("heavy")') = y + n
    BY <1>12
  <2> HIDE DEF x, y, u, v
  <2>5. m \in Nat /\ n \in Nat
    BY <1>3
  <2>6. activeFast' = (x + m) + u /\ activeFast' <= MaxFast
    <3>1. fast + m <= MaxFast /\ activeFast' = fast + m
      BY <1>3, <1>7
    <3>2. QED
      BY <3>1, <2>1, <2>2, <2>3, <2>5
  <2>7. activeHeavy' = (y + n) + v /\ activeHeavy' <= MaxHeavy
    <3>1. heavy + n <= MaxHeavy /\ activeHeavy' = heavy + n
      BY <1>3, <1>7
    <3>2. QED
      BY <3>1, <2>1, <2>2, <2>3, <2>5
  <2>8. QED
    BY <2>2, <2>4, <2>6, <2>7 DEF CountersCountThreads
<1>14. NoIdleSlot'
  BY <1>2, <1>3, <1>7 DEF NoIdleSlot
<1>15. /\ \A t \in ToSet(fastQueue') \cup ToSet(heavyQueue') :
            t \in ToSet(fq) \cup ToSet(hq) /\ slot'[t] = "none"
  <2> SUFFICES ASSUME NEW t \in W PROVE t \in ToSet(fq) \cup ToSet(hq) /\ slot'[t] = "none"
    BY <1>6
  <2>1. t \in ToSet(fq) \cup ToSet(hq) /\ t \notin F \cup H /\ t \in Tasks
    BY <1>3, Elements
  <2>2. QED
    BY <1>8, <2>1
<1>16. \A t \in Tasks : /\ slot'[t] = "none" <=> thread'[t] = "none"
                        /\ slot'[t] # "none" => slot[t] # "none" \/ t \in ToSet(fq) \cup ToSet(hq)
  BY <1>3, <1>8
<1>17. activeFast' \in Nat /\ activeHeavy' \in Nat
  BY <1>3, <1>7, SMTT(60)
<1>18. \A type \in Types : IsFiniteSet(Threads(type)')
  BY <1>12 DEF Types
<1>19. QED
  BY <1>6, <1>9, <1>13, <1>14, <1>15, <1>16, <1>17, <1>18 DEF Passed

-----------------------------------------------------------------------------
(* The steps                                                               *)

(* What a pass leaves, with the promises of the tasks it found queued.     *)
LEMMA PassKeeps ==
  ASSUME NEW fq \in Seq(Tasks), NEW hq \in Seq(Tasks), Passed(fq, hq),
         promise' \in [Tasks -> {"none", "pending", "resolved", "rejected"}],
         \A t \in ToSet(fq) \cup ToSet(hq) : promise'[t] = "pending",
         \A t \in Tasks : slot[t] # "none" => promise'[t] # "none",
         silent' \subseteq Tasks, lost' \in [Types -> Nat], throws' \in Nat
  PROVE  PoolInv'
<1>1. PoolTypeOK'
  BY DEF Passed, PoolTypeOK
<1>2. /\ Distinct(fastQueue)' /\ Distinct(heavyQueue)' /\ Apart(fastQueue, heavyQueue)'
      /\ \A t \in ToSet(fastQueue') \cup ToSet(heavyQueue') : promise'[t] = "pending" /\ slot'[t] = "none"
  BY DEF Passed
<1>3. \A t \in Tasks : /\ slot'[t] = "none" <=> thread'[t] = "none"
                       /\ slot'[t] # "none" => promise'[t] # "none"
  <2> SUFFICES ASSUME NEW t \in Tasks
               PROVE  /\ slot'[t] = "none" <=> thread'[t] = "none"
                      /\ slot'[t] # "none" => promise'[t] # "none"
    OBVIOUS
  <2>1. /\ slot'[t] = "none" <=> thread'[t] = "none"
        /\ slot'[t] # "none" => slot[t] # "none" \/ t \in ToSet(fq) \cup ToSet(hq)
    BY DEF Passed
  <2>2. QED
    BY <2>1
<1>4. QueuesInv'
  <2>1. \A t \in ToSet(fastQueue)' \cup ToSet(heavyQueue)' : promise'[t] = "pending" /\ slot'[t] = "none"
    BY <1>2 DEF ToSet
  <2>2. QED
    BY <1>2, <1>3, <2>1 DEF QueuesInv, ToSet
<1>5. QED
  BY <1>1, <1>4 DEF PoolInv, Passed

LEMMA PoolInitially == PoolInit => PoolInv
<1> SUFFICES ASSUME PoolInit PROVE PoolInv
  OBVIOUS
<1>1. PoolTypeOK
  BY DEF PoolInit, PoolTypeOK, Types
<1>2. ToSet(fastQueue) = {} /\ ToSet(heavyQueue) = {}
  BY DEF PoolInit, ToSet
<1>3. QueuesInv
  BY <1>2 DEF PoolInit, QueuesInv, Distinct, Apart
<1>4. Threads("fast") = {} /\ Threads("heavy") = {}
  BY DEF PoolInit, Threads
<1>5. \A type \in Types : IsFiniteSet(Threads(type))
  BY <1>4, FS_EmptySet DEF Types
<1>6. CountersCountThreads
  <2>1. lost["fast"] = 0 /\ lost["heavy"] = 0 /\ activeFast = 0 /\ activeHeavy = 0
    BY DEF PoolInit, Types
  <2>2. QED
    BY <1>4, <2>1, FS_EmptySet, SlotsAssumption DEF CountersCountThreads
<1>7. NoIdleSlot
  BY DEF PoolInit, NoIdleSlot
<1>8. QED
  BY <1>1, <1>3, <1>5, <1>6, <1>7 DEF PoolInv

(* A task joins the queue of its kind.                                     *)
LEMMA OneMore ==
  ASSUME NEW q \in Seq(Tasks), NEW t \in Tasks, Distinct(q), t \notin ToSet(q)
  PROVE  Append(q, t) \in Seq(Tasks) /\ Distinct(Append(q, t)) /\ ToSet(Append(q, t)) = ToSet(q) \cup {t}
<1> DEFINE s == Append(q, t)
<1>1. /\ s \in Seq(Tasks) /\ Len(s) = Len(q) + 1
      /\ \A pos \in 1 .. Len(q) : s[pos] = q[pos]
      /\ s[Len(q) + 1] = t
  OBVIOUS
<1>2. \A pos \in 1 .. Len(s) : pos \in 1 .. Len(q) \/ pos = Len(q) + 1
  BY <1>1
<1>3. \A pos \in 1 .. Len(q) : pos \in 1 .. Len(s) /\ Len(q) + 1 \in 1 .. Len(s)
  BY <1>1
<1> HIDE DEF s
<1>4. Distinct(s)
  BY <1>1, <1>2, Elements DEF Distinct
<1>5. ToSet(s) = ToSet(q) \cup {t}
  <2>1. \A pos \in 1 .. Len(s) : s[pos] \in ToSet(q) \cup {t}
    BY <1>1, <1>2, Elements
  <2>2. \A pos \in 1 .. Len(q) : q[pos] \in ToSet(s)
    BY <1>1, <1>3, Elements
  <2>3. t \in ToSet(s)
    <3>1. Len(q) + 1 \in 1 .. Len(s)
      BY <1>1
    <3>2. QED
      BY <1>1, <3>1, Elements
  <2>4. QED
    BY <1>1, <2>1, <2>2, <2>3, Elements
<1>6. QED
  BY <1>1, <1>4, <1>5 DEF s

LEMMA QueuedAll ==
  ASSUME PoolInv, NEW t \in Tasks, promise[t] = "none"
  PROVE  LET fq == Queued(t).fast
             hq == Queued(t).heavy
         IN  /\ fq \in Seq(Tasks) /\ hq \in Seq(Tasks)
             /\ Distinct(fq) /\ Distinct(hq) /\ Apart(fq, hq)
             /\ ToSet(fq) \cup ToSet(hq) = ToSet(fastQueue) \cup ToSet(heavyQueue) \cup {t}
<1>1. t \notin ToSet(fastQueue) /\ t \notin ToSet(heavyQueue)
  BY DEF PoolInv, QueuesInv
<1>2. /\ fastQueue \in Seq(Tasks) /\ heavyQueue \in Seq(Tasks)
      /\ Distinct(fastQueue) /\ Distinct(heavyQueue) /\ Apart(fastQueue, heavyQueue)
  BY DEF PoolInv, PoolTypeOK, QueuesInv
<1>3. CASE t \in Heavy
  <2>1. Queued(t).fast = fastQueue /\ Queued(t).heavy = Append(heavyQueue, t)
    BY <1>3 DEF Queued
  <2>2. QED
    BY <1>1, <1>2, <2>1, OneMore DEF Apart
<1>4. CASE t \notin Heavy
  <2>1. Queued(t).fast = Append(fastQueue, t) /\ Queued(t).heavy = heavyQueue
    BY <1>4 DEF Queued
  <2>2. QED
    BY <1>1, <1>2, <2>1, OneMore DEF Apart
<1>5. QED
  BY <1>3, <1>4

LEMMA CountersFit ==
  ASSUME PoolInv
  PROVE  /\ activeFast \in Nat /\ activeHeavy \in Nat /\ activeFast <= MaxFast /\ activeHeavy <= MaxHeavy
         /\ activeFast = Cardinality(Threads("fast")) + lost["fast"]
         /\ activeHeavy = Cardinality(Threads("heavy")) + lost["heavy"]
         /\ Cardinality(Threads("fast")) \in Nat /\ Cardinality(Threads("heavy")) \in Nat
         /\ lost["fast"] \in Nat /\ lost["heavy"] \in Nat
<1>1. Cardinality(Threads("fast")) \in Nat /\ Cardinality(Threads("heavy")) \in Nat
  BY FS_CardinalityType DEF PoolInv, Types
<1>2. QED
  BY <1>1 DEF PoolInv, PoolTypeOK, CountersCountThreads, Types

LEMMA SubmitKeeps ==
  ASSUME PoolInv, NEW t \in Tasks, Submit(t)
  PROVE  PoolInv'
<1> DEFINE fq == Queued(t).fast
           hq == Queued(t).heavy
<1>1. /\ fq \in Seq(Tasks) /\ hq \in Seq(Tasks)
      /\ Distinct(fq) /\ Distinct(hq) /\ Apart(fq, hq)
      /\ ToSet(fq) \cup ToSet(hq) = ToSet(fastQueue) \cup ToSet(heavyQueue) \cup {t}
  BY QueuedAll DEF Submit
<1>2. /\ promise[t] = "none" /\ promise' = [promise EXCEPT ![t] = "pending"]
      /\ ProcessQueues(fq, hq, activeFast, activeHeavy, {})
      /\ UNCHANGED <<silent, lost, throws>>
  BY DEF Submit
<1> HIDE DEF fq, hq
<1>3. slot[t] = "none"
  BY <1>2 DEF PoolInv, QueuesInv
<1>4. /\ \A u \in ToSet(fq) \cup ToSet(hq) : slot[u] = "none" /\ promise'[u] = "pending"
      /\ \A u \in Tasks : slot[u] # "none" => promise'[u] # "none"
  BY <1>1, <1>2, <1>3 DEF PoolInv, QueuesInv, PoolTypeOK
<1>5. /\ Threads("fast") \ {} = Threads("fast") /\ Threads("heavy") \ {} = Threads("heavy")
      /\ \A type \in Types : IsFiniteSet(Threads(type) \ {})
  BY DEF PoolInv, Types
<1>6. Passed(fq, hq)
  <2>1. /\ \A u \in Tasks : slot[u] = "none" <=> thread[u] = "none"
        /\ PoolTypeOK
    BY DEF PoolInv, QueuesInv
  <2>2. UNCHANGED lost
    BY <1>2
  <2>3. /\ activeFast = Cardinality(Threads("fast") \ {}) + lost["fast"]
        /\ activeHeavy = Cardinality(Threads("heavy") \ {}) + lost["heavy"]
        /\ activeFast \in Nat /\ activeHeavy \in Nat /\ activeFast <= MaxFast /\ activeHeavy <= MaxHeavy
    BY <1>5, CountersFit
  <2> DEFINE ended == {}
  <2>4. /\ ProcessQueues(fq, hq, activeFast, activeHeavy, ended)
        /\ \A u \in ended : slot[u] # "none"
        /\ ended \in SUBSET Tasks
        /\ \A type \in Types : IsFiniteSet(Threads(type) \ ended)
        /\ activeFast = Cardinality(Threads("fast") \ ended) + lost["fast"]
        /\ activeHeavy = Cardinality(Threads("heavy") \ ended) + lost["heavy"]
    BY <1>2, <1>5, <2>3
  <2> HIDE DEF ended
  <2>5. QED
    BY <1>1, <1>4, <2>1, <2>2, <2>3, <2>4, Pass
<1>7. QED
  <2>1. /\ promise' \in [Tasks -> {"none", "pending", "resolved", "rejected"}]
        /\ silent' \subseteq Tasks /\ lost' \in [Types -> Nat] /\ throws' \in Nat
    BY <1>2 DEF PoolInv, PoolTypeOK
  <2>2. QED
    BY <1>1, <1>4, <1>6, <2>1, PassKeeps

LEMMA ExitKeeps ==
  ASSUME PoolInv, NEW t \in Tasks, Exit(t)
  PROVE  PoolInv'
<1>1. thread[t] = "ended" /\ UNCHANGED <<promise, silent, lost, throws>>
  BY DEF Exit
<1>2. slot[t] \in {"fast", "heavy"}
  BY <1>1 DEF PoolInv, QueuesInv, PoolTypeOK
<1>3. /\ fastQueue \in Seq(Tasks) /\ heavyQueue \in Seq(Tasks)
      /\ Distinct(fastQueue) /\ Distinct(heavyQueue) /\ Apart(fastQueue, heavyQueue)
      /\ \A u \in ToSet(fastQueue) \cup ToSet(heavyQueue) : slot[u] = "none" /\ promise'[u] = "pending"
      /\ \A u \in Tasks : slot[u] = "none" <=> thread[u] = "none"
      /\ \A u \in Tasks : slot[u] # "none" => promise'[u] # "none"
      /\ \A type \in Types : IsFiniteSet(Threads(type))
      /\ PoolTypeOK
  BY <1>1 DEF PoolInv, QueuesInv, PoolTypeOK
<1>4. \A type \in Types : IsFiniteSet(Threads(type) \ {t})
  BY <1>3, FS_RemoveElement
<1>5. Passed(fastQueue, heavyQueue)
  <2>1. CASE slot[t] = "fast"
    <3>1. ProcessQueues(fastQueue, heavyQueue, activeFast - 1, activeHeavy, {t})
      BY <2>1 DEF Exit
    <3>2. t \in Threads("fast") /\ Threads("heavy") \ {t} = Threads("heavy")
      BY <2>1 DEF Threads
    <3>3. Cardinality(Threads("fast") \ {t}) = Cardinality(Threads("fast")) - 1
          /\ Cardinality(Threads("fast")) # 0
      BY <1>3, <3>2, FS_RemoveElement, FS_EmptySet DEF Types
    <3>4. /\ activeFast - 1 \in Nat /\ activeFast - 1 <= MaxFast
          /\ activeFast - 1 = Cardinality(Threads("fast") \ {t}) + lost["fast"]
      BY <3>3, CountersFit, SlotsAssumption
    <3>5. activeHeavy = Cardinality(Threads("heavy") \ {t}) + lost["heavy"]
      BY <3>2, CountersFit
    <3>6. activeHeavy \in Nat /\ activeHeavy <= MaxHeavy
      BY CountersFit
    <3>7. UNCHANGED lost
      BY <1>1
    <3>8. \A u \in {t} : slot[u] # "none"
      BY <1>2
    <3>9. QED
      BY <1>3, <1>4, <3>1, <3>4, <3>5, <3>6, <3>7, <3>8, Pass
  <2>2. CASE slot[t] = "heavy"
    <3>1. ProcessQueues(fastQueue, heavyQueue, activeFast, activeHeavy - 1, {t})
      BY <2>2 DEF Exit
    <3>2. t \in Threads("heavy") /\ Threads("fast") \ {t} = Threads("fast")
      BY <2>2 DEF Threads
    <3>3. Cardinality(Threads("heavy") \ {t}) = Cardinality(Threads("heavy")) - 1
          /\ Cardinality(Threads("heavy")) # 0
      BY <1>3, <3>2, FS_RemoveElement, FS_EmptySet DEF Types
    <3>4. /\ activeHeavy - 1 \in Nat /\ activeHeavy - 1 <= MaxHeavy
          /\ activeHeavy - 1 = Cardinality(Threads("heavy") \ {t}) + lost["heavy"]
      BY <3>3, CountersFit, SlotsAssumption
    <3>5. activeFast = Cardinality(Threads("fast") \ {t}) + lost["fast"]
      BY <3>2, CountersFit
    <3>6. activeFast \in Nat /\ activeFast <= MaxFast
      BY CountersFit
    <3>7. UNCHANGED lost
      BY <1>1
    <3>8. \A u \in {t} : slot[u] # "none"
      BY <1>2
    <3>9. QED
      BY <1>3, <1>4, <3>1, <3>4, <3>5, <3>6, <3>7, <3>8, Pass
  <2>3. QED
    BY <1>2, <2>1, <2>2
<1>6. QED
  <2>1. /\ promise' \in [Tasks -> {"none", "pending", "resolved", "rejected"}]
        /\ silent' \subseteq Tasks /\ lost' \in [Types -> Nat] /\ throws' \in Nat
    BY <1>1 DEF PoolInv, PoolTypeOK
  <2>2. QED
    BY <1>3, <1>5, <2>1, PassKeeps

(* A step of a thread leaves the queues, slots and counters alone.         *)
LEMMA ThreadKeeps ==
  ASSUME PoolInv, NEW t \in Tasks, thread[t] = "runs",
         thread' = [thread EXCEPT ![t] = "ended"],
         promise' \in [Tasks -> {"none", "pending", "resolved", "rejected"}],
         \A u \in Tasks : u # t => promise'[u] = promise[u],
         promise'[t] # "none",
         silent' \subseteq Tasks,
         UNCHANGED <<fastQueue, heavyQueue, activeFast, activeHeavy, slot, lost, throws>>
  PROVE  PoolInv'
<1>1. PoolTypeOK'
  BY DEF PoolInv, PoolTypeOK
<1>2. slot[t] # "none"
  BY DEF PoolInv, QueuesInv
<1>3. QueuesInv'
  <2>1. ToSet(fastQueue)' = ToSet(fastQueue) /\ ToSet(heavyQueue)' = ToSet(heavyQueue)
    OBVIOUS
  <2>2. Distinct(fastQueue)' /\ Distinct(heavyQueue)' /\ Apart(fastQueue, heavyQueue)'
    BY DEF PoolInv, QueuesInv, Distinct, Apart
  <2>3. \A u \in ToSet(fastQueue) \cup ToSet(heavyQueue) : promise'[u] = "pending" /\ slot'[u] = "none"
    <3>1. \A u \in ToSet(fastQueue) \cup ToSet(heavyQueue) : u \in Tasks
      BY Elements DEF PoolInv, PoolTypeOK
    <3>2. QED
      BY <1>2, <3>1 DEF PoolInv, QueuesInv
  <2>4. \A u \in Tasks : /\ slot'[u] = "none" <=> thread'[u] = "none"
                         /\ slot'[u] # "none" => promise'[u] # "none"
    BY <1>2 DEF PoolInv, QueuesInv, PoolTypeOK
  <2>5. QED
    BY <2>1, <2>2, <2>3, <2>4 DEF QueuesInv
<1>4. \A type \in Types : Threads(type)' = Threads(type)
  BY DEF Threads
<1>5. CountersCountThreads' /\ NoIdleSlot' /\ \A type \in Types : IsFiniteSet(Threads(type))'
  BY <1>4 DEF PoolInv, CountersCountThreads, NoIdleSlot, Types
<1>6. QED
  BY <1>1, <1>3, <1>5 DEF PoolInv

(* The submitted task alone was taken: had another waited, no slot would   *)
(* have been free for it.                                                  *)
LEMMA OnlyOneTaken ==
  ASSUME PoolInv, NEW t \in Tasks, SubmitThrows(t)
  PROVE  LET a == Assign(Queued(t).fast, Queued(t).heavy, activeFast, activeHeavy)
         IN  /\ fastQueue = <<>> /\ heavyQueue = <<>>
             /\ Len(a.fast) <= MaxFast - activeFast /\ Len(a.heavy) <= MaxHeavy - activeHeavy
             /\ t \in ToSet(a.fast) => Len(a.fast) = 1 /\ Len(a.heavy) = 0
             /\ t \notin ToSet(a.fast) => Len(a.fast) = 0 /\ Len(a.heavy) = 1
<1> DEFINE fq == Queued(t).fast
           hq == Queued(t).heavy
           a == Assign(fq, hq, activeFast, activeHeavy)
<1>1. /\ fq \in Seq(Tasks) /\ hq \in Seq(Tasks)
      /\ Distinct(fq) /\ Distinct(hq) /\ Apart(fq, hq)
      /\ ToSet(fq) \cup ToSet(hq) = ToSet(fastQueue) \cup ToSet(heavyQueue) \cup {t}
  BY QueuedAll DEF SubmitThrows
<1>2. t \in ToSet(a.fast \o a.heavy)
  BY DEF SubmitThrows
<1>3. Dealt(fq, hq, MaxFast - activeFast, MaxHeavy - activeHeavy, a)
  <2> HIDE DEF fq, hq
  <2>1. MaxFast - activeFast \in Nat /\ MaxHeavy - activeHeavy \in Nat
    BY CountersFit, SlotsAssumption
  <2>2. QED
    BY <1>1, <2>1, SharesDeal DEF Assign
<1> HIDE DEF fq, hq, a
<1> DEFINE p == a.fast
           q == a.heavy
<1>4. /\ p \in Seq(Tasks) /\ q \in Seq(Tasks) /\ Distinct(p) /\ Distinct(q) /\ Apart(p, q)
      /\ ToSet(p) \cup ToSet(q) \subseteq ToSet(fq) \cup ToSet(hq)
      /\ Len(p) <= MaxFast - activeFast /\ Len(q) <= MaxHeavy - activeHeavy
  BY <1>3 DEF Dealt, Apart
<1>5. t \in ToSet(p \o q)
  BY <1>2
<1> HIDE DEF p, q
<1>6. t \in ToSet(p) \cup ToSet(q) /\ ToSet(p) \cap ToSet(q) = {}
  BY <1>4, <1>5, Joined DEF Apart
<1>7. Len(p) = Cardinality(ToSet(p)) /\ Len(q) = Cardinality(ToSet(q)) /\ Len(p) \in Nat /\ Len(q) \in Nat
  BY <1>4, MembersCount
<1>8. fastQueue = <<>> /\ heavyQueue = <<>>
  <2> SUFFICES ASSUME fastQueue # <<>> \/ heavyQueue # <<>> PROVE FALSE
    OBVIOUS
  <2>1. activeFast = MaxFast /\ activeHeavy = MaxHeavy
    BY DEF PoolInv, NoIdleSlot
  <2>2. Len(p) = 0 /\ Len(q) = 0
    BY <1>4, <1>7, <2>1, SlotsAssumption
  <2>3. ToSet(p) = {} /\ ToSet(q) = {}
    <3>1. p = <<>> /\ q = <<>>
      BY <1>4, <2>2, Elements
    <3>2. QED
      BY <3>1 DEF ToSet
  <2>4. QED
    BY <1>6, <2>3
<1>9. ToSet(p) \cup ToSet(q) \subseteq {t}
  <2>1. ToSet(fastQueue) = {} /\ ToSet(heavyQueue) = {}
    BY <1>8 DEF ToSet
  <2>2. QED
    BY <1>1, <1>4, <2>1
<1>10. Cardinality({t}) = 1 /\ Cardinality({}) = 0
  BY FS_Singleton, FS_EmptySet
<1>11. CASE t \in ToSet(p)
  <2>1. ToSet(p) = {t} /\ ToSet(q) = {}
    BY <1>6, <1>9, <1>11
  <2>2. QED
    BY <1>4, <1>7, <1>8, <1>10, <1>11, <2>1 DEF p, q, a, fq, hq
<1>12. CASE t \notin ToSet(p)
  <2>1. ToSet(p) = {} /\ ToSet(q) = {t}
    BY <1>6, <1>9, <1>12
  <2>2. QED
    BY <1>4, <1>7, <1>8, <1>10, <1>12, <2>1 DEF p, q, a, fq, hq
<1>13. QED
  BY <1>11, <1>12

LEMMA SubmitThrowsKeeps ==
  ASSUME PoolInv, NEW t \in Tasks, SubmitThrows(t)
  PROVE  PoolInv'
<1> DEFINE a == Assign(Queued(t).fast, Queued(t).heavy, activeFast, activeHeavy)
           m == Len(a.fast)
           n == Len(a.heavy)
           inFast == t \in ToSet(a.fast)
<1>1. /\ fastQueue = <<>> /\ heavyQueue = <<>>
      /\ m <= MaxFast - activeFast /\ n <= MaxHeavy - activeHeavy
      /\ inFast => m = 1 /\ n = 0
      /\ ~inFast => m = 0 /\ n = 1
  BY OnlyOneTaken
<1>2. /\ promise' = [promise EXCEPT ![t] = "rejected"]
      /\ throws' = throws + 1
      /\ lost' = [lost EXCEPT ![IF inFast THEN "fast" ELSE "heavy"] = @ + 1]
      /\ activeFast' = activeFast + m /\ activeHeavy' = activeHeavy + n
      /\ UNCHANGED <<fastQueue, heavyQueue, slot, thread, silent>>
  BY DEF SubmitThrows
<1> HIDE DEF m, n, inFast
<1>3. /\ inFast => lost' = [lost EXCEPT !["fast"] = lost["fast"] + 1]
      /\ ~inFast => lost' = [lost EXCEPT !["heavy"] = lost["heavy"] + 1]
  BY <1>2
<1>4. /\ lost' \in [Types -> Nat]
      /\ inFast => lost'["fast"] = lost["fast"] + 1 /\ lost'["heavy"] = lost["heavy"]
      /\ ~inFast => lost'["fast"] = lost["fast"] /\ lost'["heavy"] = lost["heavy"] + 1
  BY <1>3, CountersFit DEF PoolInv, PoolTypeOK, Types
<1>5. \A type \in Types : Threads(type)' = Threads(type)
  BY <1>2 DEF Threads
<1>6. /\ activeFast' \in Nat /\ activeHeavy' \in Nat /\ activeFast' <= MaxFast /\ activeHeavy' <= MaxHeavy
      /\ activeFast' = Cardinality(Threads("fast")) + lost'["fast"]
      /\ activeHeavy' = Cardinality(Threads("heavy")) + lost'["heavy"]
  <2> DEFINE x == Cardinality(Threads("fast"))
             y == Cardinality(Threads("heavy"))
             u == lost["fast"]
             v == lost["heavy"]
  <2>1. /\ activeFast \in Nat /\ activeHeavy \in Nat /\ activeFast = x + u /\ activeHeavy = y + v
        /\ x \in Nat /\ y \in Nat /\ u \in Nat /\ v \in Nat
        /\ MaxFast \in Nat /\ MaxHeavy \in Nat
        /\ activeFast <= MaxFast /\ activeHeavy <= MaxHeavy
    BY CountersFit, SlotsAssumption
  <2>2. activeFast' = activeFast + m /\ activeHeavy' = activeHeavy + n
    BY <1>2
  <2> HIDE DEF x, y, u, v
  <2>3. CASE inFast
    <3>1. m = 1 /\ n = 0 /\ 1 <= MaxFast - activeFast
      BY <1>1, <2>3
    <3>2. lost'["fast"] = u + 1 /\ lost'["heavy"] = v
      BY <1>4, <2>3 DEF u, v
    <3>3. QED
      BY <3>1, <3>2, <2>1, <2>2 DEF x, y
  <2>4. CASE ~inFast
    <3>1. m = 0 /\ n = 1 /\ 1 <= MaxHeavy - activeHeavy
      BY <1>1, <2>4
    <3>2. lost'["fast"] = u /\ lost'["heavy"] = v + 1
      BY <1>4, <2>4 DEF u, v
    <3>3. QED
      BY <3>1, <3>2, <2>1, <2>2 DEF x, y
  <2>5. QED
    BY <2>3, <2>4
<1>7. PoolTypeOK'
  BY <1>2, <1>4, <1>6 DEF PoolInv, PoolTypeOK
<1>8. CountersCountThreads' /\ NoIdleSlot' /\ \A type \in Types : IsFiniteSet(Threads(type))'
  BY <1>1, <1>2, <1>5, <1>6 DEF PoolInv, CountersCountThreads, NoIdleSlot, Types
<1>9. QueuesInv'
  <2>1. fastQueue' = <<>> /\ heavyQueue' = <<>> /\ ToSet(fastQueue)' = {} /\ ToSet(heavyQueue)' = {}
    BY <1>1, <1>2 DEF ToSet
  <2>2. \A u \in Tasks : /\ slot'[u] = "none" <=> thread'[u] = "none"
                         /\ slot'[u] # "none" => promise'[u] # "none"
    BY <1>2 DEF PoolInv, QueuesInv, PoolTypeOK
  <2>3. QED
    BY <2>1, <2>2 DEF QueuesInv, Distinct, Apart
<1>10. QED
  BY <1>7, <1>8, <1>9 DEF PoolInv

LEMMA ExitThrowsKeeps ==
  ASSUME PoolInv, NEW t \in Tasks, ExitThrows(t)
  PROVE  PoolInv'
<1>1. /\ throws' = throws + 1
      /\ fastQueue' = <<>> /\ heavyQueue' = <<>>
      /\ activeFast' = 0 /\ activeHeavy' = 0
      /\ slot' = [u \in Tasks |-> "none"] /\ thread' = [u \in Tasks |-> "none"]
      /\ promise' = [u \in Tasks |-> IF promise[u] = "pending" THEN "none" ELSE promise[u]]
      /\ lost' = [type \in Types |-> 0]
      /\ UNCHANGED silent
  BY DEF ExitThrows
<1>2. PoolTypeOK'
  BY <1>1 DEF PoolInv, PoolTypeOK
<1>3. QueuesInv'
  <2>1. ToSet(fastQueue)' = {} /\ ToSet(heavyQueue)' = {}
    BY <1>1 DEF ToSet
  <2>2. QED
    BY <1>1, <2>1 DEF QueuesInv, Distinct, Apart
<1>4. Threads("fast")' = {} /\ Threads("heavy")' = {}
  BY <1>1 DEF Threads
<1>5. /\ \A type \in Types : IsFiniteSet(Threads(type))'
      /\ CountersCountThreads' /\ NoIdleSlot'
  <2>1. lost'["fast"] = 0 /\ lost'["heavy"] = 0
    BY <1>1 DEF Types
  <2>2. QED
    <3>1. Cardinality({}) = 0 /\ IsFiniteSet({})
      BY FS_EmptySet
    <3>2. CountersCountThreads'
      <4>1. Cardinality(Threads("fast")') = 0 /\ Cardinality(Threads("heavy")') = 0
        BY <1>4, <3>1
      <4>2. 0 <= MaxFast /\ 0 <= MaxHeavy /\ 0 + 0 = 0
        BY SlotsAssumption
      <4>3. QED
        BY <1>1, <2>1, <4>1, <4>2 DEF CountersCountThreads
    <3>3. NoIdleSlot'
      BY <1>1 DEF NoIdleSlot
    <3>4. QED
      BY <1>4, <3>1, <3>2, <3>3 DEF Types
<1>6. QED
  BY <1>2, <1>3, <1>5 DEF PoolInv

LEMMA PoolStep == PoolInv /\ [PoolNext]_allPoolVars => PoolInv'
<1> SUFFICES ASSUME PoolInv, [PoolNext]_allPoolVars PROVE PoolInv'
  OBVIOUS
<1>1. ASSUME NEW t \in Tasks, Answer(t) PROVE PoolInv'
  <2>1. PICK how \in {"resolved", "rejected"} : Settle(t, how)
    BY <1>1 DEF Answer, Succeed, Fail
  <2>2. QED
    BY <2>1, ThreadKeeps DEF Settle, PoolInv, PoolTypeOK
<1>2. ASSUME NEW t \in Tasks, EndSilently(t) PROVE PoolInv'
  <2>1. promise[t] # "none" /\ promise \in [Tasks -> {"none", "pending", "resolved", "rejected"}]
    BY <1>2 DEF EndSilently, PoolInv, QueuesInv, PoolTypeOK
  <2>2. silent' \subseteq Tasks
    BY <1>2 DEF EndSilently, PoolInv, PoolTypeOK
  <2>3. QED
    BY <1>2, <2>1, <2>2, ThreadKeeps DEF EndSilently
<1>3. CASE UNCHANGED allPoolVars
  <2>1. \A type \in Types : Threads(type)' = Threads(type)
    BY <1>3 DEF allPoolVars, poolVars, Threads
  <2>2. QED
    <3>1. PoolTypeOK'
      BY <1>3 DEF allPoolVars, poolVars, PoolInv, PoolTypeOK
    <3>2. QueuesInv'
      BY <1>3 DEF allPoolVars, poolVars, PoolInv, QueuesInv, Distinct, Apart, ToSet
    <3>3. CountersCountThreads' /\ NoIdleSlot' /\ \A type \in Types : IsFiniteSet(Threads(type))'
      BY <1>3, <2>1 DEF allPoolVars, poolVars, PoolInv, CountersCountThreads, NoIdleSlot, Types
    <3>4. QED
      BY <3>1, <3>2, <3>3 DEF PoolInv
<1>4. QED
  BY <1>1, <1>2, <1>3, SubmitKeeps, SubmitThrowsKeeps, ExitKeeps, ExitThrowsKeeps DEF PoolNext

(* The pool stays within the state space its invariant describes.          *)
THEOREM PoolInductive == PoolSpec => []PoolInv
BY PoolInitially, PoolStep, PTL DEF PoolSpec

(* No counter, queue or thread leaves its type, for any pool size: a       *)
(* counter never drops below zero at an exit.                              *)
THEOREM PoolTypeCorrect == PoolSpec => []PoolTypeOK
<1>1. PoolInv => PoolTypeOK
  BY DEF PoolInv
<1>2. QED
  BY <1>1, PoolInductive, PTL

(* activeFast and activeHeavy count the threads that exist, by the slot    *)
(* each took, and the slots that throws of new Worker() have cost, and     *)
(* never more than the pool has (worker-pool.ts: runTask and the event     *)
(* "exit").                                                                *)
THEOREM CountersAreThreads == PoolSpec => []CountersCountThreads
<1>1. PoolInv => CountersCountThreads
  BY DEF PoolInv
<1>2. QED
  BY <1>1, PoolInductive, PTL

(* No task waits in either queue while a slot of either type is free       *)
(* (worker-pool.ts: the four loops of processQueues).                      *)
THEOREM NoSlotIdles == PoolSpec => []NoIdleSlot
<1>1. PoolInv => NoIdleSlot
  BY DEF PoolInv
<1>2. QED
  BY <1>1, PoolInductive, PTL
=============================================================================
