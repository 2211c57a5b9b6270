---------------------------- MODULE Website_proofs ----------------------------
(***************************************************************************)
(* The pages that keep answers of the past, for any texts, rows and number *)
(* of runs: the playground shows what belongs to its texts unless runs     *)
(* overtook each other, and the lists and statistics skip no row.  The     *)
(* delta library, for any files, masks, MOD_ADLER and chunk bounds: the    *)
(* rolled hash is the direct one, and every delta rebuilds the new file.   *)
(***************************************************************************)
EXTENDS Website, FiniteSetTheorems, NaturalsInduction, SequenceTheorems, WellFoundedInduction, TLAPS

-----------------------------------------------------------------------------
(* Least elements, and functions defined by recursion                       *)

(* A set of numbers has a least element, which Least chooses.               *)
LEMMA LeastElement ==
  ASSUME NEW S, S \subseteq Nat, S # {}
  PROVE  Least(S) \in S /\ \A y \in S : Least(S) <= y
<1>1. PICK x \in S : \A y \in S : ~ (<<y, x>> \in OpToRel(<, Nat))
  BY NatLessThanWellFounded, WFMin
<1>2. \A y \in S : x <= y
  <2>1. \A y \in S : ~ (y < x) /\ x \in Nat /\ y \in Nat
    BY <1>1 DEF OpToRel
  <2>2. QED
    BY <2>1
<1>3. QED
  BY <1>2 DEF Least

(* Induction on a set of numbers.                                           *)
LEMMA SetInduction ==
  ASSUME NEW T, 0 \in T, \A n \in Nat : n \in T => n + 1 \in T
  PROVE  Nat \subseteq T
<1> DEFINE bad == Nat \ T
           m == Least(bad)
<1> SUFFICES ASSUME bad # {} PROVE FALSE
  OBVIOUS
<1>1. m \in bad /\ \A n \in bad : m <= n
  BY LeastElement
<1> HIDE DEF m
<1>2. m - 1 \in Nat /\ m - 1 \notin bad
  BY <1>1
<1>3. QED
  BY <1>1, <1>2

(* A function defined by recursion: from each member d of D on to N[d], of *)
(* lower rank, until the rank is zero.                                     *)
Descends(D, rank, N, top) ==
  /\ top \in Nat
  /\ \A d \in D : /\ rank[d] \in 0 .. top
                  /\ rank[d] > 0 => N[d] \in D /\ rank[N[d]] < rank[d]
Closed(D, V, rank, base, H) ==
  /\ base \in V
  /\ \A d \in D : rank[d] > 0 => \A v \in V : H[d][v] \in V
Solves(g, D, rank, N, base, H) ==
  \A d \in D : g[d] = IF rank[d] = 0 THEN base ELSE H[d][g[N[d]]]

(* There is such a function, with values in V.                              *)
LEMMA RecursionExists ==
  ASSUME NEW D, NEW V, NEW rank, NEW N, NEW top, NEW base, NEW H,
         Descends(D, rank, N, top), Closed(D, V, rank, base, H)
  PROVE  \E g \in [D -> V] : Solves(g, D, rank, N, base, H)
<1> DEFINE Small(m) == {d \in D : rank[d] <= m}
           Good(g, m) == g \in [Small(m) -> V] /\ Solves(g, Small(m), rank, N, base, H)
           T == {m \in Nat : \E g : Good(g, m)}
<1>1. \A d \in D : rank[d] \in Nat /\ (rank[d] > 0 <=> rank[d] # 0)
  BY DEF Descends
<1>2. 0 \in T
  <2>1. \A d \in Small(0) : rank[d] = 0
    BY <1>1
  <2>2. base \in V
    BY DEF Closed
  <2>3. Good([d \in Small(0) |-> base], 0)
    BY <2>1, <2>2 DEF Solves
  <2> HIDE DEF Good
  <2>4. QED
    BY <2>3
<1>3. ASSUME NEW m \in Nat, m \in T
      PROVE  m + 1 \in T
  <2>1. PICK g : Good(g, m)
    BY <1>3
  <2> DEFINE h == [d \in Small(m + 1) |-> IF rank[d] = 0 THEN base ELSE H[d][g[N[d]]]]
  <2>2. \A d \in Small(m + 1) : rank[d] # 0 => N[d] \in Small(m) /\ N[d] \in Small(m + 1)
    BY <1>1 DEF Descends
  <2>3. h \in [Small(m + 1) -> V]
    <3>1. ASSUME NEW d \in Small(m + 1), rank[d] # 0 PROVE H[d][g[N[d]]] \in V
      <4>1. g[N[d]] \in V
        BY <2>1, <2>2, <3>1
      <4>2. QED
        BY <1>1, <3>1, <4>1 DEF Closed
    <3>2. base \in V
      BY DEF Closed
    <3>3. QED
      BY <3>1, <3>2
  <2>4. \A d \in Small(m) : d \in Small(m + 1) /\ h[d] = g[d]
    <3>1. \A d \in Small(m) : d \in Small(m + 1)
      BY <1>1
    <3>2. QED
      BY <2>1, <3>1 DEF Solves
  <2>5. Good(h, m + 1)
    BY <2>2, <2>3, <2>4 DEF Solves
  <2> HIDE DEF Good, h
  <2>6. QED
    BY <2>5
<1>4. top \in T
  <2> HIDE DEF T
  <2>1. top \in Nat
    BY DEF Descends
  <2>2. QED
    BY <1>2, <1>3, <2>1, SetInduction
<1>5. PICK g : Good(g, top)
  BY <1>4
<1>6. Small(top) = D
  BY DEF Descends
<1>7. QED
  BY <1>5, <1>6

(* What satisfies the equation has its values in V.                        *)
LEMMA RecursionTyped ==
  ASSUME NEW D, NEW V, NEW rank, NEW N, NEW top, NEW base, NEW H, NEW h,
         Descends(D, rank, N, top), Closed(D, V, rank, base, H),
         \A d \in D : /\ rank[d] = 0 => h[d] = base
                      /\ rank[d] # 0 /\ h[N[d]] \in V => h[d] = H[d][h[N[d]]]
  PROVE  \A d \in D : h[d] \in V
<1> DEFINE T == {m \in Nat : \A d \in D : rank[d] <= m => h[d] \in V}
<1>1. \A d \in D : rank[d] \in Nat /\ rank[d] <= top /\ (rank[d] > 0 <=> rank[d] # 0)
  BY DEF Descends
<1>2. 0 \in T
  BY <1>1 DEF Closed
<1>3. ASSUME NEW m \in Nat, m \in T PROVE m + 1 \in T
  <2>1. ASSUME NEW d \in D, rank[d] <= m + 1 PROVE h[d] \in V
    <3>1. CASE rank[d] = 0
      BY <3>1 DEF Closed
    <3>2. CASE rank[d] # 0
      <4>1. N[d] \in D /\ rank[N[d]] <= m
        BY <1>1, <2>1, <3>2 DEF Descends
      <4>2. h[N[d]] \in V
        BY <1>3, <4>1
      <4>3. QED
        BY <1>1, <3>2, <4>2 DEF Closed
    <3>3. QED
      BY <3>1, <3>2
  <2>2. QED
    BY <2>1
<1>4. top \in T
  <2> HIDE DEF T
  <2>1. top \in Nat
    BY DEF Descends
  <2>2. QED
    BY <1>2, <1>3, <2>1, SetInduction
<1>5. QED
  BY <1>1, <1>4

(* The folds of a finite set: C chooses the next member, G adds it.        *)
Foldable(S, V, base, C, G) ==
  /\ IsFiniteSet(S) /\ base \in V
  /\ \A s \in SUBSET S : s # {} => C[s] \in s
  /\ \A x \in S, v \in V : G[x][v] \in V
FoldOf(h, S, V, base, C, G) ==
  /\ h[{}] = base
  /\ \A s \in SUBSET S : s # {} /\ h[s \ {C[s]}] \in V => h[s] = G[C[s]][h[s \ {C[s]}]]

Folded(g, S, V, base, C, G) ==
  /\ g \in [SUBSET S -> V]
  /\ \A s \in SUBSET S : g[s] = IF s = {} THEN base ELSE G[C[s]][g[s \ {C[s]}]]

(* Such a fold exists, and whatever folds has its values in V.              *)
LEMMA FoldExists ==
  ASSUME NEW S, NEW V, NEW base, NEW C, NEW G, Foldable(S, V, base, C, G)
  PROVE  /\ \E g : Folded(g, S, V, base, C, G)
         /\ \A h : FoldOf(h, S, V, base, C, G) => \A s \in SUBSET S : h[s] \in V
<1> DEFINE D == SUBSET S
           rank == [s \in D |-> Cardinality(s)]
           N == [s \in D |-> s \ {C[s]}]
           H == [s \in D |-> [v \in V |-> G[C[s]][v]]]
           top == Cardinality(S)
<1>1. top \in Nat /\ base \in V
  BY FS_CardinalityType DEF Foldable
<1>2. ASSUME NEW s \in D
      PROVE  /\ IsFiniteSet(s) /\ Cardinality(s) \in 0 .. top
             /\ Cardinality(s) = 0 <=> s = {}
  BY <1>1, FS_Subset, FS_CardinalityType, FS_EmptySet DEF Foldable
<1>3. ASSUME NEW s \in D, s # {}
      PROVE  /\ s \ {C[s]} \in D /\ Cardinality(s \ {C[s]}) = Cardinality(s) - 1
             /\ C[s] \in S
  BY <1>2, <1>3, FS_RemoveElement DEF Foldable
<1>4. \A s \in D : rank[s] = Cardinality(s) /\ N[s] = s \ {C[s]}
  OBVIOUS
<1>5. \A s \in D, v \in V : H[s][v] = G[C[s]][v]
  OBVIOUS
<1>6. \A x \in S, v \in V : G[x][v] \in V
  BY DEF Foldable
<1> HIDE DEF rank, N, H, top
<1>7. \A s \in D : /\ rank[s] \in 0 .. top /\ (rank[s] = 0 <=> s = {})
                   /\ s # {} => N[s] \in D /\ rank[N[s]] < rank[s]
  <2> SUFFICES ASSUME NEW s \in D
               PROVE  /\ rank[s] \in 0 .. top /\ (rank[s] = 0 <=> s = {})
                      /\ s # {} => N[s] \in D /\ rank[N[s]] < rank[s]
    OBVIOUS
  <2>1. rank[s] \in 0 .. top /\ (rank[s] = 0 <=> s = {})
    BY <1>2, <1>4
  <2>2. ASSUME s # {} PROVE N[s] \in D /\ rank[N[s]] < rank[s]
    <3>1. N[s] \in D /\ Cardinality(N[s]) = Cardinality(s) - 1
      BY <1>3, <1>4, <2>2
    <3>2. rank[N[s]] = rank[s] - 1 /\ rank[s] \in Int
      BY <1>4, <2>1, <3>1
    <3>3. QED
      BY <3>1, <3>2
  <2>3. QED
    BY <2>1, <2>2
<1>8. \A s \in D : rank[s] > 0 <=> s # {}
  BY <1>1, <1>7
<1> HIDE DEF D
<1>9. Descends(D, rank, N, top)
  BY <1>1, <1>7, <1>8 DEF Descends
<1>10. Closed(D, V, rank, base, H)
  BY <1>1, <1>3, <1>5, <1>6, <1>8 DEF Closed
<1>11. \E g : Folded(g, S, V, base, C, G)
  <2>1. PICK g \in [D -> V] : Solves(g, D, rank, N, base, H)
    BY <1>9, <1>10, RecursionExists
  <2>2. ASSUME NEW s \in D
        PROVE  g[s] = IF s = {} THEN base ELSE G[C[s]][g[s \ {C[s]}]]
    <3>1. CASE s = {}
      BY <1>7, <2>1, <3>1 DEF Solves
    <3>2. CASE s # {}
      <4>1. g[s] = H[s][g[N[s]]] /\ g[N[s]] \in V
        BY <1>7, <2>1, <3>2 DEF Solves
      <4>2. H[s][g[N[s]]] = G[C[s]][g[N[s]]]
        BY <1>5, <4>1
      <4>3. N[s] = s \ {C[s]}
        BY <1>4
      <4>4. QED
        BY <3>2, <4>1, <4>2, <4>3
    <3>3. QED
      BY <3>1, <3>2
  <2>3. Folded(g, S, V, base, C, G)
    BY <2>1, <2>2 DEF Folded, D
  <2>4. QED
    BY <2>3
<1>12. ASSUME NEW h, FoldOf(h, S, V, base, C, G) PROVE \A s \in D : h[s] \in V
  <2>1. ASSUME NEW s \in D, rank[s] = 0 PROVE h[s] = base
    BY <1>7, <1>12, <2>1 DEF FoldOf
  <2>2. ASSUME NEW s \in D, rank[s] # 0, h[N[s]] \in V PROVE h[s] = H[s][h[N[s]]]
    <3>1. s # {} /\ N[s] = s \ {C[s]}
      BY <1>4, <1>7, <2>2
    <3>2. h[s] = G[C[s]][h[N[s]]]
      BY <1>12, <2>2, <3>1 DEF FoldOf, D
    <3>3. QED
      BY <1>5, <2>2, <3>2
  <2>3. QED
    BY <1>9, <1>10, <2>1, <2>2, RecursionTyped
<1>13. QED
  BY <1>11, <1>12 DEF D

-----------------------------------------------------------------------------
(* The weak hash                                                            *)

(* Congruence modulo MOD_ADLER.                                             *)
Cong(x, y) == \E k \in Int : x = y + k * ModAdler
(* Division by MOD_ADLER.                                                   *)
LEMMA ModIs ==
  ASSUME NEW x \in Int
  PROVE  /\ x % ModAdler \in 0 .. ModAdler - 1 /\ x \div ModAdler \in Int
         /\ x = (x % ModAdler) + (x \div ModAdler) * ModAdler
  BY LibAssumption
(* A remainder is a number below MOD_ADLER.                                 *)
LEMMA ModNat ==
  ASSUME NEW x \in Int
  PROVE  x % ModAdler \in 0 .. ModAdler - 1 /\ x % ModAdler \in Nat
  BY LibAssumption
(* A remainder is congruent to what it was taken of.                        *)
LEMMA CongMod ==
  ASSUME NEW x \in Int
  PROVE  x % ModAdler \in 0 .. ModAdler - 1 /\ Cong(x % ModAdler, x)
<1>1. PICK k \in Int : x = (x % ModAdler) + k * ModAdler
  BY ModIs
<1>2. x % ModAdler \in 0 .. ModAdler - 1
  BY ModIs
<1> DEFINE m == x % ModAdler
<1>3. m = x + (-k) * ModAdler
  <2> HIDE DEF m
  <2>1. x = m + k * ModAdler /\ m \in Int /\ ModAdler \in Int
    BY <1>1, <1>2, LibAssumption DEF m
  <2>2. QED
    BY <2>1
<1>4. QED
  BY <1>2, <1>3 DEF Cong
(* Congruences can be added and subtracted.                                 *)
LEMMA CongAdd ==
  ASSUME NEW x \in Int, NEW y \in Int, NEW v \in Int, NEW w \in Int, Cong(x, y), Cong(v, w)
  PROVE  Cong(x + v, y + w) /\ Cong(x - v, y - w)
<1>1. PICK j \in Int : x = y + j * ModAdler
  BY DEF Cong
<1>2. PICK k \in Int : v = w + k * ModAdler
  BY DEF Cong
<1>3. x + v = y + w + (j + k) * ModAdler /\ x - v = y - w + (j - k) * ModAdler
  BY <1>1, <1>2, LibAssumption
<1>4. QED
  BY <1>3 DEF Cong
(* Congruence is transitive, symmetric and reflexive, and blind to          *)
(* multiples of MOD_ADLER.                                                  *)
LEMMA CongTrans ==
  ASSUME NEW x \in Int, NEW y \in Int, NEW z \in Int, Cong(x, y), Cong(y, z)
  PROVE  Cong(x, z)
<1>1. PICK j \in Int : x = y + j * ModAdler
  BY DEF Cong
<1>2. PICK k \in Int : y = z + k * ModAdler
  BY DEF Cong
<1>3. x = z + (j + k) * ModAdler
  BY <1>1, <1>2, LibAssumption
<1>4. QED
  BY <1>3 DEF Cong
LEMMA CongSym ==
  ASSUME NEW x \in Int, NEW y \in Int, Cong(x, y)
  PROVE  Cong(y, x)
<1>1. PICK j \in Int : x = y + j * ModAdler
  BY DEF Cong
<1>3. y = x + (-j) * ModAdler
  BY <1>1, LibAssumption
<1>4. QED
  BY <1>3 DEF Cong
LEMMA CongSelf ==
  ASSUME NEW x \in Int
  PROVE  Cong(x, x) /\ \A k \in Int : Cong(x, x + k * ModAdler)
<1>1. x = x + 0 * ModAdler
  BY LibAssumption
<1>2. ASSUME NEW k \in Int PROVE x = (x + k * ModAdler) + (-k) * ModAdler
  BY LibAssumption
<1>3. QED
  BY <1>1, <1>2 DEF Cong

(* A term moves to the other side of a congruence.                          *)
LEMMA CongMove ==
  ASSUME NEW x \in Int, NEW y \in Int, NEW z \in Int, Cong(x, y + z)
  PROVE  Cong(y, x - z)
<1>1. PICK k \in Int : x = y + z + k * ModAdler
  BY DEF Cong
<1>2. y = x - z + (-k) * ModAdler
  BY <1>1, LibAssumption
<1>3. QED
  BY <1>2 DEF Cong

(* Two sums that grow by the same, by congruent terms.                     *)
LEMMA CongGrow ==
  ASSUME NEW q \in Int, NEW q1 \in Int, NEW p \in Int, NEW p1 \in Int, NEW c \in Int,
         NEW x \in Int, NEW y \in Int, NEW z \in Int,
         Cong(q, p - c), Cong(q1, q + y), Cong(p1, p + z), Cong(y, z - x)
  PROVE  Cong(q1, p1 - (c + x))
<1>1. Cong(q + y, (p - c) + (z - x))
  BY CongAdd
<1>2. Cong(q1, (p - c) + (z - x))
  BY <1>1, CongTrans
<1>3. Cong(p1 - (c + x), (p + z) - (c + x))
  <2>1. Cong(c + x, c + x)
    BY CongSelf
  <2>2. QED
    BY <2>1, CongAdd
<1>4. Cong((p + z) - (c + x), p1 - (c + x))
  BY <1>3, CongSym
<1>5. (p + z) - (c + x) = (p - c) + (z - x)
  OBVIOUS
<1>6. QED
  BY <1>2, <1>4, <1>5, CongTrans

(* A product grows with its factor.                                         *)
LEMMA Multiples ==
  ASSUME NEW n \in Nat, NEW x \in Nat, NEW m \in Nat, x <= m
  PROVE  n * x \in Nat /\ n * x <= n * m /\ n * m \in Nat
  OBVIOUS

(* Congruent remainders are equal.                                          *)
LEMMA CongSame ==
  ASSUME NEW x \in 0 .. ModAdler - 1, NEW y \in 0 .. ModAdler - 1, Cong(x, y)
  PROVE  x = y
<1>1. PICK j \in Int : x = y + j * ModAdler
  BY DEF Cong
<1>2. j < 1
  <2> SUFFICES ASSUME j >= 1 PROVE FALSE
    BY <1>1
  <2>1. j * ModAdler >= ModAdler
    BY LibAssumption
  <2>2. QED
    BY <1>1, <2>1, LibAssumption
<1>3. j > -1
  <2> SUFFICES ASSUME j <= -1 PROVE FALSE
    BY <1>1
  <2>1. j * ModAdler <= -ModAdler
    BY LibAssumption
  <2>2. QED
    BY <1>1, <2>1, LibAssumption
<1>4. QED
  BY <1>1, <1>2, <1>3, LibAssumption
(* Congruent numbers have the same remainder: the rolled state, which is    *)
(* reduced at other places than the direct one, is the same in the end.     *)
LEMMA CongMods ==
  ASSUME NEW x \in Int, NEW y \in Int, Cong(x, y)
  PROVE  x % ModAdler = y % ModAdler
<1>1. /\ x % ModAdler \in 0 .. ModAdler - 1 /\ Cong(x % ModAdler, x)
      /\ y % ModAdler \in 0 .. ModAdler - 1 /\ Cong(y, y % ModAdler)
  BY CongMod, CongSym
<1>2. Cong(x % ModAdler, y % ModAdler)
  BY <1>1, CongTrans
<1>3. QED
  BY <1>1, <1>2, CongSame

(* A bounded set of numbers has a greatest element.                         *)
LEMMA GreatestElement ==
  ASSUME NEW n \in Nat, NEW S, S \subseteq 0 .. n, S # {}
  PROVE  /\ Max(S) \in S /\ \A y \in S : Max(S) >= y
         /\ Greatest(S) \in S /\ \A y \in S : Greatest(S) >= y
<1> DEFINE R == {n - x : x \in S}
<1>1. R \subseteq Nat /\ R # {}
  <2>1. \A x \in S : n - x \in Nat
    OBVIOUS
  <2>2. QED
    BY <2>1
<1>2. Least(R) \in R /\ \A y \in R : Least(R) <= y
  BY <1>1, LeastElement
<1>3. PICK x \in S : Least(R) = n - x
  BY <1>2
<1>4. \A y \in S : n - y \in R
  OBVIOUS
<1>5. \A y \in S : x >= y
  BY <1>2, <1>3, <1>4
<1>6. QED
  BY <1>5 DEF Max, Greatest

(* The state of adler32, and one byte more.                                 *)
States == [a : Nat, b : Nat]
FirstState == [a |-> 1, b |-> 0]
After(s, x) == LET a == (s.a + x) % ModAdler IN  [a |-> a, b |-> (s.b + a) % ModAdler]

(* The state after one more byte is a state of two remainders.              *)
LEMMA AfterIs ==
  ASSUME NEW s \in States, NEW x \in Nat
  PROVE  /\ After(s, x) \in States
         /\ After(s, x).a = (s.a + x) % ModAdler
         /\ After(s, x).b = (s.b + After(s, x).a) % ModAdler
         /\ After(s, x).a \in 0 .. ModAdler - 1 /\ After(s, x).b \in 0 .. ModAdler - 1
<1> DEFINE y == s.a + x
           a == y % ModAdler
<1>1. y \in Int /\ s.b \in Int
  BY DEF States
<1> HIDE DEF y
<1>2. a \in 0 .. ModAdler - 1 /\ a \in Nat
  BY <1>1, ModNat
<1> HIDE DEF a
<1> DEFINE z == s.b + a
           b == z % ModAdler
<1>7. z \in Int
  BY <1>1, <1>2
<1> HIDE DEF z
<1>3. b \in 0 .. ModAdler - 1 /\ b \in Nat
  BY <1>7, ModNat
<1>4. After(s, x) = [a |-> a, b |-> b]
  BY DEF After, a, y, z
<1> HIDE DEF b
<1>5. After(s, x) \in States /\ After(s, x).a = a /\ After(s, x).b = b
  BY <1>2, <1>3, <1>4 DEF States
<1>6. QED
  BY <1>2, <1>3, <1>5 DEF a, b, y, z

(* The same without the remainders.                                         *)
LEMMA AfterCongruent ==
  ASSUME NEW s \in States, NEW x \in Nat, NEW t, t = After(s, x)
  PROVE  /\ s.a \in Int /\ s.b \in Int /\ t.a \in Int /\ t.b \in Int
         /\ Cong(t.a, s.a + x) /\ Cong(t.b, s.b + t.a)
<1>1. s.a \in Nat /\ s.b \in Nat
  BY DEF States
<1>2. t \in States /\ t.a = (s.a + x) % ModAdler /\ t.b = (s.b + t.a) % ModAdler
  BY AfterIs
<1>3. t.a \in Nat /\ t.b \in Nat
  BY <1>2 DEF States
<1> DEFINE y == s.a + x
           z == s.b + t.a
<1>4. y \in Int /\ z \in Int
  BY <1>1, <1>3
<1>5. t.a = y % ModAdler /\ t.b = z % ModAdler
  BY <1>2
<1> HIDE DEF y, z
<1>6. Cong(t.a, y) /\ Cong(t.b, z)
  BY <1>4, <1>5, CongMod
<1>7. QED
  BY <1>1, <1>3, <1>6 DEF y, z

(* p is the state after each byte of w.                                     *)
Sums(w, p) ==
  /\ p \in [0 .. Len(w) -> States]
  /\ p[0] = FirstState
  /\ \A k \in 1 .. Len(w) : p[k] = After(p[k - 1], w[k])

(* The fold of adler32 goes through the bytes from left to right.           *)
LEMMA AdlerUnrolls ==
  ASSUME NEW w \in Seq(Nat)
  PROVE  \E p : Sums(w, p) /\ Adler32(w) = p[Len(w)]
<1> DEFINE D == DOMAIN w
           C == [s \in SUBSET D |-> Max(s)]
           G == [x \in D |-> [v \in States |-> After(v, w[x])]]
           Fold(g) == g = [s \in SUBSET D |-> IF s = {} THEN FirstState
                                              ELSE LET x == Max(s) IN After(g[s \ {x}], w[x])]
<1>1. D = 1 .. Len(w) /\ Len(w) \in Nat /\ IsFiniteSet(D) /\ \A x \in D : w[x] \in Nat
  BY FS_Interval
<1>2. \A s \in SUBSET D : s # {} => Max(s) \in s
  BY <1>1, GreatestElement
<1>3. \A x \in D, v \in States : G[x][v] \in States
  BY <1>1, AfterIs
<1>4. FirstState \in States
  BY DEF FirstState, States
<1>5. Foldable(D, States, FirstState, C, G)
  <2> HIDE DEF G
  <2>1. \A s \in SUBSET D : s # {} => C[s] \in s
    BY <1>2
  <2> HIDE DEF C, D
  <2>2. QED
    BY <1>1, <1>3, <1>4, <2>1 DEF Foldable
<1>6. ASSUME NEW s \in SUBSET D, s # {}, NEW v \in States
      PROVE  G[C[s]][v] = After(v, w[Max(s)]) /\ C[s] = Max(s)
  BY <1>2, <1>6
<1>7. \E g : Fold(g)
  <2> HIDE DEF G, C
  <2>1. PICK g : Folded(g, D, States, FirstState, C, G)
    BY <1>5, FoldExists
  <2>2. ASSUME NEW s \in SUBSET D, s # {}
        PROVE  G[C[s]][g[s \ {C[s]}]] = After(g[s \ {Max(s)}], w[Max(s)])
    <3>1. g[s \ {C[s]}] \in States
      BY <2>1 DEF Folded
    <3>2. QED
      BY <1>6, <2>2, <3>1
  <2>3. \A s \in SUBSET D : g[s] = IF s = {} THEN FirstState
                                     ELSE After(g[s \ {Max(s)}], w[Max(s)])
    BY <2>1, <2>2 DEF Folded
  <2>4. g \in [SUBSET D -> States]
    BY <2>1 DEF Folded
  <2>5. Fold(g)
    BY <2>3, <2>4, Zenon
  <2>6. QED
    BY <2>5
<1> DEFINE h == CHOOSE f : Fold(f)
<1>8. Fold(h)
  BY <1>7
<1>9. Adler32(w) = h[D]
  BY DEF Adler32, FoldLeft, MapThenFoldSet, FirstState, After
<1> HIDE DEF h
<1>10. \A k \in 0 .. Len(w) : 1 .. k \in SUBSET D
  BY <1>1
<1>11. \A s \in SUBSET D : h[s] \in States
  <2>1. h[{}] = FirstState
    BY <1>8
  <2>2. ASSUME NEW s \in SUBSET D, s # {}, h[s \ {C[s]}] \in States
        PROVE  h[s] = G[C[s]][h[s \ {C[s]}]]
    <3>1. C[s] = Max(s) /\ G[C[s]][h[s \ {C[s]}]] = After(h[s \ {C[s]}], w[Max(s)])
      BY <1>6, <2>2
    <3>2. h[s] = After(h[s \ {Max(s)}], w[Max(s)])
      BY <1>8, <2>2
    <3>3. QED
      BY <3>1, <3>2
  <2> HIDE DEF G, C, D, Fold
  <2>3. FoldOf(h, D, States, FirstState, C, G)
    BY <2>1, <2>2 DEF FoldOf
  <2>4. QED
    BY <1>5, <2>3, FoldExists
<1> DEFINE n == Len(w)
           p == [k \in 0 .. n |-> h[1 .. k]]
<1>12. p[0] = FirstState
  <2>1. 1 .. 0 = {} /\ p[0] = h[1 .. 0]
    BY <1>1
  <2>2. QED
    BY <1>8, <2>1
<1>13. ASSUME NEW k \in 1 .. n
       PROVE  p[k] = After(p[k - 1], w[k])
  <2>1. 1 .. k \in SUBSET D /\ 1 .. k # {} /\ k - 1 \in 0 .. n
    BY <1>1
  <2>2. Max(1 .. k) = k
    BY DEF Max
  <2>3. (1 .. k) \ {k} = 1 .. k - 1
    BY <1>1
  <2>4. h[1 .. k] = After(h[1 .. k - 1], w[k])
    BY <1>8, <2>1, <2>2, <2>3
  <2>5. QED
    BY <1>1, <2>1, <2>4
<1>14. p \in [0 .. n -> States] /\ Adler32(w) = p[n]
  BY <1>1, <1>9, <1>10, <1>11
<1> HIDE DEF p
<1>15. QED
  BY <1>12, <1>13, <1>14 DEF Sums

(* One of its steps.                                                        *)
LEMMA SumsStep ==
  ASSUME NEW w \in Seq(Nat), NEW p, Sums(w, p), NEW k \in Nat, k < Len(w)
  PROVE  /\ p[k] \in States /\ p[k + 1] \in States /\ w[k + 1] \in Nat
         /\ p[k + 1] = After(p[k], w[k + 1])
<1>1. k \in 0 .. Len(w) /\ k + 1 \in 0 .. Len(w) /\ k + 1 \in 1 .. Len(w) /\ (k + 1) - 1 = k
  OBVIOUS
<1>2. p[k] \in States /\ p[k + 1] \in States
  BY <1>1 DEF Sums
<1>3. p[k + 1] = After(p[k], w[k + 1])
  BY <1>1 DEF Sums
<1>4. QED
  BY <1>1, <1>2, <1>3

(* A window that moves on by one byte.                                     *)
LEMMA Rolls ==
  ASSUME NEW u \in Seq(0 .. ModAdler), NEW v \in Seq(0 .. ModAdler),
         Len(u) > 0, Len(v) = Len(u),
         \A k \in 1 .. Len(u) - 1 : v[k] = u[k + 1]
  PROVE  Adler32(v) = Roll(Adler32(u), Len(u), u[1], v[Len(u)])
<1> DEFINE n == Len(u)
           x == u[1]
           y == v[n]
<1>1. /\ n \in Nat \ {0} /\ u \in Seq(Nat) /\ v \in Seq(Nat)
      /\ \A k \in 1 .. n : u[k] \in 0 .. ModAdler /\ v[k] \in 0 .. ModAdler
  BY LibAssumption
<1>2. /\ x \in 0 .. ModAdler /\ y \in 0 .. ModAdler /\ x \in Nat /\ y \in Nat
      /\ ModAdler \in Nat /\ ModAdler > 0
      /\ x \in Int /\ y \in Int /\ 0 \in Int /\ 1 \in Int
  BY <1>1, LibAssumption
<1>3. PICK p : Sums(u, p) /\ Adler32(u) = p[n]
  BY <1>1, AdlerUnrolls
<1>4. PICK q : Sums(v, q) /\ Adler32(v) = q[n]
  BY <1>1, AdlerUnrolls
<1>5. p[0] = FirstState /\ q[0] = FirstState /\ FirstState.a = 1 /\ FirstState.b = 0
  BY <1>3, <1>4 DEF Sums, FirstState
<1>7. ASSUME NEW k \in Nat, k < n
      PROVE  /\ p[k].a \in Int /\ p[k].b \in Int /\ q[k].a \in Int /\ q[k].b \in Int
             /\ p[k + 1].a \in Int /\ p[k + 1].b \in Int /\ q[k + 1].a \in Int /\ q[k + 1].b \in Int
             /\ u[k + 1] \in Int /\ v[k + 1] \in Int
             /\ Cong(p[k + 1].a, p[k].a + u[k + 1]) /\ Cong(p[k + 1].b, p[k].b + p[k + 1].a)
             /\ Cong(q[k + 1].a, q[k].a + v[k + 1]) /\ Cong(q[k + 1].b, q[k].b + q[k + 1].a)
  <2>1. /\ p[k] \in States /\ p[k + 1] \in States /\ u[k + 1] \in Nat
        /\ p[k + 1] = After(p[k], u[k + 1])
    BY <1>1, <1>3, <1>7, SumsStep
  <2>2. /\ q[k] \in States /\ q[k + 1] \in States /\ v[k + 1] \in Nat
        /\ q[k + 1] = After(q[k], v[k + 1])
    BY <1>1, <1>4, <1>7, SumsStep
  <2>3. /\ p[k].a \in Int /\ p[k].b \in Int /\ p[k + 1].a \in Int /\ p[k + 1].b \in Int
        /\ Cong(p[k + 1].a, p[k].a + u[k + 1]) /\ Cong(p[k + 1].b, p[k].b + p[k + 1].a)
    BY <2>1, AfterCongruent, Zenon
  <2>4. /\ q[k].a \in Int /\ q[k].b \in Int /\ q[k + 1].a \in Int /\ q[k + 1].b \in Int
        /\ Cong(q[k + 1].a, q[k].a + v[k + 1]) /\ Cong(q[k + 1].b, q[k].b + q[k + 1].a)
    BY <2>2, AfterCongruent, Zenon
  <2>5. QED
    BY <2>1, <2>2, <2>3, <2>4
<1> HIDE DEF n, x, y
<1> DEFINE T == {k \in Nat : k < n => /\ Cong(q[k].a, p[k + 1].a - x)
                                      /\ Cong(q[k].b, p[k + 1].b - (1 + (k + 1) * x))}
<1>8. 0 \in T
  <2>1. 0 < n /\ 0 + 1 = 1 /\ u[1] = x
    BY <1>1 DEF x
  <2>2. /\ p[1].a \in Int /\ p[1].b \in Int
        /\ Cong(p[1].a, 1 + x) /\ Cong(p[1].b, 0 + p[1].a)
    BY <1>5, <1>7, <2>1
  <2> DEFINE pa == p[1].a
             pb == p[1].b
  <2>3. pa \in Int /\ pb \in Int /\ Cong(pa, 1 + x) /\ Cong(pb, pa) /\ 1 + x \in Int
    BY <1>2, <2>2
  <2> HIDE DEF pa, pb
  <2>4. Cong(1, pa - x)
    BY <1>2, <2>3, CongMove, Zenon
  <2>5. Cong(pb, 0 + (1 + x))
    BY <2>3, CongTrans
  <2>6. Cong(0, pb - (1 + x))
    BY <1>2, <2>3, <2>5, CongMove, Zenon
  <2>7. (0 + 1) * x = x
    BY <1>2
  <2>8. Cong(q[0].a, p[0 + 1].a - x) /\ Cong(q[0].b, p[0 + 1].b - (1 + (0 + 1) * x))
    BY <1>5, <2>4, <2>6, <2>7 DEF pa, pb
  <2>9. QED
    BY <2>8
<1>9. ASSUME NEW k \in Nat, k \in T PROVE k + 1 \in T
  <2> SUFFICES ASSUME k + 1 < n
               PROVE  /\ Cong(q[k + 1].a, p[k + 1 + 1].a - x)
                      /\ Cong(q[k + 1].b, p[k + 1 + 1].b - (1 + (k + 1 + 1) * x))
    OBVIOUS
  <2>1. /\ k < n /\ k + 1 \in Nat /\ Cong(q[k].a, p[k + 1].a - x)
        /\ Cong(q[k].b, p[k + 1].b - (1 + (k + 1) * x))
    BY <1>1, <1>9
  <2> HIDE DEF T
  <2> DEFINE pa == p[k + 1].a
             pb == p[k + 1].b
             pa1 == p[k + 1 + 1].a
             pb1 == p[k + 1 + 1].b
             qa == q[k].a
             qb == q[k].b
             qa1 == q[k + 1].a
             qb1 == q[k + 1].b
             z == u[k + 1 + 1]
             c == 1 + (k + 1) * x
  <2>2. z = v[k + 1]
    BY <1>1, <2>1 DEF n
  <2>3. /\ pa \in Int /\ pb \in Int /\ pa1 \in Int /\ pb1 \in Int /\ z \in Int
        /\ Cong(pa1, pa + z) /\ Cong(pb1, pb + pa1)
    BY <1>7, <2>1
  <2>4. /\ qa \in Int /\ qb \in Int /\ qa1 \in Int /\ qb1 \in Int
        /\ Cong(qa1, qa + z) /\ Cong(qb1, qb + qa1)
    BY <1>7, <2>1, <2>2
  <2>5. c \in Int /\ 1 + (k + 1 + 1) * x = c + x /\ Cong(qa, pa - x) /\ Cong(qb, pb - c)
    <3>1. c \in Int /\ 1 + (k + 1 + 1) * x = c + x
      BY <1>2, SMTT(60)
    <3> HIDE DEF x
    <3>2. QED
      BY <2>1, <3>1
  <2> HIDE DEF pa, pb, pa1, pb1, qa, qb, qa1, qb1, z, c
  <2>6. Cong(z, z - 0) /\ x + 0 = x /\ 0 \in Int
    <3>1. Cong(z, z) /\ z - 0 = z
      BY <2>3, CongSelf
    <3>2. QED
      BY <1>2, <3>1
  <2>7. Cong(qa1, pa1 - (x + 0))
    BY <1>2, <2>3, <2>4, <2>5, <2>6, CongGrow, Zenon
  <2>8. Cong(qa1, pa1 - x)
    BY <2>6, <2>7
  <2>9. Cong(qb1, pb1 - (c + x))
    BY <1>2, <2>3, <2>4, <2>5, <2>8, CongGrow, Zenon
  <2>10. QED
    BY <2>5, <2>8, <2>9 DEF pa1, pb1, qa1, qb1
<1>10. n - 1 \in T
  <2> HIDE DEF T
  <2>1. Nat \subseteq T
    BY <1>8, <1>9, SetInduction
  <2>2. QED
    BY <1>1, <2>1
<1> DEFINE pa == p[n].a
           pb == p[n].b
           qa == q[n - 1].a
           qb == q[n - 1].b
           a == (qa + y) % ModAdler
           da == pa - x + y + ModAdler
           db == pb - n * x + a - 1 + ModAdler * (n + 1)
<1>11. /\ n - 1 \in Nat /\ n - 1 < n /\ (n - 1) + 1 = n
       /\ Cong(qa, pa - x) /\ Cong(qb, pb - (1 + n * x))
  BY <1>1, <1>10
<1> HIDE DEF T
<1>12. /\ p[n] \in States /\ q[n - 1] \in States /\ q[n] = After(q[n - 1], y)
  <2>1. p[(n - 1) + 1] \in States /\ q[(n - 1) + 1] = After(q[n - 1], v[(n - 1) + 1])
        /\ q[n - 1] \in States
    BY <1>1, <1>3, <1>4, <1>11, SumsStep DEF n
  <2>2. QED
    BY <1>11, <2>1 DEF y
<1>13. pa \in Nat /\ pb \in Nat /\ qa \in Nat /\ qb \in Nat
  BY <1>12 DEF States
<1>14. q[n] = [a |-> a, b |-> (qb + a) % ModAdler]
  BY <1>12 DEF After
<1>15. Roll(Adler32(u), n, x, y) =
         LET r == Rem(da) IN [a |-> r, b |-> Rem(pb - n * x + r - 1 + ModAdler * (n + 1))]
  BY <1>3 DEF Roll
<1> HIDE DEF pa, pb, qa, qb
<1>16. da \in Nat /\ qa + y \in Int
  BY <1>2, <1>13
<1>17. Rem(da) = a
  <2>1. Cong(qa + y, da)
    <3> DEFINE s == pa - x
               t == y + 1 * ModAdler
    <3>1. s \in Int /\ t \in Int /\ qa \in Int /\ s + t = da
      BY <1>2, <1>13
    <3>2. Cong(y, t)
      BY <1>2, CongSelf
    <3>3. Cong(qa, s)
      BY <1>11
    <3> HIDE DEF s, t
    <3>4. Cong(qa + y, s + t)
      BY <1>2, <3>1, <3>2, <3>3, CongAdd, Zenon
    <3>5. QED
      BY <3>1, <3>4
  <2> HIDE DEF da
  <2>2. Rem(da) = da % ModAdler
    BY <1>16 DEF Rem
  <2>3. QED
    BY <1>16, <2>1, <2>2, CongMods
<1>18. a \in Nat
  <2> DEFINE s == qa + y
  <2>1. s \in Int
    BY <1>16
  <2> HIDE DEF s
  <2>2. s % ModAdler \in Nat
    BY <2>1, ModNat
  <2>3. QED
    BY <2>2 DEF s
<1> HIDE DEF a
<1>19. db \in Nat /\ qb + a \in Int
  <2>1. n * x \in Nat /\ n * x <= n * ModAdler /\ n * ModAdler \in Nat
    BY <1>1, <1>2, Multiples
  <2>2. ModAdler * (n + 1) = n * ModAdler + ModAdler
    BY <1>1, <1>2
  <2> DEFINE out == n * x
             all == n * ModAdler
             more == ModAdler * (n + 1)
  <2>3. out \in Nat /\ out <= all /\ all \in Nat /\ more = all + ModAdler
    BY <2>1, <2>2
  <2> HIDE DEF out, all, more
  <2>4. pb - out + a - 1 + more \in Nat
    BY <1>2, <1>13, <1>18, <2>3
  <2>5. QED
    BY <1>13, <1>18, <2>4 DEF out, more
<1>20. Rem(db) = (qb + a) % ModAdler
  <2>1. Cong(qb + a, db)
    <3> DEFINE s == pb - (1 + n * x)
               t == a + (n + 1) * ModAdler
    <3>1. s \in Int /\ t \in Int /\ qb \in Int /\ a \in Int /\ s + t = db
      BY <1>1, <1>2, <1>13, <1>18
    <3>2. Cong(a, t)
      BY <1>1, <3>1, CongSelf
    <3>3. Cong(qb, s)
      BY <1>11
    <3> HIDE DEF s, t
    <3>4. Cong(qb + a, s + t)
      BY <3>1, <3>2, <3>3, CongAdd, Zenon
    <3>5. QED
      BY <3>1, <3>4
  <2> HIDE DEF db
  <2>2. Rem(db) = db % ModAdler
    BY <1>19 DEF Rem
  <2>3. QED
    BY <1>19, <2>1, <2>2, CongMods
<1>21. QED
  BY <1>4, <1>14, <1>15, <1>17, <1>20 DEF n, x, y

-----------------------------------------------------------------------------
(* Deltas                                                                   *)

(* The sum of the lengths of the ops in S.                                  *)
Member(s) == CHOOSE x \in s : TRUE

SumOver(g, delta, S) ==
  /\ \A s \in SUBSET S : g[s] \in Nat
  /\ g[{}] = 0
  /\ \A s \in SUBSET S : \A x \in s : g[s] = delta[x].length + g[s \ {x}]

Lengths(delta, S) == MapThenSumSet(LAMBDA m : delta[m].length, S)

(* The sum of the lengths can be taken in any order.                        *)
LEMMA SumUnrolls ==
  ASSUME NEW delta, NEW S, IsFiniteSet(S), \A m \in S : delta[m].length \in Nat
  PROVE  \E g : SumOver(g, delta, S) /\ Lengths(delta, S) = g[S]
<1> DEFINE C == [s \in SUBSET S |-> Member(s)]
           G == [x \in S |-> [v \in Nat |-> delta[x].length + v]]
           Total(g) == g = [s \in SUBSET S |-> IF s = {} THEN 0
                                               ELSE delta[Member(s)].length + g[s \ {Member(s)}]]
<1>1. \A s \in SUBSET S : s # {} => C[s] \in s
  BY DEF Member
<1>2. \A x \in S, v \in Nat : G[x][v] = delta[x].length + v /\ G[x][v] \in Nat
  OBVIOUS
<1>3. Foldable(S, Nat, 0, C, G)
  <2> HIDE DEF C, G
  <2>1. QED
    BY <1>1, <1>2 DEF Foldable
<1>4. \A s \in SUBSET S : C[s] = Member(s)
  OBVIOUS
<1>5. \E g : Total(g)
  <2> HIDE DEF C, G
  <2>1. PICK g : Folded(g, S, Nat, 0, C, G)
    BY <1>3, FoldExists
  <2>2. ASSUME NEW s \in SUBSET S, s # {}
        PROVE  G[C[s]][g[s \ {C[s]}]] = delta[Member(s)].length + g[s \ {Member(s)}]
    <3>1. g[s \ {C[s]}] \in Nat /\ C[s] \in S
      BY <1>1, <2>1, <2>2 DEF Folded
    <3>2. QED
      BY <1>2, <1>4, <3>1
  <2>3. \A s \in SUBSET S : g[s] = IF s = {} THEN 0
                                     ELSE delta[Member(s)].length + g[s \ {Member(s)}]
    BY <2>1, <2>2 DEF Folded
  <2>4. g \in [SUBSET S -> Nat]
    BY <2>1 DEF Folded
  <2>5. Total(g)
    BY <2>3, <2>4, Zenon
  <2>6. QED
    BY <2>5
<1> DEFINE h == CHOOSE f : Total(f)
<1>6. Total(h)
  BY <1>5
<1>7. Lengths(delta, S) = h[S]
  BY DEF Lengths, MapThenSumSet, MapThenFoldSet, Member
<1> HIDE DEF h
<1>8. h[{}] = 0 /\ \A s \in SUBSET S : s # {} => h[s] = delta[C[s]].length + h[s \ {C[s]}]
  BY <1>4, <1>6
<1> HIDE DEF C, G, Total
<1>9. \A s \in SUBSET S : h[s] \in Nat
  <2>1. ASSUME NEW s \in SUBSET S, s # {}, h[s \ {C[s]}] \in Nat
        PROVE  h[s] = G[C[s]][h[s \ {C[s]}]]
    BY <1>1, <1>2, <1>8, <2>1
  <2>2. FoldOf(h, S, Nat, 0, C, G)
    BY <1>8, <2>1 DEF FoldOf
  <2>3. QED
    BY <1>3, <2>2, FoldExists
<1> DEFINE T == {k \in Nat : \A s \in SUBSET S : Cardinality(s) <= k =>
                   \A x \in s : h[s] = delta[x].length + h[s \ {x}]}
<1>10. \A s \in SUBSET S : 
         /\ IsFiniteSet(s) /\ Cardinality(s) \in Nat
         /\ Cardinality(s) <= Cardinality(S)
  BY FS_Subset, FS_CardinalityType
<1>11. 0 \in T
  BY <1>10, FS_EmptySet
<1>12. ASSUME NEW k \in Nat, k \in T PROVE k + 1 \in T
  <2> SUFFICES ASSUME NEW s \in SUBSET S, Cardinality(s) <= k + 1, NEW x \in s
               PROVE  h[s] = delta[x].length + h[s \ {x}]
    OBVIOUS
  <2> DEFINE c == C[s]
  <2>1. c \in s /\ h[s] = delta[c].length + h[s \ {c}]
    BY <1>1, <1>8
  <2>2. CASE x = c
    BY <2>1, <2>2
  <2>3. CASE x # c
    <3>1. /\ s \ {c} \in SUBSET S /\ s \ {x} \in SUBSET S
          /\ Cardinality(s \ {c}) <= k /\ Cardinality(s \ {x}) <= k
      BY <1>10, <2>1, FS_RemoveElement
    <3>2. x \in s \ {c} /\ c \in s \ {x} /\ (s \ {c}) \ {x} = (s \ {x}) \ {c}
      BY <2>1, <2>3
    <3>3. \A r \in SUBSET S : Cardinality(r) <= k =>
            \A y \in r : h[r] = delta[y].length + h[r \ {y}]
      BY <1>12
    <3> HIDE DEF T, c
    <3>4. h[s \ {c}] = delta[x].length + h[(s \ {c}) \ {x}]
      BY <3>1, <3>2, <3>3
    <3>5. h[s \ {x}] = delta[c].length + h[(s \ {c}) \ {x}]
      BY <3>1, <3>2, <3>3
    <3>6. delta[x].length \in Nat /\ delta[c].length \in Nat /\ h[(s \ {c}) \ {x}] \in Nat
      BY <1>9, <2>1
    <3>7. QED
      BY <2>1, <3>4, <3>5, <3>6
  <2>4. QED
    BY <2>2, <2>3
<1>13. Cardinality(S) \in T
  <2> HIDE DEF T
  <2>1. Cardinality(S) \in Nat
    BY <1>10
  <2>2. QED
    BY <1>11, <1>12, <2>1, SetInduction
<1>14. \A s \in SUBSET S : \A x \in s : h[s] = delta[x].length + h[s \ {x}]
  BY <1>10, <1>13
<1>15. SumOver(h, delta, S)
  BY <1>8, <1>9, <1>14 DEF SumOver
<1>16. QED
  BY <1>7, <1>15

(* The ops of a delta that cover the bytes up to n one after the other,     *)
(* without gap or overlap.                                                  *)
OpRecords == [type : {"copy", "literal"}, block : Nat, offset : Nat, length : Nat, bytes : Seq(Nat)]
Tiling(delta, n) ==
  /\ delta \in Seq(OpRecords)
  /\ Len(delta) = 0 => n = 0
  /\ Len(delta) > 0 => /\ delta[1].offset = 0
                       /\ delta[Len(delta)].offset + delta[Len(delta)].length = n
  /\ \A m \in 1 .. Len(delta) - 1 : delta[m + 1].offset = delta[m].offset + delta[m].length

(* The fields of the ops of a delta.                                        *)
LEMMA OpsAre ==
  ASSUME NEW delta \in Seq(OpRecords)
  PROVE  /\ Len(delta) \in Nat /\ DOMAIN delta = 1 .. Len(delta) /\ IsFiniteSet(DOMAIN delta)
         /\ \A m \in 1 .. Len(delta) :
              /\ delta[m] \in OpRecords
              /\ delta[m].offset \in Nat /\ delta[m].length \in Nat
              /\ delta[m].type \in {"copy", "literal"}
<1>1. /\ Len(delta) \in Nat /\ DOMAIN delta = 1 .. Len(delta)
      /\ \A m \in 1 .. Len(delta) : delta[m] \in OpRecords
  OBVIOUS
<1>2. IsFiniteSet(DOMAIN delta)
  BY <1>1, FS_Interval
<1>3. QED
  BY <1>1, <1>2 DEF OpRecords

(* The counters of a delta that leaves no gap add up to the bytes it        *)
(* covers.                                                                  *)
LEMMA CountersAddUp ==
  ASSUME NEW delta, NEW n \in Nat, Tiling(delta, n)
  PROVE  Stats(delta).copied + Stats(delta).literal = n
<1> DEFINE N == Len(delta)
           S1 == {m \in DOMAIN delta : delta[m].type = "copy"}
           S2 == {m \in DOMAIN delta : delta[m].type = "literal"}
           End(m) == IF m = 0 THEN 0 ELSE delta[m].offset + delta[m].length
<1>1. /\ N \in Nat /\ DOMAIN delta = 1 .. N /\ IsFiniteSet(DOMAIN delta)
      /\ \A m \in 1 .. N : /\ delta[m].offset \in Nat /\ delta[m].length \in Nat
                           /\ delta[m].type \in {"copy", "literal"}
  BY OpsAre DEF Tiling
<1>2. IsFiniteSet(S1) /\ IsFiniteSet(S2)
  BY <1>1, FS_Subset
<1>3. \A m \in 1 .. N : (m \in S1 <=> m \notin S2)
  BY <1>1
<1>4. S1 \subseteq 1 .. N /\ S2 \subseteq 1 .. N
  BY <1>1
<1>5. Stats(delta).copied = Lengths(delta, S1)
  BY DEF Stats, Lengths
<1>6. Stats(delta).literal = Lengths(delta, S2)
  BY DEF Stats, Lengths
<1> HIDE DEF S1, S2
<1>7. PICK g : SumOver(g, delta, S1) /\ Stats(delta).copied = g[S1]
  <2>1. \A m \in S1 : delta[m].length \in Nat
    BY <1>1, <1>4
  <2>2. \E f : SumOver(f, delta, S1) /\ Lengths(delta, S1) = f[S1]
    BY <1>2, <2>1, SumUnrolls
  <2>3. QED
    BY <1>5, <2>2
<1>8. PICK h : SumOver(h, delta, S2) /\ Stats(delta).literal = h[S2]
  <2>1. \A m \in S2 : delta[m].length \in Nat
    BY <1>1, <1>4
  <2>2. \E f : SumOver(f, delta, S2) /\ Lengths(delta, S2) = f[S2]
    BY <1>2, <2>1, SumUnrolls
  <2>3. QED
    BY <1>6, <2>2
<1> DEFINE T == {m \in Nat : m <= N => g[S1 \cap (1 .. m)] + h[S2 \cap (1 .. m)] = End(m)}
<1>9. 0 \in T
  <2>1. S1 \cap (1 .. 0) = {} /\ S2 \cap (1 .. 0) = {}
    OBVIOUS
  <2>2. QED
    BY <1>7, <1>8, <2>1 DEF SumOver
<1>10. ASSUME NEW m \in Nat, m \in T PROVE m + 1 \in T
  <2> SUFFICES ASSUME m + 1 <= N
               PROVE  g[S1 \cap (1 .. m + 1)] + h[S2 \cap (1 .. m + 1)] = End(m + 1)
    OBVIOUS
  <2>1. g[S1 \cap (1 .. m)] + h[S2 \cap (1 .. m)] = End(m)
    BY <1>1, <1>10
  <2>2. m + 1 \in 1 .. N /\ End(m) \in Nat /\ End(m + 1) = End(m) + delta[m + 1].length
    <3>1. CASE m = 0
      BY <1>1, <3>1 DEF Tiling
    <3>2. CASE m # 0
      <4>1. m \in 1 .. N - 1 /\ m \in 1 .. N /\ m + 1 \in 1 .. N /\ m + 1 # 0
        BY <1>1, <3>2
      <4>2. delta[m + 1].offset = delta[m].offset + delta[m].length
        BY <4>1 DEF Tiling
      <4>3. QED
        BY <1>1, <3>2, <4>1, <4>2
    <3>3. QED
      BY <3>1, <3>2
  <2> DEFINE l == delta[m + 1].length
             a == S1 \cap (1 .. m)
             b == S2 \cap (1 .. m)
             e == End(m)
  <2>3. a \in SUBSET S1 /\ b \in SUBSET S2 /\ g[a] \in Nat /\ h[b] \in Nat /\ l \in Nat /\ e \in Nat
    BY <1>1, <1>7, <1>8, <2>2 DEF SumOver
  <2>4. CASE m + 1 \in S1
    <3>1. /\ m + 1 \in S1 \cap (1 .. m + 1) /\ S1 \cap (1 .. m + 1) \in SUBSET S1
          /\ (S1 \cap (1 .. m + 1)) \ {m + 1} = a
      BY <2>4
    <3>2. S2 \cap (1 .. m + 1) = b
      BY <1>3, <2>2, <2>4
    <3>3. g[S1 \cap (1 .. m + 1)] = l + g[a]
      <4>1. \A s \in SUBSET S1 : \A x \in s : g[s] = delta[x].length + g[s \ {x}]
        BY <1>7 DEF SumOver
      <4>2. QED
        BY <3>1, <4>1, Zenon
    <3>4. g[a] + h[b] = e
      BY <2>1
    <3> DEFINE ga == g[a]
               hb == h[b]
               g1 == g[S1 \cap (1 .. m + 1)]
               h1 == h[S2 \cap (1 .. m + 1)]
    <3>5. /\ ga \in Nat /\ hb \in Nat /\ l \in Nat /\ e \in Nat
          /\ ga + hb = e /\ g1 = l + ga /\ h1 = hb
      BY <2>3, <3>2, <3>3, <3>4
    <3> HIDE DEF l, e, ga, hb, g1, h1
    <3>6. g1 + h1 = e + l
      BY <3>5
    <3>7. QED
      BY <2>2, <3>6 DEF e, l, g1, h1
  <2>5. CASE m + 1 \in S2
    <3>1. /\ m + 1 \in S2 \cap (1 .. m + 1) /\ S2 \cap (1 .. m + 1) \in SUBSET S2
          /\ (S2 \cap (1 .. m + 1)) \ {m + 1} = b
      BY <2>5
    <3>2. S1 \cap (1 .. m + 1) = a
      BY <1>3, <2>2, <2>5
    <3>3. h[S2 \cap (1 .. m + 1)] = l + h[b]
      <4>1. \A s \in SUBSET S2 : \A x \in s : h[s] = delta[x].length + h[s \ {x}]
        BY <1>8 DEF SumOver
      <4>2. QED
        BY <3>1, <4>1, Zenon
    <3>4. g[a] + h[b] = e
      BY <2>1
    <3> DEFINE ga == g[a]
               hb == h[b]
               g1 == g[S1 \cap (1 .. m + 1)]
               h1 == h[S2 \cap (1 .. m + 1)]
    <3>5. /\ ga \in Nat /\ hb \in Nat /\ l \in Nat /\ e \in Nat
          /\ ga + hb = e /\ h1 = l + hb /\ g1 = ga
      BY <2>3, <3>2, <3>3, <3>4
    <3> HIDE DEF l, e, ga, hb, g1, h1
    <3>6. g1 + h1 = e + l
      BY <3>5
    <3>7. QED
      BY <2>2, <3>6 DEF e, l, g1, h1
  <2>6. QED
    BY <1>3, <2>2, <2>4, <2>5
<1>11. N \in T
  <2> HIDE DEF T
  <2>1. QED
    BY <1>1, <1>9, <1>10, SetInduction
<1>12. S1 \cap (1 .. N) = S1 /\ S2 \cap (1 .. N) = S2
  BY <1>4
<1>13. End(N) = n
  BY <1>1 DEF Tiling
<1>14. g[S1] + h[S2] = End(N)
  <2>1. g[S1 \cap (1 .. N)] + h[S2 \cap (1 .. N)] = End(N)
    BY <1>1, <1>11
  <2>2. QED
    BY <1>12, <2>1
<1>15. QED
  BY <1>7, <1>8, <1>13, <1>14, Zenon

(* Each op of a delta gives the bytes of the new file that it stands for.  *)
Right(op, old, sigs, new) ==
  \A k \in op.offset + 1 .. op.offset + op.length :
    new[k] = IF op.type = "literal" THEN op.bytes[k - op.offset]
             ELSE old[sigs[op.block].offset + k - op.offset]

(* No op of it reaches beyond them.                                         *)
LEMMA TilingInside ==
  ASSUME NEW delta, NEW n \in Nat, Tiling(delta, n)
  PROVE  \A m \in 1 .. Len(delta) : delta[m].offset + delta[m].length <= n
<1> DEFINE N == Len(delta)
           End(m) == delta[m].offset + delta[m].length
           T == {j \in Nat : j < N => End(N - j) <= n}
<1>1. /\ N \in Nat
      /\ \A m \in 1 .. N : delta[m].offset \in Nat /\ delta[m].length \in Nat /\ End(m) \in Nat
  BY OpsAre DEF Tiling
<1>2. 0 \in T
  <2>1. ASSUME 0 < N PROVE End(N - 0) <= n
    <3>1. N - 0 = N /\ End(N) = n
      BY <1>1, <2>1 DEF Tiling
    <3>2. QED
      BY <3>1
  <2>2. QED
    BY <2>1
<1>3. ASSUME NEW j \in Nat, j \in T PROVE j + 1 \in T
  <2> SUFFICES ASSUME j + 1 < N PROVE End(N - (j + 1)) <= n
    OBVIOUS
  <2> DEFINE m == N - (j + 1)
  <2>1. m \in 1 .. N - 1 /\ m \in 1 .. N /\ m + 1 \in 1 .. N /\ N - j = m + 1
    BY <1>1
  <2>2. End(m + 1) <= n
    BY <1>1, <1>3, <2>1
  <2>3. delta[m + 1].offset = End(m)
    BY <2>1 DEF Tiling
  <2> HIDE DEF m
  <2>4. End(m) <= n
    BY <1>1, <2>1, <2>2, <2>3
  <2>5. QED
    BY <2>4 DEF m
<1>4. Nat \subseteq T
  <2> HIDE DEF T
  <2>1. QED
    BY <1>2, <1>3, SetInduction
<1>5. ASSUME NEW m \in 1 .. N PROVE End(m) <= n
  <2>1. N - m \in Nat /\ N - m < N /\ N - (N - m) = m
    BY <1>1
  <2>2. QED
    BY <1>4, <2>1
<1>6. QED
  BY <1>5

(* A delta without gaps, each of whose ops is right, rebuilds the file:     *)
(* the last write to a byte is of an op that covers it, and none is past    *)
(* the end.                                                                 *)
LEMMA TilingRebuilds ==
  ASSUME NEW delta, NEW old, NEW sigs, NEW A, NEW new \in Seq(A),
         Tiling(delta, Len(new)), \A m \in 1 .. Len(delta) : Right(delta[m], old, sigs, new)
  PROVE  ApplyDelta(old, sigs, delta, Len(new)) = new
<1> DEFINE N == Len(delta)
           n == Len(new)
           byte(op, k) == IF op.type = "literal" THEN op.bytes[k - op.offset]
                          ELSE old[sigs[op.block].offset + k - op.offset]
           writes(k) == {m \in DOMAIN delta :
                           delta[m].offset < k /\ k <= delta[m].offset + delta[m].length}
           ends == {delta[m].offset + delta[m].length : m \in DOMAIN delta}
<1>1. /\ N \in Nat /\ n \in Nat /\ DOMAIN delta = 1 .. N
      /\ \A m \in 1 .. N : delta[m].offset \in Nat /\ delta[m].length \in Nat
  BY OpsAre DEF Tiling
<1>2. \A m \in 1 .. N : delta[m].offset + delta[m].length <= n
  BY <1>1, TilingInside
<1>3. Greatest({n} \cup ends) = n
  <2> DEFINE E == {n} \cup ends
  <2>1. \A x \in E : x <= n /\ x \in Nat
    BY <1>1, <1>2
  <2>2. E \subseteq 0 .. n /\ n \in E
    BY <1>1, <2>1
  <2> HIDE DEF E
  <2>3. Greatest(E) \in E /\ \A x \in E : Greatest(E) >= x
    BY <1>1, <2>2, GreatestElement
  <2> DEFINE top == Greatest(E)
  <2>4. top \in Nat /\ top <= n /\ top >= n
    BY <2>1, <2>2, <2>3
  <2> HIDE DEF top
  <2>5. top = n
    BY <1>1, <2>4
  <2>6. QED
    BY <2>5 DEF E, top
<1>4. ASSUME NEW k \in 1 .. n PROVE writes(k) # {}
  <2> DEFINE S == {m \in 1 .. N : delta[m].offset < k}
             last == Greatest(S)
  <2>1. N > 0 /\ 1 \in S
    BY <1>1, <1>4 DEF Tiling
  <2>2. S \subseteq 0 .. N /\ S # {}
    <3>1. 1 .. N \subseteq 0 .. N
      OBVIOUS
    <3>2. QED
      BY <2>1, <3>1
  <2>3. last \in S /\ \A m \in S : last >= m
    BY <1>1, <2>2, GreatestElement
  <2> HIDE DEF last
  <2>4. last \in 1 .. N /\ delta[last].offset < k
    BY <2>3
  <2>5. k <= delta[last].offset + delta[last].length
    <3>1. CASE last = N
      BY <1>1, <2>1, <3>1 DEF Tiling
    <3>2. CASE last # N
      <4>1. last \in 1 .. N - 1 /\ last + 1 \in 1 .. N /\ ~ (last >= last + 1)
        <5>1. N \in Nat
          BY <1>1
        <5>2. last \in 1 .. N
          BY <2>4
        <5> HIDE DEF N
        <5>3. QED
          BY <3>2, <5>1, <5>2
      <4>2. last + 1 \notin S
        BY <2>3, <4>1
      <4>3. ~ (delta[last + 1].offset < k)
        BY <4>1, <4>2
      <4>4. delta[last + 1].offset = delta[last].offset + delta[last].length
        BY <4>1 DEF Tiling
      <4>5. QED
        BY <1>1, <2>4, <4>1, <4>3, <4>4
    <3>3. QED
      BY <3>1, <3>2
  <2>6. last \in writes(k)
    BY <1>1, <2>4, <2>5
  <2>7. QED
    BY <2>6
<1>5. ASSUME NEW k \in 1 .. n
      PROVE  (IF writes(k) = {} THEN 0 ELSE byte(delta[Greatest(writes(k))], k)) = new[k]
  <2> DEFINE m == Greatest(writes(k))
  <2>1. writes(k) \subseteq 0 .. N
    BY <1>1
  <2>2. m \in writes(k)
    BY <1>1, <1>4, <2>1, GreatestElement
  <2> HIDE DEF m
  <2>3. m \in 1 .. N /\ k \in delta[m].offset + 1 .. delta[m].offset + delta[m].length
    BY <1>1, <2>2
  <2>4. new[k] = byte(delta[m], k)
    BY <2>3 DEF Right
  <2>5. QED
    BY <1>4, <2>4 DEF m
<1>6. ApplyDelta(old, sigs, delta, n) =
        [k \in 1 .. Greatest({n} \cup ends) |->
           IF writes(k) = {} THEN 0 ELSE byte(delta[Greatest(writes(k))], k)]
  BY DEF ApplyDelta
<1>7. ApplyDelta(old, sigs, delta, n) =
        [k \in 1 .. n |-> IF writes(k) = {} THEN 0 ELSE byte(delta[Greatest(writes(k))], k)]
  BY <1>3, <1>6
<1> HIDE DEF writes, byte, ends
<1>8. ApplyDelta(old, sigs, delta, n) = [k \in 1 .. n |-> new[k]]
  BY <1>5, <1>7
<1>9. new = [k \in 1 .. n |-> new[k]]
  OBVIOUS
<1>10. QED
  BY <1>8, <1>9

-----------------------------------------------------------------------------
(* Chunk mode                                                               *)

(* Math.min and Math.max.                                                   *)
LEMMA PairBounds ==
  ASSUME NEW x \in Nat, NEW y \in Nat
  PROVE  /\ Least({x, y}) \in {x, y} /\ Least({x, y}) <= x /\ Least({x, y}) <= y
         /\ Greatest({x, y}) \in {x, y} /\ Greatest({x, y}) >= x /\ Greatest({x, y}) >= y
<1> DEFINE S == {x, y}
<1>1. S \subseteq Nat /\ S # {} /\ S \subseteq 0 .. x + y /\ x + y \in Nat /\ x \in S /\ y \in S
  OBVIOUS
<1> HIDE DEF S
<1>2. /\ Least(S) \in S /\ \A z \in S : Least(S) <= z
      /\ Greatest(S) \in S /\ \A z \in S : Greatest(S) >= z
  BY <1>1, LeastElement, GreatestElement
<1>3. QED
  BY <1>1, <1>2 DEF S

(* Where the chunk that starts at n ends.                                   *)
CutOf(d, size, hit, n) ==
  LET minSize == Greatest({Floor, size \div 4})
      maxSize == Least({Cap, size * Spread})
      hardMax == Least({n + maxSize, Len(d)})
      found == {k \in n + minSize + 1 .. hardMax : Slice(d, n, k) \in hit}
  IN  IF found = {} THEN Greatest({hardMax, Least({n + 1, Len(d)})}) ELSE Least(found)

(* A cut is after the last one and inside the file, wherever the mask       *)
(* hits.                                                                    *)
LEMMA CutInside ==
  ASSUME NEW d, Len(d) \in Nat, NEW size \in Nat, NEW hit, NEW n \in 0 .. Len(d), n # Len(d)
  PROVE  CutOf(d, size, hit, n) \in n + 1 .. Len(d)
<1> DEFINE len == Len(d)
           minSize == Greatest({Floor, size \div 4})
           maxSize == Least({Cap, size * Spread})
           hardMax == Least({n + maxSize, len})
           least == Least({n + 1, len})
           found == {k \in n + minSize + 1 .. hardMax : Slice(d, n, k) \in hit}
<1>1. minSize \in Nat
  <2>1. Floor \in Nat /\ size \div 4 \in Nat
    BY LibAssumption
  <2> DEFINE x == size \div 4
  <2> HIDE DEF x
  <2>2. Greatest({Floor, x}) \in {Floor, x}
    BY <2>1, PairBounds DEF x
  <2>3. QED
    BY <2>1, <2>2 DEF x
<1>2. maxSize \in Nat
  <2> DEFINE x == size * Spread
  <2>1. Cap \in Nat /\ x \in Nat
    BY LibAssumption
  <2> HIDE DEF x
  <2>2. Least({Cap, x}) \in {Cap, x}
    BY <2>1, PairBounds
  <2>3. QED
    BY <2>1, <2>2 DEF x
<1> HIDE DEF minSize, maxSize
<1>3. len \in Nat /\ n \in Nat /\ n < len
  OBVIOUS
<1> HIDE DEF len
<1>4. hardMax \in Nat /\ hardMax <= len
  <2> DEFINE x == n + maxSize
  <2>1. x \in Nat
    BY <1>2, <1>3
  <2> HIDE DEF x
  <2>2. Least({x, len}) \in {x, len} /\ Least({x, len}) <= len
    BY <1>3, <2>1, PairBounds
  <2>3. QED
    BY <1>3, <2>1, <2>2 DEF x
<1>5. least \in n + 1 .. len
  <2> DEFINE x == n + 1
  <2>1. x \in Nat /\ x <= len
    BY <1>3
  <2> HIDE DEF x
  <2>2. Least({x, len}) \in {x, len}
    BY <1>3, <2>1, PairBounds
  <2>3. QED
    BY <1>3, <2>1, <2>2 DEF x
<1> HIDE DEF hardMax, least
<1>6. ASSUME found # {} PROVE Least(found) \in n + 1 .. len
  <2>1. found \subseteq n + 1 .. len /\ found \subseteq Nat
    BY <1>1, <1>3, <1>4
  <2> HIDE DEF found
  <2>2. Least(found) \in found
    BY <1>6, <2>1, LeastElement
  <2>3. QED
    BY <2>1, <2>2
<1>7. Greatest({hardMax, least}) \in n + 1 .. len
  <2>1. least \in Nat /\ n + 1 <= least /\ least <= len
    BY <1>3, <1>5
  <2> DEFINE g == Greatest({hardMax, least})
  <2>2. g \in {hardMax, least} /\ g >= least
    BY <1>4, <2>1, PairBounds
  <2> HIDE DEF g
  <2>3. g \in n + 1 .. len
    BY <1>3, <1>4, <2>1, <2>2
  <2>4. QED
    BY <2>3 DEF g
<1>8. CutOf(d, size, hit, n) = IF found = {} THEN Greatest({hardMax, least}) ELSE Least(found)
  BY DEF CutOf, hardMax, least, minSize, maxSize, len
<1> HIDE DEF found
<1>9. CutOf(d, size, hit, n) \in n + 1 .. len
  BY <1>6, <1>7, <1>8
<1>10. QED
  BY <1>9 DEF len

(* Ranges that follow each other from n to len.                             *)
Chained(r, n, len) ==
  /\ r \in Seq(Nat \X Nat)
  /\ Len(r) = 0 => n = len
  /\ Len(r) > 0 => r[1][1] = n /\ r[Len(r)][2] = len
  /\ \A k \in 1 .. Len(r) : r[k][1] < r[k][2] /\ r[k][2] <= len
  /\ \A k \in 1 .. Len(r) - 1 : r[k + 1][1] = r[k][2]

(* A range before ranges that follow each other.                            *)
LEMMA ChainGrows ==
  ASSUME NEW n \in Nat, NEW e \in Nat, NEW len \in Nat, NEW r, Chained(r, e, len), n < e, e <= len
  PROVE  Chained(<<<<n, e>>>> \o r, n, len)
<1> DEFINE t == <<<<n, e>>>> \o r
           m == Len(r)
<1>1. r \in Seq(Nat \X Nat) /\ m \in Nat
  BY DEF Chained
<1>2. t \in Seq(Nat \X Nat) /\ Len(t) = m + 1 /\ t[1] = <<n, e>>
  BY <1>1
<1>3. ASSUME NEW k \in 1 .. m PROVE t[k + 1] = r[k]
  <2>1. <<<<n, e>>>> \in Seq(Nat \X Nat) /\ Len(<<<<n, e>>>>) = 1
    OBVIOUS
  <2>2. k + 1 \in 1 .. 1 + m /\ ~ (k + 1 <= 1) /\ (k + 1) - 1 = k
    BY <1>1
  <2>3. t[k + 1] = r[(k + 1) - 1]
    BY <1>1, <2>1, <2>2, ConcatProperties
  <2>4. QED
    BY <2>2, <2>3
<1> HIDE DEF t
<1>4. t[1][1] = n /\ t[1][2] = e
  BY <1>2
<1>5. t[m + 1][2] = len
  <2>1. CASE m = 0
    BY <1>4, <2>1 DEF Chained
  <2>2. CASE m # 0
    <3>1. m \in 1 .. m /\ m > 0
      BY <1>1, <2>2
    <3>2. t[m + 1] = r[m]
      BY <1>3, <3>1
    <3>3. QED
      BY <3>1, <3>2 DEF Chained
  <2>3. QED
    BY <2>1, <2>2
<1>6. ASSUME NEW k \in 1 .. m + 1 PROVE t[k][1] < t[k][2] /\ t[k][2] <= len
  <2>1. CASE k = 1
    BY <1>4, <2>1
  <2>2. CASE k # 1
    <3>1. k - 1 \in 1 .. m /\ (k - 1) + 1 = k
      BY <1>1, <2>2
    <3>2. t[k] = r[k - 1]
      BY <1>3, <3>1
    <3>3. QED
      BY <3>1, <3>2 DEF Chained
  <2>3. QED
    BY <2>1, <2>2
<1>7. ASSUME NEW k \in 1 .. m PROVE t[k + 1][1] = t[k][2]
  <2>1. CASE k = 1
    <3>1. m > 0 /\ t[k + 1] = r[1]
      BY <1>1, <1>3, <2>1
    <3>2. QED
      BY <1>4, <2>1, <3>1 DEF Chained
  <2>2. CASE k # 1
    <3>1. k - 1 \in 1 .. m /\ (k - 1) + 1 = k /\ k - 1 \in 1 .. m - 1
      BY <1>1, <2>2
    <3>2. t[k] = r[k - 1] /\ t[k + 1] = r[k]
      BY <1>3, <3>1
    <3>3. r[(k - 1) + 1][1] = r[k - 1][2]
      BY <3>1 DEF Chained
    <3>4. QED
      BY <3>1, <3>2, <3>3
  <2>3. QED
    BY <2>1, <2>2
<1>8. Chained(t, n, len)
  <2>1. Len(t) # 0 /\ Len(t) - 1 = m
    BY <1>1, <1>2
  <2>2. QED
    BY <1>2, <1>4, <1>5, <1>6, <1>7, <2>1 DEF Chained
<1>9. QED
  BY <1>8 DEF t

(* The chunks of a file follow each other from its start to its end.        *)
LEMMA RangesChain ==
  ASSUME NEW d, Len(d) \in Nat, NEW size \in Nat, NEW hit
  PROVE  Chained(Ranges(d, size, hit), 0, Len(d))
<1> DEFINE len == Len(d)
           D == 0 .. len
           V == Seq(Nat \X Nat)
           rank == [n \in D |-> len - n]
           N == [n \in D |-> CutOf(d, size, hit, n)]
           H == [n \in D |-> [v \in V |-> <<<<n, N[n]>>>> \o v]]
           From(f) == f = [n \in D |-> IF n = len THEN <<>>
                                       ELSE <<<<n, CutOf(d, size, hit, n)>>>>
                                            \o f[CutOf(d, size, hit, n)]]
<1>1. \A n \in D : /\ n \in Nat /\ rank[n] = len - n /\ rank[n] \in 0 .. len
                   /\ (rank[n] = 0 <=> n = len) /\ (rank[n] > 0 <=> n # len)
                   /\ N[n] = CutOf(d, size, hit, n)
  OBVIOUS
<1>2. \A n \in D : n # len => N[n] \in n + 1 .. len
  BY <1>1, CutInside
<1>3. \A n \in D : n # len => N[n] \in D /\ N[n] \in Nat /\ rank[N[n]] < rank[n]
  <2> HIDE DEF N
  <2>1. QED
    BY <1>2
<1>4. \A n \in D, v \in V : H[n][v] = <<<<n, N[n]>>>> \o v
  OBVIOUS
<1>5. \A n \in D : n # len => \A v \in V : H[n][v] \in V
  <2> SUFFICES ASSUME NEW n \in D, n # len, NEW v \in V PROVE <<<<n, N[n]>>>> \o v \in V
    BY <1>4
  <2> HIDE DEF N
  <2>1. <<n, N[n]>> \in Nat \X Nat
    BY <1>1, <1>3
  <2>2. QED
    BY <2>1
<1>6. <<>> \in V /\ len \in Nat
  OBVIOUS
<1>7. \E f : From(f)
  <2> HIDE DEF N, H, rank, V, D
  <2>1. Descends(D, rank, N, len)
    BY <1>1, <1>3, <1>6 DEF Descends
  <2>2. Closed(D, V, rank, <<>>, H)
    BY <1>1, <1>5, <1>6 DEF Closed
  <2>3. PICK f \in [D -> V] : Solves(f, D, rank, N, <<>>, H)
    BY <2>1, <2>2, RecursionExists
  <2>4. ASSUME NEW n \in D
        PROVE  f[n] = IF n = len THEN <<>>
                      ELSE <<<<n, CutOf(d, size, hit, n)>>>> \o f[CutOf(d, size, hit, n)]
    <3>1. CASE n = len
      BY <1>1, <2>3, <3>1 DEF Solves
    <3>2. CASE n # len
      <4>1. f[n] = H[n][f[N[n]]] /\ f[N[n]] \in V
        BY <1>1, <1>3, <2>3, <3>2 DEF Solves
      <4>2. f[n] = <<<<n, N[n]>>>> \o f[N[n]]
        BY <1>4, <4>1
      <4>3. N[n] = CutOf(d, size, hit, n)
        BY <1>1
      <4>4. QED
        BY <3>2, <4>2, <4>3, Zenon
    <3>3. QED
      BY <3>1, <3>2
  <2>5. From(f)
    BY <2>3, <2>4, Zenon
  <2>6. QED
    BY <2>5
<1> DEFINE h == CHOOSE f : From(f)
<1>8. From(h)
  BY <1>7
<1>9. Ranges(d, size, hit) = h[0]
  BY DEF Ranges, CutOf
<1> HIDE DEF h
<1>10. \A n \in D : h[n] = IF n = len THEN <<>> ELSE <<<<n, N[n]>>>> \o h[N[n]]
  <2>1. \A n \in D : h[n] = IF n = len THEN <<>>
                            ELSE <<<<n, CutOf(d, size, hit, n)>>>> \o h[CutOf(d, size, hit, n)]
    BY <1>8
  <2> HIDE DEF N
  <2>2. QED
    BY <1>1, <2>1
<1> HIDE DEF N, H, From, V
<1> DEFINE T == {m \in Nat : \A n \in D : len - n <= m => Chained(h[n], n, len)}
<1>11. ASSUME NEW n \in D, n = len PROVE Chained(h[n], n, len)
  <2>1. h[n] = <<>>
    BY <1>10, <1>11
  <2>2. Chained(<<>>, len, len)
    BY DEF Chained
  <2>3. QED
    BY <1>11, <2>1, <2>2
<1>12. 0 \in T
  <2>1. \A n \in D : len - n <= 0 => n = len
    BY <1>6
  <2>2. QED
    BY <1>11, <2>1
<1>13. ASSUME NEW m \in Nat, m \in T PROVE m + 1 \in T
  <2>1. ASSUME NEW n \in D, len - n <= m + 1, n # len PROVE Chained(h[n], n, len)
    <3> DEFINE e == N[n]
    <3>1. e \in n + 1 .. len
      BY <1>2, <2>1
    <3>2. h[n] = <<<<n, e>>>> \o h[e]
      BY <1>10, <2>1
    <3> HIDE DEF e
    <3>3. e \in D /\ len - e <= m /\ n < e /\ e <= len /\ n \in Nat /\ e \in Nat /\ len \in Nat
      BY <1>6, <2>1, <3>1
    <3>4. Chained(h[e], e, len)
      BY <1>13, <3>3
    <3>5. Chained(<<<<n, e>>>> \o h[e], n, len)
      BY <3>3, <3>4, ChainGrows
    <3>6. QED
      BY <3>2, <3>5
  <2>2. \A n \in D : len - n <= m + 1 => Chained(h[n], n, len)
    BY <1>11, <2>1
  <2>3. QED
    BY <2>2
<1>14. len \in T
  <2> HIDE DEF T
  <2>1. QED
    BY <1>6, <1>12, <1>13, SetInduction
<1>15. 0 \in D /\ len - 0 <= len
  BY <1>6
<1>16. QED
  BY <1>9, <1>14, <1>15

(* The bytes of a slice.                                                    *)
LEMMA SliceIs ==
  ASSUME NEW A, NEW d \in Seq(A), NEW s \in Nat, NEW e \in Nat, s <= e, e <= Len(d)
  PROVE  /\ Slice(d, s, e) \in Seq(A) /\ Len(Slice(d, s, e)) = e - s
         /\ \A j \in 1 .. e - s : Slice(d, s, e)[j] = d[s + j]
<1>1. s + 1 \in Nat /\ s + 1 >= 1 /\ Len(d) \in Nat
  OBVIOUS
<1> DEFINE m == s + 1
<1>2. SubSeq(d, m, e) = [j \in 1 .. e - m + 1 |-> d[j + m - 1]]
  BY <1>1
<1>3. e - m + 1 = e - s /\ \A j \in 1 .. e - s : j + m - 1 = s + j /\ s + j \in 1 .. Len(d)
  BY <1>1
<1>4. SubSeq(d, m, e) = [j \in 1 .. e - s |-> d[s + j]]
  BY <1>2, <1>3
<1>5. e - s \in Nat /\ \A j \in 1 .. e - s : d[s + j] \in A
  BY <1>3
<1>6. QED
  BY <1>4, <1>5 DEF Slice

(* The bytes of a window.                                                  *)
LEMMA WindowIs ==
  ASSUME NEW A, NEW d \in Seq(A), NEW s \in Nat, NEW m \in Nat, s + m <= Len(d)
  PROVE  /\ Slice(d, s, s + m) \in Seq(A) /\ Len(Slice(d, s, s + m)) = m
         /\ \A j \in 1 .. m : Slice(d, s, s + m)[j] = d[s + j]
<1> DEFINE e == s + m
<1>1. e \in Nat /\ s <= e /\ e - s = m /\ e <= Len(d)
  OBVIOUS
<1> HIDE DEF e
<1>2. /\ Slice(d, s, e) \in Seq(A) /\ Len(Slice(d, s, e)) = e - s
      /\ \A j \in 1 .. e - s : Slice(d, s, e)[j] = d[s + j]
  BY <1>1, SliceIs, ZenonT(60)
<1>3. /\ Slice(d, s, e) \in Seq(A) /\ Len(Slice(d, s, e)) = m
      /\ \A j \in 1 .. m : Slice(d, s, e)[j] = d[s + j]
  BY <1>1, <1>2, ZenonT(60)
<1>4. QED
  BY <1>3 DEF e

(* An op for the bytes from s to e.                                         *)
Piece(op, s, e) ==
  /\ op \in OpRecords
  /\ op.offset = s /\ op.length = e - s

(* A literal is right, as it carries the bytes it stands for.               *)
LEMMA LiteralIs ==
  ASSUME NEW d \in Seq(Nat), NEW s \in Nat, NEW e \in Nat, s <= e, e <= Len(d), NEW old, NEW sigs
  PROVE  Piece(Literal(d, s, e), s, e) /\ Right(Literal(d, s, e), old, sigs, d)
<1> DEFINE op == Literal(d, s, e)
           b == Slice(d, s, e)
<1>1. b \in Seq(Nat) /\ \A j \in 1 .. e - s : b[j] = d[s + j]
  BY SliceIs
<1> HIDE DEF b
<1>2. op = [type |-> "literal", block |-> 0, offset |-> s, length |-> e - s, bytes |-> b]
  BY DEF Literal, b
<1>3. e - s \in Nat
  OBVIOUS
<1>4. /\ op \in OpRecords /\ op.offset = s /\ op.length = e - s /\ op.type = "literal"
      /\ op.bytes = b
  BY <1>1, <1>2, <1>3 DEF OpRecords
<1> HIDE DEF op
<1>5. Right(op, old, sigs, d)
  <2>1. ASSUME NEW k \in s + 1 .. s + (e - s) PROVE d[k] = b[k - s]
    <3>1. k - s \in 1 .. e - s /\ s + (k - s) = k
      OBVIOUS
    <3>2. b[k - s] = d[s + (k - s)]
      BY <1>1, <3>1
    <3>3. QED
      BY <3>1, <3>2
  <2>2. QED
    BY <1>4, <2>1 DEF Right
<1>6. QED
  BY <1>4, <1>5 DEF op, Piece

(* Each signature is of a piece of the old file.                           *)
Signed(sigs, old) ==
  /\ DOMAIN sigs \subseteq Nat
  /\ \A b \in DOMAIN sigs : \E s, e \in Nat : e <= Len(old) /\ sigs[b] = Signature(old, s, e)

(* A copy of a block with the bytes of the window is right.                 *)
LEMMA CopyIs ==
  ASSUME NEW old \in Seq(Nat), NEW new \in Seq(Nat), NEW s \in Nat, NEW e \in Nat,
         s <= e, e <= Len(new), NEW sigs, Signed(sigs, old), NEW b \in DOMAIN sigs,
         sigs[b].strong = Slice(new, s, e), sigs[b].length = e - s
  PROVE  Piece(Copy(b, s, e - s), s, e) /\ Right(Copy(b, s, e - s), old, sigs, new)
<1> DEFINE op == Copy(b, s, e - s)
           w == Slice(new, s, e)
<1>1. \A j \in 1 .. e - s : w[j] = new[s + j]
  BY SliceIs
<1>2. e - s \in Nat /\ b \in Nat
  BY DEF Signed
<1>3. /\ op \in OpRecords /\ op.offset = s /\ op.length = e - s /\ op.type = "copy"
      /\ op.block = b
  <2> DEFINE none == <<>>
  <2>1. op = [type |-> "copy", block |-> b, offset |-> s, length |-> e - s, bytes |-> none]
    BY DEF Copy
  <2>2. none \in Seq(Nat)
    OBVIOUS
  <2> HIDE DEF op, none
  <2>3. QED
    BY <1>2, <2>1, <2>2 DEF OpRecords
<1> HIDE DEF op
<1>4. PICK so \in Nat, se \in Nat : se <= Len(old) /\ sigs[b] = Signature(old, so, se)
  BY DEF Signed
<1>5. sigs[b].offset = so /\ sigs[b].length = se - so /\ sigs[b].strong = Slice(old, so, se)
  BY <1>4 DEF Signature
<1>6. so <= se /\ se - so = e - s
  BY <1>4, <1>5
<1>7. \A j \in 1 .. se - so : Slice(old, so, se)[j] = old[so + j]
  BY <1>4, <1>6, SliceIs
<1>8. \A j \in 1 .. e - s : w[j] = old[so + j]
  BY <1>5, <1>6, <1>7
<1> HIDE DEF w
<1>9. Right(op, old, sigs, new)
  <2>1. ASSUME NEW k \in s + 1 .. s + (e - s) PROVE new[k] = old[so + k - s]
    <3>1. k - s \in 1 .. e - s /\ s + (k - s) = k /\ so + (k - s) = so + k - s
      OBVIOUS
    <3>2. w[k - s] = new[s + (k - s)] /\ w[k - s] = old[so + (k - s)]
      BY <1>1, <1>8, <3>1
    <3>3. QED
      BY <3>1, <3>2
  <2>2. op.type # "literal" /\ sigs[op.block].offset = so
    BY <1>3, <1>5
  <2>3. QED
    BY <1>3, <2>1, <2>2 DEF Right
<1>10. QED
  BY <1>3, <1>9 DEF op, Piece

(* Signatures in chunk mode are of pieces of the file.                      *)
LEMMA ChunksSigned ==
  ASSUME NEW old, Len(old) \in Nat, NEW size \in Nat, NEW hit
  PROVE  Signed(ChunkSignatures(old, size, hit), old)
<1> DEFINE r == Ranges(old, size, hit)
           sigs == ChunkSignatures(old, size, hit)
<1>1. Chained(r, 0, Len(old))
  BY RangesChain
<1>2. sigs = [k \in DOMAIN r |-> Signature(old, r[k][1], r[k][2])]
  BY DEF ChunkSignatures
<1> HIDE DEF r, sigs
<1>3. /\ DOMAIN r = 1 .. Len(r) /\ Len(r) \in Nat
      /\ \A k \in 1 .. Len(r) : r[k] \in Nat \X Nat /\ r[k][2] <= Len(old)
  BY <1>1 DEF Chained
<1>4. ASSUME NEW k \in DOMAIN sigs
      PROVE  \E s, e \in Nat : e <= Len(old) /\ sigs[k] = Signature(old, s, e)
  <2>1. k \in 1 .. Len(r) /\ sigs[k] = Signature(old, r[k][1], r[k][2])
    BY <1>2, <1>3
  <2>2. r[k][1] \in Nat /\ r[k][2] \in Nat /\ r[k][2] <= Len(old)
    BY <1>3, <2>1
  <2>3. QED
    BY <2>1, <2>2, Zenon
<1>5. DOMAIN sigs \subseteq Nat
  BY <1>2, <1>3
<1>6. Signed(sigs, old)
  BY <1>4, <1>5 DEF Signed
<1>7. QED
  BY <1>6 DEF sigs

(* A delta that rebuilds a file up to byte n, and one that rebuilds all of *)
(* it.                                                                     *)
Covers(delta, n, old, sigs, new) ==
  /\ Tiling(delta, n)
  /\ \A m \in 1 .. Len(delta) : Right(delta[m], old, sigs, new)
Delivers(delta, old, sigs, new) == Covers(delta, Len(new), old, sigs, new)

(* A delta that covers the file rebuilds it, and its counters add up.       *)
LEMMA DeliversRebuilds ==
  ASSUME NEW old, NEW sigs, NEW new \in Seq(Nat), NEW delta, Delivers(delta, old, sigs, new)
  PROVE  Rebuilds(old, sigs, Result(delta), new)
<1>1. Tiling(delta, Len(new)) /\ \A m \in 1 .. Len(delta) : Right(delta[m], old, sigs, new)
  BY DEF Covers, Delivers
<1>2. ApplyDelta(old, sigs, delta, Len(new)) = new
  BY <1>1, TilingRebuilds
<1>3. Len(new) \in Nat
  OBVIOUS
<1>4. Stats(delta).copied + Stats(delta).literal = Len(new)
  BY <1>1, <1>3, CountersAddUp
<1>5. Result(delta).ops = delta /\ Result(delta).stats = Stats(delta)
  BY DEF Result
<1>6. QED
  BY <1>2, <1>4, <1>5 DEF Rebuilds

LEMMA FunctionIsSeq ==
  ASSUME NEW A, NEW n \in Nat, NEW f \in [1 .. n -> A]
  PROVE  f \in Seq(A) /\ Len(f) = n
  OBVIOUS

(* In chunk mode a delta covers the file, whatever signed file it is made   *)
(* against.                                                                 *)
LEMMA ChunkDeltaDelivers ==
  ASSUME NEW old \in Seq(Nat), NEW new \in Seq(Nat), NEW size \in Nat, NEW hit,
         NEW sigs, Signed(sigs, old)
  PROVE  Delivers(ChunkDelta(new, sigs, size, hit), old, sigs, new)
<1> DEFINE r == Ranges(new, size, hit)
           len == Len(new)
           op(s, e) == IF ChunkMatches(sigs, Slice(new, s, e)) # {}
                       THEN Copy(Least(ChunkMatches(sigs, Slice(new, s, e))), s, e - s)
                       ELSE Literal(new, s, e)
           delta == ChunkDelta(new, sigs, size, hit)
<1> SUFFICES Delivers(delta, old, sigs, new)
  OBVIOUS
<1>1. len \in Nat
  OBVIOUS
<1>2. Chained(r, 0, len)
  BY RangesChain
<1>3. delta = IF sigs # <<>> THEN [k \in DOMAIN r |-> op(r[k][1], r[k][2])]
              ELSE IF new # <<>> THEN <<Literal(new, 0, len)>> ELSE <<>>
  BY DEF ChunkDelta
<1>4. ASSUME NEW s \in Nat, NEW e \in Nat, s <= e, e <= len
      PROVE  Piece(op(s, e), s, e) /\ Right(op(s, e), old, sigs, new)
  <2> DEFINE w == Slice(new, s, e)
             found == ChunkMatches(sigs, w)
  <2>1. CASE found = {}
    <3>1. op(s, e) = Literal(new, s, e)
      BY <2>1
    <3>2. Piece(Literal(new, s, e), s, e) /\ Right(Literal(new, s, e), old, sigs, new)
      BY <1>4, LiteralIs
    <3>3. QED
      BY <3>1, <3>2
  <2>2. CASE found # {}
    <3> DEFINE b == Least(found)
    <3>1. found \subseteq DOMAIN sigs /\ found \subseteq Nat
      BY DEF ChunkMatches, Bucket, Signed
    <3>2. b \in found
      <4> HIDE DEF found
      <4>1. QED
        BY <2>2, <3>1, LeastElement
    <3>3. op(s, e) = Copy(b, s, e - s)
      BY <2>2
    <3> HIDE DEF b
    <3>4. b \in DOMAIN sigs /\ sigs[b].strong = w /\ sigs[b].length = Len(w)
      BY <3>2 DEF ChunkMatches, Bucket
    <3>5. Len(w) = e - s
      BY <1>4, SliceIs
    <3>6. Piece(Copy(b, s, e - s), s, e) /\ Right(Copy(b, s, e - s), old, sigs, new)
      BY <1>4, <3>4, <3>5, CopyIs
    <3>7. QED
      BY <3>3, <3>6
  <2>3. QED
    BY <2>1, <2>2
<1> HIDE DEF op, r, delta, len
<1>5. CASE sigs # <<>>
  <2> DEFINE n == Len(r)
  <2>1. /\ n \in Nat /\ DOMAIN r = 1 .. n
        /\ \A k \in 1 .. n : r[k][1] \in Nat /\ r[k][2] \in Nat
                              /\ r[k][1] <= r[k][2] /\ r[k][2] <= len
    <3>1. /\ n \in Nat /\ DOMAIN r = 1 .. n
          /\ \A k \in 1 .. n : r[k] \in Nat \X Nat
      BY <1>2 DEF Chained
    <3>2. \A k \in 1 .. n : r[k][1] < r[k][2] /\ r[k][2] <= len
      BY <1>2 DEF Chained
    <3>3. \A k \in 1 .. n : r[k][1] \in Nat /\ r[k][2] \in Nat
      BY <3>1
    <3>4. QED
      BY <3>1, <3>2, <3>3
  <2> HIDE DEF n
  <2>2. delta = [k \in 1 .. n |-> op(r[k][1], r[k][2])]
    BY <1>3, <1>5, <2>1
  <2>3. \A k \in 1 .. n : /\ Piece(delta[k], r[k][1], r[k][2])
                          /\ Right(delta[k], old, sigs, new)
    BY <1>4, <2>1, <2>2
  <2>4. \A k \in 1 .. n : /\ delta[k] \in OpRecords /\ delta[k].offset = r[k][1]
                          /\ delta[k].length = r[k][2] - r[k][1]
                          /\ delta[k].offset + delta[k].length = r[k][2]
    BY <2>1, <2>3 DEF Piece
  <2>5. delta \in Seq(OpRecords) /\ Len(delta) = n
    <3>1. delta \in [1 .. n -> OpRecords]
      BY <2>2, <2>4
    <3>2. QED
      BY <2>1, <3>1, FunctionIsSeq
  <2>6. Tiling(delta, len)
    <3>1. n = 0 => len = 0
      BY <1>2 DEF Chained, n
    <3>2. n > 0 => 1 \in 1 .. n /\ n \in 1 .. n /\ r[1][1] = 0 /\ r[n][2] = len
      BY <1>2, <2>1 DEF Chained, n
    <3>3. \A k \in 1 .. n - 1 : k \in 1 .. n /\ k + 1 \in 1 .. n /\ r[k + 1][1] = r[k][2]
      BY <1>2, <2>1 DEF Chained, n
    <3>4. QED
      BY <2>4, <2>5, <3>1, <3>2, <3>3 DEF Tiling
  <2>7. QED
    BY <2>3, <2>5, <2>6 DEF Covers, Delivers, len
<1>6. CASE sigs = <<>> /\ new # <<>>
  <2> DEFINE all == Literal(new, 0, len)
  <2>1. delta = <<all>>
    BY <1>3, <1>6
  <2>2. Piece(all, 0, len) /\ Right(all, old, sigs, new)
    BY <1>1, LiteralIs DEF len
  <2> HIDE DEF all
  <2>3. all \in OpRecords /\ all.offset = 0 /\ all.length = len - 0 /\ all.offset + all.length = len
    BY <1>1, <2>2 DEF Piece
  <2>4. delta \in Seq(OpRecords) /\ Len(delta) = 1 /\ delta[1] = all
    BY <2>1, <2>3
  <2>5. Tiling(delta, len)
    BY <2>3, <2>4 DEF Tiling
  <2>6. QED
    BY <2>2, <2>4, <2>5 DEF Covers, Delivers, len
<1>7. CASE sigs = <<>> /\ new = <<>>
  <2>1. delta = <<>> /\ len = 0
    BY <1>3, <1>7 DEF len
  <2>2. Tiling(delta, len) /\ Len(delta) = 0
    BY <2>1 DEF Tiling
  <2>3. QED
    BY <2>2 DEF Covers, Delivers, len
<1>8. QED
  BY <1>5, <1>6, <1>7

(* So a run of the page finds the new text rebuilt.                         *)
LEMMA ReconstructionAgrees ==
  ASSUME NEW hitsOf, NEW p, p.old \in Seq(Nat), p.new \in Seq(Nat), p.size \in Nat
  PROVE  Reconstructed(hitsOf, p)
<1> DEFINE sigs == ChunkSignatures(p.old, p.size, hitsOf[p.size])
           delta == ChunkDelta(p.new, sigs, p.size, hitsOf[p.size])
<1>1. Signed(sigs, p.old)
  BY ChunksSigned
<1> HIDE DEF sigs
<1>2. Delivers(delta, p.old, sigs, p.new)
  BY <1>1, ChunkDeltaDelivers
<1> HIDE DEF delta
<1>3. Rebuilds(p.old, sigs, Result(delta), p.new)
  BY <1>2, DeliversRebuilds
<1>4. QED
  BY <1>3 DEF Reconstructed, sigs, delta

-----------------------------------------------------------------------------
(* Block mode                                                               *)

(* One more op.                                                             *)
LEMMA CoverGrows ==
  ASSUME NEW delta, NEW s \in Nat, NEW e \in Nat, NEW old, NEW sigs, NEW new,
         Covers(delta, s, old, sigs, new), NEW op, Piece(op, s, e), Right(op, old, sigs, new)
  PROVE  Covers(Append(delta, op), e, old, sigs, new)
<1> DEFINE n == Len(delta)
           longer == Append(delta, op)
<1>1. delta \in Seq(OpRecords) /\ op \in OpRecords /\ n \in Nat
  BY DEF Covers, Tiling, Piece
<1>2. /\ longer \in Seq(OpRecords) /\ Len(longer) = n + 1 /\ longer[n + 1] = op
      /\ \A m \in 1 .. n : longer[m] = delta[m]
  BY <1>1, AppendProperties
<1> HIDE DEF longer
<1>3. op.offset = s /\ op.length = e - s /\ op.offset + op.length = e
  BY DEF Piece
<1>4. n = 0 => s = 0
  BY DEF Covers, Tiling
<1>5. n > 0 => delta[1].offset = 0 /\ delta[n].offset + delta[n].length = s
  BY DEF Covers, Tiling
<1>6. longer[1].offset = 0
  <2>1. CASE n = 0
    BY <1>2, <1>3, <1>4, <2>1
  <2>2. CASE n # 0
    <3>1. n > 0 /\ 1 \in 1 .. n
      BY <1>1, <2>2
    <3>2. QED
      BY <1>2, <1>5, <3>1
  <2>3. QED
    BY <2>1, <2>2
<1>7. ASSUME NEW m \in 1 .. n PROVE longer[m + 1].offset = longer[m].offset + longer[m].length
  <2>1. CASE m = n
    <3>1. n > 0
      BY <1>1, <2>1
    <3>2. QED
      BY <1>2, <1>3, <1>5, <2>1, <3>1
  <2>2. CASE m # n
    <3>1. m \in 1 .. n - 1 /\ m + 1 \in 1 .. n
      BY <1>1, <2>2
    <3>2. delta[m + 1].offset = delta[m].offset + delta[m].length
      BY <3>1 DEF Covers, Tiling
    <3>3. QED
      BY <1>2, <3>1, <3>2
  <2>3. QED
    BY <2>1, <2>2
<1>8. Tiling(longer, e)
  <2>1. Len(longer) # 0 /\ Len(longer) - 1 = n
    BY <1>1, <1>2
  <2>2. QED
    BY <1>2, <1>3, <1>6, <1>7, <2>1 DEF Tiling
<1>9. ASSUME NEW m \in 1 .. n + 1 PROVE Right(longer[m], old, sigs, new)
  <2>1. CASE m = n + 1
    BY <1>2, <2>1
  <2>2. CASE m # n + 1
    <3>1. m \in 1 .. n
      BY <1>1, <2>2
    <3>2. QED
      BY <1>2, <3>1 DEF Covers
  <2>3. QED
    BY <2>1, <2>2
<1>10. Covers(longer, e, old, sigs, new)
  BY <1>2, <1>8, <1>9 DEF Covers
<1>11. QED
  BY <1>10 DEF longer

(* No op is needed for no byte.                                             *)
LEMMA NothingCovers ==
  ASSUME NEW old, NEW sigs, NEW new
  PROVE  Covers(<<>>, 0, old, sigs, new)
<1> DEFINE none == <<>>
<1>1. none \in Seq(OpRecords) /\ Len(none) = 0
  OBVIOUS
<1> HIDE DEF none
<1>2. Covers(none, 0, old, sigs, new)
  BY <1>1 DEF Covers, Tiling
<1>3. QED
  BY <1>2 DEF none

(* Signatures in block mode are of pieces of the file.                      *)
LEMMA BlocksSigned ==
  ASSUME NEW old, Len(old) \in Nat, NEW size \in Nat
  PROVE  Signed(BlockSignatures(old, size), old)
<1> DEFINE sigs == BlockSignatures(old, size)
           top == (Len(old) + size - 1) \div size
           first(k) == (k - 1) * size
           after(k) == k * size
<1>1. sigs = [k \in 1 .. top |-> Signature(old, first(k), Least({after(k), Len(old)}))]
  BY DEF BlockSignatures
<1> HIDE DEF sigs, top
<1>2. DOMAIN sigs = 1 .. top /\ DOMAIN sigs \subseteq Nat
  BY <1>1
<1>3. ASSUME NEW k \in DOMAIN sigs
      PROVE  \E s, e \in Nat : e <= Len(old) /\ sigs[k] = Signature(old, s, e)
  <2>1. k \in Nat /\ k - 1 \in Nat
    BY <1>2
  <2>2. first(k) \in Nat /\ after(k) \in Nat
    BY <2>1
  <2> DEFINE s == first(k)
             a == after(k)
             e == Least({a, Len(old)})
  <2>3. sigs[k] = Signature(old, s, e)
    BY <1>1, <1>2
  <2> HIDE DEF s, a, first, after
  <2>4. s \in Nat /\ a \in Nat
    BY <2>2 DEF s, a
  <2>5. e \in {a, Len(old)} /\ e <= Len(old)
    BY <2>4, PairBounds
  <2>6. e \in Nat
    BY <2>4, <2>5
  <2> HIDE DEF e
  <2>7. QED
    BY <2>3, <2>4, <2>5, <2>6, Zenon
<1>4. Signed(sigs, old)
  BY <1>2, <1>3 DEF Signed
<1>5. QED
  BY <1>4 DEF sigs

(* A call in block mode: what has been delivered covers the file up to the  *)
(* open literal, which ends at the window; the state is the hash of the     *)
(* window; at the end the file is covered.                                  *)
Calls == [phase : {"none", "scan", "done"}, old : Seq(0 .. ModAdler), new : Seq(0 .. ModAdler),
          size : Nat \ {0}]
CallTyped == call \in Calls /\ i \in Nat /\ litStart \in Nat
ScanInv ==
  call.phase = "scan" =>
    /\ litStart <= i /\ i <= Len(call.new)
    /\ Covers(ops, litStart, call.old, CallSignatures, call.new)
IdleInv == call.phase = "none" => ops = <<>>
DoneInv == call.phase = "done" => Delivers(ops, call.old, CallSignatures, call.new)
CallInv == CallTyped /\ IdleInv /\ ScanInv /\ DoneInv /\ RollingIsDirect

(* A sequence of bytes is one of numbers.                                   *)
LEMMA BytesAre ==
  ASSUME NEW B, B \subseteq Nat, NEW d \in Seq(B)
  PROVE  d \in Seq(Nat) /\ Len(d) \in Nat
<1>1. Len(d) \in Nat /\ d \in [1 .. Len(d) -> B]
  OBVIOUS
<1>2. d \in [1 .. Len(d) -> Nat]
  BY <1>1
<1>3. QED
  BY <1>1, <1>2

(* More bytes.                                                             *)
LEMMA MoreBytes ==
  ASSUME NEW B, NEW C, B \subseteq C, NEW d \in Seq(B)
  PROVE  d \in Seq(C)
  OBVIOUS

(* The parts of a call.                                                     *)
LEMMA CallIs ==
  ASSUME CallTyped
  PROVE  /\ call.old \in Seq(0 .. ModAdler) /\ call.new \in Seq(0 .. ModAdler)
         /\ call.old \in Seq(Nat) /\ call.new \in Seq(Nat)
         /\ Len(call.old) \in Nat /\ Len(call.new) \in Nat
         /\ call.size \in Nat /\ call.size > 0
         /\ Signed(CallSignatures, call.old)
<1>1. call.old \in Seq(0 .. ModAdler) /\ call.new \in Seq(0 .. ModAdler) /\ call.size \in Nat \ {0}
  BY DEF CallTyped, Calls
<1>2. /\ call.old \in Seq(Nat) /\ call.new \in Seq(Nat)
      /\ Len(call.old) \in Nat /\ Len(call.new) \in Nat /\ call.size \in Nat /\ call.size > 0
  <2> DEFINE x == call.old
             y == call.new
             B == 0 .. ModAdler
  <2>1. B \subseteq Nat /\ x \in Seq(B) /\ y \in Seq(B)
    BY <1>1
  <2> HIDE DEF x, y, B
  <2>2. x \in Seq(Nat) /\ y \in Seq(Nat) /\ Len(x) \in Nat /\ Len(y) \in Nat
    BY <2>1, BytesAre
  <2>3. QED
    BY <1>1, <2>2 DEF x, y
<1>3. Signed(CallSignatures, call.old)
  BY <1>2, BlocksSigned DEF CallSignatures
<1>4. QED
  BY <1>1, <1>2, <1>3

(* Before a call nothing is delivered.                                      *)
LEMMA LibStarts == LibInit => CallInv
<1> SUFFICES ASSUME LibInit PROVE CallInv
  OBVIOUS
<1> DEFINE none == <<>>
<1>1. call = [phase |-> "none", old |-> none, new |-> none, size |-> 1] /\ i = 0 /\ litStart = 0
  BY DEF LibInit, NoCall
<1>2. none \in Seq(0 .. ModAdler)
  OBVIOUS
<1> HIDE DEF none
<1>3. CallTyped
  BY <1>1, <1>2 DEF CallTyped, Calls
<1>4. call.phase = "none" /\ ops = <<>>
  BY <1>1 DEF LibInit
<1>5. QED
  BY <1>3, <1>4 DEF CallInv, IdleInv, ScanInv, DoneInv, RollingIsDirect

(* yieldLiteral: the delta reaches the window.                              *)
LEMMA FlushedCovers ==
  ASSUME CallTyped, ScanInv, call.phase = "scan", NEW n \in Nat, litStart <= n, n <= Len(call.new)
  PROVE  Covers(Flushed(n), n, call.old, CallSignatures, call.new)
<1> DEFINE new == call.new
           lit == Literal(new, litStart, n)
<1>1. /\ new \in Seq(Nat) /\ litStart \in Nat
      /\ Covers(ops, litStart, call.old, CallSignatures, new)
  BY CallIs DEF CallTyped, ScanInv
<1> HIDE DEF new
<1>2. CASE n > litStart
  <2>1. Flushed(n) = Append(ops, lit)
    BY <1>2 DEF Flushed, new
  <2>2. n <= Len(new)
    BY DEF new
  <2>3. Piece(lit, litStart, n) /\ Right(lit, call.old, CallSignatures, new)
    BY <1>1, <2>2, LiteralIs
  <2> HIDE DEF lit
  <2>4. Covers(Append(ops, lit), n, call.old, CallSignatures, new)
    BY <1>1, <2>3, CoverGrows
  <2>5. QED
    BY <2>1, <2>4 DEF new
<1>3. CASE ~ (n > litStart)
  <2>1. n = litStart
    BY <1>1, <1>3
  <2>2. Flushed(n) = ops
    BY <1>3 DEF Flushed
  <2>3. QED
    BY <1>1, <2>1, <2>2 DEF new
<1>4. QED
  BY <1>2, <1>3

(* A block that is found: the literal before it and the copy are right,     *)
(* and the state is computed anew.                                          *)
LEMMA MatchKeeps ==
  ASSUME CallInv, Match
  PROVE  CallInv'
<1> DEFINE size == call.size
           e == i + size
           b == Least(BlockMatches)
           op == Copy(b, i, e - i)
           sigs == CallSignatures
<1>1. /\ call.phase = "scan" /\ Inside(i) /\ BlockMatches # {} /\ call' = call
      /\ i' = e /\ litStart' = e
      /\ ops' = Append(Flushed(i), Copy(b, i, size))
      /\ state' = IF Inside(e) THEN Adler32(Window(e)) ELSE state
  BY DEF Match
<1>2. /\ CallTyped /\ ScanInv /\ i \in Nat /\ litStart \in Nat /\ litStart <= i
      /\ i <= Len(call.new)
  BY <1>1 DEF CallInv, CallTyped, ScanInv
<1>3. /\ call.old \in Seq(Nat) /\ call.new \in Seq(Nat) /\ Len(call.new) \in Nat
      /\ size \in Nat /\ size > 0 /\ Signed(sigs, call.old)
  BY <1>2, CallIs
<1>4. e \in Nat /\ i <= e /\ e <= Len(call.new) /\ e - i = size
  <2>1. i + size <= Len(call.new)
    BY <1>1 DEF Inside
  <2> HIDE DEF size
  <2>2. i \in Nat /\ size \in Nat
    BY <1>2, <1>3
  <2>3. QED
    BY <2>1, <2>2
<1>5. b \in BlockMatches
  <2>1. BlockMatches \subseteq Nat
    BY <1>3 DEF BlockMatches, FixedBucket, Bucket, Signed
  <2>2. QED
    BY <1>1, <2>1, LeastElement
<1>6. b \in DOMAIN sigs /\ sigs[b].strong = Slice(call.new, i, e) /\ sigs[b].length = e - i
  BY <1>4, <1>5 DEF BlockMatches, FixedBucket, Bucket, Window
<1> HIDE DEF b, sigs
<1>7. Piece(op, i, e) /\ Right(op, call.old, sigs, call.new)
  <2> HIDE DEF e
  <2>1. QED
    BY <1>2, <1>3, <1>4, <1>6, CopyIs
<1>8. op = Copy(b, i, size)
  BY <1>4
<1>9. Covers(Flushed(i), i, call.old, sigs, call.new)
  BY <1>1, <1>2, FlushedCovers DEF sigs
<1> HIDE DEF op, e
<1>10. Covers(ops', e, call.old, sigs, call.new)
  BY <1>1, <1>2, <1>4, <1>7, <1>8, <1>9, CoverGrows
<1>11. CallTyped'
  BY <1>1, <1>2, <1>4 DEF CallTyped
<1>12. ScanInv'
  <2>1. CallSignatures' = sigs
    BY <1>1 DEF CallSignatures, sigs
  <2>2. litStart' <= i'
    BY <1>1, <1>4
  <2>3. QED
    BY <1>1, <1>4, <1>10, <2>1, <2>2 DEF ScanInv
<1>13. RollingIsDirect'
  <2>1. Inside(i)' <=> Inside(e)
    BY <1>1 DEF Inside
  <2>2. Window(i)' = Window(e)
    BY <1>1 DEF Window
  <2>3. QED
    BY <1>1, <2>1, <2>2 DEF RollingIsDirect
<1>14. DoneInv' /\ IdleInv'
  BY <1>1 DEF DoneInv, IdleInv
<1>15. QED
  BY <1>11, <1>12, <1>13, <1>14 DEF CallInv

(* A block that is not found: the state is rolled, which gives the hash of  *)
(* the next window.                                                         *)
LEMMA SlideKeeps ==
  ASSUME CallInv, Slide
  PROVE  CallInv'
<1> DEFINE size == call.size
           new == call.new
           e == i + 1
           u == Window(i)
           v == Window(e)
<1>1. /\ call.phase = "scan" /\ Inside(i) /\ call' = call /\ litStart' = litStart /\ ops' = ops
      /\ i' = e
      /\ state' = IF Inside(e) THEN Roll(state, size, new[i + 1], new[i + size + 1]) ELSE state
  BY DEF Slide
<1>2. /\ CallTyped /\ i \in Nat /\ litStart \in Nat /\ litStart <= i
      /\ Covers(ops, litStart, call.old, CallSignatures, new)
      /\ state = Adler32(u)
  BY <1>1 DEF CallInv, CallTyped, ScanInv, RollingIsDirect
<1>3. new \in Seq(0 .. ModAdler) /\ Len(new) \in Nat /\ size \in Nat /\ size > 0
  BY <1>2, CallIs
<1>4. e \in Nat /\ e <= Len(new) /\ litStart <= e /\ i + size \in Nat /\ i + size <= Len(new)
  BY <1>1, <1>2, <1>3 DEF Inside
<1>5. CallTyped'
  BY <1>1, <1>2, <1>4 DEF CallTyped
<1>6. ScanInv'
  <2>1. CallSignatures' = CallSignatures
    BY <1>1 DEF CallSignatures
  <2>2. QED
    BY <1>1, <1>2, <1>4, <2>1 DEF ScanInv
<1>7. RollingIsDirect'
  <2> SUFFICES ASSUME Inside(e) PROVE state' = Adler32(v)
    <3>1. (Inside(i)' <=> Inside(e)) /\ Window(i)' = v
      BY <1>1 DEF Inside, Window
    <3>2. QED
      BY <1>1, <3>1 DEF RollingIsDirect
  <2>1. e + size <= Len(new) /\ e + size \in Nat
    BY <1>3, <1>4 DEF Inside
  <2>2. /\ u \in Seq(0 .. ModAdler) /\ Len(u) = size
        /\ \A j \in 1 .. size : u[j] = new[i + j]
    <3>1. u = Slice(new, i, i + size)
      BY DEF Window
    <3> HIDE DEF u, new, size
    <3>2. i \in Nat
      BY <1>2
    <3>3. /\ Slice(new, i, i + size) \in Seq(0 .. ModAdler) /\ Len(Slice(new, i, i + size)) = size
          /\ \A j \in 1 .. size : Slice(new, i, i + size)[j] = new[i + j]
      BY <1>3, <1>4, <3>2, WindowIs, ZenonT(60)
    <3>4. QED
      BY <3>1, <3>3, ZenonT(60)
  <2>3. /\ v \in Seq(0 .. ModAdler) /\ Len(v) = size
        /\ \A j \in 1 .. size : v[j] = new[e + j]
    <3>1. v = Slice(new, e, e + size)
      BY DEF Window
    <3> HIDE DEF v, e, new, size
    <3>2. /\ Slice(new, e, e + size) \in Seq(0 .. ModAdler) /\ Len(Slice(new, e, e + size)) = size
          /\ \A j \in 1 .. size : Slice(new, e, e + size)[j] = new[e + j]
      BY <1>3, <1>4, <2>1, WindowIs, ZenonT(60)
    <3>3. QED
      BY <3>1, <3>2, ZenonT(60)
  <2> HIDE DEF u, v
  <2>4. ASSUME NEW k \in 1 .. size - 1 PROVE v[k] = u[k + 1]
    <3>1. k \in 1 .. size /\ k + 1 \in 1 .. size /\ e + k = i + (k + 1)
      BY <1>2, <1>3
    <3>2. QED
      BY <2>2, <2>3, <3>1
  <2>5. u[1] = new[i + 1] /\ v[size] = new[i + size + 1]
    <3>1. 1 \in 1 .. size /\ size \in 1 .. size /\ e + size = i + size + 1
      BY <1>2, <1>3
    <3>2. QED
      BY <2>2, <2>3, <3>1
  <2>6. Adler32(v) = Roll(Adler32(u), Len(u), u[1], v[Len(u)])
    BY <1>3, <2>2, <2>3, <2>4, Rolls
  <2>7. state' = Roll(state, size, new[i + 1], new[i + size + 1])
    BY <1>1
  <2>8. QED
    BY <1>2, <2>2, <2>5, <2>6, <2>7
<1>8. DoneInv' /\ IdleInv'
  BY <1>1 DEF DoneInv, IdleInv
<1>9. QED
  BY <1>5, <1>6, <1>7, <1>8 DEF CallInv

(* The end of the loop: what is left is a literal.                          *)
LEMMA ReturnKeeps ==
  ASSUME CallInv, Return
  PROVE  CallInv'
<1> DEFINE n == Len(call.new)
<1>1. /\ call.phase = "scan" /\ call' = [call EXCEPT !.phase = "done"]
      /\ i' = i /\ litStart' = litStart /\ ops' = Flushed(n)
  BY DEF Return
<1>2. CallTyped /\ ScanInv /\ i \in Nat /\ litStart \in Nat /\ litStart <= i /\ i <= n
  BY <1>1 DEF CallInv, CallTyped, ScanInv
<1>3. n \in Nat
  BY <1>2, CallIs
<1>4. litStart <= n
  BY <1>2, <1>3
<1>5. Covers(Flushed(n), n, call.old, CallSignatures, call.new)
  BY <1>1, <1>2, <1>3, <1>4, FlushedCovers
<1>6. call \in Calls
  BY <1>2 DEF CallTyped
<1>7. /\ call' \in Calls /\ call'.phase = "done" /\ call'.old = call.old
      /\ call'.new = call.new /\ call'.size = call.size
  BY <1>1, <1>6 DEF Calls
<1>8. CallSignatures' = CallSignatures
  BY <1>7 DEF CallSignatures
<1>9. CallTyped'
  BY <1>1, <1>2, <1>7 DEF CallTyped
<1>10. DoneInv'
  BY <1>1, <1>5, <1>7, <1>8 DEF DoneInv, Delivers
<1>11. QED
  BY <1>7, <1>9, <1>10 DEF CallInv, IdleInv, ScanInv, RollingIsDirect

(* Nothing else touches a call.                                            *)
LEMMA CallUnchanged ==
  ASSUME CallInv, UNCHANGED callVars
  PROVE  CallInv'
<1>1. call' = call /\ i' = i /\ litStart' = litStart /\ state' = state /\ ops' = ops
  BY DEF callVars
<1>2. CallSignatures' = CallSignatures
  BY <1>1 DEF CallSignatures
<1>3. (Inside(i)' <=> Inside(i)) /\ Window(i)' = Window(i)
  BY <1>1 DEF Inside, Window
<1>4. CallTyped' /\ IdleInv' /\ ScanInv' /\ DoneInv'
  BY <1>1, <1>2 DEF CallInv, CallTyped, IdleInv, ScanInv, DoneInv
<1>5. RollingIsDirect'
  BY <1>1, <1>3 DEF CallInv, RollingIsDirect
<1>6. QED
  BY <1>4, <1>5 DEF CallInv

(* A call starts with nothing delivered, or with the file as one literal.   *)
LEMMA CallKeeps ==
  ASSUME CallInv, NEW old \in Seq(0 .. ModAdler), NEW new \in Seq(0 .. ModAdler),
         NEW size \in Nat \ {0}, Call(old, new, size)
  PROVE  CallInv'
<1> DEFINE sigs == BlockSignatures(old, size)
           n == Len(new)
<1>1. call.phase = "none" /\ i' = 0 /\ litStart' = 0
  BY DEF Call
<1>2. new \in Seq(Nat) /\ n \in Nat /\ 0 \in Nat /\ 0 <= n
  <2>1. new \in Seq(Nat) /\ n \in Nat
    <3>1. 0 .. ModAdler \subseteq Nat
      OBVIOUS
    <3>2. QED
      BY <3>1, BytesAre
  <2>2. QED
    BY <2>1
<1>3. CASE n < size
  <2>1. /\ call' = [phase |-> "done", old |-> old, new |-> new, size |-> size]
        /\ ops' = IF new = <<>> THEN <<>> ELSE <<Literal(new, 0, n)>>
    BY <1>3 DEF Call
  <2>2. /\ call' \in Calls /\ call'.phase = "done" /\ call'.old = old /\ call'.new = new
        /\ CallSignatures' = sigs
    BY <2>1 DEF Calls, CallSignatures
  <2>3. Covers(ops', n, old, sigs, new)
    <3>1. CASE new = <<>>
      <4>1. ops' = <<>> /\ n = 0
        BY <2>1, <3>1
      <4>2. QED
        BY <4>1, NothingCovers
    <3>2. CASE new # <<>>
      <4> DEFINE lit == Literal(new, 0, n)
      <4>1. ops' = Append(<<>>, lit)
        BY <2>1, <3>2
      <4>2. Piece(lit, 0, n) /\ Right(lit, old, sigs, new)
        BY <1>2, LiteralIs
      <4> HIDE DEF lit, sigs, n
      <4>3. Covers(Append(<<>>, lit), n, old, sigs, new)
        BY <1>2, <4>2, NothingCovers, CoverGrows
      <4>4. QED
        BY <4>1, <4>3
    <3>3. QED
      BY <3>1, <3>2
  <2>4. CallTyped'
    BY <1>1, <2>2 DEF CallTyped
  <2>5. DoneInv'
    BY <2>2, <2>3 DEF DoneInv, Delivers
  <2>6. QED
    BY <2>2, <2>4, <2>5 DEF CallInv, IdleInv, ScanInv, RollingIsDirect
<1>4. CASE ~ (n < size)
  <2>1. /\ call' = [phase |-> "scan", old |-> old, new |-> new, size |-> size]
        /\ state' = Adler32(Slice(new, 0, size)) /\ ops' = ops
    BY <1>4 DEF Call
  <2>2. /\ call' \in Calls /\ call'.phase = "scan" /\ call'.old = old /\ call'.new = new
        /\ call'.size = size /\ CallSignatures' = sigs
    BY <2>1 DEF Calls, CallSignatures
  <2>3. CallTyped'
    BY <1>1, <2>2 DEF CallTyped
  <2>4. RollingIsDirect'
    <3>1. Window(i)' = Slice(new, 0, size)
      BY <1>1, <2>2 DEF Window
    <3>2. QED
      BY <2>1, <3>1 DEF RollingIsDirect
  <2>5. ops' = <<>>
    BY <1>1, <2>1 DEF CallInv, IdleInv
  <2>6. ScanInv'
    <3>1. litStart' <= i' /\ i' <= Len(call'.new)
      BY <1>1, <1>2, <2>2
    <3>2. QED
      BY <1>1, <2>2, <2>5, <3>1, NothingCovers DEF ScanInv
  <2>7. QED
    BY <2>2, <2>3, <2>4, <2>6 DEF CallInv, IdleInv, DoneInv
<1>5. QED
  BY <1>3, <1>4

-----------------------------------------------------------------------------
(* The runs of the playground page                                          *)

(* The runs under way are in the order they started; the last one that     *)
(* started has what is on the page, and is under way or shown, unless an   *)
(* older one was shown after it.                                           *)
RunRecords == [no : Nat, in : Pages, at : {"signatures", "delta"}]
Reads == [which : {"old", "new"}, text : Texts]
RunsTyped ==
  /\ runs \in Seq(RunRecords) /\ reads \in Seq(Reads) /\ page \in Pages
  /\ started \in Nat \ {0} /\ overtaken \in BOOLEAN /\ shown.no \in Nat
RunsInOrder ==
  /\ \A k \in DOMAIN runs : runs[k].no <= started /\ runs[k].no # shown.no
  /\ \A j, k \in DOMAIN runs : j < k => runs[j].no < runs[k].no
LastIsOfPage ==
  /\ \A k \in DOMAIN runs : runs[k].no = started => runs[k].in = page
  /\ shown.no <= started
  /\ shown.no = started => shown.in = page
  /\ overtaken \/ shown.no = started \/ \E k \in DOMAIN runs : runs[k].no = started
PlayInv == open => RunsTyped /\ RunsInOrder /\ LastIsOfPage

(* A run that is removed leaves the others in their order.                 *)
LEMMA RemovedRun ==
  ASSUME NEW S, NEW q \in Seq(S), NEW k \in DOMAIN q
  PROVE  /\ RemoveAt(q, k) \in Seq(S) /\ Len(RemoveAt(q, k)) = Len(q) - 1
         /\ \A m \in 1 .. Len(q) - 1 : RemoveAt(q, k)[m] = IF m < k THEN q[m] ELSE q[m + 1]
<1> DEFINE before == SubSeq(q, 1, k - 1)
           after == SubSeq(q, k + 1, Len(q))
<1>1. k \in 1 .. Len(q) /\ Len(q) \in Nat
  OBVIOUS
<1>2. /\ before \in Seq(S) /\ Len(before) = k - 1
      /\ \A m \in 1 .. k - 1 : before[m] = q[m]
  <2>1. \A m \in 1 .. k - 1 : q[m] \in S
    BY <1>1
  <2>2. QED
    BY <1>1, <2>1, SubSeqProperties
<1>3. /\ after \in Seq(S) /\ Len(after) = Len(q) - k
      /\ \A m \in 1 .. Len(q) - k : after[m] = q[m + k]
  <2>1. \A m \in k + 1 .. Len(q) : q[m] \in S
    BY <1>1
  <2>2. /\ after \in Seq(S)
        /\ Len(after) = IF k + 1 <= Len(q) THEN Len(q) - (k + 1) + 1 ELSE 0
        /\ \A m \in 1 .. Len(q) - (k + 1) + 1 : after[m] = q[k + 1 + m - 1]
    BY <1>1, <2>1, SubSeqProperties
  <2>3. QED
    BY <1>1, <2>2
<1> HIDE DEF before, after
<1>4. /\ before \o after \in Seq(S) /\ Len(before \o after) = Len(q) - 1
      /\ \A m \in 1 .. Len(q) - 1 : (before \o after)[m] =
           IF m <= k - 1 THEN before[m] ELSE after[m - (k - 1)]
  BY <1>1, <1>2, <1>3, ConcatProperties, SMTT(60)
<1>5. ASSUME NEW m \in 1 .. Len(q) - 1
      PROVE  (before \o after)[m] = IF m < k THEN q[m] ELSE q[m + 1]
  <2>1. CASE m < k
    BY <1>1, <1>2, <1>4, <2>1
  <2>2. CASE ~ (m < k)
    <3>1. m - (k - 1) \in 1 .. Len(q) - k /\ m - (k - 1) + k = m + 1
      BY <1>1, <2>2
    <3>2. after[m - (k - 1)] = q[m + 1]
      BY <1>3, <3>1
    <3>3. (before \o after)[m] = after[m - (k - 1)]
      BY <1>1, <1>4, <2>2
    <3>4. QED
      BY <2>2, <3>2, <3>3
  <2>3. QED
    BY <2>1, <2>2
<1>6. RemoveAt(q, k) = before \o after
  BY DEF RemoveAt, before, after
<1>7. QED
  BY <1>4, <1>5, <1>6

(* The select of the block sizes starts at one of them.                    *)
LEMMA LeastSize == Least(Sizes) \in Sizes
  BY TextsAssumption, LeastElement

(* The members of a sequence of runs.                                      *)
LEMMA RunsAre ==
  ASSUME NEW q \in Seq(RunRecords)
  PROVE  /\ DOMAIN q = 1 .. Len(q) /\ Len(q) \in Nat
         /\ \A k \in DOMAIN q : q[k] \in RunRecords /\ q[k].no \in Nat
<1>1. DOMAIN q = 1 .. Len(q) /\ Len(q) \in Nat /\ \A k \in DOMAIN q : q[k] \in RunRecords
  OBVIOUS
<1>2. \A x \in RunRecords : x.no \in Nat
  BY DEF RunRecords
<1>3. QED
  BY <1>1, <1>2

(* A run that starts is the last one, and has what is on the page.         *)
LEMMA StartKeeps ==
  ASSUME RunsTyped, RunsInOrder, LastIsOfPage, NEW p \in Pages, StartRun(p), page' = p,
         shown' = shown, overtaken' = overtaken
  PROVE  /\ runs' \in Seq(RunRecords) /\ started' \in Nat \ {0}
         /\ RunsInOrder' /\ LastIsOfPage'
<1> DEFINE new == Run(started + 1, p)
<1>1. new \in RunRecords /\ new.no = started + 1 /\ new.in = p
  BY DEF Run, RunRecords, RunsTyped
<1> HIDE DEF new
<1>2. runs \in Seq(RunRecords) /\ runs' = Append(runs, new) /\ started' = started + 1
      /\ started \in Nat \ {0}
  BY DEF StartRun, RunsTyped, new
<1>3. /\ runs' \in Seq(RunRecords) /\ Len(runs') = Len(runs) + 1
      /\ \A k \in 1 .. Len(runs) : runs'[k] = runs[k]
      /\ runs'[Len(runs) + 1] = new
  BY <1>1, <1>2, AppendProperties
<1>4. DOMAIN runs = 1 .. Len(runs) /\ DOMAIN runs' = 1 .. Len(runs) + 1 /\ Len(runs) \in Nat
      /\ \A k \in DOMAIN runs : runs[k].no \in Nat
  BY <1>2, <1>3, RunsAre
<1>5. \A k \in DOMAIN runs' : k \in DOMAIN runs \/ k = Len(runs) + 1
  BY <1>4
<1>6. RunsInOrder'
  BY <1>1, <1>2, <1>3, <1>4, <1>5 DEF RunsInOrder, LastIsOfPage, RunsTyped
<1>7. LastIsOfPage'
  BY <1>1, <1>2, <1>3, <1>4, <1>5 DEF RunsInOrder, LastIsOfPage, RunsTyped
<1>8. QED
  BY <1>2, <1>3, <1>6, <1>7

(* A text, a size or a file that is put on the page starts a run.          *)
LEMMA SetPageKeeps ==
  ASSUME open, PlayInv, NEW p \in Pages, SetPage(p), shown' = shown, overtaken' = overtaken,
         reads' \in Seq(Reads)
  PROVE  RunsTyped' /\ RunsInOrder' /\ LastIsOfPage'
  BY StartKeeps DEF SetPage, PlayInv, RunsTyped

LEMMA PageStepKeeps ==
  ASSUME PlayInv, PageStep
  PROVE  PlayInv'
<1>1. open /\ open' = open /\ RunsTyped /\ RunsInOrder /\ LastIsOfPage
  BY DEF PageStep, PlayInv
<1>2. page \in [old : Texts, new : Texts, size : Sizes]
  BY <1>1 DEF RunsTyped, Pages
<1>3. CASE Edit
  <2>1. PICK p \in Pages : SetPage(p)
    BY <1>2, <1>3 DEF Edit, EditText, PickSize, Pages
  <2>2. QED
    BY <1>1, <1>3, <2>1, SetPageKeeps DEF Edit, PlayInv, RunsTyped
<1>4. CASE Click
  <2>1. RunsInOrder' /\ LastIsOfPage' /\ runs' \in Seq(RunRecords) /\ started' \in Nat \ {0}
    BY <1>1, <1>4, StartKeeps DEF Click, RunsTyped
  <2>2. QED
    BY <1>1, <1>4, <2>1 DEF Click, PlayInv, RunsTyped
<1>5. CASE ChooseFile
  <2>1. reads' \in Seq(Reads)
    BY <1>1, <1>5, AppendProperties DEF ChooseFile, RunsTyped, Reads
  <2>2. QED
    BY <1>1, <1>5, <2>1 DEF ChooseFile, PlayInv, RunsTyped, RunsInOrder, LastIsOfPage
<1>6. CASE FileRead
  <2>1. PICK k \in DOMAIN reads :
          LET p == [page EXCEPT ![reads[k].which] = reads[k].text]
          IN  /\ reads' = RemoveAt(reads, k)
              /\ SetPage(p) \/ (p = page /\ UNCHANGED <<page, runs, started, running, verified>>)
    BY <1>6 DEF FileRead
  <2> DEFINE p == [page EXCEPT ![reads[k].which] = reads[k].text]
  <2>2. reads[k] \in Reads /\ reads \in Seq(Reads)
    BY <1>1 DEF RunsTyped
  <2>3. reads' \in Seq(Reads)
    BY <2>1, <2>2, RemovedRun
  <2>4. p \in Pages
    <3>1. reads[k].which \in {"old", "new"} /\ reads[k].text \in Texts
      BY <2>2 DEF Reads
    <3>2. CASE reads[k].which = "old"
      BY <1>2, <3>1, <3>2 DEF Pages
    <3>3. CASE reads[k].which = "new"
      BY <1>2, <3>1, <3>3 DEF Pages
    <3>4. QED
      BY <3>1, <3>2, <3>3
  <2> HIDE DEF p
  <2>5. SetPage(p) \/ UNCHANGED <<page, runs, started>>
    BY <2>1 DEF p
  <2>6. shown' = shown /\ overtaken' = overtaken
    BY <1>6 DEF FileRead
  <2>7. CASE SetPage(p)
    BY <1>1, <2>3, <2>4, <2>6, <2>7, SetPageKeeps DEF PlayInv
  <2>8. CASE UNCHANGED <<page, runs, started>>
    BY <1>1, <2>3, <2>6, <2>8 DEF PlayInv, RunsTyped, RunsInOrder, LastIsOfPage
  <2>9. QED
    BY <2>5, <2>7, <2>8
<1>7. ASSUME NEW k \in DOMAIN runs, SignaturesDone(k),
             UNCHANGED <<page, reads, running, verified, shown, started, overtaken, acts>>
      PROVE  PlayInv'
  <2>1. /\ runs' \in Seq(RunRecords) /\ DOMAIN runs' = DOMAIN runs
        /\ \A m \in DOMAIN runs : runs'[m].no = runs[m].no /\ runs'[m].in = runs[m].in
    <3> DEFINE new == [runs[k] EXCEPT !.at = "delta"]
    <3>1. runs' = [runs EXCEPT ![k] = new] /\ runs \in Seq(RunRecords)
      BY <1>1, <1>7 DEF SignaturesDone, RunsTyped
    <3>2. runs[k] \in RunRecords
      BY <3>1, RunsAre
    <3>3. new \in RunRecords /\ new.no = runs[k].no /\ new.in = runs[k].in
      BY <3>2 DEF RunRecords
    <3> HIDE DEF new, RunRecords
    <3>4. DOMAIN runs' = DOMAIN runs /\ \A m \in DOMAIN runs : runs'[m] = IF m = k THEN new ELSE runs[m]
      BY <3>1
    <3>5. runs' \in Seq(RunRecords)
      BY <3>1, <3>3
    <3>6. QED
      BY <3>3, <3>4, <3>5
  <2>2. QED
    BY <1>1, <1>7, <2>1 DEF PlayInv, RunsTyped, RunsInOrder, LastIsOfPage
<1>8. ASSUME NEW k \in DOMAIN runs, Finish(k)
      PROVE  PlayInv'
  <2>1. /\ runs \in Seq(RunRecords) /\ runs' = RemoveAt(runs, k) /\ shown' = runs[k]
        /\ UNCHANGED <<page, reads, started>>
        /\ overtaken' = (overtaken \/ runs[k].no < shown.no)
    BY <1>1, <1>8 DEF Finish, DeltaDone, Show, RunsTyped
  <2>2. /\ runs' \in Seq(RunRecords) /\ Len(runs') = Len(runs) - 1
        /\ \A m \in 1 .. Len(runs) - 1 : runs'[m] = IF m < k THEN runs[m] ELSE runs[m + 1]
    BY <2>1, RemovedRun
  <2>3. DOMAIN runs = 1 .. Len(runs) /\ DOMAIN runs' = 1 .. Len(runs) - 1 /\ Len(runs) \in Nat
        /\ \A m \in DOMAIN runs : runs[m].no \in Nat
    <3>1. /\ DOMAIN runs = 1 .. Len(runs) /\ Len(runs) \in Nat
          /\ \A m \in DOMAIN runs : runs[m].no \in Nat
      BY <2>1, RunsAre
    <3>2. DOMAIN runs' = 1 .. Len(runs')
      BY <2>2
    <3>3. QED
      BY <2>2, <3>1, <3>2
  <2>4. ASSUME NEW m \in DOMAIN runs'
        PROVE  \E n \in DOMAIN runs : n # k /\ runs'[m] = runs[n] /\ (m < k => n = m) /\ (m >= k => n = m + 1)
    BY <2>2, <2>3
  <2>5. ASSUME NEW n \in DOMAIN runs, n # k
        PROVE  \E m \in DOMAIN runs' : runs'[m] = runs[n]
    <3>1. CASE n < k
      BY <2>2, <2>3, <3>1
    <3>2. CASE n > k
      <4>1. n - 1 \in DOMAIN runs' /\ ~ (n - 1 < k) /\ n - 1 + 1 = n
        BY <2>3, <3>2
      <4>2. runs'[n - 1] = runs[n]
        BY <2>2, <2>3, <4>1
      <4>3. QED
        BY <4>1, <4>2
    <3>3. QED
      BY <2>3, <2>5, <3>1, <3>2
  <2>6. \A m, n \in DOMAIN runs : runs[m].no = runs[n].no => m = n
    BY <1>1, <2>3 DEF RunsInOrder
  <2>7. RunsInOrder'
    <3>1. \A m \in DOMAIN runs' : runs'[m].no <= started' /\ runs'[m].no # shown'.no
      BY <1>1, <2>1, <2>4, <2>6 DEF RunsInOrder
    <3>2. ASSUME NEW m \in DOMAIN runs', NEW n \in DOMAIN runs', m < n
          PROVE  runs'[m].no < runs'[n].no
      <4>1. m \in DOMAIN runs /\ m + 1 \in DOMAIN runs /\ n \in DOMAIN runs /\ n + 1 \in DOMAIN runs
        BY <2>3
      <4>2. \A a, b \in DOMAIN runs : a < b => runs[a].no < runs[b].no
        BY <1>1 DEF RunsInOrder
      <4>3. /\ runs'[m] = IF m < k THEN runs[m] ELSE runs[m + 1]
            /\ runs'[n] = IF n < k THEN runs[n] ELSE runs[n + 1]
        BY <2>2, <2>3
      <4>4. m < n + 1 /\ m + 1 < n + 1 /\ (n < k => m < k)
        BY <2>3, <3>2
      <4>5. QED
        BY <3>2, <4>1, <4>2, <4>3, <4>4
    <3>3. QED
      BY <3>1, <3>2 DEF RunsInOrder
  <2>8. LastIsOfPage'
    <3>1. \A m \in DOMAIN runs' : runs'[m].no = started' => runs'[m].in = page'
      BY <1>1, <2>1, <2>4 DEF LastIsOfPage
    <3>2. shown'.no <= started' /\ (shown'.no = started' => shown'.in = page')
      BY <1>1, <2>1 DEF LastIsOfPage, RunsInOrder
    <3>3. overtaken' \/ shown'.no = started' \/ \E m \in DOMAIN runs' : runs'[m].no = started'
      <4>1. CASE overtaken
        BY <2>1, <4>1
      <4>2. CASE shown.no = started
        <5>1. runs[k].no < shown.no
          BY <1>1, <2>3, <4>2 DEF RunsInOrder, RunsTyped
        <5>2. QED
          BY <2>1, <5>1
      <4>3. ASSUME NEW n \in DOMAIN runs, runs[n].no = started
            PROVE  shown'.no = started' \/ \E m \in DOMAIN runs' : runs'[m].no = started'
        BY <2>1, <2>5, <4>3
      <4>4. QED
        BY <1>1, <4>1, <4>2, <4>3 DEF LastIsOfPage
    <3>4. QED
      BY <3>1, <3>2, <3>3 DEF LastIsOfPage
  <2>9. RunsTyped'
    BY <1>1, <2>1, <2>2, <2>3 DEF RunsTyped
  <2>10. QED
    BY <2>7, <2>8, <2>9 DEF PlayInv
<1>9. QED
  BY <1>3, <1>4, <1>5, <1>6, <1>7, <1>8 DEF PageStep

-----------------------------------------------------------------------------
(* The lists                                                               *)

(* A page as it was when the list had c rows.                              *)
PageAt(c, p) == {r \in 1 .. c : c - p * PageSize < r /\ r <= c - (p - 1) * PageSize}

Entries == [known : BOOLEAN, data : SUBSET Nat, fetch : {"no", "asked", "read"}, got : SUBSET Nat]
Walks == [from : Nat, seen : SUBSET Nat, patient : BOOLEAN]
ListsTyped ==
  /\ count \in [Lists -> 0 .. MaxRows] /\ tab \in Lists \cup {"none"} /\ pageNo \in PageNos
  /\ query \in [Lists -> [PageNos -> Entries]] /\ walk \in Walks

(* What is in the cache, or on its way to it, is a page of some past.      *)
CacheIsOld ==
  \A t \in Lists, p \in PageNos :
    /\ query[t][p].known => \E c \in 0 .. count[t] : query[t][p].data = PageAt(c, p)
    /\ query[t][p].fetch = "read" => \E c \in 0 .. count[t] : query[t][p].got = PageAt(c, p)

(* A patient visitor has seen all rows above some bound, which the page to *)
(* come will reach and the page that has come ends at.                     *)
SeenAbove(b) == \A r \in 1 .. walk.from : b < r => r \in walk.seen
Reaches(q, c, p, b) ==
  /\ q.fetch = "asked" => b <= c - (p - 1) * PageSize
  /\ q.fetch = "read" => \E n \in 0 .. c : q.got = PageAt(n, p) /\ b <= n - (p - 1) * PageSize
  /\ q.fetch = "no" => q.known /\ \E n \in 0 .. c : q.data = PageAt(n, p) /\ b <= n - p * PageSize
WalkInv ==
  tab # "none" /\ walk.patient =>
    \E b \in Int : SeenAbove(b) /\ Reaches(Screen, count[tab], pageNo, b)

ListsInv == ListsTyped /\ CacheIsOld /\ WalkInv

(* Where the pages begin and end.                                          *)
LEMMA Offsets ==
  ASSUME NEW p \in Nat \ {0}
  PROVE  /\ p * PageSize \in Nat /\ (p - 1) * PageSize \in Nat
         /\ p * PageSize = (p - 1) * PageSize + PageSize
         /\ p = 1 => (p - 1) * PageSize = 0
         /\ (p + 1 - 1) * PageSize = p * PageSize
  BY PagesAssumption

LEMMA PageIs ==
  ASSUME NEW c \in Nat, NEW p \in Nat \ {0}
  PROVE  /\ PageAt(c, p) \in SUBSET (1 .. c) /\ PageAt(c, p) \in SUBSET Nat
         /\ c - p * PageSize >= 1 => Cardinality(PageAt(c, p)) = PageSize
         /\ Cardinality(PageAt(c, p)) >= PageSize => p * PageSize <= c
<1> DEFINE over == p * PageSize
           top == (p - 1) * PageSize
           low == IF c - over >= 0 THEN c - over + 1 ELSE 1
           high == c - top
<1>1. over \in Nat /\ top \in Nat /\ over = top + PageSize /\ PageSize \in Nat \ {0}
  BY Offsets, PagesAssumption
<1>2. PageAt(c, p) = {r \in 1 .. c : c - over < r /\ r <= c - top}
  BY DEF PageAt
<1> HIDE DEF over, top
<1>3. PageAt(c, p) = low .. high
  BY <1>1, <1>2
<1>4. low \in Int /\ high \in Int
  BY <1>1
<1>5. Cardinality(low .. high) = IF low > high THEN 0 ELSE high - low + 1
  BY <1>4, FS_Interval
<1>6. c - over >= 1 => Cardinality(PageAt(c, p)) = PageSize
  BY <1>1, <1>3, <1>5
<1>7. Cardinality(PageAt(c, p)) >= PageSize => over <= c
  BY <1>1, <1>3, <1>5
<1>8. QED
  BY <1>2, <1>6, <1>7 DEF over

(* The page after a full one has a number.                                 *)
LEMMA NextHasNumber ==
  ASSUME NEW p \in PageNos, NEW c \in 0 .. MaxRows, p * PageSize <= c
  PROVE  p + 1 \in PageNos
<1> DEFINE n == MaxRows \div PageSize
<1>1. n \in Nat /\ MaxRows < (n + 1) * PageSize
  BY PagesAssumption
<1>2. p \in Nat /\ p * PageSize < (n + 1) * PageSize
  BY <1>1, PagesAssumption DEF PageNos
<1>3. p < n + 1
  BY <1>1, <1>2, PagesAssumption
<1>4. QED
  BY <1>1, <1>2, <1>3 DEF PageNos

(* What a visitor waits for is still to come, or has come, in a list that  *)
(* has grown.                                                              *)
LEMMA ReachesLater ==
  ASSUME NEW q, NEW c \in Nat, NEW d \in Nat, c <= d, NEW p \in PageNos, NEW b \in Int,
         Reaches(q, c, p, b)
  PROVE  Reaches(q, d, p, b)
<1> DEFINE top == (p - 1) * PageSize
<1>1. top \in Nat
  BY Offsets DEF PageNos
<1>2. b <= c - top => b <= d - top
  BY <1>1
<1>3. \A n \in 0 .. c : n \in 0 .. d
  OBVIOUS
<1>4. QED
  BY <1>2, <1>3 DEF Reaches

LEMMA GrowKeeps ==
  ASSUME ListsInv, count' \in [Lists -> 0 .. MaxRows], \A t \in Lists : count[t] <= count'[t],
         UNCHANGED <<tab, pageNo, query, walk>>
  PROVE  ListsInv'
<1>1. \A t \in Lists : count[t] \in Nat /\ count'[t] \in Nat /\ \A n \in 0 .. count[t] : n \in 0 .. count'[t]
  BY PagesAssumption DEF ListsInv, ListsTyped
<1>2. ListsTyped'
  BY DEF ListsInv, ListsTyped
<1>3. CacheIsOld'
  BY <1>1 DEF ListsInv, CacheIsOld
<1>4. ASSUME tab # "none", walk.patient
      PROVE  \E b \in Int : SeenAbove(b)' /\ Reaches(Screen', count'[tab], pageNo, b)
  <2>1. tab \in Lists /\ pageNo \in PageNos /\ Screen' = Screen
    BY <1>4 DEF ListsInv, ListsTyped, Screen
  <2>2. PICK b \in Int : SeenAbove(b) /\ Reaches(Screen, count[tab], pageNo, b)
    BY <1>4 DEF ListsInv, WalkInv
  <2>3. Reaches(Screen, count'[tab], pageNo, b)
    BY <1>1, <2>1, <2>2, ReachesLater
  <2>4. QED
    BY <2>1, <2>2, <2>3 DEF SeenAbove
<1>5. QED
  BY <1>2, <1>3, <1>4 DEF ListsInv, WalkInv

LEMMA AddedKeeps ==
  ASSUME ListsInv, NEW lists \in SUBSET Lists, Added(lists)
  PROVE  ListsInv'
<1>1. count' \in [Lists -> 0 .. MaxRows] /\ \A t \in Lists : count[t] <= count'[t]
  BY PagesAssumption DEF Added, ListsInv, ListsTyped
<1>2. QED
  BY <1>1, GrowKeeps DEF Added

(* One entry of the cache changes.                                         *)
Entry(t, p, new) ==
  /\ query' \in [Lists -> [PageNos -> Entries]] /\ query'[t][p] = new
  /\ \A u \in Lists, q \in PageNos : u # t \/ q # p => query'[u][q] = query[u][q]
LEMMA EntryMoves ==
  ASSUME ListsTyped, NEW t \in Lists, NEW p \in PageNos, NEW new \in Entries,
         query' = [query EXCEPT ![t] = [@ EXCEPT ![p] = new]]
  PROVE  Entry(t, p, new)
  BY DEF ListsTyped, Entry

LEMMA AskedMoves ==
  ASSUME ListsTyped, NEW t \in Lists, NEW p \in PageNos, query' = Asked(t, p)
  PROVE  \E new \in Entries :
           /\ Entry(t, p, new) /\ new.known = query[t][p].known /\ new.data = query[t][p].data
           /\ new.fetch # "no" /\ (new.fetch = "read" => new = query[t][p])
           /\ (query[t][p].fetch = "no" => new.fetch = "asked")
<1> DEFINE old == query[t][p]
           new == [old EXCEPT !.fetch = IF old.fetch = "no" THEN "asked" ELSE old.fetch]
<1>1. old \in Entries
  BY DEF ListsTyped
<1>2. /\ new \in Entries /\ new.known = old.known /\ new.data = old.data /\ new.fetch # "no"
      /\ (new.fetch = "read" => new = old) /\ (old.fetch = "no" => new.fetch = "asked")
  BY <1>1 DEF Entries
<1>3. query' = [query EXCEPT ![t] = [@ EXCEPT ![p] = new]]
  BY Zenon DEF Asked
<1> HIDE DEF new
<1>4. Entry(t, p, new)
  BY <1>2, <1>3, EntryMoves
<1>5. QED
  BY <1>2, <1>4

(* A page that is asked for leaves the cache as old as it was.             *)
LEMMA AskedIsOld ==
  ASSUME ListsTyped, CacheIsOld, NEW t \in Lists, NEW p \in PageNos, query' = Asked(t, p),
         UNCHANGED count
  PROVE  CacheIsOld'
<1>1. PICK new \in Entries :
           /\ Entry(t, p, new) /\ new.known = query[t][p].known /\ new.data = query[t][p].data
           /\ new.fetch = "read" => new = query[t][p]
  BY AskedMoves
<1>2. ASSUME NEW u \in Lists, NEW q \in PageNos
      PROVE  /\ query'[u][q].known => query[u][q].known /\ query'[u][q].data = query[u][q].data
             /\ query'[u][q].fetch = "read" => query[u][q].fetch = "read" /\ query'[u][q].got = query[u][q].got
  BY <1>1 DEF Entry
<1>3. QED
  BY <1>2 DEF CacheIsOld

(* Another entry than the one on the screen changes.                       *)
LEMMA ScreenStays ==
  ASSUME ListsTyped, WalkInv, NEW t \in Lists, NEW p \in PageNos, NEW new, Entry(t, p, new),
         ~ (t = tab /\ p = pageNo), UNCHANGED <<count, tab, pageNo, walk>>
  PROVE  WalkInv'
<1>1. ASSUME tab # "none"
      PROVE  Screen' = Screen
  BY <1>1 DEF Entry, Screen, ListsTyped
<1>2. QED
  BY <1>1 DEF WalkInv, SeenAbove

(* An entry that is as old as its list leaves the cache so.                *)
OldAt(q, c, p) ==
  /\ q.known => \E n \in 0 .. c : q.data = PageAt(n, p)
  /\ q.fetch = "read" => \E n \in 0 .. c : q.got = PageAt(n, p)
LEMMA CacheStaysOld ==
  ASSUME CacheIsOld, NEW t \in Lists, NEW p \in PageNos, NEW new, Entry(t, p, new),
         OldAt(new, count[t], p), UNCHANGED count
  PROVE  CacheIsOld'
<1>1. ASSUME NEW u \in Lists, NEW q \in PageNos
      PROVE  OldAt(query'[u][q], count'[u], q)
  <2>1. CASE u = t /\ q = p
    BY <2>1 DEF Entry
  <2>2. CASE ~ (u = t /\ q = p)
    <3>1. query'[u][q] = query[u][q]
      BY <2>2 DEF Entry
    <3>2. QED
      BY <3>1 DEF CacheIsOld, OldAt
  <2>3. QED
    BY <2>1, <2>2
<1>2. QED
  BY <1>1 DEF CacheIsOld, OldAt

LEMMA AnsweredKeeps ==
  ASSUME ListsInv, NEW t \in Lists, NEW p \in PageNos, Answered(t, p)
  PROVE  ListsInv'
<1> DEFINE old == query[t][p]
           new == [old EXCEPT !.fetch = "read", !.got = OffsetPage(t, p)]
<1>1. old \in Entries /\ old.fetch = "asked" /\ count[t] \in Nat /\ p \in Nat \ {0}
  BY PagesAssumption DEF Answered, ListsInv, ListsTyped, PageNos
<1>2. OffsetPage(t, p) = PageAt(count[t], p) /\ PageAt(count[t], p) \in SUBSET Nat
  BY <1>1, PageIs DEF OffsetPage, PageAt
<1>3. /\ new \in Entries /\ new.fetch = "read" /\ new.got = PageAt(count[t], p)
      /\ new.known = old.known /\ new.data = old.data
  BY <1>1, <1>2 DEF Entries
<1>4. query' = [query EXCEPT ![t] = [@ EXCEPT ![p] = new]]
  BY DEF Answered, ListsInv, ListsTyped
<1> HIDE DEF new
<1>5. Entry(t, p, new)
  BY <1>3, <1>4, EntryMoves DEF ListsInv
<1>6. ListsTyped'
  BY <1>5 DEF Entry, Answered, ListsInv, ListsTyped
<1>7. CacheIsOld'
  <2>1. count[t] \in 0 .. count[t]
    BY <1>1
  <2>2. OldAt(new, count[t], p)
    BY <1>3, <2>1 DEF OldAt, ListsInv, CacheIsOld
  <2>3. QED
    BY <1>5, <2>2, CacheStaysOld DEF Answered, ListsInv
<1>8. WalkInv'
  <2>1. CASE ~ (t = tab /\ p = pageNo)
    BY <1>5, <2>1, ScreenStays DEF Answered, ListsInv
  <2>2. CASE t = tab /\ p = pageNo /\ walk.patient
    <3>1. Screen = old /\ Screen' = new
      BY <1>5, <2>2 DEF Screen, Entry, Answered
    <3>2. tab # "none"
      BY <2>2 DEF Lists
    <3>3. PICK b \in Int : SeenAbove(b) /\ Reaches(old, count[tab], pageNo, b)
      BY <2>2, <3>1, <3>2 DEF ListsInv, WalkInv
    <3>4. b <= count[t] - (p - 1) * PageSize
      BY <1>1, <2>2, <3>3 DEF Reaches
    <3>5. Reaches(new, count[t], p, b)
      BY <1>1, <1>3, <3>4 DEF Reaches
    <3>6. SeenAbove(b)'
      BY <3>3 DEF SeenAbove, Answered
    <3>7. QED
      BY <2>2, <3>1, <3>5, <3>6 DEF WalkInv, Answered
  <2>3. QED
    BY <2>1, <2>2 DEF WalkInv, Answered
<1>9. QED
  BY <1>6, <1>7, <1>8 DEF ListsInv

LEMMA ArriveKeeps ==
  ASSUME ListsInv, NEW t \in Lists, NEW p \in PageNos, Arrive(t, p)
  PROVE  ListsInv'
<1> DEFINE old == query[t][p]
           new == [NotFetched EXCEPT !.known = TRUE, !.data = old.got]
<1>1. old \in Entries /\ old.fetch = "read" /\ count[t] \in Nat /\ p \in Nat \ {0}
  BY PagesAssumption DEF Arrive, ListsInv, ListsTyped, PageNos
<1>2. new \in Entries /\ new.known /\ new.fetch = "no" /\ new.data = old.got
  BY <1>1 DEF Entries, NotFetched
<1>3. query' = [query EXCEPT ![t] = [@ EXCEPT ![p] = new]]
  BY Zenon DEF Arrive
<1> HIDE DEF new
<1>4. Entry(t, p, new)
  BY <1>2, <1>3, EntryMoves DEF ListsInv
<1>5. ListsTyped'
  <2>1. walk' = walk \/ walk' = [walk EXCEPT !.seen = @ \cup old.got]
    BY DEF Arrive
  <2>2. walk' \in Walks
    BY <1>1, <2>1 DEF Walks, Entries, ListsInv, ListsTyped
  <2>3. QED
    BY <1>4, <2>2 DEF Entry, Arrive, ListsInv, ListsTyped
<1>6. CacheIsOld'
  <2>1. OldAt(new, count[t], p)
    BY <1>1, <1>2 DEF OldAt, ListsInv, CacheIsOld
  <2>2. QED
    BY <1>4, <2>1, CacheStaysOld DEF Arrive, ListsInv
<1>7. WalkInv'
  <2>1. CASE ~ (t = tab /\ p = pageNo)
    BY <1>4, <2>1, ScreenStays DEF Arrive, ListsInv
  <2>2. CASE t = tab /\ p = pageNo /\ walk.patient
    <3>1. Screen = old /\ Screen' = new
      BY <1>4, <2>2 DEF Screen, Entry, Arrive
    <3>2. tab # "none"
      BY <2>2 DEF Lists
    <3>3. PICK b \in Int : SeenAbove(b) /\ Reaches(old, count[tab], pageNo, b)
      BY <2>2, <3>1, <3>2 DEF ListsInv, WalkInv
    <3>4. PICK n \in 0 .. count[t] : old.got = PageAt(n, p) /\ b <= n - (p - 1) * PageSize
      BY <1>1, <2>2, <3>3 DEF Reaches
    <3>5. p * PageSize \in Nat /\ (p - 1) * PageSize \in Nat
      BY <1>1, Offsets
    <3> DEFINE low == n - p * PageSize
    <3>6. low \in Int /\ Reaches(new, count[t], p, low)
      BY <1>1, <1>2, <3>4, <3>5 DEF Reaches
    <3>7. SeenAbove(low)'
      <4>1. walk'.from = walk.from /\ walk'.seen = walk.seen \cup old.got /\ walk.from \in Nat
        BY <2>2 DEF Arrive, ListsInv, ListsTyped, Walks
      <4>2. ASSUME NEW r \in 1 .. walk.from, low < r
            PROVE  r \in walk.seen \cup old.got
        <5>1. CASE b < r
          BY <3>3, <4>2, <5>1 DEF SeenAbove
        <5>2. CASE ~ (b < r)
          BY <3>4, <3>5, <4>1, <4>2, <5>2 DEF PageAt
        <5>3. QED
          BY <5>1, <5>2
      <4>3. QED
        BY <4>1, <4>2 DEF SeenAbove
    <3>8. QED
      BY <2>2, <3>1, <3>6, <3>7 DEF WalkInv, Arrive
  <2>3. QED
    BY <2>1, <2>2 DEF WalkInv, Arrive
<1>8. QED
  BY <1>5, <1>6, <1>7 DEF ListsInv

(* The first page of a list is opened.                                     *)
LEMMA EnterKeeps ==
  ASSUME ListsInv, NEW t \in Lists, tab' = t, pageNo' = 1, query' = Asked(t, 1),
         walk' = Entered(t), UNCHANGED count
  PROVE  ListsInv'
<1>1. 1 \in PageNos /\ count[t] \in Nat
  BY PagesAssumption DEF PageNos, ListsInv, ListsTyped
<1>2. PICK new \in Entries : Entry(t, 1, new) /\ (query[t][1].fetch = "no" => new.fetch = "asked")
  BY <1>1, AskedMoves DEF ListsInv
<1>3. CacheIsOld'
  BY <1>1, AskedIsOld DEF ListsInv
<1>4. ListsTyped'
  BY <1>1, <1>2 DEF ListsInv, ListsTyped, Entry, Entered, Walks
<1>5. ASSUME walk'.patient
      PROVE  SeenAbove(count[t])' /\ Reaches(Screen', count'[tab'], pageNo', count[t])
  <2>1. Screen' = new /\ new.fetch = "asked"
    BY <1>2, <1>5 DEF Screen, Entry, Entered
  <2>2. (1 - 1) * PageSize = 0
    BY PagesAssumption
  <2>3. walk'.from = count[t]
    BY DEF Entered
  <2>4. QED
    BY <1>1, <2>1, <2>2, <2>3 DEF Reaches, SeenAbove
<1>6. WalkInv'
  BY <1>1, <1>5 DEF WalkInv
<1>7. QED
  BY <1>3, <1>4, <1>6 DEF ListsInv

LEMMA PrevKeeps ==
  ASSUME ListsInv, PrevPage
  PROVE  ListsInv'
<1>1. /\ tab \in Lists /\ pageNo \in PageNos /\ pageNo > 1 /\ tab' = tab /\ pageNo' = pageNo - 1
      /\ query' = Asked(tab, pageNo - 1) /\ UNCHANGED count
  BY DEF PrevPage, ListsInv, ListsTyped
<1>2. CASE pageNo = 2
  BY <1>1, <1>2, EnterKeeps DEF PrevPage
<1>3. CASE pageNo # 2
  <2>1. walk' = [walk EXCEPT !.patient = FALSE] /\ pageNo - 1 \in PageNos /\ pageNo - 1 \in Nat \ {0}
    BY <1>1, <1>3, PagesAssumption DEF PrevPage, PageNos
  <2>2. walk' \in Walks /\ ~walk'.patient
    BY <2>1 DEF ListsInv, ListsTyped, Walks
  <2>3. ListsTyped'
    BY <1>1, <2>1, <2>2, AskedMoves DEF ListsInv, ListsTyped, Entry
  <2>4. CacheIsOld'
    BY <1>1, <2>1, AskedIsOld DEF ListsInv
  <2>5. QED
    BY <2>2, <2>3, <2>4 DEF ListsInv, WalkInv
<1>4. QED
  BY <1>2, <1>3

(* "next" is enabled on full pages only.                                   *)
LEMMA FullPage ==
  ASSUME ListsInv, tab # "none", Cardinality(Rows) >= PageSize
  PROVE  pageNo + 1 \in PageNos
<1>1. /\ tab \in Lists /\ pageNo \in PageNos /\ pageNo \in Nat \ {0} /\ Screen = query[tab][pageNo]
      /\ count[tab] \in 0 .. MaxRows
  BY DEF ListsInv, ListsTyped, Screen, PageNos
<1>2. Screen.known
  BY FS_EmptySet, PagesAssumption DEF Rows
<1>3. PICK n \in 0 .. count[tab] : Rows = PageAt(n, pageNo)
  BY <1>1, <1>2 DEF ListsInv, CacheIsOld, Rows
<1>4. n \in 0 .. MaxRows /\ pageNo * PageSize <= n
  <2>1. n \in Nat /\ n \in 0 .. MaxRows
    BY <1>1, PagesAssumption
  <2>2. Cardinality(PageAt(n, pageNo)) >= PageSize
    BY <1>3
  <2>3. QED
    BY <1>1, <2>1, <2>2, PageIs
<1>5. QED
  BY <1>1, <1>4, NextHasNumber

LEMMA NextKeeps ==
  ASSUME ListsInv, NextPage
  PROVE  ListsInv'
<1>1. /\ tab \in Lists /\ pageNo \in PageNos /\ tab' = tab /\ pageNo' = pageNo + 1 /\ tab # "none"
      /\ pageNo \in Nat \ {0} /\ query' = Asked(tab, pageNo + 1) /\ UNCHANGED count
      /\ pageNo + 1 \in PageNos /\ count[tab] \in Nat
  BY FullPage, PagesAssumption DEF NextPage, ListsInv, ListsTyped, PageNos
<1>2. walk' = [walk EXCEPT !.patient = walk.patient /\ Screen.fetch = "no"
                                        /\ query[tab][pageNo + 1].fetch = "no"]
  BY DEF NextPage
<1>3. /\ walk' \in Walks /\ walk'.from = walk.from /\ walk'.seen = walk.seen
      /\ walk'.patient =
           (walk.patient /\ Screen.fetch = "no" /\ query[tab][pageNo + 1].fetch = "no")
  BY <1>2 DEF ListsInv, ListsTyped, Walks
<1>4. PICK new \in Entries : /\ Entry(tab, pageNo + 1, new)
                             /\ query[tab][pageNo + 1].fetch = "no" => new.fetch = "asked"
  BY <1>1, AskedMoves DEF ListsInv
<1>5. CacheIsOld'
  BY <1>1, AskedIsOld DEF ListsInv
<1>6. ListsTyped'
  BY <1>1, <1>3, <1>4 DEF ListsInv, ListsTyped, Entry
<1>7. WalkInv'
  <2>1. SUFFICES ASSUME walk'.patient
                 PROVE  \E b \in Int : SeenAbove(b)' /\ Reaches(Screen', count'[tab'], pageNo', b)
    BY DEF WalkInv
  <2>2. PICK b \in Int : SeenAbove(b) /\ Reaches(Screen, count[tab], pageNo, b)
    BY <1>1, <1>3, <2>1 DEF ListsInv, WalkInv
  <2>3. PICK n \in 0 .. count[tab] : b <= n - pageNo * PageSize
    BY <1>3, <2>1, <2>2 DEF Reaches
  <2>4. pageNo * PageSize \in Nat /\ (pageNo + 1 - 1) * PageSize = pageNo * PageSize
    BY <1>1, Offsets
  <2>5. Screen' = new /\ new.fetch = "asked"
    BY <1>1, <1>3, <1>4, <2>1 DEF Screen, Entry
  <2>6. Reaches(new, count[tab], pageNo + 1, b)
    BY <1>1, <2>3, <2>4, <2>5 DEF Reaches
  <2>7. SeenAbove(b)'
    BY <1>3, <2>2 DEF SeenAbove
  <2>8. QED
    BY <1>1, <2>5, <2>6, <2>7
<1>8. QED
  BY <1>5, <1>6, <1>7 DEF ListsInv

LEMMA RefocusKeeps ==
  ASSUME ListsInv, Refocus
  PROVE  ListsInv'
<1>1. /\ tab \in Lists /\ pageNo \in PageNos /\ tab # "none" /\ Screen.fetch = "no"
      /\ pageNo \in Nat \ {0} /\ query' = Asked(tab, pageNo) /\ count[tab] \in Nat
      /\ UNCHANGED <<count, tab, pageNo, walk>>
  BY PagesAssumption DEF Refocus, ListsInv, ListsTyped, PageNos
<1>2. PICK new \in Entries : Entry(tab, pageNo, new) /\ new.fetch = "asked"
  BY <1>1, AskedMoves DEF ListsInv, Screen
<1>3. CacheIsOld'
  BY <1>1, AskedIsOld DEF ListsInv
<1>4. ListsTyped'
  BY <1>1, <1>2 DEF ListsInv, ListsTyped, Entry
<1>5. WalkInv'
  <2>1. SUFFICES ASSUME walk.patient
                 PROVE  \E b \in Int : SeenAbove(b)' /\ Reaches(Screen', count[tab], pageNo, b)
    BY <1>1 DEF WalkInv
  <2>2. PICK b \in Int : SeenAbove(b) /\ Reaches(Screen, count[tab], pageNo, b)
    BY <1>1, <2>1 DEF ListsInv, WalkInv
  <2>3. PICK n \in 0 .. count[tab] : b <= n - pageNo * PageSize
    BY <1>1, <2>2 DEF Reaches
  <2>4. /\ pageNo * PageSize \in Nat /\ (pageNo - 1) * PageSize \in Nat
        /\ pageNo * PageSize = (pageNo - 1) * PageSize + PageSize
    BY <1>1, Offsets
  <2>5. b <= count[tab] - (pageNo - 1) * PageSize
    BY <1>1, <2>3, <2>4, PagesAssumption
  <2>6. Screen' = new
    BY <1>1, <1>2 DEF Screen, Entry
  <2>7. QED
    BY <1>1, <1>2, <2>2, <2>5, <2>6 DEF Reaches, SeenAbove
<1>6. QED
  BY <1>3, <1>4, <1>5 DEF ListsInv

LEMMA ListStepKeeps ==
  ASSUME ListsInv, DashboardNext
  PROVE  ListsInv'
<1>1. CASE NewVersion
  BY <1>1, AddedKeeps DEF NewVersion, Lists
<1>2. ASSUME NEW p \in PageNos, ListFiles(p) \/ ListSyncJobs(p)
      PROVE  ListsInv'
  BY <1>2, AnsweredKeeps DEF ListFiles, ListSyncJobs, Lists
<1>3. ASSUME NEW t \in Lists, NEW p \in PageNos, Arrive(t, p)
      PROVE  ListsInv'
  BY <1>3, ArriveKeeps
<1>4. ASSUME NEW t \in Lists, Open(t)
      PROVE  ListsInv'
  BY <1>4, EnterKeeps DEF Open
<1>5. QED
  BY <1>1, <1>2, <1>3, <1>4, PrevKeeps, NextKeeps, RefocusKeeps DEF DashboardNext

-----------------------------------------------------------------------------
(* The statistics                                                          *)

(* What the recent jobs are when there are c.                              *)
RecentAt(c) == {r \in 1 .. c : r > c - RecentLimit}
Totals == [jobs : Nat, active : Nat, recent : SUBSET Nat]

(* The selects of one fetch are made while jobs are added: a later one     *)
(* counts at least as many as the earlier ones.                            *)
Complete(g) == /\ g.jobs <= g.active
               /\ \E c \in Nat : g.jobs <= c /\ g.recent = RecentAt(c)
StatsInv ==
  /\ stats.data \in Totals /\ stats.got \in Totals
  /\ stats \in [known : BOOLEAN, data : Totals, failed : BOOLEAN, got : Totals,
                fetch : {"no", "asked", "totals", "active", "recent"}]
  /\ Complete(stats.data)
  /\ stats.fetch \in {"totals", "active"} => stats.got.jobs <= count.jobs
  /\ stats.fetch = "active" => stats.got.jobs <= stats.got.active
  /\ stats.fetch = "recent" => Complete(stats.got)

LEMMA NothingIsComplete == NoTotals \in Totals /\ Complete(NoTotals)
<1>1. RecentAt(0) = {}
  BY PagesAssumption DEF RecentAt
<1>2. QED
  BY <1>1 DEF NoTotals, Totals, Complete

LEMMA JobsAdded ==
  ASSUME ListsTyped, NEW lists \in SUBSET Lists, Added(lists), StatsInv
  PROVE  StatsInv'
<1>1. count.jobs \in Nat /\ count'.jobs \in Nat /\ count.jobs <= count'.jobs
  BY PagesAssumption DEF ListsTyped, Added, Lists
<1>2. stats.got.jobs \in Nat
  BY DEF StatsInv, Totals
<1>3. QED
  BY <1>1, <1>2 DEF StatsInv, Added, Complete

LEMMA StatisticsKeep ==
  ASSUME ListsTyped, StatsInv, StatisticsNext
  PROVE  StatsInv'
<1>1. count.jobs \in Nat
  BY PagesAssumption DEF ListsTyped, Lists
<1>2. CASE NewVersion
  BY <1>2, JobsAdded DEF NewVersion, Lists
<1>3. CASE OpenStats
  BY <1>3 DEF OpenStats, StatsInv, Complete
<1>4. CASE SelectTotals
  <2> DEFINE new == [NoTotals EXCEPT !.jobs = JoinedRows]
  <2>1. new \in Totals /\ new.jobs = count.jobs
    BY <1>1, NothingIsComplete DEF JoinedRows, Totals
  <2>2. stats' = [stats EXCEPT !.fetch = "totals", !.got = new] /\ UNCHANGED count
    BY <1>4 DEF SelectTotals, StatsOnly
  <2> HIDE DEF new
  <2>3. stats'.got = new /\ stats'.fetch = "totals" /\ stats'.data = stats.data
    BY <2>2 DEF StatsInv
  <2>4. stats' \in [known : BOOLEAN, data : Totals, failed : BOOLEAN, got : Totals,
                    fetch : {"no", "asked", "totals", "active", "recent"}]
    BY <2>1, <2>2 DEF StatsInv
  <2>5. QED
    BY <1>1, <2>1, <2>2, <2>3, <2>4 DEF StatsInv
<1>5. CASE CountActive
  BY <1>1, <1>5 DEF CountActive, StatsInv, StatsOnly, Totals, Complete
<1>6. CASE SeriesFails
  BY <1>1, <1>6, NothingIsComplete DEF SeriesFails, StatsInv, StatsOnly, Complete
<1>7. CASE SelectRecent
  <2>1. RecentJobs = RecentAt(count.jobs) /\ RecentAt(count.jobs) \in SUBSET Nat
    BY <1>1 DEF RecentJobs, RecentAt
  <2>2. QED
    BY <1>1, <1>7, <2>1 DEF SelectRecent, StatsInv, StatsOnly, Totals, Complete
<1>8. CASE StatsArrive
  BY <1>1, <1>8, NothingIsComplete DEF StatsArrive, StatsInv, StatsOnly, NoStats
<1>9. QED
  BY <1>2, <1>3, <1>4, <1>5, <1>6, <1>7, <1>8 DEF StatisticsNext

(* The lists leave the statistics alone, and these the lists.              *)
LEMMA ListsLeaveStats ==
  ASSUME ListsTyped, StatsInv, DashboardNext
  PROVE  StatsInv'
<1>1. CASE NewVersion
  BY <1>1, JobsAdded DEF NewVersion, Lists
<1>2. CASE UNCHANGED <<count, stats>>
  BY <1>2 DEF StatsInv, Complete
<1>3. QED
  BY <1>1, <1>2
  DEF DashboardNext, ListFiles, ListSyncJobs, Answered, Arrive, Open, PrevPage, NextPage, Refocus

LEMMA StatsLeaveLists ==
  ASSUME ListsInv, StatisticsNext
  PROVE  ListsInv'
<1>1. CASE NewVersion
  BY <1>1, AddedKeeps DEF NewVersion, Lists
<1>2. CASE UNCHANGED <<count, tab, pageNo, query, walk>>
  BY <1>2 DEF ListsInv, ListsTyped, CacheIsOld, WalkInv, SeenAbove, Screen
<1>3. QED
  BY <1>1, <1>2 DEF StatisticsNext, OpenStats, SelectTotals, CountActive, SeriesFails,
                          SelectRecent, StatsArrive, StatsOnly

-----------------------------------------------------------------------------
SiteInv == PlayInv /\ ListsInv /\ StatsInv /\ (visit # "playground" => ~open)

LEMMA SiteStarts == SiteInit => SiteInv
<1> SUFFICES ASSUME SiteInit
             PROVE  SiteInv
  OBVIOUS
<1>1. PlayInv
  <2>1. page \in Pages
    BY LeastSize, TextsAssumption DEF SiteInit, Init, Pages
  <2>2. Run(1, page) \in RunRecords /\ Run(1, page).no = 1 /\ Run(1, page).in = page
    BY <2>1 DEF Run, RunRecords
  <2>3. SUFFICES ASSUME open
                 PROVE  RunsTyped /\ RunsInOrder /\ LastIsOfPage
    BY DEF PlayInv
  <2>4. runs = <<Run(1, page)>> /\ reads = <<>> /\ shown.no = 0 /\ started = 1 /\ overtaken = FALSE
    BY <2>3 DEF SiteInit, Init, NoRun, Run
  <2>5. runs \in Seq(RunRecords) /\ DOMAIN runs = {1} /\ runs[1] = Run(1, page)
    BY <2>2, <2>4
  <2>6. reads \in Seq(Reads)
    BY <2>4
  <2>7. QED
    <3>1. RunsTyped
      <4>1. started \in Nat \ {0} /\ shown.no \in Nat
        BY <2>4
      <4>2. overtaken \in BOOLEAN
        BY <2>4, Zenon
      <4>3. QED
        BY <2>1, <2>5, <2>6, <4>1, <4>2, Zenon DEF RunsTyped
    <3>2. RunsInOrder
      BY <2>2, <2>4, <2>5 DEF RunsInOrder
    <3>3. LastIsOfPage
      BY <2>2, <2>4, <2>5 DEF LastIsOfPage
    <3>4. QED
      BY <3>1, <3>2, <3>3
<1>2. ListsInv
  <2>1. count \in [Lists -> 0 .. MaxRows]
    BY PagesAssumption DEF SiteInit, DashboardInit
  <2>2. 1 \in PageNos
    BY PagesAssumption DEF PageNos
  <2>3. query = [t \in Lists |-> [p \in PageNos |-> NotFetched]] /\ NotFetched \in Entries
    BY DEF SiteInit, DashboardInit, NotFetched, Entries
  <2>4. tab = "none" /\ pageNo = 1 /\ walk = NoWalk /\ NoWalk \in Walks
    BY DEF SiteInit, DashboardInit, NoWalk, Walks
  <2>5. CacheIsOld
    BY <2>3 DEF CacheIsOld, NotFetched
  <2>6. QED
    BY <2>1, <2>2, <2>3, <2>4, <2>5 DEF ListsInv, ListsTyped, WalkInv
<1>3. StatsInv
  BY NothingIsComplete DEF SiteInit, DashboardInit, NoStats, StatsInv
<1>4. QED
  BY <1>1, <1>2, <1>3 DEF SiteInit, SiteInv

LEMMA SiteKeeps == SiteInv /\ [SiteNext]_siteVars => SiteInv'
<1> SUFFICES ASSUME SiteInv, [SiteNext]_siteVars
             PROVE  SiteInv'
  OBVIOUS
<1>1. UNCHANGED dashboardVars => ListsInv' /\ StatsInv'
  BY DEF dashboardVars, SiteInv, ListsInv, ListsTyped, CacheIsOld, WalkInv, SeenAbove,
         Screen, StatsInv, Complete
<1>2. UNCHANGED <<open, pageVars>> => PlayInv'
  BY DEF pageVars, SiteInv, PlayInv, RunsTyped, RunsInOrder, LastIsOfPage
<1>3. CASE visit = "playground" /\ Next /\ UNCHANGED <<dashboardVars, visit>>
  <2>1. PlayInv'
    BY <1>2, <1>3, PageStepKeeps DEF Next, CallStep, SiteInv
  <2>2. QED
    BY <1>1, <1>3, <2>1 DEF SiteInv
<1>4. CASE visit = "lists" /\ DashboardNext /\ UNCHANGED <<vars, visit>>
  BY <1>2, <1>4, ListStepKeeps, ListsLeaveStats DEF SiteInv, vars, ListsInv
<1>5. CASE visit = "statistics" /\ StatisticsNext /\ UNCHANGED <<vars, visit>>
  BY <1>2, <1>5, StatsLeaveLists, StatisticsKeep DEF SiteInv, vars, ListsInv
<1>6. CASE UNCHANGED siteVars
  BY <1>1, <1>2, <1>6 DEF siteVars, vars, SiteInv
<1>7. QED
  BY <1>3, <1>4, <1>5, <1>6 DEF SiteNext

(* A patient visitor's bound lies below the page on the screen.            *)
LEMMA NothingAboveIsMissed ==
  ASSUME ListsInv, tab # "none", walk.patient, Screen.fetch = "no", NEW r \in 1 .. walk.from,
         r \notin walk.seen
  PROVE  Cardinality(Rows) >= PageSize /\ \A x \in Rows : r < x
<1>1. /\ tab \in Lists /\ pageNo \in Nat \ {0} /\ count[tab] \in Nat /\ PageSize \in Nat
      /\ walk.from \in Nat
  BY PagesAssumption DEF ListsInv, ListsTyped, PageNos, Walks
<1>2. PICK b \in Int : SeenAbove(b) /\ Reaches(Screen, count[tab], pageNo, b)
  BY DEF ListsInv, WalkInv
<1>3. PICK n \in 0 .. count[tab] : Rows = PageAt(n, pageNo) /\ b <= n - pageNo * PageSize
  BY <1>2 DEF Reaches, Rows
<1>4. pageNo * PageSize \in Nat /\ n \in Nat
  BY <1>1, Offsets
<1>5. ~ (b < r)
  BY <1>2 DEF SeenAbove
<1>6. r <= n - pageNo * PageSize /\ n - pageNo * PageSize >= 1
  BY <1>1, <1>3, <1>4, <1>5
<1>7. Cardinality(Rows) = PageSize
  BY <1>1, <1>3, <1>4, <1>6, PageIs
<1>8. \A x \in Rows : r < x
  BY <1>1, <1>3, <1>4, <1>6 DEF PageAt
<1>9. QED
  BY <1>1, <1>7, <1>8

(* Each job of the totals is shown or older than a full list of newer ones.*)
LEMMA JobsAreShown ==
  ASSUME StatsInv, NEW r \in 1 .. stats.data.jobs, r \notin ShownJobs
  PROVE  Cardinality(ShownJobs) >= RecentLimit /\ \A x \in ShownJobs : r < x
<1>1. stats.data \in Totals /\ Complete(stats.data) /\ stats.data.jobs \in Nat
  BY DEF StatsInv, Totals
<1>2. PICK c \in Nat : stats.data.jobs <= c /\ stats.data.recent = RecentAt(c)
  BY <1>1 DEF Complete
<1>3. ShownJobs = RecentAt(c)
  BY <1>1, <1>2 DEF ShownJobs, Complete
<1>4. r \in 1 .. c /\ ~ (r > c - RecentLimit)
  BY <1>1, <1>2, <1>3 DEF RecentAt
<1>5. RecentAt(c) = c - RecentLimit + 1 .. c
  BY <1>4, PagesAssumption DEF RecentAt
<1>6. Cardinality(RecentAt(c)) = RecentLimit
  <2>1. c - RecentLimit + 1 \in Int /\ c \in Int
    BY PagesAssumption
  <2>2. QED
    BY <1>5, <2>1, PagesAssumption, FS_Interval
<1>7. QED
  BY <1>3, <1>4, <1>5, <1>6, PagesAssumption

(* ShownIsCurrent (Playground): when no run is under way, what the page    *)
(* shows belongs to the texts and the size on it, or an older run ended    *)
(* after a newer one (the effect on run and run() in playground.tsx).      *)
THEOREM ShownBelongs == SiteSpec => []ShownIsCurrent
<1>1. SiteInv => ShownIsCurrent
  BY DEF SiteInv, PlayInv, LastIsOfPage, ShownIsCurrent
<1>2. QED
  BY <1>1, SiteStarts, SiteKeeps, PTL DEF SiteSpec

(* NoRowIsSkipped (Dashboard): a patient visitor of listFiles' and         *)
(* listSyncJobs' pages misses no row, and getDashboardStats' answer lacks  *)
(* none of the jobs in its own totals.                                     *)
THEOREM NoneSkipped == SiteSpec => []NoRowIsSkipped
<1>1. SiteInv => NoRowIsSkipped
  <2>1. SUFFICES ASSUME SiteInv
                 PROVE  NoRowIsSkipped
    OBVIOUS
  <2>2. stats.data.jobs <= stats.data.active
    BY <2>1 DEF SiteInv, StatsInv, Complete
  <2>3. QED
    BY <2>1, <2>2, NothingAboveIsMissed, JobsAreShown DEF SiteInv, NoRowIsSkipped
<1>2. QED
  BY <1>1, SiteStarts, SiteKeeps, PTL DEF SiteSpec

-----------------------------------------------------------------------------
(* The library behind the playground                                       *)

LibraryInv == CallInv /\ verified # "MISMATCH"

(* The page opens without a badge, and no call is under way.               *)
LEMMA LibraryStarts == SiteInit => LibraryInv
  BY LibStarts DEF SiteInit, Init, LibraryInv

(* A step of a call in block mode.                                         *)
LEMMA CallStepKeeps ==
  ASSUME LibraryInv, CallStep
  PROVE  LibraryInv'
<1>1. verified' = verified /\ (LibStep \/ \E o, n \in Inputs, size \in Sizes : Call(o, n, size))
  BY DEF CallStep, pageVars
<1>2. CASE LibStep
  <2>1. CallInv'
    BY <1>2, MatchKeeps, SlideKeeps, ReturnKeeps DEF LibStep, LibraryInv
  <2>2. QED
    BY <1>1, <2>1 DEF LibraryInv
<1>3. ASSUME NEW o \in Inputs, NEW n \in Inputs, NEW size \in Sizes, Call(o, n, size)
      PROVE  LibraryInv'
  <2> DEFINE B == 0 .. ModAdler - 1
             C == 0 .. ModAdler
  <2>1. o \in Seq(B) /\ n \in Seq(B) /\ size \in Nat \ {0}
    BY BytesAssumption, TextsAssumption
  <2>2. B \subseteq C
    BY LibAssumption
  <2> HIDE DEF B, C
  <2>3. o \in Seq(C) /\ n \in Seq(C)
    BY <2>1, <2>2, MoreBytes
  <2>4. CallInv'
    BY <1>3, <2>1, <2>3, CallKeeps DEF LibraryInv, C
  <2>5. QED
    BY <1>1, <2>4 DEF LibraryInv
<1>4. QED
  BY <1>1, <1>2, <1>3

(* A run that is shown has rebuilt its own new text, whatever the page     *)
(* holds by then.                                                          *)
LEMMA FinishKeeps ==
  ASSUME RunsTyped, NEW k \in DOMAIN runs, Show(k)
  PROVE  verified' # "MISMATCH"
<1> DEFINE p == runs[k].in
<1>1. p \in Pages
  <2>1. runs[k] \in RunRecords
    BY RunsAre DEF RunsTyped
  <2>2. QED
    BY <2>1 DEF RunRecords
<1>2. p.old \in Texts /\ p.new \in Texts /\ p.size \in Sizes
  BY <1>1 DEF Pages
<1>3. verified' = IF Reconstructed(hits, p) THEN "ok" ELSE "MISMATCH"
  BY DEF Show
<1> HIDE DEF p
<1>4. p.old \in Seq(Nat) /\ p.new \in Seq(Nat) /\ p.size \in Nat
  <2> DEFINE B == 0 .. ModAdler - 1
             x == p.old
             y == p.new
  <2>1. Texts \subseteq Seq(B)
    BY BytesAssumption
  <2>2. x \in Seq(B) /\ y \in Seq(B)
    BY <1>2, <2>1
  <2>3. B \subseteq Nat
    OBVIOUS
  <2>4. p.size \in Nat
    BY <1>2, TextsAssumption
  <2> HIDE DEF B, x, y
  <2>5. x \in Seq(Nat) /\ y \in Seq(Nat)
    BY <2>2, <2>3, BytesAre
  <2>6. QED
    BY <2>4, <2>5 DEF x, y
<1>5. Reconstructed(hits, p)
  BY <1>4, ReconstructionAgrees
<1>6. QED
  BY <1>3, <1>5

(* A step of the page.                                                     *)
LEMMA PageLeavesLibrary ==
  ASSUME LibraryInv, PlayInv, PageStep
  PROVE  LibraryInv'
<1>1. UNCHANGED callVars /\ RunsTyped /\ page \in Pages
  BY DEF PageStep, PlayInv, RunsTyped
<1>2. CallInv'
  BY <1>1, CallUnchanged DEF LibraryInv
<1>3. verified' # "MISMATCH"
  <2>1. CASE Edit
    BY <2>1 DEF Edit, EditText, PickSize, SetPage, StartRun
  <2>2. CASE Click
    BY <2>2 DEF Click, StartRun
  <2>3. CASE ChooseFile
    BY <2>3 DEF ChooseFile, LibraryInv
  <2>4. CASE FileRead
    BY <2>4 DEF FileRead, SetPage, StartRun, LibraryInv
  <2>5. ASSUME NEW k \in DOMAIN runs, Finish(k) PROVE verified' # "MISMATCH"
    BY <1>1, <2>5, FinishKeeps DEF Finish
  <2>6. QED
    BY <2>1, <2>2, <2>3, <2>4, <2>5 DEF PageStep, LibraryInv
<1>4. QED
  BY <1>2, <1>3 DEF LibraryInv

(* All steps of the site.                                                  *)
LEMMA LibraryKeeps ==
  SiteInv /\ LibraryInv /\ [SiteNext]_siteVars => LibraryInv'
<1> SUFFICES ASSUME SiteInv, LibraryInv, [SiteNext]_siteVars PROVE LibraryInv'
  OBVIOUS
<1>1. CASE PageStep
  BY <1>1, PageLeavesLibrary DEF SiteInv
<1>2. CASE CallStep
  BY <1>2, CallStepKeeps
<1>3. CASE UNCHANGED vars
  <2>1. UNCHANGED callVars /\ verified' = verified
    BY <1>3 DEF vars, pageVars
  <2>2. QED
    BY <2>1, CallUnchanged DEF LibraryInv
<1>4. QED
  BY <1>1, <1>2, <1>3 DEF SiteNext, Next, siteVars

(* The rolled state is the hash of the window, at every position of every  *)
(* call (adler32.ts), for any MOD_ADLER above the bytes.                   *)
THEOREM RollingExact == SiteSpec => []RollingIsDirect
<1>1. SiteInit => SiteInv /\ LibraryInv
  BY SiteStarts, LibraryStarts
<1>2. SiteInv /\ LibraryInv /\ [SiteNext]_siteVars => (SiteInv /\ LibraryInv)'
  BY SiteKeeps, LibraryKeeps
<1>3. LibraryInv => RollingIsDirect
  BY DEF LibraryInv, CallInv
<1>4. QED
  BY <1>1, <1>2, <1>3, PTL DEF SiteSpec

(* No delta the library computes fails to rebuild the new file, and its    *)
(* counters add up: the badge of the page is never MISMATCH, and block     *)
(* mode does the same (delta.ts, reconstruct.ts, playground.tsx).          *)
THEOREM NeverMismatches == SiteSpec => []NeverMismatch
<1>1. SiteInit => SiteInv /\ LibraryInv
  BY SiteStarts, LibraryStarts
<1>2. SiteInv /\ LibraryInv /\ [SiteNext]_siteVars => (SiteInv /\ LibraryInv)'
  BY SiteKeeps, LibraryKeeps
<1>3. LibraryInv => NeverMismatch
  <2> SUFFICES ASSUME LibraryInv, call.phase = "done"
               PROVE  Rebuilds(call.old, CallSignatures, Result(ops), call.new)
    BY DEF NeverMismatch, BlockDeltaRebuilds, LibraryInv
  <2>1. Delivers(ops, call.old, CallSignatures, call.new) /\ CallTyped
    BY DEF LibraryInv, CallInv, DoneInv
  <2>2. call.new \in Seq(Nat)
    BY <2>1, CallIs
  <2>3. QED
    BY <2>1, <2>2, DeliversRebuilds
<1>4. QED
  BY <1>1, <1>2, <1>3, PTL DEF SiteSpec
=============================================================================
