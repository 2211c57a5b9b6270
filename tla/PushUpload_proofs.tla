---------------------------- MODULE PushUpload_proofs ----------------------------
(***************************************************************************)
(* The push of one machine for any contents, any number of workers and any *)
(* number of failures: the pool uses its limit, a row that skips a file    *)
(* names what was published, and without slow-downs every version is whole.*)
(***************************************************************************)
EXTENDS PushUpload, FiniteSetTheorems, WellFoundedInduction, TLAPS

Phases == {"idle", "resume", "negotiate", "uploading", "committing"}
Running == {"uploading", "committing"}
Workers == [at : {"free", "put", "delay"}, initial : BOOLEAN, chunk : Nat, attempts : Int]
Pushes == [id : Nat, content : Contents \cup {None}]

PoolTyped ==
  /\ worker \in [Slots -> Workers] /\ todo \in SUBSET Nat
  /\ limit \in 1 .. Concurrency /\ streak \in Nat /\ error \in BOOLEAN
TypeOK ==
  /\ phase \in Phases /\ push \in Pushes /\ PoolTyped
  /\ file \in Contents /\ cached \in Contents \cup {None}
  /\ session \in Pushes /\ journal \in SUBSET (Nat \X Nat)
  /\ live \in [Ids -> Contents \cup {None}] /\ negotiated \in Nat
  /\ stored \in SUBSET Nat /\ published \in SUBSET Contents /\ current \in SUBSET Nat
  /\ slowDowns \in Nat /\ errors \in Nat
  /\ faults \in 0 .. MaxFaults /\ edits \in 0 .. MaxEdits

(* A push resumes or has negotiated the session of its own content, whose  *)
(* token names this content or nothing any more; it starts with a free pool*)
SessionInv ==
  /\ phase # "idle" => push.content # None
  /\ session.content # None => session.id \in Ids /\ live[session.id] \in {None, session.content}
  /\ phase = "resume" => session.content = push.content
  /\ phase \in Running => session = push
  /\ phase \in {"resume", "negotiate"} => Active = {}

(* The tokens that can be asked for before the next edit or fault.         *)
Dead == live[session.id] = None
Owed ==
  CASE phase = "idle" -> IF file # cached /\ (session.content # file \/ Dead) THEN 1 ELSE 0
    [] phase = "resume" -> (IF Dead THEN 1 ELSE 0) + (IF file # push.content THEN 1 ELSE 0)
    [] phase = "negotiate" -> 1 + (IF file # push.content THEN 1 ELSE 0)
    [] phase \in Running -> IF file # push.content \/ Dead THEN 1 ELSE 0
TokensSuffice == negotiated + Owed <= 1 + edits + faults

(* Without slow-downs, only the workers that are awaited run, each with    *)
(* attempts left, and every chunk of the push is stored, waiting or taken. *)
Held == {worker[x].chunk : x \in Active}
SteadyInv ==
  slowDowns = 0 =>
    /\ limit = Concurrency
    /\ \A x \in Active : worker[x].initial /\ worker[x].attempts > 0
    /\ phase # "uploading" => Active = {}
    /\ phase = "uploading" /\ ~error => push.content \subseteq stored \cup todo \cup Held
    /\ phase = "committing" => push.content \subseteq stored
    /\ current \subseteq stored
    /\ \A d \in published : d \subseteq stored
Journaled == \A e \in journal : e[2] \in stored

IInv == /\ TypeOK /\ SessionInv /\ TokensSuffice /\ LimitIsUsed
        /\ SteadyInv /\ Journaled /\ CachedIsPublished

-----------------------------------------------------------------------------
(* Least elements and sizes                                                *)
LEMMA MinIsLeast ==
  ASSUME NEW S \in SUBSET Nat, S # {}
  PROVE  Min(S) \in S /\ \A y \in S : Min(S) <= y
<1>1. PICK x \in S : \A y \in S : ~ (<<y, x>> \in OpToRel(<, Nat))
  BY NatLessThanWellFounded, WFMin
<1>2. \A y \in S : ~ (y < x)
  BY <1>1 DEF OpToRel
<1>3. QED
  BY <1>2, S \subseteq Nat, \A y \in S : x <= y DEF Min

LEMMA OfTwo ==
  ASSUME NEW a \in Int, NEW b \in Int
  PROVE  /\ Min({a, b}) = IF a <= b THEN a ELSE b
         /\ Max({a, b}) = IF a >= b THEN a ELSE b
<1>1. Min({a, b}) = IF a <= b THEN a ELSE b
  <2> DEFINE m == IF a <= b THEN a ELSE b
  <2>1. m \in {a, b} /\ \A y \in {a, b} : m <= y
    OBVIOUS
  <2>2. \A x \in {a, b} : (\A y \in {a, b} : x <= y) => x = m
    OBVIOUS
  <2> HIDE DEF m
  <2>3. Min({a, b}) = m
    BY <2>1, <2>2 DEF Min
  <2>4. QED
    BY <2>3 DEF m
<1>2. Max({a, b}) = IF a >= b THEN a ELSE b
  <2> DEFINE m == IF a >= b THEN a ELSE b
  <2>1. m \in {a, b} /\ \A y \in {a, b} : m >= y
    OBVIOUS
  <2>2. \A x \in {a, b} : (\A y \in {a, b} : x >= y) => x = m
    OBVIOUS
  <2> HIDE DEF m
  <2>3. Max({a, b}) = m
    BY <2>1, <2>2 DEF Max
  <2>4. QED
    BY <2>3 DEF m
<1>3. QED
  BY <1>1, <1>2

LEMMA SlotsCount ==
  ASSUME NEW S \in SUBSET Slots
  PROVE  /\ IsFiniteSet(S) /\ Cardinality(S) \in Nat /\ Cardinality(S) <= Concurrency
         /\ Cardinality(S) < Concurrency => Slots \ S # {}
<1>1. IsFiniteSet(Slots) /\ Cardinality(Slots) = Concurrency
  <2>1. Concurrency \in Nat /\ 1 \in Int /\ Concurrency \in Int
    BY SizesAssumption
  <2>2. IsFiniteSet(Slots) /\ Cardinality(Slots) = IF 1 > Concurrency THEN 0 ELSE Concurrency - 1 + 1
    BY <2>1, FS_Interval DEF Slots
  <2>3. QED
    BY <2>2, SizesAssumption
<1>2. IsFiniteSet(S) /\ Cardinality(S) <= Cardinality(Slots)
  BY <1>1, FS_Subset
<1>3. Cardinality(S) \in Nat
  BY <1>2, FS_CardinalityType
<1>4. Cardinality(S) < Concurrency => S # Slots
  BY <1>1, SizesAssumption
<1>5. QED
  BY <1>1, <1>2, <1>3, <1>4

LEMMA ActiveCounts ==
  /\ Active \subseteq Slots /\ Active' \subseteq Slots
  /\ Cardinality(Active) \in Nat /\ Cardinality(Active') \in Nat
  /\ IsFiniteSet(Active) /\ IsFiniteSet(Active')
  /\ Cardinality(Active) < Concurrency => Slots \ Active # {}
<1>1. Active \subseteq Slots /\ Active' \subseteq Slots
  BY DEF Active
<1>2. QED
  BY <1>1, SlotsCount

-----------------------------------------------------------------------------
(* The pool                                                                *)

(* A worker is through with its chunk.  No chunk gets lost on the way: it  *)
(* waits or is held; at most one worker starts, and only below the limit;  *)
(* none stops below the limit with chunks left.                            *)
LEMMA AfterChunkDoes ==
  ASSUME PoolTyped, NEW x \in Active, NEW lim \in 1 .. Concurrency, NEW err \in BOOLEAN,
         AfterChunk(x, lim, err)
  PROVE  /\ worker' \in [Slots -> Workers] /\ todo' \in SUBSET Nat
         /\ todo \subseteq todo' \cup Held'
         /\ \A y \in Active \ {x} : y \in Active' /\ worker'[y] = worker[y]
         /\ \A y \in Active' :
              \/ y \in Active /\ y # x /\ worker'[y] = worker[y]
              \/ worker'[y].attempts = Attempts
                 /\ (worker'[y].initial = worker[x].initial
                     \/ (~err /\ Cardinality(Active) < lim /\ todo # {}))
         /\ Cardinality(Active) >= lim \/ err => Active' \subseteq Active
         /\ ~err /\ todo' # {} /\ (todo # {} => Cardinality(Active) + 1 >= lim)
              => Cardinality(Active') >= lim
         /\ err => todo' = todo
<1> DEFINE starts == ~err /\ Cardinality(Active) < lim /\ todo # {}
           left == IF starts THEN todo \ {Min(todo)} ELSE todo
           active == Cardinality(Active) + (IF starts THEN 1 ELSE 0)
           goesOn == ~err /\ left # {} /\ active <= lim
           slot == Min(Slots \ Active)
<1>1. /\ todo' = IF goesOn THEN left \ {Min(left)} ELSE left
      /\ worker' = [y \in Slots |->
                      CASE y = x -> IF goesOn THEN Taking(Min(left), worker[x].initial) ELSE Free
                        [] y # x /\ starts /\ y = slot -> Taking(Min(todo), FALSE)
                        [] OTHER -> worker[y]]
  BY DEF AfterChunk
<1>2. /\ worker \in [Slots -> Workers] /\ todo \in SUBSET Nat /\ x \in Slots
      /\ worker[x].initial \in BOOLEAN
  BY DEF PoolTyped, Active, Workers
<1>3. /\ todo # {} => Min(todo) \in todo
      /\ left \in SUBSET Nat /\ (left # {} => Min(left) \in left)
  <2>1. left \in SUBSET Nat
    BY <1>2
  <2> HIDE DEF left
  <2>2. QED
    BY <1>2, <2>1, MinIsLeast
<1>4. starts => slot \in Slots /\ slot \notin Active
  <2>1. starts => Slots \ Active # {}
    <3>1. lim <= Concurrency /\ lim \in Nat /\ Concurrency \in Nat
      BY SizesAssumption
    <3>2. QED
      BY <3>1, ActiveCounts
  <2>2. Slots \ Active \in SUBSET Nat
    BY SizesAssumption DEF Slots
  <2>3. QED
    BY <2>1, <2>2, MinIsLeast
<1>5. /\ worker'[x] = IF goesOn THEN Taking(Min(left), worker[x].initial) ELSE Free
      /\ starts => worker'[slot] = Taking(Min(todo), FALSE) /\ slot # x
      /\ \A y \in Slots : y # x /\ ~(starts /\ y = slot) => worker'[y] = worker[y]
  <2> HIDE DEF starts, goesOn, slot, left
  <2>1. worker'[x] = IF goesOn THEN Taking(Min(left), worker[x].initial) ELSE Free
    BY <1>1, <1>2
  <2>2. starts => worker'[slot] = Taking(Min(todo), FALSE) /\ slot # x
    BY <1>1, <1>4
  <2>3. ASSUME NEW y \in Slots, y # x, ~(starts /\ y = slot)
        PROVE  worker'[y] = worker[y]
    BY <1>1, <2>3
  <2>4. QED
    BY <2>1, <2>2, <2>3
<1>6. /\ todo # {} => Taking(Min(todo), FALSE) \in Workers
      /\ left # {} => Taking(Min(left), worker[x].initial) \in Workers
      /\ Free \in Workers
  <2>1. ASSUME NEW c \in Nat, NEW b \in BOOLEAN PROVE Taking(c, b) \in Workers
    BY DEF Taking, Workers, Attempts
  <2>2. Free \in Workers
    BY DEF Free, Workers
  <2> HIDE DEF left
  <2>3. QED
    BY <1>2, <1>3, <2>1, <2>2
<1>7. worker' \in [Slots -> Workers] /\ todo' \in SUBSET Nat
  <2>1. \A y \in Slots : worker'[y] \in Workers
    <3>1. goesOn => left # {}
      OBVIOUS
    <3>2. starts => todo # {}
      OBVIOUS
    <3> HIDE DEF starts, goesOn, slot, left
    <3>3. QED
      BY <1>2, <1>4, <1>5, <1>6, <3>1, <3>2
  <2>2. worker' = [y \in Slots |-> worker'[y]]
    <3> HIDE DEF starts, goesOn, slot, left
    <3>1. QED
      BY <1>1
  <2>3. todo' \in SUBSET Nat
    <3> HIDE DEF left, goesOn
    <3>1. QED
      BY <1>1, <1>3
  <2>4. QED
    BY <2>1, <2>2, <2>3
<1>8. \A y \in Slots : y \in Active' <=> worker'[y].at # "free"
  BY DEF Active
<1>9. /\ goesOn => /\ worker'[x].at = "put" /\ worker'[x].chunk = Min(left)
                   /\ worker'[x].initial = worker[x].initial /\ worker'[x].attempts = Attempts
      /\ ~goesOn => worker'[x].at = "free"
      /\ starts => /\ worker'[slot].at = "put" /\ worker'[slot].chunk = Min(todo)
                   /\ worker'[slot].attempts = Attempts
  <2>1. Free.at = "free"
    BY DEF Free
  <2> HIDE DEF starts, slot, goesOn, left
  <2>2. goesOn => worker'[x] = Taking(Min(left), worker[x].initial)
    BY <1>5
  <2>3. starts => worker'[slot] = Taking(Min(todo), FALSE)
    BY <1>5
  <2>4. ~goesOn => worker'[x] = Free
    BY <1>5
  <2>5. ASSUME goesOn
        PROVE  /\ worker'[x].at = "put" /\ worker'[x].chunk = Min(left)
               /\ worker'[x].initial = worker[x].initial /\ worker'[x].attempts = Attempts
    BY <2>2, <2>5 DEF Taking
  <2>6. ASSUME starts
        PROVE  /\ worker'[slot].at = "put" /\ worker'[slot].chunk = Min(todo)
               /\ worker'[slot].attempts = Attempts
    BY <2>3, <2>6 DEF Taking
  <2>7. QED
    BY <2>1, <2>4, <2>5, <2>6, Zenon
<1>10. \A y \in Active \ {x} : y \in Active' /\ worker'[y] = worker[y]
  <2> HIDE DEF starts, slot, goesOn, left
  <2>1. \A y \in Active \ {x} : y \in Slots /\ worker'[y] = worker[y]
    BY <1>4, <1>5, ActiveCounts
  <2>2. \A y \in Active : worker[y].at # "free"
    BY DEF Active
  <2>3. QED
    BY <1>8, <2>1, <2>2
<1>11. \A y \in Slots : y \in Active' <=> \/ y = x /\ goesOn
                                          \/ starts /\ y = slot
                                          \/ y \in Active /\ y # x
  <2> HIDE DEF starts, slot, goesOn, left
  <2>1. \A y \in Slots : y \in Active <=> worker[y].at # "free"
    BY DEF Active
  <2>2. ASSUME NEW y \in Slots
        PROVE  y \in Active' <=> \/ y = x /\ goesOn
                                 \/ starts /\ y = slot
                                 \/ y \in Active /\ y # x
    <3>1. CASE y = x
      BY <1>5, <1>8, <1>9, <3>1
    <3>2. CASE y # x /\ starts /\ y = slot
      BY <1>8, <1>9, <3>2
    <3>3. CASE y # x /\ ~(starts /\ y = slot)
      BY <1>5, <1>8, <2>1, <3>3
    <3>4. QED
      BY <3>1, <3>2, <3>3
  <2>3. QED
    BY <2>2
<1>12. \A y \in Active' :
         \/ y \in Active /\ y # x /\ worker'[y] = worker[y]
         \/ worker'[y].attempts = Attempts
            /\ (worker'[y].initial = worker[x].initial
                     \/ (~err /\ Cardinality(Active) < lim /\ todo # {}))
  <2>1. starts => ~err /\ Cardinality(Active) < lim /\ todo # {}
    OBVIOUS
  <2> HIDE DEF starts, slot, goesOn, left
  <2>2. ASSUME NEW y \in Active'
        PROVE  \/ y \in Active /\ y # x /\ worker'[y] = worker[y]
               \/ worker'[y].attempts = Attempts
                  /\ (worker'[y].initial = worker[x].initial
                     \/ (~err /\ Cardinality(Active) < lim /\ todo # {}))
    <3>1. y \in Slots
      BY ActiveCounts
    <3>2. CASE y = x /\ goesOn
      BY <1>9, <3>2
    <3>3. CASE starts /\ y = slot
      BY <1>9, <2>1, <3>3
    <3>4. CASE y \in Active /\ y # x
      BY <1>10, <3>4
    <3>5. QED
      BY <1>11, <2>2, <3>1, <3>2, <3>3, <3>4
  <2>3. QED
    BY <2>2
<1>13. todo \subseteq todo' \cup Held'
  <2>1. Held' = {worker'[y].chunk : y \in Active'}
    BY DEF Held
  <2>2. starts => Min(todo) \in Held'
    <3> HIDE DEF starts, slot, goesOn, left
    <3>1. starts => slot \in Active'
      BY <1>4, <1>11
    <3>2. QED
      BY <1>9, <2>1, <3>1
  <2>3. goesOn => Min(left) \in Held'
    <3> HIDE DEF starts, slot, goesOn, left
    <3>1. goesOn => x \in Active'
      BY <1>2, <1>11
    <3>2. QED
      BY <1>9, <2>1, <3>1
  <2>4. todo \subseteq left \cup Held'
    <3>1. CASE starts
      BY <2>2, <3>1
    <3>2. CASE ~starts
      BY <3>2
    <3>3. QED
      BY <3>1, <3>2
  <2> HIDE DEF left, goesOn
  <2>5. left \subseteq todo' \cup Held'
    BY <1>1, <2>3
  <2>6. QED
    BY <2>4, <2>5
<1>14. Cardinality(Active) >= lim \/ err => Active' \subseteq Active
  <2>1. Cardinality(Active) >= lim \/ err => ~starts
    BY ActiveCounts
  <2> HIDE DEF starts, slot, goesOn, left
  <2>2. QED
    BY <1>11, <2>1, ActiveCounts
<1>15. ASSUME ~err, todo' # {}, todo # {} => Cardinality(Active) + 1 >= lim
       PROVE  Cardinality(Active') >= lim
  <2>1. todo # {} /\ left # {} /\ Cardinality(Active) + 1 >= lim
    BY <1>1, <1>15
  <2>2. CASE starts
    <3>1. Cardinality(Active) + 1 <= lim
      BY <2>2, ActiveCounts
    <3>2. goesOn
      BY <1>15, <2>1, <2>2, <3>1
    <3> HIDE DEF starts, slot, goesOn, left
    <3>3. Active' = Active \cup {slot} /\ slot \notin Active
      BY <1>4, <1>11, <2>2, <3>2, ActiveCounts
    <3>4. Cardinality(Active') = Cardinality(Active) + 1
      BY <3>3, ActiveCounts, FS_AddElement
    <3>5. QED
      BY <2>1, <3>4
  <2>3. CASE ~starts
    <3>1. Cardinality(Active) >= lim
      BY <1>15, <2>1, <2>3, ActiveCounts
    <3>2. goesOn <=> Cardinality(Active) <= lim
      BY <1>15, <2>1, <2>3, ActiveCounts
    <3> HIDE DEF starts, slot, goesOn, left
    <3>3. CASE goesOn
      <4>1. Active' = Active
        BY <1>11, <2>3, <3>3, ActiveCounts
      <4>2. QED
        BY <3>1, <4>1
    <3>4. CASE ~goesOn
      <4>1. Active' = Active \ {x}
        BY <1>11, <2>3, <3>4, ActiveCounts
      <4>2. Cardinality(Active') = Cardinality(Active) - 1
        BY <4>1, ActiveCounts, FS_RemoveElement
      <4>3. QED
        BY <3>1, <3>2, <3>4, <4>2, ActiveCounts
    <3>5. QED
      BY <3>3, <3>4
  <2>4. QED
    BY <2>2, <2>3
<1>16. err => todo' = todo
  BY <1>1
<1>17. QED
  <2> HIDE DEF starts, slot, goesOn, left
  <2>1. QED
    BY <1>7, <1>10, <1>12, <1>13, <1>14, <1>15, <1>16

-----------------------------------------------------------------------------
(* The upload list in order                                                *)
Rank(S, c) == Cardinality({d \in S : d < c})

LEMMA RanksDiffer ==
  ASSUME NEW S \in SUBSET Nat, IsFiniteSet(S)
  PROVE  /\ \A c \in S : Rank(S, c) \in 0 .. Cardinality(S) - 1
         /\ \A c \in S, d \in S : Rank(S, c) = Rank(S, d) => c = d
<1> DEFINE B(c) == {d \in S : d < c}
<1>1. Cardinality(S) \in Nat
  BY FS_CardinalityType
<1>2. \A c \in S : IsFiniteSet(B(c)) /\ Cardinality(B(c)) \in Nat
  BY FS_Subset, FS_CardinalityType
<1>3. ASSUME NEW c \in S PROVE Cardinality(B(c)) < Cardinality(S)
  <2>1. B(c) \subseteq S /\ c \notin B(c)
    OBVIOUS
  <2>2. Cardinality(B(c)) <= Cardinality(S) /\ Cardinality(S) # Cardinality(B(c))
    BY <2>1, FS_Subset
  <2>3. QED
    BY <1>1, <1>2, <2>2
<1>4. ASSUME NEW c \in S, NEW d \in S, c < d PROVE Cardinality(B(c)) < Cardinality(B(d))
  <2>1. c \in Nat /\ d \in Nat /\ \A e \in S : e \in Nat
    OBVIOUS
  <2>2. B(c) \subseteq B(d) /\ c \in B(d) /\ c \notin B(c)
    <3>1. \A e \in S : e < c => e < d
      BY <1>4, <2>1
    <3>2. ~(c < c)
      BY <2>1
    <3>3. QED
      BY <1>4, <3>1, <3>2
  <2>3. Cardinality(B(c)) <= Cardinality(B(d)) /\ Cardinality(B(d)) # Cardinality(B(c))
    BY <1>2, <2>2, FS_Subset
  <2>4. QED
    BY <1>2, <2>3
<1> HIDE DEF B
<1>5. \A c \in S : Cardinality(B(c)) \in 0 .. Cardinality(S) - 1
  BY <1>1, <1>2, <1>3
<1>6. \A c \in S, d \in S : Cardinality(B(c)) = Cardinality(B(d)) => c = d
  <2>1. \A c \in S, d \in S : c # d => c < d \/ d < c
    OBVIOUS
  <2>2. QED
    BY <1>2, <1>4, <2>1
<1>7. QED
  BY <1>5, <1>6 DEF Rank, B

(* Nth counts the chunks from 1 on, and leaves none out.                   *)
LEMMA NthCounts ==
  ASSUME NEW S \in SUBSET Nat, IsFiniteSet(S)
  PROVE  /\ \A k \in 1 .. Cardinality(S) : Nth(S, k) \in S
         /\ \A c \in S : \E k \in 1 .. Cardinality(S) : Nth(S, k) = c
<1>1. Cardinality(S) \in Nat
  BY FS_CardinalityType
<1> DEFINE R == 0 .. Cardinality(S) - 1
           f == [c \in S |-> Rank(S, c)]
<1>2. f \in Injection(S, R)
  BY RanksDiffer DEF Injection, IsInjective
<1>3. IsFiniteSet(R) /\ Cardinality(R) = Cardinality(S)
  <2>1. 0 \in Int /\ Cardinality(S) - 1 \in Int
    BY <1>1
  <2>2. IsFiniteSet(R) /\ Cardinality(R) = IF 0 > Cardinality(S) - 1 THEN 0 ELSE Cardinality(S) - 1 - 0 + 1
    BY <2>1, FS_Interval
  <2>3. QED
    BY <1>1, <2>2
<1>4. f \in Surjection(S, R)
  <2> HIDE DEF f, R
  <2>1. QED
    BY <1>2, <1>3, FS_Injection
<1>5. \A r \in R : \E c \in S : Rank(S, c) = r
  BY <1>4 DEF Surjection
<1>6. ASSUME NEW k \in 1 .. Cardinality(S), NEW c \in S, Rank(S, c) = k - 1
      PROVE  Nth(S, k) = c
  <2>1. \A d \in S : Rank(S, d) = k - 1 => d = c
    BY <1>6, RanksDiffer
  <2>2. Nth(S, k) = CHOOSE d \in S : Rank(S, d) = k - 1
    BY DEF Nth, Rank
  <2>3. QED
    BY <1>6, <2>1, <2>2
<1>7. ASSUME NEW k \in 1 .. Cardinality(S) PROVE Nth(S, k) \in S
  <2>1. k - 1 \in R
    BY <1>1
  <2>2. PICK c \in S : Rank(S, c) = k - 1
    BY <1>5, <2>1
  <2>3. QED
    BY <1>6, <2>2
<1>8. ASSUME NEW c \in S PROVE \E k \in 1 .. Cardinality(S) : Nth(S, k) = c
  <2>1. Rank(S, c) \in R
    BY RanksDiffer
  <2>2. Rank(S, c) + 1 \in 1 .. Cardinality(S) /\ Rank(S, c) = (Rank(S, c) + 1) - 1
    BY <1>1, <2>1
  <2>3. QED
    BY <1>6, <2>2
<1>9. QED
  BY <1>7, <1>8

(* The initial workers take the first chunks; the others wait.             *)
LEMMA BeginDoes ==
  ASSUME TypeOK, NEW n \in Nat, NEW missing \in SUBSET Nat, IsFiniteSet(missing),
         Begin(n, missing)
  PROVE  LET list == Remaining(n, missing)
         IN  /\ phase' = (IF list = {} THEN "committing" ELSE "uploading")
             /\ push' = [id |-> n, content |-> push.content]
             /\ PoolTyped' /\ limit' = Concurrency /\ error' = FALSE
             /\ list \subseteq todo' \cup Held'
             /\ \A x \in Active' : worker'[x].initial /\ worker'[x].attempts = Attempts
             /\ list = {} => Active' = {}
             /\ todo' # {} => Cardinality(Active') >= Concurrency
<1> DEFINE list == Remaining(n, missing)
           m == Cardinality(list)
           first == Min({Concurrency, m})
<1>1. list \in SUBSET Nat /\ IsFiniteSet(list)
  BY FS_Subset DEF Remaining
<1>2. m \in Nat /\ (list = {} <=> m = 0)
  BY <1>1, FS_CardinalityType, FS_EmptySet
<1>3. /\ phase' = (IF list = {} THEN "committing" ELSE "uploading")
      /\ push' = [push EXCEPT !.id = n]
      /\ worker' = [x \in Slots |-> IF x <= first THEN Taking(Nth(list, x), TRUE) ELSE Free]
      /\ todo' = {c \in list : \A x \in 1 .. first : c # Nth(list, x)}
      /\ limit' = Concurrency /\ streak' = 0 /\ error' = FALSE
  BY DEF Begin
<1>4. push' = [id |-> n, content |-> push.content]
  BY <1>3 DEF TypeOK, Pushes
<1>5. /\ \A k \in 1 .. m : Nth(list, k) \in list
      /\ \A c \in list : \E k \in 1 .. m : Nth(list, k) = c
  BY <1>1, NthCounts
<1> HIDE DEF list
<1> HIDE DEF m
<1>6. first = (IF Concurrency <= m THEN Concurrency ELSE m)
  BY <1>2, SizesAssumption, OfTwo
<1> HIDE DEF first
<1>7. /\ first \in Nat /\ first <= m /\ first <= Concurrency
      /\ \A x \in 1 .. first : x \in Slots /\ x \in 1 .. m
  BY <1>2, <1>6, SizesAssumption DEF Slots
<1>8. \A x \in Slots : x <= first => x \in 1 .. first
  BY <1>7 DEF Slots
<1>9. \A x \in 1 .. first : worker'[x] = Taking(Nth(list, x), TRUE)
  <2>1. ASSUME NEW x \in 1 .. first PROVE worker'[x] = Taking(Nth(list, x), TRUE)
    <3>1. x \in Slots /\ x <= first
      BY <1>7
    <3>2. QED
      BY <1>3, <3>1
  <2>2. QED
    BY <2>1
<1>10. \A x \in Slots : x \in Active' => x \in 1 .. first
  <2>1. \A x \in Slots : ~(x <= first) => worker'[x] = Free
    BY <1>3
  <2>2. QED
    BY <1>8, <2>1 DEF Active, Free
<1>11. \A x \in 1 .. first : /\ x \in Active' /\ worker'[x].initial /\ worker'[x].attempts = Attempts
                             /\ worker'[x].chunk = Nth(list, x)
  <2>1. ASSUME NEW x \in 1 .. first
        PROVE  /\ worker'[x].at = "put" /\ worker'[x].initial /\ worker'[x].attempts = Attempts
               /\ worker'[x].chunk = Nth(list, x)
    <3>1. worker'[x] = Taking(Nth(list, x), TRUE)
      BY <1>9
    <3>2. QED
      BY <3>1 DEF Taking
  <2>2. \A x \in Slots : worker'[x].at = "put" => x \in Active'
    BY DEF Active
  <2>3. QED
    BY <1>7, <2>1, <2>2
<1>12. Active' = 1 .. first
  BY <1>10, <1>11, ActiveCounts
<1>13. PoolTyped'
  <2>1. \A x \in Slots : (IF x <= first THEN Taking(Nth(list, x), TRUE) ELSE Free) \in Workers
    <3>1. ASSUME NEW c \in Nat PROVE Taking(c, TRUE) \in Workers
      BY DEF Taking, Workers, Attempts
    <3>2. Free \in Workers
      BY DEF Free, Workers
    <3>3. QED
      BY <1>1, <1>5, <1>7, <1>8, <3>1, <3>2
  <2>2. worker' \in [Slots -> Workers]
    BY <1>3, <2>1
  <2>3. todo' \in SUBSET Nat /\ limit' \in 1 .. Concurrency
    BY <1>1, <1>3, SizesAssumption
  <2>4. QED
    BY <1>3, <2>2, <2>3 DEF PoolTyped
<1>14. list \subseteq todo' \cup Held'
  <2>1. Held' = {worker'[y].chunk : y \in Active'}
    BY DEF Held
  <2>2. \A x \in 1 .. first : Nth(list, x) \in Held'
    BY <1>11, <2>1
  <2>3. QED
    BY <1>3, <2>2
<1>15. list = {} => Active' = {}
  BY <1>2, <1>7, <1>12
<1>16. todo' # {} => Cardinality(Active') >= Concurrency
  <2>1. first = m => todo' = {}
    BY <1>3, <1>5
  <2>2. first # m => first = Concurrency /\ Active' = Slots
    BY <1>6, <1>12 DEF Slots
  <2>3. Cardinality(Slots) = Concurrency
    <3>1. 1 \in Int /\ Concurrency \in Int
      BY SizesAssumption
    <3>2. Cardinality(Slots) = IF 1 > Concurrency THEN 0 ELSE Concurrency - 1 + 1
      BY <3>1, FS_Interval DEF Slots
    <3>3. QED
      BY <3>2, SizesAssumption
  <2>4. QED
    BY <2>1, <2>2, <2>3, SizesAssumption
<1>17. QED
  BY <1>3, <1>4, <1>11, <1>12, <1>13, <1>14, <1>15, <1>16 DEF list

-----------------------------------------------------------------------------
(* What the steps of a worker have in common                               *)

(* Its chunk is behind it; without an error and slow-downs, it is stored.  *)
Through(x) ==
  \E lim \in 1 .. Concurrency, err \in BOOLEAN :
    /\ AfterChunk(x, lim, err) /\ limit' = lim /\ error' = err
    /\ limit <= lim /\ lim <= limit + 1 /\ (error => err)
    /\ slowDowns' = slowDowns
    /\ ~err /\ slowDowns = 0 => worker[x].chunk \in stored'

(* It keeps its chunk; without slow-downs it has attempts left.            *)
Retries(x) ==
  /\ Active' = Active /\ todo' = todo /\ error' = error
  /\ worker' \in [Slots -> Workers]
  /\ \A y \in Slots : /\ worker'[y].chunk = worker[y].chunk
                      /\ worker'[y].initial = worker[y].initial
                      /\ y # x => worker'[y] = worker[y]
  /\ limit' \in 1 .. Concurrency /\ limit' <= limit
  /\ slowDowns' = 0 => limit' = limit /\ worker'[x].attempts > 0

LEMMA WorkerStepDoes ==
  ASSUME TypeOK, SteadyInv, Journaled, NEW x \in Slots, WorkerStep(x)
  PROVE  /\ UNCHANGED Outside /\ x \in Active
         /\ streak' \in Nat /\ slowDowns' \in Nat /\ errors' \in Nat
         /\ slowDowns' = 0 => slowDowns = 0
         /\ stored \subseteq stored' /\ stored' \in SUBSET Nat
         /\ journal' \in SUBSET (Nat \X Nat) /\ Journaled'
         /\ Through(x) \/ Retries(x)
<1>1. /\ worker \in [Slots -> Workers] /\ worker[x] \in Workers /\ worker[x].chunk \in Nat
      /\ worker[x].attempts \in Int /\ limit \in 1 .. Concurrency /\ limit \in Nat
      /\ streak \in Nat /\ slowDowns \in Nat /\ errors \in Nat /\ error \in BOOLEAN
      /\ stored \in SUBSET Nat /\ journal \in SUBSET (Nat \X Nat) /\ push.id \in Nat
      /\ Concurrency \in Nat /\ Concurrency >= 1
  BY SizesAssumption DEF TypeOK, PoolTyped, Workers, Pushes
<1>2. slowDowns = 0 /\ x \in Active => worker[x].attempts > 0
  BY DEF SteadyInv
<1>3. ASSUME NEW at \in {"put", "delay"}, NEW n \in Int, x \in Active,
             worker' = [worker EXCEPT ![x] = [@ EXCEPT !.at = at, !.attempts = n]]
      PROVE  /\ Active' = Active /\ worker' \in [Slots -> Workers] /\ worker'[x].attempts = n
             /\ \A y \in Slots : /\ worker'[y].chunk = worker[y].chunk
                                 /\ worker'[y].initial = worker[y].initial
                                 /\ y # x => worker'[y] = worker[y]
  <2> DEFINE r == [worker[x] EXCEPT !.at = at, !.attempts = n]
  <2>1. r \in Workers /\ r.chunk = worker[x].chunk /\ r.initial = worker[x].initial
        /\ r.attempts = n /\ r.at = at
    BY <1>1 DEF Workers
  <2>2. worker' = [worker EXCEPT ![x] = r]
    BY <1>3
  <2> HIDE DEF r
  <2>3. worker' \in [Slots -> Workers] /\ worker'[x] = r /\ \A y \in Slots : y # x => worker'[y] = worker[y]
    BY <1>1, <2>1, <2>2
  <2>4. worker[x].at # "free"
    BY <1>3 DEF Active
  <2>5. \A y \in Slots : worker'[y].at # "free" <=> worker[y].at # "free"
    BY <2>1, <2>3, <2>4
  <2>6. QED
    BY <2>1, <2>3, <2>5 DEF Active
<1>4. worker[x].at = "put" \/ worker[x].at = "delay" => x \in Active
  BY DEF Active
<1>5. ASSUME NEW fast \in BOOLEAN, PutOk(x, fast)
      PROVE  /\ UNCHANGED Outside /\ x \in Active
             /\ streak' \in Nat /\ slowDowns' \in Nat /\ errors' \in Nat
             /\ slowDowns' = slowDowns
             /\ stored \subseteq stored' /\ stored' \in SUBSET Nat
             /\ journal' \in SUBSET (Nat \X Nat) /\ Journaled' /\ Through(x)
  <2> DEFINE raises == fast /\ streak + 1 >= RaiseAfter
             lim == IF raises THEN Min({Concurrency, limit + 1}) ELSE limit
  <2>1. /\ UNCHANGED Outside /\ worker[x].at = "put" /\ UNCHANGED <<error, slowDowns, errors>>
        /\ stored' = stored \cup {worker[x].chunk}
        /\ journal' = journal \cup {<<push.id, worker[x].chunk>>}
        /\ limit' = lim /\ AfterChunk(x, lim, error)
        /\ streak' = 0 \/ streak' = streak + 1
    BY <1>5 DEF PutOk, Recorded
  <2>2. lim \in 1 .. Concurrency /\ limit <= lim /\ lim <= limit + 1
    <3>1. Min({Concurrency, limit + 1}) = IF Concurrency <= limit + 1 THEN Concurrency ELSE limit + 1
      BY <1>1, OfTwo
    <3>2. QED
      BY <1>1, <3>1
  <2> HIDE DEF lim
  <2>3. Through(x)
    BY <1>1, <2>1, <2>2 DEF Through
  <2>4. journal' \in SUBSET (Nat \X Nat) /\ stored' \in SUBSET Nat /\ stored \subseteq stored'
    <3>1. <<push.id, worker[x].chunk>> \in Nat \X Nat
      BY <1>1
    <3>2. QED
      BY <1>1, <2>1, <3>1
  <2>5. Journaled'
    BY <2>1 DEF Journaled
  <2>6. streak' \in Nat /\ slowDowns' \in Nat /\ errors' \in Nat
    BY <1>1, <2>1
  <2>7. QED
    BY <1>4, <2>1, <2>3, <2>4, <2>5, <2>6
<1>6. CASE SlowDown(x)
  <2> DEFINE n == IF worker[x].attempts > 1 THEN worker[x].attempts - 1 ELSE worker[x].attempts - 2
  <2>1. /\ UNCHANGED Outside /\ worker[x].at = "put" /\ UNCHANGED <<todo, error, journal, stored, errors>>
        /\ limit' = Max({1, limit - 1}) /\ streak' = 0 /\ slowDowns' = slowDowns + 1
    BY <1>6 DEF SlowDown
  <2>2. worker' = [worker EXCEPT ![x] = [@ EXCEPT !.at = "delay", !.attempts = n]]
    BY <1>1, <1>6 DEF SlowDown
  <2>3. n \in Int
    BY <1>1
  <2>4. limit' \in 1 .. Concurrency /\ limit' <= limit
    <3>1. Max({1, limit - 1}) = IF 1 >= limit - 1 THEN 1 ELSE limit - 1
      <4>1. 1 \in Int /\ limit - 1 \in Int
        BY <1>1
      <4>2. QED
        BY <4>1, OfTwo
    <3>2. QED
      BY <1>1, <2>1, <3>1
  <2> HIDE DEF n
  <2>5. Retries(x)
    <3>1. /\ Active' = Active /\ worker' \in [Slots -> Workers]
          /\ \A y \in Slots : /\ worker'[y].chunk = worker[y].chunk
                              /\ worker'[y].initial = worker[y].initial
                              /\ y # x => worker'[y] = worker[y]
      BY <1>3, <1>4, <2>1, <2>2, <2>3
    <3>2. slowDowns' # 0
      BY <1>1, <2>1
    <3>3. QED
      BY <2>1, <2>4, <3>1, <3>2 DEF Retries
  <2>6. QED
    BY <1>1, <1>4, <2>1, <2>5 DEF Journaled
<1>7. ASSUME NEW arrived \in BOOLEAN, PutError(x, arrived)
      PROVE  /\ UNCHANGED Outside /\ x \in Active
             /\ streak' \in Nat /\ slowDowns' \in Nat /\ errors' \in Nat
             /\ slowDowns' = slowDowns
             /\ stored \subseteq stored' /\ stored' \in SUBSET Nat
             /\ journal' \in SUBSET (Nat \X Nat) /\ Journaled' /\ (Through(x) \/ Retries(x))
  <2>1. /\ UNCHANGED Outside /\ worker[x].at = "put" /\ UNCHANGED <<limit, streak, journal, slowDowns>>
        /\ stored' = stored \/ stored' = stored \cup {worker[x].chunk}
        /\ errors' = errors + 1
    BY <1>7 DEF PutError
  <2>2. /\ journal' \in SUBSET (Nat \X Nat) /\ stored' \in SUBSET Nat /\ stored \subseteq stored'
        /\ streak' \in Nat /\ slowDowns' \in Nat /\ errors' \in Nat /\ x \in Active
    <3>1. x \in Active
      BY <1>4, <2>1
    <3>2. streak' \in Nat /\ slowDowns' \in Nat /\ errors' \in Nat /\ journal' \in SUBSET (Nat \X Nat)
      BY <1>1, <2>1
    <3>3. stored' \in SUBSET Nat /\ stored \subseteq stored'
      BY <1>1, <2>1
    <3>4. QED
      BY <3>1, <3>2, <3>3
  <2>3. Journaled'
    BY <2>1 DEF Journaled
  <2>4. CASE worker[x].attempts = 1
    <3>1. AfterChunk(x, limit, TRUE) /\ error' = TRUE
      BY <1>7, <2>4 DEF PutError
    <3>2. limit <= limit /\ limit <= limit + 1 /\ TRUE \in BOOLEAN
      BY <1>1
    <3>3. Through(x)
      BY <1>1, <2>1, <3>1, <3>2 DEF Through
    <3>4. QED
      BY <2>1, <2>2, <2>3, <3>3
  <2>5. CASE worker[x].attempts # 1
    <3> DEFINE n == worker[x].attempts - 1
    <3>1. worker' = [worker EXCEPT ![x] = [@ EXCEPT !.at = "delay", !.attempts = n]] /\ todo' = todo
      BY <1>1, <1>7, <2>5 DEF PutError
    <3>2. n \in Int /\ (slowDowns = 0 => n > 0)
      BY <1>1, <1>2, <1>4, <2>1, <2>5
    <3>3. error' = error
      BY <1>1, <1>7, <2>5 DEF PutError
    <3> HIDE DEF n
    <3>4. /\ Active' = Active /\ worker' \in [Slots -> Workers] /\ worker'[x].attempts = n
          /\ \A y \in Slots : /\ worker'[y].chunk = worker[y].chunk
                              /\ worker'[y].initial = worker[y].initial
                              /\ y # x => worker'[y] = worker[y]
      BY <1>3, <1>4, <2>1, <3>1, <3>2
    <3>5. limit' = limit /\ limit' \in 1 .. Concurrency /\ limit' <= limit /\ slowDowns' = slowDowns
      BY <1>1, <2>1
    <3>6. Retries(x)
      BY <3>1, <3>2, <3>3, <3>4, <3>5 DEF Retries
    <3>7. QED
      BY <2>1, <2>2, <2>3, <3>6
  <2>6. QED
    BY <2>4, <2>5
<1>8. CASE DelayOver(x)
  <2>1. /\ UNCHANGED Outside /\ worker[x].at = "delay"
        /\ UNCHANGED <<limit, streak, error, journal, stored, slowDowns, errors>>
    BY <1>8 DEF DelayOver
  <2>2. CASE worker[x].attempts > 0 /\ ~error
    <3> DEFINE n == worker[x].attempts
    <3>1. worker' = [worker EXCEPT ![x] = [@ EXCEPT !.at = "put", !.attempts = n]] /\ todo' = todo
      <4>1. worker' = [worker EXCEPT ![x].at = "put"] /\ todo' = todo
        BY <1>8, <2>2 DEF DelayOver
      <4>2. [worker[x] EXCEPT !.at = "put"] = [worker[x] EXCEPT !.at = "put", !.attempts = worker[x].attempts]
        BY <1>1 DEF Workers
      <4>3. QED
        BY <4>1, <4>2
    <3>2. n \in Int /\ n > 0
      BY <1>1, <2>2
    <3> HIDE DEF n
    <3>3. /\ Active' = Active /\ worker' \in [Slots -> Workers] /\ worker'[x].attempts = n
          /\ \A y \in Slots : /\ worker'[y].chunk = worker[y].chunk
                              /\ worker'[y].initial = worker[y].initial
                              /\ y # x => worker'[y] = worker[y]
      BY <1>3, <1>4, <2>1, <3>1, <3>2
    <3>4. limit' = limit /\ limit' \in 1 .. Concurrency /\ limit' <= limit /\ error' = error
      BY <1>1, <2>1
    <3>5. Retries(x)
      BY <3>1, <3>2, <3>3, <3>4 DEF Retries
    <3>6. QED
      BY <1>1, <1>4, <2>1, <3>5 DEF Journaled
  <2>3. CASE ~(worker[x].attempts > 0 /\ ~error)
    <3>1. AfterChunk(x, limit, error)
      BY <1>8, <2>3 DEF DelayOver
    <3>2. ~error => slowDowns # 0
      BY <1>2, <1>4, <2>1, <2>3
    <3>3. Through(x)
      BY <1>1, <2>1, <3>1, <3>2 DEF Through
    <3>4. QED
      BY <1>1, <1>4, <2>1, <3>3 DEF Journaled
  <2>4. QED
    BY <2>2, <2>3
<1>9. QED
  BY <1>5, <1>6, <1>7, <1>8 DEF WorkerStep

LEMMA ThroughKeeps ==
  ASSUME IInv, NEW x \in Active, Through(x), UNCHANGED Outside, stored \subseteq stored',
         streak' \in Nat
  PROVE  PoolTyped' /\ LimitIsUsed' /\ SteadyInv'
<1>1. PICK lim \in 1 .. Concurrency, err \in BOOLEAN :
        /\ AfterChunk(x, lim, err) /\ limit' = lim /\ error' = err
        /\ limit <= lim /\ lim <= limit + 1 /\ (error => err)
        /\ slowDowns' = slowDowns
        /\ ~err /\ slowDowns = 0 => worker[x].chunk \in stored'
  BY DEF Through
<1>2. PoolTyped /\ TypeOK /\ SessionInv /\ SteadyInv /\ LimitIsUsed
  BY DEF IInv, TypeOK
<1>3. /\ worker' \in [Slots -> Workers] /\ todo' \in SUBSET Nat
      /\ todo \subseteq todo' \cup Held'
      /\ \A y \in Active \ {x} : y \in Active' /\ worker'[y] = worker[y]
      /\ Cardinality(Active) >= lim \/ err => Active' \subseteq Active
      /\ ~err /\ todo' # {} /\ (todo # {} => Cardinality(Active) + 1 >= lim)
           => Cardinality(Active') >= lim
      /\ err => todo' = todo
  BY <1>1, <1>2, AfterChunkDoes
<1>4. \A y \in Active' :
        \/ y \in Active /\ y # x /\ worker'[y] = worker[y]
        \/ worker'[y].attempts = Attempts
           /\ (worker'[y].initial = worker[x].initial
               \/ (~err /\ Cardinality(Active) < lim /\ todo # {}))
  BY <1>1, <1>2, AfterChunkDoes
<1>5. /\ phase' = phase /\ push' = push /\ published' = published /\ current' = current
      /\ Concurrency \in Nat /\ limit \in 1 .. Concurrency /\ lim \in Nat
  BY <1>2, SizesAssumption DEF Outside, versions, PoolTyped
<1>6. phase \in Running /\ todo # {} /\ ~error => Cardinality(Active) >= limit
  BY <1>2 DEF LimitIsUsed, Running
<1>7. LimitIsUsed'
  <2> SUFFICES ASSUME phase \in Running, todo' # {}, ~err
               PROVE  Cardinality(Active') >= lim
    BY <1>1, <1>5 DEF LimitIsUsed, Running
  <2>1. todo # {} => Cardinality(Active) + 1 >= lim
    BY <1>1, <1>5, <1>6, ActiveCounts
  <2>2. QED
    BY <1>3, <2>1
<1>8. SteadyInv'
  <2> SUFFICES ASSUME slowDowns = 0 PROVE SteadyInv'
    BY <1>1 DEF SteadyInv
  <2>1. /\ limit = Concurrency /\ phase = "uploading"
        /\ \A y \in Active : worker[y].initial /\ worker[y].attempts > 0
        /\ ~error => push.content \subseteq stored \cup todo \cup Held
        /\ current \subseteq stored
        /\ \A d \in published : d \subseteq stored
    BY <1>2 DEF SteadyInv
  <2>2. lim = Concurrency
    BY <1>1, <1>5, <2>1
  <2>3. ~(~err /\ Cardinality(Active) < lim /\ todo # {})
    <3>1. ~err /\ todo # {} => Cardinality(Active) >= lim
      BY <1>1, <1>6, <2>1, <2>2 DEF Running
    <3>2. QED
      BY <1>5, <3>1, ActiveCounts
  <2>4. \A y \in Active' : worker'[y].initial /\ worker'[y].attempts > 0
    BY <1>4, <2>1, <2>3 DEF Attempts
  <2>5. ~err => push.content \subseteq stored' \cup todo' \cup Held'
    <3> SUFFICES ASSUME ~err, NEW c \in push.content PROVE c \in stored' \cup todo' \cup Held'
      OBVIOUS
    <3>1. worker[x].chunk \in stored'
      BY <1>1
    <3>2. c \in stored \/ c \in todo \/ c \in Held
      BY <1>1, <2>1
    <3>3. CASE c \in Held
      <4>1. PICK y \in Active : c = worker[y].chunk
        BY <3>3 DEF Held
      <4>2. y # x => y \in Active' /\ c = worker'[y].chunk
        BY <1>3, <4>1
      <4>3. Held' = {worker'[z].chunk : z \in Active'}
        BY DEF Held
      <4>4. QED
        BY <3>1, <4>1, <4>2, <4>3
    <3>4. QED
      BY <1>3, <3>2, <3>3
  <2>6. QED
    BY <1>1, <1>5, <2>1, <2>2, <2>4, <2>5 DEF SteadyInv
<1>9. QED
  BY <1>1, <1>3, <1>7, <1>8 DEF PoolTyped

LEMMA RetriesKeeps ==
  ASSUME IInv, NEW x \in Active, Retries(x), UNCHANGED Outside, stored \subseteq stored',
         streak' \in Nat, slowDowns' = 0 => slowDowns = 0
  PROVE  PoolTyped' /\ LimitIsUsed' /\ SteadyInv'
<1>1. /\ Active' = Active /\ todo' = todo /\ error' = error
      /\ worker' \in [Slots -> Workers]
      /\ \A y \in Active : /\ worker'[y].chunk = worker[y].chunk
                           /\ worker'[y].initial = worker[y].initial
                           /\ y # x => worker'[y] = worker[y]
      /\ limit' \in 1 .. Concurrency /\ limit' <= limit
      /\ slowDowns' = 0 => limit' = limit /\ worker'[x].attempts > 0
  BY ActiveCounts DEF Retries
<1>2. PoolTyped /\ TypeOK /\ SessionInv /\ SteadyInv /\ LimitIsUsed
  BY DEF IInv, TypeOK
<1>3. /\ phase' = phase /\ push' = push /\ published' = published /\ current' = current
      /\ Concurrency \in Nat /\ limit \in 1 .. Concurrency
  BY <1>2, SizesAssumption DEF Outside, versions, PoolTyped
<1>4. PoolTyped'
  BY <1>1, <1>2 DEF PoolTyped
<1>5. LimitIsUsed'
  <2>1. Cardinality(Active) >= limit => Cardinality(Active) >= limit'
    BY <1>1, <1>3, ActiveCounts
  <2>2. QED
    BY <1>1, <1>2, <1>3, <2>1 DEF LimitIsUsed
<1>6. SteadyInv'
  <2> SUFFICES ASSUME slowDowns' = 0 PROVE SteadyInv'
    BY DEF SteadyInv
  <2>1. /\ limit = Concurrency /\ phase = "uploading"
        /\ \A y \in Active : worker[y].initial /\ worker[y].attempts > 0
        /\ ~error => push.content \subseteq stored \cup todo \cup Held
        /\ current \subseteq stored
        /\ \A d \in published : d \subseteq stored
    BY <1>2 DEF SteadyInv
  <2>2. \A y \in Active' : worker'[y].initial /\ worker'[y].attempts > 0
    BY <1>1, <2>1
  <2>3. Held' = Held
    BY <1>1 DEF Held
  <2>4. QED
    BY <1>1, <1>3, <2>1, <2>2, <2>3 DEF SteadyInv
<1>7. QED
  BY <1>4, <1>5, <1>6

LEMMA WorkerKeeps ==
  ASSUME IInv, NEW x \in Slots, WorkerStep(x)
  PROVE  IInv'
<1>1. /\ UNCHANGED Outside /\ x \in Active
      /\ streak' \in Nat /\ slowDowns' \in Nat /\ errors' \in Nat
      /\ slowDowns' = 0 => slowDowns = 0
      /\ stored \subseteq stored' /\ stored' \in SUBSET Nat
      /\ journal' \in SUBSET (Nat \X Nat) /\ Journaled'
      /\ Through(x) \/ Retries(x)
  BY WorkerStepDoes DEF IInv
<1>2. PoolTyped' /\ LimitIsUsed' /\ SteadyInv'
  BY <1>1, ThroughKeeps, RetriesKeeps
<1>3. /\ phase' = phase /\ push' = push /\ file' = file /\ cached' = cached
      /\ session' = session /\ live' = live /\ negotiated' = negotiated
      /\ published' = published /\ current' = current /\ faults' = faults /\ edits' = edits
  BY <1>1 DEF Outside, tokens, versions
<1>4. TypeOK'
  BY <1>1, <1>2, <1>3 DEF IInv, TypeOK
<1>5. SessionInv'
  BY <1>1, <1>3 DEF IInv, SessionInv, Running
<1>6. TokensSuffice' /\ CachedIsPublished'
  BY <1>3 DEF IInv, TokensSuffice, CachedIsPublished, Owed, Dead
<1>7. QED
  BY <1>1, <1>2, <1>4, <1>5, <1>6 DEF IInv

-----------------------------------------------------------------------------
(* What the steps of performPush have in common                            *)
Bit(b) == IF b THEN 1 ELSE 0
Owes ==
  /\ phase = "idle" => Owed = Bit(file # cached /\ (session.content # file \/ Dead))
  /\ phase = "resume" => Owed = Bit(Dead) + Bit(file # push.content)
  /\ phase = "negotiate" => Owed = 1 + Bit(file # push.content)
  /\ phase \in Running => Owed = Bit(file # push.content \/ Dead)

LEMMA OwedTable ==
  /\ Owes /\ Owes'
  /\ \A b : Bit(b) \in 0 .. 1
  /\ phase \in Phases => Owed \in 0 .. 2
<1>1. Owes /\ Owes'
  <2>1. Owes
    BY DEF Owes, Owed, Bit, Running
  <2>2. Owes'
    BY DEF Owes, Owed, Bit, Running
  <2>3. QED
    BY <2>1, <2>2
<1>2. \A b : Bit(b) \in 0 .. 1
  BY DEF Bit
<1>3. phase \in Phases => Owed \in 0 .. 2
  BY <1>1, <1>2 DEF Owes, Phases, Running
<1>4. QED
  BY <1>1, <1>2, <1>3

(* The parts of the invariant that are not about sessions, when no pool    *)
(* runs afterwards.                                                        *)
LEMMA PoolRests ==
  ASSUME IInv, phase' \notin Running, limit' = limit, slowDowns' = slowDowns,
         worker' = worker \/ worker' = NoWorkers, stored \subseteq stored',
         slowDowns = 0 /\ phase = "uploading" => Active' = {},
         current' \subseteq stored' \/ current' = current,
         published' = published \/ (published' = published \cup {current'} /\ current' \subseteq stored')
           \/ slowDowns # 0
  PROVE  LimitIsUsed' /\ SteadyInv'
<1>1. LimitIsUsed'
  BY DEF LimitIsUsed, Running
<1>2. SteadyInv'
  <2> SUFFICES ASSUME slowDowns = 0 PROVE SteadyInv'
    BY DEF SteadyInv
  <2>1. /\ limit = Concurrency
        /\ phase # "uploading" => Active = {}
        /\ current \subseteq stored /\ \A d \in published : d \subseteq stored
    BY DEF IInv, SteadyInv
  <2>2. worker' = worker => Active' = Active
    BY DEF Active
  <2>3. worker' = NoWorkers => Active' = {}
    BY DEF Active, NoWorkers, Free
  <2>4. Active' = {}
    BY <2>1, <2>2, <2>3
  <2>5. current' \subseteq stored' /\ \A d \in published' : d \subseteq stored'
    BY <2>1
  <2>6. QED
    BY <2>1, <2>4, <2>5 DEF SteadyInv, Running
<1>3. QED
  BY <1>1, <1>2

(* A pool starts: what is not waiting or taken is stored.                  *)
LEMMA BeginKeeps ==
  ASSUME IInv, NEW n \in Nat, NEW missing \in SUBSET Nat, IsFiniteSet(missing),
         Begin(n, missing), UNCHANGED <<stored, versions, journal, slowDowns>>,
         slowDowns = 0 => push.content \subseteq stored \cup missing
  PROVE  /\ PoolTyped' /\ LimitIsUsed' /\ SteadyInv' /\ phase' \in Running
         /\ push' = [id |-> n, content |-> push.content]
<1> DEFINE list == Remaining(n, missing)
<1>1. /\ phase' = (IF list = {} THEN "committing" ELSE "uploading")
      /\ push' = [id |-> n, content |-> push.content]
      /\ PoolTyped' /\ limit' = Concurrency /\ error' = FALSE
      /\ list \subseteq todo' \cup Held'
      /\ \A x \in Active' : worker'[x].initial /\ worker'[x].attempts = Attempts
      /\ list = {} => Active' = {}
      /\ todo' # {} => Cardinality(Active') >= Concurrency
  BY BeginDoes DEF IInv
<1>2. missing \subseteq list \cup stored
  <2>1. Completed(n) \subseteq stored
    BY DEF IInv, Journaled, Completed
  <2>2. QED
    BY <2>1 DEF Remaining
<1> HIDE DEF list
<1>3. LimitIsUsed'
  BY <1>1 DEF LimitIsUsed
<1>4. SteadyInv'
  <2> SUFFICES ASSUME slowDowns = 0 PROVE SteadyInv'
    BY DEF SteadyInv
  <2>1. current' \subseteq stored' /\ \A d \in published' : d \subseteq stored'
    BY DEF IInv, SteadyInv, versions
  <2>2. push.content \subseteq stored \cup list
    BY <1>2
  <2>3. CASE list = {}
    BY <1>1, <2>1, <2>2, <2>3 DEF SteadyInv
  <2>4. CASE list # {}
    <3>1. push'.content \subseteq stored' \cup todo' \cup Held'
      BY <1>1, <2>2
    <3>2. \A x \in Active' : worker'[x].initial /\ worker'[x].attempts > 0
      BY <1>1 DEF Attempts
    <3>3. QED
      BY <1>1, <2>1, <2>4, <3>1, <3>2 DEF SteadyInv
  <2>5. QED
    BY <2>3, <2>4
<1>5. QED
  BY <1>1, <1>3, <1>4 DEF Running

LEMMA StartKeeps == ASSUME IInv, Start PROVE IInv'
<1>1. /\ phase = "idle" /\ Active = {} /\ file # cached
      /\ phase' = IF Resumable THEN "resume" ELSE "negotiate"
      /\ push' = [id |-> 0, content |-> file]
      /\ UNCHANGED <<pool, disk, tokens, stored, versions, bounds>>
  BY DEF Start
<1>2. TypeOK'
  BY <1>1 DEF IInv, TypeOK, PoolTyped, Phases, Pushes, pool, disk, tokens, versions, bounds
<1>3. LimitIsUsed' /\ SteadyInv'
  BY <1>1, PoolRests DEF Running, pool, versions, bounds
<1>4. SessionInv'
  <2>1. file # None /\ Active' = Active
    BY <1>1, ContentsAssumption DEF IInv, TypeOK, Active, pool
  <2>2. QED
    BY <1>1, <2>1 DEF IInv, SessionInv, Resumable, Running, disk, tokens
<1>5. TokensSuffice'
  <2>1. Owed = Bit(session.content # file \/ Dead)
    BY <1>1, OwedTable DEF Owes, Bit
  <2>2. Dead' <=> Dead
    BY <1>1 DEF Dead, disk, tokens
  <2>3. CASE Resumable
    <3>1. Owed' = Bit(Dead) + Bit(FALSE)
      BY <1>1, <2>2, <2>3, OwedTable DEF Owes, Bit, disk
    <3>2. Owed = Bit(Dead)
      BY <2>1, <2>3 DEF Resumable, Bit
    <3>3. QED
      BY <1>1, <3>1, <3>2 DEF IInv, TokensSuffice, Bit, tokens, bounds
  <2>4. CASE ~Resumable
    <3>1. Owed' = 1 + Bit(FALSE)
      BY <1>1, <2>4, OwedTable DEF Owes, Bit, disk
    <3>2. Owed = 1
      BY <2>1, <2>4 DEF Resumable, Bit
    <3>3. QED
      BY <1>1, <3>1, <3>2 DEF IInv, TokensSuffice, Bit, tokens, bounds
  <2>5. QED
    BY <2>3, <2>4
<1>6. Journaled' /\ CachedIsPublished'
  BY <1>1 DEF IInv, Journaled, CachedIsPublished, disk, versions
<1>7. QED
  BY <1>2, <1>3, <1>4, <1>5, <1>6 DEF IInv

(* What the session of a push that resumes is known to be.                 *)
LEMMA SessionIs ==
  ASSUME IInv
  PROVE  /\ phase = "resume" => /\ session.content = push.content /\ push.content # None
                                /\ Active = {}
         /\ phase = "negotiate" => push.content # None /\ Active = {}
         /\ phase \in Running => session = push /\ push.content # None
         /\ session.content # None =>
              session.id \in Ids /\ live[session.id] \in {None, session.content}
         /\ push.content \in Contents \cup {None} /\ push.id \in Nat /\ session.id \in Nat
         /\ session = [id |-> session.id, content |-> session.content]
BY DEF IInv, TypeOK, SessionInv, Running, Pushes

LEMMA ResumeKeeps == ASSUME IInv, Resume PROVE IInv'
<1> DEFINE missing == Absent(live[session.id])
<1>1. /\ phase = "resume" /\ live[session.id] # None
      /\ IF Remaining(session.id, missing) \subseteq push.content
           THEN Begin(session.id, missing)
           ELSE Throw /\ UNCHANGED pool
      /\ UNCHANGED <<disk, tokens, stored, versions, bounds>>
  BY DEF Resume
<1>2. /\ session.content = push.content /\ push.content \in Contents
      /\ live[session.id] = push.content /\ session.id \in Ids /\ session.id \in Nat
      /\ session = [id |-> session.id, content |-> push.content]
  BY <1>1, SessionIs
<1>3. /\ missing \in SUBSET Nat /\ IsFiniteSet(missing) /\ missing \subseteq push.content
      /\ push.content \subseteq stored \cup missing
  <2>1. missing \subseteq push.content /\ push.content \subseteq stored \cup missing
    BY <1>2 DEF Absent
  <2>2. push.content \subseteq Nat /\ IsFiniteSet(push.content)
    BY <1>2, ContentsAssumption
  <2> HIDE DEF missing
  <2>3. QED
    BY <2>1, <2>2, FS_Subset
<1>4. Begin(session.id, missing)
  <2>1. Remaining(session.id, missing) \subseteq missing
    BY DEF Remaining
  <2> HIDE DEF missing
  <2>2. QED
    BY <1>1, <1>3, <2>1
<1> HIDE DEF missing
<1>5. /\ PoolTyped' /\ LimitIsUsed' /\ SteadyInv' /\ phase' \in Running
      /\ push' = session
  BY <1>1, <1>2, <1>3, <1>4, BeginKeeps DEF disk, bounds
<1>6. /\ session' = session /\ live' = live /\ file' = file /\ cached' = cached
      /\ journal' = journal /\ negotiated' = negotiated /\ stored' = stored
      /\ published' = published /\ current' = current
      /\ UNCHANGED bounds
  BY <1>1 DEF disk, tokens, versions
<1>7. TypeOK'
  BY <1>5, <1>6 DEF IInv, TypeOK, Phases, Running, bounds
<1>8. SessionInv'
  BY <1>2, <1>5, <1>6, ContentsAssumption DEF SessionInv, Running
<1>9. TokensSuffice'
  <2>1. ~Dead /\ ~Dead'
    BY <1>1, <1>6 DEF Dead
  <2>2. Owed = Bit(FALSE) + Bit(file # push.content)
    BY <1>1, <2>1, OwedTable DEF Owes, Bit
  <2>3. Owed' = Bit(file # push.content)
    BY <1>2, <1>5, <1>6, <2>1, OwedTable DEF Owes
  <2>4. Owed' = Owed
    BY <2>2, <2>3 DEF Bit
  <2>5. QED
    BY <1>6, <2>4 DEF IInv, TokensSuffice, bounds
<1>10. Journaled' /\ CachedIsPublished'
  BY <1>6 DEF IInv, Journaled, CachedIsPublished
<1>11. QED
  BY <1>5, <1>7, <1>8, <1>9, <1>10 DEF IInv

LEMMA FaultCounts ==
  ASSUME IInv, Fault
  PROVE  /\ faults' = faults + 1 /\ faults' \in 0 .. MaxFaults /\ edits' = edits
         /\ slowDowns' = slowDowns /\ errors' = errors
BY BoundsAssumption DEF IInv, TypeOK, Fault

LEMMA ResumeFailsKeeps == ASSUME IInv, ResumeFails PROVE IInv'
<1>1. /\ phase = "resume" /\ session' = NoPush /\ phase' = "negotiate"
      /\ UNCHANGED <<push, pool>> /\ UNCHANGED <<file, cached, journal, tokens, stored, versions>>
      /\ \/ Dead /\ UNCHANGED bounds
         \/ Fault
  BY DEF ResumeFails, GiveUpSession, Dead
<1>2. /\ edits' = edits /\ slowDowns' = slowDowns /\ errors' = errors
      /\ faults' \in 0 .. MaxFaults /\ faults \in Nat /\ faults' \in Nat
      /\ \/ Dead /\ faults' = faults
         \/ faults' = faults + 1
  BY <1>1, FaultCounts, BoundsAssumption DEF IInv, TypeOK, bounds
<1>3. /\ push' = push /\ file' = file /\ cached' = cached /\ journal' = journal
      /\ live' = live /\ negotiated' = negotiated /\ stored' = stored
      /\ published' = published /\ current' = current
      /\ worker' = worker /\ limit' = limit /\ Active' = Active
  BY <1>1 DEF tokens, versions, pool, Active
<1>4. TypeOK'
  BY <1>1, <1>2 DEF IInv, TypeOK, PoolTyped, pool, tokens, versions, NoPush, Pushes, Phases
<1>5. LimitIsUsed' /\ SteadyInv'
  BY <1>1, <1>2, <1>3, PoolRests DEF Running
<1>6. SessionInv'
  BY <1>1, <1>3, SessionIs DEF SessionInv, NoPush, Running
<1>7. TokensSuffice'
  <2>1. Owed = Bit(Dead) + Bit(file # push.content)
    BY <1>1, OwedTable DEF Owes
  <2>2. Owed' = 1 + Bit(file # push.content)
    BY <1>1, <1>3, OwedTable DEF Owes
  <2>3. /\ Bit(file # push.content) \in 0 .. 1 /\ Bit(Dead) \in 0 .. 1
        /\ Dead => Bit(Dead) = 1
    BY DEF Bit
  <2>4. negotiated + Owed <= 1 + edits + faults /\ negotiated \in Nat /\ edits \in Nat
    BY DEF IInv, TokensSuffice, TypeOK
  <2>5. negotiated + Owed' <= 1 + edits + faults'
    BY <1>2, <2>1, <2>2, <2>3, <2>4
  <2>6. QED
    BY <1>2, <1>3, <2>5 DEF TokensSuffice
<1>8. Journaled' /\ CachedIsPublished'
  BY <1>3 DEF IInv, Journaled, CachedIsPublished
<1>9. QED
  BY <1>4, <1>5, <1>6, <1>7, <1>8 DEF IInv

LEMMA NegotiateKeeps == ASSUME IInv, Negotiate PROVE IInv'
<1> DEFINE n == negotiated + 1
           missing == (push.content \ current) \ stored
<1>1. /\ phase = "negotiate" /\ negotiated' = n
      /\ live' = [live EXCEPT ![n] = push.content]
      /\ session' = [id |-> n, content |-> push.content]
      /\ Begin(n, missing)
      /\ UNCHANGED <<file, cached, journal, stored, versions, bounds>>
  BY DEF Negotiate
<1>2. push.content \in Contents /\ push.content # None
  BY <1>1, SessionIs
<1>3. /\ Owed = 1 + Bit(file # push.content) /\ Bit(file # push.content) \in 0 .. 1
      /\ negotiated + Owed <= 1 + edits + faults
      /\ negotiated \in Nat /\ edits \in 0 .. MaxEdits /\ faults \in 0 .. MaxFaults
  <2>1. Bit(file # push.content) \in 0 .. 1
    BY DEF Bit
  <2>2. QED
    BY <1>1, <2>1, OwedTable DEF Owes, IInv, TokensSuffice, TypeOK
<1>4. n \in Ids /\ n \in Nat
  BY <1>3, BoundsAssumption DEF Ids
<1>5. missing \in SUBSET Nat /\ IsFiniteSet(missing)
  <2>1. push.content \subseteq Nat /\ IsFiniteSet(push.content)
    BY <1>2, ContentsAssumption
  <2>2. missing \subseteq push.content
    OBVIOUS
  <2> HIDE DEF missing
  <2>3. QED
    BY <2>1, <2>2, FS_Subset
<1>6. slowDowns = 0 => push.content \subseteq stored \cup missing
  BY DEF IInv, SteadyInv
<1> HIDE DEF n, missing
<1>7. /\ PoolTyped' /\ LimitIsUsed' /\ SteadyInv' /\ phase' \in Running
      /\ push' = [id |-> n, content |-> push.content]
  BY <1>1, <1>4, <1>5, <1>6, BeginKeeps DEF bounds
<1>8. /\ live'[n] = push.content /\ live' \in [Ids -> Contents \cup {None}]
      /\ session' = push' /\ session'.id = n /\ session'.content = push.content
      /\ push'.content = push.content /\ session' \in Pushes
  BY <1>1, <1>2, <1>4, <1>7 DEF IInv, TypeOK, Pushes
<1>9. TypeOK'
  BY <1>1, <1>4, <1>7, <1>8 DEF IInv, TypeOK, Phases, Running, versions, bounds
<1>10. SessionInv'
  BY <1>2, <1>4, <1>7, <1>8 DEF SessionInv, Running
<1>11. TokensSuffice'
  <2>1. ~Dead'
    BY <1>2, <1>8 DEF Dead
  <2>2. Owed' = Bit(file # push.content)
    BY <1>1, <1>7, <1>8, <2>1, OwedTable DEF Owes
  <2>3. negotiated' + Owed' <= 1 + edits + faults
    BY <1>1, <1>3, <2>2 DEF n
  <2>4. QED
    BY <1>1, <2>3 DEF TokensSuffice, bounds
<1>12. Journaled' /\ CachedIsPublished'
  BY <1>1 DEF IInv, Journaled, CachedIsPublished, versions
<1>13. QED
  BY <1>7, <1>9, <1>10, <1>11, <1>12 DEF IInv

(* performPush throws after a fault: the fault pays for the new token that *)
(* the next attempt may ask for.                                           *)
LEMMA ThrowKeeps ==
  ASSUME IInv, Fault, phase' = "idle", UNCHANGED <<push, disk, negotiated>>,
         UNCHANGED <<todo, limit, streak, error>>, worker' = worker \/ worker' = NoWorkers,
         slowDowns = 0 /\ phase = "uploading" => Active' = {},
         stored \subseteq stored', stored' \in SUBSET Nat,
         \/ UNCHANGED <<live, versions>>
         \/ /\ phase = "committing" /\ live' = [live EXCEPT ![push.id] = None]
            /\ published' = published \cup {push.content} /\ current' = push.content
  PROVE  IInv'
<1>1. /\ faults' = faults + 1 /\ faults' \in 0 .. MaxFaults /\ edits' = edits
      /\ slowDowns' = slowDowns /\ errors' = errors
  BY FaultCounts
<1>2. /\ push' = push /\ file' = file /\ cached' = cached /\ session' = session
      /\ journal' = journal /\ negotiated' = negotiated /\ limit' = limit
  BY DEF disk
<1>3. live' = live \/ live' = [live EXCEPT ![push.id] = None]
  OBVIOUS
<1>4. phase = "committing" => /\ push.content \in Contents
                              /\ slowDowns = 0 => push.content \subseteq stored
  BY SessionIs DEF Running, IInv, SteadyInv
<1>5. TypeOK'
  <2>1. NoWorkers \in [Slots -> Workers]
    BY DEF NoWorkers, Free, Workers
  <2>2. PoolTyped'
    BY <2>1 DEF IInv, TypeOK, PoolTyped
  <2>3. live' \in [Ids -> Contents \cup {None}]
    BY <1>3 DEF IInv, TypeOK
  <2>4. published' \in SUBSET Contents /\ current' \in SUBSET Nat
    BY <1>4, ContentsAssumption DEF IInv, TypeOK, versions
  <2>5. QED
    BY <1>1, <1>2, <2>2, <2>3, <2>4 DEF IInv, TypeOK, Phases
<1>6. LimitIsUsed' /\ SteadyInv'
  <2>1. CASE UNCHANGED versions
    <3>1. published' = published /\ current' = current
      BY <2>1 DEF versions
    <3>2. QED
      BY <1>1, <1>2, <3>1, PoolRests DEF Running
  <2>2. CASE phase = "committing" /\ published' = published \cup {push.content} /\ current' = push.content
    <3>1. slowDowns = 0 => current' \subseteq stored'
      BY <1>4, <2>2
    <3>2. CASE slowDowns = 0
      BY <1>1, <1>2, <2>2, <3>1, <3>2, PoolRests DEF Running
    <3>3. CASE slowDowns # 0
      BY <1>1, <3>3 DEF LimitIsUsed, SteadyInv, Running
    <3>4. QED
      BY <3>2, <3>3
  <2>3. QED
    BY <2>1, <2>2
<1>7. SessionInv'
  BY <1>2, <1>3, SessionIs DEF SessionInv, Running, IInv, TypeOK
<1>8. TokensSuffice'
  <2>1. Owed' \in 0 .. 1
    BY <1>2, OwedTable DEF Owes
  <2>2. Owed \in 0 .. 2 /\ negotiated + Owed <= 1 + edits + faults /\ negotiated \in Nat
        /\ faults \in Nat /\ edits \in Nat
    BY OwedTable, BoundsAssumption DEF IInv, TypeOK, TokensSuffice
  <2>3. \A n, e, f \in Nat : \A o \in 0 .. 2 : \A q \in 0 .. 1 :
          n + o <= 1 + e + f => n + q <= 1 + e + (f + 1)
    OBVIOUS
  <2>4. negotiated + Owed' <= 1 + edits + (faults + 1)
    BY <2>1, <2>2, <2>3
  <2>5. QED
    BY <1>1, <1>2, <2>4 DEF TokensSuffice
<1>9. Journaled' /\ CachedIsPublished'
  BY <1>2 DEF IInv, Journaled, CachedIsPublished, versions
<1>10. QED
  BY <1>5, <1>6, <1>7, <1>8, <1>9 DEF IInv

LEMMA NegotiateFailsKeeps == ASSUME IInv, NegotiateFails PROVE IInv'
<1>1. /\ phase = "negotiate" /\ Fault /\ Throw
      /\ UNCHANGED <<pool, disk, tokens, stored, versions>>
  BY DEF NegotiateFails
<1>2. stored \in SUBSET Nat
  BY DEF IInv, TypeOK
<1>3. QED
  BY <1>1, <1>2, ThrowKeeps DEF Throw, pool, tokens

LEMMA CommitFailsKeeps == ASSUME IInv, CommitFails PROVE IInv'
<1>1. /\ phase = "committing" /\ Fault /\ Throw /\ UNCHANGED <<pool, disk>>
      /\ Publish \/ UNCHANGED <<tokens, stored, versions>>
  BY DEF CommitFails
<1>2. stored \in SUBSET Nat /\ stored' = stored /\ negotiated' = negotiated
  BY <1>1 DEF IInv, TypeOK, Publish, tokens
<1>3. Publish => live[push.id] = push.content
  BY <1>1, SessionIs DEF Publish, Running
<1>4. \/ UNCHANGED <<live, versions>>
      \/ /\ phase = "committing" /\ live' = [live EXCEPT ![push.id] = None]
         /\ published' = published \cup {push.content} /\ current' = push.content
  BY <1>1, <1>3 DEF Publish, tokens
<1>5. QED
  BY <1>1, <1>2, <1>4, ThrowKeeps DEF Throw, pool

LEMMA CrashKeeps == ASSUME IInv, Crash PROVE IInv'
<1>1. /\ Fault /\ worker' = NoWorkers /\ Throw
      /\ UNCHANGED <<todo, limit, streak, error, disk, tokens, versions>>
  BY DEF Crash
<1>2. InFlight \in SUBSET Nat
  BY DEF InFlight, IInv, TypeOK, PoolTyped, Workers
<1>3. stored \subseteq stored' /\ stored' \in SUBSET Nat
  BY <1>2 DEF Crash, IInv, TypeOK
<1>4. Active' = {}
  BY <1>1 DEF Active, NoWorkers, Free
<1>5. QED
  BY <1>1, <1>3, <1>4, ThrowKeeps DEF Throw, tokens

LEMMA JoinKeeps == ASSUME IInv, Join PROVE IInv'
<1>1. /\ phase = "uploading" /\ Awaited = {}
      /\ phase' = IF error THEN "idle" ELSE "committing"
      /\ UNCHANGED <<push, pool, disk, tokens, stored, versions, bounds>>
  BY DEF Join
<1>2. /\ push' = push /\ file' = file /\ cached' = cached /\ session' = session
      /\ journal' = journal /\ live' = live /\ negotiated' = negotiated /\ stored' = stored
      /\ published' = published /\ current' = current /\ worker' = worker /\ todo' = todo
      /\ limit' = limit /\ error' = error /\ slowDowns' = slowDowns /\ Active' = Active
      /\ UNCHANGED bounds
  BY <1>1 DEF pool, disk, tokens, versions, bounds, Active
<1>3. TypeOK'
  BY <1>1 DEF IInv, TypeOK, PoolTyped, Phases, pool, disk, tokens, versions, bounds
<1>4. LimitIsUsed'
  BY <1>1, <1>2 DEF IInv, LimitIsUsed
<1>5. SteadyInv'
  <2> SUFFICES ASSUME slowDowns = 0 PROVE SteadyInv'
    BY <1>2 DEF SteadyInv
  <2>1. /\ limit = Concurrency
        /\ \A x \in Active : worker[x].initial /\ worker[x].attempts > 0
        /\ ~error => push.content \subseteq stored \cup todo \cup Held
        /\ current \subseteq stored
        /\ \A d \in published : d \subseteq stored
    BY <1>1 DEF IInv, SteadyInv
  <2>2. Active = {}
    BY <1>1, <2>1 DEF Awaited
  <2>3. Held = {}
    BY <2>2 DEF Held
  <2>4. ~error => todo = {}
    <3>1. Cardinality(Active) = 0
      BY <2>2, FS_EmptySet
    <3>2. ~ (Cardinality(Active) >= limit)
      BY <2>1, <3>1, SizesAssumption
    <3>3. QED
      BY <1>1, <3>2 DEF IInv, LimitIsUsed
  <2>5. ~error => push.content \subseteq stored
    BY <2>1, <2>3, <2>4
  <2>6. QED
    BY <1>1, <1>2, <2>1, <2>2, <2>5 DEF SteadyInv
<1>6. SessionInv'
  BY <1>1, <1>2, SessionIs DEF SessionInv, Running
<1>7. TokensSuffice'
  <2>1. session = push
    BY <1>1, SessionIs DEF Running
  <2>2. Dead' = Dead
    BY <1>2 DEF Dead
  <2>3. Owed = Bit(file # push.content \/ Dead)
    BY <1>1, OwedTable DEF Owes, Running
  <2>4. CASE error
    <3>1. Owed' = Bit(file # cached /\ (push.content # file \/ Dead))
      BY <1>1, <1>2, <2>1, <2>2, <2>4, OwedTable DEF Owes
    <3>2. Owed' = Owed \/ (Owed' = 0 /\ Owed = 1)
      BY <2>3, <3>1 DEF Bit
    <3>3. QED
      BY <1>2, <3>2, BoundsAssumption DEF IInv, TypeOK, TokensSuffice, bounds
  <2>5. CASE ~error
    <3>1. Owed' = Owed
      BY <1>1, <1>2, <2>2, <2>3, <2>5, OwedTable DEF Owes, Running
    <3>2. QED
      BY <1>2, <3>1 DEF IInv, TokensSuffice, bounds
  <2>6. QED
    BY <2>4, <2>5 DEF IInv, TypeOK, PoolTyped
<1>8. Journaled' /\ CachedIsPublished'
  BY <1>2 DEF IInv, Journaled, CachedIsPublished
<1>9. QED
  BY <1>3, <1>4, <1>5, <1>6, <1>7, <1>8 DEF IInv

LEMMA CommitOkKeeps == ASSUME IInv, CommitOk PROVE IInv'
<1>1. /\ phase = "committing" /\ Publish
      /\ journal' = Cleared(push.id) /\ session' = NoPush /\ cached' = push.content
      /\ phase' = "idle" /\ push' = push /\ UNCHANGED <<pool, file, bounds>>
  BY DEF CommitOk, Throw
<1>2. /\ push.content \in Contents /\ push.content # None /\ live[push.id] = push.content
  BY <1>1, SessionIs DEF Publish, Running
<1>3. /\ published' = published \cup {push.content} /\ current' = push.content
      /\ live' = [live EXCEPT ![push.id] = None]
      /\ negotiated' = negotiated /\ stored' = stored
  BY <1>1, <1>2 DEF Publish
<1>4. journal' \subseteq journal
  BY <1>1 DEF Cleared
<1>5. TypeOK'
  <2>1. /\ published' \in SUBSET Contents /\ current' \in SUBSET Nat
        /\ live' \in [Ids -> Contents \cup {None}] /\ session' \in Pushes
        /\ journal' \in SUBSET (Nat \X Nat)
    BY <1>1, <1>2, <1>3, <1>4, ContentsAssumption DEF IInv, TypeOK, NoPush, Pushes
  <2>2. QED
    BY <1>1, <1>2, <1>3, <2>1 DEF IInv, TypeOK, PoolTyped, Phases, pool, bounds
<1>6. LimitIsUsed' /\ SteadyInv'
  <2>1. slowDowns = 0 => push.content \subseteq stored
    BY <1>1 DEF IInv, SteadyInv
  <2>2. worker' = worker /\ limit' = limit /\ slowDowns' = slowDowns
    BY <1>1 DEF pool, bounds
  <2>3. CASE slowDowns = 0
    BY <1>1, <1>3, <2>1, <2>2, <2>3, PoolRests DEF Running
  <2>4. CASE slowDowns # 0
    BY <1>1, <2>2, <2>4 DEF LimitIsUsed, SteadyInv, Running
  <2>5. QED
    BY <2>3, <2>4
<1>7. SessionInv'
  BY <1>1 DEF SessionInv, NoPush, Running
<1>8. TokensSuffice'
  <2>1. Owed = Bit(file # push.content \/ Dead)
    BY <1>1, OwedTable DEF Owes, Running
  <2>2. Owed' = Bit(file # push.content /\ (None # file \/ Dead'))
    BY <1>1, OwedTable DEF Owes, NoPush
  <2>3. Owed' = Owed \/ (Owed' = 0 /\ Owed = 1)
    BY <2>1, <2>2 DEF Bit
  <2>4. QED
    BY <1>1, <1>3, <2>3, BoundsAssumption DEF IInv, TypeOK, TokensSuffice, bounds
<1>9. Journaled' /\ CachedIsPublished'
  BY <1>1, <1>3, <1>4 DEF IInv, Journaled, CachedIsPublished
<1>10. QED
  BY <1>5, <1>6, <1>7, <1>8, <1>9 DEF IInv

LEMMA CommitRefusedKeeps == ASSUME IInv, CommitRefused PROVE IInv'
<1>1. /\ phase = "committing" /\ phase' = "idle" /\ push' = push
      /\ UNCHANGED <<pool, disk, tokens, stored, versions, bounds>>
  BY DEF CommitRefused, Throw
<1>2. TypeOK'
  BY <1>1 DEF IInv, TypeOK, PoolTyped, Phases, pool, disk, tokens, versions, bounds
<1>3. LimitIsUsed' /\ SteadyInv'
  BY <1>1, PoolRests DEF Running, pool, versions, bounds
<1>4. SessionInv'
  BY <1>1, SessionIs DEF SessionInv, Running, disk, tokens
<1>5. TokensSuffice'
  <2>1. Owed = Bit(file # push.content \/ Dead) /\ session = push
    BY <1>1, OwedTable, SessionIs DEF Owes, Running
  <2>2. Owed' = Bit(file # cached /\ (push.content # file \/ Dead))
    BY <1>1, <2>1, OwedTable DEF Owes, disk, tokens, Dead
  <2>3. Owed' = Owed \/ (Owed' = 0 /\ Owed = 1)
    BY <2>1, <2>2 DEF Bit
  <2>4. QED
    BY <1>1, <2>3, BoundsAssumption DEF IInv, TypeOK, TokensSuffice, tokens, bounds
<1>6. Journaled' /\ CachedIsPublished'
  BY <1>1 DEF IInv, Journaled, CachedIsPublished, disk, versions
<1>7. QED
  BY <1>2, <1>3, <1>4, <1>5, <1>6 DEF IInv

LEMMA LoseTokensKeeps == ASSUME IInv, LoseTokens PROVE IInv'
<1>1. /\ Fault /\ live' = [n \in Ids |-> None]
      /\ UNCHANGED <<phase, push, pool, disk, negotiated, stored, versions>>
  BY DEF LoseTokens
<1>2. /\ faults' = faults + 1 /\ faults' \in 0 .. MaxFaults /\ edits' = edits
      /\ slowDowns' = slowDowns /\ errors' = errors
  BY <1>1, FaultCounts
<1>3. /\ phase' = phase /\ push' = push /\ file' = file /\ cached' = cached
      /\ session' = session /\ journal' = journal /\ negotiated' = negotiated
      /\ stored' = stored /\ published' = published /\ current' = current
      /\ UNCHANGED pool /\ Active' = Active
  BY <1>1 DEF disk, versions, pool, Active
<1>4. TypeOK'
  BY <1>1, <1>2, <1>3 DEF IInv, TypeOK, PoolTyped, pool
<1>5. LimitIsUsed' /\ SteadyInv'
  <2>1. Held' = Held
    BY <1>3 DEF Held, pool
  <2>2. QED
    BY <1>2, <1>3, <2>1 DEF IInv, LimitIsUsed, SteadyInv, pool
<1>6. SessionInv'
  BY <1>1, <1>3 DEF IInv, SessionInv
<1>7. TokensSuffice'
  <2>1. Owed \in Nat /\ Owed' \in Nat /\ Owed' <= Owed + 1
    <3>1. \A b : Bit(b) \in 0 .. 1
      BY OwedTable
    <3>2. CASE phase = "resume"
      BY <1>3, <3>1, <3>2, OwedTable DEF Owes
    <3>3. CASE phase = "negotiate"
      BY <1>3, <3>1, <3>3, OwedTable DEF Owes
    <3>4. CASE phase = "idle" \/ phase \in Running
      BY <1>3, <3>1, <3>4, OwedTable DEF Owes
    <3>5. QED
      BY <3>2, <3>3, <3>4 DEF IInv, TypeOK, Phases, Running
  <2>2. \A n, e, f, o, q \in Nat : n + o <= 1 + e + f /\ q <= o + 1 => n + q <= 1 + e + (f + 1)
    OBVIOUS
  <2>3. /\ negotiated \in Nat /\ edits \in Nat /\ faults \in Nat
        /\ negotiated + Owed <= 1 + edits + faults
    BY BoundsAssumption DEF IInv, TypeOK, TokensSuffice
  <2>4. negotiated + Owed' <= 1 + edits + (faults + 1)
    BY <2>1, <2>2, <2>3
  <2>5. QED
    BY <1>2, <1>3, <2>4 DEF TokensSuffice
<1>8. Journaled' /\ CachedIsPublished'
  BY <1>3 DEF IInv, Journaled, CachedIsPublished
<1>9. QED
  BY <1>4, <1>5, <1>6, <1>7, <1>8 DEF IInv

LEMMA EditKeeps == ASSUME IInv, NEW d \in Contents, Edit(d) PROVE IInv'
<1>1. /\ edits' = edits + 1 /\ edits' \in 0 .. MaxEdits /\ file' = d
      /\ UNCHANGED <<phase, push, pool, cached, session, journal, tokens, stored, versions,
                     slowDowns, errors, faults>>
  BY BoundsAssumption DEF Edit, IInv, TypeOK
<1>2. /\ phase' = phase /\ push' = push /\ cached' = cached
      /\ session' = session /\ journal' = journal /\ negotiated' = negotiated /\ live' = live
      /\ stored' = stored /\ published' = published /\ current' = current
      /\ UNCHANGED pool /\ Active' = Active /\ Dead' = Dead
  BY <1>1 DEF tokens, versions, pool, Active, Dead
<1>3. TypeOK'
  BY <1>1, <1>2 DEF IInv, TypeOK, PoolTyped, pool
<1>4. LimitIsUsed' /\ SteadyInv'
  <2>1. Held' = Held
    BY <1>2 DEF Held, pool
  <2>2. QED
    BY <1>1, <1>2, <2>1 DEF IInv, LimitIsUsed, SteadyInv, pool
<1>5. SessionInv'
  BY <1>2 DEF IInv, SessionInv
<1>6. TokensSuffice'
  <2>1. Owed \in Nat /\ Owed' \in Nat /\ Owed' <= Owed + 1
    <3>1. \A b : Bit(b) \in 0 .. 1
      BY OwedTable
    <3>2. CASE phase = "resume"
      BY <1>2, <3>1, <3>2, OwedTable DEF Owes
    <3>3. CASE phase = "negotiate"
      BY <1>2, <3>1, <3>3, OwedTable DEF Owes
    <3>4. CASE phase = "idle" \/ phase \in Running
      BY <1>2, <3>1, <3>4, OwedTable DEF Owes
    <3>5. QED
      BY <3>2, <3>3, <3>4 DEF IInv, TypeOK, Phases, Running
  <2>2. \A n, e, f, o, q \in Nat : n + o <= 1 + e + f /\ q <= o + 1 => n + q <= 1 + (e + 1) + f
    OBVIOUS
  <2>3. /\ negotiated \in Nat /\ edits \in Nat /\ faults \in Nat
        /\ negotiated + Owed <= 1 + edits + faults
    BY BoundsAssumption DEF IInv, TypeOK, TokensSuffice
  <2>4. negotiated + Owed' <= 1 + (edits + 1) + faults
    BY <2>1, <2>2, <2>3
  <2>5. QED
    BY <1>1, <1>2, <2>4 DEF TokensSuffice
<1>7. Journaled' /\ CachedIsPublished'
  BY <1>2 DEF IInv, Journaled, CachedIsPublished
<1>8. QED
  BY <1>3, <1>4, <1>5, <1>6, <1>7 DEF IInv

LEMMA StutterKeeps == ASSUME IInv, UNCHANGED vars PROVE IInv'
<1>1. /\ UNCHANGED <<phase, push, pool, disk, tokens, stored, versions, bounds>>
      /\ Active' = Active /\ Held' = Held /\ Dead' = Dead
  BY DEF vars, Active, Held, Dead, pool, disk, tokens
<1>2. TypeOK' /\ SessionInv'
  BY <1>1 DEF IInv, TypeOK, PoolTyped, SessionInv, pool, disk, tokens, versions, bounds
<1>3. Owed' = Owed
  BY <1>1 DEF Owed, disk
<1>4. TokensSuffice'
  BY <1>1, <1>3 DEF IInv, TokensSuffice, tokens, bounds
<1>5. LimitIsUsed' /\ SteadyInv'
  BY <1>1 DEF IInv, LimitIsUsed, SteadyInv, pool, versions, bounds
<1>6. Journaled' /\ CachedIsPublished'
  BY <1>1 DEF IInv, Journaled, CachedIsPublished, disk, versions
<1>7. QED
  BY <1>2, <1>4, <1>5, <1>6 DEF IInv

LEMMA InitHolds == Init => IInv
<1> SUFFICES ASSUME Init PROVE IInv
  OBVIOUS
<1>1. /\ phase = "idle" /\ push = NoPush /\ session = NoPush /\ worker = NoWorkers /\ todo = {}
      /\ limit = Concurrency /\ streak = 0 /\ error = FALSE /\ file \in Contents /\ cached = None
      /\ journal = {} /\ live = [n \in Ids |-> None] /\ negotiated = 0 /\ stored = {}
      /\ published = {} /\ current = {} /\ slowDowns = 0 /\ errors = 0 /\ faults = 0 /\ edits = 0
  BY DEF Init
<1>2. TypeOK
  <2>1. NoWorkers \in [Slots -> Workers]
    BY DEF NoWorkers, Free, Workers
  <2>2. PoolTyped
    <3>1. Concurrency \in 1 .. Concurrency
      BY SizesAssumption
    <3>2. worker \in [Slots -> Workers]
      BY <1>1, <2>1
    <3>3. QED
      BY <1>1, <3>1, <3>2 DEF PoolTyped
  <2>3. NoPush \in Pushes
    BY DEF NoPush, Pushes
  <2>4. 0 \in 0 .. MaxFaults /\ 0 \in 0 .. MaxEdits
    BY BoundsAssumption
  <2>5. QED
    BY <1>1, <2>2, <2>3, <2>4 DEF TypeOK, Phases
<1>3. Active = {}
  BY <1>1 DEF Active, NoWorkers, Free
<1>4. SessionInv
  BY <1>1, <1>3 DEF SessionInv, NoPush, Running
<1>5. TokensSuffice
  <2>1. Owed = Bit(file # cached /\ (session.content # file \/ Dead))
    BY <1>1, OwedTable DEF Owes
  <2>2. Owed \in 0 .. 1
    BY <2>1, OwedTable
  <2>3. QED
    BY <1>1, <2>2 DEF TokensSuffice
<1>6. LimitIsUsed /\ SteadyInv
  BY <1>1, <1>3 DEF LimitIsUsed, SteadyInv
<1>7. Journaled /\ CachedIsPublished
  BY <1>1 DEF Journaled, CachedIsPublished
<1>8. QED
  BY <1>2, <1>4, <1>5, <1>6, <1>7 DEF IInv

LEMMA NextKeeps == IInv /\ [Next]_vars => IInv'
<1> SUFFICES ASSUME IInv, [Next]_vars PROVE IInv'
  OBVIOUS
<1>1. ASSUME NEW x \in Slots, WorkerStep(x) PROVE IInv'
  BY <1>1, WorkerKeeps
<1>2. CASE Start
  BY <1>2, StartKeeps
<1>3. CASE PushStep
  BY <1>3, ResumeKeeps, ResumeFailsKeeps, NegotiateKeeps, JoinKeeps, CommitOkKeeps,
     CommitRefusedKeeps DEF PushStep
<1>4. CASE NegotiateFails \/ CommitFails
  BY <1>4, NegotiateFailsKeeps, CommitFailsKeeps
<1>5. CASE Crash \/ LoseTokens
  BY <1>5, CrashKeeps, LoseTokensKeeps
<1>6. ASSUME NEW d \in Contents, Edit(d) PROVE IInv'
  BY <1>6, EditKeeps
<1>7. CASE Rest \/ UNCHANGED vars
  BY <1>7, StutterKeeps DEF Rest
<1>8. QED
  BY <1>1, <1>2, <1>3, <1>4, <1>5, <1>6, <1>7 DEF Next

-----------------------------------------------------------------------------
(* The inductive invariant holds in every reachable state.                 *)
THEOREM Inductive == Spec => []IInv
<1>1. QED
  BY InitHolds, NextKeeps, PTL DEF Spec

(* The types, with limit between 1 and UPLOAD_CONCURRENCY in every state.  *)
THEOREM TypeCorrect == Spec => []TypeOK
<1>1. IInv => TypeOK
  BY DEF IInv
<1>2. QED
  BY <1>1, Inductive, PTL

(* push.ts: while chunks wait and nothing failed, at least activeLimit     *)
(* workers run, for any number of workers, chunks and slow-downs.          *)
THEOREM LimitUsed == Spec => []LimitIsUsed
<1>1. IInv => LimitIsUsed
  BY DEF IInv
<1>2. QED
  BY <1>1, Inductive, PTL

(* Without slow-downs a version that a push commits has all its chunks in  *)
(* the bucket, after any crashes, resumed sessions, errors and edits.      *)
THEOREM SteadyCommits == Spec => []SteadyCommitIsComplete
<1>1. IInv => SteadyCommitIsComplete
  BY DEF IInv, SteadyInv, SteadyCommitIsComplete
<1>2. QED
  BY <1>1, Inductive, PTL

(* What the row of the file says was pushed has been published.            *)
THEOREM SkippedIsPublished == Spec => []CachedIsPublished
<1>1. IInv => CachedIsPublished
  BY DEF IInv
<1>2. QED
  BY <1>1, Inductive, PTL

(* At most one token is asked for beyond one for each edit and each fault: *)
(* the bound Ids on the tokens of the model is never what stops a push.    *)
THEOREM TokensAreFew == Spec => [](negotiated <= 1 + edits + faults)
<1>1. IInv => negotiated <= 1 + edits + faults
  <2> SUFFICES ASSUME IInv PROVE negotiated <= 1 + edits + faults
    OBVIOUS
  <2>1. \A n, e, f \in Nat : \A o \in 0 .. 2 : n + o <= 1 + e + f => n <= 1 + e + f
    OBVIOUS
  <2>2. QED
    BY <2>1, OwedTable, BoundsAssumption DEF IInv, TypeOK, TokensSuffice
<1>2. QED
  BY <1>1, Inductive, PTL
=============================================================================
