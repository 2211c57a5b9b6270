--------------------------- MODULE Downloads_proofs ---------------------------
(***************************************************************************)
(* The chunk store and its downloads, for any number of versions, clients, *)
(* readers and chunks and any page size.  ChunkStore: the type invariant,  *)
(* the completeness of the reference set, and that no chunk is lost.       *)
(* Downloads: it implements ChunkStore, whose theorems therefore hold of   *)
(* it; downloads break only over chunks of the upload endpoint and those a *)
(* version was committed without; an upload keeps the source of its copy.  *)
(***************************************************************************)
EXTENDS Downloads, FiniteSetTheorems, WellFoundedInduction, TLAPS

-----------------------------------------------------------------------------
(* Sets of naturals                                                        *)

(* A non-empty set of naturals has a least element.                        *)
LEMMA LeastElement ==
  ASSUME NEW S \in SUBSET Nat, S # {}
  PROVE  \E x \in S : \A y \in S : x <= y
<1>1. PICK x \in S : \A y \in S : ~ (<<y, x>> \in OpToRel(<, Nat))
  BY NatLessThanWellFounded, WFMin
<1>2. \A y \in S : ~ (y < x)
  BY <1>1 DEF OpToRel
<1>3. QED
  BY <1>2

(* A non-empty set of ids has a greatest element, and Max is it.           *)
LEMMA MaxOfIds ==
  ASSUME NEW S \in SUBSET Ids, S # {}
  PROVE  /\ Max(S) \in S
         /\ \A v \in S : v <= Max(S)
<1> DEFINE Mirror == {NumIds - v : v \in S}
<1>1. Mirror \in SUBSET Nat /\ Mirror # {}
  <2>1. \A v \in S : NumIds - v \in Nat
    BY SizesAssumption DEF Ids
  <2>2. PICK v \in S : TRUE
    OBVIOUS
  <2>3. NumIds - v \in Mirror
    BY <2>2
  <2>4. QED
    BY <2>1, <2>3
<1>2. PICK m \in Mirror : \A n \in Mirror : m <= n
  BY <1>1, LeastElement
<1>3. PICK x \in S : m = NumIds - x
  BY <1>2
<1>4. \A v \in S : x >= v
  BY <1>2, <1>3, SizesAssumption DEF Ids
<1>5. QED
  BY <1>4 DEF Max, Ids

(* What lies below a place in the id order is finite, and there is less of *)
(* it below a lower place.                                                 *)
LEMMA FewerBelow ==
  ASSUME NEW S \in SUBSET Ids, NEW T, T \subseteq S
  PROVE  /\ Cardinality(T) \in Nat
         /\ Cardinality(T) <= Cardinality(S)
<1>1. IsFiniteSet(Ids)
  BY FS_Interval, SizesAssumption DEF Ids
<1>2. IsFiniteSet(S)
  BY <1>1, FS_Subset
<1>3. QED
  BY <1>2, FS_Subset, FS_CardinalityType

-----------------------------------------------------------------------------
(* One page                                                                *)

(* The page holds every row above the old cursor and up to the new one.    *)
LEMMA PageHasNoGap ==
  ASSUME rows \subseteq Ids, NEW v \in After, Page # {}, v <= Max(Page)
  PROVE  v \in Page
<1>1. Page \in SUBSET Ids /\ After \in SUBSET Ids
  BY DEF Page, After
<1>2. PICK m \in Page : m = Max(Page)
  BY <1>1, MaxOfIds
<1> DEFINE BelowV == {u \in After : u < v}
           BelowM == {u \in After : u < m}
<1>3. BelowV \subseteq BelowM
  <2>1. After \subseteq Int /\ m \in Int /\ v \in Int /\ v <= m
    BY <1>1, <1>2 DEF Ids
  <2>2. \A u \in After : u < v => u < m
    BY <2>1
  <2>3. QED
    BY <2>2
<1>4. Cardinality(BelowV) \in Nat /\ Cardinality(BelowV) <= Cardinality(BelowM)
  BY <1>1, <1>3, FewerBelow, BelowM \in SUBSET Ids
<1>5. Cardinality(BelowM) < PageSize /\ Cardinality(BelowM) \in Nat
  BY <1>1, FewerBelow, BelowM \in SUBSET Ids DEF Page
<1>6. QED
  BY <1>4, <1>5, SizesAssumption DEF Page

(* A page that is not full is the last one: it holds every row above the   *)
(* cursor.                                                                 *)
LEMMA ShortPageIsLast ==
  ASSUME rows \subseteq Ids, LastPage(Page), NEW v \in After
  PROVE  v \in Page
<1>1. Page \in SUBSET Ids /\ After \in SUBSET Ids
  BY DEF Page, After
<1> SUFFICES ASSUME v \notin Page PROVE FALSE
  OBVIOUS
<1> DEFINE Left == After \ Page
<1>2. PICK w \in Left : \A u \in Left : w <= u
  <2>1. Left \in SUBSET Nat /\ Left # {}
    BY <1>1 DEF Ids
  <2>2. QED
    BY <2>1, LeastElement
<1> DEFINE BelowW == {u \in After : u < w}
<1>3. BelowW \subseteq Page
  <2>1. After \subseteq Nat
    BY <1>1, SizesAssumption DEF Ids
  <2>2. \A u \in BelowW : u \notin Left
    BY <2>1, <1>2
  <2>3. QED
    BY <2>2
<1>4. Cardinality(BelowW) \in Nat /\ Cardinality(BelowW) <= Cardinality(Page)
  BY <1>1, <1>3, FewerBelow
<1>5. Cardinality(Page) \in Nat
  BY <1>1, FewerBelow
<1>6. Cardinality(BelowW) < PageSize
  BY <1>4, <1>5, SizesAssumption DEF LastPage
<1>7. w \in Page
  BY <1>6, <1>2 DEF Page
<1>8. QED
  BY <1>2, <1>7

-----------------------------------------------------------------------------
(* Types                                                                   *)
LEMMA TypeInit == Init => TypeOK
  BY SizesAssumption DEF Init, TypeOK, NoRequest, NoGc, Ids

LEMMA TypeNext == TypeOK /\ [Next]_vars => TypeOK'
<1> SUFFICES ASSUME TypeOK, [Next]_vars PROVE TypeOK'
  OBVIOUS
<1> USE DEF TypeOK
<1>1. ASSUME NEW c \in Clients, NEW wanted \in SUBSET Hashes, Negotiate(c, wanted)
      PROVE  TypeOK'
  BY <1>1 DEF Negotiate
<1>2. ASSUME NEW c \in Clients, NEW copied \in SUBSET Hashes, NEW literals \in SUBSET Hashes,
             Upload(c, copied, literals)
      PROVE  TypeOK'
  BY <1>2 DEF Upload
<1>3. ASSUME NEW c \in Clients, NEW h \in Hashes, Head(c, h) PROVE TypeOK'
  <2>1. Answered(client[c], h) \in [at : {"idle", "head"}, route : {"push", "upload"},
                                    chunks : SUBSET Hashes, snapshot : Ids \cup {0},
                                    todo : SUBSET Hashes, missing : SUBSET Hashes]
    BY ZenonT(60) DEF Answered
  <2>2. QED
    BY <1>3, <2>1 DEF Head
<1>4. ASSUME NEW c \in Clients, NEW h \in Hashes, Put(c, h) PROVE TypeOK'
  <2>1. StoreKey(client[c].route, h) \in Keys
    BY DEF StoreKey, S3Key, Hash, Keys
  <2>2. QED
    BY <1>4, <2>1 DEF Put
<1>5. ASSUME NEW c \in Clients, NEW v \in Ids, Commit(c, v) PROVE TypeOK'
  <2>1. {h \in client[c].missing : ~Stored(h)} \subseteq Hashes
    OBVIOUS
  <2>2. QED
    BY <1>5, <2>1 DEF Commit, NoRequest
<1>6. ASSUME NEW c \in Clients, GiveUp(c) PROVE TypeOK'
  BY <1>6 DEF GiveUp, NoRequest
<1>7. ASSUME NEW v \in Ids, Prune(v) PROVE TypeOK'
  BY <1>7 DEF Prune
<1>8. ASSUME GcStart PROVE TypeOK'
  <2>1. gc' = [at |-> "page", refs |-> {}, lastId |-> 0, old |-> rows, orphans |-> {}]
    BY <1>8 DEF GcStart, NoGc
  <2>2. runs' \in 0 .. MaxRuns
    BY <1>8, SizesAssumption DEF GcStart
  <2>3. QED
    BY <1>8, <2>1, <2>2 DEF GcStart
<1>9. ASSUME GcPage PROVE TypeOK'
  <2>1. Page \in SUBSET Ids
    BY DEF Page, After
  <2>2. UNION {manifest[v] : v \in Page} \subseteq Hashes
    BY <2>1
  <2>3. Page # {} => Max(Page) \in Ids
    BY <2>1, MaxOfIds
  <2>4. gc' \in [at : {"idle", "page", "report", "delete"}, refs : SUBSET Hashes,
                 lastId : Ids \cup {0}, old : SUBSET Ids, orphans : SUBSET Keys]
    BY <1>9, <2>2, <2>3 DEF GcPage, WithHashes
  <2>5. QED
    BY <1>9, <2>4 DEF GcPage, WithHashes
<1>10. ASSUME NEW report \in SUBSET objects, GcReport(report) PROVE TypeOK'
  BY <1>10 DEF GcReport, HasHash
<1>11. ASSUME NEW k \in gc.orphans, GcDelete(k) PROVE TypeOK'
  BY <1>11 DEF GcDelete
<1>12. ASSUME GcDone \/ GcFail PROVE TypeOK'
  BY <1>12 DEF GcDone, GcFail, NoGc
<1>13. ASSUME NEW h \in Hashes, LatePut(h) PROVE TypeOK'
  <2>1. S3Key(Hash(h)) \in Keys
    BY DEF S3Key, Hash, Keys
  <2>2. QED
    BY <1>13, <2>1 DEF LatePut
<1>14. CASE UNCHANGED vars
  BY <1>14 DEF vars
<1>15. QED
  BY <1>1, <1>2, <1>3, <1>4, <1>5, <1>6, <1>7, <1>8, <1>9, <1>10, <1>11, <1>12, <1>13, <1>14
  DEF Next, ClientStep, GcStep

(* Every variable of the chunk store keeps its type, and the current       *)
(* version is always a row.                                                *)
THEOREM TypeCorrect == Spec => []TypeOK
  BY TypeInit, TypeNext, PTL DEF Spec

-----------------------------------------------------------------------------
(* The reference set                                                       *)

(* Behind the cursor every old row is known; once the pages are read, all. *)
Behind(v) == gc.at \in {"report", "delete"} \/ v <= gc.lastId
CollectorInv ==
  gc.at # "idle" =>
    /\ gc.old \subseteq used
    /\ \A v \in gc.old \cap rows : Behind(v) => manifest[v] \subseteq gc.refs

LEMMA CollectorKept ==
  ASSUME TypeOK, CollectorInv, [Next]_vars
  PROVE  CollectorInv'
<1>1. ASSUME NEW c \in Clients, NEW v \in Ids, Commit(c, v) PROVE CollectorInv'
  <2>1. \A w \in gc.old \cap rows' : gc.at # "idle" => w \in rows /\ manifest'[w] = manifest[w]
    BY <1>1 DEF Commit, CollectorInv, TypeOK
  <2>2. gc' = gc /\ used \subseteq used'
    BY <1>1 DEF Commit
  <2>3. QED
    BY <2>1, <2>2 DEF CollectorInv, Behind
<1>2. ASSUME NEW v \in Ids, Prune(v) PROVE CollectorInv'
  BY <1>2 DEF Prune, CollectorInv, Behind
<1>3. ASSUME GcStart PROVE CollectorInv'
  <2>1. /\ gc'.at = "page" /\ gc'.lastId = 0 /\ gc'.old = rows
        /\ rows' = rows /\ used' = used
    BY <1>3 DEF GcStart, NoGc
  <2>2. \A v \in rows : ~ (v <= 0)
    BY DEF TypeOK, Ids
  <2>3. QED
    BY <2>1, <2>2 DEF CollectorInv, Behind, TypeOK
<1>4. ASSUME GcPage PROVE CollectorInv'
  <2> DEFINE refs == gc.refs \cup UNION {manifest[v] : v \in Page}
  <2>1. /\ gc.at = "page" /\ gc'.old = gc.old /\ gc'.refs = refs
        /\ gc'.lastId = IF Page = {} THEN gc.lastId ELSE Max(Page)
        /\ gc'.at = IF LastPage(Page) THEN "report" ELSE "page"
        /\ rows' = rows /\ used' = used /\ manifest' = manifest
    BY <1>4 DEF GcPage, WithHashes, TypeOK
  <2>2. ASSUME NEW v \in gc.old \cap rows, Behind(v)' PROVE manifest[v] \subseteq refs
    <3>1. CASE v <= gc.lastId
      BY <2>1, <3>1 DEF CollectorInv, Behind
    <3>2. CASE ~ (v <= gc.lastId)
      <4>1. v \in After
        BY <3>2 DEF After, TypeOK, Ids
      <4>2. CASE LastPage(Page)
        BY <4>1, <4>2, ShortPageIsLast DEF TypeOK
      <4>3. CASE ~ LastPage(Page)
        <5>1. Page # {} /\ v <= Max(Page)
          BY <2>1, <2>2, <3>2, <4>3 DEF Behind
        <5>2. QED
          BY <4>1, <5>1, PageHasNoGap DEF TypeOK
      <4>4. QED
        BY <4>2, <4>3
    <3>3. QED
      BY <3>1, <3>2
  <2>3. QED
    BY <2>1, <2>2 DEF CollectorInv
<1>5. ASSUME NEW report \in SUBSET objects, GcReport(report) PROVE CollectorInv'
  <2>1. /\ gc.at = "report" /\ gc'.at = "delete" /\ gc'.old = gc.old /\ gc'.refs = gc.refs
        /\ rows' = rows /\ used' = used /\ manifest' = manifest
    BY <1>5 DEF GcReport, HasHash, TypeOK
  <2>2. QED
    BY <2>1 DEF CollectorInv, Behind
<1>6. ASSUME NEW k \in gc.orphans, GcDelete(k) PROVE CollectorInv'
  <2>1. /\ gc'.at = gc.at /\ gc'.old = gc.old /\ gc'.refs = gc.refs /\ gc'.lastId = gc.lastId
        /\ rows' = rows /\ used' = used /\ manifest' = manifest
    BY <1>6 DEF GcDelete, TypeOK
  <2>2. QED
    BY <2>1 DEF CollectorInv, Behind
<1>7. ASSUME GcDone \/ GcFail PROVE CollectorInv'
  BY <1>7 DEF GcDone, GcFail, NoGc, CollectorInv
<1>8. ASSUME UNCHANGED <<manifest, used, rows, gc>> PROVE CollectorInv'
  BY <1>8 DEF CollectorInv, Behind
<1>9. QED
  BY <1>1, <1>2, <1>3, <1>4, <1>5, <1>6, <1>7, <1>8
  DEF Next, ClientStep, GcStep, Negotiate, Upload, Head, Put, LatePut, GiveUp, vars

(* However commits and prunes fall between the pages, and whatever the     *)
(* page size, the collector knows every chunk of every old version.        *)
THEOREM CollectorKnowsTheOld == Spec => []ReferencesAreComplete
<1>1. Init => CollectorInv
  BY DEF Init, NoGc, CollectorInv
<1>2. TypeOK /\ CollectorInv /\ [Next]_vars => CollectorInv'
  BY CollectorKept
<1>3. CollectorInv => ReferencesAreComplete
  BY DEF CollectorInv, Behind, ReferencesAreComplete
<1>4. QED
  BY <1>1, <1>2, <1>3, TypeCorrect, PTL DEF Spec

-----------------------------------------------------------------------------
(* Nothing is lost                                                         *)

(* Each chunk a version names, and each one a client need not put any      *)
(* more, is in the bucket or known to be unsent.  An orphan has a copy     *)
(* behind at most as many prefixes as the listed key, which deleting the   *)
(* longer key cannot reach.                                                *)
Settled(c) == client[c].chunks \ (client[c].todo \cup client[c].missing)
ManifestsAccounted == \A v \in used : \A h \in manifest[v] : Accounted(h)
SettledAccounted == \A c \in Clients : \A h \in Settled(c) : Accounted(h)
OrphansStored == \A k \in gc.orphans : \E j \in objects : j[2] = k[2] /\ j[1] <= k[1]
AccountedInv == ManifestsAccounted /\ SettledAccounted /\ OrphansStored

LEMMA PrevChunksAccounted ==
  ASSUME TypeOK, ManifestsAccounted, NEW h \in PrevChunks
  PROVE  Accounted(h)
  BY DEF TypeOK, ManifestsAccounted, PrevChunks

(* A deletion leaves the chunk of the orphan stored.                       *)
LEMMA DeletionSpares ==
  ASSUME TypeOK, OrphansStored, NEW k \in gc.orphans, GcDelete(k)
  PROVE  /\ \A h : Stored(h) => Stored(h)'
         /\ OrphansStored'
<1>1. PICK j \in objects : j[2] = k[2] /\ j[1] <= k[1]
  BY DEF OrphansStored
<1>2. /\ objects' = objects \ {S3Key(k)}
      /\ gc'.orphans \subseteq gc.orphans
  BY DEF GcDelete, TypeOK
<1>3. /\ S3Key(k)[1] = k[1] + 1 /\ S3Key(k)[2] = k[2]
      /\ k[1] \in Nat /\ j[1] \in Nat
  BY DEF S3Key, TypeOK, Keys
<1>4. j \in objects'
  BY <1>1, <1>2, <1>3
<1>5. ASSUME NEW h, Stored(h) PROVE Stored(h)'
  BY <1>1, <1>2, <1>3, <1>4, <1>5 DEF Stored
<1>6. ASSUME NEW l \in gc'.orphans PROVE \E i \in objects' : i[2] = l[2] /\ i[1] <= l[1]
  <2>1. PICK i \in objects : i[2] = l[2] /\ i[1] <= l[1]
    BY <1>2 DEF OrphansStored
  <2>2. CASE i # S3Key(k)
    BY <1>2, <2>1, <2>2
  <2>3. CASE i = S3Key(k)
    <3>1. l[1] \in Nat
      BY <1>2 DEF TypeOK, Keys
    <3>2. QED
      BY <1>1, <1>3, <1>4, <2>1, <2>3, <3>1
  <2>4. QED
    BY <2>2, <2>3
<1>7. QED
  BY <1>5, <1>6 DEF OrphansStored

(* What is stored stays stored, and a bare key stays for good.             *)
LEMMA StoredStays ==
  ASSUME TypeOK, OrphansStored, [Next]_vars
  PROVE  /\ \A h : Stored(h) => Stored(h)'
         /\ \A h : Hash(h) \in objects => Hash(h) \in objects'
<1>1. ASSUME NEW k \in gc.orphans, GcDelete(k)
      PROVE  /\ \A h : Stored(h) => Stored(h)'
             /\ \A h : Hash(h) \in objects => Hash(h) \in objects'
  <2>1. \A h : Stored(h) => Stored(h)'
    BY <1>1, DeletionSpares
  <2>2. objects' = objects \ {S3Key(k)} /\ k[1] \in Nat
    BY <1>1 DEF GcDelete, TypeOK, Keys
  <2>3. \A h : Hash(h) # S3Key(k)
    BY <2>2 DEF Hash, S3Key
  <2>4. QED
    BY <2>1, <2>2, <2>3
<1>2. ASSUME objects \subseteq objects'
      PROVE  /\ \A h : Stored(h) => Stored(h)'
             /\ \A h : Hash(h) \in objects => Hash(h) \in objects'
  BY <1>2 DEF Stored
<1>3. (\E k \in gc.orphans : GcDelete(k)) \/ objects \subseteq objects'
  BY DEF Next, ClientStep, GcStep, Negotiate, Upload, Head, Put, LatePut, Commit, GiveUp, Prune,
         GcStart, GcPage, WithHashes, GcReport, HasHash, GcDone, GcFail, vars
<1>4. QED
  BY <1>1, <1>2, <1>3

(* Nor does anything drop out of what is stored or known to be unsent.     *)
LEMMA AccountedStays ==
  ASSUME TypeOK, OrphansStored, [Next]_vars, NEW h, Accounted(h)
  PROVE  Accounted(h)'
<1>1. Stored(h) => Stored(h)'
  BY StoredStays
<1>2. ASSUME NEW c \in Clients, NEW g \in Hashes, Put(c, g), h \in unsent
      PROVE  h \in unsent' \/ Stored(h)'
  <2>1. StoreKey(client[c].route, g) \in objects' /\ unsent' = unsent \ {g}
    BY <1>2 DEF Put
  <2>2. StoreKey(client[c].route, g)[2] = g
    BY DEF StoreKey, S3Key, Hash
  <2>3. Stored(g)'
    BY <2>1, <2>2 DEF Stored
  <2>4. QED
    BY <1>2, <2>1, <2>3
<1>3. ASSUME NEW g \in Hashes, LatePut(g), h \in unsent
      PROVE  h \in unsent' \/ Stored(h)'
  <2>1. S3Key(Hash(g)) \in objects' /\ unsent' = unsent \ {g}
    BY <1>3 DEF LatePut
  <2>2. S3Key(Hash(g))[2] = g
    BY DEF S3Key, Hash
  <2>3. Stored(g)'
    BY <2>1, <2>2 DEF Stored
  <2>4. QED
    BY <1>3, <2>1, <2>3
<1>4. ASSUME unsent \subseteq unsent', h \in unsent PROVE h \in unsent'
  BY <1>4
<1>5. h \in unsent => h \in unsent' \/ Stored(h)'
  BY <1>2, <1>3, <1>4
  DEF Next, ClientStep, GcStep, Negotiate, Upload, Head, Commit, GiveUp, Prune,
      GcStart, GcPage, WithHashes, GcReport, HasHash, GcDelete, GcDone, GcFail, vars
<1>6. QED
  BY <1>1, <1>5 DEF Accounted

LEMMA AccountedKept ==
  ASSUME TypeOK, AccountedInv, [Next]_vars
  PROVE  AccountedInv'
<1>0. \A h : Accounted(h) => Accounted(h)'
  BY AccountedStays DEF AccountedInv
<1>1. ASSUME NEW c \in Clients, NEW wanted \in SUBSET Hashes, Negotiate(c, wanted)
      PROVE  AccountedInv'
  <2>1. /\ client'[c].chunks = wanted /\ client'[c].todo = wanted \ PrevChunks
        /\ \A d \in Clients \ {c} : client'[d] = client[d]
        /\ objects' = objects /\ used' = used /\ manifest' = manifest /\ gc' = gc
    BY <1>1 DEF Negotiate, TypeOK
  <2>2. \A h \in Settled(c)' : Accounted(h)
    BY <2>1, PrevChunksAccounted DEF Settled, AccountedInv
  <2>3. \A d \in Clients \ {c} : Settled(d)' = Settled(d)
    BY <2>1 DEF Settled
  <2>4. QED
    BY <1>0, <2>1, <2>2, <2>3
    DEF AccountedInv, ManifestsAccounted, SettledAccounted, OrphansStored
<1>2. ASSUME NEW c \in Clients, NEW copied \in SUBSET Hashes, NEW literals \in SUBSET Hashes,
             Upload(c, copied, literals)
      PROVE  AccountedInv'
  <2>1. /\ client'[c].chunks = copied \cup literals /\ client'[c].todo = literals
        /\ copied \subseteq PrevChunks
        /\ \A d \in Clients \ {c} : client'[d] = client[d]
        /\ objects' = objects /\ used' = used /\ manifest' = manifest /\ gc' = gc
    BY <1>2 DEF Upload, TypeOK
  <2>2. \A h \in Settled(c)' : Accounted(h)
    BY <2>1, PrevChunksAccounted DEF Settled, AccountedInv
  <2>3. \A d \in Clients \ {c} : Settled(d)' = Settled(d)
    BY <2>1 DEF Settled
  <2>4. QED
    BY <1>0, <2>1, <2>2, <2>3
    DEF AccountedInv, ManifestsAccounted, SettledAccounted, OrphansStored
<1>3. ASSUME NEW c \in Clients, NEW h \in Hashes, Head(c, h) PROVE AccountedInv'
  <2>1. /\ client'[c] = Answered(client[c], h)
        /\ \A d \in Clients \ {c} : client'[d] = client[d]
        /\ objects' = objects /\ used' = used /\ manifest' = manifest /\ gc' = gc
    BY <1>3 DEF Head, TypeOK
  <2>2. ASSUME NEW g \in Settled(c)' PROVE Accounted(g)
    <3>1. /\ client'[c].chunks = client[c].chunks
          /\ client'[c].todo = client[c].todo \ {h}
          /\ client'[c].missing = IF StoreKey(client[c].route, h) \in objects
                                    THEN client[c].missing ELSE client[c].missing \cup {h}
      BY <2>1 DEF Answered, TypeOK
    <3>2. CASE g = h
      <4>1. StoreKey(client[c].route, h) \in objects
        BY <3>1, <3>2 DEF Settled
      <4>2. StoreKey(client[c].route, h)[2] = h
        BY DEF StoreKey, S3Key, Hash
      <4>3. QED
        BY <3>2, <4>1, <4>2 DEF Stored, Accounted
    <3>3. CASE g # h
      BY <3>1, <3>3 DEF Settled, AccountedInv, SettledAccounted
    <3>4. QED
      BY <3>2, <3>3
  <2>3. \A d \in Clients \ {c} : Settled(d)' = Settled(d)
    BY <2>1 DEF Settled
  <2>4. QED
    BY <1>0, <2>1, <2>2, <2>3
    DEF AccountedInv, ManifestsAccounted, SettledAccounted, OrphansStored
<1>4. ASSUME NEW c \in Clients, NEW h \in Hashes, Put(c, h) PROVE AccountedInv'
  <2>1. /\ objects' = objects \cup {StoreKey(client[c].route, h)}
        /\ client'[c].chunks = client[c].chunks /\ client'[c].todo = client[c].todo
        /\ client'[c].missing = client[c].missing \ {h}
        /\ \A d \in Clients \ {c} : client'[d] = client[d]
        /\ used' = used /\ manifest' = manifest /\ gc' = gc
    BY <1>4 DEF Put, TypeOK
  <2>2. StoreKey(client[c].route, h)[2] = h
    BY DEF StoreKey, S3Key, Hash
  <2>3. Accounted(h)'
    BY <2>1, <2>2 DEF Stored, Accounted
  <2>4. \A g \in Settled(c)' : g = h \/ g \in Settled(c)
    BY <2>1 DEF Settled
  <2>5. \A d \in Clients \ {c} : Settled(d)' = Settled(d)
    BY <2>1 DEF Settled
  <2>6. OrphansStored'
    BY <2>1 DEF AccountedInv, OrphansStored
  <2>7. QED
    BY <1>0, <2>1, <2>3, <2>4, <2>5, <2>6
    DEF AccountedInv, ManifestsAccounted, SettledAccounted
<1>5. ASSUME NEW c \in Clients, NEW v \in Ids, Commit(c, v) PROVE AccountedInv'
  <2>1. /\ manifest' = [manifest EXCEPT ![v] = client[c].chunks]
        /\ client' = [client EXCEPT ![c] = NoRequest]
        /\ used' = used \cup {v} /\ objects' = objects /\ gc' = gc
        /\ unsent' = unsent \cup {h \in client[c].missing : ~Stored(h)}
        /\ client[c].todo = {}
    BY <1>5 DEF Commit
  <2>2. ASSUME NEW h \in client[c].chunks PROVE Accounted(h)'
    <3>1. CASE h \in client[c].missing
      BY <2>1, <3>1 DEF Accounted, Stored
    <3>2. CASE h \notin client[c].missing
      BY <1>0, <2>1, <3>2 DEF AccountedInv, SettledAccounted, Settled
    <3>3. QED
      BY <3>1, <3>2
  <2>3. ManifestsAccounted'
    <3>1. ASSUME NEW w \in used', NEW h \in manifest'[w] PROVE Accounted(h)'
      <4>1. CASE w = v
        BY <1>5, <2>1, <2>2, <4>1 DEF TypeOK
      <4>2. CASE w # v
        BY <1>0, <2>1, <4>2 DEF AccountedInv, ManifestsAccounted, TypeOK
      <4>3. QED
        BY <4>1, <4>2
    <3>2. QED
      BY <3>1 DEF ManifestsAccounted
  <2>4. \A d \in Clients : Settled(d)' \subseteq Settled(d)
    BY <2>1 DEF Settled, NoRequest, TypeOK
  <2>5. SettledAccounted'
    BY <1>0, <2>4 DEF AccountedInv, SettledAccounted
  <2>6. QED
    BY <2>1, <2>3, <2>5 DEF AccountedInv, OrphansStored
<1>6. ASSUME NEW c \in Clients, GiveUp(c) PROVE AccountedInv'
  <2>1. /\ client' = [client EXCEPT ![c] = NoRequest]
        /\ used' = used /\ manifest' = manifest /\ objects' = objects /\ gc' = gc
    BY <1>6 DEF GiveUp
  <2>2. \A d \in Clients : Settled(d)' \subseteq Settled(d)
    BY <2>1 DEF Settled, NoRequest, TypeOK
  <2>3. QED
    BY <1>0, <2>1, <2>2 DEF AccountedInv, ManifestsAccounted, SettledAccounted, OrphansStored
<1>7. ASSUME NEW report \in SUBSET objects, GcReport(report) PROVE AccountedInv'
  <2>1. /\ gc'.orphans \subseteq objects
        /\ used' = used /\ manifest' = manifest /\ objects' = objects /\ client' = client
    BY <1>7 DEF GcReport, HasHash, TypeOK
  <2>2. OrphansStored'
    BY <2>1 DEF OrphansStored, TypeOK, Keys
  <2>3. QED
    BY <1>0, <2>1, <2>2 DEF AccountedInv, ManifestsAccounted, SettledAccounted, Settled
<1>8. ASSUME NEW k \in gc.orphans, GcDelete(k) PROVE AccountedInv'
  <2>1. manifest' = manifest /\ used' = used /\ client' = client
    BY <1>8 DEF GcDelete
  <2>2. OrphansStored'
    BY <1>8, DeletionSpares DEF AccountedInv
  <2>3. QED
    BY <1>0, <2>1, <2>2 DEF AccountedInv, ManifestsAccounted, SettledAccounted, Settled
<1>9. ASSUME UNCHANGED <<manifest, used, client>>, objects \subseteq objects',
             gc'.orphans \subseteq gc.orphans
      PROVE  AccountedInv'
  BY <1>0, <1>9
  DEF AccountedInv, ManifestsAccounted, SettledAccounted, Settled, OrphansStored
<1>10. ASSUME GcStart \/ GcPage \/ GcDone \/ GcFail PROVE gc'.orphans \subseteq gc.orphans
  <2>1. CASE GcStart
    BY <2>1 DEF GcStart, NoGc
  <2>2. CASE GcPage
    <3>1. gc'.orphans = gc.orphans
      BY <2>2 DEF GcPage, WithHashes, TypeOK
    <3>2. QED
      BY <3>1
  <2>3. CASE GcDone \/ GcFail
    BY <2>3 DEF GcDone, GcFail, NoGc
  <2>4. QED
    BY <1>10, <2>1, <2>2, <2>3
<1>11. QED
  BY <1>1, <1>2, <1>3, <1>4, <1>5, <1>6, <1>7, <1>8, <1>9, <1>10
  DEF Next, ClientStep, GcStep, LatePut, Prune, GcStart, GcPage, WithHashes, GcDone, GcFail, vars

(* No collection makes a chunk that a version names disappear from the     *)
(* bucket, even one that was found or put while it was running: only what  *)
(* a version was committed without, and nobody has sent since, is absent.  *)
THEOREM NothingIsLost == Spec => []NoChunkIsLost
<1>1. Init => AccountedInv
  BY DEF Init, NoGc, NoRequest, AccountedInv, ManifestsAccounted, SettledAccounted, Settled,
         OrphansStored
<1>2. TypeOK /\ AccountedInv /\ [Next]_vars => AccountedInv'
  BY AccountedKept
<1>3. TypeOK /\ AccountedInv => NoChunkIsLost
  BY DEF AccountedInv, ManifestsAccounted, TypeOK, NoChunkIsLost
<1>4. QED
  BY <1>1, <1>2, <1>3, TypeCorrect, PTL DEF Spec

-----------------------------------------------------------------------------
(* Progress of the collector                                               *)

(* Every page that is not the last one moves the cursor up: the measure    *)
(* that ends a collection.                                                 *)
THEOREM PagesAdvance == Spec => CursorAdvances
<1>1. ASSUME TypeOK, [Next]_vars, gc' # gc, gc.at = "page", gc'.at = "page"
      PROVE  gc'.lastId > gc.lastId
  <2>1. GcPage
    BY <1>1 DEF Next, ClientStep, GcStep, Negotiate, Upload, Head, Put, LatePut, Commit, GiveUp, Prune,
                GcStart, GcReport, HasHash, GcDelete, GcDone, GcFail, NoGc, vars
  <2>2. ~ LastPage(Page) /\ gc'.lastId = IF Page = {} THEN gc.lastId ELSE Max(Page)
    BY <1>1, <2>1 DEF GcPage, WithHashes, TypeOK
  <2>3. Page # {}
    BY <2>2, FS_EmptySet, SizesAssumption DEF LastPage
  <2>4. Page \in SUBSET Ids
    BY <1>1 DEF Page, After, TypeOK
  <2>5. Max(Page) \in After
    BY <2>3, <2>4, MaxOfIds DEF Page
  <2>6. QED
    BY <2>2, <2>3, <2>5 DEF After
<1>2. TypeOK /\ [Next]_vars => [gc.at = "page" /\ gc'.at = "page" => gc'.lastId > gc.lastId]_gc
  BY <1>1
<1>3. QED
  BY <1>2, TypeCorrect, PTL DEF Spec, CursorAdvances

-----------------------------------------------------------------------------
(* Downloads                                                               *)

(* A step with readers and temporary objects is a step of the store, or    *)
(* leaves it alone.                                                        *)
LEMMA StepIsStoreStep == [DNext]_allVars => [Next]_vars
<1>1. ASSUME NEW c \in Clients, Store(c) PROVE [Next]_vars
  <2>1. ASSUME NEW h \in Hashes, NEW t \in Temps, TempPut(c, h, t) PROVE vars' = vars
    BY <2>1 DEF TempPut
  <2>2. ASSUME TempDelete(c) PROVE vars' = vars
    BY <2>2 DEF TempDelete
  <2>3. QED
    BY <1>1, <2>1, <2>2
    DEF Store, HeadLiteral, CopyOrPut, CommitUpload, Abandon, Next, ClientStep
<1>2. ASSUME Collect PROVE [Next]_vars
  BY <1>2 DEF Collect, GcReportAll, GcDoneAll, Next, GcStep
<1>3. QED
  BY <1>1, <1>2 DEF DNext, GcFailAll, Next, allVars

(* Downloads implements the store: its safety theorems carry over.         *)
THEOREM ImplementsStore == DSpec => Init /\ [][Next]_vars
<1>1. DInit => Init
  BY DEF DInit
<1>2. QED
  BY <1>1, StepIsStoreStep, PTL DEF DSpec

LEMMA StoreInvariants == DSpec => [](TypeOK /\ AccountedInv)
<1>1. Init => TypeOK /\ AccountedInv
  BY TypeInit
  DEF Init, NoGc, NoRequest, AccountedInv, ManifestsAccounted, SettledAccounted, Settled,
      OrphansStored
<1>2. TypeOK /\ AccountedInv /\ [Next]_vars => (TypeOK /\ AccountedInv)'
  BY TypeNext, AccountedKept
<1>3. QED
  BY <1>1, <1>2, ImplementsStore, PTL

-----------------------------------------------------------------------------
(* Readers                                                                 *)

(* Objects have a bare or a sharded key; a chunk a reader waits for is in  *)
(* the bucket under one of them, or known to be unsent.                    *)
OneOrNoPrefix == objects \subseteq {0, 1} \X Hashes
ReaderType == reader \in [Readers -> [at : {"idle", "reading", "whole", "broken",
                                            "notFound"},
                                      version : Ids \cup {0}, todo : SUBSET Hashes,
                                      lost : SUBSET Hashes]]
ReadersServed == \A r \in Readers : \A h \in reader[r].todo : Accounted(h)
ReaderInv == OneOrNoPrefix /\ ReaderType /\ ReadersServed

LEMMA PrefixesKept ==
  ASSUME TypeOK, OneOrNoPrefix, [Next]_vars
  PROVE  OneOrNoPrefix'
<1>1. ASSUME NEW c \in Clients, NEW h \in Hashes, Put(c, h) PROVE OneOrNoPrefix'
  <2>1. objects' = objects \cup {StoreKey(client[c].route, h)}
    BY <1>1 DEF Put
  <2>2. StoreKey(client[c].route, h) \in {0, 1} \X Hashes
    BY DEF StoreKey, S3Key, Hash
  <2>3. QED
    BY <2>1, <2>2 DEF OneOrNoPrefix
<1>2. ASSUME NEW k \in gc.orphans, GcDelete(k) PROVE OneOrNoPrefix'
  BY <1>2 DEF GcDelete, OneOrNoPrefix
<1>3. ASSUME objects' = objects PROVE OneOrNoPrefix'
  BY <1>3 DEF OneOrNoPrefix
<1>4. ASSUME NEW h \in Hashes, LatePut(h) PROVE OneOrNoPrefix'
  <2>1. S3Key(Hash(h)) \in {0, 1} \X Hashes
    BY DEF S3Key, Hash
  <2>2. QED
    BY <1>4, <2>1 DEF LatePut, OneOrNoPrefix
<1>5. QED
  BY <1>1, <1>2, <1>3, <1>4
  DEF Next, ClientStep, GcStep, Negotiate, Upload, Head, Commit, GiveUp, Prune,
      GcStart, GcPage, WithHashes, GcReport, HasHash, GcDone, GcFail, vars

LEMMA ReaderKept ==
  ASSUME TypeOK, AccountedInv, ReaderInv, [DNext]_allVars
  PROVE  ReaderInv'
<1>1. [Next]_vars
  BY StepIsStoreStep
<1>2. \A h : Accounted(h) => Accounted(h)'
  BY <1>1, AccountedStays DEF AccountedInv
<1>3. OneOrNoPrefix'
  BY <1>1, PrefixesKept DEF ReaderInv
<1>4. ASSUME NEW r \in Readers, NEW v \in Ids, SelectVersion(r, v)
      PROVE  ReaderType' /\ ReadersServed'
  <2>1. /\ reader' = [reader EXCEPT ![r] = [at |-> "reading", version |-> v,
                                            todo |-> manifest[v], lost |-> {}]]
        /\ v \in used
    BY <1>4 DEF SelectVersion, TypeOK
  <2>2. \A h \in manifest[v] : Accounted(h)
    BY <2>1 DEF AccountedInv, ManifestsAccounted
  <2>3. manifest[v] \in SUBSET Hashes
    BY DEF TypeOK
  <2>4. ReaderType'
    BY <2>1, <2>3 DEF ReaderInv, ReaderType
  <2>5. ReadersServed'
    BY <1>2, <2>1, <2>2 DEF ReaderInv, ReaderType, ReadersServed
  <2>6. QED
    BY <2>4, <2>5
<1>5. ASSUME NEW r \in Readers, NEW h \in Hashes, FetchBlock(r, h)
      PROVE  ReaderType' /\ ReadersServed'
  BY <1>2, <1>5 DEF FetchBlock, ReaderInv, ReaderType, ReadersServed
<1>6. ASSUME NEW r \in Readers, CloseStream(r)
      PROVE  ReaderType' /\ ReadersServed'
  BY <1>2, <1>6 DEF CloseStream, ReaderInv, ReaderType, ReadersServed
<1>7. ASSUME NEW r \in Readers, NEW v \in Ids, VersionGone(r, v)
      PROVE  ReaderType' /\ ReadersServed'
  BY <1>2, <1>7 DEF VersionGone, NotReading, ReaderInv, ReaderType, ReadersServed
<1>8. ASSUME reader' = reader PROVE ReaderType' /\ ReadersServed'
  BY <1>2, <1>8 DEF ReaderInv, ReaderType, ReadersServed
<1>9. ReaderType' /\ ReadersServed'
  BY <1>4, <1>5, <1>6, <1>7, <1>8 DEF DNext, Read, Click, readVars, allVars
<1>10. QED
  BY <1>3, <1>9 DEF ReaderInv

(* The only step that breaks a download is a fetch that finds no object    *)
(* under the sharded key; the chunk is accounted for, so it is under the   *)
(* bare key or unsent.                                                     *)
LEMMA BreakHasCause ==
  ASSUME ReaderInv, [DNext]_allVars, NEW r \in Readers, Breaks(r), NEW h \in reader'[r].lost
  PROVE  Hash(h) \in objects \/ h \in unsent
<1>1. PICK g \in Hashes : FetchBlock(r, g)
  <2>1. reader' # reader
    BY DEF Breaks
  <2>2. PICK s \in Readers : Read(s)
    BY <2>1 DEF DNext, Store, HeadLiteral, CopyOrPut, TempPut, TempDelete, CommitUpload, Abandon,
                Collect, readVars, allVars
  <2>3. r = s
    BY <2>2 DEF Breaks, Read, Click, SelectVersion, VersionGone, FetchBlock, CloseStream,
                ReaderInv, ReaderType
  <2>4. QED
    BY <2>2, <2>3 DEF Breaks, Read, Click, SelectVersion, VersionGone, NotReading, CloseStream,
                      ReaderInv, ReaderType
<1>2. /\ g \in reader[r].todo /\ S3Key(Hash(g)) \notin objects
      /\ reader' = [reader EXCEPT ![r].at = "broken", ![r].lost = {g}]
  BY <1>1 DEF Breaks, FetchBlock, ReaderInv, ReaderType
<1>3. h = g
  BY <1>2 DEF ReaderInv, ReaderType
<1>4. CASE Stored(g)
  <2>1. PICK k \in objects : k[2] = g
    BY <1>4 DEF Stored
  <2>2. k = <<k[1], g>> /\ k[1] \in {0, 1}
    BY <2>1 DEF ReaderInv, OneOrNoPrefix
  <2>3. Hash(g) \in objects
    BY <1>2, <2>2 DEF Hash, S3Key
  <2>4. QED
    BY <1>3, <2>3
<1>5. QED
  BY <1>2, <1>3, <1>4 DEF ReaderInv, ReadersServed, Accounted

(* A download breaks only over a chunk that was stored under its bare hash *)
(* or that a version was committed without and nobody has sent since,      *)
(* whatever is stored, pruned and collected while it reads.                *)
THEOREM BreaksAreExplained == DSpec => BreaksHaveCause
<1>1. DInit => ReaderInv
  BY DEF DInit, Init, NotReading, ReaderInv, OneOrNoPrefix, ReaderType, ReadersServed
<1>2. TypeOK /\ AccountedInv /\ ReaderInv /\ [DNext]_allVars => ReaderInv'
  BY ReaderKept
<1>3. ReaderInv /\ [DNext]_allVars
        => [\A r \in Readers : Breaks(r) =>
              \A h \in reader'[r].lost : Hash(h) \in objects \/ h \in unsent]_reader
  BY BreakHasCause
<1>4. QED
  BY <1>1, <1>2, <1>3, StoreInvariants, PTL DEF DSpec, BreaksHaveCause

-----------------------------------------------------------------------------
(* Temporary objects                                                       *)

(* No two requests share a temporary object, none is ever doomed, and a    *)
(* request that has one finds it in the bucket, copied already or not.     *)
SourceType == source \in [Clients -> [temp : SUBSET Temps, hash : SUBSET Hashes,
                                      done : BOOLEAN]]
SourcesThere == \A c \in Clients : source[c].temp \subseteq temps
SourcesApart ==
  \A c, d \in Clients : c # d => source[c].temp \cap source[d].temp = {}
TempInv == /\ doomed = {} /\ temps \subseteq spent
           /\ SourceType /\ SourcesThere /\ SourcesApart

(* Setting the done flag changes nothing the invariant speaks of.          *)
LEMMA FlagIsFree ==
  ASSUME TempInv, NEW c \in Clients, NEW b \in BOOLEAN,
         source' = [source EXCEPT ![c].done = b], UNCHANGED <<temps, spent, doomed>>
  PROVE  TempInv'
<1>1. \A d \in Clients : source'[d].temp = source[d].temp
  BY DEF TempInv, SourceType
<1>2. SourceType'
  BY DEF TempInv, SourceType
<1>3. QED
  BY <1>1, <1>2 DEF TempInv, SourcesThere, SourcesApart

LEMMA TempKept ==
  ASSUME TempInv, [DNext]_allVars
  PROVE  TempInv'
<1> USE DEF TempInv, SourceType, SourcesThere, SourcesApart
<1>1. ASSUME NEW c \in Clients, NEW h \in Hashes, NEW t \in Temps, TempPut(c, h, t)
      PROVE  TempInv'
  <2>1. /\ source' = [source EXCEPT ![c] = [temp |-> {t}, hash |-> {h}, done |-> FALSE]]
        /\ temps' = temps \cup {t} /\ spent' = spent \cup {t} /\ doomed' = doomed
        /\ t \notin spent
    BY <1>1 DEF TempPut
  <2>2. \A d \in Clients \ {c} : t \notin source[d].temp
    BY <2>1
  <2>3. QED
    BY <2>1, <2>2
<1>2. ASSUME NEW c \in Clients, TempDelete(c) PROVE TempInv'
  <2>1. /\ temps' = temps \ source[c].temp
        /\ source' = [source EXCEPT ![c] = NoSource]
        /\ spent' = spent /\ doomed' = doomed
    BY <1>2 DEF TempDelete
  <2>2. NoSource \in [temp : SUBSET Temps, hash : SUBSET Hashes, done : BOOLEAN]
        /\ NoSource.temp = {}
    BY DEF NoSource
  <2>3. \A d \in Clients \ {c} : source[d].temp \cap source[c].temp = {}
    OBVIOUS
  <2>4. QED
    BY <2>1, <2>2, <2>3
<1>3. ASSUME NEW c \in Clients, Abandon(c) PROVE TempInv'
  BY <1>3 DEF Abandon, NoSource
<1>4. ASSUME NEW c \in Clients, NEW h \in Hashes, HeadLiteral(c, h) PROVE TempInv'
  <2> DEFINE b == client[c].route = "upload" /\ StoreKey("upload", h) \in objects
  <2>1. b \in BOOLEAN /\ source' = [source EXCEPT ![c].done = b]
    BY <1>4, Zenon DEF HeadLiteral
  <2>2. UNCHANGED <<temps, spent, doomed>>
    BY <1>4 DEF HeadLiteral
  <2> HIDE DEF b
  <2>3. QED
    BY <2>1, <2>2, FlagIsFree
<1>5. ASSUME NEW c \in Clients, NEW h \in Hashes, CopyOrPut(c, h) PROVE TempInv'
  <2> DEFINE b == client[c].route = "upload"
  <2>1. b \in BOOLEAN /\ source' = [source EXCEPT ![c].done = b]
    BY <1>5, Zenon DEF CopyOrPut
  <2>2. UNCHANGED <<temps, spent, doomed>>
    BY <1>5 DEF CopyOrPut
  <2> HIDE DEF b
  <2>3. QED
    BY <2>1, <2>2, FlagIsFree
<1>6. ASSUME GcDoneAll \/ GcFailAll PROVE TempInv'
  BY <1>6 DEF GcDoneAll, GcFailAll
<1>7. ASSUME NEW report, NEW listed, GcReportAll(report, listed) PROVE TempInv'
  BY <1>7 DEF GcReportAll, NotSkipped
<1>8. ASSUME UNCHANGED tempVars PROVE TempInv'
  BY <1>8 DEF tempVars
<1>9. ASSUME NEW c \in Clients, Store(c) PROVE TempInv'
  BY <1>1, <1>2, <1>3, <1>4, <1>5, <1>8, <1>9 DEF Store, CommitUpload
<1>10. ASSUME Collect PROVE TempInv'
  BY <1>6, <1>7, <1>8, <1>10 DEF Collect
<1>11. QED
  BY <1>6, <1>8, <1>9, <1>10 DEF DNext, allVars

(* The source of a copy is in the bucket until the copy is made, for any   *)
(* number of uploads and whatever the inventory report lists.              *)
THEOREM SourcesAreKept == DSpec => []UploadsKeepTheirSource
<1>1. DInit => TempInv
  BY DEF DInit, NoSource, TempInv, SourceType, SourcesThere, SourcesApart
<1>2. TempInv /\ [DNext]_allVars => TempInv'
  BY TempKept
<1>3. TempInv => UploadsKeepTheirSource
  BY DEF TempInv, SourcesThere, UploadsKeepTheirSource
<1>4. QED
  BY <1>1, <1>2, <1>3, PTL DEF DSpec
=============================================================================
