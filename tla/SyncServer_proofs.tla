-------------------------- MODULE SyncServer_proofs --------------------------
(***************************************************************************)
(* SyncServer for any number of requests, files, ids and faults: the type  *)
(* invariant, the inductive invariant, the safety invariants that follow   *)
(* from it, and the implementation of VersionHistory.                      *)
(***************************************************************************)
EXTENDS SyncServer, FiniteSetTheorems, WellFoundedInduction, TLAPS

(* The versions of a file form one chain of numbers 1, 2, 3, ... built     *)
(* each on the one before, the pointer is at its end, and the end is a row.*)
CurrentIsRow ==
  \A f \in Files : curr[f] # None => curr[f] \in rows /\ version[curr[f]].file = f
NumberedUpToCurrent ==
  \A v \in Issued : /\ curr[version[v].file] # None
                    /\ version[v].no <= version[curr[version[v].file]].no
BuiltOnPredecessor ==
  \A v \in Issued :
    \/ version[v].base = None /\ version[v].no = 1
    \/ /\ version[v].base \in Issued
       /\ version[version[v].base].file = version[v].file
       /\ version[v].no = version[version[v].base].no + 1
NumbersUnique ==
  \A v, w \in Issued :
    version[v].file = version[w].file /\ version[v].no = version[w].no => v = w

(* Whatever is not current any more, the missing row included, has been    *)
(* built upon.                                                             *)
BuiltOn(f, b) == \E v \in Issued : version[v].file = f /\ version[v].base = b
OnlyCurrentIsFree ==
  /\ \A f \in Files : curr[f] # None => BuiltOn(f, None)
  /\ \A v \in Issued : v # curr[version[v].file] => BuiltOn(version[v].file, v)

HistoryInv ==
  /\ rows \subseteq Issued
  /\ CurrentIsRow
  /\ NumberedUpToCurrent
  /\ BuiltOnPredecessor
  /\ NumbersUnique
  /\ OnlyCurrentIsFree

(* A snapshot is no version yet, or a version of that file.                *)
IsSnapshot(f, s) == s = None \/ (s \in Issued /\ version[s].file = f)

TokenInv ==
  /\ live \subseteq {n \in NegIds : negotiation[n].file # None}
  /\ \A n \in NegIds : negotiation[n].file # None =>
                        IsSnapshot(negotiation[n].file, negotiation[n].snap)
  /\ \A v \in Issued : version[v].neg # None =>
       /\ negotiation[version[v].neg].file = version[v].file
       /\ negotiation[version[v].neg].snap = version[v].base

(* What request r relies on while it waits.                                *)
Relies(r) ==
  /\ req[r].at # "idle" => req[r].file \in Files
  /\ req[r].at \in {"negotiating", "uploading", "committing"} =>
       IsSnapshot(req[r].file, req[r].snap)
  /\ req[r].at = "uploading" => req[r].neg = None
  /\ req[r].at = "committing" =>
       /\ req[r].neg \in NegIds
       /\ negotiation[req[r].neg].file = req[r].file
       /\ negotiation[req[r].neg].snap = req[r].snap
  /\ req[r].at = "prune_delete" =>
       \A d \in req[r].doomed : d \in Issued /\ d # curr[version[d].file]

RequestInv == \A r \in Requests : Relies(r)

IInv == TypeOK /\ HistoryInv /\ TokenInv /\ RequestInv

-----------------------------------------------------------------------------
(* max(version_no) + 1 over the rows that are left is the number after the *)
(* current version's: pruning never makes a number come twice.             *)
LEMMA NextVerIsNextNo ==
  ASSUME TypeOK, HistoryInv, NEW f \in Files
  PROVE  /\ NextVer(f) = (IF curr[f] = None THEN 1 ELSE version[curr[f]].no + 1)
         /\ NextVer(f) \in Nat
<1> DEFINE Nos == {0} \cup {version[v].no : v \in RowsOf(f)}
<1>1. Nos \subseteq Nat
  BY DEF TypeOK, RowsOf, VersionRecords
<1>2. ASSUME NEW m \in Nos, \A n \in Nos : m >= n
      PROVE  Max(Nos) = m
  <2> DEFINE M == Max(Nos)
  <2>1. M \in Nos /\ \A n \in Nos : M >= n
    BY <1>2 DEF Max
  <2> QED BY <1>1, <1>2, <2>1
<1>3. CASE curr[f] = None
  <2>1. RowsOf(f) = {}
    BY <1>3 DEF HistoryInv, NumberedUpToCurrent, RowsOf, Issued
  <2>2. Nos = {0}
    BY <2>1
  <2>3. Max(Nos) = 0
    BY <1>2, <2>2
  <2> QED BY <2>3, <1>3 DEF NextVer
<1>4. CASE curr[f] # None
  <2>1. curr[f] \in RowsOf(f) /\ version[curr[f]].no \in Nat
    BY <1>4 DEF HistoryInv, CurrentIsRow, RowsOf, TypeOK, VersionRecords
  <2>2. version[curr[f]].no \in Nos
    BY <2>1
  <2>3. \A v \in RowsOf(f) : version[v].no <= version[curr[f]].no
    BY DEF HistoryInv, NumberedUpToCurrent, RowsOf, Issued
  <2>4. \A n \in Nos : version[curr[f]].no >= n
    BY <2>1, <2>3, <1>1
  <2>5. Max(Nos) = version[curr[f]].no
    BY <1>2, <2>2, <2>4
  <2> QED BY <2>5, <2>1, <1>4 DEF NextVer
<1> QED BY <1>3, <1>4

(* Every type survives every step.                                         *)
LEMMA TypePreserved ==
  ASSUME TypeOK, HistoryInv, RequestInv, [Next]_vars
  PROVE  TypeOK'
<1> USE NoneAssumption
<1>1. ASSUME NEW r \in Requests, NEW f \in Files, NegotiateRead(r, f) \/ UploadRead(r, f)
      PROVE  TypeOK'
  <2>1. PICK at \in Ats : Snapshot(r, f, at)
    BY <1>1 DEF NegotiateRead, UploadRead, Ats
  <2>2. [at |-> at, file |-> f, snap |-> curr[f], neg |-> None, doomed |-> {}]
          \in RequestRecords
    BY DEF RequestRecords, TypeOK
  <2>3. req' \in [Requests -> RequestRecords]
    BY <2>1, <2>2 DEF Snapshot, TypeOK
  <2> QED BY <2>1, <2>3 DEF Snapshot, TypeOK, db, tokens
<1>2. ASSUME NEW r \in Requests, NEW n \in NegIds, NegotiateStore(r, n)
      PROVE  TypeOK'
  BY <1>2 DEF TypeOK, NegotiateStore, Idle, Ats, RequestRecords, db
<1>3. ASSUME NEW r \in Requests, NEW n \in NegIds, CommitGet(r, n)
      PROVE  TypeOK'
  BY <1>3 DEF TypeOK, CommitGet, Idle, Ats, RequestRecords, db, tokens
<1>4. ASSUME NEW r \in Requests, NEW v \in VersionIds, CommitTx(r, v) \/ UploadTx(r, v)
      PROVE  TypeOK'
  <2> DEFINE f == req[r].file
  <2>1. f \in Files
    BY <1>4 DEF CommitTx, UploadTx, RequestInv, Relies
  <2>2. NextVer(f) \in Nat
    BY <2>1, NextVerIsNextNo
  <2>3. PICK at \in Ats : Publish(r, v, at)
    BY <1>4 DEF CommitTx, UploadTx, Ats
  <2>4. version' \in [VersionIds -> VersionRecords]
    <3>1. [file |-> f, no |-> NextVer(f), base |-> req[r].snap, neg |-> req[r].neg]
            \in VersionRecords
      BY <2>1, <2>2 DEF TypeOK, VersionRecords, RequestRecords
    <3> QED BY <2>3, <3>1 DEF Publish, TypeOK
  <2>5. req' \in [Requests -> RequestRecords]
    BY <2>3 DEF TypeOK, Publish, RequestRecords
  <2> QED BY <2>1, <2>3, <2>4, <2>5 DEF TypeOK, Publish, tokens
<1>5. ASSUME NEW r \in Requests,
             CommitStale(r) \/ UploadStale(r) \/ CommitClear(r) \/ Reject(r) \/ PruneFail(r)
      PROVE  TypeOK'
  BY <1>5, SMTT(60) DEF TypeOK, CommitStale, UploadStale, Stale, CommitClear, Reject, PruneFail,
              Idle, Ats, RequestRecords, db, tokens
<1>6. ASSUME NEW r \in Requests, PruneReadCurrent(r)
      PROVE  TypeOK'
  <2>1. curr[req[r].file] \in VersionIds \cup {None}
    BY <1>6 DEF TypeOK, PruneReadCurrent, RequestInv, Relies
  <2>2. [req[r] EXCEPT !.at = "prune_list", !.snap = curr[req[r].file]] \in RequestRecords
    BY <2>1, ZenonT(60) DEF TypeOK, RequestRecords, Ats
  <2>3. req' \in [Requests -> RequestRecords]
    BY <1>6, <2>2 DEF PruneReadCurrent, TypeOK
  <2> QED BY <1>6, <2>3 DEF TypeOK, PruneReadCurrent, db, tokens
<1>7. ASSUME NEW r \in Requests, PruneNothing(r) \/ PruneDelete(r)
      PROVE  TypeOK'
  BY <1>7 DEF TypeOK, PruneNothing, PruneDelete, Idle, Ats, RequestRecords, db, tokens
<1>10. ASSUME NEW r \in Requests, PruneList(r)
      PROVE  TypeOK'
  <2>1. Doomed(r) \subseteq VersionIds
    BY DEF Doomed, RowsOf, TypeOK
  <2>2. [req[r] EXCEPT !.at = "prune_delete", !.doomed = Doomed(r)] \in RequestRecords
    BY <2>1 DEF TypeOK, RequestRecords, Ats
  <2>3. req' \in [Requests -> RequestRecords]
    BY <1>10, <2>2 DEF PruneList, TypeOK
  <2> QED BY <1>10, <2>3 DEF TypeOK, PruneList, db, tokens
<1>8. ASSUME (\E n \in NegIds : Expire(n)) \/ Restart
      PROVE  TypeOK'
  BY <1>8 DEF TypeOK, Expire, Restart, Idle, Ats, RequestRecords, db
<1>9. CASE UNCHANGED vars
  BY <1>9 DEF TypeOK, vars
<1> QED
  BY <1>1, <1>2, <1>3, <1>4, <1>5, <1>6, <1>7, <1>8, <1>9, <1>10 DEF Next, Step

-----------------------------------------------------------------------------
(* The transaction, the only step that writes version and curr: version v  *)
(* extends the chain of its file and touches no other.                     *)
LEMMA PublishEffect ==
  ASSUME IInv, NEW r \in Requests, NEW v \in VersionIds, NEW at, Publish(r, v, at),
         req[r].file \in Files
  PROVE  LET f == req[r].file IN
         /\ v \notin Issued
         /\ Issued' = Issued \cup {v}
         /\ version'[v] = [file |-> f, no |-> NextVer(f), base |-> curr[f], neg |-> req[r].neg]
         /\ \A w \in Issued : version'[w] = version[w] /\ w # v
         /\ curr'[f] = v
         /\ \A g \in Files : g # f => curr'[g] = curr[g]
         /\ rows' = rows \cup {v}
<1> DEFINE f == req[r].file
<1>1. /\ version' = [version EXCEPT ![v] = [file |-> f, no |-> NextVer(f),
                                           base |-> curr[f], neg |-> req[r].neg]]
      /\ curr' = [curr EXCEPT ![f] = v]
      /\ rows' = rows \cup {v}
      /\ version[v].file = None
  BY DEF Publish, Unmoved, UnissuedVersion
<1>2. v \notin Issued
  BY <1>1 DEF Issued
<1>3. /\ version'[v] = [file |-> f, no |-> NextVer(f), base |-> curr[f], neg |-> req[r].neg]
      /\ \A w \in VersionIds : w # v => version'[w] = version[w]
  BY <1>1 DEF IInv, TypeOK
<1>4. Issued' = Issued \cup {v}
  BY <1>3, NoneAssumption DEF Issued
<1>5. /\ curr'[f] = v
      /\ \A g \in Files : g # f => curr'[g] = curr[g]
  BY <1>1 DEF IInv, TypeOK
<1> QED BY <1>1, <1>2, <1>3, <1>4, <1>5 DEF Issued

LEMMA HistoryAfterPublish ==
  ASSUME IInv, NEW r \in Requests, NEW v \in VersionIds, NEW at, Publish(r, v, at),
         req[r].file \in Files
  PROVE  HistoryInv'
<1> DEFINE f == req[r].file
           c == curr[f]
<1>1. /\ v \notin Issued
      /\ Issued' = Issued \cup {v}
      /\ version'[v] = [file |-> f, no |-> NextVer(f), base |-> c, neg |-> req[r].neg]
      /\ \A w \in Issued : version'[w] = version[w] /\ w # v
      /\ curr'[f] = v
      /\ \A g \in Files : g # f => curr'[g] = curr[g]
      /\ rows' = rows \cup {v}
  BY PublishEffect
<1>2. /\ version'[v].file = f
      /\ version'[v].no = NextVer(f)
      /\ version'[v].base = c
  BY <1>1
<1>3. /\ NextVer(f) = (IF c = None THEN 1 ELSE version[c].no + 1)
      /\ NextVer(f) \in Nat
  BY NextVerIsNextNo DEF IInv
<1>4. \A w \in Issued : version[w].file \in Files /\ version[w].no \in Nat
  BY DEF IInv, TypeOK, VersionRecords, Issued
<1>5. c # None => c \in Issued /\ version[c].file = f
  BY DEF IInv, HistoryInv, CurrentIsRow
<1>6. \A w \in Issued : version[w].file = f => c # None /\ version[w].no < NextVer(f)
  BY <1>3, <1>4, <1>5 DEF IInv, HistoryInv, NumberedUpToCurrent
<1>7. rows' \subseteq Issued'
  BY <1>1 DEF IInv, HistoryInv
<1>8. CurrentIsRow'
  BY <1>1, <1>2 DEF IInv, HistoryInv, CurrentIsRow
<1>9. NumberedUpToCurrent'
  <2>1. ASSUME NEW w \in Issued'
        PROVE  /\ curr'[version'[w].file] # None
               /\ version'[w].no <= version'[curr'[version'[w].file]].no
    <3>1. CASE w = v
      BY <3>1, <1>1, <1>2, <1>3, NoneAssumption
    <3>2. CASE w \in Issued /\ version[w].file = f
      BY <3>2, <1>1, <1>2, <1>3, <1>4, <1>6, NoneAssumption
    <3>3. CASE w \in Issued /\ version[w].file # f
      <4>1. curr'[version'[w].file] = curr[version[w].file]
        BY <3>3, <1>1, <1>4
      <4>2. curr[version[w].file] # None /\ version[w].no <= version[curr[version[w].file]].no
        BY <3>3 DEF IInv, HistoryInv, NumberedUpToCurrent
      <4>3. curr[version[w].file] \in Issued
        BY <4>2, <1>4, <3>3 DEF IInv, HistoryInv, CurrentIsRow
      <4> QED BY <4>1, <4>2, <4>3, <3>3, <1>1
    <3> QED BY <2>1, <3>1, <3>2, <3>3, <1>1
  <2> QED BY <2>1 DEF NumberedUpToCurrent
<1>10. BuiltOnPredecessor'
  <2>1. ASSUME NEW w \in Issued'
        PROVE  \/ version'[w].base = None /\ version'[w].no = 1
               \/ /\ version'[w].base \in Issued'
                  /\ version'[version'[w].base].file = version'[w].file
                  /\ version'[w].no = version'[version'[w].base].no + 1
    <3>1. CASE w = v
      BY <3>1, <1>1, <1>2, <1>3, <1>5
    <3>2. CASE w \in Issued
      BY <3>2, <1>1 DEF IInv, HistoryInv, BuiltOnPredecessor
    <3> QED BY <2>1, <3>1, <3>2, <1>1
  <2> QED BY <2>1 DEF BuiltOnPredecessor
<1>11. NumbersUnique'
  <2>1. ASSUME NEW w \in Issued', NEW x \in Issued',
               version'[w].file = version'[x].file, version'[w].no = version'[x].no
        PROVE  w = x
    <3>1. CASE w \in Issued /\ x \in Issued
      BY <3>1, <2>1, <1>1 DEF IInv, HistoryInv, NumbersUnique
    <3>2. CASE w = v /\ x \in Issued
      BY <3>2, <2>1, <1>1, <1>2, <1>3, <1>4, <1>6, SMTT(60)
    <3>3. CASE x = v /\ w \in Issued
      BY <3>3, <2>1, <1>1, <1>2, <1>3, <1>4, <1>6, SMTT(60)
    <3> QED BY <2>1, <3>1, <3>2, <3>3, <1>1
  <2> QED BY <2>1 DEF NumbersUnique
<1>12. OnlyCurrentIsFree'
  <2> DEFINE After(g, b) == \E x \in Issued' : version'[x].file = g /\ version'[x].base = b
  <2>1. ASSUME NEW g, NEW b, BuiltOn(g, b)
        PROVE  After(g, b)
    BY <2>1, <1>1 DEF BuiltOn
  <2>2. After(f, c)
    BY <1>1, <1>2
  <2> HIDE DEF After
  <2>3. ASSUME NEW g \in Files, curr'[g] # None
        PROVE  After(g, None)
    BY <2>1, <2>2, <2>3, <1>1 DEF IInv, HistoryInv, OnlyCurrentIsFree
  <2>4. ASSUME NEW w \in Issued', w # curr'[version'[w].file]
        PROVE  After(version'[w].file, w)
    <3>1. w \in Issued /\ version'[w] = version[w]
      BY <2>4, <1>1, <1>2
    <3>2. CASE w = curr[version[w].file]
      <4>1. version[w].file = f
        BY <3>1, <3>2, <2>4, <1>1, <1>4
      <4> QED BY <4>1, <3>1, <3>2, <2>2
    <3>3. CASE w # curr[version[w].file]
      <4>1. BuiltOn(version[w].file, w)
        BY <3>1, <3>3 DEF IInv, HistoryInv, OnlyCurrentIsFree
      <4> QED BY <4>1, <3>1, <2>1
    <3> QED BY <3>2, <3>3
  <2> QED BY <2>3, <2>4 DEF OnlyCurrentIsFree, BuiltOn, After
<1> QED BY <1>7, <1>8, <1>9, <1>10, <1>11, <1>12 DEF HistoryInv

(* The pruner's delete statement spares every current version.             *)
LEMMA HistoryAfterPruneDelete ==
  ASSUME IInv, NEW r \in Requests, PruneDelete(r)
  PROVE  HistoryInv'
<1>1. /\ rows' = rows \ req[r].doomed
      /\ Issued' = Issued
      /\ UNCHANGED <<curr, version>>
  BY DEF PruneDelete, Issued
<1>2. \A f \in Files : curr[f] # None => curr[f] \notin req[r].doomed
  BY DEF IInv, RequestInv, Relies, PruneDelete, HistoryInv, CurrentIsRow
<1>3. CurrentIsRow' /\ rows' \subseteq Issued'
  BY <1>1, <1>2 DEF IInv, HistoryInv, CurrentIsRow
<1>4. NumberedUpToCurrent' /\ BuiltOnPredecessor' /\ NumbersUnique' /\ OnlyCurrentIsFree'
  BY <1>1 DEF IInv, HistoryInv, NumberedUpToCurrent, BuiltOnPredecessor, NumbersUnique,
              OnlyCurrentIsFree, BuiltOn
<1> QED BY <1>3, <1>4 DEF HistoryInv

(* Every other step leaves the tables alone.                               *)
LEMMA HistoryUnchanged ==
  ASSUME IInv, UNCHANGED db
  PROVE  HistoryInv' /\ Issued' = Issued /\ version' = version /\ curr' = curr
<1>1. UNCHANGED <<curr, version, rows>> /\ Issued' = Issued
  BY DEF db, Issued
<1> QED
  BY <1>1 DEF IInv, HistoryInv, CurrentIsRow, NumberedUpToCurrent, BuiltOnPredecessor,
              NumbersUnique, OnlyCurrentIsFree, BuiltOn

(* The steps, sorted by what they do to the tables.                        *)
TxStep(r, v, at) == Publish(r, v, at) /\ req[r].file \in Files
                    /\ \/ at = "committed" /\ req[r].at = "committing"
                       \/ at = "prune" /\ req[r].at = "uploading"

LEMMA StepKinds ==
  ASSUME IInv, [Next]_vars
  PROVE  \/ \E r \in Requests, v \in VersionIds, at \in Ats : TxStep(r, v, at)
         \/ \E r \in Requests : PruneDelete(r)
         \/ UNCHANGED db
<1>1. ASSUME NEW r \in Requests, NEW v \in VersionIds, CommitTx(r, v) \/ UploadTx(r, v)
      PROVE  \E at \in Ats : TxStep(r, v, at)
  BY <1>1 DEF IInv, RequestInv, Relies, CommitTx, UploadTx, TxStep, Ats
<1>2. ASSUME NEW r \in Requests, Step(r),
             ~ \E v \in VersionIds : CommitTx(r, v) \/ UploadTx(r, v),
             ~ PruneDelete(r)
      PROVE  UNCHANGED db
  BY <1>2 DEF Step, NegotiateRead, UploadRead, Snapshot, NegotiateStore, CommitGet, CommitStale,
              UploadStale, Stale, CommitClear, PruneReadCurrent, PruneNothing, PruneList,
              Reject, PruneFail, db
<1>3. ASSUME (\E n \in NegIds : Expire(n)) \/ Restart \/ UNCHANGED vars
      PROVE  UNCHANGED db
  BY <1>3 DEF Expire, Restart, db, vars
<1> QED BY <1>1, <1>2, <1>3 DEF Next

LEMMA HistoryPreserved ==
  ASSUME IInv, [Next]_vars
  PROVE  /\ HistoryInv'
         /\ Issued \subseteq Issued'
         /\ \A w \in Issued : version'[w] = version[w]
<1>1. ASSUME NEW r \in Requests, NEW v \in VersionIds, NEW at \in Ats, TxStep(r, v, at)
      PROVE  HistoryInv' /\ Issued \subseteq Issued' /\ \A w \in Issued : version'[w] = version[w]
  BY <1>1, PublishEffect, HistoryAfterPublish DEF TxStep
<1>2. ASSUME NEW r \in Requests, PruneDelete(r)
      PROVE  HistoryInv' /\ Issued \subseteq Issued' /\ \A w \in Issued : version'[w] = version[w]
  BY <1>2, HistoryAfterPruneDelete DEF PruneDelete, Issued
<1>3. ASSUME UNCHANGED db
      PROVE  HistoryInv' /\ Issued \subseteq Issued' /\ \A w \in Issued : version'[w] = version[w]
  BY <1>3, HistoryUnchanged
<1> QED BY <1>1, <1>2, <1>3, StepKinds

-----------------------------------------------------------------------------
(* A snapshot stays one: versions are only added and never rewritten.      *)
LEMMA SnapshotKept ==
  ASSUME IInv, [Next]_vars, NEW f, NEW s, IsSnapshot(f, s)
  PROVE  s = None \/ (s \in Issued' /\ version'[s].file = f)
BY HistoryPreserved DEF IsSnapshot

(* What curr holds is a snapshot of that file.                             *)
LEMMA CurrIsSnapshot ==
  ASSUME IInv, NEW f \in Files
  PROVE  IsSnapshot(f, curr[f])
BY DEF IInv, HistoryInv, CurrentIsRow, IsSnapshot

LEMMA TokenPreserved ==
  ASSUME IInv, [Next]_vars
  PROVE  TokenInv'
<1> USE NoneAssumption
<1>1. ASSUME NEW r \in Requests, NEW n \in NegIds, NegotiateStore(r, n)
      PROVE  TokenInv'
  <2>1. /\ negotiation[n].file = None
        /\ negotiation'[n].file = req[r].file
        /\ negotiation'[n].snap = req[r].snap
        /\ \A m \in NegIds : m # n => negotiation'[m] = negotiation[m]
        /\ live' = live \cup {n}
    BY <1>1 DEF NegotiateStore, UnissuedToken, IInv, TypeOK
  <2>2. req[r].file \in Files /\ IsSnapshot(req[r].file, req[r].snap)
    BY <1>1 DEF NegotiateStore, IInv, RequestInv, Relies
  <2>3. Issued' = Issued /\ version' = version
    BY <1>1, HistoryUnchanged DEF NegotiateStore
  <2>4. \A v \in Issued : version[v].neg # n
    BY <2>1 DEF IInv, TokenInv, Issued
  <2>5. \A v \in Issued : version[v].neg # None => version[v].neg \in NegIds
    BY DEF IInv, TypeOK, VersionRecords, Issued
  <2>6. live' \subseteq {m \in NegIds : negotiation'[m].file # None}
    BY <2>1, <2>2 DEF IInv, TokenInv
  <2>7. \A m \in NegIds : negotiation'[m].file # None =>
          negotiation'[m].snap = None \/ (/\ negotiation'[m].snap \in Issued'
                                         /\ version'[negotiation'[m].snap].file = negotiation'[m].file)
    BY <2>1, <2>2, <2>3 DEF IInv, TokenInv, IsSnapshot
  <2>8. \A v \in Issued' : version'[v].neg # None =>
          /\ negotiation'[version'[v].neg].file = version'[v].file
          /\ negotiation'[version'[v].neg].snap = version'[v].base
    BY <2>1, <2>3, <2>4, <2>5 DEF IInv, TokenInv
  <2> QED BY <2>6, <2>7, <2>8 DEF TokenInv, IsSnapshot
<1>2. ASSUME UNCHANGED negotiation, live' \subseteq live
      PROVE  TokenInv'
  <2>1. \A n \in NegIds : negotiation'[n].file # None =>
          negotiation'[n].snap = None \/ (/\ negotiation'[n].snap \in Issued'
                                         /\ version'[negotiation'[n].snap].file = negotiation'[n].file)
    BY <1>2, SnapshotKept DEF IInv, TokenInv
  <2>2. \A v \in Issued' : version'[v].neg # None =>
          /\ negotiation'[version'[v].neg].file = version'[v].file
          /\ negotiation'[version'[v].neg].snap = version'[v].base
    <3>1. ASSUME NEW r \in Requests, NEW x \in VersionIds, NEW at \in Ats, TxStep(r, x, at),
                 NEW v \in Issued', version'[v].neg # None
          PROVE  /\ negotiation'[version'[v].neg].file = version'[v].file
                 /\ negotiation'[version'[v].neg].snap = version'[v].base
      <4>1. /\ Issued' = Issued \cup {x}
            /\ version'[x] = [file |-> req[r].file, no |-> NextVer(req[r].file),
                             base |-> curr[req[r].file], neg |-> req[r].neg]
            /\ \A w \in Issued : version'[w] = version[w]
            /\ curr[req[r].file] = req[r].snap
        BY <3>1, PublishEffect DEF TxStep, Publish, Unmoved
      <4>2. CASE v \in Issued
        BY <4>1, <4>2, <1>2, <3>1 DEF IInv, TokenInv
      <4>3. CASE v = x
        <5>1. req[r].neg # None /\ req[r].at = "committing"
          BY <3>1, <4>3, <4>1 DEF TxStep, IInv, RequestInv, Relies
        <5> QED BY <5>1, <4>1, <4>3, <1>2 DEF IInv, RequestInv, Relies
      <4> QED BY <3>1, <4>1, <4>2, <4>3
    <3>2. ASSUME Issued' = Issued, version' = version
          PROVE  \A v \in Issued' : version'[v].neg # None =>
                   /\ negotiation'[version'[v].neg].file = version'[v].file
                   /\ negotiation'[version'[v].neg].snap = version'[v].base
      BY <3>2, <1>2 DEF IInv, TokenInv
    <3>3. ASSUME NEW r \in Requests, PruneDelete(r)
          PROVE  Issued' = Issued /\ version' = version
      BY <3>3 DEF PruneDelete, Issued
    <3> QED BY <3>1, <3>2, <3>3, StepKinds, HistoryUnchanged
  <2> QED BY <1>2, <2>1, <2>2 DEF IInv, TokenInv, IsSnapshot
<1>3. ASSUME ~ \E r \in Requests, n \in NegIds : NegotiateStore(r, n)
      PROVE  UNCHANGED negotiation /\ live' \subseteq live
  BY <1>3 DEF Next, Step, NegotiateRead, UploadRead, Snapshot, CommitGet, CommitTx, UploadTx,
              Publish, CommitStale, UploadStale, Stale, CommitClear, PruneReadCurrent,
              PruneNothing, PruneList, PruneDelete, Reject, PruneFail, Expire, Restart,
              tokens, vars
<1> QED BY <1>1, <1>2, <1>3

-----------------------------------------------------------------------------
(* A request that a step leaves alone keeps what it relies on: snapshots   *)
(* and tokens are never rewritten, and a version that is not current never *)
(* becomes current again.                                                  *)
LEMMA NeverCurrentAgain ==
  ASSUME IInv, [Next]_vars, NEW d \in Issued, d # curr[version[d].file]
  PROVE  d \in Issued' /\ d # curr'[version'[d].file]
<1>1. ASSUME NEW r \in Requests, NEW v \in VersionIds, NEW at \in Ats, TxStep(r, v, at)
      PROVE  d # curr'[version'[d].file]
  <2>1. /\ version'[d] = version[d] /\ d # v
        /\ curr'[req[r].file] = v
        /\ \A g \in Files : g # req[r].file => curr'[g] = curr[g]
    BY <1>1, PublishEffect DEF TxStep
  <2>2. version[d].file \in Files
    BY DEF IInv, TypeOK, VersionRecords, Issued
  <2> QED BY <2>1, <2>2
<1>2. ASSUME NEW r \in Requests, PruneDelete(r)
      PROVE  d # curr'[version'[d].file]
  BY <1>2 DEF PruneDelete
<1>3. ASSUME UNCHANGED db
      PROVE  d # curr'[version'[d].file]
  BY <1>3 DEF db
<1> QED BY <1>1, <1>2, <1>3, StepKinds, HistoryPreserved

LEMMA TokensKept ==
  ASSUME IInv, [Next]_vars, NEW n \in NegIds, negotiation[n].file # None
  PROVE  negotiation'[n] = negotiation[n]
<1>1. ASSUME NEW r \in Requests, NEW m \in NegIds, NegotiateStore(r, m)
      PROVE  negotiation'[n] = negotiation[n]
  BY <1>1 DEF NegotiateStore, UnissuedToken, IInv, TypeOK
<1>2. ASSUME ~ \E r \in Requests, m \in NegIds : NegotiateStore(r, m)
      PROVE  UNCHANGED negotiation
  BY <1>2 DEF Next, Step, NegotiateRead, UploadRead, Snapshot, CommitGet, CommitTx, UploadTx,
              Publish, CommitStale, UploadStale, Stale, CommitClear, PruneReadCurrent,
              PruneNothing, PruneList, PruneDelete, Reject, PruneFail, Expire, Restart,
              tokens, vars
<1> QED BY <1>1, <1>2

LEMMA ReliesKept ==
  ASSUME IInv, [Next]_vars, NEW r \in Requests, req'[r] = req[r]
  PROVE  Relies(r)'
<1> DEFINE q == req[r]
<1>0. Relies(r)
  BY DEF IInv, RequestInv
<1>1. q.at \in {"negotiating", "uploading", "committing"} =>
        q.snap = None \/ (q.snap \in Issued' /\ version'[q.snap].file = q.file)
  BY <1>0, SnapshotKept DEF Relies
<1>2. q.at = "committing" => negotiation[q.neg].file # None
  BY <1>0, NoneAssumption DEF Relies
<1>3. q.at = "committing" => negotiation'[q.neg] = negotiation[q.neg]
  BY <1>0, <1>2, TokensKept DEF Relies
<1>4. q.at = "prune_delete" =>
        \A d \in q.doomed : d \in Issued' /\ d # curr'[version'[d].file]
  BY <1>0, NeverCurrentAgain DEF Relies
<1> HIDE DEF q
<1>5. req'[r] = q /\ req[r] = q
  BY DEF q
<1> QED BY <1>0, <1>1, <1>3, <1>4, <1>5 DEF Relies, IsSnapshot

(* The newest MaxVersions rows include the current version, so the list    *)
(* the pruner computes holds only versions that are not current.           *)
LEMMA DoomedAreOld ==
  ASSUME IInv, NEW r \in Requests, req[r].file \in Files, NEW d \in Doomed(r)
  PROVE  d \in Issued /\ d # curr[version[d].file]
<1> DEFINE f == req[r].file
<1>1. d \in RowsOf(f) /\ d \notin Newest(f)
  BY DEF Doomed
<1>2. version[d].file = f /\ d \in Issued
  BY <1>1 DEF RowsOf, IInv, HistoryInv
<1>3. ASSUME d = curr[f]
      PROVE  FALSE
  <2>1. {w \in RowsOf(f) : version[w].no > version[d].no} = {}
    <3>1. \A w \in RowsOf(f) : w \in Issued /\ version[w].file = f
      BY DEF RowsOf, IInv, HistoryInv
    <3>2. \A w \in RowsOf(f) : version[w].no <= version[d].no
      BY <3>1, <1>3 DEF IInv, HistoryInv, NumberedUpToCurrent
    <3>3. \A w \in RowsOf(f) : version[w].no \in Nat /\ version[d].no \in Nat
      BY <3>1, <1>2 DEF IInv, TypeOK, VersionRecords, Issued
    <3> QED BY <3>2, <3>3
  <2>2. Cardinality({w \in RowsOf(f) : version[w].no > version[d].no}) = 0
    BY <2>1, FS_EmptySet
  <2>3. d \in Newest(f)
    BY <2>2, <1>1, MaxVersionsAssumption DEF Newest
  <2> QED BY <2>3, <1>1
<1> QED BY <1>2, <1>3

LEMMA RequestPreserved ==
  ASSUME IInv, [Next]_vars
  PROVE  RequestInv'
<1> USE NoneAssumption
<1> DEFINE Alone(r) == \A q \in Requests : q # r => req'[q] = req[q]
<1>1. ASSUME NEW r \in Requests, Alone(r), Relies(r)'
      PROVE  RequestInv'
  BY <1>1, ReliesKept DEF RequestInv
<1>2. ASSUME NEW r \in Requests, NEW f \in Files, NegotiateRead(r, f) \/ UploadRead(r, f)
      PROVE  RequestInv'
  <2>1. /\ req'[r].file = f /\ req'[r].snap = curr[f] /\ req'[r].neg = None
        /\ req'[r].at \in {"negotiating", "uploading"}
        /\ Alone(r)
        /\ UNCHANGED db
    <3>1. PICK at \in {"negotiating", "uploading"} : Snapshot(r, f, at)
      BY <1>2 DEF NegotiateRead, UploadRead
    <3> QED BY <3>1 DEF Snapshot, IInv, TypeOK
  <2>2. IsSnapshot(f, curr[f])
    BY CurrIsSnapshot
  <2>3. curr[f] = None \/ (curr[f] \in Issued' /\ version'[curr[f]].file = f)
    BY <2>1, <2>2, HistoryUnchanged DEF IsSnapshot
  <2>4. Relies(r)'
    BY <2>1, <2>3 DEF Relies, IsSnapshot
  <2> QED BY <1>1, <2>1, <2>4
<1>3. ASSUME NEW r \in Requests, NEW n \in NegIds, CommitGet(r, n)
      PROVE  RequestInv'
  <2>1. /\ req'[r].file = negotiation[n].file /\ req'[r].snap = negotiation[n].snap
        /\ req'[r].neg = n /\ req'[r].at = "committing"
        /\ Alone(r)
        /\ UNCHANGED <<db, negotiation>>
        /\ n \in live
    BY <1>3 DEF CommitGet, IInv, TypeOK, Idle, tokens
  <2>2. /\ negotiation[n].file \in Files
        /\ IsSnapshot(negotiation[n].file, negotiation[n].snap)
    BY <2>1 DEF IInv, TypeOK, TokenInv
  <2>3. \/ negotiation[n].snap = None
        \/ /\ negotiation[n].snap \in Issued'
           /\ version'[negotiation[n].snap].file = negotiation[n].file
    BY <2>1, <2>2, HistoryUnchanged DEF IsSnapshot
  <2>4. Relies(r)'
    BY <2>1, <2>2, <2>3 DEF Relies, IsSnapshot
  <2> QED BY <1>1, <2>1, <2>4
<1>4. ASSUME NEW r \in Requests, NEW v \in VersionIds, CommitTx(r, v) \/ UploadTx(r, v)
      PROVE  RequestInv'
  <2>1. /\ req'[r].file = req[r].file /\ req'[r].at \in {"committed", "prune"}
        /\ Alone(r)
    BY <1>4 DEF CommitTx, UploadTx, Publish, IInv, TypeOK, RequestRecords
  <2>2. req[r].file \in Files
    BY <1>4 DEF CommitTx, UploadTx, IInv, RequestInv, Relies
  <2> QED BY <1>1, <2>1, <2>2 DEF Relies
<1>5. ASSUME NEW r \in Requests,
             \/ \E n \in NegIds : NegotiateStore(r, n)
             \/ CommitStale(r) \/ UploadStale(r) \/ PruneNothing(r)
             \/ PruneDelete(r) \/ Reject(r) \/ PruneFail(r)
      PROVE  RequestInv'
  <2>1. req'[r].at = "idle" /\ Alone(r)
    BY <1>5 DEF NegotiateStore, CommitStale, UploadStale, Stale, PruneNothing, PruneDelete,
                Reject, PruneFail, IInv, TypeOK, Idle
  <2>2. Relies(r)'
    BY <2>1 DEF Relies
  <2> QED BY <1>1, <2>1, <2>2
<1>6. ASSUME NEW r \in Requests, CommitClear(r) \/ PruneReadCurrent(r)
      PROVE  RequestInv'
  <2>1. /\ req'[r].file = req[r].file /\ req'[r].at \in {"prune", "prune_list"}
        /\ Alone(r)
    <3>1. CASE CommitClear(r)
      BY <3>1 DEF CommitClear, IInv, TypeOK, RequestRecords
    <3>2. CASE PruneReadCurrent(r)
      BY <3>2 DEF PruneReadCurrent, IInv, TypeOK, RequestRecords
    <3> QED BY <1>6, <3>1, <3>2
  <2>2. req[r].file \in Files
    BY <1>6 DEF CommitClear, PruneReadCurrent, IInv, RequestInv, Relies
  <2> QED BY <1>1, <2>1, <2>2 DEF Relies
<1>7. ASSUME NEW r \in Requests, PruneList(r)
      PROVE  RequestInv'
  <2>1. /\ req'[r].file = req[r].file /\ req'[r].at = "prune_delete"
        /\ req'[r].doomed = Doomed(r)
        /\ Alone(r)
        /\ UNCHANGED db
    BY <1>7 DEF PruneList, IInv, TypeOK, RequestRecords
  <2>2. req[r].file \in Files
    BY <1>7 DEF PruneList, IInv, RequestInv, Relies
  <2>3. \A d \in Doomed(r) : d \in Issued /\ d # curr[version[d].file]
    BY <2>2, DoomedAreOld
  <2>4. \A d \in Doomed(r) : d \in Issued' /\ d # curr'[version'[d].file]
    BY <2>1, <2>3, HistoryUnchanged
  <2> HIDE DEF Alone
  <2>5. Relies(r)'
    BY <2>1, <2>2, <2>4 DEF Relies
  <2> QED BY <1>1, <2>1, <2>5
<1>8. ASSUME Restart
      PROVE  RequestInv'
  BY <1>8 DEF Restart, Idle, RequestInv, Relies
<1>9. ASSUME (\E n \in NegIds : Expire(n)) \/ UNCHANGED vars
      PROVE  RequestInv'
  <2>1. UNCHANGED req
    BY <1>9 DEF Expire, vars
  <2> QED BY <2>1, ReliesKept DEF RequestInv
<1> QED
  BY <1>2, <1>3, <1>4, <1>5, <1>6, <1>7, <1>8, <1>9 DEF Next, Step

-----------------------------------------------------------------------------
LEMMA InitIInv == Init => IInv
<1> SUFFICES ASSUME Init PROVE IInv
  OBVIOUS
<1> USE NoneAssumption
<1>1. Issued = {} /\ rows = {} /\ live = {}
  BY DEF Init, Issued, UnissuedVersion
<1>2. TypeOK
  BY DEF Init, TypeOK, UnissuedVersion, UnissuedToken, Idle, VersionRecords, RequestRecords, Ats
<1>3. HistoryInv
  BY <1>1 DEF Init, HistoryInv, CurrentIsRow, NumberedUpToCurrent, BuiltOnPredecessor,
              NumbersUnique, OnlyCurrentIsFree
<1>4. TokenInv
  BY <1>1 DEF Init, TokenInv, UnissuedToken
<1>5. RequestInv
  BY DEF Init, RequestInv, Relies, Idle
<1> QED BY <1>2, <1>3, <1>4, <1>5 DEF IInv

LEMMA NextIInv == IInv /\ [Next]_vars => IInv'
<1> SUFFICES ASSUME IInv, [Next]_vars PROVE IInv'
  OBVIOUS
<1>1. TypeOK'
  BY TypePreserved DEF IInv
<1> QED
  BY <1>1, HistoryPreserved, TokenPreserved, RequestPreserved DEF IInv

(* IInv is an inductive invariant of the server.                           *)
THEOREM Inductive == Spec => []IInv
BY InitIInv, NextIInv, PTL DEF Spec

(* Every variable keeps its type, for every value of the constants.        *)
THEOREM TypeCorrect == Spec => []TypeOK
<1>1. IInv => TypeOK
  BY DEF IInv
<1> QED BY <1>1, Inductive, PTL

(* No pruner ever deletes the current version, and the current version is  *)
(* the one with the highest number: readers by pointer and readers by      *)
(* number see the same version.                                            *)
THEOREM CurrentIsNewest == Spec => []CurrentIsNewestRow
<1>1. IInv => CurrentIsNewestRow
  <2> SUFFICES ASSUME IInv, NEW f \in Files
               PROVE  /\ curr[f] = None <=> RowsOf(f) = {}
                      /\ curr[f] # None =>
                           /\ curr[f] \in RowsOf(f)
                           /\ \A v \in RowsOf(f) : version[v].no <= version[curr[f]].no
    BY DEF CurrentIsNewestRow
  <2>1. \A v \in RowsOf(f) : v \in Issued /\ version[v].file = f
    BY DEF RowsOf, IInv, HistoryInv
  <2>2. \A v \in RowsOf(f) : curr[f] # None /\ version[v].no <= version[curr[f]].no
    BY <2>1 DEF IInv, HistoryInv, NumberedUpToCurrent
  <2>3. curr[f] # None => curr[f] \in RowsOf(f)
    BY DEF IInv, HistoryInv, CurrentIsRow, RowsOf
  <2> QED BY <2>2, <2>3
<1> QED BY <1>1, Inductive, PTL

(* Two versions of one file are never built on the same snapshot: no       *)
(* commit or upload silently overwrites another.                           *)
LEMMA NoForksInv == IInv => NoForks
<1> SUFFICES ASSUME IInv, NEW v \in Issued, NEW w \in Issued,
                    version[v].file = version[w].file, version[v].base = version[w].base
             PROVE  v = w
  BY DEF NoForks
<1>1. version[v].no = version[w].no
  BY NoneAssumption DEF IInv, HistoryInv, BuiltOnPredecessor, Issued
<1> QED BY <1>1 DEF IInv, HistoryInv, NumbersUnique

THEOREM NoLostUpdate == Spec => []NoForks
BY NoForksInv, Inductive, PTL

(* A negotiation token yields at most one version, however many commits    *)
(* read it before it is cleared.                                           *)
THEOREM TokenUsedOnce == Spec => []OneVersionPerToken
<1>1. IInv => OneVersionPerToken
  <2> SUFFICES ASSUME IInv, NEW v \in Issued, NEW w \in Issued,
                      version[v].neg # None, version[v].neg = version[w].neg
               PROVE  v = w
    BY DEF OneVersionPerToken
  <2>1. version[v].file = version[w].file /\ version[v].base = version[w].base
    BY DEF IInv, TokenInv
  <2> QED BY <2>1, NoForksInv DEF NoForks
<1> QED BY <1>1, Inductive, PTL

(* A request that will get 409 was overtaken by a version built on the     *)
(* snapshot it holds.                                                      *)
THEOREM ConflictsAreReal == Spec => []ConflictHasWinner
<1>1. IInv => ConflictHasWinner
  <2> SUFFICES ASSUME IInv, NEW r \in Requests,
                      req[r].at \in {"committing", "uploading"}, ~Unmoved(r)
               PROVE  BuiltOn(req[r].file, req[r].snap)
    BY DEF ConflictHasWinner, BuiltOn
  <2>1. req[r].file \in Files /\ IsSnapshot(req[r].file, req[r].snap)
    BY DEF IInv, RequestInv, Relies
  <2>2. curr[req[r].file] # req[r].snap
    BY DEF Unmoved
  <2> QED BY <2>1, <2>2 DEF IsSnapshot, IInv, HistoryInv, OnlyCurrentIsFree
<1> QED BY <1>1, Inductive, PTL

(* A token whose snapshot was overtaken never becomes committable again.   *)
THEOREM TokensDoNotRecover == Spec => OvertakenForGood
<1>1. IInv /\ [Next]_vars => [\A n \in NegIds : Overtaken(n) => Overtaken(n)']_vars
  <2> SUFFICES ASSUME IInv, [Next]_vars, NEW n \in NegIds, Overtaken(n)
               PROVE  Overtaken(n)'
    OBVIOUS
  <2> DEFINE f == negotiation[n].file
             s == negotiation[n].snap
  <2>1. f \in Files /\ f # None /\ curr[f] # s /\ IsSnapshot(f, s)
    BY DEF Overtaken, IInv, TypeOK, TokenInv
  <2>2. negotiation'[n] = negotiation[n]
    BY <2>1, TokensKept
  <2>3. s # None => curr'[f] # s
    <3>1. s # None => s \in Issued /\ version[s].file = f
      BY <2>1 DEF IsSnapshot
    <3>2. s # None => version'[s] = version[s] /\ s # curr'[version'[s].file]
      BY <3>1, <2>1, NeverCurrentAgain, HistoryPreserved
    <3> QED BY <3>1, <3>2
  <2>4. s = None => curr'[f] # None
    <3>1. ASSUME s = None
          PROVE  curr'[f] # None
      <4>1. PICK v \in Issued : version[v].file = f
        BY <2>1, <3>1 DEF IInv, HistoryInv, OnlyCurrentIsFree, BuiltOn
      <4>2. v \in Issued' /\ version'[v].file = f
        BY <4>1, HistoryPreserved
      <4> QED BY <4>2, HistoryPreserved DEF HistoryInv, NumberedUpToCurrent
    <3> QED BY <3>1
  <2> QED BY <2>1, <2>2, <2>3, <2>4 DEF Overtaken
<1> QED BY <1>1, Inductive, PTL DEF Spec, OvertakenForGood

-----------------------------------------------------------------------------
(* The image of the server's tables in VersionHistory.                     *)
History == [v \in VersionIds |-> [file |-> version[v].file, no |-> version[v].no,
                                 base |-> version[v].base]]

(* The server implements the abstract register: its transactions are       *)
(* Publish steps (so numbers are consecutive and never reused, and each    *)
(* version is built on the current one), the pruner's delete is a Forget   *)
(* step, and everything else changes nothing that VersionHistory sees.     *)
THEOREM Refinement == Spec => ImplementsVersionHistory
<1>1. Init => VH!Init
  BY DEF Init, VH!Init, VH!Unissued, UnissuedVersion
<1>2. IInv /\ [Next]_vars => [VH!Next]_(VH!vars)
  <2> SUFFICES ASSUME IInv, [Next]_vars
               PROVE  VH!Next \/ UNCHANGED VH!vars
    BY DEF VH!vars
  <2>1. ASSUME NEW r \in Requests, NEW v \in VersionIds, NEW at \in Ats, TxStep(r, v, at)
        PROVE  VH!Next
    <3> DEFINE f == req[r].file
    <3>1. /\ f \in Files
          /\ version[v] = UnissuedVersion
          /\ version' = [version EXCEPT ![v] = [file |-> f, no |-> NextVer(f),
                                               base |-> curr[f], neg |-> req[r].neg]]
          /\ curr' = [curr EXCEPT ![f] = v]
          /\ rows' = rows \cup {v}
      BY <2>1 DEF TxStep, Publish, Unmoved
    <3>2. curr[f] # None => curr[f] \in VersionIds
      BY <3>1 DEF IInv, TypeOK
    <3>3. NextVer(f) = (IF curr[f] = None THEN 1 ELSE History[curr[f]].no + 1)
      BY <3>1, <3>2, NextVerIsNextNo DEF IInv, History
    <3>4. History[v] = VH!Unissued
      BY <3>1 DEF History, UnissuedVersion, VH!Unissued
    <3>5. History' = [History EXCEPT ![v] = [file |-> f, no |-> NextVer(f), base |-> curr[f]]]
      <4>1. version' \in [VersionIds -> VersionRecords]
        BY TypePreserved DEF IInv, TypeOK
      <4>2. ASSUME NEW w \in VersionIds
            PROVE  History'[w] = [History EXCEPT ![v] = [file |-> f, no |-> NextVer(f),
                                                         base |-> curr[f]]][w]
        BY <3>1 DEF History, IInv, TypeOK
      <4> QED BY <4>2 DEF History
    <3>6. VH!Publish(f, v)
      BY <3>1, <3>3, <3>4, <3>5 DEF VH!Publish, VH!NextNo, History
    <3> QED BY <3>1, <3>6 DEF VH!Next
  <2>2. ASSUME NEW r \in Requests, PruneDelete(r)
        PROVE  VH!Next
    <3> DEFINE S == rows \cap req[r].doomed
    <3>1. rows' = rows \ S /\ UNCHANGED <<curr, version>>
      BY <2>2 DEF PruneDelete
    <3>2. \A f \in Files : curr[f] \notin S
      BY <2>2, NoneAssumption
         DEF PruneDelete, IInv, RequestInv, Relies, HistoryInv, CurrentIsRow, Issued
    <3>3. VH!Forget(S)
      BY <3>1, <3>2 DEF VH!Forget
    <3> QED BY <3>3 DEF VH!Next
  <2>3. ASSUME UNCHANGED db
        PROVE  UNCHANGED VH!vars
    BY <2>3 DEF db, VH!vars
  <2> QED BY <2>1, <2>2, <2>3, StepKinds
<1> QED BY <1>1, <1>2, Inductive, PTL DEF Spec, VH!Spec, ImplementsVersionHistory

-----------------------------------------------------------------------------
(* Retention                                                               *)

(* Of the requests that PrunerIsComing names, those whose pruner knows the *)
(* current version if it has read one: a pruner that keeps an older one    *)
(* may find nothing to delete although the file is over the limit, but the *)
(* one of the commit that came in between is still to come.                *)
Comes(r, f) ==
  /\ req[r].file = f
  /\ \/ req[r].at \in {"committed", "prune"}
     \/ req[r].at = "prune_list" /\ req[r].snap = curr[f]
     \/ /\ req[r].at = "prune_delete"
        /\ Cardinality(RowsOf(f) \ req[r].doomed) <= MaxVersions
Awaited(f) == Cardinality(RowsOf(f)) > MaxVersions => \E r \in Requests : Comes(r, f)
RetentionInv == IsFiniteSet(rows) /\ (faults = 0 => \A f \in Files : Awaited(f))

(* The rows of a file are finitely many, before and after a step.          *)
LEMMA RowsCount ==
  ASSUME IsFiniteSet(rows), NEW f, NEW S \in SUBSET RowsOf(f)
  PROVE  /\ IsFiniteSet(S) /\ Cardinality(S) \in Nat
         /\ \A T \in SUBSET S : Cardinality(T) \in Nat /\ Cardinality(T) <= Cardinality(S)
<1>1. S \subseteq rows
  BY DEF RowsOf
<1>2. IsFiniteSet(S)
  BY <1>1, FS_Subset
<1>3. QED
  BY <1>2, FS_Subset, FS_CardinalityType

(* At most MaxVersions rows are among the newest: all but the lowest of    *)
(* them have a higher number than that one.                                *)
LEMMA NewestAreFew ==
  ASSUME IInv, IsFiniteSet(rows), NEW f \in Files
  PROVE  Cardinality(Newest(f)) <= MaxVersions
<1> DEFINE N == Newest(f)
           Above(v) == {w \in RowsOf(f) : version[w].no > version[v].no}
           Nos == {version[v].no : v \in N}
<1>1. IsFiniteSet(N) /\ N \subseteq RowsOf(f)
  BY RowsCount DEF Newest
<1>2. \A v \in RowsOf(f) : v \in Issued /\ version[v].file = f /\ version[v].no \in Nat
  BY DEF IInv, TypeOK, HistoryInv, RowsOf, Issued, VersionRecords
<1>3. CASE N = {}
  BY <1>3, FS_EmptySet, MaxVersionsAssumption
<1>4. CASE N # {}
  <2>1. Nos \subseteq Nat /\ Nos # {}
    BY <1>1, <1>2, <1>4
  <2>2. PICK m \in Nos : \A n \in Nos : ~ (<<n, m>> \in OpToRel(<, Nat))
    BY <2>1, NatLessThanWellFounded, WFMin
  <2>3. PICK v \in N : version[v].no = m
    OBVIOUS
  <2>4. \A w \in N : ~ (version[w].no < version[v].no)
    BY <2>1, <2>2, <2>3 DEF OpToRel
  <2>5. N \ {v} \subseteq Above(v)
    BY <1>1, <1>2, <2>4 DEF IInv, HistoryInv, NumbersUnique
  <2>6. Cardinality(Above(v)) < MaxVersions
    BY DEF Newest
  <2>7. /\ Cardinality(N \ {v}) <= Cardinality(Above(v))
        /\ Cardinality(Above(v)) \in Nat /\ Cardinality(N \ {v}) \in Nat
    BY <2>5, RowsCount
  <2>8. Cardinality(N \ {v}) = Cardinality(N) - 1 /\ Cardinality(N) \in Nat
    BY <1>1, FS_RemoveElement, FS_CardinalityType
  <2>9. QED
    BY <2>6, <2>7, <2>8, MaxVersionsAssumption
<1>5. QED
  BY <1>3, <1>4

(* A pruner that knows the current version keeps only the newest rows.     *)
LEMMA KeepsTheNewest ==
  ASSUME IInv, IsFiniteSet(rows), NEW r \in Requests, NEW f \in Files,
         req[r].file = f, req[r].snap = curr[f]
  PROVE  RowsOf(f) \ Doomed(r) \subseteq Newest(f)
<1>1. ASSUME curr[f] \in RowsOf(f) PROVE curr[f] \in Newest(f)
  <2> DEFINE Above(v) == {w \in RowsOf(f) : version[w].no > version[v].no}
  <2>1. \A w \in RowsOf(f) : ~ (version[w].no > version[curr[f]].no)
    BY <1>1 DEF IInv, TypeOK, VersionRecords, HistoryInv, NumberedUpToCurrent, RowsOf, Issued
  <2>2. Above(curr[f]) = {}
    BY <2>1
  <2>3. \A v \in RowsOf(f) : Cardinality(Above(v)) < MaxVersions => v \in Newest(f)
    BY DEF Newest
  <2> HIDE DEF Above
  <2>4. Cardinality(Above(curr[f])) = 0
    BY <2>2, FS_EmptySet
  <2>5. QED
    BY <1>1, <2>3, <2>4, MaxVersionsAssumption
<1>2. QED
  BY <1>1 DEF Doomed

(* Request r, whose pruner is to come, waits on, or its pruner starts or   *)
(* reads the current version.                                              *)
GoesOn(r, f) ==
  \/ req'[r] = req[r]
  \/ /\ req[r].at \in {"committed", "prune"} /\ req'[r].file = f
     /\ \/ req'[r].at = "prune"
        \/ req'[r].at = "prune_list" /\ req'[r].snap = curr[f]

(* A step that takes nothing but rows away, and lets the pruners of f go   *)
(* on, keeps f waited for.                                                 *)
LEMMA AwaitedStays ==
  ASSUME IInv, RetentionInv, faults = 0, NEW f \in Files,
         UNCHANGED <<curr, version>>, rows' \subseteq rows,
         \A r \in Requests : Comes(r, f) => GoesOn(r, f)
  PROVE  Awaited(f)'
<1>1. RowsOf(f)' \subseteq RowsOf(f)
  BY DEF RowsOf
<1>2. /\ Cardinality(RowsOf(f)') <= Cardinality(RowsOf(f))
      /\ Cardinality(RowsOf(f)') \in Nat /\ Cardinality(RowsOf(f)) \in Nat
  BY <1>1, RowsCount DEF RetentionInv
<1>3. ASSUME NEW D PROVE /\ Cardinality(RowsOf(f)' \ D) <= Cardinality(RowsOf(f) \ D)
                         /\ Cardinality(RowsOf(f)' \ D) \in Nat /\ Cardinality(RowsOf(f) \ D) \in Nat
  <2>1. RowsOf(f)' \ D \subseteq RowsOf(f) \ D /\ RowsOf(f) \ D \subseteq RowsOf(f)
    BY <1>1
  <2>2. QED
    BY <2>1, RowsCount DEF RetentionInv
<1>4. SUFFICES ASSUME Cardinality(RowsOf(f)') > MaxVersions PROVE \E r \in Requests : Comes(r, f)'
  BY DEF Awaited
<1>5. PICK r \in Requests : Comes(r, f)
  BY <1>2, <1>4, MaxVersionsAssumption DEF RetentionInv, Awaited
<1>6. Comes(r, f)'
  <2> DEFINE D == req[r].doomed
  <2>1. CASE req'[r] = req[r]
    <3> DEFINE before == Cardinality(RowsOf(f) \ D)
               after == Cardinality(RowsOf(f)' \ D)
    <3>1. after <= before /\ after \in Nat /\ before \in Nat
      BY <1>3, Zenon
    <3> HIDE DEF before, after
    <3>2. before <= MaxVersions => after <= MaxVersions
      BY <3>1, MaxVersionsAssumption
    <3>3. QED
      BY <1>5, <2>1, <3>2 DEF Comes, before, after
  <2>2. CASE req'[r] # req[r]
    BY <1>5, <2>2 DEF Comes, GoesOn
  <2>3. QED
    BY <2>1, <2>2
<1>7. QED
  BY <1>6

(* The transaction: its request will prune the file, and no request that   *)
(* was to prune another file has changed.                                  *)
LEMMA TxKeepsRetention ==
  ASSUME IInv, RetentionInv, NEW r \in Requests, NEW v \in VersionIds, NEW at \in Ats,
         TxStep(r, v, at)
  PROVE  RetentionInv'
<1> DEFINE g == req[r].file
<1>1. /\ v \notin Issued /\ version'[v].file = g /\ rows' = rows \cup {v}
      /\ \A w \in Issued : version'[w] = version[w] /\ w # v
      /\ \A f \in Files : f # g => curr'[f] = curr[f]
  <2>1. Publish(r, v, at) /\ g \in Files
    BY DEF TxStep
  <2>2. /\ v \notin Issued /\ rows' = rows \cup {v}
        /\ version'[v] = [file |-> g, no |-> NextVer(g), base |-> curr[g], neg |-> req[r].neg]
        /\ \A w \in Issued : version'[w] = version[w] /\ w # v
        /\ \A f \in Files : f # g => curr'[f] = curr[f]
    BY <2>1, PublishEffect
  <2>3. QED
    BY <2>2
<1>2. IsFiniteSet(rows')
  BY <1>1, FS_AddElement DEF RetentionInv
<1>3. /\ faults' = faults /\ req' = [req EXCEPT ![r].at = at]
      /\ req[r].at \in {"committing", "uploading"} /\ at \in {"committed", "prune"}
  BY DEF TxStep, Publish
<1>4. req'[r].file = g /\ req'[r].at = at /\ \A q \in Requests : q # r => req'[q] = req[q]
  BY <1>3 DEF IInv, TypeOK, RequestRecords
<1>5. Comes(r, g)'
  BY <1>3, <1>4 DEF Comes
<1>6. ASSUME NEW f \in Files, f # g, Awaited(f) PROVE Awaited(f)'
  <2>1. RowsOf(f)' = RowsOf(f)
    BY <1>1, <1>6 DEF RowsOf, IInv, HistoryInv
  <2>2. \A q \in Requests : Comes(q, f) => Comes(q, f)'
    BY <1>1, <1>3, <1>4, <1>6, <2>1 DEF Comes
  <2>3. QED
    BY <1>6, <2>1, <2>2 DEF Awaited
<1>7. QED
  BY <1>2, <1>3, <1>5, <1>6 DEF RetentionInv, Awaited

(* The list of a pruner that knows the current version brings the file     *)
(* back to the limit, or the file is there already.                        *)
LEMMA ListKeepsRetention ==
  ASSUME IInv, RetentionInv, NEW r \in Requests, PruneList(r) \/ PruneNothing(r)
  PROVE  RetentionInv'
<1> DEFINE g == req[r].file
<1>1. /\ req[r].at = "prune_list" /\ UNCHANGED <<curr, version, rows, faults>>
      /\ \A q \in Requests : q # r => req'[q] = req[q]
  BY DEF PruneList, PruneNothing, db, IInv, TypeOK
<1>2. \A f \in Files : RowsOf(f)' = RowsOf(f)
  BY <1>1 DEF RowsOf
<1>3. ASSUME NEW f \in Files, Comes(r, f), req'[r].at # "idle"
      PROVE  Comes(r, f)'
  <2>1. PruneList(r)
    BY <1>3 DEF PruneNothing, Idle, IInv, TypeOK
  <2>2. req'[r].file = f /\ req'[r].at = "prune_delete" /\ req'[r].doomed = Doomed(r)
    BY <1>3, <2>1 DEF PruneList, Comes, IInv, TypeOK, RequestRecords
  <2>3. RowsOf(f) \ Doomed(r) \subseteq Newest(f) /\ Newest(f) \subseteq RowsOf(f)
    BY <1>1, <1>3, KeepsTheNewest DEF Comes, RetentionInv, Newest
  <2>4. Cardinality(RowsOf(f) \ Doomed(r)) <= MaxVersions
    <3>1. Cardinality(Newest(f)) <= MaxVersions
      BY NewestAreFew DEF RetentionInv
    <3>2. /\ Cardinality(RowsOf(f) \ Doomed(r)) <= Cardinality(Newest(f))
          /\ Cardinality(RowsOf(f) \ Doomed(r)) \in Nat /\ Cardinality(Newest(f)) \in Nat
      BY <2>3, RowsCount DEF RetentionInv
    <3> DEFINE left == Cardinality(RowsOf(f) \ Doomed(r))
               kept == Cardinality(Newest(f))
    <3> HIDE DEF left, kept
    <3>3. left <= MaxVersions
      BY <3>1, <3>2, MaxVersionsAssumption DEF left, kept
    <3>4. QED
      BY <3>3 DEF left
  <2>5. QED
    BY <1>2, <2>2, <2>4 DEF Comes
<1>4. ASSUME NEW f \in Files, Comes(r, f), req'[r].at = "idle"
      PROVE  ~ (Cardinality(RowsOf(f)) > MaxVersions)
  <2>1. Doomed(r) = {}
    BY <1>4 DEF PruneList, PruneNothing, IInv, TypeOK, RequestRecords
  <2>2. RowsOf(f) \subseteq Newest(f) /\ Newest(f) \subseteq RowsOf(f)
    BY <1>1, <1>4, <2>1, KeepsTheNewest DEF Comes, RetentionInv, Newest
  <2>3. RowsOf(f) = Newest(f)
    BY <2>2
  <2>4. Cardinality(Newest(f)) <= MaxVersions /\ Cardinality(Newest(f)) \in Nat
    BY <2>2, NewestAreFew, RowsCount DEF RetentionInv
  <2>5. QED
    BY <2>3, <2>4, MaxVersionsAssumption
<1>5. ASSUME NEW f \in Files, NEW q \in Requests, q # r, Comes(q, f) PROVE Comes(q, f)'
  BY <1>1, <1>2, <1>5 DEF Comes
<1>6. ASSUME NEW f \in Files, Awaited(f) PROVE Awaited(f)'
  BY <1>2, <1>3, <1>4, <1>5, <1>6 DEF Awaited
<1>7. QED
  BY <1>1, <1>6 DEF RetentionInv

(* All other steps leave what is awaited as it is, or are faults.          *)
LEMMA RestKeepsRetention ==
  ASSUME IInv, RetentionInv, [Next]_vars,
         \A r \in Requests, v \in VersionIds, at \in Ats : ~TxStep(r, v, at),
         \A r \in Requests : ~PruneList(r) /\ ~PruneNothing(r) /\ ~PruneDelete(r)
  PROVE  RetentionInv'
<1>1. UNCHANGED <<curr, version, rows>>
  BY StepKinds DEF db
<1>2. faults \in Nat /\ (faults' = faults \/ faults' = faults + 1)
  BY DEF Next, Step, NegotiateRead, UploadRead, Snapshot, NegotiateStore, CommitGet, CommitTx,
         UploadTx, Publish, CommitStale, UploadStale, Stale, CommitClear, PruneReadCurrent,
         PruneNothing, PruneList, PruneDelete, Reject, PruneFail, Expire, Restart, vars,
         IInv, TypeOK
<1>3. CASE faults' # 0
  BY <1>1, <1>3 DEF RetentionInv
<1>4. CASE faults' = 0
  <2>1. faults = 0
    BY <1>2, <1>4
  <2>2. ASSUME NEW r \in Requests, NEW f \in Files, Comes(r, f)
        PROVE  GoesOn(r, f)
    <3>1. ASSUME NEW q \in Requests, Step(q)
          PROVE  GoesOn(r, f)
      <4>1. req \in [Requests -> RequestRecords]
        BY DEF IInv, TypeOK
      <4>2. CASE q # r
        <5>1. \E new : req' = [req EXCEPT ![q] = new]
          BY <3>1, <2>1, <1>4
             DEF Step, NegotiateRead, UploadRead, Snapshot, NegotiateStore, CommitGet, CommitTx,
                 UploadTx, Publish, CommitStale, UploadStale, Stale, CommitClear,
                 PruneReadCurrent, PruneNothing, PruneList, PruneDelete, Reject, PruneFail
        <5>2. QED
          BY <4>1, <4>2, <5>1 DEF GoesOn
      <4>3. CASE q = r
        <5>1. req[r].at \in {"committed", "prune", "prune_list", "prune_delete"} /\ req[r].file = f
          BY <2>2 DEF Comes
        <5>2. CommitClear(r) \/ PruneReadCurrent(r)
          BY <3>1, <4>3, <5>1, <1>4, <2>1
             DEF Step, NegotiateRead, UploadRead, Snapshot, NegotiateStore, CommitGet, CommitTx,
                 UploadTx, CommitStale, UploadStale, Reject, PruneFail
        <5>3. QED
          BY <4>1, <5>1, <5>2, ZenonT(60) DEF CommitClear, PruneReadCurrent, RequestRecords, GoesOn
      <4>4. QED
        BY <4>2, <4>3
    <3>2. ASSUME (\E n \in NegIds : Expire(n)) \/ Restart \/ UNCHANGED vars
          PROVE  req'[r] = req[r]
      BY <3>2, <2>1, <1>4 DEF Expire, Restart, vars
    <3>3. QED
      BY <3>1, <3>2 DEF Next, GoesOn
  <2>3. \A f \in Files : Awaited(f)'
    BY <1>1, <2>1, <2>2, AwaitedStays
  <2>4. QED
    BY <1>1, <2>3 DEF RetentionInv
<1>5. QED
  BY <1>3, <1>4

(* A deletion ends the wait for its own file, or shortens the others'.     *)
LEMMA DeleteKeepsRetention ==
  ASSUME IInv, RetentionInv, NEW r \in Requests, PruneDelete(r)
  PROVE  RetentionInv'
<1>1. /\ rows' = rows \ req[r].doomed /\ UNCHANGED <<curr, version, faults>>
      /\ req[r].at = "prune_delete" /\ \A q \in Requests : q # r => req'[q] = req[q]
  BY DEF PruneDelete, IInv, TypeOK
<1>2. IsFiniteSet(rows') /\ rows' \subseteq rows
  BY <1>1, FS_Subset DEF RetentionInv
<1>3. ASSUME NEW f \in Files, Comes(r, f)
      PROVE  Awaited(f)'
  <2>1. RowsOf(f)' = RowsOf(f) \ req[r].doomed
    BY <1>1 DEF RowsOf
  <2>2. Cardinality(RowsOf(f)') <= MaxVersions /\ Cardinality(RowsOf(f)') \in Nat
    BY <1>1, <1>3, <2>1, RowsCount DEF Comes, RetentionInv
  <2>3. QED
    BY <2>2, MaxVersionsAssumption DEF Awaited
<1>4. ASSUME NEW f \in Files, faults = 0, ~Comes(r, f)
      PROVE  Awaited(f)'
  BY <1>1, <1>2, <1>4, AwaitedStays DEF GoesOn
<1>5. QED
  BY <1>1, <1>2, <1>3, <1>4 DEF RetentionInv

(* Without faults a file over MAX_VERSIONS_PER_FILE always has a pruner on *)
(* its way that will bring it back to the limit, for any number of         *)
(* requests whose pruners overlap (version-pruner.ts).                     *)
THEOREM PrunersCome == Spec => []PrunerIsComing
<1>1. Init => RetentionInv
  <2> SUFFICES ASSUME Init PROVE RetentionInv
    OBVIOUS
  <2>1. rows = {} /\ \A f \in Files : RowsOf(f) = {}
    BY DEF Init, RowsOf
  <2>2. QED
    BY <2>1, FS_EmptySet, MaxVersionsAssumption DEF RetentionInv, Awaited
<1>2. IInv /\ RetentionInv /\ [Next]_vars => RetentionInv'
  BY TxKeepsRetention, ListKeepsRetention, DeleteKeepsRetention, RestKeepsRetention
<1>3. RetentionInv => PrunerIsComing
  BY DEF RetentionInv, Awaited, Comes, PrunerIsComing
<1>4. QED
  BY <1>1, <1>2, <1>3, Inductive, PTL DEF Spec
=============================================================================
