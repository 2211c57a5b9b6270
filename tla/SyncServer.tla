----------------------------- MODULE SyncServer -----------------------------
(***************************************************************************)
(* The write side of the sync API: negotiate, commit, the legacy one-shot  *)
(* upload and the version pruner that each successful commit starts, over  *)
(* the SQLite tables files and file_versions and the in-memory negotiation *)
(* store.  Requests run in one Node process and interleave at every await: *)
(* an action is the code between two awaits, except that the callback of   *)
(* db.transaction is one action (SQLite serializes transactions).          *)
(*                                                                         *)
(* Abstracted: a file is its (userId, path) key; a version row keeps only  *)
(* its file, its number and, as history, the snapshot and the token it was *)
(* made from; chunks, sizes and responses are left out.  The sync_jobs and *)
(* outbox_events rows that the same transaction inserts are one for each   *)
(* issued version id (the Outbox module takes them from there).            *)
(***************************************************************************)
EXTENDS Naturals, FiniteSets, FiniteSetsExt

CONSTANTS Requests,     \* slots for requests the server handles concurrently
          Files,        \* the (userId, path) pairs
          VersionIds,   \* bound: the version ids that can be issued
          NegIds,       \* bound: the negotiation ids that can be issued
          MaxVersions,  \* MAX_VERSIONS_PER_FILE
          MaxFaults,    \* bound: pruner failures and process restarts
          None          \* SQL null, and "no value"

ASSUME NoneAssumption == /\ None \notin Files
                         /\ None \notin VersionIds
                         /\ None \notin NegIds
ASSUME MaxVersionsAssumption == MaxVersions \in Nat \ {0}
ASSUME MaxFaultsAssumption == MaxFaults \in Nat

VARIABLES curr,         \* files: curr[f] is current_version_id, None without a row
          version,      \* version[v]: what was inserted as row v (kept when deleted)
          rows,         \* file_versions: the ids that are in the table now
          negotiation,  \* negotiation[n]: the payload stored under n
          live,         \* the ids the in-memory store still answers for
          req,          \* req[r]: where request r is and what it holds
          faults        \* pruner failures and restarts so far

vars == <<curr, version, rows, negotiation, live, req, faults>>

db == <<curr, version, rows>>
tokens == <<negotiation, live>>

UnissuedVersion == [file |-> None, no |-> 0, base |-> None, neg |-> None]
UnissuedToken == [file |-> None, snap |-> None]
Idle == [at |-> "idle", file |-> None, snap |-> None, neg |-> None, doomed |-> {}]

Issued == {v \in VersionIds : version[v].file # None}
RowsOf(f) == {v \in rows : version[v].file = f}
(* Mutant: the number of rows plus one, which pruning makes come twice.    *)
CountRows(f) == Cardinality(RowsOf(f)) + 1
(* coalesce(max(version_no), 0) + 1 over the rows of the file.             *)
NextVer(f) == Max({0} \cup {version[v].no : v \in RowsOf(f)}) + 1

Init == /\ curr = [f \in Files |-> None]
        /\ version = [v \in VersionIds |-> UnissuedVersion]
        /\ rows = {}
        /\ negotiation = [n \in NegIds |-> UnissuedToken]
        /\ live = {}
        /\ req = [r \in Requests |-> Idle]
        /\ faults = 0

-----------------------------------------------------------------------------
(* negotiate.ts and upload.ts start by reading the file's current version; *)
(* what follows (HEADs, presigning, streaming literals) takes arbitrarily  *)
(* long and uses that snapshot.                                            *)
Snapshot(r, f, at) ==
  /\ req[r].at = "idle"
  /\ req' = [req EXCEPT ![r] = [at |-> at, file |-> f, snap |-> curr[f],
                                neg |-> None, doomed |-> {}]]
  /\ UNCHANGED <<db, tokens, faults>>

NegotiateRead(r, f) == Snapshot(r, f, "negotiating")
UploadRead(r, f) == Snapshot(r, f, "uploading")

(* Every HEAD and URL is done: store the payload under a fresh UUID, reply.*)
NegotiateStore(r, n) ==
  /\ req[r].at = "negotiating"
  /\ negotiation[n] = UnissuedToken
  /\ negotiation' = [negotiation EXCEPT ![n] = [file |-> req[r].file, snap |-> req[r].snap]]
  /\ live' = live \cup {n}
  /\ req' = [req EXCEPT ![r] = Idle]
  /\ UNCHANGED <<db, faults>>

(* Mutant: commit compares against the version current when it arrives.    *)
CommitGetFresh(r, n) ==
  /\ req[r].at = "idle"
  /\ n \in live
  /\ req' = [req EXCEPT ![r] = [at |-> "committing", file |-> negotiation[n].file,
                                snap |-> curr[negotiation[n].file], neg |-> n, doomed |-> {}]]
  /\ UNCHANGED <<db, tokens, faults>>

(* getNegotiation reads without consuming, so any number of commits may    *)
(* hold the same token.  A token that is not live gets 410 and no change.  *)
CommitGet(r, n) ==
  /\ req[r].at = "idle"
  /\ n \in live
  /\ req' = [req EXCEPT ![r] = [at |-> "committing", file |-> negotiation[n].file,
                                snap |-> negotiation[n].snap, neg |-> n, doomed |-> {}]]
  /\ UNCHANGED <<db, tokens, faults>>

-----------------------------------------------------------------------------
(* Mutants: no check at all, and a check that only lets new files through. *)
NeverMoved(r) == req[r].at # "idle"
OnlyNewFiles(r) == curr[req[r].file] = None

(* The compare-and-swap transaction of commit.ts, repeated in upload.ts.   *)
Unmoved(r) == curr[req[r].file] = req[r].snap

Publish(r, v, at) ==
  LET f == req[r].file IN
  /\ Unmoved(r)
  /\ version[v] = UnissuedVersion
  /\ version' = [version EXCEPT ![v] = [file |-> f, no |-> NextVer(f),
                                        base |-> req[r].snap, neg |-> req[r].neg]]
  /\ rows' = rows \cup {v}
  /\ curr' = [curr EXCEPT ![f] = v]
  /\ req' = [req EXCEPT ![r].at = at]
  /\ UNCHANGED <<tokens, faults>>

(* Mutant: the snapshot is written back instead of rolling back.           *)
RestoreSnapshot(r) ==
  /\ curr[req[r].file] # req[r].snap
  /\ curr' = [curr EXCEPT ![req[r].file] = req[r].snap]
  /\ req' = [req EXCEPT ![r] = Idle]
  /\ UNCHANGED <<version, rows, tokens, faults>>

(* STALE: the transaction rolls back, the reply is 409, the token stays.   *)
Stale(r) ==
  /\ ~Unmoved(r)
  /\ req' = [req EXCEPT ![r] = Idle]
  /\ UNCHANGED <<db, tokens, faults>>

CommitTx(r, v) == req[r].at = "committing" /\ Publish(r, v, "committed")
CommitStale(r) == req[r].at = "committing" /\ Stale(r)
UploadTx(r, v) == req[r].at = "uploading" /\ Publish(r, v, "prune")
UploadStale(r) == req[r].at = "uploading" /\ Stale(r)

(* Consume the token, then start the pruner without waiting for it.        *)
CommitClear(r) ==
  /\ req[r].at = "committed"
  /\ live' = live \ {req[r].neg}
  /\ req' = [req EXCEPT ![r].at = "prune"]
  /\ UNCHANGED <<db, negotiation, faults>>

-----------------------------------------------------------------------------
(* pruneFileVersions: three statements, no transaction around them.        *)
PruneReadCurrent(r) ==
  /\ req[r].at = "prune"
  /\ req' = [req EXCEPT ![r] = [@ EXCEPT !.at = "prune_list", !.snap = curr[req[r].file]]]
  /\ UNCHANGED <<db, tokens, faults>>

(* Mutants: rows in ascending order, and one row too many.                 *)
Oldest(f) ==
  {v \in RowsOf(f) :
     Cardinality({w \in RowsOf(f) : version[w].no < version[v].no}) < MaxVersions}
NewestAndOne(f) ==
  {v \in RowsOf(f) :
     Cardinality({w \in RowsOf(f) : version[w].no > version[v].no}) <= MaxVersions}

(* allVersions.slice(0, MAX_VERSIONS) of the rows in descending order.     *)
Newest(f) ==
  {v \in RowsOf(f) :
     Cardinality({w \in RowsOf(f) : version[w].no > version[v].no}) < MaxVersions}

Doomed(r) == RowsOf(req[r].file) \ (Newest(req[r].file) \cup {req[r].snap})

PruneNothing(r) ==
  /\ req[r].at = "prune_list"
  /\ Doomed(r) = {}
  /\ req' = [req EXCEPT ![r] = Idle]
  /\ UNCHANGED <<db, tokens, faults>>

PruneList(r) ==
  /\ req[r].at = "prune_list"
  /\ Doomed(r) # {}
  /\ req' = [req EXCEPT ![r] = [@ EXCEPT !.at = "prune_delete", !.doomed = Doomed(r)]]
  /\ UNCHANGED <<db, tokens, faults>>

PruneDelete(r) ==
  /\ req[r].at = "prune_delete"
  /\ rows' = rows \ req[r].doomed
  /\ req' = [req EXCEPT ![r] = Idle]
  /\ UNCHANGED <<curr, version, tokens, faults>>

-----------------------------------------------------------------------------
(* The token's hour is over, or the sweep removes it.                      *)
Expire(n) ==
  /\ n \in live
  /\ live' = live \ {n}
  /\ UNCHANGED <<db, negotiation, req, faults>>

(* The request ends before its transaction took effect: S3 or the database *)
(* throws (5xx), or the sizes or a copy operation do not fit (400).        *)
Reject(r) ==
  /\ req[r].at \in {"negotiating", "uploading", "committing"}
  /\ req' = [req EXCEPT ![r] = Idle]
  /\ UNCHANGED <<db, tokens, faults>>

(* A pruner statement throws: it is logged and the pruner gives up.        *)
PruneFail(r) ==
  /\ faults < MaxFaults
  /\ req[r].at \in {"prune", "prune_list", "prune_delete"}
  /\ req' = [req EXCEPT ![r] = Idle]
  /\ faults' = faults + 1
  /\ UNCHANGED <<db, tokens>>

(* The process dies and is started again: tables stay, memory is lost.     *)
Restart ==
  /\ faults < MaxFaults
  /\ req' = [r \in Requests |-> Idle]
  /\ live' = {}
  /\ faults' = faults + 1
  /\ UNCHANGED <<db, negotiation>>

Step(r) ==
  \/ \E f \in Files : NegotiateRead(r, f)
  \/ \E n \in NegIds : NegotiateStore(r, n)
  \/ \E n \in NegIds : CommitGet(r, n)
  \/ \E v \in VersionIds : CommitTx(r, v)
  \/ CommitStale(r)
  \/ CommitClear(r)
  \/ \E f \in Files : UploadRead(r, f)
  \/ \E v \in VersionIds : UploadTx(r, v)
  \/ UploadStale(r)
  \/ PruneReadCurrent(r)
  \/ PruneNothing(r)
  \/ PruneList(r)
  \/ PruneDelete(r)
  \/ Reject(r)
  \/ PruneFail(r)

Next == \/ \E r \in Requests : Step(r)
        \/ \E n \in NegIds : Expire(n)
        \/ Restart

Spec == Init /\ [][Next]_vars

-----------------------------------------------------------------------------
(* Type invariant.                                                         *)
Ats == {"idle", "negotiating", "uploading", "committing", "committed",
        "prune", "prune_list", "prune_delete"}

VersionRecords == [file : Files \cup {None}, no : Nat,
                   base : VersionIds \cup {None}, neg : NegIds \cup {None}]
RequestRecords == [at : Ats, file : Files \cup {None}, snap : VersionIds \cup {None},
                   neg : NegIds \cup {None}, doomed : SUBSET VersionIds]

TypeOK ==
  /\ curr \in [Files -> VersionIds \cup {None}]
  /\ version \in [VersionIds -> VersionRecords]
  /\ rows \subseteq VersionIds
  /\ negotiation \in [NegIds -> [file : Files \cup {None}, snap : VersionIds \cup {None}]]
  /\ live \subseteq NegIds
  /\ req \in [Requests -> RequestRecords]
  /\ faults \in Nat

(* The row files.currentVersionId points at exists, belongs to the file    *)
(* and has the highest version number in the table, whatever pruners are   *)
(* running: signatures.ts and negotiate.ts, which follow the pointer, and  *)
(* download.ts and info.ts, which take the highest number, agree, and the  *)
(* pruner never deletes the current version (version-pruner.ts:6).         *)
CurrentIsNewestRow ==
  \A f \in Files :
    /\ curr[f] = None <=> RowsOf(f) = {}
    /\ curr[f] # None => /\ curr[f] \in RowsOf(f)
                         /\ \A v \in RowsOf(f) : version[v].no <= version[curr[f]].no

(* No lost update: two versions of a file are never built on the same      *)
(* snapshot, however many clients negotiated, retried or uploaded at once. *)
NoForks ==
  \A v, w \in Issued :
    version[v].file = version[w].file /\ version[v].base = version[w].base => v = w

(* A token is honoured at most once, although commit only reads it and     *)
(* clears it after the transaction: two commits of one token, a retry      *)
(* after a lost reply, cannot both insert a version (commit.ts:48).        *)
OneVersionPerToken ==
  \A v, w \in Issued : version[v].neg # None /\ version[v].neg = version[w].neg => v = w

(* A 409 always has a winner: a request whose snapshot is no longer        *)
(* current was overtaken by a version built on that same snapshot, so the  *)
(* check never rejects everybody.                                          *)
ConflictHasWinner ==
  \A r \in Requests :
    req[r].at \in {"committing", "uploading"} /\ ~Unmoved(r)
      => \E v \in Issued : /\ version[v].file = req[r].file
                           /\ version[v].base = req[r].snap

(* Once a token's snapshot is overtaken it stays overtaken (the pointer    *)
(* never returns to an earlier version), so a commit retried with the same *)
(* token can only get 409 again.                                           *)
Overtaken(n) == negotiation[n].file # None /\ curr[negotiation[n].file] # negotiation[n].snap
OvertakenForGood == [][\A n \in NegIds : Overtaken(n) => Overtaken(n)']_vars

(* Retention without faults: whenever a file has more rows than            *)
(* MAX_VERSIONS_PER_FILE, some request still has to list them, or holds a  *)
(* list whose deletion brings the file back to the limit.  Two pruners     *)
(* with lists of different ages never leave it over the limit.             *)
PrunerIsComing ==
  faults = 0 =>
    \A f \in Files : Cardinality(RowsOf(f)) > MaxVersions =>
      \E r \in Requests :
        /\ req[r].file = f
        /\ \/ req[r].at \in {"committed", "prune", "prune_list"}
           \/ /\ req[r].at = "prune_delete"
              /\ Cardinality(RowsOf(f) \ req[r].doomed) <= MaxVersions

(* The server implements the abstract versioned register.                  *)
VH == INSTANCE VersionHistory WITH
        history <- [v \in VersionIds |-> [file |-> version[v].file, no |-> version[v].no,
                                         base |-> version[v].base]]
ImplementsVersionHistory == VH!Spec
=============================================================================
