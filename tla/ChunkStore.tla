----------------------------- MODULE ChunkStore -----------------------------
(***************************************************************************)
(* The content-addressed chunk store of one file and who changes it while  *)
(* others look: clients that push (negotiate asks the bucket which chunks  *)
(* it lacks, the client PUTs them, commit inserts the version row, whether *)
(* they have all arrived or not) or use the upload endpoint, the pruner,   *)
(* and server/gc.ts, which reads all manifests page by page, then an       *)
(* inventory report of the bucket, and deletes what it takes for orphans.  *)
(* An action ends at each await.                                           *)
(*                                                                         *)
(* Abstracted: a version is its set of chunks; its id, a random UUID, is a *)
(* place in the id order that nothing else determines.  An object key is   *)
(* <<n, h>>: hash h behind n two-letter prefixes.  Downloads adds the      *)
(* temp- objects; the legacy blocks table, which nothing fills, is left    *)
(* out.                                                                    *)
(***************************************************************************)
EXTENDS Naturals, FiniteSets, FiniteSetsExt

CONSTANTS Hashes,     \* the chunks there are
          NumIds,     \* bound: the versions that are ever created
          Clients,
          Routes,     \* the ways to store a version in use: "push", "upload"
          PageSize,   \* PAGE_SIZE of buildReferenceSet
          MaxRuns     \* bound: garbage collections

ASSUME SizesAssumption == PageSize \in Nat \ {0} /\ NumIds \in Nat /\ MaxRuns \in Nat
ASSUME RoutesAssumption == Routes \subseteq {"push", "upload"}

VARIABLES objects,    \* the keys in the bucket
          manifest,   \* manifest[v]: the chunks of version v
          used,       \* the ids that were ever given to a version
          rows,       \* the ids in file_versions
          current,    \* currentVersionId, 0 for null
          client,     \* client[c]: the request client c is in
          gc, runs,   \* the garbage collector
          unsent      \* history: chunks a version was committed without, that
                      \* nobody has put since

vars == <<objects, manifest, used, rows, current, client, gc, runs, unsent>>

Ids == 1 .. NumIds

(* getS3Key puts the first two letters of whatever it is given in front.   *)
Hash(h) == <<0, h>>
S3Key(k) == <<k[1] + 1, k[2]>>
(* negotiate, resume and block-store use getS3Key; upload.ts the bare hash.*)
StoreKey(route, h) == IF route = "push" THEN S3Key(Hash(h)) ELSE Hash(h)

(* In the bucket, under whatever key.                                      *)
Stored(h) == \E k \in objects : k[2] = h

NoRequest == [at |-> "idle", route |-> "push", chunks |-> {}, snapshot |-> 0,
              todo |-> {}, missing |-> {}]
NoGc == [at |-> "idle", refs |-> {}, lastId |-> 0, old |-> {}, orphans |-> {}]

Init == /\ objects = {}
        /\ manifest = [v \in Ids |-> {}]
        /\ used = {} /\ rows = {} /\ current = 0
        /\ client = [c \in Clients |-> NoRequest]
        /\ gc = NoGc /\ runs = 0
        /\ unsent = {}

-----------------------------------------------------------------------------
(* Storing a version                                                       *)
PrevChunks == IF current = 0 THEN {} ELSE manifest[current]

(* negotiate: chunks of the previous version are not looked up at all.     *)
Negotiate(c, wanted) ==
  /\ client[c].at = "idle" /\ "push" \in Routes
  /\ client' = [client EXCEPT ![c] = [at |-> "head", route |-> "push", chunks |-> wanted,
                                      snapshot |-> current, todo |-> wanted \ PrevChunks,
                                      missing |-> {}]]
  /\ UNCHANGED <<objects, manifest, used, rows, current, gc, runs, unsent>>

(* upload: chunks copied from the previous version and literal ones.       *)
Upload(c, copied, literals) ==
  /\ client[c].at = "idle" /\ "upload" \in Routes
  /\ copied \subseteq PrevChunks
  /\ client' = [client EXCEPT ![c] = [at |-> "head", route |-> "upload",
                                      chunks |-> copied \cup literals, snapshot |-> current,
                                      todo |-> literals, missing |-> {}]]
  /\ UNCHANGED <<objects, manifest, used, rows, current, gc, runs, unsent>>

(* One blockExists call.  negotiate makes them all before it answers with  *)
(* the upload URLs; upload stores a literal before it looks at the next.   *)
Answered(r, h) ==
  [r EXCEPT !.todo = @ \ {h},
            !.missing = IF StoreKey(r.route, h) \in objects THEN @ ELSE @ \cup {h}]
Head(c, h) ==
  /\ client[c].at = "head" /\ h \in client[c].todo
  /\ client[c].route = "upload" => client[c].missing = {}
  /\ client' = [client EXCEPT ![c] = Answered(@, h)]
  /\ UNCHANGED <<objects, manifest, used, rows, current, gc, runs, unsent>>

(* The PUT to a presigned URL, or the CopyObject from the temporary key.   *)
Put(c, h) ==
  /\ client[c].at = "head" /\ h \in client[c].missing
  /\ client[c].route = "push" => client[c].todo = {}
  /\ objects' = objects \cup {StoreKey(client[c].route, h)}
  /\ client' = [client EXCEPT ![c].missing = @ \ {h}]
  /\ unsent' = unsent \ {h}
  /\ UNCHANGED <<manifest, used, rows, current, gc, runs>>

(* A PUT that no request here waits for: of a client that has committed or *)
(* given up (its presigned URLs are good for an hour), or that pushes      *)
(* another file with this chunk in it.                                     *)
LatePut(h) ==
  /\ objects' = objects \cup {S3Key(Hash(h))}
  /\ unsent' = unsent \ {h}
  /\ UNCHANGED <<manifest, used, rows, current, client, gc, runs>>

(* The transaction of commit.ts and upload.ts; the id is any unused one.   *)
(* upload has stored its literals by then.  commit looks at no chunk: the  *)
(* CLI calls it with chunks it dropped, and with PUTs under way.           *)
Commit(c, v) ==
  /\ client[c].at = "head" /\ client[c].todo = {}
  /\ client[c].route = "upload" => client[c].missing = {}
  /\ client[c].snapshot = current
  /\ v \in Ids \ used
  /\ manifest' = [manifest EXCEPT ![v] = client[c].chunks]
  /\ used' = used \cup {v}
  /\ rows' = rows \cup {v}
  /\ current' = v
  /\ client' = [client EXCEPT ![c] = NoRequest]
  /\ unsent' = unsent \cup {h \in client[c].missing : ~Stored(h)}
  /\ UNCHANGED <<objects, gc, runs>>

(* 409, a failed request, or a client that goes away: its chunks stay.     *)
GiveUp(c) ==
  /\ client[c].at # "idle"
  /\ client' = [client EXCEPT ![c] = NoRequest]
  /\ UNCHANGED <<objects, manifest, used, rows, current, gc, runs, unsent>>

(* The pruner deletes a row that is not current.                           *)
Prune(v) ==
  /\ v \in rows \ {current}
  /\ rows' = rows \ {v}
  /\ UNCHANGED <<objects, manifest, used, current, client, gc, runs, unsent>>

-----------------------------------------------------------------------------
(* runGarbageCollection                                                    *)
GcStart ==
  /\ gc.at = "idle" /\ runs < MaxRuns
  /\ gc' = [NoGc EXCEPT !.at = "page", !.old = rows]
  /\ runs' = runs + 1
  /\ UNCHANGED <<objects, manifest, used, rows, current, client, unsent>>

(* CompressedHashSet, a set in buckets: add and has.                       *)
WithHashes(refs, hashes) == refs \cup hashes
HasHash(refs, k) == k[2] \in refs

(* One page of buildReferenceSet: ids above the cursor, in order.          *)
After == {v \in rows : v > gc.lastId}
Page == {v \in After : Cardinality({u \in After : u < v}) < PageSize}
(* Mutant: a full page is taken for the last one.                          *)
LastWhenFull(page) == Cardinality(page) <= PageSize
LastPage(page) == Cardinality(page) < PageSize
GcPage ==
  /\ gc.at = "page"
  /\ gc' = [gc EXCEPT !.refs = WithHashes(@, UNION {manifest[v] : v \in Page}),
                      !.lastId = IF Page = {} THEN @ ELSE Max(Page),
                      !.at = IF LastPage(Page) THEN "report" ELSE "page"]
  /\ UNCHANGED <<objects, manifest, used, rows, current, client, runs, unsent>>

(* reconcileWithInventory: what the report lists and no manifest names.    *)
(* The report is up to a day old: it may lack any object.                  *)
GcReport(report) ==
  /\ gc.at = "report"
  /\ gc' = [gc EXCEPT !.at = "delete", !.orphans = {k \in report : ~HasHash(gc.refs, k)}]
  /\ UNCHANGED <<objects, manifest, used, rows, current, client, runs, unsent>>

(* Mutant: the key is deleted as listed.                                   *)
DeleteListed(k) ==
  /\ gc.at = "delete" /\ k \in gc.orphans
  /\ objects' = objects \ {k}
  /\ gc' = [gc EXCEPT !.orphans = @ \ {k}]
  /\ UNCHANGED <<manifest, used, rows, current, client, runs, unsent>>

(* One key of a DeleteObjects batch.  The listed key goes through getS3Key *)
(* a second time.                                                          *)
GcDelete(k) ==
  /\ gc.at = "delete" /\ k \in gc.orphans
  /\ objects' = objects \ {S3Key(k)}
  /\ gc' = [gc EXCEPT !.orphans = @ \ {k}]
  /\ UNCHANGED <<manifest, used, rows, current, client, runs, unsent>>

(* The run completes, or fails or crashes wherever it is.                  *)
GcDone == /\ gc.at = "delete" /\ gc.orphans = {}
          /\ gc' = NoGc
          /\ UNCHANGED <<objects, manifest, used, rows, current, client, runs, unsent>>
GcFail == /\ gc.at # "idle"
          /\ gc' = NoGc
          /\ UNCHANGED <<objects, manifest, used, rows, current, client, runs, unsent>>

GcStep == \/ GcPage
          \/ \E report \in SUBSET objects : GcReport(report)
          \/ \E k \in gc.orphans : GcDelete(k)
          \/ GcDone
ClientStep(c) == \/ \E wanted \in SUBSET Hashes : Negotiate(c, wanted)
                 \/ \E copied, literals \in SUBSET Hashes : Upload(c, copied, literals)
                 \/ \E h \in Hashes : Head(c, h) \/ Put(c, h)
                 \/ \E v \in Ids : Commit(c, v)
                 \/ GiveUp(c)
Next == \/ \E c \in Clients : ClientStep(c)
        \/ \E h \in Hashes : LatePut(h)
        \/ \E v \in Ids : Prune(v)
        \/ GcStart \/ GcStep \/ GcFail

(* The dispatcher awaits runGarbageCollection: node continues it.          *)
Spec == Init /\ [][Next]_vars /\ WF_vars(GcStep)

-----------------------------------------------------------------------------
(* Type invariant.                                                         *)
Keys == (0 .. 2) \X Hashes
TypeOK ==
  /\ objects \subseteq Keys
  /\ manifest \in [Ids -> SUBSET Hashes]
  /\ rows \subseteq used /\ used \subseteq Ids /\ current \in rows \cup {0}
  /\ client \in [Clients -> [at : {"idle", "head"}, route : {"push", "upload"},
                             chunks : SUBSET Hashes, snapshot : Ids \cup {0},
                             todo : SUBSET Hashes, missing : SUBSET Hashes]]
  /\ gc \in [at : {"idle", "page", "report", "delete"}, refs : SUBSET Hashes,
             lastId : Ids \cup {0}, old : SUBSET Ids, orphans : SUBSET Keys]
  /\ runs \in 0 .. MaxRuns
  /\ unsent \subseteq Hashes

(* However commits and prunes fall between the pages, the collector knows  *)
(* every chunk of every version that existed when it started and is still  *)
(* there.                                                                  *)
ReferencesAreComplete ==
  gc.at \in {"report", "delete"}
    => \A v \in gc.old \cap rows : manifest[v] \subseteq gc.refs

(* No collection makes a chunk that a version names disappear from the     *)
(* bucket: whatever is collected while the version is being stored, and    *)
(* whatever it takes over unseen from its predecessor, each of its chunks  *)
(* is there under some key, unless some version was committed without it   *)
(* (commit.ts looks at none) and nobody has sent it since.                 *)
Accounted(h) == Stored(h) \/ h \in unsent
NoChunkIsLost == \A v \in rows : \A h \in manifest[v] : Accounted(h)

(* A collection comes to an end although rows are inserted and deleted     *)
(* between its pages: every page but the last moves the cursor up.         *)
CursorAdvances ==
  [][gc.at = "page" /\ gc'.at = "page" => gc'.lastId > gc.lastId]_gc
=============================================================================
