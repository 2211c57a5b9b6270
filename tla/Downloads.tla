------------------------------ MODULE Downloads ------------------------------
(***************************************************************************)
(* ChunkStore with those who read it, and with the temporary objects of    *)
(* the upload endpoint.  A reader (download.ts, downloadVersion of the     *)
(* dashboard) selects a version row with its manifest and then fetches the *)
(* chunks under their sharded keys, while versions are stored, pruned and  *)
(* collected.  A version may be read whatever its verification has found:  *)
(* the dashboard does not look, download.ts refuses a corrupted one and,   *)
(* without force=true, a pending one (Outbox has the verdicts).  The       *)
(* upload endpoint streams a literal to an object temp-<uuid> before it    *)
(* knows its hash, copies it to the key of the hash unless that exists,    *)
(* and deletes it; a request that dies leaves it.                          *)
(***************************************************************************)
EXTENDS ChunkStore

CONSTANTS Readers,
          Temps,    \* the uuids of temporary objects; bound on their number
          MaxReads  \* bound: downloads

ASSUME ReadsAssumption == MaxReads \in Nat

VARIABLES reader,   \* reader[r]: the download r is in
          reads,    \* downloads started (bound)
          temps,    \* the temporary objects in the bucket
          spent,    \* the uuids that were ever used
          source,   \* source[c]: the literal c has in a temporary object
          doomed    \* temporary objects among the orphans of the collector

readVars == <<reader, reads>>
tempVars == <<temps, spent, source, doomed>>
allVars == <<vars, readVars, tempVars>>

NotReading == [at |-> "idle", version |-> 0, todo |-> {}, lost |-> {}]
NoSource == [temp |-> {}, hash |-> {}, done |-> FALSE]

DInit == /\ Init
         /\ reader = [r \in Readers |-> NotReading] /\ reads = 0
         /\ temps = {} /\ spent = {} /\ doomed = {}
         /\ source = [c \in Clients |-> NoSource]

-----------------------------------------------------------------------------
(* Reading a version.                                                      *)

(* getFileDetail: the versions of a file with their blocks.  The page that *)
(* asked shows them for as long as it is open, so that any version there   *)
(* ever was may still be on one.                                           *)
Detail == [v \in used |-> manifest[v]]

(* The row, if the version is there, with its manifest in one select.      *)
SelectVersion(r, v) ==
  /\ v \in rows
  /\ reader' = [reader EXCEPT ![r] = [at |-> "reading", version |-> v,
                                      todo |-> manifest[v], lost |-> {}]]

(* It is not: the version was pruned (404).                                *)
VersionGone(r, v) ==
  /\ v \notin rows
  /\ reader' = [reader EXCEPT ![r] = [NotReading EXCEPT !.at = "notFound", !.version = v]]

(* handleDownload: a click on a version of the page.                       *)
Click(r, v) ==
  /\ reader[r].at # "reading" /\ reads < MaxReads
  /\ v \in DOMAIN Detail
  /\ SelectVersion(r, v) \/ VersionGone(r, v)
  /\ reads' = reads + 1

(* Mutant: the reader looks up the bare hash, as upload does.              *)
FetchBare(r, h) ==
  /\ reader[r].at = "reading" /\ h \in reader[r].todo
  /\ \/ /\ Hash(h) \in objects
        /\ reader' = [reader EXCEPT ![r].todo = @ \ {h}]
     \/ /\ Hash(h) \notin objects
        /\ reader' = [reader EXCEPT ![r].at = "broken", ![r].lost = {h}]
  /\ UNCHANGED reads

(* fetchBlock: the object under the sharded key, or the stream breaks.     *)
FetchBlock(r, h) ==
  /\ reader[r].at = "reading" /\ h \in reader[r].todo
  /\ \/ /\ S3Key(Hash(h)) \in objects
        /\ reader' = [reader EXCEPT ![r].todo = @ \ {h}]
     \/ /\ S3Key(Hash(h)) \notin objects
        /\ reader' = [reader EXCEPT ![r].at = "broken", ![r].lost = {h}]
  /\ UNCHANGED reads

CloseStream(r) ==
  /\ reader[r].at = "reading" /\ reader[r].todo = {}
  /\ reader' = [reader EXCEPT ![r].at = "whole"]
  /\ UNCHANGED reads

Read(r) == \/ \E v \in Ids : Click(r, v)
           \/ \E h \in Hashes : FetchBlock(r, h)
           \/ CloseStream(r)

-----------------------------------------------------------------------------
(* The temporary objects of an upload, one literal after the other.        *)
TempPut(c, h, t) ==
  /\ client[c].at = "head" /\ client[c].route = "upload"
  /\ h \in client[c].todo /\ source[c] = NoSource
  /\ t \in Temps \ spent
  /\ temps' = temps \cup {t} /\ spent' = spent \cup {t}
  /\ source' = [source EXCEPT ![c] = [temp |-> {t}, hash |-> {h}, done |-> FALSE]]
  /\ UNCHANGED <<vars, doomed>>

(* HEAD of the hash, when the literal is stored and hashed.                *)
HeadLiteral(c, h) ==
  /\ Head(c, h)
  /\ client[c].route = "upload" => h \in source[c].hash
  /\ source' = [source EXCEPT ![c].done =
                  client[c].route = "upload" /\ StoreKey("upload", h) \in objects]
  /\ UNCHANGED <<temps, spent, doomed>>

(* CopyObject; without its source it throws and the request is over        *)
(* (GiveUp).                                                               *)
CopyOrPut(c, h) ==
  /\ Put(c, h)
  /\ client[c].route = "upload" => source[c].temp \subseteq temps
  /\ source' = [source EXCEPT ![c].done = client[c].route = "upload"]
  /\ UNCHANGED <<temps, spent, doomed>>

TempDelete(c) ==
  /\ source[c].done
  /\ temps' = temps \ source[c].temp
  /\ source' = [source EXCEPT ![c] = NoSource]
  /\ UNCHANGED <<vars, spent, doomed>>

(* The next literal, and the commit, come after the deletion; a request    *)
(* that gives up leaves its temporary object behind.                       *)
CommitUpload(c, v) ==
  /\ Commit(c, v) /\ source[c] = NoSource /\ UNCHANGED tempVars
Abandon(c) ==
  /\ GiveUp(c)
  /\ source' = [source EXCEPT ![c] = NoSource]
  /\ UNCHANGED <<temps, spent, doomed>>

-----------------------------------------------------------------------------
(* Mutant: temporary objects are orphans like any other.                   *)
SkipsNothing(report) == report

(* reconcileWithInventory: keys that start with temp- are not looked at.   *)
NotSkipped(report) == {}

GcReportAll(report, listed) ==
  /\ GcReport(report)
  /\ doomed' = NotSkipped(listed)
  /\ UNCHANGED <<temps, spent, source>>

(* The batches are deleted before the run is marked completed; getS3Key    *)
(* leaves a temporary key as it is.                                        *)
GcDoneAll ==
  /\ GcDone
  /\ temps' = temps \ doomed /\ doomed' = {}
  /\ UNCHANGED <<spent, source>>
GcFailAll ==
  /\ GcFail
  /\ \E gone \in SUBSET doomed : temps' = temps \ gone
  /\ doomed' = {}
  /\ UNCHANGED <<spent, source>>

Store(c) ==
  \/ \E wanted \in SUBSET Hashes : Negotiate(c, wanted) /\ UNCHANGED tempVars
  \/ \E copied, literals \in SUBSET Hashes : Upload(c, copied, literals) /\ UNCHANGED tempVars
  \/ \E h \in Hashes, t \in Temps : TempPut(c, h, t)
  \/ \E h \in Hashes : HeadLiteral(c, h) \/ CopyOrPut(c, h)
  \/ TempDelete(c)
  \/ \E v \in Ids : CommitUpload(c, v)
  \/ Abandon(c)

Collect ==
  \/ GcPage /\ UNCHANGED tempVars
  \/ \E report \in SUBSET objects, listed \in SUBSET temps : GcReportAll(report, listed)
  \/ \E k \in gc.orphans : GcDelete(k) /\ UNCHANGED tempVars
  \/ GcDoneAll

DNext == \/ \E r \in Readers : Read(r) /\ UNCHANGED <<vars, tempVars>>
         \/ \E c \in Clients : Store(c) /\ UNCHANGED readVars
         \/ \E h \in Hashes : LatePut(h) /\ UNCHANGED <<readVars, tempVars>>
         \/ \E v \in Ids : Prune(v) /\ UNCHANGED <<readVars, tempVars>>
         \/ GcStart /\ UNCHANGED <<readVars, tempVars>>
         \/ Collect /\ UNCHANGED readVars
         \/ GcFailAll /\ UNCHANGED readVars

DSpec == DInit /\ [][DNext]_allVars /\ WF_vars(GcStep)

-----------------------------------------------------------------------------
(* A download breaks over a chunk only if a client of the upload endpoint  *)
(* stored that chunk, under the bare hash that upload.ts:236 writes and no *)
(* reader looks at (once no manifest names it, that object even has the    *)
(* collector delete the sharded one, gc.ts:194), or if a version was       *)
(* committed without it (push.ts:216, 228) and nobody has sent it since.   *)
(* Nothing else that is stored, pruned or collected after a download has   *)
(* read its manifest breaks it.                                            *)
Breaks(r) == reader[r].at = "reading" /\ reader'[r].at = "broken"
BreaksHaveCause ==
  [][\A r \in Readers : Breaks(r) =>
       \A h \in reader'[r].lost : Hash(h) \in objects \/ h \in unsent]_reader

(* The source of a copy is there until the copy is made, whatever the      *)
(* collector lists meanwhile (gc.ts:178).                                  *)
UploadsKeepTheirSource ==
  \A c \in Clients : ~source[c].done => source[c].temp \subseteq temps
=============================================================================
