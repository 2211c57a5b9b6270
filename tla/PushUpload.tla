----------------------------- MODULE PushUpload -----------------------------
(***************************************************************************)
(* deltasync push of one path, again and again on one machine: the session *)
(* that performPush resumes or negotiates, the adaptive pool of            *)
(* asynchronous workers that uploads the missing chunks, the local journal *)
(* of completed chunks, and the commit, while the user edits the file, the *)
(* process dies, requests fail and the server loses its tokens.            *)
(* JavaScript runs one continuation at a time: an action is what happens   *)
(* between two awaits of one worker (the answer to a PUT, the end of a     *)
(* back-off delay) or of performPush itself.                               *)
(*                                                                         *)
(* Abstracted: a content is its set of chunks, and chunks are numbered in  *)
(* the order of the upload list; latencies are fast or slow, delays take   *)
(* any time; the lookups of one negotiation are one step, since no other   *)
(* push runs.  TwoWaySync has the other machines, and the 409 they cause.  *)
(***************************************************************************)
EXTENDS Integers, FiniteSets, FiniteSetsExt

CONSTANTS Contents,      \* what the file can contain, as sets of chunks
          None,          \* no such row, token or version
          Concurrency,   \* UPLOAD_CONCURRENCY
          RaiseAfter,    \* fast successes in a row that raise the limit (5)
          MaxSlowDowns,  \* bound: 503 and 429 answers
          MaxErrors,     \* bound: PUTs that fail in any other way
          MaxFaults,     \* bound: crashes, failing requests, lost replies, tokens lost
          MaxEdits       \* bound: edits of the file

ASSUME SizesAssumption == Concurrency \in Nat \ {0} /\ RaiseAfter \in Nat \ {0}
ASSUME ContentsAssumption == /\ None \notin Contents
                             /\ \A d \in Contents : d \subseteq Nat /\ IsFiniteSet(d)
ASSUME BoundsAssumption == /\ MaxSlowDowns \in Nat /\ MaxErrors \in Nat
                           /\ MaxFaults \in Nat /\ MaxEdits \in Nat

VARIABLES
  phase,      \* performPush: "idle", "resume", "negotiate", "uploading", "committing"
  push,       \* negotiationId and content of this push, or of the last one
  worker,     \* worker[x]: one slot for each worker that may be active
  todo,       \* the chunks of the upload list that no worker has taken
  limit,      \* activeLimit
  streak,     \* consecutiveSuccesses
  error,      \* uploadError is set
  file,       \* the content of the file
  cached,     \* last_hash in the row of table files
  session,    \* the row of negotiation_sessions
  journal,    \* the rows of chunk_transfers: <<negotiation id, chunk>>
  live,       \* live[n]: the content of token n while the server knows it
  negotiated, \* tokens issued
  stored,     \* the chunks in the bucket
  published,  \* the contents of all versions
  current,    \* the chunks of the current version
  slowDowns, errors, faults, edits

pool == <<worker, todo, limit, streak, error>>
disk == <<file, cached, session, journal>>
tokens == <<live, negotiated>>
versions == <<published, current>>
bounds == <<slowDowns, errors, faults, edits>>
vars == <<phase, push, pool, disk, tokens, stored, versions, bounds>>

Slots == 1 .. Concurrency
Attempts == 3
(* Every new token but the first follows an edit or a fault.               *)
Ids == 1 .. MaxEdits + MaxFaults + 1

Free == [at |-> "free", initial |-> FALSE, chunk |-> 0, attempts |-> 0]
Taking(c, initial) == [at |-> "put", initial |-> initial, chunk |-> c, attempts |-> Attempts]
NoWorkers == [x \in Slots |-> Free]
NoPush == [id |-> 0, content |-> None]

Active == {x \in Slots : worker[x].at # "free"}

Init == /\ phase = "idle" /\ push = NoPush
        /\ worker = NoWorkers /\ todo = {}
        /\ limit = Concurrency /\ streak = 0 /\ error = FALSE
        /\ file \in Contents /\ cached = None
        /\ session = NoPush /\ journal = {}
        /\ live = [n \in Ids |-> None] /\ negotiated = 0
        /\ stored = {} /\ published = {} /\ current = {}
        /\ slowDowns = 0 /\ errors = 0 /\ faults = 0 /\ edits = 0

Fault == faults < MaxFaults /\ faults' = faults + 1 /\ UNCHANGED <<slowDowns, errors, edits>>

-----------------------------------------------------------------------------
(* The journal in the local database: recordChunkStatus, getCompletedChunks*)
(* and clearNegotiationChunks.                                             *)
Recorded(n, c) == journal \cup {<<n, c>>}
Completed(n) == {e[2] : e \in {f \in journal : f[1] = n}}
Cleared(n) == {e \in journal : e[1] # n}

-----------------------------------------------------------------------------
(* Before the upload.                                                      *)

(* Mutant: any session of this path is resumed.                            *)
AnySession == session # NoPush

(* A session of this very content is resumed.                              *)
Resumable == session.content = file

(* performPush reads the file; unchanged content is skipped.  A new push   *)
(* starts in a new process, after the last one has ended.                  *)
Start ==
  /\ phase = "idle" /\ Active = {} /\ file # cached
  /\ phase' = IF Resumable THEN "resume" ELSE "negotiate"
  /\ push' = [id |-> 0, content |-> file]
  /\ UNCHANGED <<pool, disk, tokens, stored, versions, bounds>>

Nth(S, k) == CHOOSE c \in S : Cardinality({d \in S : d < c}) = k - 1

(* The upload list without what the journal calls completed.  The initial  *)
(* workers start one after another and each takes a chunk.                 *)
Remaining(n, missing) == missing \ Completed(n)
Begin(n, missing) ==
  LET list == Remaining(n, missing)
      first == Min({Concurrency, Cardinality(list)})
  IN  /\ phase' = IF list = {} THEN "committing" ELSE "uploading"
      /\ push' = [push EXCEPT !.id = n]
      /\ worker' = [x \in Slots |-> IF x <= first THEN Taking(Nth(list, x), TRUE) ELSE Free]
      /\ todo' = {c \in list : \A x \in 1 .. first : c # Nth(list, x)}
      /\ limit' = Concurrency /\ streak' = 0 /\ error' = FALSE

(* performPush throws; workers that are not awaited go on.                 *)
Throw == phase' = "idle" /\ UNCHANGED push

(* blockExists: HEAD of each chunk; an error that is not 404 is thrown.    *)
Absent(chunks) == {c \in chunks : c \notin stored}

(* resume.ts: the chunks of the token that are still not in the bucket.  A *)
(* chunk that is not one of the file's ends the push.                      *)
Resume ==
  LET missing == Absent(live[session.id])
  IN  /\ phase = "resume" /\ live[session.id] # None
      /\ IF Remaining(session.id, missing) \subseteq push.content
           THEN Begin(session.id, missing)
           ELSE Throw /\ UNCHANGED pool
      /\ UNCHANGED <<disk, tokens, stored, versions, bounds>>

(* Mutant: the session is kept, and the push fails.                        *)
KeepSession == Throw /\ UNCHANGED <<session, pool>>

(* The catch block gives the session up and goes on to negotiate.          *)
GiveUpSession == /\ session' = NoPush /\ phase' = "negotiate" /\ UNCHANGED <<push, pool>>

(* 410, or a request that fails in another way.                            *)
ResumeFails ==
  /\ phase = "resume"
  /\ \/ live[session.id] = None /\ UNCHANGED bounds
     \/ Fault
  /\ GiveUpSession
  /\ UNCHANGED <<file, cached, journal, tokens, stored, versions>>

(* negotiate.ts: chunks of the current version are not looked up.          *)
Negotiate ==
  LET n == negotiated + 1
  IN  /\ phase = "negotiate"
      /\ negotiated' = n
      /\ live' = [live EXCEPT ![n] = push.content]
      /\ session' = [id |-> n, content |-> push.content]
      /\ Begin(n, (push.content \ current) \ stored)
      /\ UNCHANGED <<file, cached, journal, stored, versions, bounds>>

NegotiateFails ==
  /\ phase = "negotiate" /\ Fault
  /\ Throw
  /\ UNCHANGED <<pool, disk, tokens, stored, versions>>

-----------------------------------------------------------------------------
(* The pool.                                                               *)

(* Mutant: no worker is ever started again.                                *)
AfterChunkAlone(x, lim, err) ==
  LET goesOn == ~err /\ todo # {} /\ Cardinality(Active) <= lim
  IN  /\ todo' = IF goesOn THEN todo \ {Min(todo)} ELSE todo
      /\ worker' = [worker EXCEPT ![x] = IF goesOn THEN Taking(Min(todo), @.initial) ELSE Free]

(* What worker x does when it is through with its chunk, up to its next    *)
(* await: start another worker if the limit allows it, then take the next  *)
(* chunk itself, or stop.  The started worker takes a chunk at once, and   *)
(* its promise is not kept.  The loop that starts workers starts at most   *)
(* one: LimitIsUsed held before and the limit rises by one at most.        *)
AfterChunk(x, lim, err) ==
  LET starts == ~err /\ Cardinality(Active) < lim /\ todo # {}
      left == IF starts THEN todo \ {Min(todo)} ELSE todo
      active == Cardinality(Active) + (IF starts THEN 1 ELSE 0)
      goesOn == ~err /\ left # {} /\ active <= lim
      slot == Min(Slots \ Active)
  IN  /\ todo' = IF goesOn THEN left \ {Min(left)} ELSE left
      /\ worker' = [y \in Slots |->
                      CASE y = x -> IF goesOn THEN Taking(Min(left), worker[x].initial) ELSE Free
                        [] y # x /\ starts /\ y = slot -> Taking(Min(todo), FALSE)
                        [] OTHER -> worker[y]]

Outside == <<phase, push, file, cached, session, tokens, versions, faults, edits>>

(* The PUT succeeds, fast (under 400 ms) or not, and is journaled.         *)
PutOk(x, fast) ==
  LET raises == fast /\ streak + 1 >= RaiseAfter
      lim == IF raises THEN Min({Concurrency, limit + 1}) ELSE limit
  IN  /\ worker[x].at = "put"
      /\ stored' = stored \cup {worker[x].chunk}
      /\ journal' = Recorded(push.id, worker[x].chunk)
      /\ limit' = lim
      /\ streak' = IF fast /\ ~raises THEN streak + 1 ELSE 0
      /\ AfterChunk(x, lim, error)
      /\ UNCHANGED <<Outside, error, slowDowns, errors>>

(* Back off.  When the third attempt is answered 503 the code throws, and  *)
(* its own catch block counts the attempt a second time.                   *)
SlowDown(x) ==
  /\ worker[x].at = "put"
  /\ slowDowns < MaxSlowDowns
  /\ slowDowns' = slowDowns + 1
  /\ limit' = Max({1, limit - 1})
  /\ streak' = 0
  /\ worker' = [worker EXCEPT ![x].at = "delay",
                              ![x].attempts = IF @ > 1 THEN @ - 1 ELSE @ - 2]
  /\ UNCHANGED <<Outside, todo, error, journal, stored, errors>>

(* Mutant: the last failure is not kept in uploadError.                    *)
PutErrorForgotten(x, arrived) ==
  /\ worker[x].at = "put"
  /\ errors < MaxErrors /\ errors' = errors + 1
  /\ stored' = IF arrived THEN stored \cup {worker[x].chunk} ELSE stored
  /\ IF worker[x].attempts = 1
       THEN AfterChunk(x, limit, error)
       ELSE /\ worker' = [worker EXCEPT ![x].at = "delay", ![x].attempts = @ - 1]
            /\ UNCHANGED todo
  /\ UNCHANGED <<Outside, limit, streak, error, journal, slowDowns>>
(* Any other failure; the body may have reached the bucket all the same.   *)
PutError(x, arrived) ==
  LET last == worker[x].attempts = 1
  IN  /\ worker[x].at = "put"
      /\ errors < MaxErrors /\ errors' = errors + 1
      /\ stored' = IF arrived THEN stored \cup {worker[x].chunk} ELSE stored
      /\ error' = (error \/ last)
      /\ IF last THEN AfterChunk(x, limit, TRUE)
                 ELSE /\ worker' = [worker EXCEPT ![x].at = "delay", ![x].attempts = @ - 1]
                      /\ UNCHANGED todo
      /\ UNCHANGED <<Outside, limit, streak, journal, slowDowns>>

(* The delay is over: try again while attempts are left and no worker has  *)
(* given up; otherwise the chunk is behind us.                             *)
DelayOver(x) ==
  /\ worker[x].at = "delay"
  /\ IF worker[x].attempts > 0 /\ ~error
       THEN worker' = [worker EXCEPT ![x].at = "put"] /\ UNCHANGED todo
       ELSE AfterChunk(x, limit, error)
  /\ UNCHANGED <<Outside, limit, streak, error, journal, stored, slowDowns, errors>>

-----------------------------------------------------------------------------
(* After the upload.                                                       *)

(* Promise.all over the initial workers, and the check of uploadError.     *)
Awaited == {x \in Active : worker[x].initial}
Join ==
  /\ phase = "uploading"
  /\ Awaited = {}
  /\ phase' = IF error THEN "idle" ELSE "committing"
  /\ UNCHANGED <<push, pool, disk, tokens, stored, versions, bounds>>

(* commit.ts publishes what the token names and consumes it.               *)
Publish ==
  /\ live[push.id] # None
  /\ published' = published \cup {live[push.id]}
  /\ current' = live[push.id]
  /\ live' = [live EXCEPT ![push.id] = None]
  /\ UNCHANGED <<negotiated, stored>>

(* The reply: journal and session are cleared, the file's row is written.  *)
CommitOk ==
  /\ phase = "committing"
  /\ Publish
  /\ journal' = Cleared(push.id)
  /\ session' = NoPush
  /\ cached' = push.content
  /\ Throw
  /\ UNCHANGED <<pool, file, bounds>>

(* 410: the token is gone.                                                 *)
CommitRefused ==
  /\ phase = "committing" /\ live[push.id] = None
  /\ Throw
  /\ UNCHANGED <<pool, disk, tokens, stored, versions, bounds>>

(* The request fails, before the transaction or on the way back.           *)
CommitFails ==
  /\ phase = "committing" /\ Fault
  /\ Publish \/ UNCHANGED <<tokens, stored, versions>>
  /\ Throw
  /\ UNCHANGED <<pool, disk>>

-----------------------------------------------------------------------------
(* Around the push: the process dies, with PUTs under way that may still   *)
(* arrive; the server restarts or the hour of its tokens is over; the user *)
(* writes the file.                                                        *)
InFlight == {worker[x].chunk : x \in {y \in Slots : worker[y].at = "put"}}
Crash ==
  /\ phase # "idle" \/ Active # {}
  /\ Fault
  /\ \E landed \in SUBSET InFlight : stored' = stored \cup landed
  /\ worker' = NoWorkers
  /\ Throw
  /\ UNCHANGED <<todo, limit, streak, error, disk, tokens, versions>>

LoseTokens ==
  /\ \E n \in Ids : live[n] # None
  /\ Fault
  /\ live' = [n \in Ids |-> None]
  /\ UNCHANGED <<phase, push, pool, disk, negotiated, stored, versions>>

Edit(d) ==
  /\ d # file
  /\ edits < MaxEdits /\ edits' = edits + 1
  /\ file' = d
  /\ UNCHANGED <<phase, push, pool, cached, session, journal, tokens, stored, versions,
                 slowDowns, errors, faults>>

WorkerStep(x) == \/ \E fast \in BOOLEAN : PutOk(x, fast)
                 \/ SlowDown(x)
                 \/ \E arrived \in BOOLEAN : PutError(x, arrived)
                 \/ DelayOver(x)
PushStep == Resume \/ ResumeFails \/ Negotiate \/ Join \/ CommitOk \/ CommitRefused

(* Nothing is left to push.                                                *)
Rest == phase = "idle" /\ Active = {} /\ file = cached /\ UNCHANGED vars

Next == \/ \E x \in Slots : WorkerStep(x)
        \/ Start \/ PushStep
        \/ NegotiateFails \/ CommitFails
        \/ Crash \/ LoseTokens
        \/ \E d \in Contents : Edit(d)
        \/ Rest

(* fetch and setTimeout settle, settled promises are continued, and the    *)
(* push is repeated until the file is unchanged.                           *)
Fairness == /\ \A x \in Slots : WF_vars(WorkerStep(x))
            /\ WF_vars(Start) /\ WF_vars(PushStep)
Spec == Init /\ [][Next]_vars /\ Fairness

-----------------------------------------------------------------------------
(* No stall and no idling: while chunks wait and nothing failed, at least  *)
(* as many workers run as the limit allows, so the last worker never stops *)
(* with chunks left and the pool grows back after a slow-down.             *)
LimitIsUsed ==
  phase \in {"uploading", "committing"} /\ todo # {} /\ ~error => Cardinality(Active) >= limit

(* Without slow-downs every version has all its chunks in the bucket,      *)
(* whatever PUTs failed, whichever pushes died and were resumed, and       *)
(* however chunks were taken over unseen from the version before.          *)
SteadyCommitIsComplete ==
  slowDowns = 0 => \A d \in published : d \subseteq stored

(* The row that makes later pushes skip the file names a content that was  *)
(* published, whatever session was resumed after whatever edit.            *)
CachedIsPublished == cached # None => cached \in published

(* Repeated pushes get the file through: no session that the server has    *)
(* forgotten, journal or half-finished upload blocks them for ever.        *)
PushSucceeds == <>[](cached = file)

(* push.ts:53 and README.md:56: a push is fault-tolerant, and 503 answers  *)
(* are retried with back-off: when the pool has stopped without an error,  *)
(* no chunk was left out.                                                  *)
NoChunkDropped == phase = "committing" /\ Active = {} => push.content \subseteq stored
=============================================================================
