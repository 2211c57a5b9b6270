------------------------------- MODULE Outbox -------------------------------
(***************************************************************************)
(* The transactional outbox and chunk verification: commits insert an      *)
(* event with the version row, dispatcher processes poll the table, run    *)
(* the handler of each event in turn (a worker thread HEADs every chunk of *)
(* the version), and mark the handled events in one update at the end.     *)
(* Every await of pollAndDispatch and handleVerifyChunks is a boundary     *)
(* between actions; a dispatcher may crash at any of them.                 *)
(*                                                                         *)
(* Abstracted: the chunks of a version are all in the bucket or some are   *)
(* not; the pool runs one task at a time, since the dispatcher awaits each *)
(* submit; garbage collection is its result; the notifier's wake-up is a   *)
(* poll timeout that comes early.  FILE_DELETED, which nothing inserts, is *)
(* left out.                                                               *)
(***************************************************************************)
EXTENDS Naturals, Sequences, FiniteSets, FiniteSetsExt

CONSTANTS Versions,            \* bound: the versions that are committed
          Dispatchers,         \* the dispatcher processes
          BatchSize,           \* BATCH_SIZE
          InventoryConfigured, \* the S3 inventory variables of gc.ts are set
          MaxGc,               \* bound: GC_REQUESTED events
          MaxFaults            \* bound: failed calls and crashes

ASSUME BatchAssumption == BatchSize \in Nat \ {0}
ASSUME InventoryAssumption == InventoryConfigured \in BOOLEAN
ASSUME BoundsAssumption == MaxGc \in Nat /\ MaxFaults \in Nat

VARIABLES log,     \* outbox_events in created_at order
          done,    \* the positions in log whose processed_at is set
          status,  \* status[v]: verification_status, or "none" / "gone" without a row
          chunks,  \* chunks[v]: "whole", "partial", or "late" (became whole after commit)
          disp,    \* disp[d]: where dispatcher d is, and its batch
          faults

vars == <<log, done, status, chunks, disp, faults>>

Created(v) == [type |-> "FILE_VERSION_CREATED", version |-> {v}]
Failed(v) == [type |-> "CHUNK_VERIFICATION_FAILED", version |-> {v}]
GcRequested == [type |-> "GC_REQUESTED", version |-> {}]

Positions == 1 .. Len(log)
Starting == [at |-> "poll", batch |-> {}, ok |-> {}, missing |-> FALSE]

Init == /\ log = <<>>
        /\ done = {}
        /\ status = [v \in Versions |-> "none"]
        /\ chunks = [v \in Versions |-> "partial"]
        /\ disp = [d \in Dispatchers |-> Starting]
        /\ faults = 0

-----------------------------------------------------------------------------
(* Around the dispatchers.  A commit inserts the row and its event in one  *)
(* transaction and does not look at the bucket.                            *)
Commit(v, uploaded) ==
  /\ status[v] = "none"
  /\ status' = [status EXCEPT ![v] = "pending"]
  /\ chunks' = [chunks EXCEPT ![v] = uploaded]
  /\ log' = Append(log, Created(v))
  /\ UNCHANGED <<done, disp, faults>>

(* An upload that was still in flight at commit time arrives.              *)
LateUpload(v) ==
  /\ status[v] # "none" /\ chunks[v] = "partial"
  /\ chunks' = [chunks EXCEPT ![v] = "late"]
  /\ UNCHANGED <<log, done, status, disp, faults>>

(* The pruner deletes the row; its event stays.                            *)
Prune(v) ==
  /\ status[v] \notin {"none", "gone"}
  /\ status' = [status EXCEPT ![v] = "gone"]
  /\ UNCHANGED <<log, done, chunks, disp, faults>>

(* The daily timer of the dispatcher process.                              *)
ScheduleGc ==
  /\ Cardinality({i \in Positions : log[i] = GcRequested}) < MaxGc
  /\ log' = Append(log, GcRequested)
  /\ UNCHANGED <<done, status, chunks, disp, faults>>

-----------------------------------------------------------------------------
(* pollAndDispatch                                                         *)
(* Mutant: the processed_at IS NULL filter is missing.                     *)
AnyEvent == Positions
Unprocessed == Positions \ done
(* Mutant: the limit is applied to the table, not to what is unprocessed.  *)
HeadOfTable == {i \in Unprocessed : i <= BatchSize}
Batch == {i \in Unprocessed : Cardinality({j \in Unprocessed : j < i}) < BatchSize}

At(d, at) == disp[d].at = at
Goto(d, at) == disp' = [disp EXCEPT ![d].at = at]

(* A plain SELECT: nothing claims the events.                              *)
Poll(d) ==
  /\ At(d, "poll")
  /\ disp' = [disp EXCEPT ![d] = [at |-> IF Batch = {} THEN "sleep" ELSE "run", batch |-> Batch,
                                  ok |-> {}, missing |-> FALSE]]
  /\ UNCHANGED <<log, done, status, chunks, faults>>

Current(d) == Min(disp[d].batch)
Event(d) == log[Current(d)]
Version(d) == CHOOSE v \in Versions : Event(d).version = {v}

(* Mutant: a handler that threw counts too.                                *)
FinishRegardless(d, returned) ==
  LET rest == disp[d].batch \ {Current(d)}
  IN  disp' = [disp EXCEPT ![d] = [at |-> IF rest # {} THEN "run" ELSE "mark", batch |-> rest,
                                  ok |-> disp[d].ok \cup {Current(d)}, missing |-> FALSE]]

(* The handler returned (its id joins processedIds) or threw (it does not, *)
(* and the event stays unprocessed); the loop goes on to the next event.   *)
Finish(d, returned) ==
  LET rest == disp[d].batch \ {Current(d)}
      ok == IF returned THEN disp[d].ok \cup {Current(d)} ELSE disp[d].ok
      next == IF rest # {} THEN "run" ELSE IF ok # {} THEN "mark" ELSE "sleep"
  IN  disp' = [disp EXCEPT ![d] = [at |-> next, batch |-> rest, ok |-> ok, missing |-> FALSE]]

(* One update marks every event that was handled.                          *)
Mark(d) ==
  /\ At(d, "mark")
  /\ done' = done \cup disp[d].ok
  /\ Goto(d, "sleep")
  /\ UNCHANGED <<log, status, chunks, faults>>

(* Timeout or notifier.                                                    *)
Wake(d) == At(d, "sleep") /\ Goto(d, "poll") /\ UNCHANGED <<log, done, status, chunks, faults>>

-----------------------------------------------------------------------------
(* The handlers                                                            *)
Handles(d, type) == At(d, "run") /\ Event(d).type = type

(* reconcileWithInventory throws unless the inventory is configured.       *)
RunGc(d) ==
  /\ Handles(d, "GC_REQUESTED")
  /\ Finish(d, InventoryConfigured)
  /\ UNCHANGED <<log, done, status, chunks, faults>>

LogFailure(d) ==
  /\ Handles(d, "CHUNK_VERIFICATION_FAILED")
  /\ Finish(d, TRUE)
  /\ UNCHANGED <<log, done, status, chunks, faults>>

(* handleVerifyChunks: no row, nothing to do.                              *)
LoadVersion(d) ==
  /\ Handles(d, "FILE_VERSION_CREATED")
  /\ IF status[Version(d)] = "gone" THEN Finish(d, TRUE) ELSE Goto(d, "head")
  /\ UNCHANGED <<log, done, status, chunks, faults>>

(* Mutant: only errors count, a 404 does not.                              *)
HeadErrorsOnly(d, failing) ==
  /\ At(d, "head")
  /\ failing => faults < MaxFaults
  /\ faults' = IF failing THEN faults + 1 ELSE faults
  /\ disp' = [disp EXCEPT ![d].at = "flag", ![d].missing = failing]
  /\ UNCHANGED <<log, done, status, chunks>>

(* HEAD every chunk.  A HEAD that fails for any reason, a timeout or a 503 *)
(* included, counts as a missing chunk.                                    *)
Whole(v) == chunks[v] \in {"whole", "late"}
HeadChunks(d, failing) ==
  /\ At(d, "head")
  /\ failing => faults < MaxFaults
  /\ faults' = IF failing THEN faults + 1 ELSE faults
  /\ disp' = [disp EXCEPT ![d].at = "flag", ![d].missing = failing \/ ~Whole(Version(d))]
  /\ UNCHANGED <<log, done, status, chunks>>

(* UPDATE ... WHERE id: without effect when the row has been pruned.       *)
SetStatus(v, s) == status' = [status EXCEPT ![v] = IF @ = "gone" THEN @ ELSE s]

FlagVerified(d) ==
  /\ At(d, "flag") /\ ~disp[d].missing
  /\ SetStatus(Version(d), "verified")
  /\ Finish(d, TRUE)
  /\ UNCHANGED <<log, done, chunks, faults>>

(* Mutant: the handler returns without inserting the alert.                *)
FlagOnly(d) ==
  /\ At(d, "flag") /\ disp[d].missing
  /\ SetStatus(Version(d), "corrupted")
  /\ Finish(d, TRUE)
  /\ UNCHANGED <<log, done, chunks, faults>>

FlagCorrupted(d) ==
  /\ At(d, "flag") /\ disp[d].missing
  /\ SetStatus(Version(d), "corrupted")
  /\ Goto(d, "alert")
  /\ UNCHANGED <<log, done, chunks, faults>>

(* The alert is a second statement, outside any transaction.               *)
Alert(d) ==
  /\ At(d, "alert")
  /\ log' = Append(log, Failed(Version(d)))
  /\ Finish(d, TRUE)
  /\ UNCHANGED <<done, status, chunks, faults>>

(* The handler throws (a database error; garbage collection fails): it is  *)
(* caught in the loop.  If the marking update throws, the batch is over.   *)
HandlerFails(d) ==
  /\ disp[d].at \in {"run", "flag", "alert"}
  /\ faults < MaxFaults
  /\ Finish(d, FALSE)
  /\ faults' = faults + 1
  /\ UNCHANGED <<log, done, status, chunks>>

MarkFails(d) ==
  /\ At(d, "mark")
  /\ faults < MaxFaults
  /\ Goto(d, "sleep")
  /\ faults' = faults + 1
  /\ UNCHANGED <<log, done, status, chunks>>

(* The dispatcher process dies and is started again.                       *)
Crash(d) ==
  /\ faults < MaxFaults
  /\ disp' = [disp EXCEPT ![d] = Starting]
  /\ faults' = faults + 1
  /\ UNCHANGED <<log, done, status, chunks>>

-----------------------------------------------------------------------------
Work(d) == \/ Poll(d) \/ Mark(d) \/ Wake(d) \/ RunGc(d) \/ LogFailure(d) \/ LoadVersion(d)
           \/ HeadChunks(d, FALSE) \/ FlagVerified(d) \/ FlagCorrupted(d) \/ Alert(d)
Fault(d) == HeadChunks(d, TRUE) \/ HandlerFails(d) \/ MarkFails(d) \/ Crash(d)
Environment == \/ \E v \in Versions, uploaded \in {"whole", "partial"} : Commit(v, uploaded)
               \/ \E v \in Versions : LateUpload(v) \/ Prune(v)
               \/ ScheduleGc

Next == Environment \/ \E d \in Dispatchers : Work(d) \/ Fault(d)

(* Each process goes on working: node runs every continuation, and the     *)
(* sleep has a timeout.                                                    *)
Fairness == \A d \in Dispatchers : WF_vars(Work(d))
Spec == Init /\ [][Next]_vars /\ Fairness

-----------------------------------------------------------------------------
(* Type invariant.                                                         *)
Events == {Created(v) : v \in Versions} \cup {Failed(v) : v \in Versions} \cup {GcRequested}
TypeOK ==
  /\ log \in Seq(Events)
  /\ done \subseteq Positions
  /\ status \in [Versions -> {"none", "pending", "verified", "corrupted", "gone"}]
  /\ chunks \in [Versions -> {"whole", "partial", "late"}]
  /\ disp \in [Dispatchers -> [at : {"poll", "run", "head", "flag", "alert", "mark", "sleep"},
                               batch : SUBSET Positions, ok : SUBSET Positions,
                               missing : BOOLEAN]]
  /\ \A d \in Dispatchers : At(d, "run") \/ At(d, "head") \/ At(d, "flag") \/ At(d, "alert")
                              => disp[d].batch # {}
  /\ faults \in Nat

(* At least once: an event is marked processed only after its version was  *)
(* verified, found corrupted or pruned, whatever crashed in between.       *)
ProcessedMeansSettled ==
  \A i \in done, v \in Versions : log[i] = Created(v) => status[v] # "pending"

(* With one dispatcher, a version that ends up corrupted has its alert in  *)
(* the outbox by the time its event is marked, although status and alert   *)
(* are written by two statements.                                          *)
CorruptedIsAlerted ==
  \A i \in done, v \in Versions :
    log[i] = Created(v) /\ status[v] = "corrupted" => \E j \in Positions : log[j] = Failed(v)

(* A version is never called verified while chunks of it are missing.      *)
VerifiedIsWhole == \A v \in Versions : status[v] = "verified" => Whole(v)

(* With one dispatcher, once the event of a version is marked processed,   *)
(* its verdict is final: nothing verifies it again.                        *)
VerdictIsFinal ==
  [][\A i \in done, v \in Versions :
       log[i] = Created(v) /\ status[v] \in {"verified", "corrupted"}
         => status'[v] \in {status[v], "gone"}]_vars

(* Every event is processed in the end, past failures and restarts.        *)
EventsDrain == \A n \in 1 .. (2 * Cardinality(Versions) + MaxGc + MaxFaults) :
                 n \in Positions ~> n \in done

(* README.md:173: verification follows every commit, "updating status".    *)
EventuallyVerified == \A v \in Versions : status[v] = "pending" ~> status[v] # "pending"
=============================================================================
