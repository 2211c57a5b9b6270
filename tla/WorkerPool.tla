----------------------------- MODULE WorkerPool -----------------------------
(***************************************************************************)
(* The pool of worker threads that verify versions: two queues, slots for  *)
(* small and for large manifests that help each other out, and threads     *)
(* whose message and whose exit are two events.  An action is one call or  *)
(* one event on the main thread, with the pass over the queues it ends     *)
(* with.                                                                   *)
(*                                                                         *)
(* A task is submitted whenever its caller likes; outbox-dispatcher.ts,    *)
(* which awaits each task before the next, is one of these callers.        *)
(***************************************************************************)
EXTENDS Naturals, FiniteSets, SequencesExt

CONSTANTS Tasks,     \* versions to verify
          Heavy,     \* those with more than 2000 blocks
          MaxFast, MaxHeavy,  \* slots: 4 and 2
          MaxSilent, \* bound: threads that end without a word
          MaxThrows  \* bound: threads that cannot be made

ASSUME HeavyAssumption == Heavy \subseteq Tasks
ASSUME SlotsAssumption == MaxFast \in Nat \ {0} /\ MaxHeavy \in Nat \ {0}
ASSUME BoundsAssumption == MaxSilent \in Nat /\ MaxThrows \in Nat

VARIABLES fastQueue, heavyQueue,   \* sequences of tasks
          activeFast, activeHeavy, \* the counters of occupied slots
          slot,      \* slot[t]: the type runTask was called with, "none" without a thread
          thread,    \* thread[t]: "none", "runs", or "ended" until the exit event
          promise,   \* promise[t]: "none", "pending", "resolved", "rejected"
          silent,    \* the tasks whose thread ended without a message
          lost,      \* lost[type]: slots counted as occupied that have no thread
          throws     \* how often new Worker() threw

Types == {"fast", "heavy"}
poolVars == <<fastQueue, heavyQueue, activeFast, activeHeavy, slot, thread>>
allPoolVars == <<poolVars, promise, silent, lost, throws>>

PoolInit == /\ fastQueue = <<>> /\ heavyQueue = <<>>
            /\ activeFast = 0 /\ activeHeavy = 0
            /\ slot = [t \in Tasks |-> "none"]
            /\ thread = [t \in Tasks |-> "none"]
            /\ promise = [t \in Tasks |-> "none"]
            /\ silent = {}
            /\ lost = [type \in Types |-> 0] /\ throws = 0

-----------------------------------------------------------------------------
Smaller(a, b) == IF a < b THEN a ELSE b
First(q, n) == SubSeq(q, 1, n)
Rest(q, n) == SubSeq(q, n + 1, Len(q))

(* What the four loops of processQueues take from the queues, with so many *)
(* free slots: first each slot's own kind, then, while slots are idle, the *)
(* other kind.                                                             *)
Shares(fq, hq, freeFast, freeHeavy) ==
  LET h == Smaller(freeHeavy, Len(hq))
      f == Smaller(freeFast, Len(fq))
      h2 == Smaller(freeHeavy - h, Len(fq) - f)
      f2 == Smaller(freeFast - f, Len(hq) - h)
  IN  [heavy |-> First(hq, h) \o First(Rest(fq, f), h2),
       fast |-> First(fq, f) \o First(Rest(hq, h), f2),
       fastQueue |-> Rest(fq, f + h2), heavyQueue |-> Rest(hq, h + f2)]

(* Mutant: nobody steals.                                                  *)
AssignOwn(fq, hq, fast, heavy) ==
  LET h == Smaller(MaxHeavy - heavy, Len(hq))
      f == Smaller(MaxFast - fast, Len(fq))
  IN  [heavy |-> First(hq, h), fast |-> First(fq, f),
       fastQueue |-> Rest(fq, f), heavyQueue |-> Rest(hq, h)]

Assign(fq, hq, fast, heavy) == Shares(fq, hq, MaxFast - fast, MaxHeavy - heavy)

(* processQueues, on the queues and counters as they are by then; it       *)
(* starts a thread for each task it takes.                                 *)
ProcessQueues(fq, hq, fast, heavy, ended) ==
  LET a == Assign(fq, hq, fast, heavy) IN
    /\ fastQueue' = a.fastQueue /\ heavyQueue' = a.heavyQueue
    /\ activeFast' = fast + Len(a.fast) /\ activeHeavy' = heavy + Len(a.heavy)
    /\ slot' = [t \in Tasks |-> CASE t \in ToSet(a.fast) -> "fast"
                                  [] t \in ToSet(a.heavy) -> "heavy"
                                  [] t \in ended -> "none"
                                  [] OTHER -> slot[t]]
    /\ thread' = [t \in Tasks |-> CASE t \in ToSet(a.fast \o a.heavy) -> "runs"
                                    [] t \in ended -> "none"
                                    [] OTHER -> thread[t]]

(* The queues as submit leaves them to processQueues.                      *)
Queued(t) == IF t \in Heavy THEN [fast |-> fastQueue, heavy |-> Append(heavyQueue, t)]
                            ELSE [fast |-> Append(fastQueue, t), heavy |-> heavyQueue]

Submit(t) ==
  /\ promise[t] = "none"
  /\ promise' = [promise EXCEPT ![t] = "pending"]
  /\ ProcessQueues(Queued(t).fast, Queued(t).heavy, activeFast, activeHeavy, {})
  /\ UNCHANGED <<silent, lost, throws>>

(* The task has left its queue and the counter is raised when new Worker() *)
(* throws: the executor of submit's promise throws, which rejects it.      *)
SubmitThrows(t) ==
  LET a == Assign(Queued(t).fast, Queued(t).heavy, activeFast, activeHeavy) IN
    /\ promise[t] = "none" /\ throws < MaxThrows
    /\ t \in ToSet(a.fast \o a.heavy)
    /\ promise' = [promise EXCEPT ![t] = "rejected"]
    /\ throws' = throws + 1
    /\ lost' = [lost EXCEPT ![IF t \in ToSet(a.fast) THEN "fast" ELSE "heavy"] = @ + 1]
    /\ activeFast' = activeFast + Len(a.fast) /\ activeHeavy' = activeHeavy + Len(a.heavy)
    /\ UNCHANGED <<fastQueue, heavyQueue, slot, thread, silent>>

Settle(t, how) ==
  /\ thread[t] = "runs"
  /\ thread' = [thread EXCEPT ![t] = "ended"]
  /\ promise' = [promise EXCEPT ![t] = how]
  /\ UNCHANGED <<fastQueue, heavyQueue, activeFast, activeHeavy, slot, silent, lost, throws>>

(* The message "success".                                                  *)
Succeed(t) == Settle(t, "resolved")
(* The handler threw: a message of another kind; or the thread did: the    *)
(* event "error".                                                          *)
Fail(t) == Settle(t, "rejected")

(* The thread comes to its end without either.                             *)
EndSilently(t) ==
  /\ Cardinality(silent) < MaxSilent
  /\ thread[t] = "runs"
  /\ thread' = [thread EXCEPT ![t] = "ended"]
  /\ silent' = silent \cup {t}
  /\ UNCHANGED <<fastQueue, heavyQueue, activeFast, activeHeavy, slot, promise, lost, throws>>

(* Mutants: the slot is counted by the kind of the task; it is freed       *)
(* without a look at the queues.                                           *)
ExitByKind(t) ==
  /\ thread[t] = "ended"
  /\ IF t \notin Heavy
     THEN ProcessQueues(fastQueue, heavyQueue, activeFast - 1, activeHeavy, {t})
     ELSE ProcessQueues(fastQueue, heavyQueue, activeFast, activeHeavy - 1, {t})
  /\ UNCHANGED <<promise, silent, lost, throws>>
ExitOnly(t) ==
  /\ thread[t] = "ended"
  /\ activeFast' = activeFast - (IF slot[t] = "fast" THEN 1 ELSE 0)
  /\ activeHeavy' = activeHeavy - (IF slot[t] = "fast" THEN 0 ELSE 1)
  /\ slot' = [slot EXCEPT ![t] = "none"]
  /\ thread' = [thread EXCEPT ![t] = "none"]
  /\ UNCHANGED <<fastQueue, heavyQueue, promise, silent, lost, throws>>

(* The event "exit": the slot is free for the next task.                   *)
Exit(t) ==
  /\ thread[t] = "ended"
  /\ IF slot[t] = "fast"
     THEN ProcessQueues(fastQueue, heavyQueue, activeFast - 1, activeHeavy, {t})
     ELSE ProcessQueues(fastQueue, heavyQueue, activeFast, activeHeavy - 1, {t})
  /\ UNCHANGED <<promise, silent, lost, throws>>

(* In the handler of "exit" nobody catches what new Worker() throws: the   *)
(* process ends, and the next one starts with an empty pool and with the   *)
(* tasks that are not done, whose events are still unprocessed.            *)
ExitThrows(t) ==
  LET a == Assign(fastQueue, heavyQueue, activeFast - (IF slot[t] = "fast" THEN 1 ELSE 0),
                  activeHeavy - (IF slot[t] = "fast" THEN 0 ELSE 1)) IN
    /\ thread[t] = "ended" /\ throws < MaxThrows
    /\ a.fast \o a.heavy # <<>>
    /\ throws' = throws + 1
    /\ fastQueue' = <<>> /\ heavyQueue' = <<>>
    /\ activeFast' = 0 /\ activeHeavy' = 0
    /\ slot' = [u \in Tasks |-> "none"] /\ thread' = [u \in Tasks |-> "none"]
    /\ promise' = [u \in Tasks |-> IF promise[u] = "pending" THEN "none" ELSE promise[u]]
    /\ lost' = [type \in Types |-> 0]
    /\ UNCHANGED silent

Answer(t) == Succeed(t) \/ Fail(t)

PoolNext == \E t \in Tasks : \/ Submit(t) \/ SubmitThrows(t) \/ Answer(t) \/ EndSilently(t)
                             \/ Exit(t) \/ ExitThrows(t)

PoolSpec == PoolInit /\ [][PoolNext]_allPoolVars

(* A handler comes to an end in one way or another, an ended thread's exit *)
(* event is delivered.                                                     *)
FairSpec == PoolSpec /\ \A t \in Tasks : WF_allPoolVars(Answer(t) \/ Exit(t))

-----------------------------------------------------------------------------
(* The counters are the threads that exist, by the slot they took and not  *)
(* by the kind of their task, and the slots that a throw has cost: neither *)
(* stealing nor a silent end leaks another one, so there are never more    *)
(* than six threads, those that have answered and not yet exited included. *)
Threads(type) == {t \in Tasks : slot[t] = type}
CountersCountThreads ==
  /\ activeFast = Cardinality(Threads("fast")) + lost["fast"] /\ activeFast <= MaxFast
  /\ activeHeavy = Cardinality(Threads("heavy")) + lost["heavy"] /\ activeHeavy <= MaxHeavy

(* No task waits while a slot of either type is free (README.md:51, the    *)
(* work-stealing scheduler).                                               *)
NoIdleSlot ==
  fastQueue # <<>> \/ heavyQueue # <<>> => activeFast = MaxFast /\ activeHeavy = MaxHeavy

(* Every submitted task is settled, for its caller awaits it, unless the   *)
(* process ends: a thread that ends without a word costs its own caller    *)
(* the answer and no other, and lost slots delay tasks while one slot of   *)
(* either type is left (with none left, everyone waits for ever).          *)
TasksSettle ==
  MaxThrows < MaxFast + MaxHeavy =>
    \A t \in Tasks : promise[t] = "pending" ~> promise[t] # "pending" \/ t \in silent
=============================================================================
