----------------------------- MODULE Outbox_proofs -----------------------------
(***************************************************************************)
(* The outbox for any number of versions, dispatchers, events and faults:  *)
(* an event is marked processed only when its version is settled, and no   *)
(* version is called verified while chunks of it are missing.  For a       *)
(* single dispatcher, as the server starts it: no corrupted version goes   *)
(* without its alert, and a verdict is final.                              *)
(***************************************************************************)
EXTENDS Outbox, WellFoundedInduction, TLAPS

DispRecords == [at : {"poll", "run", "head", "flag", "alert", "mark", "sleep"},
                batch : SUBSET Positions, ok : SUBSET Positions, missing : BOOLEAN]

(* The dispatcher has an event in hand; its handler has loaded a version.  *)
Busy(d) == disp[d].at \in {"run", "head", "flag", "alert"}
Verifying(d) == disp[d].at \in {"head", "flag", "alert"}

(* A version has one event, and its chunks are looked at after the commit. *)
LogInv ==
  /\ \A i \in Positions, v \in Versions : log[i] = Created(v) => status[v] # "none"
  /\ \A i, j \in Positions, v \in Versions :
       log[i] = Created(v) /\ log[j] = Created(v) => i = j
  /\ \A v \in Versions : status[v] = "none" => chunks[v] = "partial"

(* What a dispatcher relies on between two statements.                     *)
Relies(d) ==
  /\ Busy(d) <=> disp[d].batch # {}
  /\ Verifying(d) => \E v \in Versions : Event(d) = Created(v)
  /\ At(d, "flag") /\ ~disp[d].missing => Whole(Version(d))
  /\ At(d, "alert") => status[Version(d)] # "pending"
  /\ \A i \in disp[d].ok, v \in Versions : log[i] = Created(v) => status[v] # "pending"

IInv == /\ TypeOK /\ LogInv
        /\ \A d \in Dispatchers : Relies(d)
        /\ ProcessedMeansSettled /\ VerifiedIsWhole

(* A single dispatcher has no event in hand that it has handled before.    *)
Alerted(v) == \E j \in Positions : log[j] = Failed(v)
HandledOnce(d) ==
  /\ disp[d].batch \cap (done \cup disp[d].ok) = {}
  /\ \A i \in done \cup disp[d].ok, v \in Versions :
       log[i] = Created(v) /\ status[v] = "corrupted" => Alerted(v)
SoloInv == IInv /\ \A d \in Dispatchers : HandledOnce(d)

-----------------------------------------------------------------------------
(* The event in hand                                                       *)

(* The least element of a non-empty set of naturals is its Min.            *)
LEMMA MinIsLeast ==
  ASSUME NEW S \in SUBSET Nat, S # {}
  PROVE  Min(S) \in S /\ \A y \in S : Min(S) <= y
<1>1. PICK x \in S : \A y \in S : ~ (<<y, x>> \in OpToRel(<, Nat))
  BY NatLessThanWellFounded, WFMin
<1>2. \A y \in S : ~ (y < x)
  BY <1>1 DEF OpToRel
<1>3. QED
  BY <1>2, S \subseteq Nat, \A y \in S : x <= y DEF Min

LEMMA CurrentInBatch ==
  ASSUME TypeOK, NEW d \in Dispatchers, disp[d].batch # {}
  PROVE  Current(d) \in disp[d].batch /\ Current(d) \in Positions
<1>1. disp[d].batch \subseteq Positions
  BY DEF TypeOK
<1>2. disp[d].batch \in SUBSET Nat
  BY <1>1 DEF Positions
<1>3. QED
  BY <1>1, <1>2, MinIsLeast DEF Current

(* A FILE_VERSION_CREATED event names its version.                         *)
LEMMA VersionOfCreated ==
  ASSUME NEW d \in Dispatchers, \E v \in Versions : Event(d) = Created(v)
  PROVE  Version(d) \in Versions /\ Event(d) = Created(Version(d))
<1>1. PICK v \in Versions : Event(d) = Created(v)
  OBVIOUS
<1>2. Event(d).version = {v}
  BY <1>1 DEF Created
<1>3. Version(d) \in Versions /\ Event(d).version = {Version(d)}
  BY <1>2 DEF Version
<1>4. Version(d) = v
  BY <1>2, <1>3
<1>5. QED
  BY <1>1, <1>4

LEMMA CreatedOfType ==
  ASSUME NEW e \in Events, e.type = "FILE_VERSION_CREATED"
  PROVE  \E v \in Versions : e = Created(v)
  BY DEF Events, Created, Failed, GcRequested

LEMMA OtherEvents ==
  ASSUME NEW v \in Versions, NEW w \in Versions
  PROVE  /\ Created(v) # Failed(w) /\ Created(v) # GcRequested
         /\ Created(v).type = "FILE_VERSION_CREATED"
         /\ Created(v) = Created(w) => v = w
<1>1. Created(v) = Created(w) => {v} = {w}
  BY DEF Created
<1>2. QED
  BY <1>1 DEF Created, Failed, GcRequested

-----------------------------------------------------------------------------
(* Types                                                                   *)

(* The log only grows, at its end.                                         *)
LEMMA AppendKeeps ==
  ASSUME TypeOK, NEW e \in Events, log' = Append(log, e)
  PROVE  /\ log' \in Seq(Events)
         /\ Positions' = Positions \cup {Len(log) + 1} /\ Positions \subseteq Positions'
         /\ \A i \in Positions : log'[i] = log[i]
         /\ log'[Len(log) + 1] = e /\ Len(log) + 1 \notin Positions
  BY DEF TypeOK, Positions

(* A step of dispatcher d leaves its record like this, the others alone.   *)
Moved(d, at, batch, ok, missing) ==
  /\ disp' \in [Dispatchers -> DispRecords]
  /\ \A e \in Dispatchers : e # d => disp'[e] = disp[e]
  /\ disp'[d].at = at /\ disp'[d].batch = batch
  /\ disp'[d].ok = ok /\ disp'[d].missing = missing

LEMMA RecordMoves ==
  ASSUME TypeOK, NEW d \in Dispatchers,
         NEW at \in {"poll", "run", "head", "flag", "alert", "mark", "sleep"},
         NEW batch \in SUBSET Positions, NEW ok \in SUBSET Positions, NEW missing \in BOOLEAN,
         disp' = [disp EXCEPT ![d] = [at |-> at, batch |-> batch, ok |-> ok, missing |-> missing]]
  PROVE  Moved(d, at, batch, ok, missing)
<1> DEFINE new == [at |-> at, batch |-> batch, ok |-> ok, missing |-> missing]
<1>1. disp \in [Dispatchers -> DispRecords] /\ new \in DispRecords
  BY DEF TypeOK, DispRecords
<1> HIDE DEF DispRecords
<1>2. disp' \in [Dispatchers -> DispRecords] /\ disp'[d] = new
      /\ \A e \in Dispatchers : e # d => disp'[e] = disp[e]
  BY <1>1, Zenon
<1>3. QED
  BY <1>2 DEF Moved

LEMMA FieldsMove ==
  ASSUME TypeOK, NEW d \in Dispatchers,
         NEW at \in {"poll", "run", "head", "flag", "alert", "mark", "sleep"},
         NEW missing \in BOOLEAN
  PROVE  /\ Goto(d, at) => Moved(d, at, disp[d].batch, disp[d].ok, disp[d].missing)
         /\ disp' = [disp EXCEPT ![d].at = at, ![d].missing = missing]
              => Moved(d, at, disp[d].batch, disp[d].ok, missing)
<1>1. /\ disp[d] = [at |-> disp[d].at, batch |-> disp[d].batch, ok |-> disp[d].ok,
                    missing |-> disp[d].missing]
      /\ disp[d].batch \in SUBSET Positions /\ disp[d].ok \in SUBSET Positions
      /\ disp[d].missing \in BOOLEAN /\ d \in DOMAIN disp
  BY DEF TypeOK
<1> DEFINE New(m) == [at |-> at, batch |-> disp[d].batch, ok |-> disp[d].ok, missing |-> m]
<1>2. [disp[d] EXCEPT !.at = at] = New(disp[d].missing)
  BY <1>1
<1>3. [[disp[d] EXCEPT !.at = at] EXCEPT !.missing = missing] = New(missing)
  <2>1. [New(disp[d].missing) EXCEPT !.missing = missing] = New(missing)
    OBVIOUS
  <2>2. QED
    BY <1>2, <2>1
<1>4. ASSUME Goto(d, at)
      PROVE  disp' = [disp EXCEPT ![d] = New(disp[d].missing)]
  BY <1>2, <1>4, Zenon DEF Goto
<1>5. ASSUME disp' = [disp EXCEPT ![d].at = at, ![d].missing = missing]
      PROVE  disp' = [disp EXCEPT ![d] = New(missing)]
  BY <1>1, <1>3, <1>5
<1>6. QED
  BY <1>1, <1>4, <1>5, RecordMoves

(* Finish, the end of a handler.                                           *)
NextAt(rest, ok) == IF rest # {} THEN "run" ELSE IF ok # {} THEN "mark" ELSE "sleep"
LEMMA FinishMoves ==
  ASSUME TypeOK, NEW d \in Dispatchers, disp[d].batch # {}, NEW returned \in BOOLEAN,
         Finish(d, returned)
  PROVE  \E rest, ok \in SUBSET Positions :
           /\ Moved(d, NextAt(rest, ok), rest, ok, FALSE)
           /\ rest = disp[d].batch \ {Current(d)}
           /\ ok = IF returned THEN disp[d].ok \cup {Current(d)} ELSE disp[d].ok
<1>1. Current(d) \in Positions
  BY CurrentInBatch
<1> DEFINE rest == disp[d].batch \ {Current(d)}
           ok == IF returned THEN disp[d].ok \cup {Current(d)} ELSE disp[d].ok
<1>2. disp' = [disp EXCEPT ![d] = [at |-> NextAt(rest, ok), batch |-> rest, ok |-> ok,
                                   missing |-> FALSE]]
  BY Zenon DEF Finish, NextAt
<1>3. rest \in SUBSET Positions /\ ok \in SUBSET Positions
  BY <1>1 DEF TypeOK
<1>4. NextAt(rest, ok) \in {"run", "mark", "sleep"}
  BY DEF NextAt
<1> HIDE DEF rest, ok
<1>5. Moved(d, NextAt(rest, ok), rest, ok, FALSE)
  BY <1>2, <1>3, <1>4, RecordMoves
<1>6. QED
  BY <1>3, <1>5 DEF rest, ok

(* The steps of a dispatcher, by what they do to its record.               *)
Handled(d) == Busy(d) /\ \E returned \in BOOLEAN : Finish(d, returned)
LEMMA DispatcherSteps ==
  ASSUME TypeOK, NEW d \in Dispatchers, Work(d) \/ Fault(d)
  PROVE  \/ Handled(d)
         \/ \E m \in BOOLEAN, at \in {"head", "flag", "alert"} :
              /\ Busy(d) /\ Moved(d, at, disp[d].batch, disp[d].ok, m)
         \/ \E at \in {"poll", "sleep"} :
              /\ ~Busy(d) /\ Moved(d, at, disp[d].batch, disp[d].ok, disp[d].missing)
         \/ At(d, "poll") /\ Moved(d, IF Batch = {} THEN "sleep" ELSE "run", Batch, {}, FALSE)
         \/ Moved(d, "poll", {}, {}, FALSE)
<1>1. disp[d].missing \in BOOLEAN
  BY DEF TypeOK
<1>2. CASE Poll(d)
  <2>1. Batch \in SUBSET Positions
    BY DEF Batch, Unprocessed
  <2>2. QED
    BY <1>2, <2>1, RecordMoves DEF Poll
<1>3. CASE Mark(d) \/ Wake(d) \/ MarkFails(d)
  BY <1>3, FieldsMove DEF Mark, Wake, MarkFails, Busy, At
<1>4. CASE RunGc(d) \/ LogFailure(d) \/ FlagVerified(d) \/ Alert(d) \/ HandlerFails(d)
  BY <1>4, InventoryAssumption
  DEF RunGc, LogFailure, FlagVerified, Alert, HandlerFails, Handles, Handled, Busy, At
<1>5. CASE LoadVersion(d) \/ FlagCorrupted(d)
  BY <1>1, <1>5, FieldsMove DEF LoadVersion, FlagCorrupted, Handles, Handled, Busy, At
<1>6. CASE \E failing \in BOOLEAN : HeadChunks(d, failing)
  <2>1. \A failing \in BOOLEAN : (failing \/ ~Whole(Version(d))) \in BOOLEAN
    BY DEF Whole
  <2>2. QED
    BY <1>6, <2>1, FieldsMove DEF HeadChunks, Busy, At
<1>7. CASE Crash(d)
  BY <1>7, RecordMoves DEF Crash, Starting
<1>8. QED
  BY <1>2, <1>3, <1>4, <1>5, <1>6, <1>7 DEF Work, Fault

LEMMA TypeNext == TypeOK /\ (\A d \in Dispatchers : Relies(d)) /\ [Next]_vars => TypeOK'
<1> SUFFICES ASSUME TypeOK, \A d \in Dispatchers : Relies(d), [Next]_vars PROVE TypeOK'
  OBVIOUS
<1> DEFINE Statuses == {"none", "pending", "verified", "corrupted", "gone"}
           Data == /\ log' \in Seq(Events) /\ Positions \subseteq Positions'
                   /\ done' \subseteq Positions'
                   /\ status' \in [Versions -> Statuses]
                   /\ chunks' \in [Versions -> {"whole", "partial", "late"}]
                   /\ faults' \in Nat
           Disp == /\ disp' \in [Dispatchers -> DispRecords]
                   /\ \A d \in Dispatchers : Busy(d)' => disp'[d].batch # {}
<1>1. /\ log \in Seq(Events) /\ done \subseteq Positions
      /\ status \in [Versions -> Statuses]
      /\ chunks \in [Versions -> {"whole", "partial", "late"}]
      /\ disp \in [Dispatchers -> DispRecords] /\ faults \in Nat
      /\ \A d \in Dispatchers : Busy(d) => disp[d].batch # {}
  BY DEF TypeOK, DispRecords, Busy, At
<1>2. Data /\ Disp => TypeOK'
  BY DEF TypeOK, DispRecords, Busy, At
<1>3. ASSUME NEW e \in Events, log' = Append(log, e), UNCHANGED done
      PROVE  log' \in Seq(Events) /\ Positions \subseteq Positions' /\ done' \subseteq Positions'
  BY <1>1, <1>3, AppendKeeps
<1>4. ASSUME UNCHANGED <<log, done>>
      PROVE  log' \in Seq(Events) /\ Positions \subseteq Positions' /\ done' \subseteq Positions'
  BY <1>1, <1>4 DEF Positions
<1>5. UNCHANGED disp => Disp
  BY <1>1 DEF Busy
<1>6. CASE Environment
  <2>1. ASSUME NEW v \in Versions, NEW uploaded \in {"whole", "partial"}, Commit(v, uploaded)
        PROVE  Data /\ Disp
    BY <1>1, <1>3, <1>5, <2>1 DEF Commit, Events
  <2>2. ASSUME NEW v \in Versions, LateUpload(v) \/ Prune(v)
        PROVE  Data /\ Disp
    BY <1>1, <1>4, <1>5, <2>2 DEF LateUpload, Prune
  <2>3. ASSUME ScheduleGc PROVE Data /\ Disp
    BY <1>1, <1>3, <1>5, <2>3 DEF ScheduleGc, Events
  <2>4. QED
    BY <1>2, <1>6, <2>1, <2>2, <2>3 DEF Environment
<1>7. ASSUME NEW d \in Dispatchers, Work(d) \/ Fault(d)
      PROVE  Data /\ Disp
  <2>1. Disp
    <3>1. ASSUME NEW at, NEW batch, NEW ok, NEW m, Moved(d, at, batch, ok, m),
                 at \in {"run", "head", "flag", "alert"} => batch # {}
          PROVE  Disp
      BY <1>1, <3>1 DEF Moved, Busy
    <3>2. ASSUME Handled(d) PROVE Disp
      BY <1>1, <3>1, <3>2, FinishMoves DEF Handled, NextAt
    <3>3. Busy(d) => disp[d].batch # {}
      BY <1>1
    <3>4. QED
      BY <1>7, <3>1, <3>2, <3>3, DispatcherSteps
  <2>2. CASE UNCHANGED <<log, done, status, chunks>>
    <3>1. faults' = faults \/ faults' = faults + 1
      BY <1>7 DEF Work, Fault, Poll, Mark, Wake, RunGc, LogFailure, LoadVersion, HeadChunks,
                  FlagVerified, FlagCorrupted, Alert, HandlerFails, MarkFails, Crash
    <3>2. QED
      BY <1>1, <1>4, <2>1, <2>2, <3>1
  <2>3. CASE Mark(d)
    BY <1>1, <1>4, <2>1, <2>3 DEF Mark, DispRecords, Positions
  <2>4. CASE FlagVerified(d) \/ FlagCorrupted(d)
    BY <1>1, <1>4, <2>1, <2>4 DEF FlagVerified, FlagCorrupted, SetStatus
  <2>5. CASE Alert(d)
    <3>1. Version(d) \in Versions
      BY <2>5, VersionOfCreated DEF Alert, Relies, Verifying, At
    <3>2. Failed(Version(d)) \in Events
      BY <3>1 DEF Events
    <3>3. QED
      BY <1>1, <1>3, <2>1, <2>5, <3>2 DEF Alert
  <2>6. QED
    BY <1>7, <2>2, <2>3, <2>4, <2>5
    DEF Work, Fault, Poll, Wake, RunGc, LogFailure, LoadVersion, HeadChunks, HandlerFails,
        MarkFails, Crash
<1>8. CASE UNCHANGED vars
  BY <1>8 DEF TypeOK, vars, Positions, At
<1>9. QED
  BY <1>2, <1>6, <1>7, <1>8 DEF Next

-----------------------------------------------------------------------------
(* What a step may do to the log, the verdicts and the chunks.             *)
Onwards(v) ==
  /\ status[v] # "none" => status'[v] # "none" /\ (Whole(v) => Whole(v)')
  /\ status[v] \notin {"none", "pending"} => status'[v] # "pending"
LEMMA StepFrame ==
  ASSUME IInv, [Next]_vars
  PROVE  /\ \A i \in Positions : i \in Positions' /\ log'[i] = log[i]
         /\ \A v \in Versions : Onwards(v)
         /\ \/ \A i \in Positions' \ Positions, v \in Versions : log'[i] # Created(v)
            \/ \E v \in Versions :
                 /\ status[v] = "none" /\ status'[v] # "none"
                 /\ \A i \in Positions' \ Positions, w \in Versions :
                      log'[i] = Created(w) => w = v /\ i = Len(log) + 1
<1> DEFINE Grows == \A i \in Positions : i \in Positions' /\ log'[i] = log[i]
           Plain == \A i \in Positions' \ Positions, v \in Versions : log'[i] # Created(v)
           Onward == \A v \in Versions : Onwards(v)
<1>1. TypeOK /\ status \in [Versions -> {"none", "pending", "verified", "corrupted", "gone"}]
      /\ chunks \in [Versions -> {"whole", "partial", "late"}]
  BY DEF IInv, TypeOK
<1>2. UNCHANGED log => Grows /\ Plain
  BY DEF Positions
<1>3. ASSUME NEW e \in Events, log' = Append(log, e)
      PROVE  Grows /\ \A i \in Positions' \ Positions : i = Len(log) + 1 /\ log'[i] = e
  BY <1>1, <1>3, AppendKeeps
<1>4. UNCHANGED <<status, chunks>> => Onward
  BY DEF Onwards, Whole
<1>5. ASSUME NEW v \in Versions, NEW uploaded \in {"whole", "partial"}, Commit(v, uploaded)
      PROVE  /\ Grows /\ Onward /\ status[v] = "none" /\ status'[v] # "none"
             /\ \A i \in Positions' \ Positions, w \in Versions :
                  log'[i] = Created(w) => w = v /\ i = Len(log) + 1
  <2>1. Created(v) \in Events /\ log' = Append(log, Created(v))
    BY <1>5 DEF Events, Commit
  <2>2. Onward
    BY <1>1, <1>5 DEF Commit, Onwards, Whole
  <2>3. status[v] = "none" /\ status'[v] # "none"
    BY <1>1, <1>5 DEF Commit
  <2>4. QED
    BY <1>3, <2>1, <2>2, <2>3, OtherEvents
<1>6. ASSUME NEW v \in Versions, LateUpload(v) \/ Prune(v)
      PROVE  Grows /\ Plain /\ Onward
  BY <1>1, <1>2, <1>6 DEF LateUpload, Prune, Onwards, Whole
<1>7. ASSUME ScheduleGc PROVE Grows /\ Plain /\ Onward
  <2>1. GcRequested \in Events
    BY DEF Events
  <2>2. QED
    BY <1>3, <1>4, <1>7, <2>1, OtherEvents DEF ScheduleGc
<1>8. ASSUME NEW d \in Dispatchers, Work(d) \/ Fault(d)
      PROVE  Grows /\ Plain /\ Onward
  <2>1. CASE UNCHANGED <<log, status, chunks>>
    BY <1>2, <1>4, <2>1
  <2>2. CASE FlagVerified(d) \/ FlagCorrupted(d)
    <3>1. Onward
      BY <1>1, <2>2 DEF FlagVerified, FlagCorrupted, SetStatus, Onwards, Whole
    <3>2. QED
      BY <1>2, <2>2, <3>1 DEF FlagVerified, FlagCorrupted
  <2>3. CASE Alert(d)
    <3>1. Version(d) \in Versions
      BY <2>3, VersionOfCreated DEF Alert, IInv, Relies, Verifying, At
    <3>2. Failed(Version(d)) \in Events
      BY <3>1 DEF Events
    <3>3. QED
      BY <1>3, <1>4, <2>3, <3>1, <3>2, OtherEvents DEF Alert
  <2>4. QED
    BY <1>8, <2>1, <2>2, <2>3
    DEF Work, Fault, Poll, Mark, Wake, RunGc, LogFailure, LoadVersion, HeadChunks,
        HandlerFails, MarkFails, Crash
<1>9. CASE UNCHANGED vars
  BY <1>2, <1>4, <1>9 DEF vars
<1>10. QED
  BY <1>5, <1>6, <1>7, <1>8, <1>9 DEF Next, Environment

(* One event for each version, inserted with its row.                      *)
LEMMA LogKept == IInv /\ [Next]_vars => LogInv'
<1> SUFFICES ASSUME IInv, [Next]_vars PROVE LogInv'
  OBVIOUS
<1>1. \A v \in Versions : status'[v] = "none" => chunks'[v] = "partial"
  <2>1. status \in [Versions -> {"none", "pending", "verified", "corrupted", "gone"}]
        /\ chunks \in [Versions -> {"whole", "partial", "late"}]
        /\ \A v \in Versions : status[v] = "none" => chunks[v] = "partial"
    BY DEF IInv, TypeOK, LogInv
  <2>2. CASE UNCHANGED <<status, chunks>>
    BY <2>1, <2>2
  <2>3. ASSUME NEW d \in Dispatchers, FlagVerified(d) \/ FlagCorrupted(d)
        PROVE  \A v \in Versions : status'[v] = "none" => chunks'[v] = "partial"
    BY <2>1, <2>3 DEF FlagVerified, FlagCorrupted, SetStatus
  <2>4. ASSUME NEW v \in Versions, \/ LateUpload(v) \/ Prune(v)
                                   \/ \E uploaded \in {"whole", "partial"} : Commit(v, uploaded)
        PROVE  \A w \in Versions : status'[w] = "none" => chunks'[w] = "partial"
    BY <2>1, <2>4 DEF LateUpload, Prune, Commit
  <2>5. QED
    BY <2>2, <2>3, <2>4
    DEF Next, Environment, ScheduleGc, Work, Fault, Poll, Mark, Wake, RunGc, LogFailure,
        LoadVersion, HeadChunks, Alert, HandlerFails, MarkFails, Crash, vars
<1>2. /\ \A i \in Positions, v \in Versions : log[i] = Created(v) => status[v] # "none"
      /\ \A i, j \in Positions, v \in Versions :
           log[i] = Created(v) /\ log[j] = Created(v) => i = j
  BY DEF IInv, LogInv
<1>3. \A v \in Versions : status[v] # "none" => status'[v] # "none"
  BY StepFrame DEF Onwards
<1>4. CASE \A i \in Positions' \ Positions, v \in Versions : log'[i] # Created(v)
  BY <1>1, <1>2, <1>3, <1>4, StepFrame DEF LogInv
<1>5. ASSUME NEW v \in Versions, status[v] = "none", status'[v] # "none",
             \A i \in Positions' \ Positions, w \in Versions :
               log'[i] = Created(w) => w = v /\ i = Len(log) + 1
      PROVE  LogInv'
  BY <1>1, <1>2, <1>3, <1>5, StepFrame DEF LogInv
<1>6. QED
  BY <1>4, <1>5, StepFrame

-----------------------------------------------------------------------------
(* Dispatchers                                                             *)

(* The event in hand does not change under a handler.                      *)
LEMMA EventStays ==
  ASSUME IInv, [Next]_vars, NEW d \in Dispatchers,
         disp'[d].batch = disp[d].batch, disp[d].batch # {}
  PROVE  Event(d)' = Event(d) /\ Version(d)' = Version(d)
<1>1. Current(d) \in Positions
  BY CurrentInBatch DEF IInv
<1>2. Current(d)' = Current(d)
  BY DEF Current
<1>3. Event(d)' = Event(d)
  BY <1>1, <1>2, StepFrame DEF Event
<1>4. QED
  BY <1>3 DEF Version

(* A version that is settled stays settled.                                *)
LEMMA SettledStays ==
  ASSUME IInv, [Next]_vars, NEW S \in SUBSET Positions,
         \A i \in S, v \in Versions : log[i] = Created(v) => status[v] # "pending"
  PROVE  \A i \in S, v \in Versions : log'[i] = Created(v) => status'[v] # "pending"
<1> SUFFICES ASSUME NEW i \in S, NEW v \in Versions, log'[i] = Created(v)
             PROVE  status'[v] # "pending"
  OBVIOUS
<1>1. log[i] = Created(v)
  BY StepFrame
<1>2. status[v] \notin {"none", "pending"}
  BY <1>1 DEF IInv, LogInv
<1>3. QED
  BY <1>2, StepFrame DEF Onwards

(* A handler returns only when the version of its event is settled.        *)
OkSettled(d) == \A i \in disp[d].ok, v \in Versions : log[i] = Created(v) => status[v] # "pending"
LEMMA OkKept ==
  ASSUME IInv, [Next]_vars, NEW d \in Dispatchers, Work(d) \/ Fault(d)
  PROVE  OkSettled(d)'
<1>1. TypeOK /\ LogInv /\ Relies(d) /\ OkSettled(d) /\ disp[d].ok \in SUBSET Positions
      /\ status \in [Versions -> {"none", "pending", "verified", "corrupted", "gone"}]
  BY DEF IInv, OkSettled, Relies, TypeOK
<1>2. \A i \in disp[d].ok, v \in Versions : log'[i] = Created(v) => status'[v] # "pending"
  BY <1>1, SettledStays DEF OkSettled
<1>3. ASSUME Busy(d), NEW returned \in BOOLEAN, Finish(d, returned),
             returned => \A v \in Versions : log[Current(d)] = Created(v) => status'[v] # "pending"
      PROVE  OkSettled(d)'
  <2>1. Current(d) \in Positions /\ disp[d].batch # {}
    BY <1>1, <1>3, CurrentInBatch DEF Relies
  <2>2. log'[Current(d)] = log[Current(d)]
    BY <2>1, StepFrame
  <2>3. disp'[d].ok = IF returned THEN disp[d].ok \cup {Current(d)} ELSE disp[d].ok
    BY <1>1, <1>3, <2>1, FinishMoves DEF Moved
  <2>4. QED
    BY <1>2, <1>3, <2>2, <2>3 DEF OkSettled
<1>4. ASSUME Verifying(d)
      PROVE  /\ Version(d) \in Versions
             /\ \A v \in Versions : log[Current(d)] = Created(v) => v = Version(d)
  <2>1. Version(d) \in Versions /\ Event(d) = Created(Version(d))
    BY <1>1, <1>4, VersionOfCreated DEF Relies
  <2>2. QED
    BY <2>1, OtherEvents DEF Event
<1>5. ASSUME disp'[d].ok = disp[d].ok PROVE OkSettled(d)'
  BY <1>2, <1>5 DEF OkSettled
<1>6. CASE Poll(d) \/ Crash(d)
  <2>1. disp'[d].ok = {}
    BY <1>1, <1>6 DEF Poll, Crash, Starting, TypeOK
  <2>2. QED
    BY <2>1 DEF OkSettled
<1>7. CASE Mark(d) \/ Wake(d) \/ MarkFails(d)
  BY <1>1, <1>5, <1>7, FieldsMove DEF Mark, Wake, MarkFails, Moved
<1>8. CASE RunGc(d) \/ LogFailure(d)
  <2>1. Busy(d) /\ \A v \in Versions : log[Current(d)] # Created(v)
    BY <1>8, OtherEvents DEF RunGc, LogFailure, Handles, At, Busy, Event
  <2>2. QED
    BY <1>3, <1>8, <2>1, InventoryAssumption DEF RunGc, LogFailure
<1>9. CASE LoadVersion(d)
  <2>1. Busy(d)
    BY <1>9 DEF LoadVersion, Handles, At, Busy
  <2>2. CASE Goto(d, "head")
    BY <1>1, <1>5, <2>2, FieldsMove DEF Moved
  <2>3. CASE status[Version(d)] = "gone" /\ Finish(d, TRUE)
    <3>1. Current(d) \in Positions
      BY <1>1, <2>1, CurrentInBatch DEF Relies
    <3>2. log[Current(d)] \in Events /\ log[Current(d)].type = "FILE_VERSION_CREATED"
      BY <1>1, <1>9, <3>1 DEF LoadVersion, Handles, Event, TypeOK, Positions
    <3>3. Version(d) \in Versions /\ log[Current(d)] = Created(Version(d))
      BY <3>2, CreatedOfType, VersionOfCreated DEF Event
    <3>4. \A v \in Versions : log[Current(d)] = Created(v) => status'[v] # "pending"
      BY <1>9, <2>3, <3>3, OtherEvents DEF LoadVersion
    <3>5. QED
      BY <1>3, <2>1, <2>3, <3>4
  <2>4. QED
    BY <1>9, <2>2, <2>3 DEF LoadVersion
<1>10. CASE \E failing \in BOOLEAN : HeadChunks(d, failing)
  <2>1. \A failing \in BOOLEAN : (failing \/ ~Whole(Version(d))) \in BOOLEAN
    BY DEF Whole
  <2>2. QED
    BY <1>1, <1>5, <1>10, <2>1, FieldsMove DEF HeadChunks, Moved
<1>11. CASE FlagVerified(d) \/ FlagCorrupted(d) \/ Alert(d)
  <2>1. Busy(d) /\ Verifying(d)
    BY <1>11 DEF FlagVerified, FlagCorrupted, Alert, At, Busy, Verifying
  <2>2. status'[Version(d)] # "pending"
    BY <1>1, <1>4, <1>11, <2>1 DEF FlagVerified, FlagCorrupted, Alert, SetStatus, Relies
  <2>3. QED
    BY <1>1, <1>3, <1>4, <1>5, <1>11, <2>1, <2>2, FieldsMove
    DEF FlagVerified, FlagCorrupted, Alert, Moved
<1>12. CASE HandlerFails(d)
  BY <1>3, <1>12 DEF HandlerFails, Busy
<1>13. QED
  BY <1>6, <1>7, <1>8, <1>9, <1>10, <1>11, <1>12 DEF Work, Fault

(* What the others do leaves a dispatcher what it relies on.               *)
LEMMA OthersSpare ==
  ASSUME IInv, [Next]_vars, NEW d \in Dispatchers, disp'[d] = disp[d]
  PROVE  Relies(d)'
<1>1. Relies(d) /\ TypeOK /\ LogInv /\ disp[d].ok \in SUBSET Positions
  BY DEF IInv, TypeOK
<1>2. (Busy(d) <=> disp[d].batch # {})'
  BY <1>1 DEF Busy, Relies
<1>3. ASSUME Verifying(d)
      PROVE  /\ Event(d)' = Event(d) /\ Version(d)' = Version(d)
             /\ Version(d) \in Versions /\ Event(d) = Created(Version(d))
             /\ status[Version(d)] # "none"
  <2>1. disp[d].batch # {}
    BY <1>1, <1>3 DEF Relies, Verifying, Busy
  <2>2. Event(d)' = Event(d) /\ Version(d)' = Version(d)
    BY <2>1, EventStays
  <2>3. Version(d) \in Versions /\ Event(d) = Created(Version(d))
    BY <1>1, <1>3, VersionOfCreated DEF Relies
  <2>4. Current(d) \in Positions
    BY <1>1, <2>1, CurrentInBatch
  <2>5. QED
    BY <1>1, <2>2, <2>3, <2>4 DEF LogInv, Event
<1>4. (Verifying(d) => \E v \in Versions : Event(d) = Created(v))'
  BY <1>3 DEF Verifying
<1>5. (At(d, "flag") /\ ~disp[d].missing => Whole(Version(d)))'
  <2>1. SUFFICES ASSUME At(d, "flag")', ~disp'[d].missing PROVE Whole(Version(d))'
    OBVIOUS
  <2>2. Whole(Version(d)) /\ Verifying(d)
    BY <1>1, <2>1 DEF Relies, At, Verifying
  <2>3. \A v \in Versions : Onwards(v)
    BY StepFrame
  <2>4. chunks'[Version(d)] \in {"whole", "late"}
    BY <1>3, <2>2, <2>3 DEF Onwards, Whole
  <2>5. QED
    BY <1>3, <2>2, <2>4 DEF Whole
<1>6. (At(d, "alert") => status[Version(d)] # "pending")'
  <2>1. SUFFICES ASSUME At(d, "alert")' PROVE status'[Version(d)'] # "pending"
    OBVIOUS
  <2>2. status[Version(d)] # "pending" /\ Verifying(d)
    BY <1>1, <2>1 DEF Relies, At, Verifying
  <2>3. QED
    BY <1>3, <2>2, StepFrame DEF Onwards
<1>7. OkSettled(d)'
  BY <1>1, SettledStays DEF Relies, OkSettled
<1>8. QED
  BY <1>2, <1>4, <1>5, <1>6, <1>7 DEF Relies, OkSettled

LEMMA ReliesKept == IInv /\ [Next]_vars => \A d \in Dispatchers : Relies(d)'
<1> SUFFICES ASSUME IInv, [Next]_vars, NEW e \in Dispatchers PROVE Relies(e)'
  OBVIOUS
<1>1. TypeOK
  BY DEF IInv
<1>2. CASE UNCHANGED disp
  BY <1>2, OthersSpare
<1>3. ASSUME NEW d \in Dispatchers, Work(d) \/ Fault(d)
      PROVE  Relies(e)'
  <2>1. CASE e # d
    <3>1. disp'[e] = disp[e]
      BY <1>1, <1>3, <2>1, DispatcherSteps, FinishMoves
      DEF Moved, Handled, IInv, Relies
    <3>2. QED
      BY <3>1, OthersSpare
  <2>2. Relies(d)'
    <3>1. OkSettled(d)' /\ Relies(d)
      BY <1>3, OkKept DEF IInv
    <3>2. ASSUME NEW at, NEW batch, NEW ok, NEW m, Moved(d, at, batch, ok, m),
                 at \in {"poll", "run", "mark", "sleep"}, at = "run" <=> batch # {}
          PROVE  Relies(d)'
      BY <3>1, <3>2 DEF Relies, OkSettled, Moved, At, Busy, Verifying
    <3>3. CASE Poll(d) \/ Crash(d)
      <4>1. Batch \in SUBSET Positions
        BY DEF Batch, Unprocessed
      <4>2. \/ Moved(d, IF Batch = {} THEN "sleep" ELSE "run", Batch, {}, FALSE)
            \/ Moved(d, "poll", {}, {}, FALSE)
        BY <1>1, <3>3, <4>1, RecordMoves DEF Poll, Crash, Starting
      <4>3. QED
        BY <3>2, <4>2
    <3>4. CASE Mark(d) \/ Wake(d) \/ MarkFails(d)
      <4>1. disp[d].batch = {}
        BY <3>1, <3>4 DEF Mark, Wake, MarkFails, At, Relies, Busy
      <4>2. QED
        BY <1>1, <3>2, <3>4, <4>1, FieldsMove DEF Mark, Wake, MarkFails
    <3>5. CASE Handled(d)
      <4>1. disp[d].batch # {}
        BY <3>1, <3>5 DEF Handled, Relies
      <4>2. QED
        BY <1>1, <3>2, <3>5, <4>1, FinishMoves DEF Handled, NextAt
    <3>6. ASSUME NEW at \in {"head", "flag", "alert"}, NEW m,
                 Moved(d, at, disp[d].batch, disp[d].ok, m), Busy(d),
                 \E v \in Versions : Event(d) = Created(v),
                 at = "flag" /\ ~m => Whole(Version(d))',
                 at = "alert" => status'[Version(d)] # "pending"
          PROVE  Relies(d)'
      <4>1. disp'[d].batch = disp[d].batch /\ disp[d].batch # {}
        BY <3>1, <3>6 DEF Moved, Relies
      <4>2. Event(d)' = Event(d) /\ Version(d)' = Version(d)
        BY <4>1, EventStays
      <4>3. QED
        BY <3>1, <3>6, <4>1, <4>2 DEF Relies, OkSettled, Moved, At, Busy, Verifying
    <3>7. CASE LoadVersion(d) /\ Goto(d, "head")
      <4>1. Busy(d) /\ disp[d].batch # {}
        BY <3>1, <3>7 DEF LoadVersion, Handles, At, Busy, Relies
      <4>2. Event(d) \in Events /\ Event(d).type = "FILE_VERSION_CREATED"
        BY <1>1, <3>7, <4>1, CurrentInBatch DEF LoadVersion, Handles, Event, TypeOK, Positions
      <4>3. QED
        BY <1>1, <3>6, <3>7, <4>1, <4>2, CreatedOfType, FieldsMove, disp[d].missing \in BOOLEAN
        DEF TypeOK
    <3>8. ASSUME NEW failing \in BOOLEAN, HeadChunks(d, failing)
          PROVE  Relies(d)'
      <4> DEFINE m == failing \/ ~Whole(Version(d))
      <4>1. m \in BOOLEAN
        BY DEF Whole
      <4>2. /\ Moved(d, "flag", disp[d].batch, disp[d].ok, m) /\ Busy(d)
            /\ \E v \in Versions : Event(d) = Created(v)
        BY <1>1, <3>1, <3>8, <4>1, FieldsMove DEF HeadChunks, Busy, At, Relies, Verifying
      <4>3. disp'[d].batch = disp[d].batch /\ disp[d].batch # {}
        BY <3>1, <4>2 DEF Moved, Relies
      <4>4. ~m => Whole(Version(d))'
        <5>1. Version(d)' = Version(d) /\ UNCHANGED chunks
          BY <3>8, <4>3, EventStays DEF HeadChunks
        <5>2. QED
          BY <5>1 DEF Whole
      <4> HIDE DEF m
      <4>5. QED
        BY <3>6, <4>2, <4>4
    <3>9. CASE FlagCorrupted(d)
      <4>1. Busy(d) /\ Verifying(d) /\ \E v \in Versions : Event(d) = Created(v)
        BY <3>1, <3>9 DEF FlagCorrupted, At, Busy, Verifying, Relies
      <4>2. status'[Version(d)] # "pending"
        BY <1>1, <3>9, <4>1, VersionOfCreated DEF FlagCorrupted, SetStatus, TypeOK
      <4>3. QED
        BY <1>1, <3>6, <3>9, <4>1, <4>2, FieldsMove, disp[d].missing \in BOOLEAN
        DEF FlagCorrupted, TypeOK
    <3>10. CASE RunGc(d) \/ LogFailure(d) \/ FlagVerified(d) \/ Alert(d) \/ HandlerFails(d)
                \/ (LoadVersion(d) /\ Finish(d, TRUE))
      <4>1. Handled(d)
        BY <3>10, InventoryAssumption
        DEF RunGc, LogFailure, FlagVerified, Alert, HandlerFails, LoadVersion, Handles, Handled,
            Busy, At
      <4>2. QED
        BY <3>5, <4>1
    <3>11. CASE LoadVersion(d)
      BY <3>7, <3>10, <3>11 DEF LoadVersion
    <3>12. QED
      BY <1>3, <3>3, <3>4, <3>8, <3>9, <3>10, <3>11 DEF Work, Fault
  <2>3. QED
    BY <2>1, <2>2
<1>4. QED
  BY <1>2, <1>3
  DEF Next, Environment, Commit, LateUpload, Prune, ScheduleGc, vars

-----------------------------------------------------------------------------
(* Safety                                                                  *)
LEMMA SafetyKept == IInv /\ [Next]_vars => (ProcessedMeansSettled /\ VerifiedIsWhole)'
<1> SUFFICES ASSUME IInv, [Next]_vars PROVE (ProcessedMeansSettled /\ VerifiedIsWhole)'
  OBVIOUS
<1>1. /\ TypeOK /\ LogInv /\ ProcessedMeansSettled /\ VerifiedIsWhole
      /\ \A d \in Dispatchers : Relies(d)
      /\ status \in [Versions -> {"none", "pending", "verified", "corrupted", "gone"}]
      /\ done \in SUBSET Positions
  BY DEF IInv, TypeOK
<1>2. \A v \in Versions : Onwards(v)
  BY StepFrame
<1>3. ProcessedMeansSettled'
  <2>1. ASSUME NEW S \in SUBSET Positions, done' = S,
               \A i \in S, v \in Versions : log[i] = Created(v) => status[v] # "pending"
        PROVE  ProcessedMeansSettled'
    BY <2>1, SettledStays DEF ProcessedMeansSettled
  <2>2. CASE UNCHANGED done
    BY <1>1, <2>1, <2>2 DEF ProcessedMeansSettled
  <2>3. ASSUME NEW d \in Dispatchers, Mark(d) PROVE ProcessedMeansSettled'
    <3>1. disp[d].ok \in SUBSET Positions
      BY <1>1 DEF TypeOK
    <3>2. \A i \in done \cup disp[d].ok, v \in Versions : log[i] = Created(v) => status[v] # "pending"
      BY <1>1 DEF ProcessedMeansSettled, Relies
    <3>3. QED
      BY <1>1, <2>1, <2>3, <3>1, <3>2 DEF Mark
  <2>4. QED
    BY <2>2, <2>3
    DEF Next, Environment, Commit, LateUpload, Prune, ScheduleGc, Work, Fault, Poll, Wake,
        RunGc, LogFailure, LoadVersion, HeadChunks, FlagVerified, FlagCorrupted, Alert,
        HandlerFails, MarkFails, Crash, vars
<1>4. VerifiedIsWhole'
  <2>1. CASE UNCHANGED status
    BY <1>1, <1>2, <2>1 DEF VerifiedIsWhole, Onwards
  <2>2. ASSUME NEW d \in Dispatchers, FlagVerified(d) PROVE VerifiedIsWhole'
    <3>1. Whole(Version(d)) /\ Version(d) \in Versions
      BY <1>1, <2>2, VersionOfCreated DEF FlagVerified, Relies, At, Verifying
    <3>2. UNCHANGED chunks /\ \A v \in Versions : v # Version(d) => status'[v] = status[v]
      BY <1>1, <2>2, <3>1 DEF FlagVerified, SetStatus
    <3>3. QED
      BY <1>1, <3>1, <3>2 DEF VerifiedIsWhole, Whole
  <2>3. ASSUME \A v \in Versions : status'[v] # "verified" \/ status'[v] = status[v]
        PROVE  VerifiedIsWhole'
    BY <1>1, <1>2, <2>3 DEF VerifiedIsWhole, Onwards
  <2>4. ASSUME NEW d \in Dispatchers, FlagCorrupted(d)
        PROVE  \A v \in Versions : status'[v] # "verified" \/ status'[v] = status[v]
    BY <1>1, <2>4 DEF FlagCorrupted, SetStatus
  <2>5. ASSUME NEW v \in Versions,
               Prune(v) \/ \E uploaded \in {"whole", "partial"} : Commit(v, uploaded)
        PROVE  \A w \in Versions : status'[w] # "verified" \/ status'[w] = status[w]
    BY <1>1, <2>5 DEF Prune, Commit
  <2>6. QED
    BY <2>1, <2>2, <2>3, <2>4, <2>5
    DEF Next, Environment, LateUpload, ScheduleGc, Work, Fault, Poll, Mark, Wake,
        RunGc, LogFailure, LoadVersion, HeadChunks, Alert, HandlerFails, MarkFails, Crash, vars
<1>5. QED
  BY <1>3, <1>4

LEMMA InitIInv == Init => IInv
<1> SUFFICES ASSUME Init PROVE IInv
  OBVIOUS
<1>1. TypeOK
  BY DEF Init, TypeOK, Starting, Positions, At
<1>2. LogInv /\ ProcessedMeansSettled /\ VerifiedIsWhole
  BY DEF Init, LogInv, ProcessedMeansSettled, VerifiedIsWhole, Positions
<1>3. \A d \in Dispatchers : Relies(d)
  BY DEF Init, Relies, Starting, Busy, Verifying, At
<1>4. QED
  BY <1>1, <1>2, <1>3 DEF IInv

LEMMA NextIInv == IInv /\ [Next]_vars => IInv'
<1> SUFFICES ASSUME IInv, [Next]_vars PROVE IInv'
  OBVIOUS
<1>1. TypeOK'
  BY TypeNext DEF IInv
<1>2. QED
  BY <1>1, LogKept, ReliesKept, SafetyKept DEF IInv

(* IInv is an inductive invariant, whatever number of dispatchers runs.    *)
THEOREM Inductive == Spec => []IInv
  BY InitIInv, NextIInv, PTL DEF Spec

(* Every variable keeps its type.                                          *)
THEOREM TypeCorrect == Spec => []TypeOK
<1>1. IInv => TypeOK
  BY DEF IInv
<1>2. QED
  BY <1>1, Inductive, PTL

(* An event whose processed_at is set has a version that was verified,     *)
(* found corrupted or pruned: no crash, no failing update and no second    *)
(* dispatcher marks an event that still waits for its verdict.             *)
THEOREM ProcessedIsSettled == Spec => []ProcessedMeansSettled
<1>1. IInv => ProcessedMeansSettled
  BY DEF IInv
<1>2. QED
  BY <1>1, Inductive, PTL

(* A version that is called verified has all its chunks in the bucket,     *)
(* however verdicts of several dispatchers and pruning interleave.         *)
THEOREM VerifiedMeansWhole == Spec => []VerifiedIsWhole
<1>1. IInv => VerifiedIsWhole
  BY DEF IInv
<1>2. QED
  BY <1>1, Inductive, PTL

-----------------------------------------------------------------------------
(* A single dispatcher                                                     *)
OneDispatcher == \E d : Dispatchers = {d}

(* While a handler verifies a version, no event of that version has been   *)
(* handled.                                                                *)
LEMMA NotYetHandled ==
  ASSUME SoloInv, NEW d \in Dispatchers, Verifying(d),
         NEW i \in done \cup disp[d].ok, NEW v \in Versions, log[i] = Created(v)
  PROVE  v # Version(d)
<1>1. TypeOK /\ LogInv /\ Relies(d) /\ HandledOnce(d)
  BY DEF SoloInv, IInv
<1>2. disp[d].batch # {}
  BY <1>1 DEF Relies, Verifying, Busy
<1>3. Current(d) \in disp[d].batch /\ Current(d) \in Positions
  BY <1>1, <1>2, CurrentInBatch
<1>4. Version(d) \in Versions /\ log[Current(d)] = Created(Version(d))
  BY <1>1, VersionOfCreated DEF Relies, Event
<1>5. i \in Positions /\ i # Current(d)
  BY <1>1, <1>3 DEF HandledOnce, TypeOK
<1>6. QED
  BY <1>1, <1>3, <1>4, <1>5 DEF LogInv

(* The events in hand are none of those handled before.                    *)
LEMMA DisjointKept ==
  ASSUME OneDispatcher, SoloInv, [Next]_vars, NEW d \in Dispatchers
  PROVE  (disp[d].batch \cap (done \cup disp[d].ok) = {})'
<1>1. TypeOK /\ Relies(d) /\ disp[d].batch \cap (done \cup disp[d].ok) = {}
  BY DEF SoloInv, IInv, HandledOnce
<1>2. CASE UNCHANGED <<disp, done>>
  BY <1>1, <1>2
<1>3. CASE Work(d) \/ Fault(d)
  <2>1. CASE Mark(d)
    <3>1. disp[d].batch = {}
      BY <1>1, <2>1 DEF Mark, Relies, Busy, At
    <3>2. QED
      BY <1>1, <2>1, <3>1, FieldsMove DEF Mark, Moved
  <2>2. CASE UNCHANGED done
    <3>1. CASE Handled(d)
      <4>1. disp[d].batch # {}
        BY <1>1, <3>1 DEF Handled, Relies
      <4>2. disp'[d].batch = disp[d].batch \ {Current(d)}
            /\ disp'[d].ok \subseteq disp[d].ok \cup {Current(d)}
        BY <1>1, <3>1, <4>1, FinishMoves DEF Handled, Moved
      <4>3. QED
        BY <1>1, <2>2, <4>2
    <3>2. Batch \cap done = {}
      BY DEF Batch, Unprocessed
    <3>3. QED
      BY <1>1, <1>3, <2>2, <3>1, <3>2, DispatcherSteps DEF Moved
  <2>3. QED
    BY <1>3, <2>1, <2>2
    DEF Work, Fault, Poll, Wake, RunGc, LogFailure, LoadVersion, HeadChunks, FlagVerified,
        FlagCorrupted, Alert, HandlerFails, MarkFails, Crash
<1>4. QED
  BY <1>2, <1>3
  DEF OneDispatcher, Next, Environment, Commit, LateUpload, Prune, ScheduleGc, vars

AlertedIn(S) == \A i \in S, v \in Versions :
                  log[i] = Created(v) /\ status[v] = "corrupted" => Alerted(v)
(* Whoever is corrupted after its event was handled has its alert.         *)
LEMMA AlertsKept ==
  ASSUME OneDispatcher, SoloInv, [Next]_vars, NEW d \in Dispatchers
  PROVE  AlertedIn(done \cup disp[d].ok)'
<1> DEFINE Old == done \cup disp[d].ok
<1>1. /\ TypeOK /\ LogInv /\ Relies(d) /\ AlertedIn(Old) /\ Old \in SUBSET Positions
      /\ status \in [Versions -> {"none", "pending", "verified", "corrupted", "gone"}]
  BY DEF SoloInv, IInv, HandledOnce, AlertedIn, TypeOK
<1>2. \A v \in Versions : Alerted(v) => Alerted(v)'
  BY StepFrame DEF Alerted, SoloInv
<1>3. \A i \in Old : log'[i] = log[i]
  BY <1>1, StepFrame DEF SoloInv
<1>4. Busy(d) => Current(d) \in Positions /\ disp[d].batch # {} /\ log'[Current(d)] = log[Current(d)]
  BY <1>1, CurrentInBatch, StepFrame DEF Relies, SoloInv
<1>5. ASSUME Verifying(d)
      PROVE  /\ Version(d) \in Versions /\ log[Current(d)] = Created(Version(d)) /\ Busy(d)
             /\ \A i \in Old, v \in Versions : log[i] = Created(v) => v # Version(d)
  BY <1>1, <1>5, NotYetHandled, VersionOfCreated DEF Relies, Event, Verifying, Busy
<1> HIDE DEF Old
<1> DEFINE Kept == \A i \in Old, v \in Versions :
                     log[i] = Created(v) /\ status'[v] = "corrupted" => status[v] = "corrupted"
<1>6. ASSUME (done \cup disp[d].ok)' \subseteq Old, Kept
      PROVE  AlertedIn(done \cup disp[d].ok)'
  BY <1>1, <1>2, <1>3, <1>6 DEF AlertedIn
<1>7. ASSUME (done \cup disp[d].ok)' \subseteq Old \cup {Current(d)}, Kept, Busy(d),
             \A v \in Versions : log[Current(d)] = Created(v) /\ status'[v] = "corrupted"
                                   => Alerted(v)'
      PROVE  AlertedIn(done \cup disp[d].ok)'
  BY <1>1, <1>2, <1>3, <1>4, <1>7 DEF AlertedIn
<1>8. ASSUME UNCHANGED done, NEW returned \in BOOLEAN, Finish(d, returned), Busy(d)
      PROVE  (done \cup disp[d].ok)' = IF returned THEN Old \cup {Current(d)} ELSE Old
  <2>1. disp'[d].ok = IF returned THEN disp[d].ok \cup {Current(d)} ELSE disp[d].ok
    BY <1>1, <1>4, <1>8, FinishMoves DEF Moved
  <2>2. QED
    BY <1>8, <2>1 DEF Old
<1>9. ASSUME NEW at \in {"poll", "run", "head", "flag", "alert", "mark", "sleep"},
             Goto(d, at), UNCHANGED done \/ done' = done \cup disp[d].ok
      PROVE  (done \cup disp[d].ok)' \subseteq Old
  BY <1>1, <1>9, FieldsMove, ZenonT(60) DEF Moved, Old
<1>10. UNCHANGED status => Kept
  OBVIOUS
<1>11. CASE Environment \/ UNCHANGED vars
  <2>1. UNCHANGED <<disp, done>>
    BY <1>11 DEF Environment, Commit, LateUpload, Prune, ScheduleGc, vars
  <2>2. Kept
    BY <1>1, <1>11 DEF Environment, Commit, LateUpload, Prune, ScheduleGc, vars
  <2>3. QED
    BY <1>6, <2>1, <2>2 DEF Old
<1>12. CASE Poll(d) \/ Crash(d)
  <2>1. (done \cup disp[d].ok)' \subseteq Old
    BY <1>1, <1>12 DEF Poll, Crash, Starting, TypeOK, Old
  <2>2. QED
    BY <1>6, <1>10, <1>12, <2>1 DEF Poll, Crash
<1>13. CASE Mark(d) \/ Wake(d) \/ MarkFails(d)
  <2>1. (done \cup disp[d].ok)' \subseteq Old
    BY <1>9, <1>13 DEF Mark, Wake, MarkFails
  <2>2. QED
    BY <1>6, <1>10, <1>13, <2>1 DEF Mark, Wake, MarkFails
<1>14. CASE RunGc(d) \/ LogFailure(d)
  <2>1. Busy(d) /\ \A v \in Versions : log[Current(d)] # Created(v)
    BY <1>14, OtherEvents DEF RunGc, LogFailure, Handles, At, Busy, Event
  <2>2. (done \cup disp[d].ok)' \subseteq Old \cup {Current(d)}
    BY <1>8, <1>14, <2>1, InventoryAssumption DEF RunGc, LogFailure
  <2>3. QED
    BY <1>7, <1>10, <1>14, <2>1, <2>2 DEF RunGc, LogFailure
<1>15. CASE LoadVersion(d)
  <2>1. Busy(d) /\ UNCHANGED <<status, done>>
    BY <1>15 DEF LoadVersion, Handles, At, Busy
  <2>2. CASE Goto(d, "head")
    BY <1>6, <1>9, <1>10, <2>1, <2>2
  <2>3. CASE status[Version(d)] = "gone" /\ Finish(d, TRUE)
    <3>1. log[Current(d)] \in Events /\ log[Current(d)].type = "FILE_VERSION_CREATED"
      BY <1>1, <1>4, <1>15, <2>1 DEF LoadVersion, Handles, Event, TypeOK, Positions
    <3>2. Version(d) \in Versions /\ log[Current(d)] = Created(Version(d))
      BY <3>1, CreatedOfType, VersionOfCreated DEF Event
    <3>3. \A v \in Versions : log[Current(d)] = Created(v) => status'[v] # "corrupted"
      BY <2>1, <2>3, <3>2, OtherEvents
    <3>4. (done \cup disp[d].ok)' \subseteq Old \cup {Current(d)}
      BY <1>8, <2>1, <2>3
    <3>5. QED
      BY <1>7, <1>10, <2>1, <3>3, <3>4
  <2>4. QED
    BY <1>15, <2>2, <2>3 DEF LoadVersion
<1>16. ASSUME NEW failing \in BOOLEAN, HeadChunks(d, failing)
       PROVE  AlertedIn(done \cup disp[d].ok)'
  <2>1. (failing \/ ~Whole(Version(d))) \in BOOLEAN
    BY DEF Whole
  <2>2. (done \cup disp[d].ok)' \subseteq Old
    BY <1>1, <1>16, <2>1, FieldsMove DEF HeadChunks, Moved, Old
  <2>3. QED
    BY <1>6, <1>10, <1>16, <2>2 DEF HeadChunks
<1>17. CASE FlagCorrupted(d)
  <2>1. Verifying(d)
    BY <1>17 DEF FlagCorrupted, Verifying, At
  <2>2. Kept
    BY <1>1, <1>5, <1>17, <2>1 DEF FlagCorrupted, SetStatus
  <2>3. QED
    BY <1>6, <1>9, <1>17, <2>2 DEF FlagCorrupted
<1>18. CASE FlagVerified(d)
  <2>1. Verifying(d) /\ UNCHANGED done
    BY <1>18 DEF FlagVerified, Verifying, At
  <2>2. Kept /\ status'[Version(d)] # "corrupted"
    BY <1>1, <1>5, <1>18, <2>1 DEF FlagVerified, SetStatus
  <2>3. \A v \in Versions : log[Current(d)] = Created(v) => v = Version(d)
    BY <1>5, <2>1, OtherEvents
  <2>4. (done \cup disp[d].ok)' \subseteq Old \cup {Current(d)}
    BY <1>5, <1>8, <1>18, <2>1 DEF FlagVerified
  <2>5. QED
    BY <1>5, <1>7, <2>1, <2>2, <2>3, <2>4
<1>19. CASE Alert(d)
  <2>1. Verifying(d) /\ UNCHANGED <<status, done>> /\ log' = Append(log, Failed(Version(d)))
    BY <1>19 DEF Alert, Verifying, At
  <2>2. Failed(Version(d)) \in Events
    BY <1>5, <2>1 DEF Events
  <2>3. \E j \in Positions' : log'[j] = Failed(Version(d))
    BY <1>1, <2>1, <2>2, AppendKeeps
  <2>4. \A v \in Versions : log[Current(d)] = Created(v) => Alerted(v)'
    BY <1>5, <2>1, <2>3, OtherEvents DEF Alerted
  <2>5. (done \cup disp[d].ok)' \subseteq Old \cup {Current(d)}
    BY <1>5, <1>8, <1>19, <2>1 DEF Alert
  <2>6. QED
    BY <1>5, <1>7, <1>10, <2>1, <2>4, <2>5
<1>20. CASE HandlerFails(d)
  <2>1. (done \cup disp[d].ok)' \subseteq Old
    BY <1>8, <1>20 DEF HandlerFails, Busy
  <2>2. QED
    BY <1>6, <1>10, <1>20, <2>1 DEF HandlerFails
<1>21. QED
  <2>1. (Environment \/ UNCHANGED vars) \/ (Work(d) \/ Fault(d))
    BY DEF OneDispatcher, Next
  <2>2. QED
    BY <2>1, <1>11, <1>12, <1>13, <1>14, <1>15, <1>16, <1>17, <1>18, <1>19, <1>20
    DEF Work, Fault

LEMMA SoloKept == OneDispatcher /\ SoloInv /\ [Next]_vars => SoloInv'
<1> SUFFICES ASSUME OneDispatcher, SoloInv, [Next]_vars PROVE SoloInv'
  OBVIOUS
<1>1. IInv'
  BY NextIInv DEF SoloInv
<1>2. \A d \in Dispatchers : HandledOnce(d)'
  BY DisjointKept, AlertsKept DEF HandledOnce, AlertedIn
<1>3. QED
  BY <1>1, <1>2 DEF SoloInv

LEMMA SoloInvariant == ASSUME OneDispatcher PROVE Spec => []SoloInv
<1>1. Init => SoloInv
  BY InitIInv DEF Init, SoloInv, HandledOnce, Starting
<1>2. SoloInv /\ [Next]_vars => SoloInv'
  BY SoloKept
<1>3. QED
  BY <1>1, <1>2, PTL DEF Spec

(* With the one dispatcher that the server starts, a version found         *)
(* corrupted has its alert in the outbox by the time its event is marked,  *)
(* although the two are written by two statements that a crash or a        *)
(* failing call can separate.                                              *)
THEOREM CorruptedHasAlert == ASSUME OneDispatcher PROVE Spec => []CorruptedIsAlerted
<1>1. SoloInv => CorruptedIsAlerted
  <2> SUFFICES ASSUME SoloInv, NEW i \in done, NEW v \in Versions,
                      log[i] = Created(v), status[v] = "corrupted"
               PROVE  Alerted(v)
    BY DEF CorruptedIsAlerted, Alerted
  <2>1. PICK d \in Dispatchers : HandledOnce(d)
    BY DEF OneDispatcher, SoloInv
  <2>2. QED
    BY <2>1 DEF HandledOnce
<1>2. QED
  BY <1>1, SoloInvariant, PTL

(* With one dispatcher a verdict is final once its event is marked:        *)
(* whatever is polled, retried or restarted, nothing verifies the version  *)
(* again.                                                                  *)
THEOREM VerdictsAreFinal == ASSUME OneDispatcher PROVE Spec => VerdictIsFinal
<1>1. ASSUME SoloInv, [Next]_vars, NEW i \in done, NEW v \in Versions,
             log[i] = Created(v), status[v] \in {"verified", "corrupted"}
      PROVE  status'[v] \in {status[v], "gone"}
  <2>1. status \in [Versions -> {"none", "pending", "verified", "corrupted", "gone"}]
    BY <1>1 DEF SoloInv, IInv, TypeOK
  <2>2. ASSUME NEW d \in Dispatchers, FlagVerified(d) \/ FlagCorrupted(d)
        PROVE  status'[v] = status[v]
    <3>1. Verifying(d)
      BY <2>2 DEF FlagVerified, FlagCorrupted, Verifying, At
    <3>2. v # Version(d)
      BY <1>1, <3>1, NotYetHandled
    <3>3. QED
      BY <2>1, <2>2, <3>2 DEF FlagVerified, FlagCorrupted, SetStatus
  <2>3. ASSUME NEW w \in Versions,
               Prune(w) \/ \E uploaded \in {"whole", "partial"} : Commit(w, uploaded)
        PROVE  status'[v] \in {status[v], "gone"}
    BY <1>1, <2>1, <2>3 DEF Prune, Commit
  <2>4. QED
    BY <1>1, <2>2, <2>3
    DEF Next, Environment, LateUpload, ScheduleGc, Work, Fault, Poll, Mark, Wake, RunGc,
        LogFailure, LoadVersion, HeadChunks, Alert, HandlerFails, MarkFails, Crash, vars
<1> DEFINE Final == \A i \in done, v \in Versions :
                      log[i] = Created(v) /\ status[v] \in {"verified", "corrupted"}
                        => status'[v] \in {status[v], "gone"}
<1>2. SoloInv /\ [Next]_vars => [Final]_vars
  BY <1>1
<1>3. VerdictIsFinal <=> [][Final]_vars
  BY DEF VerdictIsFinal
<1>4. QED
  BY <1>2, <1>3, SoloInvariant, PTL DEF Spec
=============================================================================
