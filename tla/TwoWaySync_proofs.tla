---------------------------- MODULE TwoWaySync_proofs ----------------------------
(***************************************************************************)
(* The three-way sync for any number of machines, contents, edits and      *)
(* faults: a pull destroys no local work, only a race publishes over what  *)
(* the sync did not know, and machines do not push back and forth.         *)
(***************************************************************************)
EXTENDS TwoWaySync, FiniteSets, FiniteSetTheorems, SequenceTheorems, TLAPS

Data == Contents \cup {PendingBody(n) : n \in Nat}
Row == [hash : Data \cup {None}, no : Nat]
Phases == {"idle", "info", "decide", "prepare", "resume", "negotiate", "commit", "committed",
           "download", "write", "cache"}
Pushing == {"prepare", "resume", "negotiate", "commit"}

Forces == {"no", "push", "pull", "command"}
ProcRecords == [at : Phases, force : Forces, ancestor : Row, existed : BOOLEAN, info : Row,
                data : Data \cup {None}, seen : Nat, edited : BOOLEAN]
Sessions == [hash : Data \cup {None}, snap : Nat, live : BOOLEAN]

TypeOK ==
  /\ versions \in Seq(Data) /\ status \in {"verified", "pending", "corrupted"}
  /\ local \in [Clients -> Data \cup {None}]
  /\ cache \in [Clients -> Row]
  /\ session \in [Clients -> Sessions]
  /\ proc \in [Clients -> ProcRecords]
  /\ conflict \in [Clients -> BOOLEAN]
  /\ edits \in Nat /\ forces \in Nat /\ faults \in Nat

(* What the rows and the commands of a machine hold comes from the server, *)
(* and what a command has read of the file is the file, unless it was      *)
(* edited since.                                                           *)
Served0 == Served \cup {None}
FromServer(c) ==
  /\ cache[c].hash \in Served0
  /\ proc[c].at \in {"info", "decide"} => proc[c].ancestor = cache[c]
  /\ proc[c].at = "decide" => proc[c].info.hash \in ToSet(versions) \cup {None}
  /\ proc[c].at \in {"write", "cache", "committed"} => proc[c].data \in Served
  /\ proc[c].at = "download" => Newest > 0
ReadIsFile(c) ==
  ~proc[c].edited =>
    /\ proc[c].at = "info" => (proc[c].existed <=> local[c] # None)
    /\ proc[c].at = "decide" => proc[c].data = local[c]
    /\ proc[c].at \in {"download", "write"} /\ proc[c].force \in {"no", "push"} =>
         local[c] \in Served0

(* A push publishes what it has read, which is something.                  *)
PushesData(c) ==
  /\ proc[c].at \in Pushing \cup {"committed"} => proc[c].data # None
  /\ proc[c].at \in {"resume", "commit"} => session[c].hash = proc[c].data

(* Without faults, a sync that no version has overtaken knows the newest.  *)
Alone(c) == faults = 0 /\ Newest = proc[c].seen /\ Newest > 0
KnowsNewest(c) ==
  /\ proc[c].seen <= Newest
  /\ proc[c].at = "decide" /\ Alone(c) => proc[c].info.hash = Last(versions)
  /\ proc[c].at \in Pushing /\ proc[c].force \in {"no", "pull"} /\ Alone(c) =>
       Last(versions) = proc[c].ancestor.hash

MachineInv(c) == FromServer(c) /\ ReadIsFile(c) /\ PushesData(c) /\ KnowsNewest(c)
NoEmptyVersion == \A i \in 1 .. Newest : versions[i] # None

(* The pushes that edits, forces, commands and faults have paid for: those *)
(* under way, and those a plain sync could make without any more of them.  *)
Unsynced(c) == local[c] # cache[c].hash /\ (cache[c].hash # None \/ Newest = 0)
Flying(c) == \/ proc[c].at = "info" /\ proc[c].force = "push"
             \/ proc[c].at = "decide" /\ (proc[c].force = "push" \/ ToPush(c))
             \/ proc[c].at \in Pushing
Dirty(c) ==
  /\ local[c] # None
  /\ \/ proc[c].at \in {"idle", "info", "download"} /\ Unsynced(c)
     \/ proc[c].at = "decide" /\ ~ToPush(c)
        /\ (Unsynced(c) \/ (Convergent(c) /\ local[c] # proc[c].data))
     \/ proc[c].at = "decide" /\ ToPush(c) /\ local[c] # proc[c].data
     \/ proc[c].at \in Pushing \cup {"committed", "cache"} /\ local[c] # proc[c].data
FlyingSet == {c \in Clients : Flying(c)}
DirtySet == {c \in Clients : Dirty(c)}
Paid == /\ IsFiniteSet(FlyingSet) /\ IsFiniteSet(DirtySet)
        /\ Newest + Cardinality(FlyingSet) + Cardinality(DirtySet) <= edits + forces + faults

IInv == TypeOK /\ NoEmptyVersion /\ (\A c \in Clients : MachineInv(c)) /\ Paid

-----------------------------------------------------------------------------
(* Commands                                                                *)

(* The command on machine c goes on with these fields; no other moves.     *)
Moved(c, at, force, ancestor, existed, info, data, seen, edited) ==
  /\ proc' \in [Clients -> ProcRecords]
  /\ \A d \in Clients : d # c => proc'[d] = proc[d]
  /\ proc'[c].at = at /\ proc'[c].force = force /\ proc'[c].ancestor = ancestor
  /\ proc'[c].existed = existed /\ proc'[c].info = info /\ proc'[c].data = data
  /\ proc'[c].seen = seen /\ proc'[c].edited = edited

Is(r, at, force, ancestor, existed, info, data, seen, edited) ==
  /\ r \in ProcRecords
  /\ r.at = at /\ r.force = force /\ r.ancestor = ancestor /\ r.existed = existed
  /\ r.info = info /\ r.data = data /\ r.seen = seen /\ r.edited = edited

LEMMA RecordMoves ==
  ASSUME TypeOK, NEW c \in Clients, NEW r, NEW at, NEW force, NEW ancestor, NEW existed,
         NEW info, NEW data, NEW seen, NEW edited,
         Is(r, at, force, ancestor, existed, info, data, seen, edited),
         proc' = [proc EXCEPT ![c] = r]
  PROVE  Moved(c, at, force, ancestor, existed, info, data, seen, edited)
<1>1. proc \in [Clients -> ProcRecords] /\ r \in ProcRecords
  BY DEF TypeOK, Is
<1>2. proc' \in [Clients -> ProcRecords] /\ proc'[c] = r
      /\ \A d \in Clients : d # c => proc'[d] = proc[d]
  BY <1>1, Zenon
<1>3. QED
  BY <1>2 DEF Moved, Is

(* The ways in which actions update some fields.                           *)
LEMMA FieldsMove ==
  ASSUME TypeOK, NEW c \in Clients, NEW at \in Phases, NEW info \in Row,
         NEW data \in Data \cup {None}, NEW edited \in BOOLEAN
  PROVE  LET p == proc[c]
         IN  /\ Goto(c, at) =>
                  Moved(c, at, p.force, p.ancestor, p.existed, p.info, p.data, p.seen, p.edited)
             /\ proc' = [proc EXCEPT ![c].edited = edited] =>
                  Moved(c, p.at, p.force, p.ancestor, p.existed, p.info, p.data, p.seen, edited)
             /\ proc' = [proc EXCEPT ![c].at = at, ![c].data = data] =>
                  Moved(c, at, p.force, p.ancestor, p.existed, p.info, data, p.seen, p.edited)
             /\ proc' = [proc EXCEPT ![c].at = at, ![c].data = data, ![c].info = info] =>
                  Moved(c, at, p.force, p.ancestor, p.existed, info, data, p.seen, p.edited)
             /\ proc' = [proc EXCEPT ![c].at = at, ![c].data = None, ![c].ancestor = Nothing,
                                     ![c].seen = 0] =>
                  Moved(c, at, p.force, Nothing, p.existed, p.info, None, 0, p.edited)
<1> DEFINE p == proc[c]
<1>1. p \in ProcRecords /\ c \in DOMAIN proc
  BY DEF TypeOK
<1>2. Nothing \in Row /\ None \in Data \cup {None} /\ 0 \in Nat
  BY DEF Nothing, Row
<1>3. ASSUME Goto(c, at)
      PROVE  Moved(c, at, p.force, p.ancestor, p.existed, p.info, p.data, p.seen, p.edited)
  <2> DEFINE r1 == [p EXCEPT !.at = at]
  <2>1. proc' = [proc EXCEPT ![c] = r1]
    BY <1>3, <1>1, Zenon DEF Goto
  <2>2. Is(r1, at, p.force, p.ancestor, p.existed, p.info, p.data, p.seen, p.edited)
    BY <1>1, <1>2 DEF Is, ProcRecords
  <2> HIDE DEF r1
  <2>3. QED
    BY <2>1, <2>2, RecordMoves
<1>4. ASSUME proc' = [proc EXCEPT ![c].edited = edited]
      PROVE  Moved(c, p.at, p.force, p.ancestor, p.existed, p.info, p.data, p.seen, edited)
  <2> DEFINE r1 == [p EXCEPT !.edited = edited]
  <2>1. proc' = [proc EXCEPT ![c] = r1]
    BY <1>4, <1>1, Zenon
  <2>2. Is(r1, p.at, p.force, p.ancestor, p.existed, p.info, p.data, p.seen, edited)
    BY <1>1, <1>2 DEF Is, ProcRecords
  <2> HIDE DEF r1
  <2>3. QED
    BY <2>1, <2>2, RecordMoves
<1>5. ASSUME proc' = [proc EXCEPT ![c].at = at, ![c].data = data]
      PROVE  Moved(c, at, p.force, p.ancestor, p.existed, p.info, data, p.seen, p.edited)
  <2> DEFINE r1 == [p EXCEPT !.at = at]
             r2 == [r1 EXCEPT !.data = data]
  <2>1. proc' = [proc EXCEPT ![c] = r2]
    BY <1>5, <1>1
  <2>2. Is(r1, at, p.force, p.ancestor, p.existed, p.info, p.data, p.seen, p.edited)
    BY <1>1, <1>2 DEF Is, ProcRecords
  <2> HIDE DEF r1
  <2>3. Is(r2, at, p.force, p.ancestor, p.existed, p.info, data, p.seen, p.edited)
    BY <1>1, <1>2, <2>2 DEF Is, ProcRecords
  <2> HIDE DEF r2
  <2>4. QED
    BY <2>1, <2>3, RecordMoves
<1>6. ASSUME proc' = [proc EXCEPT ![c].at = at, ![c].data = data, ![c].info = info]
      PROVE  Moved(c, at, p.force, p.ancestor, p.existed, info, data, p.seen, p.edited)
  <2> DEFINE r1 == [p EXCEPT !.at = at]
             r2 == [r1 EXCEPT !.data = data]
             r3 == [r2 EXCEPT !.info = info]
  <2>1. proc' = [proc EXCEPT ![c] = r3]
    BY <1>6, <1>1
  <2>2. Is(r1, at, p.force, p.ancestor, p.existed, p.info, p.data, p.seen, p.edited)
    BY <1>1, <1>2 DEF Is, ProcRecords
  <2> HIDE DEF r1
  <2>3. Is(r2, at, p.force, p.ancestor, p.existed, p.info, data, p.seen, p.edited)
    BY <1>1, <1>2, <2>2 DEF Is, ProcRecords
  <2> HIDE DEF r2
  <2>4. Is(r3, at, p.force, p.ancestor, p.existed, info, data, p.seen, p.edited)
    BY <1>1, <1>2, <2>3 DEF Is, ProcRecords
  <2> HIDE DEF r3
  <2>5. QED
    BY <2>1, <2>4, RecordMoves
<1>7. ASSUME proc' = [proc EXCEPT ![c].at = at, ![c].data = None, ![c].ancestor = Nothing,
                                    ![c].seen = 0]
      PROVE  Moved(c, at, p.force, Nothing, p.existed, p.info, None, 0, p.edited)
  <2> DEFINE r1 == [p EXCEPT !.at = at]
             r2 == [r1 EXCEPT !.data = None]
             r3 == [r2 EXCEPT !.ancestor = Nothing]
             r4 == [r3 EXCEPT !.seen = 0]
  <2>1. proc' = [proc EXCEPT ![c] = r4]
    BY <1>7, <1>1
  <2>2. Is(r1, at, p.force, p.ancestor, p.existed, p.info, p.data, p.seen, p.edited)
    BY <1>1, <1>2 DEF Is, ProcRecords
  <2> HIDE DEF r1
  <2>3. Is(r2, at, p.force, p.ancestor, p.existed, p.info, None, p.seen, p.edited)
    BY <1>1, <1>2, <2>2 DEF Is, ProcRecords
  <2> HIDE DEF r2
  <2>4. Is(r3, at, p.force, Nothing, p.existed, p.info, None, p.seen, p.edited)
    BY <1>1, <1>2, <2>3 DEF Is, ProcRecords
  <2> HIDE DEF r3
  <2>5. Is(r4, at, p.force, Nothing, p.existed, p.info, None, 0, p.edited)
    BY <1>1, <1>2, <2>4 DEF Is, ProcRecords
  <2> HIDE DEF r4
  <2>6. QED
    BY <2>1, <2>5, RecordMoves
<1>8. QED
  BY <1>3, <1>4, <1>5, <1>6, <1>7

(* A command comes to its end, and a command starts.                       *)
LEMMA IdleMoves ==
  ASSUME TypeOK, NEW c \in Clients, proc' = [proc EXCEPT ![c] = Idle]
  PROVE  Moved(c, "idle", "no", Nothing, FALSE, Nothing, None, 0, FALSE)
<1>1. Is(Idle, "idle", "no", Nothing, FALSE, Nothing, None, 0, FALSE)
  BY DEF Is, Idle, ProcRecords, Phases, Forces, Row, Nothing
<1>2. QED
  BY <1>1, RecordMoves

LEMMA NothingMoves ==
  ASSUME TypeOK, NEW c \in Clients, UNCHANGED proc
  PROVE  LET p == proc[c]
         IN  Moved(c, p.at, p.force, p.ancestor, p.existed, p.info, p.data, p.seen, p.edited)
BY DEF TypeOK, Moved

(* The file and the rows of machine c; those of no other machine change.   *)
Put(c, file, row, sess) ==
  /\ local' \in [Clients -> Data \cup {None}] /\ cache' \in [Clients -> Row]
  /\ session' \in [Clients -> Sessions]
  /\ local'[c] = file /\ cache'[c] = row /\ session'[c] = sess
  /\ \A d \in Clients : d # c => /\ local'[d] = local[d] /\ cache'[d] = cache[d]
                                 /\ session'[d] = session[d]

LEMMA RowsPut ==
  ASSUME TypeOK, NEW c \in Clients, NEW file \in Data \cup {None}, NEW row \in Row,
         NEW sess \in Sessions
  PROVE  /\ UNCHANGED <<local, cache, session>> => Put(c, local[c], cache[c], session[c])
         /\ local' = [local EXCEPT ![c] = file] /\ UNCHANGED <<cache, session>>
              => Put(c, file, cache[c], session[c])
         /\ cache' = [cache EXCEPT ![c] = row] /\ UNCHANGED <<local, session>>
              => Put(c, local[c], row, session[c])
         /\ session' = [session EXCEPT ![c] = sess] /\ UNCHANGED <<local, cache>>
              => Put(c, local[c], cache[c], sess)
         /\ cache' = [cache EXCEPT ![c] = row] /\ session' = [session EXCEPT ![c] = sess]
              /\ UNCHANGED local => Put(c, local[c], row, sess)
<1>1. /\ local \in [Clients -> Data \cup {None}] /\ cache \in [Clients -> Row]
      /\ session \in [Clients -> Sessions]
  BY DEF TypeOK
<1>2. QED
  BY <1>1 DEF Put

(* The token of a session is lost; nothing else of the row changes.        *)
LEMMA SessionDies ==
  ASSUME TypeOK, NEW c \in Clients, session' = [session EXCEPT ![c].live = FALSE],
         UNCHANGED <<local, cache>>
  PROVE  \E sess \in Sessions : sess.hash = session[c].hash /\ Put(c, local[c], cache[c], sess)
<1> DEFINE sess == [session[c] EXCEPT !.live = FALSE]
<1>1. sess \in Sessions /\ sess.hash = session[c].hash
  BY DEF TypeOK, Sessions
<1>2. session' = [session EXCEPT ![c] = sess]
  BY Zenon
<1> HIDE DEF sess
<1>3. local[c] \in Data \cup {None} /\ cache[c] \in Row
  BY DEF TypeOK
<1>4. QED
  BY <1>1, <1>2, <1>3, RowsPut

-----------------------------------------------------------------------------
(* What no step takes back                                                 *)

(* The server's versions grow at the end, faults are counted.              *)
Grows == /\ versions' = versions \/ \E h \in Data \ {None} : versions' = Append(versions, h)
         /\ faults' \in Nat /\ faults' >= faults

LEMMA ServedGrows ==
  ASSUME TypeOK, Grows
  PROVE  /\ Served \subseteq Served' /\ Served0 \subseteq Served0'
         /\ ToSet(versions) \subseteq ToSet(versions)'
         /\ Newest' = Newest \/ Newest' = Newest + 1
         /\ Newest \in Nat
         /\ Newest' = Newest => versions' = versions
<1>1. versions \in Seq(Data) /\ Newest \in Nat /\ ToSet(versions) = {versions[i] : i \in 1 .. Newest}
  BY DEF TypeOK, Newest, ToSet
<1>2. CASE versions' = versions
  <2>1. Newest' = Newest /\ ToSet(versions)' = ToSet(versions)
    BY <1>2 DEF Newest
  <2>2. Served' = Served
    BY <2>1 DEF Served
  <2>3. QED
    BY <1>1, <1>2, <2>1, <2>2 DEF Served0
<1>3. ASSUME NEW h \in Data, versions' = Append(versions, h)
      PROVE  /\ Served \subseteq Served' /\ ToSet(versions) \subseteq ToSet(versions)'
             /\ Newest' = Newest + 1
  <2>1. /\ Newest' = Newest + 1 /\ \A i \in 1 .. Newest : versions'[i] = versions[i] /\ i \in 1 .. Newest'
    BY <1>1, <1>3 DEF Newest
  <2>2. ToSet(versions)' = {versions'[i] : i \in 1 .. Newest'}
    BY DEF ToSet, Newest
  <2>3. ToSet(versions) \subseteq ToSet(versions)'
    BY <1>1, <2>1, <2>2
  <2>4. {PendingBody(n) : n \in 1 .. Newest} \subseteq {PendingBody(n) : n \in 1 .. Newest'}
    BY <2>1
  <2>5. QED
    BY <2>1, <2>3, <2>4 DEF Served
<1>4. QED
  BY <1>1, <1>2, <1>3 DEF Grows, Served0

(* What holds of a machine survives the steps of the others.               *)
LEMMA OthersKeep ==
  ASSUME TypeOK, Grows, NEW c \in Clients, MachineInv(c),
         local'[c] = local[c], cache'[c] = cache[c], session'[c].hash = session[c].hash,
         proc'[c] = proc[c]
  PROVE  MachineInv(c)'
<1>1. FromServer(c)'
  BY ServedGrows DEF MachineInv, FromServer
<1>2. ReadIsFile(c)'
  BY ServedGrows DEF MachineInv, ReadIsFile
<1>3. PushesData(c)'
  BY DEF MachineInv, PushesData
<1>4. KnowsNewest(c)'
  <2>1. proc[c].seen \in Nat /\ faults \in Nat /\ faults' \in Nat /\ faults' >= faults
    BY DEF TypeOK, ProcRecords, Grows
  <2>2. proc[c].seen <= Newest
    BY DEF MachineInv, KnowsNewest
  <2>3. proc'[c].seen <= Newest'
    BY <2>1, <2>2, ServedGrows
  <2>4. Alone(c)' => Alone(c) /\ versions' = versions
    <3>1. faults' = 0 => faults = 0
      BY <2>1
    <3>2. Newest' = proc[c].seen => Newest' = Newest
      BY <2>1, <2>2, ServedGrows
    <3>3. QED
      BY <3>1, <3>2, ServedGrows DEF Alone
  <2>5. QED
    BY <2>3, <2>4 DEF MachineInv, KnowsNewest
<1>5. QED
  BY <1>1, <1>2, <1>3, <1>4 DEF MachineInv

-----------------------------------------------------------------------------
(* What each action does to its machine                                    *)
Returned(c) == Moved(c, "idle", "no", Nothing, FALSE, Nothing, None, 0, FALSE)
Stays(c, at) == LET p == proc[c]
                IN  Moved(c, at, p.force, p.ancestor, p.existed, p.info, p.data, p.seen, p.edited)
Holds(c, at, info, data) ==
  LET p == proc[c] IN Moved(c, at, p.force, p.ancestor, p.existed, info, data, p.seen, p.edited)
Kept(c) == Put(c, local[c], cache[c], session[c])
RowPut(c, row) == Put(c, local[c], row, session[c])
SessionPut(c, sess) == Put(c, local[c], cache[c], sess)
Counted == edits' \in Nat /\ forces' \in Nat /\ faults' \in Nat /\ faults' >= faults
           /\ edits' + forces' + faults' >= edits + forces + faults

LEMMA PhasesAre ==
  /\ "idle" \in Phases /\ "info" \in Phases /\ "decide" \in Phases /\ "prepare" \in Phases
  /\ "resume" \in Phases /\ "negotiate" \in Phases /\ "commit" \in Phases /\ "committed" \in Phases
  /\ "download" \in Phases /\ "write" \in Phases /\ "cache" \in Phases
  /\ "no" \in Forces /\ "push" \in Forces /\ "pull" \in Forces /\ "command" \in Forces
  /\ Nothing \in Row /\ None \in Data \cup {None}
BY DEF Phases, Forces, Row, Nothing

LEMMA FieldTypes ==
  ASSUME TypeOK, NEW c \in Clients
  PROVE  /\ proc[c].at \in Phases /\ proc[c].force \in Forces /\ proc[c].ancestor \in Row
         /\ proc[c].existed \in BOOLEAN /\ proc[c].info \in Row
         /\ proc[c].data \in Data \cup {None} /\ proc[c].seen \in Nat /\ proc[c].edited \in BOOLEAN
         /\ local[c] \in Data \cup {None} /\ cache[c] \in Row /\ session[c] \in Sessions
         /\ proc[c].info.hash \in Data \cup {None} /\ proc[c].info.no \in Nat
         /\ session[c].hash \in Data \cup {None}
         /\ edits \in Nat /\ forces \in Nat /\ faults \in Nat /\ Newest \in Nat
BY DEF TypeOK, ProcRecords, Row, Sessions, Newest

LEMMA CountsGrow ==
  ASSUME TypeOK
  PROVE  /\ UNCHANGED bounds => Counted
         /\ Fault /\ UNCHANGED <<edits, forces>> => Counted /\ faults' = faults + 1
         /\ edits' = edits + 1 /\ UNCHANGED <<forces, faults>> => Counted
         /\ forces' = forces + 1 /\ UNCHANGED <<edits, faults>> => Counted
BY DEF TypeOK, Counted, Fault, bounds

(* Commands that end without a trace.                                      *)
Ends(c) == Skip(c) \/ Conflict(c) \/ PushRefused(c) \/ RequestFails(c) \/ Crash(c)
LEMMA EndsDoes ==
  ASSUME TypeOK, NEW c \in Clients, Ends(c)
  PROVE  Returned(c) /\ Kept(c) /\ UNCHANGED server /\ Counted
<1>1. /\ proc' = [proc EXCEPT ![c] = Idle]
      /\ UNCHANGED <<server, local, cache, session>>
      /\ UNCHANGED bounds \/ (Fault /\ UNCHANGED <<edits, forces>>)
  BY DEF Ends, Skip, Conflict, PushRefused, RequestFails, Crash, Return
<1>2. QED
  BY <1>1, IdleMoves, RowsPut, FieldTypes, CountsGrow DEF Returned, Kept, server

LEMMA EditDoes ==
  ASSUME TypeOK, NEW c \in Clients, NEW d \in Contents \cup {None}, Edit(c, d)
  PROVE  /\ LET p == proc[c] IN
            Moved(c, p.at, p.force, p.ancestor, p.existed, p.info, p.data, p.seen, p.at # "idle")
         /\ Put(c, d, cache[c], session[c]) /\ UNCHANGED server /\ Counted
<1>1. /\ local' = [local EXCEPT ![c] = d] /\ UNCHANGED <<cache, session>> /\ UNCHANGED server
      /\ proc' = [proc EXCEPT ![c].edited = proc[c].at # "idle"]
      /\ edits' = edits + 1 /\ UNCHANGED <<forces, faults>>
  BY DEF Edit
<1>2. d \in Data \cup {None} /\ (proc[c].at # "idle") \in BOOLEAN
  BY DEF Data
<1>3. Put(c, d, cache[c], session[c])
  BY <1>1, <1>2, RowsPut, FieldTypes
<1> DEFINE ed == proc[c].at # "idle"
<1>4. ed \in BOOLEAN /\ proc' = [proc EXCEPT ![c].edited = ed]
  BY <1>1
<1> HIDE DEF ed
<1>5. LET p == proc[c] IN
      Moved(c, p.at, p.force, p.ancestor, p.existed, p.info, p.data, p.seen, ed)
  BY <1>4, FieldsMove, FieldTypes, ZenonT(60)
<1>6. QED
  BY <1>1, <1>3, <1>5, CountsGrow DEF ed

LEMMA GcDoes ==
  ASSUME TypeOK, NEW c \in Clients, GcCommand(c)
  PROVE  Stays(c, proc[c].at) /\ RowPut(c, Nothing) /\ UNCHANGED server /\ UNCHANGED bounds /\ Counted
BY NothingMoves, RowsPut, FieldTypes, CountsGrow, PhasesAre DEF GcCommand, PruneCache, Stays, RowPut

LEMMA ExpireDoes ==
  ASSUME TypeOK, NEW c \in Clients, Expire(c)
  PROVE  /\ Stays(c, proc[c].at) /\ UNCHANGED server /\ UNCHANGED bounds /\ Counted
         /\ \E sess \in Sessions : sess.hash = session[c].hash /\ SessionPut(c, sess)
BY NothingMoves, SessionDies, CountsGrow DEF Expire, Stays, SessionPut

LEMMA StartDoes ==
  ASSUME TypeOK, NEW c \in Clients, NEW force \in {"no", "push", "pull"}, Start(c, force)
  PROVE  /\ Moved(c, "info", force, cache[c], local[c] # None, Nothing, None, Newest, FALSE)
         /\ Kept(c) /\ UNCHANGED server /\ Counted
         /\ force = "push" => edits' + forces' + faults' = edits + forces + faults + 1
<1> DEFINE r == [Idle EXCEPT !.at = "info", !.force = force, !.seen = Newest,
                             !.ancestor = cache[c], !.existed = local[c] # None]
<1>1. /\ proc' = [proc EXCEPT ![c] = r] /\ UNCHANGED <<server, local, cache, session>>
      /\ edits' = edits /\ faults' = faults
      /\ forces' = IF force = "no" THEN forces ELSE forces + 1
  BY DEF Start
<1>2. Is(r, "info", force, cache[c], local[c] # None, Nothing, None, Newest, FALSE)
  <2>1. force \in Forces /\ "info" \in Phases
    BY DEF Forces, Phases
  <2>2. QED
    BY <2>1, FieldTypes, PhasesAre DEF Is, Idle, ProcRecords
<1> HIDE DEF r
<1>3. Moved(c, "info", force, cache[c], local[c] # None, Nothing, None, Newest, FALSE)
  BY <1>1, <1>2, RecordMoves
<1>4. QED
  <2>1. Kept(c)
    BY <1>1, RowsPut, FieldTypes DEF Kept
  <2>2. Counted /\ (force = "push" => edits' + forces' + faults' = edits + forces + faults + 1)
    BY <1>1, FieldTypes DEF Counted
  <2>3. QED
    BY <1>1, <1>3, <2>1, <2>2

LEMMA ReadDoes ==
  ASSUME TypeOK, NEW c \in Clients, NEW info \in Row, Read(c, info)
  PROVE  \/ Returned(c)
         \/ LET p == proc[c] IN
            /\ Moved(c, "decide", p.force, p.ancestor, FALSE, info,
                     IF p.existed THEN local[c] ELSE None, p.seen, p.edited)
            /\ p.existed => local[c] # None
<1>1. CASE proc[c].existed /\ local[c] = None
  BY <1>1, IdleMoves DEF Read, Returned
<1>2. CASE ~(proc[c].existed /\ local[c] = None)
  <2> DEFINE data == IF proc[c].existed THEN local[c] ELSE None
             r == [proc[c] EXCEPT !.at = "decide", !.info = info, !.existed = FALSE, !.data = data]
  <2>1. proc' = [proc EXCEPT ![c] = r]
    BY <1>2, Zenon DEF Read
  <2>2. data \in Data \cup {None}
    BY FieldTypes
  <2>3. Is(r, "decide", proc[c].force, proc[c].ancestor, FALSE, info, data, proc[c].seen, proc[c].edited)
    <3> HIDE DEF data
    <3>1. proc[c] \in ProcRecords
      BY DEF TypeOK
    <3>2. QED
      BY <2>2, <3>1, PhasesAre DEF Is, ProcRecords
  <2> HIDE DEF r
  <2>4. QED
    BY <1>2, <2>1, <2>3, RecordMoves
<1>3. QED
  BY <1>1, <1>2

LEMMA InfoInRow ==
  ASSUME TypeOK
  PROVE  /\ Info \in Row
         /\ Newest > 0 => Info.hash = Last(versions) /\ Last(versions) = versions[Newest]
                          /\ Last(versions) \in ToSet(versions)
         /\ Newest = 0 => Info = Nothing /\ ToSet(versions) = {} /\ Served = {}
<1>1. versions \in Seq(Data) /\ Newest = Len(versions) /\ Newest \in Nat
  BY DEF TypeOK, Newest
<1>2. versions = <<>> <=> Newest = 0
  BY <1>1
<1>3. CASE Newest = 0
  <2>1. 1 .. Newest = {} /\ ToSet(versions) = {}
    BY <1>1, <1>2, <1>3 DEF ToSet
  <2>2. QED
    BY <1>2, <1>3, <2>1, PhasesAre DEF Info, Served
<1>4. CASE Newest > 0
  <2>1. versions[Newest] \in Data /\ Newest \in 1 .. Newest
    BY <1>1, <1>4
  <2>2. Last(versions) = versions[Newest]
    BY <1>1 DEF Last
  <2>3. Info = [hash |-> Last(versions), no |-> Newest]
    BY <1>2, <1>4, <1>1 DEF Info
  <2>4. QED
    BY <1>1, <1>4, <2>1, <2>2, <2>3 DEF Row, ToSet
<1>5. QED
  BY <1>1, <1>3, <1>4

LEMMA InfoDoes ==
  ASSUME TypeOK, NEW c \in Clients, GetInfo(c) \/ GetInfoFails(c)
  PROVE  /\ Kept(c) /\ UNCHANGED server /\ Counted /\ proc[c].at = "info"
         /\ \/ Returned(c)
            \/ \E info \in {Info, Nothing} :
                 LET p == proc[c] IN
                 /\ Moved(c, "decide", p.force, p.ancestor, FALSE, info,
                          IF p.existed THEN local[c] ELSE None, p.seen, p.edited)
                 /\ p.existed => local[c] # None
                 /\ info # Info => /\ faults' = faults + 1
                                   /\ edits' + forces' + faults' = edits + forces + faults + 1
<1>1. /\ UNCHANGED <<server, local, cache, session>> /\ proc[c].at = "info"
      /\ \/ Read(c, Info) /\ UNCHANGED bounds
         \/ Read(c, Nothing) /\ Fault /\ UNCHANGED <<edits, forces>>
  BY DEF GetInfo, GetInfoFails, Read
<1>2. Kept(c) /\ UNCHANGED server /\ Counted
  BY <1>1, RowsPut, FieldTypes, CountsGrow DEF Kept
<1>3. Fault /\ UNCHANGED <<edits, forces>> =>
        faults' = faults + 1 /\ edits' + forces' + faults' = edits + forces + faults + 1
  BY FieldTypes DEF Fault
<1>4. CASE Read(c, Info)
  BY <1>1, <1>2, <1>4, ReadDoes, InfoInRow
<1>5. CASE Read(c, Nothing) /\ Fault /\ UNCHANGED <<edits, forces>>
  BY <1>1, <1>2, <1>3, <1>5, ReadDoes, PhasesAre
<1>6. QED
  BY <1>1, <1>4, <1>5

LEMMA ConvergeDoes ==
  ASSUME TypeOK, NEW c \in Clients, Converge(c)
  PROVE  /\ Returned(c) /\ UNCHANGED server /\ Counted
         /\ \/ local[c] = None /\ Kept(c)
            \/ \E row \in Row : row.hash = proc[c].info.hash /\ RowPut(c, row)
<1> DEFINE row == [hash |-> proc[c].info.hash, no |-> proc[c].info.no]
<1>1. row \in Row /\ row.hash = proc[c].info.hash
  BY FieldTypes DEF Row
<1>2. /\ proc' = [proc EXCEPT ![c] = Idle] /\ UNCHANGED <<server, local, session>> /\ UNCHANGED bounds
      /\ \/ local[c] = None /\ UNCHANGED cache
         \/ cache' = [cache EXCEPT ![c] = row]
  BY DEF Converge, Upsert, Return
<1> HIDE DEF row
<1>3. QED
  BY <1>1, <1>2, IdleMoves, RowsPut, FieldTypes, CountsGrow DEF Returned, Kept, RowPut

LEMMA PushReadDoes ==
  ASSUME TypeOK, NEW c \in Clients, PushRead(c)
  PROVE  /\ Kept(c) /\ UNCHANGED server /\ UNCHANGED bounds /\ Counted
         /\ proc[c].at = "decide" /\ ToPush(c)
         /\ \/ Returned(c)
            \/ local[c] # None /\ Holds(c, "prepare", Nothing, local[c])
<1>1. /\ UNCHANGED <<server, local, cache, session>> /\ UNCHANGED bounds
      /\ proc[c].at = "decide" /\ ToPush(c)
      /\ \/ proc' = [proc EXCEPT ![c] = Idle]
         \/ /\ local[c] # None
            /\ proc' = [proc EXCEPT ![c].at = "prepare", ![c].data = local[c], ![c].info = Nothing]
  BY DEF PushRead, Return
<1>2. Kept(c) /\ Counted
  BY <1>1, RowsPut, FieldTypes, CountsGrow DEF Kept
<1>3. CASE proc' = [proc EXCEPT ![c] = Idle]
  BY <1>1, <1>2, <1>3, IdleMoves DEF Returned
<1>4. CASE /\ local[c] # None
           /\ proc' = [proc EXCEPT ![c].at = "prepare", ![c].data = local[c], ![c].info = Nothing]
  <2>1. Holds(c, "prepare", Nothing, local[c])
    BY <1>4, FieldsMove, FieldTypes, PhasesAre DEF Holds
  <2>2. QED
    BY <1>1, <1>2, <1>4, <2>1
<1>5. QED
  BY <1>1, <1>3, <1>4

LEMMA PushPrepareDoes ==
  ASSUME TypeOK, NEW c \in Clients, PushPrepare(c)
  PROVE  /\ Kept(c) /\ UNCHANGED server /\ UNCHANGED bounds /\ Counted /\ proc[c].at = "prepare"
         /\ \/ cache[c].hash = proc[c].data /\ Returned(c)
            \/ session[c].hash = proc[c].data /\ Stays(c, "resume")
            \/ Stays(c, "negotiate")
<1>1. /\ UNCHANGED <<server, local, cache, session>> /\ UNCHANGED bounds /\ proc[c].at = "prepare"
      /\ \/ cache[c].hash = proc[c].data /\ proc' = [proc EXCEPT ![c] = Idle]
         \/ session[c].hash = proc[c].data /\ Goto(c, "resume")
         \/ Goto(c, "negotiate")
  BY DEF PushPrepare, Return
<1>2. Kept(c) /\ Counted
  BY <1>1, RowsPut, FieldTypes, CountsGrow DEF Kept
<1>3. QED
  BY <1>1, <1>2, IdleMoves, FieldsMove, FieldTypes, PhasesAre DEF Returned, Stays

LEMMA PushResumeDoes ==
  ASSUME TypeOK, NEW c \in Clients, PushResume(c) \/ PushResumeFails(c)
  PROVE  /\ UNCHANGED server /\ Counted /\ proc[c].at = "resume"
         /\ \/ Kept(c) /\ Stays(c, "commit")
            \/ SessionPut(c, NoSession) /\ Stays(c, "negotiate")
<1>1. /\ UNCHANGED <<server, local, cache>> /\ proc[c].at = "resume"
      /\ UNCHANGED bounds \/ (Fault /\ UNCHANGED <<edits, forces>>)
      /\ \/ UNCHANGED session /\ Goto(c, "commit")
         \/ session' = [session EXCEPT ![c] = NoSession] /\ Goto(c, "negotiate")
  BY DEF PushResume, PushResumeFails
<1>2. NoSession \in Sessions
  BY DEF NoSession, Sessions
<1>3. QED
  BY <1>1, <1>2, RowsPut, FieldsMove, FieldTypes, PhasesAre, CountsGrow DEF Stays, Kept, SessionPut

LEMMA PushNegotiateDoes ==
  ASSUME TypeOK, NEW c \in Clients, PushNegotiate(c)
  PROVE  /\ UNCHANGED server /\ UNCHANGED bounds /\ Counted /\ proc[c].at = "negotiate"
         /\ Stays(c, "commit")
         /\ \E sess \in Sessions : sess.hash = proc[c].data /\ SessionPut(c, sess)
<1> DEFINE sess == [hash |-> proc[c].data, snap |-> Newest, live |-> TRUE]
<1>1. sess \in Sessions /\ sess.hash = proc[c].data
  BY FieldTypes DEF Sessions
<1>2. /\ UNCHANGED <<server, local, cache>> /\ UNCHANGED bounds /\ proc[c].at = "negotiate"
      /\ session' = [session EXCEPT ![c] = sess] /\ Goto(c, "commit")
  BY DEF PushNegotiate
<1> HIDE DEF sess
<1>3. QED
  BY <1>1, <1>2, RowsPut, FieldsMove, FieldTypes, PhasesAre, CountsGrow DEF Stays, SessionPut

LEMMA PushCommitDoes ==
  ASSUME TypeOK, NEW c \in Clients, PushCommit(c)
  PROVE  /\ versions' = Append(versions, session[c].hash) /\ status' = "pending"
         /\ UNCHANGED bounds /\ Counted /\ proc[c].at = "commit"
         /\ session[c].snap = Newest
         /\ \E info \in Row :
              Moved(c, "committed", "no", Nothing, FALSE, info, proc[c].data, 0, FALSE)
         /\ \E sess \in Sessions : sess.hash = session[c].hash /\ SessionPut(c, sess)
<1> DEFINE info == [hash |-> None, no |-> Newest + 1]
           r == [Idle EXCEPT !.at = "committed", !.data = proc[c].data, !.info = info]
<1>1. /\ versions' = Append(versions, session[c].hash) /\ status' = "pending"
      /\ UNCHANGED <<local, cache>> /\ UNCHANGED bounds /\ proc[c].at = "commit"
      /\ session[c].snap = Newest
      /\ proc' = [proc EXCEPT ![c] = r]
      /\ session' = [session EXCEPT ![c].live = FALSE]
  BY DEF PushCommit
<1>2. info \in Row
  BY FieldTypes DEF Row
<1> HIDE DEF info
<1>3. Is(r, "committed", "no", Nothing, FALSE, info, proc[c].data, 0, FALSE)
  BY <1>2, FieldTypes, PhasesAre DEF Is, Idle, ProcRecords
<1> HIDE DEF r
<1>4. Moved(c, "committed", "no", Nothing, FALSE, info, proc[c].data, 0, FALSE)
  BY <1>1, <1>3, RecordMoves
<1>5. \E sess \in Sessions : sess.hash = session[c].hash /\ SessionPut(c, sess)
  BY <1>1, SessionDies DEF SessionPut
<1>6. QED
  BY <1>1, <1>2, <1>4, <1>5, CountsGrow

LEMMA PushDoneDoes ==
  ASSUME TypeOK, NEW c \in Clients, PushDone(c)
  PROVE  /\ Returned(c) /\ UNCHANGED server /\ UNCHANGED bounds /\ Counted /\ proc[c].at = "committed"
         /\ \E row \in Row : row.hash = proc[c].data /\ Put(c, local[c], row, NoSession)
<1> DEFINE row == [hash |-> proc[c].data, no |-> proc[c].info.no]
<1>1. row \in Row /\ row.hash = proc[c].data /\ NoSession \in Sessions
  BY FieldTypes DEF Row, NoSession, Sessions
<1>2. /\ proc' = [proc EXCEPT ![c] = Idle] /\ UNCHANGED <<server, local>> /\ UNCHANGED bounds
      /\ session' = [session EXCEPT ![c] = NoSession] /\ cache' = [cache EXCEPT ![c] = row]
      /\ proc[c].at = "committed"
  BY DEF PushDone, Upsert, Return
<1> HIDE DEF row
<1>3. QED
  BY <1>1, <1>2, IdleMoves, RowsPut, FieldTypes, CountsGrow DEF Returned

LEMMA PullDoes ==
  ASSUME TypeOK, NEW c \in Clients, Pull(c)
  PROVE  /\ Kept(c) /\ UNCHANGED server /\ UNCHANGED bounds /\ Counted
         /\ proc[c].at = "decide" /\ ToPull(c)
         /\ LET p == proc[c] IN
            Moved(c, "download", p.force, Nothing, p.existed, p.info, None, 0, p.edited)
<1>1. /\ UNCHANGED <<server, local, cache, session>> /\ UNCHANGED bounds
      /\ proc[c].at = "decide" /\ ToPull(c)
      /\ proc' = [proc EXCEPT ![c].at = "download", ![c].data = None, ![c].ancestor = Nothing,
                              ![c].seen = 0]
  BY DEF Pull
<1>2. Kept(c) /\ Counted
  BY <1>1, RowsPut, FieldTypes, CountsGrow DEF Kept
<1>3. QED
  BY <1>1, <1>2, FieldsMove, FieldTypes, PhasesAre

LEMMA PullFetchDoes ==
  ASSUME TypeOK, NEW c \in Clients, Newest > 0, PullFetch(c) \/ PullVersion(c)
  PROVE  /\ Kept(c) /\ UNCHANGED server /\ UNCHANGED bounds /\ Counted /\ proc[c].at = "download"
         /\ \/ Returned(c)
            \/ \E data \in Served : data \in Data /\ Holds(c, "write", proc[c].info, data)
<1>1. /\ UNCHANGED <<server, local, cache, session>> /\ UNCHANGED bounds /\ proc[c].at = "download"
  BY DEF PullFetch, PullVersion, Return
<1>2. Kept(c) /\ Counted
  BY <1>1, RowsPut, FieldTypes, CountsGrow DEF Kept
<1>3. /\ versions \in Seq(Data) /\ Newest = Len(versions) /\ Newest \in Nat
      /\ \A i \in 1 .. Newest : versions[i] \in ToSet(versions) /\ versions[i] \in Data
      /\ Last(versions) = versions[Newest] /\ Newest \in 1 .. Newest
      /\ ToSet(versions) \subseteq Served
      /\ PendingBody(Newest) \in Served /\ PendingBody(Newest) \in Data
  BY InfoInRow DEF TypeOK, Newest, ToSet, Served, Data
<1>4. ASSUME NEW data \in Data, proc' = [proc EXCEPT ![c].at = "write", ![c].data = data]
      PROVE  Holds(c, "write", proc[c].info, data)
  BY <1>4, FieldsMove, FieldTypes, PhasesAre DEF Holds
<1>5. CASE PullFetch(c)
  <2> DEFINE data == IF status = "pending" THEN PendingBody(Newest) ELSE Last(versions)
  <2>1. \/ proc' = [proc EXCEPT ![c] = Idle]
        \/ proc' = [proc EXCEPT ![c].at = "write", ![c].data = data]
    BY <1>5 DEF PullFetch, Return
  <2>2. data \in Served /\ data \in Data
    BY <1>3
  <2> HIDE DEF data
  <2>3. CASE proc' = [proc EXCEPT ![c] = Idle]
    BY <1>1, <1>2, <2>3, IdleMoves DEF Returned
  <2>4. CASE proc' = [proc EXCEPT ![c].at = "write", ![c].data = data]
    BY <1>1, <1>2, <1>4, <2>2, <2>4
  <2>5. QED
    BY <2>1, <2>3, <2>4
<1>6. CASE PullVersion(c)
  <2> DEFINE data == versions[proc[c].info.no]
  <2>1. /\ proc' = [proc EXCEPT ![c].at = "write", ![c].data = data]
        /\ proc[c].info.no \in 1 .. Newest - 1
    BY <1>6 DEF PullVersion
  <2>2. data \in Served /\ data \in Data
    BY <1>3, <2>1
  <2> HIDE DEF data
  <2>3. QED
    BY <1>1, <1>2, <1>4, <2>1, <2>2
<1>7. QED
  BY <1>5, <1>6

LEMMA PullWriteDoes ==
  ASSUME TypeOK, NEW c \in Clients, PullWrite(c)
  PROVE  /\ Stays(c, "cache") /\ Put(c, proc[c].data, cache[c], session[c])
         /\ UNCHANGED server /\ UNCHANGED bounds /\ Counted /\ proc[c].at = "write"
<1>1. /\ local' = [local EXCEPT ![c] = proc[c].data] /\ UNCHANGED <<server, cache, session>>
      /\ UNCHANGED bounds /\ Goto(c, "cache") /\ proc[c].at = "write"
  BY DEF PullWrite
<1>2. QED
  BY <1>1, RowsPut, FieldsMove, FieldTypes, PhasesAre, CountsGrow DEF Stays

LEMMA PullCacheDoes ==
  ASSUME TypeOK, NEW c \in Clients, PullCache(c)
  PROVE  /\ Returned(c) /\ UNCHANGED server /\ UNCHANGED bounds /\ Counted /\ proc[c].at = "cache"
         /\ \E row \in Row : row.hash = proc[c].data /\ RowPut(c, row)
<1> DEFINE row == [hash |-> proc[c].data, no |-> proc[c].info.no]
<1>1. row \in Row /\ row.hash = proc[c].data
  BY FieldTypes DEF Row
<1>2. /\ proc' = [proc EXCEPT ![c] = Idle] /\ UNCHANGED <<server, local, session>> /\ UNCHANGED bounds
      /\ cache' = [cache EXCEPT ![c] = row] /\ proc[c].at = "cache"
  BY DEF PullCache, Upsert, Return
<1> HIDE DEF row
<1>3. QED
  BY <1>1, <1>2, IdleMoves, RowsPut, FieldTypes, CountsGrow DEF Returned, RowPut

(* The commands push and pull.                                             *)
LEMMA CommandDoes ==
  ASSUME TypeOK, NEW c \in Clients, PushCommand(c) \/ \E no \in 0 .. Newest : PullCommand(c, no)
  PROVE  /\ Kept(c) /\ UNCHANGED server /\ Counted /\ proc[c].at = "idle"
         /\ edits' + forces' + faults' = edits + forces + faults + 1
         /\ \E info \in Row :
              \/ /\ local[c] # None
                 /\ Moved(c, "prepare", "command", Nothing, FALSE, info, local[c], 0, FALSE)
              \/ /\ Newest > 0
                 /\ Moved(c, "download", "command", Nothing, FALSE, info, None, 0, FALSE)
<1>1. ASSUME NEW at \in Phases, NEW data \in Data \cup {None}, NEW no \in Nat,
             Command(c, at, data, no)
      PROVE  /\ Kept(c) /\ UNCHANGED server /\ Counted /\ proc[c].at = "idle"
             /\ edits' + forces' + faults' = edits + forces + faults + 1
             /\ \E info \in Row : Moved(c, at, "command", Nothing, FALSE, info, data, 0, FALSE)
  <2> DEFINE info == [hash |-> None, no |-> no]
             r == [Idle EXCEPT !.at = at, !.force = "command", !.data = data, !.info = info]
  <2>1. /\ UNCHANGED <<server, local, cache, session>> /\ proc[c].at = "idle"
        /\ forces' = forces + 1 /\ UNCHANGED <<edits, faults>>
        /\ proc' = [proc EXCEPT ![c] = r]
    BY <1>1 DEF Command
  <2>2. info \in Row
    BY DEF Row
  <2> HIDE DEF info
  <2>3. Is(r, at, "command", Nothing, FALSE, info, data, 0, FALSE)
    BY <2>2, FieldTypes, PhasesAre DEF Is, Idle, ProcRecords
  <2> HIDE DEF r
  <2>4. Moved(c, at, "command", Nothing, FALSE, info, data, 0, FALSE)
    BY <2>1, <2>3, RecordMoves
  <2>5. Counted /\ edits' + forces' + faults' = edits + forces + faults + 1
    BY <2>1, FieldTypes DEF Counted
  <2>6. Kept(c)
    BY <2>1, RowsPut, FieldTypes DEF Kept
  <2>7. QED
    BY <2>1, <2>2, <2>4, <2>5, <2>6
<1>2. CASE PushCommand(c)
  BY <1>1, <1>2, FieldTypes, PhasesAre DEF PushCommand
<1>3. ASSUME NEW no \in 0 .. Newest, PullCommand(c, no)
      PROVE  Newest > 0 /\ no \in Nat /\ Command(c, "download", None, no)
  BY <1>3, FieldTypes DEF PullCommand
<1>4. QED
  BY <1>1, <1>2, <1>3, PhasesAre

-----------------------------------------------------------------------------
(* What holds of the machine that acts                                     *)
LEMMA SameServer ==
  ASSUME UNCHANGED server
  PROVE  /\ versions' = versions /\ Newest' = Newest /\ Served' = Served /\ Served0' = Served0
         /\ ToSet(versions)' = ToSet(versions) /\ Last(versions)' = Last(versions)
BY DEF server, Newest, Served, Served0

LEMMA ReturnKeeps ==
  ASSUME TypeOK, Grows, NEW c \in Clients, Returned(c), cache'[c].hash \in Served0'
  PROVE  MachineInv(c)'
<1>1. /\ proc'[c].at = "idle" /\ proc'[c].seen = 0
  BY DEF Returned, Moved
<1>2. FromServer(c)' /\ ReadIsFile(c)' /\ PushesData(c)'
  BY <1>1 DEF FromServer, ReadIsFile, PushesData, Pushing
<1>3. 0 <= Newest'
  BY ServedGrows, FieldTypes
<1>4. KnowsNewest(c)'
  BY <1>1, <1>3 DEF KnowsNewest, Pushing
<1>5. QED
  BY <1>2, <1>4 DEF MachineInv

(* The command goes no further; a row or a token may be gone.              *)
LEMMA StayKeeps ==
  ASSUME TypeOK, NEW c \in Clients, MachineInv(c), UNCHANGED server, Counted,
         Stays(c, proc[c].at), local'[c] = local[c], session'[c].hash = session[c].hash,
         cache'[c] = cache[c] \/ (cache'[c] = Nothing /\ proc[c].at \in {"idle", "prepare"})
  PROVE  MachineInv(c)'
<1>1. /\ proc'[c].at = proc[c].at /\ proc'[c].force = proc[c].force
      /\ proc'[c].ancestor = proc[c].ancestor /\ proc'[c].existed = proc[c].existed
      /\ proc'[c].info = proc[c].info /\ proc'[c].data = proc[c].data
      /\ proc'[c].seen = proc[c].seen /\ proc'[c].edited = proc[c].edited
  BY DEF Stays, Moved
<1>2. FromServer(c)'
  BY <1>1, SameServer DEF MachineInv, FromServer, Nothing, Served0
<1>3. ReadIsFile(c)'
  BY <1>1, SameServer DEF MachineInv, ReadIsFile
<1>4. PushesData(c)'
  BY <1>1 DEF MachineInv, PushesData
<1>5. KnowsNewest(c)'
  <2>1. faults' = 0 => faults = 0
    BY FieldTypes DEF Counted
  <2>2. Alone(c)' => Alone(c)
    BY <1>1, <2>1, SameServer DEF Alone
  <2>3. QED
    BY <1>1, <2>2, SameServer DEF MachineInv, KnowsNewest
<1>6. QED
  BY <1>2, <1>3, <1>4, <1>5 DEF MachineInv

LEMMA EditKeeps ==
  ASSUME TypeOK, NEW c \in Clients, MachineInv(c), NEW d \in Contents \cup {None}, Edit(c, d)
  PROVE  MachineInv(c)'
<1>1. /\ proc'[c].at = proc[c].at /\ proc'[c].force = proc[c].force
      /\ proc'[c].ancestor = proc[c].ancestor
      /\ proc'[c].info = proc[c].info /\ proc'[c].data = proc[c].data
      /\ proc'[c].seen = proc[c].seen
      /\ proc[c].at # "idle" => proc'[c].edited
      /\ cache'[c] = cache[c] /\ session'[c] = session[c] /\ UNCHANGED server /\ Counted
  BY EditDoes DEF Moved, Put
<1>2. FromServer(c)'
  BY <1>1, SameServer DEF MachineInv, FromServer
<1>3. ReadIsFile(c)'
  BY <1>1 DEF ReadIsFile
<1>4. PushesData(c)'
  BY <1>1 DEF MachineInv, PushesData
<1>5. KnowsNewest(c)'
  <2>1. faults' = 0 => faults = 0
    BY <1>1, FieldTypes DEF Counted
  <2>2. Alone(c)' => Alone(c)
    BY <1>1, <2>1, SameServer DEF Alone
  <2>3. QED
    BY <1>1, <2>2, SameServer DEF MachineInv, KnowsNewest
<1>6. QED
  BY <1>2, <1>3, <1>4, <1>5 DEF MachineInv

LEMMA StartKeeps ==
  ASSUME TypeOK, NEW c \in Clients, MachineInv(c), NEW force \in {"no", "push", "pull"},
         Start(c, force)
  PROVE  MachineInv(c)'
<1>1. /\ proc'[c].at = "info" /\ proc'[c].ancestor = cache[c] /\ proc'[c].seen = Newest
      /\ proc'[c].existed = (local[c] # None)
      /\ local'[c] = local[c] /\ cache'[c] = cache[c] /\ UNCHANGED server
  BY StartDoes DEF Moved, Kept, Put
<1>2. FromServer(c)'
  BY <1>1, SameServer DEF MachineInv, FromServer
<1>3. ReadIsFile(c)' /\ PushesData(c)'
  BY <1>1 DEF ReadIsFile, PushesData, Pushing
<1>4. KnowsNewest(c)'
  BY <1>1, SameServer, FieldTypes DEF KnowsNewest, Pushing
<1>5. QED
  BY <1>2, <1>3, <1>4 DEF MachineInv

LEMMA InfoKeeps ==
  ASSUME TypeOK, NEW c \in Clients, MachineInv(c), GetInfo(c) \/ GetInfoFails(c)
  PROVE  MachineInv(c)'
<1>1. /\ Kept(c) /\ UNCHANGED server /\ Counted /\ proc[c].at = "info"
      /\ local'[c] = local[c] /\ cache'[c] = cache[c]
  BY InfoDoes DEF Kept, Put
<1>2. CASE Returned(c)
  BY <1>1, <1>2, ReturnKeeps, SameServer DEF Grows, Counted, server, MachineInv, FromServer
<1>3. ASSUME NEW info \in {Info, Nothing},
             LET p == proc[c] IN
             Moved(c, "decide", p.force, p.ancestor, FALSE, info,
                   IF p.existed THEN local[c] ELSE None, p.seen, p.edited),
             info # Info => faults' = faults + 1
      PROVE  MachineInv(c)'
  <2>1. /\ proc'[c].at = "decide" /\ proc'[c].ancestor = proc[c].ancestor
        /\ proc'[c].info = info /\ proc'[c].data = (IF proc[c].existed THEN local[c] ELSE None)
        /\ proc'[c].seen = proc[c].seen /\ proc'[c].edited = proc[c].edited
    BY <1>3 DEF Moved
  <2>2. info.hash \in ToSet(versions) \cup {None}
    BY InfoInRow, FieldTypes DEF Nothing
  <2>3. FromServer(c)'
    BY <1>1, <2>1, <2>2, SameServer DEF MachineInv, FromServer
  <2>4. ReadIsFile(c)' /\ PushesData(c)'
    BY <1>1, <2>1 DEF MachineInv, ReadIsFile, PushesData, Pushing
  <2>5. Alone(c)' => info.hash = Last(versions)
    <3>1. faults' = 0 => info = Info
      BY <1>3, FieldTypes
    <3>2. QED
      BY <1>1, <2>1, <3>1, SameServer, InfoInRow DEF Alone
  <2>6. KnowsNewest(c)'
    BY <1>1, <2>1, <2>5, SameServer DEF MachineInv, KnowsNewest, Pushing
  <2>7. QED
    BY <2>3, <2>4, <2>6 DEF MachineInv
<1>4. QED
  BY <1>2, <1>3, InfoDoes

(* A phase of a push follows on another, with the same data.               *)
LEMMA PushGoesOn ==
  ASSUME TypeOK, NEW c \in Clients, MachineInv(c), UNCHANGED server, Counted,
         NEW at \in Pushing, Stays(c, at), proc[c].at \in Pushing,
         cache'[c] = cache[c], local'[c] = local[c],
         at \in {"resume", "commit"} => session'[c].hash = proc[c].data
  PROVE  MachineInv(c)'
<1>1. /\ proc'[c].at = at /\ proc'[c].force = proc[c].force
      /\ proc'[c].ancestor = proc[c].ancestor /\ proc'[c].data = proc[c].data
      /\ proc'[c].seen = proc[c].seen
  BY DEF Stays, Moved
<1>2. FromServer(c)'
  BY <1>1, SameServer DEF MachineInv, FromServer, Pushing
<1>3. ReadIsFile(c)'
  BY <1>1 DEF ReadIsFile, Pushing
<1>4. PushesData(c)'
  BY <1>1 DEF MachineInv, PushesData
<1>5. KnowsNewest(c)'
  <2>1. faults' = 0 => faults = 0
    BY FieldTypes DEF Counted
  <2>2. Alone(c)' => Alone(c)
    BY <1>1, <2>1, SameServer DEF Alone
  <2>3. QED
    BY <1>1, <2>2, SameServer DEF MachineInv, KnowsNewest, Pushing
<1>6. QED
  BY <1>2, <1>3, <1>4, <1>5 DEF MachineInv

LEMMA PushKeeps ==
  ASSUME TypeOK, NEW c \in Clients, MachineInv(c),
         PushPrepare(c) \/ PushResume(c) \/ PushResumeFails(c) \/ PushNegotiate(c)
  PROVE  MachineInv(c)'
<1>1. CASE PushPrepare(c)
  <2>1. /\ UNCHANGED server /\ Counted /\ proc[c].at = "prepare"
        /\ cache'[c] = cache[c] /\ session'[c] = session[c] /\ local'[c] = local[c]
    BY <1>1, PushPrepareDoes DEF Kept, Put
  <2>2. CASE Returned(c)
    BY <2>1, <2>2, ReturnKeeps, SameServer DEF Grows, Counted, server, MachineInv, FromServer
  <2>3. CASE session[c].hash = proc[c].data /\ Stays(c, "resume")
    BY <2>1, <2>3, PushGoesOn DEF Pushing
  <2>4. CASE Stays(c, "negotiate")
    BY <2>1, <2>4, PushGoesOn DEF Pushing
  <2>5. QED
    BY <1>1, <2>2, <2>3, <2>4, PushPrepareDoes
<1>2. CASE PushResume(c) \/ PushResumeFails(c)
  <2>1. /\ UNCHANGED server /\ Counted /\ proc[c].at = "resume"
        /\ session[c].hash = proc[c].data
    BY <1>2, PushResumeDoes DEF MachineInv, PushesData
  <2>2. CASE Kept(c) /\ Stays(c, "commit")
    BY <2>1, <2>2, PushGoesOn DEF Pushing, Kept, Put
  <2>3. CASE SessionPut(c, NoSession) /\ Stays(c, "negotiate")
    BY <2>1, <2>3, PushGoesOn DEF Pushing, SessionPut, Put
  <2>4. QED
    BY <1>2, <2>2, <2>3, PushResumeDoes
<1>3. CASE PushNegotiate(c)
  <2>1. /\ UNCHANGED server /\ Counted /\ proc[c].at = "negotiate" /\ Stays(c, "commit")
        /\ cache'[c] = cache[c] /\ local'[c] = local[c] /\ session'[c].hash = proc[c].data
    BY <1>3, PushNegotiateDoes DEF SessionPut, Put
  <2>2. QED
    BY <2>1, PushGoesOn DEF Pushing
<1>4. QED
  BY <1>1, <1>2, <1>3

(* Without --force-push, what is pushed was changed here and not there.    *)
LEMMA PushReadKeeps ==
  ASSUME TypeOK, NEW c \in Clients, NoEmptyVersion, MachineInv(c), PushRead(c)
  PROVE  MachineInv(c)'
<1>1. /\ UNCHANGED server /\ UNCHANGED bounds /\ Counted /\ proc[c].at = "decide" /\ ToPush(c)
      /\ cache'[c] = cache[c] /\ session'[c] = session[c] /\ local'[c] = local[c]
  BY PushReadDoes DEF Kept, Put
<1>2. CASE Returned(c)
  BY <1>1, <1>2, ReturnKeeps, SameServer DEF Grows, Counted, server, MachineInv, FromServer
<1>3. CASE local[c] # None /\ Holds(c, "prepare", Nothing, local[c])
  <2>1. /\ proc'[c].at = "prepare" /\ proc'[c].force = proc[c].force
        /\ proc'[c].ancestor = proc[c].ancestor /\ proc'[c].data = local[c]
        /\ proc'[c].seen = proc[c].seen
    BY <1>3 DEF Holds, Moved
  <2>2. FromServer(c)' /\ ReadIsFile(c)' /\ PushesData(c)'
    BY <1>1, <1>3, <2>1, SameServer DEF MachineInv, FromServer, ReadIsFile, PushesData, Pushing
  <2>3. Alone(c)' => Alone(c)
    BY <1>1, <2>1, SameServer DEF Alone, bounds
  <2>4. proc[c].force \in {"no", "pull"} /\ Alone(c) => Last(versions) = proc[c].ancestor.hash
    <3>1. proc[c].force \in {"no", "pull"} => ~ServerChanged(c)
      BY <1>1 DEF ToPush, Forced
    <3>2. Alone(c) => proc[c].info.hash = Last(versions) /\ Last(versions) # None
      <4>1. Newest > 0 => Newest \in 1 .. Newest
        BY FieldTypes
      <4>2. Newest > 0 => Last(versions) # None
        BY <4>1, InfoInRow DEF NoEmptyVersion
      <4>3. QED
        BY <1>1, <4>2 DEF MachineInv, KnowsNewest, Alone
    <3>3. QED
      BY <3>1, <3>2 DEF ServerChanged
  <2>5. KnowsNewest(c)'
    BY <1>1, <2>1, <2>3, <2>4, SameServer DEF MachineInv, KnowsNewest
  <2>6. QED
    BY <2>2, <2>5 DEF MachineInv
<1>4. QED
  BY <1>2, <1>3, PushReadDoes

LEMMA CommitGrows ==
  ASSUME TypeOK, NEW c \in Clients, MachineInv(c), PushCommit(c)
  PROVE  /\ Grows /\ session[c].hash \in Data \ {None} /\ session[c].hash \in ToSet(versions)'
         /\ session[c].hash = proc[c].data /\ Newest' = Newest + 1
<1>1. /\ versions' = Append(versions, session[c].hash) /\ Counted /\ proc[c].at = "commit"
  BY PushCommitDoes
<1>2. session[c].hash = proc[c].data /\ proc[c].data # None
  BY <1>1 DEF MachineInv, PushesData, Pushing
<1>3. session[c].hash \in Data \ {None}
  BY <1>2, FieldTypes
<1>4. versions \in Seq(Data) /\ Newest = Len(versions) /\ Newest' = Len(versions')
  BY DEF TypeOK, Newest
<1>5. Newest' = Newest + 1 /\ versions'[Newest + 1] = session[c].hash /\ Newest + 1 \in 1 .. Len(versions')
  BY <1>1, <1>3, <1>4
<1>6. ToSet(versions)' = {versions'[i] : i \in 1 .. Len(versions')}
  BY DEF ToSet
<1>7. QED
  BY <1>1, <1>2, <1>3, <1>5, <1>6 DEF Grows, Counted

LEMMA PushCommitKeeps ==
  ASSUME TypeOK, NEW c \in Clients, MachineInv(c), PushCommit(c)
  PROVE  MachineInv(c)'
<1>1. /\ proc'[c].at = "committed" /\ proc'[c].data = proc[c].data /\ proc'[c].seen = 0
      /\ cache'[c] = cache[c]
  BY PushCommitDoes DEF Moved, SessionPut, Put
<1>2. proc[c].data \in Served' /\ proc[c].data # None
  BY CommitGrows DEF Served
<1>3. FromServer(c)'
  BY <1>1, <1>2, CommitGrows, ServedGrows DEF MachineInv, FromServer
<1>4. ReadIsFile(c)' /\ PushesData(c)'
  BY <1>1, <1>2 DEF ReadIsFile, PushesData
<1>5. KnowsNewest(c)'
  <2>1. 0 <= Newest'
    BY CommitGrows, FieldTypes
  <2>2. QED
    BY <1>1, <2>1 DEF KnowsNewest, Pushing
<1>6. QED
  BY <1>3, <1>4, <1>5 DEF MachineInv

LEMMA EndKeeps ==
  ASSUME TypeOK, NEW c \in Clients, MachineInv(c),
         Ends(c) \/ Converge(c) \/ PushDone(c) \/ PullCache(c)
  PROVE  MachineInv(c)'
<1>1. Returned(c) /\ UNCHANGED server /\ Counted
  BY EndsDoes, ConvergeDoes, PushDoneDoes, PullCacheDoes
<1>2. cache'[c].hash \in Served0
  <2>1. CASE Ends(c)
    BY <2>1, EndsDoes DEF Kept, Put, MachineInv, FromServer
  <2>2. CASE Converge(c)
    <3>1. proc[c].at = "decide"
      BY <2>2 DEF Converge
    <3>2. proc[c].info.hash \in Served0
      BY <3>1 DEF MachineInv, FromServer, Served0, Served
    <3>3. QED
      BY <2>2, <3>2, ConvergeDoes DEF Kept, RowPut, Put, MachineInv, FromServer
  <2>3. CASE PushDone(c)
    BY <2>3, PushDoneDoes DEF Put, MachineInv, FromServer, Served0
  <2>4. CASE PullCache(c)
    BY <2>4, PullCacheDoes DEF RowPut, Put, MachineInv, FromServer, Served0
  <2>5. QED
    BY <2>1, <2>2, <2>3, <2>4
<1>3. QED
  BY <1>1, <1>2, ReturnKeeps, SameServer DEF Grows, Counted, server

(* Without --force-pull, what is pulled over was not changed here.         *)
LEMMA PullKeeps ==
  ASSUME TypeOK, NEW c \in Clients, MachineInv(c), Pull(c)
  PROVE  MachineInv(c)'
<1>1. /\ UNCHANGED server /\ proc[c].at = "decide" /\ ToPull(c)
      /\ proc'[c].at = "download" /\ proc'[c].force = proc[c].force /\ proc'[c].seen = 0
      /\ proc'[c].edited = proc[c].edited
      /\ cache'[c] = cache[c] /\ local'[c] = local[c]
  BY PullDoes DEF Moved, Kept, Put
<1>2. Newest > 0
  <2>1. proc[c].info.hash # None
    BY <1>1 DEF ToPull, ServerChanged
  <2>2. ToSet(versions) # {}
    BY <1>1, <2>1 DEF MachineInv, FromServer
  <2>3. QED
    BY <2>2, InfoInRow, FieldTypes
<1>3. FromServer(c)'
  BY <1>1, <1>2, SameServer DEF MachineInv, FromServer
<1>4. ~proc[c].edited /\ proc[c].force \in {"no", "push"} => local[c] \in Served0
  <2>1. proc[c].force \in {"no", "push"} => ~LocalChanged(c)
    BY <1>1 DEF ToPull, Forced
  <2>2. ~proc[c].edited => proc[c].data = local[c]
    BY <1>1 DEF MachineInv, ReadIsFile
  <2>3. proc[c].ancestor.hash \in Served0
    BY <1>1 DEF MachineInv, FromServer
  <2>4. QED
    BY <2>1, <2>2, <2>3 DEF LocalChanged, Served0
<1>5. ReadIsFile(c)'
  BY <1>1, <1>4, SameServer DEF ReadIsFile
<1>6. PushesData(c)' /\ KnowsNewest(c)'
  BY <1>1, SameServer, FieldTypes DEF PushesData, KnowsNewest, Pushing
<1>7. QED
  BY <1>3, <1>5, <1>6 DEF MachineInv

LEMMA PullFetchKeeps ==
  ASSUME TypeOK, NEW c \in Clients, MachineInv(c), PullFetch(c) \/ PullVersion(c)
  PROVE  MachineInv(c)'
<1>1. Newest > 0
  BY DEF PullFetch, PullVersion, MachineInv, FromServer
<1>2. /\ UNCHANGED server /\ Counted /\ proc[c].at = "download"
      /\ cache'[c] = cache[c] /\ local'[c] = local[c]
  BY <1>1, PullFetchDoes DEF Kept, Put
<1>3. CASE Returned(c)
  BY <1>2, <1>3, ReturnKeeps, SameServer DEF Grows, Counted, server, MachineInv, FromServer
<1>4. ASSUME NEW data \in Served, Holds(c, "write", proc[c].info, data)
      PROVE  MachineInv(c)'
  <2>1. /\ proc'[c].at = "write" /\ proc'[c].force = proc[c].force
        /\ proc'[c].data = data /\ proc'[c].edited = proc[c].edited
        /\ proc'[c].seen = proc[c].seen
    BY <1>4 DEF Holds, Moved
  <2>2. FromServer(c)' /\ ReadIsFile(c)'
    BY <1>2, <2>1, SameServer DEF MachineInv, FromServer, ReadIsFile
  <2>3. PushesData(c)' /\ KnowsNewest(c)'
    BY <1>2, <2>1, SameServer DEF MachineInv, PushesData, KnowsNewest, Pushing
  <2>4. QED
    BY <2>2, <2>3 DEF MachineInv
<1>5. QED
  BY <1>1, <1>3, <1>4, PullFetchDoes

LEMMA PullWriteKeeps ==
  ASSUME TypeOK, NEW c \in Clients, MachineInv(c), PullWrite(c)
  PROVE  MachineInv(c)'
<1>1. /\ UNCHANGED server /\ proc[c].at = "write" /\ proc'[c].at = "cache"
      /\ proc'[c].data = proc[c].data /\ proc'[c].seen = proc[c].seen
      /\ cache'[c] = cache[c]
  BY PullWriteDoes DEF Stays, Moved, Put
<1>2. FromServer(c)' /\ ReadIsFile(c)' /\ PushesData(c)' /\ KnowsNewest(c)'
  BY <1>1, SameServer DEF MachineInv, FromServer, ReadIsFile, PushesData, KnowsNewest, Pushing
<1>3. QED
  BY <1>2 DEF MachineInv

LEMMA CommandKeeps ==
  ASSUME TypeOK, NEW c \in Clients, MachineInv(c),
         PushCommand(c) \/ \E no \in 0 .. Newest : PullCommand(c, no)
  PROVE  MachineInv(c)'
<1>1. /\ UNCHANGED server /\ cache'[c] = cache[c] /\ local'[c] = local[c]
      /\ \/ proc'[c].at = "prepare" /\ proc'[c].data # None
         \/ proc'[c].at = "download" /\ Newest > 0
      /\ proc'[c].force = "command" /\ proc'[c].seen = 0
  BY CommandDoes DEF Kept, Put, Moved
<1>2. FromServer(c)' /\ ReadIsFile(c)' /\ PushesData(c)'
  BY <1>1, SameServer DEF MachineInv, FromServer, ReadIsFile, PushesData, Pushing
<1>3. KnowsNewest(c)'
  BY <1>1, SameServer, FieldTypes DEF KnowsNewest
<1>4. QED
  BY <1>2, <1>3 DEF MachineInv

-----------------------------------------------------------------------------
(* The steps of one machine, and of the server                             *)
Acts(c) ==
  \/ \E d \in Contents \cup {None} : Edit(c, d)
  \/ GcCommand(c) \/ Expire(c)
  \/ \E force \in {"no", "push", "pull"} : Start(c, force)
  \/ PushCommand(c) \/ \E no \in 0 .. Newest : PullCommand(c, no)
  \/ Sync(c) \/ GetInfoFails(c) \/ PushResumeFails(c) \/ RequestFails(c) \/ Crash(c)

LEMMA NextActs == Next => (\E c \in Clients : Acts(c)) \/ Verify \/ Corrupt
BY DEF Next, Acts

(* The actions, by what they do to their machine.                          *)
LEMMA ActsAre ==
  ASSUME NEW c, Acts(c)
  PROVE  \/ \E d \in Contents \cup {None} : Edit(c, d)
         \/ GcCommand(c) \/ Expire(c)
         \/ \E force \in {"no", "push", "pull"} : Start(c, force)
         \/ (PushCommand(c) \/ \E no \in 0 .. Newest : PullCommand(c, no))
         \/ (GetInfo(c) \/ GetInfoFails(c))
         \/ Ends(c) \/ Converge(c) \/ PushRead(c) \/ PushPrepare(c)
         \/ (PushResume(c) \/ PushResumeFails(c)) \/ PushNegotiate(c)
         \/ PushCommit(c) \/ PushDone(c)
         \/ Pull(c) \/ (PullFetch(c) \/ PullVersion(c)) \/ PullWrite(c) \/ PullCache(c)
<1>1. Sync(c) => \/ GetInfo(c) \/ Ends(c) \/ Converge(c) \/ PushRead(c) \/ PushPrepare(c)
                 \/ PushResume(c) \/ PushNegotiate(c) \/ PushCommit(c) \/ PushDone(c)
                 \/ Pull(c) \/ PullFetch(c) \/ PullVersion(c) \/ PullWrite(c) \/ PullCache(c)
  BY DEF Sync, Ends
<1>2. RequestFails(c) \/ Crash(c) => Ends(c)
  BY DEF Ends
<1>3. QED
  BY <1>1, <1>2, Zenon DEF Acts

(* Every action of a machine moves its command and puts its rows.          *)
Touched(c) ==
  /\ proc' \in [Clients -> ProcRecords] /\ local' \in [Clients -> Data \cup {None}]
  /\ cache' \in [Clients -> Row] /\ session' \in [Clients -> Sessions]
  /\ \A d \in Clients : d # c => /\ proc'[d] = proc[d] /\ local'[d] = local[d]
                                 /\ cache'[d] = cache[d] /\ session'[d] = session[d]
LEMMA MovedAndPut ==
  ASSUME NEW c \in Clients, NEW at, NEW force, NEW ancestor, NEW existed, NEW info, NEW data,
         NEW seen, NEW edited, NEW file, NEW row, NEW sess,
         Moved(c, at, force, ancestor, existed, info, data, seen, edited), Put(c, file, row, sess)
  PROVE  Touched(c)
BY DEF Moved, Put, Touched

Did(c) == Touched(c) /\ Counted /\ (UNCHANGED server \/ PushCommit(c))
LEMMA ActsTouch ==
  ASSUME TypeOK, NEW c \in Clients, MachineInv(c), Acts(c)
  PROVE  Did(c)
<1>1. ASSUME NEW d \in Contents \cup {None}, Edit(c, d) PROVE Did(c)
  BY <1>1, EditDoes, MovedAndPut DEF Did
<1>2. CASE GcCommand(c)
  BY <1>2, GcDoes, MovedAndPut DEF Stays, RowPut, Did
<1>3. CASE Expire(c)
  BY <1>3, ExpireDoes, MovedAndPut DEF Stays, SessionPut, Did
<1>4. ASSUME NEW force \in {"no", "push", "pull"}, Start(c, force) PROVE Did(c)
  BY <1>4, StartDoes, MovedAndPut DEF Kept, Did
<1>5. CASE PushCommand(c) \/ \E no \in 0 .. Newest : PullCommand(c, no)
  BY <1>5, CommandDoes, MovedAndPut DEF Kept, Did
<1>6. CASE GetInfo(c) \/ GetInfoFails(c)
  BY <1>6, InfoDoes, MovedAndPut DEF Kept, Returned, Did
<1>7. CASE Ends(c)
  BY <1>7, EndsDoes, MovedAndPut DEF Kept, Returned, Did
<1>8. CASE Converge(c)
  BY <1>8, ConvergeDoes, MovedAndPut DEF Kept, Returned, RowPut, Did
<1>9. CASE PushRead(c)
  BY <1>9, PushReadDoes, MovedAndPut DEF Kept, Returned, Holds, Did
<1>10. CASE PushPrepare(c)
  BY <1>10, PushPrepareDoes, MovedAndPut DEF Kept, Returned, Stays, Did
<1>11. CASE PushResume(c) \/ PushResumeFails(c)
  BY <1>11, PushResumeDoes, MovedAndPut DEF Kept, SessionPut, Stays, Did
<1>12. CASE PushNegotiate(c)
  BY <1>12, PushNegotiateDoes, MovedAndPut DEF SessionPut, Stays, Did
<1>13. CASE PushCommit(c)
  BY <1>13, PushCommitDoes, MovedAndPut DEF SessionPut, Did
<1>14. CASE PushDone(c)
  BY <1>14, PushDoneDoes, MovedAndPut DEF Returned, Did
<1>15. CASE Pull(c)
  BY <1>15, PullDoes, MovedAndPut DEF Kept, Did
<1>16. CASE PullFetch(c) \/ PullVersion(c)
  <2>1. Newest > 0
    BY <1>16 DEF PullFetch, PullVersion, MachineInv, FromServer
  <2>2. QED
    BY <1>16, <2>1, PullFetchDoes, MovedAndPut DEF Kept, Returned, Holds, Did
<1>17. CASE PullWrite(c)
  BY <1>17, PullWriteDoes, MovedAndPut DEF Stays, Did
<1>18. CASE PullCache(c)
  BY <1>18, PullCacheDoes, MovedAndPut DEF Returned, RowPut, Did
<1>19. QED
  BY <1>1, <1>2, <1>3, <1>4, <1>5, <1>6, <1>7, <1>8, <1>9, <1>10, <1>11, <1>12, <1>13, <1>14,
     <1>15, <1>16, <1>17, <1>18, ActsAre, Zenon

LEMMA ActsKeep ==
  ASSUME TypeOK, NoEmptyVersion, NEW c \in Clients, MachineInv(c), Acts(c)
  PROVE  MachineInv(c)'
<1>1. CASE GcCommand(c)
  BY <1>1, GcDoes, StayKeeps DEF GcCommand, RowPut, Put
<1>2. CASE Expire(c)
  BY <1>2, ExpireDoes, StayKeeps DEF SessionPut, Put
<1>3. QED
  BY <1>1, <1>2, EditKeeps, StartKeeps, InfoKeeps, EndKeeps, PushReadKeeps, PushKeeps,
     PushCommitKeeps, PullKeeps, PullFetchKeeps, PullWriteKeeps, CommandKeeps
  DEF Acts, Sync, Ends

LEMMA ConflictTyped ==
  ASSUME conflict \in [Clients -> BOOLEAN], [Next]_vars
  PROVE  conflict' \in [Clients -> BOOLEAN]
<1>1. ASSUME NEW c \in Clients, NEW b \in BOOLEAN, conflict' = [conflict EXCEPT ![c] = b]
      PROVE  conflict' \in [Clients -> BOOLEAN]
  BY <1>1, Zenon
<1>2. ASSUME NEW c \in Clients, NEW result, Return(c, result)
      PROVE  conflict' \in [Clients -> BOOLEAN]
  <2> DEFINE b == result = "conflicts"
  <2>1. b \in BOOLEAN /\ conflict' = [conflict EXCEPT ![c] = b]
    BY <1>2 DEF Return
  <2> HIDE DEF b
  <2>2. QED
    BY <1>1, <2>1
<1>3. ASSUME NEW c \in Clients, Acts(c) PROVE conflict' \in [Clients -> BOOLEAN]
  BY <1>2, <1>3
  DEF Acts, Sync, Edit, GcCommand, Expire, Start, PushCommand, PullCommand, Command, GetInfo,
      GetInfoFails, Skip, Converge, Conflict, PushRead, PushPrepare, PushResume, PushResumeFails,
      PushNegotiate, PushCommit, PushRefused, PushDone, Pull, PullFetch, PullVersion, PullWrite,
      PullCache, RequestFails, Crash
<1>4. QED
  BY <1>3, NextActs DEF Verify, Corrupt, vars

(* The part of the invariant that is about the machines one by one.        *)
MachinesInv == TypeOK /\ NoEmptyVersion /\ \A c \in Clients : MachineInv(c)

LEMMA MachinesStep ==
  ASSUME MachinesInv, [Next]_vars
  PROVE  MachinesInv' /\ Grows
<1> USE DEF MachinesInv
<1>0. conflict' \in [Clients -> BOOLEAN]
  BY ConflictTyped DEF TypeOK
<1>1. ASSUME NEW c \in Clients, Acts(c) PROVE MachinesInv' /\ Grows
  <2>1. Touched(c) /\ Counted /\ (UNCHANGED server \/ PushCommit(c)) /\ MachineInv(c)'
    BY <1>1, ActsTouch, ActsKeep DEF Did
  <2>2. CASE UNCHANGED server
    <3>1. Grows /\ TypeOK'
      BY <1>0, <2>1, <2>2 DEF Grows, Touched, Counted, server, TypeOK
    <3>2. NoEmptyVersion'
      BY <2>2, SameServer DEF NoEmptyVersion
    <3>3. \A d \in Clients : d # c => MachineInv(d)'
      BY <2>1, <3>1, OthersKeep DEF Touched
    <3>4. QED
      BY <2>1, <3>1, <3>2, <3>3
  <2>3. CASE PushCommit(c)
    <3>1. /\ versions' = Append(versions, session[c].hash) /\ status' = "pending"
          /\ session[c].hash \in Data \ {None} /\ Newest' = Newest + 1 /\ Grows
      BY <2>3, PushCommitDoes, CommitGrows
    <3>2. TypeOK'
      BY <1>0, <2>1, <3>1 DEF Touched, Counted, TypeOK
    <3>3. NoEmptyVersion'
      <4>1. versions \in Seq(Data) /\ Newest = Len(versions)
        BY DEF TypeOK, Newest
      <4>2. \A i \in 1 .. Newest' : i \in 1 .. Newest \/ i = Newest + 1
        BY <3>1, <4>1
      <4>3. versions'[Newest + 1] # None /\ \A i \in 1 .. Newest : versions'[i] = versions[i]
        BY <3>1, <4>1
      <4>4. QED
        BY <4>2, <4>3 DEF NoEmptyVersion
    <3>4. \A d \in Clients : d # c => MachineInv(d)'
      BY <2>1, <3>1, OthersKeep DEF Touched
    <3>5. QED
      BY <2>1, <3>1, <3>2, <3>3, <3>4
  <2>4. QED
    BY <2>1, <2>2, <2>3
<1>2. CASE Verify \/ Corrupt \/ UNCHANGED vars
  <2>1. /\ UNCHANGED <<versions, local, cache, session, proc, edits, forces>>
        /\ faults' = faults \/ faults' = faults + 1
        /\ status' \in {"verified", "pending", "corrupted"}
    BY <1>2 DEF Verify, Corrupt, Fault, bounds, vars, TypeOK
  <2>2. Grows /\ TypeOK'
    BY <1>0, <2>1 DEF Grows, TypeOK
  <2>3. NoEmptyVersion'
    BY <2>1 DEF NoEmptyVersion, Newest
  <2>4. \A d \in Clients : MachineInv(d)'
    BY <2>1, <2>2, OthersKeep
  <2>5. QED
    BY <2>2, <2>3, <2>4
<1>3. QED
  BY <1>1, <1>2, NextActs

LEMMA MachinesStart == Init => MachinesInv
<1> SUFFICES ASSUME Init PROVE MachinesInv
  OBVIOUS
<1>1. versions = <<>> /\ Newest = 0
  BY DEF Init, Newest
<1>2. Nothing \in Row /\ NoSession \in Sessions /\ Idle \in ProcRecords
  BY DEF Nothing, Row, NoSession, Sessions, Idle, ProcRecords, Phases, Forces
<1>3. TypeOK
  BY <1>2 DEF Init, TypeOK
<1>4. NoEmptyVersion
  BY <1>1 DEF NoEmptyVersion
<1>5. ASSUME NEW c \in Clients PROVE MachineInv(c)
  <2>1. proc[c] = Idle /\ cache[c] = Nothing
    BY DEF Init
  <2>2. proc[c].at = "idle" /\ proc[c].seen = 0 /\ cache[c].hash = None
    BY <2>1 DEF Idle, Nothing
  <2>3. FromServer(c) /\ ReadIsFile(c) /\ PushesData(c)
    BY <2>2 DEF FromServer, ReadIsFile, PushesData, Pushing, Served0
  <2>4. KnowsNewest(c)
    BY <1>1, <2>2 DEF KnowsNewest, Pushing
  <2>5. QED
    BY <2>3, <2>4 DEF MachineInv
<1>6. QED
  BY <1>3, <1>4, <1>5 DEF MachinesInv

LEMMA MachinesAlways == Spec => []MachinesInv
<1>1. MachinesInv /\ [Next]_vars => MachinesInv'
  BY MachinesStep
<1>2. QED
  BY <1>1, MachinesStart, PTL DEF Spec

(* No row, version, file or command of any machine ever leaves its type.   *)
THEOREM TypeCorrect == Spec => []TypeOK
<1>1. MachinesInv => TypeOK
  BY DEF MachinesInv
<1>2. QED
  BY <1>1, MachinesAlways, PTL

(* What a sync without --force-pull writes over had been served before, or *)
(* was edited while the sync was running.                                  *)
THEOREM EditsSurvive == Spec => EditsSurvivePull
<1> DEFINE Keeps == \A c \in Clients :
                      Overwrites(c) => local[c] \in Served \cup {None} \/ proc[c].edited
<1>1. MachinesInv => [Keeps]_vars
  <2> SUFFICES ASSUME MachinesInv, NEW c \in Clients, Overwrites(c), ~proc[c].edited
               PROVE  local[c] \in Served \cup {None}
    OBVIOUS
  <2>1. TypeOK /\ ReadIsFile(c)
    BY DEF MachinesInv, MachineInv
  <2>2. proc[c].at = "write" /\ proc[c].force \notin {"pull", "command"}
    BY DEF Overwrites
  <2>3. proc[c].force \in {"no", "push"}
    BY <2>1, <2>2, FieldTypes DEF Forces
  <2>4. QED
    BY <2>1, <2>2, <2>3 DEF ReadIsFile, Served0
<1>2. QED
  BY <1>1, MachinesAlways, PTL DEF EditsSurvivePull

(* Without faults and --force-push, only a race publishes over a version   *)
(* that the sync did not start from.                                       *)
THEOREM OnlyRaces == Spec => OnlyRacesOverwrite
<1> DEFINE Known == \A c \in Clients :
                      Publishes(c) /\ faults = 0 /\ Newest = proc[c].seen /\ Newest > 0
                        => Last(versions) = proc[c].ancestor.hash
<1>1. MachinesInv => [Known]_vars
  <2> SUFFICES ASSUME MachinesInv, NEW c \in Clients, Publishes(c), Alone(c)
               PROVE  Last(versions) = proc[c].ancestor.hash
    BY DEF Alone
  <2>1. TypeOK /\ KnowsNewest(c)
    BY DEF MachinesInv, MachineInv
  <2>2. proc[c].at \in Pushing /\ proc[c].force \notin {"push", "command"}
    BY DEF Publishes, Pushing
  <2>3. proc[c].force \in {"no", "pull"}
    BY <2>1, <2>2, FieldTypes DEF Forces
  <2>4. QED
    BY <2>1, <2>2, <2>3 DEF KnowsNewest
<1>2. QED
  BY <1>1, MachinesAlways, PTL DEF OnlyRacesOverwrite

-----------------------------------------------------------------------------
(* Pushes are paid for                                                     *)
Budget == edits + forces + faults
Bit(b) == IF b THEN 1 ELSE 0
(* What one step of machine c publishes, starts and leaves to be pushed is *)
(* covered by what it lands, pushes and pays.                              *)
Pays(c) == Newest' + Bit(Flying(c)') + Bit(Dirty(c)') + Budget
             <= Newest + Bit(Flying(c)) + Bit(Dirty(c)) + Budget'

LEMMA Counters ==
  ASSUME TypeOK
  PROVE  /\ edits \in Nat /\ forces \in Nat /\ faults \in Nat /\ Newest \in Nat /\ Budget \in Nat
         /\ Counted => Budget' \in Nat /\ Budget' >= Budget
BY DEF TypeOK, Newest, Budget, Counted

(* Where a command stands decides what it can still push.                  *)
Unpushed(c) == local[c] # None /\ Unsynced(c)
Differs(c) == local[c] # None /\ local[c] # proc[c].data
Table(c) ==
  /\ proc[c].at = "idle" => ~Flying(c) /\ (Dirty(c) <=> Unpushed(c))
  /\ proc[c].at = "info" => /\ Flying(c) <=> proc[c].force = "push"
                            /\ Dirty(c) <=> Unpushed(c)
  /\ proc[c].at = "download" => ~Flying(c) /\ (Dirty(c) <=> Unpushed(c))
  /\ proc[c].at \in Pushing => Flying(c) /\ (Dirty(c) <=> Differs(c))
  /\ proc[c].at \in {"committed", "cache"} => ~Flying(c) /\ (Dirty(c) <=> Differs(c))
  /\ proc[c].at = "write" => ~Flying(c) /\ ~Dirty(c)
  /\ proc[c].at = "decide" =>
       /\ Flying(c) <=> proc[c].force = "push" \/ ToPush(c)
       /\ Dirty(c) <=> \/ ~ToPush(c) /\ Unpushed(c)
                       \/ ~ToPush(c) /\ Convergent(c) /\ Differs(c)
                       \/ ToPush(c) /\ Differs(c)

LEMMA Tables == ASSUME NEW c PROVE Table(c) /\ Table(c)'
<1>1. Table(c)
  BY DEF Table, Flying, Dirty, Unpushed, Differs, Pushing
<1>2. Table(c)'
  BY DEF Table, Flying, Dirty, Unpushed, Differs, Pushing
<1>3. QED
  BY <1>1, <1>2

(* How a step that publishes nothing can be covered: by itself, by a push  *)
(* that lands, by a change that is now under way, by an edit or a fault.   *)
LEMMA Covered ==
  ASSUME TypeOK, NEW c \in Clients, UNCHANGED server, Counted,
         \/ (Flying(c)' => Flying(c)) /\ (Dirty(c)' => Dirty(c))
         \/ Flying(c) /\ ~Flying(c)'
         \/ Dirty(c) /\ ~Dirty(c)'
         \/ Budget' = Budget + 1 /\ ((Flying(c)' => Flying(c)) \/ (Dirty(c)' => Dirty(c)))
  PROVE  Pays(c)
<1> DEFINE f == Flying(c)  f1 == Flying(c)'  d == Dirty(c)  d1 == Dirty(c)'
<1>1. /\ Bit(f) \in 0 .. 1 /\ Bit(f1) \in 0 .. 1 /\ Bit(d) \in 0 .. 1 /\ Bit(d1) \in 0 .. 1
      /\ (f1 => f) => Bit(f1) <= Bit(f)
      /\ (d1 => d) => Bit(d1) <= Bit(d)
      /\ f /\ ~f1 => Bit(f) = 1 /\ Bit(f1) = 0
      /\ d /\ ~d1 => Bit(d) = 1 /\ Bit(d1) = 0
  BY DEF Bit
<1>2. Newest' = Newest /\ Newest \in Nat /\ Budget \in Nat /\ Budget' \in Nat /\ Budget' >= Budget
  BY SameServer, FieldTypes DEF Counted, Budget
<1>3. \/ (f1 => f) /\ (d1 => d)
      \/ f /\ ~f1
      \/ d /\ ~d1
      \/ Budget' = Budget + 1 /\ ((f1 => f) \/ (d1 => d))
  OBVIOUS
<1> HIDE DEF f, f1, d, d1
<1>4. Newest' + Bit(f1) + Bit(d1) + Budget <= Newest + Bit(f) + Bit(d) + Budget'
  BY <1>1, <1>2, <1>3
<1>5. QED
  BY <1>4 DEF Pays, f, f1, d, d1

(* Unsynced depends on the file, the row and whether anything is published.*)
LEMMA UnpushedStays ==
  ASSUME UNCHANGED server, NEW c \in Clients, local'[c] = local[c], cache'[c].hash = cache[c].hash
  PROVE  (Unpushed(c)' <=> Unpushed(c))
BY SameServer DEF Unpushed, Unsynced

LEMMA EditPays ==
  ASSUME TypeOK, NEW c \in Clients, NEW d \in Contents \cup {None}, Edit(c, d)
  PROVE  Pays(c)
<1>1. /\ UNCHANGED server /\ Counted
      /\ proc'[c].at = proc[c].at /\ proc'[c].force = proc[c].force
      /\ proc'[c].ancestor = proc[c].ancestor /\ proc'[c].info = proc[c].info
      /\ proc'[c].data = proc[c].data
  BY EditDoes DEF Moved
<1>2. ToPush(c)' <=> ToPush(c)
  BY <1>1 DEF ToPush, Convergent, LocalChanged, ServerChanged, Forced
<1>3. Flying(c)' => Flying(c)
  BY <1>1, <1>2 DEF Flying
<1>4. Budget' = Budget + 1
  BY FieldTypes DEF Edit, Budget
<1>5. QED
  BY <1>1, <1>3, <1>4, Covered

(* The row of a machine without versions to be in step with is empty.      *)
LEMMA GcPays ==
  ASSUME TypeOK, NEW c \in Clients, MachineInv(c), GcCommand(c)
  PROVE  Pays(c)
<1>1. /\ UNCHANGED server /\ Counted
      /\ proc'[c].at = proc[c].at /\ proc'[c].data = proc[c].data
      /\ local'[c] = local[c] /\ cache'[c] = Nothing
  BY GcDoes DEF Stays, Moved, RowPut, Put
<1>2. CASE proc[c].at = "idle"
  <2>1. Newest = 0 => cache[c].hash = None
    BY InfoInRow DEF MachineInv, FromServer, Served0
  <2>2. Unpushed(c)' => Unpushed(c)
    BY <1>1, <2>1, SameServer DEF Unpushed, Unsynced, Nothing
  <2>3. QED
    BY <1>1, <1>2, <2>2, Tables, Covered DEF Table
<1>3. CASE proc[c].at = "prepare"
  <2>1. Differs(c)' <=> Differs(c)
    BY <1>1 DEF Differs
  <2>2. QED
    BY <1>1, <1>3, <2>1, Tables, Covered DEF Table, Pushing
<1>4. QED
  BY <1>2, <1>3 DEF GcCommand

LEMMA ExpirePays ==
  ASSUME TypeOK, NEW c \in Clients, Expire(c)
  PROVE  Pays(c)
<1>1. /\ UNCHANGED server /\ Counted /\ local'[c] = local[c] /\ cache'[c] = cache[c]
      /\ proc' = proc
  BY ExpireDoes DEF SessionPut, Put, Expire
<1>2. Flying(c)' <=> Flying(c)
  BY <1>1 DEF Flying, ToPush, Convergent, LocalChanged, ServerChanged, Forced
<1>3. (ToPush(c)' <=> ToPush(c)) /\ (Convergent(c)' <=> Convergent(c))
  BY <1>1 DEF ToPush, Convergent, LocalChanged, ServerChanged, Forced
<1>4. Unsynced(c)' <=> Unsynced(c)
  BY <1>1, SameServer DEF Unsynced
<1>5. Dirty(c)' <=> Dirty(c)
  BY <1>1, <1>3, <1>4 DEF Dirty
<1>6. QED
  BY <1>1, <1>2, <1>5, Covered

LEMMA StartPays ==
  ASSUME TypeOK, NEW c \in Clients, NEW force \in {"no", "push", "pull"}, Start(c, force)
  PROVE  Pays(c)
<1>1. /\ UNCHANGED server /\ Counted /\ local'[c] = local[c] /\ cache'[c] = cache[c]
      /\ proc[c].at = "idle" /\ proc'[c].at = "info" /\ proc'[c].force = force
      /\ force = "push" => Budget' = Budget + 1
  BY StartDoes DEF Moved, Kept, Put, Start, Budget
<1>2. Dirty(c)' => Dirty(c)
  BY <1>1, UnpushedStays, Tables DEF Table
<1>3. force # "push" => ~Flying(c)'
  BY <1>1, Tables DEF Table
<1>4. QED
  BY <1>1, <1>2, <1>3, Covered

LEMMA CommandPays ==
  ASSUME TypeOK, NEW c \in Clients, PushCommand(c) \/ \E no \in 0 .. Newest : PullCommand(c, no)
  PROVE  Pays(c)
<1>1. /\ UNCHANGED server /\ Counted /\ local'[c] = local[c] /\ cache'[c] = cache[c]
      /\ proc[c].at = "idle" /\ Budget' = Budget + 1
      /\ \/ proc'[c].at = "prepare" /\ proc'[c].data = local[c]
         \/ proc'[c].at = "download"
  BY CommandDoes DEF Moved, Kept, Put, Budget
<1>2. CASE proc'[c].at = "prepare" /\ proc'[c].data = local[c]
  <2>1. ~Dirty(c)'
    BY <1>1, <1>2, Tables DEF Table, Differs, Pushing
  <2>2. QED
    BY <1>1, <2>1, Covered
<1>3. CASE proc'[c].at = "download"
  BY <1>1, <1>3, UnpushedStays, Tables, Covered DEF Table
<1>4. QED
  BY <1>1, <1>2, <1>3

(* What a sync finds to be pushed was a change of the file that nobody has *)
(* pushed, or its request was lost.                                        *)
LEMMA InfoPays ==
  ASSUME TypeOK, NoEmptyVersion, NEW c \in Clients, MachineInv(c), GetInfo(c) \/ GetInfoFails(c)
  PROVE  Pays(c)
<1>1. /\ Kept(c) /\ UNCHANGED server /\ Counted /\ proc[c].at = "info"
      /\ local'[c] = local[c] /\ cache'[c] = cache[c]
  BY InfoDoes DEF Kept, Put
<1>2. Unpushed(c)' <=> Unpushed(c)
  BY <1>1, UnpushedStays
<1>3. CASE Returned(c)
  BY <1>1, <1>2, <1>3, Tables, Covered DEF Table, Returned, Moved
<1>4. ASSUME NEW info \in {Info, Nothing},
             LET p == proc[c] IN
             /\ Moved(c, "decide", p.force, p.ancestor, FALSE, info,
                      IF p.existed THEN local[c] ELSE None, p.seen, p.edited)
             /\ p.existed => local[c] # None
             /\ info # Info => /\ faults' = faults + 1
                               /\ edits' + forces' + faults' = edits + forces + faults + 1
      PROVE  Pays(c)
  <2>1. /\ proc'[c].at = "decide" /\ proc'[c].force = proc[c].force
        /\ proc'[c].ancestor = cache[c] /\ proc'[c].info = info
        /\ proc'[c].data = (IF proc[c].existed THEN local[c] ELSE None)
        /\ proc[c].existed => local[c] # None
        /\ info # Info => Budget' = Budget + 1
    BY <1>1, <1>4 DEF Moved, Budget, MachineInv, FromServer
  <2>2. proc'[c].data # None => proc'[c].data = local'[c]
    BY <1>1, <2>1
  <2>3. ToPush(c)' \/ Convergent(c)' => ~Differs(c)'
    BY <2>2 DEF ToPush, Convergent, LocalChanged, Differs
  <2>4. Dirty(c)' => Dirty(c) /\ ~ToPush(c)'
    BY <1>1, <1>2, <2>1, <2>3, Tables DEF Table
  <2>5. CASE proc[c].force = "push"
    BY <1>1, <2>1, <2>4, <2>5, Tables, Covered DEF Table
  <2>6. CASE proc[c].force # "push" /\ ToPush(c)'
    <3>1. ~Dirty(c)'
      BY <2>4, <2>6
    <3>2. info = Info => Unpushed(c)
      <4>1. /\ proc'[c].data # None /\ proc'[c].data # cache[c].hash
            /\ info.hash = None \/ info.hash = cache[c].hash
        BY <2>1, <2>6 DEF ToPush, Forced, LocalChanged, ServerChanged
      <4>2. Newest > 0 => Info.hash # None
        <5>1. Newest > 0 => Newest \in 1 .. Newest
          BY FieldTypes
        <5>2. QED
          BY <5>1, InfoInRow DEF NoEmptyVersion
      <4>3. Newest = 0 \/ Newest > 0
        BY FieldTypes
      <4>4. QED
        BY <1>1, <2>2, <4>1, <4>2, <4>3 DEF Unpushed, Unsynced
    <3>3. info = Info => Dirty(c)
      BY <1>1, <3>2, Tables DEF Table
    <3>4. QED
      BY <1>1, <2>1, <3>1, <3>3, Covered
  <2>7. CASE proc[c].force # "push" /\ ~ToPush(c)'
    <3>1. ~Flying(c)'
      BY <2>1, <2>7, Tables DEF Table
    <3>2. QED
      BY <1>1, <2>4, <3>1, Covered
  <2>8. QED
    BY <2>5, <2>6, <2>7
<1>5. QED
  BY <1>3, <1>4, InfoDoes

LEMMA EndPays ==
  ASSUME TypeOK, NEW c \in Clients, Ends(c)
  PROVE  Pays(c)
<1>1. /\ UNCHANGED server /\ Counted /\ proc'[c].at = "idle"
      /\ local'[c] = local[c] /\ cache'[c] = cache[c]
  BY EndsDoes DEF Returned, Moved, Kept, Put
<1>2. ~Flying(c)' /\ (Dirty(c)' <=> Unpushed(c))
  BY <1>1, UnpushedStays, Tables DEF Table
<1>3. CASE Skip(c) \/ Conflict(c)
  <2>1. proc[c].at = "decide" /\ ~ToPush(c)
    BY <1>3 DEF Skip, Conflict, ToPush
  <2>2. QED
    BY <1>1, <1>2, <2>1, Tables, Covered DEF Table
<1>4. CASE PushRefused(c)
  <2>1. Flying(c)
    BY <1>4, Tables DEF PushRefused, Table, Pushing
  <2>2. QED
    BY <1>1, <1>2, <2>1, Covered
<1>5. CASE RequestFails(c) \/ Crash(c)
  <2>1. Budget' = Budget + 1
    BY <1>5, FieldTypes DEF RequestFails, Crash, Fault, Budget
  <2>2. QED
    BY <1>1, <1>2, <2>1, Covered
<1>6. QED
  BY <1>3, <1>4, <1>5 DEF Ends

(* A row that has just been written leaves only a later edit to push.      *)
LEMMA RowPays ==
  ASSUME TypeOK, NEW c \in Clients, MachineInv(c), Converge(c) \/ PushDone(c) \/ PullCache(c)
  PROVE  Pays(c)
<1>1. UNCHANGED server /\ Counted /\ proc'[c].at = "idle" /\ local'[c] = local[c]
  BY ConvergeDoes, PushDoneDoes, PullCacheDoes DEF Returned, Moved, Kept, RowPut, Put
<1>2. ~Flying(c)' /\ (Dirty(c)' <=> Unpushed(c)')
  BY <1>1, Tables DEF Table
<1>3. CASE Converge(c)
  <2>1. proc[c].at = "decide" /\ Convergent(c) /\ ~ToPush(c)
    BY <1>3 DEF Converge, ToPush
  <2>2. local[c] = None \/ cache'[c].hash = proc[c].data
    BY <1>3, <2>1, ConvergeDoes DEF RowPut, Put, Convergent
  <2>3. Unpushed(c)' => Differs(c)
    BY <1>1, <2>2 DEF Unpushed, Unsynced, Differs
  <2>4. QED
    BY <1>1, <1>2, <2>1, <2>3, Tables, Covered DEF Table
<1>4. CASE PushDone(c) \/ PullCache(c)
  <2>1. proc[c].at \in {"committed", "cache"} /\ cache'[c].hash = proc[c].data
    BY <1>4, PushDoneDoes, PullCacheDoes DEF RowPut, Put
  <2>2. Unpushed(c)' => Differs(c)
    BY <1>1, <2>1 DEF Unpushed, Unsynced, Differs
  <2>3. QED
    BY <1>1, <1>2, <2>1, <2>2, Tables, Covered DEF Table
<1>5. QED
  BY <1>3, <1>4

LEMMA PushReadPays ==
  ASSUME TypeOK, NEW c \in Clients, PushRead(c)
  PROVE  Pays(c)
<1>1. /\ UNCHANGED server /\ Counted /\ local'[c] = local[c]
      /\ proc[c].at = "decide" /\ ToPush(c)
  BY PushReadDoes DEF Kept, Put
<1>2. Flying(c)
  BY <1>1, Tables DEF Table
<1>3. CASE Returned(c)
  <2>1. ~Flying(c)'
    BY <1>3, Tables DEF Returned, Moved, Table
  <2>2. QED
    BY <1>1, <1>2, <2>1, Covered
<1>4. CASE local[c] # None /\ Holds(c, "prepare", Nothing, local[c])
  <2>1. proc'[c].at = "prepare" /\ proc'[c].data = local'[c]
    BY <1>1, <1>4 DEF Holds, Moved
  <2>2. ~Dirty(c)'
    BY <2>1, Tables DEF Table, Differs, Pushing
  <2>3. QED
    BY <1>1, <1>2, <2>2, Covered
<1>5. QED
  BY <1>3, <1>4, PushReadDoes

LEMMA PushPays ==
  ASSUME TypeOK, NEW c \in Clients,
         PushPrepare(c) \/ PushResume(c) \/ PushResumeFails(c) \/ PushNegotiate(c)
  PROVE  Pays(c)
<1>1. /\ UNCHANGED server /\ Counted /\ local'[c] = local[c] /\ proc[c].at \in Pushing
  BY PushPrepareDoes, PushResumeDoes, PushNegotiateDoes DEF Kept, SessionPut, Put, Pushing
<1>2. Flying(c) /\ (Dirty(c) <=> Differs(c))
  BY <1>1, Tables DEF Table
<1>3. CASE Returned(c)
  <2>1. ~Flying(c)'
    BY <1>3, Tables DEF Returned, Moved, Table
  <2>2. QED
    BY <1>1, <1>2, <2>1, Covered
<1>4. ASSUME NEW at \in Pushing, Stays(c, at) PROVE Pays(c)
  <2>1. proc'[c].at \in Pushing /\ proc'[c].data = proc[c].data
    BY <1>4 DEF Stays, Moved
  <2>2. Dirty(c)' <=> Differs(c)
    BY <1>1, <2>1, Tables DEF Table, Differs
  <2>3. QED
    BY <1>1, <1>2, <2>2, Covered
<1>5. "resume" \in Pushing /\ "negotiate" \in Pushing /\ "commit" \in Pushing
  BY DEF Pushing
<1>6. QED
  BY <1>3, <1>4, <1>5, PushPrepareDoes, PushResumeDoes, PushNegotiateDoes

(* A push that is published was under way.                                 *)
LEMMA PushCommitPays ==
  ASSUME TypeOK, NEW c \in Clients, MachineInv(c), PushCommit(c)
  PROVE  Pays(c)
<1>1. /\ proc[c].at = "commit" /\ proc'[c].at = "committed" /\ proc'[c].data = proc[c].data
      /\ local'[c] = local[c] /\ UNCHANGED bounds /\ Newest' = Newest + 1
  BY PushCommitDoes, CommitGrows DEF Moved, SessionPut, Put
<1>2. Flying(c) /\ ~Flying(c)'
  BY <1>1, Tables DEF Table, Pushing
<1>3. Dirty(c)' <=> Dirty(c)
  <2>1. Differs(c)' <=> Differs(c)
    BY <1>1 DEF Differs
  <2>2. QED
    BY <1>1, <2>1, Tables DEF Table, Pushing
<1> DEFINE d == Dirty(c)  d1 == Dirty(c)'
<1>4. /\ Bit(Flying(c)) = 1 /\ Bit(Flying(c)') = 0 /\ Bit(d1) = Bit(d) /\ Bit(d) \in 0 .. 1
  BY <1>2, <1>3 DEF Bit
<1>5. Budget' = Budget /\ Budget \in Nat /\ Newest \in Nat
  BY <1>1, FieldTypes DEF bounds, Budget
<1> HIDE DEF d, d1
<1>6. Newest' + 0 + Bit(d1) + Budget <= Newest + 1 + Bit(d) + Budget'
  BY <1>1, <1>4, <1>5
<1>7. QED
  BY <1>4, <1>6 DEF Pays, d, d1

LEMMA PullPays ==
  ASSUME TypeOK, NEW c \in Clients, MachineInv(c),
         Pull(c) \/ PullFetch(c) \/ PullVersion(c) \/ PullWrite(c)
  PROVE  Pays(c)
<1>1. CASE Pull(c)
  <2>1. /\ UNCHANGED server /\ Counted /\ local'[c] = local[c] /\ cache'[c] = cache[c]
        /\ proc[c].at = "decide" /\ proc'[c].at = "download" /\ ToPull(c)
    BY <1>1, PullDoes DEF Kept, Put, Moved
  <2>2. ~ToPush(c)
    BY <2>1 DEF ToPull, ToPush, Forced
  <2>3. QED
    BY <2>1, <2>2, UnpushedStays, Tables, Covered DEF Table
<1>2. CASE PullFetch(c) \/ PullVersion(c)
  <2>1. Newest > 0
    BY <1>2 DEF PullFetch, PullVersion, MachineInv, FromServer
  <2>2. /\ UNCHANGED server /\ Counted /\ local'[c] = local[c] /\ cache'[c] = cache[c]
        /\ proc[c].at = "download" /\ proc'[c].at \in {"idle", "write"}
    BY <1>2, <2>1, PullFetchDoes DEF Kept, Put, Returned, Holds, Moved
  <2>3. QED
    BY <2>2, UnpushedStays, Tables, Covered DEF Table
<1>3. CASE PullWrite(c)
  <2>1. /\ UNCHANGED server /\ Counted /\ local'[c] = proc'[c].data /\ proc'[c].at = "cache"
    BY <1>3, PullWriteDoes DEF Stays, Put, Moved
  <2>2. ~Flying(c)' /\ ~Dirty(c)'
    BY <2>1, Tables DEF Table, Differs
  <2>3. QED
    BY <2>1, <2>2, Covered
<1>4. QED
  BY <1>1, <1>2, <1>3

LEMMA ActsPay ==
  ASSUME TypeOK, NoEmptyVersion, NEW c \in Clients, MachineInv(c), Acts(c)
  PROVE  Pays(c)
BY ActsAre, EditPays, GcPays, ExpirePays, StartPays, CommandPays, InfoPays, EndPays, RowPays,
   PushReadPays, PushPays, PushCommitPays, PullPays

-----------------------------------------------------------------------------
(* The account of all machines                                             *)

(* The others start nothing, and have no more to push.                     *)
LEMMA OthersStand ==
  ASSUME TypeOK, NEW d \in Clients, Newest' >= Newest,
         local'[d] = local[d], cache'[d] = cache[d], proc'[d] = proc[d]
  PROVE  (Flying(d)' <=> Flying(d)) /\ (Dirty(d)' => Dirty(d))
<1>1. (ToPush(d)' <=> ToPush(d)) /\ (Convergent(d)' <=> Convergent(d))
  BY DEF ToPush, Convergent, LocalChanged, ServerChanged, Forced
<1>2. Flying(d)' <=> Flying(d)
  BY <1>1 DEF Flying
<1>3. Newest' = 0 => Newest = 0
  BY FieldTypes
<1>4. Unsynced(d)' => Unsynced(d)
  BY <1>3 DEF Unsynced
<1>5. Dirty(d)' => Dirty(d)
  BY <1>1, <1>4 DEF Dirty
<1>6. QED
  BY <1>2, <1>5

LEMMA SetMoves ==
  ASSUME NEW S, NEW T, NEW c, IsFiniteSet(S), T \subseteq S \cup {c}
  PROVE  /\ IsFiniteSet(T)
         /\ Cardinality(T) <= Cardinality(S) - Bit(c \in S) + Bit(c \in T)
         /\ Cardinality(T) \in Nat /\ Cardinality(S) \in Nat
<1> DEFINE R == S \ {c}
           Q == T \ {c}
<1>1. /\ IsFiniteSet(R) /\ Cardinality(R) = (IF c \in S THEN Cardinality(S) - 1 ELSE Cardinality(S))
  BY FS_RemoveElement
<1>2. Q \subseteq R
  OBVIOUS
<1>3. IsFiniteSet(Q) /\ Cardinality(Q) <= Cardinality(R)
  <2> HIDE DEF Q, R
  <2>1. QED
    BY <1>1, <1>2, FS_Subset
<1>4. /\ IsFiniteSet(Q \cup {c}) /\ Cardinality(Q \cup {c}) = Cardinality(Q) + 1
  <2>1. c \notin Q
    OBVIOUS
  <2> HIDE DEF Q
  <2>2. QED
    BY <1>3, <2>1, FS_AddElement
<1>5. T = IF c \in T THEN Q \cup {c} ELSE Q
  OBVIOUS
<1>6. /\ IsFiniteSet(T)
      /\ Cardinality(T) = IF c \in T THEN Cardinality(Q) + 1 ELSE Cardinality(Q)
  <2> HIDE DEF Q
  <2>1. QED
    BY <1>3, <1>4, <1>5
<1>7. Cardinality(Q) \in Nat /\ Cardinality(R) \in Nat /\ Cardinality(S) \in Nat
  BY <1>1, <1>3, FS_CardinalityType
<1>8. QED
  BY <1>1, <1>3, <1>6, <1>7 DEF Bit

LEMMA Sums ==
  ASSUME NEW n \in Nat, NEW n1 \in Nat, NEW F \in Nat, NEW F1 \in Nat, NEW D \in Nat, NEW D1 \in Nat,
         NEW f \in Nat, NEW f1 \in Nat, NEW d \in Nat, NEW d1 \in Nat, NEW b \in Nat, NEW b1 \in Nat,
         n1 + f1 + d1 + b <= n + f + d + b1, F1 <= F - f + f1, D1 <= D - d + d1, n + F + D <= b
  PROVE  n1 + F1 + D1 <= b1
OBVIOUS

LEMMA AccountMoves ==
  ASSUME TypeOK, Paid, NEW c \in Clients, Pays(c), Newest' >= Newest, Newest' \in Nat, Counted,
         \A d \in Clients \ {c} : (Flying(d)' <=> Flying(d)) /\ (Dirty(d)' => Dirty(d))
  PROVE  Paid'
<1>1. FlyingSet' = {d \in Clients : Flying(d)'} /\ DirtySet' = {d \in Clients : Dirty(d)'}
  BY DEF FlyingSet, DirtySet
<1>2. FlyingSet' \subseteq FlyingSet \cup {c} /\ DirtySet' \subseteq DirtySet \cup {c}
  BY <1>1 DEF FlyingSet, DirtySet
<1> DEFINE f == Bit(Flying(c))  f1 == Bit(Flying(c)')  d == Bit(Dirty(c))  d1 == Bit(Dirty(c)')
<1>3. /\ IsFiniteSet(FlyingSet') /\ Cardinality(FlyingSet') <= Cardinality(FlyingSet) - f + f1
      /\ Cardinality(FlyingSet') \in Nat /\ Cardinality(FlyingSet) \in Nat
  <2>1. (c \in FlyingSet <=> Flying(c)) /\ (c \in FlyingSet' <=> Flying(c)')
    BY <1>1 DEF FlyingSet
  <2>2. Bit(c \in FlyingSet) = f /\ Bit(c \in FlyingSet') = f1
    BY <2>1 DEF Bit
  <2>3. QED
    BY <1>2, <2>2, SetMoves DEF Paid
<1>4. /\ IsFiniteSet(DirtySet') /\ Cardinality(DirtySet') <= Cardinality(DirtySet) - d + d1
      /\ Cardinality(DirtySet') \in Nat /\ Cardinality(DirtySet) \in Nat
  <2>1. (c \in DirtySet <=> Dirty(c)) /\ (c \in DirtySet' <=> Dirty(c)')
    BY <1>1 DEF DirtySet
  <2>2. Bit(c \in DirtySet) = d /\ Bit(c \in DirtySet') = d1
    BY <2>1 DEF Bit
  <2>3. QED
    BY <1>2, <2>2, SetMoves DEF Paid
<1>5. f \in Nat /\ f1 \in Nat /\ d \in Nat /\ d1 \in Nat
  BY DEF Bit
<1>6. Newest' + f1 + d1 + Budget <= Newest + f + d + Budget'
  BY DEF Pays
<1>7. Newest + Cardinality(FlyingSet) + Cardinality(DirtySet) <= Budget
  BY DEF Paid, Budget
<1>8. Newest \in Nat /\ Budget \in Nat /\ Budget' \in Nat
  BY Counters
<1> DEFINE F == Cardinality(FlyingSet)  F1 == Cardinality(FlyingSet')
           D == Cardinality(DirtySet)  D1 == Cardinality(DirtySet')
<1> HIDE DEF f, f1, d, d1, F, F1, D, D1
<1>9. Newest' + F1 + D1 <= Budget'
  <2>1. F1 <= F - f + f1 /\ F1 \in Nat /\ F \in Nat
    BY <1>3 DEF F, F1
  <2>2. D1 <= D - d + d1 /\ D1 \in Nat /\ D \in Nat
    BY <1>4 DEF D, D1
  <2>3. Newest + F + D <= Budget
    BY <1>7 DEF F, D
  <2>4. QED
    BY <1>5, <1>6, <1>8, <2>1, <2>2, <2>3, Sums
<1>10. QED
  BY <1>3, <1>4, <1>9 DEF Paid, Budget, F1, D1

LEMMA PaidStep ==
  ASSUME MachinesInv, Paid, [Next]_vars
  PROVE  Paid'
<1> USE DEF MachinesInv
<1>1. Grows /\ Newest' >= Newest /\ Newest' \in Nat /\ Newest \in Nat
  BY MachinesStep, ServedGrows
<1>2. ASSUME NEW c \in Clients, Acts(c) PROVE Paid'
  <2>1. Touched(c) /\ Counted /\ Pays(c)
    BY <1>2, ActsTouch, ActsPay DEF Did
  <2>2. \A d \in Clients \ {c} : (Flying(d)' <=> Flying(d)) /\ (Dirty(d)' => Dirty(d))
    BY <1>1, <2>1, OthersStand DEF Touched
  <2>3. QED
    BY <1>1, <2>1, <2>2, AccountMoves
<1>3. CASE Verify \/ Corrupt \/ UNCHANGED vars
  <2>1. /\ UNCHANGED <<versions, local, cache, proc>> /\ Counted
    <3>1. /\ UNCHANGED <<versions, local, cache, proc, edits, forces>>
          /\ faults' = faults \/ faults' = faults + 1
      BY <1>3 DEF Verify, Corrupt, Fault, bounds, vars
    <3>2. QED
      BY <3>1, Counters DEF Counted
  <2>2. \A d \in Clients : (Flying(d)' <=> Flying(d)) /\ (Dirty(d)' => Dirty(d))
    BY <1>1, <2>1, OthersStand
  <2>3. FlyingSet' = FlyingSet /\ DirtySet' \subseteq DirtySet
    BY <2>2 DEF FlyingSet, DirtySet
  <2>4. /\ IsFiniteSet(DirtySet') /\ Cardinality(DirtySet') <= Cardinality(DirtySet)
        /\ Cardinality(DirtySet') \in Nat /\ Cardinality(DirtySet) \in Nat
    BY <2>3, FS_Subset, FS_CardinalityType DEF Paid
  <2>5. Cardinality(FlyingSet) \in Nat
    BY FS_CardinalityType DEF Paid
  <2>6. Budget \in Nat /\ Budget' \in Nat /\ Budget' >= Budget /\ Newest' = Newest
    BY <2>1, Counters DEF Newest
  <2>7. Newest' + Cardinality(FlyingSet) + Cardinality(DirtySet') <= Budget'
    BY <1>1, <2>4, <2>5, <2>6 DEF Paid, Budget
  <2>8. QED
    BY <2>3, <2>4, <2>7 DEF Paid, Budget
<1>4. QED
  BY <1>2, <1>3, NextActs

LEMMA PaidStart == Init => Paid
<1> SUFFICES ASSUME Init PROVE Paid
  OBVIOUS
<1>1. Newest = 0 /\ edits = 0 /\ forces = 0 /\ faults = 0
  BY DEF Init, Newest
<1>2. \A c \in Clients : proc[c].at = "idle" /\ local[c] = None
  BY DEF Init, Idle
<1>3. FlyingSet = {} /\ DirtySet = {}
  BY <1>2 DEF FlyingSet, DirtySet, Flying, Dirty, Pushing
<1>4. QED
  BY <1>1, <1>3, FS_EmptySet DEF Paid

(* The invariant of the whole module.                                      *)
THEOREM Inductive == Spec => []IInv
<1>1. MachinesInv /\ Paid /\ [Next]_vars => Paid'
  BY PaidStep
<1>2. MachinesInv /\ Paid => IInv
  BY DEF MachinesInv, IInv
<1>3. QED
  BY <1>1, <1>2, PaidStart, MachinesAlways, PTL DEF Spec

(* Every version is paid for by an edit, a forced sync, a command or a     *)
(* fault of its own: machines that only sync never push back and forth.    *)
THEOREM PushesArePaid == Spec => []NoPingPong
<1>1. IInv => NoPingPong
  <2> SUFFICES ASSUME IInv PROVE NoPingPong
    OBVIOUS
  <2>1. Cardinality(FlyingSet) \in Nat /\ Cardinality(DirtySet) \in Nat /\ TypeOK
    BY FS_CardinalityType DEF IInv, Paid
  <2>2. Newest \in Nat /\ edits \in Nat /\ forces \in Nat /\ faults \in Nat
    BY <2>1 DEF TypeOK, Newest
  <2>3. QED
    BY <2>1, <2>2 DEF IInv, Paid, NoPingPong
<1>2. QED
  BY <1>1, Inductive, PTL
=============================================================================
