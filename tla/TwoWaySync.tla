----------------------------- MODULE TwoWaySync -----------------------------
(***************************************************************************)
(* deltasync sync, push and pull on several machines, for one path: the    *)
(* three-way decision of syncFile between the file, the cached last_hash   *)
(* and the server's newest version, with the push and pull it leads to,    *)
(* while the user edits, versions await verification and processes die.    *)
(* An action is what the CLI does between two awaits; one process per      *)
(* directory.                                                              *)
(*                                                                         *)
(* Abstracted: a content stands for its SHA-256; negotiation, commit and   *)
(* pruning are the register SyncServer implements (a version is published  *)
(* if the snapshot is still the newest); chunk uploads always complete or  *)
(* fail as a whole.                                                        *)
(***************************************************************************)
EXTENDS Naturals, Sequences, SequencesExt

CONSTANTS Clients,    \* machines with a copy of the directory
          Contents,   \* what a user can write into the file
          MaxEdits,   \* bound: edits and removals by users
          MaxTrouble, \* bound: syncs with --force-push or --force-pull, commands push
                      \* and pull, crashes, failing requests, lost replies and lost
                      \* chunks together
          None        \* no file, no row

ASSUME NoneAssumption == None \notin Contents
ASSUME BoundsAssumption == MaxEdits \in Nat /\ MaxTrouble \in Nat

VARIABLES versions,  \* the contents of the server's versions, oldest first
          status,    \* verification_status of the newest version
          local,     \* local[c]: the file on machine c, None without one
          cache,     \* cache[c]: the row of table files
          session,   \* session[c]: the row of negotiation_sessions and its token
          proc,      \* proc[c]: the command that runs on c
          conflict,  \* conflict[c]: the last command on c reported a conflict or failed
          edits, forces, faults

vars == <<versions, status, local, cache, session, proc, conflict, edits, forces, faults>>
server == <<versions, status>>
bounds == <<edits, forces, faults>>

(* hash and version number, of a cache row or of an answer of /info.       *)
Nothing == [hash |-> None, no |-> 0]
(* snap: the version that was newest at negotiation; live: the server      *)
(* still knows the token.                                                  *)
NoSession == [hash |-> None, snap |-> 0, live |-> FALSE]
Idle == [at |-> "idle", force |-> "no", ancestor |-> Nothing, existed |-> FALSE,
         info |-> Nothing, data |-> None, seen |-> 0, edited |-> FALSE]

Newest == Len(versions)
Info == IF versions = <<>> THEN Nothing
        ELSE [hash |-> Last(versions), no |-> Newest]

(* The JSON body of a 202 answer names the version that is not verified.   *)
PendingBody(no) == <<"pending_verification", no>>

Init == /\ versions = <<>>
        /\ status = "verified"
        /\ local = [c \in Clients |-> None]
        /\ cache = [c \in Clients |-> Nothing]
        /\ session = [c \in Clients |-> NoSession]
        /\ proc = [c \in Clients |-> Idle]
        /\ conflict = [c \in Clients |-> FALSE]
        /\ edits = 0 /\ forces = 0 /\ faults = 0

(* upsertFile.                                                             *)
Upsert(c, hash, no) == cache' = [cache EXCEPT ![c] = [hash |-> hash, no |-> no]]

Goto(c, at) == proc' = [proc EXCEPT ![c].at = at]
(* Mutant: a conflict is listed with the skipped paths.                    *)
ReturnQuietly(c, result) == /\ proc' = [proc EXCEPT ![c] = Idle]
                            /\ conflict' = [conflict EXCEPT ![c] = FALSE]

(* "pushed", "pulled", "skipped" or "conflicts".                           *)
Return(c, result) == /\ proc' = [proc EXCEPT ![c] = Idle]
                     /\ conflict' = [conflict EXCEPT ![c] = result = "conflicts"]
Fault == forces + faults < MaxTrouble /\ faults' = faults + 1

-----------------------------------------------------------------------------
(* What happens around the CLI: the user writes or removes the file, the   *)
(* command gc drops a row, the dispatcher verifies a version (or finds a   *)
(* chunk missing), the server forgets a token.                             *)
Edit(c, d) ==
  /\ edits < MaxEdits
  /\ local[c] # d
  /\ local' = [local EXCEPT ![c] = d]
  /\ proc' = [proc EXCEPT ![c].edited = proc[c].at # "idle"]
  /\ edits' = edits + 1
  /\ UNCHANGED <<server, cache, session, conflict, forces, faults>>

(* pruneCache: the row of a file that is gone, or of any file that is the  *)
(* least recently used of too many.                                        *)
PruneCache(c) == cache[c] # Nothing /\ cache' = [cache EXCEPT ![c] = Nothing]

(* A process of its own, beside any other command.  While one runs, the row*)
(* is read only by PushPrepare: dropped at any other time, it could as well*)
(* go after the end of that command, or be written again by it.            *)
GcCommand(c) == /\ proc[c].at \in {"idle", "prepare"}
                /\ PruneCache(c)
                /\ UNCHANGED <<server, local, session, proc, conflict, bounds>>

Verify ==
  /\ status = "pending"
  /\ status' = "verified"
  /\ UNCHANGED <<versions, local, cache, session, proc, conflict, bounds>>

Corrupt ==
  /\ Fault
  /\ status = "pending"
  /\ status' = "corrupted"
  /\ UNCHANGED <<versions, local, cache, session, proc, conflict, edits, forces>>

Expire(c) ==
  /\ session[c].live
  /\ session' = [session EXCEPT ![c].live = FALSE]
  /\ UNCHANGED <<server, local, cache, proc, conflict, bounds>>

-----------------------------------------------------------------------------
(* getFile and existsSync, then the request for the server's metadata.     *)
Start(c, force) ==
  /\ proc[c].at = "idle"
  /\ force # "no" => forces + faults < MaxTrouble
  /\ forces' = IF force = "no" THEN forces ELSE forces + 1
  /\ proc' = [proc EXCEPT ![c] = [Idle EXCEPT !.at = "info", !.force = force, !.seen = Newest,
                                              !.ancestor = cache[c],
                                              !.existed = local[c] # None]]
  /\ UNCHANGED <<server, local, cache, session, conflict, edits, faults>>

(* The answer is there (or the request failed, which the catch block takes *)
(* for "no such file"): read the file that was there before the request;   *)
(* if it is gone, readFileSync ends the process.                           *)
Read(c, info) ==
  /\ proc[c].at = "info"
  /\ proc' = [proc EXCEPT ![c] =
       IF proc[c].existed /\ local[c] = None THEN Idle
       ELSE [@ EXCEPT !.at = "decide", !.info = info, !.existed = FALSE,
                      !.data = IF proc[c].existed THEN local[c] ELSE None]]

GetInfo(c) == Read(c, Info) /\ UNCHANGED <<server, local, cache, session, conflict, bounds>>
GetInfoFails(c) ==
  /\ Fault
  /\ Read(c, Nothing)
  /\ UNCHANGED <<server, local, cache, session, conflict, edits, forces>>

LocalChanged(c) == proc[c].data # None /\ proc[c].data # proc[c].ancestor.hash
ServerChanged(c) == proc[c].info.hash # None /\ proc[c].info.hash # proc[c].ancestor.hash
Convergent(c) == proc[c].data # None /\ proc[c].data = proc[c].info.hash
Forced(c, force) == LocalChanged(c) /\ ServerChanged(c) /\ proc[c].force = force

(* Mutants: any local change is pushed, any change on the server pulled.   *)
PushAnyChange(c) == ~Convergent(c) /\ LocalChanged(c)
PullAnyChange(c) == ~Convergent(c) /\ ServerChanged(c) /\ ~Forced(c, "push")

ToPush(c) == ~Convergent(c) /\ LocalChanged(c) /\ (~ServerChanged(c) \/ Forced(c, "push"))
ToPull(c) == ~Convergent(c) /\ ServerChanged(c) /\ (~LocalChanged(c) \/ Forced(c, "pull"))

Skip(c) ==
  /\ proc[c].at = "decide"
  /\ ~LocalChanged(c) /\ ~ServerChanged(c)
  /\ Return(c, "skipped")
  /\ UNCHANGED <<server, local, cache, session, bounds>>

(* Both sides have the same content: only the row is refreshed.  If the    *)
(* file has just been removed, statSync ends the process instead.          *)
Converge(c) ==
  /\ proc[c].at = "decide"
  /\ Convergent(c) /\ (LocalChanged(c) \/ ServerChanged(c))
  /\ IF local[c] = None THEN proc' = [proc EXCEPT ![c] = Idle] /\ UNCHANGED <<cache, conflict>>
     ELSE /\ Upsert(c, proc[c].info.hash, proc[c].info.no)
          /\ Return(c, "skipped")
  /\ UNCHANGED <<server, local, session, bounds>>

Conflict(c) ==
  /\ proc[c].at = "decide"
  /\ LocalChanged(c) \/ ServerChanged(c)
  /\ ~Convergent(c) /\ ~ToPush(c) /\ ~ToPull(c)
  /\ Return(c, "conflicts")
  /\ UNCHANGED <<server, local, cache, session, bounds>>

-----------------------------------------------------------------------------
(* performPush reads the file again.                                       *)
PushRead(c) ==
  /\ proc[c].at = "decide"
  /\ ToPush(c)
  /\ IF local[c] = None THEN Return(c, "conflicts")
     ELSE /\ proc' = [proc EXCEPT ![c].at = "prepare", ![c].data = local[c], ![c].info = Nothing]
          /\ UNCHANGED conflict
  /\ UNCHANGED <<server, local, cache, session, bounds>>

(* Unchanged after all; or a session of this very content to resume; or a  *)
(* new negotiation.                                                        *)
PushPrepare(c) ==
  /\ proc[c].at = "prepare"
  /\ IF cache[c].hash = proc[c].data THEN Return(c, "pushed")
     ELSE /\ Goto(c, IF session[c].hash = proc[c].data THEN "resume" ELSE "negotiate")
          /\ UNCHANGED conflict
  /\ UNCHANGED <<server, local, cache, session, bounds>>

PushResume(c) ==
  /\ proc[c].at = "resume"
  /\ IF session[c].live THEN Goto(c, "commit") /\ UNCHANGED session
     ELSE /\ session' = [session EXCEPT ![c] = NoSession]
          /\ Goto(c, "negotiate")
  /\ UNCHANGED <<server, local, cache, conflict, bounds>>

(* Any other error is handled like 410: the session is given up.           *)
PushResumeFails(c) ==
  /\ Fault
  /\ proc[c].at = "resume"
  /\ session' = [session EXCEPT ![c] = NoSession]
  /\ Goto(c, "negotiate")
  /\ UNCHANGED <<server, local, cache, conflict, edits, forces>>

PushNegotiate(c) ==
  /\ proc[c].at = "negotiate"
  /\ session' = [session EXCEPT ![c] = [hash |-> proc[c].data, snap |-> Newest, live |-> TRUE]]
  /\ Goto(c, "commit")
  /\ UNCHANGED <<server, local, cache, conflict, bounds>>

(* commit.ts: publish if the snapshot is still the newest version, and     *)
(* consume the token.                                                      *)
PushCommit(c) ==
  /\ proc[c].at = "commit"
  /\ session[c].live /\ session[c].snap = Newest
  /\ versions' = Append(versions, session[c].hash)
  /\ status' = "pending"
  /\ session' = [session EXCEPT ![c].live = FALSE]
  /\ proc' = [proc EXCEPT ![c] = [Idle EXCEPT !.at = "committed", !.data = proc[c].data,
                                              !.info = [hash |-> None, no |-> Newest + 1]]]
  /\ UNCHANGED <<local, cache, conflict, bounds>>

(* 410 or 409: performPush throws; the row of the session stays.           *)
PushRefused(c) ==
  /\ proc[c].at = "commit"
  /\ ~(session[c].live /\ session[c].snap = Newest)
  /\ Return(c, "conflicts")
  /\ UNCHANGED <<server, local, cache, session, bounds>>

PushDone(c) ==
  /\ proc[c].at = "committed"
  /\ session' = [session EXCEPT ![c] = NoSession]
  /\ Upsert(c, proc[c].data, proc[c].info.no)
  /\ Return(c, "pushed")
  /\ UNCHANGED <<server, local, bounds>>

-----------------------------------------------------------------------------
(* The download request goes out.                                          *)
Pull(c) ==
  /\ proc[c].at = "decide"
  /\ ToPull(c)
  /\ proc' = [proc EXCEPT ![c].at = "download", ![c].data = None, ![c].ancestor = Nothing,
                          ![c].seen = 0]
  /\ UNCHANGED <<server, local, cache, session, conflict, bounds>>

(* download.ts answers with the newest version by now, with 409 if it is   *)
(* corrupted and with 202 while it is pending; 202 is r.ok to the CLI.     *)
PullFetch(c) ==
  /\ proc[c].at = "download"
  /\ proc[c].force = "command" => proc[c].info.no \in {0, Newest}
  /\ IF status = "corrupted" THEN Return(c, "conflicts")
     ELSE /\ proc' = [proc EXCEPT ![c].at = "write",
                        ![c].data = IF status = "pending" THEN PendingBody(Newest)
                                    ELSE Last(versions)]
          /\ UNCHANGED conflict
  /\ UNCHANGED <<server, local, cache, session, bounds>>

PullWrite(c) ==
  /\ proc[c].at = "write"
  /\ local' = [local EXCEPT ![c] = proc[c].data]
  /\ Goto(c, "cache")
  /\ UNCHANGED <<server, cache, session, conflict, bounds>>

(* Mutant: the hash of the metadata instead of the hash of the data.       *)
PullCacheInfo(c) ==
  /\ proc[c].at = "cache"
  /\ Upsert(c, proc[c].info.hash, proc[c].info.no)
  /\ Return(c, "pulled")
  /\ UNCHANGED <<server, local, session, bounds>>

PullCache(c) ==
  /\ proc[c].at = "cache"
  /\ Upsert(c, proc[c].data, proc[c].info.no)
  /\ Return(c, "pulled")
  /\ UNCHANGED <<server, local, session, bounds>>

-----------------------------------------------------------------------------
(* The commands push and pull do not compare first.                        *)
Command(c, at, data, no) ==
  /\ proc[c].at = "idle"
  /\ forces + faults < MaxTrouble /\ forces' = forces + 1
  /\ proc' = [proc EXCEPT ![c] = [Idle EXCEPT !.at = at, !.force = "command", !.data = data,
                                              !.info = [hash |-> None, no |-> no]]]
  /\ UNCHANGED <<server, local, cache, session, conflict, edits, faults>>

(* performPush, of a file that is there.                                   *)
PushCommand(c) == local[c] # None /\ Command(c, "prepare", local[c], 0)

(* pull: version no, or the newest by now, which enters the row as 0.      *)
PullCommand(c, no) == Newest > 0 /\ Command(c, "download", None, no)

(* What the command asked for, older versions being verified by now.       *)
PullVersion(c) ==
  /\ proc[c].at = "download"
  /\ proc[c].force = "command" /\ proc[c].info.no \in 1 .. Newest - 1
  /\ proc' = [proc EXCEPT ![c].at = "write", ![c].data = versions[proc[c].info.no]]
  /\ UNCHANGED <<server, local, cache, session, conflict, bounds>>

-----------------------------------------------------------------------------
(* A request of the push or the pull fails, or its reply is lost.          *)
RequestFails(c) ==
  /\ Fault
  /\ proc[c].at \in {"negotiate", "commit", "committed", "download"}
  /\ Return(c, "conflicts")
  /\ UNCHANGED <<server, local, cache, session, edits, forces>>

Crash(c) ==
  /\ Fault
  /\ proc[c].at # "idle"
  /\ proc' = [proc EXCEPT ![c] = Idle]
  /\ UNCHANGED <<server, local, cache, session, conflict, edits, forces>>

Sync(c) ==
  \/ GetInfo(c)
  \/ Skip(c) \/ Converge(c) \/ Conflict(c)
  \/ PushRead(c) \/ PushPrepare(c) \/ PushResume(c) \/ PushNegotiate(c)
  \/ PushCommit(c) \/ PushRefused(c) \/ PushDone(c)
  \/ Pull(c) \/ PullFetch(c) \/ PullVersion(c) \/ PullWrite(c) \/ PullCache(c)

Next ==
  \/ \E c \in Clients :
       \/ \E d \in Contents \cup {None} : Edit(c, d)
       \/ GcCommand(c)
       \/ Expire(c)
       \/ \E force \in {"no", "push", "pull"} : Start(c, force)
       \/ PushCommand(c)
       \/ \E no \in 0 .. Newest : PullCommand(c, no)
       \/ Sync(c)
       \/ GetInfoFails(c) \/ PushResumeFails(c) \/ RequestFails(c) \/ Crash(c)
  \/ Verify \/ Corrupt

Spec == Init /\ [][Next]_vars

(* A running process goes on, every machine is synced again and again,     *)
(* and the dispatcher verifies what is pending.                            *)
Fairness == /\ \A c \in Clients : WF_vars(Sync(c)) /\ WF_vars(Start(c, "no"))
            /\ WF_vars(Verify)
FairSpec == Spec /\ Fairness

-----------------------------------------------------------------------------
Served == ToSet(versions) \cup {PendingBody(n) : n \in 1 .. Newest}

(* A sync without --force-pull destroys no local work: what it overwrites  *)
(* is nothing, something the server has served before, or an edit made     *)
(* while this very sync was running.                                       *)
Overwrites(c) == proc[c].at = "write" /\ proc'[c].at = "cache"
                 /\ proc[c].force \notin {"pull", "command"}
EditsSurvivePull ==
  [][\A c \in Clients :
       Overwrites(c) => local[c] \in Served \cup {None} \/ proc[c].edited]_vars

(* Both changed is never resolved by pushing (sync.ts:7), except in a      *)
(* race: without --force-push and faults, a sync publishes on top of its   *)
(* ancestor, or on top of a version that appeared after the sync began.    *)
Publishes(c) == proc[c].at = "commit" /\ proc'[c].at = "committed"
                /\ proc[c].force \notin {"push", "command"}
OnlyRacesOverwrite ==
  [][\A c \in Clients :
       Publishes(c) /\ faults = 0 /\ Newest = proc[c].seen /\ Newest > 0
         => Last(versions) = proc[c].ancestor.hash]_vars

(* Machines do not push each other's versions back and forth: there are    *)
(* never more versions than edits, forced syncs, commands and faults.      *)
NoPingPong == Newest <= edits + forces + faults

(* When users stop editing, every machine ends with the newest version, or *)
(* without the file, or keeps reporting a conflict.                        *)
Settled(c) == \/ local[c] = None
              \/ versions = <<>>
              \/ versions # <<>> /\ local[c] = Last(versions)
              \/ conflict[c]
Converges == <>[](\A c \in Clients : Settled(c))

(* "Resolve with: deltasync sync --force-push" (sync.ts:141): a forced     *)
(* push that nobody raced with is not refused.                             *)
ForcedPushWins ==
  \A c \in Clients :
    proc[c].at = "commit" /\ proc[c].force = "push" /\ faults = 0 /\ proc[c].seen = Newest
      => session[c].snap = Newest
=============================================================================
