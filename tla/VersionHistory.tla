--------------------------- MODULE VersionHistory ---------------------------
(***************************************************************************)
(* What the sync API promises about one user's file: a versioned           *)
(* compare-and-swap register.  Each file has a current version, every new  *)
(* version is built on the version that is current at that instant, its    *)
(* number is the next one, and a version that is no longer current may be  *)
(* forgotten.  Nothing here says who publishes, what a negotiation token   *)
(* is, or when old rows are pruned: SyncServer does, and implements this.  *)
(***************************************************************************)
EXTENDS Naturals

CONSTANTS Files,       \* the (userId, path) pairs
          VersionIds,  \* the ids fileVersions rows can be given
          None         \* SQL null

VARIABLES curr,     \* curr[f]: files.currentVersionId, None when there is no row
          history,  \* history[v]: file, number and base of version v
          rows      \* the versions that can still be read

vars == <<curr, history, rows>>

Unissued == [file |-> None, no |-> 0, base |-> None]

Init == /\ curr = [f \in Files |-> None]
        /\ history = [v \in VersionIds |-> Unissued]
        /\ rows = {}

NextNo(f) == IF curr[f] = None THEN 1 ELSE history[curr[f]].no + 1

(* A fresh version v becomes the current one, on top of the current one.   *)
Publish(f, v) ==
  /\ history[v] = Unissued
  /\ history' = [history EXCEPT ![v] =
                   [file |-> f, no |-> NextNo(f), base |-> curr[f]]]
  /\ curr' = [curr EXCEPT ![f] = v]
  /\ rows' = rows \cup {v}

(* Some versions that no file points at are forgotten.                     *)
Forget(S) ==
  /\ \A f \in Files : curr[f] \notin S
  /\ rows' = rows \ S
  /\ UNCHANGED <<curr, history>>

Next == \/ \E f \in Files, v \in VersionIds : Publish(f, v)
        \/ \E S \in SUBSET rows : Forget(S)

Spec == Init /\ [][Next]_vars
=============================================================================
