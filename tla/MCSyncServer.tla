---------------------------- MODULE MCSyncServer ----------------------------
(* Small instances of SyncServer: requests, version ids and negotiation    *)
(* ids are model values and interchangeable.                               *)
EXTENDS SyncServer, TLC

Symmetry == Permutations(Requests) \cup Permutations(VersionIds)
            \cup Permutations(NegIds) \cup Permutations(Files)
=============================================================================
