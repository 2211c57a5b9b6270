----------------------------- MODULE RateLimiter -----------------------------
(***************************************************************************)
(* server/rate-limiter.ts: the counters of requests and of bytes, each a   *)
(* window that starts with the first request after the last one expired.   *)
(* The checks have no await, so a check is one step; time is a clock that  *)
(* the environment advances.                                               *)
(***************************************************************************)
EXTENDS Naturals

CONSTANTS Users,    \* user ids
          Limit,    \* max: requests per window
          Quota,    \* MAX_BYTE_QUOTA
          Window,   \* WINDOW_MS
          MaxTime   \* bound: the clock stops here

ASSUME RateAssumption == /\ Limit \in Nat \ {0} /\ Quota \in Nat \ {0}
                         /\ Window \in Nat \ {0}
                         /\ MaxTime \in Nat

VARIABLES now,
          requests,  \* requests[c][u]: uploadLimits and downloadLimits
          bytes      \* bytes[u]: byteLimits

rateVars == <<now, requests, bytes>>

Counters == {"upload", "download"}
NoEntry == [used |-> 0, expiresAt |-> 0]
(* Mutant: the window is over at its last instant, not after it.           *)
OverAtEnd(e) == e.expiresAt <= now
Expired(e) == e.expiresAt < now
Fresh(n) == [used |-> n, expiresAt |-> now + Window]

RateInit == /\ now = 1
            /\ requests = [c \in Counters |-> [u \in Users |-> NoEntry]]
            /\ bytes = [u \in Users |-> NoEntry]

(* Mutant: a refused request restarts the window.                          *)
AfterRefusal(e) == [e EXCEPT !.expiresAt = now + Window]

(* An open window has room, and what a refusal leaves behind.              *)
HasRoom(e) == e.used < Limit
Refused(e) == e

(* _checkRequestLimit: open a window, count, or refuse.                    *)
RequestPasses(c, u) ==
  LET e == requests[c][u]
  IN /\ Expired(e) \/ HasRoom(e)
     /\ requests' = [requests EXCEPT ![c][u] =
                       IF Expired(e) THEN Fresh(1) ELSE [e EXCEPT !.used = @ + 1]]
RequestRefused(c, u) ==
  LET e == requests[c][u]
  IN /\ ~Expired(e) /\ ~HasRoom(e)
     /\ requests' = [requests EXCEPT ![c][u] = Refused(e)]

(* checkByteQuota: what opens a window is not compared with the quota.     *)
BytesPass(u, n) ==
  \/ Expired(bytes[u]) /\ bytes' = [bytes EXCEPT ![u] = Fresh(n)]
  \/ /\ ~Expired(bytes[u]) /\ bytes[u].used + n <= Quota
     /\ bytes' = [bytes EXCEPT ![u].used = @ + n]
BytesRefused(u, n) ==
  ~Expired(bytes[u]) /\ bytes[u].used + n > Quota /\ UNCHANGED bytes

(* The periodic cleanup drops expired entries.                             *)
Swept(e) == IF Expired(e) THEN NoEntry ELSE e
Sweep ==
  /\ requests' = [c \in Counters |-> [u \in Users |-> Swept(requests[c][u])]]
  /\ bytes' = [u \in Users |-> Swept(bytes[u])]
  /\ UNCHANGED now

Tick == now < MaxTime /\ now' = now + 1 /\ UNCHANGED <<requests, bytes>>
=============================================================================
