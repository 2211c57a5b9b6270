------------------------------ MODULE Admission ------------------------------
(***************************************************************************)
(* The way of a request through the server, to the point where the         *)
(* handlers of the other modules begin: validateApiKey, the rate limit of  *)
(* the route, and the S3 calls through the limiter of the route module     *)
(* (negotiate, upload, resume) or past it (download).  Keys come from      *)
(* Accounts and are revoked while requests are under way.  req[q] is the   *)
(* request q; at, the time its rate limit was checked, and late, whether   *)
(* its key was revoked before it was sent, are history.                    *)
(***************************************************************************)
EXTENDS Accounts, RateLimiter, S3Limiter

CONSTANTS MaxRequests, \* bound: requests sent
          MaxInFlight, \* bound: requests under way at a time
          Sizes        \* the sizes of downloads

ASSUME AdmissionAssumption ==
  /\ MaxRequests \in Nat /\ MaxInFlight \in Nat
  /\ Sizes \subseteq Nat /\ Users = UserIds

VARIABLES req

vars == <<accountVars, rateVars, limiterVars, req>>

(* Requests are numbered in the order they are sent.                       *)
Requests == 1 .. MaxRequests

NotSent == [phase |-> "unsent", counter |-> "upload", key |-> None,
            user |-> 0, at |-> 0, late |-> FALSE]

Init == /\ AccountsInit /\ RateInit /\ LimiterInit
        /\ req = [q \in Requests |-> NotSent]

To(q, phase) == req' = [req EXCEPT ![q].phase = phase]

UnderWay == {q \in Requests :
               req[q].phase \in {"hashing", "found", "admitted", "waiting"}}

(* The client sends a request with a key it was shown.                     *)
Send(q, c, k) ==
  /\ Cardinality(UnderWay) < MaxInFlight
  /\ req[q].phase = "unsent" /\ \A p \in Requests : p < q => req[p].phase # "unsent"
  /\ keys[k].owner # None
  /\ req' = [req EXCEPT ![q] = [NotSent EXCEPT !.phase = "hashing", !.counter = c,
                                               !.key = k, !.late = keys[k].revoked]]
  /\ UNCHANGED <<accountVars, rateVars, limiterVars>>

(* Mutant: the first row with this hash will do.                           *)
IsAny(k) == keys[k].owner # None

(* rows.find((r) => !r.revokedAt)                                          *)
IsLive(k) == keys[k].owner # None /\ ~keys[k].revoked

(* validateApiKey: hash the key, select its row.                           *)
SelectKey(q) ==
  /\ req[q].phase = "hashing"
  /\ LET k == req[q].key
     IN req' = [req EXCEPT ![q].phase = IF IsLive(k) THEN "found" ELSE "unauthorized",
                           ![q].user = IF IsLive(k) THEN keys[k].owner ELSE 0]
  /\ UNCHANGED <<accountVars, rateVars, limiterVars>>

(* It notes the use of the key, revoked by now or not, and returns; the    *)
(* rate limit of the route follows in the same turn: 429 or on.            *)
TouchKey(q) ==
  /\ keys' = [keys EXCEPT ![req[q].key].used = TRUE]
  /\ UNCHANGED <<users, cookie, form, page, forms, visits>>
Decided(q, phase) == req' = [req EXCEPT ![q].phase = phase, ![q].at = now]
Admit(q) ==
  /\ req[q].phase = "found"
  /\ TouchKey(q)
  /\ RequestPasses(req[q].counter, req[q].user)
  /\ Decided(q, "admitted")
  /\ UNCHANGED <<now, bytes, limiterVars>>
Refuse(q) ==
  /\ req[q].phase = "found"
  /\ TouchKey(q)
  /\ RequestRefused(req[q].counter, req[q].user)
  /\ Decided(q, "refused")
  /\ UNCHANGED <<now, bytes, limiterVars>>

(* negotiate, upload: the body is refused, or a call waits for a slot.     *)
CallS3(q) ==
  /\ req[q].phase = "admitted" /\ req[q].counter = "upload"
  /\ \/ Enqueue(q) /\ To(q, "waiting")
     \/ To(q, "answered") /\ UNCHANGED limiterVars
  /\ UNCHANGED <<accountVars, rateVars>>

(* download: no version to send (404, 409, 202), or its size is charged    *)
(* and its blocks are fetched without a limiter.                           *)
ChargeBytes(q) ==
  /\ req[q].phase = "admitted" /\ req[q].counter = "download"
  /\ \/ To(q, "answered") /\ UNCHANGED bytes
     \/ \E n \in Sizes : \/ BytesPass(req[q].user, n) /\ To(q, "answered")
                         \/ BytesRefused(req[q].user, n) /\ To(q, "overQuota")
  /\ UNCHANGED <<accountVars, now, requests, limiterVars>>

(* Mutant: the slot is freed by the answer only, not by an error.          *)
AnswerFrees(q) ==
  /\ q \in running
  /\ \/ To(q, "answered") /\ Finish(q)
     \/ /\ To(q, "failed") /\ running' = running \ {q}
        /\ UNCHANGED <<queue, active>>
  /\ UNCHANGED <<accountVars, rateVars>>

(* S3 answers, well or with an error; the handler goes on.                 *)
S3Answers(q) ==
  /\ q \in running
  /\ Finish(q)
  /\ To(q, "answered") \/ To(q, "failed")
  /\ UNCHANGED <<accountVars, rateVars>>

Handle(q) == \/ SelectKey(q) \/ Admit(q) \/ Refuse(q)
             \/ CallS3(q) \/ ChargeBytes(q) \/ S3Answers(q)

(* Requests share no state with the forms and the keys pages but the rows  *)
(* of api_keys, so the two need not be interleaved.  They start when one   *)
(* visitor is in and sees the keys it made, and from then on revokes them; *)
(* browsers are alike, and so are addresses: one of each will do.          *)
AtRest ==
  LET b == CHOOSE b \in Browsers : TRUE
      e == CHOOSE e \in Emails : TRUE
  IN /\ forms = 1 /\ visits = 1 /\ users = {[id |-> 1, email |-> e]}
     /\ form[b].step = "inside"
     /\ page[b].open /\ page[b].fetch = "no" /\ ~page[b].failed
     /\ page[b].made = Keys /\ page[b].gone = {} /\ page[b].sent = {}
Started == \E q \in Requests : req[q].phase # "unsent"

Next == \/ ~Started /\ AccountsNext /\ UNCHANGED <<rateVars, limiterVars, req>>
        \/ /\ Started /\ \E b \in Browsers : RevokeKey(b)
           /\ UNCHANGED <<rateVars, limiterVars, req>>
        \/ Started /\ (Sweep \/ Tick) /\ UNCHANGED <<accountVars, limiterVars, req>>
        \/ \E q \in Requests, c \in Counters, k \in Keys :
             (Started \/ AtRest) /\ Send(q, c, k)
        \/ \E q \in Requests : Handle(q)

(* An assumption on S3, which answers every call it was sent, if only with *)
(* an error: no time limit is configured (negotiate.ts:34).                *)
Fairness == \A q \in Requests : WF_vars(S3Answers(q))
Spec == Init /\ [][Next]_vars /\ Fairness

-----------------------------------------------------------------------------
DecidedPhases == {"admitted", "waiting", "answered", "failed", "overQuota"}
Passed(c, u, from, to) ==
  {q \in Requests : /\ req[q].phase \in DecidedPhases
                    /\ req[q].counter = c /\ req[q].user = u
                    /\ from <= req[q].at /\ req[q].at <= to}

(* A span of one window's length can take in requests of two windows, but  *)
(* never the openings of both: it lets at most 2 * Limit - 1 requests of a *)
(* user through.  The window of rate-limiter.ts:23-33 is fixed, not        *)
(* sliding, and this is the price; windows that overlap by their last      *)
(* instant would make it 2 * Limit.                                        *)
AtMostTwoWindows ==
  \A c \in Counters, u \in Users, s \in 0 .. MaxTime :
    Cardinality(Passed(c, u, s, s + Window)) <= 2 * Limit - 1

(* A refused request found the budget of its user and counter spent: Limit *)
(* requests were let through in the window before it.  Refused requests,   *)
(* those without a key and those of the other counter cost nothing; the    *)
(* counter "upload" is one for negotiate and upload (negotiate.ts:92,      *)
(* upload.ts:99).                                                          *)
RefusalIsDeserved ==
  \A q \in Requests : req[q].phase = "refused" =>
    Cardinality(Passed(req[q].counter, req[q].user,
                       IF req[q].at > Window THEN req[q].at - Window ELSE 0,
                       req[q].at)) >= Limit

(* A key that is revoked when the request is sent opens nothing; only the  *)
(* requests that were under way may still run (api-key-auth.ts:17-20).     *)
RevokedIsOut ==
  \A q \in Requests : req[q].late => req[q].phase \in {"hashing", "unauthorized"}

(* S3 calls get their turn and their requests an answer, whichever calls   *)
(* before them failed: when some wait, there comes a time when none does.  *)
CallsEnd == (\E q \in Requests : req[q].phase = "waiting")
            ~> (\A q \in Requests : req[q].phase # "waiting")
=============================================================================
