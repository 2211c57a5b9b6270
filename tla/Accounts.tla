------------------------------ MODULE Accounts ------------------------------
(***************************************************************************)
(* Accounts, sessions and API keys: the server functions of                *)
(* lib/auth.functions.ts and lib/api-keys.functions.ts as the login page   *)
(* and the keys page of several browsers call them, every await a point    *)
(* where the calls of another browser run.  A browser holds one session    *)
(* cookie; a session token is the user id it carries, a password is either *)
(* right or wrong.                                                         *)
(*                                                                         *)
(* page is the keys page with the query of react-query behind it           *)
(* (external), one for the whole life of the site in a browser: it         *)
(* outlives page and session.  What asks for the list while an answer is   *)
(* under way waits for that answer; only an invalidation drops it and asks *)
(* again, and only if the page is open and has had a list before.  That    *)
(* the query forgets its list after five minutes unused is left out.       *)
(***************************************************************************)
EXTENDS Naturals, FiniteSets

CONSTANTS Browsers,
          Emails,
          Keys,     \* ids of api_keys rows; bound on the keys created
          None,     \* no cookie, no key
          MaxForms, \* bound: forms submitted
          MaxVisits \* bound: times the keys page is opened

ASSUME AccountsAssumption ==
  /\ MaxForms \in Nat /\ MaxVisits \in Nat
  /\ IsFiniteSet(Browsers) /\ None \notin 1 .. MaxForms

VARIABLES users,   \* rows of users: [id, email]
          cookie,  \* cookie[b]: the user of ds_session, or None
          form,    \* form[b]: where the login page of b stands
          keys,    \* keys[k]: the row of api_keys
          page,    \* page[b]: the keys page of b
          forms,   \* forms submitted (bound)
          visits   \* keys pages opened (bound)

accountVars == <<users, cookie, form, keys, page, forms, visits>>

UserIds == 1 .. MaxForms
NoRow == [owner |-> None, revoked |-> FALSE, used |-> FALSE]
(* list and gone are the keys and the revoked keys in the query; known, it *)
(* has had a list; failed, the last request for it was given up; by, whose *)
(* cookie went with the one under way.  made and withdrawn are history:    *)
(* the changes of this session that the page was invalidated for.          *)
Closed == [open |-> FALSE, known |-> FALSE, failed |-> FALSE, fetch |-> "no", by |-> None,
           got |-> [list |-> {}, gone |-> {}], list |-> {}, gone |-> {},
           sent |-> {}, made |-> {}, withdrawn |-> {}]
Login == [step |-> "login", mode |-> "signin", email |-> None, id |-> None]

AccountsInit ==
  /\ users = {}
  /\ cookie = [b \in Browsers |-> None]
  /\ form = [b \in Browsers |-> Login]
  /\ keys = [k \in Keys |-> NoRow]
  /\ page = [b \in Browsers |-> Closed]
  /\ forms = 0 /\ visits = 0

Registered(e) == \E u \in users : u.email = e
IdOf(e) == (CHOOSE u \in users : u.email = e).id

(* getSession: the token names a user that exists.                         *)
HasSession(b) == \E u \in users : u.id = cookie[b]

(* handleSubmit: the form is disabled until the call returns.              *)
Submit(b, m, e) ==
  /\ form[b].step = "login" /\ ~HasSession(b)
  /\ forms < MaxForms /\ forms' = forms + 1
  /\ form' = [form EXCEPT ![b] = [Login EXCEPT !.step = "select", !.mode = m,
                                               !.email = e]]
  /\ UNCHANGED <<users, cookie, keys, page, visits>>

FormTo(b, step) == form' = [form EXCEPT ![b] = [@ EXCEPT !.step = step]]
FormFails(b) == form' = [form EXCEPT ![b] = Login]

(* signUp: is the address taken?  Then hash the password.                  *)
SignUpSelect(b) ==
  /\ form[b].step = "select" /\ form[b].mode = "signup"
  /\ IF Registered(form[b].email) THEN FormFails(b) ELSE FormTo(b, "hash")
  /\ UNCHANGED <<users, cookie, keys, page, forms, visits>>

(* The insert fails on the unique index when another sign-up was faster.   *)
SignUpInsert(b) ==
  /\ form[b].step = "hash"
  /\ \/ /\ Registered(form[b].email)
        /\ FormFails(b) /\ UNCHANGED users
     \/ /\ ~Registered(form[b].email)
        /\ LET id == Cardinality(users) + 1
           IN /\ users' = users \cup {[id |-> id, email |-> form[b].email]}
              /\ form' = [form EXCEPT ![b].step = "token", ![b].id = id]
  /\ UNCHANGED <<cookie, keys, page, forms, visits>>

(* signIn: find the user, compare the password.                            *)
SignInSelect(b) ==
  /\ form[b].step = "select" /\ form[b].mode = "signin"
  /\ IF Registered(form[b].email)
     THEN form' = [form EXCEPT ![b].step = "compare",
                               ![b].id = IdOf(form[b].email)]
     ELSE FormFails(b)
  /\ UNCHANGED <<users, cookie, keys, page, forms, visits>>
SignInCompare(b) ==
  /\ form[b].step = "compare"
  /\ FormTo(b, "token") \/ FormFails(b)
  /\ UNCHANGED <<users, cookie, keys, page, forms, visits>>

SetCookie(b, id) == cookie' = [cookie EXCEPT ![b] = id]
DeleteCookie(b) == cookie' = [cookie EXCEPT ![b] = None]

(* The token is signed and set as a cookie; the page goes to the dashboard *)
(* whose beforeLoad finds the session.                                     *)
SetSession(b) ==
  /\ form[b].step = "token"
  /\ SetCookie(b, form[b].id)
  /\ FormTo(b, "inside")
  /\ UNCHANGED <<users, keys, page, forms, visits>>

(* handleSignOut: the cookie goes and the pages close; what is under way   *)
(* stays under way.                                                        *)
SignOut(b) ==
  /\ form[b].step = "inside" /\ HasSession(b)
  /\ DeleteCookie(b)
  /\ FormFails(b)
  /\ page' = [page EXCEPT ![b].open = FALSE, ![b].made = {}, ![b].withdrawn = {}]
  /\ UNCHANGED <<users, keys, forms, visits>>

-----------------------------------------------------------------------------
(* The keys page.                                                          *)
PageTo(b, p) == page' = [page EXCEPT ![b] = p]
OnlyPage == UNCHANGED <<users, cookie, form, keys, forms, visits>>

(* A request for the list, with the cookie of the moment; one that may     *)
(* wait for the answer under way.                                          *)
AskedBy(p, u) == [p EXCEPT !.fetch = "asked", !.by = u, !.got = Closed.got]
Joined(p, u) == IF p.fetch = "no" THEN AskedBy(p, u) ELSE p

(* useQuery: the page asks for the list when it opens ...                  *)
OpenKeys(b) ==
  /\ form[b].step = "inside" /\ HasSession(b) /\ ~page[b].open
  /\ visits < MaxVisits /\ visits' = visits + 1
  /\ PageTo(b, [Joined(page[b], cookie[b]) EXCEPT !.open = TRUE])
  /\ UNCHANGED <<users, cookie, form, keys, forms>>

(* ... and when the visitor comes back to the window.                      *)
Refocus(b) ==
  /\ page[b].open
  /\ PageTo(b, Joined(page[b], cookie[b]))
  /\ OnlyPage

(* A link of the header leads elsewhere.                                   *)
CloseKeys(b) ==
  /\ page[b].open
  /\ PageTo(b, [page[b] EXCEPT !.open = FALSE])
  /\ OnlyPage

KeysOf(u) == {k \in Keys : keys[k].owner = u}
Mine(b) == KeysOf(cookie[b])

(* listApiKeys: requireAuth, select; the answer reaches the page later.    *)
ListKeys(b) ==
  LET p == page[b]
      l == KeysOf(p.by)
  IN /\ p.fetch = "asked" /\ p.by # None
     /\ PageTo(b, [p EXCEPT !.fetch = "read",
                            !.got = [list |-> l, gone |-> {k \in l : keys[k].revoked}]])
     /\ OnlyPage

(* It throws, for want of a session or of the database: the query asks     *)
(* again, or gives up and keeps the list it has.                           *)
ListFails(b) ==
  /\ page[b].fetch = "asked"
  /\ \/ PageTo(b, AskedBy(page[b], cookie[b]))
     \/ PageTo(b, [page[b] EXCEPT !.fetch = "no", !.by = None, !.failed = TRUE])
  /\ OnlyPage

(* The answer arrives.                                                     *)
ShowKeys(b) ==
  /\ page[b].fetch = "read"
  /\ PageTo(b, [page[b] EXCEPT !.fetch = "no", !.by = None, !.got = Closed.got,
                               !.known = TRUE, !.failed = FALSE,
                               !.list = page[b].got.list, !.gone = page[b].got.gone])
  /\ OnlyPage

(* Mutant: an answer under way is taken for the fresh one.                 *)
AskedOnce(p, u) == IF p.open THEN Joined(p, u) ELSE p

(* invalidateQueries: an open page asks again.  If it is waiting for its   *)
(* first list, it goes on waiting and the invalidation is forgotten.       *)
Refetches(p) == p.open /\ (p.known \/ p.fetch = "no")
Invalidated(p, u) == IF Refetches(p) THEN AskedBy(p, u) ELSE p

(* createApiKey: requireAuth, hash, insert.  The Enter key sends the form  *)
(* again while an answer is pending.                                       *)
CreateKey(b) ==
  /\ page[b].open
  /\ \E k \in Keys :
       /\ keys[k].owner = None
       /\ keys' = [keys EXCEPT ![k].owner = cookie[b]]
       /\ page' = [page EXCEPT ![b].sent = @ \cup {k}]
  /\ UNCHANGED <<users, cookie, form, forms, visits>>

(* The rows of the table with a revoke button.                             *)
Revocable(b) == page[b].list \ page[b].gone

(* revokeApiKey.                                                           *)
RevokeKey(b) ==
  /\ page[b].open
  /\ \E k \in Revocable(b) :
       /\ keys' = [keys EXCEPT ![k].revoked = TRUE]
       /\ page' = [page EXCEPT ![b].sent = @ \cup {k}]
  /\ UNCHANGED <<users, cookie, form, forms, visits>>

(* onSuccess of either: the query is invalidated.                          *)
ChangeAnswered(b) ==
  /\ \E k \in page[b].sent :
       LET seen == IF Refetches(page[b]) THEN {k} ELSE {}
       IN PageTo(b, [Invalidated(page[b], cookie[b]) EXCEPT
                       !.sent = @ \ {k},
                       !.made = @ \cup seen,
                       !.withdrawn = @ \cup {j \in seen : keys[j].revoked}])
  /\ OnlyPage

AccountsNext ==
  \E b \in Browsers :
    \/ \E m \in {"signin", "signup"}, e \in Emails : Submit(b, m, e)
    \/ SignUpSelect(b) \/ SignUpInsert(b)
    \/ SignInSelect(b) \/ SignInCompare(b)
    \/ SetSession(b) \/ SignOut(b)
    \/ OpenKeys(b) \/ Refocus(b) \/ CloseKeys(b)
    \/ ListKeys(b) \/ ListFails(b) \/ ShowKeys(b)
    \/ CreateKey(b) \/ RevokeKey(b) \/ ChangeAnswered(b)

-----------------------------------------------------------------------------
(* What a browser has changed, it shows: when no answer is under way and   *)
(* the last one was not an error, the open page lists every key it made    *)
(* under this account and every key it has seen revoked as revoked,        *)
(* whatever answer was on its way when it made the change, and whoever     *)
(* asked for it.  Excepted are changes that are answered while the page    *)
(* waits for its first list or is closed (keys.tsx:26, 31).                *)
OwnChangesShow ==
  \A b \in Browsers : page[b].open /\ page[b].fetch = "no" /\ ~page[b].failed =>
    \A k \in Mine(b) : /\ k \in page[b].made => k \in page[b].list
                       /\ k \in page[b].withdrawn => k \in page[b].gone
=============================================================================
