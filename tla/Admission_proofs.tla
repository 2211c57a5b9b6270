--------------------------- MODULE Admission_proofs ---------------------------
(***************************************************************************)
(* Accounts, keys and admission for any browsers, keys, requests and       *)
(* windows: the keys page shows what its browser did, a revoked key opens  *)
(* nothing, and the rate limit refuses and admits as many as it says.      *)
(***************************************************************************)
EXTENDS Admission, FiniteSetTheorems, SequenceTheorems, TLAPS

Owners == UserIds \cup {None}
Steps == {"login", "select", "hash", "compare", "token", "inside"}
Forms == [step : Steps, mode : {"signin", "signup"}, email : Emails \cup {None}, id : Owners]
Lists == [list : SUBSET Keys, gone : SUBSET Keys]
Pages == [open : BOOLEAN, known : BOOLEAN, failed : BOOLEAN,
          fetch : {"no", "asked", "read"}, by : Owners, got : Lists,
          list : SUBSET Keys, gone : SUBSET Keys, sent : SUBSET Keys,
          made : SUBSET Keys, withdrawn : SUBSET Keys]
Rows == [owner : Owners, revoked : BOOLEAN, used : BOOLEAN]

AccountsTyped ==
  /\ users \in SUBSET [id : UserIds, email : Emails \cup {None}] /\ IsFiniteSet(users)
  /\ cookie \in [Browsers -> Owners] /\ form \in [Browsers -> Forms]
  /\ keys \in [Keys -> Rows] /\ page \in [Browsers -> Pages]
  /\ forms \in 0 .. MaxForms /\ visits \in 0 .. MaxVisits

(* Every account has come from a form, and those that may still make one   *)
(* are counted too, so that the ids suffice.                               *)
Signing == {b \in Browsers : form[b].step \in {"select", "hash"}}
IdsSuffice == Cardinality(users) + Cardinality(Signing) <= forms
FormsInv ==
  \A b \in Browsers :
    /\ form[b].step \in {"compare", "token"} => form[b].id # None
    /\ page[b].open => form[b].step = "inside" /\ cookie[b] # None
    /\ page[b].made \cup page[b].withdrawn # {} => form[b].step = "inside"

(* The keys a page knows of exist and those it calls withdrawn are         *)
(* revoked.  A page with changes to show waits for an answer to its own    *)
(* cookie only, and what it shows, or is about to, has these changes.      *)
Exist(ks) == {k \in Keys : ks[k].owner # None}
Shows(ks, p, u, l) ==
  \A k \in Keys : ks[k].owner = u => /\ k \in p.made => k \in l.list
                                     /\ k \in p.withdrawn => k \in l.gone
PageOk(ks, p, u) ==
  /\ p.sent \cup p.made \cup p.withdrawn \cup p.list \cup p.got.list \subseteq Exist(ks)
  /\ \A k \in p.withdrawn : ks[k].revoked
  /\ p.fetch # "no" /\ p.made \cup p.withdrawn # {} => p.by = u
  /\ p.fetch = "no" /\ ~p.failed => Shows(ks, p, u, p)
  /\ p.fetch = "read" => Shows(ks, p, u, p.got)
PagesInv == \A b \in Browsers : PageOk(keys, page[b], cookie[b])

AccountsInv == AccountsTyped /\ IdsSuffice /\ FormsInv /\ PagesInv

-----------------------------------------------------------------------------
Phases == {"unsent", "hashing", "unauthorized", "found", "refused"} \cup DecidedPhases
Entries == [used : Nat, expiresAt : Nat]
Reqs == [phase : Phases, counter : Counters, key : Keys \cup {None},
         user : UserIds \cup {0}, at : Nat, late : BOOLEAN]
RequestsTyped ==
  /\ req \in [Requests -> Reqs] /\ now \in Nat \ {0}
  /\ requests \in [Counters -> [Users -> Entries]] /\ bytes \in [Users -> Entries]

KeysInv ==
  \A q \in Requests :
    /\ req[q].phase # "unsent" => req[q].key \in Keys /\ keys[req[q].key].owner # None
    /\ req[q].phase \notin {"unsent", "hashing", "unauthorized"} => req[q].user \in Users
    /\ req[q].late => /\ req[q].phase \in {"hashing", "unauthorized"}
                      /\ keys[req[q].key].revoked

(* T is the start of the last window: it is the one of the entry, or it is *)
(* over.  What passed before T is in an earlier window, and a span that    *)
(* reaches T begins after the opening of that window.                      *)
Count(c, u, from, to) == Cardinality(Passed(c, u, from, to))
Windowed(c, u, T) ==
  LET e == requests[c][u]
  IN  /\ T <= now /\ e.used <= Limit
      /\ Expired(e) => T + Window < now
      /\ ~Expired(e) => /\ T + Window = e.expiresAt /\ Count(c, u, T, now) = e.used
                        /\ Count(c, u, T + 1, now) < e.used
      /\ Count(c, u, T, now) <= Limit /\ Count(c, u, T + 1, now) <= Limit - 1
      /\ \A q \in Passed(c, u, T, now) : req[q].at <= T + Window
      /\ \A s \in Int : s >= T - Window => Count(c, u, s, T - 1) <= Limit - 1
      /\ \A s \in Int : Count(c, u, s, s + Window) <= 2 * Limit - 1
WindowsInv == \A c \in Counters, u \in Users : \E T \in Int : Windowed(c, u, T)
NotAhead == \A q \in Requests : req[q].at <= now


(* The calls at S3 are counted, and none waits while a slot is free.       *)
QueueInv ==
  /\ queue \in Seq(Requests) /\ running \in SUBSET Requests
  /\ active = Cardinality(running) /\ active <= MaxConcurrent
  /\ queue # <<>> => active = MaxConcurrent
  /\ \A i \in 1 .. Len(queue) : /\ queue[i] \notin running
                                /\ \A j \in 1 .. Len(queue) : queue[i] = queue[j] => i = j
AllWait ==
  \A q \in Requests : q \in running \/ (\E i \in 1 .. Len(queue) : queue[i] = q)
    => req[q].phase = "waiting"
CallsAreLimited == active = Cardinality(running) /\ active <= MaxConcurrent

TypeOK == AccountsTyped /\ RequestsTyped /\ queue \in Seq(Requests) /\ running \in SUBSET Requests
IInv == /\ AccountsInv /\ RequestsTyped /\ KeysInv /\ WindowsInv /\ NotAhead
        /\ RefusalIsDeserved /\ QueueInv /\ AllWait

-----------------------------------------------------------------------------
(* The forms                                                               *)
LEMMA SigningCounts ==
  /\ IsFiniteSet(Signing) /\ Cardinality(Signing) \in Nat
  /\ IsFiniteSet(Signing') /\ Cardinality(Signing') \in Nat
<1>1. Signing \subseteq Browsers /\ Signing' \subseteq Browsers
  BY DEF Signing
<1>2. QED
  BY <1>1, AccountsAssumption, FS_Subset, FS_CardinalityType

(* Keys are made and revoked, never unmade: a page that does not change    *)
(* itself, under the same account, stays right.                            *)
Grow(ks, kt) ==
  /\ kt \in [Keys -> Rows]
  /\ \A k \in Keys : /\ ks[k].owner # None => kt[k].owner = ks[k].owner
                     /\ ks[k].revoked => kt[k].revoked
KeysGrow == Grow(keys, keys')
LEMMA OkGrows ==
  ASSUME NEW ks, NEW kt, Grow(ks, kt), NEW p, NEW u, PageOk(ks, p, u)
  PROVE  PageOk(kt, p, u)
<1>1. Exist(ks) \subseteq Exist(kt)
  BY DEF Exist, Grow
<1>2. p.made \cup p.withdrawn \subseteq Exist(ks)
  BY DEF PageOk
<1>3. \A k \in p.made \cup p.withdrawn : k \in Keys /\ kt[k].owner = ks[k].owner
  BY <1>2 DEF Exist, Grow
<1>4. \A l : Shows(ks, p, u, l) => Shows(kt, p, u, l)
  BY <1>3 DEF Shows
<1>5. \A k \in p.withdrawn : kt[k].revoked
  BY <1>3 DEF PageOk, Grow
<1>6. QED
  BY <1>1, <1>4, <1>5 DEF PageOk

(* A page without changes to show is right under any account.              *)
LEMMA OkForAny ==
  ASSUME NEW ks, NEW p, NEW u, NEW v, PageOk(ks, p, u), p.made = {}, p.withdrawn = {}
  PROVE  PageOk(ks, p, v)
BY DEF PageOk, Shows

LEMMA NothingGrows == keys' = keys /\ AccountsTyped => KeysGrow
BY DEF KeysGrow, Grow, AccountsTyped

(* A step of a form.                                                       *)
LEMMA FormKeeps ==
  ASSUME AccountsInv, NEW b \in Browsers, NEW f \in Forms, form' = [form EXCEPT ![b] = f],
         UNCHANGED <<users, cookie, keys, page, visits>>, form[b].step # "inside",
         forms' \in 0 .. MaxForms,
         \/ forms' = forms + 1
         \/ forms' = forms /\ (f.step \in {"select", "hash"} => b \in Signing),
         f.step \in {"compare", "token"} => f.id # None
  PROVE  AccountsInv'
<1>1. AccountsTyped'
  BY DEF AccountsInv, AccountsTyped
<1>2. \A c \in Browsers : c # b => form'[c] = form[c]
  BY DEF AccountsInv, AccountsTyped
<1>3. form'[b] = f
  BY DEF AccountsInv, AccountsTyped
<1>4. FormsInv'
  BY <1>2, <1>3 DEF AccountsInv, FormsInv
<1>5. IdsSuffice'
  <2>1. Signing' \subseteq Signing \cup {b}
    BY <1>2 DEF Signing
  <2>2. forms' = forms => Signing' \subseteq Signing
    BY <1>2, <1>3, <2>1, AccountsAssumption DEF Signing, AccountsInv, AccountsTyped
  <2>3. /\ IsFiniteSet(Signing \cup {b})
        /\ Cardinality(Signing \cup {b}) \in Nat
        /\ Cardinality(Signing \cup {b}) <= Cardinality(Signing) + 1
    <3>1. CASE b \in Signing
      <4>1. Signing \cup {b} = Signing
        BY <3>1
      <4>2. QED
        BY <4>1, SigningCounts
    <3>2. CASE b \notin Signing
      <4>1. /\ IsFiniteSet(Signing \cup {b})
            /\ Cardinality(Signing \cup {b}) = Cardinality(Signing) + 1
        BY <3>2, SigningCounts, FS_AddElement
      <4>2. QED
        BY <4>1, SigningCounts
    <3>3. QED
      BY <3>1, <3>2
  <2>4. Cardinality(Signing') <= Cardinality(Signing) + 1
    BY <2>1, <2>3, SigningCounts, FS_Subset
  <2>5. forms' = forms => Cardinality(Signing') <= Cardinality(Signing)
    BY <2>2, SigningCounts, FS_Subset
  <2>6. Cardinality(users) \in Nat /\ users' = users
    BY FS_CardinalityType DEF AccountsInv, AccountsTyped
  <2>7. QED
    BY <2>4, <2>5, <2>6, SigningCounts, AccountsAssumption DEF AccountsInv, AccountsTyped, IdsSuffice
<1>6. PagesInv'
  <2>1. KeysGrow
    BY NothingGrows DEF AccountsInv
  <2>2. QED
    BY <2>1 DEF AccountsInv, PagesInv
<1>7. QED
  BY <1>1, <1>4, <1>5, <1>6 DEF AccountsInv

LEMMA SubmitKeeps ==
  ASSUME AccountsInv, NEW b \in Browsers, NEW m \in {"signin", "signup"}, NEW e \in Emails,
         Submit(b, m, e)
  PROVE  AccountsInv'
<1> DEFINE f == [Login EXCEPT !.step = "select", !.mode = m, !.email = e]
<1>1. f \in Forms /\ f.step = "select"
  BY DEF Login, Forms, Steps, Owners
<1>2. forms' = forms + 1 /\ forms' \in 0 .. MaxForms
  BY AccountsAssumption DEF Submit, AccountsInv, AccountsTyped
<1>3. form[b].step = "login" /\ form' = [form EXCEPT ![b] = f]
      /\ UNCHANGED <<users, cookie, keys, page, visits>>
  BY DEF Submit
<1> HIDE DEF f
<1>4. QED
  BY <1>1, <1>2, <1>3, FormKeeps

(* What a form becomes.                                                    *)
LEMMA FormBecomes == Login \in Forms /\ Login.step = "login"
BY DEF Login, Forms, Steps, Owners
LEMMA FormGoesTo ==
  ASSUME AccountsTyped, NEW b \in Browsers, NEW step \in Steps
  PROVE  /\ [form[b] EXCEPT !.step = step] \in Forms
         /\ [form[b] EXCEPT !.step = step].step = step
         /\ [form[b] EXCEPT !.step = step].id = form[b].id
<1>1. form[b] \in Forms
  BY DEF AccountsTyped
<1>2. QED
  BY <1>1 DEF Forms

LEMMA SignUpSelectKeeps ==
  ASSUME AccountsInv, NEW b \in Browsers, SignUpSelect(b)
  PROVE  AccountsInv'
<1>1. /\ form[b].step = "select"
      /\ UNCHANGED <<users, cookie, keys, page, visits>> /\ forms' = forms
      /\ \/ form' = [form EXCEPT ![b] = Login]
         \/ form' = [form EXCEPT ![b] = [form[b] EXCEPT !.step = "hash"]]
  BY DEF SignUpSelect, FormFails, FormTo
<1>2. b \in Signing /\ forms \in 0 .. MaxForms
  BY <1>1 DEF Signing, AccountsInv, AccountsTyped
<1>3. CASE form' = [form EXCEPT ![b] = Login]
  BY <1>1, <1>2, <1>3, FormBecomes, FormKeeps DEF AccountsInv
<1>4. CASE form' = [form EXCEPT ![b] = [form[b] EXCEPT !.step = "hash"]]
  <2> DEFINE f == [form[b] EXCEPT !.step = "hash"]
  <2>1. f \in Forms /\ f.step = "hash"
    <3>1. "hash" \in Steps
      BY DEF Steps
    <3>2. QED
      BY <3>1, FormGoesTo DEF AccountsInv
  <2>2. form' = [form EXCEPT ![b] = f]
    BY <1>4
  <2> HIDE DEF f
  <2>3. QED
    BY <1>1, <1>2, <2>1, <2>2, FormKeeps
<1>5. QED
  BY <1>1, <1>3, <1>4

LEMMA SignInSelectKeeps ==
  ASSUME AccountsInv, NEW b \in Browsers, SignInSelect(b)
  PROVE  AccountsInv'
<1>1. /\ form[b].step = "select"
      /\ UNCHANGED <<users, cookie, keys, page, visits>> /\ forms' = forms
      /\ \/ form' = [form EXCEPT ![b] = Login]
         \/ /\ Registered(form[b].email)
            /\ form' = [form EXCEPT ![b] = [form[b] EXCEPT !.step = "compare",
                                                           !.id = IdOf(form[b].email)]]
  BY DEF SignInSelect, FormFails
<1>2. b \in Signing /\ forms \in 0 .. MaxForms
  BY <1>1 DEF Signing, AccountsInv, AccountsTyped
<1>3. CASE form' = [form EXCEPT ![b] = Login]
  BY <1>1, <1>2, <1>3, FormBecomes, FormKeeps DEF AccountsInv
<1>4. CASE /\ Registered(form[b].email)
           /\ form' = [form EXCEPT ![b] = [form[b] EXCEPT !.step = "compare",
                                                          !.id = IdOf(form[b].email)]]
  <2> DEFINE id == IdOf(form[b].email)
             f == [form[b] EXCEPT !.step = "compare", !.id = id]
  <2>1. id \in UserIds
    <3>1. PICK v \in users : v.email = form[b].email
      BY <1>4 DEF Registered
    <3>2. (CHOOSE u \in users : u.email = form[b].email) \in users
      BY <3>1
    <3>3. QED
      BY <3>2 DEF IdOf, AccountsInv, AccountsTyped
  <2>2. id \in Owners /\ id # None
    BY <2>1, AccountsAssumption DEF Owners, UserIds
  <2>3. form' = [form EXCEPT ![b] = f]
    BY <1>4
  <2> HIDE DEF id
  <2>4. f \in Forms /\ f.step = "compare" /\ f.id = id
    <3>1. form[b] \in Forms
      BY DEF AccountsInv, AccountsTyped
    <3>2. QED
      BY <2>2, <3>1 DEF Forms, Steps
  <2> HIDE DEF f
  <2>5. QED
    BY <1>1, <1>2, <2>2, <2>3, <2>4, FormKeeps
<1>5. QED
  BY <1>1, <1>3, <1>4

LEMMA SignInCompareKeeps ==
  ASSUME AccountsInv, NEW b \in Browsers, SignInCompare(b)
  PROVE  AccountsInv'
<1>1. /\ form[b].step = "compare" /\ form[b].id # None
      /\ UNCHANGED <<users, cookie, keys, page, visits>> /\ forms' = forms
      /\ \/ form' = [form EXCEPT ![b] = Login]
         \/ form' = [form EXCEPT ![b] = [form[b] EXCEPT !.step = "token"]]
  BY DEF SignInCompare, FormFails, FormTo, AccountsInv, FormsInv
<1>2. forms \in 0 .. MaxForms
  BY <1>1 DEF AccountsInv, AccountsTyped
<1>3. CASE form' = [form EXCEPT ![b] = Login]
  BY <1>1, <1>2, <1>3, FormBecomes, FormKeeps DEF AccountsInv
<1>4. CASE form' = [form EXCEPT ![b] = [form[b] EXCEPT !.step = "token"]]
  <2> DEFINE f == [form[b] EXCEPT !.step = "token"]
  <2>1. f \in Forms /\ f.step = "token" /\ f.id # None
    <3>1. "token" \in Steps
      BY DEF Steps
    <3>2. QED
      BY <1>1, <3>1, FormGoesTo DEF AccountsInv
  <2>2. form' = [form EXCEPT ![b] = f]
    BY <1>4
  <2> HIDE DEF f
  <2>3. QED
    BY <1>1, <1>2, <2>1, <2>2, FormKeeps
<1>5. QED
  BY <1>1, <1>3, <1>4

(* The insert makes the row of the next id, which the form paid for.       *)
LEMMA SignUpInsertKeeps ==
  ASSUME AccountsInv, NEW b \in Browsers, SignUpInsert(b)
  PROVE  AccountsInv'
<1> DEFINE id == Cardinality(users) + 1
           u == [id |-> id, email |-> form[b].email]
           f == [form[b] EXCEPT !.step = "token", !.id = id]
<1>1. /\ form[b].step = "hash" /\ UNCHANGED <<cookie, keys, page, forms, visits>>
      /\ \/ form' = [form EXCEPT ![b] = Login] /\ users' = users
         \/ /\ ~Registered(form[b].email) /\ users' = users \cup {u}
            /\ form' = [form EXCEPT ![b] = f]
  BY DEF SignUpInsert, FormFails
<1>2. /\ b \in Signing /\ forms \in Nat /\ forms <= MaxForms /\ MaxForms \in Nat
      /\ IsFiniteSet(users) /\ Cardinality(users) \in Nat
      /\ AccountsTyped /\ form[b] \in Forms
  BY <1>1, FS_CardinalityType, AccountsAssumption DEF Signing, AccountsInv, AccountsTyped
<1>3. CASE form' = [form EXCEPT ![b] = Login] /\ users' = users
  BY <1>1, <1>2, <1>3, FormBecomes, FormKeeps DEF AccountsInv, AccountsTyped
<1>4. CASE /\ ~Registered(form[b].email) /\ users' = users \cup {u}
           /\ form' = [form EXCEPT ![b] = f]
  <2>1. /\ IsFiniteSet(Signing \ {b}) /\ Cardinality(Signing \ {b}) = Cardinality(Signing) - 1
    BY <1>2, SigningCounts, FS_RemoveElement
  <2>2. Cardinality(users) + Cardinality(Signing) <= forms
    BY DEF AccountsInv, IdsSuffice
  <2>3. id \in UserIds
    <3>1. Cardinality(Signing) >= 1
      <4>1. Cardinality(Signing \ {b}) \in Nat
        BY <2>1, FS_CardinalityType
      <4>2. QED
        BY <2>1, <4>1, SigningCounts
    <3>2. QED
      BY <1>2, <2>2, <3>1, SigningCounts DEF UserIds
  <2>4. id \in Owners /\ id # None
    BY <2>3, AccountsAssumption DEF Owners, UserIds
  <2>5. u \in [id : UserIds, email : Emails \cup {None}] /\ u \notin users
    BY <1>2, <1>4, <2>3 DEF Forms, Registered
  <2>6. IsFiniteSet(users') /\ Cardinality(users') = Cardinality(users) + 1
    BY <1>2, <1>4, <2>5, FS_AddElement
  <2> HIDE DEF id, u
  <2>7. f \in Forms /\ f.step = "token" /\ f.id = id
    BY <1>2, <2>4 DEF Forms, Steps
  <2> HIDE DEF f
  <2>8. AccountsTyped'
    BY <1>1, <1>2, <1>4, <2>5, <2>6, <2>7 DEF AccountsTyped
  <2>9. \A c \in Browsers : c # b => form'[c] = form[c]
    BY <1>2, <1>4 DEF AccountsTyped
  <2>10. form'[b] = f
    BY <1>2, <1>4 DEF AccountsTyped
  <2>11. IdsSuffice'
    <3>1. Signing' = Signing \ {b}
      BY <2>7, <2>9, <2>10 DEF Signing
    <3>2. QED
      BY <1>1, <1>2, <2>1, <2>2, <2>6, <3>1, SigningCounts DEF IdsSuffice
  <2>12. FormsInv'
    BY <1>1, <2>4, <2>7, <2>9, <2>10 DEF AccountsInv, FormsInv
  <2>13. PagesInv'
    BY <1>1 DEF AccountsInv, PagesInv
  <2>14. QED
    BY <2>8, <2>11, <2>12, <2>13 DEF AccountsInv
<1>5. QED
  BY <1>1, <1>3, <1>4

(* The cookie of a browser changes while its page has nothing to show.     *)
LEMMA CookieKeeps ==
  ASSUME AccountsInv, NEW b \in Browsers, NEW i \in Owners, NEW f \in Forms, NEW p \in Pages,
         cookie' = [cookie EXCEPT ![b] = i], form' = [form EXCEPT ![b] = f],
         f.step \in {"login", "inside"}, UNCHANGED <<users, keys, forms, visits>>,
         page' = [page EXCEPT ![b] = p], PageOk(keys, p, i),
         p.made = {}, p.withdrawn = {}, ~p.open
  PROVE  AccountsInv'
<1>1. AccountsTyped' /\ AccountsTyped
  BY DEF AccountsInv, AccountsTyped
<1>2. /\ \A c \in Browsers : c # b => /\ form'[c] = form[c] /\ cookie'[c] = cookie[c]
                                      /\ page'[c] = page[c]
      /\ form'[b] = f /\ page'[b] = p /\ cookie'[b] = i
  BY DEF AccountsInv, AccountsTyped
<1>3. FormsInv'
  BY <1>2 DEF AccountsInv, FormsInv
<1>4. IdsSuffice'
  <2>1. Signing' \subseteq Signing
    BY <1>2 DEF Signing
  <2>2. Cardinality(Signing') <= Cardinality(Signing)
    BY <2>1, SigningCounts, FS_Subset
  <2>3. Cardinality(users) \in Nat
    BY <1>1, FS_CardinalityType DEF AccountsTyped
  <2>4. QED
    BY <2>2, <2>3, SigningCounts, <1>1 DEF AccountsInv, AccountsTyped, IdsSuffice
<1>5. PagesInv'
  BY <1>2 DEF AccountsInv, PagesInv
<1>6. QED
  BY <1>1, <1>3, <1>4, <1>5 DEF AccountsInv

LEMMA SetSessionKeeps ==
  ASSUME AccountsInv, NEW b \in Browsers, SetSession(b)
  PROVE  AccountsInv'
<1> DEFINE f == [form[b] EXCEPT !.step = "inside"]
           i == form[b].id
           p == page[b]
<1>1. /\ form[b].step = "token" /\ cookie' = [cookie EXCEPT ![b] = i]
      /\ form' = [form EXCEPT ![b] = f] /\ UNCHANGED <<users, keys, page, forms, visits>>
  BY DEF SetSession, SetCookie, FormTo
<1>2. /\ p \in Pages /\ PageOk(keys, p, cookie[b]) /\ i \in Owners
      /\ page \in [Browsers -> Pages]
  BY DEF AccountsInv, AccountsTyped, PagesInv, Forms
<1>3. ~p.open /\ p.made \cup p.withdrawn = {}
  BY <1>1 DEF AccountsInv, FormsInv
<1>4. f \in Forms /\ f.step = "inside"
  <2>1. "inside" \in Steps
    BY DEF Steps
  <2>2. QED
    BY <2>1, FormGoesTo DEF AccountsInv
<1>5. page' = [page EXCEPT ![b] = p]
  BY <1>1, <1>2
<1> HIDE DEF f, i, p
<1>6. p.made = {} /\ p.withdrawn = {}
  BY <1>3
<1>7. PageOk(keys, p, i)
  BY <1>2, <1>6, OkForAny
<1>8. QED
  BY <1>1, <1>2, <1>3, <1>4, <1>5, <1>6, <1>7, CookieKeeps

LEMMA SignOutKeeps ==
  ASSUME AccountsInv, NEW b \in Browsers, SignOut(b)
  PROVE  AccountsInv'
<1> DEFINE p == [page[b] EXCEPT !.open = FALSE, !.made = {}, !.withdrawn = {}]
<1>1. /\ cookie' = [cookie EXCEPT ![b] = None] /\ form' = [form EXCEPT ![b] = Login]
      /\ page' = [page EXCEPT ![b] = p] /\ UNCHANGED <<users, keys, forms, visits>>
  BY DEF SignOut, DeleteCookie, FormFails
<1>2. page[b] \in Pages /\ PageOk(keys, page[b], cookie[b])
  BY DEF AccountsInv, AccountsTyped, PagesInv
<1>3. /\ p \in Pages /\ ~p.open /\ p.made = {} /\ p.withdrawn = {}
      /\ p.sent = page[b].sent /\ p.list = page[b].list /\ p.got = page[b].got
  BY <1>2 DEF Pages
<1> HIDE DEF p
<1>4. PageOk(keys, p, None)
  BY <1>2, <1>3 DEF PageOk, Shows
<1>5. None \in Owners
  BY DEF Owners
<1>6. QED
  BY <1>1, <1>3, <1>4, <1>5, FormBecomes, CookieKeeps

-----------------------------------------------------------------------------
(* The keys page                                                           *)
LEMMA PageKeeps ==
  ASSUME AccountsInv, NEW b \in Browsers, NEW p \in Pages, PageTo(b, p),
         UNCHANGED <<users, cookie, form, forms>>, visits' \in 0 .. MaxVisits,
         KeysGrow, PageOk(keys', p, cookie[b]),
         p.open => form[b].step = "inside" /\ cookie[b] # None,
         p.made \cup p.withdrawn # {} => form[b].step = "inside"
  PROVE  AccountsInv'
<1>1. AccountsTyped'
  BY DEF AccountsInv, AccountsTyped, KeysGrow, Grow, PageTo
<1>2. page'[b] = p /\ \A c \in Browsers : c # b => page'[c] = page[c]
  BY DEF AccountsInv, AccountsTyped, PageTo
<1>3. FormsInv'
  BY <1>2 DEF AccountsInv, FormsInv
<1>4. IdsSuffice'
  <2>1. Signing' = Signing
    BY DEF Signing
  <2>2. QED
    BY <2>1 DEF AccountsInv, IdsSuffice
<1>5. PagesInv'
  <2>1. \A c \in Browsers : c # b => PageOk(keys', page[c], cookie[c])
    BY OkGrows DEF AccountsInv, PagesInv, KeysGrow
  <2>2. QED
    BY <1>2, <2>1 DEF PagesInv
<1>6. QED
  BY <1>1, <1>3, <1>4, <1>5 DEF AccountsInv

(* A page that changes, and nothing else does.                             *)
LEMMA OnlyPageKeeps ==
  ASSUME AccountsInv, NEW b \in Browsers, NEW p \in Pages, PageTo(b, p), OnlyPage,
         PageOk(keys, p, cookie[b]), p.open => page[b].open,
         p.made \cup p.withdrawn # {} => page[b].open \/ page[b].made \cup page[b].withdrawn # {}
  PROVE  AccountsInv'
<1>1. /\ page[b].open => form[b].step = "inside" /\ cookie[b] # None
      /\ page[b].made \cup page[b].withdrawn # {} => form[b].step = "inside"
      /\ visits \in 0 .. MaxVisits
  BY DEF AccountsInv, AccountsTyped, FormsInv
<1>2. KeysGrow /\ UNCHANGED <<users, cookie, form, keys, forms, visits>>
  BY NothingGrows DEF AccountsInv, OnlyPage
<1>3. QED
  BY <1>1, <1>2, PageKeeps

LEMMA PageIs ==
  ASSUME AccountsInv, NEW b \in Browsers
  PROVE  /\ page \in [Browsers -> Pages] /\ page[b] \in Pages /\ cookie[b] \in Owners
         /\ PageOk(keys, page[b], cookie[b])
         /\ page[b].open => form[b].step = "inside" /\ cookie[b] # None
         /\ page[b].made \cup page[b].withdrawn # {} => form[b].step = "inside"
         /\ visits \in 0 .. MaxVisits
         /\ HasSession(b) => cookie[b] # None
         /\ \A k \in Keys : keys[k] \in Rows
<1>1. HasSession(b) => cookie[b] # None
  BY AccountsAssumption DEF AccountsInv, AccountsTyped, HasSession, UserIds
<1>2. QED
  BY <1>1 DEF AccountsInv, AccountsTyped, FormsInv, PagesInv

(* A request with the cookie of the moment is right for it.                *)
LEMMA AskingIsOk ==
  ASSUME NEW ks, NEW p \in Pages, NEW u \in Owners, PageOk(ks, p, u)
  PROVE  /\ AskedBy(p, u) \in Pages /\ PageOk(ks, AskedBy(p, u), u)
         /\ AskedBy(p, u).fetch = "asked" /\ AskedBy(p, u).by = u
         /\ AskedBy(p, u).open = p.open /\ AskedBy(p, u).got.list = {}
         /\ AskedBy(p, u).made = p.made /\ AskedBy(p, u).withdrawn = p.withdrawn
         /\ AskedBy(p, u).sent = p.sent
<1> DEFINE g == Closed.got
           a == [p EXCEPT !.fetch = "asked", !.by = u, !.got = g]
<1>1. g \in Lists /\ g.list = {}
  BY DEF Closed, Lists
<1> HIDE DEF g
<1>2. /\ a \in Pages /\ a.fetch = "asked" /\ a.by = u /\ a.open = p.open /\ a.got = g
      /\ a.made = p.made /\ a.withdrawn = p.withdrawn /\ a.sent = p.sent /\ a.list = p.list
  BY <1>1 DEF Pages
<1>3. AskedBy(p, u) = a
  BY DEF AskedBy, g
<1> HIDE DEF a
<1>4. PageOk(ks, a, u)
  BY <1>1, <1>2 DEF PageOk
<1>5. QED
  BY <1>1, <1>2, <1>3, <1>4

LEMMA JoiningIsOk ==
  ASSUME NEW ks, NEW p \in Pages, NEW u \in Owners, PageOk(ks, p, u)
  PROVE  /\ Joined(p, u) \in Pages /\ PageOk(ks, Joined(p, u), u)
         /\ Joined(p, u).open = p.open /\ Joined(p, u).made = p.made
         /\ Joined(p, u).withdrawn = p.withdrawn
BY AskingIsOk DEF Joined

(* Opening and closing do not touch what is shown.                         *)
LEMMA OpensOk ==
  ASSUME NEW ks, NEW p \in Pages, NEW u, PageOk(ks, p, u), NEW o \in BOOLEAN
  PROVE  /\ [p EXCEPT !.open = o] \in Pages /\ PageOk(ks, [p EXCEPT !.open = o], u)
         /\ [p EXCEPT !.open = o].open = o /\ [p EXCEPT !.open = o].made = p.made
         /\ [p EXCEPT !.open = o].withdrawn = p.withdrawn
<1> DEFINE q == [p EXCEPT !.open = o]
<1>1. /\ q \in Pages /\ q.open = o /\ q.made = p.made /\ q.withdrawn = p.withdrawn
      /\ q.sent = p.sent /\ q.list = p.list /\ q.gone = p.gone /\ q.got = p.got
      /\ q.fetch = p.fetch /\ q.by = p.by /\ q.failed = p.failed
  BY DEF Pages
<1> HIDE DEF q
<1>2. PageOk(ks, q, u)
  BY <1>1 DEF PageOk, Shows
<1>3. QED
  BY <1>1, <1>2 DEF q

LEMMA OpenKeysKeeps ==
  ASSUME AccountsInv, NEW b \in Browsers, OpenKeys(b)
  PROVE  AccountsInv'
<1> DEFINE j == Joined(page[b], cookie[b])
           p == [j EXCEPT !.open = TRUE]
<1>1. /\ form[b].step = "inside" /\ HasSession(b) /\ PageTo(b, p)
      /\ visits' = visits + 1 /\ visits < MaxVisits
      /\ UNCHANGED <<users, cookie, form, keys, forms>>
  BY DEF OpenKeys
<1>2. j \in Pages /\ PageOk(keys, j, cookie[b])
  BY PageIs, JoiningIsOk
<1> HIDE DEF j
<1>3. p \in Pages /\ PageOk(keys, p, cookie[b])
  BY <1>2, OpensOk
<1>4. KeysGrow /\ visits' \in 0 .. MaxVisits /\ cookie[b] # None
  BY <1>1, PageIs, NothingGrows, AccountsAssumption DEF AccountsInv
<1> HIDE DEF p
<1>5. QED
  BY <1>1, <1>3, <1>4, PageKeeps

LEMMA RefocusKeeps ==
  ASSUME AccountsInv, NEW b \in Browsers, Refocus(b)
  PROVE  AccountsInv'
<1> DEFINE p == Joined(page[b], cookie[b])
<1>1. page[b].open /\ PageTo(b, p) /\ OnlyPage
  BY DEF Refocus
<1>2. p \in Pages /\ PageOk(keys, p, cookie[b])
  BY PageIs, JoiningIsOk
<1> HIDE DEF p
<1>3. QED
  BY <1>1, <1>2, OnlyPageKeeps

LEMMA CloseKeysKeeps ==
  ASSUME AccountsInv, NEW b \in Browsers, CloseKeys(b)
  PROVE  AccountsInv'
<1> DEFINE p == [page[b] EXCEPT !.open = FALSE]
<1>1. page[b].open /\ PageTo(b, p) /\ OnlyPage
  BY DEF CloseKeys
<1>2. p \in Pages /\ PageOk(keys, p, cookie[b])
  BY PageIs, OpensOk
<1> HIDE DEF p
<1>3. QED
  BY <1>1, <1>2, OnlyPageKeeps

(* The list is the one of the account that asked.                          *)
LEMMA ListKeysKeeps ==
  ASSUME AccountsInv, NEW b \in Browsers, ListKeys(b)
  PROVE  AccountsInv'
<1> DEFINE u == page[b].by
           l == KeysOf(u)
           h == {k \in l : keys[k].revoked}
           g == [list |-> l, gone |-> h]
           p == [page[b] EXCEPT !.fetch = "read", !.got = g]
<1>1. page[b].fetch = "asked" /\ u # None /\ PageTo(b, p) /\ OnlyPage
  BY DEF ListKeys
<1>2. /\ l \subseteq Keys /\ h \subseteq Keys /\ l \subseteq Exist(keys)
      /\ \A k \in Keys : keys[k].owner = u => k \in l /\ (keys[k].revoked => k \in h)
  BY <1>1 DEF KeysOf, Exist
<1>3. page[b] \in Pages /\ PageOk(keys, page[b], cookie[b])
  BY PageIs
<1>4. page[b].made \cup page[b].withdrawn # {} => u = cookie[b]
  BY <1>1, <1>3 DEF PageOk
<1> HIDE DEF u, l, h
<1>5. g \in Lists /\ g.list = l /\ g.gone = h
  BY <1>2 DEF Lists
<1> HIDE DEF g
<1>6. /\ p \in Pages /\ p.open = page[b].open /\ p.fetch = "read" /\ p.got = g
      /\ p.by = page[b].by /\ p.made = page[b].made /\ p.withdrawn = page[b].withdrawn
      /\ p.sent = page[b].sent /\ p.list = page[b].list
  BY <1>3, <1>5 DEF Pages
<1> HIDE DEF p
<1>7. PageOk(keys, p, cookie[b])
  <2>1. Shows(keys, p, cookie[b], g)
    BY <1>2, <1>3, <1>4, <1>5, <1>6 DEF Shows, PageOk
  <2>2. /\ p.sent \cup p.made \cup p.withdrawn \cup p.list \subseteq Exist(keys)
        /\ \A k \in p.withdrawn : keys[k].revoked
    BY <1>3, <1>6 DEF PageOk
  <2>3. p.made \cup p.withdrawn # {} => p.by = cookie[b]
    BY <1>4, <1>6 DEF u
  <2>4. QED
    BY <1>2, <1>5, <1>6, <2>1, <2>2, <2>3 DEF PageOk
<1>8. QED
  BY <1>1, <1>6, <1>7, OnlyPageKeeps

LEMMA ListFailsKeeps ==
  ASSUME AccountsInv, NEW b \in Browsers, ListFails(b)
  PROVE  AccountsInv'
<1> DEFINE a == AskedBy(page[b], cookie[b])
           p == [page[b] EXCEPT !.fetch = "no", !.by = None, !.failed = TRUE]
<1>1. (PageTo(b, a) \/ PageTo(b, p)) /\ OnlyPage
  BY DEF ListFails
<1>2. page[b] \in Pages /\ PageOk(keys, page[b], cookie[b]) /\ cookie[b] \in Owners
  BY PageIs
<1>3. CASE PageTo(b, a)
  <2>1. /\ a \in Pages /\ PageOk(keys, a, cookie[b]) /\ a.open = page[b].open
        /\ a.made = page[b].made /\ a.withdrawn = page[b].withdrawn
    <3>1. a \in Pages
      BY <1>2, AskingIsOk
    <3>2. PageOk(keys, a, cookie[b])
      BY <1>2, AskingIsOk
    <3>3. a.open = page[b].open
      BY <1>2, AskingIsOk
    <3>4. a.made = page[b].made /\ a.withdrawn = page[b].withdrawn
      BY <1>2, AskingIsOk
    <3>5. QED
      BY <3>1, <3>2, <3>3, <3>4
  <2> HIDE DEF a
  <2>2. QED
    BY <1>1, <1>3, <2>1, OnlyPageKeeps
<1>4. CASE PageTo(b, p)
  <2>1. None \in Owners
    BY DEF Owners
  <2>2. /\ p \in Pages /\ p.open = page[b].open /\ p.fetch = "no" /\ p.failed = TRUE
        /\ p.made = page[b].made /\ p.withdrawn = page[b].withdrawn
        /\ p.sent = page[b].sent /\ p.list = page[b].list /\ p.got = page[b].got
    BY <1>2, <2>1 DEF Pages
  <2> HIDE DEF p
  <2>3. PageOk(keys, p, cookie[b])
    BY <1>2, <2>2 DEF PageOk
  <2>4. QED
    BY <1>1, <1>4, <2>2, <2>3, OnlyPageKeeps
<1>5. QED
  BY <1>1, <1>3, <1>4

LEMMA ShowKeysKeeps ==
  ASSUME AccountsInv, NEW b \in Browsers, ShowKeys(b)
  PROVE  AccountsInv'
<1> DEFINE g == Closed.got
           l == page[b].got.list
           h == page[b].got.gone
           p == [page[b] EXCEPT !.fetch = "no", !.by = None, !.got = g, !.known = TRUE,
                                !.failed = FALSE, !.list = l, !.gone = h]
<1>1. page[b].fetch = "read" /\ PageTo(b, p) /\ OnlyPage
  BY DEF ShowKeys
<1>2. page[b] \in Pages /\ PageOk(keys, page[b], cookie[b])
  BY PageIs
<1>3. g \in Lists /\ g.list = {} /\ l \in SUBSET Keys /\ h \in SUBSET Keys /\ None \in Owners
  BY <1>2 DEF Closed, Lists, Pages, Owners
<1>4. /\ l \subseteq Exist(keys)
      /\ \A k \in Keys : keys[k].owner = cookie[b] => /\ k \in page[b].made => k \in l
                                                      /\ k \in page[b].withdrawn => k \in h
  BY <1>1, <1>2 DEF PageOk, Shows
<1> HIDE DEF g, l, h
<1>5. /\ p \in Pages /\ p.open = page[b].open /\ p.fetch = "no" /\ p.got = g
      /\ p.made = page[b].made /\ p.withdrawn = page[b].withdrawn
      /\ p.sent = page[b].sent /\ p.list = l /\ p.gone = h
  BY <1>2, <1>3 DEF Pages
<1> HIDE DEF p
<1>6. PageOk(keys, p, cookie[b])
  <2>1. Shows(keys, p, cookie[b], p)
    BY <1>4, <1>5 DEF Shows
  <2>2. /\ p.sent \cup p.made \cup p.withdrawn \subseteq Exist(keys)
        /\ \A k \in p.withdrawn : keys[k].revoked
    BY <1>2, <1>5 DEF PageOk
  <2>3. QED
    BY <1>3, <1>4, <1>5, <2>1, <2>2 DEF PageOk
<1>7. QED
  BY <1>1, <1>5, <1>6, OnlyPageKeeps

(* A change that is sent is not yet one the page must show.                *)
LEMMA SentIsOk ==
  ASSUME NEW ks, NEW p \in Pages, NEW u, PageOk(ks, p, u), NEW t \in SUBSET Exist(ks)
  PROVE  /\ [p EXCEPT !.sent = t] \in Pages /\ PageOk(ks, [p EXCEPT !.sent = t], u)
         /\ [p EXCEPT !.sent = t].open = p.open /\ [p EXCEPT !.sent = t].made = p.made
         /\ [p EXCEPT !.sent = t].withdrawn = p.withdrawn
         /\ [p EXCEPT !.sent = t].fetch = p.fetch /\ [p EXCEPT !.sent = t].by = p.by
<1> DEFINE q == [p EXCEPT !.sent = t]
<1>1. /\ q \in Pages /\ q.open = p.open /\ q.made = p.made /\ q.withdrawn = p.withdrawn
      /\ q.sent = t /\ q.list = p.list /\ q.gone = p.gone /\ q.got = p.got
      /\ q.fetch = p.fetch /\ q.by = p.by /\ q.failed = p.failed
  <2>1. t \in SUBSET Keys
    BY DEF Exist
  <2>2. QED
    BY <2>1 DEF Pages
<1> HIDE DEF q
<1>2. PageOk(ks, q, u)
  <2>1. q.sent \cup q.made \cup q.withdrawn \cup q.list \cup q.got.list \subseteq Exist(ks)
    BY <1>1 DEF PageOk
  <2>2. QED
    BY <1>1, <2>1 DEF PageOk, Shows
<1>3. QED
  BY <1>1, <1>2 DEF q

LEMMA CreateKeyKeeps ==
  ASSUME AccountsInv, NEW b \in Browsers, CreateKey(b)
  PROVE  AccountsInv'
<1>1. PICK k \in Keys : /\ keys[k].owner = None
                        /\ keys' = [keys EXCEPT ![k].owner = cookie[b]]
                        /\ page' = [page EXCEPT ![b].sent = @ \cup {k}]
  BY DEF CreateKey
<1> DEFINE t == page[b].sent \cup {k}
           p == [page[b] EXCEPT !.sent = t]
<1>2. /\ page[b].open /\ UNCHANGED <<users, cookie, form, forms, visits>>
      /\ keys \in [Keys -> Rows] /\ cookie[b] \in Owners /\ cookie[b] # None
  BY PageIs DEF CreateKey, AccountsInv, AccountsTyped
<1>3. Grow(keys, keys') /\ keys'[k].owner = cookie[b]
  BY <1>1, <1>2 DEF Grow, Rows
<1>4. page[b] \in Pages /\ PageOk(keys', page[b], cookie[b])
  BY <1>3, PageIs, OkGrows
<1>5. t \in SUBSET Exist(keys')
  BY <1>2, <1>3, <1>4 DEF PageOk, Exist
<1>6. PageTo(b, p)
  BY <1>1 DEF PageTo
<1> HIDE DEF t
<1>7. /\ p \in Pages /\ PageOk(keys', p, cookie[b]) /\ p.open = page[b].open
      /\ p.made = page[b].made /\ p.withdrawn = page[b].withdrawn
  BY <1>4, <1>5, SentIsOk
<1> HIDE DEF p
<1>8. KeysGrow /\ visits' \in 0 .. MaxVisits
  BY <1>2, <1>3, PageIs DEF KeysGrow
<1>9. QED
  BY <1>2, <1>6, <1>7, <1>8, PageIs, PageKeeps

LEMMA RevokeKeyKeeps ==
  ASSUME AccountsInv, NEW b \in Browsers, RevokeKey(b)
  PROVE  AccountsInv' /\ KeysGrow
<1>1. PICK k \in Revocable(b) : /\ keys' = [keys EXCEPT ![k].revoked = TRUE]
                                /\ page' = [page EXCEPT ![b].sent = @ \cup {k}]
  BY DEF RevokeKey
<1> DEFINE t == page[b].sent \cup {k}
           p == [page[b] EXCEPT !.sent = t]
<1>2. /\ page[b].open /\ UNCHANGED <<users, cookie, form, forms, visits>>
      /\ keys \in [Keys -> Rows]
  BY DEF RevokeKey, AccountsInv, AccountsTyped
<1>3. k \in Keys /\ k \in Exist(keys)
  BY PageIs DEF Revocable, PageOk, Exist
<1>4. Grow(keys, keys')
  BY <1>1, <1>2, <1>3 DEF Grow, Rows
<1>5. page[b] \in Pages /\ PageOk(keys', page[b], cookie[b])
  BY <1>4, PageIs, OkGrows
<1>6. t \in SUBSET Exist(keys')
  BY <1>3, <1>4, <1>5 DEF PageOk, Exist, Grow
<1>7. PageTo(b, p)
  BY <1>1 DEF PageTo
<1> HIDE DEF t
<1>8. /\ p \in Pages /\ PageOk(keys', p, cookie[b]) /\ p.open = page[b].open
      /\ p.made = page[b].made /\ p.withdrawn = page[b].withdrawn
  BY <1>5, <1>6, SentIsOk
<1> HIDE DEF p
<1>9. KeysGrow /\ visits' \in 0 .. MaxVisits
  BY <1>2, <1>4, PageIs DEF KeysGrow
<1>10. QED
  BY <1>2, <1>7, <1>8, <1>9, PageIs, PageKeeps

(* An open page asks for what it must show from now on; a page that does   *)
(* not ask need not show the change.                                       *)
LEMMA ChangeAnsweredKeeps ==
  ASSUME AccountsInv, NEW b \in Browsers, ChangeAnswered(b)
  PROVE  AccountsInv'
<1> DEFINE o == page[b]
           i == Invalidated(o, cookie[b])
<1>1. PICK k \in o.sent :
        LET seen == IF Refetches(o) THEN {k} ELSE {}
        IN PageTo(b, [i EXCEPT !.sent = @ \ {k}, !.made = @ \cup seen,
                               !.withdrawn = @ \cup {j \in seen : keys[j].revoked}])
  BY DEF ChangeAnswered
<1> DEFINE seen == IF Refetches(o) THEN {k} ELSE {}
           t == i.sent \ {k}
           m == i.made \cup seen
           w == i.withdrawn \cup {j \in seen : keys[j].revoked}
           p == [i EXCEPT !.sent = t, !.made = m, !.withdrawn = w]
<1>2. PageTo(b, p) /\ OnlyPage
  BY <1>1 DEF ChangeAnswered
<1>3. o \in Pages /\ PageOk(keys, o, cookie[b]) /\ cookie[b] \in Owners
  BY PageIs
<1>4. /\ i \in Pages /\ PageOk(keys, i, cookie[b]) /\ i.open = o.open
      /\ i.made = o.made /\ i.withdrawn = o.withdrawn /\ i.sent = o.sent
      /\ Refetches(o) => i.fetch = "asked" /\ i.by = cookie[b] /\ o.open
      /\ ~Refetches(o) => i = o
  <2>1. CASE Refetches(o)
    <3>1. i = AskedBy(o, cookie[b]) /\ o.open
      BY <2>1 DEF Invalidated, Refetches
    <3> HIDE DEF o, i
    <3>2. i \in Pages /\ PageOk(keys, i, cookie[b])
      BY <1>3, <3>1, AskingIsOk
    <3>3. i.open = o.open
      BY <1>3, <3>1, AskingIsOk
    <3>4. i.made = o.made /\ i.withdrawn = o.withdrawn
      BY <1>3, <3>1, AskingIsOk
    <3>5. i.sent = o.sent
      <4>1. AskedBy(o, cookie[b]).sent = o.sent
        BY <1>3, AskingIsOk
      <4>2. QED
        BY <3>1, <4>1
    <3>6. i.fetch = "asked" /\ i.by = cookie[b]
      BY <1>3, <3>1, AskingIsOk
    <3>7. QED
      BY <2>1, <3>1, <3>2, <3>3, <3>4, <3>5, <3>6
  <2>2. CASE ~Refetches(o)
    BY <1>3, <2>2 DEF Invalidated
  <2>3. QED
    BY <2>1, <2>2
<1>5. k \in Exist(keys) /\ k \in Keys
  BY <1>3 DEF PageOk, Exist
<1> HIDE DEF o, i
<1>6. /\ seen \subseteq {k} /\ (~Refetches(o) => seen = {})
      /\ t \subseteq i.sent /\ t \subseteq Keys /\ m \subseteq Keys /\ w \subseteq Keys
      /\ m \subseteq i.made \cup {k} /\ w \subseteq i.withdrawn \cup {k}
      /\ \A j \in w : j \in i.withdrawn \/ keys[j].revoked
      /\ ~Refetches(o) => m = i.made /\ w = i.withdrawn
  BY <1>4, <1>5 DEF Pages
<1> HIDE DEF seen, t, m, w
<1>7. /\ p \in Pages /\ p.open = i.open /\ p.fetch = i.fetch /\ p.by = i.by /\ p.got = i.got
      /\ p.failed = i.failed /\ p.list = i.list /\ p.gone = i.gone
      /\ p.sent = t /\ p.made = m /\ p.withdrawn = w
  BY <1>4, <1>6 DEF Pages
<1> HIDE DEF p
<1>8. PageOk(keys, p, cookie[b])
  <2>1. p.sent \cup p.made \cup p.withdrawn \cup p.list \cup p.got.list \subseteq Exist(keys)
    BY <1>4, <1>5, <1>6, <1>7 DEF PageOk
  <2>2. \A j \in p.withdrawn : keys[j].revoked
    BY <1>4, <1>6, <1>7 DEF PageOk
  <2>3. CASE Refetches(o)
    BY <1>4, <1>7, <2>1, <2>2, <2>3 DEF PageOk
  <2>4. CASE ~Refetches(o)
    <3>1. p.made = i.made /\ p.withdrawn = i.withdrawn
      BY <1>6, <1>7, <2>4
    <3>2. QED
      BY <1>4, <1>7, <2>1, <2>2, <3>1 DEF PageOk, Shows
  <2>5. QED
    BY <2>3, <2>4
<1>9. p.made \cup p.withdrawn # {} => o.open \/ o.made \cup o.withdrawn # {}
  BY <1>4, <1>6, <1>7
<1>10. QED
  BY <1>2, <1>4, <1>7, <1>8, <1>9, OnlyPageKeeps DEF o

LEMMA AccountsKeep ==
  ASSUME AccountsInv, AccountsNext PROVE AccountsInv'
<1> SUFFICES ASSUME NEW b \in Browsers,
                    \/ \E m \in {"signin", "signup"}, e \in Emails : Submit(b, m, e)
                    \/ SignUpSelect(b) \/ SignUpInsert(b)
                    \/ SignInSelect(b) \/ SignInCompare(b)
                    \/ SetSession(b) \/ SignOut(b)
                    \/ OpenKeys(b) \/ Refocus(b) \/ CloseKeys(b)
                    \/ ListKeys(b) \/ ListFails(b) \/ ShowKeys(b)
                    \/ CreateKey(b) \/ RevokeKey(b) \/ ChangeAnswered(b)
             PROVE  AccountsInv'
  BY DEF AccountsNext
<1>1. CASE \E m \in {"signin", "signup"}, e \in Emails : Submit(b, m, e)
  BY <1>1, SubmitKeeps
<1>2. CASE SignUpSelect(b) \/ SignUpInsert(b) \/ SignInSelect(b) \/ SignInCompare(b)
  BY <1>2, SignUpSelectKeeps, SignUpInsertKeeps, SignInSelectKeeps, SignInCompareKeeps
<1>3. CASE SetSession(b) \/ SignOut(b)
  BY <1>3, SetSessionKeeps, SignOutKeeps
<1>4. CASE OpenKeys(b) \/ Refocus(b) \/ CloseKeys(b)
  BY <1>4, OpenKeysKeeps, RefocusKeeps, CloseKeysKeeps
<1>5. CASE ListKeys(b) \/ ListFails(b) \/ ShowKeys(b)
  BY <1>5, ListKeysKeeps, ListFailsKeeps, ShowKeysKeeps
<1>6. CASE CreateKey(b) \/ RevokeKey(b) \/ ChangeAnswered(b)
  BY <1>6, CreateKeyKeeps, RevokeKeyKeeps, ChangeAnsweredKeeps
<1>7. QED
  BY <1>1, <1>2, <1>3, <1>4, <1>5, <1>6

(* Nothing but rows of keys changes, and they only grow.                   *)
LEMMA RowsKeep ==
  ASSUME AccountsInv, KeysGrow, UNCHANGED <<users, cookie, form, page, forms, visits>>
  PROVE  AccountsInv'
<1>1. AccountsTyped'
  BY DEF AccountsInv, AccountsTyped, KeysGrow, Grow
<1>2. IdsSuffice' /\ FormsInv'
  BY DEF AccountsInv, IdsSuffice, FormsInv, Signing
<1>3. PagesInv'
  BY OkGrows DEF AccountsInv, PagesInv, KeysGrow
<1>4. QED
  BY <1>1, <1>2, <1>3 DEF AccountsInv

LEMMA AccountsRest == ASSUME AccountsInv, UNCHANGED accountVars PROVE AccountsInv' /\ KeysGrow
BY RowsKeep, NothingGrows DEF AccountsInv, accountVars

-----------------------------------------------------------------------------
(* What has passed                                                         *)
LEMMA PassedCounts ==
  ASSUME NEW c, NEW u, NEW from, NEW to
  PROVE  /\ IsFiniteSet(Passed(c, u, from, to)) /\ Count(c, u, from, to) \in Nat
         /\ IsFiniteSet(Passed(c, u, from, to)') /\ Count(c, u, from, to)' \in Nat
<1>1. IsFiniteSet(Requests)
  BY AdmissionAssumption, FS_Interval DEF Requests
<1>2. Passed(c, u, from, to) \subseteq Requests /\ Passed(c, u, from, to)' \subseteq Requests
  BY DEF Passed
<1>3. QED
  BY <1>1, <1>2, FS_Subset, FS_CardinalityType DEF Count

(* Nothing passes in this step.                                            *)
NonePass ==
  \A q \in Requests :
    /\ req'[q].phase \in DecidedPhases <=> req[q].phase \in DecidedPhases
    /\ req[q].phase \in DecidedPhases =>
         /\ req'[q].counter = req[q].counter /\ req'[q].user = req[q].user
         /\ req'[q].at = req[q].at
LEMMA PassedSame ==
  ASSUME NonePass, NEW c, NEW u, NEW from, NEW to
  PROVE  /\ Passed(c, u, from, to)' = Passed(c, u, from, to)
         /\ Count(c, u, from, to)' = Count(c, u, from, to)
<1>1. Passed(c, u, from, to)' = Passed(c, u, from, to)
  BY DEF Passed, NonePass
<1>2. QED
  BY <1>1 DEF Count

LEMMA WindowedSame ==
  ASSUME now' = now, NEW c, NEW u, NEW T \in Int, Windowed(c, u, T),
         requests'[c][u] = requests[c][u],
         \A from, to : Passed(c, u, from, to)' = Passed(c, u, from, to),
         \A q \in Requests : req[q].phase \in DecidedPhases => req'[q].at = req[q].at
  PROVE  Windowed(c, u, T)'
<1>1. \A from, to : Count(c, u, from, to)' = Count(c, u, from, to)
  BY DEF Count
<1>2. \A q \in Passed(c, u, T, now) : req'[q].at = req[q].at
  BY DEF Passed
<1>3. QED
  BY <1>1, <1>2 DEF Windowed, Expired

LEMMA WindowedStays ==
  ASSUME NonePass, now' = now, NEW c, NEW u, NEW T \in Int, Windowed(c, u, T),
         requests'[c][u] = requests[c][u]
  PROVE  Windowed(c, u, T)'
BY PassedSame, WindowedSame DEF NonePass

-----------------------------------------------------------------------------
(* The calls at S3                                                         *)
Distinct(q) == \A i, j \in 1 .. Len(q) : q[i] = q[j] => i = j

LEMMA TailOf ==
  ASSUME NEW q \in Seq(Requests), Len(q) >= 1
  PROVE  /\ SubSeq(q, 2, Len(q)) \in Seq(Requests) /\ Len(SubSeq(q, 2, Len(q))) = Len(q) - 1
         /\ \A i \in 1 .. Len(q) - 1 : SubSeq(q, 2, Len(q))[i] = q[i + 1]
<1>1. \A i \in 2 .. Len(q) : q[i] \in Requests
  OBVIOUS
<1>2. Len(q) \in Nat /\ 2 \in Int /\ Len(q) \in Int
  OBVIOUS
<1>3. /\ SubSeq(q, 2, Len(q)) \in Seq(Requests)
      /\ Len(SubSeq(q, 2, Len(q))) = IF 2 <= Len(q) THEN Len(q) - 2 + 1 ELSE 0
      /\ \A i \in 1 .. Len(q) - 2 + 1 : SubSeq(q, 2, Len(q))[i] = q[2 + i - 1]
  BY <1>1, <1>2, SubSeqProperties
<1>4. ASSUME NEW i \in 1 .. Len(q) - 1 PROVE SubSeq(q, 2, Len(q))[i] = q[i + 1]
  <2>1. 2 + i - 1 = i + 1 /\ i \in 1 .. Len(q) - 2 + 1
    BY <1>2
  <2>2. SubSeq(q, 2, Len(q))[i] = q[2 + i - 1]
    BY <1>3, <2>1
  <2>3. QED
    BY <2>1, <2>2
<1>5. Len(SubSeq(q, 2, Len(q))) = Len(q) - 1
  <2>1. CASE 2 <= Len(q)
    BY <1>2, <1>3, <2>1
  <2>2. CASE Len(q) = 1
    BY <1>2, <1>3, <2>2
  <2>3. \A l \in Nat : l >= 1 => 2 <= l \/ l = 1
    OBVIOUS
  <2>4. 2 <= Len(q) \/ Len(q) = 1
    BY <1>2, <2>3, Zenon
  <2>5. QED
    BY <2>1, <2>2, <2>4, Zenon
<1>6. QED
  BY <1>3, <1>4, <1>5

(* pump starts at most one job: an answer frees one slot, and a job that   *)
(* finds a slot free has found the queue empty.                            *)
LEMMA PumpDoes ==
  ASSUME NEW q \in Seq(Requests), NEW n \in Int, NEW r \in SUBSET Requests, IsFiniteSet(r),
         n = Cardinality(r), n <= MaxConcurrent, Distinct(q),
         \A i \in 1 .. Len(q) : q[i] \notin r,
         Len(q) <= 1 \/ n >= MaxConcurrent - 1, Pump(q, n, r)
  PROVE  /\ QueueInv'
         /\ running' \cup {queue'[i] : i \in 1 .. Len(queue')} \subseteq
              r \cup {q[i] : i \in 1 .. Len(q)}
<1> DEFINE k == Lower(MaxConcurrent - n, Len(q))
<1>1. /\ queue' = SubSeq(q, k + 1, Len(q)) /\ active' = n + k
      /\ running' = r \cup {q[i] : i \in 1 .. k}
  BY DEF Pump
<1>2. n \in Nat /\ Len(q) \in Nat /\ MaxConcurrent \in Nat \ {0}
  BY FS_CardinalityType, LimiterAssumption
<1>3. /\ k = 0 \/ (k = 1 /\ Len(q) >= 1 /\ n < MaxConcurrent)
      /\ k = 0 => n = MaxConcurrent \/ Len(q) = 0
      /\ k = 1 => n = MaxConcurrent - 1 \/ Len(q) = 1
  <2>1. /\ MaxConcurrent \in Nat /\ n \in Nat /\ Len(q) \in Nat
        /\ n <= MaxConcurrent /\ (Len(q) <= 1 \/ n >= MaxConcurrent - 1)
    BY <1>2
  <2>2. \A l \in Nat : n <= MaxConcurrent /\ (l <= 1 \/ n >= MaxConcurrent - 1) =>
           /\ Lower(MaxConcurrent - n, l) = 0
              \/ (Lower(MaxConcurrent - n, l) = 1 /\ l >= 1 /\ n < MaxConcurrent)
           /\ Lower(MaxConcurrent - n, l) = 0 => n = MaxConcurrent \/ l = 0
           /\ Lower(MaxConcurrent - n, l) = 1 => n = MaxConcurrent - 1 \/ l = 1
    BY <2>1 DEF Lower
  <2>3. QED
    BY <2>1, <2>2
<1> HIDE DEF k
<1>4. CASE k = 0
  <2>1. \A i \in 1 .. Len(q) : q[i] \in Requests
    OBVIOUS
  <2>2. /\ SubSeq(q, 1, Len(q)) \in Seq(Requests) /\ Len(SubSeq(q, 1, Len(q))) = Len(q)
        /\ \A i \in 1 .. Len(q) : SubSeq(q, 1, Len(q))[i] = q[i]
    BY <1>2, <2>1, SubSeqProperties
  <2>3. queue' = SubSeq(q, 1, Len(q)) /\ active' = n /\ running' = r
    BY <1>1, <1>2, <1>4
  <2>4. /\ queue' \in Seq(Requests) /\ Len(queue') = Len(q)
        /\ \A i \in 1 .. Len(q) : queue'[i] = q[i]
    BY <2>2, <2>3
  <2>5. queue' # <<>> => active' = MaxConcurrent
    BY <1>2, <1>3, <1>4, <2>3, <2>4
  <2>6. \A i \in 1 .. Len(queue') : /\ queue'[i] \notin running'
                                    /\ \A j \in 1 .. Len(queue') : queue'[i] = queue'[j] => i = j
    BY <2>3, <2>4 DEF Distinct
  <2>7. QED
    BY <2>3, <2>4, <2>5, <2>6 DEF QueueInv
<1>5. CASE k = 1
  <2>1. /\ SubSeq(q, 2, Len(q)) \in Seq(Requests) /\ Len(SubSeq(q, 2, Len(q))) = Len(q) - 1
        /\ \A i \in 1 .. Len(q) - 1 : SubSeq(q, 2, Len(q))[i] = q[i + 1]
    BY <1>3, <1>5, TailOf
  <2>2. /\ queue' = SubSeq(q, 2, Len(q)) /\ active' = n + 1
        /\ running' = r \cup {q[1]}
    BY <1>1, <1>2, <1>5
  <2>3. /\ queue' \in Seq(Requests) /\ Len(queue') = Len(q) - 1
        /\ \A i \in 1 .. Len(queue') : queue'[i] = q[i + 1] /\ i + 1 \in 1 .. Len(q)
    BY <1>2, <2>1, <2>2
  <2>4. q[1] \in Requests /\ q[1] \notin r
    BY <1>2, <1>3, <1>5
  <2>5. Cardinality(running') = n + 1
    BY <2>2, <2>4, FS_AddElement
  <2>6. queue' # <<>> => active' = MaxConcurrent
    BY <1>2, <1>3, <1>5, <2>2, <2>3
  <2>7. \A i \in 1 .. Len(queue') : queue'[i] \notin running'
    BY <1>2, <1>3, <1>5, <2>2, <2>3 DEF Distinct
  <2>8. \A i, j \in 1 .. Len(queue') : queue'[i] = queue'[j] => i = j
    BY <1>2, <2>3, SMTT(60) DEF Distinct
  <2>9. active' <= MaxConcurrent
    BY <1>2, <1>3, <1>5, <2>2
  <2>10. QueueInv'
    BY <2>2, <2>3, <2>4, <2>5, <2>6, <2>7, <2>8, <2>9 DEF QueueInv
  <2>11. QED
    BY <1>3, <1>5, <2>2, <2>3, <2>10
<1>6. QED
  BY <1>3, <1>4, <1>5

LEMMA QueueIs ==
  ASSUME QueueInv
  PROVE  /\ Distinct(queue) /\ IsFiniteSet(running) /\ active \in Nat
         /\ Len(queue) \in Nat
         /\ \A i \in 1 .. Len(queue) : queue[i] \in Requests /\ queue[i] \notin running
<1>1. IsFiniteSet(Requests)
  BY AdmissionAssumption, FS_Interval DEF Requests
<1>2. IsFiniteSet(running)
  BY <1>1, FS_Subset DEF QueueInv
<1>3. QED
  BY <1>2, FS_CardinalityType DEF QueueInv, Distinct

LEMMA EnqueueDoes ==
  ASSUME QueueInv, AllWait, NEW j \in Requests, req[j].phase # "waiting", Enqueue(j)
  PROVE  /\ QueueInv'
         /\ running' \cup {queue'[i] : i \in 1 .. Len(queue')} \subseteq
              running \cup {queue[i] : i \in 1 .. Len(queue)} \cup {j}
<1> DEFINE q == Append(queue, j)
<1>1. j \notin running /\ \A i \in 1 .. Len(queue) : queue[i] # j
  BY DEF AllWait
<1>2. /\ q \in Seq(Requests) /\ Len(q) = Len(queue) + 1 /\ q[Len(queue) + 1] = j
      /\ \A i \in 1 .. Len(queue) : q[i] = queue[i]
  BY QueueIs DEF QueueInv
<1>3. Pump(q, active, running)
  BY DEF Enqueue
<1> HIDE DEF q
<1>4. Distinct(q) /\ \A i \in 1 .. Len(q) : q[i] \notin running
  <2>1. \A i \in 1 .. Len(q) : i \in 1 .. Len(queue) \/ i = Len(queue) + 1
    BY <1>2, QueueIs
  <2>2. QED
    BY <1>1, <1>2, <2>1, QueueIs DEF Distinct
<1>5. Len(q) <= 1 \/ active >= MaxConcurrent - 1
  <2>1. CASE queue = <<>>
    BY <1>2, <2>1
  <2>2. CASE queue # <<>>
    BY <2>2, LimiterAssumption DEF QueueInv
  <2>3. QED
    BY <2>1, <2>2
<1>6. active = Cardinality(running) /\ active <= MaxConcurrent /\ running \in SUBSET Requests
  BY DEF QueueInv
<1>7. /\ QueueInv'
      /\ running' \cup {queue'[i] : i \in 1 .. Len(queue')} \subseteq
              running \cup {q[i] : i \in 1 .. Len(q)}
  BY <1>2, <1>3, <1>4, <1>5, <1>6, QueueIs, PumpDoes
<1>8. {q[i] : i \in 1 .. Len(q)} \subseteq {queue[i] : i \in 1 .. Len(queue)} \cup {j}
  <2>1. \A i \in 1 .. Len(q) : i \in 1 .. Len(queue) \/ i = Len(queue) + 1
    BY <1>2, QueueIs
  <2>2. QED
    BY <1>2, <2>1
<1>9. QED
  BY <1>7, <1>8

LEMMA FinishDoes ==
  ASSUME QueueInv, AllWait, NEW j \in running, Finish(j)
  PROVE  /\ QueueInv'
         /\ running' \cup {queue'[i] : i \in 1 .. Len(queue')} \subseteq
              (running \cup {queue[i] : i \in 1 .. Len(queue)}) \ {j}
<1>1. /\ IsFiniteSet(running \ {j}) /\ Cardinality(running \ {j}) = active - 1
      /\ active \in Nat /\ active <= MaxConcurrent /\ running \ {j} \in SUBSET Requests
      /\ queue \in Seq(Requests) /\ Len(queue) \in Nat
  BY QueueIs, FS_RemoveElement DEF QueueInv
<1>2. Pump(queue, active - 1, running \ {j})
  BY DEF Finish
<1>3. Len(queue) <= 1 \/ active - 1 >= MaxConcurrent - 1
  <2>1. CASE queue = <<>>
    BY <2>1
  <2>2. CASE queue # <<>>
    BY <2>2, LimiterAssumption DEF QueueInv
  <2>3. QED
    BY <2>1, <2>2
<1>4. \A i \in 1 .. Len(queue) : queue[i] \notin running \ {j} /\ queue[i] # j
  BY QueueIs
<1>5. active - 1 <= MaxConcurrent /\ active - 1 \in Int
  BY <1>1, LimiterAssumption
<1>6. /\ QueueInv'
      /\ running' \cup {queue'[i] : i \in 1 .. Len(queue')} \subseteq
              (running \ {j}) \cup {queue[i] : i \in 1 .. Len(queue)}
  BY <1>1, <1>2, <1>3, <1>4, <1>5, QueueIs, PumpDoes
<1>7. QED
  BY <1>4, <1>6

-----------------------------------------------------------------------------
(* The steps in which nothing passes                                       *)
Deserved(r) == Count(r.counter, r.user,
                     IF r.at > Window THEN r.at - Window ELSE 0, r.at) >= Limit

LEMMA RefusalsAre ==
  (\A q \in Requests : \A c, u, a :
     req'[q].phase = "refused" /\ req'[q].counter = c /\ req'[q].user = u /\ req'[q].at = a
       => Count(c, u, IF a > Window THEN a - Window ELSE 0, a)' >= Limit)
  => RefusalIsDeserved'
<1> SUFFICES ASSUME \A q \in Requests : \A c, u, a :
                      req'[q].phase = "refused" /\ req'[q].counter = c /\ req'[q].user = u
                        /\ req'[q].at = a
                      => Count(c, u, IF a > Window THEN a - Window ELSE 0, a)' >= Limit,
                    NEW q \in Requests, req'[q].phase = "refused"
             PROVE  Cardinality(Passed(req[q].counter, req[q].user,
                                       IF req[q].at > Window THEN req[q].at - Window ELSE 0,
                                       req[q].at)') >= Limit
  BY DEF RefusalIsDeserved
<1>1. QED
  BY DEF Count

LEMMA LimitsStay ==
  ASSUME IInv, NonePass, UNCHANGED <<now, requests>>,
         \A q \in Requests : req'[q].at <= now,
         \A q \in Requests : req'[q].phase = "refused" =>
            \/ req[q].phase = "refused" /\ req'[q].at = req[q].at
               /\ req'[q].counter = req[q].counter /\ req'[q].user = req[q].user
            \/ Deserved(req'[q])
  PROVE  WindowsInv' /\ NotAhead' /\ RefusalIsDeserved'
<1>1. WindowsInv'
  <2>1. \A c \in Counters, u \in Users : \E T \in Int : Windowed(c, u, T)
    BY DEF IInv, WindowsInv
  <2>2. \A c \in Counters, u \in Users : \A T \in Int : Windowed(c, u, T) => Windowed(c, u, T)'
    BY WindowedStays
  <2>3. QED
    BY <2>1, <2>2 DEF WindowsInv
<1>2. NotAhead'
  BY DEF NotAhead
<1>3. RefusalIsDeserved'
  <2>1. \A c, u, from, to : Count(c, u, from, to)' = Count(c, u, from, to)
    BY PassedSame
  <2>2. ASSUME NEW q \in Requests, NEW c, NEW u, NEW a, req'[q].phase = "refused",
               req'[q].counter = c, req'[q].user = u, req'[q].at = a
        PROVE  Count(c, u, IF a > Window THEN a - Window ELSE 0, a)' >= Limit
    <3>1. req[q].phase = "refused" => Deserved(req[q])
      BY DEF IInv, RefusalIsDeserved, Deserved, Count
    <3>2. Deserved(req'[q])
      BY <2>2, <3>1 DEF Deserved
    <3>3. QED
      BY <2>1, <2>2, <3>2 DEF Deserved
  <2>3. QED
    BY <2>2, RefusalsAre
<1>4. QED
  BY <1>1, <1>2, <1>3

(* A step of one request that does not pass its rate limit.                *)
KeyOk(r, rows) ==
  /\ r.phase # "unsent" => r.key \in Keys /\ rows[r.key].owner # None
  /\ r.phase \notin {"unsent", "hashing", "unauthorized"} => r.user \in Users
  /\ r.late => r.phase \in {"hashing", "unauthorized"} /\ rows[r.key].revoked
LEMMA KeysStay ==
  ASSUME IInv, KeysGrow, NEW q \in Requests
  PROVE  KeyOk(req[q], keys) /\ (\A r \in Reqs : KeyOk(r, keys) => KeyOk(r, keys'))
<1>1. KeyOk(req[q], keys)
  BY DEF IInv, KeysInv, KeyOk
<1>2. ASSUME NEW r \in Reqs, KeyOk(r, keys) PROVE KeyOk(r, keys')
  <2>1. r.late => r.key \in Keys
    BY <1>2 DEF KeyOk
  <2>2. QED
    BY <1>2, <2>1 DEF KeyOk, KeysGrow, Grow
<1>3. QED
  BY <1>1, <1>2

LEMMA KeysMove ==
  ASSUME IInv, NEW q \in Requests, NEW r \in Reqs, req' = [req EXCEPT ![q] = r],
         KeysGrow, KeyOk(r, keys'), RequestsTyped'
  PROVE  KeysInv'
<1>1. req'[q] = r /\ \A p \in Requests : p # q => req'[p] = req[p]
  BY DEF IInv, RequestsTyped
<1>2. ASSUME NEW p \in Requests, NEW t \in Reqs, t = req'[p] PROVE KeyOk(t, keys')
  BY <1>1, <1>2, KeysStay
<1>3. ASSUME NEW p \in Requests
      PROVE  /\ req'[p].phase # "unsent" =>
                  req'[p].key \in Keys /\ keys'[req'[p].key].owner # None
             /\ req'[p].phase \notin {"unsent", "hashing", "unauthorized"} => req'[p].user \in Users
             /\ req'[p].late => /\ req'[p].phase \in {"hashing", "unauthorized"}
                                /\ keys'[req'[p].key].revoked
  BY <1>2 DEF KeyOk, RequestsTyped
<1>4. QED
  BY <1>3 DEF KeysInv

LEMMA MoveKeeps ==
  ASSUME IInv, NEW q \in Requests, NEW r \in Reqs, req' = [req EXCEPT ![q] = r],
         UNCHANGED <<now, requests>>, bytes' \in [Users -> Entries], AccountsInv', KeysGrow,
         r.phase \in DecidedPhases <=> req[q].phase \in DecidedPhases,
         r.phase \in DecidedPhases =>
           r.counter = req[q].counter /\ r.user = req[q].user /\ r.at = req[q].at,
         r.at <= now, r.phase = "refused" => Deserved(r), KeyOk(r, keys'), QueueInv', AllWait'
  PROVE  IInv'
<1>1. /\ req \in [Requests -> Reqs] /\ req'[q] = r
      /\ \A p \in Requests : p # q => req'[p] = req[p]
  BY DEF IInv, RequestsTyped
<1>2. RequestsTyped'
  BY <1>1 DEF IInv, RequestsTyped
<1>3. NonePass
  BY <1>1 DEF NonePass
<1>4. WindowsInv' /\ NotAhead' /\ RefusalIsDeserved'
  <2>1. \A p \in Requests : req'[p].at <= now
    BY <1>1 DEF IInv, NotAhead
  <2>2. \A p \in Requests : req'[p].phase = "refused" =>
            \/ req[p].phase = "refused" /\ req'[p].at = req[p].at
               /\ req'[p].counter = req[p].counter /\ req'[p].user = req[p].user
            \/ Deserved(req'[p])
    BY <1>1
  <2>3. QED
    BY <1>3, <2>1, <2>2, LimitsStay
<1>5. KeysInv'
  BY <1>2, KeysMove
<1>6. QED
  BY <1>2, <1>4, <1>5 DEF IInv

LEMMA QueueRests ==
  ASSUME IInv, UNCHANGED limiterVars, NEW q \in Requests, req[q].phase # "waiting",
         \A p \in Requests : p # q => req'[p] = req[p]
  PROVE  QueueInv' /\ AllWait'
<1>1. queue' = queue /\ active' = active /\ running' = running
  BY DEF limiterVars
<1>2. QueueInv'
  BY <1>1 DEF IInv, QueueInv
<1>3. AllWait'
  BY <1>1 DEF IInv, AllWait
<1>4. QED
  BY <1>2, <1>3

LEMMA BytesStay ==
  ASSUME IInv
  PROVE  bytes \in [Users -> Entries] /\ req \in [Requests -> Reqs]
         /\ \A q \in Requests : req[q] \in Reqs /\ req[q].at <= now /\ req[q].at \in Nat
BY DEF IInv, RequestsTyped, NotAhead, Reqs

LEMMA SendKeeps ==
  ASSUME IInv, NEW q \in Requests, NEW c \in Counters, NEW k \in Keys, Send(q, c, k)
  PROVE  IInv'
<1> DEFINE r == [NotSent EXCEPT !.phase = "hashing", !.counter = c,
                                !.key = k, !.late = keys[k].revoked]
<1>1. /\ req[q].phase = "unsent" /\ keys[k].owner # None
      /\ req' = [req EXCEPT ![q] = r]
      /\ UNCHANGED <<accountVars, rateVars, limiterVars>>
  BY DEF Send
<1>2. keys[k].revoked \in BOOLEAN
  BY DEF IInv, AccountsInv, AccountsTyped, Rows
<1>3. /\ r \in Reqs /\ r.phase = "hashing" /\ r.key = k /\ r.late = keys[k].revoked /\ r.at = 0
  BY <1>2 DEF Reqs, NotSent, Phases, Counters
<1> HIDE DEF r
<1>4. UNCHANGED <<now, requests, bytes>> /\ AccountsInv' /\ KeysGrow /\ keys' = keys
  BY <1>1, AccountsRest DEF rateVars, IInv, accountVars
<1>5. KeyOk(r, keys')
  BY <1>1, <1>3, <1>4 DEF KeyOk
<1>6. now >= 0
  BY DEF IInv, RequestsTyped
<1>7. \A p \in Requests : p # q => req'[p] = req[p]
  BY <1>1, BytesStay
<1>8. QueueInv' /\ AllWait'
  BY <1>1, <1>7, QueueRests
<1>9. "hashing" \notin DecidedPhases /\ "unsent" \notin DecidedPhases
  BY DEF DecidedPhases
<1>10. QED
  BY <1>1, <1>3, <1>4, <1>5, <1>6, <1>8, <1>9, BytesStay, MoveKeeps

LEMMA SelectKeyKeeps ==
  ASSUME IInv, NEW q \in Requests, SelectKey(q)
  PROVE  IInv'
<1> DEFINE k == req[q].key
           ph == IF IsLive(k) THEN "found" ELSE "unauthorized"
           us == IF IsLive(k) THEN keys[k].owner ELSE 0
           r == [req[q] EXCEPT !.phase = ph, !.user = us]
<1>1. /\ req[q].phase = "hashing" /\ req' = [req EXCEPT ![q] = r]
      /\ UNCHANGED <<accountVars, rateVars, limiterVars>>
  BY DEF SelectKey
<1>2. /\ req[q] \in Reqs /\ KeyOk(req[q], keys) /\ k \in Keys /\ keys[k].owner # None
      /\ (req[q].late => keys[k].revoked) /\ keys[k].owner \in Owners
  <2>1. KeyOk(req[q], keys)
    BY DEF IInv, KeysInv, KeyOk
  <2>2. k \in Keys
    BY <1>1, <2>1 DEF KeyOk
  <2>3. keys[k].owner \in Owners
    BY <2>2 DEF IInv, AccountsInv, AccountsTyped, Rows
  <2>4. QED
    BY <1>1, <2>1, <2>2, <2>3, BytesStay DEF KeyOk
<1>3. ph \in Phases /\ us \in UserIds \cup {0} /\ (ph = "found" => us \in Users /\ ~req[q].late)
  BY <1>2, AdmissionAssumption DEF IsLive, Phases, Owners
<1>4. ph \in {"found", "unauthorized"}
  OBVIOUS
<1> HIDE DEF ph, us
<1>5. /\ r \in Reqs /\ r.phase = ph /\ r.user = us /\ r.key = k /\ r.late = req[q].late
      /\ r.at = req[q].at
  BY <1>2, <1>3 DEF Reqs
<1> HIDE DEF r
<1>6. UNCHANGED <<now, requests, bytes>> /\ AccountsInv' /\ KeysGrow /\ keys' = keys
  BY <1>1, AccountsRest DEF rateVars, IInv, accountVars
<1>7. KeyOk(r, keys')
  BY <1>2, <1>3, <1>4, <1>5, <1>6 DEF KeyOk
<1>8. \A p \in Requests : p # q => req'[p] = req[p]
  BY <1>1, BytesStay
<1>9. QueueInv' /\ AllWait'
  BY <1>1, <1>8, QueueRests
<1>10. r.phase \notin DecidedPhases /\ req[q].phase \notin DecidedPhases /\ r.phase # "refused"
  BY <1>1, <1>4, <1>5 DEF DecidedPhases
<1>11. QED
  BY <1>1, <1>5, <1>6, <1>7, <1>9, <1>10, BytesStay, MoveKeeps

(* To is a step among the phases of a request that has passed.             *)
LEMMA ToKeeps ==
  ASSUME IInv, NEW q \in Requests, NEW ph \in DecidedPhases, To(q, ph),
         req[q].phase \in DecidedPhases, UNCHANGED <<accountVars, now, requests>>,
         bytes' \in [Users -> Entries], QueueInv', AllWait'
  PROVE  IInv'
<1> DEFINE r == [req[q] EXCEPT !.phase = ph]
<1>1. req' = [req EXCEPT ![q] = r]
  BY DEF To
<1>2. req[q] \in Reqs /\ KeyOk(req[q], keys)
  BY BytesStay DEF IInv, KeysInv, KeyOk
<1>3. /\ r \in Reqs /\ r.phase = ph /\ r.user = req[q].user /\ r.key = req[q].key
      /\ r.late = req[q].late /\ r.at = req[q].at /\ r.counter = req[q].counter
  BY <1>2 DEF Reqs, Phases
<1> HIDE DEF r
<1>4. AccountsInv' /\ KeysGrow /\ keys' = keys
  BY AccountsRest DEF IInv, accountVars
<1>5. ph \notin {"unsent", "hashing", "unauthorized", "refused"}
      /\ req[q].phase \notin {"unsent", "hashing", "unauthorized", "refused"}
  BY DEF DecidedPhases
<1>6. KeyOk(r, keys')
  BY <1>2, <1>3, <1>4, <1>5 DEF KeyOk
<1>7. r.at <= now
  BY <1>3, BytesStay
<1>8. QED
  BY <1>1, <1>3, <1>4, <1>5, <1>6, <1>7, MoveKeeps

LEMMA CallS3Keeps ==
  ASSUME IInv, NEW q \in Requests, CallS3(q)
  PROVE  IInv'
<1>1. /\ req[q].phase = "admitted" /\ UNCHANGED <<accountVars, rateVars>>
      /\ \/ Enqueue(q) /\ To(q, "waiting")
         \/ To(q, "answered") /\ UNCHANGED limiterVars
  BY DEF CallS3
<1>2. UNCHANGED <<accountVars, now, requests>> /\ bytes' \in [Users -> Entries]
  BY <1>1, BytesStay DEF rateVars
<1>3. {"admitted", "waiting", "answered"} \subseteq DecidedPhases
  BY DEF DecidedPhases
<1>4. req[q] \in Reqs /\ req \in [Requests -> Reqs]
  BY BytesStay
<1>5. CASE Enqueue(q) /\ To(q, "waiting")
  <2>1. /\ QueueInv'
        /\ running' \cup {queue'[i] : i \in 1 .. Len(queue')} \subseteq
              running \cup {queue[i] : i \in 1 .. Len(queue)} \cup {q}
    BY <1>1, <1>5, EnqueueDoes DEF IInv
  <2>2. /\ req'[q].phase = "waiting"
        /\ \A p \in Requests : p # q => req'[p] = req[p]
    BY <1>4, <1>5 DEF To, Reqs
  <2>3. AllWait'
    BY <2>1, <2>2 DEF IInv, AllWait
  <2>4. QED
    BY <1>1, <1>2, <1>3, <1>5, <2>1, <2>3, ToKeeps
<1>6. CASE To(q, "answered") /\ UNCHANGED limiterVars
  <2>1. \A p \in Requests : p # q => req'[p] = req[p]
    BY <1>4, <1>6 DEF To
  <2>2. QueueInv' /\ AllWait'
    BY <1>1, <1>6, <2>1, QueueRests
  <2>3. QED
    BY <1>1, <1>2, <1>3, <1>6, <2>2, ToKeeps
<1>7. QED
  BY <1>1, <1>5, <1>6

LEMMA S3AnswersKeeps ==
  ASSUME IInv, NEW q \in Requests, S3Answers(q)
  PROVE  IInv'
<1>1. /\ q \in running /\ Finish(q) /\ UNCHANGED <<accountVars, rateVars>>
      /\ To(q, "answered") \/ To(q, "failed")
  BY DEF S3Answers
<1>2. UNCHANGED <<accountVars, now, requests>> /\ bytes' \in [Users -> Entries]
  BY <1>1, BytesStay DEF rateVars
<1>3. /\ {"waiting", "answered", "failed"} \subseteq DecidedPhases
      /\ req[q].phase = "waiting"
  BY <1>1 DEF DecidedPhases, IInv, AllWait
<1>4. /\ QueueInv'
      /\ running' \cup {queue'[i] : i \in 1 .. Len(queue')} \subseteq
              (running \cup {queue[i] : i \in 1 .. Len(queue)}) \ {q}
  BY <1>1, FinishDoes DEF IInv
<1>5. \A p \in Requests : p # q => req'[p] = req[p]
  BY <1>1, BytesStay DEF To
<1>6. AllWait'
  BY <1>4, <1>5 DEF IInv, AllWait
<1>7. QED
  BY <1>1, <1>2, <1>3, <1>4, <1>6, ToKeeps

LEMMA ChargeBytesKeeps ==
  ASSUME IInv, NEW q \in Requests, ChargeBytes(q)
  PROVE  IInv'
<1>1. /\ req[q].phase = "admitted" /\ req[q].counter = "download"
      /\ UNCHANGED <<accountVars, now, requests, limiterVars>>
      /\ \/ To(q, "answered") /\ UNCHANGED bytes
         \/ \E n \in Sizes : \/ BytesPass(req[q].user, n) /\ To(q, "answered")
                             \/ BytesRefused(req[q].user, n) /\ To(q, "overQuota")
  BY DEF ChargeBytes
<1>2. {"admitted", "answered", "overQuota"} \subseteq DecidedPhases
  BY DEF DecidedPhases
<1>3. req[q].user \in Users
  BY <1>1 DEF IInv, KeysInv
<1>4. bytes' \in [Users -> Entries]
  <2>1. bytes \in [Users -> Entries] /\ now \in Nat /\ Window \in Nat
    BY RateAssumption DEF IInv, RequestsTyped
  <2>2. ASSUME NEW n \in Sizes, BytesPass(req[q].user, n) PROVE bytes' \in [Users -> Entries]
    <3>1. n \in Nat
      BY AdmissionAssumption
    <3>2. Fresh(n) \in Entries /\ bytes[req[q].user] \in Entries
      BY <1>3, <2>1, <3>1 DEF Fresh, Entries
    <3>3. QED
      BY <1>3, <2>1, <2>2, <3>1, <3>2 DEF BytesPass, Entries
  <2>3. QED
    BY <1>1, <2>1, <2>2 DEF BytesRefused
<1>5. To(q, "answered") \/ To(q, "overQuota")
  BY <1>1
<1>6. \A p \in Requests : p # q => req'[p] = req[p]
  BY <1>5, BytesStay DEF To
<1>7. QueueInv' /\ AllWait'
  BY <1>1, <1>6, QueueRests
<1>8. QED
  BY <1>1, <1>2, <1>4, <1>5, <1>7, ToKeeps

LEMMA TouchKeeps ==
  ASSUME IInv, NEW q \in Requests, req[q].phase = "found", TouchKey(q)
  PROVE  AccountsInv' /\ KeysGrow
<1>1. req[q].key \in Keys /\ keys \in [Keys -> Rows]
  BY DEF IInv, KeysInv, AccountsInv, AccountsTyped
<1>2. KeysGrow
  BY <1>1 DEF TouchKey, KeysGrow, Grow, Rows
<1>3. QED
  BY <1>2, RowsKeep DEF TouchKey, IInv

LEMMA CountGrows ==
  ASSUME NEW c, NEW u, NEW a, NEW b, NEW d, NEW e,
         Passed(c, u, a, b) \subseteq Passed(c, u, d, e)
  PROVE  Count(c, u, a, b) <= Count(c, u, d, e)
BY PassedCounts, FS_Subset DEF Count

LEMMA RateTypes ==
  ASSUME IInv
  PROVE  /\ now \in Nat \ {0} /\ Window \in Nat \ {0} /\ Limit \in Nat \ {0}
         /\ requests \in [Counters -> [Users -> Entries]]
         /\ \A c \in Counters, u \in Users :
              /\ requests[c][u] \in Entries
              /\ requests[c][u].used \in Nat /\ requests[c][u].expiresAt \in Nat
<1>1. now \in Nat \ {0} /\ requests \in [Counters -> [Users -> Entries]]
  BY DEF IInv, RequestsTyped
<1>2. \A c \in Counters, u \in Users : requests[c][u] \in Entries
  BY <1>1
<1>3. QED
  BY <1>1, <1>2, RateAssumption DEF Entries

LEMMA RefuseKeeps ==
  ASSUME IInv, NEW q \in Requests, Refuse(q)
  PROVE  IInv'
<1> DEFINE c == req[q].counter
           u == req[q].user
           r == [req[q] EXCEPT !.phase = "refused", !.at = now]
           e == requests[c][u]
<1>1. /\ req[q].phase = "found" /\ TouchKey(q) /\ req' = [req EXCEPT ![q] = r]
      /\ UNCHANGED <<now, bytes, limiterVars>>
      /\ ~Expired(e) /\ ~HasRoom(e) /\ requests' = [requests EXCEPT ![c][u] = e]
  BY DEF Refuse, RequestRefused, Refused, Decided
<1>2. req[q] \in Reqs /\ KeyOk(req[q], keys) /\ now \in Nat
  BY BytesStay DEF IInv, KeysInv, KeyOk, RequestsTyped
<1>3. c \in Counters /\ u \in Users
  BY <1>1, <1>2 DEF Reqs, KeyOk
<1>4. requests' = requests
  BY <1>1, <1>3, RateTypes
<1>5. /\ r \in Reqs /\ r.phase = "refused" /\ r.user = u /\ r.counter = c
      /\ r.key = req[q].key /\ r.late = req[q].late /\ r.at = now
  BY <1>2 DEF Reqs, Phases
<1>6. Deserved(r)
  <2>1. PICK T \in Int : Windowed(c, u, T)
    BY <1>3 DEF IInv, WindowsInv
  <2>2. /\ T + Window = e.expiresAt /\ Count(c, u, T, now) = e.used
        /\ e.expiresAt >= now /\ e.used >= Limit
    <3>1. ~Expired(e) => T + Window = e.expiresAt /\ Count(c, u, T, now) = e.used
      BY <2>1 DEF Windowed
    <3>2. e.expiresAt >= now /\ e.used >= Limit
      BY <1>1, <1>3, RateTypes DEF Expired, HasRoom
    <3>3. QED
      BY <1>1, <3>1, <3>2
  <2> DEFINE from == IF now > Window THEN now - Window ELSE 0
  <2>3. \A p \in Passed(c, u, T, now) : req[p].at >= from
    <3>1. \A p \in Passed(c, u, T, now) : req[p].at \in Nat /\ req[p].at >= T
      BY BytesStay DEF Passed
    <3>2. T >= now - Window
      BY <2>1, <2>2, RateTypes
    <3>3. QED
      BY <2>1, <3>1, <3>2, RateTypes
  <2>4. Passed(c, u, T, now) \subseteq Passed(c, u, from, now)
    BY <2>3 DEF Passed
  <2> HIDE DEF from, c, u, e
  <2>5. Count(c, u, T, now) <= Count(c, u, from, now)
    BY <2>4, CountGrows
  <2>6. Count(c, u, from, now) >= Limit
    BY <2>2, <2>5, PassedCounts, RateTypes
  <2>7. QED
    BY <1>5, <2>6 DEF Deserved, from
<1> HIDE DEF r
<1>7. AccountsInv' /\ KeysGrow
  BY <1>1, TouchKeeps
<1>8. KeyOk(r, keys')
  <2>1. KeyOk(req[q], keys')
    BY <1>2, <1>7, KeysStay
  <2>2. QED
    BY <1>1, <1>3, <1>5, <2>1 DEF KeyOk
<1>9. \A p \in Requests : p # q => req'[p] = req[p]
  BY <1>1, BytesStay
<1>10. QueueInv' /\ AllWait'
  BY <1>1, <1>9, QueueRests
<1>11. "refused" \notin DecidedPhases /\ "found" \notin DecidedPhases
  BY DEF DecidedPhases
<1>12. /\ r.phase \notin DecidedPhases /\ req[q].phase \notin DecidedPhases /\ r.at <= now
       /\ UNCHANGED <<now, requests>> /\ bytes' \in [Users -> Entries]
  BY <1>1, <1>2, <1>4, <1>5, <1>11, BytesStay
<1> HIDE DEF c, u, e
<1>13. QED
  BY <1>1, <1>5, <1>6, <1>7, <1>8, <1>10, <1>12, MoveKeeps

-----------------------------------------------------------------------------
(* A request passes                                                        *)
LEMMA TwoParts ==
  ASSUME NEW A, NEW B, NEW C, NEW n \in Nat, NEW m \in Nat, IsFiniteSet(A), IsFiniteSet(B),
         C \subseteq A \cup B, Cardinality(A) <= n, Cardinality(B) <= m
  PROVE  Cardinality(C) <= n + m
<1>1. /\ IsFiniteSet(A \cup B)
      /\ Cardinality(A \cup B) = Cardinality(A) + Cardinality(B) - Cardinality(A \cap B)
  BY FS_Union
<1>2. IsFiniteSet(A \cap B) /\ IsFiniteSet(C) /\ Cardinality(C) <= Cardinality(A \cup B)
  BY <1>1, FS_Subset, FS_Intersection
<1>3. /\ Cardinality(A) \in Nat /\ Cardinality(B) \in Nat /\ Cardinality(A \cap B) \in Nat
      /\ Cardinality(C) \in Nat /\ Cardinality(A \cup B) \in Nat
  BY <1>1, <1>2, FS_CardinalityType
<1>4. QED
  BY <1>1, <1>2, <1>3

(* The request q of user u passes the limit of c now.                      *)
Passes(q, c, u) ==
  /\ req[q].phase \notin DecidedPhases /\ req'[q].phase \in DecidedPhases
  /\ req'[q].counter = c /\ req'[q].user = u /\ req'[q].at = now
  /\ \A p \in Requests : p # q => req'[p] = req[p]
LEMMA PassedGrows ==
  ASSUME NEW q \in Requests, NEW c, NEW u, Passes(q, c, u),
         NEW d, NEW v, NEW a \in Int, NEW b \in Int, now \in Int
  PROVE  /\ Passed(d, v, a, b) \subseteq Passed(d, v, a, b)'
         /\ Count(d, v, a, b) <= Count(d, v, a, b)'
         /\ d = c /\ v = u /\ a <= now /\ now <= b =>
              /\ Passed(d, v, a, b)' = Passed(d, v, a, b) \cup {q}
              /\ Count(d, v, a, b)' = Count(d, v, a, b) + 1
         /\ ~(d = c /\ v = u /\ a <= now /\ now <= b) =>
              /\ Passed(d, v, a, b)' = Passed(d, v, a, b)
              /\ Count(d, v, a, b)' = Count(d, v, a, b)
<1>1. q \notin Passed(d, v, a, b)
  BY DEF Passed, Passes
<1>2. \A p \in Requests : p # q => (p \in Passed(d, v, a, b)' <=> p \in Passed(d, v, a, b))
  BY DEF Passed, Passes
<1>3. q \in Passed(d, v, a, b)' <=> (d = c /\ v = u /\ a <= now /\ now <= b)
  BY DEF Passed, Passes
<1>4. Passed(d, v, a, b) \subseteq Requests /\ Passed(d, v, a, b)' \subseteq Requests
  BY DEF Passed
<1>5. /\ Passed(d, v, a, b) \subseteq Passed(d, v, a, b)'
      /\ (d = c /\ v = u /\ a <= now /\ now <= b) =>
            Passed(d, v, a, b)' = Passed(d, v, a, b) \cup {q}
      /\ ~(d = c /\ v = u /\ a <= now /\ now <= b) =>
            Passed(d, v, a, b)' = Passed(d, v, a, b)
  BY <1>1, <1>2, <1>3, <1>4
<1>6. Count(d, v, a, b) <= Count(d, v, a, b)'
  BY <1>5, PassedCounts, FS_Subset DEF Count
<1>7. Cardinality(Passed(d, v, a, b) \cup {q}) = Cardinality(Passed(d, v, a, b)) + 1
  BY <1>1, PassedCounts, FS_AddElement
<1>8. QED
  BY <1>5, <1>6, <1>7 DEF Count

Charged(c, u) ==
  /\ Expired(requests[c][u]) \/ HasRoom(requests[c][u])
  /\ requests'[c][u] = IF Expired(requests[c][u]) THEN Fresh(1)
                       ELSE [requests[c][u] EXCEPT !.used = @ + 1]
LEMMA WindowAdmits ==
  ASSUME IInv, NEW c \in Counters, NEW u \in Users, NEW q \in Requests, Passes(q, c, u),
         now' = now, NotAhead', Charged(c, u)
  PROVE  \E T \in Int : Windowed(c, u, T)'
<1> DEFINE e == requests[c][u]
<1>1. /\ now \in Nat \ {0} /\ Window \in Nat \ {0} /\ Limit \in Nat \ {0}
      /\ e \in Entries /\ e.used \in Nat /\ e.expiresAt \in Nat
  BY RateTypes
<1>2. PICK T \in Int : Windowed(c, u, T)
  BY DEF IInv, WindowsInv
<1>3. /\ T <= now /\ e.used <= Limit
      /\ Expired(e) => T + Window < now
      /\ ~Expired(e) => /\ T + Window = e.expiresAt /\ Count(c, u, T, now) = e.used
                        /\ Count(c, u, T + 1, now) < e.used
      /\ Count(c, u, T, now) <= Limit /\ Count(c, u, T + 1, now) <= Limit - 1
      /\ \A p \in Passed(c, u, T, now) : req[p].at <= T + Window
      /\ \A s \in Int : s >= T - Window => Count(c, u, s, T - 1) <= Limit - 1
      /\ \A s \in Int : Count(c, u, s, s + Window) <= 2 * Limit - 1
  BY <1>2 DEF Windowed
<1>4. \A p \in Requests : req[p].at \in Nat /\ req'[p].at \in Nat /\ req'[p].at <= now
  BY <1>1, BytesStay DEF Passes, NotAhead
<1>5. \A a, b \in Int :
         /\ a <= now /\ now <= b => Count(c, u, a, b)' = Count(c, u, a, b) + 1
         /\ ~(a <= now /\ now <= b) => Count(c, u, a, b)' = Count(c, u, a, b)
  <2>1. TAKE a \in Int, b \in Int
  <2>2. now \in Int
    BY <1>1
  <2> HIDE DEF e
  <2>3. QED
    BY ONLY Passes(q, c, u), <2>2, PassedGrows
<1>6. ASSUME NEW t \in Int, t <= now, Count(c, u, t, now)' <= Limit,
             \A s \in Int : s >= t - Window => Count(c, u, s, t - 1)' <= Limit - 1
      PROVE  \A s \in Int : Count(c, u, s, s + Window)' <= 2 * Limit - 1
  <2> SUFFICES ASSUME NEW s \in Int PROVE Count(c, u, s, s + Window)' <= 2 * Limit - 1
    OBVIOUS
  <2>1. CASE s >= t - Window
    <3>1. Passed(c, u, s, s + Window)' \subseteq Passed(c, u, s, t - 1)' \cup Passed(c, u, t, now)'
      BY <1>1, <1>4, <1>6 DEF Passed
    <3>2. Count(c, u, s, t - 1)' <= Limit - 1
      BY <1>6, <2>1
    <3>3. Limit \in Nat /\ Limit - 1 \in Nat /\ Limit - 1 + Limit = 2 * Limit - 1
      BY <1>1
    <3>4. Count(c, u, s, s + Window)' <= Limit - 1 + Limit
      BY <1>6, <3>1, <3>2, <3>3, PassedCounts, TwoParts DEF Count
    <3>5. QED
      BY <3>3, <3>4
  <2>2. CASE ~(s >= t - Window)
    <3>1. ~ (now <= s + Window) /\ s + Window \in Int
      BY <1>1, <1>6, <2>2
    <3>2. Count(c, u, s, s + Window)' = Count(c, u, s, s + Window)
      BY <1>1, <3>1, <1>5
    <3>3. QED
      BY <1>3, <3>2
  <2>3. QED
    BY <2>1, <2>2
<1> HIDE DEF e
<1>7. CASE Expired(e)
  <2>1. requests'[c][u] = [used |-> 1, expiresAt |-> now + Window]
    BY <1>7 DEF e, Fresh, Charged
  <2>2. Count(c, u, now, now) = 0
    <3>1. \A p \in Passed(c, u, now, now) : req[p].at = now /\ p \in Passed(c, u, T, now)
      BY <1>1, <1>3, <1>4 DEF Passed
    <3>2. Passed(c, u, now, now) = {}
      BY <1>1, <1>3, <1>7, <3>1
    <3>3. QED
      BY <3>2, FS_EmptySet DEF Count
  <2>3. Count(c, u, now, now)' = 1 /\ Count(c, u, now, now)' <= Limit
    BY <1>1, <2>2, <1>5
  <2>4. Count(c, u, now + 1, now)' = 0
    <3>1. Passed(c, u, now + 1, now)' = {}
      BY <1>1, <1>4 DEF Passed
    <3>2. QED
      BY <3>1, FS_EmptySet DEF Count
  <2>5. ASSUME NEW s \in Int, s >= now - Window PROVE Count(c, u, s, now - 1)' <= Limit - 1
    <3>1. Count(c, u, s, now - 1)' = Count(c, u, s, now - 1)
      BY <1>1, <1>5
    <3>2. s >= T + 1
      BY <1>1, <1>3, <1>7, <2>5
    <3>3. Passed(c, u, s, now - 1) \subseteq Passed(c, u, T + 1, now)
      BY <1>1, <1>4, <3>2 DEF Passed
    <3>4. Count(c, u, s, now - 1) <= Count(c, u, T + 1, now)
      BY <3>3, CountGrows
    <3>5. QED
      BY <1>1, <1>3, <3>1, <3>4, PassedCounts
  <2>6. \A s \in Int : Count(c, u, s, s + Window)' <= 2 * Limit - 1
    BY <1>1, <1>6, <2>3, <2>5
  <2>7. \A p \in Passed(c, u, now, now)' : req'[p].at <= now + Window
    BY <1>1, <1>4 DEF Passed
  <2>8. Windowed(c, u, now)'
    BY <1>1, <2>1, <2>3, <2>4, <2>5, <2>6, <2>7 DEF Windowed, Expired
  <2>9. QED
    BY <1>1, <2>8
<1>8. CASE ~Expired(e)
  <2>1. /\ requests'[c][u].used = e.used + 1 /\ requests'[c][u].expiresAt = e.expiresAt
        /\ e.used < Limit
    BY <1>1, <1>8 DEF e, HasRoom, Entries, Charged
  <2>2. T + Window = e.expiresAt /\ Count(c, u, T, now) = e.used /\ now <= e.expiresAt
    BY <1>1, <1>3, <1>8 DEF Expired
  <2>3. Count(c, u, T, now)' = e.used + 1 /\ Count(c, u, T, now)' <= Limit
    BY <1>1, <1>3, <2>1, <2>2, <1>5
  <2>4. Count(c, u, T + 1, now)' < e.used + 1 /\ Count(c, u, T + 1, now)' <= Limit - 1
    <3>1. Count(c, u, T + 1, now) < e.used /\ Count(c, u, T + 1, now) \in Nat
      BY <1>3, <1>8, PassedCounts
    <3>2. Count(c, u, T + 1, now)' <= Count(c, u, T + 1, now) + 1
      BY <1>1, <1>5, <3>1
    <3>3. Count(c, u, T + 1, now)' \in Nat
      BY PassedCounts
    <3>4. QED
      BY <1>1, <2>1, <3>1, <3>2, <3>3
  <2>5. ASSUME NEW s \in Int, s >= T - Window PROVE Count(c, u, s, T - 1)' <= Limit - 1
    <3>1. ~ (now <= T - 1) /\ T - 1 \in Int
      BY <1>1, <1>3
    <3>2. Count(c, u, s, T - 1)' = Count(c, u, s, T - 1)
      BY <1>1, <3>1, <1>5
    <3>3. QED
      BY <1>3, <2>5, <3>2
  <2>6. \A s \in Int : Count(c, u, s, s + Window)' <= 2 * Limit - 1
    BY <1>3, <1>6, <2>3, <2>5
  <2>7. \A p \in Passed(c, u, T, now)' : req'[p].at <= T + Window
    BY <1>1, <1>4, <2>2 DEF Passed
  <2>8. Windowed(c, u, T)'
    BY <1>1, <1>3, <2>1, <2>2, <2>3, <2>4, <2>5, <2>6, <2>7 DEF Windowed, Expired
  <2>9. QED
    BY <2>8
<1>9. QED
  BY <1>7, <1>8

(* The other users and the other counters have what they had.                *)
LEMMA WindowApart ==
  ASSUME IInv, NEW q \in Requests, NEW c, NEW u, Passes(q, c, u), now' = now,
         NEW d \in Counters, NEW v \in Users, d # c \/ v # u,
         requests'[d][v] = requests[d][v]
  PROVE  \E T \in Int : Windowed(d, v, T)'
<1>1. PICK T \in Int : Windowed(d, v, T)
  BY DEF IInv, WindowsInv
<1>2. \A from, to : Passed(d, v, from, to)' = Passed(d, v, from, to)
  BY DEF Passed, Passes
<1>3. \A p \in Requests : req[p].phase \in DecidedPhases => req'[p].at = req[p].at
  BY DEF Passes
<1>4. QED
  BY <1>1, <1>2, <1>3, WindowedSame

(* What was refused before stays deserved: the counts of the past grow.    *)
LEMMA RefusalsLast ==
  ASSUME IInv, NEW q \in Requests, NEW c, NEW u, Passes(q, c, u)
  PROVE  RefusalIsDeserved'
<1>1. "refused" \notin DecidedPhases
  BY DEF DecidedPhases
<1>2. ASSUME NEW p \in Requests, NEW d, NEW v, NEW a, req'[p].phase = "refused",
             req'[p].counter = d, req'[p].user = v, req'[p].at = a
      PROVE  Count(d, v, IF a > Window THEN a - Window ELSE 0, a)' >= Limit
  <2>1. p # q /\ req'[p] = req[p]
    BY <1>1, <1>2 DEF Passes
  <2>2. Count(d, v, IF a > Window THEN a - Window ELSE 0, a) >= Limit
    BY <1>2, <2>1 DEF IInv, RefusalIsDeserved, Count
  <2> DEFINE from == IF a > Window THEN a - Window ELSE 0
  <2>3. a \in Int /\ from \in Int /\ now \in Int /\ Limit \in Int
    BY <1>2, <2>1, BytesStay, RateTypes
  <2> HIDE DEF from
  <2>4. Count(d, v, from, a) <= Count(d, v, from, a)'
    BY ONLY Passes(q, c, u), <2>3, PassedGrows
  <2>5. Count(d, v, from, a) >= Limit
    BY <2>2 DEF from
  <2>6. Count(d, v, from, a)' >= Limit
    BY <2>3, <2>4, <2>5, PassedCounts
  <2>7. QED
    BY <2>6 DEF from
<1>3. QED
  BY <1>2, RefusalsAre

LEMMA AdmitKeeps ==
  ASSUME IInv, NEW q \in Requests, Admit(q)
  PROVE  IInv'
<1> DEFINE c == req[q].counter
           u == req[q].user
           r == [req[q] EXCEPT !.phase = "admitted", !.at = now]
           e == requests[c][u]
           f == IF Expired(e) THEN Fresh(1) ELSE [e EXCEPT !.used = @ + 1]
<1>1. /\ req[q].phase = "found" /\ TouchKey(q) /\ req' = [req EXCEPT ![q] = r]
      /\ UNCHANGED <<now, bytes, limiterVars>>
      /\ Expired(e) \/ HasRoom(e)
      /\ requests' = [requests EXCEPT ![c][u] = f]
  BY DEF Admit, RequestPasses, Decided
<1>2. req[q] \in Reqs /\ KeyOk(req[q], keys) /\ now \in Nat
  BY BytesStay DEF IInv, KeysInv, KeyOk, RequestsTyped
<1>3. c \in Counters /\ u \in Users
  BY <1>1, <1>2 DEF Reqs, KeyOk
<1>4. /\ r \in Reqs /\ r.phase = "admitted" /\ r.user = u /\ r.counter = c
      /\ r.key = req[q].key /\ r.late = req[q].late /\ r.at = now
  BY <1>2 DEF Reqs, Phases, DecidedPhases
<1>5. f \in Entries
  <2>1. now + Window \in Nat
    BY RateTypes
  <2>2. e \in Entries /\ e.used + 1 \in Nat
    BY <1>3, RateTypes
  <2> HIDE DEF e
  <2>3. QED
    BY <2>1, <2>2 DEF Entries, Fresh
<1>6. \A p \in Requests : p # q => req'[p] = req[p]
  BY <1>1, BytesStay
<1>7. req'[q] = r
  BY <1>1, BytesStay
<1> HIDE DEF f
<1>8. /\ requests' \in [Counters -> [Users -> Entries]] /\ requests'[c][u] = f
      /\ \A d \in Counters, v \in Users : d # c \/ v # u => requests'[d][v] = requests[d][v]
  BY <1>1, <1>3, <1>5, RateTypes
<1>9. Charged(c, u)
  BY <1>1, <1>8 DEF Charged, f
<1> HIDE DEF r
<1>10. Passes(q, c, u)
  BY <1>1, <1>4, <1>6, <1>7 DEF Passes, DecidedPhases
<1>11. AccountsInv' /\ KeysGrow
  BY <1>1, TouchKeeps
<1>12. KeyOk(r, keys')
  <2>1. KeyOk(req[q], keys')
    BY <1>2, <1>11, KeysStay
  <2>2. QED
    BY <1>1, <1>3, <1>4, <2>1 DEF KeyOk
<1>13. QueueInv' /\ AllWait'
  BY <1>1, <1>6, QueueRests
<1>14. RequestsTyped'
  <2>1. req' \in [Requests -> Reqs]
    BY <1>1, <1>4, BytesStay
  <2>2. QED
    BY <1>1, <1>8, <2>1 DEF IInv, RequestsTyped
<1>15. KeysInv'
  BY <1>1, <1>4, <1>11, <1>12, <1>14, KeysMove
<1>16. NotAhead'
  BY <1>1, <1>2, <1>4, <1>6, <1>7 DEF IInv, NotAhead
<1> HIDE DEF c, u, e
<1>17. WindowsInv'
  <2>1. ASSUME NEW d \in Counters, NEW v \in Users PROVE \E T \in Int : Windowed(d, v, T)'
    <3>1. CASE d = c /\ v = u
      BY <1>1, <1>9, <1>10, <1>16, <3>1, WindowAdmits
    <3>2. CASE ~(d = c /\ v = u)
      BY <1>1, <1>8, <1>10, <3>2, WindowApart
    <3>3. QED
      BY <3>1, <3>2
  <2>2. QED
    BY <2>1 DEF WindowsInv
<1>18. RefusalIsDeserved'
  BY <1>10, RefusalsLast
<1>19. QED
  BY <1>11, <1>13, <1>14, <1>15, <1>16, <1>17, <1>18 DEF IInv

-----------------------------------------------------------------------------
(* The clock, the sweep and the keys page                                  *)
LEMMA TickKeeps ==
  ASSUME IInv, Tick, UNCHANGED <<accountVars, limiterVars, req>>
  PROVE  IInv'
<1>1. /\ now \in Nat \ {0} /\ now' = now + 1 /\ requests' = requests /\ bytes' = bytes
      /\ req' = req
  BY RateTypes DEF Tick
<1>2. RequestsTyped' /\ NotAhead'
  BY <1>1, BytesStay DEF IInv, RequestsTyped, NotAhead
<1>3. AccountsInv' /\ keys' = keys
  BY AccountsRest DEF IInv, accountVars
<1>4. KeysInv' /\ RefusalIsDeserved'
  BY <1>1, <1>3 DEF IInv, KeysInv, RefusalIsDeserved, Passed
<1>5. QueueInv' /\ AllWait'
  BY <1>1 DEF IInv, QueueInv, AllWait, limiterVars
<1>6. ASSUME NEW c \in Counters, NEW u \in Users, NEW T \in Int, Windowed(c, u, T)
      PROVE  Windowed(c, u, T)'
  <2>1. \A from, to : Count(c, u, from, to)' = Count(c, u, from, to)
    BY <1>1 DEF Count, Passed
  <2>2. Passed(c, u, T, now)' = Passed(c, u, T, now)
    BY <1>1, BytesStay DEF Passed
  <2>3. Count(c, u, T, now)' = Count(c, u, T, now)
    BY <2>2 DEF Count
  <2>4. Count(c, u, T + 1, now)' = Count(c, u, T + 1, now)
    <3>1. Passed(c, u, T + 1, now)' = Passed(c, u, T + 1, now)
      BY <1>1, BytesStay DEF Passed
    <3>2. QED
      BY <3>1 DEF Count
  <2>5. requests[c][u].expiresAt \in Nat /\ Window \in Nat
    BY RateTypes
  <2>6. Expired(requests[c][u]) => T + Window < now
    BY <1>6 DEF Windowed
  <2>7. ~Expired(requests[c][u]) =>
          /\ T + Window = requests[c][u].expiresAt /\ Count(c, u, T, now) = requests[c][u].used
          /\ Count(c, u, T + 1, now) < requests[c][u].used
    BY <1>6 DEF Windowed
  <2>8. Expired(requests[c][u])' => T + Window < now + 1
    BY <1>1, <2>5, <2>6, <2>7 DEF Expired
  <2>9. ~Expired(requests[c][u])' => ~Expired(requests[c][u])
    BY <1>1, <2>5 DEF Expired
  <2>10. T <= now'
    BY <1>1, <1>6 DEF Windowed
  <2>11. /\ requests[c][u].used <= Limit /\ Count(c, u, T, now) <= Limit
         /\ Count(c, u, T + 1, now) <= Limit - 1
         /\ \A p \in Passed(c, u, T, now) : req[p].at <= T + Window
         /\ \A s \in Int : s >= T - Window => Count(c, u, s, T - 1) <= Limit - 1
         /\ \A s \in Int : Count(c, u, s, s + Window) <= 2 * Limit - 1
    BY <1>6 DEF Windowed
  <2>12. QED
    BY <1>1, <2>1, <2>2, <2>3, <2>4, <2>7, <2>8, <2>9, <2>10, <2>11 DEF Windowed
<1>7. WindowsInv'
  <2>1. \A c \in Counters, u \in Users : \E T \in Int : Windowed(c, u, T)
    BY DEF IInv, WindowsInv
  <2>2. QED
    BY <1>6, <2>1 DEF WindowsInv
<1>8. QED
  BY <1>2, <1>3, <1>4, <1>5, <1>7 DEF IInv

LEMMA SweepKeeps ==
  ASSUME IInv, Sweep, UNCHANGED <<accountVars, limiterVars, req>>
  PROVE  IInv'
<1>1. now \in Nat \ {0} /\ now' = now /\ req' = req
  BY RateTypes DEF Sweep
<1>2. NoEntry \in Entries /\ NoEntry.used = 0 /\ NoEntry.expiresAt = 0
  BY DEF NoEntry, Entries
<1>3. \A c \in Counters, u \in Users :
        requests'[c][u] = IF Expired(requests[c][u]) THEN NoEntry ELSE requests[c][u]
  BY DEF Sweep, Swept
<1>4. RequestsTyped' /\ NotAhead'
  BY <1>1, <1>2 DEF IInv, RequestsTyped, NotAhead, Sweep, Swept
<1>5. AccountsInv' /\ keys' = keys
  BY AccountsRest DEF IInv, accountVars
<1>6. KeysInv' /\ RefusalIsDeserved'
  BY <1>1, <1>5 DEF IInv, KeysInv, RefusalIsDeserved, Passed
<1>7. QueueInv' /\ AllWait'
  BY <1>1 DEF IInv, QueueInv, AllWait, limiterVars
<1>8. ASSUME NEW c \in Counters, NEW u \in Users, NEW T \in Int, Windowed(c, u, T)
      PROVE  Windowed(c, u, T)'
  <2>1. CASE Expired(requests[c][u])
    <3>1. requests'[c][u] = NoEntry
      BY <1>3, <2>1
    <3>2. Expired(NoEntry)'
      BY <1>1, <1>2 DEF Expired
    <3>3. NoEntry.used <= Limit
      BY <1>2, RateTypes
    <3>4. \A from, to : Count(c, u, from, to)' = Count(c, u, from, to)
      BY <1>1 DEF Count, Passed
    <3>5. Passed(c, u, T, now)' = Passed(c, u, T, now)
      BY <1>1 DEF Passed
    <3>6. /\ T <= now /\ T + Window < now /\ Count(c, u, T, now) <= Limit
          /\ Count(c, u, T + 1, now) <= Limit - 1
          /\ \A p \in Passed(c, u, T, now) : req[p].at <= T + Window
          /\ \A s \in Int : s >= T - Window => Count(c, u, s, T - 1) <= Limit - 1
          /\ \A s \in Int : Count(c, u, s, s + Window) <= 2 * Limit - 1
      BY <1>8, <2>1 DEF Windowed
    <3>7. QED
      BY <1>1, <3>1, <3>2, <3>3, <3>4, <3>5, <3>6 DEF Windowed
  <2>2. CASE ~Expired(requests[c][u])
    <3>1. requests'[c][u] = requests[c][u]
      BY <1>3, <2>2
    <3>2. NonePass
      BY <1>1 DEF NonePass
    <3>3. QED
      BY <1>1, <1>8, <3>1, <3>2, WindowedStays
  <2>3. QED
    BY <2>1, <2>2
<1>9. WindowsInv'
  <2>1. \A c \in Counters, u \in Users : \E T \in Int : Windowed(c, u, T)
    BY DEF IInv, WindowsInv
  <2>2. QED
    BY <1>8, <2>1 DEF WindowsInv
<1>10. QED
  BY <1>4, <1>5, <1>6, <1>7, <1>9 DEF IInv

(* Requests rest while the forms and the keys pages go on.                 *)
LEMMA RestKeeps ==
  ASSUME IInv, UNCHANGED <<rateVars, limiterVars, req>>, AccountsInv', KeysInv'
  PROVE  IInv'
<1>1. req' = req /\ now' = now /\ requests' = requests /\ bytes' = bytes
  BY DEF rateVars
<1>2. RequestsTyped'
  BY <1>1 DEF IInv, RequestsTyped
<1>3. QueueInv' /\ AllWait'
  BY <1>1 DEF IInv, QueueInv, AllWait, limiterVars
<1>4. NonePass
  BY <1>1 DEF NonePass
<1>5. WindowsInv' /\ NotAhead' /\ RefusalIsDeserved'
  <2>1. \A q \in Requests : req'[q].at <= now
    BY <1>1, BytesStay
  <2>2. QED
    BY <1>1, <1>4, <2>1, LimitsStay
<1>6. QED
  BY <1>2, <1>3, <1>5 DEF IInv

LEMMA RowsGrow ==
  ASSUME IInv, KeysGrow, req' = req PROVE KeysInv'
<1>1. ASSUME NEW q \in Requests PROVE KeyOk(req[q], keys')
  BY KeysStay, BytesStay
<1>2. QED
  BY <1>1 DEF KeyOk, KeysInv

LEMMA BeforeRequestsKeeps ==
  ASSUME IInv, ~Started, AccountsNext, UNCHANGED <<rateVars, limiterVars, req>>
  PROVE  IInv'
<1>1. AccountsInv'
  BY AccountsKeep DEF IInv
<1>2. \A q \in Requests : req[q].phase = "unsent" /\ ~req[q].late
  BY DEF IInv, KeysInv, Started
<1>3. KeysInv'
  BY <1>2 DEF KeysInv
<1>4. QED
  BY <1>1, <1>3, RestKeeps

-----------------------------------------------------------------------------
(* The behaviours                                                          *)
LEMMA InitHolds == Init => IInv
<1> SUFFICES ASSUME Init PROVE IInv
  OBVIOUS
<1> USE DEF Init
<1>1. AccountsTyped
  <2>1. Login \in Forms /\ Closed \in Pages /\ NoRow \in Rows
    BY DEF Login, Forms, Steps, Owners, Closed, Pages, Lists, NoRow, Rows
  <2>2. users = {} /\ IsFiniteSet(users)
    BY FS_EmptySet DEF AccountsInit
  <2>3. QED
    BY <2>1, <2>2, AccountsAssumption DEF AccountsInit, AccountsTyped, Owners
<1>2. \A b \in Browsers : form[b] = Login /\ page[b] = Closed
  BY DEF AccountsInit
<1>3. IdsSuffice
  <2>1. Signing = {} /\ users = {} /\ forms = 0
    BY <1>2 DEF Signing, Login, AccountsInit
  <2>2. Cardinality({}) = 0
    BY FS_EmptySet
  <2>3. QED
    BY <2>1, <2>2 DEF IdsSuffice
<1>4. FormsInv /\ PagesInv
  BY <1>2 DEF FormsInv, PagesInv, PageOk, Shows, Login, Closed
<1>5. \A q \in Requests : req[q] = NotSent
  OBVIOUS
<1>6. now = 1 /\ \A c \in Counters, u \in Users : requests[c][u] = NoEntry
  BY DEF RateInit
<1>7. RequestsTyped
  <2>1. NotSent \in Reqs
    BY DEF NotSent, Reqs, Phases, Counters
  <2>2. NoEntry \in Entries
    BY DEF NoEntry, Entries
  <2>3. QED
    BY <1>6, <2>1, <2>2 DEF RequestsTyped, RateInit
<1>8. KeysInv /\ NotAhead /\ RefusalIsDeserved
  BY <1>5, <1>6 DEF KeysInv, NotAhead, RefusalIsDeserved, NotSent
<1>9. WindowsInv
  <2> SUFFICES ASSUME NEW c \in Counters, NEW u \in Users
               PROVE  \E T \in Int : Windowed(c, u, T)
    BY DEF WindowsInv
  <2>1. Window \in Nat \ {0} /\ Limit \in Nat \ {0}
    BY RateAssumption
  <2>2. \A from, to : Passed(c, u, from, to) = {} /\ Count(c, u, from, to) = 0
    <3>1. \A from, to : Passed(c, u, from, to) = {}
      BY <1>5 DEF Passed, NotSent, DecidedPhases
    <3>2. QED
      BY <3>1, FS_EmptySet DEF Count
  <2>3. requests[c][u].used = 0 /\ Expired(requests[c][u])
    BY <1>6 DEF NoEntry, Expired
  <2> DEFINE T == 0 - Window
  <2>4. T \in Int /\ T <= now /\ T + Window < now
    BY <1>6, <2>1
  <2> HIDE DEF T
  <2>5. 0 <= Limit /\ 0 <= Limit - 1 /\ 0 <= 2 * Limit - 1
    BY <2>1
  <2>6. Windowed(c, u, T)
    BY <2>2, <2>3, <2>4, <2>5 DEF Windowed
  <2>7. QED
    BY <2>4, <2>6
<1>10. QueueInv
  <2>1. queue = <<>> /\ active = 0 /\ running = {} /\ Cardinality({}) = 0
    BY FS_EmptySet DEF LimiterInit
  <2>2. QED
    BY <2>1, LimiterAssumption DEF QueueInv
<1>11. AllWait
  <2>1. queue = <<>> /\ running = {} /\ Len(<<>>) = 0
    BY DEF LimiterInit
  <2>2. QED
    BY <2>1 DEF AllWait
<1>12. QED
  BY <1>1, <1>3, <1>4, <1>7, <1>8, <1>9, <1>10, <1>11 DEF IInv, AccountsInv

LEMMA HandleKeeps ==
  ASSUME IInv, NEW q \in Requests, Handle(q) PROVE IInv'
<1>1. CASE SelectKey(q)
  BY <1>1, SelectKeyKeeps
<1>2. CASE Admit(q)
  BY <1>2, AdmitKeeps
<1>3. CASE Refuse(q)
  BY <1>3, RefuseKeeps
<1>4. CASE CallS3(q)
  BY <1>4, CallS3Keeps
<1>5. CASE ChargeBytes(q)
  BY <1>5, ChargeBytesKeeps
<1>6. CASE S3Answers(q)
  BY <1>6, S3AnswersKeeps
<1>7. QED
  BY <1>1, <1>2, <1>3, <1>4, <1>5, <1>6 DEF Handle

LEMMA NextKeeps == IInv /\ [Next]_vars => IInv'
<1> SUFFICES ASSUME IInv, [Next]_vars PROVE IInv'
  OBVIOUS
<1>1. CASE ~Started /\ AccountsNext /\ UNCHANGED <<rateVars, limiterVars, req>>
  BY <1>1, BeforeRequestsKeeps
<1>2. CASE /\ \E b \in Browsers : RevokeKey(b)
           /\ UNCHANGED <<rateVars, limiterVars, req>>
  <2>1. AccountsInv' /\ KeysGrow
    BY <1>2, RevokeKeyKeeps DEF IInv
  <2>2. KeysInv'
    BY <1>2, <2>1, RowsGrow
  <2>3. QED
    BY <1>2, <2>1, <2>2, RestKeeps
<1>3. CASE (Sweep \/ Tick) /\ UNCHANGED <<accountVars, limiterVars, req>>
  BY <1>3, SweepKeeps, TickKeeps
<1>4. CASE \E q \in Requests, c \in Counters, k \in Keys : Send(q, c, k)
  BY <1>4, SendKeeps
<1>5. CASE \E q \in Requests : Handle(q)
  BY <1>5, HandleKeeps
<1>6. CASE UNCHANGED vars
  <2>1. UNCHANGED <<accountVars, rateVars, limiterVars, req>>
    BY <1>6 DEF vars
  <2>2. AccountsInv' /\ KeysGrow
    BY <2>1, AccountsRest DEF IInv
  <2>3. KeysInv'
    BY <2>1, <2>2, RowsGrow
  <2>4. QED
    BY <2>1, <2>2, <2>3, RestKeeps
<1>7. QED
  BY <1>1, <1>2, <1>3, <1>4, <1>5, <1>6 DEF Next

(* The accounts, their pages, the windows and the queue keep their         *)
(* invariant (auth.functions.ts, api-keys.functions.ts, api-key-auth.ts,   *)
(* rate-limiter.ts and s3-limiter.ts together).                            *)
THEOREM Inductive == Spec => []IInv
<1>1. QED
  BY InitHolds, NextKeeps, PTL DEF Spec

(* Every variable has its type.                                            *)
THEOREM TypeCorrect == Spec => []TypeOK
<1>1. IInv => TypeOK
  BY DEF IInv, AccountsInv, QueueInv, TypeOK
<1>2. QED
  BY <1>1, Inductive, PTL

(* No span as long as a window takes in the openings of two windows, so it *)
(* lets at most 2 * Limit - 1 requests of a user through (rate-limiter.ts  *)
(* _checkRequestLimit), for every limit and every window.                  *)
THEOREM AtMostTwo == Spec => []AtMostTwoWindows
<1>1. IInv => AtMostTwoWindows
  <2>1. 0 .. MaxTime \subseteq Int
    OBVIOUS
  <2>2. IInv => \A c \in Counters, u \in Users : \A s \in Int : Count(c, u, s, s + Window) <= 2 * Limit - 1
    BY DEF IInv, WindowsInv, Windowed
  <2>3. QED
    BY <2>1, <2>2 DEF AtMostTwoWindows, Count
<1>2. QED
  BY <1>1, Inductive, PTL

(* A request is refused only where its budget was spent in the window      *)
(* before it (rate-limiter.ts _checkRequestLimit and its sweep).           *)
THEOREM RefusalsDeserved == Spec => []RefusalIsDeserved
<1>1. IInv => RefusalIsDeserved
  BY DEF IInv
<1>2. QED
  BY <1>1, Inductive, PTL

(* A key that is revoked when the request is sent opens nothing            *)
(* (api-key-auth.ts validateApiKey against revokeApiKey).                  *)
THEOREM RevokedStaysOut == Spec => []RevokedIsOut
<1>1. IInv => RevokedIsOut
  BY DEF IInv, KeysInv, RevokedIsOut
<1>2. QED
  BY <1>1, Inductive, PTL

(* What a browser has changed, its keys page shows, whatever answer was on *)
(* its way (keys.tsx, api-keys.functions.ts).                              *)
THEOREM OwnChanges == Spec => []OwnChangesShow
<1>1. IInv => OwnChangesShow
  BY DEF IInv, AccountsInv, PagesInv, PageOk, Shows, Mine, KeysOf, OwnChangesShow
<1>2. QED
  BY <1>1, Inductive, PTL

(* Never more than MaxConcurrent calls are at S3, and the counter says how *)
(* many there are, whichever failed (s3-limiter.ts).                       *)
THEOREM CallsLimited == Spec => []CallsAreLimited
<1>1. IInv => CallsAreLimited
  BY DEF IInv, QueueInv, CallsAreLimited
<1>2. QED
  BY <1>1, Inductive, PTL
=============================================================================
