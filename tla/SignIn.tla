------------------------------- MODULE SignIn -------------------------------
(***************************************************************************)
(* Signing in and being signed in: chassis/src/auth.rs, the auth routes of *)
(* server/src/handlers.rs, server/src/cors.rs and the page's               *)
(* web/composables/useUser.ts.                                             *)
(*                                                                         *)
(* /auth/login sets a state cookie and sends the browser to the issuer;    *)
(* the issuer sends it back to /auth/callback with the state and a code.   *)
(* The callback compares the state with the cookie, awaits the exchange of *)
(* the code for the subject's claims, upserts the users row and answers    *)
(* with a session cookie.  The server keeps no session: every request      *)
(* carries the cookie, and premium is read from the row.  A browser has    *)
(* one cookie jar for all its tabs, one of which shows the page.           *)
(***************************************************************************)
EXTENDS Naturals, FiniteSets

CONSTANTS
  Subjects,   \* people, as the issuer knows them (oidc_sub)
  Browsers,   \* cookie jars
  Ids,        \* users.id: enough for a row per subject
  Pages,      \* browsers with a tab that shows the page
  Foreign,    \* pages that were not served from CORS_ORIGIN
  Logins,     \* state tokens of the run; /auth/login draws an unused one
  MaxEvents,  \* bound of the run: restarts, lost cookies, ticks, calls of a
              \* page, changes of a profile or of a premium flag
  MaxCallbacks, \* bound of the run: callbacks handled at once
  SessionAge, \* SESSION_MAX_AGE_SECS
  None,       \* no cookie, no user, no claims yet, no login
  Anything    \* what a page shows is not determined by its last call

ASSUME SignInAssumption ==
  /\ Foreign \subseteq Pages /\ Pages \subseteq Browsers
  /\ {MaxEvents, MaxCallbacks, SessionAge} \subseteq Nat

Profiles == 0 .. MaxEvents

UserRow == [sub : Subjects, profile : Profiles, premium : BOOLEAN]

\* sub and login are what the session was issued for; the cookie has no such
\* fields, the properties need them.
Session == [uid : Ids, premium : BOOLEAN, exp : Nat, sub : Subjects, login : Logins]

\* late: the subject's row was written by somebody else since the exchange.
Callback ==
  [browser : Browsers, login : Logins, subject : Subjects, claims : Profiles \cup {None}, late : BOOLEAN]

Person == [id : Ids, premium : BOOLEAN]
Call == [of : {"fetch"}, answer : Person \cup {None}] \cup [of : {"logout"}, answer : {None}]

ASSUME NoneAssumption ==
  /\ None \notin UserRow \cup Session \cup Person
  /\ None \notin Logins \cup Subjects \cup Browsers \cup Nat
  /\ Anything \notin Person \cup {None}

VARIABLES
  provider,    \* the running server has an auth provider
  profile,     \* issuer: version of a subject's email, name and groups
  code,        \* issuer: for whom a login has an unspent authorization code
  begun,       \* the browser /auth/login answered with this state
  users,       \* users table
  now,         \* clock
  events,      \* what has happened beside sign-ins so far
  callbacks,   \* callbacks being handled
  stateCookie, \* oidc_state cookie of a browser
  session,     \* session cookie of a browser
  shown,       \* useUser's user.value in the page of a browser
  calls,       \* fetchUser and logout calls the page is awaiting
  expected     \* history: what the page's last call is to leave in user.value,
               \* Anything if it was made while another was awaited

issuerVars == <<profile, code>>
jarVars == <<stateCookie, session>>
pageVars == <<shown, calls, expected>>
vars == <<provider, issuerVars, begun, users, now, events, callbacks, jarVars, pageVars>>

Init ==
  /\ provider \in BOOLEAN
  /\ profile = [q \in Subjects |-> 0]
  /\ code = [s \in Logins |-> None]
  /\ begun = [s \in Logins |-> None]
  /\ users = [i \in Ids |-> None]
  /\ now = 0
  /\ events = 0
  /\ callbacks = {}
  /\ stateCookie = [b \in Browsers |-> None]
  /\ session = [b \in Browsers |-> None]
  /\ shown = [b \in Pages |-> None]
  /\ calls = [b \in Pages |-> {}]
  /\ expected = [b \in Pages |-> None]

------------------------------------------------------------------------------
(***************************************************************************)
(* Around the server: the process, the issuer, the webhook, the clock.     *)
(***************************************************************************)
Happens == events < MaxEvents /\ events' = events + 1

\* init_auth: flag, signing key and discovery decide whether there is a
\* provider; callbacks die with the process.
Restart ==
  /\ Happens
  /\ provider' \in BOOLEAN
  /\ callbacks' = {}
  /\ UNCHANGED <<issuerVars, begun, users, now, jarVars, pageVars>>

\* Somebody signs in at the issuer in a tab that a login has sent there.
Authenticate(s, q) ==
  /\ begun[s] # None /\ code[s] = None
  /\ code' = [code EXCEPT ![s] = q]
  /\ UNCHANGED <<provider, profile, begun, users, now, events, callbacks, jarVars, pageVars>>

ChangeProfile(q) ==
  /\ Happens
  /\ profile' = [profile EXCEPT ![q] = @ + 1]
  /\ UNCHANGED <<provider, code, begun, users, now, callbacks, jarVars, pageVars>>

\* set_premium of the billing webhook.
Entitle(id) ==
  /\ Happens
  /\ users[id] # None
  /\ users' = [users EXCEPT ![id].premium = ~@]
  /\ UNCHANGED <<provider, issuerVars, begun, now, callbacks, jarVars, pageVars>>

Tick ==
  /\ Happens
  /\ now' = now + 1
  /\ UNCHANGED <<provider, issuerVars, begun, users, callbacks, jarVars, pageVars>>

\* Max-Age of a cookie has passed, or somebody clears it.
Forget(b) ==
  /\ Happens
  /\ \/ stateCookie' = [stateCookie EXCEPT ![b] = None] /\ UNCHANGED session
     \/ session' = [session EXCEPT ![b] = None] /\ UNCHANGED stateCookie
  /\ UNCHANGED <<provider, issuerVars, begun, users, now, callbacks, pageVars>>

------------------------------------------------------------------------------
(***************************************************************************)
(* The auth routes.  Without a provider they do not exist.                 *)
(***************************************************************************)
\* A second login of the same browser overwrites the state of the first.
Login(b, s) ==
  /\ provider
  /\ begun[s] = None
  /\ begun' = [begun EXCEPT ![s] = b]
  /\ stateCookie' = [stateCookie EXCEPT ![b] = s]
  /\ UNCHANGED <<provider, issuerVars, users, now, events, callbacks, session, pageVars>>

\* callback up to the await.  Another state than the cookie's is refused with
\* 400 and changes nothing.  The state cookie is kept.
\* MutantBeginCallback: any state is accepted.
MutantBeginCallback(b, s, q) ==
  /\ provider
  /\ code[s] = q
  /\ Cardinality(callbacks) < MaxCallbacks
  /\ callbacks' = callbacks \cup
       {[browser |-> b, login |-> s, subject |-> q, claims |-> None, late |-> FALSE]}
  /\ UNCHANGED <<provider, issuerVars, begun, users, now, events, jarVars, pageVars>>

BeginCallback(b, s, q) ==
  /\ provider
  /\ code[s] = q
  /\ Cardinality(callbacks) < MaxCallbacks
  /\ stateCookie[b] = s
  /\ callbacks' = callbacks \cup
       {[browser |-> b, login |-> s, subject |-> q, claims |-> None, late |-> FALSE]}
  /\ UNCHANGED <<provider, issuerVars, begun, users, now, events, jarVars, pageVars>>

\* The issuer spends the code and answers with the claims of that moment.
\* MutantExchange: the claims come from a cache.
MutantExchange(c) ==
  /\ c.claims = None
  /\ code[c.login] = c.subject
  /\ code' = [code EXCEPT ![c.login] = None]
  /\ \E v \in 0 .. profile[c.subject] :
       callbacks' = (callbacks \ {c}) \cup {[c EXCEPT !.claims = v]}
  /\ UNCHANGED <<provider, profile, begun, users, now, events, jarVars, pageVars>>

Exchange(c) ==
  /\ c.claims = None
  /\ code[c.login] = c.subject
  /\ code' = [code EXCEPT ![c.login] = None]
  /\ callbacks' = (callbacks \ {c}) \cup {[c EXCEPT !.claims = profile[c.subject]]}
  /\ UNCHANGED <<provider, profile, begun, users, now, events, jarVars, pageVars>>

\* 502 or 500: the code was spent before, the issuer's answer is lost or not
\* accepted, or SQLite fails; or the browser has gone.
CallbackFails(c) ==
  /\ code' \in {code, [code EXCEPT ![c.login] = None]}
  /\ callbacks' = callbacks \ {c}
  /\ UNCHANGED <<provider, profile, begun, users, now, events, jarVars, pageVars>>

RowsOfSubject(q) == {i \in Ids : users[i] # None /\ users[i].sub = q}
NewIds == {i \in Ids : users[i] = None}

\* The row INSERT ... ON CONFLICT(oidc_sub) DO UPDATE writes: the subject's, or
\* a new one.  An existing row keeps its id and its premium.
\* MutantUpserted: INSERT OR REPLACE.
Target(q) == IF RowsOfSubject(q) = {} THEN NewIds ELSE RowsOfSubject(q)

MutantUpserted(id, q, claims) ==
  [users EXCEPT ![id] = [sub |-> q, profile |-> claims, premium |-> FALSE]]

Upserted(id, q, claims) ==
  [users EXCEPT ![id] = IF users[id] = None
                        THEN [sub |-> q, profile |-> claims, premium |-> FALSE]
                        ELSE [users[id] EXCEPT !.profile = claims]]

\* The row read back: the one with the subject.  MutantReadBack: the id that was
\* drawn for the INSERT, whether it took it or not.
MutantReadBack(id) ==
  IF users[id] # None /\ NewIds # {} THEN CHOOSE i \in NewIds : TRUE ELSE id
ReadBack(id) == id

SessionFor(c, id) ==
  [uid |-> id, premium |-> users[id] # None /\ users[id].premium, exp |-> now + SessionAge,
   sub |-> c.subject, login |-> c.login]

\* callback after the await; the answer reaches the browser or is lost.
\* MutantEndCallback: an answer of the issuer without claims will do.
MutantEndCallback(c) ==
  /\ \E id \in Target(c.subject) :
       /\ users' = Upserted(id, c.subject, c.claims)
       /\ \/ session' = [session EXCEPT ![c.browser] = SessionFor(c, ReadBack(id))]
          \/ UNCHANGED session
  /\ callbacks' = {IF d.subject = c.subject /\ d.claims # None THEN [d EXCEPT !.late = TRUE] ELSE d :
                     d \in callbacks \ {c}}
  /\ UNCHANGED <<provider, issuerVars, begun, now, events, stateCookie, pageVars>>

EndCallback(c) ==
  /\ c.claims # None
  /\ \E id \in Target(c.subject) :
       /\ users' = Upserted(id, c.subject, c.claims)
       /\ \/ session' = [session EXCEPT ![c.browser] = SessionFor(c, ReadBack(id))]
          \/ UNCHANGED session
  /\ callbacks' = {IF d.subject = c.subject /\ d.claims # None THEN [d EXCEPT !.late = TRUE] ELSE d :
                     d \in callbacks \ {c}}
  /\ UNCHANGED <<provider, issuerVars, begun, now, events, stateCookie, pageVars>>

\* current_user: the cookie's user, if it has not run out and the row exists.
\* MutantCurrentUser: premium as the cookie remembers it.
MutantCurrentUser(cookie) ==
  IF cookie = None THEN None
  ELSE IF now > cookie.exp THEN None
  ELSE IF users[cookie.uid] = None THEN None
  ELSE [id |-> cookie.uid, premium |-> cookie.premium]

CurrentUser(cookie) ==
  IF cookie = None THEN None
  ELSE IF now > cookie.exp THEN None
  ELSE IF users[cookie.uid] = None THEN None
  ELSE [id |-> cookie.uid, premium |-> users[cookie.uid].premium]

------------------------------------------------------------------------------
(***************************************************************************)
(* The page.  fetchUser and logout await the server; their answers arrive  *)
(* in any order, or not at all.                                            *)
(***************************************************************************)
\* cors_headers: with a provider, no other origin is allowed to read an answer.
CorsAllows(b) == b \notin Foreign

\* auth_me, as the page may read it.
MeAnswer(b) == IF provider /\ CorsAllows(b) THEN CurrentUser(session[b]) ELSE None

MakeCall(b, call) ==
  /\ call \notin calls[b]
  /\ Happens
  /\ calls' = [calls EXCEPT ![b] = @ \cup {call}]
  /\ expected' = [expected EXCEPT ![b] = IF calls[b] = {} THEN call.answer ELSE Anything]
  /\ UNCHANGED <<provider, issuerVars, begun, users, now, callbacks, jarVars, shown>>

FetchUser(b) == MakeCall(b, [of |-> "fetch", answer |-> MeAnswer(b)])
Logout(b) == MakeCall(b, [of |-> "logout", answer |-> None])

FetchReturns(b, call) ==
  /\ call.of = "fetch"
  /\ calls' = [calls EXCEPT ![b] = @ \ {call}]
  /\ shown' = [shown EXCEPT ![b] = call.answer]
  /\ UNCHANGED <<provider, issuerVars, begun, users, now, events, callbacks, jarVars, expected>>

\* catch: the answer is lost.
FetchFails(b, call) ==
  /\ call.of = "fetch"
  /\ calls' = [calls EXCEPT ![b] = @ \ {call}]
  /\ shown' = [shown EXCEPT ![b] = None]
  /\ expected' = [expected EXCEPT ![b] = IF @ = Anything THEN Anything ELSE None]
  /\ UNCHANGED <<provider, issuerVars, begun, users, now, events, callbacks, jarVars>>

\* auth_logout clears the cookie.
AuthLogout(b) == provider /\ session' = [session EXCEPT ![b] = None]

\* finally: user.value is cleared whether or not the server cleared the cookie.
\* MutantLogoutReturns: only if it did.
MutantLogoutReturns(b, call) ==
  /\ call.of = "logout"
  /\ calls' = [calls EXCEPT ![b] = @ \ {call}]
  /\ \/ AuthLogout(b) /\ shown' = [shown EXCEPT ![b] = None]
     \/ UNCHANGED <<session, shown>>
  /\ UNCHANGED <<provider, issuerVars, begun, users, now, events, callbacks, stateCookie, expected>>

LogoutReturns(b, call) ==
  /\ call.of = "logout"
  /\ calls' = [calls EXCEPT ![b] = @ \ {call}]
  /\ shown' = [shown EXCEPT ![b] = None]
  /\ AuthLogout(b) \/ UNCHANGED session
  /\ UNCHANGED <<provider, issuerVars, begun, users, now, events, callbacks, stateCookie, expected>>

\* Navigation, to /auth/login or back from the issuer, starts the page anew.
Reload(b) ==
  /\ shown' = [shown EXCEPT ![b] = None]
  /\ calls' = [calls EXCEPT ![b] = {}]
  /\ expected' = [expected EXCEPT ![b] = None]
  /\ UNCHANGED <<provider, issuerVars, begun, users, now, events, callbacks, jarVars>>

Next ==
  \/ Restart \/ Tick
  \/ \E q \in Subjects : ChangeProfile(q) \/ \E s \in Logins : Authenticate(s, q)
  \/ \E id \in Ids : Entitle(id)
  \/ \E b \in Browsers :
       \/ Forget(b)
       \/ \E s \in Logins : Login(b, s) \/ \E q \in Subjects : BeginCallback(b, s, q)
  \/ \E b \in Pages :
       \/ FetchUser(b) \/ Logout(b) \/ Reload(b)
       \/ \E call \in calls[b] : FetchReturns(b, call) \/ FetchFails(b, call) \/ LogoutReturns(b, call)
  \/ \E c \in callbacks : Exchange(c) \/ EndCallback(c) \/ CallbackFails(c)

Spec == Init /\ [][Next]_vars

------------------------------------------------------------------------------
(***************************************************************************)
(* Types.                                                                  *)
(***************************************************************************)
TypeOK ==
  /\ provider \in BOOLEAN
  /\ profile \in [Subjects -> Profiles]
  /\ code \in [Logins -> Subjects \cup {None}]
  /\ begun \in [Logins -> Browsers \cup {None}]
  /\ users \in [Ids -> UserRow \cup {None}]
  /\ now \in 0 .. MaxEvents
  /\ events \in 0 .. MaxEvents
  /\ callbacks \subseteq Callback
  /\ stateCookie \in [Browsers -> Logins \cup {None}]
  /\ session \in [Browsers -> Session \cup {None}]
  /\ shown \in [Pages -> Person \cup {None}]
  /\ calls \in [Pages -> SUBSET Call]
  /\ expected \in [Pages -> Person \cup {None, Anything}]

(***************************************************************************)
(* A browser is signed in only by a login it began itself: whatever tabs   *)
(* overwrite each other's state cookie, and whichever callback URL is      *)
(* opened where, a session goes to the browser that asked for its state.   *)
(***************************************************************************)
OwnLogin == \A b \in Browsers : session[b] # None => begun[session[b].login] = b

(***************************************************************************)
(* A session names the row of the subject that signed in, for good: two    *)
(* first sign-ins of one subject may overlap, a later one may update the   *)
(* row, and every session of the subject still names the same id.          *)
(***************************************************************************)
SessionNamesSubject ==
  \A b \in Browsers : session[b] # None => RowsOfSubject(session[b].sub) = {session[b].uid}

(***************************************************************************)
(* Signing in again neither takes a row from its subject nor its premium.  *)
(***************************************************************************)
SignInKeepsEntitlement ==
  [][callbacks' # callbacks =>
       \A i \in Ids : users[i] # None =>
         users'[i].sub = users[i].sub /\ users'[i].premium = users[i].premium]_vars

(***************************************************************************)
(* A page learns from /auth/me of the subject that signed its browser in   *)
(* by a login of this browser, with the premium flag the row has at that   *)
(* moment, for SessionAge, and only if it comes from CORS_ORIGIN.          *)
(***************************************************************************)
AnswersAreTrue ==
  [][\A b \in Pages : \A call \in calls'[b] \ calls[b] : call.answer # None =>
       /\ b \notin Foreign /\ session[b] # None
       /\ users[call.answer.id] = [sub |-> session[b].sub, premium |-> call.answer.premium,
                                   profile |-> users[call.answer.id].profile]
       /\ begun[session[b].login] = b
       /\ now <= session[b].exp]_vars

(***************************************************************************)
(* The claims in the row go back to an older version only when two         *)
(* callbacks of the subject overlapped and the one that asked the issuer   *)
(* first writes last.                                                      *)
(***************************************************************************)
ClaimsOnlyAgeByOverlap ==
  [][\A i \in Ids : users[i] # None /\ users'[i].profile < users[i].profile =>
       \E c \in callbacks : c.subject = users[i].sub /\ c.late]_vars

(***************************************************************************)
(* A page that awaits nothing shows what its last call left: the answered  *)
(* user, or nobody after a logout or a failure, also when the logout never *)
(* reached the server; unless that call was made while another was awaited.*)
(***************************************************************************)
PageShowsLastCall ==
  \A b \in Pages : calls[b] = {} /\ expected[b] # Anything => shown[b] = expected[b]
=============================================================================
