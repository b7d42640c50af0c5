---------------------------- MODULE SignInProofs ----------------------------
(***************************************************************************)
(* Signing in, for every number of people, browsers, pages, logins and     *)
(* events: types, that a session goes to the browser that began the login  *)
(* and names the one row of its subject, that signing in takes neither a   *)
(* row nor its premium away, what a page may learn, that claims only age   *)
(* when two callbacks of a subject overlap, and that ids are never reused. *)
(***************************************************************************)
EXTENDS SignIn, TLAPS

(***************************************************************************)
(* Clock and profiles stay within the bound of the run.                    *)
(***************************************************************************)
Timely == now <= events /\ \A q \in Subjects : profile[q] <= events

(***************************************************************************)
(* States are used where they were drawn: the state cookie of a browser is *)
(* one it was given, and a callback that passed the comparison belongs to  *)
(* the browser its login began in.                                         *)
(***************************************************************************)
OwnStates ==
  /\ \A b \in Browsers : stateCookie[b] # None => begun[stateCookie[b]] = b
  /\ \A c \in callbacks : begun[c.login] = c.browser

(***************************************************************************)
(* UNIQUE oidc_sub, and the row a session names exists and is its          *)
(* subject's.                                                              *)
(***************************************************************************)
OneRowPerSubject ==
  \A i, j \in Ids : users[i] # None /\ users[j] # None /\ users[i].sub = users[j].sub => i = j

SessionsHaveRows ==
  \A b \in Browsers : session[b] # None =>
    users[session[b].uid] # None /\ users[session[b].uid].sub = session[b].sub

(***************************************************************************)
(* Nobody is ahead of the issuer, and a callback whose subject's row has   *)
(* not been written since its exchange is not behind the row.              *)
(***************************************************************************)
ClaimsInOrder ==
  /\ \A c \in callbacks : c.claims # None => c.claims <= profile[c.subject]
  /\ \A i \in Ids : users[i] # None => users[i].profile <= profile[users[i].sub]
  /\ \A c \in callbacks, i \in Ids :
       c.claims # None /\ ~c.late /\ users[i] # None /\ users[i].sub = c.subject =>
         users[i].profile <= c.claims

IInv == TypeOK /\ Timely /\ OwnStates /\ OwnLogin /\ OneRowPerSubject /\ SessionsHaveRows /\ ClaimsInOrder

------------------------------------------------------------------------------
LEMMA RowFields ==
  ASSUME TypeOK, NEW i \in Ids, users[i] # None
  PROVE  /\ users[i] \in UserRow
         /\ users[i].sub \in Subjects /\ users[i].profile \in Profiles /\ users[i].premium \in BOOLEAN
BY DEF TypeOK, UserRow

LEMMA CallbackFields ==
  ASSUME TypeOK, NEW c \in callbacks
  PROVE  /\ c \in Callback
         /\ c.browser \in Browsers /\ c.login \in Logins /\ c.subject \in Subjects
         /\ c.claims \in Profiles \cup {None} /\ c.late \in BOOLEAN
BY DEF TypeOK, Callback

(* What the steps around the sign-ins and the page's own steps leave alone.*)
PageStep ==
  UNCHANGED <<provider, profile, code, begun, users, now, callbacks, stateCookie>>

LEMMA PageSteps ==
  ASSUME NEW b \in Pages, NEW call \in calls[b],
         FetchUser(b) \/ Logout(b) \/ Reload(b) \/ FetchReturns(b, call)
           \/ FetchFails(b, call) \/ LogoutReturns(b, call)
  PROVE  PageStep
BY DEF PageStep, FetchUser, Logout, MakeCall, Reload, FetchReturns, FetchFails, LogoutReturns, AuthLogout,
   issuerVars, jarVars

(* current_user returns a person or nobody.                                *)
LEMMA CurrentUserType ==
  ASSUME TypeOK, NEW b \in Browsers
  PROVE  CurrentUser(session[b]) \in Person \cup {None}
<1>1. CASE session[b] = None
  BY <1>1 DEF CurrentUser
<1>2. CASE session[b] # None
  <2>1. session[b].uid \in Ids
    BY <1>2 DEF TypeOK, Session
  <2> QED
    BY <1>2, <2>1, RowFields DEF CurrentUser, Person
<1> QED
  BY <1>1, <1>2

LEMMA InitIInv == Init => IInv
BY SignInAssumption, NoneAssumption
   DEF Init, IInv, TypeOK, Timely, OwnStates, OwnLogin, OneRowPerSubject, SessionsHaveRows,
       ClaimsInOrder, Profiles

(* The calls of a page keep their types.                                   *)
LEMMA PageTypes ==
  ASSUME TypeOK, NEW b \in Pages
  PROVE  /\ FetchUser(b) \/ Logout(b) \/ Reload(b) => TypeOK'
         /\ \A call \in calls[b] :
              FetchReturns(b, call) \/ FetchFails(b, call) \/ LogoutReturns(b, call) => TypeOK'
<1> USE SignInAssumption DEF TypeOK
<1>1. MeAnswer(b) \in Person \cup {None}
  BY CurrentUserType DEF MeAnswer
<1>2. ASSUME NEW call \in Call, MakeCall(b, call)
      PROVE  TypeOK'
  <2>1. call.answer \in Person \cup {None}
    BY DEF Call
  <2>2. /\ events' \in 0 .. MaxEvents
        /\ calls' \in [Pages -> SUBSET Call]
        /\ expected' \in [Pages -> Person \cup {None, Anything}]
    BY <1>2, <2>1 DEF MakeCall, Happens
  <2> QED
    BY <1>2, <2>2 DEF MakeCall, issuerVars, jarVars
<1>3. FetchUser(b) \/ Logout(b) => TypeOK'
  BY <1>1, <1>2 DEF FetchUser, Logout, Call
<1>4. Reload(b) => TypeOK'
  BY DEF Reload, issuerVars, jarVars
<1>5. ASSUME NEW call \in calls[b]
      PROVE  FetchReturns(b, call) \/ FetchFails(b, call) \/ LogoutReturns(b, call) => TypeOK'
  <2>1. call.answer \in Person \cup {None}
    BY DEF Call
  <2>2. calls' = [calls EXCEPT ![b] = @ \ {call}] => calls' \in [Pages -> SUBSET Call]
    OBVIOUS
  <2>3. FetchReturns(b, call) => TypeOK'
    BY <2>1, <2>2 DEF FetchReturns, issuerVars, jarVars
  <2>4. FetchFails(b, call) => TypeOK'
    BY <2>2 DEF FetchFails, issuerVars, jarVars
  <2>5. LogoutReturns(b, call) => TypeOK'
    BY <2>2 DEF LogoutReturns, AuthLogout, issuerVars
  <2> QED
    BY <2>3, <2>4, <2>5
<1> QED
  BY <1>3, <1>4, <1>5

(* What EndCallback does: it writes the one row of the subject.            *)
LEMMA EndCallbackEffect ==
  ASSUME IInv, NEW c \in callbacks, EndCallback(c)
  PROVE  \E id \in Ids :
           /\ users[id] # None => users[id].sub = c.subject
           /\ users[id] = None => \A i \in Ids : users[i] # None => users[i].sub # c.subject
           /\ users'[id] \in UserRow /\ users'[id] # None
           /\ users'[id].sub = c.subject /\ users'[id].profile = c.claims
           /\ users[id] # None => users'[id].premium = users[id].premium
           /\ \A i \in Ids : i # id => users'[i] = users[i]
           /\ users' \in [Ids -> UserRow \cup {None}]
           /\ SessionFor(c, id) \in Session /\ SessionFor(c, id) # None
           /\ SessionFor(c, id).uid = id /\ SessionFor(c, id).sub = c.subject
           /\ SessionFor(c, id).login = c.login
           /\ session' \in {session, [session EXCEPT ![c.browser] = SessionFor(c, id)]}
<1> USE DEF IInv
<1>1. PICK id \in Target(c.subject) :
        /\ users' = Upserted(id, c.subject, c.claims)
        /\ session' \in {session, [session EXCEPT ![c.browser] = SessionFor(c, id)]}
  BY DEF EndCallback, ReadBack
<1>2. /\ id \in Ids
      /\ users[id] # None => users[id].sub = c.subject
      /\ users[id] = None => \A i \in Ids : users[i] # None => users[i].sub # c.subject
  BY <1>1 DEF Target, RowsOfSubject, NewIds
<1>3. c.claims \in Profiles /\ c.subject \in Subjects /\ c.login \in Logins
  BY CallbackFields DEF EndCallback
<1> DEFINE row == IF users[id] = None
                  THEN [sub |-> c.subject, profile |-> c.claims, premium |-> FALSE]
                  ELSE [users[id] EXCEPT !.profile = c.claims]
<1>4. /\ row \in UserRow /\ row.sub = c.subject /\ row.profile = c.claims
      /\ users[id] # None => row.premium = users[id].premium
  BY <1>2, <1>3, RowFields DEF UserRow
<1>5. row # None
  BY <1>4, NoneAssumption
<1>6. users' = [users EXCEPT ![id] = row]
  BY <1>1 DEF Upserted
<1> HIDE DEF row
<1>7. /\ users'[id] = row
      /\ \A i \in Ids : i # id => users'[i] = users[i]
      /\ users' \in [Ids -> UserRow \cup {None}]
  BY <1>2, <1>4, <1>6 DEF TypeOK
<1>8. SessionFor(c, id) \in Session
  <2>1. (users[id] # None /\ users[id].premium) \in BOOLEAN
    OBVIOUS
  <2>2. now + SessionAge \in Nat
    BY SignInAssumption DEF TypeOK
  <2> QED
    BY <1>2, <1>3, <2>1, <2>2 DEF SessionFor, Session
<1>9. /\ SessionFor(c, id) # None
      /\ SessionFor(c, id).uid = id /\ SessionFor(c, id).sub = c.subject
      /\ SessionFor(c, id).login = c.login
  BY <1>8, NoneAssumption DEF SessionFor
<1> QED
  BY <1>1, <1>2, <1>4, <1>5, <1>7, <1>8, <1>9

(* After a callback the others of its subject that hold claims are late.   *)
LEMMA CallbacksLeft ==
  ASSUME TypeOK, NEW c \in callbacks, EndCallback(c)
  PROVE  /\ callbacks' \subseteq Callback
         /\ \A d \in callbacks' : \E e \in callbacks :
              /\ d.browser = e.browser /\ d.login = e.login
              /\ d.subject = e.subject /\ d.claims = e.claims
              /\ d.claims # None /\ d.subject = c.subject => d.late
              /\ ~d.late => ~e.late
<1> SUFFICES ASSUME NEW d \in callbacks'
             PROVE  /\ d \in Callback
                    /\ \E e \in callbacks :
                         /\ d.browser = e.browser /\ d.login = e.login
                         /\ d.subject = e.subject /\ d.claims = e.claims
                         /\ d.claims # None /\ d.subject = c.subject => d.late
                         /\ ~d.late => ~e.late
  OBVIOUS
<1>1. PICK e \in callbacks :
        d = IF e.subject = c.subject /\ e.claims # None THEN [e EXCEPT !.late = TRUE] ELSE e
  BY DEF EndCallback
<1>2. e \in Callback
  BY DEF TypeOK
<1>3. CASE e.subject = c.subject /\ e.claims # None
  <2>1. d = [e EXCEPT !.late = TRUE]
    BY <1>1, <1>3
  <2> QED
    BY <1>2, <2>1 DEF Callback
<1>4. CASE ~(e.subject = c.subject /\ e.claims # None)
  <2>1. d = e
    BY <1>1, <1>4
  <2> QED
    BY <1>2, <1>4, <2>1
<1> QED
  BY <1>3, <1>4

------------------------------------------------------------------------------
LEMMA NextTypeOK ==
  ASSUME IInv, [Next]_vars
  PROVE  TypeOK' /\ Timely'
<1> USE SignInAssumption DEF IInv, TypeOK
<1>0. ASSUME Happens, now' \in {now, now + 1}, profile' = profile
      PROVE  Timely' /\ events' \in 0 .. MaxEvents /\ now' \in 0 .. MaxEvents
  BY <1>0 DEF Happens, Timely, Profiles
<1>1. ASSUME Restart \/ Tick
      PROVE  TypeOK' /\ Timely'
  BY <1>0, <1>1 DEF Restart, Tick, issuerVars, jarVars, pageVars
<1>2. ASSUME NEW q \in Subjects, ChangeProfile(q)
      PROVE  TypeOK' /\ Timely'
  <2>1. /\ events' = events + 1 /\ events' \in 0 .. MaxEvents
        /\ \A r \in Subjects : profile'[r] = IF r = q THEN profile[r] + 1 ELSE profile[r]
        /\ now' = now
    BY <1>2 DEF ChangeProfile, Happens
  <2>2. \A r \in Subjects : profile'[r] \in Profiles /\ profile'[r] <= events'
    BY <2>1 DEF Timely, Profiles
  <2>3. Timely'
    BY <2>1, <2>2 DEF Timely
  <2>4. profile' \in [Subjects -> Profiles]
    BY <1>2, <2>2 DEF ChangeProfile
  <2> QED
    BY <1>2, <2>1, <2>3, <2>4 DEF ChangeProfile, jarVars, pageVars
<1>3. ASSUME NEW q \in Subjects, NEW s \in Logins, Authenticate(s, q)
      PROVE  TypeOK' /\ Timely'
  BY <1>3 DEF Authenticate, Timely, jarVars, pageVars
<1>4. ASSUME NEW id \in Ids, Entitle(id)
      PROVE  TypeOK' /\ Timely'
  <2>1. users[id] \in UserRow
    BY <1>4, RowFields DEF Entitle
  <2>2. [users[id] EXCEPT !.premium = ~@] \in UserRow
    BY <2>1 DEF UserRow
  <2>3. users' \in [Ids -> UserRow \cup {None}]
    BY <1>4, <2>2 DEF Entitle
  <2> QED
    BY <1>0, <1>4, <2>3 DEF Entitle, issuerVars, jarVars, pageVars
<1>5. ASSUME NEW b \in Browsers, Forget(b)
      PROVE  TypeOK' /\ Timely'
  BY <1>0, <1>5 DEF Forget, issuerVars, pageVars
<1>6. ASSUME NEW b \in Browsers, NEW s \in Logins, Login(b, s)
      PROVE  TypeOK' /\ Timely'
  BY <1>6 DEF Login, Timely, issuerVars, pageVars
<1>7. ASSUME NEW b \in Browsers, NEW s \in Logins, NEW q \in Subjects, BeginCallback(b, s, q)
      PROVE  TypeOK' /\ Timely'
  <2>1. [browser |-> b, login |-> s, subject |-> q, claims |-> None, late |-> FALSE] \in Callback
    BY DEF Callback
  <2> QED
    BY <1>7, <2>1 DEF BeginCallback, Timely, issuerVars, jarVars, pageVars
<1>8. ASSUME NEW b \in Pages, NEW call \in calls[b],
             FetchUser(b) \/ Logout(b) \/ Reload(b) \/ FetchReturns(b, call)
               \/ FetchFails(b, call) \/ LogoutReturns(b, call)
      PROVE  TypeOK' /\ Timely'
  <2>1. TypeOK'
    BY <1>8, PageTypes
  <2>2. now' = now /\ profile' = profile
    BY <1>8, PageSteps DEF PageStep
  <2>3. events' \in {events, events + 1}
    BY <1>8 DEF FetchUser, Logout, MakeCall, Happens, Reload, FetchReturns, FetchFails, LogoutReturns, AuthLogout
  <2> QED
    BY <2>1, <2>2, <2>3 DEF Timely, Profiles
<1>9. ASSUME NEW b \in Pages, FetchUser(b) \/ Logout(b) \/ Reload(b)
      PROVE  TypeOK' /\ Timely'
  <2>1. TypeOK'
    BY <1>9, PageTypes
  <2>2. now' = now /\ profile' = profile /\ events' \in {events, events + 1}
    BY <1>9 DEF FetchUser, Logout, MakeCall, Happens, Reload, issuerVars
  <2> QED
    BY <2>1, <2>2 DEF Timely, Profiles
<1>10. ASSUME NEW c \in callbacks, Exchange(c)
       PROVE  TypeOK' /\ Timely'
  <2>1. [c EXCEPT !.claims = profile[c.subject]] \in Callback
    BY CallbackFields DEF Callback
  <2>2. callbacks' \subseteq Callback /\ code' \in [Logins -> Subjects \cup {None}]
    BY <1>10, <2>1 DEF Exchange
  <2> QED
    BY <1>10, <2>2 DEF Exchange, Timely, jarVars, pageVars
<1>11. ASSUME NEW c \in callbacks, CallbackFails(c)
       PROVE  TypeOK' /\ Timely'
  <2>1. code' \in [Logins -> Subjects \cup {None}]
    BY <1>11 DEF CallbackFails
  <2> QED
    BY <1>11, <2>1 DEF CallbackFails, Timely, jarVars, pageVars
<1>12. ASSUME NEW c \in callbacks, EndCallback(c)
       PROVE  TypeOK' /\ Timely'
  <2>1. callbacks' \subseteq Callback
    BY <1>12, CallbacksLeft
  <2>2. PICK id \in Ids :
          /\ users' \in [Ids -> UserRow \cup {None}]
          /\ SessionFor(c, id) \in Session
          /\ session' \in {session, [session EXCEPT ![c.browser] = SessionFor(c, id)]}
    BY <1>12, EndCallbackEffect
  <2>3. session' \in [Browsers -> Session \cup {None}]
    BY <2>2
  <2> QED
    BY <1>12, <2>1, <2>2, <2>3 DEF EndCallback, Timely, issuerVars, pageVars
<1>13. CASE UNCHANGED vars
  BY <1>13 DEF vars, Timely, issuerVars, jarVars, pageVars
<1> QED
  BY <1>1, <1>2, <1>3, <1>4, <1>5, <1>6, <1>7, <1>8, <1>9, <1>10, <1>11, <1>12, <1>13 DEF Next

(***************************************************************************)
(* Logins, rows, sessions and claims, step by step.                        *)
(***************************************************************************)
Kept == OwnStates /\ OwnLogin /\ OneRowPerSubject /\ SessionsHaveRows /\ ClaimsInOrder

(* A step that draws no state, writes no row and only drops cookies and    *)
(* callbacks keeps everything.                                             *)
LEMMA NothingNew ==
  ASSUME IInv, begun' = begun, users' = users, profile' = profile, callbacks' \subseteq callbacks,
         \A b \in Browsers : stateCookie'[b] \in {stateCookie[b], None},
         \A b \in Browsers : session'[b] \in {session[b], None}
  PROVE  Kept'
<1> USE DEF IInv
<1>1. OwnStates' /\ OwnLogin'
  BY DEF OwnStates, OwnLogin
<1>2. OneRowPerSubject' /\ SessionsHaveRows' /\ ClaimsInOrder'
  BY DEF OneRowPerSubject, SessionsHaveRows, ClaimsInOrder
<1> QED
  BY <1>1, <1>2 DEF Kept

LEMMA NextKept ==
  ASSUME IInv, [Next]_vars
  PROVE  Kept'
<1> USE DEF IInv
<1>1. ASSUME Restart \/ Tick
      PROVE  Kept'
  BY <1>1, NothingNew DEF Restart, Tick, issuerVars, jarVars
<1>2. ASSUME NEW q \in Subjects, ChangeProfile(q)
      PROVE  Kept'
  <2>1. /\ \A r \in Subjects : profile[r] \in Nat /\ profile[r] <= profile'[r] /\ profile'[r] \in Nat
        /\ UNCHANGED <<begun, users, callbacks, stateCookie, session>>
    BY <1>2 DEF ChangeProfile, jarVars, TypeOK, Profiles
  <2>2. OwnStates' /\ OwnLogin' /\ OneRowPerSubject' /\ SessionsHaveRows'
    BY <2>1 DEF OwnStates, OwnLogin, OneRowPerSubject, SessionsHaveRows
  <2>3. ClaimsInOrder'
    <3>1. \A c \in callbacks : c.claims # None => c.claims <= profile'[c.subject]
      BY <2>1, CallbackFields DEF ClaimsInOrder, Profiles
    <3>2. \A i \in Ids : users[i] # None => users[i].profile <= profile'[users[i].sub]
      BY <2>1, RowFields DEF ClaimsInOrder, Profiles
    <3> QED
      BY <2>1, <3>1, <3>2 DEF ClaimsInOrder
  <2> QED
    BY <2>2, <2>3 DEF Kept
<1>3. ASSUME NEW q \in Subjects, NEW s \in Logins, Authenticate(s, q)
      PROVE  Kept'
  BY <1>3, NothingNew DEF Authenticate, jarVars
<1>4. ASSUME NEW id \in Ids, Entitle(id)
      PROVE  Kept'
  <2>1. users[id] \in UserRow /\ users[id] # None
    BY <1>4, RowFields DEF Entitle
  <2>2. [users[id] EXCEPT !.premium = ~@] \in UserRow
    BY <2>1 DEF UserRow
  <2>3. \A i \in Ids : /\ users'[i] = None <=> users[i] = None
                       /\ users[i] # None => users'[i].sub = users[i].sub /\ users'[i].profile = users[i].profile
    BY <1>4, <2>1, <2>2, NoneAssumption DEF Entitle, TypeOK, UserRow
  <2>4. UNCHANGED <<begun, profile, callbacks, stateCookie, session>>
    BY <1>4 DEF Entitle, issuerVars, jarVars
  <2>5. OwnStates' /\ OwnLogin' /\ OneRowPerSubject'
    BY <2>3, <2>4 DEF OwnStates, OwnLogin, OneRowPerSubject
  <2>6. \A b \in Browsers : session[b] # None => session[b].uid \in Ids
    BY DEF TypeOK, Session
  <2>7. SessionsHaveRows' /\ ClaimsInOrder'
    BY <2>3, <2>4, <2>6 DEF SessionsHaveRows, ClaimsInOrder
  <2> QED
    BY <2>5, <2>7 DEF Kept
<1>5. ASSUME NEW b \in Browsers, Forget(b)
      PROVE  Kept'
  <2>1. \A d \in Browsers : /\ stateCookie'[d] \in {stateCookie[d], None}
                            /\ session'[d] \in {session[d], None}
    BY <1>5 DEF Forget, TypeOK
  <2> QED
    BY <1>5, <2>1, NothingNew DEF Forget, issuerVars
<1>6. ASSUME NEW b \in Browsers, NEW s \in Logins, Login(b, s)
      PROVE  Kept'
  <2>1. /\ begun[s] = None /\ begun'[s] = b /\ \A r \in Logins : r # s => begun'[r] = begun[r]
        /\ stateCookie'[b] = s /\ \A d \in Browsers : d # b => stateCookie'[d] = stateCookie[d]
        /\ UNCHANGED <<users, profile, callbacks, session>>
    BY <1>6 DEF Login, issuerVars, TypeOK
  <2>2. \A r \in Logins, d \in Browsers : begun[r] = d => begun'[r] = d
    BY <2>1, NoneAssumption
  <2>3. \A c \in callbacks : c.login \in Logins /\ c.browser \in Browsers
    BY CallbackFields
  <2>4. \A d \in Browsers : session[d] # None => session[d].login \in Logins
    BY DEF TypeOK, Session
  <2>5. \A d \in Browsers : stateCookie[d] # None => stateCookie[d] \in Logins
    BY DEF TypeOK
  <2>6. OwnStates' /\ OwnLogin'
    BY <2>1, <2>2, <2>3, <2>4, <2>5 DEF OwnStates, OwnLogin
  <2>7. OneRowPerSubject' /\ SessionsHaveRows' /\ ClaimsInOrder'
    BY <2>1 DEF OneRowPerSubject, SessionsHaveRows, ClaimsInOrder
  <2> QED
    BY <2>6, <2>7 DEF Kept
<1>7. ASSUME NEW b \in Browsers, NEW s \in Logins, NEW q \in Subjects, BeginCallback(b, s, q)
      PROVE  Kept'
  <2> DEFINE new == [browser |-> b, login |-> s, subject |-> q, claims |-> None, late |-> FALSE]
  <2>1. /\ callbacks' = callbacks \cup {new} /\ stateCookie[b] = s
        /\ UNCHANGED <<begun, users, profile, stateCookie, session>>
    BY <1>7 DEF BeginCallback, issuerVars, jarVars
  <2>2. begun[s] = b
    BY <2>1, NoneAssumption DEF OwnStates
  <2>3. OwnStates' /\ OwnLogin'
    BY <2>1, <2>2 DEF OwnStates, OwnLogin
  <2>4. OneRowPerSubject' /\ SessionsHaveRows' /\ ClaimsInOrder'
    BY <2>1 DEF OneRowPerSubject, SessionsHaveRows, ClaimsInOrder
  <2> QED
    BY <2>3, <2>4 DEF Kept
<1>8. ASSUME NEW b \in Pages, NEW call \in calls[b],
             FetchReturns(b, call) \/ FetchFails(b, call) \/ LogoutReturns(b, call)
      PROVE  Kept'
  <2>1. PageStep
    BY <1>8, PageSteps
  <2>2. session' \in {session, [session EXCEPT ![b] = None]}
    BY <1>8 DEF FetchReturns, FetchFails, LogoutReturns, AuthLogout, jarVars
  <2>3. \A d \in Browsers : session'[d] \in {session[d], None}
    BY <2>2 DEF TypeOK
  <2> QED
    BY <2>1, <2>3, NothingNew DEF PageStep
<1>9. ASSUME NEW b \in Pages, FetchUser(b) \/ Logout(b) \/ Reload(b)
      PROVE  Kept'
  BY <1>9, NothingNew DEF FetchUser, Logout, MakeCall, Reload, issuerVars, jarVars
<1>10. ASSUME NEW c \in callbacks, Exchange(c)
       PROVE  Kept'
  <2> DEFINE new == [c EXCEPT !.claims = profile[c.subject]]
  <2>1. c \in Callback /\ c.subject \in Subjects
    BY CallbackFields
  <2>2. /\ new.browser = c.browser /\ new.login = c.login /\ new.subject = c.subject
        /\ new.claims = profile[c.subject]
    BY <2>1 DEF Callback
  <2>3. /\ callbacks' \subseteq callbacks \cup {new}
        /\ UNCHANGED <<begun, users, profile, stateCookie, session>>
    BY <1>10 DEF Exchange, jarVars
  <2>4. profile[c.subject] \in Nat
    BY <2>1 DEF TypeOK, Profiles
  <2> HIDE DEF new
  <2>5. OwnStates' /\ OwnLogin'
    BY <2>2, <2>3 DEF OwnStates, OwnLogin
  <2>6. OneRowPerSubject' /\ SessionsHaveRows'
    BY <2>3 DEF OneRowPerSubject, SessionsHaveRows
  <2>7. ClaimsInOrder'
    BY <2>2, <2>3, <2>4 DEF ClaimsInOrder
  <2> QED
    BY <2>5, <2>6, <2>7 DEF Kept
<1>11. ASSUME NEW c \in callbacks, CallbackFails(c)
       PROVE  Kept'
  BY <1>11, NothingNew DEF CallbackFails, jarVars
<1>12. ASSUME NEW c \in callbacks, EndCallback(c)
       PROVE  Kept'
  <2>1. PICK id \in Ids :
          /\ users[id] # None => users[id].sub = c.subject
          /\ users[id] = None => \A i \in Ids : users[i] # None => users[i].sub # c.subject
          /\ users'[id] # None /\ users'[id].sub = c.subject /\ users'[id].profile = c.claims
          /\ \A i \in Ids : i # id => users'[i] = users[i]
          /\ SessionFor(c, id).uid = id /\ SessionFor(c, id).sub = c.subject
          /\ SessionFor(c, id).login = c.login
          /\ session' \in {session, [session EXCEPT ![c.browser] = SessionFor(c, id)]}
    BY <1>12, EndCallbackEffect
  <2>2. /\ c.browser \in Browsers /\ begun[c.login] = c.browser
        /\ c.claims # None /\ c.claims <= profile[c.subject]
    BY <1>12, CallbackFields DEF EndCallback, OwnStates, ClaimsInOrder
  <2>3. \A b \in Browsers : session'[b] = session[b] \/ (b = c.browser /\ session'[b] = SessionFor(c, id))
    BY <2>1 DEF TypeOK
  <2>4. \A d \in callbacks' : \E e \in callbacks :
              /\ d.browser = e.browser /\ d.login = e.login
              /\ d.subject = e.subject /\ d.claims = e.claims
              /\ d.claims # None /\ d.subject = c.subject => d.late
              /\ ~d.late => ~e.late
    BY <1>12, CallbacksLeft
  <2>5. UNCHANGED <<begun, profile, stateCookie>>
    BY <1>12 DEF EndCallback, issuerVars
  <2>6. OwnStates'
    BY <2>4, <2>5 DEF OwnStates
  <2>7. OwnLogin'
    BY <2>1, <2>2, <2>3, <2>5 DEF OwnLogin
  <2>8. OneRowPerSubject'
    BY <2>1 DEF OneRowPerSubject
  <2>9. \A b \in Browsers : session[b] # None => session[b].uid \in Ids
    BY DEF TypeOK, Session
  <2>10. SessionsHaveRows'
    BY <2>1, <2>2, <2>3, <2>9 DEF SessionsHaveRows
  <2>11. ClaimsInOrder'
    BY <2>1, <2>2, <2>4, <2>5 DEF ClaimsInOrder
  <2> QED
    BY <2>6, <2>7, <2>8, <2>10, <2>11 DEF Kept
<1>13. CASE UNCHANGED vars
  BY <1>13, NothingNew DEF vars, issuerVars, jarVars
<1> QED
  BY <1>1, <1>2, <1>3, <1>4, <1>5, <1>6, <1>7, <1>8, <1>9, <1>10, <1>11, <1>12, <1>13 DEF Next

(* The inductive invariant: types, states used where they were drawn, one  *)
(* row per subject, sessions that name it, claims never ahead of the issuer*)
THEOREM SignInInvariant == Spec => []IInv
<1>1. IInv /\ [Next]_vars => IInv'
  BY NextTypeOK, NextKept DEF IInv, Kept
<1> QED
  BY InitIInv, <1>1, PTL DEF Spec

(* Types.                                                                  *)
THEOREM TypeCorrect == Spec => []TypeOK
BY SignInInvariant, PTL DEF IInv

(* A browser is signed in only by a login it began itself.                 *)
THEOREM SessionsAreOwn == Spec => []OwnLogin
BY SignInInvariant, PTL DEF IInv

(* A session names the one row of its subject.                             *)
THEOREM SessionsNameTheirSubject == Spec => []SessionNamesSubject
<1>1. IInv => SessionNamesSubject
  <2> SUFFICES ASSUME IInv, NEW b \in Browsers, session[b] # None
               PROVE  RowsOfSubject(session[b].sub) = {session[b].uid}
    BY DEF SessionNamesSubject
  <2>1. session[b].uid \in Ids
    BY DEF IInv, TypeOK, Session
  <2>2. session[b].uid \in RowsOfSubject(session[b].sub)
    BY <2>1 DEF IInv, SessionsHaveRows, RowsOfSubject
  <2>3. \A i, j \in RowsOfSubject(session[b].sub) : i = j
    BY DEF IInv, OneRowPerSubject, RowsOfSubject
  <2> QED
    BY <2>2, <2>3
<1> QED
  BY SignInInvariant, <1>1, PTL

------------------------------------------------------------------------------
(* Only a callback writes rows together with callbacks.                    *)
LEMMA RowWriters ==
  ASSUME [Next]_vars
  PROVE  \/ users' = users
         \/ \E id \in Ids : Entitle(id)
         \/ \E c \in callbacks : EndCallback(c)
BY DEF Next, vars, Restart, Tick, ChangeProfile, Authenticate, Forget, Login, BeginCallback, Exchange,
   CallbackFails, FetchUser, Logout, MakeCall, Reload, FetchReturns, FetchFails, LogoutReturns, AuthLogout

(* Signing in again takes neither a row nor its premium from a subject.    *)
THEOREM EntitlementIsKept == Spec => SignInKeepsEntitlement
<1>1. ASSUME IInv, [Next]_vars, callbacks' # callbacks, NEW i \in Ids, users[i] # None
      PROVE  users'[i].sub = users[i].sub /\ users'[i].premium = users[i].premium
  <2>1. CASE users' = users
    BY <2>1
  <2>2. ASSUME NEW id \in Ids, Entitle(id)
        PROVE  FALSE
    BY <1>1, <2>2 DEF Entitle
  <2>3. ASSUME NEW c \in callbacks, EndCallback(c)
        PROVE  users'[i].sub = users[i].sub /\ users'[i].premium = users[i].premium
    <3>1. PICK id \in Ids :
            /\ users[id] # None => users[id].sub = c.subject
            /\ users'[id].sub = c.subject
            /\ users[id] # None => users'[id].premium = users[id].premium
            /\ \A j \in Ids : j # id => users'[j] = users[j]
      BY <1>1, <2>3, EndCallbackEffect
    <3> QED
      BY <1>1, <3>1
  <2> QED
    BY <1>1, <2>1, <2>2, <2>3, RowWriters
<1>2. IInv /\ [Next]_vars =>
        [callbacks' # callbacks =>
           \A i \in Ids : users[i] # None =>
             users'[i].sub = users[i].sub /\ users'[i].premium = users[i].premium]_vars
  BY <1>1
<1> QED
  BY SignInInvariant, <1>2, PTL DEF Spec, SignInKeepsEntitlement

(***************************************************************************)
(* A users row is for good: whatever happens - sign-ins of the same or of  *)
(* other people, the webhook, a restart - its id never goes away and never *)
(* comes to name another subject.  Billing's and ApiKeys' Users are such   *)
(* ids.                                                                    *)
(***************************************************************************)
UsersAreForever == [][\A i \in Ids : users[i] # None => users'[i] # None /\ users'[i].sub = users[i].sub]_vars

THEOREM IdsAreNeverReused == Spec => UsersAreForever
<1>1. ASSUME IInv, [Next]_vars, NEW i \in Ids, users[i] # None
      PROVE  users'[i] # None /\ users'[i].sub = users[i].sub
  <2>1. CASE users' = users
    BY <1>1, <2>1
  <2>2. ASSUME NEW id \in Ids, Entitle(id)
        PROVE  users'[i] # None /\ users'[i].sub = users[i].sub
    <3>1. users[i] \in UserRow /\ users[id] \in UserRow
      BY <1>1, <2>2, RowFields DEF IInv, Entitle
    <3>2. users' = [users EXCEPT ![id].premium = ~@]
      BY <2>2 DEF Entitle
    <3>3. users'[i] \in UserRow /\ users'[i].sub = users[i].sub
      BY <1>1, <3>1, <3>2 DEF IInv, TypeOK, UserRow
    <3> QED
      BY <3>3, NoneAssumption
  <2>3. ASSUME NEW c \in callbacks, EndCallback(c)
        PROVE  users'[i] # None /\ users'[i].sub = users[i].sub
    <3>1. PICK id \in Ids :
            /\ users[id] # None => users[id].sub = c.subject
            /\ users'[id] # None /\ users'[id].sub = c.subject
            /\ \A j \in Ids : j # id => users'[j] = users[j]
      BY <1>1, <2>3, EndCallbackEffect
    <3> QED
      BY <1>1, <3>1
  <2> QED
    BY <1>1, <2>1, <2>2, <2>3, RowWriters
<1>2. IInv /\ [Next]_vars =>
        [\A i \in Ids : users[i] # None => users'[i] # None /\ users'[i].sub = users[i].sub]_vars
  BY <1>1
<1> QED
  BY SignInInvariant, <1>2, PTL DEF Spec, UsersAreForever

(* Claims go back only by a callback that was overtaken by another one.    *)
THEOREM ClaimsAgeByOverlap == Spec => ClaimsOnlyAgeByOverlap
<1>1. ASSUME IInv, [Next]_vars, NEW i \in Ids, users[i] # None, users'[i].profile < users[i].profile
      PROVE  \E c \in callbacks : c.subject = users[i].sub /\ c.late
  <2>1. users[i].profile \in Nat /\ users[i] \in UserRow
    BY <1>1, RowFields DEF IInv, Profiles
  <2>2. users' # users
    BY <1>1, <2>1
  <2>3. ASSUME NEW id \in Ids, Entitle(id)
        PROVE  FALSE
    <3>1. users'[i].profile = users[i].profile
      BY <1>1, <2>1, <2>3 DEF Entitle, IInv, TypeOK, UserRow
    <3> QED
      BY <1>1, <2>1, <3>1
  <2>4. ASSUME NEW c \in callbacks, EndCallback(c)
        PROVE  c.subject = users[i].sub /\ c.late
    <3>1. PICK id \in Ids :
            /\ users[id] # None => users[id].sub = c.subject
            /\ users'[id].profile = c.claims
            /\ \A j \in Ids : j # id => users'[j] = users[j]
      BY <1>1, <2>4, EndCallbackEffect
    <3>2. id = i
      BY <1>1, <2>1, <3>1
    <3>3. c.claims \in Nat
      BY <1>1, <2>4, CallbackFields DEF EndCallback, IInv, Profiles
    <3>4. ~(users[i].profile <= c.claims)
      BY <1>1, <2>1, <3>1, <3>2, <3>3
    <3>5. c.late
      BY <1>1, <2>4, <3>1, <3>2, <3>4 DEF EndCallback, IInv, ClaimsInOrder
    <3> QED
      BY <1>1, <3>1, <3>2, <3>5
  <2> QED
    BY <1>1, <2>2, <2>3, <2>4, RowWriters
<1>2. IInv /\ [Next]_vars =>
        [\A i \in Ids : users[i] # None /\ users'[i].profile < users[i].profile =>
           \E c \in callbacks : c.subject = users[i].sub /\ c.late]_vars
  BY <1>1
<1> QED
  BY SignInInvariant, <1>2, PTL DEF Spec, ClaimsOnlyAgeByOverlap

------------------------------------------------------------------------------
(* The calls a page awaits change by its own steps only.                   *)
LEMMA CallWriters ==
  ASSUME [Next]_vars
  PROVE  \/ pageVars' = pageVars
         \/ \E b \in Pages : \/ FetchUser(b) \/ Logout(b) \/ Reload(b)
                             \/ \E call \in calls[b] :
                                  FetchReturns(b, call) \/ FetchFails(b, call) \/ LogoutReturns(b, call)
BY DEF Next, vars, pageVars, Restart, Tick, ChangeProfile, Authenticate, Entitle, Forget, Login,
   BeginCallback, Exchange, CallbackFails, EndCallback

(* What a page learns is true of the browser's own sign-in at that moment. *)
THEOREM PagesLearnTheTruth == Spec => AnswersAreTrue
<1> DEFINE True(b, call) ==
      /\ b \notin Foreign /\ session[b] # None
      /\ users[call.answer.id] = [sub |-> session[b].sub, premium |-> call.answer.premium,
                                  profile |-> users[call.answer.id].profile]
      /\ begun[session[b].login] = b
      /\ now <= session[b].exp
<1>1. ASSUME IInv, [Next]_vars, NEW b \in Pages, NEW call \in calls'[b] \ calls[b], call.answer # None
      PROVE  True(b, call)
  <2>1. calls' # calls
    BY <1>1
  <2>2. PICK d \in Pages : \/ FetchUser(d) \/ Logout(d) \/ Reload(d)
                           \/ \E e \in calls[d] :
                                FetchReturns(d, e) \/ FetchFails(d, e) \/ LogoutReturns(d, e)
    BY <1>1, <2>1, CallWriters DEF pageVars
  <2>3. ASSUME ~FetchUser(d) /\ ~Logout(d)
        PROVE  FALSE
    BY <1>1, <2>2, <2>3 DEF IInv, TypeOK, Reload, FetchReturns, FetchFails, LogoutReturns, AuthLogout
  <2>4. d = b /\ call.answer \in {MeAnswer(b), None}
    BY <1>1, <2>3 DEF IInv, TypeOK, FetchUser, Logout, MakeCall
  <2>5. /\ b \notin Foreign /\ b \in Browsers /\ session[b] # None /\ ~(now > session[b].exp)
        /\ users[session[b].uid] # None
        /\ call.answer = [id |-> session[b].uid, premium |-> users[session[b].uid].premium]
    BY <1>1, <2>4, SignInAssumption DEF MeAnswer, CorsAllows, CurrentUser
  <2>6. session[b] \in Session /\ now \in Nat
    BY <1>1, <2>5 DEF IInv, TypeOK
  <2>7. /\ session[b].uid \in Ids /\ session[b].exp \in Nat
        /\ users[session[b].uid] \in UserRow
        /\ users[session[b].uid].sub = session[b].sub
    BY <1>1, <2>5, <2>6, RowFields DEF Session, IInv, SessionsHaveRows
  <2>8. call.answer.id = session[b].uid /\ call.answer.premium = users[session[b].uid].premium
    BY <2>5
  <2>9. users[call.answer.id] = [sub |-> session[b].sub, premium |-> call.answer.premium,
                                 profile |-> users[call.answer.id].profile]
    BY <2>7, <2>8 DEF UserRow
  <2>10. begun[session[b].login] = b
    BY <1>1, <2>5 DEF IInv, OwnLogin
  <2>11. now <= session[b].exp
    BY <2>5, <2>6, <2>7
  <2> QED
    BY <2>5, <2>9, <2>10, <2>11
<1>2. IInv /\ [Next]_vars =>
        [\A b \in Pages : \A call \in calls'[b] \ calls[b] : call.answer # None => True(b, call)]_vars
  BY <1>1
<1> QED
  BY SignInInvariant, <1>2, PTL DEF Spec, AnswersAreTrue

(* A page that awaits one call only: its answer is what user.value will be.*)
OneAwaited ==
  \A b \in Pages : expected[b] # Anything =>
    \/ calls[b] = {} /\ shown[b] = expected[b]
    \/ \E call \in calls[b] : calls[b] = {call} /\ call.answer = expected[b]

(* An idle page shows what its last call left, unless calls overlapped.    *)
THEOREM IdlePageShowsLastCall == Spec => []PageShowsLastCall
<1>1. Init => OneAwaited
  BY DEF Init, OneAwaited
<1>2. ASSUME TypeOK, OneAwaited, [Next]_vars
      PROVE  OneAwaited'
  <2> USE DEF TypeOK
  <2>1. CASE pageVars' = pageVars
    BY <1>2, <2>1 DEF pageVars, OneAwaited
  <2>2. ASSUME NEW b \in Pages, shown' \in [Pages -> Person \cup {None}],
               \A d \in Pages : d # b =>
                 shown'[d] = shown[d] /\ calls'[d] = calls[d] /\ expected'[d] = expected[d],
               expected'[b] # Anything =>
                 \/ calls'[b] = {} /\ shown'[b] = expected'[b]
                 \/ \E call \in calls'[b] : calls'[b] = {call} /\ call.answer = expected'[b]
        PROVE  OneAwaited'
    <3> SUFFICES ASSUME NEW d \in Pages, expected'[d] # Anything
                 PROVE  \/ calls'[d] = {} /\ shown'[d] = expected'[d]
                        \/ \E call \in calls'[d] : calls'[d] = {call} /\ call.answer = expected'[d]
      BY DEF OneAwaited
    <3>1. CASE d = b
      BY <2>2, <3>1
    <3>2. CASE d # b
      BY <1>2, <2>2, <3>2 DEF OneAwaited
    <3> QED
      BY <3>1, <3>2
  <2>3. ASSUME NEW b \in Pages, NEW call, MakeCall(b, call)
        PROVE  OneAwaited'
    <3>1. /\ calls'[b] = calls[b] \cup {call} /\ shown' = shown
          /\ expected'[b] = IF calls[b] = {} THEN call.answer ELSE Anything
          /\ \A d \in Pages : d # b => calls'[d] = calls[d] /\ expected'[d] = expected[d]
      BY <1>2, <2>3 DEF MakeCall
    <3> QED
      BY <1>2, <2>2, <3>1
  <2>4. ASSUME NEW b \in Pages, Reload(b)
        PROVE  OneAwaited'
    <3>1. /\ calls'[b] = {} /\ shown'[b] = None /\ expected'[b] = None
          /\ shown' \in [Pages -> Person \cup {None}]
          /\ \A d \in Pages : d # b =>
               shown'[d] = shown[d] /\ calls'[d] = calls[d] /\ expected'[d] = expected[d]
      BY <1>2, <2>4 DEF Reload
    <3> QED
      BY <2>2, <3>1
  <2>5. ASSUME NEW b \in Pages, NEW call \in calls[b],
               FetchReturns(b, call) \/ FetchFails(b, call) \/ LogoutReturns(b, call)
        PROVE  OneAwaited'
    <3>1. call \in Call /\ call.answer \in Person \cup {None} /\ (call.of = "logout" => call.answer = None)
      BY <1>2 DEF Call
    <3>2. /\ calls'[b] = calls[b] \ {call}
          /\ \A d \in Pages : d # b =>
               shown'[d] = shown[d] /\ calls'[d] = calls[d] /\ expected'[d] = expected[d]
          /\ shown' \in [Pages -> Person \cup {None}]
      BY <1>2, <2>5, <3>1 DEF FetchReturns, FetchFails, LogoutReturns, AuthLogout
    <3>3. \/ shown'[b] = call.answer /\ expected'[b] = expected[b]
          \/ shown'[b] = None /\ expected'[b] \in {None, Anything}
             /\ (expected'[b] = Anything <=> expected[b] = Anything)
      BY <1>2, <2>5, <3>1, NoneAssumption DEF FetchReturns, FetchFails, LogoutReturns, AuthLogout
    <3>4. ASSUME expected'[b] # Anything
          PROVE  calls'[b] = {} /\ shown'[b] = expected'[b]
      <4>1. expected[b] # Anything
        BY <3>3, <3>4
      <4>2. calls[b] = {call} /\ call.answer = expected[b]
        BY <1>2, <4>1 DEF OneAwaited
      <4> QED
        BY <3>2, <3>3, <3>4, <4>2
    <3> QED
      BY <2>2, <3>2, <3>4
  <2> QED
    BY <1>2, <2>1, <2>3, <2>4, <2>5, CallWriters DEF FetchUser, Logout
<1>3. OneAwaited => PageShowsLastCall
  BY DEF OneAwaited, PageShowsLastCall
<1> QED
  BY <1>1, <1>2, <1>3, TypeCorrect, PTL DEF Spec
=============================================================================
