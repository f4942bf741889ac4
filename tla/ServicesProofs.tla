---------------------------- MODULE ServicesProofs ----------------------------
(***************************************************************************)
(* Proofs about Services, for any names, any threads and any bounds: the    *)
(* accounts keep an administrator, the archive stays sound, and late answers *)
(* of the server are dropped.  Each part has its own inductive invariant;    *)
(* the other parts' steps leave its variables alone.                         *)
(***************************************************************************)
EXTENDS Services, FiniteSetTheorems, SequenceTheorems, WellFoundedInduction, TLAPS

(***************************************************************************)
(* Accounts                                                                 *)
(***************************************************************************)
\* A request that is to open a session carries the account it is for, one
\* that found a session goes by that of an account.
CarriesUser ==
  \A b \in Browsers :
    /\ req[b].at \in {"anonymous", "setup session", "login session"} => req[b].user \in Users
    /\ req[b].at = "resolve" =>
         req[b].session \in Sessions /\ sessions[req[b].session].user \in Users

\* The file never has an administrator that the memory lacks.
AdminIsKept == HasAdmin(saved) => HasAdmin(users)

\* The two parts of the type that have facts of their own.
SessionsOK ==
  /\ sessions \in [Sessions -> [user : Users \cup {Nil}, elevated : BOOLEAN]]
  /\ open \subseteq Sessions
  /\ \A s \in open : sessions[s].user \in Users

RequestTypes ==
  [at : {"idle", "create", "anonymous", "setup session", "login session", "elevate", "resolve",
         "drop", "admit", "add", "settings", "update", "revoke"},
   session : Sessions \cup {Nil}, role : Roles \cup {"none", Nil}, user : Users \cup {Nil}]

RequestsOK == req \in [Browsers -> RequestTypes] /\ CarriesUser

AccessInv == AccessTypeOK /\ CarriesUser /\ AdminIsKept

USE AccessAssumption

LEMMA OneLess == ASSUME NEW n \in Nat, n > 0 PROVE n - 1 \in Nat
  OBVIOUS

LEMMA AccessStarts == AccessInit => AccessInv
<1> SUFFICES ASSUME AccessInit PROVE AccessInv
  OBVIOUS
<1>1. PICK team \in SUBSET Users :
        /\ users = [u \in Users |-> IF u \in team THEN [role |-> "admin", active |-> TRUE]
                                    ELSE NoAccount]
        /\ \/ open = {} /\ sessions = [s \in Sessions |-> [user |-> Nil, elevated |-> FALSE]]
           \/ open = Sessions /\ sessions \in [Sessions -> [user : team, elevated : {TRUE}]]
  BY DEF AccessInit
<1>2. users \in [Users -> Account \cup {NoAccount}] /\ saved = users
  BY <1>1 DEF AccessInit, Account, Roles
<1>3. /\ sessions \in [Sessions -> [user : Users \cup {Nil}, elevated : BOOLEAN]]
      /\ open \subseteq Sessions
      /\ \A s \in open : sessions[s].user \in Users
  <2>1. CASE open = {} /\ sessions = [s \in Sessions |-> [user |-> Nil, elevated |-> FALSE]]
    BY <2>1
  <2>2. CASE open = Sessions /\ sessions \in [Sessions -> [user : team, elevated : {TRUE}]]
    <3>1. [user : team, elevated : {TRUE}] \subseteq [user : Users, elevated : BOOLEAN]
      OBVIOUS
    <3>2. sessions \in [Sessions -> [user : Users, elevated : BOOLEAN]]
      BY <2>2, <3>1
    <3> QED BY <2>2, <3>2
  <2> QED BY <1>1, <2>1, <2>2
<1>4. req = [b \in Browsers |-> Idle] /\ requests \in Nat /\ mishaps \in Nat
  BY DEF AccessInit
<1>7. req \in [Browsers -> [at : {"idle"}, session : {Nil}, role : {Nil}, user : {Nil}]]
  BY <1>4 DEF Idle
<1>6. AccessTypeOK
  BY <1>2, <1>3, <1>4, <1>7 DEF AccessTypeOK
<1>5. CarriesUser /\ AdminIsKept
  BY <1>2, <1>4 DEF CarriesUser, AdminIsKept, Idle
<1> QED BY <1>5, <1>6 DEF AccessInv

\* A save writes accounts with an administrator if there was one in memory.
LEMMA SaveKeeps ==
  ASSUME AccessInv, NEW b \in Browsers, NEW accounts, NEW next,
         accounts \in [Users -> Account \cup {NoAccount}],
         HasAdmin(users) => HasAdmin(accounts),
         next \in RequestTypes, next.at # "resolve",
         next.at \in {"anonymous", "setup session", "login session"} => next.user \in Users,
         Save(accounts, b, next), UNCHANGED <<sessions, open, requests>>
  PROVE  AccessInv' /\ (HasAdmin(saved) => HasAdmin(saved') /\ HasAdmin(users'))
<1>1. users' = accounts /\ saved' \in {saved, accounts}
  BY DEF Save
<1>2. req' = [req EXCEPT ![b] = next] \/ req' = [req EXCEPT ![b] = Idle]
  BY DEF Save, Ends
<1>3. mishaps' \in Nat
  <2>1. CASE UNCHANGED mishaps
    BY <2>1 DEF AccessInv, AccessTypeOK
  <2>3. mishaps \in Nat
    BY DEF AccessInv, AccessTypeOK
  <2>2. CASE mishaps > 0 /\ mishaps' = mishaps - 1
    BY <2>2, <2>3, OneLess
  <2> QED BY <2>1, <2>2 DEF Save
<1>4. Idle \in RequestTypes /\ Idle.at = "idle"
  BY DEF Idle, RequestTypes
<1>9. req \in [Browsers -> RequestTypes] /\ req' \in [Browsers -> RequestTypes]
  <2>1. req \in [Browsers -> RequestTypes]
    BY DEF AccessInv, AccessTypeOK, RequestTypes
  <2> QED BY <1>2, <1>4, <2>1
<1>5. AccessTypeOK'
  BY <1>1, <1>3, <1>9 DEF AccessInv, AccessTypeOK, RequestTypes
<1>6. CarriesUser'
  BY <1>2, <1>4, <1>9 DEF AccessInv, CarriesUser
<1>7. HasAdmin(saved) => HasAdmin(accounts)
  BY DEF AccessInv, AdminIsKept
<1>8. AdminIsKept' /\ (HasAdmin(saved) => HasAdmin(saved') /\ HasAdmin(users'))
  BY <1>1, <1>7 DEF AdminIsKept, HasAdmin, IsAdmin
<1> QED BY <1>5, <1>6, <1>8 DEF AccessInv

LEMMA ChangedIsAccount ==
  ASSUME NEW u \in Users, NEW c \in Change, users \in [Users -> Account \cup {NoAccount}],
         users[u] # NoAccount
  PROVE  Changed(u, c) \in Account
<1>1. users[u] \in Account
  OBVIOUS
<1> QED BY <1>1 DEF Changed, Account, Change, Roles

\* A change that is not refused leaves an administrator.
LEMMA UpdateLeavesAdmin ==
  ASSUME AccessInv, NEW u \in Users, NEW c \in Change, users[u] # NoAccount,
         ~Refused(u, c), HasAdmin(users)
  PROVE  HasAdmin([users EXCEPT ![u] = Changed(u, c)])
<1>0. users \in [Users -> Account \cup {NoAccount}] /\ users[u] \in Account
  BY DEF AccessInv, AccessTypeOK
<1>1. Changed(u, c) \in Account
  BY <1>0, ChangedIsAccount
<1>2. PICK v \in Users : IsAdmin(users, v)
  BY DEF HasAdmin
<1>3. CASE v # u
  BY <1>0, <1>1, <1>2, <1>3 DEF HasAdmin, IsAdmin
<1>4. CASE v = u /\ OthersRemain(u)
  BY <1>0, <1>1, <1>4 DEF HasAdmin, IsAdmin, OthersRemain
<1>5. CASE v = u /\ ~OthersRemain(u)
  <2>1. users[u].role = "admin" /\ users[u].active
    BY <1>2, <1>5 DEF IsAdmin
  <2>2. c.active # "off" /\ c.role \in {"admin", "keep"}
    BY <2>1, <1>5 DEF Refused, Change, Roles
  <2>3. Changed(u, c).role = "admin" /\ Changed(u, c).active
    BY <2>1, <2>2 DEF Changed, Change
  <2> QED BY <1>0, <1>1, <2>3 DEF HasAdmin, IsAdmin
<1> QED BY <1>0, <1>1, <1>3, <1>4, <1>5

\* A request whose place and one field change is of the same type.
LEMMA RequestMoves ==
  ASSUME req \in [Browsers -> RequestTypes], CarriesUser, NEW b \in Browsers,
         NEW r \in RequestTypes, req' = [req EXCEPT ![b] = r],
         r.at \in {"anonymous", "setup session", "login session"} => r.user \in Users,
         r.at = "resolve" => r.session \in Sessions /\ sessions'[r.session].user \in Users,
         \A s \in Sessions : sessions[s].user \in Users => sessions'[s].user \in Users
  PROVE  RequestsOK'
  BY DEF RequestsOK, CarriesUser

\* What the steps of a request make of it.
LEMMA PlaceEdited ==
  ASSUME NEW r \in RequestTypes, NEW at \in {"create", "elevate", "add", "settings", "update"}
  PROVE  [r EXCEPT !.at = at] \in RequestTypes /\ [r EXCEPT !.at = at].at = at
  BY DEF RequestTypes

LEMMA SessionEdited ==
  ASSUME NEW r \in RequestTypes, NEW s \in Sessions, NEW at \in {"elevate", "resolve"}
  PROVE  /\ [r EXCEPT !.at = at, !.session = s] \in RequestTypes
         /\ [r EXCEPT !.at = at, !.session = s].at = at
         /\ [r EXCEPT !.at = at, !.session = s].session = s
  BY DEF RequestTypes

LEMMA RoleEdited ==
  ASSUME NEW r \in RequestTypes, NEW role \in Roles \cup {"none"}, NEW at \in {"drop", "admit"}
  PROVE  /\ [r EXCEPT !.role = role, !.at = at] \in RequestTypes
         /\ [r EXCEPT !.role = role, !.at = at].at = at
  BY DEF RequestTypes

UserEdited(r, at, u) ==
  /\ [r EXCEPT !.at = at, !.user = u] \in RequestTypes
  /\ [r EXCEPT !.at = at, !.user = u].at = at
  /\ [r EXCEPT !.at = at, !.user = u].user = u

LEMMA UserIsEdited ==
  ASSUME NEW r \in RequestTypes, NEW u \in Users, NEW at \in {"anonymous", "revoke"}
  PROVE  UserEdited(r, at, u)
  BY DEF RequestTypes, UserEdited

\* An administration request that is turned down changes nothing but itself.
LEMMA RefuseKeeps ==
  ASSUME AccessInv, NEW b \in Browsers, Ends(b),
         UNCHANGED <<users, saved, mishaps, sessions, open, requests>>
  PROVE  AccessInv' /\ (HasAdmin(saved) => HasAdmin(saved') /\ HasAdmin(users'))
<1>1. Idle \in RequestTypes /\ Idle.at = "idle"
  BY DEF Idle, RequestTypes
<1>2. req \in [Browsers -> RequestTypes] /\ CarriesUser
  BY DEF AccessInv, AccessTypeOK, RequestTypes
<1>3. req' \in [Browsers -> RequestTypes] /\ CarriesUser'
  BY <1>1, <1>2 DEF Ends, CarriesUser
<1> QED BY <1>3 DEF AccessInv, AccessTypeOK, RequestTypes, AdminIsKept, HasAdmin, IsAdmin

\* Steps of a request that change no account.
LEMMA OtherStepsKeep ==
  ASSUME AccessInv, NEW b \in Browsers, UNCHANGED <<users, saved, mishaps>>,
         \/ Setup(b) \/ Login(b) \/ OpenSession(b) \/ Elevate(b) \/ Logout(b)
         \/ Request(b) \/ Resolve(b) \/ Drop(b) \/ StepUp(b) \/ CreateUser(b)
         \/ UpdateUser(b) \/ UpdateSettings(b) \/ Refuse(b) \/ Revoke(b)
  PROVE  AccessInv' /\ (HasAdmin(saved) => HasAdmin(saved') /\ HasAdmin(users'))
<1>1. AdminIsKept' /\ (HasAdmin(saved) => HasAdmin(saved') /\ HasAdmin(users'))
  BY DEF AccessInv, AdminIsKept, HasAdmin, IsAdmin
<1>2. requests' \in Nat
  <2>1. requests \in Nat
    BY DEF AccessInv, AccessTypeOK
  <2>2. requests' = requests \/ (requests > 0 /\ requests' = requests - 1)
    BY DEF Setup, Login, OpenSession, Elevate, Logout, Request, Resolve, Drop, StepUp,
           CreateUser, UpdateUser, UpdateSettings, Refuse, Revoke, Arrives
  <2> QED BY <2>1, <2>2, OneLess
<1>3. /\ req \in [Browsers -> RequestTypes] /\ CarriesUser
      /\ sessions \in [Sessions -> [user : Users \cup {Nil}, elevated : BOOLEAN]]
      /\ open \subseteq Sessions /\ \A s \in open : sessions[s].user \in Users
      /\ \A u \in Users : users[u].role \in Roles \cup {"none"}
  <2>1. \A a \in Account \cup {NoAccount} : a.role \in Roles \cup {"none"}
    BY DEF Account, NoAccount
  <2>2. /\ req \in [Browsers -> RequestTypes] /\ CarriesUser
        /\ sessions \in [Sessions -> [user : Users \cup {Nil}, elevated : BOOLEAN]]
        /\ open \subseteq Sessions /\ \A s \in open : sessions[s].user \in Users
        /\ users \in [Users -> Account \cup {NoAccount}]
    BY DEF AccessInv, AccessTypeOK, RequestTypes
  <2> QED BY <2>1, <2>2
<1>4. SessionsOK' /\ \A s \in Sessions : sessions[s].user \in Users => sessions'[s].user \in Users
  <2>1. CASE UNCHANGED sessions /\ open' \subseteq open
    BY <1>3, <2>1 DEF SessionsOK
  <2>2. CASE OpenSession(b)
    <3>1. PICK s \in NewSession :
            /\ sessions' = [sessions EXCEPT ![s] = [user |-> req[b].user, elevated |-> FALSE]]
            /\ open' = open \cup {s}
      BY <2>2 DEF OpenSession
    <3>2. s \in Sessions /\ req[b].user \in Users
      BY <1>3, <2>2 DEF NewSession, OpenSession, CarriesUser
    <3>3. [user |-> req[b].user, elevated |-> FALSE] \in [user : Users \cup {Nil}, elevated : BOOLEAN]
      BY <3>2
    <3> QED BY <1>3, <3>1, <3>2, <3>3 DEF SessionsOK
  <2>3. CASE \E s \in Sessions, e \in BOOLEAN :
               sessions' = [sessions EXCEPT ![s].elevated = e] /\ UNCHANGED open
    BY <1>3, <2>3 DEF SessionsOK
  <2>4. CASE Elevate(b)
    <3>1. sessions' = sessions \/ (/\ req[b].session \in open
                                   /\ sessions' = [sessions EXCEPT ![req[b].session].elevated = TRUE])
      BY <2>4 DEF Elevate
    <3>2. open' = open
      BY <2>4 DEF Elevate
    <3> QED BY <1>3, <2>1, <2>3, <3>1, <3>2
  <2> QED
    BY <2>1, <2>2, <2>4
       DEF Setup, Login, Logout, Request, Resolve, Drop, StepUp, CreateUser, UpdateUser,
           UpdateSettings, Refuse, Revoke
<1>5. RequestsOK'
  <2>0. req[b] \in RequestTypes
    BY <1>3
  <2>1. Idle \in RequestTypes
    BY DEF Idle, RequestTypes
  <2>2. CASE UNCHANGED req
    BY <1>3, <1>4, <2>2 DEF RequestsOK, CarriesUser
  <2>3. CASE req' = [req EXCEPT ![b] = Idle]
    BY <1>3, <1>4, <2>1, <2>3 DEF RequestsOK, CarriesUser, Idle
  <2>4. CASE \E at \in {"create", "elevate", "update", "settings", "add"} :
               req' = [req EXCEPT ![b].at = at]
    <3>1. PICK at \in {"create", "elevate", "update", "settings", "add"} :
            req' = [req EXCEPT ![b] = [req[b] EXCEPT !.at = at]]
      BY <2>4
    <3>2. [req[b] EXCEPT !.at = at] \in RequestTypes /\ [req[b] EXCEPT !.at = at].at = at
      <4>1. at \in {"create", "elevate", "add", "settings", "update"}
        BY <3>1
      <4> HIDE <3>1
      <4> QED BY <2>0, <4>1, PlaceEdited
    <3> QED BY <1>3, <1>4, <3>1, <3>2, RequestMoves
  <2>5. CASE Login(b)
    <3>1. PICK u \in Users :
            req' = [req EXCEPT ![b] = [Idle EXCEPT !.at = "login session", !.user = u]]
      BY <2>5 DEF Login
    <3>2. [Idle EXCEPT !.at = "login session", !.user = u] \in RequestTypes
      BY DEF Idle, RequestTypes
    <3>3. /\ [Idle EXCEPT !.at = "login session", !.user = u].at = "login session"
          /\ [Idle EXCEPT !.at = "login session", !.user = u].user = u
      BY DEF Idle
    <3> QED BY <1>3, <1>4, <3>1, <3>2, <3>3, RequestMoves
  <2>6. CASE OpenSession(b)
    <3>1. req' = [req EXCEPT ![b] = Idle]
            \/ \E s \in Sessions : req' = [req EXCEPT ![b].at = "elevate", ![b].session = s]
      BY <2>6 DEF OpenSession, NewSession, Ends
    <3>2. CASE \E s \in Sessions : req' = [req EXCEPT ![b].at = "elevate", ![b].session = s]
      <4>1. PICK s \in Sessions :
              req' = [req EXCEPT ![b] = [req[b] EXCEPT !.at = "elevate", !.session = s]]
        BY <3>2
      <4>2. /\ [req[b] EXCEPT !.at = "elevate", !.session = s] \in RequestTypes
            /\ [req[b] EXCEPT !.at = "elevate", !.session = s].at = "elevate"
        BY <2>0, SessionEdited
      <4> QED BY <1>3, <1>4, <4>1, <4>2, RequestMoves
    <3> QED BY <2>3, <3>1, <3>2
  <2>7. CASE Request(b)
    <3>1. PICK s \in open :
            req' = [req EXCEPT ![b] = [req[b] EXCEPT !.at = "resolve", !.session = s]]
      BY <2>7 DEF Request
    <3>2. s \in Sessions /\ sessions'[s].user \in Users
      BY <1>3, <1>4
    <3>3. /\ [req[b] EXCEPT !.at = "resolve", !.session = s] \in RequestTypes
          /\ [req[b] EXCEPT !.at = "resolve", !.session = s].at = "resolve"
          /\ [req[b] EXCEPT !.at = "resolve", !.session = s].session = s
      BY <2>0, <1>3, <3>1, SessionEdited
    <3> QED BY <1>3, <1>4, <3>1, <3>2, <3>3, RequestMoves
  <2>8. CASE Resolve(b)
    <3>1. PICK role \in Roles \cup {"none"}, at \in {"admit", "drop"} :
            req' = [req EXCEPT ![b] = [req[b] EXCEPT !.role = role, !.at = at]]
      BY <1>3, <2>8 DEF Resolve, CarriesUser
    <3>2. /\ [req[b] EXCEPT !.role = role, !.at = at] \in RequestTypes
          /\ [req[b] EXCEPT !.role = role, !.at = at].at = at
      <4>1. role \in Roles \cup {"none"} /\ at \in {"drop", "admit"}
        BY <3>1
      <4> HIDE <3>1
      <4> QED BY <2>0, <4>1, RoleEdited
    <3> QED BY <1>3, <1>4, <3>1, <3>2, RequestMoves
  <2> QED
    BY <2>2, <2>3, <2>4, <2>5, <2>6, <2>7, <2>8
       DEF Setup, StepUp, CreateUser, UpdateUser, UpdateSettings, Goes,
           Elevate, Logout, Drop, Refuse, Revoke, Ends
<1>6. AccessTypeOK' /\ CarriesUser'
  BY <1>2, <1>4, <1>5 DEF AccessInv, AccessTypeOK, SessionsOK, RequestsOK, RequestTypes
<1> QED BY <1>1, <1>6 DEF AccessInv

LEMMA AccessStep ==
  ASSUME AccessInv, AccessNext
  PROVE  AccessInv' /\ (HasAdmin(saved) => HasAdmin(saved') /\ HasAdmin(users'))
<1>0. /\ users \in [Users -> Account \cup {NoAccount}]
      /\ saved \in [Users -> Account \cup {NoAccount}]
      /\ req \in [Browsers -> RequestTypes] /\ Idle \in RequestTypes
  BY DEF AccessInv, AccessTypeOK, RequestTypes, Idle
<1>1. ASSUME NEW u \in NewUser, NEW r \in Roles
      PROVE  /\ [users EXCEPT ![u] = [role |-> r, active |-> TRUE]] \in [Users -> Account \cup {NoAccount}]
             /\ HasAdmin(users) => HasAdmin([users EXCEPT ![u] = [role |-> r, active |-> TRUE]])
  <2>1. u \in Users /\ users[u].role = "none" /\ [role |-> r, active |-> TRUE] \in Account
    BY DEF NewUser, NoAccount, Account
  <2> QED BY <1>0, <2>1 DEF HasAdmin, IsAdmin
<1>2. ASSUME NEW b \in Browsers, CreateFirst(b)
      PROVE  AccessInv' /\ (HasAdmin(saved) => HasAdmin(saved') /\ HasAdmin(users'))
  <2>1. PICK u \in NewUser :
          Save([users EXCEPT ![u] = [role |-> "admin", active |-> TRUE]], b,
               [req[b] EXCEPT !.at = "anonymous", !.user = u])
    BY <1>2 DEF CreateFirst
  <2>2. u \in Users /\ req[b] \in RequestTypes
    BY <1>0, <2>1 DEF NewUser
  <2>3. UserEdited(req[b], "anonymous", u)
    BY <2>2, UserIsEdited
  <2>4. UNCHANGED <<sessions, open, requests>>
    BY <1>2 DEF CreateFirst
  <2>5. /\ [users EXCEPT ![u] = [role |-> "admin", active |-> TRUE]] \in [Users -> Account \cup {NoAccount}]
        /\ HasAdmin(users) => HasAdmin([users EXCEPT ![u] = [role |-> "admin", active |-> TRUE]])
    BY <1>1, <2>1 DEF Roles
  <2> QED BY <2>1, <2>2, <2>3, <2>4, <2>5, SaveKeeps DEF UserEdited
<1>3. ASSUME NEW b \in Browsers, SetAnonymous(b)
      PROVE  AccessInv' /\ (HasAdmin(saved) => HasAdmin(saved') /\ HasAdmin(users'))
  <2>1. [req[b] EXCEPT !.at = "setup session"] \in RequestTypes
    BY <1>0 DEF RequestTypes
  <2>2. [req[b] EXCEPT !.at = "setup session"].user \in Users
    BY <1>0, <1>3 DEF AccessInv, CarriesUser, SetAnonymous, RequestTypes
  <2>3. [req[b] EXCEPT !.at = "setup session"].at = "setup session"
    BY <1>0 DEF RequestTypes
  <2> QED BY <1>0, <1>3, <2>1, <2>2, <2>3, SaveKeeps DEF SetAnonymous
<1>4. ASSUME NEW b \in Browsers, Add(b)
      PROVE  AccessInv' /\ (HasAdmin(saved) => HasAdmin(saved') /\ HasAdmin(users'))
  <2>1. CASE Ends(b) /\ UNCHANGED <<users, saved, mishaps>>
    BY <1>4, <2>1, RefuseKeeps DEF Add
  <2>2. CASE \E u \in NewUser, r \in Roles :
               Save([users EXCEPT ![u] = [role |-> r, active |-> TRUE]], b, Idle)
    <3>1. PICK u \in NewUser, r \in Roles :
            Save([users EXCEPT ![u] = [role |-> r, active |-> TRUE]], b, Idle)
      BY <2>2
    <3>2. UNCHANGED <<sessions, open, requests>>
      BY <1>4 DEF Add
    <3>3. /\ [users EXCEPT ![u] = [role |-> r, active |-> TRUE]] \in [Users -> Account \cup {NoAccount}]
          /\ HasAdmin(users) => HasAdmin([users EXCEPT ![u] = [role |-> r, active |-> TRUE]])
      BY <1>1, <3>1
    <3>4. Idle.at = "idle"
      BY DEF Idle
    <3> QED BY <1>0, <3>1, <3>2, <3>3, <3>4, SaveKeeps
  <2> QED BY <1>4, <2>1, <2>2 DEF Add
<1>5. ASSUME NEW b \in Browsers, Settings(b)
      PROVE  AccessInv' /\ (HasAdmin(saved) => HasAdmin(saved') /\ HasAdmin(users'))
  BY <1>0, <1>5, SaveKeeps DEF Settings, Idle
<1>6. ASSUME NEW b \in Browsers, Update(b)
      PROVE  AccessInv' /\ (HasAdmin(saved) => HasAdmin(saved') /\ HasAdmin(users'))
  <2>1. PICK u \in Users, c \in Change :
          \/ Ends(b) /\ UNCHANGED <<users, saved, mishaps>>
          \/ /\ users[u] # NoAccount /\ ~Refused(u, c)
             /\ Save([users EXCEPT ![u] = Changed(u, c)], b,
                     IF c.active = "off" THEN [req[b] EXCEPT !.at = "revoke", !.user = u] ELSE Idle)
    BY <1>6 DEF Update
  <2>2. CASE Ends(b) /\ UNCHANGED <<users, saved, mishaps>>
    BY <1>6, <2>2, RefuseKeeps DEF Update
  <2>3. CASE /\ users[u] # NoAccount /\ ~Refused(u, c)
             /\ Save([users EXCEPT ![u] = Changed(u, c)], b,
                     IF c.active = "off" THEN [req[b] EXCEPT !.at = "revoke", !.user = u] ELSE Idle)
    <3>1. [users EXCEPT ![u] = Changed(u, c)] \in [Users -> Account \cup {NoAccount}]
      BY <1>0, <2>1, <2>3, ChangedIsAccount
    <3>2. HasAdmin(users) => HasAdmin([users EXCEPT ![u] = Changed(u, c)])
      BY <2>1, <2>3, UpdateLeavesAdmin
    <3>3. UserEdited(req[b], "revoke", u)
      BY <1>0, <2>1, UserIsEdited
    <3>4. UNCHANGED <<sessions, open, requests>>
      BY <1>6 DEF Update
    <3>5. CASE c.active = "off"
      BY <2>3, <3>1, <3>2, <3>3, <3>4, <3>5, SaveKeeps DEF UserEdited
    <3>6. CASE c.active # "off"
      <4>1. Save([users EXCEPT ![u] = Changed(u, c)], b, Idle) /\ Idle.at = "idle"
        BY <2>3, <3>6 DEF Idle
      <4> QED BY <1>0, <3>1, <3>2, <3>4, <4>1, SaveKeeps
    <3> QED BY <3>5, <3>6
  <2> QED BY <2>1, <2>2, <2>3
<1>7. ASSUME RestartAccess
      PROVE  AccessInv' /\ (HasAdmin(saved) => HasAdmin(saved') /\ HasAdmin(users'))
  <2>1. mishaps' \in Nat
    <3>1. mishaps \in Nat
      BY DEF AccessInv, AccessTypeOK
    <3> QED BY <1>7, <3>1, OneLess DEF RestartAccess
  <2>2. req' = [b \in Browsers |-> Idle]
    BY <1>7 DEF RestartAccess
  <2>3. req' \in [Browsers -> RequestTypes] /\ \A b \in Browsers : req'[b].at = "idle"
    BY <1>0, <2>2 DEF Idle
  <2>4. AccessTypeOK' /\ CarriesUser'
    BY <1>0, <1>7, <2>1, <2>3 DEF RestartAccess, AccessInv, AccessTypeOK, RequestTypes, CarriesUser
  <2>5. AdminIsKept' /\ (HasAdmin(saved) => HasAdmin(saved') /\ HasAdmin(users'))
    BY <1>7 DEF RestartAccess, AdminIsKept, HasAdmin, IsAdmin
  <2> QED BY <2>4, <2>5 DEF AccessInv
<1>8. ASSUME NEW b \in Browsers,
             \/ Setup(b) \/ Login(b) \/ OpenSession(b) \/ Elevate(b) \/ Logout(b)
             \/ Request(b) \/ Resolve(b) \/ Drop(b) \/ StepUp(b) \/ CreateUser(b)
             \/ UpdateUser(b) \/ UpdateSettings(b) \/ Refuse(b) \/ Revoke(b)
      PROVE  AccessInv' /\ (HasAdmin(saved) => HasAdmin(saved') /\ HasAdmin(users'))
  <2>1. UNCHANGED <<users, saved, mishaps>>
    BY <1>8 DEF Setup, Login, OpenSession, Elevate, Logout, Request, Resolve, Drop, StepUp,
                CreateUser, UpdateUser, UpdateSettings, Refuse, Revoke
  <2> QED BY <1>8, <2>1, OtherStepsKeep
<1>9. ASSUME Expire \/ StepUpOver
      PROVE  AccessInv' /\ (HasAdmin(saved) => HasAdmin(saved') /\ HasAdmin(users'))
  <2>1. UNCHANGED <<users, saved, mishaps>>
    BY <1>9 DEF Expire, StepUpOver
  <2>2. AdminIsKept' /\ (HasAdmin(saved) => HasAdmin(saved') /\ HasAdmin(users'))
    BY <2>1 DEF AccessInv, AdminIsKept, HasAdmin, IsAdmin
  <2>3. /\ UNCHANGED req
        /\ \/ open' \subseteq open /\ UNCHANGED sessions
           \/ /\ UNCHANGED open
              /\ \E s \in Sessions : sessions' = [sessions EXCEPT ![s].elevated = FALSE]
    BY <1>9 DEF Expire, StepUpOver
  <2>4. /\ sessions \in [Sessions -> [user : Users \cup {Nil}, elevated : BOOLEAN]]
        /\ open \subseteq Sessions /\ \A s \in open : sessions[s].user \in Users
        /\ CarriesUser
    BY DEF AccessInv, AccessTypeOK
  <2>5. SessionsOK' /\ \A s \in Sessions : sessions'[s].user = sessions[s].user
    <3>1. CASE open' \subseteq open /\ UNCHANGED sessions
      BY <2>4, <3>1 DEF SessionsOK
    <3>2. CASE /\ UNCHANGED open
               /\ \E s \in Sessions : sessions' = [sessions EXCEPT ![s].elevated = FALSE]
      <4>1. PICK s \in Sessions : sessions' = [sessions EXCEPT ![s].elevated = FALSE]
        BY <3>2
      <4>2. sessions' \in [Sessions -> [user : Users \cup {Nil}, elevated : BOOLEAN]]
        BY <2>4, <4>1
      <4>3. \A t \in Sessions : sessions'[t].user = sessions[t].user
        BY <2>4, <4>1
      <4> QED BY <2>4, <3>2, <4>2, <4>3 DEF SessionsOK
    <3> QED BY <2>3, <3>1, <3>2
  <2>6. CarriesUser'
    BY <2>3, <2>4, <2>5 DEF CarriesUser
  <2>7. requests' = requests
    BY <1>9 DEF Expire, StepUpOver
  <2>8. AccessTypeOK'
    BY <2>1, <2>3, <2>5, <2>7 DEF AccessInv, AccessTypeOK, SessionsOK
  <2> QED BY <2>2, <2>6, <2>8 DEF AccessInv
<1> QED BY <1>2, <1>3, <1>4, <1>5, <1>6, <1>7, <1>8, <1>9 DEF AccessNext

(***************************************************************************)
(* The dashboard's requests                                                 *)
(***************************************************************************)
\* What is shown and what is on its way comes from the server's past; an
\* answer that would be shown is no older than what is; effects to come have
\* asked nothing.
AnswersInv ==
  /\ shown <= version /\ listed <= version
  /\ \A i \in Ids : flight[i].version <= version /\ calls[i].version <= version
  /\ \A i \in Ids : i > effect => flight[i] = Silent
  /\ effect > 0 /\ flight[effect].at = "answered" => shown <= flight[effect].version
  /\ asked > 0 /\ calls[asked].at = "answered" => listed <= calls[asked].version

PollingInv == PollingTypeOK /\ AnswersInv

USE PollingAssumption

LEMMA PollingStarts == PollingInit => PollingInv
<1> SUFFICES ASSUME PollingInit PROVE PollingInv
  OBVIOUS
<1>1. Silent \in Requests /\ Silent.version = 0 /\ Silent.at = "none"
  BY DEF Silent, Requests
<1>2. PollingTypeOK
  <2>1. up \in BOOLEAN /\ enabled \in BOOLEAN /\ timer \in BOOLEAN /\ loading \in BOOLEAN
    BY DEF PollingInit
  <2>2. flight \in [Ids -> Requests] /\ calls \in [Ids -> Requests]
    BY <1>1 DEF PollingInit
  <2>3. {version, shown, listed} \subseteq 0..MaxVersion /\ {effect, asked} \subseteq 0..MaxAsked
    BY DEF PollingInit
  <2>4. clicks \in Nat
    BY DEF PollingInit
  <2> QED BY <2>1, <2>2, <2>3, <2>4 DEF PollingTypeOK
<1>3. /\ version = 0 /\ shown = 0 /\ listed = 0 /\ effect = 0 /\ asked = 0
      /\ \A i \in Ids : flight[i] = Silent /\ calls[i] = Silent
  BY DEF PollingInit
<1>4. AnswersInv
  BY <1>1, <1>3 DEF AnswersInv
<1> QED BY <1>2, <1>4 DEF PollingInv

\* One step of the dashboard, whichever it is.
LEMMA PollingStep ==
  ASSUME PollingInv, PollingNext
  PROVE  PollingInv' /\ shown' >= shown /\ listed' >= listed
<1> USE DEF poller, list
<1>0. /\ version \in 0..MaxVersion /\ shown \in 0..MaxVersion /\ listed \in 0..MaxVersion
      /\ effect \in 0..MaxAsked /\ asked \in 0..MaxAsked
      /\ up \in BOOLEAN /\ enabled \in BOOLEAN /\ timer \in BOOLEAN /\ loading \in BOOLEAN
      /\ flight \in [Ids -> Requests] /\ calls \in [Ids -> Requests] /\ clicks \in Nat
      /\ MaxVersion \in Nat /\ MaxAsked \in Nat
  BY DEF PollingInv, PollingTypeOK
<1>1. AnswersInv
  BY DEF PollingInv
<1>2. /\ Sent \in Requests /\ Silent \in Requests /\ Reply \in Requests
      /\ Sent.version = 0 /\ Silent.version = 0 /\ Reply.version \in {0, version}
      /\ Sent.at = "sent" /\ Silent.at = "none"
      /\ Reply.at = "answered" => Reply.version = version
  BY <1>0 DEF Sent, Silent, Reply, Requests
<1>3. ASSUME Click PROVE clicks' \in Nat
  BY <1>0, <1>3, OneLess DEF Click
<1>4. \A i \in Ids : flight[i].version \in Nat /\ calls[i].version \in Nat
  BY <1>0 DEF Requests
<1>5. ASSUME NEW e \in Ids, Ticked(e)
      PROVE  /\ flight' \in [Ids -> Requests]
             /\ \A i \in Ids : i # e => flight'[i] = flight[i]
             /\ flight'[e] \in {flight[e], Sent}
  BY <1>0, <1>2, <1>5 DEF Ticked
<1>6. CASE ServerTurns
  <2>1. /\ version' \in 0..MaxVersion /\ version' >= version /\ up' \in BOOLEAN
        /\ UNCHANGED <<enabled, effect, timer, shown, asked, listed, loading, flight, calls>>
    <3>1. CASE version < MaxVersion /\ version' = version + 1 /\ UNCHANGED up
      BY <1>0, <1>6, <3>1 DEF ServerTurns
    <3>2. CASE up' = ~up /\ UNCHANGED version
      <4>1. version' \in 0..MaxVersion /\ version' >= version
        BY <1>0, <3>2
      <4>2. up' \in BOOLEAN
        BY <3>2
      <4> QED BY <1>6, <4>1, <4>2 DEF ServerTurns
    <3> QED BY <1>6, <3>1, <3>2 DEF ServerTurns
  <2>2. PollingTypeOK'
    BY <1>0, <1>3, <1>6, <2>1 DEF ServerTurns, PollingTypeOK
  <2>4. /\ shown' <= version' /\ listed' <= version'
        /\ \A i \in Ids : flight'[i].version <= version' /\ calls'[i].version <= version'
    <3>1. version \in Nat /\ version' \in Nat /\ shown \in Nat /\ listed \in Nat
      BY <1>0, <2>1
    <3> QED BY <1>1, <1>4, <2>1, <3>1 DEF AnswersInv
  <2>3. AnswersInv'
    BY <1>1, <2>1, <2>4 DEF AnswersInv
  <2> QED BY <1>0, <2>1, <2>2, <2>3 DEF PollingInv
<1>7. ASSUME NEW e \in Ids, Serve(e)
      PROVE  PollingInv' /\ shown' >= shown /\ listed' >= listed
  <2>1. /\ flight[e] = Sent /\ flight' = [flight EXCEPT ![e] = Reply]
        /\ UNCHANGED <<version, up, enabled, effect, timer, shown, asked, listed, loading, calls, clicks>>
    BY <1>7 DEF Serve
  <2>2. PollingTypeOK'
    BY <1>0, <1>2, <2>1 DEF PollingTypeOK
  <2>3. e <= effect
    BY <1>0, <1>1, <1>2, <2>1 DEF AnswersInv, Ids
  <2>4. AnswersInv'
    BY <1>0, <1>1, <1>2, <1>4, <2>1, <2>3 DEF AnswersInv, Ids
  <2> QED BY <1>0, <2>1, <2>2, <2>4 DEF PollingInv
<1>8. ASSUME NEW i \in Ids, ServeCall(i)
      PROVE  PollingInv' /\ shown' >= shown /\ listed' >= listed
  <2>1. /\ calls' = [calls EXCEPT ![i] = Reply]
        /\ UNCHANGED <<version, up, enabled, effect, timer, shown, asked, listed, loading, flight, clicks>>
    BY <1>8 DEF ServeCall
  <2>2. PollingTypeOK'
    BY <1>0, <1>2, <2>1 DEF PollingTypeOK
  <2>3. AnswersInv'
    BY <1>0, <1>1, <1>2, <1>4, <2>1 DEF AnswersInv, Ids
  <2> QED BY <1>0, <2>1, <2>2, <2>3 DEF PollingInv
<1>9. CASE Enable
  <2>1. effect' = effect + 1 /\ effect' \in Ids /\ effect' \in 0..MaxAsked /\ Ticked(effect + 1)
    BY <1>0, <1>9 DEF Enable, Ids
  <2>2. /\ enabled' \in BOOLEAN
        /\ UNCHANGED <<version, up, timer, shown, asked, listed, loading, calls>>
    BY <1>9 DEF Enable
  <2>3. /\ flight' \in [Ids -> Requests] /\ \A i \in Ids : i # effect' => flight'[i] = flight[i]
        /\ flight'[effect'] \in {Silent, Sent}
    <3>1. flight[effect'] = Silent
      BY <1>0, <1>1, <2>1 DEF AnswersInv
    <3>2. Ticked(effect')
      BY <2>1
    <3> QED BY <1>0, <1>2, <2>1, <3>1, <3>2 DEF Ticked
  <2>4. PollingTypeOK'
    BY <1>0, <1>3, <1>9, <2>1, <2>2, <2>3 DEF Enable, PollingTypeOK
  <2>6. \A i \in Ids : i > effect' => flight'[i] = Silent
    <3> SUFFICES ASSUME NEW i \in Ids, i > effect' PROVE flight'[i] = Silent
      OBVIOUS
    <3>1. i > effect /\ i # effect'
      BY <1>0, <2>1 DEF Ids
    <3> QED BY <1>1, <2>3, <3>1 DEF AnswersInv
  <2>7. \A i \in Ids : flight'[i].version <= version /\ calls[i].version <= version
    BY <1>0, <1>1, <1>2, <2>1, <2>3 DEF AnswersInv
  <2>5. AnswersInv'
    BY <1>1, <1>2, <2>2, <2>3, <2>6, <2>7 DEF AnswersInv
  <2> QED BY <1>0, <2>2, <2>4, <2>5 DEF PollingInv
<1>10. CASE Disable
  <2>1. UNCHANGED <<version, up, effect, shown, asked, listed, loading, flight, calls>>
    BY <1>10 DEF Disable
  <2>2. PollingTypeOK'
    BY <1>0, <1>3, <1>10, <2>1 DEF Disable, PollingTypeOK
  <2> QED BY <1>0, <1>1, <2>1, <2>2 DEF PollingInv, AnswersInv
<1>11. CASE RefreshNow \/ TimerFires
  <2>1. /\ Ticked(effect) /\ timer' \in BOOLEAN /\ clicks' \in Nat
        /\ UNCHANGED <<version, up, enabled, effect, shown, asked, listed, loading, calls>>
    BY <1>0, <1>3, <1>11 DEF RefreshNow, TimerFires
  <2>2. /\ flight' \in [Ids -> Requests]
        /\ \A i \in Ids : i # effect => flight'[i] = flight[i]
        /\ \A i \in Ids : flight'[i] \in {flight[i], Sent}
    BY <1>0, <1>2, <2>1 DEF Ticked
  <2>3. PollingTypeOK'
    BY <1>0, <2>1, <2>2 DEF PollingTypeOK
  <2>4. AnswersInv'
    BY <1>0, <1>1, <1>2, <1>4, <2>1, <2>2 DEF AnswersInv, Ids
  <2> QED BY <1>0, <2>1, <2>3, <2>4 DEF PollingInv
<1>12. ASSUME NEW e \in Ids, Receive(e)
       PROVE  PollingInv' /\ shown' >= shown /\ listed' >= listed
  <2>1. /\ flight[e].at \in {"answered", "failed"} /\ flight' = [flight EXCEPT ![e] = Silent]
        /\ UNCHANGED <<version, up, enabled, effect, asked, listed, loading, calls, clicks>>
        /\ timer' \in BOOLEAN
        /\ \/ shown' = shown
           \/ e = effect /\ flight[e].at = "answered" /\ shown' = flight[e].version
    BY <1>0, <1>12 DEF Receive
  <2>2. shown' >= shown /\ shown' <= version /\ shown' \in 0..MaxVersion
    BY <1>0, <1>1, <1>4, <2>1 DEF AnswersInv, Ids
  <2>3. PollingTypeOK'
    BY <1>0, <1>2, <2>1, <2>2 DEF PollingTypeOK
  <2>4. effect > 0 /\ flight'[effect].at = "answered" => shown' = shown
    BY <1>0, <1>2, <2>1 DEF Ids
  <2>5. AnswersInv'
    BY <1>0, <1>1, <1>2, <1>4, <2>1, <2>2, <2>4 DEF AnswersInv, Ids
  <2> QED BY <1>0, <2>1, <2>2, <2>3, <2>5 DEF PollingInv
<1>13. CASE RefreshList
  <2>1. /\ asked' = asked + 1 /\ asked' \in Ids /\ asked' \in 0..MaxAsked
        /\ calls' = [calls EXCEPT ![asked'] = Sent]
        /\ UNCHANGED <<version, up, enabled, effect, timer, shown, listed, flight>>
        /\ loading' = TRUE
    BY <1>0, <1>13 DEF RefreshList, Ids
  <2>2. PollingTypeOK'
    BY <1>0, <1>2, <1>3, <1>13, <2>1 DEF RefreshList, PollingTypeOK
  <2>3. AnswersInv'
    BY <1>0, <1>1, <1>2, <1>4, <2>1 DEF AnswersInv
  <2> QED BY <1>0, <2>1, <2>2, <2>3 DEF PollingInv
<1>14. ASSUME NEW i \in Ids, ReceiveList(i)
       PROVE  PollingInv' /\ shown' >= shown /\ listed' >= listed
  <2>1. /\ calls' = [calls EXCEPT ![i] = Silent] /\ loading' \in BOOLEAN
        /\ UNCHANGED <<version, up, enabled, effect, timer, shown, asked, flight, clicks>>
        /\ \/ listed' = listed
           \/ i = asked /\ calls[i].at = "answered" /\ listed' = calls[i].version
    BY <1>0, <1>14 DEF ReceiveList, Newest
  <2>2. listed' >= listed /\ listed' <= version /\ listed' \in 0..MaxVersion
    BY <1>0, <1>1, <1>4, <2>1 DEF AnswersInv, Ids
  <2>3. PollingTypeOK'
    BY <1>0, <1>2, <2>1, <2>2 DEF PollingTypeOK
  <2>4. asked > 0 /\ calls'[asked].at = "answered" => listed' = listed
    BY <1>0, <1>2, <2>1 DEF Ids
  <2>5. AnswersInv'
    BY <1>0, <1>1, <1>2, <1>4, <2>1, <2>2, <2>4 DEF AnswersInv, Ids
  <2> QED BY <1>0, <2>1, <2>2, <2>3, <2>5 DEF PollingInv
<1> QED
  BY <1>6, <1>7, <1>8, <1>9, <1>10, <1>11, <1>12, <1>13, <1>14 DEF PollingNext

(***************************************************************************)
(* Least and greatest elements                                              *)
(***************************************************************************)
LEMMA LeastOf ==
  ASSUME NEW T, T \subseteq Nat, T # {}
  PROVE  \E x \in T : \A y \in T : x <= y
<1> DEFINE R == OpToRel(<, Nat)
<1>1. PICK x \in T : \A y \in T : <<y, x>> \notin R
  <2>1. IsWellFoundedOn(R, Nat)
    BY NatLessThanWellFounded
  <2> HIDE DEF R
  <2> QED BY <2>1, WFMin
<1>2. \A y \in T : ~(y < x)
  BY <1>1 DEF OpToRel
<1> QED BY <1>2

LEMMA GreatestOf ==
  ASSUME NEW n \in Nat, NEW T, T \subseteq 1..n, T # {}
  PROVE  \E x \in T : \A y \in T : y <= x
<1> DEFINE D == {n - y : y \in T}
<1>1. D \subseteq Nat /\ D # {}
  <2>1. PICK t \in T : TRUE
    OBVIOUS
  <2>2. n - t \in D
    BY <2>1
  <2>3. \A y \in T : n - y \in Nat
    OBVIOUS
  <2> QED BY <2>2, <2>3
<1>2. PICK m \in D : \A k \in D : m <= k
  <2> HIDE DEF D
  <2> QED BY <1>1, LeastOf
<1>3. PICK x \in T : m = n - x
  BY <1>2
<1>4. \A y \in T : n - x <= n - y
  BY <1>2, <1>3
<1>5. x \in Int /\ \A y \in T : y \in Int
  BY <1>3
<1> QED BY <1>3, <1>4, <1>5

(***************************************************************************)
(* Exports                                                                  *)
(***************************************************************************)
ExportIds == Datasets \cup {Null}
Making(t) == t.at \in {"zip", "load", "read", "write"}
Listed == {entered[n] : n \in 1..Len(entered)}

TaskTypes ==
  [at : {"idle", "zip", "load", "read", "write", "plan", "delete", "last"}, dataset : ExportIds,
   entry : ExportIds, read : SUBSET (1..Len(entered)), gone : SUBSET ExportIds]

\* An export that is being made is not in the index, unless another entered it,
\* and has its archive once that is there; a retention is not after the latest
\* export, unless that one was entered by mistake.
TaskOK(t) ==
  /\ Making(t) =>
       /\ t.dataset \in Datasets \cap (folders \cup Listed)
       /\ t.dataset \in Listed => t.dataset \in mistaken
       /\ t.at # "zip" => t.dataset \in archives \cup mistaken
  /\ t.gone \subseteq Listed
  /\ Len(entered) > 0 /\ entered[Len(entered)] \in t.gone => entered[Len(entered)] \in mistaken

Apart(t, u) == Making(t) /\ Making(u) => t.dataset # u.dataset

TasksOK ==
  /\ \A x \in Exporters : TaskOK(task[x])
  /\ \A x, y \in Exporters : x # y => Apart(task[x], task[y])

\* What is in the index twice was entered by mistake, and the latest export has
\* its archive.
EntriesOK ==
  /\ \A n, k \in 1..Len(entered) : entered[n] = entered[k] => n = k \/ entered[n] \in mistaken
  /\ Len(entered) > 0 => entered[Len(entered)] \in archives \cup mistaken

ExportsInv ==
  ExportsTypeOK /\ task \in [Exporters -> TaskTypes] /\ TasksOK /\ EntriesOK

USE ExportsAssumption

LEMMA IdleTask ==
  NoTask \in TaskTypes /\ NoTask.at = "idle" /\ NoTask.gone = {} /\ ~Making(NoTask) /\ TaskOK(NoTask)
<1>1. NoTask \in TaskTypes
  BY DEF NoTask, TaskTypes, ExportIds, Null
<1>2. NoTask.at = "idle" /\ NoTask.gone = {}
  BY DEF NoTask
<1>3. ~Making(NoTask)
  BY <1>2 DEF Making
<1>4. TaskOK(NoTask)
  BY <1>2, <1>3 DEF TaskOK
<1> QED BY <1>1, <1>2, <1>3, <1>4

LEMMA IdleTaskPrimed == TaskOK(NoTask)'
<1>1. NoTask.gone = {} /\ ~Making(NoTask)
  BY DEF NoTask, Making
<1> QED BY <1>1 DEF TaskOK

LEMMA ExportsStarts == ExportsInit => ExportsInv
<1> SUFFICES ASSUME ExportsInit PROVE ExportsInv
  OBVIOUS
<1>1. /\ folders = {} /\ archives = {} /\ rows = {} /\ last = Null /\ entered = <<>>
      /\ mistaken = {} /\ Len(entered) = 0 /\ errands \in Nat /\ slips \in Nat
      /\ task = [x \in Exporters |-> NoTask]
  BY DEF ExportsInit
<1>2. ExportsTypeOK
  BY <1>1 DEF ExportsTypeOK
<1>3. task \in [Exporters -> TaskTypes] /\ TasksOK
  BY <1>1, IdleTask DEF TasksOK, Apart
<1>4. EntriesOK
  BY <1>1 DEF EntriesOK
<1> QED BY <1>2, <1>3, <1>4 DEF ExportsInv

LEMMA LatestIsExport ==
  ASSUME NEW rowset \in SUBSET (1..Len(entered)), entered \in Seq(ExportIds)
  PROVE  Latest(rowset) \in ExportIds
<1> DEFINE there == {n \in rowset : entered[n] \in archives}
<1>1. CASE there = {}
  BY <1>1 DEF Latest, ExportIds
<1>2. CASE there # {}
  <2>1. Len(entered) \in Nat
    BY LenProperties
  <2>2. there \subseteq 1..Len(entered)
    BY Zenon
  <2>3. \E n \in there : \A k \in there : k <= n
    <3> HIDE DEF there
    <3> QED BY <1>2, <2>1, <2>2, GreatestOf
  <2>4. (CHOOSE n \in there : \A k \in there : k <= n) \in 1..Len(entered)
    BY <2>2, <2>3
  <2> QED BY <1>2, <2>4 DEF Latest
<1> QED BY <1>1, <1>2

LEMMA ExportsSound == ExportsInv => OnlyOlderExportsGo
<1> SUFFICES ASSUME ExportsInv, NEW i \in 1..Len(entered)
             PROVE  \E k \in i..Len(entered) : entered[k] \in archives \cup mistaken
  BY DEF OnlyOlderExportsGo
<1>1. Len(entered) \in Nat
  BY DEF ExportsInv, ExportsTypeOK
<1>2. Len(entered) > 0 /\ Len(entered) \in i..Len(entered)
  BY <1>1
<1> QED BY <1>2 DEF ExportsInv, EntriesOK

\* A task moves on, whatever it adds to the folders and the archives.
LEMMA TaskMoves ==
  ASSUME ExportsInv, NEW x \in Exporters, NEW t \in TaskTypes, TaskOK(t)',
         task' = [task EXCEPT ![x] = t], UNCHANGED <<entered, mistaken>>,
         folders \subseteq folders', archives \subseteq archives',
         \A y \in Exporters : y # x => Apart(t, task[y])
  PROVE  task' \in [Exporters -> TaskTypes'] /\ TasksOK' /\ EntriesOK'
<1>1. TaskTypes' = TaskTypes /\ Listed' = Listed
  BY DEF TaskTypes, Listed
<1>2. task \in [Exporters -> TaskTypes] /\ TasksOK /\ EntriesOK
  BY DEF ExportsInv
<1>3. task' \in [Exporters -> TaskTypes']
  BY <1>1, <1>2
<1>4. \A y \in Exporters : y # x => TaskOK(task[y])'
  BY <1>1, <1>2 DEF TasksOK, TaskOK
<1>5. \A y \in Exporters : TaskOK(task[y])'
  BY <1>2, <1>4
<1>6. \A y, z \in Exporters : y # z => Apart(task[y], task[z])'
  BY <1>2 DEF TasksOK, Apart
<1>7. EntriesOK'
  BY <1>2 DEF EntriesOK
<1> QED BY <1>3, <1>5, <1>6, <1>7 DEF TasksOK

LEMMA ExportsStep ==
  ASSUME ExportsInv, ExportsNext
  PROVE  ExportsInv'
<1>0. /\ folders \subseteq Datasets /\ archives \subseteq Datasets
      /\ entered \in Seq(ExportIds) /\ rows \subseteq 1..Len(entered)
      /\ last \in ExportIds /\ mistaken \subseteq ExportIds /\ errands \in Nat /\ slips \in Nat
      /\ task \in [Exporters -> TaskTypes] /\ TasksOK /\ EntriesOK
      /\ Len(entered) \in Nat
  BY DEF ExportsInv, ExportsTypeOK, ExportIds
<1>1. \A x \in Exporters : TaskOK(task[x]) /\ task[x] \in TaskTypes
  BY <1>0 DEF TasksOK
<1>2. ASSUME NEW x \in Exporters, Export(x) PROVE ExportsInv'
  <2>1. PICK e \in Unused :
          /\ folders' = folders \cup {e}
          /\ task' = [task EXCEPT ![x] = [task[x] EXCEPT !.at = "zip", !.dataset = e]]
    BY <1>2 DEF Export
  <2>2. e \in Datasets /\ e \notin folders /\ e \notin Listed
    BY <2>1 DEF Unused, Listed
  <2>3. task[x] = NoTask /\ errands' \in Nat
    BY <1>0, <1>2, OneLess DEF Export, Called
  <2>4. UNCHANGED <<archives, rows, last, entered, mistaken, slips>> /\ Listed' = Listed
    BY <1>2 DEF Export, Listed
  <2> DEFINE t == [NoTask EXCEPT !.at = "zip", !.dataset = e]
  <2>5. t \in TaskTypes /\ t.at = "zip" /\ t.dataset = e /\ t.gone = {}
    BY <2>2 DEF NoTask, TaskTypes, ExportIds, Null
  <2>6. task' = [task EXCEPT ![x] = t]
    BY <2>1, <2>3
  <2> HIDE DEF t
  <2>7. \A y \in Exporters : y # x => Apart(t, task[y])
    BY <1>1, <2>2, <2>5 DEF Apart, TaskOK
  <2>8. TaskOK(t)'
    BY <2>1, <2>2, <2>4, <2>5 DEF TaskOK
  <2>9. task' \in [Exporters -> TaskTypes'] /\ TasksOK' /\ EntriesOK'
    BY <2>1, <2>4, <2>5, <2>6, <2>7, <2>8, TaskMoves
  <2> QED BY <1>0, <2>1, <2>2, <2>3, <2>4, <2>9 DEF ExportsInv, ExportsTypeOK, ExportIds
<1>3. ASSUME NEW x \in Exporters, NEW t \in TaskTypes, task' = [task EXCEPT ![x] = t],
             Making(t) => Making(task[x]) /\ t.dataset = task[x].dataset,
             Making(t) /\ t.at # "zip" => t.dataset \in archives' \/ task[x].at \notin {"zip"},
             archives \subseteq archives',
             t.gone = {} \/ t.gone = task[x].gone,
             UNCHANGED <<folders, entered, mistaken>>
      PROVE  task' \in [Exporters -> TaskTypes'] /\ TasksOK' /\ EntriesOK'
  <2>1. TaskOK(task[x]) /\ Listed' = Listed
    BY <1>1, <1>3 DEF Listed
  <2>2. TaskOK(t)'
    BY <1>3, <2>1 DEF TaskOK
  <2>3. \A y \in Exporters : y # x => Apart(t, task[y])
    BY <1>0, <1>3 DEF TasksOK, Apart
  <2> QED BY <1>3, <2>2, <2>3, TaskMoves
<1>4. ASSUME NEW x \in Exporters, Done(x), rows' \subseteq 1..Len(entered), last' \in ExportIds,
             errands' \in Nat, slips' \in Nat, UNCHANGED <<folders, archives, entered, mistaken>>
      PROVE  ExportsInv'
  <2>1. task' = [task EXCEPT ![x] = NoTask]
    BY <1>4 DEF Done
  <2>2. task' \in [Exporters -> TaskTypes'] /\ TasksOK' /\ EntriesOK'
    BY <1>3, <1>4, <2>1, IdleTask
  <2> QED BY <1>0, <1>4, <2>2 DEF ExportsInv, ExportsTypeOK, ExportIds
<1>5. ASSUME NEW x \in Exporters, Zip(x) PROVE ExportsInv'
  <2> DEFINE t == [task[x] EXCEPT !.at = "load"]
  <2>1. /\ task[x].at = "zip" /\ archives' = archives \cup {task[x].dataset}
        /\ last' = task[x].dataset /\ task' = [task EXCEPT ![x] = t]
        /\ UNCHANGED <<folders, rows, entered, mistaken, errands, slips>>
    BY <1>5 DEF Zip, Then
  <2>2. t \in TaskTypes /\ t.dataset = task[x].dataset /\ t.gone = task[x].gone /\ t.at = "load"
    BY <1>1 DEF TaskTypes
  <2> HIDE DEF t
  <2>3. Making(task[x])
    BY <2>1 DEF Making
  <2>4. task' \in [Exporters -> TaskTypes'] /\ TasksOK' /\ EntriesOK'
    <3>1. t.dataset \in archives' /\ archives \subseteq archives'
      BY <2>1, <2>2
    <3> QED BY <1>3, <2>1, <2>2, <2>3, <3>1
  <2>5. task[x].dataset \in Datasets
    BY <1>0, <1>1, <2>3 DEF TaskOK
  <2> QED BY <1>0, <2>1, <2>4, <2>5 DEF ExportsInv, ExportsTypeOK, ExportIds
<1>6. ASSUME NEW x \in Exporters, LoadLast(x) PROVE ExportsInv'
  <2> DEFINE t == [task[x] EXCEPT !.at = "read", !.entry = last]
  <2>1. /\ task[x].at = "load" /\ task' = [task EXCEPT ![x] = t]
        /\ UNCHANGED <<folders, archives, rows, last, entered, mistaken, errands, slips>>
    BY <1>6 DEF LoadLast
  <2>2. t \in TaskTypes /\ t.dataset = task[x].dataset /\ t.gone = task[x].gone /\ t.at = "read"
    BY <1>0, <1>1 DEF TaskTypes
  <2> HIDE DEF t
  <2>3. Making(task[x])
    BY <2>1 DEF Making
  <2>4. task' \in [Exporters -> TaskTypes'] /\ TasksOK' /\ EntriesOK'
    BY <1>3, <2>1, <2>2, <2>3
  <2> QED BY <1>0, <2>1, <2>4 DEF ExportsInv, ExportsTypeOK, ExportIds
<1>7. ASSUME NEW x \in Exporters, ReadRows(x) PROVE ExportsInv'
  <2> DEFINE kept == {n \in rows : entered[n] # task[x].dataset}
             t == [task[x] EXCEPT !.at = "write", !.read = kept]
  <2>1. /\ task[x].at = "read"
        /\ UNCHANGED <<folders, archives, rows, last, entered, mistaken, errands, slips>>
    BY <1>7 DEF ReadRows
  <2>2. CASE Done(x)
    BY <1>0, <1>4, <2>1, <2>2
  <2>3. CASE task' = [task EXCEPT ![x] = t]
    <3>1. kept \subseteq 1..Len(entered)
      BY <1>0
    <3> HIDE DEF kept
    <3>2. t \in TaskTypes /\ t.dataset = task[x].dataset /\ t.gone = task[x].gone /\ t.at = "write"
      BY <1>1, <3>1 DEF TaskTypes
    <3> HIDE DEF t
    <3>3. Making(task[x])
      BY <2>1 DEF Making
    <3>4. task' \in [Exporters -> TaskTypes'] /\ TasksOK' /\ EntriesOK'
      BY <1>3, <2>1, <2>3, <3>2, <3>3
    <3> QED BY <1>0, <2>1, <3>4 DEF ExportsInv, ExportsTypeOK, ExportIds
  <2> QED BY <1>7, <2>2, <2>3 DEF ReadRows
<1>8. ASSUME NEW x \in Exporters, WriteRows(x) PROVE ExportsInv'
  <2> DEFINE e == task[x].entry
  <2>1. /\ task[x].at = "write" /\ rows' = task[x].read \cup {Len(entered) + 1}
        /\ entered' = Append(entered, e) /\ task' = [task EXCEPT ![x] = NoTask]
        /\ mistaken' = IF e = task[x].dataset THEN mistaken ELSE mistaken \cup {e}
        /\ UNCHANGED <<folders, archives, last, errands, slips>>
    BY <1>8 DEF WriteRows, Done
  <2>2. e \in ExportIds /\ task[x].read \subseteq 1..Len(entered)
    BY <1>1 DEF TaskTypes
  <2>3. /\ mistaken \subseteq mistaken' /\ mistaken' \subseteq ExportIds
        /\ e # task[x].dataset => e \in mistaken'
    BY <1>0, <2>1, <2>2
  <2>4. /\ e \in Listed => e \in mistaken'
        /\ e \in archives \cup mistaken'
    <3>1. CASE e = task[x].dataset
      BY <1>1, <2>1, <2>3, <3>1 DEF TaskOK, Making
    <3> QED BY <2>3, <3>1
  <2> HIDE DEF e
  <2>5. /\ entered' \in Seq(ExportIds) /\ Len(entered') = Len(entered) + 1
        /\ entered'[Len(entered')] = e /\ Len(entered') \in Nat
        /\ \A n \in 1..Len(entered) : entered'[n] = entered[n]
        /\ \A n \in 1..Len(entered') : n = Len(entered') \/ n \in 1..Len(entered)
    BY <1>0, <2>1, <2>2
  <2>6. Listed' = Listed \cup {e}
    <3>1. 1..Len(entered) \subseteq 1..Len(entered') /\ Len(entered') \in 1..Len(entered')
      BY <1>0, <2>5
    <3> QED BY <2>5, <3>1 DEF Listed
  <2>7. TaskTypes \subseteq TaskTypes'
    <3>1. SUBSET (1..Len(entered)) \subseteq SUBSET (1..Len(entered'))
      BY <1>0, <2>5
    <3> QED BY <3>1 DEF TaskTypes
  <2>8. task' \in [Exporters -> TaskTypes']
    BY <1>0, <2>1, <2>7, IdleTask
  <2>9. ExportsTypeOK'
    BY <1>0, <2>1, <2>2, <2>3, <2>5 DEF ExportsTypeOK, ExportIds
  <2>10. ASSUME NEW y \in Exporters PROVE TaskOK(task[y])'
    <3>1. CASE y = x
      BY <1>0, <2>1, <3>1, IdleTaskPrimed
    <3>2. CASE y # x
      <4>1. PICK u : u = task[y] /\ u = task'[y]
        BY <1>0, <2>1, <3>2
      <4>2. TaskOK(u) /\ Apart(task[x], u)
        BY <1>0, <1>1, <3>2, <4>1 DEF TasksOK
      <4>3. Making(u) => u.dataset # task[x].dataset
        BY <2>1, <4>2 DEF Apart, Making
      <4>4. Making(u) /\ u.dataset = e => e \in mistaken'
        BY <2>3, <4>3
      <4>5. TaskOK(u)'
        BY <2>1, <2>3, <2>4, <2>5, <2>6, <4>2, <4>4 DEF TaskOK
      <4> QED BY <4>1, <4>5
    <3> QED BY <3>1, <3>2
  <2>11. \A y, z \in Exporters : y # z => Apart(task[y], task[z])'
    BY <1>0, <2>1, IdleTask DEF TasksOK, Apart
  <2>12. EntriesOK'
    <3>1. \A n \in 1..Len(entered) : entered[n] \in Listed
      BY DEF Listed
    <3>2. \A n, k \in 1..Len(entered') : entered'[n] = entered'[k] => n = k \/ entered'[n] \in mistaken'
      BY <1>0, <2>3, <2>4, <2>5, <3>1 DEF EntriesOK
    <3> QED BY <2>1, <2>4, <2>5, <3>2 DEF EntriesOK
  <2> QED BY <2>8, <2>9, <2>10, <2>11, <2>12 DEF ExportsInv, TasksOK
<1>9. ASSUME NEW x \in Exporters, Retain(x) PROVE ExportsInv'
  <2> DEFINE t == [task[x] EXCEPT !.at = "plan", !.read = rows]
  <2>1. /\ task' = [task EXCEPT ![x] = t]
        /\ UNCHANGED <<folders, archives, rows, last, entered, mistaken, slips>>
    BY <1>9 DEF Retain
  <2>2. t \in TaskTypes /\ ~Making(t) /\ t.gone = task[x].gone
    BY <1>0, <1>1 DEF TaskTypes, Making
  <2> HIDE DEF t
  <2>3. errands' \in Nat
    BY <1>0, <1>9, OneLess DEF Retain, Called
  <2>4. task' \in [Exporters -> TaskTypes'] /\ TasksOK' /\ EntriesOK'
    BY <1>3, <2>1, <2>2
  <2> QED BY <1>0, <2>1, <2>3, <2>4 DEF ExportsInv, ExportsTypeOK, ExportIds
<1>10. ASSUME NEW x \in Exporters, Plan(x) PROVE ExportsInv'
  <2>1. UNCHANGED <<folders, archives, rows, last, entered, mistaken, errands, slips>>
    BY <1>10 DEF Plan
  <2>2. CASE Done(x)
    BY <1>0, <1>4, <2>1, <2>2
  <2>3. ASSUME NEW n \in Keeps,
               LET removable == {i \in rows : Cardinality({k \in rows : k > i}) >= Kept(n)}
               IN task' = [task EXCEPT ![x].at = "delete", ![x].gone = {entered[i] : i \in removable}]
        PROVE  ExportsInv'
    <3> DEFINE removable == {i \in rows : Cardinality({k \in rows : k > i}) >= Kept(n)}
               gone == {entered[i] : i \in removable}
               t == [task[x] EXCEPT !.at = "delete", !.gone = gone]
    <3>1. removable \subseteq 1..Len(entered) /\ Len(entered) \notin removable
      <4>1. {k \in rows : k > Len(entered)} = {}
        <5>1. \A k \in rows : ~(k > Len(entered))
          BY <1>0
        <5> QED BY <5>1
      <4>2. Cardinality({k \in rows : k > Len(entered)}) = 0
        BY <4>1, FS_EmptySet
      <4>3. n \in Int
        BY <2>3
      <4>4. ~(0 >= Kept(n))
        BY <4>3 DEF Kept
      <4>5. Len(entered) \notin removable
        BY <4>2, <4>4
      <4> QED BY <1>0, <4>5
    <3>2. task' = [task EXCEPT ![x] = t]
      BY <2>3
    <3> HIDE DEF removable
    <3>3. gone \subseteq Listed /\ gone \subseteq ExportIds
      <4>1. gone \subseteq Listed
        BY <3>1 DEF Listed
      <4>2. Listed \subseteq ExportIds
        BY <1>0 DEF Listed
      <4> QED BY <4>1, <4>2
    <3>4. Len(entered) > 0 /\ entered[Len(entered)] \in gone => entered[Len(entered)] \in mistaken
      <4> SUFFICES ASSUME Len(entered) > 0, entered[Len(entered)] \in gone
                   PROVE  entered[Len(entered)] \in mistaken
        OBVIOUS
      <4>1. PICK i \in removable : entered[i] = entered[Len(entered)]
        OBVIOUS
      <4>2. i \in 1..Len(entered) /\ i # Len(entered) /\ Len(entered) \in 1..Len(entered)
        BY <1>0, <3>1, <4>1
      <4> QED BY <1>0, <4>1, <4>2 DEF EntriesOK
    <3> HIDE DEF gone
    <3>5. PICK u : u = t
      OBVIOUS
    <3>6. u \in TaskTypes /\ ~Making(u) /\ u.gone = gone
      BY <1>1, <3>3, <3>5 DEF TaskTypes, Making
    <3> HIDE DEF t
    <3>7. TaskOK(u)'
      <4>1. Listed' = Listed
        BY <2>1 DEF Listed
      <4>2. u.gone \subseteq Listed'
        BY <3>3, <3>6, <4>1
      <4>3. entered'[Len(entered')] \in u.gone /\ Len(entered') > 0 =>
              entered'[Len(entered')] \in mistaken'
        BY <2>1, <3>4, <3>6
      <4> QED BY <3>6, <4>2, <4>3 DEF TaskOK
    <3>8. \A y \in Exporters : y # x => Apart(u, task[y])
      BY <3>6 DEF Apart
    <3>9. task' \in [Exporters -> TaskTypes'] /\ TasksOK' /\ EntriesOK'
      BY <2>1, <3>2, <3>5, <3>6, <3>7, <3>8, TaskMoves
    <3> QED BY <1>0, <2>1, <3>9 DEF ExportsInv, ExportsTypeOK, ExportIds
  <2> QED BY <1>10, <2>2, <2>3 DEF Plan
<1>11. ASSUME NEW x \in Exporters, Delete(x) PROVE ExportsInv'
  <2>1. /\ UNCHANGED <<rows, last, entered, mistaken, task, errands, slips>>
        /\ \E e \in Doomed(x) : folders \ {e} \subseteq folders' /\ archives \ {e} \subseteq archives'
        /\ folders' \subseteq folders /\ archives' \subseteq archives
    BY <1>11 DEF Delete
  <2>2. PICK e \in Doomed(x) : folders \ {e} \subseteq folders' /\ archives \ {e} \subseteq archives'
    BY <2>1
  <2>3. e \in task[x].gone /\ e \in Listed /\ Listed' = Listed
    BY <1>1, <2>1 DEF Doomed, TaskOK, Listed
  <2>4. Len(entered) > 0 /\ entered[Len(entered)] = e => e \in mistaken
    BY <1>1, <2>3 DEF TaskOK
  <2>5. EntriesOK'
    BY <1>0, <2>1, <2>2, <2>4 DEF EntriesOK
  <2>6. ASSUME NEW y \in Exporters PROVE TaskOK(task[y])'
    <3>1. PICK u : u = task[y] /\ u = task'[y]
      BY <2>1
    <3>2. TaskOK(u)
      BY <1>1, <3>1
    <3>3. TaskOK(u)'
      BY <2>1, <2>2, <2>3, <3>2 DEF TaskOK
    <3> QED BY <3>1, <3>3
  <2>7. \A y, z \in Exporters : y # z => Apart(task[y], task[z])'
    BY <1>0, <2>1 DEF TasksOK, Apart
  <2>8. ExportsTypeOK' /\ TaskTypes' = TaskTypes
    BY <1>0, <2>1 DEF ExportsTypeOK, TaskTypes, ExportIds
  <2> QED BY <1>0, <2>1, <2>5, <2>6, <2>7, <2>8 DEF ExportsInv, TasksOK
<1>12. ASSUME NEW x \in Exporters, KeepRows(x) PROVE ExportsInv'
  <2>1. UNCHANGED <<folders, archives, last, entered, mistaken, errands, slips>>
    BY <1>12 DEF KeepRows
  <2>2. CASE Done(x) /\ UNCHANGED rows
    BY <1>0, <1>4, <2>1, <2>2
  <2>3. CASE /\ rows' = {n \in task[x].read : entered[n] \notin task[x].gone}
             /\ task' = [task EXCEPT ![x].at = "last", ![x].read = rows']
    <3> DEFINE t == [task[x] EXCEPT !.at = "last", !.read = rows']
    <3>1. rows' \subseteq 1..Len(entered)
      BY <1>1, <2>3 DEF TaskTypes
    <3>2. t \in TaskTypes /\ ~Making(t) /\ t.gone = task[x].gone
      BY <1>1, <3>1 DEF TaskTypes, Making
    <3>3. task' = [task EXCEPT ![x] = t]
      BY <2>3
    <3> HIDE DEF t
    <3>4. task' \in [Exporters -> TaskTypes'] /\ TasksOK' /\ EntriesOK'
      BY <1>3, <2>1, <3>2, <3>3
    <3> QED BY <1>0, <2>1, <3>1, <3>4 DEF ExportsInv, ExportsTypeOK, ExportIds
  <2> QED BY <1>12, <2>2, <2>3 DEF KeepRows
<1>13. ASSUME NEW x \in Exporters, SetLast(x) PROVE ExportsInv'
  <2>1. /\ last' = Latest(task[x].read) /\ Done(x)
        /\ UNCHANGED <<folders, archives, rows, entered, mistaken, errands, slips>>
    BY <1>13 DEF SetLast
  <2>2. task[x].read \in SUBSET (1..Len(entered))
    BY <1>1 DEF TaskTypes
  <2>3. last' \in ExportIds
    BY <1>0, <2>1, <2>2, LatestIsExport
  <2> QED BY <1>0, <1>4, <2>1, <2>3
<1>14. ASSUME NEW x \in Exporters, TaskFails(x) PROVE ExportsInv'
  <2>1. Done(x) /\ UNCHANGED <<folders, archives, rows, last, entered, mistaken, errands>>
    BY <1>14 DEF TaskFails
  <2>2. slips' \in Nat
    BY <1>0, <1>14, OneLess DEF TaskFails
  <2> QED BY <1>0, <1>4, <2>1, <2>2
<1>15. CASE RestartExports
  <2>1. /\ task' = [x \in Exporters |-> NoTask] /\ last' = Latest(rows)
        /\ UNCHANGED <<folders, archives, rows, entered, mistaken, errands>>
    BY <1>15 DEF RestartExports
  <2>2. slips' \in Nat
    BY <1>0, <1>15, OneLess DEF RestartExports
  <2>3. last' \in ExportIds
    BY <1>0, <2>1, LatestIsExport
  <2>4. ExportsTypeOK'
    BY <1>0, <2>1, <2>2, <2>3 DEF ExportsTypeOK, ExportIds
  <2>5. TaskTypes' = TaskTypes
    BY <2>1 DEF TaskTypes
  <2>6. task' \in [Exporters -> TaskTypes']
    BY <2>1, <2>5, IdleTask
  <2>7. TasksOK'
    BY <2>1, IdleTask, IdleTaskPrimed DEF TasksOK, Apart
  <2>8. EntriesOK'
    BY <1>0, <2>1 DEF EntriesOK
  <2> QED BY <2>4, <2>6, <2>7, <2>8 DEF ExportsInv
<1> QED
  BY <1>2, <1>5, <1>6, <1>7, <1>8, <1>9, <1>10, <1>11, <1>12, <1>13, <1>14, <1>15 DEF ExportsNext

(***************************************************************************)
(* The archive and the manifests                                            *)
(***************************************************************************)
Feeds == {"rgb_left", "rgb_right", "thermal"}
Samples == {<<>>} \cup (Nat \X {"set", "alone"} \X Nat)

JobTypes ==
  [at : {"idle", "save", "sidecar", "index", "undo", "undo sidecar", "look", "pair", "enter"},
   feeds : Seq(Feeds), set : Nat, picture : Nat, mission : Nat, sample : Samples, partner : Nat]

ItemTypes ==
  [mission : Nat, picture : Nat, set : Nat, sample : Samples, partner : Nat]

\* One of the first n items is a candidate for this picture, with this sample.
Partnered(p, m, partner, sample, n) ==
  \E k \in Candidates(p, m) \cap (1..n) :
    manifest[k].picture = partner /\ manifest[k].sample = sample

\* What a request knows of the picture at hand.
JobOK(t) ==
  /\ t.at # "idle" => Len(t.feeds) > 0
  /\ t.at \in {"sidecar", "undo"} => t.picture \in Names \ index
  /\ t.at = "index" => t.picture \in (Names \cap sidecars) \ index
  /\ t.at = "undo sidecar" => t.picture \notin Names
  /\ t.at \in {"look", "pair", "enter"} => t.picture \in Names \cap sidecars \cap index
  /\ t.partner # 0 =>
       t.at = "enter" /\ Partnered(t.picture, t.mission, t.partner, t.sample, Len(manifest))
  /\ t.at = "enter" /\ t.set # 0 => t.sample = <<t.mission, "set", t.set>>
  /\ t.at = "pair" => t.set = 0

\* One request saves at a time, and what is not in the index is its picture.
SaveIsAlone ==
  /\ \A q, r \in Routes : Saving(q) /\ Saving(r) => q = r
  /\ index \subseteq Names
  /\ \A p \in Names \ index :
       \E r \in Routes : job[r].at \in {"sidecar", "index", "undo"} /\ job[r].picture = p

ItemOK(i) ==
  /\ manifest[i].partner # 0 =>
       Partnered(manifest[i].picture, manifest[i].mission, manifest[i].partner,
                 manifest[i].sample, i - 1)
  /\ manifest[i].set # 0 => manifest[i].sample = <<manifest[i].mission, "set", manifest[i].set>>

ManifestInv ==
  ManifestNamesFiles /\ \A i \in 1..Len(manifest) : ItemOK(i)

CapturesInv ==
  /\ CapturesTypeOK /\ manifest \in Seq(ItemTypes) /\ job \in [Routes -> JobTypes]
  /\ \A r \in Routes : JobOK(job[r])
  /\ SaveIsAlone /\ ManifestInv

USE CapturesAssumption

LEMMA CapturesStarts == CapturesInit => CapturesInv
<1> SUFFICES ASSUME CapturesInit PROVE CapturesInv
  OBVIOUS
<1>1. /\ images = {} /\ sidecars = {} /\ index = {} /\ manifest = <<>> /\ Len(manifest) = 0
      /\ mission = 0 /\ missions \in Nat /\ shots \in Nat /\ trouble \in Nat /\ now = 0 /\ cut = {}
      /\ job = [r \in Routes |-> NoJob]
  BY DEF CapturesInit
<1>2. CapturesTypeOK
  BY <1>1 DEF CapturesTypeOK
<1>3. NoJob \in JobTypes /\ JobOK(NoJob) /\ NoJob.at = "idle"
  <2>1. /\ NoJob.at = "idle" /\ NoJob.partner = 0
    BY DEF NoJob
  <2>2. <<>> \in Seq(Feeds) /\ <<>> \in Samples
    BY DEF Samples
  <2> QED BY <2>1, <2>2 DEF NoJob, JobTypes, JobOK
<1>4. job \in [Routes -> JobTypes] /\ \A r \in Routes : JobOK(job[r])
  BY <1>1, <1>3
<1>5. SaveIsAlone
  BY <1>1, <1>3 DEF SaveIsAlone, Saving, Names
<1>6. ManifestInv /\ manifest \in Seq(ItemTypes)
  BY <1>1 DEF ManifestInv, ManifestNamesFiles
<1> QED BY <1>2, <1>4, <1>5, <1>6 DEF CapturesInv

\* A name stands for its image.
LEMMA ImageOfName ==
  ASSUME CapturesTypeOK, NEW p \in Names
  PROVE  /\ Image(p) \in images /\ Image(p).name = p
         /\ \A i \in images : i.name = p => i = Image(p)
<1>1. PICK i \in images : i.name = p
  BY DEF Names
<1>2. \A k \in images : k.name = p => k = i
  BY <1>1 DEF CapturesTypeOK
<1> QED BY <1>1, <1>2 DEF Image

\* An image that stays is the image of its name.
LEMMA ImageStays ==
  ASSUME CapturesTypeOK, CapturesTypeOK', NEW p \in Names, Image(p) \in images'
  PROVE  p \in Names' /\ Image(p)' = Image(p)
<1>1. Image(p).name = p
  BY ImageOfName
<1>2. p \in Names'
  BY <1>1 DEF Names
<1>3. \A k \in images' : k.name = p => k = Image(p)
  BY <1>1 DEF CapturesTypeOK
<1> QED BY <1>1, <1>2, <1>3 DEF Image

\* Candidates remain, as items are added and images that are not in the index
\* come and go.
LEMMA CandidatesStay ==
  ASSUME CapturesInv, CapturesTypeOK', \A q \in index : Image(q) \in images',
         Len(manifest') \in Nat, Len(manifest) <= Len(manifest'),
         \A i \in 1..Len(manifest) : manifest'[i] = manifest[i]
  PROVE  \A p \in index : \A m, partner, sample : \A n \in Nat :
           Partnered(p, m, partner, sample, n) => Partnered(p, m, partner, sample, n)'
<1>1. index \subseteq Names /\ CapturesTypeOK /\ Len(manifest) \in Nat
  BY DEF CapturesInv, SaveIsAlone
<1>2. \A q \in index : Image(q)' = Image(q)
  BY <1>1, ImageStays
<1>3. \A i \in 1..Len(manifest) : i \in 1..Len(manifest') /\ manifest[i].picture \in index
  BY <1>1 DEF CapturesInv, ManifestInv, ManifestNamesFiles
<1>4. \A p \in index : \A i \in 1..Len(manifest) : Between(i, p)' = Between(i, p)
  BY <1>2, <1>3 DEF Between
<1>5. \A p \in index : \A m : Candidates(p, m) \subseteq Candidates(p, m)'
  BY <1>2, <1>3, <1>4 DEF Candidates
<1>6. \A p \in index : \A m : \A k \in Candidates(p, m) : k \in 1..Len(manifest)
  BY DEF Candidates
<1> QED BY <1>5, <1>6 DEF Partnered

\* Steps that leave the archive and the manifests alone.
LEMMA JobsMove ==
  ASSUME CapturesInv, CapturesTypeOK', UNCHANGED <<images, sidecars, index, manifest>>,
         job' \in [Routes -> JobTypes],
         \A q \in Routes : JobOK(job'[q]) /\ (Saving(q)' => Saving(q)),
         \A q \in Routes : job[q].at \in {"sidecar", "index", "undo"} =>
           job'[q].at \in {"sidecar", "index", "undo"} /\ job'[q].picture = job[q].picture
  PROVE  CapturesInv'
<1>1. manifest \in Seq(ItemTypes) /\ SaveIsAlone /\ ManifestInv
  BY DEF CapturesInv
<1>2. Names' = Names
  BY DEF Names
<1>3. \A p : Image(p)' = Image(p)
  BY DEF Image
<1>4. \A i, p : Between(i, p)' = Between(i, p)
  BY <1>3 DEF Between
<1>5. \A p, m : Candidates(p, m)' = Candidates(p, m)
  BY <1>3, <1>4 DEF Candidates
<1>6. \A p, m, partner, sample, n :
        Partnered(p, m, partner, sample, n)' <=> Partnered(p, m, partner, sample, n)
  BY <1>5 DEF Partnered
<1>7. \A u : JobOK(u)' <=> JobOK(u)
  BY <1>2, <1>6 DEF JobOK
<1>8. \A q \in Routes : JobOK(job[q])'
  BY <1>7
<1>9. SaveIsAlone'
  BY <1>1, <1>2 DEF SaveIsAlone
<1>10. ManifestInv'
  BY <1>1, <1>2, <1>6 DEF ManifestInv, ManifestNamesFiles, ItemOK
<1> QED BY <1>1, <1>8, <1>9, <1>10 DEF CapturesInv

LEMMA JobMoves ==
  ASSUME CapturesInv, CapturesTypeOK', NEW r \in Routes, NEW t \in JobTypes, JobOK(t),
         job' = [job EXCEPT ![r] = t], UNCHANGED <<images, sidecars, index, manifest>>,
         t.at \in {"sidecar", "index", "undo", "undo sidecar"} => Saving(r),
         job[r].at \in {"sidecar", "index", "undo"} =>
           t.at \in {"sidecar", "index", "undo"} /\ t.picture = job[r].picture
  PROVE  CapturesInv'
<1>1. job \in [Routes -> JobTypes] /\ \A q \in Routes : JobOK(job[q])
  BY DEF CapturesInv
<1>2. job' \in [Routes -> JobTypes] /\ job'[r] = t /\ \A q \in Routes : q # r => job'[q] = job[q]
  BY <1>1
<1>3. \A q \in Routes : JobOK(job'[q]) /\ (Saving(q)' => Saving(q))
  BY <1>1, <1>2 DEF Saving
<1>4. \A q \in Routes : job[q].at \in {"sidecar", "index", "undo"} =>
        job'[q].at \in {"sidecar", "index", "undo"} /\ job'[q].picture = job[q].picture
  BY <1>2
<1> QED BY <1>2, <1>3, <1>4, JobsMove

\* A step on the archive by the request that saves, r.
LEMMA ArchiveMoves ==
  ASSUME CapturesInv, CapturesTypeOK', NEW r \in Routes, NEW t \in JobTypes, JobOK(t)',
         job' = [job EXCEPT ![r] = t], UNCHANGED manifest,
         job[r].at = "save" => \A q \in Routes : ~Saving(q),
         job[r].at = "save" \/ Saving(r),
         \A q \in index : Image(q) \in images', index \subseteq index', index' \subseteq Names',
         \A q \in index : q \in sidecars => q \in sidecars',
         \A p \in Names' \ index' :
           t.at \in {"sidecar", "index", "undo"} /\ t.picture = p
  PROVE  CapturesInv'
<1>1. /\ manifest \in Seq(ItemTypes) /\ job \in [Routes -> JobTypes]
      /\ \A q \in Routes : JobOK(job[q])
      /\ SaveIsAlone /\ ManifestInv /\ CapturesTypeOK /\ Len(manifest) \in Nat
  BY DEF CapturesInv
<1>2. \A p \in index : \A m, partner, sample : \A n \in Nat :
        Partnered(p, m, partner, sample, n) => Partnered(p, m, partner, sample, n)'
  BY <1>1, CandidatesStay
<1>3. \A q \in Routes : q # r => ~Saving(q) /\ job'[q] = job[q]
  BY <1>1 DEF SaveIsAlone
<1>4. ASSUME NEW q \in Routes, q # r PROVE JobOK(job[q])'
  <2>1. ~(job[q].at \in {"sidecar", "index", "undo", "undo sidecar"}) /\ job'[q] = job[q]
    BY <1>3, <1>4 DEF Saving
  <2>2. JobOK(job[q])
    BY <1>1
  <2>3. job[q].at \in {"look", "pair", "enter"} =>
          job'[q].picture \in Names' \cap sidecars' \cap index'
    BY <2>1, <2>2 DEF JobOK
  <2>4. job[q].partner # 0 =>
          /\ job[q].at = "enter" /\ job[q].picture \in index
          /\ Partnered(job[q].picture, job[q].mission, job[q].partner, job[q].sample, Len(manifest))'
    <3>1. job[q].partner # 0 =>
            /\ job[q].at = "enter" /\ job[q].picture \in index
            /\ Partnered(job[q].picture, job[q].mission, job[q].partner, job[q].sample, Len(manifest))
      BY <2>2 DEF JobOK
    <3> QED BY <1>1, <1>2, <2>1, <3>1
  <2> QED BY <2>1, <2>2, <2>3, <2>4 DEF JobOK
<1>5. \A q \in Routes : JobOK(job[q])'
  BY <1>1, <1>4
<1>6. SaveIsAlone'
  <2>1. \A q \in Routes : q # r => ~Saving(q)'
    BY <1>3 DEF Saving
  <2>2. \A p \in Names' \ index' :
          \E q \in Routes : job'[q].at \in {"sidecar", "index", "undo"} /\ job'[q].picture = p
    BY <1>1
  <2> QED BY <2>1, <2>2 DEF SaveIsAlone
<1>7. ManifestInv'
  <2>1. ManifestNamesFiles'
    BY <1>1 DEF ManifestInv, ManifestNamesFiles
  <2>2. ASSUME NEW i \in 1..Len(manifest) PROVE ItemOK(i)'
    <3>1. manifest[i].picture \in index /\ i - 1 \in Nat
      BY <1>1 DEF ManifestInv, ManifestNamesFiles
    <3>2. ItemOK(i)
      BY <1>1 DEF ManifestInv
    <3> QED BY <1>2, <3>1, <3>2 DEF ItemOK
  <2> QED BY <2>1, <2>2 DEF ManifestInv
<1> QED
  <2>1. job' \in [Routes -> JobTypes]
    BY <1>1
  <2> QED BY <1>1, <1>5, <1>6, <1>7, <2>1 DEF CapturesInv

LEMMA UnitOf ==
  ASSUME NEW S, NEW x \in S
  PROVE  <<x>> \in Seq(S) /\ Len(<<x>>) > 0
<1>1. Len(<<x>>) = 1
  OBVIOUS
<1>2. <<x>> \in Seq(S)
  OBVIOUS
<1> QED BY <1>1, <1>2

LEMMA TailOf ==
  ASSUME NEW S, NEW s \in Seq(S), Len(s) > 0, Len(s) # 1
  PROVE  Tail(s) \in Seq(S) /\ Len(Tail(s)) > 0
<1>1. Len(s) \in Nat
  BY LenProperties
<1>2. Len(s) - 1 > 0
  <2>1. PICK n \in Nat : n = Len(s)
    BY <1>1
  <2>2. n > 0 /\ n # 1
    BY <2>1
  <2>3. n - 1 > 0
    BY <2>2
  <2> QED BY <2>1, <2>3
<1>3. s # <<>>
  BY EmptySeq
<1>4. Tail(s) \in Seq(S) /\ Len(Tail(s)) = Len(s) - 1
  BY <1>3, HeadTailProperties
<1> QED BY <1>2, <1>4

\* A request that begins or ends with a feed.
StartsFeed(t) ==
  t.at \in {"idle", "save"} /\ t.partner = 0 /\ (t.at # "idle" => Len(t.feeds) > 0)

LEMMA FeedOK == \A t : StartsFeed(t) => JobOK(t)
  BY DEF StartsFeed, JobOK

LEMMA FeedOKPrimed == \A t : StartsFeed(t) => JobOK(t)'
  BY DEF StartsFeed, JobOK

LEMMA NoJobStarts == NoJob \in JobTypes /\ StartsFeed(NoJob)
<1>1. <<>> \in Seq(Feeds) /\ <<>> \in Samples
  BY DEF Samples
<1> QED BY <1>1 DEF NoJob, JobTypes, StartsFeed

LEMMA FeedStarts ==
  ASSUME NEW fs \in Seq(Feeds), Len(fs) > 0, NEW n \in Nat
  PROVE  /\ [NoJob EXCEPT !.at = "save", !.feeds = fs, !.set = n] \in JobTypes
         /\ StartsFeed([NoJob EXCEPT !.at = "save", !.feeds = fs, !.set = n])
<1>1. <<>> \in Samples
  BY DEF Samples
<1> QED BY <1>1 DEF NoJob, JobTypes, StartsFeed

LEMMA OneFeedStarts ==
  ASSUME NEW feed \in Feeds
  PROVE  /\ [NoJob EXCEPT !.at = "save", !.feeds = <<feed>>] \in JobTypes
         /\ StartsFeed([NoJob EXCEPT !.at = "save", !.feeds = <<feed>>])
<1>1. PICK fs \in Seq(Feeds) : fs = <<feed>> /\ Len(fs) > 0
  BY UnitOf
<1>2. <<>> \in Samples
  BY DEF Samples
<1>3. [NoJob EXCEPT !.at = "save", !.feeds = fs] \in JobTypes
  BY <1>1, <1>2 DEF NoJob, JobTypes
<1>4. StartsFeed([NoJob EXCEPT !.at = "save", !.feeds = fs])
  BY <1>1 DEF NoJob, StartsFeed
<1> QED BY <1>1, <1>3, <1>4

LEMMA OnwardStarts ==
  ASSUME CapturesInv, NEW r \in Routes, Onward(r), job[r].at # "idle"
  PROVE  \E t \in JobTypes : job' = [job EXCEPT ![r] = t] /\ StartsFeed(t)
<1>1. job[r] \in JobTypes /\ JobOK(job[r])
  BY DEF CapturesInv
<1>2. /\ job[r].feeds \in Seq(Feeds) /\ Len(job[r].feeds) > 0 /\ job[r].set \in Nat
  BY <1>1 DEF JobTypes, JobOK
<1>3. CASE Len(job[r].feeds) = 1
  <2>1. job' = [job EXCEPT ![r] = NoJob]
    BY <1>3 DEF Onward
  <2> QED BY <2>1, NoJobStarts
<1>4. CASE Len(job[r].feeds) # 1
  <2>1. job' = [job EXCEPT ![r] = [NoJob EXCEPT !.at = "save", !.feeds = Tail(job[r].feeds),
                                                !.set = job[r].set]]
    BY <1>4 DEF Onward
  <2>2. Tail(job[r].feeds) \in Seq(Feeds) /\ Len(Tail(job[r].feeds)) > 0
    BY <1>2, <1>4, TailOf
  <2> QED BY <1>2, <2>1, <2>2, FeedStarts
<1> QED BY <1>3, <1>4

Puts(r, t, there) ==
  /\ job' = [job EXCEPT ![r] = t] /\ t.at = there
  /\ t.feeds = job[r].feeds /\ t.set = job[r].set /\ t.picture = job[r].picture
  /\ t.mission = job[r].mission /\ t.sample = job[r].sample /\ t.partner = job[r].partner

LEMMA BeMoves ==
  ASSUME CapturesInv, NEW r \in Routes, NEW there, Be(r, there),
         there \in {"sidecar", "index", "undo", "undo sidecar", "look", "pair", "enter"}
  PROVE  \E t \in JobTypes : Puts(r, t, there)
<1>1. job[r] \in JobTypes
  BY DEF CapturesInv
<1>2. job' = [job EXCEPT ![r] = [job[r] EXCEPT !.at = there]]
  BY DEF Be
<1>3. PICK t : t = [job[r] EXCEPT !.at = there]
  OBVIOUS
<1>4. t \in JobTypes
  BY <1>1, <1>3 DEF JobTypes
<1>5. /\ t.at = there
      /\ t.feeds = job[r].feeds /\ t.set = job[r].set /\ t.picture = job[r].picture
      /\ t.mission = job[r].mission /\ t.sample = job[r].sample /\ t.partner = job[r].partner
  BY <1>1, <1>3 DEF JobTypes
<1> QED BY <1>2, <1>3, <1>4, <1>5 DEF Puts

\* Of the numbers for which f is least there is a greatest.
LEMMA BestOf ==
  ASSUME NEW n \in Nat, NEW C, C \subseteq 1..n, C # {}, NEW f \in [C -> Nat]
  PROVE  \E i \in C : \A k \in C : f[i] < f[k] \/ (f[i] = f[k] /\ i >= k)
<1> DEFINE F == {f[k] : k \in C}
<1>1. F \subseteq Nat /\ F # {}
  <2>1. \A k \in C : f[k] \in Nat /\ f[k] \in F
    OBVIOUS
  <2>2. F \subseteq Nat
    BY <2>1
  <2>3. PICK k : k \in C
    OBVIOUS
  <2>4. f[k] \in F
    BY <2>1, <2>3
  <2> QED BY <2>2, <2>4
<1>2. PICK m \in F : \A y \in F : m <= y
  <2> HIDE DEF F
  <2> QED BY <1>1, LeastOf
<1> DEFINE D == {k \in C : f[k] = m}
<1>3. D \subseteq 1..n /\ D # {}
  BY <1>2
<1>4. PICK i \in D : \A y \in D : y <= i
  <2> HIDE DEF D
  <2> QED BY <1>3, GreatestOf
<1>5. i \in C /\ f[i] = m
  BY <1>4
<1>6. ASSUME NEW k \in C PROVE f[i] < f[k] \/ (f[i] = f[k] /\ i >= k)
  <2>1. f[k] \in Nat /\ m \in Nat /\ m <= f[k]
    BY <1>1, <1>2
  <2>2. CASE f[k] = m
    <3>1. k <= i
      BY <1>4, <2>2
    <3>2. k \in Int /\ i \in Int
      BY <1>5
    <3> QED BY <1>5, <2>2, <3>1, <3>2
  <2>3. CASE f[k] # m
    BY <1>5, <2>1, <2>3
  <2> QED BY <2>2, <2>3
<1> QED BY <1>5, <1>6

\* There is a best candidate.
LEMMA BestCandidate ==
  ASSUME CapturesInv, NEW p \in index, NEW m, Candidates(p, m) # {}
  PROVE  \E i \in Candidates(p, m) : \A k \in Candidates(p, m) :
           Between(i, p) < Between(k, p) \/ (Between(i, p) = Between(k, p) /\ i >= k)
<1> DEFINE C == Candidates(p, m)
           f == [k \in C |-> Between(k, p)]
<1>1. CapturesTypeOK /\ index \subseteq Names /\ Len(manifest) \in Nat
  BY DEF CapturesInv, SaveIsAlone
<1>2. \A q \in Names : Image(q).time \in 0..MaxNow
  BY <1>1, ImageOfName DEF CapturesTypeOK
<1>3. \A k \in C : k \in 1..Len(manifest) /\ manifest[k].picture \in Names
  BY DEF CapturesInv, ManifestInv, ManifestNamesFiles, Candidates
<1>4. \A k \in C : Between(k, p) \in Nat
  <2>1. TAKE k \in C
  <2>2. Image(manifest[k].picture).time \in Nat /\ Image(p).time \in Nat
    BY <1>1, <1>2, <1>3
  <2> QED BY <2>2 DEF Between
<1>5. C \subseteq 1..Len(manifest) /\ C # {}
  BY <1>3
<1>6. f \in [C -> Nat] /\ \A k \in C : f[k] = Between(k, p)
  BY <1>4
<1>7. \E i \in C : \A k \in C : f[i] < f[k] \/ (f[i] = f[k] /\ i >= k)
  <2> HIDE DEF C, f
  <2> QED BY <1>1, <1>5, <1>6, BestOf
<1> QED BY <1>6, <1>7

LEMMA CapturesStep ==
  ASSUME CapturesInv, CapturesNext
  PROVE  CapturesInv'
<1>0. /\ CapturesTypeOK /\ manifest \in Seq(ItemTypes) /\ job \in [Routes -> JobTypes]
      /\ \A r \in Routes : JobOK(job[r])
      /\ SaveIsAlone /\ ManifestInv /\ Len(manifest) \in Nat
  BY DEF CapturesInv
<1>1. /\ images \subseteq [name : Pictures, feed : Feeds, time : 0..MaxNow]
      /\ \A i, k \in images : i.name = k.name => i = k
      /\ sidecars \subseteq Pictures /\ index \subseteq Pictures
      /\ now \in 0..MaxNow /\ cut \subseteq Nat /\ mission \in Nat /\ missions \in Nat
      /\ shots \in Nat /\ trouble \in Nat /\ Names \subseteq Pictures
  BY <1>0 DEF CapturesTypeOK, Feeds, Names
<1>2. \A q \in index : Image(q) \in images /\ Image(q).name = q
  BY <1>0, ImageOfName DEF SaveIsAlone
<1>3. ASSUME NEW r \in Routes, NEW t \in JobTypes, job' = [job EXCEPT ![r] = t], StartsFeed(t),
             job[r].at \notin {"sidecar", "index", "undo"},
             UNCHANGED <<images, sidecars, index, manifest>>, CapturesTypeOK'
      PROVE  CapturesInv'
  <2>1. JobOK(t) /\ t.at \in {"idle", "save"}
    BY <1>3, FeedOK DEF StartsFeed
  <2> QED BY <1>3, <2>1, JobMoves
<1>4. ASSUME NEW r \in Routes, NEW feed \in Feeds, Single(r, feed) PROVE CapturesInv'
  <2> DEFINE t == [NoJob EXCEPT !.at = "save", !.feeds = <<feed>>]
  <2>1. /\ job[r] = NoJob /\ job' = [job EXCEPT ![r] = t] /\ shots > 0 /\ shots' = shots - 1
        /\ UNCHANGED <<images, sidecars, index, manifest, mission, missions, trouble, now, cut>>
    BY <1>4 DEF Single, Taken, archive
  <2>2. shots' \in Nat
    BY <1>1, <2>1, OneLess
  <2>3. CapturesTypeOK'
    BY <1>0, <2>1, <2>2 DEF CapturesTypeOK
  <2>5. t \in JobTypes /\ StartsFeed(t)
    BY OneFeedStarts
  <2>6. job[r].at = "idle"
    BY <2>1 DEF NoJob
  <2> HIDE DEF t
  <2> QED BY <1>3, <2>1, <2>3, <2>5, <2>6
<1>5. ASSUME NEW r \in Routes, CaptureSet(r) PROVE CapturesInv'
  <2>1. PICK fs \in {<<"rgb_left", "rgb_right", "thermal">>, <<"rgb_left", "rgb_right">>, <<"thermal">>} :
          job' = [job EXCEPT ![r] = [NoJob EXCEPT !.at = "save", !.feeds = fs, !.set = shots]]
    BY <1>5 DEF CaptureSet
  <2>2. /\ job[r] = NoJob /\ shots > 0 /\ shots' = shots - 1
        /\ UNCHANGED <<images, sidecars, index, manifest, mission, missions, trouble, now, cut>>
    BY <1>5 DEF CaptureSet, Taken, archive
  <2>3. shots' \in Nat
    BY <1>1, <2>2, OneLess
  <2>4. CapturesTypeOK'
    BY <1>0, <2>2, <2>3 DEF CapturesTypeOK
  <2>5. fs \in Seq(Feeds) /\ Len(fs) > 0
    <3>1. CASE fs = <<"rgb_left", "rgb_right", "thermal">>
      BY <3>1 DEF Feeds
    <3>2. CASE fs = <<"rgb_left", "rgb_right">>
      BY <3>2 DEF Feeds
    <3>3. CASE fs = <<"thermal">>
      BY <3>3 DEF Feeds
    <3> QED BY <2>1, <3>1, <3>2, <3>3
  <2> DEFINE t == [NoJob EXCEPT !.at = "save", !.feeds = fs, !.set = shots]
  <2>6. t \in JobTypes /\ StartsFeed(t)
    BY <1>1, <2>5, FeedStarts
  <2>7. job[r].at = "idle" /\ job' = [job EXCEPT ![r] = t]
    BY <2>1, <2>2 DEF NoJob
  <2> HIDE DEF t
  <2> QED BY <1>3, <2>2, <2>4, <2>6, <2>7
<1>6. ASSUME NEW r \in Routes, WriteImage(r) PROVE CapturesInv'
  <2>1. PICK p \in Pictures \ (Names \cup sidecars) :
          /\ images' = images \cup {[name |-> p, feed |-> Head(job[r].feeds), time |-> now]}
          /\ job' = [job EXCEPT ![r] = [job[r] EXCEPT !.at = "sidecar", !.picture = p]]
    <3>1. PICK p \in Untaken :
            /\ images' = images \cup {[name |-> p, feed |-> Head(job[r].feeds), time |-> now]}
            /\ job' = [job EXCEPT ![r] = [job[r] EXCEPT !.at = "sidecar", !.picture = p]]
      BY <1>6 DEF WriteImage
    <3>2. p \in Pictures \ (Names \cup sidecars)
      BY <3>1 DEF Untaken
    <3> QED BY <3>1, <3>2
  <2>2. /\ job[r].at = "save" /\ \A q \in Routes : ~Saving(q)
        /\ UNCHANGED <<sidecars, index, manifest, mission, missions, shots, trouble, now, cut>>
    BY <1>6 DEF WriteImage
  <2>3. job[r] \in JobTypes /\ JobOK(job[r])
    BY <1>0
  <2>4. Head(job[r].feeds) \in Feeds /\ p \in Nat
    <3>1. job[r].feeds \in Seq(Feeds) /\ Len(job[r].feeds) > 0
      BY <2>2, <2>3 DEF JobTypes, JobOK
    <3>2. PICK fs \in Seq(Feeds) : fs = job[r].feeds /\ Len(fs) > 0
      BY <3>1
    <3>3. Head(fs) \in Feeds
      BY <3>2
    <3> QED BY <2>1, <3>2, <3>3
  <2> DEFINE image == [name |-> p, feed |-> Head(job[r].feeds), time |-> now]
  <2>0. PICK t : t = [job[r] EXCEPT !.at = "sidecar", !.picture = p]
    OBVIOUS
  <2>5. image \in [name : Pictures, feed : Feeds, time : 0..MaxNow] /\ image.name = p
    BY <1>1, <2>1, <2>4
  <2>6. t \in JobTypes /\ t.at = "sidecar" /\ t.picture = p /\ t.partner = job[r].partner
        /\ t.feeds = job[r].feeds
    BY <2>0, <2>3, <2>4 DEF JobTypes
  <2>7. images' = images \cup {image} /\ job' = [job EXCEPT ![r] = t]
    BY <2>0, <2>1
  <2> HIDE DEF image
  <2>8. \A i \in images : i.name # p
    BY <2>1 DEF Names
  <2>9. CapturesTypeOK'
    BY <1>1, <2>2, <2>5, <2>7, <2>8 DEF CapturesTypeOK, Feeds
  <2>10. p \in Names' /\ Names \subseteq Names' /\ Names' \subseteq Names \cup {p}
    BY <2>5, <2>7 DEF Names
  <2>11. index = Names
    BY <1>0, <2>2 DEF SaveIsAlone, Saving
  <2>12. job[r].partner = 0 /\ Len(job[r].feeds) > 0
    BY <2>2, <2>3 DEF JobOK
  <2>13. JobOK(t)'
    BY <2>1, <2>2, <2>6, <2>10, <2>11, <2>12 DEF JobOK
  <2>14. \A q \in index : Image(q) \in images'
    BY <1>2, <2>7
  <2> QED BY <2>2, <2>6, <2>7, <2>9, <2>10, <2>11, <2>13, <2>14, ArchiveMoves
<1>7. ASSUME NEW r \in Routes, Saving(r), NEW p \in Names \ index
      PROVE  job[r].at \in {"sidecar", "index", "undo"} /\ job[r].picture = p
  BY <1>0, <1>7 DEF SaveIsAlone, Saving
<1>8. ASSUME NEW r \in Routes, WriteSidecar(r) PROVE CapturesInv'
  <2>1. /\ job[r].at = "sidecar" /\ Saving(r)
        /\ UNCHANGED <<images, index, manifest, mission, missions, shots, now, cut>>
        /\ Names' = Names
    BY <1>8 DEF WriteSidecar, Saving, Names
  <2>2. /\ JobOK(job[r]) /\ Len(job[r].feeds) > 0 /\ job[r].picture \in Names \ index
        /\ job[r].partner = 0
    BY <1>0, <2>1 DEF JobOK
  <2>3. CASE sidecars' = sidecars \cup {job[r].picture} /\ Be(r, "index") /\ UNCHANGED trouble
    <3>1. PICK t \in JobTypes : Puts(r, t, "index")
      <4>1. Be(r, "index")
        BY <2>3
      <4> QED BY <4>1, BeMoves
    <3>2. CapturesTypeOK'
      BY <1>0, <1>1, <2>1, <2>2, <2>3 DEF CapturesTypeOK
    <3>3. JobOK(t)'
      BY <2>1, <2>2, <2>3, <3>1 DEF JobOK, Puts
    <3>4. \A p \in Names' \ index' : t.at \in {"sidecar", "index", "undo"} /\ t.picture = p
      BY <1>7, <2>1, <3>1 DEF Puts
    <3>5. (\A q \in index : Image(q) \in images') /\ index' \subseteq Names'
      BY <1>0, <1>2, <2>1 DEF SaveIsAlone
    <3> QED BY <2>1, <2>3, <3>1, <3>2, <3>3, <3>4, <3>5, ArchiveMoves DEF Puts
  <2>4. CASE Fails(r) /\ sidecars' \in {sidecars, sidecars \cup {job[r].picture}}
    <3>1. trouble' \in Nat
      BY <1>1, <2>4, OneLess DEF Fails
    <3>2. CapturesTypeOK'
      BY <1>0, <1>1, <2>1, <2>2, <2>4, <3>1 DEF CapturesTypeOK
    <3>3. PICK t \in JobTypes : Puts(r, t, "undo")
      <4>1. Be(r, "undo")
        BY <2>4 DEF Fails
      <4> QED BY <4>1, BeMoves
    <3>4. JobOK(t)'
      BY <2>1, <2>2, <3>3 DEF JobOK, Puts
    <3>5. \A p \in Names' \ index' : t.at \in {"sidecar", "index", "undo"} /\ t.picture = p
      BY <1>7, <2>1, <3>3 DEF Puts
    <3>6. (\A q \in index : Image(q) \in images') /\ index' \subseteq Names'
      BY <1>0, <1>2, <2>1 DEF SaveIsAlone
    <3> QED BY <2>1, <2>4, <3>2, <3>3, <3>4, <3>5, <3>6, ArchiveMoves DEF Puts
  <2> QED BY <1>8, <2>3, <2>4 DEF WriteSidecar
<1>9. ASSUME NEW r \in Routes, WriteIndex(r) PROVE CapturesInv'
  <2>1. /\ job[r].at = "index" /\ Saving(r)
        /\ UNCHANGED <<images, sidecars, manifest, mission, missions, shots, now, cut>>
        /\ Names' = Names
    BY <1>9 DEF WriteIndex, Saving, Names
  <2>2. /\ JobOK(job[r]) /\ Len(job[r].feeds) > 0 /\ job[r].partner = 0
        /\ job[r].picture \in (Names \cap sidecars) \ index
    BY <1>0, <2>1 DEF JobOK
  <2>3. CASE index' = index \cup {job[r].picture} /\ Be(r, "look") /\ UNCHANGED trouble
    <3>1. PICK t \in JobTypes : Puts(r, t, "look")
      <4>1. Be(r, "look")
        BY <2>3
      <4> QED BY <4>1, BeMoves
    <3>2. CapturesTypeOK'
      BY <1>0, <1>1, <2>1, <2>2, <2>3 DEF CapturesTypeOK
    <3>3. JobOK(t)'
      BY <2>1, <2>2, <2>3, <3>1 DEF JobOK, Puts
    <3>4. \A p \in Names' \ index' : t.at \in {"sidecar", "index", "undo"} /\ t.picture = p
      BY <1>7, <2>1, <2>3
    <3>5. (\A q \in index : Image(q) \in images') /\ index' \subseteq Names'
      BY <1>0, <1>2, <2>1, <2>2, <2>3 DEF SaveIsAlone
    <3> QED BY <2>1, <2>3, <3>1, <3>2, <3>3, <3>4, <3>5, ArchiveMoves DEF Puts
  <2>4. CASE Fails(r) /\ UNCHANGED index
    <3>1. trouble' \in Nat
      BY <1>1, <2>4, OneLess DEF Fails
    <3>2. CapturesTypeOK'
      BY <1>0, <2>1, <2>4, <3>1 DEF CapturesTypeOK
    <3>3. PICK t \in JobTypes : Puts(r, t, "undo")
      <4>1. Be(r, "undo")
        BY <2>4 DEF Fails
      <4> QED BY <4>1, BeMoves
    <3>4. JobOK(t)
      BY <2>2, <3>3 DEF JobOK, Puts
    <3> QED BY <2>1, <2>4, <3>2, <3>3, <3>4, JobMoves DEF Puts
  <2> QED BY <1>9, <2>3, <2>4 DEF WriteIndex
<1>10. ASSUME NEW r \in Routes, Undo(r) PROVE CapturesInv'
  <2>1. /\ job[r].at = "undo" /\ Saving(r) /\ Be(r, "undo sidecar")
        /\ images' = {i \in images : i.name # job[r].picture}
        /\ UNCHANGED <<sidecars, index, manifest, mission, missions, shots, trouble, now, cut>>
    BY <1>10 DEF Undo, Saving
  <2>2. /\ JobOK(job[r]) /\ Len(job[r].feeds) > 0 /\ job[r].picture \in Names \ index
        /\ job[r].partner = 0
    BY <1>0, <2>1 DEF JobOK
  <2>3. PICK t \in JobTypes : Puts(r, t, "undo sidecar")
    <3>1. Be(r, "undo sidecar")
      BY <2>1
    <3> QED BY <3>1, BeMoves
  <2>4. CapturesTypeOK'
    BY <1>0, <2>1 DEF CapturesTypeOK
  <2>5. Names' \subseteq Names \ {job[r].picture}
    BY <2>1 DEF Names
  <2>6. \A q \in index : Image(q) \in images' /\ q \in Names'
    <3>1. \A q \in index : q # job[r].picture /\ Image(q) \in images /\ Image(q).name = q
      BY <1>2, <2>2
    <3>2. \A q \in index : Image(q) \in images'
      BY <2>1, <3>1
    <3> QED BY <3>1, <3>2 DEF Names
  <2>7. JobOK(t)'
    BY <2>2, <2>3, <2>5 DEF JobOK, Puts
  <2>8. Names' \ index' = {}
    BY <1>7, <2>1, <2>5
  <2> QED BY <2>1, <2>3, <2>4, <2>6, <2>7, <2>8, ArchiveMoves DEF Puts
<1>11. ASSUME NEW r \in Routes, UndoSidecar(r) PROVE CapturesInv'
  <2>1. /\ job[r].at = "undo sidecar" /\ Saving(r) /\ Onward(r)
        /\ sidecars' = sidecars \ {job[r].picture} /\ Names' = Names
        /\ UNCHANGED <<images, index, manifest, mission, missions, shots, trouble, now, cut>>
    BY <1>11 DEF UndoSidecar, Saving, Names
  <2>2. PICK t \in JobTypes : job' = [job EXCEPT ![r] = t] /\ StartsFeed(t)
    BY <2>1, OnwardStarts
  <2>3. JobOK(t)'
    BY <2>2, FeedOKPrimed
  <2>4. CapturesTypeOK'
    BY <1>0, <1>1, <2>1 DEF CapturesTypeOK
  <2>5. job[r].picture \notin Names
    BY <1>0, <2>1 DEF JobOK
  <2>6. index \subseteq Names /\ \A q \in index : Image(q) \in images'
    BY <1>0, <1>2, <2>1 DEF SaveIsAlone
  <2>7. Names' \ index' = {}
    BY <1>7, <2>1
  <2> QED BY <2>1, <2>2, <2>3, <2>4, <2>5, <2>6, <2>7, ArchiveMoves
<1>12. ASSUME NEW r \in Routes, Look(r) PROVE CapturesInv'
  <2>1. /\ job[r].at = "look"
        /\ UNCHANGED <<images, sidecars, index, manifest, mission, missions, shots, trouble, now, cut>>
    BY <1>12 DEF Look, archive
  <2>2. CapturesTypeOK'
    BY <1>0, <2>1 DEF CapturesTypeOK
  <2>3. CASE Onward(r)
    <3>1. PICK t \in JobTypes : job' = [job EXCEPT ![r] = t] /\ StartsFeed(t)
      BY <2>1, <2>3, OnwardStarts
    <3> QED BY <1>3, <2>1, <2>2, <3>1
  <2>4. CASE job' = [job EXCEPT ![r].at = IF job[r].set = 0 THEN "pair" ELSE "enter",
                                ![r].mission = mission,
                                ![r].sample = <<mission, "set", job[r].set>>]
    <3>1. job[r] \in JobTypes /\ JobOK(job[r])
      BY <1>0
    <3>2. PICK t : t = [job[r] EXCEPT !.at = IF job[r].set = 0 THEN "pair" ELSE "enter",
                                      !.mission = mission,
                                      !.sample = <<mission, "set", job[r].set>>]
      OBVIOUS
    <3>3. job' = [job EXCEPT ![r] = t]
      BY <2>4, <3>2
    <3>4. job[r].set \in Nat
      BY <3>1 DEF JobTypes
    <3>5. <<mission, "set", job[r].set>> \in Samples
      BY <1>1, <3>4 DEF Samples
    <3>6. t \in JobTypes
      BY <1>1, <3>1, <3>2, <3>5 DEF JobTypes
    <3>7. /\ t.at = IF job[r].set = 0 THEN "pair" ELSE "enter"
          /\ t.mission = mission /\ t.sample = <<mission, "set", job[r].set>>
          /\ t.feeds = job[r].feeds /\ t.set = job[r].set /\ t.picture = job[r].picture
          /\ t.partner = job[r].partner
      BY <3>1, <3>2 DEF JobTypes
    <3>8. /\ Len(job[r].feeds) > 0 /\ job[r].partner = 0
          /\ job[r].picture \in Names \cap sidecars \cap index
      BY <2>1, <3>1 DEF JobOK
    <3>9. JobOK(t)
      BY <3>7, <3>8 DEF JobOK
    <3> QED BY <2>1, <2>2, <3>3, <3>6, <3>7, <3>9, JobMoves
  <2> QED BY <1>12, <2>3, <2>4 DEF Look
<1>13. ASSUME NEW r \in Routes, Pair(r) PROVE CapturesInv'
  <2>1. /\ job[r].at = "pair"
        /\ UNCHANGED <<images, sidecars, index, manifest, mission, missions, shots, trouble, now, cut>>
    BY <1>13 DEF Pair, archive
  <2>2. CapturesTypeOK'
    BY <1>0, <2>1 DEF CapturesTypeOK
  <2>3. /\ job[r] \in JobTypes /\ job[r].set = 0 /\ Len(job[r].feeds) > 0
        /\ job[r].picture \in Names \cap sidecars \cap index
    BY <1>0, <2>1 DEF JobOK
  <2> DEFINE p == job[r].picture
             C == Candidates(p, job[r].mission)
             best == CHOOSE i \in C : \A k \in C :
                       Between(i, p) < Between(k, p) \/ (Between(i, p) = Between(k, p) /\ i >= k)
             sample == IF C = {} THEN <<job[r].mission, "alone", p>> ELSE manifest[best].sample
             partner == IF C = {} THEN 0 ELSE manifest[best].picture
  <2>4. job' = [job EXCEPT ![r].at = "enter", ![r].sample = sample, ![r].partner = partner]
    BY <1>13 DEF Pair
  <2>5. C # {} => best \in C
    BY <2>3, BestCandidate
  <2>6. C \subseteq 1..Len(manifest)
    BY DEF Candidates
  <2>7. C # {} => manifest[best] \in ItemTypes
    <3>1. \A k \in 1..Len(manifest) : manifest[k] \in ItemTypes
      BY <1>0
    <3> HIDE DEF C, best
    <3> QED BY <2>5, <2>6, <3>1
  <2>8. sample \in Samples /\ partner \in Nat
    <3>1. job[r].mission \in Nat /\ p \in Nat
      BY <2>3 DEF JobTypes
    <3>2. <<job[r].mission, "alone", p>> \in Samples
      BY <3>1 DEF Samples
    <3> HIDE DEF C, best
    <3> QED BY <2>7, <3>2 DEF ItemTypes
  <2>9. partner # 0 => Partnered(p, job[r].mission, partner, sample, Len(manifest))
    <3>1. C # {} => best \in C \cap (1..Len(manifest))
      BY <2>5, <2>6
    <3>2. C = {} \/ (partner = manifest[best].picture /\ sample = manifest[best].sample)
      OBVIOUS
    <3>3. C = {} => partner = 0
      OBVIOUS
    <3> HIDE DEF best, partner, sample
    <3> QED BY <3>1, <3>2, <3>3 DEF Partnered
  <2> HIDE DEF p, C, best, sample, partner
  <2>10. PICK t : t = [job[r] EXCEPT !.at = "enter", !.sample = sample, !.partner = partner]
    OBVIOUS
  <2>11. job' = [job EXCEPT ![r] = t]
    BY <2>4, <2>10
  <2>12. t \in JobTypes
    BY <2>3, <2>8, <2>10 DEF JobTypes
  <2>13. /\ t.at = "enter" /\ t.sample = sample /\ t.partner = partner
         /\ t.feeds = job[r].feeds /\ t.set = job[r].set /\ t.picture = job[r].picture
         /\ t.mission = job[r].mission
    BY <2>3, <2>10 DEF JobTypes
  <2>14. JobOK(t)
    BY <2>3, <2>9, <2>13 DEF JobOK, p
  <2> QED BY <2>1, <2>2, <2>11, <2>12, <2>13, <2>14, JobMoves
<1>14. ASSUME NEW r \in Routes, Enter(r) PROVE CapturesInv'
  <2>1. /\ job[r].at = "enter" /\ Onward(r)
        /\ UNCHANGED <<images, sidecars, index, mission, missions, shots, now, cut>>
        /\ Names' = Names
    BY <1>14 DEF Enter, archive, Names
  <2>2. PICK t \in JobTypes : job' = [job EXCEPT ![r] = t] /\ StartsFeed(t)
    BY <2>1, OnwardStarts
  <2>3. CASE UNCHANGED manifest /\ trouble > 0 /\ trouble' = trouble - 1
    <3>1. trouble' \in Nat
      BY <1>1, <2>3, OneLess
    <3>2. CapturesTypeOK'
      BY <1>0, <2>1, <3>1 DEF CapturesTypeOK
    <3> QED BY <1>3, <2>1, <2>2, <2>3, <3>2
  <2>4. CASE manifest' = Append(manifest, Item(r)) /\ UNCHANGED trouble
    <3>0. PICK n \in Nat : n = Len(manifest)
      BY <1>0
    <3>1. CapturesTypeOK'
      BY <1>0, <2>1, <2>4 DEF CapturesTypeOK
    <3>2. /\ job[r] \in JobTypes /\ job[r].picture \in Names \cap sidecars \cap index
          /\ job[r].partner # 0 =>
               Partnered(job[r].picture, job[r].mission, job[r].partner, job[r].sample, n)
          /\ job[r].set # 0 => job[r].sample = <<job[r].mission, "set", job[r].set>>
      BY <1>0, <2>1, <3>0 DEF JobOK
    <3>3. Item(r) \in ItemTypes
      BY <3>2 DEF Item, JobTypes, ItemTypes
    <3>4. /\ manifest' \in Seq(ItemTypes) /\ Len(manifest') = n + 1 /\ n \in Nat
          /\ manifest'[n + 1] = Item(r) /\ \A i \in 1..n : manifest'[i] = manifest[i]
      BY <1>0, <2>4, <3>0, <3>3
    <3>5. \A q \in index : Image(q) \in images'
      BY <1>2, <2>1
    <3>6. \A p \in index : \A m, partner, sample : \A k \in Nat :
            Partnered(p, m, partner, sample, k) => Partnered(p, m, partner, sample, k)'
      <4>1. Len(manifest') \in Nat /\ Len(manifest) <= Len(manifest')
        BY <3>0, <3>4
      <4> QED BY <3>0, <3>1, <3>4, <3>5, <4>1, CandidatesStay
    <3>7. \A p, m, partner, sample :
            Partnered(p, m, partner, sample, n)' => Partnered(p, m, partner, sample, Len(manifest))'
      <4>1. 1..n \subseteq 1..Len(manifest')
        BY <3>4
      <4> QED BY <4>1 DEF Partnered
    <3>8. ASSUME NEW q \in Routes PROVE JobOK(job[q])'
      <4>1. CASE q = r
        <5>1. job'[q] = t /\ JobOK(t)'
          BY <1>0, <2>2, <4>1, FeedOKPrimed
        <5> QED BY <5>1
      <4>2. CASE q # r
        <5>1. PICK u : u = job[q] /\ u = job'[q]
          BY <1>0, <2>2, <4>2
        <5>2. JobOK(u)
          BY <1>0, <5>1
        <5>3. u.partner # 0 =>
                /\ u.at = "enter" /\ u.picture \in index
                /\ Partnered(u.picture, u.mission, u.partner, u.sample, n)
          BY <3>0, <5>2 DEF JobOK
        <5>4. u.partner # 0 =>
                Partnered(u.picture, u.mission, u.partner, u.sample, Len(manifest))'
          BY <3>6, <3>7, <5>3
        <5>5. JobOK(u)'
          BY <2>1, <5>2, <5>3, <5>4 DEF JobOK
        <5> QED BY <5>1, <5>5
      <4> QED BY <4>1, <4>2
    <3>9. SaveIsAlone'
      <4>1. ~Saving(r) /\ job' \in [Routes -> JobTypes] /\ job'[r] = t
            /\ \A q \in Routes : q # r => job'[q] = job[q]
        BY <1>0, <2>1, <2>2 DEF Saving
      <4>2. ~(t.at \in {"sidecar", "index", "undo", "undo sidecar"})
        BY <2>2 DEF StartsFeed
      <4>3. \A q \in Routes : Saving(q)' => Saving(q)
        BY <4>1, <4>2 DEF Saving
      <4>4. \A q \in Routes : job[q].at \in {"sidecar", "index", "undo"} => job'[q] = job[q]
        BY <2>1, <4>1
      <4> QED BY <1>0, <2>1, <4>3, <4>4 DEF SaveIsAlone
    <3>10. ManifestNamesFiles'
      <4>1. \A i \in 1..n : manifest[i].picture \in Names \cap sidecars \cap index
        BY <1>0, <3>0 DEF ManifestInv, ManifestNamesFiles
      <4>2. Item(r).picture \in Names \cap sidecars \cap index
        BY <3>2 DEF Item
      <4>3. \A i \in 1..Len(manifest') : i \in 1..n \/ i = n + 1
        BY <3>4
      <4>4. \A i \in 1..Len(manifest') : manifest'[i].picture \in Names \cap sidecars \cap index
        BY <3>4, <4>1, <4>2, <4>3
      <4> QED BY <2>1, <4>4 DEF ManifestNamesFiles
    <3>11. ASSUME NEW i \in 1..Len(manifest') PROVE ItemOK(i)'
      <4>1. CASE i \in 1..n
        <5>1. manifest[i].picture \in index /\ i - 1 \in Nat /\ manifest'[i] = manifest[i]
          BY <1>0, <3>0, <3>4, <4>1 DEF ManifestInv, ManifestNamesFiles
        <5>2. ItemOK(i)
          BY <1>0, <3>0, <4>1 DEF ManifestInv
        <5> QED BY <3>6, <5>1, <5>2 DEF ItemOK
      <4>2. CASE i = n + 1
        <5>1. PICK u : u = Item(r)
          OBVIOUS
        <5>2. manifest'[i] = u /\ i - 1 = n
          BY <3>4, <4>2, <5>1
        <5>3. /\ u.picture = job[r].picture /\ u.mission = job[r].mission
              /\ u.partner = job[r].partner /\ u.sample = job[r].sample
              /\ u.set = job[r].set
          BY <5>1 DEF Item
        <5>4. u.partner # 0 => Partnered(u.picture, u.mission, u.partner, u.sample, n)
          BY <3>2, <5>3
        <5>5. u.partner # 0 => Partnered(u.picture, u.mission, u.partner, u.sample, n)'
          BY <3>2, <3>6, <5>3, <5>4
        <5>6. u.set # 0 => u.sample = <<u.mission, "set", u.set>>
          BY <3>2, <5>3
        <5> QED BY <5>2, <5>5, <5>6 DEF ItemOK
      <4> QED BY <3>4, <4>1, <4>2
    <3>12. job' \in [Routes -> JobTypes]
      BY <1>0, <2>2
    <3> QED BY <3>1, <3>4, <3>8, <3>9, <3>10, <3>11, <3>12 DEF CapturesInv, ManifestInv
  <2> QED BY <1>14, <2>3, <2>4 DEF Enter
<1>15. ASSUME TurnMission \/ Tick PROVE CapturesInv'
  <2>1. /\ UNCHANGED <<images, sidecars, index, manifest, job, shots, trouble, cut>>
        /\ job' = job
    BY <1>15 DEF TurnMission, Tick, archive
  <2>2. now' \in 0..MaxNow
    BY <1>1, <1>15 DEF TurnMission, Tick
  <2>3. mission' \in Nat /\ missions' \in Nat
    BY <1>1, <1>15, OneLess DEF TurnMission, Tick
  <2>4. CapturesTypeOK'
    BY <1>0, <2>1, <2>2, <2>3 DEF CapturesTypeOK
  <2>5. \A q \in Routes : Saving(q)' => Saving(q)
    BY <2>1 DEF Saving
  <2> QED BY <1>0, <2>1, <2>4, <2>5, JobsMove
<1>16. ASSUME Crash PROVE CapturesInv'
  <2>1. /\ trouble > 0 /\ trouble' = trouble - 1 /\ job' = [r \in Routes |-> NoJob]
        /\ index' = Names /\ Names' = Names
        /\ UNCHANGED <<images, sidecars, manifest, mission, missions, shots, now>>
    BY <1>16 DEF Crash, Names
  <2>2. trouble' \in Nat
    BY <1>1, <2>1, OneLess
  <2>3. CapturesTypeOK'
    <3>1. InHand \subseteq Nat
      BY <1>0 DEF InHand, JobTypes
    <3>2. cut' \subseteq Nat
      BY <1>1, <1>16, <3>1 DEF Crash
    <3> QED BY <1>0, <1>1, <2>1, <2>2, <3>2 DEF CapturesTypeOK
  <2>4. NoJob \in JobTypes /\ StartsFeed(NoJob) /\ NoJob.at = "idle"
    BY NoJobStarts DEF NoJob
  <2>5. job' \in [Routes -> JobTypes] /\ \A q \in Routes : job'[q] = NoJob
    BY <2>1, <2>4
  <2>6. \A q \in Routes : JobOK(job[q])'
    <3>1. JobOK(NoJob)'
      BY <2>4, FeedOKPrimed
    <3> QED BY <2>5, <3>1
  <2>7. SaveIsAlone'
    BY <2>1, <2>4, <2>5 DEF SaveIsAlone, Saving
  <2>8. \A p \in index : \A m, partner, sample : \A k \in Nat :
          Partnered(p, m, partner, sample, k) => Partnered(p, m, partner, sample, k)'
    <3>1. \A q \in index : Image(q) \in images'
      BY <1>2, <2>1
    <3>2. Len(manifest') \in Nat /\ Len(manifest) <= Len(manifest')
      BY <1>0, <2>1
    <3> QED BY <2>1, <2>3, <3>1, <3>2, CandidatesStay
  <2>9. ManifestNamesFiles'
    BY <1>0, <2>1 DEF ManifestInv, ManifestNamesFiles
  <2>10. ASSUME NEW i \in 1..Len(manifest) PROVE ItemOK(i)'
    <3>1. manifest[i].picture \in index /\ i - 1 \in Nat
      BY <1>0 DEF ManifestInv, ManifestNamesFiles
    <3>2. ItemOK(i)
      BY <1>0 DEF ManifestInv
    <3> QED BY <2>1, <2>8, <3>1, <3>2 DEF ItemOK
  <2>11. ManifestInv'
    BY <2>1, <2>9, <2>10 DEF ManifestInv
  <2> QED BY <1>0, <2>1, <2>3, <2>5, <2>6, <2>7, <2>11 DEF CapturesInv
<1>17. "rgb_left" \in Feeds /\ "thermal" \in Feeds
  BY DEF Feeds
<1> QED
  BY <1>4, <1>5, <1>6, <1>8, <1>9, <1>10, <1>11, <1>12, <1>13, <1>14, <1>15, <1>16, <1>17
  DEF CapturesNext, CaptureSnapshot, ThermalSnapshot

\* Only what is being saved, or was when the process died, has an image without
\* a sidecar or the reverse.
SidecarsOK == (Names \ sidecars) \cup (sidecars \ Names) \subseteq InHand \cup cut

ArchiveInv == CapturesInv /\ SidecarsOK

LEMMA SidecarsStart == CapturesInit => SidecarsOK
  BY DEF CapturesInit, SidecarsOK, Names

\* A step that leaves the files alone, of a request that saves nothing, or that
\* goes on with its picture.
LEMMA SidecarsRest ==
  ASSUME SidecarsOK, UNCHANGED <<images, sidecars, cut>>,
         \A r \in Routes : Saving(r) => Saving(r)' /\ job'[r].picture = job[r].picture
  PROVE  SidecarsOK'
<1>1. Names' = Names
  BY DEF Names
<1>2. InHand \subseteq InHand'
  BY DEF InHand
<1> QED BY <1>1, <1>2 DEF SidecarsOK

LEMMA SidecarsStep ==
  ASSUME CapturesInv, SidecarsOK, CapturesNext
  PROVE  SidecarsOK'
<1>0. /\ job \in [Routes -> JobTypes] /\ SaveIsAlone
      /\ \A r \in Routes : JobOK(job[r])
  BY DEF CapturesInv
<1>1. ASSUME NEW r \in Routes, NEW t, job' = [job EXCEPT ![r] = t], ~Saving(r),
             UNCHANGED <<images, sidecars, cut>>
      PROVE  SidecarsOK'
  <2>1. \A q \in Routes : Saving(q) => q # r /\ job'[q] = job[q]
    BY <1>0, <1>1
  <2>2. \A q \in Routes : Saving(q) => Saving(q)' /\ job'[q].picture = job[q].picture
    BY <2>1 DEF Saving
  <2> QED BY <1>1, <2>2, SidecarsRest
<1>2. ASSUME NEW r \in Routes, NEW t, job' = [job EXCEPT ![r] = t], Saving(r),
             t.picture = job[r].picture,
             t.at \in {"sidecar", "index", "undo", "undo sidecar"},
             \A p : p # job[r].picture =>
               (p \in Names <=> p \in Names') /\ (p \in sidecars <=> p \in sidecars'),
             UNCHANGED cut
      PROVE  SidecarsOK'
  <2>1. \A q \in Routes : Saving(q) => Saving(q)' /\ job'[q].picture = job[q].picture
    <3>1. \A q \in Routes : q # r => job'[q] = job[q]
      BY <1>0, <1>2
    <3>2. job'[r] = t
      BY <1>0, <1>2
    <3> QED BY <1>2, <3>1, <3>2 DEF Saving
  <2>2. InHand \subseteq InHand' /\ job[r].picture \in InHand'
    BY <1>2, <2>1 DEF InHand
  <2> QED BY <1>2, <2>2 DEF SidecarsOK
<1>3. ASSUME NEW r \in Routes, Saving(r), NEW p \in (Names \ sidecars) \cup (sidecars \ Names),
             p \notin cut
      PROVE  p = job[r].picture
  BY <1>0, <1>3 DEF SidecarsOK, InHand, SaveIsAlone
<1>4. ASSUME NEW r \in Routes, NEW t, job' = [job EXCEPT ![r] = t], Saving(r),
             job[r].picture \in Names' <=> job[r].picture \in sidecars',
             \A p : p # job[r].picture =>
               (p \in Names <=> p \in Names') /\ (p \in sidecars <=> p \in sidecars'),
             UNCHANGED cut
      PROVE  SidecarsOK'
  BY <1>3, <1>4 DEF SidecarsOK
<1>5. ASSUME NEW r \in Routes, NEW there, Be(r, there)
      PROVE  job' = [job EXCEPT ![r] = [job[r] EXCEPT !.at = there]]
  BY <1>5 DEF Be
<1>6. ASSUME NEW r \in Routes, NEW there PROVE
        /\ [job[r] EXCEPT !.at = there].at = there
        /\ [job[r] EXCEPT !.at = there].picture = job[r].picture
  BY <1>0 DEF JobTypes
<1>7. ASSUME NEW r \in Routes, Onward(r)
      PROVE  \E t : job' = [job EXCEPT ![r] = t]
  BY <1>7 DEF Onward
<1>8. ASSUME NEW r \in Routes, WriteImage(r) PROVE SidecarsOK'
  <2>1. PICK p \in Untaken :
          /\ images' = images \cup {[name |-> p, feed |-> Head(job[r].feeds), time |-> now]}
          /\ job' = [job EXCEPT ![r] = [job[r] EXCEPT !.at = "sidecar", !.picture = p]]
    BY <1>8 DEF WriteImage
  <2>2. (\A q \in Routes : ~Saving(q)) /\ UNCHANGED <<sidecars, cut>>
    BY <1>8 DEF WriteImage
  <2>3. job'[r].at = "sidecar" /\ job'[r].picture = p
    BY <1>0, <2>1 DEF JobTypes
  <2>4. p \in InHand'
    BY <2>3 DEF InHand, Saving
  <2>5. Names' = Names \cup {p}
    <3>1. PICK i : i = [name |-> p, feed |-> Head(job[r].feeds), time |-> now]
      OBVIOUS
    <3>2. i.name = p /\ images' = images \cup {i}
      BY <2>1, <3>1
    <3> QED BY <3>2 DEF Names
  <2>6. InHand = {}
    BY <2>2 DEF InHand
  <2> QED BY <2>2, <2>4, <2>5, <2>6 DEF SidecarsOK
<1>9. ASSUME NEW r \in Routes, WriteSidecar(r) \/ WriteIndex(r) \/ Undo(r) PROVE SidecarsOK'
  <2>1. Saving(r) /\ UNCHANGED cut
    BY <1>9 DEF WriteSidecar, WriteIndex, Undo, Saving
  <2>2. \A p : p # job[r].picture =>
          (p \in Names <=> p \in Names') /\ (p \in sidecars <=> p \in sidecars')
    <3>1. CASE WriteSidecar(r) \/ WriteIndex(r)
      BY <3>1 DEF WriteSidecar, WriteIndex, Names
    <3>2. CASE Undo(r)
      BY <3>2 DEF Undo, Names
    <3> QED BY <1>9, <3>1, <3>2
  <2>3. CASE \E there \in {"index", "undo", "undo sidecar"} : Be(r, there)
    <3>1. PICK there \in {"index", "undo", "undo sidecar"} : Be(r, there)
      BY <2>3
    <3>2. PICK t : t = [job[r] EXCEPT !.at = there]
      OBVIOUS
    <3>3. job' = [job EXCEPT ![r] = t] /\ t.at = there /\ t.picture = job[r].picture
      BY <1>5, <1>6, <3>1, <3>2
    <3> QED BY <1>2, <2>1, <2>2, <3>1, <3>3
  <2>4. CASE WriteIndex(r) /\ Be(r, "look")
    <3>1. job[r].picture \in Names' /\ job[r].picture \in sidecars'
      BY <1>0, <2>4 DEF WriteIndex, JobOK, Names
    <3>2. \E t : job' = [job EXCEPT ![r] = t]
      BY <1>5, <2>4
    <3> QED BY <1>4, <2>1, <2>2, <3>1, <3>2
  <2> QED BY <1>9, <2>3, <2>4 DEF WriteSidecar, WriteIndex, Undo, Fails
<1>10. ASSUME NEW r \in Routes, UndoSidecar(r) PROVE SidecarsOK'
  <2>1. /\ Saving(r) /\ Onward(r) /\ sidecars' = sidecars \ {job[r].picture}
        /\ Names' = Names /\ UNCHANGED cut
    BY <1>10 DEF UndoSidecar, Saving, Names
  <2>2. job[r].picture \notin Names
    BY <1>0, <1>10 DEF UndoSidecar, JobOK
  <2> QED BY <1>4, <1>7, <2>1, <2>2
<1>11. ASSUME NEW r \in Routes,
              \/ CaptureSnapshot(r) \/ ThermalSnapshot(r) \/ CaptureSet(r)
              \/ Look(r) \/ Pair(r) \/ Enter(r)
       PROVE  SidecarsOK'
  <2>1. ~Saving(r) /\ UNCHANGED <<images, sidecars, cut>>
    <3>1. CASE CaptureSnapshot(r) \/ ThermalSnapshot(r) \/ CaptureSet(r)
      <4>1. job[r] = NoJob /\ UNCHANGED <<images, sidecars, cut>>
        BY <3>1 DEF CaptureSnapshot, ThermalSnapshot, CaptureSet, Single, Taken, archive
      <4> QED BY <4>1 DEF Saving, NoJob
    <3>2. CASE Look(r)
      BY <3>2 DEF Look, archive, Saving
    <3>3. CASE Pair(r)
      <4>1. job[r].at = "pair" /\ UNCHANGED <<images, sidecars, cut>>
        BY <3>3, Zenon DEF Pair, archive
      <4> QED BY <4>1 DEF Saving
    <3>4. CASE Enter(r)
      BY <3>4 DEF Enter, archive, Saving
    <3> QED BY <1>11, <3>1, <3>2, <3>3, <3>4
  <2>2. \E t : job' = [job EXCEPT ![r] = t]
    BY <1>7, <1>11
       DEF CaptureSnapshot, ThermalSnapshot, CaptureSet, Single, Look, Pair, Enter
  <2> QED BY <1>1, <2>1, <2>2
<1>12. CASE TurnMission \/ Tick
  <2>1. UNCHANGED <<images, sidecars, cut, job>>
    BY <1>12 DEF TurnMission, Tick, archive
  <2>2. \A q \in Routes : Saving(q) => Saving(q)' /\ job'[q].picture = job[q].picture
    BY <2>1 DEF Saving
  <2> QED BY <2>1, <2>2, SidecarsRest
<1>13. CASE Crash
  <2>1. UNCHANGED <<images, sidecars>> /\ cut' = cut \cup InHand
    BY <1>13 DEF Crash
  <2> QED BY <2>1 DEF SidecarsOK, Names
<1> QED BY <1>8, <1>9, <1>10, <1>11, <1>12, <1>13 DEF CapturesNext

LEMMA CapturesSound ==
  ArchiveInv => IndexIsTrue /\ ManifestNamesFiles /\ PairsStayTogether
<1> SUFFICES ASSUME CapturesInv, SidecarsOK PROVE IndexIsTrue /\ ManifestNamesFiles /\ PairsStayTogether
  BY DEF ArchiveInv
<1>1. SaveIsAlone /\ ManifestInv /\ Len(manifest) \in Nat
  BY DEF CapturesInv
<1>2. IndexIsTrue
  BY <1>1 DEF SaveIsAlone, SidecarsOK, IndexIsTrue, InHand, Saving
<1>3. \A i \in 1..Len(manifest) : ItemOK(i)
  BY <1>1 DEF ManifestInv
<1>4. ASSUME NEW i \in 1..Len(manifest), manifest[i].partner # 0
      PROVE  /\ \E k \in Candidates(manifest[i].picture, manifest[i].mission) \cap (1..(i - 1)) :
                  /\ manifest[k].picture = manifest[i].partner
                  /\ manifest[k].sample = manifest[i].sample
             /\ manifest[i].sample \in ValidSamples(manifest[i].mission)
  <2>1. PICK k \in Candidates(manifest[i].picture, manifest[i].mission) \cap (1..(i - 1)) :
          manifest[k].picture = manifest[i].partner /\ manifest[k].sample = manifest[i].sample
    BY <1>3, <1>4 DEF ItemOK, Partnered
  <2> DEFINE M(j) == Modality(Image(manifest[j].picture).feed)
  <2>2. /\ k \in 1..Len(manifest) /\ manifest[k].mission = manifest[i].mission
        /\ M(k) # M(i)
    BY <2>1 DEF Candidates
  <2>3. M(k) \in {"rgb", "thermal"} /\ M(i) \in {"rgb", "thermal"}
    BY DEF Modality
  <2>4. Shown(manifest[i].sample, manifest[i].mission) = {"rgb", "thermal"}
    <3>1. /\ M(k) \in Shown(manifest[i].sample, manifest[i].mission)
          /\ M(i) \in Shown(manifest[i].sample, manifest[i].mission)
      BY <2>1, <2>2 DEF Shown
    <3>2. Shown(manifest[i].sample, manifest[i].mission) \subseteq {"rgb", "thermal"}
      BY DEF Shown, Modality
    <3> HIDE DEF M
    <3> QED BY <2>2, <2>3, <3>1, <3>2
  <2>5. manifest[i].sample \in ValidSamples(manifest[i].mission)
    BY <2>4 DEF ValidSamples
  <2> QED BY <2>1, <2>5
<1>5. ASSUME NEW i \in 1..Len(manifest), NEW k \in 1..Len(manifest),
             manifest[i].set # 0, manifest[i].set = manifest[k].set,
             manifest[i].mission = manifest[k].mission
      PROVE  manifest[i].sample = manifest[k].sample
  BY <1>3, <1>5 DEF ItemOK
<1> QED BY <1>1, <1>2, <1>4, <1>5 DEF ManifestInv, PairsStayTogether

(***************************************************************************)
(* Sources                                                                  *)
(***************************************************************************)
Lengths == 0..Cardinality(Images)

SourcesInv ==
  /\ SourcesTypeOK
  /\ provider \in [source : AllSources, index : Lengths, total : Lengths]

USE SourcesAssumption

LEMMA FolderLength ==
  ASSUME folder \subseteq Images
  PROVE  Cardinality(folder) \in Nat /\ Cardinality(folder) \in Lengths /\ 0 \in Lengths
<1>1. Cardinality(Images) \in Nat
  BY FS_CardinalityType
<1>2. IsFiniteSet(folder) /\ Cardinality(folder) <= Cardinality(Images)
  BY FS_Subset
<1>3. Cardinality(folder) \in Nat
  BY <1>2, FS_CardinalityType
<1> QED BY <1>1, <1>2, <1>3 DEF Lengths

LEMMA FreshTyped ==
  ASSUME folder \subseteq Images, NEW s \in AllSources
  PROVE  Fresh(s) \in [source : AllSources, index : Lengths, total : Lengths]
<1>1. Cardinality(folder) \in Lengths /\ 0 \in Lengths
  BY FolderLength
<1> QED BY <1>1 DEF Fresh

\* The parts of the invariant.
LEMMA SourcesTyped ==
  SourcesInv <=>
    /\ folder \subseteq Images /\ broken \subseteq folder
    /\ cached \in {"none", "yes", "no"} /\ selected \in AllSources
    /\ provider \in [source : AllSources, index : Lengths, total : Lengths]
    /\ pick \in [Tabs -> [at : {"idle", "sync", "configure"}, source : AllSources]]
    /\ failed \in BOOLEAN /\ overlapped \in BOOLEAN /\ turns \in Nat
    /\ loop \in {"off", "look", "ask"}
  BY DEF SourcesInv, SourcesTypeOK, Lengths

LEMMA SourcesStarts == SourcesInit => SourcesInv
<1> SUFFICES ASSUME SourcesInit PROVE SourcesInv
  OBVIOUS
<1>1. folder \subseteq Images /\ Replay \in AllSources
  BY DEF SourcesInit, AllSources
<1>2. provider \in [source : AllSources, index : Lengths, total : Lengths]
  BY <1>1, FreshTyped DEF SourcesInit
<1>3. /\ broken = {} /\ cached = "none" /\ selected = Replay
      /\ pick = [t \in Tabs |-> [at |-> "idle", source |-> Replay]]
      /\ failed = FALSE /\ overlapped = FALSE /\ turns \in Nat /\ loop = "off"
  BY DEF SourcesInit
<1>4. pick \in [Tabs -> [at : {"idle", "sync", "configure"}, source : AllSources]]
  BY <1>1, <1>3
<1> QED BY <1>1, <1>2, <1>3, <1>4, SourcesTyped

\* What next_frame() does to the provider.
LEMMA FrameTyped ==
  ASSUME SourcesInv, NextFrame
  PROVE  /\ provider' \in [source : AllSources, index : Lengths, total : Lengths]
         /\ failed' \in BOOLEAN
<1> DEFINE P == [source : AllSources, index : Lengths, total : Lengths]
<1>0. folder \subseteq Images /\ provider \in P
  BY SourcesTyped
<1> HIDE DEF P
<1>1. CASE NextImage
  <2>1. PICK c \in Nat : c = Cardinality(folder) /\ c \in Lengths
    BY <1>0, FolderLength
  <2>2. PICK n : n = Position
    OBVIOUS
  <2>3. n \in 0..c
    <3>1. provider.index \in Nat
      BY <1>0 DEF P, Lengths
    <3> QED BY <2>1, <2>2, <3>1 DEF Position
  <2>4. n \in Lengths /\ (n < c => n + 1 \in Lengths)
    <3>1. PICK k \in Nat : Lengths = 0..k
      <4>1. Cardinality(Images) \in Nat
        BY FS_CardinalityType
      <4> QED BY <4>1 DEF Lengths
    <3> QED BY <2>1, <2>3, <3>1
  <2>5. ~(n >= c) => n < c
    BY <2>1, <2>3
  <2>6. PICK i : i \in {provider.index, n} \cup (IF n < c THEN {n + 1} ELSE {})
                 /\ provider' = [provider EXCEPT !.index = i, !.total = c]
    <3> DEFINE image == IF n >= c THEN 0 ELSE At(n)
               failing == n >= c \/ image \in broken
    <3>1. /\ failed' = failing
          /\ provider' = [provider EXCEPT
               !.index = IF folder = {} THEN provider.index ELSE IF failing THEN n ELSE n + 1,
               !.total = c]
      BY <1>1, <2>1, <2>2 DEF NextImage
    <3>2. ~failing => n < c
      BY <2>5
    <3> QED BY <3>1, <3>2
  <2>7. failed' \in BOOLEAN
    BY <1>1 DEF NextImage
  <2>8. i \in Lengths
    <3>1. provider.index \in Lengths
      BY <1>0 DEF P
    <3> QED BY <2>4, <2>6, <3>1
  <2>9. provider' \in P
    BY <1>0, <2>1, <2>6, <2>8 DEF P
  <2> QED BY <2>7, <2>9 DEF P
<1>2. CASE LiveFrame
  <2>1. provider' = provider /\ failed' = (camera[provider.source] # "STREAMING")
    BY <1>2 DEF LiveFrame
  <2>2. failed' \in BOOLEAN
    BY <2>1
  <2> QED BY <1>0, <2>1, <2>2 DEF P
<1> QED BY <1>1, <1>2 DEF NextFrame

LEMMA SourcesStep ==
  ASSUME SourcesInv, SourcesNext
  PROVE  SourcesInv'
<1> DEFINE P == [source : AllSources, index : Lengths, total : Lengths]
           K == [Tabs -> [at : {"idle", "sync", "configure"}, source : AllSources]]
           L == {"off", "look", "ask"}
<1>0. /\ folder \subseteq Images /\ broken \subseteq folder
      /\ cached \in {"none", "yes", "no"} /\ selected \in AllSources
      /\ provider \in P /\ pick \in K /\ loop \in L
      /\ failed \in BOOLEAN /\ overlapped \in BOOLEAN /\ turns \in Nat
  BY SourcesTyped
<1>1. SourcesInv' <=>
        /\ folder' \subseteq Images /\ broken' \subseteq folder'
        /\ cached' \in {"none", "yes", "no"} /\ selected' \in AllSources
        /\ provider' \in P /\ pick' \in K /\ loop' \in L
        /\ failed' \in BOOLEAN /\ overlapped' \in BOOLEAN /\ turns' \in Nat
  BY DEF SourcesInv, SourcesTypeOK, Lengths
<1>2. Turn => turns' \in Nat
  BY <1>0, OneLess DEF Turn
<1>3. HasFrames \in {"none", "yes", "no"}
  BY <1>0 DEF HasFrames, Frames
<1>4. NextFrame => provider' \in P /\ failed' \in BOOLEAN
  BY FrameTyped
<1> HIDE DEF P, K
<1>5. \A s \in AllSources : Fresh(s) \in P
  BY <1>0, FreshTyped DEF P
<1>6. CASE CameraTurns
  <2>1. /\ UNCHANGED <<folder, broken, cached, selected, provider, pick, failed, overlapped, loop>>
        /\ Turn
    BY <1>6 DEF CameraTurns, status, worker, delivery, choice
  <2> QED BY <1>0, <1>1, <1>2, <2>1
<1>7. CASE FolderTurns
  <2>1. UNCHANGED <<cached, selected, provider, pick, failed, overlapped, loop>> /\ Turn
    BY <1>7 DEF FolderTurns, status, worker, delivery, choice
  <2>2. folder' \subseteq Images /\ broken' \subseteq folder'
    BY <1>0, <1>7 DEF FolderTurns
  <2> QED BY <1>0, <1>1, <1>2, <2>1, <2>2
<1>8. CASE CacheOver \/ RefreshDevices
  <2>1. /\ UNCHANGED <<folder, broken, selected, provider, pick, failed, overlapped, turns, loop>>
        /\ cached' \in {cached, "none"}
    BY <1>8 DEF CacheOver, RefreshDevices, world, worker, delivery, choice
  <2> QED BY <1>0, <1>1, <2>1
<1>9. CASE ListSources \/ RefreshSources
  <2>1. /\ UNCHANGED <<folder, broken, selected, provider, pick, failed, overlapped, turns, loop>>
        /\ cached' = HasFrames
    BY <1>9 DEF ListSources, RefreshSources, List, world, worker, delivery, choice
  <2> QED BY <1>0, <1>1, <1>3, <2>1
<1>10. CASE AskFrame
  <2>1. UNCHANGED <<folder, broken, cached, selected, pick, overlapped, loop>> /\ Turn
    BY <1>10 DEF AskFrame, world, status, choice
  <2>2. NextFrame
    BY <1>10 DEF AskFrame
  <2> QED BY <1>0, <1>1, <1>2, <1>4, <2>1, <2>2
<1>11. CASE ResetProvider
  <2>1. /\ UNCHANGED <<folder, broken, cached, selected, pick, overlapped, loop>>
        /\ provider' = Fresh(provider.source) /\ failed' = FALSE /\ Turn
    BY <1>11 DEF ResetProvider, world, status, choice
  <2>2. provider.source \in AllSources
    BY <1>0 DEF P
  <2> QED BY <1>0, <1>1, <1>2, <1>5, <2>1, <2>2
<1>12. CASE StartLoop \/ LoopLooks
  <2>1. /\ UNCHANGED <<folder, broken, selected, provider, pick, failed, overlapped>>
        /\ Turn \/ UNCHANGED turns
    BY <1>12 DEF StartLoop, LoopLooks, world, delivery, choice
  <2>2. cached' \in {cached, HasFrames}
    BY <1>12 DEF StartLoop, LoopLooks, SeeSelected
  <2>3. loop' \in L
    BY <1>0, <1>12 DEF StartLoop, LoopLooks
  <2> QED BY <1>0, <1>1, <1>2, <1>3, <2>1, <2>2, <2>3
<1>13. CASE LoopAsks
  <2>1. UNCHANGED <<folder, broken, cached, selected, pick, overlapped, turns>>
    BY <1>13 DEF LoopAsks, world, status, choice
  <2>2. NextFrame /\ loop' \in L
    BY <1>13 DEF LoopAsks
  <2> QED BY <1>0, <1>1, <1>4, <2>1, <2>2
<1>14. CASE StopLoop
  <2>1. UNCHANGED <<folder, broken, cached, selected, pick, overlapped>> /\ Turn
    BY <1>14 DEF StopLoop, world, status, choice
  <2>2. loop' = "off" /\ (UNCHANGED <<provider, failed>> \/ NextFrame)
    BY <1>14 DEF StopLoop, delivery
  <2> QED BY <1>0, <1>1, <1>2, <1>4, <2>1, <2>2
<1>15. ASSUME NEW t \in Tabs, Select(t) PROVE SourcesInv'
  <2>1. UNCHANGED <<folder, broken, provider, failed, loop>> /\ Turn
    BY <1>15 DEF Select, world, worker, delivery
  <2>2. selected' \in AllSources /\ cached' = HasFrames
    BY <1>15 DEF Select, List
  <2>3. overlapped' \in BOOLEAN
    BY <1>15 DEF Select
  <2>4. pick' \in K
    BY <1>0, <1>15 DEF Select, K
  <2> QED BY <1>0, <1>1, <1>2, <1>3, <2>1, <2>2, <2>3, <2>4
<1>16. ASSUME NEW t \in Tabs, Sync(t) PROVE SourcesInv'
  <2>1. UNCHANGED <<folder, broken, cached, selected, provider, failed, overlapped, turns, loop>>
    BY <1>16 DEF Sync, world, status, worker, delivery
  <2>2. pick' \in K
    BY <1>0, <1>16 DEF Sync, K
  <2> QED BY <1>0, <1>1, <2>1, <2>2
<1>17. ASSUME NEW t \in Tabs, Configure(t) PROVE SourcesInv'
  <2>1. /\ UNCHANGED <<folder, broken, cached, selected, overlapped, turns, loop>>
        /\ provider' = Fresh(pick[t].source) /\ failed' = FALSE
    BY <1>17 DEF Configure, world, status
  <2>2. pick[t].source \in AllSources
    BY <1>0 DEF K
  <2>3. pick' \in K
    BY <1>0, <1>17 DEF Configure, K
  <2> QED BY <1>0, <1>1, <1>5, <2>1, <2>2, <2>3
<1> QED
  BY <1>6, <1>7, <1>8, <1>9, <1>10, <1>11, <1>12, <1>13, <1>14, <1>15, <1>16, <1>17 DEF SourcesNext

(***************************************************************************)
(* The services together                                                    *)
(***************************************************************************)
ServicesInv == AccessInv /\ ArchiveInv /\ ExportsInv /\ PollingInv /\ SourcesInv

LEMMA AccessSame == ASSUME AccessInv, UNCHANGED accessVars PROVE AccessInv'
<1>1. UNCHANGED <<users, saved, sessions, open, req, requests, mishaps>>
  BY DEF accessVars
<1> QED BY <1>1 DEF AccessInv, AccessTypeOK, CarriesUser, AdminIsKept, HasAdmin

LEMMA CapturesSame == ASSUME ArchiveInv, UNCHANGED captureVars PROVE ArchiveInv'
<1>1. /\ UNCHANGED <<images, sidecars, index, manifest, mission, missions, job, shots, trouble, now, cut>>
      /\ job' = job
  BY DEF captureVars
<1>2. /\ CapturesTypeOK /\ job \in [Routes -> JobTypes] /\ \A q \in Routes : JobOK(job[q])
  BY DEF ArchiveInv, CapturesInv
<1>3. CapturesTypeOK'
  BY <1>1, <1>2 DEF CapturesTypeOK
<1>4. \A q \in Routes : Saving(q)' => Saving(q)
  BY <1>1 DEF Saving
<1>5. CapturesInv'
  BY <1>1, <1>2, <1>3, <1>4, JobsMove DEF ArchiveInv
<1>6. \A q \in Routes : Saving(q) => Saving(q)' /\ job'[q].picture = job[q].picture
  BY <1>1 DEF Saving
<1>7. SidecarsOK'
  BY <1>1, <1>6, SidecarsRest DEF ArchiveInv
<1> QED BY <1>5, <1>7 DEF ArchiveInv

LEMMA ExportsSame == ASSUME ExportsInv, UNCHANGED exportVars PROVE ExportsInv'
<1>1. UNCHANGED <<folders, archives, rows, last, entered, mistaken, task, errands, slips>>
  BY DEF exportVars
<1>2. ExportsTypeOK' /\ TaskTypes' = TaskTypes /\ Listed' = Listed
  BY <1>1 DEF ExportsInv, ExportsTypeOK, TaskTypes, Listed
<1>3. TasksOK'
  BY <1>1, <1>2 DEF ExportsInv, TasksOK, TaskOK, Apart
<1>4. EntriesOK'
  BY <1>1 DEF ExportsInv, EntriesOK
<1> QED BY <1>1, <1>2, <1>3, <1>4 DEF ExportsInv

LEMMA PollingSame == ASSUME PollingInv, UNCHANGED pollingVars PROVE PollingInv'
<1>1. UNCHANGED <<version, up, enabled, effect, flight, timer, shown, asked, calls, listed,
                  loading, clicks>>
  BY DEF pollingVars
<1> QED BY <1>1 DEF PollingInv, PollingTypeOK, AnswersInv

LEMMA SourcesSame == ASSUME SourcesInv, UNCHANGED sourceVars PROVE SourcesInv'
<1>1. UNCHANGED <<camera, folder, broken, device, reported, cached, provider, failed, frame,
                  loop, selected, pick, overlapped, turns>>
  BY DEF sourceVars, world, status, worker, delivery, choice
<1> QED BY <1>1 DEF SourcesInv, SourcesTypeOK, Lengths

LEMMA ServicesStart == Init => ServicesInv
<1>1. Init => AccessInit /\ CapturesInit /\ ExportsInit /\ PollingInit /\ SourcesInit
  BY DEF Init
<1> QED
  BY <1>1, AccessStarts, CapturesStarts, SidecarsStart, ExportsStarts, PollingStarts, SourcesStarts
  DEF ServicesInv, ArchiveInv

\* What a step does to each part.
LEMMA ServicesStep ==
  ASSUME ServicesInv, [Next]_vars
  PROVE  /\ ServicesInv'
         /\ AccessNext \/ UNCHANGED accessVars
         /\ PollingNext \/ UNCHANGED pollingVars
         /\ SourcesNext \/ UNCHANGED sourceVars
<1>1. AccessInv /\ ArchiveInv /\ ExportsInv /\ PollingInv /\ SourcesInv
  BY DEF ServicesInv
<1>2. /\ AccessNext \/ UNCHANGED accessVars
      /\ CapturesNext \/ UNCHANGED captureVars
      /\ ExportsNext \/ UNCHANGED exportVars
      /\ PollingNext \/ UNCHANGED pollingVars
      /\ SourcesNext \/ UNCHANGED sourceVars
  BY DEF vars, Next, InAccess, InCaptures, InExports, InPolling, InSources
<1>3. AccessInv'
  BY <1>1, <1>2, AccessStep, AccessSame
<1>4. ArchiveInv'
  BY <1>1, <1>2, CapturesStep, SidecarsStep, CapturesSame DEF ArchiveInv
<1>5. ExportsInv'
  BY <1>1, <1>2, ExportsStep, ExportsSame
<1>6. PollingInv'
  BY <1>1, <1>2, PollingStep, PollingSame
<1>7. SourcesInv'
  BY <1>1, <1>2, SourcesStep, SourcesSame
<1> QED BY <1>2, <1>3, <1>4, <1>5, <1>6, <1>7 DEF ServicesInv

LEMMA ServicesStay == Spec => []ServicesInv
<1>1. ServicesInv /\ [Next]_vars => ServicesInv'
  BY ServicesStep
<1> QED BY ServicesStart, <1>1, PTL DEF Spec

\* Whatever requests do, what accounts, images, exports, pollers and sources
\* are recorded as is of its type.
THEOREM TypeCorrect == Spec => []TypeOK
<1>1. ServicesInv => TypeOK
  BY DEF ServicesInv, AccessInv, ArchiveInv, CapturesInv, ExportsInv, PollingInv, SourcesInv, TypeOK
<1> QED BY <1>1, ServicesStay, PTL

\* With any number of accounts, requests, failed writes and restarts, an
\* administrator who is on disk is never lost again (auth.py).
THEOREM AdminStays == Spec => AdminRemains
<1>1. ServicesInv /\ [Next]_vars =>
        [HasAdmin(saved) => HasAdmin(saved') /\ HasAdmin(users')]_accessVars
  <2> SUFFICES ASSUME ServicesInv, [Next]_vars, ~UNCHANGED accessVars
               PROVE  HasAdmin(saved) => HasAdmin(saved') /\ HasAdmin(users')
    OBVIOUS
  <2>1. AccessInv /\ AccessNext
    BY ServicesStep DEF ServicesInv
  <2> QED BY <2>1, AccessStep
<1> QED BY <1>1, ServicesStay, PTL DEF Spec, AdminRemains

\* With any number of requests on their way, the dashboard never shows an
\* older state of the server than it did (usePolling.ts, useSessionList.ts).
THEOREM NoOldAnswer == Spec => LateAnswersAreDropped
<1>1. ServicesInv /\ [Next]_vars => [shown' >= shown /\ listed' >= listed]_pollingVars
  <2> SUFFICES ASSUME ServicesInv, [Next]_vars, ~UNCHANGED pollingVars
               PROVE  shown' >= shown /\ listed' >= listed
    OBVIOUS
  <2>1. PollingInv /\ PollingNext
    BY ServicesStep DEF ServicesInv
  <2> QED BY <2>1, PollingStep
<1> QED BY <1>1, ServicesStay, PTL DEF Spec, LateAnswersAreDropped

\* With any number of images, requests, missions, failed writes and restarts,
\* the index, the files, the manifests and the pairs agree (stores.py,
\* acquisition_manager.py).
THEOREM ArchiveStaysSound == Spec => []ArchiveIsSound
<1>1. ServicesInv => ArchiveIsSound
  BY CapturesSound DEF ServicesInv, ArchiveIsSound
<1> QED BY <1>1, ServicesStay, PTL

\* With any number of exports and retentions at once, failures and restarts,
\* an export whose archive went was an older one, unless another request
\* entered it (dataset_exporter.py).
THEOREM OlderExportsGo == Spec => []OnlyOlderExportsGo
<1>1. ServicesInv => OnlyOlderExportsGo
  BY ExportsSound DEF ServicesInv
<1> QED BY <1>1, ServicesStay, PTL

\* Whatever cameras, folder and requests do, a frame fails only where its
\* source is not there (frame_provider.py): the folder starts again past its
\* end, and a camera's frames come from the camera that is asked.
THEOREM FramesFailForCause == Spec => [][FailsForCause]_sourceVars
<1>1. ServicesInv /\ [Next]_vars => [FailsForCause]_sourceVars
  <2> SUFFICES ASSUME ServicesInv, [Next]_vars, ~UNCHANGED sourceVars, ~failed, failed'
               PROVE  IF provider.source = Replay THEN folder = {} \/ broken # {}
                      ELSE camera[provider.source] # "STREAMING"
    BY DEF FailsForCause
  <2>1. SourcesInv /\ SourcesNext
    BY ServicesStep DEF ServicesInv
  <2>2. NextFrame
    <3>1. ~UNCHANGED failed
      OBVIOUS
    <3> QED BY <2>1, <3>1
        DEF SourcesNext, CameraTurns, FolderTurns, CacheOver, RefreshDevices, ListSources,
            RefreshSources, AskFrame, ResetProvider, StartLoop, LoopLooks, LoopAsks, StopLoop,
            Select, Sync, Configure, worker, delivery
  <2>3. CASE NextImage /\ provider.source = Replay
    <3>1. folder \subseteq Images /\ provider.index \in Nat
      BY <2>1, SourcesTyped DEF Lengths
    <3>2. PICK c \in Nat : c = Cardinality(folder)
      BY <3>1, FolderLength
    <3>3. c = 0 => folder = {}
      BY <3>1, <3>2, FS_Subset, FS_EmptySet
    <3>4. Position >= c => c = 0
      BY <3>1, <3>2 DEF Position
    <3>5. ~(Position >= c) => broken # {}
      BY <2>3, <3>2 DEF NextImage
    <3> QED BY <2>3, <3>3, <3>4, <3>5
  <2>4. CASE LiveFrame /\ provider.source # Replay
    BY <2>4 DEF LiveFrame
  <2> QED BY <2>2, <2>3, <2>4 DEF NextFrame
<1> QED BY <1>1, ServicesStay, PTL DEF Spec
=============================================================================
