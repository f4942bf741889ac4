-------------------------------- MODULE Access --------------------------------
(***************************************************************************)
(* Accounts and sessions (src/easy_dashboard/auth.py, routes/api_auth.py and *)
(* the before_request hook of app.py).  A request reads the session, then    *)
(* the account, then acts on what it read, each under a lock of its own.     *)
(* An account is its role and its active flag; viewer and operator are one   *)
(* role here, since every route that changes an account asks for an admin.   *)
(* A session is a name with the account that opened it and its step-up bit.  *)
(* Requests that only read, the rate limiter, the audit log, the CSRF token  *)
(* and the enforcement switch, which refuse requests and change no account,  *)
(* are left out.                                                             *)
(***************************************************************************)
EXTENDS Integers, FiniteSets

CONSTANTS
  Users,      \* ids that accounts may get
  Sessions,   \* names for sessions that exist at once
  Browsers    \* where requests come from

Nil == "nil"

ASSUME AccessAssumption == IsFiniteSet(Sessions) /\ Nil \notin Users \cup Sessions

Roles == {"admin", "member"}
Account == [role : Roles, active : BOOLEAN]
NoAccount == [role |-> "none", active |-> FALSE]

\* What a PATCH may ask.
Change == [role : Roles \cup {"keep"}, active : {"on", "off", "keep"}]

VARIABLES
  users,      \* UserStore._users
  saved,      \* the users file
  sessions,   \* the AuthSession objects: account and step-up bit
  open,       \* SessionStore._sessions
  req,        \* the request of each browser: where it is, the session it goes
              \* by, the role in g.current_user, the account it is about
  requests,   \* requests left to come
  mishaps     \* failed saves and restarts left to happen

accessVars == <<users, saved, sessions, open, req, requests, mishaps>>

IsAdmin(accounts, u) == accounts[u].role = "admin" /\ accounts[u].active
HasAdmin(accounts) == \E u \in Users : IsAdmin(accounts, u)

Idle == [at |-> "idle", session |-> Nil, role |-> Nil, user |-> Nil]

\* A new device, or one with administrators who have signed in.
AccessInit ==
  /\ \E team \in SUBSET Users :
       /\ users = [u \in Users |-> IF u \in team THEN [role |-> "admin", active |-> TRUE]
                                   ELSE NoAccount]
       /\ IF team = {} THEN open = {} /\ sessions = [s \in Sessions |-> [user |-> Nil, elevated |-> FALSE]]
          ELSE open = Sessions /\ sessions \in [Sessions -> [user : team, elevated : {TRUE}]]
  /\ saved = users
  /\ req = [b \in Browsers |-> Idle]
  /\ requests \in Nat /\ mishaps \in Nat

Goes(b, there) == req' = [req EXCEPT ![b].at = there]
Ends(b) == req' = [req EXCEPT ![b] = Idle]

\* The accounts change in memory and are then written, all of them, in place
\* of the file; a write that fails leaves the memory changed.
Save(accounts, b, next) ==
  /\ users' = accounts
  /\ \/ saved' = accounts /\ req' = [req EXCEPT ![b] = next] /\ UNCHANGED mishaps
     \/ /\ mishaps > 0 /\ mishaps' = mishaps - 1
        /\ Ends(b)
        /\ UNCHANGED saved

\* Ids that accounts have no use for yet, and session names no one holds.
NewUser == {u \in Users : users[u] = NoAccount}
NewSession ==
  {s \in Sessions : s \notin open /\ \A b \in Browsers : req[b].session # s}

Arrives(b) == req[b] = Idle /\ requests > 0 /\ requests' = requests - 1

(***************************************************************************)
(* First-run setup, login and logout                                        *)
(***************************************************************************)
\* POST /setup looks for an admin, and creates the first one afterwards.
Setup(b) ==
  /\ Arrives(b) /\ ~HasAdmin(users)
  /\ Goes(b, "create")
  /\ UNCHANGED <<users, saved, sessions, open, mishaps>>

CreateFirst(b) ==
  /\ req[b].at = "create"
  /\ \E u \in NewUser :
       /\ Save([users EXCEPT ![u] = [role |-> "admin", active |-> TRUE]], b,
               [req[b] EXCEPT !.at = "anonymous", !.user = u])
  /\ UNCHANGED <<sessions, open, requests>>

\* set_anonymous_viewer_enabled() writes the accounts too.
SetAnonymous(b) ==
  /\ req[b].at = "anonymous"
  /\ Save(users, b, [req[b] EXCEPT !.at = "setup session"])
  /\ UNCHANGED <<sessions, open, requests>>

\* verify_credentials() finds an active account with this password.
Login(b) ==
  /\ Arrives(b)
  /\ \E u \in Users :
       /\ users[u].active
       /\ req' = [req EXCEPT ![b] = [Idle EXCEPT !.at = "login session", !.user = u]]
  /\ UNCHANGED <<users, saved, sessions, open, mishaps>>

OpenSession(b) ==
  /\ req[b].at \in {"setup session", "login session"}
  /\ \E s \in NewSession :
       /\ s = CHOOSE t \in NewSession : TRUE
       /\ sessions' = [sessions EXCEPT ![s] = [user |-> req[b].user, elevated |-> FALSE]]
       /\ open' = open \cup {s}
       /\ IF req[b].at = "login session" THEN Ends(b)
          ELSE req' = [req EXCEPT ![b].at = "elevate", ![b].session = s]
  /\ UNCHANGED <<users, saved, requests, mishaps>>

\* elevate() finds no session that was revoked or expired meanwhile.
Elevate(b) ==
  /\ req[b].at = "elevate"
  /\ LET s == req[b].session IN
     sessions' = IF s \in open THEN [sessions EXCEPT ![s].elevated = TRUE] ELSE sessions
  /\ Ends(b)
  /\ UNCHANGED <<users, saved, open, requests, mishaps>>

Logout(b) ==
  /\ Arrives(b)
  /\ \E s \in open : open' = open \ {s}
  /\ UNCHANGED <<users, saved, sessions, req, mishaps>>

(***************************************************************************)
(* A request that goes by a session: the hook, then the handler             *)
(***************************************************************************)
\* The session is found.
Request(b) ==
  /\ Arrives(b)
  /\ \E s \in open : req' = [req EXCEPT ![b].at = "resolve", ![b].session = s]
  /\ UNCHANGED <<users, saved, sessions, open, mishaps>>

\* The account of the session is read; one that is not active loses it.
Resolve(b) ==
  /\ req[b].at = "resolve"
  /\ LET u == users[sessions[req[b].session].user] IN
     req' = [req EXCEPT ![b].role = u.role, ![b].at = IF u.active THEN "admit" ELSE "drop"]
  /\ UNCHANGED <<users, saved, sessions, open, requests, mishaps>>

Drop(b) ==
  /\ req[b].at = "drop"
  /\ open' = open \ {req[b].session}
  /\ Ends(b)
  /\ UNCHANGED <<users, saved, sessions, requests, mishaps>>

\* The password is verified again; one that is wrong is a Refuse.
StepUp(b) ==
  /\ req[b].at = "admit"
  /\ users[sessions[req[b].session].user].active
  /\ Goes(b, "elevate")
  /\ UNCHANGED <<users, saved, sessions, open, requests, mishaps>>

\* Creation asks for the role that was read...
CreateUser(b) ==
  /\ req[b].at = "admit" /\ req[b].role = "admin"
  /\ Goes(b, "add")
  /\ UNCHANGED <<users, saved, sessions, open, requests, mishaps>>

\* ...the rest for a session that is elevated now, too.
Elevated(b) == req[b].role = "admin" /\ sessions[req[b].session].elevated

UpdateUser(b) ==
  /\ req[b].at = "admit" /\ Elevated(b)
  /\ Goes(b, "update")
  /\ UNCHANGED <<users, saved, sessions, open, requests, mishaps>>

UpdateSettings(b) ==
  /\ req[b].at = "admit" /\ Elevated(b)
  /\ Goes(b, "settings")
  /\ UNCHANGED <<users, saved, sessions, open, requests, mishaps>>

Refuse(b) ==
  /\ req[b].at = "admit"
  /\ Ends(b)
  /\ UNCHANGED <<users, saved, sessions, open, requests, mishaps>>

Add(b) ==
  /\ req[b].at = "add"
  /\ \/ \E u \in NewUser, r \in Roles :
          Save([users EXCEPT ![u] = [role |-> r, active |-> TRUE]], b, Idle)
     \/ Ends(b) /\ UNCHANGED <<users, saved, mishaps>>
  /\ UNCHANGED <<sessions, open, requests>>

Settings(b) ==
  /\ req[b].at = "settings"
  /\ Save(users, b, Idle)
  /\ UNCHANGED <<sessions, open, requests>>

\* Counts an administrator who is not active.
OthersRemain_Inactive(u) == \E v \in Users \ {u} : users[v].role = "admin"

OthersRemain(u) == \E v \in Users \ {u} : IsAdmin(users, v)

\* The last active admin can neither be deactivated nor demoted.
Refused(u, c) ==
  /\ users[u].role = "admin" /\ ~OthersRemain(u)
  /\ c.active = "off" \/ c.role \in Roles \ {"admin"}

Changed(u, c) ==
  [role   |-> IF c.role = "keep" THEN users[u].role ELSE c.role,
   active |-> IF c.active = "keep" THEN users[u].active ELSE c.active = "on"]

Update(b) ==
  /\ req[b].at = "update"
  /\ \E u \in Users, c \in Change :
       IF users[u] = NoAccount \/ Refused(u, c)
       THEN Ends(b) /\ UNCHANGED <<users, saved, mishaps>>
       ELSE Save([users EXCEPT ![u] = Changed(u, c)], b,
                 IF c.active = "off" THEN [req[b] EXCEPT !.at = "revoke", !.user = u] ELSE Idle)
  /\ UNCHANGED <<sessions, open, requests>>

Revoke(b) ==
  /\ req[b].at = "revoke"
  /\ open' = {s \in open : sessions[s].user # req[b].user}
  /\ Ends(b)
  /\ UNCHANGED <<users, saved, sessions, requests, mishaps>>

(***************************************************************************)
(* Time and the process                                                     *)
(***************************************************************************)
\* A session lasts twelve hours, a step-up five minutes.
Expire ==
  /\ \E s \in open : open' = open \ {s}
  /\ UNCHANGED <<users, saved, sessions, req, requests, mishaps>>

StepUpOver ==
  /\ \E s \in Sessions :
       /\ sessions[s].elevated
       /\ sessions' = [sessions EXCEPT ![s].elevated = FALSE]
  /\ UNCHANGED <<users, saved, open, req, requests, mishaps>>

\* The process ends and starts again from the file, without sessions.
RestartAccess ==
  /\ mishaps > 0 /\ mishaps' = mishaps - 1
  /\ users' = saved
  /\ open' = {}
  /\ req' = [b \in Browsers |-> Idle]
  /\ UNCHANGED <<saved, sessions, requests>>

AccessNext ==
  \/ \E b \in Browsers :
       \/ Setup(b) \/ CreateFirst(b) \/ SetAnonymous(b) \/ Login(b) \/ OpenSession(b)
       \/ Elevate(b) \/ Logout(b) \/ Request(b) \/ Resolve(b) \/ Drop(b)
       \/ StepUp(b) \/ CreateUser(b) \/ UpdateUser(b) \/ UpdateSettings(b) \/ Refuse(b)
       \/ Add(b) \/ Settings(b) \/ Update(b) \/ Revoke(b)
  \/ Expire \/ StepUpOver \/ RestartAccess

AccessTypeOK ==
  /\ users \in [Users -> Account \cup {NoAccount}]
  /\ saved \in [Users -> Account \cup {NoAccount}]
  /\ sessions \in [Sessions -> [user : Users \cup {Nil}, elevated : BOOLEAN]]
  /\ open \subseteq Sessions
  /\ \A s \in open : sessions[s].user \in Users
  /\ req \in [Browsers -> [at : {"idle", "create", "anonymous", "setup session", "login session",
               "elevate", "resolve", "drop", "admit", "add", "settings", "update", "revoke"},
                          session : Sessions \cup {Nil}, role : Roles \cup {"none", Nil},
                          user : Users \cup {Nil}]]
  /\ requests \in Nat /\ mishaps \in Nat

(***************************************************************************)
(* Properties                                                               *)
(***************************************************************************)
\* "The last active admin can neither be deactivated nor demoted" (auth.py:290),
\* and a failed save or a restart does not undo it: from the first admin on
\* disk on, there is always an active admin in memory and on disk, whichever
\* admins demote and deactivate each other at once.  Otherwise the setup would
\* open again (has_admin(), 200).
AdminRemains ==
  [][HasAdmin(saved) => HasAdmin(saved') /\ HasAdmin(users')]_accessVars
=============================================================================
