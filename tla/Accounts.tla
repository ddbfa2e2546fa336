------------------------------ MODULE Accounts ------------------------------
(***************************************************************************)
(* Users, the provider accounts linked to them, and their sessions:        *)
(* registering, signing in with a password or through a provider,          *)
(* refreshing, signing out and changing the password.                      *)
(*                                                                         *)
(* A handler is a request that goes from statement to statement of the     *)
(* database; one action is one statement, and several requests are in      *)
(* flight at once.  A user is named by its e-mail address: addresses are   *)
(* unique, never change, and no code deletes a user.  Teams extends this   *)
(* module and closes the specification.                                    *)
(***************************************************************************)
EXTENDS Naturals, FiniteSets

CONSTANTS
  Emails,      \* the addresses people register, sign in or are invited with
  Identities,  \* the accounts at the OAuth providers, (provider, provider_id)
  Passwords,   \* what people type
  Cookies,     \* the refresh tokens that may be issued, each a random string
  Teams,       \* the teams that may be created
  Slots,       \* the requests that may be in flight at once
  MaxFaults,   \* bound: failed statements and ends of the process
  None         \* no address, role, password, team, ...

ASSUME AccountsAssumption ==
  /\ IsFiniteSet(Emails)
  /\ None \notin Emails \cup Identities \cup Passwords \cup Cookies \cup Teams
  /\ MaxFaults \in Nat

Roles   == {"readonly", "maintainer", "owner"}
Origins == {"register", "oauth", "invite"}

ASSUME NoneIsNoRole == None \notin Roles \cup Origins

VARIABLES
  users,    \* the users table by address: role, password_hash and origin
  links,    \* oauth_accounts: the user a provider account is linked to
  session,  \* sessions: the row of a refresh token
  claims,   \* what the tokens issued with a refresh token say
  members,  \* user_teams by team: the role of a user in it
  req,      \* the requests in flight
  faults    \* the faults that have happened so far

(***************************************************************************)
(* The rows.  A user's origin is the code that inserted it.                *)
(***************************************************************************)
Nobody == [role |-> None, password |-> None, origin |-> None]
Users  == [role : Roles, password : Passwords \cup {None}, origin : Origins]

NoClaims == [user |-> None, role |-> None, team |-> None, via |-> None]
Claims   == [user : Emails, role : Roles, team : Teams \cup {None},
             via : Identities \cup {None}]

Exists(e)   == users[e].role # None
OwnerExists == \E e \in Emails : users[e].role = "owner"

(***************************************************************************)
(* A request in flight.  at names its next statement; the other fields are *)
(* the handler's variables: the account, the password typed, the provider  *)
(* account, invitation or token concerned, the role and the team read, the *)
(* attempts made.  An answer, whichever it is, ends the request; one that  *)
(* is refused at its first statement changes nothing and has no action.    *)
(***************************************************************************)
Idle == [at |-> "idle", who |-> None, password |-> None, via |-> None,
         role |-> None, team |-> None, tries |-> 0]

Busy(s) == req[s].at # "idle"

Free(s) == ~Busy(s)

SigningIn(s) == req[s].at \in {"create", "insert", "insert_again", "primary_team",
                               "drop_session", "find_email", "create_oauth", "link", "issue"}

\* Bound: every request that signs in finds a refresh token that was never issued.
Room == Cardinality({c \in Cookies : session[c] = "unissued"})
          > Cardinality({s \in Slots : SigningIn(s)})

At(s, p)    == req[s].at = p
Begin(s, r) == req' = [req EXCEPT ![s] = r]
Go(s, p)    == req' = [req EXCEPT ![s].at = p]
Answer(s)   == req' = [req EXCEPT ![s] = Idle]

(***************************************************************************)
(* Inserting a user.  Two unique indexes guard the table: one on the       *)
(* address and idx_users_single_owner, at most one row with role 'owner'.  *)
(***************************************************************************)
OwnerTaken(role) == role = "owner" /\ OwnerExists

InsertUser(e, role, password, origin) ==
  users' = [users EXCEPT ![e] =
              [role |-> role, password |-> password, origin |-> origin]]

\* CheckPassword: the empty hash of a user created through OAuth matches nothing.
CheckPassword(e, p) == users[e].password = p

(***************************************************************************)
(* POST /auth/register.  The INSERT reads whether the table is empty in    *)
(* the snapshot of its statement and meets the indexes when it writes.     *)
(***************************************************************************)
Register(s, e, p) ==
  /\ Free(s) /\ Room
  /\ ~Exists(e)
  /\ Begin(s, [Idle EXCEPT !.at = "create", !.who = e, !.password = p])
  /\ UNCHANGED <<users, links, session, claims, members>>

CreateUserSnapshot_NeverOwner(s) ==
  /\ At(s, "create")
  /\ req' = [req EXCEPT ![s].at = "insert", ![s].role = "maintainer"]
  /\ UNCHANGED <<users, links, session, claims, members>>

CreateUserSnapshot(s) ==
  /\ At(s, "create")
  /\ req' = [req EXCEPT ![s].at = "insert",
               ![s].role = IF \E e \in Emails : Exists(e) THEN "maintainer" ELSE "owner"]
  /\ UNCHANGED <<users, links, session, claims, members>>

CreateUser_NoRetry(s) ==
  LET r == req[s] IN
  /\ At(s, "insert")
  /\ IF Exists(r.who) \/ OwnerTaken(r.role)
       THEN Answer(s) /\ UNCHANGED users
       ELSE InsertUser(r.who, r.role, r.password, "register") /\ Go(s, "issue")
  /\ UNCHANGED <<links, session, claims, members>>

CreateUser(s) ==
  LET r == req[s] IN
  /\ At(s, "insert")
  /\ \/ /\ Exists(r.who)
        /\ Answer(s)
        /\ UNCHANGED users
     \/ /\ ~Exists(r.who) /\ OwnerTaken(r.role)
        /\ Go(s, "insert_again")
        /\ UNCHANGED users
     \/ /\ ~Exists(r.who) /\ ~OwnerTaken(r.role)
        /\ InsertUser(r.who, r.role, r.password, "register")
        /\ Go(s, "issue")
  /\ UNCHANGED <<links, session, claims, members>>

CreateUserWithRole_KeepsRole(s) ==
  LET r == req[s] IN
  /\ At(s, "insert_again")
  /\ IF Exists(r.who)
       THEN Answer(s) /\ UNCHANGED users
       ELSE InsertUser(r.who, "maintainer", r.password, "register") /\ Go(s, "issue")
  /\ UNCHANGED <<links, session, claims, members>>

CreateUserWithRole(s) ==
  LET r == req[s] IN
  /\ At(s, "insert_again")
  /\ IF Exists(r.who)
       THEN Answer(s) /\ UNCHANGED users
       ELSE /\ InsertUser(r.who, "maintainer", r.password, "register")
            /\ req' = [req EXCEPT ![s].at = "issue", ![s].role = "maintainer"]
  /\ UNCHANGED <<links, session, claims, members>>

(***************************************************************************)
(* POST /auth/login.  The primary team is the user's team of longest       *)
(* standing; any of the user's teams stands for it here.                   *)
(***************************************************************************)
Login(s, e, p) ==
  /\ Free(s) /\ Room
  /\ Exists(e) /\ CheckPassword(e, p)
  /\ Begin(s, [Idle EXCEPT !.at = "primary_team", !.who = e, !.role = users[e].role])
  /\ UNCHANGED <<users, links, session, claims, members>>

TeamsOf(e) == {t \in Teams : members[t][e] # None}

GetPrimaryTeamID(s) ==
  /\ At(s, "primary_team")
  /\ \/ \E t \in TeamsOf(req[s].who) :
          req' = [req EXCEPT ![s].at = "issue", ![s].team = t]
     \/ TeamsOf(req[s].who) = {} /\ Go(s, "issue")
  /\ UNCHANGED <<users, links, session, claims, members>>

(***************************************************************************)
(* POST /auth/refresh and /auth/logout, with the cookie c.  Whether the    *)
(* session is past expires_at is up to the clock.  GetUserByID reads what  *)
(* never changes, so it is part of the first step.                         *)
(***************************************************************************)
Refresh(s, c) ==
  /\ Free(s)
  /\ session[c] = "live"
  /\ LET e == claims[c].user IN
     \/ Begin(s, [Idle EXCEPT !.at = "drop_expired", !.via = c])
     \/ Room /\ Begin(s, [Idle EXCEPT !.at = "drop_session", !.via = c, !.who = e,
                                      !.role = users[e].role])
  /\ UNCHANGED <<users, links, session, claims, members>>

DropExpired(s) ==
  /\ At(s, "drop_expired")
  /\ session' = [session EXCEPT ![req[s].via] = "gone"]
  /\ Answer(s)
  /\ UNCHANGED <<users, links, claims, members>>

\* The new tokens are issued with the team "".
DropSession(s) ==
  /\ At(s, "drop_session")
  /\ session' = [session EXCEPT ![req[s].via] = "gone"]
  /\ req' = [req EXCEPT ![s].at = "issue", ![s].via = None]
  /\ UNCHANGED <<users, links, claims, members>>

Logout(c) ==
  /\ session[c] # "unissued"
  /\ session' = [session EXCEPT ![c] = "gone"]
  /\ UNCHANGED <<users, links, claims, members, req>>

(***************************************************************************)
(* POST /auth/change-password, by the user an access token names.          *)
(***************************************************************************)
ChangePassword(s, c, old, new) ==
  LET e == claims[c].user IN
  /\ Free(s)
  /\ session[c] # "unissued"
  /\ CheckPassword(e, old)
  /\ Begin(s, [Idle EXCEPT !.at = "update_password", !.who = e, !.password = new])
  /\ UNCHANGED <<users, links, session, claims, members>>

UpdatePassword(s) ==
  /\ At(s, "update_password")
  /\ users' = [users EXCEPT ![req[s].who].password = req[s].password]
  /\ Answer(s)
  /\ UNCHANGED <<links, session, claims, members>>

(***************************************************************************)
(* The callback of a provider that vouches for the account i with the      *)
(* address e: completeOAuth.                                               *)
(***************************************************************************)
OAuthCallback(s, i, e) ==
  /\ Free(s) /\ Room
  /\ IF links[i] # None
       THEN Begin(s, [Idle EXCEPT !.at = "issue", !.who = links[i], !.via = i,
                                  !.role = users[links[i]].role])
       ELSE Begin(s, [Idle EXCEPT !.at = "find_email", !.who = e, !.via = i])
  /\ UNCHANGED <<users, links, session, claims, members>>

FindUserByEmail(s) ==
  /\ At(s, "find_email")
  /\ IF Exists(req[s].who)
       THEN req' = [req EXCEPT ![s].at = "link", ![s].role = users[req[s].who].role]
       ELSE Go(s, "create_oauth")
  /\ UNCHANGED <<users, links, session, claims, members>>

CreateOAuthUser(s) ==
  /\ At(s, "create_oauth")
  /\ IF Exists(req[s].who)
       THEN Answer(s) /\ UNCHANGED users
       ELSE /\ InsertUser(req[s].who, "maintainer", None, "oauth")
            /\ req' = [req EXCEPT ![s].at = "link", ![s].role = "maintainer"]
  /\ UNCHANGED <<links, session, claims, members>>

LinkAccount(s) ==
  LET r == req[s] IN
  /\ At(s, "link")
  /\ IF links[r.via] # None
       THEN Answer(s) /\ UNCHANGED links
       ELSE links' = [links EXCEPT ![r.via] = r.who] /\ Go(s, "issue")
  /\ UNCHANGED <<users, session, claims, members>>

(***************************************************************************)
(* Signing the claims and storing the session under a fresh refresh token: *)
(* the last step of every way to sign in.                                  *)
(***************************************************************************)
StoreSession(c, r) ==
  /\ session[c] = "unissued"
  /\ session' = [session EXCEPT ![c] = "live"]
  /\ claims' = [claims EXCEPT ![c] =
       [user |-> r.who, role |-> r.role, team |-> r.team, via |-> r.via]]

IssueTokens(s) ==
  /\ At(s, "issue")
  /\ \E c \in Cookies : StoreSession(c, req[s])
  /\ Answer(s)
  /\ UNCHANGED <<users, links, members>>

(***************************************************************************)
(* A failed statement ends the request with 500, but where the handler     *)
(* ignores the error: it then goes on without what it asked for.           *)
(***************************************************************************)
FailedStatement(s) ==
  /\ Busy(s)
  /\ \/ /\ req[s].at \notin {"primary_team", "drop_session", "drop_expired", "mail"}
        /\ Answer(s)
     \/ At(s, "primary_team") /\ Go(s, "issue")
     \/ At(s, "drop_session") /\ req' = [req EXCEPT ![s].at = "issue", ![s].via = None]
     \/ At(s, "drop_expired") /\ Answer(s)
  /\ UNCHANGED <<users, links, session, claims, members>>

\* The server ends with its requests and starts again.
Crash ==
  /\ \E s \in Slots : Busy(s)
  /\ req' = [s \in Slots |-> Idle]
  /\ UNCHANGED <<users, links, session, claims, members>>

avars == <<users, links, session, claims, members, req>>

AInit ==
  /\ users = [e \in Emails |-> Nobody]
  /\ links = [i \in Identities |-> None]
  /\ session = [c \in Cookies |-> "unissued"]
  /\ claims = [c \in Cookies |-> NoClaims]
  /\ members = [t \in Teams |-> [e \in Emails |-> None]]
  /\ req = [s \in Slots |-> Idle]

Arrive(s) ==
  \/ \E e \in Emails, p \in Passwords : Register(s, e, p) \/ Login(s, e, p)
  \/ \E c \in Cookies : Refresh(s, c)
  \/ \E c \in Cookies, old \in Passwords, new \in Passwords : ChangePassword(s, c, old, new)
  \/ \E i \in Identities, e \in Emails : OAuthCallback(s, i, e)

Advance(s) ==
  \/ CreateUserSnapshot(s) \/ CreateUser(s) \/ CreateUserWithRole(s)
  \/ GetPrimaryTeamID(s)
  \/ DropExpired(s) \/ DropSession(s)
  \/ UpdatePassword(s)
  \/ FindUserByEmail(s) \/ CreateOAuthUser(s) \/ LinkAccount(s)
  \/ IssueTokens(s)
=============================================================================
