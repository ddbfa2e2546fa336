----------------------------- MODULE Teams_proofs -----------------------------
(***************************************************************************)
(* Proofs about Teams: for any number of people, requests, teams,          *)
(* invitations and faults, the safety properties that the run checks on a  *)
(* small instance.                                                         *)
(***************************************************************************)
EXTENDS Teams, TLAPS

-----------------------------------------------------------------------------
(***************************************************************************)
(* The inductive invariant: what a request has read before its next        *)
(* statement is still so, whatever the others have done in between.        *)
(***************************************************************************)
WithUser       == {"create", "insert", "insert_again", "primary_team", "drop_session",
                   "update_password", "find_email", "create_oauth", "link", "issue",
                   "insert_token", "accept", "check_password", "join"}
WithRole       == {"insert", "primary_team", "drop_session", "link", "issue", "accept",
                   "check_password", "join"}
WithPassword   == {"create", "insert", "insert_again", "update_password", "accept"}
WithInvitation == {"accept", "check_password", "join"}
WithTeam       == WithInvitation \cup {"insert_token", "delete_team"}
WithIdentity   == {"find_email", "create_oauth", "link"}
NoTeamYet      == {"create", "insert", "insert_again", "primary_team", "drop_session",
                   "find_email", "create_oauth", "link"}

\* A request whose next statement finds filled in what it uses.
FilledIn(r) ==
  /\ r \in Requests
  /\ r.at \in WithUser => r.who \in Emails
  /\ r.at \in WithRole => r.role \in Roles
  /\ r.at \in WithPassword => r.password \in Passwords
  /\ r.at \in WithTeam => r.team \in Teams
  /\ r.at \in WithInvitation => r.via \in Invitations
  /\ r.at \in WithIdentity => r.via \in Identities
  /\ r.at \in {"create", "insert", "insert_again", "primary_team"} => r.via = None
  /\ r.at = "issue" => r.via \in Identities \cup {None}
  /\ r.at \in NoTeamYet => r.team = None

\* The role that was read is the role of the user's row, and there is a row to
\* write the new password to.
RoleIsRead(r) ==
  /\ r.at \in {"primary_team", "drop_session", "link", "issue"} => users[r.who].role = r.role
  /\ r.at = "update_password" => Exists(r.who)

\* A session that is about to be dropped has been issued.
SessionIsRead(r) ==
  r.at \in {"drop_session", "drop_expired"} => r.via \in Cookies /\ session[r.via] # "unissued"

LinkIsRead(r) == r.at = "issue" /\ r.via \in Identities => links[r.via] = r.who

Somebody == \E e \in Emails : Exists(e)

\* Who asked for 'owner' and met the index found an owner; who asks for
\* 'maintainer' found a user, and who accepts an invitation its inviter.
OwnerIsRead(r) ==
  /\ r.at = "insert_again" => OwnerExists
  /\ r.at = "insert" => r.role = "owner" \/ Somebody
  /\ r.at = "accept" => Somebody

\* A request that accepts an invitation holds what the row says.
InvitationIsRead(r) ==
  r.at \in WithInvitation =>
    /\ inv[r.via].state # "unused"
    /\ inv[r.via].team = r.team /\ inv[r.via].email = r.who /\ inv[r.via].role = r.role

\* The user e belongs to the team t, unless it has been deleted.
BelongsTo(e, t) ==
  t \in Teams => teams[t] = "deleted" \/ (Present(t) /\ members[t][e] # None)

TeamIsRead(r) ==
  /\ r.at \in {"issue", "insert_token"} => BelongsTo(r.who, r.team)
  /\ r.at = "insert_token" => Somebody

Current(r) == /\ RoleIsRead(r) /\ SessionIsRead(r) /\ LinkIsRead(r)
              /\ OwnerIsRead(r) /\ InvitationIsRead(r) /\ TeamIsRead(r)

UpToDate(r) == FilledIn(r) /\ Current(r)

\* What the tables say on their own.
IssuedOK == \A c \in Cookies : session[c] # "unissued" => claims[c] \in Claims

UnissuedSayNothing ==
  \A c \in Cookies : session[c] = "unissued" => claims[c].via \notin Identities

ClaimsBelong ==
  \A c \in Cookies : session[c] # "unissued" => BelongsTo(claims[c].user, claims[c].team)

LinkedExist == \A i \in Identities : links[i] # None => Exists(links[i])

\* Nobody is invited, or gets an API token, before there is a user.
SomebodyActed ==
  /\ \A i \in Invitations : inv[i].state # "unused" => Somebody
  /\ \A k \in Tokens : tokens[k].state # "unused" => Somebody

Tables == /\ TypeOK /\ IssuedOK /\ UnissuedSayNothing /\ ClaimsMatchUser /\ ClaimsBelong
          /\ SignedInAsLinked /\ LinkedExist /\ SomebodyActed /\ OneOwner /\ TeamsAreWhole

IInv == Tables /\ \A s \in Slots : UpToDate(req[s])

-----------------------------------------------------------------------------
\* Which actions write a table.
UserWriter(s)   == \/ CreateUser(s) \/ CreateUserWithRole(s) \/ UpdatePassword(s)
                   \/ CreateOAuthUser(s) \/ AcceptInvitation(s)
SessionWriter   == \/ \E s \in Slots : DropExpired(s) \/ DropSession(s) \/ IssueTokens(s)
                   \/ \E c \in Cookies : Logout(c)
MemberWriter    == \/ \E s \in Slots : DeleteTeam(s) \/ AcceptInvitation(s) \/ AddTeamMembership(s)
                   \/ \E cl \in PresentedClaims : CreateTeam(cl)
InviteWriter    == \/ \E s \in Slots : DeleteTeam(s) \/ AcceptInvitation(s) \/ AddTeamMembership(s)
                   \/ \E s \in Slots, cl \in PresentedClaims, t \in Teams, e \in Emails :
                        \E role \in Roles : Invite(s, cl, t, e, role)
                   \/ \E cl \in PresentedClaims, t \in Teams, i \in Invitations : Revoke(cl, t, i)
TokenWriter(s)  == DeleteTeam(s) \/ InsertToken(s) \/ RemoveToken(s)

OnlyWriters ==
  /\ users' # users => \E s \in Slots : UserWriter(s)
  /\ links' # links => \E s \in Slots : LinkAccount(s)
  /\ claims' # claims => \E s \in Slots : IssueTokens(s)
  /\ session' # session => SessionWriter
  /\ members' # members => MemberWriter
  /\ teams' # teams => \/ \E s \in Slots : DeleteTeam(s)
                       \/ \E cl \in PresentedClaims : CreateTeam(cl)
  /\ inv' # inv => InviteWriter
  /\ tokens' # tokens => \E s \in Slots : TokenWriter(s)

(* Only those do. *)
LEMMA WritersKnown ==
  ASSUME [Next]_vars
  PROVE  OnlyWriters
<1> USE DEF OnlyWriters, UserWriter, SessionWriter, MemberWriter, InviteWriter, TokenWriter,
            tvars, avars, Answer
<1>1. ASSUME NEW s \in Slots, Arrive(s), UNCHANGED tvars PROVE OnlyWriters
  <2>1. ASSUME NEW e \in Emails, NEW p \in Passwords, Register(s, e, p) PROVE OnlyWriters
    BY <1>1, <2>1 DEF Register
  <2>2. ASSUME NEW e \in Emails, NEW p \in Passwords, Login(s, e, p) PROVE OnlyWriters
    BY <1>1, <2>2 DEF Login
  <2>3. ASSUME NEW c \in Cookies, Refresh(s, c) PROVE OnlyWriters
    BY <1>1, <2>3 DEF Refresh
  <2>4. ASSUME NEW c \in Cookies, NEW old \in Passwords, NEW new \in Passwords,
               ChangePassword(s, c, old, new)
        PROVE OnlyWriters
    BY <1>1, <2>4 DEF ChangePassword
  <2>5. ASSUME NEW i \in Identities, NEW e \in Emails, OAuthCallback(s, i, e)
        PROVE OnlyWriters
    BY <1>1, <2>5 DEF OAuthCallback
  <2> QED BY <1>1, <2>1, <2>2, <2>3, <2>4, <2>5 DEF Arrive
<1>2. ASSUME NEW s \in Slots, Advance(s), UNCHANGED tvars PROVE OnlyWriters
  <2>1. CASE CreateUserSnapshot(s)
    BY <1>2, <2>1 DEF CreateUserSnapshot
  <2>2. CASE CreateUser(s)
    BY <1>2, <2>2 DEF CreateUser, InsertUser
  <2>3. CASE CreateUserWithRole(s)
    BY <1>2, <2>3 DEF CreateUserWithRole, InsertUser
  <2>4. CASE GetPrimaryTeamID(s)
    BY <1>2, <2>4 DEF GetPrimaryTeamID
  <2>5. CASE DropExpired(s)
    BY <1>2, <2>5 DEF DropExpired
  <2>6. CASE DropSession(s)
    BY <1>2, <2>6 DEF DropSession
  <2>7. CASE UpdatePassword(s)
    BY <1>2, <2>7 DEF UpdatePassword
  <2>8. CASE FindUserByEmail(s)
    BY <1>2, <2>8 DEF FindUserByEmail
  <2>9. CASE CreateOAuthUser(s)
    BY <1>2, <2>9 DEF CreateOAuthUser, InsertUser
  <2>10. CASE LinkAccount(s)
    BY <1>2, <2>10 DEF LinkAccount
  <2>11. CASE IssueTokens(s)
    BY <1>2, <2>11 DEF IssueTokens, StoreSession
  <2> QED BY <1>2, <2>1, <2>2, <2>3, <2>4, <2>5, <2>6, <2>7, <2>8, <2>9, <2>10, <2>11 DEF Advance
<1>3. ASSUME NEW s \in Slots, TeamStep(s) PROVE OnlyWriters
  <2>1. CASE DeleteTeam(s)
    BY <1>3, <2>1 DEF DeleteTeam
  <2>2. CASE InsertToken(s)
    BY <1>3, <2>2 DEF InsertToken
  <2>3. CASE RemoveToken(s)
    BY <1>3, <2>3 DEF RemoveToken
  <2>4. CASE SendInvitation(s)
    BY <1>3, <2>4 DEF SendInvitation
  <2>5. CASE AcceptInvitation(s)
    BY <1>3, <2>5 DEF AcceptInvitation, InsertUser, JoinTeam
  <2>6. CASE VerifyExistingUser(s)
    BY <1>3, <2>6 DEF VerifyExistingUser
  <2>7. CASE AddTeamMembership(s)
    BY <1>3, <2>7 DEF AddTeamMembership, JoinTeam
  <2> QED BY <1>3, <2>1, <2>2, <2>3, <2>4, <2>5, <2>6, <2>7 DEF TeamStep
<1>4. ASSUME NEW s \in Slots, TeamRequest(s) PROVE OnlyWriters
  <2>1. ASSUME NEW cl \in PresentedClaims, NEW t \in Teams, Delete(s, cl,
               t) \/ CreateToken(s, cl, t)
        PROVE OnlyWriters
    BY <1>4, <2>1 DEF Delete, CreateToken, TeamOwnerOnly
  <2>2. ASSUME NEW cl \in PresentedClaims, NEW t \in Teams, NEW k \in Tokens,
               DeleteToken(s, cl, t, k)
        PROVE OnlyWriters
    BY <1>4, <2>2 DEF DeleteToken, TeamOwnerOnly
  <2>3. ASSUME NEW cl \in PresentedClaims, NEW t \in Teams, NEW e \in Emails,
               NEW role \in Roles, Invite(s, cl, t, e, role)
        PROVE OnlyWriters
    BY <1>4, <2>3 DEF Invite
  <2>4. ASSUME NEW i \in Invitations, NEW p \in Passwords, Accept(s, i, p)
        PROVE OnlyWriters
    BY <1>4, <2>4 DEF Accept
  <2> QED BY <1>4, <2>1, <2>2, <2>3, <2>4 DEF TeamRequest
<1>5. ASSUME NEW s \in Slots, FailedStatement(s), UNCHANGED tvars, faults' = faults + 1
      PROVE OnlyWriters
  BY <1>5 DEF FailedStatement
<1>6. ASSUME Crash, UNCHANGED tvars, faults' = faults + 1 PROVE OnlyWriters
  BY <1>6 DEF Crash
<1>7. ASSUME NEW c \in Cookies, Logout(c), UNCHANGED tvars PROVE OnlyWriters
  BY <1>7 DEF Logout
<1>8. ASSUME NEW cl \in PresentedClaims, CreateTeam(cl) PROVE OnlyWriters
  BY <1>8 DEF CreateTeam
<1>9. ASSUME NEW cl \in PresentedClaims, NEW t \in Teams, NEW i \in Invitations,
             Revoke(cl, t, i)
      PROVE OnlyWriters
  BY <1>9 DEF Revoke
<1>10. CASE UNCHANGED vars
  BY <1>10 DEF vars
<1> HIDE DEF OnlyWriters, UserWriter, SessionWriter, MemberWriter, InviteWriter, TokenWriter,
             tvars, avars, Answer
<1> QED
  BY <1>1, <1>2, <1>3, <1>4, <1>5, <1>6, <1>7, <1>8, <1>9, <1>10
     DEF Next, Request, Step, AtOnce, Fault

\* A request moves by an action of its own, or is over with the process.
Moves(q) ==
  \/ req'[q] = req[q]
  \/ req'[q] = Idle /\ faults' = faults + 1
  \/ Arrive(q) \/ Advance(q) \/ TeamStep(q) \/ TeamRequest(q)
  \/ FailedStatement(q) /\ faults' = faults + 1

(* Nothing else moves it, and the requests stay a function of the slots. *)
LEMMA OnlyOwnMoves ==
  ASSUME req \in [Slots -> Requests], NEW q, [Next]_vars
  PROVE  req' = [z \in Slots |-> req'[z]] /\ (q \in Slots => Moves(q))
<1> USE DEF Moves, Begin, Go, Answer, TeamOwnerOnly, tvars, avars
<1>1. ASSUME NEW s \in Slots, Arrive(s), UNCHANGED tvars
      PROVE req' = [z \in Slots |-> req'[z]] /\ (q \in Slots => Moves(q))
  <2>1. ASSUME NEW e \in Emails, NEW p \in Passwords, Register(s, e, p)
        PROVE req' = [z \in Slots |-> req'[z]] /\ (q \in Slots => Moves(q))
    BY <1>1, <2>1 DEF Register
  <2>2. ASSUME NEW e \in Emails, NEW p \in Passwords, Login(s, e, p)
        PROVE req' = [z \in Slots |-> req'[z]] /\ (q \in Slots => Moves(q))
    BY <1>1, <2>2 DEF Login
  <2>3. ASSUME NEW c \in Cookies, Refresh(s, c)
        PROVE req' = [z \in Slots |-> req'[z]] /\ (q \in Slots => Moves(q))
    BY <1>1, <2>3 DEF Refresh
  <2>4. ASSUME NEW c \in Cookies, NEW old \in Passwords, NEW new \in Passwords,
               ChangePassword(s, c, old, new)
        PROVE req' = [z \in Slots |-> req'[z]] /\ (q \in Slots => Moves(q))
    BY <1>1, <2>4 DEF ChangePassword
  <2>5. ASSUME NEW i \in Identities, NEW e \in Emails, OAuthCallback(s, i, e)
        PROVE req' = [z \in Slots |-> req'[z]] /\ (q \in Slots => Moves(q))
    BY <1>1, <2>5 DEF OAuthCallback
  <2> QED BY <1>1, <2>1, <2>2, <2>3, <2>4, <2>5 DEF Arrive
<1>2. ASSUME NEW s \in Slots, Advance(s), UNCHANGED tvars
      PROVE req' = [z \in Slots |-> req'[z]] /\ (q \in Slots => Moves(q))
  <2>1. CASE CreateUserSnapshot(s)
    BY <1>2, <2>1 DEF CreateUserSnapshot
  <2>2. CASE CreateUser(s)
    BY <1>2, <2>2 DEF CreateUser, InsertUser
  <2>3. CASE CreateUserWithRole(s)
    BY <1>2, <2>3 DEF CreateUserWithRole, InsertUser
  <2>4. CASE GetPrimaryTeamID(s)
    BY <1>2, <2>4 DEF GetPrimaryTeamID
  <2>5. CASE DropExpired(s)
    BY <1>2, <2>5 DEF DropExpired
  <2>6. CASE DropSession(s)
    BY <1>2, <2>6 DEF DropSession
  <2>7. CASE UpdatePassword(s)
    BY <1>2, <2>7 DEF UpdatePassword
  <2>8. CASE FindUserByEmail(s)
    BY <1>2, <2>8 DEF FindUserByEmail
  <2>9. CASE CreateOAuthUser(s)
    BY <1>2, <2>9 DEF CreateOAuthUser, InsertUser
  <2>10. CASE LinkAccount(s)
    BY <1>2, <2>10 DEF LinkAccount
  <2>11. CASE IssueTokens(s)
    BY <1>2, <2>11 DEF IssueTokens, StoreSession
  <2> QED BY <1>2, <2>1, <2>2, <2>3, <2>4, <2>5, <2>6, <2>7, <2>8, <2>9, <2>10, <2>11 DEF Advance
<1>3. ASSUME NEW s \in Slots, TeamStep(s)
      PROVE req' = [z \in Slots |-> req'[z]] /\ (q \in Slots => Moves(q))
  <2>1. CASE DeleteTeam(s)
    BY <1>3, <2>1 DEF DeleteTeam
  <2>2. CASE InsertToken(s)
    BY <1>3, <2>2 DEF InsertToken
  <2>3. CASE RemoveToken(s)
    BY <1>3, <2>3 DEF RemoveToken
  <2>4. CASE SendInvitation(s)
    BY <1>3, <2>4 DEF SendInvitation
  <2>5. CASE AcceptInvitation(s)
    BY <1>3, <2>5 DEF AcceptInvitation, InsertUser, JoinTeam
  <2>6. CASE VerifyExistingUser(s)
    BY <1>3, <2>6 DEF VerifyExistingUser
  <2>7. CASE AddTeamMembership(s)
    BY <1>3, <2>7 DEF AddTeamMembership, JoinTeam
  <2> QED BY <1>3, <2>1, <2>2, <2>3, <2>4, <2>5, <2>6, <2>7 DEF TeamStep
<1>4. ASSUME NEW s \in Slots, TeamRequest(s)
      PROVE req' = [z \in Slots |-> req'[z]] /\ (q \in Slots => Moves(q))
  <2>1. ASSUME NEW cl \in PresentedClaims, NEW t \in Teams, Delete(s, cl,
               t) \/ CreateToken(s, cl, t)
        PROVE req' = [z \in Slots |-> req'[z]] /\ (q \in Slots => Moves(q))
    BY <1>4, <2>1 DEF Delete, CreateToken, TeamOwnerOnly
  <2>2. ASSUME NEW cl \in PresentedClaims, NEW t \in Teams, NEW k \in Tokens,
               DeleteToken(s, cl, t, k)
        PROVE req' = [z \in Slots |-> req'[z]] /\ (q \in Slots => Moves(q))
    BY <1>4, <2>2 DEF DeleteToken, TeamOwnerOnly
  <2>3. ASSUME NEW cl \in PresentedClaims, NEW t \in Teams, NEW e \in Emails,
               NEW role \in Roles, Invite(s, cl, t, e, role)
        PROVE req' = [z \in Slots |-> req'[z]] /\ (q \in Slots => Moves(q))
    BY <1>4, <2>3 DEF Invite
  <2>4. ASSUME NEW i \in Invitations, NEW p \in Passwords, Accept(s, i, p)
        PROVE req' = [z \in Slots |-> req'[z]] /\ (q \in Slots => Moves(q))
    BY <1>4, <2>4 DEF Accept
  <2> QED BY <1>4, <2>1, <2>2, <2>3, <2>4 DEF TeamRequest
<1>5. ASSUME NEW s \in Slots, FailedStatement(s), UNCHANGED tvars, faults' = faults + 1
      PROVE req' = [z \in Slots |-> req'[z]] /\ (q \in Slots => Moves(q))
  BY <1>5 DEF FailedStatement
<1>6. ASSUME Crash, UNCHANGED tvars, faults' = faults + 1
      PROVE req' = [z \in Slots |-> req'[z]] /\ (q \in Slots => Moves(q))
  BY <1>6 DEF Crash
<1>7. ASSUME NEW c \in Cookies, Logout(c), UNCHANGED tvars
      PROVE req' = [p \in Slots |-> req'[p]] /\ (q \in Slots => Moves(q))
  BY <1>7 DEF Logout
<1>8. ASSUME NEW cl \in PresentedClaims, CreateTeam(cl)
      PROVE req' = [p \in Slots |-> req'[p]] /\ (q \in Slots => Moves(q))
  BY <1>8 DEF CreateTeam
<1>9. ASSUME NEW cl \in PresentedClaims, NEW t \in Teams, NEW i \in Invitations,
             Revoke(cl, t, i)
      PROVE req' = [p \in Slots |-> req'[p]] /\ (q \in Slots => Moves(q))
  BY <1>9 DEF Revoke
<1>10. CASE UNCHANGED vars
  BY <1>10 DEF vars
<1> HIDE DEF Moves, Begin, Go, Answer, TeamOwnerOnly, tvars, avars
<1> QED
  BY <1>1, <1>2, <1>3, <1>4, <1>5, <1>6, <1>7, <1>8, <1>9, <1>10
     DEF Next, Request, Step, AtOnce, Fault

-----------------------------------------------------------------------------
(***************************************************************************)
(* The tables, one after the other.                                        *)
(***************************************************************************)
PasswordSet(e, p) == Exists(e) /\ users' = [users EXCEPT ![e].password = p]

UserAdded(e, row) ==
  /\ ~Exists(e)
  /\ users' = [users EXCEPT ![e] = row]
  /\ row.role = "owner" => ~OwnerExists
  /\ row.role # "owner" /\ row.origin # "oauth" => Somebody

\* A user's row is inserted once and then changes its password only.
LEMMA UsersStep ==
  ASSUME IInv, [Next]_vars
  PROVE  \/ users' = users
         \/ \E e \in Emails, p \in Passwords : PasswordSet(e, p)
         \/ \E e \in Emails, row \in Users : UserAdded(e, row)
<1> DEFINE Goal == \/ users' = users
                   \/ \E e \in Emails, p \in Passwords : PasswordSet(e, p)
                   \/ \E e \in Emails, row \in Users : UserAdded(e, row)
<1> SUFFICES ASSUME NEW s \in Slots, UserWriter(s) PROVE Goal
  BY WritersKnown DEF OnlyWriters
<1>1. UpToDate(req[s])
  BY DEF IInv
<1> USE DEF UpToDate, Current, FilledIn, WithUser, WithRole, WithPassword, At
<1>2. CASE CreateUser(s)
  <2>1. CASE users' # users
    <3> DEFINE row == [role |-> req[s].role, password |-> req[s].password, origin |-> "register"]
    <3>1. req[s].at = "insert" /\ req[s].who \in Emails /\ row \in Users
      BY <1>1, <1>2 DEF CreateUser, Users, Origins
    <3>2. UserAdded(req[s].who, row)
      BY <1>1, <1>2, <2>1, <3>1 DEF CreateUser, InsertUser, UserAdded, OwnerTaken, OwnerIsRead
    <3> QED BY <3>1, <3>2
  <2> QED BY <2>1
<1>3. CASE CreateUserWithRole(s)
  <2>1. CASE users' # users
    <3> DEFINE row == [role |-> "maintainer", password |-> req[s].password, origin |-> "register"]
    <3>1. req[s].at = "insert_again" /\ req[s].who \in Emails /\ row \in Users
      BY <1>1, <1>3 DEF CreateUserWithRole, Users, Roles, Origins
    <3>2. Somebody
      BY <1>1, <3>1, NoneIsNoRole DEF OwnerIsRead, OwnerExists, Somebody, Exists, Roles
    <3>3. UserAdded(req[s].who, row)
      BY <1>3, <2>1, <3>1, <3>2 DEF CreateUserWithRole, InsertUser, UserAdded
    <3> QED BY <3>1, <3>3
  <2> QED BY <2>1
<1>4. CASE UpdatePassword(s)
  BY <1>1, <1>4 DEF UpdatePassword, PasswordSet, RoleIsRead
<1>5. CASE CreateOAuthUser(s)
  <2>1. CASE users' # users
    <3> DEFINE row == [role |-> "maintainer", password |-> None, origin |-> "oauth"]
    <3>1. req[s].who \in Emails /\ row \in Users
      BY <1>1, <1>5 DEF CreateOAuthUser, Users, Roles, Origins
    <3>2. UserAdded(req[s].who, row)
      BY <1>5, <2>1, <3>1 DEF CreateOAuthUser, InsertUser, UserAdded
    <3> QED BY <3>1, <3>2
  <2> QED BY <2>1
<1>6. CASE AcceptInvitation(s)
  <2>1. CASE users' # users
    <3> DEFINE row == [role |-> req[s].role, password |-> req[s].password, origin |-> "invite"]
    <3>1. req[s].at = "accept" /\ req[s].who \in Emails /\ row \in Users
      BY <1>1, <1>6 DEF AcceptInvitation, Users, Origins
    <3>2. UserAdded(req[s].who, row)
      BY <1>1, <1>6, <2>1, <3>1 DEF AcceptInvitation, InsertUser, UserAdded,
                                         OwnerTaken, OwnerIsRead
    <3> QED BY <3>1, <3>2
  <2> QED BY <2>1
<1> QED BY <1>2, <1>3, <1>4, <1>5, <1>6 DEF UserWriter

\* A user keeps the row and the role; there is one owner.
LEMMA UsersLast ==
  ASSUME IInv, [Next]_vars
  PROVE  /\ users' \in [Emails -> Users \cup {Nobody}]
         /\ \A e \in Emails : Exists(e) => Exists(e)' /\ users'[e].role = users[e].role
         /\ OneOwner'
<1>1. users \in [Emails -> Users \cup {Nobody}] /\ SingleOwner /\ FirstUserOwns
  BY DEF IInv, Tables, TypeOK, OneOwner
<1>2. \A e \in Emails : Exists(e) => users[e] \in Users
  BY <1>1 DEF Exists, Nobody
<1>3. \A row \in Users : row.role \in Roles /\ row.role # None
  BY NoneIsNoRole DEF Users
<1> USE DEF Exists, OneOwner, SingleOwner, FirstUserOwns, OwnerExists
<1>4. CASE users' = users
  BY <1>1, <1>4
<1>5. ASSUME NEW e \in Emails, NEW p \in Passwords, PasswordSet(e, p)
      PROVE  /\ users' \in [Emails -> Users \cup {Nobody}]
             /\ \A f \in Emails : users'[f].role = users[f].role
             /\ \A f \in Emails : users'[f].origin = users[f].origin
  <2>1. users[e] \in Users
    BY <1>2, <1>5 DEF PasswordSet
  <2>2. [users[e] EXCEPT !.password = p] \in Users
    BY <2>1 DEF Users
  <2>3. users' = [users EXCEPT ![e] = [users[e] EXCEPT !.password = p]]
    BY <1>5 DEF PasswordSet
  <2>4. /\ [users[e] EXCEPT !.password = p].role = users[e].role
        /\ [users[e] EXCEPT !.password = p].origin = users[e].origin
    BY <2>1 DEF Users
  <2> QED BY <1>1, <2>2, <2>3, <2>4
<1>6. ASSUME NEW e \in Emails, NEW row \in Users, UserAdded(e, row)
      PROVE  /\ users' \in [Emails -> Users \cup {Nobody}]
             /\ \A f \in Emails : users'[f] = IF f = e THEN row ELSE users[f]
  BY <1>1, <1>6 DEF UserAdded
<1>7. ASSUME NEW e \in Emails, NEW row \in Users, UserAdded(e, row) PROVE OneOwner'
  <2>1. SingleOwner'
    BY <1>1, <1>3, <1>6, <1>7 DEF UserAdded
  <2>2. FirstUserOwns'
    <3>1. CASE row.role = "owner"
      BY <1>6, <1>7, <3>1
    <3>2. CASE row.role # "owner" /\ row.origin # "oauth"
      <4> SUFFICES ASSUME \A f \in Emails : users'[f].origin # "oauth" PROVE OwnerExists'
        OBVIOUS
      <4>1. Somebody /\ users[e] = Nobody
        BY <1>1, <1>3, <1>7, <3>2 DEF UserAdded
      <4>2. \A f \in Emails : users[f].origin # "oauth"
        BY <1>6, <1>7, <4>1, NoneIsNoRole DEF Nobody, Origins
      <4>3. PICK o \in Emails : users[o].role = "owner"
        BY <1>1, <4>1, <4>2 DEF Somebody
      <4> QED BY <1>6, <1>7, <4>1, <4>3, NoneIsNoRole DEF Nobody, Roles
    <3>3. CASE row.origin = "oauth"
      BY <1>6, <1>7, <3>3
    <3> QED BY <3>1, <3>2, <3>3
  <2> QED BY <2>1, <2>2
<1>8. ASSUME NEW e \in Emails, NEW row \in Users, UserAdded(e, row), NEW f \in Emails, Exists(f)
      PROVE  Exists(f)' /\ users'[f].role = users[f].role
  BY <1>6, <1>8 DEF UserAdded
<1> QED BY <1>1, <1>4, <1>5, <1>6, <1>7, <1>8, UsersStep

\* Users are never deleted, and the owner stays the owner.
LEMMA SomebodyLasts ==
  ASSUME IInv, [Next]_vars
  PROVE  /\ Somebody => Somebody'
         /\ OwnerExists => OwnerExists'
BY UsersLast, NoneIsNoRole DEF Somebody, OwnerExists, Exists, Roles

\* A provider account is linked once, to a user that exists.
LEMMA LinksLast ==
  ASSUME IInv, [Next]_vars
  PROVE  /\ links' \in [Identities -> Emails \cup {None}]
         /\ \A i \in Identities : links[i] # None => links'[i] = links[i]
         /\ LinkedExist'
<1> USE DEF IInv, Tables, TypeOK, LinkedExist
<1>1. CASE links' = links
  BY <1>1, UsersLast
<1>2. ASSUME NEW s \in Slots, LinkAccount(s), links' # links
      PROVE  /\ req[s].who \in Emails /\ Exists(req[s].who)
             /\ links[req[s].via] = None
             /\ links' = [links EXCEPT ![req[s].via] = req[s].who]
  <2>1. req[s].at = "link" /\ req[s].who \in Emails /\ req[s].role \in Roles /\ RoleIsRead(req[s])
    BY <1>2 DEF LinkAccount, At, UpToDate, Current, FilledIn, WithUser, WithRole
  <2> QED BY <1>2, <2>1, NoneIsNoRole DEF LinkAccount, RoleIsRead, Exists
<1>3. ASSUME NEW s \in Slots, LinkAccount(s), links' # links
      PROVE  /\ links' \in [Identities -> Emails \cup {None}]
             /\ \A i \in Identities : links[i] # None => links'[i] = links[i]
             /\ LinkedExist'
  BY <1>2, <1>3, UsersLast
<1> QED BY <1>1, <1>3, WritersKnown DEF OnlyWriters

\* A session stays issued, with its claims; a new one says what the request read.
LEMMA SessionsStep ==
  ASSUME IInv, [Next]_vars
  PROVE  /\ session' \in [Cookies -> {"unissued", "live", "gone"}]
         /\ claims' \in [Cookies -> Claims \cup {NoClaims}]
         /\ \A c \in Cookies : session[c] # "unissued"
              => session'[c] # "unissued" /\ claims'[c] = claims[c]
         /\ \A c \in Cookies : session[c] = "unissued" /\ claims'[c] # claims[c]
              => session'[c] # "unissued"
         /\ \A c \in Cookies : session[c] = "unissued" /\ session'[c] # "unissued"
              => \E s \in Slots :
                   /\ req[s].at = "issue"
                   /\ claims'[c] = [user |-> req[s].who, role |-> req[s].role,
                                    team |-> req[s].team, via |-> req[s].via]
                   /\ claims'[c] \in Claims
                   /\ users' = users /\ links' = links
<1> DEFINE Goal(ss, cc) ==
      /\ ss \in [Cookies -> {"unissued", "live", "gone"}]
      /\ cc \in [Cookies -> Claims \cup {NoClaims}]
      /\ \A c \in Cookies : session[c] # "unissued"
           => ss[c] # "unissued" /\ cc[c] = claims[c]
      /\ \A c \in Cookies : session[c] = "unissued" /\ cc[c] # claims[c] => ss[c] # "unissued"
      /\ \A c \in Cookies : session[c] = "unissued" /\ ss[c] # "unissued"
           => \E s \in Slots :
                /\ req[s].at = "issue"
                /\ cc[c] = [user |-> req[s].who, role |-> req[s].role,
                            team |-> req[s].team, via |-> req[s].via]
                /\ cc[c] \in Claims
                /\ users' = users /\ links' = links
<1> SUFFICES Goal(session', claims')
  OBVIOUS
<1>1. /\ session \in [Cookies -> {"unissued", "live", "gone"}]
      /\ claims \in [Cookies -> Claims \cup {NoClaims}]
  BY DEF IInv, Tables, TypeOK
<1>2. CASE session' = session /\ claims' = claims
  BY <1>1, <1>2
<1>3. ASSUME NEW s \in Slots, DropExpired(s) \/ DropSession(s) PROVE Goal(session', claims')
  <2>1. /\ req[s].via \in Cookies /\ session[req[s].via] # "unissued"
        /\ session' = [session EXCEPT ![req[s].via] = "gone"] /\ claims' = claims
    BY <1>3 DEF DropExpired, DropSession, IInv, UpToDate, Current, SessionIsRead, At
  <2> QED BY <1>1, <2>1
<1>4. ASSUME NEW c \in Cookies, Logout(c) PROVE Goal(session', claims')
  <2>1. session[c] # "unissued" /\ session' = [session EXCEPT ![c] = "gone"] /\ claims' = claims
    BY <1>4 DEF Logout
  <2> QED BY <1>1, <2>1
<1>5. ASSUME NEW s \in Slots, IssueTokens(s) PROVE Goal(session', claims')
  <2> DEFINE cl == [user |-> req[s].who, role |-> req[s].role,
                    team |-> req[s].team, via |-> req[s].via]
  <2>1. PICK c \in Cookies : /\ session[c] = "unissued"
                             /\ session' = [session EXCEPT ![c] = "live"]
                             /\ claims' = [claims EXCEPT ![c] = cl]
    BY <1>5 DEF IssueTokens, StoreSession
  <2>2. req[s].at = "issue" /\ users' = users /\ links' = links
    BY <1>5 DEF IssueTokens, At
  <2>3. cl \in Claims
    BY <2>2 DEF IInv, UpToDate, FilledIn, WithUser, WithRole, Requests, Claims
  <2> HIDE DEF cl
  <2>4. /\ session' \in [Cookies -> {"unissued", "live", "gone"}]
        /\ claims' \in [Cookies -> Claims \cup {NoClaims}]
    BY <1>1, <2>1, <2>3
  <2>5. \A d \in Cookies : d # c => session'[d] = session[d] /\ claims'[d] = claims[d]
    BY <1>1, <2>1
  <2>6. session'[c] = "live" /\ claims'[c] = cl
    BY <1>1, <2>1
  <2>7. ASSUME NEW d \in Cookies, session[d] = "unissued", session'[d] # "unissued"
        PROVE  d = c
    BY <2>5, <2>7
  <2> QED BY <2>1, <2>2, <2>3, <2>4, <2>5, <2>6, <2>7 DEF cl
<1> HIDE DEF Goal
<1> QED BY <1>2, <1>3, <1>4, <1>5, WritersKnown DEF OnlyWriters, SessionWriter

\* A deleted team stays deleted, and nobody loses a team that is there.
LEMMA TeamsStep ==
  ASSUME IInv, [Next]_vars
  PROVE  /\ teams' \in [Teams -> {"unused", "present", "deleted"}]
         /\ members' \in [Teams -> [Emails -> Roles \cup {None}]]
         /\ \A e \in Emails, t \in Teams : BelongsTo(e, t) => BelongsTo(e, t)'
<1> DEFINE Goal == /\ teams' \in [Teams -> {"unused", "present", "deleted"}]
                   /\ members' \in [Teams -> [Emails -> Roles \cup {None}]]
                   /\ \A e \in Emails, t \in Teams : BelongsTo(e, t) => BelongsTo(e, t)'
<1>1. /\ teams \in [Teams -> {"unused", "present", "deleted"}]
      /\ members \in [Teams -> [Emails -> Roles \cup {None}]]
  BY DEF IInv, Tables, TypeOK
<1> USE DEF BelongsTo, Present
<1>2. CASE teams' = teams /\ members' = members
  BY <1>1, <1>2
<1>3. ASSUME NEW s \in Slots, DeleteTeam(s) PROVE Goal
  <2>1. teams' = [teams EXCEPT ![req[s].team] = "deleted"]
    BY <1>3 DEF DeleteTeam
  <2>2. members' = [members EXCEPT ![req[s].team] = [e \in Emails |-> None]]
    BY <1>3 DEF DeleteTeam
  <2>3. [e \in Emails |-> None] \in [Emails -> Roles \cup {None}]
    OBVIOUS
  <2> QED BY <1>1, <2>1, <2>2, <2>3
<1>4. ASSUME NEW s \in Slots, AcceptInvitation(s) \/ AddTeamMembership(s) PROVE Goal
  <2>1. req[s].role \in Roles
    BY <1>4 DEF AcceptInvitation, AddTeamMembership, At, IInv, UpToDate, FilledIn, WithRole
  <2>2. /\ teams' = teams
        /\ \/ members' = members
           \/ members' = [members EXCEPT ![req[s].team][req[s].who] = req[s].role]
    BY <1>4 DEF AcceptInvitation, AddTeamMembership, JoinTeam
  <2> QED BY <1>1, <2>1, <2>2, NoneIsNoRole
<1>5. ASSUME NEW cl \in PresentedClaims, CreateTeam(cl) PROVE Goal
  <2>1. PICK t \in Teams : /\ teams[t] = "unused"
                           /\ teams' = [teams EXCEPT ![t] = "present"]
                           /\ members' = [members EXCEPT ![t][cl.user] = "owner"]
    BY <1>5 DEF CreateTeam
  <2> QED BY <1>1, <2>1 DEF Roles
<1> QED BY <1>2, <1>3, <1>4, <1>5, WritersKnown DEF OnlyWriters, MemberWriter

\* Whoever presents claims is a user, of the team they name.
LEMMA PresentedBelong ==
  ASSUME IInv, NEW cl \in PresentedClaims
  PROVE  cl.user \in Emails /\ BelongsTo(cl.user, cl.team) /\ Somebody
<1>1. CASE cl \in IssuedClaims
  <2>1. PICK c \in Cookies : /\ session[c] # "unissued"
                             /\ cl.user = claims[c].user /\ cl.team = claims[c].team
    BY <1>1 DEF IssuedClaims
  <2>2. claims[c] \in Claims /\ users[claims[c].user].role = claims[c].role
        /\ BelongsTo(claims[c].user, claims[c].team)
    BY <2>1 DEF IInv, Tables, IssuedOK, ClaimsMatchUser, ClaimsBelong
  <2> QED BY <2>1, <2>2, NoneIsNoRole DEF Claims, Somebody, Exists
<1>2. ASSUME NEW k \in Tokens, cl \in Lookup(k)
      PROVE  cl.user \in Emails /\ BelongsTo(cl.user, cl.team) /\ Somebody
  <2>1. PICK t \in Teams : /\ tokens[k].state = "live" /\ tokens[k].team = t
                           /\ members[t][tokens[k].user] # None
                           /\ cl.user = tokens[k].user /\ cl.team = t
    BY <1>2 DEF Lookup
  <2>2. tokens[k].user \in Emails
    BY <2>1 DEF IInv, Tables, TypeOK, NoToken
  <2>3. Present(t)
    BY <2>1, <2>2 DEF IInv, Tables, TeamsAreWhole, NothingOutlivesTeam
  <2>4. Somebody
    BY <2>1 DEF IInv, Tables, SomebodyActed
  <2> QED BY <2>1, <2>2, <2>3, <2>4 DEF BelongsTo
<1> QED BY <1>1, <1>2 DEF PresentedClaims

InvitationRows == [state : {"pending", "accepted", "gone"}, team : Teams, email : Emails,
                   role : Roles, by : Emails]
TokenRows == [state : {"live", "gone"}, team : Teams, user : Emails]

SameInvitation(x, y) ==
  y.state # "unused" /\ y.team = x.team /\ y.email = x.email /\ y.role = x.role /\ y.by = x.by

\* An invitation that has been created has all its fields, whatever its state.
LEMMA InvitationTyped ==
  ASSUME IInv
  PROVE  /\ inv \in [Invitations -> InvitationRows \cup {NoInvitation}]
         /\ \A i \in Invitations : inv[i].state # "unused" => inv[i] \in InvitationRows
         /\ \A i \in Invitations : inv[i].team \in Teams => inv[i] \in InvitationRows
         /\ \A row \in InvitationRows : row.state # "unused"
         /\ \A row \in InvitationRows, st \in {"pending", "accepted", "gone"} :
              /\ [row EXCEPT !.state = st] \in InvitationRows
              /\ SameInvitation(row, [row EXCEPT !.state = st])
<1>1. inv \in [Invitations -> InvitationRows \cup {NoInvitation}]
  BY DEF IInv, Tables, TypeOK, InvitationRows
<1>2. \A row \in InvitationRows : row.state # "unused"
  BY DEF InvitationRows
<1>3. \A row \in InvitationRows, st \in {"pending", "accepted", "gone"} :
        /\ [row EXCEPT !.state = st] \in InvitationRows
        /\ SameInvitation(row, [row EXCEPT !.state = st])
  BY DEF InvitationRows, SameInvitation
<1>4. NoInvitation.state = "unused" /\ NoInvitation.team \notin Teams
  BY AccountsAssumption DEF NoInvitation
<1> QED BY <1>1, <1>2, <1>3, <1>4

\* Whoever acts on an invitation that is accepted has read it.
LEMMA JoinsAsInvited ==
  ASSUME IInv, NEW s \in Slots, AcceptInvitation(s) \/ AddTeamMembership(s),
         inv' # inv \/ members' # members
  PROVE  /\ req[s].via \in Invitations /\ inv[req[s].via].state # "unused"
         /\ inv[req[s].via].team = req[s].team /\ inv[req[s].via].email = req[s].who
         /\ inv[req[s].via].role = req[s].role
         /\ req[s].team \in Teams /\ req[s].who \in Emails /\ req[s].role \in Roles
         /\ Present(req[s].team) /\ teams' = teams /\ tokens' = tokens
         /\ members' = [members EXCEPT ![req[s].team][req[s].who] = req[s].role]
         /\ inv' = [inv EXCEPT ![req[s].via].state = IF @ = "pending" THEN "accepted" ELSE @]
<1>1. req[s].at \in {"accept", "join"}
  BY DEF AcceptInvitation, AddTeamMembership, At
<1>2. UpToDate(req[s])
  BY DEF IInv
<1>3. /\ FilledIn(req[s]) /\ InvitationIsRead(req[s])
  BY <1>2 DEF UpToDate, Current
<1>4. /\ Present(req[s].team) /\ teams' = teams /\ tokens' = tokens
      /\ members' = [members EXCEPT ![req[s].team][req[s].who] = req[s].role]
      /\ inv' = [inv EXCEPT ![req[s].via].state = IF @ = "pending" THEN "accepted" ELSE @]
  BY DEF AcceptInvitation, AddTeamMembership, JoinTeam, tvars
<1> QED
  BY <1>1, <1>3, <1>4 DEF FilledIn, WithInvitation, WithUser, WithRole, WithTeam, InvitationIsRead

\* Accepting an invitation changes its state only, and that to "accepted".
LEMMA JoinKeepsInvitations ==
  ASSUME IInv, NEW v \in Invitations, inv[v].state # "unused",
         inv' = [inv EXCEPT ![v].state = IF @ = "pending" THEN "accepted" ELSE @]
  PROVE  /\ inv' \in [Invitations -> InvitationRows \cup {NoInvitation}]
         /\ \A i \in Invitations : i # v => inv'[i] = inv[i]
         /\ SameInvitation(inv[v], inv'[v])
         /\ inv[v].state = "gone" => inv'[v].state = "gone"
<1> DEFINE st == IF inv[v].state = "pending" THEN "accepted" ELSE inv[v].state
<1>1. inv[v] \in InvitationRows
  BY InvitationTyped
<1>2. st \in {"pending", "accepted", "gone"}
  BY <1>1 DEF InvitationRows
<1>3. inv' = [inv EXCEPT ![v] = [inv[v] EXCEPT !.state = st]]
  BY InvitationTyped
<1>4. /\ [inv[v] EXCEPT !.state = st] \in InvitationRows
      /\ SameInvitation(inv[v], [inv[v] EXCEPT !.state = st])
  BY <1>1, <1>2, InvitationTyped
<1>5. [inv[v] EXCEPT !.state = st].state = st
  BY <1>1 DEF InvitationRows
<1> HIDE DEF st
<1>6. inv'[v] = [inv[v] EXCEPT !.state = st]
  BY <1>3, InvitationTyped
<1>7. inv[v].state = "gone" => st = "gone"
  BY DEF st
<1>8. inv' \in [Invitations -> InvitationRows \cup {NoInvitation}]
  BY <1>3, <1>4, InvitationTyped
<1>9. \A i \in Invitations : i # v => inv'[i] = inv[i]
  BY <1>3, InvitationTyped
<1> QED BY <1>4, <1>5, <1>6, <1>7, <1>8, <1>9

\* An invitation that has been created keeps everything but its state.
LEMMA InvitationsLast ==
  ASSUME IInv, [Next]_vars
  PROVE  /\ inv' \in [Invitations -> InvitationRows \cup {NoInvitation}]
         /\ \A i \in Invitations : inv[i].state # "unused" => SameInvitation(inv[i], inv'[i])
         /\ \A i \in Invitations : inv'[i].state # "unused" => Somebody'
<1> DEFINE Goal == /\ inv' \in [Invitations -> InvitationRows \cup {NoInvitation}]
                   /\ \A i \in Invitations :
                        inv[i].state # "unused" => SameInvitation(inv[i], inv'[i])
                   /\ \A i \in Invitations : inv'[i].state # "unused" => Somebody
<1> SUFFICES Goal
  BY SomebodyLasts
<1>1. \A i \in Invitations : inv[i].state # "unused" => Somebody
  BY DEF IInv, Tables, SomebodyActed
<1>2. CASE inv' = inv
  BY <1>1, <1>2, InvitationTyped DEF SameInvitation
<1>3. ASSUME NEW s \in Slots, DeleteTeam(s) PROVE Goal
  <2>1. req[s].team \in Teams
    BY <1>3 DEF DeleteTeam, At, IInv, UpToDate, FilledIn, WithTeam, WithInvitation
  <2>2. inv' = [i \in Invitations |->
                  IF inv[i].team = req[s].team THEN [inv[i] EXCEPT !.state = "gone"] ELSE inv[i]]
    BY <1>3 DEF DeleteTeam
  <2>3. \A i \in Invitations : inv[i].team = req[s].team => inv[i] \in InvitationRows
    BY <2>1, InvitationTyped
  <2>4. \A i \in Invitations : inv[i].team = req[s].team
          => /\ [inv[i] EXCEPT !.state = "gone"] \in InvitationRows
             /\ SameInvitation(inv[i], [inv[i] EXCEPT !.state = "gone"])
    BY <2>3, InvitationTyped
  <2>5. ASSUME NEW i \in Invitations
        PROVE  /\ inv'[i] \in InvitationRows \cup {NoInvitation}
               /\ inv[i].state # "unused" => SameInvitation(inv[i], inv'[i])
               /\ inv[i].state = "unused" => inv'[i].state = "unused"
    <3>1. CASE inv[i].team = req[s].team
      BY <2>2, <2>3, <2>4, <3>1, InvitationTyped
    <3>2. CASE inv[i].team # req[s].team
      BY <2>2, <3>2, InvitationTyped DEF SameInvitation
    <3> QED BY <3>1, <3>2
  <2>6. inv' = [i \in Invitations |-> inv'[i]]
    BY <2>2
  <2> QED BY <1>1, <2>5, <2>6
<1>4. ASSUME NEW s \in Slots, AcceptInvitation(s) \/ AddTeamMembership(s), inv' # inv PROVE Goal
  BY <1>1, <1>4, JoinsAsInvited, JoinKeepsInvitations DEF SameInvitation
<1>5. ASSUME NEW s \in Slots, NEW cl \in PresentedClaims, NEW t \in Teams, NEW e \in Emails,
             NEW role \in Roles, Invite(s, cl, t, e, role)
      PROVE  Goal
  <2> DEFINE row == [state |-> "pending", team |-> t, email |-> e, role |-> role, by |-> cl.user]
  <2>1. row \in InvitationRows /\ Somebody
    BY PresentedBelong DEF InvitationRows
  <2>2. PICK i \in Invitations : inv[i].state = "unused" /\ inv' = [inv EXCEPT ![i] = row]
    BY <1>5 DEF Invite
  <2> HIDE DEF row
  <2>3. inv' \in [Invitations -> InvitationRows \cup {NoInvitation}]
    BY <2>1, <2>2, InvitationTyped
  <2>4. \A j \in Invitations : j # i => inv'[j] = inv[j]
    BY <2>2, InvitationTyped
  <2> QED BY <1>1, <2>1, <2>2, <2>3, <2>4 DEF SameInvitation
<1>6. ASSUME NEW cl \in PresentedClaims, NEW t \in Teams, NEW i \in Invitations, Revoke(cl, t, i)
      PROVE  Goal
  <2>1. inv[i].state # "unused" /\ inv' = [inv EXCEPT ![i] = [inv[i] EXCEPT !.state = "gone"]]
    BY <1>6 DEF Revoke
  <2>2. /\ [inv[i] EXCEPT !.state = "gone"] \in InvitationRows
        /\ SameInvitation(inv[i], [inv[i] EXCEPT !.state = "gone"])
    BY <2>1, InvitationTyped
  <2>3. \A j \in Invitations : inv'[j] = IF j = i THEN [inv[i] EXCEPT !.state = "gone"] ELSE inv[j]
    BY <2>1, InvitationTyped
  <2>4. inv' \in [Invitations -> InvitationRows \cup {NoInvitation}]
    BY <2>1, <2>2, InvitationTyped
  <2> QED BY <1>1, <2>1, <2>2, <2>3, <2>4 DEF SameInvitation
<1> HIDE DEF Goal
<1> QED BY <1>2, <1>3, <1>4, <1>5, <1>6, WritersKnown DEF OnlyWriters, InviteWriter

\* A token, once created, names its team and its user for good.
LEMMA TokensStep ==
  ASSUME IInv, [Next]_vars
  PROVE  /\ tokens' \in [Tokens -> TokenRows \cup {NoToken}]
         /\ \A k \in Tokens : tokens'[k].state # "unused" => Somebody'
<1> DEFINE Goal == /\ tokens' \in [Tokens -> TokenRows \cup {NoToken}]
                   /\ \A k \in Tokens : tokens'[k].state # "unused" => Somebody
<1> SUFFICES Goal
  BY SomebodyLasts
<1>1. /\ tokens \in [Tokens -> TokenRows \cup {NoToken}]
      /\ \A k \in Tokens : tokens[k].state # "unused" => Somebody
  BY DEF IInv, Tables, TypeOK, TokenRows, SomebodyActed
<1>2. CASE tokens' = tokens
  BY <1>1, <1>2
<1>3. ASSUME NEW s \in Slots, DeleteTeam(s) PROVE Goal
  <2>1. req[s].team \in Teams
    BY <1>3 DEF DeleteTeam, At, IInv, UpToDate, FilledIn, WithTeam, WithInvitation
  <2>2. tokens' = [k \in Tokens |->
                     IF tokens[k].team = req[s].team
                       THEN [tokens[k] EXCEPT !.state = "gone"] ELSE tokens[k]]
    BY <1>3 DEF DeleteTeam
  <2>3. \A k \in Tokens : tokens[k].team = req[s].team
          => tokens[k].state # "unused" /\ [tokens[k] EXCEPT !.state = "gone"] \in TokenRows
    BY <1>1, <2>1, AccountsAssumption DEF TokenRows, NoToken
  <2> QED BY <1>1, <2>2, <2>3
<1>4. ASSUME NEW s \in Slots, InsertToken(s), tokens' # tokens PROVE Goal
  <2> DEFINE row == [state |-> "live", team |-> req[s].team, user |-> req[s].who]
  <2>1. row \in TokenRows /\ Somebody
    BY <1>4 DEF InsertToken, At, IInv, UpToDate, FilledIn, WithTeam, WithUser, WithInvitation,
                Current, TeamIsRead, TokenRows
  <2>2. PICK k \in Tokens : tokens' = [tokens EXCEPT ![k] = row]
    BY <1>4 DEF InsertToken
  <2> QED BY <1>1, <2>1, <2>2
<1>5. ASSUME NEW s \in Slots, RemoveToken(s), tokens' # tokens PROVE Goal
  <2> DEFINE k == req[s].via
  <2>1. /\ tokens[k].state = "live"
        /\ tokens' = [tokens EXCEPT ![k] = [tokens[k] EXCEPT !.state = "gone"]]
    BY <1>5 DEF RemoveToken
  <2>2. k \in Tokens => [tokens[k] EXCEPT !.state = "gone"] \in TokenRows
    BY <1>1, <2>1 DEF TokenRows, NoToken
  <2> HIDE DEF k
  <2> QED BY <1>1, <2>1, <2>2
<1> HIDE DEF Goal
<1> QED BY <1>2, <1>3, <1>4, <1>5, WritersKnown DEF OnlyWriters, TokenWriter

-----------------------------------------------------------------------------
(***************************************************************************)
(* The rows around a team agree.                                           *)
(***************************************************************************)
LEMMA TeamsStayWhole ==
  ASSUME IInv, [Next]_vars
  PROVE  TeamsAreWhole'
<1>1. /\ teams \in [Teams -> {"unused", "present", "deleted"}]
      /\ members \in [Teams -> [Emails -> Roles \cup {None}]]
      /\ inv \in [Invitations -> InvitationRows \cup {NoInvitation}]
      /\ tokens \in [Tokens -> TokenRows \cup {NoToken}]
      /\ TeamsAreWhole
  BY InvitationTyped DEF IInv, Tables, TypeOK, TokenRows
<1>2. /\ \A i \in Invitations : inv[i].state # "unused"
           => inv[i].team \in Teams /\ inv[i].email \in Emails /\ inv[i].by \in Emails
      /\ \A k \in Tokens : tokens[k].state # "unused"
           => tokens[k].team \in Teams /\ tokens[k].user \in Emails
      /\ \A t \in Teams : t # None
  BY <1>1, AccountsAssumption DEF InvitationRows, NoInvitation, TokenRows, NoToken
<1> USE DEF TeamsAreWhole, AcceptedMeansMember, NothingOutlivesTeam, ActsAsMember, Present
<1>3. CASE UNCHANGED <<teams, members, inv, tokens>>
  BY <1>1, <1>3
<1>4. ASSUME NEW s \in Slots, DeleteTeam(s) PROVE TeamsAreWhole'
  <2> DEFINE d == req[s].team
  <2>1. d \in Teams
    BY <1>4 DEF DeleteTeam, At, IInv, UpToDate, FilledIn, WithTeam, WithInvitation
  <2>2. /\ teams' = [teams EXCEPT ![d] = "deleted"]
        /\ members' = [members EXCEPT ![d] = [e \in Emails |-> None]]
        /\ inv' = [i \in Invitations |->
                     IF inv[i].team = d THEN [inv[i] EXCEPT !.state = "gone"] ELSE inv[i]]
        /\ tokens' = [k \in Tokens |->
                        IF tokens[k].team = d THEN [tokens[k] EXCEPT !.state = "gone"] ELSE tokens[k]]
    BY <1>4 DEF DeleteTeam
  <2> HIDE DEF d
  <2>3. \A t \in Teams :
          IF t = d THEN teams'[t] = "deleted" /\ \A e \in Emails : members'[t][e] = None
                   ELSE teams'[t] = teams[t] /\ members'[t] = members[t]
    BY <1>1, <2>1, <2>2
  <2>4. \A i \in Invitations : /\ inv[i].team # d => inv'[i] = inv[i]
                               /\ inv[i].team = d => inv'[i].state = "gone" /\ inv'[i].team = d
    BY <1>1, <2>1, <2>2, AccountsAssumption DEF InvitationRows, NoInvitation
  <2>5. \A k \in Tokens : /\ tokens[k].team # d => tokens'[k] = tokens[k]
                          /\ tokens[k].team = d => tokens'[k].state = "gone" /\ tokens'[k].team = d
    BY <1>1, <2>1, <2>2, AccountsAssumption DEF TokenRows, NoToken
  <2>6. AcceptedMeansMember'
    BY <1>1, <1>2, <2>3, <2>4
  <2>7. NothingOutlivesTeam'
    BY <1>1, <1>2, <2>3, <2>4, <2>5
  <2>8. ActsAsMember'
    BY <1>1, <1>2, <2>3, <2>4, <2>5
  <2> QED BY <2>6, <2>7, <2>8
<1>5. ASSUME NEW s \in Slots, AcceptInvitation(s) \/ AddTeamMembership(s),
             inv' # inv \/ members' # members
      PROVE  TeamsAreWhole'
  <2> DEFINE v == req[s].via
             t == req[s].team
             e == req[s].who
  <2>1. /\ v \in Invitations /\ inv[v].state # "unused" /\ inv[v].team = t /\ inv[v].email = e
        /\ t \in Teams /\ e \in Emails /\ Present(t) /\ teams' = teams /\ tokens' = tokens
        /\ members' = [members EXCEPT ![t][e] = req[s].role] /\ req[s].role # None
        /\ inv' = [inv EXCEPT ![v].state = IF @ = "pending" THEN "accepted" ELSE @]
    BY <1>5, JoinsAsInvited, NoneIsNoRole
  <2> HIDE DEF v, t, e
  <2>2. /\ members'[t][e] # None
        /\ \A u \in Teams, f \in Emails : members[u][f] # None => members'[u][f] # None
        /\ \A u \in Teams : u # t => members'[u] = members[u]
    BY <1>1, <2>1
  <2>3. /\ \A i \in Invitations : i # v => inv'[i] = inv[i]
        /\ SameInvitation(inv[v], inv'[v])
        /\ inv[v].state = "gone" => inv'[v].state = "gone"
    BY <2>1, JoinKeepsInvitations
  <2>4. inv[v].state \in {"pending", "accepted", "gone"}
    BY <1>1, <2>1 DEF InvitationRows, NoInvitation
  <2>5. AcceptedMeansMember'
    BY <1>1, <1>2, <2>1, <2>2, <2>3 DEF SameInvitation
  <2>6. NothingOutlivesTeam'
    BY <1>1, <1>2, <2>1, <2>2, <2>3 DEF SameInvitation
  <2>7. ActsAsMember'
    BY <1>1, <1>2, <2>1, <2>2, <2>3, <2>4 DEF SameInvitation
  <2> QED BY <2>5, <2>6, <2>7
<1>6. ASSUME NEW cl \in PresentedClaims, CreateTeam(cl) PROVE TeamsAreWhole'
  <2>1. PICK t \in Teams : /\ teams[t] = "unused" /\ teams' = [teams EXCEPT ![t] = "present"]
                           /\ members' = [members EXCEPT ![t][cl.user] = "owner"]
                           /\ inv' = inv /\ tokens' = tokens
    BY <1>6 DEF CreateTeam
  <2>2. /\ \A u \in Teams : u # t => teams'[u] = teams[u] /\ members'[u] = members[u]
        /\ teams'[t] = "present"
        /\ \A u \in Teams, f \in Emails : members[u][f] # None => members'[u][f] # None
    BY <1>1, <2>1, NoneIsNoRole DEF Roles
  <2> QED BY <1>1, <1>2, <2>1, <2>2
<1>7. ASSUME NEW s \in Slots, NEW cl \in PresentedClaims, NEW t \in Teams, NEW e \in Emails,
             NEW role \in Roles, Invite(s, cl, t, e, role)
      PROVE  TeamsAreWhole'
  <2> DEFINE row == [state |-> "pending", team |-> t, email |-> e, role |-> role, by |-> cl.user]
  <2>1. PICK i \in Invitations : inv[i].state = "unused" /\ inv' = [inv EXCEPT ![i] = row]
    BY <1>7 DEF Invite
  <2>2. teams' = teams /\ members' = members /\ tokens' = tokens /\ Present(t) /\ cl.team = t
    BY <1>7 DEF Invite, Authorized
  <2>3. members[t][cl.user] # None
    BY <2>2, PresentedBelong DEF BelongsTo
  <2>4. \A j \in Invitations : j # i => inv'[j] = inv[j]
    BY <1>1, <2>1
  <2>5. /\ inv'[i].state = "pending" /\ inv'[i].team = t /\ inv'[i].by = cl.user
    BY <1>1, <2>1
  <2> HIDE DEF row
  <2> QED BY <1>1, <1>2, <2>2, <2>3, <2>4, <2>5
<1>8. ASSUME NEW cl \in PresentedClaims, NEW t \in Teams, NEW i \in Invitations, Revoke(cl, t, i)
      PROVE  TeamsAreWhole'
  <2>1. /\ inv[i].state # "unused" /\ inv' = [inv EXCEPT ![i].state = "gone"]
        /\ teams' = teams /\ members' = members /\ tokens' = tokens
    BY <1>8 DEF Revoke, avars
  <2>2. /\ \A j \in Invitations : j # i => inv'[j] = inv[j]
        /\ inv'[i].state = "gone"
    BY <1>1, <2>1 DEF InvitationRows, NoInvitation
  <2> QED BY <1>1, <1>2, <2>1, <2>2
<1>9. ASSUME NEW s \in Slots, InsertToken(s), tokens' # tokens PROVE TeamsAreWhole'
  <2> DEFINE d == req[s].team
             row == [state |-> "live", team |-> d, user |-> req[s].who]
  <2>1. PICK k \in Tokens : tokens' = [tokens EXCEPT ![k] = row]
    BY <1>9 DEF InsertToken
  <2>2. Present(d) /\ teams' = teams /\ members' = members /\ inv' = inv
    BY <1>9 DEF InsertToken
  <2>3. d \in Teams /\ members[d][req[s].who] # None
    BY <1>9, <2>2 DEF InsertToken, At, IInv, UpToDate, FilledIn, WithTeam, WithInvitation,
                      Current, TeamIsRead, BelongsTo
  <2>4. \A j \in Tokens : j # k => tokens'[j] = tokens[j]
    BY <1>1, <2>1
  <2>5. tokens'[k].team = d /\ tokens'[k].user = req[s].who
    BY <1>1, <2>1
  <2> HIDE DEF row, d
  <2>6. AcceptedMeansMember'
    BY <1>1, <2>2
  <2>7. NothingOutlivesTeam'
    BY <1>1, <2>2, <2>4, <2>5
  <2>8. ActsAsMember'
    BY <1>1, <2>2, <2>3, <2>4, <2>5
  <2> QED BY <2>6, <2>7, <2>8
<1>10. ASSUME NEW s \in Slots, RemoveToken(s), tokens' # tokens PROVE TeamsAreWhole'
  <2> DEFINE k == req[s].via
  <2>1. /\ tokens[k].state = "live" /\ tokens' = [tokens EXCEPT ![k].state = "gone"]
        /\ teams' = teams /\ members' = members /\ inv' = inv
    BY <1>10 DEF RemoveToken
  <2> HIDE DEF k
  <2>2. \A j \in Tokens : /\ j # k => tokens'[j] = tokens[j]
                          /\ j = k => tokens'[j].state = "gone"
    BY <1>1, <2>1 DEF TokenRows, NoToken
  <2> QED BY <1>1, <1>2, <2>1, <2>2
<1>11. \A s \in Slots :
         /\ AcceptInvitation(s) \/ AddTeamMembership(s) => UNCHANGED <<teams, tokens>>
         /\ InsertToken(s) \/ RemoveToken(s) => UNCHANGED <<teams, members, inv>>
  BY DEF AcceptInvitation, AddTeamMembership, InsertToken, RemoveToken
<1> HIDE DEF TeamsAreWhole
<1> QED
  BY <1>3, <1>4, <1>5, <1>6, <1>7, <1>8, <1>9, <1>10, <1>11, WritersKnown
     DEF OnlyWriters, MemberWriter, InviteWriter, TokenWriter

-----------------------------------------------------------------------------
(***************************************************************************)
(* The requests: what one has read stays so, and what it has read once it  *)
(* has moved is so.                                                        *)
(***************************************************************************)
LEMMA StaysCurrent ==
  ASSUME IInv, [Next]_vars
  PROVE  \A r \in Requests : UpToDate(r) => Current(r)'
<1> TAKE r \in Requests
<1> HAVE UpToDate(r)
<1> USE DEF UpToDate, Current, FilledIn, WithUser, WithRole, WithInvitation
<1>1. RoleIsRead(r)'
  BY UsersLast, NoneIsNoRole DEF RoleIsRead, Exists
<1>2. SessionIsRead(r)'
  BY SessionsStep DEF SessionIsRead
<1>3. LinkIsRead(r)'
  BY LinksLast, AccountsAssumption DEF LinkIsRead
<1>4. OwnerIsRead(r)'
  BY SomebodyLasts DEF OwnerIsRead
<1>5. InvitationIsRead(r)'
  BY InvitationsLast DEF InvitationIsRead, SameInvitation
<1>6. TeamIsRead(r)'
  <2>1. ASSUME r.at \in {"issue", "insert_token"}, r.team \in Teams PROVE BelongsTo(r.who, r.team)'
    BY <2>1, TeamsStep DEF TeamIsRead
  <2>2. ASSUME r.team \notin Teams PROVE BelongsTo(r.who, r.team)'
    BY <2>2 DEF BelongsTo
  <2> QED BY <2>1, <2>2, SomebodyLasts DEF TeamIsRead
<1> QED BY <1>1, <1>2, <1>3, <1>4, <1>5, <1>6

\* So does what it has read, when a step writes nothing else it relies on.
LEMMA ReadIsKept ==
  ASSUME IInv, [Next]_vars, NEW s \in Slots, UpToDate(req'[s])
  PROVE  UpToDate(req[s])'
<1>1. FilledIn(req'[s]) /\ req'[s] \in Requests
  BY DEF UpToDate, FilledIn
<1>2. \A r \in Requests : UpToDate(r) => Current(r)'
  BY StaysCurrent
<1>3. Current(req[s])'
  BY <1>1, <1>2 DEF UpToDate, Current, RoleIsRead, SessionIsRead, LinkIsRead, OwnerIsRead,
                    InvitationIsRead, TeamIsRead, BelongsTo, Exists, Present
<1> QED BY <1>1, <1>3 DEF UpToDate, FilledIn

\* A slot without a request has read nothing.
LEMMA IdleUpToDate == UpToDate(Idle)
BY TeamsAssumption
   DEF UpToDate, FilledIn, Current, Idle, RoleIsRead, SessionIsRead, LinkIsRead, OwnerIsRead,
       InvitationIsRead, TeamIsRead, WithUser, WithRole, WithPassword, WithInvitation, WithTeam,
       WithIdentity, NoTeamYet, Requests, Positions

\* An account step leaves filled in what the next statement uses.
LEMMA AdvanceReads ==
  ASSUME IInv, NEW s \in Slots, Advance(s)
  PROVE  FilledIn(req'[s])
<1>1. req \in [Slots -> Requests] /\ users \in [Emails -> Users \cup {Nobody}] /\ FilledIn(req[s])
  BY DEF IInv, Tables, TypeOK, UpToDate
<1> USE DEF FilledIn, WithUser, WithRole, WithPassword, WithInvitation, WithTeam, WithIdentity,
            NoTeamYet, Requests, Positions, Roles, Go, Answer, At, Idle
<1> USE TeamsAssumption
<1>2. CASE CreateUserSnapshot(s)
  BY <1>1, <1>2 DEF CreateUserSnapshot
<1>3. CASE CreateUser(s)
  BY <1>1, <1>3 DEF CreateUser
<1>4. CASE CreateUserWithRole(s)
  BY <1>1, <1>4 DEF CreateUserWithRole
<1>5. CASE GetPrimaryTeamID(s)
  BY <1>1, <1>5 DEF GetPrimaryTeamID
<1>6. CASE DropExpired(s)
  BY <1>1, <1>6 DEF DropExpired
<1>7. CASE DropSession(s)
  BY <1>1, <1>7 DEF DropSession
<1>8. CASE UpdatePassword(s)
  BY <1>1, <1>8 DEF UpdatePassword
<1>9. CASE FindUserByEmail(s)
  BY <1>1, <1>9 DEF FindUserByEmail, Users, Nobody, Exists
<1>10. CASE CreateOAuthUser(s)
  BY <1>1, <1>10 DEF CreateOAuthUser
<1>11. CASE LinkAccount(s)
  BY <1>1, <1>11 DEF LinkAccount
<1>12. CASE IssueTokens(s)
  BY <1>1, <1>12 DEF IssueTokens
<1> QED BY <1>2, <1>3, <1>4, <1>5, <1>6, <1>7, <1>8, <1>9, <1>10, <1>11, <1>12 DEF Advance

\* So does a step of a team request.
LEMMA TeamStepReads ==
  ASSUME IInv, NEW s \in Slots, TeamStep(s)
  PROVE  FilledIn(req'[s])
<1>1. req \in [Slots -> Requests] /\ FilledIn(req[s])
  BY DEF IInv, Tables, TypeOK, UpToDate
<1> USE DEF FilledIn, WithUser, WithRole, WithPassword, WithInvitation, WithTeam, WithIdentity,
            NoTeamYet, Requests, Positions, Roles, Go, Answer, At, Idle
<1> USE TeamsAssumption
<1>2. CASE DeleteTeam(s)
  BY <1>1, <1>2 DEF DeleteTeam
<1>3. CASE InsertToken(s)
  BY <1>1, <1>3 DEF InsertToken
<1>4. CASE RemoveToken(s)
  BY <1>1, <1>4 DEF RemoveToken
<1>5. CASE SendInvitation(s)
  BY <1>1, <1>5 DEF SendInvitation
<1>6. CASE AcceptInvitation(s)
  BY <1>1, <1>6 DEF AcceptInvitation
<1>7. CASE VerifyExistingUser(s)
  BY <1>1, <1>7 DEF VerifyExistingUser
<1>8. CASE AddTeamMembership(s)
  BY <1>1, <1>8 DEF AddTeamMembership
<1> QED BY <1>2, <1>3, <1>4, <1>5, <1>6, <1>7, <1>8 DEF TeamStep

\* A request that has arrived.
Fresh(at, who, password, via, role, team) ==
  [at |-> at, who |-> who, password |-> password, via |-> via, role |-> role, team |-> team,
   tries |-> 0]

\* The requests about accounts, as they arrive.
LEMMA FreshUpToDate ==
  /\ \A e \in Emails, p \in Passwords : UpToDate(Fresh("create", e, p, None, None, None))
  /\ \A e \in Emails : users[e].role \in Roles
       => UpToDate(Fresh("primary_team", e, None, None, users[e].role, None))
  /\ \A e \in Emails, c \in Cookies : users[e].role \in Roles /\ session[c] # "unissued"
       => UpToDate(Fresh("drop_session", e, None, c, users[e].role, None))
  /\ \A c \in Cookies : session[c] # "unissued"
       => UpToDate(Fresh("drop_expired", None, None, c, None, None))
  /\ \A e \in Emails, p \in Passwords : Exists(e)
       => UpToDate(Fresh("update_password", e, p, None, None, None))
  /\ \A e \in Emails, i \in Identities : links[i] = e /\ users[e].role \in Roles
       => UpToDate(Fresh("issue", e, None, i, users[e].role, None))
  /\ \A e \in Emails, i \in Identities : UpToDate(Fresh("find_email", e, None, i, None, None))
  /\ UpToDate(Fresh("mail", None, None, None, None, None))
<1> USE TeamsAssumption, AccountsAssumption
<1> USE DEF UpToDate, FilledIn, WithUser, WithRole, WithPassword, WithInvitation, WithTeam,
            WithIdentity, NoTeamYet, Requests, Positions, Fresh, Current, RoleIsRead, SessionIsRead,
            LinkIsRead, OwnerIsRead, InvitationIsRead, TeamIsRead, BelongsTo
<1>1. \A e \in Emails, p \in Passwords : UpToDate(Fresh("create", e, p, None, None, None))
  OBVIOUS
<1>2. \A e \in Emails : users[e].role \in Roles
       => UpToDate(Fresh("primary_team", e, None, None, users[e].role, None))
  OBVIOUS
<1>3. \A e \in Emails, c \in Cookies : users[e].role \in Roles /\ session[c] # "unissued"
       => UpToDate(Fresh("drop_session", e, None, c, users[e].role, None))
  OBVIOUS
<1>4. \A c \in Cookies : session[c] # "unissued"
       => UpToDate(Fresh("drop_expired", None, None, c, None, None))
  OBVIOUS
<1>5. \A e \in Emails, p \in Passwords : Exists(e)
       => UpToDate(Fresh("update_password", e, p, None, None, None))
  OBVIOUS
<1>6. \A e \in Emails, i \in Identities : links[i] = e /\ users[e].role \in Roles
       => UpToDate(Fresh("issue", e, None, i, users[e].role, None))
  OBVIOUS
<1>7. \A e \in Emails, i \in Identities : UpToDate(Fresh("find_email", e, None, i, None, None))
  OBVIOUS
<1>8. UpToDate(Fresh("mail", None, None, None, None, None))
  OBVIOUS
<1> QED BY <1>1, <1>2, <1>3, <1>4, <1>5, <1>6, <1>7, <1>8

\* The requests about teams, as they arrive.
LEMMA FreshTeamUpToDate ==
  /\ \A e \in Emails, t \in Teams : UpToDate(Fresh("delete_team", e, None, None, None, t))
  /\ \A e \in Emails, t \in Teams : BelongsTo(e, t) /\ Somebody
       => UpToDate(Fresh("insert_token", e, None, None, None, t))
  /\ \A e \in Emails, t \in Teams, k \in Tokens :
       UpToDate(Fresh("delete_token", e, None, k, None, t))
  /\ \A p \in Passwords, i \in Invitations :
       /\ inv[i].state # "unused" /\ Somebody
       /\ inv[i].email \in Emails /\ inv[i].role \in Roles /\ inv[i].team \in Teams
       => UpToDate(Fresh("accept", inv[i].email, p, i, inv[i].role, inv[i].team))
<1> USE TeamsAssumption, AccountsAssumption
<1> USE DEF UpToDate, FilledIn, WithUser, WithRole, WithPassword, WithInvitation, WithTeam,
            WithIdentity, NoTeamYet, Requests, Positions, Fresh, Current, RoleIsRead, SessionIsRead,
            LinkIsRead, OwnerIsRead, InvitationIsRead, TeamIsRead
<1>1. \A e \in Emails, t \in Teams : UpToDate(Fresh("delete_team", e, None, None, None, t))
  OBVIOUS
<1>2. \A e \in Emails, t \in Teams : BelongsTo(e, t) /\ Somebody
       => UpToDate(Fresh("insert_token", e, None, None, None, t))
  OBVIOUS
<1>3. \A e \in Emails, t \in Teams, k \in Tokens :
        UpToDate(Fresh("delete_token", e, None, k, None, t))
  OBVIOUS
<1>4. \A p \in Passwords, i \in Invitations :
       /\ inv[i].state # "unused" /\ Somebody
       /\ inv[i].email \in Emails /\ inv[i].role \in Roles /\ inv[i].team \in Teams
       => UpToDate(Fresh("accept", inv[i].email, p, i, inv[i].role, inv[i].team))
  OBVIOUS
<1> QED BY <1>1, <1>2, <1>3, <1>4

\* What a request that arrives reads at its first statement.
LEMMA ArrivalReads ==
  ASSUME IInv, NEW s \in Slots, Arrive(s)
  PROVE  UpToDate(req'[s])
<1>1. /\ req \in [Slots -> Requests] /\ users \in [Emails -> Users \cup {Nobody}]
      /\ links \in [Identities -> Emails \cup {None}] /\ LinkedExist
      /\ \A c \in Cookies : session[c] # "unissued"
           => claims[c].user \in Emails /\ users[claims[c].user].role \in Roles
  BY DEF IInv, Tables, TypeOK, IssuedOK, ClaimsMatchUser, Claims
<1>2. \A e \in Emails : Exists(e) => users[e].role \in Roles
  BY <1>1 DEF Exists, Users, Nobody
<1>3. None \notin Roles
  BY NoneIsNoRole
<1> USE TeamsAssumption, AccountsAssumption
<1>4. ASSUME NEW e \in Emails, NEW p \in Passwords, Register(s, e, p) PROVE UpToDate(req'[s])
  <2> DEFINE r == Fresh("create", e, p, None, None, None)
  <2>1. req'[s] = r
    BY <1>1, <1>4 DEF Register, Begin, Idle, Fresh
  <2>2. UpToDate(r)
    BY FreshUpToDate
  <2> QED BY <2>1, <2>2
<1>5. ASSUME NEW e \in Emails, NEW p \in Passwords, Login(s, e, p) PROVE UpToDate(req'[s])
  <2> DEFINE r == Fresh("primary_team", e, None, None, users[e].role, None)
  <2>1. req'[s] = r
    BY <1>1, <1>5 DEF Login, Begin, Idle, Fresh
  <2>2. UpToDate(r)
    BY <1>2, <1>5, FreshUpToDate DEF Login
  <2> QED BY <2>1, <2>2
<1>6. ASSUME NEW c \in Cookies, Refresh(s, c) PROVE UpToDate(req'[s])
  <2> DEFINE e == claims[c].user
             r == Fresh("drop_session", e, None, c, users[e].role, None)
             x == Fresh("drop_expired", None, None, c, None, None)
  <2>1. req'[s] = r \/ req'[s] = x
    BY <1>1, <1>6 DEF Refresh, Begin, Idle, Fresh
  <2>2. session[c] # "unissued" /\ e \in Emails /\ users[e].role \in Roles
    BY <1>1, <1>6 DEF Refresh
  <2> HIDE DEF e
  <2>3. UpToDate(r) /\ UpToDate(x)
    BY <2>2, FreshUpToDate
  <2> QED BY <2>1, <2>3
<1>7. ASSUME NEW c \in Cookies, NEW old \in Passwords, NEW new \in Passwords,
             ChangePassword(s, c, old, new)
      PROVE  UpToDate(req'[s])
  <2> DEFINE e == claims[c].user
             r == Fresh("update_password", e, new, None, None, None)
  <2>1. req'[s] = r
    BY <1>1, <1>7 DEF ChangePassword, Begin, Idle, Fresh
  <2>2. e \in Emails /\ Exists(e)
    BY <1>1, <1>3, <1>7 DEF ChangePassword, Exists
  <2> HIDE DEF e
  <2>3. UpToDate(r)
    BY <2>2, FreshUpToDate
  <2> QED BY <2>1, <2>3
<1>8. ASSUME NEW i \in Identities, NEW e \in Emails, OAuthCallback(s, i, e)
      PROVE  UpToDate(req'[s])
  <2>1. CASE links[i] # None
    <3> DEFINE l == links[i]
               r == Fresh("issue", l, None, i, users[l].role, None)
    <3>1. l \in Emails /\ users[l].role \in Roles
      BY <1>1, <1>2, <2>1 DEF LinkedExist
    <3>2. req'[s] = r
      BY <1>1, <1>8, <2>1 DEF OAuthCallback, Begin, Idle, Fresh
    <3> HIDE DEF l
    <3>3. UpToDate(r)
      BY <3>1, FreshUpToDate DEF l
    <3> QED BY <3>2, <3>3
  <2>2. CASE links[i] = None
    <3> DEFINE r == Fresh("find_email", e, None, i, None, None)
    <3>1. req'[s] = r
      BY <1>1, <1>8, <2>2 DEF OAuthCallback, Begin, Idle, Fresh
    <3>2. UpToDate(r)
      BY FreshUpToDate
    <3> QED BY <3>1, <3>2
  <2> QED BY <2>1, <2>2
<1> QED BY <1>4, <1>5, <1>6, <1>7, <1>8 DEF Arrive

\* The first check of a request about a team.
LEMMA TeamArrivalReads ==
  ASSUME IInv, NEW s \in Slots, TeamRequest(s)
  PROVE  UpToDate(req'[s])
<1>1. /\ req \in [Slots -> Requests] /\ members \in [Teams -> [Emails -> Roles \cup {None}]]
  BY DEF IInv, Tables, TypeOK
<1>2. ASSUME NEW cl \in PresentedClaims, NEW t \in Teams, members[t][cl.user] = "owner"
      PROVE  cl.user \in Emails /\ BelongsTo(cl.user, t) /\ Somebody
  <2>1. members[t][cl.user] # None
    BY <1>2, NoneIsNoRole DEF Roles
  <2>2. cl.user \in Emails /\ Somebody
    BY PresentedBelong
  <2> QED BY <2>1, <2>2 DEF BelongsTo, IInv, Tables, TeamsAreWhole, NothingOutlivesTeam
<1>3. ASSUME NEW cl \in PresentedClaims, NEW t \in Teams, Delete(s, cl, t) \/ CreateToken(s, cl, t)
      PROVE  UpToDate(req'[s])
  <2> DEFINE r(at) == Fresh(at, cl.user, None, None, None, t)
  <2>1. /\ req'[s] = r("delete_team") \/ req'[s] = r("insert_token")
        /\ members[t][cl.user] = "owner"
    BY <1>1, <1>3 DEF Delete, CreateToken, TeamOwnerOnly, Begin, Idle, Fresh
  <2>2. UpToDate(r("delete_team")) /\ UpToDate(r("insert_token"))
    BY <1>2, <2>1, FreshTeamUpToDate
  <2> QED BY <2>1, <2>2
<1>4. ASSUME NEW cl \in PresentedClaims, NEW t \in Teams, NEW k \in Tokens, DeleteToken(s, cl, t, k)
      PROVE  UpToDate(req'[s])
  <2> DEFINE r == Fresh("delete_token", cl.user, None, k, None, t)
  <2>1. req'[s] = r /\ members[t][cl.user] = "owner"
    BY <1>1, <1>4 DEF DeleteToken, TeamOwnerOnly, Begin, Idle, Fresh
  <2>2. UpToDate(r)
    BY <1>2, <2>1, FreshTeamUpToDate
  <2> QED BY <2>1, <2>2
<1>5. ASSUME NEW cl \in PresentedClaims, NEW t \in Teams, NEW e \in Emails,
             NEW role \in Roles, Invite(s, cl, t, e, role)
      PROVE  UpToDate(req'[s])
  <2>1. req'[s] = Fresh("mail", None, None, None, None, None)
    BY <1>1, <1>5 DEF Invite, Begin, Idle, Fresh
  <2> QED BY <2>1, FreshUpToDate
<1>6. ASSUME NEW i \in Invitations, NEW p \in Passwords, Accept(s, i, p) PROVE UpToDate(req'[s])
  <2> DEFINE r == Fresh("accept", inv[i].email, p, i, inv[i].role, inv[i].team)
  <2>1. inv[i].state = "pending" /\ inv[i] \in InvitationRows /\ Somebody
    BY <1>6, InvitationTyped DEF Accept, IInv, Tables, SomebodyActed
  <2>2. req'[s] = r
    BY <1>1, <1>6 DEF Accept, Begin, Idle, Fresh
  <2>3. inv[i].email \in Emails /\ inv[i].role \in Roles /\ inv[i].team \in Teams
    BY <2>1 DEF InvitationRows
  <2>4. UpToDate(r)
    BY <2>1, <2>3, FreshTeamUpToDate
  <2> QED BY <2>2, <2>4
<1> QED BY <1>3, <1>4, <1>5, <1>6 DEF TeamRequest

\* What a request knows once it has taken a step that writes no table it reads.
LEMMA StepKnows ==
  ASSUME IInv, NEW s \in Slots,
         \/ /\ Advance(s)
            /\ ~(CreateUser(s) \/ CreateUserWithRole(s) \/ CreateOAuthUser(s) \/ LinkAccount(s))
         \/ TeamStep(s)
  PROVE  Current(req'[s])
<1>1. /\ req \in [Slots -> Requests] /\ users \in [Emails -> Users \cup {Nobody}]
      /\ FilledIn(req[s]) /\ Current(req[s])
  BY DEF IInv, Tables, TypeOK, UpToDate
<1> USE DEF Current, RoleIsRead, SessionIsRead, LinkIsRead, OwnerIsRead, InvitationIsRead,
            TeamIsRead, WithInvitation, Requests, Go, Answer, At, Idle
<1> USE DEF FilledIn, WithUser, WithRole, NoTeamYet
<1> USE TeamsAssumption, AccountsAssumption
<1>2. CASE CreateUserSnapshot(s)
  BY <1>1, <1>2 DEF CreateUserSnapshot, Somebody
<1>3. CASE GetPrimaryTeamID(s)
  BY <1>1, <1>3 DEF GetPrimaryTeamID, TeamsOf, BelongsTo, IInv, Tables, TeamsAreWhole,
                    NothingOutlivesTeam
<1>4. CASE DropExpired(s)
  BY <1>1, <1>4 DEF DropExpired
<1>5. CASE DropSession(s)
  BY <1>1, <1>5 DEF DropSession, BelongsTo
<1>6. CASE UpdatePassword(s)
  BY <1>1, <1>6 DEF UpdatePassword
<1>7. CASE FindUserByEmail(s)
  BY <1>1, <1>7 DEF FindUserByEmail
<1>8. CASE IssueTokens(s)
  BY <1>1, <1>8 DEF IssueTokens
<1>9. CASE DeleteTeam(s)
  BY <1>1, <1>9 DEF DeleteTeam
<1>10. CASE InsertToken(s)
  BY <1>1, <1>10 DEF InsertToken
<1>11. CASE RemoveToken(s)
  BY <1>1, <1>11 DEF RemoveToken
<1>12. CASE SendInvitation(s)
  BY <1>1, <1>12 DEF SendInvitation
<1>13. CASE AcceptInvitation(s)
  BY <1>1, <1>13 DEF AcceptInvitation
<1>14. CASE VerifyExistingUser(s)
  BY <1>1, <1>14 DEF VerifyExistingUser
<1>15. CASE AddTeamMembership(s)
  BY <1>1, <1>15 DEF AddTeamMembership
<1> QED BY <1>2, <1>3, <1>4, <1>5, <1>6, <1>7, <1>8, <1>9, <1>10, <1>11, <1>12,
           <1>13, <1>14, <1>15 DEF Advance, TeamStep

\* The steps that read what they write themselves.
LEMMA WriterKnows ==
  ASSUME IInv, [Next]_vars, NEW s \in Slots,
         CreateUser(s) \/ CreateUserWithRole(s) \/ CreateOAuthUser(s) \/ LinkAccount(s)
  PROVE  Current(req[s])'
<1>1. /\ req \in [Slots -> Requests] /\ users \in [Emails -> Users \cup {Nobody}]
      /\ links \in [Identities -> Emails \cup {None}]
      /\ FilledIn(req[s]) /\ Current(req[s])
  BY DEF IInv, Tables, TypeOK, UpToDate
<1> USE DEF Current, RoleIsRead, SessionIsRead, LinkIsRead, OwnerIsRead, InvitationIsRead,
            TeamIsRead, WithInvitation, Requests, Go, Answer, At, Idle, InsertUser, BelongsTo
<1> USE DEF FilledIn, WithUser, WithRole, WithIdentity, NoTeamYet
<1> USE TeamsAssumption, AccountsAssumption
<1>2. CASE CreateUser(s)
  BY <1>1, <1>2 DEF CreateUser, OwnerTaken, OwnerExists
<1>3. CASE CreateUserWithRole(s)
  BY <1>1, <1>3 DEF CreateUserWithRole
<1>4. CASE CreateOAuthUser(s)
  BY <1>1, <1>4 DEF CreateOAuthUser
<1>5. CASE LinkAccount(s)
  BY <1>1, <1>5 DEF LinkAccount
<1> QED BY <1>2, <1>3, <1>4, <1>5

\* A statement that fails: the request is answered, or goes on without.
LEMMA FailureReads ==
  ASSUME IInv, NEW s \in Slots, FailedStatement(s)
  PROVE  UpToDate(req'[s])
<1>1. req \in [Slots -> Requests] /\ UpToDate(req[s])
  BY DEF IInv, Tables, TypeOK
<1>2. CASE req'[s] = Idle
  BY <1>2, IdleUpToDate
<1>3. CASE At(s, "primary_team") /\ Go(s, "issue")
  BY <1>1, <1>3, TeamsAssumption, AccountsAssumption
     DEF At, Go, UpToDate, FilledIn, WithUser, WithRole, WithPassword, WithInvitation, WithTeam,
         WithIdentity, NoTeamYet, Requests, Positions, Current, RoleIsRead, SessionIsRead,
         LinkIsRead, OwnerIsRead, InvitationIsRead, TeamIsRead, BelongsTo
<1>4. CASE At(s, "drop_session") /\ req' = [req EXCEPT ![s].at = "issue", ![s].via = None]
  BY <1>1, <1>4, TeamsAssumption, AccountsAssumption
     DEF At, UpToDate, FilledIn, WithUser, WithRole, WithPassword, WithInvitation, WithTeam,
         WithIdentity, NoTeamYet, Requests, Positions, Current, RoleIsRead, SessionIsRead,
         LinkIsRead, OwnerIsRead, InvitationIsRead, TeamIsRead, BelongsTo
<1> QED BY <1>1, <1>2, <1>3, <1>4 DEF FailedStatement, Answer

-----------------------------------------------------------------------------
(***************************************************************************)
(* The invariant holds throughout.                                         *)
(***************************************************************************)
LEMMA RequestsStep ==
  ASSUME IInv, [Next]_vars
  PROVE  req' \in [Slots -> Requests] /\ \A s \in Slots : UpToDate(req[s])'
<1>1. req \in [Slots -> Requests]
  BY DEF IInv, Tables, TypeOK
<1>2. ASSUME NEW s \in Slots PROVE UpToDate(req[s])'
  <2>1. CASE req'[s] = req[s] \/ req'[s] = Idle \/ FailedStatement(s) \/ Arrive(s) \/ TeamRequest(s)
    <3>1. UpToDate(req[s])
      BY DEF IInv
    <3>2. UpToDate(req'[s])
      BY <2>1, <3>1, IdleUpToDate, FailureReads, ArrivalReads, TeamArrivalReads
    <3> QED BY <3>2, ReadIsKept
  <2>2. CASE Advance(s) \/ TeamStep(s)
    <3>1. FilledIn(req'[s])
      BY <2>2, AdvanceReads, TeamStepReads
    <3>2. CASE CreateUser(s) \/ CreateUserWithRole(s) \/ CreateOAuthUser(s) \/ LinkAccount(s)
      <4>1. Current(req[s])'
        BY <3>2, WriterKnows
      <4> QED BY <3>1, <4>1 DEF UpToDate, FilledIn
    <3>3. CASE ~(CreateUser(s) \/ CreateUserWithRole(s) \/ CreateOAuthUser(s) \/ LinkAccount(s))
      <4>1. UpToDate(req'[s])
        BY <2>2, <3>1, <3>3, StepKnows DEF UpToDate
      <4> QED BY <4>1, ReadIsKept
    <3> QED BY <3>2, <3>3
  <2> QED BY <1>1, <2>1, <2>2, OnlyOwnMoves DEF Moves
<1>3. \A s \in Slots : req'[s] \in Requests
  BY <1>2 DEF UpToDate, FilledIn
<1>4. req' = [q \in Slots |-> req'[q]]
  BY <1>1, OnlyOwnMoves
<1> QED BY <1>2, <1>3, <1>4

\* A token issued says what its request read; an older one is still right.
LEMMA ClaimsStep ==
  ASSUME IInv, [Next]_vars
  PROVE  /\ IssuedOK' /\ ClaimsMatchUser' /\ ClaimsBelong' /\ SignedInAsLinked'
<1>1. ASSUME NEW c \in Cookies, session'[c] # "unissued"
      PROVE  /\ claims'[c] \in Claims
             /\ users'[claims'[c].user].role = claims'[c].role
             /\ BelongsTo(claims[c].user, claims[c].team)'
             /\ claims'[c].via \in Identities => links'[claims'[c].via] = claims'[c].user
  <2>1. CASE session[c] # "unissued"
    <3>1. claims'[c] = claims[c]
      BY <2>1, SessionsStep
    <3>2. /\ claims[c] \in Claims /\ users[claims[c].user].role = claims[c].role
          /\ BelongsTo(claims[c].user, claims[c].team)
          /\ claims[c].via \in Identities => links[claims[c].via] = claims[c].user
      BY <2>1 DEF IInv, Tables, IssuedOK, ClaimsMatchUser, ClaimsBelong, SignedInAsLinked
    <3>3. claims[c].user \in Emails /\ claims[c].role \in Roles
      BY <3>2 DEF Claims
    <3>4. users'[claims[c].user].role = claims[c].role
      BY <3>2, <3>3, UsersLast, NoneIsNoRole DEF Exists
    <3>5. claims[c].via \in Identities => links'[claims[c].via] = claims[c].user
      BY <3>2, <3>3, LinksLast, AccountsAssumption
    <3>7. BelongsTo(claims[c].user, claims[c].team)'
      BY <3>1, <3>2, <3>3, TeamsStep DEF BelongsTo, Present
    <3> QED BY <3>1, <3>2, <3>4, <3>5, <3>7
  <2>2. CASE session[c] = "unissued"
    <3>1. PICK s \in Slots :
            /\ req[s].at = "issue"
            /\ claims'[c] = [user |-> req[s].who, role |-> req[s].role,
                             team |-> req[s].team, via |-> req[s].via]
            /\ claims'[c] \in Claims
            /\ users' = users /\ links' = links
      BY <1>1, <2>2, SessionsStep
    <3>2. UpToDate(req[s])
      BY DEF IInv
    <3>3. /\ users[req[s].who].role = req[s].role
          /\ req[s].via \in Identities => links[req[s].via] = req[s].who
          /\ BelongsTo(req[s].who, req[s].team) /\ req[s].who \in Emails
      BY <3>1, <3>2 DEF UpToDate, Current, FilledIn, WithUser, RoleIsRead, LinkIsRead, TeamIsRead
    <3>5. BelongsTo(claims[c].user, claims[c].team)'
      BY <3>1, <3>3, TeamsStep DEF BelongsTo, Present
    <3> QED BY <3>1, <3>3, <3>5
  <2> QED BY <2>1, <2>2
<1>2. ASSUME NEW c \in Cookies, session'[c] = "unissued" PROVE claims'[c].via \notin Identities
  <2>1. session[c] = "unissued" /\ claims'[c] = claims[c]
    BY <1>2, SessionsStep
  <2> QED BY <2>1 DEF IInv, Tables, UnissuedSayNothing
<1> QED BY <1>1, <1>2 DEF IssuedOK, ClaimsMatchUser, ClaimsBelong, SignedInAsLinked

\* The empty database.
LEMMA IInvInit == ASSUME Init PROVE IInv
<1> USE DEF Init, AInit
<1>1. TypeOK
  BY AccountsAssumption, TeamsAssumption, IdleUpToDate
     DEF TypeOK, UpToDate, FilledIn, Users, Claims
<1>2. IssuedOK /\ ClaimsMatchUser /\ ClaimsBelong /\ LinkedExist
  BY DEF IssuedOK, ClaimsMatchUser, ClaimsBelong, LinkedExist
<1>3. SignedInAsLinked
  BY AccountsAssumption DEF SignedInAsLinked, NoClaims
<1>4. SomebodyActed
  BY DEF SomebodyActed, NoInvitation, NoToken
<1>5. OneOwner
  BY NoneIsNoRole DEF OneOwner, SingleOwner, FirstUserOwns, Exists, Nobody, Roles
<1>6. TeamsAreWhole
  BY AccountsAssumption DEF TeamsAreWhole, AcceptedMeansMember, NothingOutlivesTeam, ActsAsMember,
                            NoInvitation, NoToken
<1>7. \A s \in Slots : UpToDate(req[s])
  BY IdleUpToDate
<1>8. UnissuedSayNothing
  BY AccountsAssumption DEF UnissuedSayNothing, NoClaims
<1> QED BY <1>1, <1>2, <1>3, <1>4, <1>5, <1>6, <1>7, <1>8 DEF IInv, Tables

\* Every step keeps the invariant.
LEMMA IInvStep == ASSUME IInv, [Next]_vars PROVE IInv'
<1>1. faults' \in 0..MaxFaults
  BY AccountsAssumption DEF IInv, Tables, TypeOK, Next, vars, Fault, AtOnce, Request, Step
<1>2. TypeOK'
  BY <1>1, UsersLast, LinksLast, SessionsStep, TeamsStep, RequestsStep, InvitationsLast, TokensStep
     DEF TypeOK, InvitationRows, TokenRows
<1>3. SomebodyActed'
  BY InvitationsLast, TokensStep DEF SomebodyActed
<1>4. UnissuedSayNothing'
  BY SessionsStep DEF IInv, Tables, UnissuedSayNothing
<1> QED
  BY <1>2, <1>3, <1>4, UsersLast, LinksLast, ClaimsStep, TeamsStayWhole, RequestsStep
     DEF IInv, Tables

\* What the requests in flight have read agrees with the tables, at all times.
THEOREM Invariance == Spec => []IInv
<1>1. Init => IInv
  BY IInvInit
<1>2. IInv /\ [Next]_vars => IInv'
  BY IInvStep
<1> QED BY <1>1, <1>2, PTL DEF Spec

\* Every variable keeps its type.
THEOREM TypeCorrect == Spec => []TypeOK
<1>1. IInv => TypeOK
  BY DEF IInv, Tables
<1> QED BY <1>1, Invariance, PTL

\* From the first registration on there is one owner, and never two, however
\* many registrations and acceptances race.
THEOREM InstanceHasOneOwner == Spec => []OneOwner
<1>1. IInv => OneOwner
  BY DEF IInv, Tables
<1> QED BY <1>1, Invariance, PTL

\* A token says what the users and oauth_accounts tables say of its holder.
THEOREM TokensTellTheTruth == Spec => []ClaimsAreTrue
<1>1. IInv => ClaimsAreTrue
  BY DEF IInv, Tables, ClaimsAreTrue
<1> QED BY <1>1, Invariance, PTL

\* Members, invitations and API tokens agree with the team they are of.
THEOREM RowsAroundTeamsAgree == Spec => []TeamsAreWhole
<1>1. IInv => TeamsAreWhole
  BY DEF IInv, Tables
<1> QED BY <1>1, Invariance, PTL

\* Nobody gets a role in a team but its creator and those invited with it.
THEOREM RolesComeFromInvitations == Spec => RolesAreGranted
<1> DEFINE Granted == \A t \in Teams, e \in Emails :
       members'[t][e] \notin {members[t][e], None} =>
         \/ teams[t] = "unused" /\ members'[t][e] = "owner"
         \/ \E i \in Invitations :
              inv[i].team = t /\ inv[i].email = e /\ inv[i].role = members'[t][e]
<1>1. IInv /\ [Next]_vars => [Granted]_vars
  <2> SUFFICES ASSUME IInv, [Next]_vars PROVE Granted
    OBVIOUS
  <2>1. members \in [Teams -> [Emails -> Roles \cup {None}]]
    BY DEF IInv, Tables, TypeOK
  <2>2. CASE members' = members
    BY <2>2
  <2>3. ASSUME NEW s \in Slots, DeleteTeam(s) PROVE Granted
    <3>1. members' = [members EXCEPT ![req[s].team] = [e \in Emails |-> None]]
      BY <2>3 DEF DeleteTeam
    <3> QED BY <2>1, <3>1
  <2>4. ASSUME NEW s \in Slots, AcceptInvitation(s) \/ AddTeamMembership(s), members' # members
        PROVE  Granted
    <3> DEFINE v == req[s].via
               d == req[s].team
               w == req[s].who
    <3>1. /\ v \in Invitations /\ inv[v].team = d /\ inv[v].email = w /\ inv[v].role = req[s].role
          /\ d \in Teams /\ w \in Emails
          /\ members' = [members EXCEPT ![d][w] = req[s].role]
      BY <2>4, JoinsAsInvited
    <3> HIDE DEF v, d, w
    <3>2. \A t \in Teams, e \in Emails :
            members'[t][e] = IF t = d /\ e = w THEN req[s].role ELSE members[t][e]
      BY <2>1, <3>1
    <3> QED BY <3>1, <3>2
  <2>5. ASSUME NEW cl \in PresentedClaims, CreateTeam(cl) PROVE Granted
    <3>1. PICK t \in Teams : /\ teams[t] = "unused"
                             /\ members' = [members EXCEPT ![t][cl.user] = "owner"]
      BY <2>5 DEF CreateTeam
    <3> QED BY <2>1, <3>1
  <2> HIDE DEF Granted
  <2> QED BY <2>2, <2>3, <2>4, <2>5, WritersKnown DEF OnlyWriters, MemberWriter
<1> QED BY <1>1, Invariance, PTL DEF Spec, RolesAreGranted

\* A sign-up is refused for no other reason than that the address has an account.
THEOREM RaceForOwnerRefusesNobody == Spec => SignUpRefusedOnlyIfTaken
<1> DEFINE Refusal == \A s \in Slots :
       /\ req[s].at \in {"insert", "insert_again", "create_oauth", "link"}
       /\ ~Busy(s)'
       /\ faults' = faults
       => Exists(req[s].who)
<1>1. IInv /\ [Next]_vars => [Refusal]_vars
  <2> SUFFICES ASSUME IInv, [Next]_vars, NEW s \in Slots,
                      req[s].at \in {"insert", "insert_again", "create_oauth", "link"},
                      ~Busy(s)', faults' = faults
               PROVE  Exists(req[s].who)
    OBVIOUS
  <2>1. req \in [Slots -> Requests] /\ UpToDate(req[s]) /\ faults \in Nat
    BY DEF IInv, Tables, TypeOK
  <2>2. req'[s].at = "idle"
    BY DEF Busy
  <2>3. Advance(s)
    <3>1. Moves(s)
      BY <2>1, OnlyOwnMoves
    <3>2. ~Arrive(s)
      BY DEF Arrive, Register, Login, Refresh, ChangePassword, OAuthCallback, Free, Busy
    <3>3. ~TeamStep(s)
      BY DEF TeamStep, DeleteTeam, InsertToken, RemoveToken, SendInvitation, AcceptInvitation,
             VerifyExistingUser, AddTeamMembership, At
    <3>4. ~TeamRequest(s)
      BY DEF TeamRequest, Delete, CreateToken, DeleteToken, TeamOwnerOnly, Invite, Accept,
             Free, Busy
    <3> QED BY <2>1, <2>2, <3>1, <3>2, <3>3, <3>4 DEF Moves
  <2>4. CASE CreateUser(s)
    BY <2>1, <2>2, <2>4 DEF CreateUser, Go, At, Requests
  <2>5. CASE CreateUserWithRole(s)
    BY <2>1, <2>2, <2>5 DEF CreateUserWithRole, At, Requests
  <2>6. CASE CreateOAuthUser(s)
    BY <2>1, <2>2, <2>6 DEF CreateOAuthUser, At, Requests
  <2>7. CASE LinkAccount(s)
    BY <2>1, <2>7, NoneIsNoRole 
       DEF LinkAccount, At, UpToDate, FilledIn, WithRole, Current, RoleIsRead, Exists
  <2>8. ~(\/ CreateUserSnapshot(s) \/ GetPrimaryTeamID(s) \/ DropExpired(s) \/ DropSession(s)
          \/ UpdatePassword(s) \/ FindUserByEmail(s) \/ IssueTokens(s))
    BY DEF CreateUserSnapshot, GetPrimaryTeamID, DropExpired, DropSession, UpdatePassword,
           FindUserByEmail, IssueTokens, At
  <2> QED BY <2>3, <2>4, <2>5, <2>6, <2>7, <2>8 DEF Advance
<1> QED BY <1>1, Invariance, PTL DEF Spec, SignUpRefusedOnlyIfTaken

=============================================================================
