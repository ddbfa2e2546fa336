-------------------------------- MODULE Teams --------------------------------
(***************************************************************************)
(* Teams, their members, invitations and API tokens, with the accounts of  *)
(* module Accounts: the specification of everything that decides who may   *)
(* act for whom.                                                           *)
(*                                                                         *)
(* A transaction (CreateTeam, AcceptInvitation, AddTeamMembership) is one  *)
(* action: its rows are locked until it commits, and the foreign keys and  *)
(* unique indexes it meets decide whether it does.                         *)
(***************************************************************************)
EXTENDS Accounts

CONSTANTS
  Invitations,  \* the invitations that may be created
  Tokens,       \* the API tokens that may be created
  MaxRetries    \* SMTPMailer.maxRetries

ASSUME TeamsAssumption ==
  /\ None \notin Invitations
  /\ MaxRetries \in Nat

VARIABLES
  teams,  \* the teams table: "unused", "present" or "deleted"
  inv,    \* the invitations table
  tokens  \* the api_tokens table

tvars == <<teams, inv, tokens>>
vars  == <<avars, tvars, faults>>

Present(t) == teams[t] = "present"

(***************************************************************************)
(* An invitation is "unused", "pending", "accepted" or "gone" (revoked, or *)
(* deleted with its team).  Whether it is past expires_at is up to the     *)
(* clock: it may be accepted or not.                                       *)
(***************************************************************************)
NoInvitation == [state |-> "unused", team |-> None, email |-> None, role |-> None,
                 by |-> None]
NoToken      == [state |-> "unused", team |-> None, user |-> None]

\* The claims a request may carry: those of an access token, or an API token's.
IssuedClaims == {[user |-> claims[c].user, role |-> claims[c].role, team |-> claims[c].team] :
                   c \in {d \in Cookies : session[d] # "unissued"}}

\* Lookup joins the token with its user and with the user's membership.
Lookup(k) == {[user |-> tokens[k].user, role |-> members[t][tokens[k].user], team |-> t] :
                t \in {u \in Teams : /\ tokens[k].state = "live"
                                     /\ tokens[k].team = u
                                     /\ members[u][tokens[k].user] # None}}

PresentedClaims == IssuedClaims \cup UNION {Lookup(k) : k \in Tokens}

(***************************************************************************)
(* POST and DELETE /api/v1/teams.                                          *)
(***************************************************************************)
CreateTeam(cl) ==
  /\ \E t \in Teams :
       /\ teams[t] = "unused"
       /\ teams' = [teams EXCEPT ![t] = "present"]
       /\ members' = [members EXCEPT ![t][cl.user] = "owner"]
  /\ UNCHANGED <<users, links, session, claims, req, inv, tokens>>

\* Bound: every request that creates a token finds one that was never used.
TokenRoom == Cardinality({k \in Tokens : tokens[k].state = "unused"})
               > Cardinality({s \in Slots : At(s, "insert_token")})

\* GetUserRole, the check three handlers begin with; next is their statement.
TeamOwnerOnly(s, cl, t, next) ==
  /\ Free(s)
  /\ members[t][cl.user] = "owner"
  /\ Begin(s, [Idle EXCEPT !.at = next.at, !.who = cl.user, !.team = t, !.via = next.via])
  /\ UNCHANGED <<users, links, session, claims, members, tvars>>

Delete(s, cl, t)         == TeamOwnerOnly(s, cl, t, [at |-> "delete_team", via |-> None])
CreateToken(s, cl, t)    == TokenRoom /\ TeamOwnerOnly(s, cl, t, [at |-> "insert_token", via |-> None])
DeleteToken(s, cl, t, k) == TeamOwnerOnly(s, cl, t, [at |-> "delete_token", via |-> k])

\* Everything that references a team goes with it (ON DELETE CASCADE).
DeleteTeam(s) ==
  LET t == req[s].team IN
  /\ At(s, "delete_team")
  /\ teams' = [teams EXCEPT ![t] = "deleted"]
  /\ members' = [members EXCEPT ![t] = [e \in Emails |-> None]]
  /\ inv' = [i \in Invitations |->
               IF inv[i].team = t THEN [inv[i] EXCEPT !.state = "gone"] ELSE inv[i]]
  /\ tokens' = [k \in Tokens |->
                  IF tokens[k].team = t THEN [tokens[k] EXCEPT !.state = "gone"] ELSE tokens[k]]
  /\ Answer(s)
  /\ UNCHANGED <<users, links, session, claims>>

InsertToken(s) ==
  LET t == req[s].team IN
  /\ At(s, "insert_token")
  /\ \/ /\ ~Present(t)
        /\ Answer(s)
        /\ UNCHANGED tokens
     \/ /\ Present(t)
        /\ \E k \in Tokens :
             /\ tokens[k].state = "unused"
             /\ tokens' = [tokens EXCEPT ![k] =
                             [state |-> "live", team |-> t, user |-> req[s].who]]
        /\ Answer(s)
  /\ UNCHANGED <<users, links, session, claims, members, teams, inv>>

RemoveToken(s) ==
  LET k == req[s].via IN
  /\ At(s, "delete_token")
  /\ IF tokens[k].state = "live" /\ tokens[k].team = req[s].team
       THEN tokens' = [tokens EXCEPT ![k].state = "gone"] /\ Answer(s)
       ELSE Answer(s) /\ UNCHANGED tokens
  /\ UNCHANGED <<users, links, session, claims, members, teams, inv>>

(***************************************************************************)
(* POST /api/v1/teams/{teamID}/invitations.  The team row must exist, and  *)
(* idx_invitations_pending_unique allows one unaccepted invitation of an   *)
(* address to a team, expired or not.                                      *)
(***************************************************************************)
Authorized(cl, t) == cl.team = t /\ cl.role \in {"maintainer", "owner"}

PendingFor(t, e) == \E i \in Invitations :
                      inv[i].state = "pending" /\ inv[i].team = t /\ inv[i].email = e

Invite(s, cl, t, e, role) ==
  /\ Free(s)
  /\ Authorized(cl, t) /\ Present(t) /\ ~PendingFor(t, e)
  /\ \E i \in Invitations :
       /\ inv[i].state = "unused"
       /\ inv' = [inv EXCEPT ![i] = [state |-> "pending", team |-> t, email |-> e,
                                     role |-> role, by |-> cl.user]]
  /\ Begin(s, [Idle EXCEPT !.at = "mail"])
  /\ UNCHANGED <<users, links, session, claims, members, teams, tokens>>

(***************************************************************************)
(* SMTPMailer.sendWithRetry: a transient error is tried again, the last    *)
(* one and any other only logged; the invitation stands either way.        *)
(***************************************************************************)
SendInvitation_OneMore(s) ==
  /\ At(s, "mail")
  /\ \/ Answer(s)
     \/ req[s].tries <= MaxRetries /\ req' = [req EXCEPT ![s].tries = @ + 1]
  /\ UNCHANGED <<users, links, session, claims, members, tvars>>

SendInvitation(s) ==
  /\ At(s, "mail")
  /\ \/ Answer(s)
     \/ req[s].tries < MaxRetries /\ req' = [req EXCEPT ![s].tries = @ + 1]
  /\ UNCHANGED <<users, links, session, claims, members, tvars>>

\* DELETE /api/v1/teams/{teamID}/invitations/{invitationID}
Revoke(cl, t, i) ==
  /\ Authorized(cl, t) /\ inv[i].state \in {"pending", "accepted"} /\ inv[i].team = t
  /\ inv' = [inv EXCEPT ![i].state = "gone"]
  /\ UNCHANGED <<avars, teams, tokens>>

(***************************************************************************)
(* POST /api/v1/invitations/{token}/accept.  The handler reads the row     *)
(* once and works with what it read; the transactions mark the invitation  *)
(* accepted whatever has become of it, and touch no row if it is gone.     *)
(***************************************************************************)
Accept_DefaultRole(s, i, p) ==
  /\ Free(s)
  /\ inv[i].state = "pending"
  /\ Begin(s, [Idle EXCEPT !.at = "accept", !.who = inv[i].email, !.password = p,
                            !.via = i, !.role = "maintainer", !.team = inv[i].team])
  /\ UNCHANGED <<users, links, session, claims, members, tvars>>

Accept(s, i, p) ==
  /\ Free(s)
  /\ inv[i].state = "pending"
  /\ Begin(s, [Idle EXCEPT !.at = "accept", !.who = inv[i].email, !.password = p,
                            !.via = i, !.role = inv[i].role, !.team = inv[i].team])
  /\ UNCHANGED <<users, links, session, claims, members, tvars>>

JoinTeam(s) ==
  LET r == req[s] IN
  /\ members' = [members EXCEPT ![r.team][r.who] = r.role]
  /\ inv' = [inv EXCEPT ![r.via].state = IF @ = "pending" THEN "accepted" ELSE @]

AcceptInvitation(s) ==
  LET r == req[s] IN
  /\ At(s, "accept")
  /\ \/ /\ Exists(r.who)
        /\ Go(s, "check_password")
        /\ UNCHANGED <<users, members, inv>>
     \/ /\ ~Exists(r.who) /\ (OwnerTaken(r.role) \/ ~Present(r.team))
        /\ Answer(s)
        /\ UNCHANGED <<users, members, inv>>
     \/ /\ ~Exists(r.who) /\ ~OwnerTaken(r.role) /\ Present(r.team)
        /\ InsertUser(r.who, r.role, r.password, "invite")
        /\ JoinTeam(s)
        /\ Answer(s)
  /\ UNCHANGED <<links, session, claims, teams, tokens>>

VerifyExistingUser_MarksFirst(s) ==
  /\ At(s, "check_password")
  /\ inv' = [inv EXCEPT ![req[s].via].state = IF @ = "pending" THEN "accepted" ELSE @]
  /\ IF CheckPassword(req[s].who, req[s].password) THEN Go(s, "join") ELSE Answer(s)
  /\ UNCHANGED <<users, links, session, claims, members, teams, tokens>>

VerifyExistingUser(s) ==
  /\ At(s, "check_password")
  /\ IF CheckPassword(req[s].who, req[s].password) THEN Go(s, "join") ELSE Answer(s)
  /\ UNCHANGED <<users, links, session, claims, members, tvars>>

AddTeamMembership(s) ==
  /\ At(s, "join")
  /\ IF Present(req[s].team)
       THEN JoinTeam(s) /\ Answer(s)
       ELSE Answer(s) /\ UNCHANGED <<members, inv>>
  /\ UNCHANGED <<users, links, session, claims, teams, tokens>>

(***************************************************************************)
(* The specification.                                                      *)
(***************************************************************************)
Init ==
  /\ AInit
  /\ teams = [t \in Teams |-> "unused"]
  /\ inv = [i \in Invitations |-> NoInvitation]
  /\ tokens = [k \in Tokens |-> NoToken]
  /\ faults = 0

TeamRequest(s) ==
  \/ \E cl \in PresentedClaims, t \in Teams :
       \/ Delete(s, cl, t) \/ CreateToken(s, cl, t)
       \/ \E k \in Tokens : DeleteToken(s, cl, t, k)
       \/ \E e \in Emails, role \in Roles : Invite(s, cl, t, e, role)
  \/ \E i \in Invitations, p \in Passwords : Accept(s, i, p)

TeamStep(s) ==
  \/ DeleteTeam(s) \/ InsertToken(s) \/ RemoveToken(s) \/ SendInvitation(s)
  \/ AcceptInvitation(s) \/ VerifyExistingUser(s) \/ AddTeamMembership(s)

\* A request in flight takes its next statement.
Step(s) ==
  /\ \/ Advance(s) /\ UNCHANGED tvars
     \/ TeamStep(s)
  /\ UNCHANGED faults

Fault ==
  /\ faults < MaxFaults
  /\ faults' = faults + 1
  /\ (\E s \in Slots : FailedStatement(s)) \/ Crash
  /\ UNCHANGED tvars

Request(s) ==
  /\ \/ Arrive(s) /\ UNCHANGED tvars
     \/ TeamRequest(s)
  /\ UNCHANGED faults

\* Requests of one statement.
AtOnce ==
  /\ \/ (\E c \in Cookies : Logout(c)) /\ UNCHANGED tvars
     \/ \E cl \in PresentedClaims : CreateTeam(cl)
     \/ \E cl \in PresentedClaims, t \in Teams, i \in Invitations : Revoke(cl, t, i)
  /\ UNCHANGED faults

Next ==
  \/ \E s \in Slots : Request(s) \/ Step(s)
  \/ AtOnce
  \/ Fault

Spec == Init /\ [][Next]_vars

(***************************************************************************)
(* Properties.                                                             *)
(***************************************************************************)
Positions == {"idle", "create", "insert", "insert_again", "primary_team", "drop_expired",
              "drop_session", "update_password", "find_email", "create_oauth",
              "link", "issue", "delete_team", "insert_token", "delete_token", "mail",
              "accept", "check_password", "join"}

Requests == [at : Positions, who : Emails \cup {None}, password : Passwords \cup {None},
             via : Identities \cup Cookies \cup Invitations \cup Tokens \cup {None},
             role : Roles \cup {None}, team : Teams \cup {None}, tries : 0..MaxRetries]

\* Every variable has its type.
TypeOK ==
  /\ users \in [Emails -> Users \cup {Nobody}]
  /\ links \in [Identities -> Emails \cup {None}]
  /\ session \in [Cookies -> {"unissued", "live", "gone"}]
  /\ claims \in [Cookies -> Claims \cup {NoClaims}]
  /\ members \in [Teams -> [Emails -> Roles \cup {None}]]
  /\ req \in [Slots -> Requests]
  /\ teams \in [Teams -> {"unused", "present", "deleted"}]
  /\ inv \in [Invitations ->
       [state : {"pending", "accepted", "gone"}, team : Teams, email : Emails,
        role : Roles, by : Emails] \cup {NoInvitation}]
  /\ tokens \in [Tokens ->
       [state : {"live", "gone"}, team : Teams, user : Emails] \cup {NoToken}]
  /\ faults \in 0..MaxFaults

\* At most one user of the instance is its owner, however many people register
\* or accept an invitation at once (idx_users_single_owner).
SingleOwner ==
  \A e, f \in Emails : users[e].role = "owner" /\ users[f].role = "owner" => e = f

\* As soon as there is a user there is an owner, unless somebody signed in
\* through a provider: the race of the first registrations loses no owner.
FirstUserOwns ==
  (\E e \in Emails : Exists(e)) /\ (\A e \in Emails : users[e].origin # "oauth")
    => OwnerExists

\* From the first registration on the instance has its owner, and never two.
OneOwner == SingleOwner /\ FirstUserOwns

\* A sign-up that meets no failing statement is refused, once its first check
\* has passed, only because the address has got an account: losing the race for
\* 'owner' is no reason.
SignUpRefusedOnlyIfTaken ==
  [][\A s \in Slots :
       /\ req[s].at \in {"insert", "insert_again", "create_oauth", "link"}
       /\ ~Busy(s)'
       /\ faults' = faults
       => Exists(req[s].who)]_vars

\* The role that tokens carry is the role of the user's row, also for the
\* registration that asked for 'owner' and got 'maintainer'.
ClaimsMatchUser ==
  \A c \in Cookies : session[c] # "unissued"
                     => users[claims[c].user].role = claims[c].role

\* Whoever signs in through a provider account gets a session of the user that
\* account is linked to, also when two first sign-ins of it race.
SignedInAsLinked ==
  \A c \in Cookies : claims[c].via \in Identities => links[claims[c].via] = claims[c].user

\* What a token says of its holder is so.
ClaimsAreTrue == ClaimsMatchUser /\ SignedInAsLinked

\* An accepted invitation stands for a member of a team that exists.
AcceptedMeansMember ==
  \A i \in Invitations : inv[i].state = "accepted"
                         => Present(inv[i].team) /\ members[inv[i].team][inv[i].email] # None

\* No member, invitation or token outlives its team, also when it is created by
\* a request that checked the team before another one deleted it.
NothingOutlivesTeam ==
  \A t \in Teams : ~Present(t) =>
    /\ \A e \in Emails : members[t][e] = None
    /\ \A i \in Invitations : inv[i].team = t => inv[i].state = "gone"
    /\ \A k \in Tokens : tokens[k].team = t => tokens[k].state = "gone"

\* Who has invited to a team, or holds a token of it, is its member: the join of
\* Lookup finds the role of every live token.
ActsAsMember ==
  /\ \A i \in Invitations : inv[i].state \in {"pending", "accepted"}
                            => members[inv[i].team][inv[i].by] # None
  /\ \A k \in Tokens : tokens[k].state = "live"
                       => members[tokens[k].team][tokens[k].user] # None

\* The rows around a team agree, in whatever order requests create the team,
\* invite, accept, issue tokens and delete it.
TeamsAreWhole == AcceptedMeansMember /\ NothingOutlivesTeam /\ ActsAsMember

\* A role in a team is given to the creator of the team or to somebody an
\* invitation of that team names with that role, and never changes otherwise.
RolesAreGranted ==
  [][\A t \in Teams, e \in Emails :
       members'[t][e] \notin {members[t][e], None} =>
         \/ teams[t] = "unused" /\ members'[t][e] = "owner"
         \/ \E i \in Invitations :
              inv[i].team = t /\ inv[i].email = e /\ inv[i].role = members'[t][e]]_vars

=============================================================================
