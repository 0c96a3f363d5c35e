------------------------------- MODULE Access -------------------------------
(***************************************************************************)
(* Who belongs to which project and with which role: projects are created, *)
(* their admins invite, invitees accept. A request reads the memberships   *)
(* more than once (in the permission class, in the view, in its checks)    *)
(* and takes no locks, so each read is a step of its own; other requests   *)
(* commit in between. Two unique constraints decide what the checks miss.  *)
(*                                                                         *)
(* There is no operation that removes a member or changes a role.          *)
(***************************************************************************)
CONSTANTS
  Users,     \* each with its e-mail address, in lower case since registration
  Orgs, Invites, Requests,
  None

VARIABLES
  owner,    \* Organization.owner, None if there is no such project
  role,     \* OrganizationMembership, by project and user
  invite,   \* Invitation
  accepted, expired,  \* the invitations with accepted_at, and past expires_at
  at,       \* what each request does next
  request,  \* who makes it, with what
  acted     \* history: who wrote in which project as its admin

tableVars == <<owner, role, invite, accepted, expired>>
accessVars == <<tableVars, at, request, acted>>

Roles == {"owner", "admin", "member"}

\* IsOrgAdmin
AdminRoles == {"owner", "admin"}

\* InvitationCreateSerializer
InviteRoles == {"admin", "member"}

Invitations == [org : Orgs, user : Users, role : InviteRoles]

ASSUME AccessAssumption == None \notin Users \cup Orgs \cup Invites \cup Roles \cup Invitations

Idle == [user |-> None, header |-> None, org |-> None, invitee |-> None,
         role |-> None, invite |-> None]

AccessTypeOK ==
  /\ owner \in [Orgs -> Users \cup {None}]
  /\ role \in [Orgs -> [Users -> Roles \cup {None}]]
  /\ invite \in [Invites -> Invitations \cup {None}]
  /\ accepted \cup expired \subseteq {i \in Invites : invite[i] # None}
  /\ at \in [Requests -> {"idle", "resolve", "write", "invitee", "insert", "member", "join"}]
  /\ request \in [Requests ->
       [user : Users \cup {None}, header : Orgs \cup {None}, org : Orgs \cup {None},
        invitee : Users \cup {None}, role : InviteRoles \cup {None},
        invite : Invites \cup {None}]]
  /\ acted \subseteq Users \X Orgs
  /\ \A q \in Requests : at[q] = "idle" <=> request[q].user = None

AccessInit ==
  /\ owner = [o \in Orgs |-> None]
  /\ role = [o \in Orgs |-> [u \in Users |-> None]]
  /\ invite = [i \in Invites |-> None]
  /\ accepted = {} /\ expired = {}
  /\ at = [q \in Requests |-> "idle"]
  /\ request = [q \in Requests |-> Idle]
  /\ acted = {}

-----------------------------------------------------------------------------
Goto(q, step) == at' = [at EXCEPT ![q] = step]

Answer(q) == Goto(q, "idle") /\ request' = [request EXCEPT ![q] = Idle]

\* A refusal, an error, the death of the process: the transaction rolls back.
Fail(q) ==
  /\ at[q] # "idle"
  /\ Answer(q)
  /\ UNCHANGED <<tableVars, acted>>

\* Bug: the creator owns the project but is no member of it.
CreateOrganizationOnly(u, o) ==
  /\ owner[o] = None
  /\ owner' = [owner EXCEPT ![o] = u]
  /\ UNCHANGED <<role, invite, accepted, expired, at, request, acted>>

\* OrganizationViewSet.create
CreateOrganization(u, o) ==
  /\ owner[o] = None
  /\ owner' = [owner EXCEPT ![o] = u]
  /\ role' = [role EXCEPT ![o][u] = "owner"]
  /\ UNCHANGED <<invite, accepted, expired, at, request, acted>>

-----------------------------------------------------------------------------
(* Writes in a project *)

\* Bug: one of the projects is taken.
ResolvesToFirst(u, header, o) == role[o][u] # None /\ header \in {None, o}

\* get_request_organization: the project of the header, if u is a member; the
\* only project of u, if there is no header. All other requests are refused.
ResolvesTo(u, header, o) ==
  /\ role[o][u] # None
  /\ header \in {None, o}
  /\ header = None => \A p \in Orgs : role[p][u] # None => p = o

\* The permission class: IsOrgAdmin, also for the writes under ProjectAccess.
\* An invitation has an invitee and a role, other writes have none.
Authorise(q, u, header, invitee, r) ==
  /\ at[q] = "idle"
  /\ \E o \in Orgs : ResolvesTo(u, header, o) /\ role[o][u] \in AdminRoles
  /\ Goto(q, "resolve")
  /\ request' = [request EXCEPT ![q] = [user |-> u, header |-> header, org |-> None,
                                        invitee |-> invitee, role |-> r, invite |-> None]]
  /\ UNCHANGED <<tableVars, acted>>

\* The view reads the memberships again.
Resolve(q) ==
  /\ at[q] = "resolve"
  /\ \E o \in Orgs :
       /\ ResolvesTo(request[q].user, request[q].header, o)
       /\ request' = [request EXCEPT ![q].org = o]
  /\ Goto(q, IF request[q].invitee = None THEN "write" ELSE "invitee")
  /\ UNCHANGED <<tableVars, acted>>

\* perform_create of customers and plans, ApiKeyViewSet.create
Write(q) ==
  /\ at[q] = "write"
  /\ acted' = acted \cup {<<request[q].user, request[q].org>>}
  /\ Answer(q)
  /\ UNCHANGED tableVars

\* InvitationViewSet.create refuses to invite a member.
CheckInvitee(q) ==
  /\ at[q] = "invitee"
  /\ role[request[q].org][request[q].invitee] = None
  /\ Goto(q, "insert")
  /\ UNCHANGED <<tableVars, request, acted>>

InsertInvite(q, i) ==
  LET new == [org |-> request[q].org, user |-> request[q].invitee, role |-> request[q].role]
  IN /\ at[q] = "insert"
     /\ invite[i] = None
     /\ invite' = [invite EXCEPT ![i] = new]
     /\ acted' = acted \cup {<<request[q].user, request[q].org>>}
     /\ Answer(q)
     /\ UNCHANGED <<owner, role, accepted, expired>>

\* Seven days pass.
Expire(i) ==
  /\ invite[i] # None
  /\ expired' = expired \cup {i}
  /\ UNCHANGED <<owner, role, invite, accepted, at, request, acted>>

-----------------------------------------------------------------------------
(* AcceptInvitationView.post *)

\* The invitation is read once; its address is the user's.
ReadInvite(q, i) ==
  /\ at[q] = "idle"
  /\ invite[i] # None
  /\ i \notin accepted \cup expired
  /\ Goto(q, "member")
  /\ request' = [request EXCEPT ![q] =
       [user |-> invite[i].user, header |-> None, org |-> None, invitee |-> None,
        role |-> None, invite |-> i]]
  /\ UNCHANGED <<tableVars, acted>>

CheckMember(q) ==
  /\ at[q] = "member"
  /\ role[invite[request[q].invite].org][request[q].user] = None
  /\ Goto(q, "join")
  /\ UNCHANGED <<tableVars, request, acted>>

\* Bug: get_or_create.
JoinOrStay(q) ==
  LET i == request[q].invite IN
  /\ at[q] = "join"
  /\ role' = [role EXCEPT ![invite[i].org][request[q].user] =
                IF @ = None THEN invite[i].role ELSE @]
  /\ accepted' = accepted \cup {i}
  /\ Answer(q)
  /\ UNCHANGED <<owner, invite, expired, acted>>

\* unique_together and unique_org_owner
MayJoin(o, u, r) ==
  /\ role[o][u] = None
  /\ r = "owner" => \A v \in Users : role[o][v] # "owner"

\* The membership and accepted_at, in one transaction.
Join(q) ==
  LET i == request[q].invite IN
  /\ at[q] = "join"
  /\ MayJoin(invite[i].org, request[q].user, invite[i].role)
  /\ role' = [role EXCEPT ![invite[i].org][request[q].user] = invite[i].role]
  /\ accepted' = accepted \cup {i}
  /\ Answer(q)
  /\ UNCHANGED <<owner, invite, expired, acted>>

-----------------------------------------------------------------------------
AccessNext ==
  \/ \E u \in Users, o \in Orgs : CreateOrganization(u, o)
  \/ \E i \in Invites : Expire(i)
  \/ \E q \in Requests :
       \/ \E u \in Users, h \in Orgs \cup {None} :
            \/ Authorise(q, u, h, None, None)
            \/ \E v \in Users, r \in InviteRoles : Authorise(q, u, h, v, r)
       \/ Resolve(q) \/ Write(q) \/ CheckInvitee(q)
       \/ \E i \in Invites : InsertInvite(q, i) \/ ReadInvite(q, i)
       \/ CheckMember(q) \/ Join(q) \/ Fail(q)

AccessSpec == AccessInit /\ [][AccessNext]_accessVars

-----------------------------------------------------------------------------
(* Safety *)

\* Organization.owner is the one member with the role of an owner, though the
\* two are different tables.
OneOwner ==
  \A o \in Orgs, u \in Users : role[o][u] = "owner" <=> owner[o] = u

\* Whoever joined a project, other than its owner, did so by one invitation
\* and has the role it names: of several that are accepted at once, the others
\* stay unaccepted.
UsedInvites(o, u) == {i \in accepted : invite[i].org = o /\ invite[i].user = u}

JoinedByInvitation ==
  \A o \in Orgs, u \in Users :
    IF role[o][u] \in InviteRoles
      THEN \E i \in UsedInvites(o, u) :
             UsedInvites(o, u) = {i} /\ invite[i].role = role[o][u]
      ELSE UsedInvites(o, u) = {}

\* Nobody writes in a project without being its admin, although the project is
\* resolved anew after the permission was granted, and memberships are added
\* in between.
ActsWhereAdmin == \A x \in acted : role[x[2]][x[1]] \in AdminRoles

\* The tables hold what they may, and agree on who owns a project.
AccessSafe == AccessTypeOK /\ OneOwner

=============================================================================
