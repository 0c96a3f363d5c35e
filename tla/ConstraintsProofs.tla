-------------------------- MODULE ConstraintsProofs ---------------------------
(***************************************************************************)
(* Proofs about Access, Credentials and Gateway: any number of users,      *)
(* projects, invitations, addresses, tokens, attempts and requests.        *)
(***************************************************************************)
EXTENDS Access, Credentials, Gateway, TLAPS

-----------------------------------------------------------------------------
(* Access: memberships and invitations *)

\* Members and invitations belong to projects that are there.
Founded ==
  /\ \A o \in Orgs, u \in Users : role[o][u] # None => owner[o] # None
  /\ \A i \in Invites : invite[i] # None => owner[invite[i].org] # None

\* What request q has read of the tables before its next step.
Granted(q) ==
  LET r == request[q] IN
  /\ at[q] # "idle" => r.user \in Users
  /\ at[q] = "resolve" =>
       \E o \in Orgs : role[o][r.user] \in AdminRoles /\ r.header \in {None, o}
  /\ at[q] = "resolve" /\ r.invitee # None => r.invitee \in Users /\ r.role \in InviteRoles
  /\ at[q] \in {"write", "invitee", "insert"} =>
       r.org \in Orgs /\ role[r.org][r.user] \in AdminRoles
  /\ at[q] \in {"invitee", "insert"} => r.invitee \in Users /\ r.role \in InviteRoles
  /\ at[q] \in {"member", "join"} =>
       r.invite \in Invites /\ invite[r.invite] # None /\ r.user = invite[r.invite].user

AllGranted == \A q \in Requests : Granted(q)

AccessInv ==
  /\ AccessTypeOK /\ Founded /\ AllGranted
  /\ OneOwner /\ JoinedByInvitation /\ ActsWhereAdmin

\* Nothing is there at first.
LEMMA AccessInitHolds ==
  ASSUME AccessAssumption, AccessInit
  PROVE  AccessInv
BY DEF AccessAssumption, AccessInit, AccessInv, AccessTypeOK, Founded, AllGranted, Granted,
       OneOwner, JoinedByInvitation, UsedInvites, ActsWhereAdmin, Idle, InviteRoles, Roles

-----------------------------------------------------------------------------
(* Memberships and invitations, once there, stay as they are. *)

\* The operations that write the tables. What they do to one another's rows is the
\* subject of the lemmas that follow.
LEMMA TablesWrittenBy ==
  ASSUME [AccessNext]_accessVars
  PROVE  \/ \E u \in Users, o \in Orgs : CreateOrganization(u, o)
         \/ \E q \in Requests, i \in Invites : InsertInvite(q, i)
         \/ \E q \in Requests : Join(q)
         \/ UNCHANGED <<owner, role, invite, accepted>>
<1>. DEFINE Same == UNCHANGED <<owner, role, invite, accepted>>
<1>1. ASSUME NEW q \in Requests, NEW u, NEW h, NEW v, NEW r, Authorise(q, u, h, v, r)
      PROVE  Same
  BY <1>1 DEF Authorise, tableVars
<1>2. ASSUME NEW q \in Requests,
             Resolve(q) \/ Write(q) \/ CheckInvitee(q) \/ CheckMember(q) \/ Fail(q)
      PROVE  Same
  BY <1>2 DEF Resolve, Write, CheckInvitee, CheckMember, Fail, tableVars
<1>3. ASSUME NEW q \in Requests, NEW i \in Invites, ReadInvite(q, i) PROVE Same
  BY <1>3 DEF ReadInvite, tableVars
<1>4. ASSUME NEW i \in Invites, Expire(i) PROVE Same
  BY <1>4 DEF Expire
<1>5. CASE UNCHANGED accessVars
  BY <1>5 DEF accessVars, tableVars
<1>. QED
  BY <1>1, <1>2, <1>3, <1>4, <1>5 DEF AccessNext

\* A membership is never overwritten: neither by a new project nor by an
\* invitation that raced with another.
LEMMA RoleStays ==
  ASSUME AccessAssumption, AccessInv, [AccessNext]_accessVars,
         NEW o \in Orgs, NEW u \in Users, role[o][u] # None
  PROVE  role'[o][u] = role[o][u]
<1>. USE DEF AccessInv, AccessTypeOK, Invitations
<1>1. ASSUME NEW v \in Users, NEW p \in Orgs, CreateOrganization(v, p)
      PROVE  role'[o][u] = role[o][u]
  <2>1. o # p
    BY <1>1 DEF CreateOrganization, Founded
  <2>. QED
    BY <1>1, <2>1 DEF CreateOrganization
<1>2. ASSUME NEW q \in Requests, Join(q) PROVE role'[o][u] = role[o][u]
  BY <1>2 DEF Join, MayJoin
<1>. QED
  BY <1>1, <1>2, TablesWrittenBy DEF InsertInvite

\* An invitation keeps its project, address and role.
LEMMA InviteStays ==
  ASSUME AccessAssumption, AccessInv, [AccessNext]_accessVars,
         NEW i \in Invites, invite[i] # None
  PROVE  invite'[i] = invite[i]
<1>1. ASSUME NEW q \in Requests, NEW j \in Invites, InsertInvite(q, j)
      PROVE  invite'[i] = invite[i]
  BY <1>1 DEF InsertInvite, AccessInv, AccessTypeOK
<1>2. invite' = invite \/ \E q \in Requests, j \in Invites : InsertInvite(q, j)
  BY TablesWrittenBy DEF CreateOrganization, Join
<1>. QED
  BY <1>1, <1>2

-----------------------------------------------------------------------------
(* Each part of the invariant is kept by every step. *)

\* What AccessTypeOK says of a request.
RequestType ==
  [user : Users \cup {None}, header : Orgs \cup {None}, org : Orgs \cup {None},
   invitee : Users \cup {None}, role : InviteRoles \cup {None}, invite : Invites \cup {None}]

\* A request that is given a project is still one.
LEMMA RequestTyping ==
  ASSUME AccessTypeOK, NEW q \in Requests, NEW o \in Orgs
  PROVE  /\ request[q] \in RequestType
         /\ [request[q] EXCEPT !.org = o] \in RequestType
<1>1. request[q] \in RequestType
  BY DEF AccessTypeOK, RequestType
<1>2. ASSUME NEW r \in RequestType PROVE [r EXCEPT !.org = o] \in RequestType
  BY <1>2 DEF RequestType
<1>. QED
  BY <1>1, <1>2

\* Every step keeps the types.
LEMMA AccessTypeStep ==
  ASSUME AccessAssumption, AccessInv, [AccessNext]_accessVars
  PROVE  AccessTypeOK'
<1>. USE DEF AccessInv, AccessTypeOK, Invitations
<1>1. CASE UNCHANGED accessVars
  BY <1>1 DEF accessVars, tableVars
<1>2. ASSUME NEW u \in Users, NEW o \in Orgs, CreateOrganization(u, o) PROVE AccessTypeOK'
  BY <1>2 DEF CreateOrganization, Roles
<1>3. ASSUME NEW i \in Invites, Expire(i) PROVE AccessTypeOK'
  BY <1>3 DEF Expire
<1>4. ASSUME NEW q \in Requests, NEW u \in Users, NEW h \in Orgs \cup {None},
             NEW v \in Users \cup {None}, NEW r \in InviteRoles \cup {None},
             Authorise(q, u, h, v, r)
      PROVE  AccessTypeOK'
  BY <1>4 DEF Authorise, Goto, tableVars, AccessAssumption
<1>5. ASSUME NEW q \in Requests, Resolve(q) PROVE AccessTypeOK'
  <2>1. PICK o \in Orgs : request' = [request EXCEPT ![q].org = o]
    BY <1>5 DEF Resolve
  <2>2. [request[q] EXCEPT !.org = o] \in RequestType
    BY RequestTyping
  <2>3. request' = [request EXCEPT ![q] = [request[q] EXCEPT !.org = o]]
    BY <2>1
  <2>4. [request[q] EXCEPT !.org = o].user = request[q].user
    BY RequestTyping DEF RequestType
  <2>. QED
    BY <1>5, <2>2, <2>3, <2>4 DEF Resolve, Goto, tableVars, RequestType
<1>6. ASSUME NEW q \in Requests, Write(q) PROVE AccessTypeOK'
  <2>1. request[q].user \in Users /\ request[q].org \in Orgs
    BY <1>6 DEF Write, AllGranted, Granted
  <2>. QED
    BY <1>6, <2>1 DEF Write, Answer, Goto, tableVars, Idle
<1>7. ASSUME NEW q \in Requests, CheckInvitee(q) PROVE AccessTypeOK'
  BY <1>7 DEF CheckInvitee, Goto, tableVars
<1>8. ASSUME NEW q \in Requests, NEW i \in Invites, InsertInvite(q, i) PROVE AccessTypeOK'
  <2>1. request[q].user \in Users /\ request[q].org \in Orgs
        /\ request[q].invitee \in Users /\ request[q].role \in InviteRoles
    BY <1>8 DEF InsertInvite, AllGranted, Granted
  <2>2. invite'[i] # None
    BY <1>8, <2>1 DEF InsertInvite, AccessAssumption
  <2>. QED
    BY <1>8, <2>1, <2>2 DEF InsertInvite, Answer, Goto, Idle
<1>9. ASSUME NEW q \in Requests, NEW i \in Invites, ReadInvite(q, i) PROVE AccessTypeOK'
  <2>1. invite[i] \in Invitations /\ invite[i].user \in Users
    BY <1>9 DEF ReadInvite
  <2>. QED
    BY <1>9, <2>1 DEF ReadInvite, Goto, tableVars, AccessAssumption
<1>10. ASSUME NEW q \in Requests, CheckMember(q) PROVE AccessTypeOK'
  BY <1>10 DEF CheckMember, Goto, tableVars
<1>11. ASSUME NEW q \in Requests, Join(q) PROVE AccessTypeOK'
  <2>1. request[q].invite \in Invites /\ invite[request[q].invite] # None
    BY <1>11 DEF Join, AllGranted, Granted
  <2>2. invite[request[q].invite] \in Invitations
    BY <2>1
  <2>3. role' \in [Orgs -> [Users -> Roles \cup {None}]]
    BY <1>11, <2>2 DEF Join, InviteRoles, Roles
  <2>4. /\ at' = [at EXCEPT ![q] = "idle"] /\ request' = [request EXCEPT ![q] = Idle]
        /\ accepted' = accepted \cup {request[q].invite}
        /\ UNCHANGED <<owner, invite, expired, acted>>
    BY <1>11 DEF Join, Answer, Goto
  <2>. QED
    BY <2>1, <2>3, <2>4 DEF Idle
<1>12. ASSUME NEW q \in Requests, Fail(q) PROVE AccessTypeOK'
  BY <1>12 DEF Fail, Answer, Goto, Idle, tableVars
<1>. QED
  BY <1>1, <1>2, <1>3, <1>4, <1>5, <1>6, <1>7, <1>8, <1>9, <1>10, <1>11, <1>12 DEF AccessNext

\* A membership or an invitation is made in a project that is there.
LEMMA FoundedStep ==
  ASSUME AccessAssumption, AccessInv, [AccessNext]_accessVars
  PROVE  Founded'
<1>. USE DEF AccessInv, AccessTypeOK, Invitations, Founded
<1>1. ASSUME NEW u \in Users, NEW o \in Orgs, CreateOrganization(u, o) PROVE Founded'
  BY <1>1 DEF CreateOrganization, AccessAssumption
<1>2. ASSUME NEW q \in Requests, NEW i \in Invites, InsertInvite(q, i) PROVE Founded'
  <2>1. request[q].user \in Users /\ request[q].org \in Orgs
        /\ role[request[q].org][request[q].user] \in AdminRoles
    BY <1>2 DEF InsertInvite, AllGranted, Granted
  <2>2. owner[request[q].org] # None
    BY <2>1 DEF AdminRoles, Roles, AccessAssumption
  <2>. QED
    BY <1>2, <2>1, <2>2 DEF InsertInvite
<1>3. ASSUME NEW q \in Requests, Join(q) PROVE Founded'
  <2>1. request[q].invite \in Invites /\ invite[request[q].invite] # None
    BY <1>3 DEF Join, AllGranted, Granted
  <2>. QED
    BY <1>3, <2>1 DEF Join
<1>. QED
  BY <1>1, <1>2, <1>3, TablesWrittenBy

\* What a request has read stays true while it does nothing.
LEMMA GrantedStill ==
  ASSUME AccessAssumption, AccessInv, [AccessNext]_accessVars, NEW q \in Requests,
         at'[q] = at[q], request'[q] = request[q]
  PROVE  Granted(q)'
<1>1. Granted(q)
  BY DEF AccessInv, AllGranted
<1>2. CASE at[q] = "resolve"
  <2>1. PICK o \in Orgs : role[o][request[q].user] \in AdminRoles
                          /\ request[q].header \in {None, o}
    BY <1>1, <1>2 DEF Granted
  <2>2. request[q].user \in Users
    BY <1>1, <1>2 DEF Granted
  <2>3. role'[o][request[q].user] = role[o][request[q].user]
    BY <2>1, <2>2, RoleStays DEF AdminRoles, Roles, AccessAssumption
  <2>. QED
    BY <1>1, <1>2, <2>1, <2>3 DEF Granted
<1>3. CASE at[q] \in {"write", "invitee", "insert"}
  <2>1. role'[request[q].org][request[q].user] = role[request[q].org][request[q].user]
    BY <1>1, <1>3, RoleStays DEF Granted, AdminRoles, Roles, AccessAssumption
  <2>. QED
    BY <1>1, <1>3, <2>1 DEF Granted
<1>4. CASE at[q] \in {"member", "join"}
  BY <1>1, <1>4, InviteStays DEF Granted
<1>. QED
  BY <1>1, <1>2, <1>3, <1>4 DEF Granted, AccessInv, AccessTypeOK

\* The second look-up of the project finds the one that was authorised: a
\* header names it, and without one there is no other.
LEMMA ResolvesToSame ==
  ASSUME AccessAssumption, AccessTypeOK, NEW u \in Users, NEW h \in Orgs \cup {None},
         NEW o \in Orgs, role[o][u] \in AdminRoles, h \in {None, o},
         NEW p \in Orgs, ResolvesTo(u, h, p)
  PROVE  p = o
BY DEF ResolvesTo, AdminRoles, Roles, AccessAssumption

\* The steps of request q.
Moves(q) ==
  \/ \E u \in Users, h \in Orgs \cup {None} :
       \/ Authorise(q, u, h, None, None)
       \/ \E v \in Users, r \in InviteRoles : Authorise(q, u, h, v, r)
  \/ Resolve(q) \/ Write(q) \/ CheckInvitee(q)
  \/ \E i \in Invites : InsertInvite(q, i) \/ ReadInvite(q, i)
  \/ CheckMember(q) \/ Join(q) \/ Fail(q)

\* What a request does leaves the others where they are.
LEMMA MovesAlone ==
  ASSUME AccessInv, NEW p \in Requests, Moves(p), NEW q \in Requests \ {p}
  PROVE  at'[q] = at[q] /\ request'[q] = request[q]
<1>. DEFINE Alone == at'[q] = at[q] /\ request'[q] = request[q]
<1>1. (DOMAIN at = Requests) /\ (DOMAIN request = Requests)
  BY DEF AccessInv, AccessTypeOK
<1>2. ASSUME NEW u, NEW h, NEW v, NEW r, Authorise(p, u, h, v, r) PROVE Alone
  BY <1>1, <1>2 DEF Authorise, Goto
<1>3. CASE Resolve(p) \/ CheckInvitee(p) \/ CheckMember(p)
  BY <1>1, <1>3 DEF Resolve, CheckInvitee, CheckMember, Goto
<1>4. CASE Write(p) \/ Join(p) \/ Fail(p)
  BY <1>1, <1>4 DEF Write, Join, Fail, Answer, Goto
<1>5. ASSUME NEW i \in Invites, InsertInvite(p, i) \/ ReadInvite(p, i) PROVE Alone
  BY <1>1, <1>5 DEF InsertInvite, ReadInvite, Answer, Goto
<1>. QED
  BY <1>2, <1>3, <1>4, <1>5 DEF Moves

\* A request that goes on has read what its next step needs.
LEMMA GrantedMove ==
  ASSUME AccessAssumption, AccessInv, NEW q \in Requests,
         Moves(q)
  PROVE  Granted(q)'
<1>. USE DEF AccessInv, AccessTypeOK, Invitations
<1>1. Granted(q)
  BY DEF AllGranted
<1>2. ASSUME NEW u \in Users, NEW h \in Orgs \cup {None},
             NEW v \in Users \cup {None}, NEW r \in InviteRoles \cup {None},
             v # None => r \in InviteRoles, Authorise(q, u, h, v, r)
      PROVE  Granted(q)'
  BY <1>2 DEF Authorise, ResolvesTo, Goto, tableVars, Granted
<1>3. CASE Resolve(q)
  <2>1. PICK p \in Orgs : /\ ResolvesTo(request[q].user, request[q].header, p)
                          /\ request' = [request EXCEPT ![q].org = p]
    BY <1>3 DEF Resolve
  <2>2. PICK o \in Orgs : role[o][request[q].user] \in AdminRoles
                          /\ request[q].header \in {None, o}
    BY <1>1, <1>3 DEF Resolve, Granted
  <2>3. request[q].user \in Users /\ request[q].header \in Orgs \cup {None}
    BY <1>1, <1>3 DEF Resolve, Granted
  <2>4. p = o
    BY <2>1, <2>2, <2>3, ResolvesToSame
  <2>5. /\ request'[q].org = p
        /\ request'[q].user = request[q].user
        /\ request'[q].invitee = request[q].invitee
        /\ request'[q].role = request[q].role
    BY <2>1
  <2>6. /\ at'[q] = IF request[q].invitee = None THEN "write" ELSE "invitee"
        /\ role' = role
    BY <1>3 DEF Resolve, Goto, tableVars
  <2>. QED
    BY <1>1, <1>3, <2>2, <2>3, <2>4, <2>5, <2>6 DEF Resolve, Granted
<1>4. CASE CheckInvitee(q)
  BY <1>1, <1>4 DEF CheckInvitee, Goto, tableVars, Granted
<1>5. ASSUME NEW i \in Invites, ReadInvite(q, i) PROVE Granted(q)'
  <2>1. invite[i] \in Invitations
    BY <1>5 DEF ReadInvite
  <2>2. /\ request'[q].user = invite[i].user /\ request'[q].invite = i
        /\ at'[q] = "member" /\ invite' = invite
    BY <1>5 DEF ReadInvite, Goto, tableVars
  <2>. QED
    BY <1>5, <2>1, <2>2 DEF ReadInvite, Granted
<1>6. CASE CheckMember(q)
  BY <1>1, <1>6 DEF CheckMember, Goto, tableVars, Granted
<1>7. ASSUME at'[q] = "idle" PROVE Granted(q)'
  BY <1>7 DEF Granted
<1>8. CASE Write(q) \/ Join(q) \/ Fail(q) \/ \E i \in Invites : InsertInvite(q, i)
  BY <1>7, <1>8 DEF Write, Join, Fail, InsertInvite, Answer, Goto
<1>. QED
  BY <1>2, <1>3, <1>4, <1>5, <1>6, <1>8 DEF Moves, AccessAssumption

\* An acceptance, spelled out.
LEMMA JoinEffect ==
  ASSUME AccessAssumption, AccessInv, NEW q \in Requests, Join(q)
  PROVE  LET i == request[q].invite IN
         /\ i \in Invites /\ invite[i] \in Invitations /\ request[q].user = invite[i].user
         /\ invite[i].org \in Orgs /\ invite[i].user \in Users /\ invite[i].role \in InviteRoles
         /\ role[invite[i].org][invite[i].user] = None
         /\ role' = [role EXCEPT ![invite[i].org][invite[i].user] = invite[i].role]
         /\ accepted' = accepted \cup {i} /\ invite' = invite
<1>. DEFINE i == request[q].invite
<1>1. i \in Invites /\ invite[i] # None /\ request[q].user = invite[i].user
  BY DEF Join, AccessInv, AllGranted, Granted
<1>2. invite[i] \in Invitations
  BY <1>1 DEF AccessInv, AccessTypeOK
<1>3. invite[i].org \in Orgs /\ invite[i].user \in Users /\ invite[i].role \in InviteRoles
  BY <1>2 DEF Invitations
<1>4. /\ role[invite[i].org][invite[i].user] = None
      /\ role' = [role EXCEPT ![invite[i].org][invite[i].user] = invite[i].role]
      /\ accepted' = accepted \cup {i} /\ invite' = invite
  BY <1>1 DEF Join, MayJoin
<1>. QED
  BY <1>1, <1>2, <1>3, <1>4

\* Every step keeps what requests have read in agreement with the tables.
LEMMA GrantedStep ==
  ASSUME AccessAssumption, AccessInv, [AccessNext]_accessVars
  PROVE  AllGranted'
<1>. SUFFICES ASSUME NEW q \in Requests PROVE Granted(q)'
  BY DEF AllGranted
<1>1. CASE Moves(q)
  BY <1>1, GrantedMove
<1>2. ASSUME NEW p \in Requests \ {q}, Moves(p) PROVE Granted(q)'
  <2>1. at'[q] = at[q] /\ request'[q] = request[q]
    BY <1>2, MovesAlone
  <2>. QED
    BY <2>1, GrantedStill
<1>3. CASE UNCHANGED <<at, request>>
  BY <1>3, GrantedStill
<1>4. (\E p \in Requests : Moves(p)) \/ UNCHANGED <<at, request>>
  BY DEF AccessNext, accessVars, CreateOrganization, Expire, Moves
<1>. QED
  BY <1>1, <1>2, <1>3, <1>4

\* Only a new project gets an owner, in both tables at once.
LEMMA OwnerStep ==
  ASSUME AccessAssumption, AccessInv, [AccessNext]_accessVars
  PROVE  OneOwner'
<1>. SUFFICES ASSUME NEW o \in Orgs, NEW u \in Users
              PROVE  role'[o][u] = "owner" <=> owner'[o] = u
  BY DEF OneOwner
<1>1. role[o][u] = "owner" <=> owner[o] = u
  BY DEF AccessInv, OneOwner
<1>2. ASSUME NEW v \in Users, NEW p \in Orgs, CreateOrganization(v, p)
      PROVE  role'[o][u] = "owner" <=> owner'[o] = u
  <2>1. CASE o = p
    <3>1. owner[o] = None /\ owner'[o] = v /\ role[o][u] = None
      BY <1>2, <2>1 DEF CreateOrganization, AccessInv, AccessTypeOK, Founded
    <3>2. role'[o][u] = IF u = v THEN "owner" ELSE None
      BY <1>2, <2>1, <3>1 DEF CreateOrganization, AccessInv, AccessTypeOK
    <3>. QED
      BY <3>1, <3>2 DEF AccessAssumption, Roles
  <2>2. CASE o # p
    BY <1>1, <1>2, <2>2 DEF CreateOrganization, AccessInv, AccessTypeOK
  <2>. QED
    BY <2>1, <2>2
<1>3. ASSUME NEW q \in Requests, Join(q)
      PROVE  role'[o][u] = "owner" <=> owner'[o] = u
  <2>1. role'[o][u] = role[o][u] \/ (role[o][u] = None /\ role'[o][u] \in InviteRoles)
    <3>1. PICK p \in Orgs, v \in Users, r \in InviteRoles :
            role[p][v] = None /\ role' = [role EXCEPT ![p][v] = r]
      BY <1>3, JoinEffect
    <3>2. role \in [Orgs -> [Users -> Roles \cup {None}]]
      BY DEF AccessInv, AccessTypeOK
    <3>3. CASE o = p /\ u = v
      BY <3>1, <3>2, <3>3
    <3>4. CASE ~(o = p /\ u = v)
      BY <3>1, <3>2, <3>4
    <3>. QED
      BY <3>3, <3>4
  <2>. QED
    BY <1>1, <1>3, <2>1 DEF Join, InviteRoles, Roles, AccessAssumption
<1>4. ASSUME role' = role, owner' = owner
      PROVE  role'[o][u] = "owner" <=> owner'[o] = u
  BY <1>1, <1>4
<1>. QED
  BY <1>2, <1>3, <1>4, TablesWrittenBy DEF InsertInvite

\* JoinedByInvitation for one project and user.
Paired(o, u) ==
  IF role[o][u] \in InviteRoles
    THEN \E i \in UsedInvites(o, u) :
           UsedInvites(o, u) = {i} /\ invite[i].role = role[o][u]
    ELSE UsedInvites(o, u) = {}

\* Acceptances and memberships come in pairs.
LEMMA JoinedStep ==
  ASSUME AccessAssumption, AccessInv, [AccessNext]_accessVars
  PROVE  JoinedByInvitation'
<1>1. \A o \in Orgs, u \in Users : Paired(o, u)
  BY DEF AccessInv, JoinedByInvitation, Paired
<1>2. \A i \in accepted : i \in Invites /\ invite'[i] = invite[i]
  BY InviteStays DEF AccessInv, AccessTypeOK
<1>. SUFFICES ASSUME NEW o \in Orgs, NEW u \in Users PROVE Paired(o, u)'
  BY DEF JoinedByInvitation, Paired
<1>3. CASE accepted' = accepted /\ role'[o][u] = role[o][u]
  <2>1. UsedInvites(o, u)' = UsedInvites(o, u)
    BY <1>2, <1>3 DEF UsedInvites
  <2>2. Paired(o, u) /\ \A i \in UsedInvites(o, u) : invite'[i] = invite[i]
    BY <1>1, <1>2 DEF UsedInvites
  <2>. QED
    BY <1>3, <2>1, <2>2 DEF Paired
<1>4. ASSUME NEW v \in Users, NEW p \in Orgs, CreateOrganization(v, p)
      PROVE  Paired(o, u)'
  <2>1. CASE o = p /\ u = v
    <3>1. role[o][u] = None /\ role'[o][u] = "owner" /\ accepted' = accepted
      BY <1>4, <2>1 DEF CreateOrganization, AccessInv, AccessTypeOK, Founded
    <3>2. UsedInvites(o, u) = {}
      BY <1>1, <3>1 DEF Paired, InviteRoles, Roles, AccessAssumption
    <3>3. UsedInvites(o, u)' = {}
      BY <1>2, <3>1, <3>2 DEF UsedInvites
    <3>. QED
      BY <3>1, <3>3 DEF Paired, InviteRoles
  <2>2. CASE ~(o = p /\ u = v)
    <3>1. accepted' = accepted /\ role'[o][u] = role[o][u]
      BY <1>4, <2>2 DEF CreateOrganization, AccessInv, AccessTypeOK
    <3>. QED
      BY <1>3, <3>1
  <2>. QED
    BY <2>1, <2>2
<1>5. ASSUME NEW q \in Requests, Join(q) PROVE Paired(o, u)'
  <2>. DEFINE i == request[q].invite
  <2>1. /\ i \in Invites /\ invite[i] \in Invitations /\ request[q].user = invite[i].user
        /\ invite[i].org \in Orgs /\ invite[i].user \in Users /\ invite[i].role \in InviteRoles
        /\ role[invite[i].org][invite[i].user] = None
        /\ role' = [role EXCEPT ![invite[i].org][invite[i].user] = invite[i].role]
        /\ accepted' = accepted \cup {i} /\ invite' = invite
    BY <1>5, JoinEffect
  <2>2. CASE o = invite[i].org /\ u = invite[i].user
    <3>1. UsedInvites(o, u) = {}
      BY <1>1, <2>1, <2>2 DEF Paired, InviteRoles, Roles, AccessAssumption
    <3>2. UsedInvites(o, u)' = {i}
      BY <2>1, <2>2, <3>1 DEF UsedInvites
    <3>3. role'[o][u] = invite[i].role
      BY <2>1, <2>2 DEF AccessInv, AccessTypeOK
    <3>. QED
      BY <2>1, <3>2, <3>3 DEF Paired
  <2>3. CASE ~(o = invite[i].org /\ u = invite[i].user)
    <3>1. UsedInvites(o, u)' = UsedInvites(o, u)
      BY <2>1, <2>3 DEF UsedInvites
    <3>2. role'[o][u] = role[o][u]
      BY <2>1, <2>3 DEF AccessInv, AccessTypeOK
    <3>3. Paired(o, u)
      BY <1>1
    <3>. QED
      BY <2>1, <3>1, <3>2, <3>3 DEF Paired
  <2>. QED
    BY <2>2, <2>3
<1>. QED
  BY <1>3, <1>4, <1>5, TablesWrittenBy DEF InsertInvite

\* Writes are made in projects that were authorised, and admins stay admins.
LEMMA ActsStep ==
  ASSUME AccessAssumption, AccessInv, [AccessNext]_accessVars
  PROVE  ActsWhereAdmin'
<1>. SUFFICES ASSUME NEW x \in acted' PROVE role'[x[2]][x[1]] \in AdminRoles
  BY DEF ActsWhereAdmin
<1>1. x[1] \in Users /\ x[2] \in Orgs /\ role[x[2]][x[1]] \in AdminRoles
  <2>1. CASE x \in acted
    BY <2>1 DEF AccessInv, AccessTypeOK, ActsWhereAdmin
  <2>2. ASSUME NEW q \in Requests, x = <<request[q].user, request[q].org>>,
               at[q] \in {"write", "insert"}
        PROVE  x[1] \in Users /\ x[2] \in Orgs /\ role[x[2]][x[1]] \in AdminRoles
    BY <2>2 DEF AccessInv, AllGranted, Granted
  <2>3. ASSUME NEW q \in Requests, Write(q) \/ \E i \in Invites : InsertInvite(q, i)
        PROVE  x \in acted \/ (x = <<request[q].user, request[q].org>>
                                /\ at[q] \in {"write", "insert"})
    BY <2>3 DEF Write, InsertInvite
  <2>4. acted' = acted
        \/ \E q \in Requests : Write(q) \/ \E i \in Invites : InsertInvite(q, i)
    BY DEF AccessNext, accessVars, CreateOrganization, Expire, Authorise, Resolve,
           CheckInvitee, ReadInvite, CheckMember, Join, Fail
  <2>. QED
    BY <2>1, <2>2, <2>3, <2>4
<1>. QED
  BY <1>1, RoleStays DEF AdminRoles, Roles, AccessAssumption

-----------------------------------------------------------------------------
(* Theorems *)

\* The inductive invariant: the tables agree, and what each request has read
\* of them still holds when it writes.
THEOREM AccessInvariant ==
  ASSUME AccessAssumption
  PROVE  AccessSpec => []AccessInv
<1>1. AccessInv /\ [AccessNext]_accessVars => AccessInv'
  BY AccessTypeStep, FoundedStep, GrantedStep, OwnerStep, JoinedStep, ActsStep DEF AccessInv
<1>. QED
  BY <1>1, AccessInitHolds, PTL DEF AccessSpec

\* A project has one owner, the same in both tables; memberships, invitations and
\* the requests that write them keep their types.
THEOREM AccessSafeHolds ==
  ASSUME AccessAssumption
  PROVE  AccessSpec => []AccessSafe
<1>1. AccessInv => AccessSafe
  BY DEF AccessInv, AccessSafe
<1>. QED
  BY <1>1, AccessInvariant, PTL

\* A membership comes of one accepted invitation, however many are accepted at
\* once.
THEOREM JoinedByInvitationHolds ==
  ASSUME AccessAssumption
  PROVE  AccessSpec => []JoinedByInvitation
<1>1. AccessInv => JoinedByInvitation
  BY DEF AccessInv
<1>. QED
  BY <1>1, AccessInvariant, PTL

\* Nobody writes in a project without being its admin.
THEOREM ActsWhereAdminHolds ==
  ASSUME AccessAssumption
  PROVE  AccessSpec => []ActsWhereAdmin
<1>1. AccessInv => ActsWhereAdmin
  BY DEF AccessInv
<1>. QED
  BY <1>1, AccessInvariant, PTL

-----------------------------------------------------------------------------
(* Credentials: sign-up and tokens *)

\* Addresses are stored and asked for in lower case.
Lower ==
  /\ \A u \in users : Fold[u] = u
  /\ \A q \in Entries : subject[q] # Nil => Fold[subject[q]] = subject[q]

\* Who is about to get a token is there: users are not removed.
Present == \A q \in Entries : stage[q] \in {"get", "create"} => subject[q] \in users

CredentialsInv == CredentialsTypeOK /\ Lower /\ Present /\ TokenIsOne

\* The variables keep their types; only users have tokens.
LEMMA CredentialsTypeStep ==
  ASSUME CredentialsAssumption, CredentialsInv, [CredentialsNext]_credentialsVars
  PROVE  CredentialsTypeOK'
<1>. USE DEF CredentialsInv, CredentialsTypeOK, CredentialsAssumption
<1>1. CASE UNCHANGED credentialsVars
  BY <1>1 DEF credentialsVars
<1>2. ASSUME NEW s \in Spellings, AddByStaff(s) PROVE CredentialsTypeOK'
  BY <1>2 DEF AddByStaff
<1>3. ASSUME NEW q \in Entries, NEW s \in Spellings, CheckAddress(q, s) \/ Login(q, s)
      PROVE  CredentialsTypeOK'
  BY <1>3 DEF CheckAddress, Login, Start
<1>4. ASSUME NEW q \in Entries, NEW t \in Tokens, InsertUser(q, t) PROVE CredentialsTypeOK'
  BY <1>4 DEF InsertUser, Give, Finish
<1>5. ASSUME NEW q \in Entries, NEW t \in Tokens, CreateToken(q, t) PROVE CredentialsTypeOK'
  BY <1>5 DEF CreateToken, Give, Finish, Present
<1>6. ASSUME NEW q \in Entries, GetToken(q) PROVE CredentialsTypeOK'
  BY <1>6 DEF GetToken, Give, Finish
<1>7. ASSUME NEW q \in Entries, Abort(q) PROVE CredentialsTypeOK'
  BY <1>7 DEF Abort, Finish
<1>. QED
  BY <1>1, <1>2, <1>3, <1>4, <1>5, <1>6, <1>7 DEF CredentialsNext

\* Staff type in lower case, and everybody else's spelling is folded.
LEMMA LowerStep ==
  ASSUME CredentialsAssumption, CredentialsInv, [CredentialsNext]_credentialsVars
  PROVE  Lower' /\ Present'
<1>. USE DEF CredentialsInv, CredentialsTypeOK, CredentialsAssumption, Lower, Present
<1>1. CASE UNCHANGED credentialsVars
  BY <1>1 DEF credentialsVars
<1>2. ASSUME NEW s \in Spellings, AddByStaff(s) PROVE Lower' /\ Present'
  BY <1>2 DEF AddByStaff
<1>3. ASSUME NEW q \in Entries, NEW s \in Spellings, CheckAddress(q, s) \/ Login(q, s)
      PROVE  Lower' /\ Present'
  BY <1>3 DEF CheckAddress, Login, Start
<1>4. ASSUME NEW q \in Entries, NEW t \in Tokens, InsertUser(q, t) \/ CreateToken(q, t)
      PROVE  Lower' /\ Present'
  BY <1>4 DEF InsertUser, CreateToken, Finish
<1>5. ASSUME NEW q \in Entries, GetToken(q) \/ Abort(q) PROVE Lower' /\ Present'
  BY <1>5 DEF GetToken, Abort, Finish
<1>. QED
  BY <1>1, <1>2, <1>3, <1>4, <1>5 DEF CredentialsNext

\* A token is written only for a user who has none, and nobody was given
\* another one before.
LEMMA TokenStep ==
  ASSUME CredentialsInv, [CredentialsNext]_credentialsVars, CredentialsAssumption
  PROVE  TokenIsOne'
<1>. USE DEF CredentialsInv, CredentialsTypeOK, CredentialsAssumption, TokenIsOne
<1>1. CASE UNCHANGED <<token, answered>>
  BY <1>1
<1>2. ASSUME NEW q \in Entries, NEW t \in Tokens, InsertUser(q, t) PROVE TokenIsOne'
  BY <1>2 DEF InsertUser, Give
<1>3. ASSUME NEW q \in Entries, NEW t \in Tokens, CreateToken(q, t) PROVE TokenIsOne'
  BY <1>3 DEF CreateToken, Give, Present
<1>4. ASSUME NEW q \in Entries, GetToken(q) PROVE TokenIsOne'
  BY <1>4 DEF GetToken, Give
<1>. QED
  BY <1>1, <1>2, <1>3, <1>4
  DEF CredentialsNext, credentialsVars, AddByStaff, CheckAddress, Login, Abort

\* However registrations and logins race, an address has one user and a user one
\* token, the one that everybody was given.
THEOREM CredentialsSafeHolds ==
  ASSUME CredentialsAssumption
  PROVE  CredentialsSpec => []CredentialsSafe
<1>1. CredentialsInit => CredentialsInv
  BY DEF CredentialsAssumption, CredentialsInit, CredentialsInv, CredentialsTypeOK, Lower,
         Present, TokenIsOne
<1>2. CredentialsInv /\ [CredentialsNext]_credentialsVars => CredentialsInv'
  BY CredentialsTypeStep, LowerStep, TokenStep DEF CredentialsInv
<1>3. CredentialsInv => CredentialsSafe
  BY DEF CredentialsInv, Lower, CredentialsSafe, AddressNamesOne
<1>. QED
  BY <1>1, <1>2, <1>3, PTL DEF CredentialsSpec

-----------------------------------------------------------------------------
(* Gateway: the receipts of the simulated provider *)

\* What worker w holds in memory is what the tables say.
Holds(w) ==
  /\ pc[w] # "idle" =>
       /\ job[w] \in Attempts
       /\ snapshot[job[w]] # Null
       /\ asked[w] = snapshot[job[w]]
  /\ pc[w] = "insert" => draw[w] \in Results
  /\ pc[w] \in {"reread", "compare"} => receipt[job[w]] # Null
  /\ pc[w] = "compare" => seen[w] = receipt[job[w]]

Memory == \A w \in Workers : Holds(w)

\* A receipt was made for the attempt's own copy of the card.
Signed ==
  \A a \in Attempts :
    receipt[a] # Null => snapshot[a] # Null /\ receipt[a].fingerprint = snapshot[a]

\* Whoever was told something was told what the receipt says.
ToldReceipt ==
  \A x \in told : receipt[x[2]] # Null /\ x[3] = receipt[x[2]].result

GatewayInv == GatewayTypeOK /\ Memory /\ Signed /\ ToldReceipt /\ NeverRefused

\* Nothing is charged at first.
LEMMA InitHolds ==
  ASSUME GatewayAssumption, GatewayInit
  PROVE  GatewayInv
BY DEF GatewayInit, GatewayInv, GatewayTypeOK, Memory, Holds, Signed, ToldReceipt, NeverRefused

\* Every step keeps the types.
LEMMA GatewayTypeStep ==
  ASSUME GatewayAssumption, GatewayInv, [GatewayNext]_gatewayVars
  PROVE  GatewayTypeOK'
<1>. USE DEF GatewayInv, GatewayTypeOK
<1>1. CASE UNCHANGED gatewayVars
  BY <1>1 DEF gatewayVars, bookVars, callVars
<1>2. ASSUME NEW c \in Cards, EditCustomer(c) PROVE GatewayTypeOK'
  BY <1>2 DEF EditCustomer, callVars
<1>3. ASSUME NEW a \in Attempts, MakeAttempt(a) PROVE GatewayTypeOK'
  BY <1>3 DEF MakeAttempt, callVars
<1>4. ASSUME NEW a \in Attempts, NEW c \in Cards, SaveAttempt(a, c) PROVE GatewayTypeOK'
  BY <1>4 DEF SaveAttempt, callVars
<1>5. ASSUME NEW a \in Attempts, NEW w \in Workers, Call(w, a) PROVE GatewayTypeOK'
  BY <1>5 DEF Call, CardOf, GoTo, bookVars, GatewayAssumption
<1>6. ASSUME NEW w \in Workers, Look(w) PROVE GatewayTypeOK'
  <2>. USE DEF Look, GoTo, bookVars
  <2>1. job[w] \in Attempts
    BY <1>6 DEF Memory, Holds
  <2>2. CASE receipt[job[w]] # Null
    BY <1>6, <2>1, <2>2
  <2>3. CASE receipt[job[w]] = Null
    <3>1. PICK s \in BOOLEAN, c \in Charges \ used :
            draw' = [draw EXCEPT ![w] = [success |-> s, charge |-> c]] /\ used' = used \cup {c}
      BY <1>6, <2>3
    <3>2. [success |-> s, charge |-> c] \in Results
      BY DEF Results
    <3>. QED
      BY <1>6, <2>3, <3>1, <3>2
  <2>. QED
    BY <2>2, <2>3
<1>7. ASSUME NEW w \in Workers, Insert(w) PROVE GatewayTypeOK'
  <2>1. job[w] \in Attempts /\ asked[w] \in Cards /\ draw[w] \in Results
    BY <1>7 DEF Insert, Memory, Holds
  <2>2. [fingerprint |-> asked[w], result |-> draw[w]] \in Receipts
    BY <2>1 DEF Receipts
  <2>. QED
    BY <1>7, <2>1, <2>2 DEF Insert, GoTo, bookVars
<1>8. ASSUME NEW w \in Workers, Reread(w) PROVE GatewayTypeOK'
  BY <1>8 DEF Reread, GoTo, bookVars, Memory, Holds
<1>9. ASSUME NEW w \in Workers, Compare(w) PROVE GatewayTypeOK'
  <2>1. job[w] \in Attempts /\ seen[w] \in Receipts
    BY <1>9 DEF Compare, Memory, Holds
  <2>2. seen[w].result \in Results
    BY <2>1 DEF Receipts
  <2>. QED
    BY <1>9, <2>1, <2>2 DEF Compare, Leave, GoTo, bookVars
<1>10. ASSUME NEW w \in Workers, Die(w) PROVE GatewayTypeOK'
  BY <1>10 DEF Die, Leave, GoTo, bookVars
<1>. QED
  BY <1>1, <1>2, <1>3, <1>4, <1>5, <1>6, <1>7, <1>8, <1>9, <1>10 DEF GatewayNext

\* The unique key keeps a receipt, once there, as it is.
LEMMA ReceiptStays ==
  ASSUME GatewayAssumption, GatewayInv, [GatewayNext]_gatewayVars,
         NEW a \in Attempts, receipt[a] # Null
  PROVE  receipt'[a] = receipt[a]
<1>1. ASSUME NEW w \in Workers, Insert(w) PROVE receipt'[a] = receipt[a]
  BY <1>1 DEF Insert, GatewayInv, GatewayTypeOK, Memory, Holds
<1>. QED
  BY <1>1 DEF GatewayNext, gatewayVars, EditCustomer, MakeAttempt, SaveAttempt, Call, Look,
              Reread, Compare, Die

\* PaymentAttempt.clean keeps the copy of the card, once made, as it is.
LEMMA SnapshotStays ==
  ASSUME GatewayAssumption, GatewayInv, [GatewayNext]_gatewayVars,
         NEW a \in Attempts, snapshot[a] # Null
  PROVE  snapshot'[a] = snapshot[a]
BY DEF GatewayInv, GatewayTypeOK, GatewayNext, gatewayVars, bookVars, EditCustomer,
       MakeAttempt, SaveAttempt, MaySave, Call, Look, Insert, Reread, Compare, Die

\* A worker that does not move holds what it held: rows are not changed.
LEMMA HoldsStill ==
  ASSUME GatewayAssumption, GatewayInv, [GatewayNext]_gatewayVars, NEW w \in Workers,
         pc'[w] = pc[w], job'[w] = job[w], asked'[w] = asked[w],
         draw'[w] = draw[w], seen'[w] = seen[w]
  PROVE  Holds(w)'
<1>1. Holds(w)
  BY DEF GatewayInv, Memory
<1>2. CASE pc[w] = "idle"
  BY <1>2 DEF Holds
<1>3. CASE pc[w] # "idle"
  <2>1. job[w] \in Attempts /\ snapshot'[job[w]] = snapshot[job[w]]
    BY <1>1, <1>3, SnapshotStays DEF Holds
  <2>2. receipt[job[w]] # Null => receipt'[job[w]] = receipt[job[w]]
    BY <2>1, ReceiptStays
  <2>. QED
    BY <1>1, <1>3, <2>1, <2>2 DEF Holds
<1>. QED
  BY <1>2, <1>3

\* The worker that moves holds what its next statement needs.
LEMMA HoldsMove ==
  ASSUME GatewayAssumption, GatewayInv, NEW w \in Workers,
         \/ \E a \in Attempts : Call(w, a)
         \/ Look(w) \/ Insert(w) \/ Reread(w) \/ Compare(w) \/ Die(w)
  PROVE  Holds(w)'
<1>. USE DEF GatewayInv, GatewayTypeOK, GoTo, bookVars
<1>1. Holds(w)
  BY DEF Memory
<1>2. ASSUME NEW a \in Attempts, Call(w, a) PROVE Holds(w)'
  BY <1>2 DEF Call, CardOf, Holds
<1>3. CASE Look(w)
  <2>1. CASE receipt[job[w]] # Null
    BY <1>1, <1>3, <2>1 DEF Look, Holds
  <2>2. CASE receipt[job[w]] = Null
    <3>1. PICK s \in BOOLEAN, c \in Charges \ used :
            draw' = [draw EXCEPT ![w] = [success |-> s, charge |-> c]]
      BY <1>3, <2>2 DEF Look
    <3>2. [success |-> s, charge |-> c] \in Results
      BY DEF Results
    <3>. QED
      BY <1>1, <1>3, <2>2, <3>1, <3>2 DEF Look, Holds
  <2>. QED
    BY <2>1, <2>2
<1>4. CASE Insert(w)
  <2>1. job[w] \in Attempts /\ asked[w] \in Cards /\ draw[w] \in Results
    BY <1>1, <1>4 DEF Insert, Holds
  <2>2. [fingerprint |-> asked[w], result |-> draw[w]] # Null
    BY <2>1 DEF Receipts, GatewayAssumption
  <2>. QED
    BY <1>1, <1>4, <2>1, <2>2 DEF Insert, Holds
<1>5. CASE Reread(w)
  BY <1>1, <1>5 DEF Reread, Holds
<1>6. CASE Compare(w) \/ Die(w)
  BY <1>6 DEF Compare, Die, Leave, Holds
<1>. QED
  BY <1>2, <1>3, <1>4, <1>5, <1>6

\* Every step keeps what workers hold in agreement with the tables.
LEMMA MemoryStep ==
  ASSUME GatewayAssumption, GatewayInv, [GatewayNext]_gatewayVars
  PROVE  Memory'
<1>. SUFFICES ASSUME NEW w \in Workers PROVE Holds(w)'
  BY DEF Memory
<1>1. CASE \/ \E a \in Attempts : Call(w, a)
           \/ Look(w) \/ Insert(w) \/ Reread(w) \/ Compare(w) \/ Die(w)
  BY <1>1, HoldsMove
<1>2. CASE UNCHANGED callVars
  BY <1>2, HoldsStill DEF callVars
<1>3. CASE \E v \in Workers \ {w} :
             \/ \E a \in Attempts : Call(v, a)
             \/ Look(v) \/ Insert(v) \/ Reread(v) \/ Compare(v) \/ Die(v)
  <2>1. pc'[w] = pc[w] /\ job'[w] = job[w] /\ asked'[w] = asked[w]
        /\ draw'[w] = draw[w] /\ seen'[w] = seen[w]
    BY <1>3 DEF Call, Look, Insert, Reread, Compare, Die, Leave, GoTo,
                GatewayInv, GatewayTypeOK
  <2>. QED
    BY <2>1, HoldsStill
<1>. QED
  BY <1>1, <1>2, <1>3
  DEF GatewayNext, gatewayVars, EditCustomer, MakeAttempt, SaveAttempt

\* A receipt is signed with the card of the attempt it was made for.
LEMMA SignedStep ==
  ASSUME GatewayAssumption, GatewayInv, [GatewayNext]_gatewayVars
  PROVE  Signed'
<1>. SUFFICES ASSUME NEW a \in Attempts, receipt'[a] # Null
              PROVE  snapshot'[a] # Null /\ receipt'[a].fingerprint = snapshot'[a]
  BY DEF Signed
<1>1. CASE receipt[a] # Null
  BY <1>1, ReceiptStays, SnapshotStays DEF GatewayInv, Signed
<1>2. CASE receipt[a] = Null
  <2>1. PICK w \in Workers : Insert(w)
    BY <1>2 DEF GatewayNext, gatewayVars, EditCustomer, MakeAttempt, SaveAttempt, Call, Look,
                Reread, Compare, Die
  <2>2. Holds(w) /\ pc[w] = "insert"
    BY <2>1 DEF GatewayInv, Memory, Insert
  <2>3. a = job[w] /\ receipt'[a] = [fingerprint |-> asked[w], result |-> draw[w]]
    BY <1>2, <2>1 DEF Insert, GatewayInv, GatewayTypeOK
  <2>. QED
    BY <2>2, <2>3, SnapshotStays DEF Holds
<1>. QED
  BY <1>1, <1>2

\* What was told stays what the receipt says.
LEMMA ToldStep ==
  ASSUME GatewayAssumption, GatewayInv, [GatewayNext]_gatewayVars
  PROVE  ToldReceipt'
<1>. SUFFICES ASSUME NEW x \in told'
              PROVE  receipt'[x[2]] # Null /\ x[3] = receipt'[x[2]].result
  BY DEF ToldReceipt
<1>1. CASE x \in told
  <2>1. x[2] \in Attempts
    BY <1>1 DEF GatewayInv, GatewayTypeOK
  <2>. QED
    BY <1>1, <2>1, ReceiptStays DEF GatewayInv, ToldReceipt
<1>2. CASE x \notin told
  <2>1. PICK w \in Workers : Compare(w)
    BY <1>2 DEF GatewayNext, gatewayVars, EditCustomer, MakeAttempt, SaveAttempt, Call, Look,
                Insert, Reread, Die
  <2>2. Holds(w) /\ x = <<w, job[w], seen[w].result>> /\ receipt' = receipt
    BY <1>2, <2>1 DEF GatewayInv, Memory, Compare
  <2>. QED
    BY <2>1, <2>2 DEF Holds, Compare
<1>. QED
  BY <1>1, <1>2

\* No call is refused: the request and the receipt both hold the attempt's copy.
LEMMA RefusedStep ==
  ASSUME GatewayAssumption, GatewayInv, [GatewayNext]_gatewayVars
  PROVE  NeverRefused'
<1>1. ASSUME NEW w \in Workers, Compare(w) PROVE NeverRefused'
  <2>1. Holds(w) /\ pc[w] = "compare"
    BY <1>1 DEF GatewayInv, Memory, Compare
  <2>2. seen[w].fingerprint = asked[w]
    BY <2>1 DEF Holds, GatewayInv, Signed
  <2>. QED
    BY <1>1, <2>2 DEF Compare, GatewayInv, NeverRefused
<1>. QED
  BY <1>1 DEF GatewayNext, gatewayVars, EditCustomer, MakeAttempt, SaveAttempt, Call, Look,
              Insert, Reread, Die, GatewayInv, NeverRefused

-----------------------------------------------------------------------------
(* Theorems *)

\* The inductive invariant: what is in memory, in the receipts and in the
\* answers agrees at every point of every call.
THEOREM GatewayInvariant ==
  ASSUME GatewayAssumption
  PROVE  GatewaySpec => []GatewayInv
<1>1. GatewayInv /\ [GatewayNext]_gatewayVars => GatewayInv'
  BY GatewayTypeStep, MemoryStep, SignedStep, ToldStep, RefusedStep DEF GatewayInv
<1>. QED
  BY <1>1, InitHolds, PTL DEF GatewaySpec

\* All callers for one attempt, however many and whenever, are told one result,
\* and the program never sends one key with two cards.
THEOREM GatewaySafeHolds ==
  ASSUME GatewayAssumption
  PROVE  GatewaySpec => []GatewaySafe
<1>1. GatewayInv => GatewaySafe
  BY DEF GatewayInv, ToldReceipt, GatewaySafe, OneAnswer
<1>. QED
  BY <1>1, GatewayInvariant, PTL

\* The statements of charge(), raced and interrupted in any way, implement a
\* provider that decides each key in one step.
THEOREM GatewayImplementsProvider ==
  ASSUME GatewayAssumption
  PROVE  GatewaySpec => PromiseKept
<1>. DEFINE decided == [a \in Attempts |-> ResultOf(a)]
<1>1. GatewayInit => Promise!ProviderInit
  BY DEF GatewayInit, Promise!ProviderInit, ResultOf
<1>2. GatewayInv /\ [GatewayNext]_gatewayVars => [Promise!ProviderNext]_Promise!providerVars
  <2>. SUFFICES ASSUME GatewayInv, [GatewayNext]_gatewayVars
                PROVE  [Promise!ProviderNext]_Promise!providerVars
    OBVIOUS
  <2>1. ASSUME NEW w \in Workers, Insert(w), receipt' # receipt
        PROVE  Promise!Decide(job[w])
    <3>1. Holds(w) /\ job[w] \in Attempts /\ draw[w] \in Results /\ receipt[job[w]] = Null
      BY <2>1 DEF GatewayInv, Memory, Holds, Insert
    <3>2. receipt' = [receipt EXCEPT ![job[w]] =
                        [fingerprint |-> asked[w], result |-> draw[w]]]
          /\ told' = told
      BY <2>1, <3>1 DEF Insert
    <3>3. receipt'[job[w]] # Null /\ receipt'[job[w]].result = draw[w]
      <4>1. asked[w] \in Cards
        BY <2>1, <3>1 DEF Holds, Insert, GatewayInv, GatewayTypeOK
      <4>. QED
        BY <3>1, <3>2, <4>1 DEF GatewayInv, GatewayTypeOK, Receipts, GatewayAssumption
    <3>4. decided' = [decided EXCEPT ![job[w]] = draw[w]]
      BY <3>1, <3>2, <3>3 DEF ResultOf, GatewayInv, GatewayTypeOK
    <3>. QED
      BY <3>1, <3>2, <3>4 DEF Promise!Decide, ResultOf
  <2>2. ASSUME NEW w \in Workers, Compare(w), told' # told
        PROVE  Promise!Tell(w, job[w])
    <3>1. Holds(w) /\ pc[w] = "compare" /\ job[w] \in Attempts
      BY <2>2 DEF GatewayInv, Memory, Holds, Compare
    <3>2. receipt' = receipt /\ seen[w] = receipt[job[w]] /\ receipt[job[w]] # Null
          /\ told' = told \cup {<<w, job[w], seen[w].result>>}
      BY <2>2, <3>1 DEF Holds, Compare
    <3>3. receipt[job[w]].result # Null
      BY <3>1, <3>2 DEF GatewayInv, GatewayTypeOK, Receipts, GatewayAssumption
    <3>. QED
      BY <3>1, <3>2, <3>3 DEF Promise!Tell, ResultOf
  <2>3. CASE receipt' = receipt /\ told' = told
    BY <2>3 DEF Promise!providerVars, ResultOf
  <2>4. CASE receipt' # receipt
    <3>1. PICK w \in Workers : Insert(w)
      BY <2>4 DEF GatewayNext, gatewayVars, EditCustomer, MakeAttempt, SaveAttempt, Call, Look,
                  Reread, Compare, Die
    <3>2. job[w] \in Attempts
      BY <3>1 DEF GatewayInv, Memory, Holds, Insert
    <3>. QED
      BY <2>1, <2>4, <3>1, <3>2 DEF Promise!ProviderNext
  <2>5. CASE told' # told
    <3>1. PICK w \in Workers : Compare(w)
      BY <2>5 DEF GatewayNext, gatewayVars, EditCustomer, MakeAttempt, SaveAttempt, Call, Look,
                  Insert, Reread, Die
    <3>2. job[w] \in Attempts
      BY <3>1 DEF GatewayInv, Memory, Holds, Compare
    <3>. QED
      BY <2>2, <2>5, <3>1, <3>2 DEF Promise!ProviderNext
  <2>. QED
    BY <2>3, <2>4, <2>5
<1>. QED
  BY <1>1, <1>2, GatewayInvariant, PTL DEF GatewaySpec, PromiseKept, Promise!ProviderSpec

=============================================================================
