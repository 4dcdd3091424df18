---------------------------- MODULE Organizations ----------------------------
(***************************************************************************)
(* Tenants, memberships and invitations behind the HTTP API. A request on  *)
(* a tenant reads the caller's membership at the start of its transaction  *)
(* and runs its operation later, so that other requests may commit in      *)
(* between; operations that claim a key or an invitation hold its lock     *)
(* from their first statement and are one step here.                       *)
(*                                                                         *)
(* The policies of row-level security are left out. They only refuse       *)
(* requests, at the three places that say so: what is shown here of every  *)
(* behaviour holds of the fewer behaviours under the policies.             *)
(***************************************************************************)
EXTENDS Naturals

CONSTANTS Users,          \* auth subjects
          Mails,          \* e-mail addresses
          MailOf,         \* the address in a user's token; NoMail when it has none
          Tenants,
          TenantNames,
          Invitations,    \* identities of invitation rows
          TenantKeys,     \* idempotency keys that clients choose
          OfferedRoutes   \* bound: the routes that requests are sent to

NoMail == "NO_EMAIL"
Nobody == "NOBODY"

-----------------------------------------------------------------------------
(* The routes on a tenant and the least role each one asks for.            *)

Guarded(role, names) == [name : names, role : {role}]

ReadRoutes == Guarded("member", {"customers", "customer", "owner-snapshot", "opportunities",
                                 "opportunity", "revenue-command-center"})
RecoveryRoutes == Guarded("admin", {"evaluate-recovery", "opt-out", "customer-responses"})
                  \cup Guarded("owner", {"approve"})
ListRoutes == Guarded("member", {"follow-ups", "conversations", "revenue"})
              \cup Guarded("admin", {"connectors"})
InvitationRoutes == Guarded("admin", {"invite", "revoke"})
HandoffRoutes == Guarded("admin", {"handoff", "resume"})
CreationRoutes == Guarded("member", {"create-journey", "create-opportunity"})
FollowUpRoutes == Guarded("admin", {"create-follow-up", "cancel-follow-up"})
CommercialRoutes == Guarded("admin", {"bookings", "payments", "revenue-events"})
\* Reading tools and preparing tools share a route; the tool decides the role.
CopilotRoutes == Guarded("member", {"copilot-read"}) \cup Guarded("owner", {"copilot-prepare"})

Routes == ReadRoutes \cup RecoveryRoutes \cup ListRoutes \cup InvitationRoutes \cup HandoffRoutes
          \cup CreationRoutes \cup FollowUpRoutes \cup CommercialRoutes \cup CopilotRoutes

Roles == {"member", "admin", "owner"}
Rank == [role \in Roles |-> IF role = "member" THEN 1 ELSE IF role = "admin" THEN 2 ELSE 3]

-----------------------------------------------------------------------------

ASSUME OrganizationsAssumption ==
  /\ MailOf \in [Users -> Mails \cup {NoMail}]
  /\ NoMail \notin Mails
  /\ OfferedRoutes \subseteq Routes
  /\ Nobody \notin Users

VARIABLES
  known,         \* app_users: subjects that signed in and committed
  tenants,       \* who provisioned each tenant
  provisioned,   \* organization_provisioning_requests
  members,       \* organization_memberships
  invitations,   \* organization_invitations
  requests,      \* the authorised request that a user has in flight
  told           \* history: tenants that provisioning answers called the user's own

organizationVars == <<known, tenants, provisioned, members, invitations, requests, told>>

NoMembership == [role |-> "none", active |-> FALSE]
MembershipRows == [role : Roles, active : BOOLEAN] \cup {NoMembership}

NoProvision == [tenant |-> Nobody, name |-> Nobody]
ProvisionRows == [tenant : Tenants, name : TenantNames] \cup {NoProvision}

\* The CHECK on roles and the one that no invitation is accepted and revoked are in the row type.
NoInvitation == [state |-> "absent", tenant |-> Nobody, email |-> NoMail, role |-> "member",
                 key |-> Nobody, by |-> Nobody, acceptedBy |-> Nobody, expired |-> FALSE]
InvitationRows ==
  [state : {"open", "accepted", "revoked"}, tenant : Tenants, email : Mails,
   role : {"admin", "member"}, key : TenantKeys, by : Users,
   acceptedBy : Users \cup {Nobody}, expired : BOOLEAN] \cup {NoInvitation}

Idle == [route |-> "none", tenant |-> Nobody]

InitOrganizations ==
  /\ known = {}
  /\ tenants = [t \in Tenants |-> Nobody]
  /\ provisioned = [u \in Users |-> [k \in TenantKeys |-> NoProvision]]
  /\ members = [t \in Tenants |-> [u \in Users |-> NoMembership]]
  /\ invitations = [i \in Invitations |-> NoInvitation]
  /\ requests = [u \in Users |-> Idle]
  /\ told = [u \in Users |-> {}]

-----------------------------------------------------------------------------
(* Requests of an authenticated user.                                      *)

\* GET /tenants provisions the app user and lists the active memberships.
SignIn(u) ==
  /\ known' = known \cup {u}
  /\ UNCHANGED <<tenants, provisioned, members, invitations, requests, told>>

RequestOf(u, k) == provisioned[u][k]

Told(u, t) == told' = [told EXCEPT ![u] = @ \cup {t}] /\ known' = known \cup {u}

\* INSERT ... RETURNING on tenants is also subject to the policy tenant_member_read, which asks for
\* the membership that is inserted next.
CreateTenant(u, k, name, t) ==
  /\ RequestOf(u, k) = NoProvision
  /\ tenants[t] = Nobody
  /\ tenants' = [tenants EXCEPT ![t] = u]
  /\ provisioned' = [provisioned EXCEPT ![u][k] = [tenant |-> t, name |-> name]]
  /\ members' = [members EXCEPT ![t][u] = [role |-> "owner", active |-> TRUE]]
  /\ Told(u, t)
  /\ UNCHANGED <<invitations, requests>>

\* The answer to a repeated request calls the caller owner whatever became of the membership. Under
\* the policy tenant_isolation only an active member finds the row of the first request.
ReplayTenant(u, k, name) ==
  /\ RequestOf(u, k) # NoProvision
  /\ RequestOf(u, k).name = name
  /\ Told(u, RequestOf(u, k).tenant)
  /\ UNCHANGED <<tenants, provisioned, members, invitations, requests>>

ProvisionTenant(u, k, name) ==
  ReplayTenant(u, k, name) \/ \E t \in Tenants : CreateTenant(u, k, name, t)

RequireMembership(membership, role) ==
  membership.active /\ Rank[membership.role] >= Rank[role]

\* withAuthorizedStore: BEGIN, the app user and the membership.
Authorize(u, t, route) ==
  /\ requests[u] = Idle
  /\ RequireMembership(members[t][u], route.role)
  /\ requests' = [requests EXCEPT ![u] = [route |-> route.name, tenant |-> t]]
  /\ UNCHANGED <<known, tenants, provisioned, members, invitations, told>>

\* COMMIT or ROLLBACK of a request in flight; an error rolls the app user back too.
Ends(u) == requests' = [requests EXCEPT ![u] = Idle]
Answer(u) ==
  /\ requests[u] # Idle
  /\ Ends(u)
  /\ known' \in {known, known \cup {u}}
  /\ UNCHANGED <<tenants, provisioned, members, invitations, told>>

\* An existing row of the key is returned, or refused when its facts differ: see Answer.
KeyIsFree(t, k) == \A i \in Invitations : invitations[i].tenant = t => invitations[i].key # k

CreateInvitation(u, i, email, role, k) ==
  LET t == requests[u].tenant IN
  /\ requests[u].route = "invite"
  /\ KeyIsFree(t, k)
  /\ invitations[i] = NoInvitation
  /\ invitations' = [invitations EXCEPT ![i] =
       [state |-> "open", tenant |-> t, email |-> email, role |-> role, key |-> k, by |-> u,
        acceptedBy |-> Nobody, expired |-> FALSE]]
  /\ known' = known \cup {u}
  /\ Ends(u)
  /\ UNCHANGED <<tenants, provisioned, members, told>>

\* A revoked invitation is returned as it is, an accepted one refused: see Answer.
RevokeInvitation(u, i) ==
  /\ requests[u].route = "revoke"
  /\ invitations[i].tenant = requests[u].tenant
  /\ invitations[i].state = "open"
  /\ invitations' = [invitations EXCEPT ![i].state = "revoked"]
  /\ known' = known \cup {u}
  /\ Ends(u)
  /\ UNCHANGED <<tenants, provisioned, members, told>>

\* Plausible error: only a revoked or expired invitation is refused.
NotWithdrawn(invitation) == invitation.state \in {"open", "accepted"} /\ ~invitation.expired

Acceptable(invitation) == invitation.state = "open" /\ ~invitation.expired

\* Plausible error: the invitation is for whoever has its link.
AnyoneInvited(u, invitation) == MailOf[u] # NoMail

Invited(u, invitation) == MailOf[u] # NoMail /\ invitation.email = MailOf[u]

\* The role of the invitation replaces the one that the membership had, the owner's as well. The
\* invitation is read FOR UPDATE, for which the only policy is tenant_isolation: under it an account
\* that is no member yet finds no invitation.
AcceptInvitation(u, i) ==
  LET invitation == invitations[i] IN
  /\ Acceptable(invitation)
  /\ Invited(u, invitation)
  /\ members' = [members EXCEPT ![invitation.tenant][u] = [role |-> invitation.role, active |-> TRUE]]
  /\ invitations' = [invitations EXCEPT ![i].state = "accepted", ![i].acceptedBy = u]
  /\ known' = known \cup {u}
  /\ UNCHANGED <<tenants, provisioned, requests, told>>

\* expires_at passes.
ExpireInvitation(i) ==
  /\ invitations[i].state \in {"open", "revoked", "accepted"}
  /\ ~invitations[i].expired
  /\ invitations' = [invitations EXCEPT ![i].expired = TRUE]
  /\ UNCHANGED <<known, tenants, provisioned, members, requests, told>>

\* An operator of the database takes a membership away: no route does.
Deactivate(t, u) ==
  /\ members[t][u].active
  /\ members' = [members EXCEPT ![t][u].active = FALSE]
  /\ UNCHANGED <<known, tenants, provisioned, invitations, requests, told>>

NextOrganizations ==
  \/ \E u \in Users :
       \/ SignIn(u)
       \/ Answer(u)
       \/ \E k \in TenantKeys, name \in TenantNames : ProvisionTenant(u, k, name)
       \/ \E t \in Tenants : \/ Deactivate(t, u)
                             \/ \E route \in OfferedRoutes : Authorize(u, t, route)
       \/ \E i \in Invitations :
            \/ AcceptInvitation(u, i)
            \/ RevokeInvitation(u, i)
            \/ \E email \in Mails, role \in {"admin", "member"}, k \in TenantKeys :
                 CreateInvitation(u, i, email, role, k)
  \/ \E i \in Invitations : ExpireInvitation(i)

OrganizationSpec == InitOrganizations /\ [][NextOrganizations]_organizationVars

-----------------------------------------------------------------------------
(* Properties.                                                             *)

OrganizationTypeOK ==
  /\ known \subseteq Users
  /\ tenants \in [Tenants -> Users \cup {Nobody}]
  /\ provisioned \in [Users -> [TenantKeys -> ProvisionRows]]
  /\ members \in [Tenants -> [Users -> MembershipRows]]
  /\ invitations \in [Invitations -> InvitationRows]
  /\ requests \in [Users -> {Idle} \cup [route : {route.name : route \in Routes}, tenant : Tenants]]
  /\ told \in [Users -> SUBSET Tenants]

\* The membership of user u in tenant t stands on invitation i.
StandsOn(t, u, i) ==
  /\ invitations[i].state = "accepted"
  /\ invitations[i].tenant = t
  /\ invitations[i].acceptedBy = u
  /\ invitations[i].role = members[t][u].role
  /\ invitations[i].email = MailOf[u]
  /\ members[t][invitations[i].by] # NoMembership

\* Whatever requests raced, every membership was granted: its holder provisioned the tenant and is
\* its owner, or accepted an invitation to this role, sent to this address by a member of the
\* tenant; and every member is a known user. (provisionTenant, acceptInvitation)
AuthorityIsGranted ==
  \A t \in Tenants, u \in Users :
    members[t][u] # NoMembership =>
      /\ u \in known
      /\ \/ tenants[t] = u /\ members[t][u].role = "owner"
         \/ \E i \in Invitations : StandsOn(t, u, i)

\* A repeated or colliding provisioning key never hands a user another user's tenant.
\* (provisionTenant)
ToldOwnTenant == \A u \in Users : \A t \in told[u] : tenants[t] = u

\* An invitation is spent once: accepted, revoked or expired it grants nothing any more, however
\* often and by whomever it is tried. (acceptInvitation, revokeInvitation)
InvitationsAreSpentOnce ==
  [][/\ \A i \in Invitations :
          LET was == invitations[i]  is == invitations'[i]
          IN  /\ was.state \in {"accepted", "revoked"} => is = [was EXCEPT !.expired = is.expired]
              /\ was.expired => is.state \in {was.state, "revoked"}
     /\ \A u \in Users, t \in Tenants :
          members'[t][u] # members[t][u] /\ members'[t][u].active /\ tenants[t] # Nobody =>
            \E i \in Invitations : invitations[i].state = "open" /\ invitations'[i].state = "accepted"]_organizationVars
=============================================================================
