--------------------------- MODULE PlatformProofs ---------------------------
(***************************************************************************)
(* Proofs about the components around the store's operations:              *)
(* organizations, the inbox of webhooks and the rate limiter, each for any *)
(* values of its constants, and about the specification in which a         *)
(* behaviour runs one of them.                                             *)
(***************************************************************************)
EXTENDS MCPlatform, FiniteSetTheorems, SequenceTheorems, TLAPS

-----------------------------------------------------------------------------
(* Organizations. Who may say what is his rests on three facts that        *)
(* outlive every request: a provisioning row points to a tenant of its     *)
(* user, a request in flight and an invitation come from somebody who has  *)
(* a membership, and memberships are never deleted.                        *)

Holds(t, u) == members[t][u] # NoMembership

\* What a membership stands on.
Backed(t, u) ==
  /\ u \in known
  /\ \/ tenants[t] = u /\ members[t][u].role = "owner"
     \/ \E i \in Invitations : StandsOn(t, u, i)

ProvisionsAreOwn ==
  \A u \in Users : \A k \in TenantKeys :
    provisioned[u][k] # NoProvision =>
      /\ provisioned[u][k].tenant \in Tenants
      /\ tenants[provisioned[u][k].tenant] = u

RequestersAreMembers == \A u \in Users : requests[u] # Idle => Holds(requests[u].tenant, u)

InvitersAreMembers ==
  \A i \in Invitations :
    invitations[i].state # "absent" => Holds(invitations[i].tenant, invitations[i].by)

MembersAreBacked == \A t \in Tenants : \A u \in Users : Holds(t, u) => Backed(t, u)

OrganizationInv ==
  /\ OrganizationTypeOK
  /\ ProvisionsAreOwn
  /\ ToldOwnTenant
  /\ RequestersAreMembers
  /\ InvitersAreMembers
  /\ MembersAreBacked

-----------------------------------------------------------------------------
(* The rows of the tables.                                                 *)

LEMMA MembershipRow ==
  ASSUME NEW row \in MembershipRows
  PROVE  /\ row # NoMembership => row.role \in Roles /\ row.active \in BOOLEAN
         /\ row.active => row # NoMembership
         /\ row # NoMembership => [row EXCEPT !.active = FALSE] \in MembershipRows
         /\ row # NoMembership => [row EXCEPT !.active = FALSE] # NoMembership
         /\ [row EXCEPT !.active = FALSE].role = row.role
         /\ [row EXCEPT !.active = FALSE].active = FALSE
<1>1. CASE row = NoMembership
  BY <1>1 DEF NoMembership
<1>2. CASE row \in [role : Roles, active : BOOLEAN]
  <2>1. row.role \in Roles /\ row.active \in BOOLEAN
    BY <1>2
  <2>2. "none" \notin Roles
    BY DEF Roles
  <2>3. /\ [row EXCEPT !.active = FALSE] \in [role : Roles, active : BOOLEAN]
        /\ [row EXCEPT !.active = FALSE].role = row.role
        /\ [row EXCEPT !.active = FALSE].active = FALSE
    BY <1>2
  <2> QED
    BY <2>1, <2>2, <2>3 DEF MembershipRows, NoMembership
<1> QED
  BY <1>1, <1>2 DEF MembershipRows

LEMMA NewMembership ==
  ASSUME NEW role \in Roles
  PROVE  /\ [role |-> role, active |-> TRUE] \in MembershipRows
         /\ [role |-> role, active |-> TRUE] # NoMembership
BY DEF MembershipRows, NoMembership, Roles

\* A write to one membership.
LEMMA MembersSet ==
  ASSUME OrganizationTypeOK, NEW t \in Tenants, NEW u \in Users, NEW row \in MembershipRows,
         members' = [members EXCEPT ![t][u] = row]
  PROVE  /\ members' \in [Tenants -> [Users -> MembershipRows]]
         /\ members'[t][u] = row
         /\ \A x \in Tenants : \A y \in Users :
              x # t \/ y # u => members'[x][y] = members[x][y]
<1>1. members \in [Tenants -> [Users -> MembershipRows]]
  BY DEF OrganizationTypeOK
<1>2. members' = [members EXCEPT ![t] = [members[t] EXCEPT ![u] = row]]
  OBVIOUS
<1>3. [members[t] EXCEPT ![u] = row] \in [Users -> MembershipRows]
  BY <1>1
<1> QED
  BY <1>1, <1>2, <1>3

LEMMA InvitationRow ==
  ASSUME NEW row \in InvitationRows
  PROVE  /\ row.state # "absent" =>
              /\ row.tenant \in Tenants /\ row.by \in Users /\ row.email \in Mails
              /\ row.role \in {"admin", "member"} /\ row.role \in Roles
              /\ row # NoInvitation
         /\ row.state \in {"absent", "open", "accepted", "revoked"}
         /\ row.expired \in BOOLEAN
<1>1. CASE row = NoInvitation
  BY <1>1 DEF NoInvitation
<1>2. CASE row \in [state : {"open", "accepted", "revoked"}, tenant : Tenants, email : Mails,
                    role : {"admin", "member"}, key : TenantKeys, by : Users,
                    acceptedBy : Users \cup {Nobody}, expired : BOOLEAN]
  <2>1. /\ row.state \in {"open", "accepted", "revoked"} /\ row.tenant \in Tenants
        /\ row.email \in Mails /\ row.role \in {"admin", "member"} /\ row.by \in Users
        /\ row.expired \in BOOLEAN
    BY <1>2
  <2>2. NoInvitation.state = "absent"
    BY DEF NoInvitation
  <2> QED
    BY <2>1, <2>2 DEF Roles
<1> QED
  BY <1>1, <1>2 DEF InvitationRows

\* A write to one invitation.
LEMMA InvitationsSet ==
  ASSUME OrganizationTypeOK, NEW i \in Invitations, NEW row \in InvitationRows,
         invitations' = [invitations EXCEPT ![i] = row]
  PROVE  /\ invitations' \in [Invitations -> InvitationRows]
         /\ invitations'[i] = row
         /\ \A j \in Invitations : j # i => invitations'[j] = invitations[j]
BY DEF OrganizationTypeOK

\* What the steps change of an invitation, and what they keep.
LEMMA InvitationMoves ==
  ASSUME NEW row \in InvitationRows, row.state # "absent", NEW u \in Users,
         NEW new \in {[row EXCEPT !.state = "revoked"], [row EXCEPT !.expired = TRUE],
                      [[row EXCEPT !.state = "accepted"] EXCEPT !.acceptedBy = u]}
  PROVE  /\ new \in InvitationRows
         /\ new.tenant = row.tenant /\ new.by = row.by /\ new.role = row.role
         /\ new.email = row.email
<1>1. row \in [state : {"open", "accepted", "revoked"}, tenant : Tenants, email : Mails,
               role : {"admin", "member"}, key : TenantKeys, by : Users,
               acceptedBy : Users \cup {Nobody}, expired : BOOLEAN]
  BY DEF InvitationRows, NoInvitation
<1>2. CASE new = [row EXCEPT !.state = "revoked"]
  BY <1>1, <1>2 DEF InvitationRows
<1>3. CASE new = [row EXCEPT !.expired = TRUE]
  BY <1>1, <1>3 DEF InvitationRows
<1>4. CASE new = [[row EXCEPT !.state = "accepted"] EXCEPT !.acceptedBy = u]
  BY <1>1, <1>4 DEF InvitationRows
<1> QED
  BY <1>2, <1>3, <1>4

-----------------------------------------------------------------------------
(* What is kept while memberships are only added to.                       *)

\* What a step keeps of an invitation.
Same(i) ==
  /\ invitations'[i].tenant = invitations[i].tenant
  /\ invitations'[i].by = invitations[i].by
  /\ invitations'[i].role = invitations[i].role
  /\ invitations'[i].email = invitations[i].email

\* Rows that a step may not touch.
Keeps ==
  /\ known \subseteq known'
  /\ \A t \in Tenants : tenants[t] # Nobody => tenants'[t] = tenants[t]
  /\ \A t \in Tenants : \A u \in Users : Holds(t, u) => Holds(t, u)'
  /\ \A i \in Invitations : invitations[i].state # "absent" => Same(i)
  /\ \A i \in Invitations : invitations[i].state = "accepted" =>
       invitations'[i].state = "accepted" /\ invitations'[i].acceptedBy = invitations[i].acceptedBy

LEMMA BackingIsKept ==
  ASSUME OrganizationInv, Keeps, NEW t \in Tenants, NEW u \in Users, Holds(t, u),
         members'[t][u].role = members[t][u].role
  PROVE  Backed(t, u)'
<1>1. Backed(t, u)
  BY DEF OrganizationInv, MembersAreBacked
<1>2. CASE tenants[t] = u /\ members[t][u].role = "owner"
  BY <1>1, <1>2, OrganizationsAssumption DEF Backed, Keeps
<1>3. ASSUME NEW i \in Invitations, StandsOn(t, u, i) PROVE Backed(t, u)'
  <2>1. invitations[i].state = "accepted" /\ invitations[i].by \in Users
    BY <1>3, InvitationRow DEF StandsOn, OrganizationInv, OrganizationTypeOK
  <2>2. StandsOn(t, u, i)'
    BY <1>3, <2>1 DEF StandsOn, Keeps, Same, Holds
  <2> QED
    BY <1>1, <2>2 DEF Backed, Keeps
<1> QED
  BY <1>1, <1>2, <1>3 DEF Backed

\* Memberships of the others, when one is written.
LEMMA OthersAreBacked ==
  ASSUME OrganizationInv, Keeps, NEW t \in Tenants, NEW u \in Users,
         \A x \in Tenants : \A y \in Users : x # t \/ y # u => members'[x][y] = members[x][y],
         Holds(t, u)' => Backed(t, u)'
  PROVE  MembersAreBacked'
<1> SUFFICES ASSUME NEW x \in Tenants, NEW y \in Users, Holds(x, y)' PROVE Backed(x, y)'
  BY DEF MembersAreBacked
<1>1. CASE x = t /\ y = u
  BY <1>1
<1>2. CASE x # t \/ y # u
  BY <1>2, BackingIsKept DEF Holds
<1> QED
  BY <1>1, <1>2

LEMMA MembersUnchangedAreBacked ==
  ASSUME OrganizationInv, Keeps, members' = members
  PROVE  MembersAreBacked'
BY BackingIsKept DEF MembersAreBacked, Holds

LEMMA InvitersStay ==
  ASSUME OrganizationInv, Keeps,
         \A i \in Invitations : invitations[i].state = "absent" => invitations'[i].state = "absent"
  PROVE  InvitersAreMembers'
<1> SUFFICES ASSUME NEW i \in Invitations, invitations'[i].state # "absent"
             PROVE  Holds(invitations[i].tenant, invitations[i].by)'
  BY DEF InvitersAreMembers
<1>1. invitations[i].tenant \in Tenants /\ invitations[i].by \in Users /\ invitations[i].state # "absent"
  BY InvitationRow DEF OrganizationInv, OrganizationTypeOK
<1> QED
  BY <1>1 DEF OrganizationInv, InvitersAreMembers, Keeps, Same, Holds

LEMMA RequestersStay ==
  ASSUME OrganizationInv, Keeps,
         \A u \in Users : requests'[u] # Idle => requests'[u] = requests[u]
  PROVE  RequestersAreMembers'
<1> SUFFICES ASSUME NEW u \in Users, requests'[u] # Idle
             PROVE  Holds(requests[u].tenant, u)'
  BY DEF RequestersAreMembers
<1>1. requests'[u] = requests[u] /\ requests[u] # Idle
  OBVIOUS
<1>2. requests[u].tenant \in Tenants /\ Holds(requests[u].tenant, u)
  BY <1>1 DEF OrganizationInv, OrganizationTypeOK, RequestersAreMembers
<1> QED
  BY <1>1, <1>2 DEF Keeps, Holds

LEMMA OwnTenantsStay ==
  ASSUME OrganizationInv, Keeps, provisioned' = provisioned, told' = told
  PROVE  ProvisionsAreOwn' /\ ToldOwnTenant'
<1>1. \A u \in Users : u # Nobody
  BY OrganizationsAssumption
<1>2. ProvisionsAreOwn'
  BY <1>1 DEF OrganizationInv, ProvisionsAreOwn, Keeps
<1>3. ToldOwnTenant'
  BY <1>1 DEF OrganizationInv, OrganizationTypeOK, ToldOwnTenant, Keeps
<1> QED
  BY <1>2, <1>3

-----------------------------------------------------------------------------
(* The steps.                                                              *)

LEMMA InitHasOrganizationInv == InitOrganizations => OrganizationInv
<1> SUFFICES ASSUME InitOrganizations PROVE OrganizationInv
  OBVIOUS
<1>1. OrganizationTypeOK
  BY DEF InitOrganizations, OrganizationTypeOK, ProvisionRows, MembershipRows, InvitationRows
<1>2. ProvisionsAreOwn /\ ToldOwnTenant
  BY DEF InitOrganizations, ProvisionsAreOwn, ToldOwnTenant
<1>3. RequestersAreMembers
  BY DEF InitOrganizations, RequestersAreMembers
<1>4. InvitersAreMembers
  <2>1. NoInvitation.state = "absent"
    BY DEF NoInvitation
  <2> QED
    BY <2>1 DEF InitOrganizations, InvitersAreMembers
<1>5. MembersAreBacked
  BY DEF InitOrganizations, MembersAreBacked, Holds
<1> QED
  BY <1>1, <1>2, <1>3, <1>4, <1>5 DEF OrganizationInv

\* Steps that touch neither memberships, invitations nor tenants: signing in and ending a request.
LEMMA SignInKeepsInv ==
  ASSUME OrganizationInv, NEW u \in Users, SignIn(u) PROVE OrganizationInv'
<1>1. OrganizationTypeOK'
  BY DEF SignIn, OrganizationInv, OrganizationTypeOK
<1>2. Keeps
  BY DEF SignIn, Keeps, Same, Holds
<1>3. /\ provisioned' = provisioned /\ told' = told /\ members' = members
      /\ requests' = requests /\ invitations' = invitations
  BY DEF SignIn
<1> QED
  BY <1>1, <1>2, <1>3, OwnTenantsStay, RequestersStay, InvitersStay, MembersUnchangedAreBacked
  DEF OrganizationInv

LEMMA EndsRequest ==
  ASSUME OrganizationTypeOK, NEW u \in Users, Ends(u)
  PROVE  /\ requests' \in [Users -> {Idle} \cup [route : {route.name : route \in Routes}, tenant : Tenants]]
         /\ \A x \in Users : requests'[x] # Idle => requests'[x] = requests[x]
BY DEF Ends, OrganizationTypeOK

LEMMA AnswerKeepsInv ==
  ASSUME OrganizationInv, NEW u \in Users, Answer(u) PROVE OrganizationInv'
<1>1. /\ provisioned' = provisioned /\ told' = told /\ members' = members
      /\ invitations' = invitations /\ tenants' = tenants /\ Ends(u)
      /\ known' \in {known, known \cup {u}}
  BY DEF Answer
<1>2. OrganizationTypeOK'
  BY <1>1, EndsRequest DEF OrganizationInv, OrganizationTypeOK
<1>3. Keeps
  BY <1>1 DEF Keeps, Same, Holds
<1>4. \A x \in Users : requests'[x] # Idle => requests'[x] = requests[x]
  BY <1>1, EndsRequest DEF OrganizationInv
<1> QED
  BY <1>1, <1>2, <1>3, <1>4, OwnTenantsStay, RequestersStay, InvitersStay, MembersUnchangedAreBacked
  DEF OrganizationInv

LEMMA ReplayTenantKeepsInv ==
  ASSUME OrganizationInv, NEW u \in Users, NEW k \in TenantKeys, NEW name \in TenantNames,
         ReplayTenant(u, k, name)
  PROVE  OrganizationInv'
<1> DEFINE t == provisioned[u][k].tenant
<1>1. /\ provisioned' = provisioned /\ members' = members /\ invitations' = invitations
      /\ tenants' = tenants /\ requests' = requests /\ known' = known \cup {u}
      /\ told' = [told EXCEPT ![u] = @ \cup {t}]
      /\ provisioned[u][k] # NoProvision
  BY DEF ReplayTenant, Told, RequestOf
<1>2. t \in Tenants /\ tenants[t] = u
  BY <1>1 DEF OrganizationInv, ProvisionsAreOwn
<1> HIDE DEF t
<1>3. OrganizationTypeOK'
  BY <1>1, <1>2 DEF OrganizationInv, OrganizationTypeOK
<1>4. ProvisionsAreOwn'
  BY <1>1 DEF OrganizationInv, ProvisionsAreOwn
<1>5. ToldOwnTenant'
  BY <1>1, <1>2 DEF OrganizationInv, OrganizationTypeOK, ToldOwnTenant
<1>6. Keeps
  BY <1>1 DEF Keeps, Same, Holds
<1> QED
  BY <1>1, <1>3, <1>4, <1>5, <1>6, RequestersStay, InvitersStay, MembersUnchangedAreBacked
  DEF OrganizationInv

LEMMA CreateTenantKeepsInv ==
  ASSUME OrganizationInv, NEW u \in Users, NEW k \in TenantKeys, NEW name \in TenantNames,
         NEW t \in Tenants, CreateTenant(u, k, name, t)
  PROVE  OrganizationInv'
<1> DEFINE row == [tenant |-> t, name |-> name]
           owner == [role |-> "owner", active |-> TRUE]
<1>1. /\ tenants[t] = Nobody /\ tenants' = [tenants EXCEPT ![t] = u]
      /\ provisioned' = [provisioned EXCEPT ![u][k] = row]
      /\ members' = [members EXCEPT ![t][u] = owner]
      /\ told' = [told EXCEPT ![u] = @ \cup {t}] /\ known' = known \cup {u}
      /\ invitations' = invitations /\ requests' = requests
  BY DEF CreateTenant, Told
<1>2. /\ tenants' \in [Tenants -> Users \cup {Nobody}] /\ tenants'[t] = u
      /\ \A x \in Tenants : x # t => tenants'[x] = tenants[x]
  BY <1>1 DEF OrganizationInv, OrganizationTypeOK
<1>3. /\ provisioned' \in [Users -> [TenantKeys -> ProvisionRows]]
      /\ provisioned'[u][k] = row
      /\ \A x \in Users : \A y \in TenantKeys :
           x # u \/ y # k => provisioned'[x][y] = provisioned[x][y]
  <2>1. row \in ProvisionRows
    BY DEF ProvisionRows
  <2>2. provisioned \in [Users -> [TenantKeys -> ProvisionRows]]
    BY DEF OrganizationInv, OrganizationTypeOK
  <2> HIDE DEF row
  <2>3. provisioned' = [provisioned EXCEPT ![u] = [provisioned[u] EXCEPT ![k] = row]]
    BY <1>1
  <2>4. [provisioned[u] EXCEPT ![k] = row] \in [TenantKeys -> ProvisionRows]
    BY <2>1, <2>2
  <2> QED
    BY <2>2, <2>3, <2>4
<1>4. owner \in MembershipRows /\ owner # NoMembership /\ owner.role = "owner"
  BY NewMembership DEF Roles
<1>5. /\ members' \in [Tenants -> [Users -> MembershipRows]]
      /\ members'[t][u] = owner
      /\ \A x \in Tenants : \A y \in Users : x # t \/ y # u => members'[x][y] = members[x][y]
  BY <1>1, <1>4, MembersSet DEF OrganizationInv
<1> HIDE DEF owner
<1>6. told' \in [Users -> SUBSET Tenants] /\ known' \subseteq Users
  BY <1>1 DEF OrganizationInv, OrganizationTypeOK
<1>7. OrganizationTypeOK'
  BY <1>1, <1>2, <1>3, <1>5, <1>6 DEF OrganizationInv, OrganizationTypeOK
<1>8. Keeps
  BY <1>1, <1>2, <1>4, <1>5 DEF Keeps, Same, Holds
<1>9. ProvisionsAreOwn'
  <2> SUFFICES ASSUME NEW x \in Users, NEW y \in TenantKeys, provisioned'[x][y] # NoProvision
               PROVE  /\ provisioned'[x][y].tenant \in Tenants
                      /\ tenants'[provisioned'[x][y].tenant] = x
    BY DEF ProvisionsAreOwn
  <2>1. CASE x = u /\ y = k
    BY <1>2, <1>3, <2>1
  <2>2. CASE x # u \/ y # k
    <3>1. /\ provisioned[x][y].tenant \in Tenants /\ tenants[provisioned[x][y].tenant] = x
          /\ provisioned'[x][y] = provisioned[x][y]
      BY <1>3, <2>2 DEF OrganizationInv, ProvisionsAreOwn
    <3> QED
      BY <1>1, <1>2, <3>1, OrganizationsAssumption
  <2> QED
    BY <2>1, <2>2
<1>10. ToldOwnTenant'
  <2> SUFFICES ASSUME NEW x \in Users, NEW y \in told'[x] PROVE tenants'[y] = x
    BY DEF ToldOwnTenant
  <2>1. CASE y = t /\ x = u
    BY <1>2, <2>1
  <2>2. CASE y # t \/ x # u
    <3>1. y \in told[x] /\ y \in Tenants
      BY <1>1, <2>2 DEF OrganizationInv, OrganizationTypeOK
    <3>2. tenants[y] = x
      BY <3>1 DEF OrganizationInv, ToldOwnTenant
    <3> QED
      BY <1>1, <1>2, <3>1, <3>2, OrganizationsAssumption
  <2> QED
    BY <2>1, <2>2
<1>11. MembersAreBacked'
  <2>1. Backed(t, u)'
    BY <1>1, <1>2, <1>4, <1>5 DEF Backed
  <2> QED
    BY <1>5, <1>8, <2>1, OthersAreBacked
<1> QED
  BY <1>1, <1>7, <1>8, <1>9, <1>10, <1>11, RequestersStay, InvitersStay DEF OrganizationInv

LEMMA AuthorizeKeepsInv ==
  ASSUME OrganizationInv, NEW u \in Users, NEW t \in Tenants, NEW route \in OfferedRoutes,
         Authorize(u, t, route)
  PROVE  OrganizationInv'
<1> DEFINE row == [route |-> route.name, tenant |-> t]
<1>1. /\ provisioned' = provisioned /\ told' = told /\ members' = members /\ known' = known
      /\ invitations' = invitations /\ tenants' = tenants
      /\ requests' = [requests EXCEPT ![u] = row]
      /\ members[t][u].active
  BY DEF Authorize, RequireMembership
<1>2. row \in [route : {r.name : r \in Routes}, tenant : Tenants] /\ row.tenant = t
  BY OrganizationsAssumption
<1> HIDE DEF row
<1>3. /\ requests' \in [Users -> {Idle} \cup [route : {r.name : r \in Routes}, tenant : Tenants]]
      /\ requests'[u] = row
      /\ \A x \in Users : x # u => requests'[x] = requests[x]
  BY <1>1, <1>2 DEF OrganizationInv, OrganizationTypeOK
<1>4. OrganizationTypeOK'
  BY <1>1, <1>3 DEF OrganizationInv, OrganizationTypeOK
<1>5. Keeps
  BY <1>1 DEF Keeps, Same, Holds
<1>6. Holds(t, u)
  <2>1. members[t][u] \in MembershipRows
    BY DEF OrganizationInv, OrganizationTypeOK
  <2> QED
    BY <1>1, <2>1, MembershipRow DEF Holds
<1>7. RequestersAreMembers'
  <2> SUFFICES ASSUME NEW x \in Users, requests'[x] # Idle
               PROVE  members[requests'[x].tenant][x] # NoMembership
    BY <1>1 DEF RequestersAreMembers, Holds
  <2>1. CASE x = u
    BY <1>2, <1>3, <1>6, <2>1 DEF Holds
  <2>2. CASE x # u
    BY <1>3, <2>2 DEF OrganizationInv, RequestersAreMembers, Holds
  <2> QED
    BY <2>1, <2>2
<1> QED
  BY <1>1, <1>4, <1>5, <1>7, OwnTenantsStay, InvitersStay, MembersUnchangedAreBacked
  DEF OrganizationInv

LEMMA CreateInvitationKeepsInv ==
  ASSUME OrganizationInv, NEW u \in Users, NEW i \in Invitations, NEW email \in Mails,
         NEW role \in {"admin", "member"}, NEW k \in TenantKeys,
         CreateInvitation(u, i, email, role, k)
  PROVE  OrganizationInv'
<1> DEFINE t == requests[u].tenant
           row == [state |-> "open", tenant |-> t, email |-> email, role |-> role, key |-> k,
                   by |-> u, acceptedBy |-> Nobody, expired |-> FALSE]
<1>1. /\ provisioned' = provisioned /\ told' = told /\ members' = members
      /\ tenants' = tenants /\ Ends(u) /\ known' = known \cup {u}
      /\ requests[u].route = "invite" /\ invitations[i] = NoInvitation
      /\ invitations' = [invitations EXCEPT ![i] = row]
  BY DEF CreateInvitation
<1>2. requests[u] # Idle
  BY <1>1 DEF Idle
<1>3. t \in Tenants /\ Holds(t, u)
  BY <1>2 DEF OrganizationInv, OrganizationTypeOK, RequestersAreMembers
<1> HIDE DEF t
<1>4. row \in InvitationRows /\ row.tenant = t /\ row.by = u
  BY <1>3 DEF InvitationRows
<1>5. NoInvitation.state = "absent"
  BY DEF NoInvitation
<1> HIDE DEF row
<1>6. /\ invitations' \in [Invitations -> InvitationRows]
      /\ invitations'[i] = row
      /\ \A j \in Invitations : j # i => invitations'[j] = invitations[j]
  BY <1>1, <1>4, InvitationsSet DEF OrganizationInv
<1>7. OrganizationTypeOK'
  BY <1>1, <1>6, EndsRequest DEF OrganizationInv, OrganizationTypeOK
<1>8. Keeps
  BY <1>1, <1>5, <1>6 DEF Keeps, Same, Holds
<1>9. \A x \in Users : requests'[x] # Idle => requests'[x] = requests[x]
  BY <1>1, EndsRequest DEF OrganizationInv
<1>10. InvitersAreMembers'
  <2> SUFFICES ASSUME NEW j \in Invitations, invitations'[j].state # "absent"
               PROVE  members[invitations'[j].tenant][invitations'[j].by] # NoMembership
    BY <1>1 DEF InvitersAreMembers, Holds
  <2>1. CASE j = i
    BY <1>3, <1>4, <1>6, <2>1 DEF Holds
  <2>2. CASE j # i
    BY <1>6, <2>2 DEF OrganizationInv, InvitersAreMembers, Holds
  <2> QED
    BY <2>1, <2>2
<1> QED
  BY <1>1, <1>7, <1>8, <1>9, <1>10, OwnTenantsStay, RequestersStay, MembersUnchangedAreBacked
  DEF OrganizationInv

LEMMA RevokeInvitationKeepsInv ==
  ASSUME OrganizationInv, NEW u \in Users, NEW i \in Invitations, RevokeInvitation(u, i)
  PROVE  OrganizationInv'
<1> DEFINE row == [invitations[i] EXCEPT !.state = "revoked"]
<1>1. /\ provisioned' = provisioned /\ told' = told /\ members' = members
      /\ tenants' = tenants /\ Ends(u) /\ known' = known \cup {u}
      /\ invitations[i].state = "open"
      /\ invitations' = [invitations EXCEPT ![i] = row]
  BY DEF RevokeInvitation
<1>2. invitations[i] \in InvitationRows
  BY DEF OrganizationInv, OrganizationTypeOK
<1>3. /\ row \in InvitationRows /\ row.tenant = invitations[i].tenant /\ row.by = invitations[i].by
      /\ row.role = invitations[i].role /\ row.email = invitations[i].email
  BY <1>1, <1>2, InvitationMoves
<1> HIDE DEF row
<1>4. /\ invitations' \in [Invitations -> InvitationRows]
      /\ invitations'[i] = row
      /\ \A j \in Invitations : j # i => invitations'[j] = invitations[j]
  BY <1>1, <1>3, InvitationsSet DEF OrganizationInv
<1>5. OrganizationTypeOK'
  BY <1>1, <1>4, EndsRequest DEF OrganizationInv, OrganizationTypeOK
<1>6. Keeps
  BY <1>1, <1>3, <1>4 DEF Keeps, Same, Holds
<1>7. \A x \in Users : requests'[x] # Idle => requests'[x] = requests[x]
  BY <1>1, EndsRequest DEF OrganizationInv
<1>8. \A j \in Invitations : invitations[j].state = "absent" => invitations'[j].state = "absent"
  BY <1>1, <1>4
<1> QED
  BY <1>1, <1>5, <1>6, <1>7, <1>8, OwnTenantsStay, RequestersStay, InvitersStay,
     MembersUnchangedAreBacked DEF OrganizationInv

LEMMA ExpireInvitationKeepsInv ==
  ASSUME OrganizationInv, NEW i \in Invitations, ExpireInvitation(i)
  PROVE  OrganizationInv'
<1> DEFINE row == [invitations[i] EXCEPT !.expired = TRUE]
<1>1. /\ provisioned' = provisioned /\ told' = told /\ members' = members
      /\ tenants' = tenants /\ requests' = requests /\ known' = known
      /\ invitations[i].state # "absent"
      /\ invitations' = [invitations EXCEPT ![i] = row]
  BY DEF ExpireInvitation
<1>2. invitations[i] \in InvitationRows
  BY DEF OrganizationInv, OrganizationTypeOK
<1>3. /\ row \in InvitationRows /\ row.tenant = invitations[i].tenant /\ row.by = invitations[i].by
      /\ row.role = invitations[i].role /\ row.email = invitations[i].email
      /\ row.state = invitations[i].state /\ row.acceptedBy = invitations[i].acceptedBy
  <2>1. invitations[i] \in [state : {"open", "accepted", "revoked"}, tenant : Tenants, email : Mails,
                            role : {"admin", "member"}, key : TenantKeys, by : Users,
                            acceptedBy : Users \cup {Nobody}, expired : BOOLEAN]
    BY <1>1, <1>2 DEF InvitationRows, NoInvitation
  <2> QED
    BY <2>1 DEF InvitationRows
<1> HIDE DEF row
<1>4. /\ invitations' \in [Invitations -> InvitationRows]
      /\ invitations'[i] = row
      /\ \A j \in Invitations : j # i => invitations'[j] = invitations[j]
  BY <1>1, <1>3, InvitationsSet DEF OrganizationInv
<1>5. OrganizationTypeOK'
  BY <1>1, <1>4 DEF OrganizationInv, OrganizationTypeOK
<1>6. Keeps
  BY <1>1, <1>3, <1>4 DEF Keeps, Same, Holds
<1>7. \A j \in Invitations : invitations[j].state = "absent" => invitations'[j].state = "absent"
  BY <1>1, <1>4
<1> QED
  BY <1>1, <1>5, <1>6, <1>7, OwnTenantsStay, RequestersStay, InvitersStay,
     MembersUnchangedAreBacked DEF OrganizationInv

LEMMA DeactivateKeepsInv ==
  ASSUME OrganizationInv, NEW t \in Tenants, NEW u \in Users, Deactivate(t, u)
  PROVE  OrganizationInv'
<1> DEFINE row == [members[t][u] EXCEPT !.active = FALSE]
<1>1. /\ provisioned' = provisioned /\ told' = told /\ invitations' = invitations
      /\ tenants' = tenants /\ requests' = requests /\ known' = known
      /\ members[t][u].active
      /\ members' = [members EXCEPT ![t][u] = row]
  BY DEF Deactivate
<1>2. members[t][u] \in MembershipRows
  BY DEF OrganizationInv, OrganizationTypeOK
<1>3. Holds(t, u) /\ row \in MembershipRows /\ row # NoMembership /\ row.role = members[t][u].role
  BY <1>1, <1>2, MembershipRow DEF Holds
<1> HIDE DEF row
<1>4. /\ members' \in [Tenants -> [Users -> MembershipRows]]
      /\ members'[t][u] = row
      /\ \A x \in Tenants : \A y \in Users : x # t \/ y # u => members'[x][y] = members[x][y]
  <2>1. OrganizationTypeOK /\ row \in MembershipRows /\ members' = [members EXCEPT ![t][u] = row]
    BY <1>1, <1>3 DEF OrganizationInv
  <2> QED
    BY <2>1, MembersSet
<1>5. OrganizationTypeOK'
  BY <1>1, <1>4 DEF OrganizationInv, OrganizationTypeOK
<1>6. Keeps
  BY <1>1, <1>3, <1>4 DEF Keeps, Same, Holds
<1>7. Backed(t, u)'
  BY <1>3, <1>4, <1>6, BackingIsKept
<1>8. MembersAreBacked'
  BY <1>4, <1>6, <1>7, OthersAreBacked
<1> QED
  BY <1>1, <1>5, <1>6, <1>8, OwnTenantsStay, RequestersStay, InvitersStay DEF OrganizationInv

\* The inviter of an open invitation has a membership, and it survives the acceptance even when it
\* is the one that is overwritten.
LEMMA AcceptInvitationKeepsInv ==
  ASSUME OrganizationInv, NEW u \in Users, NEW i \in Invitations, AcceptInvitation(u, i),
         NEW t \in Tenants, invitations[i].tenant = t
  PROVE  OrganizationInv'
<1> DEFINE was == invitations[i]
           row == [[was EXCEPT !.state = "accepted"] EXCEPT !.acceptedBy = u]
           member == [role |-> was.role, active |-> TRUE]
<1>1. /\ provisioned' = provisioned /\ told' = told
      /\ tenants' = tenants /\ requests' = requests /\ known' = known \cup {u}
      /\ was.state = "open" /\ was.email = MailOf[u]
      /\ members' = [members EXCEPT ![t][u] = member]
  BY DEF AcceptInvitation, Acceptable, Invited
<1>2. invitations' = [invitations EXCEPT ![i] = row]
  BY DEF AcceptInvitation, OrganizationInv, OrganizationTypeOK
<1>3. was \in InvitationRows
  BY DEF OrganizationInv, OrganizationTypeOK
<1>4. /\ was.tenant = t /\ was.by \in Users /\ was.role \in Roles /\ Holds(t, was.by)
  BY <1>1, <1>3, InvitationRow DEF OrganizationInv, InvitersAreMembers
<1>5. /\ row \in InvitationRows /\ row.tenant = t /\ row.by = was.by
      /\ row.role = was.role /\ row.email = was.email
      /\ row.state = "accepted" /\ row.acceptedBy = u
  <2>1. /\ row \in InvitationRows /\ row.tenant = was.tenant /\ row.by = was.by
        /\ row.role = was.role /\ row.email = was.email
    BY <1>1, <1>3, InvitationMoves
  <2>2. row.state = "accepted" /\ row.acceptedBy = u
    <3>1. was \in [state : {"open", "accepted", "revoked"}, tenant : Tenants, email : Mails,
                   role : {"admin", "member"}, key : TenantKeys, by : Users,
                   acceptedBy : Users \cup {Nobody}, expired : BOOLEAN]
      BY <1>1, <1>3 DEF InvitationRows, NoInvitation
    <3> QED
      BY <3>1
  <2> QED
    BY <2>1, <2>2
<1>6. member \in MembershipRows /\ member # NoMembership /\ member.role = was.role
  BY <1>4, NewMembership
<1> HIDE DEF row, member
<1>7. /\ invitations' \in [Invitations -> InvitationRows]
      /\ invitations'[i] = row
      /\ \A j \in Invitations : j # i => invitations'[j] = invitations[j]
  BY <1>2, <1>5, InvitationsSet DEF OrganizationInv
<1>8. /\ members' \in [Tenants -> [Users -> MembershipRows]]
      /\ members'[t][u] = member
      /\ \A x \in Tenants : \A y \in Users : x # t \/ y # u => members'[x][y] = members[x][y]
  BY <1>1, <1>4, <1>6, MembersSet DEF OrganizationInv
<1>9. OrganizationTypeOK'
  BY <1>1, <1>7, <1>8 DEF OrganizationInv, OrganizationTypeOK
<1>10. Keeps
  BY <1>1, <1>5, <1>6, <1>7, <1>8 DEF Keeps, Same, Holds
<1>11. StandsOn(t, u, i)'
  <2>1. members'[t][was.by] # NoMembership
    BY <1>4, <1>10 DEF Keeps, Holds
  <2> QED
    BY <1>1, <1>5, <1>6, <1>7, <1>8, <2>1 DEF StandsOn
<1>12. Backed(t, u)'
  BY <1>1, <1>11 DEF Backed
<1>13. MembersAreBacked'
  BY <1>4, <1>8, <1>10, <1>12, OthersAreBacked
<1>14. \A j \in Invitations : invitations[j].state = "absent" => invitations'[j].state = "absent"
  BY <1>1, <1>7
<1> QED
  BY <1>1, <1>9, <1>10, <1>13, <1>14, OwnTenantsStay, RequestersStay, InvitersStay
  DEF OrganizationInv

LEMMA StepKeepsOrganizationInv ==
  OrganizationInv /\ [NextOrganizations]_organizationVars => OrganizationInv'
<1> SUFFICES ASSUME OrganizationInv, [NextOrganizations]_organizationVars PROVE OrganizationInv'
  OBVIOUS
<1>1. CASE UNCHANGED organizationVars
  <2>1. OrganizationTypeOK' /\ Keeps
    BY <1>1 DEF organizationVars, OrganizationInv, OrganizationTypeOK, Keeps, Same, Holds
  <2>2. /\ provisioned' = provisioned /\ told' = told /\ members' = members
        /\ requests' = requests /\ invitations' = invitations
    BY <1>1 DEF organizationVars
  <2> QED
    BY <2>1, <2>2, OwnTenantsStay, RequestersStay, InvitersStay, MembersUnchangedAreBacked
    DEF OrganizationInv
<1>2. ASSUME NEW u \in Users, SignIn(u) \/ Answer(u) PROVE OrganizationInv'
  BY <1>2, SignInKeepsInv, AnswerKeepsInv
<1>3. ASSUME NEW u \in Users, NEW k \in TenantKeys, NEW name \in TenantNames,
             ProvisionTenant(u, k, name)
      PROVE  OrganizationInv'
  BY <1>3, ReplayTenantKeepsInv, CreateTenantKeepsInv DEF ProvisionTenant
<1>4. ASSUME NEW u \in Users, NEW t \in Tenants,
             Deactivate(t, u) \/ \E route \in OfferedRoutes : Authorize(u, t, route)
      PROVE  OrganizationInv'
  BY <1>4, DeactivateKeepsInv, AuthorizeKeepsInv
<1>5. ASSUME NEW u \in Users, NEW i \in Invitations, AcceptInvitation(u, i) \/ RevokeInvitation(u, i)
      PROVE  OrganizationInv'
  <2>1. CASE AcceptInvitation(u, i)
    <3>1. invitations[i] \in InvitationRows /\ invitations[i].state # "absent"
      BY <2>1 DEF AcceptInvitation, Acceptable, OrganizationInv, OrganizationTypeOK
    <3>2. invitations[i].tenant \in Tenants
      BY <3>1, InvitationRow
    <3> QED
      BY <2>1, <3>2, AcceptInvitationKeepsInv
  <2>2. CASE RevokeInvitation(u, i)
    BY <2>2, RevokeInvitationKeepsInv
  <2> QED
    BY <1>5, <2>1, <2>2
<1>6. ASSUME NEW u \in Users, NEW i \in Invitations, NEW email \in Mails,
             NEW role \in {"admin", "member"}, NEW k \in TenantKeys,
             CreateInvitation(u, i, email, role, k)
      PROVE  OrganizationInv'
  BY <1>6, CreateInvitationKeepsInv
<1>7. ASSUME NEW i \in Invitations, ExpireInvitation(i) PROVE OrganizationInv'
  BY <1>7, ExpireInvitationKeepsInv
<1> QED
  BY <1>1, <1>2, <1>3, <1>4, <1>5, <1>6, <1>7 DEF NextOrganizations

LEMMA OrganizationInvHolds == OrganizationSpec => []OrganizationInv
BY InitHasOrganizationInv, StepKeepsOrganizationInv, PTL DEF OrganizationSpec

-----------------------------------------------------------------------------
(* The theorems.                                                           *)

\* The tables hold rows that their constraints allow, whoever sends what.
THEOREM OrganizationTypes == OrganizationSpec => []OrganizationTypeOK
<1>1. OrganizationInv => OrganizationTypeOK
  BY DEF OrganizationInv
<1> QED
  BY <1>1, OrganizationInvHolds, PTL

\* However keys collide and requests are repeated, provisioning names no tenant of another user.
\* (provisionTenant)
THEOREM UsersAreToldTheirOwnTenants == OrganizationSpec => []ToldOwnTenant
<1>1. OrganizationInv => ToldOwnTenant
  BY DEF OrganizationInv
<1> QED
  BY <1>1, OrganizationInvHolds, PTL

\* No race of requests yields a membership that nobody granted. (provisionTenant, acceptInvitation)
THEOREM AuthorityIsAlwaysGranted == OrganizationSpec => []AuthorityIsGranted
<1>1. OrganizationInv => AuthorityIsGranted
  BY DEF OrganizationInv, MembersAreBacked, Backed, Holds, AuthorityIsGranted
<1> QED
  BY <1>1, OrganizationInvHolds, PTL

\* What a step may do to one invitation, and to one membership.
SpentStays(i) ==
  LET was == invitations[i]  is == invitations'[i]
  IN  /\ was.state \in {"accepted", "revoked"} => is = [was EXCEPT !.expired = is.expired]
      /\ was.expired => is.state \in {was.state, "revoked"}

ByInvitation(t, u) ==
  members'[t][u] # members[t][u] /\ members'[t][u].active /\ tenants[t] # Nobody =>
    \E i \in Invitations : invitations[i].state = "open" /\ invitations'[i].state = "accepted"

LEMMA UntouchedStaysSpent ==
  ASSUME OrganizationInv, NEW i \in Invitations, invitations'[i] = invitations[i]
  PROVE  SpentStays(i)
<1>1. invitations[i] \in InvitationRows
  BY DEF OrganizationInv, OrganizationTypeOK
<1>2. invitations[i].state \in {"accepted", "revoked"} =>
        invitations[i] = [invitations[i] EXCEPT !.expired = invitations[i].expired]
  BY <1>1 DEF InvitationRows, NoInvitation
<1> QED
  BY <1>2 DEF SpentStays

\* Steps that move one invitation move it from a state where it had effect, or make it expire.
LEMMA InvitationStepSpends ==
  ASSUME OrganizationInv, NEW u, NEW j \in Invitations, NEW i \in Invitations,
         \/ AcceptInvitation(u, j) \/ RevokeInvitation(u, j) \/ ExpireInvitation(j)
         \/ \E email \in Mails, role \in {"admin", "member"}, k \in TenantKeys :
              CreateInvitation(u, j, email, role, k)
  PROVE  SpentStays(i)
<1>1. invitations \in [Invitations -> InvitationRows]
  BY DEF OrganizationInv, OrganizationTypeOK
<1>2. \A row : invitations' = [invitations EXCEPT ![j] = row] =>
        invitations'[j] = row /\ (i # j => invitations'[i] = invitations[i])
  BY <1>1
<1>3. i # j => invitations'[i] = invitations[i]
  BY <1>1 DEF AcceptInvitation, RevokeInvitation, ExpireInvitation, CreateInvitation
<1>4. CASE i # j
  BY <1>3, <1>4, UntouchedStaysSpent
<1>5. CASE i = j /\ AcceptInvitation(u, j)
  BY <1>5 DEF AcceptInvitation, Acceptable, SpentStays
<1>6. CASE i = j /\ RevokeInvitation(u, j)
  <2>1. /\ invitations'[j] = [invitations[j] EXCEPT !.state = "revoked"]
        /\ invitations[j].state = "open"
    BY <1>1, <1>6 DEF RevokeInvitation
  <2>2. [invitations[j] EXCEPT !.state = "revoked"].state = "revoked"
    BY <1>1, <2>1 DEF InvitationRows, NoInvitation
  <2> QED
    BY <1>6, <2>1, <2>2 DEF SpentStays
<1>7. CASE i = j /\ ExpireInvitation(j)
  <2>1. invitations'[j] = [invitations[j] EXCEPT !.expired = TRUE] /\ ~invitations[j].expired
    BY <1>1, <1>7 DEF ExpireInvitation
  <2>2. [invitations[j] EXCEPT !.expired = TRUE].expired = TRUE
    BY <1>1 DEF InvitationRows, NoInvitation
  <2> QED
    BY <1>7, <2>1, <2>2 DEF SpentStays
<1>8. ASSUME i = j, NEW email \in Mails, NEW role \in {"admin", "member"}, NEW k \in TenantKeys,
             CreateInvitation(u, j, email, role, k)
      PROVE  SpentStays(i)
  BY <1>8 DEF CreateInvitation, NoInvitation, SpentStays
<1> QED
  BY <1>4, <1>5, <1>6, <1>7, <1>8

LEMMA MembershipStepIsGranted ==
  ASSUME OrganizationInv, NEW x \in Tenants, NEW y \in Users, NEW t \in Tenants, NEW u \in Users,
         \/ Deactivate(x, y)
         \/ \E k \in TenantKeys, name \in TenantNames : CreateTenant(y, k, name, x)
  PROVE  ByInvitation(t, u)
<1>1. members \in [Tenants -> [Users -> MembershipRows]]
  BY DEF OrganizationInv, OrganizationTypeOK
<1>2. CASE Deactivate(x, y)
  <2> DEFINE row == [members[x][y] EXCEPT !.active = FALSE]
  <2>1. members' = [members EXCEPT ![x] = [members[x] EXCEPT ![y] = row]]
    BY <1>2 DEF Deactivate
  <2>2. row.active = FALSE
    BY <1>1, MembershipRow
  <2> HIDE DEF row
  <2>3. CASE t = x /\ u = y
    <3>1. members'[t][u] = row
      BY <1>1, <2>1, <2>3
    <3> QED
      BY <2>2, <3>1 DEF ByInvitation
  <2>4. CASE t # x \/ u # y
    <3>1. members'[t][u] = members[t][u]
      BY <1>1, <2>1, <2>4
    <3> QED
      BY <3>1 DEF ByInvitation
  <2> QED
    BY <2>3, <2>4
<1>3. ASSUME NEW k \in TenantKeys, NEW name \in TenantNames, CreateTenant(y, k, name, x)
      PROVE  ByInvitation(t, u)
  <2>1. CASE t = x
    BY <1>3, <2>1 DEF CreateTenant, ByInvitation
  <2>2. CASE t # x
    <3>1. members'[t][u] = members[t][u]
      BY <1>1, <1>3, <2>2 DEF CreateTenant
    <3> QED
      BY <3>1 DEF ByInvitation
  <2> QED
    BY <2>1, <2>2
<1> QED
  BY <1>2, <1>3

LEMMA StepSpendsOnce ==
  ASSUME OrganizationInv, NextOrganizations, NEW i \in Invitations
  PROVE  SpentStays(i)
<1>1. ASSUME invitations' = invitations PROVE SpentStays(i)
  BY <1>1, UntouchedStaysSpent
<1>2. ASSUME NEW y \in Users,
             \/ SignIn(y) \/ Answer(y)
             \/ \E x \in Tenants : Deactivate(x, y) \/ \E route \in OfferedRoutes : Authorize(y, x, route)
             \/ \E k \in TenantKeys, name \in TenantNames : ProvisionTenant(y, k, name)
      PROVE  SpentStays(i)
  BY <1>1, <1>2
  DEF SignIn, Answer, Deactivate, Authorize, ProvisionTenant, ReplayTenant, CreateTenant
<1>3. ASSUME NEW y, NEW j \in Invitations,
             \/ AcceptInvitation(y, j) \/ RevokeInvitation(y, j) \/ ExpireInvitation(j)
             \/ \E email \in Mails, role \in {"admin", "member"}, k \in TenantKeys :
                  CreateInvitation(y, j, email, role, k)
      PROVE  SpentStays(i)
  BY <1>3, InvitationStepSpends
<1> QED
  BY <1>2, <1>3 DEF NextOrganizations

LEMMA StepGrantsByInvitation ==
  ASSUME OrganizationInv, NextOrganizations, NEW t \in Tenants, NEW u \in Users
  PROVE  ByInvitation(t, u)
<1>1. ASSUME members' = members PROVE ByInvitation(t, u)
  BY <1>1 DEF ByInvitation
<1>2. ASSUME NEW y \in Users,
             \/ SignIn(y) \/ Answer(y)
             \/ \E x \in Tenants, route \in OfferedRoutes : Authorize(y, x, route)
             \/ \E k \in TenantKeys, name \in TenantNames : ReplayTenant(y, k, name)
             \/ \E j \in Invitations : RevokeInvitation(y, j)
             \/ \E j \in Invitations, email \in Mails, role \in {"admin", "member"}, k \in TenantKeys :
                  CreateInvitation(y, j, email, role, k)
      PROVE  ByInvitation(t, u)
  BY <1>1, <1>2 DEF SignIn, Answer, Authorize, ReplayTenant, RevokeInvitation, CreateInvitation
<1>3. ASSUME NEW x \in Tenants, NEW y \in Users,
             \/ Deactivate(x, y)
             \/ \E k \in TenantKeys, name \in TenantNames : CreateTenant(y, k, name, x)
      PROVE  ByInvitation(t, u)
  BY <1>3, MembershipStepIsGranted
<1>4. ASSUME NEW y \in Users, NEW j \in Invitations, AcceptInvitation(y, j)
      PROVE  ByInvitation(t, u)
  <2>1. invitations[j].state = "open" /\ invitations[j] \in InvitationRows
    BY <1>4 DEF AcceptInvitation, Acceptable, OrganizationInv, OrganizationTypeOK
  <2>2. invitations'[j] = [[invitations[j] EXCEPT !.state = "accepted"] EXCEPT !.acceptedBy = y]
    BY <1>4 DEF AcceptInvitation, OrganizationInv, OrganizationTypeOK
  <2>3. invitations'[j].state = "accepted"
    BY <2>1, <2>2 DEF InvitationRows, NoInvitation
  <2> QED
    BY <2>1, <2>3 DEF ByInvitation
<1>5. ASSUME NEW j \in Invitations, ExpireInvitation(j) PROVE ByInvitation(t, u)
  BY <1>1, <1>5 DEF ExpireInvitation
<1> QED
  BY <1>2, <1>3, <1>4, <1>5 DEF NextOrganizations, ProvisionTenant

\* No step gives an accepted, revoked or expired invitation effect, and no membership becomes or
\* changes role in an existing tenant but by an invitation that was open. (acceptInvitation)
THEOREM InvitationsAreAlwaysSpentOnce == OrganizationSpec => InvitationsAreSpentOnce
<1> DEFINE Spent ==
      /\ \A i \in Invitations :
           LET was == invitations[i]  is == invitations'[i]
           IN  /\ was.state \in {"accepted", "revoked"} => is = [was EXCEPT !.expired = is.expired]
               /\ was.expired => is.state \in {was.state, "revoked"}
      /\ \A u \in Users, t \in Tenants :
           members'[t][u] # members[t][u] /\ members'[t][u].active /\ tenants[t] # Nobody =>
             \E i \in Invitations : invitations[i].state = "open" /\ invitations'[i].state = "accepted"
<1>1. OrganizationInv /\ [NextOrganizations]_organizationVars => [Spent]_organizationVars
  <2> SUFFICES ASSUME OrganizationInv, NextOrganizations PROVE Spent
    OBVIOUS
  <2>1. \A i \in Invitations : SpentStays(i)
    BY StepSpendsOnce
  <2>2. \A u \in Users, t \in Tenants : ByInvitation(t, u)
    BY StepGrantsByInvitation
  <2> QED
    BY <2>1, <2>2 DEF SpentStays, ByInvitation
<1> QED
  BY <1>1, OrganizationInvHolds, PTL DEF OrganizationSpec, InvitationsAreSpentOnce

-----------------------------------------------------------------------------
(* Webhooks. All steps but the COMMIT of a new event leave the table       *)
(* alone; one lemma covers them.                                           *)

DeliveryRows == [endpoint : Endpoints, event : Events, payload : Payloads,
                 pc : DeliveryStates, answer : Answers]

Uncommitted == {"inserted", "marked"}

\* What a delivery says is in the table.
AnswerHolds(d) ==
  /\ delivery[d].pc = "committed" => events[delivery[d].event] # NoEvent /\ SameEvent(d)
  /\ delivery[d].answer = "processed" => delivery[d].pc = "committed"
  /\ delivery[d].pc \in Uncommitted => events[delivery[d].event] = NoEvent

Together(c, d) == c \in Deliveries /\ d \in Deliveries /\ delivery[c].event = delivery[d].event

WebhookInv ==
  /\ delivery \in [Deliveries -> DeliveryRows]
  /\ events \in [Events -> EventRows]
  /\ \A d \in Deliveries : AnswerHolds(d)
  /\ \A c, d \in Deliveries :
       Together(c, d) /\ delivery[c].pc \in Uncommitted /\ delivery[d].pc \in Uncommitted => c = d
  /\ \A c, d \in Deliveries :
       Together(c, d) /\ delivery[c].answer = "processed" /\ delivery[d].answer = "processed" => c = d
  /\ \A v \in Events :
       /\ events[v].state # "received"
       /\ events[v] # NoEvent =>
            \E d \in Deliveries : delivery[d].event = v /\ delivery[d].answer = "processed"

LEMMA InitHasWebhookInv == InitWebhooks => WebhookInv
<1> SUFFICES ASSUME InitWebhooks PROVE WebhookInv
  OBVIOUS
<1>1. /\ delivery \in [Deliveries -> DeliveryRows]
      /\ \A d \in Deliveries : delivery[d].pc = "new" /\ delivery[d].answer = "none"
  BY DEF InitWebhooks, DeliveryRows, DeliveryStates, Answers
<1>2. events \in [Events -> EventRows] /\ \A v \in Events : events[v] = NoEvent
  BY DEF InitWebhooks, EventRows
<1>3. NoEvent.state = "absent"
  BY DEF NoEvent
<1> QED
  BY <1>1, <1>2, <1>3 DEF WebhookInv, AnswerHolds, Uncommitted

\* An answer moves one delivery and leaves what the deliveries carry.
LEMMA AnsweredRow ==
  ASSUME WebhookInv, NEW d \in Deliveries, NEW pc \in DeliveryStates, NEW answer \in Answers,
         Answered(d, pc, answer)
  PROVE  /\ delivery' \in [Deliveries -> DeliveryRows]
         /\ delivery'[d].pc = pc /\ delivery'[d].answer = answer
         /\ delivery'[d].event = delivery[d].event
         /\ delivery'[d].endpoint = delivery[d].endpoint
         /\ delivery'[d].payload = delivery[d].payload
         /\ delivery[d].event \in Events /\ delivery[d].endpoint \in Endpoints
         /\ delivery[d].payload \in Payloads
         /\ \A c \in Deliveries : c # d => delivery'[c] = delivery[c]
<1>1. delivery \in [Deliveries -> DeliveryRows] /\ delivery[d] \in DeliveryRows
  BY DEF WebhookInv
<1>2. delivery' = [delivery EXCEPT ![d] = [[delivery[d] EXCEPT !.pc = pc] EXCEPT !.answer = answer]]
  BY <1>1 DEF Answered
<1> DEFINE row == [[delivery[d] EXCEPT !.pc = pc] EXCEPT !.answer = answer]
<1>3. /\ row \in DeliveryRows /\ row.pc = pc /\ row.answer = answer
      /\ row.event = delivery[d].event /\ row.endpoint = delivery[d].endpoint
      /\ row.payload = delivery[d].payload
      /\ delivery[d].event \in Events /\ delivery[d].endpoint \in Endpoints
      /\ delivery[d].payload \in Payloads
  BY <1>1 DEF DeliveryRows
<1> HIDE DEF row
<1>4. delivery' = [delivery EXCEPT ![d] = row]
  BY <1>2 DEF row
<1> QED
  BY <1>1, <1>3, <1>4

\* A step that leaves the table alone: it takes the key of a new event only when nobody has it,
\* and says what the table says.
LEMMA QuietStepKeepsInv ==
  ASSUME WebhookInv, NEW d \in Deliveries, NEW pc \in DeliveryStates, NEW answer \in Answers,
         Answered(d, pc, answer), UNCHANGED events,
         delivery[d].answer # "processed", answer # "processed",
         pc = "committed" => events[delivery[d].event] # NoEvent /\ SameEvent(d),
         pc \in Uncommitted =>
           /\ events[delivery[d].event] = NoEvent
           /\ \A c \in Deliveries : c # d /\ Together(c, d) => delivery[c].pc \notin Uncommitted
  PROVE  WebhookInv'
<1>1. /\ delivery' \in [Deliveries -> DeliveryRows] /\ events' \in [Events -> EventRows]
      /\ events' = events
  BY AnsweredRow DEF WebhookInv
<1>2. ASSUME NEW c \in Deliveries PROVE AnswerHolds(c)'
  <2>1. CASE c = d
    BY <2>1, AnsweredRow DEF AnswerHolds, SameEvent
  <2>2. CASE c # d
    BY <2>2, AnsweredRow DEF AnswerHolds, SameEvent, WebhookInv
  <2> QED
    BY <2>1, <2>2
<1>3. ASSUME NEW b \in Deliveries, NEW c \in Deliveries, Together(b, c)',
             delivery'[b].pc \in Uncommitted, delivery'[c].pc \in Uncommitted
      PROVE  b = c
  <2>1. Together(b, c)
    BY <1>3, AnsweredRow DEF Together
  <2> QED
    BY <1>3, <2>1, AnsweredRow DEF WebhookInv, Together
<1>4. ASSUME NEW b \in Deliveries, NEW c \in Deliveries, Together(b, c)',
             delivery'[b].answer = "processed", delivery'[c].answer = "processed"
      PROVE  b = c
  <2>1. Together(b, c)
    BY <1>4, AnsweredRow DEF Together
  <2> QED
    BY <1>4, <2>1, AnsweredRow DEF WebhookInv
<1>5. ASSUME NEW v \in Events
      PROVE  /\ events'[v].state # "received"
             /\ events'[v] # NoEvent =>
                  \E c \in Deliveries : delivery'[c].event = v /\ delivery'[c].answer = "processed"
  BY <1>1, AnsweredRow DEF WebhookInv
<1> QED
  BY <1>1, <1>2, <1>3, <1>4, <1>5 DEF WebhookInv

LEMMA VerifyKeepsInv ==
  ASSUME WebhookInv, NEW d \in Deliveries, Verify(d) PROVE WebhookInv'
<1>1. delivery[d].pc = "new" /\ UNCHANGED events /\ delivery[d].answer # "processed"
  BY DEF Verify, WebhookInv, AnswerHolds
<1>2. CASE Answered(d, "begun", "none")
  <2>1. "begun" \in DeliveryStates /\ "begun" \notin Uncommitted /\ "none" \in Answers
    BY DEF DeliveryStates, Uncommitted, Answers
  <2> QED
    BY <1>1, <1>2, <2>1, QuietStepKeepsInv
<1>3. ASSUME NEW refusal \in {"401", "404"}, Answered(d, "rolledBack", refusal) PROVE WebhookInv'
  <2>1. /\ "rolledBack" \in DeliveryStates /\ "rolledBack" \notin Uncommitted
        /\ refusal \in Answers /\ refusal # "processed"
    BY DEF DeliveryStates, Uncommitted, Answers
  <2> QED
    BY <1>1, <1>3, <2>1, QuietStepKeepsInv
<1> QED
  BY <1>2, <1>3 DEF Verify

LEMMA RecordKeepsInv ==
  ASSUME WebhookInv, NEW d \in Deliveries, Record(d) PROVE WebhookInv'
<1>1. /\ events[delivery[d].event] = NoEvent /\ UNCHANGED events
      /\ Answered(d, "inserted", "none") /\ delivery[d].answer # "processed"
  BY DEF Record, WebhookInv, AnswerHolds
<1>2. \A c \in Deliveries : Together(c, d) => delivery[c].pc \notin Uncommitted
  BY DEF Record, KeyIsSettled, Inserting, Together, Uncommitted
<1>3. "inserted" \in DeliveryStates /\ "none" \in Answers
  BY DEF DeliveryStates, Answers
<1> QED
  BY <1>1, <1>2, <1>3, QuietStepKeepsInv

LEMMA ReplayKeepsInv ==
  ASSUME WebhookInv, NEW d \in Deliveries, Replay(d) PROVE WebhookInv'
<1>1. /\ events[delivery[d].event] # NoEvent /\ UNCHANGED events
      /\ delivery[d].answer # "processed"
  BY DEF Replay, WebhookInv, AnswerHolds
<1>2. /\ {"committed", "rolledBack"} \subseteq DeliveryStates
      /\ "committed" \notin Uncommitted /\ "rolledBack" \notin Uncommitted
      /\ {"replayed", "409"} \subseteq Answers
  BY DEF DeliveryStates, Uncommitted, Answers
<1>3. CASE SameEvent(d)
  <2>1. Answered(d, "committed", "replayed")
    BY <1>3 DEF Replay
  <2> QED
    BY <1>1, <1>2, <1>3, <2>1, QuietStepKeepsInv
<1>4. CASE ~SameEvent(d)
  <2>1. Answered(d, "rolledBack", "409")
    BY <1>4 DEF Replay
  <2> QED
    BY <1>1, <1>2, <2>1, QuietStepKeepsInv
<1> QED
  BY <1>3, <1>4

LEMMA MarkKeepsInv ==
  ASSUME WebhookInv, NEW d \in Deliveries, MarkProcessed(d) PROVE WebhookInv'
<1>1. /\ delivery[d].pc \in Uncommitted /\ UNCHANGED events
      /\ Answered(d, "marked", "none") /\ delivery[d].answer # "processed"
  BY DEF MarkProcessed, WebhookInv, AnswerHolds, Uncommitted
<1>2. events[delivery[d].event] = NoEvent
  BY <1>1 DEF WebhookInv, AnswerHolds
<1>3. \A c \in Deliveries : c # d /\ Together(c, d) => delivery[c].pc \notin Uncommitted
  BY <1>1 DEF WebhookInv
<1>4. "marked" \in DeliveryStates /\ "none" \in Answers
  BY DEF DeliveryStates, Answers
<1> QED
  BY <1>1, <1>2, <1>3, <1>4, QuietStepKeepsInv

LEMMA LoseKeepsInv ==
  ASSUME WebhookInv, NEW d \in Deliveries, LoseDelivery(d) PROVE WebhookInv'
<1>1. UNCHANGED events /\ Answered(d, "rolledBack", "lost") /\ delivery[d].answer # "processed"
  BY DEF LoseDelivery, WebhookInv, AnswerHolds
<1>2. /\ "rolledBack" \in DeliveryStates /\ "rolledBack" \notin Uncommitted
      /\ "lost" \in Answers
  BY DEF DeliveryStates, Uncommitted, Answers
<1> QED
  BY <1>1, <1>2, QuietStepKeepsInv

LEMMA RedeliverKeepsInv ==
  ASSUME WebhookInv, NEW d \in Deliveries, Redeliver(d) PROVE WebhookInv'
<1>1. UNCHANGED events /\ Answered(d, "new", "none") /\ delivery[d].answer # "processed"
  BY DEF Redeliver, WebhookInv, AnswerHolds
<1>2. "new" \in DeliveryStates /\ "new" \notin Uncommitted /\ "none" \in Answers
  BY DEF DeliveryStates, Uncommitted, Answers
<1> QED
  BY <1>1, <1>2, QuietStepKeepsInv

\* The COMMIT of a new event: it held the key, so the table had no row and no delivery won before.
LEMMA CommitKeepsInv ==
  ASSUME WebhookInv, NEW d \in Deliveries, CommitDelivery(d) PROVE WebhookInv'
<1> DEFINE v == delivery[d].event
           row == [endpoint |-> delivery[d].endpoint, payload |-> delivery[d].payload,
                   state |-> "processed"]
<1>1. /\ Answered(d, "committed", "processed") /\ delivery[d].pc = "marked"
      /\ "committed" \in DeliveryStates /\ "processed" \in Answers
      /\ "marked" \in Uncommitted /\ "committed" \notin Uncommitted
  BY DEF CommitDelivery, DeliveryStates, Answers, Uncommitted
<1>2. v \in Events /\ row \in EventRows /\ row # NoEvent /\ row.state # "received"
  BY <1>1, AnsweredRow DEF EventRows, NoEvent
<1>3. /\ events' \in [Events -> EventRows] /\ events'[v] = row
      /\ \A w \in Events : w # v => events'[w] = events[w]
  BY <1>2 DEF CommitDelivery, WebhookInv
<1>4. events[v] = NoEvent
  BY <1>1 DEF WebhookInv, AnswerHolds
<1>5. \A c \in Deliveries : c # d /\ Together(c, d) =>
        /\ delivery[c].pc \notin Uncommitted /\ delivery[c].pc # "committed"
        /\ delivery[c].answer # "processed"
  BY <1>1, <1>4 DEF WebhookInv, AnswerHolds, Together
<1>6. ASSUME NEW c \in Deliveries PROVE AnswerHolds(c)'
  <2>1. CASE c = d
    BY <1>1, <1>2, <1>3, <2>1, AnsweredRow DEF AnswerHolds, SameEvent
  <2>2. CASE c # d /\ Together(c, d)
    BY <1>1, <1>5, <2>2, AnsweredRow DEF AnswerHolds
  <2>3. CASE c # d /\ ~Together(c, d)
    <3>1. delivery'[c] = delivery[c] /\ events'[delivery[c].event] = events[delivery[c].event]
      BY <1>1, <1>3, <2>3, AnsweredRow DEF WebhookInv, DeliveryRows, Together
    <3> QED
      BY <3>1 DEF WebhookInv, AnswerHolds, SameEvent
  <2> QED
    BY <2>1, <2>2, <2>3
<1> HIDE DEF v, row
<1>7. ASSUME NEW b \in Deliveries, NEW c \in Deliveries, Together(b, c)',
             delivery'[b].pc \in Uncommitted, delivery'[c].pc \in Uncommitted
      PROVE  b = c
  BY <1>1, <1>7, AnsweredRow DEF WebhookInv, Together
<1>8. ASSUME NEW b \in Deliveries, NEW c \in Deliveries, Together(b, c)',
             delivery'[b].answer = "processed", delivery'[c].answer = "processed"
      PROVE  b = c
  <2>1. Together(b, c)
    BY <1>1, <1>8, AnsweredRow DEF Together
  <2> QED
    BY <1>1, <1>5, <1>8, <2>1, AnsweredRow DEF WebhookInv, Together
<1>9. ASSUME NEW w \in Events
      PROVE  /\ events'[w].state # "received"
             /\ events'[w] # NoEvent =>
                  \E c \in Deliveries : delivery'[c].event = w /\ delivery'[c].answer = "processed"
  <2>1. CASE w = v
    BY <1>1, <1>2, <1>3, <2>1, AnsweredRow DEF v
  <2>2. CASE w # v
    BY <1>1, <1>3, <2>2, AnsweredRow DEF WebhookInv, v
  <2> QED
    BY <2>1, <2>2
<1> QED
  BY <1>1, <1>3, <1>6, <1>7, <1>8, <1>9, AnsweredRow DEF WebhookInv

LEMMA StepKeepsWebhookInv == WebhookInv /\ [NextWebhooks]_webhookVars => WebhookInv'
<1> SUFFICES ASSUME WebhookInv, [NextWebhooks]_webhookVars PROVE WebhookInv'
  OBVIOUS
<1>1. CASE UNCHANGED webhookVars
  BY <1>1 DEF webhookVars, WebhookInv, AnswerHolds, SameEvent, Together
<1>2. CASE NextWebhooks
  BY <1>2, VerifyKeepsInv, RecordKeepsInv, ReplayKeepsInv, MarkKeepsInv, CommitKeepsInv,
     LoseKeepsInv, RedeliverKeepsInv DEF NextWebhooks
<1> QED
  BY <1>1, <1>2

LEMMA WebhookInvHolds == WebhookSpec => []WebhookInv
BY InitHasWebhookInv, StepKeepsWebhookInv, PTL DEF WebhookSpec

\* The table holds rows of events. (webhook_events)
THEOREM WebhookTypes == WebhookSpec => []WebhookTypeOK
<1>1. WebhookInv => WebhookTypeOK
  BY DEF WebhookInv, WebhookTypeOK, DeliveryRows
<1> QED
  BY <1>1, WebhookInvHolds, PTL

\* For any number of deliveries of any events: one processes an event, the others are answered from
\* its row, and a crash leaves no row half done. (WebhookService.ingest, recordWebhookEvent)
THEOREM EventsAreAlwaysProcessedOnce == WebhookSpec => []EventsAreProcessedOnce
<1>1. WebhookInv => EventsAreProcessedOnce
  <2> SUFFICES ASSUME WebhookInv, NEW v \in Events
               PROVE  LET winners == {d \in Deliveries : delivery[d].event = v /\ delivery[d].answer = "processed"}
                          answered == {d \in Deliveries : delivery[d].event = v /\ delivery[d].pc = "committed"}
                      IN  /\ Cardinality(winners) <= 1
                          /\ events[v] # NoEvent <=> winners # {}
                          /\ events[v].state # "received"
                          /\ \A d \in answered : SameEvent(d)
    BY DEF EventsAreProcessedOnce
  <2> DEFINE winners == {d \in Deliveries : delivery[d].event = v /\ delivery[d].answer = "processed"}
  <2>1. \A c, d \in winners : c = d
    BY DEF WebhookInv, Together
  <2>2. events[v] # NoEvent <=> winners # {}
    BY DEF WebhookInv, AnswerHolds
  <2>3. /\ events[v].state # "received"
        /\ \A d \in Deliveries : delivery[d].event = v /\ delivery[d].pc = "committed" => SameEvent(d)
    BY DEF WebhookInv, AnswerHolds
  <2> HIDE DEF winners
  <2>4. Cardinality(winners) <= 1
    <3>1. CASE winners = {}
      BY <3>1, FS_EmptySet
    <3>2. CASE winners # {}
      <4>1. PICK d \in winners : winners = {d}
        BY <2>1, <3>2
      <4>2. Cardinality({d}) = 1
        BY FS_Singleton
      <4> QED
        BY <4>1, <4>2
    <3> QED
      BY <3>1, <3>2
  <2> QED
    BY <2>2, <2>3, <2>4 DEF winners
<1> QED
  BY <1>1, WebhookInvHolds, PTL

-----------------------------------------------------------------------------
(* The rate limiter. What bounds the calls of a key is a fact about its    *)
(* history and its present window only; the first lemmas state it for one  *)
(* key.                                                                    *)

\* The present window of a key against its history: calls before the window are a window older
\* than its end, and those before the last `RateLimit` of them two windows.
InWindow(history, bucket, at) ==
  /\ bucket.resetAt - WindowLength <= at /\ bucket.count <= Len(history)
  /\ \A i \in 1 .. Len(history) :
       /\ history[i] <= at
       /\ i + bucket.count <= Len(history) => history[i] + WindowLength <= bucket.resetAt
       /\ i + bucket.count + RateLimit <= Len(history) =>
            history[i] + WindowLength + WindowLength <= bucket.resetAt

\* A key without a bucket lost it when it expired: all but its last calls are a window old.
PastWindow(history, at) ==
  \A i \in 1 .. Len(history) :
    /\ history[i] <= at
    /\ i + RateLimit <= Len(history) => history[i] + WindowLength <= at

\* Calls that are 2 * RateLimit apart are a window apart.
Spaced(history) ==
  \A i \in 1 .. Len(history) :
    i > 2 * RateLimit => history[i] >= history[i - 2 * RateLimit] + WindowLength

\* A call within the window is counted in it.
LEMMA CallIsWindowed ==
  ASSUME NEW h \in Seq(Nat), NEW b \in Bucket, NEW at \in Nat,
         InWindow(h, b, at), Spaced(h), b.count < RateLimit
  PROVE  /\ InWindow(Append(h, at), [b EXCEPT !.count = @ + 1], at)
         /\ Spaced(Append(h, at))
<1> DEFINE g == Append(h, at)
           c == [b EXCEPT !.count = @ + 1]
           n == Len(h)
<1>1. /\ Len(g) = n + 1 /\ n \in Nat
      /\ \A i \in 1 .. n : g[i] = h[i] /\ h[i] \in Nat
      /\ g[n + 1] = at
  OBVIOUS
<1>2. /\ c.count = b.count + 1 /\ c.resetAt = b.resetAt
      /\ b.count \in 1 .. RateLimit /\ b.resetAt \in Nat
  BY DEF Bucket
<1>3. WindowLength \in Nat \ {0} /\ RateLimit \in Nat \ {0}
  BY RateLimiterAssumption
<1>4. /\ b.resetAt - WindowLength <= at /\ b.count <= n
      /\ \A i \in 1 .. n :
           /\ h[i] <= at
           /\ i + b.count <= n => h[i] + WindowLength <= b.resetAt
           /\ i + b.count + RateLimit <= n => h[i] + WindowLength + WindowLength <= b.resetAt
  BY DEF InWindow
<1> HIDE DEF g, c, n
<1>5. ASSUME NEW i \in 1 .. n + 1
      PROVE  /\ g[i] <= at
             /\ i + c.count <= n + 1 => g[i] + WindowLength <= c.resetAt
             /\ i + c.count + RateLimit <= n + 1 => g[i] + WindowLength + WindowLength <= c.resetAt
  <2>1. CASE i = n + 1
    BY <1>1, <1>2, <1>3, <2>1
  <2>2. CASE i \in 1 .. n
    <3>1. g[i] = h[i] /\ i \in Nat /\ c.count = b.count + 1 /\ b.count \in Nat /\ n \in Nat
      BY <1>1, <1>2, <2>2
    <3>2. /\ h[i] <= at
          /\ i + b.count <= n => h[i] + WindowLength <= b.resetAt
          /\ i + b.count + RateLimit <= n => h[i] + WindowLength + WindowLength <= b.resetAt
      BY <1>4, <2>2
    <3>3. i + c.count <= n + 1 => i + b.count <= n
      BY <3>1
    <3>4. i + c.count + RateLimit <= n + 1 => i + b.count + RateLimit <= n
      BY <3>1, <1>3
    <3> QED
      BY <1>2, <3>1, <3>2, <3>3, <3>4
  <2> QED
    BY <1>1, <2>1, <2>2
<1>6. InWindow(g, c, at)
  BY <1>1, <1>2, <1>3, <1>4, <1>5 DEF InWindow
<1>7. ASSUME NEW i \in 1 .. n + 1, i > 2 * RateLimit
      PROVE  g[i] >= g[i - 2 * RateLimit] + WindowLength
  <2> DEFINE j == i - 2 * RateLimit
  <2>1. j \in 1 .. n
    BY <1>1, <1>3, <1>7
  <2> HIDE DEF j
  <2>2. CASE i = n + 1
    <3>1. j + b.count + RateLimit <= n
      BY <1>1, <1>2, <1>3, <2>2 DEF j
    <3>2. h[j] + WindowLength + WindowLength <= b.resetAt
      BY <1>4, <2>1, <3>1
    <3>3. g[j] = h[j] /\ h[j] \in Nat /\ g[i] = at
      BY <1>1, <2>1, <2>2
    <3>4. at >= h[j] + WindowLength
      BY <1>2, <1>3, <1>4, <3>2, <3>3
    <3> QED
      BY <3>3, <3>4 DEF j
  <2>3. CASE i \in 1 .. n
    <3>1. h[i] >= h[j] + WindowLength
      BY <1>7, <2>3 DEF Spaced, n, j
    <3> QED
      BY <1>1, <2>1, <2>3, <3>1 DEF j
  <2> QED
    BY <1>1, <2>2, <2>3
<1>8. Spaced(g)
  BY <1>1, <1>7 DEF Spaced
<1> QED
  BY <1>6, <1>8 DEF g, c

\* A window is past when its bucket has expired.
LEMMA EvictionIsWindowed ==
  ASSUME NEW h \in Seq(Nat), NEW b \in Bucket, NEW at \in Nat,
         InWindow(h, b, at), b.resetAt <= at
  PROVE  PastWindow(h, at)
<1>1. b.count \in 1 .. RateLimit /\ b.resetAt \in Nat
  BY DEF Bucket
<1>2. WindowLength \in Nat \ {0} /\ RateLimit \in Nat \ {0}
  BY RateLimiterAssumption
<1>3. Len(h) \in Nat /\ \A i \in 1 .. Len(h) : h[i] \in Nat
  OBVIOUS
<1>4. ASSUME NEW i \in 1 .. Len(h)
      PROVE  h[i] <= at /\ (i + RateLimit <= Len(h) => h[i] + WindowLength <= at)
  <2>1. h[i] <= at /\ (i + b.count <= Len(h) => h[i] + WindowLength <= b.resetAt)
    BY DEF InWindow
  <2>2. i \in Nat /\ Len(h) \in Nat /\ h[i] \in Nat
    BY <1>3
  <2>3. i + RateLimit <= Len(h) => i + b.count <= Len(h)
    BY <1>1, <1>2, <2>2
  <2>4. h[i] + WindowLength <= b.resetAt => h[i] + WindowLength <= at
    BY <1>1, <1>2, <2>2
  <2> QED
    BY <2>1, <2>3, <2>4
<1> QED
  BY <1>4 DEF PastWindow

\* A call that starts a window: the last one of the key is past.
LEMMA StartIsWindowed ==
  ASSUME NEW h \in Seq(Nat), NEW at \in Nat, PastWindow(h, at), Spaced(h)
  PROVE  /\ InWindow(Append(h, at), [count |-> 1, resetAt |-> at + WindowLength], at)
         /\ Spaced(Append(h, at))
<1> DEFINE g == Append(h, at)
           c == [count |-> 1, resetAt |-> at + WindowLength]
           n == Len(h)
<1>1. /\ Len(g) = n + 1 /\ n \in Nat
      /\ \A i \in 1 .. n : g[i] = h[i] /\ h[i] \in Nat
      /\ g[n + 1] = at
  OBVIOUS
<1>2. c.count = 1 /\ c.resetAt = at + WindowLength
  OBVIOUS
<1>3. WindowLength \in Nat \ {0} /\ RateLimit \in Nat \ {0}
  BY RateLimiterAssumption
<1> HIDE DEF g, c
<1>4. ASSUME NEW i \in 1 .. n
      PROVE  h[i] <= at /\ (i + RateLimit <= n => h[i] + WindowLength <= at)
  BY DEF PastWindow
<1> HIDE DEF n
<1>5. ASSUME NEW i \in 1 .. n + 1
      PROVE  /\ g[i] <= at
             /\ i + 1 <= n + 1 => g[i] + WindowLength <= at + WindowLength
             /\ i + 1 + RateLimit <= n + 1 =>
                  g[i] + WindowLength + WindowLength <= at + WindowLength
  <2>1. CASE i = n + 1
    BY <1>1, <1>3, <2>1
  <2>2. CASE i \in 1 .. n
    <3>1. g[i] = h[i] /\ h[i] \in Nat /\ i \in Nat /\ n \in Nat
      BY <1>1, <2>2
    <3>2. h[i] <= at /\ (i + RateLimit <= n => h[i] + WindowLength <= at)
      BY <1>4, <2>2
    <3>3. i + 1 + RateLimit <= n + 1 => i + RateLimit <= n
      BY <1>3, <3>1
    <3> QED
      BY <1>3, <3>1, <3>2, <3>3
  <2> QED
    BY <1>1, <2>1, <2>2
<1>6. InWindow(g, c, at)
  BY <1>1, <1>2, <1>3, <1>5 DEF InWindow
<1>7. ASSUME NEW i \in 1 .. n + 1, i > 2 * RateLimit
      PROVE  g[i] >= g[i - 2 * RateLimit] + WindowLength
  <2> DEFINE j == i - 2 * RateLimit
  <2>1. j \in 1 .. n
    BY <1>1, <1>3, <1>7
  <2> HIDE DEF j
  <2>2. CASE i = n + 1
    <3>1. j + RateLimit <= n
      BY <1>1, <1>3, <2>2 DEF j
    <3>2. h[j] + WindowLength <= at
      BY <1>4, <2>1, <3>1
    <3> QED
      BY <1>1, <2>1, <2>2, <3>2 DEF j
  <2>3. CASE i \in 1 .. n
    <3>1. h[i] >= h[j] + WindowLength
      BY <1>7, <2>3 DEF Spaced, n, j
    <3> QED
      BY <1>1, <2>1, <2>3, <3>1 DEF j
  <2> QED
    BY <1>1, <2>2, <2>3
<1>8. Spaced(g)
  BY <1>1, <1>7 DEF Spaced
<1> QED
  BY <1>6, <1>8 DEF g, c

\* Time passes.
LEMMA TickIsWindowed ==
  ASSUME NEW h \in Seq(Nat), NEW at \in Nat
  PROVE  /\ \A b \in Bucket : InWindow(h, b, at) => InWindow(h, b, at + 1)
         /\ PastWindow(h, at) => PastWindow(h, at + 1)
<1>1. \A b \in Bucket : b.count \in Nat /\ b.resetAt \in Nat
  BY RateLimiterAssumption DEF Bucket
<1>2. WindowLength \in Nat \ {0} /\ RateLimit \in Nat \ {0}
  BY RateLimiterAssumption
<1>3. Len(h) \in Nat /\ \A i \in 1 .. Len(h) : h[i] \in Nat
  OBVIOUS
<1>4. ASSUME NEW b \in Bucket, InWindow(h, b, at) PROVE InWindow(h, b, at + 1)
  BY <1>1, <1>2, <1>3, <1>4 DEF InWindow
<1>5. PastWindow(h, at) => PastWindow(h, at + 1)
  BY <1>2, <1>3 DEF PastWindow
<1> QED
  BY <1>4, <1>5

-----------------------------------------------------------------------------
(* The whole Map.                                                          *)

KeyInv(key) ==
  /\ key \in DOMAIN buckets => InWindow(granted[key], buckets[key], clock)
  /\ key \notin DOMAIN buckets => PastWindow(granted[key], clock)
  /\ Spaced(granted[key])

LimiterInv ==
  /\ LimiterTypeOK
  /\ IsFiniteSet(DOMAIN buckets)
  /\ Cardinality(DOMAIN buckets) <= MaxBuckets
  /\ \A key \in Callers : KeyInv(key)

LEMMA InitHasLimiterInv == InitLimiter => LimiterInv
<1> SUFFICES ASSUME InitLimiter PROVE LimiterInv
  OBVIOUS
<1>1. DOMAIN buckets = {}
  BY DEF InitLimiter
<1>2. IsFiniteSet(DOMAIN buckets) /\ Cardinality(DOMAIN buckets) <= MaxBuckets
  BY <1>1, FS_EmptySet, RateLimiterAssumption
<1>3. \A key \in Callers : granted[key] = <<>>
  BY DEF InitLimiter
<1>4. LimiterTypeOK
  BY <1>1, RateLimiterAssumption DEF InitLimiter, LimiterTypeOK
<1>5. ASSUME NEW key \in Callers PROVE KeyInv(key)
  BY <1>1, <1>3 DEF KeyInv, PastWindow, Spaced
<1> QED
  BY <1>2, <1>4, <1>5 DEF LimiterInv

\* What the invariant says of the values of the variables.
LEMMA LimiterValues ==
  ASSUME LimiterInv, NEW key \in Callers
  PROVE  /\ granted[key] \in Seq(Nat) /\ granted[key] \in Seq(0 .. Horizon)
         /\ clock \in Nat /\ clock \in 0 .. Horizon
         /\ key \in DOMAIN buckets => buckets[key] \in Bucket
         /\ KeyInv(key)
<1>1. granted[key] \in Seq(0 .. Horizon)
  BY DEF LimiterInv, LimiterTypeOK
<1>2. granted[key] \in Seq(Nat)
  BY <1>1, SeqDef, RateLimiterAssumption
<1> QED
  BY <1>1, <1>2, RateLimiterAssumption DEF LimiterInv, LimiterTypeOK

\* An allowed call adds the present to the history of its key only.
LEMMA GrantedHistory ==
  ASSUME LimiterInv, NEW key \in Callers, Granted(key)
  PROVE  /\ granted' \in [Callers -> Seq(0 .. Horizon)]
         /\ granted'[key] = Append(granted[key], clock)
         /\ \A k \in Callers : k # key => granted'[k] = granted[k]
         /\ clock' = clock
<1>1. granted \in [Callers -> Seq(0 .. Horizon)] /\ clock \in 0 .. Horizon
  BY DEF LimiterInv, LimiterTypeOK
<1>2. Append(granted[key], clock) \in Seq(0 .. Horizon)
  BY <1>1
<1> QED
  BY <1>1, <1>2 DEF Granted

LEMMA TickKeepsLimiterInv ==
  ASSUME LimiterInv, Tick PROVE LimiterInv'
<1>1. clock' = clock + 1 /\ clock' \in 0 .. Horizon /\ buckets' = buckets /\ granted' = granted
  BY RateLimiterAssumption DEF Tick, LimiterInv, LimiterTypeOK
<1>2. LimiterTypeOK'
  BY <1>1 DEF LimiterInv, LimiterTypeOK, Bucket
<1>3. ASSUME NEW key \in Callers PROVE KeyInv(key)'
  BY <1>1, LimiterValues, TickIsWindowed DEF KeyInv
<1> QED
  BY <1>1, <1>2, <1>3 DEF LimiterInv

LEMMA CountKeepsLimiterInv ==
  ASSUME LimiterInv, NEW key \in Callers, CountCall(key) PROVE LimiterInv'
<1>1. key \in DOMAIN buckets /\ buckets[key] \in Bucket /\ buckets[key].count < RateLimit
  BY LimiterValues DEF CountCall, LiveBuckets, CallsLeft
<1>2. /\ DOMAIN buckets' = DOMAIN buckets
      /\ buckets'[key] = [buckets[key] EXCEPT !.count = @ + 1]
      /\ \A k \in DOMAIN buckets : k # key => buckets'[k] = buckets[k]
  BY <1>1 DEF CountCall
<1>3. buckets'[key] \in Bucket
  BY <1>1, <1>2, RateLimiterAssumption DEF Bucket
<1>4. Granted(key)
  BY DEF CountCall
<1>5. LimiterTypeOK'
  <2>1. ASSUME NEW k \in DOMAIN buckets' PROVE buckets'[k] \in Bucket
    BY <1>2, <1>3, <2>1 DEF LimiterInv, LimiterTypeOK
  <2> QED
    BY <1>2, <1>4, <2>1, GrantedHistory DEF LimiterInv, LimiterTypeOK, Bucket
<1>6. KeyInv(key)'
  <2>1. InWindow(granted[key], buckets[key], clock) /\ Spaced(granted[key])
    BY <1>1, LimiterValues DEF KeyInv
  <2>2. /\ InWindow(Append(granted[key], clock), [buckets[key] EXCEPT !.count = @ + 1], clock)
        /\ Spaced(Append(granted[key], clock))
    BY <1>1, <2>1, LimiterValues, CallIsWindowed
  <2> QED
    BY <1>1, <1>2, <1>4, <2>2, GrantedHistory DEF KeyInv
<1>7. ASSUME NEW k \in Callers, k # key PROVE KeyInv(k)'
  <2>1. KeyInv(k)
    BY LimiterValues
  <2> QED
    BY <1>2, <1>4, <1>7, <2>1, GrantedHistory DEF KeyInv
<1> QED
  BY <1>2, <1>5, <1>6, <1>7 DEF LimiterInv

LEMMA StartKeepsLimiterInv ==
  ASSUME LimiterInv, NEW key \in Callers, StartWindow(key) PROVE LimiterInv'
<1> DEFINE kept == KeptFor(key)
           fresh == [count |-> 1, resetAt |-> clock + WindowLength]
<1>1. /\ key \notin LiveBuckets
      /\ key \in DOMAIN buckets \/ Cardinality(kept) < MaxBuckets
      /\ Granted(key)
      /\ DOMAIN buckets' = kept \cup {key}
      /\ buckets'[key] = fresh
      /\ \A k \in kept : k # key => buckets'[k] = buckets[k]
  BY DEF StartWindow
<1>2. /\ kept \subseteq DOMAIN buckets
      /\ key \in DOMAIN buckets => kept = DOMAIN buckets
      /\ \A k \in DOMAIN buckets \ kept : buckets[k].resetAt <= clock
  BY DEF KeptFor, LiveBuckets, Expired
<1> HIDE DEF kept
<1>3. fresh \in Bucket
  BY LimiterValues, RateLimiterAssumption DEF Bucket
<1>4. LimiterTypeOK'
  <2>1. ASSUME NEW k \in DOMAIN buckets' PROVE buckets'[k] \in Bucket
    BY <1>1, <1>2, <1>3, <2>1 DEF LimiterInv, LimiterTypeOK
  <2>2. DOMAIN buckets' \subseteq Callers
    BY <1>1, <1>2 DEF LimiterInv, LimiterTypeOK
  <2> QED
    BY <1>1, <2>1, <2>2, GrantedHistory DEF LimiterInv, LimiterTypeOK, Bucket
<1>5. IsFiniteSet(DOMAIN buckets') /\ Cardinality(DOMAIN buckets') <= MaxBuckets
  <2>1. CASE key \in DOMAIN buckets
    <3>1. DOMAIN buckets' = DOMAIN buckets
      BY <1>1, <1>2, <2>1
    <3> QED
      BY <3>1 DEF LimiterInv
  <2>2. CASE key \notin DOMAIN buckets
    <3>1. IsFiniteSet(kept) /\ Cardinality(kept) \in Nat /\ key \notin kept
      BY <1>2, <2>2, FS_Subset, FS_CardinalityType DEF LimiterInv
    <3>2. IsFiniteSet(kept \cup {key}) /\ Cardinality(kept \cup {key}) = Cardinality(kept) + 1
      BY <3>1, FS_AddElement
    <3> QED
      BY <1>1, <2>2, <3>1, <3>2, RateLimiterAssumption
  <2> QED
    BY <2>1, <2>2
<1>6. KeyInv(key)'
  <2>1. PastWindow(granted[key], clock) /\ Spaced(granted[key])
    <3>1. CASE key \in DOMAIN buckets
      <4>1. buckets[key] \in Bucket /\ buckets[key].resetAt <= clock
        BY <1>1, <3>1, LimiterValues DEF LiveBuckets, Expired
      <4>2. InWindow(granted[key], buckets[key], clock) /\ Spaced(granted[key])
        BY <3>1, LimiterValues DEF KeyInv
      <4> QED
        BY <4>1, <4>2, LimiterValues, EvictionIsWindowed
    <3>2. CASE key \notin DOMAIN buckets
      BY <3>2, LimiterValues DEF KeyInv
    <3> QED
      BY <3>1, <3>2
  <2>2. InWindow(Append(granted[key], clock), fresh, clock) /\ Spaced(Append(granted[key], clock))
    BY <2>1, LimiterValues, StartIsWindowed
  <2> QED
    BY <1>1, <2>2, GrantedHistory DEF KeyInv
<1>7. ASSUME NEW k \in Callers, k # key PROVE KeyInv(k)'
  <2>1. KeyInv(k) /\ granted'[k] = granted[k] /\ clock' = clock
    BY <1>1, <1>7, GrantedHistory, LimiterValues
  <2>2. CASE k \in kept
    BY <1>1, <1>2, <1>7, <2>1, <2>2 DEF KeyInv
  <2>3. CASE k \in DOMAIN buckets /\ k \notin kept
    <3>1. InWindow(granted[k], buckets[k], clock) /\ buckets[k].resetAt <= clock
      BY <1>2, <2>1, <2>3 DEF KeyInv
    <3>2. PastWindow(granted[k], clock)
      BY <2>3, <3>1, LimiterValues, EvictionIsWindowed
    <3>3. k \notin DOMAIN buckets'
      BY <1>1, <1>7, <2>3
    <3> QED
      BY <2>1, <3>2, <3>3 DEF KeyInv
  <2>4. CASE k \notin DOMAIN buckets
    <3>1. k \notin DOMAIN buckets'
      BY <1>1, <1>2, <1>7, <2>4
    <3> QED
      BY <2>1, <2>4, <3>1 DEF KeyInv
  <2> QED
    BY <2>2, <2>3, <2>4
<1> QED
  BY <1>4, <1>5, <1>6, <1>7 DEF LimiterInv

LEMMA StepKeepsLimiterInv == LimiterInv /\ [NextLimiter]_limiterVars => LimiterInv'
<1> SUFFICES ASSUME LimiterInv, [NextLimiter]_limiterVars PROVE LimiterInv'
  OBVIOUS
<1>1. CASE UNCHANGED limiterVars
  BY <1>1 DEF limiterVars, LimiterInv, LimiterTypeOK, KeyInv, Bucket
<1>2. CASE Tick
  BY <1>2, TickKeepsLimiterInv
<1>3. ASSUME NEW key \in Callers, StartWindow(key) PROVE LimiterInv'
  BY <1>3, StartKeepsLimiterInv
<1>4. ASSUME NEW key \in Callers, CountCall(key) PROVE LimiterInv'
  BY <1>4, CountKeepsLimiterInv
<1> QED
  BY <1>1, <1>2, <1>3, <1>4 DEF NextLimiter

LEMMA LimiterInvHolds == LimiterSpec => []LimiterInv
BY InitHasLimiterInv, StepKeepsLimiterInv, PTL DEF LimiterSpec

\* The Map holds buckets of callers, the history times of the clock. (InMemoryRateLimiter)
THEOREM LimiterTypes == LimiterSpec => []LimiterTypeOK
<1>1. LimiterInv => LimiterTypeOK
  BY DEF LimiterInv
<1> QED
  BY <1>1, LimiterInvHolds, PTL

\* For any limit, window, size of the Map and number of callers: the Map keeps to its bound and no
\* key is allowed more than two windows' calls in a stretch as long as a window.
\* (InMemoryRateLimiter.allow)
THEOREM RateIsAlwaysLimited == LimiterSpec => []RateIsLimited
<1>1. LimiterInv => RateIsLimited
  <2> SUFFICES ASSUME LimiterInv PROVE RateIsLimited
    OBVIOUS
  <2>1. ASSUME NEW key \in Callers, NEW i \in DOMAIN granted[key], i > 2 * RateLimit
        PROVE  granted[key][i] >= granted[key][i - 2 * RateLimit] + WindowLength
    BY <2>1, LimiterValues DEF KeyInv, Spaced
  <2> QED
    BY <2>1 DEF RateIsLimited, LimiterInv
<1> QED
  BY <1>1, LimiterInvHolds, PTL

-----------------------------------------------------------------------------
(* One of them in a behaviour: the others stay as they began.              *)

\* The deliveries of a behaviour that runs another component are never begun.
PlatformInv ==
  /\ part \in {"organizations", "webhooks", "limiter"}
  /\ OrganizationInv
  /\ LimiterInv
  /\ WebhookTypeOK
  /\ part = "webhooks" => WebhookInv
  /\ part # "webhooks" => /\ events = [v \in Events |-> NoEvent]
                          /\ \A d \in Deliveries : delivery[d].pc = "new" /\ delivery[d].answer = "none"

LEMMA InvHasWebhookTypes == WebhookInv => WebhookTypeOK
BY DEF WebhookInv, WebhookTypeOK, DeliveryRows

LEMMA InitHasPlatformInv == PlatformInit => PlatformInv
<1> SUFFICES ASSUME PlatformInit PROVE PlatformInv
  OBVIOUS
<1>1. OrganizationInv /\ LimiterInv
  BY InitHasOrganizationInv, InitHasLimiterInv DEF PlatformInit
<1>2. CASE part = "webhooks"
  BY <1>1, <1>2, InitHasWebhookInv, InvHasWebhookTypes DEF PlatformInit, PlatformInv
<1>3. CASE part # "webhooks"
  <2>1. events = [v \in Events |-> NoEvent]
    BY <1>3 DEF PlatformInit
  <2>2. \A d \in Deliveries : delivery[d].pc = "new" /\ delivery[d].answer = "none"
    BY <1>3 DEF PlatformInit
  <2>3. WebhookTypeOK
    BY <2>1, <2>2 DEF WebhookTypeOK, EventRows, DeliveryStates, Answers
  <2> QED
    BY <1>1, <1>3, <2>1, <2>2, <2>3 DEF PlatformInit, PlatformInv
<1> QED
  BY <1>2, <1>3

LEMMA StepKeepsPlatformInv ==
  PlatformInv /\ [PlatformNext]_<<part, organizationVars, webhookVars, limiterVars>> => PlatformInv'
<1> SUFFICES ASSUME PlatformInv,
                    [PlatformNext]_<<part, organizationVars, webhookVars, limiterVars>>
             PROVE  PlatformInv'
  OBVIOUS
<1>1. UNCHANGED part
  BY DEF PlatformNext
<1>2. OrganizationInv'
  BY StepKeepsOrganizationInv DEF PlatformInv, PlatformNext
<1>3. LimiterInv'
  BY StepKeepsLimiterInv DEF PlatformInv, PlatformNext
<1>4. CASE part = "webhooks"
  <2>1. WebhookInv'
    BY <1>4, StepKeepsWebhookInv DEF PlatformInv, PlatformNext
  <2>2. WebhookTypeOK'
    BY <2>1, InvHasWebhookTypes, PTL
  <2> QED
    BY <1>1, <1>2, <1>3, <1>4, <2>1, <2>2 DEF PlatformInv
<1>5. CASE part # "webhooks"
  <2>1. UNCHANGED webhookVars
    BY <1>5 DEF PlatformNext
  <2> QED
    BY <1>1, <1>2, <1>3, <1>5, <2>1 DEF PlatformInv, WebhookTypeOK, webhookVars
<1> QED
  BY <1>4, <1>5

LEMMA PlatformInvHolds == PlatformSpec => []PlatformInv
BY InitHasPlatformInv, StepKeepsPlatformInv, PTL DEF PlatformSpec

\* Whichever component runs, the state of all of them stays well formed.
THEOREM PlatformTypes == PlatformSpec => []PlatformTypeOK
<1>1. PlatformInv => PlatformTypeOK
  BY DEF PlatformInv, PlatformTypeOK, OrganizationInv, LimiterInv
<1> QED
  BY <1>1, PlatformInvHolds, PTL
=============================================================================
