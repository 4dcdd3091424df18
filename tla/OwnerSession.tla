---------------------------- MODULE OwnerSession ----------------------------
(***************************************************************************)
(* The production client in one browser tab: the session that AuthContext  *)
(* keeps, and what ProductionOwnerContext shows of the user's businesses.  *)
(* Every request to the server is a promise: it may be answered after any  *)
(* number of clicks, session events and other answers, with a result or    *)
(* with an error, and it may outlive the component that asked. The owner's *)
(* component exists while the session is authenticated; each of its lives  *)
(* is a mount. The server is nondeterministic: memberships come and go.    *)
(***************************************************************************)
EXTENDS Integers

CONSTANTS Users,      \* accounts that sign in in this tab
          Tenants,    \* businesses
          MaxMounts,  \* bound: lives of the owner's component
          MaxAsked,   \* bound: clicks that ask the server for something
          MaxLoads    \* bound: in each life, the loads up to which clicks and session events ask for another

None == "none"  \* the empty id, and null

ASSUME SessionAssumption ==
  /\ MaxMounts \in Nat /\ MaxAsked \in Nat /\ MaxLoads \in [1 .. MaxMounts -> Nat]
  /\ None \notin Users \cup Tenants

VARIABLES auth,      \* the state of AuthProvider
          owner,     \* the state of ProductionOwnerProvider
          sequence,  \* snapshotRequestSequence of each mount
          stored,    \* the active tenant in sessionStorage
          requests,  \* promises that are not settled
          asked      \* how many requests other than snapshots were sent

sessionVars == <<auth, owner, sequence, stored, requests, asked>>

Mounts == 1 .. MaxMounts
NoSnapshot == [tenant |-> None, number |-> 0]

Unmounted(mount) ==
  [mount |-> mount, tenants |-> {}, active |-> None, snapshot |-> NoSnapshot,
   loading |-> FALSE, error |-> None]

InitSession ==
  /\ auth = [status |-> "loading", user |-> None, restoring |-> TRUE,
             expired |-> FALSE, signingOut |-> FALSE]
  /\ owner = Unmounted(0)
  /\ sequence = [m \in Mounts |-> 0]
  /\ stored = None
  /\ requests = {}
  /\ asked = 0

Mounted == auth.status = "authenticated"

-----------------------------------------------------------------------------
\* Requests. A snapshot is numbered by the sequence, other requests one after another. What a
\* callback captured goes with them: the tenant that was active, and the tenant preferred.

\* What an error of ProductionApiClient.request carries: no answer (0), an answer 401 that a
\* refreshed token did not change or no token at all, 403, or another error of the server.
ErrorStatuses == {0, 401, 403, 500}

Request(kind, mount, number, tenant, preferred) ==
  [kind |-> kind, mount |-> mount, number |-> number, tenant |-> tenant, preferred |-> preferred]

SnapshotRequest(mount, tenant) == Request("SNAPSHOT", mount, sequence[mount] + 1, tenant, None)

Here(r) == Mounted /\ r.mount = owner.mount

\* The start of refreshTenants and of loadSnapshot.
Waiting(p) == [p EXCEPT !.loading = TRUE, !.error = None]

\* Render: the state becomes p and the effect on the active tenant runs when that, or the auth
\* value, changed: it loads a snapshot, or drops the one there is. `others` stay unsettled.
Render(p, others, authChanged) ==
  /\ IF p.active = owner.active /\ ~authChanged
     THEN owner' = p /\ requests' = others /\ UNCHANGED sequence
     ELSE /\ owner' = IF p.active # None THEN Waiting(p) ELSE [p EXCEPT !.snapshot = NoSnapshot]
          /\ requests' = others \cup
               IF p.active # None THEN {SnapshotRequest(p.mount, p.active)} ELSE {}
          /\ sequence' = [sequence EXCEPT ![p.mount] = @ + 1]

\* loadSnapshot called by a callback, possibly of an earlier mount and for an earlier tenant.
LoadSnapshot(p, mount, tenant, others) ==
  /\ owner' = p
  /\ requests' = others \cup {SnapshotRequest(mount, tenant)}
  /\ sequence' = [sequence EXCEPT ![mount] = @ + 1]

-----------------------------------------------------------------------------
\* The session.

\* A session resets the mark of the expired one; without one nobody is signed in.
SignedIn(u) == [auth EXCEPT !.status = "authenticated", !.user = u, !.expired = FALSE]

SignedOut(a) == [a EXCEPT !.status = "unauthenticated", !.user = None]

\* A new mount: nothing is known yet and the tenants are asked for. A session that is set
\* again only renders, and asks for the tenants of another user.
BeginSession(u) ==
  IF ~Mounted
  THEN /\ owner.mount < MaxMounts
       /\ owner' = Waiting(Unmounted(owner.mount + 1))
       /\ sequence' = [sequence EXCEPT ![owner.mount + 1] = 1]
       /\ requests' = requests \cup {Request("TENANTS", owner.mount + 1, asked, None, None)}
       /\ asked' = asked + 1
  ELSE /\ sequence[owner.mount] < MaxLoads[owner.mount]
       /\ IF u = auth.user THEN Render(owner, requests, TRUE) /\ UNCHANGED asked
          ELSE /\ Render(Waiting(owner),
                         requests \cup {Request("TENANTS", owner.mount, asked, owner.active, None)},
                         TRUE)
               /\ asked' = asked + 1

\* The component is gone; what it asked for is still to come.
EndSession == owner' = Unmounted(owner.mount) /\ UNCHANGED <<sequence, requests, asked>>

\* getSession settles: with a session, with none, or with an error.
RestoreSession(u) ==
  /\ auth.restoring
  /\ IF u = None THEN auth' = [SignedOut(auth) EXCEPT !.restoring = FALSE] /\ EndSession
     ELSE auth' = [SignedIn(u) EXCEPT !.restoring = FALSE] /\ BeginSession(u)
  /\ UNCHANGED stored

RestoreFails ==
  /\ auth.restoring
  /\ auth' = [auth EXCEPT !.restoring = FALSE, !.status = "error", !.user = None]
  /\ EndSession
  /\ UNCHANGED stored

\* The listener of the auth client: a sign-in or sign-out here or in another tab, a new token.
AuthEvent(u) ==
  /\ IF u = None THEN auth' = SignedOut(auth) /\ EndSession ELSE auth' = SignedIn(u) /\ BeginSession(u)
  /\ UNCHANGED stored

\* The login page is there unless the session is loading or authenticated. A sign-up that waits
\* for its confirmation leaves the user signed out.
SignIn(u) ==
  /\ auth.status \in {"unauthenticated", "error"}
  /\ auth' = SignedIn(u)
  /\ BeginSession(u)
  /\ UNCHANGED stored

SignUpUnconfirmed ==
  /\ auth.status \in {"unauthenticated", "error"}
  /\ auth' = SignedOut(auth)
  /\ EndSession
  /\ UNCHANGED stored

SignOut ==
  /\ Mounted
  /\ auth' = SignedOut(auth)
  /\ EndSession
  /\ UNCHANGED stored

\* expireSession of an answer 401: the first one of a session signs out.
ExpireSession == auth' = [auth EXCEPT !.expired = TRUE, !.signingOut = @ \/ ~auth.expired]

\* The sign-out settles, failed or not.
ExpiryEnds ==
  /\ auth.signingOut
  /\ auth' = [SignedOut(auth) EXCEPT !.signingOut = FALSE]
  /\ EndSession
  /\ UNCHANGED stored

-----------------------------------------------------------------------------
\* What the user does. The routes are there once the tenants were loaded or not found.

Routed == Mounted /\ ~(owner.loading /\ owner.tenants = {})

\* Plausible error: any tenant may be selected.
AnyTenant(t) == TRUE

Selectable(t) == t \in owner.tenants

SelectTenant(t) ==
  /\ Routed
  /\ Selectable(t)
  /\ sequence[owner.mount] < MaxLoads[owner.mount]
  /\ stored' = t
  /\ Render([owner EXCEPT !.active = t], requests, FALSE)
  /\ UNCHANGED <<auth, asked>>

\* A tenant that is not among the user's is refused.
SelectRefused(t) ==
  /\ Routed
  /\ ~Selectable(t)
  /\ owner' = [owner EXCEPT !.error = "FORBIDDEN"]
  /\ UNCHANGED <<auth, sequence, stored, requests, asked>>

\* refresh, of the status line and after a command: the tenant is that of the render.
Refresh ==
  /\ Routed
  /\ owner.active # None
  /\ sequence[owner.mount] < MaxLoads[owner.mount]
  /\ LoadSnapshot(Waiting(owner), owner.mount, owner.active, requests)
  /\ UNCHANGED <<auth, stored, asked>>

Ask(kind, p) ==
  /\ asked < MaxAsked
  /\ owner' = p
  /\ requests' = requests \cup {Request(kind, owner.mount, asked, owner.active, None)}
  /\ asked' = asked + 1
  /\ UNCHANGED <<auth, sequence, stored>>

\* The status line offers to load the tenants again when access was refused.
RetryTenants == Routed /\ owner.error = "FORBIDDEN" /\ Ask("TENANTS", Waiting(owner))

\* createJourney; opting out, a new opportunity, a follow-up, a takeover and its end on the
\* customer's page are such commands too: all refresh with what they captured.
SendCommand == Routed /\ owner.active # None /\ Ask("COMMAND", owner)

\* provisionTenant on the onboarding page, and the acceptance of an invitation.
ProvisionTenant == Routed /\ owner.tenants = {} /\ Ask("JOIN", owner)
AcceptInvitation == Routed /\ Ask("JOIN", owner)

-----------------------------------------------------------------------------
\* Answers.

Settled(r) == requests \ {r}

\* Plausible error: an answer is taken whatever was asked since.
AnyAnswer(r) == TRUE

Current(r) == r.number = sequence[r.mount]

SnapshotArrives(r) ==
  /\ r.kind = "SNAPSHOT"
  /\ owner' = IF Current(r) /\ Here(r)
              THEN [owner EXCEPT !.snapshot = [tenant |-> r.tenant, number |-> r.number],
                                 !.loading = FALSE]
              ELSE owner
  /\ requests' = Settled(r)
  /\ UNCHANGED <<auth, sequence, stored, asked>>

\* Plausible error: the active tenant is kept although it is not listed.
KeptActive(r, list, first) ==
  IF r.preferred \in list THEN r.preferred
  ELSE IF r.tenant # None THEN r.tenant
  ELSE IF stored \in list THEN stored ELSE first

\* The preferred tenant, the one that was active when the list was asked for, the stored one,
\* or the first, if they are listed.
AuthorizedId(r, list, first) ==
  IF r.preferred \in list THEN r.preferred
  ELSE IF r.tenant \in list THEN r.tenant
  ELSE IF stored \in list THEN stored ELSE first

TenantsListed(r, list, first) ==
  /\ r.kind = "TENANTS"
  /\ IF list = {} THEN first = None ELSE first \in list
  /\ stored' = AuthorizedId(r, list, first)
  /\ IF Here(r)
     THEN Render([owner EXCEPT !.tenants = list, !.active = AuthorizedId(r, list, first),
                               !.loading = FALSE], Settled(r), FALSE)
     ELSE requests' = Settled(r) /\ UNCHANGED <<owner, sequence>>
  /\ UNCHANGED <<auth, asked>>

\* The command was done: the snapshot of the tenant that was active when it was sent is loaded.
CommandDone(r) ==
  /\ r.kind = "COMMAND"
  /\ LoadSnapshot(IF Here(r) THEN Waiting(owner) ELSE owner, r.mount, r.tenant, Settled(r))
  /\ UNCHANGED <<auth, stored, asked>>

\* The tenant was created or joined: the list is asked for again, and the tenant preferred.
Joined(r, tenant) ==
  /\ r.kind = "JOIN"
  /\ owner' = IF Here(r) THEN Waiting(owner) ELSE owner
  /\ requests' = Settled(r) \cup {Request("TENANTS", r.mount, asked, r.tenant, tenant)}
  /\ asked' = asked + 1
  /\ UNCHANGED <<auth, sequence, stored>>

\* The forms show what went wrong with their commands.
FormFails(r) ==
  /\ r.kind \in {"COMMAND", "JOIN"}
  /\ requests' = Settled(r)
  /\ UNCHANGED <<auth, owner, sequence, stored, asked>>

\* The failure of a list, or of the snapshot that was asked for last, is handled.
Handled(r) == r.kind = "TENANTS" \/ (r.kind = "SNAPSHOT" /\ Current(r))

StaleFailure(r) ==
  /\ r.kind = "SNAPSHOT" /\ ~Current(r)
  /\ requests' = Settled(r)
  /\ UNCHANGED <<auth, owner, sequence, stored, asked>>

\* While the session is being closed the spinner stays.
Unauthenticated(r) ==
  /\ Handled(r)
  /\ ExpireSession
  /\ requests' = Settled(r)
  /\ owner' = IF Here(r) /\ auth.expired THEN [owner EXCEPT !.loading = FALSE] ELSE owner
  /\ UNCHANGED <<sequence, stored, asked>>

Forgotten(p) == [p EXCEPT !.tenants = {}, !.active = None, !.snapshot = NoSnapshot,
                          !.loading = FALSE, !.error = "FORBIDDEN"]

Forbidden(r) ==
  /\ Handled(r)
  /\ stored' = None
  /\ IF Here(r) THEN Render(Forgotten(owner), Settled(r), FALSE)
     ELSE requests' = Settled(r) /\ UNCHANGED <<owner, sequence>>
  /\ UNCHANGED <<auth, asked>>

\* Plausible error: a failed request leaves the spinner.
FailedLoading(p, kind) == [p EXCEPT !.error = kind]

Failed(p, kind) == [p EXCEPT !.error = kind, !.loading = FALSE]

ServerFails(r, status) ==
  /\ Handled(r)
  /\ owner' = IF Here(r) THEN Failed(owner, IF status = 0 THEN "NETWORK" ELSE "SERVER") ELSE owner
  /\ requests' = Settled(r)
  /\ UNCHANGED <<auth, sequence, stored, asked>>

Fails(r, status) ==
  \/ FormFails(r)
  \/ StaleFailure(r)
  \/ status = 401 /\ Unauthenticated(r)
  \/ status = 403 /\ Forbidden(r)
  \/ status \in {0, 500} /\ ServerFails(r, status)

Answers(r) ==
  \/ SnapshotArrives(r)
  \/ \E list \in SUBSET Tenants, first \in Tenants \cup {None} : TenantsListed(r, list, first)
  \/ CommandDone(r)
  \/ \E tenant \in Tenants : Joined(r, tenant)
  \/ \E status \in ErrorStatuses : Fails(r, status)

-----------------------------------------------------------------------------
NextSession ==
  \/ \E u \in Users \cup {None} : RestoreSession(u) \/ AuthEvent(u)
  \/ RestoreFails
  \/ \E u \in Users : SignIn(u)
  \/ SignUpUnconfirmed
  \/ SignOut
  \/ ExpiryEnds
  \/ \E t \in Tenants : SelectTenant(t) \/ SelectRefused(t)
  \/ Refresh
  \/ RetryTenants
  \/ SendCommand
  \/ ProvisionTenant
  \/ AcceptInvitation
  \/ \E r \in requests : Answers(r)

SessionSpec == InitSession /\ [][NextSession]_sessionVars

-----------------------------------------------------------------------------
\* Properties.

RequestRows ==
  [kind : {"SNAPSHOT", "TENANTS", "COMMAND", "JOIN"}, mount : Mounts, number : Nat,
   tenant : Tenants \cup {None}, preferred : Tenants \cup {None}]

\* Typing: there is a user exactly while the session is authenticated, and what was asked for has
\* a number that was given.
SessionTypeOK ==
  /\ auth \in [status : {"loading", "authenticated", "unauthenticated", "error"},
               user : Users \cup {None}, restoring : BOOLEAN, expired : BOOLEAN,
               signingOut : BOOLEAN]
  /\ (auth.user # None) <=> Mounted
  /\ owner.mount \in 0 .. MaxMounts /\ (Mounted => owner.mount > 0)
  /\ owner.tenants \subseteq Tenants
  /\ owner.active \in Tenants \cup {None}
  /\ owner.snapshot.tenant \in Tenants \cup {None}
  /\ owner.loading \in BOOLEAN
  /\ owner.error \in {None, "NETWORK", "FORBIDDEN", "SERVER"}
  /\ sequence \in [Mounts -> Nat] /\ asked \in Nat
  /\ stored \in Tenants \cup {None}
  /\ requests \subseteq RequestRows
  /\ \A r \in requests : IF r.kind = "SNAPSHOT" THEN r.number \in 1 .. sequence[r.mount]
                         ELSE r.number < asked

\* The active business is one of those the server listed last, and there is one whenever it
\* listed any: whatever was stored, selected, preferred or captured by a callback before.
ActiveIsListed ==
  IF owner.tenants = {} THEN owner.active = None ELSE owner.active \in owner.tenants

\* src/src/state/ProductionOwnerContext.test.tsx:61 "ignores a stale snapshot response": what a mount
\* shows is never replaced by the answer to an older load.
NewerSnapshotsOnly ==
  [][owner'.mount = owner.mount /\ owner'.snapshot # NoSnapshot =>
       owner'.snapshot.number >= owner.snapshot.number]_sessionVars

\* While the user has a business, a spinner has a request behind it whose answer ends it, or the
\* session is being closed: no order of answers leaves the page loading for ever.
SpinnerHasCause ==
  Mounted /\ owner.loading /\ owner.tenants # {} =>
    \/ auth.signingOut
    \/ \E r \in requests : r.mount = owner.mount /\ Handled(r)

\* src/src/features/production/ProductionPages.tsx:299 (in Hebrew): "Every customer here belongs to
\* the active business that the server approved." The customers are those of the snapshot.
CustomersAreOfActiveBusiness ==
  Mounted /\ ~owner.loading /\ owner.error = None
    /\ owner.active # None /\ owner.snapshot # NoSnapshot =>
      owner.snapshot.tenant = owner.active
=============================================================================
