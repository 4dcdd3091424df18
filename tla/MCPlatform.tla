----------------------------- MODULE MCPlatform -----------------------------
(***************************************************************************)
(* Instances of the components around the store's operations. They share   *)
(* no state, so that a behaviour runs one of them and leaves the others in *)
(* their initial states.                                                   *)
(***************************************************************************)
EXTENDS Organizations, WebhookIngestion, RateLimiter

CONSTANTS ann, bob, cat, annMail, bobMail

VARIABLE part  \* the component of this behaviour

\* Two accounts with one address; ann's is another.
MCMailOf == [u \in Users |-> IF u = ann THEN annMail ELSE bobMail]

MCRoutes == {[name |-> "invite", role |-> "admin"], [name |-> "revoke", role |-> "admin"]}

PlatformInit ==
  /\ part \in {"organizations", "webhooks", "limiter"}
  /\ InitOrganizations
  /\ InitLimiter
  /\ IF part = "webhooks" THEN InitWebhooks
     ELSE /\ events = [v \in Events |-> NoEvent]
          /\ delivery = [d \in Deliveries |-> [endpoint |-> CHOOSE p \in Endpoints : TRUE,
               event |-> CHOOSE v \in Events : TRUE, payload |-> CHOOSE p \in Payloads : TRUE,
               pc |-> "new", answer |-> "none"]]

PlatformNext ==
  /\ UNCHANGED part
  /\ \/ part = "organizations" /\ NextOrganizations /\ UNCHANGED <<webhookVars, limiterVars>>
     \/ part = "webhooks" /\ NextWebhooks /\ UNCHANGED <<organizationVars, limiterVars>>
     \/ part = "limiter" /\ NextLimiter /\ UNCHANGED <<organizationVars, webhookVars>>

PlatformSpec ==
  PlatformInit /\ [][PlatformNext]_<<part, organizationVars, webhookVars, limiterVars>>

PlatformTypeOK == OrganizationTypeOK /\ WebhookTypeOK /\ LimiterTypeOK
=============================================================================
