--------------------------- MODULE WebhookIngestion ---------------------------
(***************************************************************************)
(* Ingestion of provider events: one system transaction per delivery.      *)
(* Providers deliver an event several times, at once, for the wrong        *)
(* endpoint or with other contents; deliveries may die before COMMIT.      *)
(***************************************************************************)
EXTENDS Naturals, FiniteSets

CONSTANTS Deliveries,  \* HTTP requests of providers
          Endpoints,   \* configured endpoints of one provider, each of another tenant
          Events,      \* provider_event_id
          Payloads     \* bodies, told apart by their hash

VARIABLES delivery,  \* per delivery: what it carries, where its transaction is, its answer
          events     \* webhook_events, per (provider, provider_event_id)

webhookVars == <<delivery, events>>

NoEvent == [endpoint |-> "none", payload |-> "none", state |-> "absent"]

\* The row of a recorded event; its endpoint stands for the tenant it belongs to.
EventRows == [endpoint : Endpoints, payload : Payloads, state : {"received", "processed"}]
             \cup {NoEvent}

DeliveryStates == {"new", "begun", "inserted", "marked", "committed", "rolledBack"}
Answers == {"none", "processed", "replayed", "401", "404", "409", "lost"}

InitWebhooks ==
  /\ delivery \in [Deliveries -> [endpoint : Endpoints, event : Events, payload : Payloads,
                                  pc : {"new"}, answer : {"none"}]]
  /\ events = [v \in Events |-> NoEvent]

\* Deliveries whose uncommitted row the unique index holds for their event.
Inserting(v) == {d \in Deliveries : delivery[d].event = v /\ delivery[d].pc \in {"inserted", "marked"}}

Answered(d, pc, answer) == delivery' = [delivery EXCEPT ![d].pc = pc, ![d].answer = answer]

\* findWebhookEndpoint, the signature and the envelope.
Verify(d) ==
  /\ delivery[d].pc = "new"
  /\ \/ Answered(d, "begun", "none")
     \/ \E refusal \in {"401", "404"} : Answered(d, "rolledBack", refusal)
  /\ UNCHANGED events

\* Plausible error: the insert does not wait for a concurrent one.
NoneInserting(v) == TRUE

\* INSERT ON CONFLICT DO NOTHING waits until no other transaction holds the key.
KeyIsSettled(v) == Inserting(v) = {}

Record(d) ==
  /\ delivery[d].pc = "begun"
  /\ KeyIsSettled(delivery[d].event)
  /\ events[delivery[d].event] = NoEvent
  /\ Answered(d, "inserted", "none")
  /\ UNCHANGED events

SameEvent(d) == /\ events[delivery[d].event].endpoint = delivery[d].endpoint
                /\ events[delivery[d].event].payload = delivery[d].payload

Replay(d) ==
  /\ delivery[d].pc = "begun"
  /\ KeyIsSettled(delivery[d].event)
  /\ events[delivery[d].event] # NoEvent
  /\ IF SameEvent(d) THEN Answered(d, "committed", "replayed") ELSE Answered(d, "rolledBack", "409")
  /\ UNCHANGED events

MarkProcessed(d) ==
  /\ delivery[d].pc = "inserted"
  /\ Answered(d, "marked", "none")
  /\ UNCHANGED events

CommitDelivery(d) ==
  /\ delivery[d].pc = "marked"
  /\ events' = [events EXCEPT ![delivery[d].event] =
       [endpoint |-> delivery[d].endpoint, payload |-> delivery[d].payload, state |-> "processed"]]
  /\ Answered(d, "committed", "processed")

\* The process or its connection dies: ROLLBACK.
LoseDelivery(d) ==
  /\ delivery[d].pc \in {"begun", "inserted", "marked"}
  /\ Answered(d, "rolledBack", "lost")
  /\ UNCHANGED events

\* A provider that was not answered with success sends the event again.
Redeliver(d) ==
  /\ delivery[d].pc = "rolledBack"
  /\ Answered(d, "new", "none")
  /\ UNCHANGED events

NextWebhooks ==
  \E d \in Deliveries : Verify(d) \/ Record(d) \/ Replay(d) \/ MarkProcessed(d)
                        \/ CommitDelivery(d) \/ LoseDelivery(d) \/ Redeliver(d)

WebhookSpec == InitWebhooks /\ [][NextWebhooks]_webhookVars

WebhookTypeOK ==
  /\ events \in [Events -> EventRows]
  /\ \A d \in Deliveries : delivery[d].pc \in DeliveryStates /\ delivery[d].answer \in Answers

\* Of all deliveries of an event, however they meet, die and come again, one processes it and the
\* others are answered from its row or refused; an event never stays recorded but unprocessed.
\* (WebhookService.ingest, recordWebhookEvent)
EventsAreProcessedOnce ==
  \A v \in Events :
    LET winners == {d \in Deliveries : delivery[d].event = v /\ delivery[d].answer = "processed"}
        answered == {d \in Deliveries : delivery[d].event = v /\ delivery[d].pc = "committed"}
    IN  /\ Cardinality(winners) <= 1
        /\ events[v] # NoEvent <=> winners # {}
        /\ events[v].state # "received"
        /\ \A d \in answered : SameEvent(d)
=============================================================================
