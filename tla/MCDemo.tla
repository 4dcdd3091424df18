------------------------------- MODULE MCDemo -------------------------------
(***************************************************************************)
(* The demo on small instances. A behaviour belongs to one scope, chosen   *)
(* at the start: the work and the money of a tenant of one kind, the       *)
(* conversation of any tenant, or messages being sent while work is done   *)
(* and paid. Within a scope the operations interleave freely with those    *)
(* that change the opportunity.                                            *)
(***************************************************************************)
EXTENDS DemoConversation, TLC

CONSTANTS Scopes,  \* scopes the run explores
          a1, a2, q1, slot1, slot2, c1, c2, greeting, booking, date, area, stop

VARIABLE scope

mcVars == <<demo, kind, calls, received, decided, scope>>

MCPrice == [w \in Appointments \cup Quotes |-> IF w = a2 THEN 1 ELSE 2]
MCDeposit == [w \in Appointments \cup Quotes |-> IF w = a2 THEN 0 ELSE 1]
MCCadence == [x \in Scenarios |-> IF x = "QUOTE_RESPONSE" THEN 2 ELSE 1]

Message(id, topic, isStop, fact, value) ==
  [id |-> id, topic |-> topic, stop |-> isStop, fact |-> fact, value |-> value, correction |-> FALSE]

\* A question outside what the assistant may answer, a booking that names a service, a date,
\* which another date contradicts, a place outside the service area, and a request to stop.
MCMessages ==
  {Message(greeting, "unsafe", FALSE, "none", 1),
   Message(booking, "booking", FALSE, "service", 1),
   Message(date, "other", FALSE, "preferredDate", 1),
   Message(area, "quote", FALSE, "location", 2),
   Message(stop, "optOut", TRUE, "none", 1)}

\* Bounds: the messages that may be received in a scope, and how many of them.
Inbound == [chat |-> {greeting, booking}, customer |-> {booking, date, area, stop}, sends |-> {}]
MaxReceived == [chat |-> 2, customer |-> 3, sends |-> 0]

\* Bound: the owner writes no messages in the customer's scope.
OwnerIsQuiet == \A c \in Calls : calls'[c].pc = "sending" => calls'[c].author = "ASSISTANT"

\* Bounds: one send at a time is mixed with the work of one appointment.
OneAppointment == demo'.appointments[a1].status = "NONE"
OneSend == Cardinality({c \in Calls : calls'[c] # NoCall}) <= 1

MCSymmetry == Permutations({slot1, slot2}) \cup Permutations({c1, c2})

MCInit ==
  /\ InitConversation
  /\ scope \in Scopes
  /\ scope = "appointments" => kind = "CLINIC"
  /\ scope = "jobs" => kind = "AUTO_DETAILING"
  /\ scope \in {"chat", "sends"} => kind = "CLINIC"
  /\ scope = "customer" => kind = "HOME_SERVICES"

Quiet == UNCHANGED <<kind, calls, received, decided, scope>>

MCNext ==
  \/ NextOpportunity /\ Quiet
  \/ scope = "appointments" /\ NextAppointments /\ Quiet
  \/ scope = "jobs" /\ NextQuotes /\ Quiet
  \/ scope \in {"appointments", "jobs"} /\ (NextPayments \/ NextFollowUps) /\ Quiet
  \/ scope = "customer" /\ NextCustomer /\ Quiet
  \/ scope = "sends" /\ (NextAppointments \/ NextPayments) /\ OneAppointment /\ Quiet
  \/ scope \in {"chat", "sends"} /\ NextTakeover /\ Quiet
  \/ /\ scope \in {"customer", "chat", "sends"} /\ NextCalls /\ UNCHANGED <<kind, scope>>
     /\ received' \subseteq Inbound[scope] /\ Cardinality(received') <= MaxReceived[scope]
     /\ scope = "customer" => OwnerIsQuiet
     /\ scope = "sends" => OneSend

MCSpec == MCInit /\ [][MCNext]_mcVars
=============================================================================
