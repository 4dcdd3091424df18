---------------------- MODULE MCOpportunityRecovery ----------------------
(***************************************************************************)
(* Instances of OpportunityRecovery for TLC. An opportunity is an inquiry, *)
(* created by a request, or a lead that migration 0004 imported; the       *)
(* bounds of imported leads, which begin in many more states, are tighter. *)
(***************************************************************************)
EXTENDS OpportunityRecovery, TLC

CONSTANTS c1,
          ImportTime,      \* bound of the clock with imported leads
          ImportAttempts   \* bound of the attempts on their follow-ups

MCOneCustomer == [o \in Opportunities |-> c1]

Profile(autonomy, highValue) ==
  [autonomy |-> autonomy, highValue |-> highValue, serviceIntent |-> TRUE, missedCall |-> FALSE]

\* One profile for each way the policy treats an eligible opportunity.
MCProfiles ==
  {Profile("SUGGEST", FALSE), Profile("APPROVE_TO_SEND", FALSE),
   Profile("AUTOPILOT", FALSE), Profile("AUTOPILOT", TRUE)}

MCTwoProfiles == {Profile("APPROVE_TO_SEND", FALSE), Profile("AUTOPILOT", FALSE)}

\* Identities of actions are only compared.
MCActionSymmetry == Permutations(Actions)

Imported(o) == Exists(o) /\ opportunities[o].profile \in LegacyProfiles

\* Clients of the ledger claim an attribution of imported leads only.
MCBounds ==
  /\ \A o \in Opportunities :
       /\ Imported(o) => now' <= ImportTime
       /\ ~Imported(o) => opportunities'[o].attribution \notin ClientAttributions \ {"ORGANIC", "ASSISTED"}
  /\ \A j \in Jobs : Imported(jobs[j].opportunity) => jobs'[j].attempts <= ImportAttempts

\* Only customers of imported leads consent to marketing. Under SUGGEST the value of an opportunity
\* decides nothing, and an estimate only at the stage ESTIMATE, which no import has.
MCInit ==
  /\ Init
  /\ \A c \in Customers :
       customers[c].marketing => \E o \in Opportunities : CustomerOf[o] = c /\ Imported(o)
  /\ \A o \in Opportunities :
       Imported(o) => ~opportunities[o].estimate /\ ~opportunities[o].profile.highValue

MCNext == Next /\ MCBounds

MCSpec == MCInit /\ [][MCNext]_vars
==========================================================================
