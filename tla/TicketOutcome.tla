--------------------------- MODULE TicketOutcome ---------------------------
(***************************************************************************)
(* What the approval manager promises about its tickets: every ticket that *)
(* is created is settled at most once, for good, and what the rest of the  *)
(* system is told about it, at most once, is that outcome.                 *)
(***************************************************************************)
CONSTANTS Ticket, Outcome, Open  \* Open, the lack of an outcome, is not in Outcome

VARIABLES outcome,   \* each ticket's outcome, or Open
          told       \* the outcome announced for each ticket, or Open

AInit == /\ outcome = [t \in Ticket |-> Open]
         /\ told = [t \in Ticket |-> Open]

Settle(t) == /\ outcome[t] = Open
             /\ \E o \in Outcome : outcome' = [outcome EXCEPT ![t] = o]
             /\ UNCHANGED told

Announce(t) == /\ outcome[t] # Open /\ told[t] = Open
               /\ told' = [told EXCEPT ![t] = outcome[t]]
               /\ UNCHANGED outcome

ANext == \E t \in Ticket : Settle(t) \/ Announce(t)

ASpec == AInit /\ [][ANext]_<<outcome, told>>
=============================================================================
