------------------------------ MODULE Delivery ------------------------------
(***************************************************************************)
(* What the notifier promises about a page, whatever its relays do: it may *)
(* reach the phone any number of times, is recorded at most once, only     *)
(* when it has reached the phone, and never after it was given up.  The    *)
(* relays of Notifier implement it; Replies relies on it.                  *)
(***************************************************************************)
CONSTANT Rows  \* the outbox rows there may come to be

VARIABLES
  stage,   \* what has become of a row
  reached  \* whether a provider has sent it

deliveryVars == <<stage, reached>>

Stages == {"ABSENT", "OPEN", "RECORDED", "GIVEN_UP"}

DeliveryInit ==
  /\ stage = [o \in Rows |-> "ABSENT"]
  /\ reached = [o \in Rows |-> FALSE]

\* The page is committed to the outbox.
Queue(o) ==
  /\ stage[o] = "ABSENT"
  /\ stage' = [stage EXCEPT ![o] = "OPEN"]
  /\ UNCHANGED reached

\* A provider sends it; a relay that is late may do so when all is over.
Reach(o) ==
  /\ stage[o] # "ABSENT"
  /\ reached' = [reached EXCEPT ![o] = TRUE]
  /\ UNCHANGED stage

\* Its message enters the messages table.
Record(o) ==
  /\ stage[o] = "OPEN"
  /\ reached[o]
  /\ stage' = [stage EXCEPT ![o] = "RECORDED"]
  /\ UNCHANGED reached

GiveUp(o) ==
  /\ stage[o] = "OPEN"
  /\ stage' = [stage EXCEPT ![o] = "GIVEN_UP"]
  /\ UNCHANGED reached

DeliveryNext == \E o \in Rows : Queue(o) \/ Reach(o) \/ Record(o) \/ GiveUp(o)

DeliverySpec == DeliveryInit /\ [][DeliveryNext]_deliveryVars
=============================================================================
