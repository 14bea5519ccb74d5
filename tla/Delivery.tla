------------------------------ MODULE Delivery ------------------------------
(***************************************************************************)
(* What the transport promises its user: data is accepted, arrives, and is *)
(* given up by the sender only after it has arrived, once and for all.     *)
(***************************************************************************)
CONSTANT Data

VARIABLES
  accepted,    \* the data the sender has taken on
  arrived,     \* the data that has reached the receiver
  settled      \* the data the sender no longer keeps

Init == accepted = {} /\ arrived = {} /\ settled = {}

Accept ==
  /\ \E d \in Data \ accepted : accepted' = accepted \cup {d}
  /\ UNCHANGED <<arrived, settled>>

Arrive ==
  /\ \E new \in SUBSET accepted : arrived' = arrived \cup new
  /\ UNCHANGED <<accepted, settled>>

Settle ==
  /\ \E done \in SUBSET arrived : settled' = settled \cup done
  /\ UNCHANGED <<accepted, arrived>>

Spec == Init /\ [][Accept \/ Arrive \/ Settle]_<<accepted, arrived, settled>>
=============================================================================
